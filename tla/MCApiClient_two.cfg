SPECIFICATION FairSpec
CONSTANTS
    c1 = c1
    c2 = c2
    None = None
    Calls <- MCCalls
    RetriesArg <- MCRetriesArg
    Default = None
    Responses <- MCFewResponses
INVARIANTS
    EffectsWithinBudget
    CleanFirstAnswer
PROPERTY EveryCallReturns
