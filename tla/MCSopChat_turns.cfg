SPECIFICATION FairSpec
CONSTANTS
    MaxTurns = 3
    Calls <- MCCalls
    Limit <- MCLimit
INVARIANTS
    TypeOK
    OneRunPerTurn
    SecondRunExplained
    StatusMeansRan
PROPERTY TurnsEnd
