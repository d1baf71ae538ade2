SPECIFICATION FairSpec
CONSTANTS
    t1 = t1
    t2 = t2
    t3 = t3
    Stored = Stored
    Null = Null
    ToolCalls <- MCOneToolCall
    Arguments <- MCArguments
    Calls <- MCCalls
    Limit <- MCLimit
INVARIANTS
    TypeOK
    GuardHolds
    OwnersUnaffected
    PolicyWrittenPastGuard
PROPERTY EveryToolAnswers
