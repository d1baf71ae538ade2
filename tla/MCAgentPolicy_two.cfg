SPECIFICATION MCWritersSpec
CONSTANTS
    t1 = t1
    t2 = t2
    t3 = t3
    Stored = Stored
    Null = Null
    ToolCalls <- MCToolCalls
    Arguments <- MCOwnership
    Calls <- MCCalls
    Limit <- MCLimit
SYMMETRY MCSymmetry
INVARIANTS
    LaterWriteStays
    ReadYourWrites
