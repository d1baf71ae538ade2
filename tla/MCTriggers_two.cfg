SPECIFICATION Spec
CONSTANTS
    t1 = t1
    t2 = t2
    Nobody = Nobody
    Calls <- MCCalls
    Limit <- MCLimit
    Arguments <- MCArguments
INVARIANTS
    TypeOK
    CreatedCanFire
    CreatedOnceAtFirstIssue
    NotFoundExplained
