SPECIFICATION Spec
CONSTANTS
    t1 = t1
    t2 = t2
    Nobody = Nobody
    Calls <- MCOneCall
    Limit <- MCLimit
    Arguments <- MCArguments
INVARIANT RunsOnceOnCreate
