SPECIFICATION Spec
CONSTANTS
    c1 = c1
    c2 = c2
    None = None
    Calls <- MCOneCall
    RetriesArg <- MCOneRetriesArg
    Default = None
    Responses <- MCResponses
INVARIANT ErrorStatusIsError
