SPECIFICATION Spec
CONSTANTS
    t1 = t1
    t2 = t2
    Stored = Stored
    Calls <- MCCalls
    Limit <- MCLimit
    TwilioKeys <- MCTwilioKeys
    ConnectorTools <- MCConnectorTools
    Arguments <- MCArguments
INVARIANTS
    TypeOK
    LaterCallStands
    VoicesPaired
    OmittedKept
    AnswerShowsChange
