SPECIFICATION ReadingSpec
CONSTANT Outputs <- MCOutputs
INVARIANTS
    ReadingTypeOK
    ReplyIsLastSpoken
    StatusTells
