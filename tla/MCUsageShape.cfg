SPECIFICATION FairSpec
CONSTANTS
    MaxRows = 12
    Marker = 7
    Budget = 60
    Payloads <- MCPayloads
INVARIANTS
    TypeOK
    KeepsTheMost
    MarkerTrue
PROPERTIES
    Halves
    Answers
