SPECIFICATION Spec
CONSTANTS
    r1 = r1
    r2 = r2
    r3 = r3
    keyA = keyA
    keyB = keyB
    tenantA = tenantA
    tenantB = tenantB
    host = host
    Missing = Missing
    Empty = Empty
    Requests <- MCRequests
    Values <- MCValues
    Inbound <- MCInbound
INVARIANTS
    TypeOK
    Isolation
    OnlyComplete
