CONSTANTS
    r1 = r1
    r2 = r2
    p1 = p1
    p2 = p2
    p3 = p3
    p4 = p4
    a1 = a1
    a2 = a2
    Requests = {r1, r2}
    Pairs = {p1, p2, p3, p4}
    NoPair = NoPair
    Addresses = {a1}
    NoAddress = NoAddress
SPECIFICATION EndsSpec
INVARIANTS
    TypeOK
    ExchangedTokenIsRevoked
    OneHeirPerAddress
PROPERTIES
    EveryRequestEnds
