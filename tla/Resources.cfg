CONSTANTS
    i1 = i1
    i2 = i2
    c1 = c1
    p1 = p1
    p2 = p2
    p3 = p3
    Inbounds = {i1, i2}
    Clients = {c1}
    Ports = {p1, p2, p3}
    Reserved = {p3}
    MaxOps = 5
SPECIFICATION Spec
INVARIANTS
    TypeOK
    SubscriptionIsServed
    CredentialsFit
    LinksLast
    RevokedStays
SYMMETRY Symmetry
CHECK_DEADLOCK FALSE
