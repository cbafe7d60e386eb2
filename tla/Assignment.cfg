CONSTANTS
    p1 = p1
    p2 = p2
    RealIP = {r1, r2}
    Proxy = {p1, p2}
    ProxyNum = {1, 2}
    Slot <- MCSlot
    TTL <- MCTTL
    Wrap = 4
    MaxCount <- MCMaxCount
    None = None
SPECIFICATION Spec
INVARIANTS
    TypeOK
    IdentityUnique
    ReverseIsCurrent
PROPERTY
    ReservedIsPermanent
