CONSTANTS
    p1 = p1
    p2 = p2
    RealIP = {r1}
    Proxy = {p1, p2}
    ProxyNum = {1, 2}
    Slot <- MCSlot
    TTL <- MCNoTTL
    Wrap = 3
    MaxCount <- MCMaxCount
    None = None
    Dir = {d1}
    RedisMayFail = FALSE
SPECIFICATION WatcherFair
PROPERTY
    BannedIsReserved
