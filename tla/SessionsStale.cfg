CONSTANTS
    Conn = {c1, c2}
    RealIP = {r1, r2}
    InternalIP <- MCInternalIP
    NoIP = NoIP
    KernelMayFail = FALSE
    Self = p1
    Proxy = {p1}
    ProxyNum = {1}
    Slot <- MCSlot
    TTL <- MCTTL
    Wrap = 4
    MaxCount <- MCMaxCount
SPECIFICATION SessionsSpec
PROPERTY
    FirstConnectionAddsElement
