CONSTANTS
    Conn = {c1, c2, c3}
    RealIP = {r1, r2}
    InternalIP = {i1, i2}
    NoIP = NoIP
    KernelMayFail = TRUE
SPECIFICATION Spec
INVARIANTS
    TypeOK
    RefCountCoversHolders
    LiveIdentityInstalled
PROPERTIES
    ElementPinned
    LeaseSpec

