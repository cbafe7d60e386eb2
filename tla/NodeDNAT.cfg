CONSTANTS
    c1 = c1
    c2 = c2
    a1 = a1
    b1 = b1
    pub = pub
    lan = lan
    Container = {c1, c2}
    Network = {1, 2}
    Addr = {a1, b1}
    NetOf <- MCNetOf
    DockerNetwork = 2
    Bindings <- MCBindings
    PublicIP = pub
    StartPort = 1
    EndPort = 2
    None = None
SPECIFICATION FairSpec
INVARIANTS
    TypeOK
    QuietMeansCurrent
    TranslatedIsExempt
PROPERTY
    Converges
CHECK_DEADLOCK FALSE
