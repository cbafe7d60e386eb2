CONSTANTS
    i1 = i1
    i2 = i2
    Base = 4
    Groups = 2
    Nul = 0
    Space = 1
    Dot = 2
    LowerOf <- MCLowerOf
    Config <- MCConfig
    IP = {i1, i2}
    None = None
    LiteralOf <- MCLiteralOf
    Host <- MCHost
    Damaged <- MCDamaged
    Version = {5}
    Rest <- MCRest
SPECIFICATION FairSpec
INVARIANTS
    TypeOK
    NothingLost
    IntactIsUnderstood
    RoutedAsConfigured
    NamelessGoesByAddress
PROPERTY
    Decided
CHECK_DEADLOCK FALSE
