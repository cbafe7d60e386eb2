CONSTANTS
    eu = eu
    sg = sg
    h1 = h1
    h2 = h2
    Region = {eu, sg}
    Fallback = sg
    Hosts <- MCHosts
    RegionOf <- MCRegionOf
    AnswerIPs <- MCAnswerIPs
    Window = 2
    Unset = Unset
    MayFail = {eu, sg}
    DNSMayFail = TRUE
SPECIFICATION FairSpec
INVARIANTS
    TypeOK
    OneRegionAnswers
PROPERTIES
    FailbackWaits
    HostnameDone
    Settles
