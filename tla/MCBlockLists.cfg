\* Two lists, two nameservers and one search suffix.
CONSTANTS
    s1 = s1
    s2 = s2
    Server = {s1, s2}
    NameServers <- ResolvConf
    Names = 2
    Lifetime = 5
    AttemptTime = 2
    Lists = 2
SPECIFICATION FairSpec
INVARIANTS
    Judged
    InTime
PROPERTIES
    Ends
