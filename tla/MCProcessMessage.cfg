\* Up to three recipients, any directory, any failure.
CONSTANTS
    ann = ann
    bob = bob
    staff = staff
    here = here
    there = there
    away = away
    malformed = malformed
    nohost = nohost
    None = None
    Name = {ann, bob, staff}
    Domain = {here, there}
    Foreign = {away}
    NoHost = nohost
    Malformed = malformed
    CheckDomains = TRUE
    Messages <- MCMessages
    Directories <- MCDirectories
    MaxExchanges = 2
SPECIFICATION FairSpec
INVARIANTS
    TypeOK
    AcceptedDelivered
    RefusedUndelivered
    OnceEach
PROPERTIES
    Returns
