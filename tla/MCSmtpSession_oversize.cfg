\* A lock-step client whose message passes the size limit.
CONSTANTS
    alice = alice
    bob = bob
    hello = hello
    bye = bye
    None = None
    Address = {alice, bob}
    Text = {hello, bye}
    DataLimit = 1
    HasContext = TRUE
    Outcomes = {"delivered", "refused"}
    ClientLines <- SessionLines
    MaxBacklog <- NoBound
    MaxRcpt = 1
    MaxBody = 2
SPECIFICATION SSpec
INVARIANT
    DataEnds
