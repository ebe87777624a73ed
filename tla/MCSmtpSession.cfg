\* A lock-step client, no size limit, replies that can be encoded.
CONSTANTS
    alice = alice
    bob = bob
    hello = hello
    bye = bye
    None = None
    Address = {alice, bob}
    Text = {hello, bye}
    DataLimit = 0
    HasContext = TRUE
    Outcomes = {"delivered", "refused"}
    ClientLines <- SessionLines
    MaxBacklog <- NoBound
    MaxRcpt = 2
    MaxBody = 2
SPECIFICATION SFairSpec
INVARIANTS
    EnvelopeIntegrity
    InStep
    NoLostReply
PROPERTIES
    Answered
    Closes
    ImplementsTransaction
