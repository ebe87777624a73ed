\* Two threads, three connections, one of which may meet a silent server.
CONSTANTS
    a = a
    b = b
    c = c
    ann = ann
    bob = bob
    cat = cat
    Worker = {w1, w2}
    Conn = {a, b, c}
    None = None
    Missing = Missing
    Eeh = Eeh
    Reader = Reader
    User <- Users3
    Recipient <- RecipientOf
    AllowLists <- Allow
    DenyLists <- Deny
    Regular = {a, c}
    MaxEdits = 2
    MaxHung = 1
SPECIFICATION FairSpec
CONSTRAINT BobWhereItMatters
INVARIANTS
    TypeOK
    Steady
    OneWriter
    Kept
    Enforced
PROPERTIES
    CatchesUp
    Served
    ImplementsDelivery
