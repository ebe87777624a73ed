\* Any client, STARTTLS offered, a limit of one line of text; the loop and the
\* workers keep going.
CONSTANTS
    alice = alice
    hello = hello
    None = None
    Address = {alice}
    Text = {hello}
    DataLimit = 1
    HasContext = TRUE
    Outcomes = {"delivered", "nonascii"}
    ClientLines <- Lines
    MaxBacklog <- Bound
SPECIFICATION FairSpec
INVARIANTS
    TypeOK
    EnvelopeOrder
    JobsComplete
    BackgroundHasJob
    HandshakeClean
PROPERTIES
    WakesUp
    ChunkEnds
