\* Two clients that may reset their connections, one of which pipelines two
\* messages, and a pool of two threads.
CONSTANTS
    a = a
    b = b
    Conn = {a, b}
    Main = Main
    w1 = w1
    w2 = w2
    Workers = {w1, w2}
    Fd = {1, 2}
    None = None
    MaxMessages <- TwoAndNone
    Ahead = 2
    Resets = TRUE
SPECIFICATION FairSpec
INVARIANTS
    TypeOK
    NoLostWakeup
    DiesOfResets
PROPERTIES
    DeafInBackground
    
