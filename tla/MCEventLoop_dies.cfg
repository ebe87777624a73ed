\* A client resets its connection while its message is processed.
CONSTANTS
    a = a
    b = b
    Conn = {a, b}
    Main = Main
    w1 = w1
    w2 = w2
    Workers = {w1, w2}
    Fd = {1, 2}
    None = None
    MaxMessages <- One
    Ahead = 1
    Resets = TRUE
SPECIFICATION Spec
INVARIANTS
    LoopAlive
