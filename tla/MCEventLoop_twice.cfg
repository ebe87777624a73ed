\* Both threads send the same status.
CONSTANTS
    a = a
    b = b
    Conn = {a}
    Main = Main
    w1 = w1
    w2 = w2
    Workers = {w1}
    Fd = {1}
    None = None
    MaxMessages <- One
    Ahead = 1
    Resets = FALSE
SPECIFICATION Spec
INVARIANTS
    OneStatus
