\* The same client: what process_message is promised of its arguments.
CONSTANTS
    alice = alice
    hello = hello
    None = None
    Address = {alice}
    Text = {hello}
    DataLimit = 1
    HasContext = TRUE
    Outcomes = {"delivered", "nonascii"}
    ClientLines <- Lines
    MaxBacklog <- Bound
SPECIFICATION Spec
INVARIANT
    JobsWhole
