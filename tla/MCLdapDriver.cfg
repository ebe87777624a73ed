\* Every mailing list of three entries.
CONSTANTS
    d1 = d1
    d2 = d2
    d3 = d3
    ann = ann
    annmail = annmail
    carl = carl
    Dn = {d1, d2, d3}
    Address = {ann, annmail, carl}
    None = None
    Directories <- AllDirectories
SPECIFICATION FairSpec
INVARIANTS
    Expanded
    Once
PROPERTIES
    Ends
