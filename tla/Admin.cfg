SPECIFICATION Spec

CONSTANTS
    Txs = {x1, x2}
    Forwarders = {f1, f2}
    Services = {s1}
    Outcomes = {"failed"}
    PageSize = 1
    MaxId = 4
    Blank = Blank
    None = None

SYMMETRY Alike

INVARIANTS
    TypeOK
    WholeScan

PROPERTIES
    NoRowTwice
    MoreIsMore
