SPECIFICATION Spec

CONSTANTS
    Names = {n1, n2, n3}
    Filters = {f1, f2}
    Cells = {c1, c2, c3, c4}
    head = head
    tail = tail
    Null = Null
    MaxEvents = 2

SYMMETRY ChainSymmetry

INVARIANTS
    TypeOK
    LinksAgree
    MapMatchesList
    NoEntryTwice
    NobodySkipped
    OrderInv

PROPERTIES
    ImplementsSequence
    CallsAsPromised
