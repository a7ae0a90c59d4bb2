SPECIFICATION Spec

CONSTANTS
    Names = {n1, n2, n3}
    Filters = {f1}
    Mutators = {t1, t2}
    Sessions = {s1}
    MaxLength = 3
    None = None
    Adders <- OneThreadEach

INVARIANTS
    TypeOK
    NamesUnique

PROPERTIES
    RemovesWhatItFound
    ImplementsSequence
    AddsAsPromised
