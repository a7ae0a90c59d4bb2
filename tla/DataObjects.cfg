\* Buffers, header maps, address filters, statistics and the HTTP codec filter.
SPECIFICATION Spec
CONSTANTS
    MaxInt = 3
    Initial = {0, 3}
    Amounts = {0, 1, 2}
    InlineSize = 3
    MaxHeaders = 3
    Names <- UsedNames
    Values <- UsedValues
    Digits <- Integers1
    Canonical <- CanonicalNames
    Bits = 3
    MaxRules = 2
    Subnets <- UsedSubnets
    WorkThreads = 2
    MaxBytes = 2
    MaxTime = 3
    Intervals = {0, 1}
    MaxInterval = 1
    Shapes <- UsedShapes
    MaxMessages = 3
    MaxRead = 3
    MaxHttpSize = 5
INVARIANTS
    DataTypeOK
    JudgedAsListed
    FramingExact
PROPERTIES
    HeadersAsList
    
    TotalsGrow
\* The bounds end the counters and the messages.
CHECK_DEADLOCK FALSE
