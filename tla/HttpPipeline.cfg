\* Requests on their way from the connections through the workers back to them.
SPECIFICATION FairSpec
CONSTANTS
    s1 = s1
    w1 = w1
    w2 = w2
    End = End
    Sessions = {s1}
    Workers = {w1, w2}
    MaxStreams = 2
    RequestCapacity = 1
    ResponseCapacity = 3
INVARIANTS
    TypeOK
    
    
PROPERTIES
    
    WriterEnds
\* The clients may leave, and a request may be lost with its connection.
CHECK_DEADLOCK FALSE
