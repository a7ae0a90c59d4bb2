\* The first bytes of a connection, and the codec they lead to.
SPECIFICATION Spec
CONSTANTS
    InlineSize = 2
    Canonical <- CanonicalNames
    PathName <- Path
    HostName <- Host
    MethodName <- Method
    Lower <- LowerCases
    MaxRequests = 2
    BodyPieces <- ResponseBody
    Conversations <- SomeConversations
    MagicLen = 5
    MaxStreams = 2
    Sizes = {1, 2}
    MaxPieces = 1
    Window = 1
    MaxWindow = 2
    MaxFrame = 2
INVARIANTS
    CodecsTypeOK
    DecodesRequests
    
    
    
    NoEventsAfterReset
\* A client may leave, and what is written may wait for its window for ever.
CHECK_DEADLOCK FALSE
