\* The client's two threads on one stream, two messages and one request.
CONSTANTS
    reader = reader
    writer = writer
    text = text
    Receivers <- TheWriter
    Requesters <- TheReader
    Texts = {text}
    Requests <- OnePost
    Messages <- AllSorts
    BufferSize = 2
    MaxPacketLen = 12
    MaxSays = 2
    MaxShorts = 1
    MaxAsks = 1
SPECIFICATION Spec
INVARIANTS
    TypeOK
    InStep
    AsSentUnlessReused
    TruthfulUnlessReused
VIEW LiveView
CHECK_DEADLOCK FALSE
