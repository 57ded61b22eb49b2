\* The client: a packet that is read after an ACK with contents.
CONSTANTS
    reader = reader
    writer = writer
    text = text
    Receivers <- TheWriter
    Requesters <- TheReader
    Texts = {text}
    Requests <- OnePost
    Messages <- AllSorts
    BufferSize = 2
    MaxPacketLen = 12
    MaxSays = 2
    MaxShorts = 1
    MaxAsks = 1
SPECIFICATION Spec
INVARIANTS
    StatesItsLength
VIEW LiveView
CHECK_DEADLOCK FALSE
