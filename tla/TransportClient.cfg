\* The client: its two threads on one socket.
CONSTANTS
    s1 = s1
    s2 = s2
    reader = reader
    writer = writer
    handler1 = handler1
    handler2 = handler2
    notifier = notifier
    sid1 = sid1
    sid2 = sid2
    unset = unset
    Nobody = Nobody
    Sockets <- OneSocket
    Requesters <- TheReader
    Receivers <- TheWriter
    Handlers <- None
    Notifiers <- None
    SockOf <- ClientSock
    OwnTags <- ClientTags
    PeerTag <- ClientPeerTag
    NoteTags <- None
    BufferSize = 3
    MaxOut = 2
    MaxIn = 1
    MaxCloses = 1
SPECIFICATION Spec
INVARIANTS
    TypeOK
    AckSoundness
    FoundAckKept
    NothingLost
    NothingTwice
VIEW LiveView
CHECK_DEADLOCK FALSE
