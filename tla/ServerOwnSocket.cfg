\* The server: which connection a handler reads from.
CONSTANTS
    s1 = s1
    s2 = s2
    reader = reader
    writer = writer
    handler1 = handler1
    handler2 = handler2
    notifier = notifier
    sid1 = sid1
    sid2 = sid2
    unset = unset
    Nobody = Nobody
    Sockets <- TwoSockets
    Requesters <- None
    Receivers <- None
    Handlers <- TwoHandlers
    Notifiers <- TheNotifier
    SockOf <- ServerSock
    OwnTags <- None
    PeerTag <- ServerPeerTag
    NoteTags <- AnyMemory
    BufferSize = 2
    MaxOut = 1
    MaxIn = 1
    MaxCloses = 0
SPECIFICATION Spec
INVARIANT ReadsOwnSocket
VIEW LiveView
CHECK_DEADLOCK FALSE
