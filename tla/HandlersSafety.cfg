\* Two connections, two descriptors, two requests each: LOGIN and a LIST or POST.
SPECIFICATION Spec
CONSTANTS
    c1 = c1
    c2 = c2
    Handlers = {c1, c2}
    Users = {u1, u2}
    Sids = {s1, s2}
    NoSid = NoSid
    Free = Free
    Fds <- TwoFds
    Commands = {"LIST", "POST"}
    MaxRequests = 2
    MaxPosts = 2
    MaxFailures = 0
VIEW LiveView
SYMMETRY MCSymmetry
INVARIANTS
    TypeOK
    SocketsExclusive
    RowsFromLogins
    SuccessesDistinct
    OwnPostUnlessDisturbed
PROPERTIES
    OverForGood
    ImplementsSessions
CHECK_DEADLOCK FALSE
