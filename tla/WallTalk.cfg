\* Two clients of two users, a command and a fault, or two faults.
SPECIFICATION Spec
CONSTANTS
    c1 = c1
    c2 = c2
    alex = alex
    ben = ben
    Clients = {c1, c2}
    UserOf <- TwoUsers
    Sids = {s1, s2}
    NoSid = NoSid
    Fds <- TwoFds
    Free = Free
    Script <- OneTypes
    MaxPosts = 1
    MaxEvents = 2
INVARIANTS
    TypeOK
    SessionsOwnUser
    SessionReachesClient
    StraysOnlyAfterClose
    WaitsOnlyIfAstray
PROPERTY ImplementsBoard
SYMMETRY SidSymmetry
VIEW LiveView
CHECK_DEADLOCK FALSE
