\* The same instance: who gets a notification that is marked read.
SPECIFICATION Spec
CONSTANTS
    c1 = c1
    c2 = c2
    alex = alex
    ben = ben
    Clients = {c1, c2}
    UserOf <- TwoUsers
    Sids = {s1, s2}
    NoSid = NoSid
    Fds <- TwoFds
    Free = Free
    Script <- OneTypes
    MaxPosts = 1
    MaxEvents = 2
INVARIANT ReadByItsUser
SYMMETRY SidSymmetry
VIEW LiveView
CHECK_DEADLOCK FALSE
