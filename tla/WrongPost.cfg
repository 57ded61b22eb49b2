\* Two connections whose clients post: which post is notified.
SPECIFICATION Spec
CONSTANTS
    c1 = c1
    c2 = c2
    Handlers = {c1, c2}
    Users = {u1}
    Sids = {s1, s2}
    NoSid = NoSid
    Free = Free
    Fds <- TwoFds
    Commands = {"POST"}
    MaxRequests = 2
    MaxPosts = 2
    MaxFailures = 0
VIEW LiveView
SYMMETRY MCSymmetry
INVARIANT NotifiesOwnPost
CHECK_DEADLOCK FALSE
