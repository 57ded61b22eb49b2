\* Two connections whose clients log in, list and hang up: whose session ends.
SPECIFICATION Spec
CONSTANTS
    c1 = c1
    c2 = c2
    Handlers = {c1, c2}
    Users = {u1}
    Sids = {s1, s2}
    NoSid = NoSid
    Free = Free
    Fds <- TwoFds
    Commands = {"LIST"}
    MaxRequests = 2
    MaxPosts = 0
    MaxFailures = 0
VIEW LiveView
SYMMETRY MCSymmetry
INVARIANT EndedByItsClient
CHECK_DEADLOCK FALSE
