\* Two connections on one descriptor, three requests each, one SQL error; no
\* symmetry, since liveness is checked.
SPECIFICATION FairSpec
CONSTANTS
    c1 = c1
    c2 = c2
    Handlers = {c1, c2}
    Users = {u1}
    Sids = {s1, s2}
    NoSid = NoSid
    Free = Free
    Fds <- OneFd
    Commands = {"SHOW", "LOGOUT"}
    MaxRequests = 3
    MaxPosts = 0
    MaxFailures = 1
VIEW LiveView
INVARIANT LeaksOnlyAtEOF
PROPERTY GoneClientIsDropped
CHECK_DEADLOCK FALSE
