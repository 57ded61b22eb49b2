\* Three client threads with one login or post each, one user, one SQL error
\* of each kind; no symmetry, since liveness is checked.
CONSTANTS
    h1 = h1
    h2 = h2
    h3 = h3
    u1 = u1
    Handlers <- ThreeHandlers
    Users <- OneUser
    Nobody = Nobody
    Notifier = Notifier
    MaxJobs = 1
    QueryErrors = 1
    RowErrors = 1
SPECIFICATION FairSpec
INVARIANTS
    TypeOK
    MutexOwner
    NoLostWakeup
    QuietMeansOffered
    ReadOnlyIfAcked
    FlagGuardsSet
PROPERTIES
    NeverResent
    ImplementsBoard
    SignalCausesQuery
    EventuallyOffered
CHECK_DEADLOCK FALSE
