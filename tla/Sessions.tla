------------------------------ MODULE Sessions ------------------------------
(***************************************************************************)
(* What the sessions promise, without threads or SQL: nothing is entered   *)
(* in the log and nothing is posted except by a permit.  A permit to enter *)
(* a new session needs a number nobody has used; any other is for the user *)
(* of a session that is live.  It is good for one act, and a client has at *)
(* most one, but it outlives the session: one that was given while the     *)
(* session was live can still make it live again.  Handlers implements     *)
(* this.                                                                   *)
(***************************************************************************)
EXTENDS Naturals

CONSTANTS
    Clients,
    Users,
    Numbers     \* what a session can be called

VARIABLES
    log,        \* user and state of every session, at most one; none before its login
    permits,    \* what clients may do and have not done
    posted      \* how many posts there are

sessionVars == <<log, permits, posted>>

Permit == [client : Clients, session : Numbers, user : Users,
           act : {"enter", "leave", "post"}]
Entry(user, live) == [user |-> user, live |-> live]

SessionsInit ==
    /\ log = [s \in Numbers |-> {}]
    /\ permits = {}
    /\ posted = 0

\* A login with an unused number, or a command under a live session.
Allow(p) ==
    /\ \A q \in permits : q.client # p.client
    /\ \/ p.act = "enter" /\ log[p.session] = {}
       \/ Entry(p.user, TRUE) \in log[p.session]
    /\ permits' = permits \cup {p}
    /\ UNCHANGED <<log, posted>>

\* A permit is used up.
Enter(p) ==
    /\ p.act \in {"enter", "leave"}
    /\ permits' = permits \ {p}
    /\ log' = [log EXCEPT ![p.session] = {Entry(p.user, p.act = "enter")}]
    /\ UNCHANGED posted

Post(p) ==
    /\ p.act = "post"
    /\ permits' = permits \ {p}
    /\ posted' = posted + 1
    /\ UNCHANGED log

\* A session that nobody has used for some time.
Lapse(s) ==
    /\ \E u \in Users : /\ Entry(u, TRUE) \in log[s]
                        /\ log' = [log EXCEPT ![s] = {Entry(u, FALSE)}]
    /\ UNCHANGED <<permits, posted>>

\* What was allowed is not done: an error, or the end of the process.
Forget ==
    /\ permits' \in SUBSET permits
    /\ UNCHANGED <<log, posted>>

SessionsNext ==
    \/ Forget
    \/ \E p \in permits : Enter(p) \/ Post(p)
    \/ \E s \in Numbers : Lapse(s)
    \/ \E p \in Permit : Allow(p)

SessionsSpec == SessionsInit /\ [][SessionsNext]_sessionVars
=============================================================================
