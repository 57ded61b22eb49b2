---------------------------- MODULE NotifyHandoff ----------------------------
(***************************************************************************)
(* How a wall post reaches the notification thread.                        *)
(*                                                                         *)
(* A client thread (processRequests.cpp) commits a login or a post to the  *)
(* database, then raises notify_variable and signals notify_cond under     *)
(* notify_mutex.  The notification thread (processNotifications.cpp)       *)
(* sleeps on the condition; when woken it queries the unread               *)
(* notifications of the users online, sends them one by one and marks      *)
(* those the client acknowledged.  It keeps notify_mutex for the whole     *)
(* sweep and gives it up only inside pthread_cond_wait.                    *)
(*                                                                         *)
(* Abstracted: sockets and sessions (a user is online or not; module       *)
(* Handlers has the table behind that), the acknowledgement protocol (a    *)
(* write_socket call succeeds or fails; module Transport has the protocol) *)
(* and the text of posts.  A post that the database refuses changes        *)
(* nothing here and is not an action.                                      *)
(***************************************************************************)
EXTENDS Naturals, FiniteSets

CONSTANTS
    Handlers,       \* the client threads
    Users,          \* the rows of table Users
    Nobody,         \* the owner of a free mutex
    Notifier,       \* the notification thread, as an owner of the mutex
    MaxJobs,        \* bound: logins and posts one client thread carries out
    QueryErrors,    \* bound: SQL errors of getNotifications
    RowErrors       \* bound: SQL errors of next, sendNotification and markRead

ASSUME HandoffAssumption ==
    /\ Nobody \notin Handlers
    /\ Notifier \notin Handlers
    /\ Nobody # Notifier
    /\ MaxJobs \in Nat
    /\ QueryErrors \in Nat
    /\ RowErrors \in Nat

VARIABLES
    notify_variable,    \* the flag both sides share
    notify_mutex,       \* its owner
    npc,                \* where the notification thread is
    hpc,                \* where each client thread is
    jobs,               \* how many logins and posts a client thread carried out
    sessions,           \* how many live sessions a user has
    online,             \* users whose latest row is of a live session
    rows,               \* table Notifications
    read,               \* the rows of it with readFlag = 1
    result,             \* rows of the result set the cursor has not reached
    cursor,             \* the row the cursor is on, as a set of at most one
    generated,          \* notifications_generated
    handles,            \* what pstmt/res_get_notifications point to
    queryErrs, rowErrs, \* SQL errors so far
    unseen,             \* history: rows inserted since the last query
    arrivals,           \* history: users who came online since the last query
    acked,              \* history: rows the client has acknowledged
    failed,             \* history: rows whose last write_socket failed
    cut                 \* history: the last sweep was abandoned half-way

threadVars == <<notify_variable, notify_mutex, npc, hpc>>
dbVars     == <<sessions, online, rows, read>>
setVars    == <<result, cursor, generated, handles>>
errVars    == <<queryErrs, rowErrs>>
history    == <<unseen, arrivals, acked, failed, cut>>
vars == <<threadVars, jobs, dbVars, setVars, errVars, history>>

\* One row per post and user; a post is named by its thread and a number.
PostId == Handlers \X (1 .. MaxJobs)
Row == PostId \X Users
AuthorOf(r) == r[1][1]
UserOf(r)   == r[2]

NotifierHolds == {"check", "query", "next", "send", "mark", "exit"}
HandlerHolds  == {"locked", "raised"}

TypeOK ==
    /\ notify_variable \in {0, 1}
    /\ notify_mutex \in Handlers \cup {Nobody, Notifier}
    /\ npc \in {"start", "waiting", "woken", "dead", "crashed"} \cup NotifierHolds
    /\ hpc \in [Handlers -> {"idle", "reply", "lock"} \cup HandlerHolds]
    /\ jobs \in [Handlers -> 0 .. MaxJobs]
    /\ sessions \in [Users -> Nat]
    /\ online \subseteq Users
    /\ rows \subseteq Row
    /\ read \subseteq rows
    /\ result \subseteq rows
    /\ cursor \subseteq rows
    /\ generated \in BOOLEAN
    /\ handles \in {"none", "live", "dangling"}
    /\ queryErrs \in 0 .. QueryErrors
    /\ rowErrs \in 0 .. RowErrors
    /\ unseen \subseteq rows
    /\ arrivals \subseteq Users
    /\ acked \subseteq rows
    /\ failed \subseteq rows
    /\ cut \in BOOLEAN

Init ==
    /\ notify_variable = 0
    /\ notify_mutex = Nobody
    /\ npc = "start"
    /\ hpc = [h \in Handlers |-> "idle"]
    /\ jobs = [h \in Handlers |-> 0]
    /\ sessions = [u \in Users |-> 0]
    /\ online = {}
    /\ rows = {}
    /\ read = {}
    /\ result = {}
    /\ cursor = {}
    /\ generated = FALSE
    /\ handles = "none"
    /\ queryErrs = 0
    /\ rowErrs = 0
    /\ unseen = {}
    /\ arrivals = {}
    /\ acked = {}
    /\ failed = {}
    /\ cut = FALSE

Running == npc # "crashed"

-----------------------------------------------------------------------------
(* Wrong versions of actions below: the runs put each in the place of the  *)
(* right one to show that a property fails when the code has the bug.      *)

\* A counter of posts instead of a flag.
RaiseCounts(h) ==
    /\ Running
    /\ hpc[h] = "locked"
    /\ notify_variable' = notify_variable + 1
    /\ npc' = IF npc = "waiting" THEN "woken" ELSE npc
    /\ hpc' = [hpc EXCEPT ![h] = "raised"]
    /\ UNCHANGED <<notify_mutex, jobs, dbVars, setVars, errVars, history>>

\* pthread_cond_signal is forgotten.
RaiseWithoutSignal(h) ==
    /\ Running
    /\ hpc[h] = "locked"
    /\ notify_variable' = 1
    /\ hpc' = [hpc EXCEPT ![h] = "raised"]
    /\ UNCHANGED <<notify_mutex, npc, jobs, dbVars, setVars, errVars, history>>

\* pthread_mutex_lock is forgotten.
LockBlindly(h) ==
    /\ Running
    /\ hpc[h] = "lock"
    /\ notify_mutex' = h
    /\ hpc' = [hpc EXCEPT ![h] = "locked"]
    /\ UNCHANGED <<notify_variable, npc, jobs, dbVars, setVars, errVars, history>>

\* The query selects the notifications already read, too.
QueryAll ==
    /\ npc = "query"
    /\ result' = {r \in rows : UserOf(r) \in online}
    /\ cursor' = {}
    /\ generated' = TRUE
    /\ handles' = "live"
    /\ unseen' = {}
    /\ arrivals' = {}
    /\ cut' = FALSE
    /\ npc' = IF result' = {} THEN "check" ELSE "next"
    /\ UNCHANGED <<notify_variable, notify_mutex, hpc, jobs, dbVars, errVars,
                   acked, failed>>

\* A failed write_socket breaks out of the sweep instead of going on.
SendFailsBreaks ==
    /\ npc = "send"
    /\ failed' = failed \cup cursor
    /\ npc' = "check"
    /\ UNCHANGED <<notify_variable, notify_mutex, hpc, jobs, dbVars, setVars,
                   errVars, unseen, arrivals, acked, cut>>

\* A failed write_socket is not looked at.
SendFailsMarks ==
    /\ npc = "send"
    /\ failed' = failed \cup cursor
    /\ npc' = "mark"
    /\ UNCHANGED <<notify_variable, notify_mutex, hpc, jobs, dbVars, setVars,
                   errVars, unseen, arrivals, acked, cut>>

\* The update has no where clause.
MarkEverything ==
    /\ npc = "mark"
    /\ read' = rows
    /\ npc' = "next"
    /\ UNCHANGED <<notify_variable, notify_mutex, hpc, jobs, sessions, online, rows,
                   setVars, errVars, history>>

\* next() frees the result set past the last row and leaves the flag up.
NoMoreRowsKeepsFlag ==
    /\ npc = "next"
    /\ result = {}
    /\ cursor' = {}
    /\ handles' = "dangling"
    /\ npc' = "check"
    /\ UNCHANGED <<notify_variable, notify_mutex, hpc, jobs, dbVars, result, generated,
                   errVars, history>>

-----------------------------------------------------------------------------
(* The client threads.                                                     *)

\* database.login commits the LOGIN row: the user is online from here on.
Login(h, u) ==
    /\ Running
    /\ hpc[h] = "idle"
    /\ jobs[h] < MaxJobs
    /\ jobs' = [jobs EXCEPT ![h] = @ + 1]
    /\ sessions' = [sessions EXCEPT ![u] = @ + 1]
    /\ online' = online \cup {u}
    /\ arrivals' = arrivals \cup {u}
    /\ hpc' = [hpc EXCEPT ![h] = "reply"]
    /\ UNCHANGED <<notify_variable, notify_mutex, npc, rows, read, setVars,
                   errVars, unseen, acked, failed, cut>>

\* database.login refuses the name or the password.  userLogin looks at
\* nothing but -2 after the reply, so this client signals as well.
LoginRefused(h) ==
    /\ Running
    /\ hpc[h] = "idle"
    /\ jobs[h] < MaxJobs
    /\ jobs' = [jobs EXCEPT ![h] = @ + 1]
    /\ hpc' = [hpc EXCEPT ![h] = "reply"]
    /\ UNCHANGED <<notify_variable, notify_mutex, npc, dbVars, setVars, errVars,
                   history>>

\* sendPacket delivered the login response: go on to signal.
LoginReply(h) ==
    /\ Running
    /\ hpc[h] = "reply"
    /\ hpc' = [hpc EXCEPT ![h] = "lock"]
    /\ UNCHANGED <<notify_variable, notify_mutex, npc, jobs, dbVars, setVars,
                   errVars, history>>

\* sendPacket failed: userLogin returns, and nobody is told of the login.
LoginReplyFails(h) ==
    /\ Running
    /\ hpc[h] = "reply"
    /\ hpc' = [hpc EXCEPT ![h] = "idle"]
    /\ UNCHANGED <<notify_variable, notify_mutex, npc, jobs, dbVars, setVars,
                   errVars, history>>

\* database.postOnWall commits one notification row for every user.
Post(h) ==
    /\ Running
    /\ hpc[h] = "idle"
    /\ jobs[h] < MaxJobs
    /\ jobs' = [jobs EXCEPT ![h] = @ + 1]
    /\ LET new == {<<h, jobs[h] + 1>>} \X Users
       IN  /\ rows' = rows \cup new
           /\ unseen' = unseen \cup new
    /\ hpc' = [hpc EXCEPT ![h] = "lock"]
    /\ UNCHANGED <<notify_variable, notify_mutex, npc, sessions, online, read, setVars,
                   errVars, arrivals, acked, failed, cut>>

\* A LOGOUT row is the user's latest: getNotifications takes the user for
\* offline, other sessions or not.
Logout(u) ==
    /\ Running
    /\ sessions[u] > 0
    /\ sessions' = [sessions EXCEPT ![u] = @ - 1]
    /\ online' = online \ {u}
    /\ UNCHANGED <<threadVars, jobs, rows, read, setVars, errVars, history>>

\* 15 minutes without a request end a session; the last one takes the user
\* offline.
Expire(u) ==
    /\ Running
    /\ sessions[u] > 0
    /\ sessions' = [sessions EXCEPT ![u] = @ - 1]
    /\ online' = IF sessions'[u] = 0 THEN online \ {u} ELSE online
    /\ UNCHANGED <<threadVars, jobs, rows, read, setVars, errVars, history>>

\* A LIST or SHOW row of another session makes the user's latest row a live
\* one again, and nobody signals.
Reappear(u) ==
    /\ Running
    /\ sessions[u] > 0
    /\ u \notin online
    /\ online' = online \cup {u}
    /\ arrivals' = arrivals \cup {u}
    /\ UNCHANGED <<threadVars, jobs, sessions, rows, read, setVars, errVars,
                   unseen, acked, failed, cut>>

Lock(h) ==
    /\ Running
    /\ hpc[h] = "lock"
    /\ notify_mutex = Nobody
    /\ notify_mutex' = h
    /\ hpc' = [hpc EXCEPT ![h] = "locked"]
    /\ UNCHANGED <<notify_variable, npc, jobs, dbVars, setVars, errVars, history>>

\* notify_variable = 1 and pthread_cond_signal, which is lost on a thread
\* that does not wait.
Raise(h) ==
    /\ Running
    /\ hpc[h] = "locked"
    /\ notify_variable' = 1
    /\ npc' = IF npc = "waiting" THEN "woken" ELSE npc
    /\ hpc' = [hpc EXCEPT ![h] = "raised"]
    /\ UNCHANGED <<notify_mutex, jobs, dbVars, setVars, errVars, history>>

Unlock(h) ==
    /\ Running
    /\ hpc[h] = "raised"
    /\ notify_mutex' = Nobody
    /\ hpc' = [hpc EXCEPT ![h] = "idle"]
    /\ UNCHANGED <<notify_variable, npc, jobs, dbVars, setVars, errVars, history>>

-----------------------------------------------------------------------------
(* The notification thread.                                                *)

\* pthread_mutex_lock at the top, or inside pthread_cond_wait on its way out.
Acquire ==
    /\ npc \in {"start", "woken"}
    /\ notify_mutex = Nobody
    /\ notify_mutex' = Notifier
    /\ npc' = "check"
    /\ UNCHANGED <<notify_variable, hpc, jobs, dbVars, setVars, errVars, history>>

\* while (!notify_variable) pthread_cond_wait: gives the mutex up and sleeps.
Sleep ==
    /\ npc = "check"
    /\ notify_variable = 0
    /\ notify_mutex' = Nobody
    /\ npc' = "waiting"
    /\ UNCHANGED <<notify_variable, hpc, jobs, dbVars, setVars, errVars, history>>

\* POSIX lets pthread_cond_wait return without a signal.
SpuriousWakeup ==
    /\ npc = "waiting"
    /\ npc' = "woken"
    /\ UNCHANGED <<notify_variable, notify_mutex, hpc, jobs, dbVars, setVars,
                   errVars, history>>

TakeFlag ==
    /\ npc = "check"
    /\ notify_variable = 1
    /\ notify_variable' = 0
    /\ npc' = "query"
    /\ UNCHANGED <<notify_mutex, hpc, jobs, dbVars, setVars, errVars, history>>

\* getNotifications: free the last result set if there is one, then select
\* the unread rows of the users online.  No row: back to the flag.
Query ==
    /\ npc = "query"
    /\ result' = {r \in rows \ read : UserOf(r) \in online}
    /\ cursor' = {}
    /\ generated' = TRUE
    /\ handles' = "live"
    /\ unseen' = {}
    /\ arrivals' = {}
    /\ cut' = FALSE
    /\ npc' = IF result' = {} THEN "check" ELSE "next"
    /\ UNCHANGED <<notify_variable, notify_mutex, hpc, jobs, dbVars, errVars,
                   acked, failed>>

\* getNotifications meets an SQLException.  The flag is already set and the
\* pointers still hold what was freed before (or were never set).
QueryFails ==
    /\ npc = "query"
    /\ queryErrs < QueryErrors
    /\ queryErrs' = queryErrs + 1
    /\ generated' = TRUE
    /\ handles' = "dangling"
    /\ result' = {}
    /\ cursor' = {}
    /\ npc' = "exit"
    /\ UNCHANGED <<notify_variable, notify_mutex, hpc, jobs, dbVars, rowErrs,
                   history>>

\* break: the mutex is released, and the destructor of notify frees whatever
\* the pointers hold, which the C++ library may or may not survive.
Exit ==
    /\ npc = "exit"
    /\ notify_mutex' = Nobody
    /\ npc' \in IF generated /\ handles # "live" THEN {"dead", "crashed"} ELSE {"dead"}
    /\ UNCHANGED <<notify_variable, hpc, jobs, dbVars, setVars, errVars, history>>

\* next() finds a row; the query has no ORDER BY, so any row may be it.
NextRow ==
    /\ npc = "next"
    /\ \E r \in result :
          /\ cursor' = {r}
          /\ result' = result \ {r}
    /\ npc' = "send"
    /\ UNCHANGED <<notify_variable, notify_mutex, hpc, jobs, dbVars, generated,
                   handles, errVars, history>>

\* next() is past the last row: it frees the result set and says so.
NoMoreRows ==
    /\ npc = "next"
    /\ result = {}
    /\ cursor' = {}
    /\ generated' = FALSE
    /\ handles' = "dangling"
    /\ npc' = "check"
    /\ UNCHANGED <<notify_variable, notify_mutex, hpc, jobs, dbVars, result,
                   errVars, history>>

\* write_socket returned 0: the client acknowledged the notification.
SendAcked ==
    /\ npc = "send"
    /\ acked' = acked \cup cursor
    /\ failed' = failed \ cursor
    /\ npc' = "mark"
    /\ UNCHANGED <<notify_variable, notify_mutex, hpc, jobs, dbVars, setVars,
                   errVars, unseen, arrivals, cut>>

\* write_socket failed: continue with the next row, this one stays unread.
SendFails ==
    /\ npc = "send"
    /\ failed' = failed \cup cursor
    /\ npc' = "next"
    /\ UNCHANGED <<notify_variable, notify_mutex, hpc, jobs, dbVars, setVars,
                   errVars, unseen, arrivals, acked, cut>>

MarkRead ==
    /\ npc = "mark"
    /\ read' = read \cup cursor
    /\ npc' = "next"
    /\ UNCHANGED <<notify_variable, notify_mutex, hpc, jobs, sessions, online, rows,
                   setVars, errVars, history>>

\* next, sendNotification or markRead met an SQLException: the sweep is
\* abandoned, and the result set is left for getNotifications to free.
RowFails ==
    /\ npc \in {"next", "send", "mark"}
    /\ rowErrs < RowErrors
    /\ rowErrs' = rowErrs + 1
    /\ cut' = TRUE
    /\ npc' = "check"
    /\ UNCHANGED <<notify_variable, notify_mutex, hpc, jobs, dbVars, setVars,
                   queryErrs, unseen, arrivals, acked, failed>>

-----------------------------------------------------------------------------
(* The specification.                                                      *)

HandlerProgress(h) == LoginReply(h) \/ LoginReplyFails(h) \/ Lock(h) \/ Raise(h) \/ Unlock(h)
Signalling(h) == Lock(h) \/ Raise(h) \/ Unlock(h)
NotifierStep ==
    \/ Acquire \/ Sleep \/ TakeFlag \/ Query \/ QueryFails \/ Exit
    \/ NextRow \/ NoMoreRows \/ SendAcked \/ SendFails \/ MarkRead \/ RowFails

Next ==
    \/ \E h \in Handlers :
          \/ \E u \in Users : Login(h, u)
          \/ LoginRefused(h)
          \/ Post(h)
          \/ HandlerProgress(h)
    \/ \E u \in Users : Logout(u) \/ Expire(u) \/ Reappear(u)
    \/ NotifierStep
    \/ SpuriousWakeup

Spec == Init /\ [][Next]_vars

\* A thread that signals, sleeps or works on the database is scheduled again
\* and its statements return; users owe nothing.  write_socket owes nothing
\* either: the handler of the same socket may clear the timeout of the read
\* for the ACK (networking.cpp 458) and take the ACK itself, and the notifier
\* then reads as long as the client likes.  Requests are finitely many
\* (MaxJobs) and spurious wake-ups stop some day, so the mutex is not
\* contended for ever and weak fairness is enough.
FairSpec ==
    /\ Spec
    /\ <>[][~ SpuriousWakeup]_vars
    /\ WF_vars(npc # "send" /\ NotifierStep)
    /\ \A h \in Handlers : WF_vars(Signalling(h))

-----------------------------------------------------------------------------
(* Properties.                                                             *)

\* The mutex owner is the one thread inside a critical section
\* (processRequests.cpp 61-64 and 111-114, the sweep of processNotification).
MutexOwner ==
    /\ \A h \in Handlers : hpc[h] \in HandlerHolds <=> notify_mutex = h
    /\ npc \in NotifierHolds <=> notify_mutex = Notifier

\* No wake-up is lost: a row no query has seen yet is still going to be seen.
\* Its author has not signalled yet, or the flag is up, or the notification
\* thread is about to query; and a sleeping thread with the flag up is one
\* whose signaller has still to let go of the mutex.
RowWillBeSeen(r) ==
    \/ hpc[AuthorOf(r)] \in {"lock", "locked"}
    \/ notify_variable = 1
    \/ npc = "query"
Stopped == npc \in {"exit", "dead", "crashed"}

NoLostWakeup ==
    ~ Stopped =>
        /\ \A r \in unseen : RowWillBeSeen(r)
        /\ npc = "waiting" => notify_variable = 0

\* When everything is quiet no unread notification is forgotten: its user is
\* offline, or logged in without the login having been announced, or its
\* last write failed, or an SQL error cut the sweep short.
QuietMeansOffered ==
    (npc = "waiting" /\ \A h \in Handlers : hpc[h] = "idle") =>
        \A r \in rows \ read :
            \/ UserOf(r) \notin online
            \/ UserOf(r) \in arrivals
            \/ r \in failed
            \/ cut

\* Only an acknowledged notification is marked read, although the sweep
\* carries on after failed writes and SQL errors.
ReadOnlyIfAcked == read \subseteq acked

\* A notification that is marked read is not sent again by a later sweep.
NeverResent == [][ (acked' # acked \/ failed' # failed) => cursor \cap read = {} ]_vars

\* As long as the thread runs, notifications_generated says that there is a
\* result set to free (mysql_lib.h 235), so that no sweep, cut short or not,
\* frees one twice; only the destructor may, after a query that failed.
FlagGuardsSet == ~ Stopped => (generated => handles = "live")

\* The one way for a living notification thread to stop: a write_socket that
\* never returns, with notify_mutex held (networking.cpp 402).
HangsInWrite == <>[](npc = "send")

\* A client thread that goes to signal causes a query, unless the notification
\* thread has ended or hangs in a write: no wake-up is lost between the flag,
\* the condition and the mutex (processRequests.cpp 61-64, 111-114).
SignalCausesQuery ==
    \/ HangsInWrite
    \/ \A h \in Handlers : hpc[h] = "lock" ~> (npc = "query" \/ Stopped)

\* With the same exception, a notification of a user who is online, and whose
\* login was announced, is eventually offered to the client, sweeps that were
\* under way and failures of other rows notwithstanding.
EventuallyOffered ==
    \/ HangsInWrite
    \/ \A r \in Row :
          (r \in rows \ read /\ UserOf(r) \in online \ arrivals)
              ~> (r \in acked \cup failed \/ UserOf(r) \notin online \/ cut \/ Stopped)

\* The threads, the mutex and the result set implement the notice board.
Board == INSTANCE NoticeBoard WITH
            Posts <- PostId, posted <- rows, delivered <- acked, marked <- read
ImplementsBoard == Board!BoardSpec
=============================================================================
