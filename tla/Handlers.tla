------------------------------- MODULE Handlers -------------------------------
(***************************************************************************)
(* The server's handler threads: one for each accepted connection, serving *)
(* the requests of one client from LOGIN to the end of the connection      *)
(* (processClient.cpp, processRequests.cpp), through the one               *)
(* DatabaseCommandInterface they all share (mysql_lib.cpp).                *)
(*                                                                         *)
(* One action is one SQL statement, so that the statements of different    *)
(* threads interleave as they do on the shared connection; what a          *)
(* statement finds is kept until it is used.  Any statement may throw an   *)
(* SQLException.  What the threads share is the InteractionLog, the keys   *)
(* last_insert_id() returns, the table of file descriptors and the global  *)
(* variable sessionID.                                                     *)
(*                                                                         *)
(* Abstracted: of the InteractionLog only the latest row of each session,  *)
(* which is all that these functions read; 15 minutes are a flag fresh on  *)
(* it.  Posts and Notifications are the keys they contain.  A key of       *)
(* another table is any number.  The clients are the environment; how      *)
(* their packets travel is module Transport; how a handler's signal goes   *)
(* through notify_mutex, and what it sets off, is module NotifyHandoff.    *)
(***************************************************************************)
EXTENDS Naturals, FiniteSets

CONSTANTS
    Handlers,       \* connections, each accepted once, and their threads
    Users,
    Sids,           \* what the random number can be
    NoSid,          \* sessionID before the first login
    Fds,            \* descriptors the process may use for connections
    Free,           \* the owner of a descriptor that is not open
    Commands,       \* what clients send after LOGIN
    MaxRequests,    \* bound: requests on a connection
    MaxPosts,       \* bound: rows of Posts
    MaxFailures     \* bound: SQLExceptions

ASSUME HandlersAssumption ==
    /\ Users # {}
    /\ NoSid \notin Sids
    /\ Fds \subseteq Nat \ {0}
    /\ Fds # {}
    /\ Free \notin Handlers
    /\ Commands \subseteq {"LIST", "SHOW", "POST", "LOGOUT"}
    /\ MaxRequests \in Nat
    /\ MaxPosts \in Nat
    /\ MaxFailures \in Nat

VARIABLES
    latest,         \* the latest row of InteractionLog of each session, at most one
    lastInsertId,   \* last_insert_id(): a key of Posts, or 0 for another table's
    posts,          \* rows of Posts; their keys are 1 .. posts
    notified,       \* the posts with rows in Notifications
    sessionID,      \* the global variable
    pc,             \* where each handler is
    task,           \* the command it serves, or why it logs out
    sid,            \* req.sessionId
    row,            \* user and socket that a query has found
    result,         \* what the database function returned
    postId,         \* post_id of postOnWall
    fd,             \* sock_fd of each handler
    fdOwner,        \* the process's table of descriptors
    held,           \* the sessionID of each client
    hungUp,         \* clients that have closed their end
    requests,       \* requests sent on each connection
    failures,       \* SQLExceptions so far
    given,          \* history: the logins that inserted each session
    endedBy,        \* history: the handlers that inserted its logout rows
    mine,           \* history: the key of the post each handler inserted
    disturbed,      \* history: another thread inserted since
    done            \* history: own and notified key of each post that succeeded

tables   == <<latest, lastInsertId, posts, notified>>
request  == <<task, sid, row, result, postId>>
sockets  == <<fd, fdOwner>>
clients  == <<held, hungUp, requests>>
history  == <<given, endedBy, mine, disturbed, done>>
vars == <<tables, sessionID, pc, request, sockets, clients, failures, history>>

Login == [user : Users, sock : Fds]
Row == [user : Users, sock : Fds, out : BOOLEAN, fresh : BOOLEAN]
Logouts == {"LOGOUT", "EOF", "GIVEUP"}
Steps == {"waiting", "read", "validate", "creds", "pick", "insertLogin", "query",
          "checkLog", "insertLog", "reply", "findPoster", "insertPost", "lastId",
          "insertNotices", "signal", "findSession", "close", "gone"}
Keys == 0 .. MaxPosts

TypeOK ==
    /\ latest \in [Sids -> SUBSET Row]
    /\ \A s \in Sids : \A r1, r2 \in latest[s] : r1 = r2
    /\ lastInsertId \in Keys
    /\ posts \in Keys
    /\ notified \subseteq 1 .. posts
    /\ sessionID \in Sids \cup {NoSid}
    /\ pc \in [Handlers -> Steps]
    /\ task \in [Handlers -> {"LOGIN", "LIST", "SHOW", "POST"} \cup Logouts]
    /\ sid \in [Handlers -> Sids \cup {NoSid}]
    /\ row \in [Handlers -> Login]
    /\ result \in [Handlers -> {"0", "-1", "-2"}]
    /\ postId \in [Handlers -> Keys]
    /\ fd \in [Handlers -> Fds]
    /\ fdOwner \in [Fds -> Handlers \cup {Free}]
    /\ held \in [Handlers -> Sids \cup {NoSid}]
    /\ hungUp \subseteq Handlers
    /\ requests \in [Handlers -> 0 .. MaxRequests]
    /\ failures \in 0 .. MaxFailures
    /\ given \in [Sids -> SUBSET (Handlers \X Login)]
    /\ endedBy \in [Sids -> SUBSET Handlers]
    /\ mine \in [Handlers -> Keys]
    /\ disturbed \subseteq Handlers
    /\ done \subseteq Keys \X Keys

Init ==
    /\ latest = [s \in Sids |-> {}]
    /\ lastInsertId = 0
    /\ posts = 0
    /\ notified = {}
    /\ sessionID = NoSid
    /\ pc = [h \in Handlers |-> "waiting"]
    /\ task = [h \in Handlers |-> "LOGIN"]
    /\ sid = [h \in Handlers |-> NoSid]
    /\ row \in [Handlers -> {CHOOSE l \in Login : TRUE}]
    /\ result = [h \in Handlers |-> "0"]
    /\ postId = [h \in Handlers |-> 0]
    /\ fd \in [Handlers -> {CHOOSE f \in Fds : TRUE}]
    /\ fdOwner = [f \in Fds |-> Free]
    /\ held = [h \in Handlers |-> NoSid]
    /\ hungUp = {}
    /\ requests = [h \in Handlers |-> 0]
    /\ failures = 0
    /\ given = [s \in Sids |-> {}]
    /\ endedBy = [s \in Sids |-> {}]
    /\ mine = [h \in Handlers |-> 0]
    /\ disturbed = {}
    /\ done = {}

-----------------------------------------------------------------------------
(* The main thread and the loop of handleClient.                           *)

Goto(h, step) == pc' = [pc EXCEPT ![h] = step]

\* The descriptor of a new connection is the lowest that is not open.
Accept(h) ==
    /\ pc[h] = "waiting"
    /\ \E f \in Fds :
          /\ fdOwner[f] = Free
          /\ \A g \in Fds : g < f => fdOwner[g] # Free
          /\ fd' = [fd EXCEPT ![h] = f]
          /\ fdOwner' = [fdOwner EXCEPT ![f] = h]
    /\ Goto(h, "read")
    /\ UNCHANGED <<tables, sessionID, request, clients, failures, history>>

\* No descriptor is left: main returns and the process ends.
AcceptFails ==
    /\ \E h \in Handlers : pc[h] = "waiting"
    /\ \A f \in Fds : fdOwner[f] # Free
    /\ pc' = [h \in Handlers |-> "gone"]
    /\ fdOwner' = [f \in Fds |-> Free]
    /\ UNCHANGED <<tables, sessionID, request, fd, clients, failures, history>>

\* The client's first request is a LOGIN; then it sends commands, whether it
\* has its session already or not.
ReadRequest(h) ==
    /\ pc[h] = "read"
    /\ requests[h] < MaxRequests
    /\ requests' = [requests EXCEPT ![h] = @ + 1]
    /\ sid' = [sid EXCEPT ![h] = held[h]]
    /\ \/ /\ requests[h] = 0
          /\ task' = [task EXCEPT ![h] = "LOGIN"]
          /\ Goto(h, "creds")
       \/ /\ requests[h] > 0
          /\ \E c \in Commands : task' = [task EXCEPT ![h] = c]
          /\ Goto(h, "validate")
    /\ UNCHANGED <<tables, sessionID, row, result, postId, sockets, held, hungUp,
                   failures, history>>

\* Wrong on purpose: the end of the connection is taken for a timeout.
ReadOnAtEOF(h) ==
    /\ pc[h] = "read"
    /\ h \in hungUp
    /\ UNCHANGED vars

\* read_socket returns 0: the session to log out is taken from the global.
ReadEOF(h) ==
    /\ pc[h] = "read"
    /\ h \in hungUp
    /\ sid' = [sid EXCEPT ![h] = sessionID]
    /\ task' = [task EXCEPT ![h] = "EOF"]
    /\ Goto(h, "findSession")
    /\ UNCHANGED <<tables, sessionID, row, result, postId, sockets, clients, failures,
                   history>>

\* read_socket returns an error other than the timeout.
ReadFails(h) ==
    /\ pc[h] = "read"
    /\ Goto(h, "close")
    /\ UNCHANGED <<tables, sessionID, request, sockets, clients, failures, history>>

\* destroy_socket and the end of the thread.
Close(h) ==
    /\ pc[h] = "close"
    /\ fdOwner' = [fdOwner EXCEPT ![fd[h]] = Free]
    /\ Goto(h, "gone")
    /\ UNCHANGED <<tables, sessionID, request, fd, clients, failures, history>>

-----------------------------------------------------------------------------
(* hasValidSession and insertInteractionLog.                               *)

\* The session's latest row is not a logout, and is recent enough.
Valid(s) == s \in Sids /\ \E r \in latest[s] : ~ r.out /\ r.fresh

\* What it finds there.
Find(h) ==
    /\ Valid(sid[h])
    /\ \E r \in latest[sid[h]] :
          row' = [row EXCEPT ![h] = [user |-> r.user, sock |-> r.sock]]

\* An insert by a thread, of a row whose key is k, is what last_insert_id()
\* returns to every thread, for the connection is one.
Inserts(h, k) ==
    /\ lastInsertId' = k
    /\ disturbed' = (disturbed \ {h}) \cup {g \in Handlers \ {h} : pc[g] = "lastId"}

\* A row of the session becomes its latest.
InsertRow(h, s, l, out) ==
    /\ latest' = [latest EXCEPT ![s] = {[user |-> l.user, sock |-> l.sock, out |-> out,
                                         fresh |-> TRUE]}]
    /\ Inserts(h, 0)
    /\ endedBy' = IF out THEN [endedBy EXCEPT ![s] = @ \cup {h}] ELSE endedBy

\* sessionValidity.
Validate(h) ==
    /\ pc[h] = "validate"
    /\ Valid(sid[h])
    /\ Goto(h, CASE task[h] = "LOGOUT" -> "findSession"
                 [] task[h] = "POST" -> "findPoster"
                 [] OTHER -> "query")
    /\ UNCHANGED <<tables, sessionID, request, sockets, clients, failures, history>>

\* Wrong on purpose: the row is looked up under the global session.
CheckLogOfGlobal(h) ==
    /\ pc[h] = "checkLog"
    /\ Valid(sid[h])
    /\ sessionID \in Sids
    /\ \E r \in latest[sessionID] :
          row' = [row EXCEPT ![h] = [user |-> r.user, sock |-> r.sock]]
    /\ Goto(h, "insertLog")
    /\ UNCHANGED <<tables, sessionID, task, sid, result, postId, sockets, clients,
                   failures, history>>

\* The first half of insertInteractionLog, when it is not given the user.
CheckLog(h) ==
    /\ pc[h] = "checkLog"
    /\ Find(h)
    /\ Goto(h, "insertLog")
    /\ UNCHANGED <<tables, sessionID, task, sid, result, postId, sockets, clients,
                   failures, history>>

-----------------------------------------------------------------------------
(* login and userLogin.                                                    *)

CheckCredentials(h) ==
    /\ pc[h] = "creds"
    /\ \/ \E u \in Users :
             /\ row' = [row EXCEPT ![h] = [user |-> u, sock |-> fd[h]]]
             /\ Goto(h, "pick")
             /\ UNCHANGED result
       \/ /\ result' = [result EXCEPT ![h] = "-1"]
          /\ Goto(h, "reply")
          /\ UNCHANGED row
    /\ UNCHANGED <<tables, sessionID, task, sid, postId, sockets, clients, failures,
                   history>>

\* Wrong on purpose: the number is not looked up in the log.
PickSidBlindly(h) ==
    /\ pc[h] = "pick"
    /\ \E s \in Sids : sid' = [sid EXCEPT ![h] = s]
    /\ Goto(h, "insertLogin")
    /\ UNCHANGED <<tables, sessionID, task, row, result, postId, sockets, clients,
                   failures, history>>

\* A random number that no row of the log has.  (The packet gets it after the
\* insert; nothing reads it before.)
PickSid(h) ==
    /\ pc[h] = "pick"
    /\ \E s \in Sids :
          /\ latest[s] = {}
          /\ sid' = [sid EXCEPT ![h] = s]
    /\ Goto(h, "insertLogin")
    /\ UNCHANGED <<tables, sessionID, task, row, result, postId, sockets, clients,
                   failures, history>>

InsertLogin(h) ==
    /\ pc[h] = "insertLogin"
    /\ InsertRow(h, sid[h], row[h], FALSE)
    /\ given' = [given EXCEPT ![sid[h]] = @ \cup {<<h, row[h]>>}]
    /\ result' = [result EXCEPT ![h] = "0"]
    /\ Goto(h, "reply")
    /\ UNCHANGED <<posts, notified, sessionID, task, sid, row, postId, sockets, clients,
                   failures, mine, done>>

\* sendPacket: a reply is acknowledged, or the call fails, and then the client
\* may have got it or not.
Sends(h, sent, got) ==
    /\ pc[h] = "reply"
    /\ sent => got
    /\ got => h \notin hungUp

\* A client told of a failed login closes; another one learns its session.
\* After any acknowledged reply but that of a server error the thread goes on
\* to signal, a refused login included.
LoginReply(h) ==
    /\ task[h] = "LOGIN"
    /\ \E sent, got \in BOOLEAN :
          /\ Sends(h, sent, got)
          /\ held' = IF got /\ result[h] = "0" THEN [held EXCEPT ![h] = sid[h]] ELSE held
          /\ hungUp' = IF got /\ result[h] # "0" THEN hungUp \cup {h} ELSE hungUp
          /\ sessionID' = IF sent /\ result[h] # "-2" THEN sid[h] ELSE sessionID
          /\ Goto(h, CASE ~ sent -> "read"
                       [] sent /\ result[h] = "-2" -> "close"
                       [] OTHER -> "signal")
    /\ UNCHANGED <<tables, request, sockets, requests, failures, history>>

\* notify_mutex, which the notification thread may hold for a whole sweep, has
\* come to this thread and been released.
Signal(h) ==
    /\ pc[h] = "signal"
    /\ Goto(h, "read")
    /\ UNCHANGED <<tables, sessionID, request, sockets, clients, failures, history>>

-----------------------------------------------------------------------------
(* listUsers, showWall and their callers.                                  *)

\* The query of the users or of a wall; the wall's owner may not exist.
Query(h) ==
    /\ pc[h] = "query"
    /\ \/ /\ Goto(h, "checkLog")
          /\ UNCHANGED result
       \/ /\ task[h] = "SHOW"
          /\ result' = [result EXCEPT ![h] = "-1"]
          /\ Goto(h, "reply")
    /\ UNCHANGED <<tables, sessionID, task, sid, row, postId, sockets, clients, failures,
                   history>>

InsertLog(h) ==
    /\ pc[h] = "insertLog"
    /\ task[h] \in {"LIST", "SHOW", "POST"}
    /\ InsertRow(h, sid[h], row[h], FALSE)
    /\ result' = [result EXCEPT ![h] = "0"]
    /\ Goto(h, IF task[h] = "POST" THEN "signal" ELSE "reply")
    /\ done' = IF task[h] = "POST" THEN done \cup {<<mine[h], postId[h]>>} ELSE done
    /\ UNCHANGED <<posts, notified, sessionID, task, sid, row, postId, sockets, clients,
                   failures, given, mine>>

\* After a server error the client is told, logged out and dropped; unless the
\* reply fails, and then it is served on.
ListReply(h) ==
    /\ task[h] \in {"LIST", "SHOW"}
    /\ \E sent \in BOOLEAN :
          /\ Sends(h, sent, sent)
          /\ \/ /\ sent /\ result[h] = "-2"
                /\ task' = [task EXCEPT ![h] = "GIVEUP"]
                /\ Goto(h, "findSession")
             \/ /\ ~ (sent /\ result[h] = "-2")
                /\ Goto(h, "read")
                /\ UNCHANGED task
    /\ UNCHANGED <<tables, sessionID, sid, row, result, postId, sockets, clients,
                   failures, history>>

-----------------------------------------------------------------------------
(* postOnWall and postMessage.                                             *)

\* Wrong on purpose: any row of the session will do.
FindPosterOfAny(h) ==
    /\ pc[h] = "findPoster"
    /\ \E r \in latest[sid[h]] :
          row' = [row EXCEPT ![h] = [user |-> r.user, sock |-> r.sock]]
    /\ Goto(h, "insertPost")
    /\ UNCHANGED <<tables, sessionID, task, sid, result, postId, sockets, clients,
                   failures, history>>

\* hasValidSession, and the userID it finds.
FindPoster(h) ==
    /\ pc[h] = "findPoster"
    /\ Find(h)
    /\ Goto(h, "insertPost")
    /\ UNCHANGED <<tables, sessionID, task, sid, result, postId, sockets, clients,
                   failures, history>>

\* Wrong on purpose: the key is read before the insert.
InsertPostReadsFirst(h) ==
    /\ pc[h] = "insertPost"
    /\ posts < MaxPosts
    /\ posts' = posts + 1
    /\ Inserts(h, posts + 1)
    /\ mine' = [mine EXCEPT ![h] = posts + 1]
    /\ postId' = [postId EXCEPT ![h] = lastInsertId]
    /\ Goto(h, "insertNotices")
    /\ UNCHANGED <<latest, notified, sessionID, task, sid, row, result, sockets, clients,
                   failures, given, endedBy, done>>

\* The insert into Posts; the user whose wall it is may not exist.
InsertPost(h) ==
    /\ pc[h] = "insertPost"
    /\ \/ /\ posts < MaxPosts
          /\ posts' = posts + 1
          /\ Inserts(h, posts + 1)
          /\ mine' = [mine EXCEPT ![h] = posts + 1]
          /\ Goto(h, "lastId")
          /\ UNCHANGED result
       \/ /\ result' = [result EXCEPT ![h] = "-1"]
          /\ Goto(h, "reply")
          /\ UNCHANGED <<posts, lastInsertId, mine, disturbed>>
    /\ UNCHANGED <<latest, notified, sessionID, task, sid, row, postId, sockets, clients,
                   failures, given, endedBy, done>>

\* select last_insert_id(): a key of Posts, or a number another table has used.
ReadLastId(h) ==
    /\ pc[h] = "lastId"
    /\ \E k \in IF lastInsertId > 0 THEN {lastInsertId} ELSE Keys :
          postId' = [postId EXCEPT ![h] = k]
    /\ Goto(h, "insertNotices")
    /\ UNCHANGED <<tables, sessionID, task, sid, row, result, sockets, clients, failures,
                   history>>

\* Wrong on purpose: insert ignore.
InsertNoticesIgnore(h) ==
    /\ pc[h] = "insertNotices"
    /\ notified' = notified \cup ({postId[h]} \cap 1 .. posts)
    /\ Inserts(h, 0)
    /\ Goto(h, "checkLog")
    /\ UNCHANGED <<latest, posts, sessionID, request, sockets, clients, failures, given,
                   endedBy, mine, done>>

\* Wrong on purpose: Notifications has no foreign key.
InsertNoticesOfAny(h) ==
    /\ pc[h] = "insertNotices"
    /\ postId[h] \notin notified
    /\ notified' = notified \cup {postId[h]}
    /\ Inserts(h, 0)
    /\ Goto(h, "checkLog")
    /\ UNCHANGED <<latest, posts, sessionID, request, sockets, clients, failures, given,
                   endedBy, mine, done>>

\* The insert into Notifications, one row for each user: the foreign key wants
\* a post, and the unique key one that has no rows yet.
InsertNotices(h) ==
    /\ pc[h] = "insertNotices"
    /\ postId[h] \in 1 .. posts \ notified
    /\ notified' = notified \cup {postId[h]}
    /\ Inserts(h, 0)
    /\ Goto(h, "checkLog")
    /\ UNCHANGED <<latest, posts, sessionID, request, sockets, clients, failures, given,
                   endedBy, mine, done>>

\* Only a post that failed is answered.
PostReply(h) ==
    /\ task[h] = "POST"
    /\ \E sent \in BOOLEAN : Sends(h, sent, sent)
    /\ Goto(h, "read")
    /\ UNCHANGED <<tables, sessionID, request, sockets, clients, failures, history>>

-----------------------------------------------------------------------------
(* logout and its three callers.                                           *)

\* hasValidSession, and the name of the user it finds.
FindSession(h) ==
    /\ pc[h] = "findSession"
    /\ Valid(sid[h])
    /\ Goto(h, "checkLog")
    /\ UNCHANGED <<tables, sessionID, request, sockets, clients, failures, history>>

\* Wrong on purpose: userLogout closes the socket and returns to its caller.
InsertLogoutReturns(h) ==
    /\ pc[h] = "insertLog"
    /\ task[h] \in Logouts
    /\ InsertRow(h, sid[h], row[h], TRUE)
    /\ fdOwner' = [fdOwner EXCEPT ![fd[h]] = Free]
    /\ Goto(h, "close")
    /\ UNCHANGED <<posts, notified, sessionID, request, fd, clients, failures, given,
                   mine, done>>

\* The logout row.  handleClient closes the socket after it; userLogout does
\* too, and ends the thread, so that its caller does not close it again.
InsertLogout(h) ==
    /\ pc[h] = "insertLog"
    /\ task[h] \in Logouts
    /\ InsertRow(h, sid[h], row[h], TRUE)
    /\ Goto(h, "close")
    /\ UNCHANGED <<posts, notified, sessionID, request, sockets, clients, failures, given,
                   mine, done>>

-----------------------------------------------------------------------------
(* Statements that fail.                                                   *)

ServerError(h) ==
    /\ result' = [result EXCEPT ![h] = "-2"]
    /\ Goto(h, "reply")
    /\ UNCHANGED done

GoesTo(h, step) == Goto(h, step) /\ UNCHANGED <<result, done>>

\* Wrong on purpose: a handler whose logout failed ends, whoever asked for it.
AfterErrorEnds(h) ==
    \/ /\ pc[h] = "validate"
       /\ GoesTo(h, "close")
    \/ /\ pc[h] \in {"creds", "pick", "insertLogin", "query", "findPoster", "insertPost",
                     "lastId", "insertNotices"}
       /\ ServerError(h)
    \/ /\ pc[h] \in {"checkLog", "insertLog"}
       /\ task[h] \in {"LIST", "SHOW"}
       /\ ServerError(h)
    \/ /\ pc[h] \in {"checkLog", "insertLog"}
       /\ task[h] \in {"POST"} \cup Logouts
       /\ GoesTo(h, IF task[h] = "POST" THEN "signal" ELSE "close")
    \/ /\ pc[h] = "findSession"
       /\ GoesTo(h, "gone")

\* What a handler does when a statement of its does not do what it should: the
\* request has failed, but for the row in the log of a post or a logout, which
\* nobody asks for.  A failed logout is not answered, and at the end of a
\* connection it ends the thread with its socket open.
AfterError(h) ==
    \/ /\ pc[h] = "validate"
       /\ GoesTo(h, "close")
    \/ /\ pc[h] \in {"creds", "pick", "insertLogin", "query", "findPoster", "insertPost",
                     "lastId", "insertNotices"}
       /\ ServerError(h)
    \/ /\ pc[h] \in {"checkLog", "insertLog"}
       /\ task[h] \in {"LIST", "SHOW"}
       /\ ServerError(h)
    \/ /\ pc[h] \in {"checkLog", "insertLog"}
       /\ task[h] = "POST"
       /\ Goto(h, "signal")
       /\ done' = done \cup {<<mine[h], postId[h]>>}
       /\ UNCHANGED result
    \/ /\ pc[h] \in {"checkLog", "insertLog"}
       /\ task[h] \in Logouts
       /\ GoesTo(h, "close")
    \/ /\ pc[h] = "findSession"
       /\ GoesTo(h, CASE task[h] = "LOGOUT" -> "read"
                      [] task[h] = "EOF" -> "gone"
                      [] OTHER -> "close")

ErrorUnchanged ==
    UNCHANGED <<tables, sessionID, task, sid, row, postId, sockets, clients, given,
                endedBy, mine, disturbed>>

\* hasValidSession finds no row, or one of a logout, or one too old.
SessionInvalid(h) ==
    /\ pc[h] \in {"validate", "checkLog", "findPoster", "findSession"}
    /\ ~ Valid(sid[h])
    /\ AfterError(h)
    /\ ErrorUnchanged
    /\ UNCHANGED failures

\* No such post, or notified already: an SQLException.
NoticesRefused(h) ==
    /\ pc[h] = "insertNotices"
    /\ postId[h] \notin 1 .. posts \ notified
    /\ AfterError(h)
    /\ ErrorUnchanged
    /\ UNCHANGED failures

\* The statement throws an SQLException for a reason of its own.
Throws(h) ==
    /\ failures < MaxFailures
    /\ failures' = failures + 1
    /\ AfterError(h)
    /\ ErrorUnchanged

-----------------------------------------------------------------------------
(* Clients and time.                                                       *)

\* The client exits, or is cut off; what it had sent can still be read.
HangUp(h) ==
    /\ pc[h] \notin {"waiting", "gone"}
    /\ h \notin hungUp
    /\ hungUp' = hungUp \cup {h}
    /\ UNCHANGED <<tables, sessionID, pc, request, sockets, held, requests, failures,
                   history>>

\* The latest row of a session is 15 minutes old.
Expire(s) ==
    /\ \E r \in latest[s] :
          /\ r.fresh
          /\ latest' = [latest EXCEPT ![s] = {[r EXCEPT !.fresh = FALSE]}]
    /\ UNCHANGED <<lastInsertId, posts, notified, sessionID, pc, request, sockets, clients,
                   failures, history>>

-----------------------------------------------------------------------------
Step(h) ==
    \/ ReadRequest(h) \/ ReadEOF(h) \/ Close(h) \/ Validate(h)
    \/ CheckLog(h) \/ CheckCredentials(h) \/ PickSid(h) \/ InsertLogin(h) \/ LoginReply(h)
    \/ Query(h) \/ InsertLog(h) \/ ListReply(h) \/ FindPoster(h) \/ InsertPost(h)
    \/ ReadLastId(h) \/ InsertNotices(h) \/ PostReply(h) \/ FindSession(h)
    \/ InsertLogout(h) \/ SessionInvalid(h) \/ NoticesRefused(h)

Next ==
    \/ \E h \in Handlers :
          Step(h) \/ Signal(h) \/ Throws(h) \/ ReadFails(h) \/ Accept(h) \/ HangUp(h)
    \/ \E s \in Sids : Expire(s)
    \/ AcceptFails

Spec == Init /\ [][Next]_vars

\* A thread that can go on does: the system schedules it, a query returns, and
\* write_socket gives up after its timeout, which only the thread that serves
\* the socket could clear (HandlersReadInTime of Transport).  Signal is not
\* fair: the notification thread may hold notify_mutex for ever.  Nothing else
\* need happen: no client hangs up, no row grows old, and no call fails to save
\* a thread from waiting.
FairSpec == Spec /\ \A h \in Handlers : WF_vars(Step(h))

-----------------------------------------------------------------------------
(* Properties.                                                             *)

Serving(h) == pc[h] \notin {"waiting", "gone"}

\* The descriptor a handler serves is open and its own, so that it never
\* writes to or closes the connection of another client, although a closed
\* descriptor is given out again at once and five call sites close one
\* (processRequests.cpp 56, 87, 138, 159 and processClient.cpp 68).
SocketsExclusive == \A h \in Handlers : Serving(h) => fdOwner[fd[h]] = h

\* A handler leaves its descriptor open only when the logout at the end of its
\* connection failed (processClient.cpp 37-41).
LeaksOnlyAtEOF ==
    \A h \in Handlers : (~ Serving(h) /\ fdOwner[fd[h]] = h) => task[h] = "EOF"

\* User and socket of a row are those of one login of that session, although
\* later rows copy them from a row found before (mysql_lib.cpp 498-531).
RowsFromLogins ==
    \A s \in Sids : \A r \in latest[s] :
        \E g \in given[s] : g[2] = [user |-> r.user, sock |-> r.sock]

\* No two posts that succeeded have notified the same post.
SuccessesDistinct == \A d, e \in done : d[2] = e[2] => d = e

\* A post notifies its users of itself, unless another thread's insert came
\* between its insert and its look at last_insert_id() (mysql_lib.cpp 353-388).
OwnPostUnlessDisturbed ==
    \A h \in Handlers :
        (pc[h] = "insertNotices" /\ h \notin disturbed) => postId[h] = mine[h]

\* Nobody is between a check of the session, or the drawing of its number, and
\* the insert of the row it allows.
Stragglers(s) == {h \in Handlers : sid[h] = s /\ pc[h] \in {"insertLogin", "insertLog"}}
Over(s) == latest[s] # {} /\ ~ Valid(s) /\ Stragglers(s) = {}

\* A session that has ended, and has no straggler left, is over for good: no
\* check passes again, no login draws its number and no row revives it.  (A
\* straggler does revive one: the check and the insert of mysql_lib.cpp 498-531
\* are two statements, and another thread's logout may come between.)
OverForGood == [][\A s \in Sids : Over(s) => Over(s)']_vars

\* What a handler may do that has found its session, or drawn its number, and
\* has not done it.
Permitted == {h \in Handlers : pc[h] \in {"insertLogin", "insertLog", "insertPost"}}
PermitOf(h) ==
    [client |-> h, session |-> sid[h], user |-> row[h].user,
     act |-> CASE pc[h] = "insertPost" -> "post"
               [] pc[h] = "insertLog" /\ task[h] \in Logouts -> "leave"
               [] OTHER -> "enter"]
Permits == {PermitOf(h) : h \in Permitted}
EntryOf(r) == [user |-> r.user, live |-> ~ r.out /\ r.fresh]
SessionLog == [s \in Sids |-> {EntryOf(r) : r \in latest[s]}]

\* Whatever the statements of the threads interleave to, a row gets into the log
\* and a post into Posts only by a permit: a check of that very session, which
\* found it live and of that user, or an unused number; and one row by each
\* (mysql_lib.cpp 79-98, 169-191, 346-369, 498-531).  At a straggler's insert
\* the session may be over, but the permit is from before its end.
Contract == INSTANCE Sessions WITH
    Clients <- Handlers, Numbers <- Sids, log <- SessionLog, permits <- Permits, posted <- posts
ImplementsSessions == Contract!SessionsSpec

\* A client that has gone is dropped at last, whatever it last asked for and
\* whatever its last reply and the database did; unless its thread waits for
\* ever for notify_mutex, after a login or a post (processRequests.cpp 61, 111).
GoneClientIsDropped ==
    \A h \in Handlers : (h \in hungUp ~> pc[h] = "gone") \/ <>[](pc[h] = "signal")

\* A session is ended only by the connection it was given to: sessionId is the
\* "session ID of the client" (structures.h 39).
EndedByItsClient == \A s \in Sids : endedBy[s] \subseteq {g[1] : g \in given[s]}

\* What postOnWall notifies is the "newly created post_id" (mysql_lib.cpp 372).
NotifiesOwnPost == \A d \in done : d[1] = d[2]
=============================================================================
