------------------------------- MODULE WallTalk -------------------------------
(***************************************************************************)
(* The whole system: client processes, their connections, the handlers,    *)
(* the notification thread and the database, with a server process that    *)
(* may end and be started again while the tables stay.                     *)
(*                                                                         *)
(* What the other modules take apart is put together here: the statements  *)
(* of a request that write a table, each a step of its own on the one      *)
(* connection all handlers share (Handlers has the others, and their SQL   *)
(* errors), the sweep (NotifyHandoff has the hand-off and the errors), and *)
(* the buffer through which a request may get from one connection to the   *)
(* handler of another (Transport and Framing have the packets).  New is    *)
(* the way a session number takes from the handler to a client and back,   *)
(* and the way a descriptor takes from a login through InteractionLog and  *)
(* the sweep's result set back to a connection.                            *)
(*                                                                         *)
(* Abstracted: LIST and SHOW are one command ASK; of the answers only a    *)
(* login's is kept, of the buffer only the requests; a server that runs    *)
(* out of descriptors is left to Handlers.  History: the fields from and   *)
(* conn of a row, the client whose LOGIN it goes back to and the one whose *)
(* connection it was served on; sent, acked, shared and astray.            *)
(***************************************************************************)
EXTENDS Naturals, Sequences, FiniteSets

CONSTANTS
    Clients,        \* client processes, each run once
    UserOf,         \* the user who logs in at each
    Sids,           \* session numbers
    NoSid,          \* a sessionID never assigned
    Fds,            \* descriptors the server may use for connections
    Free,           \* the owner of a descriptor that is not open
    Script,         \* bound: the commands that may be typed at each, in order
    MaxPosts,       \* bound: rows of Posts
    MaxEvents       \* bound: commands and faults, that is crashes, errors of a
                    \* read and sessions timed out

Users == {UserOf[c] : c \in Clients}

ASSUME WallTalkAssumption ==
    /\ Clients # {}
    /\ UserOf \in [Clients -> Users]
    /\ Sids # {} /\ NoSid \notin Sids
    /\ Fds \subseteq Nat \ {0}
    /\ IsFiniteSet(Clients) /\ IsFiniteSet(Fds)
    /\ Cardinality(Fds) >= Cardinality(Clients)
    /\ Fds # {}
    /\ Free \notin Clients
    /\ Script \in [Clients -> Seq(SUBSET {"ASK", "POST", "LOGOUT"})]
    /\ MaxPosts \in Nat \ {0}
    /\ MaxEvents \in Nat

VARIABLES
    client,         \* each client process
    sessionID,      \* its global variable
    commands,       \* how many commands were typed there
    up,             \* requests on their way to the server
    answer,         \* a login's answer on its way back: a number or NoSid
    alive,          \* the server process runs
    events,         \* how many commands and faults there were
    handler,        \* where the handler of each connection is
    request,        \* the request it serves
    drawn,          \* the session number it has drawn, or NoSid for no session
    key,            \* the postID it has read
    found,          \* the row of InteractionLog it has found
    sockFd,         \* its sock_fd
    fdOwner,        \* the server's table of descriptors
    bufferPkts,     \* requests that a write_socket has read
    lastLogin,      \* the server's global variable sessionID
    log,            \* the latest InteractionLog row of each session
    lastRow,        \* the latest row of each user
    posts,          \* rows of Posts
    notices,        \* posts that have rows in Notifications
    unread,         \* rows of Notifications with readFlag = 0
    lastInsert,     \* the latest row inserted: its postID, 0 in another table
    notify_variable,
    notifier,       \* what the notification thread does
    rows,           \* rows of its result set it has not come to
    current,        \* the notification it has written, and to whom
    sent,           \* notifications that have reached a client
    acked,          \* those acknowledged
    shared,         \* numbers drawn while another login was about to insert them
    astray          \* clients whose LOGIN a write_socket has read

clientVars   == <<client, sessionID, commands>>
netVars      == <<up, answer>>
processVars  == <<alive, events>>
workVars     == <<request, drawn, key, found>>
socketVars   == <<sockFd, fdOwner>>
bufferVars   == <<bufferPkts, astray>>
logVars      == <<log, lastRow>>
postVars     == <<posts, notices, unread>>
tables       == <<logVars, postVars, lastInsert>>
notifierVars == <<notifier, rows, current, sent, acked>>
vars == <<clientVars, netVars, processVars, handler, workVars, socketVars, bufferVars,
          lastLogin, tables, notify_variable, notifierVars, shared>>

Commands == {"ASK", "POST", "LOGOUT"}
Request == [from : Clients, cmd : Commands \cup {"LOGIN"}, sid : Sids \cup {NoSid}]
Row == [sid : Sids, from : Clients, conn : Clients, sock : Fds, out : BOOLEAN, fresh : BOOLEAN]
Notice == (1 .. MaxPosts) \X Users
ResultRow == [notice : Notice, from : Clients, conn : Clients, sock : Fds]
Message == [to : Clients, row : ResultRow]

\* A handler at work has an open descriptor; it looks at the buffer, reads, and
\* serves a request through the steps of a login, a post or the log.
Working ==
    {"looking", "reading", "serving", "inserting", "answering", "posted", "keyed", "noted",
     "logging", "replying", "refusing", "raising", "left"}
Places == Working \cup {"none", "waiting", "closed"}

ClientTypes ==
    /\ client \in [Clients -> {"off", "on", "gone"}]
    /\ sessionID \in [Clients -> Sids \cup {NoSid}]
    /\ commands \in [Clients -> Nat]
    /\ \A c \in Clients : commands[c] <= Len(Script[c])
NetTypes ==
    /\ up \in [Clients -> Seq(Request)]
    /\ answer \in [Clients -> Seq(Sids \cup {NoSid})]
    /\ bufferPkts \in Seq(Request)
ProcessTypes ==
    /\ alive \in BOOLEAN
    /\ events \in 0 .. MaxEvents
    /\ handler \in [Clients -> Places]
    /\ sockFd \in [Clients -> Fds]
    /\ fdOwner \in [Fds -> Clients \cup {Free}]
    /\ lastLogin \in Sids \cup {NoSid}
    /\ notify_variable \in BOOLEAN
    /\ shared \subseteq Sids
    /\ astray \subseteq Clients
WorkTypes ==
    /\ request \in [Clients -> Request]
    /\ drawn \in [Clients -> Sids \cup {NoSid}]
    /\ \A c \in Clients : handler[c] = "inserting" => drawn[c] \in Sids
    /\ key \in [Clients -> 0 .. MaxPosts]
    /\ found \in [Clients -> Row]
LogTypes ==
    /\ log \in [Sids -> SUBSET Row]
    /\ \A s \in Sids : \A r1, r2 \in log[s] : r1 = r2
    /\ lastRow \in [Users -> SUBSET Row]
    /\ \A u \in Users : \A r1, r2 \in lastRow[u] : r1 = r2
PostTypes ==
    /\ posts \in 0 .. MaxPosts
    /\ notices \subseteq 1 .. posts
    /\ unread \subseteq notices \X Users
    /\ lastInsert \in 0 .. posts
NotifierTypes ==
    /\ notifier \in {"waits", "sweeps", "writes", "marks"}
    /\ rows \subseteq ResultRow
    /\ current \in Message
    /\ sent \subseteq Message
    /\ acked \subseteq sent
TypeOK ==
    /\ ClientTypes /\ NetTypes /\ ProcessTypes /\ WorkTypes /\ LogTypes /\ PostTypes
    /\ NotifierTypes

Init ==
    /\ client = [c \in Clients |-> "off"]
    /\ sessionID = [c \in Clients |-> NoSid]
    /\ commands = [c \in Clients |-> 0]
    /\ up = [c \in Clients |-> <<>>]
    /\ answer = [c \in Clients |-> <<>>]
    /\ alive = TRUE
    /\ events = 0
    /\ handler = [c \in Clients |-> "none"]
    /\ request = [c \in Clients |-> CHOOSE q \in Request : TRUE]
    /\ drawn = [c \in Clients |-> NoSid]
    /\ key = [c \in Clients |-> 0]
    /\ found = [c \in Clients |-> CHOOSE r \in Row : TRUE]
    /\ sockFd = [c \in Clients |-> CHOOSE f \in Fds : TRUE]
    /\ fdOwner = [f \in Fds |-> Free]
    /\ bufferPkts = <<>>
    /\ lastLogin = NoSid
    /\ log = [s \in Sids |-> {}]
    /\ lastRow = [u \in Users |-> {}]
    /\ posts = 0
    /\ notices = {}
    /\ unread = {}
    /\ lastInsert = 0
    /\ notify_variable = FALSE
    /\ notifier = "waits"
    /\ rows = {}
    /\ current = CHOOSE m \in Message : TRUE
    /\ sent = {}
    /\ acked = {}
    /\ shared = {}
    /\ astray = {}

Event == events < MaxEvents /\ events' = events + 1

-----------------------------------------------------------------------------
(* A client: client_main.cpp, readProcess.cpp, writeProcess.cpp.           *)

\* What a client does on its own leaves the server's side alone.
serverVars == <<workVars, socketVars, bufferVars, lastLogin, tables, notify_variable,
                notifierVars, shared>>

\* It connects and sends a LOGIN at once, or finds no server and ends.
Start(c) ==
    /\ client[c] = "off"
    /\ \/ /\ alive
          /\ client' = [client EXCEPT ![c] = "on"]
          /\ up' = [up EXCEPT ![c] = <<[from |-> c, cmd |-> "LOGIN", sid |-> NoSid]>>]
          /\ handler' = [handler EXCEPT ![c] = "waiting"]
       \/ /\ ~ alive
          /\ client' = [client EXCEPT ![c] = "gone"]
          /\ UNCHANGED <<up, handler>>
    /\ UNCHANGED <<sessionID, commands, answer, processVars, serverVars>>

\* readThread sends what is typed, with the sessionID of that moment, whether
\* the login has been answered or not.
Type(c) ==
    /\ client[c] = "on"
    /\ handler[c] # "closed"
    /\ commands[c] < Len(Script[c])
    /\ Event
    /\ commands' = [commands EXCEPT ![c] = @ + 1]
    /\ \E cmd \in Script[c][commands[c] + 1] :
          up' = [up EXCEPT ![c] = Append(@, [from |-> c, cmd |-> cmd, sid |-> sessionID[c]])]
    /\ UNCHANGED <<client, sessionID, answer, alive, handler, serverVars>>

\* writeThread: a login's answer sets the sessionID or ends the process.
\* (Everything else is printed, and left out here; a writeThread that has ended
\* is one that never comes to read.)
Receive(c) ==
    /\ client[c] = "on"
    /\ answer[c] # <<>>
    /\ answer' = [answer EXCEPT ![c] = Tail(@)]
    /\ IF Head(answer[c]) = NoSid
       THEN client' = [client EXCEPT ![c] = "gone"] /\ UNCHANGED sessionID
       ELSE sessionID' = [sessionID EXCEPT ![c] = Head(answer[c])] /\ UNCHANGED client
    /\ UNCHANGED <<commands, up, processVars, handler, serverVars>>

\* writeThread finds that the server has closed, and exits the process.
ReceiveEOF(c) ==
    /\ client[c] = "on"
    /\ handler[c] = "closed"
    /\ answer[c] = <<>>
    /\ client' = [client EXCEPT ![c] = "gone"]
    /\ UNCHANGED <<sessionID, commands, netVars, processVars, handler, serverVars>>

\* The user ends the process.
Quit(c) ==
    /\ client[c] = "on"
    /\ client' = [client EXCEPT ![c] = "gone"]
    /\ UNCHANGED <<sessionID, commands, netVars, processVars, handler, serverVars>>

-----------------------------------------------------------------------------
(* The server's connections: server_main.cpp, processClient.cpp.           *)

\* Wrong on purpose: descriptors are counted through, in use or not.
AcceptFirst(c) ==
    /\ alive
    /\ handler[c] = "waiting"
    /\ LET f == CHOOSE f \in Fds : TRUE
       IN  /\ sockFd' = [sockFd EXCEPT ![c] = f]
           /\ fdOwner' = [fdOwner EXCEPT ![f] = c]
    /\ handler' = [handler EXCEPT ![c] = "looking"]
    /\ UNCHANGED <<clientVars, netVars, processVars, workVars, bufferVars, lastLogin, tables,
                   notify_variable, notifierVars, shared>>

Accept(c) ==
    /\ alive
    /\ handler[c] = "waiting"
    /\ \E f \in Fds :
          /\ fdOwner[f] = Free
          /\ \A g \in Fds : g < f => fdOwner[g] # Free
          /\ sockFd' = [sockFd EXCEPT ![c] = f]
          /\ fdOwner' = [fdOwner EXCEPT ![f] = c]
    /\ handler' = [handler EXCEPT ![c] = "looking"]
    /\ UNCHANGED <<clientVars, netVars, processVars, workVars, bufferVars, lastLogin, tables,
                   notify_variable, notifierVars, shared>>

\* The process ends, by a signal, SIGPIPE among them: every connection is
\* closed, what was in memory is lost and the tables stay.
Crash ==
    /\ alive
    /\ Event
    /\ alive' = FALSE
    /\ handler' = [c \in Clients |-> IF handler[c] = "none" THEN "none" ELSE "closed"]
    /\ fdOwner' = [f \in Fds |-> Free]
    /\ bufferPkts' = <<>>
    /\ lastLogin' = NoSid
    /\ notify_variable' = FALSE
    /\ notifier' = "waits"
    /\ rows' = {}
    /\ up' = [c \in Clients |-> <<>>]
    /\ UNCHANGED <<clientVars, answer, workVars, sockFd, astray, tables, current, sent, acked,
                   shared>>

Restart ==
    /\ ~ alive
    /\ alive' = TRUE
    /\ UNCHANGED <<clientVars, netVars, events, handler, serverVars>>

\* A handler goes from one place to another.
Moves(c, from, to) ==
    /\ alive
    /\ handler[c] = from
    /\ handler' = [handler EXCEPT ![c] = to]

Closes(c, from) ==
    /\ Moves(c, from, "closed")
    /\ fdOwner' = [fdOwner EXCEPT ![sockFd[c]] = Free]
    /\ UNCHANGED sockFd

\* read_socket returns the first request in the buffer, whoever sent it ...
TakeBuffered(c) ==
    /\ bufferPkts # <<>>
    /\ Moves(c, "looking", "serving")
    /\ request' = [request EXCEPT ![c] = Head(bufferPkts)]
    /\ bufferPkts' = Tail(bufferPkts)
    /\ UNCHANGED <<clientVars, netVars, processVars, drawn, key, found, socketVars, astray,
                   lastLogin, tables, notify_variable, notifierVars, shared>>

\* ... or waits in read(), and will not look at the buffer again.
BeginRead(c) ==
    /\ bufferPkts = <<>>
    /\ Moves(c, "looking", "reading")
    /\ UNCHANGED <<clientVars, netVars, processVars, serverVars>>

ReadRequest(c) ==
    /\ up[c] # <<>>
    /\ Moves(c, "reading", "serving")
    /\ request' = [request EXCEPT ![c] = Head(up[c])]
    /\ up' = [up EXCEPT ![c] = Tail(@)]
    /\ UNCHANGED <<clientVars, answer, processVars, drawn, key, found, socketVars, bufferVars,
                   lastLogin, tables, notify_variable, notifierVars, shared>>

\* read_socket returns an error other than the timeout: the connection is
\* closed, and the session is not logged out.
ReadFails(c) ==
    /\ Event
    /\ Closes(c, "reading")
    /\ UNCHANGED <<clientVars, netVars, alive, workVars, bufferVars, lastLogin, tables,
                   notify_variable, notifierVars, shared>>

\* A write_socket waits for its ACK and reads a request of client c, which
\* goes into the buffer.
BuffersRequestOf(c) ==
    /\ up[c] # <<>>
    /\ up' = [up EXCEPT ![c] = Tail(@)]
    /\ bufferPkts' = Append(bufferPkts, Head(up[c]))
    /\ astray' = IF Head(up[c]).cmd = "LOGIN" THEN astray \cup {c} ELSE astray
    /\ UNCHANGED <<clientVars, answer, processVars, handler, workVars, socketVars, lastLogin,
                   tables, notify_variable, notifierVars, shared>>

\* The one of the handler itself, on its reply, ...
ReplyReads(c) ==
    /\ alive
    /\ handler[c] \in {"replying", "refusing"}
    /\ BuffersRequestOf(c)

\* ... or the notifier's, on whatever connection has its descriptor by now.
NotifierReads(c) ==
    /\ notifier = "writes"
    /\ fdOwner[current.row.sock] = c
    /\ BuffersRequestOf(c)

-----------------------------------------------------------------------------
(* Requests: processRequests.cpp and DatabaseCommandInterface.             *)

Valid(s) == s \in Sids /\ \E r \in log[s] : ~ r.out /\ r.fresh

User(r) == UserOf[r.from]

\* A row is inserted, and becomes the latest of its session and of its user.
LogRow(r, out) ==
    LET new == [r EXCEPT !.out = out, !.fresh = TRUE]
    IN  /\ log' = [log EXCEPT ![r.sid] = {new}]
        /\ lastRow' = [lastRow EXCEPT ![User(r)] = {new}]
        /\ lastInsert' = 0

\* A request that comes to one of the commands.
Serves(c, cmds) == handler[c] = "serving" /\ request[c].cmd \in cmds

\* What a step of a request leaves alone.
outsideVars == <<clientVars, netVars, processVars, request, bufferVars, notifierVars>>

\* Wrong on purpose: the client is not told.
LogInFailsSilently(c) ==
    /\ Serves(c, {"LOGIN"})
    /\ Moves(c, "serving", "looking")
    /\ UNCHANGED <<outsideVars, drawn, key, found, socketVars, lastLogin, tables,
                   notify_variable, shared>>

\* The password is wrong.
LogInFails(c) ==
    /\ Serves(c, {"LOGIN"})
    /\ Moves(c, "serving", "answering")
    /\ drawn' = [drawn EXCEPT ![c] = NoSid]
    /\ UNCHANGED <<outsideVars, key, found, socketVars, lastLogin, tables, notify_variable, shared>>

\* Wrong on purpose: the number is not looked up.
DrawAnySid(c) ==
    /\ Serves(c, {"LOGIN"})
    /\ Moves(c, "serving", "inserting")
    /\ \E s \in Sids :
          /\ drawn' = [drawn EXCEPT ![c] = s]
          /\ shared' = IF \E d \in Clients : handler[d] = "inserting" /\ drawn[d] = s
                       THEN shared \cup {s} ELSE shared
    /\ UNCHANGED <<outsideVars, key, found, socketVars, lastLogin, tables, notify_variable>>

\* Numbers are drawn until one is not in the log.  Another login may be about
\* to insert the same.
DrawSid(c) ==
    /\ Serves(c, {"LOGIN"})
    /\ Moves(c, "serving", "inserting")
    /\ \E s \in Sids :
          /\ log[s] = {}
          /\ drawn' = [drawn EXCEPT ![c] = s]
          /\ shared' = IF \E d \in Clients : handler[d] = "inserting" /\ drawn[d] = s
                       THEN shared \cup {s} ELSE shared
    /\ UNCHANGED <<outsideVars, key, found, socketVars, lastLogin, tables, notify_variable>>

InsertLogin(c) ==
    /\ Moves(c, "inserting", "answering")
    /\ LogRow([sid |-> drawn[c], from |-> request[c].from, conn |-> c, sock |-> sockFd[c],
               out |-> FALSE, fresh |-> TRUE], FALSE)
    /\ UNCHANGED <<outsideVars, drawn, key, found, socketVars, lastLogin, postVars,
                   notify_variable, shared>>

\* The answer goes to the handler's own connection, whose client may run.
Reaches(c) == client[c] = "on"

SendAnswer(c) ==
    /\ Moves(c, "answering", "replying")
    /\ answer' = IF Reaches(c) THEN [answer EXCEPT ![c] = Append(@, drawn[c])] ELSE answer
    /\ UNCHANGED <<clientVars, up, processVars, serverVars>>

\* A login that is not acknowledged is not signalled.  One that is, granted or
\* refused, has to wait for notify_mutex.
LoginAcked(c) ==
    /\ request[c].cmd = "LOGIN"
    /\ Reaches(c)
    /\ Moves(c, "replying", "raising")
    /\ lastLogin' = drawn[c]
    /\ UNCHANGED <<outsideVars, drawn, key, found, socketVars, tables, notify_variable, shared>>

ReplyEnds(c) ==
    /\ Moves(c, "replying", "looking")
    /\ UNCHANGED <<clientVars, netVars, processVars, serverVars>>

\* The session of the request is not valid: the client is told, ...
Refuse(c) ==
    /\ Serves(c, Commands)
    /\ ~ Valid(request[c].sid)
    /\ Moves(c, "serving", "refusing")
    /\ UNCHANGED <<clientVars, netVars, processVars, serverVars>>

\* ... and dropped.
Drop(c) ==
    /\ Closes(c, "refusing")
    /\ UNCHANGED <<outsideVars, drawn, key, found, lastLogin, tables, notify_variable, shared>>

\* A wall or a postee that does not exist is answered and not logged.
AnswerNoUser(c) ==
    /\ Serves(c, {"ASK", "POST"})
    /\ Valid(request[c].sid)
    /\ Moves(c, "serving", "replying")
    /\ UNCHANGED <<clientVars, netVars, processVars, serverVars>>

\* POST: a post, its key, and a notification of it for every user.
InsertPost(c) ==
    /\ Serves(c, {"POST"})
    /\ Valid(request[c].sid)
    /\ posts < MaxPosts
    /\ Moves(c, "serving", "posted")
    /\ posts' = posts + 1
    /\ lastInsert' = posts + 1
    /\ UNCHANGED <<outsideVars, drawn, key, found, socketVars, lastLogin, logVars, notices,
                   unread, notify_variable, shared>>

\* last_insert_id() is the key of the latest row of any handler, and a row of
\* another table may have any.
ReadKey(c) ==
    /\ Moves(c, "posted", "keyed")
    /\ \E k \in IF lastInsert = 0 THEN 0 .. MaxPosts ELSE {lastInsert} :
          key' = [key EXCEPT ![c] = k]
    /\ UNCHANGED <<outsideVars, drawn, found, socketVars, lastLogin, tables, notify_variable, shared>>

\* Wrong on purpose: no key refers to Posts.
InsertNoticesOfAny(c) ==
    /\ Moves(c, "keyed", "noted")
    /\ notices' = notices \cup {key[c]}
    /\ unread' = unread \cup ({key[c]} \X Users)
    /\ lastInsert' = 0
    /\ UNCHANGED <<outsideVars, drawn, key, found, socketVars, lastLogin, logVars, posts,
                   notify_variable, shared>>

InsertNotices(c) ==
    /\ key[c] \in (1 .. posts) \ notices
    /\ Moves(c, "keyed", "noted")
    /\ notices' = notices \cup {key[c]}
    /\ unread' = unread \cup ({key[c]} \X Users)
    /\ lastInsert' = 0
    /\ UNCHANGED <<outsideVars, drawn, key, found, socketVars, lastLogin, logVars, posts,
                   notify_variable, shared>>

\* The key of no post, or of one that has its notifications: the poster is
\* told of an error, and the post stands.
NoticesRefused(c) ==
    /\ key[c] \notin (1 .. posts) \ notices
    /\ Moves(c, "keyed", "replying")
    /\ UNCHANGED <<clientVars, netVars, processVars, serverVars>>

\* insertInteractionLog and logout look for the latest row of the session.
FindRow(c) ==
    /\ \/ Serves(c, {"ASK", "LOGOUT"})
       \/ handler[c] = "noted"
    /\ Valid(request[c].sid)
    /\ Moves(c, handler[c], "logging")
    /\ \E r \in log[request[c].sid] : found' = [found EXCEPT ![c] = r]
    /\ UNCHANGED <<outsideVars, drawn, key, socketVars, lastLogin, tables, notify_variable, shared>>

\* It may have ended meanwhile: the post stays without a row.
PostNotLogged(c) ==
    /\ ~ Valid(request[c].sid)
    /\ Moves(c, "noted", "raising")
    /\ UNCHANGED <<clientVars, netVars, processVars, serverVars>>

\* Wrong on purpose: the socket of the row is the handler's own.
InsertLogOfSocket(c) ==
    /\ request[c].cmd \in {"ASK", "POST"}
    /\ Moves(c, "logging", IF request[c].cmd = "POST" THEN "raising" ELSE "replying")
    /\ LogRow([found[c] EXCEPT !.sock = sockFd[c]], FALSE)
    /\ UNCHANGED <<outsideVars, drawn, key, found, socketVars, lastLogin, postVars,
                   notify_variable, shared>>

\* The row found is inserted again.
InsertLog(c) ==
    /\ request[c].cmd \in {"ASK", "POST"}
    /\ Moves(c, "logging", IF request[c].cmd = "POST" THEN "raising" ELSE "replying")
    /\ LogRow(found[c], FALSE)
    /\ UNCHANGED <<outsideVars, drawn, key, found, socketVars, lastLogin, postVars,
                   notify_variable, shared>>

\* LOGOUT, and the end of the connection, close it without an answer.
InsertLogout(c) ==
    /\ request[c].cmd = "LOGOUT"
    /\ Closes(c, "logging")
    /\ LogRow(found[c], TRUE)
    /\ UNCHANGED <<outsideVars, drawn, key, found, lastLogin, postVars, notify_variable, shared>>

\* The flag is set and signalled under notify_mutex, which the notification
\* thread has from one wait to the next.
Raise(c) ==
    /\ notifier = "waits"
    /\ Moves(c, "raising", "looking")
    /\ notify_variable' = TRUE
    /\ UNCHANGED <<clientVars, netVars, processVars, workVars, socketVars, bufferVars, lastLogin,
                   tables, notifierVars, shared>>

\* The end of the connection logs out the session of the last login; if that
\* is not valid the thread ends and leaves its descriptor open.
ReadEOF(c) ==
    /\ client[c] = "gone"
    /\ up[c] = <<>>
    /\ \/ /\ Valid(lastLogin)
          /\ Moves(c, "reading", "logging")
          /\ request' = [request EXCEPT ![c] = [from |-> c, cmd |-> "LOGOUT", sid |-> lastLogin]]
          /\ \E r \in log[lastLogin] : found' = [found EXCEPT ![c] = r]
       \/ /\ ~ Valid(lastLogin)
          /\ Moves(c, "reading", "left")
          /\ UNCHANGED <<request, found>>
    /\ UNCHANGED <<clientVars, netVars, processVars, drawn, key, socketVars, bufferVars,
                   lastLogin, tables, notify_variable, notifierVars, shared>>

\* Fifteen minutes without a row.
Old(R) == {[r EXCEPT !.fresh = FALSE] : r \in R}

Expire(s) ==
    /\ Valid(s)
    /\ Event
    /\ log' = [log EXCEPT ![s] = Old(@)]
    /\ lastRow' = [u \in Users |-> IF \E r \in lastRow[u] : r.sid = s THEN Old(lastRow[u])
                                   ELSE lastRow[u]]
    /\ UNCHANGED <<clientVars, netVars, alive, handler, workVars, socketVars, bufferVars,
                   lastLogin, postVars, lastInsert, notify_variable, notifierVars, shared>>

-----------------------------------------------------------------------------
(* The notification thread.                                                *)

\* What its steps leave alone.
requestVars == <<clientVars, netVars, processVars, handler, workVars, socketVars, bufferVars,
                 lastLogin, logVars, posts, notices, lastInsert, shared>>

\* The unread notifications of users whose latest row is of a live session,
\* each with the socket of that row.
Pending ==
    {p \in ResultRow :
        /\ p.notice \in unread
        /\ \E r \in lastRow[p.notice[2]] :
              /\ ~ r.out /\ r.fresh
              /\ p.from = r.from /\ p.conn = r.conn /\ p.sock = r.sock}

Sweep ==
    /\ alive
    /\ notifier = "waits"
    /\ notify_variable
    /\ notify_variable' = FALSE
    /\ rows' = Pending
    /\ notifier' = "sweeps"
    /\ UNCHANGED <<requestVars, unread, current, sent, acked>>

\* A row is written to whatever connection has the descriptor by now, ...
WriteNotice ==
    /\ notifier = "sweeps"
    /\ \E r \in rows :
          /\ fdOwner[r.sock] \in Clients
          /\ rows' = rows \ {r}
          /\ current' = [to |-> fdOwner[r.sock], row |-> r]
          /\ sent' = IF Reaches(fdOwner[r.sock]) THEN sent \cup {current'} ELSE sent
    /\ notifier' = "writes"
    /\ UNCHANGED <<requestVars, unread, notify_variable, acked>>

\* ... or there is none.
WriteFails ==
    /\ notifier = "sweeps"
    /\ \E r \in rows :
          /\ fdOwner[r.sock] \notin Clients
          /\ rows' = rows \ {r}
    /\ UNCHANGED <<requestVars, unread, notify_variable, notifier, current, sent, acked>>

NoticeAcked ==
    /\ notifier = "writes"
    /\ current \in sent
    /\ Reaches(current.to)
    /\ acked' = acked \cup {current}
    /\ notifier' = "marks"
    /\ UNCHANGED <<requestVars, unread, notify_variable, rows, current, sent>>

\* Wrong on purpose: a write that fails is marked all the same.
NoticeUnackedMarks ==
    /\ notifier = "writes"
    /\ notifier' = "marks"
    /\ UNCHANGED <<requestVars, unread, notify_variable, rows, current, sent, acked>>

\* If nobody acknowledges it, the sweep goes on with the next one.
NoticeUnacked ==
    /\ notifier = "writes"
    /\ notifier' = "sweeps"
    /\ UNCHANGED <<requestVars, unread, notify_variable, rows, current, sent, acked>>

MarkRead ==
    /\ notifier = "marks"
    /\ unread' = unread \ {current.row.notice}
    /\ notifier' = "sweeps"
    /\ UNCHANGED <<requestVars, notify_variable, rows, current, sent, acked>>

SweepEnds ==
    /\ notifier = "sweeps"
    /\ rows = {}
    /\ notifier' = "waits"
    /\ UNCHANGED <<requestVars, unread, notify_variable, rows, current, sent, acked>>

-----------------------------------------------------------------------------
ClientStep(c) ==
    Start(c) \/ Type(c) \/ Receive(c) \/ ReceiveEOF(c) \/ Quit(c)
Connects(c) ==
    \/ Accept(c) \/ TakeBuffered(c) \/ BeginRead(c) \/ ReadRequest(c) \/ ReadFails(c)
    \/ ReadEOF(c) \/ ReplyReads(c) \/ NotifierReads(c)
LoginStep(c) ==
    LogInFails(c) \/ DrawSid(c) \/ InsertLogin(c) \/ SendAnswer(c) \/ LoginAcked(c)
PostStep(c) == InsertPost(c) \/ ReadKey(c) \/ InsertNotices(c) \/ NoticesRefused(c)
Serve(c) ==
    \/ Refuse(c) \/ Drop(c) \/ AnswerNoUser(c) \/ FindRow(c) \/ PostNotLogged(c)
    \/ InsertLog(c) \/ InsertLogout(c) \/ ReplyEnds(c) \/ Raise(c)
NotifierStep ==
    \/ Sweep \/ WriteNotice \/ WriteFails \/ NoticeAcked \/ NoticeUnacked \/ MarkRead
    \/ SweepEnds

Next ==
    \/ \E c \in Clients : ClientStep(c) \/ Connects(c) \/ LoginStep(c) \/ PostStep(c) \/ Serve(c)
    \/ NotifierStep
    \/ Crash \/ Restart
    \/ \E s \in Sids : Expire(s)

Spec == Init /\ [][Next]_vars

-----------------------------------------------------------------------------
(* Properties.                                                             *)

\* A client that runs has a number that two logins did not draw at once.
Holds(c) == client[c] = "on" /\ sessionID[c] \notin shared \cup {NoSid}

\* A number that two logins did not draw at the same time, and that has come to
\* a client, is in the log for a login served on that client's connection, and
\* no other client, of this run of the server or an earlier one, has it.  That
\* login is the client's own, unless a write_socket has read the LOGIN of
\* another and so got it to this connection's handler.
SessionsOwnUser ==
    \A c \in Clients : Holds(c) =>
        /\ \E r \in log[sessionID[c]] : r.conn = c /\ (r.from = c \/ r.from \in astray)
        /\ \A d \in Clients \ {c} : client[d] = "on" => sessionID[d] # sessionID[c]

\* While a connection is open, the socket in the row of its client's session
\* is the connection itself, whatever was logged and closed in between, again
\* for a number drawn once.
SessionReachesClient ==
    \A c \in Clients :
        Holds(c) /\ handler[c] \in Working =>
            /\ fdOwner[sockFd[c]] = c
            /\ \E r \in log[sessionID[c]] : r.sock = sockFd[c]

\* A notification is of the user whose LOGIN gave its row the socket.  It goes
\* to another client only when the connection the LOGIN was served on is over,
\* or when that was not the connection it came on, which takes a write_socket
\* that has read it; shared numbers do not mislead it.
StraysOnlyAfterClose ==
    \A m \in sent :
        /\ UserOf[m.row.from] = m.row.notice[2]
        /\ m.row.conn = m.row.from \/ m.row.from \in astray
        /\ m.to = m.row.conn \/ handler[m.row.conn] = "closed"

\* Once the server has nothing left to do on a connection but to read, and the
\* client has had no session number, some write_socket has read its LOGIN:
\* whoever's requests its handler served in between, no LOGIN it read itself
\* has gone without an answer.
WaitsOnlyIfAstray ==
    \A c \in Clients :
        /\ client[c] = "on" /\ sessionID[c] = NoSid
        /\ up[c] = <<>> /\ answer[c] = <<>>
        /\ handler[c] = "reading"
        => c \in astray

\* Through crashes, restarts, strays and wrong keys, the system keeps the
\* promises of the notice board: the notices of a post go up together, if they
\* do, and once; a notice is not marked before somebody has acknowledged it,
\* not delivered once marked, and never taken down.
Board == INSTANCE NoticeBoard WITH
    Posts <- 1 .. MaxPosts,
    posted <- notices \X Users,
    delivered <- {m.row.notice : m \in acked},
    marked <- (notices \X Users) \ unread

ImplementsBoard == Board!BoardSpec

\* mysql_lib.h on notifications: the database is updated "if a notification is
\* successfully sent to the client".  Its user's client, that is.
ReadByItsUser ==
    \A n \in (notices \X Users) \ unread :
        \E m \in sent : m.row.notice = n /\ UserOf[m.to] = n[2]

=============================================================================
