---------------------------- MODULE WallTalkProofs ----------------------------
(***************************************************************************)
(* Theorems about WallTalk, for every set of clients, users, session       *)
(* numbers and descriptors, and every number of posts, commands and faults *)
(* (a crash of the server and its restart among them).                     *)
(***************************************************************************)
EXTENDS WallTalk, TLAPS

-----------------------------------------------------------------------------
(* What each kind of step leaves alone, and where handlers go.             *)

\* A client touches nothing of the server but the queues of its connection.
LEMMA ClientFrame ==
    ASSUME NEW c \in Clients, ClientStep(c)
    PROVE  UNCHANGED serverVars /\ UNCHANGED alive
  BY DEF ClientStep, Start, Type, Receive, ReceiveEOF, Quit, processVars

\* A connection is accepted, read and closed without a look at the database.
LEMMA ConnectFrame ==
    ASSUME NEW c \in Clients, Connects(c)
    PROVE  /\ UNCHANGED <<clientVars, answer, alive, drawn, key, lastLogin, tables>>
           /\ UNCHANGED <<notify_variable, notifierVars, shared>>
  <1> USE DEF netVars, processVars, workVars
  <1>1. CASE Accept(c) \/ TakeBuffered(c) \/ BeginRead(c)
      BY <1>1 DEF Accept, TakeBuffered, BeginRead, serverVars
  <1>2. CASE ReadRequest(c) \/ ReadFails(c) \/ ReadEOF(c)
      BY <1>2 DEF ReadRequest, ReadFails, ReadEOF
  <1>3. CASE ReplyReads(c) \/ NotifierReads(c)
      BY <1>3 DEF ReplyReads, NotifierReads, BuffersRequestOf
  <1>4. QED
      BY <1>1, <1>2, <1>3 DEF Connects

RequestStep(c) == LoginStep(c) \/ PostStep(c) \/ Serve(c)

\* A request is served without a look at other queues or the notifier's work.
LEMMA RequestFrame ==
    ASSUME NEW c \in Clients, RequestStep(c)
    PROVE  /\ UNCHANGED <<clientVars, up, processVars, request, bufferVars, notifierVars>>
           /\ SendAnswer(c) \/ UNCHANGED answer
  <1> USE DEF outsideVars, serverVars, netVars, workVars
  <1>1. CASE LoginStep(c)
      BY <1>1 DEF LoginStep, LogInFails, DrawSid, InsertLogin, SendAnswer, LoginAcked
  <1>2. CASE PostStep(c)
      BY <1>2 DEF PostStep, InsertPost, ReadKey, InsertNotices, NoticesRefused
  <1>3. CASE Serve(c)
    <2>1. CASE Refuse(c) \/ Drop(c) \/ AnswerNoUser(c) \/ FindRow(c) \/ PostNotLogged(c)
        BY <2>1 DEF Refuse, Drop, AnswerNoUser, FindRow, PostNotLogged
    <2>2. CASE InsertLog(c) \/ InsertLogout(c) \/ ReplyEnds(c) \/ Raise(c)
        BY <2>2 DEF InsertLog, InsertLogout, ReplyEnds, Raise
    <2>3. QED
        BY <1>3, <2>1, <2>2 DEF Serve
  <1>4. QED
      BY <1>1, <1>2, <1>3 DEF RequestStep

\* The notifier reads and marks, and nothing else.
LEMMA NotifierFrame == NotifierStep => UNCHANGED requestVars
  BY DEF NotifierStep, Sweep, WriteNotice, WriteFails, NoticeAcked, NoticeUnacked, MarkRead,
         SweepEnds

\* The steps there are.
LEMMA NextCases ==
    ASSUME [Next]_vars
    PROVE  \/ \E c \in Clients : ClientStep(c) \/ Connects(c) \/ RequestStep(c)
           \/ NotifierStep
           \/ Crash
           \/ Restart
           \/ \E s \in Sids : Expire(s)
           \/ UNCHANGED vars
  BY DEF Next, RequestStep

\* A handler at work goes to another place of its work, or closes.
LEMMA HandlerMoves ==
    ASSUME TypeOK, NEW c \in Clients,
           \/ RequestStep(c)
           \/ TakeBuffered(c) \/ BeginRead(c) \/ ReadRequest(c) \/ ReadFails(c) \/ ReadEOF(c)
    PROVE  \E from \in Working, to \in Working \cup {"closed"} :
              /\ Moves(c, from, to)
              /\ UNCHANGED sockFd
              /\ \/ to # "closed" /\ UNCHANGED fdOwner
                 \/ to = "closed" /\ fdOwner' = [fdOwner EXCEPT ![sockFd[c]] = Free]
  <1> USE DEF Working, socketVars, serverVars
  <1>1. CASE LogInFails(c) \/ DrawSid(c) \/ InsertLogin(c)
    <2>1. \/ Moves(c, "serving", "answering") \/ Moves(c, "serving", "inserting")
          \/ Moves(c, "inserting", "answering")
        BY <1>1 DEF LogInFails, DrawSid, InsertLogin
    <2>2. UNCHANGED <<sockFd, fdOwner>>
        BY <1>1 DEF LogInFails, DrawSid, InsertLogin
    <2>3. QED
        BY <2>1, <2>2
  <1>2. CASE SendAnswer(c) \/ LoginAcked(c) \/ ReplyEnds(c)
      BY <1>2 DEF SendAnswer, LoginAcked, ReplyEnds
  <1>3. CASE InsertPost(c) \/ ReadKey(c) \/ InsertNotices(c) \/ NoticesRefused(c)
      BY <1>3 DEF InsertPost, ReadKey, InsertNotices, NoticesRefused
  <1>4. CASE Refuse(c) \/ AnswerNoUser(c) \/ PostNotLogged(c) \/ Raise(c)
      BY <1>4 DEF Refuse, AnswerNoUser, PostNotLogged, Raise
  <1>5. CASE FindRow(c)
    <2>1. Moves(c, "serving", "logging") \/ Moves(c, "noted", "logging")
        BY <1>5 DEF FindRow, Serves, Moves
    <2>2. QED
        BY <1>5, <2>1 DEF FindRow
  <1>6. CASE InsertLog(c)
    <2>1. Moves(c, "logging", "raising") \/ Moves(c, "logging", "replying")
        BY <1>6 DEF InsertLog, Moves
    <2>2. QED
        BY <1>6, <2>1 DEF InsertLog
  <1>7. CASE Drop(c) \/ InsertLogout(c) \/ ReadFails(c)
      BY <1>7 DEF Drop, InsertLogout, ReadFails, Closes
  <1>8. CASE TakeBuffered(c) \/ BeginRead(c) \/ ReadRequest(c)
      BY <1>8 DEF TakeBuffered, BeginRead, ReadRequest
  <1>9. CASE ReadEOF(c)
      BY <1>9 DEF ReadEOF
  <1>10. QED
      BY <1>1, <1>2, <1>3, <1>4, <1>5, <1>6, <1>7, <1>8, <1>9
      DEF RequestStep, LoginStep, PostStep, Serve

-----------------------------------------------------------------------------
(* Type correctness.                                                       *)

\* Initially every variable has its type.
LEMMA InitTyped == Init => TypeOK
  <1> SUFFICES ASSUME Init PROVE TypeOK
      OBVIOUS
  <1>1. PICK c \in Clients, f \in Fds, s \in Sids : TRUE
      BY WallTalkAssumption
  <1>2. ClientTypes
    <2>1. \A d \in Clients : Len(Script[d]) \in Nat
        BY WallTalkAssumption
    <2>2. QED
        BY <2>1 DEF Init, ClientTypes
  <1>3. NetTypes
      BY DEF Init, NetTypes
  <1>4. ProcessTypes
    <2>1. (CHOOSE g \in Fds : TRUE) \in Fds
        BY <1>1
    <2>2. events \in 0 .. MaxEvents
        BY WallTalkAssumption DEF Init
    <2>3. QED
        BY <2>1, <2>2 DEF Init, ProcessTypes, Places
  <1>5. WorkTypes
    <2>1. [from |-> c, cmd |-> "LOGIN", sid |-> s] \in Request
        BY <1>1 DEF Request
    <2>2. (CHOOSE q \in Request : TRUE) \in Request
        BY <2>1
    <2>3. [sid |-> s, from |-> c, conn |-> c, sock |-> f, out |-> TRUE, fresh |-> TRUE] \in Row
        BY <1>1 DEF Row
    <2>4. (CHOOSE r \in Row : TRUE) \in Row
        BY <2>3
    <2>5. 0 \in 0 .. MaxPosts
        BY WallTalkAssumption
    <2>6. QED
        BY <2>2, <2>4, <2>5 DEF Init, WorkTypes
  <1>6. LogTypes
      BY DEF Init, LogTypes
  <1>7. PostTypes
      BY WallTalkAssumption DEF Init, PostTypes
  <1>8. NotifierTypes
    <2>1. UserOf[c] \in Users
        BY <1>1 DEF Users
    <2>2. 1 \in 1 .. MaxPosts
        BY WallTalkAssumption
    <2>3. <<1, UserOf[c]>> \in Notice
        BY <2>1, <2>2 DEF Notice
    <2>4. PICK n \in Notice : TRUE
        BY <2>3
    <2>5. PICK r \in ResultRow : r = [notice |-> n, from |-> c, conn |-> c, sock |-> f]
        BY <1>1, <2>4 DEF ResultRow
    <2>6. [to |-> c, row |-> r] \in Message
        BY <1>1, <2>5 DEF Message
    <2>7. (CHOOSE m \in Message : TRUE) \in Message
        BY <2>6
    <2>8. QED
        BY <2>7 DEF Init, NotifierTypes
  <1>9. QED
      BY <1>2, <1>3, <1>4, <1>5, <1>6, <1>7, <1>8 DEF TypeOK

\* What is typed, received or begun at a client keeps the types of its
\* variables; nobody else writes them.
LEMMA ClientStepTyped == TypeOK /\ [Next]_vars => ClientTypes'
  <1> SUFFICES ASSUME ClientTypes, NetTypes, [Next]_vars PROVE ClientTypes'
      BY DEF TypeOK
  <1>1. ASSUME UNCHANGED clientVars PROVE ClientTypes'
      BY <1>1 DEF ClientTypes, clientVars
  <1>2. ASSUME NEW c \in Clients, Start(c) \/ ReceiveEOF(c) \/ Quit(c) PROVE ClientTypes'
      BY <1>2 DEF Start, ReceiveEOF, Quit, ClientTypes
  <1>3. ASSUME NEW c \in Clients, Type(c) PROVE ClientTypes'
    <2>1. Len(Script[c]) \in Nat /\ commands[c] \in Nat
        BY WallTalkAssumption DEF ClientTypes
    <2>2. QED
        BY <1>3, <2>1 DEF Type, ClientTypes
  <1>4. ASSUME NEW c \in Clients, Receive(c) PROVE ClientTypes'
    <2>1. Head(answer[c]) \in Sids \cup {NoSid}
        BY <1>4 DEF Receive, NetTypes
    <2>2. QED
        BY <1>4, <2>1 DEF Receive, ClientTypes
  <1>5. ASSUME NEW c \in Clients, Connects(c) \/ RequestStep(c) PROVE ClientTypes'
      BY <1>1, <1>5, ConnectFrame, RequestFrame
  <1>6. CASE NotifierStep \/ Crash \/ Restart \/ \E s \in Sids : Expire(s)
      BY <1>1, <1>6, NotifierFrame DEF requestVars, Crash, Restart, Expire
  <1>7. CASE UNCHANGED vars
      BY <1>1, <1>7 DEF vars
  <1>8. QED
      BY <1>2, <1>3, <1>4, <1>5, <1>6, <1>7, NextCases DEF ClientStep

\* A queue that is not empty gives its head, and keeps its type.
LEMMA HeadTyped ==
    ASSUME NEW S, NEW q \in Seq(S), q # <<>>
    PROVE  /\ Head(q) \in S /\ Tail(q) \in Seq(S)
           /\ Len(q) \in Nat \ {0} /\ Head(q) = q[1] /\ Len(Tail(q)) = Len(q) - 1
           /\ \A i \in 1 .. Len(q) - 1 : Tail(q)[i] = q[i + 1]
  OBVIOUS

\* The queues of each connection and the buffer keep their types.
LEMMA NetStepTyped == TypeOK /\ [Next]_vars => NetTypes'
  <1> SUFFICES ASSUME ClientTypes, NetTypes, WorkTypes, [Next]_vars PROVE NetTypes'
      BY DEF TypeOK
  <1> USE DEF netVars, bufferVars
  <1>1. ASSUME UNCHANGED <<netVars, bufferPkts>> PROVE NetTypes'
      BY <1>1 DEF NetTypes
  <1>2. ASSUME NEW c \in Clients, Start(c) PROVE NetTypes'
    <2>1. [from |-> c, cmd |-> "LOGIN", sid |-> NoSid] \in Request
        BY DEF Request
    <2>2. PICK q \in Request : q = [from |-> c, cmd |-> "LOGIN", sid |-> NoSid]
        BY <2>1
    <2>3. <<q>> \in Seq(Request)
        OBVIOUS
    <2>4. up' = [up EXCEPT ![c] = <<q>>] \/ up' = up
        BY <1>2, <2>2 DEF Start
    <2>5. up' \in [Clients -> Seq(Request)]
        BY <2>3, <2>4 DEF NetTypes
    <2>6. QED
        BY <1>2, <2>5 DEF Start, serverVars, NetTypes
  <1>3. ASSUME NEW c \in Clients, Type(c) PROVE NetTypes'
    <2>1. PICK cmd \in Script[c][commands[c] + 1] :
            up' = [up EXCEPT ![c] = Append(@, [from |-> c, cmd |-> cmd, sid |-> sessionID[c]])]
        BY <1>3 DEF Type
    <2>2. Script[c] \in Seq(SUBSET Commands) /\ commands[c] \in Nat /\ commands[c] < Len(Script[c])
        BY <1>3, WallTalkAssumption DEF Type, ClientTypes, Commands
    <2>3. commands[c] + 1 \in 1 .. Len(Script[c])
        BY <2>2
    <2>4. cmd \in Commands
        BY <2>1, <2>2, <2>3
    <2>5. [from |-> c, cmd |-> cmd, sid |-> sessionID[c]] \in Request
        BY <2>4 DEF Request, ClientTypes
    <2>6. QED
        BY <1>3, <2>1, <2>5 DEF Type, NetTypes, serverVars
  <1>4. ASSUME NEW c \in Clients, Receive(c) PROVE NetTypes'
    <2>1. Tail(answer[c]) \in Seq(Sids \cup {NoSid})
        BY <1>4 DEF Receive, NetTypes
    <2>2. QED
        BY <1>4, <2>1 DEF Receive, NetTypes, serverVars
  <1>5. ASSUME NEW c \in Clients, ReceiveEOF(c) \/ Quit(c) PROVE NetTypes'
      BY <1>1, <1>5 DEF ReceiveEOF, Quit, serverVars
  <1>6. ASSUME NEW c \in Clients, up[c] # <<>>, up' = [up EXCEPT ![c] = Tail(@)]
        PROVE  up' \in [Clients -> Seq(Request)] /\ Head(up[c]) \in Request
    <2>1. up[c] \in Seq(Request)
        BY DEF NetTypes
    <2>2. Tail(up[c]) \in Seq(Request) /\ Head(up[c]) \in Request
        BY <1>6, <2>1, HeadTyped
    <2>3. QED
        BY <1>6, <2>2 DEF NetTypes
  <1>7. ASSUME NEW c \in Clients, Connects(c) PROVE NetTypes'
    <2>1. UNCHANGED answer
        BY <1>7, ConnectFrame
    <2>2. CASE TakeBuffered(c)
      <3>1. Tail(bufferPkts) \in Seq(Request)
          BY <2>2 DEF TakeBuffered, NetTypes
      <3>2. QED
          BY <2>2, <3>1 DEF TakeBuffered, NetTypes
    <2>3. CASE ReadRequest(c)
        BY <1>6, <2>1, <2>3 DEF ReadRequest, NetTypes
    <2>4. CASE BuffersRequestOf(c)
      <3>1. up' \in [Clients -> Seq(Request)] /\ Head(up[c]) \in Request
          BY <1>6, <2>4 DEF BuffersRequestOf
      <3>2. Append(bufferPkts, Head(up[c])) \in Seq(Request)
          BY <3>1 DEF NetTypes
      <3>3. QED
          BY <2>1, <2>4, <3>1, <3>2 DEF BuffersRequestOf, NetTypes
    <2>5. CASE Accept(c) \/ BeginRead(c) \/ ReadFails(c) \/ ReadEOF(c)
        BY <1>1, <2>5 DEF Accept, BeginRead, ReadFails, ReadEOF, serverVars
    <2>6. QED
        BY <1>7, <2>2, <2>3, <2>4, <2>5 DEF Connects, ReplyReads, NotifierReads
  <1>8. ASSUME NEW c \in Clients, RequestStep(c) PROVE NetTypes'
    <2>1. UNCHANGED <<up, bufferPkts>>
        BY <1>8, RequestFrame
    <2>2. CASE SendAnswer(c)
      <3>1. Append(answer[c], drawn[c]) \in Seq(Sids \cup {NoSid})
          BY DEF NetTypes, WorkTypes
      <3>2. QED
          BY <2>1, <2>2, <3>1 DEF SendAnswer, NetTypes
    <2>3. QED
        BY <1>1, <1>8, <2>1, <2>2, RequestFrame
  <1>9. CASE Crash
      BY <1>9 DEF Crash, NetTypes
  <1>10. CASE NotifierStep \/ Restart \/ \E s \in Sids : Expire(s)
      BY <1>1, <1>10, NotifierFrame DEF requestVars, Restart, Expire, serverVars
  <1>11. CASE UNCHANGED vars
      BY <1>1, <1>11 DEF vars
  <1>12. QED
      BY <1>2, <1>3, <1>4, <1>5, <1>7, <1>8, <1>9, <1>10, <1>11, NextCases DEF ClientStep

\* So do the descriptors, the server's globals and the places of its handlers.
LEMMA ProcessStepTyped == TypeOK /\ [Next]_vars => ProcessTypes'
  <1> SUFFICES ASSUME TypeOK, ProcessTypes, [Next]_vars PROVE ProcessTypes'
      BY DEF TypeOK
  <1> USE WallTalkAssumption DEF ProcessTypes, processVars, socketVars, bufferVars, serverVars
  <1>1. CASE UNCHANGED vars
      BY <1>1 DEF vars
  <1>2. Event => events' \in 0 .. MaxEvents
      BY DEF Event
  <1>3. ASSUME NEW c \in Clients, ClientStep(c) PROVE ProcessTypes'
    <2>1. events' \in 0 .. MaxEvents
        BY <1>2, <1>3 DEF ClientStep, Start, Type, Receive, ReceiveEOF, Quit
    <2>2. handler' \in [Clients -> Places]
        BY <1>3 DEF ClientStep, Start, Type, Receive, ReceiveEOF, Quit, Places
    <2>3. QED
        BY <1>3, <2>1, <2>2, ClientFrame
  <1>4. ASSUME NEW c \in Clients, NEW from, NEW to \in Working \cup {"closed"},
               Moves(c, from, to), UNCHANGED sockFd,
               UNCHANGED fdOwner \/ fdOwner' = [fdOwner EXCEPT ![sockFd[c]] = Free]
        PROVE  handler' \in [Clients -> Places] /\ sockFd' \in [Clients -> Fds]
               /\ fdOwner' \in [Fds -> Clients \cup {Free}]
      BY <1>4 DEF Moves, Places
  <1>5. ASSUME NEW c \in Clients, RequestStep(c) PROVE ProcessTypes'
    <2>1. /\ handler' \in [Clients -> Places] /\ sockFd' \in [Clients -> Fds]
          /\ fdOwner' \in [Fds -> Clients \cup {Free}]
        BY <1>4, <1>5, HandlerMoves
    <2>2. UNCHANGED <<alive, events, astray>>
        BY <1>5, RequestFrame
    <2>3. /\ lastLogin' \in Sids \cup {NoSid}
          /\ notify_variable' \in BOOLEAN
          /\ shared' \subseteq Sids
      <3>1. CASE LoginStep(c)
        <4>1. CASE DrawSid(c)
            BY <4>1 DEF DrawSid
        <4>2. CASE LoginAcked(c)
            BY <4>2 DEF LoginAcked, TypeOK, WorkTypes
        <4>3. QED
            BY <3>1, <4>1, <4>2 DEF LoginStep, LogInFails, InsertLogin, SendAnswer
      <3>2. CASE PostStep(c)
          BY <3>2 DEF PostStep, InsertPost, ReadKey, InsertNotices, NoticesRefused
      <3>3. CASE Serve(c)
          BY <3>3 DEF Serve, Refuse, Drop, AnswerNoUser, FindRow, PostNotLogged, InsertLog,
                      InsertLogout, ReplyEnds, Raise
      <3>4. QED
          BY <1>5, <3>1, <3>2, <3>3 DEF RequestStep
    <2>4. QED
        BY <2>1, <2>2, <2>3
  <1>6. ASSUME NEW c \in Clients, Connects(c) PROVE ProcessTypes'
    <2>1. UNCHANGED <<alive, lastLogin, notify_variable, shared>>
        BY <1>6, ConnectFrame
    <2>2. CASE Accept(c)
        BY <2>2 DEF Accept, Places, Working
    <2>3. CASE BuffersRequestOf(c)
        BY <2>3 DEF BuffersRequestOf
    <2>4. CASE TakeBuffered(c) \/ BeginRead(c) \/ ReadRequest(c) \/ ReadFails(c) \/ ReadEOF(c)
      <3>1. /\ handler' \in [Clients -> Places] /\ sockFd' \in [Clients -> Fds]
            /\ fdOwner' \in [Fds -> Clients \cup {Free}]
          BY <1>4, <2>4, HandlerMoves
      <3>2. events' \in 0 .. MaxEvents /\ UNCHANGED astray
          BY <1>2, <2>4 DEF TakeBuffered, BeginRead, ReadRequest, ReadFails, ReadEOF
      <3>3. QED
          BY <2>1, <3>1, <3>2
    <2>5. QED
        BY <1>6, <2>2, <2>3, <2>4 DEF Connects, ReplyReads, NotifierReads
  <1>7. CASE Crash
    <2>1. events' \in 0 .. MaxEvents
        BY <1>2, <1>7 DEF Crash
    <2>2. handler' \in [Clients -> {"none", "closed"}] /\ fdOwner' \in [Fds -> {Free}]
        BY <1>7 DEF Crash
    <2>3. handler' \in [Clients -> Places] /\ fdOwner' \in [Fds -> Clients \cup {Free}]
        BY <2>2 DEF Places
    <2>4. QED
        BY <1>7, <2>1, <2>3 DEF Crash
  <1>8. CASE Restart
      BY <1>8 DEF Restart
  <1>9. ASSUME NEW s \in Sids, Expire(s) PROVE ProcessTypes'
      BY <1>2, <1>9 DEF Expire
  <1>10. CASE NotifierStep
    <2>1. notify_variable' \in BOOLEAN
        BY <1>10 DEF NotifierStep, Sweep, WriteNotice, WriteFails, NoticeAcked, NoticeUnacked,
                     MarkRead, SweepEnds
    <2>2. QED
        BY <1>10, <2>1, NotifierFrame DEF requestVars
  <1>11. QED
      BY <1>1, <1>3, <1>5, <1>6, <1>7, <1>8, <1>9, <1>10, NextCases


\* A request that is read, and what a handler keeps of the database while it is
\* served, have their types.
LEMMA WorkStepTyped == TypeOK /\ [Next]_vars => WorkTypes'
  <1> SUFFICES ASSUME TypeOK, [Next]_vars PROVE WorkTypes'
      OBVIOUS
  <1> USE DEF workVars
  <1>1. WorkTypes /\ NetTypes /\ ProcessTypes /\ LogTypes /\ PostTypes
      BY DEF TypeOK
  <1>2. ASSUME UNCHANGED workVars, \A c \in Clients : handler'[c] = "inserting" => handler[c] = "inserting"
        PROVE  WorkTypes'
      BY <1>1, <1>2 DEF WorkTypes
  <1>3. ASSUME NEW c \in Clients, NEW from, NEW to, Moves(c, from, to), to # "inserting"
        PROVE  \A d \in Clients : handler'[d] = "inserting" => handler[d] = "inserting" /\ d # c
      BY <1>1, <1>3 DEF Moves, ProcessTypes
  <1>4. ASSUME NEW c \in Clients, ClientStep(c) PROVE WorkTypes'
    <2>1. UNCHANGED workVars
        BY <1>4, ClientFrame DEF serverVars
    <2>2. handler' = handler \/ handler' = [handler EXCEPT ![c] = "waiting"]
        BY <1>4 DEF ClientStep, Start, Type, Receive, ReceiveEOF, Quit
    <2>3. \A d \in Clients : handler'[d] = "inserting" => handler[d] = "inserting"
        BY <1>1, <2>2 DEF ProcessTypes
    <2>4. QED
        BY <1>2, <2>1, <2>3
  <1>5. ASSUME NEW c \in Clients, NEW from, NEW to, Moves(c, from, to), to # "inserting",
               UNCHANGED drawn,
               request' = request \/ \E q \in Request : request' = [request EXCEPT ![c] = q],
               key' = key \/ \E k \in 0 .. MaxPosts : key' = [key EXCEPT ![c] = k],
               found' = found \/ \E r \in Row : found' = [found EXCEPT ![c] = r]
        PROVE  WorkTypes'
    <2>1. \A d \in Clients : handler'[d] = "inserting" => drawn'[d] \in Sids
        BY <1>1, <1>3, <1>5 DEF WorkTypes
    <2>2. request' \in [Clients -> Request] /\ key' \in [Clients -> 0 .. MaxPosts]
          /\ found' \in [Clients -> Row]
        BY <1>1, <1>5 DEF WorkTypes
    <2>3. QED
        BY <1>1, <1>5, <2>1, <2>2 DEF WorkTypes
  <1>6. ASSUME NEW c \in Clients, Connects(c) PROVE WorkTypes'
    <2>1. CASE BeginRead(c) \/ ReadFails(c)
        BY <1>5, <2>1 DEF BeginRead, ReadFails, Closes, serverVars
    <2>2. CASE TakeBuffered(c)
      <3>1. Head(bufferPkts) \in Request
          BY <1>1, <2>2 DEF TakeBuffered, NetTypes
      <3>2. QED
          BY <1>5, <2>2, <3>1 DEF TakeBuffered
    <2>3. CASE ReadRequest(c)
      <3>1. up[c] \in Seq(Request) /\ up[c] # <<>>
          BY <1>1, <2>3 DEF ReadRequest, NetTypes
      <3>2. Head(up[c]) \in Request
          BY <3>1, HeadTyped
      <3>3. QED
          BY <1>5, <2>3, <3>2 DEF ReadRequest
    <2>4. CASE BuffersRequestOf(c)
        BY <1>2, <2>4 DEF BuffersRequestOf
    <2>5. CASE Accept(c)
      <3>1. \A d \in Clients : handler'[d] = "inserting" => handler[d] = "inserting"
          BY <1>1, <2>5 DEF Accept, ProcessTypes
      <3>2. QED
          BY <1>2, <2>5, <3>1 DEF Accept
    <2>6. CASE ReadEOF(c) /\ Valid(lastLogin)
      <3>1. lastLogin \in Sids
          BY <2>6 DEF Valid
      <3>2. [from |-> c, cmd |-> "LOGOUT", sid |-> lastLogin] \in Request
          BY <3>1 DEF Request, Commands
      <3>3. PICK q \in Request : request' = [request EXCEPT ![c] = q]
          BY <2>6, <3>2 DEF ReadEOF
      <3>4. PICK r \in log[lastLogin] : found' = [found EXCEPT ![c] = r]
          BY <2>6 DEF ReadEOF
      <3>5. r \in Row
          BY <1>1, <3>1, <3>4 DEF LogTypes
      <3>6. Moves(c, "reading", "logging") /\ UNCHANGED <<drawn, key>>
          BY <2>6 DEF ReadEOF
      <3>7. QED
          BY <1>5, <3>3, <3>4, <3>5, <3>6
    <2>7. CASE ReadEOF(c) /\ ~ Valid(lastLogin)
      <3>1. Moves(c, "reading", "left") /\ UNCHANGED <<request, drawn, key, found>>
          BY <2>7 DEF ReadEOF
      <3>2. QED
          BY <1>5, <3>1
    <2>8. QED
        BY <1>6, <2>1, <2>2, <2>3, <2>4, <2>5, <2>6, <2>7 DEF Connects, ReplyReads, NotifierReads
  <1>7. ASSUME NEW c \in Clients, RequestStep(c) PROVE WorkTypes'
    <2> USE DEF serverVars, outsideVars
    <2>1. UNCHANGED request
        BY <1>7, RequestFrame
    <2>2. CASE LogInFails(c)
      <3>1. \A d \in Clients : handler'[d] = "inserting" => handler[d] = "inserting" /\ d # c
          BY <1>3, <2>2 DEF LogInFails
      <3>2. drawn' = [drawn EXCEPT ![c] = NoSid] /\ UNCHANGED <<key, found>>
          BY <2>2 DEF LogInFails
      <3>3. QED
          BY <1>1, <2>1, <3>1, <3>2 DEF WorkTypes
    <2>3. CASE DrawSid(c)
      <3>1. PICK s \in Sids : drawn' = [drawn EXCEPT ![c] = s]
          BY <2>3 DEF DrawSid
      <3>2. handler' = [handler EXCEPT ![c] = "inserting"] /\ UNCHANGED <<key, found>>
          BY <2>3 DEF DrawSid, Moves
      <3>3. \A d \in Clients : handler'[d] = "inserting" => drawn'[d] \in Sids
          BY <1>1, <3>1, <3>2 DEF WorkTypes, ProcessTypes
      <3>4. QED
          BY <1>1, <2>1, <3>1, <3>2, <3>3 DEF WorkTypes
    <2>4. CASE InsertLogin(c)
        BY <1>5, <2>4 DEF InsertLogin
    <2>5. CASE SendAnswer(c) \/ LoginAcked(c) \/ ReplyEnds(c)
        BY <1>5, <2>5 DEF SendAnswer, LoginAcked, ReplyEnds
    <2>6. CASE InsertPost(c) \/ InsertNotices(c) \/ NoticesRefused(c)
        BY <1>5, <2>6 DEF InsertPost, InsertNotices, NoticesRefused
    <2>7. CASE ReadKey(c)
      <3>1. PICK k \in 0 .. MaxPosts : key' = [key EXCEPT ![c] = k]
        <4>1. lastInsert \in 0 .. MaxPosts
            BY <1>1, WallTalkAssumption DEF PostTypes
        <4>2. PICK k \in IF lastInsert = 0 THEN 0 .. MaxPosts ELSE {lastInsert} :
                key' = [key EXCEPT ![c] = k]
            BY <2>7 DEF ReadKey
        <4>3. QED
            BY <4>1, <4>2
      <3>2. Moves(c, "posted", "keyed") /\ UNCHANGED <<drawn, found>>
          BY <2>7 DEF ReadKey
      <3>3. QED
          BY <1>5, <2>1, <3>1, <3>2
    <2>8. CASE Refuse(c) \/ AnswerNoUser(c) \/ PostNotLogged(c) \/ Raise(c)
        BY <1>5, <2>8 DEF Refuse, AnswerNoUser, PostNotLogged, Raise
    <2>9. CASE Drop(c) \/ InsertLogout(c)
        BY <1>5, <2>9 DEF Drop, InsertLogout, Closes
    <2>10. CASE FindRow(c)
      <3>1. PICK r \in log[request[c].sid] : found' = [found EXCEPT ![c] = r]
          BY <2>10 DEF FindRow
      <3>2. r \in Row
          BY <1>1, <2>10, <3>1 DEF FindRow, Valid, LogTypes
      <3>3. Moves(c, handler[c], "logging") /\ UNCHANGED <<drawn, key>>
          BY <2>10 DEF FindRow
      <3>4. QED
          BY <1>5, <2>1, <3>1, <3>2, <3>3
    <2>11. CASE InsertLog(c)
      <3>1. Moves(c, "logging", "raising") \/ Moves(c, "logging", "replying")
          BY <2>11 DEF InsertLog, Moves
      <3>2. UNCHANGED <<drawn, key, found>>
          BY <2>11 DEF InsertLog
      <3>3. QED
          BY <1>5, <2>1, <3>1, <3>2
    <2>12. QED
        BY <1>7, <2>2, <2>3, <2>4, <2>5, <2>6, <2>7, <2>8, <2>9, <2>10, <2>11
        DEF RequestStep, LoginStep, PostStep, Serve
  <1>8. CASE Crash
    <2>1. \A d \in Clients : handler'[d] # "inserting"
        BY <1>1, <1>8 DEF Crash, ProcessTypes
    <2>2. QED
        BY <1>2, <1>8, <2>1 DEF Crash
  <1>9. CASE NotifierStep \/ Restart \/ (\E s \in Sids : Expire(s)) \/ UNCHANGED vars
    <2>1. UNCHANGED workVars /\ UNCHANGED handler
        BY <1>9, NotifierFrame DEF requestVars, Restart, Expire, vars, serverVars
    <2>2. QED
        BY <1>2, <2>1
  <1>10. QED
      BY <1>4, <1>6, <1>7, <1>8, <1>9, NextCases

Accepted(c) == handler[c] \notin {"none", "waiting"}

\* A row becomes the latest of its session and of its user.
Adds(new) ==
    /\ log' = [log EXCEPT ![new.sid] = {new}]
    /\ lastRow' = [lastRow EXCEPT ![User(new)] = {new}]

SameOrigin(q, r) == q.sid = r.sid /\ q.from = r.from /\ q.conn = r.conn /\ q.sock = r.sock

\* The row that LogRow adds differs from the given one in out and fresh.
LEMMA LogRowAdds ==
    ASSUME NEW r \in Row, NEW out \in BOOLEAN, LogRow(r, out)
    PROVE  \E new \in Row : Adds(new) /\ SameOrigin(new, r)
  <1> DEFINE new == [r EXCEPT !.out = out, !.fresh = TRUE]
  <1>1. new \in Row /\ new.sid = r.sid /\ new.from = r.from /\ new.conn = r.conn
        /\ new.sock = r.sock
      BY DEF Row
  <1>2. log' = [log EXCEPT ![r.sid] = {new}] /\ lastRow' = [lastRow EXCEPT ![User(r)] = {new}]
      BY DEF LogRow
  <1> HIDE DEF new
  <1>3. QED
      BY <1>1, <1>2 DEF Adds, SameOrigin, User

\* What a login's insert adds.
LEMMA LoginAdds ==
    ASSUME TypeOK, NEW c \in Clients, InsertLogin(c)
    PROVE  \E new \in Row :
              /\ Adds(new)
              /\ new.sid = drawn[c] /\ new.from = request[c].from
              /\ new.conn = c /\ new.sock = sockFd[c]
  <1>1. drawn[c] \in Sids /\ request[c].from \in Clients /\ sockFd[c] \in Fds
      BY DEF TypeOK, WorkTypes, ProcessTypes, Request, InsertLogin, Moves
  <1>2. PICK r \in Row : r = [sid |-> drawn[c], from |-> request[c].from, conn |-> c,
                              sock |-> sockFd[c], out |-> FALSE, fresh |-> TRUE]
      BY <1>1 DEF Row
  <1>3. LogRow(r, FALSE)
      BY <1>2 DEF InsertLogin
  <1>4. PICK new \in Row : Adds(new) /\ SameOrigin(new, r)
      BY <1>3, LogRowAdds
  <1>5. QED
      BY <1>2, <1>4 DEF SameOrigin

\* What a step does to the log: nothing; a login adds the first row of a
\* session; the row a handler has found is added again; or a row grows old.
LEMMA LogSteps ==
    ASSUME TypeOK, [Next]_vars
    PROVE  \/ UNCHANGED <<log, lastRow>>
           \/ \E c \in Clients : InsertLogin(c)
           \/ \E c \in Clients : \E new \in Row :
                 /\ handler[c] = "logging"
                 /\ Adds(new)
                 /\ SameOrigin(new, found[c])
                 /\ InsertLog(c) \/ InsertLogout(c)
           \/ \E s \in Sids : Expire(s)
  <1> USE DEF tables, logVars
  <1>1. ASSUME NEW c \in Clients, ClientStep(c) \/ Connects(c) PROVE UNCHANGED <<log, lastRow>>
      BY <1>1, ClientFrame, ConnectFrame DEF serverVars
  <1>2. CASE NotifierStep \/ Crash \/ Restart \/ UNCHANGED vars
      BY <1>2, NotifierFrame DEF requestVars, Crash, Restart, vars, serverVars
  <1>3. ASSUME NEW c \in Clients, LoginStep(c), ~ InsertLogin(c) PROVE UNCHANGED <<log, lastRow>>
      BY <1>3 DEF LoginStep, LogInFails, DrawSid, SendAnswer, LoginAcked, serverVars
  <1>4. ASSUME NEW c \in Clients, PostStep(c) PROVE UNCHANGED <<log, lastRow>>
      BY <1>4 DEF PostStep, InsertPost, ReadKey, InsertNotices, NoticesRefused, serverVars
  <1>5. ASSUME NEW c \in Clients, Serve(c), ~ InsertLog(c), ~ InsertLogout(c)
        PROVE  UNCHANGED <<log, lastRow>>
      BY <1>5 DEF Serve, Refuse, Drop, AnswerNoUser, FindRow, PostNotLogged, ReplyEnds, Raise,
                  serverVars
  <1>6. ASSUME NEW c \in Clients, InsertLog(c) \/ InsertLogout(c)
        PROVE  handler[c] = "logging" /\ \E new \in Row : Adds(new) /\ SameOrigin(new, found[c])
    <2>1. found[c] \in Row
        BY DEF TypeOK, WorkTypes
    <2>2. PICK out \in BOOLEAN : LogRow(found[c], out)
        BY <1>6 DEF InsertLog, InsertLogout
    <2>3. handler[c] = "logging"
        BY <1>6 DEF InsertLog, InsertLogout, Closes, Moves
    <2>4. QED
        BY <2>1, <2>2, <2>3, LogRowAdds
  <1>7. ASSUME NEW c \in Clients, RequestStep(c)
        PROVE  \/ UNCHANGED <<log, lastRow>>
               \/ InsertLogin(c)
               \/ InsertLog(c) \/ InsertLogout(c)
      BY <1>3, <1>4, <1>5, <1>7 DEF RequestStep
  <1>8. QED
      BY <1>1, <1>2, <1>6, <1>7, NextCases

\* An old row is of the same origin as the young one.
LEMMA OldRows ==
    ASSUME NEW R \in SUBSET Row
    PROVE  /\ \A q \in Old(R) : q \in Row /\ \E r \in R : SameOrigin(q, r)
           /\ \A r \in R : \E q \in Old(R) : SameOrigin(q, r)
           /\ (\A r1, r2 \in R : r1 = r2) => \A q1, q2 \in Old(R) : q1 = q2
  <1>1. \A q \in Old(R) : \E r \in R : q = [r EXCEPT !.fresh = FALSE]
      BY DEF Old
  <1>2. \A r \in R : [r EXCEPT !.fresh = FALSE] \in Old(R)
      BY DEF Old
  <1>3. ASSUME NEW r \in R, NEW q, q = [r EXCEPT !.fresh = FALSE]
        PROVE  q \in Row /\ SameOrigin(q, r)
    <2>1. r \in Row
        OBVIOUS
    <2>2. QED
        BY <1>3, <2>1 DEF Row, SameOrigin
  <1>4. \A q \in Old(R) : q \in Row /\ \E r \in R : SameOrigin(q, r)
      BY <1>1, <1>3
  <1>5. ASSUME NEW r \in R PROVE \E q \in Old(R) : SameOrigin(q, r)
    <2>1. PICK q \in Old(R) : q = [r EXCEPT !.fresh = FALSE]
        BY <1>2
    <2>2. QED
        BY <1>3, <2>1
  <1>6. ASSUME \A r1, r2 \in R : r1 = r2, NEW q1 \in Old(R), NEW q2 \in Old(R) PROVE q1 = q2
    <2>1. PICK r1 \in R : q1 = [r1 EXCEPT !.fresh = FALSE]
        BY <1>1
    <2>2. PICK r2 \in R : q2 = [r2 EXCEPT !.fresh = FALSE]
        BY <1>1
    <2>3. r1 = r2
        BY <1>6
    <2>4. QED
        BY <2>1, <2>2, <2>3
  <1>7. QED
      BY <1>4, <1>5, <1>6

\* What a session timed out does to the rows of every session and every user.
LEMMA ExpiredRows ==
    ASSUME LogTypes, NEW s \in Sids, Expire(s)
    PROVE  /\ log' = [t \in Sids |-> log'[t]] /\ lastRow' = [u \in Users |-> lastRow'[u]]
           /\ \A t \in Sids : log'[t] = log[t] \/ log'[t] = Old(log[t])
           /\ \A u \in Users : lastRow'[u] = lastRow[u] \/ lastRow'[u] = Old(lastRow[u])
  <1>1. log' = [log EXCEPT ![s] = Old(@)]
      BY DEF Expire
  <1>2. lastRow' = [u \in Users |-> IF \E r \in lastRow[u] : r.sid = s THEN Old(lastRow[u])
                                    ELSE lastRow[u]]
      BY DEF Expire
  <1>3. log \in [Sids -> SUBSET Row]
      BY DEF LogTypes
  <1>4. /\ log' = [t \in Sids |-> log'[t]]
        /\ \A t \in Sids : log'[t] = log[t] \/ log'[t] = Old(log[t])
      BY <1>1, <1>3
  <1>5. /\ lastRow' = [u \in Users |-> lastRow'[u]]
        /\ \A u \in Users : lastRow'[u] = lastRow[u] \/ lastRow'[u] = Old(lastRow[u])
      BY <1>2
  <1>6. QED
      BY <1>4, <1>5

\* A row of the log stays one, and one of each session and user.
LEMMA LogStepTyped == TypeOK /\ [Next]_vars => LogTypes'
  <1> SUFFICES ASSUME TypeOK, [Next]_vars PROVE LogTypes'
      OBVIOUS
  <1>1. LogTypes
      BY DEF TypeOK
  <1>2. CASE UNCHANGED <<log, lastRow>>
      BY <1>1, <1>2 DEF LogTypes
  <1>3. ASSUME NEW new \in Row, Adds(new) PROVE LogTypes'
    <2>1. new.sid \in Sids /\ User(new) \in Users
        BY DEF Row, User, Users
    <2>2. {new} \in SUBSET Row
        OBVIOUS
    <2>3. log' \in [Sids -> SUBSET Row] /\ lastRow' \in [Users -> SUBSET Row]
        BY <1>1, <1>3, <2>2 DEF Adds, LogTypes
    <2>4. \A t \in Sids : log'[t] = IF t = new.sid THEN {new} ELSE log[t]
        BY <1>1, <1>3 DEF Adds, LogTypes
    <2>5. \A u \in Users : lastRow'[u] = IF u = User(new) THEN {new} ELSE lastRow[u]
        BY <1>1, <1>3 DEF Adds, LogTypes
    <2>6. \A t \in Sids : \A r1, r2 \in log'[t] : r1 = r2
        BY <1>1, <2>4 DEF LogTypes
    <2>7. \A u \in Users : \A r1, r2 \in lastRow'[u] : r1 = r2
        BY <1>1, <2>5 DEF LogTypes
    <2>8. QED
        BY <2>3, <2>6, <2>7 DEF LogTypes
  <1>4. ASSUME NEW s \in Sids, Expire(s) PROVE LogTypes'
    <2>1. /\ log' = [t \in Sids |-> log'[t]] /\ lastRow' = [u \in Users |-> lastRow'[u]]
          /\ \A t \in Sids : log'[t] = log[t] \/ log'[t] = Old(log[t])
          /\ \A u \in Users : lastRow'[u] = lastRow[u] \/ lastRow'[u] = Old(lastRow[u])
        BY <1>1, <1>4, ExpiredRows
    <2>2. ASSUME NEW R \in SUBSET Row, \A r1, r2 \in R : r1 = r2
          PROVE  Old(R) \in SUBSET Row /\ \A r1, r2 \in Old(R) : r1 = r2
        BY <2>2, OldRows
    <2>3. \A t \in Sids : log'[t] \in SUBSET Row /\ \A r1, r2 \in log'[t] : r1 = r2
        BY <1>1, <2>1, <2>2 DEF LogTypes
    <2>4. \A u \in Users : lastRow'[u] \in SUBSET Row /\ \A r1, r2 \in lastRow'[u] : r1 = r2
        BY <1>1, <2>1, <2>2 DEF LogTypes
    <2>5. log' \in [Sids -> SUBSET Row] /\ lastRow' \in [Users -> SUBSET Row]
        BY <2>1, <2>3, <2>4
    <2>6. QED
        BY <2>3, <2>4, <2>5 DEF LogTypes
  <1>5. ASSUME NEW c \in Clients, InsertLogin(c) PROVE LogTypes'
      BY <1>3, <1>5, LoginAdds
  <1>6. QED
      BY <1>2, <1>3, <1>4, <1>5, LogSteps

\* What a step does to the posts and their notices: nothing; a post and its
\* notices are inserted, in two steps; a notice is marked; or a row of another
\* table is the latest.
LEMMA PostSteps ==
    ASSUME [Next]_vars
    PROVE  \/ UNCHANGED postVars /\ (UNCHANGED lastInsert \/ lastInsert' = 0)
           \/ \E c \in Clients : InsertPost(c)
           \/ \E c \in Clients : InsertNotices(c)
           \/ MarkRead
  <1> USE DEF tables, postVars, serverVars
  <1>1. ASSUME NEW c \in Clients, ClientStep(c) \/ Connects(c)
        PROVE  UNCHANGED postVars /\ UNCHANGED lastInsert
      BY <1>1, ClientFrame, ConnectFrame
  <1>2. CASE NotifierStep
    <2>1. UNCHANGED <<posts, notices, lastInsert>>
        BY <1>2, NotifierFrame DEF requestVars
    <2>2. MarkRead \/ UNCHANGED unread
        BY <1>2 DEF NotifierStep, Sweep, WriteNotice, WriteFails, NoticeAcked, NoticeUnacked,
                    SweepEnds
    <2>3. QED
        BY <2>1, <2>2
  <1>3. CASE Crash \/ Restart \/ (\E s \in Sids : Expire(s)) \/ UNCHANGED vars
      BY <1>3 DEF Crash, Restart, Expire, vars
  <1>4. ASSUME NEW c \in Clients, LoginStep(c)
        PROVE  UNCHANGED postVars /\ (UNCHANGED lastInsert \/ lastInsert' = 0)
      BY <1>4 DEF LoginStep, LogInFails, DrawSid, InsertLogin, SendAnswer, LoginAcked, LogRow
  <1>5. ASSUME NEW c \in Clients, PostStep(c), ~ InsertPost(c), ~ InsertNotices(c)
        PROVE  UNCHANGED postVars /\ UNCHANGED lastInsert
      BY <1>5 DEF PostStep, ReadKey, NoticesRefused
  <1>6. ASSUME NEW c \in Clients, Serve(c)
        PROVE  UNCHANGED postVars /\ (UNCHANGED lastInsert \/ lastInsert' = 0)
      BY <1>6 DEF Serve, Refuse, Drop, AnswerNoUser, FindRow, PostNotLogged, InsertLog,
                  InsertLogout, ReplyEnds, Raise, LogRow
  <1>7. QED
      BY <1>1, <1>2, <1>3, <1>4, <1>5, <1>6, NextCases DEF RequestStep

\* Posts and notifications keep their types.
LEMMA PostStepTyped == TypeOK /\ [Next]_vars => PostTypes'
  <1> SUFFICES ASSUME PostTypes, [Next]_vars PROVE PostTypes'
      BY DEF TypeOK
  <1>1. posts \in Nat /\ lastInsert \in 0 .. posts /\ notices \subseteq 1 .. posts
      BY WallTalkAssumption DEF PostTypes
  <1>2. CASE UNCHANGED postVars /\ (UNCHANGED lastInsert \/ lastInsert' = 0)
      BY <1>1, <1>2 DEF PostTypes, postVars
  <1>3. ASSUME NEW c \in Clients, InsertPost(c) PROVE PostTypes'
    <2>1. posts' = posts + 1 /\ lastInsert' = posts + 1 /\ posts < MaxPosts
          /\ UNCHANGED <<notices, unread>>
        BY <1>3 DEF InsertPost
    <2>2. posts' \in 0 .. MaxPosts /\ lastInsert' \in 0 .. posts' /\ notices' \subseteq 1 .. posts'
        BY <1>1, <2>1, WallTalkAssumption
    <2>3. QED
        BY <2>1, <2>2 DEF PostTypes
  <1>4. ASSUME NEW c \in Clients, InsertNotices(c) PROVE PostTypes'
    <2>1. /\ key[c] \in 1 .. posts
          /\ notices' = notices \cup {key[c]}
          /\ unread' = unread \cup ({key[c]} \X Users)
          /\ posts' = posts /\ lastInsert' = 0
        BY <1>4 DEF InsertNotices
    <2>2. notices' \subseteq 1 .. posts' /\ lastInsert' \in 0 .. posts'
      <3>1. notices' \subseteq 1 .. posts'
          BY <1>1, <2>1
      <3>2. lastInsert' \in 0 .. posts'
          BY <1>1, <2>1
      <3>3. QED
          BY <3>1, <3>2
    <2>3. unread' \subseteq notices' \X Users
        BY <2>1 DEF PostTypes
    <2>4. QED
        BY <2>1, <2>2, <2>3 DEF PostTypes
  <1>5. CASE MarkRead
      BY <1>5 DEF MarkRead, PostTypes, requestVars
  <1>6. QED
      BY <1>2, <1>3, <1>4, <1>5, PostSteps

\* What a step does to the notification thread: only its own steps and a crash
\* touch it.
LEMMA NotifierSteps ==
    ASSUME [Next]_vars
    PROVE  UNCHANGED notifierVars \/ NotifierStep \/ Crash
  <1>1. ASSUME NEW c \in Clients, ClientStep(c) \/ Connects(c) \/ RequestStep(c)
        PROVE  UNCHANGED notifierVars
      BY <1>1, ClientFrame, ConnectFrame, RequestFrame DEF serverVars
  <1>2. QED
      BY <1>1, NextCases DEF Restart, Expire, vars, serverVars

\* What it keeps has its type.
LEMMA NotifierStepTyped == TypeOK /\ [Next]_vars => NotifierTypes'
  <1> SUFFICES ASSUME ProcessTypes, NotifierTypes, [Next]_vars PROVE NotifierTypes'
      BY DEF TypeOK
  <1> USE DEF NotifierTypes, notifierVars
  <1>1. CASE UNCHANGED notifierVars
      BY <1>1
  <1>2. CASE Crash
      BY <1>2 DEF Crash
  <1>3. CASE Sweep
      BY <1>3 DEF Sweep, Pending
  <1>4. CASE WriteNotice
    <2>1. PICK r \in rows :
            /\ fdOwner[r.sock] \in Clients
            /\ rows' = rows \ {r}
            /\ current' = [to |-> fdOwner[r.sock], row |-> r]
            /\ sent' = IF Reaches(fdOwner[r.sock]) THEN sent \cup {current'} ELSE sent
        BY <1>4 DEF WriteNotice
    <2>2. current' \in Message
        BY <2>1 DEF Message
    <2>3. notifier' = "writes" /\ UNCHANGED acked
        BY <1>4 DEF WriteNotice
    <2>4. rows' \subseteq ResultRow /\ sent' \subseteq Message /\ acked' \subseteq sent'
        BY <2>1, <2>2, <2>3
    <2>5. QED
        BY <2>2, <2>3, <2>4
  <1>5. CASE WriteFails \/ NoticeAcked
      BY <1>5 DEF WriteFails, NoticeAcked
  <1>6. CASE NoticeUnacked \/ MarkRead \/ SweepEnds
      BY <1>6 DEF NoticeUnacked, MarkRead, SweepEnds
  <1>7. QED
      BY <1>1, <1>2, <1>3, <1>4, <1>5, <1>6, NotifierSteps DEF NotifierStep

\* No step gives a variable a value outside its type.
LEMMA TypeStep == TypeOK /\ [Next]_vars => TypeOK'
  BY ClientStepTyped, NetStepTyped, ProcessStepTyped, WorkStepTyped, LogStepTyped,
     PostStepTyped, NotifierStepTyped DEF TypeOK

-----------------------------------------------------------------------------
(* Connections and their descriptors.                                      *)

\* A client has a connection from its start on, if it found a server, and the
\* descriptor of a handler at work is the connection's own.
ISockets ==
    /\ \A c \in Clients : client[c] = "off" => handler[c] = "none"
    /\ \A c \in Clients : client[c] = "on" => handler[c] # "none"
    /\ \A c \in Clients : handler[c] \in Working => fdOwner[sockFd[c]] = c

\* What a step does to one connection: it is accepted, its handler moves, the
\* server crashes, or it stays where it is.
LEMMA PlaceSteps ==
    ASSUME TypeOK, ISockets, [Next]_vars
    PROVE  \/ \E c \in Clients :
                 /\ handler[c] = "none" /\ client'[c] = "on"
                 /\ handler' = [handler EXCEPT ![c] = "waiting"]
                 /\ UNCHANGED socketVars
           \/ \E c \in Clients : Accept(c)
           \/ \E c \in Clients, to \in Working \cup {"closed"} :
                 /\ handler[c] \in Working
                 /\ handler' = [handler EXCEPT ![c] = to]
                 /\ UNCHANGED sockFd
                 /\ \/ to # "closed" /\ UNCHANGED fdOwner
                    \/ to = "closed" /\ fdOwner' = [fdOwner EXCEPT ![sockFd[c]] = Free]
           \/ Crash
           \/ UNCHANGED <<handler, socketVars>>
  <1> USE DEF serverVars
  <1>1. ASSUME NEW c \in Clients, Start(c)
        PROVE  \/ /\ handler[c] = "none" /\ client'[c] = "on"
                  /\ handler' = [handler EXCEPT ![c] = "waiting"]
                  /\ UNCHANGED socketVars
               \/ UNCHANGED <<handler, socketVars>>
    <2>1. client[c] = "off" /\ client \in [Clients -> {"off", "on", "gone"}]
        BY <1>1 DEF Start, TypeOK, ClientTypes
    <2>2. QED
        BY <1>1, <2>1 DEF Start, ISockets
  <1>2. ASSUME NEW c \in Clients, ClientStep(c), ~ Start(c) PROVE UNCHANGED <<handler, socketVars>>
      BY <1>2 DEF ClientStep, Type, Receive, ReceiveEOF, Quit
  <1>3. ASSUME NEW c \in Clients, BuffersRequestOf(c) PROVE UNCHANGED <<handler, socketVars>>
      BY <1>3 DEF BuffersRequestOf
  <1>4. ASSUME NEW c \in Clients,
               \/ RequestStep(c)
               \/ TakeBuffered(c) \/ BeginRead(c) \/ ReadRequest(c) \/ ReadFails(c) \/ ReadEOF(c)
        PROVE  \E to \in Working \cup {"closed"} :
                 /\ handler[c] \in Working
                 /\ handler' = [handler EXCEPT ![c] = to]
                 /\ UNCHANGED sockFd
                 /\ \/ to # "closed" /\ UNCHANGED fdOwner
                    \/ to = "closed" /\ fdOwner' = [fdOwner EXCEPT ![sockFd[c]] = Free]
      BY <1>4, HandlerMoves DEF Moves
  <1>5. CASE NotifierStep \/ Restart \/ (\E s \in Sids : Expire(s)) \/ UNCHANGED vars
      BY <1>5, NotifierFrame DEF requestVars, Restart, Expire, vars
  <1>6. QED
      BY <1>1, <1>2, <1>3, <1>4, <1>5, NextCases DEF Connects, ReplyReads, NotifierReads

\* A client is off before it is started, and never again; it runs from then on,
\* with a connection.
LEMMA ClientLives ==
    ASSUME TypeOK, [Next]_vars, NEW c \in Clients
    PROVE  /\ client'[c] = "off" => client[c] = "off"
           /\ client'[c] = "on" => client[c] = "on" \/ handler'[c] = "waiting"
  <1>1. client \in [Clients -> {"off", "on", "gone"}] /\ handler \in [Clients -> Places]
      BY DEF TypeOK, ClientTypes, ProcessTypes
  <1>2. ASSUME NEW d \in Clients, ClientStep(d)
        PROVE  /\ client'[c] = "off" => client[c] = "off"
               /\ client'[c] = "on" => client[c] = "on" \/ handler'[c] = "waiting"
    <2>1. CASE Start(d)
        BY <1>1, <2>1 DEF Start
    <2>2. CASE Type(d) \/ Receive(d) \/ ReceiveEOF(d) \/ Quit(d)
        BY <1>1, <2>2 DEF Type, Receive, ReceiveEOF, Quit
    <2>3. QED
        BY <1>2, <2>1, <2>2 DEF ClientStep
  <1>3. ASSUME NEW d \in Clients, Connects(d) \/ RequestStep(d) PROVE UNCHANGED client
      BY <1>3, ConnectFrame, RequestFrame DEF clientVars
  <1>4. CASE NotifierStep \/ Crash \/ Restart \/ (\E s \in Sids : Expire(s)) \/ UNCHANGED vars
      BY <1>4, NotifierFrame DEF requestVars, Crash, Restart, Expire, vars, clientVars
  <1>5. QED
      BY <1>2, <1>3, <1>4, NextCases

\* Once accepted a connection keeps its socket, and once closed it stays so.
LEMMA AcceptedStep ==
    ASSUME TypeOK, ISockets, [Next]_vars, NEW c \in Clients
    PROVE  /\ Accepted(c) => Accepted(c)' /\ sockFd'[c] = sockFd[c]
           /\ handler[c] = "closed" => handler'[c] = "closed"
  <1> USE DEF socketVars, Accepted
  <1>1. handler \in [Clients -> Places] /\ sockFd \in [Clients -> Fds]
      BY DEF TypeOK, ProcessTypes
  <1>2. CASE Crash
      BY <1>1, <1>2 DEF Crash
  <1>3. ASSUME NEW d \in Clients, Accept(d)
        PROVE  /\ Accepted(c) => Accepted(c)' /\ sockFd'[c] = sockFd[c]
               /\ handler[c] = "closed" => handler'[c] = "closed"
    <2>1. handler[d] = "waiting" /\ handler' = [handler EXCEPT ![d] = "looking"]
        BY <1>3 DEF Accept
    <2>2. PICK f \in Fds : sockFd' = [sockFd EXCEPT ![d] = f]
        BY <1>3 DEF Accept
    <2>3. QED
        BY <1>1, <2>1, <2>2
  <1>4. ASSUME NEW d \in Clients, NEW to \in Working \cup {"closed"}, handler[d] \in Working,
               handler' = [handler EXCEPT ![d] = to], UNCHANGED sockFd
        PROVE  /\ Accepted(c) => Accepted(c)' /\ sockFd'[c] = sockFd[c]
               /\ handler[c] = "closed" => handler'[c] = "closed"
      BY <1>1, <1>4 DEF Working
  <1>5. ASSUME NEW d \in Clients, handler[d] = "none",
               handler' = [handler EXCEPT ![d] = "waiting"], UNCHANGED sockFd
        PROVE  /\ Accepted(c) => Accepted(c)' /\ sockFd'[c] = sockFd[c]
               /\ handler[c] = "closed" => handler'[c] = "closed"
      BY <1>1, <1>5
  <1>6. QED
      BY <1>2, <1>3, <1>4, <1>5, PlaceSteps

\* Every step keeps the descriptors apart.
LEMMA SocketsStep == TypeOK /\ ISockets /\ [Next]_vars => ISockets'
  <1> SUFFICES ASSUME TypeOK, ISockets, [Next]_vars PROVE ISockets'
      OBVIOUS
  <1> USE WallTalkAssumption DEF socketVars
  <1>1. /\ handler \in [Clients -> Places] /\ sockFd \in [Clients -> Fds]
        /\ fdOwner \in [Fds -> Clients \cup {Free}]
      BY DEF TypeOK, ProcessTypes
  <1>2. ASSUME NEW c \in Clients, handler[c] = "none", client'[c] = "on",
               handler' = [handler EXCEPT ![c] = "waiting"], UNCHANGED socketVars
        PROVE  ISockets'
    <2>1. handler'[c] = "waiting" /\ \A d \in Clients \ {c} : handler'[d] = handler[d]
        BY <1>1, <1>2
    <2>2. \A d \in Clients : /\ client'[d] = "off" => handler'[d] = "none"
                             /\ client'[d] = "on" => handler'[d] # "none"
        BY <1>2, <2>1, ClientLives DEF ISockets
    <2>3. \A d \in Clients : handler'[d] \in Working => fdOwner'[sockFd'[d]] = d
        BY <1>2, <2>1 DEF ISockets, Working
    <2>4. QED
        BY <2>2, <2>3 DEF ISockets
  <1>3. ASSUME \A d \in Clients : handler[d] = "none" <=> handler'[d] = "none"
        PROVE  \A d \in Clients : /\ client'[d] = "off" => handler'[d] = "none"
                                  /\ client'[d] = "on" => handler'[d] # "none"
      BY <1>3, ClientLives DEF ISockets
  <1>4. ASSUME NEW c \in Clients, Accept(c) PROVE ISockets'
    <2>1. handler[c] = "waiting" /\ handler' = [handler EXCEPT ![c] = "looking"]
        BY <1>4 DEF Accept
    <2>2. PICK f \in Fds : fdOwner[f] = Free /\ sockFd' = [sockFd EXCEPT ![c] = f]
                           /\ fdOwner' = [fdOwner EXCEPT ![f] = c]
        BY <1>4 DEF Accept
    <2>3. ASSUME NEW d \in Clients, handler'[d] \in Working PROVE fdOwner'[sockFd'[d]] = d
      <3>1. CASE d = c
          BY <1>1, <2>2, <3>1
      <3>2. CASE d # c
        <4>1. fdOwner[sockFd[d]] = d
            BY <1>1, <2>1, <2>3, <3>2 DEF ISockets
        <4>2. QED
            BY <1>1, <2>2, <3>2, <4>1
      <3>3. QED
          BY <3>1, <3>2
    <2>4. \A d \in Clients : handler[d] = "none" <=> handler'[d] = "none"
        BY <1>1, <2>1
    <2>5. QED
        BY <1>3, <2>3, <2>4 DEF ISockets
  <1>5. ASSUME NEW c \in Clients, NEW to \in Working \cup {"closed"}, handler[c] \in Working,
               handler' = [handler EXCEPT ![c] = to], UNCHANGED sockFd,
               \/ to # "closed" /\ UNCHANGED fdOwner
               \/ to = "closed" /\ fdOwner' = [fdOwner EXCEPT ![sockFd[c]] = Free]
        PROVE  ISockets'
    <2>1. ASSUME NEW d \in Clients, handler'[d] \in Working PROVE fdOwner'[sockFd'[d]] = d
      <3>1. handler[d] \in Working /\ fdOwner[sockFd[d]] = d /\ fdOwner[sockFd[c]] = c
          BY <1>1, <1>5, <2>1 DEF ISockets
      <3>2. d = c => to # "closed"
          BY <1>1, <1>5, <2>1 DEF Working
      <3>3. QED
          BY <1>1, <1>5, <3>1, <3>2
    <2>2. \A d \in Clients : handler[d] = "none" <=> handler'[d] = "none"
        BY <1>1, <1>5 DEF Working
    <2>3. QED
        BY <1>3, <2>1, <2>2 DEF ISockets
  <1>6. CASE Crash
    <2>1. \A d \in Clients : handler[d] = "none" <=> handler'[d] = "none"
        BY <1>1, <1>6 DEF Crash
    <2>2. \A d \in Clients : handler'[d] \notin Working
        BY <1>1, <1>6 DEF Crash, Working
    <2>3. QED
        BY <1>3, <2>1, <2>2 DEF ISockets
  <1>7. CASE UNCHANGED <<handler, socketVars>>
      BY <1>3, <1>7 DEF ISockets
  <1>8. QED
      BY <1>2, <1>4, <1>5, <1>6, <1>7, PlaceSteps

-----------------------------------------------------------------------------
(* What a handler has in hand, and where it comes from.                    *)

\* A handler keeps its request, the number it has drawn and the row it has
\* found.
Kept(c) == request'[c] = request[c] /\ drawn'[c] = drawn[c] /\ found'[c] = found[c]

\* It keeps its place too, if the step is of another connection, of a client or
\* of another thread, or a write_socket reads a request of its.
LEMMA OthersKeep ==
    ASSUME TypeOK, NEW c \in Clients,
           \/ \E d \in Clients :
                 ClientStep(d) \/ BuffersRequestOf(d) \/ (d # c /\ (Connects(d) \/ RequestStep(d)))
           \/ NotifierStep \/ Restart \/ (\E s \in Sids : Expire(s)) \/ UNCHANGED vars
    PROVE  Kept(c) /\ (handler'[c] = handler[c] \/ handler'[c] = "waiting")
  <1> USE DEF workVars, serverVars, outsideVars
  <1>1. WorkTypes /\ handler \in [Clients -> Places]
      BY DEF TypeOK, ProcessTypes
  <1>2. CASE NotifierStep \/ Restart \/ (\E s \in Sids : Expire(s)) \/ UNCHANGED vars
      BY <1>2, NotifierFrame DEF requestVars, Restart, Expire, vars, Kept
  <1>3. ASSUME NEW d \in Clients, ClientStep(d)
        PROVE  Kept(c) /\ (handler'[c] = handler[c] \/ handler'[c] = "waiting")
    <2>1. handler' = handler \/ handler' = [handler EXCEPT ![d] = "waiting"]
        BY <1>3 DEF ClientStep, Start, Type, Receive, ReceiveEOF, Quit
    <2>2. QED
        BY <1>1, <1>3, <2>1, ClientFrame DEF Kept
  <1>4. ASSUME NEW d \in Clients, BuffersRequestOf(d) PROVE Kept(c) /\ handler'[c] = handler[c]
      BY <1>4 DEF BuffersRequestOf, Kept
  <1>5. ASSUME NEW d \in Clients, d # c,
               handler' = handler \/ \E to : handler' = [handler EXCEPT ![d] = to],
               request' = request \/ \E q : request' = [request EXCEPT ![d] = q],
               drawn' = drawn \/ \E s : drawn' = [drawn EXCEPT ![d] = s],
               found' = found \/ \E r : found' = [found EXCEPT ![d] = r]
        PROVE  Kept(c) /\ handler'[c] = handler[c]
      BY <1>1, <1>5 DEF WorkTypes, Kept
  <1>6. ASSUME NEW d \in Clients, d # c, Connects(d) PROVE Kept(c) /\ handler'[c] = handler[c]
    <2>1. UNCHANGED drawn
        BY <1>6, ConnectFrame
    <2>2. CASE Accept(d)
      <3>1. handler' = [handler EXCEPT ![d] = "looking"] /\ UNCHANGED <<request, found>>
          BY <2>2 DEF Accept
      <3>2. QED
          BY <1>5, <1>6, <2>1, <3>1
    <2>3. CASE BuffersRequestOf(d)
        BY <1>4, <2>3
    <2>4. CASE TakeBuffered(d) \/ BeginRead(d) \/ ReadRequest(d) \/ ReadFails(d) \/ ReadEOF(d)
      <3>1. \E to : handler' = [handler EXCEPT ![d] = to]
          BY <2>4, HandlerMoves DEF Moves
      <3>2. request' = request \/ \E q : request' = [request EXCEPT ![d] = q]
          BY <2>4 DEF TakeBuffered, BeginRead, ReadRequest, ReadFails, ReadEOF
      <3>3. found' = found \/ \E r : found' = [found EXCEPT ![d] = r]
          BY <2>4 DEF TakeBuffered, BeginRead, ReadRequest, ReadFails, ReadEOF
      <3>4. QED
          BY <1>5, <1>6, <2>1, <3>1, <3>2, <3>3
    <2>5. QED
        BY <1>6, <2>2, <2>3, <2>4 DEF Connects, ReplyReads, NotifierReads
  <1>7. ASSUME NEW d \in Clients, d # c, RequestStep(d) PROVE Kept(c) /\ handler'[c] = handler[c]
    <2>1. UNCHANGED request /\ \E to : handler' = [handler EXCEPT ![d] = to]
        BY <1>7, RequestFrame, HandlerMoves DEF Moves
    <2>2. drawn' = drawn \/ \E s : drawn' = [drawn EXCEPT ![d] = s]
      <3>1. CASE LoginStep(d)
          BY <3>1 DEF LoginStep, LogInFails, DrawSid, InsertLogin, SendAnswer, LoginAcked
      <3>2. CASE PostStep(d)
          BY <3>2 DEF PostStep, InsertPost, ReadKey, InsertNotices, NoticesRefused
      <3>3. CASE Serve(d)
          BY <3>3 DEF Serve, Refuse, Drop, AnswerNoUser, FindRow, PostNotLogged, InsertLog,
                      InsertLogout, ReplyEnds, Raise
      <3>4. QED
          BY <1>7, <3>1, <3>2, <3>3 DEF RequestStep
    <2>3. found' = found \/ \E r : found' = [found EXCEPT ![d] = r]
      <3>1. CASE LoginStep(d)
          BY <3>1 DEF LoginStep, LogInFails, DrawSid, InsertLogin, SendAnswer, LoginAcked
      <3>2. CASE PostStep(d)
          BY <3>2 DEF PostStep, InsertPost, ReadKey, InsertNotices, NoticesRefused
      <3>3. CASE Serve(d)
          BY <3>3 DEF Serve, Refuse, Drop, AnswerNoUser, FindRow, PostNotLogged, InsertLog,
                      InsertLogout, ReplyEnds, Raise
      <3>4. QED
          BY <1>7, <3>1, <3>2, <3>3 DEF RequestStep
    <2>4. QED
        BY <1>5, <1>7, <2>1, <2>2, <2>3
  <1>8. QED
      BY <1>2, <1>3, <1>4, <1>6, <1>7

\* How a handler comes to serve a request, to insert a login, to answer it, and
\* to insert a row it has found.
LEMMA ComesTo ==
    ASSUME TypeOK, [Next]_vars, NEW c \in Clients
    PROVE  /\ handler'[c] = "serving" =>
                 TakeBuffered(c) \/ ReadRequest(c) \/ (handler[c] = "serving" /\ Kept(c))
           /\ handler'[c] = "inserting" => DrawSid(c) \/ (handler[c] = "inserting" /\ Kept(c))
           /\ handler'[c] = "answering" =>
                 InsertLogin(c) \/ LogInFails(c) \/ (handler[c] = "answering" /\ Kept(c))
           /\ handler'[c] = "logging" =>
                 FindRow(c) \/ ReadEOF(c) \/ (handler[c] = "logging" /\ Kept(c))
  <1> DEFINE Right ==
        /\ handler'[c] = "serving" =>
              TakeBuffered(c) \/ ReadRequest(c) \/ (handler[c] = "serving" /\ Kept(c))
        /\ handler'[c] = "inserting" => DrawSid(c) \/ (handler[c] = "inserting" /\ Kept(c))
        /\ handler'[c] = "answering" =>
              InsertLogin(c) \/ LogInFails(c) \/ (handler[c] = "answering" /\ Kept(c))
        /\ handler'[c] = "logging" =>
              FindRow(c) \/ ReadEOF(c) \/ (handler[c] = "logging" /\ Kept(c))
  <1>1. handler \in [Clients -> Places]
      BY DEF TypeOK, ProcessTypes
  <1>2. CASE Kept(c) /\ (handler'[c] = handler[c] \/ handler'[c] = "waiting")
      BY <1>2
  <1>3. CASE Crash
    <2>1. handler'[c] \in {"none", "closed"}
        BY <1>1, <1>3 DEF Crash
    <2>2. QED
        BY <2>1
  <1>4. ASSUME NEW to, handler' = [handler EXCEPT ![c] = to],
               to \notin {"serving", "inserting", "answering", "logging"}
        PROVE  Right
    <2>1. handler'[c] = to
        BY <1>1, <1>4
    <2>2. QED
        BY <1>4, <2>1
  <1>5. CASE Connects(c)
    <2>1. CASE Accept(c) \/ BeginRead(c) \/ ReadFails(c)
        BY <1>4, <2>1 DEF Accept, BeginRead, ReadFails, Closes, Moves
    <2>2. CASE TakeBuffered(c) \/ ReadRequest(c)
      <3>1. handler'[c] = "serving"
          BY <1>1, <2>2 DEF TakeBuffered, ReadRequest, Moves
      <3>2. QED
          BY <2>2, <3>1
    <2>3. CASE ReadEOF(c)
      <3>1. handler'[c] \in {"logging", "left"}
          BY <1>1, <2>3 DEF ReadEOF, Moves
      <3>2. QED
          BY <2>3, <3>1
    <2>4. CASE BuffersRequestOf(c)
        BY <1>2, <2>4, OthersKeep
    <2>5. QED
        BY <1>5, <2>1, <2>2, <2>3, <2>4 DEF Connects, ReplyReads, NotifierReads
  <1>6. CASE LoginStep(c)
    <2>1. CASE LogInFails(c) \/ InsertLogin(c)
      <3>1. handler'[c] = "answering"
          BY <1>1, <2>1 DEF LogInFails, InsertLogin, Moves
      <3>2. QED
          BY <2>1, <3>1
    <2>2. CASE DrawSid(c)
      <3>1. handler'[c] = "inserting"
          BY <1>1, <2>2 DEF DrawSid, Moves
      <3>2. QED
          BY <2>2, <3>1
    <2>3. CASE SendAnswer(c) \/ LoginAcked(c)
        BY <1>4, <2>3 DEF SendAnswer, LoginAcked, Moves
    <2>4. QED
        BY <1>6, <2>1, <2>2, <2>3 DEF LoginStep
  <1>7. CASE PostStep(c)
      BY <1>4, <1>7 DEF PostStep, InsertPost, ReadKey, InsertNotices, NoticesRefused, Moves
  <1>8. CASE Serve(c)
    <2>1. CASE Refuse(c) \/ AnswerNoUser(c) \/ PostNotLogged(c) \/ ReplyEnds(c) \/ Raise(c)
        BY <1>4, <2>1 DEF Refuse, AnswerNoUser, PostNotLogged, ReplyEnds, Raise, Moves
    <2>2. CASE Drop(c) \/ InsertLogout(c)
        BY <1>4, <2>2 DEF Drop, InsertLogout, Closes, Moves
    <2>3. CASE InsertLog(c)
      <3>1. handler'[c] \in {"raising", "replying"}
          BY <1>1, <2>3 DEF InsertLog, Moves
      <3>2. QED
          BY <3>1
    <2>4. CASE FindRow(c)
      <3>1. handler'[c] = "logging"
          BY <1>1, <2>4 DEF FindRow, Moves
      <3>2. QED
          BY <2>4, <3>1
    <2>5. QED
        BY <1>8, <2>1, <2>2, <2>3, <2>4 DEF Serve
  <1>9. ASSUME NEW d \in Clients, ClientStep(d) \/ Connects(d) \/ RequestStep(d) PROVE Right
    <2>1. CASE ClientStep(d) \/ d # c
        BY <1>2, <1>9, <2>1, OthersKeep
    <2>2. CASE d = c /\ (Connects(c) \/ RequestStep(c))
        BY <1>5, <1>6, <1>7, <1>8, <2>2 DEF RequestStep
    <2>3. QED
        BY <1>9, <2>1, <2>2
  <1>10. CASE NotifierStep \/ Restart \/ (\E s \in Sids : Expire(s)) \/ UNCHANGED vars
      BY <1>2, <1>10, OthersKeep
  <1>11. QED
      BY <1>3, <1>9, <1>10, NextCases

\* A request on a connection is of its client; a LOGIN in the buffer is of a
\* client some write_socket read it from, and so is one that a handler serves,
\* or its own client's.
IRequests ==
    /\ \A c \in Clients : \A i \in 1 .. Len(up[c]) : up[c][i].from = c
    /\ \A i \in 1 .. Len(bufferPkts) :
          bufferPkts[i].cmd = "LOGIN" => bufferPkts[i].from \in astray
    /\ \A c \in Clients :
          handler[c] = "inserting" \/ (handler[c] = "serving" /\ request[c].cmd = "LOGIN")
          => request[c].from \in {c} \cup astray

\* What a step does to the requests not yet served.
LEMMA QueueSteps ==
    ASSUME TypeOK, [Next]_vars
    PROVE  \/ UNCHANGED up /\ UNCHANGED bufferVars
           \/ \E c \in Clients : Start(c) /\ UNCHANGED bufferVars
           \/ \E c \in Clients : Type(c) /\ UNCHANGED bufferVars
           \/ \E c \in Clients : TakeBuffered(c)
           \/ \E c \in Clients : ReadRequest(c)
           \/ \E c \in Clients : BuffersRequestOf(c)
           \/ Crash
  <1> USE DEF serverVars, netVars, bufferVars
  <1>1. ASSUME NEW c \in Clients, ClientStep(c)
        PROVE  UNCHANGED bufferVars /\ (Start(c) \/ Type(c) \/ UNCHANGED up)
      BY <1>1, ClientFrame DEF ClientStep, Receive, ReceiveEOF, Quit
  <1>2. ASSUME NEW c \in Clients, RequestStep(c) PROVE UNCHANGED up /\ UNCHANGED bufferVars
      BY <1>2, RequestFrame
  <1>3. ASSUME NEW c \in Clients, Accept(c) \/ BeginRead(c) \/ ReadFails(c) \/ ReadEOF(c)
        PROVE  UNCHANGED up /\ UNCHANGED bufferVars
      BY <1>3 DEF Accept, BeginRead, ReadFails, ReadEOF
  <1>4. CASE NotifierStep \/ Restart \/ (\E s \in Sids : Expire(s)) \/ UNCHANGED vars
      BY <1>4, NotifierFrame DEF requestVars, Restart, Expire, vars
  <1>5. QED
      BY <1>1, <1>2, <1>3, <1>4, NextCases DEF Connects, ReplyReads, NotifierReads

\* A LOGIN that has gone astray is not forgotten.
LEMMA AstrayGrows == TypeOK /\ [Next]_vars => astray \subseteq astray'
  BY QueueSteps DEF bufferVars, TakeBuffered, ReadRequest, BuffersRequestOf, Crash

\* The requests not yet served stay where they belong.
LEMMA QueuesStep ==
    ASSUME TypeOK, IRequests, [Next]_vars
    PROVE  /\ \A c \in Clients : \A i \in 1 .. Len(up'[c]) : up'[c][i].from = c
           /\ \A i \in 1 .. Len(bufferPkts') :
                 bufferPkts'[i].cmd = "LOGIN" => bufferPkts'[i].from \in astray'
  <1> DEFINE UpRight == \A c \in Clients : \A i \in 1 .. Len(up'[c]) : up'[c][i].from = c
             BufferRight == \A i \in 1 .. Len(bufferPkts') :
                               bufferPkts'[i].cmd = "LOGIN" => bufferPkts'[i].from \in astray'
  <1>1. up \in [Clients -> Seq(Request)] /\ bufferPkts \in Seq(Request) /\ astray \subseteq astray'
      BY AstrayGrows DEF TypeOK, NetTypes
  <1>2. ASSUME UNCHANGED up PROVE UpRight
      BY <1>2 DEF IRequests
  <1>3. ASSUME UNCHANGED bufferVars PROVE BufferRight
      BY <1>3 DEF IRequests, bufferVars
  <1>4. ASSUME NEW c \in Clients, up[c] # <<>>, up' = [up EXCEPT ![c] = Tail(@)]
        PROVE  UpRight /\ Head(up[c]) \in Request /\ Head(up[c]).from = c
    <2>1. up[c] \in Seq(Request)
        BY <1>1
    <2>2. /\ Head(up[c]) \in Request
          /\ Len(up[c]) \in Nat \ {0} /\ Head(up[c]) = up[c][1] /\ Len(Tail(up[c])) = Len(up[c]) - 1
          /\ \A i \in 1 .. Len(up[c]) - 1 : Tail(up[c])[i] = up[c][i + 1]
        BY <1>4, <2>1, HeadTyped
    <2>3. \A i \in 1 .. Len(up[c]) : up[c][i].from = c
        BY DEF IRequests
    <2>4. Head(up[c]).from = c
        BY <2>2, <2>3
    <2>5. ASSUME NEW i \in 1 .. Len(up'[c]) PROVE up'[c][i].from = c
      <3>1. up'[c] = Tail(up[c])
          BY <1>1, <1>4
      <3>2. i \in 1 .. Len(up[c]) - 1 /\ i + 1 \in 1 .. Len(up[c])
          BY <2>2, <3>1
      <3>3. QED
          BY <2>2, <2>3, <3>1, <3>2
    <2>6. \A d \in Clients \ {c} : up'[d] = up[d]
        BY <1>1, <1>4
    <2>7. QED
        BY <2>2, <2>4, <2>5, <2>6 DEF IRequests
  <1>5. ASSUME NEW c \in Clients, Start(c) PROVE UpRight
    <2>1. CASE UNCHANGED up
        BY <1>2, <2>1
    <2>2. CASE up' = [up EXCEPT ![c] = <<[from |-> c, cmd |-> "LOGIN", sid |-> NoSid]>>]
      <3>1. PICK q : q = [from |-> c, cmd |-> "LOGIN", sid |-> NoSid]
          OBVIOUS
      <3>2. q.from = c
          BY <3>1
      <3>3. up'[c] = <<q>> /\ \A d \in Clients \ {c} : up'[d] = up[d]
          BY <1>1, <2>2, <3>1
      <3>4. \A i \in 1 .. Len(up'[c]) : up'[c][i].from = c
          BY <3>2, <3>3
      <3>5. QED
          BY <3>3, <3>4 DEF IRequests
    <2>3. QED
        BY <1>5, <2>1, <2>2 DEF Start
  <1>6. ASSUME NEW c \in Clients, Type(c) PROVE UpRight
    <2>1. PICK cmd : up' = [up EXCEPT ![c] = Append(@, [from |-> c, cmd |-> cmd, sid |-> sessionID[c]])]
        BY <1>6 DEF Type
    <2>2. PICK q : q = [from |-> c, cmd |-> cmd, sid |-> sessionID[c]]
        OBVIOUS
    <2>3. q.from = c
        BY <2>2
    <2>4. up'[c] = Append(up[c], q) /\ \A d \in Clients \ {c} : up'[d] = up[d]
        BY <1>1, <2>1, <2>2
    <2>5. up[c] \in Seq(Request)
        BY <1>1
    <2>6. \A i \in 1 .. Len(up'[c]) : up'[c][i] = q \/ (i \in 1 .. Len(up[c]) /\ up'[c][i] = up[c][i])
        BY <2>4, <2>5
    <2>7. \A i \in 1 .. Len(up'[c]) : up'[c][i].from = c
        BY <2>3, <2>6 DEF IRequests
    <2>8. QED
        BY <2>4, <2>7 DEF IRequests
  <1>7. ASSUME NEW c \in Clients, TakeBuffered(c) PROVE UpRight /\ BufferRight
    <2>1. bufferPkts # <<>> /\ bufferPkts' = Tail(bufferPkts) /\ UNCHANGED up /\ UNCHANGED astray
        BY <1>7 DEF TakeBuffered, netVars
    <2>2. /\ Len(bufferPkts) \in Nat \ {0} /\ Len(Tail(bufferPkts)) = Len(bufferPkts) - 1
          /\ \A i \in 1 .. Len(bufferPkts) - 1 : Tail(bufferPkts)[i] = bufferPkts[i + 1]
        BY <1>1, <2>1, HeadTyped
    <2>3. ASSUME NEW i \in 1 .. Len(bufferPkts'), bufferPkts'[i].cmd = "LOGIN"
          PROVE  bufferPkts'[i].from \in astray'
      <3>1. i \in 1 .. Len(bufferPkts) - 1 /\ i + 1 \in 1 .. Len(bufferPkts)
          BY <2>1, <2>2
      <3>2. bufferPkts'[i] = bufferPkts[i + 1]
          BY <2>1, <2>2, <3>1
      <3>3. QED
          BY <2>1, <2>3, <3>1, <3>2 DEF IRequests
    <2>4. QED
        BY <1>2, <2>1, <2>3
  <1>8. ASSUME NEW c \in Clients, ReadRequest(c) PROVE UpRight /\ BufferRight
      BY <1>3, <1>4, <1>8 DEF ReadRequest
  <1>9. ASSUME NEW c \in Clients, BuffersRequestOf(c) PROVE UpRight /\ BufferRight
    <2>1. UpRight /\ Head(up[c]) \in Request /\ Head(up[c]).from = c
        BY <1>4, <1>9 DEF BuffersRequestOf
    <2>2. PICK q \in Request : q = Head(up[c])
        BY <2>1
    <2>3. bufferPkts' = Append(bufferPkts, q) /\ (q.cmd = "LOGIN" => c \in astray')
        BY <1>9, <2>2 DEF BuffersRequestOf
    <2>4. \A i \in 1 .. Len(bufferPkts') :
             \/ bufferPkts'[i] = q
             \/ i \in 1 .. Len(bufferPkts) /\ bufferPkts'[i] = bufferPkts[i]
        BY <1>1, <2>3
    <2>5. q.cmd = "LOGIN" => q.from \in astray'
        BY <2>1, <2>2, <2>3
    <2>6. BufferRight
        BY <1>1, <2>4, <2>5 DEF IRequests
    <2>7. QED
        BY <2>1, <2>6
  <1>10. CASE Crash
    <2>1. \A c \in Clients : up'[c] = <<>>
        BY <1>10 DEF Crash
    <2>2. bufferPkts' = <<>>
        BY <1>10 DEF Crash
    <2>3. QED
        BY <2>1, <2>2
  <1>11. QED
      BY <1>2, <1>3, <1>5, <1>6, <1>7, <1>8, <1>9, <1>10, QueueSteps

\* So do those being served.
LEMMA RequestsStep == TypeOK /\ IRequests /\ [Next]_vars => IRequests'
  <1> SUFFICES ASSUME TypeOK, IRequests, [Next]_vars PROVE IRequests'
      OBVIOUS
  <1>1. astray \subseteq astray' /\ WorkTypes /\ NetTypes
      BY AstrayGrows DEF TypeOK
  <1>2. ASSUME NEW c \in Clients,
               handler'[c] = "inserting" \/ (handler'[c] = "serving" /\ request'[c].cmd = "LOGIN")
        PROVE  request'[c].from \in {c} \cup astray'
    <2>1. CASE Kept(c) /\ (handler[c] = "inserting" \/ handler[c] = "serving")
               /\ (handler[c] = "serving" => handler'[c] = "serving")
        BY <1>1, <1>2, <2>1 DEF IRequests, Kept
    <2>2. CASE TakeBuffered(c)
      <3>1. bufferPkts # <<>> /\ request'[c] = Head(bufferPkts) /\ handler'[c] = "serving"
          BY <1>1, <2>2 DEF TakeBuffered, WorkTypes, Moves, TypeOK, ProcessTypes
      <3>2. Head(bufferPkts) = bufferPkts[1] /\ Len(bufferPkts) \in Nat \ {0}
          BY <1>1, <3>1, HeadTyped DEF NetTypes
      <3>3. 1 \in 1 .. Len(bufferPkts) /\ bufferPkts[1].cmd = "LOGIN"
          BY <1>2, <3>1, <3>2
      <3>4. QED
          BY <1>1, <3>1, <3>2, <3>3 DEF IRequests
    <2>3. CASE ReadRequest(c)
      <3>1. up[c] # <<>> /\ request'[c] = Head(up[c]) /\ up[c] \in Seq(Request)
          BY <1>1, <2>3 DEF ReadRequest, WorkTypes, NetTypes
      <3>2. Head(up[c]) = up[c][1] /\ 1 \in 1 .. Len(up[c])
          BY <3>1, HeadTyped
      <3>3. QED
          BY <3>1, <3>2 DEF IRequests
    <2>4. CASE DrawSid(c)
        BY <1>1, <2>4, RequestFrame DEF DrawSid, Serves, IRequests, RequestStep, LoginStep
    <2>5. QED
        BY <1>2, <2>1, <2>2, <2>3, <2>4, ComesTo
  <1>3. QED
      BY <1>2, QueuesStep DEF IRequests

-----------------------------------------------------------------------------
(* Sessions: the log and what clients are told.                            *)

\* A row is of a connection that was accepted, with its socket, and of its own
\* client unless that one's LOGIN went astray.
RowOk(r) ==
    /\ Accepted(r.conn) /\ r.sock = sockFd[r.conn]
    /\ r.from = r.conn \/ r.from \in astray

IRows ==
    /\ \A s \in Sids : \A r \in log[s] : r.sid = s /\ RowOk(r)
    /\ \A u \in Users : \A r \in lastRow[u] : User(r) = u /\ RowOk(r)
    /\ \A c \in Clients : handler[c] = "logging" => RowOk(found[c])

\* A row that is right stays so.
LEMMA RowStays ==
    ASSUME TypeOK, ISockets, [Next]_vars, NEW r, r.conn \in Clients, RowOk(r)
    PROVE  RowOk(r)'
  <1>1. PICK c \in Clients : c = r.conn
      OBVIOUS
  <1>2. Accepted(c)' /\ sockFd'[c] = sockFd[c]
      BY <1>1, AcceptedStep DEF RowOk
  <1>3. astray \subseteq astray'
      BY AstrayGrows
  <1>4. Accepted(r.conn)' /\ sockFd'[r.conn] = sockFd[r.conn]
      BY <1>1, <1>2 DEF Accepted
  <1>5. QED
      BY <1>3, <1>4 DEF RowOk

\* One of the same origin is right too.
LEMMA SameOriginOk ==
    ASSUME NEW q, NEW r, SameOrigin(q, r), RowOk(r)
    PROVE  RowOk(q)
  BY DEF SameOrigin, RowOk, Accepted

\* Where the rows of the log after a step come from.
LEMMA RowsFrom ==
    ASSUME TypeOK, IRequests, IRows, [Next]_vars
    PROVE  /\ \A s \in Sids : \A q \in log'[s] :
                 q.sid = s /\ \E r \in Row : RowOk(r) /\ SameOrigin(q, r)
           /\ \A u \in Users : \A q \in lastRow'[u] :
                 User(q) = u /\ \E r \in Row : RowOk(r) /\ SameOrigin(q, r)
  <1> DEFINE Right ==
        /\ \A s \in Sids : \A q \in log'[s] :
              q.sid = s /\ \E r \in Row : RowOk(r) /\ SameOrigin(q, r)
        /\ \A u \in Users : \A q \in lastRow'[u] :
              User(q) = u /\ \E r \in Row : RowOk(r) /\ SameOrigin(q, r)
  <1>1. LogTypes /\ WorkTypes /\ log \in [Sids -> SUBSET Row] /\ lastRow \in [Users -> SUBSET Row]
      BY DEF TypeOK, LogTypes
  <1>2. \A r : SameOrigin(r, r)
      BY DEF SameOrigin
  <1>3. CASE UNCHANGED <<log, lastRow>>
    <2>1. \A s \in Sids : \A q \in log[s] : q.sid = s /\ q \in Row /\ RowOk(q)
        BY <1>1 DEF IRows
    <2>2. \A u \in Users : \A q \in lastRow[u] : User(q) = u /\ q \in Row /\ RowOk(q)
        BY <1>1 DEF IRows
    <2>3. QED
        BY <1>2, <1>3, <2>1, <2>2
  <1>4. ASSUME NEW new \in Row, Adds(new), NEW r \in Row, RowOk(r), SameOrigin(new, r)
        PROVE  Right
    <2>1. \A s \in Sids : log'[s] = IF s = new.sid THEN {new} ELSE log[s]
        BY <1>1, <1>4 DEF Adds
    <2>2. \A u \in Users : lastRow'[u] = IF u = User(new) THEN {new} ELSE lastRow[u]
        BY <1>1, <1>4 DEF Adds
    <2>3. ASSUME NEW s \in Sids, NEW q \in log'[s]
          PROVE  q.sid = s /\ \E p \in Row : RowOk(p) /\ SameOrigin(q, p)
      <3>1. CASE q = new /\ s = new.sid
          BY <1>4, <3>1
      <3>2. CASE q \in log[s]
          BY <1>1, <1>2, <3>2 DEF IRows
      <3>3. QED
          BY <2>1, <2>3, <3>1, <3>2
    <2>4. ASSUME NEW u \in Users, NEW q \in lastRow'[u]
          PROVE  User(q) = u /\ \E p \in Row : RowOk(p) /\ SameOrigin(q, p)
      <3>1. CASE q = new /\ u = User(new)
          BY <1>4, <3>1
      <3>2. CASE q \in lastRow[u]
          BY <1>1, <1>2, <3>2 DEF IRows
      <3>3. QED
          BY <2>2, <2>4, <3>1, <3>2
    <2>5. QED
        BY <2>3, <2>4
  <1>5. ASSUME NEW c \in Clients, InsertLogin(c) PROVE Right
    <2>1. PICK new \in Row : /\ Adds(new)
                             /\ new.from = request[c].from /\ new.conn = c /\ new.sock = sockFd[c]
        BY <1>5, LoginAdds
    <2>2. handler[c] = "inserting"
        BY <1>5 DEF InsertLogin, Moves
    <2>3. request[c].from \in {c} \cup astray
        BY <2>2 DEF IRequests
    <2>4. RowOk(new)
        BY <2>1, <2>2, <2>3 DEF RowOk, Accepted
    <2>5. QED
        BY <1>2, <1>4, <2>1, <2>4
  <1>6. ASSUME NEW c \in Clients, NEW new \in Row, handler[c] = "logging", Adds(new),
               SameOrigin(new, found[c])
        PROVE  Right
    <2>1. found[c] \in Row /\ RowOk(found[c])
        BY <1>1, <1>6 DEF WorkTypes, IRows
    <2>2. QED
        BY <1>4, <1>6, <2>1
  <1>7. ASSUME NEW t \in Sids, Expire(t) PROVE Right
    <2>1. /\ \A s \in Sids : log'[s] = log[s] \/ log'[s] = Old(log[s])
          /\ \A u \in Users : lastRow'[u] = lastRow[u] \/ lastRow'[u] = Old(lastRow[u])
        BY <1>1, <1>7, ExpiredRows
    <2>2. ASSUME NEW R \in SUBSET Row, NEW q, q \in R \/ q \in Old(R)
          PROVE  \E r \in R : SameOrigin(q, r)
        BY <1>2, <2>2, OldRows
    <2>3. ASSUME NEW s \in Sids, NEW q \in log'[s]
          PROVE  q.sid = s /\ \E p \in Row : RowOk(p) /\ SameOrigin(q, p)
      <3>1. log[s] \in SUBSET Row /\ (q \in log[s] \/ q \in Old(log[s]))
          BY <1>1, <2>1
      <3>2. PICK r \in log[s] : SameOrigin(q, r)
          BY <2>2, <3>1
      <3>3. r \in Row /\ r.sid = s /\ RowOk(r)
          BY <3>1 DEF IRows
      <3>4. QED
          BY <3>2, <3>3 DEF SameOrigin
    <2>4. ASSUME NEW u \in Users, NEW q \in lastRow'[u]
          PROVE  User(q) = u /\ \E p \in Row : RowOk(p) /\ SameOrigin(q, p)
      <3>1. lastRow[u] \in SUBSET Row /\ (q \in lastRow[u] \/ q \in Old(lastRow[u]))
          BY <1>1, <2>1
      <3>2. PICK r \in lastRow[u] : SameOrigin(q, r)
          BY <2>2, <3>1
      <3>3. r \in Row /\ User(r) = u /\ RowOk(r)
          BY <3>1 DEF IRows
      <3>4. User(q) = User(r)
          BY <3>2 DEF SameOrigin, User
      <3>5. QED
          BY <3>2, <3>3, <3>4
    <2>5. QED
        BY <2>3, <2>4
  <1>8. QED
      BY <1>3, <1>5, <1>6, <1>7, LogSteps

\* Every row after a step is right.
LEMMA RowsStep == TypeOK /\ ISockets /\ IRequests /\ IRows /\ [Next]_vars => IRows'
  <1> SUFFICES ASSUME TypeOK, ISockets, IRequests, IRows, [Next]_vars PROVE IRows'
      OBVIOUS
  <1>1. WorkTypes /\ log \in [Sids -> SUBSET Row] /\ TypeOK'
      BY TypeStep DEF TypeOK, LogTypes
  <1>2. \A r \in Row : r.conn \in Clients
      BY DEF Row
  <1>3. ASSUME NEW q, \E r \in Row : RowOk(r) /\ SameOrigin(q, r) PROVE RowOk(q)'
    <2>1. PICK r \in Row : RowOk(r) /\ SameOrigin(q, r)
        BY <1>3
    <2>2. RowOk(q) /\ q.conn \in Clients
        BY <1>2, <2>1, SameOriginOk DEF SameOrigin
    <2>3. QED
        BY <2>2, RowStays
  <1>4. /\ \A s \in Sids : \A q \in log'[s] : q.sid = s /\ RowOk(q)'
        /\ \A u \in Users : \A q \in lastRow'[u] : User(q) = u /\ RowOk(q)'
      BY <1>3, RowsFrom
  <1>5. ASSUME NEW c \in Clients, handler'[c] = "logging" PROVE RowOk(found[c])'
    <2>1. CASE handler[c] = "logging" /\ Kept(c)
      <3>1. found'[c] = found[c] /\ found[c] \in Row /\ RowOk(found[c])
          BY <1>1, <2>1 DEF IRows, WorkTypes, Kept
      <3>2. PICK r \in Row : r = found[c]
          BY <3>1
      <3>3. RowOk(r)'
          BY <1>2, <3>1, <3>2, RowStays
      <3>4. QED
          BY <3>1, <3>2, <3>3
    <2>2. ASSUME NEW s \in Sids, NEW r \in log[s], found'[c] = r PROVE RowOk(found[c])'
      <3>1. r \in Row /\ RowOk(r)
          BY <1>1 DEF IRows
      <3>2. RowOk(r)'
          BY <1>2, <3>1, RowStays
      <3>3. QED
          BY <2>2, <3>2
    <2>3. CASE FindRow(c)
      <3>1. PICK s \in Sids : s = request[c].sid
          BY <2>3 DEF FindRow, Valid
      <3>2. PICK r \in log[s] : found' = [found EXCEPT ![c] = r]
          BY <2>3, <3>1 DEF FindRow
      <3>3. found'[c] = r
          BY <1>1, <3>2 DEF WorkTypes
      <3>4. QED
          BY <2>2, <3>3
    <2>4. CASE ReadEOF(c)
      <3>1. handler'[c] # "left"
          BY <1>5
      <3>2. Valid(lastLogin) /\ \E r \in log[lastLogin] : found' = [found EXCEPT ![c] = r]
          BY <2>4, <3>1 DEF ReadEOF, Moves, TypeOK, ProcessTypes
      <3>3. PICK s \in Sids : s = lastLogin
          BY <3>2 DEF Valid
      <3>4. PICK r \in log[s] : found' = [found EXCEPT ![c] = r]
          BY <3>2, <3>3
      <3>5. found'[c] = r
          BY <1>1, <3>4 DEF WorkTypes
      <3>6. QED
          BY <2>2, <3>5
    <2>5. QED
        BY <1>5, <2>1, <2>3, <2>4, ComesTo
  <1>6. QED
      BY <1>4, <1>5 DEF IRows

\* A session number has come to a client, or is on its way there.
Told(c, s) ==
    \/ sessionID[c] = s
    \/ \E i \in 1 .. Len(answer[c]) : answer[c][i] = s
    \/ handler[c] = "answering" /\ drawn[c] = s

\* A login is about to insert it.
Draws(c, s) == handler[c] = "inserting" /\ drawn[c] = s

\* A number that two logins have not drawn at once is in the log for the
\* connection of any client that was told it, and for the one a row about to be
\* inserted again is of; while a login is about to insert it, it is not.
ITold ==
    \A s \in Sids \ shared :
        /\ \A c \in Clients : Told(c, s) => \E r \in log[s] : r.conn = c
        /\ \A c \in Clients : Draws(c, s) => log[s] = {} /\ \A d \in Clients : Draws(d, s) => d = c
        /\ \A c \in Clients : handler[c] = "logging" /\ found[c].sid = s =>
              \E r \in log[s] : r.conn = found[c].conn

\* What a step does to the numbers clients have and are sent.
LEMMA AnswerSteps ==
    ASSUME [Next]_vars
    PROVE  \/ UNCHANGED <<sessionID, answer>>
           \/ \E c \in Clients : Receive(c)
           \/ \E c \in Clients : SendAnswer(c)
  <1> USE DEF clientVars, netVars
  <1>1. ASSUME NEW c \in Clients, ClientStep(c)
        PROVE  Receive(c) \/ UNCHANGED <<sessionID, answer>>
      BY <1>1 DEF ClientStep, Start, Type, ReceiveEOF, Quit
  <1>2. ASSUME NEW c \in Clients, Connects(c) \/ RequestStep(c)
        PROVE  SendAnswer(c) \/ UNCHANGED <<sessionID, answer>>
      BY <1>2, ConnectFrame, RequestFrame
  <1>3. CASE NotifierStep \/ Crash \/ Restart \/ (\E s \in Sids : Expire(s)) \/ UNCHANGED vars
      BY <1>3, NotifierFrame DEF requestVars, Crash, Restart, Expire, vars
  <1>4. QED
      BY <1>1, <1>2, <1>3, NextCases

\* Who is told a number that he was not told before has just logged in with it.
LEMMA ToldStep ==
    ASSUME TypeOK, [Next]_vars, NEW c \in Clients, NEW s \in Sids, Told(c, s)'
    PROVE  Told(c, s) \/ (InsertLogin(c) /\ drawn[c] = s)
  <1>1. /\ sessionID \in [Clients -> Sids \cup {NoSid}]
        /\ answer \in [Clients -> Seq(Sids \cup {NoSid})]
        /\ drawn \in [Clients -> Sids \cup {NoSid}]
        /\ s # NoSid
      BY WallTalkAssumption DEF TypeOK, ClientTypes, NetTypes, WorkTypes
  <1>2. CASE handler'[c] = "answering" /\ drawn'[c] = s
    <2>1. CASE InsertLogin(c)
        BY <1>2, <2>1 DEF InsertLogin
    <2>2. CASE LogInFails(c)
        BY <1>1, <1>2, <2>2 DEF LogInFails
    <2>3. CASE handler[c] = "answering" /\ Kept(c)
        BY <1>2, <2>3 DEF Told, Kept
    <2>4. QED
        BY <1>2, <2>1, <2>2, <2>3, ComesTo
  <1>3. CASE sessionID'[c] = s \/ \E i \in 1 .. Len(answer'[c]) : answer'[c][i] = s
    <2>1. CASE UNCHANGED <<sessionID, answer>>
        BY <1>3, <2>1 DEF Told
    <2>2. ASSUME NEW d \in Clients, Receive(d) PROVE Told(c, s)
      <3>1. answer[d] \in Seq(Sids \cup {NoSid}) /\ answer[d] # <<>>
          BY <1>1, <2>2 DEF Receive
      <3>2. /\ Len(answer[d]) \in Nat \ {0}
            /\ Head(answer[d]) = answer[d][1]
            /\ Len(Tail(answer[d])) = Len(answer[d]) - 1
            /\ \A i \in 1 .. Len(answer[d]) - 1 : Tail(answer[d])[i] = answer[d][i + 1]
          BY <3>1, HeadTyped
      <3>3. /\ answer' = [answer EXCEPT ![d] = Tail(@)]
            /\ sessionID' = sessionID \/ sessionID' = [sessionID EXCEPT ![d] = Head(answer[d])]
          BY <2>2 DEF Receive
      <3>4. CASE c # d
          BY <1>1, <1>3, <3>3, <3>4 DEF Told
      <3>5. CASE c = d /\ sessionID'[c] = s
          BY <1>1, <3>2, <3>3, <3>5 DEF Told
      <3>6. CASE c = d /\ \E i \in 1 .. Len(answer'[c]) : answer'[c][i] = s
        <4>1. PICK i \in 1 .. Len(answer'[c]) : answer'[c][i] = s
            BY <3>6
        <4>2. answer'[c] = Tail(answer[d])
            BY <1>1, <3>3, <3>6
        <4>3. i + 1 \in 1 .. Len(answer[c]) /\ answer[c][i + 1] = s
            BY <3>2, <3>6, <4>1, <4>2
        <4>4. QED
            BY <4>3 DEF Told
      <3>7. QED
          BY <1>3, <3>4, <3>5, <3>6
    <2>3. ASSUME NEW d \in Clients, SendAnswer(d) PROVE Told(c, s)
      <3>1. UNCHANGED sessionID /\ handler[d] = "answering"
          BY <2>3 DEF SendAnswer, clientVars, Moves
      <3>2. CASE c # d \/ UNCHANGED answer
        <4>1. answer'[c] = answer[c]
            BY <1>1, <2>3, <3>2 DEF SendAnswer
        <4>2. QED
            BY <1>3, <3>1, <4>1 DEF Told
      <3>3. CASE c = d /\ answer' = [answer EXCEPT ![c] = Append(@, drawn[c])]
        <4>1. answer[c] \in Seq(Sids \cup {NoSid}) /\ answer'[c] = Append(answer[c], drawn[c])
            BY <1>1, <3>3
        <4>2. \A i \in 1 .. Len(answer'[c]) :
                 \/ answer'[c][i] = drawn[c]
                 \/ i \in 1 .. Len(answer[c]) /\ answer'[c][i] = answer[c][i]
            BY <4>1
        <4>3. QED
            BY <1>3, <3>1, <3>3, <4>2 DEF Told
      <3>4. QED
          BY <2>3, <3>2, <3>3 DEF SendAnswer
    <2>4. QED
        BY <2>1, <2>2, <2>3, AnswerSteps
  <1>4. QED
      BY <1>2, <1>3 DEF Told

\* Numbers drawn at once are not forgotten.
LEMMA SharedGrows == [Next]_vars => shared \subseteq shared'
  <1>1. ASSUME NEW c \in Clients, RequestStep(c) PROVE shared \subseteq shared'
    <2>1. CASE LoginStep(c)
        BY <2>1 DEF LoginStep, LogInFails, DrawSid, InsertLogin, SendAnswer, LoginAcked, serverVars
    <2>2. CASE PostStep(c)
        BY <2>2 DEF PostStep, InsertPost, ReadKey, InsertNotices, NoticesRefused, serverVars
    <2>3. CASE Serve(c)
        BY <2>3 DEF Serve, Refuse, Drop, AnswerNoUser, FindRow, PostNotLogged, InsertLog,
                    InsertLogout, ReplyEnds, Raise, serverVars
    <2>4. QED
        BY <1>1, <2>1, <2>2, <2>3 DEF RequestStep
  <1>2. QED
      BY <1>1, NextCases, ClientFrame, ConnectFrame, NotifierFrame
      DEF serverVars, requestVars, Crash, Restart, Expire, vars

\* A row of the log stays, or gives way to one of its own connection.
LEMMA RowsKept ==
    ASSUME TypeOK, ITold, [Next]_vars, NEW s \in Sids \ shared, NEW r \in log[s]
    PROVE  \E q \in log'[s] : q.conn = r.conn
  <1>1. LogTypes /\ log \in [Sids -> SUBSET Row] /\ \A p \in log[s] : p = r
      BY DEF TypeOK, LogTypes
  <1>2. CASE UNCHANGED <<log, lastRow>>
      BY <1>2
  <1>3. ASSUME NEW new, Adds(new), new.sid = s => new.conn = r.conn
        PROVE  \E q \in log'[s] : q.conn = r.conn
    <2>1. log'[s] = IF s = new.sid THEN {new} ELSE log[s]
        BY <1>1, <1>3 DEF Adds
    <2>2. QED
        BY <1>3, <2>1
  <1>4. ASSUME NEW c \in Clients, InsertLogin(c) PROVE \E q \in log'[s] : q.conn = r.conn
    <2>1. PICK new \in Row : Adds(new) /\ new.sid = drawn[c] /\ new.conn = c
        BY <1>4, LoginAdds
    <2>2. drawn[c] # s
        BY <1>4 DEF InsertLogin, Moves, ITold, Draws
    <2>3. QED
        BY <1>3, <2>1, <2>2
  <1>5. ASSUME NEW c \in Clients, NEW new \in Row, handler[c] = "logging", Adds(new),
               SameOrigin(new, found[c])
        PROVE  \E q \in log'[s] : q.conn = r.conn
      BY <1>1, <1>3, <1>5 DEF ITold, SameOrigin
  <1>6. ASSUME NEW t \in Sids, Expire(t) PROVE \E q \in log'[s] : q.conn = r.conn
    <2>1. log[s] \in SUBSET Row /\ (log'[s] = log[s] \/ log'[s] = Old(log[s]))
        BY <1>1, <1>6, ExpiredRows
    <2>2. QED
        BY <2>1, OldRows DEF SameOrigin
  <1>7. QED
      BY <1>2, <1>4, <1>5, <1>6, LogSteps

\* A number that is about to be inserted stays out of the log until it is.
LEMMA StaysUnused ==
    ASSUME TypeOK, ITold, [Next]_vars, NEW s \in Sids \ shared, NEW c \in Clients, Draws(c, s),
           ~ InsertLogin(c)
    PROVE  log'[s] = {}
  <1>1. LogTypes /\ log \in [Sids -> SUBSET Row] /\ log[s] = {}
        /\ \A d \in Clients : Draws(d, s) => d = c
      BY DEF TypeOK, LogTypes, ITold
  <1>2. CASE UNCHANGED <<log, lastRow>>
      BY <1>1, <1>2
  <1>3. ASSUME NEW new, Adds(new), new.sid # s PROVE log'[s] = {}
      BY <1>1, <1>3 DEF Adds
  <1>4. ASSUME NEW d \in Clients, InsertLogin(d) PROVE log'[s] = {}
    <2>1. PICK new \in Row : Adds(new) /\ new.sid = drawn[d]
        BY <1>4, LoginAdds
    <2>2. handler[d] = "inserting" /\ d # c
        BY <1>4 DEF InsertLogin, Moves
    <2>3. drawn[d] # s
        BY <1>1, <2>2 DEF Draws
    <2>4. QED
        BY <1>3, <2>1, <2>3
  <1>5. ASSUME NEW d \in Clients, NEW new \in Row, handler[d] = "logging", Adds(new),
               SameOrigin(new, found[d])
        PROVE  log'[s] = {}
      BY <1>1, <1>3, <1>5 DEF ITold, SameOrigin
  <1>6. ASSUME NEW t \in Sids, Expire(t) PROVE log'[s] = {}
    <2>1. log'[s] = log[s] \/ log'[s] = Old(log[s])
        BY <1>1, <1>6, ExpiredRows
    <2>2. QED
        BY <1>1, <2>1 DEF Old
  <1>7. QED
      BY <1>2, <1>4, <1>5, <1>6, LogSteps

\* Numbers that clients were told, that are about to be inserted, or whose rows
\* were found, stay what they are in the log.
LEMMA ToldsStep == TypeOK /\ IRows /\ ITold /\ [Next]_vars => ITold'
  <1> SUFFICES ASSUME TypeOK, IRows, ITold, [Next]_vars, NEW s \in Sids \ shared'
               PROVE  /\ \A c \in Clients : Told(c, s)' => \E r \in log'[s] : r.conn = c
                      /\ \A c \in Clients : Draws(c, s)' =>
                            log'[s] = {} /\ \A d \in Clients : Draws(d, s)' => d = c
                      /\ \A c \in Clients : handler'[c] = "logging" /\ found'[c].sid = s =>
                            \E r \in log'[s] : r.conn = found'[c].conn
      BY DEF ITold
  <1>1. /\ s \in Sids \ shared /\ s \notin shared'
        /\ log \in [Sids -> SUBSET Row] /\ handler \in [Clients -> Places]
        /\ WorkTypes
      BY SharedGrows DEF TypeOK, LogTypes, ProcessTypes
  <1>2. ASSUME NEW c \in Clients, Told(c, s)' PROVE \E r \in log'[s] : r.conn = c
    <2>1. CASE Told(c, s)
      <3>1. PICK r \in log[s] : r.conn = c
          BY <1>1, <2>1 DEF ITold
      <3>2. QED
          BY <1>1, <3>1, RowsKept
    <2>2. CASE InsertLogin(c) /\ drawn[c] = s
      <3>1. PICK new \in Row : Adds(new) /\ new.sid = drawn[c] /\ new.conn = c
          BY <2>2, LoginAdds
      <3>2. log'[s] = {new}
          BY <1>1, <2>2, <3>1 DEF Adds
      <3>3. QED
          BY <3>1, <3>2
    <2>3. QED
        BY <1>1, <1>2, <2>1, <2>2, ToldStep
  <1>3. ASSUME NEW c \in Clients, DrawSid(c), drawn'[c] = s
        PROVE  log[s] = {} /\ UNCHANGED log /\ \A d \in Clients : ~ Draws(d, s)
    <2>1. PICK t \in Sids :
            /\ log[t] = {}
            /\ drawn' = [drawn EXCEPT ![c] = t]
            /\ shared' = IF \E d \in Clients : handler[d] = "inserting" /\ drawn[d] = t
                         THEN shared \cup {t} ELSE shared
        BY <1>3 DEF DrawSid
    <2>2. t = s
        BY <1>1, <1>3, <2>1 DEF WorkTypes
    <2>3. UNCHANGED log
        BY <1>3 DEF DrawSid, tables, logVars
    <2>4. QED
        BY <1>1, <2>1, <2>2, <2>3 DEF Draws
  <1>4. ASSUME NEW c \in Clients, Draws(c, s)'
        PROVE  \/ DrawSid(c) /\ drawn'[c] = s
               \/ Draws(c, s) /\ ~ InsertLogin(c)
    <2>1. handler'[c] = "inserting" /\ drawn'[c] = s
        BY <1>4 DEF Draws
    <2>2. ~ InsertLogin(c)
        BY <1>1, <2>1 DEF InsertLogin, Moves
    <2>3. QED
        BY <2>1, <2>2, ComesTo DEF Draws, Kept
  <1>5. ASSUME NEW c \in Clients, Draws(c, s)', NEW d \in Clients, Draws(d, s)' PROVE d = c
    <2>1. CASE Draws(c, s) /\ Draws(d, s)
        BY <1>1, <2>1 DEF ITold
    <2>2. CASE DrawSid(c) /\ DrawSid(d)
      <3>1. SUFFICES ASSUME d # c PROVE FALSE
          OBVIOUS
      <3>2. RequestStep(d) /\ handler[c] = "serving" /\ handler'[c] = "inserting"
          BY <1>1, <2>2 DEF RequestStep, LoginStep, DrawSid, Serves, Moves
      <3>3. handler'[c] = handler[c] \/ handler'[c] = "waiting"
          BY <3>1, <3>2, OthersKeep
      <3>4. QED
          BY <3>2, <3>3
    <2>3. QED
        BY <1>3, <1>4, <1>5, <2>1, <2>2
  <1>6. ASSUME NEW c \in Clients, Draws(c, s)' PROVE log'[s] = {}
      BY <1>1, <1>3, <1>4, <1>6, StaysUnused
  <1>7. ASSUME NEW c \in Clients, handler'[c] = "logging", found'[c].sid = s
        PROVE  \E r \in log'[s] : r.conn = found'[c].conn
    <2>1. ASSUME NEW t \in Sids, NEW r \in log[t], found'[c] = r
          PROVE  \E q \in log'[s] : q.conn = found'[c].conn
      <3>1. t = s
          BY <1>7, <2>1 DEF IRows
      <3>2. QED
          BY <1>1, <2>1, <3>1, RowsKept
    <2>2. CASE handler[c] = "logging" /\ Kept(c)
      <3>1. PICK r \in log[s] : r.conn = found[c].conn
          BY <1>1, <1>7, <2>2 DEF ITold, Kept
      <3>2. \E q \in log'[s] : q.conn = r.conn
          BY <1>1, RowsKept
      <3>3. QED
          BY <2>2, <3>1, <3>2 DEF Kept
    <2>3. CASE FindRow(c)
      <3>1. PICK t \in Sids : t = request[c].sid
          BY <2>3 DEF FindRow, Valid
      <3>2. PICK r \in log[t] : found' = [found EXCEPT ![c] = r]
          BY <2>3, <3>1 DEF FindRow
      <3>3. found'[c] = r
          BY <1>1, <3>2 DEF WorkTypes
      <3>4. QED
          BY <2>1, <3>3
    <2>4. CASE ReadEOF(c)
      <3>1. handler'[c] # "left"
          BY <1>7
      <3>2. Valid(lastLogin) /\ \E r \in log[lastLogin] : found' = [found EXCEPT ![c] = r]
          BY <1>1, <2>4, <3>1 DEF ReadEOF, Moves
      <3>3. PICK t \in Sids : t = lastLogin
          BY <3>2 DEF Valid
      <3>4. PICK r \in log[t] : found' = [found EXCEPT ![c] = r]
          BY <3>2, <3>3
      <3>5. found'[c] = r
          BY <1>1, <3>4 DEF WorkTypes
      <3>6. QED
          BY <2>1, <3>5
    <2>5. QED
        BY <1>7, <2>2, <2>3, <2>4, ComesTo
  <1>8. QED
      BY <1>2, <1>5, <1>6, <1>7

-----------------------------------------------------------------------------
(* A client that waits for its first answer.                               *)

\* Its LOGIN is on its way, in the hands of its handler, or answered, unless a
\* write_socket has read it.
IWait ==
    \A c \in Clients :
        client[c] = "on" /\ sessionID[c] = NoSid /\ c \notin astray /\ handler[c] # "closed" =>
            \/ \E i \in 1 .. Len(up[c]) : up[c][i].cmd = "LOGIN"
            \/ handler[c] = "serving" /\ request[c].cmd = "LOGIN"
            \/ handler[c] \in {"inserting", "answering"}
            \/ answer[c] # <<>>

\* A LOGIN that is served gets an answer, unless the connection closes first.
LEMMA LoginGoesOn ==
    ASSUME TypeOK, ISockets, [Next]_vars, NEW c \in Clients
    PROVE  /\ handler[c] = "serving" /\ request[c].cmd = "LOGIN" =>
                 \/ handler'[c] = "serving" /\ request'[c].cmd = "LOGIN"
                 \/ handler'[c] \in {"inserting", "answering", "closed"}
           /\ handler[c] = "inserting" => handler'[c] \in {"inserting", "answering", "closed"}
           /\ handler[c] = "answering" => handler'[c] \in {"answering", "closed"} \/ SendAnswer(c)
  <1> DEFINE Right ==
        /\ handler[c] = "serving" /\ request[c].cmd = "LOGIN" =>
              \/ handler'[c] = "serving" /\ request'[c].cmd = "LOGIN"
              \/ handler'[c] \in {"inserting", "answering", "closed"}
        /\ handler[c] = "inserting" => handler'[c] \in {"inserting", "answering", "closed"}
        /\ handler[c] = "answering" => handler'[c] \in {"answering", "closed"} \/ SendAnswer(c)
  <1>1. handler \in [Clients -> Places]
      BY DEF TypeOK, ProcessTypes
  <1>2. CASE handler[c] \notin {"serving", "inserting", "answering"}
      BY <1>2
  <1>3. CASE Kept(c) /\ (handler'[c] = handler[c] \/ handler'[c] = "waiting")
    <2>1. CASE handler'[c] = handler[c]
        BY <1>3, <2>1 DEF Kept
    <2>2. CASE handler'[c] = "waiting" /\ handler[c] \in {"serving", "inserting", "answering"}
        BY <2>2, AcceptedStep DEF Accepted
    <2>3. QED
        BY <1>2, <1>3, <2>1, <2>2
  <1>4. CASE Crash
      BY <1>1, <1>4 DEF Crash
  <1>5. CASE Connects(c)
    <2>1. CASE BuffersRequestOf(c)
        BY <1>3, <2>1, OthersKeep
    <2>2. CASE Accept(c) \/ TakeBuffered(c) \/ BeginRead(c) \/ ReadRequest(c) \/ ReadFails(c)
               \/ ReadEOF(c)
        BY <1>2, <2>2 DEF Accept, TakeBuffered, BeginRead, ReadRequest, ReadFails, ReadEOF,
                          Closes, Moves
    <2>3. QED
        BY <1>5, <2>1, <2>2 DEF Connects, ReplyReads, NotifierReads
  <1>6. CASE LoginStep(c)
      BY <1>1, <1>2, <1>6
      DEF LoginStep, LogInFails, DrawSid, InsertLogin, SendAnswer, LoginAcked, Moves
  <1>7. CASE PostStep(c) \/ Serve(c)
    <2>1. CASE Serves(c, Commands) \/ Serves(c, {"POST"})
      <3>1. handler[c] = "serving" /\ request[c].cmd # "LOGIN"
          BY <2>1 DEF Serves, Commands
      <3>2. QED
          BY <3>1
    <2>2. CASE InsertPost(c) \/ Refuse(c) \/ AnswerNoUser(c)
        BY <2>1, <2>2 DEF InsertPost, Refuse, AnswerNoUser, Serves, Commands
    <2>3. CASE FindRow(c)
      <3>1. handler[c] = "noted" \/ Serves(c, Commands)
          BY <2>3 DEF FindRow, Serves, Commands
      <3>2. QED
          BY <1>2, <2>1, <3>1
    <2>4. CASE ReadKey(c) \/ InsertNotices(c) \/ NoticesRefused(c)
        BY <1>2, <2>4 DEF ReadKey, InsertNotices, NoticesRefused, Moves
    <2>5. CASE Drop(c) \/ PostNotLogged(c) \/ InsertLog(c) \/ InsertLogout(c) \/ ReplyEnds(c)
               \/ Raise(c)
        BY <1>2, <2>5 DEF Drop, PostNotLogged, InsertLog, InsertLogout, ReplyEnds, Raise, Closes,
                          Moves
    <2>6. QED
        BY <1>7, <2>2, <2>3, <2>4, <2>5 DEF PostStep, Serve
  <1>8. ASSUME NEW d \in Clients, ClientStep(d) \/ Connects(d) \/ RequestStep(d) PROVE Right
    <2>1. CASE ClientStep(d) \/ d # c
        BY <1>3, <1>8, <2>1, OthersKeep
    <2>2. CASE d = c /\ (Connects(c) \/ RequestStep(c))
        BY <1>5, <1>6, <1>7, <2>2 DEF RequestStep
    <2>3. QED
        BY <1>8, <2>1, <2>2
  <1>9. CASE NotifierStep \/ Restart \/ (\E s \in Sids : Expire(s)) \/ UNCHANGED vars
      BY <1>3, <1>9, OthersKeep
  <1>10. QED
      BY <1>4, <1>8, <1>9, NextCases

\* A LOGIN on its way stays there, or its own handler has read it, or a
\* write_socket.
LEMMA LoginInQueue ==
    ASSUME TypeOK, ISockets, [Next]_vars, NEW c \in Clients, client[c] = "on",
           \E i \in 1 .. Len(up[c]) : up[c][i].cmd = "LOGIN"
    PROVE  \/ \E i \in 1 .. Len(up'[c]) : up'[c][i].cmd = "LOGIN"
           \/ handler'[c] = "serving" /\ request'[c].cmd = "LOGIN"
           \/ c \in astray'
           \/ handler'[c] = "closed"
  <1> DEFINE Queued == \E i \in 1 .. Len(up'[c]) : up'[c][i].cmd = "LOGIN"
  <1>1. /\ up \in [Clients -> Seq(Request)] /\ request \in [Clients -> Request]
        /\ handler \in [Clients -> Places]
      BY DEF TypeOK, NetTypes, WorkTypes, ProcessTypes
  <1>2. PICK i \in 1 .. Len(up[c]) : up[c][i].cmd = "LOGIN"
      OBVIOUS
  <1>3. up[c] \in Seq(Request) /\ Len(up[c]) \in Nat
      BY <1>1
  <1>4. CASE up'[c] = up[c]
      BY <1>2, <1>4
  <1>5. ASSUME up' = [up EXCEPT ![c] = Tail(@)], ~ Queued PROVE Head(up[c]).cmd = "LOGIN"
    <2>1. up[c] # <<>> /\ up'[c] = Tail(up[c])
        BY <1>1, <1>2, <1>5
    <2>2. /\ Head(up[c]) = up[c][1] /\ Len(Tail(up[c])) = Len(up[c]) - 1
          /\ \A j \in 1 .. Len(up[c]) - 1 : Tail(up[c])[j] = up[c][j + 1]
        BY <1>3, <2>1, HeadTyped
    <2>3. CASE i = 1
        BY <1>2, <2>2, <2>3
    <2>4. CASE i # 1
      <3>1. i - 1 \in 1 .. Len(up[c]) - 1 /\ (i - 1) + 1 = i
          BY <1>3, <2>4
      <3>2. i - 1 \in 1 .. Len(up'[c]) /\ up'[c][i - 1] = up[c][i]
          BY <2>1, <2>2, <3>1
      <3>3. QED
          BY <1>2, <1>5, <3>2
    <2>5. QED
        BY <2>3, <2>4
  <1>6. ASSUME NEW d \in Clients, Start(d) PROVE up'[c] = up[c]
      BY <1>1, <1>6 DEF Start
  <1>7. ASSUME NEW d \in Clients, Type(d) PROVE Queued
    <2>1. CASE d # c
      <3>1. up'[c] = up[c]
          BY <1>1, <1>7, <2>1 DEF Type
      <3>2. QED
          BY <1>4, <3>1
    <2>2. CASE d = c
      <3>1. PICK q : up'[c] = Append(up[c], q)
          BY <1>1, <1>7, <2>2 DEF Type
      <3>2. i \in 1 .. Len(up'[c]) /\ up'[c][i] = up[c][i]
          BY <1>3, <3>1
      <3>3. QED
          BY <1>2, <3>2
    <2>3. QED
        BY <2>1, <2>2
  <1>8. ASSUME NEW d \in Clients, ReadRequest(d)
        PROVE  Queued \/ (handler'[c] = "serving" /\ request'[c].cmd = "LOGIN")
    <2>1. CASE d # c
      <3>1. up'[c] = up[c]
          BY <1>1, <1>8, <2>1 DEF ReadRequest
      <3>2. QED
          BY <1>4, <3>1
    <2>2. CASE d = c
      <3>1. handler'[c] = "serving" /\ request'[c] = Head(up[c])
          BY <1>1, <1>8, <2>2 DEF ReadRequest, Moves
      <3>2. QED
          BY <1>5, <1>8, <2>2, <3>1 DEF ReadRequest
    <2>3. QED
        BY <2>1, <2>2
  <1>9. ASSUME NEW d \in Clients, BuffersRequestOf(d) PROVE Queued \/ c \in astray'
    <2>1. CASE d # c
      <3>1. up'[c] = up[c]
          BY <1>1, <1>9, <2>1 DEF BuffersRequestOf
      <3>2. QED
          BY <1>4, <3>1
    <2>2. CASE d = c
        BY <1>5, <1>9, <2>2 DEF BuffersRequestOf
    <2>3. QED
        BY <2>1, <2>2
  <1>10. CASE Crash
      BY <1>1, <1>10 DEF Crash, ISockets
  <1>11. ASSUME NEW d \in Clients, TakeBuffered(d) PROVE up'[c] = up[c]
      BY <1>11 DEF TakeBuffered, netVars
  <1>12. CASE UNCHANGED up
      BY <1>4, <1>12
  <1>13. QED
      BY <1>4, <1>6, <1>7, <1>8, <1>9, <1>10, <1>11, <1>12, QueueSteps

\* An answer on its way stays there until the client reads it.
LEMMA AnswerStays ==
    ASSUME TypeOK, [Next]_vars, NEW c \in Clients, answer[c] # <<>>, ~ Receive(c)
    PROVE  answer'[c] # <<>>
  <1>1. answer \in [Clients -> Seq(Sids \cup {NoSid})]
      BY DEF TypeOK, NetTypes
  <1>2. CASE UNCHANGED answer
      BY <1>2
  <1>3. ASSUME NEW d \in Clients, Receive(d) PROVE answer'[c] # <<>>
    <2>1. d # c
        BY <1>3
    <2>2. QED
        BY <1>1, <1>3, <2>1 DEF Receive
  <1>4. ASSUME NEW d \in Clients, SendAnswer(d) PROVE answer'[c] # <<>>
    <2>1. answer'[c] = answer[c] \/ answer'[c] = Append(answer[c], drawn[d])
        BY <1>1, <1>4 DEF SendAnswer
    <2>2. answer[c] \in Seq(Sids \cup {NoSid})
        BY <1>1
    <2>3. Append(answer[c], drawn[d]) # <<>>
        BY <2>2
    <2>4. QED
        BY <2>1, <2>3
  <1>5. QED
      BY <1>2, <1>3, <1>4, AnswerSteps

\* Every step keeps track of the LOGIN of a client that has had no number.
LEMMA WaitStep == TypeOK /\ ISockets /\ IWait /\ [Next]_vars => IWait'
  <1> SUFFICES ASSUME TypeOK, ISockets, IWait, [Next]_vars, NEW c \in Clients,
                      client'[c] = "on", sessionID'[c] = NoSid, c \notin astray',
                      handler'[c] # "closed"
               PROVE  \/ \E i \in 1 .. Len(up'[c]) : up'[c][i].cmd = "LOGIN"
                      \/ handler'[c] = "serving" /\ request'[c].cmd = "LOGIN"
                      \/ handler'[c] \in {"inserting", "answering"}
                      \/ answer'[c] # <<>>
      BY DEF IWait
  <1>1. /\ client \in [Clients -> {"off", "on", "gone"}]
        /\ sessionID \in [Clients -> Sids \cup {NoSid}]
        /\ answer \in [Clients -> Seq(Sids \cup {NoSid})]
        /\ up \in [Clients -> Seq(Request)] /\ handler \in [Clients -> Places]
      BY DEF TypeOK, ClientTypes, NetTypes, ProcessTypes
  <1>2. c \notin astray /\ handler[c] # "closed"
      BY AstrayGrows, AcceptedStep
  <1>3. CASE client[c] # "on"
    <2>1. handler'[c] = "waiting" /\ client[c] # "on"
        BY <1>3, ClientLives
    <2>2. Start(c)
      <3>1. ASSUME NEW d \in Clients, ClientStep(d) PROVE Start(c)
        <4>1. CASE Start(d)
            BY <1>1, <1>3, <4>1 DEF Start
        <4>2. CASE Type(d) \/ Receive(d) \/ ReceiveEOF(d) \/ Quit(d)
            BY <1>1, <1>3, <4>2 DEF Type, Receive, ReceiveEOF, Quit
        <4>3. QED
            BY <3>1, <4>1, <4>2 DEF ClientStep
      <3>2. ASSUME NEW d \in Clients, Connects(d) \/ RequestStep(d) PROVE UNCHANGED client
          BY <3>2, ConnectFrame, RequestFrame DEF clientVars
      <3>3. ASSUME NotifierStep \/ Crash \/ Restart \/ (\E s \in Sids : Expire(s)) \/ UNCHANGED vars
            PROVE  UNCHANGED client
          BY <3>3, NotifierFrame DEF requestVars, Crash, Restart, Expire, vars, clientVars
      <3>4. QED
          BY <1>3, <3>1, <3>2, <3>3, NextCases
    <2>3. up' = [up EXCEPT ![c] = <<[from |-> c, cmd |-> "LOGIN", sid |-> NoSid]>>]
        BY <1>1, <2>2 DEF Start
    <2>4. PICK q : q = [from |-> c, cmd |-> "LOGIN", sid |-> NoSid]
        OBVIOUS
    <2>5. up'[c] = <<q>> /\ q.cmd = "LOGIN"
        BY <1>1, <2>3, <2>4
    <2>6. 1 \in 1 .. Len(up'[c]) /\ up'[c][1].cmd = "LOGIN"
        BY <2>5
    <2>7. QED
        BY <2>6
  <1>4. CASE client[c] = "on"
    <2>1. ~ Receive(c)
      <3>1. SUFFICES ASSUME Receive(c) PROVE FALSE
          OBVIOUS
      <3>2. Head(answer[c]) # NoSid
          BY <1>1, <3>1 DEF Receive
      <3>3. sessionID'[c] = Head(answer[c])
          BY <1>1, <3>1, <3>2 DEF Receive
      <3>4. QED
          BY <3>2, <3>3
    <2>2. sessionID[c] = NoSid
      <3>1. ASSUME NEW d \in Clients, Receive(d) PROVE sessionID[c] = NoSid
        <4>1. d # c
            BY <2>1, <3>1
        <4>2. QED
            BY <1>1, <3>1, <4>1 DEF Receive
      <3>2. ASSUME NEW d \in Clients, SendAnswer(d) PROVE sessionID[c] = NoSid
          BY <3>2 DEF SendAnswer, clientVars
      <3>3. QED
          BY <3>1, <3>2, AnswerSteps
    <2>3. CASE \E i \in 1 .. Len(up[c]) : up[c][i].cmd = "LOGIN"
        BY <1>4, <2>3, LoginInQueue
    <2>4. CASE handler[c] = "serving" /\ request[c].cmd = "LOGIN"
        BY <2>4, LoginGoesOn
    <2>5. CASE handler[c] \in {"inserting", "answering"}
      <3>1. CASE SendAnswer(c)
        <4>1. answer'[c] = Append(answer[c], drawn[c]) /\ answer[c] \in Seq(Sids \cup {NoSid})
            BY <1>1, <1>4, <3>1 DEF SendAnswer, Reaches
        <4>2. Append(answer[c], drawn[c]) # <<>>
            BY <4>1
        <4>3. QED
            BY <4>1, <4>2
      <3>2. QED
          BY <2>5, <3>1, LoginGoesOn
    <2>6. CASE answer[c] # <<>>
        BY <2>1, <2>6, AnswerStays
    <2>7. QED
        BY <1>2, <1>4, <2>2, <2>3, <2>4, <2>5, <2>6 DEF IWait
  <1>5. QED
      BY <1>3, <1>4

-----------------------------------------------------------------------------
(* The sweep and what it has sent.                                         *)

\* A row of the result set has the user and the socket of a row of the log that
\* was right.
ResultOk(r) == RowOk(r) /\ UserOf[r.from] = r.notice[2]

ISweep ==
    /\ \A r \in rows : ResultOk(r) /\ r.notice \in unread
    /\ \A r1, r2 \in rows : r1.notice = r2.notice => r1 = r2
    /\ notifier \in {"writes", "marks"} =>
          /\ current.row.notice \in unread
          /\ \A r \in rows : r.notice # current.row.notice
    /\ notifier = "marks" => current \in acked
    /\ StraysOnlyAfterClose

\* What was sent stays right while connections go on.
LEMMA SentStays ==
    ASSUME TypeOK, ISockets, StraysOnlyAfterClose, [Next]_vars, sent' = sent
    PROVE  StraysOnlyAfterClose'
  <1>1. ASSUME NEW m \in sent
        PROVE  /\ UserOf[m.row.from] = m.row.notice[2]
               /\ m.row.conn = m.row.from \/ m.row.from \in astray'
               /\ m.to = m.row.conn \/ handler'[m.row.conn] = "closed"
    <2>1. m.row.conn \in Clients
        BY DEF TypeOK, NotifierTypes, Message, ResultRow
    <2>2. /\ UserOf[m.row.from] = m.row.notice[2]
          /\ m.row.conn = m.row.from \/ m.row.from \in astray
          /\ m.to = m.row.conn \/ handler[m.row.conn] = "closed"
        BY DEF StraysOnlyAfterClose
    <2>3. QED
        BY <2>1, <2>2, AcceptedStep, AstrayGrows
  <1>2. QED
      BY <1>1 DEF StraysOnlyAfterClose

\* So do the rows to come.
LEMMA ResultsStay ==
    ASSUME TypeOK, ISockets, [Next]_vars, NEW r \in ResultRow, ResultOk(r)
    PROVE  ResultOk(r)'
  BY RowStays DEF ResultOk, ResultRow

\* A sweep begins with one row for each notification, and every row is right.
LEMMA PendingOk ==
    ASSUME TypeOK, IRows
    PROVE  /\ \A r \in Pending : r \in ResultRow /\ ResultOk(r) /\ r.notice \in unread
           /\ \A r1, r2 \in Pending : r1.notice = r2.notice => r1 = r2
  <1>1. LogTypes
      BY DEF TypeOK
  <1>2. ASSUME NEW p \in Pending
        PROVE  /\ p \in ResultRow /\ p.notice \in unread /\ p.notice[2] \in Users
               /\ \E r \in lastRow[p.notice[2]] :
                     p.from = r.from /\ p.conn = r.conn /\ p.sock = r.sock
      BY DEF Pending, ResultRow, Notice
  <1>3. ASSUME NEW p \in Pending PROVE ResultOk(p)
    <2>1. PICK r \in lastRow[p.notice[2]] :
            p.from = r.from /\ p.conn = r.conn /\ p.sock = r.sock
        BY <1>2
    <2>2. User(r) = p.notice[2] /\ RowOk(r)
        BY <1>2 DEF IRows
    <2>3. QED
        BY <2>1, <2>2 DEF ResultOk, RowOk, User, Accepted
  <1>4. ASSUME NEW p1 \in Pending, NEW p2 \in Pending, p1.notice = p2.notice PROVE p1 = p2
    <2>1. PICK u \in Users : u = p1.notice[2]
        BY <1>2
    <2>2. PICK r1 \in lastRow[u] : p1.from = r1.from /\ p1.conn = r1.conn /\ p1.sock = r1.sock
        BY <1>2, <2>1
    <2>3. PICK r2 \in lastRow[u] : p2.from = r2.from /\ p2.conn = r2.conn /\ p2.sock = r2.sock
        BY <1>2, <1>4, <2>1
    <2>4. r1 = r2
        BY <1>1 DEF LogTypes
    <2>5. p1 \in ResultRow /\ p2 \in ResultRow
        BY <1>2
    <2>6. QED
        BY <1>4, <2>2, <2>3, <2>4, <2>5 DEF ResultRow
  <1>5. QED
      BY <1>2, <1>3, <1>4

\* A row written is written to its own connection, or that one is closed.
LEMMA WriteStep ==
    ASSUME TypeOK, ISockets, ISweep, WriteNotice
    PROVE  ISweep'
  <1>1. PICK r \in rows :
            /\ fdOwner[r.sock] \in Clients
            /\ rows' = rows \ {r}
            /\ current' = [to |-> fdOwner[r.sock], row |-> r]
            /\ sent' = IF Reaches(fdOwner[r.sock]) THEN sent \cup {current'} ELSE sent
      BY DEF WriteNotice
  <1>2. notifier' = "writes" /\ UNCHANGED <<handler, sockFd, unread, astray>>
      BY DEF WriteNotice, requestVars, socketVars, bufferVars
  <1>3. current'.to = fdOwner[r.sock] /\ current'.row = r
      BY <1>1
  <1>4. ResultOk(r) /\ r.notice \in unread /\ r \in ResultRow
      BY DEF ISweep, TypeOK, NotifierTypes
  <1>5. \A q \in rows' : ResultOk(q)' /\ q.notice \in unread' /\ q \in rows /\ q.notice # r.notice
      BY <1>1, <1>2 DEF ISweep, ResultOk, RowOk, Accepted
  <1>6. fdOwner[r.sock] = r.conn \/ handler[r.conn] = "closed"
    <2>1. r.conn \in Clients /\ handler[r.conn] \in Places
        BY <1>4 DEF TypeOK, ProcessTypes, ResultRow
    <2>2. r.sock = sockFd[r.conn] /\ handler[r.conn] \notin {"none", "waiting"}
        BY <1>4 DEF ResultOk, RowOk, Accepted
    <2>3. QED
        BY <2>1, <2>2 DEF Places, ISockets
  <1>7. ASSUME NEW m \in sent'
        PROVE  /\ UserOf[m.row.from] = m.row.notice[2]
               /\ m.row.conn = m.row.from \/ m.row.from \in astray
               /\ m.to = m.row.conn \/ handler[m.row.conn] = "closed"
    <2>1. CASE m \in sent
        BY <2>1 DEF ISweep, StraysOnlyAfterClose
    <2>2. CASE m = current'
        BY <1>3, <1>4, <1>6, <2>2 DEF ResultOk, RowOk
    <2>3. QED
        BY <1>1, <1>7, <2>1, <2>2
  <1>8. StraysOnlyAfterClose'
      BY <1>2, <1>7 DEF StraysOnlyAfterClose
  <1>9. \A r1, r2 \in rows' : r1.notice = r2.notice => r1 = r2
      BY <1>5 DEF ISweep
  <1>10. QED
      BY <1>2, <1>3, <1>4, <1>5, <1>8, <1>9 DEF ISweep

\* The sweep stays right whatever anybody does.
LEMMA SweepStep == TypeOK /\ ISockets /\ IRows /\ ISweep /\ [Next]_vars => ISweep'
  <1> SUFFICES ASSUME TypeOK, ISockets, IRows, ISweep, [Next]_vars PROVE ISweep'
      OBVIOUS
  <1> USE DEF notifierVars
  <1>1. rows \subseteq ResultRow /\ StraysOnlyAfterClose
      BY DEF TypeOK, NotifierTypes, ISweep
  <1>2. ASSUME rows' \subseteq rows, unread \subseteq unread', UNCHANGED <<current, sent>>,
               acked \subseteq acked',
               notifier' \in {"writes", "marks"} => notifier \in {"writes", "marks"},
               notifier' = "marks" => notifier = "marks" \/ current \in acked'
        PROVE  ISweep'
    <2>1. \A r \in rows' : ResultOk(r)' /\ r.notice \in unread'
        BY <1>1, <1>2, ResultsStay DEF ISweep
    <2>2. \A r1, r2 \in rows' : r1.notice = r2.notice => r1 = r2
        BY <1>2 DEF ISweep
    <2>3. notifier' \in {"writes", "marks"} =>
             /\ current'.row.notice \in unread'
             /\ \A r \in rows' : r.notice # current'.row.notice
        BY <1>2 DEF ISweep
    <2>4. notifier' = "marks" => current' \in acked'
        BY <1>2 DEF ISweep
    <2>5. StraysOnlyAfterClose'
        BY <1>1, <1>2, SentStays
    <2>6. QED
        BY <2>1, <2>2, <2>3, <2>4, <2>5 DEF ISweep
  <1>3. CASE NotifierStep
    <2>1. CASE Sweep
      <3>1. /\ rows' = Pending /\ notifier' = "sweeps" /\ UNCHANGED <<unread, current, sent, acked>>
          BY <2>1 DEF Sweep
      <3>2. /\ \A r \in rows' : r \in ResultRow /\ ResultOk(r) /\ r.notice \in unread
            /\ \A r1, r2 \in rows' : r1.notice = r2.notice => r1 = r2
          BY <3>1, PendingOk
      <3>3. \A r \in rows' : ResultOk(r)' /\ r.notice \in unread'
          BY <3>1, <3>2, ResultsStay
      <3>4. StraysOnlyAfterClose'
          BY <1>1, <3>1, SentStays
      <3>5. QED
          BY <3>1, <3>2, <3>3, <3>4 DEF ISweep
    <2>2. CASE WriteNotice
        BY <2>2, WriteStep
    <2>3. CASE WriteFails \/ NoticeAcked
        BY <1>2, <2>3 DEF WriteFails, NoticeAcked
    <2>4. CASE NoticeUnacked \/ SweepEnds
        BY <1>2, <2>4 DEF NoticeUnacked, SweepEnds
    <2>5. CASE MarkRead
      <3>1. /\ notifier = "marks" /\ notifier' = "sweeps"
            /\ unread' = unread \ {current.row.notice}
            /\ UNCHANGED <<rows, current, sent, acked>>
          BY <2>5 DEF MarkRead
      <3>2. \A r \in rows' : ResultOk(r)' /\ r.notice \in unread'
          BY <1>1, <3>1, ResultsStay DEF ISweep
      <3>3. StraysOnlyAfterClose'
          BY <1>1, <3>1, SentStays
      <3>4. \A r1, r2 \in rows' : r1.notice = r2.notice => r1 = r2
          BY <3>1 DEF ISweep
      <3>5. QED
          BY <3>1, <3>2, <3>3, <3>4 DEF ISweep
    <2>6. QED
        BY <1>3, <2>1, <2>2, <2>3, <2>4, <2>5 DEF NotifierStep
  <1>4. CASE Crash
      BY <1>2, <1>4 DEF Crash, tables, postVars
  <1>5. ASSUME UNCHANGED notifierVars, ~ MarkRead PROVE ISweep'
    <2>1. unread \subseteq unread'
        BY <1>5, PostSteps DEF postVars, InsertPost, InsertNotices
    <2>2. QED
        BY <1>2, <1>5, <2>1
  <1>6. QED
      BY <1>3, <1>4, <1>5, NotifierSteps DEF NotifierStep

-----------------------------------------------------------------------------
(* The theorems.                                                           *)

IInv ==
    TypeOK /\ ISockets /\ IRequests /\ IRows /\ ITold /\ IWait /\ ISweep

\* Before anything has happened there is nothing to be wrong.
LEMMA InitInv == Init => IInv
  <1> SUFFICES ASSUME Init PROVE IInv
      OBVIOUS
  <1>1. TypeOK
      BY InitTyped
  <1>2. \A c \in Clients : /\ client[c] = "off" /\ sessionID[c] = NoSid /\ handler[c] = "none"
                           /\ Len(up[c]) = 0 /\ Len(answer[c]) = 0
      BY DEF Init
  <1>3. ISockets /\ IRequests
      BY <1>2 DEF Init, ISockets, IRequests, Working
  <1>4. IRows
      BY <1>2 DEF Init, IRows
  <1>5. ITold
      BY <1>2, WallTalkAssumption DEF Init, ITold, Told, Draws
  <1>6. IWait
      BY <1>2 DEF IWait
  <1>7. ISweep
      BY DEF Init, ISweep, StraysOnlyAfterClose
  <1>8. QED
      BY <1>1, <1>3, <1>4, <1>5, <1>6, <1>7 DEF IInv

\* The inductive invariant holds in every reachable state.
THEOREM InvariantHolds == Spec => []IInv
  <1>1. IInv /\ [Next]_vars => IInv'
      BY TypeStep, SocketsStep, RequestsStep, RowsStep, ToldsStep, WaitStep, SweepStep DEF IInv
  <1>2. QED
      BY <1>1, InitInv, PTL DEF Spec

\* Every variable keeps its type.
THEOREM TypeCorrect == Spec => []TypeOK
  <1>1. IInv => TypeOK
      BY DEF IInv
  <1>2. QED
      BY <1>1, InvariantHolds, PTL

\* A session number that only one login drew is in the log for the connection
\* of the client that has it and no other client's, through restarts of the
\* server; and it is its own login's, unless a write_socket read that.
THEOREM SessionsOwnUserHolds == Spec => []SessionsOwnUser
  <1>1. ASSUME IInv PROVE SessionsOwnUser
    <2>1. ASSUME NEW c \in Clients, Holds(c)
          PROVE  \E s \in Sids \ shared : s = sessionID[c]
        BY <1>1, <2>1 DEF IInv, TypeOK, ClientTypes, Holds
    <2>2. ASSUME NEW c \in Clients, Holds(c)
          PROVE  \E r \in log[sessionID[c]] : r.conn = c /\ (r.from = c \/ r.from \in astray)
      <3>1. PICK s \in Sids \ shared : s = sessionID[c]
          BY <2>1, <2>2
      <3>2. PICK r \in log[s] : r.conn = c
          BY <1>1, <3>1 DEF IInv, ITold, Told
      <3>3. RowOk(r)
          BY <1>1 DEF IInv, IRows
      <3>4. QED
          BY <3>1, <3>2, <3>3 DEF RowOk
    <2>3. ASSUME NEW c \in Clients, Holds(c), NEW d \in Clients \ {c}, sessionID[d] = sessionID[c]
          PROVE  FALSE
      <3>1. PICK s \in Sids \ shared : s = sessionID[c]
          BY <2>1, <2>3
      <3>2. (\E r \in log[s] : r.conn = c) /\ (\E r \in log[s] : r.conn = d)
          BY <1>1, <2>3, <3>1 DEF IInv, ITold, Told
      <3>3. \A r1, r2 \in log[s] : r1 = r2
          BY <1>1 DEF IInv, TypeOK, LogTypes
      <3>4. QED
          BY <3>2, <3>3
    <2>4. QED
        BY <2>2, <2>3 DEF SessionsOwnUser
  <1>2. QED
      BY <1>1, InvariantHolds, PTL

\* The socket of a client's session is its connection while that is open, for
\* a number that only one login drew.
THEOREM SessionReachesClientHolds == Spec => []SessionReachesClient
  <1>1. ASSUME IInv PROVE SessionReachesClient
    <2>1. ASSUME NEW c \in Clients, Holds(c), handler[c] \in Working
          PROVE  fdOwner[sockFd[c]] = c /\ \E r \in log[sessionID[c]] : r.sock = sockFd[c]
      <3>1. PICK s \in Sids \ shared : s = sessionID[c]
          BY <1>1, <2>1 DEF IInv, TypeOK, ClientTypes, Holds
      <3>2. PICK r \in log[s] : r.conn = c
          BY <1>1, <3>1 DEF IInv, ITold, Told
      <3>3. RowOk(r)
          BY <1>1 DEF IInv, IRows
      <3>4. r.sock = sockFd[c]
          BY <3>2, <3>3 DEF RowOk
      <3>5. fdOwner[sockFd[c]] = c
          BY <1>1, <2>1 DEF IInv, ISockets
      <3>6. QED
          BY <3>1, <3>4, <3>5
    <2>2. QED
        BY <2>1 DEF SessionReachesClient
  <1>2. QED
      BY <1>1, InvariantHolds, PTL

\* A notification is of the user of the LOGIN behind its row, and goes to
\* another client only if the LOGIN's connection was closed or another client's.
THEOREM StraysOnlyAfterCloseHolds == Spec => []StraysOnlyAfterClose
  <1>1. IInv => StraysOnlyAfterClose
      BY DEF IInv, ISweep
  <1>2. QED
      BY <1>1, InvariantHolds, PTL

\* A client waits for its first answer for good only if some write_socket has
\* read its LOGIN.
THEOREM WaitsOnlyIfAstrayHolds == Spec => []WaitsOnlyIfAstray
  <1>1. ASSUME IInv PROVE WaitsOnlyIfAstray
    <2>1. ASSUME NEW c \in Clients, client[c] = "on", sessionID[c] = NoSid,
                 up[c] = <<>>, answer[c] = <<>>, handler[c] = "reading", c \notin astray
          PROVE  FALSE
      <3>1. Len(up[c]) = 0
          BY <2>1
      <3>2. QED
          BY <1>1, <2>1, <3>1 DEF IInv, IWait
    <2>2. QED
        BY <2>1 DEF WaitsOnlyIfAstray
  <1>2. QED
      BY <1>1, InvariantHolds, PTL

-----------------------------------------------------------------------------
(* The notice board.                                                       *)

\* An empty table is an empty board.
LEMMA InitBoard == Init => Board!BoardInit
  BY DEF Init, Board!BoardInit

\* Every step of the system is a step of the board or leaves it alone: an
\* insert into Notifications puts notices up, an acknowledged write delivers
\* one, MarkRead marks one.
LEMMA StepBoard == IInv /\ [Next]_vars => [Board!BoardNext]_(Board!boardVars)
  <1> SUFFICES ASSUME IInv, [Next]_vars PROVE [Board!BoardNext]_(Board!boardVars)
      OBVIOUS
  <1> USE DEF postVars, notifierVars
  <1> DEFINE told == {m.row.notice : m \in acked}
             put == notices \X Users
  <1>1. /\ notices \subseteq 1 .. posts /\ posts \in 0 .. MaxPosts /\ MaxPosts \in Nat
        /\ unread \subseteq put
      BY WallTalkAssumption DEF IInv, TypeOK, PostTypes
  <1>2. put \subseteq Board!Notice
    <2>1. 1 .. posts \subseteq 1 .. MaxPosts
        BY <1>1
    <2>2. QED
        BY <1>1, <2>1 DEF Board!Notice
  <1>3. ASSUME UNCHANGED <<notices, unread, acked>> PROVE UNCHANGED Board!boardVars
      BY <1>3 DEF Board!boardVars
  <1>4. ASSUME NEW c \in Clients, InsertNotices(c) PROVE Board!BoardNext
    <2>1. /\ key[c] \in (1 .. posts) \ notices
          /\ notices' = notices \cup {key[c]}
          /\ unread' = unread \cup ({key[c]} \X Users)
        BY <1>4 DEF InsertNotices
    <2>2. UNCHANGED acked
        BY <1>4, RequestFrame DEF RequestStep, PostStep
    <2>3. put' = put \cup ({key[c]} \X Users) /\ \A n \in put : n[1] # key[c]
        BY <2>1
    <2>4. (put \ unread)' = put \ unread
        BY <1>1, <2>1, <2>3
    <2>5. key[c] \in 1 .. MaxPosts
        BY <1>1, <2>1
    <2>6. Board!PutUp(key[c])
        BY <2>2, <2>3, <2>4 DEF Board!PutUp
    <2>7. QED
        BY <2>5, <2>6 DEF Board!BoardNext
  <1>5. CASE NoticeAcked
    <2>1. /\ acked' = acked \cup {current} /\ notifier = "writes"
          /\ UNCHANGED <<notices, unread>>
        BY <1>5 DEF NoticeAcked, requestVars
    <2>2. PICK n \in unread : n = current.row.notice
        BY <2>1 DEF IInv, ISweep
    <2>3. told' = told \cup {n}
        BY <2>1, <2>2
    <2>4. n \in put \ (put \ unread) /\ n \in Board!Notice
        BY <1>1, <1>2
    <2>5. Board!Deliver(n)
        BY <2>1, <2>3, <2>4 DEF Board!Deliver
    <2>6. QED
        BY <2>4, <2>5 DEF Board!BoardNext
  <1>6. CASE MarkRead
    <2>1. unread' = unread \ {current.row.notice} /\ UNCHANGED <<notices, acked>>
        BY <1>6 DEF MarkRead, requestVars
    <2>2. current.row.notice \in unread /\ current.row.notice \in told
        BY <1>6 DEF MarkRead, IInv, ISweep
    <2>3. (put \ unread)' = (put \ unread) \cup {current.row.notice}
        BY <1>1, <2>1, <2>2
    <2>4. Board!Mark(current.row.notice)
        BY <2>1, <2>2, <2>3 DEF Board!Mark
    <2>5. QED
        BY <1>1, <1>2, <2>2, <2>4 DEF Board!BoardNext
  <1>7. UNCHANGED acked \/ NoticeAcked
      BY NotifierSteps
      DEF NotifierStep, Sweep, WriteNotice, WriteFails, NoticeUnacked, MarkRead, SweepEnds, Crash
  <1>8. \/ UNCHANGED <<notices, unread>>
        \/ \E c \in Clients : InsertNotices(c)
        \/ MarkRead
      BY PostSteps DEF InsertPost
  <1>9. QED
      BY <1>3, <1>4, <1>5, <1>6, <1>7, <1>8

\* Sessions, sockets, sweeps and crashes implement the notice board: notices
\* go up once for a post, nothing is marked read that no client has
\* acknowledged, and nothing is taken down.
THEOREM NoticeBoardImplemented == Spec => ImplementsBoard
  BY InitBoard, StepBoard, InvariantHolds, PTL DEF Spec, ImplementsBoard, Board!BoardSpec
==============================================================================
