----------------------------- MODULE HandlersProofs -----------------------------
(***************************************************************************)
(* Theorems about Handlers, for every set of connections, users, sessions  *)
(* and descriptors and every bound.                                        *)
(***************************************************************************)
EXTENDS Handlers, TLAPS

-----------------------------------------------------------------------------
(* Type correctness.                                                       *)

\* Initially every variable has its type.
LEMMA InitTyped == Init => TypeOK
  <1> SUFFICES ASSUME Init PROVE TypeOK
      OBVIOUS
  <1> USE HandlersAssumption
  <1>1. (CHOOSE f \in Fds : TRUE) \in Fds
      OBVIOUS
  <1>2. \E l \in Login : TRUE
    <2>1. PICK u \in Users, f \in Fds : TRUE
        OBVIOUS
    <2>2. [user |-> u, sock |-> f] \in Login
        BY <2>1 DEF Login
    <2>3. QED
        BY <2>2
  <1>3. (CHOOSE l \in Login : TRUE) \in Login
      BY <1>2
  <1>4. row \in [Handlers -> Login] /\ fd \in [Handlers -> Fds]
      BY <1>1, <1>3 DEF Init
  <1>5. latest \in [Sids -> SUBSET Row] /\ given \in [Sids -> SUBSET (Handlers \X Login)]
      BY DEF Init
  <1>6. lastInsertId \in Keys /\ posts \in Keys /\ failures \in 0 .. MaxFailures
      BY DEF Init, Keys
  <1>7. requests \in [Handlers -> 0 .. MaxRequests] /\ postId \in [Handlers -> Keys] /\ mine \in [Handlers -> Keys]
      BY DEF Init, Keys
  <1>8. pc \in [Handlers -> Steps] /\ task \in [Handlers -> {"LOGIN", "LIST", "SHOW", "POST"} \cup Logouts]
      BY DEF Init, Steps
  <1>9. QED
      BY <1>4, <1>5, <1>6, <1>7, <1>8 DEF Init, TypeOK

\* What a query finds in the log is a user and a socket.
LEMMA FindTyped ==
    ASSUME TypeOK, NEW h \in Handlers, Find(h)
    PROVE  row' \in [Handlers -> Login]
  <1>1. PICK r \in latest[sid[h]] : row' = [row EXCEPT ![h] = [user |-> r.user, sock |-> r.sock]]
      BY DEF Find
  <1>2. r \in Row
      BY DEF TypeOK, Find, Valid
  <1>3. [user |-> r.user, sock |-> r.sock] \in Login
      BY <1>2 DEF Row, Login
  <1>4. QED
      BY <1>1, <1>3 DEF TypeOK

\* A row inserted is a row, and the only latest one of its session.
LEMMA InsertTyped ==
    ASSUME TypeOK, NEW h \in Handlers, NEW out \in BOOLEAN,
           InsertRow(h, sid[h], row[h], out)
    PROVE  /\ latest' \in [Sids -> SUBSET Row]
           /\ \A s \in Sids : \A r1, r2 \in latest'[s] : r1 = r2
           /\ lastInsertId' \in Keys
           /\ endedBy' \in [Sids -> SUBSET Handlers]
           /\ disturbed' \subseteq Handlers
  <1> DEFINE new == [user |-> row[h].user, sock |-> row[h].sock, out |-> out, fresh |-> TRUE]
  <1>1. row[h] \in Login
      BY DEF TypeOK
  <1>2. new \in Row
      BY <1>1 DEF Row, Login
  <1>3. latest' = [latest EXCEPT ![sid[h]] = {new}]
      BY DEF InsertRow
  <1>4. lastInsertId' \in Keys /\ disturbed' \subseteq Handlers
      BY HandlersAssumption DEF InsertRow, Inserts, Keys, TypeOK
  <1>5. endedBy' \in [Sids -> SUBSET Handlers]
    <2>1. endedBy \in [Sids -> SUBSET Handlers]
        BY DEF TypeOK
    <2>2. endedBy' = [endedBy EXCEPT ![sid[h]] = @ \cup {h}] \/ endedBy' = endedBy
        BY DEF InsertRow
    <2>3. QED
        BY <2>1, <2>2
  <1> HIDE DEF new
  <1>6. latest' \in [Sids -> SUBSET Row]
    <2>1. latest \in [Sids -> SUBSET Row] /\ {new} \in SUBSET Row
        BY <1>2 DEF TypeOK
    <2>2. QED
        BY <1>3, <2>1
  <1>7. ASSUME NEW s \in Sids, NEW r1 \in latest'[s], NEW r2 \in latest'[s] PROVE r1 = r2
    <2>1. CASE s = sid[h]
        BY <1>3, <1>7, <2>1 DEF TypeOK
    <2>2. CASE s # sid[h]
        BY <1>3, <1>7, <2>2 DEF TypeOK
    <2>3. QED
        BY <2>1, <2>2
  <1>8. QED
      BY <1>4, <1>5, <1>6, <1>7

\* What a handler does after an error keeps the types of what it touches.
LEMMA ErrorTyped ==
    ASSUME TypeOK, NEW h \in Handlers, AfterError(h)
    PROVE  /\ pc' \in [Handlers -> Steps]
           /\ result' \in [Handlers -> {"0", "-1", "-2"}]
           /\ done' \subseteq Keys \X Keys
  <1> USE DEF TypeOK
  <1>1. PICK step \in Steps : Goto(h, step)
      BY DEF AfterError, ServerError, GoesTo, Steps
  <1>2. result' = result \/ result' = [result EXCEPT ![h] = "-2"]
      BY DEF AfterError, ServerError, GoesTo
  <1>3. done' = done \/ done' = done \cup {<<mine[h], postId[h]>>}
      BY DEF AfterError, ServerError, GoesTo
  <1>4. QED
      BY <1>1, <1>2, <1>3 DEF Goto

\* After an error no handler is at the insert of a row.
LEMMA ErrorNeverInserts ==
    ASSUME NEW h \in Handlers, AfterError(h)
    PROVE  \E step \in Steps \ {"insertLog"} : Goto(h, step)
  BY DEF AfterError, ServerError, GoesTo, Steps

\* No step of any thread gives a variable a value outside its type.
LEMMA TypeStep == TypeOK /\ [Next]_vars => TypeOK'
  <1> SUFFICES ASSUME TypeOK, [Next]_vars PROVE TypeOK'
      OBVIOUS
  <1> USE HandlersAssumption DEF TypeOK, tables, request, sockets, clients, history, Steps, Logouts, Goto, Keys
  <1>1. CASE UNCHANGED vars
      BY <1>1 DEF vars
  <1>2. ASSUME NEW h \in Handlers, ReadRequest(h) PROVE TypeOK'
      BY <1>2 DEF ReadRequest
  <1>3. ASSUME NEW h \in Handlers, ReadEOF(h) PROVE TypeOK'
      BY <1>3 DEF ReadEOF
  <1>4. ASSUME NEW h \in Handlers, Close(h) PROVE TypeOK'
      BY <1>4 DEF Close
  <1>5. ASSUME NEW h \in Handlers, Validate(h) PROVE TypeOK'
      BY <1>5 DEF Validate
  <1>6. ASSUME NEW h \in Handlers, CheckLog(h) PROVE TypeOK'
    <2>1. row' \in [Handlers -> Login]
        BY <1>6, FindTyped DEF CheckLog
    <2>2. QED
        BY <1>6, <2>1 DEF CheckLog
  <1>7. ASSUME NEW h \in Handlers, CheckCredentials(h) PROVE TypeOK'
    <2>1. row' \in [Handlers -> Login]
      <3>1. fd[h] \in Fds
          OBVIOUS
      <3>2. \A u \in Users : [user |-> u, sock |-> fd[h]] \in Login
          BY <3>1 DEF Login
      <3>3. QED
          BY <1>7, <3>2 DEF CheckCredentials
    <2>2. QED
        BY <1>7, <2>1 DEF CheckCredentials
  <1>8. ASSUME NEW h \in Handlers, PickSid(h) PROVE TypeOK'
      BY <1>8 DEF PickSid
  <1>9. ASSUME NEW h \in Handlers, InsertLogin(h) PROVE TypeOK'
    <2>1. InsertRow(h, sid[h], row[h], FALSE)
        BY <1>9 DEF InsertLogin
    <2>2. /\ latest' \in [Sids -> SUBSET Row]
          /\ \A s \in Sids : \A r1, r2 \in latest'[s] : r1 = r2
          /\ lastInsertId' \in Keys
          /\ endedBy' \in [Sids -> SUBSET Handlers]
          /\ disturbed' \subseteq Handlers
        BY <2>1, InsertTyped
    <2>3. given' \in [Sids -> SUBSET (Handlers \X Login)]
      <3>1. <<h, row[h]>> \in Handlers \X Login
          OBVIOUS
      <3>2. given' = [given EXCEPT ![sid[h]] = given[sid[h]] \cup {<<h, row[h]>>}]
          BY <1>9 DEF InsertLogin
      <3>3. \A s \in Sids : given'[s] \in SUBSET (Handlers \X Login)
          BY <3>1, <3>2
      <3>4. QED
          BY <3>2, <3>3
    <2>4. QED
        BY <1>9, <2>2, <2>3 DEF InsertLogin
  <1>10. ASSUME NEW h \in Handlers, LoginReply(h) PROVE TypeOK'
      BY <1>10 DEF LoginReply, Sends
  <1>11. ASSUME NEW h \in Handlers, Query(h) PROVE TypeOK'
      BY <1>11 DEF Query
  <1>12. ASSUME NEW h \in Handlers, InsertLog(h) PROVE TypeOK'
    <2>1. InsertRow(h, sid[h], row[h], FALSE)
        BY <1>12 DEF InsertLog
    <2>2. /\ latest' \in [Sids -> SUBSET Row]
          /\ \A s \in Sids : \A r1, r2 \in latest'[s] : r1 = r2
          /\ lastInsertId' \in Keys
          /\ endedBy' \in [Sids -> SUBSET Handlers]
          /\ disturbed' \subseteq Handlers
        BY <2>1, InsertTyped
    <2>3. \E step \in {"signal", "reply"} : pc' = [pc EXCEPT ![h] = step]
        BY <1>12 DEF InsertLog
    <2>4. pc' \in [Handlers -> Steps] /\ result' \in [Handlers -> {"0", "-1", "-2"}]
        BY <1>12, <2>3 DEF InsertLog
    <2>5. done' \subseteq Keys \X Keys
        BY <1>12 DEF InsertLog
    <2>6. QED
        BY <1>12, <2>2, <2>4, <2>5 DEF InsertLog
  <1>13. ASSUME NEW h \in Handlers, ListReply(h) PROVE TypeOK'
    <2>1. \E step \in {"findSession", "read"} : pc' = [pc EXCEPT ![h] = step]
        BY <1>13 DEF ListReply
    <2>2. task' = task \/ task' = [task EXCEPT ![h] = "GIVEUP"]
        BY <1>13 DEF ListReply
    <2>3. pc' \in [Handlers -> Steps]
        BY <2>1
    <2>4. task' \in [Handlers -> {"LOGIN", "LIST", "SHOW", "POST"} \cup Logouts]
        BY <2>2
    <2>5. QED
        BY <1>13, <2>3, <2>4 DEF ListReply
  <1>14. ASSUME NEW h \in Handlers, FindPoster(h) PROVE TypeOK'
    <2>1. row' \in [Handlers -> Login]
        BY <1>14, FindTyped DEF FindPoster
    <2>2. QED
        BY <1>14, <2>1 DEF FindPoster
  <1>15. ASSUME NEW h \in Handlers, InsertPost(h) PROVE TypeOK'
      BY <1>15 DEF InsertPost, Inserts
  <1>16. ASSUME NEW h \in Handlers, ReadLastId(h) PROVE TypeOK'
      BY <1>16 DEF ReadLastId
  <1>17. ASSUME NEW h \in Handlers, InsertNotices(h) PROVE TypeOK'
    <2>1. notified' \subseteq 1 .. posts'
        BY <1>17 DEF InsertNotices
    <2>2. lastInsertId' \in Keys /\ disturbed' \subseteq Handlers
        BY <1>17 DEF InsertNotices, Inserts
    <2>3. QED
        BY <1>17, <2>1, <2>2 DEF InsertNotices
  <1>18. ASSUME NEW h \in Handlers, PostReply(h) PROVE TypeOK'
      BY <1>18 DEF PostReply, Sends
  <1>18a. ASSUME NEW h \in Handlers, Signal(h) PROVE TypeOK'
      BY <1>18a DEF Signal
  <1>19. ASSUME NEW h \in Handlers, FindSession(h) PROVE TypeOK'
      BY <1>19 DEF FindSession
  <1>20. ASSUME NEW h \in Handlers, InsertLogout(h) PROVE TypeOK'
    <2>1. InsertRow(h, sid[h], row[h], TRUE)
        BY <1>20 DEF InsertLogout
    <2>2. /\ latest' \in [Sids -> SUBSET Row]
          /\ \A s \in Sids : \A r1, r2 \in latest'[s] : r1 = r2
          /\ lastInsertId' \in Keys
          /\ endedBy' \in [Sids -> SUBSET Handlers]
          /\ disturbed' \subseteq Handlers
        BY <2>1, InsertTyped
    <2>3. QED
        BY <1>20, <2>2 DEF InsertLogout
  <1>21. ASSUME NEW h \in Handlers, SessionInvalid(h) PROVE TypeOK'
      BY <1>21, ErrorTyped DEF SessionInvalid, ErrorUnchanged
  <1>22. ASSUME NEW h \in Handlers, NoticesRefused(h) PROVE TypeOK'
      BY <1>22, ErrorTyped DEF NoticesRefused, ErrorUnchanged
  <1>23. ASSUME NEW h \in Handlers, Throws(h) PROVE TypeOK'
      BY <1>23, ErrorTyped DEF Throws, ErrorUnchanged
  <1>24. ASSUME NEW h \in Handlers, ReadFails(h) PROVE TypeOK'
      BY <1>24 DEF ReadFails
  <1>25. ASSUME NEW h \in Handlers, Accept(h) PROVE TypeOK'
      BY <1>25 DEF Accept
  <1>26. ASSUME NEW h \in Handlers, HangUp(h) PROVE TypeOK'
      BY <1>26 DEF HangUp
  <1>27. ASSUME NEW s \in Sids, Expire(s) PROVE TypeOK'
    <2>1. PICK r \in latest[s] : latest' = [latest EXCEPT ![s] = {[r EXCEPT !.fresh = FALSE]}]
        BY <1>27 DEF Expire
    <2>2. [r EXCEPT !.fresh = FALSE] \in Row
      <3>1. r \in Row
          OBVIOUS
      <3>2. QED
          BY <3>1 DEF Row
    <2>3. latest' \in [Sids -> SUBSET Row]
        BY <2>1, <2>2
    <2>4. ASSUME NEW z \in Sids, NEW r1 \in latest'[z], NEW r2 \in latest'[z] PROVE r1 = r2
      <3>1. CASE z = s
          BY <2>1, <2>4, <3>1
      <3>2. CASE z # s
          BY <2>1, <2>4, <3>2
      <3>3. QED
          BY <3>1, <3>2
    <2>5. QED
        BY <1>27, <2>3, <2>4 DEF Expire
  <1>28. CASE AcceptFails
      BY <1>28 DEF AcceptFails
  <1>29. QED
      BY <1>1, <1>2, <1>3, <1>4, <1>5, <1>6, <1>7, <1>8, <1>9, <1>10, <1>11, <1>12, <1>13, <1>14, <1>15, <1>16, <1>17, <1>18, <1>18a, <1>19, <1>20, <1>21, <1>22, <1>23, <1>24, <1>25, <1>26, <1>27, <1>28 DEF Next, Step

-----------------------------------------------------------------------------
(* The inductive invariant: what the runs check, and why it holds on.      *)

\* A descriptor that has an owner is the one its owner accepted.
ISockets ==
    /\ SocketsExclusive
    /\ LeaksOnlyAtEOF
    /\ \A f \in Fds : \A h \in Handlers : fdOwner[f] = h => pc[h] # "waiting" /\ fd[h] = f

\* A thread about to log a command has the user and socket of one login.
ILog ==
    /\ RowsFromLogins
    /\ \A h \in Handlers : pc[h] = "insertLog" => \E g \in given[sid[h]] : g[2] = row[h]

\* A thread past its notifications has a key no other thread has or had.
Notified(h) == task[h] = "POST" /\ pc[h] \in {"checkLog", "insertLog"}
IPosts ==
    /\ SuccessesDistinct
    /\ \A d \in done : d[2] \in notified
    /\ \A h \in Handlers : pc[h] = "validate" => task[h] \in Commands
    /\ \A h \in Handlers : pc[h] = "query" => task[h] \in {"LIST", "SHOW"}
    /\ \A h \in Handlers : pc[h] = "findSession" => task[h] \in Logouts
    /\ \A h \in Handlers : Notified(h) =>
          /\ postId[h] \in notified
          /\ \A d \in done : d[2] # postId[h]
          /\ \A g \in Handlers : Notified(g) /\ g # h => postId[g] # postId[h]

\* A thread nobody disturbed would find the key of its own post.
IKeys ==
    /\ OwnPostUnlessDisturbed
    /\ \A h \in Handlers :
          (pc[h] = "lastId" /\ h \notin disturbed) => (lastInsertId = mine[h] /\ mine[h] > 0)

IInv == TypeOK /\ ISockets /\ ILog /\ IPosts /\ IKeys

\* No step takes a descriptor from the handler that serves it.
LEMMA SocketsStep == TypeOK /\ ISockets /\ [Next]_vars => ISockets'
  <1> SUFFICES ASSUME TypeOK, ISockets, [Next]_vars PROVE ISockets'
      OBVIOUS
  <1> USE HandlersAssumption DEF TypeOK, ISockets, tables, request, sockets, clients, history, Goto, SocketsExclusive, LeaksOnlyAtEOF, Serving
  <1>1. CASE UNCHANGED vars
      BY <1>1 DEF vars
  <1>2. ASSUME NEW h \in Handlers, ReadRequest(h) PROVE ISockets'
      BY <1>2 DEF ReadRequest
  <1>3. ASSUME NEW h \in Handlers, ReadEOF(h) PROVE ISockets'
      BY <1>3 DEF ReadEOF
  <1>4. ASSUME NEW h \in Handlers, Close(h) PROVE ISockets'
      BY <1>4 DEF Close
  <1>5. ASSUME NEW h \in Handlers, Validate(h) PROVE ISockets'
      BY <1>5 DEF Validate
  <1>6. ASSUME NEW h \in Handlers, CheckLog(h) PROVE ISockets'
      BY <1>6 DEF CheckLog
  <1>7. ASSUME NEW h \in Handlers, CheckCredentials(h) PROVE ISockets'
      BY <1>7 DEF CheckCredentials
  <1>8. ASSUME NEW h \in Handlers, PickSid(h) PROVE ISockets'
      BY <1>8 DEF PickSid
  <1>9. ASSUME NEW h \in Handlers, InsertLogin(h) PROVE ISockets'
      BY <1>9 DEF InsertLogin, InsertRow, Inserts
  <1>10. ASSUME NEW h \in Handlers, LoginReply(h) PROVE ISockets'
      BY <1>10 DEF LoginReply, Sends
  <1>11. ASSUME NEW h \in Handlers, Query(h) PROVE ISockets'
      BY <1>11 DEF Query
  <1>12. ASSUME NEW h \in Handlers, InsertLog(h) PROVE ISockets'
      BY <1>12 DEF InsertLog, InsertRow, Inserts
  <1>13. ASSUME NEW h \in Handlers, ListReply(h) PROVE ISockets'
      BY <1>13 DEF ListReply, Sends
  <1>14. ASSUME NEW h \in Handlers, FindPoster(h) PROVE ISockets'
      BY <1>14 DEF FindPoster
  <1>15. ASSUME NEW h \in Handlers, InsertPost(h) PROVE ISockets'
      BY <1>15 DEF InsertPost, Inserts
  <1>16. ASSUME NEW h \in Handlers, ReadLastId(h) PROVE ISockets'
      BY <1>16 DEF ReadLastId
  <1>17. ASSUME NEW h \in Handlers, InsertNotices(h) PROVE ISockets'
      BY <1>17 DEF InsertNotices, Inserts
  <1>18. ASSUME NEW h \in Handlers, PostReply(h) PROVE ISockets'
      BY <1>18 DEF PostReply, Sends
  <1>18a. ASSUME NEW h \in Handlers, Signal(h) PROVE ISockets'
      BY <1>18a DEF Signal
  <1>19. ASSUME NEW h \in Handlers, FindSession(h) PROVE ISockets'
      BY <1>19 DEF FindSession
  <1>20. ASSUME NEW h \in Handlers, InsertLogout(h) PROVE ISockets'
      BY <1>20 DEF InsertLogout, InsertRow, Inserts
  <1>21. ASSUME NEW h \in Handlers, SessionInvalid(h) PROVE ISockets'
      BY <1>21 DEF SessionInvalid, AfterError, ServerError, GoesTo, ErrorUnchanged
  <1>22. ASSUME NEW h \in Handlers, NoticesRefused(h) PROVE ISockets'
      BY <1>22 DEF NoticesRefused, AfterError, ServerError, GoesTo, ErrorUnchanged
  <1>23. ASSUME NEW h \in Handlers, Throws(h) PROVE ISockets'
      BY <1>23 DEF Throws, AfterError, ServerError, GoesTo, ErrorUnchanged
  <1>24. ASSUME NEW h \in Handlers, ReadFails(h) PROVE ISockets'
      BY <1>24 DEF ReadFails
  <1>25. ASSUME NEW h \in Handlers, Accept(h) PROVE ISockets'
      BY <1>25 DEF Accept
  <1>26. ASSUME NEW h \in Handlers, HangUp(h) PROVE ISockets'
      BY <1>26 DEF HangUp
  <1>27. ASSUME NEW s \in Sids, Expire(s) PROVE ISockets'
      BY <1>27 DEF Expire
  <1>28. CASE AcceptFails
      BY <1>28 DEF AcceptFails
  <1>29. QED
      BY <1>1, <1>2, <1>3, <1>4, <1>5, <1>6, <1>7, <1>8, <1>9, <1>10, <1>11, <1>12, <1>13, <1>14, <1>15, <1>16, <1>17, <1>18, <1>18a, <1>19, <1>20, <1>21, <1>22, <1>23, <1>24, <1>25, <1>26, <1>27, <1>28 DEF Next, Step

\* No step mixes the user of one login with the socket of another.
LEMMA LogStep == TypeOK /\ ILog /\ [Next]_vars => ILog'
  <1> SUFFICES ASSUME TypeOK, ILog, [Next]_vars PROVE ILog'
      OBVIOUS
  <1> USE HandlersAssumption DEF TypeOK, ILog, tables, request, sockets, clients, history, Goto, RowsFromLogins
  <1>1. CASE UNCHANGED vars
      BY <1>1 DEF vars
  <1>2. ASSUME NEW h \in Handlers, ReadRequest(h) PROVE ILog'
      BY <1>2 DEF ReadRequest
  <1>3. ASSUME NEW h \in Handlers, ReadEOF(h) PROVE ILog'
      BY <1>3 DEF ReadEOF
  <1>4. ASSUME NEW h \in Handlers, Close(h) PROVE ILog'
      BY <1>4 DEF Close
  <1>5. ASSUME NEW h \in Handlers, Validate(h) PROVE ILog'
      BY <1>5 DEF Validate
  <1>6. ASSUME NEW h \in Handlers, CheckLog(h) PROVE ILog'
    <2>1. PICK r \in latest[sid[h]] : row' = [row EXCEPT ![h] = [user |-> r.user, sock |-> r.sock]]
        BY <1>6 DEF CheckLog, Find
    <2>2. PICK g \in given[sid[h]] : g[2] = [user |-> r.user, sock |-> r.sock]
        BY <1>6, <2>1 DEF CheckLog, Find, Valid
    <2>3. row'[h] = g[2]
        BY <2>1, <2>2
    <2>4. UNCHANGED <<latest, given, sid>> /\ pc' = [pc EXCEPT ![h] = "insertLog"]
        BY <1>6 DEF CheckLog
    <2>5. \A x \in Handlers : pc'[x] = "insertLog" => \E y \in given'[sid'[x]] : y[2] = row'[x]
        BY <2>1, <2>2, <2>3, <2>4
    <2>6. RowsFromLogins'
        BY <2>4
    <2>7. QED
        BY <2>5, <2>6
  <1>7. ASSUME NEW h \in Handlers, CheckCredentials(h) PROVE ILog'
    <2>1. /\ UNCHANGED <<latest, given, sid>>
          /\ \E c \in {"pick", "reply"} : pc' = [pc EXCEPT ![h] = c]
          /\ row' = row \/ \E l : row' = [row EXCEPT ![h] = l]
        BY <1>7 DEF CheckCredentials
    <2>2. \A x \in Handlers : pc'[x] = "insertLog" => pc[x] = "insertLog" /\ row'[x] = row[x]
        BY <2>1
    <2>3. QED
        BY <2>1, <2>2
  <1>8. ASSUME NEW h \in Handlers, PickSid(h) PROVE ILog'
      BY <1>8 DEF PickSid
  <1>9. ASSUME NEW h \in Handlers, InsertLogin(h) PROVE ILog'
    <2>1. [user |-> row[h].user, sock |-> row[h].sock] = row[h]
        BY DEF Login
    <2>2. latest' = [latest EXCEPT ![sid[h]] = {[user |-> row[h].user, sock |-> row[h].sock,
                                                  out |-> FALSE, fresh |-> TRUE]}]
        BY <1>9 DEF InsertLogin, InsertRow
    <2>3. ASSUME NEW s \in Sids, NEW r \in latest'[s]
          PROVE  \E g \in given'[s] : g[2] = [user |-> r.user, sock |-> r.sock]
      <3>1. CASE s = sid[h]
        <4>1. r.user = row[h].user /\ r.sock = row[h].sock
            BY <2>2, <2>3, <3>1
        <4>2. \E g \in given'[sid[h]] : g[2] = row[h]
          <5>1. given'[sid[h]] = given[sid[h]] \cup {<<h, row[h]>>}
              BY <1>9, <3>1 DEF InsertLogin
          <5>2. <<h, row[h]>>[2] = row[h]
              OBVIOUS
          <5>3. QED
              BY <5>1, <5>2
        <4>3. QED
            BY <2>1, <3>1, <4>1, <4>2
      <3>2. CASE s # sid[h]
          BY <1>9, <2>2, <2>3, <3>2 DEF InsertLogin
      <3>3. QED
          BY <3>1, <3>2
    <2>4. \A g \in Handlers : pc'[g] = "insertLog" => \E x \in given'[sid'[g]] : x[2] = row'[g]
        BY <1>9 DEF InsertLogin
    <2>5. QED
        BY <2>3, <2>4
  <1>10. ASSUME NEW h \in Handlers, LoginReply(h) PROVE ILog'
      BY <1>10 DEF LoginReply, Sends
  <1>11. ASSUME NEW h \in Handlers, Query(h) PROVE ILog'
      BY <1>11 DEF Query
  <1>12. ASSUME NEW h \in Handlers, InsertLog(h) PROVE ILog'
    <2>1. [user |-> row[h].user, sock |-> row[h].sock] = row[h]
        BY DEF Login
    <2>2. latest' = [latest EXCEPT ![sid[h]] = {[user |-> row[h].user, sock |-> row[h].sock,
                                                  out |-> FALSE, fresh |-> TRUE]}]
        BY <1>12 DEF InsertLog, InsertRow
    <2>3. ASSUME NEW s \in Sids, NEW r \in latest'[s]
          PROVE  \E g \in given'[s] : g[2] = [user |-> r.user, sock |-> r.sock]
      <3>1. CASE s = sid[h]
        <4>1. r.user = row[h].user /\ r.sock = row[h].sock
            BY <2>2, <2>3, <3>1
        <4>2. \E g \in given'[sid[h]] : g[2] = row[h]
            BY <1>12 DEF InsertLog
        <4>3. QED
            BY <2>1, <3>1, <4>1, <4>2
      <3>2. CASE s # sid[h]
          BY <1>12, <2>2, <2>3, <3>2 DEF InsertLog
      <3>3. QED
          BY <3>1, <3>2
    <2>4. UNCHANGED <<given, sid, row>> /\ \A g \in Handlers : pc'[g] = "insertLog" => pc[g] = "insertLog"
        BY <1>12 DEF InsertLog
    <2>5. \A g \in Handlers : pc'[g] = "insertLog" => \E x \in given'[sid'[g]] : x[2] = row'[g]
        BY <2>4
    <2>6. QED
        BY <2>3, <2>5
  <1>13. ASSUME NEW h \in Handlers, ListReply(h) PROVE ILog'
      BY <1>13 DEF ListReply, Sends
  <1>14. ASSUME NEW h \in Handlers, FindPoster(h) PROVE ILog'
      BY <1>14 DEF FindPoster, Find
  <1>15. ASSUME NEW h \in Handlers, InsertPost(h) PROVE ILog'
      BY <1>15 DEF InsertPost, Inserts
  <1>16. ASSUME NEW h \in Handlers, ReadLastId(h) PROVE ILog'
      BY <1>16 DEF ReadLastId
  <1>17. ASSUME NEW h \in Handlers, InsertNotices(h) PROVE ILog'
      BY <1>17 DEF InsertNotices, Inserts
  <1>18. ASSUME NEW h \in Handlers, PostReply(h) PROVE ILog'
      BY <1>18 DEF PostReply, Sends
  <1>18a. ASSUME NEW h \in Handlers, Signal(h) PROVE ILog'
      BY <1>18a DEF Signal
  <1>19. ASSUME NEW h \in Handlers, FindSession(h) PROVE ILog'
      BY <1>19 DEF FindSession
  <1>20. ASSUME NEW h \in Handlers, InsertLogout(h) PROVE ILog'
    <2>1. [user |-> row[h].user, sock |-> row[h].sock] = row[h]
        BY DEF Login
    <2>2. latest' = [latest EXCEPT ![sid[h]] = {[user |-> row[h].user, sock |-> row[h].sock,
                                                  out |-> TRUE, fresh |-> TRUE]}]
        BY <1>20 DEF InsertLogout, InsertRow
    <2>3. ASSUME NEW s \in Sids, NEW r \in latest'[s]
          PROVE  \E g \in given'[s] : g[2] = [user |-> r.user, sock |-> r.sock]
      <3>1. CASE s = sid[h]
        <4>1. r.user = row[h].user /\ r.sock = row[h].sock
            BY <2>2, <2>3, <3>1
        <4>2. \E g \in given'[sid[h]] : g[2] = row[h]
            BY <1>20 DEF InsertLogout
        <4>3. QED
            BY <2>1, <3>1, <4>1, <4>2
      <3>2. CASE s # sid[h]
          BY <1>20, <2>2, <2>3, <3>2 DEF InsertLogout
      <3>3. QED
          BY <3>1, <3>2
    <2>4. \A g \in Handlers : pc'[g] = "insertLog" => \E x \in given'[sid'[g]] : x[2] = row'[g]
        BY <1>20 DEF InsertLogout
    <2>5. QED
        BY <2>3, <2>4
  <1>21. ASSUME NEW h \in Handlers, SessionInvalid(h) PROVE ILog'
    <2>1. AfterError(h) /\ ErrorUnchanged
        BY <1>21 DEF SessionInvalid
    <2>2. PICK step \in Steps \ {"insertLog"} : pc' = [pc EXCEPT ![h] = step]
        BY <2>1, ErrorNeverInserts DEF Goto
    <2>3. QED
        BY <2>1, <2>2 DEF ErrorUnchanged
  <1>22. ASSUME NEW h \in Handlers, NoticesRefused(h) PROVE ILog'
    <2>1. AfterError(h) /\ ErrorUnchanged
        BY <1>22 DEF NoticesRefused
    <2>2. PICK step \in Steps \ {"insertLog"} : pc' = [pc EXCEPT ![h] = step]
        BY <2>1, ErrorNeverInserts DEF Goto
    <2>3. QED
        BY <2>1, <2>2 DEF ErrorUnchanged
  <1>23. ASSUME NEW h \in Handlers, Throws(h) PROVE ILog'
    <2>1. AfterError(h) /\ ErrorUnchanged
        BY <1>23 DEF Throws
    <2>2. PICK step \in Steps \ {"insertLog"} : pc' = [pc EXCEPT ![h] = step]
        BY <2>1, ErrorNeverInserts DEF Goto
    <2>3. QED
        BY <2>1, <2>2 DEF ErrorUnchanged
  <1>24. ASSUME NEW h \in Handlers, ReadFails(h) PROVE ILog'
      BY <1>24 DEF ReadFails
  <1>25. ASSUME NEW h \in Handlers, Accept(h) PROVE ILog'
      BY <1>25 DEF Accept
  <1>26. ASSUME NEW h \in Handlers, HangUp(h) PROVE ILog'
      BY <1>26 DEF HangUp
  <1>27. ASSUME NEW s \in Sids, Expire(s) PROVE ILog'
    <2>1. PICK r \in latest[s] : latest' = [latest EXCEPT ![s] = {[r EXCEPT !.fresh = FALSE]}]
        BY <1>27 DEF Expire
    <2>2. r \in Row
        OBVIOUS
    <2>3. [r EXCEPT !.fresh = FALSE].user = r.user /\ [r EXCEPT !.fresh = FALSE].sock = r.sock
        BY <2>2 DEF Row
    <2>4. ASSUME NEW z \in Sids, NEW x \in latest'[z]
          PROVE  \E g \in given[z] : g[2] = [user |-> x.user, sock |-> x.sock]
      <3>1. CASE z = s
        <4>1. x = [r EXCEPT !.fresh = FALSE]
            BY <2>1, <2>4, <3>1
        <4>2. x.user = r.user /\ x.sock = r.sock
            BY <2>3, <4>1
        <4>3. QED
            BY <3>1, <4>2
      <3>2. CASE z # s
          BY <2>1, <2>4, <3>2
      <3>3. QED
          BY <3>1, <3>2
    <2>5. QED
        BY <1>27, <2>4 DEF Expire
  <1>28. CASE AcceptFails
      BY <1>28 DEF AcceptFails
  <1>29. QED
      BY <1>1, <1>2, <1>3, <1>4, <1>5, <1>6, <1>7, <1>8, <1>9, <1>10, <1>11, <1>12, <1>13, <1>14, <1>15, <1>16, <1>17, <1>18, <1>18a, <1>19, <1>20, <1>21, <1>22, <1>23, <1>24, <1>25, <1>26, <1>27, <1>28 DEF Next, Step

\* No step lets two posts succeed with one set of notifications.
LEMMA PostsStep == TypeOK /\ IPosts /\ [Next]_vars => IPosts'
  <1> SUFFICES ASSUME TypeOK, IPosts, [Next]_vars PROVE IPosts'
      OBVIOUS
  <1> USE HandlersAssumption DEF TypeOK, IPosts, tables, request, sockets, clients, history, Goto, SuccessesDistinct, Notified, Logouts
  <1>1. CASE UNCHANGED vars
      BY <1>1 DEF vars
  <1>2. ASSUME NEW h \in Handlers, ReadRequest(h) PROVE IPosts'
      BY <1>2 DEF ReadRequest
  <1>3. ASSUME NEW h \in Handlers, ReadEOF(h) PROVE IPosts'
      BY <1>3 DEF ReadEOF
  <1>4. ASSUME NEW h \in Handlers, Close(h) PROVE IPosts'
      BY <1>4 DEF Close
  <1>5. ASSUME NEW h \in Handlers, Validate(h) PROVE IPosts'
      BY <1>5 DEF Validate
  <1>6. ASSUME NEW h \in Handlers, CheckLog(h) PROVE IPosts'
      BY <1>6 DEF CheckLog, Find
  <1>7. ASSUME NEW h \in Handlers, CheckCredentials(h) PROVE IPosts'
      BY <1>7 DEF CheckCredentials
  <1>8. ASSUME NEW h \in Handlers, PickSid(h) PROVE IPosts'
      BY <1>8 DEF PickSid
  <1>9. ASSUME NEW h \in Handlers, InsertLogin(h) PROVE IPosts'
      BY <1>9 DEF InsertLogin, InsertRow, Inserts
  <1>10. ASSUME NEW h \in Handlers, LoginReply(h) PROVE IPosts'
      BY <1>10 DEF LoginReply, Sends
  <1>11. ASSUME NEW h \in Handlers, Query(h) PROVE IPosts'
      BY <1>11 DEF Query
  <1>12. ASSUME NEW h \in Handlers, InsertLog(h) PROVE IPosts'
      BY <1>12 DEF InsertLog, InsertRow, Inserts
  <1>13. ASSUME NEW h \in Handlers, ListReply(h) PROVE IPosts'
      BY <1>13 DEF ListReply, Sends
  <1>14. ASSUME NEW h \in Handlers, FindPoster(h) PROVE IPosts'
      BY <1>14 DEF FindPoster, Find
  <1>15. ASSUME NEW h \in Handlers, InsertPost(h) PROVE IPosts'
      BY <1>15 DEF InsertPost, Inserts
  <1>16. ASSUME NEW h \in Handlers, ReadLastId(h) PROVE IPosts'
      BY <1>16 DEF ReadLastId
  <1>17. ASSUME NEW h \in Handlers, InsertNotices(h) PROVE IPosts'
      BY <1>17 DEF InsertNotices, Inserts
  <1>18. ASSUME NEW h \in Handlers, PostReply(h) PROVE IPosts'
      BY <1>18 DEF PostReply, Sends
  <1>18a. ASSUME NEW h \in Handlers, Signal(h) PROVE IPosts'
      BY <1>18a DEF Signal
  <1>19. ASSUME NEW h \in Handlers, FindSession(h) PROVE IPosts'
      BY <1>19 DEF FindSession
  <1>20. ASSUME NEW h \in Handlers, InsertLogout(h) PROVE IPosts'
      BY <1>20 DEF InsertLogout, InsertRow, Inserts
  <1>21. ASSUME NEW h \in Handlers, SessionInvalid(h) PROVE IPosts'
      BY <1>21 DEF SessionInvalid, AfterError, ServerError, GoesTo, ErrorUnchanged
  <1>22. ASSUME NEW h \in Handlers, NoticesRefused(h) PROVE IPosts'
      BY <1>22 DEF NoticesRefused, AfterError, ServerError, GoesTo, ErrorUnchanged
  <1>23. ASSUME NEW h \in Handlers, Throws(h) PROVE IPosts'
      BY <1>23 DEF Throws, AfterError, ServerError, GoesTo, ErrorUnchanged
  <1>24. ASSUME NEW h \in Handlers, ReadFails(h) PROVE IPosts'
      BY <1>24 DEF ReadFails
  <1>25. ASSUME NEW h \in Handlers, Accept(h) PROVE IPosts'
      BY <1>25 DEF Accept
  <1>26. ASSUME NEW h \in Handlers, HangUp(h) PROVE IPosts'
      BY <1>26 DEF HangUp
  <1>27. ASSUME NEW s \in Sids, Expire(s) PROVE IPosts'
      BY <1>27 DEF Expire
  <1>28. CASE AcceptFails
      BY <1>28 DEF AcceptFails
  <1>29. QED
      BY <1>1, <1>2, <1>3, <1>4, <1>5, <1>6, <1>7, <1>8, <1>9, <1>10, <1>11, <1>12, <1>13, <1>14, <1>15, <1>16, <1>17, <1>18, <1>18a, <1>19, <1>20, <1>21, <1>22, <1>23, <1>24, <1>25, <1>26, <1>27, <1>28 DEF Next, Step

\* No step hides an insert from a thread that has not read its key.
LEMMA KeysStep == TypeOK /\ IKeys /\ [Next]_vars => IKeys'
  <1> SUFFICES ASSUME TypeOK, IKeys, [Next]_vars PROVE IKeys'
      OBVIOUS
  <1> USE HandlersAssumption DEF TypeOK, IKeys, tables, request, sockets, clients, history, Goto, OwnPostUnlessDisturbed
  <1>1. CASE UNCHANGED vars
      BY <1>1 DEF vars
  <1>2. ASSUME NEW h \in Handlers, ReadRequest(h) PROVE IKeys'
      BY <1>2 DEF ReadRequest
  <1>3. ASSUME NEW h \in Handlers, ReadEOF(h) PROVE IKeys'
      BY <1>3 DEF ReadEOF
  <1>4. ASSUME NEW h \in Handlers, Close(h) PROVE IKeys'
      BY <1>4 DEF Close
  <1>5. ASSUME NEW h \in Handlers, Validate(h) PROVE IKeys'
      BY <1>5 DEF Validate
  <1>6. ASSUME NEW h \in Handlers, CheckLog(h) PROVE IKeys'
      BY <1>6 DEF CheckLog, Find
  <1>7. ASSUME NEW h \in Handlers, CheckCredentials(h) PROVE IKeys'
      BY <1>7 DEF CheckCredentials
  <1>8. ASSUME NEW h \in Handlers, PickSid(h) PROVE IKeys'
      BY <1>8 DEF PickSid
  <1>9. ASSUME NEW h \in Handlers, InsertLogin(h) PROVE IKeys'
      BY <1>9 DEF InsertLogin, InsertRow, Inserts
  <1>10. ASSUME NEW h \in Handlers, LoginReply(h) PROVE IKeys'
      BY <1>10 DEF LoginReply, Sends
  <1>11. ASSUME NEW h \in Handlers, Query(h) PROVE IKeys'
      BY <1>11 DEF Query
  <1>12. ASSUME NEW h \in Handlers, InsertLog(h) PROVE IKeys'
      BY <1>12 DEF InsertLog, InsertRow, Inserts
  <1>13. ASSUME NEW h \in Handlers, ListReply(h) PROVE IKeys'
      BY <1>13 DEF ListReply, Sends
  <1>14. ASSUME NEW h \in Handlers, FindPoster(h) PROVE IKeys'
      BY <1>14 DEF FindPoster, Find
  <1>15. ASSUME NEW h \in Handlers, InsertPost(h) PROVE IKeys'
    <2>1. CASE /\ posts < MaxPosts
               /\ posts' = posts + 1
               /\ Inserts(h, posts + 1)
               /\ mine' = [mine EXCEPT ![h] = posts + 1]
               /\ Goto(h, "lastId")
      <3>1. lastInsertId' = posts + 1 /\ mine'[h] = posts + 1 /\ posts + 1 > 0
          BY <2>1 DEF Inserts, Keys
      <3>2. \A g \in Handlers \ {h} : pc[g] = "lastId" => g \in disturbed'
          BY <2>1 DEF Inserts
      <3>3. \A g \in Handlers \ {h} : g \in disturbed => g \in disturbed'
          BY <2>1 DEF Inserts
      <3>4. \A g \in Handlers \ {h} : pc'[g] = pc[g] /\ mine'[g] = mine[g]
          BY <2>1
      <3>5. pc'[h] = "lastId" /\ postId' = postId
          BY <1>15, <2>1 DEF InsertPost
      <3>6. QED
          BY <3>1, <3>2, <3>3, <3>4, <3>5
    <2>2. CASE pc' = [pc EXCEPT ![h] = "reply"] /\ UNCHANGED <<lastInsertId, mine, disturbed, postId>>
        BY <2>2
    <2>3. QED
        BY <1>15, <2>1, <2>2 DEF InsertPost
  <1>16. ASSUME NEW h \in Handlers, ReadLastId(h) PROVE IKeys'
      BY <1>16 DEF ReadLastId
  <1>17. ASSUME NEW h \in Handlers, InsertNotices(h) PROVE IKeys'
      BY <1>17 DEF InsertNotices, Inserts
  <1>18. ASSUME NEW h \in Handlers, PostReply(h) PROVE IKeys'
      BY <1>18 DEF PostReply, Sends
  <1>18a. ASSUME NEW h \in Handlers, Signal(h) PROVE IKeys'
      BY <1>18a DEF Signal
  <1>19. ASSUME NEW h \in Handlers, FindSession(h) PROVE IKeys'
      BY <1>19 DEF FindSession
  <1>20. ASSUME NEW h \in Handlers, InsertLogout(h) PROVE IKeys'
      BY <1>20 DEF InsertLogout, InsertRow, Inserts
  <1>21. ASSUME NEW h \in Handlers, SessionInvalid(h) PROVE IKeys'
      BY <1>21 DEF SessionInvalid, AfterError, ServerError, GoesTo, ErrorUnchanged
  <1>22. ASSUME NEW h \in Handlers, NoticesRefused(h) PROVE IKeys'
      BY <1>22 DEF NoticesRefused, AfterError, ServerError, GoesTo, ErrorUnchanged
  <1>23. ASSUME NEW h \in Handlers, Throws(h) PROVE IKeys'
      BY <1>23 DEF Throws, AfterError, ServerError, GoesTo, ErrorUnchanged
  <1>24. ASSUME NEW h \in Handlers, ReadFails(h) PROVE IKeys'
      BY <1>24 DEF ReadFails
  <1>25. ASSUME NEW h \in Handlers, Accept(h) PROVE IKeys'
      BY <1>25 DEF Accept
  <1>26. ASSUME NEW h \in Handlers, HangUp(h) PROVE IKeys'
      BY <1>26 DEF HangUp
  <1>27. ASSUME NEW s \in Sids, Expire(s) PROVE IKeys'
      BY <1>27 DEF Expire
  <1>28. CASE AcceptFails
      BY <1>28 DEF AcceptFails
  <1>29. QED
      BY <1>1, <1>2, <1>3, <1>4, <1>5, <1>6, <1>7, <1>8, <1>9, <1>10, <1>11, <1>12, <1>13, <1>14, <1>15, <1>16, <1>17, <1>18, <1>18a, <1>19, <1>20, <1>21, <1>22, <1>23, <1>24, <1>25, <1>26, <1>27, <1>28 DEF Next, Step

-----------------------------------------------------------------------------
(* The invariant, and what follows from it.                                *)

\* Initially the invariant holds.
LEMMA InitInv == Init => IInv
  <1> SUFFICES ASSUME Init PROVE IInv
      OBVIOUS
  <1>1. TypeOK
      BY InitTyped
  <1>2. ISockets
      BY HandlersAssumption DEF Init, ISockets, SocketsExclusive, LeaksOnlyAtEOF, Serving
  <1>3. ILog
      BY DEF Init, ILog, RowsFromLogins
  <1>4. IPosts
      BY DEF Init, IPosts, SuccessesDistinct, Notified
  <1>5. IKeys
      BY DEF Init, IKeys, OwnPostUnlessDisturbed
  <1>6. QED
      BY <1>1, <1>2, <1>3, <1>4, <1>5 DEF IInv

\* The inductive invariant holds in every reachable state.
THEOREM InvariantHolds == Spec => []IInv
  <1>1. Init => IInv
      BY InitInv
  <1>2. IInv /\ [Next]_vars => IInv'
      BY TypeStep, SocketsStep, LogStep, PostsStep, KeysStep DEF IInv
  <1>3. QED
      BY <1>1, <1>2, PTL DEF Spec

\* Every variable keeps its type.
THEOREM TypeCorrect == Spec => []TypeOK
  <1>1. IInv => TypeOK
      BY DEF IInv
  <1>2. QED
      BY <1>1, InvariantHolds, PTL

\* However descriptors are closed and given out again, a handler at work owns
\* the one it serves: no connection is written to or closed by another's
\* handler.
THEOREM SocketsExclusiveHolds == Spec => []SocketsExclusive
  <1>1. IInv => SocketsExclusive
      BY DEF IInv, ISockets
  <1>2. QED
      BY <1>1, InvariantHolds, PTL

\* A descriptor outlives its handler only when the logout at the end of its
\* connection failed.
THEOREM LeaksOnlyAtEOFHolds == Spec => []LeaksOnlyAtEOF
  <1>1. IInv => LeaksOnlyAtEOF
      BY DEF IInv, ISockets
  <1>2. QED
      BY <1>1, InvariantHolds, PTL

\* The user and the socket of a session's row are those of one login.
THEOREM RowsFromLoginsHolds == Spec => []RowsFromLogins
  <1>1. IInv => RowsFromLogins
      BY DEF IInv, ILog
  <1>2. QED
      BY <1>1, InvariantHolds, PTL

\* Posts that succeeded have notified different posts, even if not their own.
THEOREM SuccessesDistinctHolds == Spec => []SuccessesDistinct
  <1>1. IInv => SuccessesDistinct
      BY DEF IInv, IPosts
  <1>2. QED
      BY <1>1, InvariantHolds, PTL

\* A post whose insert and key no other insert came between notifies its own.
THEOREM OwnPostUnlessDisturbedHolds == Spec => []OwnPostUnlessDisturbed
  <1>1. IInv => OwnPostUnlessDisturbed
      BY DEF IInv, IKeys
  <1>2. QED
      BY <1>1, InvariantHolds, PTL

-----------------------------------------------------------------------------
(* A session that is over.                                                 *)

InsertSteps == {"insertLogin", "insertLog"}

\* A session stays over while its latest row stays and nobody new comes
\* between a check of it and an insert.
LEMMA StaysOver ==
    ASSUME NEW s \in Sids, Over(s), latest'[s] = latest[s],
           \A h \in Handlers : pc'[h] \in InsertSteps /\ sid'[h] = s =>
               pc[h] \in InsertSteps /\ sid[h] = s
    PROVE  Over(s)'
  <1>1. ~ Valid(s)'
      BY DEF Over, Valid
  <1>2. Stragglers(s)' = {}
      BY DEF Over, Stragglers, InsertSteps
  <1>3. QED
      BY <1>1, <1>2 DEF Over

\* The one handler that moves cannot be a straggler of the session.
LEMMA MoveStaysOver ==
    ASSUME TypeOK, NEW s \in Sids, Over(s), NEW h \in Handlers, NEW step,
           Goto(h, step), latest'[s] = latest[s],
           \A g \in Handlers \ {h} : sid'[g] = sid[g],
           step \in InsertSteps => sid'[h] # s
    PROVE  Over(s)'
  <1>1. ASSUME NEW g \in Handlers, pc'[g] \in InsertSteps, sid'[g] = s
        PROVE  pc[g] \in InsertSteps /\ sid[g] = s
    <2>1. g # h
        BY <1>1 DEF Goto, TypeOK
    <2>2. pc'[g] = pc[g] /\ sid'[g] = sid[g]
        BY <2>1 DEF Goto, TypeOK
    <2>3. QED
        BY <1>1, <2>2
  <1>2. QED
      BY <1>1, StaysOver

\* A row inserted is not of a session that is over, for who inserts it is a
\* straggler of his.
LEMMA InsertStaysOver ==
    ASSUME TypeOK, NEW s \in Sids, Over(s), NEW h \in Handlers, NEW step,
           pc[h] \in InsertSteps, \A t \in Sids \ {sid[h]} : latest'[t] = latest[t],
           Goto(h, step), step \notin InsertSteps, UNCHANGED sid
    PROVE  Over(s)'
  <1>1. sid[h] # s
      BY DEF Over, Stragglers, InsertSteps
  <1>2. QED
      BY <1>1, MoveStaysOver

\* No step of any thread revives a session that is over.
LEMMA OverStep ==
    ASSUME TypeOK, [Next]_vars, NEW s \in Sids, Over(s)
    PROVE  Over(s)'
  <1> USE DEF tables, request, sockets, clients, history, InsertSteps
  <1>1. CASE UNCHANGED vars
      BY <1>1, StaysOver DEF vars
  <1>2. ASSUME NEW h \in Handlers,
               \/ ReadRequest(h) \/ ReadEOF(h) \/ Close(h) \/ Validate(h) \/ CheckCredentials(h)
               \/ LoginReply(h) \/ Signal(h) \/ Query(h) \/ ListReply(h) \/ FindPoster(h) \/ InsertPost(h)
               \/ ReadLastId(h) \/ InsertNotices(h) \/ PostReply(h) \/ FindSession(h)
               \/ ReadFails(h) \/ Accept(h)
        PROVE  Over(s)'
    <2>1. PICK step : Goto(h, step) /\ step \notin InsertSteps
        BY <1>2 DEF ReadRequest, ReadEOF, Close, Validate, CheckCredentials, LoginReply, Signal, Query,
                    ListReply, FindPoster, InsertPost, ReadLastId, InsertNotices, PostReply,
                    FindSession, ReadFails, Accept
    <2>2. latest'[s] = latest[s] /\ \A g \in Handlers \ {h} : sid'[g] = sid[g]
        BY <1>2 DEF ReadRequest, ReadEOF, Close, Validate, CheckCredentials, LoginReply, Signal, Query,
                    ListReply, FindPoster, InsertPost, ReadLastId, InsertNotices, PostReply,
                    FindSession, ReadFails, Accept, TypeOK
    <2>3. QED
        BY <2>1, <2>2, MoveStaysOver
  <1>3. ASSUME NEW h \in Handlers, CheckLog(h) PROVE Over(s)'
    <2>1. sid[h] # s
        BY <1>3 DEF CheckLog, Find, Over
    <2>2. QED
        BY <1>3, <2>1, MoveStaysOver DEF CheckLog
  <1>4. ASSUME NEW h \in Handlers, PickSid(h) PROVE Over(s)'
    <2>1. PICK t \in Sids : latest[t] = {} /\ sid' = [sid EXCEPT ![h] = t]
        BY <1>4 DEF PickSid
    <2>2. sid'[h] # s /\ \A g \in Handlers \ {h} : sid'[g] = sid[g]
        BY <2>1 DEF Over, TypeOK
    <2>3. QED
        BY <1>4, <2>2, MoveStaysOver DEF PickSid
  <1>5. ASSUME NEW h \in Handlers, InsertLogin(h) \/ InsertLog(h) \/ InsertLogout(h)
        PROVE  Over(s)'
    <2>1. pc[h] \in InsertSteps /\ UNCHANGED sid
        BY <1>5 DEF InsertLogin, InsertLog, InsertLogout
    <2>2. \A t \in Sids \ {sid[h]} : latest'[t] = latest[t]
        BY <1>5 DEF InsertLogin, InsertLog, InsertLogout, InsertRow, TypeOK
    <2>3. PICK step \in {"signal", "reply", "close"} : Goto(h, step)
        BY <1>5 DEF InsertLogin, InsertLog, InsertLogout
    <2>4. step \notin InsertSteps
        OBVIOUS
    <2>5. QED
        BY <2>1, <2>2, <2>3, <2>4, InsertStaysOver
  <1>6. ASSUME NEW h \in Handlers, SessionInvalid(h) \/ NoticesRefused(h) \/ Throws(h)
        PROVE  Over(s)'
    <2>1. AfterError(h) /\ ErrorUnchanged
        BY <1>6 DEF SessionInvalid, NoticesRefused, Throws
    <2>2. PICK step : Goto(h, step) /\ step \notin InsertSteps
        BY <2>1 DEF AfterError, ServerError, GoesTo
    <2>3. QED
        BY <2>1, <2>2, MoveStaysOver DEF ErrorUnchanged
  <1>7. ASSUME NEW h \in Handlers, HangUp(h) PROVE Over(s)'
      BY <1>7, StaysOver DEF HangUp
  <1>8. CASE AcceptFails
      BY <1>8, StaysOver DEF AcceptFails
  <1>9. ASSUME NEW t \in Sids, Expire(t) PROVE Over(s)'
    <2>1. CASE t # s
        BY <1>9, <2>1, StaysOver DEF Expire, TypeOK
    <2>2. CASE t = s
      <3>1. PICK r \in latest[s] : latest' = [latest EXCEPT ![s] = {[r EXCEPT !.fresh = FALSE]}]
          BY <1>9, <2>2 DEF Expire
      <3>2. latest'[s] = {[r EXCEPT !.fresh = FALSE]} /\ r \in Row
          BY <3>1 DEF TypeOK
      <3>3. latest'[s] # {} /\ \A q \in latest'[s] : ~ q.fresh
          BY <3>2 DEF Row
      <3>4. Stragglers(s)' = {}
          BY <1>9 DEF Expire, Over, Stragglers
      <3>5. QED
          BY <3>3, <3>4 DEF Over, Valid
    <2>3. QED
        BY <2>1, <2>2
  <1>10. QED
      BY <1>1, <1>2, <1>3, <1>4, <1>5, <1>6, <1>7, <1>8, <1>9 DEF Next, Step

\* A session that has ended, without anybody between a check and an insert, is
\* over for good: what logout in mysql_lib.cpp 423-455 can promise.
THEOREM OverForGoodHolds == Spec => OverForGood
  <1>1. TypeOK /\ [Next]_vars => [\A s \in Sids : Over(s) => Over(s)']_vars
      BY OverStep
  <1>2. QED
      BY <1>1, TypeCorrect, PTL DEF Spec, OverForGood

-----------------------------------------------------------------------------
(* The contract of the sessions.                                           *)

\* The other handlers have the permits they had.
OthersStay(h) ==
    \A g \in Handlers \ {h} :
        pc'[g] = pc[g] /\ sid'[g] = sid[g] /\ row'[g] = row[g] /\ task'[g] = task[g]

\* A permit belongs to its handler, and stays with it when others move.
LEMMA PermitStays ==
    ASSUME NEW h \in Handlers, OthersStay(h), NEW g \in Handlers, g # h
    PROVE  (g \in Permitted' <=> g \in Permitted) /\ PermitOf(g)' = PermitOf(g)
  <1>1. pc'[g] = pc[g] /\ sid'[g] = sid[g] /\ row'[g] = row[g] /\ task'[g] = task[g]
      BY DEF OthersStay
  <1>2. g \in Permitted' <=> g \in Permitted
      BY <1>1 DEF Permitted
  <1>3. PermitOf(g)' = PermitOf(g)
      BY <1>1 DEF PermitOf
  <1>4. QED
      BY <1>2, <1>3

\* The client of a permit is the handler that has it.
LEMMA PermitClient == \A g \in Handlers : PermitOf(g).client = g
  BY DEF PermitOf

\* A handler that comes to an insert has got a permit, its only one.
LEMMA GetsPermit ==
    ASSUME NEW h \in Handlers, OthersStay(h), h \notin Permitted, h \in Permitted'
    PROVE  /\ Permits' = Permits \cup {PermitOf(h)'}
           /\ \A q \in Permits : q.client # h
  <1>1. \A g \in Handlers \ {h} : (g \in Permitted' <=> g \in Permitted) /\ PermitOf(g)' = PermitOf(g)
      BY PermitStays
  <1>2. Permitted \subseteq Handlers /\ Permitted' \subseteq Handlers
      BY DEF Permitted
  <1>3. Permits' = Permits \cup {PermitOf(h)'}
      BY <1>1, <1>2 DEF Permits
  <1>4. \A q \in Permits : q.client # h
      BY <1>2, PermitClient DEF Permits
  <1>5. QED
      BY <1>3, <1>4

\* A handler that leaves an insert has lost its permit.
LEMMA UsesPermit ==
    ASSUME NEW h \in Handlers, OthersStay(h), h \in Permitted, h \notin Permitted'
    PROVE  PermitOf(h) \in Permits /\ Permits' = Permits \ {PermitOf(h)}
  <1>1. \A g \in Handlers \ {h} : (g \in Permitted' <=> g \in Permitted) /\ PermitOf(g)' = PermitOf(g)
      BY PermitStays
  <1>2. Permitted \subseteq Handlers /\ Permitted' \subseteq Handlers
      BY DEF Permitted
  <1>3. \A g \in Handlers \ {h} : PermitOf(g) # PermitOf(h)
      BY PermitClient
  <1>4. PermitOf(h) \in Permits
      BY DEF Permits
  <1>5. ASSUME NEW q \in Permits' PROVE q \in Permits \ {PermitOf(h)}
    <2>1. PICK g \in Permitted' : q = PermitOf(g)'
        BY <1>5 DEF Permits
    <2>2. g \in Handlers \ {h}
        BY <1>2, <2>1
    <2>3. QED
        BY <1>1, <1>3, <2>1, <2>2 DEF Permits
  <1>6. ASSUME NEW q \in Permits, q # PermitOf(h) PROVE q \in Permits'
    <2>1. PICK g \in Permitted : q = PermitOf(g)
        BY <1>6 DEF Permits
    <2>2. g \in Handlers \ {h}
        BY <1>2, <1>6, <2>1
    <2>3. g \in Permitted' /\ q = PermitOf(g)'
        BY <1>1, <2>1, <2>2
    <2>4. QED
        BY <2>3 DEF Permits
  <1>7. QED
      BY <1>4, <1>5, <1>6

\* A handler that does not come to an insert, and does nothing else to the
\* tables, may have lost its permit, and that is all.
LEMMA ForgetsPermit ==
    ASSUME NEW h \in Handlers, OthersStay(h), h \notin Permitted', UNCHANGED <<latest, posts>>
    PROVE  Contract!Forget
  <1>1. \A g \in Handlers \ {h} : (g \in Permitted' <=> g \in Permitted) /\ PermitOf(g)' = PermitOf(g)
      BY PermitStays
  <1>2. Permitted' \subseteq Handlers
      BY DEF Permitted
  <1>3. Permits' \subseteq Permits
    <2>1. ASSUME NEW q \in Permits' PROVE q \in Permits
      <3>1. PICK g \in Permitted' : q = PermitOf(g)'
          BY <2>1 DEF Permits
      <3>2. g \in Handlers \ {h}
          BY <1>2, <3>1
      <3>3. g \in Permitted /\ q = PermitOf(g)
          BY <1>1, <3>1, <3>2
      <3>4. QED
          BY <3>3 DEF Permits
    <2>2. QED
        BY <2>1
  <1>4. SessionLog' = SessionLog
      BY DEF SessionLog
  <1>5. QED
      BY <1>3, <1>4 DEF Contract!Forget

\* A check of a live session, or the drawing of an unused number, allows.
LEMMA CheckAllows ==
    ASSUME TypeOK', NEW h \in Handlers, OthersStay(h), h \notin Permitted, h \in Permitted',
           UNCHANGED <<latest, posts>>, sid'[h] \in Sids,
           \/ (pc'[h] = "insertLogin") /\ latest[sid'[h]] = {}
           \/ \E r \in latest[sid'[h]] : ~ r.out /\ r.fresh /\ row'[h].user = r.user
    PROVE  \E p \in Contract!Permit : Contract!Allow(p)
  <1> DEFINE p == PermitOf(h)'
  <1>1. Permits' = Permits \cup {p} /\ \A q \in Permits : q.client # h
      BY GetsPermit
  <1>2. row'[h].user \in Users
      BY DEF TypeOK, Login
  <1>3. p.client = h /\ p.session = sid'[h] /\ p.user = row'[h].user
      BY DEF PermitOf
  <1>4. p \in Contract!Permit
      BY <1>2 DEF PermitOf, Contract!Permit
  <1>5. SessionLog' = SessionLog
      BY DEF SessionLog
  <1>6. \/ p.act = "enter" /\ SessionLog[p.session] = {}
        \/ Contract!Entry(p.user, TRUE) \in SessionLog[p.session]
    <2>1. CASE (pc'[h] = "insertLogin") /\ latest[sid'[h]] = {}
      <3>1. p.act = "enter"
          BY <2>1 DEF PermitOf
      <3>2. SessionLog[sid'[h]] = {}
          BY <2>1 DEF SessionLog
      <3>3. QED
          BY <1>3, <3>1, <3>2
    <2>2. CASE \E r \in latest[sid'[h]] : ~ r.out /\ r.fresh /\ row'[h].user = r.user
      <3>1. PICK r \in latest[sid'[h]] : ~ r.out /\ r.fresh /\ row'[h].user = r.user
          BY <2>2
      <3>2. EntryOf(r) = Contract!Entry(row'[h].user, TRUE)
          BY <3>1 DEF EntryOf, Contract!Entry
      <3>3. EntryOf(r) \in SessionLog[sid'[h]]
          BY <3>1 DEF SessionLog
      <3>4. QED
          BY <1>3, <3>2, <3>3
    <2>3. QED
        BY <2>1, <2>2
  <1> HIDE DEF p
  <1>7. Contract!Allow(p)
      BY <1>1, <1>3, <1>5, <1>6 DEF Contract!Allow
  <1>8. QED
      BY <1>4, <1>7

\* What a query has found is a row that is live.
LEMMA FindsLive ==
    ASSUME TypeOK, NEW h \in Handlers, Find(h)
    PROVE  /\ sid[h] \in Sids
           /\ \E r \in latest[sid[h]] : ~ r.out /\ r.fresh /\ row'[h].user = r.user
           /\ \A g \in Handlers \ {h} : row'[g] = row[g]
  <1>1. PICK r \in latest[sid[h]] : row' = [row EXCEPT ![h] = [user |-> r.user, sock |-> r.sock]]
      BY DEF Find
  <1>2. sid[h] \in Sids /\ ~ r.out /\ r.fresh
      BY DEF Find, Valid, TypeOK
  <1>3. row'[h].user = r.user /\ \A g \in Handlers \ {h} : row'[g] = row[g]
      BY <1>1 DEF TypeOK
  <1>4. QED
      BY <1>2, <1>3

\* The insert of a row uses the permit of the handler that inserts it.
LEMMA InsertEnters ==
    ASSUME TypeOK, NEW h \in Handlers, OthersStay(h), h \in Permitted, h \notin Permitted',
           NEW out \in BOOLEAN, InsertRow(h, sid[h], row[h], out), UNCHANGED posts,
           PermitOf(h).act = IF out THEN "leave" ELSE "enter"
    PROVE  \E p \in Permits : Contract!Enter(p)
  <1> DEFINE p == PermitOf(h)
             new == [user |-> row[h].user, sock |-> row[h].sock, out |-> out, fresh |-> TRUE]
  <1>1. p \in Permits /\ Permits' = Permits \ {p}
      BY UsesPermit
  <1>2. p.session = sid[h] /\ p.user = row[h].user
      BY DEF PermitOf
  <1>3. EntryOf(new) = Contract!Entry(p.user, p.act = "enter")
      BY <1>2 DEF EntryOf, Contract!Entry
  <1>4. latest' = [latest EXCEPT ![sid[h]] = {new}]
      BY DEF InsertRow
  <1> HIDE DEF p, new
  <1>5. SessionLog' = [SessionLog EXCEPT ![sid[h]] = {EntryOf(new)}]
    <2>1. \A s \in Sids : latest'[s] = IF s = sid[h] THEN {new} ELSE latest[s]
        BY <1>4 DEF TypeOK
    <2>2. \A s \in Sids : SessionLog'[s] = IF s = sid[h] THEN {EntryOf(new)} ELSE SessionLog[s]
        BY <2>1 DEF SessionLog
    <2>3. SessionLog' = [s \in Sids |-> SessionLog'[s]] /\ SessionLog = [s \in Sids |-> SessionLog[s]]
        BY DEF SessionLog
    <2>4. QED
        BY <2>2, <2>3
  <1>6. p.act \in {"enter", "leave"}
      BY DEF p
  <1>7. Contract!Enter(p)
      BY <1>1, <1>2, <1>3, <1>5, <1>6 DEF Contract!Enter
  <1>8. QED
      BY <1>1, <1>7

\* A row that grows old ends a session, if it was live.
LEMMA ExpireLapses ==
    ASSUME TypeOK, NEW s \in Sids, Expire(s)
    PROVE  Contract!Lapse(s) \/ UNCHANGED <<SessionLog, Permits, posts>>
  <1>1. PICK r \in latest[s] : r.fresh /\ latest' = [latest EXCEPT ![s] = {[r EXCEPT !.fresh = FALSE]}]
      BY DEF Expire
  <1> DEFINE old == [r EXCEPT !.fresh = FALSE]
  <1>2. r \in Row /\ latest[s] = {r}
      BY DEF TypeOK
  <1>3. EntryOf(old) = Contract!Entry(r.user, FALSE)
      BY <1>2 DEF EntryOf, Contract!Entry, Row
  <1> HIDE DEF old
  <1>4. SessionLog' = [SessionLog EXCEPT ![s] = {Contract!Entry(r.user, FALSE)}]
    <2>1. \A z \in Sids : latest'[z] = IF z = s THEN {old} ELSE latest[z]
        BY <1>1 DEF TypeOK, old
    <2>2. \A z \in Sids : SessionLog'[z] = IF z = s THEN {EntryOf(old)} ELSE SessionLog[z]
        BY <2>1 DEF SessionLog
    <2>3. SessionLog' = [z \in Sids |-> SessionLog'[z]] /\ SessionLog = [z \in Sids |-> SessionLog[z]]
        BY DEF SessionLog
    <2>4. QED
        BY <1>3, <2>2, <2>3
  <1>5. SessionLog[s] = {EntryOf(r)}
      BY <1>2 DEF SessionLog
  <1>6. Permits' = Permits /\ UNCHANGED posts
      BY DEF Expire, Permits, Permitted, PermitOf, request
  <1>7. CASE r.out
    <2>1. EntryOf(r) = Contract!Entry(r.user, FALSE)
        BY <1>7 DEF EntryOf, Contract!Entry
    <2>2. SessionLog' = SessionLog
        BY <1>4, <1>5, <2>1 DEF SessionLog
    <2>3. QED
        BY <1>6, <2>2
  <1>8. CASE ~ r.out
    <2>1. EntryOf(r) = Contract!Entry(r.user, TRUE)
        BY <1>1, <1>8 DEF EntryOf, Contract!Entry
    <2>2. r.user \in Users
        BY <1>2 DEF Row
    <2>3. Contract!Lapse(s)
        BY <1>4, <1>5, <1>6, <2>1, <2>2 DEF Contract!Lapse
    <2>4. QED
        BY <2>3
  <1>9. QED
      BY <1>2, <1>7, <1>8

\* Initially no session exists and nobody may do anything.
LEMMA InitContract == Init => Contract!SessionsInit
  <1> SUFFICES ASSUME Init PROVE Contract!SessionsInit
      OBVIOUS
  <1>1. SessionLog = [s \in Sids |-> {}]
      BY DEF Init, SessionLog
  <1>2. Permits = {}
      BY DEF Init, Permits, Permitted
  <1>3. QED
      BY <1>1, <1>2 DEF Init, Contract!SessionsInit

\* Each statement is a step of the contract, or none.
LEMMA StepContract ==
    TypeOK /\ TypeOK' /\ [Next]_vars => [Contract!SessionsNext]_(Contract!sessionVars)
  <1> SUFFICES ASSUME TypeOK, TypeOK', [Next]_vars
               PROVE  [Contract!SessionsNext]_(Contract!sessionVars)
      OBVIOUS
  <1> USE DEF tables, request, sockets, clients, history
  <1>1. CASE UNCHANGED vars
    <2>1. UNCHANGED <<SessionLog, Permits, posts>>
        BY <1>1 DEF vars, SessionLog, Permits, Permitted, PermitOf
    <2>2. QED
        BY <2>1 DEF Contract!sessionVars
  <1>2. ASSUME NEW h \in Handlers,
               \/ ReadRequest(h) \/ ReadEOF(h) \/ Close(h) \/ Validate(h) \/ CheckCredentials(h)
               \/ LoginReply(h) \/ Signal(h) \/ Query(h) \/ ListReply(h)
               \/ ReadLastId(h) \/ InsertNotices(h) \/ PostReply(h) \/ FindSession(h)
               \/ ReadFails(h) \/ Accept(h)
        PROVE  Contract!SessionsNext
    <2>1. PICK step : Goto(h, step) /\ step \notin {"insertLogin", "insertLog", "insertPost"}
        BY <1>2 DEF ReadRequest, ReadEOF, Close, Validate, CheckCredentials, LoginReply, Signal, Query,
                    ListReply, ReadLastId, InsertNotices, PostReply, FindSession, ReadFails, Accept
    <2>2. h \notin Permitted'
        BY <2>1 DEF Goto, Permitted, TypeOK
    <2>3. UNCHANGED <<latest, posts>>
        BY <1>2 DEF ReadRequest, ReadEOF, Close, Validate, CheckCredentials, LoginReply, Signal, Query,
                    ListReply, ReadLastId, InsertNotices, PostReply, FindSession, ReadFails, Accept
    <2>4. \A g \in Handlers \ {h} : pc'[g] = pc[g]
        BY <2>1 DEF Goto, TypeOK
    <2>5. \A g \in Handlers \ {h} : sid'[g] = sid[g] /\ row'[g] = row[g]
        BY <1>2 DEF ReadRequest, ReadEOF, Close, Validate, CheckCredentials, LoginReply, Signal, Query,
                    ListReply, ReadLastId, InsertNotices, PostReply, FindSession, ReadFails, Accept,
                    TypeOK
    <2>6. \A g \in Handlers \ {h} : task'[g] = task[g]
        BY <1>2 DEF ReadRequest, ReadEOF, Close, Validate, CheckCredentials, LoginReply, Signal, Query,
                    ListReply, ReadLastId, InsertNotices, PostReply, FindSession, ReadFails, Accept,
                    TypeOK
    <2>7. OthersStay(h)
        BY <2>4, <2>5, <2>6 DEF OthersStay
    <2>8. QED
        BY <2>2, <2>3, <2>7, ForgetsPermit DEF Contract!SessionsNext
  <1>3. ASSUME NEW h \in Handlers, SessionInvalid(h) \/ NoticesRefused(h) \/ Throws(h)
        PROVE  Contract!SessionsNext
    <2>1. AfterError(h) /\ ErrorUnchanged
        BY <1>3 DEF SessionInvalid, NoticesRefused, Throws
    <2>2. PICK step : Goto(h, step) /\ step \notin {"insertLogin", "insertLog", "insertPost"}
        BY <2>1 DEF AfterError, ServerError, GoesTo
    <2>3. h \notin Permitted' /\ UNCHANGED <<latest, posts>>
        BY <2>1, <2>2 DEF Goto, Permitted, TypeOK, ErrorUnchanged
    <2>4. OthersStay(h)
        BY <2>1, <2>2 DEF Goto, TypeOK, ErrorUnchanged, OthersStay
    <2>5. QED
        BY <2>3, <2>4, ForgetsPermit DEF Contract!SessionsNext
  <1>4. ASSUME NEW h \in Handlers, CheckLog(h) \/ FindPoster(h) PROVE Contract!SessionsNext
    <2>1. PICK step \in {"insertLog", "insertPost"} : Goto(h, step)
        BY <1>4 DEF CheckLog, FindPoster
    <2>2. pc[h] \in {"checkLog", "findPoster"} /\ Find(h) /\ UNCHANGED <<latest, posts, sid, task>>
        BY <1>4 DEF CheckLog, FindPoster
    <2>3. /\ sid[h] \in Sids
          /\ \E r \in latest[sid[h]] : ~ r.out /\ r.fresh /\ row'[h].user = r.user
          /\ \A g \in Handlers \ {h} : row'[g] = row[g]
        BY <2>2, FindsLive
    <2>4. h \notin Permitted /\ h \in Permitted'
        BY <2>1, <2>2 DEF Goto, Permitted, TypeOK
    <2>5. OthersStay(h)
        BY <2>1, <2>2, <2>3 DEF Goto, TypeOK, OthersStay
    <2>6. \E p \in Contract!Permit : Contract!Allow(p)
        BY <2>2, <2>3, <2>4, <2>5, CheckAllows
    <2>7. QED
        BY <2>6 DEF Contract!SessionsNext
  <1>5. ASSUME NEW h \in Handlers, PickSid(h) PROVE Contract!SessionsNext
    <2>1. PICK s \in Sids : latest[s] = {} /\ sid' = [sid EXCEPT ![h] = s]
        BY <1>5 DEF PickSid
    <2>2. sid'[h] = s /\ pc'[h] = "insertLogin" /\ pc[h] = "pick"
        BY <1>5, <2>1 DEF PickSid, Goto, TypeOK
    <2>3. h \notin Permitted /\ h \in Permitted' /\ UNCHANGED <<latest, posts>>
        BY <1>5, <2>2 DEF PickSid, Permitted
    <2>4. OthersStay(h)
        BY <1>5, <2>1 DEF PickSid, Goto, TypeOK, OthersStay
    <2>5. \E p \in Contract!Permit : Contract!Allow(p)
        BY <2>1, <2>2, <2>3, <2>4, CheckAllows
    <2>6. QED
        BY <2>5 DEF Contract!SessionsNext
  <1>6. ASSUME NEW h \in Handlers, InsertLogin(h) \/ InsertLog(h) \/ InsertLogout(h)
        PROVE  Contract!SessionsNext
    <2>1. PICK step \in {"signal", "reply", "close"} : Goto(h, step)
        BY <1>6 DEF InsertLogin, InsertLog, InsertLogout
    <2>2. pc[h] \in {"insertLogin", "insertLog"} /\ UNCHANGED <<posts, sid, row, task>>
        BY <1>6 DEF InsertLogin, InsertLog, InsertLogout
    <2>3. PICK out \in BOOLEAN : /\ InsertRow(h, sid[h], row[h], out)
                                 /\ PermitOf(h).act = IF out THEN "leave" ELSE "enter"
        BY <1>6 DEF InsertLogin, InsertLog, InsertLogout, PermitOf, Logouts
    <2>4. h \in Permitted /\ h \notin Permitted'
        BY <2>1, <2>2 DEF Goto, Permitted, TypeOK
    <2>5. OthersStay(h)
        BY <2>1, <2>2 DEF Goto, TypeOK, OthersStay
    <2>6. \E p \in Permits : Contract!Enter(p)
        BY <2>2, <2>3, <2>4, <2>5, InsertEnters
    <2>7. QED
        BY <2>6 DEF Contract!SessionsNext
  <1>7. ASSUME NEW h \in Handlers, InsertPost(h) PROVE Contract!SessionsNext
    <2>1. PICK step \in {"lastId", "reply"} : Goto(h, step)
        BY <1>7 DEF InsertPost
    <2>2. pc[h] = "insertPost" /\ UNCHANGED <<latest, sid, row, task>>
        BY <1>7 DEF InsertPost
    <2>3. h \in Permitted /\ h \notin Permitted'
        BY <2>1, <2>2 DEF Goto, Permitted, TypeOK
    <2>4. OthersStay(h)
        BY <2>1, <2>2 DEF Goto, TypeOK, OthersStay
    <2>5. CASE posts' = posts
        BY <2>2, <2>3, <2>4, <2>5, ForgetsPermit DEF Contract!SessionsNext
    <2>6. CASE posts' = posts + 1
      <3>1. PermitOf(h) \in Permits /\ Permits' = Permits \ {PermitOf(h)}
          BY <2>3, <2>4, UsesPermit
      <3>2. PermitOf(h).act = "post"
          BY <2>2 DEF PermitOf
      <3>3. SessionLog' = SessionLog
          BY <2>2 DEF SessionLog
      <3>4. Contract!Post(PermitOf(h))
          BY <2>6, <3>1, <3>2, <3>3 DEF Contract!Post
      <3>5. QED
          BY <3>1, <3>4 DEF Contract!SessionsNext
    <2>7. QED
        BY <1>7, <2>5, <2>6 DEF InsertPost
  <1>8. ASSUME NEW h \in Handlers, HangUp(h) PROVE UNCHANGED Contract!sessionVars
    <2>1. UNCHANGED <<SessionLog, Permits, posts>>
        BY <1>8 DEF HangUp, SessionLog, Permits, Permitted, PermitOf
    <2>2. QED
        BY <2>1 DEF Contract!sessionVars
  <1>9. CASE AcceptFails
    <2>1. Permits' = {}
        BY <1>9 DEF AcceptFails, Permits, Permitted
    <2>2. SessionLog' = SessionLog /\ posts' = posts
        BY <1>9 DEF AcceptFails, SessionLog
    <2>3. QED
        BY <2>1, <2>2 DEF Contract!Forget, Contract!SessionsNext
  <1>10. ASSUME NEW s \in Sids, Expire(s)
         PROVE  [Contract!SessionsNext]_(Contract!sessionVars)
    <2>1. Contract!Lapse(s) \/ UNCHANGED <<SessionLog, Permits, posts>>
        BY <1>10, ExpireLapses
    <2>2. QED
        BY <2>1 DEF Contract!SessionsNext, Contract!sessionVars
  <1>11. QED
      BY <1>1, <1>2, <1>3, <1>4, <1>5, <1>6, <1>7, <1>8, <1>9, <1>10 DEF Next, Step

\* The statements of the threads, in any order and with any failures, keep the
\* contract: each row of the log and each post is from a check of its session
\* that found it live, or from the drawing of an unused number.
THEOREM SessionsImplemented == Spec => ImplementsSessions
  <1>1. TypeOK /\ TypeOK' /\ [Next]_vars => [Contract!SessionsNext]_(Contract!sessionVars)
      BY StepContract
  <1>2. QED
      BY <1>1, InitContract, TypeCorrect, PTL DEF Spec, ImplementsSessions, Contract!SessionsSpec
=============================================================================
