------------------------- MODULE NotifyHandoffProofs -------------------------
(***************************************************************************)
(* Theorems about NotifyHandoff, for every set of client threads and users *)
(* and every bound on jobs and errors.                                     *)
(*                                                                         *)
(* IInv is the inductive invariant.  Next to the invariants the runs check *)
(* it says what the notification thread knows in the middle of a sweep:    *)
(* which rows are still ahead of the cursor, that none of them is read,    *)
(* and that every unread row of a user online is accounted for.            *)
(***************************************************************************)
EXTENDS NotifyHandoff, TLAPS

Sweeping == npc \in {"next", "send", "mark"}
OnRow    == npc \in {"send", "mark"}

\* In the middle of a sweep the cursor is on one row, no row ahead of it is
\* the current one, and none of these is read yet.
ISweep ==
    /\ Sweeping => result \cap read = {}
    /\ OnRow => \E r \in rows : cursor = {r} /\ r \notin read /\ r \notin result

\* Marking follows an acknowledgement.
IAcked ==
    /\ npc = "mark" => cursor \subseteq acked
    /\ read \subseteq acked

\* A thread numbers its posts.
INumbered == \A r \in rows : r[1][2] <= jobs[r[1][1]]

\* Why an unread row is not on its way to its client, or where it is.
Accounted(r) ==
    \/ UserOf(r) \notin online
    \/ UserOf(r) \in arrivals
    \/ r \in failed
    \/ cut
    \/ r \in unseen
    \/ Sweeping /\ r \in result
    \/ OnRow /\ r \in cursor
IOffered == ~ Stopped => \A r \in rows \ read : Accounted(r)

IInv ==
    /\ TypeOK
    /\ MutexOwner
    /\ NoLostWakeup
    /\ ISweep
    /\ IAcked
    /\ INumbered
    /\ IOffered
-----------------------------------------------------------------------------
(* Type correctness.                                                       *)

\* Initially every variable has its type.
LEMMA InitTyped == Init => TypeOK
  <1> SUFFICES ASSUME Init PROVE TypeOK
      OBVIOUS
  <1>1. hpc \in [Handlers -> {"idle", "reply", "lock"} \cup HandlerHolds]
      BY DEF Init
  <1>2. jobs \in [Handlers -> 0 .. MaxJobs] /\ sessions \in [Users -> Nat]
      BY HandoffAssumption DEF Init
  <1>3. queryErrs \in 0 .. QueryErrors /\ rowErrs \in 0 .. RowErrors
      BY HandoffAssumption DEF Init
  <1>4. QED
      BY <1>1, <1>2, <1>3 DEF Init, TypeOK

\* No step of any thread gives a variable a value outside its type.
LEMMA TypeStep == TypeOK /\ [Next]_vars => TypeOK'
  <1> SUFFICES ASSUME TypeOK, [Next]_vars PROVE TypeOK'
      OBVIOUS
  <1> USE HandoffAssumption DEF TypeOK, NotifierHolds, HandlerHolds, threadVars, dbVars, setVars, errVars, history
  <1>1. CASE UNCHANGED vars
      BY <1>1 DEF vars
  <1>2. ASSUME NEW h \in Handlers, NEW u \in Users, Login(h, u) PROVE TypeOK'
      BY <1>2 DEF Login
  <1>3. ASSUME NEW h \in Handlers, Post(h) PROVE TypeOK'
        <2>1. DEFINE new == {<<h, jobs[h] + 1>>} \X Users
      <2>2. jobs[h] + 1 \in 1 .. MaxJobs
          BY <1>3 DEF Post
      <2>3. new \subseteq Row
          BY <2>2 DEF Row, PostId
      <2>4. rows' = rows \cup new /\ unseen' = unseen \cup new
          BY <1>3 DEF Post
      <2>5. jobs' \in [Handlers -> 0 .. MaxJobs] /\ hpc' \in [Handlers -> {"idle", "reply", "lock"} \cup HandlerHolds]
          BY <1>3, <2>2 DEF Post
      <2> HIDE DEF new
      <2>6. QED
          BY <1>3, <2>3, <2>4, <2>5 DEF Post
  <1>4. ASSUME NEW h \in Handlers, LoginReply(h) PROVE TypeOK'
      BY <1>4 DEF LoginReply
  <1>5. ASSUME NEW h \in Handlers, LoginReplyFails(h) PROVE TypeOK'
      BY <1>5 DEF LoginReplyFails
  <1>5a. ASSUME NEW h \in Handlers, LoginRefused(h) PROVE TypeOK'
      BY <1>5a DEF LoginRefused
  <1>6. ASSUME NEW h \in Handlers, Lock(h) PROVE TypeOK'
      BY <1>6 DEF Lock
  <1>7. ASSUME NEW h \in Handlers, Raise(h) PROVE TypeOK'
      BY <1>7 DEF Raise
  <1>8. ASSUME NEW h \in Handlers, Unlock(h) PROVE TypeOK'
      BY <1>8 DEF Unlock
  <1>9. ASSUME NEW u \in Users, Logout(u) PROVE TypeOK'
      BY <1>9 DEF Logout
  <1>10. ASSUME NEW u \in Users, Expire(u) PROVE TypeOK'
      BY <1>10 DEF Expire
  <1>11. ASSUME NEW u \in Users, Reappear(u) PROVE TypeOK'
      BY <1>11 DEF Reappear
  <1>12. CASE Acquire
      BY <1>12 DEF Acquire
  <1>13. CASE Sleep
      BY <1>13 DEF Sleep
  <1>14. CASE TakeFlag
      BY <1>14 DEF TakeFlag
  <1>15. CASE Query
      BY <1>15 DEF Query
  <1>16. CASE QueryFails
      BY <1>16 DEF QueryFails
  <1>17. CASE Exit
      BY <1>17 DEF Exit
  <1>18. CASE NextRow
      BY <1>18 DEF NextRow
  <1>19. CASE NoMoreRows
      BY <1>19 DEF NoMoreRows
  <1>20. CASE SendAcked
      BY <1>20 DEF SendAcked
  <1>21. CASE SendFails
      BY <1>21 DEF SendFails
  <1>22. CASE MarkRead
      BY <1>22 DEF MarkRead
  <1>23. CASE RowFails
      BY <1>23 DEF RowFails
  <1>24. CASE SpuriousWakeup
      BY <1>24 DEF SpuriousWakeup
  <1>25. QED
      BY <1>1, <1>2, <1>3, <1>4, <1>5, <1>5a, <1>6, <1>7, <1>8, <1>9, <1>10, <1>11, <1>12, <1>13, <1>14, <1>15, <1>16, <1>17, <1>18, <1>19, <1>20, <1>21, <1>22, <1>23, <1>24 DEF Next, HandlerProgress, NotifierStep

-----------------------------------------------------------------------------
(* What client threads and users cannot disturb.                           *)

ClientStep ==
    \/ \E h \in Handlers :
          \/ \E u \in Users : Login(h, u)
          \/ LoginRefused(h)
          \/ Post(h)
          \/ HandlerProgress(h)
    \/ \E u \in Users : Logout(u) \/ Expire(u) \/ Reappear(u)

ClientFrame ==
    /\ UNCHANGED <<read, result, cursor, acked, failed, cut>>
    /\ rows \subseteq rows'
    /\ npc' = npc \/ (npc = "waiting" /\ npc' = "woken")

\* A step of a client thread or a user leaves the sweep and what is read
\* alone, takes no notification away, and moves the notification thread in no
\* way but to wake it.
LEMMA ClientsKeepFrame == ClientStep => ClientFrame
  <1> SUFFICES ASSUME ClientStep PROVE ClientFrame
      OBVIOUS
  <1> USE DEF ClientFrame, setVars, errVars, history, dbVars, threadVars
  <1>1. ASSUME NEW h \in Handlers, NEW u \in Users, Login(h, u) PROVE ClientFrame
      BY <1>1 DEF Login
  <1>2. ASSUME NEW h \in Handlers, Post(h) PROVE ClientFrame
      BY <1>2 DEF Post
  <1>3. ASSUME NEW h \in Handlers, LoginReply(h) PROVE ClientFrame
      BY <1>3 DEF LoginReply
  <1>4. ASSUME NEW h \in Handlers, LoginReplyFails(h) PROVE ClientFrame
      BY <1>4 DEF LoginReplyFails
  <1>4a. ASSUME NEW h \in Handlers, LoginRefused(h) PROVE ClientFrame
      BY <1>4a DEF LoginRefused
  <1>5. ASSUME NEW h \in Handlers, Lock(h) PROVE ClientFrame
      BY <1>5 DEF Lock
  <1>6. ASSUME NEW h \in Handlers, Raise(h) PROVE ClientFrame
      BY <1>6 DEF Raise
  <1>7. ASSUME NEW h \in Handlers, Unlock(h) PROVE ClientFrame
      BY <1>7 DEF Unlock
  <1>8. ASSUME NEW u \in Users, Logout(u) PROVE ClientFrame
      BY <1>8 DEF Logout
  <1>9. ASSUME NEW u \in Users, Expire(u) PROVE ClientFrame
      BY <1>9 DEF Expire
  <1>10. ASSUME NEW u \in Users, Reappear(u) PROVE ClientFrame
      BY <1>10 DEF Reappear
  <1>11. QED
      BY <1>1, <1>2, <1>3, <1>4, <1>4a, <1>5, <1>6, <1>7, <1>8, <1>9, <1>10 DEF ClientStep, HandlerProgress

\* A step is one of a client thread or user, of the notification thread, a
\* spurious wake-up, or no step at all.
LEMMA StepCases ==
    ASSUME [Next]_vars
    PROVE  ClientStep \/ NotifierStep \/ SpuriousWakeup \/ UNCHANGED vars
  BY DEF Next, ClientStep

-----------------------------------------------------------------------------
(* The mutex and the flag.                                                 *)

\* Each step keeps the mutex owner inside its critical section, alone.
LEMMA MutexStep == TypeOK /\ MutexOwner /\ [Next]_vars => MutexOwner'
  <1> SUFFICES ASSUME TypeOK, MutexOwner, [Next]_vars PROVE MutexOwner'
      OBVIOUS
  <1> USE HandoffAssumption DEF TypeOK, MutexOwner, NotifierHolds, HandlerHolds, setVars, errVars, history, dbVars, threadVars
  <1>1. CASE ClientStep
    <2>1. ASSUME NEW h \in Handlers, NEW u \in Users, Login(h, u) PROVE MutexOwner'
        BY <2>1 DEF Login
    <2>2. ASSUME NEW h \in Handlers, Post(h) PROVE MutexOwner'
        BY <2>2 DEF Post
    <2>3. ASSUME NEW h \in Handlers, LoginReply(h) PROVE MutexOwner'
        BY <2>3 DEF LoginReply
    <2>4. ASSUME NEW h \in Handlers, LoginReplyFails(h) PROVE MutexOwner'
        BY <2>4 DEF LoginReplyFails
    <2>4a. ASSUME NEW h \in Handlers, LoginRefused(h) PROVE MutexOwner'
        BY <2>4a DEF LoginRefused
    <2>5. ASSUME NEW h \in Handlers, Lock(h) PROVE MutexOwner'
        BY <2>5 DEF Lock
    <2>6. ASSUME NEW h \in Handlers, Raise(h) PROVE MutexOwner'
        BY <2>6 DEF Raise
    <2>7. ASSUME NEW h \in Handlers, Unlock(h) PROVE MutexOwner'
        BY <2>7 DEF Unlock
    <2>8. ASSUME NEW u \in Users, Logout(u) PROVE MutexOwner'
        BY <2>8 DEF Logout
    <2>9. ASSUME NEW u \in Users, Expire(u) PROVE MutexOwner'
        BY <2>9 DEF Expire
    <2>10. ASSUME NEW u \in Users, Reappear(u) PROVE MutexOwner'
        BY <2>10 DEF Reappear
    <2>11. QED
        BY <1>1, <2>1, <2>2, <2>3, <2>4, <2>4a, <2>5, <2>6, <2>7, <2>8, <2>9, <2>10 DEF ClientStep, HandlerProgress
  <1>2. CASE NotifierStep
    <2>1. CASE Acquire
        BY <2>1 DEF Acquire
    <2>2. CASE Sleep
        BY <2>2 DEF Sleep
    <2>3. CASE TakeFlag
        BY <2>3 DEF TakeFlag
    <2>4. CASE Query
        BY <2>4 DEF Query
    <2>5. CASE QueryFails
        BY <2>5 DEF QueryFails
    <2>6. CASE Exit
        BY <2>6 DEF Exit
    <2>7. CASE NextRow
        BY <2>7 DEF NextRow
    <2>8. CASE NoMoreRows
        BY <2>8 DEF NoMoreRows
    <2>9. CASE SendAcked
        BY <2>9 DEF SendAcked
    <2>10. CASE SendFails
        BY <2>10 DEF SendFails
    <2>11. CASE MarkRead
        BY <2>11 DEF MarkRead
    <2>12. CASE RowFails
        BY <2>12 DEF RowFails
    <2>13. QED
        BY <1>2, <2>1, <2>2, <2>3, <2>4, <2>5, <2>6, <2>7, <2>8, <2>9, <2>10, <2>11, <2>12 DEF NotifierStep
  <1>3. CASE SpuriousWakeup
      BY <1>3 DEF SpuriousWakeup, setVars, errVars, history, dbVars
  <1>4. CASE UNCHANGED vars
      BY <1>4 DEF vars, threadVars, dbVars, setVars, errVars, history
  <1>5. QED
      BY <1>1, <1>2, <1>3, <1>4, StepCases

\* Each step keeps the rows no query has seen on their way to one.
LEMMA WakeupStep == TypeOK /\ NoLostWakeup /\ [Next]_vars => NoLostWakeup'
  <1> SUFFICES ASSUME TypeOK, NoLostWakeup, [Next]_vars PROVE NoLostWakeup'
      OBVIOUS
  <1> USE DEF NoLostWakeup, RowWillBeSeen, Stopped, setVars, errVars, history, dbVars, threadVars
  <1>1. CASE ClientStep
    <2>1. ASSUME NEW h \in Handlers, NEW u \in Users, Login(h, u) PROVE NoLostWakeup'
        BY <2>1 DEF Login, TypeOK
    <2>2. ASSUME NEW h \in Handlers, Post(h) PROVE NoLostWakeup'
        <3>1. hpc' = [hpc EXCEPT ![h] = "lock"] /\ npc' = npc /\ notify_variable' = notify_variable
            BY <2>2 DEF Post
        <3>2. ASSUME NEW r \in unseen', ~ Stopped PROVE RowWillBeSeen(r)'
          <4>1. CASE r \in unseen
              BY <3>1, <3>2, <4>1 DEF TypeOK, AuthorOf
          <4>2. CASE r \in {<<h, jobs[h] + 1>>} \X Users
            <5>1. AuthorOf(r) = h
                BY <4>2 DEF AuthorOf
            <5>2. QED
                BY <5>1, <3>1 DEF TypeOK
          <4>3. QED
              BY <4>1, <4>2, <3>2, <2>2 DEF Post
        <3>3. QED
            BY <3>1, <3>2
    <2>3. ASSUME NEW h \in Handlers, LoginReply(h) PROVE NoLostWakeup'
        BY <2>3 DEF LoginReply, TypeOK
    <2>4. ASSUME NEW h \in Handlers, LoginReplyFails(h) PROVE NoLostWakeup'
        BY <2>4 DEF LoginReplyFails, TypeOK
    <2>4a. ASSUME NEW h \in Handlers, LoginRefused(h) PROVE NoLostWakeup'
        BY <2>4a DEF LoginRefused, TypeOK
    <2>5. ASSUME NEW h \in Handlers, Lock(h) PROVE NoLostWakeup'
        BY <2>5 DEF Lock, TypeOK
    <2>6. ASSUME NEW h \in Handlers, Raise(h) PROVE NoLostWakeup'
        BY <2>6 DEF Raise, TypeOK
    <2>7. ASSUME NEW h \in Handlers, Unlock(h) PROVE NoLostWakeup'
        BY <2>7 DEF Unlock, TypeOK
    <2>8. ASSUME NEW u \in Users, Logout(u) PROVE NoLostWakeup'
        BY <2>8 DEF Logout, TypeOK
    <2>9. ASSUME NEW u \in Users, Expire(u) PROVE NoLostWakeup'
        BY <2>9 DEF Expire, TypeOK
    <2>10. ASSUME NEW u \in Users, Reappear(u) PROVE NoLostWakeup'
        BY <2>10 DEF Reappear, TypeOK
    <2>11. QED
        BY <1>1, <2>1, <2>2, <2>3, <2>4, <2>4a, <2>5, <2>6, <2>7, <2>8, <2>9, <2>10 DEF ClientStep, HandlerProgress
  <1>2. CASE NotifierStep
    <2>1. CASE Acquire
        BY <2>1 DEF Acquire
    <2>2. CASE Sleep
        BY <2>2 DEF Sleep
    <2>3. CASE TakeFlag
        BY <2>3 DEF TakeFlag
    <2>4. CASE Query
        BY <2>4 DEF Query
    <2>5. CASE QueryFails
        BY <2>5 DEF QueryFails
    <2>6. CASE Exit
        BY <2>6 DEF Exit
    <2>7. CASE NextRow
        BY <2>7 DEF NextRow
    <2>8. CASE NoMoreRows
        BY <2>8 DEF NoMoreRows
    <2>9. CASE SendAcked
        BY <2>9 DEF SendAcked
    <2>10. CASE SendFails
        BY <2>10 DEF SendFails
    <2>11. CASE MarkRead
        BY <2>11 DEF MarkRead
    <2>12. CASE RowFails
        BY <2>12 DEF RowFails
    <2>13. QED
        BY <1>2, <2>1, <2>2, <2>3, <2>4, <2>5, <2>6, <2>7, <2>8, <2>9, <2>10, <2>11, <2>12 DEF NotifierStep
  <1>3. CASE SpuriousWakeup
      BY <1>3 DEF SpuriousWakeup, setVars, errVars, history, dbVars
  <1>4. CASE UNCHANGED vars
      BY <1>4 DEF vars, threadVars, dbVars, setVars, errVars, history
  <1>5. QED
      BY <1>1, <1>2, <1>3, <1>4, StepCases

-----------------------------------------------------------------------------
(* The sweep.                                                              *)

\* Each step of a sweep moves the cursor over unread rows only.
LEMMA SweepStep == TypeOK /\ ISweep /\ [Next]_vars => ISweep'
  <1> SUFFICES ASSUME TypeOK, ISweep, [Next]_vars PROVE ISweep'
      OBVIOUS
  <1> USE DEF ISweep, Sweeping, OnRow, setVars, errVars, history, dbVars, threadVars
  <1>1. CASE ClientStep
      BY <1>1, ClientsKeepFrame DEF ClientFrame
  <1>2. CASE NotifierStep
    <2>1. CASE Acquire
        BY <2>1 DEF Acquire, TypeOK
    <2>2. CASE Sleep
        BY <2>2 DEF Sleep, TypeOK
    <2>3. CASE TakeFlag
        BY <2>3 DEF TakeFlag, TypeOK
    <2>4. CASE Query
        BY <2>4 DEF Query, TypeOK
    <2>5. CASE QueryFails
        BY <2>5 DEF QueryFails, TypeOK
    <2>6. CASE Exit
        BY <2>6 DEF Exit, TypeOK
    <2>7. CASE NextRow
        BY <2>7 DEF NextRow, TypeOK
    <2>8. CASE NoMoreRows
        BY <2>8 DEF NoMoreRows, TypeOK
    <2>9. CASE SendAcked
        BY <2>9 DEF SendAcked, TypeOK
    <2>10. CASE SendFails
        BY <2>10 DEF SendFails, TypeOK
    <2>11. CASE MarkRead
        BY <2>11 DEF MarkRead, TypeOK
    <2>12. CASE RowFails
        BY <2>12 DEF RowFails, TypeOK
    <2>13. QED
        BY <1>2, <2>1, <2>2, <2>3, <2>4, <2>5, <2>6, <2>7, <2>8, <2>9, <2>10, <2>11, <2>12 DEF NotifierStep
  <1>3. CASE SpuriousWakeup
      BY <1>3 DEF SpuriousWakeup, setVars, errVars, history, dbVars
  <1>4. CASE UNCHANGED vars
      BY <1>4 DEF vars, threadVars, dbVars, setVars, errVars, history
  <1>5. QED
      BY <1>1, <1>2, <1>3, <1>4, StepCases

\* A row reaches markRead only through an acknowledgement.
LEMMA AckedStep == TypeOK /\ IAcked /\ [Next]_vars => IAcked'
  <1> SUFFICES ASSUME TypeOK, IAcked, [Next]_vars PROVE IAcked'
      OBVIOUS
  <1> USE DEF IAcked, setVars, errVars, history, dbVars, threadVars
  <1>1. CASE ClientStep
      BY <1>1, ClientsKeepFrame DEF ClientFrame
  <1>2. CASE NotifierStep
    <2>1. CASE Acquire
        BY <2>1 DEF Acquire
    <2>2. CASE Sleep
        BY <2>2 DEF Sleep
    <2>3. CASE TakeFlag
        BY <2>3 DEF TakeFlag
    <2>4. CASE Query
        BY <2>4 DEF Query
    <2>5. CASE QueryFails
        BY <2>5 DEF QueryFails
    <2>6. CASE Exit
        BY <2>6 DEF Exit
    <2>7. CASE NextRow
        BY <2>7 DEF NextRow
    <2>8. CASE NoMoreRows
        BY <2>8 DEF NoMoreRows
    <2>9. CASE SendAcked
        BY <2>9 DEF SendAcked
    <2>10. CASE SendFails
        BY <2>10 DEF SendFails
    <2>11. CASE MarkRead
        BY <2>11 DEF MarkRead
    <2>12. CASE RowFails
        BY <2>12 DEF RowFails
    <2>13. QED
        BY <1>2, <2>1, <2>2, <2>3, <2>4, <2>5, <2>6, <2>7, <2>8, <2>9, <2>10, <2>11, <2>12 DEF NotifierStep
  <1>3. CASE SpuriousWakeup
      BY <1>3 DEF SpuriousWakeup, setVars, errVars, history, dbVars
  <1>4. CASE UNCHANGED vars
      BY <1>4 DEF vars, threadVars, dbVars, setVars, errVars, history
  <1>5. QED
      BY <1>1, <1>2, <1>3, <1>4, StepCases

\* A thread has not used the number of its next post.
LEMMA NumberedStep == TypeOK /\ INumbered /\ [Next]_vars => INumbered'
  <1> SUFFICES ASSUME TypeOK, INumbered, [Next]_vars PROVE INumbered'
      OBVIOUS
  <1> USE DEF INumbered, setVars, errVars, history, dbVars, threadVars
  <1>1. CASE ClientStep
    <2>1. ASSUME NEW h \in Handlers, NEW u \in Users, Login(h, u) PROVE INumbered'
        <3>1. ASSUME NEW r \in rows PROVE r[1][2] <= jobs'[r[1][1]]
          <4>1. r[1][1] \in Handlers /\ r[1][2] \in Nat /\ jobs[r[1][1]] \in Nat
              BY DEF TypeOK, Row, PostId
          <4>2. QED
              BY <2>1, <4>1 DEF Login, TypeOK
        <3>2. QED
            BY <2>1, <3>1 DEF Login
    <2>2. ASSUME NEW h \in Handlers, Post(h) PROVE INumbered'
        <3>1. jobs' = [jobs EXCEPT ![h] = jobs[h] + 1] /\ jobs[h] \in Nat
            BY <2>2 DEF Post, TypeOK
        <3>2. ASSUME NEW r \in rows' PROVE r[1][2] <= jobs'[r[1][1]]
          <4>1. CASE r \in rows
            <5>1. r[1][1] \in Handlers /\ r[1][2] \in Nat /\ jobs[r[1][1]] \in Nat
                BY <4>1 DEF TypeOK, Row, PostId
            <5>2. QED
                BY <3>1, <4>1, <5>1 DEF TypeOK
          <4>2. CASE r \in {<<h, jobs[h] + 1>>} \X Users
              BY <3>1, <4>2 DEF TypeOK
          <4>3. QED
              BY <4>1, <4>2, <2>2 DEF Post
        <3>3. QED
            BY <3>2
    <2>3. ASSUME NEW h \in Handlers, LoginReply(h) PROVE INumbered'
        BY <2>3 DEF LoginReply
    <2>4. ASSUME NEW h \in Handlers, LoginReplyFails(h) PROVE INumbered'
        BY <2>4 DEF LoginReplyFails
    <2>4a. ASSUME NEW h \in Handlers, LoginRefused(h) PROVE INumbered'
        <3>1. ASSUME NEW r \in rows PROVE r[1][2] <= jobs'[r[1][1]]
          <4>1. r[1][1] \in Handlers /\ r[1][2] \in Nat /\ jobs[r[1][1]] \in Nat
              BY DEF TypeOK, Row, PostId
          <4>2. QED
              BY <2>4a, <4>1 DEF LoginRefused, TypeOK
        <3>2. QED
            BY <2>4a, <3>1 DEF LoginRefused
    <2>5. ASSUME NEW h \in Handlers, Lock(h) PROVE INumbered'
        BY <2>5 DEF Lock
    <2>6. ASSUME NEW h \in Handlers, Raise(h) PROVE INumbered'
        BY <2>6 DEF Raise
    <2>7. ASSUME NEW h \in Handlers, Unlock(h) PROVE INumbered'
        BY <2>7 DEF Unlock
    <2>8. ASSUME NEW u \in Users, Logout(u) PROVE INumbered'
        BY <2>8 DEF Logout
    <2>9. ASSUME NEW u \in Users, Expire(u) PROVE INumbered'
        BY <2>9 DEF Expire
    <2>10. ASSUME NEW u \in Users, Reappear(u) PROVE INumbered'
        BY <2>10 DEF Reappear
    <2>11. QED
        BY <1>1, <2>1, <2>2, <2>3, <2>4, <2>4a, <2>5, <2>6, <2>7, <2>8, <2>9, <2>10 DEF ClientStep, HandlerProgress
  <1>2. CASE NotifierStep
    <2>1. CASE Acquire
        BY <2>1 DEF Acquire
    <2>2. CASE Sleep
        BY <2>2 DEF Sleep
    <2>3. CASE TakeFlag
        BY <2>3 DEF TakeFlag
    <2>4. CASE Query
        BY <2>4 DEF Query
    <2>5. CASE QueryFails
        BY <2>5 DEF QueryFails
    <2>6. CASE Exit
        BY <2>6 DEF Exit
    <2>7. CASE NextRow
        BY <2>7 DEF NextRow
    <2>8. CASE NoMoreRows
        BY <2>8 DEF NoMoreRows
    <2>9. CASE SendAcked
        BY <2>9 DEF SendAcked
    <2>10. CASE SendFails
        BY <2>10 DEF SendFails
    <2>11. CASE MarkRead
        BY <2>11 DEF MarkRead
    <2>12. CASE RowFails
        BY <2>12 DEF RowFails
    <2>13. QED
        BY <1>2, <2>1, <2>2, <2>3, <2>4, <2>5, <2>6, <2>7, <2>8, <2>9, <2>10, <2>11, <2>12 DEF NotifierStep
  <1>3. CASE SpuriousWakeup
      BY <1>3 DEF SpuriousWakeup, setVars, errVars, history, dbVars
  <1>4. CASE UNCHANGED vars
      BY <1>4 DEF vars, threadVars, dbVars, setVars, errVars, history
  <1>5. QED
      BY <1>1, <1>2, <1>3, <1>4, StepCases

\* No step loses track of an unread row of a user online.
LEMMA OfferedStep == TypeOK /\ ISweep /\ IOffered /\ [Next]_vars => IOffered'
  <1> SUFFICES ASSUME TypeOK, ISweep, IOffered, [Next]_vars PROVE IOffered'
      OBVIOUS
  <1> USE DEF IOffered, Accounted, Stopped, Sweeping, OnRow, setVars, errVars, history, dbVars, threadVars
  <1>1. CASE ClientStep
    <2>1. ASSUME NEW h \in Handlers, NEW u \in Users, Login(h, u) PROVE IOffered'
        BY <2>1 DEF Login, TypeOK
    <2>2. ASSUME NEW h \in Handlers, Post(h) PROVE IOffered'
        BY <2>2 DEF Post, TypeOK
    <2>3. ASSUME NEW h \in Handlers, LoginReply(h) PROVE IOffered'
        BY <2>3 DEF LoginReply, TypeOK
    <2>4. ASSUME NEW h \in Handlers, LoginReplyFails(h) PROVE IOffered'
        BY <2>4 DEF LoginReplyFails, TypeOK
    <2>4a. ASSUME NEW h \in Handlers, LoginRefused(h) PROVE IOffered'
        BY <2>4a DEF LoginRefused, TypeOK
    <2>5. ASSUME NEW h \in Handlers, Lock(h) PROVE IOffered'
        BY <2>5 DEF Lock, TypeOK
    <2>6. ASSUME NEW h \in Handlers, Raise(h) PROVE IOffered'
        BY <2>6 DEF Raise, TypeOK
    <2>7. ASSUME NEW h \in Handlers, Unlock(h) PROVE IOffered'
        BY <2>7 DEF Unlock, TypeOK
    <2>8. ASSUME NEW u \in Users, Logout(u) PROVE IOffered'
        BY <2>8 DEF Logout, TypeOK
    <2>9. ASSUME NEW u \in Users, Expire(u) PROVE IOffered'
        BY <2>9 DEF Expire, TypeOK
    <2>10. ASSUME NEW u \in Users, Reappear(u) PROVE IOffered'
        BY <2>10 DEF Reappear, TypeOK
    <2>11. QED
        BY <1>1, <2>1, <2>2, <2>3, <2>4, <2>4a, <2>5, <2>6, <2>7, <2>8, <2>9, <2>10 DEF ClientStep, HandlerProgress
  <1>2. CASE NotifierStep
    <2>1. CASE Acquire
        BY <2>1 DEF Acquire, TypeOK, ISweep
    <2>2. CASE Sleep
        BY <2>2 DEF Sleep, TypeOK, ISweep
    <2>3. CASE TakeFlag
        BY <2>3 DEF TakeFlag, TypeOK, ISweep
    <2>4. CASE Query
        BY <2>4 DEF Query, TypeOK, ISweep
    <2>5. CASE QueryFails
        BY <2>5 DEF QueryFails, TypeOK, ISweep
    <2>6. CASE Exit
        BY <2>6 DEF Exit, TypeOK, ISweep
    <2>7. CASE NextRow
        BY <2>7 DEF NextRow, TypeOK, ISweep
    <2>8. CASE NoMoreRows
        BY <2>8 DEF NoMoreRows, TypeOK, ISweep
    <2>9. CASE SendAcked
        BY <2>9 DEF SendAcked, TypeOK, ISweep
    <2>10. CASE SendFails
        BY <2>10 DEF SendFails, TypeOK, ISweep
    <2>11. CASE MarkRead
        BY <2>11 DEF MarkRead, TypeOK, ISweep
    <2>12. CASE RowFails
        BY <2>12 DEF RowFails, TypeOK, ISweep
    <2>13. QED
        BY <1>2, <2>1, <2>2, <2>3, <2>4, <2>5, <2>6, <2>7, <2>8, <2>9, <2>10, <2>11, <2>12 DEF NotifierStep
  <1>3. CASE SpuriousWakeup
      BY <1>3 DEF SpuriousWakeup, setVars, errVars, history, dbVars
  <1>4. CASE UNCHANGED vars
      BY <1>4 DEF vars, threadVars, dbVars, setVars, errVars, history
  <1>5. QED
      BY <1>1, <1>2, <1>3, <1>4, StepCases

-----------------------------------------------------------------------------
(* The inductive invariant and what follows from it.                       *)

\* The invariant holds initially.
LEMMA InitInv == Init => IInv
  <1> SUFFICES ASSUME Init PROVE IInv
      OBVIOUS
  <1>1. TypeOK
      BY InitTyped
  <1>2. MutexOwner
      BY HandoffAssumption DEF Init, MutexOwner, NotifierHolds, HandlerHolds
  <1>3. NoLostWakeup /\ ISweep /\ IAcked /\ INumbered /\ IOffered
      BY DEF Init, NoLostWakeup, ISweep, Sweeping, OnRow, IAcked, INumbered, IOffered
  <1>4. QED
      BY <1>1, <1>2, <1>3 DEF IInv

\* The invariant is inductive.
LEMMA InvStep == IInv /\ [Next]_vars => IInv'
  BY TypeStep, MutexStep, WakeupStep, SweepStep, AckedStep, NumberedStep, OfferedStep
     DEF IInv

\* The inductive invariant holds in every reachable state.
THEOREM InvariantHolds == Spec => []IInv
  BY InitInv, InvStep, PTL DEF Spec

\* Every variable keeps its type, whatever the threads, the sweep and the
\* failures do.
THEOREM TypeCorrect == Spec => []TypeOK
  <1>1. IInv => TypeOK
      BY DEF IInv
  <1>2. QED
      BY <1>1, InvariantHolds, PTL

\* One thread at a time is in the critical section, and it owns the mutex.
THEOREM MutexOwnerHolds == Spec => []MutexOwner
  BY InvariantHolds, PTL DEF IInv

\* No wake-up is lost between a client thread's signal and the notification
\* thread's wait.
THEOREM NoLostWakeupHolds == Spec => []NoLostWakeup
  BY InvariantHolds, PTL DEF IInv

\* Only acknowledged notifications are marked read.
THEOREM ReadOnlyIfAckedHolds == Spec => []ReadOnlyIfAcked
  <1>1. IInv => ReadOnlyIfAcked
      BY DEF IInv, IAcked, ReadOnlyIfAcked
  <1>2. QED
      BY <1>1, InvariantHolds, PTL

\* Only the two outcomes of next() past the last row and of the query touch the
\* flag and the result set it stands for.
LEMMA FlagStep == FlagGuardsSet /\ [Next]_vars => FlagGuardsSet'
  <1> SUFFICES ASSUME FlagGuardsSet, [Next]_vars PROVE FlagGuardsSet'
      OBVIOUS
  <1> USE DEF FlagGuardsSet, Stopped, setVars
  <1>1. CASE ClientStep
      BY <1>1 DEF ClientStep, HandlerProgress, Login, LoginRefused, Post, LoginReply, LoginReplyFails,
                  Lock, Raise, Unlock, Logout, Expire, Reappear, threadVars
  <1>2. CASE NotifierStep
      BY <1>2 DEF NotifierStep, Acquire, Sleep, TakeFlag, Query, QueryFails, Exit, NextRow,
                  NoMoreRows, SendAcked, SendFails, MarkRead, RowFails
  <1>3. CASE SpuriousWakeup
      BY <1>3 DEF SpuriousWakeup
  <1>4. CASE UNCHANGED vars
      BY <1>4 DEF vars, threadVars
  <1>5. QED
      BY <1>1, <1>2, <1>3, <1>4, StepCases

\* While the thread runs no result set is freed twice.
THEOREM FlagGuardsSetHolds == Spec => []FlagGuardsSet
  <1>1. Init => FlagGuardsSet
      BY DEF Init, FlagGuardsSet
  <1>2. QED
      BY <1>1, FlagStep, PTL DEF Spec

\* When every thread is quiet, an unread notification of a user online is one
\* the code has an excuse for.
THEOREM QuietMeansOfferedHolds == Spec => []QuietMeansOffered
  <1>1. IInv => QuietMeansOffered
    <2> SUFFICES ASSUME IInv, npc = "waiting", \A h \in Handlers : hpc[h] = "idle",
                        NEW r \in rows \ read
                 PROVE  \/ UserOf(r) \notin online
                        \/ UserOf(r) \in arrivals
                        \/ r \in failed
                        \/ cut
        BY DEF QuietMeansOffered
    <2>1. ~ Stopped /\ notify_variable = 0
        BY DEF IInv, NoLostWakeup, Stopped
    <2>2. AuthorOf(r) \in Handlers
        BY DEF IInv, TypeOK, Row, PostId, AuthorOf
    <2>3. r \notin unseen
        BY <2>1, <2>2 DEF IInv, NoLostWakeup, RowWillBeSeen
    <2>4. QED
        BY <2>1, <2>3 DEF IInv, IOffered, Accounted, Sweeping, OnRow
  <1>2. QED
      BY <1>1, InvariantHolds, PTL

-----------------------------------------------------------------------------
(* Action properties and refinement.                                       *)

\* Only a send touches the acknowledged and the failed rows.
LEMMA OnlySendsTouch ==
    ASSUME [Next]_vars
    PROVE  (acked' # acked \/ failed' # failed) => npc = "send"
  <1> USE DEF setVars, errVars, history, dbVars, threadVars
  <1>1. CASE ClientStep
      BY <1>1, ClientsKeepFrame DEF ClientFrame
  <1>2. CASE NotifierStep
      BY <1>2 DEF NotifierStep, Acquire, Sleep, TakeFlag, Query, QueryFails, Exit,
                  NextRow, NoMoreRows, SendAcked, SendFails, MarkRead, RowFails
  <1>3. CASE SpuriousWakeup \/ UNCHANGED vars
      BY <1>3 DEF SpuriousWakeup, vars
  <1>4. QED
      BY <1>1, <1>2, <1>3, StepCases

\* A notification that is marked read is never sent again.
THEOREM NeverResentHolds == Spec => NeverResent
  <1>1. IInv /\ [Next]_vars =>
           [(acked' # acked \/ failed' # failed) => cursor \cap read = {}]_vars
      BY OnlySendsTouch DEF IInv, ISweep, OnRow
  <1>2. QED
      BY <1>1, InvariantHolds, PTL DEF Spec, NeverResent

\* An initial state is an empty notice board.
LEMMA InitBoard == Init => Board!BoardInit
  BY DEF Init, Board!BoardInit

\* A step is a step of the notice board or leaves it alone: a post puts its
\* notices up, an acknowledged send delivers one, markRead marks one.
LEMMA StepBoard == IInv /\ [Next]_vars => [Board!BoardNext]_(Board!boardVars)
  <1> SUFFICES ASSUME IInv, [Next]_vars PROVE [Board!BoardNext]_(Board!boardVars)
      OBVIOUS
  <1> USE DEF Board!boardVars, setVars, errVars, history, dbVars, threadVars
  <1>1. CASE ClientStep
    <2>1. ASSUME NEW h \in Handlers, Post(h) PROVE Board!BoardNext
      <3>1. <<h, jobs[h] + 1>> \in PostId
          BY <2>1, HandoffAssumption DEF Post, IInv, TypeOK, PostId
      <3>2. ASSUME NEW r \in rows PROVE r[1] # <<h, jobs[h] + 1>>
        <4>1. r[1][2] <= jobs[r[1][1]]
            BY DEF IInv, INumbered
        <4>2. jobs[h] \in Nat
            BY <2>1 DEF IInv, TypeOK
        <4>3. QED
            BY <4>1, <4>2
      <3>3. Board!PutUp(<<h, jobs[h] + 1>>)
          BY <2>1, <3>2 DEF Post, Board!PutUp
      <3>4. QED
          BY <3>1, <3>3 DEF Board!BoardNext
    <2>2. ASSUME NEW h \in Handlers, (\E u \in Users : Login(h, u)) \/ LoginRefused(h) \/ HandlerProgress(h)
          PROVE UNCHANGED Board!boardVars
        BY <2>2 DEF Login, LoginRefused, HandlerProgress, LoginReply, LoginReplyFails, Lock, Raise, Unlock
    <2>3. ASSUME NEW u \in Users, Logout(u) \/ Expire(u) \/ Reappear(u)
          PROVE UNCHANGED Board!boardVars
        BY <2>3 DEF Logout, Expire, Reappear
    <2>4. QED
        BY <1>1, <2>1, <2>2, <2>3 DEF ClientStep
  <1>2. CASE SendAcked
    <2>1. PICK r \in rows : cursor = {r} /\ r \notin read
        BY <1>2 DEF SendAcked, IInv, ISweep, OnRow
    <2>2. r \in Board!Notice
        BY <2>1 DEF Board!Notice, IInv, TypeOK, Row
    <2>3. Board!Deliver(r)
        BY <1>2, <2>1 DEF SendAcked, Board!Deliver
    <2>4. QED
        BY <2>2, <2>3 DEF Board!BoardNext
  <1>3. CASE MarkRead
    <2>1. PICK r \in rows : cursor = {r} /\ r \notin read
        BY <1>3 DEF MarkRead, IInv, ISweep, OnRow
    <2>2. r \in Board!Notice /\ r \in acked
        BY <1>3, <2>1 DEF MarkRead, Board!Notice, IInv, TypeOK, Row, IAcked
    <2>3. Board!Mark(r)
        BY <1>3, <2>1, <2>2 DEF MarkRead, Board!Mark
    <2>4. QED
        BY <2>2, <2>3 DEF Board!BoardNext
  <1>4. CASE NotifierStep /\ ~ SendAcked /\ ~ MarkRead
      BY <1>4 DEF NotifierStep, Acquire, Sleep, TakeFlag, Query, QueryFails, Exit,
                  NextRow, NoMoreRows, SendFails, RowFails
  <1>5. CASE SpuriousWakeup \/ UNCHANGED vars
      BY <1>5 DEF SpuriousWakeup, vars
  <1>6. QED
      BY <1>1, <1>2, <1>3, <1>4, <1>5, StepCases

\* The threads, the mutex and the cursor implement the notice board: all
\* notices of a post at once, delivered before they are marked, once marked
\* marked for ever.
THEOREM NoticeBoardImplemented == Spec => ImplementsBoard
  BY InitBoard, StepBoard, InvariantHolds, PTL DEF Spec, ImplementsBoard, Board!BoardSpec
=============================================================================
