----------------------------- MODULE NoticeBoard -----------------------------
(***************************************************************************)
(* What the notification side promises, without threads, connections or    *)
(* result sets: the notices of a post, if they go up, go up for all users  *)
(* at once, and once; a notice is delivered, that is acknowledged by a     *)
(* client, before it is marked read, is not delivered again once it is     *)
(* marked, and is never taken down or marked unread again.  NotifyHandoff  *)
(* implements it, and so does WallTalk, through crashes of the server,     *)
(* which may leave a post without notices.                                 *)
(***************************************************************************)
CONSTANTS
    Posts,      \* names of posts
    Users       \* the users a post is announced to

VARIABLES
    posted,     \* notices put up
    delivered,  \* notices a client has acknowledged
    marked      \* notices marked read

boardVars == <<posted, delivered, marked>>

Notice == Posts \X Users

BoardInit ==
    /\ posted = {}
    /\ delivered = {}
    /\ marked = {}

\* The notices of a post that has none; one for each user.
PutUp(p) ==
    /\ \A n \in posted : n[1] # p
    /\ posted' = posted \cup ({p} \X Users)
    /\ UNCHANGED <<delivered, marked>>

Deliver(n) ==
    /\ n \in posted \ marked
    /\ delivered' = delivered \cup {n}
    /\ UNCHANGED <<posted, marked>>

Mark(n) ==
    /\ n \in delivered \ marked
    /\ marked' = marked \cup {n}
    /\ UNCHANGED <<posted, delivered>>

BoardNext ==
    \/ \E p \in Posts : PutUp(p)
    \/ \E n \in Notice : Deliver(n) \/ Mark(n)

BoardSpec == BoardInit /\ [][BoardNext]_boardVars
=============================================================================
