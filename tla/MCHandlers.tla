----------------------------- MODULE MCHandlers -----------------------------
(***************************************************************************)
(* Instances of Handlers for TLC.                                          *)
(***************************************************************************)
EXTENDS Handlers, TLC

CONSTANTS c1, c2

TwoFds == {4, 5}
OneFd == {4}

\* Every initial row is one value of Login, which Users do not permute.
MCSymmetry == Permutations(Handlers) \cup Permutations(Sids)

\* The variables of a handler, but for values that are written again before
\* anybody reads them.
Live(var, h, steps, default) == IF pc[h] \in steps THEN var[h] ELSE default
LiveView ==
    <<tables, sessionID, pc, sockets, clients, failures, given, endedBy, disturbed, done,
      [h \in Handlers |->
          <<Live(task, h, Steps \ {"waiting", "read"}, "LOGIN"),
            Live(sid, h, Steps \ {"waiting", "read", "creds", "pick", "close", "gone"}, NoSid),
            Live(row, h, {"pick", "insertLogin", "insertLog", "insertPost"}, 0),
            Live(result, h, {"reply"}, "0"),
            Live(postId, h, {"insertNotices", "checkLog", "insertLog"}, 0),
            Live(mine, h, {"lastId", "insertNotices", "checkLog", "insertLog"}, 0)>>]>>
=============================================================================
