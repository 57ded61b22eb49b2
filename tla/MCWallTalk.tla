------------------------------ MODULE MCWallTalk ------------------------------
(* Instances of WallTalk for TLC.                                          *)
EXTENDS WallTalk, TLC

CONSTANTS c1, c2, alex, ben

\* Two clients of two users; at one a command is typed.
TwoUsers == [c \in {c1, c2} |-> IF c = c1 THEN alex ELSE ben]
OneTypes == [c \in {c1, c2} |-> IF c = c1 THEN <<Commands>> ELSE <<>>]
TwoFds == {4, 5}

\* No step tells one session number from another.
SidSymmetry == Permutations(Sids)

\* Variables count while somebody will read them: those of a client process
\* and its answer while it runs, its requests and a socket until the server closes,
\* what a handler works on until it is done, the current row until it is marked.
AtWork(c) ==
    <<IF handler[c] \in Working THEN <<up[c], sockFd[c]>> ELSE
        IF handler[c] = "waiting" THEN <<up[c], 0>> ELSE <<>>,
      IF handler[c] \in Working \ {"looking", "reading", "refusing", "raising", "left"}
      THEN IF handler[c] = "replying" THEN <<request[c].cmd = "LOGIN">> ELSE <<request[c]>>
      ELSE <<>>,
      IF handler[c] \in {"inserting", "answering"}
            \/ (handler[c] = "replying" /\ request[c].cmd = "LOGIN")
      THEN drawn[c] ELSE NoSid,
      IF handler[c] = "keyed" THEN key[c] ELSE 0,
      IF handler[c] = "logging" THEN {found[c]} ELSE {}>>

LiveView ==
    <<client, processVars, handler, fdOwner, bufferVars, lastLogin, logVars, postVars,
      IF \E c \in Clients : handler[c] = "posted" THEN lastInsert ELSE 0,
      notify_variable, notifier, rows, sent, acked, shared,
      IF notifier \in {"writes", "marks"} THEN {current} ELSE {},
      [c \in Clients |->
          <<IF client[c] = "on" THEN <<sessionID[c], commands[c], answer[c]>> ELSE <<>>,
            AtWork(c)>>]>>
===============================================================================
