--------------------------- MODULE MCNotifyHandoff ---------------------------
(* Model values for checking NotifyHandoff.                                *)
EXTENDS NotifyHandoff

CONSTANTS h1, h2, h3, u1

ThreeHandlers == {h1, h2, h3}
OneUser == {u1}
=============================================================================
