----------------------------- MODULE MCSession ------------------------------
(* Two calls, one of them replacing the client's terminal, on a relayed     *)
(* connection; the heartbeat timer of 10 s, its limit of 30 s.              *)
EXTENDS ClientSession

MCCmds == {"attach", "look"}
MCKind == [attach |-> "open", look |-> "list"]
MCBackoff == [start |-> 50, max |-> 150, mul |-> 20]
=============================================================================
