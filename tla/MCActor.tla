------------------------------ MODULE MCActor -------------------------------
(* Two connects, a request, an input and a close in any order; channels of  *)
(* the least size at which each of them can be full.                        *)
EXTENDS SessionActor

MCOp == [c1 |-> "connect", c2 |-> "connect", open |-> "request",
         key |-> "input", bye |-> "close"]
MCCalls == DOMAIN MCOp
=============================================================================
