------------------------------ MODULE MCRelay ------------------------------
(* Relay on small sets of connections: all servers share one identity, so  *)
(* that a second server connection is a daemon that dials in again.        *)
EXTENDS Relay
CONSTANTS id1
MCServerOf == [x \in Conns |-> id1]
=============================================================================
