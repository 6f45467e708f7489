--------------------------- MODULE CommandReplies ---------------------------
(***************************************************************************)
(* What a client session promises a caller of create_terminal,             *)
(* open_terminal, list_terminals, read_history, get_config, set_config and *)
(* kill: the call returns, it returns once, and it returns Ok only for a   *)
(* request the daemon has carried out.  A call that returns an error says  *)
(* nothing about the daemon: the request may have been carried out, and    *)
(* may still be.                                                           *)
(***************************************************************************)
EXTENDS Naturals

CONSTANT Cmds

VARIABLES
  reply,     \* Cmds -> what the caller knows
  served     \* Cmds -> how often the daemon has carried the command out

Replies == {"idle", "waiting", "ok", "failed", "closed"}

Init ==
  /\ reply = [c \in Cmds |-> "idle"]
  /\ served = [c \in Cmds |-> 0]

\* One call begins, calls end, the daemon carries requests out: the end of a
\* connection does several of these at once.
Next ==
  /\ reply' \in [Cmds -> Replies]
  /\ \E more \in [Cmds -> 0..1] :
       /\ \A c \in Cmds : more[c] = 1 => reply[c] # "idle"
       /\ served' = [c \in Cmds |-> served[c] + more[c]]
  /\ \A c \in Cmds :
       \/ reply'[c] = reply[c]
       \/ reply[c] = "idle" /\ reply'[c] \in {"waiting", "closed"}
       \/ reply[c] = "waiting" /\ reply'[c] \in {"failed", "closed"}
       \/ reply[c] = "waiting" /\ reply'[c] = "ok" /\ served[c] > 0

\* Every call returns.
Spec ==
  /\ Init /\ [][Next]_<<reply, served>>
  /\ \A c \in Cmds : reply[c] = "waiting" ~> reply[c] # "waiting"
=============================================================================
