---------------------------- MODULE ClientInput -----------------------------
(***************************************************************************)
(* The commands of a terminal handle (client-core terminal.rs) and their   *)
(* way through the session loop (session.rs): input is gathered for a      *)
(* short window, what does not fit the batch is deferred, and a command    *)
(* for a terminal that is not the active one is dropped.                   *)
(*                                                                         *)
(* A command is known by its number in the order of issue, and a queue is  *)
(* a sequence of numbers: input that is merged stands side by side in it,  *)
(* in the order of its bytes.  The session commands that replace or kill   *)
(* the active terminal, and the responses that set it, are taken from      *)
(* ClientSession as far as they compete with terminal commands for the     *)
(* loop.                                                                   *)
(***************************************************************************)
EXTENDS Naturals, Sequences, SequencesExt, FiniteSets

CONSTANTS
  Terminals,
  None,
  Window,       \* input_batch_window_ms() # 0
  MaxCmds,      \* bound: commands issued
  MaxOpens      \* bound: OpenTerminal commands

CmdKinds == {"input", "resize", "kill"}

ASSUME InputAssumption ==
  None \notin Terminals /\ Window \in BOOLEAN /\ MaxCmds \in Nat /\ MaxOpens \in Nat

VARIABLES
  issued,     \* history: the commands in order of issue
  chan,       \* cmd_rx
  batch,      \* what batch_input_command has gathered; <<>> when it is not running
  deferred,   \* deferred_cmds
  pending,    \* pending_cmds
  active,     \* the terminal of the shared handle, or None
  opening,    \* terminals whose OpenTerminal awaits its response
  gen,        \* history: how often a terminal has become active
  log,        \* history: commands sent, each with gen at that time
  dropped     \* history: numbers of commands dropped

inputVars == <<issued, chan, batch, deferred, pending, active, opening, gen, log, dropped>>

InputInit ==
  /\ issued = <<>> /\ chan = <<>> /\ batch = <<>> /\ deferred = <<>> /\ pending = <<>>
  /\ active = None /\ opening = <<>> /\ gen = 0
  /\ log = <<>> /\ dropped = {}

-----------------------------------------------------------------------------
(* TerminalHandle: write_input, resize, kill *)

\* A handle may be a clone kept from before its terminal was replaced.
Issue(t, kind) ==
  /\ gen > 0 /\ Len(issued) < MaxCmds
  /\ issued' = Append(issued, [kind |-> kind, term |-> t,
                               gen |-> IF active = t THEN gen ELSE 0])
  /\ chan' = Append(chan, Len(issued) + 1)
  /\ UNCHANGED <<batch, deferred, pending, active, opening, gen, log, dropped>>

-----------------------------------------------------------------------------
(* Merging *)

\* try_merge_input_command: the bytes of n go behind those of m.
Mergeable(m, n) ==
  issued[m].kind = "input" /\ issued[n].kind = "input" /\ issued[m].term = issued[n].term

\* coalesce_pending_input_front: the front takes in what follows as long as it
\* fits; how many commands it then is.
coalesce_pending_input_front(q) ==
  LET fits(k) == \A i \in 2..k : Mergeable(q[1], q[i])
  IN  CHOOSE k \in 1..Len(q) : fits(k) /\ (k = Len(q) \/ ~fits(k + 1))

-----------------------------------------------------------------------------
(* The session loop *)

Free == batch = <<>> /\ pending = <<>>

\* A command is read; input opens a batch.
TakeCommand ==
  /\ Free /\ chan # <<>>
  /\ IF issued[Head(chan)].kind = "input" /\ Window
     THEN batch' = <<Head(chan)>> /\ UNCHANGED pending
     ELSE pending' = <<Head(chan)>> /\ UNCHANGED batch
  /\ chan' = Tail(chan)
  /\ UNCHANGED <<issued, deferred, active, opening, gen, log, dropped>>

\* Within the window: merge into the batch or defer.
Gather ==
  /\ batch # <<>> /\ chan # <<>>
  /\ IF Mergeable(batch[1], Head(chan))
     THEN batch' = Append(batch, Head(chan)) /\ UNCHANGED deferred
     ELSE deferred' = Append(deferred, Head(chan)) /\ UNCHANGED batch
  /\ chan' = Tail(chan)
  /\ UNCHANGED <<issued, pending, active, opening, gen, log, dropped>>

\* Mutant of WindowCloses: what was deferred goes in front.
MutDeferredFirst ==
  /\ batch # <<>>
  /\ pending' = deferred \o batch
  /\ batch' = <<>> /\ deferred' = <<>>
  /\ UNCHANGED <<issued, chan, active, opening, gen, log, dropped>>

WindowCloses ==
  /\ batch # <<>>
  /\ pending' = batch \o deferred
  /\ batch' = <<>> /\ deferred' = <<>>
  /\ UNCHANGED <<issued, chan, active, opening, gen, log, dropped>>

\* Mutant of SendFront: the front waits until its terminal is active.
MutWaitsForActive ==
  /\ batch = <<>> /\ pending # <<>>
  /\ LET k == coalesce_pending_input_front(pending)
     IN  /\ issued[pending[1]].term = active
         /\ pending' = SubSeq(pending, k + 1, Len(pending))
         /\ log' = log \o [i \in 1..k |-> [num |-> pending[i], gen |-> gen]]
  /\ UNCHANGED <<issued, chan, batch, deferred, active, opening, gen, dropped>>

\* frame_for_command on the front of pending_cmds, and the send.
SendFront ==
  /\ batch = <<>> /\ pending # <<>>
  /\ LET k == coalesce_pending_input_front(pending)
     IN  /\ pending' = SubSeq(pending, k + 1, Len(pending))
         /\ IF issued[pending[1]].term = active
            THEN /\ log' = log \o [i \in 1..k |-> [num |-> pending[i], gen |-> gen]]
                 /\ UNCHANGED dropped
            ELSE dropped' = dropped \cup {pending[i] : i \in 1..k} /\ UNCHANGED log
  /\ UNCHANGED <<issued, chan, batch, deferred, active, opening, gen>>

\* OpenTerminal or KillTerminal of the session clears the active terminal.
SessionOpen(t) ==
  /\ Free /\ gen + Len(opening) < MaxOpens
  /\ active' = None
  /\ opening' = Append(opening, t)
  /\ UNCHANGED <<issued, chan, batch, deferred, pending, gen, log, dropped>>

SessionKill ==
  /\ Free /\ active # None
  /\ active' = None
  /\ UNCHANGED <<issued, chan, batch, deferred, pending, opening, gen, log, dropped>>

\* Mutant of RecvOpenAck: a response is read although commands are waiting.
MutReadsAhead ==
  /\ batch = <<>> /\ opening # <<>>
  /\ active' = Head(opening) /\ opening' = Tail(opening)
  /\ gen' = gen + 1
  /\ UNCHANGED <<issued, chan, batch, deferred, pending, log, dropped>>

\* The transport is read only when no command is waiting.
RecvOpenAck ==
  /\ Free /\ chan = <<>> /\ opening # <<>>
  /\ active' = Head(opening) /\ opening' = Tail(opening)
  /\ gen' = gen + 1
  /\ UNCHANGED <<issued, chan, batch, deferred, pending, log, dropped>>

\* The connection ends, in a send or a receive; what is pending stays for the
\* next one, whose runtime has no terminal.
ConnectionLost ==
  /\ batch = <<>> /\ (active # None \/ opening # <<>>)
  /\ active' = None /\ opening' = <<>>
  /\ UNCHANGED <<issued, chan, batch, deferred, pending, gen, log, dropped>>

InputStep == TakeCommand \/ Gather \/ WindowCloses \/ SendFront

InputNext ==
  \/ \E t \in Terminals, kind \in CmdKinds : Issue(t, kind)
  \/ InputStep
  \/ \E t \in Terminals : SessionOpen(t)
  \/ SessionKill \/ RecvOpenAck \/ ConnectionLost

InputSpec == InputInit /\ [][InputNext]_inputVars /\ WF_inputVars(InputStep)

-----------------------------------------------------------------------------
(* Properties *)

\* The numbers of the commands sent, in the order in which they take effect.
Sent == [i \in DOMAIN log |-> log[i].num]

\* No command is sent twice, and the commands of a terminal are sent in the
\* order they were issued, however they were batched, deferred or coalesced,
\* with one exception: input that is merged into a batch overtakes a resize or
\* a kill issued before it (session.rs:1169-1245).
CommandsInOrder ==
  \A i, j \in DOMAIN Sent : i < j =>
    \/ Sent[i] < Sent[j]
    \/ Sent[i] # Sent[j] /\ issued[Sent[i]].term # issued[Sent[j]].term
    \/ Sent[i] # Sent[j] /\ issued[Sent[i]].kind = "input" /\ issued[Sent[j]].kind # "input"

\* A command reaches the daemon only in the attachment it was issued in: typed
\* before a terminal was replaced, killed or lost with the connection, it is
\* not replayed into the terminal when that is opened again.  It rests on the
\* loop draining the commands before it reads a response (session.rs:600-660).
NoStaleInput ==
  \A i \in DOMAIN log : issued[log[i].num].gen = log[i].gen

\* Every command issued is sent or dropped: none waits for input that may
\* never come.
Flushed ==
  \A n \in 1..MaxCmds :
    n \in DOMAIN issued ~> n \in Range(Sent) \cup dropped
=============================================================================
