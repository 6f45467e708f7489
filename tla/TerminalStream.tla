--------------------------- MODULE TerminalStream ---------------------------
(***************************************************************************)
(* How the output of a terminal reaches a client: the PTY reader thread    *)
(* and its broadcast (crates/server/pty), the connection task and the      *)
(* stream forwarders of the daemon (daemon-core connection.rs), and the    *)
(* stream bookkeeping of the client session (client-core session.rs).      *)
(*                                                                         *)
(* Output is measured in units of OUTPUT_CHUNK_BYTES: a chunk the reader   *)
(* reads is one or more units, a StreamData frame carries one.  A byte is  *)
(* known by its position, so a frame is its sequence number; the bytes of  *)
(* the ring itself are the subject of ScrollbackRing.                      *)
(***************************************************************************)
EXTENDS Naturals, Sequences, FiniteSets, Functions

CONSTANTS
  Terminals,
  None,
  SubCap,       \* SUBSCRIBER_CAP: chunks a broadcast receiver retains
  OutCap,       \* capacity of the connection's output channel
  MaxHead,      \* bound: output of the terminals together, in units
  MaxChunk,     \* bound: units the reader reads at once
  MaxRequests   \* bound: requests the client sends on the connection

Requests == 1..MaxRequests
Ids      == 1..MaxRequests      \* stream ids: at most one for every request

\* An OpenTerminal request in the hands of the connection task.
Openings == [req : Requests, term : Terminals, stream : Ids, end : Nat \cup {None}]

ASSUME StreamAssumption ==
  /\ None \notin Terminals /\ None \notin Nat /\ None \notin Openings
  /\ SubCap \in Nat \ {0} /\ OutCap \in Nat \ {0}
  /\ MaxHead \in Nat /\ MaxChunk \in Nat \ {0} /\ MaxRequests \in Nat

VARIABLES
  head,       \* head_seq of a terminal's ring
  unsent,     \* units pushed into the ring and not yet broadcast
  sessions,   \* the terminals the session manager has
  fwd,        \* stream id -> subscription and forwarder task
  attached,   \* streams.map: the stream the connection serves, or None
  opening,    \* OpenTerminal request being handled, or None
  next_id,    \* next_local_stream_id
  outq,       \* the connection's output channel
  up, down,   \* frames on their way to the daemon, to the client
  pending,    \* client: request -> what it asked for
  sent,       \* client: requests sent so far
  active,     \* client: runtime.active
  known,      \* client: active_streams, stream id -> last_seq
  failure     \* client: the protocol error that ended the connection

server == <<head, unsent, sessions, fwd, attached, opening, next_id, outq>>
client == <<pending, sent, active, known, failure>>
vars == <<head, unsent, sessions, fwd, attached, opening, next_id, outq, up, down,
          pending, sent, active, known, failure>>

\* A stream's subscription and forwarder.  `lag` is "now" when the next recv
\* returns Lagged, "past" once it has.
Unused == [state |-> "none", term |-> None, buf |-> <<>>, pieces |-> <<>>, lag |-> "no"]

Init ==
  /\ head = [t \in Terminals |-> 0]
  /\ unsent = [t \in Terminals |-> 0]
  /\ sessions = Terminals
  /\ fwd = [i \in Ids |-> Unused]
  /\ attached = None
  /\ opening = None
  /\ next_id = 1
  /\ outq = <<>> /\ up = <<>> /\ down = <<>>
  /\ pending = [r \in Requests |-> None]
  /\ sent = 0
  /\ active = None
  /\ known = [i \in Ids |-> None]
  /\ failure = None

-----------------------------------------------------------------------------
(* spawn_reader and the session manager's reaper *)

\* ring.push, under the ring's lock.
ReaderPush(t) ==
  /\ unsent[t] = 0
  /\ \E n \in 1..MaxChunk :
       /\ FoldFunction(+, 0, head) + n <= MaxHead
       /\ head' = [head EXCEPT ![t] = @ + n]
       /\ unsent' = [unsent EXCEPT ![t] = n]
  /\ UNCHANGED <<sessions, fwd, attached, opening, next_id, outq, up, down>>
  /\ UNCHANGED client

\* Subscribed(f, t): f's broadcast receiver exists and listens to t.
Subscribed(f, t) == f.term = t /\ f.state \in {"opening", "run", "aborting"}

\* A full channel forgets its oldest chunk; the receiver gets Lagged instead.
Receive(f, chunk) ==
  IF Len(f.buf) < SubCap
  THEN [f EXCEPT !.buf = Append(@, chunk)]
  ELSE [f EXCEPT !.buf = Append(Tail(@), chunk), !.lag = "now"]

\* broadcaster.send, after the lock is released.
ReaderBroadcast(t) ==
  LET chunk == [from |-> head[t] - unsent[t], to |-> head[t]]
  IN  /\ unsent[t] # 0
      /\ unsent' = [unsent EXCEPT ![t] = 0]
      /\ fwd' = [i \in Ids |-> IF Subscribed(fwd[i], t) THEN Receive(fwd[i], chunk) ELSE fwd[i]]
      /\ UNCHANGED <<head, sessions, attached, opening, next_id, outq, up, down>>
      /\ UNCHANGED client

\* The child has exited, killed or not, and the reaper removes its entry.
Reap(t) ==
  /\ t \in sessions
  /\ sessions' = sessions \ {t}
  /\ UNCHANGED <<head, unsent, fwd, attached, opening, next_id, outq, up, down>>
  /\ UNCHANGED client

-----------------------------------------------------------------------------
(* spawn_attached_stream_forwarder; an aborted task runs on to its next await *)

Running(i) == fwd[i].state \in {"run", "aborting"} /\ fwd[i].pieces = <<>>

\* live_output_frames: one frame for every unit of the chunk.
Pieces(chunk) == [k \in 1..(chunk.to - chunk.from) |-> chunk.from + k]

FwdRecv(i) ==
  /\ Running(i)
  /\ fwd[i].lag # "now"
  /\ fwd[i].buf # <<>>
  /\ fwd' = [fwd EXCEPT ![i].buf = Tail(@), ![i].pieces = Pieces(Head(fwd[i].buf))]
  /\ UNCHANGED <<head, unsent, sessions, attached, opening, next_id, outq, up, down>>
  /\ UNCHANGED client

\* Mutant of FwdLagged: the forwarder stops when it has lagged.
MutFwdLaggedStops(i) ==
  /\ Running(i)
  /\ fwd[i].lag = "now"
  /\ fwd' = [fwd EXCEPT ![i] = [@ EXCEPT !.state = "dead", !.buf = <<>>, !.lag = "past"]]
  /\ UNCHANGED <<head, unsent, sessions, attached, opening, next_id, outq, up, down>>
  /\ UNCHANGED client

\* OutputRecv::Lagged is only logged.
FwdLagged(i) ==
  /\ Running(i)
  /\ fwd[i].lag = "now"
  /\ fwd' = [fwd EXCEPT ![i].lag = "past"]
  /\ UNCHANGED <<head, unsent, sessions, attached, opening, next_id, outq, up, down>>
  /\ UNCHANGED client

\* output_tx.send(frame).await: the channel has room.
FwdSend(i) ==
  /\ fwd[i].state \in {"run", "aborting"}
  /\ fwd[i].pieces # <<>>
  /\ Len(outq) < OutCap
  /\ outq' = Append(outq, [stream |-> i, seq |-> Head(fwd[i].pieces)])
  /\ fwd' = [fwd EXCEPT ![i].pieces = Tail(@)]
  /\ UNCHANGED <<head, unsent, sessions, attached, opening, next_id, up, down>>
  /\ UNCHANGED client

Dead(f) == [f EXCEPT !.state = "dead", !.buf = <<>>, !.pieces = <<>>]

FwdDies(i) ==
  /\ fwd[i].state = "aborting"
  /\ fwd' = [fwd EXCEPT ![i] = Dead(@)]
  /\ UNCHANGED <<head, unsent, sessions, attached, opening, next_id, outq, up, down>>
  /\ UNCHANGED client

-----------------------------------------------------------------------------
(* run_connection_post_handshake: one request, or one output frame, at a time *)

Response(kind, r) == [kind |-> kind, req |-> r, stream |-> None, seq |-> None]

\* Mutant of ServeOutput: frames of any stream are passed on.
MutServeAnyOutput ==
  /\ opening = None
  /\ outq # <<>>
  /\ outq' = Tail(outq)
  /\ down' = Append(down, [kind |-> "data", req |-> None,
                           stream |-> Head(outq).stream, seq |-> Head(outq).seq])
  /\ UNCHANGED <<head, unsent, sessions, fwd, attached, opening, next_id, up>>
  /\ UNCHANGED client

\* output_rx.recv: frames of a stream that is no longer attached are dropped.
ServeOutput ==
  /\ opening = None
  /\ outq # <<>>
  /\ outq' = Tail(outq)
  /\ down' = IF Head(outq).stream = attached
             THEN Append(down, [kind |-> "data", req |-> None,
                                stream |-> attached, seq |-> Head(outq).seq])
             ELSE down
  /\ UNCHANGED <<head, unsent, sessions, fwd, attached, opening, next_id, up>>
  /\ UNCHANGED client

\* clear_attached_streams
Aborted(f) == [i \in Ids |-> IF i = attached THEN [f[i] EXCEPT !.state = "aborting"] ELSE f[i]]

\* Mutant of ServeOpenUnknown: the request is dropped without a response.
MutServeOpenSilently ==
  /\ opening = None
  /\ up # <<>>
  /\ Head(up).kind = "open" /\ Head(up).term \notin sessions
  /\ up' = Tail(up)
  /\ UNCHANGED <<head, unsent, sessions, fwd, attached, opening, next_id, outq, down>>
  /\ UNCHANGED client

\* attach returns None: an error, and the attached stream stays.
ServeOpenUnknown ==
  /\ opening = None
  /\ up # <<>>
  /\ Head(up).kind = "open" /\ Head(up).term \notin sessions
  /\ up' = Tail(up)
  /\ down' = Append(down, Response("error", Head(up).req))
  /\ UNCHANGED <<head, unsent, sessions, fwd, attached, opening, next_id, outq>>
  /\ UNCHANGED client

\* Mutant of ServeOpen: the snapshot is taken before the subscription.
MutSnapshotFirst ==
  LET t == Head(up).term
  IN  /\ opening = None
      /\ up # <<>>
      /\ Head(up).kind = "open" /\ t \in sessions
      /\ up' = Tail(up)
      /\ attached' = None
      /\ next_id' = next_id + 1
      /\ fwd' = Aborted(fwd)
      /\ opening' = [req |-> Head(up).req, term |-> t, stream |-> next_id, end |-> head[t]]
      /\ UNCHANGED <<head, unsent, sessions, outq, down>>
      /\ UNCHANGED client

\* The other streams are cleared, then the subscription is made.
ServeOpen ==
  LET t == Head(up).term
  IN  /\ opening = None
      /\ up # <<>>
      /\ Head(up).kind = "open" /\ t \in sessions
      /\ up' = Tail(up)
      /\ attached' = None
      /\ next_id' = next_id + 1
      /\ fwd' = [Aborted(fwd) EXCEPT ![next_id] = [Unused EXCEPT !.state = "opening", !.term = t]]
      /\ opening' = [req |-> Head(up).req, term |-> t, stream |-> next_id, end |-> None]
      /\ UNCHANGED <<head, unsent, sessions, outq, down>>
      /\ UNCHANGED client

\* snapshot_with_max_bytes, under the ring's lock.
OpenSnapshot ==
  /\ opening # None
  /\ opening.end = None
  /\ opening' = [opening EXCEPT !.end = head[opening.term]]
  /\ UNCHANGED <<head, unsent, sessions, fwd, attached, next_id, outq, up, down>>
  /\ UNCHANGED client

\* The list no longer has the terminal: an error, and the subscription goes.
OpenVanished ==
  /\ opening # None
  /\ opening.end # None
  /\ opening.term \notin sessions
  /\ down' = Append(down, Response("error", opening.req))
  /\ fwd' = [fwd EXCEPT ![opening.stream] = Dead(@)]
  /\ opening' = None
  /\ UNCHANGED <<head, unsent, sessions, attached, next_id, outq, up>>
  /\ UNCHANGED client

\* The ack, then the forwarder and the entry in the map.
OpenAck ==
  /\ opening # None
  /\ opening.end # None
  /\ opening.term \in sessions
  /\ down' = Append(down, [kind |-> "ack", req |-> opening.req,
                           stream |-> opening.stream, seq |-> opening.end])
  /\ fwd' = [fwd EXCEPT ![opening.stream].state = "run", ![opening.stream].term = opening.term]
  /\ attached' = opening.stream
  /\ opening' = None
  /\ UNCHANGED <<head, unsent, sessions, next_id, outq, up>>
  /\ UNCHANGED client

\* KillTerminal: the signal is sent; the exit comes later, or came before.
ServeKill ==
  /\ opening = None
  /\ up # <<>>
  /\ Head(up).kind = "kill"
  /\ up' = Tail(up)
  /\ down' = Append(down, Response(IF Head(up).term \in sessions THEN "killed" ELSE "error",
                                   Head(up).req))
  /\ UNCHANGED <<head, unsent, sessions, fwd, attached, opening, next_id, outq>>
  /\ UNCHANGED client

-----------------------------------------------------------------------------
(* run_one_connection: session commands *)

\* clear_active: the active stream is forgotten.
ClearActive ==
  /\ active' = None
  /\ known' = [i \in Ids |-> IF active # None /\ i = active.stream THEN None ELSE known[i]]

Request(kind, t) ==
  /\ failure = None
  /\ sent < MaxRequests
  /\ sent' = sent + 1
  /\ pending' = [pending EXCEPT ![sent + 1] = [kind |-> kind, term |-> t]]
  /\ up' = Append(up, [kind |-> kind, req |-> sent + 1, term |-> t])
  /\ UNCHANGED failure

SendOpen(t) ==
  /\ Request("open", t)
  /\ ClearActive
  /\ UNCHANGED server /\ UNCHANGED down

SendKill(t) ==
  /\ Request("kill", t)
  /\ IF active # None /\ active.term = t THEN ClearActive ELSE UNCHANGED <<active, known>>
  /\ UNCHANGED server /\ UNCHANGED down

-----------------------------------------------------------------------------
(* handle_inbound_frame *)

Inbound(kind) == failure = None /\ down # <<>> /\ Head(down).kind = kind /\ down' = Tail(down)

\* A response to a request that is not pending ends the connection.
Answered(r) == pending' = [pending EXCEPT ![r] = None]

\* set_active, complete_open_terminal
RecvAck ==
  LET f == Head(down)
  IN  /\ Inbound("ack")
      /\ Answered(f.req)
      /\ active' = [term |-> pending[f.req].term, stream |-> f.stream]
      /\ known' = [known EXCEPT ![f.stream] = f.seq]
      /\ UNCHANGED <<sent, failure, up>> /\ UNCHANGED server

\* fail_request, and the answer to KillTerminal.
RecvResponse ==
  /\ Inbound("error") \/ Inbound("killed")
  /\ Answered(Head(down).req)
  /\ UNCHANGED <<sent, active, known, failure, up>> /\ UNCHANGED server

\* handle_stream_data_frame: in the order of its tests.
RecvData ==
  LET i == Head(down).stream
      n == Head(down).seq
  IN  /\ Inbound("data")
      /\ \/ /\ known[i] = None
            /\ failure' = "stream data on unknown stream"
            /\ UNCHANGED known
         \/ /\ known[i] # None
            /\ active = None \/ active.stream # i
            /\ UNCHANGED <<known, failure>>
         \/ /\ known[i] # None /\ active # None /\ active.stream = i
            /\ n < known[i]
            /\ failure' = "output sequence moved backwards"
            /\ UNCHANGED known
         \/ /\ known[i] # None /\ active # None /\ active.stream = i
            /\ n >= known[i]
            /\ known' = [known EXCEPT ![i] = n]
            /\ UNCHANGED failure
      /\ UNCHANGED <<pending, sent, active, up>> /\ UNCHANGED server

-----------------------------------------------------------------------------
ServerStep ==
  \/ ServeOutput \/ ServeOpenUnknown \/ ServeOpen \/ ServeKill
  \/ OpenSnapshot \/ OpenVanished \/ OpenAck

Forward(i) == FwdRecv(i) \/ FwdLagged(i) \/ FwdSend(i) \/ FwdDies(i)

ClientStep == RecvAck \/ RecvResponse \/ RecvData

Next ==
  \/ \E t \in Terminals : ReaderPush(t) \/ ReaderBroadcast(t) \/ Reap(t)
                          \/ SendOpen(t) \/ SendKill(t)
  \/ \E i \in Ids : Forward(i)
  \/ ServerStep
  \/ ClientStep

\* Tasks and threads that can run do; terminals and the user are free.
Fairness ==
  /\ \A t \in Terminals : WF_vars(ReaderBroadcast(t))
  /\ \A i \in Ids : WF_vars(Forward(i))
  /\ WF_vars(ServeOutput)
  /\ WF_vars(ServeOpenUnknown \/ ServeOpen \/ ServeKill \/ OpenSnapshot \/ OpenVanished \/ OpenAck)
  /\ WF_vars(ClientStep)

Spec == Init /\ [][Next]_vars /\ Fairness

-----------------------------------------------------------------------------
(* Properties *)

\* The types of the variables.  The broadcast receivers and the connection's
\* output channel stay within their capacities, and the attached stream is one
\* whose forwarder runs.
TypeOK ==
  /\ head \in [Terminals -> 0..MaxHead]
  /\ unsent \in [Terminals -> 0..MaxChunk]
  /\ sessions \subseteq Terminals
  /\ \A i \in Ids : /\ fwd[i].state \in {"none", "opening", "run", "aborting", "dead"}
                    /\ fwd[i].term \in Terminals \cup {None}
                    /\ fwd[i].lag \in {"no", "now", "past"}
                    /\ Len(fwd[i].buf) <= SubCap
  /\ attached \in Ids \cup {None}
  /\ attached # None => fwd[attached].state = "run" /\ opening = None
  /\ next_id \in 1..(sent + 1)
  /\ Len(outq) <= OutCap
  /\ sent \in 0..MaxRequests
  /\ known \in [Ids -> 0..MaxHead \cup {None}]
  /\ \A r \in Requests : pending[r] # None => r <= sent

\* The acks already received, or still on the way before position k.
AckedBefore(k) ==
  {i \in Ids : known[i] # None} \cup
  {down[j].stream : j \in {j \in 1..(k - 1) : down[j].kind = "ack"}}

\* No output of a stream follows the ack of a later one: what an aborted
\* forwarder had queued never reaches the client behind the new snapshot.
SwitchIsClean ==
  failure = None =>
    \A k \in DOMAIN down : down[k].kind = "data" =>
      \A i \in AckedBefore(k) : i <= down[k].stream

\* Between the snapshot in the ack and the live output nothing is missing: a
\* frame the client takes continues its last_seq, unless the subscription has
\* lagged.
ContiguousUnlessLagged ==
  [][\A i \in Ids : known[i] # None /\ known'[i] # None =>
       known'[i] <= known[i] + 1 \/ fwd[i].lag # "no"]_vars

\* Every request is answered, or the connection ends.
EveryRequestAnswered ==
  \A r \in Requests : (pending[r] # None) ~> (pending[r] = None \/ failure # None)

\* The client that stays on a terminal gets to see its latest output, even
\* after the subscription has lagged, as long as the daemon serves the stream.
CatchesUp ==
  \A t \in Terminals :
    []<>(\/ failure # None
         \/ active = None
         \/ active.term # t \/ attached # active.stream
         \/ known[active.stream] = head[t])

\* session.rs: output of a stream the client does not know is a protocol error
\* of the daemon.
KnownStreamsOnly == failure # "stream data on unknown stream"

\* session.rs: an output sequence that moves backwards is a protocol error of
\* the daemon.
SequenceForward == failure # "output sequence moved backwards"
=============================================================================
