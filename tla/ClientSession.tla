--------------------------- MODULE ClientSession ----------------------------
(***************************************************************************)
(* The session loop of the client (client-core session.rs, relay.rs,       *)
(* reconnect.rs): it connects, sets a session up, sends the commands of    *)
(* its callers as requests, matches the responses, watches the peer with   *)
(* a heartbeat, and after a failure decides whether to connect again.      *)
(*                                                                         *)
(* A command is known by its name and its kind; what it carries is left    *)
(* out.  Frames of terminal output are the subject of TerminalStream, the  *)
(* commands of a terminal handle that of ClientInput.  Time advances in    *)
(* units of HEARTBEAT_IDLE_MS.  The daemon is external: it answers the     *)
(* requests of a connection in order, and it may stop doing so.            *)
(***************************************************************************)
EXTENDS Naturals, Sequences, SequencesExt, FiniteSets

CONSTANTS
  Cmds,          \* the calls callers make
  Kind,          \* Cmds -> the kind of the request
  Relay,         \* TRUE: SessionEndpoint::Relay, FALSE: Direct
  Idle, Limit,   \* HEARTBEAT_IDLE_MS, HEARTBEAT_TIMEOUT_MS in units of time
  Backoff,       \* config.backoff: [start, max, mul] in ms, mul times ten
  IdMax,         \* the largest request id, u32::MAX
  MaxFaults      \* bound: what the network and the daemon do wrong

Kinds  == {"create", "open", "list", "history", "get_config", "set_config", "kill"}
Bye    == "shutdown"      \* SessionCommand::Shutdown in the command channel

ASSUME SessionAssumption ==
  /\ Kind \in [Cmds -> Kinds] /\ {Bye, "ping"} \cap Cmds = {} /\ Relay \in BOOLEAN
  /\ Idle \in Nat \ {0} /\ Limit \in Nat /\ Limit > Idle
  /\ Backoff \in [start : Nat, max : Nat, mul : Nat]
  /\ IdMax \in Nat \ {0} /\ MaxFaults \in Nat

VARIABLES
  phase,       \* where run_session_loop is
  ever,        \* ever_connected
  delay,       \* the next backoff
  stop,        \* stop_requested
  held,        \* some ClientSession still exists
  chan,        \* session_cmd_rx: commands and Shutdown in the channel
  pending,     \* pending_session_cmds
  reqs,        \* runtime.pending_requests: request id -> command
  next_id,     \* next_request_id
  handle,      \* the shared TerminalHandle exists (so does runtime.active)
  elapsed,     \* time since last_inbound_at_ms
  ping,        \* ping_outstanding
  up, down,    \* frames on their way to the daemon, to the client
  peer,        \* "up", "hung" or "closed"
  reply,       \* what the caller of a command knows
  told,        \* the last ClientEvent about the connection
  served,      \* history: how often the daemon carried a command out
  sent,        \* history: how often a command was sent successfully
  since,       \* history: time since the outstanding ping was sent
  stalled,     \* history: time passed although the heartbeat was due
  faults

loop == <<phase, ever, delay, told>>
runtime == <<reqs, next_id, handle>>
beat == <<elapsed, ping, since, stalled>>
wire == <<up, down, peer>>
calls == <<stop, held, chan, reply>>
vars == <<loop, calls, pending, runtime, beat, wire, served, sent, faults>>

Init ==
  /\ phase = "top" /\ ever = FALSE /\ delay = Backoff.start /\ told = "none"
  /\ stop = FALSE /\ held = TRUE
  /\ chan = <<>> /\ pending = <<>>
  /\ reqs = <<>> /\ next_id = 1 /\ handle = FALSE
  /\ elapsed = 0 /\ ping = FALSE /\ since = 0 /\ stalled = FALSE
  /\ up = <<>> /\ down = <<>> /\ peer = "closed"
  /\ reply = [c \in Cmds |-> "idle"]
  /\ served = [c \in Cmds |-> 0] /\ sent = [c \in Cmds |-> 0]
  /\ faults = 0

Fault == faults < MaxFaults /\ faults' = faults + 1

-----------------------------------------------------------------------------
(* reconnect.rs and the decision to retry *)

next_delay(cur) ==
  LET scaled == (cur * Backoff.mul) \div 10
      capped == IF scaled < Backoff.max THEN scaled ELSE Backoff.max
  IN  IF capped > 50 THEN capped ELSE 50

should_retry_after_disconnect(err) == err \notin {"rejected", "closed"}

-----------------------------------------------------------------------------
(* ClientSession: the callers *)

\* A call queues its command; on a session that is over it fails at once.
Call(c) ==
  /\ held /\ reply[c] = "idle"
  /\ IF phase = "end"
     THEN reply' = [reply EXCEPT ![c] = "closed"] /\ UNCHANGED chan
     ELSE reply' = [reply EXCEPT ![c] = "waiting"] /\ chan' = Append(chan, c)
  /\ UNCHANGED <<loop, stop, held, pending, runtime, beat, wire, served, sent, faults>>

\* Mutant of Shutdown: only the flag is set, which a connected loop does not read.
MutShutdownFlagOnly ==
  /\ held /\ ~stop
  /\ stop' = TRUE
  /\ UNCHANGED <<loop, chan, held, reply, pending, runtime, beat, wire, served, sent, faults>>

\* shutdown sets the flag and then queues Shutdown.
Shutdown ==
  /\ held /\ ~stop
  /\ stop' = TRUE
  /\ chan' = IF phase = "end" THEN chan ELSE Append(chan, Bye)
  /\ UNCHANGED <<loop, held, reply, pending, runtime, beat, wire, served, sent, faults>>

\* The last ClientSession is dropped; a call in progress borrows one.
DropSession ==
  /\ held /\ \A c \in Cmds : reply[c] # "waiting"
  /\ held' = FALSE
  /\ UNCHANGED <<loop, stop, chan, reply, pending, runtime, beat, wire, served, sent, faults>>

-----------------------------------------------------------------------------
(* run_session_loop *)

Commands(q) == {q[i] : i \in DOMAIN q} \ {Bye}
InFlight == {reqs[i] : i \in DOMAIN reqs}

\* The task returns: the queues are dropped with the reply senders in them.
Returns(waiting) == reply' = [c \in Cmds |-> IF c \in waiting THEN "closed" ELSE reply[c]]

Top ==
  /\ phase = "top"
  /\ IF stop
     THEN /\ phase' = "end" /\ Returns(Commands(chan) \cup Commands(pending))
          /\ chan' = <<>> /\ pending' = <<>> /\ UNCHANGED told
     ELSE /\ phase' = "connect" /\ told' = "connecting"
          /\ UNCHANGED <<chan, reply, pending>>
  /\ UNCHANGED <<ever, delay, stop, held, runtime, beat, wire, served, sent, faults>>

\* connect_transport_with_timeout returned an error.
ConnectFails(err) ==
  LET retry == ever /\ should_retry_after_disconnect(err)
  IN  /\ phase = "connect" /\ Fault
      /\ told' = IF stop THEN told ELSE IF retry THEN "retrying" ELSE "disconnected"
      /\ IF stop \/ ~retry
         THEN /\ phase' = "end" /\ Returns(Commands(chan) \cup Commands(pending))
              /\ chan' = <<>> /\ pending' = <<>>
         ELSE phase' = "backoff" /\ UNCHANGED <<chan, reply, pending>>
      /\ UNCHANGED <<ever, delay, stop, held, runtime, beat, wire, served, sent>>

Connects ==
  /\ phase = "connect"
  /\ phase' = IF Relay THEN "pair" ELSE "setup"
  /\ UNCHANGED <<ever, delay, told, calls, pending, runtime, beat, wire, served, sent, faults>>

\* The end of run_one_connection and what the loop does about it.  `fate` is
\* what the callers of requests in flight learn: "failed" when the connection
\* loop breaks and fails them, "closed" when it returns and drops them.  The
\* daemon may still carry out what was sent on the old connection.
AfterConnection(outcome, reached, fate, chan2, pending2, up2) ==
  LET retry == (reached \/ ever) /\ should_retry_after_disconnect(outcome)
      ends == stop \/ ~retry
      queued == Commands(chan2) \cup Commands(pending2)
      lost == InFlight \ Commands(pending2)
  IN  /\ \E delivered \in SUBSET DOMAIN up2 :
           served' = [c \in Cmds |-> served[c] + Cardinality({i \in delivered : up2[i].cmd = c})]
      /\ up' = <<>> /\ down' = <<>> /\ peer' = "closed"
      /\ reqs' = <<>> /\ next_id' = 1 /\ handle' = FALSE
      /\ elapsed' = 0 /\ ping' = FALSE /\ since' = 0 /\ stalled' = FALSE
      /\ ever' = (ever \/ (reached /\ ~stop))
      /\ delay' = IF reached /\ ~stop THEN Backoff.start ELSE delay
      /\ told' = IF stop THEN told ELSE IF retry THEN "retrying" ELSE "disconnected"
      /\ phase' = IF ends THEN "end" ELSE "backoff"
      /\ chan' = IF ends THEN <<>> ELSE chan2
      /\ pending' = IF ends THEN <<>> ELSE pending2
      /\ reply' = [c \in Cmds |-> IF c \in lost THEN fate
                                  ELSE IF ends /\ c \in queued THEN "closed" ELSE reply[c]]
      /\ UNCHANGED <<stop, held>>

\* sleep_backoff, then the next delay.
WakeUp ==
  /\ phase = "backoff"
  /\ phase' = "top"
  /\ delay' = next_delay(delay)
  /\ UNCHANGED <<ever, told, calls, pending, runtime, beat, wire, served, sent, faults>>

-----------------------------------------------------------------------------
(* run_one_connection: setting up *)

\* open_client_pair: ClientOpen is sent and PairAccepted awaited.
PairOpens ==
  /\ phase = "pair"
  /\ phase' = "setup"
  /\ UNCHANGED <<ever, delay, told, calls, pending, runtime, beat, wire, served, sent, faults>>

\* establish_session fails or runs out of time.
SetupFails(err) ==
  /\ phase \in {"pair", "setup"} /\ Fault
  /\ AfterConnection(err, FALSE, "closed", chan, pending, <<>>)
  /\ UNCHANGED sent

\* The Noise handshake, Hello and HelloOk; the runtime starts empty.
Established ==
  /\ phase = "setup"
  /\ phase' = "run" /\ told' = "connected"
  /\ peer' = "up"
  /\ UNCHANGED <<ever, delay, calls, pending, runtime, beat, up, down, served, sent, faults>>

-----------------------------------------------------------------------------
(* run_one_connection: the heartbeat *)

PingDue == ~ping /\ elapsed >= Idle

\* Mutants of TimedOut: the ping is given no time of its own; a silent peer is
\* waited for for ever.
MutTimesOutAtIdle == ping /\ elapsed >= Idle
MutNeverTimesOut == FALSE

TimedOut == ping /\ elapsed >= Limit
Quiet == ~PingDue /\ ~TimedOut

\* The channels are polled before the transport, and only with empty queues.
Listening == phase = "run" /\ pending = <<>> /\ chan = <<>> /\ held

TimePasses ==
  /\ phase = "run" /\ elapsed < Limit
  /\ elapsed' = elapsed + 1
  /\ since' = IF ping THEN since + 1 ELSE 0
  /\ stalled' = (stalled \/ PingDue)
  /\ UNCHANGED <<loop, calls, pending, runtime, ping, wire, served, sent>>

\* Time passes while the loop waits and nobody has anything to do.
Tick ==
  /\ Listening /\ Quiet /\ down = <<>> /\ (peer = "up" => up = <<>>)
  /\ TimePasses
  /\ UNCHANGED faults

\* A slow daemon, or a loop held up in a send, by a full event channel or by
\* a suspended device.  Past the time a ping was due it is a stall.
Slow == Fault /\ TimePasses

SendPing ==
  /\ phase = "run" /\ PingDue
  /\ ping' = TRUE /\ since' = 0
  /\ up' = IF peer = "up" THEN Append(up, [id |-> 0, cmd |-> "ping"]) ELSE up
  /\ UNCHANGED <<loop, calls, pending, runtime, elapsed, stalled, down, peer, served, sent, faults>>

\* The silence is noticed at the head of the loop, which breaks, or in
\* recv_with_heartbeat while the loop listens, whose error is returned.
HeartbeatTimeout ==
  /\ phase = "run" /\ TimedOut
  /\ \/ AfterConnection("transport", TRUE, "failed", chan, pending, up)
     \/ Listening /\ AfterConnection("transport", TRUE, "closed", chan, pending, up)
  /\ UNCHANGED <<sent, faults>>

-----------------------------------------------------------------------------
(* run_one_connection: commands *)

\* Commands kept from before go first; only then is the channel read.
HasCommand == pending # <<>> \/ (chan # <<>> /\ Head(chan) # Bye)
NextCommand == IF pending # <<>> THEN Head(pending) ELSE Head(chan)
ChanLeft == IF pending # <<>> THEN chan ELSE Tail(chan)

\* Mutant of Kept: a command read from the channel is not kept while it is sent.
MutKeepsOldOnly == IF pending # <<>> THEN pending ELSE <<Bye>>

\* What pending_session_cmds holds while its front is sent.
Kept == IF pending # <<>> THEN pending ELSE <<Head(chan)>>

\* record_create, record_list, record_history and so on: the request waits
\* under its id.
Recorded(c) == [i \in DOMAIN reqs \cup {next_id} |-> IF i = next_id THEN c ELSE reqs[i]]

\* Mutant of SendCommand: the command is not popped after the send.
MutSendWithoutPop ==
  /\ phase = "run" /\ Quiet /\ HasCommand
  /\ LET c == NextCommand IN
       /\ reqs' = Recorded(c)
       /\ next_id' = IF next_id < IdMax THEN next_id + 1 ELSE next_id
       /\ handle' = (handle /\ Kind[c] \notin {"open", "kill"})
       /\ up' = IF peer = "up" THEN Append(up, [id |-> next_id, cmd |-> c]) ELSE up
       /\ sent' = [sent EXCEPT ![c] = @ + 1]
       /\ pending' = Kept /\ chan' = ChanLeft
  /\ UNCHANGED <<loop, stop, held, reply, beat, down, peer, served, faults>>

\* frame_for_session_command records the request, clears the terminal that is
\* replaced or killed, and the frame is sent; then the command is forgotten.
SendCommand ==
  /\ phase = "run" /\ Quiet /\ HasCommand
  /\ LET c == NextCommand IN
       /\ reqs' = Recorded(c)
       /\ reply' = [d \in Cmds |-> IF next_id \in DOMAIN reqs /\ reqs[next_id] = d
                                   THEN "closed" ELSE reply[d]]
       /\ next_id' = IF next_id < IdMax THEN next_id + 1 ELSE next_id
       /\ handle' = (handle /\ Kind[c] \notin {"open", "kill"})
       /\ up' = IF peer = "up" THEN Append(up, [id |-> next_id, cmd |-> c]) ELSE up
       /\ sent' = [sent EXCEPT ![c] = @ + 1]
       /\ pending' = Tail(Kept) /\ chan' = ChanLeft
  /\ UNCHANGED <<loop, stop, held, beat, down, peer, served, faults>>

\* The send fails: the command stays in pending_session_cmds for the next
\* connection.  The frame may have reached the daemon all the same.
SendFails ==
  /\ phase = "run" /\ Quiet /\ HasCommand /\ Fault
  /\ AfterConnection("transport", TRUE, "closed", ChanLeft, Kept,
                     Append(up, [id |-> next_id, cmd |-> NextCommand]))
  /\ UNCHANGED sent

\* Shutdown is taken from the channel.
TakeShutdown ==
  /\ phase = "run" /\ Quiet /\ pending = <<>> /\ chan # <<>> /\ Head(chan) = Bye
  /\ AfterConnection("ok", TRUE, "closed", Tail(chan), pending, up)
  /\ UNCHANGED <<sent, faults>>

\* No ClientSession is left, so session_cmd_rx yields None.
Abandoned ==
  /\ phase = "run" /\ Quiet /\ ~held /\ pending = <<>> /\ chan = <<>>
  /\ AfterConnection("closed", TRUE, "closed", chan, pending, up)
  /\ UNCHANGED <<sent, faults>>

-----------------------------------------------------------------------------
(* run_one_connection: frames *)

on_inbound == elapsed' = 0 /\ ping' = FALSE /\ since' = 0 /\ stalled' = FALSE

\* handle_response_frame, and fail_request for an error response.
Response(f) ==
  IF f.id \in DOMAIN reqs /\ Kind[reqs[f.id]] = f.kind
  THEN LET c == reqs[f.id] IN
       /\ reqs' = [i \in DOMAIN reqs \ {f.id} |-> reqs[i]]
       /\ reply' = [reply EXCEPT ![c] = IF f.ok THEN "ok" ELSE "failed"]
       /\ handle' = (handle \/ (f.ok /\ f.kind = "open"))
       /\ down' = Tail(down)
       /\ on_inbound
       /\ UNCHANGED <<loop, stop, held, chan, pending, next_id, up, peer, served>>
  ELSE AfterConnection("proto", TRUE, "closed", chan, pending, up)

\* handle_inbound_frame
ReceiveFrame ==
  /\ Listening /\ down # <<>>
  /\ LET f == Head(down) IN
       \/ f.type = "response" /\ Response(f)
       \/ /\ f.type = "bye"
          /\ AfterConnection(IF f.recoverable THEN "closed" ELSE "rejected",
                             TRUE, "failed", chan, pending, up)
       \/ f.type = "bad" /\ AfterConnection("proto", TRUE, "closed", chan, pending, up)
       \/ /\ f.type \in {"ping", "pong", "event"}
          /\ down' = Tail(down) /\ on_inbound
          /\ UNCHANGED <<loop, calls, pending, runtime, up, peer, served>>
  /\ UNCHANGED <<sent, faults>>

\* recv yields None: the peer closed the connection.
RemoteCloses ==
  /\ Listening /\ down = <<>> /\ peer = "closed"
  /\ AfterConnection("closed", TRUE, "closed", chan, pending, up)
  /\ UNCHANGED <<sent, faults>>

\* recv yields an error.
RecvFails ==
  /\ Listening /\ Fault
  /\ AfterConnection("transport", TRUE, "closed", chan, pending, up)
  /\ UNCHANGED sent

-----------------------------------------------------------------------------
(* The daemon at the other end (external) *)

Serve(ok) ==
  /\ peer = "up" /\ up # <<>>
  /\ LET r == Head(up) IN
       IF r.cmd = "ping"
       THEN ok /\ down' = Append(down, [type |-> "pong"]) /\ UNCHANGED served
       ELSE /\ down' = Append(down, [type |-> "response", id |-> r.id, kind |-> Kind[r.cmd], ok |-> ok])
            /\ served' = IF ok THEN [served EXCEPT ![r.cmd] = @ + 1] ELSE served
  /\ up' = Tail(up)
  /\ UNCHANGED <<loop, calls, pending, runtime, beat, peer, sent, faults>>

\* Frames nobody asked for: a Ping or an Event, and a frame the client rejects.
Unasked(type) ==
  /\ peer = "up" /\ Fault
  /\ down' = Append(down, [type |-> type])
  /\ UNCHANGED <<loop, calls, pending, runtime, beat, up, peer, served, sent>>

SayBye(recoverable) ==
  /\ peer = "up" /\ Fault
  /\ down' = Append(down, [type |-> "bye", recoverable |-> recoverable])
  /\ peer' = "closed"
  /\ UNCHANGED <<loop, calls, pending, runtime, beat, up, served, sent>>

\* The daemon closes the connection, or it and the network fall silent.
PeerStops(how) ==
  /\ peer = "up" /\ Fault
  /\ peer' = how
  /\ UNCHANGED <<loop, calls, pending, runtime, beat, up, down, served, sent>>

-----------------------------------------------------------------------------
LoopStep ==
  \/ Top \/ Connects \/ WakeUp \/ PairOpens \/ Established
  \/ SendPing \/ HeartbeatTimeout
  \/ SendCommand \/ TakeShutdown \/ Abandoned
  \/ ReceiveFrame \/ RemoteCloses

Next ==
  \/ \E c \in Cmds : Call(c)
  \/ Shutdown \/ DropSession
  \/ LoopStep \/ Tick \/ Slow
  \/ \E err \in {"transport", "timeout"} : ConnectFails(err)
  \/ \E err \in {"transport", "timeout", "proto", "closed"} : SetupFails(err)
  \/ SendFails \/ RecvFails
  \/ \E ok \in BOOLEAN : Serve(ok)
  \/ \E type \in {"event", "bad"} : Unasked(type)
  \/ \E r \in BOOLEAN : SayBye(r)
  \/ \E how \in {"hung", "closed"} : PeerStops(how)

\* The loop is a task of a running executor; its timers fire; a daemon that is
\* up handles the requests it receives.
Fairness == WF_vars(LoopStep) /\ WF_vars(Tick) /\ WF_vars(\E ok \in BOOLEAN : Serve(ok))

Spec == Init /\ [][Next]_vars /\ Fairness

-----------------------------------------------------------------------------
(* Properties *)

\* Every command a caller waits for is in exactly one place of the session: in
\* the channel, kept for the next connection, or in flight under one request
\* id (session.rs:565-660, 972); nothing else is.  No reply is lost with a
\* queue, none is left over for a second answer, and none outlives the task.
EachWaitsOnce ==
  \A c \in Cmds :
    Cardinality({i \in DOMAIN chan : chan[i] = c})
      + Cardinality({i \in DOMAIN pending : pending[i] = c})
      + Cardinality({i \in DOMAIN reqs : reqs[i] = c})
    = (IF reply[c] = "waiting" THEN 1 ELSE 0)

\* A command whose send succeeded is never sent again, on this or on a later
\* connection (session.rs:717): a create that may have been carried out is
\* repeated only when its send had failed.
NotRepeatedAfterSend == \A c \in Cmds : sent[c] <= 1

\* The heartbeat gives a ping Limit - Idle to be answered before it drops the
\* connection, unless the loop itself was held up past the ping's due time
\* (HeartbeatState::poll, session.rs:1398: the timeout is measured from the
\* last frame and not from the ping).
PingHasTime ==
  [][HeartbeatTimeout => stalled \/ since >= Limit - Idle]_vars

\* A session that is shut down ends (session.rs:341), whatever it is doing: it
\* is connecting, sleeping, reading, or waiting for a silent daemon.
ShutdownEnds == stop ~> phase = "end"

Replies == INSTANCE CommandReplies WITH Cmds <- Cmds, reply <- reply, served <- served

\* The session keeps the promise of CommandReplies: every call returns, once,
\* and Ok only for a request the daemon has carried out, through lost
\* connections, a silent daemon, reconnects and shutdown.
KeepsPromise == Replies!Spec
=============================================================================
