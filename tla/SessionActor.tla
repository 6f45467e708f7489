---------------------------- MODULE SessionActor ----------------------------
(***************************************************************************)
(* The native clients' session actor (tauri-bindings session_handle.rs)    *)
(* between the Tauri commands (tauri-app commands.rs), the session loops   *)
(* it starts and the event pump (event_pump.rs).  Commands go before       *)
(* events; requests run in tasks of their own, input and resize inside the *)
(* actor.  A new connection replaces the session without shutting the old  *)
(* loop down: it ends by itself once it finds that nobody holds it.        *)
(*                                                                         *)
(* The loop is ClientSession and ClientInput as far as its channels go.  A *)
(* futures channel takes one more element than its capacity and parks the  *)
(* sender until the receiver has taken one.                                *)
(***************************************************************************)
EXTENDS Naturals, Sequences, FiniteSets

CONSTANTS
  Calls,         \* the Tauri commands the frontend invokes
  Op,            \* Calls -> what the command does
  QueueCap,      \* capacity of the actor's command channel
  CmdCap,        \* capacity of a session's terminal command channel
  EventCap,      \* capacity of a session's event channel
  PumpCap,       \* capacity of the event pump's channel
  MaxEvents,     \* bound: events a session emits
  MaxLosses      \* bound: connections lost or refused

Ops == {"connect", "request", "input", "close"}
Sessions == 1..Cardinality({c \in Calls : Op[c] = "connect"})
NoSession == 0

ASSUME ActorAssumption ==
  /\ Op \in [Calls -> Ops]
  /\ QueueCap \in Nat \ {0} /\ CmdCap \in Nat /\ EventCap \in Nat /\ PumpCap \in Nat \ {0}
  /\ MaxEvents \in Nat /\ MaxLosses \in Nat

VARIABLES
  queue,      \* the actor's cmd_rx
  result,     \* Calls -> what the frontend knows
  actor,      \* what the actor awaits: "select", an input, or room at the pump
  session,    \* state.session
  events_rx,  \* state.events_rx
  channel,    \* state.event_channel, named after the connect that gave it
  started,    \* sessions started so far
  loop,       \* Sessions -> phase of its loop
  handle,     \* Sessions -> an active terminal exists
  cmds,       \* Sessions -> terminal commands in the channel
  events,     \* Sessions -> events in the channel
  emitted,    \* Sessions -> events emitted so far
  tasks,      \* spawned request tasks: the call and its session
  pump,       \* the event pump's channel
  losses,
  shown       \* history: events the pump has emitted to the frontend

acts == <<queue, result, actor, session, events_rx, channel, started, tasks>>
loops == <<loop, handle, cmds, events, emitted, losses>>
vars == <<acts, loops, pump, shown>>

Init ==
  /\ queue = <<>> /\ result = [c \in Calls |-> "idle"] /\ actor = [at |-> "select"]
  /\ session = NoSession /\ events_rx = NoSession /\ channel = NoSession /\ started = 0
  /\ loop = [s \in Sessions |-> "none"] /\ handle = [s \in Sessions |-> FALSE]
  /\ cmds = [s \in Sessions |-> 0] /\ events = [s \in Sessions |-> 0]
  /\ emitted = [s \in Sessions |-> 0]
  /\ tasks = {} /\ pump = <<>> /\ losses = 0 /\ shown = {}

Answer(c, r) == result' = [result EXCEPT ![c] = r]

-----------------------------------------------------------------------------
(* SessionHandle: a command is sent to the actor and its reply awaited *)

Invoke(c) ==
  /\ result[c] = "idle" /\ Len(queue) < QueueCap
  /\ queue' = Append(queue, c)
  /\ Answer(c, "waiting")
  /\ UNCHANGED <<actor, session, events_rx, channel, started, tasks, loops, pump, shown>>

-----------------------------------------------------------------------------
(* handle_command *)

\* Mutant of Connect: the event receiver of the old session is kept.
MutKeepsReceiver(c) ==
  LET s == started + 1
  IN  /\ started' = s
      /\ session' = s /\ channel' = s
      /\ events_rx' = IF events_rx = NoSession THEN s ELSE events_rx
      /\ loop' = [loop EXCEPT ![s] = "connecting"]
      /\ Answer(c, "ok")
      /\ UNCHANGED <<actor, tasks, handle, cmds, events, emitted, losses>>

Connect(c) ==
  LET s == started + 1
  IN  /\ started' = s
      /\ session' = s /\ events_rx' = s /\ channel' = s
      /\ loop' = [loop EXCEPT ![s] = "connecting"]
      /\ Answer(c, "ok")
      /\ UNCHANGED <<actor, tasks, handle, cmds, events, emitted, losses>>

\* create_terminal, open_terminal, list_terminals, read_history, the server
\* config and kill: a task with its own clone of the session.
Request(c) ==
  /\ IF session = NoSession
     THEN Answer(c, "error") /\ UNCHANGED tasks
     ELSE tasks' = tasks \cup {[call |-> c, of |-> session]} /\ UNCHANGED result
  /\ UNCHANGED <<actor, session, events_rx, channel, started, loops>>

\* send_input and resize: with_active_terminal, inside the actor.
Input(c) ==
  /\ IF session = NoSession \/ ~handle[session] \/ loop[session] = "ended"
     THEN Answer(c, "error") /\ UNCHANGED <<actor, cmds>>
     ELSE /\ cmds' = [cmds EXCEPT ![session] = @ + 1]
          /\ IF cmds[session] < CmdCap
             THEN Answer(c, "ok") /\ UNCHANGED actor
             ELSE actor' = [at |-> "input", call |-> c, of |-> session] /\ UNCHANGED result
  /\ UNCHANGED <<session, events_rx, channel, started, tasks, loop, handle, events, emitted, losses>>

\* close: the session is dropped, not shut down.
Close(c) ==
  /\ session' = NoSession /\ events_rx' = NoSession /\ channel' = NoSession
  /\ Answer(c, "ok")
  /\ UNCHANGED <<actor, started, tasks, loops>>

Handle(op) ==
  /\ actor.at = "select" /\ queue # <<>> /\ Op[Head(queue)] = op
  /\ queue' = Tail(queue)
  /\ LET c == Head(queue) IN
       \/ op = "connect" /\ Connect(c)
       \/ op = "request" /\ Request(c)
       \/ op = "input" /\ Input(c)
       \/ op = "close" /\ Close(c)
  /\ UNCHANGED <<pump, shown>>

\* Mutant of InputDone: the actor does not learn that the loop is gone.
MutNeedsRoom ==
  /\ actor.at = "input"
  /\ cmds[actor.of] <= CmdCap /\ loop[actor.of] # "ended"
  /\ Answer(actor.call, "ok")
  /\ actor' = [at |-> "select"]
  /\ UNCHANGED <<queue, session, events_rx, channel, started, tasks, loops, pump, shown>>

\* The session loop has made room, or is gone.
InputDone ==
  /\ actor.at = "input"
  /\ cmds[actor.of] <= CmdCap \/ loop[actor.of] = "ended"
  /\ Answer(actor.call, "ok")
  /\ actor' = [at |-> "select"]
  /\ UNCHANGED <<queue, session, events_rx, channel, started, tasks, loops, pump, shown>>

-----------------------------------------------------------------------------
(* actor_loop: events *)

\* biased: an event is taken only when no command is waiting.
TakeEvent ==
  /\ actor.at = "select" /\ queue = <<>> /\ events_rx # NoSession /\ events[events_rx] > 0
  /\ events' = [events EXCEPT ![events_rx] = @ - 1]
  /\ actor' = [at |-> "emit", event |-> [channel |-> channel, of |-> events_rx]]
  /\ UNCHANGED <<queue, result, session, events_rx, channel, started, tasks,
                 loop, handle, cmds, emitted, losses, pump, shown>>

Forward ==
  /\ actor.at = "emit" /\ Len(pump) < PumpCap
  /\ pump' = Append(pump, actor.event)
  /\ actor' = [at |-> "select"]
  /\ UNCHANGED <<queue, result, session, events_rx, channel, started, tasks, loops, shown>>

\* The event channel yields None: the loop is over.
SessionOver ==
  /\ actor.at = "select" /\ queue = <<>> /\ events_rx # NoSession
  /\ events[events_rx] = 0 /\ loop[events_rx] = "ended"
  /\ session' = NoSession /\ events_rx' = NoSession /\ channel' = NoSession
  /\ UNCHANGED <<queue, result, actor, started, tasks, loops, pump, shown>>

\* event_pump::start
Pump ==
  /\ pump # <<>>
  /\ shown' = shown \cup {Head(pump)}
  /\ pump' = Tail(pump)
  /\ UNCHANGED <<acts, loops>>

-----------------------------------------------------------------------------
(* The session loops *)

\* The loop awaits room in the event channel; without a receiver a send fails
\* and is ignored.
Parked(s) == events_rx = s /\ events[s] > EventCap

Unheld(s) == session # s /\ \A t \in tasks : t.of # s

Emit(s) == events' = IF events_rx = s THEN [events EXCEPT ![s] = @ + 1] ELSE events

Connected(s) ==
  /\ loop[s] \in {"connecting", "backoff"} /\ ~Parked(s)
  /\ loop' = [loop EXCEPT ![s] = "run"]
  /\ Emit(s)
  /\ UNCHANGED <<acts, handle, cmds, emitted, losses, pump, shown>>

\* A connection fails; `retry` as should_retry_after_disconnect and ever_connected have it.
Lost(s, retry) ==
  /\ losses < MaxLosses /\ losses' = losses + 1 /\ ~Parked(s)
  /\ \/ loop[s] = "run"
     \/ loop[s] = "connecting" /\ ~retry
     \/ loop[s] = "backoff" /\ retry
  /\ loop' = [loop EXCEPT ![s] = IF retry THEN "backoff" ELSE "ended"]
  /\ handle' = [handle EXCEPT ![s] = FALSE]
  /\ cmds' = IF retry THEN cmds ELSE [cmds EXCEPT ![s] = 0]
  /\ Emit(s)
  /\ UNCHANGED <<acts, emitted, pump, shown>>

\* Mutant of Abandoned: a loop that nobody holds goes on.
MutOutlivesHolders(s) == FALSE

\* session_cmd_rx yields None: Closed.
Abandoned(s) ==
  /\ loop[s] = "run" /\ ~Parked(s) /\ Unheld(s)
  /\ loop' = [loop EXCEPT ![s] = "ended"]
  /\ handle' = [handle EXCEPT ![s] = FALSE]
  /\ cmds' = [cmds EXCEPT ![s] = 0]
  /\ UNCHANGED <<acts, events, emitted, losses, pump, shown>>

\* A frame from the daemon becomes an event.
Output(s) ==
  /\ loop[s] = "run" /\ ~Parked(s) /\ ~Unheld(s) /\ emitted[s] < MaxEvents
  /\ emitted' = [emitted EXCEPT ![s] = @ + 1]
  /\ Emit(s)
  /\ UNCHANGED <<acts, loop, handle, cmds, losses, pump, shown>>

TakeInput(s) ==
  /\ loop[s] = "run" /\ ~Parked(s) /\ cmds[s] > 0
  /\ cmds' = [cmds EXCEPT ![s] = @ - 1]
  /\ UNCHANGED <<acts, loop, handle, events, emitted, losses, pump, shown>>

\* CommandReplies: the session answers; an open terminal is active afterwards.
TaskEnds(t) ==
  /\ loop[t.of] = "ended" \/ (loop[t.of] = "run" /\ ~Parked(t.of))
  /\ tasks' = tasks \ {t}
  /\ Answer(t.call, IF loop[t.of] = "ended" THEN "error" ELSE "ok")
  /\ handle' = [handle EXCEPT ![t.of] = loop[t.of] # "ended"]
  /\ UNCHANGED <<queue, actor, session, events_rx, channel, started,
                 loop, cmds, events, emitted, losses, pump, shown>>

LoopStep(s) == Connected(s) \/ Abandoned(s)

Next ==
  \/ \E c \in Calls : Invoke(c)
  \/ \E op \in Ops : Handle(op)
  \/ InputDone \/ TakeEvent \/ Forward \/ SessionOver \/ Pump
  \/ \E s \in Sessions :
       LoopStep(s) \/ TakeInput(s) \/ Output(s) \/ \E retry \in BOOLEAN : Lost(s, retry)
  \/ \E t \in tasks : TaskEnds(t)

\* The actor, the pump, the tasks and the loops are tasks of running executors,
\* and a loop that can be connected is.
Fairness ==
  /\ WF_vars((\E op \in Ops : Handle(op)) \/ InputDone \/ TakeEvent \/ Forward \/ SessionOver)
  /\ WF_vars(Pump)
  /\ \A s \in Sessions : WF_vars(LoopStep(s)) /\ WF_vars(TakeInput(s))
  /\ \A c \in Calls : WF_vars(\E t \in tasks : t.call = c /\ TaskEnds(t))

Spec == Init /\ [][Next]_vars /\ Fairness

-----------------------------------------------------------------------------
(* Properties *)

\* The actor waits for the session loop and the loop for the actor.
Wedged == actor.at = "input" /\ Parked(actor.of) /\ cmds[actor.of] > CmdCap

\* What the frontend sees under the name of a connection comes from that
\* connection's session, across reconnects and closes that race with events
\* still in the channels (session_handle.rs:344, 384).
EventsOfTheirSession == \A e \in shown \cup {pump[i] : i \in DOMAIN pump} : e.channel = e.of

\* Every Tauri command returns, with one exception: input is awaited inside the
\* actor (session_handle.rs:498), so when both channels of a session are full
\* the actor and the loop wait for each other for ever.
ReturnsUnlessWedged ==
  \A c \in Calls : result[c] = "waiting" ~> (result[c] # "waiting" \/ Wedged)

\* A session that is closed or replaced ends, although nothing tells it to
\* (session_handle.rs:384, 535): no loop keeps a connection nobody can reach.
OrphanEnds ==
  \A s \in Sessions : (loop[s] # "none" /\ session # s) ~> loop[s] = "ended"
=============================================================================
