----------------------------- MODULE RelayDialer -----------------------------
(***************************************************************************)
(* The daemon's side of the relay: crates/server/daemon-core/src/          *)
(* relay_dialer.rs.  run_forever dials the relay again and again; run_once *)
(* registers and runs read_loop, which turns each pair the relay opens     *)
(* into a PairTransport: a queue of bytes to the connection task of that   *)
(* pair, and a queue of bytes from it that a writer task puts on the       *)
(* socket.                                                                 *)
(*                                                                         *)
(* The `pairs` map of one run_once holds the only sender of every pair's   *)
(* queue, so ending run_once is what tells the connection tasks that their *)
(* transport is gone.  The queues are counts.  The heartbeat task sends    *)
(* and is aborted with run_once: nothing reads its outcome, so it is left  *)
(* out.  Of the connection task (connection.rs) there is what it does with *)
(* its transport: it waits for a frame or for terminal output, and sends.  *)
(* SendInput writes to the PTY of the terminal inside it, with a blocking  *)
(* write_all and no timeout: a program that does not read its input holds  *)
(* the task there.  (It keeps a worker thread of the runtime as well; the  *)
(* tasks below are taken to have threads left to run on.)                  *)
(***************************************************************************)
EXTENDS Integers

CONSTANTS
  Pairs,          \* pair ids; the relay never uses one twice
  QueueCapacity,  \* PAIR_QUEUE_CAPACITY
  InitialMs,      \* retry.initial_ms
  MaxMs,          \* retry.max_ms
  MulX10,         \* retry.mul_x10
  MaxLinks,       \* bound: connections to the relay
  Unread          \* pairs that send input to a program that never reads it

\* The configuration is read from TOML as unsigned integers: anything goes.
ASSUME DialerAssumption ==
  /\ QueueCapacity \in Nat \ {0}
  /\ InitialMs \in Nat
  /\ MaxMs \in Nat
  /\ MulX10 \in Nat
  /\ MaxLinks \in Nat
  /\ Unread \subseteq Pairs

VARIABLES
  link,         \* where run_forever is: "dialing", "open" (in read_loop), "sleeping"
  links,        \* how many connections have registered
  delay_ms,     \* the backoff of run_forever
  opened,       \* the pairs the relay has open on the current connection
  pairs,        \* the keys of read_loop's map
  held,         \* the pair of a send read_loop is waiting in, as a set
  born,         \* per pair, the connection that announced it (0: none yet)
  to_daemon,    \* per pair, the length of the queue its connection task reads
  from_daemon,  \* per pair, the length of the queue its writer task reads
  task,         \* per pair, its connection task
  writer        \* per pair, its writer task: "none", "running", "ended"

vars ==
  <<link, links, delay_ms, opened, pairs, held, born, to_daemon, from_daemon, task, writer>>

\* What run_forever, run_once and read_loop keep, and what a pair's tasks keep.
loopVars == <<link, links, delay_ms, opened, pairs, held, born>>
pairVars == <<to_daemon, from_daemon, task, writer>>

-----------------------------------------------------------------------------
(* Backoff *)

MinMs == 50

Larger(a, b)  == IF a < b THEN b ELSE a
Smaller(a, b) == IF a < b THEN a ELSE b

\* The delay a session that ended cleanly resets to.
FirstDelay == Larger(InitialMs, MinMs)

next_delay(cur) == Larger(Smaller((cur * MulX10) \div 10, MaxMs), MinMs)

\* Rust's division rounds towards zero, \div towards minus infinity.
TruncatedDiv(n, d) == IF n >= 0 THEN n \div d ELSE -((-n) \div d)

\* jitter: the time slept for a delay, with a random byte.
jitter(base_ms, rng_byte) ==
  LET jittered == base_ms + TruncatedDiv(base_ms * (rng_byte - 128), 512)
  IN  IF jittered <= 0 THEN 1 ELSE jittered

-----------------------------------------------------------------------------
(* run_forever and run_once *)

Init ==
  /\ link = "dialing"
  /\ links = 0
  /\ delay_ms = FirstDelay
  /\ opened = {}
  /\ pairs = {}
  /\ held = {}
  /\ born = [p \in Pairs |-> 0]
  /\ to_daemon = [p \in Pairs |-> 0]
  /\ from_daemon = [p \in Pairs |-> 0]
  /\ task = [p \in Pairs |-> "none"]
  /\ writer = [p \in Pairs |-> "none"]

\* Connecting or registering fails, is refused or times out: run_once is Err
\* and run_forever sleeps.
DialFails ==
  /\ link = "dialing"
  /\ link' = "sleeping"
  /\ UNCHANGED <<links, delay_ms, opened, pairs, held, born, pairVars>>

\* The sleep is over; only then is the delay raised.
WakeUp ==
  /\ link = "sleeping"
  /\ link' = "dialing"
  /\ delay_ms' = next_delay(delay_ms)
  /\ UNCHANGED <<links, opened, pairs, held, born, pairVars>>

\* ServerRegisterOk: run_once starts read_loop with an empty map.
Registers ==
  /\ link = "dialing"
  /\ links < MaxLinks
  /\ link' = "open"
  /\ links' = links + 1
  /\ UNCHANGED <<delay_ms, opened, pairs, held, born, pairVars>>

\* Mutant of LinkEnds: the map of pairs outlives run_once.
MutKeepsPairs(clean) ==
  /\ link = "open"
  /\ held = {}
  /\ IF clean
     THEN link' = "dialing" /\ delay_ms' = FirstDelay
     ELSE link' = "sleeping" /\ UNCHANGED delay_ms
  /\ opened' = {}
  /\ UNCHANGED <<links, pairs, held, born, pairVars>>

\* read_loop returns: Ok when the relay closed the connection, and then
\* run_forever dials again at once; Err when the socket failed or a frame
\* could not be read, and then it sleeps.  Dropping the map drops the senders.
LinkEnds(clean) ==
  /\ link = "open"
  /\ held = {}
  /\ IF clean
     THEN link' = "dialing" /\ delay_ms' = FirstDelay
     ELSE link' = "sleeping" /\ UNCHANGED delay_ms
  /\ opened' = {}
  /\ pairs' = {}
  /\ UNCHANGED <<links, held, born, pairVars>>

-----------------------------------------------------------------------------
(* read_loop: the frames of the relay (external), one by one, unless the      *)
(* loop is waiting for room in a queue.                                       *)

Reads ==
  /\ link = "open"
  /\ held = {}
  /\ UNCHANGED <<link, links, delay_ms>>

\* PairInbound: both queues, the writer task, and the transport handed to the
\* accept loop of server.rs, which spawns its connection task.
PairInbound(p) ==
  /\ Reads
  /\ born[p] = 0
  /\ opened' = opened \cup {p}
  /\ pairs' = pairs \cup {p}
  /\ born' = [born EXCEPT ![p] = links]
  /\ task' = [task EXCEPT ![p] = "waiting"]
  /\ writer' = [writer EXCEPT ![p] = "running"]
  /\ UNCHANGED <<held, to_daemon, from_daemon>>

\* Forward: into the pair's queue, waiting for room; a pair whose task is gone
\* is forgotten; data for a pair that is not in the map is ignored.
Forward(p) ==
  /\ Reads
  /\ p \in opened
  /\ IF p \notin pairs
     THEN UNCHANGED <<pairs, held, to_daemon>>
     ELSE IF task[p] = "ended"
     THEN pairs' = pairs \ {p} /\ UNCHANGED <<held, to_daemon>>
     ELSE IF to_daemon[p] = QueueCapacity
     THEN held' = {p} /\ UNCHANGED <<pairs, to_daemon>>
     ELSE /\ to_daemon' = [to_daemon EXCEPT ![p] = @ + 1]
          /\ UNCHANGED <<pairs, held>>
  /\ UNCHANGED <<opened, born, from_daemon, task, writer>>

\* Mutant of SendReturns: the loop does not learn that the receiver is gone.
MutSendNeedsRoom(p) ==
  /\ p \in held
  /\ task[p] # "ended"
  /\ to_daemon[p] < QueueCapacity
  /\ held' = {}
  /\ to_daemon' = [to_daemon EXCEPT ![p] = @ + 1]
  /\ UNCHANGED <<link, links, delay_ms, opened, pairs, born, from_daemon, task, writer>>

\* The send the loop waited in returns: there is room, or the receiver is gone.
SendReturns(p) ==
  /\ p \in held
  /\ held' = {}
  /\ IF task[p] = "ended"
     THEN pairs' = pairs \ {p} /\ UNCHANGED to_daemon
     ELSE /\ to_daemon[p] < QueueCapacity
          /\ to_daemon' = [to_daemon EXCEPT ![p] = @ + 1]
          /\ UNCHANGED pairs
  /\ UNCHANGED <<link, links, delay_ms, opened, born, from_daemon, task, writer>>

PairClose(p) ==
  /\ Reads
  /\ p \in opened
  /\ opened' = opened \ {p}
  /\ pairs' = pairs \ {p}
  /\ UNCHANGED <<held, born, pairVars>>

-----------------------------------------------------------------------------
(* Writer tasks *)

\* The connection a pair came from is the current one.
OnLiveLink(p) == link = "open" /\ born[p] = links

WriterSends(p) ==
  /\ writer[p] = "running"
  /\ from_daemon[p] > 0
  /\ from_daemon' = [from_daemon EXCEPT ![p] = @ - 1]
  /\ UNCHANGED <<loopVars, to_daemon, task, writer>>

\* The task ends, and with it its queue: a write fails on a connection that is
\* gone, or no sender is left.
WriterEnds(p) ==
  /\ writer[p] = "running"
  /\ IF from_daemon[p] > 0 THEN ~OnLiveLink(p) ELSE task[p] = "ended"
  /\ writer' = [writer EXCEPT ![p] = "ended"]
  /\ from_daemon' = [from_daemon EXCEPT ![p] = 0]
  /\ UNCHANGED <<loopVars, to_daemon, task>>

-----------------------------------------------------------------------------
(* PairTransport, and the connection task that owns it *)

\* recv_frame: a frame that is answered, input that is written first, a frame
\* that is only logged, or one that ends the task (a Bye, an error).
TaskReceives(p) ==
  /\ task[p] = "waiting"
  /\ to_daemon[p] > 0
  /\ \/ /\ \E next \in {"sending", "writing", "waiting"} : task' = [task EXCEPT ![p] = next]
        /\ to_daemon' = [to_daemon EXCEPT ![p] = @ - 1]
     \/ /\ task' = [task EXCEPT ![p] = "ended"]
        /\ to_daemon' = [to_daemon EXCEPT ![p] = 0]
  /\ UNCHANGED <<loopVars, from_daemon, writer>>

\* Terminal::write_input has returned: the program has read, or it is gone.
\* The request is answered either way.
InputWritten(p) ==
  /\ task[p] = "writing"
  /\ task' = [task EXCEPT ![p] = "sending"]
  /\ UNCHANGED <<loopVars, to_daemon, from_daemon, writer>>

\* output_rx: live output of the terminal that is open.  The select! is biased:
\* only when recv_frame has nothing to say.
TaskHasOutput(p) ==
  /\ task[p] = "waiting"
  /\ to_daemon[p] = 0
  /\ p \in pairs
  /\ task' = [task EXCEPT ![p] = "sending"]
  /\ UNCHANGED <<loopVars, to_daemon, from_daemon, writer>>

\* PairTransport::send waits for room, and fails when the writer is gone.
TaskSends(p) ==
  /\ task[p] = "sending"
  /\ \/ /\ writer[p] = "running"
        /\ from_daemon[p] < QueueCapacity
        /\ from_daemon' = [from_daemon EXCEPT ![p] = @ + 1]
        /\ task' = [task EXCEPT ![p] = "waiting"]
        /\ UNCHANGED to_daemon
     \/ /\ writer[p] = "ended"
        /\ task' = [task EXCEPT ![p] = "ended"]
        /\ to_daemon' = [to_daemon EXCEPT ![p] = 0]
        /\ UNCHANGED from_daemon
  /\ UNCHANGED <<loopVars, writer>>

\* rev_rx: the client was revoked.
TaskRevoked(p) ==
  /\ task[p] = "waiting"
  /\ task' = [task EXCEPT ![p] = "leaving"]
  /\ UNCHANGED <<loopVars, to_daemon, from_daemon, writer>>

\* It is told so with a Bye, which may wait for room, and the task ends.
TaskSaysBye(p) ==
  /\ task[p] = "leaving"
  /\ \/ /\ writer[p] = "running"
        /\ from_daemon[p] < QueueCapacity
        /\ from_daemon' = [from_daemon EXCEPT ![p] = @ + 1]
     \/ /\ writer[p] = "ended"
        /\ UNCHANGED from_daemon
  /\ task' = [task EXCEPT ![p] = "ended"]
  /\ to_daemon' = [to_daemon EXCEPT ![p] = 0]
  /\ UNCHANGED <<loopVars, writer>>

\* Mutant of TaskHearsClosed: recv never says None.
MutNeverNone(p) == FALSE

\* PairTransport::recv is None: the queue is empty and has no sender.
TaskHearsClosed(p) ==
  /\ task[p] = "waiting"
  /\ to_daemon[p] = 0
  /\ p \notin pairs
  /\ task' = [task EXCEPT ![p] = "ended"]
  /\ UNCHANGED <<loopVars, to_daemon, from_daemon, writer>>

-----------------------------------------------------------------------------
Next ==
  \/ DialFails
  \/ WakeUp
  \/ Registers
  \/ \E clean \in BOOLEAN : LinkEnds(clean)
  \/ \E p \in Pairs :
       \/ PairInbound(p)
       \/ Forward(p)
       \/ SendReturns(p)
       \/ PairClose(p)
       \/ WriterSends(p)
       \/ WriterEnds(p)
       \/ TaskReceives(p)
       \/ InputWritten(p)
       \/ TaskHasOutput(p)
       \/ TaskSends(p)
       \/ TaskRevoked(p)
       \/ TaskSaysBye(p)
       \/ TaskHearsClosed(p)

\* The daemon's tasks run.  Nothing is assumed of the relay, the network and
\* the clients, except that a socket takes or refuses what is written to it; of
\* the programs in the terminals, that those of pairs not in Unread read their
\* input or end.
Fairness ==
  /\ \A p \in Pairs :
       /\ WF_vars(SendReturns(p))
       /\ WF_vars(WriterSends(p) \/ WriterEnds(p))
       /\ WF_vars(TaskReceives(p))
       /\ WF_vars(TaskSends(p))
       /\ WF_vars(TaskSaysBye(p))
       /\ WF_vars(TaskHearsClosed(p))
  /\ \A p \in Pairs \ Unread : WF_vars(InputWritten(p))

Spec == Init /\ [][Next]_vars /\ Fairness

-----------------------------------------------------------------------------
(* Properties *)

\* The types of the dialer's state.
TypeOK ==
  /\ link \in {"dialing", "open", "sleeping"}
  /\ links \in Nat
  /\ delay_ms \in Nat
  /\ opened \subseteq Pairs
  /\ pairs \subseteq Pairs
  /\ held \subseteq Pairs
  /\ born \in [Pairs -> Nat]
  /\ to_daemon \in [Pairs -> 0..QueueCapacity]
  /\ from_daemon \in [Pairs -> 0..QueueCapacity]
  /\ task \in [Pairs -> {"none", "waiting", "writing", "sending", "leaving", "ended"}]
  /\ writer \in [Pairs -> {"none", "running", "ended"}]

\* However long the relay stays away and whatever the configuration says, the
\* dialer's delay never falls below the floor, and never grows over the larger
\* of the first delay and the configured maximum; and no random byte makes it
\* sleep less than three quarters of that or more than five quarters.
BackoffInRange ==
  /\ delay_ms \in MinMs..Larger(FirstDelay, MaxMs)
  /\ \A b \in 0..255 : 4 * jitter(delay_ms, b) \in (3 * delay_ms)..(5 * delay_ms)

\* The read loop only feeds, and only waits for, pairs that the connection it
\* reads announced: after a reconnect nothing of the earlier connection's
\* pairs is left in its map.
MapIsOfThisLink ==
  /\ held \subseteq pairs
  /\ \A p \in pairs : OnLiveLink(p) /\ task[p] # "none" /\ writer[p] # "none"

\* When the connection to the relay is gone, every connection task that came
\* over it ends, and so does its writer, which is what keeps the old socket
\* open: whatever the task was doing, unless it is in the write of input to a
\* program that never reads (run_connection_post_handshake, PairTransport::recv).
OldPairsEnd ==
  \A p \in Pairs :
    (born[p] # 0 /\ ~OnLiveLink(p)) ~>
      \/ task[p] = "ended" /\ writer[p] = "ended"
      \/ p \in Unread /\ task[p] = "writing"

\* The read loop, which serves all pairs, waits for good for room in the queue of
\* one only if that pair's task is in the write of input to a program that never
\* reads: any other task comes back to read its queue, or ends, and the loop
\* goes on (relay_dialer.rs read_loop, Forward).
LoopUnblocks ==
  \A p \in Pairs : (p \in held) ~> (p \notin held \/ (p \in Unread /\ task[p] = "writing"))

\* Without the exemption the loop, and with it every pair of this daemon, can
\* wait for good on one terminal: TLC refutes this with the pairs of Unread.
LoopAlwaysUnblocks == (held # {}) ~> (held = {})
=============================================================================
