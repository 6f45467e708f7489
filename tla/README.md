# TLA+ models of cli-pocket

cli-pocket lets a client (desktop, mobile or web) work in terminals that run on
a host. A daemon on the host owns the terminals; client and daemon meet through
a relay, or the client connects to the daemon directly. This directory holds
TLA+ models of the parts of that system whose correctness depends on
interleavings, failures and limits, the TLC configurations that check them, and
TLAPS proofs of the facts that hold for every size.

Run a check with `tlc -config <cfg> <module>` and a proof with
`tlapm <module>.tla`. `PROJECT.json` lists the runs, the mutated definitions
each property was tried against, the source lines of every definition, the
hazards and the findings.

## The system

| Part | State it keeps | Operations | Talks to |
| --- | --- | --- | --- |
| `pty`: `ring.rs`, `parser.rs` | output window, anchors, offsets, parser state | push, snapshot, since, history page | written by the reader thread, read by connections under one lock |
| `pty`: `terminal.rs`, `output.rs` | child process, reader thread, broadcast channel | spawn, input, resize, subscribe, kill | broadcast to stream forwarders |
| `daemon-core`: `session.rs` | map of live terminals, limit | create, attach, kill, list, reap | connections |
| `daemon-core`: `connection.rs` | attached stream, forwarder task, output channel | one handler per request, output forwarding, revocation watch | client (encrypted frames), session manager, client database |
| `daemon-core`: `client_db.rs`, `handshake.rs` | `clients.json`, `revoked.json`, both in memory, a watch | pair, look up, revoke, poll the files | the operator's `revoke` process, connections |
| `daemon-core`: `relay_dialer.rs` | relay socket, map of pairs, backoff | register, demultiplex, reconnect | relay, connections |
| `daemon-core`: `resume.rs`, `config.rs`, `identity_store.rs`, `listener.rs`, `server.rs` | signing key, shared config, identity, sockets | mint and verify, update, load, accept, boot | everything in the daemon |
| `relay-core` | registry of servers, pairs, tickets, one bounded queue per socket | register, pair, forward, close, evict idle pairs | daemons and clients over WebSockets |
| `workers/relay-cloudflare` | the same in a Durable Object, attachments, storage, alarms | the same | the same |
| `client-core` | pending requests, active terminal, known streams, backoff | connect loop, commands, inbound frames, heartbeat | daemon; UI through commands and events |
| `client-core-wasm`, `tauri-app`, `tauri-bindings` | handles | adapters | client-core, frontend |
| `frontend/app` | connections, terminals, workspaces | controllers and components | adapters |
| `proto`, `crypto`, `transport` | message types, Noise sessions, sockets | encode, encrypt, send | everyone |

What is hard in it:

* Every relay socket has a reader task and a writer task. A reader awaits room
  in the queues of *other* sockets, so a slow peer can hold up tasks that serve
  somebody else, and tasks end in any order.
* Terminal output goes through a lock (the ring), a lossy broadcast, a bounded
  channel and the wire. Snapshot and live output have to meet exactly, although
  taking one and subscribing to the other are two steps, on a connection that
  is switching from another stream.
* The set of admitted clients lives in files that another process writes and a
  polling task copies to memory, while connections pair new clients and look up
  old ones.
* Connections break at any point, requests are pending at that moment, and both
  ends reconnect with backoff.
* Limits: ring capacity, queue lengths, server and pair tickets, the terminal
  limit.

What makes the parts correct: the ring's window is the output it says it is and
every replay starts where the parser can start; a closed pair is known to be
closed by both ends and its resources come back; a client sees each terminal's
output in order, without an unexplained gap, and every request is answered;
a revoked client is thrown out and stays out, and a paired one stays paired.

## The modules

How they fit together: `OutputPath` extends `ScrollbackRing` and `AnchorPrefix`
and drives the ring with the safe splits the parser reports. `TerminalStream`
takes what the ring promises (an exact snapshot) and follows it to a client.
`DaemonRequests` and `ClientAdmission` are the state the daemon's connections
share. `Relay` and `RelayDialer` are the two ends of the relay connection.
`ClientSession` implements `CommandReplies`; `SessionActor` and `WasmClient` are
its two users and take the session as far as its channels go; `ClientInput` is
the part of the same loop that handles terminal commands.

### ScrollbackRing (`crates/server/pty/src/ring.rs`)

State: `bytes`, `anchors`, `head_seq`, `tail_offset` and `bytes_since_anchor`
are the fields of the Rust struct; `cap` is chosen once; `safe_splits` is
history. A byte is its position in the output and an anchor's parser state is
identified by the number of bytes parsed, so a snapshot whose state and bytes
do not belong together is visible in the model. The parser's verdict on each
position is an input: `Next` pushes one byte, safe or not. `push` works byte by
byte, so a chunk is a sequence of `PushByte` steps under one lock. The loop of
`maybe_evict` is written as its result: the first anchor from which the window
fits, or the last one. The reads (`Snapshot`, `SnapshotWithMaxBytes`, `Since`,
`HistoryPage`) are operators that properties compare with the output itself.

### Relay (`crates/relay/relay-core`)

One program counter per socket task and one sequence `todo` of the operations
it still awaits; `queue` is the bounded channel into a socket's writer. tokio
serves waiting senders in order, so a queue is one sequence whose entries
beyond `QueueCap` belong to senders that still wait. `Held` says whether some
`Arc<Pair>` exists, by asking who has one: it decides when a pair ticket is
released and when a writer's `recv` returns `None`. `told` is history: which
ends a `PairInbound` or a `PairClose` was put in the channel of. `?` and `let _ =` on sends
are the flag `must`: a failed send ends the read loop (`Fails`) or is skipped
(`Skips`). The guillotine is a task with its own `todo`. A pair may grow stale
(`IdleElapses`) from the moment its `PairInbound` is in line, also while it waits
for room in the daemon's queue; before that there is no await at which time could
pass. Peers send frames, break the protocol (`ServerBreaksProtocol`,
`ClientBreaksProtocol`), go away, or (`Stalled`) stay and never read. A client connection opens at most one
pair, so the pair has its name. `MCRelay` gives identities and symmetry.

### TerminalStream (`pty`, `daemon-core/connection.rs`, `client-core/session.rs`)

One client connection end to end. The reader thread pushes into the ring and
then broadcasts (two actions). A subscription is a buffer of `SubCap` chunks
that forgets its oldest and reports `Lagged`. A forwarder receives a chunk,
cuts it into frames and sends them one by one into the connection's output
channel; an aborted forwarder runs on until its next await. Opening a terminal
is four actions, one for each point where another task can run: attach, clear
and subscribe; snapshot; then ack or error. The client keeps pending requests,
the active stream and the last sequence number of each known stream; a protocol
error ends the connection (`failure`). Output is measured in units of one frame.

### ClientAdmission (`daemon-core/client_db.rs`, `handshake.rs`, `connection.rs`)

`disk` is the pair of files, `mem` the tables in memory, `rel` the reload task
with its locals and the step it is at (it reads each file and takes each lock
separately), `pc` and `id` the connections. Files are written by rename, so a
read sees a whole version. `Revoke` is the command line's process. `Crash`
stops the daemon, `OpenFiles` and `OpenTexts` are the two reads of
`ClientDb::open`. Two history variables name the two races the code has: `late`
(a session that began to watch after the announcement) and `raced` (files
written between the two reads of `open`). `MCAdmission` says which connection
belongs to which client.

### OutputPath and AnchorPrefix (`pty/src/terminal.rs`, `parser.rs`, `proto/src/snapshot.rs`)

A program prints words (characters and complete control sequences), fixed in
the initial state. `Read(n)` is one read of the reader thread: the processor
gets what it held back and the next `n` bytes, answers cursor queries with the
cursor as it is before the chunk, keeps the last title and passes the rest on.
`process` is the loop of `ServerOutputProcessor::process` as a recursive
function over positions; `ProcessFrom` is one turn of it, with the tests in the
code's order (`Matches`). `Push` gives one byte to the parser and the ring.
`Vte` is the external parser: state and callbacks for a byte; `SafeAfter`,
`Collected` and `advance` are what `AnchorTracker` does in the callbacks. `AnchorPrefix` holds the tracked state (cursor, SGR,
modes, mouse, charsets), the effect of each control function on it, and
`render_prefix_from_anchor` as a sequence of control functions; `Replay` runs
them on another terminal. The loops of `sgr` and `mode_set` are recursive
functions whose single turns are `SgrTurn` and `SetMode`; `AttrParam` is one
attribute in `apply_sgr`. A number in a sequence is one byte of the model,
together with the separator before it (`"semi5"`).

### ClientSession and CommandReplies (`client-core/src/session.rs`, `relay.rs`, `reconnect.rs`)

`phase` is where `run_session_loop` is: at the top, connecting, asleep, in the
relay handshake, in the Noise and Hello exchange, running, ended. `chan`,
`pending` and `reqs` are the three places a command can be in; `Kept` is what
is carried over to the next connection. A send fails before or after the frame
left, a connection breaks or falls silent, the daemon says Bye or sends a frame
that is rejected; each costs one of `MaxFaults`. Time is counted in units of the
heartbeat's idle time and capped at its limit. `stalled` records that time went
by although the heartbeat was due, that is, that the loop was held up.

`CommandReplies` is the abstract specification: a call begins, it returns at
most once, with Ok only after the daemon carried the request out, and every
call returns. `ClientSession` implements it (`Replies`, an instance in which
`reply` and `served` stand for themselves; `KeepsPromise`), liveness included.

### ClientInput (`client-core/src/terminal.rs`, `session.rs`)

`chan`, `batch`, `deferred` and `pending` are the channel, the window of
`batch_input_command` and the two queues of the loop. A command is its number in
the order of issue and a queue is a sequence of numbers. Input that the code
merges into one command stands side by side in the sequence, in the order of its
bytes; `coalesce_pending_input_front` says how much of the front is one command
when it is sent. `gen` counts how often a terminal became active, so a command
is known by the attachment it was issued in.

### SessionActor (`tauri-bindings/src/session_handle.rs`, `tauri-app`)

The actor's `select` (commands before events), its request tasks, the input it
awaits itself, the event pump, and the loops it starts, as far as their channels
go. A futures channel holds one element more than its capacity and then parks
the sender. A session nobody holds ends when its loop looks (`Abandoned`).

### WasmClient (`client-core-wasm/src/lib.rs`)

Promises on one thread: a method is cut at each await, and the cells (`inner`,
`events`, `opened`, `identity`) may have changed when it goes on.

### DaemonRequests (`daemon-core/src/session.rs`, `connection.rs`, `config.rs`, `service.rs`, `pty/src/terminal.rs`)

`conn` is the step of each connection's handler, cut where a lock is released.
`child` is the process behind a terminal id: running, gone, flagged by its
waiter thread, or leaked. `mem`, `disk` and `acked` are the scrollback size in
memory, in the file (or `Torn`) and last acknowledged; `has_path` is false in
the first run of a daemon that wrote its own file. `Crash` restarts the daemon
from the file; it hangs up the children, and one that ignores it lives on without
an owner, as a leaked one does. `SendInput` and `ResizeTerminal` are not here:
they touch nothing the connections share but the terminal's PTY. `clean` and `raced` are history: no update overlapped or was cut
short; two creations overlapped.

### RelayDialer (`daemon-core/src/relay_dialer.rs`)

`link` is where `run_forever` is, `delay_ms` its backoff. `pairs` is the map of
one `run_once`; `held` the send `read_loop` waits in. Queues are counts. Each
pair has a connection task (which reads, sends, says Bye when it is revoked, or
writes input into a PTY) and a writer. The write is a blocking `write_all` without
a timeout (`Terminal::write_input`): it returns when the program in the terminal
reads or ends. `Unread` are the pairs whose program may do neither.

## The runs

| Run | Module | Bounds | States |
| --- | --- | --- | --- |
| `output` | OutputPath | all programs of 2 words, all chunkings, capacities 0, 2, 5, interval 3 | 82 000 |
| `relay` | Relay | 2 connections of one daemon, 1 client, queues of 1, 2 stimuli | 477 000 |
| `stream` | TerminalStream | 2 terminals, 2 units of output, 2 requests, channels of 1 | 150 000 |
| `admission` | ClientAdmission | 2 clients, 3 connections, 3 pairings, 1 revocation, 1 restart | 223 000 |
| `session` | ClientSession | 2 requests, 2 faults, over the relay | 80 000 |
| `input` | ClientInput | 2 terminals, 3 commands, 2 opens | 111 000 |
| `actor` | SessionActor | 2 connects, a request, an input, a close | 144 000 |
| `daemon` | DaemonRequests | 2 connections, 2 terminals, limit 1, 2 sizes, 1 crash | 572 000 |
| `dialer` | RelayDialer | 2 pairs, one of them unread, 2 connections, queues of 2 | 214 000 |
| `relay_stuck` | Relay | 1 daemon, 1 client that never reads | finding |
| `wasm_null` | WasmClient | 2 connects, 1 event, 3 calls | finding |
| `output_query` | OutputPath | all programs of 2 words | finding |

What they show:

* `output`: filtering and the number of queries answered do not depend on how
  output is cut into reads (`ChunkIndependent`) and takes out exactly the words the server handles
  (`FiltersWholeWords`); the parser calls a position safe inside a sequence only
  after an ESC or a control (`SplitsOutsideSequences`); the ring's window,
  snapshots and history pages are exact and eviction minimal (`RingInv`,
  `OverCapacityOnlyWithoutSplit`, `BoundedSnapshotReplays`, `HistoryPagesTile`,
  `EvictsOnlyWhenFull`); a snapshot's prefix restores the anchor's state on a
  terminal in any other state (`PrefixRestores`).
* `relay`: registrations, close notices and message order (also of a pair that is
  evicted while its `PairInbound` waits for room), and removal of pairs whose end
  has gone.
* `stream`: a switch of streams is clean, snapshot and live output join without
  a gap unless the client lagged, requests are answered, a lagging client
  catches up.
* `admission`: revocations are kept (over restarts too), noticed and enforced,
  memory follows the files, only a reload makes a pairing disappear.
* `session`: the refinement of `CommandReplies`; each waiting command is in one
  place (`EachWaitsOnce`); none is repeated after a successful send
  (`NotRepeatedAfterSend`); a ping has its time (`PingHasTime`); `ShutdownEnds`.
* `input`: `CommandsInOrder`, `NoStaleInput`, `Flushed`.
* `actor`: `EventsOfTheirSession`, `OrphanEnds`, and every command returns
  unless actor and loop wait for each other (`ReturnsUnlessWedged`; that state
  is reachable).
* `daemon`: `NoLostTerminal`, `LimitOvershoot`, `ConfigSurvives`,
  `ExitedReaped`.
* `dialer`: `MapIsOfThisLink`, `OldPairsEnd`, `LoopUnblocks`. The last two exempt
  a pair in `Unread` whose task is in its write: it stays there, its queue fills
  and the read loop waits for it. `LoopAlwaysUnblocks`, without the exemption, is
  refuted by TLC with the same constants.

Why the bounds are enough. Output: sixteen bytes wrap every ring, the capacities
cover zero and sizes below and above the interval, and two words are the least
in which what is held back of one meets the beginning of another. Relay: a queue
of one is full after one message, so every send meets a full queue; two daemon
connections cover refusal and hand-over of a registration. Stream: a chunk of
two units overruns channels of one; two requests are an open and a switch or a
kill. Admission: two connections pair one key, a third pairs another one
afterwards, the least that makes a lost pairing visible. Session: two requests,
one of each kind of response handling, meet in every queue; two faults break
one connection and the attempt to replace it. Input: three commands are a batch, one that is deferred and one that
could overtake. Actor: two connects replace a session; each channel is full
after one element. Daemon: two creations at a limit of one, or two updates;
one size the ring refuses. Dialer: a pair of each of two connections, queues
that can be full while the task is sending or writing; one pair is unread, the
other is not. Deadlock checking is off: with
bounded inputs every model may come to rest; the liveness properties say what
must have happened by then.

### Fairness

*Relay*: weak fairness of every task's step, of the writers and of the sweeper:
tokio runs each task that can make progress. Readers are fair once their socket
is gone. A pair that is not touched grows stale, because time passes. Peers owe
nothing. A stalled peer's writer is never enabled while the socket is open.
*TerminalStream*: weak fairness of the reader's broadcast, each forwarder, the
client and the connection task; its two select branches (output, requests) each
have it, as both are re-polled in every round of the loop. *ClientAdmission*:
weak fairness of the reload task and of a session that has an unseen value; the
latter assumes a session that is not held in a write to a PTY.
Reading a file has strong fairness: a read may fail any number of times, but
not for ever. *ClientSession*: weak fairness of the loop, of time, and of a
daemon that is up; a daemon may hang, and then only the heartbeat helps.
*ClientInput*: the loop. *SessionActor*: the actor, the pump, each session's
loop and each request task; the network owes no event. *DaemonRequests*:
handlers, waiter threads (assumed to have been started: `spawn_waiter` ignores it
when one could not be) and the reaper; clients and children owe nothing.
*RelayDialer*: the tasks of each pair; the relay owes nothing, but a socket
takes or refuses what is written, and the program behind a pair that is not in
`Unread` reads its input or ends. A blocked write also takes a worker thread of
the runtime; that enough are left for the other tasks is assumed. *OutputPath*: the reader thread while there is
output.

### Findings

`findings` in `PROJECT.json` quotes for each what a comment, test or message of
the repository says. Three have a run of their own: the sweeper of stuck pairs
can itself get stuck (`relay_stuck`), `next_event` of the web client can resolve
with null while the session runs (`wasm_null`), and a cursor query at the end of
a read is not answered (`output_query`). For the others the property is defined
at the end of its module and TLC refutes it with the constants of the module's
passing run:

* `TicketReleased`, `RegisterOkFirst` (MCRelay): the pair ticket of a client
  that leaves is not released; a daemon may be told of a pair before its
  registration is confirmed.
* `KnownStreamsOnly`, `SequenceForward` (TerminalStream): a switch between
  terminals, and an open that races with output, can each end the connection
  with a protocol error.
* `RevokedDropped`, `PairPersists` (MCAdmission): a revocation in the middle of
  a handshake is missed; a reload can undo a pairing.
* `AliveWithinCap` (DaemonRequests): concurrent creations pass the limit, and a
  scrollback size the ring refuses leaks the child.
* `ImportIsUsed` (WasmClient): an identity loaded before an import overwrites it
  in the cache.

Two divergences are read off the code: the client sends its configured resume
token unchanged on each connection, and the dialer announces a delay after a
clean end that it does not wait for.

Other behaviour a maintainer may want to know of, about which the repository
says nothing: `SafeSplitIsGround` (OutputPath) fails behind the ESC of a string
terminator and behind a control inside a CSI sequence, so an anchor can be
placed there; every query in a chunk is answered with the cursor before the
chunk; `apply_modes` renders 1002 and 1003 off after 1000 on, which switches the
mouse off again; a daemon that has just written its first configuration file
acknowledges changes of it without saving them; a backoff that has grown is not
reset by a long session that ends with an error; input for a program that does
not read holds up its connection's task for as long, and through the dialer's read
loop every pair of the link (`LoopAlwaysUnblocks`); a bounded snapshot with no
anchor near enough has the state at the head, which may be inside a sequence.

## The proofs

`OutputPathProofs` follows the output from the program to a client's terminal:
the ring, the filter in front of it, the parser that drives it, and the prefix
of a snapshot.

*The ring.* For every set of capacities, interval and length of output `RingInv`
is invariant, and from it follow `OverCapacityOnlyWithoutSplit`,
`EvictsOnlyWhenFull`, `BoundedSnapshotReplays`, `HistoryPagesTile` and
`SinceIsExact`. None of these is inductive by itself. `RingInv` adds that anchors
increase, that the window starts at the first of them, that `bytes_since_anchor`
measures from the newest (so no safe split was passed over once the interval was
reached), and that eviction stops only when the window fits or one anchor is
left. The lemmas first show what `EvictTo` and `AnchorsAfter` return, then what
one push does to each conjunct, then what a slice of the window is
(`OutputSlice`, `WindowSlice`), on which the reads rest. `PathDrivesRing` says
that every behaviour of the output path is one of the ring (a read leaves it
alone, a push is a push), so all of this holds there too.

*The filter.* Of programs of any length, cut in any way: `ChunkIndependent`,
`FiltersWholeWords`. What the processor decides about a byte does not change when
more bytes follow, unless it was to hold back (`PrefixedStable`, `TitleStable`,
`MatchStable`). So `process` composes: a read of `y` behind what a read of `z`
left pending gives what a read of both gives (`ProcessJoins`, for all byte
sequences), and with the position in the script (`ScriptInv`) `ChunkIndependent`
is inductive. The queries met add up the same way, and the one to be skipped is
the first whichever read it ends in (`ReportsGrow`). For whole words it remains to see that each word that is kept has
nothing to take in it and does not begin like one that is taken, that each
stripped word vanishes, and that a query is held back until the next byte
(`WordFiltered`, `NextWordFiltered`); `ScriptFiltered` adds word after word.

*The parser.* `SplitsOutsideSequences` needs that the bytes still to be pushed
are the output behind the ring's head (`ChunkIsTail`); the split is then a matter
of the last byte (`SplitBehindHead`).

*The prefix.* `PrefixBack`: for every state an anchor can keep and every state of
the terminal that is sent the prefix, attributes, colours, modes, charsets and
cursor come back, and the mouse or none. The loops of `sgr`, `mode_set` and
`Replay` are unfolded once for lists of any length (`Iterates`, `SgrUnfolds`,
`ReplayJoins`); `sgr` then reads back what `apply_sgr` writes block by block
(`AttrBlock`, `ColorBlock`, `SgrBack`), `mode_set` what `apply_modes` writes
(`ModesReplayed`), `esc_dispatch` what `apply_charset` writes
(`CharsetsReplayed`). `PrefixRestores` follows because every control function
keeps the tracker's state within its types (`PerformTyped`, `TrackerTyped`).

`ClientAdmissionProofs` proves, for any number of clients, connections,
pairings, revocations and restarts, that `AdmissionInv` is invariant, and from
it `RevocationNoticed` and `RevocationsKept`. The strengthening says that what
the reload task has read lies between memory and disk (`ReadsAreOlder`), and
that the comparison it made under the read lock still holds under the write
lock (`CompareHolds`), because nobody else changes the revocations in memory. `RevocationsKept` spans
restarts: what was once in memory is in the file (`Known`), no step takes it out
of there (`KnownStays`), and a daemon that runs has read the file.
`PairingLostOnlyIfForgotten` follows by cases on who writes the file: a pairing
writes the table it has in memory plus one key that was not in it, and `revoke`
leaves the clients alone.

`DaemonRequestsProofs` proves, for any number of connections, terminals and
crashes, `NoLostTerminal`, `ConfigSurvives` and `LimitOvershoot`. The first
needs that what the reaper has collected is flagged or no longer alive, the
second what an update in progress knows of memory and file at each of its
steps, and the third counts: while creations overlap, terminals and the
creations that passed the check together stay below the limit plus the number
of connections.

`RelayDialerProofs` proves `MapIsOfThisLink` and, for every configuration,
`BackoffInRange`: the delay stays between its floor and the larger of the first
delay and the maximum, and the jitter within a quarter of it.

`RelayProofs` proves, for any number of sockets, identities and pairs and queues
of any capacity, `RegistrationLive`, `ClosedPairNotifiesBoth`, `InboundFirst` and
`TypeOK`. That a closed pair's ends are told is the work of whoever closed it,
who may be stopped at any await (and a pair may be closed while its `PairInbound`
still waits in line), so the inductive invariant `RelayInv` is mostly
about what the tasks still have to do. `ItemsOK` says of each operation a task
awaits which pair it is about, that the pair exists, and that its daemon was
told of it first where that matters; `ShapesOK` that a send whose failure drops
the rest of a task's operations drops no `PairClose` with them. `QueueShape` and
`QueueWaits` say that each message beyond a queue's capacity belongs to one task
that waits with it, `QueueHeard` that what a daemon's queue holds of a pair came
behind its `PairInbound`. Two
lemmas about every step carry the rest: nothing a task did is undone (`Grows`),
and a `PairClose` that is still to be sent stays so until it is in the channel or
the writer has ended, while new operations are about pairs that live (`TodoOK`).

`TerminalStreamProofs` proves, for any terminals, requests, amounts of output and
capacities, `SwitchIsClean` and `ContiguousUnlessLagged`. For the first, stream
ids increase along the frames to the client: an id is given out when the open
begins, the old stream is detached before that, and a frame of a stream that is
no longer attached is dropped when it is taken from the output queue
(`Lifecycle`, `AcksBounded`, `DataBounded`). For the second, the places through
which the output of a stream passes - client, frames on the wire, output queue,
the forwarder's pieces, its buffer, and what the reader has in the ring but not
yet broadcast - are read as one chain in which each link begins no later than
the one before it ended (`Contiguous`). The chain closes for a new subscription
because the forwarder subscribes before the snapshot is taken and the ring is
filled before the broadcast: the overlap may repeat output and never omits any.

`ClientFlowProofs` is about what passes through the client. For any number of
terminals, commands and opens, `CommandsInOrder` and `NoStaleInput`. Neither is
inductive: the order of what is sent depends on the order of what waits. In
`InputInv`, `OnTheWay` extends it to the four places behind the wire;
`ChannelOrder` says that all that left the channel was issued before what is in
it, and `Gathered` that what is deferred does not fit the batch that passes it.
`AllTimely` says that a command on its way to the active terminal was issued in
its present attachment; it survives a new attachment because a terminal becomes
active only when nothing waits. And for any commands, sessions and capacities of
`SessionActor`, `EventsOfTheirSession`: the actor's receiver and the name under
which it emits change together, and an event is named when it is taken and not
when the pump has room.

`ClientSessionProofs` proves, for any number of calls, faults and reconnects and
any timing, `EachWaitsOnce`, `NotRepeatedAfterSend` and `PingHasTime`. `Placed`
says that a command is in one of the three places exactly as long as its caller
waits, `Unsent` that what is not in flight was never sent, `WireOnce` that the
wire carries it once; neither is inductive without the others, because a lost
connection moves commands back. `Beats` relates the two clocks of the heartbeat.
`RepliesImplemented` is the safety half of the refinement of `CommandReplies`:
initial states are initial, every step is a step or a stutter. An Ok is true
because a response carries the id of the request it answers (`Matched`). That
needs ids that differ, so the theorem has the hypothesis
`[](next_id < IdMax)`: the code's `u32` stops at its maximum, and from then on
two requests would share an id. TLC checks `KeepsPromise` with ids left over.

Assumptions are the modules' `ASSUME`s: constants are natural numbers, the
interval and the queue capacities are positive, the connections are finitely
many (`DaemonRequests`, where they are counted), `None` and the names of the
control messages are none of the values they stand beside. TLC evaluates them in
the runs.

Every safety invariant and action property that a passing run checks is proved.
Only model-checked are the liveness properties, the liveness half of
`KeepsPromise` among them: the prover does not do fairness. The three runs that
show findings are counterexamples and have nothing to prove. `WasmClient` has
such a run only.

Where a proof needs induction over the length of a sequence, it takes the least
length for which the claim fails (`LeastNatural`, from the well-founded order of
the natural numbers) and refutes it; the library's induction theorems, which
have an operator as a parameter, are not used. Functions of the model that are
tables (`Attr`, `ModeOf`, `FirstParam`) are written by cases because the prover
does not unfold `:>` and `@@`.

No module declares a `RECURSIVE` operator.

## Not modelled

Crypto and the wire codec: the models start from what a completed handshake has
established and use messages as records. Resume tokens: minted and verified by
functions no session uses. The relay's rate and queued-bytes counters have no
caller. Transports are ordered and lose nothing until they break. The store of a
client's identity is one value. Two `revoke` processes at the same time. The
Cloudflare relay and the frontend are TypeScript over the same protocol and the
same adapters; their state is a Durable Object's storage and React stores.
Set-up code, metrics, the pairing QR code, application shells, release scripts
and packaging.
