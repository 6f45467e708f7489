-------------------------------- MODULE Relay --------------------------------
(***************************************************************************)
(* The Rust relay (crates/relay/relay-core): the task behind every server  *)
(* (daemon) socket and every client socket, their writer tasks, the        *)
(* registry of servers, the manager of pairs, the capacity tickets and the *)
(* guillotine that evicts idle pairs.                                      *)
(*                                                                         *)
(* A task is a program counter and the list of the operations it still has *)
(* to await.  A socket's writer is fed by one bounded channel; several     *)
(* tasks send into it.  tokio's bounded channel serves waiting senders in  *)
(* order, so a channel is one sequence: its first QueueCap entries are     *)
(* buffered, each later one belongs to a sender that is still waiting and  *)
(* is named in `from`.                                                     *)
(*                                                                         *)
(* A client connection opens at most one pair, so a pair is named after    *)
(* its client connection.                                                  *)
(***************************************************************************)
EXTENDS Naturals, Sequences, FiniteSets, SequencesExt

CONSTANTS
  SConns,      \* server (daemon) connections
  CConns,      \* client connections
  ServerIds,   \* server identities
  ServerOf,    \* the identity a connection registers, or asks for
  Guillotine,  \* the sweeper task
  None,
  QueueCap,    \* SOCKET_QUEUE_CAPACITY
  MaxServers,  \* caps.max_servers
  MaxPairs,    \* caps.max_pairs
  MaxStimuli,  \* bound: what the peers do after the handshake, together
  Stalled      \* peers that keep their socket open and never read from it

Conns == SConns \cup CConns
Tasks == Conns \cup {Guillotine}

ASSUME RelayAssumption ==
  /\ SConns \cap CConns = {}
  /\ Guillotine \notin Conns
  /\ None \notin Tasks
  /\ ServerOf \in [Conns -> ServerIds]
  /\ QueueCap \in Nat \ {0}
  /\ MaxServers \in Nat
  /\ MaxPairs \in Nat
  /\ MaxStimuli \in Nat
  /\ Stalled \subseteq Conns

VARIABLES
  registry,  \* server identity -> the connection registered for it
  pairs,     \* PairManager: the live pairs
  link,      \* the server connection whose channel a client task has cloned
  pc,        \* where the task of a connection is
  todo,      \* the operations a task still has to await, in order
  queue,     \* the channel into the writer of a connection
  writer,    \* "run" while that writer task holds the channel's receiver
  sock,      \* "open"; "gone" once the peer has left; "ended" once the reader saw it
  stale,     \* live pairs whose last_progress is older than the idle threshold
  stimuli,   \* frames sent and sockets dropped by the peers
  told       \* PairInbound and PairClose messages ever put in a channel

vars == <<registry, pairs, link, pc, todo, queue, writer, sock, stale, stimuli, told>>

-----------------------------------------------------------------------------
(* Operations a task awaits *)

\* tx.send(msg).await into the channel of `to`.  `must`: the error is returned
\* with `?`; otherwise it is ignored.  `arc`: the Arc<Pair> held meanwhile.
Send(to, kind, p, must, arc) ==
  [op |-> "send", to |-> to, kind |-> kind, p |-> p, must |-> must, arc |-> arc]

\* The same send, queued behind a full channel.
Waiting(item) == [item EXCEPT !.op = "wait"]

\* Not begun: close_pair(p); the sweep of a server task that ended cleanly; the
\* guillotine's close of a stuck pair, whose last part is pairs.remove(p).
Task(op, p, arc) == [op |-> op, to |-> None, kind |-> "none", p |-> p, must |-> FALSE, arc |-> arc]
Close(p)      == Task("close", p, None)
Sweep         == Task("sweep", None, None)
Stuck(p)      == Task("stuck", p, p)
RemovePair(p) == Task("remove", p, p)

Items ==
  [op : {"send", "wait", "close", "sweep", "stuck", "remove"}, to : Conns \cup {None},
   kind : {"none", "registered", "inbound", "open", "data", "pairclose", "close"},
   p : CConns \cup {None}, must : BOOLEAN, arc : CConns \cup {None}]

Msg(kind, p, from) == [kind |-> kind, p |-> p, from |-> from]

-----------------------------------------------------------------------------
(* What keeps a Pair, a ticket or a channel alive *)

\* run_client_side holds `pair` (and client_tx, server_tx) until it returns.
ClientHolds(c) == pc[c] \in {"reading", "closing"}

\* Some Arc<Pair> exists: the PairTicket inside it is not released.
Held(p) ==
  \/ p \in pairs
  \/ ClientHolds(p)
  \/ \E t \in Tasks : \E i \in DOMAIN todo[t] : todo[t][i].arc = p

PairTickets == {p \in CConns : Held(p)}

\* RegisteredServer holds the registration and the ServerTicket.
ServerTickets == {s \in SConns : pc[s] \in {"reading", "closing"}}

\* Every sender of a channel is gone: recv() returns None.  A client task holds
\* its own sender until it returns, and its server's from registry.get on.
SendersGone(x) ==
  IF x \in CConns
  THEN pc[x] = "done" /\ ~ Held(x)
  ELSE /\ pc[x] \in {"awaiting", "done"}
       /\ \A c \in CConns : link[c] = x => pc[c] \in {"new", "done"} /\ ~ Held(c)

-----------------------------------------------------------------------------
Init ==
  /\ registry = [id \in ServerIds |-> None]
  /\ pairs = {}
  /\ link = [c \in CConns |-> None]
  /\ pc = [x \in Conns |-> "new"]
  /\ todo = [t \in Tasks |-> <<>>]
  /\ queue = [x \in Conns |-> <<>>]
  /\ writer = [x \in Conns |-> "run"]
  /\ sock = [x \in Conns |-> "open"]
  /\ stale = {}
  /\ stimuli = 0
  /\ told = {}

-----------------------------------------------------------------------------
\* A peer does something.
Stimulus ==
  /\ stimuli < MaxStimuli
  /\ stimuli' = stimuli + 1

-----------------------------------------------------------------------------
(* run_server_side *)

\* The task returns before it has a registration: nothing else can send on
\* its channel, and the writer closes the socket.
Refuse(x) ==
  /\ pc' = [pc EXCEPT ![x] = "done"]
  /\ UNCHANGED <<registry, pairs, link, todo, queue, writer, sock, stale, stimuli, told>>

\* The first frame is ServerRegister: the ticket is taken before the registry
\* is asked, and given back when the identity is already registered.  The
\* identity can be looked up from here on; ServerRegisterOk is still to send.
Register(s) ==
  LET id == ServerOf[s]
  IN  /\ pc[s] = "new"
      /\ sock[s] = "open"
      /\ \/ /\ Cardinality(ServerTickets) < MaxServers
            /\ registry[id] = None
            /\ registry' = [registry EXCEPT ![id] = s]
            /\ pc' = [pc EXCEPT ![s] = "reading"]
            /\ todo' = [todo EXCEPT ![s] = <<Send(s, "registered", None, TRUE, None)>>]
            /\ UNCHANGED <<pairs, link, queue, writer, sock, stale, stimuli, told>>
         \/ /\ Cardinality(ServerTickets) >= MaxServers \/ registry[id] # None
            /\ Refuse(s)

\* A server knows a pair once PairInbound has reached it: it went into the
\* server's channel and has left it.
Knows(s, p) ==
  /\ <<"inbound", p, s>> \in told
  /\ \A i \in DOMAIN queue[s] : queue[s][i].kind # "inbound" \/ queue[s][i].p # p

\* server_read_loop, Forward: touch, then await room in the client's channel;
\* for a pair that is gone, tell the server so.
ServerData(s, p) ==
  /\ pc[s] = "reading" /\ todo[s] = <<>> /\ sock[s] = "open"
  /\ Knows(s, p)
  /\ Stimulus
  /\ IF p \in pairs
     THEN /\ stale' = stale \ {p}
          /\ todo' = [todo EXCEPT ![s] = <<Send(p, "data", p, TRUE, p)>>]
     ELSE /\ todo' = [todo EXCEPT ![s] = <<Send(s, "pairclose", p, TRUE, None)>>]
          /\ UNCHANGED stale
  /\ UNCHANGED <<registry, pairs, link, pc, queue, writer, sock, told>>

\* server_read_loop, PairClose.
ServerPairClose(s, p) ==
  /\ pc[s] = "reading" /\ todo[s] = <<>> /\ sock[s] = "open"
  /\ Knows(s, p)
  /\ p \in pairs
  /\ Stimulus
  /\ todo' = [todo EXCEPT ![s] = <<Close(p)>>]
  /\ UNCHANGED <<registry, pairs, link, pc, queue, writer, sock, stale, told>>

\* The loop ends on a Close frame or the end of the stream: Close to the own
\* writer, then close every pair of this identity.
ServerEnds(s) ==
  /\ pc[s] = "reading" /\ todo[s] = <<>> /\ sock[s] = "gone"
  /\ sock' = [sock EXCEPT ![s] = "ended"]
  /\ pc' = [pc EXCEPT ![s] = "closing"]
  /\ todo' = [todo EXCEPT ![s] = <<Send(s, "close", None, FALSE, None), Sweep>>]
  /\ UNCHANGED <<registry, pairs, link, queue, writer, stale, stimuli, told>>

\* Mutant of DropRegistration: the slot outlives its task.
MutKeepsRegistration(s) == UNCHANGED registry

\* drop(registration): the slot is removed if it still is this registration's.
DropRegistration(s) ==
  registry' = [registry EXCEPT ![ServerOf[s]] = IF @ = s THEN None ELSE @]

\* The stream yields an error: `?` skips the sweep.
ServerFails(s) ==
  /\ pc[s] = "reading" /\ todo[s] = <<>> /\ sock[s] = "gone"
  /\ sock' = [sock EXCEPT ![s] = "ended"]
  /\ pc' = [pc EXCEPT ![s] = "awaiting"]
  /\ DropRegistration(s)
  /\ UNCHANGED <<pairs, link, todo, queue, writer, stale, stimuli, told>>

\* A frame that cannot be decoded, that is not binary or that names a pair of
\* another server: the loop returns an error the same way, on a live socket.
ServerBreaksProtocol(s) ==
  /\ pc[s] = "reading" /\ todo[s] = <<>> /\ sock[s] = "open"
  /\ Stimulus
  /\ pc' = [pc EXCEPT ![s] = "awaiting"]
  /\ DropRegistration(s)
  /\ UNCHANGED <<pairs, link, todo, queue, writer, sock, stale, told>>

\* server_read_loop has returned Ok.
ServerUnregisters(s) ==
  /\ pc[s] = "closing" /\ todo[s] = <<>>
  /\ pc' = [pc EXCEPT ![s] = "awaiting"]
  /\ DropRegistration(s)
  /\ UNCHANGED <<pairs, link, todo, queue, writer, sock, stale, stimuli, told>>

ServerReturns(s) ==
  /\ pc[s] = "awaiting" /\ writer[s] = "done"
  /\ pc' = [pc EXCEPT ![s] = "done"]
  /\ UNCHANGED <<registry, pairs, link, todo, queue, writer, sock, stale, stimuli, told>>

-----------------------------------------------------------------------------
(* run_client_side *)

\* registry.get: no registration, no pair.
Lookup(c) ==
  /\ pc[c] = "new"
  /\ sock[c] = "open"
  /\ IF registry[ServerOf[c]] = None
     THEN Refuse(c)
     ELSE /\ link' = [link EXCEPT ![c] = registry[ServerOf[c]]]
          /\ pc' = [pc EXCEPT ![c] = "found"]
          /\ UNCHANGED <<registry, pairs, todo, queue, writer, sock, stale, stimuli, told>>

\* try_add_pair, pairs.insert, then PairInbound to the server and PairOpen to
\* the client.
Admit(c) ==
  /\ pc[c] = "found"
  /\ IF Cardinality(PairTickets) >= MaxPairs
     THEN Refuse(c)
     ELSE /\ pairs' = pairs \cup {c}
          /\ pc' = [pc EXCEPT ![c] = "reading"]
          /\ todo' = [todo EXCEPT ![c] = <<Send(link[c], "inbound", c, TRUE, c),
                                           Send(c, "open", c, TRUE, c)>>]
          /\ UNCHANGED <<registry, link, queue, writer, sock, stale, stimuli, told>>

\* client_read_loop: any other binary frame is forwarded, whether or not the
\* pair is still in the manager.
ClientData(c) ==
  /\ pc[c] = "reading" /\ todo[c] = <<>> /\ sock[c] = "open"
  /\ Stimulus
  /\ stale' = stale \ {c}
  /\ todo' = [todo EXCEPT ![c] = <<Send(link[c], "data", c, TRUE, c)>>]
  /\ UNCHANGED <<registry, pairs, link, pc, queue, writer, sock, told>>

\* client_read_loop: PairClose closes the pair and ends the loop; then
\* run_client_side closes it again.
ClientPairClose(c) ==
  /\ pc[c] = "reading" /\ todo[c] = <<>> /\ sock[c] = "open"
  /\ Stimulus
  /\ pc' = [pc EXCEPT ![c] = "closing"]
  /\ todo' = [todo EXCEPT ![c] = <<Close(c), Close(c)>>]
  /\ UNCHANGED <<registry, pairs, link, queue, writer, sock, stale, told>>

\* A frame that is not binary ends the loop on a live socket.
ClientBreaksProtocol(c) ==
  /\ pc[c] = "reading" /\ todo[c] = <<>> /\ sock[c] = "open"
  /\ Stimulus
  /\ pc' = [pc EXCEPT ![c] = "closing"]
  /\ todo' = [todo EXCEPT ![c] = <<Close(c)>>]
  /\ UNCHANGED <<registry, pairs, link, queue, writer, sock, stale, told>>

\* The loop ends, cleanly or with an error: its result is kept and the pair
\* is closed either way.
ClientEnds(c) ==
  /\ pc[c] = "reading" /\ todo[c] = <<>> /\ sock[c] = "gone"
  /\ sock' = [sock EXCEPT ![c] = "ended"]
  /\ pc' = [pc EXCEPT ![c] = "closing"]
  /\ todo' = [todo EXCEPT ![c] = <<Close(c)>>]
  /\ UNCHANGED <<registry, pairs, link, queue, writer, stale, stimuli, told>>

\* writer.await has returned.
ClientReturns(c) ==
  /\ pc[c] = "closing" /\ todo[c] = <<>>
  /\ writer[c] = "done"
  /\ pc' = [pc EXCEPT ![c] = "done"]
  /\ UNCHANGED <<registry, pairs, link, todo, queue, writer, sock, stale, stimuli, told>>

-----------------------------------------------------------------------------
(* The awaited operations *)

\* A send with `?` failed.  A server task returns from its read loop without
\* the sweep; a client task that was still opening its pair returns at once,
\* one that was reading goes on to close it.
Fails(t) ==
  /\ UNCHANGED <<pairs, link, queue, writer, sock, stale, stimuli, told>>
  /\ \/ /\ t \in SConns
        /\ pc' = [pc EXCEPT ![t] = "awaiting"]
        /\ todo' = [todo EXCEPT ![t] = <<>>]
        /\ DropRegistration(t)
     \/ /\ t \in CConns /\ Head(todo[t]).kind \in {"inbound", "open"}
        /\ pc' = [pc EXCEPT ![t] = "done"]
        /\ todo' = [todo EXCEPT ![t] = <<>>]
        /\ UNCHANGED registry
     \/ /\ t \in CConns /\ Head(todo[t]).kind = "data"
        /\ pc' = [pc EXCEPT ![t] = "closing"]
        /\ todo' = [todo EXCEPT ![t] = <<Close(t)>>]
        /\ UNCHANGED registry

Skips(t) ==
  /\ todo' = [todo EXCEPT ![t] = Tail(@)]
  /\ UNCHANGED <<registry, pairs, link, pc, queue, writer, sock, stale, stimuli, told>>

\* The receiver is gone: send() returns an error.
SendError(t) ==
  /\ todo[t] # <<>>
  /\ Head(todo[t]).op \in {"send", "wait"}
  /\ writer[Head(todo[t]).to] = "done"
  /\ IF Head(todo[t]).must THEN Fails(t) ELSE Skips(t)

\* Mutant of SendStep: try_send, which drops the message when there is no room.
MutTrySend(t) ==
  LET item == Head(todo[t])
      x    == item.to
      room == Len(queue[x]) < QueueCap
  IN  /\ todo[t] # <<>>
      /\ item.op = "send"
      /\ writer[x] = "run"
      /\ queue' = IF room THEN [queue EXCEPT ![x] = Append(@, Msg(item.kind, item.p, None))]
                  ELSE queue
      /\ told' = IF room /\ item.kind \in {"inbound", "pairclose"}
                 THEN told \cup {<<item.kind, item.p, x>>} ELSE told
      /\ todo' = [todo EXCEPT ![t] = Tail(@)]
      /\ UNCHANGED <<registry, pairs, link, pc, writer, sock, stale, stimuli>>

\* The message takes its place in the channel; the sender goes on if that
\* place is within the capacity and waits otherwise.
SendStep(t) ==
  LET item == Head(todo[t])
      x    == item.to
      room == Len(queue[x]) < QueueCap
  IN  /\ todo[t] # <<>>
      /\ item.op = "send"
      /\ writer[x] = "run"
      /\ queue' = [queue EXCEPT ![x] =
                     Append(@, Msg(item.kind, item.p, IF room THEN None ELSE t))]
      /\ todo' = [todo EXCEPT ![t] = IF room THEN Tail(@) ELSE <<Waiting(item)>> \o Tail(@)]
      /\ told' = IF item.kind \in {"inbound", "pairclose"}
                 THEN told \cup {<<item.kind, item.p, x>>} ELSE told
      /\ UNCHANGED <<registry, pairs, link, pc, writer, sock, stale, stimuli>>

\* close_pair: remove; nothing more if it was gone; else PairClose to both.
CloseStep(t) ==
  LET p == Head(todo[t]).p
  IN  /\ todo[t] # <<>>
      /\ Head(todo[t]).op = "close"
      /\ pairs' = pairs \ {p}
      /\ stale' = stale \ {p}
      /\ todo' = [todo EXCEPT ![t] =
           IF p \in pairs
           THEN <<Send(link[p], "pairclose", p, FALSE, p), Send(p, "pairclose", p, FALSE, p)>>
                  \o Tail(@)
           ELSE Tail(@)]
      /\ UNCHANGED <<registry, link, pc, queue, writer, sock, stimuli, told>>

\* list_for_sweep, filtered by server_id, in the hash map's order.
SweepStep(t) ==
  /\ todo[t] # <<>>
  /\ Head(todo[t]).op = "sweep"
  /\ \E order \in SetToSeqs({p \in pairs : ServerOf[p] = ServerOf[t]}) :
       todo' = [todo EXCEPT ![t] = [i \in DOMAIN order |-> Close(order[i])]]
  /\ UNCHANGED <<registry, pairs, link, pc, queue, writer, sock, stale, stimuli, told>>

TaskStep(t) == SendError(t) \/ SendStep(t) \/ CloseStep(t) \/ SweepStep(t)

-----------------------------------------------------------------------------
(* guillotine::run *)

\* Mutant of SweepOnce: pairs whose server has ended are left to that server.
MutSweepsServedPairs ==
  /\ todo[Guillotine] = <<>>
  /\ \E p \in pairs \cap stale :
       /\ pc[link[p]] = "reading"
       /\ todo' = [todo EXCEPT ![Guillotine] = <<Stuck(p)>>]
  /\ UNCHANGED <<registry, pairs, link, pc, queue, writer, sock, stale, stimuli, told>>

\* sweep_once: the snapshot of the idle pairs is taken at once and then worked
\* through, pair by pair.
SweepOnce ==
  /\ todo[Guillotine] = <<>>
  /\ pairs \cap stale # {}
  /\ \E order \in SetToSeqs(pairs \cap stale) :
       todo' = [todo EXCEPT ![Guillotine] = [i \in DOMAIN order |-> Stuck(order[i])]]
  /\ UNCHANGED <<registry, pairs, link, pc, queue, writer, sock, stale, stimuli, told>>

\* Mutant of CloseStuck: the pair is removed and nobody is told.
MutCloseStuckSilently(p) == <<RemovePair(p)>>

\* close_stuck: PairClose{Stuck} to both legs.  Then the pair is removed.
CloseStuck(p) ==
  <<Send(link[p], "pairclose", p, FALSE, p), Send(p, "pairclose", p, FALSE, p), RemovePair(p)>>

StuckStep ==
  /\ todo[Guillotine] # <<>>
  /\ Head(todo[Guillotine]).op = "stuck"
  /\ todo' = [todo EXCEPT ![Guillotine] = CloseStuck(Head(@).p) \o Tail(@)]
  /\ UNCHANGED <<registry, pairs, link, pc, queue, writer, sock, stale, stimuli, told>>

RemoveStuck ==
  /\ todo[Guillotine] # <<>>
  /\ Head(todo[Guillotine]).op = "remove"
  /\ pairs' = pairs \ {Head(todo[Guillotine]).p}
  /\ stale' = stale \ {Head(todo[Guillotine]).p}
  /\ todo' = [todo EXCEPT ![Guillotine] = Tail(@)]
  /\ UNCHANGED <<registry, link, pc, queue, writer, sock, stimuli, told>>

-----------------------------------------------------------------------------
(* writer_loop and client_writer_loop *)

\* The receiver is dropped, with the messages it held, and the socket closed.
WriterBreaks(x) ==
  /\ writer' = [writer EXCEPT ![x] = "done"]
  /\ queue' = [queue EXCEPT ![x] = <<>>]
  /\ sock' = [sock EXCEPT ![x] = IF @ = "open" THEN "gone" ELSE @]
  /\ UNCHANGED <<registry, pairs, link, pc, todo, stale, stimuli, told>>

\* The first message leaves the channel, and the first waiting sender gets the
\* place that becomes free.
Dequeue(x) ==
  LET rest == Tail(queue[x])
  IN  /\ IF Len(rest) < QueueCap
         THEN /\ queue' = [queue EXCEPT ![x] = rest]
              /\ UNCHANGED todo
         ELSE /\ queue' = [queue EXCEPT ![x] = [rest EXCEPT ![QueueCap].from = None]]
              /\ todo' = [todo EXCEPT ![rest[QueueCap].from] = Tail(@)]
      /\ UNCHANGED <<registry, pairs, link, pc, writer, sock, stale, stimuli, told>>

\* A stalled peer blocks every write until it is gone.
Writable(x) == sock[x] = "open" => x \notin Stalled

\* One message to the socket.  Close ends the loop, and so does a write that
\* fails: one after the peer has left fails or is still taken by the kernel,
\* one after the reader saw the end fails.
WriterStep(x) ==
  /\ writer[x] = "run"
  /\ queue[x] # <<>>
  /\ Writable(x)
  /\ \/ /\ sock[x] # "open" \/ Head(queue[x]).kind = "close"
        /\ WriterBreaks(x)
     \/ /\ sock[x] # "ended" /\ Head(queue[x]).kind # "close"
        /\ Dequeue(x)

\* recv() returns None once no sender is left.
WriterEnds(x) ==
  /\ writer[x] = "run"
  /\ queue[x] = <<>>
  /\ pc[x] # "new"
  /\ SendersGone(x)
  /\ Writable(x)
  /\ writer' = [writer EXCEPT ![x] = "done"]
  /\ sock' = [sock EXCEPT ![x] = IF @ = "open" THEN "gone" ELSE @]
  /\ UNCHANGED <<registry, pairs, link, pc, todo, queue, stale, stimuli, told>>

-----------------------------------------------------------------------------
(* Environment *)

PeerGone(x) ==
  /\ sock[x] = "open"
  /\ pc[x] # "new"
  /\ Stimulus
  /\ sock' = [sock EXCEPT ![x] = "gone"]
  /\ UNCHANGED <<registry, pairs, link, pc, todo, queue, writer, stale, told>>

\* idle_seconds pass without a touch, also while the client task waits for room
\* for its PairInbound.  From pairs.insert to the poll that puts PairInbound in
\* line there is no await: that much code does not take idle_seconds.
IdleElapses(p) ==
  /\ p \in pairs \ stale
  /\ \A i \in DOMAIN todo[p] : todo[p][i].op = "send" => todo[p][i].kind # "inbound"
  /\ stale' = stale \cup {p}
  /\ UNCHANGED <<registry, pairs, link, pc, todo, queue, writer, sock, stimuli, told>>

ServerNext(s) ==
  \/ Register(s) \/ ServerEnds(s) \/ ServerFails(s) \/ ServerBreaksProtocol(s)
  \/ ServerUnregisters(s) \/ ServerReturns(s)
  \/ \E p \in CConns : ServerData(s, p) \/ ServerPairClose(s, p)

ClientNext(c) ==
  \/ Lookup(c) \/ Admit(c) \/ ClientData(c) \/ ClientPairClose(c)
  \/ ClientBreaksProtocol(c) \/ ClientEnds(c) \/ ClientReturns(c)

Next ==
  \/ \E s \in SConns : ServerNext(s)
  \/ \E c \in CConns : ClientNext(c) \/ IdleElapses(c)
  \/ \E t \in Tasks : TaskStep(t)
  \/ SweepOnce \/ StuckStep \/ RemoveStuck
  \/ \E x \in Conns : WriterStep(x) \/ WriterEnds(x) \/ PeerGone(x)

\* tokio runs every task that can run.  What peers do is their own affair;
\* time passes, so a pair that is not used grows stale.
Fairness ==
  /\ \A t \in Tasks : WF_vars(TaskStep(t))
  /\ WF_vars(SweepOnce) /\ WF_vars(StuckStep) /\ WF_vars(RemoveStuck)
  /\ \A x \in Conns : WF_vars(WriterStep(x)) /\ WF_vars(WriterEnds(x))
  /\ \A s \in SConns : WF_vars(ServerEnds(s) \/ ServerFails(s))
                       /\ WF_vars(ServerUnregisters(s)) /\ WF_vars(ServerReturns(s))
  /\ \A c \in CConns : /\ WF_vars(Admit(c))
                       /\ WF_vars(ClientEnds(c)) /\ WF_vars(ClientReturns(c))
                       /\ WF_vars(IdleElapses(c))

Spec == Init /\ [][Next]_vars /\ Fairness

-----------------------------------------------------------------------------
(* Properties *)

\* The types of the variables.  Exactly the entries beyond SOCKET_QUEUE_CAPACITY
\* belong to a waiting sender, and a client task past registry.get has the
\* channel of a server.
TypeOK ==
  /\ registry \in [ServerIds -> SConns \cup {None}]
  /\ pairs \in SUBSET CConns
  /\ link \in [CConns -> SConns \cup {None}]
  /\ pc \in [Conns -> {"new", "found", "reading", "closing", "awaiting", "done"}]
  /\ todo \in [Tasks -> Seq(Items)]
  /\ \A x \in Conns : \A i \in DOMAIN queue[x] :
       queue[x][i].from \in Tasks \cup {None} /\ (queue[x][i].from = None <=> i <= QueueCap)
  /\ writer \in [Conns -> {"run", "done"}]
  /\ sock \in [Conns -> {"open", "gone", "ended"}]
  /\ stale \in SUBSET CConns
  /\ stimuli \in 0..MaxStimuli
  /\ told \in SUBSET ({"inbound", "pairclose"} \X CConns \X Conns)
  /\ \A c \in CConns : pc[c] \in {"found", "reading", "closing"} => link[c] # None

\* A registered connection is one whose task is alive and will unregister it,
\* and it is the one registered under its identity.
RegistrationLive ==
  /\ \A id \in ServerIds : registry[id] # None =>
       ServerOf[registry[id]] = id /\ pc[registry[id]] \in {"reading", "closing"}
  /\ \A s \in ServerTickets : registry[ServerOf[s]] = s

Pending(p, x) ==
  \E t \in Tasks : \E i \in DOMAIN todo[t] :
    todo[t][i].op \in {"send", "wait"} /\ todo[t][i].kind = "pairclose"
      /\ todo[t][i].p = p /\ todo[t][i].to = x

\* A pair leaves the manager only with its two ends told, or about to be told,
\* or their writers gone: no end is left believing in a pair that is closed.
ClosedPairNotifiesBoth ==
  \A c \in CConns :
    pc[c] \notin {"new", "found"} /\ link[c] # None /\ c \notin pairs /\ Held(c) =>
      \A x \in {c, link[c]} : <<"pairclose", c, x>> \in told \/ Pending(c, x) \/ writer[x] = "done"

\* The daemon hears of a pair before anything else about it: as long as the
\* relay reads from it, no data frame and no PairClose of a pair is in its
\* channel unless PairInbound went in before.
InboundFirst ==
  \A s \in SConns : pc[s] = "reading" =>
    \A i \in DOMAIN queue[s] : queue[s][i].kind \in {"data", "pairclose"} =>
      <<"inbound", queue[s][i].p, s>> \in told

\* A pair one of whose ends has gone leaves the manager, however the tasks
\* behind it ended (client_read_loop, server_read_loop, the guillotine).
GonePairRemoved ==
  \A c \in CConns :
    (c \in pairs /\ (sock[c] # "open" \/ pc[link[c]] = "done")) ~> (c \notin pairs)

\* guillotine.rs: the sweeper "periodically scans live pairs and closes any
\* whose `last_progress` is older than a configured threshold".
StuckPairEvicted ==
  \A c \in CConns : (c \in pairs /\ c \in stale) ~> (c \notin pairs \/ c \notin stale)

\* guillotine.rs: the pair is dropped "so the server/client tasks can drain
\* their writer queues"; a client task whose client has gone ends, and the
\* ticket in its pair is released.
TicketReleased ==
  \A c \in CConns : (sock[c] # "open" /\ pc[c] = "closing") ~> ~ Held(c)

\* relay_dialer.rs: the first frame a daemon gets is ServerRegisterOk, any other
\* is an "unexpected relay registration response".
RegisterOkFirst ==
  \A s \in SConns :
    (\E i \in DOMAIN todo[s] : todo[s][i].kind = "registered") => queue[s] = <<>>
=============================================================================
