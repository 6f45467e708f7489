----------------------------- MODULE RelayProofs -----------------------------
(***************************************************************************)
(* What the relay's tasks keep true for any number of sockets, identities  *)
(* and pairs and for channels of any capacity.                             *)
(*                                                                         *)
(* The properties are about what several tasks do to one pair, so the      *)
(* inductive invariant RelayInv is mostly about the operations the tasks   *)
(* still have to await (ItemsOK, ShapesOK) and about the channels          *)
(* (QueueShape, QueueWaits, QueueHeard).  The argument has three parts:    *)
(*   - Grows: no step takes back a message, a writer's end, or the server  *)
(*     a client task was linked to;                                        *)
(*   - TodoOK: a step keeps every PairClose that is still to be sent until *)
(*     it is in the channel or the writer has ended, and every item it     *)
(*     adds is about a pair that lives;                                    *)
(*   - each conjunct of RelayInv then follows from these two and from what *)
(*     the few steps do that change it.                                    *)
(***************************************************************************)
EXTENDS Relay, FiniteSetTheorems, TLAPS

\* The messages a channel holds.
Msgs ==
  [kind : {"none", "registered", "inbound", "open", "data", "pairclose", "close"},
   p : CConns \cup {None}, from : Tasks \cup {None}]

States == {"new", "found", "reading", "closing", "awaiting", "done"}

StateTypes ==
  /\ registry \in [ServerIds -> SConns \cup {None}]
  /\ link \in [CConns -> SConns \cup {None}]
  /\ pc \in [Conns -> States]
  /\ writer \in [Conns -> {"run", "done"}]

PairTypes == pairs \in SUBSET CConns /\ IsFiniteSet(pairs) /\ stale \in SUBSET CConns

TodoTypes == todo \in [Tasks -> Seq(Items)]

QueueTypes == queue \in [Conns -> Seq(Msgs)]

Types == StateTypes /\ PairTypes /\ TodoTypes /\ QueueTypes

\* A task that has not got a pair or a registration yet awaits nothing.
Fresh(x) == pc[x] \in {"new", "found"}

FreshIdle == \A x \in Conns : Fresh(x) => todo[x] = <<>>

\* A client task that has had a pair.
Paired(c) == ~ Fresh(c) /\ link[c] # None

\* A pair in the manager, and one the server was told of, has a client task that
\* made it with that server.
PairsPaired ==
  /\ \A c \in CConns : c \in pairs \/ c \in stale \/ ClientHolds(c) => Paired(c)
  /\ \A c \in CConns, x \in Conns : <<"inbound", c, x>> \in told => Paired(c) /\ link[c] = x

\* The channel a client task has cloned belongs to the registration of the
\* identity it asked for.
LinkLive ==
  /\ \A c \in CConns : link[c] # None => ServerOf[link[c]] = ServerOf[c] /\ pc[link[c]] # "new"
  /\ \A c \in CConns : pc[c] = "found" => link[c] # None

\* Both ends of a pair have been, or will be, told of its end.
Notified(p) ==
  \A x \in {p, link[p]} : <<"pairclose", p, x>> \in told \/ Pending(p, x) \/ writer[x] = "done"

\* PairInbound was put in the channel of s, or s can no longer act on the pair.
Heard(p, s) == <<"inbound", p, s>> \in told \/ writer[s] = "done" \/ pc[s] \notin {"new", "reading"}

\* What an item says about its pair.
ItemShape(m) ==
  /\ m.arc \in {m.p, None}
  /\ m.op \in {"send", "wait"} => m.to \in Conns
  /\ m.must => m.op \in {"send", "wait"}
  /\ m.op \in {"stuck", "remove"} \/ m.kind = "data" => m.arc = m.p
  /\ m.op \in {"close", "stuck", "remove"} \/ m.kind \in {"inbound", "pairclose"} => m.p \in CConns
ItemPair(m) == m.p # None => Paired(m.p)
ItemOwner(t, m) ==
  /\ t \in CConns => m.p = t /\ (m.kind \in {"inbound", "data"} => m.to = link[t])
  /\ m.kind = "inbound" => t \in CConns
ItemSweep(t, m) == m.op = "sweep" => t \in SConns /\ pc[t] = "closing"
ItemWait(m) == m.op = "wait" /\ m.kind = "pairclose" => <<"pairclose", m.p, m.to>> \in told
ItemRemove(m) == m.op = "remove" => Notified(m.p)
ItemHeard(m) ==
  /\ m.op \in {"close", "stuck"} => Heard(m.p, link[m.p])
  /\ m.kind \in {"data", "pairclose"} /\ m.to \in SConns => Heard(m.p, m.to)

ItemOK(t, m) ==
  ItemShape(m) /\ ItemPair(m) /\ ItemOwner(t, m) /\ ItemSweep(t, m) /\ ItemWait(m)
   /\ ItemRemove(m) /\ ItemHeard(m)

ItemsOK == \A t \in Tasks : \A m \in Range(todo[t]) : ItemOK(t, m)

\* A send whose failure ends the task is followed by no other PairClose, and a
\* sweep replaces nothing but itself.
ShapeOK(e) ==
  \A m, n \in Range(e) :
    /\ m.must => n.must /\ (n.kind = "pairclose" => Len(e) = 1)
    /\ m.op = "sweep" => n.kind # "pairclose" /\ n.op # "close"

ShapesOK == \A t \in Tasks : ShapeOK(todo[t])

\* The channels: exactly the messages beyond the capacity have a sender waiting,
\* each its own, and that sender's next operation is this send; and nothing
\* about a pair is in a server's channel that PairInbound did not precede.
QueueShape ==
  \A x \in Conns :
    /\ writer[x] = "done" => queue[x] = <<>>
    /\ \A i \in DOMAIN queue[x] : queue[x][i].from = None <=> i <= QueueCap
    /\ \A i, j \in DOMAIN queue[x] :
         queue[x][i].from = queue[x][j].from /\ queue[x][i].from # None => i = j
QueueWaits ==
  \A x \in Conns : \A m \in Range(queue[x]) :
    m.from # None =>
      /\ todo[m.from] # <<>>
      /\ Head(todo[m.from]).op = "wait" /\ Head(todo[m.from]).to = x
QueueHeard ==
  \A s \in SConns : \A m \in Range(queue[s]) : m.kind \in {"data", "pairclose"} => Heard(m.p, s)

\* The client task is about to send PairInbound.
InboundDue(c) ==
  todo[c] # <<>> /\ Head(todo[c]).kind = "inbound" /\ Head(todo[c]).op = "send"
PairsHeard ==
  /\ \A c \in CConns : c \in pairs \/ ClientHolds(c) => Heard(c, link[c]) \/ InboundDue(c)
  /\ \A c \in stale : Heard(c, link[c])

RelayInv ==
  /\ Types /\ RegistrationLive /\ FreshIdle /\ LinkLive /\ PairsPaired
  /\ ItemsOK /\ ShapesOK /\ QueueShape /\ QueueWaits /\ QueueHeard
  /\ PairsHeard /\ ClosedPairNotifiesBoth

-----------------------------------------------------------------------------
(* Sequences and the values they hold *)

LEMMA RangeHeadTail ==
  ASSUME NEW S, NEW s \in Seq(S), s # <<>>
  PROVE  /\ Head(s) \in S /\ Tail(s) \in Seq(S)
         /\ Head(s) \in Range(s)
         /\ Range(Tail(s)) \subseteq Range(s)
         /\ Range(s) \subseteq {Head(s)} \cup Range(Tail(s))
<1>1. Head(s) = s[1] /\ 1 \in DOMAIN s /\ Head(s) \in S /\ Tail(s) \in Seq(S)
  OBVIOUS
<1>2. ASSUME NEW i \in DOMAIN Tail(s) PROVE Tail(s)[i] \in Range(s)
  BY DEF Range
<1>3. ASSUME NEW i \in DOMAIN s PROVE s[i] \in {Head(s)} \cup Range(Tail(s))
  <2>1. CASE i = 1
    BY <2>1, <1>1
  <2>2. CASE i # 1
    <3>1. i - 1 \in DOMAIN Tail(s) /\ Tail(s)[i - 1] = s[i]
      BY <2>2
    <3> QED BY <3>1 DEF Range
  <2> QED BY <2>1, <2>2
<1> QED BY <1>1, <1>2, <1>3 DEF Range

LEMMA RangeConcat ==
  ASSUME NEW S, NEW r \in Seq(S), NEW s \in Seq(S)
  PROVE  r \o s \in Seq(S) /\ Range(r \o s) = Range(r) \cup Range(s)
<1>1. r \o s \in Seq(S) /\ Len(r \o s) = Len(r) + Len(s)
  OBVIOUS
<1>2. ASSUME NEW i \in DOMAIN (r \o s) PROVE (r \o s)[i] \in Range(r) \cup Range(s)
  <2>1. CASE i <= Len(r)
    BY <2>1 DEF Range
  <2>2. CASE i > Len(r)
    <3>1. i - Len(r) \in DOMAIN s /\ (r \o s)[i] = s[i - Len(r)]
      BY <2>2
    <3> QED BY <3>1 DEF Range
  <2> QED BY <2>1, <2>2
<1>3. ASSUME NEW i \in DOMAIN r PROVE r[i] \in Range(r \o s)
  <2>1. i \in DOMAIN (r \o s) /\ (r \o s)[i] = r[i]
    OBVIOUS
  <2> QED BY <2>1 DEF Range
<1>4. ASSUME NEW i \in DOMAIN s PROVE s[i] \in Range(r \o s)
  <2>1. i + Len(r) \in DOMAIN (r \o s) /\ (r \o s)[i + Len(r)] = s[i]
    OBVIOUS
  <2> QED BY <2>1 DEF Range
<1> QED BY <1>1, <1>2, <1>3, <1>4 DEF Range

LEMMA RangeTuples ==
  /\ Range(<<>>) = {}
  /\ \A a : Range(<<a>>) = {a}
  /\ \A a, b : Range(<<a, b>>) = {a, b}
  /\ \A a, b, c : Range(<<a, b, c>>) = {a, b, c}
<1>1. Range(<<>>) = {}
  BY DEF Range
<1>2. ASSUME NEW a PROVE Range(<<a>>) = {a}
  BY DEF Range
<1>3. ASSUME NEW a, NEW b PROVE Range(<<a, b>>) = {a, b}
  <2>1. DOMAIN <<a, b>> = {1, 2} /\ <<a, b>>[1] = a /\ <<a, b>>[2] = b
    OBVIOUS
  <2> QED BY <2>1 DEF Range
<1>4. ASSUME NEW a, NEW b, NEW c PROVE Range(<<a, b, c>>) = {a, b, c}
  <2>1. DOMAIN <<a, b, c>> = {1, 2, 3}
        /\ <<a, b, c>>[1] = a /\ <<a, b, c>>[2] = b /\ <<a, b, c>>[3] = c
    OBVIOUS
  <2> QED BY <2>1 DEF Range
<1> QED BY <1>1, <1>2, <1>3, <1>4

LEMMA RangeAppend ==
  ASSUME NEW S, NEW s \in Seq(S), NEW a \in S
  PROVE  Append(s, a) \in Seq(S) /\ Range(Append(s, a)) = Range(s) \cup {a}
<1>1. Append(s, a) \in Seq(S) /\ Len(Append(s, a)) = Len(s) + 1
      /\ Append(s, a)[Len(s) + 1] = a /\ \A i \in DOMAIN s : Append(s, a)[i] = s[i]
  OBVIOUS
<1>2. DOMAIN Append(s, a) = DOMAIN s \cup {Len(s) + 1}
  BY <1>1
<1> QED BY <1>1, <1>2 DEF Range

LEMMA SeqExcept ==
  ASSUME NEW S, NEW s \in Seq(S), NEW i \in DOMAIN s, NEW v \in S
  PROVE  /\ [s EXCEPT ![i] = v] \in Seq(S) /\ Len([s EXCEPT ![i] = v]) = Len(s)
         /\ [s EXCEPT ![i] = v][i] = v
         /\ \A j \in DOMAIN s : j # i => [s EXCEPT ![i] = v][j] = s[j]
OBVIOUS

-----------------------------------------------------------------------------
(* Items *)

LEMMA SendFields ==
  ASSUME NEW to \in Conns, NEW p \in CConns \cup {None}, NEW must \in BOOLEAN,
         NEW arc \in CConns \cup {None},
         NEW kind \in {"none", "registered", "inbound", "open", "data", "pairclose", "close"}
  PROVE  /\ Send(to, kind, p, must, arc) \in Items
         /\ Send(to, kind, p, must, arc).op = "send" /\ Send(to, kind, p, must, arc).to = to
         /\ Send(to, kind, p, must, arc).kind = kind /\ Send(to, kind, p, must, arc).p = p
         /\ Send(to, kind, p, must, arc).must = must /\ Send(to, kind, p, must, arc).arc = arc
BY DEF Send, Items

LEMMA TaskFields ==
  ASSUME NEW p \in CConns \cup {None}, NEW arc \in CConns \cup {None},
         NEW op \in {"close", "sweep", "stuck", "remove"}
  PROVE  /\ Task(op, p, arc) \in Items
         /\ Task(op, p, arc).op = op /\ Task(op, p, arc).to = None
         /\ Task(op, p, arc).kind = "none" /\ Task(op, p, arc).p = p
         /\ Task(op, p, arc).must = FALSE /\ Task(op, p, arc).arc = arc
BY DEF Task, Items

LEMMA WaitingFields ==
  ASSUME NEW m \in Items
  PROVE  /\ Waiting(m) \in Items
         /\ Waiting(m).op = "wait" /\ Waiting(m).to = m.to /\ Waiting(m).kind = m.kind
         /\ Waiting(m).p = m.p /\ Waiting(m).must = m.must /\ Waiting(m).arc = m.arc
BY DEF Waiting, Items

\* A set of pairs worked through in some order.
LEMMA OrderedItems ==
  ASSUME NEW S \in SUBSET CConns, IsFiniteSet(S), NEW order \in SetToSeqs(S)
  PROVE  /\ [i \in DOMAIN order |-> Close(order[i])] \in Seq(Items)
         /\ [i \in DOMAIN order |-> Stuck(order[i])] \in Seq(Items)
         /\ Range([i \in DOMAIN order |-> Close(order[i])]) \subseteq {Close(p) : p \in S}
         /\ Range([i \in DOMAIN order |-> Stuck(order[i])]) \subseteq {Stuck(p) : p \in S}
<1>1. Cardinality(S) \in Nat
  BY FS_CardinalityType
<1>2. order \in [1..Cardinality(S) -> S]
  BY DEF SetToSeqs
<1>3. PICK n \in Nat : DOMAIN order = 1..n
  BY <1>1, <1>2
<1>4. \A i \in 1..n : order[i] \in S
  BY <1>2, <1>3
<1>5. \A p \in S : Close(p) \in Items /\ Stuck(p) \in Items
  BY TaskFields DEF Close, Stuck
<1> QED BY <1>3, <1>4, <1>5 DEF Range

-----------------------------------------------------------------------------
(* Types *)

LEMMA StateTypesNext ==
  ASSUME RelayAssumption, StateTypes, [Next]_vars
  PROVE  StateTypes'
<1>1. ASSUME NEW s \in SConns, ServerNext(s) PROVE StateTypes'
  <2>1. CASE Register(s)
    BY <1>1, <2>1 DEF Register, Refuse, StateTypes, RelayAssumption, Conns, States
  <2>2. CASE ServerEnds(s) \/ ServerFails(s) \/ ServerBreaksProtocol(s) \/ ServerUnregisters(s) \/
    ServerReturns(s)
    BY <1>1, <2>2 DEF ServerEnds, ServerFails, ServerBreaksProtocol, ServerUnregisters,
      ServerReturns, DropRegistration,
         StateTypes, RelayAssumption, Conns, States
  <2>3. CASE \E p \in CConns : ServerData(s, p) \/ ServerPairClose(s, p)
    BY <1>1, <2>3 DEF ServerData, ServerPairClose, StateTypes
  <2> QED BY <1>1, <2>1, <2>2, <2>3 DEF ServerNext
<1>2. ASSUME NEW c \in CConns, ClientNext(c) PROVE StateTypes'
  <2>1. CASE Lookup(c)
    BY <1>2, <2>1 DEF Lookup, Refuse, StateTypes, RelayAssumption, Conns, States
  <2>2. CASE Admit(c)
    BY <1>2, <2>2 DEF Admit, Refuse, StateTypes, RelayAssumption, Conns, States
  <2>3. CASE ClientData(c) \/ ClientPairClose(c) \/ ClientBreaksProtocol(c) \/ ClientEnds(c) \/
    ClientReturns(c)
    BY <1>2, <2>3 DEF ClientData, ClientPairClose, ClientBreaksProtocol, ClientEnds, ClientReturns,
      StateTypes, Conns,
         States
  <2> QED BY <1>2, <2>1, <2>2, <2>3 DEF ClientNext
<1>3. ASSUME NEW t \in Tasks, TaskStep(t) PROVE StateTypes'
  <2>1. CASE SendError(t)
    BY <1>3, <2>1 DEF SendError, Fails, Skips, DropRegistration, StateTypes, RelayAssumption,
         Conns, States
  <2>2. CASE SendStep(t) \/ CloseStep(t) \/ SweepStep(t)
    BY <1>3, <2>2 DEF SendStep, CloseStep, SweepStep, StateTypes
  <2> QED BY <1>3, <2>1, <2>2 DEF TaskStep
<1>4. CASE SweepOnce \/ StuckStep \/ RemoveStuck
  BY <1>4 DEF SweepOnce, StuckStep, RemoveStuck, StateTypes
<1>5. ASSUME NEW x \in Conns, WriterStep(x) \/ WriterEnds(x) \/ PeerGone(x) PROVE StateTypes'
  BY <1>5 DEF WriterStep, WriterBreaks, Dequeue, WriterEnds, PeerGone, StateTypes, Conns
<1>6. ASSUME NEW c \in CConns, IdleElapses(c) PROVE StateTypes'
  BY <1>6 DEF IdleElapses, StateTypes
<1>7. CASE UNCHANGED vars
  BY <1>7 DEF vars, StateTypes
<1> QED BY <1>1, <1>2, <1>3, <1>4, <1>5, <1>6, <1>7 DEF Next

\* The steps that change what the manager holds.
LEMMA PairSteps ==
  ASSUME [Next]_vars
  PROVE  \/ UNCHANGED pairs /\ stale' \subseteq stale
         \/ \E c \in CConns : Admit(c) /\ pairs' = pairs \cup {c} /\ stale' = stale
         \/ \E t \in Tasks : /\ CloseStep(t)
                             /\ pairs' = pairs \ {Head(todo[t]).p}
                             /\ stale' = stale \ {Head(todo[t]).p}
         \/ /\ RemoveStuck
            /\ pairs' = pairs \ {Head(todo[Guillotine]).p}
            /\ stale' = stale \ {Head(todo[Guillotine]).p}
         \/ \E c \in pairs : IdleElapses(c) /\ stale' = stale \cup {c} /\ UNCHANGED pairs
<1> USE DEF Refuse
<1>1. ASSUME NEW s \in SConns, ServerNext(s) PROVE UNCHANGED pairs /\ stale' \subseteq stale
  BY <1>1 DEF ServerNext, Register, ServerEnds, ServerFails, ServerBreaksProtocol,
    ServerUnregisters, ServerReturns,
       ServerData, ServerPairClose
<1>2. ASSUME NEW c \in CConns, ClientNext(c)
      PROVE  \/ UNCHANGED pairs /\ stale' \subseteq stale
             \/ Admit(c) /\ pairs' = pairs \cup {c} /\ stale' = stale
  BY <1>2 DEF ClientNext, Lookup, Admit, ClientData, ClientPairClose, ClientBreaksProtocol,
    ClientEnds, ClientReturns
<1>3. ASSUME NEW t \in Tasks, TaskStep(t)
      PROVE  \/ UNCHANGED pairs /\ stale' \subseteq stale
             \/ /\ CloseStep(t)
                /\ pairs' = pairs \ {Head(todo[t]).p}
                /\ stale' = stale \ {Head(todo[t]).p}
  BY <1>3 DEF TaskStep, SendError, Fails, Skips, SendStep, CloseStep, SweepStep
<1>4. CASE SweepOnce \/ StuckStep
  BY <1>4 DEF SweepOnce, StuckStep
<1>5. CASE RemoveStuck
  BY <1>5 DEF RemoveStuck
<1>6. ASSUME NEW x \in Conns, WriterStep(x) \/ WriterEnds(x) \/ PeerGone(x)
      PROVE  UNCHANGED pairs /\ stale' \subseteq stale
  BY <1>6 DEF WriterStep, WriterBreaks, Dequeue, WriterEnds, PeerGone
<1>7. ASSUME NEW c \in CConns, IdleElapses(c)
      PROVE  c \in pairs /\ stale' = stale \cup {c} /\ UNCHANGED pairs
  BY <1>7 DEF IdleElapses
<1>8. CASE UNCHANGED vars
  BY <1>8 DEF vars
<1> QED BY <1>1, <1>2, <1>3, <1>4, <1>5, <1>6, <1>7, <1>8 DEF Next

LEMMA PairTypesNext ==
  ASSUME PairTypes, [Next]_vars
  PROVE  PairTypes'
<1>1. \A p : IsFiniteSet(pairs \ {p}) /\ IsFiniteSet(pairs \cup {p})
  BY FS_RemoveElement, FS_AddElement DEF PairTypes
<1> QED BY <1>1, PairSteps DEF PairTypes

-----------------------------------------------------------------------------
(* What no step undoes *)

\* A message stays told, a writer stays ended, a client task stays paired with
\* the server it found, and a server task does not read again.
Grows ==
  /\ told \subseteq told'
  /\ \A x \in Conns : writer[x] = "done" => writer'[x] = "done"
  /\ \A x \in Conns : ~ Fresh(x) => pc'[x] \notin {"new", "found"}
  /\ \A c \in CConns : ~ Fresh(c) => link'[c] = link[c]
  /\ \A s \in SConns : pc[s] # "new" => pc'[s] # "new"
  /\ \A s \in SConns : pc[s] \notin {"new", "reading"} => pc'[s] \notin {"new", "reading"}
  /\ \A s \in SConns : pc[s] = "closing" => pc'[s] = "closing" \/ todo'[s] = <<>>

LEMMA GrowsNext ==
  ASSUME RelayAssumption, StateTypes, TodoTypes, [Next]_vars
  PROVE  Grows
<1> USE DEF Fresh
<1>1. ASSUME NEW s \in SConns, ServerNext(s) PROVE Grows
  <2>1. UNCHANGED <<link, writer, told>>
    BY <1>1 DEF ServerNext, Register, Refuse, ServerEnds, ServerFails, ServerBreaksProtocol,
      ServerUnregisters,
         ServerReturns, ServerData, ServerPairClose
  <2>2. \/ UNCHANGED pc
        \/ pc[s] = "new" /\ pc' = [pc EXCEPT ![s] = "reading"]
        \/ pc[s] = "reading" /\ pc' = [pc EXCEPT ![s] = "closing"]
        \/ pc[s] # "closing" /\ pc' = [pc EXCEPT ![s] = "awaiting"]
        \/ pc[s] = "closing" /\ todo'[s] = <<>> /\ pc' = [pc EXCEPT ![s] = "awaiting"]
        \/ pc[s] # "closing" /\ pc' = [pc EXCEPT ![s] = "done"]
    BY <1>1 DEF ServerNext, Register, Refuse, ServerEnds, ServerFails, ServerBreaksProtocol,
      ServerUnregisters,
         ServerReturns, ServerData, ServerPairClose
  <2> QED BY <1>1, <2>1, <2>2 DEF Grows, StateTypes, RelayAssumption, Conns
<1>2. ASSUME NEW c \in CConns, ClientNext(c) PROVE Grows
  <2>1. UNCHANGED <<writer, told>>
    BY <1>2 DEF ClientNext, Lookup, Admit, Refuse, ClientData, ClientPairClose,
      ClientBreaksProtocol, ClientEnds,
         ClientReturns
  <2>2. \/ UNCHANGED link
        \/ pc[c] = "new" /\ link' = [link EXCEPT ![c] = registry[ServerOf[c]]]
    BY <1>2 DEF ClientNext, Lookup, Admit, Refuse, ClientData, ClientPairClose,
      ClientBreaksProtocol, ClientEnds,
         ClientReturns
  <2>3. \/ UNCHANGED pc
        \/ pc[c] = "new" /\ pc' = [pc EXCEPT ![c] = "found"]
        \/ \E v \in {"reading", "closing", "done"} : pc' = [pc EXCEPT ![c] = v]
    BY <1>2 DEF ClientNext, Lookup, Admit, Refuse, ClientData, ClientPairClose,
      ClientBreaksProtocol, ClientEnds,
         ClientReturns
  <2> QED BY <1>2, <2>1, <2>2, <2>3 DEF Grows, StateTypes, RelayAssumption, Conns
<1>3. ASSUME NEW t \in Tasks, TaskStep(t) PROVE Grows
  <2>1. CASE SendError(t)
    <3>1. UNCHANGED <<link, writer, told>>
      BY <2>1 DEF SendError, Fails, Skips
    <3>2. \/ UNCHANGED pc
          \/ t \in SConns /\ pc' = [pc EXCEPT ![t] = "awaiting"] /\ todo'[t] = <<>>
          \/ t \in CConns /\ \E v \in {"closing", "done"} : pc' = [pc EXCEPT ![t] = v]
      BY <2>1 DEF SendError, Fails, Skips, TodoTypes
    <3> QED BY <3>1, <3>2 DEF Grows, StateTypes, RelayAssumption, Conns
  <2>2. CASE SendStep(t) \/ CloseStep(t) \/ SweepStep(t)
    <3>1. UNCHANGED <<link, writer, pc>> /\ told \subseteq told'
      BY <2>2 DEF SendStep, CloseStep, SweepStep
    <3> QED BY <3>1 DEF Grows
  <2> QED BY <1>3, <2>1, <2>2 DEF TaskStep
<1>4. CASE SweepOnce \/ StuckStep \/ RemoveStuck
  <2>1. UNCHANGED <<link, writer, pc, told>>
    BY <1>4 DEF SweepOnce, StuckStep, RemoveStuck
  <2> QED BY <2>1 DEF Grows
<1>5. ASSUME NEW x \in Conns, WriterStep(x) \/ WriterEnds(x) \/ PeerGone(x) PROVE Grows
  <2>1. UNCHANGED <<link, pc, told>>
        /\ (UNCHANGED writer \/ writer' = [writer EXCEPT ![x] = "done"])
    BY <1>5 DEF WriterStep, WriterBreaks, Dequeue, WriterEnds, PeerGone
  <2> QED BY <1>5, <2>1 DEF Grows, StateTypes
<1>6. ASSUME NEW c \in CConns, IdleElapses(c) PROVE Grows
  <2>1. UNCHANGED <<link, writer, pc, told>>
    BY <1>6 DEF IdleElapses
  <2> QED BY <2>1 DEF Grows
<1>7. CASE UNCHANGED vars
  <2>1. UNCHANGED <<link, writer, pc, told>>
    BY <1>7 DEF vars
  <2> QED BY <2>1 DEF Grows
<1> QED BY <1>1, <1>2, <1>3, <1>4, <1>5, <1>6, <1>7 DEF Next

LEMMA HeardStays ==
  ASSUME StateTypes, Grows, NEW p, NEW s \in SConns, Heard(p, s)
  PROVE  Heard(p, s)'
BY DEF Heard, Grows, Conns

LEMMA PairedStays ==
  ASSUME StateTypes, Grows, NEW c \in CConns, Paired(c)
  PROVE  Paired(c)' /\ link'[c] = link[c] /\ link[c] \in SConns
BY DEF Paired, Fresh, Grows, StateTypes, Conns

-----------------------------------------------------------------------------
(* One task registered per identity, alive *)

LEMMA RegistrationNext ==
  ASSUME RelayAssumption, StateTypes, RegistrationLive, [Next]_vars
  PROVE  RegistrationLive'
<1> USE RelayAssumption DEF RelayAssumption, StateTypes, Conns
<1> DEFINE Drop(s) == /\ pc' = [pc EXCEPT ![s] = "awaiting"]
                      /\ DropRegistration(s)
           Other == /\ UNCHANGED registry
                    /\ \A s \in SConns : \/ pc'[s] = pc[s]
                                         \/ /\ pc[s] \notin {"reading", "closing"}
                                            /\ pc'[s] \notin {"reading", "closing"}
                                         \/ pc[s] = "reading" /\ pc'[s] = "closing"
<1>1. CASE \E s \in SConns : Drop(s)
  <2> PICK s \in SConns : Drop(s)
    BY <1>1
  <2>1. registry' = [registry EXCEPT ![ServerOf[s]] = IF @ = s THEN None ELSE @]
    BY DEF DropRegistration
  <2>2. ASSUME NEW id \in ServerIds, registry'[id] # None
        PROVE  ServerOf[registry'[id]] = id /\ pc'[registry'[id]] \in {"reading", "closing"}
    <3>1. registry'[id] = registry[id] /\ registry[id] # s
      BY <2>1, <2>2 DEF RegistrationLive
    <3> QED BY <3>1, <2>2 DEF RegistrationLive
  <2>3. ASSUME NEW u \in SConns, pc'[u] \in {"reading", "closing"}
        PROVE  registry'[ServerOf[u]] = u
    <3>1. u # s /\ registry[ServerOf[u]] = u
      BY <2>3 DEF RegistrationLive, ServerTickets
    <3> QED BY <3>1, <2>1
  <2> QED BY <2>2, <2>3 DEF RegistrationLive, ServerTickets
<1>2. CASE Other
  <2>1. \A s \in SConns : pc'[s] \in {"reading", "closing"} <=> pc[s] \in {"reading", "closing"}
    BY <1>2
  <2>2. ServerTickets' = ServerTickets
    BY <2>1 DEF ServerTickets
  <2> QED BY <1>2, <2>1, <2>2 DEF RegistrationLive
<1>3. ASSUME NEW s \in SConns, ServerNext(s) PROVE RegistrationLive'
  <2>1. CASE Register(s)
    <3>1. CASE Refuse(s)
      <4>1. Other
        BY <2>1, <3>1 DEF Register, Refuse
      <4> QED BY <4>1, <1>2
    <3>2. CASE ~ Refuse(s)
      <4>1. /\ registry[ServerOf[s]] = None
            /\ registry' = [registry EXCEPT ![ServerOf[s]] = s]
            /\ pc' = [pc EXCEPT ![s] = "reading"]
        BY <2>1, <3>2 DEF Register
      <4>2. ASSUME NEW id \in ServerIds, registry'[id] # None
            PROVE  ServerOf[registry'[id]] = id /\ pc'[registry'[id]] \in {"reading", "closing"}
        BY <4>1, <4>2 DEF RegistrationLive
      <4>3. ASSUME NEW u \in SConns, pc'[u] \in {"reading", "closing"}
            PROVE  registry'[ServerOf[u]] = u
        <5>1. CASE u = s
          BY <4>1, <5>1
        <5>2. CASE u # s
          <6>1. pc[u] \in {"reading", "closing"}
            BY <4>1, <4>3, <5>2
          <6>2. registry[ServerOf[u]] = u
            BY <6>1 DEF RegistrationLive, ServerTickets
          <6>3. ServerOf[u] # ServerOf[s]
            BY <4>1, <6>2 DEF Tasks
          <6> QED BY <4>1, <6>2, <6>3
        <5> QED BY <5>1, <5>2
      <4> QED BY <4>2, <4>3 DEF RegistrationLive, ServerTickets
    <3> QED BY <3>1, <3>2
  <2>2. CASE ServerEnds(s) \/ ServerReturns(s)
    <3>1. Other
      BY <2>2 DEF ServerEnds, ServerReturns
    <3> QED BY <3>1, <1>2
  <2>3. CASE ServerFails(s) \/ ServerBreaksProtocol(s) \/ ServerUnregisters(s)
    BY <2>3, <1>1 DEF ServerFails, ServerBreaksProtocol, ServerUnregisters
  <2>4. CASE \E p \in CConns : ServerData(s, p) \/ ServerPairClose(s, p)
    <3>1. Other
      BY <2>4 DEF ServerData, ServerPairClose
    <3> QED BY <3>1, <1>2
  <2> QED BY <1>3, <2>1, <2>2, <2>3, <2>4 DEF ServerNext
<1>4. ASSUME NEW c \in CConns, ClientNext(c) PROVE RegistrationLive'
  <2>1. UNCHANGED registry /\ (UNCHANGED pc \/ \E v : pc' = [pc EXCEPT ![c] = v])
    BY <1>4 DEF ClientNext, Lookup, Admit, Refuse, ClientData, ClientPairClose,
      ClientBreaksProtocol, ClientEnds,
         ClientReturns
  <2>2. Other
    BY <2>1
  <2> QED BY <2>2, <1>2
<1>5. ASSUME NEW t \in Tasks, TaskStep(t) PROVE RegistrationLive'
  <2>1. \/ t \in SConns /\ Drop(t)
        \/ UNCHANGED registry
           /\ (UNCHANGED pc \/ \E v : t \in CConns /\ pc' = [pc EXCEPT ![t] = v])
    BY <1>5 DEF TaskStep, SendError, Fails, Skips, SendStep, CloseStep, SweepStep
  <2>2. CASE t \in SConns /\ Drop(t)
    BY <2>2, <1>1
  <2>3. CASE UNCHANGED registry
             /\ (UNCHANGED pc \/ \E v : t \in CConns /\ pc' = [pc EXCEPT ![t] = v])
    <3>1. Other
      BY <2>3
    <3> QED BY <3>1, <1>2
  <2> QED BY <2>1, <2>2, <2>3
<1>6. CASE UNCHANGED <<registry, pc>>
  BY <1>6 DEF RegistrationLive, ServerTickets
<1>7. ASSUME NEW x \in Conns, WriterStep(x) \/ WriterEnds(x) \/ PeerGone(x)
      PROVE  UNCHANGED <<registry, pc>>
  BY <1>7 DEF WriterStep, WriterBreaks, Dequeue, WriterEnds, PeerGone
<1>8. SweepOnce \/ StuckStep \/ RemoveStuck => UNCHANGED <<registry, pc>>
  BY DEF SweepOnce, StuckStep, RemoveStuck
<1>9. ASSUME NEW c \in CConns, IdleElapses(c) PROVE UNCHANGED <<registry, pc>>
  BY <1>9 DEF IdleElapses
<1>10. UNCHANGED vars => UNCHANGED <<registry, pc>>
  BY DEF vars
<1> QED BY <1>3, <1>4, <1>5, <1>6, <1>7, <1>8, <1>9, <1>10 DEF Next

-----------------------------------------------------------------------------
(* The channels *)

\* A message leaves the channel of x; if a sender waits, the first one waiting
\* gets the place and its task goes on.
LEMMA DequeueEffect ==
  ASSUME RelayAssumption, TodoTypes, QueueTypes, QueueShape, QueueWaits,
         NEW x \in Conns, queue[x] # <<>>, Dequeue(x)
  PROVE  /\ \A y \in Conns : y # x => queue'[y] = queue[y]
         /\ queue'[x] \in Seq(Msgs) /\ Len(queue'[x]) = Len(queue[x]) - 1
         /\ \A i \in DOMAIN queue'[x] :
              /\ i + 1 \in DOMAIN queue[x]
              /\ queue'[x][i].kind = queue[x][i + 1].kind /\ queue'[x][i].p = queue[x][i + 1].p
              /\ queue'[x][i].from = IF i = QueueCap THEN None ELSE queue[x][i + 1].from
         /\ \/ Len(queue[x]) <= QueueCap /\ UNCHANGED todo
            \/ \E t \in Tasks :
                 /\ QueueCap + 1 \in DOMAIN queue[x] /\ t = queue[x][QueueCap + 1].from
                 /\ t # None /\ todo[t] # <<>>
                 /\ Head(todo[t]).op = "wait" /\ Head(todo[t]).to = x
                 /\ todo' = [todo EXCEPT ![t] = Tail(@)]
<1> DEFINE q == queue[x]
           rest == Tail(q)
<1>1. q \in Seq(Msgs) /\ rest \in Seq(Msgs) /\ Len(rest) = Len(q) - 1
      /\ \A i \in DOMAIN rest : i + 1 \in DOMAIN q /\ rest[i] = q[i + 1]
  BY DEF QueueTypes
<1>2. QueueCap \in Nat \ {0}
  BY DEF RelayAssumption
<1>3. CASE Len(rest) < QueueCap
  <2>1. queue' = [queue EXCEPT ![x] = rest] /\ UNCHANGED todo
    BY <1>3 DEF Dequeue
  <2>2. queue'[x] = rest /\ \A y \in Conns : y # x => queue'[y] = queue[y]
    BY <2>1 DEF QueueTypes
  <2>3. \A i \in DOMAIN rest : i # QueueCap
    BY <1>1, <1>2, <1>3
  <2>4. Len(q) <= QueueCap
    BY <1>1, <1>2, <1>3
  <2> HIDE DEF q, rest
  <2> QED BY <1>1, <2>1, <2>2, <2>3, <2>4 DEF q
<1>4. CASE ~ (Len(rest) < QueueCap)
  <2>1. /\ queue' = [queue EXCEPT ![x] = [rest EXCEPT ![QueueCap].from = None]]
        /\ todo' = [todo EXCEPT ![rest[QueueCap].from] = Tail(@)]
    BY <1>4 DEF Dequeue
  <2>2. queue'[x] = [rest EXCEPT ![QueueCap].from = None]
        /\ \A y \in Conns : y # x => queue'[y] = queue[y]
    BY <2>1 DEF QueueTypes
  <2>3. QueueCap \in DOMAIN rest /\ QueueCap + 1 \in DOMAIN q /\ rest[QueueCap] = q[QueueCap + 1]
    BY <1>1, <1>2, <1>4
  <2>4. PICK r \in Msgs : rest[QueueCap] = r
    BY <1>1, <2>3
  <2>5. PICK r2 : r2 = [r EXCEPT !.from = None]
    OBVIOUS
  <2>6. r2 \in Msgs /\ r2.kind = r.kind /\ r2.p = r.p /\ r2.from = None
    BY <2>5 DEF Msgs
  <2>7. queue'[x] = [rest EXCEPT ![QueueCap] = r2]
    BY <2>2, <2>3, <2>4, <2>5
  <2>8. /\ queue'[x] \in Seq(Msgs) /\ Len(queue'[x]) = Len(rest)
        /\ queue'[x][QueueCap] = r2
        /\ \A i \in DOMAIN rest : i # QueueCap => queue'[x][i] = rest[i]
    <3> HIDE DEF rest
    <3> QED BY <2>7, <2>6, <1>1, <2>3, SeqExcept
  <2>9. \A i \in DOMAIN queue'[x] :
          /\ i + 1 \in DOMAIN q
          /\ queue'[x][i].kind = q[i + 1].kind /\ queue'[x][i].p = q[i + 1].p
          /\ queue'[x][i].from = IF i = QueueCap THEN None ELSE q[i + 1].from
    <3> SUFFICES ASSUME NEW i \in DOMAIN queue'[x]
                 PROVE  /\ i + 1 \in DOMAIN q
                        /\ queue'[x][i].kind = q[i + 1].kind /\ queue'[x][i].p = q[i + 1].p
                        /\ queue'[x][i].from = IF i = QueueCap THEN None ELSE q[i + 1].from
      OBVIOUS
    <3>1. i \in DOMAIN rest
      BY <2>8, <1>1
    <3>2. i + 1 \in DOMAIN q /\ rest[i] = q[i + 1]
      BY <3>1, <1>1
    <3>3. CASE i = QueueCap
      BY <3>2, <3>3, <2>8, <2>6, <2>4
    <3>4. CASE i # QueueCap
      BY <3>1, <3>2, <3>4, <2>8
    <3> QED BY <3>3, <3>4
  <2>10. PICK t : t = q[QueueCap + 1].from
    OBVIOUS
  <2>11. q[QueueCap + 1] \in Msgs /\ q[QueueCap + 1] \in Range(q)
    BY <1>1, <2>3 DEF Range
  <2>12. t # None
    BY <2>3, <2>10, <1>2 DEF QueueShape
  <2>13. t \in Tasks
    BY <2>10, <2>11, <2>12 DEF Msgs
  <2>14. todo[t] # <<>> /\ Head(todo[t]).op = "wait" /\ Head(todo[t]).to = x
    BY <2>10, <2>11, <2>12 DEF QueueWaits
  <2>15. todo' = [todo EXCEPT ![t] = Tail(@)]
    BY <2>1, <2>3, <2>10
  <2> HIDE DEF q, rest
  <2> QED BY <1>1, <2>2, <2>3, <2>8, <2>9, <2>10, <2>12, <2>13, <2>14, <2>15 DEF q
<1> QED BY <1>3, <1>4

-----------------------------------------------------------------------------
(* Client tasks and the servers they found *)

\* A task gets something to await only once it has a pair or a registration.
LEMMA FreshIdleNext ==
  ASSUME RelayAssumption, StateTypes, TodoTypes, QueueTypes, QueueShape, QueueWaits, FreshIdle,
         Grows, [Next]_vars
  PROVE  FreshIdle'
<1> DEFINE Moves == \A x \in Conns : \/ todo'[x] = todo[x]
                                     \/ todo[x] # <<>>
                                     \/ pc'[x] \in {"reading", "closing"}
<1>1. ASSUME NEW s \in SConns, ServerNext(s) PROVE Moves
  BY <1>1 DEF ServerNext, Register, Refuse, ServerEnds, ServerFails, ServerBreaksProtocol,
    ServerUnregisters,
       ServerReturns, ServerData, ServerPairClose, StateTypes, TodoTypes, Conns, Tasks
<1>2. ASSUME NEW c \in CConns, ClientNext(c) PROVE Moves
  BY <1>2 DEF ClientNext, Lookup, Admit, Refuse, ClientData, ClientPairClose, ClientBreaksProtocol,
    ClientEnds,
       ClientReturns, StateTypes, TodoTypes, Conns, Tasks
<1>3. ASSUME NEW t \in Tasks, TaskStep(t) PROVE Moves
  <2>1. todo[t] # <<>> /\ \A u \in Tasks : u # t => todo'[u] = todo[u]
    BY <1>3 DEF TaskStep, SendError, Fails, Skips, SendStep, CloseStep, SweepStep, TodoTypes
  <2> QED BY <2>1 DEF Tasks
<1>4. ASSUME SweepOnce \/ StuckStep \/ RemoveStuck PROVE Moves
  <2>1. \A u \in Conns : todo'[u] = todo[u]
    BY <1>4 DEF SweepOnce, StuckStep, RemoveStuck, TodoTypes, RelayAssumption, Tasks
  <2> QED BY <2>1
<1>5. ASSUME NEW x \in Conns, WriterStep(x) \/ WriterEnds(x) \/ PeerGone(x) PROVE Moves
  <2>1. CASE queue[x] # <<>> /\ Dequeue(x)
    <3>1. UNCHANGED todo \/ \E t \in Tasks : todo[t] # <<>> /\ todo' = [todo EXCEPT ![t] = Tail(@)]
      BY <2>1, DequeueEffect
    <3> QED BY <3>1 DEF TodoTypes, Tasks
  <2>2. CASE UNCHANGED todo
    BY <2>2
  <2> QED BY <1>5, <2>1, <2>2 DEF WriterStep, WriterBreaks, WriterEnds, PeerGone
<1>6. ASSUME NEW c \in CConns, IdleElapses(c) PROVE Moves
  BY <1>6 DEF IdleElapses
<1>7. ASSUME UNCHANGED vars PROVE Moves
  BY <1>7 DEF vars
<1>8. Moves
  BY <1>1, <1>2, <1>3, <1>4, <1>5, <1>6, <1>7 DEF Next
<1> QED BY <1>8 DEF FreshIdle, Grows, Fresh

\* registry.get gives a client task a server that is registered under the
\* identity it asked for.
LEMMA LinkLiveNext ==
  ASSUME RelayAssumption, StateTypes, RegistrationLive, LinkLive, Grows, [Next]_vars
  PROVE  LinkLive'
<1>1. \/ UNCHANGED link
      \/ \E c \in CConns : /\ registry[ServerOf[c]] # None
                           /\ link' = [link EXCEPT ![c] = registry[ServerOf[c]]]
  <2>1. \A s \in SConns : ServerNext(s) => UNCHANGED link
    BY DEF ServerNext, Register, Refuse, ServerEnds, ServerFails, ServerBreaksProtocol,
      ServerUnregisters,
       ServerReturns, ServerData, ServerPairClose
  <2>2. \A t \in Tasks : TaskStep(t) => UNCHANGED link
    BY DEF TaskStep, SendError, Fails, Skips, SendStep, CloseStep, SweepStep
  <2>3. \A x \in Conns : WriterStep(x) \/ WriterEnds(x) \/ PeerGone(x) => UNCHANGED link
    BY DEF WriterStep, WriterBreaks, Dequeue, WriterEnds, PeerGone
  <2>4. \A c \in CConns : IdleElapses(c) => UNCHANGED link
    BY DEF IdleElapses
  <2>5. SweepOnce \/ StuckStep \/ RemoveStuck \/ UNCHANGED vars => UNCHANGED link
    BY DEF SweepOnce, StuckStep, RemoveStuck, vars
  <2>6. ASSUME NEW c \in CConns, ClientNext(c)
        PROVE  UNCHANGED link \/ /\ registry[ServerOf[c]] # None
                                 /\ link' = [link EXCEPT ![c] = registry[ServerOf[c]]]
    BY <2>6 DEF ClientNext, Lookup, Admit, Refuse, ClientData, ClientPairClose,
      ClientBreaksProtocol, ClientEnds,
       ClientReturns
  <2> QED BY <2>1, <2>2, <2>3, <2>4, <2>5, <2>6 DEF Next
<1>2. ASSUME NEW c \in CConns, link'[c] # None
      PROVE  ServerOf[link'[c]] = ServerOf[c] /\ pc'[link'[c]] # "new"
  <2>1. link'[c] \in SConns /\ ServerOf[link'[c]] = ServerOf[c] /\ pc[link'[c]] # "new"
    <3>1. CASE link'[c] = link[c]
      BY <1>2, <3>1 DEF LinkLive, StateTypes
    <3>2. CASE link'[c] # link[c]
      <4>1. registry[ServerOf[c]] # None /\ link'[c] = registry[ServerOf[c]]
        BY <1>1, <3>2 DEF StateTypes
      <4>2. ServerOf[c] \in ServerIds
        BY DEF RelayAssumption, Conns
      <4>3. link'[c] \in SConns /\ pc[link'[c]] \in {"reading", "closing"}
            /\ ServerOf[link'[c]] = ServerOf[c]
        BY <4>1, <4>2 DEF RegistrationLive, StateTypes
      <4> QED BY <4>3
    <3> QED BY <3>1, <3>2
  <2> QED BY <2>1 DEF Grows
<1>3. ASSUME NEW c \in CConns, pc'[c] = "found" PROVE link'[c] # None
  <2>1. ASSUME NEW d \in CConns, ClientNext(d) PROVE link'[c] # None
    <3>1. CASE Lookup(d) /\ d = c
      BY <1>3, <3>1 DEF Lookup, Refuse, StateTypes, Conns
    <3>2. CASE ~ (Lookup(d) /\ d = c)
      <4>1. pc[c] = "found" /\ link'[c] = link[c]
        BY <1>3, <2>1, <3>2 DEF ClientNext, Lookup, Admit, Refuse, ClientData, ClientPairClose,
          ClientBreaksProtocol,
             ClientEnds, ClientReturns, StateTypes, Conns
      <4> QED BY <4>1 DEF LinkLive
    <3> QED BY <3>1, <3>2
  <2>2. ASSUME UNCHANGED link, pc[c] = "found" PROVE link'[c] # None
    BY <2>2 DEF LinkLive
  <2>3. ASSUME NEW s \in SConns, ServerNext(s) PROVE UNCHANGED link /\ pc[c] = "found"
    BY <1>3, <2>3 DEF ServerNext, Register, Refuse, ServerEnds, ServerFails, ServerBreaksProtocol,
      ServerUnregisters,
       ServerReturns, ServerData, ServerPairClose, StateTypes, Conns
  <2>4. ASSUME NEW t \in Tasks, TaskStep(t) PROVE UNCHANGED link /\ pc[c] = "found"
    BY <1>3, <2>4 DEF TaskStep, SendError, Fails, Skips, SendStep, CloseStep, SweepStep, StateTypes,
       Conns
  <2>5. ASSUME NEW x \in Conns, WriterStep(x) \/ WriterEnds(x) \/ PeerGone(x)
        PROVE  UNCHANGED link /\ pc[c] = "found"
    BY <1>3, <2>5 DEF WriterStep, WriterBreaks, Dequeue, WriterEnds, PeerGone
  <2>6. ASSUME NEW d \in CConns, IdleElapses(d) PROVE UNCHANGED link /\ pc[c] = "found"
    BY <1>3, <2>6 DEF IdleElapses
  <2>7. SweepOnce \/ StuckStep \/ RemoveStuck \/ UNCHANGED vars
          => UNCHANGED link /\ pc[c] = "found"
    BY <1>3 DEF SweepOnce, StuckStep, RemoveStuck, vars
  <2> QED BY <2>1, <2>2, <2>3, <2>4, <2>5, <2>6, <2>7 DEF Next
<1> QED BY <1>2, <1>3 DEF LinkLive

-----------------------------------------------------------------------------
(* What a step does to the items *)

PairCloseItem(m, p, x) ==
  m.op \in {"send", "wait"} /\ m.kind = "pairclose" /\ m.p = p /\ m.to = x

\* A PairClose still to be sent stays so until it is in the channel, or the
\* writer it was meant for is gone.
KeptIn(s, e) ==
  \A m \in Range(s) : m.op \in {"send", "wait"} /\ m.kind = "pairclose" =>
    \/ \E n \in Range(e) : PairCloseItem(n, m.p, m.to)
    \/ <<"pairclose", m.p, m.to>> \in told'
    \/ writer'[m.to] = "done"

\* An item is an old one or a new one about a pair that lives.
CarriedIn(t, s, e) ==
  \A m \in Range(e) :
    \/ m \in Range(s)
    \/ /\ ItemOK(t, m)'
       /\ m.arc # None => m.arc \in pairs' \/ Held(m.arc)

TodoOK ==
  /\ TodoTypes' /\ ShapesOK'
  /\ \A t \in Tasks : KeptIn(todo[t], todo'[t]) /\ CarriedIn(t, todo[t], todo'[t])

LEMMA TodoSame ==
  ASSUME TodoTypes, ShapesOK, UNCHANGED todo
  PROVE  TodoOK
BY DEF TodoOK, TodoTypes, ShapesOK, KeptIn, CarriedIn, PairCloseItem

LEMMA TodoChange ==
  ASSUME TodoTypes, ShapesOK, NEW t \in Tasks, NEW e \in Seq(Items),
         todo' = [todo EXCEPT ![t] = e],
         ShapeOK(e), KeptIn(todo[t], e), CarriedIn(t, todo[t], e)
  PROVE  TodoOK
<1>1. todo' \in [Tasks -> Seq(Items)] /\ todo'[t] = e /\ \A u \in Tasks : u # t => todo'[u] = todo[u]
  BY DEF TodoTypes
<1>2. TodoTypes'
  BY <1>1 DEF TodoTypes
<1>3. ASSUME NEW u \in Tasks PROVE ShapeOK(todo'[u])
  BY <1>1 DEF ShapesOK
<1>4. ASSUME NEW u \in Tasks PROVE KeptIn(todo[u], todo'[u]) /\ CarriedIn(u, todo[u], todo'[u])
  <2>1. CASE u = t
    BY <1>1, <2>1
  <2>2. CASE u # t
    BY <1>1, <2>2 DEF KeptIn, CarriedIn, PairCloseItem
  <2> QED BY <2>1, <2>2
<1> QED BY <1>2, <1>3, <1>4 DEF TodoOK, ShapesOK

LEMMA ShapePlain ==
  ASSUME NEW e \in Seq(Items), \A m \in Range(e) : ~ m.must /\ m.op # "sweep"
  PROVE  ShapeOK(e)
BY DEF ShapeOK

LEMMA ShapeTail ==
  ASSUME NEW s \in Seq(Items), s # <<>>, ShapeOK(s)
  PROVE  ShapeOK(Tail(s))
<1>1. Range(Tail(s)) \subseteq Range(s)
  BY RangeHeadTail
<1>2. ASSUME Len(s) = 1, NEW m \in Range(Tail(s)) PROVE FALSE
  <2>1. PICK i \in DOMAIN Tail(s) : m = Tail(s)[i]
    BY <1>2 DEF Range
  <2>2. Len(Tail(s)) = 0 /\ DOMAIN Tail(s) = 1..Len(Tail(s))
    BY <1>2
  <2>3. i \in 1..0
    BY <2>1, <2>2, Zenon
  <2> QED BY <2>3
<1> QED BY <1>1, <1>2 DEF ShapeOK

LEMMA KeptTail ==
  ASSUME NEW s \in Seq(Items), s # <<>>,
         Head(s).op \in {"send", "wait"} /\ Head(s).kind = "pairclose" =>
           <<"pairclose", Head(s).p, Head(s).to>> \in told' \/ writer'[Head(s).to] = "done"
  PROVE  KeptIn(s, Tail(s))
<1>1. Range(s) \subseteq {Head(s)} \cup Range(Tail(s))
  BY RangeHeadTail
<1> QED BY <1>1 DEF KeptIn, PairCloseItem

LEMMA CarriedTail ==
  ASSUME NEW t, NEW s \in Seq(Items), s # <<>>
  PROVE  CarriedIn(t, s, Tail(s))
BY RangeHeadTail DEF CarriedIn

LEMMA KeptIdle == \A e : KeptIn(<<>>, e)
BY RangeTuples DEF KeptIn

LEMMA NewSend ==
  ASSUME RelayAssumption, NEW t \in Tasks, NEW to \in Conns, NEW p \in CConns \cup {None},
         NEW must \in BOOLEAN, NEW arc \in {p, None},
         NEW kind \in {"registered", "inbound", "open", "data", "pairclose", "close"},
         p # None => Paired(p)',
         t \in CConns => p = t /\ (kind \in {"inbound", "data"} => to = link'[t]),
         kind = "inbound" => t \in CConns, kind = "data" => arc = p,
         kind \in {"inbound", "pairclose"} => p \in CConns,
         kind \in {"data", "pairclose"} /\ to \in SConns => Heard(p, to)'
  PROVE  ItemOK(t, Send(to, kind, p, must, arc))'
<1> PICK m : m = Send(to, kind, p, must, arc)
  OBVIOUS
<1>1. m.op = "send" /\ m.to = to /\ m.kind = kind /\ m.p = p /\ m.must = must /\ m.arc = arc
  BY SendFields
<1>2. ItemShape(m) /\ ItemPair(m)' /\ ItemOwner(t, m)' /\ ItemSweep(t, m)' /\ ItemWait(m)'
        /\ ItemRemove(m)' /\ ItemHeard(m)'
  BY <1>1 DEF ItemShape, ItemPair, ItemOwner, ItemSweep, ItemWait, ItemRemove, ItemHeard
<1> QED BY <1>2 DEF ItemOK, ItemShape

LEMMA NewTask ==
  ASSUME RelayAssumption, NEW t \in Tasks, NEW p \in CConns, NEW arc \in {p, None},
         NEW op \in {"close", "stuck"}, op = "stuck" => arc = p,
         Paired(p)', t \in CConns => p = t, Heard(p, link[p])'
  PROVE  ItemOK(t, Task(op, p, arc))'
<1> PICK m : m = Task(op, p, arc)
  OBVIOUS
<1>1. m.op = op /\ m.to = None /\ m.kind = "none" /\ m.p = p /\ m.must = FALSE /\ m.arc = arc
  BY DEF Task
<1>2. ItemShape(m) /\ ItemPair(m)' /\ ItemOwner(t, m)' /\ ItemSweep(t, m)' /\ ItemWait(m)'
        /\ ItemRemove(m)' /\ ItemHeard(m)'
  BY <1>1 DEF ItemShape, ItemPair, ItemOwner, ItemSweep, ItemWait, ItemRemove, ItemHeard
<1> QED BY <1>2 DEF ItemOK, ItemShape

\* A task that was idle begins something.
LEMMA TodoStarts ==
  ASSUME TodoTypes, ShapesOK, NEW t \in Tasks, todo[t] = <<>>, NEW e \in Seq(Items),
         todo' = [todo EXCEPT ![t] = e], ShapeOK(e),
         \A m \in Range(e) : /\ ItemOK(t, m)'
                             /\ m.arc # None => m.arc \in pairs' \/ Held(m.arc)
  PROVE  TodoOK
<1>1. KeptIn(todo[t], e)
  BY KeptIdle
<1>2. CarriedIn(t, todo[t], e)
  BY DEF CarriedIn
<1> QED BY <1>1, <1>2, TodoChange

LEMMA ServerTodo ==
  ASSUME RelayAssumption, RelayInv, Grows, NEW s \in SConns, ServerNext(s)
  PROVE  TodoOK
<1>1. StateTypes /\ PairTypes /\ TodoTypes /\ ShapesOK /\ PairsPaired /\ FreshIdle
  BY DEF RelayInv, Types
<1>2. s \in Tasks /\ s \in Conns /\ s \notin CConns
  BY DEF RelayAssumption, Conns, Tasks
<1>3. CASE Register(s)
  <2>1. CASE UNCHANGED todo
    BY <2>1, <1>1, TodoSame
  <2>2. CASE ~ UNCHANGED todo
    <3>1. PICK m : m = Send(s, "registered", None, TRUE, None)
      OBVIOUS
    <3>2. todo' = [todo EXCEPT ![s] = <<m>>] /\ todo[s] = <<>>
      BY <1>1, <1>2, <1>3, <2>2, <3>1 DEF Register, Refuse, FreshIdle, Fresh
    <3>3. m \in Items /\ m.op = "send" /\ m.kind = "registered" /\ m.arc = None
      BY <1>2, <3>1 DEF Send, Items
    <3>4. ItemOK(s, m)'
      BY <1>2, <3>1, NewSend
    <3>5. <<m>> \in Seq(Items) /\ Range(<<m>>) = {m} /\ Len(<<m>>) = 1
      BY <3>3, RangeTuples
    <3>6. ShapeOK(<<m>>)
      BY <3>3, <3>5 DEF ShapeOK
    <3> QED BY <1>1, <1>2, <3>2, <3>3, <3>4, <3>5, <3>6, TodoStarts
  <2> QED BY <2>1, <2>2
<1>4. ASSUME NEW p \in CConns, ServerData(s, p) PROVE TodoOK
  <2>1. todo[s] = <<>> /\ UNCHANGED pairs /\ <<"inbound", p, s>> \in told
    BY <1>4 DEF ServerData, Knows
  <2>2. Paired(p)
    BY <1>1, <1>2, <2>1 DEF PairsPaired
  <2>3. Paired(p)'
    BY <1>1, <2>2, PairedStays
  <2>4. PICK m : /\ todo' = [todo EXCEPT ![s] = <<m>>]
                 /\ \/ p \in pairs /\ m = Send(p, "data", p, TRUE, p)
                    \/ m = Send(s, "pairclose", p, TRUE, None)
    BY <1>4 DEF ServerData
  <2>5. p \in Conns /\ p \notin SConns
    BY DEF RelayAssumption, Conns
  <2>6. Heard(p, s)'
    BY <2>1 DEF Heard, Grows
  <2>7. /\ m \in Items /\ m.op = "send" /\ ItemOK(s, m)'
        /\ m.arc = None \/ (m.arc = p /\ p \in pairs)
    <3>1. CASE p \in pairs /\ m = Send(p, "data", p, TRUE, p)
      <4>1. m \in Items /\ m.op = "send" /\ m.arc = p
        BY <2>5, <3>1 DEF Send, Items
      <4>2. ItemOK(s, m)'
        BY <1>2, <2>3, <2>5, <3>1, NewSend
      <4> QED BY <3>1, <4>1, <4>2
    <3>2. CASE m = Send(s, "pairclose", p, TRUE, None)
      <4>1. m \in Items /\ m.op = "send" /\ m.arc = None
        BY <1>2, <3>2 DEF Send, Items
      <4>2. ItemOK(s, m)'
        BY <1>2, <2>3, <2>6, <3>2, NewSend
      <4> QED BY <4>1, <4>2
    <3> QED BY <2>4, <3>1, <3>2
  <2>8. <<m>> \in Seq(Items) /\ Range(<<m>>) = {m} /\ Len(<<m>>) = 1
    BY <2>7, RangeTuples
  <2>9. ShapeOK(<<m>>)
    BY <2>7, <2>8 DEF ShapeOK
  <2> QED BY <1>1, <1>2, <2>1, <2>4, <2>7, <2>8, <2>9, TodoStarts
<1>5. ASSUME NEW p \in CConns, ServerPairClose(s, p) PROVE TodoOK
  <2>1. todo[s] = <<>> /\ <<"inbound", p, s>> \in told
    BY <1>5 DEF ServerPairClose, Knows
  <2>2. Paired(p) /\ link[p] = s
    BY <1>1, <1>2, <2>1 DEF PairsPaired
  <2>3. Paired(p)' /\ link'[p] = s
    BY <1>1, <2>2, PairedStays
  <2>4. PICK m : todo' = [todo EXCEPT ![s] = <<m>>] /\ m = Task("close", p, None)
    BY <1>5 DEF ServerPairClose, Close
  <2>5. Heard(p, link[p])'
    BY <2>1, <2>3 DEF Heard, Grows
  <2>6. m \in Items /\ m.op = "close" /\ ~ m.must /\ m.arc = None
    BY <2>4 DEF Task, Items
  <2>7. ItemOK(s, m)'
    BY <1>2, <2>3, <2>4, <2>5, NewTask
  <2>8. <<m>> \in Seq(Items) /\ Range(<<m>>) = {m}
    BY <2>6, RangeTuples
  <2>9. ShapeOK(<<m>>)
    BY <2>6, <2>8, ShapePlain
  <2> QED BY <1>1, <1>2, <2>1, <2>4, <2>6, <2>7, <2>8, <2>9, TodoStarts
<1>6. CASE ServerEnds(s)
  <2>1. todo[s] = <<>> /\ pc'[s] = "closing"
    BY <1>1, <1>2, <1>6 DEF ServerEnds, StateTypes
  <2>2. PICK m, n : /\ todo' = [todo EXCEPT ![s] = <<m, n>>]
                    /\ m = Send(s, "close", None, FALSE, None) /\ n = Sweep
    BY <1>6 DEF ServerEnds
  <2>3. m \in Items /\ m.op = "send" /\ m.kind = "close" /\ ~ m.must /\ m.arc = None
    BY <1>2, <2>2 DEF Send, Items
  <2>4. n \in Items /\ n.op = "sweep" /\ n.kind = "none" /\ ~ n.must /\ n.arc = None /\ n.p = None
    BY <2>2 DEF Sweep, Task, Items
  <2>5. ItemOK(s, m)'
    BY <1>2, <2>2, NewSend
  <2>6. ItemOK(s, n)'
    BY <1>2, <2>1, <2>4 DEF ItemOK, ItemShape, ItemPair, ItemOwner, ItemSweep, ItemWait, ItemRemove,
         ItemHeard
  <2>7. <<m, n>> \in Seq(Items) /\ Range(<<m, n>>) = {m, n}
    BY <2>3, <2>4, RangeTuples
  <2>8. ShapeOK(<<m, n>>)
    BY <2>3, <2>4, <2>7 DEF ShapeOK
  <2> QED BY <1>1, <1>2, <2>1, <2>2, <2>3, <2>4, <2>5, <2>6, <2>7, <2>8, TodoStarts
<1>7. CASE ServerFails(s) \/ ServerBreaksProtocol(s) \/ ServerUnregisters(s) \/ ServerReturns(s)
  <2>1. UNCHANGED todo
    BY <1>7 DEF ServerFails, ServerBreaksProtocol, ServerUnregisters, ServerReturns
  <2> QED BY <2>1, <1>1, TodoSame
<1> QED BY <1>3, <1>4, <1>5, <1>6, <1>7 DEF ServerNext

\* Between its reads a client task has told its server of the pair.
LEMMA ClientHeard ==
  ASSUME RelayAssumption, RelayInv, Grows, NEW c \in CConns, pc[c] = "reading", todo[c] = <<>>
  PROVE  Paired(c) /\ Paired(c)' /\ link[c] \in SConns /\ link'[c] = link[c] /\ Heard(c, link[c])'
<1>1. StateTypes /\ PairsPaired /\ PairsHeard
  BY DEF RelayInv, Types
<1>2. ClientHolds(c)
  BY DEF ClientHolds
<1>3. Paired(c)
  BY <1>1, <1>2 DEF PairsPaired
<1>4. Paired(c)' /\ link'[c] = link[c] /\ link[c] \in SConns
  BY <1>1, <1>3, PairedStays
<1>5. Heard(c, link[c])
  BY <1>1, <1>2 DEF PairsHeard, InboundDue
<1>6. PICK s \in SConns : s = link[c]
  BY <1>4
<1>7. Heard(c, s)'
  BY <1>1, <1>5, <1>6, HeardStays
<1> QED BY <1>3, <1>4, <1>6, <1>7

LEMMA ClientTodo ==
  ASSUME RelayAssumption, RelayInv, Grows, NEW c \in CConns, ClientNext(c)
  PROVE  TodoOK
<1>1. StateTypes /\ PairTypes /\ TodoTypes /\ ShapesOK /\ PairsPaired /\ FreshIdle /\ LinkLive
  BY DEF RelayInv, Types
<1>2. c \in Tasks /\ c \in Conns /\ c \notin SConns /\ c # None
  BY DEF RelayAssumption, Conns, Tasks
<1>3. CASE UNCHANGED todo
  BY <1>3, <1>1, TodoSame
<1>4. CASE Admit(c) /\ ~ UNCHANGED todo
  <2>1. todo[c] = <<>> /\ pc'[c] = "reading" /\ c \in pairs' /\ link'[c] = link[c]
    BY <1>1, <1>2, <1>4 DEF Admit, Refuse, StateTypes, FreshIdle, Fresh
  <2>2. link[c] \in SConns /\ link[c] \in Conns
    BY <1>1, <1>4 DEF Admit, LinkLive, StateTypes, Conns
  <2>3. Paired(c)'
    BY <2>1, <2>2 DEF Paired, Fresh, RelayAssumption, Tasks
  <2>4. PICK l \in SConns : l = link[c] /\ l = link'[c] /\ l \in Conns
    BY <2>1, <2>2
  <2>5. PICK m, n : /\ todo' = [todo EXCEPT ![c] = <<m, n>>]
                    /\ m = Send(l, "inbound", c, TRUE, c)
                    /\ n = Send(c, "open", c, TRUE, c)
    BY <1>4, <2>4 DEF Admit, Refuse
  <2>6. m \in Items /\ m.op = "send" /\ m.kind = "inbound" /\ m.must /\ m.arc = c
    BY <1>2, <2>4, <2>5 DEF Send, Items
  <2>7. n \in Items /\ n.op = "send" /\ n.kind = "open" /\ n.must /\ n.arc = c
    BY <1>2, <2>5 DEF Send, Items
  <2>8. ItemOK(c, m)'
    BY <1>2, <2>3, <2>4, <2>5, NewSend
  <2>9. ItemOK(c, n)'
    BY <1>2, <2>3, <2>5, NewSend
  <2>10. <<m, n>> \in Seq(Items) /\ Range(<<m, n>>) = {m, n}
    BY <2>6, <2>7, RangeTuples
  <2>11. ShapeOK(<<m, n>>)
    BY <2>6, <2>7, <2>10 DEF ShapeOK
  <2>12. \A k \in Range(<<m, n>>) :
           ItemOK(c, k)' /\ (k.arc # None => k.arc \in pairs' \/ Held(k.arc))
    BY <2>1, <2>6, <2>7, <2>8, <2>9, <2>10
  <2> QED BY <1>1, <1>2, <2>1, <2>5, <2>10, <2>11, <2>12, TodoStarts
<1>5. CASE ClientData(c)
  <2>1. todo[c] = <<>> /\ pc[c] = "reading"
    BY <1>5 DEF ClientData
  <2>2. PICK l \in SConns : l = link[c] /\ l = link'[c] /\ Heard(c, l)' /\ l \in Conns
    BY <2>1, ClientHeard DEF Conns
  <2>3. Paired(c)'
    BY <2>1, ClientHeard
  <2>4. PICK m : todo' = [todo EXCEPT ![c] = <<m>>] /\ m = Send(l, "data", c, TRUE, c)
    BY <1>5, <2>2 DEF ClientData
  <2>5. m \in Items /\ m.op = "send" /\ m.kind = "data" /\ m.arc = c
    BY <2>2, <2>4 DEF Send, Items
  <2>6. ItemOK(c, m)'
    BY <1>2, <2>2, <2>3, <2>4, NewSend
  <2>7. <<m>> \in Seq(Items) /\ Range(<<m>>) = {m} /\ Len(<<m>>) = 1
    BY <2>5, RangeTuples
  <2>8. ShapeOK(<<m>>)
    BY <2>5, <2>7 DEF ShapeOK
  <2>9. Held(c)
    BY <2>1 DEF Held, ClientHolds
  <2> QED BY <1>1, <1>2, <2>1, <2>4, <2>5, <2>6, <2>7, <2>8, <2>9, TodoStarts
<1>6. CASE ClientPairClose(c) \/ ClientBreaksProtocol(c) \/ ClientEnds(c)
  <2>1. todo[c] = <<>> /\ pc[c] = "reading"
    BY <1>6 DEF ClientPairClose, ClientBreaksProtocol, ClientEnds
  <2>2. Paired(c)' /\ Heard(c, link[c])'
    <3>1. link'[c] = link[c] /\ Heard(c, link[c])' /\ Paired(c)'
      BY <2>1, ClientHeard
    <3> QED BY <3>1
  <2>3. PICK m : m = Task("close", c, None)
    OBVIOUS
  <2>4. todo' = [todo EXCEPT ![c] = <<m>>] \/ todo' = [todo EXCEPT ![c] = <<m, m>>]
    BY <1>6, <2>3 DEF ClientPairClose, ClientBreaksProtocol, ClientEnds, Close
  <2>5. m \in Items /\ m.op = "close" /\ ~ m.must /\ m.arc = None
    BY <2>3 DEF Task, Items
  <2>6. ItemOK(c, m)'
    BY <1>2, <2>2, <2>3, NewTask
  <2>7. PICK e \in Seq(Items) : todo' = [todo EXCEPT ![c] = e] /\ Range(e) = {m}
    <3>1. <<m>> \in Seq(Items) /\ <<m, m>> \in Seq(Items)
      BY <2>5
    <3>2. Range(<<m>>) = {m} /\ Range(<<m, m>>) = {m, m} /\ {m, m} = {m}
      BY RangeTuples
    <3> QED BY <2>4, <3>1, <3>2
  <2>8. ShapeOK(e)
    BY <2>5, <2>7, ShapePlain
  <2> QED BY <1>1, <1>2, <2>1, <2>5, <2>6, <2>7, <2>8, TodoStarts
<1>7. Lookup(c) \/ ClientReturns(c) => UNCHANGED todo
  BY DEF Lookup, Refuse, ClientReturns
<1> QED BY <1>3, <1>4, <1>5, <1>6, <1>7 DEF ClientNext

\* The item at the head of a task.
LEMMA HeadItem ==
  ASSUME RelayInv, NEW t \in Tasks, todo[t] # <<>>
  PROVE  /\ todo[t] \in Seq(Items) /\ Head(todo[t]) \in Items /\ Tail(todo[t]) \in Seq(Items)
         /\ Head(todo[t]) \in Range(todo[t]) /\ Range(Tail(todo[t])) \subseteq Range(todo[t])
         /\ Range(todo[t]) \subseteq {Head(todo[t])} \cup Range(Tail(todo[t]))
         /\ ItemOK(t, Head(todo[t])) /\ ShapeOK(todo[t])
<1>1. todo[t] \in Seq(Items) /\ ItemsOK /\ ShapesOK
  BY DEF RelayInv, Types, TodoTypes
<1>2. /\ Head(todo[t]) \in Items /\ Tail(todo[t]) \in Seq(Items)
      /\ Head(todo[t]) \in Range(todo[t]) /\ Range(Tail(todo[t])) \subseteq Range(todo[t])
      /\ Range(todo[t]) \subseteq {Head(todo[t])} \cup Range(Tail(todo[t]))
  BY <1>1, RangeHeadTail
<1> QED BY <1>1, <1>2 DEF ItemsOK, ShapesOK

\* The rest of a task's items follow new ones, or nothing new.
LEMMA TodoAdvances ==
  ASSUME RelayInv, NEW t \in Tasks, todo[t] # <<>>, NEW r \in Seq(Items),
         todo' = [todo EXCEPT ![t] = r \o Tail(todo[t])],
         r = <<>> \/ /\ ~ Head(todo[t]).must
                     /\ \A n \in Range(Tail(todo[t])) : n.op # "sweep",
         \A m \in Range(r) : ~ m.must /\ m.op # "sweep" /\ ItemOK(t, m)'
                             /\ (m.arc # None => m.arc \in pairs' \/ Held(m.arc)),
         Head(todo[t]).op \in {"send", "wait"} /\ Head(todo[t]).kind = "pairclose" =>
           \/ <<"pairclose", Head(todo[t]).p, Head(todo[t]).to>> \in told'
           \/ writer'[Head(todo[t]).to] = "done"
  PROVE  TodoOK
<1> PICK s : s = todo[t]
  OBVIOUS
<1>1. s \in Seq(Items) /\ s # <<>> /\ Tail(s) \in Seq(Items) /\ ShapeOK(s)
      /\ Head(s) \in Range(s) /\ Range(Tail(s)) \subseteq Range(s)
      /\ Range(s) \subseteq {Head(s)} \cup Range(Tail(s))
  BY HeadItem
<1>2. r \o Tail(s) \in Seq(Items) /\ Range(r \o Tail(s)) = Range(r) \cup Range(Tail(s))
  <2>1. PICK u \in Seq(Items) : u = Tail(s)
    BY <1>1
  <2>2. r \o u \in Seq(Items) /\ Range(r \o u) = Range(r) \cup Range(u)
    BY RangeConcat
  <2> QED BY <2>1, <2>2
<1>3. KeptIn(s, r \o Tail(s))
  <2>1. KeptIn(s, Tail(s))
    BY <1>1, KeptTail
  <2> QED BY <1>2, <2>1 DEF KeptIn
<1>4. CarriedIn(t, s, r \o Tail(s))
  BY <1>1, <1>2 DEF CarriedIn
<1>5. ShapeOK(r \o Tail(s))
  <2>1. CASE r = <<>>
    <3>1. r \o Tail(s) = Tail(s)
      BY <1>1, <2>1
    <3> QED BY <1>1, <3>1, ShapeTail
  <2>2. CASE r # <<>>
    <3>1. \A n \in Range(Tail(s)) : ~ n.must /\ n.op # "sweep"
      BY <1>1, <2>2 DEF ShapeOK
    <3> QED BY <1>2, <3>1, ShapePlain
  <2> QED BY <2>1, <2>2
<1>6. todo' = [todo EXCEPT ![t] = r \o Tail(s)]
  OBVIOUS
<1>7. TodoTypes /\ ShapesOK
  BY DEF RelayInv, Types
<1> QED BY <1>2, <1>3, <1>4, <1>5, <1>6, <1>7, TodoChange

\* A task goes on with its next item.
LEMMA TodoDrops ==
  ASSUME RelayInv, NEW t \in Tasks, todo[t] # <<>>, todo' = [todo EXCEPT ![t] = Tail(todo[t])],
         Head(todo[t]).op \in {"send", "wait"} /\ Head(todo[t]).kind = "pairclose" =>
           \/ <<"pairclose", Head(todo[t]).p, Head(todo[t]).to>> \in told'
           \/ writer'[Head(todo[t]).to] = "done"
  PROVE  TodoOK
<1>1. Tail(todo[t]) \in Seq(Items)
  BY HeadItem
<1>2. <<>> \o Tail(todo[t]) = Tail(todo[t]) /\ <<>> \in Seq(Items)
  BY <1>1
<1>3. Range(<<>>) = {}
  BY RangeTuples
<1> QED BY <1>2, <1>3, TodoAdvances

LEMMA ArcHeld ==
  ASSUME NEW t \in Tasks, NEW m \in Range(todo[t])
  PROVE  Held(m.arc)
BY DEF Range, Held

\* What an item says stays true as long as it is there; what a sweep or a
\* removal says is looked at below.
LEMMA ItemStays ==
  ASSUME RelayAssumption, StateTypes, Grows, NEW t \in Tasks, NEW m \in Items, ItemOK(t, m)
  PROVE  ItemPair(m)' /\ ItemOwner(t, m)' /\ ItemWait(m)' /\ ItemHeard(m)'
<1>1. ItemShape(m) /\ ItemPair(m) /\ ItemOwner(t, m) /\ ItemWait(m) /\ ItemHeard(m)
  BY DEF ItemOK
<1>2. m.p \in CConns \cup {None} /\ None \notin CConns
  BY DEF Items, RelayAssumption, Tasks, Conns
<1>3. m.p # None => m.p \in CConns /\ Paired(m.p)' /\ link'[m.p] = link[m.p] /\ link[m.p] \in SConns
  BY <1>1, <1>2, PairedStays DEF ItemPair
<1>4. ItemPair(m)'
  BY <1>3 DEF ItemPair
<1>5. ItemOwner(t, m)'
  BY <1>1, <1>2, <1>3 DEF ItemOwner
<1>6. ItemWait(m)'
  BY <1>1 DEF ItemWait, Grows
<1>7. m.op \in {"close", "stuck"} => Heard(m.p, link[m.p])'
  <2> SUFFICES ASSUME m.op \in {"close", "stuck"} PROVE Heard(m.p, link[m.p])'
    OBVIOUS
  <2>1. m.p \in CConns /\ m.p # None
    BY <1>1, <1>2 DEF ItemShape
  <2>2. PICK l \in SConns : l = link[m.p] /\ l = link'[m.p]
    BY <1>3, <2>1
  <2>3. Heard(m.p, l)
    BY <1>1, <2>2 DEF ItemHeard
  <2>4. Heard(m.p, l)'
    BY <2>3, HeardStays
  <2> QED BY <2>2, <2>4
<1>8. m.kind \in {"data", "pairclose"} /\ m.to \in SConns => Heard(m.p, m.to)'
  BY <1>1, HeardStays DEF ItemHeard
<1>9. ItemHeard(m)'
  BY <1>7, <1>8 DEF ItemHeard
<1> QED BY <1>4, <1>5, <1>6, <1>9

LEMMA SendErrorTodo ==
  ASSUME RelayAssumption, RelayInv, Grows, NEW t \in Tasks, SendError(t)
  PROVE  TodoOK
<1>1. StateTypes /\ TodoTypes /\ ShapesOK
  BY DEF RelayInv, Types
<1>2. PICK s, h : s = todo[t] /\ h = Head(todo[t])
  OBVIOUS
<1>3. /\ s \in Seq(Items) /\ s # <<>> /\ h = Head(s) /\ h \in Items /\ h \in Range(s)
      /\ Range(s) \subseteq {h} \cup Range(Tail(s))
      /\ ItemOK(t, h) /\ ShapeOK(s)
  BY <1>2, HeadItem DEF SendError
<1>4. h.op \in {"send", "wait"} /\ writer[h.to] = "done" /\ h.to \in Conns
  BY <1>2, <1>3 DEF SendError, ItemOK, ItemShape
<1>5. writer'[h.to] = "done"
  BY <1>4 DEF Grows
<1>6. CASE Skips(t) /\ ~ h.must
  <2>1. todo' = [todo EXCEPT ![t] = Tail(todo[t])]
    BY <1>6 DEF Skips
  <2> QED BY <1>2, <1>3, <1>5, <2>1, TodoDrops
<1>7. CASE Fails(t) /\ h.must
  <2>1. ASSUME NEW e \in Seq(Items) PROVE KeptIn(s, e)
    <3> SUFFICES ASSUME NEW m \in Range(s), m.kind = "pairclose"
                 PROVE  writer'[m.to] = "done"
      BY DEF KeptIn
    <3>1. Len(s) = 1
      BY <1>3, <1>7 DEF ShapeOK
    <3>2. s[1] = h
      BY <1>3
    <3>3. PICK i \in DOMAIN s : m = s[i]
      BY DEF Range
    <3>4. i \in 1..1
      BY <1>3, <3>1, <3>3
    <3>5. m = h
      BY <3>2, <3>3, <3>4
    <3> QED BY <3>5, <1>5
  <2>2. CASE todo' = [todo EXCEPT ![t] = <<>>]
    <3>1. <<>> \in Seq(Items) /\ Range(<<>>) = {}
      BY RangeTuples
    <3>2. ShapeOK(<<>>) /\ CarriedIn(t, s, <<>>)
      BY <3>1 DEF ShapeOK, CarriedIn
    <3>3. KeptIn(s, <<>>)
      BY <3>1, <2>1
    <3> QED BY <1>1, <1>2, <2>2, <3>1, <3>2, <3>3, TodoChange
  <2>3. CASE t \in CConns /\ h.kind = "data" /\ todo' = [todo EXCEPT ![t] = <<Close(t)>>]
    <3>1. PICK m : m = Task("close", t, None)
      OBVIOUS
    <3>2. h.p = t /\ h.to = link[t] /\ t # None
      BY <1>3, <2>3 DEF ItemOK, ItemOwner, RelayAssumption, Tasks
    <3>3. Paired(t)
      BY <1>3, <3>2 DEF ItemOK, ItemPair
    <3>4. Paired(t)' /\ link'[t] = link[t] /\ link[t] \in SConns
      BY <1>1, <2>3, <3>3, PairedStays
    <3>5. Heard(t, link[t])'
      BY <1>5, <3>2, <3>4 DEF Heard
    <3>6. ItemOK(t, m)'
      BY <2>3, <3>1, <3>4, <3>5, NewTask
    <3>7. m \in Items /\ m.op = "close" /\ ~ m.must /\ m.arc = None
      BY <2>3, <3>1 DEF Task, Items
    <3>8. <<m>> \in Seq(Items) /\ Range(<<m>>) = {m}
      BY <3>7, RangeTuples
    <3>9. ShapeOK(<<m>>)
      BY <3>7, <3>8, ShapePlain
    <3>10. CarriedIn(t, s, <<m>>)
      BY <3>6, <3>7, <3>8 DEF CarriedIn
    <3>11. KeptIn(s, <<m>>)
      BY <3>8, <2>1
    <3>12. todo' = [todo EXCEPT ![t] = <<m>>]
      BY <2>3, <3>1 DEF Close
    <3> QED BY <1>1, <1>2, <3>8, <3>9, <3>10, <3>11, <3>12, TodoChange
  <2> QED BY <1>2, <1>7, <2>2, <2>3 DEF Fails
<1> QED BY <1>2, <1>6, <1>7 DEF SendError

LEMMA SendStepTodo ==
  ASSUME RelayAssumption, RelayInv, Grows, NEW t \in Tasks, SendStep(t)
  PROVE  TodoOK
<1>1. StateTypes /\ TodoTypes /\ ShapesOK
  BY DEF RelayInv, Types
<1>2. PICK s, h : s = todo[t] /\ h = Head(todo[t])
  OBVIOUS
<1>3. /\ s \in Seq(Items) /\ s # <<>> /\ h = Head(s) /\ h \in Items /\ h \in Range(s)
      /\ Tail(s) \in Seq(Items) /\ Range(Tail(s)) \subseteq Range(s)
      /\ Range(s) \subseteq {h} \cup Range(Tail(s))
      /\ ItemOK(t, h) /\ ShapeOK(s)
  BY <1>2, HeadItem DEF SendStep
<1>4. h.op = "send" /\ (h.kind = "pairclose" => <<"pairclose", h.p, h.to>> \in told')
  BY <1>2 DEF SendStep
<1>5. CASE todo' = [todo EXCEPT ![t] = Tail(s)]
  BY <1>2, <1>3, <1>4, <1>5, TodoDrops
<1>6. CASE todo' = [todo EXCEPT ![t] = <<Waiting(h)>> \o Tail(s)]
  <2>1. PICK w : w = Waiting(h)
    OBVIOUS
  <2>2. /\ w \in Items /\ w.op = "wait" /\ w.to = h.to /\ w.kind = h.kind
        /\ w.p = h.p /\ w.must = h.must /\ w.arc = h.arc
    BY <1>3, <2>1, WaitingFields
  <2>3. PICK u \in Seq(Items) : u = Tail(s)
    BY <1>3
  <2>4. <<w>> \in Seq(Items) /\ Range(<<w>>) = {w} /\ Len(<<w>>) = 1
    BY <2>2, RangeTuples
  <2>5. PICK e : e = <<w>> \o u
    OBVIOUS
  <2>6. e \in Seq(Items) /\ Range(e) = {w} \cup Range(u) /\ Len(e) = Len(s)
    <3>1. e \in Seq(Items) /\ Range(e) = Range(<<w>>) \cup Range(u)
      <4>1. PICK v \in Seq(Items) : v = <<w>>
        BY <2>4
      <4>2. v \o u \in Seq(Items) /\ Range(v \o u) = Range(v) \cup Range(u)
        BY RangeConcat
      <4> QED BY <2>5, <4>1, <4>2
    <3>2. Len(u) = Len(s) - 1 /\ Len(s) \in Nat
      BY <1>3, <2>3
    <3>3. Len(e) = 1 + Len(u)
      BY <2>3, <2>4, <2>5
    <3> QED BY <2>4, <3>1, <3>2, <3>3
  <2>7. ShapeOK(e)
    <3> SUFFICES ASSUME NEW m \in Range(e), NEW n \in Range(e)
                 PROVE  /\ m.must => n.must /\ (n.kind = "pairclose" => Len(e) = 1)
                        /\ m.op = "sweep" => n.kind # "pairclose" /\ n.op # "close"
      BY DEF ShapeOK
    <3>1. PICK m2 \in Range(s) : m2.must = m.must /\ (m.op = "sweep" => m2.op = "sweep")
      BY <1>3, <2>2, <2>3, <2>6
    <3>2. PICK n2 \in Range(s) : n2.must = n.must /\ n2.kind = n.kind
                                   /\ (n.op = "close" => n2.op = "close")
      BY <1>3, <2>2, <2>3, <2>6
    <3> QED BY <1>3, <2>6, <3>1, <3>2 DEF ShapeOK
  <2>8. KeptIn(s, e)
    <3>1. ASSUME NEW m \in Range(s), m.op \in {"send", "wait"}, m.kind = "pairclose"
          PROVE  \E n \in Range(e) : PairCloseItem(n, m.p, m.to)
      <4>1. CASE m = h
        BY <2>2, <2>6, <3>1, <4>1 DEF PairCloseItem
      <4>2. CASE m # h
        BY <1>3, <2>3, <2>6, <3>1, <4>2 DEF PairCloseItem
      <4> QED BY <4>1, <4>2
    <3> QED BY <3>1 DEF KeptIn
  <2>9. ItemOK(t, w)'
    <3>1. ItemShape(h) /\ ItemPair(h)' /\ ItemOwner(t, h)' /\ ItemHeard(h)'
      BY <1>1, <1>3, ItemStays DEF ItemOK
    <3>2. ItemShape(w)
      BY <1>4, <2>2, <3>1 DEF ItemShape
    <3>3. ItemPair(w)' /\ ItemOwner(t, w)' /\ ItemHeard(w)'
      BY <2>2, <3>1 DEF ItemPair, ItemOwner, ItemHeard
    <3>4. ItemSweep(t, w)' /\ ItemWait(w)' /\ ItemRemove(w)'
      BY <1>4, <2>2 DEF ItemSweep, ItemWait, ItemRemove
    <3> QED BY <3>2, <3>3, <3>4 DEF ItemOK, ItemShape
  <2>10. Held(w.arc)
    BY <1>2, <1>3, <2>2, ArcHeld
  <2>11. CarriedIn(t, s, e)
    BY <1>3, <2>3, <2>6, <2>9, <2>10 DEF CarriedIn
  <2>12. todo' = [todo EXCEPT ![t] = e]
    BY <1>6, <2>1, <2>3, <2>5
  <2> QED BY <1>1, <1>2, <2>6, <2>7, <2>8, <2>11, <2>12, TodoChange
<1> QED BY <1>2, <1>5, <1>6 DEF SendStep

\* PairClose to the two ends of a pair, by a task that acts on that pair.
PairCloses(t, p, m, n) ==
  /\ m \in Items /\ PairCloseItem(m, p, link[p]) /\ ~ m.must /\ m.op = "send" /\ m.arc = p
  /\ n \in Items /\ PairCloseItem(n, p, p) /\ ~ n.must /\ n.op = "send" /\ n.arc = p
  /\ ItemOK(t, m)' /\ ItemOK(t, n)'

LEMMA PairCloseItems ==
  ASSUME RelayAssumption, StateTypes, Grows, NEW t \in Tasks, NEW p \in CConns, NEW m, NEW n,
         Paired(p), Heard(p, link[p]), t \in CConns => p = t,
         m = Send(link[p], "pairclose", p, FALSE, p), n = Send(p, "pairclose", p, FALSE, p)
  PROVE  PairCloses(t, p, m, n)
<1>1. Paired(p)' /\ link'[p] = link[p] /\ link[p] \in SConns
  BY PairedStays
<1>2. PICK l \in SConns : l = link[p]
  BY <1>1
<1>3. l \in Conns /\ p \in Conns /\ p \notin SConns
  BY DEF Conns, RelayAssumption
<1>4. Heard(p, l)'
  BY <1>2, HeardStays
<1>5. m = Send(l, "pairclose", p, FALSE, p) /\ n = Send(p, "pairclose", p, FALSE, p)
  BY <1>2
<1>6. ItemOK(t, Send(l, "pairclose", p, FALSE, p))'
  BY <1>1, <1>3, <1>4, NewSend
<1>7. ItemOK(t, Send(p, "pairclose", p, FALSE, p))'
  BY <1>1, <1>3, NewSend
<1>8. ItemOK(t, m)' /\ ItemOK(t, n)'
  BY <1>5, <1>6, <1>7
<1>9. /\ m \in Items /\ m.op = "send" /\ m.kind = "pairclose" /\ m.p = p /\ m.to = link[p]
      /\ ~ m.must /\ m.arc = p
  BY <1>2, <1>5, <1>3 DEF Send, Items
<1>10. /\ n \in Items /\ n.op = "send" /\ n.kind = "pairclose" /\ n.p = p /\ n.to = p
       /\ ~ n.must /\ n.arc = p
  BY <1>3, <1>5 DEF Send, Items
<1> QED BY <1>8, <1>9, <1>10 DEF PairCloseItem, PairCloses

\* close_pair also leaves both ends of the pair it removes told, or about to be.
LEMMA CloseStepTodo ==
  ASSUME RelayAssumption, RelayInv, Grows, NEW t \in Tasks, CloseStep(t)
  PROVE  /\ TodoOK
         /\ \A p \in pairs : p = Head(todo[t]).p => Notified(p)'
<1>1. StateTypes /\ PairTypes /\ TodoTypes /\ PairsPaired
  BY DEF RelayInv, Types
<1>2. PICK s, h : s = todo[t] /\ h = Head(todo[t])
  OBVIOUS
<1>3. /\ s \in Seq(Items) /\ s # <<>> /\ h = Head(s) /\ h \in Items /\ h \in Range(s)
      /\ Tail(s) \in Seq(Items) /\ Range(Tail(s)) \subseteq Range(s)
      /\ ItemOK(t, h) /\ ShapeOK(s)
  BY <1>2, HeadItem DEF CloseStep
<1>4. h.op = "close"
  BY <1>2 DEF CloseStep
<1>5. h.p \in CConns /\ Heard(h.p, link[h.p]) /\ ~ h.must /\ (t \in CConns => h.p = t)
  BY <1>3, <1>4 DEF ItemOK, ItemShape, ItemHeard, ItemOwner, Items
<1>6. \A n \in Range(Tail(s)) : n.op # "sweep"
  BY <1>3, <1>4 DEF ShapeOK
<1>7. PICK p : p = h.p
  OBVIOUS
<1>8. CASE p \notin pairs
  <2>1. todo' = [todo EXCEPT ![t] = Tail(todo[t])]
    BY <1>2, <1>7, <1>8 DEF CloseStep
  <2>2. TodoOK
    BY <1>2, <1>3, <1>4, <2>1, TodoDrops
  <2> QED BY <1>2, <1>7, <1>8, <2>2
<1>9. CASE p \in pairs
  <2>1. Paired(p)
    BY <1>1, <1>5, <1>7, <1>9 DEF PairsPaired
  <2>2. PICK m, n : /\ m = Send(link[p], "pairclose", p, FALSE, p)
                    /\ n = Send(p, "pairclose", p, FALSE, p)
    OBVIOUS
  <2>3. /\ m \in Items /\ n \in Items /\ ItemOK(t, m)' /\ ItemOK(t, n)'
        /\ PairCloseItem(m, p, link[p]) /\ PairCloseItem(n, p, p)
        /\ ~ m.must /\ ~ n.must /\ m.op = "send" /\ n.op = "send"
        /\ m.arc = p /\ n.arc = p /\ link'[p] = link[p] /\ link[p] \in SConns
    <3>1. p \in CConns /\ Heard(p, link[p]) /\ (t \in CConns => p = t)
      BY <1>5, <1>7
    <3>2. link'[p] = link[p] /\ link[p] \in SConns
      BY <1>1, <2>1, <3>1, PairedStays
    <3>3. PairCloses(t, p, m, n)
      BY <1>1, <2>1, <2>2, <3>1, PairCloseItems
    <3> QED BY <3>2, <3>3 DEF PairCloses
  <2>4. PICK r \in Seq(Items) : r = <<m, n>>
    <3>1. m \in Items /\ n \in Items
      BY <2>3
    <3>2. <<m, n>> \in Seq(Items)
      BY <3>1
    <3> QED BY <3>2, Zenon
  <2>5. Range(r) = {m, n} /\ r # <<>>
    BY <2>4, RangeTuples
  <2>6. todo' = [todo EXCEPT ![t] = r \o Tail(todo[t])]
    BY <1>2, <1>7, <1>9, <2>2, <2>4 DEF CloseStep
  <2>7. Held(p)
    BY <1>9 DEF Held
  <2>8. \A k \in Range(r) : ~ k.must /\ k.op # "sweep" /\ ItemOK(t, k)'
                            /\ (k.arc # None => k.arc \in pairs' \/ Held(k.arc))
    BY <2>3, <2>5, <2>7
  <2>9. TodoOK
    BY <1>2, <1>3, <1>4, <1>5, <1>6, <2>6, <2>8, TodoAdvances
  <2>10. m \in Range(todo'[t]) /\ n \in Range(todo'[t])
    <3>1. PICK u \in Seq(Items) : u = Tail(s)
      BY <1>3
    <3>2. Range(r \o u) = Range(r) \cup Range(u)
      BY RangeConcat
    <3>3. todo'[t] = r \o u
      BY <1>1, <1>2, <2>6, <3>1 DEF TodoTypes
    <3> QED BY <2>5, <3>2, <3>3
  <2>11. Pending(p, link[p])' /\ Pending(p, p)'
    <3>1. PICK i \in DOMAIN todo'[t], j \in DOMAIN todo'[t] : m = todo'[t][i] /\ n = todo'[t][j]
      BY <2>10 DEF Range
    <3>2. m.op \in {"send", "wait"} /\ m.kind = "pairclose" /\ m.p = p /\ m.to = link'[p]
      BY <2>3 DEF PairCloseItem
    <3>3. n.op \in {"send", "wait"} /\ n.kind = "pairclose" /\ n.p = p /\ n.to = p
      BY <2>3 DEF PairCloseItem
    <3> QED BY <3>1, <3>2, <3>3 DEF Pending
  <2>12. Notified(p)'
    BY <2>11 DEF Notified
  <2> QED BY <1>2, <1>7, <2>9, <2>12
<1> QED BY <1>8, <1>9

\* While a task sweeps its pairs no other task is registered under its
\* identity, so no pair it closes belongs to a server that is still reading.
LEMMA SweepStepTodo ==
  ASSUME RelayAssumption, RelayInv, Grows, NEW t \in Tasks, SweepStep(t)
  PROVE  TodoOK
<1>1. /\ StateTypes /\ PairTypes /\ TodoTypes /\ ShapesOK /\ PairsPaired /\ LinkLive
      /\ RegistrationLive
  BY DEF RelayInv, Types
<1>2. PICK s, h : s = todo[t] /\ h = Head(todo[t])
  OBVIOUS
<1>3. h \in Range(s) /\ ItemOK(t, h) /\ ShapeOK(s) /\ h.op = "sweep"
  BY <1>2, HeadItem DEF SweepStep
<1>4. t \in SConns /\ pc[t] = "closing" /\ t \notin CConns
  BY <1>3 DEF ItemOK, ItemSweep, RelayAssumption
<1>5. PICK S : S = {p \in pairs : ServerOf[p] = ServerOf[t]}
  OBVIOUS
<1>6. S \in SUBSET CConns /\ S \in SUBSET pairs /\ IsFiniteSet(S)
  BY <1>1, <1>5, FS_Subset DEF PairTypes
<1>7. PICK order \in SetToSeqs(S) :
        todo' = [todo EXCEPT ![t] = [i \in DOMAIN order |-> Close(order[i])]]
  BY <1>5 DEF SweepStep
<1>8. PICK e : e = [i \in DOMAIN order |-> Close(order[i])]
  OBVIOUS
<1>9. e \in Seq(Items) /\ Range(e) \subseteq {Close(p) : p \in S}
  BY <1>6, <1>8, OrderedItems
<1>10. ASSUME NEW m \in Range(e) PROVE ItemOK(t, m)' /\ ~ m.must /\ m.op = "close" /\ m.arc = None
  <2>1. PICK p \in S : m = Task("close", p, None)
    BY <1>9 DEF Close
  <2>2. p \in CConns /\ p \in pairs /\ ServerOf[p] = ServerOf[t]
    BY <1>5, <1>6
  <2>3. Paired(p)
    BY <1>1, <2>2 DEF PairsPaired
  <2>4. Paired(p)' /\ link'[p] = link[p] /\ link[p] \in SConns
    BY <1>1, <2>2, <2>3, PairedStays
  <2>5. PICK l \in SConns : l = link[p]
    BY <2>4
  <2>6. ServerOf[l] = ServerOf[t] /\ pc[l] # "new"
    BY <1>1, <2>2, <2>3, <2>5 DEF LinkLive, Paired
  <2>7. pc[l] # "reading"
    <3> SUFFICES ASSUME pc[l] = "reading" PROVE FALSE
      OBVIOUS
    <3>1. l \in ServerTickets /\ t \in ServerTickets
      BY <1>4 DEF ServerTickets
    <3>2. l = t
      BY <1>1, <2>6, <3>1 DEF RegistrationLive
    <3> QED BY <1>4, <3>2
  <2>8. Heard(p, l)
    BY <2>6, <2>7 DEF Heard
  <2>9. Heard(p, l)'
    BY <1>1, <2>8, HeardStays
  <2>10. Heard(p, link[p])'
    BY <2>4, <2>5, <2>9
  <2>11. ItemOK(t, m)'
    BY <1>4, <2>1, <2>2, <2>4, <2>10, NewTask
  <2> QED BY <2>1, <2>11 DEF Task
<1>11. ShapeOK(e)
  BY <1>9, <1>10, ShapePlain
<1>12. KeptIn(s, e)
  BY <1>3 DEF KeptIn, ShapeOK
<1>13. CarriedIn(t, s, e)
  BY <1>10 DEF CarriedIn
<1> QED BY <1>1, <1>2, <1>7, <1>8, <1>9, <1>11, <1>12, <1>13, TodoChange

LEMMA SweepOnceTodo ==
  ASSUME RelayAssumption, RelayInv, Grows, SweepOnce
  PROVE  TodoOK
<1>1. /\ StateTypes /\ PairTypes /\ TodoTypes /\ ShapesOK /\ PairsPaired /\ PairsHeard
  BY DEF RelayInv, Types
<1>2. PICK g \in Tasks : g = Guillotine /\ g \notin CConns /\ todo[g] = <<>>
  BY DEF SweepOnce, Tasks, RelayAssumption, Conns
<1>3. PICK S : S = pairs \cap stale
  OBVIOUS
<1>4. S \in SUBSET CConns /\ S \in SUBSET pairs /\ IsFiniteSet(S)
  BY <1>1, <1>3, FS_Subset DEF PairTypes
<1>5. PICK order \in SetToSeqs(S) :
        todo' = [todo EXCEPT ![g] = [i \in DOMAIN order |-> Stuck(order[i])]]
  BY <1>2, <1>3 DEF SweepOnce
<1>6. PICK e : e = [i \in DOMAIN order |-> Stuck(order[i])]
  OBVIOUS
<1>7. e \in Seq(Items) /\ Range(e) \subseteq {Stuck(p) : p \in S}
  BY <1>4, <1>6, OrderedItems
<1>8. ASSUME NEW m \in Range(e)
      PROVE  ItemOK(g, m)' /\ ~ m.must /\ m.op = "stuck" /\ Held(m.arc)
  <2>1. PICK p \in S : m = Task("stuck", p, p)
    BY <1>7 DEF Stuck
  <2>2. p \in CConns /\ p \in pairs /\ p \in stale
    BY <1>3, <1>4
  <2>3. Paired(p)
    BY <1>1, <2>2 DEF PairsPaired
  <2>4. Paired(p)' /\ link'[p] = link[p] /\ link[p] \in SConns
    BY <1>1, <2>2, <2>3, PairedStays
  <2>5. PICK l \in SConns : l = link[p]
    BY <2>4
  <2>6. Heard(p, l)
    BY <1>1, <2>2, <2>5 DEF PairsHeard
  <2>7. Heard(p, l)'
    BY <1>1, <2>6, HeardStays
  <2>8. Heard(p, link[p])'
    BY <2>4, <2>5, <2>7
  <2>9. ItemOK(g, m)'
    BY <1>2, <2>1, <2>2, <2>4, <2>8, NewTask
  <2>10. Held(p)
    BY <2>2 DEF Held
  <2> QED BY <2>1, <2>9, <2>10 DEF Task
<1>9. ShapeOK(e)
  BY <1>7, <1>8, ShapePlain
<1> QED BY <1>1, <1>2, <1>5, <1>6, <1>7, <1>8, <1>9, TodoStarts

\* close_stuck puts the removal of the pair behind the two PairClose.
LEMMA StuckStepTodo ==
  ASSUME RelayAssumption, RelayInv, Grows, StuckStep
  PROVE  TodoOK
<1>1. StateTypes /\ PairTypes /\ TodoTypes
  BY DEF RelayInv, Types
<1>2. PICK g \in Tasks : g = Guillotine /\ g \notin CConns /\ g \notin SConns
  BY DEF Tasks, RelayAssumption, Conns
<1>3. PICK s, h : s = todo[g] /\ h = Head(todo[g])
  OBVIOUS
<1>4. /\ s \in Seq(Items) /\ s # <<>> /\ h = Head(s) /\ h \in Items /\ h \in Range(s)
      /\ Tail(s) \in Seq(Items) /\ Range(Tail(s)) \subseteq Range(s)
      /\ ItemOK(g, h) /\ h.op = "stuck"
  BY <1>2, <1>3, HeadItem DEF StuckStep
<1>5. PICK p : p = h.p
  OBVIOUS
<1>6. p \in CConns /\ Heard(p, link[p]) /\ ~ h.must /\ h.arc = p /\ p # None
  BY <1>4, <1>5 DEF ItemOK, ItemShape, ItemHeard, Items, RelayAssumption, Tasks, Conns
<1>7. \A n \in Range(Tail(s)) : n.op # "sweep"
  <2> SUFFICES ASSUME NEW n \in Range(Tail(s)) PROVE n.op # "sweep"
    OBVIOUS
  <2>1. ItemOK(g, n)
    BY <1>3, <1>4 DEF RelayInv, ItemsOK
  <2> QED BY <1>2, <2>1 DEF ItemOK, ItemSweep
<1>8. Paired(p)
  BY <1>4, <1>5, <1>6 DEF ItemOK, ItemPair
<1>9. link'[p] = link[p] /\ link[p] \in SConns /\ Paired(p)'
  BY <1>1, <1>6, <1>8, PairedStays
<1>10. PICK m, n : /\ m = Send(link[p], "pairclose", p, FALSE, p)
                   /\ n = Send(p, "pairclose", p, FALSE, p)
  OBVIOUS
<1>11. PairCloses(g, p, m, n)
  BY <1>1, <1>2, <1>6, <1>8, <1>10, PairCloseItems
<1>12. PICK k : k = RemovePair(p)
  OBVIOUS
<1>13. /\ k \in Items /\ k.op = "remove" /\ ~ k.must /\ k.arc = p /\ k.p = p /\ k.kind = "none"
  BY <1>6, <1>12 DEF RemovePair, Task, Items
<1>14. PICK r \in Seq(Items) : r = <<m, n, k>>
  <2>1. m \in Items /\ n \in Items
    BY <1>11 DEF PairCloses
  <2>2. <<m, n, k>> \in Seq(Items)
    BY <1>13, <2>1
  <2> QED BY <2>2, Zenon
<1>15. Range(r) = {m, n, k} /\ r # <<>>
  BY <1>14, RangeTuples
<1>16. todo' = [todo EXCEPT ![g] = r \o Tail(todo[g])]
  BY <1>2, <1>3, <1>5, <1>10, <1>12, <1>14 DEF StuckStep, CloseStuck
<1>17. Notified(p)'
  <2>1. PICK u \in Seq(Items) : u = Tail(s)
    BY <1>4
  <2>2. Range(r \o u) = Range(r) \cup Range(u)
    BY RangeConcat
  <2>3. todo'[g] = r \o u
    BY <1>1, <1>3, <1>16, <2>1 DEF TodoTypes
  <2>4. PICK i \in DOMAIN todo'[g], j \in DOMAIN todo'[g] : m = todo'[g][i] /\ n = todo'[g][j]
    <3>1. m \in Range(todo'[g]) /\ n \in Range(todo'[g])
      BY <1>15, <2>2, <2>3
    <3> QED BY <3>1 DEF Range
  <2>5. m.op \in {"send", "wait"} /\ m.kind = "pairclose" /\ m.p = p /\ m.to = link'[p]
    BY <1>9, <1>11 DEF PairCloses, PairCloseItem
  <2>6. n.op \in {"send", "wait"} /\ n.kind = "pairclose" /\ n.p = p /\ n.to = p
    BY <1>11 DEF PairCloses, PairCloseItem
  <2>7. Pending(p, link[p])' /\ Pending(p, p)'
    BY <2>4, <2>5, <2>6 DEF Pending
  <2> QED BY <2>7 DEF Notified
<1>18. ItemOK(g, k)'
  <2>1. ItemShape(k) /\ ItemPair(k)' /\ ItemOwner(g, k)' /\ ItemSweep(g, k)' /\ ItemWait(k)'
          /\ ItemHeard(k)'
    BY <1>2, <1>6, <1>9, <1>13
      DEF ItemShape, ItemPair, ItemOwner, ItemSweep, ItemWait, ItemHeard
  <2>2. ItemRemove(k)'
    BY <1>13, <1>17 DEF ItemRemove
  <2> QED BY <2>1, <2>2 DEF ItemOK, ItemShape
<1>19. Held(p)
  BY <1>2, <1>3, <1>4, <1>6, ArcHeld
<1>20. \A x \in Range(r) : ~ x.must /\ x.op # "sweep" /\ ItemOK(g, x)'
                           /\ (x.arc # None => x.arc \in pairs' \/ Held(x.arc))
  BY <1>11, <1>13, <1>15, <1>18, <1>19 DEF PairCloses
<1> QED BY <1>3, <1>4, <1>6, <1>7, <1>16, <1>20, TodoAdvances

LEMMA TodoNext ==
  ASSUME RelayAssumption, RelayInv, Grows, [Next]_vars
  PROVE  TodoOK
<1>1. TodoTypes /\ ShapesOK /\ QueueTypes /\ QueueShape /\ QueueWaits
  BY DEF RelayInv, Types
<1>2. ASSUME NEW t \in Tasks, TaskStep(t) PROVE TodoOK
  BY <1>2, SendErrorTodo, SendStepTodo, CloseStepTodo, SweepStepTodo DEF TaskStep
<1>3. CASE RemoveStuck
  <2>1. PICK g \in Tasks : g = Guillotine
    BY DEF Tasks
  <2>2. todo[g] # <<>> /\ Head(todo[g]).op = "remove" /\ todo' = [todo EXCEPT ![g] = Tail(todo[g])]
    BY <1>3, <2>1 DEF RemoveStuck
  <2> QED BY <2>2, TodoDrops
<1>4. ASSUME NEW x \in Conns, WriterStep(x) \/ WriterEnds(x) \/ PeerGone(x) PROVE TodoOK
  <2>1. CASE queue[x] # <<>> /\ Dequeue(x)
    <3>1. CASE UNCHANGED todo
      BY <1>1, <3>1, TodoSame
    <3>2. CASE ~ UNCHANGED todo
      <4>1. PICK t \in Tasks : /\ todo[t] # <<>> /\ Head(todo[t]).op = "wait"
                               /\ todo' = [todo EXCEPT ![t] = Tail(@)]
        BY <1>1, <2>1, <3>2, DequeueEffect
      <4>2. ItemOK(t, Head(todo[t])) /\ UNCHANGED told
        BY <2>1, <4>1, HeadItem DEF Dequeue
      <4>3. Head(todo[t]).kind = "pairclose" =>
              <<"pairclose", Head(todo[t]).p, Head(todo[t]).to>> \in told'
        BY <4>1, <4>2 DEF ItemOK, ItemWait
      <4>4. todo' = [todo EXCEPT ![t] = Tail(todo[t])]
        BY <4>1
      <4> QED BY <4>1, <4>3, <4>4, TodoDrops
    <3> QED BY <3>1, <3>2
  <2>2. CASE UNCHANGED todo
    BY <1>1, <2>2, TodoSame
  <2> QED BY <1>4, <2>1, <2>2 DEF WriterStep, WriterBreaks, WriterEnds, PeerGone
<1>5. ASSUME NEW c \in CConns, IdleElapses(c) PROVE TodoOK
  BY <1>1, <1>5, TodoSame DEF IdleElapses
<1>6. CASE UNCHANGED vars
  BY <1>1, <1>6, TodoSame DEF vars
<1> QED
  BY <1>2, <1>3, <1>4, <1>5, <1>6, ServerTodo, ClientTodo, SweepOnceTodo, StuckStepTodo DEF Next

-----------------------------------------------------------------------------
(* The items after a step *)

LEMMA NotifiedStays ==
  ASSUME RelayAssumption, StateTypes, Grows, TodoOK, NEW p \in CConns, Paired(p), Notified(p)
  PROVE  Notified(p)'
<1>1. link'[p] = link[p] /\ link[p] \in SConns
  BY PairedStays
<1>2. ASSUME NEW x \in {p, link[p]}
      PROVE  <<"pairclose", p, x>> \in told' \/ Pending(p, x)' \/ writer'[x] = "done"
  <2>1. x \in Conns
    BY <1>1 DEF Conns
  <2>2. CASE <<"pairclose", p, x>> \in told
    BY <2>2 DEF Grows
  <2>3. CASE writer[x] = "done"
    BY <2>1, <2>3 DEF Grows
  <2>4. CASE Pending(p, x)
    <3>0. PICK t \in Tasks : \E m \in Range(todo[t]) : PairCloseItem(m, p, x)
      BY <2>4 DEF Pending, PairCloseItem, Range
    <3>1. PICK m \in Range(todo[t]) : PairCloseItem(m, p, x)
      BY <3>0
    <3>2. KeptIn(todo[t], todo'[t])
      BY DEF TodoOK
    <3>3. \/ \E n \in Range(todo'[t]) : PairCloseItem(n, p, x)
          \/ <<"pairclose", p, x>> \in told'
          \/ writer'[x] = "done"
      BY <3>1, <3>2 DEF KeptIn, PairCloseItem
    <3>4. ASSUME NEW n \in Range(todo'[t]), PairCloseItem(n, p, x) PROVE Pending(p, x)'
      <4>1. PICK i \in DOMAIN todo'[t] : n = todo'[t][i]
        BY <3>4 DEF Range
      <4>2. \E j \in DOMAIN todo'[t] :
              todo'[t][j].op \in {"send", "wait"} /\ todo'[t][j].kind = "pairclose"
                /\ todo'[t][j].p = p /\ todo'[t][j].to = x
        BY <3>4, <4>1 DEF PairCloseItem
      <4> QED BY <4>2 DEF Pending
    <3> QED BY <3>3, <3>4
  <2> QED BY <1>2, <2>2, <2>3, <2>4 DEF Notified
<1> QED BY <1>1, <1>2 DEF Notified

LEMMA ItemsNext ==
  ASSUME RelayAssumption, RelayInv, Grows, TodoOK
  PROVE  ItemsOK'
<1>1. StateTypes /\ ItemsOK /\ todo \in [Tasks -> Seq(Items)]
  BY DEF RelayInv, Types, TodoTypes
<1> SUFFICES ASSUME NEW t \in Tasks, NEW m \in Range(todo'[t]) PROVE ItemOK(t, m)'
  BY DEF ItemsOK
<1>2. m \in Range(todo[t]) \/ ItemOK(t, m)'
  BY DEF TodoOK, CarriedIn
<1>3. ASSUME m \in Range(todo[t]) PROVE ItemOK(t, m)'
  <2>1. m \in Items /\ ItemOK(t, m)
    <3>1. todo[t] \in Seq(Items)
      BY <1>1
    <3>2. PICK i \in DOMAIN todo[t] : m = todo[t][i]
      BY <1>3 DEF Range
    <3>3. m \in Items
      BY <3>1, <3>2
    <3> QED BY <1>1, <1>3, <3>3 DEF ItemsOK
  <2>2. ItemPair(m)' /\ ItemOwner(t, m)' /\ ItemWait(m)' /\ ItemHeard(m)'
    BY <1>1, <2>1, ItemStays
  <2>3. ItemSweep(t, m)'
    <3>1. todo'[t] # <<>>
      BY RangeTuples
    <3> QED BY <2>1, <3>1 DEF ItemOK, ItemSweep, Grows
  <2>4. ItemRemove(m)'
    <3> SUFFICES ASSUME m.op = "remove" PROVE Notified(m.p)'
      BY DEF ItemRemove
    <3>1. m.p \in CConns /\ m.p # None
      BY <2>1 DEF ItemOK, ItemShape, RelayAssumption, Tasks, Conns
    <3>2. Paired(m.p) /\ Notified(m.p)
      BY <2>1, <3>1 DEF ItemOK, ItemPair, ItemRemove
    <3> QED BY <1>1, <3>1, <3>2, NotifiedStays
  <2>5. ItemShape(m)
    BY <2>1 DEF ItemOK
  <2> QED BY <2>2, <2>3, <2>4, <2>5 DEF ItemOK, ItemShape
<1> QED BY <1>2, <1>3

-----------------------------------------------------------------------------
(* The pairs after a step *)

\* How a client task comes to hold its pair.
LEMMA HoldsSteps ==
  ASSUME RelayAssumption, StateTypes, [Next]_vars, NEW c \in CConns,
         ClientHolds(c)', ~ ClientHolds(c)
  PROVE  \/ Admit(c) /\ pc[c] = "found" /\ pc'[c] = "reading" /\ ~ Refuse(c)
         \/ SendError(c) /\ Head(todo[c]).kind = "data"
<1>1. pc'[c] \in {"reading", "closing"} /\ pc[c] \notin {"reading", "closing"}
  BY DEF ClientHolds
<1>2. ASSUME NEW d \in CConns, ClientNext(d)
      PROVE  Admit(c) /\ pc[c] = "found" /\ pc'[c] = "reading" /\ ~ Refuse(c)
  BY <1>1, <1>2 DEF ClientNext, Lookup, Admit, Refuse, ClientData, ClientPairClose,
    ClientBreaksProtocol, ClientEnds,
     ClientReturns, StateTypes, Conns
<1>3. ASSUME NEW t \in Tasks, TaskStep(t) PROVE SendError(c) /\ Head(todo[c]).kind = "data"
  BY <1>1, <1>3 DEF TaskStep, SendError, Fails, Skips, SendStep, CloseStep, SweepStep,
     StateTypes, Conns, RelayAssumption
<1>4. ASSUME NEW s \in SConns, ServerNext(s) PROVE FALSE
  BY <1>1, <1>4 DEF ServerNext, Register, Refuse, ServerEnds, ServerFails, ServerBreaksProtocol,
    ServerUnregisters,
     ServerReturns, ServerData, ServerPairClose, StateTypes, Conns, RelayAssumption
<1>5. ASSUME NEW x \in Conns, WriterStep(x) \/ WriterEnds(x) \/ PeerGone(x) PROVE FALSE
  BY <1>1, <1>5 DEF WriterStep, WriterBreaks, Dequeue, WriterEnds, PeerGone
<1>6. ASSUME NEW d \in CConns, IdleElapses(d) PROVE FALSE
  BY <1>1, <1>6 DEF IdleElapses
<1>7. SweepOnce \/ StuckStep \/ RemoveStuck \/ UNCHANGED vars => FALSE
  BY <1>1 DEF SweepOnce, StuckStep, RemoveStuck, vars
<1> QED BY <1>2, <1>3, <1>4, <1>5, <1>6, <1>7 DEF Next

LEMMA PairsPairedNext ==
  ASSUME RelayAssumption, RelayInv, Grows, [Next]_vars
  PROVE  PairsPaired'
<1>1. StateTypes /\ PairTypes /\ PairsPaired /\ LinkLive /\ FreshIdle
  BY DEF RelayInv, Types
<1>2. ASSUME NEW c \in CConns, Paired(c) PROVE Paired(c)'
  BY <1>1, <1>2, PairedStays
<1>3. ASSUME NEW c \in CConns, Admit(c), c \in pairs' \/ pc'[c] = "reading", c \notin pairs
      PROVE  Paired(c)'
  <2>1. pc[c] = "found" /\ pc'[c] = "reading" /\ UNCHANGED link
    BY <1>1, <1>3 DEF Admit, Refuse, StateTypes, Conns
  <2>2. link[c] # None
    BY <1>1, <2>1 DEF LinkLive
  <2> QED BY <2>1, <2>2 DEF Paired, Fresh
<1>4. ASSUME NEW c \in CConns, c \in pairs' \/ c \in stale' PROVE Paired(c)'
  <2>1. CASE c \in pairs \/ c \in stale
    BY <1>1, <1>2, <2>1 DEF PairsPaired
  <2>2. CASE ~ (c \in pairs \/ c \in stale)
    <3>1. Admit(c) /\ c \in pairs'
      BY <1>4, <2>2, PairSteps
    <3> QED BY <1>3, <2>2, <3>1
  <2> QED BY <2>1, <2>2
<1>5. ASSUME NEW c \in CConns, ClientHolds(c)' PROVE Paired(c)'
  <2>1. CASE ClientHolds(c)
    BY <1>1, <1>2, <2>1 DEF PairsPaired
  <2>2. CASE ~ ClientHolds(c)
    <3>2. CASE Admit(c) /\ pc[c] = "found" /\ pc'[c] = "reading"
      BY <1>1, <1>3, <3>2 DEF PairsPaired, Paired, Fresh
    <3>3. CASE SendError(c)
      <4>1. c \in Tasks /\ todo[c] # <<>>
        BY <3>3 DEF SendError, Tasks, Conns
      <4>2. PICK h : h = Head(todo[c])
        OBVIOUS
      <4>3. ItemOK(c, h)
        BY <4>1, <4>2, HeadItem
      <4>4. Paired(c)
        BY <4>3 DEF ItemOK, ItemOwner, ItemPair, RelayAssumption, Tasks, Conns
      <4> QED BY <1>2, <4>4
    <3> QED BY <1>1, <1>5, <2>2, <3>2, <3>3, HoldsSteps
  <2> QED BY <2>1, <2>2
<1>6. ASSUME NEW c \in CConns, NEW x \in Conns, <<"inbound", c, x>> \in told'
      PROVE  Paired(c)' /\ link'[c] = x
  <2>1. CASE <<"inbound", c, x>> \in told
    BY <1>1, <2>1, PairedStays DEF PairsPaired
  <2>2. CASE <<"inbound", c, x>> \notin told
    <3>1. \A t \in Tasks : SendStep(t) \/ (TaskStep(t) => UNCHANGED told)
      BY DEF TaskStep, SendError, Fails, Skips, CloseStep, SweepStep
    <3>2. \A s \in SConns : ServerNext(s) => UNCHANGED told
      BY DEF ServerNext, Register, Refuse, ServerEnds, ServerFails, ServerBreaksProtocol,
         ServerUnregisters, ServerReturns, ServerData, ServerPairClose
    <3>3. \A d \in CConns : ClientNext(d) \/ IdleElapses(d) => UNCHANGED told
      BY DEF ClientNext, Lookup, Admit, Refuse, ClientData, ClientPairClose, ClientBreaksProtocol,
             ClientEnds, ClientReturns, IdleElapses
    <3>4. \A y \in Conns : WriterStep(y) \/ WriterEnds(y) \/ PeerGone(y) => UNCHANGED told
      BY DEF WriterStep, WriterBreaks, Dequeue, WriterEnds, PeerGone
    <3>5. SweepOnce \/ StuckStep \/ RemoveStuck \/ UNCHANGED vars => UNCHANGED told
      BY DEF SweepOnce, StuckStep, RemoveStuck, vars
    <3>6. PICK t \in Tasks : SendStep(t)
      BY <1>6, <2>2, <3>1, <3>2, <3>3, <3>4, <3>5 DEF Next
    <3>7. PICK h : h = Head(todo[t])
      OBVIOUS
    <3>8. ItemOK(t, h) /\ <<"inbound", c, x>> = <<h.kind, h.p, h.to>>
      BY <1>6, <2>2, <3>6, <3>7, HeadItem DEF SendStep
    <3>9. h.kind = "inbound" /\ h.p = c /\ h.to = x
      BY <3>8
    <3>10. t = c /\ link[c] = x /\ Paired(c)
      BY <3>8, <3>9 DEF ItemOK, ItemOwner, ItemPair, RelayAssumption, Tasks, Conns
    <3> QED BY <1>1, <3>10, PairedStays
  <2> QED BY <2>1, <2>2
<1> QED BY <1>4, <1>5, <1>6 DEF PairsPaired

-----------------------------------------------------------------------------
(* The channels after a step *)

LEMMA QueueSteps ==
  ASSUME StateTypes, [Next]_vars
  PROVE  \/ UNCHANGED queue /\ \A x \in Conns : writer'[x] = writer[x] \/ queue[x] = <<>>
         \/ \E t \in Tasks : SendStep(t)
         \/ \E x \in Conns : queue[x] # <<>> /\ WriterBreaks(x)
         \/ \E x \in Conns : queue[x] # <<>> /\ Dequeue(x)
<1>1. \A s \in SConns : ServerNext(s) => UNCHANGED <<queue, writer>>
  BY DEF ServerNext, Register, Refuse, ServerEnds, ServerFails, ServerBreaksProtocol,
    ServerUnregisters, ServerReturns,
     ServerData, ServerPairClose
<1>2. \A c \in CConns : ClientNext(c) \/ IdleElapses(c) => UNCHANGED <<queue, writer>>
  BY DEF ClientNext, Lookup, Admit, Refuse, ClientData, ClientPairClose, ClientBreaksProtocol,
    ClientEnds, ClientReturns,
     IdleElapses
<1>3. \A t \in Tasks : TaskStep(t) => SendStep(t) \/ UNCHANGED <<queue, writer>>
  BY DEF TaskStep, SendError, Fails, Skips, CloseStep, SweepStep
<1>4. SweepOnce \/ StuckStep \/ RemoveStuck \/ UNCHANGED vars => UNCHANGED <<queue, writer>>
  BY DEF SweepOnce, StuckStep, RemoveStuck, vars
<1>5. ASSUME NEW x \in Conns, WriterEnds(x)
      PROVE  UNCHANGED queue /\ \A y \in Conns : writer'[y] = writer[y] \/ queue[y] = <<>>
  BY <1>5 DEF WriterEnds, StateTypes
<1>6. \A x \in Conns : PeerGone(x) => UNCHANGED <<queue, writer>>
  BY DEF PeerGone
<1>7. \A x \in Conns : WriterStep(x) => queue[x] # <<>> /\ (WriterBreaks(x) \/ Dequeue(x))
  BY DEF WriterStep
<1> QED BY <1>1, <1>2, <1>3, <1>4, <1>5, <1>6, <1>7 DEF Next

\* A task that waits for room goes on only when it gets it, or the writer ends.
LEMMA WaitsStay ==
  ASSUME RelayAssumption, RelayInv, [Next]_vars, NEW t \in Tasks, todo[t] # <<>>,
         Head(todo[t]).op = "wait", writer[Head(todo[t]).to] # "done"
  PROVE  todo'[t] = todo[t] \/ \E x \in Conns : queue[x] # <<>> /\ Dequeue(x)
<1>1. TodoTypes /\ FreshIdle
  BY DEF RelayInv, Types
<1>2. ASSUME NEW s \in SConns, ServerNext(s) PROVE todo'[t] = todo[t]
  <2>1. s \in Conns /\ (Fresh(s) => todo[s] = <<>>)
    BY <1>1 DEF FreshIdle, Conns
  <2>2. UNCHANGED todo \/ (todo[s] = <<>> /\ \E e : todo' = [todo EXCEPT ![s] = e])
    BY <1>2, <2>1 DEF ServerNext, Register, Refuse, ServerEnds, ServerFails, ServerBreaksProtocol,
      ServerUnregisters,
         ServerReturns, ServerData, ServerPairClose, Fresh
  <2> QED BY <1>1, <2>2 DEF TodoTypes
<1>3. ASSUME NEW c \in CConns, ClientNext(c) PROVE todo'[t] = todo[t]
  <2>1. c \in Conns /\ (Fresh(c) => todo[c] = <<>>)
    BY <1>1 DEF FreshIdle, Conns
  <2>2. UNCHANGED todo \/ (todo[c] = <<>> /\ \E e : todo' = [todo EXCEPT ![c] = e])
    BY <1>3, <2>1 DEF ClientNext, Lookup, Admit, Refuse, ClientData, ClientPairClose,
      ClientBreaksProtocol, ClientEnds,
         ClientReturns, Fresh
  <2> QED BY <1>1, <2>2 DEF TodoTypes
<1>4. ASSUME NEW u \in Tasks, TaskStep(u) PROVE todo'[t] = todo[t]
  <2>1. u # t
    BY <1>4 DEF TaskStep, SendError, SendStep, CloseStep, SweepStep
  <2>2. \E e : todo' = [todo EXCEPT ![u] = e]
    BY <1>4 DEF TaskStep, SendError, Fails, Skips, SendStep, CloseStep, SweepStep
  <2> QED BY <1>1, <2>1, <2>2 DEF TodoTypes
<1>5. ASSUME SweepOnce \/ StuckStep \/ RemoveStuck PROVE todo'[t] = todo[t]
  <2>1. t # Guillotine
    BY <1>5 DEF SweepOnce, StuckStep, RemoveStuck
  <2>2. \E e : todo' = [todo EXCEPT ![Guillotine] = e]
    BY <1>5 DEF SweepOnce, StuckStep, RemoveStuck
  <2> QED BY <1>1, <2>1, <2>2 DEF TodoTypes
<1>6. ASSUME NEW x \in Conns, WriterStep(x) \/ WriterEnds(x) \/ PeerGone(x)
      PROVE  UNCHANGED todo \/ (queue[x] # <<>> /\ Dequeue(x))
  BY <1>6 DEF WriterStep, WriterBreaks, WriterEnds, PeerGone
<1>7. ASSUME NEW c \in CConns, IdleElapses(c) PROVE UNCHANGED todo
  BY <1>7 DEF IdleElapses
<1>8. UNCHANGED vars => UNCHANGED todo
  BY DEF vars
<1> QED BY <1>2, <1>3, <1>4, <1>5, <1>6, <1>7, <1>8 DEF Next

QueueInv == QueueTypes /\ QueueShape /\ QueueWaits /\ QueueHeard

\* A channel that keeps its messages.
LEMMA QueueSame ==
  ASSUME RelayAssumption, RelayInv, Grows, [Next]_vars, UNCHANGED queue,
         \A x \in Conns : writer'[x] = writer[x] \/ queue[x] = <<>>,
         ~ \E x \in Conns : queue[x] # <<>> /\ Dequeue(x)
  PROVE  QueueInv'
<1>1. StateTypes /\ TodoTypes /\ QueueTypes /\ QueueShape /\ QueueWaits /\ QueueHeard
  BY DEF RelayInv, Types
<1>2. QueueTypes' /\ QueueShape'
  BY <1>1 DEF QueueTypes, QueueShape
<1>3. ASSUME NEW x \in Conns, NEW m \in Range(queue[x]), m.from # None
      PROVE  todo'[m.from] # <<>> /\ Head(todo'[m.from]).op = "wait" /\ Head(todo'[m.from]).to = x
  <2>1. todo[m.from] # <<>> /\ Head(todo[m.from]).op = "wait" /\ Head(todo[m.from]).to = x
    BY <1>1, <1>3 DEF QueueWaits
  <2>2. queue[x] # <<>>
    BY RangeTuples
  <2>3. writer[x] # "done"
    BY <1>1, <2>2 DEF QueueShape
  <2>4. m \in Msgs
    BY <1>1 DEF QueueTypes, Range
  <2>5. m.from \in Tasks
    BY <1>3, <2>4 DEF Msgs
  <2>6. todo'[m.from] = todo[m.from]
    BY <2>1, <2>3, <2>5, WaitsStay
  <2> QED BY <2>1, <2>6
<1>4. QueueWaits'
  BY <1>3 DEF QueueWaits
<1>5. QueueHeard'
  BY <1>1, HeardStays DEF QueueHeard
<1> QED BY <1>2, <1>4, <1>5 DEF QueueInv

LEMMA QueueSend ==
  ASSUME RelayAssumption, RelayInv, Grows, [Next]_vars, NEW t \in Tasks, SendStep(t)
  PROVE  QueueInv'
<1>1. StateTypes /\ TodoTypes /\ QueueTypes /\ QueueShape /\ QueueWaits /\ QueueHeard
  BY DEF RelayInv, Types
<1>2. PICK s, h, x : s = todo[t] /\ h = Head(todo[t]) /\ x = h.to
  OBVIOUS
<1>3. /\ s \in Seq(Items) /\ s # <<>> /\ h = Head(s) /\ h \in Items
      /\ Tail(s) \in Seq(Items) /\ ItemOK(t, h)
  BY <1>2, HeadItem DEF SendStep
<1>4. h.op = "send" /\ writer[x] = "run" /\ UNCHANGED writer
  BY <1>2 DEF SendStep
<1>5. x \in Conns
  BY <1>2, <1>3, <1>4 DEF ItemOK, ItemShape
<1>6. PICK q, n : /\ q = queue[x] /\ q \in Seq(Msgs)
                  /\ n = Msg(h.kind, h.p, IF Len(q) < QueueCap THEN None ELSE t)
  BY <1>1, <1>5 DEF QueueTypes
<1>7. n \in Msgs /\ n.kind = h.kind /\ n.p = h.p
      /\ n.from = IF Len(q) < QueueCap THEN None ELSE t
  BY <1>3, <1>6 DEF Msg, Msgs, Items
<1>8. queue' = [queue EXCEPT ![x] = Append(q, n)]
  BY <1>2, <1>6 DEF SendStep
<1>9. queue'[x] = Append(q, n) /\ \A y \in Conns : y # x => queue'[y] = queue[y]
  BY <1>1, <1>5, <1>8 DEF QueueTypes
<1>10. Append(q, n) \in Seq(Msgs) /\ Range(Append(q, n)) = Range(q) \cup {n}
  BY <1>6, <1>7, RangeAppend
<1>11. QueueTypes'
  BY <1>1, <1>8, <1>10 DEF QueueTypes
<1>12. t # None
  BY DEF RelayAssumption
<1>13. \A y \in Conns : \A m \in Range(queue[y]) : m.from # t
  BY <1>1, <1>2, <1>4, <1>12 DEF QueueWaits
<1>14. QueueShape'
  <2>1. ASSUME NEW y \in Conns, y # x
        PROVE  /\ writer'[y] = "done" => queue'[y] = <<>>
               /\ \A i \in DOMAIN queue'[y] : queue'[y][i].from = None <=> i <= QueueCap
               /\ \A i, j \in DOMAIN queue'[y] :
                    queue'[y][i].from = queue'[y][j].from /\ queue'[y][i].from # None => i = j
    BY <1>1, <1>4, <1>9, <2>1 DEF QueueShape
  <2>2. PICK r : r = queue'[x]
    OBVIOUS
  <2>3. /\ r = Append(q, n) /\ Len(r) = Len(q) + 1 /\ r[Len(q) + 1] = n /\ DOMAIN r = 1..(Len(q) + 1)
        /\ \A i \in DOMAIN q : r[i] = q[i]
    BY <1>6, <1>7, <1>9, <2>2
  <2>4. \A i \in DOMAIN r : i = Len(q) + 1 \/ i \in DOMAIN q
    BY <1>6, <2>3
  <2>5. Len(q) \in Nat /\ QueueCap \in Nat
    BY <1>6 DEF RelayAssumption
  <2>6. ASSUME NEW i \in DOMAIN r PROVE r[i].from = None <=> i <= QueueCap
    <3>1. CASE i = Len(q) + 1
      BY <1>7, <1>12, <2>3, <2>5, <3>1
    <3>2. CASE i \in DOMAIN q
      BY <1>1, <1>5, <1>6, <2>3, <3>2 DEF QueueShape
    <3> QED BY <2>4, <3>1, <3>2
  <2>7. ASSUME NEW i \in DOMAIN q PROVE r[i].from # t
    BY <1>5, <1>6, <1>13, <2>3 DEF Range
  <2>8. ASSUME NEW i \in DOMAIN r, NEW j \in DOMAIN r, r[i].from = r[j].from, r[i].from # None
        PROVE  i = j
    <3>1. CASE i \in DOMAIN q /\ j \in DOMAIN q
      BY <1>1, <1>5, <1>6, <2>3, <2>8, <3>1 DEF QueueShape
    <3>2. CASE i = Len(q) + 1 /\ j \in DOMAIN q
      BY <1>7, <2>3, <2>7, <2>8, <3>2
    <3>3. CASE j = Len(q) + 1 /\ i \in DOMAIN q
      BY <1>7, <2>3, <2>7, <2>8, <3>3
    <3> QED BY <2>4, <3>1, <3>2, <3>3
  <2>9. writer'[x] # "done"
    BY <1>4
  <2> QED BY <2>1, <2>2, <2>6, <2>8, <2>9 DEF QueueShape
<1>15. ASSUME NEW y \in Conns, NEW m \in Range(queue[y]), m.from # None
       PROVE  todo'[m.from] # <<>> /\ Head(todo'[m.from]).op = "wait" /\ Head(todo'[m.from]).to = y
  <2>1. todo[m.from] # <<>> /\ Head(todo[m.from]).op = "wait" /\ Head(todo[m.from]).to = y
    BY <1>1, <1>15 DEF QueueWaits
  <2>2. m \in Msgs
    BY <1>1 DEF QueueTypes, Range
  <2>3. m.from \in Tasks /\ m.from # t
    BY <1>13, <1>15, <2>2 DEF Msgs
  <2>4. todo'[m.from] = todo[m.from]
    BY <1>1, <2>3 DEF SendStep, TodoTypes
  <2> QED BY <2>1, <2>4
<1>16. n.from # None => todo'[t] # <<>> /\ Head(todo'[t]).op = "wait" /\ Head(todo'[t]).to = x
  <2> SUFFICES ASSUME n.from # None
               PROVE  todo'[t] # <<>> /\ Head(todo'[t]).op = "wait" /\ Head(todo'[t]).to = x
    OBVIOUS
  <2>1. ~ (Len(q) < QueueCap)
    BY <1>7
  <2>2. PICK w : w = Waiting(h)
    OBVIOUS
  <2>3. w \in Items /\ w.op = "wait" /\ w.to = x
    BY <1>2, <1>3, <2>2, WaitingFields
  <2>4. todo'[t] = <<w>> \o Tail(s)
    BY <1>1, <1>2, <1>6, <2>1, <2>2 DEF SendStep, TodoTypes
  <2>5. Len(<<w>> \o Tail(s)) > 0 /\ (<<w>> \o Tail(s))[1] = w /\ <<w>> \o Tail(s) \in Seq(Items)
    BY <1>3, <2>3
  <2>6. todo'[t] # <<>> /\ Head(todo'[t]) = w
    BY <2>4, <2>5
  <2> QED BY <2>3, <2>6
<1>17. QueueWaits'
  <2> SUFFICES ASSUME NEW y \in Conns, NEW m \in Range(queue'[y]), m.from # None
               PROVE  /\ todo'[m.from] # <<>> /\ Head(todo'[m.from]).op = "wait"
                      /\ Head(todo'[m.from]).to = y
    BY DEF QueueWaits
  <2>1. m \in Range(queue[y]) \/ (y = x /\ m = n)
    BY <1>6, <1>9, <1>10
  <2>2. CASE m \in Range(queue[y])
    BY <1>15, <2>2
  <2>3. CASE y = x /\ m = n
    BY <1>7, <1>16, <2>3
  <2> QED BY <2>1, <2>2, <2>3
<1>18. QueueHeard'
  <2> SUFFICES ASSUME NEW y \in SConns, NEW m \in Range(queue'[y]), m.kind \in {"data", "pairclose"}
               PROVE  Heard(m.p, y)'
    BY DEF QueueHeard
  <2>1. m \in Range(queue[y]) \/ (y = x /\ m = n)
    BY <1>6, <1>9, <1>10 DEF Conns
  <2>2. Heard(m.p, y)
    BY <1>1, <1>2, <1>3, <1>7, <2>1 DEF QueueHeard, ItemOK, ItemHeard
  <2> QED BY <1>1, <2>2, HeardStays
<1> QED BY <1>11, <1>14, <1>17, <1>18 DEF QueueInv

LEMMA QueueBreaks ==
  ASSUME RelayAssumption, RelayInv, Grows, [Next]_vars, NEW x \in Conns, WriterBreaks(x)
  PROVE  QueueInv'
<1>1. StateTypes /\ TodoTypes /\ QueueTypes /\ QueueShape /\ QueueWaits /\ QueueHeard
  BY DEF RelayInv, Types
<1>2. queue' = [queue EXCEPT ![x] = <<>>] /\ writer' = [writer EXCEPT ![x] = "done"]
      /\ UNCHANGED <<todo, pc, told>>
  BY DEF WriterBreaks
<1>3. queue'[x] = <<>> /\ \A y \in Conns : y # x => queue'[y] = queue[y] /\ writer'[y] = writer[y]
  BY <1>1, <1>2 DEF QueueTypes, StateTypes
<1>4. QueueTypes'
  BY <1>1, <1>2 DEF QueueTypes
<1>5. QueueShape'
  BY <1>1, <1>3 DEF QueueShape
<1>6. Range(queue'[x]) = {}
  BY <1>3, RangeTuples
<1>7. QueueWaits'
  BY <1>1, <1>2, <1>3, <1>6 DEF QueueWaits
<1>8. QueueHeard'
  <2> SUFFICES ASSUME NEW y \in SConns, NEW m \in Range(queue'[y]), m.kind \in {"data", "pairclose"}
               PROVE  Heard(m.p, y)'
    BY DEF QueueHeard
  <2>1. m \in Range(queue[y])
    BY <1>3, <1>6 DEF Conns
  <2>2. Heard(m.p, y)
    BY <1>1, <2>1 DEF QueueHeard
  <2> QED BY <1>1, <2>2, HeardStays
<1> QED BY <1>4, <1>5, <1>7, <1>8 DEF QueueInv

LEMMA QueueDequeue ==
  ASSUME RelayAssumption, RelayInv, Grows, NEW x \in Conns, queue[x] # <<>>, Dequeue(x)
  PROVE  QueueInv'
<1>1. StateTypes /\ TodoTypes /\ QueueTypes /\ QueueShape /\ QueueWaits /\ QueueHeard
  BY DEF RelayInv, Types
<1>2. PICK q, r : q = queue[x] /\ r = queue'[x]
  OBVIOUS
<1>3. /\ \A y \in Conns : y # x => queue'[y] = queue[y]
      /\ r \in Seq(Msgs) /\ Len(r) = Len(q) - 1
      /\ \A i \in DOMAIN r :
           /\ i + 1 \in DOMAIN q
           /\ r[i].kind = q[i + 1].kind /\ r[i].p = q[i + 1].p
           /\ r[i].from = IF i = QueueCap THEN None ELSE q[i + 1].from
  BY <1>1, <1>2, DequeueEffect
<1>4. \/ Len(q) <= QueueCap /\ UNCHANGED todo
      \/ \E t \in Tasks :
           /\ QueueCap + 1 \in DOMAIN q /\ t = q[QueueCap + 1].from
           /\ t # None /\ todo[t] # <<>>
           /\ Head(todo[t]).op = "wait" /\ Head(todo[t]).to = x
           /\ todo' = [todo EXCEPT ![t] = Tail(@)]
  BY <1>1, <1>2, DequeueEffect
<1>5. UNCHANGED writer /\ q \in Seq(Msgs) /\ QueueCap \in Nat \ {0} /\ r = queue'[x]
  BY <1>1, <1>2 DEF Dequeue, QueueTypes, RelayAssumption
<1>6. QueueTypes'
  <2>1. DOMAIN queue' = Conns /\ queue' = [y \in Conns |-> queue'[y]]
    BY <1>1 DEF Dequeue, QueueTypes
  <2> QED BY <1>1, <1>3, <1>5, <2>1 DEF QueueTypes
<1>7. /\ writer[x] = "done" => q = <<>>
      /\ \A i \in DOMAIN q : q[i].from = None <=> i <= QueueCap
      /\ \A i, j \in DOMAIN q : q[i].from = q[j].from /\ q[i].from # None => i = j
  BY <1>1, <1>2 DEF QueueShape
<1>8. QueueShape'
  <2>1. ASSUME NEW i \in DOMAIN r PROVE r[i].from = None <=> i <= QueueCap
    <3>1. i \in Nat /\ i + 1 \in DOMAIN q
      BY <1>3
    <3>2. CASE i = QueueCap
      BY <1>3, <1>5, <3>2
    <3>3. CASE i # QueueCap
      <4>1. r[i].from = q[i + 1].from
        BY <1>3, <3>3
      <4>2. q[i + 1].from = None <=> i + 1 <= QueueCap
        BY <1>7, <3>1
      <4> QED BY <1>5, <3>1, <3>3, <4>1, <4>2
    <3> QED BY <3>2, <3>3
  <2>2. ASSUME NEW i \in DOMAIN r, NEW j \in DOMAIN r, r[i].from = r[j].from, r[i].from # None
        PROVE  i = j
    <3>1. i \in Nat /\ j \in Nat /\ i + 1 \in DOMAIN q /\ j + 1 \in DOMAIN q
      BY <1>3
    <3>2. q[i + 1].from = q[j + 1].from /\ q[i + 1].from # None
      BY <1>3, <2>2
    <3>3. i + 1 = j + 1
      BY <1>7, <3>1, <3>2
    <3> QED BY <3>1, <3>3
  <2>3. writer'[x] # "done"
    BY <1>2, <1>5, <1>7
  <2>4. ASSUME NEW y \in Conns, y # x
        PROVE  /\ writer'[y] = "done" => queue'[y] = <<>>
               /\ \A i \in DOMAIN queue'[y] : queue'[y][i].from = None <=> i <= QueueCap
               /\ \A i, j \in DOMAIN queue'[y] :
                    queue'[y][i].from = queue'[y][j].from /\ queue'[y][i].from # None => i = j
    BY <1>1, <1>3, <1>5, <2>4 DEF QueueShape
  <2> QED BY <1>5, <2>1, <2>2, <2>3, <2>4 DEF QueueShape
<1>9. QueueWaits'
  <2> SUFFICES ASSUME NEW y \in Conns, NEW m \in Range(queue'[y]), m.from # None
               PROVE  /\ todo'[m.from] # <<>> /\ Head(todo'[m.from]).op = "wait"
                      /\ Head(todo'[m.from]).to = y
    BY DEF QueueWaits
  <2>1. PICK k \in DOMAIN queue[y] :
          queue[y][k].from = m.from /\ (y = x => k # QueueCap + 1)
    <3>1. CASE y = x
      <4>1. PICK i \in DOMAIN r : m = r[i]
        BY <1>5, <3>1 DEF Range
      <4>2. i # QueueCap /\ i + 1 \in DOMAIN q /\ q[i + 1].from = m.from /\ i \in Nat
        BY <1>3, <4>1
      <4>3. i + 1 # QueueCap + 1
        BY <1>5, <4>2
      <4> QED BY <1>2, <3>1, <4>2, <4>3
    <3>2. CASE y # x
      BY <1>3, <3>2 DEF Range
    <3> QED BY <3>1, <3>2
  <2>2. PICK m2 : m2 = queue[y][k] /\ m2 \in Range(queue[y]) /\ m2.from = m.from
    BY <2>1 DEF Range
  <2>3. todo[m.from] # <<>> /\ Head(todo[m.from]).op = "wait" /\ Head(todo[m.from]).to = y
    BY <1>1, <2>2 DEF QueueWaits
  <2>4. m2 \in Msgs
    BY <1>1, <2>2 DEF QueueTypes
  <2>5. m.from \in Tasks
    BY <2>2, <2>4 DEF Msgs
  <2>6. CASE UNCHANGED todo
    BY <2>3, <2>6
  <2>7. CASE ~ UNCHANGED todo
    <3>1. PICK t \in Tasks : /\ QueueCap + 1 \in DOMAIN q /\ t = q[QueueCap + 1].from
                             /\ t # None /\ Head(todo[t]).to = x
                             /\ todo' = [todo EXCEPT ![t] = Tail(@)]
      BY <1>4, <2>7
    <3>2. m.from # t
      <4> SUFFICES ASSUME m.from = t PROVE FALSE
        OBVIOUS
      <4>1. y = x
        BY <2>3, <3>1
      <4>2. k \in DOMAIN q /\ q[k].from = q[QueueCap + 1].from /\ q[k].from # None
        BY <1>2, <2>1, <3>1, <4>1
      <4>3. k = QueueCap + 1
        BY <1>7, <3>1, <4>2
      <4> QED BY <2>1, <4>1, <4>3
    <3>3. todo'[m.from] = todo[m.from]
      BY <1>1, <2>5, <3>1, <3>2 DEF TodoTypes
    <3> QED BY <2>3, <3>3
  <2> QED BY <2>6, <2>7
<1>10. QueueHeard'
  <2> SUFFICES ASSUME NEW y \in SConns, NEW m \in Range(queue'[y]), m.kind \in {"data", "pairclose"}
               PROVE  Heard(m.p, y)'
    BY DEF QueueHeard
  <2>1. PICK m2 \in Range(queue[y]) : m2.kind = m.kind /\ m2.p = m.p
    <3>1. CASE y = x
      <4>1. PICK i \in DOMAIN r : m = r[i]
        BY <1>5, <3>1 DEF Range
      <4>2. i + 1 \in DOMAIN q /\ q[i + 1].kind = m.kind /\ q[i + 1].p = m.p
        BY <1>3, <4>1
      <4> QED BY <1>2, <3>1, <4>2 DEF Range
    <3>2. CASE y # x
      BY <1>3, <3>2 DEF Conns
    <3> QED BY <3>1, <3>2
  <2>2. Heard(m.p, y)
    BY <1>1, <2>1 DEF QueueHeard
  <2> QED BY <1>1, <2>2, HeardStays
<1> QED BY <1>6, <1>8, <1>9, <1>10 DEF QueueInv

LEMMA QueueNext ==
  ASSUME RelayAssumption, RelayInv, Grows, [Next]_vars
  PROVE  QueueInv'
<1>1. StateTypes
  BY DEF RelayInv, Types
<1>2. CASE \E x \in Conns : queue[x] # <<>> /\ Dequeue(x)
  BY <1>2, QueueDequeue
<1>3. CASE ~ \E x \in Conns : queue[x] # <<>> /\ Dequeue(x)
  BY <1>1, <1>3, QueueSteps, QueueSame, QueueSend, QueueBreaks
<1> QED BY <1>2, <1>3

-----------------------------------------------------------------------------
(* The server hears of a pair first *)

LEMMA PairsHeardNext ==
  ASSUME RelayAssumption, RelayInv, Grows, PairsPaired', [Next]_vars
  PROVE  PairsHeard'
<1>1. StateTypes /\ PairTypes /\ TodoTypes /\ FreshIdle /\ PairsPaired /\ PairsHeard
  BY DEF RelayInv, Types
<1>2. ASSUME NEW c \in CConns, Paired(c), Heard(c, link[c]) PROVE Heard(c, link[c])'
  <2>1. link'[c] = link[c] /\ link[c] \in SConns
    BY <1>1, <1>2, PairedStays
  <2>2. PICK l \in SConns : l = link[c]
    BY <2>1
  <2>3. Heard(c, l)'
    BY <1>1, <1>2, <2>2, HeardStays
  <2> QED BY <2>1, <2>2, <2>3
\* PairInbound is still to be sent: it is, or its sender finds the writer gone.
<1>3. ASSUME NEW c \in CConns, Paired(c), InboundDue(c)
      PROVE  Heard(c, link[c])' \/ InboundDue(c)'
  <2>1. link'[c] = link[c] /\ link[c] \in SConns
    BY <1>1, <1>3, PairedStays
  <2>2. c \in Tasks /\ c \in Conns /\ ~ Fresh(c) /\ c # Guillotine
    BY <1>3 DEF Tasks, Conns, Paired, RelayAssumption
  <2>3. PICK h : h = Head(todo[c])
    OBVIOUS
  <2>4. todo[c] # <<>> /\ h.kind = "inbound" /\ h.op = "send"
    BY <1>3, <2>3 DEF InboundDue
  <2>5. ItemOK(c, h)
    BY <2>2, <2>3, <2>4, HeadItem
  <2>6. h.p = c /\ h.to = link[c]
    BY <2>4, <2>5 DEF ItemOK, ItemOwner
  <2>7. ASSUME todo'[c] = todo[c] PROVE InboundDue(c)'
    BY <1>3, <2>7 DEF InboundDue
  <2>8. ASSUME NEW s \in SConns, ServerNext(s) PROVE todo'[c] = todo[c]
    <3>1. s # c
      BY DEF RelayAssumption
    <3>2. UNCHANGED todo \/ \E e : todo' = [todo EXCEPT ![s] = e]
      BY <2>8 DEF ServerNext, Register, Refuse, ServerEnds, ServerFails, ServerBreaksProtocol,
        ServerUnregisters,
           ServerReturns, ServerData, ServerPairClose
    <3> QED BY <1>1, <2>2, <3>1, <3>2 DEF TodoTypes
  <2>9. ASSUME NEW d \in CConns, ClientNext(d) PROVE todo'[c] = todo[c]
    <3>1. d \in Conns /\ (Fresh(d) => todo[d] = <<>>)
      BY <1>1 DEF FreshIdle, Conns
    <3>2. UNCHANGED todo \/ (todo[d] = <<>> /\ \E e : todo' = [todo EXCEPT ![d] = e])
      BY <2>9, <3>1 DEF ClientNext, Lookup, Admit, Refuse, ClientData, ClientPairClose,
        ClientBreaksProtocol, ClientEnds,
           ClientReturns, Fresh
    <3> QED BY <1>1, <2>2, <2>4, <3>2 DEF TodoTypes
  <2>10. ASSUME NEW t \in Tasks, TaskStep(t) PROVE todo'[c] = todo[c] \/ Heard(c, link[c])'
    <3>1. CASE t # c
      <4>1. \E e : todo' = [todo EXCEPT ![t] = e]
        BY <2>10 DEF TaskStep, SendError, Fails, Skips, SendStep, CloseStep, SweepStep
      <4> QED BY <1>1, <2>2, <3>1, <4>1 DEF TodoTypes
    <3>2. CASE t = c
      <4>1. CASE SendError(t)
        <5>1. writer[link[c]] = "done"
          BY <2>3, <2>6, <3>2, <4>1 DEF SendError
        <5>2. writer'[link'[c]] = "done"
          BY <2>1, <5>1 DEF Grows, Conns
        <5> QED BY <5>2 DEF Heard
      <4>2. CASE SendStep(t)
        <5>1. <<"inbound", c, link'[c]>> \in told'
          BY <2>1, <2>3, <2>4, <2>6, <3>2, <4>2 DEF SendStep
        <5> QED BY <5>1 DEF Heard
      <4> QED BY <2>3, <2>4, <2>10, <3>2, <4>1, <4>2 DEF TaskStep, CloseStep, SweepStep
    <3> QED BY <3>1, <3>2
  <2>11. ASSUME SweepOnce \/ StuckStep \/ RemoveStuck PROVE todo'[c] = todo[c]
    <3>1. \E e : todo' = [todo EXCEPT ![Guillotine] = e]
      BY <2>11 DEF SweepOnce, StuckStep, RemoveStuck
    <3> QED BY <1>1, <2>2, <3>1 DEF TodoTypes
  <2>12. ASSUME NEW x \in Conns, WriterStep(x) \/ WriterEnds(x) \/ PeerGone(x)
         PROVE  todo'[c] = todo[c]
    <3>1. CASE UNCHANGED todo
      BY <3>1
    <3>2. CASE queue[x] # <<>> /\ Dequeue(x) /\ ~ UNCHANGED todo
      <4>1. QueueTypes /\ QueueShape /\ QueueWaits
        BY DEF RelayInv, Types
      <4>2. PICK t \in Tasks : Head(todo[t]).op = "wait" /\ todo' = [todo EXCEPT ![t] = Tail(@)]
        BY <1>1, <3>2, <4>1, DequeueEffect
      <4>3. t # c
        BY <2>3, <2>4, <4>2
      <4> QED BY <1>1, <2>2, <4>2, <4>3 DEF TodoTypes
    <3> QED BY <2>12, <3>1, <3>2 DEF WriterStep, WriterBreaks, WriterEnds, PeerGone
  <2>13. ASSUME NEW d \in CConns, IdleElapses(d) PROVE todo'[c] = todo[c]
    BY <2>13 DEF IdleElapses
  <2>14. UNCHANGED vars => todo'[c] = todo[c]
    BY DEF vars
  <2> QED BY <2>7, <2>8, <2>9, <2>10, <2>11, <2>12, <2>13, <2>14 DEF Next
<1>4. ASSUME NEW c \in CConns, Admit(c), ~ Refuse(c)
      PROVE  InboundDue(c)'
  <2>1. c \in Tasks /\ c \in Conns
    BY DEF Tasks, Conns
  <2>3. PICK m, n : /\ todo' = [todo EXCEPT ![c] = <<m, n>>]
                    /\ m = Send(link[c], "inbound", c, TRUE, c)
    BY <1>4 DEF Admit
  <2>4. todo'[c] = <<m, n>> /\ m.kind = "inbound" /\ m.op = "send"
    BY <1>1, <2>1, <2>3 DEF TodoTypes, Send
  <2>5. todo'[c] # <<>> /\ Head(todo'[c]) = m
    BY <2>4
  <2> QED BY <2>4, <2>5 DEF InboundDue
<1>5. ASSUME NEW c \in CConns, c \in pairs' \/ ClientHolds(c)'
      PROVE  Heard(c, link[c])' \/ InboundDue(c)'
  <2>1. CASE Paired(c) /\ (c \in pairs \/ ClientHolds(c))
    <3>1. Heard(c, link[c]) \/ InboundDue(c)
      BY <1>1, <2>1 DEF PairsHeard
    <3> QED BY <1>2, <1>3, <2>1, <3>1
  <2>2. CASE ~ (Paired(c) /\ (c \in pairs \/ ClientHolds(c)))
    <3>1. c \notin pairs /\ ~ ClientHolds(c)
      BY <1>1, <2>2 DEF PairsPaired
    <3>2. CASE Admit(c) /\ ~ Refuse(c)
      BY <1>4, <3>2
    <3>3. CASE SendError(c) /\ Head(todo[c]).kind = "data"
      <4>1. c \in Tasks /\ todo[c] # <<>>
        BY <3>3 DEF SendError, Tasks, Conns
      <4>2. PICK h : h = Head(todo[c])
        OBVIOUS
      <4>3. ItemOK(c, h)
        BY <4>1, <4>2, HeadItem
      <4>4. Paired(c) /\ h.to = link[c]
        BY <3>3, <4>2, <4>3 DEF ItemOK, ItemOwner, ItemPair, RelayAssumption, Tasks, Conns
      <4>5. writer[link[c]] = "done"
        BY <3>3, <4>2, <4>4 DEF SendError
      <4>6. link'[c] = link[c] /\ link[c] \in SConns
        BY <1>1, <4>4, PairedStays
      <4>7. writer'[link'[c]] = "done"
        BY <4>5, <4>6 DEF Grows, Conns
      <4> QED BY <4>7 DEF Heard
    <3>4. CASE c \in pairs'
      <4>1. Admit(c) /\ pairs' # pairs
        BY <3>1, <3>4, PairSteps
      <4> QED BY <3>2, <4>1 DEF Refuse
    <3> QED BY <1>1, <1>5, <3>1, <3>2, <3>3, <3>4, HoldsSteps
  <2> QED BY <2>1, <2>2
<1>6. ASSUME NEW c \in stale' PROVE Heard(c, link[c])'
  <2>1. CASE c \in stale
    BY <1>1, <1>2, <2>1 DEF PairsHeard, PairsPaired, PairTypes
  <2>2. CASE c \notin stale
    <3>1. c \in pairs /\ IdleElapses(c)
      BY <1>6, <2>2, PairSteps
    <3>2. c \in CConns /\ Paired(c)
      BY <1>1, <3>1 DEF PairTypes, PairsPaired
    <3>3. ~ InboundDue(c)
      <4> SUFFICES ASSUME InboundDue(c) PROVE FALSE
        OBVIOUS
      <4>1. c \in Tasks
        BY <3>2 DEF Tasks, Conns
      <4>2. Head(todo[c]) = todo[c][1] /\ 1 \in DOMAIN todo[c]
        BY <1>1, <4>1 DEF TodoTypes, InboundDue
      <4> QED BY <3>1, <4>2 DEF IdleElapses, InboundDue
    <3> QED BY <1>1, <1>2, <3>1, <3>2, <3>3 DEF PairsHeard
  <2> QED BY <2>1, <2>2
<1> QED BY <1>5, <1>6 DEF PairsHeard

-----------------------------------------------------------------------------
(* Both ends hear of the end of a pair *)

\* A pair somebody holds after a step is one the step made, or one somebody
\* held before it.
LEMMA HeldSteps ==
  ASSUME RelayAssumption, RelayInv, TodoOK, [Next]_vars, NEW c \in CConns, Held(c)'
  PROVE  c \in pairs' \/ Held(c)
<1>1. StateTypes /\ None \notin CConns
  BY DEF RelayInv, Types, RelayAssumption, Tasks, Conns
<1>2. ASSUME ClientHolds(c)', ~ ClientHolds(c) PROVE c \in pairs' \/ Held(c)
  <2>1. CASE Admit(c) /\ pc'[c] = "reading" /\ ~ Refuse(c)
    BY <2>1 DEF Admit
  <2>2. CASE SendError(c) /\ Head(todo[c]).kind = "data"
    <3>1. c \in Tasks /\ todo[c] # <<>>
      BY <2>2 DEF SendError, Tasks, Conns
    <3>2. PICK h \in Range(todo[c]) : h = Head(todo[c])
      BY <3>1, HeadItem
    <3>3. ItemOK(c, h)
      BY <3>1, <3>2, HeadItem
    <3>4. h.arc = c
      BY <2>2, <3>2, <3>3 DEF ItemOK, ItemShape, ItemOwner
    <3>5. Held(h.arc)
      BY <3>1, ArcHeld
    <3> QED BY <3>4, <3>5
  <2> QED BY <1>1, <1>2, <2>1, <2>2, HoldsSteps
<1>3. ASSUME ClientHolds(c) PROVE Held(c)
  BY <1>3 DEF Held
<1>4. ASSUME NEW t \in Tasks, NEW m \in Range(todo'[t]), m.arc = c
      PROVE  c \in pairs' \/ Held(c)
  <2>1. CarriedIn(t, todo[t], todo'[t])
    BY DEF TodoOK
  <2>2. CASE m \in Range(todo[t])
    BY <1>4, <2>2, ArcHeld
  <2>3. CASE m \notin Range(todo[t])
    BY <1>1, <1>4, <2>1, <2>3 DEF CarriedIn
  <2> QED BY <2>2, <2>3
<1>5. \/ c \in pairs'
      \/ ClientHolds(c)'
      \/ \E t \in Tasks : \E m \in Range(todo'[t]) : m.arc = c
  BY DEF Held, Range
<1> QED BY <1>2, <1>3, <1>4, <1>5

\* A pair leaves the manager in close_pair, which has its two messages still to
\* send, or at the end of the guillotine's close_stuck, which has sent them.
LEMMA RemovedNotified ==
  ASSUME RelayAssumption, RelayInv, Grows, TodoOK, [Next]_vars,
         NEW c \in CConns, c \in pairs, c \notin pairs'
  PROVE  Notified(c)'
<1>1. StateTypes
  BY DEF RelayInv, Types
<1>2. CASE \E t \in Tasks : CloseStep(t) /\ pairs' = pairs \ {Head(todo[t]).p}
  <2>1. PICK t \in Tasks : CloseStep(t) /\ pairs' = pairs \ {Head(todo[t]).p}
    BY <1>2
  <2>2. c = Head(todo[t]).p
    BY <2>1
  <2> QED BY <2>1, <2>2, CloseStepTodo
<1>3. CASE RemoveStuck /\ pairs' = pairs \ {Head(todo[Guillotine]).p}
  <2>1. PICK g \in Tasks : g = Guillotine
    BY DEF Tasks
  <2>2. PICK h : h = Head(todo[g])
    OBVIOUS
  <2>3. c = h.p /\ h.op = "remove" /\ todo[g] # <<>>
    BY <1>3, <2>1, <2>2 DEF RemoveStuck
  <2>4. ItemOK(g, h)
    BY <2>2, <2>3, HeadItem
  <2>5. Notified(c) /\ Paired(c)
    BY <2>3, <2>4 DEF ItemOK, ItemRemove, ItemPair, RelayAssumption, Tasks, Conns
  <2> QED BY <1>1, <2>5, NotifiedStays
<1> QED BY <1>2, <1>3, PairSteps

LEMMA ClosedNext ==
  ASSUME RelayAssumption, RelayInv, Grows, TodoOK, [Next]_vars
  PROVE  ClosedPairNotifiesBoth'
<1>1. StateTypes /\ FreshIdle /\ PairsPaired /\ ItemsOK /\ ClosedPairNotifiesBoth
  BY DEF RelayInv, Types
<1>2. ASSUME NEW c \in CConns, c \notin pairs', Held(c)' PROVE Notified(c)'
  <2>1. CASE c \in pairs
    BY <1>2, <2>1, RemovedNotified
  <2>2. CASE c \notin pairs
    <3>1. Held(c)
      BY <1>2, HeldSteps
    <3>2. Paired(c)
      <4>1. CASE ClientHolds(c)
        BY <1>1, <4>1 DEF PairsPaired
      <4>2. CASE \E t \in Tasks : \E m \in Range(todo[t]) : m.arc = c
        <5>1. PICK t \in Tasks : \E m \in Range(todo[t]) : m.arc = c
          BY <4>2
        <5>2. PICK m \in Range(todo[t]) : m.arc = c
          BY <5>1
        <5>3. ItemShape(m) /\ ItemPair(m)
          BY <1>1 DEF ItemsOK, ItemOK
        <5>4. m.p = c /\ c # None
          BY <5>2, <5>3 DEF ItemShape, RelayAssumption, Tasks, Conns
        <5> QED BY <5>3, <5>4 DEF ItemPair
      <4> QED BY <2>2, <3>1, <4>1, <4>2 DEF Held, Range
    <3>3. Notified(c)
      BY <1>1, <2>2, <3>1, <3>2 DEF ClosedPairNotifiesBoth, Notified, Paired, Fresh
    <3> QED BY <1>1, <3>2, <3>3, NotifiedStays
  <2> QED BY <2>1, <2>2
<1> QED BY <1>2 DEF ClosedPairNotifiesBoth, Notified

-----------------------------------------------------------------------------
(* The invariant *)

LEMMA RelayInvInit ==
  ASSUME RelayAssumption, Init
  PROVE  RelayInv
<1>1. Types
  <2>1. StateTypes
    BY DEF Init, StateTypes, States
  <2>2. IsFiniteSet({})
    BY FS_EmptySet
  <2>3. PairTypes
    BY <2>2 DEF Init, PairTypes
  <2>4. TodoTypes /\ QueueTypes
    BY DEF Init, TodoTypes, QueueTypes
  <2> QED BY <2>1, <2>3, <2>4 DEF Types
<1>2. /\ \A t \in Tasks : todo[t] = <<>> /\ Range(todo[t]) = {}
      /\ \A x \in Conns : queue[x] = <<>> /\ Range(queue[x]) = {} /\ DOMAIN queue[x] = {}
  BY RangeTuples DEF Init
<1>3. RegistrationLive
  BY DEF Init, RegistrationLive, ServerTickets, Conns
<1>4. FreshIdle /\ ItemsOK
  BY <1>2 DEF FreshIdle, ItemsOK, Tasks
<1>5. ShapesOK
  BY <1>2 DEF ShapesOK, ShapeOK
<1>6. LinkLive
  BY DEF Init, LinkLive, Conns
<1>7. PairsPaired
  BY DEF Init, PairsPaired, ClientHolds, Conns
<1>8. QueueShape /\ QueueWaits /\ QueueHeard
  BY <1>2 DEF QueueShape, QueueWaits, QueueHeard, Conns
<1>9. PairsHeard
  BY DEF Init, PairsHeard, ClientHolds, Conns
<1>10. ClosedPairNotifiesBoth
  BY DEF Init, ClosedPairNotifiesBoth, Conns
<1> QED BY <1>1, <1>3, <1>4, <1>5, <1>6, <1>7, <1>8, <1>9, <1>10 DEF RelayInv

LEMMA RelayInvNext ==
  ASSUME RelayAssumption, RelayInv, [Next]_vars
  PROVE  RelayInv'
<1>1. StateTypes /\ PairTypes /\ TodoTypes /\ RegistrationLive /\ FreshIdle /\ LinkLive
  BY DEF RelayInv, Types
<1>2. Grows
  BY <1>1, GrowsNext
<1>3. TodoOK
  BY <1>2, TodoNext
<1>4. StateTypes' /\ PairTypes' /\ TodoTypes' /\ ShapesOK'
  BY <1>1, <1>3, StateTypesNext, PairTypesNext DEF TodoOK
<1>5. ItemsOK'
  BY <1>2, <1>3, ItemsNext
<1>6. QueueTypes' /\ QueueShape' /\ QueueWaits' /\ QueueHeard'
  BY <1>2, QueueNext DEF QueueInv
<1>7. RegistrationLive'
  BY <1>1, RegistrationNext
<1>8. FreshIdle' /\ LinkLive'
  BY <1>1, <1>2, FreshIdleNext, LinkLiveNext DEF RelayInv, Types
<1>9. PairsPaired'
  BY <1>2, PairsPairedNext
<1>10. PairsHeard'
  BY <1>2, <1>9, PairsHeardNext
<1>11. ClosedPairNotifiesBoth'
  BY <1>2, <1>3, ClosedNext
<1> QED BY <1>4, <1>5, <1>6, <1>7, <1>8, <1>9, <1>10, <1>11 DEF RelayInv, Types

LEMMA RelayInvariant == Spec => []RelayInv
<1>1. Init => RelayInv
  BY RelayAssumption, RelayInvInit
<1>2. RelayInv /\ [Next]_vars => RelayInv'
  BY RelayAssumption, RelayInvNext
<1> QED BY <1>1, <1>2, PTL DEF Spec

-----------------------------------------------------------------------------
(* Theorems *)

\* ServerRegistry::insert and the drop of Registration: for any number of
\* sockets, an identity in the registry belongs to one running task that will
\* take it out, and every server task that holds a ticket is the one clients
\* of its identity are sent to.
THEOREM RegistrationsLive == Spec => []RegistrationLive
<1>1. RelayInv => RegistrationLive
  BY DEF RelayInv
<1> QED BY <1>1, RelayInvariant, PTL

\* close_pair, the sweep of run_server_side and the guillotine's close_stuck,
\* in any interleaving and with channels of any capacity: while somebody still
\* holds a pair that left the manager, both its ends have been sent PairClose,
\* or a task is still to send it, or the writer they would get it from is gone.
THEOREM ClosedPairsNotified == Spec => []ClosedPairNotifiesBoth
<1>1. RelayInv => ClosedPairNotifiesBoth
  BY DEF RelayInv
<1> QED BY <1>1, RelayInvariant, PTL

\* run_client_side: PairInbound is in the daemon's channel before any data
\* frame or PairClose of that pair, whichever task puts those there, as long as
\* server_read_loop reads from the daemon.
THEOREM InboundGoesFirst == Spec => []InboundFirst
<1>1. RelayInv => InboundFirst
  <2> SUFFICES ASSUME RelayInv, NEW s \in SConns, pc[s] = "reading",
                      NEW i \in DOMAIN queue[s], queue[s][i].kind \in {"data", "pairclose"}
               PROVE  <<"inbound", queue[s][i].p, s>> \in told
    BY DEF InboundFirst
  <2>1. QueueShape /\ QueueHeard
    BY DEF RelayInv
  <2>2. PICK m \in Range(queue[s]) : m = queue[s][i]
    BY DEF Range
  <2>3. Heard(m.p, s)
    BY <2>1, <2>2 DEF QueueHeard
  <2>4. writer[s] # "done"
    <3>1. queue[s] # <<>>
      OBVIOUS
    <3> QED BY <2>1, <3>1 DEF QueueShape, Conns
  <2> QED BY <2>2, <2>3, <2>4 DEF Heard
<1> QED BY <1>1, RelayInvariant, PTL

\* What the peers have done, and the messages that were told, keep their types.
OtherTypes ==
  /\ sock \in [Conns -> {"open", "gone", "ended"}]
  /\ stimuli \in 0..MaxStimuli
  /\ told \in SUBSET ({"inbound", "pairclose"} \X CConns \X Conns)

LEMMA OtherTypesNext ==
  ASSUME RelayAssumption, RelayInv, OtherTypes, [Next]_vars
  PROVE  OtherTypes'
<1> USE DEF OtherTypes
<1>1. ASSUME NEW s \in SConns, ServerNext(s) PROVE OtherTypes'
  <2>1. UNCHANGED told /\ (UNCHANGED sock \/ sock' = [sock EXCEPT ![s] = "ended"])
    BY <1>1 DEF ServerNext, Register, Refuse, ServerEnds, ServerFails, ServerBreaksProtocol,
      ServerUnregisters,
       ServerReturns, ServerData, ServerPairClose
  <2>2. UNCHANGED stimuli \/ Stimulus
    BY <1>1 DEF ServerNext, Register, Refuse, ServerEnds, ServerFails, ServerBreaksProtocol,
      ServerUnregisters,
       ServerReturns, ServerData, ServerPairClose
  <2> QED BY <2>1, <2>2 DEF Stimulus, RelayAssumption, Conns
<1>2. ASSUME NEW c \in CConns, ClientNext(c) \/ IdleElapses(c) PROVE OtherTypes'
  <2>1. UNCHANGED told /\ (UNCHANGED sock \/ sock' = [sock EXCEPT ![c] = "ended"])
    BY <1>2 DEF ClientNext, Lookup, Admit, Refuse, ClientData, ClientPairClose,
      ClientBreaksProtocol, ClientEnds,
       ClientReturns, IdleElapses
  <2>2. UNCHANGED stimuli \/ Stimulus
    BY <1>2 DEF ClientNext, Lookup, Admit, Refuse, ClientData, ClientPairClose,
      ClientBreaksProtocol, ClientEnds,
       ClientReturns, IdleElapses
  <2> QED BY <2>1, <2>2 DEF Stimulus, RelayAssumption, Conns
<1>3. ASSUME NEW t \in Tasks, SendStep(t) PROVE OtherTypes'
  <2>1. PICK h : h = Head(todo[t])
    OBVIOUS
  <2>2. ItemOK(t, h) /\ h.op = "send"
    BY <1>3, <2>1, HeadItem DEF SendStep
  <2>3. h.to \in Conns /\ (h.kind \in {"inbound", "pairclose"} => h.p \in CConns)
    BY <2>2 DEF ItemOK, ItemShape
  <2>4. told' = told \/ (h.kind \in {"inbound", "pairclose"} /\ told' = told \cup {<<h.kind, h.p, h.to>>})
    BY <1>3, <2>1 DEF SendStep
  <2>5. UNCHANGED <<sock, stimuli>>
    BY <1>3 DEF SendStep
  <2> QED BY <2>3, <2>4, <2>5
<1>4. ASSUME NEW t \in Tasks, TaskStep(t), ~ SendStep(t) PROVE OtherTypes'
  BY <1>4 DEF TaskStep, SendError, Fails, Skips, CloseStep, SweepStep
<1>5. CASE SweepOnce \/ StuckStep \/ RemoveStuck
  BY <1>5 DEF SweepOnce, StuckStep, RemoveStuck
<1>6. ASSUME NEW x \in Conns, WriterStep(x) \/ WriterEnds(x) \/ PeerGone(x) PROVE OtherTypes'
  BY <1>6 DEF WriterStep, WriterBreaks, Dequeue, WriterEnds, PeerGone, Stimulus, RelayAssumption
<1>7. CASE UNCHANGED vars
  BY <1>7 DEF vars
<1> QED BY <1>1, <1>2, <1>3, <1>4, <1>5, <1>6, <1>7 DEF Next

\* The variables of the relay keep their types; in particular exactly the
\* messages beyond SOCKET_QUEUE_CAPACITY belong to a task that waits for room.
THEOREM TypesOK == Spec => []TypeOK
<1>1. Init => OtherTypes
  BY RelayAssumption DEF Init, OtherTypes, RelayAssumption
<1>2. RelayInv /\ OtherTypes /\ [Next]_vars => OtherTypes'
  BY RelayAssumption, OtherTypesNext
<1>3. RelayInv /\ OtherTypes => TypeOK
  <2> SUFFICES ASSUME RelayInv, OtherTypes PROVE TypeOK
    OBVIOUS
  <2>1. StateTypes /\ PairTypes /\ TodoTypes /\ QueueTypes /\ QueueShape /\ LinkLive /\ PairsPaired
    BY DEF RelayInv, Types
  <2>2. ASSUME NEW x \in Conns, NEW i \in DOMAIN queue[x]
        PROVE  queue[x][i].from \in Tasks \cup {None} /\ (queue[x][i].from = None <=> i <= QueueCap)
    <3>1. queue[x] \in Seq(Msgs)
      BY <2>1 DEF QueueTypes
    <3>2. queue[x][i] \in Msgs
      BY <3>1
    <3>3. queue[x][i].from \in Tasks \cup {None}
      BY <3>2 DEF Msgs
    <3> QED BY <2>1, <3>3 DEF QueueShape
  <2>3. ASSUME NEW c \in CConns, pc[c] \in {"found", "reading", "closing"} PROVE link[c] # None
    BY <2>1, <2>3 DEF LinkLive, PairsPaired, ClientHolds, Paired
  <2> QED BY <2>1, <2>2, <2>3 DEF TypeOK, StateTypes, States, PairTypes, TodoTypes, OtherTypes
<1> QED BY <1>1, <1>2, <1>3, RelayInvariant, PTL DEF Spec
=============================================================================
