-------------------------- MODULE ClientFlowProofs --------------------------
(***************************************************************************)
(* What the client keeps true of what flows through it: commands on their  *)
(* way down to the daemon (ClientInput) and events on their way up to the  *)
(* frontend (SessionActor).  The two specifications share nothing and each *)
(* theorem is about one of them.                                           *)
(*                                                                         *)
(* Commands.  Every command is in one of five places: sent, pending, in    *)
(* the batch, deferred, in the channel.  The order that CommandsInOrder    *)
(* promises of what is sent holds of the places one behind the other       *)
(* (OnTheWay), because all that left the channel was issued before what is *)
(* in it (ChannelOrder) and what is deferred does not fit the batch that   *)
(* passes it (Gathered).  That no input is stale rests on a terminal       *)
(* becoming active only when all the places are empty (AllTimely).         *)
(*                                                                         *)
(* Events.  connect, close and the end of a session change the receiver    *)
(* and the channel name of the actor together, so they never differ; and   *)
(* an event is tagged with the name when it is taken from the receiver,    *)
(* not when the pump has room for it, so a command handled in between does *)
(* not rename it.                                                          *)
(***************************************************************************)
EXTENDS SessionActor, ClientInput, WellFoundedInduction, TLAPS

-----------------------------------------------------------------------------
(* Numbers and sequences *)

\* The least element of a set of natural numbers.
LEMMA Least ==
  ASSUME NEW T \in SUBSET Nat, T # {}
  PROVE  \E x \in T : \A y \in T : x <= y
<1> DEFINE R == {ss \in Nat \X Nat : ss[1] < ss[2]}
<1>1. IsWellFoundedOn(R, Nat)
  BY NatLessThanWellFounded DEF OpToRel
<1> HIDE DEF R
<1>2. PICK x \in T : \A y \in T : ~ (<<y, x>> \in R)
  BY <1>1, WFMin, Zenon
<1>3. \A y \in T : ~ (y < x)
  BY <1>2 DEF R
<1> QED BY <1>3

LEMMA SeqFacts ==
  ASSUME NEW S, NEW T, S \subseteq T, NEW s \in Seq(S)
  PROVE  s \in Seq(T) /\ \A k \in DOMAIN s : s[k] \in S
OBVIOUS

LEMMA FunctionIsSeq ==
  ASSUME NEW S, NEW k \in Nat, NEW f \in [1..k -> S]
  PROVE  f \in Seq(S) /\ DOMAIN f = 1..k /\ Len(f) = k
OBVIOUS

LEMMA AppendFacts ==
  ASSUME NEW S, NEW s \in Seq(S), NEW x \in S
  PROVE  /\ Append(s, x) \in Seq(S)
         /\ Len(Append(s, x)) = Len(s) + 1
         /\ DOMAIN Append(s, x) = 1..(Len(s) + 1)
         /\ \A k \in DOMAIN s : Append(s, x)[k] = s[k]
         /\ Append(s, x)[Len(s) + 1] = x
OBVIOUS

LEMMA TailFacts ==
  ASSUME NEW S, NEW s \in Seq(S), s # <<>>
  PROVE  /\ Tail(s) \in Seq(S)
         /\ Head(s) \in S
         /\ Head(s) = s[1]
         /\ 1 \in DOMAIN s
         /\ DOMAIN Tail(s) = 1..(Len(s) - 1)
         /\ \A k \in DOMAIN Tail(s) : k + 1 \in DOMAIN s /\ Tail(s)[k] = s[k + 1]
OBVIOUS

LEMMA ConcatFacts ==
  ASSUME NEW S, NEW s \in Seq(S), NEW t \in Seq(S)
  PROVE  /\ s \o t \in Seq(S)
         /\ Len(s \o t) = Len(s) + Len(t)
         /\ DOMAIN (s \o t) = 1..(Len(s) + Len(t))
         /\ \A k \in DOMAIN s : k \in DOMAIN (s \o t) /\ (s \o t)[k] = s[k]
         /\ \A k \in DOMAIN (s \o t) : k \notin DOMAIN s =>
              k - Len(s) \in DOMAIN t /\ (s \o t)[k] = t[k - Len(s)]
OBVIOUS

LEMMA DropFacts ==
  ASSUME NEW S, NEW s \in Seq(S), NEW k \in 1..Len(s)
  PROVE  /\ SubSeq(s, k + 1, Len(s)) \in Seq(S)
         /\ DOMAIN SubSeq(s, k + 1, Len(s)) = 1..(Len(s) - k)
         /\ \A j \in DOMAIN SubSeq(s, k + 1, Len(s)) :
              j + k \in DOMAIN s /\ SubSeq(s, k + 1, Len(s))[j] = s[j + k]
OBVIOUS

-----------------------------------------------------------------------------
(* Commands: the inductive invariant *)

Nums == DOMAIN issued

InputTypes ==
  /\ issued \in Seq([kind : CmdKinds, term : Terminals, gen : Nat])
  /\ chan \in Seq(Nums) /\ batch \in Seq(Nums) /\ deferred \in Seq(Nums) /\ pending \in Seq(Nums)
  /\ active \in Terminals \cup {None} /\ opening \in Seq(Terminals) /\ gen \in Nat
  /\ log \in Seq([num : Nums, gen : Nat])

\* A batch is sent before anything else is read; only a batch defers.
OneAtATime ==
  /\ batch # <<>> => pending = <<>>
  /\ batch = <<>> => deferred = <<>>

\* What is gathered fits together; what is deferred does not fit.
Gathered ==
  /\ \A i, j \in DOMAIN batch : Mergeable(batch[i], batch[j])
  /\ \A j \in DOMAIN deferred : ~ Mergeable(batch[1], deferred[j])

\* m may reach the daemon before n.
Before(m, n) ==
  \/ m < n
  \/ m # n /\ issued[m].term # issued[n].term
  \/ m # n /\ issued[m].kind = "input" /\ issued[n].kind # "input"

Within(q)   == \A i, j \in DOMAIN q : i < j => Before(q[i], q[j])
Ahead(q, r) == \A i \in DOMAIN q, j \in DOMAIN r : Before(q[i], r[j])
Below(q, r) == \A i \in DOMAIN q, j \in DOMAIN r : q[i] < r[j]

\* Every command is on its way in a permitted order: sent, pending or in the
\* batch, deferred, in the channel.
OnTheWay ==
  /\ Within(Sent) /\ Within(pending) /\ Within(batch) /\ Within(deferred)
  /\ Ahead(Sent, pending) /\ Ahead(Sent, batch) /\ Ahead(Sent, deferred) /\ Ahead(batch, deferred)

\* The channel keeps the order of issue, and what left it was issued earlier.
ChannelOrder ==
  /\ \A i, j \in DOMAIN chan : i < j => chan[i] < chan[j]
  /\ Below(Sent, chan) /\ Below(pending, chan) /\ Below(batch, chan) /\ Below(deferred, chan)

\* A command on its way to the active terminal was issued in this attachment.
Timely(q) == \A i \in DOMAIN q : issued[q[i]].term = active => issued[q[i]].gen = gen
AllTimely == Timely(chan) /\ Timely(batch) /\ Timely(deferred) /\ Timely(pending)

InputInv ==
  InputTypes /\ OneAtATime /\ Gathered /\ OnTheWay /\ ChannelOrder /\ AllTimely /\ NoStaleInput

-----------------------------------------------------------------------------
\* The length of what coalesce_pending_input_front merges.
LEMMA FrontFits ==
  ASSUME NEW q, q \in Seq(Nums), q # <<>>
  PROVE  /\ coalesce_pending_input_front(q) \in 1..Len(q)
         /\ \A i \in 2..coalesce_pending_input_front(q) : Mergeable(q[1], q[i])
<1> DEFINE fits(k) == \A i \in 2..k : Mergeable(q[1], q[i])
           T == {k \in Nat : k \in 1..Len(q) /\ (k = Len(q) \/ ~ fits(k + 1))}
<1>1. Len(q) \in Nat /\ Len(q) > 0
  OBVIOUS
<1>2. Len(q) \in T
  BY <1>1
<1>3. PICK k \in T : \A j \in T : k <= j
  <2> HIDE DEF T
  <2>1. T \in SUBSET Nat
    BY DEF T
  <2> QED BY <1>2, <2>1, Least
<1>4. fits(k)
  <2>1. CASE k = 1
    BY <2>1
  <2>2. CASE k > 1
    <3>1. k - 1 \in Nat /\ k - 1 \in 1..Len(q) /\ k - 1 # Len(q) /\ (k - 1) + 1 = k
      BY <1>1, <1>3, <2>2
    <3>2. k - 1 \notin T
      BY <1>3, <3>1
    <3>3. fits((k - 1) + 1)
      <4> HIDE DEF fits
      <4> QED BY <3>1, <3>2
    <3> QED BY <3>1, <3>3
  <2> QED BY <1>3, <2>1, <2>2
<1>5. \E j \in 1..Len(q) : fits(j) /\ (j = Len(q) \/ ~ fits(j + 1))
  <2> HIDE DEF fits
  <2> QED BY <1>3, <1>4
<1>6. coalesce_pending_input_front(q) =
        CHOOSE j \in 1..Len(q) : fits(j) /\ (j = Len(q) \/ ~ fits(j + 1))
  BY DEF coalesce_pending_input_front
<1>7. coalesce_pending_input_front(q) \in 1..Len(q) /\ fits(coalesce_pending_input_front(q))
  <2> HIDE DEF fits
  <2> QED BY <1>5, <1>6, Zenon
<1> QED BY <1>7

-----------------------------------------------------------------------------
(* Issue *)

LEMMA InputInvInit == InputInit => InputInv
<1> SUFFICES ASSUME InputInit PROVE InputInv
  OBVIOUS
<1> USE DEF InputInit
<1>1. InputTypes
  BY DEF InputTypes
<1>2. OneAtATime /\ Gathered /\ AllTimely /\ NoStaleInput
  BY DEF OneAtATime, Gathered, AllTimely, Timely, NoStaleInput
<1>3. OnTheWay /\ ChannelOrder
  BY DEF OnTheWay, ChannelOrder, Within, Ahead, Below, Sent
<1> QED BY <1>1, <1>2, <1>3 DEF InputInv

LEMMA InputInvIssue ==
  ASSUME InputInv, NEW t \in Terminals, NEW kind \in CmdKinds, Issue(t, kind)
  PROVE  InputInv'
<1> DEFINE c == [kind |-> kind, term |-> t, gen |-> IF active = t THEN gen ELSE 0]
           n == Len(issued) + 1
<1>0. InputTypes /\ UNCHANGED <<batch, deferred, pending, active, opening, gen, log, dropped>>
  BY DEF InputInv, Issue
<1>1. c \in [kind : CmdKinds, term : Terminals, gen : Nat]
  BY <1>0 DEF InputTypes
<1>2. issued' = Append(issued, c) /\ chan' = Append(chan, n)
  BY DEF Issue
<1> HIDE DEF c
<1>3. /\ issued' \in Seq([kind : CmdKinds, term : Terminals, gen : Nat])
      /\ DOMAIN issued' = Nums \cup {n} /\ n \notin Nums /\ n \in Nat
      /\ \A m \in Nums : m \in Nat /\ m < n /\ issued'[m] = issued[m]
      /\ issued'[n] = c
  BY <1>0, <1>1, <1>2, AppendFacts DEF InputTypes, Nums
<1>4. Nums' = Nums \cup {n}
  BY <1>3 DEF Nums
<1> HIDE DEF n
<1>5. /\ chan' \in Seq(Nums \cup {n})
      /\ DOMAIN chan' = 1..(Len(chan) + 1)
      /\ \A k \in DOMAIN chan : chan'[k] = chan[k] /\ chan[k] \in Nums
      /\ chan'[Len(chan) + 1] = n
  <2>1. chan \in Seq(Nums \cup {n}) /\ n \in Nums \cup {n} /\ \A k \in DOMAIN chan : chan[k] \in Nums
    BY <1>0 DEF InputTypes
  <2> QED BY <1>2, <2>1, AppendFacts
<1>6. \A k \in DOMAIN chan' : \/ k \in DOMAIN chan /\ k < Len(chan) + 1
                              \/ k = Len(chan) + 1
  <2>1. DOMAIN chan = 1..Len(chan) /\ Len(chan) \in Nat
    BY <1>0 DEF InputTypes
  <2> QED BY <1>5, <2>1
<1>7. InputTypes'
  <2>1. \A q \in Seq(Nums) : q \in Seq(Nums \cup {n})
    OBVIOUS
  <2>2. [num : Nums, gen : Nat] \subseteq [num : Nums \cup {n}, gen : Nat]
    OBVIOUS
  <2>3. batch' \in Seq(Nums') /\ deferred' \in Seq(Nums') /\ pending' \in Seq(Nums')
    BY <1>0, <1>4, <2>1 DEF InputTypes
  <2>4. log' \in Seq([num : Nums', gen : Nat])
    <3>1. log \in Seq([num : Nums, gen : Nat]) /\ log' = log
      BY <1>0 DEF InputTypes
    <3>2. log \in Seq([num : Nums \cup {n}, gen : Nat])
      BY <2>2, <3>1, SeqFacts, Zenon
    <3> QED BY <1>4, <3>1, <3>2
  <2> QED BY <1>0, <1>3, <1>4, <1>5, <2>3, <2>4 DEF InputTypes
<1>8. /\ \A k \in DOMAIN batch : batch[k] \in Nums
      /\ \A k \in DOMAIN deferred : deferred[k] \in Nums
      /\ \A k \in DOMAIN pending : pending[k] \in Nums
      /\ \A k \in DOMAIN log : log[k].num \in Nums
  <2>1. \A q \in Seq(Nums) : \A k \in DOMAIN q : q[k] \in Nums
    OBVIOUS
  <2>2. \A k \in DOMAIN log : log[k] \in [num : Nums, gen : Nat]
    BY <1>0, SeqFacts DEF InputTypes
  <2> QED BY <1>0, <2>1, <2>2 DEF InputTypes
<1>9. \A k \in DOMAIN Sent : Sent[k] \in Nums
  BY <1>8 DEF Sent
<1>10. Sent' = Sent
  BY <1>0 DEF Sent
<1>11. OneAtATime'
  BY <1>0 DEF InputInv, OneAtATime
<1>12. Gathered'
  <2>1. \A m, k \in Nums : Mergeable(m, k)' = Mergeable(m, k)
    BY <1>3 DEF Mergeable
  <2>2. \A j \in DOMAIN deferred : batch[1] \in Nums
    BY <1>0, <1>8 DEF InputInv, OneAtATime, InputTypes
  <2> QED BY <1>0, <1>8, <2>1, <2>2 DEF InputInv, Gathered
<1>13. \A m, k \in Nums : Before(m, k)' = Before(m, k)
  BY <1>3 DEF Before
<1>14. OnTheWay'
  BY <1>0, <1>8, <1>9, <1>10, <1>13 DEF InputInv, OnTheWay, Within, Ahead
<1>15. ChannelOrder'
  <2>1. ASSUME NEW i \in DOMAIN chan', NEW j \in DOMAIN chan', i < j PROVE chan'[i] < chan'[j]
    <3>1. i \in DOMAIN chan
      BY <1>5, <1>6, <2>1
    <3>2. CASE j \in DOMAIN chan
      BY <1>5, <2>1, <3>1, <3>2 DEF InputInv, ChannelOrder
    <3>3. CASE j = Len(chan) + 1
      BY <1>3, <1>5, <3>1, <3>3
    <3> QED BY <1>6, <3>2, <3>3
  <2>2. Below(Sent, chan)'
    BY <1>3, <1>5, <1>6, <1>9, <1>10 DEF InputInv, ChannelOrder, Below
  <2>3. Below(pending, chan)' /\ Below(batch, chan)' /\ Below(deferred, chan)'
    BY <1>0, <1>3, <1>5, <1>6, <1>8 DEF InputInv, ChannelOrder, Below
  <2> QED BY <2>1, <2>2, <2>3 DEF ChannelOrder
<1>16. AllTimely'
  <2>1. Timely(batch)' /\ Timely(deferred)' /\ Timely(pending)'
    BY <1>0, <1>3, <1>8 DEF InputInv, AllTimely, Timely
  <2>2. c.term = active => c.gen = gen
    BY DEF c
  <2>3. Timely(chan)'
    <3> SUFFICES ASSUME NEW k \in DOMAIN chan', issued'[chan'[k]].term = active
                 PROVE  issued'[chan'[k]].gen = gen
      BY <1>0 DEF Timely
    <3>1. CASE k \in DOMAIN chan
      <4>1. issued[chan[k]].term = active => issued[chan[k]].gen = gen
        BY <3>1 DEF InputInv, AllTimely, Timely
      <4>2. issued'[chan'[k]] = issued[chan[k]]
        BY <1>3, <1>5, <3>1
      <4> QED BY <4>1, <4>2
    <3>2. CASE k = Len(chan) + 1
      BY <1>3, <1>5, <2>2, <3>2
    <3> QED BY <1>6, <3>1, <3>2
  <2> QED BY <2>1, <2>3 DEF AllTimely
<1>17. NoStaleInput'
  BY <1>0, <1>3, <1>8 DEF InputInv, NoStaleInput
<1> QED BY <1>7, <1>11, <1>12, <1>14, <1>15, <1>16, <1>17 DEF InputInv

-----------------------------------------------------------------------------
(* The loop *)

\* The steps of the loop move commands and leave what was issued alone.
LEMMA Unissued ==
  ASSUME issued' = issued
  PROVE  /\ Nums' = Nums
         /\ \A m, n : Before(m, n)' = Before(m, n) /\ Mergeable(m, n)' = Mergeable(m, n)
BY DEF Nums, Before, Mergeable

\* What the channel holds, against what left it.
LEMMA HeadOfChannel ==
  ASSUME InputInv, chan # <<>>
  PROVE  /\ Head(chan) \in Nums /\ Tail(chan) \in Seq(Nums)
         /\ Timely(<<Head(chan)>>) /\ Timely(Tail(chan))
         /\ \A i, j \in DOMAIN Tail(chan) : i < j => Tail(chan)[i] < Tail(chan)[j]
         /\ \A j \in DOMAIN Tail(chan) : Head(chan) < Tail(chan)[j]
         /\ \A q : Below(q, chan) =>
              Below(q, Tail(chan)) /\ \A i \in DOMAIN q : q[i] < Head(chan)
<1>1. chan \in Seq(Nums)
  BY DEF InputInv, InputTypes
<1>2. /\ Tail(chan) \in Seq(Nums) /\ Head(chan) \in Nums /\ Head(chan) = chan[1]
      /\ 1 \in DOMAIN chan /\ DOMAIN Tail(chan) = 1..(Len(chan) - 1)
      /\ \A k \in DOMAIN Tail(chan) : k + 1 \in DOMAIN chan /\ Tail(chan)[k] = chan[k + 1]
  BY <1>1, TailFacts
<1>3. \A k \in DOMAIN Tail(chan) : k \in Nat /\ 1 < k + 1
  BY <1>1, <1>2
<1>4. \A i, j \in DOMAIN chan : i < j => chan[i] < chan[j]
  BY DEF InputInv, ChannelOrder
<1>5. \A i, j \in DOMAIN Tail(chan) : i < j => Tail(chan)[i] < Tail(chan)[j]
  <2> SUFFICES ASSUME NEW i \in DOMAIN Tail(chan), NEW j \in DOMAIN Tail(chan), i < j
               PROVE  Tail(chan)[i] < Tail(chan)[j]
    OBVIOUS
  <2>1. i + 1 < j + 1
    BY <1>3
  <2> QED BY <1>2, <1>4, <2>1
<1>6. \A j \in DOMAIN Tail(chan) : Head(chan) < Tail(chan)[j]
  BY <1>2, <1>3, <1>4
<1>7. \A q : Below(q, chan) => Below(q, Tail(chan)) /\ \A i \in DOMAIN q : q[i] < Head(chan)
  BY <1>2 DEF Below
<1>8. Timely(<<Head(chan)>>) /\ Timely(Tail(chan))
  <2>1. Timely(chan)
    BY DEF InputInv, AllTimely
  <2>2. DOMAIN <<Head(chan)>> = {1} /\ <<Head(chan)>>[1] = Head(chan)
    OBVIOUS
  <2> QED BY <1>2, <2>1, <2>2 DEF Timely
<1> QED BY <1>2, <1>5, <1>6, <1>7, <1>8

\* A command leaves the channel for an empty batch or an empty pending_cmds.
LEMMA InputInvTake ==
  ASSUME InputInv, TakeCommand
  PROVE  InputInv'
<1> DEFINE h == Head(chan)
<1>1. /\ batch = <<>> /\ pending = <<>> /\ deferred = <<>> /\ chan # <<>>
      /\ chan' = Tail(chan)
      /\ UNCHANGED <<issued, deferred, active, opening, gen, log, dropped>>
  BY DEF TakeCommand, Free, InputInv, OneAtATime
<1>2. \/ batch' = <<h>> /\ pending' = pending /\ issued[h].kind = "input"
      \/ pending' = <<h>> /\ batch' = batch
  BY DEF TakeCommand
<1>3. Nums' = Nums /\ Sent' = Sent
      /\ \A m, n : Before(m, n)' = Before(m, n) /\ Mergeable(m, n)' = Mergeable(m, n)
  BY <1>1, Unissued DEF Sent
<1>4. /\ h \in Nums /\ Tail(chan) \in Seq(Nums)
      /\ Timely(<<h>>) /\ Timely(Tail(chan))
      /\ \A i, j \in DOMAIN Tail(chan) : i < j => Tail(chan)[i] < Tail(chan)[j]
      /\ \A j \in DOMAIN Tail(chan) : h < Tail(chan)[j]
      /\ Below(Sent, Tail(chan)) /\ \A i \in DOMAIN Sent : Sent[i] < h
  BY <1>1, HeadOfChannel DEF InputInv, ChannelOrder
<1>5. InputTypes
  BY DEF InputInv
<1> HIDE DEF h
<1>6. <<h>> \in Seq(Nums) /\ DOMAIN <<h>> = {1} /\ <<h>>[1] = h /\ <<h>> # <<>>
  BY <1>4
<1>7. DOMAIN <<>> = {}
  OBVIOUS
<1>8. InputTypes'
  BY <1>1, <1>2, <1>3, <1>4, <1>5, <1>6 DEF InputTypes
<1>9. OneAtATime'
  BY <1>1, <1>2, <1>6 DEF OneAtATime
<1>10. Gathered'
  BY <1>1, <1>2, <1>6, <1>7 DEF Gathered, Mergeable
<1>11. OnTheWay'
  <2>1. Within(Sent)'
    BY <1>1, <1>3 DEF InputInv, OnTheWay, Within, Before
  <2>2. Within(batch)' /\ Within(pending)' /\ Within(deferred)'
    BY <1>1, <1>2, <1>6, <1>7 DEF Within
  <2>3. Ahead(Sent, batch)' /\ Ahead(Sent, pending)'
    BY <1>1, <1>2, <1>3, <1>4, <1>6, <1>7 DEF Ahead, Before
  <2>4. Ahead(Sent, deferred)' /\ Ahead(batch, deferred)'
    BY <1>1, <1>7 DEF Ahead
  <2> QED BY <2>1, <2>2, <2>3, <2>4 DEF OnTheWay
<1>12. ChannelOrder'
  <2>1. Below(Sent, chan)'
    BY <1>1, <1>3, <1>4 DEF Below
  <2>2. Below(batch, chan)' /\ Below(pending, chan)' /\ Below(deferred, chan)'
    BY <1>1, <1>2, <1>4, <1>6, <1>7 DEF Below
  <2> QED BY <1>1, <1>4, <2>1, <2>2 DEF ChannelOrder
<1>13. AllTimely'
  BY <1>1, <1>2, <1>4, <1>7 DEF AllTimely, Timely
<1>14. NoStaleInput'
  BY <1>1 DEF InputInv, NoStaleInput
<1> QED BY <1>8, <1>9, <1>10, <1>11, <1>12, <1>13, <1>14 DEF InputInv

\* Within the window a command joins the batch or waits behind it.
LEMMA InputInvGather ==
  ASSUME InputInv, Gather
  PROVE  InputInv'
<1> DEFINE h == Head(chan)
<1>1. /\ batch # <<>> /\ pending = <<>> /\ chan # <<>>
      /\ chan' = Tail(chan)
      /\ UNCHANGED <<issued, pending, active, opening, gen, log, dropped>>
  BY DEF Gather, InputInv, OneAtATime
<1>2. \/ Mergeable(batch[1], h) /\ batch' = Append(batch, h) /\ deferred' = deferred
      \/ ~ Mergeable(batch[1], h) /\ deferred' = Append(deferred, h) /\ batch' = batch
  BY DEF Gather
<1>3. Nums' = Nums /\ Sent' = Sent
  BY <1>1, Unissued DEF Sent
<1>4. /\ h \in Nums /\ Tail(chan) \in Seq(Nums)
      /\ Timely(<<h>>) /\ Timely(Tail(chan))
      /\ \A i, j \in DOMAIN Tail(chan) : i < j => Tail(chan)[i] < Tail(chan)[j]
      /\ \A j \in DOMAIN Tail(chan) : h < Tail(chan)[j]
      /\ \A q : Below(q, chan) => Below(q, Tail(chan)) /\ \A i \in DOMAIN q : q[i] < h
  BY <1>1, HeadOfChannel
<1>5. /\ Below(Sent, Tail(chan)) /\ \A i \in DOMAIN Sent : Sent[i] < h
      /\ Below(batch, Tail(chan)) /\ \A i \in DOMAIN batch : batch[i] < h
      /\ Below(deferred, Tail(chan)) /\ \A i \in DOMAIN deferred : deferred[i] < h
      /\ Below(pending, Tail(chan))
  BY <1>4 DEF InputInv, ChannelOrder
<1>6. InputTypes /\ Gathered /\ OnTheWay
  BY DEF InputInv
<1> HIDE DEF h
<1>7. issued[h].term = active => issued[h].gen = gen
  <2>1. 1 \in DOMAIN <<h>> /\ <<h>>[1] = h
    OBVIOUS
  <2> QED BY <1>4, <2>1 DEF Timely
<1>8. \A q \in Seq(Nums) :
        /\ Append(q, h) \in Seq(Nums) /\ Append(q, h) # <<>>
        /\ \A k \in DOMAIN q : k < Len(q) + 1 /\ Append(q, h)[k] = q[k]
        /\ Append(q, h)[Len(q) + 1] = h
        /\ \A k \in DOMAIN Append(q, h) : k \in DOMAIN q \/ k = Len(q) + 1
  <2> TAKE q \in Seq(Nums)
  <2>1. DOMAIN q = 1..Len(q) /\ Len(q) \in Nat
    OBVIOUS
  <2> QED BY <1>4, <2>1, AppendFacts
<1>9. InputTypes'
  BY <1>1, <1>2, <1>3, <1>4, <1>6, <1>8 DEF InputTypes
<1>10. batch \in Seq(Nums) /\ deferred \in Seq(Nums) /\ 1 \in DOMAIN batch
  BY <1>1, <1>6, TailFacts DEF InputTypes
<1>u. UNCHANGED issued
  BY <1>1
<1>11. CASE Mergeable(batch[1], h) /\ batch' = Append(batch, h) /\ deferred' = deferred
  <2>1. /\ batch' # <<>>
        /\ \A k \in DOMAIN batch : k < Len(batch) + 1 /\ batch'[k] = batch[k]
        /\ batch'[Len(batch) + 1] = h
        /\ \A k \in DOMAIN batch' : k \in DOMAIN batch \/ k = Len(batch) + 1
    BY <1>8, <1>10, <1>11
  <2>2. \A k \in DOMAIN batch' : batch'[k] = h \/ (k \in DOMAIN batch /\ batch'[k] = batch[k])
    BY <2>1
  <2>3. \A k \in DOMAIN batch : issued[batch[k]].kind = "input"
                                /\ issued[batch[k]].term = issued[batch[1]].term
    BY <1>6, <1>10 DEF Gathered, Mergeable
  <2>4. issued[h].kind = "input" /\ issued[h].term = issued[batch[1]].term
    BY <1>11 DEF Mergeable
  <2>5. Gathered'
    BY <1>u, <1>6, <1>10, <1>11, <2>1, <2>2, <2>3, <2>4 DEF Gathered, Mergeable
  <2>6. \A j \in DOMAIN deferred : Before(h, deferred[j])
    <3> TAKE j \in DOMAIN deferred
    <3>1. ~ Mergeable(batch[1], deferred[j]) /\ deferred[j] < h /\ deferred[j] \in Nat /\ h \in Nat
      <4>1. \A n \in Nums : n \in Nat
        BY <1>6 DEF InputTypes, Nums
      <4>2. deferred[j] \in Nums
        BY <1>10
      <4> QED BY <1>4, <1>5, <1>6, <4>1, <4>2 DEF Gathered
    <3> QED BY <2>3, <2>4, <3>1, <1>10 DEF Mergeable, Before
  <2>7. Within(batch)'
    <3> SUFFICES ASSUME NEW i \in DOMAIN batch', NEW j \in DOMAIN batch', i < j
                 PROVE  Before(batch'[i], batch'[j])
      BY <1>u DEF Within, Before
    <3>1. CASE j \in DOMAIN batch /\ i \in DOMAIN batch
      BY <1>6, <2>1, <3>1 DEF OnTheWay, Within
    <3>2. CASE j = Len(batch) + 1 /\ i \in DOMAIN batch
      BY <1>5, <2>1, <3>2 DEF Before
    <3>3. i \in DOMAIN batch
      <4>1. \A k \in DOMAIN batch : k \in Nat
        BY <1>10
      <4>2. Len(batch) \in Nat
        BY <1>10
      <4> QED BY <2>1, <4>1, <4>2
    <3> QED BY <2>1, <3>1, <3>2, <3>3
  <2>8. Ahead(batch, deferred)'
    BY <1>u, <1>6, <1>11, <2>2, <2>6 DEF OnTheWay, Ahead, Before
  <2>9. Ahead(Sent, batch)'
    BY <1>u, <1>3, <1>5, <1>6, <2>2 DEF OnTheWay, Ahead, Before
  <2>10. OnTheWay'
    BY <1>1, <1>3, <1>6, <1>11, <2>7, <2>8, <2>9 DEF OnTheWay, Within, Ahead, Before
  <2>11. ChannelOrder'
    BY <1>1, <1>3, <1>4, <1>5, <1>11, <2>2 DEF ChannelOrder, Below
  <2>12. AllTimely'
    BY <1>1, <1>4, <1>7, <1>11, <2>2 DEF InputInv, AllTimely, Timely
  <2>13. OneAtATime'
    BY <1>1, <2>1 DEF OneAtATime
  <2>14. NoStaleInput'
    BY <1>1 DEF InputInv, NoStaleInput
  <2> QED BY <1>9, <2>5, <2>10, <2>11, <2>12, <2>13, <2>14 DEF InputInv
<1>12. CASE ~ Mergeable(batch[1], h) /\ deferred' = Append(deferred, h) /\ batch' = batch
  <2>1. /\ \A k \in DOMAIN deferred : k < Len(deferred) + 1 /\ deferred'[k] = deferred[k]
        /\ deferred'[Len(deferred) + 1] = h
        /\ \A k \in DOMAIN deferred' : k \in DOMAIN deferred \/ k = Len(deferred) + 1
    BY <1>8, <1>10, <1>12
  <2>2. \A k \in DOMAIN deferred' :
          deferred'[k] = h \/ (k \in DOMAIN deferred /\ deferred'[k] = deferred[k])
    BY <2>1
  <2>3. Gathered'
    BY <1>u, <1>6, <1>12, <2>2 DEF Gathered, Mergeable
  <2>4. Within(deferred)'
    <3> SUFFICES ASSUME NEW i \in DOMAIN deferred', NEW j \in DOMAIN deferred', i < j
                 PROVE  Before(deferred'[i], deferred'[j])
      BY <1>u DEF Within, Before
    <3>1. CASE j \in DOMAIN deferred /\ i \in DOMAIN deferred
      BY <1>6, <2>1, <3>1 DEF OnTheWay, Within
    <3>2. CASE j = Len(deferred) + 1 /\ i \in DOMAIN deferred
      BY <1>5, <2>1, <3>2 DEF Before
    <3>3. i \in DOMAIN deferred
      <4>1. \A k \in DOMAIN deferred : k \in Nat
        BY <1>10
      <4>2. Len(deferred) \in Nat
        BY <1>10
      <4> QED BY <2>1, <4>1, <4>2
    <3> QED BY <2>1, <3>1, <3>2, <3>3
  <2>5. Ahead(batch, deferred)' /\ Ahead(Sent, deferred)'
    BY <1>u, <1>3, <1>5, <1>6, <1>12, <2>2 DEF OnTheWay, Ahead, Before
  <2>6. OnTheWay'
    BY <1>1, <1>3, <1>6, <1>12, <2>4, <2>5 DEF OnTheWay, Within, Ahead, Before
  <2>7. ChannelOrder'
    BY <1>1, <1>3, <1>4, <1>5, <1>12, <2>2 DEF ChannelOrder, Below
  <2>8. AllTimely'
    BY <1>1, <1>4, <1>7, <1>12, <2>2 DEF InputInv, AllTimely, Timely
  <2>9. OneAtATime'
    BY <1>1, <1>12 DEF OneAtATime
  <2>10. NoStaleInput'
    BY <1>1 DEF InputInv, NoStaleInput
  <2> QED BY <1>9, <2>3, <2>6, <2>7, <2>8, <2>9, <2>10 DEF InputInv
<1> QED BY <1>2, <1>11, <1>12

\* The window closes: the batch, and behind it what was deferred.
LEMMA InputInvWindow ==
  ASSUME InputInv, WindowCloses
  PROVE  InputInv'
<1>1. /\ pending = <<>> /\ pending' = batch \o deferred /\ batch' = <<>> /\ deferred' = <<>>
      /\ UNCHANGED <<issued, chan, active, opening, gen, log, dropped>>
  BY DEF WindowCloses, InputInv, OneAtATime
<1>2. InputTypes /\ OnTheWay /\ ChannelOrder /\ AllTimely
  BY DEF InputInv
<1>3. Nums' = Nums /\ Sent' = Sent /\ UNCHANGED issued /\ DOMAIN <<>> = {}
  BY <1>1, Unissued DEF Sent
<1>4. batch \in Seq(Nums) /\ deferred \in Seq(Nums)
  BY <1>2 DEF InputTypes
<1>5. /\ pending' \in Seq(Nums)
      /\ DOMAIN pending' = 1..(Len(batch) + Len(deferred))
      /\ \A k \in DOMAIN batch : pending'[k] = batch[k]
      /\ \A k \in DOMAIN pending' : k \notin DOMAIN batch =>
           k - Len(batch) \in DOMAIN deferred /\ pending'[k] = deferred[k - Len(batch)]
  BY <1>1, <1>4, ConcatFacts
<1>6. \A k \in DOMAIN pending' : \/ k \in DOMAIN batch /\ pending'[k] = batch[k]
                                 \/ \E j \in DOMAIN deferred : pending'[k] = deferred[j]
  BY <1>5
<1>7. InputTypes'
  BY <1>1, <1>2, <1>3, <1>5 DEF InputTypes
<1>8. OneAtATime' /\ Gathered'
  BY <1>1, <1>3 DEF OneAtATime, Gathered
<1>9. Within(pending)'
  <2> SUFFICES ASSUME NEW i \in DOMAIN pending', NEW j \in DOMAIN pending', i < j
               PROVE  Before(pending'[i], pending'[j])
    BY <1>3 DEF Within, Before
  <2>1. DOMAIN batch = 1..Len(batch) /\ Len(batch) \in Nat /\ Len(deferred) \in Nat
    BY <1>4
  <2>2. i \in Nat /\ j \in Nat /\ i > 0
    BY <1>5, <2>1
  <2>3. CASE i \in DOMAIN batch /\ j \in DOMAIN batch
    BY <1>2, <1>5, <2>3 DEF OnTheWay, Within
  <2>4. CASE i \in DOMAIN batch /\ j \notin DOMAIN batch
    BY <1>2, <1>5, <2>4 DEF OnTheWay, Ahead
  <2>5. CASE i \notin DOMAIN batch
    <3>1. j \notin DOMAIN batch
      BY <2>1, <2>2, <2>5
    <3>2. i - Len(batch) < j - Len(batch)
      BY <2>1, <2>2
    <3> QED BY <1>2, <1>5, <2>5, <3>1, <3>2 DEF OnTheWay, Within
  <2> QED BY <2>3, <2>4, <2>5
<1>10. OnTheWay'
  <2>1. Within(Sent)'
    BY <1>2, <1>3 DEF OnTheWay, Within, Before
  <2>2. Ahead(Sent, pending)'
    BY <1>2, <1>3, <1>6 DEF OnTheWay, Ahead, Before
  <2>3. Within(batch)' /\ Within(deferred)' /\ Ahead(Sent, batch)' /\ Ahead(Sent, deferred)'
        /\ Ahead(batch, deferred)'
    BY <1>1, <1>3 DEF Within, Ahead
  <2> QED BY <1>9, <2>1, <2>2, <2>3 DEF OnTheWay
<1>11. ChannelOrder'
  BY <1>1, <1>2, <1>3, <1>6 DEF ChannelOrder, Below
<1>12. AllTimely'
  BY <1>1, <1>2, <1>3, <1>6 DEF AllTimely, Timely
<1>13. NoStaleInput'
  BY <1>1 DEF InputInv, NoStaleInput
<1> QED BY <1>7, <1>8, <1>10, <1>11, <1>12, <1>13 DEF InputInv

\* The front of pending_cmds, with what merges into it, is sent or dropped.
LEMMA InputInvSend ==
  ASSUME InputInv, SendFront
  PROVE  InputInv'
<1> DEFINE k == coalesce_pending_input_front(pending)
           front == [i \in 1..k |-> [num |-> pending[i], gen |-> gen]]
<1>1. /\ batch = <<>> /\ deferred = <<>> /\ pending # <<>>
      /\ pending' = SubSeq(pending, k + 1, Len(pending))
      /\ UNCHANGED <<issued, chan, batch, deferred, active, opening, gen>>
  BY DEF SendFront, InputInv, OneAtATime
<1>2. \/ log' = log \o front /\ issued[pending[1]].term = active
      \/ log' = log
  BY DEF SendFront
<1>3. InputTypes /\ OnTheWay /\ ChannelOrder /\ AllTimely /\ NoStaleInput
  BY DEF InputInv
<1>4. pending \in Seq(Nums) /\ log \in Seq([num : Nums, gen : Nat])
  BY <1>3 DEF InputTypes
<1>5. k \in 1..Len(pending) /\ \A i \in 2..k : Mergeable(pending[1], pending[i])
  BY <1>1, <1>4, FrontFits
<1> HIDE DEF k
<1>6. /\ pending' \in Seq(Nums)
      /\ DOMAIN pending' = 1..(Len(pending) - k)
      /\ \A j \in DOMAIN pending' : j + k \in DOMAIN pending /\ pending'[j] = pending[j + k]
  BY <1>1, <1>4, <1>5, DropFacts
<1>7. \A i \in 1..k : i \in DOMAIN pending /\ issued[pending[i]].term = issued[pending[1]].term
  <2>1. \A i \in 1..k : i \in DOMAIN pending /\ (i = 1 \/ i \in 2..k)
    BY <1>4, <1>5
  <2> QED BY <1>5, <2>1 DEF Mergeable
<1>8. Nums' = Nums /\ UNCHANGED issued /\ DOMAIN <<>> = {}
  BY <1>1, Unissued
<1>9. front \in Seq([num : Nums, gen : Nat]) /\ DOMAIN front = 1..k /\ Len(front) = k
  <2>1. \A i \in 1..k : [num |-> pending[i], gen |-> gen] \in [num : Nums, gen : Nat]
    BY <1>3, <1>4, <1>7 DEF InputTypes
  <2>2. k \in Nat
    BY <1>5
  <2>3. front \in [1..k -> [num : Nums, gen : Nat]]
    BY <2>1
  <2> HIDE DEF front
  <2> QED BY <2>2, <2>3, FunctionIsSeq
<1>10. \A i \in 1..k : front[i] = [num |-> pending[i], gen |-> gen]
  OBVIOUS
<1> HIDE DEF front
<1>11. /\ log' \in Seq([num : Nums, gen : Nat])
       /\ \A i \in DOMAIN log : i \in DOMAIN log' /\ log'[i] = log[i]
       /\ \A i \in DOMAIN log' : i \notin DOMAIN log =>
            /\ i - Len(log) \in 1..k
            /\ log'[i] = [num |-> pending[i - Len(log)], gen |-> gen]
            /\ issued[pending[1]].term = active
  <2>1. CASE log' = log \o front /\ issued[pending[1]].term = active
    <3>1. PICK S : S = [num : Nums, gen : Nat]
      OBVIOUS
    <3>2. log \in Seq(S) /\ front \in Seq(S)
      BY <1>4, <1>9, <3>1 DEF InputTypes
    <3>3. /\ log' \in Seq(S)
          /\ \A i \in DOMAIN log : i \in DOMAIN log' /\ log'[i] = log[i]
          /\ \A i \in DOMAIN log' : i \notin DOMAIN log =>
               i - Len(log) \in DOMAIN front /\ log'[i] = front[i - Len(log)]
      <4>1. PICK s, t : s = log /\ t = front
        OBVIOUS
      <4>2. s \in Seq(S) /\ t \in Seq(S)
        BY <3>2, <4>1
      <4>3. /\ s \o t \in Seq(S)
            /\ \A i \in DOMAIN s : i \in DOMAIN (s \o t) /\ (s \o t)[i] = s[i]
            /\ \A i \in DOMAIN (s \o t) : i \notin DOMAIN s =>
                 i - Len(s) \in DOMAIN t /\ (s \o t)[i] = t[i - Len(s)]
        BY ONLY <4>2, ConcatFacts
      <4> QED
        BY <2>1, <4>1, <4>3
    <3>4. DOMAIN front = 1..k
      BY <1>9
    <3> QED
      BY <1>10, <2>1, <3>1, <3>3, <3>4, Zenon
  <2>2. CASE log' = log
    BY <1>4, <2>2
  <2> QED BY <1>2, <2>1, <2>2
<1>12. InputTypes'
  BY <1>1, <1>3, <1>6, <1>8, <1>11 DEF InputTypes
<1>13. OneAtATime' /\ Gathered'
  BY <1>1, <1>8 DEF OneAtATime, Gathered
<1>14. /\ DOMAIN Sent' = DOMAIN log'
       /\ \A i \in DOMAIN log : i \in DOMAIN Sent /\ Sent'[i] = Sent[i]
       /\ \A i \in DOMAIN log' : i \notin DOMAIN log =>
            i - Len(log) \in 1..k /\ Sent'[i] = pending[i - Len(log)]
       /\ DOMAIN Sent = DOMAIN log
  BY <1>11 DEF Sent
<1>15. DOMAIN log = 1..Len(log) /\ Len(log) \in Nat /\ DOMAIN log' \subseteq Nat
       /\ \A i \in DOMAIN log' : i > 0
  BY <1>4, <1>11
<1>16. k \in Nat /\ DOMAIN pending \subseteq Nat
  BY <1>4, <1>5
<1>17. Within(Sent)'
  <2> SUFFICES ASSUME NEW i \in DOMAIN log', NEW j \in DOMAIN log', i < j
               PROVE  Before(Sent'[i], Sent'[j])
    BY <1>8, <1>14 DEF Within, Before
  <2>1. CASE j \in DOMAIN log
    <3>1. i \in DOMAIN log
      BY <1>15, <2>1
    <3> QED BY <1>3, <1>14, <2>1, <3>1 DEF OnTheWay, Within
  <2>2. CASE i \in DOMAIN log /\ j \notin DOMAIN log
    BY <1>3, <1>7, <1>14, <2>2 DEF OnTheWay, Ahead
  <2>3. CASE i \notin DOMAIN log /\ j \notin DOMAIN log
    <3>1. i - Len(log) < j - Len(log)
      BY <1>15
    <3> QED BY <1>3, <1>7, <1>14, <2>3, <3>1 DEF OnTheWay, Within
  <2> QED BY <2>1, <2>2, <2>3
<1>18. Ahead(Sent, pending)'
  <2> SUFFICES ASSUME NEW i \in DOMAIN log', NEW j \in DOMAIN pending'
               PROVE  Before(Sent'[i], pending'[j])
    BY <1>8, <1>14 DEF Ahead, Before
  <2>1. CASE i \in DOMAIN log
    BY <1>3, <1>6, <1>14, <2>1 DEF OnTheWay, Ahead
  <2>2. CASE i \notin DOMAIN log
    <3>1. i - Len(log) < j + k
      BY <1>6, <1>14, <1>15, <1>16, <2>2
    <3> QED BY <1>3, <1>6, <1>7, <1>14, <2>2, <3>1 DEF OnTheWay, Within
  <2> QED BY <2>1, <2>2
<1>19. Within(pending)'
  <2> SUFFICES ASSUME NEW i \in DOMAIN pending', NEW j \in DOMAIN pending', i < j
               PROVE  Before(pending'[i], pending'[j])
    BY <1>8 DEF Within, Before
  <2>1. i + k < j + k
    BY <1>6, <1>16
  <2> QED BY <1>3, <1>6, <2>1 DEF OnTheWay, Within
<1>20. OnTheWay'
  <2>1. Within(batch)' /\ Within(deferred)' /\ Ahead(Sent, batch)' /\ Ahead(Sent, deferred)'
        /\ Ahead(batch, deferred)'
    BY <1>1, <1>8 DEF Within, Ahead
  <2> QED BY <1>17, <1>18, <1>19, <2>1 DEF OnTheWay
<1>21. ChannelOrder'
  <2>1. Below(Sent, chan)'
    <3> SUFFICES ASSUME NEW i \in DOMAIN log', NEW j \in DOMAIN chan PROVE Sent'[i] < chan[j]
      BY <1>1, <1>14 DEF Below
    <3>1. CASE i \in DOMAIN log
      BY <1>3, <1>14, <3>1 DEF ChannelOrder, Below
    <3>2. CASE i \notin DOMAIN log
      BY <1>3, <1>7, <1>14, <3>2 DEF ChannelOrder, Below
    <3> QED BY <3>1, <3>2
  <2>2. Below(pending, chan)'
    BY <1>1, <1>3, <1>6 DEF ChannelOrder, Below
  <2> QED BY <1>1, <1>3, <2>1, <2>2 DEF ChannelOrder, Below
<1>22. AllTimely'
  <2>1. Timely(pending)'
    BY <1>1, <1>3, <1>6 DEF AllTimely, Timely
  <2> QED BY <1>1, <1>3, <2>1 DEF AllTimely, Timely
<1>23. NoStaleInput'
  <2> SUFFICES ASSUME NEW i \in DOMAIN log' PROVE issued[log'[i].num].gen = log'[i].gen
    BY <1>8 DEF NoStaleInput
  <2>1. CASE i \in DOMAIN log
    BY <1>3, <1>11, <2>1 DEF NoStaleInput
  <2>2. CASE i \notin DOMAIN log
    <3>1. issued[pending[i - Len(log)]].gen = gen
      BY <1>3, <1>7, <1>11, <2>2 DEF AllTimely, Timely
    <3> QED BY <1>11, <2>2, <3>1
  <2> QED BY <2>1, <2>2
<1> QED BY <1>12, <1>13, <1>20, <1>21, <1>22, <1>23 DEF InputInv

\* The active terminal changes: it is taken away at any time, and set only when
\* nothing is on its way.
LEMMA InputInvActive ==
  ASSUME InputInv, (\E t \in Terminals : SessionOpen(t)) \/ SessionKill \/ RecvOpenAck \/ ConnectionLost
  PROVE  InputInv'
<1>1. UNCHANGED <<issued, chan, batch, deferred, pending, log, dropped>>
  BY DEF SessionOpen, SessionKill, RecvOpenAck, ConnectionLost
<1>2. Nums' = Nums /\ Sent' = Sent
  BY <1>1, Unissued DEF Sent
<1>3. InputTypes'
  <2>1. opening \in Seq(Terminals) /\ gen \in Nat
    BY DEF InputInv, InputTypes
  <2>2. opening' \in Seq(Terminals) /\ active' \in Terminals \cup {None} /\ gen' \in Nat
    <3>1. CASE \E t \in Terminals : SessionOpen(t)
      BY <2>1, <3>1, AppendFacts DEF SessionOpen
    <3>2. CASE SessionKill \/ ConnectionLost
      <4>1. <<>> \in Seq(Terminals)
        OBVIOUS
      <4> QED BY <2>1, <3>2, <4>1 DEF SessionKill, ConnectionLost
    <3>3. CASE RecvOpenAck
      BY <2>1, <3>3, TailFacts DEF RecvOpenAck
    <3> QED BY <3>1, <3>2, <3>3
  <2> QED BY <1>1, <1>2, <2>2 DEF InputInv, InputTypes
<1>4. OneAtATime' /\ Gathered'
  BY <1>1 DEF InputInv, OneAtATime, Gathered, Mergeable
<1>5. OnTheWay'
  BY <1>1, <1>2 DEF InputInv, OnTheWay, Within, Ahead, Before
<1>6. ChannelOrder'
  BY <1>1, <1>2 DEF InputInv, ChannelOrder, Below
<1>7. NoStaleInput'
  BY <1>1 DEF InputInv, NoStaleInput
<1>8. AllTimely'
  <2>1. CASE active' = None
    <3>1. \A n \in Nums : issued[n].term # None
      <4>1. \A n \in Nums : issued[n] \in [kind : CmdKinds, term : Terminals, gen : Nat]
        BY SeqFacts DEF InputInv, InputTypes, Nums
      <4> QED BY <4>1, InputAssumption DEF InputAssumption
    <3>2. \A q \in Seq(Nums) : \A i \in DOMAIN q : q[i] \in Nums
      OBVIOUS
    <3> QED BY <1>1, <2>1, <3>1, <3>2 DEF InputInv, InputTypes, AllTimely, Timely
  <2>2. CASE RecvOpenAck
    <3>1. chan = <<>> /\ batch = <<>> /\ pending = <<>> /\ deferred = <<>>
      BY <2>2 DEF RecvOpenAck, Free, InputInv, OneAtATime
    <3> QED BY <1>1, <3>1 DEF AllTimely, Timely
  <2> QED BY <2>1, <2>2 DEF SessionOpen, SessionKill, ConnectionLost
<1> QED BY <1>3, <1>4, <1>5, <1>6, <1>7, <1>8 DEF InputInv

LEMMA InputInvariant == InputSpec => []InputInv
<1>1. InputInv /\ [InputNext]_inputVars => InputInv'
  <2> SUFFICES ASSUME InputInv, [InputNext]_inputVars PROVE InputInv'
    OBVIOUS
  <2>1. CASE UNCHANGED inputVars
    BY <2>1 DEF inputVars, InputInv, InputTypes, OneAtATime, Gathered, OnTheWay, ChannelOrder,
       AllTimely, NoStaleInput, Within, Ahead, Below, Timely, Before, Mergeable, Sent, Nums
  <2> QED
    BY <2>1, InputInvIssue, InputInvTake, InputInvGather, InputInvWindow, InputInvSend,
       InputInvActive DEF InputNext, InputStep
<1> QED BY <1>1, InputInvInit, PTL DEF InputSpec

\* For any number of commands, terminals and reconnects, and however input is
\* gathered, deferred and coalesced (batch_input_command,
\* coalesce_pending_input_front): no command is sent twice, and a terminal's
\* commands are sent in the order of issue, but for input that overtakes a resize
\* or a kill.
THEOREM CommandsKeepOrder == InputSpec => []CommandsInOrder
<1>1. InputInv => CommandsInOrder
  BY DEF InputInv, OnTheWay, Within, Before, CommandsInOrder
<1> QED BY <1>1, InputInvariant, PTL

\* What was typed for one attachment of a terminal never reaches a later one,
\* because a response that attaches a terminal is read only when no command is
\* waiting (run_one_connection).
THEOREM InputIsNeverStale == InputSpec => []NoStaleInput
<1>1. InputInv => NoStaleInput
  BY DEF InputInv
<1> QED BY <1>1, InputInvariant, PTL

-----------------------------------------------------------------------------
(* Events *)

\* Events named after their own session.
OwnEvents == {e \in [channel : Nat, of : Nat] : e.channel = e.of}

SessionNumbers == started \in Nat /\ events_rx \in Nat

\* state.event_channel and state.events_rx belong to the same connection.
ReceiverNamed == channel = events_rx

\* The event the actor holds while it awaits room at the pump.
HeldEvent == actor.at = "emit" => actor.event \in OwnEvents

PumpedEvents == pump \in Seq(OwnEvents) /\ shown \subseteq OwnEvents

ActorInv == SessionNumbers /\ ReceiverNamed /\ HeldEvent /\ PumpedEvents

LEMMA ActorInvInit == Init => ActorInv
BY DEF Init, ActorInv, SessionNumbers, ReceiverNamed, HeldEvent, PumpedEvents, NoSession

\* The steps of the loops, the tasks and the frontend leave the actor's side alone.
LEMMA ActorInvFrame ==
  ASSUME ActorInv, UNCHANGED <<actor, events_rx, channel, started, pump, shown>>
  PROVE  ActorInv'
BY DEF ActorInv, SessionNumbers, ReceiverNamed, HeldEvent, PumpedEvents

\* A command is handled while no event is held.
LEMMA ActorInvHandle ==
  ASSUME ActorInv, NEW op \in Ops, Handle(op)
  PROVE  ActorInv'
<1>1. UNCHANGED <<pump, shown>>
  BY DEF Handle
<1>2. PumpedEvents'
  BY <1>1 DEF ActorInv, PumpedEvents
<1>3. PICK c : Connect(c) \/ Request(c) \/ Input(c) \/ Close(c)
  BY DEF Handle
<1>4. actor.at = "select"
  BY DEF Handle
<1>5. CASE Connect(c)
  <2>1. started' \in Nat /\ events_rx' = started' /\ channel' = started' /\ actor' = actor
    BY <1>5 DEF Connect, ActorInv, SessionNumbers
  <2> QED BY <2>1, <1>2, <1>4 DEF ActorInv, SessionNumbers, ReceiverNamed, HeldEvent
<1>6. CASE Request(c)
  BY <1>6, <1>1, ActorInvFrame DEF Request
<1>7. CASE Input(c)
  <2>1. UNCHANGED <<events_rx, channel, started>> /\ (actor' = actor \/ actor'.at = "input")
    BY <1>7 DEF Input
  <2> QED BY <2>1, <1>2 DEF ActorInv, SessionNumbers, ReceiverNamed, HeldEvent
<1>8. CASE Close(c)
  <2>1. events_rx' = 0 /\ channel' = 0 /\ UNCHANGED <<started, actor>>
    BY <1>8 DEF Close, NoSession
  <2> QED BY <2>1, <1>2 DEF ActorInv, SessionNumbers, ReceiverNamed, HeldEvent
<1> QED BY <1>3, <1>5, <1>6, <1>7, <1>8

\* An event goes from the receiver to the actor, to the pump, to the frontend.
LEMMA ActorInvEvent ==
  ASSUME ActorInv, TakeEvent \/ Forward \/ Pump
  PROVE  ActorInv'
<1>1. CASE TakeEvent
  <2>1. actor' = [at |-> "emit", event |-> [channel |-> channel, of |-> events_rx]]
    BY <1>1 DEF TakeEvent
  <2>2. [channel |-> channel, of |-> events_rx] \in OwnEvents
    BY DEF ActorInv, SessionNumbers, ReceiverNamed, OwnEvents
  <2>3. actor'.event \in OwnEvents
    BY <2>1, <2>2
  <2>4. UNCHANGED <<events_rx, channel, started, pump, shown>>
    BY <1>1 DEF TakeEvent
  <2> QED BY <2>3, <2>4 DEF ActorInv, SessionNumbers, ReceiverNamed, HeldEvent, PumpedEvents
<1>2. CASE Forward
  <2>1. actor'.at = "select" /\ UNCHANGED <<events_rx, channel, started, shown>>
    BY <1>2 DEF Forward
  <2>2. pump' \in Seq(OwnEvents)
    BY <1>2 DEF Forward, ActorInv, HeldEvent, PumpedEvents
  <2> QED BY <2>1, <2>2 DEF ActorInv, SessionNumbers, ReceiverNamed, HeldEvent, PumpedEvents
<1>3. CASE Pump
  <2>1. pump \in Seq(OwnEvents) /\ pump # <<>>
    BY <1>3 DEF Pump, ActorInv, PumpedEvents
  <2>2. Head(pump) \in OwnEvents /\ Tail(pump) \in Seq(OwnEvents)
    BY <2>1
  <2>3. pump' \in Seq(OwnEvents) /\ shown' \subseteq OwnEvents
    BY <1>3, <2>2 DEF Pump, ActorInv, PumpedEvents
  <2>4. UNCHANGED <<actor, events_rx, channel, started>>
    BY <1>3 DEF Pump, acts
  <2> QED BY <2>3, <2>4 DEF ActorInv, SessionNumbers, ReceiverNamed, HeldEvent, PumpedEvents
<1> QED BY <1>1, <1>2, <1>3

\* The actor leaves an input, or learns that the session is over.
LEMMA ActorInvActor ==
  ASSUME ActorInv, InputDone \/ SessionOver
  PROVE  ActorInv'
<1>1. CASE InputDone
  <2>1. actor'.at = "select" /\ UNCHANGED <<events_rx, channel, started, pump, shown>>
    BY <1>1 DEF InputDone
  <2> QED BY <2>1 DEF ActorInv, SessionNumbers, ReceiverNamed, HeldEvent, PumpedEvents
<1>2. CASE SessionOver
  <2>1. events_rx' = 0 /\ channel' = 0 /\ UNCHANGED <<started, actor, pump, shown>>
    BY <1>2 DEF SessionOver, NoSession
  <2> QED BY <2>1 DEF ActorInv, SessionNumbers, ReceiverNamed, HeldEvent, PumpedEvents
<1> QED BY <1>1, <1>2

LEMMA ActorInvNext == ActorInv /\ [Next]_vars => ActorInv'
<1> SUFFICES ASSUME ActorInv, [Next]_vars PROVE ActorInv'
  OBVIOUS
<1>1. ASSUME NEW c \in Calls, Invoke(c) PROVE ActorInv'
  BY <1>1, ActorInvFrame DEF Invoke
<1>2. ASSUME NEW s \in Sessions,
             LoopStep(s) \/ TakeInput(s) \/ Output(s) \/ \E retry \in BOOLEAN : Lost(s, retry)
      PROVE  ActorInv'
  <2>1. UNCHANGED <<acts, pump, shown>>
    BY <1>2 DEF LoopStep, Connected, Abandoned, TakeInput, Output, Lost
  <2> QED BY <2>1, ActorInvFrame DEF acts
<1>3. ASSUME NEW t \in tasks, TaskEnds(t) PROVE ActorInv'
  BY <1>3, ActorInvFrame DEF TaskEnds
<1>4. CASE UNCHANGED vars
  BY <1>4, ActorInvFrame DEF vars, acts
<1> QED
  BY <1>1, <1>2, <1>3, <1>4, ActorInvHandle, ActorInvEvent, ActorInvActor DEF Next

\* What the frontend sees under the name of a connection comes from that
\* connection's session (actor_loop, connect and close of session_handle.rs),
\* for every sequence of commands, every capacity and any number of events.
THEOREM EventsNamed == Spec => []EventsOfTheirSession
<1>1. ActorInv => EventsOfTheirSession
  <2> SUFFICES ASSUME ActorInv, NEW e \in shown \cup {pump[i] : i \in DOMAIN pump}
               PROVE  e.channel = e.of
    BY DEF EventsOfTheirSession
  <2>1. e \in OwnEvents
    BY DEF ActorInv, PumpedEvents
  <2> QED BY <2>1 DEF OwnEvents
<1> QED BY <1>1, ActorInvInit, ActorInvNext, PTL DEF Spec
=============================================================================
