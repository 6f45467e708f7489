------------------------ MODULE TerminalStreamProofs ------------------------
(***************************************************************************)
(* What a client sees of a terminal, for any number of terminals and       *)
(* requests, any amount of output and any capacities of the channels.      *)
(***************************************************************************)
EXTENDS TerminalStream, TLAPS

Chunks     == [from : Nat, to : Nat]
Forwarders == [state : {"none", "opening", "run", "aborting", "dead"},
               term : Terminals \cup {None}, buf : Seq(Chunks), pieces : Seq(Nat),
               lag : {"no", "now", "past"}]
UpFrames   == [kind : {"open", "kill"}, req : Requests, term : Terminals]
DownFrames == [kind : {"ack", "data"}, req : Requests \cup {None}, stream : Ids, seq : Nat]
              \cup [kind : {"error", "killed"}, req : Requests, stream : {None}, seq : {None}]
OutFrames  == [stream : Ids, seq : Nat]

StreamTypes ==
  /\ head \in [Terminals -> Nat]
  /\ unsent \in [Terminals -> Nat]
  /\ \A t \in Terminals : unsent[t] <= head[t]
  /\ fwd \in [Ids -> Forwarders]
  /\ attached \in Ids \cup {None}
  /\ opening \in Openings \cup {None}
  /\ next_id \in Nat \ {0}
  /\ outq \in Seq(OutFrames)
  /\ up \in Seq(UpFrames)
  /\ down \in Seq(DownFrames)
  /\ sent \in 0..MaxRequests
  /\ known \in [Ids -> Nat \cup {None}]

\* A stream id is allocated for a request that has left `up`: there is one.
IdsSuffice == next_id + Len(up) <= sent + 1

\* The life of a subscription.  Only the newest stream is opened, and it is
\* attached from its ack on.
NewUnused == \A i \in Ids : i >= next_id => fwd[i] = Unused

OpeningNewest ==
  opening # None =>
    /\ attached = None
    /\ opening.stream + 1 = next_id
    /\ fwd[opening.stream].state = "opening"
    /\ fwd[opening.stream].term = opening.term

AttachedRuns ==
  attached # None =>
    attached < next_id /\ fwd[attached].state = "run" /\ fwd[attached].term \in Terminals

Lifecycle ==
  /\ NewUnused
  /\ \A i \in Ids : fwd[i].state = "opening" => fwd[i].pieces = <<>>
  /\ OpeningNewest
  /\ AttachedRuns

-----------------------------------------------------------------------------
(* The order of the streams in the frames to the client *)

IsAck(f)  == f.kind = "ack"
IsData(f) == f.kind = "data"

\* i is older than the stream that is being opened, or than any new one; and not
\* newer than the attached one.
Older(i)   == i < next_id /\ (opening # None => i < opening.stream)
Bounded(i) == Older(i) /\ (attached # None => i <= attached)

KnownBounded == \A i \in Ids : known[i] # None => Bounded(i)

AcksBounded ==
  \A k \in DOMAIN down : IsAck(down[k]) =>
    Bounded(down[k].stream) /\ \A i \in Ids : known[i] # None => i < down[k].stream

DataBounded ==
  \A k \in DOMAIN down : IsData(down[k]) =>
    Older(down[k].stream) /\ \A i \in Ids : known[i] # None => i <= down[k].stream

FramesOrdered ==
  \A j, k \in DOMAIN down : j < k =>
    /\ IsAck(down[j]) /\ IsAck(down[k]) => down[j].stream < down[k].stream
    /\ IsAck(down[j]) /\ IsData(down[k]) => down[j].stream <= down[k].stream
    /\ IsData(down[j]) /\ IsAck(down[k]) => down[j].stream < down[k].stream

Ordered == KnownBounded /\ AcksBounded /\ DataBounded /\ FramesOrdered

\* Nothing of a stream is on its way before the stream is attached.
OutOlder == \A k \in DOMAIN outq : Older(outq[k].stream)

StreamInv == StreamTypes /\ IdsSuffice /\ Lifecycle /\ Ordered /\ OutOlder

-----------------------------------------------------------------------------
(* The output of a stream on its way: every position n is preceded by one that *)
(* is at least n - 1, in the same stage or in one closer to the client.        *)

Current(i) == known[i] # None /\ active # None /\ active.stream = i

NoAck(i) == \A k \in DOMAIN down : ~(IsAck(down[k]) /\ down[k].stream = i)

\* The client no longer looks at stream i, and never will again.
Forgotten(i) ==
  /\ ~Current(i)
  /\ NoAck(i)
  /\ ~(opening # None /\ opening.stream = i)

AtClient(i, n) ==
  \/ Forgotten(i)
  \/ Current(i) /\ n <= known[i] + 1
  \/ opening # None /\ opening.stream = i /\ (opening.end # None => n <= opening.end + 1)

InDown(i, n, l) ==
  \E k \in DOMAIN down : /\ k < l
                         /\ IsAck(down[k]) \/ IsData(down[k])
                         /\ down[k].stream = i /\ n <= down[k].seq + 1

InOut(i, n, l) ==
  \E k \in DOMAIN outq : k < l /\ outq[k].stream = i /\ n <= outq[k].seq + 1

InPieces(i, n, l) ==
  \E k \in DOMAIN fwd[i].pieces : k < l /\ n <= fwd[i].pieces[k] + 1

InBuf(i, n, l) ==
  \E k \in DOMAIN fwd[i].buf : k < l /\ n <= fwd[i].buf[k].to + 1

BeforeDown(i, n, l)   == AtClient(i, n) \/ InDown(i, n, l)
BeforeOut(i, n, l)    == BeforeDown(i, n, Len(down) + 1) \/ InOut(i, n, l)
BeforePieces(i, n, l) == BeforeOut(i, n, Len(outq) + 1) \/ InPieces(i, n, l)
BeforeBuf(i, n, l)    == BeforePieces(i, n, Len(fwd[i].pieces) + 1) \/ InBuf(i, n, l)

\* The stream the connection serves, or is about to serve.
Served(i) == i = attached \/ (opening # None /\ opening.stream = i)

Numbers ==
  \A i \in Ids : \A k \in DOMAIN fwd[i].buf :
    /\ fwd[i].buf[k].from < fwd[i].buf[k].to
    /\ fwd[i].term \in Terminals /\ fwd[i].buf[k].to <= head[fwd[i].term]

ContiguousDown ==
  \A l \in DOMAIN down : IsData(down[l]) /\ fwd[down[l].stream].lag = "no" =>
    BeforeDown(down[l].stream, down[l].seq, l)

ContiguousOut ==
  \A l \in DOMAIN outq : outq[l].stream = attached /\ fwd[attached].lag = "no" =>
    BeforeOut(attached, outq[l].seq, l)

ContiguousFwd ==
  \A i \in Ids : Served(i) /\ fwd[i].lag = "no" =>
    /\ \A l \in DOMAIN fwd[i].pieces : BeforePieces(i, fwd[i].pieces[l], l)
    /\ \A l \in DOMAIN fwd[i].buf : BeforeBuf(i, fwd[i].buf[l].from + 1, l)
    /\ BeforeBuf(i, head[fwd[i].term] - unsent[fwd[i].term] + 1, Len(fwd[i].buf) + 1)

Contiguous == Numbers /\ ContiguousDown /\ ContiguousOut /\ ContiguousFwd

-----------------------------------------------------------------------------
(* Lemmas about sequences *)

LEMMA AppendFacts ==
  ASSUME NEW S, NEW s \in Seq(S), NEW x \in S
  PROVE  /\ Append(s, x) \in Seq(S)
         /\ Len(Append(s, x)) = Len(s) + 1
         /\ DOMAIN Append(s, x) = 1..(Len(s) + 1)
         /\ \A k \in DOMAIN s : Append(s, x)[k] = s[k]
         /\ Append(s, x)[Len(s) + 1] = x
OBVIOUS

LEMMA TailFacts ==
  ASSUME NEW S, NEW s \in Seq(S), s # <<>>
  PROVE  /\ Tail(s) \in Seq(S)
         /\ Head(s) \in S
         /\ Head(s) = s[1]
         /\ 1 \in DOMAIN s
         /\ Len(Tail(s)) = Len(s) - 1
         /\ DOMAIN Tail(s) = 1..(Len(s) - 1)
         /\ \A k \in DOMAIN Tail(s) : k + 1 \in DOMAIN s /\ Tail(s)[k] = s[k + 1]
OBVIOUS

LEMMA TailDiffers ==
  ASSUME NEW S, NEW s \in Seq(S), s # <<>>
  PROVE  Tail(s) # s /\ \A x \in S : Tail(s) # Append(s, x)
<1>1. PICK n \in Nat : n = Len(s) /\ n > 0
  OBVIOUS
<1>2. Len(Tail(s)) = n - 1
  BY <1>1
<1>3. \A x \in S : Len(Append(s, x)) = n + 1
  BY <1>1
<1>4. n - 1 # n /\ n - 1 # n + 1
  OBVIOUS
<1> QED
  BY <1>1, <1>2, <1>3, <1>4, Zenon

-----------------------------------------------------------------------------
(* Types *)

LEMMA StreamTypesInit == Init => StreamTypes /\ IdsSuffice
BY StreamAssumption
   DEF Init, StreamTypes, IdsSuffice, Forwarders, Unused, Ids, Requests

LEMMA ReceiveFacts ==
  ASSUME NEW f \in Forwarders, NEW chunk \in Chunks
  PROVE  /\ Receive(f, chunk) \in Forwarders
         /\ Receive(f, chunk).state = f.state
         /\ Receive(f, chunk).term = f.term
         /\ Receive(f, chunk).pieces = f.pieces
         /\ Receive(f, chunk).lag \in {f.lag, "now"}
         /\ Receive(f, chunk).buf \in {Append(f.buf, chunk), Append(Tail(f.buf), chunk)}
         /\ Receive(f, chunk).lag # "now" => Receive(f, chunk).buf = Append(f.buf, chunk)
<1> DEFINE r == Receive(f, chunk)
<1>t. /\ f.state \in {"none", "opening", "run", "aborting", "dead"}
      /\ f.term \in Terminals \cup {None}
      /\ f.buf \in Seq(Chunks) /\ f.pieces \in Seq(Nat)
      /\ f.lag \in {"no", "now", "past"}
      /\ f = [state |-> f.state, term |-> f.term, buf |-> f.buf, pieces |-> f.pieces, lag |-> f.lag]
  BY DEF Forwarders
<1>1. CASE Len(f.buf) < SubCap
  <2>1. r = [f EXCEPT !.buf = Append(@, chunk)]
    BY <1>1 DEF Receive
  <2>2. Append(f.buf, chunk) \in Seq(Chunks)
    BY <1>t, AppendFacts
  <2>3. r = [state |-> f.state, term |-> f.term, buf |-> Append(f.buf, chunk),
             pieces |-> f.pieces, lag |-> f.lag]
    BY <1>t, <2>1
  <2> HIDE DEF r
  <2> QED
    BY <1>t, <2>2, <2>3 DEF Forwarders, r
<1>2. CASE ~(Len(f.buf) < SubCap)
  <2>1. r = [f EXCEPT !.buf = Append(Tail(@), chunk), !.lag = "now"]
    BY <1>2 DEF Receive
  <2>2. f.buf # <<>>
    BY <1>2, <1>t, StreamAssumption
  <2>3. Append(Tail(f.buf), chunk) \in Seq(Chunks)
    BY <1>t, <2>2, AppendFacts, TailFacts
  <2>4. r = [state |-> f.state, term |-> f.term, buf |-> Append(Tail(f.buf), chunk),
             pieces |-> f.pieces, lag |-> "now"]
    BY <1>t, <2>1
  <2> HIDE DEF r
  <2> QED
    BY <1>t, <2>3, <2>4 DEF Forwarders, r
<1> QED
  BY <1>1, <1>2

LEMMA ForwarderFacts ==
  ASSUME NEW f \in Forwarders
  PROVE  /\ f.state \in {"none", "opening", "run", "aborting", "dead"}
         /\ f.term \in Terminals \cup {None}
         /\ f.buf \in Seq(Chunks) /\ f.pieces \in Seq(Nat)
         /\ f.lag \in {"no", "now", "past"}
         /\ f = [state |-> f.state, term |-> f.term, buf |-> f.buf, pieces |-> f.pieces, lag |-> f.lag]
BY DEF Forwarders

LEMMA DeadFacts ==
  ASSUME NEW f \in Forwarders
  PROVE  /\ Dead(f) = [state |-> "dead", term |-> f.term, buf |-> <<>>, pieces |-> <<>>,
                       lag |-> f.lag]
         /\ Dead(f) \in Forwarders
<1>0. f = [state |-> f.state, term |-> f.term, buf |-> f.buf, pieces |-> f.pieces, lag |-> f.lag]
  BY ForwarderFacts
<1> DEFINE r == Dead(f)
<1>1. r = [f EXCEPT !.state = "dead", !.buf = <<>>, !.pieces = <<>>]
  BY DEF Dead
<1> HIDE DEF r
<1>3. r = [state |-> "dead", term |-> f.term, buf |-> <<>>, pieces |-> <<>>, lag |-> f.lag]
  BY <1>0, <1>1
<1>2. <<>> \in Seq(Chunks) /\ <<>> \in Seq(Nat)
  OBVIOUS
<1> QED
  BY <1>3, <1>2, ForwarderFacts DEF Forwarders, r

LEMMA PiecesFacts ==
  ASSUME NEW chunk \in Chunks
  PROVE  /\ Pieces(chunk) \in Seq(Nat)
         /\ DOMAIN Pieces(chunk) = 1..(chunk.to - chunk.from)
         /\ \A k \in DOMAIN Pieces(chunk) : Pieces(chunk)[k] = chunk.from + k
<1>1. chunk.to \in Nat /\ chunk.from \in Nat
  BY DEF Chunks
<1>2. \A k \in 1..(chunk.to - chunk.from) : chunk.from + k \in Nat
  BY <1>1
<1>3. CASE chunk.to >= chunk.from
  <2>1. chunk.to - chunk.from \in Nat
    BY <1>1, <1>3
  <2> QED
    BY <1>1, <1>2, <2>1 DEF Pieces
<1>4. CASE chunk.to < chunk.from
  <2>1. 1..(chunk.to - chunk.from) = 1..0
    BY <1>1, <1>4
  <2>2. Pieces(chunk) = [k \in 1..0 |-> chunk.from + k]
    BY <2>1 DEF Pieces
  <2>3. Pieces(chunk) \in [1..0 -> Nat]
    BY <2>2, <1>1
  <2>4. Pieces(chunk) \in Seq(Nat)
    BY <2>3
  <2> QED
    BY <2>1, <2>2, <2>4
<1> QED
  BY <1>1, <1>3, <1>4

LEMMA FwdRecvEffect ==
  ASSUME StreamTypes, NEW i \in Ids, FwdRecv(i)
  PROVE  fwd' = [fwd EXCEPT ![i] = [state |-> fwd[i].state, term |-> fwd[i].term,
                                    buf |-> Tail(fwd[i].buf),
                                    pieces |-> Pieces(Head(fwd[i].buf)), lag |-> fwd[i].lag]]
<1> DEFINE f == fwd[i]
<1>1. f = [state |-> f.state, term |-> f.term, buf |-> f.buf, pieces |-> f.pieces, lag |-> f.lag]
  BY ForwarderFacts DEF StreamTypes
<1>2. PICK r : /\ r = [f EXCEPT !.buf = Tail(@), !.pieces = Pieces(Head(fwd[i].buf))]
               /\ fwd' = [fwd EXCEPT ![i] = r]
  BY DEF FwdRecv
<1>3. r = [state |-> f.state, term |-> f.term, buf |-> Tail(f.buf),
           pieces |-> Pieces(Head(f.buf)), lag |-> f.lag]
  BY <1>1, <1>2
<1> QED
  BY <1>2, <1>3, Zenon

LEMMA OpenAckEffect ==
  ASSUME StreamTypes, OpenAck
  PROVE  fwd' = [fwd EXCEPT ![opening.stream] =
                   [state |-> "run", term |-> opening.term, buf |-> fwd[opening.stream].buf,
                    pieces |-> fwd[opening.stream].pieces, lag |-> fwd[opening.stream].lag]]
<1> DEFINE i == opening.stream
           f == fwd[i]
<1>0. opening.stream \in Ids
  BY DEF OpenAck, StreamTypes, Openings
<1>1. f = [state |-> f.state, term |-> f.term, buf |-> f.buf, pieces |-> f.pieces, lag |-> f.lag]
  BY <1>0, ForwarderFacts DEF StreamTypes
<1>4. fwd' = [fwd EXCEPT ![i].state = "run", ![i].term = opening.term]
  BY DEF OpenAck
<1>2. PICK r : /\ r = [f EXCEPT !.state = "run", !.term = opening.term]
               /\ fwd' = [fwd EXCEPT ![i] = r]
  <2> HIDE DEF i
  <2> QED
    BY <1>4
<1>3. r = [state |-> "run", term |-> opening.term, buf |-> f.buf, pieces |-> f.pieces, lag |-> f.lag]
  BY <1>1, <1>2
<1> QED
  BY <1>2, <1>3, Zenon

LEMMA StreamTypesStep ==
  StreamTypes /\ IdsSuffice /\ [Next]_vars => StreamTypes' /\ IdsSuffice'
<1> SUFFICES ASSUME StreamTypes, IdsSuffice, [Next]_vars PROVE StreamTypes' /\ IdsSuffice'
  OBVIOUS
<1> USE StreamAssumption DEF StreamTypes, IdsSuffice, client, server
<1>u. up # <<>> => /\ Tail(up) \in Seq(UpFrames) /\ Len(Tail(up)) = Len(up) - 1
                   /\ Len(up) > 0 /\ Head(up) \in UpFrames
  BY TailFacts
<1>d. down # <<>> => Tail(down) \in Seq(DownFrames) /\ Head(down) \in DownFrames
  BY TailFacts
<1>f. \A i \in Ids : fwd[i] \in Forwarders
  OBVIOUS
<1>1. ASSUME NEW t \in Terminals, ReaderPush(t) \/ Reap(t) PROVE StreamTypes' /\ IdsSuffice'
  <2>1. CASE ReaderPush(t)
    <3>1. PICK n \in 1..MaxChunk : /\ head' = [head EXCEPT ![t] = @ + n]
                                   /\ unsent' = [unsent EXCEPT ![t] = n]
      BY <2>1, Zenon DEF ReaderPush
    <3>2. head' \in [Terminals -> Nat] /\ unsent' \in [Terminals -> Nat]
          /\ \A u \in Terminals : unsent'[u] <= head'[u]
      BY <3>1
    <3>3. UNCHANGED <<sessions, fwd, attached, opening, next_id, outq, up, down, client>>
      BY <2>1, Zenon DEF ReaderPush
    <3> QED
      BY <3>2, <3>3
  <2>2. CASE Reap(t)
    BY <2>2 DEF Reap
  <2> QED
    BY <1>1, <2>1, <2>2
<1>2. ASSUME NEW t \in Terminals, ReaderBroadcast(t) PROVE StreamTypes' /\ IdsSuffice'
  <2> DEFINE chunk == [from |-> head[t] - unsent[t], to |-> head[t]]
  <2>1. chunk \in Chunks
    BY DEF Chunks
  <2> HIDE DEF chunk
  <2>2. \A i \in Ids : Receive(fwd[i], chunk) \in Forwarders
    BY <2>1, <1>f, ReceiveFacts
  <2>3. fwd' \in [Ids -> Forwarders]
    BY <1>2, <1>f, <2>2 DEF ReaderBroadcast, chunk
  <2> QED
    BY <1>2, <2>3 DEF ReaderBroadcast
<1>3. ASSUME NEW i \in Ids, Forward(i) PROVE StreamTypes' /\ IdsSuffice'
  <2>b. fwd[i].buf \in Seq(Chunks) /\ fwd[i].pieces \in Seq(Nat)
    BY <1>f DEF Forwarders
  <2>1. CASE FwdRecv(i)
    <3>1. Tail(fwd[i].buf) \in Seq(Chunks) /\ Head(fwd[i].buf) \in Chunks
      BY <2>1, <2>b, TailFacts DEF FwdRecv
    <3>2. Pieces(Head(fwd[i].buf)) \in Seq(Nat)
      BY <3>1, PiecesFacts
    <3>3. fwd' \in [Ids -> Forwarders]
      <4> DEFINE g == [state |-> fwd[i].state, term |-> fwd[i].term, buf |-> Tail(fwd[i].buf),
                       pieces |-> Pieces(Head(fwd[i].buf)), lag |-> fwd[i].lag]
      <4>1. fwd' = [fwd EXCEPT ![i] = g]
        BY <2>1, FwdRecvEffect
      <4>2. g \in Forwarders
        BY <1>f, ForwarderFacts, <3>1, <3>2 DEF Forwarders
      <4> HIDE DEF g
      <4> QED
        BY <4>1, <4>2
    <3> QED
      BY <2>1, <3>3 DEF FwdRecv
  <2>2. CASE FwdLagged(i)
    <3>3. fwd' \in [Ids -> Forwarders]
      BY <2>2, <1>f DEF FwdLagged, Forwarders
    <3> QED
      BY <2>2, <3>3 DEF FwdLagged
  <2>3. CASE FwdSend(i)
    <3>1. Tail(fwd[i].pieces) \in Seq(Nat) /\ Head(fwd[i].pieces) \in Nat
      BY <2>3, <2>b, TailFacts DEF FwdSend
    <3>2. [stream |-> i, seq |-> Head(fwd[i].pieces)] \in OutFrames
      BY <3>1 DEF OutFrames
    <3>3. outq' \in Seq(OutFrames)
      BY <2>3, <3>2, AppendFacts DEF FwdSend
    <3>4. fwd' \in [Ids -> Forwarders]
      BY <2>3, <1>f, <3>1 DEF FwdSend, Forwarders
    <3> QED
      BY <2>3, <3>3, <3>4 DEF FwdSend
  <2>4. CASE FwdDies(i)
    <3>1. Dead(fwd[i]) \in Forwarders
      BY <1>f, DeadFacts
    <3>2. fwd' \in [Ids -> Forwarders]
      BY <2>4, <1>f, <3>1 DEF FwdDies
    <3> QED
      BY <2>4, <3>2 DEF FwdDies
  <2> QED
    BY <1>3, <2>1, <2>2, <2>3, <2>4 DEF Forward
<1>4. CASE ServeOutput
  <2>1. outq' \in Seq(OutFrames) /\ Head(outq) \in OutFrames
    BY <1>4, TailFacts DEF ServeOutput
  <2>2. Head(outq).stream = attached =>
          [kind |-> "data", req |-> None, stream |-> attached, seq |-> Head(outq).seq] \in DownFrames
    BY <2>1 DEF OutFrames, DownFrames
  <2>3. down' \in Seq(DownFrames)
    BY <1>4, <2>2, AppendFacts DEF ServeOutput
  <2> QED
    BY <1>4, <2>1, <2>3 DEF ServeOutput
<1>r. \A r \in Requests : \A kind \in {"error", "killed"} : Response(kind, r) \in DownFrames
  BY DEF Response, DownFrames
<1>5. CASE ServeOpenUnknown
  <2>1. Response("error", Head(up).req) \in DownFrames
    BY <1>5, <1>u, <1>r DEF ServeOpenUnknown, UpFrames
  <2>2. down' \in Seq(DownFrames)
    BY <1>5, <2>1, AppendFacts DEF ServeOpenUnknown
  <2> QED
    BY <1>5, <2>2, <1>u DEF ServeOpenUnknown
<1>6. CASE ServeOpen
  <2>1. next_id \in Ids
    BY <1>6, <1>u DEF ServeOpen, Ids
  <2>2. opening' \in Openings
    BY <1>6, <1>u, <2>1 DEF ServeOpen, Openings, UpFrames
  <2>3. Aborted(fwd) \in [Ids -> Forwarders]
    <3>1. \A i \in Ids : [fwd[i] EXCEPT !.state = "aborting"] \in Forwarders
      BY <1>f DEF Forwarders
    <3> QED
      BY <1>f, <3>1 DEF Aborted
  <2>4. [Unused EXCEPT !.state = "opening", !.term = Head(up).term] \in Forwarders
    <3>1. <<>> \in Seq(Chunks) /\ <<>> \in Seq(Nat)
      OBVIOUS
    <3>2. Head(up).term \in Terminals
      BY <1>6, <1>u DEF ServeOpen, UpFrames
    <3> QED
      BY <3>1, <3>2 DEF Unused, Forwarders
  <2>5. fwd' \in [Ids -> Forwarders]
    BY <1>6, <2>1, <2>3, <2>4 DEF ServeOpen
  <2> QED
    <3>1. attached' = None /\ next_id' = next_id + 1 /\ up' = Tail(up) /\ up # <<>>
      BY <1>6 DEF ServeOpen
    <3>2. UNCHANGED <<head, unsent, sessions, outq, down, client>>
      BY <1>6 DEF ServeOpen
    <3> QED
      BY <1>u, <2>2, <2>5, <3>1, <3>2
<1>7. CASE ServeKill
  <2>1. Response(IF Head(up).term \in sessions THEN "killed" ELSE "error", Head(up).req) \in DownFrames
    BY <1>7, <1>u, <1>r DEF ServeKill, UpFrames
  <2>2. down' \in Seq(DownFrames)
    BY <1>7, <2>1, AppendFacts DEF ServeKill
  <2> QED
    BY <1>7, <2>2, <1>u DEF ServeKill
<1>8. CASE OpenSnapshot
  <2>1. opening \in Openings /\ opening.term \in Terminals
    BY <1>8 DEF OpenSnapshot, Openings
  <2>2. opening' \in Openings
    BY <1>8, <2>1 DEF OpenSnapshot, Openings
  <2> QED
    BY <1>8, <2>2 DEF OpenSnapshot
<1>o. opening # None => /\ opening.req \in Requests /\ opening.stream \in Ids
                        /\ opening.term \in Terminals /\ opening.end \in Nat \cup {None}
  BY DEF Openings
<1>9. CASE OpenVanished
  <2>1. Response("error", opening.req) \in DownFrames
    BY <1>9, <1>o, <1>r DEF OpenVanished
  <2>2. down' \in Seq(DownFrames)
    BY <1>9, <2>1, AppendFacts DEF OpenVanished
  <2>3. Dead(fwd[opening.stream]) \in Forwarders
    BY <1>9, <1>f, <1>o, DeadFacts DEF OpenVanished
  <2>4. fwd' \in [Ids -> Forwarders]
    BY <1>9, <1>o, <2>3 DEF OpenVanished
  <2> QED
    BY <1>9, <2>2, <2>4 DEF OpenVanished
<1>10. CASE OpenAck
  <2>1. [kind |-> "ack", req |-> opening.req, stream |-> opening.stream, seq |-> opening.end]
          \in DownFrames
    BY <1>10, <1>o DEF OpenAck, DownFrames
  <2>2. down' \in Seq(DownFrames)
    BY <1>10, <2>1, AppendFacts DEF OpenAck
  <2>4. fwd' \in [Ids -> Forwarders]
    <3> DEFINE i == opening.stream
               g == [state |-> "run", term |-> opening.term, buf |-> fwd[i].buf,
                     pieces |-> fwd[i].pieces, lag |-> fwd[i].lag]
    <3>1. fwd' = [fwd EXCEPT ![i] = g]
      BY <1>10, OpenAckEffect
    <3>2. g \in Forwarders
      BY <1>10, <1>o, <1>f, ForwarderFacts DEF Forwarders, OpenAck
    <3> HIDE DEF g
    <3> QED
      BY <3>1, <3>2
  <2> QED
    BY <1>10, <1>o, <2>2, <2>4 DEF OpenAck
<1>11. ASSUME NEW t \in Terminals, NEW kind \in {"open", "kill"}, Request(kind, t)
       PROVE  up' \in Seq(UpFrames) /\ Len(up') = Len(up) + 1 /\ sent' \in 0..MaxRequests
              /\ sent' = sent + 1
  <2>1. [kind |-> kind, req |-> sent + 1, term |-> t] \in UpFrames
    BY <1>11 DEF Request, UpFrames, Requests
  <2> QED
    BY <1>11, <2>1, AppendFacts DEF Request
<1>12. ASSUME NEW t \in Terminals, SendOpen(t) \/ SendKill(t) PROVE StreamTypes' /\ IdsSuffice'
  <2>1. PICK kind \in {"open", "kill"} : Request(kind, t)
    BY <1>12 DEF SendOpen, SendKill
  <2>2. known' \in [Ids -> Nat \cup {None}]
    BY <1>12 DEF SendOpen, SendKill, ClearActive
  <2>3. UNCHANGED server /\ UNCHANGED down
    BY <1>12 DEF SendOpen, SendKill
  <2> QED
    BY <1>11, <2>1, <2>2, <2>3
<1>13. CASE RecvAck
  <2>1. down # <<>> /\ Head(down).kind = "ack" /\ down' = Tail(down)
    BY <1>13 DEF RecvAck, Inbound
  <2>2. Head(down).seq \in Nat
    BY <2>1, <1>d DEF DownFrames
  <2>3. known' \in [Ids -> Nat \cup {None}]
    BY <1>13, <2>2 DEF RecvAck
  <2> QED
    BY <1>13, <2>1, <2>3, <1>d DEF RecvAck
<1>14. CASE RecvResponse
  BY <1>14, <1>d DEF RecvResponse, Inbound
<1>15. CASE RecvData
  <2>1. down # <<>> /\ Head(down).kind = "data" /\ down' = Tail(down)
    BY <1>15 DEF RecvData, Inbound
  <2>2. Head(down).seq \in Nat
    BY <2>1, <1>d DEF DownFrames
  <2>3. known' \in [Ids -> Nat \cup {None}]
    BY <1>15, <2>2 DEF RecvData
  <2> QED
    BY <1>15, <2>1, <2>3, <1>d DEF RecvData
<1>16. CASE UNCHANGED vars
  BY <1>16 DEF vars
<1> QED
  BY <1>1, <1>2, <1>3, <1>4, <1>5, <1>6, <1>7, <1>8, <1>9, <1>10, <1>12, <1>13, <1>14, <1>15, <1>16
     DEF Next, ServerStep, ClientStep

-----------------------------------------------------------------------------
(* The life of a subscription *)

LEMMA BroadcastEffect ==
  ASSUME StreamTypes, NEW t \in Terminals, ReaderBroadcast(t), NEW i \in Ids
  PROVE  /\ fwd'[i].state = fwd[i].state /\ fwd'[i].term = fwd[i].term
         /\ fwd'[i].pieces = fwd[i].pieces
         /\ fwd'[i].lag = "no" => fwd[i].lag = "no"
         /\ fwd'[i] = fwd[i] \/ Subscribed(fwd[i], t)
         /\ fwd'[i].buf \in {fwd[i].buf,
              Append(fwd[i].buf, [from |-> head[t] - unsent[t], to |-> head[t]]),
              Append(Tail(fwd[i].buf), [from |-> head[t] - unsent[t], to |-> head[t]])}
         /\ Subscribed(fwd[i], t) /\ fwd'[i].lag # "now" =>
              fwd'[i].buf = Append(fwd[i].buf, [from |-> head[t] - unsent[t], to |-> head[t]])
<1> DEFINE chunk == [from |-> head[t] - unsent[t], to |-> head[t]]
<1>1. chunk \in Chunks
  BY DEF StreamTypes, Chunks
<1>2. fwd'[i] = IF Subscribed(fwd[i], t) THEN Receive(fwd[i], chunk) ELSE fwd[i]
  BY DEF ReaderBroadcast
<1>3. fwd[i] \in Forwarders
  BY DEF StreamTypes
<1> HIDE DEF chunk
<1>4. CASE Subscribed(fwd[i], t)
  <2>1. fwd'[i] = Receive(fwd[i], chunk)
    BY <1>2, <1>4
  <2> QED
    BY <1>1, <1>3, <1>4, <2>1, ReceiveFacts DEF chunk
<1>5. CASE ~Subscribed(fwd[i], t)
  BY <1>2, <1>5
<1> QED
  BY <1>4, <1>5

\* A forwarder task changes only its own record.
LEMMA OthersKept ==
  ASSUME StreamTypes, NEW i \in Ids, Forward(i)
  PROVE  \A j \in Ids \ {i} : fwd'[j] = fwd[j]
<1>0. fwd \in [Ids -> Forwarders]
  BY DEF StreamTypes
<1>1. CASE FwdRecv(i)
  BY <1>0, <1>1, FwdRecvEffect
<1>2. CASE FwdLagged(i)
  BY <1>0, <1>2 DEF FwdLagged
<1>3. CASE FwdSend(i)
  BY <1>0, <1>3 DEF FwdSend
<1>4. CASE FwdDies(i)
  BY <1>0, <1>4 DEF FwdDies
<1> QED
  BY <1>1, <1>2, <1>3, <1>4 DEF Forward

LEMMA ServeOpenEffect ==
  ASSUME StreamTypes, IdsSuffice, ServeOpen
  PROVE  /\ next_id \in Ids
         /\ Head(up) \in UpFrames
         /\ fwd'[next_id] = [state |-> "opening", term |-> Head(up).term, buf |-> <<>>,
                             pieces |-> <<>>, lag |-> "no"]
         /\ \A i \in Ids \ {next_id} :
              /\ fwd'[i].term = fwd[i].term /\ fwd'[i].pieces = fwd[i].pieces
              /\ fwd'[i].buf = fwd[i].buf /\ fwd'[i].lag = fwd[i].lag
              /\ fwd'[i].state = IF i = attached THEN "aborting" ELSE fwd[i].state
              /\ i # attached => fwd'[i] = fwd[i]
<1>1. next_id \in Ids /\ Head(up) \in UpFrames
  <2>1. up # <<>> /\ Len(up) > 0 /\ Head(up) \in UpFrames
    BY TailFacts DEF ServeOpen, StreamTypes
  <2> QED
    BY <2>1, StreamAssumption DEF StreamTypes, IdsSuffice, Ids
<1>2. fwd' = [Aborted(fwd) EXCEPT ![next_id] = [Unused EXCEPT !.state = "opening", !.term = Head(up).term]]
  BY DEF ServeOpen
<1>3. [Unused EXCEPT !.state = "opening", !.term = Head(up).term] =
        [state |-> "opening", term |-> Head(up).term, buf |-> <<>>, pieces |-> <<>>, lag |-> "no"]
  <2>1. PICK r : r = [Unused EXCEPT !.state = "opening", !.term = Head(up).term]
    OBVIOUS
  <2>2. r = [state |-> "opening", term |-> Head(up).term, buf |-> <<>>, pieces |-> <<>>, lag |-> "no"]
    BY <2>1 DEF Unused
  <2> QED
    BY <2>1, <2>2, Zenon
<1>4. ASSUME NEW i \in Ids \ {next_id}
      PROVE  fwd'[i] = IF i = attached THEN [fwd[i] EXCEPT !.state = "aborting"] ELSE fwd[i]
  BY <1>2 DEF Aborted
<1>5. \A i \in Ids : fwd[i] \in Forwarders
  BY DEF StreamTypes
<1>6. fwd'[next_id] = [Unused EXCEPT !.state = "opening", !.term = Head(up).term]
  BY <1>1, <1>2 DEF Aborted
<1>7. \A i \in Ids \ {next_id} :
              /\ fwd'[i].term = fwd[i].term /\ fwd'[i].pieces = fwd[i].pieces
              /\ fwd'[i].buf = fwd[i].buf /\ fwd'[i].lag = fwd[i].lag
              /\ fwd'[i].state = IF i = attached THEN "aborting" ELSE fwd[i].state
              /\ i # attached => fwd'[i] = fwd[i]
  BY <1>4, <1>5 DEF Forwarders
<1> QED
  BY <1>1, <1>3, <1>6, <1>7

LEMMA LifecycleInit == Init => Lifecycle
BY StreamAssumption DEF Init, Lifecycle, NewUnused, OpeningNewest, AttachedRuns, Unused

LEMMA LifecycleStep ==
  StreamTypes /\ IdsSuffice /\ Lifecycle /\ [Next]_vars => Lifecycle'
<1> SUFFICES ASSUME StreamTypes, IdsSuffice, Lifecycle, [Next]_vars PROVE Lifecycle'
  OBVIOUS
<1> USE StreamAssumption DEF client, server
<1>f. \A i \in Ids : fwd[i] \in Forwarders
  BY DEF StreamTypes
<1>o. opening # None => opening.stream \in Ids /\ opening.term \in Terminals
  BY DEF StreamTypes, Openings
<1>1. CASE UNCHANGED <<fwd, attached, opening, next_id>>
  BY <1>1 DEF Lifecycle, NewUnused, OpeningNewest, AttachedRuns
<1>2. ASSUME NEW t \in Terminals, ReaderBroadcast(t) PROVE Lifecycle'
  <2>1. UNCHANGED <<attached, opening, next_id>>
    BY <1>2 DEF ReaderBroadcast
  <2>2. \A i \in Ids : /\ fwd'[i].state = fwd[i].state /\ fwd'[i].term = fwd[i].term
                       /\ fwd'[i].pieces = fwd[i].pieces
                       /\ fwd[i].state = "none" => fwd'[i] = fwd[i]
    BY <1>2, BroadcastEffect DEF Subscribed
  <2>3. \A i \in Ids : i >= next_id => fwd[i].state = "none"
    BY DEF Lifecycle, NewUnused, OpeningNewest, AttachedRuns, Unused
  <2> QED
    <3>1. NewUnused'
      BY <2>1, <2>2, <2>3 DEF Lifecycle, NewUnused
    <3>2. OpeningNewest'
      BY <1>o, <2>1, <2>2 DEF Lifecycle, OpeningNewest
    <3>3. AttachedRuns'
      BY <2>1, <2>2 DEF Lifecycle, AttachedRuns, StreamTypes
    <3> QED
      BY <2>2, <3>1, <3>2, <3>3 DEF Lifecycle
\* A forwarder task changes only its own record, and not its life until it dies.
<1>3. ASSUME NEW i \in Ids, Forward(i) PROVE Lifecycle'
  <2>1. UNCHANGED <<attached, opening, next_id>> /\ fwd[i].state \in {"run", "aborting"}
    BY <1>3 DEF Forward, FwdRecv, FwdLagged, FwdSend, FwdDies, Running
  <2>2. \A j \in Ids \ {i} : fwd'[j] = fwd[j]
    BY <1>3, OthersKept
  <2>3. /\ fwd'[i].state \in {fwd[i].state, "dead"}
        /\ fwd'[i].term = fwd[i].term
        /\ fwd[i].state = "run" => fwd'[i].state = "run"
    <3>1. CASE FwdRecv(i)
      BY <3>1, <1>f, FwdRecvEffect DEF StreamTypes
    <3>2. CASE FwdLagged(i)
      BY <3>2, <1>f DEF FwdLagged, Forwarders, StreamTypes
    <3>3. CASE FwdSend(i)
      BY <3>3, <1>f DEF FwdSend, Forwarders, StreamTypes
    <3>4. CASE FwdDies(i)
      <4>1. fwd'[i] = Dead(fwd[i])
        BY <3>4 DEF FwdDies, StreamTypes
      <4> QED
        BY <3>4, <4>1, <1>f, DeadFacts DEF FwdDies
    <3> QED
      BY <1>3, <3>1, <3>2, <3>3, <3>4 DEF Forward
  <2>4. i < next_id
    BY <2>1 DEF Lifecycle, NewUnused, OpeningNewest, AttachedRuns, Unused, StreamTypes, Ids
  <2>5. NewUnused'
    BY <2>1, <2>2, <2>4 DEF Lifecycle, NewUnused, StreamTypes, Ids
  <2>6. \A j \in Ids : fwd'[j].state = "opening" => fwd'[j].pieces = <<>>
    BY <2>1, <2>2, <2>3 DEF Lifecycle, NewUnused, OpeningNewest, AttachedRuns
  <2>7. OpeningNewest'
    <3>1. opening # None => opening.stream # i
      BY <2>1 DEF Lifecycle, OpeningNewest
    <3> QED
      BY <1>o, <2>1, <2>2, <3>1 DEF Lifecycle, OpeningNewest
  <2>8. AttachedRuns'
    BY <2>1, <2>2, <2>3 DEF Lifecycle, AttachedRuns, StreamTypes
  <2> QED
    BY <2>5, <2>6, <2>7, <2>8 DEF Lifecycle
<1>4. CASE ServeOpen
  <2>1. /\ attached' = None /\ next_id' = next_id + 1 /\ opening = None
        /\ opening' = [req |-> Head(up).req, term |-> Head(up).term, stream |-> next_id, end |-> None]
    BY <1>4 DEF ServeOpen
  <2>2. opening'.stream = next_id /\ opening'.term = Head(up).term
    BY <2>1
  <2>3. /\ next_id \in Ids
        /\ fwd'[next_id].state = "opening" /\ fwd'[next_id].term = Head(up).term
        /\ fwd'[next_id].pieces = <<>>
        /\ \A i \in Ids \ {next_id} :
              /\ fwd'[i].pieces = fwd[i].pieces
              /\ fwd'[i].state \in {"aborting", fwd[i].state}
              /\ i # attached => fwd'[i] = fwd[i]
    BY <1>4, ServeOpenEffect
  <2>4. \A i \in Ids : i >= next_id + 1 => i # attached /\ i # next_id
    BY DEF Lifecycle, NewUnused, OpeningNewest, AttachedRuns, StreamTypes, Ids
  <2>5. \A i \in Ids : i >= next_id + 1 => fwd'[i] = Unused
    BY <2>3, <2>4 DEF Lifecycle, NewUnused, OpeningNewest, AttachedRuns, StreamTypes, Ids
  <2>6. \A i \in Ids : fwd'[i].state = "opening" => fwd'[i].pieces = <<>>
    BY <2>3 DEF Lifecycle, NewUnused, OpeningNewest, AttachedRuns
  <2> QED
    BY <2>1, <2>2, <2>3, <2>5, <2>6 DEF Lifecycle, NewUnused, OpeningNewest, AttachedRuns
<1>5. CASE OpenSnapshot
  <2>1. UNCHANGED <<fwd, attached, next_id>> /\ opening # None
        /\ opening'.stream = opening.stream /\ opening'.term = opening.term
    BY <1>5 DEF OpenSnapshot, StreamTypes, Openings
  <2> QED
    BY <2>1 DEF Lifecycle, NewUnused, OpeningNewest, AttachedRuns
<1>6. CASE OpenVanished
  <2>1. UNCHANGED <<attached, next_id>> /\ opening # None /\ opening' = None
        /\ fwd' = [fwd EXCEPT ![opening.stream] = Dead(@)]
    BY <1>6 DEF OpenVanished
  <2>2. fwd'[opening.stream].state = "dead"
    BY <2>1, <1>o, <1>f, DeadFacts DEF StreamTypes
  <2>3. \A i \in Ids \ {opening.stream} : fwd'[i] = fwd[i]
    BY <2>1, <1>o
  <2>4. opening.stream \in Ids /\ opening.stream + 1 = next_id /\ opening.stream < next_id
    BY <2>1, <1>o DEF Lifecycle, OpeningNewest, Ids, StreamTypes
  <2>7. \A i \in Ids : i >= next_id => i # opening.stream /\ fwd[i] = Unused
    BY <2>4 DEF Lifecycle, NewUnused, StreamTypes, Ids
  <2>5. NewUnused'
    BY <2>1, <2>3, <2>7, Zenon DEF NewUnused
  <2>6. \A j \in Ids : fwd'[j].state = "opening" => fwd'[j].pieces = <<>>
    BY <2>2, <2>3 DEF Lifecycle, NewUnused, OpeningNewest, AttachedRuns
  <2> QED
    BY <1>o, <2>1, <2>2, <2>3, <2>4, <2>5, <2>6 DEF Lifecycle, OpeningNewest, AttachedRuns
<1>7. CASE OpenAck
  <2>1. UNCHANGED next_id /\ opening # None /\ opening' = None /\ attached' = opening.stream
    BY <1>7 DEF OpenAck
  <2>2. fwd'[opening.stream].state = "run" /\ fwd'[opening.stream].term = opening.term
    BY <1>7, <2>1, <1>o, OpenAckEffect DEF StreamTypes
  <2>3. \A i \in Ids \ {opening.stream} : fwd'[i] = fwd[i]
    BY <1>7, <2>1, <1>o, OpenAckEffect DEF StreamTypes
  <2>4. opening.stream \in Ids /\ opening.stream + 1 = next_id /\ opening.stream < next_id
    BY <2>1, <1>o DEF Lifecycle, OpeningNewest, Ids, StreamTypes
  <2>7. \A i \in Ids : i >= next_id => i # opening.stream /\ fwd[i] = Unused
    BY <2>4 DEF Lifecycle, NewUnused, StreamTypes, Ids
  <2>5. NewUnused'
    BY <2>1, <2>3, <2>7, Zenon DEF NewUnused
  <2>6. \A j \in Ids : fwd'[j].state = "opening" => fwd'[j].pieces = <<>>
    BY <2>2, <2>3 DEF Lifecycle, NewUnused, OpeningNewest, AttachedRuns
  <2> QED
    BY <1>o, <2>1, <2>2, <2>3, <2>4, <2>5, <2>6 DEF Lifecycle, OpeningNewest, AttachedRuns
<1>8. CASE \E t \in Terminals : ReaderPush(t) \/ Reap(t) \/ SendOpen(t) \/ SendKill(t)
  BY <1>8, <1>1, Zenon DEF ReaderPush, Reap, SendOpen, SendKill
<1>9. CASE ServeOutput \/ ServeOpenUnknown \/ ServeKill \/ ClientStep
  BY <1>9, <1>1, Zenon DEF ServeOutput, ServeOpenUnknown, ServeKill, ClientStep, RecvAck, RecvResponse, RecvData
<1> QED
  BY <1>1, <1>2, <1>3, <1>4, <1>5, <1>6, <1>7, <1>8, <1>9 DEF Next, ServerStep, vars

-----------------------------------------------------------------------------
(* The order of the frames *)

LEMMA BoundsKept ==
  ASSUME StreamTypes, IdsSuffice, Lifecycle, [Next]_vars, NEW i \in Nat
  PROVE  (Older(i) => Older(i)') /\ (Bounded(i) => Bounded(i)')
<1> USE DEF client, server
<1>t. next_id \in Nat /\ (attached # None => attached \in Nat)
      /\ (opening # None => opening.stream \in Nat /\ opening.stream + 1 = next_id)
  BY DEF StreamTypes, Openings, Ids, Lifecycle, OpeningNewest
<1>1. CASE UNCHANGED <<attached, opening, next_id>>
  BY <1>1 DEF Older, Bounded
<1>2. CASE ServeOpen
  <2>1. /\ attached' = None /\ next_id' = next_id + 1 /\ opening = None
        /\ opening' = [req |-> Head(up).req, term |-> Head(up).term, stream |-> next_id, end |-> None]
    BY <1>2 DEF ServeOpen
  <2>2. opening'.stream = next_id
    BY <2>1
  <2> QED
    BY <1>t, <2>1, <2>2 DEF Older, Bounded
<1>3. CASE OpenSnapshot
  <2>1. UNCHANGED <<attached, next_id>> /\ opening # None /\ opening'.stream = opening.stream
    BY <1>3 DEF OpenSnapshot, StreamTypes, Openings
  <2> QED
    BY <2>1 DEF Older, Bounded
<1>4. CASE OpenVanished
  BY <1>4, <1>t DEF OpenVanished, Older, Bounded
<1>5. CASE OpenAck
  BY <1>5, <1>t DEF OpenAck, Older, Bounded
<1>6. CASE \E t \in Terminals : ReaderPush(t) \/ ReaderBroadcast(t) \/ Reap(t) \/ SendOpen(t) \/ SendKill(t)
  BY <1>6, <1>1, Zenon DEF ReaderPush, ReaderBroadcast, Reap, SendOpen, SendKill
<1>7. CASE \E j \in Ids : Forward(j)
  BY <1>7, <1>1, Zenon DEF Forward, FwdRecv, FwdLagged, FwdSend, FwdDies
<1>8. CASE ServeOutput \/ ServeOpenUnknown \/ ServeKill \/ ClientStep
  BY <1>8, <1>1, Zenon DEF ServeOutput, ServeOpenUnknown, ServeKill, ClientStep, RecvAck, RecvResponse, RecvData
<1> QED
  BY <1>1, <1>2, <1>3, <1>4, <1>5, <1>6, <1>7, <1>8 DEF Next, ServerStep, vars

LEMMA FrameFacts ==
  ASSUME NEW f \in DownFrames, IsAck(f) \/ IsData(f)
  PROVE  f.stream \in Ids /\ f.stream \in Nat /\ f.seq \in Nat
BY DEF DownFrames, IsAck, IsData, Ids

\* A frame is added that is newer than every ack, or as new if it is output.
LEMMA OrderedAppend ==
  ASSUME StreamTypes, Ordered, NEW f \in DownFrames,
         down' = Append(down, f), known' = known,
         \A i \in Nat : (Older(i) => Older(i)') /\ (Bounded(i) => Bounded(i)'),
         IsAck(f) => /\ Bounded(f.stream)'
                     /\ \A i \in Nat : Older(i) => i < f.stream,
         IsData(f) => /\ Older(f.stream)'
                      /\ \A i \in Nat : Bounded(i) => i <= f.stream
  PROVE  Ordered'
<1>1. /\ DOMAIN down' = 1..(Len(down) + 1)
      /\ \A k \in DOMAIN down : down'[k] = down[k] /\ down[k] \in DownFrames
      /\ down'[Len(down) + 1] = f
      /\ DOMAIN down = 1..Len(down) /\ Len(down) \in Nat
  BY AppendFacts DEF StreamTypes
<1>2. \A k \in DOMAIN down' : k \in DOMAIN down \/ k = Len(down) + 1
  BY <1>1
<1>3. \A k \in DOMAIN down : IsAck(down[k]) \/ IsData(down[k]) => down[k].stream \in Nat
  BY <1>1, FrameFacts
<1>4. \A i \in Ids : i \in Nat
  BY DEF Ids
<1>5. KnownBounded'
  BY <1>4 DEF Ordered, KnownBounded
<1>6. AcksBounded'
  <2> SUFFICES ASSUME NEW k \in DOMAIN down', IsAck(down'[k])
               PROVE  (Bounded(down[k].stream) /\ \A i \in Ids : known[i] # None => i < down[k].stream)'
    BY Zenon DEF AcksBounded
  <2>1. CASE k \in DOMAIN down
    BY <2>1, <1>1, <1>3 DEF Ordered, AcksBounded
  <2>2. CASE k = Len(down) + 1
    BY <2>2, <1>1, <1>4 DEF Ordered, KnownBounded, Bounded
  <2> QED
    BY <1>2, <2>1, <2>2
<1>7. DataBounded'
  <2> SUFFICES ASSUME NEW k \in DOMAIN down', IsData(down'[k])
               PROVE  (Older(down[k].stream) /\ \A i \in Ids : known[i] # None => i <= down[k].stream)'
    BY Zenon DEF DataBounded
  <2>1. CASE k \in DOMAIN down
    BY <2>1, <1>1, <1>3 DEF Ordered, DataBounded
  <2>2. CASE k = Len(down) + 1
    BY <2>2, <1>1, <1>4 DEF Ordered, KnownBounded
  <2> QED
    BY <1>2, <2>1, <2>2
<1>8. FramesOrdered'
  <2> SUFFICES ASSUME NEW j \in DOMAIN down', NEW k \in DOMAIN down', j < k
               PROVE  /\ IsAck(down'[j]) /\ IsAck(down'[k]) => down'[j].stream < down'[k].stream
                      /\ IsAck(down'[j]) /\ IsData(down'[k]) => down'[j].stream <= down'[k].stream
                      /\ IsData(down'[j]) /\ IsAck(down'[k]) => down'[j].stream < down'[k].stream
    BY Zenon DEF FramesOrdered
  <2>0. j \in DOMAIN down
    BY <1>1
  <2>1. CASE k \in DOMAIN down
    BY <2>0, <2>1, <1>1 DEF Ordered, FramesOrdered
  <2>2. CASE k = Len(down) + 1
    <3>1. IsAck(down[j]) => Bounded(down[j].stream) /\ Older(down[j].stream)
      BY <2>0 DEF Ordered, AcksBounded, Bounded
    <3>2. IsData(down[j]) => Older(down[j].stream)
      BY <2>0 DEF Ordered, DataBounded
    <3> QED
      BY <2>0, <2>2, <1>1, <1>3, <3>1, <3>2
  <2> QED
    BY <1>2, <2>1, <2>2
<1> QED
  BY <1>5, <1>6, <1>7, <1>8 DEF Ordered

\* The first frame is taken; what becomes known is what an ack announced.
LEMMA OrderedTail ==
  ASSUME StreamTypes, Ordered, down # <<>>, down' = Tail(down),
         \A i \in Nat : (Older(i) => Older(i)') /\ (Bounded(i) => Bounded(i)'),
         \A i \in Ids : known'[i] # None =>
           known[i] # None \/ (IsAck(Head(down)) /\ Head(down).stream = i)
  PROVE  Ordered'
<1>1. /\ \A k \in DOMAIN down' : k + 1 \in DOMAIN down /\ down'[k] = down[k + 1]
      /\ \A k \in DOMAIN down : down[k] \in DownFrames
      /\ 1 \in DOMAIN down /\ Head(down) = down[1]
      /\ DOMAIN down' \subseteq Nat /\ (\A k \in DOMAIN down' : 1 < k + 1)
  BY TailFacts DEF StreamTypes
<1>3. \A k \in DOMAIN down : IsAck(down[k]) \/ IsData(down[k]) => down[k].stream \in Nat
  BY <1>1, FrameFacts
<1>4. \A i \in Ids : i \in Nat
  BY DEF Ids
<1>5. KnownBounded'
  <2> SUFFICES ASSUME NEW i \in Ids, known'[i] # None PROVE Bounded(i)'
    BY DEF KnownBounded
  <2>1. Bounded(i)
    BY <1>1 DEF Ordered, KnownBounded, AcksBounded
  <2> QED
    BY <1>4, <2>1
<1>6. AcksBounded'
  <2> SUFFICES ASSUME NEW k \in DOMAIN down', IsAck(down'[k])
               PROVE  (Bounded(down[k].stream) /\ \A i \in Ids : known[i] # None => i < down[k].stream)'
    BY Zenon DEF AcksBounded
  <2>1. IsAck(down[k + 1]) /\ Bounded(down[k + 1].stream) /\ down[k + 1].stream \in Nat
    BY <1>1, <1>3 DEF Ordered, AcksBounded
  <2>2. \A i \in Ids : known'[i] # None => i < down[k + 1].stream
    BY <1>1, <2>1 DEF Ordered, AcksBounded, FramesOrdered
  <2> QED
    BY <1>1, <2>1, <2>2
<1>7. DataBounded'
  <2> SUFFICES ASSUME NEW k \in DOMAIN down', IsData(down'[k])
               PROVE  (Older(down[k].stream) /\ \A i \in Ids : known[i] # None => i <= down[k].stream)'
    BY Zenon DEF DataBounded
  <2>1. IsData(down[k + 1]) /\ Older(down[k + 1].stream) /\ down[k + 1].stream \in Nat
    BY <1>1, <1>3 DEF Ordered, DataBounded
  <2>2. \A i \in Ids : known'[i] # None => i <= down[k + 1].stream
    BY <1>1, <2>1 DEF Ordered, DataBounded, FramesOrdered
  <2> QED
    BY <1>1, <2>1, <2>2
<1>8. FramesOrdered'
  <2> SUFFICES ASSUME NEW j \in DOMAIN down', NEW k \in DOMAIN down', j < k
               PROVE  /\ IsAck(down'[j]) /\ IsAck(down'[k]) => down'[j].stream < down'[k].stream
                      /\ IsAck(down'[j]) /\ IsData(down'[k]) => down'[j].stream <= down'[k].stream
                      /\ IsData(down'[j]) /\ IsAck(down'[k]) => down'[j].stream < down'[k].stream
    BY Zenon DEF FramesOrdered
  <2>1. j + 1 < k + 1
    BY <1>1
  <2> QED
    BY <1>1, <2>1 DEF Ordered, FramesOrdered
<1> QED
  BY <1>5, <1>6, <1>7, <1>8 DEF Ordered

LEMMA OrderedInit == Init => Ordered /\ OutOlder
BY DEF Init, Ordered, KnownBounded, AcksBounded, DataBounded, FramesOrdered, OutOlder

LEMMA OrderedStep ==
  StreamTypes /\ IdsSuffice /\ Lifecycle /\ Ordered /\ [Next]_vars => Ordered'
<1> SUFFICES ASSUME StreamTypes, IdsSuffice, Lifecycle, Ordered, [Next]_vars PROVE Ordered'
  OBVIOUS
<1> USE StreamAssumption DEF client, server
<1>b. \A i \in Nat : (Older(i) => Older(i)') /\ (Bounded(i) => Bounded(i)')
  BY BoundsKept
<1>d. down # <<>> => Head(down) \in DownFrames
  BY TailFacts DEF StreamTypes
<1>k. \A k \in DOMAIN down : IsAck(down[k]) \/ IsData(down[k]) => down[k].stream \in Nat
  BY FrameFacts DEF StreamTypes
<1>i. \A i \in Ids : i \in Nat
  BY DEF Ids
\* The frames stay, and known streams may be forgotten.
<1>1. CASE down' = down /\ \A i \in Ids : known'[i] # None => known[i] # None
  <2>1. KnownBounded'
    BY <1>1, <1>b, <1>i DEF Ordered, KnownBounded
  <2>2. AcksBounded'
    BY <1>1, <1>b, <1>k DEF Ordered, AcksBounded
  <2>3. DataBounded'
    BY <1>1, <1>b, <1>k DEF Ordered, DataBounded
  <2>4. FramesOrdered'
    BY <1>1 DEF Ordered, FramesOrdered
  <2> QED
    BY <2>1, <2>2, <2>3, <2>4 DEF Ordered
<1>2. ASSUME NEW f \in DownFrames, down' = Append(down, f), ~IsAck(f), ~IsData(f), known' = known
      PROVE  Ordered'
  BY <1>2, <1>b, OrderedAppend
<1>r. \A kind \in {"error", "killed"} : \A r \in Requests :
        Response(kind, r) \in DownFrames /\ ~IsAck(Response(kind, r)) /\ ~IsData(Response(kind, r))
  BY DEF Response, DownFrames, IsAck, IsData
<1>u. up # <<>> => Head(up).req \in Requests
  <2>1. up # <<>> => Head(up) \in UpFrames
    BY TailFacts DEF StreamTypes
  <2> QED
    BY <2>1 DEF UpFrames
<1>3. CASE ServeOpenUnknown
  <2>1. Head(up).req \in Requests
    BY <1>3, <1>u DEF ServeOpenUnknown
  <2> QED
    BY <1>3, <2>1, <1>2, <1>r DEF ServeOpenUnknown
<1>4. CASE ServeKill
  <2>1. Head(up).req \in Requests
    BY <1>4, <1>u DEF ServeKill
  <2>2. PICK kind \in {"error", "killed"} : down' = Append(down, Response(kind, Head(up).req))
    BY <1>4 DEF ServeKill
  <2>3. known' = known
    BY <1>4 DEF ServeKill
  <2> QED
    BY <2>1, <2>2, <2>3, <1>2, <1>r
<1>5. CASE OpenVanished
  <2>1. opening.req \in Requests
    BY <1>5 DEF OpenVanished, StreamTypes, Openings
  <2> QED
    BY <1>5, <2>1, <1>2, <1>r DEF OpenVanished
<1>6. CASE OpenAck
  <2>1. /\ opening # None /\ opening.req \in Requests /\ opening.stream \in Ids
        /\ opening.end \in Nat /\ opening.stream \in Nat /\ opening.stream < next_id
    BY <1>6, <1>i DEF OpenAck, StreamTypes, Openings, Lifecycle, OpeningNewest
  <2>7. [kind |-> "ack", req |-> opening.req, stream |-> opening.stream, seq |-> opening.end]
          \in DownFrames
    BY <2>1 DEF DownFrames
  <2>2. PICK f \in DownFrames : /\ IsAck(f) /\ ~IsData(f) /\ f.stream = opening.stream
                                /\ down' = Append(down, f)
    BY <1>6, <2>7 DEF IsAck, IsData, OpenAck
  <2>3. known' = known
    BY <1>6 DEF OpenAck
  <2>4. opening' = None /\ attached' = opening.stream /\ next_id' = next_id
    BY <1>6 DEF OpenAck
  <2>5. Bounded(f.stream)'
    BY <2>1, <2>2, <2>4 DEF Bounded, Older
  <2>6. \A i \in Nat : Older(i) => i < f.stream
    BY <2>1, <2>2 DEF Older
  <2> QED
    BY <1>b, <2>2, <2>3, <2>5, <2>6, OrderedAppend
<1>7. CASE ServeOutput /\ Head(outq).stream = attached
  <2>1. attached \in Ids /\ attached \in Nat /\ Head(outq).seq \in Nat
    <3>1. Head(outq) \in OutFrames
      BY <1>7, TailFacts DEF ServeOutput, StreamTypes
    <3> QED
      BY <1>7, <1>i, <3>1 DEF OutFrames
  <2>7. [kind |-> "data", req |-> None, stream |-> attached, seq |-> Head(outq).seq] \in DownFrames
    BY <2>1 DEF DownFrames
  <2>2. PICK f \in DownFrames : /\ ~IsAck(f) /\ IsData(f) /\ f.stream = attached
                                /\ down' = Append(down, f)
    BY <1>7, <2>7 DEF IsAck, IsData, ServeOutput
  <2>3. known' = known
    BY <1>7 DEF ServeOutput
  <2>4. opening' = None /\ next_id' = next_id /\ attached # None /\ attached < next_id
    BY <1>7, <2>1 DEF ServeOutput, Lifecycle, AttachedRuns
  <2>5. Older(f.stream)'
    BY <2>1, <2>2, <2>4 DEF Older
  <2>6. \A i \in Nat : Bounded(i) => i <= f.stream
    BY <2>2, <2>4 DEF Bounded
  <2> QED
    BY <1>b, <2>2, <2>3, <2>5, <2>6, OrderedAppend
<1>8. CASE ServeOutput /\ Head(outq).stream # attached
  BY <1>8, <1>1 DEF ServeOutput
<1>9. CASE RecvAck \/ RecvResponse \/ RecvData
  <2>1. down # <<>> /\ down' = Tail(down)
    BY <1>9 DEF RecvAck, RecvResponse, RecvData, Inbound
  <2>2. \A i \in Ids : known'[i] # None =>
           known[i] # None \/ (IsAck(Head(down)) /\ Head(down).stream = i)
    <3>1. CASE RecvAck
      BY <3>1 DEF RecvAck, Inbound, IsAck, StreamTypes
    <3>2. CASE RecvResponse
      BY <3>2 DEF RecvResponse
    <3>3. CASE RecvData
      BY <3>3 DEF RecvData, StreamTypes
    <3> QED
      BY <1>9, <3>1, <3>2, <3>3
  <2> QED
    BY <1>b, <2>1, <2>2, OrderedTail
<1>10. CASE \E t \in Terminals : SendOpen(t) \/ SendKill(t)
  <2>1. down' = down
    BY <1>10 DEF SendOpen, SendKill
  <2>2. \A i \in Ids : known'[i] # None => known[i] # None
    BY <1>10 DEF SendOpen, SendKill, ClearActive
  <2> QED
    BY <1>1, <2>1, <2>2
<1>11. CASE \E t \in Terminals : ReaderPush(t) \/ ReaderBroadcast(t) \/ Reap(t)
  <2>1. down' = down /\ known' = known
    BY <1>11, Zenon DEF ReaderPush, ReaderBroadcast, Reap
  <2> QED
    BY <1>1, <2>1
<1>12. CASE \E i \in Ids : Forward(i)
  <2>1. down' = down /\ known' = known
    BY <1>12, Zenon DEF Forward, FwdRecv, FwdLagged, FwdSend, FwdDies
  <2> QED
    BY <1>1, <2>1
<1>13. CASE ServeOpen \/ OpenSnapshot \/ UNCHANGED vars
  <2>1. down' = down /\ known' = known
    BY <1>13, Zenon DEF ServeOpen, OpenSnapshot, vars
  <2> QED
    BY <1>1, <2>1
<1> QED
  BY <1>3, <1>4, <1>5, <1>6, <1>7, <1>8, <1>9, <1>10, <1>11, <1>12, <1>13
     DEF Next, ServerStep, ClientStep

LEMMA SwitchFollows == StreamTypes /\ Ordered => SwitchIsClean
<1> SUFFICES ASSUME StreamTypes, Ordered,
                    NEW k \in DOMAIN down, IsData(down[k]), NEW i \in AckedBefore(k)
             PROVE  i <= down[k].stream
  BY DEF SwitchIsClean, IsData
<1>0. DOMAIN down = 1..Len(down) /\ Len(down) \in Nat
  BY DEF StreamTypes
<1>1. CASE i \in Ids /\ known[i] # None
  BY <1>1 DEF Ordered, DataBounded
<1>2. ASSUME NEW j \in 1..(k - 1), IsAck(down[j]), i = down[j].stream PROVE i <= down[k].stream
  <2>1. j \in DOMAIN down /\ j < k
    BY <1>0
  <2> QED
    BY <1>2, <2>1 DEF Ordered, FramesOrdered
<1> QED
  BY <1>1, <1>2 DEF AckedBefore, IsAck

-----------------------------------------------------------------------------
(* The output of a stream on its way *)

\* Each step leaves the frames to the client, adds one or takes the first.
LEMMA DownEffect ==
  ASSUME StreamTypes, IdsSuffice, Lifecycle, [Next]_vars
  PROVE  \/ down' = down
         \/ \E f \in DownFrames :
              /\ down' = Append(down, f) /\ UNCHANGED <<known, active>>
              /\ IsAck(f) => OpenAck /\ f.stream = opening.stream /\ f.seq = opening.end
              /\ IsData(f) => ServeOutput /\ f.stream = attached /\ Head(outq).stream = attached
                              /\ f.seq = Head(outq).seq
              /\ opening' \in {opening, None}
         \/ down # <<>> /\ down' = Tail(down) /\ ClientStep
<1> USE DEF client, server
<1>u. up # <<>> => Head(up).req \in Requests
  <2>1. up # <<>> => Head(up) \in UpFrames
    BY TailFacts DEF StreamTypes
  <2> QED
    BY <2>1 DEF UpFrames
<1>r. \A kind \in {"error", "killed"} : \A r \in Requests :
        Response(kind, r) \in DownFrames /\ ~IsAck(Response(kind, r)) /\ ~IsData(Response(kind, r))
  BY DEF Response, DownFrames, IsAck, IsData
<1>1. CASE ServeOpenUnknown
  BY <1>1, <1>u, <1>r DEF ServeOpenUnknown
<1>2. CASE ServeKill
  <2>1. PICK kind \in {"error", "killed"} : down' = Append(down, Response(kind, Head(up).req))
    BY <1>2 DEF ServeKill
  <2>2. UNCHANGED <<known, active, opening>> /\ up # <<>>
    BY <1>2 DEF ServeKill
  <2> QED
    BY <2>1, <2>2, <1>u, <1>r
<1>3. CASE OpenVanished
  <2>1. opening.req \in Requests
    BY <1>3 DEF OpenVanished, StreamTypes, Openings
  <2> QED
    BY <1>3, <2>1, <1>r DEF OpenVanished
<1>4. CASE OpenAck
  <2> DEFINE f == [kind |-> "ack", req |-> opening.req, stream |-> opening.stream, seq |-> opening.end]
  <2>1. f \in DownFrames /\ IsAck(f) /\ ~IsData(f) /\ f.stream = opening.stream /\ f.seq = opening.end
    BY <1>4 DEF OpenAck, StreamTypes, Openings, DownFrames, IsAck, IsData
  <2>2. down' = Append(down, f) /\ UNCHANGED <<known, active>> /\ opening' = None
    BY <1>4 DEF OpenAck
  <2> HIDE DEF f
  <2> QED
    BY <1>4, <2>1, <2>2
<1>5. CASE ServeOutput
  <2>1. CASE Head(outq).stream # attached
    BY <1>5, <2>1 DEF ServeOutput
  <2>2. CASE Head(outq).stream = attached
    <3> DEFINE f == [kind |-> "data", req |-> None, stream |-> attached, seq |-> Head(outq).seq]
    <3>1. Head(outq) \in OutFrames
      BY <1>5, TailFacts DEF ServeOutput, StreamTypes
    <3>2. f \in DownFrames /\ ~IsAck(f) /\ IsData(f) /\ f.stream = attached /\ f.seq = Head(outq).seq
      BY <2>2, <3>1 DEF OutFrames, DownFrames, IsAck, IsData
    <3>3. down' = Append(down, f) /\ UNCHANGED <<known, active, opening>>
      BY <1>5, <2>2 DEF ServeOutput
    <3> HIDE DEF f
    <3> QED
      BY <1>5, <2>2, <3>2, <3>3
  <2> QED
    BY <2>1, <2>2
<1>6. CASE ClientStep
  BY <1>6 DEF ClientStep, RecvAck, RecvResponse, RecvData, Inbound
<1>7. CASE \E t \in Terminals : ReaderPush(t) \/ ReaderBroadcast(t) \/ Reap(t) \/ SendOpen(t) \/ SendKill(t)
  BY <1>7, Zenon DEF ReaderPush, ReaderBroadcast, Reap, SendOpen, SendKill
<1>8. CASE \E i \in Ids : Forward(i)
  BY <1>8, Zenon DEF Forward, FwdRecv, FwdLagged, FwdSend, FwdDies
<1>9. CASE ServeOpen \/ OpenSnapshot \/ UNCHANGED vars
  BY <1>9, Zenon DEF ServeOpen, OpenSnapshot, vars
<1> QED
  BY <1>1, <1>2, <1>3, <1>4, <1>5, <1>6, <1>7, <1>8, <1>9 DEF Next, ServerStep

LEMMA KnownNotAcked ==
  ASSUME StreamTypes, Ordered, NEW i \in Ids, known[i] # None
  PROVE  NoAck(i)
BY DEF Ordered, AcksBounded, NoAck, Ids

\* What the client has of an older stream, it has until it forgets the stream.
LEMMA AtClientKept ==
  ASSUME StreamTypes, IdsSuffice, Lifecycle, Ordered, [Next]_vars,
         NEW i \in Ids, Older(i), NEW n \in Nat, AtClient(i, n)
  PROVE  AtClient(i, n)'
<1> USE StreamAssumption DEF client, server
<1>0. i \in Nat /\ known \in [Ids -> Nat \cup {None}]
  BY DEF Ids, StreamTypes
<1>o. ~(opening # None /\ opening.stream = i)
  BY <1>0 DEF Older, StreamTypes, Openings, Ids
<1>1. ~(opening # None /\ opening.stream = i)'
  <2>1. Older(i)'
    BY <1>0, BoundsKept
  <2>2. StreamTypes'
    BY StreamTypesStep
  <2> QED
    BY <1>0, <2>1, <2>2 DEF Older, StreamTypes, Openings, Ids
<1>2. CASE NoAck(i)' /\ UNCHANGED <<known, active>>
  BY <1>2, <1>1, <1>o DEF AtClient, Forgotten, Current
<1>3. NoAck(i)
  BY <1>o, KnownNotAcked DEF AtClient, Forgotten, Current
<1>4. CASE down' = down
  <2>1. CASE UNCHANGED <<known, active>>
    BY <1>2, <1>3, <1>4, <2>1 DEF NoAck
  <2>2. CASE \E t \in Terminals : SendOpen(t) \/ SendKill(t)
    <3>1. \/ UNCHANGED <<known, active>>
          \/ active' = None
      BY <2>2 DEF SendOpen, SendKill, ClearActive
    <3>2. active' = None => Forgotten(i)'
      BY <1>1, <1>3, <1>4 DEF Forgotten, NoAck, Current
    <3> QED
      BY <2>1, <3>1, <3>2 DEF AtClient
  <2>3. UNCHANGED <<known, active>> \/ (\E t \in Terminals : SendOpen(t) \/ SendKill(t)) \/ ClientStep
    <3>1. CASE \E t \in Terminals : ReaderPush(t) \/ ReaderBroadcast(t) \/ Reap(t)
      BY <3>1, Zenon DEF ReaderPush, ReaderBroadcast, Reap
    <3>2. CASE \E j \in Ids : Forward(j)
      BY <3>2, Zenon DEF Forward, FwdRecv, FwdLagged, FwdSend, FwdDies
    <3>3. CASE ServerStep
      BY <3>3, Zenon DEF ServerStep, ServeOutput, ServeOpenUnknown, ServeOpen, ServeKill, OpenSnapshot, OpenVanished, OpenAck
    <3>4. CASE UNCHANGED vars
      BY <3>4 DEF vars
    <3> QED
      BY <3>1, <3>2, <3>3, <3>4 DEF Next
  <2>4. ~ClientStep
    <3>1. down # <<>> => Tail(down) # down
      <4>1. down # <<>> => Len(Tail(down)) = Len(down) - 1 /\ Len(down) \in Nat
        BY TailFacts DEF StreamTypes
      <4> QED
        BY <4>1
    <3> QED
      BY <1>4, <3>1 DEF ClientStep, RecvAck, RecvResponse, RecvData, Inbound
  <2> QED
    BY <2>1, <2>2, <2>3, <2>4
<1>5. ASSUME NEW f \in DownFrames, down' = Append(down, f), UNCHANGED <<known, active>>,
             IsAck(f) => opening # None /\ f.stream = opening.stream
      PROVE  AtClient(i, n)'
  <2>1. /\ DOMAIN down' = 1..(Len(down) + 1) /\ DOMAIN down = 1..Len(down) /\ Len(down) \in Nat
        /\ \A k \in DOMAIN down : down'[k] = down[k]
        /\ down'[Len(down) + 1] = f
    BY <1>5, AppendFacts DEF StreamTypes
  <2>2. ~(IsAck(f) /\ f.stream = i)
    BY <1>5, <1>o
  <2>3. NoAck(i)'
    BY <2>1, <2>2, <1>3 DEF NoAck
  <2> QED
    BY <1>2, <1>5, <2>3
<1>6. CASE down # <<>> /\ down' = Tail(down) /\ ClientStep
  <2>1. /\ \A k \in DOMAIN down' : k + 1 \in DOMAIN down /\ down'[k] = down[k + 1]
        /\ 1 \in DOMAIN down /\ Head(down) = down[1] /\ Head(down) \in DownFrames
    BY <1>6, TailFacts DEF StreamTypes
  <2>2. NoAck(i)'
    BY <2>1, <1>3 DEF NoAck
  <2>3. CASE RecvResponse
    BY <1>2, <2>2, <2>3 DEF RecvResponse
  <2>4. CASE RecvAck
    <3>1. Head(down).kind = "ack" /\ active'.stream = Head(down).stream
      BY <2>4 DEF RecvAck, Inbound
    <3>2. Head(down).stream # i
      BY <3>1, <2>1, <1>3 DEF NoAck, IsAck
    <3> QED
      BY <3>1, <3>2, <2>2, <1>1 DEF AtClient, Forgotten, Current
  <2>5. CASE RecvData
    <3>1. /\ active' = active
          /\ \/ known' = known
             \/ /\ known' = [known EXCEPT ![Head(down).stream] = Head(down).seq]
                /\ known[Head(down).stream] # None
                /\ Head(down).seq >= known[Head(down).stream]
      BY <2>5 DEF RecvData
    <3>2. Head(down).seq \in Nat /\ Head(down).stream \in Ids
      BY <2>5, <2>1, FrameFacts DEF RecvData, Inbound, IsData
    <3>3. /\ (known'[i] = None) = (known[i] = None)
          /\ known[i] # None => known'[i] \in Nat /\ known'[i] >= known[i]
      BY <1>0, <3>1, <3>2
    <3> QED
      BY <1>0, <1>1, <1>o, <2>2, <3>1, <3>3 DEF AtClient, Forgotten, Current
  <2> QED
    BY <1>6, <2>3, <2>4, <2>5 DEF ClientStep
<1>7. OpenAck => opening # None
  BY DEF OpenAck
<1> QED
  BY DownEffect, <1>4, <1>5, <1>6, <1>7

\* The frame the client takes is what it has then.
LEMMA HeadTaken ==
  ASSUME StreamTypes, IdsSuffice, Lifecycle, Ordered, [Next]_vars,
         down # <<>>, down' = Tail(down), ClientStep, NEW i \in Ids, Older(i), NEW n \in Nat,
         IsAck(Head(down)) \/ IsData(Head(down)), Head(down).stream = i, n <= Head(down).seq + 1
  PROVE  AtClient(i, n)'
<1> USE StreamAssumption DEF client, server
<1>0. i \in Nat /\ known \in [Ids -> Nat \cup {None}]
  BY DEF Ids, StreamTypes
<1>1. ~(opening # None /\ opening.stream = i)'
  <2>1. Older(i)'
    BY <1>0, BoundsKept
  <2>2. StreamTypes'
    BY StreamTypesStep
  <2> QED
    BY <1>0, <2>1, <2>2 DEF Older, StreamTypes, Openings, Ids
<1>2. /\ \A k \in DOMAIN down' : k + 1 \in DOMAIN down /\ down'[k] = down[k + 1] /\ 1 < k + 1
      /\ 1 \in DOMAIN down /\ Head(down) = down[1] /\ Head(down) \in DownFrames
  BY TailFacts DEF StreamTypes
<1>3. NoAck(i)'
  BY <1>0, <1>2 DEF NoAck, Ordered, FramesOrdered
<1>4. ~Current(i)' => AtClient(i, n)'
  BY <1>1, <1>3 DEF AtClient, Forgotten
<1>5. CASE RecvAck
  BY <1>0, <1>4, <1>5 DEF RecvAck, AtClient, Current
<1>6. CASE RecvData
  <2>1. Head(down).seq \in Nat
    BY <1>2, FrameFacts
  <2>2. CASE Current(i)'
    <3>0. /\ active' = active
          /\ \/ known' = known
             \/ /\ known' = [known EXCEPT ![i] = Head(down).seq]
                /\ known[i] # None
      BY <1>6 DEF RecvData
    <3>1. active' = active /\ Current(i)
      BY <1>0, <2>2, <3>0 DEF Current
    <3>2. known'[i] \in Nat /\ known[i] \in Nat /\ known'[i] >= Head(down).seq
      <4>1. known[i] \in Nat
        BY <1>0, <3>1 DEF Current
      <4>2. \/ known' = known /\ Head(down).seq < known[i]
            \/ known' = [known EXCEPT ![i] = Head(down).seq]
        BY <1>6, <3>1 DEF RecvData, Current
      <4> QED
        BY <1>0, <2>1, <4>1, <4>2
    <3> QED
      BY <2>1, <2>2, <3>2 DEF AtClient
  <2> QED
    BY <1>4, <2>2
<1>7. ~RecvResponse
  BY DEF RecvResponse, Inbound, IsAck, IsData
<1> QED
  BY <1>5, <1>6, <1>7 DEF ClientStep

\* Output ahead of position l stays ahead of it.
LEMMA DownKept ==
  ASSUME StreamTypes, IdsSuffice, Lifecycle, Ordered, [Next]_vars,
         NEW i \in Ids, Older(i), NEW n \in Nat, NEW l \in 1..(Len(down) + 1), BeforeDown(i, n, l)
  PROVE  /\ down' = Tail(down) /\ down # <<>> /\ ClientStep =>
              (l = 1 => AtClient(i, n)') /\ BeforeDown(i, n, l - 1)'
         /\ ~(down' = Tail(down) /\ down # <<>> /\ ClientStep) => BeforeDown(i, n, l)'
<1>1. AtClient(i, n) => AtClient(i, n)'
  BY AtClientKept
<1>0. DOMAIN down = 1..Len(down) /\ Len(down) \in Nat
  BY DEF StreamTypes
<1>2. CASE InDown(i, n, l)
  <2>1. PICK k \in DOMAIN down : /\ k < l
                                 /\ IsAck(down[k]) \/ IsData(down[k])
                                 /\ down[k].stream = i /\ n <= down[k].seq + 1
    BY <1>2 DEF InDown
  <2>2. CASE down' = down
    BY <2>1, <2>2 DEF BeforeDown, InDown
  <2>3. ASSUME NEW f \in DownFrames, down' = Append(down, f) PROVE BeforeDown(i, n, l)'
    <3>1. k \in DOMAIN down' /\ down'[k] = down[k]
      BY <1>0, <2>3, AppendFacts DEF StreamTypes
    <3> QED
      BY <2>1, <3>1 DEF BeforeDown, InDown
  <2>4. CASE down # <<>> /\ down' = Tail(down) /\ ClientStep
    <3>1. /\ DOMAIN down' = 1..(Len(down) - 1)
          /\ \A j \in DOMAIN down' : down'[j] = down[j + 1]
          /\ Head(down) = down[1]
      BY <2>4, TailFacts DEF StreamTypes
    <3>2. CASE k = 1
      <4>1. AtClient(i, n)'
        BY <2>1, <2>4, <3>1, <3>2, HeadTaken
      <4> QED
        BY <2>4, <4>1 DEF BeforeDown
    <3>3. CASE k # 1
      <4>1. k - 1 \in DOMAIN down' /\ down'[k - 1] = down[k] /\ k - 1 < l - 1 /\ l # 1
        BY <1>0, <2>1, <3>1, <3>3
      <4>2. BeforeDown(i, n, l - 1)'
        BY <2>1, <4>1 DEF BeforeDown, InDown
      <4> QED
        BY <2>4, <4>1, <4>2
    <3> QED
      BY <3>2, <3>3
  <2>5. ~(down # <<>> /\ down' = Tail(down) /\ ClientStep) => BeforeDown(i, n, l)'
    BY <2>2, <2>3, DownEffect
  <2> QED
    BY <2>4, <2>5
<1>3. CASE AtClient(i, n)
  BY <1>1, <1>3 DEF BeforeDown
<1> QED
  BY <1>2, <1>3 DEF BeforeDown

LEMMA AllDownKept ==
  ASSUME StreamTypes, IdsSuffice, Lifecycle, Ordered, [Next]_vars,
         NEW i \in Ids, Older(i), NEW n \in Nat, BeforeDown(i, n, Len(down) + 1)
  PROVE  BeforeDown(i, n, Len(down) + 1)'
<1>0. PICK m \in Nat : m = Len(down)
  BY DEF StreamTypes
<1>1. \A l \in Nat : BeforeDown(i, n, l)' => BeforeDown(i, n, Len(down) + 1)'
  <2>1. DOMAIN down' = 1..Len(down') /\ Len(down') \in Nat
    BY StreamTypesStep DEF StreamTypes
  <2> QED
    BY <2>1 DEF BeforeDown, InDown
<1>2. BeforeDown(i, n, m)' \/ BeforeDown(i, n, m + 1)'
  <2>1. BeforeDown(i, n, m + 1) /\ m + 1 \in 1..(Len(down) + 1) /\ (m + 1) - 1 = m
    BY <1>0
  <2> QED
    BY <2>1, DownKept
<1> QED
  BY <1>0, <1>1, <1>2

\* The stream being opened: the snapshot, and then the ack, covers the output so far.
LEMMA OpeningKept ==
  ASSUME StreamTypes, IdsSuffice, Lifecycle, Ordered, [Next]_vars,
         opening # None, NEW i \in Ids, i = opening.stream,
         NEW n \in Nat, n <= head[opening.term] + 1, BeforeDown(i, n, Len(down) + 1)
  PROVE  BeforeDown(i, n, Len(down) + 1)'
<1> USE StreamAssumption DEF client, server
<1>0. i \in Nat /\ DOMAIN down = 1..Len(down) /\ Len(down) \in Nat /\ opening \in Openings
      /\ opening.end \in Nat \cup {None} /\ opening.term \in Terminals
      /\ opening.stream + 1 = next_id /\ next_id \in Nat
  BY DEF Ids, StreamTypes, Openings, Lifecycle, OpeningNewest
<1>1. opening.end # None => n <= opening.end + 1
  <2>1. ~Forgotten(i)
    BY DEF Forgotten
  <2>2. ~Older(i)
    BY <1>0 DEF Older
  <2>3. ~Current(i)
    BY <2>2 DEF Current, Ordered, KnownBounded, Bounded
  <2>4. ~InDown(i, n, Len(down) + 1)
    BY <2>2 DEF InDown, Ordered, AcksBounded, DataBounded, Bounded
  <2> QED
    BY <2>1, <2>3, <2>4 DEF BeforeDown, AtClient
<1>9. known[i] = None /\ NoAck(i)
  <2>2. ~Older(i)
    BY <1>0 DEF Older
  <2> QED
    BY <2>2 DEF Ordered, KnownBounded, AcksBounded, Bounded, NoAck
<1>2. CASE opening' = opening
  BY <1>1, <1>2 DEF BeforeDown, AtClient
<1>3. CASE OpenSnapshot
  <2>1. opening'.stream = i /\ opening'.end = head[opening.term] /\ opening' \in Openings
    <3>1. opening' = [opening EXCEPT !.end = head[opening.term]] /\ head[opening.term] \in Nat
      BY <1>0, <1>3 DEF OpenSnapshot, StreamTypes
    <3> QED
      BY <1>0, <3>1 DEF Openings
  <2>2. opening' # None
    BY <2>1
  <2> QED
    BY <2>1, <2>2 DEF BeforeDown, AtClient
<1>4. CASE OpenVanished
  <2>1. PICK f \in DownFrames : down' = Append(down, f) /\ ~IsAck(f)
    <3>1. Response("error", opening.req) \in DownFrames /\ ~IsAck(Response("error", opening.req))
      BY <1>0 DEF Openings, Response, DownFrames, IsAck
    <3> QED
      BY <1>4, <3>1 DEF OpenVanished
  <2>2. /\ DOMAIN down' = 1..(Len(down) + 1)
        /\ \A k \in DOMAIN down : down'[k] = down[k]
        /\ down'[Len(down) + 1] = f
    BY <2>1, AppendFacts DEF StreamTypes
  <2>3. NoAck(i)'
    BY <1>0, <1>9, <2>1, <2>2 DEF NoAck
  <2>4. opening' = None /\ known' = known
    BY <1>4 DEF OpenVanished
  <2> QED
    BY <1>9, <2>3, <2>4 DEF BeforeDown, AtClient, Forgotten, Current
<1>5. CASE OpenAck
  <2> DEFINE f == [kind |-> "ack", req |-> opening.req, stream |-> opening.stream, seq |-> opening.end]
  <2>1. f \in DownFrames /\ IsAck(f) /\ f.stream = i /\ n <= f.seq + 1
    BY <1>0, <1>1, <1>5 DEF OpenAck, Openings, DownFrames, IsAck
  <2>2. down' = Append(down, f)
    BY <1>5 DEF OpenAck
  <2> HIDE DEF f
  <2>3. /\ DOMAIN down' = 1..(Len(down) + 1) /\ Len(down') = Len(down) + 1
        /\ down'[Len(down) + 1] = f
    BY <2>1, <2>2, AppendFacts DEF StreamTypes
  <2>4. \E k \in DOMAIN down' : /\ k < Len(down') + 1
                                /\ IsAck(down'[k]) \/ IsData(down'[k])
                                /\ down'[k].stream = i /\ n <= down'[k].seq + 1
    <3>1. Len(down) + 1 \in DOMAIN down' /\ Len(down) + 1 < Len(down') + 1
      BY <1>0, <2>3
    <3> QED
      BY <2>1, <2>3, <3>1
  <2> QED
    BY <2>4, Zenon DEF BeforeDown, InDown
<1>6. ~ServeOpen
  BY DEF ServeOpen
<1>7. CASE \E t \in Terminals : ReaderPush(t) \/ ReaderBroadcast(t) \/ Reap(t) \/ SendOpen(t) \/ SendKill(t)
  BY <1>7, <1>2, Zenon DEF ReaderPush, ReaderBroadcast, Reap, SendOpen, SendKill
<1>8. CASE \E j \in Ids : Forward(j)
  BY <1>8, <1>2, Zenon DEF Forward, FwdRecv, FwdLagged, FwdSend, FwdDies
<1>10. CASE ServeOutput \/ ServeOpenUnknown \/ ServeKill \/ ClientStep \/ UNCHANGED vars
  BY <1>10, <1>2, Zenon DEF ServeOutput, ServeOpenUnknown, ServeKill, ClientStep, RecvAck, RecvResponse, RecvData, vars
<1> QED
  BY <1>3, <1>4, <1>5, <1>6, <1>7, <1>8, <1>10 DEF Next, ServerStep

LEMMA OutEffect ==
  ASSUME [Next]_vars
  PROVE  outq' = outq \/ ServeOutput \/ \E i \in Ids : FwdSend(i)
<1> USE DEF client, server
<1>1. CASE \E t \in Terminals : ReaderPush(t) \/ ReaderBroadcast(t) \/ Reap(t) \/ SendOpen(t) \/ SendKill(t)
  BY <1>1, Zenon DEF ReaderPush, ReaderBroadcast, Reap, SendOpen, SendKill
<1>2. CASE \E i \in Ids : Forward(i)
  BY <1>2, Zenon DEF Forward, FwdRecv, FwdLagged, FwdDies
<1>3. CASE ServerStep
  BY <1>3, Zenon DEF ServerStep, ServeOpenUnknown, ServeOpen, ServeKill, OpenSnapshot, OpenVanished, OpenAck
<1>4. CASE ClientStep \/ UNCHANGED vars
  BY <1>4, Zenon DEF ClientStep, RecvAck, RecvResponse, RecvData, vars
<1> QED
  BY <1>1, <1>2, <1>3, <1>4 DEF Next

\* A forwarder runs only for a stream that has been acked.
LEMMA SenderOlder ==
  ASSUME StreamTypes, Lifecycle, NEW i \in Ids, fwd[i].state \in {"run", "aborting"}
  PROVE  Older(i)
<1>1. i \in Nat /\ i < next_id /\ next_id \in Nat
  BY DEF Lifecycle, NewUnused, Unused, StreamTypes, Ids
<1>2. opening # None => opening.stream # i /\ opening.stream + 1 = next_id /\ opening.stream \in Nat
  BY DEF Lifecycle, OpeningNewest, StreamTypes, Openings, Ids
<1> QED
  BY <1>1, <1>2 DEF Older

LEMMA OutOlderStep ==
  StreamTypes /\ IdsSuffice /\ Lifecycle /\ OutOlder /\ [Next]_vars => OutOlder'
<1> SUFFICES ASSUME StreamTypes, IdsSuffice, Lifecycle, OutOlder, [Next]_vars PROVE OutOlder'
  OBVIOUS
<1>b. \A i \in Nat : Older(i) => Older(i)'
  BY BoundsKept
<1>q. \A k \in DOMAIN outq : outq[k].stream \in Nat
  <2>1. \A k \in DOMAIN outq : outq[k] \in OutFrames
    BY DEF StreamTypes
  <2> QED
    BY <2>1 DEF OutFrames, Ids
<1>1. CASE outq' = outq
  BY <1>1, <1>b, <1>q DEF OutOlder
<1>2. CASE ServeOutput
  <2>1. \A k \in DOMAIN outq' : k + 1 \in DOMAIN outq /\ outq'[k] = outq[k + 1]
    BY <1>2, TailFacts DEF ServeOutput, StreamTypes
  <2> QED
    BY <2>1, <1>b, <1>q DEF OutOlder
<1>3. ASSUME NEW i \in Ids, FwdSend(i) PROVE OutOlder'
  <2>1. PICK f \in OutFrames : outq' = Append(outq, f) /\ f.stream = i
    <3>1. Head(fwd[i].pieces) \in Nat
      <4>1. fwd[i].pieces \in Seq(Nat)
        BY ForwarderFacts DEF StreamTypes
      <4> QED
        BY <1>3, <4>1, TailFacts DEF FwdSend
    <3>2. [stream |-> i, seq |-> Head(fwd[i].pieces)] \in OutFrames
      BY <3>1 DEF OutFrames
    <3> QED
      BY <1>3, <3>2 DEF FwdSend
  <2>2. /\ \A k \in DOMAIN outq' : k \in DOMAIN outq \/ k = Len(outq) + 1
        /\ \A k \in DOMAIN outq : outq'[k] = outq[k]
        /\ outq'[Len(outq) + 1] = f
    BY <2>1, AppendFacts DEF StreamTypes
  <2>3. Older(i) /\ i \in Nat
    BY <1>3, SenderOlder DEF FwdSend, Ids
  <2> QED
    BY <2>1, <2>2, <2>3, <1>b, <1>q DEF OutOlder
<1> QED
  BY OutEffect, <1>1, <1>2, <1>3

\* Output between the snapshot and position l of the output channel stays there,
\* or has been passed on.
LEMMA OutKept ==
  ASSUME StreamTypes, IdsSuffice, Lifecycle, Ordered, OutOlder, [Next]_vars,
         NEW i \in Ids, Served(i), NEW n \in Nat,
         opening # None => n <= head[opening.term] + 1,
         BeforeOut(i, n, Len(outq) + 1)
  PROVE  BeforeOut(i, n, Len(outq) + 1)'
<1>0. DOMAIN outq = 1..Len(outq) /\ Len(outq) \in Nat
      /\ DOMAIN outq' = 1..Len(outq') /\ Len(outq') \in Nat
  BY StreamTypesStep DEF StreamTypes
<1>1. CASE BeforeDown(i, n, Len(down) + 1)
  <2>1. CASE opening # None /\ i = opening.stream
    <3>1. BeforeDown(i, n, Len(down) + 1)'
      BY <1>1, <2>1, OpeningKept
    <3> QED
      BY <3>1 DEF BeforeOut
  <2>2. CASE i = attached
    <3>1. fwd[i].state = "run"
      BY <2>2, StreamAssumption DEF Lifecycle, AttachedRuns, Ids
    <3>2. Older(i)
      BY <3>1, SenderOlder
    <3>3. BeforeDown(i, n, Len(down) + 1)'
      BY <1>1, <3>2, AllDownKept
    <3> QED
      BY <3>3 DEF BeforeOut
  <2> QED
    BY <2>1, <2>2 DEF Served
<1>2. ASSUME NEW k \in DOMAIN outq, outq[k].stream = i, n <= outq[k].seq + 1
      PROVE  BeforeOut(i, n, Len(outq) + 1)'
  <2>0. \A j \in DOMAIN outq' : outq'[j] = outq[k] => BeforeOut(i, n, Len(outq) + 1)'
    BY <1>0, <1>2 DEF BeforeOut, InOut
  <2>1. CASE outq' = outq
    BY <2>0, <2>1
  <2>2. ASSUME NEW j \in Ids, FwdSend(j) PROVE BeforeOut(i, n, Len(outq) + 1)'
    <3>1. PICK f \in OutFrames : outq' = Append(outq, f)
      <4>1. fwd[j].pieces \in Seq(Nat)
        BY ForwarderFacts DEF StreamTypes
      <4>2. Head(fwd[j].pieces) \in Nat
        BY <2>2, <4>1, TailFacts DEF FwdSend
      <4>3. [stream |-> j, seq |-> Head(fwd[j].pieces)] \in OutFrames
        BY <4>2 DEF OutFrames
      <4> QED
        BY <2>2, <4>3 DEF FwdSend
    <3>2. k \in DOMAIN outq' /\ outq'[k] = outq[k]
      BY <1>0, <3>1, AppendFacts DEF StreamTypes
    <3> QED
      BY <2>0, <3>2
  <2>3. CASE ServeOutput
    <3>1. /\ DOMAIN outq' = 1..(Len(outq) - 1)
          /\ \A j \in DOMAIN outq' : outq'[j] = outq[j + 1]
          /\ Head(outq) = outq[1] /\ Head(outq) \in OutFrames
      BY <2>3, TailFacts DEF StreamTypes, ServeOutput
    <3>2. CASE k # 1
      <4>1. k - 1 \in DOMAIN outq' /\ outq'[k - 1] = outq[k]
        BY <1>0, <3>1, <3>2
      <4> QED
        BY <2>0, <4>1
    <3>3. CASE k = 1
      <4>1. i = attached
        BY <2>3 DEF Served, ServeOutput
      <4> DEFINE f == [kind |-> "data", req |-> None, stream |-> attached, seq |-> Head(outq).seq]
      <4>2. f \in DownFrames /\ IsData(f) /\ f.stream = i /\ n <= f.seq + 1
        BY <4>1, <3>1, <3>3, <1>2 DEF OutFrames, DownFrames, IsData
      <4>3. down' = Append(down, f)
        BY <2>3, <3>1, <3>3, <4>1, <1>2 DEF ServeOutput
      <4> HIDE DEF f
      <4>4. /\ DOMAIN down' = 1..(Len(down) + 1) /\ Len(down') = Len(down) + 1 /\ Len(down) \in Nat
            /\ down'[Len(down) + 1] = f
        BY <4>2, <4>3, AppendFacts DEF StreamTypes
      <4>5. Len(down) + 1 \in DOMAIN down' /\ Len(down) + 1 < Len(down') + 1
        BY <4>4
      <4>6. \E m \in DOMAIN down' : /\ m < Len(down') + 1
                                    /\ IsAck(down'[m]) \/ IsData(down'[m])
                                    /\ down'[m].stream = i /\ n <= down'[m].seq + 1
        BY <4>2, <4>4, <4>5
      <4> QED
        BY <4>6, Zenon DEF BeforeOut, BeforeDown, InDown
    <3> QED
      BY <3>2, <3>3
  <2> QED
    BY OutEffect, <2>1, <2>2, <2>3
<1> QED
  BY <1>1, <1>2 DEF BeforeOut, InOut

\* A subscription that has lagged is not said to be in order again.
LEMMA LagKept ==
  ASSUME StreamTypes, IdsSuffice, [Next]_vars, NEW i \in Ids, i < next_id, fwd'[i].lag = "no"
  PROVE  fwd[i].lag = "no"
<1> USE DEF client, server
<1>f. fwd \in [Ids -> Forwarders] /\ fwd[i] \in Forwarders /\ next_id \in Nat /\ i \in Nat
  <2>1. i \in Nat
    BY DEF Ids
  <2> QED
    BY <2>1 DEF StreamTypes
<1>1. CASE fwd' = fwd
  BY <1>1
<1>2. ASSUME NEW t \in Terminals, ReaderBroadcast(t) PROVE fwd[i].lag = "no"
  <2>1. fwd'[i].lag = "no" => fwd[i].lag = "no"
    BY <1>2, BroadcastEffect
  <2> QED
    BY <2>1
<1>3. ASSUME NEW j \in Ids, Forward(j) PROVE fwd[i].lag = "no"
  <2>1. CASE i # j
    BY <1>3, <2>1, OthersKept
  <2>2. CASE i = j
    <3>1. CASE FwdRecv(i)
      BY <1>f, <3>1, FwdRecvEffect
    <3>2. CASE FwdLagged(i)
      BY <1>f, <3>2 DEF FwdLagged, Forwarders
    <3>3. CASE FwdSend(i)
      BY <1>f, <3>3 DEF FwdSend, Forwarders
    <3>4. CASE FwdDies(i)
      <4>1. fwd'[i] = Dead(fwd[i])
        BY <1>f, <3>4 DEF FwdDies
      <4> QED
        BY <1>f, <4>1, DeadFacts
    <3> QED
      BY <1>3, <2>2, <3>1, <3>2, <3>3, <3>4 DEF Forward
  <2> QED
    BY <2>1, <2>2
<1>4. CASE ServeOpen
  <2>1. i # next_id
    BY <1>f
  <2> QED
    BY <1>4, <2>1, ServeOpenEffect
<1>o. opening # None => opening.stream \in Ids
  BY DEF StreamTypes, Openings
<1>5. CASE OpenVanished
  <2>1. opening # None /\ fwd' = [fwd EXCEPT ![opening.stream] = Dead(@)]
    BY <1>5 DEF OpenVanished
  <2>2. fwd'[i] = fwd[i] \/ fwd'[i] = Dead(fwd[i])
    BY <1>f, <1>o, <2>1
  <2> QED
    BY <1>f, <2>2, DeadFacts
<1>6. CASE OpenAck
  <2>1. opening # None
    BY <1>6 DEF OpenAck
  <2> QED
    BY <1>6, <1>f, <1>o, <2>1, OpenAckEffect
<1>7. CASE \E t \in Terminals : ReaderPush(t) \/ Reap(t) \/ SendOpen(t) \/ SendKill(t)
  BY <1>7, <1>1, Zenon DEF ReaderPush, Reap, SendOpen, SendKill
<1>8. CASE ServeOutput \/ ServeOpenUnknown \/ ServeKill \/ OpenSnapshot \/ ClientStep \/ UNCHANGED vars
  BY <1>8, <1>1, Zenon DEF ServeOutput, ServeOpenUnknown, ServeKill, OpenSnapshot, ClientStep, RecvAck, RecvResponse, RecvData, vars
<1> QED
  BY <1>2, <1>3, <1>4, <1>5, <1>6, <1>7, <1>8 DEF Next, ServerStep

LEMMA ContiguousInit == Init => Contiguous
BY StreamAssumption
   DEF Init, Contiguous, Numbers, ContiguousDown, ContiguousOut, ContiguousFwd, Unused, Served

LEMMA ContiguousDownStep ==
  ASSUME StreamTypes, IdsSuffice, Lifecycle, Ordered, ContiguousDown, ContiguousOut, [Next]_vars
  PROVE  ContiguousDown'
<1> SUFFICES ASSUME NEW l \in DOMAIN down', IsData(down'[l]), fwd'[down'[l].stream].lag = "no"
             PROVE  BeforeDown(down[l].stream, down[l].seq, l)'
  BY Zenon DEF ContiguousDown
<1>0. DOMAIN down = 1..Len(down) /\ Len(down) \in Nat
      /\ \A k \in DOMAIN down : down[k] \in DownFrames
  BY DEF StreamTypes
<1>1. PICK i \in Ids, n \in Nat : i = down'[l].stream /\ n = down'[l].seq
  <2>1. down'[l] \in DownFrames
    BY StreamTypesStep DEF StreamTypes
  <2> QED
    BY <2>1, FrameFacts
<1>2. SUFFICES BeforeDown(i, n, l)'
  BY <1>1
\* A frame that was there before.
<1>3. ASSUME NEW k \in DOMAIN down, down[k] = down'[l]
      PROVE  Older(i) /\ BeforeDown(i, n, k)
  <2>1. Older(i)
    BY <1>1, <1>3 DEF Ordered, DataBounded
  <2>2. fwd[i].lag = "no"
    BY <1>1, <2>1, LagKept DEF Older
  <2> QED
    BY <1>1, <1>3, <2>1, <2>2 DEF ContiguousDown
<1>e. down # <<>> => Tail(down) # down
  BY TailDiffers DEF StreamTypes
<1>4. CASE down' = down
  <2>1. l \in DOMAIN down /\ l \in 1..(Len(down) + 1) /\ down[l] = down'[l]
    BY <1>0, <1>4
  <2> QED
    BY <1>3, <1>4, <1>e, <2>1, DownKept
<1>5. CASE down # <<>> /\ down' = Tail(down) /\ ClientStep
  <2>1. l + 1 \in DOMAIN down /\ down[l + 1] = down'[l] /\ (l + 1) - 1 = l /\ l + 1 \in 1..(Len(down) + 1)
    BY <1>0, <1>5, TailFacts DEF StreamTypes
  <2>2. Older(i) /\ BeforeDown(i, n, l + 1)
    BY <1>3, <2>1
  <2> QED
    BY <1>5, <2>1, <2>2, DownKept
<1>6. ASSUME NEW f \in DownFrames, down' = Append(down, f),
             IsData(f) => /\ ServeOutput /\ f.stream = attached /\ Head(outq).stream = attached
                          /\ f.seq = Head(outq).seq
      PROVE  BeforeDown(i, n, l)'
  <2>1. /\ DOMAIN down' = 1..(Len(down) + 1) /\ Len(down') = Len(down) + 1
        /\ \A k \in DOMAIN down : down'[k] = down[k]
        /\ down'[Len(down) + 1] = f
    BY <1>6, AppendFacts DEF StreamTypes
  <2>e. ~(down' = Tail(down) /\ down # <<>>)
    BY <1>6, TailDiffers DEF StreamTypes
  <2>2. CASE l \in DOMAIN down
    <3>1. Older(i) /\ BeforeDown(i, n, l) /\ l \in 1..(Len(down) + 1)
      BY <1>0, <1>3, <2>1, <2>2
    <3> QED
      BY <2>e, <3>1, DownKept
  <2>3. CASE l = Len(down) + 1
    <3>1. ServeOutput /\ i = attached /\ Head(outq).stream = attached /\ n = Head(outq).seq
      BY <1>1, <1>6, <2>1, <2>3
    <3>2. fwd[i].state = "run"
      BY <3>1, StreamAssumption DEF Lifecycle, AttachedRuns, Ids
    <3>3. Older(i)
      BY <3>2, SenderOlder
    <3>4. fwd[i].lag = "no"
      BY <1>1, <3>3, LagKept DEF Older
    <3>5. 1 \in DOMAIN outq /\ Head(outq) = outq[1] /\ DOMAIN outq = 1..Len(outq)
      BY <3>1, TailFacts DEF ServeOutput, StreamTypes
    <3>6. BeforeOut(i, n, 1)
      BY <3>1, <3>4, <3>5 DEF ContiguousOut
    <3>7. BeforeDown(i, n, l)
      BY <2>3, <3>5, <3>6 DEF BeforeOut, InOut
    <3>8. l \in 1..(Len(down) + 1)
      BY <1>0, <2>3
    <3> QED
      BY <2>e, <3>3, <3>7, <3>8, DownKept
  <2> QED
    BY <1>0, <2>1, <2>2, <2>3
<1> QED
  BY DownEffect, <1>4, <1>5, <1>6

LEMMA SendEffect ==
  ASSUME StreamTypes, NEW i \in Ids, FwdSend(i)
  PROVE  \E f \in OutFrames : /\ outq' = Append(outq, f)
                              /\ f.stream = i /\ f.seq = Head(fwd[i].pieces)
                              /\ fwd[i].pieces \in Seq(Nat) /\ fwd[i].pieces # <<>>
                              /\ fwd'[i].pieces = Tail(fwd[i].pieces) /\ fwd'[i].buf = fwd[i].buf
<1>1. fwd[i].pieces \in Seq(Nat) /\ fwd[i] \in Forwarders /\ fwd \in [Ids -> Forwarders]
  BY ForwarderFacts DEF StreamTypes
<1>2. Head(fwd[i].pieces) \in Nat
  BY <1>1, TailFacts DEF FwdSend
<1>3. [stream |-> i, seq |-> Head(fwd[i].pieces)] \in OutFrames
  BY <1>2 DEF OutFrames
<1>4. fwd'[i].pieces = Tail(fwd[i].pieces) /\ fwd'[i].buf = fwd[i].buf
  BY <1>1 DEF FwdSend, Forwarders
<1> QED
  BY <1>1, <1>3, <1>4 DEF FwdSend

LEMMA AttachedEffect ==
  ASSUME [Next]_vars
  PROVE  attached' = attached \/ attached' = None \/ (OpenAck /\ attached' = opening.stream)
<1> USE DEF client, server
<1>1. CASE \E t \in Terminals : ReaderPush(t) \/ ReaderBroadcast(t) \/ Reap(t) \/ SendOpen(t) \/ SendKill(t)
  BY <1>1, Zenon DEF ReaderPush, ReaderBroadcast, Reap, SendOpen, SendKill
<1>2. CASE \E i \in Ids : Forward(i)
  BY <1>2, Zenon DEF Forward, FwdRecv, FwdLagged, FwdSend, FwdDies
<1>3. CASE ServerStep
  BY <1>3, Zenon DEF ServerStep, ServeOutput, ServeOpenUnknown, ServeOpen, ServeKill, OpenSnapshot, OpenVanished, OpenAck
<1>4. CASE ClientStep \/ UNCHANGED vars
  BY <1>4, Zenon DEF ClientStep, RecvAck, RecvResponse, RecvData, vars
<1> QED
  BY <1>1, <1>2, <1>3, <1>4 DEF Next

LEMMA ContiguousOutStep ==
  ASSUME StreamTypes, IdsSuffice, Lifecycle, Ordered, OutOlder,
         ContiguousOut, ContiguousFwd, [Next]_vars
  PROVE  ContiguousOut'
<1> SUFFICES ASSUME NEW l \in DOMAIN outq', outq'[l].stream = attached', fwd'[attached'].lag = "no"
             PROVE  BeforeOut(attached, outq[l].seq, l)'
  BY Zenon DEF ContiguousOut
<1>0. DOMAIN outq = 1..Len(outq) /\ Len(outq) \in Nat /\ outq \in Seq(OutFrames)
  BY DEF StreamTypes
<1>1. PICK i \in Ids, n \in Nat : i = attached' /\ n = outq'[l].seq /\ i = outq'[l].stream
  <2>1. outq'[l] \in OutFrames
    BY StreamTypesStep DEF StreamTypes
  <2> QED
    BY <2>1 DEF OutFrames
<1>2. SUFFICES BeforeOut(i, n, l)'
  BY <1>1
<1>n. i # None /\ i \in Nat
  BY StreamAssumption DEF Ids
\* The stream was attached before: nothing of a stream just attached is queued.
<1>3. attached = i
  <2>1. CASE OpenAck /\ attached' = opening.stream
    <3>1. opening # None /\ opening.stream = i /\ outq' = outq
      BY <1>1, <2>1 DEF OpenAck
    <3> QED
      BY <1>1, <1>n, <3>1 DEF OutOlder, Older
  <2> QED
    BY <1>1, <1>n, <2>1, AttachedEffect
<1>4. Served(i) /\ opening = None /\ fwd[i].state = "run" /\ i < next_id
  BY <1>3, <1>n DEF Served, Lifecycle, OpeningNewest, AttachedRuns
<1>5. fwd[i].lag = "no"
  BY <1>1, <1>4, LagKept
<1>6. BeforeOut(i, n, Len(outq) + 1) => BeforeOut(i, n, Len(outq) + 1)'
  BY <1>4, OutKept
<1>7. BeforeDown(i, n, Len(down) + 1) => BeforeOut(i, n, l)'
  <2>1. Older(i)
    BY <1>4, SenderOlder
  <2> QED
    BY <2>1, AllDownKept DEF BeforeOut
<1>8. CASE outq' = outq
  <2>1. BeforeOut(i, n, l)
    BY <1>1, <1>3, <1>5, <1>8 DEF ContiguousOut
  <2>2. InOut(i, n, l) => InOut(i, n, l)'
    BY <1>8 DEF InOut
  <2> QED
    BY <1>7, <2>1, <2>2 DEF BeforeOut
<1>9. CASE ServeOutput
  <2>1. /\ DOMAIN outq' = 1..(Len(outq) - 1)
        /\ \A j \in DOMAIN outq' : j + 1 \in DOMAIN outq /\ outq'[j] = outq[j + 1]
        /\ Head(outq) = outq[1]
    BY <1>0, <1>9, TailFacts DEF ServeOutput
  <2>2. BeforeOut(i, n, l + 1)
    BY <1>1, <1>3, <1>5, <2>1 DEF ContiguousOut
  <2>3. ASSUME NEW k \in DOMAIN outq, k < l + 1, outq[k].stream = i, n <= outq[k].seq + 1
        PROVE  BeforeOut(i, n, l)'
    <3>1. CASE k = 1
      <4> DEFINE f == [kind |-> "data", req |-> None, stream |-> attached, seq |-> Head(outq).seq]
      <4>2. f \in DownFrames /\ IsData(f) /\ f.stream = i /\ n <= f.seq + 1
        <5>1. Head(outq) \in OutFrames
          BY <1>0, <1>9, TailFacts DEF ServeOutput
        <5> QED
          BY <1>3, <2>1, <2>3, <3>1, <5>1 DEF OutFrames, DownFrames, IsData
      <4>3. down' = Append(down, f)
        BY <1>3, <1>9, <2>1, <2>3, <3>1 DEF ServeOutput
      <4> HIDE DEF f
      <4>4. /\ DOMAIN down' = 1..(Len(down) + 1) /\ Len(down') = Len(down) + 1 /\ Len(down) \in Nat
            /\ down'[Len(down) + 1] = f
        BY <4>2, <4>3, AppendFacts DEF StreamTypes
      <4>5. Len(down) + 1 \in DOMAIN down' /\ Len(down) + 1 < Len(down') + 1
        BY <4>4
      <4>6. \E m \in DOMAIN down' : /\ m < Len(down') + 1
                                    /\ IsAck(down'[m]) \/ IsData(down'[m])
                                    /\ down'[m].stream = i /\ n <= down'[m].seq + 1
        BY <4>2, <4>4, <4>5
      <4> QED
        BY <4>6, Zenon DEF BeforeOut, BeforeDown, InDown
    <3>2. CASE k # 1
      <4>1. k - 1 \in DOMAIN outq' /\ outq'[k - 1] = outq[k] /\ k - 1 < l
        BY <1>0, <2>1, <2>3, <3>2
      <4> QED
        BY <2>3, <4>1 DEF BeforeOut, InOut
    <3> QED
      BY <3>1, <3>2
  <2> QED
    BY <1>7, <2>2, <2>3 DEF BeforeOut, InOut
<1>10. ASSUME NEW j \in Ids, FwdSend(j) PROVE BeforeOut(i, n, l)'
  <2>1. PICK f \in OutFrames : /\ outq' = Append(outq, f)
                               /\ f.stream = j /\ f.seq = Head(fwd[j].pieces)
                               /\ fwd[j].pieces \in Seq(Nat) /\ fwd[j].pieces # <<>>
    BY <1>10, SendEffect
  <2>2. /\ DOMAIN outq' = 1..(Len(outq) + 1)
        /\ \A k \in DOMAIN outq : outq'[k] = outq[k] /\ k \in DOMAIN outq'
        /\ outq'[Len(outq) + 1] = f
    BY <1>0, <2>1, AppendFacts
  <2>3. \A m : InOut(i, n, m) => InOut(i, n, m)'
    BY <2>2 DEF InOut
  <2>4. CASE l \in DOMAIN outq
    <3>1. BeforeOut(i, n, l)
      BY <1>1, <1>3, <1>5, <2>2, <2>4 DEF ContiguousOut
    <3> QED
      BY <1>7, <2>3, <3>1 DEF BeforeOut
  <2>5. CASE l = Len(outq) + 1
    <3>1. i = j /\ n = Head(fwd[i].pieces)
      BY <1>1, <2>1, <2>2, <2>5
    <3>2. 1 \in DOMAIN fwd[i].pieces /\ Head(fwd[i].pieces) = fwd[i].pieces[1]
          /\ DOMAIN fwd[i].pieces = 1..Len(fwd[i].pieces)
      BY <2>1, <3>1, TailFacts
    <3>3. BeforePieces(i, n, 1)
      BY <1>4, <1>5, <3>1, <3>2 DEF ContiguousFwd
    <3>4. BeforeOut(i, n, l)
      BY <2>5, <3>2, <3>3 DEF BeforePieces, InPieces
    <3> QED
      BY <1>7, <2>3, <3>4 DEF BeforeOut
  <2> QED
    BY <1>0, <2>2, <2>4, <2>5
<1> QED
  BY OutEffect, <1>8, <1>9, <1>10

\* The position up to which a terminal's output has been broadcast.
Broadcast(t) == head[t] - unsent[t]

LEMMA NumbersStep ==
  ASSUME StreamTypes, IdsSuffice, Lifecycle, Numbers, [Next]_vars
  PROVE  Numbers'
<1> USE DEF client, server
<1>f. /\ fwd \in [Ids -> Forwarders] /\ \A i \in Ids : fwd[i] \in Forwarders
      /\ head \in [Terminals -> Nat] /\ unsent \in [Terminals -> Nat]
  BY DEF StreamTypes
<1>b. \A i \in Ids : fwd[i].buf \in Seq(Chunks) /\ \A k \in DOMAIN fwd[i].buf : fwd[i].buf[k] \in Chunks
  <2>1. \A i \in Ids : fwd[i].buf \in Seq(Chunks)
    BY <1>f, ForwarderFacts
  <2> QED
    BY <2>1
<1>h. \A t \in Terminals : head'[t] \in Nat /\ head[t] \in Nat /\ head[t] <= head'[t]
  <2>1. CASE \E t \in Terminals : ReaderPush(t)
    <3>1. PICK t \in Terminals, n \in 1..MaxChunk : head' = [head EXCEPT ![t] = @ + n]
      BY <2>1, Zenon DEF ReaderPush
    <3> QED
      BY <1>f, <3>1
  <2>2. CASE head' = head
    BY <1>f, <2>2
  <2>3. CASE \E t \in Terminals : ReaderBroadcast(t) \/ Reap(t) \/ SendOpen(t) \/ SendKill(t)
    BY <2>2, <2>3, Zenon DEF ReaderBroadcast, Reap, SendOpen, SendKill
  <2>4. CASE \E i \in Ids : Forward(i)
    BY <2>2, <2>4, Zenon DEF Forward, FwdRecv, FwdLagged, FwdSend, FwdDies
  <2>5. CASE ServerStep
    BY <2>2, <2>5, Zenon DEF ServerStep, ServeOutput, ServeOpenUnknown, ServeOpen, ServeKill, OpenSnapshot, OpenVanished, OpenAck
  <2>6. CASE ClientStep \/ UNCHANGED vars
    BY <2>2, <2>6, Zenon DEF ClientStep, RecvAck, RecvResponse, RecvData, vars
  <2> QED
    BY <2>1, <2>3, <2>4, <2>5, <2>6 DEF Next
<1> SUFFICES ASSUME NEW i \in Ids, NEW k \in DOMAIN fwd'[i].buf
             PROVE  /\ fwd'[i].buf[k].from < fwd'[i].buf[k].to
                    /\ fwd'[i].term \in Terminals /\ fwd'[i].buf[k].to <= head'[fwd'[i].term]
  BY Zenon DEF Numbers
<1> DEFINE Fine(c) == /\ c.from < c.to
                      /\ fwd'[i].term \in Terminals /\ c.to <= head'[fwd'[i].term]
<1> SUFFICES Fine(fwd'[i].buf[k])
  OBVIOUS
<1>0. \A j \in DOMAIN fwd[i].buf : fwd'[i].term = fwd[i].term => Fine(fwd[i].buf[j])
  <2> SUFFICES ASSUME NEW j \in DOMAIN fwd[i].buf, fwd'[i].term = fwd[i].term
               PROVE  Fine(fwd[i].buf[j])
    OBVIOUS
  <2>1. fwd[i].buf[j].to \in Nat
    BY <1>b DEF Chunks
  <2> QED
    BY <1>h, <2>1 DEF Numbers
<1> HIDE DEF Fine
<1>1. CASE fwd'[i].buf = fwd[i].buf /\ fwd'[i].term = fwd[i].term
  BY <1>0, <1>1
<1>2. CASE fwd'[i].buf = <<>>
  BY <1>2
<1>3. ASSUME NEW t \in Terminals, ReaderBroadcast(t) PROVE Fine(fwd'[i].buf[k])
  <2> DEFINE c == [from |-> head[t] - unsent[t], to |-> head[t]]
  <2>1. CASE Subscribed(fwd[i], t)
    <3>1. fwd'[i].term = fwd[i].term /\ fwd[i].term = t
      BY <1>3, <2>1, BroadcastEffect DEF Subscribed
    <3>2. c \in Chunks /\ Fine(c)
      BY <1>3, <1>f, <1>h, <3>1 DEF ReaderBroadcast, StreamTypes, Chunks, Fine
    <3> HIDE DEF c
    <3>3. fwd'[i].buf \in {fwd[i].buf, Append(fwd[i].buf, c), Append(Tail(fwd[i].buf), c)}
      BY <1>3, BroadcastEffect DEF c
    <3>4. CASE fwd'[i].buf = Append(fwd[i].buf, c)
      <4>1. PICK s \in Seq(Chunks) : s = fwd[i].buf
        BY <1>b
      <4>2. \A j \in DOMAIN s : Fine(s[j])
        BY <1>0, <3>1, <4>1
      <4> QED
        BY <3>2, <3>4, <4>1, <4>2, AppendFacts
    <3>5. CASE fwd'[i].buf = Append(Tail(fwd[i].buf), c) /\ fwd[i].buf # <<>>
      <4>1. /\ Tail(fwd[i].buf) \in Seq(Chunks)
            /\ \A j \in DOMAIN Tail(fwd[i].buf) :
                 j + 1 \in DOMAIN fwd[i].buf /\ Tail(fwd[i].buf)[j] = fwd[i].buf[j + 1]
        BY <1>b, <3>5, TailFacts
      <4>2. \A j \in DOMAIN Tail(fwd[i].buf) : Fine(Tail(fwd[i].buf)[j])
        BY <1>0, <3>1, <4>1
      <4>3. PICK s \in Seq(Chunks) : s = Tail(fwd[i].buf)
        BY <4>1
      <4> QED
        BY <3>2, <3>5, <4>2, <4>3, AppendFacts
    <3>6. CASE fwd[i].buf = <<>> /\ fwd'[i].buf = Append(Tail(fwd[i].buf), c)
      <4>1. fwd'[i].buf = Append(fwd[i].buf, c)
        <5>1. Len(fwd[i].buf) < SubCap
          BY <3>6, StreamAssumption
        <5>2. fwd'[i] = Receive(fwd[i], c)
          BY <1>3, <2>1 DEF ReaderBroadcast, c
        <5>3. fwd'[i] = [fwd[i] EXCEPT !.buf = Append(@, c)]
          BY <5>1, <5>2 DEF Receive
        <5> QED
          BY <1>f, <5>3 DEF Forwarders
      <4> QED
        BY <3>4, <4>1
    <3> QED
      BY <1>1, <3>1, <3>3, <3>4, <3>5, <3>6
  <2>2. CASE ~Subscribed(fwd[i], t)
    BY <1>1, <1>3, <2>2, BroadcastEffect
  <2> QED
    BY <2>1, <2>2
<1>4. ASSUME NEW j \in Ids, Forward(j) PROVE Fine(fwd'[i].buf[k])
  <2>1. CASE i # j
    BY <1>1, <1>4, <2>1, OthersKept
  <2>2. CASE i = j /\ FwdRecv(i)
    <3>1. fwd'[i].buf = Tail(fwd[i].buf) /\ fwd'[i].term = fwd[i].term /\ fwd[i].buf # <<>>
      <4>1. fwd[i].buf # <<>>
        BY <2>2 DEF FwdRecv
      <4>2. fwd' = [fwd EXCEPT ![i] = [state |-> fwd[i].state, term |-> fwd[i].term,
                                       buf |-> Tail(fwd[i].buf),
                                       pieces |-> Pieces(Head(fwd[i].buf)), lag |-> fwd[i].lag]]
        BY <2>2, FwdRecvEffect
      <4>3. fwd'[i].buf = Tail(fwd[i].buf) /\ fwd'[i].term = fwd[i].term
        BY <1>f, <4>2
      <4> QED
        BY <4>1, <4>3
    <3>2. k + 1 \in DOMAIN fwd[i].buf /\ fwd'[i].buf[k] = fwd[i].buf[k + 1]
      BY <1>b, <3>1, TailFacts
    <3> QED
      BY <1>0, <3>1, <3>2
  <2>3. CASE i = j /\ FwdLagged(i)
    BY <1>1, <1>f, <2>3 DEF FwdLagged, Forwarders
  <2>4. CASE i = j /\ FwdSend(i)
    BY <1>1, <1>f, <2>4 DEF FwdSend, Forwarders
  <2>5. CASE i = j /\ FwdDies(i)
    <3>1. fwd'[i] = Dead(fwd[i])
      BY <1>f, <2>5 DEF FwdDies
    <3> QED
      BY <1>2, <1>f, <3>1, DeadFacts
  <2> QED
    BY <1>4, <2>1, <2>2, <2>3, <2>4, <2>5 DEF Forward
<1>5. CASE ServeOpen
  BY <1>1, <1>2, <1>5, ServeOpenEffect
<1>o. opening # None => opening.stream \in Ids
  BY DEF StreamTypes, Openings
<1>6. CASE OpenVanished
  <2>1. opening # None /\ fwd' = [fwd EXCEPT ![opening.stream] = Dead(@)]
    BY <1>6 DEF OpenVanished
  <2>2. fwd'[i] = fwd[i] \/ fwd'[i] = Dead(fwd[i])
    BY <1>f, <1>o, <2>1
  <2> QED
    BY <1>1, <1>2, <1>f, <2>2, DeadFacts
<1>7. CASE OpenAck
  <2>1. opening # None
    BY <1>7 DEF OpenAck
  <2>2. fwd'[i].buf = fwd[i].buf /\ fwd'[i].term = fwd[i].term
    BY <1>7, <1>f, <1>o, <2>1, OpenAckEffect DEF Lifecycle, OpeningNewest
  <2> QED
    BY <1>1, <2>2
<1>8. CASE fwd' = fwd
  BY <1>1, <1>8
<1>9. CASE \E t \in Terminals : ReaderPush(t) \/ Reap(t) \/ SendOpen(t) \/ SendKill(t)
  BY <1>9, <1>8, Zenon DEF ReaderPush, Reap, SendOpen, SendKill
<1>10. CASE ServeOutput \/ ServeOpenUnknown \/ ServeKill \/ OpenSnapshot \/ ClientStep \/ UNCHANGED vars
  BY <1>10, <1>8, Zenon DEF ServeOutput, ServeOpenUnknown, ServeKill, OpenSnapshot, ClientStep, RecvAck, RecvResponse, RecvData, vars
<1> QED
  BY <1>3, <1>4, <1>5, <1>6, <1>7, <1>9, <1>10 DEF Next, ServerStep

\* What a step can do to the subscription of a stream that is served after it.
LEMMA ServedEffect ==
  ASSUME StreamTypes, IdsSuffice, Lifecycle, [Next]_vars, NEW i \in Ids, Served(i)'
  PROVE  \/ ServeOpen /\ i = next_id
         \/ /\ Served(i) /\ fwd'[i].term = fwd[i].term
            /\ \/ FwdRecv(i)
               \/ FwdSend(i)
               \/ \E t \in Terminals : ReaderBroadcast(t) /\ Subscribed(fwd[i], t)
               \/ /\ fwd'[i].pieces = fwd[i].pieces /\ fwd'[i].buf = fwd[i].buf
                  /\ fwd[i].term \in Terminals =>
                       Broadcast(fwd[i].term)' = Broadcast(fwd[i].term)
<1> USE StreamAssumption DEF client, server
<1>f. /\ fwd \in [Ids -> Forwarders] /\ fwd[i] \in Forwarders
      /\ head \in [Terminals -> Nat] /\ unsent \in [Terminals -> Nat]
  BY DEF StreamTypes
<1>n. i # None
  BY DEF Ids
<1>o. opening # None => /\ opening.stream \in Ids /\ opening \in Openings
                        /\ fwd[opening.stream].state = "opening"
                        /\ fwd[opening.stream].term = opening.term
                        /\ attached = None
  BY DEF StreamTypes, Openings, Lifecycle, OpeningNewest
<1>1. ASSUME UNCHANGED <<fwd, head, unsent, attached>>,
             opening' = opening \/ (opening # None /\ opening'.stream = opening.stream)
      PROVE  /\ Served(i) /\ fwd'[i] = fwd[i]
             /\ fwd[i].term \in Terminals => Broadcast(fwd[i].term)' = Broadcast(fwd[i].term)
  BY <1>1 DEF Served, Broadcast
<1>2. ASSUME NEW t \in Terminals, ReaderPush(t)
      PROVE  /\ Served(i) /\ fwd'[i] = fwd[i]
             /\ fwd[i].term \in Terminals => Broadcast(fwd[i].term)' = Broadcast(fwd[i].term)
  <2>1. PICK n \in 1..MaxChunk : /\ head' = [head EXCEPT ![t] = @ + n]
                                 /\ unsent' = [unsent EXCEPT ![t] = n]
                                 /\ unsent[t] = 0
    BY <1>2, Zenon DEF ReaderPush
  <2>2. UNCHANGED <<fwd, attached, opening>>
    BY <1>2, Zenon DEF ReaderPush
  <2>3. \A u \in Terminals : head'[u] - unsent'[u] = head[u] - unsent[u]
    BY <1>f, <2>1
  <2> QED
    BY <2>2, <2>3 DEF Served, Broadcast
<1>3. CASE \E t \in Terminals : ReaderPush(t)
  BY <1>2, <1>3
<1>4. ASSUME NEW t \in Terminals, ReaderBroadcast(t)
      PROVE  /\ Served(i) /\ fwd'[i].term = fwd[i].term
             /\ \/ Subscribed(fwd[i], t)
                \/ /\ fwd'[i] = fwd[i]
                   /\ fwd[i].term \in Terminals => Broadcast(fwd[i].term)' = Broadcast(fwd[i].term)
  <2>1. /\ UNCHANGED <<head, attached, opening>> /\ unsent' = [unsent EXCEPT ![t] = 0]
    BY <1>4 DEF ReaderBroadcast
  <2>2. Served(i)
    BY <2>1 DEF Served
  <2>3. fwd[i].state \in {"run", "opening"}
    BY <1>n, <1>o, <2>2 DEF Served, Lifecycle, AttachedRuns
  <2>4. fwd'[i].term = fwd[i].term
    BY <1>4, BroadcastEffect
  <2>5. CASE fwd[i].term = t
    BY <2>2, <2>3, <2>4, <2>5 DEF Subscribed
  <2>6. CASE fwd[i].term # t
    <3>1. ~Subscribed(fwd[i], t)
      BY <2>6 DEF Subscribed
    <3>2. fwd'[i] = fwd[i]
      BY <1>4, <3>1, BroadcastEffect
    <3> QED
      BY <1>f, <2>1, <2>2, <2>6, <3>2 DEF Broadcast
  <2> QED
    BY <2>5, <2>6
<1>5. CASE \E t \in Terminals : ReaderBroadcast(t)
  BY <1>4, <1>5
<1>6. CASE \E t \in Terminals : Reap(t) \/ SendOpen(t) \/ SendKill(t)
  <2>1. UNCHANGED <<fwd, head, unsent, attached, opening>>
    BY <1>6, Zenon DEF Reap, SendOpen, SendKill
  <2> QED
    BY <1>1, <2>1
<1>7. CASE ServeOutput \/ ServeOpenUnknown \/ ServeKill \/ ClientStep \/ UNCHANGED vars
  <2>1. UNCHANGED <<fwd, head, unsent, attached, opening>>
    BY <1>7, Zenon DEF ServeOutput, ServeOpenUnknown, ServeKill, ClientStep, RecvAck, RecvResponse, RecvData, vars
  <2> QED
    BY <1>1, <2>1
<1>8. CASE OpenSnapshot
  <2>1. opening # None /\ opening'.stream = opening.stream
    BY <1>8, <1>o DEF OpenSnapshot, Openings
  <2>2. UNCHANGED <<fwd, head, unsent, attached>>
    BY <1>8 DEF OpenSnapshot
  <2> QED
    BY <1>1, <2>1, <2>2
<1>9. CASE OpenVanished
  <2>1. opening' = None /\ attached' = None
    BY <1>9, <1>o DEF OpenVanished
  <2> QED
    BY <1>n, <2>1 DEF Served
<1>10. CASE OpenAck
  <2>1. opening # None /\ opening' = None /\ attached' = opening.stream /\ UNCHANGED <<head, unsent>>
    BY <1>10 DEF OpenAck
  <2>2. Served(i) /\ i = opening.stream
    BY <2>1 DEF Served
  <2>3. fwd'[i].term = fwd[i].term /\ fwd'[i].buf = fwd[i].buf /\ fwd'[i].pieces = fwd[i].pieces
    BY <1>10, <1>f, <1>o, <2>1, <2>2, OpenAckEffect
  <2> QED
    BY <2>1, <2>2, <2>3 DEF Broadcast
<1>11. CASE ServeOpen
  <2>1. attached' = None /\ opening'.stream = next_id
    BY <1>11 DEF ServeOpen
  <2> QED
    BY <1>11, <1>n, <2>1 DEF Served
<1>12. ASSUME NEW j \in Ids, Forward(j)
       PROVE  /\ Served(i) /\ fwd'[i].term = fwd[i].term
              /\ \/ FwdRecv(i)
                 \/ FwdSend(i)
                 \/ /\ fwd'[i].pieces = fwd[i].pieces /\ fwd'[i].buf = fwd[i].buf
                    /\ fwd[i].term \in Terminals => Broadcast(fwd[i].term)' = Broadcast(fwd[i].term)
  <2>1. UNCHANGED <<head, unsent, attached, opening>>
    BY <1>12, Zenon DEF Forward, FwdRecv, FwdLagged, FwdSend, FwdDies
  <2>2. Served(i)
    BY <2>1 DEF Served
  <2>3. fwd[i].state \in {"run", "opening"}
    BY <1>n, <1>o, <2>2 DEF Served, Lifecycle, AttachedRuns
  <2>4. CASE i # j
    <3>1. fwd'[i] = fwd[i]
      BY <1>12, <2>4, OthersKept
    <3> QED
      BY <2>1, <2>2, <3>1 DEF Broadcast
  <2>5. CASE i = j
    <3>1. CASE FwdRecv(i)
      BY <1>f, <2>2, <3>1, FwdRecvEffect
    <3>2. CASE FwdSend(i)
      <4>1. fwd'[i].term = fwd[i].term
        BY <1>f, <3>2 DEF FwdSend, Forwarders
      <4> QED
        BY <2>2, <3>2, <4>1
    <3>3. CASE FwdLagged(i)
      <4>1. fwd'[i].term = fwd[i].term /\ fwd'[i].pieces = fwd[i].pieces /\ fwd'[i].buf = fwd[i].buf
        BY <1>f, <3>3 DEF FwdLagged, Forwarders
      <4> QED
        BY <2>1, <2>2, <4>1 DEF Broadcast
    <3>4. ~FwdDies(i)
      BY <2>3 DEF FwdDies
    <3> QED
      BY <1>12, <2>5, <3>1, <3>2, <3>3, <3>4 DEF Forward
  <2> QED
    BY <2>4, <2>5
<1> QED
  BY <1>3, <1>5, <1>6, <1>7, <1>8, <1>9, <1>10, <1>11, <1>12, <1>2, <1>4 DEF Next, ServerStep

LEMMA ContiguousFwdStep ==
  ASSUME StreamTypes, IdsSuffice, Lifecycle, Ordered, OutOlder, Numbers, ContiguousFwd, [Next]_vars
  PROVE  ContiguousFwd'
<1> SUFFICES ASSUME NEW i \in Ids, Served(i)', fwd'[i].lag = "no"
             PROVE  (/\ \A l \in DOMAIN fwd[i].pieces : BeforePieces(i, fwd[i].pieces[l], l)
                     /\ \A l \in DOMAIN fwd[i].buf : BeforeBuf(i, fwd[i].buf[l].from + 1, l)
                     /\ BeforeBuf(i, Broadcast(fwd[i].term) + 1, Len(fwd[i].buf) + 1))'
  BY Zenon DEF ContiguousFwd, Broadcast
<1>1. CASE ServeOpen /\ i = next_id
  <2>1. fwd'[i].pieces = <<>> /\ fwd'[i].buf = <<>>
    BY <1>1, ServeOpenEffect
  <2>2. /\ opening' = [req |-> Head(up).req, term |-> Head(up).term, stream |-> next_id, end |-> None]
    BY <1>1 DEF ServeOpen
  <2>3. opening' # None
    <3>1. Head(up) \in UpFrames /\ next_id \in Ids
      BY <1>1, ServeOpenEffect
    <3>2. opening' \in Openings
      BY <2>2, <3>1 DEF Openings, UpFrames
    <3> QED
      BY <3>2, StreamAssumption
  <2>4. \A n : AtClient(i, n)'
    BY <1>1, <2>2, <2>3 DEF AtClient
  <2> QED
    BY <2>1, <2>4 DEF BeforeBuf, BeforePieces, BeforeOut, BeforeDown
<1>2. ASSUME Served(i), fwd'[i].term = fwd[i].term,
             \/ FwdRecv(i)
             \/ FwdSend(i)
             \/ \E t \in Terminals : ReaderBroadcast(t) /\ Subscribed(fwd[i], t)
             \/ /\ fwd'[i].pieces = fwd[i].pieces /\ fwd'[i].buf = fwd[i].buf
                /\ fwd[i].term \in Terminals =>
                     Broadcast(fwd[i].term)' = Broadcast(fwd[i].term)
      PROVE  (/\ \A l \in DOMAIN fwd[i].pieces : BeforePieces(i, fwd[i].pieces[l], l)
              /\ \A l \in DOMAIN fwd[i].buf : BeforeBuf(i, fwd[i].buf[l].from + 1, l)
              /\ BeforeBuf(i, Broadcast(fwd[i].term) + 1, Len(fwd[i].buf) + 1))'
  <2>n. i # None /\ i \in Nat
    BY StreamAssumption DEF Ids
  <2>o. opening # None => /\ opening.stream = i /\ fwd[i].state = "opening"
                          /\ fwd[i].pieces = <<>> /\ fwd[i].term = opening.term
                          /\ fwd[i].term \in Terminals /\ i + 1 = next_id
    BY <1>2, <2>n DEF Served, Lifecycle, OpeningNewest, StreamTypes, Openings
  <2>a. opening = None => attached = i /\ fwd[i].term \in Terminals /\ i < next_id
    BY <1>2, <2>n DEF Served, Lifecycle, AttachedRuns
  <2>1. fwd[i].lag = "no" /\ fwd[i].term \in Terminals
    <3>1. i < next_id
      BY <2>n, <2>o, <2>a DEF StreamTypes
    <3> QED
      BY <3>1, <2>o, <2>a, LagKept
  <2>2. PICK T \in Terminals : T = fwd[i].term /\ T = fwd'[i].term
    BY <1>2, <2>1
  <2>3. PICK s \in Seq(Nat), b \in Seq(Chunks), s2 \in Seq(Nat), b2 \in Seq(Chunks) :
          s = fwd[i].pieces /\ b = fwd[i].buf /\ s2 = fwd'[i].pieces /\ b2 = fwd'[i].buf
    BY StreamTypesStep, ForwarderFacts DEF StreamTypes
  <2>4. PICK m \in Nat, m2 \in Nat : m = Broadcast(T) /\ m2 = Broadcast(T)' /\ m <= head[T]
    <3>1. head[T] \in Nat /\ unsent[T] \in Nat /\ unsent[T] <= head[T]
      BY DEF StreamTypes
    <3>2. head'[T] \in Nat /\ unsent'[T] \in Nat /\ unsent'[T] <= head'[T]
      BY StreamTypesStep DEF StreamTypes
    <3>3. Broadcast(T) \in Nat /\ Broadcast(T) <= head[T]
      BY <3>1 DEF Broadcast
    <3>4. Broadcast(T)' \in Nat
      BY <3>2 DEF Broadcast
    <3> QED
      BY <3>3, <3>4, Zenon
  <2>d. /\ DOMAIN s = 1..Len(s) /\ Len(s) \in Nat /\ DOMAIN b = 1..Len(b) /\ Len(b) \in Nat
        /\ DOMAIN s2 = 1..Len(s2) /\ Len(s2) \in Nat /\ DOMAIN b2 = 1..Len(b2) /\ Len(b2) \in Nat
        /\ \A l \in DOMAIN s : s[l] \in Nat
    OBVIOUS
  <2>c. \A l \in DOMAIN b : /\ b[l].from \in Nat /\ b[l].to \in Nat /\ b[l].from < b[l].to
                            /\ b[l].to <= head[T]
    <3>1. \A l \in DOMAIN b : b[l] \in Chunks
      OBVIOUS
    <3> QED
      BY <2>2, <2>3, <3>1 DEF Numbers, Chunks
  \* The invariant before the step.
  <2>5. /\ \A l \in DOMAIN s : BeforePieces(i, s[l], l)
        /\ \A l \in DOMAIN b : BeforeBuf(i, b[l].from + 1, l)
        /\ BeforeBuf(i, m + 1, Len(b) + 1)
    BY <1>2, <2>1, <2>2, <2>3, <2>4 DEF ContiguousFwd, Broadcast
  \* What is ahead of the forwarder stays ahead of it.
  <2> DEFINE Out(n)  == BeforeOut(i, n, Len(outq) + 1)
             Out2(n) == BeforeOut(i, n, Len(outq) + 1)'
             Fits(n) == opening = None \/ n <= head[T] + 1
  <2>6. \A n \in Nat : Fits(n) /\ Out(n) => Out2(n)
    BY <1>2, <2>2, <2>o, OutKept
  <2>7. /\ \A l \in DOMAIN s : Fits(s[l])
        /\ \A l \in DOMAIN b : Fits(b[l].from + 1)
        /\ Fits(m + 1)
    <3>1. head[T] \in Nat
      BY DEF StreamTypes
    <3>2. opening # None => s = <<>>
      BY <2>3, <2>o
    <3>3. \A l \in DOMAIN s : Fits(s[l])
      BY <3>2
    <3>4. \A l \in DOMAIN b : b[l].from + 1 <= head[T] + 1
      <4> TAKE l \in DOMAIN b
      <4>1. PICK x \in Nat, y \in Nat : x = b[l].from /\ y = b[l].to /\ x < y /\ y <= head[T]
        BY <2>c
      <4>2. x + 1 <= head[T] + 1
        BY <3>1, <4>1
      <4> QED
        BY <4>1, <4>2
    <3>5. m + 1 <= head[T] + 1
      BY <2>4, <3>1
    <3> QED
      BY <3>3, <3>4, <3>5
  <2>8. /\ \A n, l : BeforePieces(i, n, l) <=> Out(n) \/ \E k \in DOMAIN s : k < l /\ n <= s[k] + 1
        /\ \A n, l : BeforePieces(i, n, l)' <=> Out2(n) \/ \E k \in DOMAIN s2 : k < l /\ n <= s2[k] + 1
    BY <2>3 DEF BeforePieces, InPieces
  <2>9. /\ \A n, l : BeforeBuf(i, n, l) <=> BeforePieces(i, n, Len(s) + 1)
                                            \/ \E k \in DOMAIN b : k < l /\ n <= b[k].to + 1
        /\ \A n, l : BeforeBuf(i, n, l)' <=> BeforePieces(i, n, Len(s2) + 1)'
                                             \/ \E k \in DOMAIN b2 : k < l /\ n <= b2[k].to + 1
    BY <2>3 DEF BeforeBuf, InBuf
  <2> HIDE DEF Out, Out2, Fits
  <2> SUFFICES /\ \A l \in DOMAIN s2 : BeforePieces(i, s2[l], l)'
               /\ \A l \in DOMAIN b2 : BeforeBuf(i, b2[l].from + 1, l)'
               /\ BeforeBuf(i, m2 + 1, Len(b2) + 1)'
    BY <2>2, <2>3, <2>4
  \* The forwarder's pieces are the same: only the buffer can have grown.
  <2>10. ASSUME s2 = s
         PROVE  /\ \A l \in DOMAIN s2 : BeforePieces(i, s2[l], l)'
                /\ \A n \in Nat : Fits(n) /\ BeforePieces(i, n, Len(s) + 1) => BeforePieces(i, n, Len(s2) + 1)'
    BY <2>10, <2>5, <2>6, <2>7, <2>8, <2>d
  <2>11. CASE s2 = s /\ b2 = b /\ m2 = m
    BY <2>11, <2>10, <2>5, <2>7, <2>9, <2>c, <2>4
  <2>12. ASSUME NEW t \in Terminals, ReaderBroadcast(t), Subscribed(fwd[i], t)
         PROVE  /\ \A l \in DOMAIN s2 : BeforePieces(i, s2[l], l)'
                /\ \A l \in DOMAIN b2 : BeforeBuf(i, b2[l].from + 1, l)'
                /\ BeforeBuf(i, m2 + 1, Len(b2) + 1)'
    <3>1. t = T
      BY <2>2, <2>12 DEF Subscribed
    <3>2. PICK c \in Chunks : c.from = m /\ c.to = head[T] /\ b2 = Append(b, c)
      <4>1. [from |-> head[t] - unsent[t], to |-> head[t]] \in Chunks
        BY DEF StreamTypes, Chunks
      <4>2. fwd'[i].buf = Append(fwd[i].buf, [from |-> head[t] - unsent[t], to |-> head[t]])
        BY <2>12, BroadcastEffect
      <4> QED
        BY <2>3, <2>4, <3>1, <4>1, <4>2 DEF Broadcast
    <3>3. s2 = s
      BY <2>3, <2>12, BroadcastEffect
    <3>4. m2 = head[T] /\ head[T] \in Nat
      BY <2>4, <2>12, <3>1 DEF ReaderBroadcast, Broadcast, StreamTypes
    <3>5. /\ Len(b2) = Len(b) + 1 /\ DOMAIN b2 = 1..(Len(b) + 1)
          /\ \A l \in DOMAIN b : b2[l] = b[l]
          /\ b2[Len(b) + 1] = c
      BY <3>2, AppendFacts
    <3>6. \A n \in Nat : \A l : Fits(n) /\ BeforeBuf(i, n, l) => BeforeBuf(i, n, l)'
      BY <2>9, <2>10, <2>d, <3>3, <3>5
    <3>7. \A l \in DOMAIN b2 : BeforeBuf(i, b2[l].from + 1, l)'
      <4>1. \A l \in DOMAIN b : BeforeBuf(i, b2[l].from + 1, l)'
        BY <2>5, <2>7, <2>c, <3>5, <3>6
      <4>2. BeforeBuf(i, b2[Len(b) + 1].from + 1, Len(b) + 1)'
        BY <2>5, <2>7, <3>2, <3>5, <3>6
      <4> QED
        BY <2>d, <3>5, <4>1, <4>2
    <3>8. BeforeBuf(i, m2 + 1, Len(b2) + 1)'
      <4>1. Len(b) + 1 \in DOMAIN b2 /\ Len(b) + 1 < Len(b2) + 1 /\ m2 + 1 <= b2[Len(b) + 1].to + 1
        BY <2>d, <3>2, <3>4, <3>5
      <4> QED
        BY <2>9, <4>1
    <3> QED
      BY <2>10, <3>3, <3>7, <3>8
  <2>13. CASE FwdSend(i)
    <3>1. PICK f \in OutFrames : /\ outq' = Append(outq, f)
                                 /\ f.stream = i /\ f.seq = Head(s) /\ s # <<>>
                                 /\ s2 = Tail(s) /\ b2 = b
      BY <2>3, <2>13, SendEffect
    <3>2. m2 = m
      BY <2>4, <2>13 DEF FwdSend, Broadcast
    <3>3. /\ Len(s2) = Len(s) - 1 /\ DOMAIN s2 = 1..(Len(s) - 1) /\ 1 \in DOMAIN s
          /\ \A l \in DOMAIN s2 : l + 1 \in DOMAIN s /\ s2[l] = s[l + 1]
          /\ Head(s) = s[1]
      BY <3>1, TailFacts
    <3>4. \A n \in Nat : n <= s[1] + 1 => Out2(n)
      <4>1. /\ DOMAIN outq' = 1..(Len(outq) + 1) /\ Len(outq') = Len(outq) + 1 /\ Len(outq) \in Nat
            /\ outq'[Len(outq) + 1] = f
        BY <3>1, AppendFacts DEF StreamTypes
      <4>2. Len(outq) + 1 \in DOMAIN outq' /\ Len(outq) + 1 < Len(outq') + 1
        BY <4>1
      <4> QED
        BY <3>1, <3>3, <4>1, <4>2 DEF Out2, BeforeOut, InOut
    <3>5. ASSUME NEW n \in Nat, NEW l \in Nat, Fits(n), BeforePieces(i, n, l + 1)
          PROVE  BeforePieces(i, n, l)'
      <4>1. ASSUME NEW k \in DOMAIN s, k < l + 1, n <= s[k] + 1 PROVE BeforePieces(i, n, l)'
        <5>1. CASE k = 1
          BY <2>8, <3>4, <4>1, <5>1
        <5>2. CASE k # 1
          <6>2. k \in 1..Len(s) /\ k - 1 \in 1..(Len(s) - 1) /\ (k - 1) + 1 = k /\ k - 1 < l
            <7>1. k \in 1..Len(s) /\ Len(s) \in Nat
              BY <2>d
            <7> QED
              BY <4>1, <5>2, <7>1
          <6>1. k - 1 \in DOMAIN s2 /\ s2[k - 1] = s[k] /\ k - 1 < l
            BY <3>3, <6>2
          <6> QED
            BY <2>8, <4>1, <6>1
        <5> QED
          BY <5>1, <5>2
      <4> QED
        BY <2>6, <2>8, <3>5, <4>1
    <3>6. \A l \in DOMAIN s2 : BeforePieces(i, s2[l], l)'
      <4> TAKE l \in DOMAIN s2
      <4>1. l + 1 \in DOMAIN s /\ s2[l] = s[l + 1] /\ s[l + 1] \in Nat /\ l \in Nat
        BY <2>d, <3>3
      <4>2. Fits(s[l + 1]) /\ BeforePieces(i, s[l + 1], l + 1)
        BY <2>5, <2>7, <4>1
      <4> QED
        BY <3>5, <4>1, <4>2
    <3>7. \A n \in Nat : Fits(n) /\ BeforePieces(i, n, Len(s) + 1) => BeforePieces(i, n, Len(s2) + 1)'
      <4>1. Len(s2) + 1 = Len(s) /\ Len(s) \in Nat
        BY <2>d, <3>3
      <4> QED
        BY <3>5, <4>1
    <3>8. \A n \in Nat : \A l : Fits(n) /\ BeforeBuf(i, n, l) => BeforeBuf(i, n, l)'
      BY <2>9, <3>1, <3>7
    <3>9. \A l \in DOMAIN b : BeforeBuf(i, b[l].from + 1, l)'
      BY <2>5, <2>7, <2>c, <3>8
    <3>10. BeforeBuf(i, m + 1, Len(b) + 1)'
      BY <2>5, <2>7, <3>8
    <3> QED
      BY <3>1, <3>2, <3>6, <3>9, <3>10
  <2>14. CASE FwdRecv(i)
    <3>1. s = <<>> /\ b # <<>> /\ m2 = m
      BY <2>3, <2>4, <2>14 DEF FwdRecv, Running, Broadcast
    <3>2. s2 = Pieces(Head(b)) /\ b2 = Tail(b)
      <4>1. fwd \in [Ids -> Forwarders]
        BY DEF StreamTypes
      <4>2. fwd' = [fwd EXCEPT ![i] = [state |-> fwd[i].state, term |-> fwd[i].term,
                                       buf |-> Tail(fwd[i].buf),
                                       pieces |-> Pieces(Head(fwd[i].buf)), lag |-> fwd[i].lag]]
        BY <2>14, FwdRecvEffect
      <4>3. fwd'[i].buf = Tail(fwd[i].buf) /\ fwd'[i].pieces = Pieces(Head(fwd[i].buf))
        BY <4>1, <4>2
      <4> QED
        BY <2>3, <4>3
    <3>3. /\ Len(b2) = Len(b) - 1 /\ DOMAIN b2 = 1..(Len(b) - 1) /\ 1 \in DOMAIN b
          /\ \A l \in DOMAIN b2 : l + 1 \in DOMAIN b /\ b2[l] = b[l + 1]
          /\ Head(b) = b[1] /\ Head(b) \in Chunks
      BY <3>1, <3>2, TailFacts
    <3>4. PICK from \in Nat, to \in Nat : from = b[1].from /\ to = b[1].to /\ from < to
      BY <2>c, <3>3
    <3>5. DOMAIN s2 = 1..(to - from) /\ \A l \in DOMAIN s2 : s2[l] = from + l
      BY <3>2, <3>3, <3>4, PiecesFacts
    <3>6. \A n \in Nat : Fits(n) /\ BeforePieces(i, n, Len(s) + 1) => Out2(n)
      BY <2>6, <2>8, <2>d, <3>1
    <3>7. Out2(from + 1)
      <4>1. BeforeBuf(i, from + 1, 1) /\ Fits(from + 1)
        BY <2>5, <2>7, <3>3, <3>4
      <4>2. BeforePieces(i, from + 1, Len(s) + 1)
        BY <2>9, <2>d, <4>1
      <4> QED
        BY <3>6, <4>1, <4>2
    <3>8. \A l \in DOMAIN s2 : BeforePieces(i, s2[l], l)'
      <4> TAKE l \in DOMAIN s2
      <4>1. CASE l = 1
        BY <2>8, <3>5, <3>7, <4>1
      <4>2. CASE l # 1
        <5>2. l \in 1..(to - from) /\ l - 1 \in 1..(to - from)
          BY <3>5, <4>2
        <5>3. s2[l] = from + l /\ s2[l - 1] = from + (l - 1)
          BY <3>5, <5>2
        <5>1. l - 1 \in DOMAIN s2 /\ l - 1 < l /\ s2[l] <= s2[l - 1] + 1
          BY <3>5, <5>2, <5>3
        <5> QED
          BY <2>8, <5>1
      <4> QED
        BY <4>1, <4>2
    <3>9. ASSUME NEW n \in Nat, NEW l \in Nat, Fits(n), BeforeBuf(i, n, l + 1)
          PROVE  BeforeBuf(i, n, l)'
      <4>1. CASE BeforePieces(i, n, Len(s) + 1)
        BY <2>8, <2>9, <3>6, <3>9, <4>1
      <4>2. ASSUME NEW k \in DOMAIN b, k < l + 1, n <= b[k].to + 1 PROVE BeforeBuf(i, n, l)'
        <5>1. CASE k = 1
          <6>3. PICK d \in Nat \ {0} : d = to - from /\ from + d = to
            BY <3>4
          <6>4. DOMAIN s2 = 1..d
            BY <3>5, <6>3
          <6>5. d \in DOMAIN s2 /\ d < Len(s2) + 1
            <7>1. d \in 1..d
              OBVIOUS
            <7>2. d \in 1..Len(s2) /\ Len(s2) \in Nat
              BY <2>d, <6>4, <7>1, Zenon
            <7> QED
              BY <6>4, <7>1, <7>2
          <6>6. s2[d] = from + d
            BY <3>5, <6>5
          <6>1. to - from \in DOMAIN s2 /\ to - from < Len(s2) + 1 /\ s2[to - from] = to
            BY <6>3, <6>5, <6>6, Zenon
          <6>2. BeforePieces(i, n, Len(s2) + 1)'
            BY <2>8, <3>4, <4>2, <5>1, <6>1
          <6> QED
            BY <2>9, <6>2
        <5>2. CASE k # 1
          <6>2. k \in 1..Len(b) /\ k - 1 \in 1..(Len(b) - 1) /\ (k - 1) + 1 = k /\ k - 1 < l
            <7>1. k \in 1..Len(b) /\ Len(b) \in Nat
              BY <2>d
            <7> QED
              BY <4>2, <5>2, <7>1
          <6>1. k - 1 \in DOMAIN b2 /\ b2[k - 1] = b[k] /\ k - 1 < l
            BY <3>3, <6>2
          <6> QED
            BY <2>9, <4>2, <6>1
        <5> QED
          BY <5>1, <5>2
      <4> QED
        BY <2>9, <3>9, <4>1, <4>2
    <3>10. \A l \in DOMAIN b2 : BeforeBuf(i, b2[l].from + 1, l)'
      <4> TAKE l \in DOMAIN b2
      <4>1. l + 1 \in DOMAIN b /\ b2[l] = b[l + 1] /\ b[l + 1].from + 1 \in Nat /\ l \in Nat
        BY <2>c, <2>d, <3>3
      <4>2. Fits(b[l + 1].from + 1) /\ BeforeBuf(i, b[l + 1].from + 1, l + 1)
        BY <2>5, <2>7, <4>1
      <4> QED
        BY <3>9, <4>1, <4>2
    <3>11. BeforeBuf(i, m2 + 1, Len(b2) + 1)'
      <4>1. (Len(b2) + 1) + 1 = Len(b) + 1 /\ Len(b2) + 1 \in Nat /\ m + 1 \in Nat
        BY <2>d, <3>3
      <4>2. Fits(m + 1) /\ BeforeBuf(i, m + 1, (Len(b2) + 1) + 1)
        BY <2>5, <2>7, <4>1
      <4> QED
        BY <3>1, <3>9, <4>1, <4>2
    <3> QED
      BY <3>8, <3>10, <3>11
  <2> QED
    BY <1>2, <2>1, <2>2, <2>3, <2>4, <2>11, <2>12, <2>13, <2>14
<1> QED
  BY <1>1, <1>2, ServedEffect

-----------------------------------------------------------------------------
(* The theorems *)

LEMMA StreamInvStep == StreamInv /\ [Next]_vars => StreamInv'
BY StreamTypesStep, LifecycleStep, OrderedStep, OutOlderStep DEF StreamInv

LEMMA StreamInvariant == Spec => []StreamInv
<1>1. Init => StreamInv
  BY StreamTypesInit, LifecycleInit, OrderedInit DEF StreamInv
<1> QED
  BY <1>1, StreamInvStep, PTL DEF Spec

LEMMA ContiguousInvariant == Spec => [](StreamInv /\ Contiguous)
<1>1. Init => Contiguous
  BY ContiguousInit
<1>2. StreamInv /\ Contiguous /\ [Next]_vars => Contiguous'
  BY NumbersStep, ContiguousDownStep, ContiguousOutStep, ContiguousFwdStep DEF StreamInv, Contiguous
<1> QED
  BY <1>1, <1>2, StreamInvariant, PTL DEF Spec

\* A frame the client takes continues its last_seq.
LEMMA TakesNext ==
  ASSUME StreamInv, Contiguous, [Next]_vars,
         NEW i \in Ids, known[i] # None, known'[i] # None
  PROVE  known'[i] <= known[i] + 1 \/ fwd[i].lag # "no"
<1> USE DEF client, server
<1>0. known \in [Ids -> Nat \cup {None}] /\ known[i] \in Nat
  BY DEF StreamInv, StreamTypes
<1>1. CASE known'[i] = known[i]
  BY <1>0, <1>1
<1>d. down # <<>> => Head(down) = down[1] /\ 1 \in DOMAIN down /\ Head(down) \in DownFrames
  BY TailFacts DEF StreamInv, StreamTypes
<1>2. CASE RecvAck
  <2>1. NoAck(i)
    BY KnownNotAcked DEF StreamInv
  <2>2. down # <<>> /\ Head(down).kind = "ack"
    BY <1>2 DEF RecvAck, Inbound
  <2>3. Head(down).stream # i
    BY <1>d, <2>1, <2>2 DEF NoAck, IsAck
  <2> QED
    BY <1>0, <1>1, <1>2, <2>3 DEF RecvAck
<1>3. CASE RecvData
  <2>1. down # <<>> /\ Head(down).kind = "data"
    BY <1>3 DEF RecvData, Inbound
  <2>2. Head(down).seq \in Nat /\ Head(down).stream \in Ids
    BY <1>d, <2>1, FrameFacts DEF IsData
  <2>3. CASE /\ known' = [known EXCEPT ![i] = Head(down).seq] /\ i = Head(down).stream
             /\ active # None /\ active.stream = i /\ fwd[i].lag = "no"
    <3>1. BeforeDown(i, Head(down).seq, 1)
      BY <1>d, <2>1, <2>3 DEF Contiguous, ContiguousDown, IsData
    <3>2. AtClient(i, Head(down).seq)
      <4>1. \A k \in DOMAIN down : ~(k < 1)
        BY DEF StreamInv, StreamTypes
      <4> QED
        BY <3>1, <4>1 DEF BeforeDown, InDown
    <3>3. Current(i)
      BY <2>3 DEF Current
    <3>4. ~(opening # None /\ opening.stream = i)
      <4>1. Older(i)
        BY DEF StreamInv, Ordered, KnownBounded, Bounded
      <4> QED
        BY <4>1 DEF Older, Ids
    <3>5. Head(down).seq <= known[i] + 1
      BY <3>2, <3>3, <3>4 DEF AtClient, Forgotten
    <3> QED
      BY <1>0, <2>2, <2>3, <3>5
  <2>4. \/ known' = known
        \/ /\ known' = [known EXCEPT ![Head(down).stream] = Head(down).seq]
           /\ active # None /\ active.stream = Head(down).stream
    BY <1>3 DEF RecvData
  <2> QED
    BY <1>0, <1>1, <2>2, <2>3, <2>4
<1>4. CASE \E t \in Terminals : SendOpen(t) \/ SendKill(t)
  BY <1>0, <1>1, <1>4 DEF SendOpen, SendKill, ClearActive
<1>5. CASE known' = known
  BY <1>1, <1>5
<1>6. CASE \E t \in Terminals : ReaderPush(t) \/ ReaderBroadcast(t) \/ Reap(t)
  BY <1>5, <1>6, Zenon DEF ReaderPush, ReaderBroadcast, Reap
<1>7. CASE \E j \in Ids : Forward(j)
  BY <1>5, <1>7, Zenon DEF Forward, FwdRecv, FwdLagged, FwdSend, FwdDies
<1>8. CASE ServerStep
  BY <1>5, <1>8, Zenon DEF ServerStep, ServeOutput, ServeOpenUnknown, ServeOpen, ServeKill, OpenSnapshot, OpenVanished, OpenAck
<1>9. CASE RecvResponse \/ UNCHANGED vars
  BY <1>5, <1>9, Zenon DEF RecvResponse, vars
<1> QED
  BY <1>2, <1>3, <1>4, <1>6, <1>7, <1>8, <1>9 DEF Next, ClientStep

\* For every number of terminals and requests, and whatever the capacities: when
\* the client switches to another stream, no output of the old one follows the
\* ack of the new one (the check against the attached stream in
\* run_connection_post_handshake, the ack before the map entry in OpenTerminal).
THEOREM SwitchClean == Spec => []SwitchIsClean
<1>1. StreamInv => SwitchIsClean
  BY SwitchFollows DEF StreamInv
<1> QED
  BY <1>1, StreamInvariant, PTL

\* For every amount of output, chunks of any size and whatever the capacities:
\* between the snapshot in the ack and the live output nothing is missing, and no
\* live frame is skipped, as long as the subscription has not lagged.  This rests
\* on the subscription being made before the snapshot is taken (handle_open_terminal_request)
\* and on the ring being filled before the broadcast (spawn_reader).
THEOREM OutputContiguous == Spec => ContiguousUnlessLagged
<1>1. StreamInv /\ Contiguous /\ [Next]_vars =>
        [\A i \in Ids : known[i] # None /\ known'[i] # None =>
           known'[i] <= known[i] + 1 \/ fwd[i].lag # "no"]_vars
  BY TakesNext
<1> QED
  BY <1>1, ContiguousInvariant, PTL DEF Spec, ContiguousUnlessLagged
=============================================================================
