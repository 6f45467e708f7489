------------------------ MODULE ClientSessionProofs -------------------------
(***************************************************************************)
(* What a client session keeps true for any number of calls, any number of *)
(* lost connections and any timing.                                        *)
(*                                                                         *)
(* A command is in the channel, or kept for the next connection, or in     *)
(* flight, and in one of them only as long as its caller waits (Placed).   *)
(* Until it is sent it has never been sent (Unsent), so that on the wire   *)
(* it occurs once (WireOnce).  While request ids are not used up, a        *)
(* response can only belong to the request that was sent under its id      *)
(* (Matched); this is what makes an Ok true.                               *)
(***************************************************************************)
EXTENDS ClientSession, FiniteSetTheorems, TLAPS

UpFrames   == [id : Nat, cmd : Cmds \cup {"ping"}]
DownFrames == [type : {"response"}, id : Nat, kind : Kinds, ok : BOOLEAN]
              \cup [type : {"bye"}, recoverable : BOOLEAN]
              \cup [type : {"pong", "event", "bad"}]

QueueTypes == chan \in Seq(Cmds \cup {Bye}) /\ pending \in Seq(Cmds)
ReqTypes ==
  /\ DOMAIN reqs \subseteq Nat /\ reqs \in [DOMAIN reqs -> Cmds]
  /\ next_id \in Nat \ {0}
WireTypes == up \in Seq(UpFrames) /\ down \in Seq(DownFrames) /\ peer \in {"up", "hung", "closed"}
ReplyTypes ==
  /\ reply \in [Cmds -> {"idle", "waiting", "ok", "failed", "closed"}]
  /\ sent \in [Cmds -> Nat] /\ served \in [Cmds -> Nat]

Types == QueueTypes /\ ReqTypes /\ WireTypes /\ ReplyTypes

\* Between two connections nothing is in flight; a session that is over has
\* dropped its queues.
Between ==
  /\ phase # "run" => reqs = <<>> /\ up = <<>> /\ down = <<>> /\ peer = "closed"
  /\ phase = "end" => chan = <<>> /\ pending = <<>>

\* No command is twice in a queue.
Once(q) == \A i, j \in DOMAIN q : q[i] = q[j] /\ q[i] # Bye => i = j

\* A command is in one place, for as long as its caller waits.
Placed ==
  /\ Once(chan) /\ Once(pending) /\ Once(reqs)
  /\ Commands(chan) \cap Commands(pending) = {}
  /\ (Commands(chan) \cup Commands(pending)) \cap InFlight = {}
  /\ \A c \in Cmds : reply[c] = "waiting" <=>
       c \in Commands(chan) \/ c \in Commands(pending) \/ c \in InFlight

\* What has not been sent.
Unsent ==
  /\ \A c \in Cmds : sent[c] <= 1
  /\ \A c \in Cmds :
       c \in Commands(chan) \/ c \in Commands(pending) \/ reply[c] = "idle" => sent[c] = 0

\* A command is on the wire once, and only after it was sent.
WireOnce ==
  /\ \A i, j \in DOMAIN up : up[i].cmd = up[j].cmd /\ up[i].cmd # "ping" => i = j
  /\ \A i \in DOMAIN up : up[i].cmd # "ping" => sent[up[i].cmd] = 1

SessionInv == Types /\ Between /\ Placed /\ Unsent /\ WireOnce

\* The frames on the wire are about the requests whose ids they carry.
Matched ==
  /\ \A i \in DOMAIN up : up[i].cmd # "ping" =>
       up[i].id < next_id /\ (up[i].id \in DOMAIN reqs => reqs[up[i].id] = up[i].cmd)
  /\ \A i \in DOMAIN down : down[i].type = "response" =>
       down[i].id < next_id
        /\ (down[i].ok /\ down[i].id \in DOMAIN reqs => served[reqs[down[i].id]] > 0)

\* The heartbeat's two clocks.
Beats ==
  /\ elapsed \in Nat /\ since \in Nat /\ ping \in BOOLEAN /\ stalled \in BOOLEAN
  /\ ~ ping => stalled \/ elapsed <= Idle
  /\ ping => stalled \/ elapsed <= Idle + since

-----------------------------------------------------------------------------
(* Queues *)

LEMMA CommandsAppend ==
  ASSUME NEW S, NEW q \in Seq(S), NEW c \in S
  PROVE  /\ Append(q, c) \in Seq(S)
         /\ Commands(Append(q, c)) = Commands(q) \cup ({c} \ {Bye})
         /\ Once(q) /\ c \notin Commands(q) => Once(Append(q, c))
<1>1. /\ Append(q, c) \in Seq(S) /\ DOMAIN Append(q, c) = DOMAIN q \cup {Len(q) + 1}
      /\ Append(q, c)[Len(q) + 1] = c /\ \A i \in DOMAIN q : Append(q, c)[i] = q[i]
  OBVIOUS
<1>2. Commands(Append(q, c)) = Commands(q) \cup ({c} \ {Bye})
  BY <1>1 DEF Commands
<1>3. ASSUME Once(q), c \notin Commands(q) PROVE Once(Append(q, c))
  BY <1>1, <1>3 DEF Once, Commands
<1> QED BY <1>1, <1>2, <1>3

LEMMA CommandsTail ==
  ASSUME NEW S, NEW q \in Seq(S), q # <<>>, Once(q)
  PROVE  /\ Head(q) \in S /\ Tail(q) \in Seq(S) /\ Once(Tail(q))
         /\ Commands(Tail(q)) = Commands(q) \ {Head(q)}
         /\ Head(q) # Bye => Head(q) \in Commands(q)
<1>1. /\ Head(q) = q[1] /\ 1 \in DOMAIN q /\ Head(q) \in S /\ Tail(q) \in Seq(S)
      /\ \A i \in DOMAIN Tail(q) : i + 1 \in DOMAIN q /\ Tail(q)[i] = q[i + 1] /\ i \in Nat \ {0}
  OBVIOUS
<1>2. Once(Tail(q))
  BY <1>1 DEF Once
<1>3. ASSUME NEW i \in DOMAIN q, i # 1 PROVE i - 1 \in DOMAIN Tail(q) /\ Tail(q)[i - 1] = q[i]
  BY <1>3
<1>4. ASSUME NEW c \in Commands(Tail(q)) PROVE c \in Commands(q) \ {Head(q)}
  <2>1. PICK i \in DOMAIN Tail(q) : c = Tail(q)[i] /\ c # Bye
    BY DEF Commands
  <2>2. i + 1 # 1 /\ i + 1 \in DOMAIN q /\ q[i + 1] = c
    BY <1>1, <2>1
  <2>3. c # q[1]
    BY <1>1, <2>1, <2>2 DEF Once
  <2> QED BY <1>1, <2>1, <2>2, <2>3 DEF Commands
<1>5. ASSUME NEW c \in Commands(q), c # Head(q) PROVE c \in Commands(Tail(q))
  <2>1. PICK i \in DOMAIN q : c = q[i] /\ c # Bye
    BY DEF Commands
  <2>2. i # 1
    BY <1>1, <1>5, <2>1
  <2> QED BY <1>3, <2>1, <2>2 DEF Commands
<1> QED BY <1>1, <1>2, <1>4, <1>5 DEF Commands

LEMMA CommandsEmpty == Commands(<<>>) = {} /\ Once(<<>>)
BY DEF Commands, Once

LEMMA CommandsOne ==
  ASSUME NEW c \in Cmds, c # Bye
  PROVE  <<c>> \in Seq(Cmds) /\ Commands(<<c>>) = {c} /\ Once(<<c>>)
<1>1. <<c>> \in Seq(Cmds) /\ DOMAIN <<c>> = {1} /\ <<c>>[1] = c
  OBVIOUS
<1> QED BY <1>1 DEF Commands, Once

-----------------------------------------------------------------------------
(* The steps, by what they do to commands, requests and frames *)

core == <<chan, pending, reqs, next_id, reply, sent, served, up, down>>

\* The loop goes from one of its places to another, or the peer's state changes.
Moves ==
  /\ UNCHANGED core /\ peer' \in {"up", "hung", "closed"}
  /\ phase' # "end" \/ phase' = phase
  /\ phase' # "run" => phase # "run" /\ peer' = peer

\* The task returns while no connection exists.
EndsIdle ==
  /\ phase # "run" /\ phase' = "end" /\ chan' = <<>> /\ pending' = <<>>
  /\ Returns(Commands(chan) \cup Commands(pending))
  /\ UNCHANGED <<reqs, next_id, sent, served, up, down, peer>>

\* What the end of a connection finds in the queues and on the wire.
CloseArgs(ch, pe, u) ==
  /\ ch \in Seq(Cmds \cup {Bye}) /\ pe \in Seq(Cmds) /\ Once(ch) /\ Once(pe)
  /\ Commands(ch) \cap Commands(pe) = {}
  /\ Commands(ch) \cup Commands(pe) = Commands(chan) \cup Commands(pending)
  /\ u \in Seq(UpFrames)
  /\ \A i, j \in DOMAIN u : u[i].cmd = u[j].cmd /\ u[i].cmd # "ping" => i = j
  /\ \A i \in DOMAIN u : u[i].cmd # "ping" => reply[u[i].cmd] # "idle"

Closes ==
  \E out, reached, fate, ch, pe, u :
    /\ AfterConnection(out, reached, fate, ch, pe, u) /\ UNCHANGED sent
    /\ fate \in {"failed", "closed"} /\ CloseArgs(ch, pe, u)

\* A response is matched with its request.
Answers ==
  \E f, c :
    /\ phase = "run" /\ down # <<>> /\ f = Head(down) /\ f.type = "response"
    /\ f.id \in DOMAIN reqs /\ c = reqs[f.id]
    /\ reqs' = [i \in DOMAIN reqs \ {f.id} |-> reqs[i]]
    /\ reply' = [reply EXCEPT ![c] = IF f.ok THEN "ok" ELSE "failed"]
    /\ down' = Tail(down)
    /\ UNCHANGED <<phase, chan, pending, next_id, up, peer, served, sent>>

\* Another frame arrives.
Receives ==
  /\ phase = "run" /\ down # <<>> /\ down' = Tail(down)
  /\ UNCHANGED <<phase, chan, pending, reqs, next_id, reply, up, peer, served, sent>>

\* The daemon sends a frame that answers nothing.
Says ==
  \E g :
    /\ g \in DownFrames /\ g.type # "response" /\ peer = "up" /\ peer' \in {"up", "closed"}
    /\ down' = Append(down, g)
    /\ UNCHANGED <<phase, chan, pending, reqs, next_id, reply, up, served, sent>>

\* The end of a connection leaves queues that hold the same commands, and what
\* is on the wire is there once.
LEMMA CloseArgsSame ==
  ASSUME SessionAssumption, SessionInv
  PROVE  CloseArgs(chan, pending, up) /\ CloseArgs(chan, pending, <<>>)
<1>1. QueueTypes /\ ReplyTypes /\ up \in Seq(UpFrames) /\ Placed /\ Unsent /\ WireOnce
  BY DEF SessionInv, Types, WireTypes
<1>2. ASSUME NEW i \in DOMAIN up, up[i].cmd # "ping" PROVE reply[up[i].cmd] # "idle"
  <2>1. up[i] \in UpFrames
    BY <1>1
  <2>2. up[i].cmd \in Cmds
    BY <1>2, <2>1 DEF UpFrames
  <2>3. sent[up[i].cmd] = 1
    BY <1>1, <1>2 DEF WireOnce
  <2> QED BY <1>1, <2>2, <2>3 DEF Unsent
<1>3. CloseArgs(chan, pending, up)
  BY <1>1, <1>2 DEF CloseArgs, QueueTypes, Placed, WireOnce
<1>4. CloseArgs(chan, pending, <<>>)
  BY <1>3 DEF CloseArgs
<1> QED BY <1>3, <1>4

\* The command that is sent next.
LEMMA NextCommandOK ==
  ASSUME SessionAssumption, SessionInv, HasCommand
  PROVE  /\ NextCommand \in Cmds /\ NextCommand # Bye /\ NextCommand # "ping"
         /\ NextCommand \in Commands(chan) \cup Commands(pending)
         /\ ChanLeft \in Seq(Cmds \cup {Bye}) /\ Once(ChanLeft)
         /\ Kept \in Seq(Cmds) /\ Kept # <<>> /\ Once(Kept) /\ Head(Kept) = NextCommand
         /\ Commands(ChanLeft) \cup Commands(Kept) = Commands(chan) \cup Commands(pending)
         /\ Commands(ChanLeft) \cap Commands(Kept) = {}
<1>1. QueueTypes /\ Placed /\ Bye \notin Cmds /\ "ping" \notin Cmds
  BY DEF SessionInv, Types, SessionAssumption
<1>2. CASE pending # <<>>
  <2>1. Head(pending) \in Cmds /\ (Head(pending) # Bye => Head(pending) \in Commands(pending))
    BY <1>1, <1>2, CommandsTail DEF QueueTypes, Placed
  <2> QED BY <1>1, <1>2, <2>1 DEF NextCommand, ChanLeft, Kept, QueueTypes, Placed
<1>3. CASE pending = <<>>
  <2>1. chan # <<>> /\ Head(chan) # Bye
    BY <1>3 DEF HasCommand
  <2>0. chan \in Seq(Cmds \cup {Bye}) /\ Once(chan)
    BY <1>1 DEF QueueTypes, Placed
  <2>7. PICK q, c : q = Tail(chan) /\ c = Head(chan)
    OBVIOUS
  <2>8. /\ c \in Cmds \cup {Bye} /\ q \in Seq(Cmds \cup {Bye}) /\ Once(q)
        /\ Commands(q) = Commands(chan) \ {c} /\ (c # Bye => c \in Commands(chan))
    BY <2>0, <2>1, <2>7, CommandsTail
  <2>2. /\ q \in Seq(Cmds \cup {Bye}) /\ c \in Cmds
        /\ q = Tail(chan) /\ c = Head(chan) /\ c # Bye /\ Once(q)
        /\ Commands(q) = Commands(chan) \ {c} /\ c \in Commands(chan)
    BY <2>1, <2>7, <2>8
  <2>3. PICK k \in Seq(Cmds) : k = <<c>> /\ Commands(k) = {c} /\ Once(k)
    BY <2>2, CommandsOne
  <2>4. k # <<>> /\ Head(k) = c
    BY <2>3
  <2>5. NextCommand = c /\ ChanLeft = q /\ Kept = k
    BY <1>3, <2>2, <2>3 DEF NextCommand, ChanLeft, Kept
  <2>6. Commands(pending) = {}
    BY <1>3, CommandsEmpty
  <2> QED BY <1>1, <2>2, <2>3, <2>4, <2>5, <2>6
<1> QED BY <1>2, <1>3

LEMMA CloseArgsSend ==
  ASSUME SessionAssumption, SessionInv, HasCommand
  PROVE  CloseArgs(ChanLeft, Kept, Append(up, [id |-> next_id, cmd |-> NextCommand]))
<1>1. CloseArgs(chan, pending, up)
  BY CloseArgsSame
<1>2. PICK c \in Cmds : c = NextCommand /\ c # "ping" /\ c \in Commands(chan) \cup Commands(pending)
  BY NextCommandOK
<1>3. PICK v \in Seq(UpFrames) : v = up
  BY DEF SessionInv, Types, WireTypes
<1>4. PICK n \in Nat : n = next_id
  BY DEF SessionInv, Types, ReqTypes
<1>5. PICK g \in UpFrames : g = [id |-> n, cmd |-> c] /\ g.cmd = c
  <2>1. [id |-> n, cmd |-> c] \in UpFrames /\ [id |-> n, cmd |-> c].cmd = c
    BY DEF UpFrames
  <2> QED BY <2>1, Zenon
<1>6. PICK u : u = Append(v, g)
  OBVIOUS
<1>7. /\ u \in Seq(UpFrames) /\ DOMAIN u = DOMAIN v \cup {Len(v) + 1} /\ u[Len(v) + 1] = g
      /\ \A i \in DOMAIN v : u[i] = v[i]
  BY <1>6
<1>8. sent[c] = 0 /\ reply[c] = "waiting"
  BY <1>2 DEF SessionInv, Unsent, Placed
<1>9. \A i \in DOMAIN v : v[i].cmd # c
  BY <1>2, <1>3, <1>8 DEF SessionInv, WireOnce
<1>10. \A i, j \in DOMAIN u : u[i].cmd = u[j].cmd /\ u[i].cmd # "ping" => i = j
  BY <1>1, <1>3, <1>5, <1>7, <1>9 DEF CloseArgs
<1>11. \A i \in DOMAIN u : u[i].cmd # "ping" => reply[u[i].cmd] # "idle"
  BY <1>1, <1>3, <1>5, <1>7, <1>8 DEF CloseArgs
<1>12. u = Append(up, [id |-> next_id, cmd |-> NextCommand])
  BY <1>2, <1>3, <1>4, <1>5, <1>6
<1>13. PICK ch, pe : ch = ChanLeft /\ pe = Kept
  OBVIOUS
<1>14. /\ ch \in Seq(Cmds \cup {Bye}) /\ pe \in Seq(Cmds) /\ Once(ch) /\ Once(pe)
       /\ Commands(ch) \cap Commands(pe) = {}
       /\ Commands(ch) \cup Commands(pe) = Commands(chan) \cup Commands(pending)
  BY <1>13, NextCommandOK
<1>15. CloseArgs(ch, pe, u)
  BY <1>7, <1>10, <1>11, <1>14 DEF CloseArgs
<1> QED BY <1>12, <1>13, <1>15

\* One connection ends, for whatever reason.
LEMMA ClosesSteps ==
  ASSUME SessionAssumption, SessionInv
  PROVE  /\ HeartbeatTimeout \/ TakeShutdown \/ Abandoned \/ RemoteCloses \/ RecvFails => Closes
         /\ \A err : SetupFails(err) => Closes
         /\ SendFails => Closes
         /\ \A out, fate : AfterConnection(out, TRUE, fate, chan, pending, up) /\ UNCHANGED sent
                             /\ fate \in {"failed", "closed"} => Closes
<1>1. ASSUME NEW out, NEW reached \in BOOLEAN, NEW fate \in {"failed", "closed"}, UNCHANGED sent,
             NEW u, u = up \/ u = <<>>,
             AfterConnection(out, reached, fate, chan, pending, u)
      PROVE  Closes
  <2>1. PICK ch, pe : ch = chan /\ pe = pending
    OBVIOUS
  <2>2. CloseArgs(ch, pe, u)
    BY <1>1, <2>1, CloseArgsSame
  <2>3. AfterConnection(out, reached, fate, ch, pe, u)
    BY <1>1, <2>1
  <2> QED BY <1>1, <2>2, <2>3 DEF Closes
<1>2. ASSUME NEW out, NEW fate \in {"failed", "closed"}, UNCHANGED sent,
             AfterConnection(out, TRUE, fate, chan, pending, up)
      PROVE  Closes
  <2>1. PICK u : u = up
    OBVIOUS
  <2>2. PICK reached \in BOOLEAN : reached = TRUE
    OBVIOUS
  <2>3. AfterConnection(out, reached, fate, chan, pending, u)
    BY <1>2, <2>1, <2>2
  <2> QED BY <1>1, <1>2, <2>1, <2>3
<1>3. CASE HeartbeatTimeout \/ Abandoned \/ RemoteCloses \/ RecvFails
  BY <1>2, <1>3 DEF HeartbeatTimeout, Abandoned, RemoteCloses, RecvFails
<1>4. CASE TakeShutdown
  <2>1. PICK ch, pe, u : ch = Tail(chan) /\ pe = pending /\ u = up
    OBVIOUS
  <2>2. chan # <<>> /\ Head(chan) = Bye /\ AfterConnection("ok", TRUE, "closed", ch, pe, u)
        /\ UNCHANGED sent
    BY <1>4, <2>1 DEF TakeShutdown
  <2>3. CloseArgs(chan, pending, up) /\ QueueTypes /\ Placed
    BY CloseArgsSame DEF SessionInv, Types
  <2>4. ch \in Seq(Cmds \cup {Bye}) /\ Once(ch) /\ Commands(ch) = Commands(chan) \ {Bye}
    BY <2>1, <2>2, <2>3, CommandsTail DEF QueueTypes, Placed
  <2>5. Commands(ch) = Commands(chan)
    BY <2>4 DEF Commands
  <2>6. CloseArgs(ch, pe, u)
    BY <2>1, <2>3, <2>4, <2>5 DEF CloseArgs
  <2> QED BY <2>2, <2>6 DEF Closes
<1>5. ASSUME NEW err, SetupFails(err) PROVE Closes
  BY <1>1, <1>5 DEF SetupFails
<1>6. CASE SendFails
  <2>1. PICK ch, pe, u : /\ ch = ChanLeft /\ pe = Kept
                         /\ u = Append(up, [id |-> next_id, cmd |-> NextCommand])
    OBVIOUS
  <2>2. HasCommand /\ AfterConnection("transport", TRUE, "closed", ch, pe, u) /\ UNCHANGED sent
    BY <1>6, <2>1 DEF SendFails
  <2>3. CloseArgs(ch, pe, u)
    BY <2>1, <2>2, CloseArgsSend
  <2> QED BY <2>2, <2>3 DEF Closes
<1> QED BY <1>2, <1>3, <1>4, <1>5, <1>6

LEMMA FrameSteps ==
  ASSUME SessionAssumption, SessionInv, ReceiveFrame
  PROVE  Closes \/ Answers \/ Receives
<1>1. PICK f : f = Head(down)
  OBVIOUS
<1>2. phase = "run" /\ down # <<>> /\ UNCHANGED sent
  BY DEF ReceiveFrame, Listening
<1>3. CASE f.type = "response" /\ Response(f)
  <2>1. CASE f.id \in DOMAIN reqs /\ Kind[reqs[f.id]] = f.kind
    BY <1>1, <1>2, <1>3, <2>1 DEF Response, Answers, loop
  <2>2. CASE ~ (f.id \in DOMAIN reqs /\ Kind[reqs[f.id]] = f.kind)
    <3>1. AfterConnection("proto", TRUE, "closed", chan, pending, up)
      BY <1>3, <2>2 DEF Response
    <3> QED BY <1>2, <3>1, ClosesSteps
  <2> QED BY <2>1, <2>2
<1>4. CASE f.type = "bye" /\ AfterConnection(IF f.recoverable THEN "closed" ELSE "rejected",
                             TRUE, "failed", chan, pending, up)
  <2>1. PICK out : out = IF f.recoverable THEN "closed" ELSE "rejected"
    OBVIOUS
  <2>2. AfterConnection(out, TRUE, "failed", chan, pending, up)
    BY <1>4, <2>1
  <2> QED BY <1>2, <2>2, ClosesSteps
<1>5. CASE f.type = "bad" /\ AfterConnection("proto", TRUE, "closed", chan, pending, up)
  BY <1>2, <1>5, ClosesSteps
<1>6. CASE /\ f.type \in {"ping", "pong", "event"} /\ down' = Tail(down)
           /\ UNCHANGED <<loop, calls, pending, runtime, up, peer, served>>
  BY <1>2, <1>6 DEF Receives, loop, calls, runtime
<1> QED BY <1>1, <1>3, <1>4, <1>5, <1>6 DEF ReceiveFrame

LEMMA Steps ==
  ASSUME SessionAssumption, SessionInv, [Next]_vars
  PROVE  \/ \E c \in Cmds : Call(c)
         \/ \E ok \in BOOLEAN : Serve(ok)
         \/ Shutdown \/ SendPing \/ SendCommand
         \/ Moves \/ EndsIdle \/ Closes \/ Answers \/ Receives \/ Says
<1> USE DEF loop, calls, runtime, beat, wire, core
<1>1. peer \in {"up", "hung", "closed"}
  BY DEF SessionInv, Types, WireTypes
<1>2. DropSession \/ Tick \/ Slow \/ UNCHANGED vars => Moves
  BY <1>1 DEF DropSession, Tick, Slow, TimePasses, vars, Moves
<1>3. Connects \/ WakeUp \/ PairOpens \/ Established => Moves
  BY <1>1 DEF Connects, WakeUp, PairOpens, Established, Moves
<1>4. Top => Moves \/ EndsIdle
  BY <1>1 DEF Top, Moves, EndsIdle
<1>5. \A err : ConnectFails(err) => Moves \/ EndsIdle
  BY <1>1 DEF ConnectFails, Moves, EndsIdle
<1>6. \A type \in {"event", "bad"} : Unasked(type) => Says
  <2> SUFFICES ASSUME NEW type \in {"event", "bad"}, Unasked(type) PROVE Says
    OBVIOUS
  <2>1. PICK g : g = [type |-> type]
    OBVIOUS
  <2>2. g \in DownFrames /\ g.type # "response"
    BY <2>1 DEF DownFrames
  <2> QED BY <1>1, <2>1, <2>2 DEF Unasked, Says
<1>7. \A r \in BOOLEAN : SayBye(r) => Says
  <2> SUFFICES ASSUME NEW r \in BOOLEAN, SayBye(r) PROVE Says
    OBVIOUS
  <2>1. PICK g : g = [type |-> "bye", recoverable |-> r]
    OBVIOUS
  <2>2. g \in DownFrames /\ g.type # "response"
    BY <2>1 DEF DownFrames
  <2> QED BY <1>1, <2>1, <2>2 DEF SayBye, Says
<1>8. \A how \in {"hung", "closed"} : PeerStops(how) => Moves
  BY <1>1 DEF PeerStops, Moves, SessionInv, Between
<1>9. LoopStep => Moves \/ EndsIdle \/ Closes \/ Answers \/ Receives \/ SendPing \/ SendCommand
  BY <1>3, <1>4, ClosesSteps, FrameSteps DEF LoopStep
<1> QED BY <1>2, <1>5, <1>6, <1>7, <1>8, <1>9, ClosesSteps DEF Next

-----------------------------------------------------------------------------
(* What the larger steps leave behind *)

\* The end of a connection.
LEMMA ClosesEffect ==
  ASSUME SessionAssumption, SessionInv, Closes
  PROVE  /\ reqs' = <<>> /\ next_id' = 1 /\ up' = <<>> /\ down' = <<>> /\ peer' = "closed"
         /\ phase' \in {"end", "backoff"} /\ UNCHANGED sent
         /\ phase' = "end" => chan' = <<>> /\ pending' = <<>>
         /\ chan' \in Seq(Cmds \cup {Bye}) /\ pending' \in Seq(Cmds)
         /\ Once(chan') /\ Once(pending') /\ Commands(chan') \cap Commands(pending') = {}
         /\ Commands(chan') \cup Commands(pending') \subseteq Commands(chan) \cup Commands(pending)
         /\ reply' \in [Cmds -> {"idle", "waiting", "ok", "failed", "closed"}]
         /\ \A c \in Cmds :
              IF c \in Commands(chan') \cup Commands(pending')
                   \/ (c \notin InFlight /\ c \notin Commands(chan) \cup Commands(pending))
              THEN reply'[c] = reply[c] ELSE reply'[c] \in {"failed", "closed"}
         /\ \E more \in [Cmds -> 0..1] : /\ \A c \in Cmds : more[c] = 1 => reply[c] # "idle"
                                         /\ served' = [c \in Cmds |-> served[c] + more[c]]
<1>1. PICK out, reached, fate, ch, pe, u :
        /\ AfterConnection(out, reached, fate, ch, pe, u) /\ UNCHANGED sent
        /\ fate \in {"failed", "closed"} /\ CloseArgs(ch, pe, u)
  BY DEF Closes
<1>2. PICK ends : ends = (stop \/ ~ ((reached \/ ever) /\ should_retry_after_disconnect(out)))
  OBVIOUS
<1>3. /\ reqs' = <<>> /\ next_id' = 1 /\ up' = <<>> /\ down' = <<>> /\ peer' = "closed"
      /\ phase' = IF ends THEN "end" ELSE "backoff"
      /\ chan' = IF ends THEN <<>> ELSE ch
      /\ pending' = IF ends THEN <<>> ELSE pe
      /\ reply' = [c \in Cmds |-> IF c \in InFlight \ Commands(pe) THEN fate
                                  ELSE IF ends /\ c \in Commands(ch) \cup Commands(pe)
                                       THEN "closed" ELSE reply[c]]
  BY <1>1, <1>2 DEF AfterConnection
<1>4. /\ ch \in Seq(Cmds \cup {Bye}) /\ pe \in Seq(Cmds) /\ Once(ch) /\ Once(pe)
      /\ Commands(ch) \cap Commands(pe) = {}
      /\ Commands(ch) \cup Commands(pe) = Commands(chan) \cup Commands(pending)
  BY <1>1 DEF CloseArgs
<1>5. ReplyTypes /\ (Commands(chan) \cup Commands(pending)) \cap InFlight = {}
  BY DEF SessionInv, Types, Placed
<1>6. /\ phase' \in {"end", "backoff"} /\ (phase' = "end" => chan' = <<>> /\ pending' = <<>>)
      /\ chan' \in Seq(Cmds \cup {Bye}) /\ pending' \in Seq(Cmds)
  BY <1>3, <1>4
<1>7. /\ Once(chan') /\ Once(pending') /\ Commands(chan') \cap Commands(pending') = {}
      /\ Commands(chan') \cup Commands(pending') \subseteq Commands(chan) \cup Commands(pending)
  BY <1>3, <1>4, CommandsEmpty
<1>8. reply' \in [Cmds -> {"idle", "waiting", "ok", "failed", "closed"}]
  BY <1>1, <1>3, <1>5 DEF ReplyTypes
<1>9. ASSUME NEW c \in Cmds
      PROVE  IF c \in Commands(chan') \cup Commands(pending')
                  \/ (c \notin InFlight /\ c \notin Commands(chan) \cup Commands(pending))
             THEN reply'[c] = reply[c] ELSE reply'[c] \in {"failed", "closed"}
  <2>1. reply'[c] = IF c \in InFlight \ Commands(pe) THEN fate
                    ELSE IF ends /\ c \in Commands(ch) \cup Commands(pe)
                         THEN "closed" ELSE reply[c]
    BY <1>3
  <2>2. CASE ends
    <3>1. Commands(chan') \cup Commands(pending') = {}
      BY <1>3, <2>2, CommandsEmpty
    <3> QED BY <1>1, <1>4, <1>5, <2>1, <2>2, <3>1
  <2>3. CASE ~ ends
    <3>1. chan' = ch /\ pending' = pe
      BY <1>3, <2>3
    <3> QED BY <1>1, <1>4, <1>5, <2>1, <2>3, <3>1
  <2> QED BY <2>2, <2>3
<1>10. \E more \in [Cmds -> 0..1] : /\ \A c \in Cmds : more[c] = 1 => reply[c] # "idle"
                                    /\ served' = [c \in Cmds |-> served[c] + more[c]]
  <2>1. PICK delivered \in SUBSET DOMAIN u :
          served' = [c \in Cmds |-> served[c] + Cardinality({i \in delivered : u[i].cmd = c})]
    BY <1>1 DEF AfterConnection
  <2>2. ASSUME NEW c \in Cmds
        PROVE  /\ Cardinality({i \in delivered : u[i].cmd = c}) \in 0..1
               /\ Cardinality({i \in delivered : u[i].cmd = c}) = 1 => reply[c] # "idle"
    <3>1. c # "ping"
      BY DEF SessionAssumption
    <3>2. CASE {i \in delivered : u[i].cmd = c} = {}
      <4>1. Cardinality({i \in delivered : u[i].cmd = c}) = 0
        BY <3>2, FS_EmptySet
      <4> QED BY <4>1
    <3>3. CASE {i \in delivered : u[i].cmd = c} # {}
      <4>1. PICK k \in delivered : u[k].cmd = c
        BY <3>3
      <4>2. \A i, j \in DOMAIN u : u[i].cmd = u[j].cmd /\ u[i].cmd # "ping" => i = j
        BY <1>1 DEF CloseArgs
      <4>3. {i \in delivered : u[i].cmd = c} = {k}
        BY <2>1, <3>1, <4>1, <4>2
      <4>4. Cardinality({i \in delivered : u[i].cmd = c}) = 1
        BY <4>3, FS_Singleton
      <4>5. reply[c] # "idle"
        BY <1>1, <2>1, <3>1, <4>1 DEF CloseArgs
      <4> QED BY <4>4, <4>5
    <3> QED BY <3>2, <3>3
  <2>3. PICK more : more = [c \in Cmds |-> Cardinality({i \in delivered : u[i].cmd = c})]
    OBVIOUS
  <2>4. more \in [Cmds -> 0..1] /\ \A c \in Cmds : more[c] = 1 => reply[c] # "idle"
    BY <2>2, <2>3
  <2>5. served' = [c \in Cmds |-> served[c] + more[c]]
    BY <2>1, <2>3
  <2> QED BY <2>4, <2>5
<1> QED BY <1>1, <1>3, <1>6, <1>7, <1>8, <1>9, <1>10

\* A command is sent.
Sends(c, n) ==
  /\ n = next_id /\ phase = "run" /\ sent[c] = 0 /\ reply[c] = "waiting"
  /\ c \notin InFlight
  /\ reqs' = [i \in DOMAIN reqs \cup {n} |-> IF i = n THEN c ELSE reqs[i]]
  /\ reply' = [d \in Cmds |-> IF n \in DOMAIN reqs /\ reqs[n] = d
                              THEN "closed" ELSE reply[d]]
  /\ next_id' = IF n < IdMax THEN n + 1 ELSE n
  /\ up' = up \/ up' = Append(up, [id |-> n, cmd |-> c])
  /\ sent' = [sent EXCEPT ![c] = 1]
  /\ chan' \in Seq(Cmds \cup {Bye}) /\ pending' \in Seq(Cmds)
  /\ Once(chan') /\ Once(pending') /\ Commands(chan') \cap Commands(pending') = {}
  /\ Commands(chan') \cup Commands(pending')
       = (Commands(chan) \cup Commands(pending)) \ {c}
  /\ UNCHANGED <<phase, down, peer, served>>

LEMMA SendEffect ==
  ASSUME SessionAssumption, SessionInv, SendCommand
  PROVE  \E c \in Cmds, n \in Nat : Sends(c, n)
<1>1. phase = "run" /\ HasCommand
  BY DEF SendCommand
<1>2. PICK c, n : c = NextCommand /\ n = next_id
  OBVIOUS
<1>3. /\ c \in Cmds /\ c # Bye /\ c \in Commands(chan) \cup Commands(pending) /\ n \in Nat
  BY <1>1, <1>2, NextCommandOK DEF SessionInv, Types, ReqTypes
<1>4. sent[c] = 0 /\ reply[c] = "waiting" /\ c \notin InFlight /\ sent \in [Cmds -> Nat]
  BY <1>3 DEF SessionInv, Placed, Unsent, Types, ReplyTypes
<1>5. /\ reqs' = [i \in DOMAIN reqs \cup {n} |-> IF i = n THEN c ELSE reqs[i]]
      /\ reply' = [d \in Cmds |-> IF n \in DOMAIN reqs /\ reqs[n] = d THEN "closed" ELSE reply[d]]
      /\ next_id' = IF n < IdMax THEN n + 1 ELSE n
      /\ up' = up \/ up' = Append(up, [id |-> n, cmd |-> c])
      /\ UNCHANGED <<phase, down, peer, served>>
  BY <1>2 DEF SendCommand, Recorded, loop
<1>6. sent' = [sent EXCEPT ![c] = sent[c] + 1]
  BY <1>2 DEF SendCommand
<1>7. sent' = [sent EXCEPT ![c] = 1]
  BY <1>4, <1>6
<1>8. PICK ch, k : ch = ChanLeft /\ k = Kept
  OBVIOUS
<1>9. /\ ch \in Seq(Cmds \cup {Bye}) /\ Once(ch)
      /\ k \in Seq(Cmds) /\ k # <<>> /\ Once(k) /\ Head(k) = c
      /\ Commands(ch) \cup Commands(k) = Commands(chan) \cup Commands(pending)
      /\ Commands(ch) \cap Commands(k) = {}
  BY <1>1, <1>2, <1>8, NextCommandOK
<1>10. chan' = ch /\ pending' = Tail(k)
  BY <1>8 DEF SendCommand
<1>11. /\ Tail(k) \in Seq(Cmds) /\ Once(Tail(k)) /\ Commands(Tail(k)) = Commands(k) \ {c}
       /\ c \in Commands(k)
  BY <1>3, <1>9, CommandsTail
<1>12. /\ chan' \in Seq(Cmds \cup {Bye}) /\ pending' \in Seq(Cmds)
       /\ Once(chan') /\ Once(pending') /\ Commands(chan') \cap Commands(pending') = {}
       /\ Commands(chan') \cup Commands(pending') = (Commands(chan) \cup Commands(pending)) \ {c}
  BY <1>9, <1>10, <1>11
<1>13. Sends(c, n)
  BY <1>1, <1>2, <1>4, <1>5, <1>7, <1>12 DEF Sends
<1> QED BY <1>3, <1>13

-----------------------------------------------------------------------------
(* The invariant is kept *)

\* A call queues its command behind the others.
LEMMA CallKeepsInv ==
  ASSUME SessionAssumption, SessionInv, NEW c \in Cmds, Call(c)
  PROVE  SessionInv'
<1> USE DEF loop, runtime, wire
<1>1. /\ QueueTypes /\ ReqTypes /\ WireTypes /\ ReplyTypes /\ Between /\ Placed /\ Unsent /\ WireOnce
      /\ c # Bye
  BY DEF SessionInv, Types, SessionAssumption
<1>2. /\ reply[c] = "idle"
      /\ UNCHANGED <<phase, pending, reqs, next_id, up, down, peer, served, sent>>
  BY DEF Call
<1>3. c \notin Commands(chan) /\ c \notin Commands(pending) /\ c \notin InFlight /\ sent[c] = 0
  BY <1>1, <1>2 DEF Placed, Unsent
<1>4. CASE phase = "end" /\ reply' = [reply EXCEPT ![c] = "closed"] /\ UNCHANGED chan
  <2>1. Types'
    BY <1>1, <1>2, <1>4 DEF Types, QueueTypes, ReqTypes, WireTypes, ReplyTypes
  <2>2. Placed'
    BY <1>1, <1>2, <1>3, <1>4 DEF Placed, InFlight, ReplyTypes
  <2>3. Unsent'
    BY <1>1, <1>2, <1>4 DEF Unsent, ReplyTypes
  <2>4. Between' /\ WireOnce'
    BY <1>1, <1>2, <1>4 DEF Between, WireOnce
  <2> QED BY <2>1, <2>2, <2>3, <2>4 DEF SessionInv
<1>5. CASE phase # "end" /\ reply' = [reply EXCEPT ![c] = "waiting"] /\ chan' = Append(chan, c)
  <2>1. /\ chan' \in Seq(Cmds \cup {Bye}) /\ Once(chan')
        /\ Commands(chan') = Commands(chan) \cup {c}
    BY <1>1, <1>3, <1>5, CommandsAppend DEF QueueTypes, Placed
  <2>2. Types'
    BY <1>1, <1>2, <1>5, <2>1 DEF Types, QueueTypes, ReqTypes, WireTypes, ReplyTypes
  <2>3. Placed'
    BY <1>1, <1>2, <1>3, <1>5, <2>1 DEF Placed, InFlight, ReplyTypes
  <2>4. Unsent'
    BY <1>1, <1>2, <1>3, <1>5, <2>1 DEF Unsent, ReplyTypes
  <2>5. Between' /\ WireOnce'
    BY <1>1, <1>2, <1>5 DEF Between, WireOnce
  <2> QED BY <2>2, <2>3, <2>4, <2>5 DEF SessionInv
<1> QED BY <1>4, <1>5 DEF Call

LEMMA ShutdownKeepsInv ==
  ASSUME SessionAssumption, SessionInv, Shutdown
  PROVE  SessionInv'
<1> USE DEF loop, runtime, wire
<1>1. /\ QueueTypes /\ ReqTypes /\ WireTypes /\ ReplyTypes /\ Between /\ Placed /\ Unsent /\ WireOnce
  BY DEF SessionInv, Types
<1>2. UNCHANGED <<phase, reply, pending, reqs, next_id, up, down, peer, served, sent>>
  BY DEF Shutdown
<1>3. /\ chan' \in Seq(Cmds \cup {Bye}) /\ Once(chan') /\ Commands(chan') = Commands(chan)
      /\ (phase = "end" => UNCHANGED chan)
  <2>1. CASE phase = "end"
    BY <1>1, <2>1 DEF Shutdown, QueueTypes, Placed
  <2>2. CASE phase # "end"
    <3>1. chan' = Append(chan, Bye) /\ Bye \notin Commands(chan)
      BY <2>2 DEF Shutdown, Commands
    <3>2. chan \in Seq(Cmds \cup {Bye}) /\ Once(chan) /\ Bye \in Cmds \cup {Bye}
      BY <1>1 DEF QueueTypes, Placed
    <3>3. /\ Append(chan, Bye) \in Seq(Cmds \cup {Bye}) /\ Once(Append(chan, Bye))
          /\ Commands(Append(chan, Bye)) = Commands(chan) \cup ({Bye} \ {Bye})
      BY <3>1, <3>2, CommandsAppend
    <3>4. Commands(chan') = Commands(chan)
      BY <3>1, <3>3
    <3> QED BY <2>2, <3>1, <3>3, <3>4
  <2> QED BY <2>1, <2>2
<1>4. Types'
  BY <1>1, <1>2, <1>3 DEF Types, QueueTypes, ReqTypes, WireTypes, ReplyTypes
<1>5. Placed' /\ Unsent'
  BY <1>1, <1>2, <1>3 DEF Placed, Unsent, InFlight
<1>6. Between' /\ WireOnce'
  BY <1>1, <1>2, <1>3 DEF Between, WireOnce
<1> QED BY <1>4, <1>5, <1>6 DEF SessionInv

LEMMA MovesKeepsInv ==
  ASSUME SessionInv, Moves
  PROVE  SessionInv'
<1>1. /\ QueueTypes /\ ReqTypes /\ WireTypes /\ ReplyTypes /\ Between /\ Placed /\ Unsent /\ WireOnce
  BY DEF SessionInv, Types
<1>2. UNCHANGED <<chan, pending, reqs, next_id, reply, sent, served, up, down>>
  BY DEF Moves, core
<1>3. Types' /\ Placed' /\ Unsent' /\ WireOnce'
  BY <1>1, <1>2 DEF Moves, Types, QueueTypes, ReqTypes, WireTypes, ReplyTypes, Placed, InFlight,
     Unsent, WireOnce
<1>4. Between'
  BY <1>1, <1>2 DEF Moves, Between
<1> QED BY <1>3, <1>4 DEF SessionInv

LEMMA EndsIdleKeepsInv ==
  ASSUME SessionInv, EndsIdle
  PROVE  SessionInv'
<1>1. /\ QueueTypes /\ ReqTypes /\ WireTypes /\ ReplyTypes /\ Between /\ Placed /\ Unsent /\ WireOnce
  BY DEF SessionInv, Types
<1>2. /\ phase # "run" /\ phase' = "end" /\ chan' = <<>> /\ pending' = <<>>
      /\ UNCHANGED <<reqs, next_id, sent, served, up, down, peer>>
      /\ reply' = [c \in Cmds |-> IF c \in Commands(chan) \cup Commands(pending)
                                  THEN "closed" ELSE reply[c]]
  BY DEF EndsIdle, Returns
<1>3. Commands(chan') = {} /\ Commands(pending') = {} /\ Once(chan') /\ Once(pending')
  BY <1>2, CommandsEmpty
<1>4. InFlight = {} /\ InFlight' = {}
  BY <1>1, <1>2 DEF InFlight, Between
<1>5. Types'
  BY <1>1, <1>2 DEF Types, QueueTypes, ReqTypes, WireTypes, ReplyTypes
<1>6. Placed'
  BY <1>1, <1>2, <1>3, <1>4 DEF Placed
<1>7. Unsent'
  BY <1>1, <1>2, <1>3 DEF Unsent
<1>8. Between' /\ WireOnce'
  BY <1>1, <1>2 DEF Between, WireOnce
<1> QED BY <1>5, <1>6, <1>7, <1>8 DEF SessionInv

LEMMA ClosesKeepsInv ==
  ASSUME SessionAssumption, SessionInv, Closes
  PROVE  SessionInv'
<1>1. ReplyTypes /\ Placed /\ Unsent
  BY DEF SessionInv, Types
<1>2. /\ reqs' = <<>> /\ next_id' = 1 /\ up' = <<>> /\ down' = <<>> /\ peer' = "closed"
      /\ phase' \in {"end", "backoff"} /\ UNCHANGED sent
      /\ phase' = "end" => chan' = <<>> /\ pending' = <<>>
      /\ chan' \in Seq(Cmds \cup {Bye}) /\ pending' \in Seq(Cmds)
  BY ClosesEffect
<1>3. /\ Once(chan') /\ Once(pending') /\ Commands(chan') \cap Commands(pending') = {}
      /\ Commands(chan') \cup Commands(pending') \subseteq Commands(chan) \cup Commands(pending)
  BY ClosesEffect
<1>4. /\ reply' \in [Cmds -> {"idle", "waiting", "ok", "failed", "closed"}]
      /\ \A c \in Cmds :
           IF c \in Commands(chan') \cup Commands(pending')
                \/ (c \notin InFlight /\ c \notin Commands(chan) \cup Commands(pending))
           THEN reply'[c] = reply[c] ELSE reply'[c] \in {"failed", "closed"}
  BY ClosesEffect
<1>5. served' \in [Cmds -> Nat]
  <2>1. PICK more \in [Cmds -> 0..1] : served' = [c \in Cmds |-> served[c] + more[c]]
    BY ClosesEffect
  <2>2. \A c \in Cmds : served[c] \in Nat /\ more[c] \in Nat
    BY <1>1 DEF ReplyTypes
  <2> QED BY <2>1, <2>2
<1>6. Types'
  BY <1>1, <1>2, <1>4, <1>5 DEF Types, QueueTypes, ReqTypes, WireTypes, ReplyTypes
<1>7. InFlight' = {} /\ Once(reqs')
  BY <1>2 DEF InFlight, Once
<1>8. \A c \in Cmds : reply'[c] = "waiting" <=> c \in Commands(chan') \/ c \in Commands(pending')
  BY <1>1, <1>3, <1>4 DEF Placed
<1>9. Placed'
  BY <1>3, <1>7, <1>8 DEF Placed
<1>10. Unsent'
  BY <1>1, <1>2, <1>3, <1>4 DEF Unsent
<1>11. Between' /\ WireOnce'
  BY <1>2 DEF Between, WireOnce
<1> QED BY <1>6, <1>9, <1>10, <1>11 DEF SessionInv

LEMMA PingKeepsInv ==
  ASSUME SessionAssumption, SessionInv, SendPing
  PROVE  SessionInv'
<1> USE DEF loop, calls, runtime
<1>1. /\ QueueTypes /\ ReqTypes /\ WireTypes /\ ReplyTypes /\ Between /\ Placed /\ Unsent /\ WireOnce
  BY DEF SessionInv, Types
<1>2. /\ phase = "run"
      /\ UNCHANGED <<phase, chan, pending, reqs, next_id, reply, down, peer, served, sent>>
  BY DEF SendPing
<1>3. PICK g : g = [id |-> 0, cmd |-> "ping"]
  OBVIOUS
<1>4. g \in UpFrames /\ g.cmd = "ping"
  BY <1>3 DEF UpFrames
<1>5. CASE up' = Append(up, g)
  <2>1. /\ up' \in Seq(UpFrames) /\ DOMAIN up' = DOMAIN up \cup {Len(up) + 1}
        /\ up'[Len(up) + 1] = g /\ \A i \in DOMAIN up : up'[i] = up[i]
    BY <1>1, <1>4, <1>5 DEF WireTypes
  <2>2. Types'
    BY <1>1, <1>2, <2>1 DEF Types, QueueTypes, ReqTypes, WireTypes, ReplyTypes
  <2>3. Placed' /\ Unsent' /\ Between'
    BY <1>1, <1>2 DEF Placed, InFlight, Unsent, Between
  <2>4. WireOnce'
    BY <1>1, <1>2, <1>4, <2>1 DEF WireOnce
  <2> QED BY <2>2, <2>3, <2>4 DEF SessionInv
<1>6. CASE UNCHANGED up
  <2>1. Types'
    BY <1>1, <1>2, <1>6 DEF Types, QueueTypes, ReqTypes, WireTypes, ReplyTypes
  <2>2. Placed' /\ Unsent' /\ Between' /\ WireOnce'
    BY <1>1, <1>2, <1>6 DEF Placed, InFlight, Unsent, Between, WireOnce
  <2> QED BY <2>1, <2>2 DEF SessionInv
<1> QED BY <1>3, <1>5, <1>6 DEF SendPing

LEMMA SendKeepsInv ==
  ASSUME SessionAssumption, SessionInv, SendCommand
  PROVE  SessionInv'
<1>1. /\ QueueTypes /\ ReqTypes /\ WireTypes /\ ReplyTypes /\ Between /\ Placed /\ Unsent /\ WireOnce
  BY DEF SessionInv, Types
<1>0. PICK c \in Cmds, n \in Nat : Sends(c, n)
  BY SendEffect
<1>2. /\ n = next_id /\ phase = "run" /\ sent[c] = 0 /\ reply[c] = "waiting"
      /\ c \notin InFlight
      /\ reqs' = [i \in DOMAIN reqs \cup {n} |-> IF i = n THEN c ELSE reqs[i]]
      /\ reply' = [d \in Cmds |-> IF n \in DOMAIN reqs /\ reqs[n] = d
                                  THEN "closed" ELSE reply[d]]
      /\ next_id' = IF n < IdMax THEN n + 1 ELSE n
      /\ up' = up \/ up' = Append(up, [id |-> n, cmd |-> c])
      /\ sent' = [sent EXCEPT ![c] = 1]
      /\ chan' \in Seq(Cmds \cup {Bye}) /\ pending' \in Seq(Cmds)
      /\ Once(chan') /\ Once(pending') /\ Commands(chan') \cap Commands(pending') = {}
      /\ Commands(chan') \cup Commands(pending') = (Commands(chan) \cup Commands(pending)) \ {c}
      /\ UNCHANGED <<phase, down, peer, served>>
  BY <1>0 DEF Sends
<1>3. c # Bye /\ c # "ping" /\ IdMax \in Nat
  BY DEF SessionAssumption
<1>4. /\ DOMAIN reqs' = DOMAIN reqs \cup {n} /\ reqs'[n] = c
      /\ \A i \in DOMAIN reqs : i # n => reqs'[i] = reqs[i]
  BY <1>2
<1>5. ReqTypes'
  <2>1. next_id' \in Nat \ {0}
    BY <1>1, <1>2, <1>3 DEF ReqTypes
  <2>2. DOMAIN reqs' \subseteq Nat /\ reqs' \in [DOMAIN reqs' -> Cmds]
    BY <1>1, <1>2, <1>4 DEF ReqTypes
  <2> QED BY <2>1, <2>2 DEF ReqTypes
<1>6. PICK g : g = [id |-> n, cmd |-> c]
  OBVIOUS
<1>7. g \in UpFrames /\ g.cmd = c
  BY <1>6 DEF UpFrames
<1>8. ASSUME up' = Append(up, g)
      PROVE  /\ up' \in Seq(UpFrames) /\ DOMAIN up' = DOMAIN up \cup {Len(up) + 1}
             /\ up'[Len(up) + 1] = g /\ \A i \in DOMAIN up : up'[i] = up[i]
  BY <1>1, <1>7, <1>8 DEF WireTypes
<1>9. WireTypes'
  BY <1>1, <1>2, <1>6, <1>8 DEF WireTypes
<1>10. ReplyTypes' /\ QueueTypes'
  BY <1>1, <1>2 DEF ReplyTypes, QueueTypes
<1>11. Between'
  BY <1>2 DEF Between
<1>12. Once(reqs')
  BY <1>1, <1>2, <1>4 DEF Placed, Once, InFlight
<1>13. InFlight' = (InFlight \ (IF n \in DOMAIN reqs THEN {reqs[n]} ELSE {})) \cup {c}
  <2>1. ASSUME NEW i \in DOMAIN reqs, i # n PROVE n \in DOMAIN reqs => reqs[i] # reqs[n]
    BY <1>1, <1>3, <2>1 DEF Placed, Once, ReqTypes, SessionAssumption
  <2> DEFINE Gone == IF n \in DOMAIN reqs THEN {reqs[n]} ELSE {}
  <2>2. ASSUME NEW d \in InFlight' PROVE d = c \/ (d \in InFlight /\ d \notin Gone)
    <3>1. PICK i \in DOMAIN reqs' : d = reqs'[i]
      BY DEF InFlight
    <3> QED BY <1>4, <2>1, <3>1 DEF InFlight
  <2>3. ASSUME NEW d \in InFlight, d \notin Gone PROVE d \in InFlight'
    <3>1. PICK i \in DOMAIN reqs : d = reqs[i]
      BY DEF InFlight
    <3>2. i # n
      BY <2>3, <3>1
    <3>3. i \in DOMAIN reqs' /\ reqs'[i] = d
      BY <1>4, <3>1, <3>2
    <3> QED BY <3>3 DEF InFlight
  <2>4. c \in InFlight'
    BY <1>4 DEF InFlight
  <2> QED BY <2>2, <2>3, <2>4
<1>14. ASSUME NEW d \in Cmds
       PROVE  reply'[d] = "waiting" <=>
                d \in Commands(chan') \/ d \in Commands(pending') \/ d \in InFlight'
  <2>1. CASE n \in DOMAIN reqs /\ reqs[n] = d
    <3>1. reply'[d] = "closed" /\ d # c /\ d \in InFlight
      BY <1>2, <2>1 DEF InFlight
    <3>2. d \notin Commands(chan) \cup Commands(pending)
      BY <1>1, <3>1 DEF Placed
    <3> QED BY <1>2, <1>13, <2>1, <3>1, <3>2
  <2>2. CASE ~ (n \in DOMAIN reqs /\ reqs[n] = d)
    <3>1. reply'[d] = reply[d]
      BY <1>2, <2>2
    <3>2. reply[d] = "waiting" <=> d \in Commands(chan) \cup Commands(pending) \/ d \in InFlight
      BY <1>1 DEF Placed
    <3> QED BY <1>2, <1>13, <2>2, <3>1, <3>2
  <2> QED BY <2>1, <2>2
<1>15. (Commands(chan') \cup Commands(pending')) \cap InFlight' = {}
  BY <1>1, <1>2, <1>13 DEF Placed
<1>16. Placed'
  BY <1>2, <1>12, <1>14, <1>15 DEF Placed
<1>17. Unsent'
  <2>1. \A d \in Cmds : sent'[d] = IF d = c THEN 1 ELSE sent[d]
    BY <1>1, <1>2 DEF ReplyTypes
  <2>2. \A d \in Cmds : reply'[d] = "idle" => reply[d] = "idle"
    BY <1>2
  <2> QED BY <1>1, <1>2, <2>1, <2>2 DEF Unsent
<1>18. WireOnce'
  <2>1. \A d \in Cmds : sent'[d] = IF d = c THEN 1 ELSE sent[d]
    BY <1>1, <1>2 DEF ReplyTypes
  <2>2. ASSUME NEW i \in DOMAIN up PROVE up[i].cmd \in Cmds \cup {"ping"}
    <3>1. up[i] \in UpFrames
      BY <1>1 DEF WireTypes
    <3> QED BY <3>1 DEF UpFrames
  <2>3. \A i \in DOMAIN up : up[i].cmd # c
    BY <1>1, <1>2, <1>3 DEF WireOnce
  <2>4. CASE up' = up
    BY <1>1, <2>1, <2>2, <2>3, <2>4 DEF WireOnce
  <2>5. CASE up' = Append(up, g)
    BY <1>1, <1>7, <1>8, <2>1, <2>2, <2>3, <2>5 DEF WireOnce
  <2> QED BY <1>2, <1>6, <2>4, <2>5
<1> QED BY <1>5, <1>9, <1>10, <1>11, <1>16, <1>17, <1>18 DEF SessionInv, Types

LEMMA TailIn ==
  ASSUME NEW S, NEW q \in Seq(S), q # <<>>
  PROVE  /\ Tail(q) \in Seq(S) /\ Head(q) \in S /\ 1 \in DOMAIN q /\ Head(q) = q[1]
         /\ \A i \in DOMAIN Tail(q) : i \in Nat /\ i + 1 \in DOMAIN q /\ Tail(q)[i] = q[i + 1]
OBVIOUS

LEMMA AnswersKeepsInv ==
  ASSUME SessionAssumption, SessionInv, Answers
  PROVE  SessionInv'
<1>1. /\ QueueTypes /\ ReqTypes /\ WireTypes /\ ReplyTypes /\ Between /\ Placed /\ Unsent /\ WireOnce
  BY DEF SessionInv, Types
<1>2. PICK f, c :
        /\ phase = "run" /\ down # <<>> /\ f = Head(down) /\ f.type = "response"
        /\ f.id \in DOMAIN reqs /\ c = reqs[f.id]
        /\ reqs' = [i \in DOMAIN reqs \ {f.id} |-> reqs[i]]
        /\ reply' = [reply EXCEPT ![c] = IF f.ok THEN "ok" ELSE "failed"]
        /\ down' = Tail(down)
        /\ UNCHANGED <<phase, chan, pending, next_id, up, peer, served, sent>>
  BY DEF Answers
<1>3. c \in Cmds /\ c \in InFlight /\ c # Bye
  BY <1>1, <1>2 DEF ReqTypes, InFlight, SessionAssumption
<1>4. down' \in Seq(DownFrames)
  BY <1>1, <1>2, TailIn DEF WireTypes
<1>5. /\ DOMAIN reqs' \subseteq DOMAIN reqs /\ f.id \notin DOMAIN reqs'
      /\ \A i \in DOMAIN reqs : i # f.id => i \in DOMAIN reqs'
      /\ \A i \in DOMAIN reqs' : reqs'[i] = reqs[i]
  BY <1>2
<1>6. ReqTypes'
  BY <1>1, <1>2 DEF ReqTypes
<1>7. ReplyTypes' /\ QueueTypes' /\ WireTypes'
  BY <1>1, <1>2, <1>4 DEF ReplyTypes, QueueTypes, WireTypes
<1>8. Between' /\ WireOnce'
  BY <1>1, <1>2 DEF Between, WireOnce
<1>9. Once(reqs')
  BY <1>1, <1>5 DEF Placed, Once
<1>10. InFlight' = InFlight \ {c}
  <2>1. ASSUME NEW d \in InFlight' PROVE d \in InFlight /\ d # c
    <3>1. PICK i \in DOMAIN reqs' : d = reqs'[i]
      BY DEF InFlight
    <3>2. i \in DOMAIN reqs /\ d = reqs[i] /\ i # f.id
      BY <1>5, <3>1
    <3> QED BY <1>1, <1>2, <1>3, <3>2 DEF InFlight, Placed, Once
  <2>2. ASSUME NEW d \in InFlight, d # c PROVE d \in InFlight'
    <3>1. PICK i \in DOMAIN reqs : d = reqs[i]
      BY DEF InFlight
    <3>2. i \in DOMAIN reqs' /\ reqs'[i] = d
      BY <1>2, <1>5, <2>2, <3>1
    <3> QED BY <3>2 DEF InFlight
  <2> QED BY <2>1, <2>2
<1>11. \A d \in Cmds : reply'[d] = IF d = c THEN (IF f.ok THEN "ok" ELSE "failed") ELSE reply[d]
  BY <1>1, <1>2 DEF ReplyTypes
<1>12. c \notin Commands(chan) /\ c \notin Commands(pending)
  BY <1>1, <1>3 DEF Placed
<1>13. Placed'
  BY <1>1, <1>2, <1>9, <1>10, <1>11, <1>12 DEF Placed
<1>14. Unsent'
  BY <1>1, <1>2, <1>11 DEF Unsent
<1> QED BY <1>6, <1>7, <1>8, <1>13, <1>14 DEF SessionInv, Types

LEMMA DownKeepsInv ==
  ASSUME SessionInv, Receives \/ Says
  PROVE  SessionInv'
<1>1. /\ QueueTypes /\ ReqTypes /\ WireTypes /\ ReplyTypes /\ Between /\ Placed /\ Unsent /\ WireOnce
  BY DEF SessionInv, Types
<1>2. UNCHANGED <<phase, chan, pending, reqs, next_id, reply, up, served, sent>> /\ phase = "run"
  BY <1>1 DEF Receives, Says, Between
<1>3. down' \in Seq(DownFrames) /\ peer' \in {"up", "hung", "closed"}
  <2>1. CASE Receives
    BY <1>1, <2>1, TailIn DEF Receives, WireTypes
  <2>2. CASE Says
    BY <1>1, <2>2 DEF Says, WireTypes
  <2> QED BY <2>1, <2>2
<1>4. Types'
  BY <1>1, <1>2, <1>3 DEF Types, QueueTypes, ReqTypes, WireTypes, ReplyTypes
<1>5. Placed' /\ Unsent' /\ Between' /\ WireOnce'
  BY <1>1, <1>2 DEF Placed, InFlight, Unsent, Between, WireOnce
<1> QED BY <1>4, <1>5 DEF SessionInv

\* The daemon answers its next frame.
LEMMA ServeEffect ==
  ASSUME SessionAssumption, SessionInv, NEW ok \in BOOLEAN, Serve(ok)
  PROVE  /\ phase = "run" /\ up # <<>> /\ up' = Tail(up)
         /\ UNCHANGED <<phase, chan, pending, reqs, next_id, reply, peer, sent>>
         /\ \E r \in UpFrames, g \in DownFrames :
              /\ r = Head(up) /\ down' = Append(down, g)
              /\ \/ r.cmd = "ping" /\ g.type = "pong" /\ UNCHANGED served
                 \/ /\ r.cmd \in Cmds /\ g.type = "response" /\ g.id = r.id /\ g.ok = ok
                    /\ served' = IF ok THEN [served EXCEPT ![r.cmd] = served[r.cmd] + 1] ELSE served
<1>1. up \in Seq(UpFrames) /\ Between
  BY DEF SessionInv, Types, WireTypes
<1>2. /\ peer = "up" /\ up # <<>> /\ up' = Tail(up)
      /\ UNCHANGED <<phase, chan, pending, reqs, next_id, reply, peer, sent>>
  BY DEF Serve, loop, calls, runtime
<1>3. PICK r \in UpFrames : r = Head(up)
  <2>1. Head(up) \in UpFrames
    BY <1>1, <1>2, TailIn
  <2> QED BY <2>1, Zenon
<1>4. CASE r.cmd = "ping"
  <2>1. PICK g : g = [type |-> "pong"]
    OBVIOUS
  <2>2. g \in DownFrames /\ g.type = "pong"
    BY <2>1 DEF DownFrames
  <2>3. down' = Append(down, g) /\ UNCHANGED served
    BY <1>3, <1>4, <2>1 DEF Serve
  <2> QED BY <1>1, <1>2, <1>3, <1>4, <2>2, <2>3 DEF Between
<1>5. CASE r.cmd # "ping"
  <2>1. r.cmd \in Cmds /\ r.id \in Nat
    BY <1>3, <1>5 DEF UpFrames
  <2>2. PICK k \in Kinds, n \in Nat : k = Kind[r.cmd] /\ n = r.id
    <3>1. Kind[r.cmd] \in Kinds
      BY <2>1 DEF SessionAssumption
    <3> QED BY <2>1, <3>1, Zenon
  <2>3. PICK g : g = [type |-> "response", id |-> n, kind |-> k, ok |-> ok]
    OBVIOUS
  <2>4. g \in DownFrames /\ g.type = "response" /\ g.id = n /\ g.ok = ok
    BY <2>3 DEF DownFrames
  <2>5. /\ down' = Append(down, g)
        /\ served' = IF ok THEN [served EXCEPT ![r.cmd] = served[r.cmd] + 1] ELSE served
    BY <1>3, <1>5, <2>2, <2>3 DEF Serve
  <2> QED BY <1>1, <1>2, <1>3, <2>1, <2>2, <2>4, <2>5 DEF Between
<1> QED BY <1>4, <1>5

LEMMA ServeKeepsInv ==
  ASSUME SessionAssumption, SessionInv, NEW ok \in BOOLEAN, Serve(ok)
  PROVE  SessionInv'
<1>1. /\ QueueTypes /\ ReqTypes /\ WireTypes /\ ReplyTypes /\ Between /\ Placed /\ Unsent /\ WireOnce
  BY DEF SessionInv, Types
<1>2. /\ phase = "run" /\ up # <<>> /\ up' = Tail(up)
      /\ UNCHANGED <<phase, chan, pending, reqs, next_id, reply, peer, sent>>
  BY ServeEffect
<1>3. PICK r \in UpFrames, g \in DownFrames :
        /\ r = Head(up) /\ down' = Append(down, g)
        /\ \/ r.cmd = "ping" /\ g.type = "pong" /\ UNCHANGED served
           \/ /\ r.cmd \in Cmds /\ g.type = "response" /\ g.id = r.id /\ g.ok = ok
              /\ served' = IF ok THEN [served EXCEPT ![r.cmd] = served[r.cmd] + 1] ELSE served
  BY ServeEffect
<1>4. down' \in Seq(DownFrames)
  BY <1>1, <1>3 DEF WireTypes
<1>5. /\ up' \in Seq(UpFrames)
      /\ \A i \in DOMAIN up' : i \in Nat /\ i + 1 \in DOMAIN up /\ up'[i] = up[i + 1]
  BY <1>1, <1>2, TailIn DEF WireTypes
<1>6. served' \in [Cmds -> Nat]
  BY <1>1, <1>3 DEF ReplyTypes
<1>7. Types'
  BY <1>1, <1>2, <1>4, <1>5, <1>6 DEF Types, QueueTypes, ReqTypes, WireTypes, ReplyTypes
<1>8. Placed' /\ Unsent' /\ Between'
  BY <1>1, <1>2 DEF Placed, InFlight, Unsent, Between
<1>9. WireOnce'
  <2>1. ASSUME NEW i \in DOMAIN up', NEW j \in DOMAIN up', up'[i].cmd = up'[j].cmd,
               up'[i].cmd # "ping"
        PROVE  i = j
    <3>1. i + 1 = j + 1
      BY <1>1, <1>5, <2>1 DEF WireOnce
    <3> QED BY <1>5, <3>1
  <2>2. ASSUME NEW i \in DOMAIN up', up'[i].cmd # "ping" PROVE sent'[up'[i].cmd] = 1
    BY <1>1, <1>2, <1>5, <2>2 DEF WireOnce
  <2> QED BY <2>1, <2>2 DEF WireOnce
<1> QED BY <1>7, <1>8, <1>9 DEF SessionInv

LEMMA SessionInvInit ==
  ASSUME SessionAssumption, Init
  PROVE  SessionInv /\ Matched
<1>1. Types
  BY DEF Init, Types, QueueTypes, ReqTypes, WireTypes, ReplyTypes
<1>2. Placed
  BY CommandsEmpty DEF Init, Placed, InFlight
<1>3. Between /\ Unsent /\ WireOnce /\ Matched
  BY CommandsEmpty DEF Init, Between, Unsent, WireOnce, Matched
<1> QED BY <1>1, <1>2, <1>3 DEF SessionInv

LEMMA SessionInvNext ==
  ASSUME SessionAssumption, SessionInv, [Next]_vars
  PROVE  SessionInv'
BY Steps, CallKeepsInv, ShutdownKeepsInv, MovesKeepsInv, EndsIdleKeepsInv, ClosesKeepsInv,
   PingKeepsInv, SendKeepsInv, AnswersKeepsInv, DownKeepsInv, ServeKeepsInv

-----------------------------------------------------------------------------
(* Responses and requests *)

LEMMA MatchedNext ==
  ASSUME SessionAssumption, SessionInv, Matched, next_id < IdMax, [Next]_vars
  PROVE  Matched'
<1>1. /\ ReqTypes /\ up \in Seq(UpFrames) /\ down \in Seq(DownFrames) /\ ReplyTypes /\ Between
      /\ Placed /\ IdMax \in Nat
  BY DEF SessionInv, Types, WireTypes, SessionAssumption
<1>2. ASSUME UNCHANGED <<up, down, reqs, next_id, served>> PROVE Matched'
  BY <1>2 DEF Matched
<1>3. CASE (\E c \in Cmds : Call(c)) \/ Shutdown \/ Moves \/ EndsIdle
  <2>1. UNCHANGED <<up, down, reqs, next_id, served>>
    BY <1>3 DEF Call, Shutdown, Moves, EndsIdle, core, runtime, wire
  <2> QED BY <1>2, <2>1
<1>4. CASE Closes
  <2>1. up' = <<>> /\ down' = <<>>
    BY <1>4, ClosesEffect
  <2> QED BY <2>1 DEF Matched
<1>5. CASE SendPing
  <2>1. UNCHANGED <<down, reqs, next_id, served>>
    BY <1>5 DEF SendPing, runtime
  <2>2. CASE UNCHANGED up
    BY <1>2, <2>1, <2>2
  <2>3. CASE up' = Append(up, [id |-> 0, cmd |-> "ping"])
    <3>1. PICK g \in UpFrames : g = [id |-> 0, cmd |-> "ping"] /\ g.cmd = "ping"
      <4>1. [id |-> 0, cmd |-> "ping"] \in UpFrames /\ [id |-> 0, cmd |-> "ping"].cmd = "ping"
        BY DEF UpFrames
      <4> QED BY <4>1, Zenon
    <3>2. up' = Append(up, g)
      BY <2>3, <3>1
    <3>3. /\ DOMAIN up' = DOMAIN up \cup {Len(up) + 1}
          /\ up'[Len(up) + 1] = g /\ \A i \in DOMAIN up : up'[i] = up[i]
      BY <1>1, <3>2
    <3> QED BY <2>1, <3>1, <3>3 DEF Matched
  <2> QED BY <1>5, <2>2, <2>3 DEF SendPing
<1>6. CASE SendCommand
  <2>0. PICK c \in Cmds, n \in Nat : Sends(c, n)
    BY <1>6, SendEffect
  <2>1. /\ n = next_id
        /\ reqs' = [i \in DOMAIN reqs \cup {n} |-> IF i = n THEN c ELSE reqs[i]]
        /\ next_id' = IF n < IdMax THEN n + 1 ELSE n
        /\ up' = up \/ up' = Append(up, [id |-> n, cmd |-> c])
        /\ UNCHANGED <<down, served>>
    BY <2>0 DEF Sends
  <2>2. /\ next_id' = n + 1 /\ DOMAIN reqs' = DOMAIN reqs \cup {n} /\ reqs'[n] = c
        /\ \A i \in DOMAIN reqs : i # n => reqs'[i] = reqs[i]
    BY <1>1, <2>1
  <2>3. PICK g \in UpFrames : g = [id |-> n, cmd |-> c] /\ g.cmd = c /\ g.id = n
    <3>1. [id |-> n, cmd |-> c] \in UpFrames /\ [id |-> n, cmd |-> c].cmd = c
          /\ [id |-> n, cmd |-> c].id = n
      BY DEF UpFrames
    <3> QED BY <3>1, Zenon
  <2>4. ASSUME NEW v \in UpFrames, v.cmd # "ping", v.id < next_id,
               v.id \in DOMAIN reqs => reqs[v.id] = v.cmd
        PROVE  v.id < next_id' /\ (v.id \in DOMAIN reqs' => reqs'[v.id] = v.cmd)
    <3>1. v.id \in Nat
      BY DEF UpFrames
    <3> QED BY <2>1, <2>2, <2>4, <3>1
  <2>5. ASSUME NEW i \in DOMAIN up, up[i].cmd # "ping"
        PROVE  up[i].id < next_id' /\ (up[i].id \in DOMAIN reqs' => reqs'[up[i].id] = up[i].cmd)
    <3>1. up[i] \in UpFrames
      BY <1>1
    <3>2. up[i].id < next_id /\ (up[i].id \in DOMAIN reqs => reqs[up[i].id] = up[i].cmd)
      BY <2>5 DEF Matched
    <3> QED BY <2>4, <2>5, <3>1, <3>2
  <2>6. g.id < next_id' /\ (g.id \in DOMAIN reqs' => reqs'[g.id] = g.cmd)
    BY <2>2, <2>3
  <2>7. ASSUME NEW i \in DOMAIN up', up'[i].cmd # "ping"
        PROVE  up'[i].id < next_id' /\ (up'[i].id \in DOMAIN reqs' => reqs'[up'[i].id] = up'[i].cmd)
    <3>1. CASE UNCHANGED up
      BY <2>5, <2>7, <3>1
    <3>2. CASE up' = Append(up, g)
      <4>1. /\ DOMAIN up' = DOMAIN up \cup {Len(up) + 1}
            /\ up'[Len(up) + 1] = g /\ \A j \in DOMAIN up : up'[j] = up[j]
        BY <1>1, <3>2
      <4> QED BY <2>5, <2>6, <2>7, <4>1
    <3> QED BY <2>1, <2>3, <3>1, <3>2
  <2>8. ASSUME NEW i \in DOMAIN down, down[i].type = "response"
        PROVE  down[i].id < next_id'
                /\ (down[i].ok /\ down[i].id \in DOMAIN reqs' => served[reqs'[down[i].id]] > 0)
    <3>1. down[i] \in DownFrames
      BY <1>1
    <3>2. down[i].id \in Nat
      BY <2>8, <3>1 DEF DownFrames
    <3>3. down[i].id < next_id
            /\ (down[i].ok /\ down[i].id \in DOMAIN reqs => served[reqs[down[i].id]] > 0)
      BY <2>8 DEF Matched
    <3> QED BY <2>1, <2>2, <3>2, <3>3
  <2> QED BY <2>1, <2>7, <2>8 DEF Matched
<1>7. CASE Answers
  <2>1. PICK f, c :
          /\ down # <<>> /\ f = Head(down)
          /\ reqs' = [i \in DOMAIN reqs \ {f.id} |-> reqs[i]]
          /\ down' = Tail(down)
          /\ UNCHANGED <<next_id, up, served>>
    BY <1>7 DEF Answers
  <2>2. DOMAIN reqs' \subseteq DOMAIN reqs /\ \A i \in DOMAIN reqs' : reqs'[i] = reqs[i]
    BY <2>1
  <2>3. \A i \in DOMAIN down' : i \in Nat /\ i + 1 \in DOMAIN down /\ down'[i] = down[i + 1]
    BY <1>1, <2>1, TailIn
  <2> QED BY <2>1, <2>2, <2>3 DEF Matched
<1>8. CASE Receives
  <2>1. down # <<>> /\ down' = Tail(down) /\ UNCHANGED <<reqs, next_id, up, served>>
    BY <1>8 DEF Receives
  <2>2. \A i \in DOMAIN down' : i \in Nat /\ i + 1 \in DOMAIN down /\ down'[i] = down[i + 1]
    BY <1>1, <2>1, TailIn
  <2> QED BY <2>1, <2>2 DEF Matched
<1>9. CASE Says
  <2>1. PICK g \in DownFrames : /\ g.type # "response" /\ down' = Append(down, g)
                                /\ UNCHANGED <<reqs, next_id, up, served>>
    BY <1>9 DEF Says
  <2>2. /\ DOMAIN down' = DOMAIN down \cup {Len(down) + 1}
        /\ down'[Len(down) + 1] = g /\ \A j \in DOMAIN down : down'[j] = down[j]
    BY <1>1, <2>1
  <2> QED BY <2>1, <2>2 DEF Matched
<1>10. ASSUME NEW ok \in BOOLEAN, Serve(ok) PROVE Matched'
  <2>1. /\ up # <<>> /\ up' = Tail(up) /\ UNCHANGED <<reqs, next_id>>
    BY <1>10, ServeEffect
  <2>2. PICK r \in UpFrames, g \in DownFrames :
          /\ r = Head(up) /\ down' = Append(down, g)
          /\ \/ r.cmd = "ping" /\ g.type = "pong" /\ UNCHANGED served
             \/ /\ r.cmd \in Cmds /\ g.type = "response" /\ g.id = r.id /\ g.ok = ok
                /\ served' = IF ok THEN [served EXCEPT ![r.cmd] = served[r.cmd] + 1] ELSE served
    BY <1>10, ServeEffect
  <2>3. /\ DOMAIN down' = DOMAIN down \cup {Len(down) + 1}
        /\ down'[Len(down) + 1] = g /\ \A j \in DOMAIN down : down'[j] = down[j]
    BY <1>1, <2>2
  <2>4. /\ \A i \in DOMAIN up' : i \in Nat /\ i + 1 \in DOMAIN up /\ up'[i] = up[i + 1]
        /\ 1 \in DOMAIN up /\ up[1] = r
    BY <1>1, <2>1, <2>2, TailIn
  <2>5. \A c \in Cmds : served[c] \in Nat /\ served'[c] \in Nat /\ served'[c] >= served[c]
    BY <1>1, <2>2 DEF ReplyTypes
  <2>6. \A i \in DOMAIN reqs : reqs[i] \in Cmds
    BY <1>1 DEF ReqTypes
  <2>7. ASSUME NEW i \in DOMAIN down, down[i].type = "response"
        PROVE  down[i].id < next_id
                /\ (down[i].ok /\ down[i].id \in DOMAIN reqs => served'[reqs[down[i].id]] > 0)
    <3>1. down[i].id < next_id
            /\ (down[i].ok /\ down[i].id \in DOMAIN reqs => served[reqs[down[i].id]] > 0)
      BY <2>7 DEF Matched
    <3> QED BY <2>5, <2>6, <3>1
  <2>8. g.type = "response" =>
          g.id < next_id /\ (g.ok /\ g.id \in DOMAIN reqs => served'[reqs[g.id]] > 0)
    <3> SUFFICES ASSUME g.type = "response"
                 PROVE  g.id < next_id /\ (g.ok /\ g.id \in DOMAIN reqs => served'[reqs[g.id]] > 0)
      OBVIOUS
    <3>1. /\ r.cmd \in Cmds /\ g.id = r.id /\ g.ok = ok /\ r.cmd # "ping"
          /\ served' = IF ok THEN [served EXCEPT ![r.cmd] = served[r.cmd] + 1] ELSE served
      BY <2>2 DEF SessionAssumption
    <3>2. r.id < next_id /\ (r.id \in DOMAIN reqs => reqs[r.id] = r.cmd)
      BY <2>4, <3>1 DEF Matched
    <3>3. ok => served'[r.cmd] > 0
      BY <1>1, <3>1 DEF ReplyTypes
    <3> QED BY <3>1, <3>2, <3>3
  <2>9. ASSUME NEW i \in DOMAIN down', down'[i].type = "response"
        PROVE  down'[i].id < next_id
                /\ (down'[i].ok /\ down'[i].id \in DOMAIN reqs => served'[reqs[down'[i].id]] > 0)
    BY <2>3, <2>7, <2>8, <2>9
  <2>10. ASSUME NEW i \in DOMAIN up', up'[i].cmd # "ping"
         PROVE  up'[i].id < next_id /\ (up'[i].id \in DOMAIN reqs => reqs[up'[i].id] = up'[i].cmd)
    BY <2>4, <2>10 DEF Matched
  <2> QED BY <2>1, <2>9, <2>10 DEF Matched
<1> QED BY <1>3, <1>4, <1>5, <1>6, <1>7, <1>8, <1>9, <1>10, Steps

-----------------------------------------------------------------------------
(* The promise *)

\* What a step may do to the replies: CommandReplies!Next, caller by caller.
LEMMA PromiseStep ==
  ASSUME reply' \in [Cmds -> {"idle", "waiting", "ok", "failed", "closed"}],
         NEW more \in [Cmds -> 0..1], \A c \in Cmds : more[c] = 1 => reply[c] # "idle",
         served' = [c \in Cmds |-> served[c] + more[c]],
         \A c \in Cmds :
           \/ reply'[c] = reply[c]
           \/ reply[c] = "idle" /\ reply'[c] \in {"waiting", "closed"}
           \/ reply[c] = "waiting" /\ reply'[c] \in {"failed", "closed"}
           \/ reply[c] = "waiting" /\ reply'[c] = "ok" /\ served[c] > 0
  PROVE  Replies!Next
BY DEF Replies!Next, Replies!Replies

\* The same for a step in which the daemon carries nothing out.
LEMMA PromiseKept ==
  ASSUME ReplyTypes, UNCHANGED served,
         reply' \in [Cmds -> {"idle", "waiting", "ok", "failed", "closed"}],
         \A c \in Cmds :
           \/ reply'[c] = reply[c]
           \/ reply[c] = "idle" /\ reply'[c] \in {"waiting", "closed"}
           \/ reply[c] = "waiting" /\ reply'[c] \in {"failed", "closed"}
           \/ reply[c] = "waiting" /\ reply'[c] = "ok" /\ served[c] > 0
  PROVE  Replies!Next
<1>1. PICK more \in [Cmds -> 0..1] : \A c \in Cmds : more[c] = 0
  <2>1. [c \in Cmds |-> 0] \in [Cmds -> 0..1] /\ \A c \in Cmds : [d \in Cmds |-> 0][c] = 0
    OBVIOUS
  <2> QED BY <2>1, Zenon
<1>2. served' = [c \in Cmds |-> served[c] + more[c]]
  BY <1>1 DEF ReplyTypes
<1>3. \A c \in Cmds : more[c] = 1 => reply[c] # "idle"
  BY <1>1
<1> QED BY <1>2, <1>3, PromiseStep

LEMMA PromiseNext ==
  ASSUME SessionAssumption, SessionInv, Matched, [Next]_vars
  PROVE  [Replies!Next]_<<reply, served>>
<1>1. /\ ReqTypes /\ down \in Seq(DownFrames) /\ up \in Seq(UpFrames) /\ ReplyTypes /\ Placed
      /\ Unsent /\ WireOnce
  BY DEF SessionInv, Types, WireTypes
<1>2. ReplyTypes'
  BY SessionInvNext DEF SessionInv, Types
<1>3. CASE Shutdown \/ SendPing \/ Moves \/ Receives \/ Says
  <2>1. UNCHANGED <<reply, served>>
    BY <1>3 DEF Shutdown, SendPing, Moves, Receives, Says, core, calls
  <2> QED BY <2>1
<1>4. ASSUME NEW c \in Cmds, Call(c) PROVE Replies!Next
  <2>1. /\ reply[c] = "idle" /\ UNCHANGED served
        /\ \E v \in {"waiting", "closed"} : reply' = [reply EXCEPT ![c] = v]
    BY <1>4 DEF Call
  <2> QED BY <1>1, <1>2, <2>1, PromiseKept DEF ReplyTypes
<1>5. CASE EndsIdle
  <2>1. /\ UNCHANGED served
        /\ reply' = [c \in Cmds |-> IF c \in Commands(chan) \cup Commands(pending)
                                    THEN "closed" ELSE reply[c]]
    BY <1>5 DEF EndsIdle, Returns
  <2>2. \A c \in Cmds : reply'[c] = reply[c] \/ (reply[c] = "waiting" /\ reply'[c] = "closed")
    BY <1>1, <2>1 DEF Placed
  <2> QED BY <1>1, <1>2, <2>1, <2>2, PromiseKept DEF ReplyTypes
<1>6. CASE SendCommand
  <2>0. PICK c \in Cmds, n \in Nat : Sends(c, n)
    BY <1>6, SendEffect
  <2>1. /\ UNCHANGED served
        /\ reply' = [d \in Cmds |-> IF n \in DOMAIN reqs /\ reqs[n] = d
                                    THEN "closed" ELSE reply[d]]
    BY <2>0 DEF Sends
  <2>2. \A d \in Cmds : reply'[d] = reply[d] \/ (reply[d] = "waiting" /\ reply'[d] = "closed")
    BY <1>1, <2>1 DEF Placed, InFlight
  <2> QED BY <1>1, <1>2, <2>1, <2>2, PromiseKept DEF ReplyTypes
<1>7. CASE Closes
  <2>1. PICK more \in [Cmds -> 0..1] : /\ \A c \in Cmds : more[c] = 1 => reply[c] # "idle"
                                       /\ served' = [c \in Cmds |-> served[c] + more[c]]
    BY <1>7, ClosesEffect
  <2>2. \A c \in Cmds :
          IF c \in Commands(chan') \cup Commands(pending')
               \/ (c \notin InFlight /\ c \notin Commands(chan) \cup Commands(pending))
          THEN reply'[c] = reply[c] ELSE reply'[c] \in {"failed", "closed"}
    BY <1>7, ClosesEffect
  <2>3. \A c \in Cmds : \/ reply'[c] = reply[c]
                        \/ reply[c] = "waiting" /\ reply'[c] \in {"failed", "closed"}
    BY <1>1, <2>2 DEF Placed
  <2> QED BY <1>2, <2>1, <2>3, PromiseStep DEF ReplyTypes
<1>8. CASE Answers
  <2>1. PICK f, c :
          /\ down # <<>> /\ f = Head(down) /\ f.type = "response"
          /\ f.id \in DOMAIN reqs /\ c = reqs[f.id]
          /\ reply' = [reply EXCEPT ![c] = IF f.ok THEN "ok" ELSE "failed"]
          /\ UNCHANGED served
    BY <1>8 DEF Answers
  <2>2. 1 \in DOMAIN down /\ f = down[1]
    BY <1>1, <2>1, TailIn
  <2>3. f.ok => served[c] > 0
    BY <2>1, <2>2 DEF Matched
  <2>4. c \in Cmds /\ reply[c] = "waiting"
    BY <1>1, <2>1 DEF ReqTypes, InFlight, Placed
  <2>5. \A d \in Cmds : reply'[d] = IF d = c THEN (IF f.ok THEN "ok" ELSE "failed") ELSE reply[d]
    BY <1>1, <2>1 DEF ReplyTypes
  <2>6. \A d \in Cmds :
           \/ reply'[d] = reply[d]
           \/ reply[d] = "waiting" /\ reply'[d] \in {"failed", "closed"}
           \/ reply[d] = "waiting" /\ reply'[d] = "ok" /\ served[d] > 0
    BY <2>3, <2>4, <2>5
  <2> QED BY <1>1, <1>2, <2>1, <2>6, PromiseKept DEF ReplyTypes
<1>9. ASSUME NEW ok \in BOOLEAN, Serve(ok) PROVE [Replies!Next]_<<reply, served>>
  <2>1. up # <<>> /\ UNCHANGED reply
    BY <1>9, ServeEffect
  <2>2. PICK r \in UpFrames : /\ r = Head(up)
                              /\ \/ UNCHANGED served
                                 \/ /\ r.cmd \in Cmds
                                    /\ served' = [served EXCEPT ![r.cmd] = served[r.cmd] + 1]
    BY <1>9, ServeEffect
  <2>3. CASE UNCHANGED served
    BY <2>1, <2>3
  <2>4. CASE r.cmd \in Cmds /\ served' = [served EXCEPT ![r.cmd] = served[r.cmd] + 1]
    <3>1. PICK c \in Cmds : c = r.cmd /\ c # "ping"
      BY <2>4 DEF SessionAssumption
    <3>2. 1 \in DOMAIN up /\ up[1] = r
      BY <1>1, <2>1, <2>2, TailIn
    <3>3. sent[c] = 1
      BY <1>1, <3>1, <3>2 DEF WireOnce
    <3>4. reply[c] # "idle"
      BY <1>1, <3>3 DEF Unsent
    <3>5. PICK more : more = [d \in Cmds |-> IF d = c THEN 1 ELSE 0]
      OBVIOUS
    <3>6. more \in [Cmds -> 0..1] /\ \A d \in Cmds : more[d] = IF d = c THEN 1 ELSE 0
      BY <3>5
    <3>7. \A d \in Cmds : more[d] = 1 => reply[d] # "idle"
      BY <3>4, <3>6
    <3>8. served' = [d \in Cmds |-> served[d] + more[d]]
      <4>1. served \in [Cmds -> Nat] /\ served' \in [Cmds -> Nat]
        BY <1>1, <1>2 DEF ReplyTypes
      <4>2. \A d \in Cmds : served'[d] = served[d] + more[d]
        BY <2>4, <3>1, <3>6, <4>1
      <4> QED BY <4>1, <4>2
    <3>9. Replies!Next
      BY <1>2, <2>1, <3>6, <3>7, <3>8, PromiseStep DEF ReplyTypes
    <3> QED BY <3>9
  <2> QED BY <2>2, <2>3, <2>4
<1> QED BY <1>3, <1>4, <1>5, <1>6, <1>7, <1>8, <1>9, Steps

-----------------------------------------------------------------------------
(* The heartbeat *)

LEMMA BeatsNext ==
  ASSUME SessionAssumption, Beats, [Next]_vars
  PROVE  Beats'
<1> USE DEF SessionAssumption
<1>1. ASSUME UNCHANGED beat PROVE Beats'
  BY <1>1 DEF beat, Beats
<1>2. ASSUME elapsed' = 0, ping' = FALSE, since' = 0, stalled' = FALSE PROVE Beats'
  <2>1. elapsed' \in Nat /\ since' \in Nat /\ elapsed' <= Idle
    BY <1>2
  <2>2. ping' \in BOOLEAN /\ stalled' \in BOOLEAN /\ ~ ping'
    BY <1>2, Zenon
  <2> QED BY <2>1, <2>2, Zenon DEF Beats
<1>3. ASSUME NEW out, NEW reached, NEW fate, NEW ch, NEW pe, NEW u,
             AfterConnection(out, reached, fate, ch, pe, u)
      PROVE  Beats'
  BY <1>2, <1>3 DEF AfterConnection
<1>4. CASE Tick \/ Slow
  <2>1. TimePasses
    BY <1>4 DEF Tick, Slow
  <2>2. /\ elapsed \in Nat /\ since \in Nat /\ ping \in BOOLEAN /\ stalled \in BOOLEAN
        /\ (~ ping => stalled \/ elapsed <= Idle) /\ (ping => stalled \/ elapsed <= Idle + since)
    BY Zenon DEF Beats
  <2>3. /\ elapsed' = elapsed + 1 /\ (since' = since + 1 \/ since' = 0) /\ (ping => since' = since + 1)
    BY <2>1 DEF TimePasses
  <2>4. /\ ping' = ping /\ stalled' \in BOOLEAN /\ (stalled' <=> stalled \/ PingDue)
    BY <2>1, <2>2, Zenon DEF TimePasses
  <2>5. elapsed' \in Nat /\ since' \in Nat
    BY <2>2, <2>3
  <2>6. ASSUME ~ ping, ~ stalled, ~ PingDue PROVE elapsed' <= Idle
    <3>1. ~ (elapsed >= Idle)
      BY <2>6, Zenon DEF PingDue
    <3> QED BY <2>2, <2>3, <3>1
  <2>7. ASSUME ping, ~ stalled PROVE elapsed' <= Idle + since'
    <3>1. elapsed <= Idle + since
      BY <2>2, <2>7, Zenon
    <3> QED BY <2>2, <2>3, <2>7, <3>1
  <2> QED BY <2>2, <2>4, <2>5, <2>6, <2>7, Zenon DEF Beats
<1>5. CASE SendPing
  BY <1>5 DEF SendPing, PingDue, Beats
<1>6. CASE \/ \E c \in Cmds : Call(c)
           \/ Shutdown \/ DropSession \/ Top \/ Connects \/ WakeUp \/ PairOpens \/ Established
           \/ SendCommand \/ \E ok \in BOOLEAN : Serve(ok)
  <2>1. UNCHANGED beat
    BY <1>6 DEF Call, Shutdown, DropSession, Top, Connects, WakeUp, PairOpens, Established,
       SendCommand, Serve
  <2> QED BY <1>1, <2>1
<1>7. CASE \/ \E err \in {"transport", "timeout"} : ConnectFails(err)
           \/ \E type \in {"event", "bad"} : Unasked(type)
           \/ \E r \in BOOLEAN : SayBye(r)
           \/ \E how \in {"hung", "closed"} : PeerStops(how)
           \/ UNCHANGED vars
  <2>1. UNCHANGED beat
    BY <1>7 DEF ConnectFails, Unasked, SayBye, PeerStops, vars
  <2> QED BY <1>1, <2>1
<1>8. CASE HeartbeatTimeout \/ TakeShutdown \/ Abandoned \/ RemoteCloses \/ RecvFails \/ SendFails
           \/ \E err \in {"transport", "timeout", "proto", "closed"} : SetupFails(err)
  <2>1. elapsed' = 0 /\ ping' = FALSE /\ since' = 0 /\ stalled' = FALSE
    BY <1>8 DEF HeartbeatTimeout, TakeShutdown, Abandoned, RemoteCloses, RecvFails, SendFails,
       SetupFails, AfterConnection
  <2> QED BY <1>2, <2>1
<1>9. CASE ReceiveFrame
  <2>1. elapsed' = 0 /\ ping' = FALSE /\ since' = 0 /\ stalled' = FALSE
    BY <1>9 DEF ReceiveFrame, Response, on_inbound, AfterConnection
  <2> QED BY <1>2, <2>1
<1> QED BY <1>4, <1>5, <1>6, <1>7, <1>8, <1>9 DEF Next, LoopStep

-----------------------------------------------------------------------------
(* Theorems *)

LEMMA SessionInvariant == Spec => []SessionInv
<1>1. Init => SessionInv
  BY SessionAssumption, SessionInvInit
<1>2. SessionInv /\ [Next]_vars => SessionInv'
  BY SessionAssumption, SessionInvNext
<1> QED BY <1>1, <1>2, PTL DEF Spec

\* Where a command is in a queue: in one place, if no command is twice in it.
Places(q, c) == {i \in DOMAIN q : q[i] = c}

LEMMA OnceCount ==
  ASSUME NEW q, Once(q), NEW c, c # Bye
  PROVE  /\ c \in {q[i] : i \in DOMAIN q} => Cardinality(Places(q, c)) = 1
         /\ c \notin {q[i] : i \in DOMAIN q} => Cardinality(Places(q, c)) = 0
<1>1. ASSUME NEW k \in DOMAIN q, c = q[k] PROVE Cardinality(Places(q, c)) = 1
  <2>1. Places(q, c) = {k}
    BY <1>1 DEF Once, Places
  <2> QED BY <2>1, FS_Singleton
<1>2. ASSUME c \notin {q[i] : i \in DOMAIN q} PROVE Cardinality(Places(q, c)) = 0
  <2>1. Places(q, c) = {}
    BY <1>2 DEF Places
  <2> QED BY <2>1, FS_EmptySet
<1> QED BY <1>1, <1>2

\* session.rs, run_session_loop and run_one_connection: for any number of calls
\* and of lost connections, a command whose caller waits is in the channel, or
\* kept for the next connection, or in flight, and counted once; no reply sender
\* is dropped unanswered and none is kept for a second answer, even when
\* next_request_id has reached its maximum and replaces a request.
THEOREM CommandsWaitOnce == Spec => []EachWaitsOnce
<1>1. SessionInv => EachWaitsOnce
  <2> SUFFICES ASSUME SessionInv, NEW c \in Cmds
               PROVE  Cardinality(Places(chan, c)) + Cardinality(Places(pending, c))
                        + Cardinality(Places(reqs, c))
                      = (IF reply[c] = "waiting" THEN 1 ELSE 0)
    BY Zenon DEF EachWaitsOnce, Places
  <2>1. Placed /\ c # Bye
    BY SessionAssumption DEF SessionInv, SessionAssumption
  <2>2. Once(chan) /\ Once(pending) /\ Once(reqs)
    BY <2>1 DEF Placed
  <2>3. Cardinality(Places(chan, c)) = IF c \in Commands(chan) THEN 1 ELSE 0
    BY <2>1, <2>2, OnceCount DEF Commands
  <2>4. Cardinality(Places(pending, c)) = IF c \in Commands(pending) THEN 1 ELSE 0
    BY <2>1, <2>2, OnceCount DEF Commands
  <2>5. Cardinality(Places(reqs, c)) = IF c \in InFlight THEN 1 ELSE 0
    BY <2>1, <2>2, OnceCount DEF InFlight
  <2>6. reply[c] = "waiting" <=>
          c \in Commands(chan) \/ c \in Commands(pending) \/ c \in InFlight
    BY <2>1 DEF Placed
  <2>7. /\ ~ (c \in Commands(chan) /\ c \in Commands(pending))
        /\ ~ (c \in Commands(chan) /\ c \in InFlight)
        /\ ~ (c \in Commands(pending) /\ c \in InFlight)
    BY <2>1 DEF Placed
  <2> QED BY <2>3, <2>4, <2>5, <2>6, <2>7
<1> QED BY <1>1, SessionInvariant, PTL

\* session.rs pops a command from pending_session_cmds when its send returned
\* Ok: no reconnect sends a command again that was sent.
THEOREM SentCommandsNotRepeated == Spec => []NotRepeatedAfterSend
<1>1. SessionInv => NotRepeatedAfterSend
  BY DEF SessionInv, Unsent, NotRepeatedAfterSend
<1> QED BY <1>1, SessionInvariant, PTL

\* HeartbeatState::poll: whatever the two limits are, a ping has at least their
\* difference to be answered before the connection is given up, unless the loop
\* itself was held up when the ping was due.
THEOREM PingsHaveTime == Spec => PingHasTime
<1>1. Init => Beats
  <2> SUFFICES ASSUME Init PROVE Beats
    OBVIOUS
  <2>1. elapsed \in Nat /\ since \in Nat /\ elapsed <= Idle
    BY SessionAssumption DEF Init, SessionAssumption
  <2>2. ping \in BOOLEAN /\ stalled \in BOOLEAN /\ ~ ping
    BY Zenon DEF Init
  <2> QED BY <2>1, <2>2, Zenon DEF Beats
<1>2. Beats /\ [Next]_vars => Beats'
  BY SessionAssumption, BeatsNext
<1>3. Beats => (HeartbeatTimeout => stalled \/ since >= Limit - Idle)
  <2> SUFFICES ASSUME Beats, HeartbeatTimeout, ~ stalled PROVE since >= Limit - Idle
    OBVIOUS
  <2>1. ping /\ elapsed >= Limit
    BY Zenon DEF HeartbeatTimeout, TimedOut
  <2>2. elapsed <= Idle + since /\ elapsed \in Nat /\ since \in Nat
    BY <2>1, Zenon DEF Beats
  <2> QED BY <2>1, <2>2, SessionAssumption DEF SessionAssumption
<1>4. Beats /\ [Next]_vars => [HeartbeatTimeout => stalled \/ since >= Limit - Idle]_vars
  BY <1>3
<1> QED BY <1>1, <1>2, <1>4, PTL DEF Spec, PingHasTime

\* The safety half of KeepsPromise.  As long as no connection uses its request
\* ids up (next_request_id is a u32 that saturates), every step of the session
\* is a step of CommandReplies or leaves the replies alone: a call returns once,
\* and Ok only after the daemon has carried its request out.
THEOREM RepliesImplemented ==
  Spec /\ [](next_id < IdMax) => Replies!Init /\ [][Replies!Next]_<<reply, served>>
<1>1. Init => Replies!Init
  BY DEF Init, Replies!Init
<1>2. Init => SessionInv /\ Matched
  BY SessionAssumption, SessionInvInit
<1>3. SessionInv /\ Matched /\ next_id < IdMax /\ [Next]_vars => Matched'
  BY SessionAssumption, MatchedNext
<1>4. SessionInv /\ Matched /\ [Next]_vars => [Replies!Next]_<<reply, served>>
  BY SessionAssumption, PromiseNext
<1> QED BY <1>1, <1>2, <1>3, <1>4, SessionInvariant, PTL DEF Spec
=============================================================================
