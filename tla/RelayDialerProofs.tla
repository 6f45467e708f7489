-------------------------- MODULE RelayDialerProofs --------------------------
(***************************************************************************)
(* What RelayDialer keeps for any number of pairs and connections and any  *)
(* configuration of the backoff.                                           *)
(***************************************************************************)
EXTENDS RelayDialer, TLAPS

\* The map is empty outside read_loop, no pair was announced by a connection
\* still to come, and a pair of the map has its two tasks.
DialerInv ==
  /\ TypeOK
  /\ link # "open" => pairs = {}
  /\ \A p \in Pairs : born[p] <= links
  /\ held \subseteq pairs
  /\ \A p \in pairs : born[p] = links /\ task[p] # "none" /\ writer[p] # "none"

-----------------------------------------------------------------------------
(* Backoff *)

LEMMA DelayStep ==
  ASSUME NEW cur \in Nat
  PROVE  /\ next_delay(cur) \in Nat
         /\ next_delay(cur) \in MinMs..Larger(FirstDelay, MaxMs)
<1> DEFINE raised == (cur * MulX10) \div 10
<1>1. raised \in Nat
  BY DialerAssumption, SMT
<1>2. InitialMs \in Nat /\ MaxMs \in Nat
  BY DialerAssumption
<1>3. next_delay(cur) = Larger(Smaller(raised, MaxMs), MinMs)
  BY DEF next_delay
<1> HIDE DEF raised
<1> QED
  BY <1>1, <1>2, <1>3 DEF FirstDelay, Larger, Smaller, MinMs

\* jitter with a byte of 128 or more adds at most a quarter of the base; with a
\* smaller one it takes at most a quarter away.
LEMMA JitterBounds ==
  ASSUME NEW base \in Nat, base >= MinMs, NEW b \in 0..255
  PROVE  4 * jitter(base, b) \in (3 * base)..(5 * base)
<1> DEFINE spread == b - 128
           product == base * spread
           change == TruncatedDiv(product, 512)
<1>1. spread \in -128..127
  OBVIOUS
<1>2. /\ product \in Int
      /\ spread >= 0 => product >= 0 /\ product <= 128 * base
      /\ spread < 0 => -product >= 0 /\ -product <= 128 * base
  BY <1>1, SMT
<1> HIDE DEF spread, product
<1>3. /\ change \in Int
      /\ 4 * change <= base
      /\ 4 * change >= -base
  BY <1>1, <1>2, SMT DEF TruncatedDiv
<1>4. jitter(base, b) = IF base + change <= 0 THEN 1 ELSE base + change
  BY DEF jitter, change, product, spread
<1> HIDE DEF change
<1> QED
  BY <1>3, <1>4 DEF MinMs

-----------------------------------------------------------------------------
(* The inductive invariant *)

LEMMA DialerInit == Init => DialerInv
<1> SUFFICES ASSUME Init PROVE DialerInv
  OBVIOUS
<1>1. FirstDelay \in Nat
  BY DialerAssumption DEF FirstDelay, Larger, MinMs
<1> QED
  BY <1>1, DialerAssumption DEF Init, DialerInv, TypeOK

LEMMA DialerStep == DialerInv /\ [Next]_vars => DialerInv'
<1> SUFFICES ASSUME DialerInv, [Next]_vars PROVE DialerInv'
  OBVIOUS
<1> USE DialerAssumption DEF DialerInv, TypeOK
<1>1. CASE DialFails
  BY <1>1 DEF DialFails, pairVars
<1>2. CASE WakeUp
  <2>1. next_delay(delay_ms) \in Nat
    BY DelayStep
  <2> QED
    BY <1>2, <2>1 DEF WakeUp, pairVars
<1>3. CASE Registers
  BY <1>3 DEF Registers, pairVars
<1>4. ASSUME NEW clean \in BOOLEAN, LinkEnds(clean) PROVE DialerInv'
  <2>1. FirstDelay \in Nat
    BY DEF FirstDelay, Larger, MinMs
  <2> QED
    BY <1>4, <2>1 DEF LinkEnds, pairVars
<1>5. ASSUME NEW p \in Pairs, PairInbound(p) PROVE DialerInv'
  BY <1>5 DEF PairInbound, Reads
<1>6. ASSUME NEW p \in Pairs, Forward(p) PROVE DialerInv'
  BY <1>6 DEF Forward, Reads
<1>7. ASSUME NEW p \in Pairs, SendReturns(p) PROVE DialerInv'
  BY <1>7 DEF SendReturns
<1>8. ASSUME NEW p \in Pairs, PairClose(p) PROVE DialerInv'
  BY <1>8 DEF PairClose, Reads, pairVars
<1>9. ASSUME NEW p \in Pairs, WriterSends(p) \/ WriterEnds(p) PROVE DialerInv'
  BY <1>9 DEF WriterSends, WriterEnds, loopVars
<1>10. ASSUME NEW p \in Pairs, TaskReceives(p) \/ InputWritten(p) PROVE DialerInv'
  BY <1>10 DEF TaskReceives, InputWritten, loopVars
<1>11. ASSUME NEW p \in Pairs, TaskHasOutput(p) \/ TaskRevoked(p) \/ TaskHearsClosed(p)
       PROVE  DialerInv'
  BY <1>11 DEF TaskHasOutput, TaskRevoked, TaskHearsClosed, loopVars
<1>12. ASSUME NEW p \in Pairs, TaskSends(p) \/ TaskSaysBye(p) PROVE DialerInv'
  BY <1>12 DEF TaskSends, TaskSaysBye, loopVars
<1>13. CASE UNCHANGED vars
  BY <1>13 DEF vars
<1> QED
  BY <1>1, <1>2, <1>3, <1>4, <1>5, <1>6, <1>7, <1>8, <1>9, <1>10, <1>11, <1>12, <1>13
     DEF Next

\* read_loop's map holds only pairs of the connection it reads, each with its
\* connection task and its writer, through any number of reconnects.
THEOREM MapFollowsLink == Spec => []MapIsOfThisLink
<1>1. DialerInv => MapIsOfThisLink
  BY DEF DialerInv, TypeOK, MapIsOfThisLink, OnLiveLink
<1> QED
  BY <1>1, DialerInit, DialerStep, PTL DEF Spec

\* run_forever's delay and the sleep jitter makes of it stay in range, whatever
\* the configuration says.
THEOREM BackoffStaysInRange == Spec => []BackoffInRange
<1> DEFINE InRange == delay_ms \in MinMs..Larger(FirstDelay, MaxMs)
<1>1. Init => InRange
  BY DialerAssumption DEF Init, FirstDelay, Larger, MinMs
<1>2. DialerInv /\ InRange /\ [Next]_vars => InRange'
  <2> SUFFICES ASSUME DialerInv, InRange, [Next]_vars PROVE InRange'
    OBVIOUS
  <2>1. CASE delay_ms' = delay_ms
    BY <2>1 DEF FirstDelay, Larger, MinMs
  <2>2. CASE delay_ms' = next_delay(delay_ms)
    BY <2>2, DelayStep DEF DialerInv, TypeOK, FirstDelay, Larger, MinMs
  <2>3. CASE delay_ms' = FirstDelay
    BY <2>3, DialerAssumption DEF FirstDelay, Larger, MinMs
  <2>4. delay_ms' = delay_ms \/ delay_ms' = next_delay(delay_ms) \/ delay_ms' = FirstDelay
    BY Zenon DEF Next, vars, loopVars, pairVars, DialFails, WakeUp, Registers, LinkEnds,
       Reads, PairInbound, Forward, SendReturns, PairClose, WriterSends, WriterEnds,
       TaskReceives, InputWritten, TaskHasOutput, TaskSends, TaskRevoked, TaskSaysBye,
       TaskHearsClosed
  <2> QED
    BY <2>1, <2>2, <2>3, <2>4
<1>3. DialerInv /\ InRange => BackoffInRange
  <2> SUFFICES ASSUME DialerInv, InRange, NEW b \in 0..255
               PROVE  4 * jitter(delay_ms, b) \in (3 * delay_ms)..(5 * delay_ms)
    BY DEF BackoffInRange
  <2>1. delay_ms \in Nat /\ delay_ms >= MinMs
    BY DEF DialerInv, TypeOK, MinMs
  <2> QED
    BY <2>1, JitterBounds
<1> QED
  BY <1>1, <1>2, <1>3, DialerInit, DialerStep, PTL DEF Spec
=============================================================================
