------------------------- MODULE DaemonRequestsProofs -------------------------
(***************************************************************************)
(* What the daemon's shared state keeps for any number of connections,     *)
(* terminals, configuration updates and crashes.                           *)
(***************************************************************************)
EXTENDS DaemonRequests, FiniteSetTheorems, TLAPS

Steps == {"none", "hello", "idle", "reply", "check", "spawn", "insert", "lookup",
          "signal", "wait", "load", "save", "write", "store"}

DaemonTypes ==
  /\ conn \in [Conns -> [pc : Steps, terminal : Terminals \cup {NoTerminal}, size : Int]]
  /\ child \in [Terminals -> {"unused", "running", "gone", "flagged", "leaked"}]
  /\ registered \subseteq Terminals
  /\ dead \subseteq Terminals
  /\ mem \in Int
  /\ disk \in Int
  /\ has_path \in BOOLEAN
  /\ acked \in Int
  /\ clean \in BOOLEAN
  /\ \A c \in Conns : conn[c].pc = "insert" => conn[c].terminal \in Terminals

\* The reaper has only collected terminals whose child is known to be gone.
TerminalsKnown ==
  /\ \A t \in dead : child[t] = "flagged"
  /\ NoLostTerminal

\* Past its load, an update is the only one, and until it stores its size it has
\* changed nothing but the file.
PastLoad(c) == conn[c].pc \in {"save", "write", "store"}

ConfigTracked ==
  clean =>
    /\ \A c, d \in Conns : PastLoad(c) /\ PastLoad(d) => c = d
    /\ mem = acked
    /\ (\A c \in Conns : ~PastLoad(c)) => disk = mem
    /\ \A c \in Conns : conn[c].pc = "save" => disk = mem
    /\ \A c \in Conns : conn[c].pc = "store" => disk = conn[c].size

\* The creations that have passed the limit check.  Each check left room for
\* one terminal; without an overlap that room is still there.
Creating == {c \in Conns : conn[c].pc \in {"spawn", "insert"}}

LimitTracked ==
  /\ IsFiniteSet(registered)
  /\ raced \in BOOLEAN
  /\ raced =>
       Cardinality(registered) + Cardinality(Creating) < MaxTerminals + Cardinality(Conns)
  /\ ~raced =>
       /\ \A c, d \in Creating : c = d
       /\ Cardinality(registered) <= MaxTerminals
       /\ Creating # {} => Cardinality(registered) < MaxTerminals

-----------------------------------------------------------------------------
(* Types *)

LEMMA TypesInit == Init => DaemonTypes
BY RequestsAssumption DEF Init, DaemonTypes, At, Steps

LEMMA TypesStep == DaemonTypes /\ [Next]_vars => DaemonTypes'
<1> SUFFICES ASSUME DaemonTypes, [Next]_vars PROVE DaemonTypes'
  OBVIOUS
<1> USE RequestsAssumption DEF DaemonTypes, Steps, At, Answer, Goes, sharedVars
<1>1. ASSUME NEW c \in Conns, Begins(c) \/ Hello(c) \/ HelloRefused(c) \/ Replied(c) \/ Stops(c)
      PROVE  DaemonTypes'
  BY <1>1 DEF Begins, Hello, HelloRefused, Replied, Stops
<1>2. ASSUME NEW c \in Conns, NEW req \in Requests, Request(c, req) PROVE DaemonTypes'
  <2>1. req.kind = "kill" => req.terminal \in Terminals
    BY DEF Requests
  <2>2. req.kind = "set" => req.size \in Sizes
    BY DEF Requests
  <2>4. \A s \in Sizes : s \in Int
    OBVIOUS
  <2>3. req.kind = "set" => req.size \in Int
    BY <2>2, <2>4, Zenon
  <2> QED
    BY <1>2, <2>1, <2>3 DEF Request
<1>3. ASSUME NEW c \in Conns, CreateChecks(c) \/ SpawnFails(c) \/ Inserts(c) PROVE DaemonTypes'
  BY <1>3 DEF CreateChecks, SpawnFails, Inserts
<1>4. ASSUME NEW c \in Conns, NEW t \in Terminals, Spawn(c, t) PROVE DaemonTypes'
  BY <1>4 DEF Spawn
<1>5. ASSUME NEW c \in Conns, KillLooksUp(c) \/ KillSignals(c) \/ KillWaits(c) PROVE DaemonTypes'
  BY <1>5 DEF KillLooksUp, KillSignals, KillWaits
<1>6. ASSUME NEW c \in Conns, UpdateLoads(c) PROVE DaemonTypes'
  <2>1. PICK to \in {"save", "store"} : conn' = [conn EXCEPT ![c] = [conn[c] EXCEPT !.pc = to]]
    BY <1>6 DEF UpdateLoads
  <2> QED
    BY <1>6, <2>1 DEF UpdateLoads, Updating
<1>12. ASSUME NEW c \in Conns, SaveTruncates(c) PROVE DaemonTypes'
  BY <1>12 DEF SaveTruncates, Torn
<1>13. ASSUME NEW c \in Conns, SaveFails(c) PROVE DaemonTypes'
  BY <1>13 DEF SaveFails
<1>14. ASSUME NEW c \in Conns, UpdateStores(c) PROVE DaemonTypes'
  BY <1>14 DEF UpdateStores
<1>7. ASSUME NEW c \in Conns, SaveWrites(c) PROVE DaemonTypes'
  BY <1>7 DEF SaveWrites, Torn
<1>8. ASSUME NEW t \in Terminals, ChildExits(t) \/ Waiter(t) PROVE DaemonTypes'
  BY <1>8 DEF ChildExits, Waiter
<1>9. CASE Reaper
  BY <1>9 DEF Reaper, ReaperCollects, ReaperRemoves
<1>10. CASE Crash
  BY <1>10 DEF Crash, Updating
<1>11. CASE UNCHANGED vars
  BY <1>11 DEF vars
<1> QED
  BY <1>1, <1>2, <1>3, <1>4, <1>5, <1>6, <1>7, <1>8, <1>9, <1>10, <1>11, <1>12, <1>13, <1>14 DEF Next, Handler

-----------------------------------------------------------------------------
(* Terminals *)

LEMMA TerminalsInit == Init => TerminalsKnown
BY DEF Init, TerminalsKnown, NoLostTerminal, At

LEMMA TerminalsStep ==
  DaemonTypes /\ TerminalsKnown /\ [Next]_vars => TerminalsKnown'
<1> SUFFICES ASSUME DaemonTypes, TerminalsKnown, [Next]_vars PROVE TerminalsKnown'
  OBVIOUS
<1> USE DEF DaemonTypes, TerminalsKnown, NoLostTerminal, At, Answer, Goes, sharedVars
\* A handler that is not registering a terminal touches neither the map nor a
\* child.
<1>1. ASSUME NEW c \in Conns, conn[c].pc # "insert", NEW to, conn' = [conn EXCEPT ![c] = to],
             UNCHANGED <<child, registered, dead>>
      PROVE  TerminalsKnown'
  BY <1>1
<1>2. ASSUME NEW c \in Conns, Begins(c) \/ Hello(c) \/ HelloRefused(c) \/ Replied(c) \/ Stops(c)
      PROVE  TerminalsKnown'
  BY <1>2, <1>1 DEF Begins, Hello, HelloRefused, Replied, Stops
<1>3. ASSUME NEW c \in Conns, NEW req \in Requests, Request(c, req) PROVE TerminalsKnown'
  <2>1. PICK to : conn' = [conn EXCEPT ![c] = to]
    BY <1>3, Zenon DEF Request
  <2> QED
    BY <1>3, <2>1, <1>1 DEF Request
<1>4. ASSUME NEW c \in Conns,
             CreateChecks(c) \/ SpawnFails(c) \/ KillLooksUp(c) \/ KillWaits(c)
               \/ UpdateLoads(c) \/ SaveTruncates(c) \/ SaveWrites(c) \/ SaveFails(c)
               \/ UpdateStores(c)
      PROVE  TerminalsKnown'
  <2>1. PICK to : conn' = [conn EXCEPT ![c] = to]
    BY <1>4, Zenon DEF CreateChecks, SpawnFails, KillLooksUp, KillWaits, UpdateLoads,
       SaveTruncates, SaveWrites, SaveFails, UpdateStores
  <2>2. conn[c].pc # "insert" /\ UNCHANGED <<child, registered, dead>>
    BY <1>4 DEF CreateChecks, SpawnFails, KillLooksUp, KillWaits, UpdateLoads,
       SaveTruncates, SaveWrites, SaveFails, UpdateStores
  <2> QED
    BY <2>1, <2>2, <1>1
<1>5. ASSUME NEW c \in Conns, NEW t \in Terminals, Spawn(c, t) PROVE TerminalsKnown'
  BY <1>5 DEF Spawn
<1>6. ASSUME NEW c \in Conns, Inserts(c) PROVE TerminalsKnown'
  BY <1>6 DEF Inserts
<1>7. ASSUME NEW c \in Conns, KillSignals(c) PROVE TerminalsKnown'
  BY <1>7 DEF KillSignals
<1>8. ASSUME NEW t \in Terminals, ChildExits(t) \/ Waiter(t) PROVE TerminalsKnown'
  BY <1>8 DEF ChildExits, Waiter
<1>9. CASE Reaper
  BY <1>9 DEF Reaper, ReaperCollects, ReaperRemoves
<1>10. CASE Crash
  BY <1>10 DEF Crash
<1>11. CASE UNCHANGED vars
  BY <1>11 DEF vars
<1> QED
  BY <1>2, <1>3, <1>4, <1>5, <1>6, <1>7, <1>8, <1>9, <1>10, <1>11 DEF Next, Handler

\* No interleaving of creations, kills, the reaper and crashes loses a running
\* child: the session manager knows it, or its creator is about to insert it.
THEOREM NoTerminalIsLost == Spec => []NoLostTerminal
<1>1. TerminalsKnown => NoLostTerminal
  BY DEF TerminalsKnown
<1> QED
  BY <1>1, TypesInit, TypesStep, TerminalsInit, TerminalsStep, PTL DEF Spec

-----------------------------------------------------------------------------
(* Configuration *)

LEMMA ConfigInit == Init => ConfigTracked
BY DEF Init, ConfigTracked, PastLoad, At

LEMMA ConfigStep ==
  DaemonTypes /\ ConfigTracked /\ [Next]_vars => ConfigTracked'
<1> SUFFICES ASSUME DaemonTypes, ConfigTracked, [Next]_vars, clean' PROVE ConfigTracked'
  BY DEF ConfigTracked
<1> USE DEF DaemonTypes, ConfigTracked, PastLoad, At, Answer, Goes, sharedVars
\* A handler that is not past its load, and does not get there, leaves the
\* configuration alone.
<1>1. ASSUME NEW c \in Conns, conn[c].pc \notin {"save", "write", "store"},
             NEW to, conn' = [conn EXCEPT ![c] = to],
             to.pc \notin {"save", "write", "store"},
             UNCHANGED <<mem, disk, acked, clean>>
      PROVE  ConfigTracked'
  BY <1>1
<1>2. ASSUME NEW c \in Conns,
             Begins(c) \/ Hello(c) \/ HelloRefused(c) \/ Replied(c) \/ Stops(c) \/ SpawnFails(c)
               \/ Inserts(c) \/ KillWaits(c)
      PROVE  ConfigTracked'
  BY <1>2, <1>1 DEF Begins, Hello, HelloRefused, Replied, Stops, SpawnFails, Inserts, KillWaits
<1>3. ASSUME NEW c \in Conns, NEW req \in Requests, Request(c, req) PROVE ConfigTracked'
  <2>1. PICK to : conn' = [conn EXCEPT ![c] = to] /\ to.pc \in {"check", "lookup", "load", "reply"}
    BY <1>3 DEF Request
  <2> QED
    BY <1>3, <2>1, <1>1 DEF Request
<1>4. ASSUME NEW c \in Conns, NEW t \in Terminals, Spawn(c, t) PROVE ConfigTracked'
  <2>1. PICK to : conn' = [conn EXCEPT ![c] = to] /\ to.pc \in {"insert", "reply"}
    BY <1>4 DEF Spawn
  <2> QED
    BY <1>4, <2>1, <1>1 DEF Spawn
<1>5. ASSUME NEW c \in Conns, CreateChecks(c) \/ KillLooksUp(c) \/ KillSignals(c)
      PROVE  ConfigTracked'
  <2>1. PICK to : conn' = [conn EXCEPT ![c] = to] /\ to.pc \in {"spawn", "signal", "wait", "reply"}
    BY <1>5 DEF CreateChecks, KillLooksUp, KillSignals
  <2> QED
    BY <1>5, <2>1, <1>1 DEF CreateChecks, KillLooksUp, KillSignals
<1>6. ASSUME NEW c \in Conns, UpdateLoads(c) PROVE ConfigTracked'
  <2>1. clean /\ has_path /\ \A d \in Conns \ {c} : ~PastLoad(d)
    BY <1>6 DEF UpdateLoads, Updating
  <2>2. conn' = [conn EXCEPT ![c] = [conn[c] EXCEPT !.pc = "save"]]
    BY <1>6, <2>1 DEF UpdateLoads
  <2> QED
    BY <1>6, <2>1, <2>2 DEF UpdateLoads
<1>7. ASSUME NEW c \in Conns, SaveTruncates(c) PROVE ConfigTracked'
  BY <1>7 DEF SaveTruncates
<1>8. ASSUME NEW c \in Conns, SaveWrites(c) PROVE ConfigTracked'
  <2>1. \A d \in Conns \ {c} : ~PastLoad(d)
    BY <1>8 DEF SaveWrites
  <2>2. disk' = conn[c].size
    BY <1>8, <2>1 DEF SaveWrites
  <2> QED
    BY <1>8, <2>1, <2>2 DEF SaveWrites
<1>9. ASSUME NEW c \in Conns, SaveFails(c) PROVE ConfigTracked'
  BY <1>9 DEF SaveFails
<1>10. ASSUME NEW c \in Conns, UpdateStores(c) PROVE ConfigTracked'
  BY <1>10 DEF UpdateStores
<1>11. ASSUME NEW t \in Terminals, ChildExits(t) \/ Waiter(t) PROVE ConfigTracked'
  BY <1>11 DEF ChildExits, Waiter
<1>12. CASE Reaper
  BY <1>12 DEF Reaper, ReaperCollects, ReaperRemoves
<1>13. CASE Crash
  BY <1>13 DEF Crash, Updating
<1>14. CASE UNCHANGED vars
  BY <1>14 DEF vars
<1> QED
  BY <1>2, <1>3, <1>4, <1>5, <1>6, <1>7, <1>8, <1>9, <1>10, <1>11, <1>12, <1>13, <1>14
     DEF Next, Handler

\* While updates neither overlap nor are cut short, the configuration in use is
\* the one in the file and the one the last client was told of, through any
\* number of updates, failed saves and crashes.
THEOREM ConfigurationSurvives == Spec => []ConfigSurvives
<1>1. ConfigTracked => ConfigSurvives
  BY DEF ConfigTracked, ConfigSurvives, PastLoad, Updating
<1> QED
  BY <1>1, TypesInit, TypesStep, ConfigInit, ConfigStep, PTL DEF Spec

-----------------------------------------------------------------------------
(* The limit *)

LEMMA CreatingFinite ==
  /\ IsFiniteSet(Creating) /\ IsFiniteSet(Conns)
  /\ Cardinality(Creating) \in Nat /\ Cardinality(Conns) \in Nat
  /\ Cardinality(Creating) <= Cardinality(Conns)
<1>1. IsFiniteSet(Conns) /\ Creating \subseteq Conns
  BY RequestsAssumption DEF Creating
<1> QED
  BY <1>1, FS_Subset, FS_CardinalityType

LEMMA LimitInit == Init => LimitTracked
<1> SUFFICES ASSUME Init PROVE LimitTracked
  OBVIOUS
<1>1. Creating = {}
  BY DEF Init, Creating, At
<1>2. IsFiniteSet(registered) /\ Cardinality(registered) = 0
  BY FS_EmptySet DEF Init
<1>3. raced = FALSE /\ 0 <= MaxTerminals
  BY RequestsAssumption DEF Init
<1> QED
  BY <1>1, <1>2, <1>3 DEF LimitTracked

\* What a step may do to the map and the creations that hold a reservation.
LEMMA LimitKept ==
  ASSUME LimitTracked, UNCHANGED raced, registered' \subseteq registered,
         Creating' \subseteq Creating
  PROVE  LimitTracked'
<1>1. /\ IsFiniteSet(registered') /\ Cardinality(registered') \in Nat
      /\ Cardinality(registered) \in Nat
      /\ Cardinality(registered') <= Cardinality(registered)
  BY FS_Subset, FS_CardinalityType DEF LimitTracked
<1>2. /\ Cardinality(Creating') \in Nat /\ Cardinality(Creating) \in Nat
      /\ Cardinality(Creating') <= Cardinality(Creating)
  BY CreatingFinite, FS_Subset, FS_CardinalityType
<1>3. raced => LimitTracked'
  BY <1>1, <1>2, CreatingFinite, RequestsAssumption DEF LimitTracked
<1>4. ~raced => LimitTracked'
  BY <1>1, RequestsAssumption DEF LimitTracked
<1> QED
  BY <1>3, <1>4

LEMMA LimitStep == DaemonTypes /\ LimitTracked /\ [Next]_vars => LimitTracked'
<1> SUFFICES ASSUME DaemonTypes, LimitTracked, [Next]_vars PROVE LimitTracked'
  OBVIOUS
<1> USE DEF DaemonTypes, At, Answer, Goes, sharedVars
<1>1. ASSUME NEW c \in Conns, NEW to, conn' = [conn EXCEPT ![c] = to],
             to.pc \notin {"spawn", "insert"} \/ conn[c].pc \in {"spawn", "insert"}
      PROVE  Creating' \subseteq Creating
  BY <1>1 DEF Creating
<1>2. ASSUME NEW c \in Conns,
             Begins(c) \/ Hello(c) \/ HelloRefused(c) \/ Replied(c) \/ Stops(c) \/ SpawnFails(c)
               \/ KillWaits(c) \/ SaveFails(c) \/ UpdateStores(c)
      PROVE  LimitTracked'
  <2>1. Creating' \subseteq Creating
    BY <1>2, <1>1 DEF Begins, Hello, HelloRefused, Replied, Stops, SpawnFails, KillWaits,
       SaveFails, UpdateStores
  <2>2. UNCHANGED <<registered, raced>>
    BY <1>2 DEF Begins, Hello, HelloRefused, Replied, Stops, SpawnFails, KillWaits,
       SaveFails, UpdateStores
  <2> QED
    BY <2>1, <2>2, LimitKept
<1>3. ASSUME NEW c \in Conns, NEW req \in Requests, Request(c, req) PROVE LimitTracked'
  <2>1. PICK to : conn' = [conn EXCEPT ![c] = to] /\ to.pc \in {"check", "lookup", "load", "reply"}
    BY <1>3 DEF Request
  <2>2. Creating' \subseteq Creating
    BY <2>1, <1>1
  <2> QED
    BY <1>3, <2>2, LimitKept DEF Request
<1>4. ASSUME NEW c \in Conns, NEW t \in Terminals, Spawn(c, t) PROVE LimitTracked'
  <2>1. PICK to : conn' = [conn EXCEPT ![c] = to]
    BY <1>4, Zenon DEF Spawn
  <2>2. Creating' \subseteq Creating
    BY <1>4, <2>1, <1>1 DEF Spawn
  <2> QED
    BY <1>4, <2>2, LimitKept DEF Spawn
<1>5. ASSUME NEW c \in Conns,
             KillLooksUp(c) \/ KillSignals(c) \/ UpdateLoads(c) \/ SaveTruncates(c) \/ SaveWrites(c)
      PROVE  LimitTracked'
  <2>1. PICK to : /\ conn' = [conn EXCEPT ![c] = to]
                  /\ to.pc \in {"signal", "wait", "reply", "save", "write", "store"}
    BY <1>5 DEF KillLooksUp, KillSignals, UpdateLoads, SaveTruncates, SaveWrites
  <2>2. Creating' \subseteq Creating
    BY <2>1, <1>1
  <2>3. UNCHANGED <<registered, raced>>
    BY <1>5 DEF KillLooksUp, KillSignals, UpdateLoads, SaveTruncates, SaveWrites
  <2> QED
    BY <2>2, <2>3, LimitKept
<1>6. ASSUME NEW c \in Conns, CreateChecks(c) PROVE LimitTracked'
  <2>1. CASE ~HasRoom
    <3>1. Creating' \subseteq Creating /\ UNCHANGED <<registered, raced>>
      BY <1>6, <1>1, <2>1 DEF CreateChecks, LimitTracked
    <3> QED
      BY <3>1, LimitKept
  <2>2. CASE HasRoom
    <3>1. conn' = [conn EXCEPT ![c] = [conn[c] EXCEPT !.pc = "spawn"]]
      BY <1>6, <2>2 DEF CreateChecks
    <3>2. Creating' = Creating \cup {c}
      BY <3>1 DEF Creating
    <3>3. registered' = registered /\ raced' = (raced \/ Creating # {})
      BY <1>6, <2>2 DEF CreateChecks, Creating
    <3>4. Cardinality(registered) \in Nat /\ Cardinality(registered) < MaxTerminals
      BY <2>2, FS_CardinalityType DEF HasRoom, LimitTracked
    <3>5. /\ Cardinality(Creating') \in Nat /\ Cardinality(Conns) \in Nat
          /\ Cardinality(Creating') <= Cardinality(Conns)
      <4>1. Creating' \subseteq Conns
        BY <3>2 DEF Creating
      <4> QED
        BY <4>1, CreatingFinite, FS_Subset, FS_CardinalityType
    <3>6. raced' => LimitTracked'
      BY <3>3, <3>4, <3>5, RequestsAssumption DEF LimitTracked
    <3>7. ~raced' => LimitTracked'
      BY <3>2, <3>3, <3>4, RequestsAssumption DEF LimitTracked
    <3> QED
      BY <3>6, <3>7
  <2> QED
    BY <2>1, <2>2
<1>7. ASSUME NEW c \in Conns, Inserts(c) PROVE LimitTracked'
  <2>1. Creating' = Creating \ {c} /\ c \in Creating
    BY <1>7 DEF Inserts, Creating
  <2>2. Cardinality(Creating') = Cardinality(Creating) - 1
    BY <2>1, CreatingFinite, FS_RemoveElement
  <2>3. /\ IsFiniteSet(registered')
        /\ Cardinality(registered) \in Nat /\ Cardinality(registered') \in Nat
        /\ Cardinality(registered') <= Cardinality(registered) + 1
    <3>1. registered' = registered \cup {conn[c].terminal}
      BY <1>7 DEF Inserts
    <3>2. IsFiniteSet(registered)
      BY DEF LimitTracked
    <3>3. /\ IsFiniteSet(registered')
          /\ Cardinality(registered') = Cardinality(registered)
               \/ Cardinality(registered') = Cardinality(registered) + 1
      BY <3>1, <3>2, FS_AddElement
    <3>4. Cardinality(registered) \in Nat
      BY <3>2, FS_CardinalityType
    <3> QED
      BY <3>3, <3>4
  <2>4. raced' = raced
    BY <1>7 DEF Inserts
  <2>5. raced => LimitTracked'
    BY <2>2, <2>3, <2>4, CreatingFinite, RequestsAssumption DEF LimitTracked
  <2>6. ~raced => LimitTracked'
    BY <2>1, <2>3, <2>4, RequestsAssumption DEF LimitTracked
  <2> QED
    BY <2>5, <2>6
<1>8. ASSUME NEW t \in Terminals, ChildExits(t) \/ Waiter(t) PROVE LimitTracked'
  BY <1>8, LimitKept DEF ChildExits, Waiter, Creating
<1>9. CASE Reaper
  BY <1>9, LimitKept DEF Reaper, ReaperCollects, ReaperRemoves, Creating
<1>10. CASE Crash
  <2>1. Creating' = {} /\ registered' = {} /\ raced' = raced
    BY <1>10 DEF Crash, Creating
  <2> QED
    BY <2>1, LimitKept
<1>11. CASE UNCHANGED vars
  BY <1>11, LimitKept DEF vars, Creating
<1> QED
  BY <1>2, <1>3, <1>4, <1>5, <1>6, <1>7, <1>8, <1>9, <1>10, <1>11 DEF Next, Handler

\* The session manager passes its limit only when creations overlapped, and
\* then by less than the number of connections.
THEOREM LimitIsNearlyKept == Spec => []LimitOvershoot
<1>1. LimitTracked => LimitOvershoot
  <2> SUFFICES ASSUME LimitTracked PROVE LimitOvershoot
    OBVIOUS
  <2>1. Cardinality(registered) \in Nat
    BY FS_CardinalityType DEF LimitTracked
  <2>2. CASE raced
    BY <2>1, <2>2, CreatingFinite, RequestsAssumption DEF LimitTracked, LimitOvershoot
  <2>3. CASE ~raced
    BY <2>1, <2>3, RequestsAssumption DEF LimitTracked, LimitOvershoot
  <2> QED
    BY <2>2, <2>3
<1> QED
  BY <1>1, TypesInit, TypesStep, LimitInit, LimitStep, PTL DEF Spec
=============================================================================
