------------------------ MODULE ClientAdmissionProofs ------------------------
(***************************************************************************)
(* Proofs about ClientAdmission, for every set of clients and connections  *)
(* and every number of pairings, revocations and crashes.                  *)
(***************************************************************************)
EXTENDS ClientAdmission, TLAPS

\* The empty tables are tables.
LEMMA EmptyType == Empty \in Tables
BY DEF Empty, Tables

\* ClientDb::open on empty files.
LEMMA InitEstablishesInv == Init => AdmissionInv
<1> SUFFICES ASSUME Init PROVE AdmissionInv
  OBVIOUS
<1>1. TypeOK
  BY EmptyType, AdmissionAssumption DEF Init, TypeOK, Reloader, Ids
<1>2. DownMeansAlone /\ ReadsAreOlder /\ CompareHolds
  BY DEF Init, DownMeansAlone, Up, ReadsAreOlder, CompareHolds, Reloader, Empty
<1>3. RevocationNoticed
  BY DEF Init, RevocationNoticed, Empty
<1>4. QED
  BY <1>1, <1>2, <1>3 DEF AdmissionInv

-----------------------------------------------------------------------------
(* Every action keeps the invariant *)

\* The `revoke` command only adds to revoked.json.
LEMMA RevokeKeepsInv ==
  ASSUME AdmissionInv, NEW i \in Ids, Revoke(i)
  PROVE  AdmissionInv'
<1>1. disk' \in Tables /\ disk.revoked \subseteq disk'.revoked
  BY DEF AdmissionInv, TypeOK, Tables, Revoke
<1>2. TypeOK'
  BY <1>1 DEF AdmissionInv, TypeOK, Revoke, Tables
<1>3. DownMeansAlone' /\ ReadsAreOlder' /\ CompareHolds' /\ RevocationNoticed'
  BY <1>1 DEF AdmissionInv, Revoke, DownMeansAlone, Up, ReadsAreOlder, CompareHolds, RevocationNoticed
<1>4. QED
  BY <1>2, <1>3 DEF AdmissionInv

\* Stopping the daemon and ClientDb::open, while no connection exists.
LEMMA RestartKeepsInv ==
  ASSUME AdmissionInv, Crash \/ OpenFiles \/ OpenTexts
  PROVE  AdmissionInv'
<1> USE DEF AdmissionInv, DownMeansAlone, Up, ReadsAreOlder, CompareHolds, RevocationNoticed, Reloader
<1>1. CASE Crash
  <2>1. TypeOK'
    BY <1>1, EmptyType DEF TypeOK, Crash
  <2>2. QED
    BY <1>1, <2>1 DEF Crash, TypeOK, Tables, Empty
<1>2. CASE OpenFiles
  <2>1. TypeOK'
    BY <1>2, EmptyType DEF TypeOK, OpenFiles
  <2>2. QED
    BY <1>2, <2>1 DEF OpenFiles, TypeOK
<1>3. CASE OpenTexts
  <2>1. TypeOK'
    BY <1>3, EmptyType DEF TypeOK, OpenTexts
  <2>2. QED
    BY <1>3, <2>1 DEF OpenTexts, TypeOK
<1>4. QED
  BY <1>1, <1>2, <1>3

\* The reload task: a read moves nothing; what Compare finds out is still true
\* when Replace acts on it; Announce reaches every live connection.
LEMMA ReloadKeepsInv ==
  ASSUME AdmissionInv, ReloadStep \/ LoadFails
  PROVE  AdmissionInv'
<1> USE DEF AdmissionInv, DownMeansAlone, Up, ReadsAreOlder, CompareHolds, RevocationNoticed
<1>1. CASE Poll
  <2>1. TypeOK'
    BY <1>1 DEF TypeOK, Poll, Reload
  <2>2. QED
    BY <1>1, <2>1 DEF Poll, Reload, TypeOK
<1>2. CASE LoadClients
  <2>1. rel' \in [at : {"revoked"}, last : Tables, text : Tables, next : Tables, changed : BOOLEAN]
    BY <1>2 DEF TypeOK, LoadClients, Reload, Tables
  <2>2. TypeOK'
    BY <1>2, <2>1 DEF TypeOK, LoadClients, Reload
  <2>3. QED
    BY <1>2, <2>1, <2>2 DEF LoadClients, Reload
<1>3. CASE LoadRevoked
  <2>1. /\ rel' \in [at : {"compare"}, last : Tables, text : Tables, next : Tables, changed : BOOLEAN]
        /\ rel'.next.revoked = disk.revoked
    BY <1>3 DEF TypeOK, LoadRevoked, Reload, Tables
  <2>2. TypeOK'
    BY <1>3, <2>1 DEF TypeOK, LoadRevoked, Reload
  <2>3. QED
    BY <1>3, <2>1, <2>2 DEF LoadRevoked, Reload
<1>4. CASE LoadFails
  <2>1. TypeOK'
    BY <1>4, EmptyType DEF TypeOK, LoadFails, Reload, Reloader
  <2>2. QED
    BY <1>4, <2>1 DEF LoadFails, Reload, Reloader
<1>5. CASE Compare
  <2>1. TypeOK'
    BY <1>5 DEF TypeOK, Compare, Reload
  <2>2. /\ rel'.at = "replace" /\ rel'.next = rel.next /\ mem' = mem
        /\ rel'.changed <=> mem.revoked # rel.next.revoked
    BY <1>5 DEF TypeOK, Compare, Reload
  <2>3. QED
    BY <1>5, <2>1, <2>2 DEF Compare, Reload
<1>6. CASE Replace
  <2>1. TypeOK'
    BY <1>6, EmptyType DEF TypeOK, Replace, Reload, Slept, Reloader
  <2>2. /\ rel'.at \in {"announce", "sleep"}
        /\ rel'.at = "sleep" => mem'.revoked = mem.revoked
        /\ mem'.revoked \subseteq disk'.revoked
    BY <1>6 DEF TypeOK, Replace, Reload, Slept, Reloader
  <2>3. DownMeansAlone' /\ ReadsAreOlder' /\ CompareHolds'
    BY <1>6, <2>2 DEF Replace, Reload
  <2>4. RevocationNoticed'
    BY <1>6, <2>2 DEF Replace, Reload
  <2>5. QED
    BY <2>1, <2>3, <2>4
<1>7. CASE Announce
  <2>1. TypeOK'
    BY <1>7, EmptyType DEF TypeOK, Announce, Reload, Slept, Reloader
  <2>2. QED
    BY <1>7, <2>1 DEF Announce, Reload, Slept, Reloader
<1>8. QED
  BY <1>1, <1>2, <1>3, <1>4, <1>5, <1>6, <1>7 DEF ReloadStep

\* The end of a connection: nothing is expected of its watch any more.
LEMMA EndsKeepsInv ==
  ASSUME AdmissionInv, NEW c \in Conns, Up, Ends(c),
         UNCHANGED <<disk, mem, rel, paired>>
  PROVE  AdmissionInv'
<1> USE DEF AdmissionInv, DownMeansAlone, Up, ReadsAreOlder, CompareHolds, RevocationNoticed
<1>1. TypeOK'
  BY DEF TypeOK, Ends, Goes
<1>2. QED
  BY <1>1 DEF TypeOK, Ends, Goes

\* The handshake and the watch of a connection.
LEMMA ConnKeepsInv ==
  ASSUME AdmissionInv, NEW c \in Conns, ConnStep(c)
  PROVE  AdmissionInv'
<1> USE DEF AdmissionInv, DownMeansAlone, Up, ReadsAreOlder, CompareHolds, RevocationNoticed
<1>1. CASE Lookup(c)
  <2>1. TypeOK'
    BY <1>1, AdmissionAssumption DEF TypeOK, Tables, Lookup, Goes
  <2>2. QED
    BY <1>1, <2>1 DEF TypeOK, Lookup, Goes
<1>2. CASE AddOrLookup(c)
  <2>1. /\ disk' \in Tables /\ disk'.revoked = disk.revoked
        /\ mem' \in Tables /\ mem'.revoked = mem.revoked
        /\ paired' \in 0..MaxPairings
        /\ id' \in [Conns -> Ids \cup {None}]
        /\ id'[c] # None
        /\ \A d \in Conns : d # c => id'[d] = id[d]
    BY <1>2, AdmissionAssumption DEF TypeOK, Tables, AddOrLookup, Ids
  <2>2. /\ pc' \in [Conns -> {"new", "adding", "checking", "greeting", "live", "closed"}]
        /\ \A d \in Conns : d # c => pc'[d] = pc[d]
        /\ pc[c] = "adding" /\ pc'[c] = "checking"
    BY <1>2 DEF TypeOK, AddOrLookup, Goes
  <2>3. UNCHANGED <<rel, unseen, crashes, late, raced>>
    BY <1>2 DEF AddOrLookup
  <2>4. TypeOK'
    BY <2>1, <2>2, <2>3 DEF TypeOK
  <2>5. QED
    BY <2>1, <2>2, <2>3, <2>4
<1>3. CASE AddFails(c)
  BY <1>3, EndsKeepsInv DEF AddFails
<1>4. CASE CheckRevoked(c)
  <2>1. CASE id[c] \in mem.revoked
    BY <1>4, <2>1, EndsKeepsInv DEF CheckRevoked
  <2>2. CASE id[c] \notin mem.revoked
    <3>1. TypeOK'
      BY <1>4, <2>2 DEF TypeOK, CheckRevoked, Goes
    <3>2. QED
      BY <1>4, <2>2, <3>1 DEF TypeOK, CheckRevoked, Goes
  <2>3. QED
    BY <2>1, <2>2
<1>5. CASE Subscribe(c)
  <2>1. TypeOK'
    BY <1>5 DEF TypeOK, Subscribe, Goes
  <2>2. QED
    BY <1>5, <2>1 DEF TypeOK, Subscribe, Goes
<1>6. CASE Changed(c)
  <2>1. CASE id[c] \in mem.revoked
    BY <1>6, <2>1, EndsKeepsInv DEF Changed
  <2>2. CASE id[c] \notin mem.revoked
    <3>1. TypeOK'
      BY <1>6, <2>2 DEF TypeOK, Changed
    <3>2. QED
      BY <1>6, <2>2, <3>1 DEF TypeOK, Changed
  <2>3. QED
    BY <2>1, <2>2
<1>7. CASE Leave(c)
  BY <1>7, EndsKeepsInv DEF Leave
<1>8. QED
  BY <1>1, <1>2, <1>3, <1>4, <1>5, <1>6, <1>7 DEF ConnStep

\* One step of the daemon, its clients or its operator.
LEMMA StepKeepsInv ==
  ASSUME AdmissionInv, [Next]_vars
  PROVE  AdmissionInv'
<1>1. CASE UNCHANGED vars
  BY <1>1 DEF vars, AdmissionInv, TypeOK, DownMeansAlone, Up, ReadsAreOlder, CompareHolds,
              RevocationNoticed
<1>2. CASE Next
  BY <1>2, RevokeKeepsInv, RestartKeepsInv, ReloadKeepsInv, ConnKeepsInv DEF Next
<1>3. QED
  BY <1>1, <1>2

-----------------------------------------------------------------------------
(* Theorems *)

\* The client database, its reload task and the connections keep the
\* inductive invariant.
THEOREM AdmissionSafe == Spec => []AdmissionInv
<1>1. Init => AdmissionInv
  BY InitEstablishesInv
<1>2. AdmissionInv /\ [Next]_vars => AdmissionInv'
  BY StepKeepsInv
<1>3. QED
  BY <1>1, <1>2, PTL DEF Spec

\* However polls, revocations, pairings, handshakes and restarts interleave, a
\* live session whose client memory knows to be revoked is told of it, unless
\* it began to watch too late.
THEOREM RevocationsAreNoticed == Spec => []RevocationNoticed
<1>1. AdmissionInv => RevocationNoticed
  BY DEF AdmissionInv
<1>2. QED
  BY <1>1, AdmissionSafe, PTL

\* A revocation that is in revoked.json and, unless the daemon is down, in memory.
Known(i) == i \in disk.revoked /\ (rel.at # "down" => i \in mem.revoked)

\* A reload replaces memory by tables that were read after memory's own, a start
\* reads a file from which nothing has been taken.
LEMMA KnownStays ==
  ASSUME AdmissionInv, [Next]_vars, NEW i \in Ids, Known(i)
  PROVE  Known(i)'
<1> USE DEF Known
<1>1. disk \in Tables /\ mem \in Tables
  BY DEF AdmissionInv, TypeOK
<1>2. CASE ReloadStep
  BY <1>2 DEF ReloadStep, Reload, Poll, LoadClients, LoadRevoked, Compare, Replace, Announce, Slept,
     Reloader, AdmissionInv, ReadsAreOlder
<1>3. ASSUME NEW c \in Conns, ConnStep(c) PROVE Known(i)'
  <2>1. CASE AddOrLookup(c)
    BY <1>1, <2>1 DEF AddOrLookup, Tables
  <2>2. CASE ~ AddOrLookup(c)
    BY <1>3, <2>2 DEF ConnStep, Lookup, AddFails, CheckRevoked, Subscribe, Changed, Leave
  <2>3. QED
    BY <2>1, <2>2
<1>4. CASE \E n \in Ids : Revoke(n)
  BY <1>1, <1>4 DEF Revoke, Tables
<1>5. CASE LoadFails
  BY <1>5 DEF LoadFails, Reload, Reloader
<1>6. CASE Crash \/ OpenFiles \/ OpenTexts
  BY <1>6 DEF Crash, OpenFiles, OpenTexts, Reloader, Up
<1>7. CASE UNCHANGED vars
  BY <1>7 DEF vars
<1>8. QED
  BY <1>2, <1>3, <1>4, <1>5, <1>6, <1>7 DEF Next

\* The daemon never forgets a revocation, over any number of reloads, failed
\* reads and restarts: whenever it is up, memory holds all that memory ever held.
THEOREM RevocationsAreKept == Spec => RevocationsKept
<1> SUFFICES ASSUME NEW i \in Ids
             PROVE  Spec => [](i \in mem.revoked => [](Up => i \in mem.revoked))
  BY DEF RevocationsKept
<1>1. AdmissionInv /\ i \in mem.revoked => Known(i)
  BY DEF AdmissionInv, ReadsAreOlder, Known
<1>2. AdmissionInv /\ Known(i) /\ [Next]_vars => Known(i)'
  BY KnownStays
<1>3. Known(i) => (Up => i \in mem.revoked)
  BY DEF Known, Up
<1>4. QED
  BY <1>1, <1>2, <1>3, AdmissionSafe, PTL DEF Spec

\* add_or_lookup_by_public writes clients.json from memory, under the lock it
\* looked the key up with: the id of a key on disk changes only where memory
\* does not hold that id.
THEOREM PairingsOverwrittenOnlyIfForgotten == Spec => PairingLostOnlyIfForgotten
<1>1. AdmissionInv /\ [Next]_vars =>
        [\A k \in Keys : disk.clients[k] # None /\ disk'.clients[k] # disk.clients[k] =>
           mem.clients[k] # disk.clients[k]]_vars
  <2> SUFFICES ASSUME AdmissionInv, Next, NEW k \in Keys,
                      disk.clients[k] # None, disk'.clients[k] # disk.clients[k]
               PROVE  mem.clients[k] # disk.clients[k]
    BY DEF vars
  <2>1. disk \in Tables /\ mem \in Tables /\ KeyOf \in [Conns -> Keys]
    BY AdmissionAssumption DEF AdmissionAssumption, AdmissionInv, TypeOK
  <2>2. CASE \E c \in Conns : ConnStep(c)
    <3> PICK c \in Conns : ConnStep(c)
      BY <2>2
    <3>1. CASE UNCHANGED disk
      BY <3>1
    <3>2. CASE ~ UNCHANGED disk
      <4>1. /\ mem.clients[KeyOf[c]] = None
            /\ \E n : disk'.clients = [mem.clients EXCEPT ![KeyOf[c]] = n]
        BY <2>1, <3>2 DEF ConnStep, Lookup, AddOrLookup, AddFails, CheckRevoked, Subscribe, Changed,
           Leave, Tables
      <4>2. PICK n : disk'.clients = [mem.clients EXCEPT ![KeyOf[c]] = n]
        BY <4>1
      <4>3. CASE k = KeyOf[c]
        BY <4>1, <4>3
      <4>4. CASE k # KeyOf[c]
        BY <2>1, <4>2, <4>4 DEF Tables
      <4> QED BY <4>3, <4>4
    <3> QED BY <3>1, <3>2
  <2>3. CASE \E i \in Ids : Revoke(i)
    BY <2>1, <2>3 DEF Revoke, Tables
  <2>4. CASE ReloadStep \/ LoadFails
    BY <2>4 DEF ReloadStep, LoadFails, Poll, LoadClients, LoadRevoked, Compare, Replace, Announce,
                Reload
  <2>5. CASE Crash \/ OpenFiles \/ OpenTexts
    BY <2>5 DEF Crash, OpenFiles, OpenTexts
  <2>6. QED
    BY <2>2, <2>3, <2>4, <2>5 DEF Next
<1>2. QED
  BY <1>1, AdmissionSafe, PTL DEF Spec, PairingLostOnlyIfForgotten
=============================================================================
