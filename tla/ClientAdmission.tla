--------------------------- MODULE ClientAdmission ---------------------------
(***************************************************************************)
(* Who the daemon lets in: the client database with its two files and its  *)
(* reload task (daemon-core client_db.rs), the end of the handshake        *)
(* (handshake.rs) and the revocation watch of a live connection            *)
(* (connection.rs).  The `revoke` command is another process: it writes    *)
(* revoked.json and the daemon learns of it by polling.  The daemon itself *)
(* writes clients.json only, when it pairs an unknown client.              *)
(*                                                                         *)
(* A client is known by its public key; a ClientId is drawn afresh for     *)
(* every pairing.  The files are written by renaming a complete temporary  *)
(* file, so a read sees one whole version, and their texts are sorted, so  *)
(* two texts are equal exactly if the contents are.  The operator runs one *)
(* `revoke` at a time.                                                     *)
(***************************************************************************)
EXTENDS Naturals, FiniteSets

CONSTANTS
  Keys,            \* public keys of the clients
  Conns,           \* connections
  KeyOf,           \* the key a connection's handshake proves
  None,
  MaxPairings,     \* bound: client ids drawn
  MaxRevocations,  \* bound: clients revoked
  MaxCrashes       \* bound: how often the daemon is stopped and started again

Ids == 1..MaxPairings

ASSUME AdmissionAssumption ==
  /\ KeyOf \in [Conns -> Keys]
  /\ None \notin Nat
  /\ MaxPairings \in Nat /\ MaxRevocations \in Nat /\ MaxCrashes \in Nat

VARIABLES
  disk,     \* clients.json and revoked.json
  mem,      \* ClientDb.inner: the same two tables in memory
  rel,      \* the reload task: where it is and what it holds
  pc,       \* where a connection is
  id,       \* the client id its handshake arrived at
  unseen,   \* connections whose watch holds a value they have not seen
  paired,   \* client ids drawn so far
  crashes,
  late,     \* history: connections that began to watch after the announcement
  raced     \* history: the files changed between the two reads of open

vars == <<disk, mem, rel, pc, id, unseen, paired, crashes, late, raced>>

Tables == [clients : [Keys -> Ids \cup {None}], revoked : SUBSET Ids]
Empty  == [clients |-> [k \in Keys |-> None], revoked |-> {}]

\* The reload task's locals: last_*_text, *_text, the tables just read, and
\* revocations_changed.
Reloader(at, last) == [at |-> at, last |-> last, text |-> Empty, next |-> Empty, changed |-> FALSE]

Init ==
  /\ disk = Empty
  /\ mem = Empty
  /\ rel = Reloader("sleep", Empty)
  /\ pc = [c \in Conns |-> "new"]
  /\ id = [c \in Conns |-> None]
  /\ unseen = {}
  /\ paired = 0
  /\ crashes = 0
  /\ late = {}
  /\ raced = FALSE

Up == rel.at \notin {"down", "opening"}

-----------------------------------------------------------------------------
(* The operator *)

\* daemon-bin `revoke`, for a client that `list-clients` shows.
Revoke(i) ==
  /\ \E k \in Keys : disk.clients[k] = i
  /\ i \notin disk.revoked
  /\ Cardinality(disk.revoked) < MaxRevocations
  /\ disk' = [disk EXCEPT !.revoked = @ \cup {i}]
  /\ UNCHANGED <<mem, rel, pc, id, unseen, paired, crashes, late, raced>>

Crash ==
  /\ Up
  /\ crashes < MaxCrashes
  /\ crashes' = crashes + 1
  /\ rel' = Reloader("down", Empty)
  /\ mem' = Empty
  /\ pc' = [c \in Conns |-> IF pc[c] = "new" THEN "new" ELSE "closed"]
  /\ id' = [c \in Conns |-> None]
  /\ unseen' = {}
  /\ late' = {}
  /\ UNCHANGED <<disk, paired, raced>>

-----------------------------------------------------------------------------
(* ClientDb::open: the tables first, the texts to compare with afterwards *)

\* Mutant of OpenFiles: the daemon starts with an empty revoked.json if it
\* cannot read the one it has.
MutOpenDefaults ==
  /\ rel.at = "down"
  /\ mem' = [disk EXCEPT !.revoked = {}]
  /\ rel' = Reloader("opening", Empty)
  /\ UNCHANGED <<disk, pc, id, unseen, paired, crashes, late, raced>>

\* A file that cannot be read or parsed is an error: the daemon does not start.
OpenFiles ==
  /\ rel.at = "down"
  /\ mem' = disk
  /\ rel' = Reloader("opening", Empty)
  /\ UNCHANGED <<disk, pc, id, unseen, paired, crashes, late, raced>>

OpenTexts ==
  /\ rel.at = "opening"
  /\ rel' = Reloader("sleep", disk)
  /\ raced' = (mem # disk)
  /\ UNCHANGED <<disk, mem, pc, id, unseen, paired, crashes, late>>

-----------------------------------------------------------------------------
(* spawn_reload_task: one action for the texts, for every table
   read and for every lock taken *)

Reload(r) == rel' = r /\ UNCHANGED <<disk, pc, id, paired, crashes>>

\* The two texts; which of them a write between the reads reaches makes no
\* difference to anything but the next comparison.
Poll ==
  /\ rel.at = "sleep"
  /\ Reload(IF disk = rel.last THEN rel ELSE [rel EXCEPT !.at = "clients", !.text = disk])
  /\ UNCHANGED <<mem, unseen, late, raced>>

LoadClients ==
  /\ rel.at = "clients"
  /\ Reload([rel EXCEPT !.at = "revoked", !.next.clients = disk.clients])
  /\ UNCHANGED <<mem, unseen, late, raced>>

LoadRevoked ==
  /\ rel.at = "revoked"
  /\ Reload([rel EXCEPT !.at = "compare", !.next.revoked = disk.revoked])
  /\ UNCHANGED <<mem, unseen, late, raced>>

\* A file cannot be read: try again at the next poll.
LoadFails ==
  /\ rel.at \in {"clients", "revoked"}
  /\ Reload(Reloader("sleep", rel.last))
  /\ UNCHANGED <<mem, unseen, late, raced>>

Compare ==
  /\ rel.at = "compare"
  /\ Reload([rel EXCEPT !.at = "replace", !.changed = (mem.revoked # rel.next.revoked)])
  /\ UNCHANGED <<mem, unseen, late, raced>>

\* The end of the loop body.
Slept == Reloader("sleep", rel.text)

\* Mutants of Replace: the tables are replaced without a word to the watchers;
\* the texts to compare with are those of the files as they are now.
MutReplaceSilently ==
  /\ rel.at = "replace"
  /\ mem' = rel.next
  /\ raced' = FALSE
  /\ Reload(Slept)
  /\ UNCHANGED <<unseen, late>>

MutReplaceTakesNewText ==
  /\ rel.at = "replace"
  /\ mem' = rel.next
  /\ raced' = FALSE
  /\ Reload(IF rel.changed THEN [rel EXCEPT !.at = "announce", !.text = disk]
            ELSE Reloader("sleep", disk))
  /\ UNCHANGED <<unseen, late>>

Replace ==
  /\ rel.at = "replace"
  /\ mem' = rel.next
  /\ raced' = FALSE
  /\ Reload(IF rel.changed THEN [rel EXCEPT !.at = "announce"] ELSE Slept)
  /\ UNCHANGED <<unseen, late>>

\* revocations_tx.send
Announce ==
  /\ rel.at = "announce"
  /\ unseen' = {c \in Conns : pc[c] = "live"}
  /\ Reload(Slept)
  /\ UNCHANGED <<mem, late, raced>>

ReloadStep ==
  \/ Poll \/ LoadClients \/ LoadRevoked
  \/ Compare \/ Replace \/ Announce

-----------------------------------------------------------------------------
(* The last steps of the handshake, then run_connection_post_handshake *)

Goes(c, to) == pc' = [pc EXCEPT ![c] = to]

\* The task of the connection returns.
Ends(c) ==
  /\ Goes(c, "closed")
  /\ id' = [id EXCEPT ![c] = None]
  /\ unseen' = unseen \ {c}
  /\ late' = late \ {c}

\* Mutant of Lookup: a client that is not found and cannot pair goes on.
MutLookupUnchecked(c) ==
  LET found == mem.clients[KeyOf[c]]
  IN  /\ Up /\ pc[c] = "new"
      /\ Goes(c, "checking") \/ (found = None /\ Goes(c, "adding"))
      /\ id' = [id EXCEPT ![c] = found]
      /\ UNCHANGED <<disk, mem, rel, unseen, paired, crashes, late, raced>>

\* lookup_by_public.  A client that is not found may pair if it comes through
\* the relay or from the loopback (auto_pair); any other is refused.
Lookup(c) ==
  LET found == mem.clients[KeyOf[c]]
  IN  /\ Up /\ pc[c] = "new"
      /\ \/ found # None /\ Goes(c, "checking") /\ id' = [id EXCEPT ![c] = found]
         \/ found = None /\ Goes(c, "adding") /\ UNCHANGED id
         \/ found = None /\ Goes(c, "closed") /\ UNCHANGED id
      /\ UNCHANGED <<disk, mem, rel, unseen, paired, crashes, late, raced>>

\* Mutant of AddOrLookup: the record is inserted without looking again.
MutAddBlindly(c) ==
  LET next == [mem EXCEPT !.clients[KeyOf[c]] = paired + 1]
  IN  /\ pc[c] = "adding"
      /\ Goes(c, "checking")
      /\ paired < MaxPairings
      /\ paired' = paired + 1
      /\ id' = [id EXCEPT ![c] = paired + 1]
      /\ disk' = [disk EXCEPT !.clients = next.clients]
      /\ mem' = next
      /\ UNCHANGED <<rel, unseen, crashes, late, raced>>

\* add_or_lookup_by_public, under the write lock: another connection may have
\* paired the key meanwhile; else clients.json is written from memory, and then
\* memory is replaced.
AddOrLookup(c) ==
  LET found == mem.clients[KeyOf[c]]
      next  == [mem EXCEPT !.clients[KeyOf[c]] = paired + 1]
  IN  /\ pc[c] = "adding"
      /\ Goes(c, "checking")
      /\ \/ /\ found # None
            /\ id' = [id EXCEPT ![c] = found]
            /\ UNCHANGED <<disk, mem, paired>>
         \/ /\ found = None
            /\ paired < MaxPairings
            /\ paired' = paired + 1
            /\ id' = [id EXCEPT ![c] = paired + 1]
            /\ disk' = [disk EXCEPT !.clients = next.clients]
            /\ mem' = next
      /\ UNCHANGED <<rel, unseen, crashes, late, raced>>

\* The write of clients.json fails: memory stays as it is.
AddFails(c) ==
  /\ pc[c] = "adding"
  /\ mem.clients[KeyOf[c]] = None
  /\ Ends(c)
  /\ UNCHANGED <<disk, mem, rel, paired, crashes, raced>>

\* is_revoked, the last step of the handshake.
CheckRevoked(c) ==
  /\ pc[c] = "checking"
  /\ IF id[c] \in mem.revoked THEN Ends(c) ELSE Goes(c, "greeting") /\ UNCHANGED <<id, unseen, late>>
  /\ UNCHANGED <<disk, mem, rel, paired, crashes, raced>>

\* Hello and HelloOk have been exchanged; watch_revocations starts from the
\* value the watch holds now.
Subscribe(c) ==
  /\ pc[c] = "greeting"
  /\ Goes(c, "live")
  /\ late' = IF id[c] \in mem.revoked /\ rel.at # "announce" THEN late \cup {c} ELSE late
  /\ UNCHANGED <<disk, mem, rel, id, unseen, paired, crashes, raced>>

\* rev_rx.changed: the first branch of the biased select.
Changed(c) ==
  /\ pc[c] = "live"
  /\ c \in unseen
  /\ \/ id[c] \in mem.revoked /\ Ends(c)
     \/ id[c] \notin mem.revoked /\ unseen' = unseen \ {c} /\ UNCHANGED <<pc, id, late>>
  /\ UNCHANGED <<disk, mem, rel, paired, crashes, raced>>

\* The client leaves, or its transport breaks; between the last handshake
\* message and Hello the connection's task does not look.
Leave(c) ==
  /\ pc[c] \in {"greeting", "live"}
  /\ Ends(c)
  /\ UNCHANGED <<disk, mem, rel, paired, crashes, raced>>

-----------------------------------------------------------------------------
ConnStep(c) == Lookup(c) \/ AddOrLookup(c) \/ AddFails(c) \/ CheckRevoked(c) \/ Subscribe(c)
               \/ Changed(c) \/ Leave(c)

Next ==
  \/ \E i \in Ids : Revoke(i)
  \/ Crash \/ OpenFiles \/ OpenTexts
  \/ ReloadStep \/ LoadFails
  \/ \E c \in Conns : ConnStep(c)

\* The reload task polls for ever, and it is not always that a file cannot be
\* read; a connection's task sees what its watch holds, which takes a task that
\* is not held in a write to a PTY (see RelayDialer).  Clients, the operator and
\* crashes are free.
Fairness ==
  /\ WF_vars(OpenTexts)
  /\ WF_vars(Poll)
  /\ SF_vars(LoadClients) /\ SF_vars(LoadRevoked)
  /\ WF_vars(Compare) /\ WF_vars(Replace) /\ WF_vars(Announce)
  /\ \A c \in Conns : WF_vars(Changed(c))

Spec == Init /\ [][Next]_vars /\ Fairness

-----------------------------------------------------------------------------
(* Properties *)

\* The types of the variables; past the lookup a connection has a client id, and
\* only live connections watch.
TypeOK ==
  /\ disk \in Tables
  /\ mem \in Tables
  /\ rel \in [at : {"down", "opening", "sleep", "clients", "revoked", "compare", "replace",
                   "announce"},
             last : Tables, text : Tables, next : Tables, changed : BOOLEAN]
  /\ pc \in [Conns -> {"new", "adding", "checking", "greeting", "live", "closed"}]
  /\ id \in [Conns -> Ids \cup {None}]
  /\ unseen \subseteq {c \in Conns : pc[c] = "live"}
  /\ paired \in 0..MaxPairings
  /\ \A c \in Conns : pc[c] \in {"checking", "greeting", "live"} => id[c] # None

\* A revocation that the daemon once had in memory is in its memory whenever it
\* is up: no reload, failed read or restart makes it forget one, neither while
\* it runs nor over any number of crashes.
RevocationsKept ==
  \A i \in Ids : [](i \in mem.revoked => [](Up => i \in mem.revoked))

\* A live session whose client memory knows to be revoked has an unseen value
\* in its watch, or the reload task is about to put one there: between two
\* locks of the reload task no revocation is lost.
RevocationNoticed ==
  \A c \in Conns :
    pc[c] = "live" /\ id[c] \in mem.revoked /\ c \notin late =>
      c \in unseen \/ rel.at = "announce"

\* A pairing on disk is overwritten only while memory has been set back to a
\* state without it: two connections that pair one key at the same time end up
\* with the one client id that a revocation will name.
PairingLostOnlyIfForgotten ==
  [][\A k \in Keys : disk.clients[k] # None /\ disk'.clients[k] # disk.clients[k] =>
       mem.clients[k] # disk.clients[k]]_vars

\* Whatever the order of polls, writes and restarts, memory ends up equal to
\* the files once they are no longer written: last_*_text is older than the
\* tables read after it, so that a stale read is found out by the next poll.
MemoryFollowsDisk == <>[](mem = disk \/ raced \/ rel.at = "down")

\* An announced revocation ends a live session.
RevokedSessionDropped ==
  \A c \in Conns :
    (pc[c] = "live" /\ id[c] \in disk.revoked /\ id[c] \notin mem.revoked)
      ~> (pc[c] # "live" \/ raced)

-----------------------------------------------------------------------------
(* The inductive invariant *)

\* No connection is under way while the daemon is down or opening its files.
DownMeansAlone == ~ Up => \A c \in Conns : pc[c] \in {"new", "closed"}

\* Revocations only accumulate on disk, so what the reload task has read is
\* between memory and disk.
ReadsAreOlder ==
  /\ mem.revoked \subseteq disk.revoked
  /\ rel.at \in {"compare", "replace"} =>
       mem.revoked \subseteq rel.next.revoked /\ rel.next.revoked \subseteq disk.revoked

\* Nothing but the reload task changes the revocations in memory, so what it
\* found out under the read lock still holds under the write lock.
CompareHolds ==
  rel.at = "replace" => (rel.changed <=> mem.revoked # rel.next.revoked)

\* The inductive invariant of the client database, the reload task and the
\* connections: a client past the lookup has an identity, what the reload task
\* read lies between memory and disk, and no revocation goes unnoticed.
AdmissionInv ==
  /\ TypeOK
  /\ DownMeansAlone
  /\ ReadsAreOlder
  /\ CompareHolds
  /\ RevocationNoticed

-----------------------------------------------------------------------------
(* What the tests of the repository say *)

\* tests/revocation_drops.rs: "the daemon drops live sessions whose client_id
\* is revoked".
RevokedDropped ==
  \A c \in Conns : (pc[c] = "live" /\ id[c] \in disk.revoked) ~> (pc[c] # "live")

\* tests/client_db.rs, pair_persists_and_lookup_works: a pairing, once written,
\* is found again.
PairPersists ==
  [][\A k \in Keys : disk.clients[k] # None => disk'.clients[k] = disk.clients[k]]_vars
=============================================================================
