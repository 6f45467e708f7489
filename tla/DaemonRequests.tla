---------------------------- MODULE DaemonRequests ----------------------------
(***************************************************************************)
(* What the daemon's connections do to the state they share: the session   *)
(* manager (crates/server/daemon-core/src/session.rs), the terminals       *)
(* behind it (pty/src/terminal.rs) and the configuration                   *)
(* (connection.rs, config.rs, service.rs).                                 *)
(*                                                                         *)
(* A connection task handles one frame at a time, but the tasks run in     *)
(* parallel: a handler is cut where it releases a lock that another        *)
(* connection, the reaper or a terminal's waiter thread may then take.     *)
(* Frames that only read the shared state (ListTerminals, ReadHistory,     *)
(* GetServerConfig, Ping) are one kind, "read".  OpenTerminal is in        *)
(* TerminalStream.  SendInput and ResizeTerminal change nothing the        *)
(* connections share but the terminal's PTY, which is no state of this     *)
(* module; the write into it that may block is in RelayDialer.             *)
(***************************************************************************)
EXTENDS Integers, FiniteSets

CONSTANTS
  Conns,         \* connection tasks
  Terminals,     \* terminal ids: how many children are ever spawned (bound)
  MaxTerminals,  \* limits.max_terminals
  Sizes,         \* values of limits.scrollback_bytes a client may ask for
  DefaultSize,   \* the one of the configuration file at first
  MaxCapacity,   \* MAX_CAPACITY_BYTES of the scrollback ring
  MaxCrashes     \* bound: daemon processes that die

ASSUME RequestsAssumption ==
  /\ IsFiniteSet(Conns)
  /\ MaxTerminals \in Nat
  /\ Sizes \subseteq Nat
  /\ DefaultSize \in Sizes
  /\ MaxCapacity \in Nat

NoTerminal == "none"
Torn       == -1       \* a configuration file that does not parse

Requests ==
  [kind : {"create", "read"}]
    \cup [kind : {"kill"}, terminal : Terminals]
    \cup [kind : {"set"}, size : Sizes]

VARIABLES
  conn,        \* per connection, the step of its handler and what it holds
  child,       \* per terminal id, its child process
  registered,  \* the keys of SessionManager's map
  dead,        \* what the reaper collected and has not removed yet
  mem,         \* limits.scrollback_bytes of the shared configuration
  disk,        \* the same in the configuration file
  has_path,    \* config_path of the shared configuration is Some
  crashes,
  acked,       \* history: the last size a client was told is set
  clean,       \* history: every update was saved, alone and in full
  raced        \* history: a creation passed the limit check during another one

vars == <<conn, child, registered, dead, mem, disk, has_path, crashes, acked, clean, raced>>

\* `size` is the scrollback size a create or an update works with.  Whether a
\* reply says Ok or Err is not told apart, except for updates (acked).
At(pc) == [pc |-> pc, terminal |-> NoTerminal, size |-> DefaultSize]
Answer == At("reply")

Updating(c) == conn[c].pc \in {"load", "save", "write", "store"}

-----------------------------------------------------------------------------
(* Starting the daemon *)

\* load_or_create_config: a file that exists is loaded and remembered
\* (config_path); one that does not is written from the template, and then
\* config_path is left None.
Init ==
  /\ conn = [c \in Conns |-> At("none")]
  /\ child = [t \in Terminals |-> "unused"]
  /\ registered = {}
  /\ dead = {}
  /\ mem = DefaultSize
  /\ disk = DefaultSize
  /\ has_path \in BOOLEAN
  /\ crashes = 0
  /\ acked = DefaultSize
  /\ clean = TRUE
  /\ raced = FALSE

\* The daemon dies and is started again (boot): connections, terminals and the shared
\* configuration are gone, the file is loaded.  With a torn file load_from
\* fails and the daemon does not start.  The masters of the PTYs close, which
\* hangs up the children; those that ignore it live on, and the new daemon
\* knows nothing of them ("leaked").
Crash ==
  /\ crashes < MaxCrashes
  /\ disk # Torn
  /\ crashes' = crashes + 1
  /\ conn' = [c \in Conns |-> At("none")]
  /\ \E orphans \in SUBSET {t \in Terminals : child[t] \in {"running", "leaked"}} :
       child' = [t \in Terminals |-> CASE t \in orphans -> "leaked"
                                       [] child[t] = "unused" -> "unused"
                                       [] OTHER -> "flagged"]
  /\ registered' = {}
  /\ dead' = {}
  /\ mem' = disk
  /\ has_path' = TRUE
  /\ clean' = (clean /\ \A c \in Conns : ~Updating(c))
  /\ UNCHANGED <<disk, acked, raced>>

-----------------------------------------------------------------------------
(* The connection task *)

sharedVars == <<child, registered, dead, mem, disk, has_path, crashes, acked, clean, raced>>

Goes(c, to) == conn' = [conn EXCEPT ![c] = to]

\* run_accepted_transport and run_connection_with_handshake start, for a new
\* transport; the handshake is ClientAdmission's.
Begins(c) ==
  /\ conn[c].pc = "none"
  /\ Goes(c, At("hello"))
  /\ UNCHANGED sharedVars

\* The first frame: a Hello is answered with HelloOk.
Hello(c) ==
  /\ conn[c].pc = "hello"
  /\ Goes(c, Answer)
  /\ UNCHANGED sharedVars

\* A Hello of another protocol version, or another frame (answered with Bye):
\* the task ends.
HelloRefused(c) ==
  /\ conn[c].pc = "hello"
  /\ Goes(c, At("none"))
  /\ UNCHANGED sharedVars

\* handle_request, and the replies that need no shared state.
Request(c, req) ==
  /\ conn[c].pc = "idle"
  /\ \/ req.kind = "create" /\ Goes(c, [At("check") EXCEPT !.size = mem])
     \/ req.kind = "kill" /\ Goes(c, [At("lookup") EXCEPT !.terminal = req.terminal])
     \/ req.kind = "set" /\ Goes(c, [At("load") EXCEPT !.size = req.size])
     \/ req.kind = "read" /\ Goes(c, Answer)
  /\ UNCHANGED sharedVars

\* The reply is handed to the transport.
Replied(c) ==
  /\ conn[c].pc = "reply"
  /\ Goes(c, At("idle"))
  /\ UNCHANGED sharedVars

\* The transport closed, a Bye, a revocation or a failed send: between frames
\* or while replying, never inside a handler.
Stops(c) ==
  /\ conn[c].pc \in {"hello", "idle", "reply"}
  /\ Goes(c, At("none"))
  /\ UNCHANGED sharedVars

-----------------------------------------------------------------------------
(* SessionManager::create and Terminal::spawn *)

\* Mutant of HasRoom: `>` for `>=`.
MutHasRoomAtLimit == Cardinality(registered) <= MaxTerminals

HasRoom == Cardinality(registered) < MaxTerminals

\* The limit is checked under a lock that is then released.
CreateChecks(c) ==
  /\ conn[c].pc = "check"
  /\ Goes(c, IF HasRoom THEN [conn[c] EXCEPT !.pc = "spawn"] ELSE Answer)
  /\ raced' = (raced \/ (HasRoom /\ \E d \in Conns : conn[d].pc \in {"spawn", "insert"}))
  /\ UNCHANGED <<child, registered, dead, mem, disk, has_path, crashes, acked, clean>>

\* openpty, the command or its start fails: no child.
SpawnFails(c) ==
  /\ conn[c].pc = "spawn"
  /\ Goes(c, Answer)
  /\ UNCHANGED sharedVars

\* The child runs.  The ring is only built now, and refuses a capacity over
\* its limit: the child is then left to itself ("leaked": nobody waits for it
\* and no entry names it).
Spawn(c, t) ==
  /\ conn[c].pc = "spawn"
  /\ child[t] = "unused"
  /\ IF conn[c].size <= MaxCapacity
     THEN /\ Goes(c, [At("insert") EXCEPT !.terminal = t])
          /\ child' = [child EXCEPT ![t] = "running"]
     ELSE /\ Goes(c, Answer)
          /\ child' = [child EXCEPT ![t] = "leaked"]
  /\ UNCHANGED <<registered, dead, mem, disk, has_path, crashes, acked, clean, raced>>

Inserts(c) ==
  /\ conn[c].pc = "insert"
  /\ registered' = registered \cup {conn[c].terminal}
  /\ Goes(c, Answer)
  /\ UNCHANGED <<child, dead, mem, disk, has_path, crashes, acked, clean, raced>>

-----------------------------------------------------------------------------
(* SessionManager::kill and Terminal::kill *)

\* The entry is looked up; the Arc keeps the terminal after it is removed.
KillLooksUp(c) ==
  /\ conn[c].pc = "lookup"
  /\ Goes(c, IF conn[c].terminal \in registered
             THEN [conn[c] EXCEPT !.pc = "signal"]
             ELSE Answer)
  /\ UNCHANGED sharedVars

\* killer.kill() unless the exited flag is set.  It hangs up the child, which
\* may ignore that; it fails only when the child is gone.
KillSignals(c) ==
  LET t == conn[c].terminal
  IN  /\ conn[c].pc = "signal"
      /\ \/ /\ child[t] = "flagged"
            /\ Goes(c, Answer)
            /\ UNCHANGED child
         \/ /\ child[t] = "running"
            /\ Goes(c, Answer)
            /\ \E fate \in {"running", "gone"} : child' = [child EXCEPT ![t] = fate]
         \/ /\ child[t] = "gone"
            /\ \/ Goes(c, Answer)
               \/ Goes(c, [conn[c] EXCEPT !.pc = "wait"])
            /\ UNCHANGED child
      /\ UNCHANGED <<registered, dead, mem, disk, has_path, crashes, acked, clean, raced>>

\* wait_briefly_for_exit and map_kill_error: the flag comes, or the time is up.
KillWaits(c) ==
  /\ conn[c].pc = "wait"
  /\ Goes(c, Answer)
  /\ UNCHANGED sharedVars

-----------------------------------------------------------------------------
(* Terminals and the reaper *)

\* The child exits of its own accord.  Nobody looks at one that was left to
\* itself.
ChildExits(t) ==
  /\ \/ child[t] = "running" /\ child' = [child EXCEPT ![t] = "gone"]
     \/ child[t] = "leaked" /\ child' = [child EXCEPT ![t] = "flagged"]
  /\ UNCHANGED <<conn, registered, dead, mem, disk, has_path, crashes, acked, clean, raced>>

\* Mutant of Waiter: the flag is not stored.
MutWaiterSilent(t) == FALSE

\* spawn_waiter: child.wait() returned; the exited flag is stored.
Waiter(t) ==
  /\ child[t] = "gone"
  /\ child' = [child EXCEPT ![t] = "flagged"]
  /\ UNCHANGED <<conn, registered, dead, mem, disk, has_path, crashes, acked, clean, raced>>

\* Mutant of ReaperCollects: `is_exited` negated away, every entry is taken.
MutReaperTakesAll ==
  /\ dead = {}
  /\ registered # {}
  /\ dead' = registered
  /\ UNCHANGED <<conn, child, registered, mem, disk, has_path, crashes, acked, clean, raced>>

\* The reaper collects the ids of exited terminals under the lock ...
ReaperCollects ==
  /\ dead = {}
  /\ \E t \in registered : child[t] = "flagged"
  /\ dead' = {t \in registered : child[t] = "flagged"}
  /\ UNCHANGED <<conn, child, registered, mem, disk, has_path, crashes, acked, clean, raced>>

\* ... and removes them when it has taken the lock again.
ReaperRemoves ==
  /\ dead # {}
  /\ registered' = registered \ dead
  /\ dead' = {}
  /\ UNCHANGED <<conn, child, mem, disk, has_path, crashes, acked, clean, raced>>

-----------------------------------------------------------------------------
(* apply_server_config_update *)

\* The configuration is copied under the lock and changed in the copy.  With
\* no config_path nothing is saved.
UpdateLoads(c) ==
  /\ conn[c].pc = "load"
  /\ Goes(c, [conn[c] EXCEPT !.pc = IF has_path THEN "save" ELSE "store"])
  /\ clean' = (clean /\ has_path /\ \A d \in Conns \ {c} : ~Updating(d))
  /\ UNCHANGED <<child, registered, dead, mem, disk, has_path, crashes, acked, raced>>

\* save_to: the file is opened and truncated.
SaveTruncates(c) ==
  /\ conn[c].pc = "save"
  /\ Goes(c, [conn[c] EXCEPT !.pc = "write"])
  /\ disk' = Torn
  /\ UNCHANGED <<child, registered, dead, mem, has_path, crashes, acked, clean, raced>>

\* The text is written.  Two writers of one file may leave a mix.
SaveWrites(c) ==
  /\ conn[c].pc = "write"
  /\ Goes(c, [conn[c] EXCEPT !.pc = "store"])
  /\ disk' \in {conn[c].size}
       \cup (IF \E d \in Conns \ {c} : conn[d].pc \in {"write", "store"} THEN {Torn} ELSE {})
  /\ UNCHANGED <<child, registered, dead, mem, has_path, crashes, acked, clean, raced>>

\* Mutant of SaveFails: memory keeps the size that could not be saved.
MutFailedSaveKept(c) ==
  /\ conn[c].pc \in {"save", "write"}
  /\ Goes(c, Answer)
  /\ mem' = conn[c].size
  /\ clean' = (clean /\ conn[c].pc = "save")
  /\ UNCHANGED <<child, registered, dead, disk, has_path, crashes, acked, raced>>

\* save_to fails: before it opened the file, or while writing it.  The shared
\* configuration is not changed.
SaveFails(c) ==
  /\ conn[c].pc \in {"save", "write"}
  /\ Goes(c, Answer)
  /\ clean' = (clean /\ conn[c].pc = "save")
  /\ UNCHANGED <<child, registered, dead, mem, disk, has_path, crashes, acked, raced>>

UpdateStores(c) ==
  /\ conn[c].pc = "store"
  /\ Goes(c, Answer)
  /\ mem' = conn[c].size
  /\ acked' = conn[c].size
  /\ UNCHANGED <<child, registered, dead, disk, has_path, crashes, clean, raced>>

-----------------------------------------------------------------------------
\* The steps inside a handler.
Handler(c) ==
  \/ CreateChecks(c)
  \/ SpawnFails(c)
  \/ \E t \in Terminals : Spawn(c, t)
  \/ Inserts(c)
  \/ KillLooksUp(c)
  \/ KillSignals(c)
  \/ KillWaits(c)
  \/ UpdateLoads(c)
  \/ SaveTruncates(c)
  \/ SaveWrites(c)
  \/ SaveFails(c)
  \/ UpdateStores(c)

Reaper == ReaperCollects \/ ReaperRemoves

Next ==
  \/ \E c \in Conns :
       \/ Begins(c)
       \/ Hello(c)
       \/ HelloRefused(c)
       \/ \E req \in Requests : Request(c, req)
       \/ Replied(c)
       \/ Stops(c)
       \/ Handler(c)
  \/ \E t \in Terminals : ChildExits(t) \/ Waiter(t)
  \/ Reaper
  \/ Crash

\* Handlers, waiter threads and the reaper run; clients and children need not.
\* Terminal::spawn ignores it when no waiter thread can be started; WF(Waiter)
\* assumes that one was.
Fairness ==
  /\ \A c \in Conns : WF_vars(Handler(c))
  /\ \A t \in Terminals : WF_vars(Waiter(t))
  /\ WF_vars(Reaper)

Spec == Init /\ [][Next]_vars /\ Fairness

-----------------------------------------------------------------------------
(* Properties *)

\* A terminal whose child runs is known to the session manager, so that it can
\* be listed, opened and killed, or its creator is about to register it: no
\* interleaving of creations, kills and the reaper loses a running child.  The
\* children of a daemon that died, and of a spawn that failed over its ring,
\* are nobody's.
NoLostTerminal ==
  \A t \in Terminals :
    child[t] = "running" =>
      \/ t \in registered \ dead
      \/ \E c \in Conns : conn[c].pc = "insert" /\ conn[c].terminal = t

\* The limit is checked and used in two critical sections.  The session
\* manager goes over it only when creations on two connections overlap, and
\* then by less than the number of connections.
LimitOvershoot ==
  Cardinality(registered) <= MaxTerminals + (IF raced THEN Cardinality(Conns) - 1 ELSE 0)

\* While updates neither overlap nor are cut short, and the daemon knows its
\* file, the configuration in use is the one in the file, also after a crash
\* and restart or a failed save, and the one the last client was told of.
ConfigSurvives ==
  (clean /\ \A c \in Conns : ~Updating(c)) => mem = disk /\ mem = acked

\* A terminal whose child is gone leaves the session manager.
ExitedReaped ==
  \A t \in Terminals :
    (child[t] = "gone" /\ t \in registered) ~> (t \notin registered)

\* "max_terminals caps the number of concurrently alive terminals."
AliveWithinCap ==
  Cardinality({t \in Terminals : child[t] \in {"running", "leaked"}}) <= MaxTerminals
=============================================================================
