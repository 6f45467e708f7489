----------------------------- MODULE WasmClient -----------------------------
(***************************************************************************)
(* The web client (client-core-wasm lib.rs): one object whose methods run  *)
(* as promises on one thread and hand over at every await.  It keeps the   *)
(* session, the receiver of its events, the key-value store and the        *)
(* identity in cells that a method may find changed after an await;        *)
(* next_event takes the receiver out of its cell while it waits.           *)
(*                                                                         *)
(* The session loop is ClientSession as far as its events and its end go.  *)
(* An identity is its name; the store keeps at most one.                   *)
(***************************************************************************)
EXTENDS Naturals, FiniteSets

CONSTANTS
  Connects,     \* calls of connect
  Imported,     \* the identity of the blob that import_identity is given
  None,
  MaxEvents,    \* bound: events a session emits
  MaxCalls      \* bound: calls of next_event and of the terminal methods

\* A session, and the identity a connect creates, are named after the connect.
VARIABLES
  inner,      \* self.inner
  events,     \* self.events: whose receiver the cell holds
  opened,     \* self.kv is set
  identity,   \* self.identity
  stored,     \* the identity in the store
  pc,         \* Connects -> the await the call is in
  fresh,      \* Connects -> the identity load_or_create returned to it
  loop,       \* Connects -> state of the session started
  unread,     \* Connects -> events in its channel
  used,       \* history: the identity a session was started with
  pump,       \* next_event: what it waits for
  import,     \* import_identity: the await the call is in
  request,    \* a terminal method: the session it waits for
  calls       \* calls so far

cells == <<inner, events, opened, identity>>
vars == <<cells, stored, pc, fresh, loop, unread, used, pump, import, request, calls>>

Init ==
  /\ inner = None /\ events = None /\ opened = FALSE /\ identity = None
  /\ stored = None
  /\ pc = [c \in Connects |-> "idle"] /\ fresh = [c \in Connects |-> None]
  /\ loop = [c \in Connects |-> "none"] /\ unread = [c \in Connects |-> 0]
  /\ used = [c \in Connects |-> None]
  /\ pump = [of |-> None, when |-> None, last |-> "none"]
  /\ import = "idle" /\ request = None /\ calls = 0

\* ClientSession::shutdown sets the flag at once.
Stopped(s) == IF s = None THEN loop ELSE [loop EXCEPT ![s] = IF @ = "ended" THEN @ ELSE "stopping"]

-----------------------------------------------------------------------------
(* connect_inner *)

\* The prior session is taken out and shut down.
ConnectBegins(c) ==
  /\ pc[c] = "idle"
  /\ pc' = [pc EXCEPT ![c] = "prior"]
  /\ inner' = None /\ loop' = Stopped(inner)
  /\ UNCHANGED <<events, opened, identity, stored, fresh, unread, used, pump, import, request, calls>>

\* The receiver is dropped, the config parsed, the store looked up.
ConnectGoesOn(c) ==
  /\ pc[c] = "prior"
  /\ events' = None
  /\ pc' = [pc EXCEPT ![c] = "kv"]
  /\ UNCHANGED <<inner, opened, identity, stored, fresh, loop, unread, used, pump, import, request, calls>>

\* A config that does not parse ends the call.
ConnectRefused(c) ==
  /\ pc[c] = "prior"
  /\ events' = None
  /\ pc' = [pc EXCEPT ![c] = "done"]
  /\ UNCHANGED <<inner, opened, identity, stored, fresh, loop, unread, used, pump, import, request, calls>>

OpensKv(c) ==
  /\ pc[c] = "kv"
  /\ opened' = TRUE
  /\ pc' = [pc EXCEPT ![c] = IF identity # None THEN "start" ELSE "load"]
  /\ fresh' = [fresh EXCEPT ![c] = identity]
  /\ UNCHANGED <<inner, events, identity, stored, loop, unread, used, pump, import, request, calls>>

\* ClientIdentity::load_or_create reads the store ...
LoadIdentity(c) ==
  /\ pc[c] = "load"
  /\ fresh' = [fresh EXCEPT ![c] = IF stored # None THEN stored ELSE c]
  /\ pc' = [pc EXCEPT ![c] = IF stored # None THEN "cache" ELSE "persist"]
  /\ UNCHANGED <<cells, stored, loop, unread, used, pump, import, request, calls>>

\* ... and writes the identity it had to create.
PersistIdentity(c) ==
  /\ pc[c] = "persist"
  /\ stored' = fresh[c]
  /\ pc' = [pc EXCEPT ![c] = "cache"]
  /\ UNCHANGED <<cells, fresh, loop, unread, used, pump, import, request, calls>>

CacheIdentity(c) ==
  /\ pc[c] = "cache"
  /\ identity' = fresh[c]
  /\ pc' = [pc EXCEPT ![c] = "start"]
  /\ UNCHANGED <<inner, events, opened, stored, fresh, loop, unread, used, pump, import, request, calls>>

\* The session is started and both cells are set.
StartSession(c) ==
  /\ pc[c] = "start"
  /\ pc' = [pc EXCEPT ![c] = "done"]
  /\ used' = [used EXCEPT ![c] = fresh[c]]
  /\ loop' = [loop EXCEPT ![c] = "live"]
  /\ inner' = c /\ events' = c
  /\ UNCHANGED <<opened, identity, stored, fresh, unread, pump, import, request, calls>>

-----------------------------------------------------------------------------
(* close, import_identity, next_event and the terminal methods *)

close ==
  /\ inner # None
  /\ loop' = Stopped(inner)
  /\ inner' = None /\ events' = None
  /\ UNCHANGED <<opened, identity, stored, pc, fresh, unread, used, pump, import, request, calls>>

ImportStores ==
  /\ import = "idle"
  /\ opened' = TRUE /\ stored' = Imported
  /\ import' = "stored"
  /\ UNCHANGED <<inner, events, identity, pc, fresh, loop, unread, used, pump, request, calls>>

\* The identity is loaded back and cached.
ImportCaches ==
  /\ import = "stored"
  /\ identity' = stored
  /\ import' = "done"
  /\ UNCHANGED <<inner, events, opened, stored, pc, fresh, loop, unread, used, pump, request, calls>>

\* next_event takes the receiver out of the cell ...
NextEventTakes ==
  /\ pump.of = None /\ events # None /\ calls < MaxCalls
  /\ calls' = calls + 1
  /\ pump' = [of |-> events, when |-> inner, last |-> "none"]
  /\ events' = None
  /\ UNCHANGED <<inner, opened, identity, stored, pc, fresh, loop, unread, used, import, request>>

\* ... and puts it back, with an event or with null.
NextEventReturns ==
  /\ pump.of # None
  /\ \/ /\ unread[pump.of] > 0
        /\ unread' = [unread EXCEPT ![pump.of] = @ - 1]
        /\ pump' = [pump EXCEPT !.of = None, !.last = "event"]
     \/ /\ unread[pump.of] = 0 /\ loop[pump.of] = "ended"
        /\ pump' = [pump EXCEPT !.of = None, !.last = "null"]
        /\ UNCHANGED unread
  /\ events' = pump.of
  /\ UNCHANGED <<inner, opened, identity, stored, pc, fresh, loop, used, import, request, calls>>

\* create_terminal, open_terminal, read_history, list_terminals, the server
\* config, send_input, resize and kill clone the session and await its answer.
RequestBegins ==
  /\ request = None /\ inner # None /\ calls < MaxCalls
  /\ calls' = calls + 1
  /\ request' = inner
  /\ UNCHANGED <<cells, stored, pc, fresh, loop, unread, used, pump, import>>

RequestEnds ==
  /\ request # None
  /\ request' = None
  /\ UNCHANGED <<cells, stored, pc, fresh, loop, unread, used, pump, import, calls>>

-----------------------------------------------------------------------------
(* The session loop *)

SessionEvent(s) ==
  /\ loop[s] = "live" /\ unread[s] < MaxEvents
  /\ unread' = [unread EXCEPT ![s] = @ + 1]
  /\ UNCHANGED <<cells, stored, pc, fresh, loop, used, pump, import, request, calls>>

\* The loop ends when told to, or when nobody holds the session any more.
SessionEnds(s) ==
  /\ loop[s] = "stopping" \/ (loop[s] = "live" /\ inner # s /\ request # s)
  /\ loop' = [loop EXCEPT ![s] = "ended"]
  /\ UNCHANGED <<cells, stored, pc, fresh, unread, used, pump, import, request, calls>>

Next ==
  \/ \E c \in Connects :
       \/ ConnectBegins(c) \/ ConnectGoesOn(c) \/ ConnectRefused(c) \/ OpensKv(c)
       \/ LoadIdentity(c) \/ PersistIdentity(c) \/ CacheIdentity(c) \/ StartSession(c)
       \/ SessionEvent(c) \/ SessionEnds(c)
  \/ close \/ ImportStores \/ ImportCaches
  \/ NextEventTakes \/ NextEventReturns
  \/ RequestBegins \/ RequestEnds

Spec == Init /\ [][Next]_vars

-----------------------------------------------------------------------------
(* Properties *)

\* next_event resolves with null only when the session the caller had at the
\* time of the call has ended (lib.rs:410-413).
NullMeansEnded ==
  pump.last = "null" => pump.when = None \/ loop[pump.when] = "ended"

\* After a successful import a connect that begins then uses the imported
\* identity (lib.rs:422-426).
ImportIsUsed ==
  [][\A c \in Connects : pc[c] = "idle" /\ pc'[c] = "prior" /\ import = "done" => identity = Imported]_vars
=============================================================================
