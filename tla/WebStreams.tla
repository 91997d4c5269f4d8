----------------------------- MODULE WebStreams ------------------------------
(* Long answers of the web process: server-sent events, which keep the       *)
(* spectrum lease of the media service alive, and file transfers. A tick is a *)
(* second, in which every stream that waits goes round at least once.         *)
EXTENDS WebAccount

CONSTANTS
  Stream,                      \* threads with a long answer
  SseSlots, DownloadSlots,
  LeaseSeconds, RenewSeconds,  \* LEASE_SECONDS of the media service, SPECTRUM_LEASE_RENEW_SECONDS
  Chunks                       \* reads of a transfer

ASSUME StreamsAssumption ==
  /\ IsFiniteSet(Stream) /\ None \notin Stream
  /\ {SseSlots, DownloadSlots, LeaseSeconds, RenewSeconds, Chunks} \subseteq Nat \ {0}

VARIABLES
  stream,
  leaseLock,  \* who holds _sse_lease_lock
  clients,    \* _sse_clients
  renewIn,    \* seconds to _spectrum_renew_at
  lease,      \* seconds the media service will still measure for
  stray,      \* lease requests that timed out and are yet to be executed
  calm        \* seconds without a failed, slow or late request

streamVars == <<stream, leaseLock, clients, renewIn, lease, stray, calm>>

(* seen: an event was written, so that the browser shows something.          *)
Quiet == [kind |-> "events", step |-> "idle", token |-> 0, age |-> 0, after |-> 0, left |-> 0,
          seen |-> FALSE]
StreamState ==
  [kind: {"events", "file"},
   step: {"idle", "enter", "force", "loop", "due", "renew", "send", "leave", "release",
          "info", "chunk", "read"},
   token: Nat, age: 0 .. LeaseSeconds, after: Nat, left: 0 .. Chunks, seen: BOOLEAN]

Slots(kind) == IF kind = "events" THEN SseSlots ELSE DownloadSlots
In(s, step) == Up /\ stream[s].step = step
Turn(s, step) == stream' = [stream EXCEPT ![s].step = step]
Over(s) == stream' = [stream EXCEPT ![s] = Quiet]
Alone == UNCHANGED <<handler, lock, memory, web, directory, passwd, unannounced, minted, windows, scenario>>
Unleased == UNCHANGED <<leaseLock, clients, renewIn, lease, stray, calm>>

(* GET /api/events or /api/storage/file: a session, and a slot, at once.     *)
Open(s) ==
  /\ In(s, "idle") /\ memory # NoRecord
  /\ Spend("requests", scenario.budget)
  /\ \E t \in 1 .. minted, k \in scenario.streams :
       /\ sessions' = Used(t)
       /\ stream' = IF ~Holds(t) \/ Cardinality({o \in Stream : stream[o].step # "idle" /\ stream[o].kind = k}) >= Slots(k)
                    THEN stream
                    ELSE [stream EXCEPT ![s] = [Quiet EXCEPT !.kind = k, !.token = t,
                                                  !.step = IF k = "events" THEN "enter" ELSE "info"]]
  /\ Unleased /\ Alone

(* acquire_sse_client: the first asks for the lease under the lock.          *)
Enter(s) ==
  /\ In(s, "enter") /\ leaseLock = None
  /\ clients' = clients + 1
  /\ IF clients = 0 THEN leaseLock' = s /\ Turn(s, "force") ELSE UNCHANGED leaseLock /\ Turn(s, "loop")
  /\ UNCHANGED <<renewIn, lease, stray, calm, sessions, spent>> /\ Alone

(* media_request, whatever comes of it: done; refused or not reached; timed   *)
(* out here and done later.                                                   *)
Executed(request) == IF request = "lease" THEN LeaseSeconds ELSE 0
Asks(request) ==
  \/ lease' = Executed(request) /\ UNCHANGED <<stray, calm, spent>>
  \/ /\ Spend("failures", scenario.failures) /\ calm' = 0 /\ UNCHANGED lease
     /\ stray' \in {stray, stray \cup {request}}

(* _renew_spectrum_locked, forced or due: an answer or none, the next is due *)
(* two seconds later.                                                        *)
LeaseAsked(s) ==
  /\ In(s, "force") \/ In(s, "renew")
  /\ Asks("lease")
  /\ renewIn' = RenewSeconds /\ leaseLock' = None
  /\ Turn(s, IF stream[s].step = "force" THEN "loop" ELSE "send")
  /\ UNCHANGED <<clients, sessions>> /\ Alone

(* A request that timed out reaches its turn in the media service.           *)
StrayExecuted ==
  /\ \E r \in stray : lease' = Executed(r) /\ stray' = stray \ {r}
  /\ calm' = 0
  /\ UNCHANGED <<stream, leaseLock, clients, renewIn, sessions, spent>> /\ Alone

(* Fault: it was looked up when the stream was opened.                       *)
AuthorizedOnce(s) == TRUE

(* Each round begins with the session: it is looked up again.                *)
Authorized(s) == Holds(stream[s].token)

Loop(s) ==
  /\ In(s, "loop")
  /\ sessions' = Used(stream[s].token)
  /\ Turn(s, IF Authorized(s) THEN "due" ELSE "leave")
  /\ Unleased /\ UNCHANGED spent /\ Alone

Renew(s) ==
  /\ In(s, "due") /\ leaseLock = None
  /\ IF renewIn > 0 THEN UNCHANGED leaseLock /\ Turn(s, "send")
     ELSE leaseLock' = s /\ Turn(s, "renew")
  /\ UNCHANGED <<clients, renewIn, lease, stray, calm, sessions, spent>> /\ Alone

(* The status or the telemetry is asked for and written, or the browser is   *)
(* gone; then a wait.                                                        *)
Counted(s) == IF Holds(stream[s].token) THEN 0 ELSE stream[s].after + 1
Send(s) ==
  /\ In(s, "send")
  /\ \/ stream' = [stream EXCEPT ![s].step = "loop", ![s].age = 0, ![s].after = Counted(s),
                                     ![s].seen = TRUE]
     \/ Turn(s, "leave")
  /\ Unleased /\ UNCHANGED <<sessions, spent>> /\ Alone

(* Fault: whoever leaves gives it back.                                      *)
LastOneAny == clients > 0

(* release_sse_client: the last gives the lease back, under the lock.        *)
LastOne == clients = 1

Leave(s) ==
  /\ In(s, "leave") /\ leaseLock = None
  /\ clients' = clients - 1
  /\ IF LastOne THEN renewIn' = 0 /\ leaseLock' = s /\ Turn(s, "release")
     ELSE UNCHANGED <<renewIn, leaseLock>> /\ Over(s)
  /\ UNCHANGED <<lease, stray, calm, sessions, spent>> /\ Alone

LeaseReleased(s) ==
  /\ In(s, "release") /\ Asks("release")
  /\ leaseLock' = None /\ Over(s)
  /\ UNCHANGED <<clients, renewIn, sessions>> /\ Alone

(* _storage_file: the file is described, then read and written chunk by      *)
(* chunk, each with a look at the session. A file that changed ends it.      *)
Transfer(s) ==
  /\ \/ In(s, "info") /\ stream' \in {[stream EXCEPT ![s].step = "chunk", ![s].left = Chunks],
                                      [stream EXCEPT ![s] = Quiet]}
        /\ UNCHANGED sessions
     \/ In(s, "chunk") /\ sessions' = Used(stream[s].token)
        /\ IF Authorized(s) THEN Turn(s, "read") ELSE Over(s)
     \/ /\ In(s, "read") /\ UNCHANGED sessions
        /\ \/ Over(s)
           \/ stream' = IF stream[s].left = 1 THEN [stream EXCEPT ![s] = [Quiet EXCEPT !.after = Counted(s)]]
                        ELSE [stream EXCEPT ![s].step = "chunk", ![s].left = @ - 1, ![s].after = Counted(s)]
  /\ Unleased /\ UNCHANGED spent /\ Alone

(* A second. A stream between two rounds has gone round since the last one;  *)
(* one that is kept in its round for more than a second makes a slow second. *)
Watching(s) == stream[s].kind = "events" /\ stream[s].step \notin {"idle", "leave", "release"}
Slow == \E s \in Stream : stream[s].step # "idle" /\ stream[s].age > 0

Second ==
  /\ scenario.seconds
  /\ \A s \in Stream : In(s, "loop") => stream[s].age = 0
  /\ stream' = [s \in Stream |-> IF Watching(s) \/ stream[s].step \in {"leave", "release"}
                                 THEN [stream[s] EXCEPT !.age = Min({LeaseSeconds, @ + 1})] ELSE stream[s]]
  /\ lease' = Passed(lease) /\ renewIn' = Passed(renewIn)
  /\ calm' = IF Slow THEN 0 ELSE Min({LeaseSeconds, calm + 1})
  /\ UNCHANGED <<leaseLock, clients, stray, sessions, spent>> /\ Alone

StreamsGone ==
  /\ stream' = [s \in Stream |-> Quiet] /\ leaseLock' = None /\ clients' = 0 /\ renewIn' = 0
  /\ UNCHANGED <<lease, stray, calm>>

StreamsInit ==
  /\ stream = [s \in Stream |-> Quiet] /\ leaseLock = None /\ clients = 0
  /\ renewIn = 0 /\ lease = 0 /\ stray = {} /\ calm = LeaseSeconds

StreamStep ==
  \/ \E s \in Stream :
       \/ Open(s) \/ Enter(s) \/ LeaseAsked(s) \/ Loop(s) \/ Renew(s) \/ Send(s)
       \/ Leave(s) \/ LeaseReleased(s) \/ Transfer(s)
  \/ StrayExecuted
  \/ Second

StreamsTypeOK ==
  /\ stream \in [Stream -> StreamState]
  /\ leaseLock \in Stream \cup {None}
  /\ clients \in 0 .. SseSlots
  /\ renewIn \in 0 .. RenewSeconds /\ lease \in 0 .. LeaseSeconds
  /\ stray \subseteq {"lease", "release"} /\ calm \in 0 .. LeaseSeconds

(* Clients are counted exactly while they are between entering and leaving.  *)
ClientsCounted ==
  clients = Cardinality({s \in Stream : stream[s].kind = "events"
                           /\ stream[s].step \notin {"idle", "enter", "release"}})
=============================================================================
