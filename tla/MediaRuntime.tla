---------------------------- MODULE MediaRuntime ----------------------------
(***************************************************************************)
(* The media runtime (src/tinypirelay/media_runtime.py) between the        *)
(* reducer of MediaState and the engine of MediaEngine, both of which it   *)
(* composes: commands, results, timers and engine events become work; work *)
(* becomes events of the reducer; the reducer's effects become calls of    *)
(* the engine, whose events come back through idle sources of the owner.   *)
(*                                                                         *)
(* Threads: the owner (GLib) thread runs idle sources, bus messages and    *)
(* timers one at a time. Whoever finds the work queue unattended drains    *)
(* it. A draining owner calls the engine at once; a draining control       *)
(* thread can only queue the call as an idle source, and meanwhile the     *)
(* owner goes on.                                                          *)
(*                                                                         *)
(* Abstracted: telemetry values, elapsed times and messages; paths (a      *)
(* recording's file is the token of its branch); the locking of the queue, *)
(* which is MediaQueue's. A configuration is the settings a running media  *)
(* service can change, and stands for its own revision. Results nobody     *)
(* acts on are not queued. A timer is armed or not; how long it takes is   *)
(* left open.                                                              *)
(***************************************************************************)
EXTENDS Naturals, Sequences, FiniteSets

CONSTANTS
  None,            (* Python's None                                         *)
  Bitrate,         (* OPUS_BITRATES_BPS                                     *)
  Folder,          (* what the recording settings of a configuration may be *)
  StorageFault,    (* the storage statuses other than "safe"                *)
  MaxCommands,     (* bound: commands dispatched                            *)
  MaxBranch,       (* bound: branches ever added                            *)
  Scenarios        (* what the behaviours explored consist of               *)

(* A scenario names the commands and their number, the bitrates and folders *)
(* they ask for, the kinds of trouble and their number, the timers that may *)
(* become due, whether adding the level analyzer succeeds, whether an audio *)
(* mode was chosen, whether a receiver ever accepts the caller, and how     *)
(* many branches there may be.                                              *)
Scenario ==
  [commands : SUBSET {"capture.start", "capture.stop", "stream.start",
                      "stream.stop", "stream.set_opus_bitrate",
                      "recording.start", "recording.stop", "lease.renew",
                      "lease.release", "capture.restart", "config.update",
                      "service.shutdown"},
   bitrates : SUBSET Bitrate, folders : SUBSET Folder, dispatched : 0..MaxCommands,
   troubles : SUBSET {"call", "device", "branch", "sink", "caller", "overrun",
                      "drain", "storage", "wait"},
   troubled : Nat, timers : SUBSET {"attempt", "storage", "rotation", "stats"},
   level : SUBSET BOOLEAN, mode : BOOLEAN, receiver : BOOLEAN, branches : 0..MaxBranch]

(* A configuration, as far as it can change without a restart.              *)
Settings == [bitrate : Bitrate, folder : Folder]

ASSUME RuntimeAssumption ==
  /\ {MaxCommands, MaxBranch} \subseteq Nat
  /\ None \notin Nat \cup Settings
  /\ Bitrate \subseteq Nat \ {0}
  /\ StorageFault \subseteq {"unsafe", "unavailable", "unverified"}
  /\ \A s \in Scenarios : s \in Scenario /\ s.bitrates # {} /\ s.folders # {}

VARIABLES
  media,           (* MediaRuntime._state, a record of MediaState           *)
  effects,         (* the effects of the last decision                      *)
  runtime,         (* MediaRuntime's own fields, below                      *)
  engine,          (* the engine, a record of MediaEngine                   *)
  queue,           (* MediaRuntime._queue                                   *)
  drainer,         (* who drains it: none, the owner or a control thread    *)
  idle,            (* the idle sources of the owner's context, in order     *)
  left,            (* what is left of the bounds on commands and troubles   *)
  scenario         (* the scenario, fixed from the start                    *)

vars == <<media, effects, runtime, engine, queue, drainer, idle, left, scenario>>

S == INSTANCE MediaState WITH
       Revision <- Settings, File <- 1..MaxBranch, MaxCapture <- MaxCommands,
       MaxStream <- MaxCommands, MaxRecording <- MaxCommands,
       MaxReconnect <- MaxBranch

E == INSTANCE MediaEngine WITH
       posted <- <<>>, callbacks <- <<>>, Scenarios <- {}, MaxCapture <- MaxCommands

Scope == {"stream", "recording"}
NoMapping == [backend |-> 0, desired |-> 0]
NoAttempt == [generation |-> 0, instance |-> 0]

FirstSettings ==
  [bitrate |-> CHOOSE b \in scenario.bitrates : TRUE,
   folder |-> CHOOSE f \in scenario.folders : TRUE]

(* An update is at one of its calls of the engine, and what came of it is   *)
(* pending, done or failed.                                                 *)
NoUpdate == [stage |-> "none"]
UpdateStage == {"config", "bitrate", "undo_bitrate", "undo_config"}

(* What goes as the code does not provide for, read by properties only: a   *)
(* call of the owner overtook one deferred before it; a wait for the        *)
(* analyzer was given up; the report that it could not be attached came     *)
(* when it had been attached after all; an update could not be undone.      *)
Amiss == {"overtaken", "unheard", "reported_late", "not_undone"}

InitialRuntime ==
  [mapping |-> [k \in Scope |-> NoMapping],    (* _backend_generations      *)
   instance |-> [k \in Scope |-> 0],           (* _backend_instance_tokens  *)
   retiring |-> {},                        (* _retiring_instance_tokens     *)
   paths |-> {},                           (* _recording_paths              *)
   timeout |-> NoAttempt,                  (* _connection_timeout_pending   *)
   attempt |-> NoAttempt, attempt_due |-> FALSE,      (* the watchdog       *)
   reconnect |-> 0,           (* generation the retry timer is armed for    *)
   storage |-> None,          (* generation the storage timer is armed for  *)
   rotation |-> FALSE,        (* the rotation timer is armed                *)
   stats_inflight |-> FALSE,
   lease |-> "none",          (* the lease timer: none, armed or due        *)
   spectrum |-> FALSE,        (* _spectrum_backend_active                   *)
   awaiting |-> FALSE,        (* the drainer waits in _wait_backend         *)
   config |-> FirstSettings,  (* _config and _config_revision               *)
   applied |-> FirstSettings, (* the _config of the engine                  *)
   update |-> NoUpdate,       (* where _process_config_update is            *)
   amiss |-> {},              (* history, below                             *)
   started |-> FALSE]         (* the service has just seen capture started  *)

(* The world the operators below transform, and the step that makes it the  *)
(* next state. Work makes the thread that queued it the drainer if there is *)
(* none; a drainer leaves the empty queue unless it is in the middle of a   *)
(* piece of work, waiting for a call.                                       *)
Now == [media |-> media, effects |-> effects, runtime |-> runtime,
        engine |-> engine, queue |-> queue, idle |-> idle]

Midway(w) == w.runtime.awaiting \/ w.runtime.update # NoUpdate

Become(w, by) ==
  /\ media' = w.media /\ effects' = w.effects /\ runtime' = w.runtime
  /\ engine' = w.engine /\ queue' = w.queue /\ idle' = w.idle
  /\ drainer' = IF w.queue = <<>> /\ ~Midway(w) THEN "none"
                ELSE IF drainer = "none" THEN by ELSE drainer

Enqueue(w, work) == [w EXCEPT !.queue = Append(@, work)]
StateWork(event, waiter) == [kind |-> "state", event |-> event, waiter |-> waiter]
Post(w, event) == Enqueue(w, StateWork(event, "none"))
Event(name, g) == [name |-> name, generation |-> g]
Lost(g) == [name |-> "connection.lost", generation |-> g, retryable |-> TRUE]
Opened(g, t) == [name |-> "recording.fragment_opened", generation |-> g, path |-> t]
Closed(g, t) == [name |-> "recording.fragment_closed", generation |-> g, path |-> t]
StorageChecked(g, status) ==
  [name |-> "recording.storage_checked", generation |-> g, storage_status |-> status]

(* A timer cancelled after it became due leaves work that does nothing.     *)
Stale(works, kind) ==
  [i \in DOMAIN works |-> IF works[i].kind = kind
                            THEN [works[i] EXCEPT !.live = FALSE] ELSE works[i]]

(* The engine after an operation, its events queued for the owner (_emit).  *)
Operated(w, e) ==
  [w EXCEPT !.engine = [e EXCEPT !.out = <<>>],
            !.idle = @ \o [i \in DOMAIN e.out |-> [src |-> "event", event |-> e.out[i]]]]

-----------------------------------------------------------------------------
(* Branch instances.                                                        *)

IsCurrent(w, scope, t) ==
  /\ t # 0 /\ w.runtime.instance[scope] = t
  /\ <<scope, t>> \notin w.runtime.retiring

(* 0 for an event of a generation that is not the reducer's.                *)
Translate(w, scope, g) ==
  IF scope \in Scope /\ w.runtime.mapping[scope] # NoMapping
    THEN IF w.runtime.mapping[scope].backend = g
           THEN w.runtime.mapping[scope].desired ELSE 0
    ELSE IF w.media[scope].generation = g THEN g ELSE 0

-----------------------------------------------------------------------------
(* Timers.                                                                  *)

Connecting(s) ==
  /\ s.service = "running" /\ s.stream.state \in S!Live
  /\ s.connection.state = "connecting"

CancelAttempt(w) ==
  [w EXCEPT !.runtime = [@ EXCEPT !.attempt = NoAttempt, !.attempt_due = FALSE],
            !.queue = Stale(@, "attempt_timeout")]

CancelLease(w) ==
  [w EXCEPT !.runtime.lease = "none", !.queue = Stale(@, "lease_expired")]

SyncAttempt(w) ==
  LET t == w.runtime.instance["stream"]
      cancelled == CancelAttempt(w)
  IN  IF Connecting(w.media) /\ IsCurrent(w, "stream", t)
        THEN IF w.runtime.attempt # NoAttempt THEN w
             ELSE [w EXCEPT !.runtime.attempt =
                     [generation |-> w.media.stream.generation, instance |-> t]]
      ELSE IF Connecting(w.media) THEN cancelled
      ELSE [cancelled EXCEPT !.runtime.timeout = NoAttempt]

CancelAll(w) ==
  LET cancelled == CancelLease(CancelAttempt(w))
  IN  [cancelled EXCEPT !.runtime =
         [@ EXCEPT !.timeout = NoAttempt, !.reconnect = 0, !.storage = None,
                   !.rotation = FALSE, !.spectrum = FALSE]]

(* The statistics timer is armed exactly while service and capture run and  *)
(* no poll is in flight, so it has no field of its own.                     *)
SyncTimers(w) ==
  LET synced == SyncAttempt(w)
      r == w.media.recording
  IN  IF w.media.service # "running" THEN CancelAll(w)
      ELSE [synced EXCEPT
              !.runtime.reconnect = IF w.media.connection.state = "retry_wait" THEN @ ELSE 0,
              !.runtime.storage = IF r.state \notin {"running", "blocked"} THEN None
                                  ELSE IF @ = None THEN r.generation ELSE @,
              !.runtime.rotation = r.state = "running" /\ ~r.rotation_pending]

Forget(w, scope) ==
  [w EXCEPT !.runtime.mapping[scope] = NoMapping, !.runtime.instance[scope] = 0,
            !.runtime.retiring = {m \in @ : m[1] # scope}]

(* _clear_stopped_generation_mappings                                       *)
ClearStopped(w) ==
  LET streamless == IF w.media.stream.state \in {"stopped", "failed"}
                      THEN Forget(w, "stream") ELSE w
  IN  IF w.media.recording.state \in {"stopped", "blocked", "failed"}
        THEN Forget(streamless, "recording") ELSE streamless

-----------------------------------------------------------------------------
(* Calls of the engine. An outcome o says whether elements could be made    *)
(* and started and what the storage check found; past the bound on branches *)
(* none can be added.                                                       *)

Added(e, o) == o.added /\ Len(e.branches) < scenario.branches
ActiveOf(e, kind, g) ==
  e.active[kind] # 0 /\ e.branches[e.active[kind]].generation = g

Answer(e, raised, value) == [engine |-> e, raised |-> raised, value |-> value]

AnswerTo(e, c, o) ==
  LET g == c.generation
      added == Added(e, o)
      recorder == e.active["recording"]
  IN
  CASE c.effect = "capture.start" ->
         Answer(E!StartCapture(e, o.plays, o.level /\ Len(e.branches) < scenario.branches),
                ~e.pipeline /\ ~o.plays, 0)
    [] c.effect = "capture.stop" -> Answer(E!StopCapture(e), FALSE, 0)
    [] c.effect \in {"stream.start", "connection.connect"} ->
         IF ~e.pipeline THEN Answer(e, TRUE, 0)
         ELSE Answer(E!StartStream(e, g, added),
                     ~added /\ ~ActiveOf(e, "stream", g), g)
    [] c.effect = "stream.stop" -> Answer(E!StopStream(e, g), FALSE, 0)
    [] c.effect = "connection.timeout_stop" ->
         Answer(E!AbortStreamAttempt(e, g),
                e.active["stream"] # 0 /\ ~ActiveOf(e, "stream", g), 0)
    [] c.effect = "stream.set_opus_bitrate" ->
         Answer(IF o.added THEN E!SetBitrate(e, c.bitrate) ELSE e,
                e.active["stream"] = 0 \/ ~o.added, c.bitrate)
    [] c.effect = "recording.start" ->
         IF ~e.pipeline THEN Answer(e, TRUE, 0)
         ELSE Answer(E!StartRecording(e, g, added), recorder = 0 /\ ~added,
                     IF recorder # 0 THEN e.branches[recorder].generation ELSE g)
    [] c.effect = "recording.stop" -> Answer(E!StopRecording(e, g), FALSE, 0)
    [] c.effect = "recording.rotate" ->
         Answer(IF e.pipeline THEN E!RotateRecording(e, g, added) ELSE e,
                ~e.pipeline \/ recorder = 0 \/ ~added, g)
    [] c.effect = "service.stop" -> Answer(E!Shutdown(e), FALSE, 0)

(* The calls whose result is acted on.                                      *)
Answered == {"stream.start", "connection.connect", "recording.start",
             "recording.rotate", "stream.set_opus_bitrate"}

Call(w, c, o) ==
  LET a == AnswerTo(w.engine, c, o)
      after == Operated(w, a.engine)
      work(kind) == [kind |-> kind, effect |-> c.effect,
                     generation |-> c.generation, value |-> a.value]
  IN  IF a.raised THEN Enqueue(after, work("failure"))
      ELSE IF c.effect \in Answered THEN Enqueue(after, work("result")) ELSE after

Invoke(w, by, o, effect, g) ==
  LET c == [src |-> "call", effect |-> effect, generation |-> g,
            bitrate |-> w.media.stream.pending_opus_bitrate_bps]
  IN  IF by = "owner" THEN Call(w, c, o) ELSE [w EXCEPT !.idle = Append(@, c)]

GenerationFor(s, effect) ==
  CASE effect = "service.stop" -> 0
    [] effect \in {"capture.start", "capture.stop"} -> s.capture.generation
    [] effect \in {"recording.start", "recording.stop", "recording.rotate"} ->
         s.recording.generation
    [] OTHER -> s.stream.generation

DispatchEffect(w, by, o, effect) ==
  CASE effect = "connection.schedule_retry" ->
         [w EXCEPT !.runtime.reconnect = w.media.stream.generation]
    [] effect = "connection.cancel_retry" -> [w EXCEPT !.runtime.reconnect = 0]
    [] OTHER -> Invoke(IF effect = "service.stop" THEN CancelAll(w) ELSE w, by, o, effect,
                       GenerationFor(w.media, effect))

(* The effects of a decision, one after the other.                          *)
Dispatched(w, effs, by, o) ==
  LET after[i \in 0..Len(effs)] ==
        IF i = 0 THEN w ELSE DispatchEffect(after[i - 1], by, o, effs[i])
  IN  after[Len(effs)]

-----------------------------------------------------------------------------
(* The work.                                                                *)

(* A rotation over a destination that is no longer safe becomes the check   *)
(* that found it so.                                                        *)
Given(w, event, o) ==
  LET r == w.media.recording IN
  IF event.name = "recording.start" THEN [event EXCEPT !.storage_status = o.storage]
  ELSE IF /\ event.name = "recording.rotate" /\ o.storage # "safe"
          /\ r.state = "running" /\ ~r.rotation_pending
    THEN StorageChecked(r.generation, o.storage)
  ELSE event

(* Capture cannot start before the audio was set up (audio_setup_required). *)
Unprepared(w, event) ==
  event.name = "capture.start" /\ w.media.service = "running" /\ ~scenario.mode

ApplyStateEvent(w, event, by, o) ==
  LET d == S!Reduce(w.media, Given(w, event, o))
      decided == [w EXCEPT !.media = d.state, !.effects = d.effects]
  IN  IF Unprepared(w, event) THEN w
      ELSE ClearStopped(SyncTimers(Dispatched(decided, d.effects, by, o)))

BitrateFailed(g, bps) ==
  [name |-> "stream.opus_bitrate_failed", generation |-> g, bitrate_bps |-> bps]
BitrateApplied(g, bps) ==
  [name |-> "stream.opus_bitrate_applied", generation |-> g, bitrate_bps |-> bps]

ProcessResult(w, work) ==
  LET pending == w.media.stream.pending_opus_bitrate_bps
      scope == IF work.effect \in {"recording.start", "recording.rotate"}
                 THEN "recording" ELSE "stream"
  IN  IF work.effect # "stream.set_opus_bitrate"
        THEN [w EXCEPT !.runtime.mapping[scope] =
                [backend |-> work.value, desired |-> work.generation]]
      ELSE IF pending = 0 THEN w
      ELSE IF work.value = pending
        THEN Post(w, BitrateApplied(work.generation, pending))
      ELSE Post(w, BitrateFailed(work.generation, pending))

ProcessFailure(w, work) ==
  LET g == work.generation
      pending == w.media.stream.pending_opus_bitrate_bps
      timeout == w.runtime.timeout
      unmarked == IF timeout = NoAttempt \/ timeout.generation # g THEN w
                  ELSE [w EXCEPT !.runtime.timeout = NoAttempt,
                                 !.runtime.retiring = @ \ {<<"stream", timeout.instance>>}]
  IN  CASE work.effect = "capture.start" -> Post(w, Event("capture.failed", g))
        [] work.effect = "connection.timeout_stop" -> Post(unmarked, Lost(g))
        [] work.effect = "connection.connect" -> Post(w, Lost(g))
        [] work.effect = "stream.set_opus_bitrate" ->
             IF pending = 0 THEN w ELSE Post(w, BitrateFailed(g, pending))
        [] work.effect = "stream.start" -> Post(w, Event("stream.failed", g))
        [] OTHER -> Post(w, Event("recording.failed", g))

(* Fault: a fragment is listed only once its recording runs.                *)
BranchCreatedUnlisted(w, scope, t, g) ==
  LET fresh == [w EXCEPT !.runtime.instance[scope] = t]
      listed == [fresh EXCEPT !.runtime.paths = @ \cup {t}]
  IN  IF scope = "stream" THEN SyncAttempt(fresh)
      ELSE IF w.media.recording.state \in {"running", "stopping"}
        THEN Post(listed, Opened(g, t)) ELSE fresh

(* _replace_instance_token, and the file of a recording.                    *)
BranchCreated(w, scope, t, g) ==
  LET old == w.runtime.instance[scope]
      retired == IF old \in {0, t} THEN {} ELSE {<<scope, old>>}
      replaced == [w EXCEPT !.runtime.instance[scope] = t,
                            !.runtime.retiring = (@ \cup retired) \ {<<scope, t>>}]
      fresh == IF old = t THEN replaced
               ELSE [CancelAttempt(replaced) EXCEPT !.runtime.timeout = NoAttempt]
      listed == [replaced EXCEPT !.runtime.paths = @ \cup {t}]
  IN  IF scope = "stream" THEN SyncAttempt(fresh)
      ELSE IF w.media.recording.state \in {"running", "stopping"}
        THEN Post(listed, Opened(g, t)) ELSE listed

BranchAdded(w, scope, t, g) ==
  IF ~IsCurrent(w, scope, t) THEN w
  ELSE IF scope = "stream" THEN Post(w, Event("stream.started", g))
  ELSE Post(Post(w, Event("recording.started", g)), Opened(g, t))

(* _consume_connection_timeout_ack                                          *)
AnswersTimeout(w, scope, t, g) ==
  /\ scope = "stream" /\ w.runtime.timeout # NoAttempt
  /\ w.runtime.timeout.generation = g /\ t \in {0, w.runtime.timeout.instance}

(* _is_retiring_or_stale: a branch that is not there at all is never stale, *)
(* and then the current instance is given up.                               *)
Retired(w, scope, t) ==
  LET current == w.runtime.instance[scope]
      gone == IF t = 0 THEN current ELSE t
  IN  IF t # 0 /\ <<scope, t>> \notin w.runtime.retiring THEN w
      ELSE [w EXCEPT !.runtime.retiring = @ \ {<<scope, gone>>},
                     !.runtime.instance[scope] = IF @ = gone THEN 0 ELSE @]

(* Fault: a branch removed after it was replaced is taken for the present.  *)
NeverStale(w, scope, t) == FALSE

IsStale(w, scope, t) ==
  /\ t # 0
  /\ \/ <<scope, t>> \in w.runtime.retiring
     \/ w.runtime.instance[scope] \notin {0, t}

(* Fault: only a forced removal of a stream is reported.                    *)
StreamRemovedForced(w, forced, g) ==
  IF forced THEN Post(w, Event("stream.failed", g)) ELSE w

StreamRemoved(w, forced, g) ==
  IF forced THEN Post(w, Event("stream.failed", g))
  ELSE IF w.media.stream.state = "stopping" THEN Post(w, Event("stream.stopped", g))
  ELSE w

(* Fault: the answer that there was nothing to stop is ignored.             *)
RecordingRemovedPresent(w, t, forced, g) ==
  LET r == w.media.recording
      stopped == Event("recording.stopped", g)
  IN  IF t = 0 THEN w
      ELSE IF forced THEN Post(Post(w, Event("recording.failed", g)), stopped)
      ELSE IF r.state = "stopping" THEN Post(Post(w, Closed(g, t)), stopped)
      ELSE w

RecordingRemoved(w, t, forced, g) ==
  LET r == w.media.recording
      path == IF t = 0 THEN r.current_file ELSE t
      failing == r.stop_target = "failed"
      failed == Post(w, Event("recording.failed", g))
      closed == IF path = None \/ failing THEN w ELSE Post(w, Closed(g, path))
  IN  IF forced \/ (t = 0 /\ ~failing)
        THEN Post(failed, Event("recording.stopped", g))
      ELSE IF r.state = "stopping" THEN Post(closed, Event("recording.stopped", g))
      ELSE w

BranchRemoved(w, scope, t, forced, g) ==
  LET timed_out == AnswersTimeout(w, scope, t, g)
      acknowledged == IF timed_out THEN [w EXCEPT !.runtime.timeout = NoAttempt] ELSE w
      stopping_current == /\ scope = "stream" /\ w.media.stream.state = "stopping"
                          /\ t # 0 /\ w.runtime.instance[scope] = t
      retired == Retired(acknowledged, scope, t)
  IN  IF timed_out THEN Post(retired, Lost(g))
      ELSE IF IsStale(w, scope, t) /\ ~stopping_current THEN retired
      ELSE IF scope = "stream" THEN StreamRemoved(retired, forced, g)
      ELSE RecordingRemoved(retired, t, forced, g)

ConnectionEvent(w, t, connected, g) ==
  IF ~IsCurrent(w, "stream", t) THEN w
  ELSE IF connected THEN Post(w, Event("connection.connected", g))
  ELSE Post([w EXCEPT !.runtime.retiring = @ \cup {<<"stream", t>>}], Lost(g))

RecordingRotated(w, event, g) ==
  LET swapped == [w EXCEPT !.runtime.retiring = @ \ {<<"recording", event.old>>},
                           !.runtime.instance["recording"] = event.new]
      opened == Post(Post(swapped, Closed(g, event.old)), Opened(g, event.new))
  IN  IF event.forced
        THEN Post(Post(swapped, Opened(g, event.new)), Event("recording.failed", g))
        ELSE Post(opened, Event("recording.rotation_completed", g))

BitrateChanged(w, t, bps, g) ==
  IF IsCurrent(w, "stream", t) /\ bps = w.media.stream.pending_opus_bitrate_bps
    THEN Post(w, BitrateApplied(g, bps)) ELSE w

ErrorEvent(w, event, g) ==
  CASE event.scope = "capture" ->
         Post([w EXCEPT !.runtime.spectrum = FALSE], Event("capture.failed", g))
    [] event.scope = "stream" ->
         IF IsCurrent(w, "stream", event.token)
           THEN Post(w, Event("stream.failed", g)) ELSE w
    [] event.scope = "recording" ->
         IF IsCurrent(w, "recording", event.token)
           THEN Post(w, Event("recording.failed", g)) ELSE w

MonitoringError(w, scope) ==
  LET late == IF w.engine.active["spectrum"] # 0 THEN {"reported_late"} ELSE {}
      lost == [w EXCEPT !.runtime.spectrum = FALSE, !.runtime.amiss = @ \cup late]
  IN  Post(IF scope = "spectrum" THEN lost ELSE w, [name |-> "monitoring.failed"])

ProcessEngineEvent(w, event) ==
  LET unlisted == IF event.kind = "branch-removed" /\ event.scope = "recording"
                    THEN [w EXCEPT !.runtime.paths = @ \ {event.token}] ELSE w
      g == Translate(w, event.scope, event.generation)
  IN
  IF event.kind = "shutdown-complete" THEN [w EXCEPT !.runtime.paths = {}]
  ELSE IF event.kind = "error" /\ event.scope \in {"level", "spectrum"}
    THEN MonitoringError(w, event.scope)
  ELSE IF event.scope \notin {"level", "spectrum"} /\ g = 0 THEN unlisted
  ELSE
  CASE event.kind = "branch-created" -> BranchCreated(w, event.scope, event.token, g)
    [] event.kind = "branch-added" -> BranchAdded(w, event.scope, event.token, g)
    [] event.kind = "branch-removed" /\ event.scope \in Scope ->
         BranchRemoved(unlisted, event.scope, event.token, event.forced, g)
    [] event.kind = "capture-started" -> Post(w, Event("capture.started", g))
    [] event.kind = "capture-stopped" ->
         Post([w EXCEPT !.runtime.spectrum = FALSE], Event("capture.stopped", g))
    [] event.kind = "connection" -> ConnectionEvent(w, event.token, event.connected, g)
    [] event.kind = "opus-bitrate-changed" ->
         BitrateChanged(w, event.token, event.new_bps, g)
    [] event.kind = "recording-rotated" -> RecordingRotated(w, event, g)
    [] event.kind = "error" -> ErrorEvent(w, event, g)
    [] OTHER -> w

(* _process_connection_attempt_timeout: work whose timer was cancelled      *)
(* meanwhile is not live.                                                   *)
ProcessAttemptTimeout(w, work, by, o) ==
  LET answered == IF work.live
                    THEN [w EXCEPT !.runtime =
                            [@ EXCEPT !.attempt = NoAttempt, !.attempt_due = FALSE]]
                    ELSE w
      pending == [generation |-> work.generation, instance |-> work.instance]
      marked == [answered EXCEPT !.runtime.timeout = pending,
                                 !.runtime.retiring = @ \cup {<<"stream", work.instance>>}]
  IN  IF /\ work.live /\ Connecting(w.media)
         /\ w.media.stream.generation = work.generation
         /\ IsCurrent(w, "stream", work.instance)
        THEN Invoke(marked, by, o, "connection.timeout_stop", work.generation)
        ELSE answered

(* _accept_polled_stats: only figures of the present branch count, and      *)
(* bytes sent while connecting mean that the receiver is there.             *)
ProcessStats(w, work, by, o) ==
  LET polled == [w EXCEPT !.runtime.stats_inflight = FALSE]
      g == work.generation
      sampled == ApplyStateEvent(polled, Event("connection.stats", g), by, o)
  IN  IF /\ w.media.stream.state \in S!Live /\ g = w.media.stream.generation
         /\ IsCurrent(w, "stream", work.instance)
        THEN IF w.media.connection.state = "connecting" /\ work.sent
               THEN [sampled EXCEPT !.queue =
                       <<StateWork(Event("connection.connected", g), "none")>> \o @]
               ELSE sampled
        ELSE polled

(* The call is made at once by the owner, and waited for by anybody else.   *)
AskSpectrum(w, on, by, o) ==
  LET e == E!SetSpectrumActive(w.engine, on, Added(w.engine, o))
  IN  IF by = "owner"
        THEN [Operated(w, e) EXCEPT !.runtime.spectrum = on /\ e.active["spectrum"] # 0]
        ELSE [w EXCEPT !.runtime.awaiting = TRUE,
                       !.idle = Append(@, [src |-> "spectrum", on |-> on])]

ProcessSpectrumLease(w, on, by, o) ==
  LET cancelled == CancelLease(w)
      leased == IF on THEN [cancelled EXCEPT !.runtime.lease = "armed"] ELSE cancelled
  IN  IF w.runtime.spectrum = on THEN leased ELSE AskSpectrum(leased, on, by, o)

ProcessLeaseExpired(w, work, by, o) ==
  IF work.live THEN ProcessSpectrumLease(w, FALSE, by, o) ELSE w

-----------------------------------------------------------------------------
(* _process_config_update: the engine takes the configuration and, if the   *)
(* stream runs with another bitrate, the bitrate; what it does not confirm  *)
(* is undone, the call that failed too.                                     *)

RecordingHeld(e) ==
  e.active["recording"] # 0 \/ \E t \in e.finalizing : e.branches[t].kind = "recording"

(* update_config and set_bitrate, each with the answer the update gets.     *)
TakeSettings(w, settings) ==
  IF settings.folder # w.runtime.applied.folder /\ RecordingHeld(w.engine)
    THEN [w EXCEPT !.runtime.update.answer = "failed"]
    ELSE [w EXCEPT !.runtime.applied = settings, !.runtime.update.answer = "done"]

TakeBitrate(w, bps, o) ==
  IF w.engine.active["stream"] = 0 \/ ~o.added
    THEN [w EXCEPT !.runtime.update.answer = "failed"]
    ELSE [Operated(w, E!SetBitrate(w.engine, bps)) EXCEPT !.runtime.update.answer = "done"]

ConfigCall(settings) == [src |-> "setting", asks |-> "config", settings |-> settings]
BitrateCall(bps) == [src |-> "setting", asks |-> "bitrate", bps |-> bps]

AnswerUpdate(w, c, o) ==
  IF c.asks = "config" THEN TakeSettings(w, c.settings) ELSE TakeBitrate(w, c.bps, o)

(* The next call of an update.                                              *)
AskUpdate(w, stage, c, by, o) ==
  LET asked == [w EXCEPT !.runtime.update.stage = stage, !.runtime.update.answer = "pending"]
  IN  IF by = "owner" THEN AnswerUpdate(asked, c, o)
      ELSE [asked EXCEPT !.idle = Append(@, c)]

(* A running stream takes the bitrate at once, a stopped one when it starts;*)
(* in between, and while another change is pending, the update is refused.  *)
RefusesUpdate(w, to) ==
  \/ to.folder # w.runtime.config.folder
       /\ w.media.recording.state \in {"starting", "running", "stopping"}
  \/ to.bitrate # w.runtime.config.bitrate
       /\ \/ w.media.stream.state \in {"starting", "stopping"}
          \/ w.media.stream.pending_opus_bitrate_bps # 0

AppliesBitrate(w, to) ==
  /\ to.bitrate # w.runtime.config.bitrate /\ w.media.stream.state = "running"
  /\ w.media.stream.representation_id = S!Opus
  /\ w.media.stream.opus_bitrate_bps # to.bitrate

ProcessConfigUpdate(w, to, by, o) ==
  IF RefusesUpdate(w, to) THEN w
  ELSE AskUpdate([w EXCEPT !.runtime.update =
                    [stage |-> "config", answer |-> "pending", to |-> to,
                     applies |-> AppliesBitrate(w, to)]], "config", ConfigCall(to), by, o)

(* What a configuration in force changes of the media state, past the       *)
(* reducer: the revisions that are set, and the bitrate if it was applied.  *)
Revised(part, to) ==
  IF part.config_revision = None THEN part ELSE [part EXCEPT !.config_revision = to]

Reconfigured(s, to, applies) ==
  LET stream == Revised(s.stream, to)
  IN  [s EXCEPT !.capture = Revised(@, to), !.recording = Revised(@, to),
                !.stream = IF applies THEN [stream EXCEPT !.opus_bitrate_bps = to.bitrate]
                                      ELSE stream]

(* Fault: the bitrate is taken for applied whatever the stream does.        *)
InForceAlways(w) ==
  LET update == w.runtime.update
  IN  [w EXCEPT !.media = Reconfigured(@, update.to, TRUE), !.effects = <<>>,
                !.runtime.config = update.to, !.runtime.update = NoUpdate]

InForce(w) ==
  LET update == w.runtime.update
  IN  [w EXCEPT !.media = Reconfigured(@, update.to, update.applies), !.effects = <<>>,
                !.runtime.config = update.to, !.runtime.update = NoUpdate]

(* Every update that fails is undone as far as it got.                      *)
NextOfUpdate(w, by, o) ==
  LET update == w.runtime.update
      done == update.answer = "done"
      old == ConfigCall(w.runtime.config)
      bps == w.media.stream.opus_bitrate_bps
      marked == IF done THEN w ELSE [w EXCEPT !.runtime.amiss = @ \cup {"not_undone"}]
  IN  CASE update.stage = "config" /\ done ->
             IF ~update.applies THEN InForce(w)
             ELSE AskUpdate(w, "bitrate", BitrateCall(update.to.bitrate), by, o)
        [] update.stage = "config" -> AskUpdate(w, "undo_config", old, by, o)
        [] update.stage = "bitrate" ->
             IF done THEN InForce(w)
             ELSE IF bps = 0 THEN AskUpdate(w, "undo_config", old, by, o)
             ELSE AskUpdate(w, "undo_bitrate", BitrateCall(bps), by, o)
        [] update.stage = "undo_bitrate" -> AskUpdate(marked, "undo_config", old, by, o)
        [] update.stage = "undo_config" -> [marked EXCEPT !.runtime.update = NoUpdate]

-----------------------------------------------------------------------------
Process(w, work, by, o) ==
  CASE work.kind = "state" -> ApplyStateEvent(w, work.event, by, o)
    [] work.kind = "result" -> ProcessResult(w, work)
    [] work.kind = "failure" -> ProcessFailure(w, work)
    [] work.kind = "engine_event" -> ProcessEngineEvent(w, work.event)
    [] work.kind = "attempt_timeout" -> ProcessAttemptTimeout(w, work, by, o)
    [] work.kind = "stats" -> ProcessStats(w, work, by, o)
    [] work.kind = "config_update" -> ProcessConfigUpdate(w, work.to, by, o)
    [] work.kind = "lease" -> ProcessSpectrumLease(w, work.on, by, o)
    [] work.kind = "lease_expired" -> ProcessLeaseExpired(w, work, by, o)

-----------------------------------------------------------------------------
(* The steps.                                                               *)

Init ==
  /\ scenario \in Scenarios
  /\ media = S!InitialMedia /\ effects = <<>> /\ runtime = InitialRuntime
  /\ engine = E!InitialEngine /\ queue = <<>> /\ drainer = "none" /\ idle = <<>>
  /\ left = [commands |-> scenario.dispatched, troubles |-> scenario.troubled,
             called |-> {}]

Calm == UNCHANGED left
Trouble(kind) == /\ kind \in scenario.troubles /\ left.troubles > 0
                 /\ left' = [left EXCEPT !.troubles = @ - 1]

(* A thread that dispatched a command waits until it is done.               *)
Waiting(by) ==
  \/ \E i \in DOMAIN queue :
       queue[i].kind \in {"state", "lease", "config_update"} /\ queue[i].waiter = by
  \/ by = "control" /\ runtime.update # NoUpdate
OwnerDone == drainer # "owner" /\ ~Waiting("owner")
OwnerFree == OwnerDone /\ ~runtime.started
ControlFree == drainer # "control" /\ ~Waiting("control")

Command(name) ==
  CASE name \in {"capture.start", "capture.restart"} ->
         [name |-> "capture.start", config_revision |-> runtime.config]
    [] name = "stream.start" ->
         [name |-> name, config_revision |-> runtime.config, representation_id |-> S!Opus,
          opus_bitrate_bps |-> runtime.config.bitrate]
    [] name = "recording.start" ->
         [name |-> name, config_revision |-> runtime.config, storage_status |-> "safe"]
    [] OTHER -> [name |-> name]

CommandWork(name, by) ==
  CASE name \in {"lease.renew", "lease.release"} ->
         {[kind |-> "lease", on |-> name = "lease.renew", waiter |-> by]}
    [] name = "config.update" ->
         {[kind |-> "config_update", to |-> [bitrate |-> b, folder |-> f], waiter |-> by] :
            b \in scenario.bitrates, f \in scenario.folders}
    [] name = "stream.set_opus_bitrate" ->
         {StateWork([name |-> name, bitrate_bps |-> b], by) : b \in scenario.bitrates}
    [] OTHER -> {StateWork(Command(name), by)}

(* The media service starts capture and the stream and shuts down on the    *)
(* owner; the other commands come from the control socket, one at a time    *)
(* (media_control's operation lock), a restart of capture among them.       *)
Dispatch(by, name) ==
  /\ left.commands > 0 /\ left' = [left EXCEPT !.commands = @ - 1]
  /\ \E work \in CommandWork(name, by) : Become(Enqueue(Now, work), by)

Bootstrap ==
  /\ OwnerFree /\ media.capture.generation = 0 /\ ~Waiting("control") /\ scenario.mode
  /\ "capture.start" \in scenario.commands /\ Dispatch("owner", "capture.start")

(* media_service.on_engine_event, once the runtime took the event: it has   *)
(* been processed only if no other thread was draining.                     *)
StartStreamWithCapture ==
  /\ OwnerDone /\ runtime.started
  /\ LET seen == [Now EXCEPT !.runtime.started = FALSE]
         starts == /\ media.capture.state = "running" /\ "stream.start" \in scenario.commands
                   /\ media.stream.state = "stopped" /\ left.commands > 0
     IN  IF starts
           THEN /\ left' = [left EXCEPT !.commands = @ - 1]
                /\ Become(Enqueue(seen, StateWork(Command("stream.start"), "owner")),
                          "owner")
           ELSE Calm /\ Become(seen, drainer)

RequestShutdown ==
  /\ OwnerFree /\ media.service = "running"
  /\ "service.shutdown" \in scenario.commands /\ Dispatch("owner", "service.shutdown")

ControlCommand ==
  /\ ControlFree /\ (media.capture.generation > 0 \/ ~scenario.mode)
  /\ \E name \in scenario.commands \ {"capture.start", "service.shutdown"} :
       Dispatch("control", name)

Good(level) == [added |-> TRUE, plays |-> TRUE, level |-> level, storage |-> "safe"]
Spoilt(good) ==
  [call |-> {[good EXCEPT !.added = FALSE], [good EXCEPT !.plays = FALSE]},
   storage |-> {[good EXCEPT !.storage = fault] : fault \in StorageFault}]

(* A step that elements or the storage may spoil, if that makes a difference. *)
Outcome(Result(_), by) ==
  \E level \in scenario.level :
    LET good == Result(Good(level)) IN
    \/ Calm /\ Become(good, by)
    \/ \E trouble \in {"call", "storage"} :
         /\ Trouble(trouble)
         /\ \E o \in Spoilt(Good(level))[trouble] :
              LET spoilt == Result(o) IN spoilt # good /\ Become(spoilt, by)

(* A draining owner that calls the engine while a call is deferred to it    *)
(* overtakes that call.                                                     *)
InTurn(before, after) ==
  IF /\ drainer = "owner" /\ \E i \in DOMAIN idle : idle[i].src = "call"
     /\ after.engine # before.engine \/ after.idle # before.idle
    THEN [after EXCEPT !.runtime.amiss = @ \cup {"overtaken"}] ELSE after

Drain ==
  /\ drainer # "none" /\ queue # <<>> /\ ~Midway(Now)
  /\ LET rest == [Now EXCEPT !.queue = Tail(@)]
         Result(o) == InTurn(rest, Process(rest, Head(queue), drainer, o))
     IN  Outcome(Result, drainer)

(* The drainer in the middle of an update, once the engine has answered.    *)
ContinueUpdate ==
  /\ runtime.update # NoUpdate /\ runtime.update.answer # "pending"
  /\ LET Result(o) == InTurn(Now, NextOfUpdate(Now, drainer, o))
     IN  Outcome(Result, drainer)

(* _wait_backend gives up: a call the owner has not started is cancelled.   *)
WithoutSource(i) == SubSeq(idle, 1, i - 1) \o SubSeq(idle, i + 1, Len(idle))

WaitTimeout ==
  /\ Trouble("wait")
  /\ \E i \in DOMAIN idle :
       \/ /\ idle[i].src = "spectrum"
          /\ Become([Now EXCEPT !.runtime.awaiting = FALSE,
                                !.runtime.amiss = @ \cup {"unheard"},
                                !.idle = WithoutSource(i)], drainer)
       \/ /\ idle[i].src = "setting"
          /\ Become([Now EXCEPT !.runtime.update.answer = "failed",
                                !.idle = WithoutSource(i)], drainer)

DeliverEvent ==
  /\ OwnerFree /\ idle # <<>> /\ Head(idle).src = "event"
  /\ UNCHANGED left
  /\ LET event == Head(idle).event
         taken == [Now EXCEPT !.idle = Tail(@),
                              !.runtime.started = event.kind = "capture-started"]
     IN  Become(Enqueue(taken, [kind |-> "engine_event", event |-> event]), "owner")

RunCall ==
  /\ OwnerFree /\ idle # <<>> /\ Head(idle).src = "call"
  /\ LET rest == [Now EXCEPT !.idle = Tail(@)]
         Result(o) == Call(rest, Head(idle), o)
     IN  Outcome(Result, "owner")

(* The call a lease waits for. If the wait gives up while it runs, it takes *)
(* effect and nobody learns of it.                                          *)
RunSpectrumCall ==
  /\ OwnerFree /\ idle # <<>> /\ Head(idle).src = "spectrum"
  /\ LET rest == [Now EXCEPT !.idle = Tail(@), !.runtime.awaiting = FALSE]
         Result(o) == AskSpectrum(rest, Head(idle).on, "owner", o)
         unheard == Operated([rest EXCEPT !.runtime.amiss = @ \cup {"unheard"}],
                             E!SetSpectrumActive(engine, Head(idle).on,
                                                 Added(engine, Good(FALSE))))
     IN  \/ Outcome(Result, drainer)
         \/ Trouble("wait") /\ Become(unheard, drainer)

(* The same of a call of an update.                                         *)
RunUpdateCall ==
  /\ OwnerFree /\ idle # <<>> /\ Head(idle).src = "setting"
  /\ LET Result(o) == AnswerUpdate([Now EXCEPT !.idle = Tail(@)], Head(idle), o)
     IN  \/ Outcome(Result, drainer)
         \/ /\ Trouble("wait")
            /\ Become([Result(Good(FALSE)) EXCEPT !.runtime.update.answer = "failed"], drainer)

(* A handler of the engine on the owner's thread.                           *)
Run(e) == Become(Operated(Now, e), "owner")

RunCallback ==
  /\ OwnerFree /\ idle # <<>> /\ Head(idle).src = "callback"
  /\ LET c == Head(idle)
         t == c.token
         Handled(e) == Become(Operated([Now EXCEPT !.idle = Tail(@)], e), "owner")
     IN  \/ /\ c.call = "unlink_and_drain"
            /\ \/ Calm /\ Handled(E!UnlinkAndDrain(engine, t, TRUE, TRUE))
               \/ Trouble("drain") /\ Handled(E!UnlinkAndDrain(engine, t, FALSE, TRUE))
         \/ /\ c.call = "finish_remove"
            /\ \/ Calm /\ Handled(E!FinishRemove(engine, t, FALSE, TRUE))
               \/ /\ Trouble("drain") /\ engine.branches[t].kind = "recording"
                  /\ Handled(E!FinishRemove(engine, t, FALSE, FALSE))
         \/ /\ c.call = "connection_changed" /\ Calm
            /\ Handled(E!ConnectionChanged(engine, t, c.connected))
         \/ /\ c.call = "handle_queue_overrun" /\ Calm
            /\ Handled(E!HandleQueueOverrun(engine, t))

BusMessage ==
  /\ OwnerFree
  /\ \/ engine.start_pending # 0 /\ Calm /\ Run(E!CapturePlaying(engine))
     \/ Trouble("device") /\ engine.pipeline /\ Run(E!FailCapture(engine, "device_lost"))
     \/ \E t \in E!Held(engine) :
          \/ /\ engine.branches[t].kind \in E!Output /\ ~engine.branches[t].playing
             /\ Calm /\ Run(E!BranchPlaying(engine, t))
          \/ /\ engine.branches[t].valve = "dropping"
             /\ Calm /\ Run(E!SinkError(engine, t, TRUE))
          \/ Trouble("branch") /\ Run(E!BranchError(engine, t, TRUE))

RemovalTimeout(t) ==
  /\ OwnerFree /\ t \in engine.finalizing /\ Trouble("drain")
  /\ Run(E!FinishRemove(engine, t, TRUE, TRUE))

AnyRemovalTimeout == \E t \in engine.finalizing : RemovalTimeout(t)

(* The streaming threads mark a branch and queue an idle source.            *)
Streams(t, field, value, callback) ==
  Become([Now EXCEPT !.engine.branches[t][field] = value,
                     !.idle = Append(@, callback)], drainer)

CallerSignal(t, connected) ==
  Become([Now EXCEPT !.idle = Append(@, [src |-> "callback", token |-> t,
            call |-> "connection_changed", connected |-> connected])], drainer)

StreamingThread ==
  \E t \in E!Held(engine) :
    LET b == engine.branches[t] IN
    \/ /\ t \in engine.finalizing /\ ~b.drain_scheduled /\ Calm
       /\ Streams(t, "drain_scheduled", TRUE,
                  [src |-> "callback", call |-> "unlink_and_drain", token |-> t])
    \/ /\ t \in engine.finalizing /\ b.eos = "sent" /\ Calm
       /\ Streams(t, "eos", "seen",
                  [src |-> "callback", call |-> "finish_remove", token |-> t])
    \/ /\ b.kind \in E!Output /\ b.valve = "open" /\ Trouble("sink")
       /\ Become([Now EXCEPT !.engine.branches[t].valve = "dropping"], drainer)
    \/ /\ b.kind \in E!Output /\ Trouble("overrun")
       /\ Become([Now EXCEPT !.idle = Append(@, [src |-> "callback", token |-> t,
                     call |-> "handle_queue_overrun"])], drainer)
    \/ /\ scenario.receiver /\ b.kind = "stream" /\ t \notin left.called
       /\ left' = [left EXCEPT !.called = @ \cup {t}]
       /\ CallerSignal(t, TRUE)
    \/ b.kind = "stream" /\ Trouble("caller") /\ CallerSignal(t, FALSE)

(* The timers, on the owner's thread. The delay of a retry is a second or   *)
(* more, which outlasts the calls deferred before it.                       *)
RetryDue ==
  /\ OwnerFree /\ runtime.reconnect # 0 /\ Calm
  /\ \A i \in DOMAIN idle : idle[i].src # "call"
  /\ Len(engine.branches) < scenario.branches
  /\ Become(Post([Now EXCEPT !.runtime.reconnect = 0],
                 Event("connection.retry_due", runtime.reconnect)), "owner")

AttemptDue ==
  /\ OwnerFree /\ "attempt" \in scenario.timers /\ Calm
  /\ runtime.attempt # NoAttempt /\ ~runtime.attempt_due
  /\ Become(Enqueue([Now EXCEPT !.runtime.attempt_due = TRUE],
                    [kind |-> "attempt_timeout", live |-> TRUE,
                     generation |-> runtime.attempt.generation,
                     instance |-> runtime.attempt.instance]), "owner")

StorageDue ==
  /\ OwnerFree /\ "storage" \in scenario.timers /\ runtime.storage # None
  /\ LET Checked(status) ==
           Become(Post([Now EXCEPT !.runtime.storage = None],
                       StorageChecked(runtime.storage, status)), "owner")
     IN  \/ Calm /\ Checked("safe")
         \/ Trouble("storage") /\ \E fault \in StorageFault : Checked(fault)

RotationDue ==
  /\ OwnerFree /\ "rotation" \in scenario.timers /\ runtime.rotation /\ Calm
  /\ Len(engine.branches) < scenario.branches
  /\ Become(Post([Now EXCEPT !.runtime.rotation = FALSE],
                 [name |-> "recording.rotate"]), "owner")

(* Bytes have been sent only by a branch that reached its receiver.         *)
StatsDue ==
  /\ OwnerFree /\ "stats" \in scenario.timers /\ ~runtime.stats_inflight /\ Calm
  /\ media.service = "running" /\ media.capture.state = "running"
  /\ \E sent \in {FALSE, engine.active["stream"] \in left.called} :
       Become(Enqueue([Now EXCEPT !.runtime.stats_inflight = TRUE],
                      [kind |-> "stats", generation |-> media.stream.generation,
                       instance |-> runtime.instance["stream"], sent |-> sent]), "owner")

LeaseDue ==
  /\ OwnerFree /\ runtime.lease = "armed" /\ Calm
  /\ Become(Enqueue([Now EXCEPT !.runtime.lease = "due"],
                    [kind |-> "lease_expired", live |-> TRUE]), "owner")

Timer == \/ RetryDue \/ AttemptDue \/ StorageDue \/ RotationDue \/ StatsDue \/ LeaseDue

Step ==
  \/ Bootstrap
  \/ StartStreamWithCapture
  \/ RequestShutdown
  \/ ControlCommand
  \/ Drain
  \/ ContinueUpdate
  \/ WaitTimeout
  \/ DeliverEvent
  \/ RunCall
  \/ RunSpectrumCall
  \/ RunUpdateCall
  \/ RunCallback
  \/ BusMessage
  \/ AnyRemovalTimeout
  \/ StreamingThread
  \/ Timer

Next == Step /\ UNCHANGED scenario

Spec == Init /\ [][Next]_vars

-----------------------------------------------------------------------------
(* Safety.                                                                  *)

(* Nothing is on its way: what happens next comes from the engine's own     *)
(* threads, a timer or a command.                                           *)
Settled == queue = <<>> /\ drainer = "none" /\ idle = <<>> /\ ~runtime.started

Finalizing(kind) == \E t \in engine.finalizing : engine.branches[t].kind = kind

CaptureViewed ==
  CASE media.capture.state = "starting" -> engine.start_pending # 0
    [] media.capture.state = "running" -> engine.pipeline /\ engine.start_pending = 0
    [] media.capture.state = "stopping" -> engine.stop_pending
    [] OTHER -> ~engine.pipeline

StreamViewed ==
  LET t == engine.active["stream"]
      attached == /\ t # 0 /\ engine.branches[t].generation = media.stream.generation
                  /\ IsCurrent(Now, "stream", t)
                  /\ engine.branches[t].playing => media.stream.state = "running"
      aborting == t = 0 /\ runtime.timeout.instance \in engine.finalizing
      timed == media.service = "running"
  IN
  CASE media.stream.state = "stopping" -> Finalizing("stream")
    [] media.stream.state \notin S!Live \cup {"stopping"} -> t = 0
    [] media.connection.state = "connected" -> attached
    [] media.connection.state = "connecting" ->
         aborting \/ (attached /\ (timed => runtime.attempt.instance = t))
    [] OTHER -> t = 0 /\ (timed => runtime.reconnect # 0)

RecordingViewed ==
  LET t == engine.active["recording"] IN
  CASE media.recording.state \in S!Live ->
         /\ t # 0 /\ engine.branches[t].generation = media.recording.generation
         /\ IsCurrent(Now, "recording", t)
         /\ media.recording.state = "running" => media.recording.current_file = t
    [] media.recording.state = "stopping" -> Finalizing("recording")
    [] OTHER -> t = 0

(* Whenever nothing is on its way, the reducer's view of the capture, the   *)
(* stream and the recording is the engine's: what it takes for running is   *)
(* there, of the generation and the instance it believes in, what it takes  *)
(* for stopped is gone, and every state it waits in has something that will *)
(* end it: a branch being removed, a watchdog, a retry timer. No order of   *)
(* deferred calls, late events of retired branches, failures and timers may *)
(* leave it waiting for nothing.                                            *)
CaptureAgrees == Settled => CaptureViewed
RecordingAgrees == Settled => RecordingViewed

(* The same for the stream, and no change of its bitrate stays pending.     *)
StreamAgrees ==
  Settled => StreamViewed /\ media.stream.pending_opus_bitrate_bps = 0

(* Every file a branch still writes is among the active paths a snapshot    *)
(* shows, so that the recording library refuses to delete it.               *)
WritersListed ==
  Settled => {t \in E!Held(engine) : engine.branches[t].kind = "recording"}
               \subseteq runtime.paths

(* A service that has stopped has nothing left of its pipeline.             *)
StoppedLeavesNothing ==
  Settled /\ media.service = "stopped" => ~engine.pipeline

(* The analyzer of the spectrum is attached only under a lease that will    *)
(* expire, or on its way out ("if no client renews it, the engine removes   *)
(* the disposable branch"). Not so once a wait for the engine's answer was  *)
(* given up, or the report of a failed attempt came after the next one.     *)
SpectrumLeased ==
  Settled /\ engine.active["spectrum"] # 0 => runtime.lease # "none"

(* The configuration the service reports, and the revisions of what runs    *)
(* with it, are the engine's, whichever call of an update was refused, went *)
(* unheard or was undone, as long as the undoing did not fail itself.       *)
SettingsAgree ==
  Settled /\ "not_undone" \notin runtime.amiss =>
    /\ runtime.applied = runtime.config
    /\ {media.capture.config_revision, media.stream.config_revision,
        media.recording.config_revision} \subseteq {None, runtime.config}

(* What the service shows of itself is what the engine does, whenever       *)
(* nothing is on its way, through stops, restarts, losses of capture and    *)
(* updates of the configuration: the capture and the recording as long as   *)
(* no call overtook a deferred one, the analyzer as long as no wait for it  *)
(* was given up and no report of it came late.                              *)
ServiceAgrees ==
  /\ StoppedLeavesNothing /\ SettingsAgree
  /\ "overtaken" \notin runtime.amiss => CaptureAgrees /\ RecordingAgrees
  /\ runtime.amiss \cap {"unheard", "reported_late"} = {} => SpectrumLeased

(* A capture stop waits only for branches that are being removed, so the    *)
(* timeouts of their removal are enough to complete it.                     *)
StopHasAnEnd ==
  engine.stop_pending => \A k \in E!Kind : engine.active[k] = 0

(* A shutdown that is still under way has branches to wait for ("cannot     *)
(* hold shutdown indefinitely"). Not so if a call overtook a deferred one.  *)
ShutdownProgresses ==
  Settled /\ media.service = "shutting_down" => engine.finalizing # {}

(* It has, as long as the engine is called in the order of the decisions.   *)
ShutdownInTurn == "overtaken" \notin runtime.amiss => ShutdownProgresses

(* A connected stream has its branch ("aborts that exact still-connecting    *)
(* physical attempt ... and waits for factual removal before posting the    *)
(* failure that schedules retry").                                          *)
ConnectedIsAttached ==
  Settled /\ media.connection.state = "connected" => engine.active["stream"] # 0

(* A stream that is configured starts with capture.                         *)
StreamStartsWithCapture ==
  Settled /\ media.capture.state = "running" /\ left.commands > 0 =>
    media.stream.generation > 0

-----------------------------------------------------------------------------
(* Action properties.                                                       *)

(* A recording counts as stopped only once the engine is done with the last *)
(* of its fragments: the removal of a fragment that a rotation replaced     *)
(* does not pass for the end of its replacement.                            *)
StoppedAfterLastFragment ==
  [][ (media.recording.state = "stopping"
       /\ media'.recording.state \in {"stopped", "blocked"}) =>
        \A t \in DOMAIN engine.branches :
          engine.branches[t].kind = "recording" =>
            \/ t \notin E!Held(engine)
            \/ \E later \in t + 1..Len(engine.branches) :
                 engine.branches[later].kind = "recording" ]_vars

(* A configuration comes into force past the reducer, but changes only the  *)
(* revisions that are set and the bitrate of a running Opus stream with no  *)
(* other change pending.                                                    *)
ConfigurationInForce ==
  /\ effects' = <<>>
  /\ \E applies \in BOOLEAN :
       /\ media' = Reconfigured(media, runtime'.config, applies)
       /\ applies => /\ media.stream.state = "running"
                     /\ media.stream.representation_id = S!Opus
                     /\ media.stream.pending_opus_bitrate_bps = 0

(* The reducer is used as MediaState specifies it: every step of the        *)
(* runtime that changes its state is one of the reducer's, for an event of  *)
(* its present generations, or puts a configuration into force. MediaState's*)
(* own bounds do not apply here.                                            *)
ReducerSpec ==
  S!Init /\ [][ \/ UNCHANGED <<media, effects>>
                \/ ConfigurationInForce
                \/ \E e \in S!Event(media) : S!Handle(e) ]_<<media, effects>>
=============================================================================
