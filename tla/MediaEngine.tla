----------------------------- MODULE MediaEngine -----------------------------
(***************************************************************************)
(* The GStreamer engine (src/tinypirelay/gstreamer_engine.py): one capture *)
(* pipeline and the branches hung on its tee. Every branch ever added has  *)
(* a token; removing one is asynchronous (block the pad, unlink, drain to  *)
(* EOS, close) and is bounded by a timeout.                                *)
(*                                                                         *)
(* Threads: commands, bus messages, timeouts and deferred callbacks run on *)
(* the owner (GLib) thread, one at a time. The streaming threads only set  *)
(* a valve and queue callbacks as idle sources, which run in FIFO order.   *)
(* Each handler is an operator of the engine record; `out` collects the    *)
(* events it emits (_emit), in order.                                      *)
(*                                                                         *)
(* Abstracted: elements, pads, caps and queue properties; what a plan is   *)
(* made of; telemetry values; file names (a recording branch's file is     *)
(* named by its token, as every branch gets a path that did not exist).    *)
(***************************************************************************)
EXTENDS Naturals, Sequences, FiniteSets

CONSTANTS
  MaxCapture,      (* bound: how often capture may be started               *)
  MaxBranch,       (* bound: branches ever added                            *)
  Scenarios        (* what the behaviours explored consist of               *)

Kind == {"level", "spectrum", "stream", "recording"}
Output == {"stream", "recording"}      (* branches with a sink and a drain  *)

(* A scenario names the kinds of branch the commands add and the generations *)
(* they name, whether adding the level analyzer succeeds, the kinds of fault, *)
(* how often capture may be started, how many branches there may be and how *)
(* many idle callbacks may wait at a time.                                  *)
Scenario ==
  [driven : SUBSET (Kind \ {"level"}), generations : Nat, level : SUBSET BOOLEAN,
   faults : SUBSET {"capture", "branch", "sink", "overrun"},
   captures : 0..MaxCapture, branches : 0..MaxBranch, waiting : Nat]

VARIABLES
  engine,          (* GStreamerEngine: the record below                     *)
  posted,          (* the events the last step emitted                      *)
  callbacks,       (* idle sources of the streaming threads, in FIFO order  *)
  scenario         (* the scenario, fixed from the start                    *)

vars == <<engine, posted, callbacks, scenario>>

(* The valve of a sink drops from the moment the sink posted an error, ahead *)
(* of the message's handling on the bus.                                    *)
Branch ==
  [kind : Kind, generation : Nat, announce : BOOLEAN, playing : BOOLEAN,
   announced : BOOLEAN, drain : BOOLEAN, drain_scheduled : BOOLEAN,
   eos : {"none", "sent", "seen"}, valve : {"open", "dropping", "reported"},
   forced : BOOLEAN]

NewBranch(kind, g, announce) ==
  [kind |-> kind, generation |-> g, announce |-> announce, playing |-> FALSE,
   announced |-> FALSE, drain |-> FALSE, drain_scheduled |-> FALSE,
   eos |-> "none", valve |-> "open", forced |-> FALSE]

InitialEngine ==
  [pipeline |-> FALSE, capture_generation |-> 0, start_pending |-> 0,
   stop_pending |-> FALSE, shutdown_pending |-> FALSE,
   branches |-> <<>>,                       (* by token                     *)
   active |-> [k \in Kind |-> 0],           (* _active, 0 for no branch     *)
   finalizing |-> {},                       (* _finalizing                  *)
   rotations |-> {}, rotation_forced |-> {},
   out |-> <<>>]

Held(e) == ({e.active[k] : k \in Kind} \ {0}) \cup e.finalizing

-----------------------------------------------------------------------------
(* Events.                                                                  *)

Emit(e, event) == [e EXCEPT !.out = Append(@, event)]

CaptureEvent(kind, g) == [kind |-> kind, scope |-> "capture", generation |-> g]

BranchEvent(e, kind, t) ==
  [kind |-> kind, scope |-> e.branches[t].kind,
   generation |-> e.branches[t].generation, token |-> t]

Removed(e, t, forced) ==
  [kind |-> "branch-removed", scope |-> e.branches[t].kind,
   generation |-> e.branches[t].generation, token |-> t, forced |-> forced]

(* The answer to the removal of a branch there is not: no token.            *)
Missing(scope, g) ==
  [kind |-> "branch-removed", scope |-> scope, generation |-> g, token |-> 0,
   forced |-> FALSE]

Connection(e, t, connected) ==
  [kind |-> "connection", scope |-> "stream",
   generation |-> e.branches[t].generation, token |-> t,
   connected |-> connected]

Rotated(e, r, forced) ==
  [kind |-> "recording-rotated", scope |-> "recording",
   generation |-> e.branches[r.new].generation,
   old |-> r.old, new |-> r.new, forced |-> forced]

-----------------------------------------------------------------------------
(* The pieces the handlers are made of.                                     *)

ForcePipelineNull(e) == [e EXCEPT !.pipeline = FALSE, !.start_pending = 0]

EmitCaptureStopped(e, g) ==
  LET stopped == Emit(e, CaptureEvent("capture-stopped", g))
  IN  IF e.shutdown_pending
        THEN Emit([stopped EXCEPT !.shutdown_pending = FALSE],
                  CaptureEvent("shutdown-complete", g))
        ELSE stopped

MaybeFinishCaptureStop(e) ==
  IF ~e.stop_pending \/ Held(e) # {} THEN e
  ELSE EmitCaptureStopped(
         [ForcePipelineNull(e) EXCEPT !.rotations = {},
                                      !.rotation_forced = {},
                                      !.stop_pending = FALSE],
         e.capture_generation)

AddBranch(e, kind, g, announce) ==
  LET t == Len(e.branches) + 1
      added == [e EXCEPT !.branches = Append(@, NewBranch(kind, g, announce)),
                         !.active[kind] = t]
  IN  IF kind \in Output THEN Emit(added, BranchEvent(added, "branch-created", t))
      ELSE added

(* _try_add_monitoring_branch: a failing analyzer is reported and no more.  *)
TryAddMonitoring(e, kind, g, added) ==
  IF added THEN AddBranch(e, kind, g, FALSE)
  ELSE Emit(e, [kind |-> "error", scope |-> kind, generation |-> g])

CancelRotation(e, t) ==
  LET cancelled == {r \in e.rotations : t \in {r.old, r.new}}
  IN  [e EXCEPT !.rotations = @ \ cancelled,
                !.rotation_forced = @ \ {r.old : r \in cancelled}]

BeginRemoveHandle(e, t, drain) ==
  IF t \in e.finalizing THEN e
  ELSE [e EXCEPT !.finalizing = @ \cup {t}, !.branches[t].drain = drain]

BeginRemove(e, kind, drain) ==
  LET t == e.active[kind]
  IN  IF t = 0 THEN e
      ELSE BeginRemoveHandle(CancelRotation([e EXCEPT !.active[kind] = 0], t),
                             t, drain)

(* A rotation is complete once its old fragment is closed and its new one   *)
(* is playing, active and not being closed itself.                          *)
ReadyRotations(e) ==
  {r \in e.rotations :
     /\ r.old \notin e.finalizing
     /\ e.branches[r.new].playing
     /\ e.active["recording"] = r.new
     /\ r.new \notin e.finalizing}

CompleteRotation(e, old, forced) ==
  IF \A r \in ReadyRotations(e) : r.old # old THEN e
  ELSE LET r == CHOOSE q \in ReadyRotations(e) : q.old = old
       IN  Emit([e EXCEPT !.rotations = @ \ {r},
                          !.rotation_forced = @ \ {old}],
                Rotated(e, r, forced \/ old \in e.rotation_forced))

(* The branch is gone; of its record only what was reported remains.        *)
Discard(e, t, forced) ==
  [e EXCEPT !.branches[t] = [NewBranch(@.kind, @.generation, @.announce)
                               EXCEPT !.forced = forced]]

(* Fault: a timeout and an EOS both finish the branch.                      *)
FinishRemoveAgain(e, t, forced, closed) ==
  LET gone == Discard([e EXCEPT !.finalizing = @ \ {t}], t, forced)
  IN  MaybeFinishCaptureStop(
        CompleteRotation(Emit(gone, Removed(gone, t, forced)), t, forced))

(* Fault: the valve of the file sink is not read.                           *)
FinishRemoveBlindly(e, t, forced, closed) ==
  IF t \notin e.finalizing THEN e ELSE FinishRemoveAgain(e, t, forced, closed)

(* _finish_remove: closing a recording's file may fail in the very act, and *)
(* that drops its valve as any write error before it did.                   *)
FinishRemove(e, t, forced, closed) ==
  IF t \notin e.finalizing THEN e
  ELSE
    LET b == e.branches[t]
        spoiled == \/ forced
                   \/ b.kind = "recording" /\ (b.valve # "open" \/ ~closed)
        marked == IF forced /\ \E r \in e.rotations : r.old = t
                    THEN e.rotation_forced \cup {t} ELSE e.rotation_forced
        gone == Discard([e EXCEPT !.finalizing = @ \ {t},
                                  !.rotation_forced = marked], t, spoiled)
        told == IF spoiled /\ b.kind = "recording"
                  THEN Emit(gone, BranchEvent(gone, "error", t)) ELSE gone
    IN  MaybeFinishCaptureStop(
          CompleteRotation(Emit(told, Removed(told, t, spoiled)), t, spoiled))

(* _detach_branch: an error of the retiring fragment spoils the rotation    *)
(* without giving it up; any other error of a branch removes it.            *)
DetachBranch(e, t, closed) ==
  LET retiring == \E r \in e.rotations : r.old = t
      marked == [e EXCEPT !.rotation_forced = @ \cup {t}]
      base == IF retiring THEN marked ELSE CancelRotation(e, t)
      k == e.branches[t].kind
  IN  IF retiring /\ t \in e.finalizing THEN FinishRemove(marked, t, TRUE, closed)
      ELSE BeginRemoveHandle(
             IF e.active[k] = t THEN [base EXCEPT !.active[k] = 0] ELSE base,
             t, FALSE)

ForceRemoveNow(e, t, forced) ==
  LET k == e.branches[t].kind
      gone == Discard(CancelRotation([e EXCEPT !.active[k] = 0], t), t, forced)
  IN  MaybeFinishCaptureStop(Emit(gone, Removed(gone, t, forced)))

(* Tokens as they were given.                                               *)
Ascending(tokens) ==
  CHOOSE q \in [1..Cardinality(tokens) -> tokens] :
    \A i, j \in 1..Cardinality(tokens) : i < j => q[i] < q[j]

(* The active branches first and then the finalizing ones. Among the latter *)
(* the order is the tokens', as it is in the code for branches of one kind; *)
(* between kinds nothing depends on it.                                     *)
ForceAllBranches(e) ==
  LET order == Ascending(Held(e) \ e.finalizing) \o Ascending(e.finalizing)
      removals == [i \in DOMAIN order |-> Removed(e, order[i], TRUE)]
  IN  [e EXCEPT !.out = @ \o removals,
                !.branches =
                  [t \in DOMAIN @ |->
                     IF t \in Held(e)
                       THEN [NewBranch(@[t].kind, @[t].generation, @[t].announce)
                               EXCEPT !.forced = TRUE]
                       ELSE @[t]],
                !.active = [k \in Kind |-> 0], !.finalizing = {},
                !.rotations = {}, !.rotation_forced = {}]

(* Fault: the failure of a capture being stopped does not answer the stop.  *)
FailCaptureOnly(e, code) ==
  Emit([ForcePipelineNull(ForceAllBranches(e)) EXCEPT !.stop_pending = FALSE,
                                                      !.shutdown_pending = FALSE],
       [kind |-> "error", scope |-> "capture",
        generation |-> e.capture_generation, code |-> code])

(* _fail_capture; a stop that was under way is answered by the failure.     *)
FailCapture(e, code) ==
  LET g == e.capture_generation
      down == [ForcePipelineNull(ForceAllBranches(e)) EXCEPT !.stop_pending = FALSE]
      told == Emit(down, [kind |-> "error", scope |-> "capture",
                          generation |-> g, code |-> code])
  IN  IF e.stop_pending \/ e.shutdown_pending
        THEN EmitCaptureStopped(told, g) ELSE told

-----------------------------------------------------------------------------
(* The operations the runtime invokes.                                      *)

(* start_capture. An attempt that fails leaves nothing behind but its       *)
(* generation and an error.                                                 *)
StartCapture(e, plays, level) ==
  IF e.pipeline THEN e
  ELSE LET g == e.capture_generation + 1
           begun == [e EXCEPT !.capture_generation = g]
       IN  IF plays
             THEN TryAddMonitoring([begun EXCEPT !.pipeline = TRUE,
                                                 !.start_pending = g],
                                   "level", g, level)
             ELSE Emit([begun EXCEPT !.start_pending = 0],
                       [kind |-> "error", scope |-> "capture",
                        generation |-> g, code |-> "start_failed"])

StopCapture(e) ==
  IF ~e.pipeline THEN EmitCaptureStopped(e, e.capture_generation)
  ELSE LET ending == [e EXCEPT !.stop_pending = TRUE]
           monitors == BeginRemove(BeginRemove(ending, "level", FALSE),
                                   "spectrum", FALSE)
       IN  MaybeFinishCaptureStop(
             BeginRemove(BeginRemove(monitors, "stream", TRUE),
                         "recording", TRUE))

Shutdown(e) == StopCapture([e EXCEPT !.shutdown_pending = TRUE])

SetSpectrumActive(e, on, added) ==
  IF ~on THEN BeginRemove(e, "spectrum", FALSE)
  ELSE IF ~e.pipeline \/ e.active["spectrum"] # 0 THEN e
  ELSE TryAddMonitoring(e, "spectrum", e.capture_generation, added)

(* The branch is added or the call raises; what came before it stands.      *)
StartStream(e, g, added) ==
  LET t == e.active["stream"]
      alone == BeginRemove(e, "stream", TRUE)
  IN  IF t # 0 /\ e.branches[t].generation = g THEN e
      ELSE IF added THEN AddBranch(alone, "stream", g, TRUE) ELSE alone

RemoveOrMissing(e, kind, g, drain) ==
  IF e.active[kind] = 0 THEN Emit(e, Missing(kind, g))
  ELSE BeginRemove(e, kind, drain)

StopStream(e, g) == RemoveOrMissing(e, "stream", g, TRUE)

AbortStreamAttempt(e, g) ==
  LET t == e.active["stream"]
  IN  IF t # 0 /\ e.branches[t].generation # g THEN e      (* it raises     *)
      ELSE RemoveOrMissing(e, "stream", g, FALSE)

SetBitrate(e, bps) ==
  LET t == e.active["stream"]
  IN  IF t = 0 THEN e                                      (* it raises     *)
      ELSE Emit(e, [kind |-> "opus-bitrate-changed", scope |-> "stream",
                    generation |-> e.branches[t].generation, token |-> t,
                    new_bps |-> bps])

StartRecording(e, g, added) ==
  IF e.active["recording"] # 0 \/ ~added THEN e
  ELSE AddBranch(e, "recording", g, TRUE)

StopRecording(e, g) == RemoveOrMissing(e, "recording", g, TRUE)

(* The replacement is attached first, and takes the old one's place.        *)
RotateRecording(e, g, added) ==
  LET old == e.active["recording"]
      both == AddBranch(e, "recording", g, FALSE)
      rotation == [old |-> old, new |-> both.active["recording"]]
  IN  IF old = 0 \/ ~added THEN e                          (* it raises     *)
      ELSE BeginRemoveHandle([both EXCEPT !.rotations = @ \cup {rotation}],
                             old, TRUE)

-----------------------------------------------------------------------------
(* Bus messages and deferred callbacks.                                     *)

CapturePlaying(e) ==
  Emit([e EXCEPT !.start_pending = 0],
       CaptureEvent("capture-started", e.start_pending))

(* Fault: a replacement that starts playing does not complete its rotation. *)
BranchPlayingOnly(e, t) ==
  [e EXCEPT !.branches[t] = [@ EXCEPT !.playing = TRUE]]

(* A branch of an output; that a monitoring branch plays changes nothing.   *)
BranchPlaying(e, t) ==
  LET b == e.branches[t]
      announces == b.announce /\ ~b.announced
      playing == [e EXCEPT !.branches[t] =
                    [b EXCEPT !.playing = TRUE,
                              !.announced = b.announced \/ announces]]
      told == IF announces THEN Emit(playing, BranchEvent(e, "branch-added", t))
              ELSE playing
      pending == {r \in e.rotations : r.new = t}
  IN  IF pending = {} THEN told
      ELSE CompleteRotation(told, (CHOOSE r \in pending : TRUE).old, FALSE)

(* An ERROR of an output sink is a lost connection for the stream; any other *)
(* error of a branch is reported after the branch is detached.              *)
SinkError(e, t, closed) ==
  LET handled == [e EXCEPT !.branches[t].valve = "reported"]
  IN  IF e.branches[t].kind = "stream"
        THEN DetachBranch(Emit(handled, Connection(e, t, FALSE)), t, closed)
        ELSE Emit(DetachBranch(handled, t, closed), BranchEvent(e, "error", t))

BranchError(e, t, closed) ==
  Emit(DetachBranch(e, t, closed), BranchEvent(e, "error", t))

ConnectionChanged(e, t, connected) ==
  LET told == Emit(e, Connection(e, t, connected))
  IN  IF t # e.active["stream"] THEN e
      ELSE IF connected THEN told ELSE BeginRemove(told, "stream", FALSE)

HandleQueueOverrun(e, t) ==
  LET k == e.branches[t].kind
  IN  IF t # e.active[k] THEN e
      ELSE IF k = "stream"
        THEN ForceRemoveNow(Emit(e, Connection(e, t, FALSE)), t, FALSE)
        ELSE Emit(ForceRemoveNow(e, t, TRUE), BranchEvent(e, "error", t))

(* _unlink_and_drain: EOS is sent into the branch, or refused.              *)
UnlinkAndDrain(e, t, sent, closed) ==
  IF t \notin e.finalizing THEN e
  ELSE LET b == e.branches[t]
       IN  IF ~b.drain \/ b.kind \notin Output
             THEN FinishRemove(e, t, b.kind = "recording", closed)
           ELSE IF sent THEN [e EXCEPT !.branches[t].eos = "sent"]
           ELSE FinishRemove(e, t, TRUE, closed)

-----------------------------------------------------------------------------
(* The specification.                                                       *)

Init ==
  /\ engine = InitialEngine /\ posted = <<>> /\ callbacks = <<>>
  /\ scenario \in Scenarios \cap Scenario

(* A handler on the owner thread.                                           *)
Do(e) == engine' = [e EXCEPT !.out = <<>>] /\ posted' = e.out

Run(e) == Do(e) /\ UNCHANGED callbacks

(* An idle source attached by a streaming thread.                           *)
Defer(callback) ==
  /\ Len(callbacks) < scenario.waiting
  /\ callbacks' = Append(callbacks, callback)
  /\ posted' = <<>>

Generation == 1..scenario.generations
RoomFor(n) == Len(engine.branches) + n <= scenario.branches

(* The reducer asks for a stream or a recording over a running capture only, *)
(* and for a rotation of a running recording, while none is pending.        *)
MayAdd(kind) ==
  /\ kind \in scenario.driven /\ RoomFor(1)
  /\ engine.pipeline /\ engine.start_pending = 0 /\ ~engine.stop_pending

MayRotate ==
  /\ MayAdd("recording") /\ engine.rotations = {}
  /\ engine.active["recording"] # 0
  /\ engine.branches[engine.active["recording"]].playing

CaptureCommand ==
  \/ /\ engine.capture_generation < scenario.captures /\ RoomFor(1)
     /\ \E plays \in BOOLEAN, level \in scenario.level :
          Run(StartCapture(engine, plays, level))
  \/ Run(StopCapture(engine))
  \/ Run(Shutdown(engine))

SpectrumCommand ==
  \/ Run(SetSpectrumActive(engine, FALSE, TRUE))
  \/ /\ "spectrum" \in scenario.driven /\ RoomFor(1)
     /\ \E added \in BOOLEAN : Run(SetSpectrumActive(engine, TRUE, added))

StreamCommand ==
  \E g \in Generation :
    \/ /\ MayAdd("stream")
       /\ \E added \in BOOLEAN : Run(StartStream(engine, g, added))
    \/ "stream" \in scenario.driven /\ Run(StopStream(engine, g))
    \/ "stream" \in scenario.driven /\ Run(AbortStreamAttempt(engine, g))
    \/ "stream" \in scenario.driven /\ Run(SetBitrate(engine, g))

RecordingCommand ==
  \E g \in Generation :
    \/ /\ MayAdd("recording")
       /\ \E added \in BOOLEAN : Run(StartRecording(engine, g, added))
    \/ "recording" \in scenario.driven /\ Run(StopRecording(engine, g))
    \/ /\ MayRotate
       /\ \E added \in BOOLEAN : Run(RotateRecording(engine, g, added))

(* Closing fails only where there is a file to close.                       *)
Closing(t) == IF engine.branches[t].kind = "recording" THEN BOOLEAN ELSE {TRUE}

BusMessage ==
  \/ engine.start_pending # 0 /\ Run(CapturePlaying(engine))
  \/ \E t \in Held(engine) :
       \/ /\ engine.branches[t].kind \in Output /\ ~engine.branches[t].playing
          /\ Run(BranchPlaying(engine, t))
       \/ /\ engine.branches[t].valve = "dropping"
          /\ \E closed \in Closing(t) : Run(SinkError(engine, t, closed))
       \/ /\ "branch" \in scenario.faults
          /\ \E closed \in Closing(t) : Run(BranchError(engine, t, closed))
  \/ /\ "capture" \in scenario.faults /\ engine.pipeline
     /\ \E code \in {"capture_error", "device_lost"} :
          Run(FailCapture(engine, code))

(* _on_bus_sync_message: the valve is closed in the posting thread.         *)
SinkFails(t) ==
  /\ "sink" \in scenario.faults
  /\ engine.branches[t].kind \in Output /\ engine.branches[t].valve = "open"
  /\ engine' = [engine EXCEPT !.branches[t].valve = "dropping"]
  /\ posted' = <<>> /\ UNCHANGED callbacks

(* The IDLE probe of a branch being removed fires once.                     *)
PadIdle(t) ==
  /\ t \in engine.finalizing /\ ~engine.branches[t].drain_scheduled
  /\ engine' = [engine EXCEPT !.branches[t].drain_scheduled = TRUE]
  /\ Defer([call |-> "unlink_and_drain", token |-> t])

EosReachesProbe(t) ==
  /\ t \in engine.finalizing /\ engine.branches[t].eos = "sent"
  /\ engine' = [engine EXCEPT !.branches[t].eos = "seen"]
  /\ Defer([call |-> "finish_remove", token |-> t])

CallerChanges(t) ==
  /\ engine.branches[t].kind = "stream"
  /\ UNCHANGED engine
  /\ \E connected \in BOOLEAN :
       Defer([call |-> "connection_changed", token |-> t, connected |-> connected])

QueueOverrun(t) ==
  /\ "overrun" \in scenario.faults
  /\ engine.branches[t].kind \in Output
  /\ UNCHANGED engine
  /\ Defer([call |-> "handle_queue_overrun", token |-> t])

StreamingThread ==
  \E t \in Held(engine) :
    \/ SinkFails(t)
    \/ PadIdle(t)
    \/ EosReachesProbe(t)
    \/ CallerChanges(t)
    \/ QueueOverrun(t)

RunCallback ==
  /\ callbacks # <<>>
  /\ callbacks' = Tail(callbacks)
  /\ LET c == Head(callbacks)
         t == c.token
     IN  \/ /\ c.call = "unlink_and_drain"
            /\ \E sent \in BOOLEAN, closed \in Closing(t) :
                 Do(UnlinkAndDrain(engine, t, sent, closed))
         \/ /\ c.call = "finish_remove"
            /\ \E closed \in Closing(t) : Do(FinishRemove(engine, t, FALSE, closed))
         \/ /\ c.call = "connection_changed"
            /\ Do(ConnectionChanged(engine, t, c.connected))
         \/ /\ c.call = "handle_queue_overrun"
            /\ Do(HandleQueueOverrun(engine, t))

(* The timeout every removal starts with (DEFAULT_EOS_TIMEOUT_SECONDS).     *)
RemovalTimeout(t) ==
  /\ t \in engine.finalizing
  /\ \E closed \in Closing(t) : Run(FinishRemove(engine, t, TRUE, closed))

AnyRemovalTimeout == \E t \in engine.finalizing : RemovalTimeout(t)

Step ==
  \/ CaptureCommand
  \/ SpectrumCommand
  \/ StreamCommand
  \/ RecordingCommand
  \/ BusMessage
  \/ StreamingThread
  \/ RunCallback
  \/ AnyRemovalTimeout

Next == Step /\ UNCHANGED scenario

Spec == Init /\ [][Next]_vars

-----------------------------------------------------------------------------
(* Type correctness.                                                        *)

Token == DOMAIN engine.branches

(* The engine record has the shape of GStreamerEngine's fields; tokens name *)
(* branches that were added.                                                *)
TypeOK ==
  /\ engine.pipeline \in BOOLEAN
  /\ engine.stop_pending \in BOOLEAN /\ engine.shutdown_pending \in BOOLEAN
  /\ engine.capture_generation \in Nat
  /\ engine.start_pending \in 0..engine.capture_generation
  /\ engine.branches \in Seq(Branch)
  /\ engine.active \in [Kind -> Token \cup {0}]
  /\ engine.finalizing \subseteq Token
  /\ engine.rotations \subseteq [old : Token, new : Token]
  /\ engine.rotation_forced \subseteq Token
  /\ engine.out = <<>>

-----------------------------------------------------------------------------
(* Safety.                                                                  *)

(* Branches live only in a pipeline, and a capture stop in progress still   *)
(* has a branch to wait for: a stop can neither finish over a branch that   *)
(* is being finalized nor be left pending with nobody to complete it.       *)
StopWaitsForBranches ==
  /\ Held(engine) # {} => engine.pipeline
  /\ engine.stop_pending => Held(engine) # {}
  /\ engine.shutdown_pending => engine.stop_pending
  /\ engine.rotations # {} \/ engine.start_pending # 0 => engine.pipeline

(* What a stop waits for is being removed, by a drain that its timeout cuts  *)
(* short, so the stop has an end ("A branch timeout is recorded but cannot  *)
(* hold shutdown indefinitely"). The exception, an analyzer that a lease    *)
(* attaches meanwhile, is what MediaRuntime!StopHasAnEnd is about.          *)
StopWaitsForRemovals ==
  engine.stop_pending =>
    \A k \in Kind \ {"spectrum"} : engine.active[k] = 0

(* A branch is active or being removed, never both, under its own kind only, *)
(* and a branch being removed has not been forgotten by its callback.       *)
ActiveOrFinalizing ==
  \A k \in Kind :
    LET t == engine.active[k]
    IN  t # 0 => /\ t \notin engine.finalizing
                 /\ engine.branches[t].kind = k

(* A rotation is between a fragment being closed, or closed already, and    *)
(* the fragment recorded now; and once both halves are done it has been     *)
(* reported: the last of the two to happen must not be missed.              *)
RotationsComplete ==
  /\ ReadyRotations(engine) = {}
  /\ \A r \in engine.rotations :
       /\ r.old # r.new /\ r.new = engine.active["recording"]
       /\ r.old \notin engine.finalizing => ~engine.branches[r.new].playing
  /\ engine.rotation_forced \subseteq {r.old : r \in engine.rotations}

(* The engine's fields agree with each other at every moment the owner's    *)
(* thread lets go of them: over all interleavings of commands, callbacks of *)
(* streaming threads, timeouts and failures, of any generation.             *)
EngineConsistent ==
  /\ TypeOK
  /\ StopWaitsForBranches /\ StopWaitsForRemovals
  /\ ActiveOrFinalizing
  /\ RotationsComplete

-----------------------------------------------------------------------------
(* Action properties.                                                       *)

PostedRemovals(t) ==
  {i \in DOMAIN posted' :
     posted'[i].kind = "branch-removed" /\ posted'[i].token = t}

(* A branch leaves the engine with exactly one branch-removed, by whichever *)
(* of its ends it is reached: drain, timeout, overrun, error or the loss of *)
(* capture; and none is reported for a branch that is still there.          *)
RemovedOnce ==
  [][ \A t \in DOMAIN engine.branches :
        Cardinality(PostedRemovals(t)) =
          IF t \in Held(engine) \ Held(engine)' THEN 1 ELSE 0 ]_vars

(* A recording is reported removed without force only when EOS came through *)
(* its encoder, with the file's sink still sound ("A forced removal is      *)
(* never reported as a finalized fragment").                                *)
CleanFragmentsSawEos ==
  [][ \A i \in DOMAIN posted' :
        LET p == posted'[i] IN
        /\ p.kind = "branch-removed" /\ p.scope = "recording"
        /\ p.token # 0 /\ ~p.forced
        => /\ engine.branches[p.token].eos = "seen"
           /\ engine.branches[p.token].valve = "open" ]_vars

(* A rotation whose old fragment was reported removed by force is reported  *)
(* forced itself.                                                           *)
ForcedRotationsSaySo ==
  [][ \A i \in DOMAIN posted' :
        LET p == posted'[i] IN
        p.kind = "recording-rotated" /\ engine'.branches[p.old].forced =>
          p.forced ]_vars

(* Each pending stop is answered: capture-stopped is posted exactly when a  *)
(* pending stop ends, or at once when there was nothing to stop.            *)
StopAnsweredOnce ==
  [][ LET answers == {i \in DOMAIN posted' : posted'[i].kind = "capture-stopped"}
      IN  /\ engine.stop_pending /\ ~engine'.stop_pending => Cardinality(answers) = 1
          /\ answers # {} =>
               /\ Cardinality(answers) = 1
               /\ ~engine'.stop_pending /\ ~engine'.pipeline
               /\ Held(engine)' = {} ]_vars
=============================================================================
