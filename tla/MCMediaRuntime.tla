--------------------------- MODULE MCMediaRuntime ---------------------------
(* MediaRuntime in scenarios of a few commands, one trouble and a few        *)
(* branches, each of them about one of its tasks; and beside it, in behaviours*)
(* of its own, MediaEngine alone, driven by every command, bus message,      *)
(* timeout and streaming-thread callback in any order, which is more than a  *)
(* runtime asks of it.                                                       *)
EXTENDS MediaRuntime

CONSTANT EngineScenarios

VARIABLES alone, posted, callbacks, drill     (* MediaEngine's own variables *)

Alone == INSTANCE MediaEngine WITH
           engine <- alone, scenario <- drill, MaxCapture <- 2,
           Scenarios <- EngineScenarios

engineVars == <<alone, posted, callbacks, drill>>

-----------------------------------------------------------------------------
(* The scenarios of the runtime.                                             *)

Stream ==
  [commands |-> {"capture.start", "stream.start", "stream.stop"},
   bitrates |-> {64}, folders |-> {"home"}, dispatched |-> 3,
   troubles |-> {"device", "call", "caller", "overrun"}, troubled |-> 1,
   timers |-> {}, level |-> {FALSE}, mode |-> TRUE, receiver |-> TRUE,
   branches |-> 2]

Reconnect ==
  [commands |-> {"capture.start", "stream.start", "stream.stop"},
   bitrates |-> {64}, folders |-> {"home"}, dispatched |-> 3,
   troubles |-> {"sink", "call"}, troubled |-> 1,
   timers |-> {"attempt"}, level |-> {FALSE}, mode |-> TRUE, receiver |-> FALSE,
   branches |-> 3]

Waits ==
  [commands |-> {"capture.start", "stream.start", "lease.renew"},
   bitrates |-> {64}, folders |-> {"home"}, dispatched |-> 3,
   troubles |-> {"wait"}, troubled |-> 1,
   timers |-> {}, level |-> {FALSE}, mode |-> TRUE, receiver |-> TRUE,
   branches |-> 2]

Statistics ==
  [commands |-> {"capture.start", "stream.start"},
   bitrates |-> {64}, folders |-> {"home"}, dispatched |-> 2,
   troubles |-> {"branch"}, troubled |-> 1,
   timers |-> {"stats"}, level |-> {FALSE}, mode |-> TRUE, receiver |-> TRUE,
   branches |-> 2]

Bitrates ==
  [commands |-> {"capture.start", "stream.start", "stream.set_opus_bitrate"},
   bitrates |-> {64, 96}, folders |-> {"home"}, dispatched |-> 3,
   troubles |-> {"sink"}, troubled |-> 1,
   timers |-> {}, level |-> {FALSE}, mode |-> TRUE, receiver |-> TRUE,
   branches |-> 2]

Recording ==
  [commands |-> {"capture.start", "recording.start", "recording.stop"},
   bitrates |-> {64}, folders |-> {"home"}, dispatched |-> 3,
   troubles |-> {"storage", "call", "drain"}, troubled |-> 1,
   timers |-> {"storage", "rotation"}, level |-> {FALSE}, mode |-> TRUE, receiver |-> TRUE,
   branches |-> 2]

RecordingSink == [Recording EXCEPT !.troubles = {"sink"}, !.timers = {}]

ShutsDown ==
  [commands |-> {"capture.start", "stream.start", "recording.start", "service.shutdown"},
   bitrates |-> {64}, folders |-> {"home"}, dispatched |-> 4,
   troubles |-> {"call", "device"}, troubled |-> 1,
   timers |-> {}, level |-> {TRUE}, mode |-> TRUE, receiver |-> TRUE,
   branches |-> 3]

Spectrum ==
  [commands |-> {"capture.start", "capture.stop", "capture.restart", "lease.renew", "lease.release"},
   bitrates |-> {64}, folders |-> {"home"}, dispatched |-> 4,
   troubles |-> {"device", "drain", "wait"}, troubled |-> 1,
   timers |-> {}, level |-> {FALSE}, mode |-> TRUE, receiver |-> TRUE,
   branches |-> 3]

(* The configuration updated while the stream comes and goes and the        *)
(* analyzer is asked for, and while it records.                             *)
Updates ==
  [commands |-> {"capture.start", "stream.start", "stream.stop", "lease.renew", "config.update"},
   bitrates |-> {64, 96}, folders |-> {"home"}, dispatched |-> 4,
   troubles |-> {"wait", "call"}, troubled |-> 1,
   timers |-> {}, level |-> {FALSE}, mode |-> TRUE, receiver |-> FALSE,
   branches |-> 2]

UpdatesRecording ==
  [commands |-> {"capture.start", "recording.start", "recording.stop", "config.update"},
   bitrates |-> {64}, folders |-> {"home", "card"}, dispatched |-> 4,
   troubles |-> {"wait", "drain", "sink"}, troubled |-> 1,
   timers |-> {}, level |-> {FALSE}, mode |-> TRUE, receiver |-> TRUE,
   branches |-> 2]

(* No audio device was chosen yet.                                          *)
NoMode ==
  [commands |-> {"capture.start", "capture.restart", "stream.start", "config.update", "service.shutdown"},
   bitrates |-> {64, 96}, folders |-> {"home"}, dispatched |-> 3,
   troubles |-> {"wait"}, troubled |-> 1,
   timers |-> {}, level |-> {FALSE}, mode |-> FALSE, receiver |-> TRUE,
   branches |-> 2]

Startup ==
  [commands |-> {"capture.start", "stream.start", "lease.renew"},
   bitrates |-> {64}, folders |-> {"home"}, dispatched |-> 3,
   troubles |-> {}, troubled |-> 0,
   timers |-> {}, level |-> {FALSE}, mode |-> TRUE, receiver |-> TRUE,
   branches |-> 2]

Watchdog ==
  [commands |-> {"capture.start", "stream.start", "lease.renew"},
   bitrates |-> {64}, folders |-> {"home"}, dispatched |-> 3,
   troubles |-> {}, troubled |-> 0,
   timers |-> {"attempt"}, level |-> {FALSE}, mode |-> TRUE, receiver |-> TRUE,
   branches |-> 3]

Lease ==
  [commands |-> {"capture.start", "lease.renew", "lease.release"},
   bitrates |-> {64}, folders |-> {"home"}, dispatched |-> 3,
   troubles |-> {"wait"}, troubled |-> 1,
   timers |-> {}, level |-> {FALSE}, mode |-> TRUE, receiver |-> TRUE,
   branches |-> 2]

LateLease ==
  [commands |-> {"capture.start", "lease.renew", "service.shutdown"},
   bitrates |-> {64}, folders |-> {"home"}, dispatched |-> 3,
   troubles |-> {}, troubled |-> 0,
   timers |-> {}, level |-> {TRUE}, mode |-> TRUE, receiver |-> TRUE,
   branches |-> 3]

Overtaken ==
  [commands |-> {"capture.start", "capture.stop", "capture.restart", "service.shutdown"},
   bitrates |-> {64}, folders |-> {"home"}, dispatched |-> 4,
   troubles |-> {}, troubled |-> 0,
   timers |-> {}, level |-> {FALSE}, mode |-> TRUE, receiver |-> TRUE,
   branches |-> 2]

ServiceScenarios ==
  {Stream, Reconnect, Statistics, Waits, Bitrates, Recording, RecordingSink,
   ShutsDown, Spectrum, Updates, UpdatesRecording, NoMode, Overtaken}

StartupScenario == {Startup}
WatchdogScenario == {Watchdog}
LeaseScenario == {Lease}
LateLeaseScenario == {LateLease}
OvertakenScenario == {Overtaken}

-----------------------------------------------------------------------------
(* The scenarios of the engine alone.                                        *)

Rotation ==
  [driven |-> {"recording"}, generations |-> 1, level |-> {FALSE},
   faults |-> {"sink"}, captures |-> 1, branches |-> 3, waiting |-> 1]
RotationCrowded == [Rotation EXCEPT !.branches = 2, !.waiting = 2]
FaultyRecording ==
  [driven |-> {"recording"}, generations |-> 1, level |-> {TRUE},
   faults |-> {"sink", "capture", "branch", "overrun"},
   captures |-> 1, branches |-> 3, waiting |-> 1]
Captures ==
  [driven |-> {"stream", "spectrum"}, generations |-> 1, level |-> {TRUE},
   faults |-> {"sink", "capture"}, captures |-> 2, branches |-> 3, waiting |-> 1]
Attempts ==
  [driven |-> {"stream"}, generations |-> 2, level |-> {FALSE},
   faults |-> {"sink", "branch", "overrun"}, captures |-> 1, branches |-> 2,
   waiting |-> 1]
ForcedRotation ==
  [driven |-> {"recording"}, generations |-> 1, level |-> {FALSE},
   faults |-> {"sink"}, captures |-> 1, branches |-> 2, waiting |-> 1]

Drills == {Rotation, RotationCrowded, FaultyRecording, Captures, Attempts}
OneRotation == {ForcedRotation}
NoScenarios == {}

ASSUME EngineScenariosAssumption == EngineScenarios \subseteq Alone!Scenario

-----------------------------------------------------------------------------
(* A behaviour is the runtime's or the engine's, and the other one is absent.*)

Absent ==
  [driven |-> {}, generations |-> 0, level |-> {}, faults |-> {},
   captures |-> 0, branches |-> 0, waiting |-> 0]

RuntimeInit ==
  Init /\ alone = Alone!InitialEngine /\ posted = <<>> /\ callbacks = <<>> /\ drill = Absent

EngineInit ==
  /\ Alone!Init
  /\ scenario = [Startup EXCEPT !.dispatched = 0]
  /\ media = S!InitialMedia /\ effects = <<>> /\ runtime = InitialRuntime
  /\ engine = E!InitialEngine /\ queue = <<>> /\ drainer = "none" /\ idle = <<>>
  /\ left = [commands |-> 0, troubles |-> 0, called |-> {}]

MCInit == RuntimeInit \/ EngineInit

MCNext ==
  \/ drill = Absent /\ Next /\ UNCHANGED engineVars
  \/ drill # Absent /\ Alone!Next /\ UNCHANGED vars

MCSpec == MCInit /\ [][MCNext]_<<vars, engineVars>>

EngineConsistent == Alone!EngineConsistent
RemovedOnce == Alone!RemovedOnce
StopAnsweredOnce == Alone!StopAnsweredOnce
CleanFragmentsSawEos == Alone!CleanFragmentsSawEos
ForcedRotationsSaySo == Alone!ForcedRotationsSaySo

(* No step reads the effects of the decision before it or the events the     *)
(* step before it posted: states that differ in them only have the same      *)
(* successors, and the action properties are evaluated on every step all the *)
(* same.                                                                     *)
View ==
  <<media, runtime, engine, queue, drainer, idle, left, scenario, alone, callbacks, drill>>
=============================================================================
