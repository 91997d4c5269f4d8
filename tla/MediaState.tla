----------------------------- MODULE MediaState -----------------------------
(***************************************************************************)
(* The media owner's pure reducer (src/tinypirelay/media_state.py): one    *)
(* record of desired and observed media state, and for every command and   *)
(* every backend event the Decision the reducer returns for it.            *)
(*                                                                         *)
(* The operators up to Reduce are functions of a state record, so that     *)
(* MediaRuntime can apply them; the specification below them drives the    *)
(* reducer with every command and every backend event, in any order and    *)
(* with the generation of any branch that was ever started: the reducer    *)
(* has to be right whatever its callers do.                                *)
(*                                                                         *)
(* Abstracted: error messages and codes are reduced to the cause, the SRT  *)
(* statistics to the generation they were sampled from, payload syntax     *)
(* checks (which reject without a state change) are left out.              *)
(***************************************************************************)
EXTENDS Naturals, Sequences

CONSTANTS
  Revision,        (* configuration revisions, opaque                       *)
  File,            (* recording files, opaque                               *)
  None,            (* Python's None, for a revision or a file               *)
  Bitrate,         (* OPUS_BITRATES_BPS                                     *)
  StorageFault,    (* the storage statuses other than "safe"                *)
  MaxCapture,      (* bound: how often capture may be started               *)
  MaxStream,       (* bound: how often the stream may be started            *)
  MaxRecording,    (* bound: how often the recording may be started         *)
  MaxReconnect     (* bound: reconnect attempts of one stream               *)

ASSUME ConstantsAssumption ==
  /\ None \notin Revision \cup File
  /\ Bitrate \subseteq Nat \ {0}
  /\ StorageFault \subseteq {"unsafe", "unavailable", "unverified"}
  /\ {MaxCapture, MaxStream, MaxRecording, MaxReconnect} \subseteq Nat

VARIABLES
  media,           (* MediaState: the record below                          *)
  effects          (* Decision.effects of the last event                    *)

vars == <<media, effects>>

RetryDelays == <<1, 2, 4, 8, 16, 30>>       (* RETRY_DELAYS_SECONDS         *)
Opus == "opus"
Representation == {Opus, "flac"}

ServiceState == {"running", "shutting_down", "stopped"}
BranchState == {"stopped", "starting", "running", "stopping", "failed"}
RecordingState == BranchState \cup {"blocked"}
ConnectionState ==
  {"disconnected", "connecting", "connected", "retry_wait", "failed"}
Effect ==
  {"capture.start", "capture.stop", "stream.start", "stream.stop",
   "stream.set_opus_bitrate", "connection.connect",
   "connection.schedule_retry", "connection.cancel_retry",
   "recording.start", "recording.stop", "recording.rotate", "service.stop"}

(* The record is laid out as MediaState.to_dict shows it. A bitrate, a retry *)
(* delay and the statistics are 0 where the code has None or nothing.       *)
CaptureRecord ==
  [state : BranchState, generation : Nat,
   config_revision : Revision \cup {None},
   last_error : {"none", "capture_failed"}]

StreamRecord ==
  [state : BranchState, generation : Nat,
   config_revision : Revision \cup {None},
   representation_id : Representation \cup {"none"},
   opus_bitrate_bps : Bitrate \cup {0},
   pending_opus_bitrate_bps : Bitrate \cup {0},
   last_error : {"none", "stream_failed", "capture_failed",
                 "opus_bitrate_failed"}]

ConnectionRecord ==
  [state : ConnectionState, reconnect_count : Nat, consecutive_failures : Nat,
   next_retry_seconds : {0, 1, 2, 4, 8, 16, 30},
   last_error : {"none", "srt_connection_lost"},
   statistics : Nat]

RecordingRecord ==
  [state : RecordingState, generation : Nat,
   config_revision : Revision \cup {None},
   stop_target : {"none", "stopped", "blocked", "failed"},
   warning : StorageFault \cup {"none"},
   last_error : StorageFault \cup
                {"none", "recording_io_failed", "capture_failed"},
   current_file : File \cup {None}, last_finalized_file : File \cup {None},
   rotation_pending : BOOLEAN]

MediaRecord ==
  [service : ServiceState, capture : CaptureRecord, stream : StreamRecord,
   connection : ConnectionRecord, recording : RecordingRecord,
   monitoring_error : {"none", "monitoring_failed"}]

(* MediaState(): the state a fresh media service starts from.               *)
InitialMedia ==
  [service |-> "running",
   capture |-> [state |-> "stopped", generation |-> 0,
                config_revision |-> None, last_error |-> "none"],
   stream |-> [state |-> "stopped", generation |-> 0,
               config_revision |-> None, representation_id |-> "none",
               opus_bitrate_bps |-> 0, pending_opus_bitrate_bps |-> 0,
               last_error |-> "none"],
   connection |-> [state |-> "disconnected", reconnect_count |-> 0,
                   consecutive_failures |-> 0, next_retry_seconds |-> 0,
                   last_error |-> "none", statistics |-> 0],
   recording |-> [state |-> "stopped", generation |-> 0,
                  config_revision |-> None, stop_target |-> "none",
                  warning |-> "none", last_error |-> "none",
                  current_file |-> None, last_finalized_file |-> None,
                  rotation_pending |-> FALSE],
   monitoring_error |-> "none"]

-----------------------------------------------------------------------------
(* Decisions.                                                               *)

Change(s, effs) == [state |-> s, effects |-> effs, error |-> "none"]
Keep(s) == Change(s, <<>>)
Reject(s, code) == [state |-> s, effects |-> <<>>, error |-> code]

Live == {"starting", "running"}
Active == {"starting", "running", "stopping"}

(* Fault: leaving a retry wait forgets the timer.                           *)
ForgottenRetryTimer(s) == <<>>

CancelRetryEffect(s) ==
  IF s.connection.state = "retry_wait"
    THEN <<"connection.cancel_retry">> ELSE <<>>

(* effs with the effect e, once (_unique_effects).                          *)
AddEffect(effs, e) ==
  IF \E i \in DOMAIN effs : effs[i] = e THEN effs ELSE Append(effs, e)

RetryDelay(failures) ==
  RetryDelays[IF failures < 5 THEN failures + 1 ELSE 6]

Disconnected(c) ==
  [c EXCEPT !.state = "disconnected", !.next_retry_seconds = 0]

-----------------------------------------------------------------------------
(* Capture.                                                                 *)

(* Fault: a capture still stopping is started again.                        *)
CaptureStartOverStop(s, revision) ==
  IF s.capture.state \in Live THEN Keep(s)
  ELSE Change([s EXCEPT !.capture =
                 [state |-> "starting", generation |-> @.generation + 1,
                  config_revision |-> revision, last_error |-> "none"]],
              <<"capture.start">>)

CaptureStart(s, revision) ==
  IF s.capture.state \in Live
    THEN IF s.capture.config_revision = revision
           THEN Keep(s) ELSE Reject(s, "reconfigure_required")
  ELSE IF s.capture.state = "stopping" THEN Reject(s, "busy")
  ELSE Change([s EXCEPT !.capture =
                 [state |-> "starting", generation |-> @.generation + 1,
                  config_revision |-> revision, last_error |-> "none"]],
              <<"capture.start">>)

(* Fault: a recording being finalized is not counted as active.             *)
CaptureStopOverFinalizing(s) ==
  IF s.capture.state \in {"stopped", "stopping"} THEN Keep(s)
  ELSE IF s.capture.state = "starting" THEN Reject(s, "busy")
  ELSE IF s.stream.state \in Active \/ s.recording.state \in Live
    THEN Reject(s, "branch_active")
  ELSE Change([s EXCEPT !.capture.state = "stopping"], <<"capture.stop">>)

CaptureStop(s) ==
  IF s.capture.state \in {"stopped", "stopping"} THEN Keep(s)
  ELSE IF s.capture.state = "starting" THEN Reject(s, "busy")
  ELSE IF s.stream.state \in Active \/ s.recording.state \in Active
    THEN Reject(s, "branch_active")
  ELSE Change([s EXCEPT !.capture.state = "stopping"], <<"capture.stop">>)

CaptureStarted(s, g) ==
  IF g # s.capture.generation \/ s.capture.state = "running" THEN Keep(s)
  ELSE IF s.capture.state # "starting" THEN Reject(s, "invalid_transition")
  ELSE Change([s EXCEPT !.capture.state = "running"], <<>>)

CaptureStopped(s, g) ==
  IF g # s.capture.generation \/ s.capture.state = "stopped" THEN Keep(s)
  ELSE IF s.capture.state # "stopping" THEN Reject(s, "invalid_transition")
  ELSE Change([s EXCEPT !.capture = [@ EXCEPT !.state = "stopped",
                                              !.config_revision = None]],
              <<>>)

(* _fail_capture, its two halves: the stream fails with its source, a       *)
(* recording is sent to finalization.                                       *)
LoseStream(s) ==
  IF s.stream.state \notin Active THEN s
  ELSE [s EXCEPT !.stream = [@ EXCEPT !.state = "failed",
                                      !.last_error = "capture_failed",
                                      !.pending_opus_bitrate_bps = 0],
                 !.connection = Disconnected(@)]

LoseRecording(s) ==
  IF s.recording.state \notin Live THEN s
  ELSE [s EXCEPT !.recording = [@ EXCEPT !.state = "stopping",
                                         !.stop_target = "failed",
                                         !.last_error = "capture_failed",
                                         !.rotation_pending = FALSE]]

FailCapture(s) ==
  Change([LoseRecording(LoseStream(s))
            EXCEPT !.capture = [@ EXCEPT !.state = "failed",
                                         !.last_error = "capture_failed"]],
         (IF s.stream.state \in Active
            THEN CancelRetryEffect(s) \o <<"stream.stop">> ELSE <<>>)
         \o (IF s.recording.state \in Live THEN <<"recording.stop">> ELSE <<>>))

(* capture.failed and capture.device_lost differ in the error's code only.  *)
CaptureFailed(s, g) ==
  IF g # s.capture.generation \/ s.capture.state \in {"stopped", "failed"}
    THEN Keep(s) ELSE FailCapture(s)

-----------------------------------------------------------------------------
(* Stream and its SRT connection.                                           *)

StreamStart(s, revision, representation, bitrate) ==
  IF s.capture.state # "running" THEN Reject(s, "capture_not_running")
  ELSE IF s.stream.state \in Live
    THEN IF s.stream.config_revision = revision
           THEN Keep(s) ELSE Reject(s, "reconfigure_required")
  ELSE IF s.stream.state = "stopping" THEN Reject(s, "busy")
  ELSE Change(
    [s EXCEPT
       !.stream = [state |-> "starting", generation |-> @.generation + 1,
                   config_revision |-> revision,
                   representation_id |-> representation,
                   opus_bitrate_bps |->
                     IF representation = Opus THEN bitrate ELSE 0,
                   pending_opus_bitrate_bps |-> 0, last_error |-> "none"],
       !.connection = [state |-> "connecting", reconnect_count |-> 0,
                       consecutive_failures |-> 0, next_retry_seconds |-> 0,
                       last_error |-> "none", statistics |-> 0]],
    <<"stream.start">>)

StreamStop(s) ==
  IF s.stream.state \in {"stopped", "stopping"} THEN Keep(s)
  ELSE IF s.stream.state = "starting" THEN Reject(s, "busy")
  ELSE Change(
    [s EXCEPT !.stream = [@ EXCEPT !.state = "stopping",
                                   !.pending_opus_bitrate_bps = 0],
              !.connection = [Disconnected(@) EXCEPT !.consecutive_failures = 0]],
    CancelRetryEffect(s) \o <<"stream.stop">>)

StreamStarted(s, g) ==
  IF g # s.stream.generation \/ s.stream.state = "running" THEN Keep(s)
  ELSE IF s.stream.state # "starting" THEN Reject(s, "invalid_transition")
  ELSE Change([s EXCEPT !.stream.state = "running"], <<>>)

StreamStopped(s, g) ==
  IF g # s.stream.generation \/ s.stream.state = "stopped" THEN Keep(s)
  ELSE IF s.stream.state # "stopping" THEN Reject(s, "invalid_transition")
  ELSE Change(
    [s EXCEPT !.stream = [@ EXCEPT !.state = "stopped",
                                   !.config_revision = None,
                                   !.representation_id = "none",
                                   !.opus_bitrate_bps = 0,
                                   !.pending_opus_bitrate_bps = 0],
              !.connection = [Disconnected(@) EXCEPT !.consecutive_failures = 0]],
    <<>>)

StreamFailed(s, g) ==
  IF g # s.stream.generation \/ s.stream.state \in {"stopped", "failed"}
    THEN Keep(s)
  ELSE Change([s EXCEPT !.stream = [@ EXCEPT !.state = "failed",
                                             !.last_error = "stream_failed",
                                             !.pending_opus_bitrate_bps = 0],
                        !.connection = Disconnected(@)],
              CancelRetryEffect(s))

StreamSetOpusBitrate(s, bitrate) ==
  IF s.stream.state # "running" THEN Reject(s, "busy")
  ELSE IF s.stream.representation_id # Opus
    THEN Reject(s, "bitrate_not_applicable")
  ELSE IF bitrate \in {s.stream.opus_bitrate_bps,
                       s.stream.pending_opus_bitrate_bps}
    THEN Keep(s)
  ELSE IF s.stream.pending_opus_bitrate_bps # 0
    THEN Reject(s, "bitrate_change_in_progress")
  ELSE Change([s EXCEPT !.stream.pending_opus_bitrate_bps = bitrate],
              <<"stream.set_opus_bitrate">>)

OpusBitrateApplied(s, g, bitrate) ==
  IF g # s.stream.generation THEN Keep(s)
  ELSE IF \/ s.stream.state # "running"
          \/ s.stream.pending_opus_bitrate_bps # bitrate
    THEN Reject(s, "invalid_transition")
  ELSE Change([s EXCEPT !.stream = [@ EXCEPT !.opus_bitrate_bps = bitrate,
                                             !.pending_opus_bitrate_bps = 0]],
              <<>>)

OpusBitrateFailed(s, g, bitrate) ==
  IF g # s.stream.generation THEN Keep(s)
  ELSE IF \/ s.stream.state # "running"
          \/ s.stream.pending_opus_bitrate_bps # bitrate
    THEN Reject(s, "invalid_transition")
  ELSE Change([s EXCEPT !.stream = [@ EXCEPT !.pending_opus_bitrate_bps = 0,
                                             !.last_error = "opus_bitrate_failed"]],
              <<>>)

ConnectionConnected(s, g) ==
  IF g # s.stream.generation \/ s.stream.state \notin Live
       \/ s.connection.state = "connected"
    THEN Keep(s)
  ELSE IF s.connection.state \notin {"connecting", "retry_wait"}
    THEN Reject(s, "invalid_transition")
  ELSE Change([s EXCEPT !.connection = [@ EXCEPT !.state = "connected",
                                                 !.consecutive_failures = 0,
                                                 !.next_retry_seconds = 0]],
              CancelRetryEffect(s))

(* connection.lost, and connection.failed with its retryable flag.          *)
ConnectionLost(s, g, retryable) ==
  IF g # s.stream.generation \/ s.stream.state \notin Live THEN Keep(s)
  ELSE IF ~retryable
    THEN Change([s EXCEPT !.connection =
                   [@ EXCEPT !.state = "failed", !.next_retry_seconds = 0,
                             !.last_error = "srt_connection_lost"]],
                CancelRetryEffect(s))
  ELSE IF s.connection.state = "retry_wait"
    THEN Change([s EXCEPT !.connection.last_error = "srt_connection_lost"], <<>>)
  ELSE IF s.connection.state \in {"disconnected", "failed"} THEN Keep(s)
  ELSE Change([s EXCEPT !.connection =
                 [@ EXCEPT !.state = "retry_wait",
                           !.next_retry_seconds =
                             RetryDelay(s.connection.consecutive_failures),
                           !.last_error = "srt_connection_lost"]],
              <<"connection.schedule_retry">>)

ConnectionRetryDue(s, g) ==
  LET c == s.connection IN
  IF g # s.stream.generation \/ c.state # "retry_wait"
       \/ s.stream.state \notin Live
    THEN Keep(s)
  ELSE Change([s EXCEPT !.connection =
                 [c EXCEPT !.state = "connecting",
                           !.reconnect_count = c.reconnect_count + 1,
                           !.consecutive_failures = c.consecutive_failures + 1,
                           !.next_retry_seconds = 0]],
              <<"connection.connect">>)

ConnectionStats(s, g) ==
  IF g # s.stream.generation \/ s.stream.state \notin Live THEN Keep(s)
  ELSE Change([s EXCEPT !.connection.statistics = g], <<>>)

-----------------------------------------------------------------------------
(* Recording.                                                               *)

(* Fault: a recording being finalized is blocked at once, not when closed.  *)
BlockedBeforeClosed(r, status) ==
  IF r.state \in Live
    THEN [r EXCEPT !.state = "stopping", !.stop_target = "blocked",
                   !.warning = status, !.last_error = status,
                   !.rotation_pending = FALSE]
  ELSE IF r.state = "failed" THEN r
  ELSE [r EXCEPT !.state = "blocked", !.stop_target = "none",
                 !.warning = status, !.last_error = status]

(* _block_recording: an unsafe destination stops a live recording, marks    *)
(* one already finalizing, and blocks an idle one; a failed one stays.      *)
BlockedRecording(r, status) ==
  IF r.state \in Live
    THEN [r EXCEPT !.state = "stopping", !.stop_target = "blocked",
                   !.warning = status, !.last_error = status,
                   !.rotation_pending = FALSE]
  ELSE IF r.state = "stopping"
    THEN [r EXCEPT !.stop_target = "blocked", !.warning = status,
                   !.last_error = status]
  ELSE IF r.state = "failed" THEN r
  ELSE [state |-> "blocked", generation |-> r.generation,
        config_revision |-> None, stop_target |-> "none", warning |-> status,
        last_error |-> status, current_file |-> None,
        last_finalized_file |-> r.last_finalized_file,
        rotation_pending |-> FALSE]

BlockRecording(s, status) ==
  [state |-> [s EXCEPT !.recording = BlockedRecording(@, status)],
   effects |-> IF s.recording.state \in Live
                 THEN <<"recording.stop">> ELSE <<>>,
   error |-> status]

RecordingStart(s, revision, status) ==
  IF status # "safe" THEN BlockRecording(s, status)
  ELSE IF s.capture.state # "running" THEN Reject(s, "capture_not_running")
  ELSE IF s.recording.state \in Live
    THEN IF s.recording.config_revision = revision
           THEN Keep(s) ELSE Reject(s, "reconfigure_required")
  ELSE IF s.recording.state = "stopping" THEN Reject(s, "busy")
  ELSE Change(
    [s EXCEPT !.recording =
       [state |-> "starting", generation |-> @.generation + 1,
        config_revision |-> revision, stop_target |-> "none",
        warning |-> "none", last_error |-> "none", current_file |-> None,
        last_finalized_file |-> @.last_finalized_file,
        rotation_pending |-> FALSE]],
    <<"recording.start">>)

(* A recording that has come to rest in the given state.                    *)
Settled(r, state) ==
  [r EXCEPT !.state = state, !.config_revision = None, !.stop_target = "none",
            !.current_file = None, !.rotation_pending = FALSE]

RecordingStop(s) ==
  IF s.recording.state \in {"stopped", "blocked", "stopping"} THEN Keep(s)
  ELSE IF s.recording.state = "starting" THEN Reject(s, "busy")
  ELSE IF s.recording.state = "failed"
    THEN Change([s EXCEPT !.recording = Settled(@, "stopped")], <<>>)
  ELSE Change([s EXCEPT !.recording = [@ EXCEPT !.state = "stopping",
                                                !.stop_target = "stopped",
                                                !.rotation_pending = FALSE]],
              <<"recording.stop">>)

(* Fault: a rotation already under way is asked for again.                  *)
RecordingRotateAgain(s) ==
  IF s.recording.state # "running" THEN Reject(s, "busy")
  ELSE Change([s EXCEPT !.recording.rotation_pending = TRUE],
              <<"recording.rotate">>)

RecordingRotate(s) ==
  IF s.recording.state # "running" THEN Reject(s, "busy")
  ELSE IF s.recording.rotation_pending THEN Keep(s)
  ELSE Change([s EXCEPT !.recording.rotation_pending = TRUE],
              <<"recording.rotate">>)

RecordingStarted(s, g) ==
  IF g # s.recording.generation \/ s.recording.state = "running" THEN Keep(s)
  ELSE IF s.recording.state # "starting" THEN Reject(s, "invalid_transition")
  ELSE Change([s EXCEPT !.recording.state = "running"], <<>>)

RecordingStopped(s, g) ==
  IF g # s.recording.generation
       \/ s.recording.state \in {"stopped", "blocked", "failed"}
    THEN Keep(s)
  ELSE IF s.recording.state # "stopping" THEN Reject(s, "invalid_transition")
  ELSE Change([s EXCEPT !.recording =
                 Settled(@, IF @.stop_target = "none"
                              THEN "stopped" ELSE @.stop_target)], <<>>)

(* Fault: a recording being finalized is asked to stop once more.           *)
RecordingFailedStopsTwice(s, g) ==
  IF g # s.recording.generation
       \/ s.recording.state \in {"stopped", "blocked", "failed"}
    THEN Keep(s)
  ELSE Change([s EXCEPT !.recording =
                 [@ EXCEPT !.state = "stopping", !.stop_target = "failed",
                           !.last_error = "recording_io_failed",
                           !.rotation_pending = FALSE]],
              <<"recording.stop">>)

RecordingFailed(s, g) ==
  IF g # s.recording.generation
       \/ s.recording.state \in {"stopped", "blocked", "failed"}
    THEN Keep(s)
  ELSE IF s.recording.state = "starting"
    THEN Change([s EXCEPT !.recording =
                   [@ EXCEPT !.state = "failed", !.config_revision = None,
                             !.last_error = "recording_io_failed"]], <<>>)
  ELSE Change([s EXCEPT !.recording =
                 [@ EXCEPT !.state = "stopping", !.stop_target = "failed",
                           !.last_error = "recording_io_failed",
                           !.rotation_pending = FALSE]],
              IF s.recording.state = "stopping"
                THEN <<>> ELSE <<"recording.stop">>)

RecordingStorageChecked(s, g, status) ==
  IF g # s.recording.generation THEN Keep(s)
  ELSE IF status # "safe" THEN BlockRecording(s, status)
  ELSE IF s.recording.state # "blocked" THEN Keep(s)
  ELSE Change([s EXCEPT !.recording = [@ EXCEPT !.state = "stopped",
                                                !.warning = "none",
                                                !.last_error = "none"]], <<>>)

RecordingFragmentOpened(s, g, path) ==
  IF g # s.recording.generation THEN Keep(s)
  ELSE IF s.recording.state \notin {"running", "stopping"}
    THEN Reject(s, "invalid_transition")
  ELSE Change([s EXCEPT !.recording.current_file = path], <<>>)

RecordingFragmentClosed(s, g, path) ==
  LET r == s.recording
      left == IF r.current_file = path THEN None ELSE r.current_file
  IN
  IF g # r.generation THEN Keep(s)
  ELSE IF r.state \notin {"running", "stopping"}
    THEN Reject(s, "invalid_transition")
  ELSE Change([s EXCEPT !.recording = [r EXCEPT !.last_finalized_file = path,
                                                !.current_file = left]],
              <<>>)

RecordingRotationCompleted(s, g) ==
  IF g # s.recording.generation THEN Keep(s)
  ELSE Change([s EXCEPT !.recording.rotation_pending = FALSE], <<>>)

MonitoringFailed(s) ==
  Change([s EXCEPT !.monitoring_error = "monitoring_failed"], <<>>)

-----------------------------------------------------------------------------
(* Service shutdown.                                                        *)

ServiceShutdown(s) ==
  IF s.service = "shutting_down" THEN Keep(s)
  ELSE Change([s EXCEPT !.service = "shutting_down"], <<>>)

(* The stages of _advance_shutdown; each hands over to the next only when   *)
(* its own branch is quiet.                                                 *)
ShutRecording(d) ==
  IF d.state.recording.state \notin Live THEN d
  ELSE Change([d.state EXCEPT !.recording =
                 [@ EXCEPT !.state = "stopping", !.stop_target = "stopped",
                           !.rotation_pending = FALSE]],
              AddEffect(d.effects, "recording.stop"))

ShutStream(d) ==
  IF d.state.stream.state \notin Live THEN d
  ELSE Change([d.state EXCEPT !.stream = [@ EXCEPT !.state = "stopping",
                                          !.pending_opus_bitrate_bps = 0],
                              !.connection = Disconnected(@)],
              AddEffect(IF d.state.connection.state = "retry_wait"
                          THEN AddEffect(d.effects, "connection.cancel_retry")
                          ELSE d.effects,
                        "stream.stop"))

ShutCapture(d) ==
  IF d.state.capture.state \notin Live THEN d
  ELSE Change([d.state EXCEPT !.capture.state = "stopping"],
              AddEffect(d.effects, "capture.stop"))

ShutService(d) ==
  Change([d.state EXCEPT !.service = "stopped"],
         AddEffect(d.effects, "service.stop"))

(* Fault: the stages do not wait for the recording to be closed.            *)
AdvanceShutdownAtOnce(d) ==
  IF d.state.service # "shutting_down" \/ d.error # "none" THEN d
  ELSE LET streamed == ShutStream(ShutRecording(d)) IN
    IF "stopping" \in {streamed.state.recording.state,
                       streamed.state.stream.state} THEN streamed
    ELSE LET captured == ShutCapture(streamed) IN
      IF captured.state.capture.state = "stopping" THEN captured
      ELSE ShutService(captured)

AdvanceShutdown(d) ==
  IF d.state.service # "shutting_down" \/ d.error # "none" THEN d
  ELSE LET recorded == ShutRecording(d) IN
    IF recorded.state.recording.state = "stopping" THEN recorded
    ELSE LET streamed == ShutStream(recorded) IN
      IF streamed.state.stream.state = "stopping" THEN streamed
      ELSE LET captured == ShutCapture(streamed) IN
        IF captured.state.capture.state = "stopping" THEN captured
        ELSE ShutService(captured)

(* reduce() for a command: refused unless the service is running.           *)
OnCommand(s, d) ==
  IF s.service # "running" THEN Reject(s, "service_shutting_down") ELSE d

(* Fault: an event during shutdown does not push it on.                     *)
OnEventWithoutAdvance(s, d) ==
  IF s.service = "stopped" THEN Keep(s)
  ELSE IF s.service = "running" THEN AdvanceShutdown(d) ELSE d

(* reduce() for a backend event or service.shutdown: ignored once stopped,  *)
(* and every event pushes a shutdown under way as far as it can go.         *)
OnEvent(s, d) == IF s.service = "stopped" THEN Keep(s) ELSE AdvanceShutdown(d)

Reduce(s, e) ==
  CASE e.name = "service.shutdown" ->
         OnEvent(s, ServiceShutdown(s))
    [] e.name = "capture.start" ->
         OnCommand(s, CaptureStart(s, e.config_revision))
    [] e.name = "capture.stop" ->
         OnCommand(s, CaptureStop(s))
    [] e.name = "capture.started" ->
         OnEvent(s, CaptureStarted(s, e.generation))
    [] e.name = "capture.stopped" ->
         OnEvent(s, CaptureStopped(s, e.generation))
    [] e.name = "capture.failed" ->
         OnEvent(s, CaptureFailed(s, e.generation))
    [] e.name = "stream.start" ->
         OnCommand(s, StreamStart(s, e.config_revision, e.representation_id,
                                  e.opus_bitrate_bps))
    [] e.name = "stream.stop" ->
         OnCommand(s, StreamStop(s))
    [] e.name = "stream.started" ->
         OnEvent(s, StreamStarted(s, e.generation))
    [] e.name = "stream.stopped" ->
         OnEvent(s, StreamStopped(s, e.generation))
    [] e.name = "stream.failed" ->
         OnEvent(s, StreamFailed(s, e.generation))
    [] e.name = "stream.set_opus_bitrate" ->
         OnCommand(s, StreamSetOpusBitrate(s, e.bitrate_bps))
    [] e.name = "stream.opus_bitrate_applied" ->
         OnEvent(s, OpusBitrateApplied(s, e.generation, e.bitrate_bps))
    [] e.name = "stream.opus_bitrate_failed" ->
         OnEvent(s, OpusBitrateFailed(s, e.generation, e.bitrate_bps))
    [] e.name = "connection.connected" ->
         OnEvent(s, ConnectionConnected(s, e.generation))
    [] e.name = "connection.lost" ->
         OnEvent(s, ConnectionLost(s, e.generation, e.retryable))
    [] e.name = "connection.retry_due" ->
         OnEvent(s, ConnectionRetryDue(s, e.generation))
    [] e.name = "connection.stats" ->
         OnEvent(s, ConnectionStats(s, e.generation))
    [] e.name = "recording.start" ->
         OnCommand(s, RecordingStart(s, e.config_revision, e.storage_status))
    [] e.name = "recording.stop" ->
         OnCommand(s, RecordingStop(s))
    [] e.name = "recording.rotate" ->
         OnCommand(s, RecordingRotate(s))
    [] e.name = "recording.started" ->
         OnEvent(s, RecordingStarted(s, e.generation))
    [] e.name = "recording.stopped" ->
         OnEvent(s, RecordingStopped(s, e.generation))
    [] e.name = "recording.failed" ->
         OnEvent(s, RecordingFailed(s, e.generation))
    [] e.name = "recording.storage_checked" ->
         OnEvent(s, RecordingStorageChecked(s, e.generation, e.storage_status))
    [] e.name = "recording.fragment_opened" ->
         OnEvent(s, RecordingFragmentOpened(s, e.generation, e.path))
    [] e.name = "recording.fragment_closed" ->
         OnEvent(s, RecordingFragmentClosed(s, e.generation, e.path))
    [] e.name = "recording.rotation_completed" ->
         OnEvent(s, RecordingRotationCompleted(s, e.generation))
    [] e.name = "monitoring.failed" ->
         OnEvent(s, MonitoringFailed(s))
    [] OTHER -> Reject(s, "invalid_command")

-----------------------------------------------------------------------------
(* The events: commands come from the control socket and the timers, the    *)
(* others from the backend, for any generation it was ever given.           *)

StorageStatus == {"safe"} \cup StorageFault

PlainEvent(names) == [name : names]
RevisionEvent(names) == [name : names, config_revision : Revision]
GenerationEvent(names, last) == [name : names, generation : 1..last]
BitrateEvent(names, last) ==
  [name : names, generation : 1..last, bitrate_bps : Bitrate]
FileEvent(names, last) == [name : names, generation : 1..last, path : File]

Command ==
  PlainEvent({"capture.stop", "stream.stop", "recording.stop",
              "recording.rotate"})
  \cup RevisionEvent({"capture.start"})
  \cup [name : {"stream.start"}, config_revision : Revision,
        representation_id : Representation, opus_bitrate_bps : Bitrate]
  \cup [name : {"stream.set_opus_bitrate"}, bitrate_bps : Bitrate]
  \cup [name : {"recording.start"}, config_revision : Revision,
        storage_status : StorageStatus]

CaptureEvent(s) ==
  GenerationEvent({"capture.started", "capture.stopped", "capture.failed"},
                  s.capture.generation)

StreamEvent(s) ==
  GenerationEvent({"stream.started", "stream.stopped", "stream.failed",
                   "connection.connected", "connection.retry_due",
                   "connection.stats"}, s.stream.generation)
  \cup BitrateEvent({"stream.opus_bitrate_applied",
                     "stream.opus_bitrate_failed"}, s.stream.generation)
  \cup [name : {"connection.lost"}, generation : 1..s.stream.generation,
        retryable : BOOLEAN]

RecordingEvent(s) ==
  GenerationEvent({"recording.started", "recording.stopped",
                   "recording.failed", "recording.rotation_completed"},
                  s.recording.generation)
  \cup FileEvent({"recording.fragment_opened", "recording.fragment_closed"},
                 s.recording.generation)
  \cup [name : {"recording.storage_checked"},
        generation : 0..s.recording.generation,
        storage_status : StorageStatus]

Event(s) ==
  Command \cup CaptureEvent(s) \cup StreamEvent(s) \cup RecordingEvent(s)
  \cup PlainEvent({"service.shutdown", "monitoring.failed"})

-----------------------------------------------------------------------------
(* The specification.                                                       *)

Init == media = InitialMedia /\ effects = <<>>

Handle(e) ==
  LET d == Reduce(media, e) IN media' = d.state /\ effects' = d.effects

(* Bounds of the model, not of the code.                                    *)
WithinBounds(e) ==
  /\ e.name = "capture.start" => media.capture.generation < MaxCapture
  /\ e.name = "stream.start" => media.stream.generation < MaxStream
  /\ e.name = "recording.start" => media.recording.generation < MaxRecording
  /\ e.name = "connection.retry_due" => media.connection.reconnect_count < MaxReconnect

HandleCommand == \E e \in Command : WithinBounds(e) /\ Handle(e)
HandleCaptureEvent == \E e \in CaptureEvent(media) : Handle(e)
HandleStreamEvent == \E e \in StreamEvent(media) : WithinBounds(e) /\ Handle(e)
HandleRecordingEvent == \E e \in RecordingEvent(media) : Handle(e)
HandleMonitoringFailed == Handle([name |-> "monitoring.failed"])
HandleShutdown == Handle([name |-> "service.shutdown"])

Next ==
  \/ HandleCommand
  \/ HandleCaptureEvent
  \/ HandleStreamEvent
  \/ HandleRecordingEvent
  \/ HandleMonitoringFailed
  \/ HandleShutdown

Spec == Init /\ [][Next]_vars

(* A branch that is stopping is acknowledged in the end: the engine answers  *)
(* every stop with branch-removed (after EOS_TIMEOUT_SECONDS if need be) or  *)
(* capture-stopped, and the runtime turns it into this event. A lease renewed *)
(* while capture stops can hold that answer until the service's own deadline *)
(* (StopHasAnEnd of MediaRuntime): of such a stop this promises too much.    *)
AcknowledgeStop(branch, event) ==
  /\ media[branch].state = "stopping"
  /\ Handle([name |-> event, generation |-> media[branch].generation])

Acknowledgements ==
  /\ WF_vars(AcknowledgeStop("capture", "capture.stopped"))
  /\ WF_vars(AcknowledgeStop("stream", "stream.stopped"))
  /\ WF_vars(AcknowledgeStop("recording", "recording.stopped"))

FairSpec == Spec /\ Acknowledgements

-----------------------------------------------------------------------------
(* Type correctness.                                                        *)

(* The state record always has the fields and ranges of MediaState, and the *)
(* effects are ones the runtime knows how to dispatch.                      *)
TypeOK == media \in MediaRecord /\ effects \in Seq(Effect)

(* Safety. The parts are predicates of a state record, so that they can be  *)
(* proved of Reduce and used of any module that applies it.                 *)

SourceHeld(s) ==
  /\ s.stream.state \in Live \/ s.recording.state \in Live =>
       s.capture.state = "running"
  /\ s.recording.state = "stopping" =>
       s.capture.state \notin {"stopped", "stopping"}

(* A stream or a recording is live only over a running capture, and capture *)
(* is never being stopped, or stopped, while a recording is still being     *)
(* finalized: whatever order commands, failures and late acknowledgements   *)
(* arrive in, the file is closed before its source is taken away.           *)
BranchesHoldTheirSource == SourceHeld(media)

BranchStates(s) == {s.recording.state, s.stream.state, s.capture.state}

Waiting(s) == s.service = "shutting_down" => "stopping" \in BranchStates(s)

Quiet(s) == s.service = "stopped" => BranchStates(s) \cap Active = {}

(* A shutdown under way always waits for the acknowledgement of a stop it   *)
(* asked for, so it cannot be stuck with nothing to wait for; and a stopped *)
(* service has left no branch behind. Faults that arrive during shutdown,   *)
(* storage faults included (their decisions skip the shutdown step), must   *)
(* not break it.                                                            *)
ShutdownNeverStuck == Waiting(media) /\ Quiet(media)

RetryCoherent(s) ==
  /\ (s.stream.state \in Live) = (s.connection.state # "disconnected")
  /\ s.connection.next_retry_seconds =
       IF s.connection.state = "retry_wait"
         THEN RetryDelay(s.connection.consecutive_failures) ELSE 0
  /\ s.connection.consecutive_failures <= s.connection.reconnect_count
  /\ s.connection.state = "connected" => s.connection.consecutive_failures = 0
  /\ s.connection.statistics \in {0, s.stream.generation}

(* The connection state belongs to a live stream, a delay is announced      *)
(* exactly while a retry is awaited and is the backoff step for the         *)
(* failures so far, a connected stream has none, and the statistics shown   *)
(* are never those of an earlier stream.                                    *)
RetryStateCoherent == RetryCoherent(media)

RecordingCoherent(s) ==
  LET r == s.recording IN
  /\ (r.state = "stopping") = (r.stop_target # "none")
  /\ r.rotation_pending => r.state = "running"
  /\ r.current_file # None => r.state \in {"running", "stopping"}
  /\ "blocked" \in {r.state, r.stop_target} => r.warning # "none"
  /\ "failed" \in {r.state, r.stop_target} => r.last_error # "none"
  /\ r.state \in Live => r.warning = "none"

(* What a snapshot says of the recording fits its state: a stop target just *)
(* while stopping, a pending rotation only while running, a current file    *)
(* only while one can be open, a warning whenever blocked or about to be,   *)
(* an error whenever failed or about to be, no warning over a live one.     *)
RecordingFieldsCoherent == RecordingCoherent(media)

BitrateCoherent(s) ==
  s.stream.pending_opus_bitrate_bps # 0 =>
    /\ s.stream.state = "running"
    /\ s.stream.representation_id = Opus
    /\ s.stream.pending_opus_bitrate_bps # s.stream.opus_bitrate_bps

(* A bitrate change is pending only on a running Opus stream and never for  *)
(* the bitrate already in force, so a late acknowledgement cannot apply it  *)
(* to another representation or to a later stream.                          *)
PendingBitrateCoherent == BitrateCoherent(media)

(* Handling the same command or event a second time changes nothing and     *)
(* asks for nothing ("exact repeated operations are idempotent"):           *)
(* duplicated acknowledgements and retried commands are harmless.           *)
DuplicatesHarmless ==
  \A e \in Event(media) :
    LET once == Reduce(media, e).state
        twice == Reduce(once, e)
    IN  twice.state = once /\ twice.effects = <<>>

(* The fields of the state fit each other between any two events: service,  *)
(* connection and retry, pending bitrate, and the recording's target,       *)
(* warning, error, file and rotation.                                       *)
StateCoherent ==
  /\ TypeOK /\ ShutdownNeverStuck
  /\ RetryStateCoherent /\ PendingBitrateCoherent
  /\ RecordingFieldsCoherent

-----------------------------------------------------------------------------
(* Action properties.                                                       *)

Requested(effect) == \E i \in DOMAIN effects' : effects'[i] = effect
Enters(branch, value) ==
  media[branch].state # value /\ media'[branch].state = value

(* A branch is waited for exactly when its stop was asked for in the same   *)
(* step: none enters stopping without the request to the backend, and a     *)
(* recording or capture stop is never requested twice.                      *)
StopsAreRequested ==
  [][ /\ Enters("recording", "stopping") = Requested("recording.stop")
      /\ Enters("capture", "stopping") = Requested("capture.stop")
      /\ Enters("stream", "stopping") => Requested("stream.stop")
      /\ Requested("stream.stop") =>
           Enters("stream", "stopping") \/ Enters("capture", "failed")
    ]_vars

(* The retry timer follows the wait: scheduled exactly on entering it, and  *)
(* cancelled or fired on leaving it, so no timer outlives its reason.       *)
RetryTimerFollowsWait ==
  [][ /\ Enters("connection", "retry_wait") =
           Requested("connection.schedule_retry")
      /\ media.connection.state = "retry_wait" /\ media'.connection.state # "retry_wait" =>
           \/ Requested("connection.cancel_retry")
           \/ Requested("connection.connect")
    ]_vars

(* During shutdown the stream is stopped only once the recording is         *)
(* finalized, capture only once both are, and the service stops last        *)
(* ("shutdown finalizes recording, stops stream and retry, ... stops        *)
(* capture, then completes the service").                                   *)
ShutdownInOrder ==
  [][ media'.service # "running" =>
      /\ Enters("stream", "stopping") => media'.recording.state \notin Active
      /\ Enters("capture", "stopping") =>
           {media'.recording.state, media'.stream.state} \cap Active = {}
      /\ Requested("service.stop") =
           (media.service # "stopped" /\ media'.service = "stopped")
    ]_vars

(* A new generation is taken only by starting a branch that was not active, *)
(* one at a time, so a generation never names two branches and a late       *)
(* acknowledgement cannot be mistaken for another branch's.                 *)
GenerationsNameOneBranch ==
  [][ \A b \in {"capture", "stream", "recording"} :
        IF media'[b].generation = media[b].generation
          THEN ~Enters(b, "starting")
          ELSE /\ media'[b].generation = media[b].generation + 1
               /\ media[b].state \notin Active
               /\ media'[b].state = "starting" ]_vars

(* Liveness: with a backend that acknowledges its stops, and no other help, *)
(* a shutdown completes, whatever else keeps arriving.                      *)
ShutdownCompletes ==
  media.service = "shutting_down" ~> media.service = "stopped"
=============================================================================
