-------------------------- MODULE MediaStateProofs --------------------------
(***************************************************************************)
(* Proofs about the reducer of MediaState, for every value of its          *)
(* constants. The inductive invariant is Good of the state record; it is   *)
(* preserved by every operation of the reducer (one lemma each), by the    *)
(* shutdown stages, hence by Reduce, hence by every step.                  *)
(***************************************************************************)
EXTENDS MediaState, SequenceTheorems, TLAPS

(* What every operation keeps of a state record.                            *)
Coherent(s) ==
  /\ s \in MediaRecord
  /\ SourceHeld(s)
  /\ RetryCoherent(s)
  /\ RecordingCoherent(s)
  /\ BitrateCoherent(s)

(* The inductive invariant of a state record: what the operations keep, and *)
(* what the shutdown stages re-establish.                                   *)
Good(s) == Coherent(s) /\ Waiting(s) /\ Quiet(s)

(* A decision the shutdown stages may go on from: coherent, the service     *)
(* untouched, and, since an error skips the stages, a decision with an      *)
(* error still waits for a stop if the state did.                           *)
Sound(s, d) ==
  /\ Coherent(d.state)
  /\ d.effects \in Seq(Effect)
  /\ d.state.service = s.service
  /\ d.error # "none" /\ "stopping" \in BranchStates(s) =>
       "stopping" \in BranchStates(d.state)

-----------------------------------------------------------------------------
(* Types of the parts.                                                      *)

(* A record's branches have their branch's type.                            *)
LEMMA Parts ==
  ASSUME NEW s \in MediaRecord
  PROVE  /\ s.service \in ServiceState
         /\ s.capture \in CaptureRecord
         /\ s.stream \in StreamRecord
         /\ s.connection \in ConnectionRecord
         /\ s.recording \in RecordingRecord
  BY DEF MediaRecord

(* Replacing the capture branch keeps the type and the other branches.      *)
LEMMA PutCapture ==
  ASSUME NEW s \in MediaRecord, NEW r \in CaptureRecord
  PROVE  LET t == [s EXCEPT !.capture = r] IN
         /\ t \in MediaRecord
         /\ t.capture = r /\ t.stream = s.stream /\ t.recording = s.recording
         /\ t.connection = s.connection /\ t.service = s.service
  BY DEF MediaRecord

(* Replacing the stream and its connection, likewise.                       *)
LEMMA PutStream ==
  ASSUME NEW s \in MediaRecord, NEW r \in StreamRecord,
         NEW c \in ConnectionRecord
  PROVE  LET t == [s EXCEPT !.stream = r, !.connection = c] IN
         /\ t \in MediaRecord
         /\ t.stream = r /\ t.connection = c
         /\ t.capture = s.capture /\ t.recording = s.recording
         /\ t.service = s.service
  BY DEF MediaRecord

(* Replacing the stream only, likewise.                                     *)
LEMMA PutStreamOnly ==
  ASSUME NEW s \in MediaRecord, NEW r \in StreamRecord
  PROVE  LET t == [s EXCEPT !.stream = r] IN
         /\ t \in MediaRecord
         /\ t.stream = r /\ t.connection = s.connection
         /\ t.capture = s.capture /\ t.recording = s.recording
         /\ t.service = s.service
  BY DEF MediaRecord

(* Replacing the connection only, likewise.                                 *)
LEMMA PutConnection ==
  ASSUME NEW s \in MediaRecord, NEW c \in ConnectionRecord
  PROVE  LET t == [s EXCEPT !.connection = c] IN
         /\ t \in MediaRecord
         /\ t.stream = s.stream /\ t.connection = c
         /\ t.capture = s.capture /\ t.recording = s.recording
         /\ t.service = s.service
  BY DEF MediaRecord

(* Replacing the recording branch, likewise.                                *)
LEMMA PutRecording ==
  ASSUME NEW s \in MediaRecord, NEW r \in RecordingRecord
  PROVE  LET t == [s EXCEPT !.recording = r] IN
         /\ t \in MediaRecord
         /\ t.recording = r /\ t.stream = s.stream /\ t.capture = s.capture
         /\ t.connection = s.connection /\ t.service = s.service
  BY DEF MediaRecord

(* The fields of a disconnected connection.                                 *)
LEMMA DisconnectedType ==
  ASSUME NEW c \in ConnectionRecord
  PROVE  /\ Disconnected(c) \in ConnectionRecord
         /\ [Disconnected(c) EXCEPT !.consecutive_failures = 0]
              \in ConnectionRecord
  BY DEF Disconnected, ConnectionRecord, ConnectionState

(* One effect, and one effect after a cancelled retry, are effect lists.    *)
LEMMA EffectLists ==
  ASSUME NEW s
  PROVE  /\ <<>> \in Seq(Effect)
         /\ \A e \in Effect : <<e>> \in Seq(Effect)
         /\ CancelRetryEffect(s) \in Seq(Effect)
         /\ \A e \in Effect : CancelRetryEffect(s) \o <<e>> \in Seq(Effect)
<1>1. <<>> \in Seq(Effect)
  OBVIOUS
<1>2. \A e \in Effect : <<e>> \in Seq(Effect)
  OBVIOUS
<1>3. CancelRetryEffect(s) \in Seq(Effect)
  BY <1>1, <1>2 DEF CancelRetryEffect, Effect
<1>4. \A e \in Effect : CancelRetryEffect(s) \o <<e>> \in Seq(Effect)
  BY <1>2, <1>3, ConcatProperties
<1> QED
  BY <1>1, <1>2, <1>3, <1>4

(* Appending an effect keeps an effect list one.                            *)
LEMMA AddEffectType ==
  ASSUME NEW q \in Seq(Effect), NEW e \in Effect
  PROVE  AddEffect(q, e) \in Seq(Effect)
  BY DEF AddEffect

(* The backoff step is always one of the announced delays.                  *)
LEMMA RetryDelayType ==
  ASSUME NEW n \in Nat
  PROVE  RetryDelay(n) \in {1, 2, 4, 8, 16, 30}
  BY DEF RetryDelay, RetryDelays

(* A decision that keeps the state is sound.                                *)
LEMMA KeepSound ==
  ASSUME NEW s, Coherent(s)
  PROVE  /\ Sound(s, Keep(s))
         /\ \A code : Sound(s, Reject(s, code))
  BY EffectLists DEF Sound, Keep, Reject, Change

(* A change that keeps the service is sound if the new state is coherent.   *)
LEMMA ChangeSound ==
  ASSUME NEW s, NEW t, Coherent(t), t.service = s.service,
         NEW effs \in Seq(Effect)
  PROVE  Sound(s, Change(t, effs))
  BY DEF Sound, Change

-----------------------------------------------------------------------------
(* What is left to show when one branch changes.                            *)

(* A new capture branch only has to hold what is over it.                   *)
LEMMA CaptureFrame ==
  ASSUME NEW s, Coherent(s), NEW r \in CaptureRecord,
         SourceHeld([s EXCEPT !.capture = r]), NEW effs \in Seq(Effect)
  PROVE  Sound(s, Change([s EXCEPT !.capture = r], effs))
<1> DEFINE t == [s EXCEPT !.capture = r]
<1>1. /\ t \in MediaRecord /\ t.service = s.service /\ t.stream = s.stream
      /\ t.connection = s.connection /\ t.recording = s.recording
  BY PutCapture DEF Coherent
<1>2. RetryCoherent(t) /\ RecordingCoherent(t) /\ BitrateCoherent(t)
  BY <1>1 DEF Coherent, RetryCoherent, RecordingCoherent, BitrateCoherent
<1> QED
  BY <1>1, <1>2, ChangeSound DEF Coherent

(* A new stream and connection have to fit each other and their source.     *)
LEMMA StreamFrame ==
  ASSUME NEW s, Coherent(s), NEW r \in StreamRecord, NEW c \in ConnectionRecord,
         NEW effs \in Seq(Effect),
         r.state \in Live => s.capture.state = "running",
         \A t : t.stream = r /\ t.connection = c =>
                  RetryCoherent(t) /\ BitrateCoherent(t)
  PROVE  LET t == [s EXCEPT !.stream = r, !.connection = c] IN
         Coherent(t) /\ Sound(s, Change(t, effs))
<1> DEFINE t == [s EXCEPT !.stream = r, !.connection = c]
<1>. s \in MediaRecord
  BY DEF Coherent
<1>1. /\ t \in MediaRecord /\ t.service = s.service /\ t.capture = s.capture
      /\ t.stream = r /\ t.connection = c /\ t.recording = s.recording
  BY DEF MediaRecord
<1>2. RecordingCoherent(t) /\ SourceHeld(t)
  BY <1>1 DEF Coherent, RecordingCoherent, SourceHeld
<1>3. RetryCoherent(t) /\ BitrateCoherent(t)
  BY <1>1
<1>4. Coherent(t)
  BY <1>1, <1>2, <1>3 DEF Coherent
<1> QED
  BY <1>1, <1>4, ChangeSound

(* A new recording has to be coherent and to have its source.               *)
LEMMA RecordingFrame ==
  ASSUME NEW s, Coherent(s), NEW r \in RecordingRecord,
         NEW effs \in Seq(Effect),
         r.state \in Live => s.capture.state = "running",
         r.state = "stopping" =>
           s.capture.state \notin {"stopped", "stopping"},
         \A t : t.recording = r => RecordingCoherent(t)
  PROVE  LET t == [s EXCEPT !.recording = r] IN
         Coherent(t) /\ Sound(s, Change(t, effs))
<1> DEFINE t == [s EXCEPT !.recording = r]
<1>1. /\ t \in MediaRecord /\ t.service = s.service /\ t.capture = s.capture
      /\ t.stream = s.stream /\ t.connection = s.connection /\ t.recording = r
  BY PutRecording DEF Coherent
<1>2. RetryCoherent(t) /\ BitrateCoherent(t) /\ SourceHeld(t)
  BY <1>1 DEF Coherent, RetryCoherent, BitrateCoherent, SourceHeld
<1>3. Coherent(t)
  BY <1>1, <1>2 DEF Coherent
<1> QED
  BY <1>1, <1>3, ChangeSound

-----------------------------------------------------------------------------
(* Capture.                                                                 *)

(* Starting capture is sound: it is not live, so no branch is either.       *)
LEMMA CaptureStartSound ==
  ASSUME NEW s, Coherent(s), NEW r \in Revision
  PROVE  Sound(s, CaptureStart(s, r))
<1> DEFINE c == [state |-> "starting", generation |-> s.capture.generation + 1,
                 config_revision |-> r, last_error |-> "none"]
<1>1. s \in MediaRecord /\ c \in CaptureRecord
  BY Parts DEF Coherent, CaptureRecord, BranchState
<1>2. ASSUME s.capture.state \notin Live \cup {"stopping"}
      PROVE  SourceHeld([s EXCEPT !.capture = c])
  BY <1>1, <1>2, PutCapture DEF Coherent, SourceHeld, Live
<1>3. <<"capture.start">> \in Seq(Effect)
  BY EffectLists DEF Effect
<1>4. s.capture.state \notin Live \cup {"stopping"} =>
        Sound(s, Change([s EXCEPT !.capture = c], <<"capture.start">>))
  BY <1>1, <1>2, <1>3, CaptureFrame
<1> QED
  BY <1>4, KeepSound DEF CaptureStart

(* Stopping capture is sound: every branch over it is at rest.              *)
LEMMA CaptureStopSound ==
  ASSUME NEW s, Coherent(s)
  PROVE  Sound(s, CaptureStop(s))
<1> DEFINE c == [s.capture EXCEPT !.state = "stopping"]
           idle == /\ s.stream.state \notin Active
                   /\ s.recording.state \notin Active
<1>1. s \in MediaRecord /\ c \in CaptureRecord
  BY Parts DEF Coherent, CaptureRecord, BranchState
<1>2. ASSUME idle PROVE SourceHeld([s EXCEPT !.capture = c])
  BY <1>1, <1>2, PutCapture DEF Coherent, SourceHeld, Live, Active
<1>3. <<"capture.stop">> \in Seq(Effect)
  BY EffectLists DEF Effect
<1>4. idle => Sound(s, Change([s EXCEPT !.capture = c], <<"capture.stop">>))
  BY <1>1, <1>2, <1>3, CaptureFrame
<1>5. [s EXCEPT !.capture = c] = [s EXCEPT !.capture.state = "stopping"]
  OBVIOUS
<1> QED
  BY <1>4, <1>5, KeepSound DEF CaptureStop

(* An acknowledged start only makes the capture running.                    *)
LEMMA CaptureStartedSound ==
  ASSUME NEW s, Coherent(s), NEW g
  PROVE  Sound(s, CaptureStarted(s, g))
<1> DEFINE c == [s.capture EXCEPT !.state = "running"]
<1>1. s \in MediaRecord /\ c \in CaptureRecord /\ c.state = "running"
  BY Parts DEF Coherent, CaptureRecord, BranchState
<1>2. SourceHeld([s EXCEPT !.capture = c])
  BY <1>1, PutCapture DEF Coherent, SourceHeld
<1>3. Sound(s, Change([s EXCEPT !.capture = c], <<>>))
  BY <1>1, <1>2, CaptureFrame, EffectLists
<1>4. [s EXCEPT !.capture = c] = [s EXCEPT !.capture.state = "running"]
  OBVIOUS
<1> QED
  BY <1>3, <1>4, KeepSound DEF CaptureStarted

(* An acknowledged stop leaves nothing over it: nothing was live over a     *)
(* stopping capture.                                                        *)
LEMMA CaptureStoppedSound ==
  ASSUME NEW s, Coherent(s), NEW g
  PROVE  Sound(s, CaptureStopped(s, g))
<1> DEFINE c == [s.capture EXCEPT !.state = "stopped",
                                  !.config_revision = None]
<1>1. s \in MediaRecord /\ c \in CaptureRecord /\ c.state = "stopped"
  BY Parts DEF Coherent, CaptureRecord, BranchState
<1>2. ASSUME s.capture.state = "stopping"
      PROVE  SourceHeld([s EXCEPT !.capture = c])
  BY <1>1, <1>2, PutCapture DEF Coherent, SourceHeld
<1>3. s.capture.state = "stopping" =>
        Sound(s, Change([s EXCEPT !.capture = c], <<>>))
  BY <1>1, <1>2, CaptureFrame, EffectLists
<1> QED
  BY <1>3, KeepSound DEF CaptureStopped

(* A lost stream is failed, its connection disconnected, the rest kept.     *)
LEMMA LoseStreamSound ==
  ASSUME NEW s, Coherent(s)
  PROVE  /\ Coherent(LoseStream(s))
         /\ LoseStream(s).stream.state \notin Active
         /\ LoseStream(s).service = s.service
         /\ LoseStream(s).capture = s.capture
         /\ LoseStream(s).recording = s.recording
<1> DEFINE r == [s.stream EXCEPT !.state = "failed",
                                 !.last_error = "capture_failed",
                                 !.pending_opus_bitrate_bps = 0]
           c == Disconnected(s.connection)
           t == [s EXCEPT !.stream = r, !.connection = c]
<1>1. s \in MediaRecord
  BY DEF Coherent
<1>2. r \in StreamRecord /\ c \in ConnectionRecord
  BY <1>1, Parts, DisconnectedType DEF StreamRecord, BranchState
<1>3. /\ r.state = "failed" /\ r.pending_opus_bitrate_bps = 0
      /\ r.generation = s.stream.generation
  BY <1>1, Parts DEF StreamRecord
<1>4. /\ c.state = "disconnected" /\ c.next_retry_seconds = 0
      /\ c.consecutive_failures = s.connection.consecutive_failures
      /\ c.reconnect_count = s.connection.reconnect_count
      /\ c.statistics = s.connection.statistics
  BY <1>1, Parts DEF ConnectionRecord, Disconnected
<1>5. \A u : u.stream = r /\ u.connection = c =>
               RetryCoherent(u) /\ BitrateCoherent(u)
  BY <1>3, <1>4 DEF Coherent, RetryCoherent, BitrateCoherent, Live
<1>6. Coherent(t)
  BY <1>2, <1>3, <1>5, StreamFrame, EffectLists DEF Live
<1>7. /\ t.service = s.service /\ t.capture = s.capture
      /\ t.recording = s.recording /\ t.stream = r
  BY <1>1 DEF MediaRecord
<1> QED
  BY <1>3, <1>6, <1>7 DEF LoseStream, Active

(* A recording that lost its source is sent to finalization over it.        *)
LEMMA LoseRecordingSound ==
  ASSUME NEW s, Coherent(s)
  PROVE  /\ Coherent(LoseRecording(s))
         /\ LoseRecording(s).recording.state \notin Live
         /\ LoseRecording(s).service = s.service
         /\ LoseRecording(s).capture = s.capture
         /\ LoseRecording(s).stream = s.stream
<1> DEFINE r == [s.recording EXCEPT !.state = "stopping",
                                    !.stop_target = "failed",
                                    !.last_error = "capture_failed",
                                    !.rotation_pending = FALSE]
           t == [s EXCEPT !.recording = r]
<1>1. s \in MediaRecord
  BY DEF Coherent
<1>2. r \in RecordingRecord
  BY <1>1, Parts DEF RecordingRecord, RecordingState, BranchState
<1>3. /\ r.state = "stopping" /\ r.stop_target = "failed"
      /\ r.rotation_pending = FALSE /\ r.last_error = "capture_failed"
  BY <1>1, Parts DEF RecordingRecord
<1>4. \A u : u.recording = r => RecordingCoherent(u)
  BY <1>3 DEF RecordingCoherent, Live
<1>5. s.recording.state \in Live => Coherent(t)
  BY <1>2, <1>3, <1>4, RecordingFrame, EffectLists
     DEF Live, Coherent, SourceHeld
<1>6. /\ t.service = s.service /\ t.capture = s.capture
      /\ t.stream = s.stream /\ t.recording = r
  BY <1>1 DEF MediaRecord
<1> QED
  BY <1>3, <1>5, <1>6 DEF LoseRecording, Live

(* A capture failure takes the stream with it and sends the recording to    *)
(* finalization, so nothing is live over the failed capture.                *)
LEMMA CaptureFailedSound ==
  ASSUME NEW s, Coherent(s), NEW g
  PROVE  Sound(s, CaptureFailed(s, g))
<1> DEFINE q == LoseStream(s)
           u == LoseRecording(q)
           c == [u.capture EXCEPT !.state = "failed",
                                  !.last_error = "capture_failed"]
           effs ==
             (IF s.stream.state \in Active
                THEN CancelRetryEffect(s) \o <<"stream.stop">> ELSE <<>>)
             \o (IF s.recording.state \in Live
                   THEN <<"recording.stop">> ELSE <<>>)
<1>1. /\ Coherent(u) /\ u.stream.state \notin Active
      /\ u.recording.state \notin Live /\ u.service = s.service
  BY LoseStreamSound, LoseRecordingSound
<1>2. u \in MediaRecord /\ c \in CaptureRecord /\ c.state = "failed"
  BY <1>1, Parts DEF Coherent, CaptureRecord, BranchState
<1>3. SourceHeld([u EXCEPT !.capture = c])
  BY <1>1, <1>2, PutCapture DEF SourceHeld, Live, Active
<1>4. effs \in Seq(Effect)
  <2>1. CancelRetryEffect(s) \o <<"stream.stop">> \in Seq(Effect)
    BY EffectLists DEF Effect
  <2>2. <<"recording.stop">> \in Seq(Effect) /\ <<>> \in Seq(Effect)
    BY EffectLists DEF Effect
  <2> QED
    BY <2>1, <2>2, ConcatProperties
<1>5. Sound(u, Change([u EXCEPT !.capture = c], effs))
  BY <1>1, <1>2, <1>3, <1>4, CaptureFrame
<1>6. Sound(s, Change([u EXCEPT !.capture = c], effs))
  BY <1>1, <1>5 DEF Sound, Change
<1>7. FailCapture(s) = Change([u EXCEPT !.capture = c], effs)
  BY DEF FailCapture
<1> QED
  BY <1>6, <1>7, KeepSound DEF CaptureFailed

-----------------------------------------------------------------------------
(* Stream and connection.                                                   *)

(* A new stream over the same connection, likewise to StreamFrame.          *)
LEMMA StreamOnlyFrame ==
  ASSUME NEW s, Coherent(s), NEW r \in StreamRecord,
         NEW effs \in Seq(Effect),
         r.state \in Live => s.capture.state = "running",
         \A t : t.stream = r /\ t.connection = s.connection =>
                  RetryCoherent(t) /\ BitrateCoherent(t)
  PROVE  Sound(s, Change([s EXCEPT !.stream = r], effs))
<1> DEFINE t == [s EXCEPT !.stream = r]
<1>. s \in MediaRecord
  BY DEF Coherent
<1>1. /\ t \in MediaRecord /\ t.service = s.service /\ t.capture = s.capture
      /\ t.stream = r /\ t.connection = s.connection
      /\ t.recording = s.recording
  BY PutStreamOnly
<1>2. RecordingCoherent(t) /\ SourceHeld(t)
  BY <1>1 DEF Coherent, RecordingCoherent, SourceHeld
<1>3. RetryCoherent(t) /\ BitrateCoherent(t)
  BY <1>1
<1>4. Coherent(t)
  BY <1>1, <1>2, <1>3 DEF Coherent
<1> QED
  BY <1>1, <1>4, ChangeSound

(* A new connection under the same stream, likewise.                        *)
LEMMA ConnectionFrame ==
  ASSUME NEW s, Coherent(s), NEW c \in ConnectionRecord,
         NEW effs \in Seq(Effect),
         \A t : t.stream = s.stream /\ t.connection = c => RetryCoherent(t)
  PROVE  Sound(s, Change([s EXCEPT !.connection = c], effs))
<1> DEFINE t == [s EXCEPT !.connection = c]
<1>. s \in MediaRecord
  BY DEF Coherent
<1>1. /\ t \in MediaRecord /\ t.service = s.service /\ t.capture = s.capture
      /\ t.stream = s.stream /\ t.connection = c
      /\ t.recording = s.recording
  BY PutConnection
<1>2. RecordingCoherent(t) /\ SourceHeld(t) /\ BitrateCoherent(t)
  BY <1>1 DEF Coherent, RecordingCoherent, SourceHeld, BitrateCoherent
<1>3. RetryCoherent(t)
  BY <1>1
<1>4. Coherent(t)
  BY <1>1, <1>2, <1>3 DEF Coherent
<1> QED
  BY <1>1, <1>4, ChangeSound

(* A new stream starts over a running capture with a fresh connection.      *)
LEMMA StreamStartSound ==
  ASSUME NEW s, Coherent(s), NEW v \in Revision, NEW p \in Representation,
         NEW b \in Bitrate
  PROVE  Sound(s, StreamStart(s, v, p, b))
<1> DEFINE r == [state |-> "starting", generation |-> s.stream.generation + 1,
                 config_revision |-> v, representation_id |-> p,
                 opus_bitrate_bps |-> IF p = Opus THEN b ELSE 0,
                 pending_opus_bitrate_bps |-> 0, last_error |-> "none"]
           c == [state |-> "connecting", reconnect_count |-> 0,
                 consecutive_failures |-> 0, next_retry_seconds |-> 0,
                 last_error |-> "none", statistics |-> 0]
           t == [s EXCEPT !.stream = r, !.connection = c]
<1>1. s \in MediaRecord
  BY DEF Coherent
<1>2. r \in StreamRecord
  BY <1>1, Parts DEF StreamRecord, BranchState
<1>3. c \in ConnectionRecord
  BY DEF ConnectionRecord, ConnectionState
<1>4. \A u : u.stream = r /\ u.connection = c =>
               RetryCoherent(u) /\ BitrateCoherent(u)
  BY DEF RetryCoherent, BitrateCoherent, Live
<1>5. <<"stream.start">> \in Seq(Effect)
  BY EffectLists DEF Effect
<1>6. s.capture.state = "running" => Sound(s, Change(t, <<"stream.start">>))
  BY <1>2, <1>3, <1>4, <1>5, StreamFrame
<1> QED
  BY <1>6, KeepSound DEF StreamStart

(* A stopping stream has no connection and no pending bitrate.              *)
LEMMA StreamStopSound ==
  ASSUME NEW s, Coherent(s)
  PROVE  Sound(s, StreamStop(s))
<1> DEFINE r == [s.stream EXCEPT !.state = "stopping",
                                 !.pending_opus_bitrate_bps = 0]
           c == [Disconnected(s.connection) EXCEPT !.consecutive_failures = 0]
           t == [s EXCEPT !.stream = r, !.connection = c]
<1>1. s \in MediaRecord
  BY DEF Coherent
<1>2. r \in StreamRecord /\ c \in ConnectionRecord
  BY <1>1, Parts, DisconnectedType DEF StreamRecord, BranchState
<1>3. /\ r.state = "stopping" /\ r.pending_opus_bitrate_bps = 0
      /\ r.generation = s.stream.generation
  BY <1>1, Parts DEF StreamRecord
<1>4. /\ c.state = "disconnected" /\ c.next_retry_seconds = 0
      /\ c.consecutive_failures = 0
      /\ c.reconnect_count = s.connection.reconnect_count
      /\ c.reconnect_count \in Nat
      /\ c.statistics = s.connection.statistics
  BY <1>1, Parts DEF ConnectionRecord, Disconnected
<1>5. \A u : u.stream = r /\ u.connection = c =>
               RetryCoherent(u) /\ BitrateCoherent(u)
  BY <1>3, <1>4 DEF Coherent, RetryCoherent, BitrateCoherent, Live
<1>6. CancelRetryEffect(s) \o <<"stream.stop">> \in Seq(Effect)
  BY EffectLists DEF Effect
<1>7. Sound(s, Change(t, CancelRetryEffect(s) \o <<"stream.stop">>))
  BY <1>2, <1>3, <1>5, <1>6, StreamFrame DEF Live
<1> QED
  BY <1>7, KeepSound DEF StreamStop

(* An acknowledged start only makes the stream running.                     *)
LEMMA StreamStartedSound ==
  ASSUME NEW s, Coherent(s), NEW g
  PROVE  Sound(s, StreamStarted(s, g))
<1> DEFINE r == [s.stream EXCEPT !.state = "running"]
<1>1. s \in MediaRecord
  BY DEF Coherent
<1>2. /\ r \in StreamRecord /\ r.state = "running"
      /\ r.generation = s.stream.generation
      /\ r.pending_opus_bitrate_bps = s.stream.pending_opus_bitrate_bps
      /\ r.opus_bitrate_bps = s.stream.opus_bitrate_bps
      /\ r.representation_id = s.stream.representation_id
  BY <1>1, Parts DEF StreamRecord, BranchState
<1>3. ASSUME s.stream.state = "starting"
      PROVE  \A u : u.stream = r /\ u.connection = s.connection =>
                      RetryCoherent(u) /\ BitrateCoherent(u)
  BY <1>2, <1>3 DEF Coherent, RetryCoherent, BitrateCoherent, Live
<1>4. s.stream.state = "starting" => s.capture.state = "running"
  BY DEF Coherent, SourceHeld, Live
<1>5. s.stream.state = "starting" =>
        Sound(s, Change([s EXCEPT !.stream = r], <<>>))
  BY <1>2, <1>3, <1>4, StreamOnlyFrame, EffectLists
<1>6. [s EXCEPT !.stream = r] = [s EXCEPT !.stream.state = "running"]
  OBVIOUS
<1> QED
  BY <1>5, <1>6, KeepSound DEF StreamStarted

(* A stopped stream keeps nothing of the one it was.                        *)
LEMMA StreamStoppedSound ==
  ASSUME NEW s, Coherent(s), NEW g
  PROVE  Sound(s, StreamStopped(s, g))
<1> DEFINE r == [s.stream EXCEPT !.state = "stopped", !.config_revision = None,
                                 !.representation_id = "none",
                                 !.opus_bitrate_bps = 0,
                                 !.pending_opus_bitrate_bps = 0]
           c == [Disconnected(s.connection) EXCEPT !.consecutive_failures = 0]
           t == [s EXCEPT !.stream = r, !.connection = c]
<1>1. s \in MediaRecord
  BY DEF Coherent
<1>2. r \in StreamRecord /\ c \in ConnectionRecord
  BY <1>1, Parts, DisconnectedType DEF StreamRecord, BranchState
<1>3. /\ r.state = "stopped" /\ r.pending_opus_bitrate_bps = 0
      /\ r.generation = s.stream.generation
  BY <1>1, Parts DEF StreamRecord
<1>4. /\ c.state = "disconnected" /\ c.next_retry_seconds = 0
      /\ c.consecutive_failures = 0
      /\ c.reconnect_count = s.connection.reconnect_count
      /\ c.reconnect_count \in Nat
      /\ c.statistics = s.connection.statistics
  BY <1>1, Parts DEF ConnectionRecord, Disconnected
<1>5. \A u : u.stream = r /\ u.connection = c =>
               RetryCoherent(u) /\ BitrateCoherent(u)
  BY <1>3, <1>4 DEF Coherent, RetryCoherent, BitrateCoherent, Live
<1>6. Sound(s, Change(t, <<>>))
  BY <1>2, <1>3, <1>5, StreamFrame, EffectLists DEF Live
<1> QED
  BY <1>6, KeepSound DEF StreamStopped

(* A failed stream is disconnected and waits for no retry.                  *)
LEMMA StreamFailedSound ==
  ASSUME NEW s, Coherent(s), NEW g
  PROVE  Sound(s, StreamFailed(s, g))
<1> DEFINE r == [s.stream EXCEPT !.state = "failed",
                                 !.last_error = "stream_failed",
                                 !.pending_opus_bitrate_bps = 0]
           c == Disconnected(s.connection)
           t == [s EXCEPT !.stream = r, !.connection = c]
<1>1. s \in MediaRecord
  BY DEF Coherent
<1>2. r \in StreamRecord /\ c \in ConnectionRecord
  BY <1>1, Parts, DisconnectedType DEF StreamRecord, BranchState
<1>3. /\ r.state = "failed" /\ r.pending_opus_bitrate_bps = 0
      /\ r.generation = s.stream.generation
  BY <1>1, Parts DEF StreamRecord
<1>4. /\ c.state = "disconnected" /\ c.next_retry_seconds = 0
      /\ c.consecutive_failures = s.connection.consecutive_failures
      /\ c.reconnect_count = s.connection.reconnect_count
      /\ c.statistics = s.connection.statistics
  BY <1>1, Parts DEF ConnectionRecord, Disconnected
<1>5. \A u : u.stream = r /\ u.connection = c =>
               RetryCoherent(u) /\ BitrateCoherent(u)
  BY <1>3, <1>4 DEF Coherent, RetryCoherent, BitrateCoherent, Live
<1>6. Sound(s, Change(t, CancelRetryEffect(s)))
  BY <1>2, <1>3, <1>5, StreamFrame, EffectLists DEF Live
<1> QED
  BY <1>6, KeepSound DEF StreamFailed

(* A bitrate change is asked for only of a running Opus stream.             *)
LEMMA SetOpusBitrateSound ==
  ASSUME NEW s, Coherent(s), NEW b \in Bitrate
  PROVE  Sound(s, StreamSetOpusBitrate(s, b))
<1> DEFINE r == [s.stream EXCEPT !.pending_opus_bitrate_bps = b]
           asked == /\ s.stream.state = "running"
                    /\ s.stream.representation_id = Opus
                    /\ b # s.stream.opus_bitrate_bps
<1>1. s \in MediaRecord
  BY DEF Coherent
<1>2. /\ r \in StreamRecord /\ r.state = s.stream.state
      /\ r.generation = s.stream.generation
      /\ r.pending_opus_bitrate_bps = b
      /\ r.opus_bitrate_bps = s.stream.opus_bitrate_bps
      /\ r.representation_id = s.stream.representation_id
  BY <1>1, Parts DEF StreamRecord
<1>3. ASSUME asked
      PROVE  \A u : u.stream = r /\ u.connection = s.connection =>
                      RetryCoherent(u) /\ BitrateCoherent(u)
  BY <1>2, <1>3 DEF Coherent, RetryCoherent, BitrateCoherent, Live
<1>4. asked => s.capture.state = "running"
  BY DEF Coherent, SourceHeld, Live
<1>5. <<"stream.set_opus_bitrate">> \in Seq(Effect)
  BY EffectLists DEF Effect
<1>6. asked => Sound(s, Change([s EXCEPT !.stream = r],
                               <<"stream.set_opus_bitrate">>))
  BY <1>2, <1>3, <1>4, <1>5, StreamOnlyFrame
<1>7. [s EXCEPT !.stream = r] = [s EXCEPT !.stream.pending_opus_bitrate_bps = b]
  OBVIOUS
<1> QED
  BY <1>6, <1>7, KeepSound DEF StreamSetOpusBitrate

(* An acknowledged or refused bitrate change leaves none pending.           *)
LEMMA OpusBitrateSound ==
  ASSUME NEW s, Coherent(s), NEW g, NEW b \in Bitrate
  PROVE  /\ Sound(s, OpusBitrateApplied(s, g, b))
         /\ Sound(s, OpusBitrateFailed(s, g, b))
<1> DEFINE r == [s.stream EXCEPT !.opus_bitrate_bps = b,
                                 !.pending_opus_bitrate_bps = 0]
           q == [s.stream EXCEPT !.pending_opus_bitrate_bps = 0,
                                 !.last_error = "opus_bitrate_failed"]
<1>1. s \in MediaRecord
  BY DEF Coherent
<1>2. /\ r \in StreamRecord /\ r.state = s.stream.state
      /\ r.generation = s.stream.generation
      /\ r.pending_opus_bitrate_bps = 0
  BY <1>1, Parts DEF StreamRecord
<1>3. /\ q \in StreamRecord /\ q.state = s.stream.state
      /\ q.generation = s.stream.generation
      /\ q.pending_opus_bitrate_bps = 0
  BY <1>1, Parts DEF StreamRecord
<1>4. \A u : u.stream \in {r, q} /\ u.connection = s.connection =>
               RetryCoherent(u) /\ BitrateCoherent(u)
  BY <1>2, <1>3 DEF Coherent, RetryCoherent, BitrateCoherent, Live
<1>5. s.stream.state = "running" => s.capture.state = "running"
  BY DEF Coherent, SourceHeld, Live
<1>6. s.stream.state = "running" =>
        Sound(s, Change([s EXCEPT !.stream = r], <<>>))
  BY <1>2, <1>4, <1>5, StreamOnlyFrame, EffectLists
<1>7. s.stream.state = "running" =>
        Sound(s, Change([s EXCEPT !.stream = q], <<>>))
  BY <1>3, <1>4, <1>5, StreamOnlyFrame, EffectLists
<1> QED
  BY <1>6, <1>7, KeepSound DEF OpusBitrateApplied, OpusBitrateFailed

(* A connection is made only of one awaited, and forgets the failures.      *)
LEMMA ConnectionConnectedSound ==
  ASSUME NEW s, Coherent(s), NEW g
  PROVE  Sound(s, ConnectionConnected(s, g))
<1> DEFINE c == [s.connection EXCEPT !.state = "connected",
                                     !.consecutive_failures = 0,
                                     !.next_retry_seconds = 0]
<1>1. s \in MediaRecord
  BY DEF Coherent
<1>2. /\ c \in ConnectionRecord /\ c.state = "connected"
      /\ c.consecutive_failures = 0 /\ c.next_retry_seconds = 0
      /\ c.reconnect_count = s.connection.reconnect_count
      /\ c.reconnect_count \in Nat
      /\ c.statistics = s.connection.statistics
  BY <1>1, Parts DEF ConnectionRecord, ConnectionState
<1>3. ASSUME s.stream.state \in Live
      PROVE  \A u : u.stream = s.stream /\ u.connection = c => RetryCoherent(u)
  BY <1>2, <1>3 DEF Coherent, RetryCoherent
<1>4. s.stream.state \in Live =>
        Sound(s, Change([s EXCEPT !.connection = c], CancelRetryEffect(s)))
  BY <1>2, <1>3, ConnectionFrame, EffectLists
<1> QED
  BY <1>4, KeepSound DEF ConnectionConnected

(* A lost connection waits for its retry with the backoff delay, or fails.  *)
LEMMA ConnectionLostSound ==
  ASSUME NEW s, Coherent(s), NEW g, NEW retryable \in BOOLEAN
  PROVE  Sound(s, ConnectionLost(s, g, retryable))
<1> DEFINE n == s.connection.consecutive_failures
           failed == [s.connection EXCEPT !.state = "failed",
                        !.next_retry_seconds = 0,
                        !.last_error = "srt_connection_lost"]
           again == [s.connection EXCEPT !.last_error = "srt_connection_lost"]
           waits == [s.connection EXCEPT !.state = "retry_wait",
                       !.next_retry_seconds = RetryDelay(n),
                       !.last_error = "srt_connection_lost"]
<1>1. s \in MediaRecord
  BY DEF Coherent
<1>2. RetryDelay(n) \in {0, 1, 2, 4, 8, 16, 30}
  BY <1>1, Parts, RetryDelayType DEF ConnectionRecord
<1>3. /\ failed \in ConnectionRecord /\ failed.state = "failed"
      /\ failed.next_retry_seconds = 0
      /\ failed.consecutive_failures = n
      /\ failed.reconnect_count = s.connection.reconnect_count
      /\ failed.statistics = s.connection.statistics
  BY <1>1, Parts DEF ConnectionRecord, ConnectionState
<1>4. /\ again \in ConnectionRecord /\ again.state = s.connection.state
      /\ again.next_retry_seconds = s.connection.next_retry_seconds
      /\ again.consecutive_failures = n
      /\ again.reconnect_count = s.connection.reconnect_count
      /\ again.statistics = s.connection.statistics
  BY <1>1, Parts DEF ConnectionRecord, ConnectionState
<1>5. /\ waits \in ConnectionRecord /\ waits.state = "retry_wait"
      /\ waits.next_retry_seconds = RetryDelay(n)
      /\ waits.consecutive_failures = n
      /\ waits.reconnect_count = s.connection.reconnect_count
      /\ waits.statistics = s.connection.statistics
  BY <1>1, <1>2, Parts DEF ConnectionRecord, ConnectionState
<1>6. ASSUME s.stream.state \in Live, NEW u, u.stream = s.stream,
             u.connection \in {failed, again, waits}
      PROVE  RetryCoherent(u)
  <2>1. CASE u.connection = failed
    BY <1>3, <1>6, <2>1 DEF Coherent, RetryCoherent
  <2>2. CASE u.connection = again
    BY <1>4, <1>6, <2>2 DEF Coherent, RetryCoherent
  <2>3. CASE u.connection = waits
    BY <1>5, <1>6, <2>3 DEF Coherent, RetryCoherent
  <2> QED
    BY <1>6, <2>1, <2>2, <2>3
<1>7. <<"connection.schedule_retry">> \in Seq(Effect)
  BY EffectLists DEF Effect
<1>8. s.stream.state \in Live =>
        Sound(s, Change([s EXCEPT !.connection = failed], CancelRetryEffect(s)))
  BY <1>3, <1>6, ConnectionFrame, EffectLists
<1>9. s.stream.state \in Live =>
        Sound(s, Change([s EXCEPT !.connection = again], <<>>))
  BY <1>4, <1>6, ConnectionFrame, EffectLists
<1>10. s.stream.state \in Live =>
         Sound(s, Change([s EXCEPT !.connection = waits],
                         <<"connection.schedule_retry">>))
  BY <1>5, <1>6, <1>7, ConnectionFrame
<1>11. [s EXCEPT !.connection = again] =
         [s EXCEPT !.connection.last_error = "srt_connection_lost"]
  OBVIOUS
<1> QED
  BY <1>8, <1>9, <1>10, <1>11, KeepSound DEF ConnectionLost

(* A due retry counts one failure and one reconnect.                        *)
LEMMA ConnectionRetryDueSound ==
  ASSUME NEW s, Coherent(s), NEW g
  PROVE  Sound(s, ConnectionRetryDue(s, g))
<1> DEFINE n == s.connection.consecutive_failures
           m == s.connection.reconnect_count
           c == [s.connection EXCEPT !.state = "connecting",
                                     !.reconnect_count = m + 1,
                                     !.consecutive_failures = n + 1,
                                     !.next_retry_seconds = 0]
<1>1. s \in MediaRecord
  BY DEF Coherent
<1>2. n \in Nat /\ m \in Nat /\ n <= m
  BY <1>1, Parts DEF ConnectionRecord, Coherent, RetryCoherent
<1>3. n + 1 \in Nat /\ m + 1 \in Nat /\ n + 1 <= m + 1
  BY <1>2
<1>4. c \in ConnectionRecord
  BY <1>1, <1>3, Parts DEF ConnectionRecord, ConnectionState
<1>5. /\ c.state = "connecting" /\ c.next_retry_seconds = 0
      /\ c.consecutive_failures = n + 1 /\ c.reconnect_count = m + 1
      /\ c.statistics = s.connection.statistics
  BY <1>1, Parts DEF ConnectionRecord
<1>6. ASSUME s.stream.state \in Live
      PROVE  \A u : u.stream = s.stream /\ u.connection = c => RetryCoherent(u)
  BY <1>3, <1>5, <1>6 DEF Coherent, RetryCoherent
<1>7. <<"connection.connect">> \in Seq(Effect)
  BY EffectLists DEF Effect
<1>8. s.stream.state \in Live =>
        Sound(s, Change([s EXCEPT !.connection = c], <<"connection.connect">>))
  BY <1>4, <1>6, <1>7, ConnectionFrame
<1> QED
  BY <1>8, KeepSound DEF ConnectionRetryDue

(* Statistics are taken only of the stream there is.                        *)
LEMMA ConnectionStatsSound ==
  ASSUME NEW s, Coherent(s), NEW g
  PROVE  Sound(s, ConnectionStats(s, g))
<1> DEFINE c == [s.connection EXCEPT !.statistics = g]
<1>1. s \in MediaRecord
  BY DEF Coherent
<1>2. ASSUME g = s.stream.generation
      PROVE  /\ c \in ConnectionRecord /\ c.state = s.connection.state
             /\ c.next_retry_seconds = s.connection.next_retry_seconds
             /\ c.consecutive_failures = s.connection.consecutive_failures
             /\ c.reconnect_count = s.connection.reconnect_count
             /\ c.statistics = g
  BY <1>1, <1>2, Parts DEF ConnectionRecord, StreamRecord
<1>3. ASSUME g = s.stream.generation
      PROVE  \A u : u.stream = s.stream /\ u.connection = c => RetryCoherent(u)
  BY <1>2, <1>3 DEF Coherent, RetryCoherent
<1>4. g = s.stream.generation =>
        Sound(s, Change([s EXCEPT !.connection = c], <<>>))
  BY <1>2, <1>3, ConnectionFrame, EffectLists
<1>5. [s EXCEPT !.connection = c] = [s EXCEPT !.connection.statistics = g]
  OBVIOUS
<1> QED
  BY <1>4, <1>5, KeepSound DEF ConnectionStats

-----------------------------------------------------------------------------
(* Recording.                                                               *)

(* A recording at rest in one of the settled states has a recording's type  *)
(* and its fields are cleared.                                              *)
LEMMA SettledType ==
  ASSUME NEW r \in RecordingRecord,
         NEW state \in {"stopped", "blocked", "failed"}
  PROVE  LET q == Settled(r, state) IN
         /\ q \in RecordingRecord
         /\ q.state = state /\ q.stop_target = "none"
         /\ q.rotation_pending = FALSE /\ q.current_file = None
         /\ q.warning = r.warning /\ q.last_error = r.last_error
  BY DEF Settled, RecordingRecord, RecordingState, BranchState

(* A recording on its way to a stop for the reason given.                   *)
LEMMA StoppingType ==
  ASSUME NEW r \in RecordingRecord, NEW target \in {"stopped", "failed"}
  PROVE  LET q == [r EXCEPT !.state = "stopping", !.stop_target = target,
                            !.rotation_pending = FALSE] IN
         /\ q \in RecordingRecord
         /\ q.state = "stopping" /\ q.stop_target = target
         /\ q.rotation_pending = FALSE
  BY DEF RecordingRecord, RecordingState, BranchState

(* A storage fault keeps a recording's fields coherent, keeps it stopping   *)
(* when it was, and never leaves it live.                                   *)
LEMMA BlockedRecordingType ==
  ASSUME NEW r \in RecordingRecord, NEW status \in StorageFault,
         \A u : u.recording = r => RecordingCoherent(u)
  PROVE  LET q == BlockedRecording(r, status) IN
         /\ q \in RecordingRecord
         /\ q.state \notin Live
         /\ q.state = "stopping" <=> r.state \in Live \cup {"stopping"}
         /\ \A u : u.recording = q => RecordingCoherent(u)
<1> DEFINE live == [r EXCEPT !.state = "stopping", !.stop_target = "blocked",
                             !.warning = status, !.last_error = status,
                             !.rotation_pending = FALSE]
           late == [r EXCEPT !.stop_target = "blocked", !.warning = status,
                             !.last_error = status]
           idle == [state |-> "blocked", generation |-> r.generation,
                    config_revision |-> None, stop_target |-> "none",
                    warning |-> status, last_error |-> status,
                    current_file |-> None,
                    last_finalized_file |-> r.last_finalized_file,
                    rotation_pending |-> FALSE]
           q == BlockedRecording(r, status)
<1>1. /\ status \in StorageFault \cup {"none"}
      /\ status \in StorageFault \cup
                    {"none", "recording_io_failed", "capture_failed"}
      /\ status # "none"
  BY ConstantsAssumption DEF ConstantsAssumption
<1>2. /\ live \in RecordingRecord /\ live.state = "stopping"
      /\ live.stop_target = "blocked" /\ live.rotation_pending = FALSE
      /\ live.warning = status
  BY <1>1 DEF RecordingRecord, RecordingState, BranchState
<1>3. /\ late \in RecordingRecord /\ late.state = r.state
      /\ late.stop_target = "blocked"
      /\ late.rotation_pending = r.rotation_pending
      /\ late.warning = status
  BY <1>1 DEF RecordingRecord, RecordingState, BranchState
<1>4. /\ idle \in RecordingRecord /\ idle.state = "blocked"
      /\ idle.stop_target = "none" /\ idle.warning = status
      /\ idle.rotation_pending = FALSE /\ idle.current_file = None
  BY <1>1 DEF RecordingRecord, RecordingState, BranchState
<1>5. RecordingCoherent([recording |-> r])
  OBVIOUS
<1>6. CASE r.state \in Live
  <2>1. q = live
    BY <1>6 DEF BlockedRecording
  <2>2. \A u : u.recording = live => RecordingCoherent(u)
    BY <1>1, <1>2 DEF RecordingCoherent, Live
  <2> QED
    BY <1>2, <1>6, <2>1, <2>2 DEF Live
<1>7. CASE r.state = "stopping"
  <2>1. q = late
    BY <1>7 DEF BlockedRecording, Live
  <2>2. \A u : u.recording = late => RecordingCoherent(u)
    BY <1>1, <1>3, <1>5, <1>7 DEF RecordingCoherent, Live
  <2> QED
    BY <1>3, <1>7, <2>1, <2>2 DEF Live
<1>8. CASE r.state = "failed"
  <2>1. q = r
    BY <1>8 DEF BlockedRecording, Live
  <2> QED
    BY <1>8, <2>1 DEF Live
<1>9. CASE r.state \in {"stopped", "blocked"}
  <2>1. q = idle
    BY <1>9 DEF BlockedRecording, Live
  <2>2. \A u : u.recording = idle => RecordingCoherent(u)
    BY <1>1, <1>4 DEF RecordingCoherent, Live
  <2> QED
    BY <1>4, <1>9, <2>1, <2>2 DEF Live
<1>10. r.state \in RecordingState
  BY DEF RecordingRecord
<1> QED
  BY <1>6, <1>7, <1>8, <1>9, <1>10 DEF Live, RecordingState, BranchState

(* A storage fault is sound: it is reported as an error, which skips the    *)
(* shutdown stages, but it never ends a stop the shutdown may wait for.     *)
LEMMA BlockRecordingSound ==
  ASSUME NEW s, Coherent(s), NEW status \in StorageFault
  PROVE  Sound(s, BlockRecording(s, status))
<1> DEFINE q == BlockedRecording(s.recording, status)
           t == [s EXCEPT !.recording = q]
<1>1. s \in MediaRecord /\ s.recording \in RecordingRecord
  BY Parts DEF Coherent
<1>2. \A u : u.recording = s.recording => RecordingCoherent(u)
  BY DEF Coherent, RecordingCoherent
<1>3. /\ q \in RecordingRecord
      /\ q.state \notin Live
      /\ q.state = "stopping" <=> s.recording.state \in Live \cup {"stopping"}
      /\ \A u : u.recording = q => RecordingCoherent(u)
  BY <1>1, <1>2, BlockedRecordingType
<1>4. q.state = "stopping" => s.capture.state \notin {"stopped", "stopping"}
  BY <1>3 DEF Coherent, SourceHeld
<1>5. Coherent(t)
  BY <1>3, <1>4, RecordingFrame, EffectLists
<1>6. /\ t.service = s.service /\ t.recording = q
      /\ t.stream = s.stream /\ t.capture = s.capture
  BY <1>1 DEF MediaRecord
<1>7. /\ <<"recording.stop">> \in Seq(Effect)
      /\ <<>> \in Seq(Effect)
  BY EffectLists DEF Effect
<1>8. "stopping" \in BranchStates(s) => "stopping" \in BranchStates(t)
  BY <1>3, <1>6 DEF BranchStates
<1> QED
  BY <1>5, <1>6, <1>7, <1>8 DEF BlockRecording, Sound

(* A new recording starts over a running capture and a safe destination.    *)
LEMMA RecordingStartSound ==
  ASSUME NEW s, Coherent(s), NEW v \in Revision, NEW status \in StorageStatus
  PROVE  Sound(s, RecordingStart(s, v, status))
<1> DEFINE r == [state |-> "starting", generation |-> s.recording.generation + 1,
                 config_revision |-> v, stop_target |-> "none",
                 warning |-> "none", last_error |-> "none",
                 current_file |-> None,
                 last_finalized_file |-> s.recording.last_finalized_file,
                 rotation_pending |-> FALSE]
<1>1. s \in MediaRecord /\ s.recording \in RecordingRecord
  BY Parts DEF Coherent
<1>2. r \in RecordingRecord
  BY <1>1 DEF RecordingRecord, RecordingState, BranchState
<1>3. \A u : u.recording = r => RecordingCoherent(u)
  BY DEF RecordingCoherent
<1>4. <<"recording.start">> \in Seq(Effect)
  BY EffectLists DEF Effect
<1>5. s.capture.state = "running" =>
        Sound(s, Change([s EXCEPT !.recording = r], <<"recording.start">>))
  BY <1>2, <1>3, <1>4, RecordingFrame
<1>6. status # "safe" => Sound(s, BlockRecording(s, status))
  BY BlockRecordingSound DEF StorageStatus
<1> QED
  BY <1>5, <1>6, KeepSound DEF RecordingStart

(* Stopping a recording waits for it, or forgets one that failed.           *)
LEMMA RecordingStopSound ==
  ASSUME NEW s, Coherent(s)
  PROVE  Sound(s, RecordingStop(s))
<1> DEFINE q == Settled(s.recording, "stopped")
           r == [s.recording EXCEPT !.state = "stopping",
                                    !.stop_target = "stopped",
                                    !.rotation_pending = FALSE]
<1>1. /\ s \in MediaRecord /\ s.recording \in RecordingRecord
      /\ s.recording.state \in RecordingState
  BY Parts DEF Coherent, RecordingRecord
<1>2. /\ q \in RecordingRecord /\ q.state = "stopped"
      /\ q.stop_target = "none" /\ q.rotation_pending = FALSE
      /\ q.current_file = None
  BY <1>1, SettledType
<1>3. \A u : u.recording = q => RecordingCoherent(u)
  BY <1>2 DEF RecordingCoherent, Live
<1>4. Sound(s, Change([s EXCEPT !.recording = q], <<>>))
  BY <1>2, <1>3, RecordingFrame, EffectLists DEF Live
<1>5. /\ r \in RecordingRecord /\ r.state = "stopping"
      /\ r.stop_target = "stopped" /\ r.rotation_pending = FALSE
  BY <1>1, StoppingType
<1>6. \A u : u.recording = r => RecordingCoherent(u)
  BY <1>5 DEF RecordingCoherent, Live
<1>7. <<"recording.stop">> \in Seq(Effect)
  BY EffectLists DEF Effect
<1>8. s.recording.state = "running" => s.capture.state = "running"
  BY DEF Coherent, SourceHeld, Live
<1>9. s.recording.state = "running" =>
        Sound(s, Change([s EXCEPT !.recording = r], <<"recording.stop">>))
  BY <1>5, <1>6, <1>7, <1>8, RecordingFrame DEF Live
<1>10. s.recording.state \in {"stopped", "blocked", "stopping", "starting",
                              "failed", "running"}
  BY <1>1 DEF RecordingState, BranchState
<1> QED
  BY <1>4, <1>9, <1>10, KeepSound DEF RecordingStop

(* A rotation is asked for only of a running recording.                     *)
LEMMA RecordingRotateSound ==
  ASSUME NEW s, Coherent(s)
  PROVE  Sound(s, RecordingRotate(s))
<1> DEFINE r == [s.recording EXCEPT !.rotation_pending = TRUE]
<1>1. s \in MediaRecord /\ s.recording \in RecordingRecord
  BY Parts DEF Coherent
<1>2. /\ r \in RecordingRecord /\ r.state = s.recording.state
      /\ r.stop_target = s.recording.stop_target
      /\ r.warning = s.recording.warning
      /\ r.last_error = s.recording.last_error
  BY <1>1 DEF RecordingRecord
<1>3. ASSUME s.recording.state = "running"
      PROVE  \A u : u.recording = r => RecordingCoherent(u)
  BY <1>2, <1>3 DEF Coherent, RecordingCoherent, Live
<1>4. s.recording.state = "running" => s.capture.state = "running"
  BY DEF Coherent, SourceHeld, Live
<1>5. <<"recording.rotate">> \in Seq(Effect)
  BY EffectLists DEF Effect
<1>6. s.recording.state = "running" =>
        Sound(s, Change([s EXCEPT !.recording = r], <<"recording.rotate">>))
  BY <1>2, <1>3, <1>4, <1>5, RecordingFrame
<1>7. [s EXCEPT !.recording = r] = [s EXCEPT !.recording.rotation_pending = TRUE]
  OBVIOUS
<1> QED
  BY <1>6, <1>7, KeepSound DEF RecordingRotate

(* An acknowledged start only makes the recording running.                  *)
LEMMA RecordingStartedSound ==
  ASSUME NEW s, Coherent(s), NEW g
  PROVE  Sound(s, RecordingStarted(s, g))
<1> DEFINE r == [s.recording EXCEPT !.state = "running"]
<1>1. s \in MediaRecord /\ s.recording \in RecordingRecord
  BY Parts DEF Coherent
<1>2. /\ r \in RecordingRecord /\ r.state = "running"
      /\ r.stop_target = s.recording.stop_target
      /\ r.warning = s.recording.warning
      /\ r.last_error = s.recording.last_error
  BY <1>1 DEF RecordingRecord, RecordingState, BranchState
<1>3. ASSUME s.recording.state = "starting"
      PROVE  \A u : u.recording = r => RecordingCoherent(u)
  BY <1>2, <1>3 DEF Coherent, RecordingCoherent, Live
<1>4. s.recording.state = "starting" => s.capture.state = "running"
  BY DEF Coherent, SourceHeld, Live
<1>5. s.recording.state = "starting" =>
        Sound(s, Change([s EXCEPT !.recording = r], <<>>))
  BY <1>2, <1>3, <1>4, RecordingFrame, EffectLists
<1>6. [s EXCEPT !.recording = r] = [s EXCEPT !.recording.state = "running"]
  OBVIOUS
<1> QED
  BY <1>5, <1>6, KeepSound DEF RecordingStarted

(* A finalized recording comes to rest in the state its stop was for; a     *)
(* blocked one kept its warning and a failed one its error.                 *)
LEMMA RecordingStoppedSound ==
  ASSUME NEW s, Coherent(s), NEW g
  PROVE  Sound(s, RecordingStopped(s, g))
<1> DEFINE rest == s.recording.stop_target
           final == IF rest = "none" THEN "stopped" ELSE rest
           q == Settled(s.recording, final)
<1>1. s \in MediaRecord /\ s.recording \in RecordingRecord
  BY Parts DEF Coherent
<1>2. /\ rest \in {"none", "stopped", "blocked", "failed"}
      /\ final \in {"stopped", "blocked", "failed"}
  BY <1>1 DEF RecordingRecord
<1>3. /\ q \in RecordingRecord
      /\ q.state = final
      /\ q.stop_target = "none" /\ q.rotation_pending = FALSE
      /\ q.current_file = None /\ q.warning = s.recording.warning
      /\ q.last_error = s.recording.last_error
  BY <1>1, <1>2, SettledType
<1>4. ASSUME s.recording.state = "stopping"
      PROVE  \A u : u.recording = q => RecordingCoherent(u)
  BY <1>2, <1>3, <1>4 DEF Coherent, RecordingCoherent, Live
<1>5. q.state \notin Live \cup {"stopping"}
  BY <1>2, <1>3 DEF Live
<1>6. s.recording.state = "stopping" =>
        Sound(s, Change([s EXCEPT !.recording = q], <<>>))
  BY <1>3, <1>4, <1>5, RecordingFrame, EffectLists
<1> QED
  BY <1>6, KeepSound DEF RecordingStopped

(* A failing recording is finalized first, unless none was running yet.     *)
LEMMA RecordingFailedSound ==
  ASSUME NEW s, Coherent(s), NEW g
  PROVE  Sound(s, RecordingFailed(s, g))
<1> DEFINE q == [s.recording EXCEPT !.state = "failed",
                                    !.config_revision = None,
                                    !.last_error = "recording_io_failed"]
           r == [s.recording EXCEPT !.state = "stopping",
                                    !.stop_target = "failed",
                                    !.last_error = "recording_io_failed",
                                    !.rotation_pending = FALSE]
           effs == IF s.recording.state = "stopping"
                     THEN <<>> ELSE <<"recording.stop">>
<1>1. s \in MediaRecord /\ s.recording \in RecordingRecord
  BY Parts DEF Coherent
<1>2. /\ q \in RecordingRecord /\ q.state = "failed"
      /\ q.last_error = "recording_io_failed"
      /\ q.stop_target = s.recording.stop_target
      /\ q.rotation_pending = s.recording.rotation_pending
      /\ q.current_file = s.recording.current_file
      /\ q.warning = s.recording.warning
  BY <1>1 DEF RecordingRecord, RecordingState, BranchState
<1>3. ASSUME s.recording.state = "starting"
      PROVE  \A u : u.recording = q => RecordingCoherent(u)
  BY <1>2, <1>3 DEF Coherent, RecordingCoherent, Live
<1>4. s.recording.state = "starting" =>
        Sound(s, Change([s EXCEPT !.recording = q], <<>>))
  BY <1>2, <1>3, RecordingFrame, EffectLists DEF Live
<1>5. /\ r \in RecordingRecord /\ r.state = "stopping"
      /\ r.stop_target = "failed" /\ r.rotation_pending = FALSE
      /\ r.last_error = "recording_io_failed"
  BY <1>1 DEF RecordingRecord, RecordingState, BranchState
<1>6. \A u : u.recording = r => RecordingCoherent(u)
  BY <1>5 DEF RecordingCoherent, Live
<1>7. effs \in Seq(Effect)
  BY EffectLists DEF Effect
<1>8. s.recording.state \in {"running", "stopping"} =>
        s.capture.state \notin {"stopped", "stopping"}
  BY DEF Coherent, SourceHeld, Live
<1>9. s.recording.state \in {"running", "stopping"} =>
        Sound(s, Change([s EXCEPT !.recording = r], effs))
  BY <1>5, <1>6, <1>7, <1>8, RecordingFrame DEF Live
<1>10. s.recording.state \in {"stopped", "blocked", "stopping", "starting",
                              "failed", "running"}
  BY <1>1 DEF RecordingRecord, RecordingState, BranchState
<1> QED
  BY <1>4, <1>9, <1>10, KeepSound DEF RecordingFailed

(* A storage check blocks the recording or lifts the block.                 *)
LEMMA RecordingStorageCheckedSound ==
  ASSUME NEW s, Coherent(s), NEW g, NEW status \in StorageStatus
  PROVE  Sound(s, RecordingStorageChecked(s, g, status))
<1> DEFINE r == [s.recording EXCEPT !.state = "stopped", !.warning = "none",
                                    !.last_error = "none"]
<1>1. s \in MediaRecord /\ s.recording \in RecordingRecord
  BY Parts DEF Coherent
<1>2. /\ r \in RecordingRecord /\ r.state = "stopped" /\ r.warning = "none"
      /\ r.stop_target = s.recording.stop_target
      /\ r.rotation_pending = s.recording.rotation_pending
      /\ r.current_file = s.recording.current_file
  BY <1>1 DEF RecordingRecord, RecordingState, BranchState
<1>3. ASSUME s.recording.state = "blocked"
      PROVE  \A u : u.recording = r => RecordingCoherent(u)
  <2>1. /\ s.recording.stop_target = "none"
        /\ s.recording.rotation_pending = FALSE
        /\ s.recording.current_file = None
    BY <1>1, <1>3 DEF Coherent, RecordingCoherent, RecordingRecord
  <2> QED
    BY <1>2, <2>1 DEF RecordingCoherent, Live
<1>4. s.recording.state = "blocked" =>
        Sound(s, Change([s EXCEPT !.recording = r], <<>>))
  BY <1>2, <1>3, RecordingFrame, EffectLists DEF Live
<1>5. status # "safe" => Sound(s, BlockRecording(s, status))
  BY BlockRecordingSound DEF StorageStatus
<1> QED
  BY <1>4, <1>5, KeepSound DEF RecordingStorageChecked

(* Fragments open and close only under a recording that can hold them.      *)
LEMMA RecordingFragmentSound ==
  ASSUME NEW s, Coherent(s), NEW g, NEW path \in File
  PROVE  /\ Sound(s, RecordingFragmentOpened(s, g, path))
         /\ Sound(s, RecordingFragmentClosed(s, g, path))
<1> DEFINE opened == [s.recording EXCEPT !.current_file = path]
           left == IF s.recording.current_file = path
                     THEN None ELSE s.recording.current_file
           closed == [s.recording EXCEPT !.last_finalized_file = path,
                                         !.current_file = left]
           open == s.recording.state \in {"running", "stopping"}
<1>1. s \in MediaRecord /\ s.recording \in RecordingRecord
  BY Parts DEF Coherent
<1>2. /\ opened \in RecordingRecord
      /\ opened.state = s.recording.state
      /\ opened.stop_target = s.recording.stop_target
      /\ opened.rotation_pending = s.recording.rotation_pending
      /\ opened.warning = s.recording.warning
      /\ opened.last_error = s.recording.last_error
  BY <1>1 DEF RecordingRecord
<1>3. left \in File \cup {None}
  BY <1>1 DEF RecordingRecord
<1>4. /\ closed \in RecordingRecord
      /\ closed.state = s.recording.state
      /\ closed.stop_target = s.recording.stop_target
      /\ closed.rotation_pending = s.recording.rotation_pending
      /\ closed.warning = s.recording.warning
      /\ closed.last_error = s.recording.last_error
  BY <1>1, <1>3 DEF RecordingRecord
<1>5. ASSUME open
      PROVE  \A u : u.recording = opened => RecordingCoherent(u)
  BY <1>2, <1>5 DEF Coherent, RecordingCoherent, Live
<1>6. ASSUME open
      PROVE  \A u : u.recording = closed => RecordingCoherent(u)
  BY <1>4, <1>6 DEF Coherent, RecordingCoherent, Live
<1>7. /\ s.recording.state \in Live => s.capture.state = "running"
      /\ s.recording.state = "stopping" =>
           s.capture.state \notin {"stopped", "stopping"}
  BY DEF Coherent, SourceHeld
<1>8. open => Sound(s, Change([s EXCEPT !.recording = opened], <<>>))
  BY <1>2, <1>5, <1>7, RecordingFrame, EffectLists
<1>9. open => Sound(s, Change([s EXCEPT !.recording = closed], <<>>))
  BY <1>4, <1>6, <1>7, RecordingFrame, EffectLists
<1>10. [s EXCEPT !.recording = opened] = [s EXCEPT !.recording.current_file = path]
  OBVIOUS
<1>11. Sound(s, RecordingFragmentOpened(s, g, path))
  BY <1>8, <1>10, KeepSound DEF RecordingFragmentOpened
<1>12. Sound(s, RecordingFragmentClosed(s, g, path))
  BY <1>9, KeepSound DEF RecordingFragmentClosed
<1> QED
  BY <1>11, <1>12

(* A completed rotation is pending no longer.                               *)
LEMMA RecordingRotationCompletedSound ==
  ASSUME NEW s, Coherent(s), NEW g
  PROVE  Sound(s, RecordingRotationCompleted(s, g))
<1> DEFINE r == [s.recording EXCEPT !.rotation_pending = FALSE]
<1>1. s \in MediaRecord /\ s.recording \in RecordingRecord
  BY Parts DEF Coherent
<1>2. /\ r \in RecordingRecord
      /\ r.state = s.recording.state /\ r.rotation_pending = FALSE
      /\ r.stop_target = s.recording.stop_target
      /\ r.current_file = s.recording.current_file
      /\ r.warning = s.recording.warning
      /\ r.last_error = s.recording.last_error
  BY <1>1 DEF RecordingRecord
<1>3. \A u : u.recording = r => RecordingCoherent(u)
  BY <1>2 DEF Coherent, RecordingCoherent
<1>4. /\ s.recording.state \in Live => s.capture.state = "running"
      /\ s.recording.state = "stopping" =>
           s.capture.state \notin {"stopped", "stopping"}
  BY DEF Coherent, SourceHeld
<1>5. Sound(s, Change([s EXCEPT !.recording = r], <<>>))
  BY <1>2, <1>3, <1>4, RecordingFrame, EffectLists
<1>6. [s EXCEPT !.recording = r] =
        [s EXCEPT !.recording.rotation_pending = FALSE]
  OBVIOUS
<1> QED
  BY <1>5, <1>6, KeepSound DEF RecordingRotationCompleted

(* A monitoring failure is noted and touches no branch.                     *)
LEMMA MonitoringFailedSound ==
  ASSUME NEW s, Coherent(s)
  PROVE  Sound(s, MonitoringFailed(s))
<1> DEFINE t == [s EXCEPT !.monitoring_error = "monitoring_failed"]
<1>1. s \in MediaRecord
  BY DEF Coherent
<1>2. /\ t \in MediaRecord /\ t.service = s.service /\ t.capture = s.capture
      /\ t.stream = s.stream /\ t.connection = s.connection
      /\ t.recording = s.recording
  BY <1>1 DEF MediaRecord
<1>3. Coherent(t)
  BY <1>2 DEF Coherent, SourceHeld, RetryCoherent, RecordingCoherent,
              BitrateCoherent
<1> QED
  BY <1>2, <1>3, ChangeSound, EffectLists DEF MonitoringFailed

-----------------------------------------------------------------------------
(* Service shutdown.                                                        *)

(* The recording stage leaves no live recording and touches nothing else.   *)
LEMMA ShutRecordingSound ==
  ASSUME NEW d, Coherent(d.state), d.effects \in Seq(Effect)
  PROVE  LET e == ShutRecording(d) IN
         /\ Coherent(e.state) /\ e.effects \in Seq(Effect)
         /\ e.state.service = d.state.service
         /\ e.state.recording.state \notin Live
<1> DEFINE s == d.state
           r == [s.recording EXCEPT !.state = "stopping",
                                    !.stop_target = "stopped",
                                    !.rotation_pending = FALSE]
           t == [s EXCEPT !.recording = r]
           effs == AddEffect(d.effects, "recording.stop")
<1>1. s \in MediaRecord /\ s.recording \in RecordingRecord
  BY Parts DEF Coherent
<1>2. /\ r \in RecordingRecord /\ r.state = "stopping"
      /\ r.stop_target = "stopped" /\ r.rotation_pending = FALSE
  BY <1>1, StoppingType
<1>3. \A u : u.recording = r => RecordingCoherent(u)
  BY <1>2 DEF RecordingCoherent, Live
<1>4. s.recording.state \in Live => s.capture.state = "running"
  BY DEF Coherent, SourceHeld
<1>5. s.recording.state \in Live => Coherent(t)
  BY <1>2, <1>3, <1>4, RecordingFrame, EffectLists DEF Live
<1>6. t.service = s.service /\ t.recording = r
  BY <1>1 DEF MediaRecord
<1>7. effs \in Seq(Effect)
  BY AddEffectType DEF Effect
<1>8. CASE s.recording.state \in Live
  <2>1. ShutRecording(d) = Change(t, effs)
    BY <1>8 DEF ShutRecording
  <2>2. ShutRecording(d).state = t /\ ShutRecording(d).effects = effs
    BY <2>1 DEF Change
  <2> HIDE DEF r, t, effs
  <2> QED
    BY <1>2, <1>5, <1>6, <1>7, <1>8, <2>2 DEF Live
<1>9. CASE s.recording.state \notin Live
  BY <1>9 DEF ShutRecording
<1> QED
  BY <1>8, <1>9

(* The stream stage leaves no live stream and the recording as it is.       *)
LEMMA ShutStreamSound ==
  ASSUME NEW d, Coherent(d.state), d.effects \in Seq(Effect)
  PROVE  LET e == ShutStream(d) IN
         /\ Coherent(e.state) /\ e.effects \in Seq(Effect)
         /\ e.state.service = d.state.service
         /\ e.state.recording = d.state.recording
         /\ e.state.stream.state \notin Live
<1> DEFINE s == d.state
           r == [s.stream EXCEPT !.state = "stopping",
                                 !.pending_opus_bitrate_bps = 0]
           c == Disconnected(s.connection)
           t == [s EXCEPT !.stream = r, !.connection = c]
           effs == AddEffect(IF s.connection.state = "retry_wait"
                               THEN AddEffect(d.effects,
                                              "connection.cancel_retry")
                               ELSE d.effects,
                             "stream.stop")
<1>1. s \in MediaRecord
  BY DEF Coherent
<1>2. r \in StreamRecord /\ c \in ConnectionRecord
  BY <1>1, Parts, DisconnectedType DEF StreamRecord, BranchState
<1>3. /\ r.state = "stopping" /\ r.pending_opus_bitrate_bps = 0
      /\ r.generation = s.stream.generation
  BY <1>1, Parts DEF StreamRecord
<1>4. /\ c.state = "disconnected" /\ c.next_retry_seconds = 0
      /\ c.consecutive_failures = s.connection.consecutive_failures
      /\ c.reconnect_count = s.connection.reconnect_count
      /\ c.statistics = s.connection.statistics
  BY <1>1, Parts DEF ConnectionRecord, Disconnected
<1>5. \A u : u.stream = r /\ u.connection = c =>
               RetryCoherent(u) /\ BitrateCoherent(u)
  BY <1>3, <1>4 DEF Coherent, RetryCoherent, BitrateCoherent, Live
<1>6. Coherent(t)
  BY <1>2, <1>3, <1>5, StreamFrame, EffectLists DEF Live
<1>7. /\ t.service = s.service /\ t.recording = s.recording /\ t.stream = r
  BY <1>1 DEF MediaRecord
<1>8. effs \in Seq(Effect)
  <2>1. AddEffect(d.effects, "connection.cancel_retry") \in Seq(Effect)
    BY AddEffectType DEF Effect
  <2> QED
    BY <2>1, AddEffectType DEF Effect
<1>9. CASE s.stream.state \in Live
  <2>1. ShutStream(d) = Change(t, effs)
    BY <1>9 DEF ShutStream
  <2>2. ShutStream(d).state = t /\ ShutStream(d).effects = effs
    BY <2>1 DEF Change
  <2> HIDE DEF r, c, t, effs
  <2> QED
    BY <1>3, <1>6, <1>7, <1>8, <2>2 DEF Live
<1>10. CASE s.stream.state \notin Live
  BY <1>10 DEF ShutStream
<1> QED
  BY <1>9, <1>10

(* The capture stage comes when nothing is over capture any more.           *)
LEMMA ShutCaptureSound ==
  ASSUME NEW d, Coherent(d.state), d.effects \in Seq(Effect),
         d.state.recording.state \notin Active,
         d.state.stream.state \notin Active
  PROVE  LET e == ShutCapture(d) IN
         /\ Coherent(e.state) /\ e.effects \in Seq(Effect)
         /\ e.state.service = d.state.service
         /\ e.state.recording = d.state.recording
         /\ e.state.stream = d.state.stream
         /\ e.state.capture.state \notin Live
<1> DEFINE s == d.state
           c == [s.capture EXCEPT !.state = "stopping"]
           t == [s EXCEPT !.capture = c]
           effs == AddEffect(d.effects, "capture.stop")
<1>1. s \in MediaRecord
  BY DEF Coherent
<1>2. c \in CaptureRecord /\ c.state = "stopping"
  BY <1>1, Parts DEF CaptureRecord, BranchState
<1>3. /\ t.service = s.service /\ t.recording = s.recording
      /\ t.stream = s.stream /\ t.capture = c
  BY <1>1 DEF MediaRecord
<1>4. SourceHeld(t)
  BY <1>3 DEF SourceHeld, Live, Active
<1>5. effs \in Seq(Effect)
  BY AddEffectType DEF Effect
<1>6. Coherent(t)
  BY <1>2, <1>4, <1>5, CaptureFrame DEF Sound, Change
<1>7. t = [s EXCEPT !.capture.state = "stopping"]
  OBVIOUS
<1>8. CASE s.capture.state \in Live
  <2>1. ShutCapture(d) = Change(t, effs)
    BY <1>7, <1>8 DEF ShutCapture
  <2>2. ShutCapture(d).state = t /\ ShutCapture(d).effects = effs
    BY <2>1 DEF Change
  <2> HIDE DEF c, t, effs
  <2> QED
    BY <1>2, <1>3, <1>5, <1>6, <2>2 DEF Live
<1>9. CASE s.capture.state \notin Live
  BY <1>9 DEF ShutCapture
<1> QED
  BY <1>8, <1>9

(* Changing the service alone keeps the branches coherent.                  *)
LEMMA PutService ==
  ASSUME NEW s, Coherent(s), NEW v \in ServiceState
  PROVE  LET t == [s EXCEPT !.service = v] IN
         /\ Coherent(t) /\ t.service = v
         /\ BranchStates(t) = BranchStates(s)
<1> DEFINE t == [s EXCEPT !.service = v]
<1>1. s \in MediaRecord
  BY DEF Coherent
<1>2. /\ t \in MediaRecord /\ t.service = v /\ t.capture = s.capture
      /\ t.stream = s.stream /\ t.connection = s.connection
      /\ t.recording = s.recording
  BY <1>1 DEF MediaRecord
<1> QED
  BY <1>2 DEF Coherent, SourceHeld, RetryCoherent, RecordingCoherent,
              BitrateCoherent, BranchStates

(* The stages push a shutdown as far as it goes: it stops at a branch that  *)
(* is stopping, or ends with all branches at rest.                          *)
LEMMA AdvanceShutdownGood ==
  ASSUME NEW d, Coherent(d.state), d.effects \in Seq(Effect),
         d.state.service # "stopped",
         d.state.service = "shutting_down" /\ d.error # "none" =>
           "stopping" \in BranchStates(d.state)
  PROVE  LET e == AdvanceShutdown(d) IN
         Good(e.state) /\ e.effects \in Seq(Effect)
<1> DEFINE recorded == ShutRecording(d)
           streamed == ShutStream(recorded)
           captured == ShutCapture(streamed)
           served == ShutService(captured)
<1>1. CASE d.state.service # "shutting_down" \/ d.error # "none"
  <2>1. AdvanceShutdown(d) = d
    BY <1>1 DEF AdvanceShutdown
  <2> QED
    BY <1>1, <2>1 DEF Good, Waiting, Quiet
<1>2. CASE d.state.service = "shutting_down" /\ d.error = "none"
  <2>1. /\ Coherent(recorded.state) /\ recorded.effects \in Seq(Effect)
        /\ recorded.state.service = "shutting_down"
        /\ recorded.state.recording.state \notin Live
    BY <1>2, ShutRecordingSound
  <2>2. /\ Coherent(streamed.state) /\ streamed.effects \in Seq(Effect)
        /\ streamed.state.service = "shutting_down"
        /\ streamed.state.recording = recorded.state.recording
        /\ streamed.state.stream.state \notin Live
    BY <2>1, ShutStreamSound
  <2>3. CASE recorded.state.recording.state = "stopping"
    <3>1. AdvanceShutdown(d) = recorded
      BY <1>2, <2>3 DEF AdvanceShutdown
    <3> QED
      BY <2>1, <2>3, <3>1 DEF Good, Waiting, Quiet, BranchStates
  <2>4. CASE /\ recorded.state.recording.state # "stopping"
             /\ streamed.state.stream.state = "stopping"
    <3>1. AdvanceShutdown(d) = streamed
      BY <1>2, <2>4 DEF AdvanceShutdown
    <3> QED
      BY <2>2, <2>4, <3>1 DEF Good, Waiting, Quiet, BranchStates
  <2>5. CASE /\ recorded.state.recording.state # "stopping"
             /\ streamed.state.stream.state # "stopping"
    <3>1. /\ streamed.state.recording.state \notin Active
          /\ streamed.state.stream.state \notin Active
      BY <2>1, <2>2, <2>5 DEF Live, Active
    <3>2. /\ Coherent(captured.state) /\ captured.effects \in Seq(Effect)
          /\ captured.state.service = "shutting_down"
          /\ captured.state.recording = streamed.state.recording
          /\ captured.state.stream = streamed.state.stream
          /\ captured.state.capture.state \notin Live
      BY <2>2, <3>1, ShutCaptureSound
    <3>3. CASE captured.state.capture.state = "stopping"
      <4>1. AdvanceShutdown(d) = captured
        BY <1>2, <2>5, <3>3 DEF AdvanceShutdown
      <4> QED
        BY <3>2, <3>3, <4>1 DEF Good, Waiting, Quiet, BranchStates
    <3>4. CASE captured.state.capture.state # "stopping"
      <4>1. AdvanceShutdown(d) = served
        BY <1>2, <2>5, <3>4 DEF AdvanceShutdown
      <4>2. /\ Coherent(served.state) /\ served.state.service = "stopped"
            /\ BranchStates(served.state) = BranchStates(captured.state)
        BY <3>2, PutService DEF ShutService, Change, ServiceState
      <4>3. BranchStates(captured.state) \cap Active = {}
        BY <3>1, <3>2, <3>4 DEF BranchStates, Live, Active
      <4>4. served.effects \in Seq(Effect)
        BY <3>2, AddEffectType DEF ShutService, Change, Effect
      <4> QED
        BY <4>1, <4>2, <4>3, <4>4 DEF Good, Waiting, Quiet
    <3> QED
      BY <3>3, <3>4
  <2> QED
    BY <2>3, <2>4, <2>5
<1> QED
  BY <1>1, <1>2

-----------------------------------------------------------------------------
(* The reducer.                                                             *)

(* A backend event in a good state leads to a good state.                   *)
LEMMA OnEventGood ==
  ASSUME NEW s, Good(s), NEW d, Sound(s, d)
  PROVE  LET e == OnEvent(s, d) IN Good(e.state) /\ e.effects \in Seq(Effect)
<1>1. CASE s.service = "stopped"
  BY <1>1, EffectLists DEF OnEvent, Keep, Change
<1>2. CASE s.service # "stopped"
  <2>1. OnEvent(s, d) = AdvanceShutdown(d)
    BY <1>2 DEF OnEvent
  <2>2. /\ Coherent(d.state) /\ d.effects \in Seq(Effect)
        /\ d.state.service # "stopped"
        /\ d.state.service = "shutting_down" /\ d.error # "none" =>
             "stopping" \in BranchStates(d.state)
    BY <1>2 DEF Sound, Good, Waiting
  <2> QED
    BY <2>1, <2>2, AdvanceShutdownGood
<1> QED
  BY <1>1, <1>2

(* So does a command: it is refused, or the service is running.             *)
LEMMA OnCommandGood ==
  ASSUME NEW s, Good(s), NEW d, Sound(s, d)
  PROVE  LET e == OnCommand(s, d) IN Good(e.state) /\ e.effects \in Seq(Effect)
<1>1. CASE s.service # "running"
  BY <1>1, EffectLists DEF OnCommand, Reject
<1>2. CASE s.service = "running"
  BY <1>2 DEF OnCommand, Sound, Good, Waiting, Quiet
<1> QED
  BY <1>1, <1>2

(* The first request for a shutdown starts it, a later one changes nothing. *)
LEMMA ServiceShutdownGood ==
  ASSUME NEW s, Good(s)
  PROVE  LET e == OnEvent(s, ServiceShutdown(s)) IN
         Good(e.state) /\ e.effects \in Seq(Effect)
<1> DEFINE t == [s EXCEPT !.service = "shutting_down"]
<1>1. CASE s.service = "running"
  <2>1. Coherent(t) /\ t.service = "shutting_down"
    BY PutService DEF Good, ServiceState
  <2>2. OnEvent(s, ServiceShutdown(s)) = AdvanceShutdown(Change(t, <<>>))
    BY <1>1 DEF OnEvent, ServiceShutdown
  <2>3. /\ Change(t, <<>>).state = t /\ Change(t, <<>>).error = "none"
        /\ Change(t, <<>>).effects \in Seq(Effect)
    BY EffectLists DEF Change
  <2> HIDE DEF t
  <2> QED
    BY <2>1, <2>2, <2>3, AdvanceShutdownGood
<1>2. CASE s.service # "running"
  <2>1. s.service \in {"shutting_down", "stopped"}
    BY <1>2, Parts DEF Good, Coherent, ServiceState
  <2>2. Sound(s, Keep(s))
    BY KeepSound DEF Good
  <2>3. OnEvent(s, ServiceShutdown(s)) = OnEvent(s, Keep(s))
    BY <2>1 DEF OnEvent, ServiceShutdown
  <2> QED
    BY <2>2, <2>3, OnEventGood
<1> QED
  BY <1>1, <1>2

(* What a command carries.                                                  *)
LEMMA CommandFields ==
  ASSUME NEW e \in Command
  PROVE  \/ e.name \in {"capture.stop", "stream.stop", "recording.stop",
                        "recording.rotate"}
         \/ e.name = "capture.start" /\ e.config_revision \in Revision
         \/ /\ e.name = "stream.start"
            /\ e.config_revision \in Revision
            /\ e.representation_id \in Representation
            /\ e.opus_bitrate_bps \in Bitrate
         \/ e.name = "stream.set_opus_bitrate" /\ e.bitrate_bps \in Bitrate
         \/ /\ e.name = "recording.start"
            /\ e.config_revision \in Revision
            /\ e.storage_status \in StorageStatus
  BY DEF Command, PlainEvent, RevisionEvent

(* What a capture or stream event carries.                                  *)
LEMMA StreamEventFields ==
  ASSUME NEW s, NEW e \in StreamEvent(s)
  PROVE  \/ e.name \in {"stream.started", "stream.stopped", "stream.failed",
                        "connection.connected", "connection.retry_due",
                        "connection.stats"}
         \/ /\ e.name \in {"stream.opus_bitrate_applied",
                           "stream.opus_bitrate_failed"}
            /\ e.bitrate_bps \in Bitrate
         \/ e.name = "connection.lost" /\ e.retryable \in BOOLEAN
  BY DEF StreamEvent, GenerationEvent, BitrateEvent

(* What a recording event carries.                                          *)
LEMMA RecordingEventFields ==
  ASSUME NEW s, NEW e \in RecordingEvent(s)
  PROVE  \/ e.name \in {"recording.started", "recording.stopped",
                        "recording.failed", "recording.rotation_completed"}
         \/ /\ e.name \in {"recording.fragment_opened",
                           "recording.fragment_closed"}
            /\ e.path \in File
         \/ /\ e.name = "recording.storage_checked"
            /\ e.storage_status \in StorageStatus
  BY DEF RecordingEvent, GenerationEvent, FileEvent

(* A decision of the reducer leads to a good state.                         *)
Reduced(s, e) ==
  Good(Reduce(s, e).state) /\ Reduce(s, e).effects \in Seq(Effect)

(* Commands.                                                                *)
LEMMA ReduceCommandGood ==
  ASSUME NEW s, Good(s), NEW e \in Command
  PROVE  Reduced(s, e)
<1>. Coherent(s)
  BY DEF Good
<1>1. CASE e.name = "capture.stop"
  BY <1>1, CaptureStopSound, OnCommandGood DEF Reduce, Reduced
<1>2. CASE e.name = "stream.stop"
  BY <1>2, StreamStopSound, OnCommandGood DEF Reduce, Reduced
<1>3. CASE e.name = "recording.stop"
  BY <1>3, RecordingStopSound, OnCommandGood DEF Reduce, Reduced
<1>4. CASE e.name = "recording.rotate"
  BY <1>4, RecordingRotateSound, OnCommandGood DEF Reduce, Reduced
<1>5. CASE e.name = "capture.start" /\ e.config_revision \in Revision
  BY <1>5, CaptureStartSound, OnCommandGood DEF Reduce, Reduced
<1>6. CASE /\ e.name = "stream.start" /\ e.config_revision \in Revision
           /\ e.representation_id \in Representation
           /\ e.opus_bitrate_bps \in Bitrate
  BY <1>6, StreamStartSound, OnCommandGood DEF Reduce, Reduced
<1>7. CASE e.name = "stream.set_opus_bitrate" /\ e.bitrate_bps \in Bitrate
  BY <1>7, SetOpusBitrateSound, OnCommandGood DEF Reduce, Reduced
<1>8. CASE /\ e.name = "recording.start" /\ e.config_revision \in Revision
           /\ e.storage_status \in StorageStatus
  BY <1>8, RecordingStartSound, OnCommandGood DEF Reduce, Reduced
<1> QED
  BY <1>1, <1>2, <1>3, <1>4, <1>5, <1>6, <1>7, <1>8, CommandFields

(* Capture events.                                                          *)
LEMMA ReduceCaptureGood ==
  ASSUME NEW s, Good(s), NEW e \in CaptureEvent(s)
  PROVE  Reduced(s, e)
<1>. Coherent(s)
  BY DEF Good
<1>1. CASE e.name = "capture.started"
  BY <1>1, CaptureStartedSound, OnEventGood DEF Reduce, Reduced
<1>2. CASE e.name = "capture.stopped"
  BY <1>2, CaptureStoppedSound, OnEventGood DEF Reduce, Reduced
<1>3. CASE e.name = "capture.failed"
  BY <1>3, CaptureFailedSound, OnEventGood DEF Reduce, Reduced
<1> QED
  BY <1>1, <1>2, <1>3 DEF CaptureEvent, GenerationEvent

(* Stream and connection events.                                            *)
LEMMA ReduceStreamGood ==
  ASSUME NEW s, Good(s), NEW e \in StreamEvent(s)
  PROVE  Reduced(s, e)
<1>. Coherent(s)
  BY DEF Good
<1>1. CASE e.name = "stream.started"
  BY <1>1, StreamStartedSound, OnEventGood DEF Reduce, Reduced
<1>2. CASE e.name = "stream.stopped"
  BY <1>2, StreamStoppedSound, OnEventGood DEF Reduce, Reduced
<1>3. CASE e.name = "stream.failed"
  BY <1>3, StreamFailedSound, OnEventGood DEF Reduce, Reduced
<1>4. CASE e.name = "connection.connected"
  BY <1>4, ConnectionConnectedSound, OnEventGood DEF Reduce, Reduced
<1>5. CASE e.name = "connection.retry_due"
  BY <1>5, ConnectionRetryDueSound, OnEventGood DEF Reduce, Reduced
<1>6. CASE e.name = "connection.stats"
  BY <1>6, ConnectionStatsSound, OnEventGood DEF Reduce, Reduced
<1>7. CASE e.name = "stream.opus_bitrate_applied" /\ e.bitrate_bps \in Bitrate
  BY <1>7, OpusBitrateSound, OnEventGood DEF Reduce, Reduced
<1>8. CASE e.name = "stream.opus_bitrate_failed" /\ e.bitrate_bps \in Bitrate
  BY <1>8, OpusBitrateSound, OnEventGood DEF Reduce, Reduced
<1>9. CASE e.name = "connection.lost" /\ e.retryable \in BOOLEAN
  BY <1>9, ConnectionLostSound, OnEventGood DEF Reduce, Reduced
<1> QED
  BY <1>1, <1>2, <1>3, <1>4, <1>5, <1>6, <1>7, <1>8, <1>9, StreamEventFields

(* Recording events.                                                        *)
LEMMA ReduceRecordingGood ==
  ASSUME NEW s, Good(s), NEW e \in RecordingEvent(s)
  PROVE  Reduced(s, e)
<1>. Coherent(s)
  BY DEF Good
<1>1. CASE e.name = "recording.started"
  BY <1>1, RecordingStartedSound, OnEventGood DEF Reduce, Reduced
<1>2. CASE e.name = "recording.stopped"
  BY <1>2, RecordingStoppedSound, OnEventGood DEF Reduce, Reduced
<1>3. CASE e.name = "recording.failed"
  BY <1>3, RecordingFailedSound, OnEventGood DEF Reduce, Reduced
<1>4. CASE e.name = "recording.rotation_completed"
  BY <1>4, RecordingRotationCompletedSound, OnEventGood DEF Reduce, Reduced
<1>5. CASE e.name = "recording.fragment_opened" /\ e.path \in File
  BY <1>5, RecordingFragmentSound, OnEventGood DEF Reduce, Reduced
<1>6. CASE e.name = "recording.fragment_closed" /\ e.path \in File
  BY <1>6, RecordingFragmentSound, OnEventGood DEF Reduce, Reduced
<1>7. CASE /\ e.name = "recording.storage_checked"
           /\ e.storage_status \in StorageStatus
  BY <1>7, RecordingStorageCheckedSound, OnEventGood DEF Reduce, Reduced
<1> QED
  BY <1>1, <1>2, <1>3, <1>4, <1>5, <1>6, <1>7, RecordingEventFields

-----------------------------------------------------------------------------
(* The specification.                                                       *)

(* The inductive invariant.                                                 *)
IInv == Good(media) /\ effects \in Seq(Effect)

(* A fresh media service is in a good state.                                *)
LEMMA InitGood == Init => IInv
<1>. SUFFICES ASSUME Init PROVE IInv
  OBVIOUS
<1>1. InitialMedia \in MediaRecord
  BY DEF InitialMedia, MediaRecord, CaptureRecord, StreamRecord,
         ConnectionRecord, RecordingRecord, ServiceState, BranchState,
         RecordingState, ConnectionState
<1>2. /\ SourceHeld(InitialMedia) /\ RecordingCoherent(InitialMedia)
      /\ BitrateCoherent(InitialMedia)
  BY DEF InitialMedia, SourceHeld, RecordingCoherent, BitrateCoherent, Live
<1>3. RetryCoherent(InitialMedia)
  BY DEF InitialMedia, RetryCoherent, Live
<1>4. Waiting(InitialMedia) /\ Quiet(InitialMedia)
  BY DEF InitialMedia, Waiting, Quiet
<1> QED
  BY <1>1, <1>2, <1>3, <1>4, EffectLists DEF Init, IInv, Good, Coherent

(* Every step leads from a good state to a good state.                      *)
LEMMA StepGood == IInv /\ [Next]_vars => IInv'
<1>. SUFFICES ASSUME IInv, [Next]_vars PROVE IInv'
  OBVIOUS
<1>. Good(media)
  BY DEF IInv
<1>1. ASSUME NEW e, Handle(e), Reduced(media, e) PROVE IInv'
  BY <1>1 DEF Handle, Reduced, IInv
<1>2. CASE HandleCommand
  BY <1>1, <1>2, ReduceCommandGood DEF HandleCommand
<1>3. CASE HandleCaptureEvent
  BY <1>1, <1>3, ReduceCaptureGood DEF HandleCaptureEvent
<1>4. CASE HandleStreamEvent
  BY <1>1, <1>4, ReduceStreamGood DEF HandleStreamEvent
<1>5. CASE HandleRecordingEvent
  BY <1>1, <1>5, ReduceRecordingGood DEF HandleRecordingEvent
<1>6. CASE HandleMonitoringFailed
  <2>1. Reduced(media, [name |-> "monitoring.failed"])
    BY MonitoringFailedSound, OnEventGood DEF Reduce, Reduced, Good
  <2> QED
    BY <1>1, <1>6, <2>1 DEF HandleMonitoringFailed
<1>7. CASE HandleShutdown
  <2>1. Reduced(media, [name |-> "service.shutdown"])
    BY ServiceShutdownGood DEF Reduce, Reduced
  <2> QED
    BY <1>1, <1>7, <2>1 DEF HandleShutdown
<1>8. CASE UNCHANGED vars
  BY <1>8 DEF vars, IInv
<1> QED
  BY <1>2, <1>3, <1>4, <1>5, <1>6, <1>7, <1>8 DEF Next

(* The inductive invariant holds always.                                    *)
LEMMA AlwaysGood == Spec => []IInv
  BY InitGood, StepGood, PTL DEF Spec

(* The media state always has the shape MediaState declares and the reducer *)
(* asks only for effects the runtime dispatches.                            *)
THEOREM TypeCorrect == Spec => []TypeOK
<1>1. IInv => TypeOK
  BY DEF IInv, Good, Coherent, TypeOK
<1> QED
  BY <1>1, AlwaysGood, PTL

(* Whatever arrives in whatever order, no branch is live without a running  *)
(* capture and no recording is finalized over a capture being stopped.      *)
THEOREM SourceHeldAlways == Spec => []BranchesHoldTheirSource
<1>1. IInv => BranchesHoldTheirSource
  BY DEF IInv, Good, Coherent, BranchesHoldTheirSource
<1> QED
  BY <1>1, AlwaysGood, PTL

(* A shutdown under way always has a stop to wait for, and a stopped        *)
(* service has no branch left: faults in its course do not strand it.       *)
THEOREM ShutdownSound == Spec => []ShutdownNeverStuck
<1>1. IInv => ShutdownNeverStuck
  BY DEF IInv, Good, ShutdownNeverStuck
<1> QED
  BY <1>1, AlwaysGood, PTL

(* The connection fits its stream, and the delay announced is the backoff   *)
(* step for the failures so far.                                            *)
THEOREM RetrySound == Spec => []RetryStateCoherent
<1>1. IInv => RetryStateCoherent
  BY DEF IInv, Good, Coherent, RetryStateCoherent
<1> QED
  BY <1>1, AlwaysGood, PTL

(* The recording's target, warning, error, file and rotation fit its state. *)
THEOREM RecordingSound == Spec => []RecordingFieldsCoherent
<1>1. IInv => RecordingFieldsCoherent
  BY DEF IInv, Good, Coherent, RecordingFieldsCoherent
<1> QED
  BY <1>1, AlwaysGood, PTL

(* A bitrate change is pending only on a running Opus stream, and for       *)
(* another bitrate than the one in force.                                   *)
THEOREM BitrateSound == Spec => []PendingBitrateCoherent
<1>1. IInv => PendingBitrateCoherent
  BY DEF IInv, Good, Coherent, PendingBitrateCoherent
<1> QED
  BY <1>1, AlwaysGood, PTL

(* All fields of the state fit each other between any two events.           *)
THEOREM StateSound == Spec => []StateCoherent
<1>1. TypeOK /\ ShutdownNeverStuck /\ RetryStateCoherent
        /\ PendingBitrateCoherent /\ RecordingFieldsCoherent => StateCoherent
  BY DEF StateCoherent
<1> QED
  BY <1>1, TypeCorrect, ShutdownSound, RetrySound, BitrateSound, RecordingSound, PTL
=============================================================================
