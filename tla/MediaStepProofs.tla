--------------------------- MODULE MediaStepProofs ---------------------------
(***************************************************************************)
(* What a step of the reducer may do: the action properties of MediaState, *)
(* for every value of its constants. Each is a relation between a state    *)
(* and the decision taken in it, proved of every operation, then of the    *)
(* shutdown stages a backend event goes on to, then of Reduce.             *)
(*                                                                         *)
(* Told relates the effects asked for to the branches that moved. It does  *)
(* not survive the stages by itself: a stage that stops a branch would     *)
(* repeat a stop the event had asked for already, or move on what the      *)
(* event had just started. Mild says that no backend event does either.    *)
(*                                                                         *)
(* The last part is about handling the same command or event once more.    *)
(* Still says that nothing changes and nothing is asked for. A handler     *)
(* leaves behind what makes it return early (a number used up, a target    *)
(* already set), and the stages leave a state in which none of them has    *)
(* anything left to do (Pushed, Parked).                                   *)
(***************************************************************************)
EXTENDS MediaStateProofs

(* A branch that was q in state r comes into the state value.               *)
Into(r, q, value) == r.state # value /\ q.state = value

(* A stop is asked for just when its branch has to be waited for.           *)
StopsTold(s, t, asked) ==
  /\ Into(s.recording, t.recording, "stopping") <=> "recording.stop" \in asked
  /\ Into(s.capture, t.capture, "stopping") <=> "capture.stop" \in asked
  /\ Into(s.stream, t.stream, "stopping") => "stream.stop" \in asked
  /\ "stream.stop" \in asked => \/ Into(s.stream, t.stream, "stopping")
                                \/ Into(s.capture, t.capture, "failed")

(* The retry timer is asked for on entering the wait, and on leaving it     *)
(* cancelled or used up.                                                    *)
TimerTold(s, t, asked) ==
  /\ Into(s.connection, t.connection, "retry_wait") <=>
       "connection.schedule_retry" \in asked
  /\ s.connection.state = "retry_wait" /\ t.connection.state # "retry_wait" =>
       {"connection.cancel_retry", "connection.connect"} \cap asked # {}

(* A branch takes a number just when it is started.                         *)
Numbered(r, q) ==
  IF q.generation = r.generation THEN ~Into(r, q, "starting")
  ELSE /\ q.generation = r.generation + 1
       /\ r.state \notin Active /\ q.state = "starting"

AllNumbered(s, t) ==
  /\ Numbered(s.capture, t.capture)
  /\ Numbered(s.stream, t.stream)
  /\ Numbered(s.recording, t.recording)

Told(s, t, asked) ==
  StopsTold(s, t, asked) /\ TimerTold(s, t, asked) /\ AllNumbered(s, t)

(* A branch keeps its number and does not come to life.                     *)
Rests(r, q) ==
  /\ q.generation = r.generation
  /\ q.state \in Live => r.state \in Live
  /\ q.state = "starting" => r.state = "starting"

(* A backend event brings no branch to life, sends neither the stream nor   *)
(* capture to a stop, and asks for the timer only over a live stream and    *)
(* an untouched recording.                                                  *)
Mild(s, t, asked) ==
  /\ Rests(s.capture, t.capture) /\ Rests(s.stream, t.stream)
  /\ Rests(s.recording, t.recording)
  /\ ~Into(s.stream, t.stream, "stopping")
  /\ ~Into(s.capture, t.capture, "stopping")
  /\ "service.stop" \notin asked
  /\ "connection.schedule_retry" \in asked =>
       s.stream.state \in Live /\ t.recording = s.recording

(* What a command's decision is, and what a backend event's is.             *)
Obeys(s, d) == Told(s, d.state, Range(d.effects)) /\ d.state.service = s.service
Answers(s, d) == Obeys(s, d) /\ Mild(s, d.state, Range(d.effects))

-----------------------------------------------------------------------------
(* The effects of a decision as a set.                                      *)

LEMMA RangeOne ==
  /\ Range(<<>>) = {}
  /\ \A e : Range(<<e>>) = {e}
  BY DEF Range

LEMMA RangeConcat ==
  ASSUME NEW p \in Seq(Effect), NEW q \in Seq(Effect)
  PROVE  Range(p \o q) = Range(p) \cup Range(q)
<1>1. /\ p \o q \in Seq(Effect) /\ Len(p \o q) = Len(p) + Len(q)
      /\ \A i \in 1..Len(p) + Len(q) :
           (p \o q)[i] = IF i <= Len(p) THEN p[i] ELSE q[i - Len(p)]
  BY ConcatProperties
<1>2. Range(p \o q) \subseteq Range(p) \cup Range(q)
  <2> SUFFICES ASSUME NEW i \in 1..Len(p) + Len(q)
               PROVE  (p \o q)[i] \in Range(p) \cup Range(q)
    BY <1>1 DEF Range
  <2> QED BY <1>1 DEF Range
<1>3. Range(p) \subseteq Range(p \o q)
  <2> SUFFICES ASSUME NEW i \in 1..Len(p) PROVE p[i] \in Range(p \o q)
    BY DEF Range
  <2> QED BY <1>1 DEF Range
<1>4. Range(q) \subseteq Range(p \o q)
  <2> SUFFICES ASSUME NEW i \in 1..Len(q) PROVE q[i] \in Range(p \o q)
    BY DEF Range
  <2>1. Len(p) + i \in DOMAIN (p \o q) /\ (p \o q)[Len(p) + i] = q[i]
    BY <1>1
  <2> QED BY <2>1 DEF Range
<1> QED BY <1>2, <1>3, <1>4

LEMMA RangeAdded ==
  ASSUME NEW q \in Seq(Effect), NEW e \in Effect
  PROVE  Range(AddEffect(q, e)) = Range(q) \cup {e}
<1>1. CASE \E i \in DOMAIN q : q[i] = e
  BY <1>1 DEF AddEffect, Range
<1>2. CASE ~\E i \in DOMAIN q : q[i] = e
  <2>1. AddEffect(q, e) = Append(q, e)
    BY <1>2 DEF AddEffect
  <2>2. DOMAIN Append(q, e) = 1..Len(q) + 1
    BY AppendProperties
  <2>3. /\ \A i \in 1..Len(q) : Append(q, e)[i] = q[i]
        /\ Append(q, e)[Len(q) + 1] = e
    BY AppendProperties
  <2>4. Range(Append(q, e)) \subseteq Range(q) \cup {e}
    BY <2>2, <2>3 DEF Range
  <2>5. Range(q) \cup {e} \subseteq Range(Append(q, e))
    BY <2>2, <2>3 DEF Range
  <2> QED BY <2>1, <2>4, <2>5
<1> QED BY <1>1, <1>2

(* The retry timer is cancelled just when there is one.                     *)
Cancelled(s) ==
  IF s.connection.state = "retry_wait" THEN {"connection.cancel_retry"} ELSE {}

LEMMA RangeCancel ==
  ASSUME NEW s
  PROVE  /\ Range(CancelRetryEffect(s)) = Cancelled(s)
         /\ \A e \in Effect :
              Range(CancelRetryEffect(s) \o <<e>>) = Cancelled(s) \cup {e}
<1>1. Range(CancelRetryEffect(s)) = Cancelled(s)
  BY RangeOne DEF CancelRetryEffect, Cancelled
<1>2. ASSUME NEW e \in Effect
      PROVE  Range(CancelRetryEffect(s) \o <<e>>) = Cancelled(s) \cup {e}
  <2>1. CancelRetryEffect(s) \in Seq(Effect) /\ <<e>> \in Seq(Effect)
    BY EffectLists
  <2> QED BY <1>1, <2>1, RangeConcat, RangeOne
<1> QED BY <1>1, <1>2

-----------------------------------------------------------------------------
(* What is left to show when one branch moves.                              *)

(* A decision that keeps the state answers anything.                        *)
LEMMA KeepAnswers ==
  ASSUME NEW s, Coherent(s)
  PROVE  /\ Answers(s, Keep(s))
         /\ \A code : Answers(s, Reject(s, code))
<1>1. Told(s, s, {}) /\ Mild(s, s, {})
  BY DEF Told, StopsTold, TimerTold, AllNumbered, Numbered, Mild, Rests, Into
<1> QED
  BY <1>1, RangeOne DEF Answers, Obeys, Keep, Reject, Change

(* Capture moves and nothing is asked for: it answers unless it comes to    *)
(* life or to a stop.                                                       *)
LEMMA CaptureAnswers ==
  ASSUME NEW s \in MediaRecord, NEW c \in CaptureRecord,
         Rests(s.capture, c), ~Into(s.capture, c, "stopping")
  PROVE  Answers(s, Change([s EXCEPT !.capture = c], <<>>))
<1> DEFINE t == [s EXCEPT !.capture = c]
<1>1. /\ t.service = s.service /\ t.capture = c /\ t.stream = s.stream
      /\ t.connection = s.connection /\ t.recording = s.recording
  BY PutCapture
<1> HIDE DEF t
<1>2. Told(s, t, {}) /\ Mild(s, t, {})
  BY <1>1 DEF Told, StopsTold, TimerTold, AllNumbered, Numbered, Mild, Rests, Into
<1>3. Answers(s, Change(t, <<>>))
  BY <1>1, <1>2, RangeOne DEF Answers, Obeys, Change
<1> QED
  BY <1>3 DEF t

(* The stream and its connection move: it answers unless the stream comes   *)
(* to life or to a stop, if the timer is told of.                           *)
LEMMA StreamAnswers ==
  ASSUME NEW s, NEW t, NEW effs,
         t.service = s.service, t.capture = s.capture,
         t.recording = s.recording,
         Rests(s.stream, t.stream), ~Into(s.stream, t.stream, "stopping"),
         Range(effs) \subseteq {"connection.connect",
           "connection.schedule_retry", "connection.cancel_retry"},
         TimerTold(s, t, Range(effs)),
         "connection.schedule_retry" \in Range(effs) => s.stream.state \in Live
  PROVE  Answers(s, Change(t, effs))
<1>1. Told(s, t, Range(effs)) /\ Mild(s, t, Range(effs))
  BY DEF Told, StopsTold, AllNumbered, Numbered, Mild, Rests, Into
<1> QED
  BY <1>1 DEF Answers, Obeys, Change

(* The recording moves: it answers unless it comes to life, if its stop is  *)
(* told of.                                                                 *)
LEMMA RecordingAnswers ==
  ASSUME NEW s \in MediaRecord, NEW r \in RecordingRecord, NEW effs,
         Rests(s.recording, r),
         Range(effs) = IF Into(s.recording, r, "stopping")
                         THEN {"recording.stop"} ELSE {}
  PROVE  Answers(s, Change([s EXCEPT !.recording = r], effs))
<1> DEFINE t == [s EXCEPT !.recording = r]
<1>1. /\ t.service = s.service /\ t.capture = s.capture /\ t.stream = s.stream
      /\ t.connection = s.connection /\ t.recording = r
  BY PutRecording
<1> HIDE DEF t
<1>2. Told(s, t, Range(effs)) /\ Mild(s, t, Range(effs))
  BY <1>1 DEF Told, StopsTold, TimerTold, AllNumbered, Numbered, Mild, Rests, Into
<1>3. Answers(s, Change(t, effs))
  BY <1>1, <1>2 DEF Answers, Obeys, Change
<1> QED
  BY <1>3 DEF t

-----------------------------------------------------------------------------
(* The backend events that stay on one branch, one lemma for each.          *)

LEMMA CaptureStartedAnswers ==
  ASSUME NEW s, Coherent(s), NEW g
  PROVE  Answers(s, CaptureStarted(s, g))
<1> DEFINE c == [s.capture EXCEPT !.state = "running"]
<1>1. s \in MediaRecord /\ s.capture \in CaptureRecord
  BY Parts DEF Coherent
<1>2. c \in CaptureRecord /\ c.state = "running" /\ c.generation = s.capture.generation
  BY <1>1 DEF CaptureRecord, BranchState
<1>3. s.capture.state = "starting" =>
        Answers(s, Change([s EXCEPT !.capture = c], <<>>))
  BY <1>1, <1>2, CaptureAnswers DEF Rests, Into, Live
<1>4. [s EXCEPT !.capture = c] = [s EXCEPT !.capture.state = "running"]
  OBVIOUS
<1> QED
  BY <1>3, <1>4, KeepAnswers DEF CaptureStarted

LEMMA CaptureStoppedAnswers ==
  ASSUME NEW s, Coherent(s), NEW g
  PROVE  Answers(s, CaptureStopped(s, g))
<1> DEFINE c == [s.capture EXCEPT !.state = "stopped", !.config_revision = None]
<1>1. s \in MediaRecord /\ s.capture \in CaptureRecord
  BY Parts DEF Coherent
<1>2. c \in CaptureRecord /\ c.state = "stopped" /\ c.generation = s.capture.generation
  BY <1>1 DEF CaptureRecord, BranchState
<1>3. Answers(s, Change([s EXCEPT !.capture = c], <<>>))
  BY <1>1, <1>2, CaptureAnswers DEF Rests, Into, Live
<1> QED
  BY <1>3, KeepAnswers DEF CaptureStopped

LEMMA StreamStartedAnswers ==
  ASSUME NEW s, Coherent(s), NEW g
  PROVE  Answers(s, StreamStarted(s, g))
<1> DEFINE r == [s.stream EXCEPT !.state = "running"]
           t == [s EXCEPT !.stream = r]
<1>1. s \in MediaRecord /\ s.stream \in StreamRecord
  BY Parts DEF Coherent
<1>2. r \in StreamRecord /\ r.state = "running" /\ r.generation = s.stream.generation
  BY <1>1 DEF StreamRecord, BranchState
<1>3. /\ t.stream = r /\ t.connection = s.connection /\ t.capture = s.capture
      /\ t.recording = s.recording /\ t.service = s.service
  BY <1>1, <1>2, PutStreamOnly
<1>4. t = [s EXCEPT !.stream.state = "running"]
  OBVIOUS
<1> HIDE DEF t, r
<1>5. s.stream.state = "starting" => Answers(s, Change(t, <<>>))
  BY <1>2, <1>3, RangeOne, StreamAnswers DEF Rests, Into, Live, TimerTold
<1> QED
  BY <1>4, <1>5, KeepAnswers DEF StreamStarted

LEMMA StreamStoppedAnswers ==
  ASSUME NEW s, Coherent(s), NEW g
  PROVE  Answers(s, StreamStopped(s, g))
<1> DEFINE r == [s.stream EXCEPT !.state = "stopped", !.config_revision = None,
                                 !.representation_id = "none",
                                 !.opus_bitrate_bps = 0,
                                 !.pending_opus_bitrate_bps = 0]
           c == [Disconnected(s.connection) EXCEPT !.consecutive_failures = 0]
           t == [s EXCEPT !.stream = r, !.connection = c]
<1>1. /\ s \in MediaRecord /\ s.stream \in StreamRecord
      /\ s.connection \in ConnectionRecord
  BY Parts DEF Coherent
<1>2. r \in StreamRecord /\ r.state = "stopped" /\ r.generation = s.stream.generation
  BY <1>1 DEF StreamRecord, BranchState
<1>3. c \in ConnectionRecord /\ c.state = "disconnected"
  BY <1>1, DisconnectedType DEF Disconnected, ConnectionRecord
<1> HIDE DEF r, c
<1>4. /\ t.stream = r /\ t.connection = c /\ t.capture = s.capture
      /\ t.recording = s.recording /\ t.service = s.service
  BY <1>1 DEF MediaRecord
<1>5. s.stream.state = "stopping" => s.connection.state = "disconnected"
  BY DEF Coherent, RetryCoherent, Live
<1>6. StreamStopped(s, g) = IF g # s.stream.generation \/ s.stream.state = "stopped" THEN Keep(s)
        ELSE IF s.stream.state # "stopping" THEN Reject(s, "invalid_transition")
        ELSE Change(t, <<>>)
  BY DEF StreamStopped, r, c
<1> HIDE DEF t
<1>7. s.stream.state = "stopping" => Answers(s, Change(t, <<>>))
  BY <1>2, <1>3, <1>4, <1>5, RangeOne, StreamAnswers
     DEF Rests, Into, Live, TimerTold
<1> QED
  BY <1>6, <1>7, KeepAnswers

LEMMA StreamFailedAnswers ==
  ASSUME NEW s, Coherent(s), NEW g
  PROVE  Answers(s, StreamFailed(s, g))
<1> DEFINE r == [s.stream EXCEPT !.state = "failed", !.last_error = "stream_failed",
                                 !.pending_opus_bitrate_bps = 0]
           c == Disconnected(s.connection)
           t == [s EXCEPT !.stream = r, !.connection = c]
<1>1. /\ s \in MediaRecord /\ s.stream \in StreamRecord
      /\ s.connection \in ConnectionRecord
  BY Parts DEF Coherent
<1>2. r \in StreamRecord /\ r.state = "failed" /\ r.generation = s.stream.generation
  BY <1>1 DEF StreamRecord, BranchState
<1>3. c \in ConnectionRecord /\ c.state = "disconnected"
  BY <1>1, DisconnectedType DEF Disconnected, ConnectionRecord
<1> HIDE DEF r, c
<1>4. /\ t.stream = r /\ t.connection = c /\ t.capture = s.capture
      /\ t.recording = s.recording /\ t.service = s.service
  BY <1>1 DEF MediaRecord
<1>5. StreamFailed(s, g) = IF g # s.stream.generation \/ s.stream.state \in {"stopped", "failed"}
        THEN Keep(s) ELSE Change(t, CancelRetryEffect(s))
  BY DEF StreamFailed, r, c
<1> HIDE DEF t
<1>6. Answers(s, Change(t, CancelRetryEffect(s)))
  <2>1. Range(CancelRetryEffect(s)) = Cancelled(s)
    BY RangeCancel
  <2>2. Rests(s.stream, t.stream) /\ ~Into(s.stream, t.stream, "stopping")
    BY <1>2, <1>4 DEF Rests, Into, Live
  <2>3. TimerTold(s, t, Cancelled(s))
    BY <1>3, <1>4 DEF Into, TimerTold, Cancelled
  <2>4. Cancelled(s) \subseteq {"connection.cancel_retry"}
    BY DEF Cancelled
  <2> QED BY <1>4, <2>1, <2>2, <2>3, <2>4, StreamAnswers
<1> QED
  BY <1>5, <1>6, KeepAnswers

LEMMA OpusBitrateAnswers ==
  ASSUME NEW s, Coherent(s), NEW g, NEW b \in Bitrate
  PROVE  /\ Answers(s, OpusBitrateApplied(s, g, b))
         /\ Answers(s, OpusBitrateFailed(s, g, b))
<1> DEFINE applied == [s.stream EXCEPT !.opus_bitrate_bps = b,
                                       !.pending_opus_bitrate_bps = 0]
           failed == [s.stream EXCEPT !.pending_opus_bitrate_bps = 0,
                                      !.last_error = "opus_bitrate_failed"]
<1>1. s \in MediaRecord /\ s.stream \in StreamRecord
  BY Parts DEF Coherent
<1>2. /\ applied \in StreamRecord /\ failed \in StreamRecord
      /\ applied.state = s.stream.state /\ failed.state = s.stream.state
      /\ applied.generation = s.stream.generation
      /\ failed.generation = s.stream.generation
  BY <1>1 DEF StreamRecord
<1>3. ASSUME NEW r \in StreamRecord, r.state = s.stream.state,
             r.generation = s.stream.generation
      PROVE  Answers(s, Change([s EXCEPT !.stream = r], <<>>))
  <2> DEFINE t == [s EXCEPT !.stream = r]
  <2>1. /\ t.stream = r /\ t.connection = s.connection /\ t.capture = s.capture
        /\ t.recording = s.recording /\ t.service = s.service
    BY <1>1, PutStreamOnly
  <2> HIDE DEF t
  <2>2. Answers(s, Change(t, <<>>))
    BY <1>3, <2>1, RangeOne, StreamAnswers DEF Rests, Into, TimerTold
  <2> QED BY <2>2 DEF t
<1> HIDE DEF applied, failed
<1>4. /\ Answers(s, Change([s EXCEPT !.stream = applied], <<>>))
      /\ Answers(s, Change([s EXCEPT !.stream = failed], <<>>))
  BY <1>2, <1>3
<1> QED
  BY <1>4, KeepAnswers DEF OpusBitrateApplied, OpusBitrateFailed, applied, failed

(* Only the connection moves.                                               *)
LEMMA ConnectionAnswers ==
  ASSUME NEW s \in MediaRecord, NEW c \in ConnectionRecord, NEW effs,
         Range(effs) \subseteq {"connection.connect",
           "connection.schedule_retry", "connection.cancel_retry"},
         Into(s.connection, c, "retry_wait") <=>
           "connection.schedule_retry" \in Range(effs),
         s.connection.state = "retry_wait" /\ c.state # "retry_wait" =>
           {"connection.cancel_retry", "connection.connect"} \cap Range(effs) # {},
         s.stream.state \in Live
  PROVE  Answers(s, Change([s EXCEPT !.connection = c], effs))
<1> DEFINE t == [s EXCEPT !.connection = c]
<1>1. /\ t.stream = s.stream /\ t.connection = c /\ t.capture = s.capture
      /\ t.recording = s.recording /\ t.service = s.service
  BY PutConnection
<1> HIDE DEF t
<1>2. Answers(s, Change(t, effs))
  <2>1. TimerTold(s, t, Range(effs))
    BY <1>1 DEF TimerTold
  <2>2. Rests(s.stream, t.stream) /\ ~Into(s.stream, t.stream, "stopping")
    BY <1>1 DEF Rests, Into
  <2> QED BY <1>1, <2>1, <2>2, StreamAnswers
<1> QED
  BY <1>2 DEF t

LEMMA ConnectionConnectedAnswers ==
  ASSUME NEW s, Coherent(s), NEW g
  PROVE  Answers(s, ConnectionConnected(s, g))
<1> DEFINE c == [s.connection EXCEPT !.state = "connected",
                                     !.consecutive_failures = 0,
                                     !.next_retry_seconds = 0]
<1>1. s \in MediaRecord /\ s.connection \in ConnectionRecord
  BY Parts DEF Coherent
<1>2. c \in ConnectionRecord /\ c.state = "connected"
  BY <1>1 DEF ConnectionRecord, ConnectionState
<1>3. ConnectionConnected(s, g) =
        IF g # s.stream.generation \/ s.stream.state \notin Live
             \/ s.connection.state = "connected"
          THEN Keep(s)
        ELSE IF s.connection.state \notin {"connecting", "retry_wait"}
          THEN Reject(s, "invalid_transition")
        ELSE Change([s EXCEPT !.connection = c], CancelRetryEffect(s))
  BY DEF ConnectionConnected
<1> HIDE DEF c
<1>4. /\ Range(CancelRetryEffect(s)) = Cancelled(s)
      /\ Cancelled(s) \subseteq {"connection.cancel_retry"}
      /\ s.connection.state = "retry_wait" => "connection.cancel_retry" \in Cancelled(s)
  BY RangeCancel DEF Cancelled
<1>5. s.stream.state \in Live =>
        Answers(s, Change([s EXCEPT !.connection = c], CancelRetryEffect(s)))
  <2> SUFFICES ASSUME s.stream.state \in Live
               PROVE  Answers(s, Change([s EXCEPT !.connection = c], CancelRetryEffect(s)))
    OBVIOUS
  <2>1. /\ ~Into(s.connection, c, "retry_wait")
        /\ "connection.schedule_retry" \notin Range(CancelRetryEffect(s))
    BY <1>2, <1>4 DEF Into
  <2>2. s.connection.state = "retry_wait" =>
          {"connection.cancel_retry", "connection.connect"}
             \cap Range(CancelRetryEffect(s)) # {}
    BY <1>4
  <2>3. Range(CancelRetryEffect(s)) \subseteq {"connection.connect",
           "connection.schedule_retry", "connection.cancel_retry"}
    BY <1>4
  <2> QED BY <1>1, <1>2, <2>1, <2>2, <2>3, ConnectionAnswers
<1> QED
  BY <1>3, <1>5, KeepAnswers

LEMMA ConnectionLostAnswers ==
  ASSUME NEW s, Coherent(s), NEW g, NEW retryable \in BOOLEAN
  PROVE  Answers(s, ConnectionLost(s, g, retryable))
<1> DEFINE failed == [s.connection EXCEPT !.state = "failed",
                        !.next_retry_seconds = 0,
                        !.last_error = "srt_connection_lost"]
           noted == [s.connection EXCEPT !.last_error = "srt_connection_lost"]
           waiting == [s.connection EXCEPT !.state = "retry_wait",
                         !.next_retry_seconds =
                            RetryDelay(s.connection.consecutive_failures),
                         !.last_error = "srt_connection_lost"]
<1>1. /\ s \in MediaRecord /\ s.connection \in ConnectionRecord
      /\ s.connection.consecutive_failures \in Nat
  BY Parts DEF Coherent, ConnectionRecord
<1>2. failed \in ConnectionRecord /\ failed.state = "failed"
  BY <1>1 DEF ConnectionRecord, ConnectionState
<1>3. noted \in ConnectionRecord /\ noted.state = s.connection.state
  BY <1>1 DEF ConnectionRecord
<1>4. waiting \in ConnectionRecord /\ waiting.state = "retry_wait"
  <2>1. RetryDelay(s.connection.consecutive_failures) \in {0, 1, 2, 4, 8, 16, 30}
    BY <1>1, RetryDelayType
  <2> QED BY <1>1, <2>1 DEF ConnectionRecord, ConnectionState
<1>5. ConnectionLost(s, g, retryable) =
        IF g # s.stream.generation \/ s.stream.state \notin Live THEN Keep(s)
        ELSE IF ~retryable
          THEN Change([s EXCEPT !.connection = failed], CancelRetryEffect(s))
        ELSE IF s.connection.state = "retry_wait"
          THEN Change([s EXCEPT !.connection = noted], <<>>)
        ELSE IF s.connection.state \in {"disconnected", "failed"} THEN Keep(s)
        ELSE Change([s EXCEPT !.connection = waiting], <<"connection.schedule_retry">>)
  BY DEF ConnectionLost
<1> HIDE DEF failed, noted, waiting
<1>6. CASE g # s.stream.generation \/ s.stream.state \notin Live
  BY <1>5, <1>6, KeepAnswers
<1>7. CASE s.stream.state \in Live
  <2>1. Answers(s, Change([s EXCEPT !.connection = failed], CancelRetryEffect(s)))
    <3>1. /\ Range(CancelRetryEffect(s)) = Cancelled(s)
          /\ Cancelled(s) \subseteq {"connection.cancel_retry"}
          /\ s.connection.state = "retry_wait" => "connection.cancel_retry" \in Cancelled(s)
      BY RangeCancel DEF Cancelled
    <3>2. /\ ~Into(s.connection, failed, "retry_wait")
          /\ "connection.schedule_retry" \notin Range(CancelRetryEffect(s))
      BY <1>2, <3>1 DEF Into
    <3>3. s.connection.state = "retry_wait" =>
            {"connection.cancel_retry", "connection.connect"}
               \cap Range(CancelRetryEffect(s)) # {}
      BY <3>1
    <3>4. Range(CancelRetryEffect(s)) \subseteq {"connection.connect",
             "connection.schedule_retry", "connection.cancel_retry"}
      BY <3>1
    <3> QED BY <1>1, <1>2, <1>7, <3>2, <3>3, <3>4, ConnectionAnswers
  <2>2. Answers(s, Change([s EXCEPT !.connection = noted], <<>>))
    BY <1>1, <1>3, <1>7, RangeOne, ConnectionAnswers DEF Into
  <2>3. s.connection.state # "retry_wait" =>
          Answers(s, Change([s EXCEPT !.connection = waiting],
                            <<"connection.schedule_retry">>))
    BY <1>1, <1>4, <1>7, RangeOne, ConnectionAnswers DEF Into
  <2> QED BY <1>5, <2>1, <2>2, <2>3, KeepAnswers
<1> QED BY <1>6, <1>7

LEMMA ConnectionRetryDueAnswers ==
  ASSUME NEW s, Coherent(s), NEW g
  PROVE  Answers(s, ConnectionRetryDue(s, g))
<1> DEFINE n == s.connection.reconnect_count + 1
           m == s.connection.consecutive_failures + 1
           c == [s.connection EXCEPT !.state = "connecting",
                                     !.reconnect_count = n,
                                     !.consecutive_failures = m,
                                     !.next_retry_seconds = 0]
<1>1. s \in MediaRecord /\ s.connection \in ConnectionRecord
  BY Parts DEF Coherent
<1>2. c \in ConnectionRecord /\ c.state = "connecting"
  <2>1. n \in Nat /\ m \in Nat
    BY <1>1 DEF ConnectionRecord
  <2> HIDE DEF n, m
  <2> QED BY <1>1, <2>1 DEF ConnectionRecord, ConnectionState
<1>3. ConnectionRetryDue(s, g) =
        IF g # s.stream.generation \/ s.connection.state # "retry_wait"
             \/ s.stream.state \notin Live
          THEN Keep(s)
        ELSE Change([s EXCEPT !.connection = c], <<"connection.connect">>)
  BY DEF ConnectionRetryDue
<1> HIDE DEF c
<1>4. s.stream.state \in Live =>
        Answers(s, Change([s EXCEPT !.connection = c], <<"connection.connect">>))
  BY <1>1, <1>2, RangeOne, ConnectionAnswers DEF Into
<1> QED
  BY <1>3, <1>4, KeepAnswers

LEMMA ConnectionStatsAnswers ==
  ASSUME NEW s, Coherent(s), NEW g
  PROVE  Answers(s, ConnectionStats(s, g))
<1> DEFINE c == [s.connection EXCEPT !.statistics = s.stream.generation]
<1>1. /\ s \in MediaRecord /\ s.connection \in ConnectionRecord
      /\ s.stream.generation \in Nat
  BY Parts DEF Coherent, StreamRecord
<1>2. c \in ConnectionRecord /\ c.state = s.connection.state
  BY <1>1 DEF ConnectionRecord
<1>3. g = s.stream.generation =>
        [s EXCEPT !.connection.statistics = g] = [s EXCEPT !.connection = c]
  OBVIOUS
<1> HIDE DEF c
<1>4. s.stream.state \in Live => Answers(s, Change([s EXCEPT !.connection = c], <<>>))
  BY <1>1, <1>2, RangeOne, ConnectionAnswers DEF Into
<1> QED
  BY <1>3, <1>4, KeepAnswers DEF ConnectionStats

LEMMA BlockRecordingAnswers ==
  ASSUME NEW s, Coherent(s), NEW status \in StorageFault
  PROVE  Answers(s, BlockRecording(s, status))
<1> DEFINE q == BlockedRecording(s.recording, status)
           effs == IF s.recording.state \in Live THEN <<"recording.stop">> ELSE <<>>
           t == [s EXCEPT !.recording = q]
<1>1. s \in MediaRecord /\ s.recording \in RecordingRecord
  BY Parts DEF Coherent
<1>2. \A u : u.recording = s.recording => RecordingCoherent(u)
  BY DEF Coherent, RecordingCoherent
<1>3. /\ q \in RecordingRecord /\ q.state \notin Live
      /\ q.state = "stopping" <=> s.recording.state \in Live \cup {"stopping"}
  BY <1>1, <1>2, BlockedRecordingType
<1>4. q.generation = s.recording.generation
  BY <1>1 DEF BlockedRecording, RecordingRecord
<1> HIDE DEF q
<1>5. /\ Rests(s.recording, q)
      /\ Into(s.recording, q, "stopping") <=> s.recording.state \in Live
  BY <1>3, <1>4 DEF Rests, Into, Live
<1>6. Range(effs) = IF Into(s.recording, q, "stopping") THEN {"recording.stop"} ELSE {}
  BY <1>5, RangeOne
<1> HIDE DEF effs
<1>7. Answers(s, Change(t, effs))
  BY <1>1, <1>3, <1>5, <1>6, RecordingAnswers
<1>8. /\ BlockRecording(s, status).state = Change(t, effs).state
      /\ BlockRecording(s, status).effects = Change(t, effs).effects
  BY DEF BlockRecording, Change, effs, q
<1> QED
  BY <1>7, <1>8 DEF Answers, Obeys

LEMMA RecordingStartedAnswers ==
  ASSUME NEW s, Coherent(s), NEW g
  PROVE  Answers(s, RecordingStarted(s, g))
<1> DEFINE r == [s.recording EXCEPT !.state = "running"]
<1>1. s \in MediaRecord /\ s.recording \in RecordingRecord
  BY Parts DEF Coherent
<1>2. /\ r \in RecordingRecord /\ r.state = "running"
      /\ r.generation = s.recording.generation
  BY <1>1 DEF RecordingRecord, RecordingState, BranchState
<1>3. [s EXCEPT !.recording = r] = [s EXCEPT !.recording.state = "running"]
  OBVIOUS
<1> HIDE DEF r
<1>4. s.recording.state = "starting" =>
        Answers(s, Change([s EXCEPT !.recording = r], <<>>))
  BY <1>1, <1>2, RangeOne, RecordingAnswers DEF Rests, Into, Live
<1> QED
  BY <1>3, <1>4, KeepAnswers DEF RecordingStarted

LEMMA RecordingStoppedAnswers ==
  ASSUME NEW s, Coherent(s), NEW g
  PROVE  Answers(s, RecordingStopped(s, g))
<1> DEFINE target == IF s.recording.stop_target = "none"
                       THEN "stopped" ELSE s.recording.stop_target
           r == Settled(s.recording, target)
<1>1. s \in MediaRecord /\ s.recording \in RecordingRecord
  BY Parts DEF Coherent
<1>2. target \in {"stopped", "blocked", "failed"}
  BY <1>1 DEF RecordingRecord
<1>3. RecordingStopped(s, g) =
        IF g # s.recording.generation
             \/ s.recording.state \in {"stopped", "blocked", "failed"}
          THEN Keep(s)
        ELSE IF s.recording.state # "stopping" THEN Reject(s, "invalid_transition")
        ELSE Change([s EXCEPT !.recording = r], <<>>)
  BY DEF RecordingStopped
<1> HIDE DEF target
<1>4. r \in RecordingRecord /\ r.state = target
  BY <1>1, <1>2, SettledType
<1>5. r.generation = s.recording.generation
  BY <1>1 DEF Settled, RecordingRecord
<1> HIDE DEF r
<1>6. Answers(s, Change([s EXCEPT !.recording = r], <<>>))
  BY <1>1, <1>2, <1>4, <1>5, RangeOne, RecordingAnswers DEF Rests, Into, Live
<1> QED
  BY <1>3, <1>6, KeepAnswers

LEMMA RecordingFailedAnswers ==
  ASSUME NEW s, Coherent(s), NEW g
  PROVE  Answers(s, RecordingFailed(s, g))
<1> DEFINE failed == [s.recording EXCEPT !.state = "failed",
                        !.config_revision = None,
                        !.last_error = "recording_io_failed"]
           closing == [s.recording EXCEPT !.state = "stopping",
                         !.stop_target = "failed",
                         !.last_error = "recording_io_failed",
                         !.rotation_pending = FALSE]
           effs == IF s.recording.state = "stopping"
                     THEN <<>> ELSE <<"recording.stop">>
<1>1. s \in MediaRecord /\ s.recording \in RecordingRecord
  BY Parts DEF Coherent
<1>2. /\ failed \in RecordingRecord /\ failed.state = "failed"
      /\ failed.generation = s.recording.generation
  BY <1>1 DEF RecordingRecord, RecordingState, BranchState
<1>3. /\ closing \in RecordingRecord /\ closing.state = "stopping"
      /\ closing.generation = s.recording.generation
  BY <1>1 DEF RecordingRecord, RecordingState, BranchState
<1>4. RecordingFailed(s, g) =
        IF g # s.recording.generation
             \/ s.recording.state \in {"stopped", "blocked", "failed"}
          THEN Keep(s)
        ELSE IF s.recording.state = "starting"
          THEN Change([s EXCEPT !.recording = failed], <<>>)
        ELSE Change([s EXCEPT !.recording = closing], effs)
  BY DEF RecordingFailed
<1> HIDE DEF failed, closing
<1>5. Answers(s, Change([s EXCEPT !.recording = failed], <<>>))
  BY <1>1, <1>2, RangeOne, RecordingAnswers DEF Rests, Into, Live
<1>6. Answers(s, Change([s EXCEPT !.recording = closing], effs))
  <2>1. Range(effs) = IF Into(s.recording, closing, "stopping")
                        THEN {"recording.stop"} ELSE {}
    BY <1>3, RangeOne DEF Into
  <2>2. Rests(s.recording, closing)
    BY <1>3 DEF Rests, Live
  <2> HIDE DEF effs
  <2> QED BY <1>1, <1>3, <2>1, <2>2, RecordingAnswers
<1> QED
  BY <1>4, <1>5, <1>6, KeepAnswers

LEMMA RecordingStorageCheckedAnswers ==
  ASSUME NEW s, Coherent(s), NEW g, NEW status \in StorageStatus
  PROVE  Answers(s, RecordingStorageChecked(s, g, status))
<1> DEFINE r == [s.recording EXCEPT !.state = "stopped", !.warning = "none",
                                    !.last_error = "none"]
<1>1. s \in MediaRecord /\ s.recording \in RecordingRecord
  BY Parts DEF Coherent
<1>2. /\ r \in RecordingRecord /\ r.state = "stopped"
      /\ r.generation = s.recording.generation
  BY <1>1 DEF RecordingRecord, RecordingState, BranchState
<1>3. RecordingStorageChecked(s, g, status) =
        IF g # s.recording.generation THEN Keep(s)
        ELSE IF status # "safe" THEN BlockRecording(s, status)
        ELSE IF s.recording.state # "blocked" THEN Keep(s)
        ELSE Change([s EXCEPT !.recording = r], <<>>)
  BY DEF RecordingStorageChecked
<1> HIDE DEF r
<1>4. Answers(s, Change([s EXCEPT !.recording = r], <<>>))
  BY <1>1, <1>2, RangeOne, RecordingAnswers DEF Rests, Into, Live
<1>5. status # "safe" => Answers(s, BlockRecording(s, status))
  BY BlockRecordingAnswers DEF StorageStatus
<1> QED
  BY <1>3, <1>4, <1>5, KeepAnswers

(* A recording of which only the files or the rotation change.              *)
LEMMA RecordingNotedAnswers ==
  ASSUME NEW s \in MediaRecord, NEW r \in RecordingRecord,
         r.state = s.recording.state, r.generation = s.recording.generation
  PROVE  Answers(s, Change([s EXCEPT !.recording = r], <<>>))
  BY RangeOne, RecordingAnswers DEF Rests, Into

LEMMA RecordingFragmentAnswers ==
  ASSUME NEW s, Coherent(s), NEW g, NEW path \in File
  PROVE  /\ Answers(s, RecordingFragmentOpened(s, g, path))
         /\ Answers(s, RecordingFragmentClosed(s, g, path))
<1> DEFINE left == IF s.recording.current_file = path
                     THEN None ELSE s.recording.current_file
           opened == [s.recording EXCEPT !.current_file = path]
           closed == [s.recording EXCEPT !.last_finalized_file = path,
                                         !.current_file = left]
<1>1. s \in MediaRecord /\ s.recording \in RecordingRecord
  BY Parts DEF Coherent
<1>2. /\ opened \in RecordingRecord /\ opened.state = s.recording.state
      /\ opened.generation = s.recording.generation
  BY <1>1 DEF RecordingRecord
<1>3. left \in File \cup {None}
  BY <1>1 DEF RecordingRecord
<1>4. RecordingFragmentClosed(s, g, path) =
        IF g # s.recording.generation THEN Keep(s)
        ELSE IF s.recording.state \notin {"running", "stopping"}
          THEN Reject(s, "invalid_transition")
        ELSE Change([s EXCEPT !.recording = closed], <<>>)
  BY DEF RecordingFragmentClosed
<1> HIDE DEF left
<1>5. /\ closed \in RecordingRecord /\ closed.state = s.recording.state
      /\ closed.generation = s.recording.generation
  BY <1>1, <1>3 DEF RecordingRecord
<1>6. [s EXCEPT !.recording.current_file = path] = [s EXCEPT !.recording = opened]
  OBVIOUS
<1> HIDE DEF opened, closed
<1>7. /\ Answers(s, Change([s EXCEPT !.recording = opened], <<>>))
      /\ Answers(s, Change([s EXCEPT !.recording = closed], <<>>))
  BY <1>1, <1>2, <1>5, RecordingNotedAnswers
<1> QED
  BY <1>4, <1>6, <1>7, KeepAnswers DEF RecordingFragmentOpened

LEMMA RecordingRotationCompletedAnswers ==
  ASSUME NEW s, Coherent(s), NEW g
  PROVE  Answers(s, RecordingRotationCompleted(s, g))
<1> DEFINE r == [s.recording EXCEPT !.rotation_pending = FALSE]
<1>1. s \in MediaRecord /\ s.recording \in RecordingRecord
  BY Parts DEF Coherent
<1>2. /\ r \in RecordingRecord /\ r.state = s.recording.state
      /\ r.generation = s.recording.generation
  BY <1>1 DEF RecordingRecord
<1>3. [s EXCEPT !.recording = r] = [s EXCEPT !.recording.rotation_pending = FALSE]
  OBVIOUS
<1> HIDE DEF r
<1>4. Answers(s, Change([s EXCEPT !.recording = r], <<>>))
  BY <1>1, <1>2, RecordingNotedAnswers
<1> QED
  BY <1>3, <1>4, KeepAnswers DEF RecordingRotationCompleted

LEMMA MonitoringFailedAnswers ==
  ASSUME NEW s, Coherent(s)
  PROVE  Answers(s, MonitoringFailed(s))
<1> DEFINE t == [s EXCEPT !.monitoring_error = "monitoring_failed"]
<1>1. /\ t.service = s.service /\ t.stream = s.stream /\ t.capture = s.capture
      /\ t.connection = s.connection /\ t.recording = s.recording
  BY DEF Coherent, MediaRecord
<1>2. MonitoringFailed(s) = Change(t, <<>>)
  BY DEF MonitoringFailed
<1> HIDE DEF t
<1>3. Told(s, t, {}) /\ Mild(s, t, {})
  BY <1>1 DEF Told, StopsTold, TimerTold, AllNumbered, Numbered, Mild, Rests, Into
<1>4. Answers(s, Change(t, <<>>))
  BY <1>1, <1>3, RangeOne DEF Answers, Obeys, Change
<1> QED
  BY <1>2, <1>4

(* A capture failure fails the stream and sends the recording to            *)
(* finalization: both stops are asked for, and nothing else is waited for.  *)
LEMMA CaptureFailedAnswers ==
  ASSUME NEW s, Coherent(s), NEW g
  PROVE  Answers(s, CaptureFailed(s, g))
<1> DEFINE q == LoseStream(s)
           u == LoseRecording(q)
           c == [u.capture EXCEPT !.state = "failed",
                                  !.last_error = "capture_failed"]
           t == [u EXCEPT !.capture = c]
           first == IF s.stream.state \in Active
                      THEN CancelRetryEffect(s) \o <<"stream.stop">> ELSE <<>>
           second == IF s.recording.state \in Live
                       THEN <<"recording.stop">> ELSE <<>>
<1>1. s \in MediaRecord /\ Coherent(q) /\ Coherent(u)
  BY LoseStreamSound, LoseRecordingSound DEF Coherent
<1>2. q \in MediaRecord /\ u \in MediaRecord
  BY <1>1 DEF Coherent
<1>3. /\ q.service = s.service /\ q.capture = s.capture /\ q.recording = s.recording
      /\ q.stream.generation = s.stream.generation
      /\ s.stream.state \in Active =>
           q.stream.state = "failed" /\ q.connection.state = "disconnected"
      /\ s.stream.state \notin Active => q = s
  BY <1>1 DEF LoseStream, Disconnected, MediaRecord, StreamRecord, ConnectionRecord
<1> HIDE DEF q
<1>4. /\ u.service = q.service /\ u.capture = q.capture
      /\ u.stream = q.stream /\ u.connection = q.connection
      /\ u.recording.generation = q.recording.generation
      /\ q.recording.state \in Live => u.recording.state = "stopping"
      /\ q.recording.state \notin Live => u = q
  BY <1>2 DEF LoseRecording, MediaRecord, RecordingRecord
<1>5. FailCapture(s) = Change(t, first \o second)
  BY DEF FailCapture, q
<1> HIDE DEF u
<1>6. c \in CaptureRecord /\ c.state = "failed" /\ c.generation = u.capture.generation
  BY <1>2 DEF MediaRecord, CaptureRecord, BranchState
<1>7. /\ t.service = u.service /\ t.capture = c /\ t.stream = u.stream
      /\ t.connection = u.connection /\ t.recording = u.recording
  BY <1>2 DEF MediaRecord
<1> HIDE DEF t, c
<1>8. Range(first \o second) =
        (IF s.stream.state \in Active THEN Cancelled(s) \cup {"stream.stop"} ELSE {})
        \cup (IF s.recording.state \in Live THEN {"recording.stop"} ELSE {})
  <2>1. "stream.stop" \in Effect /\ "recording.stop" \in Effect
    BY DEF Effect
  <2>2. first \in Seq(Effect) /\ second \in Seq(Effect)
    BY <2>1, EffectLists
  <2>3. Range(first) = IF s.stream.state \in Active
                         THEN Cancelled(s) \cup {"stream.stop"} ELSE {}
    BY <2>1, RangeOne, RangeCancel
  <2>4. Range(second) = IF s.recording.state \in Live THEN {"recording.stop"} ELSE {}
    BY RangeOne
  <2> HIDE DEF first, second
  <2> QED BY <2>2, <2>3, <2>4, RangeConcat
<1> DEFINE asked == Range(first \o second)
<1>9. asked \subseteq {"connection.cancel_retry", "stream.stop", "recording.stop"}
  BY <1>8 DEF Cancelled
<1>10. /\ "stream.stop" \in asked <=> s.stream.state \in Active
       /\ "recording.stop" \in asked <=> s.recording.state \in Live
       /\ s.stream.state \in Active /\ s.connection.state = "retry_wait" =>
            "connection.cancel_retry" \in asked
  BY <1>8 DEF Cancelled
<1>11. ASSUME s.capture.state \notin {"stopped", "failed"}
       PROVE  Answers(s, Change(t, first \o second))
  <2> HIDE DEF asked, first, second
  <2>1. /\ Rests(s.capture, t.capture) /\ Rests(s.stream, t.stream)
        /\ Rests(s.recording, t.recording)
    BY <1>3, <1>4, <1>6, <1>7 DEF Rests, Live, Active
  <2>2. StopsTold(s, t, asked)
    BY <1>3, <1>4, <1>6, <1>7, <1>9, <1>10, <1>11 DEF StopsTold, Into, Live, Active
  <2>3. TimerTold(s, t, asked)
    BY <1>3, <1>4, <1>7, <1>9, <1>10 DEF TimerTold, Into
  <2>4. Told(s, t, asked)
    BY <2>1, <2>2, <2>3 DEF Told, AllNumbered, Numbered, Rests, Into
  <2>5. Mild(s, t, asked)
    BY <1>3, <1>4, <1>6, <1>7, <1>9, <2>1 DEF Mild, Into
  <2>6. t.service = s.service
    BY <1>3, <1>4, <1>7
  <2> QED BY <2>4, <2>5, <2>6 DEF Answers, Obeys, Change, asked
<1> HIDE DEF first, second
<1> QED
  BY <1>5, <1>11, KeepAnswers DEF CaptureFailed

-----------------------------------------------------------------------------
(* Commands, one lemma for each.                                            *)

LEMMA CaptureStartObeys ==
  ASSUME NEW s, Coherent(s), NEW v \in Revision
  PROVE  Obeys(s, CaptureStart(s, v))
<1> DEFINE n == s.capture.generation + 1
           c == [state |-> "starting", generation |-> n,
                 config_revision |-> v, last_error |-> "none"]
           t == [s EXCEPT !.capture = c]
<1>1. s \in MediaRecord /\ n \in Nat /\ n # s.capture.generation
      /\ s.capture.state \in BranchState
  BY Parts DEF Coherent, CaptureRecord
<1>2. /\ t.service = s.service /\ t.capture = c /\ t.stream = s.stream
      /\ t.connection = s.connection /\ t.recording = s.recording
  BY <1>1 DEF MediaRecord
<1>3. c.state = "starting" /\ c.generation = n
  OBVIOUS
<1>4. CaptureStart(s, v) =
        IF s.capture.state \in Live
          THEN IF s.capture.config_revision = v
                 THEN Keep(s) ELSE Reject(s, "reconfigure_required")
        ELSE IF s.capture.state = "stopping" THEN Reject(s, "busy")
        ELSE Change(t, <<"capture.start">>)
  BY DEF CaptureStart
<1> HIDE DEF t, c
<1>5. ASSUME s.capture.state \notin Active
      PROVE  Obeys(s, Change(t, <<"capture.start">>))
  <2>1. Told(s, t, {"capture.start"})
    BY <1>1, <1>2, <1>3, <1>5
       DEF Told, StopsTold, TimerTold, AllNumbered, Numbered, Into
  <2> QED BY <1>2, <2>1, RangeOne DEF Obeys, Change
<1> QED
  BY <1>4, <1>5, KeepAnswers DEF Answers, Live, Active

LEMMA CaptureStopObeys ==
  ASSUME NEW s, Coherent(s)
  PROVE  Obeys(s, CaptureStop(s))
<1> DEFINE c == [s.capture EXCEPT !.state = "stopping"]
           t == [s EXCEPT !.capture = c]
<1>1. s \in MediaRecord /\ s.capture \in CaptureRecord
  BY Parts DEF Coherent
<1>2. c.state = "stopping" /\ c.generation = s.capture.generation
  BY <1>1 DEF CaptureRecord
<1>3. /\ t.service = s.service /\ t.capture = c /\ t.stream = s.stream
      /\ t.connection = s.connection /\ t.recording = s.recording
  BY <1>1 DEF MediaRecord
<1>4. t = [s EXCEPT !.capture.state = "stopping"]
  OBVIOUS
<1> HIDE DEF t, c
<1>5. ASSUME s.capture.state # "stopping"
      PROVE  Obeys(s, Change(t, <<"capture.stop">>))
  <2>1. Told(s, t, {"capture.stop"})
    BY <1>2, <1>3, <1>5
       DEF Told, StopsTold, TimerTold, AllNumbered, Numbered, Into
  <2> QED BY <1>3, <2>1, RangeOne DEF Obeys, Change
<1> QED
  BY <1>4, <1>5, KeepAnswers DEF CaptureStop, Answers

LEMMA StreamStartObeys ==
  ASSUME NEW s, Coherent(s), NEW v \in Revision, NEW p \in Representation,
         NEW b \in Bitrate
  PROVE  Obeys(s, StreamStart(s, v, p, b))
<1> DEFINE n == s.stream.generation + 1
           rate == IF p = Opus THEN b ELSE 0
           r == [state |-> "starting", generation |-> n, config_revision |-> v,
                 representation_id |-> p, opus_bitrate_bps |-> rate,
                 pending_opus_bitrate_bps |-> 0, last_error |-> "none"]
           c == [state |-> "connecting", reconnect_count |-> 0,
                 consecutive_failures |-> 0, next_retry_seconds |-> 0,
                 last_error |-> "none", statistics |-> 0]
           t == [s EXCEPT !.stream = r, !.connection = c]
<1>1. s \in MediaRecord /\ n \in Nat /\ n # s.stream.generation
  BY Parts DEF Coherent, StreamRecord
<1>2. /\ t.service = s.service /\ t.capture = s.capture /\ t.stream = r
      /\ t.connection = c /\ t.recording = s.recording
  BY <1>1 DEF MediaRecord
<1>3. r.state = "starting" /\ r.generation = n /\ c.state = "connecting"
  OBVIOUS
<1>4. StreamStart(s, v, p, b) =
        IF s.capture.state # "running" THEN Reject(s, "capture_not_running")
        ELSE IF s.stream.state \in Live
          THEN IF s.stream.config_revision = v
                 THEN Keep(s) ELSE Reject(s, "reconfigure_required")
        ELSE IF s.stream.state = "stopping" THEN Reject(s, "busy")
        ELSE Change(t, <<"stream.start">>)
  BY DEF StreamStart
<1> HIDE DEF t, r, c
<1>5. ASSUME s.stream.state \notin Active
      PROVE  Obeys(s, Change(t, <<"stream.start">>))
  <2>1. s.connection.state = "disconnected"
    BY <1>5 DEF Coherent, RetryCoherent, Live, Active
  <2>2. Told(s, t, {"stream.start"})
    BY <1>1, <1>2, <1>3, <1>5, <2>1
       DEF Told, StopsTold, TimerTold, AllNumbered, Numbered, Into
  <2> QED BY <1>2, <2>2, RangeOne DEF Obeys, Change
<1> QED
  BY <1>4, <1>5, KeepAnswers DEF Answers, Live, Active

LEMMA StreamStopObeys ==
  ASSUME NEW s, Coherent(s)
  PROVE  Obeys(s, StreamStop(s))
<1> DEFINE r == [s.stream EXCEPT !.state = "stopping",
                                 !.pending_opus_bitrate_bps = 0]
           c == [Disconnected(s.connection) EXCEPT !.consecutive_failures = 0]
           t == [s EXCEPT !.stream = r, !.connection = c]
           effs == CancelRetryEffect(s) \o <<"stream.stop">>
<1>1. /\ s \in MediaRecord /\ s.stream \in StreamRecord
      /\ s.connection \in ConnectionRecord
  BY Parts DEF Coherent
<1>2. r.state = "stopping" /\ r.generation = s.stream.generation
  BY <1>1 DEF StreamRecord
<1>3. c.state = "disconnected"
  BY <1>1 DEF Disconnected, ConnectionRecord
<1>4. /\ t.service = s.service /\ t.capture = s.capture /\ t.stream = r
      /\ t.connection = c /\ t.recording = s.recording
  BY <1>1 DEF MediaRecord
<1>5. StreamStop(s) =
        IF s.stream.state \in {"stopped", "stopping"} THEN Keep(s)
        ELSE IF s.stream.state = "starting" THEN Reject(s, "busy")
        ELSE Change(t, effs)
  BY DEF StreamStop
<1>6. Range(effs) = Cancelled(s) \cup {"stream.stop"}
  BY RangeCancel DEF Effect
<1> HIDE DEF t, r, c, effs
<1>7. ASSUME s.stream.state # "stopping"
      PROVE  Obeys(s, Change(t, effs))
  <2>1. Told(s, t, Cancelled(s) \cup {"stream.stop"})
    BY <1>2, <1>3, <1>4, <1>7
       DEF Told, StopsTold, TimerTold, AllNumbered, Numbered, Into, Cancelled
  <2> QED BY <1>4, <1>6, <2>1 DEF Obeys, Change
<1> QED
  BY <1>5, <1>7, KeepAnswers DEF Answers

LEMMA SetOpusBitrateObeys ==
  ASSUME NEW s, Coherent(s), NEW b \in Bitrate
  PROVE  Obeys(s, StreamSetOpusBitrate(s, b))
<1> DEFINE r == [s.stream EXCEPT !.pending_opus_bitrate_bps = b]
           t == [s EXCEPT !.stream = r]
<1>1. s \in MediaRecord /\ s.stream \in StreamRecord
  BY Parts DEF Coherent
<1>2. r.state = s.stream.state /\ r.generation = s.stream.generation
  BY <1>1 DEF StreamRecord
<1>3. /\ t.service = s.service /\ t.capture = s.capture /\ t.stream = r
      /\ t.connection = s.connection /\ t.recording = s.recording
  BY <1>1 DEF MediaRecord
<1>4. t = [s EXCEPT !.stream.pending_opus_bitrate_bps = b]
  OBVIOUS
<1> HIDE DEF t, r
<1>5. Obeys(s, Change(t, <<"stream.set_opus_bitrate">>))
  <2>1. Told(s, t, {"stream.set_opus_bitrate"})
    BY <1>2, <1>3 DEF Told, StopsTold, TimerTold, AllNumbered, Numbered, Into
  <2> QED BY <1>3, <2>1, RangeOne DEF Obeys, Change
<1> QED
  BY <1>4, <1>5, KeepAnswers DEF StreamSetOpusBitrate, Answers

(* A command that moves the recording.                                      *)
LEMMA RecordingObeys ==
  ASSUME NEW s \in MediaRecord, NEW r \in RecordingRecord, NEW effs,
         Numbered(s.recording, r),
         Range(effs) \subseteq {"recording.start", "recording.stop", "recording.rotate"},
         Into(s.recording, r, "stopping") <=> "recording.stop" \in Range(effs)
  PROVE  Obeys(s, Change([s EXCEPT !.recording = r], effs))
<1> DEFINE t == [s EXCEPT !.recording = r]
<1>1. /\ t.service = s.service /\ t.capture = s.capture /\ t.stream = s.stream
      /\ t.connection = s.connection /\ t.recording = r
  BY PutRecording
<1> HIDE DEF t
<1>2. Told(s, t, Range(effs))
  BY <1>1 DEF Told, StopsTold, TimerTold, AllNumbered, Numbered, Into
<1>3. Obeys(s, Change(t, effs))
  BY <1>1, <1>2 DEF Obeys, Change
<1> QED
  BY <1>3 DEF t

LEMMA RecordingStartObeys ==
  ASSUME NEW s, Coherent(s), NEW v \in Revision, NEW status \in StorageStatus
  PROVE  Obeys(s, RecordingStart(s, v, status))
<1> DEFINE n == s.recording.generation + 1
           r == [state |-> "starting", generation |-> n, config_revision |-> v,
                 stop_target |-> "none", warning |-> "none",
                 last_error |-> "none", current_file |-> None,
                 last_finalized_file |-> s.recording.last_finalized_file,
                 rotation_pending |-> FALSE]
<1>1. /\ s \in MediaRecord /\ s.recording \in RecordingRecord
      /\ n \in Nat /\ n = s.recording.generation + 1 /\ n # s.recording.generation
  BY Parts DEF Coherent, RecordingRecord
<1>2. RecordingStart(s, v, status) =
        IF status # "safe" THEN BlockRecording(s, status)
        ELSE IF s.capture.state # "running" THEN Reject(s, "capture_not_running")
        ELSE IF s.recording.state \in Live
          THEN IF s.recording.config_revision = v
                 THEN Keep(s) ELSE Reject(s, "reconfigure_required")
        ELSE IF s.recording.state = "stopping" THEN Reject(s, "busy")
        ELSE Change([s EXCEPT !.recording = r], <<"recording.start">>)
  BY DEF RecordingStart
<1> HIDE DEF n
<1>3. r \in RecordingRecord /\ r.state = "starting" /\ r.generation = n
  BY <1>1 DEF RecordingRecord, RecordingState, BranchState
<1> HIDE DEF r
<1>4. s.recording.state \notin Active =>
        Obeys(s, Change([s EXCEPT !.recording = r], <<"recording.start">>))
  BY <1>1, <1>3, RangeOne, RecordingObeys DEF Numbered, Into, Active
<1>5. status # "safe" => Obeys(s, BlockRecording(s, status))
  BY BlockRecordingAnswers DEF StorageStatus, Answers
<1> QED
  BY <1>2, <1>4, <1>5, KeepAnswers DEF Answers, Live, Active

LEMMA RecordingStopObeys ==
  ASSUME NEW s, Coherent(s)
  PROVE  Obeys(s, RecordingStop(s))
<1> DEFINE stopped == Settled(s.recording, "stopped")
           closing == [s.recording EXCEPT !.state = "stopping",
                                          !.stop_target = "stopped",
                                          !.rotation_pending = FALSE]
<1>1. s \in MediaRecord /\ s.recording \in RecordingRecord
  BY Parts DEF Coherent
<1>2. /\ stopped \in RecordingRecord /\ stopped.state = "stopped"
      /\ stopped.generation = s.recording.generation
  BY <1>1 DEF Settled, RecordingRecord, RecordingState, BranchState
<1>3. /\ closing \in RecordingRecord /\ closing.state = "stopping"
      /\ closing.generation = s.recording.generation
  BY <1>1 DEF RecordingRecord, RecordingState, BranchState
<1>4. RecordingStop(s) =
        IF s.recording.state \in {"stopped", "blocked", "stopping"} THEN Keep(s)
        ELSE IF s.recording.state = "starting" THEN Reject(s, "busy")
        ELSE IF s.recording.state = "failed"
          THEN Change([s EXCEPT !.recording = stopped], <<>>)
        ELSE Change([s EXCEPT !.recording = closing], <<"recording.stop">>)
  BY DEF RecordingStop
<1> HIDE DEF stopped, closing
<1>5. Obeys(s, Change([s EXCEPT !.recording = stopped], <<>>))
  BY <1>1, <1>2, RangeOne, RecordingObeys DEF Numbered, Into
<1>6. s.recording.state # "stopping" =>
        Obeys(s, Change([s EXCEPT !.recording = closing], <<"recording.stop">>))
  BY <1>1, <1>3, RangeOne, RecordingObeys DEF Numbered, Into
<1> QED
  BY <1>4, <1>5, <1>6, KeepAnswers DEF Answers

LEMMA RecordingRotateObeys ==
  ASSUME NEW s, Coherent(s)
  PROVE  Obeys(s, RecordingRotate(s))
<1> DEFINE yes == TRUE
           r == [s.recording EXCEPT !.rotation_pending = yes]
<1>1. s \in MediaRecord /\ s.recording \in RecordingRecord
  BY Parts DEF Coherent
<1>2. [s EXCEPT !.recording = r] = [s EXCEPT !.recording.rotation_pending = TRUE]
  OBVIOUS
<1>3. yes \in BOOLEAN
  OBVIOUS
<1> HIDE DEF yes
<1>4. /\ r \in RecordingRecord /\ r.state = s.recording.state
      /\ r.generation = s.recording.generation
  BY <1>1, <1>3 DEF RecordingRecord
<1> HIDE DEF r
<1>5. Obeys(s, Change([s EXCEPT !.recording = r], <<"recording.rotate">>))
  BY <1>1, <1>4, RangeOne, RecordingObeys DEF Numbered, Into
<1> QED
  BY <1>2, <1>5, KeepAnswers DEF RecordingRotate, Answers

-----------------------------------------------------------------------------
(* The shutdown stages.                                                     *)

(* In shutdown the stream is stopped only over a finished recording,        *)
(* capture only under neither, and service.stop is the last word.           *)
InOrder(s, t, asked) ==
  t.service # "running" =>
    /\ Into(s.stream, t.stream, "stopping") => t.recording.state \notin Active
    /\ Into(s.capture, t.capture, "stopping") =>
         {t.recording.state, t.stream.state} \cap Active = {}
    /\ "service.stop" \in asked <=> s.service # "stopped" /\ t.service = "stopped"

(* What a step of the reducer in state s may be.                            *)
Lawful(s, d) ==
  Told(s, d.state, Range(d.effects)) /\ InOrder(s, d.state, Range(d.effects))

(* What the stages change, each when its branch is live.                    *)
LEMMA ShutRecordingFields ==
  ASSUME NEW d, Coherent(d.state), d.effects \in Seq(Effect),
         d.state.recording.state \in Live
  PROVE  LET t == ShutRecording(d).state IN
         /\ t.service = d.state.service /\ t.capture = d.state.capture
         /\ t.stream = d.state.stream /\ t.connection = d.state.connection
         /\ t.recording.state = "stopping"
         /\ t.recording.generation = d.state.recording.generation
         /\ Range(ShutRecording(d).effects) = Range(d.effects) \cup {"recording.stop"}
<1> DEFINE s == d.state
           r == [s.recording EXCEPT !.state = "stopping",
                                    !.stop_target = "stopped",
                                    !.rotation_pending = FALSE]
           t == [s EXCEPT !.recording = r]
<1>1. s \in MediaRecord /\ s.recording \in RecordingRecord
  BY Parts DEF Coherent
<1>2. r.state = "stopping" /\ r.generation = s.recording.generation
  BY <1>1 DEF RecordingRecord
<1>3. /\ t.service = s.service /\ t.capture = s.capture /\ t.stream = s.stream
      /\ t.connection = s.connection /\ t.recording = r
  BY <1>1 DEF MediaRecord
<1>4. ShutRecording(d) = Change(t, AddEffect(d.effects, "recording.stop"))
  BY DEF ShutRecording
<1> HIDE DEF t, r
<1>5. Range(AddEffect(d.effects, "recording.stop")) = Range(d.effects) \cup {"recording.stop"}
  BY RangeAdded DEF Effect
<1>6. /\ ShutRecording(d).state = t
      /\ ShutRecording(d).effects = AddEffect(d.effects, "recording.stop")
  BY <1>4 DEF Change
<1> QED BY <1>2, <1>3, <1>5, <1>6

LEMMA ShutStreamFields ==
  ASSUME NEW d, Coherent(d.state), d.effects \in Seq(Effect),
         d.state.stream.state \in Live
  PROVE  LET t == ShutStream(d).state IN
         /\ t.service = d.state.service /\ t.capture = d.state.capture
         /\ t.recording = d.state.recording
         /\ t.stream.state = "stopping"
         /\ t.stream.generation = d.state.stream.generation
         /\ t.connection.state = "disconnected"
         /\ Range(ShutStream(d).effects) =
              Range(d.effects) \cup Cancelled(d.state) \cup {"stream.stop"}
<1> DEFINE s == d.state
           r == [s.stream EXCEPT !.state = "stopping",
                                 !.pending_opus_bitrate_bps = 0]
           c == Disconnected(s.connection)
           t == [s EXCEPT !.stream = r, !.connection = c]
           effs == IF s.connection.state = "retry_wait"
                     THEN AddEffect(d.effects, "connection.cancel_retry")
                     ELSE d.effects
<1>1. /\ s \in MediaRecord /\ s.stream \in StreamRecord
      /\ s.connection \in ConnectionRecord
  BY Parts DEF Coherent
<1>2. r.state = "stopping" /\ r.generation = s.stream.generation
  BY <1>1 DEF StreamRecord
<1>3. c.state = "disconnected"
  BY <1>1 DEF Disconnected, ConnectionRecord
<1>4. /\ t.service = s.service /\ t.capture = s.capture /\ t.stream = r
      /\ t.connection = c /\ t.recording = s.recording
  BY <1>1 DEF MediaRecord
<1>5. ShutStream(d) = Change(t, AddEffect(effs, "stream.stop"))
  BY DEF ShutStream
<1> HIDE DEF t, r, c
<1>6. /\ effs \in Seq(Effect)
      /\ Range(effs) = Range(d.effects) \cup Cancelled(s)
  <2>1. "connection.cancel_retry" \in Effect
    BY DEF Effect
  <2> QED BY <2>1, AddEffectType, RangeAdded DEF Cancelled
<1> HIDE DEF effs
<1>7. Range(AddEffect(effs, "stream.stop")) =
        Range(d.effects) \cup Cancelled(s) \cup {"stream.stop"}
  BY <1>6, RangeAdded DEF Effect
<1>8. /\ ShutStream(d).state = t
      /\ ShutStream(d).effects = AddEffect(effs, "stream.stop")
  BY <1>5 DEF Change
<1> QED BY <1>2, <1>3, <1>4, <1>7, <1>8

LEMMA ShutCaptureFields ==
  ASSUME NEW d, Coherent(d.state), d.effects \in Seq(Effect),
         d.state.capture.state \in Live
  PROVE  LET t == ShutCapture(d).state IN
         /\ t.service = d.state.service /\ t.stream = d.state.stream
         /\ t.connection = d.state.connection
         /\ t.recording = d.state.recording
         /\ t.capture.state = "stopping"
         /\ t.capture.generation = d.state.capture.generation
         /\ Range(ShutCapture(d).effects) = Range(d.effects) \cup {"capture.stop"}
<1> DEFINE s == d.state
           c == [s.capture EXCEPT !.state = "stopping"]
           t == [s EXCEPT !.capture = c]
<1>1. s \in MediaRecord /\ s.capture \in CaptureRecord
  BY Parts DEF Coherent
<1>2. c.state = "stopping" /\ c.generation = s.capture.generation
  BY <1>1 DEF CaptureRecord
<1>3. /\ t.service = s.service /\ t.capture = c /\ t.stream = s.stream
      /\ t.connection = s.connection /\ t.recording = s.recording
  BY <1>1 DEF MediaRecord
<1>4. t = [s EXCEPT !.capture.state = "stopping"]
  OBVIOUS
<1> HIDE DEF t, c
<1>5. ShutCapture(d) = Change(t, AddEffect(d.effects, "capture.stop"))
  BY <1>4 DEF ShutCapture
<1>6. Range(AddEffect(d.effects, "capture.stop")) = Range(d.effects) \cup {"capture.stop"}
  BY RangeAdded DEF Effect
<1>7. /\ ShutCapture(d).state = t
      /\ ShutCapture(d).effects = AddEffect(d.effects, "capture.stop")
  BY <1>5 DEF Change
<1> QED BY <1>2, <1>3, <1>6, <1>7

LEMMA ShutServiceFields ==
  ASSUME NEW d, Coherent(d.state), d.effects \in Seq(Effect)
  PROVE  LET t == ShutService(d).state IN
         /\ t.service = "stopped" /\ t.capture = d.state.capture
         /\ t.stream = d.state.stream /\ t.connection = d.state.connection
         /\ t.recording = d.state.recording
         /\ Range(ShutService(d).effects) = Range(d.effects) \cup {"service.stop"}
<1> DEFINE s == d.state
           t == [s EXCEPT !.service = "stopped"]
<1>1. s \in MediaRecord
  BY DEF Coherent
<1>2. /\ t.service = "stopped" /\ t.capture = s.capture /\ t.stream = s.stream
      /\ t.connection = s.connection /\ t.recording = s.recording
  BY <1>1 DEF MediaRecord
<1>3. ShutService(d) = Change(t, AddEffect(d.effects, "service.stop"))
  BY DEF ShutService
<1> HIDE DEF t
<1>4. Range(AddEffect(d.effects, "service.stop")) = Range(d.effects) \cup {"service.stop"}
  BY RangeAdded DEF Effect
<1>5. /\ ShutService(d).state = t
      /\ ShutService(d).effects = AddEffect(d.effects, "service.stop")
  BY <1>3 DEF Change
<1> QED BY <1>2, <1>4, <1>5

(* The stages go on from a mild decision lawfully. The timer is the one     *)
(* thing that could go wrong: a loss scheduled in this very step would not  *)
(* be cancelled. It is not, because a stream that is live in a shutdown     *)
(* waits for the recording, and the stages then wait for it too.            *)
LEMMA AdvanceShutdownLawful ==
  ASSUME NEW s, Good(s), s.service # "stopped",
         NEW d, Coherent(d.state), d.effects \in Seq(Effect),
         Told(s, d.state, Range(d.effects)), Mild(s, d.state, Range(d.effects)),
         d.state.service # "stopped",
         \/ d.state.service = s.service
         \/ "connection.schedule_retry" \notin Range(d.effects)
  PROVE  Lawful(s, AdvanceShutdown(d))
<1> DEFINE recorded == ShutRecording(d)
           streamed == ShutStream(d)
           captured == ShutCapture(d)
           served == ShutService(d)
           asked == Range(d.effects)
<1>1. InOrder(s, d.state, asked)
  BY DEF InOrder, Mild
<1>2. CASE d.state.service # "shutting_down" \/ d.error # "none"
  BY <1>1, <1>2 DEF AdvanceShutdown, Lawful
<1>3. CASE /\ d.state.service = "shutting_down" /\ d.error = "none"
           /\ d.state.recording.state \in Live
  <2>1. /\ recorded.state.service = d.state.service
        /\ recorded.state.capture = d.state.capture
        /\ recorded.state.stream = d.state.stream
        /\ recorded.state.connection = d.state.connection
        /\ recorded.state.recording.state = "stopping"
        /\ recorded.state.recording.generation = d.state.recording.generation
        /\ Range(recorded.effects) = asked \cup {"recording.stop"}
    BY <1>3, ShutRecordingFields
  <2>2. AdvanceShutdown(d) = recorded
    BY <1>3, <2>1 DEF AdvanceShutdown
  <2> HIDE DEF recorded, asked
  <2>3. s.recording.state \in Live
    BY <1>3 DEF Mild, Rests
  <2>4. StopsTold(s, recorded.state, Range(recorded.effects))
    BY <1>3, <2>1, <2>3 DEF Told, StopsTold, Into, Live, asked
  <2>5. TimerTold(s, recorded.state, Range(recorded.effects))
    BY <2>1 DEF Told, TimerTold, asked
  <2>6. AllNumbered(s, recorded.state)
    BY <2>1 DEF Told, AllNumbered, Numbered, Mild, Rests, Into
  <2>7. InOrder(s, recorded.state, Range(recorded.effects))
    BY <1>3, <2>1 DEF InOrder, Mild, asked
  <2> QED BY <2>2, <2>4, <2>5, <2>6, <2>7 DEF Lawful, Told
<1>4. CASE /\ d.state.service = "shutting_down" /\ d.error = "none"
           /\ d.state.recording.state = "stopping"
  <2>1. AdvanceShutdown(d) = d
    BY <1>4 DEF AdvanceShutdown, ShutRecording, Live
  <2> QED BY <1>1, <2>1 DEF Lawful
<1>5. CASE /\ d.state.service = "shutting_down" /\ d.error = "none"
           /\ d.state.recording.state \notin Active
  <2>1. recorded = d
    BY <1>5 DEF ShutRecording, Live, Active
  <2>2. CASE d.state.stream.state \in Live
    <3>1. /\ streamed.state.service = d.state.service
          /\ streamed.state.capture = d.state.capture
          /\ streamed.state.recording = d.state.recording
          /\ streamed.state.stream.state = "stopping"
          /\ streamed.state.stream.generation = d.state.stream.generation
          /\ streamed.state.connection.state = "disconnected"
          /\ Range(streamed.effects) = asked \cup Cancelled(d.state) \cup {"stream.stop"}
      BY <2>2, ShutStreamFields
    <3>2. AdvanceShutdown(d) = streamed
      BY <1>5, <2>1, <3>1 DEF AdvanceShutdown, Active
    <3> HIDE DEF streamed, asked
    <3>3. s.stream.state \in Live
      BY <2>2 DEF Mild, Rests
    <3>4. "connection.schedule_retry" \notin asked
      <4> SUFFICES ASSUME "connection.schedule_retry" \in asked PROVE FALSE
        OBVIOUS
      <4>1. s.service = "shutting_down" /\ s.recording = d.state.recording
        BY <1>5 DEF Mild, asked
      <4>2. s.capture.state = "running"
        BY <3>3 DEF Good, Coherent, SourceHeld
      <4>3. "stopping" \in {s.recording.state, s.stream.state, s.capture.state}
        BY <4>1 DEF Good, Waiting, BranchStates
      <4> QED BY <1>5, <3>3, <4>1, <4>2, <4>3 DEF Live, Active
    <3>5. StopsTold(s, streamed.state, Range(streamed.effects))
      BY <1>5, <3>1, <3>3 DEF Told, StopsTold, Into, Live, Cancelled, asked
    <3>6. TimerTold(s, streamed.state, Range(streamed.effects))
      BY <3>1, <3>4 DEF Told, TimerTold, Into, Cancelled, asked
    <3>7. AllNumbered(s, streamed.state)
      BY <3>1 DEF Told, AllNumbered, Numbered, Mild, Rests, Into
    <3>8. InOrder(s, streamed.state, Range(streamed.effects))
      BY <1>5, <3>1 DEF InOrder, Mild, Cancelled, asked
    <3> QED BY <3>2, <3>5, <3>6, <3>7, <3>8 DEF Lawful, Told
  <2>3. CASE d.state.stream.state = "stopping"
    <3>1. AdvanceShutdown(d) = d
      BY <1>5, <2>1, <2>3 DEF AdvanceShutdown, ShutStream, Live, Active
    <3> QED BY <1>1, <3>1 DEF Lawful
  <2>4. CASE d.state.stream.state \notin Active
    <3>1. streamed = d
      BY <2>4 DEF ShutStream, Live, Active
    <3>2. CASE d.state.capture.state \in Live
      <4>1. /\ captured.state.service = d.state.service
            /\ captured.state.stream = d.state.stream
            /\ captured.state.connection = d.state.connection
            /\ captured.state.recording = d.state.recording
            /\ captured.state.capture.state = "stopping"
            /\ captured.state.capture.generation = d.state.capture.generation
            /\ Range(captured.effects) = asked \cup {"capture.stop"}
        BY <3>2, ShutCaptureFields
      <4>2. AdvanceShutdown(d) = captured
        BY <1>5, <2>1, <2>4, <3>1, <4>1 DEF AdvanceShutdown, Active
      <4> HIDE DEF captured, asked
      <4>3. s.capture.state \in Live
        BY <3>2 DEF Mild, Rests
      <4>4. "stream.stop" \notin asked
        BY <3>2 DEF Told, StopsTold, Mild, Into, Live, asked
      <4>5. StopsTold(s, captured.state, Range(captured.effects))
        BY <4>1, <4>3, <4>4 DEF Told, StopsTold, Into, Live, asked
      <4>6. TimerTold(s, captured.state, Range(captured.effects))
        BY <4>1 DEF Told, TimerTold, asked
      <4>7. AllNumbered(s, captured.state)
        BY <4>1 DEF Told, AllNumbered, Numbered, Mild, Rests, Into
      <4>8. InOrder(s, captured.state, Range(captured.effects))
        BY <1>5, <2>4, <4>1 DEF InOrder, Mild, asked
      <4> QED BY <4>2, <4>5, <4>6, <4>7, <4>8 DEF Lawful, Told
    <3>3. CASE d.state.capture.state = "stopping"
      <4>1. captured = d
        BY <3>3 DEF ShutCapture, Live
      <4>2. AdvanceShutdown(d) = d
        BY <1>5, <2>1, <2>4, <3>1, <3>3, <4>1 DEF AdvanceShutdown, Active
      <4> QED BY <1>1, <4>2 DEF Lawful
    <3>4. CASE d.state.capture.state \notin Active
      <4>1. captured = d
        BY <3>4 DEF ShutCapture, Live, Active
      <4>2. AdvanceShutdown(d) = served
        BY <1>5, <2>1, <2>4, <3>1, <3>4, <4>1 DEF AdvanceShutdown, Active
      <4>3. /\ served.state.service = "stopped"
            /\ served.state.capture = d.state.capture
            /\ served.state.stream = d.state.stream
            /\ served.state.connection = d.state.connection
            /\ served.state.recording = d.state.recording
            /\ Range(served.effects) = asked \cup {"service.stop"}
        BY ShutServiceFields
      <4> HIDE DEF served, asked
      <4>4. Told(s, served.state, Range(served.effects))
        BY <4>3 DEF Told, StopsTold, TimerTold, AllNumbered, asked
      <4>5. InOrder(s, served.state, Range(served.effects))
        BY <4>3 DEF InOrder, Mild
      <4> QED BY <4>2, <4>4, <4>5 DEF Lawful
    <3> QED BY <3>2, <3>3, <3>4 DEF Live, Active
  <2> QED BY <2>2, <2>3, <2>4 DEF Live, Active
<1> QED BY <1>2, <1>3, <1>4, <1>5 DEF Live, Active

-----------------------------------------------------------------------------
(* The reducer.                                                             *)

(* An event or a command that keeps the state is lawful.                    *)
LEMMA KeepLawful ==
  ASSUME NEW s, Good(s)
  PROVE  /\ Lawful(s, Keep(s))
         /\ \A code : Lawful(s, Reject(s, code))
<1>1. /\ Told(s, Keep(s).state, Range(Keep(s).effects))
      /\ \A code : Told(s, Reject(s, code).state, Range(Reject(s, code).effects))
  BY KeepAnswers DEF Good, Answers, Obeys
<1>2. InOrder(s, s, {})
  BY DEF InOrder, Into
<1> QED BY <1>1, <1>2, RangeOne DEF Lawful, Keep, Reject, Change

LEMMA OnEventLawful ==
  ASSUME NEW s, Good(s), NEW d, Sound(s, d), Answers(s, d)
  PROVE  Lawful(s, OnEvent(s, d))
<1>1. CASE s.service = "stopped"
  BY <1>1, KeepLawful DEF OnEvent
<1>2. CASE s.service # "stopped"
  <2>1. OnEvent(s, d) = AdvanceShutdown(d)
    BY <1>2 DEF OnEvent
  <2>2. /\ Coherent(d.state) /\ d.effects \in Seq(Effect)
        /\ d.state.service = s.service
        /\ Told(s, d.state, Range(d.effects)) /\ Mild(s, d.state, Range(d.effects))
    BY DEF Sound, Answers, Obeys
  <2>3. d.state.service # "stopped"
    BY <1>2, <2>2
  <2>4. Lawful(s, AdvanceShutdown(d))
    BY <1>2, <2>2, <2>3, AdvanceShutdownLawful
  <2> QED BY <2>1, <2>4
<1> QED BY <1>1, <1>2

LEMMA OnCommandLawful ==
  ASSUME NEW s, Good(s), NEW d, Obeys(s, d)
  PROVE  Lawful(s, OnCommand(s, d))
<1>1. CASE s.service # "running"
  BY <1>1, KeepLawful DEF OnCommand
<1>2. CASE s.service = "running"
  BY <1>2 DEF OnCommand, Obeys, Lawful, InOrder
<1> QED BY <1>1, <1>2

(* The first request for a shutdown moves the service only, and the stages. *)
LEMMA ServiceShutdownLawful ==
  ASSUME NEW s, Good(s)
  PROVE  Lawful(s, OnEvent(s, ServiceShutdown(s)))
<1> DEFINE t == [s EXCEPT !.service = "shutting_down"]
           d == Change(t, <<>>)
<1>1. CASE s.service = "running"
  <2>1. Coherent(t) /\ t.service = "shutting_down"
    BY PutService DEF Good, ServiceState
  <2>2. /\ t.capture = s.capture /\ t.stream = s.stream
        /\ t.connection = s.connection /\ t.recording = s.recording
    BY DEF Good, Coherent, MediaRecord
  <2>3. OnEvent(s, ServiceShutdown(s)) = AdvanceShutdown(d)
    BY <1>1 DEF OnEvent, ServiceShutdown
  <2> HIDE DEF t
  <2>4. Told(s, t, {}) /\ Mild(s, t, {})
    BY <2>2 DEF Told, StopsTold, TimerTold, AllNumbered, Numbered, Mild, Rests, Into
  <2>5. d.state = t /\ d.effects = <<>> /\ d.effects \in Seq(Effect)
    BY EffectLists DEF Change
  <2> HIDE DEF d
  <2>6. Range(d.effects) = {}
    BY <2>5, RangeOne
  <2>7. /\ Coherent(d.state) /\ d.state.service # "stopped"
        /\ Told(s, d.state, Range(d.effects)) /\ Mild(s, d.state, Range(d.effects))
        /\ "connection.schedule_retry" \notin Range(d.effects)
        /\ s.service # "stopped"
    BY <1>1, <2>1, <2>4, <2>5, <2>6
  <2>8. Lawful(s, AdvanceShutdown(d))
    BY <2>5, <2>7, AdvanceShutdownLawful
  <2> QED BY <2>3, <2>8
<1>2. CASE s.service # "running"
  <2>1. s.service \in {"shutting_down", "stopped"}
    BY <1>2, Parts DEF Good, Coherent, ServiceState
  <2>2. Sound(s, Keep(s)) /\ Answers(s, Keep(s))
    BY KeepSound, KeepAnswers DEF Good
  <2>3. OnEvent(s, ServiceShutdown(s)) = OnEvent(s, Keep(s))
    BY <2>1 DEF OnEvent, ServiceShutdown
  <2> QED BY <2>2, <2>3, OnEventLawful
<1> QED BY <1>1, <1>2

(* Commands.                                                                *)
LEMMA ReduceCommandLawful ==
  ASSUME NEW s, Good(s), NEW e \in Command
  PROVE  Lawful(s, Reduce(s, e))
<1>. Coherent(s)
  BY DEF Good
<1>1. CASE e.name = "capture.stop"
  BY <1>1, CaptureStopObeys, OnCommandLawful DEF Reduce
<1>2. CASE e.name = "stream.stop"
  BY <1>2, StreamStopObeys, OnCommandLawful DEF Reduce
<1>3. CASE e.name = "recording.stop"
  BY <1>3, RecordingStopObeys, OnCommandLawful DEF Reduce
<1>4. CASE e.name = "recording.rotate"
  BY <1>4, RecordingRotateObeys, OnCommandLawful DEF Reduce
<1>5. CASE e.name = "capture.start" /\ e.config_revision \in Revision
  BY <1>5, CaptureStartObeys, OnCommandLawful DEF Reduce
<1>6. CASE /\ e.name = "stream.start" /\ e.config_revision \in Revision
           /\ e.representation_id \in Representation
           /\ e.opus_bitrate_bps \in Bitrate
  BY <1>6, StreamStartObeys, OnCommandLawful DEF Reduce
<1>7. CASE e.name = "stream.set_opus_bitrate" /\ e.bitrate_bps \in Bitrate
  BY <1>7, SetOpusBitrateObeys, OnCommandLawful DEF Reduce
<1>8. CASE /\ e.name = "recording.start" /\ e.config_revision \in Revision
           /\ e.storage_status \in StorageStatus
  BY <1>8, RecordingStartObeys, OnCommandLawful DEF Reduce
<1> QED
  BY <1>1, <1>2, <1>3, <1>4, <1>5, <1>6, <1>7, <1>8, CommandFields

(* Capture events.                                                          *)
LEMMA ReduceCaptureLawful ==
  ASSUME NEW s, Good(s), NEW e \in CaptureEvent(s)
  PROVE  Lawful(s, Reduce(s, e))
<1>. Coherent(s)
  BY DEF Good
<1>1. CASE e.name = "capture.started"
  BY <1>1, CaptureStartedSound, CaptureStartedAnswers, OnEventLawful DEF Reduce
<1>2. CASE e.name = "capture.stopped"
  BY <1>2, CaptureStoppedSound, CaptureStoppedAnswers, OnEventLawful DEF Reduce
<1>3. CASE e.name = "capture.failed"
  BY <1>3, CaptureFailedSound, CaptureFailedAnswers, OnEventLawful DEF Reduce
<1> QED
  BY <1>1, <1>2, <1>3 DEF CaptureEvent, GenerationEvent

(* Stream and connection events.                                            *)
LEMMA ReduceStreamLawful ==
  ASSUME NEW s, Good(s), NEW e \in StreamEvent(s)
  PROVE  Lawful(s, Reduce(s, e))
<1>. Coherent(s)
  BY DEF Good
<1>1. CASE e.name = "stream.started"
  BY <1>1, StreamStartedSound, StreamStartedAnswers, OnEventLawful DEF Reduce
<1>2. CASE e.name = "stream.stopped"
  BY <1>2, StreamStoppedSound, StreamStoppedAnswers, OnEventLawful DEF Reduce
<1>3. CASE e.name = "stream.failed"
  BY <1>3, StreamFailedSound, StreamFailedAnswers, OnEventLawful DEF Reduce
<1>4. CASE e.name = "connection.connected"
  BY <1>4, ConnectionConnectedSound, ConnectionConnectedAnswers, OnEventLawful
     DEF Reduce
<1>5. CASE e.name = "connection.retry_due"
  BY <1>5, ConnectionRetryDueSound, ConnectionRetryDueAnswers, OnEventLawful
     DEF Reduce
<1>6. CASE e.name = "connection.stats"
  BY <1>6, ConnectionStatsSound, ConnectionStatsAnswers, OnEventLawful DEF Reduce
<1>7. CASE e.name = "stream.opus_bitrate_applied" /\ e.bitrate_bps \in Bitrate
  BY <1>7, OpusBitrateSound, OpusBitrateAnswers, OnEventLawful DEF Reduce
<1>8. CASE e.name = "stream.opus_bitrate_failed" /\ e.bitrate_bps \in Bitrate
  BY <1>8, OpusBitrateSound, OpusBitrateAnswers, OnEventLawful DEF Reduce
<1>9. CASE e.name = "connection.lost" /\ e.retryable \in BOOLEAN
  BY <1>9, ConnectionLostSound, ConnectionLostAnswers, OnEventLawful DEF Reduce
<1> QED
  BY <1>1, <1>2, <1>3, <1>4, <1>5, <1>6, <1>7, <1>8, <1>9, StreamEventFields

(* Recording events.                                                        *)
LEMMA ReduceRecordingLawful ==
  ASSUME NEW s, Good(s), NEW e \in RecordingEvent(s)
  PROVE  Lawful(s, Reduce(s, e))
<1>. Coherent(s)
  BY DEF Good
<1>1. CASE e.name = "recording.started"
  BY <1>1, RecordingStartedSound, RecordingStartedAnswers, OnEventLawful DEF Reduce
<1>2. CASE e.name = "recording.stopped"
  BY <1>2, RecordingStoppedSound, RecordingStoppedAnswers, OnEventLawful DEF Reduce
<1>3. CASE e.name = "recording.failed"
  BY <1>3, RecordingFailedSound, RecordingFailedAnswers, OnEventLawful DEF Reduce
<1>4. CASE e.name = "recording.rotation_completed"
  BY <1>4, RecordingRotationCompletedSound, RecordingRotationCompletedAnswers,
     OnEventLawful DEF Reduce
<1>5. CASE e.name = "recording.fragment_opened" /\ e.path \in File
  BY <1>5, RecordingFragmentSound, RecordingFragmentAnswers, OnEventLawful DEF Reduce
<1>6. CASE e.name = "recording.fragment_closed" /\ e.path \in File
  BY <1>6, RecordingFragmentSound, RecordingFragmentAnswers, OnEventLawful DEF Reduce
<1>7. CASE /\ e.name = "recording.storage_checked"
           /\ e.storage_status \in StorageStatus
  BY <1>7, RecordingStorageCheckedSound, RecordingStorageCheckedAnswers,
     OnEventLawful DEF Reduce
<1> QED
  BY <1>1, <1>2, <1>3, <1>4, <1>5, <1>6, <1>7, RecordingEventFields

-----------------------------------------------------------------------------
(* The specification.                                                       *)

(* A step that does something is lawful.                                    *)
StepLawful ==
  Told(media, media', Range(effects')) /\ InOrder(media, media', Range(effects'))

LEMMA NextLawful ==
  ASSUME IInv, Next
  PROVE  StepLawful
<1>. Good(media)
  BY DEF IInv
<1>1. ASSUME NEW e, Handle(e), Lawful(media, Reduce(media, e)) PROVE StepLawful
  BY <1>1 DEF Handle, Lawful, StepLawful
<1>2. CASE HandleCommand
  BY <1>1, <1>2, ReduceCommandLawful DEF HandleCommand
<1>3. CASE HandleCaptureEvent
  BY <1>1, <1>3, ReduceCaptureLawful DEF HandleCaptureEvent
<1>4. CASE HandleStreamEvent
  BY <1>1, <1>4, ReduceStreamLawful DEF HandleStreamEvent
<1>5. CASE HandleRecordingEvent
  BY <1>1, <1>5, ReduceRecordingLawful DEF HandleRecordingEvent
<1>6. CASE HandleMonitoringFailed
  <2>1. Lawful(media, Reduce(media, [name |-> "monitoring.failed"]))
    BY MonitoringFailedSound, MonitoringFailedAnswers, OnEventLawful DEF Reduce, Good
  <2> QED BY <1>1, <1>6, <2>1 DEF HandleMonitoringFailed
<1>7. CASE HandleShutdown
  <2>1. Lawful(media, Reduce(media, [name |-> "service.shutdown"]))
    BY ServiceShutdownLawful DEF Reduce
  <2> QED BY <1>1, <1>7, <2>1 DEF HandleShutdown
<1> QED
  BY <1>2, <1>3, <1>4, <1>5, <1>6, <1>7 DEF Next

(* The vocabulary of the properties and that of the proofs agree.           *)
LEMMA Vocabulary ==
  /\ \A e : Requested(e) <=> e \in Range(effects')
  /\ \A v : /\ Enters("capture", v) <=> Into(media.capture, media'.capture, v)
            /\ Enters("stream", v) <=> Into(media.stream, media'.stream, v)
            /\ Enters("recording", v) <=> Into(media.recording, media'.recording, v)
            /\ Enters("connection", v) <=> Into(media.connection, media'.connection, v)
<1>1. \A e : Requested(e) <=> e \in Range(effects')
  BY DEF Requested, Range
<1>2. \A v : /\ Enters("capture", v) <=> Into(media.capture, media'.capture, v)
             /\ Enters("stream", v) <=> Into(media.stream, media'.stream, v)
             /\ Enters("recording", v) <=> Into(media.recording, media'.recording, v)
             /\ Enters("connection", v) <=> Into(media.connection, media'.connection, v)
  BY DEF Enters, Into
<1> QED BY <1>1, <1>2

(* No branch is sent to a stop without the request to the backend in the    *)
(* same step, and no stop of a recording or of capture is asked for twice,  *)
(* whatever commands, events and failures come in whatever order.           *)
THEOREM StopsRequested == Spec => StopsAreRequested
<1>1. IInv /\ [Next]_vars =>
        [ /\ Enters("recording", "stopping") = Requested("recording.stop")
          /\ Enters("capture", "stopping") = Requested("capture.stop")
          /\ (Enters("stream", "stopping") => Requested("stream.stop"))
          /\ (Requested("stream.stop") =>
                Enters("stream", "stopping") \/ Enters("capture", "failed"))]_vars
  <2> SUFFICES ASSUME IInv, Next
               PROVE  /\ Enters("recording", "stopping") = Requested("recording.stop")
                      /\ Enters("capture", "stopping") = Requested("capture.stop")
                      /\ Enters("stream", "stopping") => Requested("stream.stop")
                      /\ Requested("stream.stop") =>
                           Enters("stream", "stopping") \/ Enters("capture", "failed")
    OBVIOUS
  <2>1. StopsTold(media, media', Range(effects'))
    BY NextLawful DEF StepLawful, Told
  <2>2. /\ Enters("recording", "stopping") <=> Requested("recording.stop")
        /\ Enters("capture", "stopping") <=> Requested("capture.stop")
        /\ Enters("stream", "stopping") => Requested("stream.stop")
        /\ Requested("stream.stop") =>
             Enters("stream", "stopping") \/ Enters("capture", "failed")
    BY <2>1, Vocabulary DEF StopsTold
  <2>3. /\ Enters("recording", "stopping") \in BOOLEAN
        /\ Enters("capture", "stopping") \in BOOLEAN
        /\ Requested("recording.stop") \in BOOLEAN
        /\ Requested("capture.stop") \in BOOLEAN
    BY DEF Enters, Requested
  <2> QED BY <2>2, <2>3
<1> QED BY <1>1, AlwaysGood, PTL DEF Spec, StopsAreRequested

(* The retry timer is scheduled just on entering the wait, and no step      *)
(* leaves the wait without cancelling it or using it up, a shutdown that    *)
(* runs through several stages in one step included.                        *)
THEOREM TimerFollowsWait == Spec => RetryTimerFollowsWait
<1>1. IInv /\ [Next]_vars =>
        [ /\ Enters("connection", "retry_wait") =
               Requested("connection.schedule_retry")
          /\ (media.connection.state = "retry_wait" /\ media'.connection.state # "retry_wait" =>
                \/ Requested("connection.cancel_retry")
                \/ Requested("connection.connect"))]_vars
  <2> SUFFICES ASSUME IInv, Next
               PROVE  /\ Enters("connection", "retry_wait") =
                           Requested("connection.schedule_retry")
                      /\ media.connection.state = "retry_wait"
                           /\ media'.connection.state # "retry_wait" =>
                           \/ Requested("connection.cancel_retry")
                           \/ Requested("connection.connect")
    OBVIOUS
  <2>1. TimerTold(media, media', Range(effects'))
    BY NextLawful DEF StepLawful, Told
  <2>2. /\ Enters("connection", "retry_wait") <=>
             Requested("connection.schedule_retry")
        /\ media.connection.state = "retry_wait"
             /\ media'.connection.state # "retry_wait" =>
             \/ Requested("connection.cancel_retry")
             \/ Requested("connection.connect")
    BY <2>1, Vocabulary DEF TimerTold
  <2>3. /\ Enters("connection", "retry_wait") \in BOOLEAN
        /\ Requested("connection.schedule_retry") \in BOOLEAN
    BY DEF Enters, Requested
  <2> QED BY <2>2, <2>3
<1> QED BY <1>1, AlwaysGood, PTL DEF Spec, RetryTimerFollowsWait

(* A shutdown stops the stream only over a finished recording, capture only *)
(* when both are finished, and asks the service to stop just as it becomes  *)
(* stopped.                                                                 *)
THEOREM ShutdownOrdered == Spec => ShutdownInOrder
<1>1. IInv /\ [Next]_vars =>
        [ media'.service # "running" =>
          /\ (Enters("stream", "stopping") => media'.recording.state \notin Active)
          /\ (Enters("capture", "stopping") =>
                {media'.recording.state, media'.stream.state} \cap Active = {})
          /\ Requested("service.stop") =
               (media.service # "stopped" /\ media'.service = "stopped")]_vars
  <2> SUFFICES ASSUME IInv, Next, media'.service # "running"
               PROVE  /\ Enters("stream", "stopping") => media'.recording.state \notin Active
                      /\ Enters("capture", "stopping") =>
                           {media'.recording.state, media'.stream.state} \cap Active = {}
                      /\ Requested("service.stop") =
                           (media.service # "stopped" /\ media'.service = "stopped")
    OBVIOUS
  <2>1. InOrder(media, media', Range(effects'))
    BY NextLawful DEF StepLawful
  <2>2. /\ Enters("stream", "stopping") => media'.recording.state \notin Active
        /\ Enters("capture", "stopping") =>
             {media'.recording.state, media'.stream.state} \cap Active = {}
        /\ Requested("service.stop") <=>
             media.service # "stopped" /\ media'.service = "stopped"
    BY <2>1, Vocabulary DEF InOrder
  <2>3. Requested("service.stop") \in BOOLEAN
    BY DEF Requested
  <2> QED BY <2>2, <2>3
<1> QED BY <1>1, AlwaysGood, PTL DEF Spec, ShutdownInOrder

(* A generation is taken only by starting a branch that was not active, one *)
(* at a time, so that an acknowledgement names one branch for good.         *)
THEOREM GenerationsFresh == Spec => GenerationsNameOneBranch
<1> DEFINE Fresh == \A b \in {"capture", "stream", "recording"} :
        IF media'[b].generation = media[b].generation
          THEN ~Enters(b, "starting")
          ELSE /\ media'[b].generation = media[b].generation + 1
               /\ media[b].state \notin Active
               /\ media'[b].state = "starting"
<1>1. IInv /\ [Next]_vars => [Fresh]_vars
  <2> SUFFICES ASSUME IInv, Next PROVE Fresh
    OBVIOUS
  <2>1. AllNumbered(media, media')
    BY NextLawful DEF StepLawful, Told
  <2> QED BY <2>1 DEF AllNumbered, Numbered, Enters, Into
<1> QED BY <1>1, AlwaysGood, PTL DEF Spec, GenerationsNameOneBranch

-----------------------------------------------------------------------------
(* The same command or event once more.                                     *)

(* A decision that leaves t as it is and asks for nothing.                  *)
Still(t, d) == d.state = t /\ d.effects = <<>>

(* What the stages may have made of the state p a backend event led to: of  *)
(* a live branch one that is stopping, and nothing else.                    *)
Pushed(p, t) ==
  /\ t \in MediaRecord /\ t.monitoring_error = p.monitoring_error
  /\ t.capture.generation = p.capture.generation
  /\ t.stream.generation = p.stream.generation
  /\ t.recording.generation = p.recording.generation
  /\ t.recording.current_file = p.recording.current_file
  /\ t.recording.last_finalized_file = p.recording.last_finalized_file
  /\ \/ t.capture = p.capture
     \/ p.capture.state \in Live /\ t.capture.state = "stopping"
  /\ \/ t.stream = p.stream /\ t.connection = p.connection
     \/ /\ p.stream.state \in Live /\ t.stream.state = "stopping"
        /\ t.stream.pending_opus_bitrate_bps = 0
  /\ \/ t.recording = p.recording
     \/ /\ p.recording.state \in Live /\ t.recording.state = "stopping"
        /\ ~t.recording.rotation_pending

(* t is where the event decided by d may have led: an error skips the       *)
(* stages.                                                                  *)
After(d, t) == Pushed(d.state, t) /\ (d.error # "none" => t = d.state)

(* u, the decision of the same operation in t, has nothing left to do, and  *)
(* is refused again if d was.                                               *)
Again(d, u, t) == Still(t, u) /\ (d.error # "none" => u.error # "none")

LEMMA KeepStill ==
  ASSUME NEW t
  PROVE  Still(t, Keep(t)) /\ \A code : Still(t, Reject(t, code))
  BY DEF Still, Keep, Reject, Change

(* A shutdown under way that has been pushed as far as it goes.             *)
Parked(t) ==
  \/ t.recording.state = "stopping"
  \/ t.recording.state \notin Active /\ t.stream.state = "stopping"
  \/ /\ {t.recording.state, t.stream.state} \cap Active = {}
     /\ t.capture.state = "stopping"

(* The stages act on one branch, the first that is not at rest.             *)
LEMMA OneStage ==
  ASSUME NEW d, Coherent(d.state), d.effects \in Seq(Effect),
         d.state.service = "shutting_down", d.error = "none"
  PROVE  LET s == d.state
             v == AdvanceShutdown(d) IN
         \/ s.recording.state \in Live /\ v = ShutRecording(d)
         \/ Parked(s) /\ v = d
         \/ /\ s.recording.state \notin Active /\ s.stream.state \in Live
            /\ v = ShutStream(d)
         \/ /\ s.recording.state \notin Active /\ s.stream.state \notin Active
            /\ s.capture.state \in Live /\ v = ShutCapture(d)
         \/ /\ s.recording.state \notin Active /\ s.stream.state \notin Active
            /\ s.capture.state \notin Active /\ v = ShutService(d)
<1> DEFINE s == d.state
<1>1. CASE s.recording.state \in Live
  <2>1. ShutRecording(d).state.recording.state = "stopping"
    BY <1>1, ShutRecordingFields
  <2> QED BY <1>1, <2>1 DEF AdvanceShutdown
<1>2. CASE s.recording.state = "stopping"
  <2>1. ShutRecording(d) = d
    BY <1>2 DEF ShutRecording, Live
  <2> QED BY <1>2, <2>1 DEF AdvanceShutdown, Parked
<1>3. CASE s.recording.state \notin Active
  <2>1. ShutRecording(d) = d
    BY <1>3 DEF ShutRecording, Live, Active
  <2>2. CASE s.stream.state \in Live
    <3>1. ShutStream(d).state.stream.state = "stopping"
      BY <2>2, ShutStreamFields
    <3> QED BY <1>3, <2>1, <2>2, <3>1 DEF AdvanceShutdown, Active
  <2>3. CASE s.stream.state = "stopping"
    <3>1. ShutStream(d) = d
      BY <2>3 DEF ShutStream, Live
    <3> QED BY <1>3, <2>1, <2>3, <3>1 DEF AdvanceShutdown, Parked, Active
  <2>4. CASE s.stream.state \notin Active
    <3>1. ShutStream(d) = d
      BY <2>4 DEF ShutStream, Live, Active
    <3>2. CASE s.capture.state \in Live
      <4>1. ShutCapture(d).state.capture.state = "stopping"
        BY <3>2, ShutCaptureFields
      <4> QED BY <1>3, <2>1, <2>4, <3>1, <3>2, <4>1 DEF AdvanceShutdown, Active
    <3>3. CASE s.capture.state \notin Live
      <4>1. ShutCapture(d) = d
        BY <3>3 DEF ShutCapture
      <4> QED BY <1>3, <2>1, <2>4, <3>1, <3>3, <4>1
              DEF AdvanceShutdown, Parked, Live, Active
    <3> QED BY <3>2, <3>3
  <2> QED BY <2>2, <2>3, <2>4 DEF Live, Active
<1> QED BY <1>1, <1>2, <1>3 DEF Live, Active

(* What the stages leave is pushed, and parked unless the service stopped.  *)
LEMMA AdvancePushed ==
  ASSUME NEW d, Coherent(d.state), d.effects \in Seq(Effect),
         d.state.service = "shutting_down", d.error = "none"
  PROVE  LET t == AdvanceShutdown(d).state IN
         /\ Pushed(d.state, t)
         /\ t.service # "stopped" => t.service = "shutting_down" /\ Parked(t)
<1> DEFINE s == d.state
<1>1. /\ s \in MediaRecord /\ s.capture \in CaptureRecord
      /\ s.stream \in StreamRecord /\ s.connection \in ConnectionRecord
      /\ s.recording \in RecordingRecord
  BY Parts DEF Coherent
<1>2. Pushed(s, s)
  BY <1>1 DEF Pushed
<1>3. CASE s.recording.state \in Live
  <2> DEFINE r == [s.recording EXCEPT !.state = "stopping",
                                      !.stop_target = "stopped",
                                      !.rotation_pending = FALSE]
             t == [s EXCEPT !.recording = r]
  <2>1. ShutRecording(d).state = t
    BY <1>3 DEF ShutRecording, Change
  <2>2. /\ r \in RecordingRecord /\ r.state = "stopping"
        /\ ~r.rotation_pending /\ r.generation = s.recording.generation
        /\ r.current_file = s.recording.current_file
        /\ r.last_finalized_file = s.recording.last_finalized_file
    BY <1>1 DEF RecordingRecord, RecordingState, BranchState
  <2> HIDE DEF r
  <2>3. /\ t \in MediaRecord /\ t.recording = r /\ t.capture = s.capture
        /\ t.stream = s.stream /\ t.connection = s.connection
        /\ t.service = s.service /\ t.monitoring_error = s.monitoring_error
    BY <1>1, <2>2 DEF MediaRecord
  <2> HIDE DEF t
  <2>4. Pushed(s, t) /\ Parked(t) /\ t.service = "shutting_down"
    BY <1>3, <2>2, <2>3 DEF Pushed, Parked
  <2>5. ShutRecording(d) = AdvanceShutdown(d)
    BY <1>3, OneStage DEF Parked, Live, Active
  <2> QED BY <2>1, <2>4, <2>5
<1>4. CASE Parked(s) /\ AdvanceShutdown(d) = d
  BY <1>2, <1>4
<1>5. CASE /\ s.recording.state \notin Active /\ s.stream.state \in Live
           /\ AdvanceShutdown(d) = ShutStream(d)
  <2> DEFINE r == [s.stream EXCEPT !.state = "stopping",
                                   !.pending_opus_bitrate_bps = 0]
             c == Disconnected(s.connection)
             t == [s EXCEPT !.stream = r, !.connection = c]
  <2>1. ShutStream(d).state = t
    BY <1>5 DEF ShutStream, Change
  <2>2. /\ r \in StreamRecord /\ r.state = "stopping"
        /\ r.pending_opus_bitrate_bps = 0 /\ r.generation = s.stream.generation
    BY <1>1 DEF StreamRecord, BranchState
  <2>3. c \in ConnectionRecord
    BY <1>1, DisconnectedType
  <2> HIDE DEF r, c
  <2>4. /\ t \in MediaRecord /\ t.recording = s.recording /\ t.capture = s.capture
        /\ t.stream = r /\ t.connection = c
        /\ t.service = s.service /\ t.monitoring_error = s.monitoring_error
    BY <1>1, <2>2, <2>3 DEF MediaRecord
  <2> HIDE DEF t
  <2>5. Pushed(s, t) /\ Parked(t) /\ t.service = "shutting_down"
    BY <1>5, <2>2, <2>4 DEF Pushed, Parked
  <2> QED BY <1>5, <2>1, <2>5
<1>6. CASE /\ s.recording.state \notin Active /\ s.stream.state \notin Active
           /\ s.capture.state \in Live /\ AdvanceShutdown(d) = ShutCapture(d)
  <2> DEFINE c == [s.capture EXCEPT !.state = "stopping"]
             t == [s EXCEPT !.capture = c]
  <2>1. t = [s EXCEPT !.capture.state = "stopping"]
    OBVIOUS
  <2>2. ShutCapture(d).state = t
    BY <1>6, <2>1 DEF ShutCapture, Change
  <2>3. /\ c \in CaptureRecord /\ c.state = "stopping"
        /\ c.generation = s.capture.generation
    BY <1>1 DEF CaptureRecord, BranchState
  <2> HIDE DEF c
  <2>4. /\ t \in MediaRecord /\ t.recording = s.recording /\ t.capture = c
        /\ t.stream = s.stream /\ t.connection = s.connection
        /\ t.service = s.service /\ t.monitoring_error = s.monitoring_error
    BY <1>1, <2>3 DEF MediaRecord
  <2> HIDE DEF t
  <2>5. Pushed(s, t) /\ Parked(t) /\ t.service = "shutting_down"
    BY <1>6, <2>3, <2>4 DEF Pushed, Parked
  <2> QED BY <1>6, <2>2, <2>5
<1>7. CASE AdvanceShutdown(d) = ShutService(d)
  <2> DEFINE t == [s EXCEPT !.service = "stopped"]
  <2>1. ShutService(d).state = t
    BY DEF ShutService, Change
  <2>2. /\ t \in MediaRecord /\ t.recording = s.recording
        /\ t.capture = s.capture /\ t.stream = s.stream
        /\ t.connection = s.connection /\ t.service = "stopped"
        /\ t.monitoring_error = s.monitoring_error
    BY <1>1 DEF MediaRecord, ServiceState
  <2> HIDE DEF t
  <2>3. Pushed(s, t)
    BY <2>2 DEF Pushed
  <2>4. t.service = "stopped"
    BY <2>2
  <2>5. AdvanceShutdown(d).state = t
    BY <1>7, <2>1
  <2> QED BY <2>3, <2>4, <2>5
<1> QED BY <1>3, <1>4, <1>5, <1>6, <1>7, OneStage

(* In a state where the same operation has nothing left to do, neither has  *)
(* the event it stands for.                                                 *)
LEMMA OnEventTwice ==
  ASSUME NEW s, Good(s), NEW d, Sound(s, d), NEW t, t = OnEvent(s, d).state,
         NEW u, s.service # "stopped" /\ After(d, t) => Again(d, u, t)
  PROVE  Still(t, OnEvent(t, u))
<1>1. CASE s.service = "stopped"
  <2>1. t = s
    BY <1>1 DEF OnEvent, Keep, Change
  <2> QED BY <1>1, <2>1, KeepStill DEF OnEvent
<1>2. CASE s.service # "stopped"
  <2>1. t = AdvanceShutdown(d).state
    BY <1>2 DEF OnEvent
  <2>2. /\ Coherent(d.state) /\ d.effects \in Seq(Effect)
        /\ d.state.service = s.service /\ d.state \in MediaRecord
        /\ s.service \in {"running", "shutting_down"}
    BY <1>2, Parts DEF Sound, Coherent, Good, ServiceState
  <2>3. CASE s.service = "running" \/ d.error # "none"
    <3>1. t = d.state
      BY <2>1, <2>2, <2>3 DEF AdvanceShutdown
    <3>2. After(d, t)
      BY <2>2, <3>1 DEF After, Pushed
    <3>3. Again(d, u, t)
      BY <1>2, <3>2
    <3>4. AdvanceShutdown(u) = u
      BY <2>2, <2>3, <3>1, <3>3 DEF AdvanceShutdown, Again, Still
    <3> QED BY <3>3, <3>4, KeepStill DEF OnEvent, Again
  <2>4. CASE s.service = "shutting_down" /\ d.error = "none"
    <3>1. /\ Pushed(d.state, t)
          /\ t.service # "stopped" => t.service = "shutting_down" /\ Parked(t)
      BY <2>1, <2>2, <2>4, AdvancePushed
    <3>2. Again(d, u, t)
      BY <1>2, <2>4, <3>1 DEF After
    <3>3. CASE t.service = "stopped"
      BY <3>3, KeepStill DEF OnEvent
    <3>4. CASE t.service = "shutting_down" /\ Parked(t)
      <4>1. u.state = t
        BY <3>2 DEF Again, Still
      <4>2. AdvanceShutdown(u) = u
        BY <3>4, <4>1, ZenonT(60) DEF AdvanceShutdown, ShutRecording, ShutStream, ShutCapture,
                          Parked, Live, Active
      <4> QED BY <3>2, <3>4, <4>2 DEF OnEvent, Again
    <3> QED BY <3>1, <3>3, <3>4
  <2> QED BY <2>2, <2>3, <2>4
<1> QED BY <1>1, <1>2

(* So a command, which is refused again, or decided again by a running      *)
(* service.                                                                 *)
LEMMA OnCommandTwice ==
  ASSUME NEW s, NEW d, d.state.service = s.service, NEW t,
         t = OnCommand(s, d).state, NEW u, t = d.state => Still(t, u)
  PROVE  Still(t, OnCommand(t, u))
<1>1. CASE s.service # "running"
  <2>1. t = s
    BY <1>1 DEF OnCommand, Reject
  <2> QED BY <1>1, <2>1, KeepStill DEF OnCommand
<1>2. CASE s.service = "running"
  BY <1>2 DEF OnCommand
<1> QED BY <1>1, <1>2

-----------------------------------------------------------------------------
(* Backend events, repeated.                                                *)

(* Writing what is there already changes nothing.                           *)
LEMMA SameParts ==
  ASSUME NEW t \in MediaRecord
  PROVE  /\ [t EXCEPT !.connection = t.connection] = t
         /\ [t EXCEPT !.recording = t.recording] = t
         /\ t.monitoring_error = "monitoring_failed" =>
              [t EXCEPT !.monitoring_error = "monitoring_failed"] = t
  BY DEF MediaRecord

LEMMA CaptureStartedAgain ==
  ASSUME NEW s, Coherent(s), NEW g, NEW t, After(CaptureStarted(s, g), t)
  PROVE  Again(CaptureStarted(s, g), CaptureStarted(t, g), t)
<1> DEFINE d == CaptureStarted(s, g)
<1>1. s \in MediaRecord /\ s.capture \in CaptureRecord
  BY Parts DEF Coherent
<1>2. CASE d.error # "none"
  <2>1. t = s
    BY <1>2 DEF After, CaptureStarted, Keep, Reject, Change
  <2> QED BY <1>2, <2>1 DEF Again, Still, CaptureStarted, Keep, Reject, Change
<1>3. CASE d.error = "none"
  <2>1. /\ d.state.capture.generation = s.capture.generation
        /\ g # s.capture.generation \/ d.state.capture.state = "running"
    BY <1>1, <1>3 DEF CaptureStarted, Keep, Reject, Change, MediaRecord, CaptureRecord
  <2>2. /\ t.capture.generation = s.capture.generation
        /\ g # s.capture.generation \/ t.capture.state \in {"running", "stopping"}
    BY <2>1 DEF After, Pushed
  <2>3. Still(t, CaptureStarted(t, g))
    BY <2>2, KeepStill DEF CaptureStarted
  <2> QED BY <1>3, <2>3 DEF Again
<1> QED BY <1>2, <1>3

LEMMA CaptureStoppedAgain ==
  ASSUME NEW s, Coherent(s), NEW g, NEW t, After(CaptureStopped(s, g), t)
  PROVE  Again(CaptureStopped(s, g), CaptureStopped(t, g), t)
<1> DEFINE d == CaptureStopped(s, g)
<1>1. s \in MediaRecord /\ s.capture \in CaptureRecord
  BY Parts DEF Coherent
<1>2. CASE d.error # "none"
  <2>1. t = s
    BY <1>2 DEF After, CaptureStopped, Keep, Reject, Change
  <2> QED BY <1>2, <2>1 DEF Again, Still, CaptureStopped, Keep, Reject, Change
<1>3. CASE d.error = "none"
  <2>1. /\ d.state.capture.generation = s.capture.generation
        /\ g # s.capture.generation \/ d.state.capture.state = "stopped"
    BY <1>1, <1>3 DEF CaptureStopped, Keep, Reject, Change, MediaRecord, CaptureRecord
  <2>2. /\ t.capture.generation = s.capture.generation
        /\ g # s.capture.generation \/ t.capture.state = "stopped"
    BY <2>1 DEF After, Pushed, Live
  <2>3. Still(t, CaptureStopped(t, g))
    BY <2>2, KeepStill DEF CaptureStopped
  <2> QED BY <1>3, <2>3 DEF Again
<1> QED BY <1>2, <1>3

LEMMA CaptureFailedAgain ==
  ASSUME NEW s, Coherent(s), NEW g, NEW t, After(CaptureFailed(s, g), t)
  PROVE  Again(CaptureFailed(s, g), CaptureFailed(t, g), t)
<1> DEFINE d == CaptureFailed(s, g)
           u == LoseRecording(LoseStream(s))
           c == [u.capture EXCEPT !.state = "failed",
                                  !.last_error = "capture_failed"]
<1>1. /\ u \in MediaRecord /\ u.capture = s.capture
  BY LoseStreamSound, LoseRecordingSound DEF Coherent
<1>2. FailCapture(s).state = [u EXCEPT !.capture = c] /\ FailCapture(s).error = "none"
  BY DEF FailCapture, Change
<1> HIDE DEF u
<1>3. c.state = "failed" /\ c.generation = s.capture.generation
  BY <1>1, Parts DEF CaptureRecord
<1> HIDE DEF c
<1>4. FailCapture(s).state.capture = c
  BY <1>1, <1>2 DEF MediaRecord
<1>5. /\ d.state.capture.generation = s.capture.generation
      /\ g # s.capture.generation \/ d.state.capture.state \in {"stopped", "failed"}
      /\ d.error = "none"
  BY <1>2, <1>3, <1>4 DEF CaptureFailed, Keep, Change
<1>6. /\ t.capture.generation = s.capture.generation
      /\ g # s.capture.generation \/ t.capture.state \in {"stopped", "failed"}
  BY <1>5 DEF After, Pushed, Live
<1>7. Still(t, CaptureFailed(t, g))
  BY <1>6, KeepStill DEF CaptureFailed
<1> QED BY <1>5, <1>7 DEF Again

LEMMA StreamStartedAgain ==
  ASSUME NEW s, Coherent(s), NEW g, NEW t, After(StreamStarted(s, g), t)
  PROVE  Again(StreamStarted(s, g), StreamStarted(t, g), t)
<1> DEFINE d == StreamStarted(s, g)
<1>1. s \in MediaRecord /\ s.stream \in StreamRecord
  BY Parts DEF Coherent
<1>2. CASE d.error # "none"
  <2>1. t = s
    BY <1>2 DEF After, StreamStarted, Keep, Reject, Change
  <2> QED BY <1>2, <2>1 DEF Again, Still, StreamStarted, Keep, Reject, Change
<1>3. CASE d.error = "none"
  <2>1. /\ d.state.stream.generation = s.stream.generation
        /\ g # s.stream.generation \/ d.state.stream.state = "running"
    BY <1>1, <1>3 DEF StreamStarted, Keep, Reject, Change, MediaRecord, StreamRecord
  <2>2. /\ t.stream.generation = s.stream.generation
        /\ g # s.stream.generation \/ t.stream.state \in {"running", "stopping"}
    BY <2>1 DEF After, Pushed
  <2>3. Still(t, StreamStarted(t, g))
    BY <2>2, KeepStill DEF StreamStarted
  <2> QED BY <1>3, <2>3 DEF Again
<1> QED BY <1>2, <1>3

LEMMA StreamStoppedAgain ==
  ASSUME NEW s, Coherent(s), NEW g, NEW t, After(StreamStopped(s, g), t)
  PROVE  Again(StreamStopped(s, g), StreamStopped(t, g), t)
<1> DEFINE d == StreamStopped(s, g)
<1>1. s \in MediaRecord /\ s.stream \in StreamRecord
  BY Parts DEF Coherent
<1>2. CASE d.error # "none"
  <2>1. t = s
    BY <1>2 DEF After, StreamStopped, Keep, Reject, Change
  <2> QED BY <1>2, <2>1 DEF Again, Still, StreamStopped, Keep, Reject, Change
<1>3. CASE d.error = "none"
  <2>1. /\ d.state.stream.generation = s.stream.generation
        /\ g # s.stream.generation \/ d.state.stream.state = "stopped"
    BY <1>1, <1>3 DEF StreamStopped, Keep, Reject, Change, MediaRecord, StreamRecord
  <2>2. /\ t.stream.generation = s.stream.generation
        /\ g # s.stream.generation \/ t.stream.state = "stopped"
    BY <2>1 DEF After, Pushed, Live
  <2>3. Still(t, StreamStopped(t, g))
    BY <2>2, KeepStill DEF StreamStopped
  <2> QED BY <1>3, <2>3 DEF Again
<1> QED BY <1>2, <1>3

LEMMA StreamFailedAgain ==
  ASSUME NEW s, Coherent(s), NEW g, NEW t, After(StreamFailed(s, g), t)
  PROVE  Again(StreamFailed(s, g), StreamFailed(t, g), t)
<1> DEFINE d == StreamFailed(s, g)
<1>1. s \in MediaRecord /\ s.stream \in StreamRecord
  BY Parts DEF Coherent
<1>2. d.error = "none"
  BY DEF StreamFailed, Keep, Change
<1>3. /\ d.state.stream.generation = s.stream.generation
      /\ g # s.stream.generation \/ d.state.stream.state \in {"stopped", "failed"}
  BY <1>1 DEF StreamFailed, Keep, Change, MediaRecord, StreamRecord
<1>4. /\ t.stream.generation = s.stream.generation
      /\ g # s.stream.generation \/ t.stream.state \in {"stopped", "failed"}
  BY <1>3 DEF After, Pushed, Live
<1>5. Still(t, StreamFailed(t, g))
  BY <1>4, KeepStill DEF StreamFailed
<1> QED BY <1>2, <1>5 DEF Again

LEMMA OpusBitrateAppliedAgain ==
  ASSUME NEW s, Coherent(s), NEW g, NEW b \in Bitrate, NEW t,
         After(OpusBitrateApplied(s, g, b), t)
  PROVE  Again(OpusBitrateApplied(s, g, b), OpusBitrateApplied(t, g, b), t)
<1> DEFINE d == OpusBitrateApplied(s, g, b)
<1>1. s \in MediaRecord /\ s.stream \in StreamRecord /\ b # 0
  BY ConstantsAssumption, Parts DEF Coherent, ConstantsAssumption
<1>2. CASE d.error # "none"
  <2>1. t = s
    BY <1>2 DEF After, OpusBitrateApplied, Keep, Reject, Change
  <2> QED BY <1>2, <2>1 DEF Again, Still, OpusBitrateApplied, Keep, Reject, Change
<1>3. CASE d.error = "none"
  <2>1. /\ d.state.stream.generation = s.stream.generation
        /\ \/ g # s.stream.generation
           \/ d.state.stream.pending_opus_bitrate_bps = 0
    BY <1>1, <1>3 DEF OpusBitrateApplied, Keep, Reject, Change, MediaRecord, StreamRecord
  <2>2. /\ t.stream.generation = s.stream.generation
        /\ g # s.stream.generation \/ t.stream.pending_opus_bitrate_bps # b
    BY <1>1, <2>1 DEF After, Pushed
  <2>3. Still(t, OpusBitrateApplied(t, g, b))
    BY <2>2, KeepStill DEF OpusBitrateApplied
  <2> QED BY <1>3, <2>3 DEF Again
<1> QED BY <1>2, <1>3

LEMMA OpusBitrateFailedAgain ==
  ASSUME NEW s, Coherent(s), NEW g, NEW b \in Bitrate, NEW t,
         After(OpusBitrateFailed(s, g, b), t)
  PROVE  Again(OpusBitrateFailed(s, g, b), OpusBitrateFailed(t, g, b), t)
<1> DEFINE d == OpusBitrateFailed(s, g, b)
<1>1. s \in MediaRecord /\ s.stream \in StreamRecord /\ b # 0
  BY ConstantsAssumption, Parts DEF Coherent, ConstantsAssumption
<1>2. CASE d.error # "none"
  <2>1. t = s
    BY <1>2 DEF After, OpusBitrateFailed, Keep, Reject, Change
  <2> QED BY <1>2, <2>1 DEF Again, Still, OpusBitrateFailed, Keep, Reject, Change
<1>3. CASE d.error = "none"
  <2>1. /\ d.state.stream.generation = s.stream.generation
        /\ \/ g # s.stream.generation
           \/ d.state.stream.pending_opus_bitrate_bps = 0
    BY <1>1, <1>3 DEF OpusBitrateFailed, Keep, Reject, Change, MediaRecord, StreamRecord
  <2>2. /\ t.stream.generation = s.stream.generation
        /\ g # s.stream.generation \/ t.stream.pending_opus_bitrate_bps # b
    BY <1>1, <2>1 DEF After, Pushed
  <2>3. Still(t, OpusBitrateFailed(t, g, b))
    BY <2>2, KeepStill DEF OpusBitrateFailed
  <2> QED BY <1>3, <2>3 DEF Again
<1> QED BY <1>2, <1>3

LEMMA ConnectionConnectedAgain ==
  ASSUME NEW s, Coherent(s), NEW g, NEW t, After(ConnectionConnected(s, g), t)
  PROVE  Again(ConnectionConnected(s, g), ConnectionConnected(t, g), t)
<1> DEFINE d == ConnectionConnected(s, g)
<1>1. s \in MediaRecord /\ s.connection \in ConnectionRecord
  BY Parts DEF Coherent
<1>2. CASE d.error # "none"
  <2>1. t = s
    BY <1>2 DEF After, ConnectionConnected, Keep, Reject, Change
  <2> QED BY <1>2, <2>1 DEF Again, Still, ConnectionConnected, Keep, Reject, Change
<1>3. CASE d.error = "none"
  <2>1. /\ d.state.stream = s.stream
        /\ \/ g # s.stream.generation \/ s.stream.state \notin Live
           \/ d.state.connection.state = "connected"
    BY <1>1, <1>3 DEF ConnectionConnected, Keep, Reject, Change, MediaRecord,
                      ConnectionRecord
  <2>2. /\ t.stream.generation = s.stream.generation
        /\ \/ g # s.stream.generation \/ t.stream.state \notin Live
           \/ t.connection.state = "connected"
    BY <2>1 DEF After, Pushed, Live
  <2>3. Still(t, ConnectionConnected(t, g))
    BY <2>2, KeepStill DEF ConnectionConnected
  <2> QED BY <1>3, <2>3 DEF Again
<1> QED BY <1>2, <1>3

(* A repeated loss writes the same error again, and no second timer: the    *)
(* connection is waiting, or has failed, already.                           *)
LEMMA ConnectionLostAgain ==
  ASSUME NEW s, Coherent(s), NEW g, NEW retryable \in BOOLEAN, NEW t,
         After(ConnectionLost(s, g, retryable), t)
  PROVE  Again(ConnectionLost(s, g, retryable), ConnectionLost(t, g, retryable), t)
<1> DEFINE d == ConnectionLost(s, g, retryable)
           Lost(c) == IF retryable
             THEN \/ c.state \in {"disconnected", "failed"}
                  \/ c.state = "retry_wait" /\ c.last_error = "srt_connection_lost"
             ELSE /\ c.state = "failed" /\ c.next_retry_seconds = 0
                  /\ c.last_error = "srt_connection_lost"
<1>1. s \in MediaRecord /\ s.connection \in ConnectionRecord
  BY Parts DEF Coherent
<1>2. d.error = "none" /\ d.state.stream = s.stream
  BY <1>1 DEF ConnectionLost, Keep, Change, MediaRecord
<1>3. ASSUME g = s.stream.generation, s.stream.state \in Live
      PROVE  Lost(d.state.connection)
  <2>1. CASE ~retryable
    BY <1>1, <1>3, <2>1 DEF ConnectionLost, Change, MediaRecord, ConnectionRecord
  <2>2. CASE retryable /\ s.connection.state = "retry_wait"
    BY <1>1, <1>3, <2>2 DEF ConnectionLost, Change, MediaRecord, ConnectionRecord
  <2>3. CASE retryable /\ s.connection.state \in {"disconnected", "failed"}
    BY <1>1, <1>3, <2>3 DEF ConnectionLost, Keep, Change
  <2>4. CASE /\ retryable
             /\ s.connection.state \notin {"retry_wait", "disconnected", "failed"}
    BY <1>1, <1>3, <2>4 DEF ConnectionLost, Change, MediaRecord, ConnectionRecord
  <2> QED BY <2>1, <2>2, <2>3, <2>4
<1>4. /\ t \in MediaRecord /\ t.stream.generation = s.stream.generation
      /\ \/ g # s.stream.generation \/ t.stream.state \notin Live
         \/ Lost(t.connection)
  <2> HIDE DEF Lost
  <2> QED BY <1>2, <1>3 DEF After, Pushed, Live
<1>5. Still(t, ConnectionLost(t, g, retryable))
  <2>1. CASE g # t.stream.generation \/ t.stream.state \notin Live
    BY <2>1, KeepStill DEF ConnectionLost
  <2>2. CASE g = t.stream.generation /\ t.stream.state \in Live
    <3>1. Lost(t.connection) /\ t.connection \in ConnectionRecord
      BY <1>4, <2>2, Parts
    <3>2. CASE ~retryable
      <4> DEFINE c == [t.connection EXCEPT !.state = "failed",
                         !.next_retry_seconds = 0,
                         !.last_error = "srt_connection_lost"]
      <4>1. c = t.connection
        BY <3>1, <3>2 DEF ConnectionRecord
      <4>2. CancelRetryEffect(t) = <<>>
        BY <3>1, <3>2 DEF CancelRetryEffect
      <4>3. ConnectionLost(t, g, retryable) =
              Change([t EXCEPT !.connection = c], CancelRetryEffect(t))
        BY <2>2, <3>2 DEF ConnectionLost
      <4> HIDE DEF c
      <4> QED BY <1>4, <4>1, <4>2, <4>3, SameParts DEF Still, Change
    <3>3. CASE retryable /\ t.connection.state = "retry_wait"
      <4> DEFINE c == [t.connection EXCEPT !.last_error = "srt_connection_lost"]
      <4>1. c = t.connection
        BY <3>1, <3>3 DEF ConnectionRecord
      <4>2. ConnectionLost(t, g, retryable) = Change([t EXCEPT !.connection = c], <<>>)
        BY <2>2, <3>3 DEF ConnectionLost
      <4> HIDE DEF c
      <4> QED BY <1>4, <4>1, <4>2, SameParts DEF Still, Change
    <3>4. CASE retryable /\ t.connection.state # "retry_wait"
      BY <2>2, <3>1, <3>4, KeepStill DEF ConnectionLost
    <3> QED BY <3>2, <3>3, <3>4
  <2> QED BY <2>1, <2>2
<1> QED BY <1>2, <1>5 DEF Again

LEMMA ConnectionRetryDueAgain ==
  ASSUME NEW s, Coherent(s), NEW g, NEW t, After(ConnectionRetryDue(s, g), t)
  PROVE  Again(ConnectionRetryDue(s, g), ConnectionRetryDue(t, g), t)
<1> DEFINE d == ConnectionRetryDue(s, g)
<1>1. s \in MediaRecord /\ s.connection \in ConnectionRecord
  BY Parts DEF Coherent
<1>2. d.error = "none"
  BY DEF ConnectionRetryDue, Keep, Change
<1>3. /\ d.state.stream = s.stream
      /\ \/ g # s.stream.generation \/ s.stream.state \notin Live
         \/ d.state.connection.state # "retry_wait"
  BY <1>1 DEF ConnectionRetryDue, Keep, Change, MediaRecord, ConnectionRecord
<1>4. /\ t.stream.generation = s.stream.generation
      /\ \/ g # s.stream.generation \/ t.stream.state \notin Live
         \/ t.connection.state # "retry_wait"
  BY <1>3 DEF After, Pushed, Live
<1>5. Still(t, ConnectionRetryDue(t, g))
  BY <1>4, KeepStill DEF ConnectionRetryDue
<1> QED BY <1>2, <1>5 DEF Again

LEMMA ConnectionStatsAgain ==
  ASSUME NEW s, Coherent(s), NEW g, NEW t, After(ConnectionStats(s, g), t)
  PROVE  Again(ConnectionStats(s, g), ConnectionStats(t, g), t)
<1> DEFINE d == ConnectionStats(s, g)
           c == [t.connection EXCEPT !.statistics = g]
<1>1. s \in MediaRecord /\ s.connection \in ConnectionRecord
  BY Parts DEF Coherent
<1>2. d.error = "none"
  BY DEF ConnectionStats, Keep, Change
<1>3. /\ d.state.stream = s.stream
      /\ \/ g # s.stream.generation \/ s.stream.state \notin Live
         \/ d.state.connection.statistics = g
  BY <1>1 DEF ConnectionStats, Keep, Change, MediaRecord, ConnectionRecord
<1>4. /\ t.stream.generation = s.stream.generation /\ t \in MediaRecord
      /\ \/ g # s.stream.generation \/ t.stream.state \notin Live
         \/ t.connection.statistics = g
  BY <1>3 DEF After, Pushed, Live
<1>5. t.connection.statistics = g => c = t.connection
  BY <1>4, Parts DEF ConnectionRecord
<1>6. [t EXCEPT !.connection.statistics = g] = [t EXCEPT !.connection = c]
  OBVIOUS
<1> HIDE DEF c
<1>7. Still(t, ConnectionStats(t, g))
  BY <1>4, <1>5, <1>6, KeepStill, SameParts DEF ConnectionStats, Still, Change
<1> QED BY <1>2, <1>7 DEF Again

LEMMA RecordingStartedAgain ==
  ASSUME NEW s, Coherent(s), NEW g, NEW t, After(RecordingStarted(s, g), t)
  PROVE  Again(RecordingStarted(s, g), RecordingStarted(t, g), t)
<1> DEFINE d == RecordingStarted(s, g)
<1>1. s \in MediaRecord /\ s.recording \in RecordingRecord
  BY Parts DEF Coherent
<1>2. CASE d.error # "none"
  <2>1. t = s
    BY <1>2 DEF After, RecordingStarted, Keep, Reject, Change
  <2> QED BY <1>2, <2>1 DEF Again, Still, RecordingStarted, Keep, Reject, Change
<1>3. CASE d.error = "none"
  <2>1. /\ d.state.recording.generation = s.recording.generation
        /\ g # s.recording.generation \/ d.state.recording.state = "running"
    BY <1>1, <1>3 DEF RecordingStarted, Keep, Reject, Change, MediaRecord, RecordingRecord
  <2>2. /\ t.recording.generation = s.recording.generation
        /\ g # s.recording.generation \/ t.recording.state \in {"running", "stopping"}
    BY <2>1 DEF After, Pushed
  <2>3. Still(t, RecordingStarted(t, g))
    BY <2>2, KeepStill DEF RecordingStarted
  <2> QED BY <1>3, <2>3 DEF Again
<1> QED BY <1>2, <1>3

LEMMA RecordingStoppedAgain ==
  ASSUME NEW s, Coherent(s), NEW g, NEW t, After(RecordingStopped(s, g), t)
  PROVE  Again(RecordingStopped(s, g), RecordingStopped(t, g), t)
<1> DEFINE d == RecordingStopped(s, g)
           target == IF s.recording.stop_target = "none"
                       THEN "stopped" ELSE s.recording.stop_target
           r == Settled(s.recording, target)
<1>1. s \in MediaRecord /\ s.recording \in RecordingRecord
  BY Parts DEF Coherent
<1>2. CASE d.error # "none"
  <2>1. t = s
    BY <1>2 DEF After, RecordingStopped, Keep, Reject, Change
  <2> QED BY <1>2, <2>1 DEF Again, Still, RecordingStopped, Keep, Reject, Change
<1>3. CASE d.error = "none"
  <2>1. target \in {"stopped", "blocked", "failed"}
    BY <1>1 DEF RecordingRecord
  <2>2. d = IF g # s.recording.generation
                 \/ s.recording.state \in {"stopped", "blocked", "failed"}
              THEN Keep(s) ELSE Change([s EXCEPT !.recording = r], <<>>)
    BY <1>3 DEF RecordingStopped, Keep, Reject, Change
  <2> HIDE DEF target
  <2>3. r \in RecordingRecord /\ r.state = target
    BY <1>1, <2>1, SettledType
  <2>4. r.generation = s.recording.generation
    BY <1>1 DEF Settled, RecordingRecord
  <2> HIDE DEF r
  <2>5. /\ d.state.recording.generation = s.recording.generation
        /\ \/ g # s.recording.generation
           \/ d.state.recording.state \in {"stopped", "blocked", "failed"}
    BY <1>1, <2>1, <2>2, <2>3, <2>4 DEF Keep, Change, MediaRecord
  <2>6. /\ t.recording.generation = s.recording.generation
        /\ \/ g # s.recording.generation
           \/ t.recording.state \in {"stopped", "blocked", "failed"}
    BY <2>5 DEF After, Pushed, Live
  <2>7. Still(t, RecordingStopped(t, g))
    BY <2>6, KeepStill DEF RecordingStopped
  <2> QED BY <1>3, <2>7 DEF Again
<1> QED BY <1>2, <1>3

(* A recording that failed goes on being finalized: the second report finds *)
(* it there, with its target and its error.                                 *)
LEMMA RecordingFailedAgain ==
  ASSUME NEW s, Coherent(s), NEW g, NEW t, After(RecordingFailed(s, g), t)
  PROVE  Again(RecordingFailed(s, g), RecordingFailed(t, g), t)
<1> DEFINE d == RecordingFailed(s, g)
           Resting(r) == r.state \in {"stopped", "blocked", "failed"}
           Closing(r) == /\ r.state = "stopping" /\ r.stop_target = "failed"
                         /\ r.last_error = "recording_io_failed"
                         /\ r.rotation_pending = FALSE
<1>1. s \in MediaRecord /\ s.recording \in RecordingRecord
  BY Parts DEF Coherent
<1>2. d.error = "none"
  BY DEF RecordingFailed, Keep, Change
<1>3. /\ d.state.recording.generation = s.recording.generation
      /\ \/ g # s.recording.generation
         \/ Resting(d.state.recording) \/ Closing(d.state.recording)
  <2>1. CASE g # s.recording.generation \/ Resting(s.recording)
    BY <2>1 DEF RecordingFailed, Keep, Change
  <2>2. CASE g = s.recording.generation /\ s.recording.state = "starting"
    BY <1>1, <2>2 DEF RecordingFailed, Change, MediaRecord, RecordingRecord
  <2>3. CASE /\ g = s.recording.generation /\ ~Resting(s.recording)
             /\ s.recording.state # "starting"
    BY <1>1, <2>3 DEF RecordingFailed, Change, MediaRecord, RecordingRecord
  <2> QED BY <2>1, <2>2, <2>3
<1>4. /\ t \in MediaRecord /\ t.recording.generation = s.recording.generation
      /\ g # s.recording.generation \/ Resting(t.recording) \/ Closing(t.recording)
  BY <1>3 DEF After, Pushed, Live
<1>5. Still(t, RecordingFailed(t, g))
  <2>1. CASE g # t.recording.generation \/ Resting(t.recording)
    BY <2>1, KeepStill DEF RecordingFailed
  <2>2. CASE g = t.recording.generation /\ Closing(t.recording)
    <3> DEFINE r == [t.recording EXCEPT !.state = "stopping",
                       !.stop_target = "failed",
                       !.last_error = "recording_io_failed",
                       !.rotation_pending = FALSE]
    <3>1. r = t.recording
      BY <1>4, <2>2, Parts DEF RecordingRecord
    <3>2. RecordingFailed(t, g) = Change([t EXCEPT !.recording = r], <<>>)
      BY <2>2 DEF RecordingFailed
    <3> HIDE DEF r
    <3> QED BY <1>4, <3>1, <3>2, SameParts DEF Still, Change
  <2> QED BY <1>4, <2>1, <2>2
<1> QED BY <1>2, <1>5 DEF Again

(* A recording that was blocked for a reason is blocked for that reason.    *)
LEMMA BlockedTwice ==
  ASSUME NEW r \in RecordingRecord, NEW status
  PROVE  /\ BlockedRecording(BlockedRecording(r, status), status)
              = BlockedRecording(r, status)
         /\ BlockedRecording(r, status).state \notin Live
         /\ BlockedRecording(r, status).generation = r.generation
<1> DEFINE live == [r EXCEPT !.state = "stopping", !.stop_target = "blocked",
                             !.warning = status, !.last_error = status,
                             !.rotation_pending = FALSE]
           late == [r EXCEPT !.stop_target = "blocked", !.warning = status,
                             !.last_error = status]
           idle == [state |-> "blocked", generation |-> r.generation,
                    config_revision |-> None, stop_target |-> "none",
                    warning |-> status, last_error |-> status,
                    current_file |-> None,
                    last_finalized_file |-> r.last_finalized_file,
                    rotation_pending |-> FALSE]
<1>1. CASE r.state \in Live
  <2>1. BlockedRecording(r, status) = live
    BY <1>1 DEF BlockedRecording
  <2>2. live.state = "stopping" /\ live.generation = r.generation
    BY DEF RecordingRecord
  <2>3. [live EXCEPT !.stop_target = "blocked", !.warning = status,
                     !.last_error = status] = live
    BY DEF RecordingRecord
  <2> HIDE DEF live
  <2> QED BY <2>1, <2>2, <2>3 DEF BlockedRecording, Live
<1>2. CASE r.state = "stopping"
  <2>1. BlockedRecording(r, status) = late
    BY <1>2 DEF BlockedRecording, Live
  <2>2. late.state = "stopping" /\ late.generation = r.generation
    BY <1>2 DEF RecordingRecord
  <2>3. [late EXCEPT !.stop_target = "blocked", !.warning = status,
                     !.last_error = status] = late
    BY DEF RecordingRecord
  <2> HIDE DEF late
  <2> QED BY <2>1, <2>2, <2>3 DEF BlockedRecording, Live
<1>3. CASE r.state = "failed"
  BY <1>3 DEF BlockedRecording, Live
<1>4. CASE r.state \notin Live \cup {"stopping", "failed"}
  <2>1. BlockedRecording(r, status) = idle
    BY <1>4 DEF BlockedRecording
  <2>2. BlockedRecording(idle, status) = idle
    BY DEF BlockedRecording, Live
  <2> QED BY <2>1, <2>2 DEF Live
<1> QED BY <1>1, <1>2, <1>3, <1>4

LEMMA BlockRecordingTwice ==
  ASSUME NEW s \in MediaRecord, NEW status, NEW t,
         t = BlockRecording(s, status).state
  PROVE  /\ Still(t, BlockRecording(t, status))
         /\ t.recording.generation = s.recording.generation
<1> DEFINE q == BlockedRecording(s.recording, status)
<1>1. s.recording \in RecordingRecord
  BY Parts
<1>2. /\ BlockedRecording(q, status) = q /\ q.state \notin Live
      /\ q.generation = s.recording.generation
  BY <1>1, BlockedTwice
<1>3. t = [s EXCEPT !.recording = q]
  BY DEF BlockRecording
<1> HIDE DEF q
<1>4. t.recording = q /\ [t EXCEPT !.recording = q] = t
  BY <1>3 DEF MediaRecord
<1>5. BlockRecording(t, status).state = [t EXCEPT !.recording = q]
  BY <1>2, <1>4 DEF BlockRecording
<1>6. BlockRecording(t, status).effects = <<>>
  BY <1>2, <1>4 DEF BlockRecording
<1> QED BY <1>2, <1>4, <1>5, <1>6 DEF Still

LEMMA RecordingStorageCheckedAgain ==
  ASSUME NEW s, Coherent(s), NEW g, NEW status \in StorageStatus, NEW t,
         After(RecordingStorageChecked(s, g, status), t)
  PROVE  Again(RecordingStorageChecked(s, g, status),
               RecordingStorageChecked(t, g, status), t)
<1> DEFINE d == RecordingStorageChecked(s, g, status)
<1>1. s \in MediaRecord /\ s.recording \in RecordingRecord
  BY Parts DEF Coherent
<1>2. "none" \notin StorageStatus
  BY ConstantsAssumption DEF ConstantsAssumption, StorageStatus
<1>3. CASE g # s.recording.generation
  <2>1. d.error = "none" /\ t.recording.generation = s.recording.generation
    BY <1>3 DEF RecordingStorageChecked, Keep, Change, After, Pushed
  <2>2. Still(t, RecordingStorageChecked(t, g, status))
    BY <1>3, <2>1, KeepStill DEF RecordingStorageChecked
  <2> QED BY <2>1, <2>2 DEF Again
<1>4. CASE g = s.recording.generation /\ status # "safe"
  <2>1. d = BlockRecording(s, status)
    BY <1>4 DEF RecordingStorageChecked
  <2>2. d.error # "none"
    BY <1>2, <2>1 DEF BlockRecording
  <2>3. t = BlockRecording(s, status).state
    BY <2>1, <2>2 DEF After
  <2>4. Still(t, BlockRecording(t, status)) /\ g = t.recording.generation
    BY <1>1, <1>4, <2>3, BlockRecordingTwice
  <2>5. RecordingStorageChecked(t, g, status) = BlockRecording(t, status)
    BY <1>4, <2>4 DEF RecordingStorageChecked
  <2>6. BlockRecording(t, status).error # "none"
    BY <1>2 DEF BlockRecording
  <2> QED BY <2>4, <2>5, <2>6 DEF Again
<1>5. CASE g = s.recording.generation /\ status = "safe"
  <2>1. /\ d.error = "none" /\ d.state.recording.state # "blocked"
        /\ d.state.recording.generation = s.recording.generation
    BY <1>1, <1>5 DEF RecordingStorageChecked, Keep, Change, MediaRecord, RecordingRecord
  <2>2. /\ t.recording.state # "blocked"
        /\ t.recording.generation = s.recording.generation
    BY <2>1 DEF After, Pushed
  <2>3. Still(t, RecordingStorageChecked(t, g, status))
    BY <1>5, <2>2, KeepStill DEF RecordingStorageChecked
  <2> QED BY <2>1, <2>3 DEF Again
<1> QED BY <1>3, <1>4, <1>5

LEMMA RecordingFragmentOpenedAgain ==
  ASSUME NEW s, Coherent(s), NEW g, NEW path \in File, NEW t,
         After(RecordingFragmentOpened(s, g, path), t)
  PROVE  Again(RecordingFragmentOpened(s, g, path),
               RecordingFragmentOpened(t, g, path), t)
<1> DEFINE d == RecordingFragmentOpened(s, g, path)
           r == [t.recording EXCEPT !.current_file = path]
<1>1. s \in MediaRecord /\ s.recording \in RecordingRecord
  BY Parts DEF Coherent
<1>2. CASE d.error # "none"
  <2>1. t = s
    BY <1>2 DEF After, RecordingFragmentOpened, Keep, Reject, Change
  <2> QED BY <1>2, <2>1 DEF Again, Still, RecordingFragmentOpened, Keep, Reject, Change
<1>3. CASE d.error = "none"
  <2>1. /\ d.state.recording.generation = s.recording.generation
        /\ g # s.recording.generation \/ d.state.recording.current_file = path
    BY <1>1, <1>3 DEF RecordingFragmentOpened, Keep, Reject, Change, MediaRecord,
                      RecordingRecord
  <2>2. /\ t \in MediaRecord /\ t.recording.generation = s.recording.generation
        /\ g # s.recording.generation \/ t.recording.current_file = path
    BY <2>1 DEF After, Pushed
  <2>3. t.recording.current_file = path => r = t.recording
    BY <2>2, Parts DEF RecordingRecord
  <2>4. RecordingFragmentOpened(t, g, path) =
          IF g # t.recording.generation THEN Keep(t)
          ELSE IF t.recording.state \notin {"running", "stopping"}
            THEN Reject(t, "invalid_transition")
          ELSE Change([t EXCEPT !.recording = r], <<>>)
    BY DEF RecordingFragmentOpened
  <2> HIDE DEF r
  <2>5. Still(t, RecordingFragmentOpened(t, g, path))
    BY <2>2, <2>3, <2>4, KeepStill, SameParts DEF Still, Change
  <2> QED BY <1>3, <2>5 DEF Again
<1> QED BY <1>2, <1>3

LEMMA RecordingFragmentClosedAgain ==
  ASSUME NEW s, Coherent(s), NEW g, NEW path \in File, NEW t,
         After(RecordingFragmentClosed(s, g, path), t)
  PROVE  Again(RecordingFragmentClosed(s, g, path),
               RecordingFragmentClosed(t, g, path), t)
<1> DEFINE d == RecordingFragmentClosed(s, g, path)
           left == IF t.recording.current_file = path
                     THEN None ELSE t.recording.current_file
           r == [t.recording EXCEPT !.last_finalized_file = path,
                                    !.current_file = left]
<1>1. s \in MediaRecord /\ s.recording \in RecordingRecord /\ path # None
  BY ConstantsAssumption, Parts DEF Coherent, ConstantsAssumption
<1>2. CASE d.error # "none"
  <2>1. t = s
    BY <1>2 DEF After, RecordingFragmentClosed, Keep, Reject, Change
  <2> QED BY <1>2, <2>1 DEF Again, Still, RecordingFragmentClosed, Keep, Reject, Change
<1>3. CASE d.error = "none"
  <2>1. /\ d.state.recording.generation = s.recording.generation
        /\ \/ g # s.recording.generation
           \/ /\ d.state.recording.last_finalized_file = path
              /\ d.state.recording.current_file # path
    BY <1>1, <1>3 DEF RecordingFragmentClosed, Keep, Reject, Change, MediaRecord,
                      RecordingRecord
  <2>2. /\ t \in MediaRecord /\ t.recording.generation = s.recording.generation
        /\ \/ g # s.recording.generation
           \/ /\ t.recording.last_finalized_file = path
              /\ t.recording.current_file # path
    BY <2>1 DEF After, Pushed
  <2>3. g = s.recording.generation => r = t.recording
    BY <2>2, Parts DEF RecordingRecord
  <2>4. RecordingFragmentClosed(t, g, path) =
          IF g # t.recording.generation THEN Keep(t)
          ELSE IF t.recording.state \notin {"running", "stopping"}
            THEN Reject(t, "invalid_transition")
          ELSE Change([t EXCEPT !.recording = r], <<>>)
    BY DEF RecordingFragmentClosed
  <2> HIDE DEF r, left
  <2>5. Still(t, RecordingFragmentClosed(t, g, path))
    BY <2>2, <2>3, <2>4, KeepStill, SameParts DEF Still, Change
  <2> QED BY <1>3, <2>5 DEF Again
<1> QED BY <1>2, <1>3

LEMMA RecordingRotationCompletedAgain ==
  ASSUME NEW s, Coherent(s), NEW g, NEW t, After(RecordingRotationCompleted(s, g), t)
  PROVE  Again(RecordingRotationCompleted(s, g), RecordingRotationCompleted(t, g), t)
<1> DEFINE d == RecordingRotationCompleted(s, g)
           r == [t.recording EXCEPT !.rotation_pending = FALSE]
<1>1. s \in MediaRecord /\ s.recording \in RecordingRecord
  BY Parts DEF Coherent
<1>2. d.error = "none"
  BY DEF RecordingRotationCompleted, Keep, Change
<1>3. /\ d.state.recording.generation = s.recording.generation
      /\ g # s.recording.generation \/ ~d.state.recording.rotation_pending
  BY <1>1 DEF RecordingRotationCompleted, Keep, Change, MediaRecord, RecordingRecord
<1>4. /\ t \in MediaRecord /\ t.recording.generation = s.recording.generation
      /\ g # s.recording.generation \/ ~t.recording.rotation_pending
  BY <1>3 DEF After, Pushed
<1>5. /\ t.recording \in RecordingRecord /\ t.recording.rotation_pending \in BOOLEAN
  BY <1>4, Parts DEF RecordingRecord
<1>6. t.recording.rotation_pending = FALSE => r = t.recording
  BY <1>5 DEF RecordingRecord
<1>7. [t EXCEPT !.recording.rotation_pending = FALSE] = [t EXCEPT !.recording = r]
  OBVIOUS
<1> HIDE DEF r
<1>8. g = t.recording.generation => t.recording.rotation_pending = FALSE
  BY <1>4, <1>5
<1>9. Still(t, RecordingRotationCompleted(t, g))
  BY <1>4, <1>6, <1>7, <1>8, KeepStill, SameParts
     DEF RecordingRotationCompleted, Still, Change
<1> QED BY <1>2, <1>9 DEF Again

LEMMA MonitoringFailedAgain ==
  ASSUME NEW s, Coherent(s), NEW t, After(MonitoringFailed(s), t)
  PROVE  Again(MonitoringFailed(s), MonitoringFailed(t), t)
<1>1. s \in MediaRecord
  BY DEF Coherent
<1>2. /\ MonitoringFailed(s).error = "none"
      /\ MonitoringFailed(s).state.monitoring_error = "monitoring_failed"
  BY <1>1 DEF MonitoringFailed, Change, MediaRecord
<1>3. t \in MediaRecord /\ t.monitoring_error = "monitoring_failed"
  BY <1>2 DEF After, Pushed
<1> QED BY <1>2, <1>3, SameParts DEF Again, Still, MonitoringFailed, Change

-----------------------------------------------------------------------------
(* Commands, repeated. One that was refused, or found nothing to do, is     *)
(* decided in the same state again.                                         *)

LEMMA CaptureStartTwice ==
  ASSUME NEW s, Coherent(s), NEW v \in Revision, NEW t,
         t = CaptureStart(s, v).state
  PROVE  Still(t, CaptureStart(t, v))
<1>1. s \in MediaRecord
  BY DEF Coherent
<1>2. CASE s.capture.state \in Active
  BY <1>2, KeepStill DEF CaptureStart, Keep, Reject, Change, Live, Active
<1>3. CASE s.capture.state \notin Active
  <2>1. t.capture.state = "starting" /\ t.capture.config_revision = v
    BY <1>1, <1>3 DEF CaptureStart, Change, Live, Active, MediaRecord
  <2> QED BY <2>1, KeepStill DEF CaptureStart, Live
<1> QED BY <1>2, <1>3

LEMMA CaptureStopTwice ==
  ASSUME NEW s, Coherent(s), NEW t, t = CaptureStop(s).state
  PROVE  Still(t, CaptureStop(t))
<1>1. s \in MediaRecord /\ s.capture \in CaptureRecord
  BY Parts DEF Coherent
<1>2. \/ t = s /\ CaptureStop(s).effects = <<>>
      \/ t.capture.state = "stopping"
  BY <1>1 DEF CaptureStop, Keep, Reject, Change, MediaRecord, CaptureRecord
<1>3. CASE t = s /\ CaptureStop(s).effects = <<>>
  BY <1>3 DEF Still
<1>4. CASE t.capture.state = "stopping"
  BY <1>4, KeepStill DEF CaptureStop
<1> QED BY <1>2, <1>3, <1>4

LEMMA StreamStartTwice ==
  ASSUME NEW s, Coherent(s), NEW v \in Revision, NEW p \in Representation,
         NEW b \in Bitrate, NEW t, t = StreamStart(s, v, p, b).state
  PROVE  Still(t, StreamStart(t, v, p, b))
<1>1. s \in MediaRecord
  BY DEF Coherent
<1>2. CASE s.capture.state # "running" \/ s.stream.state \in Active
  <2>1. t = s /\ StreamStart(s, v, p, b).effects = <<>>
    BY <1>2 DEF StreamStart, Keep, Reject, Change, Live, Active
  <2> QED BY <2>1 DEF Still
<1>3. CASE s.capture.state = "running" /\ s.stream.state \notin Active
  <2>1. /\ t.stream.state = "starting" /\ t.stream.config_revision = v
        /\ t.capture = s.capture
    BY <1>1, <1>3 DEF StreamStart, Change, Live, Active, MediaRecord
  <2> QED BY <1>3, <2>1, KeepStill DEF StreamStart, Live
<1> QED BY <1>2, <1>3

LEMMA StreamStopTwice ==
  ASSUME NEW s, Coherent(s), NEW t, t = StreamStop(s).state
  PROVE  Still(t, StreamStop(t))
<1>1. s \in MediaRecord /\ s.stream \in StreamRecord
  BY Parts DEF Coherent
<1>2. \/ t = s /\ StreamStop(s).effects = <<>>
      \/ t.stream.state = "stopping"
  BY <1>1 DEF StreamStop, Keep, Reject, Change, MediaRecord, StreamRecord
<1>3. CASE t = s /\ StreamStop(s).effects = <<>>
  BY <1>3 DEF Still
<1>4. CASE t.stream.state = "stopping"
  BY <1>4, KeepStill DEF StreamStop
<1> QED BY <1>2, <1>3, <1>4

LEMMA SetOpusBitrateTwice ==
  ASSUME NEW s, Coherent(s), NEW b \in Bitrate, NEW t,
         t = StreamSetOpusBitrate(s, b).state
  PROVE  Still(t, StreamSetOpusBitrate(t, b))
<1>1. s \in MediaRecord /\ s.stream \in StreamRecord
  BY Parts DEF Coherent
<1>2. \/ t = s /\ StreamSetOpusBitrate(s, b).effects = <<>>
      \/ t.stream.pending_opus_bitrate_bps = b
  BY <1>1 DEF StreamSetOpusBitrate, Keep, Reject, Change, MediaRecord, StreamRecord
<1>3. CASE t = s /\ StreamSetOpusBitrate(s, b).effects = <<>>
  BY <1>3 DEF Still
<1>4. CASE t.stream.pending_opus_bitrate_bps = b
  BY <1>4, KeepStill DEF StreamSetOpusBitrate
<1> QED BY <1>2, <1>3, <1>4

LEMMA RecordingStartTwice ==
  ASSUME NEW s, Coherent(s), NEW v \in Revision, NEW status \in StorageStatus,
         NEW t, t = RecordingStart(s, v, status).state
  PROVE  Still(t, RecordingStart(t, v, status))
<1>1. s \in MediaRecord
  BY DEF Coherent
<1>2. CASE status # "safe"
  <2>1. t = BlockRecording(s, status).state
    BY <1>2 DEF RecordingStart
  <2>2. Still(t, BlockRecording(t, status))
    BY <1>1, <2>1, BlockRecordingTwice
  <2> QED BY <1>2, <2>2 DEF RecordingStart
<1>3. CASE /\ status = "safe"
           /\ s.capture.state # "running" \/ s.recording.state \in Active
  <2>1. t = s /\ RecordingStart(s, v, status).effects = <<>>
    BY <1>3 DEF RecordingStart, Keep, Reject, Change, Live, Active
  <2> QED BY <2>1 DEF Still
<1>4. CASE /\ status = "safe" /\ s.capture.state = "running"
           /\ s.recording.state \notin Active
  <2>1. /\ t.recording.state = "starting" /\ t.recording.config_revision = v
        /\ t.capture = s.capture
    BY <1>1, <1>4 DEF RecordingStart, Change, Live, Active, MediaRecord
  <2> QED BY <1>4, <2>1, KeepStill DEF RecordingStart, Live
<1> QED BY <1>2, <1>3, <1>4

LEMMA RecordingStopTwice ==
  ASSUME NEW s, Coherent(s), NEW t, t = RecordingStop(s).state
  PROVE  Still(t, RecordingStop(t))
<1>1. s \in MediaRecord /\ s.recording \in RecordingRecord
  BY Parts DEF Coherent
<1>2. \/ t = s /\ RecordingStop(s).effects = <<>>
      \/ t.recording.state \in {"stopped", "stopping"}
  BY <1>1 DEF RecordingStop, Settled, Keep, Reject, Change, MediaRecord, RecordingRecord
<1>3. CASE t = s /\ RecordingStop(s).effects = <<>>
  BY <1>3 DEF Still
<1>4. CASE t.recording.state \in {"stopped", "stopping"}
  BY <1>4, KeepStill DEF RecordingStop
<1> QED BY <1>2, <1>3, <1>4

LEMMA RecordingRotateTwice ==
  ASSUME NEW s, Coherent(s), NEW t, t = RecordingRotate(s).state
  PROVE  Still(t, RecordingRotate(t))
<1>1. s \in MediaRecord /\ s.recording \in RecordingRecord
  BY Parts DEF Coherent
<1>2. \/ t = s /\ RecordingRotate(s).effects = <<>>
      \/ t.recording.rotation_pending
  BY <1>1 DEF RecordingRotate, Keep, Reject, Change, MediaRecord, RecordingRecord
<1>3. CASE t = s /\ RecordingRotate(s).effects = <<>>
  BY <1>3 DEF Still
<1>4. CASE t.recording.rotation_pending
  BY <1>4, KeepStill DEF RecordingRotate
<1> QED BY <1>2, <1>3, <1>4

-----------------------------------------------------------------------------
(* The reducer, repeated.                                                   *)

Harmless(s, e) == Still(Reduce(s, e).state, Reduce(Reduce(s, e).state, e))

LEMMA CommandHarmless ==
  ASSUME NEW s, Good(s), NEW e \in Command
  PROVE  Harmless(s, e)
<1>. Coherent(s)
  BY DEF Good
<1> DEFINE t == Reduce(s, e).state
<1>1. CASE e.name = "capture.stop"
  <2>1. t = OnCommand(s, CaptureStop(s)).state
    BY <1>1 DEF Reduce
  <2>2. Reduce(t, e) = OnCommand(t, CaptureStop(t))
    BY <1>1 DEF Reduce
  <2> HIDE DEF t
  <2>3. Still(t, OnCommand(t, CaptureStop(t)))
    BY <2>1, CaptureStopObeys, CaptureStopTwice, OnCommandTwice DEF Obeys
  <2> QED BY <2>2, <2>3 DEF Harmless, t
<1>2. CASE e.name = "stream.stop"
  <2>1. t = OnCommand(s, StreamStop(s)).state
    BY <1>2 DEF Reduce
  <2>2. Reduce(t, e) = OnCommand(t, StreamStop(t))
    BY <1>2 DEF Reduce
  <2> HIDE DEF t
  <2>3. Still(t, OnCommand(t, StreamStop(t)))
    BY <2>1, StreamStopObeys, StreamStopTwice, OnCommandTwice DEF Obeys
  <2> QED BY <2>2, <2>3 DEF Harmless, t
<1>3. CASE e.name = "recording.stop"
  <2>1. t = OnCommand(s, RecordingStop(s)).state
    BY <1>3 DEF Reduce
  <2>2. Reduce(t, e) = OnCommand(t, RecordingStop(t))
    BY <1>3 DEF Reduce
  <2> HIDE DEF t
  <2>3. Still(t, OnCommand(t, RecordingStop(t)))
    BY <2>1, RecordingStopObeys, RecordingStopTwice, OnCommandTwice DEF Obeys
  <2> QED BY <2>2, <2>3 DEF Harmless, t
<1>4. CASE e.name = "recording.rotate"
  <2>1. t = OnCommand(s, RecordingRotate(s)).state
    BY <1>4 DEF Reduce
  <2>2. Reduce(t, e) = OnCommand(t, RecordingRotate(t))
    BY <1>4 DEF Reduce
  <2> HIDE DEF t
  <2>3. Still(t, OnCommand(t, RecordingRotate(t)))
    BY <2>1, RecordingRotateObeys, RecordingRotateTwice, OnCommandTwice DEF Obeys
  <2> QED BY <2>2, <2>3 DEF Harmless, t
<1>5. CASE e.name = "capture.start" /\ e.config_revision \in Revision
  <2>1. t = OnCommand(s, CaptureStart(s, e.config_revision)).state
    BY <1>5 DEF Reduce
  <2>2. Reduce(t, e) = OnCommand(t, CaptureStart(t, e.config_revision))
    BY <1>5 DEF Reduce
  <2> HIDE DEF t
  <2>3. Still(t, OnCommand(t, CaptureStart(t, e.config_revision)))
    BY <1>5, <2>1, CaptureStartObeys, CaptureStartTwice, OnCommandTwice DEF Obeys
  <2> QED BY <2>2, <2>3 DEF Harmless, t
<1>6. CASE /\ e.name = "stream.start" /\ e.config_revision \in Revision
           /\ e.representation_id \in Representation
           /\ e.opus_bitrate_bps \in Bitrate
  <2>1. t = OnCommand(s, StreamStart(s, e.config_revision, e.representation_id, e.opus_bitrate_bps)).state
    BY <1>6 DEF Reduce
  <2>2. Reduce(t, e) = OnCommand(t, StreamStart(t, e.config_revision, e.representation_id, e.opus_bitrate_bps))
    BY <1>6 DEF Reduce
  <2> HIDE DEF t
  <2>3. Still(t, OnCommand(t, StreamStart(t, e.config_revision, e.representation_id, e.opus_bitrate_bps)))
    BY <1>6, <2>1, StreamStartObeys, StreamStartTwice, OnCommandTwice DEF Obeys
  <2> QED BY <2>2, <2>3 DEF Harmless, t
<1>7. CASE e.name = "stream.set_opus_bitrate" /\ e.bitrate_bps \in Bitrate
  <2>1. t = OnCommand(s, StreamSetOpusBitrate(s, e.bitrate_bps)).state
    BY <1>7 DEF Reduce
  <2>2. Reduce(t, e) = OnCommand(t, StreamSetOpusBitrate(t, e.bitrate_bps))
    BY <1>7 DEF Reduce
  <2> HIDE DEF t
  <2>3. Still(t, OnCommand(t, StreamSetOpusBitrate(t, e.bitrate_bps)))
    BY <1>7, <2>1, SetOpusBitrateObeys, SetOpusBitrateTwice, OnCommandTwice DEF Obeys
  <2> QED BY <2>2, <2>3 DEF Harmless, t
<1>8. CASE /\ e.name = "recording.start" /\ e.config_revision \in Revision
           /\ e.storage_status \in StorageStatus
  <2>1. t = OnCommand(s, RecordingStart(s, e.config_revision, e.storage_status)).state
    BY <1>8 DEF Reduce
  <2>2. Reduce(t, e) = OnCommand(t, RecordingStart(t, e.config_revision, e.storage_status))
    BY <1>8 DEF Reduce
  <2> HIDE DEF t
  <2>3. Still(t, OnCommand(t, RecordingStart(t, e.config_revision, e.storage_status)))
    BY <1>8, <2>1, RecordingStartObeys, RecordingStartTwice, OnCommandTwice DEF Obeys
  <2> QED BY <2>2, <2>3 DEF Harmless, t
<1> QED
  BY <1>1, <1>2, <1>3, <1>4, <1>5, <1>6, <1>7, <1>8, CommandFields

LEMMA CaptureHarmless ==
  ASSUME NEW s, Good(s), NEW e \in CaptureEvent(s)
  PROVE  Harmless(s, e)
<1>. Coherent(s)
  BY DEF Good
<1> DEFINE t == Reduce(s, e).state
<1>1. CASE e.name = "capture.started"
  <2>1. t = OnEvent(s, CaptureStarted(s, e.generation)).state
    BY <1>1 DEF Reduce
  <2>2. Reduce(t, e) = OnEvent(t, CaptureStarted(t, e.generation))
    BY <1>1 DEF Reduce
  <2> HIDE DEF t
  <2>3. Sound(s, CaptureStarted(s, e.generation))
    BY <1>1, CaptureStartedSound
  <2>4. After(CaptureStarted(s, e.generation), t) =>
          Again(CaptureStarted(s, e.generation), CaptureStarted(t, e.generation), t)
    BY <1>1, CaptureStartedAgain
  <2>5. Still(t, OnEvent(t, CaptureStarted(t, e.generation)))
    BY <2>1, <2>3, <2>4, OnEventTwice
  <2> QED BY <2>2, <2>5 DEF Harmless, t
<1>2. CASE e.name = "capture.stopped"
  <2>1. t = OnEvent(s, CaptureStopped(s, e.generation)).state
    BY <1>2 DEF Reduce
  <2>2. Reduce(t, e) = OnEvent(t, CaptureStopped(t, e.generation))
    BY <1>2 DEF Reduce
  <2> HIDE DEF t
  <2>3. Sound(s, CaptureStopped(s, e.generation))
    BY <1>2, CaptureStoppedSound
  <2>4. After(CaptureStopped(s, e.generation), t) =>
          Again(CaptureStopped(s, e.generation), CaptureStopped(t, e.generation), t)
    BY <1>2, CaptureStoppedAgain
  <2>5. Still(t, OnEvent(t, CaptureStopped(t, e.generation)))
    BY <2>1, <2>3, <2>4, OnEventTwice
  <2> QED BY <2>2, <2>5 DEF Harmless, t
<1>3. CASE e.name = "capture.failed"
  <2>1. t = OnEvent(s, CaptureFailed(s, e.generation)).state
    BY <1>3 DEF Reduce
  <2>2. Reduce(t, e) = OnEvent(t, CaptureFailed(t, e.generation))
    BY <1>3 DEF Reduce
  <2> HIDE DEF t
  <2>3. Sound(s, CaptureFailed(s, e.generation))
    BY <1>3, CaptureFailedSound
  <2>4. After(CaptureFailed(s, e.generation), t) =>
          Again(CaptureFailed(s, e.generation), CaptureFailed(t, e.generation), t)
    BY <1>3, CaptureFailedAgain
  <2>5. Still(t, OnEvent(t, CaptureFailed(t, e.generation)))
    BY <2>1, <2>3, <2>4, OnEventTwice
  <2> QED BY <2>2, <2>5 DEF Harmless, t
<1> QED
  BY <1>1, <1>2, <1>3 DEF CaptureEvent, GenerationEvent

LEMMA StreamHarmless ==
  ASSUME NEW s, Good(s), NEW e \in StreamEvent(s)
  PROVE  Harmless(s, e)
<1>. Coherent(s)
  BY DEF Good
<1> DEFINE t == Reduce(s, e).state
<1>1. CASE e.name = "stream.started"
  <2>1. t = OnEvent(s, StreamStarted(s, e.generation)).state
    BY <1>1 DEF Reduce
  <2>2. Reduce(t, e) = OnEvent(t, StreamStarted(t, e.generation))
    BY <1>1 DEF Reduce
  <2> HIDE DEF t
  <2>3. Sound(s, StreamStarted(s, e.generation))
    BY <1>1, StreamStartedSound
  <2>4. After(StreamStarted(s, e.generation), t) =>
          Again(StreamStarted(s, e.generation), StreamStarted(t, e.generation), t)
    BY <1>1, StreamStartedAgain
  <2>5. Still(t, OnEvent(t, StreamStarted(t, e.generation)))
    BY <2>1, <2>3, <2>4, OnEventTwice
  <2> QED BY <2>2, <2>5 DEF Harmless, t
<1>2. CASE e.name = "stream.stopped"
  <2>1. t = OnEvent(s, StreamStopped(s, e.generation)).state
    BY <1>2 DEF Reduce
  <2>2. Reduce(t, e) = OnEvent(t, StreamStopped(t, e.generation))
    BY <1>2 DEF Reduce
  <2> HIDE DEF t
  <2>3. Sound(s, StreamStopped(s, e.generation))
    BY <1>2, StreamStoppedSound
  <2>4. After(StreamStopped(s, e.generation), t) =>
          Again(StreamStopped(s, e.generation), StreamStopped(t, e.generation), t)
    BY <1>2, StreamStoppedAgain
  <2>5. Still(t, OnEvent(t, StreamStopped(t, e.generation)))
    BY <2>1, <2>3, <2>4, OnEventTwice
  <2> QED BY <2>2, <2>5 DEF Harmless, t
<1>3. CASE e.name = "stream.failed"
  <2>1. t = OnEvent(s, StreamFailed(s, e.generation)).state
    BY <1>3 DEF Reduce
  <2>2. Reduce(t, e) = OnEvent(t, StreamFailed(t, e.generation))
    BY <1>3 DEF Reduce
  <2> HIDE DEF t
  <2>3. Sound(s, StreamFailed(s, e.generation))
    BY <1>3, StreamFailedSound
  <2>4. After(StreamFailed(s, e.generation), t) =>
          Again(StreamFailed(s, e.generation), StreamFailed(t, e.generation), t)
    BY <1>3, StreamFailedAgain
  <2>5. Still(t, OnEvent(t, StreamFailed(t, e.generation)))
    BY <2>1, <2>3, <2>4, OnEventTwice
  <2> QED BY <2>2, <2>5 DEF Harmless, t
<1>4. CASE e.name = "connection.connected"
  <2>1. t = OnEvent(s, ConnectionConnected(s, e.generation)).state
    BY <1>4 DEF Reduce
  <2>2. Reduce(t, e) = OnEvent(t, ConnectionConnected(t, e.generation))
    BY <1>4 DEF Reduce
  <2> HIDE DEF t
  <2>3. Sound(s, ConnectionConnected(s, e.generation))
    BY <1>4, ConnectionConnectedSound
  <2>4. After(ConnectionConnected(s, e.generation), t) =>
          Again(ConnectionConnected(s, e.generation), ConnectionConnected(t, e.generation), t)
    BY <1>4, ConnectionConnectedAgain
  <2>5. Still(t, OnEvent(t, ConnectionConnected(t, e.generation)))
    BY <2>1, <2>3, <2>4, OnEventTwice
  <2> QED BY <2>2, <2>5 DEF Harmless, t
<1>5. CASE e.name = "connection.retry_due"
  <2>1. t = OnEvent(s, ConnectionRetryDue(s, e.generation)).state
    BY <1>5 DEF Reduce
  <2>2. Reduce(t, e) = OnEvent(t, ConnectionRetryDue(t, e.generation))
    BY <1>5 DEF Reduce
  <2> HIDE DEF t
  <2>3. Sound(s, ConnectionRetryDue(s, e.generation))
    BY <1>5, ConnectionRetryDueSound
  <2>4. After(ConnectionRetryDue(s, e.generation), t) =>
          Again(ConnectionRetryDue(s, e.generation), ConnectionRetryDue(t, e.generation), t)
    BY <1>5, ConnectionRetryDueAgain
  <2>5. Still(t, OnEvent(t, ConnectionRetryDue(t, e.generation)))
    BY <2>1, <2>3, <2>4, OnEventTwice
  <2> QED BY <2>2, <2>5 DEF Harmless, t
<1>6. CASE e.name = "connection.stats"
  <2>1. t = OnEvent(s, ConnectionStats(s, e.generation)).state
    BY <1>6 DEF Reduce
  <2>2. Reduce(t, e) = OnEvent(t, ConnectionStats(t, e.generation))
    BY <1>6 DEF Reduce
  <2> HIDE DEF t
  <2>3. Sound(s, ConnectionStats(s, e.generation))
    BY <1>6, ConnectionStatsSound
  <2>4. After(ConnectionStats(s, e.generation), t) =>
          Again(ConnectionStats(s, e.generation), ConnectionStats(t, e.generation), t)
    BY <1>6, ConnectionStatsAgain
  <2>5. Still(t, OnEvent(t, ConnectionStats(t, e.generation)))
    BY <2>1, <2>3, <2>4, OnEventTwice
  <2> QED BY <2>2, <2>5 DEF Harmless, t
<1>7. CASE e.name = "stream.opus_bitrate_applied" /\ e.bitrate_bps \in Bitrate
  <2>1. t = OnEvent(s, OpusBitrateApplied(s, e.generation, e.bitrate_bps)).state
    BY <1>7 DEF Reduce
  <2>2. Reduce(t, e) = OnEvent(t, OpusBitrateApplied(t, e.generation, e.bitrate_bps))
    BY <1>7 DEF Reduce
  <2> HIDE DEF t
  <2>3. Sound(s, OpusBitrateApplied(s, e.generation, e.bitrate_bps))
    BY <1>7, OpusBitrateSound
  <2>4. After(OpusBitrateApplied(s, e.generation, e.bitrate_bps), t) =>
          Again(OpusBitrateApplied(s, e.generation, e.bitrate_bps), OpusBitrateApplied(t, e.generation, e.bitrate_bps), t)
    BY <1>7, OpusBitrateAppliedAgain
  <2>5. Still(t, OnEvent(t, OpusBitrateApplied(t, e.generation, e.bitrate_bps)))
    BY <2>1, <2>3, <2>4, OnEventTwice
  <2> QED BY <2>2, <2>5 DEF Harmless, t
<1>8. CASE e.name = "stream.opus_bitrate_failed" /\ e.bitrate_bps \in Bitrate
  <2>1. t = OnEvent(s, OpusBitrateFailed(s, e.generation, e.bitrate_bps)).state
    BY <1>8 DEF Reduce
  <2>2. Reduce(t, e) = OnEvent(t, OpusBitrateFailed(t, e.generation, e.bitrate_bps))
    BY <1>8 DEF Reduce
  <2> HIDE DEF t
  <2>3. Sound(s, OpusBitrateFailed(s, e.generation, e.bitrate_bps))
    BY <1>8, OpusBitrateSound
  <2>4. After(OpusBitrateFailed(s, e.generation, e.bitrate_bps), t) =>
          Again(OpusBitrateFailed(s, e.generation, e.bitrate_bps), OpusBitrateFailed(t, e.generation, e.bitrate_bps), t)
    BY <1>8, OpusBitrateFailedAgain
  <2>5. Still(t, OnEvent(t, OpusBitrateFailed(t, e.generation, e.bitrate_bps)))
    BY <2>1, <2>3, <2>4, OnEventTwice
  <2> QED BY <2>2, <2>5 DEF Harmless, t
<1>9. CASE e.name = "connection.lost" /\ e.retryable \in BOOLEAN
  <2>1. t = OnEvent(s, ConnectionLost(s, e.generation, e.retryable)).state
    BY <1>9 DEF Reduce
  <2>2. Reduce(t, e) = OnEvent(t, ConnectionLost(t, e.generation, e.retryable))
    BY <1>9 DEF Reduce
  <2> HIDE DEF t
  <2>3. Sound(s, ConnectionLost(s, e.generation, e.retryable))
    BY <1>9, ConnectionLostSound
  <2>4. After(ConnectionLost(s, e.generation, e.retryable), t) =>
          Again(ConnectionLost(s, e.generation, e.retryable), ConnectionLost(t, e.generation, e.retryable), t)
    BY <1>9, ConnectionLostAgain
  <2>5. Still(t, OnEvent(t, ConnectionLost(t, e.generation, e.retryable)))
    BY <2>1, <2>3, <2>4, OnEventTwice
  <2> QED BY <2>2, <2>5 DEF Harmless, t
<1> QED
  BY <1>1, <1>2, <1>3, <1>4, <1>5, <1>6, <1>7, <1>8, <1>9,
     StreamEventFields

LEMMA RecordingHarmless ==
  ASSUME NEW s, Good(s), NEW e \in RecordingEvent(s)
  PROVE  Harmless(s, e)
<1>. Coherent(s)
  BY DEF Good
<1> DEFINE t == Reduce(s, e).state
<1>1. CASE e.name = "recording.started"
  <2>1. t = OnEvent(s, RecordingStarted(s, e.generation)).state
    BY <1>1 DEF Reduce
  <2>2. Reduce(t, e) = OnEvent(t, RecordingStarted(t, e.generation))
    BY <1>1 DEF Reduce
  <2> HIDE DEF t
  <2>3. Sound(s, RecordingStarted(s, e.generation))
    BY <1>1, RecordingStartedSound
  <2>4. After(RecordingStarted(s, e.generation), t) =>
          Again(RecordingStarted(s, e.generation), RecordingStarted(t, e.generation), t)
    BY <1>1, RecordingStartedAgain
  <2>5. Still(t, OnEvent(t, RecordingStarted(t, e.generation)))
    BY <2>1, <2>3, <2>4, OnEventTwice
  <2> QED BY <2>2, <2>5 DEF Harmless, t
<1>2. CASE e.name = "recording.stopped"
  <2>1. t = OnEvent(s, RecordingStopped(s, e.generation)).state
    BY <1>2 DEF Reduce
  <2>2. Reduce(t, e) = OnEvent(t, RecordingStopped(t, e.generation))
    BY <1>2 DEF Reduce
  <2> HIDE DEF t
  <2>3. Sound(s, RecordingStopped(s, e.generation))
    BY <1>2, RecordingStoppedSound
  <2>4. After(RecordingStopped(s, e.generation), t) =>
          Again(RecordingStopped(s, e.generation), RecordingStopped(t, e.generation), t)
    BY <1>2, RecordingStoppedAgain
  <2>5. Still(t, OnEvent(t, RecordingStopped(t, e.generation)))
    BY <2>1, <2>3, <2>4, OnEventTwice
  <2> QED BY <2>2, <2>5 DEF Harmless, t
<1>3. CASE e.name = "recording.failed"
  <2>1. t = OnEvent(s, RecordingFailed(s, e.generation)).state
    BY <1>3 DEF Reduce
  <2>2. Reduce(t, e) = OnEvent(t, RecordingFailed(t, e.generation))
    BY <1>3 DEF Reduce
  <2> HIDE DEF t
  <2>3. Sound(s, RecordingFailed(s, e.generation))
    BY <1>3, RecordingFailedSound
  <2>4. After(RecordingFailed(s, e.generation), t) =>
          Again(RecordingFailed(s, e.generation), RecordingFailed(t, e.generation), t)
    BY <1>3, RecordingFailedAgain
  <2>5. Still(t, OnEvent(t, RecordingFailed(t, e.generation)))
    BY <2>1, <2>3, <2>4, OnEventTwice
  <2> QED BY <2>2, <2>5 DEF Harmless, t
<1>4. CASE e.name = "recording.rotation_completed"
  <2>1. t = OnEvent(s, RecordingRotationCompleted(s, e.generation)).state
    BY <1>4 DEF Reduce
  <2>2. Reduce(t, e) = OnEvent(t, RecordingRotationCompleted(t, e.generation))
    BY <1>4 DEF Reduce
  <2> HIDE DEF t
  <2>3. Sound(s, RecordingRotationCompleted(s, e.generation))
    BY <1>4, RecordingRotationCompletedSound
  <2>4. After(RecordingRotationCompleted(s, e.generation), t) =>
          Again(RecordingRotationCompleted(s, e.generation), RecordingRotationCompleted(t, e.generation), t)
    BY <1>4, RecordingRotationCompletedAgain
  <2>5. Still(t, OnEvent(t, RecordingRotationCompleted(t, e.generation)))
    BY <2>1, <2>3, <2>4, OnEventTwice
  <2> QED BY <2>2, <2>5 DEF Harmless, t
<1>5. CASE e.name = "recording.fragment_opened" /\ e.path \in File
  <2>1. t = OnEvent(s, RecordingFragmentOpened(s, e.generation, e.path)).state
    BY <1>5 DEF Reduce
  <2>2. Reduce(t, e) = OnEvent(t, RecordingFragmentOpened(t, e.generation, e.path))
    BY <1>5 DEF Reduce
  <2> HIDE DEF t
  <2>3. Sound(s, RecordingFragmentOpened(s, e.generation, e.path))
    BY <1>5, RecordingFragmentSound
  <2>4. After(RecordingFragmentOpened(s, e.generation, e.path), t) =>
          Again(RecordingFragmentOpened(s, e.generation, e.path), RecordingFragmentOpened(t, e.generation, e.path), t)
    BY <1>5, RecordingFragmentOpenedAgain
  <2>5. Still(t, OnEvent(t, RecordingFragmentOpened(t, e.generation, e.path)))
    BY <2>1, <2>3, <2>4, OnEventTwice
  <2> QED BY <2>2, <2>5 DEF Harmless, t
<1>6. CASE e.name = "recording.fragment_closed" /\ e.path \in File
  <2>1. t = OnEvent(s, RecordingFragmentClosed(s, e.generation, e.path)).state
    BY <1>6 DEF Reduce
  <2>2. Reduce(t, e) = OnEvent(t, RecordingFragmentClosed(t, e.generation, e.path))
    BY <1>6 DEF Reduce
  <2> HIDE DEF t
  <2>3. Sound(s, RecordingFragmentClosed(s, e.generation, e.path))
    BY <1>6, RecordingFragmentSound
  <2>4. After(RecordingFragmentClosed(s, e.generation, e.path), t) =>
          Again(RecordingFragmentClosed(s, e.generation, e.path), RecordingFragmentClosed(t, e.generation, e.path), t)
    BY <1>6, RecordingFragmentClosedAgain
  <2>5. Still(t, OnEvent(t, RecordingFragmentClosed(t, e.generation, e.path)))
    BY <2>1, <2>3, <2>4, OnEventTwice
  <2> QED BY <2>2, <2>5 DEF Harmless, t
<1>7. CASE /\ e.name = "recording.storage_checked"
           /\ e.storage_status \in StorageStatus
  <2>1. t = OnEvent(s, RecordingStorageChecked(s, e.generation, e.storage_status)).state
    BY <1>7 DEF Reduce
  <2>2. Reduce(t, e) = OnEvent(t, RecordingStorageChecked(t, e.generation, e.storage_status))
    BY <1>7 DEF Reduce
  <2> HIDE DEF t
  <2>3. Sound(s, RecordingStorageChecked(s, e.generation, e.storage_status))
    BY <1>7, RecordingStorageCheckedSound
  <2>4. After(RecordingStorageChecked(s, e.generation, e.storage_status), t) =>
          Again(RecordingStorageChecked(s, e.generation, e.storage_status), RecordingStorageChecked(t, e.generation, e.storage_status), t)
    BY <1>7, RecordingStorageCheckedAgain
  <2>5. Still(t, OnEvent(t, RecordingStorageChecked(t, e.generation, e.storage_status)))
    BY <2>1, <2>3, <2>4, OnEventTwice
  <2> QED BY <2>2, <2>5 DEF Harmless, t
<1> QED
  BY <1>1, <1>2, <1>3, <1>4, <1>5, <1>6, <1>7,
     RecordingEventFields

(* A second request for a shutdown finds it under way, and parked.          *)
LEMMA ShutdownHarmless ==
  ASSUME NEW s, Good(s), NEW e, e.name = "service.shutdown"
  PROVE  Harmless(s, e)
<1> DEFINE t == Reduce(s, e).state
           d == ServiceShutdown(s)
           u == ServiceShutdown(t)
<1>1. t = OnEvent(s, d).state /\ Reduce(t, e) = OnEvent(t, u)
  BY DEF Reduce
<1>2. s.service \in {"running", "shutting_down", "stopped"}
  BY Parts DEF Good, Coherent, ServiceState
<1>3. CASE s.service = "stopped"
  <2>1. t = s
    BY <1>1, <1>3 DEF OnEvent, Keep, Change
  <2>2. Still(t, OnEvent(t, u))
    BY <1>3, <2>1, KeepStill DEF OnEvent
  <2> QED BY <1>1, <2>2 DEF Harmless
<1>4. CASE s.service # "stopped"
  <2>1. /\ Coherent(d.state) /\ d.state.service = "shutting_down"
        /\ d.error = "none" /\ d.effects \in Seq(Effect)
    BY <1>2, <1>4, PutService, EffectLists
       DEF Good, ServiceShutdown, Keep, Change, ServiceState
  <2>2. t = AdvanceShutdown(d).state
    BY <1>1, <1>4 DEF OnEvent
  <2>3. t.service # "stopped" => t.service = "shutting_down" /\ Parked(t)
    BY <2>1, <2>2, AdvancePushed
  <2> HIDE DEF t, d
  <2>4. CASE t.service = "stopped"
    <3>1. Still(t, OnEvent(t, u))
      BY <2>4, KeepStill DEF OnEvent
    <3> QED BY <1>1, <3>1 DEF Harmless, t
  <2>5. CASE t.service = "shutting_down" /\ Parked(t)
    <3>1. u = Keep(t)
      BY <2>5 DEF ServiceShutdown
    <3>2. AdvanceShutdown(Keep(t)) = Keep(t)
      BY <2>5 DEF AdvanceShutdown, ShutRecording, ShutStream, ShutCapture,
                  Keep, Change, Parked, Live, Active
    <3>3. Still(t, OnEvent(t, u))
      BY <2>5, <3>1, <3>2, KeepStill DEF OnEvent
    <3> QED BY <1>1, <3>3 DEF Harmless, t
  <2> QED BY <2>3, <2>4, <2>5
<1> QED BY <1>3, <1>4

LEMMA MonitoringHarmless ==
  ASSUME NEW s, Good(s), NEW e, e.name = "monitoring.failed"
  PROVE  Harmless(s, e)
<1> DEFINE t == Reduce(s, e).state
<1>1. /\ t = OnEvent(s, MonitoringFailed(s)).state
      /\ Reduce(t, e) = OnEvent(t, MonitoringFailed(t))
  BY DEF Reduce
<1> HIDE DEF t
<1>2. Sound(s, MonitoringFailed(s))
  BY MonitoringFailedSound DEF Good
<1>3. After(MonitoringFailed(s), t) => Again(MonitoringFailed(s), MonitoringFailed(t), t)
  BY MonitoringFailedAgain DEF Good
<1>4. Still(t, OnEvent(t, MonitoringFailed(t)))
  BY <1>1, <1>2, <1>3, OnEventTwice
<1> QED BY <1>1, <1>4 DEF Harmless, t

LEMMA ReduceHarmless ==
  ASSUME NEW s, Good(s), NEW e \in Event(s)
  PROVE  Harmless(s, e)
<1>1. CASE e \in Command \cup CaptureEvent(s) \cup StreamEvent(s) \cup RecordingEvent(s)
  BY <1>1, CommandHarmless, CaptureHarmless, StreamHarmless, RecordingHarmless
<1>2. CASE e \in PlainEvent({"service.shutdown", "monitoring.failed"})
  <2>1. e.name \in {"service.shutdown", "monitoring.failed"}
    BY <1>2 DEF PlainEvent
  <2> QED BY <2>1, ShutdownHarmless, MonitoringHarmless
<1> QED BY <1>1, <1>2 DEF Event

(* Handling any command or event a second time changes nothing and asks for *)
(* nothing, in every state the reducer can be in: acknowledgements may be   *)
(* duplicated and commands retried, in the middle of a shutdown too.        *)
THEOREM Idempotent == Spec => []DuplicatesHarmless
<1>1. IInv => DuplicatesHarmless
  <2> SUFFICES ASSUME IInv, NEW e \in Event(media) PROVE Harmless(media, e)
    BY DEF DuplicatesHarmless, Harmless, Still
  <2>1. Good(media)
    BY DEF IInv
  <2> QED BY <2>1, ReduceHarmless
<1> QED BY <1>1, AlwaysGood, PTL

-----------------------------------------------------------------------------
(* What the runtime, which applies the reducer, relies on: an effect is     *)
(* asked for in the name of a branch that has been started, so that the     *)
(* generation it is dispatched for is one.                                  *)
(* A live branch has been started.                                          *)
Alive(s) ==
  /\ s.capture.state \in Live => s.capture.generation # 0
  /\ s.stream.state \in Live => s.stream.generation # 0
  /\ s.recording.state \in Live => s.recording.generation # 0

(* What is to be begun is begun for a branch that has been started, and the *)
(* bitrate to be set is the pending one.                                    *)
Begins(s, f) ==
  /\ f = "capture.start" => s.capture.generation # 0
  /\ f \in {"stream.start", "connection.connect", "stream.set_opus_bitrate"} =>
       s.stream.generation # 0
  /\ f \in {"recording.start", "recording.rotate"} => s.recording.generation # 0
  /\ f = "stream.set_opus_bitrate" => s.stream.pending_opus_bitrate_bps # 0

Founded(d) ==
  /\ Alive(d.state)
  /\ \A f \in Range(d.effects) : Begins(d.state, f)

LEMMA KeepFounded ==
  ASSUME NEW s, Alive(s)
  PROVE  Founded(Keep(s)) /\ \A code : Founded(Reject(s, code))
  BY RangeOne DEF Founded, Keep, Reject, Change

LEMMA CaptureStartFounded ==
  ASSUME NEW s, Coherent(s), Alive(s), NEW v \in Revision
  PROVE  Founded(CaptureStart(s, v))
<1> DEFINE n == s.capture.generation + 1
           c == [state |-> "starting", generation |-> n,
                 config_revision |-> v, last_error |-> "none"]
           t == [s EXCEPT !.capture = c]
<1>1. s \in MediaRecord /\ n # 0
  BY Parts DEF Coherent, CaptureRecord
<1>2. t.capture = c /\ t.stream = s.stream /\ t.recording = s.recording
  BY <1>1 DEF MediaRecord
<1>3. c.generation = n
  OBVIOUS
<1>4. CaptureStart(s, v) =
        IF s.capture.state \in Live
          THEN IF s.capture.config_revision = v
                 THEN Keep(s) ELSE Reject(s, "reconfigure_required")
        ELSE IF s.capture.state = "stopping" THEN Reject(s, "busy")
        ELSE Change(t, <<"capture.start">>)
  BY DEF CaptureStart
<1> HIDE DEF t, c, n
<1>5. Founded(Change(t, <<"capture.start">>))
  BY <1>1, <1>2, <1>3, RangeOne DEF Founded, Alive, Begins, Change
<1> QED BY <1>4, <1>5, KeepFounded

LEMMA CaptureStopFounded ==
  ASSUME NEW s, Coherent(s), Alive(s)
  PROVE  Founded(CaptureStop(s))
<1> DEFINE c == [s.capture EXCEPT !.state = "stopping"]
           t == [s EXCEPT !.capture = c]
<1>1. s \in MediaRecord /\ s.capture \in CaptureRecord
  BY Parts DEF Coherent
<1>2. c.state = "stopping"
  BY <1>1 DEF CaptureRecord
<1>3. t.capture = c /\ t.stream = s.stream /\ t.recording = s.recording
  BY <1>1 DEF MediaRecord
<1>4. t = [s EXCEPT !.capture.state = "stopping"]
  OBVIOUS
<1> HIDE DEF t, c
<1>5. Founded(Change(t, <<"capture.stop">>))
  BY <1>2, <1>3, RangeOne DEF Founded, Alive, Begins, Change, Live
<1> QED BY <1>4, <1>5, KeepFounded DEF CaptureStop

LEMMA StreamStartFounded ==
  ASSUME NEW s, Coherent(s), Alive(s), NEW v \in Revision, NEW p \in Representation,
         NEW b \in Bitrate
  PROVE  Founded(StreamStart(s, v, p, b))
<1> DEFINE n == s.stream.generation + 1
           rate == IF p = Opus THEN b ELSE 0
           r == [state |-> "starting", generation |-> n, config_revision |-> v,
                 representation_id |-> p, opus_bitrate_bps |-> rate,
                 pending_opus_bitrate_bps |-> 0, last_error |-> "none"]
           c == [state |-> "connecting", reconnect_count |-> 0,
                 consecutive_failures |-> 0, next_retry_seconds |-> 0,
                 last_error |-> "none", statistics |-> 0]
           t == [s EXCEPT !.stream = r, !.connection = c]
<1>1. s \in MediaRecord /\ n # 0
  BY Parts DEF Coherent, StreamRecord
<1>2. t.capture = s.capture /\ t.stream = r /\ t.recording = s.recording
  BY <1>1 DEF MediaRecord
<1>3. r.generation = n
  OBVIOUS
<1>4. StreamStart(s, v, p, b) =
        IF s.capture.state # "running" THEN Reject(s, "capture_not_running")
        ELSE IF s.stream.state \in Live
          THEN IF s.stream.config_revision = v
                 THEN Keep(s) ELSE Reject(s, "reconfigure_required")
        ELSE IF s.stream.state = "stopping" THEN Reject(s, "busy")
        ELSE Change(t, <<"stream.start">>)
  BY DEF StreamStart
<1> HIDE DEF t, r, c, n
<1>5. Founded(Change(t, <<"stream.start">>))
  BY <1>1, <1>2, <1>3, RangeOne DEF Founded, Alive, Begins, Change
<1> QED BY <1>4, <1>5, KeepFounded

LEMMA StreamStopFounded ==
  ASSUME NEW s, Coherent(s), Alive(s)
  PROVE  Founded(StreamStop(s))
<1> DEFINE r == [s.stream EXCEPT !.state = "stopping",
                                 !.pending_opus_bitrate_bps = 0]
           c == [Disconnected(s.connection) EXCEPT !.consecutive_failures = 0]
           t == [s EXCEPT !.stream = r, !.connection = c]
           effs == CancelRetryEffect(s) \o <<"stream.stop">>
<1>1. s \in MediaRecord /\ s.stream \in StreamRecord
  BY Parts DEF Coherent
<1>2. r.state = "stopping"
  BY <1>1 DEF StreamRecord
<1>3. t.capture = s.capture /\ t.stream = r /\ t.recording = s.recording
  BY <1>1 DEF MediaRecord
<1>4. StreamStop(s) =
        IF s.stream.state \in {"stopped", "stopping"} THEN Keep(s)
        ELSE IF s.stream.state = "starting" THEN Reject(s, "busy")
        ELSE Change(t, effs)
  BY DEF StreamStop
<1>5. Range(effs) = Cancelled(s) \cup {"stream.stop"}
  BY RangeCancel DEF Effect
<1> HIDE DEF t, r, c, effs
<1>6. Founded(Change(t, effs))
  BY <1>2, <1>3, <1>5 DEF Founded, Alive, Begins, Change, Live, Cancelled
<1> QED BY <1>4, <1>6, KeepFounded

LEMMA SetOpusBitrateFounded ==
  ASSUME NEW s, Coherent(s), Alive(s), NEW b \in Bitrate
  PROVE  Founded(StreamSetOpusBitrate(s, b))
<1> DEFINE r == [s.stream EXCEPT !.pending_opus_bitrate_bps = b]
           t == [s EXCEPT !.stream = r]
<1>1. s \in MediaRecord /\ s.stream \in StreamRecord /\ b # 0
  BY Parts, ConstantsAssumption DEF Coherent
<1>2. /\ r.state = s.stream.state /\ r.generation = s.stream.generation
      /\ r.pending_opus_bitrate_bps = b
  BY <1>1 DEF StreamRecord
<1>3. t.capture = s.capture /\ t.stream = r /\ t.recording = s.recording
  BY <1>1 DEF MediaRecord
<1>4. t = [s EXCEPT !.stream.pending_opus_bitrate_bps = b]
  OBVIOUS
<1> HIDE DEF t, r
<1>5. s.stream.state = "running" => Founded(Change(t, <<"stream.set_opus_bitrate">>))
  BY <1>1, <1>2, <1>3, RangeOne DEF Founded, Alive, Begins, Change, Live
<1> QED BY <1>4, <1>5, KeepFounded DEF StreamSetOpusBitrate

(* The recording moves and is live only if it has been started.             *)
LEMMA RecordingFounded ==
  ASSUME NEW s \in MediaRecord, Alive(s), NEW r \in RecordingRecord, NEW effs,
         r.state \in Live => r.generation # 0,
         \A f \in Range(effs) :
           \/ f = "recording.stop"
           \/ f \in {"recording.start", "recording.rotate"} /\ r.generation # 0
  PROVE  Founded(Change([s EXCEPT !.recording = r], effs))
<1> DEFINE t == [s EXCEPT !.recording = r]
<1>1. t.capture = s.capture /\ t.stream = s.stream /\ t.recording = r
  BY PutRecording
<1> HIDE DEF t
<1>2. Founded(Change(t, effs))
  BY <1>1 DEF Founded, Alive, Begins, Change
<1> QED BY <1>2 DEF t

LEMMA BlockRecordingFounded ==
  ASSUME NEW s, Coherent(s), Alive(s), NEW status \in StorageFault
  PROVE  Founded(BlockRecording(s, status))
<1> DEFINE r == BlockedRecording(s.recording, status)
           effs == IF s.recording.state \in Live THEN <<"recording.stop">> ELSE <<>>
<1>1. s \in MediaRecord /\ s.recording \in RecordingRecord
  BY Parts DEF Coherent
<1>2. \A u : u.recording = s.recording => RecordingCoherent(u)
  BY DEF Coherent, RecordingCoherent
<1>3. r \in RecordingRecord /\ r.state \notin Live
  BY <1>1, <1>2, BlockedRecordingType
<1>4. Range(effs) \subseteq {"recording.stop"}
  BY RangeOne
<1>5. /\ BlockRecording(s, status).state = [s EXCEPT !.recording = r]
      /\ BlockRecording(s, status).effects = effs
  BY DEF BlockRecording
<1> HIDE DEF r, effs
<1>6. Founded(Change([s EXCEPT !.recording = r], effs))
  BY <1>1, <1>3, <1>4, RecordingFounded
<1> QED BY <1>5, <1>6 DEF Founded, Change

LEMMA RecordingStartFounded ==
  ASSUME NEW s, Coherent(s), Alive(s), NEW v \in Revision, NEW status \in StorageStatus
  PROVE  Founded(RecordingStart(s, v, status))
<1> DEFINE n == s.recording.generation + 1
           r == [state |-> "starting", generation |-> n, config_revision |-> v,
                 stop_target |-> "none", warning |-> "none",
                 last_error |-> "none", current_file |-> None,
                 last_finalized_file |-> s.recording.last_finalized_file,
                 rotation_pending |-> FALSE]
<1>1. /\ s \in MediaRecord /\ s.recording \in RecordingRecord
      /\ n \in Nat /\ n # 0
  BY Parts DEF Coherent, RecordingRecord
<1>2. RecordingStart(s, v, status) =
        IF status # "safe" THEN BlockRecording(s, status)
        ELSE IF s.capture.state # "running" THEN Reject(s, "capture_not_running")
        ELSE IF s.recording.state \in Live
          THEN IF s.recording.config_revision = v
                 THEN Keep(s) ELSE Reject(s, "reconfigure_required")
        ELSE IF s.recording.state = "stopping" THEN Reject(s, "busy")
        ELSE Change([s EXCEPT !.recording = r], <<"recording.start">>)
  BY DEF RecordingStart
<1> HIDE DEF n
<1>3. r \in RecordingRecord /\ r.generation = n
  BY <1>1 DEF RecordingRecord, RecordingState, BranchState
<1> HIDE DEF r
<1>4. Founded(Change([s EXCEPT !.recording = r], <<"recording.start">>))
  BY <1>1, <1>3, RangeOne, RecordingFounded
<1>5. status # "safe" => Founded(BlockRecording(s, status))
  BY BlockRecordingFounded DEF StorageStatus
<1> QED BY <1>2, <1>4, <1>5, KeepFounded

LEMMA RecordingStopFounded ==
  ASSUME NEW s, Coherent(s), Alive(s)
  PROVE  Founded(RecordingStop(s))
<1> DEFINE stopped == Settled(s.recording, "stopped")
           closing == [s.recording EXCEPT !.state = "stopping",
                                          !.stop_target = "stopped",
                                          !.rotation_pending = FALSE]
<1>1. s \in MediaRecord /\ s.recording \in RecordingRecord
  BY Parts DEF Coherent
<1>2. stopped \in RecordingRecord /\ stopped.state \notin Live
  BY <1>1, ZenonT(60) DEF Settled, RecordingRecord, RecordingState, BranchState, Live
<1>3. closing \in RecordingRecord /\ closing.state \notin Live
  BY <1>1, ZenonT(60) DEF RecordingRecord, RecordingState, BranchState, Live
<1>4. RecordingStop(s) =
        IF s.recording.state \in {"stopped", "blocked", "stopping"} THEN Keep(s)
        ELSE IF s.recording.state = "starting" THEN Reject(s, "busy")
        ELSE IF s.recording.state = "failed"
          THEN Change([s EXCEPT !.recording = stopped], <<>>)
        ELSE Change([s EXCEPT !.recording = closing], <<"recording.stop">>)
  BY DEF RecordingStop
<1> HIDE DEF stopped, closing
<1>5. Founded(Change([s EXCEPT !.recording = stopped], <<>>))
  BY <1>1, <1>2, RangeOne, RecordingFounded
<1>6. Founded(Change([s EXCEPT !.recording = closing], <<"recording.stop">>))
  BY <1>1, <1>3, RangeOne, RecordingFounded
<1> QED BY <1>4, <1>5, <1>6, KeepFounded

LEMMA RecordingRotateFounded ==
  ASSUME NEW s, Coherent(s), Alive(s)
  PROVE  Founded(RecordingRotate(s))
<1> DEFINE yes == TRUE
           r == [s.recording EXCEPT !.rotation_pending = yes]
<1>1. s \in MediaRecord /\ s.recording \in RecordingRecord
  BY Parts DEF Coherent
<1>2. [s EXCEPT !.recording = r] = [s EXCEPT !.recording.rotation_pending = TRUE]
  OBVIOUS
<1>3. yes \in BOOLEAN
  OBVIOUS
<1> HIDE DEF yes
<1>4. /\ r \in RecordingRecord /\ r.state = s.recording.state
      /\ r.generation = s.recording.generation
  BY <1>1, <1>3 DEF RecordingRecord
<1> HIDE DEF r
<1>5. s.recording.state = "running" =>
        Founded(Change([s EXCEPT !.recording = r], <<"recording.rotate">>))
  BY <1>1, <1>4, RangeOne, RecordingFounded DEF Alive, Live
<1> QED BY <1>2, <1>5, KeepFounded DEF RecordingRotate

(* The stages end branches and begin none.                                  *)
Endings ==
  {"capture.stop", "stream.stop", "recording.stop", "service.stop",
   "connection.cancel_retry", "connection.schedule_retry"}

Winds(d, f) ==
  /\ Rests(d.state.capture, f.state.capture) /\ Rests(d.state.stream, f.state.stream)
  /\ Rests(d.state.recording, f.state.recording)
  /\ Range(f.effects) \subseteq Range(d.effects) \cup Endings

LEMMA StagesWind ==
  ASSUME NEW d, Coherent(d.state), d.effects \in Seq(Effect)
  PROVE  Winds(d, AdvanceShutdown(d))
<1> DEFINE recorded == ShutRecording(d)
           streamed == ShutStream(d)
           captured == ShutCapture(d)
           served == ShutService(d)
<1>1. Winds(d, d)
  BY DEF Winds, Rests
<1>2. CASE d.state.recording.state \in Live
  <2>1. AdvanceShutdown(d) \in {d, recorded}
    BY <1>2, ShutRecordingFields DEF AdvanceShutdown
  <2>2. Winds(d, recorded)
    BY <1>2, ShutRecordingFields DEF Winds, Rests, Endings, Live
  <2> QED BY <1>1, <2>1, <2>2
<1>3. CASE d.state.recording.state \notin Live /\ d.state.stream.state \in Live
  <2>1. recorded = d
    BY <1>3 DEF ShutRecording
  <2>2. AdvanceShutdown(d) \in {d, streamed}
    BY <1>3, <2>1, ShutStreamFields DEF AdvanceShutdown
  <2>3. Winds(d, streamed)
    BY <1>3, ShutStreamFields, SMTT(40) DEF Winds, Rests, Endings, Live, Cancelled
  <2> QED BY <1>1, <2>2, <2>3
<1>4. CASE /\ d.state.recording.state \notin Live /\ d.state.stream.state \notin Live
           /\ d.state.capture.state \in Live
  <2>1. recorded = d /\ streamed = d
    BY <1>4 DEF ShutRecording, ShutStream
  <2>2. AdvanceShutdown(d) \in {d, captured}
    BY <1>4, <2>1, ShutCaptureFields DEF AdvanceShutdown
  <2>3. Winds(d, captured)
    BY <1>4, ShutCaptureFields DEF Winds, Rests, Endings, Live
  <2> QED BY <1>1, <2>2, <2>3
<1>5. CASE /\ d.state.recording.state \notin Live /\ d.state.stream.state \notin Live
           /\ d.state.capture.state \notin Live
  <2>1. recorded = d /\ streamed = d /\ captured = d
    BY <1>5 DEF ShutRecording, ShutStream, ShutCapture
  <2>2. AdvanceShutdown(d) \in {d, served}
    BY <2>1 DEF AdvanceShutdown
  <2>3. Winds(d, served)
    BY ShutServiceFields DEF Winds, Rests, Endings
  <2> QED BY <1>1, <2>2, <2>3
<1> QED BY <1>2, <1>3, <1>4, <1>5

(* A backend event asks for an end, or for the retry of a live stream.      *)
Asks(s, d) ==
  \A f \in Range(d.effects) :
    f \in Endings \/ (f = "connection.connect" /\ s.stream.state \in Live)

LEMMA OnEventFounded ==
  ASSUME NEW s, Coherent(s), Alive(s), NEW d, Sound(s, d), Answers(s, d), Asks(s, d)
  PROVE  Founded(OnEvent(s, d))
<1>1. CASE s.service = "stopped"
  BY <1>1, KeepFounded DEF OnEvent
<1>2. CASE s.service # "stopped"
  <2> DEFINE f == AdvanceShutdown(d)
  <2>1. OnEvent(s, d) = f
    BY <1>2 DEF OnEvent
  <2>2. Winds(d, f)
    BY StagesWind DEF Sound
  <2>3. Mild(s, d.state, Range(d.effects))
    BY DEF Answers
  <2> HIDE DEF f
  <2>4. Alive(f.state)
    BY <2>2, <2>3 DEF Alive, Winds, Mild, Rests
  <2>5. ASSUME NEW g \in Range(f.effects) PROVE Begins(f.state, g)
    <3>1. g \in Endings \/ (g = "connection.connect" /\ s.stream.state \in Live)
      BY <2>2, <2>5 DEF Winds, Asks
    <3>2. f.state.stream.generation = s.stream.generation
      BY <2>2, <2>3 DEF Winds, Mild, Rests
    <3> QED BY <3>1, <3>2 DEF Begins, Alive, Endings
  <2> QED BY <2>1, <2>4, <2>5 DEF Founded
<1> QED BY <1>1, <1>2

LEMMA OnCommandFounded ==
  ASSUME NEW s, Alive(s), NEW d, Founded(d)
  PROVE  Founded(OnCommand(s, d))
  BY KeepFounded DEF OnCommand

(* What a backend event asks for, one line for each.                        *)
LEMMA KeepAsks ==
  ASSUME NEW s
  PROVE  Asks(s, Keep(s)) /\ \A code : Asks(s, Reject(s, code))
  BY RangeOne DEF Asks, Keep, Reject, Change

LEMMA CaptureEventsAsk ==
  ASSUME NEW s, NEW g
  PROVE  /\ Asks(s, CaptureStarted(s, g)) /\ Asks(s, CaptureStopped(s, g))
         /\ Asks(s, CaptureFailed(s, g))
<1>1. Asks(s, CaptureStarted(s, g)) /\ Asks(s, CaptureStopped(s, g))
  BY KeepAsks, RangeOne DEF CaptureStarted, CaptureStopped, Asks, Change
<1>2. Asks(s, FailCapture(s))
  <2> DEFINE first == IF s.stream.state \in Active
                        THEN CancelRetryEffect(s) \o <<"stream.stop">> ELSE <<>>
             second == IF s.recording.state \in Live THEN <<"recording.stop">> ELSE <<>>
  <2>1. first \in Seq(Effect) /\ second \in Seq(Effect)
    BY EffectLists DEF Effect
  <2>2. Range(first) \subseteq Endings /\ Range(second) \subseteq Endings
    BY RangeOne, RangeCancel DEF Endings, Effect, Cancelled
  <2>3. FailCapture(s).effects = first \o second
    BY DEF FailCapture, Change
  <2> HIDE DEF first, second
  <2> QED BY <2>1, <2>2, <2>3, RangeConcat DEF Asks
<1>3. Asks(s, CaptureFailed(s, g))
  BY <1>2, KeepAsks DEF CaptureFailed
<1> QED BY <1>1, <1>3

LEMMA StreamEventsAsk ==
  ASSUME NEW s, NEW g, NEW b, NEW retryable
  PROVE  /\ Asks(s, StreamStarted(s, g)) /\ Asks(s, StreamStopped(s, g))
         /\ Asks(s, StreamFailed(s, g)) /\ Asks(s, OpusBitrateApplied(s, g, b))
         /\ Asks(s, OpusBitrateFailed(s, g, b))
         /\ Asks(s, ConnectionConnected(s, g)) /\ Asks(s, ConnectionStats(s, g))
         /\ Asks(s, ConnectionLost(s, g, retryable)) /\ Asks(s, ConnectionRetryDue(s, g))
<1>1. /\ Asks(s, StreamStarted(s, g)) /\ Asks(s, StreamStopped(s, g))
      /\ Asks(s, OpusBitrateApplied(s, g, b)) /\ Asks(s, OpusBitrateFailed(s, g, b))
      /\ Asks(s, ConnectionStats(s, g))
  BY KeepAsks, RangeOne DEF StreamStarted, StreamStopped, OpusBitrateApplied,
     OpusBitrateFailed, ConnectionStats, Asks, Change
<1>2. \A t : Asks(s, Change(t, CancelRetryEffect(s)))
  BY RangeCancel DEF Asks, Change, Cancelled, Endings
<1>3. Asks(s, StreamFailed(s, g)) /\ Asks(s, ConnectionConnected(s, g))
  BY <1>2, KeepAsks DEF StreamFailed, ConnectionConnected
<1>4. \A t : /\ Asks(s, Change(t, <<"connection.schedule_retry">>))
             /\ Asks(s, Change(t, <<>>))
  BY RangeOne DEF Asks, Change, Endings
<1>5. Asks(s, ConnectionLost(s, g, retryable))
  BY <1>2, <1>4, KeepAsks DEF ConnectionLost
<1>6. s.stream.state \in Live =>
        \A t : Asks(s, Change(t, <<"connection.connect">>))
  BY RangeOne DEF Asks, Change
<1>7. Asks(s, ConnectionRetryDue(s, g))
  BY <1>6, KeepAsks DEF ConnectionRetryDue
<1> QED BY <1>1, <1>3, <1>5, <1>7

LEMMA RecordingEventsAsk ==
  ASSUME NEW s, NEW g, NEW path, NEW status
  PROVE  /\ Asks(s, RecordingStarted(s, g)) /\ Asks(s, RecordingStopped(s, g))
         /\ Asks(s, RecordingFailed(s, g))
         /\ Asks(s, RecordingStorageChecked(s, g, status))
         /\ Asks(s, RecordingFragmentOpened(s, g, path))
         /\ Asks(s, RecordingFragmentClosed(s, g, path))
         /\ Asks(s, RecordingRotationCompleted(s, g))
<1>1. \A t : Asks(s, Change(t, <<"recording.stop">>)) /\ Asks(s, Change(t, <<>>))
  BY RangeOne DEF Asks, Change, Endings
<1>2. Asks(s, BlockRecording(s, status))
  BY RangeOne DEF BlockRecording, Asks, Endings
<1>3. /\ Asks(s, RecordingStarted(s, g)) /\ Asks(s, RecordingStopped(s, g))
      /\ Asks(s, RecordingFailed(s, g)) /\ Asks(s, RecordingRotationCompleted(s, g))
  BY <1>1, KeepAsks DEF RecordingStarted, RecordingStopped, RecordingFailed,
     RecordingRotationCompleted
<1>4. /\ Asks(s, RecordingStorageChecked(s, g, status))
      /\ Asks(s, RecordingFragmentOpened(s, g, path))
      /\ Asks(s, RecordingFragmentClosed(s, g, path))
  BY <1>1, <1>2, KeepAsks DEF RecordingStorageChecked, RecordingFragmentOpened,
     RecordingFragmentClosed
<1> QED BY <1>3, <1>4

(* What a decision of the reducer asks for is founded.                      *)
LEMMA ReduceCommandFounded ==
  ASSUME NEW s, Good(s), Alive(s), NEW e \in Command
  PROVE  Founded(Reduce(s, e))
<1>. Coherent(s)
  BY DEF Good
<1>1. CASE e.name = "capture.stop"
  BY <1>1, CaptureStopFounded, OnCommandFounded DEF Reduce
<1>2. CASE e.name = "stream.stop"
  BY <1>2, StreamStopFounded, OnCommandFounded DEF Reduce
<1>3. CASE e.name = "recording.stop"
  BY <1>3, RecordingStopFounded, OnCommandFounded DEF Reduce
<1>4. CASE e.name = "recording.rotate"
  BY <1>4, RecordingRotateFounded, OnCommandFounded DEF Reduce
<1>5. CASE e.name = "capture.start" /\ e.config_revision \in Revision
  BY <1>5, CaptureStartFounded, OnCommandFounded DEF Reduce
<1>6. CASE /\ e.name = "stream.start" /\ e.config_revision \in Revision
           /\ e.representation_id \in Representation
           /\ e.opus_bitrate_bps \in Bitrate
  BY <1>6, StreamStartFounded, OnCommandFounded DEF Reduce
<1>7. CASE e.name = "stream.set_opus_bitrate" /\ e.bitrate_bps \in Bitrate
  BY <1>7, SetOpusBitrateFounded, OnCommandFounded DEF Reduce
<1>8. CASE /\ e.name = "recording.start" /\ e.config_revision \in Revision
           /\ e.storage_status \in StorageStatus
  BY <1>8, RecordingStartFounded, OnCommandFounded DEF Reduce
<1> QED
  BY <1>1, <1>2, <1>3, <1>4, <1>5, <1>6, <1>7, <1>8, CommandFields

LEMMA ReduceCaptureFounded ==
  ASSUME NEW s, Good(s), Alive(s), NEW e \in CaptureEvent(s)
  PROVE  Founded(Reduce(s, e))
<1>. Coherent(s)
  BY DEF Good
<1>1. CASE e.name = "capture.started"
  BY <1>1, CaptureStartedSound, CaptureStartedAnswers, CaptureEventsAsk,
     OnEventFounded DEF Reduce
<1>2. CASE e.name = "capture.stopped"
  BY <1>2, CaptureStoppedSound, CaptureStoppedAnswers, CaptureEventsAsk,
     OnEventFounded DEF Reduce
<1>3. CASE e.name = "capture.failed"
  BY <1>3, CaptureFailedSound, CaptureFailedAnswers, CaptureEventsAsk,
     OnEventFounded DEF Reduce
<1> QED
  BY <1>1, <1>2, <1>3 DEF CaptureEvent, GenerationEvent

LEMMA ReduceStreamFounded ==
  ASSUME NEW s, Good(s), Alive(s), NEW e \in StreamEvent(s)
  PROVE  Founded(Reduce(s, e))
<1>. Coherent(s)
  BY DEF Good
<1>1. CASE e.name = "stream.started"
  BY <1>1, StreamStartedSound, StreamStartedAnswers, StreamEventsAsk,
     OnEventFounded DEF Reduce
<1>2. CASE e.name = "stream.stopped"
  BY <1>2, StreamStoppedSound, StreamStoppedAnswers, StreamEventsAsk,
     OnEventFounded DEF Reduce
<1>3. CASE e.name = "stream.failed"
  BY <1>3, StreamFailedSound, StreamFailedAnswers, StreamEventsAsk,
     OnEventFounded DEF Reduce
<1>4. CASE e.name = "connection.connected"
  BY <1>4, ConnectionConnectedSound, ConnectionConnectedAnswers, StreamEventsAsk,
     OnEventFounded DEF Reduce
<1>5. CASE e.name = "connection.retry_due"
  BY <1>5, ConnectionRetryDueSound, ConnectionRetryDueAnswers, StreamEventsAsk,
     OnEventFounded DEF Reduce
<1>6. CASE e.name = "connection.stats"
  BY <1>6, ConnectionStatsSound, ConnectionStatsAnswers, StreamEventsAsk,
     OnEventFounded DEF Reduce
<1>7. CASE e.name = "stream.opus_bitrate_applied" /\ e.bitrate_bps \in Bitrate
  BY <1>7, OpusBitrateSound, OpusBitrateAnswers, StreamEventsAsk,
     OnEventFounded DEF Reduce
<1>8. CASE e.name = "stream.opus_bitrate_failed" /\ e.bitrate_bps \in Bitrate
  BY <1>8, OpusBitrateSound, OpusBitrateAnswers, StreamEventsAsk,
     OnEventFounded DEF Reduce
<1>9. CASE e.name = "connection.lost" /\ e.retryable \in BOOLEAN
  BY <1>9, ConnectionLostSound, ConnectionLostAnswers, StreamEventsAsk,
     OnEventFounded DEF Reduce
<1> QED
  BY <1>1, <1>2, <1>3, <1>4, <1>5, <1>6, <1>7, <1>8, <1>9, StreamEventFields

LEMMA ReduceRecordingFounded ==
  ASSUME NEW s, Good(s), Alive(s), NEW e \in RecordingEvent(s)
  PROVE  Founded(Reduce(s, e))
<1>. Coherent(s)
  BY DEF Good
<1>1. CASE e.name = "recording.started"
  BY <1>1, RecordingStartedSound, RecordingStartedAnswers, RecordingEventsAsk,
     OnEventFounded DEF Reduce
<1>2. CASE e.name = "recording.stopped"
  BY <1>2, RecordingStoppedSound, RecordingStoppedAnswers, RecordingEventsAsk,
     OnEventFounded DEF Reduce
<1>3. CASE e.name = "recording.failed"
  BY <1>3, RecordingFailedSound, RecordingFailedAnswers, RecordingEventsAsk,
     OnEventFounded DEF Reduce
<1>4. CASE e.name = "recording.rotation_completed"
  BY <1>4, RecordingRotationCompletedSound, RecordingRotationCompletedAnswers, RecordingEventsAsk,
     OnEventFounded DEF Reduce
<1>5. CASE e.name = "recording.fragment_opened" /\ e.path \in File
  BY <1>5, RecordingFragmentSound, RecordingFragmentAnswers, RecordingEventsAsk,
     OnEventFounded DEF Reduce
<1>6. CASE e.name = "recording.fragment_closed" /\ e.path \in File
  BY <1>6, RecordingFragmentSound, RecordingFragmentAnswers, RecordingEventsAsk,
     OnEventFounded DEF Reduce
<1>7. CASE e.name = "recording.storage_checked" /\ e.storage_status \in StorageStatus
  BY <1>7, RecordingStorageCheckedSound, RecordingStorageCheckedAnswers, RecordingEventsAsk,
     OnEventFounded DEF Reduce
<1> QED
  BY <1>1, <1>2, <1>3, <1>4, <1>5, <1>6, <1>7, RecordingEventFields

LEMMA ServiceShutdownFounded ==
  ASSUME NEW s, Good(s), Alive(s)
  PROVE  Founded(OnEvent(s, ServiceShutdown(s)))
<1> DEFINE t == [s EXCEPT !.service = "shutting_down"]
           d == Change(t, <<>>)
<1>1. CASE s.service = "running"
  <2>1. Coherent(t)
    BY PutService DEF Good, ServiceState
  <2>2. t.capture = s.capture /\ t.stream = s.stream /\ t.recording = s.recording
    BY DEF Good, Coherent, MediaRecord
  <2>3. OnEvent(s, ServiceShutdown(s)) = AdvanceShutdown(d)
    BY <1>1 DEF OnEvent, ServiceShutdown
  <2> HIDE DEF t
  <2>4. d.state = t /\ d.effects = <<>> /\ d.effects \in Seq(Effect)
    BY EffectLists DEF Change
  <2> DEFINE f == AdvanceShutdown(d)
  <2>5. Winds(d, f)
    BY <2>1, <2>4, StagesWind
  <2> HIDE DEF f, d
  <2>6. Range(f.effects) \subseteq Endings
    BY <2>4, <2>5, RangeOne DEF Winds
  <2>7. Alive(f.state)
    BY <2>2, <2>4, <2>5 DEF Alive, Winds, Rests
  <2>8. Founded(f)
    BY <2>6, <2>7 DEF Founded, Begins, Endings
  <2> QED BY <2>3, <2>8 DEF f
<1>2. CASE s.service # "running"
  <2>1. s.service \in {"shutting_down", "stopped"}
    BY <1>2, Parts DEF Good, Coherent, ServiceState
  <2>2. Sound(s, Keep(s)) /\ Answers(s, Keep(s)) /\ Asks(s, Keep(s))
    BY KeepSound, KeepAnswers, KeepAsks DEF Good
  <2>3. OnEvent(s, ServiceShutdown(s)) = OnEvent(s, Keep(s))
    BY <2>1 DEF OnEvent, ServiceShutdown
  <2> QED BY <2>2, <2>3, OnEventFounded DEF Good
<1> QED BY <1>1, <1>2

(* The parts of the state only ever move on to later branches.              *)
Later(s, t) ==
  /\ s.capture.generation <= t.capture.generation
  /\ s.stream.generation <= t.stream.generation
  /\ s.recording.generation <= t.recording.generation

LEMMA LawfulIsLater ==
  ASSUME NEW s \in MediaRecord, NEW d, d.state \in MediaRecord, Lawful(s, d)
  PROVE  Later(s, d.state)
<1>1. AllNumbered(s, d.state)
  BY DEF Lawful, Told
<1>2. /\ {s.capture.generation, s.stream.generation, s.recording.generation} \subseteq Nat
      /\ {d.state.capture.generation, d.state.stream.generation,
          d.state.recording.generation} \subseteq Nat
  BY Parts DEF CaptureRecord, StreamRecord, RecordingRecord
<1> QED BY <1>1, <1>2 DEF AllNumbered, Numbered, Later

(* What the caller of the reducer may rely on, whatever it hands it.        *)
Served(s, d) ==
  /\ Good(d.state) /\ d.effects \in Seq(Effect) /\ Founded(d)
  /\ Lawful(s, d) /\ Later(s, d.state)

LEMMA ReduceServes ==
  ASSUME NEW s, Good(s), Alive(s), NEW e \in Event(s)
  PROVE  Served(s, Reduce(s, e))
<1>1. s \in MediaRecord /\ Coherent(s)
  BY Parts DEF Good, Coherent
<1>2. ASSUME NEW d, Good(d.state), d.effects \in Seq(Effect), Lawful(s, d), Founded(d)
      PROVE  Served(s, d)
  <2>1. d.state \in MediaRecord
    BY <1>2, Parts DEF Good, Coherent
  <2> QED BY <1>1, <1>2, <2>1, LawfulIsLater DEF Served
<1>3. CASE e \in Command
  BY <1>2, <1>3, ReduceCommandGood, ReduceCommandLawful, ReduceCommandFounded DEF Reduced
<1>4. CASE e \in CaptureEvent(s)
  BY <1>2, <1>4, ReduceCaptureGood, ReduceCaptureLawful, ReduceCaptureFounded DEF Reduced
<1>5. CASE e \in StreamEvent(s)
  BY <1>2, <1>5, ReduceStreamGood, ReduceStreamLawful, ReduceStreamFounded DEF Reduced
<1>6. CASE e \in RecordingEvent(s)
  BY <1>2, <1>6, ReduceRecordingGood, ReduceRecordingLawful, ReduceRecordingFounded
     DEF Reduced
<1>7. CASE e.name = "service.shutdown"
  <2>1. Reduce(s, e) = OnEvent(s, ServiceShutdown(s))
    BY <1>7 DEF Reduce
  <2> QED BY <1>2, <2>1, ServiceShutdownGood, ServiceShutdownLawful, ServiceShutdownFounded
<1>8. CASE e.name = "monitoring.failed"
  <2> DEFINE d == MonitoringFailed(s)
  <2>1. Reduce(s, e) = OnEvent(s, d)
    BY <1>8 DEF Reduce
  <2>2. Sound(s, d) /\ Answers(s, d)
    BY <1>1, MonitoringFailedSound, MonitoringFailedAnswers DEF Good
  <2>3. Asks(s, d)
    BY RangeOne DEF MonitoringFailed, Asks, Change
  <2> HIDE DEF d
  <2>4. /\ Good(OnEvent(s, d).state) /\ OnEvent(s, d).effects \in Seq(Effect)
        /\ Lawful(s, OnEvent(s, d)) /\ Founded(OnEvent(s, d))
    BY <1>1, <2>2, <2>3, OnEventGood, OnEventLawful, OnEventFounded
  <2> QED BY <1>2, <2>1, <2>4
<1> QED
  BY <1>3, <1>4, <1>5, <1>6, <1>7, <1>8 DEF Event, PlainEvent

LEMMA FirstAlive == Alive(InitialMedia)
  BY DEF Alive, InitialMedia, Live
=============================================================================
