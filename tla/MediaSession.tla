----------------------------- MODULE MediaSession -----------------------------
(* The media service as its control operations and the maintenance helper   *)
(* see it: a summary of MediaRuntime, with the one thing the summary must   *)
(* not lose, the order in which fragments are opened, listed, closed and    *)
(* taken off the list again. Fragments have numbers; a number is used once. *)
EXTENDS Naturals, FiniteSets, Sequences

CONSTANTS
  Fragments,   \* how many fragments are recorded
  Directory,   \* recording directories
  None,
  Scenarios    \* see ControlPlane

VARIABLES
  session,     \* service, capture, stream and recorder
  disk,        \* the recordings: fragments, recovered copies, one partial copy
  storage,     \* what the filesystem of the recordings is like
  spent,       \* faults, updates and the like so far
  scenario

sessionVars == <<session, disk, storage>>

ASSUME FragmentsAssumption == Fragments \in Nat

Fragment == 1 .. Fragments
Partial == 0
Name == 0 .. 2 * Fragments
CopyOf(n) == n + Fragments
Copy == {CopyOf(n) : n \in Fragment}

(* version: identity, times and size of a file; whole: closed, or validated.*)
Entry == [dir: Directory, version: 0 .. 4, links: 1 .. 2, whole: BOOLEAN]

ASSUME EntryAssumption == None \notin Entry

Rest == {"stopped", "running", "stopping"}
Session ==
  [service: {"up", "stopping", "down"},
   exit: {"clean", "failed"},
   capture: Rest, stream: Rest,
   recording: {"stopped", "starting", "running", "stopping", "failed"},  \* or blocked: failed
   target: {"stopped", "failed"},     \* recording_stop_target
   error: BOOLEAN,                    \* recording_error
   pending: BOOLEAN,                  \* rotation_pending
   current: Fragment \cup {None},     \* current_file
   last: Fragment \cup {None},        \* last_finalized_file
   listed: SUBSET Fragment,           \* active_files
   writing: SUBSET Fragment,          \* files a sink has open
   opened: 0 .. Fragments,            \* the last file opened
   base: 0 .. Fragments,              \* the last one before this start or rotation
   boot: BOOLEAN,                     \* bootstrap has not run
   follow: BOOLEAN]                   \* capture has started, what follows has not

Storage ==
  [directory: BOOLEAN, known: BOOLEAN, required: BOOLEAN, mounted: BOOLEAN, inside: BOOLEAN,
   same: BOOLEAN, writable: BOOLEAN, measured: BOOLEAN, full: BOOLEAN]

(* check_recording_destination.                                             *)
Destination(s) ==
  CASE ~s.directory -> "missing_or_not_directory"
    [] ~s.known -> "destination_stat_failed"
    [] s.required /\ ~s.mounted -> "required_mountpoint_unavailable"
    [] s.required /\ ~s.inside -> "destination_outside_required_mountpoint"
    [] s.required /\ ~s.same -> "destination_filesystem_mismatch"
    [] ~s.writable -> "not_writable"
    [] ~s.measured -> "usage_unavailable"
    [] s.full -> "storage_threshold"
    [] OTHER -> "ok"

Idle == [service |-> "up", exit |-> "clean", capture |-> "stopped", stream |-> "stopped",
         recording |-> "stopped", target |-> "stopped", error |-> FALSE, pending |-> FALSE,
         current |-> None, last |-> None,
         listed |-> {}, writing |-> {}, opened |-> 0, base |-> 0, boot |-> TRUE, follow |-> FALSE]

Up == session.service = "up"
Active(state) == state \in {"starting", "running", "stopping"}
RecordingActive == Active(session.recording)

SessionInit ==
  /\ session = Idle
  /\ disk = [n \in Name |-> None]
  /\ storage \in scenario.storages

Do(s) == session' = s /\ UNCHANGED <<disk, storage, spent, scenario>>

Spend(counter, limit) ==
  /\ spent[counter] < limit
  /\ spent' = [spent EXCEPT ![counter] = @ + 1]

-----------------------------------------------------------------------------
(* Commands, accepted by the reducer.                                       *)

StartCapture ==
  /\ Up /\ session.capture = "stopped"
  /\ Do([session EXCEPT !.capture = "running", !.follow = TRUE])

(* What is stopping is left to it, and what has failed is reset.            *)
StopRecording(s) ==
  [s EXCEPT !.recording = CASE @ = "running" -> "stopping" [] @ = "failed" -> "stopped" [] OTHER -> @,
            !.target = "stopped", !.pending = FALSE,
            !.current = IF s.recording = "failed" THEN None ELSE @]
StopStream(s) == [s EXCEPT !.stream = IF @ = "running" THEN "stopping" ELSE @]
StopAll(s) ==
  [StopStream(s) EXCEPT !.capture = IF @ = "running" THEN "stopping" ELSE @,
                        !.recording = IF @ \in {"starting", "running"} THEN "stopping" ELSE @,
                        !.target = "stopped", !.pending = FALSE, !.follow = FALSE]

(* Not while the storage is unsafe: that blocks the recording.              *)
StartRecording(s) ==
  IF Destination(storage) = "ok"
  THEN [s EXCEPT !.recording = "starting", !.error = FALSE, !.current = None, !.base = s.opened]
  ELSE [s EXCEPT !.recording = "failed", !.error = TRUE, !.current = None]
CanRecord ==
  /\ Up /\ session.capture = "running"
  /\ session.recording \in {"stopped", "failed"} /\ session.opened < Fragments

(* on_engine_event: after the start of capture the stream starts, if it is  *)
(* enabled, and with --record-on-start the recording, whoever holds the     *)
(* operation lock.                                                          *)
Streaming(s, enabled) ==
  [s EXCEPT !.follow = FALSE, !.stream = IF enabled /\ @ = "stopped" THEN "running" ELSE @]

FollowCapture(enabled) ==
  /\ session.follow /\ Up
  /\ Do(IF scenario.follows /\ CanRecord THEN StartRecording(Streaming(session, enabled))
        ELSE Streaming(session, enabled))

-----------------------------------------------------------------------------
(* The recorder. A sink opens its file before the runtime knows of it, and  *)
(* has closed it before the runtime hears that.                             *)

OpensFragment == (session.recording = "starting" \/ session.pending) /\ session.opened = session.base

OpenFragment(directory) ==
  /\ OpensFragment /\ session.writing \subseteq session.listed
  /\ LET n == session.opened + 1
     IN /\ session' = [session EXCEPT !.opened = n, !.writing = @ \cup {n}]
        /\ disk' = [disk EXCEPT ![n] = [dir |-> directory, version |-> 1, links |-> 1, whole |-> FALSE]]
  /\ UNCHANGED <<storage, spent, scenario>>

ListFragment ==
  /\ session.writing \ session.listed # {}
  /\ Do([session EXCEPT !.listed = @ \cup session.writing])

RecordingRuns ==
  /\ session.recording = "starting" /\ session.opened # session.base
  /\ session.opened \in session.writing \cap session.listed
  /\ Do([session EXCEPT !.recording = "running", !.current = session.opened])

RotationDue ==
  /\ session.recording = "running" /\ ~session.pending /\ session.opened < Fragments
  /\ Do([session EXCEPT !.pending = TRUE, !.base = session.opened])

Rotated ==
  /\ session.pending /\ session.opened # session.base
  /\ session.opened \in session.listed
  /\ Do([session EXCEPT !.pending = FALSE, !.current = session.opened])

(* The sink writes its header again and closes the file.                    *)
CloseFragment ==
  \E n \in session.writing :
    /\ n # session.opened \/ session.recording \notin {"starting", "running"}
    /\ session.recording = "running" => ~session.pending
    /\ session' = [session EXCEPT !.writing = @ \ {n}]
    /\ disk' = [disk EXCEPT ![n].version = 2, ![n].whole = TRUE]
    /\ UNCHANGED <<storage, spent, scenario>>

FragmentClosed ==
  \E n \in session.listed \ session.writing :
    Do([session EXCEPT !.listed = @ \ {n},
                       !.last = IF session.recording \in {"running", "stopping"} THEN n ELSE @,
                       !.current = IF @ = n THEN None ELSE @])

(* An older fragment may still be on its way out.                           *)
RecordingStopped ==
  /\ session.recording = "stopping" /\ session.opened \notin session.writing \cup session.listed
  /\ Do([session EXCEPT !.recording = session.target, !.current = None])

(* An error of the branch, which the runtime hears after its creation, or a *)
(* storage check.                                                           *)
RecordingFails ==
  /\ session.recording \in {"starting", "running"} /\ session.writing \subseteq session.listed
  /\ IF Destination(storage) # "ok" THEN UNCHANGED spent ELSE Spend("failures", scenario.failures)
  /\ session' = [session EXCEPT !.recording = IF @ = "starting" /\ Destination(storage) = "ok"
                                              THEN "failed" ELSE "stopping",
                                !.target = "failed", !.error = TRUE, !.pending = FALSE]
  /\ UNCHANGED <<disk, storage, scenario>>

StreamStopped == session.stream = "stopping" /\ Do([session EXCEPT !.stream = "stopped"])

CaptureStopped ==
  /\ session.capture = "stopping" /\ session.stream = "stopped" /\ ~RecordingActive
  /\ session.listed = {} /\ session.writing = {}
  /\ Do([session EXCEPT !.capture = "stopped"])

StorageChanges ==
  /\ Spend("storage", scenario.changes)
  /\ storage' \in scenario.storages \ {storage}
  /\ UNCHANGED <<session, disk, scenario>>

(* request_shutdown, after a signal; everything is stopped in order.        *)
Terminated(s) == IF s.service = "up" THEN [StopAll(s) EXCEPT !.service = "stopping"] ELSE s

(* The service ends when everything has stopped, or by its deadline.        *)
ServiceEnds(clean) ==
  /\ session.service = "stopping"
  /\ clean => session.capture = "stopped"
  /\ ~clean => Spend("failures", scenario.failures)
  /\ clean => UNCHANGED spent
  /\ session' = [Idle EXCEPT !.service = "down", !.exit = IF clean THEN "clean" ELSE "failed",
                             !.opened = session.opened]
  /\ UNCHANGED <<disk, storage, scenario>>

Recorder ==
  \/ ListFragment \/ RecordingRuns \/ RotationDue \/ Rotated
  \/ CloseFragment \/ FragmentClosed \/ RecordingStopped \/ RecordingFails
  \/ StreamStopped \/ CaptureStopped \/ StorageChanges
=============================================================================
