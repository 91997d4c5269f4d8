----------------------------- MODULE Maintenance -----------------------------
(* The privileged helper (maintenance.py): one fixed action at a time, after*)
(* the media service was stopped over its control socket like by any other  *)
(* client, while the others go on.                                          *)
EXTENDS RecordingLibrary

VARIABLES
  helper,     \* the controller's state and how far perform() is
  lifecycle,  \* who holds the installer's lifecycle lock
  machine     \* on, halting or off

ASSUME LockAssumption == None \notin {"helper", "installer"}

maintenanceVars == <<helper, lifecycle, machine>>

MaintenanceAction == {"media.restart", "system.reboot", "system.shutdown"}
HelperStep ==
  {"idle", "queued", "look", "stop recording", "await recording", "stop stream", "await stream",
   "stop capture", "await stopped", "stop service", "await service", "verify", "act", "await start", "power"}
HelperState ==
  [busy: BOOLEAN, action: MaintenanceAction \cup {None},
   phase: {"idle", "queued", "finalizing", "stopping", "restarting", "complete", "failed"},
   step: HelperStep, expected: Fragment \cup {None}]

HelperIdle == [busy |-> FALSE, action |-> None, phase |-> "idle", step |-> "idle", expected |-> None]

MaintenanceInit == helper = HelperIdle /\ lifecycle = None /\ machine = "on"

Outside == UNCHANGED <<disk, storage, configVars, libraryVars, operation, scenario>>
Quiet == Outside /\ UNCHANGED session

(* Accepted, answered, and only then performed.                             *)
Accept ==
  /\ machine = "on" /\ ~helper.busy
  /\ Spend("actions", scenario.acting)
  /\ \E action \in scenario.actions :
       helper' = [HelperIdle EXCEPT !.busy = TRUE, !.action = action, !.phase = "queued", !.step = "queued"]
  /\ UNCHANGED <<lifecycle, machine>> /\ Quiet

Helper(step) == machine = "on" /\ helper.step = step
Goes(step) == helper' = [helper EXCEPT !.step = step] /\ UNCHANGED <<lifecycle, machine, spent>>

(* Any failure ends the action where it is; the lock is released.           *)
Fails ==
  /\ helper' = [helper EXCEPT !.busy = FALSE, !.phase = "failed", !.step = "idle"]
  /\ lifecycle' = IF helper.step = "queued" THEN lifecycle ELSE None
  /\ UNCHANGED <<machine, spent>>

TakeLifecycle ==
  /\ Helper("queued")
  /\ IF lifecycle # None THEN Fails
     ELSE /\ lifecycle' = "helper"
          /\ helper' = [helper EXCEPT !.step = "look", !.phase = "finalizing"]
          /\ UNCHANGED <<machine, spent>>
  /\ Quiet

(* status and stops are control operations: they wait for the operation     *)
(* lock, and fail by a timeout of two seconds.                              *)
Answering == Up /\ operation = None

Look ==
  /\ Helper("look") /\ Answering
  /\ IF session.recording \notin {"stopped", "running"} \/ session.pending THEN Fails
     ELSE IF session.recording = "stopped" THEN Goes("await recording")
     ELSE IF session.current = None THEN Fails
     ELSE /\ helper' = [helper EXCEPT !.step = "stop recording", !.expected = session.current]
          /\ UNCHANGED <<lifecycle, machine, spent>>
  /\ Quiet

Stops(step, next, s) ==
  /\ Helper(step) /\ Answering
  /\ Goes(next)
  /\ session' = s
  /\ Outside

StopsRecording ==
  \/ /\ Helper("stop recording") /\ Answering /\ session.recording = "starting"
     /\ Fails /\ Quiet
  \/ /\ session.recording # "starting"
     /\ Stops("stop recording", "await recording", StopRecording(session))
StopsStream == Stops("stop stream", "await stream", StopStream(session))
StopsCapture == Stops("stop capture", "await stopped", StopAll(session))

Finalized ==
  session.recording = "stopped" /\ (helper.expected = None \/ session.last = helper.expected)
Troubled == session.error \/ session.recording = "failed"

(* Fault: any stopped recording is the one that was asked for.              *)
AwaitRecordingAny ==
  /\ Helper("await recording") /\ Answering
  /\ IF Troubled THEN Fails
     ELSE session.recording = "stopped"
          /\ helper' = [helper EXCEPT !.step = "stop stream", !.phase = "stopping"]
          /\ UNCHANGED <<lifecycle, machine, spent>>
  /\ Quiet

AwaitRecording ==
  /\ Helper("await recording") /\ Answering
  /\ IF Troubled THEN Fails
     ELSE Finalized
          /\ helper' = [helper EXCEPT !.step = "stop stream", !.phase = "stopping"]
          /\ UNCHANGED <<lifecycle, machine, spent>>
  /\ Quiet

AwaitStream ==
  /\ Helper("await stream") /\ Answering
  /\ IF Troubled THEN Fails ELSE session.stream = "stopped" /\ Goes("stop capture")
  /\ Quiet

AwaitStopped ==
  /\ Helper("await stopped") /\ Answering
  /\ IF Troubled THEN Fails
     ELSE {session.capture, session.stream, session.recording} = {"stopped"} /\ Goes("stop service")
  /\ Quiet

StopService ==
  /\ Helper("stop service")
  /\ Goes("await service")
  /\ session' = Terminated(session)
  /\ Outside

AwaitService == Helper("await service") /\ session.service = "down" /\ Goes("verify") /\ Quiet

(* Fault: whatever way the service has ended, it is down.                   *)
VerifyDown == Helper("verify") /\ session.service = "down" /\ Goes("act") /\ Quiet

(* ActiveState, Result and exit status of the unit.                         *)
Verify ==
  /\ Helper("verify")
  /\ IF session.service = "down" /\ session.exit = "clean"
     THEN helper' = [helper EXCEPT !.step = "act", !.phase = "restarting"]
          /\ UNCHANGED <<lifecycle, machine, spent>>
     ELSE Fails
  /\ Quiet

ActPower ==
  /\ Helper("act") /\ helper.action # "media.restart"
  /\ helper' = [helper EXCEPT !.step = "power"]
  /\ machine' = "halting"
  /\ UNCHANGED <<lifecycle, spent>> /\ Quiet

(* start returns when the service runs, or systemd has started it before.   *)
ActRestart == Helper("act") /\ helper.action = "media.restart" /\ Goes("await start") /\ Quiet

Completed ==
  /\ Helper("await start") /\ Up
  /\ helper' = [helper EXCEPT !.busy = FALSE, !.phase = "complete", !.step = "idle"]
  /\ lifecycle' = None
  /\ UNCHANGED <<machine, spent>> /\ Quiet

(* A command that fails, a status that cannot be had, or a wait that is     *)
(* over before it is answered.                                              *)
HelperGivesUp ==
  /\ machine = "on" /\ helper.step \notin {"idle", "queued", "power"}
  /\ Spend("failures", scenario.failures)
  /\ helper' = [helper EXCEPT !.busy = FALSE, !.phase = "failed", !.step = "idle"]
  /\ lifecycle' = None
  /\ UNCHANGED machine /\ Quiet

(* An installation holds the same lock; its own restarts are in Installer.  *)
InstallerLocks ==
  /\ scenario.installs /\ machine = "on"
  /\ lifecycle' = CASE lifecycle = None -> "installer" [] lifecycle = "installer" -> None [] OTHER -> lifecycle
  /\ lifecycle' # lifecycle
  /\ UNCHANGED <<helper, machine, spent>> /\ Quiet

HelperStepNext ==
  \/ Accept \/ TakeLifecycle \/ Look \/ StopsRecording \/ AwaitRecording
  \/ StopsStream \/ AwaitStream \/ StopsCapture \/ AwaitStopped
  \/ StopService \/ AwaitService \/ Verify \/ ActPower \/ ActRestart \/ Completed
  \/ HelperGivesUp \/ InstallerLocks
=============================================================================
