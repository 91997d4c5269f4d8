----------------------------- MODULE ControlPlane -----------------------------
(* Configuration, library, maintenance and the media service composed: they *)
(* share the recorder, the operation lock and the active configuration.     *)
EXTENDS Maintenance

Scenario ==
  [config: Config, clients: SUBSET Client, offers: SUBSET Offer, storages: SUBSET Storage,
   follows: BOOLEAN,      \* --record-on-start
   commands: SUBSET {"capture", "recording", "stop recording", "stop capture"},
   mutations: SUBSET {"delete", "check", "recover"}, tools: BOOLEAN,
   actions: SUBSET MaintenanceAction, installs: BOOLEAN,
   updates: Nat, failures: Nat, changes: Nat, reads: Nat, mutating: Nat, acting: Nat,
   starts: Nat, crashes: Nat]

ASSUME ScenariosAssumption == \A s \in Scenarios : s \in Scenario

vars == <<session, disk, storage, spent, scenario, configVars, operation, libraryVars, maintenanceVars>>

NotConfig == UNCHANGED <<libraryVars, maintenanceVars>>
NotSession == UNCHANGED <<configVars, operation, libraryVars, maintenanceVars>>

-----------------------------------------------------------------------------
(* Commands of the clients. A start is refused while what is saved is not   *)
(* what is active.                                                          *)
Startable == saved.config = active.config

CommandStartCapture ==
  /\ Unlocked /\ Startable /\ "capture" \in scenario.commands
  /\ StartCapture /\ NotSession

CommandStartRecording ==
  /\ Unlocked /\ Startable /\ "recording" \in scenario.commands
  /\ CanRecord
  /\ Spend("starts", scenario.starts)
  /\ session' = StartRecording(session)
  /\ UNCHANGED <<disk, storage, scenario>> /\ NotSession

CommandStopRecording ==
  /\ Unlocked /\ "stop recording" \in scenario.commands
  /\ session.recording \in {"running", "failed"}
  /\ Do(StopRecording(session)) /\ NotSession

CommandStopCapture ==
  /\ Unlocked /\ "stop capture" \in scenario.commands
  /\ session.capture = "running"
  /\ Do(StopAll(session)) /\ NotSession

(* The service starts capture by itself, if it is configured, in a turn of  *)
(* its own.                                                                 *)
Bootstrap ==
  /\ session.boot /\ Up
  /\ Do(IF active.config.base.mode /\ session.capture = "stopped"
        THEN [session EXCEPT !.boot = FALSE, !.capture = "running", !.follow = TRUE]
        ELSE [session EXCEPT !.boot = FALSE])
  /\ NotSession

MediaFollows == FollowCapture(active.config.base.enabled) /\ NotSession

(* The engine names the file after its own configuration.                   *)
EngineOpensFragment == OpenFragment(engine.directory) /\ NotSession

-----------------------------------------------------------------------------
(* The end of the service takes whatever was in progress with it; systemd   *)
(* starts it again after a failure, or the machine does.                    *)

EndService ==
  /\ \E clean \in BOOLEAN : ServiceEnds(clean)
  /\ (operation' = None /\ LibraryEnds)
  /\ UNCHANGED <<configVars, maintenanceVars>>

ServiceDies ==
  /\ session.service # "down"
  /\ Spend("crashes", scenario.crashes)
  /\ session' = [Idle EXCEPT !.service = "down", !.exit = "failed", !.opened = session.opened]
  /\ operation' = None /\ LibraryEnds
  /\ UNCHANGED <<disk, storage, configVars, maintenanceVars, scenario>>

ServiceStarts ==
  /\ session.service = "down" /\ machine = "on"
  /\ session.exit = "failed" \/ helper.step = "await start"
  /\ session' = [session EXCEPT !.service = "up", !.exit = "clean"]
  /\ Reload(file) /\ safe' = safe
  /\ UNCHANGED <<disk, storage, operation, libraryVars, maintenanceVars, spent, scenario>>

(* The helper's power off or reboot, or a loss of power at any moment; the  *)
(* host starts again.                                                       *)
Off == session' = [Idle EXCEPT !.opened = session.opened]

PowerCycle ==
  /\ IF machine = "halting" THEN UNCHANGED spent /\ UNCHANGED safe /\ Reload(file)
     ELSE /\ Spend("crashes", scenario.crashes)
          /\ \E document \in safe : Reload(document) /\ safe' = {document}
  /\ Off
  /\ operation' = None /\ LibraryEnds
  /\ helper' = HelperIdle /\ lifecycle' = None /\ machine' = "on"
  /\ UNCHANGED <<disk, storage, scenario>>

Init ==
  /\ scenario \in Scenarios
  /\ SessionInit /\ ConfigInit /\ LibraryInit /\ MaintenanceInit
  /\ spent = [updates |-> 0, failures |-> 0, storage |-> 0, reads |-> 0, mutations |-> 0,
              actions |-> 0, starts |-> 0, crashes |-> 0]

Media ==
  \/ Recorder /\ NotSession
  \/ Bootstrap \/ MediaFollows \/ EngineOpensFragment \/ CommandStartCapture \/ CommandStartRecording
  \/ CommandStopRecording \/ CommandStopCapture
  \/ EndService \/ ServiceDies

Next ==
  \/ Update /\ NotConfig
  \/ LibraryStep /\ UNCHANGED maintenanceVars
  \/ HelperStepNext
  \/ Media
  \/ ServiceStarts \/ PowerCycle

Spec == Init /\ [][Next]_vars

-----------------------------------------------------------------------------
LibraryOperation == [kind: {"delete", "check", "recover"}, id: Id, step: {"opened", "allowed"}]
Reading == [id: Id, step: {"opened", "allowed", "read"}]
Worker == [action: {"check", "recover"}, id: Id, dir: Directory,
           step: {"begun", "created", "validated", "linked"}]
Check == [id: Id, state: Outcome, copy: Copy \cup {None}]

TypeOK ==
  /\ session \in Session /\ storage \in Storage
  /\ disk \in [Name -> Entry \cup {None}]
  /\ file \in Document /\ safe \subseteq Document /\ file \in safe
  /\ saved \in Document /\ active \in Document /\ engine \in Config /\ torn \in BOOLEAN
  /\ operation \in {None} \cup UpdateOperation \cup LibraryOperation
  /\ known \in [Client -> Document]
  /\ files \in Seq(Id) /\ Len(files) <= FilesMax
  /\ checks \in Seq(Check) /\ Len(checks) <= ChecksMax
  /\ \A i, j \in 1 .. Len(files) : files[i] = files[j] => i = j
  /\ \A i, j \in 1 .. Len(checks) : checks[i].id = checks[j].id => i = j
  /\ checking \in Id \cup {None} /\ worker \in Worker \cup {None} /\ reading \in Reading \cup {None}
  /\ helper \in HelperState
  /\ lifecycle \in {None, "helper", "installer"} /\ machine \in {"on", "halting"}

(* The configuration file is a register (ConfigRegister): whoever replaces  *)
(* it has read, or written, exactly what is replaced, and what a loss of    *)
(* power may bring back is bounded. This is the revision check, the atomic  *)
(* replacement and the order of saving and answering in                     *)
(* media_control.py and media_config.py, over all interleavings of clients. *)
R == INSTANCE ConfigRegister WITH
       Content <- Document, value <- file, safe <- safe, seen <- known

RegisterSpec == R!Spec

(* "keep" keeps the passphrase of the file, also if an earlier update waits *)
(* for a restart and the running service still uses another one             *)
(* (internal_config_value).                                                 *)
KeptSecretStays ==
  [][Updating("replace") /\ operation.kept /\ file' # file /\ operation' # None
       => file'.config.secret = file.config.secret]_vars

(* What is applied to the running service is synchronized before: no loss   *)
(* of power leaves a service that once ran with a configuration nobody has. *)
AppliedIsDurable == Updating("apply") => safe = {file}

(* What the service gives out as its active configuration is what the       *)
(* runtime and the engine use, whatever fails while it is applied, unless a *)
(* rollback failed since the service was started: then the answers and the  *)
(* engine part until the next change or start.                              *)
ActiveIsUsed == engine = active.config \/ torn

(* The recording directory is never changed under a recording, though       *)
(* --record-on-start, rotation and the startup sequence take no operation   *)
(* lock and a recording may start after the handler has looked.             *)
DirectoryStill == [][engine'.directory # engine.directory => ~RecordingActive']_vars

(* The two together: what an update leaves alone stays as it is.            *)
SettingsLeftAlone == KeptSecretStays /\ DirectoryStill

(* A file a sink has open is neither deleted, nor answered to a reader, nor *)
(* given to a worker: also in the time in which the sink has opened it and  *)
(* the runtime has not heard of it, and in a rotation.                      *)
WritingKept ==
  [][\A n \in session.writing :
       /\ disk'[n] # None
       /\ (reading' # reading /\ reading' # None /\ reading'.step = "read" => reading'.id.name # n)
       /\ (worker = None /\ worker' # None => worker'.id.name # n)]_vars

(* The outcome of the work in progress is never the one that is evicted     *)
(* from the full list of outcomes, nor deleted with its file.               *)
CheckingListed == checking # None => Checked(checking) # {}

(* Nobody deletes or changes the file a recovery copies: what it publishes  *)
(* is a copy of the file that was asked for.                                *)
SourceStands ==
  worker # None /\ worker.step # "begun" => Stands(worker.id)

(* A copy that clients see is complete and validated, and stands beside its *)
(* source, whatever failed or crashed on the way.                           *)
CopiesWhole ==
  \A n \in Fragment : disk[CopyOf(n)] # None =>
    disk[CopyOf(n)].whole /\ (disk[n] # None => disk[n].dir = disk[CopyOf(n)].dir)

(* The machine is only halted with the media service down and to stay down: *)
(* it ended cleanly, and systemd does not start it again.                   *)
PowerAfterClean == machine = "halting" => session.service = "down" /\ session.writing = {}

(* The recording the helper found is closed before it stops anything else,  *)
(* also when clients stop, rotate or restart the recording meanwhile.       *)
FoundRecordingKept ==
  helper.expected # None /\ helper.busy
    /\ helper.step \notin {"stop recording", "await recording"}
  => disk[helper.expected] = None \/ disk[helper.expected].whole

(* The helper holds the installer's lock exactly while it acts, and is busy *)
(* exactly while an action is queued or under way: no failure leaves it     *)
(* locked or busy, and no second action is let in.                          *)
LifecycleHeld ==
  /\ lifecycle = "helper" <=> helper.step \notin {"idle", "queued"}
  /\ helper.busy <=> helper.step # "idle"

(* What clients, the library's worker and the helper share holds together   *)
(* whatever fails between their steps.                                      *)
PlaneConsistent ==
  TypeOK /\ AppliedIsDurable /\ ActiveIsUsed /\ CheckingListed /\ CopiesWhole /\ LifecycleHeld
=============================================================================
