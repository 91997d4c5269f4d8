------------------------------ MODULE Installer ------------------------------
(* The staged installer (installer.py): a read-only plan, and its journaled, *)
(* resumable application by steps any of which may fail or be cut short by a *)
(* crash; the rollback of a failed activation; and uninstallation.           *)
(*                                                                           *)
(* An artifact stands for its payload and so for its digest. A plan is made  *)
(* without the lifecycle lock and may be stale when it is applied. A command *)
(* that fails raises; everything else that stops an operation midway, an     *)
(* operating-system error included, is a crash.                              *)
EXTENDS Naturals, Sequences

CONSTANTS
  Artifact,    \* records: version, lan (its web unit can serve the LAN), maintained
  Config,      \* contents of the media configuration
  Example,     \* the configuration an artifact carries
  Operator,    \* those who run the installer
  None,
  Scenarios    \* what the operators and the host may do, see Scenario

ASSUME ArtifactAssumption ==
  \A a \in Artifact : /\ a.version \in Nat
                      /\ a.lan \in BOOLEAN
                      /\ a.maintained \in BOOLEAN
ASSUME ConfigAssumption == Example \in Config /\ None \notin Config \cup Artifact

Scenario ==
  [installed: Artifact \cup {None},     \* at the start, for use over the loopback
   artifacts: SUBSET {a \in Artifact : a.lan},  \* those the operators have; this code in each
   configs: SUBSET (Config \cup {None}),
   access: SUBSET {"lan", "loopback", None},
   uninstalls: SUBSET BOOLEAN,          \* whether data is removed
   operators: SUBSET Operator,
   operations: Nat, failures: Nat, crashes: Nat,
   events: SUBSET {"signup", "edit", "lose", "damage", "boot"}, happening: Nat]

VARIABLES
  journal,   \* install-state.json, or None
  files,     \* what else is on the disk
  system,    \* what systemd has loaded, enabled and started
  plans,     \* the plan each operator has reviewed
  op,        \* the operation that holds the lifecycle lock, or None
  history,   \* what happened so far, for the properties
  spent,     \* operations, failures, crashes and events so far
  scenario

vars == <<journal, files, system, plans, op, history, spent, scenario>>

-----------------------------------------------------------------------------
(* Types and the initial host.                                              *)

Version == {a.version : a \in Artifact}
Phases == <<"prepared", "packages", "dependencies", "release", "activated", "services", "complete">>
Phase == {Phases[i] : i \in 1 .. 7}
Rank(phase) == CHOOSE i \in 1 .. 7 : Phases[i] = phase

(* The integration files: the two service units, the maintenance units, and *)
(* the users, directories and command of the package.                       *)
Piece == {"units", "maintenance", "tools"}
Pieces == <<"units", "maintenance", "tools">>
Access == {"lan", "loopback"}

(* InstallState; _load_state refuses any other combination.                 *)
JournalRecord ==
  [phase: Phase \cup {"uninstalled"},
   target: Version \cup {None}, installed: Version \cup {None}, previous: Version \cup {None},
   source: Artifact \cup {None}, previousSource: Artifact \cup {None}]

Accepted(j) ==
  /\ CASE j.phase = "uninstalled" -> /\ j.target = None
                                     /\ j.installed = None
                                     /\ j.previousSource = None
                                     /\ j.previous = None <=> j.source = None
       [] j.phase = "complete" -> j.target # None /\ j.target = j.installed
       [] OTHER -> j.target # None /\ j.installed = j.previous
  /\ j.phase # "uninstalled" =>
       /\ j.source # None
       /\ j.previous = None <=> j.previousSource = None

FilesRecord ==
  [release: [Version -> Artifact \cup {None}],
   current: Version \cup {None},
   piece: [Piece -> Artifact \cup {None}],
   access: Access \cup {None},
   dropin: Artifact \cup {None},
   config: Config \cup {None},
   account: BOOLEAN,                 \* the credential
   marker: BOOLEAN,                  \* setup-pending
   owned: SUBSET {"config", "account"},
   backups: SUBSET (Version \X Version \X Config),
   directories: BOOLEAN,             \* private directories, as tmpfiles makes them
   packages: BOOLEAN]

SystemRecord ==
  [units: Artifact \cup {None}, dropin: BOOLEAN,  \* as loaded by systemd
   enabled: BOOLEAN, helper: BOOLEAN,
   running: [code: Artifact, exposed: BOOLEAN] \cup {None}]

Repair == Piece \cup {"current", "web-access", "directories"}

(* What was reviewed, of an installation and of an uninstallation.          *)
Plan ==
  [artifact: {a \in Artifact : a.lan}, mode: {"install", "resume", "upgrade", "repair"},
   access: Access, previousAccess: Access, existing: Version \cup {None},
   supplied: Config \cup {None}, config: Config \cup {None},
   account: BOOLEAN, pending: BOOLEAN, credential: BOOLEAN,
   repairs: SUBSET Repair, packages: BOOLEAN, consents: BOOLEAN, data: {FALSE},
   snapshot: JournalRecord \cup {None}, ready: {TRUE}]
RemovalPlan == [mode: {"uninstall"}, data: BOOLEAN, snapshot: JournalRecord, ready: {TRUE}]

Step ==
  Phase \cup Piece \cup
  {"apt", "probe", "copy", "backup", "directories", "configure", "account", "access", "dropin",
   "owners", "pointer", "reload", "helper", "enable", "restart", "verify", "halt-helper", "halt",
   "disable", "remove-pointer", "undone", "strip", "remove-opt", "remove-run", "forget-units",
   "remove-etc", "remove-var", "uninstalled"}

(* An operation under way: the steps it has left, and whether it is rolling *)
(* back, to which release.                                                  *)
Operation ==
  [plan: Plan \cup RemovalPlan, todo: Seq(Step) \ {<<>>}, undo: BOOLEAN,
   failed: BOOLEAN, restorable: BOOLEAN,
   previous: Version \cup {None}, previousSource: Artifact \cup {None}]

NoFiles ==
  [release |-> [v \in Version |-> None], current |-> None, piece |-> [p \in Piece |-> None],
   access |-> None, dropin |-> None, config |-> None, account |-> FALSE, marker |-> FALSE,
   owned |-> {}, backups |-> {}, directories |-> FALSE, packages |-> FALSE]

NothingLoaded ==
  [units |-> None, dropin |-> FALSE, enabled |-> FALSE, helper |-> FALSE, running |-> None]

(* A completed installation; one from before LAN access has no setting.     *)
InstalledFiles(a) ==
  [NoFiles EXCEPT !.release[a.version] = a, !.current = a.version,
                  !.piece = [p \in Piece |-> IF p = "maintenance" /\ ~a.maintained THEN None ELSE a],
                  !.access = IF a.lan THEN "loopback" ELSE None,
                  !.config = Example, !.account = TRUE, !.owned = {"config", "account"},
                  !.directories = TRUE, !.packages = TRUE]

InstalledSystem(a) ==
  [units |-> a, dropin |-> FALSE, enabled |-> TRUE, helper |-> a.maintained,
   running |-> [code |-> a, exposed |-> FALSE]]

Journal(phase, target, installed, previous, source, previousSource) ==
  [phase |-> phase, target |-> target, installed |-> installed, previous |-> previous,
   source |-> source, previousSource |-> previousSource]

ASSUME ScenarioAssumption == Scenarios \subseteq Scenario
ASSUME NoneAssumption ==
  /\ None \notin Version /\ None \notin Access /\ None \notin JournalRecord
  /\ None \notin Plan /\ None \notin RemovalPlan /\ None \notin Operation
  /\ None \notin [code: Artifact, exposed: BOOLEAN]

-----------------------------------------------------------------------------
(* The plan.                                                                *)

Unfinished == journal # None /\ journal.phase \notin {"complete", "uninstalled"}
Uninstalled == journal # None /\ journal.phase = "uninstalled"
Complete == journal # None /\ journal.phase = "complete"

(* Nothing was ever completed under this journal.                           *)
NeverInstalled(j) ==
  j # None => j.phase \notin {"complete", "uninstalled"} /\ j.installed = None
Fresh == NeverInstalled(journal)

PhaseDone(phase) == Unfinished /\ Rank(journal.phase) >= Rank(phase)

(* Paths of a program no journal accounts for.                              *)
ProgramPresent ==
  \/ \E v \in Version : files.release[v] # None
  \/ \E p \in Piece : files.piece[p] # None
  \/ files.current # None
  \/ files.dropin # None
  \/ files.directories

DataPresent ==
  files.config # None \/ files.account \/ files.marker \/ files.access # None \/ files.backups # {}

Conflicts == (journal = None /\ (ProgramPresent \/ DataPresent)) \/ (Uninstalled /\ ProgramPresent)

ReadAccess == IF files.access = None THEN "loopback" ELSE files.access

Selected(asked) ==
  IF asked # None THEN asked
  ELSE IF files.access # None \/ ~Fresh THEN ReadAccess ELSE "lan"

(* _web_access_payload: the drop-in made from an artifact's web unit.       *)
DropIn(access, a) == IF access = "lan" THEN a ELSE None
Servable(access, a) == access = "lan" => a.lan

PieceOf(p, a) == IF p = "maintenance" /\ ~a.maintained THEN None ELSE a

RuntimeRepairs(a, access) ==
  {r \in {"web-access"} : access # ReadAccess}
    \cup (IF Complete /\ journal.installed = a.version
          THEN {r \in {"current"} : files.current # a.version}
                 \cup {p \in Piece : files.piece[p] # PieceOf(p, a)}
                 \cup {r \in {"web-access"} : files.dropin # DropIn(access, a)}
                 \cup {r \in {"directories"} : ~files.directories}
          ELSE {})

(* The payload a release directory holds now.                               *)
Fingerprint(version) == files.release[version]

(* A release that is there is the journaled one.                            *)
ReleasesSound(a) ==
  /\ Fingerprint(a.version) \in {None, a}
  /\ (journal # None /\ ~Uninstalled /\ journal.installed \notin {None, a.version}) =>
       Fingerprint(journal.installed) = IF Complete THEN journal.source ELSE journal.previousSource

SetupPending == ~files.account /\ (files.marker \/ Fresh)

(* credential: whether the operator brings the first credential.            *)
ModeOf(a, access, credential) ==
  CASE journal = None -> "install"
    [] Uninstalled ->
         IF journal.previous = a.version /\ journal.source # a THEN "blocked" ELSE "install"
    [] Unfinished ->
         IF journal.target = a.version /\ journal.source = a THEN "resume" ELSE "blocked"
    [] OTHER ->
         IF journal.installed # a.version THEN "upgrade"
         ELSE IF journal.source # a \/ Fingerprint(a.version) # a THEN "blocked"
         ELSE IF /\ files.packages
                 /\ RuntimeRepairs(a, access) = {}
                 /\ files.owned = {"config", "account"}
                 /\ files.account \/ (SetupPending /\ ~credential)
              THEN "noop" ELSE "repair"

(* The configuration given, or the artifact's own for a fresh installation. *)
Supplied(given) == IF given = None /\ Fresh /\ files.config = None THEN Example ELSE given

ConfigFits(given, mode) ==
  LET supplied == Supplied(given) IN
  /\ (supplied # None /\ files.config # None) => supplied = files.config
  /\ (mode = "install" /\ supplied = None) => (Uninstalled /\ files.config # None)
  /\ (Uninstalled /\ files.config # None) => supplied = None
  /\ mode = "upgrade" => supplied = None
  /\ mode \in {"upgrade", "repair", "noop"} => files.config # None

PlanOf(a, given, asked, credential) ==
  LET access == Selected(asked)
      mode == ModeOf(a, access, credential)
  IN [artifact |-> a, mode |-> mode, access |-> access, previousAccess |-> ReadAccess,
      existing |-> IF journal = None \/ Uninstalled THEN None ELSE journal.installed,
      supplied |-> Supplied(given), config |-> files.config, account |-> files.account,
      pending |-> SetupPending, credential |-> credential /\ ~files.account,
      repairs |-> RuntimeRepairs(a, access), packages |-> ~files.packages,
      consents |-> asked = "lan" \/ (asked = None /\ Fresh /\ files.access = None),
      data |-> FALSE, snapshot |-> journal,
      ready |-> /\ mode # "blocked"
                /\ ~Conflicts
                /\ ReleasesSound(a)
                /\ Servable(access, a)
                /\ ConfigFits(given, mode)
                /\ files.account \/ SetupPending]

UninstallPlan(data) ==
  [mode |-> "uninstall", data |-> data, snapshot |-> journal,
   ready |-> journal # None /\ ~Conflicts]

-----------------------------------------------------------------------------
(* The steps of an operation, in order; a phase's name records that phase.  *)

Optional(condition, steps) == IF condition THEN steps ELSE <<>>

PieceSteps(repairs) ==
  Optional("units" \in repairs, <<"units">>)
    \o Optional("maintenance" \in repairs, <<"maintenance">>)
    \o Optional("tools" \in repairs, <<"tools">>)

ReleaseSteps ==
  <<"copy", "backup">> \o Pieces \o
  <<"directories", "configure", "account", "access", "dropin", "owners", "release">>
ServiceSteps == <<"reload", "helper", "enable", "restart", "verify", "services">>

(* Fault: a new drop-in alone is not loaded.                                *)
RepairStepsUnloaded(repairs) ==
  Optional("current" \in repairs, <<"pointer">>)
    \o PieceSteps(repairs)
    \o Optional("directories" \in repairs, <<"directories">>)
    \o Optional("web-access" \in repairs, <<"access", "dropin">>)
    \o <<"account", "owners">>
    \o Optional(repairs \cap Piece # {}, <<"reload">>)
    \o <<"helper", "restart", "verify">>

RepairSteps(repairs) ==
  Optional("current" \in repairs, <<"pointer">>)
    \o PieceSteps(repairs)
    \o Optional("directories" \in repairs, <<"directories">>)
    \o Optional("web-access" \in repairs, <<"access", "dropin">>)
    \o <<"account", "owners">>
    \o Optional(repairs \cap (Piece \cup {"web-access"}) # {}, <<"reload">>)
    \o <<"helper", "restart", "verify">>

InstallSteps(plan) ==
  Optional(~Unfinished, <<"prepared">>)
    \o Optional(plan.packages, <<"apt">>)
    \o Optional(~PhaseDone("packages"), <<"packages">>)
    \o <<"probe">>
    \o (IF plan.mode = "repair" THEN RepairSteps(plan.repairs)
        ELSE Optional(~PhaseDone("dependencies"), <<"dependencies">>)
               \o Optional(~PhaseDone("release"), ReleaseSteps)
               \o Optional(~PhaseDone("activated"), <<"pointer", "activated">>)
               \o Optional(~PhaseDone("services"), ServiceSteps))
    \o <<"complete">>

UninstallSteps(data) ==
  <<"halt-helper", "disable", "strip", "remove-opt", "remove-run", "forget-units">>
    \o (IF data THEN <<"remove-etc", "remove-var">> ELSE <<"uninstalled">>)

(* _rollback_activation, with a previous release to return to or without.   *)
RestoreSteps ==
  <<"halt-helper", "halt">> \o Pieces \o
  <<"access", "dropin", "pointer", "reload", "helper", "enable", "restart", "verify", "undone">>
WithdrawSteps == <<"halt-helper", "halt", "disable", "remove-pointer", "undone">>

At(step) == op # None /\ Head(op.todo) = step
Advance == op' = [op EXCEPT !.todo = Tail(@)]

(* The release a step installs, and the access it sets.                     *)
Subject == IF op.undo THEN op.previousSource ELSE op.plan.artifact
Goal == IF op.undo THEN op.plan.previousAccess ELSE op.plan.access

(* Fault: the release to return to is bound to the new payload.             *)
EstablishedAnew(j) == Journal(j, op.plan.artifact.version, op.previous, op.previous,
                              op.plan.artifact, IF op.previous = None THEN None ELSE op.plan.artifact)

Established(j) == Journal(j, op.plan.artifact.version, op.previous, op.previous,
                          op.plan.artifact, op.previousSource)

-----------------------------------------------------------------------------
(* An operator plans, and applies what was reviewed.                        *)

MakePlan(o) ==
  /\ o \in scenario.operators /\ plans[o] = None
  /\ spent.operations < scenario.operations
  /\ \/ \E a \in scenario.artifacts, given \in scenario.configs, asked \in scenario.access,
           credential \in BOOLEAN :
          LET plan == PlanOf(a, given, asked, credential)
          IN /\ plan.ready /\ plan.mode # "noop"
             /\ plans' = [plans EXCEPT ![o] = plan]
     \/ \E data \in scenario.uninstalls :
          LET plan == UninstallPlan(data)
          IN /\ plan.ready
             /\ plans' = [plans EXCEPT ![o] = plan]
  /\ spent' = [spent EXCEPT !.operations = @ + 1]
  /\ UNCHANGED <<journal, files, system, op, history, scenario>>

AccountAsPlanned(plan) ==
  IF plan.account THEN files.account
  ELSE /\ ~files.account
       /\ plan.pending
       /\ files.marker \/ NeverInstalled(plan.snapshot)

(* Fault: the journal is not read again under the lock.                     *)
StillAsPlannedUnread(plan) ==
  /\ ~Conflicts
  /\ plan.mode # "uninstall" =>
       /\ ReadAccess = plan.previousAccess
       /\ plan.config # None => files.config = plan.config
       /\ AccountAsPlanned(plan)
       /\ plan.mode = "repair" => Fingerprint(plan.artifact.version) = plan.artifact

StillAsPlanned(plan) ==
  /\ journal = plan.snapshot
  /\ ~Conflicts
  /\ plan.mode # "uninstall" =>
       /\ ReadAccess = plan.previousAccess
       /\ plan.config # None => files.config = plan.config
       /\ AccountAsPlanned(plan)
       /\ plan.mode = "repair" => Fingerprint(plan.artifact.version) = plan.artifact

(* The lifecycle lock is taken without waiting, and a crash gives it back.  *)
Unlocked == op = None

(* A plan is applied once.                                                  *)
Apply(o) ==
  /\ plans[o] # None /\ Unlocked
  /\ plans' = [plans EXCEPT ![o] = None]
  /\ LET plan == plans[o] IN
     IF ~StillAsPlanned(plan) THEN UNCHANGED <<op, history>>
     ELSE IF plan.mode = "uninstall"
     THEN /\ op' = [plan |-> plan, todo |-> UninstallSteps(plan.data), undo |-> FALSE,
                    failed |-> FALSE, restorable |-> TRUE, previous |-> None, previousSource |-> None]
          /\ history' = [history EXCEPT !.removing = TRUE]
     ELSE /\ op' = [plan |-> plan, todo |-> InstallSteps(plan), undo |-> FALSE,
                    failed |-> FALSE, restorable |-> TRUE, previous |-> plan.existing,
                    previousSource |-> IF Unfinished THEN journal.previousSource
                                       ELSE IF plan.existing # None THEN journal.source ELSE None]
          /\ history' = [history EXCEPT
                             !.consent = @ \/ plan.consents,
                             !.contested = @ \/ Fingerprint(plan.artifact.version)
                                                  \notin {None, plan.artifact}]
  /\ UNCHANGED <<journal, files, system, spent, scenario>>

-----------------------------------------------------------------------------
(* The journal.                                                             *)

Record(phase) ==
  /\ At(phase)
  /\ journal' = Established(phase)
  /\ Advance
  /\ history' = IF phase = "release" THEN [history EXCEPT !.undone = FALSE] ELSE history
  /\ UNCHANGED <<files, system, plans, spent, scenario>>

RecordComplete ==
  /\ At("complete")
  /\ journal' = [Established("complete") EXCEPT !.installed = op.plan.artifact.version]
  /\ op' = None
  /\ history' = [history EXCEPT !.completed = TRUE, !.established = TRUE,
                             !.damaged = @ /\ op.plan.mode = "resume",
                             !.removing = @ /\ op.plan.mode \in {"repair", "resume"}]
  /\ UNCHANGED <<files, system, plans, spent, scenario>>

-----------------------------------------------------------------------------
(* Steps of an installation, a repair and a rollback.                       *)

Write(f) ==
  /\ files' = f
  /\ Advance
  /\ UNCHANGED <<journal, system, plans, history, spent, scenario>>

InstallPackages == At("apt") /\ Write([files EXCEPT !.packages = TRUE])

(* The probe after packages finds the elements they provide.                *)
Validate == At("probe") /\ Write(files)

CopyRelease ==
  /\ At("copy")
  /\ files.release[op.plan.artifact.version] \in {None, op.plan.artifact}
  /\ Write([files EXCEPT !.release[op.plan.artifact.version] = op.plan.artifact])

Backup == <<op.previous, op.plan.artifact.version, op.plan.config>>

BackUp ==
  /\ At("backup")
  /\ IF op.previous \in {None, op.plan.artifact.version} THEN Write(files)
     ELSE /\ op.plan.config # None
          /\ Backup \in files.backups \/ files.config = op.plan.config
          /\ Write([files EXCEPT !.backups = @ \cup {Backup}])

Integrate(p) == At(p) /\ Write([files EXCEPT !.piece[p] = PieceOf(p, Subject)])

MakeDirectories == At("directories") /\ Write([files EXCEPT !.directories = TRUE])

(* Fault: the configuration of the artifact replaces the one that is there. *)
ConfigureAnew ==
  /\ At("configure")
  /\ Write([files EXCEPT !.config = IF op.plan.supplied = None THEN Example ELSE op.plan.supplied])

Configure ==
  /\ At("configure")
  /\ IF files.config # None THEN Write(files)
     ELSE /\ op.plan.supplied # None
          /\ Write([files EXCEPT !.config = op.plan.supplied, !.owned = @ \ {"config"}])

(* Fault: without an account, creation is always opened.                    *)
ReopenableAlways == TRUE
Reopenable == files.marker \/ NeverInstalled(op.plan.snapshot)

(* A first credential is on the disk before the marker is taken away; what  *)
(* is cut short in between leaves both.                                     *)
WriteCredential ==
  /\ At("account")
  /\ ~files.account /\ files.marker /\ op.plan.credential
  /\ files' = [files EXCEPT !.account = TRUE, !.owned = @ \ {"account"}]
  /\ UNCHANGED <<journal, system, plans, op, history, spent, scenario>>

InstallAccount ==
  /\ At("account")
  /\ \/ /\ files.account
        /\ Write([files EXCEPT !.marker = @ /\ ~op.plan.credential])
     \/ /\ ~files.account /\ ~files.marker /\ op.plan.credential
        /\ Write([files EXCEPT !.account = TRUE, !.owned = @ \ {"account"}])
     \/ /\ ~files.account /\ ~op.plan.credential /\ Reopenable
        /\ Write([files EXCEPT !.marker = TRUE,
                               !.owned = IF files.marker THEN @ ELSE @ \ {"account"}])

SetAccess ==
  /\ At("access")
  /\ Servable(Goal, Subject)
  /\ Write([files EXCEPT !.access = Goal])

SetDropIn == At("dropin") /\ Write([files EXCEPT !.dropin = DropIn(files.access, Subject)])

RepairOwners ==
  /\ At("owners")
  /\ files.config # None /\ (files.account \/ files.marker) /\ files.directories
  /\ Write([files EXCEPT !.owned = {"config", "account"}])

SetCurrent == At("pointer") /\ Write([files EXCEPT !.current = Subject.version])
RemoveCurrent == At("remove-pointer") /\ Write([files EXCEPT !.current = None])

(* The web unit starts what current points to; a release from before LAN    *)
(* access does not know the arguments of the drop-in.                       *)
Started(units, dropin) ==
  IF /\ units # None
     /\ files.current # None
     /\ files.release[files.current] # None
     /\ dropin => files.release[files.current].lan
  THEN [code |-> files.release[files.current], exposed |-> dropin]
  ELSE None

Systemd(s) ==
  /\ system' = s
  /\ UNCHANGED <<journal, files, plans, history, spent, scenario>>

Loaded == [system EXCEPT !.units = files.piece["units"], !.dropin = files.dropin # None]

ReloadUnits ==
  /\ At("reload")
  /\ Systemd(Loaded)
  /\ IF op.undo /\ ~op.restorable THEN op' = [op EXCEPT !.todo = <<"undone">>] ELSE Advance

ActivateHelper ==
  /\ At("helper")
  /\ Systemd([system EXCEPT !.helper = @ \/ Subject.maintained])
  /\ Advance

EnableUnits == At("enable") /\ Systemd([system EXCEPT !.enabled = TRUE]) /\ Advance

RestartUnits ==
  /\ At("restart")
  /\ Systemd([system EXCEPT !.running = Started(system.units, system.dropin)])
  /\ Advance

RequireActive == At("verify") /\ system.running # None /\ Systemd(system) /\ Advance

HaltHelper == At("halt-helper") /\ Systemd([system EXCEPT !.helper = FALSE]) /\ Advance
HaltUnits == At("halt") /\ Systemd([system EXCEPT !.running = None]) /\ Advance
(* Fault: disabled services run on.                                         *)
DisableUnitsRunning == At("disable") /\ Systemd([system EXCEPT !.enabled = FALSE]) /\ Advance

DisableUnits ==
  At("disable") /\ Systemd([system EXCEPT !.enabled = FALSE, !.running = None]) /\ Advance

-----------------------------------------------------------------------------
(* A step that fails.                                                       *)

Commands ==
  {"apt", "probe", "directories", "access", "owners", "pointer", "reload", "helper", "enable",
   "restart", "verify", "halt-helper", "halt", "disable", "remove-pointer", "forget-units"}

Refused ==
  \/ At("copy") /\ files.release[op.plan.artifact.version] \notin {None, op.plan.artifact}
  \/ /\ At("backup") /\ op.previous \notin {None, op.plan.artifact.version}
     /\ op.plan.config = None \/ (Backup \notin files.backups /\ files.config # op.plan.config)
  \/ At("configure") /\ files.config = None /\ op.plan.supplied = None
  \/ At("account") /\ ~files.account /\ ~op.plan.credential /\ ~Reopenable
  \/ At("access") /\ ~Servable(Goal, Subject)
  \/ At("owners") /\ (files.config = None \/ ~(files.account \/ files.marker) \/ ~files.directories)
  \/ At("verify") /\ system.running = None

Raising ==
  \/ Refused /\ UNCHANGED spent
  \/ /\ op # None /\ Head(op.todo) \in Commands
     /\ spent.failures < scenario.failures
     /\ spent' = [spent EXCEPT !.failures = @ + 1]

(* What remains of a rollback after a step of it failed: without its files, *)
(* its access or its pointer the previous release is not started.           *)
Remaining(step) ==
  CASE step = "access" -> Tail(Tail(op.todo))
    [] step \in {"reload", "restart"} -> <<"undone">>
    [] OTHER -> Tail(op.todo)

RollbackStepFails ==
  /\ op # None /\ op.undo
  /\ Raising
  /\ op' = [op EXCEPT !.failed = TRUE,
                      !.restorable = @ /\ Head(op.todo) \notin {"access", "pointer"},
                      !.todo = Remaining(Head(op.todo))]
  /\ UNCHANGED <<journal, files, system, plans, history, scenario>>

(* Only a failed activation is rolled back, and a repair only if it was to  *)
(* change the access.                                                       *)
RolledBack ==
  IF op.plan.mode = "repair"
  THEN Head(op.todo) \in {"restart", "verify"} /\ op.plan.access # op.plan.previousAccess
  ELSE op.plan.mode # "uninstall" /\ Head(op.todo) \in {"reload", "helper", "enable", "restart", "verify"}

Restorable == op.previous # None /\ Fingerprint(op.previous) = op.previousSource

ActivationFails ==
  /\ op # None /\ ~op.undo /\ RolledBack
  /\ Raising
  /\ op' = [op EXCEPT !.undo = TRUE,
                      !.failed = op.previous # None /\ ~Restorable,
                      !.todo = IF Restorable THEN RestoreSteps ELSE WithdrawSteps]
  /\ history' = [history EXCEPT !.undone = TRUE]
  /\ UNCHANGED <<journal, files, system, plans, scenario>>

(* Packages that were installed stay.                                       *)
OperationFails ==
  /\ op # None /\ ~op.undo /\ ~RolledBack
  /\ Raising
  /\ op' = None
  /\ files' \in {files} \cup (IF At("apt") THEN {[files EXCEPT !.packages = TRUE]} ELSE {})
  /\ UNCHANGED <<journal, system, plans, history, scenario>>

RecordRollback ==
  /\ At("undone")
  /\ journal' = IF op.plan.mode = "repair"
                THEN IF op.failed THEN journal ELSE op.plan.snapshot
                ELSE IF op.previous # None /\ ~op.failed
                THEN Journal("complete", op.previous, op.previous, op.previous,
                             op.previousSource, op.previousSource)
                ELSE Established("release")
  /\ history' = [history EXCEPT !.undone = op.failed]
  /\ op' = None
  /\ UNCHANGED <<files, system, plans, spent, scenario>>

-----------------------------------------------------------------------------
(* Uninstallation: the services are stopped before anything is removed, and *)
(* trees are removed entry by entry.                                        *)

Removing(f) == files' = f /\ UNCHANGED <<journal, system, plans, history, spent, scenario>>

Strip ==
  /\ At("strip")
  /\ \/ \E p \in Piece : /\ files.piece[p] # None
                        /\ Removing([files EXCEPT !.piece[p] = None]) /\ UNCHANGED op
     \/ /\ \A p \in Piece : files.piece[p] = None
        /\ Removing([files EXCEPT !.dropin = None]) /\ Advance

RemoveProgram ==
  /\ At("remove-opt")
  /\ \/ \E v \in Version : /\ files.release[v] # None
                          /\ Removing([files EXCEPT !.release[v] = None]) /\ UNCHANGED op
     \/ /\ files.current # None
        /\ Removing([files EXCEPT !.current = None]) /\ UNCHANGED op
     \/ /\ \A v \in Version : files.release[v] = None
        /\ files.current = None
        /\ Removing(files) /\ Advance

RemoveRun == At("remove-run") /\ Removing([files EXCEPT !.directories = FALSE]) /\ Advance
ForgetUnits == At("forget-units") /\ Systemd(Loaded) /\ Advance

RemoveSettings ==
  /\ At("remove-etc")
  /\ \/ files.config # None /\ Removing([files EXCEPT !.config = None]) /\ UNCHANGED op
     \/ files.account /\ Removing([files EXCEPT !.account = FALSE]) /\ UNCHANGED op
     \/ files.marker /\ Removing([files EXCEPT !.marker = FALSE]) /\ UNCHANGED op
     \/ files.access # None /\ Removing([files EXCEPT !.access = None]) /\ UNCHANGED op
     \/ /\ files.config = None /\ ~files.account /\ ~files.marker /\ files.access = None
        /\ Removing([files EXCEPT !.owned = {}]) /\ Advance

(* completed: since there was no data; established: and not uninstalled since.*)
Purged == [completed |-> FALSE, established |-> FALSE, consent |-> FALSE, undone |-> FALSE, damaged |-> FALSE,
           lost |-> FALSE, removing |-> FALSE, contested |-> FALSE]

RemoveState ==
  /\ At("remove-var")
  /\ \/ files.backups # {} /\ files' = [files EXCEPT !.backups = {}] /\ UNCHANGED <<journal, op>>
     \/ journal # None /\ journal' = None /\ UNCHANGED <<files, op>>
     \/ files.backups = {} /\ journal = None /\ op' = None /\ UNCHANGED <<journal, files>>
  /\ history' = IF files'.backups = {} /\ journal' = None THEN Purged ELSE history
  /\ UNCHANGED <<system, plans, spent, scenario>>

(* The release that was last completed stays bound to its payload.          *)
RecordUninstalled ==
  /\ At("uninstalled")
  /\ LET last == IF journal.installed # None THEN journal.installed ELSE journal.previous
     IN journal' = Journal("uninstalled", None, None, last,
                           IF last = None THEN None
                           ELSE IF Unfinished THEN journal.previousSource ELSE journal.source, None)
  /\ history' = [history EXCEPT !.removing = FALSE, !.established = FALSE, !.undone = FALSE,
                             !.contested = FALSE]
  /\ op' = None
  /\ UNCHANGED <<files, system, plans, spent, scenario>>

-----------------------------------------------------------------------------
(* The host: crashes, and what happens between operations.                  *)

Crash ==
  /\ op # None /\ spent.crashes < scenario.crashes
  /\ op' = None
  /\ spent' = [spent EXCEPT !.crashes = @ + 1]
  /\ UNCHANGED <<journal, files, system, plans, history, scenario>>

Happens(event) ==
  /\ event \in scenario.events /\ spent.events < scenario.happening
  /\ spent' = [spent EXCEPT !.events = @ + 1]
  /\ UNCHANGED <<journal, plans, scenario>>

(* The host goes down, and the enabled units start from what is on the disk.*)
(* Every write before it is there, as after a restart in good order: a file *)
(* is renamed into place without its directory being synced, and a release  *)
(* is copied without a sync, so a loss of power may undo more.              *)
Reboot ==
  /\ Happens("boot")
  /\ op' = None
  /\ system' = [Loaded EXCEPT !.running = IF system.enabled
                                          THEN Started(files.piece["units"], files.dropin # None)
                                          ELSE None]
  /\ UNCHANGED <<files, history>>

(* The running web service creates the account, or has the media service    *)
(* write another configuration.                                             *)
SignUp ==
  /\ Happens("signup")
  /\ system.running # None /\ files.marker /\ ~files.account
  /\ files' = [files EXCEPT !.account = TRUE, !.marker = FALSE]
  /\ UNCHANGED <<system, op, history>>

(* A web service that starts, or that still waits for the account and is    *)
(* asked to create it, removes a marker left beside a credential.           *)
FinishSetup ==
  /\ system.running # None /\ files.account /\ files.marker
  /\ files' = [files EXCEPT !.marker = FALSE]
  /\ UNCHANGED <<journal, system, plans, op, history, spent, scenario>>

EditConfig ==
  /\ Happens("edit")
  /\ system.running # None /\ files.config # None
  /\ \E c \in Config \ {files.config} : files' = [files EXCEPT !.config = c]
  /\ UNCHANGED <<system, op, history>>

(* Between operations something is deleted by hand.                         *)
Damage ==
  /\ Happens("damage")
  /\ op = None /\ \A o \in Operator : plans[o] = None
  /\ files' \in {[files EXCEPT !.current = None], [files EXCEPT !.directories = FALSE]}
                \cup {[files EXCEPT !.piece[p] = None] : p \in Piece}
  /\ history' = [history EXCEPT !.damaged = TRUE]
  /\ UNCHANGED <<system, op>>

LoseAccount ==
  /\ Happens("lose")
  /\ files.account
  /\ files' = [files EXCEPT !.account = FALSE]
  /\ history' = [history EXCEPT !.lost = TRUE]
  /\ UNCHANGED <<system, op>>

-----------------------------------------------------------------------------
Init ==
  /\ scenario \in Scenarios
  /\ LET a == scenario.installed IN
     IF a = None
     THEN journal = None /\ files = NoFiles /\ system = NothingLoaded /\ history = Purged
     ELSE /\ journal = Journal("complete", a.version, a.version, None, a, None)
          /\ files = InstalledFiles(a)
          /\ system = InstalledSystem(a)
          /\ history = [Purged EXCEPT !.completed = TRUE, !.established = TRUE]
  /\ plans = [o \in Operator |-> None]
  /\ op = None
  /\ spent = [operations |-> 0, failures |-> 0, crashes |-> 0, events |-> 0]

Installation ==
  \/ \E phase \in Phase \ {"complete"} : Record(phase)
  \/ RecordComplete
  \/ InstallPackages
  \/ Validate
  \/ CopyRelease
  \/ BackUp
  \/ \E p \in Piece : Integrate(p)
  \/ MakeDirectories
  \/ Configure
  \/ WriteCredential
  \/ InstallAccount
  \/ SetAccess
  \/ SetDropIn
  \/ RepairOwners
  \/ SetCurrent
  \/ RemoveCurrent
  \/ ReloadUnits
  \/ ActivateHelper
  \/ EnableUnits
  \/ RestartUnits
  \/ RequireActive
  \/ HaltHelper
  \/ HaltUnits
  \/ DisableUnits
  \/ RecordRollback

Removal ==
  \/ Strip \/ RemoveProgram \/ RemoveRun \/ ForgetUnits
  \/ RemoveSettings \/ RemoveState \/ RecordUninstalled

Host ==
  \/ RollbackStepFails \/ ActivationFails \/ OperationFails
  \/ Crash \/ Reboot \/ SignUp \/ FinishSetup \/ EditConfig \/ Damage \/ LoseAccount

Next == (\E o \in Operator : MakePlan(o) \/ Apply(o)) \/ Installation \/ Removal \/ Host

Spec == Init /\ [][Next]_vars

-----------------------------------------------------------------------------
(* Properties.                                                              *)

(* Every journal, file and service has the shape the code gives it.         *)
TypeOK ==
  /\ journal \in JournalRecord \cup {None}
  /\ files \in FilesRecord
  /\ system \in SystemRecord
  /\ plans \in [Operator -> Plan \cup RemovalPlan \cup {None}]
  /\ op \in Operation \cup {None}
  /\ history \in [completed: BOOLEAN, established: BOOLEAN, consent: BOOLEAN, undone: BOOLEAN,
                  damaged: BOOLEAN, lost: BOOLEAN, removing: BOOLEAN, contested: BOOLEAN]
  /\ spent \in [operations: Nat, failures: Nat, crashes: Nat, events: Nat]
  /\ scenario \in Scenario

(* Whatever is interrupted, the journal that is left is one that _load_state*)
(* accepts; a refused journal ends all planning.                            *)
JournalAccepted == journal # None => Accepted(journal)

(* What a completed journal names is what is there: the release, the pointer*)
(* to it, its integration files and drop-in, the settings with their owners,*)
(* and its services, running as the files on the disk say. The account may  *)
(* have been lost since, which no installation can help.                    *)
Whole(v, a) ==
  /\ files.release[v] = a /\ files.current = v
  /\ \A p \in Piece : files.piece[p] = PieceOf(p, a)
  /\ files.dropin = DropIn(ReadAccess, a)
  /\ files.config # None /\ (files.account \/ files.marker \/ history.lost)
  /\ files.owned = {"config", "account"} /\ files.directories
  /\ system.enabled /\ (a.maintained => system.helper)
  /\ system.running = [code |-> a, exposed |-> ReadAccess = "lan"]

(* Also after crashes, failed steps and successful rollbacks, an            *)
(* installation recorded as complete is whole. After a rollback that failed *)
(* or was cut short see CompleteIsWhole. An uninstallation that was begun   *)
(* and not finished excepts what follows until all is laid down anew: a     *)
(* repair or a resumed operation records completion over units it left      *)
(* disabled.                                                                *)
CompleteUnlessUndone ==
  (Complete /\ ~history.damaged /\ ~history.removing /\ ~history.undone) =>
    Whole(journal.installed, journal.source)

(* The same with no exception for rollbacks: the same artifact repairs and  *)
(* resumes an interrupted operation (docs/INSTALLATION.md).                 *)
CompleteIsWhole ==
  (Complete /\ ~history.damaged /\ ~history.removing) => Whole(journal.installed, journal.source)

(* While a version transition is unfinished, the release to return to is    *)
(* there with the payload the journal bound it to, stale plans or not,      *)
(* unless an uninstallation was begun, which may have taken it away.        *)
RollbackPossible ==
  (Unfinished /\ journal.installed # None /\ ~history.removing) =>
    files.release[journal.installed] = journal.previousSource

(* No version is activated over another one without a backup of the         *)
(* configuration, also if the transition was interrupted and resumed,       *)
(* unless an uninstallation was begun, which may have removed the data.     *)
TransitionBackedUp ==
  (/\ journal # None /\ ~Uninstalled /\ Rank(journal.phase) >= Rank("release")
   /\ journal.previous \notin {None, journal.target}
   /\ ~history.removing) =>
    \E c \in Config : <<journal.previous, journal.target, c>> \in files.backups

(* The web GUI is reachable from the LAN only if an operator asked for it or*)
(* saw it in the plan of a fresh installation; not by an upgrade, a resumed *)
(* operation, a rollback or a reboot in the middle of one.                  *)
ExposureAsked == (system.running # None /\ system.running.exposed) => history.consent

(* An unfinished operation can be resumed with its artifact, wherever it was*)
(* interrupted; it must not become an unmanaged installation. Excepted are  *)
(* an installation of which an uninstallation removed a part, an established*)
(* account that was lost, and a stale plan applied to a version whose       *)
(* directory held another payload by then, which is not looked at again     *)
(* before the journal is written.                                           *)
InterruptedCanResume ==
  (/\ Unfinished /\ op = None
   /\ ~history.removing /\ ~history.lost /\ ~history.contested) =>
    LET plan == PlanOf(journal.source, None, None, FALSE)
    IN plan.ready /\ plan.mode = "resume"

(* What is on the disk at any moment of any operation, crash or rollback is *)
(* something the installer can go on from, and exposes nothing unasked.     *)
DiskSound ==
  /\ TypeOK /\ JournalAccepted
  /\ RollbackPossible /\ TransitionBackedUp
  /\ ExposureAsked

(* The configuration is replaced by the media service and removed with the  *)
(* data, and by nothing else: not by reinstalling, resuming or rolling back.*)
ConfigKept ==
  [][(files.config # None /\ files'.config # files.config) =>
       \/ files'.config = None /\ op # None /\ op.plan.data
       \/ spent'.events > spent.events]_vars

(* Once an installation was completed, account creation is not opened again *)
(* while its data is kept, though the account is lost at any moment. Except *)
(* after an uninstallation that keeps the data: a reinstallation cut short  *)
(* has a journal that names no installation, and resuming it without an     *)
(* account opens creation (docs/INSTALLATION.md:226 promises otherwise).    *)
RegistrationStaysClosed ==
  [][(~files.marker /\ files'.marker) =>
       \/ ~history.completed
       \/ ~history.established /\ op.plan.mode = "resume"]_vars

(* An uninstallation takes nothing away while a service may use it or may be*)
(* started again by a reboot.                                               *)
StoppedBeforeRemoval ==
  [][(\/ \E v \in Version : files.release[v] # None /\ files'.release[v] = None
      \/ files.directories /\ ~files'.directories /\ spent' = spent
      \/ files.config # None /\ files'.config = None) =>
       system.running = None /\ ~system.enabled /\ ~system.helper]_vars
=============================================================================
