--------------------------- MODULE InstallerProofs ---------------------------
(* The installer: what its journal, its disk and the steps it has left say   *)
(* about each other, whatever fails, crashes or was planned before.          *)
EXTENDS Installer, SequenceTheorems, TLAPS

-----------------------------------------------------------------------------
(* The steps that are left, and their order. A repair moves the pointer     *)
(* first and looks after the account last.                                  *)

Left(todo) == {todo[i] : i \in DOMAIN todo}
Due(step) == op # None /\ step \in Left(op.todo)

Usual(step) ==
  CASE step = "halt-helper" -> 1 [] step = "halt" -> 2
    [] step = "disable" -> 3 [] step = "strip" -> 4
    [] step = "remove-opt" -> 5 [] step = "remove-run" -> 6
    [] step = "forget-units" -> 7 [] step = "remove-etc" -> 8
    [] step = "remove-var" -> 9 [] step = "uninstalled" -> 10
    [] step = "remove-pointer" -> 11 [] step = "prepared" -> 12
    [] step = "apt" -> 13 [] step = "packages" -> 14
    [] step = "probe" -> 15 [] step = "dependencies" -> 16
    [] step = "copy" -> 17 [] step = "backup" -> 18
    [] step = "units" -> 19 [] step = "maintenance" -> 20
    [] step = "tools" -> 21 [] step = "directories" -> 22
    [] step = "configure" -> 23 [] step = "account" -> 24
    [] step = "access" -> 25 [] step = "dropin" -> 26
    [] step = "owners" -> 27 [] step = "release" -> 28
    [] step = "pointer" -> 29 [] step = "activated" -> 30
    [] step = "reload" -> 31 [] step = "helper" -> 32
    [] step = "enable" -> 33 [] step = "restart" -> 34
    [] step = "verify" -> 35 [] step = "services" -> 36
    [] step = "complete" -> 37 [] step = "undone" -> 38

(* Twice the usual place, so that two of them can stand between others.     *)
Place(kind, step) ==
  CASE kind = "repair" /\ step = "pointer" -> 37
    [] kind = "repair" /\ step = "account" -> 53
    [] OTHER -> 2 * Usual(step)

Before(kind, s, t) == Place(kind, s) < Place(kind, t)

Kinds == {"repair", "other"}

Sorted(kind, todo) ==
  \A i, j \in DOMAIN todo : i < j => Before(kind, todo[i], todo[j])

Undoing == op # None /\ op.undo
Repairs == op # None /\ ~op.undo /\ op.plan.mode = "repair"
Advancing == op # None /\ ~op.undo /\ op.plan.mode \in {"install", "upgrade", "resume"}
Kind == IF Repairs THEN "repair" ELSE "other"
Removes == op # None /\ op.plan.mode = "uninstall"

RemovalSteps ==
  {"halt-helper", "disable", "strip", "remove-opt", "remove-run", "forget-units", "remove-etc",
   "remove-var", "uninstalled"}
UndoSteps ==
  {"halt-helper", "halt", "disable", "remove-pointer", "units", "maintenance", "tools", "access",
   "dropin", "pointer", "reload", "helper", "enable", "restart", "verify", "undone"}
LayingSteps ==
  {"copy", "backup", "units", "maintenance", "tools", "directories", "configure", "account",
   "access", "dropin", "owners"}
StartingSteps == {"reload", "helper", "enable", "restart", "verify"}
MendingSteps ==
  {"prepared", "apt", "packages", "probe", "pointer", "units", "maintenance", "tools",
   "directories", "access", "dropin", "account", "owners", "reload", "helper", "restart",
   "verify", "complete"}

(* Each operation is on its way through its program.                        *)
Programmed ==
  op # None =>
    /\ Sorted(Kind, op.todo)
    /\ ~op.undo => op.restorable /\ ~op.failed
    /\ Removes => /\ ~op.undo /\ Left(op.todo) \subseteq RemovalSteps
                  /\ Due("remove-var") \/ Due("uninstalled")
                  /\ ~(Due("remove-var") /\ Due("uninstalled"))
                  /\ Due("remove-etc") \/ Due("remove-var") => op.plan.data
    /\ Undoing => /\ Left(op.todo) \subseteq UndoSteps /\ Due("undone")
                  /\ (op.previous # None /\ ~op.failed) =>
                       /\ ~Due("disable") /\ ~Due("remove-pointer")
                       /\ Due("halt-helper") => Due("helper")
                       /\ Due("halt") => Due("restart")
                  /\ op.restorable \/ op.failed
                  /\ op.previous = None =>
                       Left(op.todo) \subseteq {"halt-helper", "halt", "disable", "remove-pointer",
                                               "undone"}
    /\ Repairs => Left(op.todo) \subseteq MendingSteps /\ Due("complete")
    /\ Advancing =>
         /\ Left(op.todo) \subseteq Phase \cup LayingSteps \cup StartingSteps
                                      \cup {"apt", "probe", "pointer"}
         /\ Due("complete")
         /\ \A s \in LayingSteps : Due(s) => Due("release")
         /\ Due("release") => Due("pointer")
         /\ Due("pointer") => Due("activated")
         /\ Due("activated") => \A s \in StartingSteps : Due(s)
         /\ \A s \in StartingSteps : Due(s) => Due("services")

(* What one step takes back or makes stale, a later one sets right.         *)
SetRight ==
  /\ Due("access") => Due("dropin")
  /\ (op # None /\ ~(op.undo /\ op.failed)) =>
       /\ Due("account") \/ Due("configure") => Due("owners")
       /\ Due("dropin") \/ (\E p \in Piece : Due(p)) => Due("reload")
       /\ Due("pointer") \/ Due("reload") => Due("restart")

-----------------------------------------------------------------------------
(* The journal, and what was planned from it.                               *)

Laid == journal # None /\ journal.phase \in {"release", "activated", "services", "complete"}
Active == journal # None /\ journal.phase \in {"activated", "services", "complete"}
Serving == journal # None /\ journal.phase \in {"services", "complete"}

JournalFits(j) ==
  j # None =>
    /\ Accepted(j)
    /\ j.phase # "uninstalled" =>
         /\ j.target = j.source.version
         /\ j.previous # None => j.previousSource.version = j.previous
    /\ j.phase \notin {"complete", "uninstalled"} => j.source.lan

PlanSound(plan) ==
  LET j == plan.snapshot IN
  /\ JournalFits(j)
  /\ plan.mode # "uninstall" =>
       /\ plan.existing = IF j = None \/ j.phase = "uninstalled" THEN None ELSE j.installed
       /\ plan.mode = "install" => j = None \/ j.phase = "uninstalled"
       /\ plan.mode = "resume" => /\ j # None /\ j.phase \notin {"complete", "uninstalled"}
                                  /\ j.target = plan.artifact.version /\ j.source = plan.artifact
       /\ plan.mode = "upgrade" => /\ j # None /\ j.phase = "complete"
                                   /\ j.installed # plan.artifact.version
       /\ plan.mode = "repair" => /\ j # None /\ j.phase = "complete"
                                  /\ j.installed = plan.artifact.version /\ j.source = plan.artifact
                                  /\ "web-access" \notin plan.repairs => plan.access = plan.previousAccess
       /\ Servable(plan.access, plan.artifact)
       /\ (plan.access = "lan" /\ ~plan.consents) => plan.previousAccess = "lan"

Recorded ==
  /\ JournalFits(journal)
  /\ \A o \in Operator : plans[o] # None => PlanSound(plans[o])
  /\ op # None => PlanSound(op.plan)
  /\ (op # None /\ ~Removes) =>
       /\ Due("prepared") => journal = op.plan.snapshot /\ ~Unfinished /\ ~op.undo
       /\ ~Due("prepared") =>
            /\ Unfinished
            /\ journal.target = op.plan.artifact.version /\ journal.source = op.plan.artifact
            /\ journal.installed = op.previous /\ journal.previous = op.previous
            /\ journal.previousSource = op.previousSource
            /\ op.plan.mode = "repair" => journal.phase \in {"prepared", "packages"}
            /\ (op.undo /\ op.plan.mode # "repair") => journal.phase = "activated"
       /\ op.previous = None <=> op.previousSource = None
       /\ op.previous # None => op.previousSource.version = op.previous
       /\ op.plan.mode = "repair" => /\ op.previous = op.plan.artifact.version
                                     /\ op.previousSource = op.plan.artifact
  /\ Advancing =>
       /\ Due("prepared") => /\ Due("packages") /\ Due("dependencies") /\ Due("release")
                             /\ Due("activated") /\ Due("services")
       /\ ~Due("prepared") =>
            /\ Due("packages") <=> journal.phase = "prepared"
            /\ Due("dependencies") <=> journal.phase \in {"prepared", "packages"}
            /\ Due("release") <=> journal.phase \in {"prepared", "packages", "dependencies"}
            /\ Due("activated") <=> journal.phase \in {"prepared", "packages", "dependencies", "release"}
            /\ Due("services") <=> journal.phase # "services"
  /\ (Repairs /\ Due("prepared")) => Due("packages")

-----------------------------------------------------------------------------
(* What the journal says is there.                                          *)

HasAccount == files.account \/ files.marker \/ history.lost
Owned == files.owned = {"config", "account"}
PiecesOf(a) == \A p \in Piece : files.piece[p] = PieceOf(p, a)
WebOf(a) == files.dropin = DropIn(ReadAccess, a) /\ Servable(ReadAccess, a)
UnitsLoaded == system.units = files.piece["units"]
DropInLoaded == system.dropin = (files.dropin # None)
HelperOf(a) == a.maintained => system.helper
RunningOf(a) == system.running = [code |-> a, exposed |-> ReadAccess = "lan"]

(* An installation or upgrade lays everything anew, and then does not mind  *)
(* what an interrupted uninstallation or a hand had taken away before.      *)
Anew == Unfinished /\ op # None /\ op.plan.mode \in {"install", "upgrade"}
Kept == ~history.removing \/ Anew
Unharmed == Kept /\ (~history.damaged \/ Anew)

(* A rollback without a release to return to leaves the files as they are.  *)
Untouched == ~history.undone \/ journal.installed = None

BackedUp(j) ==
  (/\ j # None /\ j.phase \in {"release", "activated", "services", "complete"}
   /\ j.previous \notin {None, j.target}) =>
    \E c \in Config : <<j.previous, j.target, c>> \in files.backups

LaidDown ==
  Laid =>
    /\ Kept => /\ files.release[journal.target] = journal.source
               /\ files.config # None /\ HasAccount /\ Owned
               /\ BackedUp(journal)
    /\ Unharmed => files.directories
    /\ (Unharmed /\ Untouched) => PiecesOf(journal.source)
    /\ (Kept /\ Untouched) => WebOf(journal.source)

Activated == (Active /\ Unharmed /\ ~history.undone) => files.current = journal.target

Served ==
  (Serving /\ ~history.undone) =>
    /\ Kept => /\ system.enabled /\ HelperOf(journal.source) /\ DropInLoaded
               /\ files.piece["units"] # None => UnitsLoaded
    /\ Unharmed => RunningOf(journal.source)

(* A repair that was planned relies on what it found in order.              *)
StillInOrder(plan) ==
  (plan.mode = "repair" /\ Laid /\ ~history.removing) =>
    /\ "directories" \notin plan.repairs => files.directories
    /\ (/\ journal.target = plan.artifact.version /\ journal.source = plan.artifact) =>
         /\ Untouched => \A p \in Piece \ plan.repairs : files.piece[p] = PieceOf(p, plan.artifact)
         /\ (Active /\ ~history.undone /\ "current" \notin plan.repairs) =>
              files.current = plan.artifact.version

PlansHold == \A o \in Operator : plans[o] # None => StillInOrder(plans[o])

-----------------------------------------------------------------------------
(* What the steps of an operation have done already.                        *)

AccessSet == (Due("dropin") /\ ~Due("access")) => files.access = Goal /\ Servable(Goal, Subject)

Laying ==
  (Advancing /\ Due("release")) =>
    LET a == op.plan.artifact IN
    /\ ~Due("copy") => files.release[a.version] = a
    /\ (~Due("backup") /\ op.previous \notin {None, a.version}) =>
         \E c \in Config : <<op.previous, a.version, c>> \in files.backups
    /\ \A p \in Piece : ~Due(p) => files.piece[p] = PieceOf(p, a)
    /\ ~Due("directories") => files.directories
    /\ ~Due("configure") => files.config # None
    /\ ~Due("account") => HasAccount
    /\ ~Due("dropin") => WebOf(a)
    /\ ~Due("owners") => Owned

Starting ==
  Advancing =>
    LET a == op.plan.artifact IN
    /\ (Due("activated") /\ ~Due("pointer")) => files.current = a.version
    /\ Due("services") =>
         /\ ~Due("reload") => UnitsLoaded /\ DropInLoaded
         /\ ~Due("helper") => HelperOf(a)
         /\ ~Due("enable") => system.enabled
         /\ (~Due("restart") /\ Unharmed /\ ~history.undone) => RunningOf(a)

Mending ==
  (Repairs /\ ~history.removing) =>
    LET a == op.plan.artifact IN
    /\ files.config # None /\ HasAccount
    /\ ~Due("owners") => Owned
    /\ ~Due("directories") => files.directories
    /\ BackedUp(op.plan.snapshot)
    /\ ~history.undone =>
         /\ \A p \in Piece : ~Due(p) => files.piece[p] = PieceOf(p, a)
         /\ ~Due("pointer") => files.current = a.version
         /\ ~Due("dropin") /\ ~Due("access") => WebOf(a)
         /\ system.enabled
         /\ ~Due("helper") => HelperOf(a)
         /\ ~Due("reload") => UnitsLoaded /\ DropInLoaded
         /\ ~Due("restart") => RunningOf(a)

Restoring ==
  Undoing =>
    /\ (op.plan.mode = "repair" /\ ~history.removing) =>
         /\ files.config # None /\ HasAccount /\ Owned /\ files.directories
         /\ BackedUp(op.plan.snapshot)
    /\ history.undone
    /\ (op.previous # None /\ ~op.failed) =>
         LET a == op.previousSource IN
         /\ \A p \in Piece : ~Due(p) => files.piece[p] = PieceOf(p, a)
         /\ ~Due("dropin") => WebOf(a)
         /\ ~Due("pointer") => files.current = op.previous
         /\ ~Due("reload") => UnitsLoaded /\ DropInLoaded
         /\ ~Due("helper") => HelperOf(a)
         /\ ~Due("enable") => system.enabled
         /\ (~Due("restart") /\ ~history.removing) => RunningOf(a)

Taking ==
  Removes =>
    /\ history.removing \/ (journal = None /\ ~history.established)
    /\ Due("uninstalled") => journal # None
    /\ ~Due("halt-helper") => ~system.helper
    /\ ~Due("disable") => ~system.enabled /\ system.running = None
    /\ ~Due("strip") => files.dropin = None
    /\ ~Due("forget-units") => ~system.dropin
    /\ (op.plan.data /\ ~Due("remove-etc")) => files.access = None

-----------------------------------------------------------------------------
(* What history says is so.                                                 *)

Returnable ==
  ~history.removing =>
    /\ (Unfinished /\ journal.installed # None) =>
         files.release[journal.installed] = journal.previousSource
    /\ (op # None /\ ~Removes /\ op.previous # None) =>
         files.release[op.previous] = op.previousSource

Fitting ==
  (~history.removing /\ ~history.contested) =>
    /\ Unfinished => files.release[journal.target] \in {None, journal.source}
    /\ (op # None /\ ~Removes) =>
         files.release[op.plan.artifact.version] \in {None, op.plan.artifact}

AccountKept ==
  /\ (journal # None /\ journal.installed # None) => history.established
  /\ history.established =>
       \/ journal # None /\ journal.phase # "uninstalled" /\ journal.installed # None
       \/ journal = None /\ files.backups # {}
  /\ (op # None /\ ~Removes) => (op.previous # None <=> history.established)
  /\ (history.established /\ ~history.removing) => HasAccount

Consented ==
  (\/ files.access = "lan" \/ files.dropin # None \/ system.dropin
   \/ system.running # None /\ system.running.exposed
   \/ op # None /\ ~Removes /\ "lan" \in {op.plan.access, op.plan.previousAccess}) =>
    history.consent

IInv ==
  /\ TypeOK
  /\ Programmed /\ SetRight /\ Recorded
  /\ LaidDown /\ Activated /\ Served /\ PlansHold
  /\ AccessSet /\ Laying /\ Starting /\ Mending /\ Restoring /\ Taking
  /\ Returnable /\ Fitting /\ AccountKept /\ Consented

-----------------------------------------------------------------------------
(* Sequences of steps.                                                      *)

LEMMA Places ==
  ASSUME NEW kind \in Kinds PROVE
  /\ Place(kind, "halt-helper") = 2
  /\ Place(kind, "halt") = 4
  /\ Place(kind, "disable") = 6
  /\ Place(kind, "strip") = 8
  /\ Place(kind, "remove-opt") = 10
  /\ Place(kind, "remove-run") = 12
  /\ Place(kind, "forget-units") = 14
  /\ Place(kind, "remove-etc") = 16
  /\ Place(kind, "remove-var") = 18
  /\ Place(kind, "uninstalled") = 20
  /\ Place(kind, "remove-pointer") = 22
  /\ Place(kind, "prepared") = 24
  /\ Place(kind, "apt") = 26
  /\ Place(kind, "packages") = 28
  /\ Place(kind, "probe") = 30
  /\ Place(kind, "dependencies") = 32
  /\ Place(kind, "copy") = 34
  /\ Place(kind, "backup") = 36
  /\ Place(kind, "units") = 38
  /\ Place(kind, "maintenance") = 40
  /\ Place(kind, "tools") = 42
  /\ Place(kind, "directories") = 44
  /\ Place(kind, "configure") = 46
  /\ Place(kind, "account") = (IF kind = "repair" THEN 53 ELSE 48)
  /\ Place(kind, "access") = 50
  /\ Place(kind, "dropin") = 52
  /\ Place(kind, "owners") = 54
  /\ Place(kind, "release") = 56
  /\ Place(kind, "pointer") = (IF kind = "repair" THEN 37 ELSE 58)
  /\ Place(kind, "activated") = 60
  /\ Place(kind, "reload") = 62
  /\ Place(kind, "helper") = 64
  /\ Place(kind, "enable") = 66
  /\ Place(kind, "restart") = 68
  /\ Place(kind, "verify") = 70
  /\ Place(kind, "services") = 72
  /\ Place(kind, "complete") = 74
  /\ Place(kind, "undone") = 76
BY DEF Place, Usual

LEMMA PhaseSet ==
  Phase = {"prepared", "packages", "dependencies", "release", "activated", "services", "complete"}
<1>1. /\ Phases[1] = "prepared" /\ Phases[2] = "packages" /\ Phases[3] = "dependencies"
      /\ Phases[4] = "release" /\ Phases[5] = "activated" /\ Phases[6] = "services"
      /\ Phases[7] = "complete"
  BY DEF Phases
<1>2. 1 .. 7 = {1, 2, 3, 4, 5, 6, 7}
  OBVIOUS
<1> QED BY <1>1, <1>2 DEF Phase

LEMMA StepSet ==
  Step = {"prepared", "packages", "dependencies", "release", "activated", "services", "complete",
          "units", "maintenance", "tools",
          "apt", "probe", "copy", "backup", "directories", "configure", "account", "access", "dropin",
          "owners", "pointer", "reload", "helper", "enable", "restart", "verify", "halt-helper", "halt",
          "disable", "remove-pointer", "undone", "strip", "remove-opt", "remove-run", "forget-units",
          "remove-etc", "remove-var", "uninstalled"}
BY PhaseSet DEF Step, Piece

LEMMA PlaceIsInt ==
  ASSUME NEW kind \in Kinds, NEW s \in Step PROVE Place(kind, s) \in Int
<1>1. Usual(s) \in Int
  BY StepSet DEF Usual
<1> QED BY <1>1 DEF Place

(* What comes before does not come after.                                   *)
LEMMA BeforeIsOrder ==
  ASSUME NEW kind \in Kinds, NEW s \in Step, NEW t \in Step, Before(kind, s, t)
  PROVE  ~Before(kind, t, s) /\ s # t
<1>1. Place(kind, s) \in Int /\ Place(kind, t) \in Int
  BY PlaceIsInt
<1> QED BY <1>1 DEF Before

(* The order of the steps, as far as it matters here.                       *)
LEMMA Order ==
  ASSUME NEW kind \in Kinds
  PROVE  /\ \A s \in LayingSteps \cup StartingSteps \cup {"pointer"} : Before(kind, "prepared", s)
         /\ kind = "other" => \A s \in LayingSteps : Before(kind, s, "release")
         /\ kind = "other" => Before(kind, "release", "pointer") /\ Before(kind, "pointer", "activated")
         /\ \A s \in StartingSteps : Before(kind, "activated", s) /\ Before(kind, s, "services")
         /\ Before(kind, "access", "dropin") /\ Before(kind, "dropin", "reload")
         /\ Before(kind, "account", "owners") /\ Before(kind, "configure", "owners")
         /\ \A s \in LayingSteps \cup {"pointer", "reload", "activated"} :
              Before(kind, s, "restart") /\ Before(kind, s, "verify")
         /\ Before(kind, "halt-helper", "helper") /\ Before(kind, "halt", "restart")
         /\ Before(kind, "strip", "forget-units")
         /\ \A s \in {"halt-helper", "disable", "strip", "forget-units", "remove-etc"} :
              Before(kind, s, "remove-var")
         /\ \A s \in {"halt-helper", "disable"} :
              \A t \in {"remove-opt", "remove-run", "remove-etc"} : Before(kind, s, t)
         /\ \A s \in {"packages", "dependencies", "release", "activated", "services"} :
              Before(kind, "prepared", s)
         /\ \A s \in UndoSteps \ {"access", "dropin"} :
              Before(kind, s, "access") \/ Before(kind, "dropin", s)
         /\ \A p \in Piece : Before(kind, p, "reload")
         /\ \A s \in Step \ {"complete", "undone"} : Before(kind, s, "complete")
         /\ \A s \in Step \ {"undone"} : Before(kind, s, "undone")
<1>3. \A s \in LayingSteps \cup StartingSteps \cup {"pointer"} : Before(kind, "prepared", s)
  BY Places DEF Before, LayingSteps, StartingSteps
<1>4. kind = "other" => \A s \in LayingSteps : Before(kind, s, "release")
  BY Places DEF Before, LayingSteps
<1>5. kind = "other" => Before(kind, "release", "pointer") /\ Before(kind, "pointer", "activated")
  BY Places DEF Before
<1>6. \A s \in StartingSteps : Before(kind, "activated", s) /\ Before(kind, s, "services")
  BY Places DEF Before, StartingSteps
<1>7. /\ Before(kind, "access", "dropin") /\ Before(kind, "dropin", "reload")
      /\ Before(kind, "account", "owners") /\ Before(kind, "configure", "owners")
      /\ Before(kind, "halt-helper", "helper") /\ Before(kind, "halt", "restart")
      /\ Before(kind, "strip", "forget-units")
  BY Places DEF Before
<1>10. \A s \in LayingSteps \cup {"pointer", "reload", "activated"} :
         Before(kind, s, "restart") /\ Before(kind, s, "verify")
  BY Places DEF Before, LayingSteps
<1>11. /\ \A s \in {"halt-helper", "disable", "strip", "forget-units", "remove-etc"} :
            Before(kind, s, "remove-var")
       /\ \A s \in {"halt-helper", "disable"} :
            \A t \in {"remove-opt", "remove-run", "remove-etc"} : Before(kind, s, t)
  BY Places DEF Before
<1>12. \A s \in {"packages", "dependencies", "release", "activated", "services"} :
         Before(kind, "prepared", s)
  BY Places DEF Before
<1>13. \A s \in UndoSteps \ {"access", "dropin"} :
         Before(kind, s, "access") \/ Before(kind, "dropin", s)
  BY Places DEF Before, UndoSteps
<1>8. \A p \in Piece : Before(kind, p, "reload")
  BY Places DEF Before, Piece
<1>9. /\ \A s \in Step \ {"complete", "undone"} : Before(kind, s, "complete")
      /\ \A s \in Step \ {"undone"} : Before(kind, s, "undone")
  BY Places, StepSet DEF Before
<1> QED BY <1>3, <1>4, <1>5, <1>6, <1>7, <1>8, <1>9, <1>10, <1>11, <1>12, <1>13

LEMMA PhasesInOrder ==
  ASSUME NEW kind \in Kinds
  PROVE  /\ Before(kind, "packages", "dependencies") /\ Before(kind, "packages", "release")
         /\ Before(kind, "dependencies", "release") /\ Before(kind, "packages", "activated")
         /\ Before(kind, "dependencies", "activated") /\ Before(kind, "release", "activated")
         /\ Before(kind, "packages", "services") /\ Before(kind, "dependencies", "services")
         /\ Before(kind, "release", "services") /\ Before(kind, "activated", "services")
BY Places DEF Before

LEMMA Spliced ==
  ASSUME NEW s \in Seq(Step), NEW t \in Seq(Step)
  PROVE  /\ s \o t \in Seq(Step)
         /\ Left(s \o t) = Left(s) \cup Left(t)
<1>1. /\ s \o t \in Seq(Step) /\ Len(s \o t) = Len(s) + Len(t)
      /\ \A i \in 1 .. Len(s) + Len(t) : (s \o t)[i] = IF i <= Len(s) THEN s[i] ELSE t[i - Len(s)]
  BY ConcatProperties
<1>2. Left(s \o t) \subseteq Left(s) \cup Left(t)
  BY <1>1 DEF Left
<1>3. Left(s) \subseteq Left(s \o t)
  BY <1>1 DEF Left
<1>4. Left(t) \subseteq Left(s \o t)
  <2> SUFFICES ASSUME NEW i \in 1 .. Len(t) PROVE t[i] \in Left(s \o t)
    BY DEF Left
  <2>1. Len(s) + i \in 1 .. Len(s) + Len(t) /\ (s \o t)[Len(s) + i] = t[i]
    BY <1>1
  <2>2. Len(s) + i \in DOMAIN (s \o t)
    BY <2>1, <1>1
  <2> QED BY <2>1, <2>2 DEF Left
<1> QED BY <1>1, <1>2, <1>3, <1>4

LEMMA SortedSpliced ==
  ASSUME NEW kind \in Kinds, NEW s \in Seq(Step), NEW t \in Seq(Step),
         Sorted(kind, s), Sorted(kind, t),
         \A x \in Left(s), y \in Left(t) : Before(kind, x, y)
  PROVE  Sorted(kind, s \o t)
<1>1. /\ s \o t \in Seq(Step) /\ Len(s \o t) = Len(s) + Len(t)
      /\ \A i \in 1 .. Len(s) + Len(t) : (s \o t)[i] = IF i <= Len(s) THEN s[i] ELSE t[i - Len(s)]
  BY ConcatProperties
<1> SUFFICES ASSUME NEW i \in 1 .. Len(s) + Len(t), NEW j \in 1 .. Len(s) + Len(t), i < j
             PROVE  Before(kind, (s \o t)[i], (s \o t)[j])
  BY <1>1 DEF Sorted
<1>2. CASE j <= Len(s)
  BY <1>1, <1>2 DEF Sorted
<1>3. CASE i <= Len(s) /\ j > Len(s)
  BY <1>1, <1>3 DEF Left
<1>4. CASE i > Len(s)
  <2>1. i - Len(s) \in 1 .. Len(t) /\ j - Len(s) \in 1 .. Len(t) /\ i - Len(s) < j - Len(s)
    BY <1>4
  <2> QED BY <1>1, <1>4, <2>1 DEF Sorted
<1> QED BY <1>2, <1>3, <1>4

(* The first of the steps left comes before the others.                     *)
LEMMA HeadFirst ==
  ASSUME NEW kind \in Kinds, NEW todo \in Seq(Step) \ {<<>>}, Sorted(kind, todo)
  PROVE  /\ Head(todo) \in Left(todo) /\ Head(todo) \in Step /\ Left(todo) \subseteq Step
         /\ \A s \in Left(todo) : s # Head(todo) => Before(kind, Head(todo), s)
         /\ Tail(todo) \in Seq(Step) /\ Sorted(kind, Tail(todo))
         /\ Left(Tail(todo)) = Left(todo) \ {Head(todo)}
<1>1. /\ Len(todo) \in Nat /\ Len(todo) > 0 /\ Head(todo) = todo[1]
      /\ \A i \in 1 .. Len(todo) : todo[i] \in Step
  BY EmptySeq, ElementOfSeq, LenProperties
<1>2. /\ Tail(todo) \in Seq(Step) /\ Len(Tail(todo)) = Len(todo) - 1
      /\ \A i \in 1 .. Len(todo) - 1 : Tail(todo)[i] = todo[i + 1]
  BY <1>1, HeadTailProperties
<1>3. \A s \in Left(todo) : s # Head(todo) => Before(kind, Head(todo), s)
  BY <1>1 DEF Left, Sorted
<1>4. Sorted(kind, Tail(todo))
  BY <1>1, <1>2 DEF Sorted
<1>5. Left(Tail(todo)) \subseteq Left(todo)
  BY <1>1, <1>2 DEF Left
<1>6. Head(todo) \notin Left(Tail(todo))
  <2> SUFFICES ASSUME NEW i \in 1 .. Len(todo) - 1, todo[i + 1] = todo[1] PROVE FALSE
    BY <1>1, <1>2 DEF Left
  <2>1. Before(kind, todo[1], todo[i + 1])
    BY <1>1 DEF Sorted
  <2> QED BY <1>1, <2>1, BeforeIsOrder
<1>7. ASSUME NEW s \in Left(todo), s # Head(todo) PROVE s \in Left(Tail(todo))
  <2>1. PICK i \in 1 .. Len(todo) : s = todo[i]
    BY <1>1 DEF Left
  <2>2. i # 1 /\ i - 1 \in 1 .. Len(todo) - 1 /\ Tail(todo)[i - 1] = todo[i]
    BY <1>1, <1>2, <1>7, <2>1
  <2>3. i - 1 \in DOMAIN Tail(todo)
    BY <2>2, <1>1, <1>2
  <2> QED BY <2>1, <2>2, <2>3 DEF Left
<1>8. Head(todo) \in Left(todo) /\ Head(todo) \in Step /\ Left(todo) \subseteq Step
  BY <1>1 DEF Left
<1> QED BY <1>2, <1>3, <1>4, <1>5, <1>6, <1>7, <1>8

LEMMA NothingLeft == Left(<<>>) = {} /\ \A kind \in Kinds : Sorted(kind, <<>>)
BY DEF Left, Sorted

LEMMA SomethingLeft ==
  ASSUME NEW todo \in Seq(Step), Left(todo) # {} PROVE todo # <<>>
BY NothingLeft

-----------------------------------------------------------------------------
(* An operation that goes on to its next step.                              *)

LastSteps == {"complete", "undone", "remove-var", "uninstalled"}

(* What is left of an operation after its first step.                       *)
Moved(step) ==
  /\ op # None /\ op' # None /\ op' \in Operation
  /\ step = Head(op.todo) /\ step \in Left(op.todo) /\ step \in Step
  /\ Left(op'.todo) = Left(op.todo) \ {step}
  /\ op'.plan = op.plan /\ op'.undo = op.undo /\ op'.failed = op.failed
  /\ op'.restorable = op.restorable
  /\ op'.previous = op.previous /\ op'.previousSource = op.previousSource

(* Nothing that comes earlier is left.                                      *)
Nearest(step) ==
  \A s \in Left(op.todo) : s # step => Before(Kind, step, s)

LEMMA OperationTyped ==
  ASSUME TypeOK, op # None
  PROVE  /\ op \in Operation /\ op.todo \in Seq(Step) \ {<<>>}
         /\ op.plan \in Plan \cup RemovalPlan
         /\ op.undo \in BOOLEAN /\ op.failed \in BOOLEAN /\ op.restorable \in BOOLEAN
         /\ op.previous \in Version \cup {None} /\ op.previousSource \in Artifact \cup {None}
         /\ ~Removes => op.plan \in Plan
         /\ Removes => op.plan \in RemovalPlan
         /\ Kind \in Kinds
<1>1. op \in Operation
  BY DEF TypeOK
<1>2. op.plan \in Plan => op.plan.mode # "uninstall"
  BY DEF Plan
<1>3. op.plan \in RemovalPlan => op.plan.mode = "uninstall"
  BY DEF RemovalPlan
<1> QED BY <1>1, <1>2, <1>3 DEF Operation, Removes, Kind, Kinds

LEMMA HeadIsNearest ==
  ASSUME TypeOK, Programmed, op # None
  PROVE  /\ Head(op.todo) \in Left(op.todo) /\ Head(op.todo) \in Step
         /\ Left(op.todo) \subseteq Step
         /\ Nearest(Head(op.todo))
<1>1. Sorted(Kind, op.todo)
  BY DEF Programmed
<1> QED BY <1>1, OperationTyped, HeadFirst DEF Nearest

LEMMA Moving ==
  ASSUME TypeOK, Programmed, op # None, Head(op.todo) \notin LastSteps,
         op' = [op EXCEPT !.todo = Tail(@)]
  PROVE  /\ Moved(Head(op.todo)) /\ Nearest(Head(op.todo))
         /\ Sorted(Kind, op'.todo)
<1> DEFINE h == Head(op.todo)
<1>1. op \in Operation /\ Kind \in Kinds /\ op.todo \in Seq(Step) \ {<<>>}
  BY OperationTyped
<1>2. Sorted(Kind, op.todo)
  BY DEF Programmed
<1>3. /\ h \in Left(op.todo) /\ h \in Step /\ Nearest(h)
      /\ Tail(op.todo) \in Seq(Step) /\ Sorted(Kind, Tail(op.todo))
      /\ Left(Tail(op.todo)) = Left(op.todo) \ {h}
  BY <1>1, <1>2, HeadFirst DEF Nearest
<1>4. \E s \in LastSteps : s \in Left(op.todo)
  <2>1. CASE Removes
    BY <2>1 DEF Programmed, Due, LastSteps, Removes
  <2>2. CASE ~Removes /\ op.undo
    BY <2>2, <1>1 DEF Programmed, Due, LastSteps, Undoing
  <2>3. CASE ~Removes /\ ~op.undo
    <3>1. op.plan.mode \in {"install", "resume", "upgrade", "repair"}
      BY <2>3, OperationTyped DEF Plan
    <3> QED BY <2>3, <3>1 DEF Programmed, Due, LastSteps, Repairs, Advancing
  <2> QED BY <2>1, <2>2, <2>3
<1>5. Left(Tail(op.todo)) # {}
  BY <1>3, <1>4
<1>6. Tail(op.todo) # <<>>
  BY <1>5, NothingLeft
<1>7. op' \in Operation /\ op'.todo = Tail(op.todo)
  BY <1>1, <1>3, <1>6 DEF Operation
<1>8. op' # None
  BY <1>7, NoneAssumption
<1>9. /\ op'.plan = op.plan /\ op'.undo = op.undo /\ op'.failed = op.failed
      /\ op'.restorable = op.restorable
      /\ op'.previous = op.previous /\ op'.previousSource = op.previousSource
  BY <1>1 DEF Operation
<1> QED BY <1>3, <1>7, <1>8, <1>9 DEF Moved

LEMMA MovedKinds ==
  ASSUME NEW h, Moved(h)
  PROVE  /\ Repairs' = Repairs /\ Kind' = Kind /\ Advancing' = Advancing /\ Undoing' = Undoing
         /\ Removes' = Removes
         /\ \A s \in Step : Due(s)' <=> Due(s) /\ s # h
BY DEF Moved, Repairs, Kind, Advancing, Undoing, Removes, Due

(* A later step stays due as long as an earlier one is.                     *)
LEMMA LaterStays ==
  ASSUME TypeOK, NEW h, Moved(h), Nearest(h), NEW a \in Step, NEW b \in Step,
         Before(Kind, a, b), Due(a)', Due(a) => Due(b)
  PROVE  Due(b)'
<1>1. a \in Left(op.todo) /\ a # h /\ b \in Left(op.todo)
  BY DEF Due, Moved
<1>2. Before(Kind, h, a)
  BY <1>1 DEF Nearest
<1>3. b # h
  BY <1>2, BeforeIsOrder, OperationTyped DEF Moved
<1> QED BY <1>1, <1>3 DEF Due, Moved

LEMMA ProgramMoves ==
  ASSUME TypeOK, Programmed, SetRight, op # None, Head(op.todo) \notin LastSteps,
         op' = [op EXCEPT !.todo = Tail(@)]
  PROVE  Programmed' /\ SetRight'
<1> DEFINE h == Head(op.todo)
<1>1. Moved(h) /\ Nearest(h) /\ Sorted(Kind, op'.todo)
  BY Moving
<1>2. /\ Repairs' = Repairs /\ Kind' = Kind
      /\ Advancing' = Advancing /\ Undoing' = Undoing /\ Removes' = Removes
      /\ \A s \in Step : Due(s)' <=> Due(s) /\ s # h
  BY <1>1, MovedKinds
<1>3. \A a, b \in Step :
        (Before(Kind, a, b) /\ Due(a)' /\ (Due(a) => Due(b))) => Due(b)'
  BY <1>1, LaterStays
<1>4. Kind \in Kinds
  BY OperationTyped
<1>5. \A s \in LayingSteps : s \in Step /\ (Kind = "other" => Before(Kind, s, "release"))
  BY <1>4, Order, StepSet DEF LayingSteps
<1>6. \A s \in StartingSteps : /\ s \in Step
                               /\ Before(Kind, "activated", s)
                               /\ Before(Kind, s, "services")
  BY <1>4, Order, StepSet DEF StartingSteps
<1>7. /\ Kind = "other" => /\ Before(Kind, "release", "pointer")
                           /\ Before(Kind, "pointer", "activated")
      /\ Before(Kind, "access", "dropin")
      /\ Before(Kind, "account", "owners")
      /\ Before(Kind, "configure", "owners")
      /\ Before(Kind, "dropin", "reload")
      /\ Before(Kind, "pointer", "restart")
      /\ Before(Kind, "reload", "restart")
      /\ \A p \in Piece : Before(Kind, p, "reload")
  BY <1>4, Order
<1>8. /\ Phase \cup LayingSteps \cup StartingSteps \subseteq Step /\ Piece \subseteq Step
      /\ {"pointer", "complete", "undone", "remove-var", "uninstalled", "remove-etc", "disable",
          "remove-pointer", "access", "dropin", "account", "configure", "owners", "reload",
          "restart", "release", "activated", "services"} \subseteq Step
  BY StepSet, PhaseSet DEF Piece, LayingSteps, StartingSteps
<1>9. Left(op'.todo) \subseteq Left(op.todo) /\ h \notin LastSteps
  BY <1>1 DEF Moved
<1>10. SetRight'
  <2>1. Due("access")' => Due("dropin")'
    BY <1>3, <1>7, <1>8 DEF SetRight
  <2>2. ASSUME ~(op.undo /\ op.failed)
        PROVE  /\ Due("account")' \/ Due("configure")' => Due("owners")'
               /\ Due("dropin")' \/ (\E p \in Piece : Due(p)') => Due("reload")'
               /\ Due("pointer")' \/ Due("reload")' => Due("restart")'
    <3>1. Due("account")' \/ Due("configure")' => Due("owners")'
      BY <2>2, <1>3, <1>7, <1>8 DEF SetRight
    <3>2. Due("dropin")' => Due("reload")'
      BY <2>2, <1>3, <1>7, <1>8 DEF SetRight
    <3>3. ASSUME NEW p \in Piece, Due(p)' PROVE Due("reload")'
      BY <3>3, <2>2, <1>2, <1>3, <1>7, <1>8 DEF SetRight
    <3>4. Due("pointer")' \/ Due("reload")' => Due("restart")'
      BY <2>2, <1>3, <1>7, <1>8 DEF SetRight
    <3> QED BY <3>1, <3>2, <3>3, <3>4
  <2> QED BY <2>1, <2>2, <1>1 DEF SetRight, Moved
<1>11. ASSUME Removes
       PROVE  /\ ~op'.undo /\ Left(op'.todo) \subseteq RemovalSteps
              /\ Due("remove-var")' \/ Due("uninstalled")'
              /\ ~(Due("remove-var")' /\ Due("uninstalled")')
              /\ Due("remove-etc")' \/ Due("remove-var")' => op'.plan.data
  BY <1>11, <1>1, <1>2, <1>8, <1>9 DEF Programmed, Moved, LastSteps
<1>12. ASSUME Undoing
       PROVE  /\ Left(op'.todo) \subseteq UndoSteps /\ Due("undone")'
              /\ (op'.previous # None /\ ~op'.failed) =>
                   /\ ~Due("disable")' /\ ~Due("remove-pointer")'
                   /\ Due("halt-helper")' => Due("helper")'
                   /\ Due("halt")' => Due("restart")'
              /\ op'.restorable \/ op'.failed
              /\ op'.previous = None =>
                   Left(op'.todo) \subseteq {"halt-helper", "halt", "disable", "remove-pointer",
                                           "undone"}
  <2>1. ASSUME op.previous # None, ~op.failed
        PROVE  /\ Due("halt-helper")' => Due("helper")'
               /\ Due("halt")' => Due("restart")'
    <3>1. /\ Due("halt-helper") => Due("helper")
          /\ Due("halt") => Due("restart")
      BY <2>1, <1>12, <1>1 DEF Programmed, Moved
    <3>2. {"halt-helper", "helper", "halt", "restart"} \subseteq Step
      BY StepSet
    <3>3. Before(Kind, "halt-helper", "helper") /\ Before(Kind, "halt", "restart")
      BY <1>4, Order
    <3> QED BY <3>1, <3>2, <3>3, <1>3
  <2> QED BY <2>1, <1>12, <1>1, <1>2, <1>8, <1>9 DEF Programmed, Moved, LastSteps
<1>13. ASSUME Repairs
       PROVE  Left(op'.todo) \subseteq MendingSteps /\ Due("complete")'
  BY <1>13, <1>1, <1>2, <1>8, <1>9 DEF Programmed, Moved, LastSteps
<1>14. ASSUME Advancing
       PROVE  /\ Left(op'.todo) \subseteq Phase \cup LayingSteps \cup StartingSteps
                                            \cup {"apt", "probe", "pointer"}
              /\ Due("complete")'
              /\ \A s \in LayingSteps : Due(s)' => Due("release")'
              /\ Due("release")' => Due("pointer")'
              /\ Due("pointer")' => Due("activated")'
              /\ Due("activated")' => \A s \in StartingSteps : Due(s)'
              /\ \A s \in StartingSteps : Due(s)' => Due("services")'
  <2>1. Kind = "other"
    BY <1>14 DEF Advancing, Repairs, Kind
  <2>2. Left(op'.todo) \subseteq Phase \cup LayingSteps \cup StartingSteps \cup {"apt", "probe", "pointer"}
        /\ Due("complete")'
    BY <1>14, <1>1, <1>2, <1>8, <1>9 DEF Programmed, Moved, LastSteps
  <2>3. ASSUME NEW s \in LayingSteps, Due(s)' PROVE Due("release")'
    <3>1. Due(s) => Due("release")
      BY <1>14, <1>1 DEF Programmed, Moved
    <3> QED BY <3>1, <2>1, <2>3, <1>3, <1>5, <1>8
  <2>4. Due("release")' => Due("pointer")'
    <3>1. Due("release") => Due("pointer")
      BY <1>14, <1>1 DEF Programmed, Moved
    <3> QED BY <3>1, <2>1, <1>3, <1>7, <1>8
  <2>5. Due("pointer")' => Due("activated")'
    <3>1. Due("pointer") => Due("activated")
      BY <1>14, <1>1 DEF Programmed, Moved
    <3> QED BY <3>1, <2>1, <1>3, <1>7, <1>8
  <2>6. ASSUME NEW s \in StartingSteps, Due("activated")' PROVE Due(s)'
    <3>1. Due("activated") => Due(s)
      BY <1>14, <1>1 DEF Programmed, Moved
    <3> QED BY <3>1, <2>6, <1>3, <1>6, <1>8
  <2>7. ASSUME NEW s \in StartingSteps, Due(s)' PROVE Due("services")'
    <3>1. Due(s) => Due("services")
      BY <1>14, <1>1 DEF Programmed, Moved
    <3> QED BY <3>1, <2>7, <1>3, <1>6, <1>8
  <2> QED BY <2>2, <2>3, <2>4, <2>5, <2>6, <2>7
<1>15. Sorted(Kind', op'.todo)
  BY <1>1, <1>2
<1>16. ~op'.undo => op'.restorable /\ ~op'.failed
  BY <1>1 DEF Programmed, Moved
<1> QED BY <1>2, <1>10, <1>11, <1>12, <1>13, <1>14, <1>15, <1>16 DEF Programmed

LEMMA RecordMoves ==
  ASSUME Recorded, NEW h, Moved(h), h \notin Phase, UNCHANGED <<journal, plans>>
  PROVE  Recorded'
<1>1. /\ Repairs' = Repairs /\ Advancing' = Advancing /\ Undoing' = Undoing /\ Removes' = Removes
      /\ \A s \in Step : Due(s)' <=> Due(s) /\ s # h
  BY MovedKinds
<1>2. /\ {"prepared", "packages", "dependencies", "release", "activated", "services"} \subseteq Step
      /\ h \notin {"prepared", "packages", "dependencies", "release", "activated", "services"}
  BY DEF Step, Phase, Phases
<1>3. \A s \in {"prepared", "packages", "dependencies", "release", "activated", "services"} :
        Due(s)' <=> Due(s)
  BY <1>1, <1>2
<1>4. Unfinished' = Unfinished
  BY DEF Unfinished
<1>5. /\ op # None /\ op' # None /\ op'.plan = op.plan /\ op'.undo = op.undo
      /\ op'.previous = op.previous /\ op'.previousSource = op.previousSource
  BY DEF Moved
<1>6. JournalFits(journal)' /\ \A o \in Operator : plans'[o] # None => PlanSound(plans'[o])
  BY DEF Recorded
<1>7. PlanSound(op'.plan)
  BY <1>5 DEF Recorded
<1>8. (~Removes)' =>
       /\ Due("prepared")' => journal' = op'.plan.snapshot /\ ~Unfinished' /\ ~op'.undo
       /\ ~Due("prepared")' =>
            /\ Unfinished'
            /\ journal'.target = op'.plan.artifact.version /\ journal'.source = op'.plan.artifact
            /\ journal'.installed = op'.previous /\ journal'.previous = op'.previous
            /\ journal'.previousSource = op'.previousSource
            /\ op'.plan.mode = "repair" => journal'.phase \in {"prepared", "packages"}
            /\ (op'.undo /\ op'.plan.mode # "repair") => journal'.phase = "activated"
       /\ op'.previous = None <=> op'.previousSource = None
       /\ op'.previous # None => op'.previousSource.version = op'.previous
       /\ op'.plan.mode = "repair" => /\ op'.previous = op'.plan.artifact.version
                                      /\ op'.previousSource = op'.plan.artifact
  BY <1>1, <1>3, <1>4, <1>5 DEF Recorded
<1>9. Advancing' =>
       /\ Due("prepared")' => /\ Due("packages")' /\ Due("dependencies")' /\ Due("release")'
                              /\ Due("activated")' /\ Due("services")'
       /\ ~Due("prepared")' =>
            /\ Due("packages")' <=> journal'.phase = "prepared"
            /\ Due("dependencies")' <=> journal'.phase \in {"prepared", "packages"}
            /\ Due("release")' <=> journal'.phase \in {"prepared", "packages", "dependencies"}
            /\ Due("activated")' <=> journal'.phase \in {"prepared", "packages", "dependencies", "release"}
            /\ Due("services")' <=> journal'.phase # "services"
  BY <1>1, <1>3, <1>5 DEF Recorded
<1>10. (Repairs' /\ Due("prepared")') => Due("packages")'
  BY <1>1, <1>3 DEF Recorded
<1> QED BY <1>6, <1>7, <1>8, <1>9, <1>10 DEF Recorded

(* Where an operation is when it writes a file: not past the phase the file *)
(* belongs to, or rolling back.                                             *)
LEMMA Whereabouts ==
  ASSUME TypeOK, Programmed, Recorded, NEW h, h \in LayingSteps \cup {"pointer", "remove-pointer"},
         op # None, h \in Left(op.todo), Nearest(h)
  PROVE  /\ ~Removes /\ op.plan \in Plan
         /\ Repairs \/ Advancing \/ Undoing
         /\ h \notin Phase /\ h \notin LastSteps
         /\ Unfinished \/ Due("prepared")
         /\ ~Due("prepared")
         /\ Unfinished /\ ~Serving
         /\ Repairs => ~Laid
         /\ Advancing => ~Active
         /\ (Advancing /\ h # "pointer") => ~Laid
         /\ (Undoing /\ Laid) => /\ journal.phase = "activated"
                                 /\ h \notin {"pointer", "remove-pointer"} => journal.installed # None
         /\ Undoing => h \in {"units", "maintenance", "tools", "access", "dropin", "pointer",
                              "remove-pointer"}
<1>1. ~Removes
  BY DEF Programmed, RemovalSteps, LayingSteps
<1>2. op.plan \in Plan /\ Kind \in Kinds /\ op.undo \in BOOLEAN
  BY <1>1, OperationTyped
<1>3. Repairs \/ Advancing \/ Undoing
  BY <1>2 DEF Plan, Repairs, Advancing, Undoing
<1>4. h \notin Phase /\ h \notin LastSteps /\ h \in Step
  BY StepSet, PhaseSet DEF LayingSteps, LastSteps
<1>5. ~Due("prepared")
  <2>1. CASE Undoing
    BY <2>1, <1>1 DEF Programmed, UndoSteps, Due
  <2>2. CASE ~Undoing
    <3>1. h # "remove-pointer"
      BY <1>3, <2>2, PhaseSet DEF Programmed, MendingSteps, LayingSteps, StartingSteps
    <3>2. Before(Kind, "prepared", h)
      <4>1. h \in LayingSteps \cup {"pointer"}
        BY <3>1
      <4> QED BY <4>1, <1>2, Order
    <3>3. ~Before(Kind, h, "prepared") /\ h # "prepared"
      BY <1>2, <1>4, <3>2, BeforeIsOrder, StepSet
    <3> QED BY <3>3 DEF Nearest, Due
  <2> QED BY <2>1, <2>2
<1>6. Unfinished
  BY <1>1, <1>5 DEF Recorded, Removes
<1>7. Repairs => ~Laid
  BY <1>1, <1>5 DEF Recorded, Repairs, Laid
<1>8. (Advancing /\ h # "pointer") => ~Laid /\ ~Active
  <2> SUFFICES ASSUME Advancing, h # "pointer" PROVE ~Laid /\ ~Active
    OBVIOUS
  <2>1. h \in LayingSteps
    BY <1>3, PhaseSet DEF Programmed, LayingSteps, StartingSteps
  <2>2. Due("release")
    BY <2>1 DEF Programmed, Due
  <2> QED BY <2>2, <1>5 DEF Recorded, Laid, Active
<1>9. (Advancing /\ h = "pointer") => ~Active
  <2> SUFFICES ASSUME Advancing, h = "pointer" PROVE ~Active
    OBVIOUS
  <2>1. Due("activated")
    BY DEF Programmed, Due
  <2> QED BY <2>1, <1>5 DEF Recorded, Active
<1>10. Undoing => h \in {"units", "maintenance", "tools", "access", "dropin", "pointer", "remove-pointer"}
  BY DEF Programmed, UndoSteps, LayingSteps, Undoing
<1>11. (Undoing /\ Laid) => /\ journal.phase = "activated"
                            /\ h \notin {"pointer", "remove-pointer"} => journal.installed # None
  <2> SUFFICES ASSUME Undoing, Laid
               PROVE  /\ journal.phase = "activated"
                      /\ h \notin {"pointer", "remove-pointer"} => journal.installed # None
    OBVIOUS
  <2>1. journal.phase = "activated" /\ journal.installed = op.previous
    BY <1>1, <1>5 DEF Recorded, Undoing, Laid
  <2>2. op.previous = None => h \in {"halt-helper", "halt", "disable", "remove-pointer", "undone"}
    BY DEF Programmed, Undoing
  <2> QED BY <2>1, <2>2, <1>10
<1>12. ~Serving
  BY <1>3, <1>7, <1>8, <1>9, <1>11 DEF Serving, Laid, Active
<1> QED BY <1>1, <1>2, <1>3, <1>4, <1>5, <1>6, <1>7, <1>8, <1>9, <1>10, <1>11, <1>12

(* What a step that writes a file leaves alone, whichever it is.            *)
LEMMA FileStep ==
  ASSUME IInv, NEW h, h \in LayingSteps \cup {"pointer", "remove-pointer"}, At(h), Advance,
         UNCHANGED <<journal, system, plans, history, spent, scenario>>, files' \in FilesRecord,
         op.undo => /\ files'.release = files.release /\ files'.config = files.config
                    /\ files'.account = files.account /\ files'.marker = files.marker
                    /\ files'.owned = files.owned /\ files'.directories = files.directories
                    /\ files'.backups = files.backups,
         h \in {"pointer", "remove-pointer"} =>
           files' = [files EXCEPT !.current = files'.current]
  PROVE  /\ Moved(h) /\ Nearest(h)
         /\ TypeOK' /\ Programmed' /\ SetRight' /\ Recorded' /\ Taking'
         /\ LaidDown' /\ Activated' /\ Served' /\ PlansHold'
<1>1. /\ op # None /\ h = Head(op.todo) /\ op' = [op EXCEPT !.todo = Tail(@)]
      /\ TypeOK /\ Programmed /\ SetRight /\ Recorded
  BY DEF At, Advance, IInv
<1>2. h \in Left(op.todo) /\ Nearest(h) /\ h \notin LastSteps
  BY <1>1, HeadIsNearest DEF LayingSteps, LastSteps
<1>3. Moved(h) /\ Programmed' /\ SetRight'
  BY <1>1, <1>2, Moving, ProgramMoves
<1>4. /\ ~Removes /\ op.plan \in Plan
      /\ Repairs \/ Advancing \/ Undoing
      /\ h \notin Phase
      /\ Unfinished /\ ~Serving
      /\ Repairs => ~Laid
      /\ Advancing => ~Active
      /\ (Advancing /\ h # "pointer") => ~Laid
      /\ (Undoing /\ Laid) => /\ journal.phase = "activated"
                              /\ h \notin {"pointer", "remove-pointer"} => journal.installed # None
      /\ Undoing => h \in {"units", "maintenance", "tools", "access", "dropin", "pointer",
                           "remove-pointer"}
  BY <1>1, <1>2, Whereabouts
<1>5. Recorded'
  BY <1>1, <1>3, <1>4, RecordMoves
<1>6. TypeOK'
  BY <1>1, <1>3 DEF TypeOK, Moved
<1>7. /\ Repairs' = Repairs /\ Advancing' = Advancing /\ Undoing' = Undoing /\ Removes' = Removes
  BY <1>3, MovedKinds
<1>8. Taking'
  BY <1>4, <1>7 DEF Taking
<1>9. /\ Laid' = Laid /\ Active' = Active /\ Serving' = Serving /\ Unfinished' = Unfinished
      /\ Anew' = Anew
  BY <1>3 DEF Laid, Active, Serving, Unfinished, Anew, Moved
<1>10. Kept' = Kept /\ Unharmed' = Unharmed /\ Untouched' = Untouched
  BY <1>9 DEF Kept, Unharmed, Untouched
<1>11. Undoing => history.undone
  BY DEF IInv, Restoring
<1>12. files \in FilesRecord
  BY <1>1 DEF TypeOK
<1>13. CASE ~Laid
  <2>1. ~Active /\ ~Serving
    BY <1>13 DEF Laid, Active, Serving
  <2> QED BY <2>1, <1>2, <1>3, <1>5, <1>6, <1>8, <1>9, <1>13
          DEF LaidDown, Activated, Served, PlansHold, StillInOrder
<1>14. CASE Laid /\ Advancing
  <2>1. h = "pointer" /\ ~Active
    BY <1>4, <1>14
  <2>2. /\ files'.release = files.release /\ files'.piece = files.piece
        /\ files'.access = files.access /\ files'.dropin = files.dropin
        /\ files'.config = files.config /\ files'.account = files.account
        /\ files'.marker = files.marker /\ files'.owned = files.owned
        /\ files'.backups = files.backups /\ files'.directories = files.directories
    BY <2>1, <1>12 DEF FilesRecord
  <2>3. LaidDown'
    BY <2>2, <1>9, <1>10 DEF IInv, LaidDown, HasAccount, Owned, BackedUp, PiecesOf, WebOf, ReadAccess
  <2>4. Activated' /\ Served'
    BY <2>1, <1>4, <1>9 DEF Activated, Served
  <2>5. PlansHold'
    BY <2>1, <2>2, <1>9, <1>10 DEF IInv, PlansHold, StillInOrder
  <2> QED BY <2>3, <2>4, <2>5, <1>2, <1>3, <1>5, <1>6, <1>8
<1>15. CASE Laid /\ Undoing
  <2>1. /\ files'.release = files.release /\ files'.config = files.config
        /\ files'.account = files.account /\ files'.marker = files.marker
        /\ files'.owned = files.owned /\ files'.directories = files.directories
        /\ files'.backups = files.backups
    BY <1>15 DEF Undoing
  <2>2. h \in {"pointer", "remove-pointer"} =>
          /\ files'.piece = files.piece
          /\ files'.access = files.access /\ files'.dropin = files.dropin
    BY <1>12 DEF FilesRecord
  <2>3. h \notin {"pointer", "remove-pointer"} => ~Untouched
    BY <1>4, <1>11, <1>15 DEF Untouched
  <2>4. LaidDown'
    BY <2>1, <2>2, <2>3, <1>9, <1>10
       DEF IInv, LaidDown, HasAccount, Owned, BackedUp, PiecesOf, WebOf, ReadAccess
  <2>5. Activated' /\ Served'
    BY <1>4, <1>9, <1>11, <1>15 DEF Activated, Served
  <2>6. PlansHold'
    BY <2>1, <2>2, <2>3, <1>9, <1>10, <1>11, <1>15 DEF IInv, PlansHold, StillInOrder
  <2> QED BY <2>4, <2>5, <2>6, <1>2, <1>3, <1>5, <1>6, <1>8
<1> QED BY <1>2, <1>4, <1>13, <1>14, <1>15

(* What each step does to the files.                                        *)
Effect(h) ==
  /\ \A v \in Version : files'.release[v] # files.release[v] =>
       h = "copy" /\ v = op.plan.artifact.version /\ files.release[v] \in {None, op.plan.artifact}
  /\ h = "copy" => files'.release[op.plan.artifact.version] = op.plan.artifact
  /\ files.backups \subseteq files'.backups
  /\ (h = "backup" /\ op.previous \notin {None, op.plan.artifact.version}) =>
       \E c \in Config : <<op.previous, op.plan.artifact.version, c>> \in files'.backups
  /\ \A p \in Piece : files'.piece[p] = IF h = p THEN PieceOf(p, Subject) ELSE files.piece[p]
  /\ files'.directories = (files.directories \/ h = "directories")
  /\ files'.config # files.config => files.config = None /\ h = "configure"
  /\ h = "configure" => files'.config # None
  /\ files.account \/ files.marker => files'.account \/ files'.marker
  /\ h = "account" => files'.account \/ files'.marker
  /\ files'.owned # files.owned => h \in {"configure", "account", "owners"}
  /\ h = "owners" => files'.owned = {"config", "account"}
  /\ files'.access = IF h = "access" THEN Goal ELSE files.access
  /\ h = "access" => Servable(Goal, Subject)
  /\ files'.dropin = IF h = "dropin" THEN DropIn(files.access, Subject) ELSE files.dropin
  /\ files'.current = IF h = "pointer" THEN Subject.version
                      ELSE IF h = "remove-pointer" THEN None ELSE files.current

LEMMA FileFacts ==
  ASSUME IInv, NEW h, h \in LayingSteps \cup {"pointer", "remove-pointer"},
         h \in Left(op.todo), Moved(h), Nearest(h), Effect(h), files' \in FilesRecord,
         UNCHANGED <<journal, system, plans, history, spent, scenario>>
  PROVE  /\ AccessSet' /\ Laying' /\ Starting' /\ Mending' /\ Restoring'
         /\ Returnable' /\ Fitting' /\ AccountKept' /\ Consented'
<1>1. /\ TypeOK /\ Programmed /\ SetRight /\ Recorded /\ op # None /\ op' # None
  BY DEF IInv, Moved
<1>2. /\ ~Removes /\ op.plan \in Plan
      /\ Repairs \/ Advancing \/ Undoing
      /\ h \notin Phase
      /\ Unfinished /\ ~Due("prepared")
      /\ Undoing => h \in {"units", "maintenance", "tools", "access", "dropin", "pointer",
                           "remove-pointer"}
  BY <1>1, Whereabouts DEF Moved
<1>3. /\ Repairs' = Repairs /\ Advancing' = Advancing /\ Undoing' = Undoing /\ Removes' = Removes
      /\ \A s \in Step : Due(s)' <=> Due(s) /\ s # h
  BY MovedKinds
<1>4. /\ op'.plan = op.plan /\ op'.undo = op.undo /\ op'.failed = op.failed
      /\ op'.previous = op.previous /\ op'.previousSource = op.previousSource
      /\ Subject' = Subject /\ Goal' = Goal
  BY DEF Moved, Subject, Goal
<1>5. /\ Unfinished' = Unfinished /\ Laid' = Laid /\ Anew' = Anew /\ Kept' = Kept
      /\ Unharmed' = Unharmed
  BY <1>1, <1>4 DEF Unfinished, Laid, Anew, Kept, Unharmed
<1>6. op.plan.access \in Access /\ op.plan.previousAccess \in Access /\ Goal \in Access /\ Goal # None
  BY <1>2, NoneAssumption DEF Plan, Goal
<1>7. \A s \in Step : Due(s)' => Due(s)
  BY <1>3
<1>8. {"copy", "backup", "directories", "configure", "account", "access", "dropin", "owners",
       "release", "pointer", "activated", "services", "reload", "helper", "enable", "restart",
       "remove-pointer", "units", "maintenance", "tools"} \subseteq Step
  BY StepSet
<1>9. Due(h) /\ ~Due(h)'
  BY <1>1 DEF Due, Moved
<1>10. h = "dropin" => ~Due("access")
  <2>1. Kind \in Kinds
    BY <1>1, OperationTyped
  <2>2. ~Before(Kind, "dropin", "access")
    BY <2>1, <1>8, Order, BeforeIsOrder
  <2> QED BY <2>2 DEF Nearest, Due
<1>11. AccessSet'
  BY <1>3, <1>4, <1>8, <1>9 DEF IInv, AccessSet, Effect
(* The web's drop-in is made from the access that was just set.             *)
<1>12. ASSUME h = "dropin" PROVE WebOf(Subject)'
  <2>1. files.access = Goal /\ Servable(Goal, Subject)
    BY <1>9, <1>10, <1>12 DEF IInv, AccessSet
  <2>2. files'.access = Goal /\ ReadAccess' = Goal /\ files'.dropin = DropIn(Goal, Subject)
    BY <2>1, <1>6, <1>12 DEF Effect, ReadAccess
  <2> QED BY <2>1, <2>2, <1>4 DEF WebOf, Servable, DropIn
<1>13. ASSUME h \notin {"access", "dropin"}, NEW a, WebOf(a) PROVE WebOf(a)'
  BY <1>13 DEF WebOf, ReadAccess, Effect
<1>14. HasAccount => HasAccount'
  BY DEF HasAccount, Effect
<1>15. h = "account" => HasAccount'
  BY DEF HasAccount, Effect
<1>16. h = "owners" => Owned'
  BY DEF Owned, Effect
<1>17. (Owned /\ h \notin {"configure", "account"}) => Owned'
  BY <1>16 DEF Owned, Effect
<1>18. ASSUME h \notin {"dropin"} \cup Piece, UnitsLoaded /\ DropInLoaded
       PROVE  UnitsLoaded' /\ DropInLoaded'
  BY <1>18 DEF UnitsLoaded, DropInLoaded, Effect, Piece
<1>19. system' = system /\ (h # "access" => ReadAccess' = ReadAccess)
  BY DEF ReadAccess, Effect
<1>21. (op.undo /\ op.failed) \/
         /\ h \in {"account", "configure"} => Due("owners")
         /\ h \in {"dropin"} \cup Piece => Due("reload")
         /\ h \in {"pointer", "access", "dropin"} \cup Piece => Due("restart")
  BY <1>1, <1>9 DEF SetRight
<1>22. h = "access" => Due("dropin")
  BY <1>1, <1>9 DEF SetRight
<1>23. ~op.undo => Subject = op.plan.artifact
  BY DEF Subject
<1>24. op.undo => Subject = op.previousSource
  BY DEF Subject
<1>25. BackedUp(op.plan.snapshot) => BackedUp(op.plan.snapshot)'
  BY <1>4 DEF BackedUp, Effect
<1>26. op.plan.artifact \in Artifact /\ op.plan.artifact.version \in Version
  BY <1>2 DEF Plan, Version
<1>27. Laying'
  <2> SUFFICES ASSUME Advancing, Due("release")' PROVE Laying'
    BY <1>3 DEF Laying
  <2> DEFINE a == op.plan.artifact
  <2>1. Due("release") /\ ~op.undo /\ Subject = a
    BY <1>7, <1>8, <1>23 DEF Advancing
  <2>2. ~Due("copy")' => files'.release[a.version] = a
    BY <2>1, <1>3, <1>8, <1>26 DEF IInv, Laying, Effect
  <2>3. (~Due("backup")' /\ op.previous \notin {None, a.version}) =>
          \E c \in Config : <<op.previous, a.version, c>> \in files'.backups
    BY <2>1, <1>3, <1>8 DEF IInv, Laying, Effect
  <2>4. \A p \in Piece : ~Due(p)' => files'.piece[p] = PieceOf(p, a)
    BY <2>1, <1>3, <1>8 DEF IInv, Laying, Effect, Piece
  <2>5. ~Due("directories")' => files'.directories
    BY <2>1, <1>3, <1>8 DEF IInv, Laying, Effect
  <2>6. ~Due("configure")' => files'.config # None
    BY <2>1, <1>3, <1>8 DEF IInv, Laying, Effect
  <2>7. ~Due("account")' => HasAccount'
    BY <2>1, <1>3, <1>8, <1>14, <1>15 DEF IInv, Laying
  <2>8. ~Due("dropin")' => WebOf(a)'
    BY <2>1, <1>3, <1>4, <1>8, <1>12, <1>13, <1>22 DEF IInv, Laying
  <2>9. ~Due("owners")' => Owned'
    BY <2>1, <1>3, <1>8, <1>16, <1>17, <1>21 DEF IInv, Laying
  <2> QED BY <2>2, <2>3, <2>4, <2>5, <2>6, <2>7, <2>8, <2>9, <1>4 DEF Laying
<1>28. Starting'
  <2> SUFFICES ASSUME Advancing PROVE Starting'
    BY <1>3 DEF Starting
  <2> DEFINE a == op.plan.artifact
  <2>1. ~op.undo /\ Subject = a
    BY <1>23 DEF Advancing
  <2>2. (Due("activated")' /\ ~Due("pointer")') => files'.current = a.version
    <3>1. h # "remove-pointer"
      BY <1>1, <1>9, PhaseSet DEF Programmed, LayingSteps, StartingSteps, Due
    <3> QED BY <3>1, <2>1, <1>3, <1>8 DEF IInv, Starting, Effect
  <2>3. (Due("services")' /\ ~Due("reload")') => UnitsLoaded' /\ DropInLoaded'
    <3>1. SUFFICES ASSUME Due("services")', ~Due("reload")' PROVE UnitsLoaded' /\ DropInLoaded'
      OBVIOUS
    <3>2. Due("services") /\ ~Due("reload")
      BY <3>1, <1>3, <1>8 DEF LayingSteps
    <3> QED BY <3>2, <2>1, <1>18, <1>21 DEF IInv, Starting
  <2>4. (Due("services")' /\ ~Due("helper")') => HelperOf(a)'
    BY <1>3, <1>4, <1>8, <1>19 DEF IInv, Starting, LayingSteps, HelperOf
  <2>5. (Due("services")' /\ ~Due("enable")') => system'.enabled
    BY <1>3, <1>8 DEF IInv, Starting, LayingSteps
  <2>6. (Due("services")' /\ ~Due("restart")' /\ Unharmed' /\ ~history'.undone) => RunningOf(a)'
    <3>1. SUFFICES ASSUME Due("services")', ~Due("restart")', Unharmed', ~history'.undone
                   PROVE  RunningOf(a)'
      OBVIOUS
    <3>2. Due("services") /\ ~Due("restart") /\ Unharmed /\ ~history.undone
      BY <3>1, <1>3, <1>5, <1>8 DEF LayingSteps
    <3> QED BY <3>2, <2>1, <1>4, <1>19, <1>21 DEF IInv, Starting, RunningOf
  <2> QED BY <2>2, <2>3, <2>4, <2>5, <2>6, <1>4 DEF Starting
<1>29. Mending'
  <2> SUFFICES ASSUME Repairs, ~history.removing PROVE Mending'
    BY <1>3 DEF Mending
  <2> DEFINE a == op.plan.artifact
  <2>1. ~op.undo /\ Subject = a
    BY <1>23 DEF Repairs
  <2>2. files'.config # None /\ HasAccount'
    BY <1>14 DEF IInv, Mending, Effect
  <2>3. h # "configure" /\ h # "remove-pointer"
    BY <1>1, <1>9 DEF Programmed, MendingSteps, Due
  <2>4. ~Due("owners")' => Owned'
    BY <2>1, <2>3, <1>3, <1>8, <1>16, <1>17, <1>21, <1>9 DEF IInv, Mending
  <2>5. ~Due("directories")' => files'.directories
    BY <1>3, <1>8 DEF IInv, Mending, Effect
  <2>6. BackedUp(op.plan.snapshot)'
    BY <1>25 DEF IInv, Mending
  <2>7. ASSUME ~history.undone
        PROVE  /\ \A p \in Piece : ~Due(p)' => files'.piece[p] = PieceOf(p, a)
               /\ ~Due("pointer")' => files'.current = a.version
               /\ ~Due("dropin")' /\ ~Due("access")' => WebOf(a)'
               /\ system'.enabled
               /\ ~Due("helper")' => HelperOf(a)'
               /\ ~Due("reload")' => UnitsLoaded' /\ DropInLoaded'
               /\ ~Due("restart")' => RunningOf(a)'
    <3>1. \A p \in Piece : ~Due(p)' => files'.piece[p] = PieceOf(p, a)
      BY <2>1, <2>7, <1>3, <1>8 DEF IInv, Mending, Effect, Piece
    <3>2. ~Due("pointer")' => files'.current = a.version
      BY <2>1, <2>3, <2>7, <1>3, <1>8 DEF IInv, Mending, Effect
    <3>3. ~Due("dropin")' /\ ~Due("access")' => WebOf(a)'
      BY <2>1, <2>7, <1>3, <1>4, <1>8, <1>12, <1>13, <1>22 DEF IInv, Mending
    <3>4. system'.enabled /\ (~Due("helper")' => HelperOf(a)')
      BY <2>7, <1>3, <1>4, <1>8, <1>19 DEF IInv, Mending, LayingSteps, HelperOf
    <3>5. ~Due("reload")' => UnitsLoaded' /\ DropInLoaded'
      <4>1. SUFFICES ASSUME ~Due("reload")' PROVE UnitsLoaded' /\ DropInLoaded'
        OBVIOUS
      <4>2. ~Due("reload")
        BY <4>1, <1>3, <1>8 DEF LayingSteps
      <4> QED BY <4>2, <2>1, <2>7, <1>18, <1>21 DEF IInv, Mending
    <3>6. ~Due("restart")' => RunningOf(a)'
      <4>1. SUFFICES ASSUME ~Due("restart")' PROVE RunningOf(a)'
        OBVIOUS
      <4>2. ~Due("restart")
        BY <4>1, <1>3, <1>8 DEF LayingSteps
      <4> QED BY <4>2, <2>1, <2>7, <1>4, <1>19, <1>21 DEF IInv, Mending, RunningOf
    <3> QED BY <3>1, <3>2, <3>3, <3>4, <3>5, <3>6
  <2> QED BY <2>2, <2>4, <2>5, <2>6, <2>7, <1>4 DEF Mending
<1>30. Restoring'
  <2> SUFFICES ASSUME Undoing PROVE Restoring'
    BY <1>3 DEF Restoring
  <2> DEFINE a == op.previousSource
  <2>1. op.undo /\ Subject = a /\ history.undone
    BY <1>24 DEF Undoing, IInv, Restoring
  <2>2. h \in {"units", "maintenance", "tools", "access", "dropin", "pointer", "remove-pointer"}
    BY <1>2
  <2>3. (op.plan.mode = "repair" /\ ~history.removing) =>
          /\ files'.config # None /\ HasAccount' /\ Owned' /\ files'.directories
          /\ BackedUp(op.plan.snapshot)'
    BY <2>2, <1>14, <1>17, <1>25 DEF IInv, Restoring, Effect
  <2>4. ASSUME op.previous # None, ~op.failed
        PROVE  /\ \A p \in Piece : ~Due(p)' => files'.piece[p] = PieceOf(p, a)
               /\ ~Due("dropin")' => WebOf(a)'
               /\ ~Due("pointer")' => files'.current = op.previous
               /\ ~Due("reload")' => UnitsLoaded' /\ DropInLoaded'
               /\ ~Due("helper")' => HelperOf(a)'
               /\ ~Due("enable")' => system'.enabled
               /\ (~Due("restart")' /\ ~history.removing) => RunningOf(a)'
    <3>1. \A p \in Piece : ~Due(p)' => files'.piece[p] = PieceOf(p, a)
      BY <2>1, <2>4, <1>3, <1>8 DEF IInv, Restoring, Effect, Piece
    <3>2. ~Due("pointer")' => files'.current = op.previous
      <4>1. h # "remove-pointer"
        BY <1>1, <1>9, <2>4 DEF Programmed
      <4>2. a.version = op.previous
        BY <1>1, <1>2, <2>4 DEF Recorded
      <4> QED BY <4>1, <4>2, <2>1, <2>4, <1>3, <1>8 DEF IInv, Restoring, Effect
    <3>3. ~Due("dropin")' => WebOf(a)'
      BY <2>1, <2>4, <1>3, <1>4, <1>8, <1>12, <1>13, <1>22 DEF IInv, Restoring
    <3>4. (~Due("enable")' => system'.enabled) /\ (~Due("helper")' => HelperOf(a)')
      BY <2>2, <2>4, <1>3, <1>4, <1>8, <1>19 DEF IInv, Restoring, HelperOf
    <3>5. ~Due("reload")' => UnitsLoaded' /\ DropInLoaded'
      <4>1. SUFFICES ASSUME ~Due("reload")' PROVE UnitsLoaded' /\ DropInLoaded'
        OBVIOUS
      <4>2. ~Due("reload")
        BY <4>1, <2>2, <1>3, <1>8
      <4> QED BY <4>2, <2>1, <2>4, <1>18, <1>21 DEF IInv, Restoring
    <3>6. (~Due("restart")' /\ ~history.removing) => RunningOf(a)'
      <4>1. SUFFICES ASSUME ~Due("restart")', ~history.removing PROVE RunningOf(a)'
        OBVIOUS
      <4>2. ~Due("restart")
        BY <4>1, <2>2, <1>3, <1>8
      <4> QED BY <4>1, <4>2, <2>1, <2>4, <1>4, <1>19, <1>21 DEF IInv, Restoring, RunningOf
    <3> QED BY <3>1, <3>2, <3>3, <3>4, <3>5, <3>6
  <2> QED BY <2>1, <2>3, <2>4, <1>4 DEF Restoring
<1>31. Returnable'
  <2>1. \A v \in Version : files.release[v] # None => files'.release[v] = files.release[v]
    BY DEF Effect
  <2>2. journal.installed \in Version \cup {None} /\ journal.previousSource \in Artifact \cup {None}
        /\ op.previous \in Version \cup {None} /\ op.previousSource \in Artifact \cup {None}
    BY <1>1, <1>2, OperationTyped DEF TypeOK, JournalRecord, Unfinished
  <2>3. /\ journal.installed = op.previous /\ journal.previousSource = op.previousSource
        /\ op.previous = None <=> op.previousSource = None
    BY <1>1, <1>2 DEF Recorded
  <2> QED BY <2>1, <2>2, <2>3, <1>1, <1>2, <1>3, <1>4, <1>5 DEF IInv, Returnable
<1>32. Fitting'
  <2>1. journal.target = op.plan.artifact.version /\ journal.source = op.plan.artifact
    BY <1>1, <1>2 DEF Recorded
  <2>2. files.release[op.plan.artifact.version] \in {None, op.plan.artifact} =>
          files'.release[op.plan.artifact.version] \in {None, op.plan.artifact}
    BY <1>26 DEF Effect
  <2> QED BY <2>1, <2>2, <1>1, <1>2, <1>3, <1>4, <1>5 DEF IInv, Fitting
<1>33. AccountKept'
  BY <1>1, <1>2, <1>3, <1>4, <1>14 DEF IInv, AccountKept, Effect
<1>34. Consented'
  <2>1. Goal = "lan" => history.consent
    BY <1>1, <1>2 DEF IInv, Consented, Goal
  <2>2. files'.access = "lan" => history.consent
    BY <2>1 DEF IInv, Consented, Effect
  <2>3. files'.dropin # None => history.consent
    <3>1. CASE h = "dropin"
      BY <3>1 DEF IInv, Consented, Effect, DropIn
    <3>2. CASE h # "dropin"
      BY <3>2 DEF IInv, Consented, Effect
    <3> QED BY <3>1, <3>2
  <2> QED BY <2>2, <2>3, <1>1, <1>3, <1>4 DEF IInv, Consented
<1> QED BY <1>11, <1>27, <1>28, <1>29, <1>30, <1>31, <1>32, <1>33, <1>34

(* A rollback writes only the integration files, the access and the pointer.*)
Gentle(h) ==
  /\ op.undo => /\ files'.release = files.release /\ files'.config = files.config
                /\ files'.account = files.account /\ files'.marker = files.marker
                /\ files'.owned = files.owned /\ files'.directories = files.directories
                /\ files'.backups = files.backups
  /\ h \in {"pointer", "remove-pointer"} => files' = [files EXCEPT !.current = files'.current]

LEMMA FilesWritten ==
  ASSUME IInv, NEW h, h \in LayingSteps \cup {"pointer", "remove-pointer"}, At(h), Advance,
         UNCHANGED <<journal, system, plans, history, spent, scenario>>,
         files' \in FilesRecord, Effect(h), Gentle(h)
  PROVE  IInv'
<1>1. /\ Moved(h) /\ Nearest(h)
      /\ TypeOK' /\ Programmed' /\ SetRight' /\ Recorded' /\ Taking'
      /\ LaidDown' /\ Activated' /\ Served' /\ PlansHold'
  BY FileStep DEF Gentle
<1>2. h \in Left(op.todo)
  BY <1>1 DEF Moved
<1>3. /\ AccessSet' /\ Laying' /\ Starting' /\ Mending' /\ Restoring'
      /\ Returnable' /\ Fitting' /\ AccountKept' /\ Consented'
  BY <1>1, <1>2, FileFacts
<1> QED BY <1>1, <1>3 DEF IInv

(* A credential is written at its step, which stays the next one: nothing   *)
(* is recorded as laid down by then, and the owners are still to be set.    *)
LEMMA CredentialWritten ==
  ASSUME IInv, WriteCredential PROVE IInv'
<1>1. /\ TypeOK /\ Programmed /\ SetRight /\ Recorded /\ files \in FilesRecord
      /\ op # None /\ At("account") /\ "account" \in LayingSteps
      /\ UNCHANGED <<journal, system, plans, op, history, spent, scenario>>
      /\ files' = [files EXCEPT !.account = TRUE, !.owned = @ \ {"account"}]
  BY DEF IInv, TypeOK, WriteCredential, At, LayingSteps
<1>2. "account" \in Left(op.todo) /\ Nearest("account")
  BY <1>1, HeadIsNearest DEF At
<1>3. /\ ~Undoing /\ ~Laid /\ ~Active /\ ~Serving
      /\ ~Removes /\ (Repairs \/ Advancing)
  BY <1>1, <1>2, Whereabouts DEF Laid, Active, Serving
<1>4. Due("owners")
  BY <1>1, <1>2, <1>3 DEF SetRight, Due, Undoing
<1>5. /\ files'.release = files.release /\ files'.current = files.current
      /\ files'.piece = files.piece /\ files'.access = files.access
      /\ files'.dropin = files.dropin /\ files'.config = files.config
      /\ files'.account /\ files'.backups = files.backups
      /\ files'.directories = files.directories
  BY <1>1 DEF FilesRecord
<1>6. files' \in FilesRecord
  <2>1. files.owned \ {"account"} \in SUBSET {"config", "account"}
    BY <1>1 DEF FilesRecord
  <2> QED BY <2>1, <1>1 DEF FilesRecord
<1>7. /\ Repairs' = Repairs /\ Advancing' = Advancing /\ Undoing' = Undoing /\ Removes' = Removes
      /\ Kind' = Kind /\ \A t \in Step : Due(t)' = Due(t)
      /\ Laid' = Laid /\ Active' = Active /\ Serving' = Serving /\ Unfinished' = Unfinished
      /\ Anew' = Anew /\ Kept' = Kept /\ Unharmed' = Unharmed /\ Untouched' = Untouched
      /\ ReadAccess' = ReadAccess /\ Goal' = Goal /\ Subject' = Subject
  BY <1>1, <1>5 DEF Repairs, Advancing, Undoing, Removes, Kind, Due, Laid, Active, Serving, Unfinished,
                    Anew, Kept, Unharmed, Untouched, ReadAccess, Goal, Subject
<1>8. TypeOK' /\ HasAccount'
  BY <1>1, <1>5, <1>6 DEF TypeOK, HasAccount
<1>9. Programmed' /\ SetRight' /\ Recorded'
  BY <1>1 DEF Programmed, SetRight, Recorded, Repairs, Advancing, Undoing, Removes, Kind, Due, Unfinished
<1>10. LaidDown' /\ Activated' /\ Served' /\ Restoring' /\ Taking'
  BY <1>3, <1>7 DEF LaidDown, Activated, Served, Restoring, Taking
<1>11. PlansHold' /\ AccessSet'
  BY <1>1, <1>5, <1>7 DEF IInv, PlansHold, StillInOrder, AccessSet, Due, Servable
<1>12. Laying'
  BY <1>1, <1>4, <1>5, <1>7, <1>8 DEF IInv, Laying, Due, WebOf
<1>13. Starting'
  BY <1>1, <1>5, <1>7 DEF IInv, Starting, HelperOf, DropInLoaded, UnitsLoaded, RunningOf, Due
<1>14. Mending'
  BY <1>1, <1>4, <1>5, <1>7, <1>8
     DEF IInv, Mending, HelperOf, DropInLoaded, UnitsLoaded, RunningOf, Due, BackedUp, WebOf
<1>15. Returnable' /\ Fitting' /\ AccountKept' /\ Consented'
  BY <1>1, <1>5, <1>7, <1>8 DEF IInv, Returnable, Fitting, AccountKept, Consented, Removes
<1> QED BY <1>8, <1>9, <1>10, <1>11, <1>12, <1>13, <1>14, <1>15 DEF IInv

LEMMA FileSteps ==
  ASSUME IInv,
         \/ CopyRelease \/ BackUp \/ (\E p \in Piece : Integrate(p)) \/ MakeDirectories
         \/ Configure \/ InstallAccount \/ SetAccess \/ SetDropIn \/ RepairOwners
         \/ SetCurrent \/ RemoveCurrent
  PROVE  IInv'
<1>1. files \in FilesRecord /\ TypeOK /\ Programmed
  BY DEF IInv, TypeOK
<1>2. ASSUME NEW h, At(h), h \in LayingSteps \cup {"pointer", "remove-pointer"}
      PROVE  /\ op # None /\ op.plan \in Plan /\ ~Removes /\ op.undo \in BOOLEAN
             /\ op.undo => h \in {"units", "maintenance", "tools", "access", "dropin", "pointer",
                                  "remove-pointer"}
  <2>1. op # None /\ h \in Left(op.todo) /\ Nearest(h)
    BY <1>1, <1>2, HeadIsNearest DEF At
  <2>2. ~Removes /\ op.plan \in Plan /\ (Undoing => h \in {"units", "maintenance", "tools",
          "access", "dropin", "pointer", "remove-pointer"})
    BY <1>1, <1>2, <2>1, Whereabouts DEF IInv
  <2> QED BY <1>1, <2>1, <2>2, OperationTyped DEF Undoing
<1>3. ASSUME NEW h, At(h), h \in LayingSteps \cup {"pointer", "remove-pointer"}
      PROVE  /\ op.plan.artifact \in Artifact /\ op.plan.artifact.version \in Version
             /\ op.plan.access \in Access /\ op.plan.previousAccess \in Access /\ Goal \in Access
             /\ op.plan.supplied \in Config \cup {None} /\ op.plan.config \in Config \cup {None}
             /\ op.previous \in Version \cup {None} /\ Subject \in Artifact \cup {None}
             /\ op.plan.repairs \subseteq Repair
  BY <1>1, <1>2, <1>3, OperationTyped DEF Plan, Version, Goal, Subject
<1>4. CASE CopyRelease
  <2>1. At("copy") /\ "copy" \in LayingSteps /\ ~op.undo
    BY <1>2, <1>4 DEF CopyRelease, LayingSteps
  <2>2. files' = [files EXCEPT !.release[op.plan.artifact.version] = op.plan.artifact]
    BY <1>4 DEF CopyRelease, Write
  <2>3. files' \in FilesRecord
    BY <2>1, <2>2, <1>1, <1>3 DEF FilesRecord
  <2>4. Effect("copy") /\ Gentle("copy")
    BY <2>1, <2>2, <1>1, <1>3, <1>4 DEF Effect, Gentle, CopyRelease, FilesRecord, Piece
  <2> QED BY <2>1, <2>3, <2>4, <1>4, FilesWritten DEF CopyRelease, Write
<1>5. CASE BackUp
  <2>1. At("backup") /\ "backup" \in LayingSteps /\ ~op.undo
    BY <1>2, <1>5 DEF BackUp, LayingSteps
  <2>2. CASE op.previous \in {None, op.plan.artifact.version}
    <3>1. files' = files
      BY <1>5, <2>2 DEF BackUp, Write
    <3>2. Effect("backup") /\ Gentle("backup")
      BY <2>1, <2>2, <3>1, <1>1 DEF Effect, Gentle, Piece, FilesRecord
    <3> QED BY <2>1, <2>2, <3>1, <3>2, <1>1, <1>5, FilesWritten DEF BackUp, Write
  <2>3. CASE op.previous \notin {None, op.plan.artifact.version}
    <3>1. files' = [files EXCEPT !.backups = @ \cup {Backup}] /\ op.plan.config \in Config
      BY <1>3, <1>5, <2>1, <2>3 DEF BackUp, Write
    <3>2. Backup \in Version \X Version \X Config
      BY <2>1, <2>3, <3>1, <1>3 DEF Backup
    <3>3. files' \in FilesRecord
      BY <3>1, <3>2, <1>1 DEF FilesRecord
    <3>4. /\ files'.backups = files.backups \cup {Backup}
          /\ files'.release = files.release /\ files'.piece = files.piece
          /\ files'.directories = files.directories /\ files'.config = files.config
          /\ files'.account = files.account /\ files'.marker = files.marker
          /\ files'.owned = files.owned /\ files'.access = files.access
          /\ files'.dropin = files.dropin /\ files'.current = files.current
      BY <3>1, <1>1 DEF FilesRecord
    <3>5. Effect("backup") /\ Gentle("backup")
      BY <2>1, <3>1, <3>4, <1>1 DEF Effect, Gentle, Piece, Backup, FilesRecord
    <3> QED BY <2>1, <2>3, <3>3, <3>5, <1>5, FilesWritten DEF BackUp, Write
  <2> QED BY <2>2, <2>3
<1>6. ASSUME NEW p \in Piece, Integrate(p) PROVE IInv'
  <2>1. At(p) /\ p \in LayingSteps
    BY <1>6 DEF Integrate, LayingSteps, Piece
  <2>2. files' = [files EXCEPT !.piece[p] = PieceOf(p, Subject)]
    BY <1>6 DEF Integrate, Write
  <2>3. PieceOf(p, Subject) \in Artifact \cup {None}
    BY <2>1, <1>3 DEF PieceOf
  <2>4. files' \in FilesRecord
    BY <2>2, <2>3, <1>1 DEF FilesRecord
  <2>5. Effect(p) /\ Gentle(p)
    BY <2>2, <1>1 DEF Effect, Gentle, FilesRecord, Piece
  <2> QED BY <2>1, <2>4, <2>5, <1>6, FilesWritten DEF Integrate, Write
<1>7. CASE MakeDirectories
  <2>1. At("directories") /\ "directories" \in LayingSteps /\ ~op.undo
    BY <1>2, <1>7 DEF MakeDirectories, LayingSteps
  <2>2. files' = [files EXCEPT !.directories = TRUE]
    BY <1>7 DEF MakeDirectories, Write
  <2>3. files' \in FilesRecord
    BY <2>2, <1>1 DEF FilesRecord
  <2>4. Effect("directories") /\ Gentle("directories")
    BY <2>1, <2>2, <1>1 DEF Effect, Gentle, FilesRecord, Piece
  <2> QED BY <2>1, <2>3, <2>4, <1>7, FilesWritten DEF MakeDirectories, Write
<1>8. CASE Configure
  <2>1. At("configure") /\ "configure" \in LayingSteps /\ ~op.undo
    BY <1>2, <1>8 DEF Configure, LayingSteps
  <2>2. CASE files.config # None
    <3>1. files' = files
      BY <1>8, <2>2 DEF Configure, Write
    <3>2. Effect("configure") /\ Gentle("configure")
      BY <2>1, <2>2, <3>1, <1>1 DEF Effect, Gentle, Piece, FilesRecord
    <3> QED BY <2>1, <2>2, <3>1, <3>2, <1>1, <1>8, FilesWritten DEF Configure, Write
  <2>3. CASE files.config = None
    <3>1. /\ op.plan.supplied \in Config /\ op.plan.supplied # None
          /\ files' = [files EXCEPT !.config = op.plan.supplied, !.owned = @ \ {"config"}]
      BY <1>8, <1>3, <2>1, <2>3 DEF Configure, Write
    <3>2. files' \in FilesRecord
      BY <3>1, <1>1 DEF FilesRecord
    <3>3. Effect("configure") /\ Gentle("configure")
      BY <2>1, <2>3, <3>1, <1>1 DEF Effect, Gentle, FilesRecord, Piece
    <3> QED BY <2>1, <2>3, <3>2, <3>3, <1>8, FilesWritten DEF Configure, Write
  <2> QED BY <2>2, <2>3
<1>9. CASE InstallAccount
  <2>1. At("account") /\ "account" \in LayingSteps /\ ~op.undo
    BY <1>2, <1>9 DEF InstallAccount, LayingSteps
  <2>2. /\ \/ /\ files.account
              /\ files' = [files EXCEPT !.marker = @ /\ ~op.plan.credential]
           \/ files' = [files EXCEPT !.account = TRUE, !.owned = @ \ {"account"}]
           \/ files' = [files EXCEPT !.marker = TRUE,
                                     !.owned = IF files.marker THEN @ ELSE @ \ {"account"}]
        /\ Advance /\ UNCHANGED <<journal, system, plans, history, spent, scenario>>
    BY <1>9 DEF InstallAccount, Write
  <2>3. files' \in FilesRecord
    <3>1. files.owned \ {"account"} \in SUBSET {"config", "account"}
      BY <1>1 DEF FilesRecord
    <3>2. (files.marker /\ ~op.plan.credential) \in BOOLEAN
      OBVIOUS
    <3> QED BY <2>2, <3>1, <3>2, <1>1, ZenonT(60) DEF FilesRecord
  <2>4. Effect("account") /\ Gentle("account")
    BY <2>1, <2>2, <1>1 DEF Effect, Gentle, FilesRecord, Piece
  <2> QED BY <2>1, <2>2, <2>3, <2>4, FilesWritten
<1>10. CASE SetAccess
  <2>1. At("access") /\ "access" \in LayingSteps /\ Servable(Goal, Subject)
    BY <1>10 DEF SetAccess, LayingSteps
  <2>2. files' = [files EXCEPT !.access = Goal]
    BY <1>10 DEF SetAccess, Write
  <2>3. files' \in FilesRecord
    BY <2>1, <2>2, <1>1, <1>3 DEF FilesRecord
  <2>4. Effect("access") /\ Gentle("access")
    BY <2>1, <2>2, <1>1 DEF Effect, Gentle, FilesRecord, Piece
  <2> QED BY <2>1, <2>3, <2>4, <1>10, FilesWritten DEF SetAccess, Write
<1>11. CASE SetDropIn
  <2>1. At("dropin") /\ "dropin" \in LayingSteps
    BY <1>11 DEF SetDropIn, LayingSteps
  <2>2. files' = [files EXCEPT !.dropin = DropIn(files.access, Subject)]
    BY <1>11 DEF SetDropIn, Write
  <2>3. DropIn(files.access, Subject) \in Artifact \cup {None}
    BY <2>1, <1>3 DEF DropIn
  <2>4. files' \in FilesRecord
    BY <2>2, <2>3, <1>1 DEF FilesRecord
  <2>5. Effect("dropin") /\ Gentle("dropin")
    BY <2>1, <2>2, <1>1 DEF Effect, Gentle, FilesRecord, Piece
  <2> QED BY <2>1, <2>4, <2>5, <1>11, FilesWritten DEF SetDropIn, Write
<1>12. CASE RepairOwners
  <2>1. At("owners") /\ "owners" \in LayingSteps /\ ~op.undo
    BY <1>2, <1>12 DEF RepairOwners, LayingSteps
  <2>2. files' = [files EXCEPT !.owned = {"config", "account"}]
    BY <1>12 DEF RepairOwners, Write
  <2>3. files' \in FilesRecord
    BY <2>2, <1>1 DEF FilesRecord
  <2>4. Effect("owners") /\ Gentle("owners")
    BY <2>1, <2>2, <1>1 DEF Effect, Gentle, FilesRecord, Piece
  <2> QED BY <2>1, <2>3, <2>4, <1>12, FilesWritten DEF RepairOwners, Write
<1>13. CASE SetCurrent
  <2>1. At("pointer")
    BY <1>13 DEF SetCurrent
  <2>2. files' = [files EXCEPT !.current = Subject.version]
    BY <1>13 DEF SetCurrent, Write
  <2>3. Subject.version \in Version
    <3>1. Subject # None
      <4>1. CASE ~op.undo
        BY <4>1, <2>1, <1>3, ConfigAssumption DEF Subject
      <4>2. CASE op.undo
        <5>1. op # None /\ "pointer" \in Left(op.todo) /\ ~Removes
          BY <1>1, <1>2, <2>1, HeadIsNearest DEF At
        <5>2. op.previous # None
          BY <4>2, <5>1, <1>1 DEF Programmed, Undoing
        <5> QED BY <4>2, <5>1, <5>2 DEF IInv, Recorded, Subject
      <4> QED BY <4>1, <4>2
    <3> QED BY <3>1, <2>1, <1>3 DEF Version
  <2>4. files' \in FilesRecord
    BY <2>2, <2>3, <1>1 DEF FilesRecord
  <2>5. Effect("pointer") /\ Gentle("pointer")
    BY <2>2, <1>1 DEF Effect, Gentle, FilesRecord, Piece
  <2> QED BY <2>1, <2>4, <2>5, <1>13, FilesWritten DEF SetCurrent, Write
<1>14. CASE RemoveCurrent
  <2>1. At("remove-pointer")
    BY <1>14 DEF RemoveCurrent
  <2>2. files' = [files EXCEPT !.current = None]
    BY <1>14 DEF RemoveCurrent, Write
  <2>3. files' \in FilesRecord
    BY <2>2, <1>1 DEF FilesRecord
  <2>4. Effect("remove-pointer") /\ Gentle("remove-pointer")
    BY <2>2, <1>1 DEF Effect, Gentle, FilesRecord, Piece
  <2> QED BY <2>1, <2>3, <2>4, <1>14, FilesWritten DEF RemoveCurrent, Write
<1> QED BY <1>4, <1>5, <1>6, <1>7, <1>8, <1>9, <1>10, <1>11, <1>12, <1>13, <1>14

-----------------------------------------------------------------------------
(* Steps that only command systemd.                                         *)

ServiceCommands == {"reload", "helper", "enable", "restart", "verify", "halt-helper", "halt",
                    "disable", "forget-units"}

(* Where an operation is when it commands systemd.                          *)
LEMMA Commanding ==
  ASSUME TypeOK, Programmed, Recorded, Taking, NEW h, h \in ServiceCommands, op # None,
         h \in Left(op.todo), Nearest(h)
  PROVE  /\ h \notin Phase /\ h \notin LastSteps /\ h \in Step
         /\ Removes \/ Repairs \/ Advancing \/ Undoing
         /\ Removes => h \in {"halt-helper", "disable", "forget-units"} /\ ~Repairs /\ ~Advancing /\ ~Undoing
         /\ Repairs \/ Advancing => h \in StartingSteps
         /\ Undoing => h # "forget-units"
         /\ Serving => history.removing /\ ~Anew
         /\ ~Removes => Unfinished /\ ~Due("prepared")
         /\ (Advancing /\ h = "restart") => Laid /\ Active
<1>1. h \notin Phase /\ h \notin LastSteps /\ h \in Step /\ Left(op.todo) \subseteq Step
  BY StepSet, PhaseSet, OperationTyped, HeadIsNearest DEF ServiceCommands, LastSteps
<1>2. op.undo \in BOOLEAN /\ Kind \in Kinds /\ (Removes => op.plan \in RemovalPlan)
      /\ (~Removes => op.plan \in Plan)
  BY OperationTyped
<1>3. /\ Removes \/ Repairs \/ Advancing \/ Undoing
      /\ Removes => ~Repairs /\ ~Advancing /\ ~Undoing
  BY <1>2 DEF Plan, Repairs, Advancing, Undoing, Removes, Programmed
<1>4. Removes => h \in {"halt-helper", "disable", "forget-units"}
  BY DEF Programmed, RemovalSteps, ServiceCommands
<1>5. Repairs \/ Advancing => h \in StartingSteps
  BY PhaseSet DEF Programmed, MendingSteps, LayingSteps, StartingSteps, ServiceCommands
<1>6. Undoing => h # "forget-units"
  BY DEF Programmed, UndoSteps
<1>7. ASSUME ~Removes PROVE ~Due("prepared") /\ Unfinished
  <2>1. CASE Undoing
    <3>1. ~Due("prepared")
      BY <2>1 DEF Programmed, UndoSteps, Due
    <3> QED BY <3>1, <1>7 DEF Recorded, Removes
  <2>2. CASE Repairs \/ Advancing
    <3>1. Before(Kind, "prepared", h)
      BY <2>2, <1>2, <1>5, Order
    <3>2. ~Due("prepared")
      BY <3>1, <1>1, <1>2, BeforeIsOrder, StepSet DEF Nearest, Due
    <3> QED BY <3>2, <1>7 DEF Recorded, Removes
  <2> QED BY <2>1, <2>2, <1>3, <1>7
<1>8. Advancing => Due("services")
  BY <1>5 DEF Programmed, Due
<1>9. ~Removes => ~Serving
  <2>1. CASE Advancing
    BY <2>1, <1>7, <1>8 DEF Recorded, Serving, Unfinished
  <2>2. CASE Repairs \/ Undoing
    BY <2>2, <1>7 DEF Recorded, Serving, Unfinished, Repairs, Undoing
  <2> QED BY <2>1, <2>2, <1>3
<1>10. Serving => history.removing /\ ~Anew
  BY <1>9 DEF Taking, Serving, Anew, Removes
<1>11. (Advancing /\ h = "restart") => Laid /\ Active
  <2> SUFFICES ASSUME Advancing, h = "restart" PROVE Laid /\ Active
    OBVIOUS
  <2>1. ~Due("activated")
    <3>1. Before(Kind, "activated", h)
      BY <1>2, Order
    <3> QED BY <3>1, <1>1, <1>2, BeforeIsOrder, StepSet DEF Nearest, Due
  <2>2. ~Removes
    BY DEF Advancing, Removes
  <2> QED BY <2>1, <2>2, <1>7, <1>8, PhaseSet DEF Recorded, Laid, Active, Unfinished, TypeOK, JournalRecord
<1> QED BY <1>1, <1>3, <1>4, <1>5, <1>6, <1>7, <1>10, <1>11

(* What a command to systemd leaves alone.                                  *)
LEMMA CommandStep ==
  ASSUME IInv, NEW h, h \in ServiceCommands, At(h), Advance, system' \in SystemRecord,
         UNCHANGED <<journal, files, plans, history, spent, scenario>>
  PROVE  /\ Moved(h) /\ Nearest(h)
         /\ TypeOK' /\ Programmed' /\ SetRight' /\ Recorded'
         /\ LaidDown' /\ Activated' /\ Served' /\ PlansHold' /\ AccessSet' /\ Laying'
         /\ Returnable' /\ Fitting' /\ AccountKept'
         /\ Removes \/ Repairs \/ Advancing \/ Undoing
         /\ Removes => h \in {"halt-helper", "disable", "forget-units"} /\ ~Repairs /\ ~Advancing /\ ~Undoing
         /\ Repairs \/ Advancing => h \in StartingSteps
         /\ Undoing => h # "forget-units"
         /\ ~Removes => Unfinished /\ ~Due("prepared")
         /\ (Advancing /\ h = "restart") => Laid /\ Active
<1>1. /\ op # None /\ h = Head(op.todo) /\ op' = [op EXCEPT !.todo = Tail(@)]
      /\ TypeOK /\ Programmed /\ SetRight /\ Recorded /\ Taking
  BY DEF At, Advance, IInv
<1>2. h \in Left(op.todo) /\ Nearest(h) /\ h \notin LastSteps
  BY <1>1, HeadIsNearest DEF ServiceCommands, LastSteps
<1>3. Moved(h) /\ Programmed' /\ SetRight'
  BY <1>1, <1>2, Moving, ProgramMoves
<1>4. /\ h \notin Phase /\ h \notin LastSteps /\ h \in Step
      /\ Removes \/ Repairs \/ Advancing \/ Undoing
      /\ Removes => h \in {"halt-helper", "disable", "forget-units"} /\ ~Repairs /\ ~Advancing /\ ~Undoing
      /\ Repairs \/ Advancing => h \in StartingSteps
      /\ Undoing => h # "forget-units"
      /\ Serving => history.removing /\ ~Anew
      /\ ~Removes => Unfinished /\ ~Due("prepared")
      /\ (Advancing /\ h = "restart") => Laid /\ Active
  BY <1>1, <1>2, Commanding
<1>5. Recorded'
  BY <1>1, <1>3, <1>4, RecordMoves
<1>6. TypeOK'
  BY <1>1, <1>3 DEF TypeOK, Moved
<1>7. /\ Repairs' = Repairs /\ Advancing' = Advancing /\ Undoing' = Undoing /\ Removes' = Removes
      /\ \A s \in Step : Due(s)' <=> Due(s) /\ s # h
  BY <1>3, MovedKinds
<1>8. /\ op'.plan = op.plan /\ op'.undo = op.undo /\ op'.failed = op.failed
      /\ op'.previous = op.previous /\ op'.previousSource = op.previousSource
      /\ Subject' = Subject /\ Goal' = Goal /\ op' # None
  BY <1>3 DEF Moved, Subject, Goal
<1>9. /\ Laid' = Laid /\ Active' = Active /\ Serving' = Serving /\ Unfinished' = Unfinished
      /\ Anew' = Anew
  BY <1>1, <1>8 DEF Laid, Active, Serving, Unfinished, Anew
<1>10. Kept' = Kept /\ Unharmed' = Unharmed /\ Untouched' = Untouched
  BY <1>9 DEF Kept, Unharmed, Untouched
<1>11. LaidDown' /\ Activated' /\ PlansHold'
  BY <1>9, <1>10 DEF IInv, LaidDown, Activated, PlansHold, StillInOrder, HasAccount, Owned, BackedUp,
                     PiecesOf, WebOf, ReadAccess
<1>12. Served'
  BY <1>4, <1>9, <1>10 DEF Served, Kept, Unharmed
<1>13. {"access", "dropin", "release", "copy", "backup", "directories", "configure", "account", "owners"}
         \cup Piece \subseteq Step /\ h \notin Piece
       /\ h \notin {"access", "dropin", "release", "copy", "backup", "directories", "configure",
                    "account", "owners"}
  BY StepSet DEF ServiceCommands, Piece
<1>14. AccessSet'
  BY <1>7, <1>8, <1>13 DEF IInv, AccessSet, Servable
<1>15. Laying'
  BY <1>7, <1>8, <1>13 DEF IInv, Laying, HasAccount, Owned, WebOf, ReadAccess
<1>16. Returnable' /\ Fitting' /\ AccountKept'
  BY <1>1, <1>7, <1>8, <1>9 DEF IInv, Returnable, Fitting, AccountKept, HasAccount
<1> QED BY <1>2, <1>3, <1>4, <1>5, <1>6, <1>11, <1>12, <1>14, <1>15, <1>16

(* What a command to start or load something does.                          *)
Commanded(h) ==
  /\ \/ h # "reload" /\ system'.units = system.units /\ system'.dropin = system.dropin
     \/ h = "reload" /\ system' = Loaded
  /\ \/ h # "enable" /\ system'.enabled = system.enabled
     \/ h = "enable" /\ system'.enabled
  /\ system.helper => system'.helper
  /\ h = "helper" => (Subject.maintained => system'.helper)
  /\ system'.running = system.running \/ h = "restart"
  /\ h = "restart" =>
       /\ (Advancing /\ Unharmed /\ ~history.undone) => RunningOf(op.plan.artifact)'
       /\ (Repairs /\ ~history.removing /\ ~history.undone) => RunningOf(op.plan.artifact)'
       /\ (Undoing /\ op.previous # None /\ ~op.failed /\ ~history.removing) =>
            RunningOf(op.previousSource)'

(* What is so after each command of what the steps left rely on.            *)
LEMMA CommandSteps ==
  ASSUME IInv,
         \/ ReloadUnits /\ ~(op.undo /\ ~op.restorable)
         \/ ActivateHelper \/ EnableUnits \/ RestartUnits \/ RequireActive
         \/ HaltHelper \/ HaltUnits \/ DisableUnits \/ ForgetUnits
  PROVE  IInv'
<1>1. /\ files \in FilesRecord /\ system \in SystemRecord
      /\ TypeOK /\ Programmed /\ SetRight /\ Recorded
  BY DEF IInv, TypeOK
<1>2. ASSUME NEW h, h \in ServiceCommands, At(h), Advance, system' \in SystemRecord,
             UNCHANGED <<journal, files, plans, history, spent, scenario>>,
             Starting', Mending', Restoring', Taking', Consented'
      PROVE  IInv'
  BY <1>2, CommandStep DEF IInv
(* Where the operation is, and what it has done.                            *)
<1>3. ASSUME NEW h, h \in ServiceCommands, At(h), Advance, system' \in SystemRecord,
             UNCHANGED <<journal, files, plans, history, spent, scenario>>
      PROVE  /\ op # None /\ h \in Left(op.todo) /\ Nearest(h) /\ h \in Step
             /\ Due(h) /\ ~Due(h)'
             /\ Removes \/ Repairs \/ Advancing \/ Undoing
             /\ Removes => h \in {"halt-helper", "disable", "forget-units"} /\ ~Repairs /\ ~Advancing /\ ~Undoing
             /\ Repairs \/ Advancing => h \in StartingSteps
             /\ Undoing => h # "forget-units"
             /\ ~Removes => Unfinished /\ ~Due("prepared") /\ op.plan \in Plan
             /\ (Advancing /\ h = "restart") => Laid /\ Active
             /\ Repairs' = Repairs /\ Advancing' = Advancing /\ Undoing' = Undoing /\ Removes' = Removes
             /\ \A s \in Step : Due(s)' <=> Due(s) /\ s # h
             /\ op'.plan = op.plan /\ op'.undo = op.undo /\ op'.failed = op.failed
             /\ op'.previous = op.previous /\ op'.previousSource = op.previousSource
             /\ Subject' = Subject /\ Goal' = Goal /\ op' # None
             /\ Unharmed' = Unharmed /\ ReadAccess' = ReadAccess
             /\ ~(op.undo /\ op.failed) => (h = "reload" => Due("restart"))
  <2>1. Moved(h) /\ Nearest(h)
    BY <1>3, CommandStep
  <2>2. /\ Removes \/ Repairs \/ Advancing \/ Undoing
        /\ Removes => h \in {"halt-helper", "disable", "forget-units"} /\ ~Repairs /\ ~Advancing /\ ~Undoing
        /\ Repairs \/ Advancing => h \in StartingSteps
        /\ Undoing => h # "forget-units"
        /\ ~Removes => Unfinished /\ ~Due("prepared")
        /\ (Advancing /\ h = "restart") => Laid /\ Active
    BY <1>3, CommandStep
  <2>3. /\ op # None /\ h \in Left(op.todo) /\ h \in Step /\ Due(h) /\ op' # None
        /\ op'.plan = op.plan /\ op'.undo = op.undo /\ op'.failed = op.failed
        /\ op'.previous = op.previous /\ op'.previousSource = op.previousSource
    BY <2>1 DEF Moved, Due
  <2>4. /\ Repairs' = Repairs /\ Advancing' = Advancing /\ Undoing' = Undoing /\ Removes' = Removes
        /\ \A s \in Step : Due(s)' <=> Due(s) /\ s # h
    BY <2>1, MovedKinds
  <2>5. Subject' = Subject /\ Goal' = Goal /\ Unharmed' = Unharmed /\ ReadAccess' = ReadAccess
    BY <2>3, <1>3 DEF Subject, Goal, Unharmed, Kept, Anew, Unfinished, ReadAccess
  <2>6. ~Removes => op.plan \in Plan
    BY <2>3, <1>1, OperationTyped
  <2>7. ~(op.undo /\ op.failed) => (h = "reload" => Due("restart"))
    BY <2>3, <1>1 DEF SetRight
  <2> QED BY <2>1, <2>2, <2>3, <2>4, <2>5, <2>6, <2>7
<1>4. {"reload", "helper", "enable", "restart", "verify", "halt-helper", "halt", "disable",
       "forget-units", "strip", "remove-etc", "uninstalled", "owners", "account", "directories", "pointer", "dropin",
       "access", "activated", "services"} \cup Piece \subseteq Step
  BY StepSet DEF Piece
<1>5. files.piece["units"] \in Artifact \cup {None} /\ Loaded \in SystemRecord
  BY <1>1 DEF FilesRecord, SystemRecord, Loaded, Piece
(* What does not change while nothing but systemd is commanded.             *)
<1>6. ASSUME NEW h, h \in ServiceCommands, At(h), Advance, system' \in SystemRecord,
             UNCHANGED <<journal, files, plans, history, spent, scenario>>,
             Commanded(h),
             ~Removes
      PROVE  Starting' /\ Mending' /\ Restoring' /\ Taking'
  <2>1. /\ op # None /\ Nearest(h) /\ h \in Step /\ Due(h) /\ ~Due(h)'
        /\ Repairs' = Repairs /\ Advancing' = Advancing /\ Undoing' = Undoing /\ Removes' = Removes
        /\ \A s \in Step : Due(s)' <=> Due(s) /\ s # h
        /\ op'.plan = op.plan /\ op'.undo = op.undo /\ op'.failed = op.failed
        /\ op'.previous = op.previous /\ op'.previousSource = op.previousSource
        /\ Unharmed' = Unharmed /\ ReadAccess' = ReadAccess
        /\ ~(op.undo /\ op.failed) => (h = "reload" => Due("restart"))
    BY <1>3, <1>6
  <2>2. h \notin Piece /\ h \notin {"owners", "account", "directories", "pointer", "dropin", "access",
                                    "activated", "services"}
    BY <1>6 DEF ServiceCommands, Piece
  <2>3. h = "reload" => UnitsLoaded' /\ DropInLoaded'
    BY <1>6, <1>1 DEF UnitsLoaded, DropInLoaded, Loaded, SystemRecord, Commanded
  <2>4. (h # "reload" /\ UnitsLoaded /\ DropInLoaded) => UnitsLoaded' /\ DropInLoaded'
    BY <1>6 DEF UnitsLoaded, DropInLoaded, Commanded
  <2>5. Starting'
    <3> SUFFICES ASSUME Advancing PROVE Starting'
      BY <2>1 DEF Starting
    <3>1. Subject = op.plan.artifact /\ ~(op.undo /\ op.failed)
      BY DEF Subject, Advancing
    <3>2. (Due("activated")' /\ ~Due("pointer")') => files'.current = op'.plan.artifact.version
      BY <2>1, <2>2, <1>4, <1>6 DEF IInv, Starting
    <3>3. (Due("services")' /\ ~Due("reload")') => UnitsLoaded' /\ DropInLoaded'
      BY <2>1, <2>2, <2>3, <2>4, <1>4 DEF IInv, Starting
    <3>4. (Due("services")' /\ ~Due("helper")') => HelperOf(op.plan.artifact)'
      BY <3>1, <2>1, <2>2, <1>4, <1>6 DEF IInv, Starting, HelperOf, Commanded
    <3>5. (Due("services")' /\ ~Due("enable")') => system'.enabled
      BY <2>1, <2>2, <1>4, <1>6 DEF IInv, Starting, Commanded
    <3>6. (Due("services")' /\ ~Due("restart")' /\ Unharmed' /\ ~history'.undone) =>
            RunningOf(op.plan.artifact)'
      BY <2>1, <2>2, <1>4, <1>6 DEF IInv, Starting, RunningOf, Commanded
    <3> QED BY <3>2, <3>3, <3>4, <3>5, <3>6, <2>1 DEF Starting
  <2>6. Mending'
    <3> SUFFICES ASSUME Repairs, ~history.removing PROVE Mending'
      BY <2>1, <1>6 DEF Mending
    <3>1. Subject = op.plan.artifact /\ ~(op.undo /\ op.failed)
      BY DEF Subject, Repairs
    <3>2. /\ files'.config # None /\ HasAccount' /\ BackedUp(op.plan.snapshot)'
          /\ ~Due("owners")' => Owned'
          /\ ~Due("directories")' => files'.directories
      BY <2>1, <2>2, <1>4, <1>6 DEF IInv, Mending, HasAccount, BackedUp, Owned
    <3>3. ASSUME ~history.undone
          PROVE  /\ \A p \in Piece : ~Due(p)' => files'.piece[p] = PieceOf(p, op'.plan.artifact)
                 /\ ~Due("pointer")' => files'.current = op'.plan.artifact.version
                 /\ ~Due("dropin")' /\ ~Due("access")' => WebOf(op.plan.artifact)'
                 /\ system'.enabled
                 /\ ~Due("helper")' => HelperOf(op.plan.artifact)'
                 /\ ~Due("reload")' => UnitsLoaded' /\ DropInLoaded'
                 /\ ~Due("restart")' => RunningOf(op.plan.artifact)'
      <4>1. \A p \in Piece : ~Due(p)' => files'.piece[p] = PieceOf(p, op'.plan.artifact)
        BY <3>3, <2>1, <2>2, <1>4, <1>6 DEF IInv, Mending
      <4>2. ~Due("pointer")' => files'.current = op'.plan.artifact.version
        BY <3>3, <2>1, <2>2, <1>4, <1>6 DEF IInv, Mending
      <4>3. ~Due("dropin")' /\ ~Due("access")' => WebOf(op.plan.artifact)'
        BY <3>3, <2>1, <2>2, <1>4, <1>6 DEF IInv, Mending, WebOf
      <4>4. system'.enabled /\ (~Due("helper")' => HelperOf(op.plan.artifact)')
        BY <3>1, <3>3, <2>1, <2>2, <1>4, <1>6 DEF IInv, Mending, HelperOf, Commanded
      <4>5. ~Due("reload")' => UnitsLoaded' /\ DropInLoaded'
        BY <3>3, <2>1, <2>2, <2>3, <2>4, <1>4 DEF IInv, Mending
      <4>6. ~Due("restart")' => RunningOf(op.plan.artifact)'
        BY <3>3, <2>1, <2>2, <1>4, <1>6 DEF IInv, Mending, RunningOf, Commanded
      <4> QED BY <4>1, <4>2, <4>3, <4>4, <4>5, <4>6
    <3> QED BY <3>2, <3>3, <2>1, <1>6 DEF Mending
  <2>7. Restoring'
    <3> SUFFICES ASSUME Undoing PROVE Restoring'
      BY <2>1 DEF Restoring
    <3>1. Subject = op.previousSource /\ history'.undone
      BY <1>6 DEF Subject, Undoing, IInv, Restoring
    <3>2. (op'.plan.mode = "repair" /\ ~history'.removing) =>
            /\ files'.config # None /\ HasAccount' /\ Owned' /\ files'.directories
            /\ BackedUp(op.plan.snapshot)'
      BY <2>1, <1>6 DEF IInv, Restoring, HasAccount, BackedUp, Owned
    <3>3. ASSUME op.previous # None, ~op.failed
          PROVE  /\ \A p \in Piece : ~Due(p)' => files'.piece[p] = PieceOf(p, op'.previousSource)
                 /\ ~Due("pointer")' => files'.current = op'.previous
                 /\ ~Due("dropin")' => WebOf(op.previousSource)'
                 /\ ~Due("enable")' => system'.enabled
                 /\ ~Due("helper")' => HelperOf(op.previousSource)'
                 /\ ~Due("reload")' => UnitsLoaded' /\ DropInLoaded'
                 /\ (~Due("restart")' /\ ~history'.removing) => RunningOf(op.previousSource)'
      <4>1. \A p \in Piece : ~Due(p)' => files'.piece[p] = PieceOf(p, op'.previousSource)
        BY <3>3, <2>1, <2>2, <1>4, <1>6 DEF IInv, Restoring
      <4>2. ~Due("pointer")' => files'.current = op'.previous
        BY <3>3, <2>1, <2>2, <1>4, <1>6 DEF IInv, Restoring
      <4>3. ~Due("dropin")' => WebOf(op.previousSource)'
        BY <3>3, <2>1, <2>2, <1>4, <1>6 DEF IInv, Restoring, WebOf
      <4>4. (~Due("enable")' => system'.enabled) /\ (~Due("helper")' => HelperOf(op.previousSource)')
        BY <3>1, <3>3, <2>1, <2>2, <1>4, <1>6 DEF IInv, Restoring, HelperOf, Commanded
      <4>5. ~Due("reload")' => UnitsLoaded' /\ DropInLoaded'
        BY <3>3, <2>1, <2>2, <2>3, <2>4, <1>4 DEF IInv, Restoring
      <4>6. (~Due("restart")' /\ ~history'.removing) => RunningOf(op.previousSource)'
        BY <3>3, <2>1, <2>2, <1>4, <1>6 DEF IInv, Restoring, RunningOf, Commanded
      <4> QED BY <4>1, <4>2, <4>3, <4>4, <4>5, <4>6
    <3> QED BY <3>1, <3>2, <3>3, <2>1 DEF Restoring
  <2>8. Taking'
    BY <2>1, <1>6 DEF Taking
  <2> QED BY <2>5, <2>6, <2>7, <2>8

<1>7. (files.dropin # None \/ system.dropin \/ (system.running # None /\ system.running.exposed)) =>
        history.consent
  BY DEF IInv, Consented
<1>8. CASE ReloadUnits /\ ~(op.undo /\ ~op.restorable)
  <2>1. /\ At("reload") /\ "reload" \in ServiceCommands /\ Advance /\ system' = Loaded
        /\ UNCHANGED <<journal, files, plans, history, spent, scenario>>
    BY <1>8 DEF ReloadUnits, Systemd, ServiceCommands
  <2>2. /\ system'.enabled = system.enabled /\ system'.helper = system.helper
        /\ system'.running = system.running /\ system'.dropin = (files.dropin # None)
    BY <2>1, <1>1 DEF Loaded, SystemRecord
  <2>3. ~Removes /\ system' \in SystemRecord
    BY <2>1, <1>3, <1>5
  <2>4. Starting' /\ Mending' /\ Restoring' /\ Taking'
    <3>1. Commanded(Head(op.todo))
      BY <2>1, <2>2 DEF Commanded, At
    <3> QED BY <2>1, <2>2, <2>3, <3>1, <1>6 DEF At
  <2>5. Consented'
    BY <2>1, <2>2, <2>3, <1>3, <1>7 DEF IInv, Consented
  <2> QED BY <2>1, <2>3, <2>4, <2>5, <1>2
<1>9. CASE ActivateHelper
  <2>1. /\ At("helper") /\ "helper" \in ServiceCommands /\ Advance
        /\ system' = [system EXCEPT !.helper = @ \/ Subject.maintained]
        /\ UNCHANGED <<journal, files, plans, history, spent, scenario>>
    BY <1>9 DEF ActivateHelper, Systemd, ServiceCommands
  <2>2. op # None /\ "helper" \in Left(op.todo)
    BY <2>1, <1>1, HeadIsNearest DEF At
  <2>3. ~Removes
    BY <2>2, <1>1 DEF Programmed, RemovalSteps
  <2>4. Subject \in Artifact
    <3>1. CASE ~op.undo
      BY <2>2, <2>3, <3>1, <1>1, OperationTyped DEF Subject, Plan
    <3>2. CASE op.undo
      <4>1. op.previous # None
        BY <2>2, <3>2, <1>1 DEF Programmed, Undoing
      <4> QED BY <2>2, <2>3, <3>2, <4>1, <1>1, OperationTyped DEF Recorded, Subject
    <3> QED BY <3>1, <3>2
  <2>5. Subject.maintained \in BOOLEAN
    BY <2>4, ArtifactAssumption
  <2>6. /\ system' \in SystemRecord
        /\ system'.units = system.units /\ system'.dropin = system.dropin
        /\ system'.enabled = system.enabled /\ system'.running = system.running
        /\ system'.helper = (system.helper \/ Subject.maintained)
    BY <2>1, <2>5, <1>1 DEF SystemRecord
  <2>7. Starting' /\ Mending' /\ Restoring' /\ Taking'
    <3>1. Commanded(Head(op.todo))
      BY <2>1, <2>6 DEF Commanded, At
    <3> QED BY <2>1, <2>3, <2>6, <3>1, <1>6 DEF At
  <2>8. Consented'
    BY <2>1, <2>3, <2>6, <1>3, <1>7 DEF IInv, Consented
  <2> QED BY <2>1, <2>6, <2>7, <2>8, <1>2
<1>10. CASE EnableUnits
  <2>1. /\ At("enable") /\ "enable" \in ServiceCommands /\ Advance
        /\ system' = [system EXCEPT !.enabled = TRUE]
        /\ UNCHANGED <<journal, files, plans, history, spent, scenario>>
    BY <1>10 DEF EnableUnits, Systemd, ServiceCommands
  <2>2. /\ system' \in SystemRecord
        /\ system'.units = system.units /\ system'.dropin = system.dropin
        /\ system'.enabled /\ system'.running = system.running
        /\ system'.helper = system.helper
    BY <2>1, <1>1 DEF SystemRecord
  <2>3. ~Removes
    BY <2>1, <2>2, <1>3
  <2>4. Starting' /\ Mending' /\ Restoring' /\ Taking'
    <3>1. Commanded(Head(op.todo))
      BY <2>1, <2>2 DEF Commanded, At
    <3> QED BY <2>1, <2>2, <2>3, <3>1, <1>6 DEF At
  <2>5. Consented'
    BY <2>1, <2>2, <2>3, <1>3, <1>7 DEF IInv, Consented
  <2> QED BY <2>1, <2>2, <2>4, <2>5, <1>2
<1>11. CASE RequireActive
  <2>1. /\ At("verify") /\ "verify" \in ServiceCommands /\ Advance /\ system' = system
        /\ UNCHANGED <<journal, files, plans, history, spent, scenario>>
    BY <1>11 DEF RequireActive, Systemd, ServiceCommands
  <2>2. ~Removes
    BY <2>1, <1>1, <1>3
  <2>3. Starting' /\ Mending' /\ Restoring' /\ Taking'
    <3>1. Commanded(Head(op.todo))
      BY <2>1 DEF Commanded, At
    <3> QED BY <2>1, <2>2, <3>1, <1>1, <1>6 DEF At
  <2>4. Consented'
    BY <2>1, <2>2, <1>1, <1>3, <1>7 DEF IInv, Consented
  <2> QED BY <2>1, <2>3, <2>4, <1>1, <1>2
<1>12. CASE RestartUnits
  <2>1. /\ At("restart") /\ "restart" \in ServiceCommands /\ Advance
        /\ system' = [system EXCEPT !.running = Started(system.units, system.dropin)]
        /\ UNCHANGED <<journal, files, plans, history, spent, scenario>>
    BY <1>12 DEF RestartUnits, Systemd, ServiceCommands
  <2>2. Started(system.units, system.dropin) \in [code: Artifact, exposed: BOOLEAN] \cup {None}
    <3>1. system.dropin \in BOOLEAN /\ files.current \in Version \cup {None}
      BY <1>1 DEF FilesRecord, SystemRecord
    <3>2. files.current # None => files.release[files.current] \in Artifact \cup {None}
      BY <3>1, <1>1 DEF FilesRecord
    <3> QED BY <3>1, <3>2 DEF Started
  <2>3. /\ system' \in SystemRecord
        /\ system'.units = system.units /\ system'.dropin = system.dropin
        /\ system'.enabled = system.enabled /\ system'.helper = system.helper
        /\ system'.running = Started(system.units, system.dropin)
    BY <2>1, <2>2, <1>1 DEF SystemRecord
  <2>4. /\ op # None /\ Nearest("restart") /\ ~Removes /\ ReadAccess' = ReadAccess
        /\ Unfinished /\ ~Due("prepared") /\ op.plan \in Plan
        /\ Advancing => Laid /\ Active
        /\ op'.plan = op.plan /\ op'.previousSource = op.previousSource
    BY <2>1, <2>3, <1>3
  <2>5. \A s \in Piece \cup {"access", "dropin", "pointer", "reload", "activated"} : ~Due(s)
    <3>1. Kind \in Kinds /\ Left(op.todo) \subseteq Step
      BY <2>4, <1>1, OperationTyped, HeadIsNearest
    <3>2. \A s \in Piece \cup {"access", "dropin", "pointer", "reload", "activated"} :
            Before(Kind, s, "restart") /\ s \in Step
      BY <3>1, <1>4, Order DEF LayingSteps, Piece
    <3> QED BY <3>1, <3>2, <2>4, <1>4, BeforeIsOrder DEF Nearest, Due
  (* The web service starts from a release, its pieces and its drop-in.     *)
  <2>6. ASSUME NEW a, a \in Artifact, files.current \in Version, files.release[files.current] = a, PiecesOf(a), WebOf(a),
               UnitsLoaded, DropInLoaded
        PROVE  system'.running = [code |-> a, exposed |-> ReadAccess = "lan"]
    <3>1. system.units = a /\ a # None /\ files.current # None
      BY <2>6, ConfigAssumption, NoneAssumption DEF UnitsLoaded, PiecesOf, PieceOf, Piece
    <3>2. /\ system.dropin = (ReadAccess = "lan")
          /\ ReadAccess = "lan" => a.lan
      BY <2>6, <3>1 DEF DropInLoaded, WebOf, DropIn, Servable
    <3> QED BY <2>3, <2>6, <3>1, <3>2 DEF Started
  <2>7. ASSUME Advancing, Unharmed, ~history.undone PROVE RunningOf(op.plan.artifact)'
    <3>1. journal.source = op.plan.artifact /\ op.plan.artifact \in Artifact
          /\ journal.target = op.plan.artifact.version /\ op.plan.artifact.version \in Version
      BY <2>4, <1>1 DEF Recorded, Plan, Version
    <3>2. Laid /\ Active /\ Kept /\ Untouched
      BY <2>4, <2>7 DEF Unharmed, Untouched
    <3>3. /\ files.release[op.plan.artifact.version] = op.plan.artifact
          /\ PiecesOf(op.plan.artifact) /\ WebOf(op.plan.artifact)
          /\ files.current = op.plan.artifact.version
      BY <2>7, <3>1, <3>2 DEF IInv, LaidDown, Activated
    <3>4. UnitsLoaded /\ DropInLoaded
      <4>1. "restart" \in Left(op.todo)
        BY <2>1, <2>4, <1>1, HeadIsNearest DEF At
      <4>2. Due("services")
        BY <2>4, <2>7, <4>1, <1>1 DEF Programmed, Due, StartingSteps
      <4> QED BY <2>5, <2>7, <4>2 DEF IInv, Starting
    <3> QED BY <2>4, <2>6, <3>1, <3>3, <3>4 DEF RunningOf
  <2>8. ASSUME Repairs, ~history.removing, ~history.undone PROVE RunningOf(op.plan.artifact)'
    <3>1. op.plan.artifact \in Artifact /\ op.plan.artifact.version \in Version
      BY <2>4 DEF Plan, Version
    <3>2. /\ files.current = op.plan.artifact.version
          /\ PiecesOf(op.plan.artifact) /\ WebOf(op.plan.artifact)
          /\ UnitsLoaded /\ DropInLoaded
      BY <2>5, <2>8 DEF IInv, Mending, PiecesOf
    <3>3. files.release[op.plan.artifact.version] = op.plan.artifact
      <4>1. op.previous = op.plan.artifact.version /\ op.previousSource = op.plan.artifact
            /\ op.previous # None
        BY <2>4, <2>8, <3>1, <1>1, NoneAssumption DEF Recorded, Repairs
      <4> QED BY <2>4, <2>8, <4>1 DEF IInv, Returnable
    <3> QED BY <2>4, <2>6, <3>1, <3>2, <3>3 DEF RunningOf
  <2>9. ASSUME Undoing, op.previous # None, ~op.failed, ~history.removing
        PROVE  RunningOf(op.previousSource)'
    <3>1. op.previousSource \in Artifact /\ op.previous \in Version
      BY <2>4, <2>9, <1>1, OperationTyped DEF Recorded
    <3>2. /\ files.current = op.previous
          /\ PiecesOf(op.previousSource) /\ WebOf(op.previousSource)
          /\ UnitsLoaded /\ DropInLoaded
      BY <2>5, <2>9 DEF IInv, Restoring, PiecesOf
    <3>3. files.release[op.previous] = op.previousSource
      BY <2>4, <2>9 DEF IInv, Returnable
    <3> QED BY <2>4, <2>6, <3>1, <3>2, <3>3 DEF RunningOf
  <2>10. Commanded("restart")
    BY <2>1, <2>3, <2>7, <2>8, <2>9 DEF Commanded
  <2>11. Starting' /\ Mending' /\ Restoring' /\ Taking'
    BY <2>1, <2>3, <2>4, <2>10, <1>6
  <2>12. Consented'
    <3>1. (system'.running # None /\ system'.running.exposed) => system.dropin
      BY <2>3 DEF Started
    <3> QED BY <2>1, <2>3, <2>4, <3>1, <1>3, <1>7 DEF IInv, Consented
  <2> QED BY <2>1, <2>3, <2>11, <2>12, <1>2

<1>13. ASSUME NEW h, h \in {"halt-helper", "halt", "disable", "forget-units"}, At(h), Advance,
              UNCHANGED <<journal, files, plans, history, spent, scenario>>,
              \/ h = "halt-helper" /\ system' = [system EXCEPT !.helper = FALSE]
              \/ h = "halt" /\ system' = [system EXCEPT !.running = None]
              \/ h = "disable" /\ system' = [system EXCEPT !.enabled = FALSE, !.running = None]
              \/ h = "forget-units" /\ system' = Loaded
       PROVE  IInv'
  <2>1. h \in ServiceCommands /\ system' \in SystemRecord
    BY <1>13, <1>1, <1>5 DEF ServiceCommands, SystemRecord
  <2>2. /\ op # None /\ Nearest(h) /\ h \in Step /\ Due(h) /\ ~Due(h)' /\ h \in Left(op.todo)
        /\ Removes \/ Undoing
        /\ Removes => h \in {"halt-helper", "disable", "forget-units"} /\ ~Repairs /\ ~Advancing /\ ~Undoing
        /\ Undoing => h # "forget-units"
        /\ Repairs' = Repairs /\ Advancing' = Advancing /\ Undoing' = Undoing /\ Removes' = Removes
        /\ \A s \in Step : Due(s)' <=> Due(s) /\ s # h
        /\ op'.plan = op.plan /\ op'.undo = op.undo /\ op'.failed = op.failed
        /\ op'.previous = op.previous /\ op'.previousSource = op.previousSource
        /\ ReadAccess' = ReadAccess /\ op' # None
    BY <1>13, <2>1, <1>3 DEF StartingSteps
  <2>3. ~Repairs /\ ~Advancing
    BY <2>2 DEF Repairs, Advancing, Undoing
  <2>4. Starting' /\ Mending'
    BY <2>2, <2>3 DEF Starting, Mending
  <2>5. Restoring'
    <3> SUFFICES ASSUME Undoing PROVE Restoring'
      BY <2>2 DEF Restoring
    <3>1. history'.undone
      BY <1>13 DEF IInv, Restoring
    <3>2. (op'.plan.mode = "repair" /\ ~history'.removing) =>
            /\ files'.config # None /\ HasAccount' /\ Owned' /\ files'.directories
            /\ BackedUp(op.plan.snapshot)'
      BY <2>2, <1>13 DEF IInv, Restoring, HasAccount, BackedUp, Owned
    <3>3. ASSUME op.previous # None, ~op.failed
          PROVE  /\ \A p \in Piece : ~Due(p)' => files'.piece[p] = PieceOf(p, op'.previousSource)
                 /\ ~Due("pointer")' => files'.current = op'.previous
                 /\ ~Due("dropin")' => WebOf(op.previousSource)'
                 /\ ~Due("enable")' => system'.enabled
                 /\ ~Due("helper")' => HelperOf(op.previousSource)'
                 /\ ~Due("reload")' => UnitsLoaded' /\ DropInLoaded'
                 /\ (~Due("restart")' /\ ~history'.removing) => RunningOf(op.previousSource)'
      <4>1. /\ h # "disable" /\ h # "forget-units"
            /\ h = "halt-helper" => Due("helper")' /\ system'.running = system.running
            /\ h = "halt" => Due("restart")' /\ system'.helper = system.helper
            /\ system'.enabled = system.enabled /\ system'.units = system.units
            /\ system'.dropin = system.dropin
        BY <3>3, <2>2, <1>1, <1>4, <1>13 DEF Programmed, SystemRecord
      <4>2. h \in {"halt-helper", "halt"} /\ h \notin Piece
        BY <4>1, <1>13 DEF Piece
      <4>3. \A p \in Piece : ~Due(p)' => files'.piece[p] = PieceOf(p, op'.previousSource)
        BY <3>3, <4>2, <2>2, <1>4, <1>13 DEF IInv, Restoring
      <4>4. ~Due("pointer")' => files'.current = op'.previous
        BY <3>3, <4>2, <2>2, <1>4, <1>13 DEF IInv, Restoring
      <4>5. ~Due("dropin")' => WebOf(op.previousSource)'
        BY <3>3, <4>2, <2>2, <1>4, <1>13 DEF IInv, Restoring, WebOf
      <4>6. ~Due("enable")' => system'.enabled
        BY <3>3, <4>1, <4>2, <2>2, <1>4, <1>13 DEF IInv, Restoring
      <4>7. ~Due("helper")' => HelperOf(op.previousSource)'
        BY <3>3, <4>1, <4>2, <2>2, <1>4, <1>13 DEF IInv, Restoring, HelperOf
      <4>8. ~Due("reload")' => UnitsLoaded' /\ DropInLoaded'
        BY <3>3, <4>1, <4>2, <2>2, <1>4, <1>13 DEF IInv, Restoring, UnitsLoaded, DropInLoaded
      <4>9. (~Due("restart")' /\ ~history'.removing) => RunningOf(op.previousSource)'
        BY <3>3, <4>1, <4>2, <2>2, <1>4, <1>13 DEF IInv, Restoring, RunningOf
      <4> QED BY <4>3, <4>4, <4>5, <4>6, <4>7, <4>8, <4>9
    <3> QED BY <3>1, <3>2, <3>3, <2>2 DEF Restoring
  <2>6. Taking'
    <3> SUFFICES ASSUME Removes PROVE Taking'
      BY <2>2 DEF Taking
    <3>1. h = "forget-units" => ~Due("strip")
      <4>1. Kind \in Kinds
        BY <2>2, <1>1, OperationTyped
      <4> QED BY <4>1, <2>2, <1>4, Order, BeforeIsOrder DEF Nearest, Due
    <3>2. ~Due("halt-helper")' => ~system'.helper
      BY <2>2, <1>1, <1>4, <1>13 DEF IInv, Taking, SystemRecord, Loaded
    <3>3. ~Due("disable")' => ~system'.enabled /\ system'.running = None
      BY <2>2, <1>1, <1>4, <1>13 DEF IInv, Taking, SystemRecord, Loaded
    <3>4. ~Due("strip")' => files'.dropin = None
      BY <2>2, <1>4, <1>13 DEF IInv, Taking
    <3>5. ~Due("forget-units")' => ~system'.dropin
      BY <3>1, <2>2, <1>1, <1>4, <1>13 DEF IInv, Taking, SystemRecord, Loaded
    <3>6. (op'.plan.data /\ ~Due("remove-etc")') => files'.access = None
      BY <2>2, <1>4, <1>13 DEF IInv, Taking
    <3>7. /\ history'.removing \/ (journal' = None /\ ~history'.established)
          /\ Due("uninstalled")' => journal' # None
      BY <2>2, <1>4, <1>13 DEF IInv, Taking
    <3> QED BY <3>2, <3>3, <3>4, <3>5, <3>6, <3>7, <2>2 DEF Taking
  <2>7. Consented'
    <3>1. /\ system'.dropin => system.dropin \/ files.dropin # None
          /\ system'.running = system.running \/ system'.running = None
      BY <1>13, <1>1 DEF SystemRecord, Loaded
    <3> QED BY <3>1, <2>2, <1>7, <1>13 DEF IInv, Consented
  <2> QED BY <2>1, <2>4, <2>5, <2>6, <2>7, <1>2, <1>13
<1>14. CASE HaltHelper \/ HaltUnits \/ DisableUnits \/ ForgetUnits
  BY <1>13, <1>14 DEF HaltHelper, HaltUnits, DisableUnits, ForgetUnits, Systemd
<1> QED BY <1>8, <1>9, <1>10, <1>11, <1>12, <1>14

-----------------------------------------------------------------------------
(* Steps that change nothing the rest relies on.                            *)

LEMMA FreeSteps ==
  ASSUME IInv, InstallPackages \/ Validate PROVE IInv'
<1>1. PICK h \in {"apt", "probe"} : At(h) /\ Advance
        /\ UNCHANGED <<journal, system, plans, history, spent, scenario>>
        /\ files' \in {files, [files EXCEPT !.packages = TRUE]}
  BY DEF InstallPackages, Validate, Write
<1>2. /\ op # None /\ h = Head(op.todo) /\ op' = [op EXCEPT !.todo = Tail(@)]
      /\ TypeOK /\ Programmed /\ SetRight /\ Recorded
  BY <1>1 DEF At, Advance, IInv
<1>3. Moved(h) /\ Programmed' /\ SetRight'
  BY <1>1, <1>2, Moving, ProgramMoves DEF LastSteps
<1>4. Recorded'
  BY <1>1, <1>2, <1>3, PhaseSet, RecordMoves
<1>5. /\ files' \in FilesRecord
      /\ files'.release = files.release /\ files'.piece = files.piece
      /\ files'.access = files.access /\ files'.dropin = files.dropin
      /\ files'.config = files.config /\ files'.account = files.account
      /\ files'.marker = files.marker /\ files'.owned = files.owned
      /\ files'.backups = files.backups /\ files'.directories = files.directories
      /\ files'.current = files.current
  BY <1>1, <1>2 DEF TypeOK, FilesRecord
<1>6. TypeOK'
  BY <1>1, <1>2, <1>3, <1>5 DEF TypeOK, Moved
<1>7. /\ Repairs' = Repairs /\ Advancing' = Advancing /\ Undoing' = Undoing /\ Removes' = Removes
      /\ \A s \in Step : Due(s)' <=> Due(s) /\ s # h
  BY <1>3, MovedKinds
<1>8. /\ op'.plan = op.plan /\ op'.undo = op.undo /\ op'.failed = op.failed
      /\ op'.previous = op.previous /\ op'.previousSource = op.previousSource
      /\ Subject' = Subject /\ Goal' = Goal /\ op' # None /\ ReadAccess' = ReadAccess
  BY <1>3, <1>5 DEF Moved, Subject, Goal, ReadAccess
<1>9. /\ Laid' = Laid /\ Active' = Active /\ Serving' = Serving /\ Unfinished' = Unfinished
      /\ Anew' = Anew
  BY <1>1, <1>2, <1>8 DEF Laid, Active, Serving, Unfinished, Anew
<1>10. Kept' = Kept /\ Unharmed' = Unharmed /\ Untouched' = Untouched
  BY <1>1, <1>9 DEF Kept, Unharmed, Untouched
<1>11. {"access", "dropin", "release", "copy", "backup", "directories", "configure", "account", "owners",
        "activated", "services", "pointer", "reload", "helper", "enable", "restart", "halt-helper",
        "disable", "strip", "forget-units", "remove-etc", "uninstalled"}
         \cup Piece \subseteq Step \ {h}
  BY <1>1, StepSet DEF Piece
<1>12. \A s \in {"access", "dropin", "release", "copy", "backup", "directories", "configure", "account",
                 "owners", "activated", "services", "pointer", "reload", "helper", "enable", "restart",
                 "halt-helper", "disable", "strip", "forget-units", "remove-etc", "uninstalled"}
                  \cup Piece :
         Due(s)' <=> Due(s)
  BY <1>7, <1>11
<1>13. LaidDown' /\ Activated' /\ Served' /\ PlansHold'
  <2>1. LaidDown'
    BY <1>1, <1>5, <1>8, <1>9, <1>10
       DEF IInv, LaidDown, HasAccount, Owned, BackedUp, PiecesOf, WebOf
  <2>2. Activated' /\ Served'
    BY <1>1, <1>5, <1>8, <1>9, <1>10
       DEF IInv, Activated, Served, HelperOf, DropInLoaded, UnitsLoaded, RunningOf
  <2>3. PlansHold'
    BY <1>1, <1>5, <1>9, <1>10 DEF IInv, PlansHold, StillInOrder
  <2> QED BY <2>1, <2>2, <2>3
<1>14. AccessSet'
  BY <1>5, <1>8, <1>12 DEF IInv, AccessSet, Servable
<1>15. Laying'
  BY <1>1, <1>5, <1>7, <1>8, <1>12 DEF IInv, Laying, HasAccount, Owned, WebOf
<1>16. Starting'
  BY <1>1, <1>5, <1>7, <1>8, <1>10, <1>12
     DEF IInv, Starting, HelperOf, DropInLoaded, UnitsLoaded, RunningOf
<1>17. Mending'
  BY <1>1, <1>5, <1>7, <1>8, <1>12
     DEF IInv, Mending, HasAccount, Owned, BackedUp, WebOf, HelperOf, DropInLoaded, UnitsLoaded, RunningOf
<1>18. Restoring'
  BY <1>1, <1>5, <1>7, <1>8, <1>12
     DEF IInv, Restoring, HasAccount, Owned, BackedUp, WebOf, HelperOf, DropInLoaded, UnitsLoaded, RunningOf
<1>19. Taking'
  BY <1>1, <1>5, <1>7, <1>8, <1>12 DEF IInv, Taking
<1>20. Returnable' /\ Fitting' /\ AccountKept'
  BY <1>1, <1>2, <1>5, <1>7, <1>8, <1>9 DEF IInv, Returnable, Fitting, AccountKept, HasAccount
<1>21. Consented'
  BY <1>1, <1>2, <1>5, <1>7, <1>8 DEF IInv, Consented
<1> QED BY <1>3, <1>4, <1>6, <1>13, <1>14, <1>15, <1>16, <1>17, <1>18, <1>19, <1>20, <1>21 DEF IInv

-----------------------------------------------------------------------------
(* The journal.                                                             *)

(* Which operation records a phase, and what it has done by then.           *)
LEMMA Recording ==
  ASSUME IInv, NEW h, h \in Phase, At(h)
  PROVE  /\ op # None /\ Due(h) /\ Nearest(h) /\ op.plan \in Plan
         /\ ~Removes /\ ~Undoing /\ ~op.undo
         /\ (Repairs /\ ~Advancing) \/ (Advancing /\ ~Repairs)
         /\ Repairs => h \in {"prepared", "packages", "complete"}
         /\ h # "prepared" => ~Due("prepared")
         /\ (h = "release" /\ Advancing) => \A s \in LayingSteps : ~Due(s)
         /\ (h = "activated" /\ Advancing) => ~Due("pointer")
         /\ h = "services" => \A s \in StartingSteps : ~Due(s)
         /\ h = "complete" => \A s \in Step \ {"complete"} : ~Due(s)
<1>1. TypeOK /\ Programmed /\ op # None /\ h = Head(op.todo)
  BY DEF IInv, At
<1>2. h \in Left(op.todo) /\ Nearest(h) /\ Left(op.todo) \subseteq Step /\ h \in Step
  BY <1>1, HeadIsNearest
<1>3. Kind \in Kinds /\ op.undo \in BOOLEAN /\ (~Removes => op.plan \in Plan)
  BY <1>1, OperationTyped
<1>4. ~Removes /\ ~Undoing
  BY <1>1, <1>2, PhaseSet DEF Programmed, RemovalSteps, UndoSteps
<1>5. ~op.undo /\ op.plan \in Plan
  BY <1>1, <1>3, <1>4 DEF Undoing
<1>6. (Repairs /\ ~Advancing) \/ (Advancing /\ ~Repairs)
  BY <1>1, <1>5 DEF Plan, Repairs, Advancing
<1>7. Repairs => h \in {"prepared", "packages", "complete"}
  BY <1>1, <1>2, PhaseSet DEF Programmed, MendingSteps
<1>8. ASSUME NEW s \in Step, Before(Kind, s, h) PROVE ~Due(s)
  BY <1>2, <1>3, <1>8, BeforeIsOrder DEF Nearest, Due
<1>9. Advancing => Kind = "other"
  BY <1>6 DEF Kind
<1>10. LayingSteps \cup StartingSteps \cup {"prepared", "pointer"} \subseteq Step
  BY StepSet DEF LayingSteps, StartingSteps
<1>11. h # "prepared" => ~Due("prepared")
  <2>1. ASSUME h # "prepared", h # "complete" PROVE Before(Kind, "prepared", h)
    BY <2>1, <1>3, PhaseSet, Order
  <2>2. Before(Kind, "prepared", "complete")
    BY <1>3, <1>10, Order
  <2> QED BY <2>1, <2>2, <1>8, <1>10
<1>12. (h = "release" /\ Advancing) => \A s \in LayingSteps : ~Due(s)
  BY <1>3, <1>8, <1>9, <1>10, Order
<1>13. (h = "activated" /\ Advancing) => ~Due("pointer")
  BY <1>3, <1>8, <1>9, <1>10, Order
<1>14. h = "services" => \A s \in StartingSteps : ~Due(s)
  BY <1>3, <1>8, <1>10, Order
<1>15. h = "complete" => \A s \in Step \ {"complete"} : ~Due(s)
  <2> SUFFICES ASSUME h = "complete", NEW s \in Step, s # "complete" PROVE ~Due(s)
    OBVIOUS
  <2>1. CASE s = "undone"
    <3>1. "undone" \notin Left(op.todo)
      BY <1>1, <1>6, PhaseSet DEF Programmed, MendingSteps, LayingSteps, StartingSteps
    <3> QED BY <2>1, <3>1 DEF Due
  <2>2. CASE s # "undone"
    BY <2>2, <1>3, <1>8, Order
  <2> QED BY <2>1, <2>2
<1> QED BY <1>1, <1>2, <1>4, <1>5, <1>6, <1>7, <1>11, <1>12, <1>13, <1>14, <1>15 DEF Due

(* Each phase is recorded when all that it stands for was done.             *)
LEMMA RecordStep ==
  ASSUME IInv, NEW h, h \in Phase \ {"complete"}, Record(h) PROVE IInv'
<1>1. /\ At(h) /\ journal' = Established(h) /\ Advance
      /\ history' = IF h = "release" THEN [history EXCEPT !.undone = FALSE] ELSE history
      /\ UNCHANGED <<files, system, plans, spent, scenario>>
  BY DEF Record
<1>2. /\ op # None /\ h = Head(op.todo) /\ op' = [op EXCEPT !.todo = Tail(@)]
      /\ TypeOK /\ Programmed /\ SetRight /\ Recorded
  BY <1>1 DEF At, Advance, IInv
<1>3. /\ Due(h) /\ Nearest(h) /\ op.plan \in Plan
      /\ ~Removes /\ ~Undoing /\ ~op.undo
      /\ (Repairs /\ ~Advancing) \/ (Advancing /\ ~Repairs)
      /\ Repairs => h \in {"prepared", "packages", "complete"}
      /\ h # "prepared" => ~Due("prepared")
      /\ (h = "release" /\ Advancing) => \A s \in LayingSteps : ~Due(s)
      /\ (h = "activated" /\ Advancing) => ~Due("pointer")
      /\ h = "services" => \A s \in StartingSteps : ~Due(s)
  BY <1>1, Recording
<1>4. Moved(h) /\ Programmed' /\ SetRight'
  BY <1>2, Moving, ProgramMoves, PhaseSet DEF LastSteps
<1>5. /\ Repairs' = Repairs /\ Advancing' = Advancing /\ Undoing' = Undoing /\ Removes' = Removes
      /\ \A s \in Step : Due(s)' <=> Due(s) /\ s # h
      /\ h \in Step
  BY <1>4, MovedKinds DEF Moved
<1>6. /\ op'.plan = op.plan /\ op'.undo = op.undo /\ op'.failed = op.failed
      /\ op'.previous = op.previous /\ op'.previousSource = op.previousSource
      /\ Subject' = Subject /\ Goal' = Goal /\ op' # None /\ ReadAccess' = ReadAccess
  BY <1>1, <1>4 DEF Moved, Subject, Goal, ReadAccess
<1>7. /\ op.plan.artifact \in Artifact /\ op.plan.artifact.lan /\ op.plan.artifact.version \in Version
      /\ op.previous \in Version \cup {None} /\ op.previousSource \in Artifact \cup {None}
  BY <1>2, <1>3, OperationTyped DEF Plan, Version
<1>8. /\ journal'.phase = h /\ journal'.target = op.plan.artifact.version
      /\ journal'.source = op.plan.artifact
      /\ journal'.installed = op.previous /\ journal'.previous = op.previous
      /\ journal'.previousSource = op.previousSource
      /\ journal' \in JournalRecord /\ journal' # None
  <2>1. journal' \in JournalRecord
    BY <1>1, <1>7 DEF Established, Journal, JournalRecord
  <2> QED BY <2>1, <1>1, NoneAssumption DEF Established, Journal
<1>9. /\ op.previous = None <=> op.previousSource = None
      /\ op.previous # None => op.previousSource.version = op.previous
  BY <1>2, <1>3 DEF Recorded
<1>10. h \in {"prepared", "packages", "dependencies", "release", "activated", "services"}
  BY PhaseSet
<1>11. JournalFits(journal')
  <2>1. journal'.target # None /\ journal'.source # None
    BY <1>7, <1>8, NoneAssumption, ConfigAssumption
  <2> QED BY <2>1, <1>7, <1>8, <1>9, <1>10 DEF JournalFits, Accepted
<1>12. {"prepared", "packages", "dependencies", "release", "activated", "services", "pointer"}
         \cup LayingSteps \cup StartingSteps \cup Piece \subseteq Step
       /\ h \notin LayingSteps \cup StartingSteps \cup Piece \cup {"pointer"}
  BY <1>10, StepSet DEF LayingSteps, StartingSteps, Piece
<1>13. ~Due("prepared") =>
         /\ Unfinished /\ journal.target = op.plan.artifact.version /\ journal.source = op.plan.artifact
         /\ journal.installed = op.previous /\ journal.previous = op.previous
         /\ journal.previousSource = op.previousSource
  BY <1>2, <1>3 DEF Recorded
<1>14. Unfinished'
  BY <1>8, <1>10 DEF Unfinished
<1>15. ~Due("prepared")'
  BY <1>3, <1>5, <1>12
(* The phases are recorded one after the other.                             *)
<1>16. Advancing =>
         /\ Due("packages")' <=> h = "prepared"
         /\ Due("dependencies")' <=> h \in {"prepared", "packages"}
         /\ Due("release")' <=> h \in {"prepared", "packages", "dependencies"}
         /\ Due("activated")' <=> h \in {"prepared", "packages", "dependencies", "release"}
         /\ Due("services")' <=> h # "services"
  <2> SUFFICES ASSUME Advancing
               PROVE  /\ Due("packages")' <=> h = "prepared"
                      /\ Due("dependencies")' <=> h \in {"prepared", "packages"}
                      /\ Due("release")' <=> h \in {"prepared", "packages", "dependencies"}
                      /\ Due("activated")' <=> h \in {"prepared", "packages", "dependencies", "release"}
                      /\ Due("services")' <=> h # "services"
    OBVIOUS
  <2>1. CASE h = "prepared"
    BY <2>1, <1>2, <1>3, <1>5, <1>12 DEF Recorded
  <2>2. CASE h # "prepared"
    <3>1. /\ Due("packages") <=> journal.phase = "prepared"
          /\ Due("dependencies") <=> journal.phase \in {"prepared", "packages"}
          /\ Due("release") <=> journal.phase \in {"prepared", "packages", "dependencies"}
          /\ Due("activated") <=> journal.phase \in {"prepared", "packages", "dependencies", "release"}
          /\ Due("services") <=> journal.phase # "services"
      BY <2>2, <1>2, <1>3 DEF Recorded
    <3>2. \A s \in {"packages", "dependencies", "release", "activated", "services"} :
            Due(s)' <=> Due(s) /\ s # h
      BY <1>5, <1>12
    <3>3. /\ h = "dependencies" => ~Due("packages")
          /\ h = "release" => ~Due("packages") /\ ~Due("dependencies")
          /\ h = "activated" => ~Due("packages") /\ ~Due("dependencies") /\ ~Due("release")
          /\ h = "services" => ~Due("packages") /\ ~Due("dependencies") /\ ~Due("release") /\ ~Due("activated")
      <4>1. Kind \in Kinds /\ Kind = "other"
        BY <1>2, <1>3, OperationTyped DEF Kind
      <4>2. ASSUME NEW s \in Step, Before(Kind, s, h) PROVE ~Due(s)
        BY <1>3, <1>5, <4>1, <4>2, BeforeIsOrder DEF Nearest, Due
      <4>3. /\ Before(Kind, "packages", "dependencies") /\ Before(Kind, "packages", "release")
            /\ Before(Kind, "dependencies", "release") /\ Before(Kind, "packages", "activated")
            /\ Before(Kind, "dependencies", "activated") /\ Before(Kind, "release", "activated")
            /\ Before(Kind, "packages", "services") /\ Before(Kind, "dependencies", "services")
            /\ Before(Kind, "release", "services") /\ Before(Kind, "activated", "services")
        BY <4>1, PhasesInOrder
      <4> QED BY <4>2, <4>3, <1>12
    <3> QED BY <2>2, <3>1, <3>2, <3>3, <1>3, <1>10
  <2> QED BY <2>1, <2>2
<1>17. Repairs => (Due("prepared")' => Due("packages")')
  BY <1>15
<1>18. Recorded'
  <2>1. \A o \in Operator : plans'[o] # None => PlanSound(plans'[o])
    BY <1>1, <1>2 DEF Recorded
  <2>2. PlanSound(op'.plan)
    BY <1>2, <1>6 DEF Recorded
  <2>3. (~Removes)' =>
          /\ Due("prepared")' => journal' = op'.plan.snapshot /\ ~Unfinished' /\ ~op'.undo
          /\ ~Due("prepared")' =>
               /\ Unfinished'
               /\ journal'.target = op'.plan.artifact.version /\ journal'.source = op'.plan.artifact
               /\ journal'.installed = op'.previous /\ journal'.previous = op'.previous
               /\ journal'.previousSource = op'.previousSource
               /\ op'.plan.mode = "repair" => journal'.phase \in {"prepared", "packages"}
               /\ (op'.undo /\ op'.plan.mode # "repair") => journal'.phase = "activated"
          /\ op'.previous = None <=> op'.previousSource = None
          /\ op'.previous # None => op'.previousSource.version = op'.previous
          /\ op'.plan.mode = "repair" => /\ op'.previous = op'.plan.artifact.version
                                         /\ op'.previousSource = op'.plan.artifact
    <3>1. op.plan.mode = "repair" => Repairs
      BY <1>2, <1>3 DEF Repairs
    <3> QED BY <3>1, <1>2, <1>3, <1>6, <1>8, <1>9, <1>10, <1>14, <1>15 DEF Recorded
  <2>4. Advancing' =>
          /\ Due("prepared")' => /\ Due("packages")' /\ Due("dependencies")' /\ Due("release")'
                                 /\ Due("activated")' /\ Due("services")'
          /\ ~Due("prepared")' =>
               /\ Due("packages")' <=> journal'.phase = "prepared"
               /\ Due("dependencies")' <=> journal'.phase \in {"prepared", "packages"}
               /\ Due("release")' <=> journal'.phase \in {"prepared", "packages", "dependencies"}
               /\ Due("activated")' <=> journal'.phase \in {"prepared", "packages", "dependencies", "release"}
               /\ Due("services")' <=> journal'.phase # "services"
    BY <1>5, <1>8, <1>15, <1>16
  <2>5. (Repairs' /\ Due("prepared")') => Due("packages")'
    BY <1>15
  <2>6. JournalFits(journal)'
    BY <1>11
  <2> QED BY <2>1, <2>2, <2>3, <2>4, <2>5, <2>6 DEF Recorded

<1>19. TypeOK'
  BY <1>1, <1>2, <1>4, <1>8 DEF TypeOK, Moved
(* What depends on how far the journal is.                                  *)
<1>20. /\ Laid' <=> h \in {"release", "activated", "services"}
       /\ Active' <=> h \in {"activated", "services"}
       /\ Serving' <=> h = "services"
  BY <1>8, <1>10 DEF Laid, Active, Serving
<1>21. /\ h \in {"activated", "services"} => Laid
       /\ h = "services" => Active
       /\ Laid' => Advancing
       /\ Laid' => ~Due("prepared") /\ Unfinished
  <2>1. Laid' => Advancing /\ ~Due("prepared") /\ Unfinished
    BY <1>3, <1>13, <1>20
  <2>2. ASSUME h \in {"activated", "services"} PROVE Laid /\ (h = "services" => Active)
    <3>1. Advancing /\ ~Due("prepared") /\ Unfinished
      BY <2>1, <2>2, <1>20
    <3>2. /\ Due("release") <=> journal.phase \in {"prepared", "packages", "dependencies"}
          /\ Due("activated") <=> journal.phase \in {"prepared", "packages", "dependencies", "release"}
      BY <3>1, <1>2 DEF Recorded
    <3>3. ~Due("release") /\ (h = "services" => ~Due("activated"))
      <4>1. Kind \in Kinds
        BY <1>2, OperationTyped
      <4>2. ASSUME NEW s \in Step, Before(Kind, s, h) PROVE ~Due(s)
        BY <1>3, <1>5, <4>1, <4>2, BeforeIsOrder DEF Nearest, Due
      <4> QED BY <2>2, <4>1, <4>2, <1>12, PhasesInOrder
    <3> QED BY <3>1, <3>2, <3>3, <1>2, PhaseSet DEF Laid, Active, Unfinished, TypeOK, JournalRecord
  <2> QED BY <2>1, <2>2
<1>22. /\ Laid' => Anew' = Anew /\ Kept' = Kept /\ Unharmed' = Unharmed
       /\ Untouched' <=> h = "release" \/ ~history.undone \/ op.previous = None
  BY <1>1, <1>6, <1>8, <1>14, <1>21, <1>2 DEF Anew, Kept, Unharmed, Untouched, TypeOK
<1>23. LaidDown'
  <2> SUFFICES ASSUME Laid' PROVE LaidDown'
    BY DEF LaidDown
  <2> DEFINE a == op.plan.artifact
  <2>1. Advancing /\ ~Due("prepared") /\ Unfinished
    BY <1>21
  <2>2. CASE h = "release"
    <3>1. \A s \in LayingSteps : ~Due(s)
      BY <2>1, <2>2, <1>3
    <3>2. /\ files.release[a.version] = a
          /\ op.previous \notin {None, a.version} =>
               \E c \in Config : <<op.previous, a.version, c>> \in files.backups
          /\ \A p \in Piece : files.piece[p] = PieceOf(p, a)
          /\ files.directories /\ files.config # None /\ HasAccount /\ WebOf(a) /\ Owned
      BY <2>1, <2>2, <3>1, <1>3 DEF IInv, Laying, LayingSteps, Piece
    <3> QED BY <3>2, <1>1, <1>6, <1>8, SMTT(40) DEF LaidDown, HasAccount, Owned, BackedUp, PiecesOf, WebOf
  <2>3. CASE h \in {"activated", "services"}
    <3>1. Laid /\ journal.source = a /\ journal.target = a.version
          /\ journal.installed = op.previous /\ journal.previous = op.previous
      BY <2>1, <2>3, <1>13, <1>21
    <3>2. Untouched' => Untouched
      BY <2>3, <3>1, <1>22 DEF Untouched
    <3>3. Kept => /\ files.release[a.version] = a /\ files.config # None /\ HasAccount /\ Owned
                  /\ BackedUp(journal)
      BY <3>1 DEF IInv, LaidDown
    <3>4. BackedUp(journal) => BackedUp(journal)'
      BY <3>1, <1>1, <1>8 DEF BackedUp, Laid
    <3>5. Unharmed => files.directories
      BY <3>1 DEF IInv, LaidDown
    <3>6. (Unharmed /\ Untouched) => PiecesOf(a)
      BY <3>1 DEF IInv, LaidDown
    <3>7. (Kept /\ Untouched) => WebOf(a)
      BY <3>1 DEF IInv, LaidDown
    <3>8. history' = history
      BY <2>3, <1>1
    <3> QED BY <3>2, <3>3, <3>4, <3>5, <3>6, <3>7, <3>8, <1>1, <1>6, <1>8, <1>22
            DEF LaidDown, HasAccount, Owned, PiecesOf, WebOf
  <2> QED BY <2>2, <2>3, <1>20
<1>24. Activated'
  <2> SUFFICES ASSUME Active', Unharmed', ~history'.undone PROVE files'.current = journal'.target
    BY DEF Activated
  <2>1. Advancing /\ ~Due("prepared") /\ Laid' /\ history' = history /\ Unharmed
    BY <1>1, <1>20, <1>21, <1>22
  <2>2. CASE h = "activated"
    BY <2>1, <2>2, <1>1, <1>3, <1>8 DEF IInv, Starting
  <2>3. CASE h = "services"
    BY <2>1, <2>3, <1>1, <1>8, <1>13, <1>21 DEF IInv, Activated
  <2> QED BY <2>2, <2>3, <1>20
<1>25. Served'
  <2> SUFFICES ASSUME Serving', ~history'.undone PROVE Served'
    BY DEF Served
  <2>1. h = "services" /\ Advancing /\ Laid' /\ history' = history /\ ~history.undone
    BY <1>1, <1>20, <1>21
  <2>2. \A s \in StartingSteps : ~Due(s)
    BY <2>1, <1>3
  <2>3. /\ UnitsLoaded /\ DropInLoaded /\ HelperOf(op.plan.artifact) /\ system.enabled
        /\ Unharmed => RunningOf(op.plan.artifact)
    BY <2>1, <2>2, <1>3 DEF IInv, Starting, StartingSteps
  <2> QED BY <2>1, <2>3, <1>1, <1>6, <1>8, <1>22
          DEF Served, UnitsLoaded, DropInLoaded, HelperOf, RunningOf
<1>26. PlansHold'
  <2> SUFFICES ASSUME NEW o \in Operator, plans[o] # None, plans[o].mode = "repair",
                      Laid', ~history'.removing
               PROVE  StillInOrder(plans[o])'
    BY <1>1 DEF PlansHold, StillInOrder
  <2> DEFINE a == op.plan.artifact
  <2>1. Advancing /\ ~Due("prepared") /\ Unfinished /\ ~history.removing
    BY <1>1, <1>2, <1>21 DEF TypeOK
  <2>2. CASE h = "release"
    <3>1. \A s \in LayingSteps : ~Due(s)
      BY <2>1, <2>2, <1>3
    <3>2. files.directories /\ \A p \in Piece : files.piece[p] = PieceOf(p, a)
      BY <2>1, <2>2, <3>1, <1>3 DEF IInv, Laying, LayingSteps, Piece
    <3>3. ~Active'
      BY <2>2, <1>20
    <3> QED BY <3>2, <3>3, <1>1, <1>8 DEF StillInOrder
  <2>3. CASE h \in {"activated", "services"}
    <3>1. Laid /\ journal.source = a /\ journal.target = a.version
          /\ journal.installed = op.previous
      BY <2>1, <2>3, <1>13, <1>21
    <3>2. Untouched' => Untouched
      BY <2>3, <3>1, <1>22 DEF Untouched
    <3>3. history' = history
      BY <2>3, <1>1
    <3>4. StillInOrder(plans[o])
      BY DEF IInv, PlansHold
    <3>5. (h = "activated" /\ ~history.undone) => files.current = a.version
      BY <2>1, <1>3 DEF IInv, Starting
    <3>6. h = "services" => Active
      BY <1>21
    <3> QED BY <2>1, <2>3, <3>1, <3>2, <3>3, <3>4, <3>5, <3>6, <1>1, <1>8 DEF StillInOrder
  <2> QED BY <2>2, <2>3, <1>20
<1>27. AccessSet'
  <2>1. {"dropin", "access"} \subseteq Step /\ h \notin {"dropin", "access"}
    BY <1>12 DEF LayingSteps
  <2> QED BY <2>1, <1>1, <1>5, <1>6 DEF IInv, AccessSet, Servable
<1>28. Laying'
  <2> SUFFICES ASSUME Advancing, Due("release")' PROVE Laying'
    BY <1>5 DEF Laying
  <2>1. Due("release") /\ h # "release" /\ \A s \in LayingSteps : Due(s)' <=> Due(s)
    BY <1>5, <1>12
  <2>2. history' = history
    BY <2>1, <1>1
  <2> QED BY <2>1, <2>2, <1>1, <1>6 DEF IInv, Laying, HasAccount, Owned, WebOf, LayingSteps, Piece
<1>29. Starting'
  <2> SUFFICES ASSUME Advancing PROVE Starting'
    BY <1>5 DEF Starting
  <2>1. \A s \in StartingSteps \cup {"pointer"} : Due(s)' <=> Due(s)
    BY <1>5, <1>12
  <2>2. (Due("activated")' => Due("activated")) /\ (Due("services")' => Due("services"))
    BY <1>5, <1>12
  <2>3. h \in {"prepared", "release"} => Due("restart")
    <3>1. h = "prepared" => Due("release")
      BY <1>2, <1>3 DEF Recorded
    <3>2. Due("release") => Due("restart")
      BY <1>2 DEF Programmed, StartingSteps
    <3> QED BY <3>1, <3>2, <1>3
  <2>4. h \notin {"prepared", "release"} => history' = history /\ Unharmed' = Unharmed
    <3> SUFFICES ASSUME h \notin {"prepared", "release"}
                 PROVE  history' = history /\ Unharmed' = Unharmed
      OBVIOUS
    <3>1. history' = history /\ Unfinished
      BY <1>1, <1>3, <1>13
    <3> QED BY <3>1, <1>6, <1>14, <1>2 DEF Unharmed, Kept, Anew
  <2> QED BY <2>1, <2>2, <2>3, <2>4, <1>1, <1>6
          DEF IInv, Starting, UnitsLoaded, DropInLoaded, HelperOf, RunningOf, StartingSteps
<1>30. Mending'
  <2> SUFFICES ASSUME Repairs PROVE Mending'
    BY <1>5 DEF Mending
  <2>1. history' = history
    BY <1>1, <1>3
  <2>2. \A s \in StartingSteps \cup LayingSteps \cup Piece \cup {"pointer"} : Due(s)' <=> Due(s)
    BY <1>5, <1>12
  <2> QED BY <2>1, <2>2, <1>1, <1>5, <1>6
          DEF IInv, Mending, HasAccount, Owned, BackedUp, WebOf, UnitsLoaded, DropInLoaded, HelperOf,
              RunningOf, StartingSteps, LayingSteps
<1>31. Restoring' /\ Taking'
  BY <1>3, <1>5 DEF Restoring, Taking
<1>32. Returnable' /\ Fitting'
  <2>1. history'.removing = history.removing /\ history'.contested = history.contested
    BY <1>1, <1>2 DEF TypeOK
  <2> QED BY <2>1, <1>1, <1>2, <1>3, <1>5, <1>6, <1>8 DEF IInv, Returnable, Fitting
<1>33. AccountKept'
  <2>1. /\ history'.established = history.established /\ history'.removing = history.removing
        /\ history'.lost = history.lost
    BY <1>1, <1>2 DEF TypeOK
  <2>2. op.previous # None <=> history.established
    BY <1>2, <1>3 DEF IInv, AccountKept
  <2>3. (history.established /\ ~history.removing) => HasAccount
    BY DEF IInv, AccountKept
  <2> QED BY <2>1, <2>2, <2>3, <1>1, <1>5, <1>6, <1>8, <1>10 DEF AccountKept, HasAccount
<1>34. Consented'
  <2>1. history'.consent = history.consent
    BY <1>1, <1>2 DEF TypeOK
  <2> QED BY <2>1, <1>1, <1>2, <1>3, <1>5, <1>6 DEF IInv, Consented
<1> QED BY <1>4, <1>18, <1>19, <1>23, <1>24, <1>25, <1>26, <1>27, <1>28, <1>29, <1>30, <1>31, <1>32,
           <1>33, <1>34 DEF IInv

(* An installation recorded as complete is complete.                        *)
LEMMA CompleteStep ==
  ASSUME IInv, RecordComplete PROVE IInv'
<1> DEFINE a == op.plan.artifact
<1>1. /\ At("complete")
      /\ journal' = [Established("complete") EXCEPT !.installed = op.plan.artifact.version]
      /\ op' = None
      /\ history' = [history EXCEPT !.completed = TRUE, !.established = TRUE,
                                 !.damaged = @ /\ op.plan.mode = "resume",
                                 !.removing = @ /\ op.plan.mode \in {"repair", "resume"}]
      /\ UNCHANGED <<files, system, plans, spent, scenario>>
  BY DEF RecordComplete
<1>2. TypeOK /\ Programmed /\ Recorded
  BY DEF IInv
<1>3. /\ op # None /\ op.plan \in Plan
      /\ ~Removes /\ ~Undoing /\ ~op.undo
      /\ (Repairs /\ ~Advancing) \/ (Advancing /\ ~Repairs)
      /\ \A s \in Step \ {"complete"} : ~Due(s)
  BY <1>1, Recording, PhaseSet
<1>4. {"prepared", "packages", "dependencies", "release", "activated", "services", "pointer"}
         \cup LayingSteps \cup StartingSteps \cup Piece \subseteq Step \ {"complete"}
  BY StepSet DEF LayingSteps, StartingSteps, Piece
<1>5. \A s \in {"prepared", "release", "activated", "services", "pointer"}
                 \cup LayingSteps \cup StartingSteps \cup Piece : ~Due(s)
  BY <1>3, <1>4
<1>6. /\ Unfinished /\ journal.target = a.version /\ journal.source = a
      /\ journal.installed = op.previous /\ journal.previous = op.previous
      /\ journal.previousSource = op.previousSource
      /\ op.previous = None <=> op.previousSource = None
      /\ op.previous # None => op.previousSource.version = op.previous
      /\ op.plan.mode = "repair" => op.previous = a.version /\ op.previousSource = a
  BY <1>2, <1>3, <1>5 DEF Recorded
<1>7. Advancing => journal.phase = "services"
  BY <1>2, <1>3, <1>5 DEF Recorded
<1>8. Advancing => Laid /\ Active /\ Serving
  BY <1>6, <1>7 DEF Laid, Active, Serving, Unfinished
<1>9. /\ a \in Artifact /\ a.lan /\ a.version \in Version
      /\ op.previous \in Version \cup {None} /\ op.previousSource \in Artifact \cup {None}
  BY <1>2, <1>3, OperationTyped DEF Plan, Version
<1>10. /\ journal'.phase = "complete" /\ journal'.target = a.version /\ journal'.source = a
       /\ journal'.installed = a.version /\ journal'.previous = op.previous
       /\ journal'.previousSource = op.previousSource
       /\ journal' \in JournalRecord /\ journal' # None
  <2>1. journal' = Journal("complete", a.version, a.version, op.previous, a, op.previousSource)
    BY <1>1 DEF Established, Journal
  <2>2. "complete" \in Phase
    BY PhaseSet
  <2>3. journal' \in JournalRecord
    BY <1>9, <2>1, <2>2 DEF Journal, JournalRecord
  <2> QED BY <2>1, <2>3, NoneAssumption DEF Journal
<1>11. JournalFits(journal')
  <2>1. journal'.target # None /\ journal'.source # None
    BY <1>9, <1>10, NoneAssumption, ConfigAssumption
  <2> QED BY <2>1, <1>6, <1>10 DEF JournalFits, Accepted
<1>12. /\ history'.established /\ history'.undone = history.undone /\ history'.lost = history.lost
       /\ history'.consent = history.consent /\ history'.contested = history.contested
       /\ history'.damaged = (history.damaged /\ op.plan.mode = "resume")
       /\ history'.removing = (history.removing /\ op.plan.mode \in {"repair", "resume"})
       /\ history.damaged \in BOOLEAN /\ history.removing \in BOOLEAN
  BY <1>1, <1>2 DEF TypeOK
<1>13. TypeOK'
  BY <1>1, <1>2, <1>10, ZenonT(60) DEF TypeOK
<1>14. /\ ~Repairs' /\ ~Advancing' /\ ~Undoing' /\ ~Removes' /\ \A s \in Step : ~Due(s)'
       /\ ~Unfinished' /\ Laid' /\ Active' /\ Serving'
       /\ Kept' = ~history'.removing /\ ReadAccess' = ReadAccess
       /\ Unharmed' = (~history'.removing /\ ~history'.damaged)
       /\ Untouched' = ~history.undone
  <2>1. /\ ~Repairs' /\ ~Advancing' /\ ~Undoing' /\ ~Removes' /\ \A s \in Step : ~Due(s)'
    BY <1>1 DEF Repairs, Advancing, Undoing, Removes, Due
  <2>2. ~Unfinished' /\ Laid' /\ Active' /\ Serving'
    BY <1>10 DEF Unfinished, Laid, Active, Serving
  <2>3. ~Anew' /\ a.version # None
    BY <2>2, <1>9, NoneAssumption DEF Anew
  <2> QED BY <2>1, <2>2, <2>3, <1>1, <1>2, <1>10, <1>12 DEF Kept, Unharmed, Untouched, ReadAccess, TypeOK
<1>15. Programmed' /\ SetRight'
  BY <1>1, <1>14, StepSet DEF Programmed, SetRight, Due
<1>16. Recorded'
  BY <1>1, <1>2, <1>11, <1>14 DEF Recorded
(* Whatever has to be there is there, after an installation as after a repair.*)
<1>17. ASSUME Advancing, ~history'.removing
       PROVE  /\ Kept /\ (~history'.damaged => Unharmed)
              /\ history.removing => Unharmed
  BY <1>3, <1>6, <1>12, <1>17 DEF Advancing, Kept, Unharmed, Anew
<1>18. Repairs => history'.removing = history.removing /\ ~history'.damaged
  BY <1>12 DEF Repairs
<1>19. ~history'.removing =>
         /\ files.release[a.version] = a /\ files.config # None /\ HasAccount /\ Owned
         /\ BackedUp(journal)'
         /\ ~history'.damaged => files.directories
         /\ ~history.undone => WebOf(a)
         /\ (~history.undone /\ ~history'.damaged) => PiecesOf(a)
  <2> SUFFICES ASSUME ~history'.removing
               PROVE  /\ files.release[a.version] = a /\ files.config # None /\ HasAccount /\ Owned
                      /\ BackedUp(journal)'
                      /\ ~history'.damaged => files.directories
                      /\ ~history.undone => WebOf(a)
                      /\ (~history.undone /\ ~history'.damaged) => PiecesOf(a)
    OBVIOUS
  <2>1. CASE Advancing
    <3>1. Kept /\ (~history'.damaged => Unharmed)
      BY <2>1, <1>17
    <3>2. ~history.undone => Untouched
      BY DEF Untouched
    <3>3. BackedUp(journal) => BackedUp(journal)'
      BY <2>1, <1>1, <1>6, <1>8, <1>10 DEF BackedUp, Laid
    <3> QED BY <2>1, <3>1, <3>2, <3>3, <1>6, <1>8 DEF IInv, LaidDown
  <2>2. CASE Repairs
    <3>1. ~history.removing
      BY <2>2, <1>18
    <3>2. op.plan.mode = "repair" /\ op.previous = a.version /\ op.previousSource = a
      BY <2>2, <1>6 DEF Repairs
    <3>3. op.previous # None
      BY <3>2, <1>9, NoneAssumption
    <3>4. files.release[a.version] = a
      BY <3>1, <3>2, <3>3, <1>3 DEF IInv, Returnable
    <3>5. files.config # None /\ HasAccount /\ Owned /\ files.directories
      BY <2>2, <3>1, <1>5 DEF IInv, Mending, LayingSteps
    <3>6. ~history.undone => WebOf(a) /\ PiecesOf(a)
      BY <2>2, <3>1, <1>5 DEF IInv, Mending, LayingSteps, PiecesOf
    <3>7. BackedUp(journal)'
      BY <3>2, <1>10 DEF BackedUp
    <3> QED BY <3>4, <3>5, <3>6, <3>7
  <2> QED BY <2>1, <2>2, <1>3
<1>20. LaidDown'
  BY <1>1, <1>10, <1>14, <1>19, <1>12, ZenonT(60) DEF LaidDown, HasAccount, Owned, PiecesOf, WebOf
<1>21. (~history'.removing /\ ~history.undone) =>
         /\ ~history'.damaged => files.current = a.version
         /\ system.enabled /\ HelperOf(a) /\ DropInLoaded
         /\ files.piece["units"] # None => UnitsLoaded
         /\ ~history'.damaged => RunningOf(a)
  <2> SUFFICES ASSUME ~history'.removing, ~history.undone
               PROVE  /\ ~history'.damaged => files.current = a.version
                      /\ system.enabled /\ HelperOf(a) /\ DropInLoaded
                      /\ files.piece["units"] # None => UnitsLoaded
                      /\ ~history'.damaged => RunningOf(a)
    OBVIOUS
  <2>1. CASE Advancing
    BY <2>1, <1>6, <1>8, <1>17 DEF IInv, Activated, Served
  <2>2. CASE Repairs
    BY <2>2, <1>5, <1>18 DEF IInv, Mending, StartingSteps, LayingSteps
  <2> QED BY <2>1, <2>2, <1>3
<1>22. Activated' /\ Served'
  BY <1>1, <1>10, <1>12, <1>14, <1>21
     DEF Activated, Served, HelperOf, DropInLoaded, UnitsLoaded, RunningOf
<1>23. PlansHold'
  <2> SUFFICES ASSUME NEW o \in Operator, plans[o] # None, plans[o].mode = "repair", ~history'.removing
               PROVE  StillInOrder(plans[o])'
    BY <1>1 DEF PlansHold, StillInOrder
  <2>1. CASE Repairs
    <3>1. files.directories /\ (~history.undone => PiecesOf(a) /\ files.current = a.version)
      BY <2>1, <1>18, <1>19, <1>21
    <3> QED BY <3>1, <1>1, <1>10, <1>12, <1>14 DEF StillInOrder, PiecesOf
  <2>2. CASE Advancing /\ history.removing
    <3>1. Unharmed
      BY <2>2, <1>17
    <3>2. files.directories
      BY <2>2, <3>1, <1>8 DEF IInv, LaidDown
    <3>3. ~history.undone => PiecesOf(a) /\ files.current = a.version
      BY <2>2, <3>1, <1>6, <1>8 DEF IInv, LaidDown, Activated, Untouched
    <3> QED BY <3>2, <3>3, <1>1, <1>10, <1>12, <1>14 DEF StillInOrder, PiecesOf
  <2>3. CASE Advancing /\ ~history.removing
    <3>1. StillInOrder(plans[o])
      BY DEF IInv, PlansHold
    <3>2. ~history.undone => Untouched
      BY DEF Untouched
    <3> QED BY <2>3, <3>1, <3>2, <1>1, <1>6, <1>8, <1>10, <1>12, <1>14 DEF StillInOrder
  <2> QED BY <2>1, <2>2, <2>3, <1>3
<1>24. AccessSet' /\ Laying' /\ Starting' /\ Mending' /\ Restoring' /\ Taking'
  BY <1>14, StepSet DEF AccessSet, Laying, Starting, Mending, Restoring, Taking
<1>25. Returnable' /\ Fitting'
  BY <1>1, <1>14 DEF Returnable, Fitting
<1>26. AccountKept'
  <2>1. journal'.installed # None
    BY <1>9, <1>10, NoneAssumption
  <2> QED BY <2>1, <1>1, <1>10, <1>12, <1>14, <1>19 DEF AccountKept, HasAccount
<1>27. Consented'
  BY <1>1, <1>12 DEF IInv, Consented
<1> QED BY <1>13, <1>15, <1>16, <1>20, <1>22, <1>23, <1>24, <1>25, <1>26, <1>27 DEF IInv

(* A rollback that went well returns to a whole release; one that did not   *)
(* returns to an unfinished installation.                                   *)
LEMMA RollbackStep ==
  ASSUME IInv, RecordRollback PROVE IInv'
<1> DEFINE a == op.previousSource
<1>1. /\ At("undone") /\ op' = None
      /\ journal' = IF op.plan.mode = "repair"
                    THEN IF op.failed THEN journal ELSE op.plan.snapshot
                    ELSE IF op.previous # None /\ ~op.failed
                    THEN Journal("complete", op.previous, op.previous, op.previous,
                                 op.previousSource, op.previousSource)
                    ELSE Established("release")
      /\ history' = [history EXCEPT !.undone = op.failed]
      /\ UNCHANGED <<files, system, plans, spent, scenario>>
  BY DEF RecordRollback
<1>2. TypeOK /\ Programmed /\ Recorded
  BY DEF IInv
<1>3. op # None /\ "undone" \in Left(op.todo) /\ Nearest("undone") /\ Left(op.todo) \subseteq Step
  BY <1>1, <1>2, HeadIsNearest DEF At
<1>4. /\ ~Removes /\ ~Repairs /\ ~Advancing /\ op.plan \in Plan /\ op.failed \in BOOLEAN
      /\ Kind \in Kinds
  BY <1>2, <1>3, OperationTyped, PhaseSet
     DEF Programmed, RemovalSteps, MendingSteps, LayingSteps, StartingSteps
<1>5. Undoing
  BY <1>2, <1>3, <1>4, OperationTyped DEF Plan, Repairs, Advancing, Undoing
<1>6. ASSUME NEW s \in Step, s # "undone" PROVE ~Due(s)
  BY <1>3, <1>4, <1>6, Order, BeforeIsOrder, StepSet DEF Nearest, Due
<1>7. {"prepared", "pointer"} \cup LayingSteps \cup StartingSteps \cup Piece \subseteq Step \ {"undone"}
  BY StepSet DEF LayingSteps, StartingSteps, Piece
<1>8. /\ Unfinished /\ journal.target = op.plan.artifact.version /\ journal.source = op.plan.artifact
      /\ journal.installed = op.previous /\ journal.previous = op.previous
      /\ journal.previousSource = op.previousSource
      /\ op.previous = None <=> op.previousSource = None
      /\ op.previous # None => op.previousSource.version = op.previous
      /\ op.plan.mode = "repair" => /\ op.previous = op.plan.artifact.version
                                    /\ op.previousSource = op.plan.artifact
                                    /\ journal.phase \in {"prepared", "packages"}
      /\ op.plan.mode # "repair" => journal.phase = "activated"
  BY <1>2, <1>4, <1>5, <1>6, <1>7 DEF Recorded, Undoing
<1>9. /\ op.plan.artifact \in Artifact /\ op.plan.artifact.lan /\ op.plan.artifact.version \in Version
      /\ op.previous \in Version \cup {None} /\ op.previousSource \in Artifact \cup {None}
      /\ op.plan.snapshot \in JournalRecord \cup {None}
  BY <1>2, <1>3, <1>4, OperationTyped DEF Plan, Version
<1>10. /\ history.undone /\ history'.undone = op.failed
       /\ history'.removing = history.removing /\ history'.damaged = history.damaged
       /\ history'.established = history.established /\ history'.lost = history.lost
       /\ history'.consent = history.consent /\ history'.contested = history.contested
  BY <1>1, <1>2, <1>5 DEF IInv, Restoring, TypeOK
<1>11. /\ ~Repairs' /\ ~Advancing' /\ ~Undoing' /\ ~Removes' /\ \A s \in Step : ~Due(s)'
       /\ ~Anew' /\ ReadAccess' = ReadAccess
       /\ Kept' = ~history.removing /\ Unharmed' = (~history.removing /\ ~history.damaged)
  BY <1>1, <1>2, <1>10
     DEF Repairs, Advancing, Undoing, Removes, Due, Anew, ReadAccess, Kept, Unharmed, TypeOK
<1>12. Programmed' /\ SetRight'
  BY <1>1, <1>11, StepSet DEF Programmed, SetRight, Due
<1>13. AccessSet' /\ Laying' /\ Starting' /\ Mending' /\ Restoring' /\ Taking'
  BY <1>11, StepSet DEF AccessSet, Laying, Starting, Mending, Restoring, Taking
<1>14. Consented'
  BY <1>1, <1>10 DEF IInv, Consented
(* What a rollback that went well has restored.                             *)
<1>15. ASSUME op.previous # None, ~op.failed
       PROVE  /\ PiecesOf(a) /\ WebOf(a) /\ files.current = op.previous
              /\ UnitsLoaded /\ DropInLoaded /\ HelperOf(a) /\ system.enabled
              /\ ~history.removing => RunningOf(a) /\ files.release[op.previous] = a
  BY <1>4, <1>5, <1>6, <1>7, <1>8, <1>15
     DEF IInv, Restoring, Returnable, PiecesOf, StartingSteps, LayingSteps
(* The two journals that say so.                                            *)
<1>16. ASSUME NEW j, j \in JournalRecord, j # None, JournalFits(j), j.phase = "complete",
              j.target = op.previous, j.installed = op.previous, j.source = a, journal' = j,
              op.previous # None, ~op.failed,
              ~history.removing => /\ files.config # None /\ HasAccount /\ Owned /\ BackedUp(journal)'
                                   /\ ~history.damaged => files.directories,
              \A o \in Operator :
                (plans[o] # None /\ plans[o].mode = "repair" /\ ~history.removing
                  /\ "directories" \notin plans[o].repairs) => files.directories
       PROVE  IInv'
  <2>1. TypeOK'
    BY <1>1, <1>2, <1>4, <1>16 DEF TypeOK
  <2>2. Recorded'
    BY <1>1, <1>2, <1>11, <1>16 DEF Recorded
  <2>3. Laid' /\ Active' /\ Serving' /\ ~Unfinished'
    BY <1>16 DEF Laid, Active, Serving, Unfinished
  <2>4. LaidDown'
    BY <1>1, <1>10, <1>11, <1>15, <1>16, ZenonT(60) DEF LaidDown, HasAccount, Owned, PiecesOf, WebOf
  <2>5. Activated' /\ Served'
    BY <1>1, <1>11, <1>15, <1>16
       DEF Activated, Served, HelperOf, DropInLoaded, UnitsLoaded, RunningOf
  <2>6. PlansHold'
    BY <1>1, <1>10, <1>15, <1>16 DEF PlansHold, StillInOrder, PiecesOf
  <2>7. Returnable' /\ Fitting'
    BY <1>1, <2>3 DEF Returnable, Fitting
  <2>8. AccountKept'
    <3>1. history.established
      BY <1>4, <1>3, <1>16 DEF IInv, AccountKept
    <3> QED BY <3>1, <1>1, <1>10, <1>11, <1>16 DEF AccountKept, HasAccount
  <2> QED BY <2>1, <2>2, <2>4, <2>5, <2>6, <2>7, <2>8, <1>12, <1>13, <1>14 DEF IInv
(* A journal that still is of an unfinished installation.                   *)
<1>17. ASSUME NEW j, j \in JournalRecord, j # None, JournalFits(j), journal' = j,
              j.phase \in {"prepared", "packages", "release"},
              j.phase = "release" => journal.phase = "activated" /\ (op.failed \/ op.previous = None),
              j.target = journal.target, j.source = journal.source, j.installed = op.previous,
              j.previous = op.previous, j.previousSource = op.previousSource
       PROVE  IInv'
  <2>1. TypeOK'
    BY <1>1, <1>2, <1>4, <1>17 DEF TypeOK
  <2>2. Recorded'
    BY <1>1, <1>2, <1>11, <1>17 DEF Recorded
  <2>3. /\ ~Active' /\ ~Serving' /\ Unfinished' /\ (Laid' <=> j.phase = "release")
        /\ Laid' => Laid
    BY <1>17, <1>8 DEF Laid, Active, Serving, Unfinished
  <2>4. (Laid' /\ Untouched') => Untouched
    BY <1>8, <1>10, <1>17, <2>3 DEF Untouched
  <2>5. (Kept' => Kept) /\ (Unharmed' => Unharmed)
    BY <1>11 DEF Kept, Unharmed
  <2>6. LaidDown'
    <3> SUFFICES ASSUME Laid' PROVE LaidDown'
      BY DEF LaidDown
    <3>1. BackedUp(journal) => BackedUp(journal)'
      BY <2>3, <1>1, <1>8, <1>17 DEF BackedUp, Laid
    <3> QED BY <3>1, <2>3, <2>4, <2>5, <1>1, <1>10, <1>11, <1>17
            DEF IInv, LaidDown, HasAccount, Owned, PiecesOf, WebOf
  <2>7. Activated' /\ Served'
    BY <2>3 DEF Activated, Served
  <2>8. PlansHold'
    BY <2>3, <2>4, <1>1, <1>10, <1>17 DEF IInv, PlansHold, StillInOrder
  <2>9. Returnable' /\ Fitting'
    BY <1>1, <1>8, <1>10, <1>11, <1>17 DEF IInv, Returnable, Fitting
  <2>10. AccountKept'
    <3>1. /\ op.previous # None <=> history.established
          /\ (history.established /\ ~history.removing) => HasAccount
      BY <1>4, <1>3 DEF IInv, AccountKept
    <3> QED BY <3>1, <1>1, <1>10, <1>11, <1>17 DEF AccountKept, HasAccount
  <2> QED BY <2>1, <2>2, <2>6, <2>7, <2>8, <2>9, <2>10, <1>12, <1>13, <1>14 DEF IInv
<1>18. CASE op.plan.mode = "repair" /\ op.failed
  <2>1. journal' = journal /\ journal \in JournalRecord /\ journal # None /\ JournalFits(journal)
    BY <1>1, <1>2, <1>8, <1>18 DEF TypeOK, Recorded, Unfinished
  <2> QED BY <2>1, <1>8, <1>17, <1>18
<1>19. CASE op.plan.mode = "repair" /\ ~op.failed
  <2> DEFINE j == op.plan.snapshot
  <2>1. /\ journal' = j /\ j # None /\ JournalFits(j) /\ j.phase = "complete"
        /\ j.installed = op.previous /\ j.source = a /\ op.previous # None
    BY <1>1, <1>2, <1>3, <1>8, <1>9, <1>19, NoneAssumption DEF Recorded, PlanSound
  <2>2. j \in JournalRecord /\ j.target = op.previous
    BY <2>1, <1>9 DEF JournalFits, Accepted
  <2>3. ~history.removing => /\ files.config # None /\ HasAccount /\ Owned /\ files.directories
                             /\ BackedUp(j)
    BY <1>5, <1>19 DEF IInv, Restoring
  <2>4. BackedUp(j) => BackedUp(journal)'
    BY <2>1, <1>1 DEF BackedUp
  <2>5. PICK r : r = j
    OBVIOUS
  <2> QED BY <2>1, <2>2, <2>3, <2>4, <2>5, <1>16, <1>19
<1>20. CASE op.plan.mode # "repair" /\ op.previous # None /\ ~op.failed
  <2> DEFINE j == Journal("complete", op.previous, op.previous, op.previous, a, a)
  <2>1. /\ j.phase = "complete" /\ j.target = op.previous /\ j.installed = op.previous
        /\ j.previous = op.previous /\ j.source = a /\ j.previousSource = a
        /\ j \in JournalRecord /\ journal' = j
    BY <1>1, <1>9, <1>20, PhaseSet DEF Journal, JournalRecord
  <2>2. j # None /\ a # None
    BY <2>1, <1>8, <1>20, NoneAssumption
  <2>3. JournalFits(j)
    BY <2>1, <2>2, <1>8, <1>20 DEF JournalFits, Accepted
  <2>4. BackedUp(journal)'
    BY <2>1 DEF BackedUp
  <2>5. Laid
    BY <1>8, <1>20 DEF Laid, Unfinished
  <2>6. ~history.removing => /\ files.config # None /\ HasAccount /\ Owned
                             /\ ~history.damaged => files.directories
    BY <2>5 DEF IInv, LaidDown, Kept, Unharmed
  <2>7. \A o \in Operator :
          (plans[o] # None /\ plans[o].mode = "repair" /\ ~history.removing
            /\ "directories" \notin plans[o].repairs) => files.directories
    BY <2>5 DEF IInv, PlansHold, StillInOrder
  <2> QED BY <2>1, <2>2, <2>3, <2>4, <2>6, <2>7, <1>16, <1>20
<1>21. CASE op.plan.mode # "repair" /\ ~(op.previous # None /\ ~op.failed)
  <2> DEFINE j == Established("release")
  <2>1. /\ j.phase = "release" /\ j.target = op.plan.artifact.version /\ j.installed = op.previous
        /\ j.previous = op.previous /\ j.source = op.plan.artifact /\ j.previousSource = op.previousSource
        /\ j \in JournalRecord /\ journal' = j
    BY <1>1, <1>9, <1>21, PhaseSet DEF Established, Journal, JournalRecord
  <2>2. j # None /\ j.target # None /\ j.source # None
    BY <2>1, <1>9, NoneAssumption, ConfigAssumption
  <2>3. JournalFits(j)
    BY <2>1, <2>2, <1>8, <1>9 DEF JournalFits, Accepted
  <2> QED BY <2>1, <2>2, <2>3, <1>8, <1>17, <1>21, <1>4
<1> QED BY <1>18, <1>19, <1>20, <1>21, <1>4

-----------------------------------------------------------------------------
(* What happens to the host.                                                *)

(* An operation that fails or is cut short leaves a disk that is as sound.  *)
LEMMA OperationGone ==
  ASSUME IInv, op' = None, UNCHANGED <<journal, plans, history, scenario>>,
         files' = files \/ files' = [files EXCEPT !.packages = TRUE],
         TypeOK',
         \/ system' = system
         \/ /\ files' = files
            /\ system' = [Loaded EXCEPT !.running = IF system.enabled
                                                    THEN Started(files.piece["units"], files.dropin # None)
                                                    ELSE None]
  PROVE  IInv'
<1> DEFINE s == journal.source
<1>1. /\ files'.release = files.release /\ files'.current = files.current
      /\ files'.piece = files.piece /\ files'.access = files.access
      /\ files'.dropin = files.dropin /\ files'.config = files.config
      /\ files'.account = files.account /\ files'.marker = files.marker
      /\ files'.owned = files.owned /\ files'.backups = files.backups
      /\ files'.directories = files.directories
  BY DEF IInv, TypeOK, FilesRecord
<1>2. /\ ~Repairs' /\ ~Advancing' /\ ~Undoing' /\ ~Removes' /\ \A t \in Step : ~Due(t)'
      /\ Laid' = Laid /\ Active' = Active /\ Serving' = Serving /\ Unfinished' = Unfinished
      /\ ~Anew' /\ ReadAccess' = ReadAccess /\ Untouched' = Untouched
      /\ Kept' => Kept
      /\ Unharmed' => Unharmed
  BY <1>1 DEF Repairs, Advancing, Undoing, Removes, Due, Laid, Active, Serving, Unfinished, Anew,
              ReadAccess, Untouched, Kept, Unharmed
<1>3. Programmed' /\ SetRight'
  BY <1>2, StepSet DEF Programmed, SetRight, Due
<1>4. AccessSet' /\ Laying' /\ Starting' /\ Mending' /\ Restoring' /\ Taking'
  BY <1>2, StepSet DEF AccessSet, Laying, Starting, Mending, Restoring, Taking
<1>5. Recorded'
  BY <1>2 DEF IInv, Recorded
<1>6. LaidDown' /\ Activated'
  BY <1>1, <1>2 DEF IInv, LaidDown, Activated, HasAccount, Owned, BackedUp, PiecesOf, WebOf
<1>7. PlansHold'
  BY <1>1, <1>2 DEF IInv, PlansHold, StillInOrder
<1>8. Returnable' /\ Fitting'
  BY <1>1, <1>2 DEF IInv, Returnable, Fitting
<1>9. AccountKept'
  BY <1>1, <1>2 DEF IInv, AccountKept, HasAccount
<1>10. CASE system' = system
  <2>1. Served'
    BY <1>1, <1>2, <1>10 DEF IInv, Served, HelperOf, DropInLoaded, UnitsLoaded, RunningOf
  <2>2. Consented'
    BY <1>1, <1>2, <1>10 DEF IInv, Consented
  <2> QED BY <2>1, <2>2, <1>3, <1>4, <1>5, <1>6, <1>7, <1>8, <1>9 DEF IInv
<1>11. CASE /\ files' = files
            /\ system' = [Loaded EXCEPT !.running = IF system.enabled
                                                    THEN Started(files.piece["units"], files.dropin # None)
                                                    ELSE None]
  <2>1. /\ system'.units = files.piece["units"] /\ system'.dropin = (files.dropin # None)
        /\ system'.enabled = system.enabled /\ system'.helper = system.helper
        /\ system'.running = IF system.enabled THEN Started(files.piece["units"], files.dropin # None)
                             ELSE None
    BY <1>11 DEF IInv, TypeOK, SystemRecord, Loaded
  <2>2. ASSUME Serving, ~history.undone, Unharmed, Kept PROVE RunningOf(s)'
    <3>1. Laid /\ Active /\ Untouched
      BY <2>2 DEF Serving, Laid, Active, Untouched
    <3>2. /\ files.release[journal.target] = s /\ PiecesOf(s) /\ WebOf(s)
          /\ files.current = journal.target /\ system.enabled
      BY <2>2, <3>1 DEF IInv, LaidDown, Activated, Served
    <3>3. journal.target # None /\ s # None /\ s \in Artifact
      BY <2>2 DEF IInv, Recorded, JournalFits, Accepted, TypeOK, JournalRecord, Serving
    <3>4. files.piece["units"] = s /\ ((files.dropin # None) <=> ReadAccess = "lan")
          /\ (files.dropin # None => s.lan)
      BY <3>2, <3>3 DEF PiecesOf, PieceOf, Piece, WebOf, DropIn, Servable
    <3>5. (files.dropin # None) = (ReadAccess = "lan")
      BY <3>4
    <3> QED BY <3>2, <3>3, <3>4, <3>5, <2>1, <1>2 DEF RunningOf, Started
  <2>3. Served'
    BY <2>1, <2>2, <1>1, <1>2 DEF IInv, Served, HelperOf, DropInLoaded, UnitsLoaded, Kept, Unharmed
  <2>4. system'.running # None => system'.running.exposed = (files.dropin # None)
    BY <2>1 DEF Started
  <2>5. Consented'
    BY <2>1, <2>4, <1>1, <1>2 DEF IInv, Consented
  <2> QED BY <2>3, <2>5, <1>3, <1>4, <1>5, <1>6, <1>7, <1>8, <1>9 DEF IInv
<1> QED BY <1>10, <1>11

(* A crash, a step that fails and is not rolled back, and a boot.           *)
LEMMA EndingSteps ==
  ASSUME IInv, OperationFails \/ Crash \/ Reboot PROVE IInv'
<1>1. TypeOK
  BY DEF IInv
<1>2. CASE OperationFails
  <2>1. spent' \in [operations: Nat, failures: Nat, crashes: Nat, events: Nat]
    BY <1>1, <1>2 DEF OperationFails, Raising, TypeOK
  <2>2. files' = files \/ files' = [files EXCEPT !.packages = TRUE]
    BY <1>2 DEF OperationFails
  <2>3. files' \in FilesRecord
    <3>1. files \in FilesRecord
      BY <1>1 DEF TypeOK
    <3>2. [files EXCEPT !.packages = TRUE] \in FilesRecord
      BY <3>1 DEF FilesRecord
    <3> QED BY <2>2, <3>1, <3>2
  <2>4. op' = None /\ UNCHANGED <<journal, system, plans, history, scenario>>
    BY <1>2 DEF OperationFails
  <2>5. TypeOK'
    BY <1>1, <2>1, <2>3, <2>4 DEF TypeOK
  <2> QED BY <2>2, <2>4, <2>5, OperationGone
<1>3. CASE Crash
  <2>1. TypeOK'
    BY <1>1, <1>3 DEF Crash, TypeOK
  <2> QED BY <2>1, <1>3, OperationGone DEF Crash
<1>4. CASE Reboot
  <2>1. /\ op' = None /\ UNCHANGED <<journal, plans, scenario, files, history>>
        /\ spent' = [spent EXCEPT !.events = @ + 1]
        /\ system' = [Loaded EXCEPT !.running = IF system.enabled
                                                THEN Started(files.piece["units"], files.dropin # None)
                                                ELSE None]
    BY <1>4 DEF Reboot, Happens
  <2>2. Started(files.piece["units"], files.dropin # None) \in [code: Artifact, exposed: BOOLEAN] \cup {None}
    BY <1>1 DEF Started, TypeOK, FilesRecord
  <2>3. system' \in SystemRecord
    <3>1. files.piece["units"] \in Artifact \cup {None}
      BY <1>1 DEF TypeOK, FilesRecord, Piece
    <3> QED BY <1>1, <2>1, <2>2, <3>1, ZenonT(60) DEF TypeOK, SystemRecord, Loaded
  <2>4. TypeOK'
    BY <1>1, <2>1, <2>3 DEF TypeOK
  <2> QED BY <2>1, <2>4, OperationGone
<1> QED BY <1>2, <1>3, <1>4

(* The web service and the media service write their files at any moment.   *)
LEMMA HostSteps ==
  ASSUME IInv, SignUp \/ FinishSetup \/ EditConfig \/ LoseAccount \/ Damage PROVE IInv'
<1>1. TypeOK /\ files \in FilesRecord
  BY DEF IInv, TypeOK
<1>2. /\ UNCHANGED <<journal, plans, scenario, system, op>>
      /\ spent' \in {spent, [spent EXCEPT !.events = @ + 1]}
  BY DEF SignUp, FinishSetup, EditConfig, LoseAccount, Damage, Happens
<1>3. /\ Repairs' = Repairs /\ Advancing' = Advancing /\ Undoing' = Undoing /\ Removes' = Removes
      /\ Kind' = Kind /\ \A t \in Step : Due(t)' = Due(t)
      /\ Laid' = Laid /\ Active' = Active /\ Serving' = Serving /\ Unfinished' = Unfinished
      /\ Anew' = Anew
  BY <1>2 DEF Repairs, Advancing, Undoing, Removes, Kind, Due, Laid, Active, Serving, Unfinished, Anew
<1>4. Programmed' /\ SetRight' /\ Recorded'
  BY <1>2 DEF IInv, Programmed, SetRight, Recorded, Repairs, Advancing, Undoing, Removes, Kind, Due,
              Unfinished
<1>5. files'.access = files.access /\ files'.dropin = files.dropin /\ files'.release = files.release
      /\ files'.backups = files.backups /\ files'.owned = files.owned
  BY <1>1, ZenonT(60) DEF SignUp, FinishSetup, EditConfig, LoseAccount, Damage, FilesRecord
<1>6. /\ history'.removing = history.removing /\ history'.established = history.established
      /\ history'.undone = history.undone /\ history'.contested = history.contested
      /\ history'.consent = history.consent
  BY <1>1 DEF SignUp, FinishSetup, EditConfig, LoseAccount, Damage, TypeOK
<1>7. ReadAccess' = ReadAccess /\ Goal' = Goal /\ Subject' = Subject /\ Kept' = Kept
      /\ Untouched' = Untouched
  BY <1>2, <1>3, <1>5, <1>6 DEF ReadAccess, Goal, Subject, Kept, Untouched
<1>8. AccessSet' /\ Taking' /\ Returnable' /\ Fitting' /\ Consented'
  BY <1>2, <1>3, <1>5, <1>6, <1>7
     DEF IInv, AccessSet, Servable, Taking, Returnable, Fitting, Consented, Due, Removes
<1>9. /\ HasAccount => HasAccount'
      /\ files.config # None => files'.config # None
      /\ files' \in FilesRecord
  <2>1. history \in [completed: BOOLEAN, established: BOOLEAN, consent: BOOLEAN, undone: BOOLEAN,
                    damaged: BOOLEAN, lost: BOOLEAN, removing: BOOLEAN, contested: BOOLEAN]
    BY <1>1 DEF TypeOK
  <2>2. CASE SignUp
    <3>1. files' = [files EXCEPT !.account = TRUE, !.marker = FALSE] /\ history' = history
      BY <2>2 DEF SignUp
    <3>2. files'.account /\ files'.config = files.config
      BY <1>1, <3>1 DEF FilesRecord
    <3>3. files' \in FilesRecord
      BY <1>1, <3>1 DEF FilesRecord
    <3> QED BY <3>2, <3>3 DEF HasAccount
  <2>6. CASE FinishSetup
    <3>1. files' = [files EXCEPT !.marker = FALSE] /\ history' = history /\ files.account
      BY <2>6 DEF FinishSetup
    <3>2. files'.account /\ files'.config = files.config
      BY <1>1, <3>1 DEF FilesRecord
    <3>3. files' \in FilesRecord
      BY <1>1, <3>1 DEF FilesRecord
    <3> QED BY <3>2, <3>3 DEF HasAccount
  <2>3. CASE EditConfig
    <3>1. PICK c \in Config \ {files.config} : files' = [files EXCEPT !.config = c]
      BY <2>3 DEF EditConfig
    <3>2. history' = history
      BY <2>3 DEF EditConfig
    <3>3. /\ files'.account = files.account /\ files'.marker = files.marker /\ files'.config = c
      BY <1>1, <3>1 DEF FilesRecord
    <3>4. files' \in FilesRecord
      BY <1>1, <3>1 DEF FilesRecord
    <3>5. c # None
      BY ConfigAssumption
    <3> QED BY <3>2, <3>3, <3>4, <3>5 DEF HasAccount
  <2>4. CASE LoseAccount
    <3>1. files' = [files EXCEPT !.account = FALSE] /\ history' = [history EXCEPT !.lost = TRUE]
      BY <2>4 DEF LoseAccount
    <3>2. history'.lost
      BY <2>1, <3>1
    <3>3. files' \in FilesRecord /\ files'.config = files.config
      BY <1>1, <3>1 DEF FilesRecord
    <3> QED BY <3>2, <3>3 DEF HasAccount
  <2>5. CASE Damage
    <3>1. history' = [history EXCEPT !.damaged = TRUE]
      BY <2>5 DEF Damage
    <3>2. history'.lost = history.lost
      BY <2>1, <3>1
    <3>3. CASE files' = [files EXCEPT !.current = None] \/ files' = [files EXCEPT !.directories = FALSE]
      <4>1. /\ files'.account = files.account /\ files'.marker = files.marker
            /\ files'.config = files.config
        BY <1>1, <3>3 DEF FilesRecord
      <4>2. [files EXCEPT !.current = None] \in FilesRecord
        BY <1>1 DEF FilesRecord
      <4>3. [files EXCEPT !.directories = FALSE] \in FilesRecord
        BY <1>1 DEF FilesRecord
      <4> QED BY <3>2, <3>3, <4>1, <4>2, <4>3 DEF HasAccount
    <3>4. CASE \E p \in Piece : files' = [files EXCEPT !.piece[p] = None]
      <4>1. PICK p \in Piece : files' = [files EXCEPT !.piece[p] = None]
        BY <3>4
      <4>2. /\ files'.account = files.account /\ files'.marker = files.marker
            /\ files'.config = files.config
        BY <1>1, <4>1 DEF FilesRecord
      <4>3. files' \in FilesRecord
        BY <1>1, <4>1 DEF FilesRecord
      <4> QED BY <3>2, <4>2, <4>3 DEF HasAccount
    <3> QED BY <2>5, <3>3, <3>4 DEF Damage
  <2> QED BY <2>2, <2>3, <2>4, <2>5, <2>6
<1>10. AccountKept'
  BY <1>2, <1>3, <1>5, <1>6, <1>9 DEF IInv, AccountKept
<1>11. (files.config # None => files'.config # None) /\ files' \in FilesRecord
  BY <1>9
<1>12. TypeOK'
  <2>1. history' \in [completed: BOOLEAN, established: BOOLEAN, consent: BOOLEAN, undone: BOOLEAN,
                     damaged: BOOLEAN, lost: BOOLEAN, removing: BOOLEAN, contested: BOOLEAN]
    BY <1>1 DEF SignUp, FinishSetup, EditConfig, LoseAccount, Damage, TypeOK
  <2>2. spent' \in [operations: Nat, failures: Nat, crashes: Nat, events: Nat]
    BY <1>1, <1>2 DEF TypeOK
  <2> QED BY <2>1, <2>2, <1>1, <1>2, <1>11 DEF TypeOK
<1>13. CASE SignUp \/ FinishSetup \/ EditConfig \/ LoseAccount
  <2>1. /\ files'.current = files.current /\ files'.piece = files.piece
        /\ files'.directories = files.directories /\ history'.damaged = history.damaged
    BY <1>1, <1>13, ZenonT(60) DEF SignUp, FinishSetup, EditConfig, LoseAccount, TypeOK, FilesRecord
  <2>2. Unharmed' = Unharmed
    BY <1>3, <1>7, <2>1 DEF Unharmed
  <2>3. LaidDown' /\ Activated' /\ PlansHold'
    BY <2>1, <2>2, <1>2, <1>3, <1>5, <1>6, <1>7, <1>9, <1>11
       DEF IInv, LaidDown, Activated, PlansHold, StillInOrder, Owned, BackedUp, PiecesOf, WebOf, Servable
  <2>4. Served'
    BY <2>1, <2>2, <1>2, <1>3, <1>5, <1>6, <1>7
       DEF IInv, Served, HelperOf, DropInLoaded, UnitsLoaded, RunningOf
  <2>5. Laying'
    BY <2>1, <1>2, <1>3, <1>5, <1>7, <1>9, <1>11 DEF IInv, Laying, Owned, WebOf, Due, Servable
  <2>6. Starting'
    BY <2>1, <2>2, <1>2, <1>3, <1>5, <1>6, <1>7
       DEF IInv, Starting, HelperOf, DropInLoaded, UnitsLoaded, RunningOf, Due
  <2>7. Mending'
    BY <2>1, <1>2, <1>3, <1>5, <1>6, <1>7, <1>9, <1>11
       DEF IInv, Mending, HelperOf, DropInLoaded, UnitsLoaded, RunningOf, Due, BackedUp, Owned, WebOf,
           Servable
  <2>8. Restoring'
    BY <2>1, <1>2, <1>3, <1>5, <1>6, <1>7, <1>9, <1>11
       DEF IInv, Restoring, HelperOf, DropInLoaded, UnitsLoaded, RunningOf, Due, BackedUp, Owned, WebOf,
           Servable
  <2> QED BY <2>3, <2>4, <2>5, <2>6, <2>7, <2>8, <1>4, <1>8, <1>10, <1>12 DEF IInv
<1>14. CASE Damage
  <2>1. op = None /\ (\A o \in Operator : plans[o] = None) /\ history'.damaged
    BY <1>1, <1>14 DEF Damage, TypeOK
  <2>2. ~Unharmed' /\ ~Anew
    BY <2>1, <1>3 DEF Unharmed, Anew
  <2>3. files'.piece["units"] # None => files'.piece["units"] = files.piece["units"]
    <3>1. files.piece \in [Piece -> Artifact \cup {None}] /\ "units" \in Piece
      BY <1>1 DEF FilesRecord, Piece
    <3>2. CASE files' = [files EXCEPT !.current = None] \/ files' = [files EXCEPT !.directories = FALSE]
      BY <1>1, <3>2 DEF FilesRecord
    <3>3. CASE \E p \in Piece : files' = [files EXCEPT !.piece[p] = None]
      <4>1. PICK p \in Piece : files' = [files EXCEPT !.piece[p] = None]
        BY <3>3
      <4>2. files'.piece = [files.piece EXCEPT ![p] = None]
        BY <1>1, <4>1 DEF FilesRecord
      <4> QED BY <3>1, <4>2
    <3> QED BY <1>14, <3>2, <3>3 DEF Damage
  <2>4. LaidDown' /\ Activated'
    BY <2>2, <1>2, <1>3, <1>5, <1>6, <1>7, <1>9, <1>11
       DEF IInv, LaidDown, Activated, Owned, BackedUp, WebOf, Servable
  <2>5. Served'
    BY <2>2, <2>3, <1>2, <1>3, <1>5, <1>6, <1>7
       DEF IInv, Served, HelperOf, DropInLoaded, UnitsLoaded
  <2>6. PlansHold'
    BY <2>1, <1>2 DEF PlansHold
  <2>7. Laying' /\ Starting' /\ Mending' /\ Restoring'
    BY <2>1, <1>2 DEF Laying, Starting, Mending, Restoring, Advancing, Repairs, Undoing
  <2> QED BY <2>4, <2>5, <2>6, <2>7, <1>4, <1>8, <1>10, <1>12 DEF IInv
<1> QED BY <1>13, <1>14

-----------------------------------------------------------------------------
(* Steps that fail.                                                         *)

(* A rollback that is left short, by a step of it that failed.              *)
LEMMA RollbackShort ==
  ASSUME IInv, Undoing, op' \in Operation,
         op'.plan = op.plan, op'.undo = op.undo, op'.failed, op'.previous = op.previous,
         op'.previousSource = op.previousSource,
         Left(op'.todo) \subseteq Left(op.todo), "undone" \in Left(op'.todo),
         Sorted("other", op'.todo),
         "access" \in Left(op'.todo) => "dropin" \in Left(op'.todo),
         "dropin" \in Left(op'.todo) => "access" \in Left(op'.todo) \/ "access" \notin Left(op.todo),
         UNCHANGED <<journal, files, plans, history, scenario>>, TypeOK',
         system' = system \/ system' = Loaded
  PROVE  IInv'
<1>1. TypeOK /\ Programmed /\ Recorded /\ op # None /\ op.undo
  BY DEF IInv, Undoing
<1>2. op' # None /\ op'.undo /\ ~Removes /\ ~Removes' /\ op.plan \in Plan
  BY <1>1, NoneAssumption, OperationTyped DEF Removes, Programmed
<1>3. /\ ~Repairs /\ ~Repairs' /\ ~Advancing /\ ~Advancing' /\ Undoing' /\ Kind' = "other"
  BY <1>1, <1>2 DEF Repairs, Advancing, Undoing, Kind
<1>4. /\ Subject' = Subject /\ Goal' = Goal /\ ReadAccess' = ReadAccess
      /\ Laid' = Laid /\ Active' = Active /\ Serving' = Serving /\ Unfinished' = Unfinished
      /\ Anew' = Anew
  BY <1>1, <1>2 DEF Subject, Goal, ReadAccess, Laid, Active, Serving, Unfinished, Anew
<1>5. Kept' = Kept /\ Unharmed' = Unharmed /\ Untouched' = Untouched
  BY <1>4 DEF Kept, Unharmed, Untouched
<1>6. history.undone
  BY DEF IInv, Restoring
<1>7. Programmed'
  <2>1. Left(op.todo) \subseteq UndoSteps
        /\ (op.previous = None =>
              Left(op.todo) \subseteq {"halt-helper", "halt", "disable", "remove-pointer", "undone"})
    BY <1>1 DEF Programmed
  <2>2. op'.failed
    OBVIOUS
  <2> QED BY <2>1, <2>2, <1>2, <1>3 DEF Programmed, Due
<1>8. SetRight'
  BY <1>2 DEF SetRight, Due
<1>9. Recorded'
  <2>1. ~Due("prepared") /\ ~Due("prepared")'
    BY <1>1 DEF Programmed, UndoSteps, Due
  <2> QED BY <2>1, <1>1, <1>2, <1>3, <1>4 DEF Recorded
<1>10. LaidDown' /\ Activated' /\ Served' /\ PlansHold'
  BY <1>4, <1>5, <1>6 DEF IInv, LaidDown, Activated, Served, PlansHold, StillInOrder, HasAccount, Owned,
                          BackedUp, PiecesOf, WebOf
<1>11. AccessSet'
  BY <1>1, <1>2, <1>4 DEF IInv, AccessSet, Due, Servable
<1>12. Laying' /\ Starting' /\ Mending' /\ Taking'
  BY <1>2, <1>3 DEF Laying, Starting, Mending, Taking
<1>13. Restoring'
  BY <1>1, <1>3, <1>6 DEF IInv, Restoring, HasAccount, Owned, BackedUp
<1>14. Returnable' /\ Fitting'
  BY <1>1, <1>2, <1>4 DEF IInv, Returnable, Fitting
<1>15. AccountKept'
  BY <1>1, <1>2 DEF IInv, AccountKept, HasAccount
<1>16. Consented'
  <2>1. (system'.dropin => system.dropin \/ files.dropin # None) /\ system'.running = system.running
    BY <1>1, ZenonT(60) DEF Loaded, TypeOK, SystemRecord
  <2> QED BY <2>1, <1>1, <1>2 DEF IInv, Consented
<1> QED BY <1>7, <1>8, <1>9, <1>10, <1>11, <1>12, <1>13, <1>14, <1>15, <1>16 DEF IInv

(* The drop-in is written right after the access it is made for.            *)
LEMMA DropInNext ==
  ASSUME TypeOK, Programmed, SetRight, Undoing, At("access")
  PROVE  LET rest == Tail(Tail(op.todo))
         IN  /\ rest \in Seq(Step) /\ Sorted(Kind, rest)
             /\ Left(rest) = Left(op.todo) \ {"access", "dropin"}
<1>1. /\ op # None /\ Kind \in Kinds /\ op.todo \in Seq(Step) \ {<<>>} /\ Sorted(Kind, op.todo)
      /\ Left(op.todo) \subseteq UndoSteps
  BY OperationTyped DEF Undoing, Programmed
<1>2. Head(op.todo) = "access"
  BY DEF At
<1> DEFINE t == Tail(op.todo)
<1>3. /\ "access" \in Left(op.todo)
      /\ \A s \in Left(op.todo) : s # "access" => Before(Kind, "access", s)
      /\ t \in Seq(Step) /\ Sorted(Kind, t) /\ Left(t) = Left(op.todo) \ {"access"}
  BY <1>1, <1>2, HeadFirst
<1>4. "dropin" \in Left(t)
  BY <1>1, <1>3 DEF SetRight, Due
<1>5. t \in Seq(Step) \ {<<>>}
  BY <1>3, <1>4, SomethingLeft
<1>6. /\ Head(t) \in Left(t)
      /\ \A s \in Left(t) : s # Head(t) => Before(Kind, Head(t), s)
      /\ Tail(t) \in Seq(Step) /\ Sorted(Kind, Tail(t)) /\ Left(Tail(t)) = Left(t) \ {Head(t)}
      /\ Head(t) \in Step
  BY <1>1, <1>3, <1>5, HeadFirst
<1>7. Head(t) = "dropin"
  <2> SUFFICES ASSUME Head(t) # "dropin" PROVE FALSE
    OBVIOUS
  <2>1. Before(Kind, Head(t), "dropin") /\ Before(Kind, "access", Head(t))
    BY <1>3, <1>4, <1>6
  <2>2. Before(Kind, Head(t), "access") \/ Before(Kind, "dropin", Head(t))
    BY <1>1, <1>3, <1>6, Order
  <2>3. "access" \in Step /\ "dropin" \in Step
    BY StepSet
  <2> QED BY <2>1, <2>2, <2>3, <1>1, <1>6, BeforeIsOrder
<1> QED BY <1>3, <1>6, <1>7

LEMMA Single == <<"undone">> \in Seq(Step) /\ Left(<<"undone">>) = {"undone"}
                /\ \A kind \in Kinds : Sorted(kind, <<"undone">>)
BY StepSet DEF Left, Sorted

(* A step of a rollback fails.                                              *)
LEMMA RollbackFails ==
  ASSUME IInv, RollbackStepFails PROVE IInv'
<1> DEFINE h == Head(op.todo)
           rest == Remaining(h)
<1>1. /\ op # None /\ op.undo /\ Raising
      /\ op' = [op EXCEPT !.failed = TRUE,
                          !.restorable = @ /\ Head(op.todo) \notin {"access", "pointer"},
                          !.todo = Remaining(Head(op.todo))]
      /\ UNCHANGED <<journal, files, system, plans, history, scenario>>
  BY DEF RollbackStepFails
<1>2. TypeOK /\ Programmed /\ SetRight
  BY DEF IInv
<1>3. Undoing /\ Kind = "other" /\ Kind \in Kinds /\ op \in Operation
      /\ op.todo \in Seq(Step) \ {<<>>} /\ Sorted(Kind, op.todo) /\ op.restorable \in BOOLEAN
  BY <1>1, <1>2, OperationTyped DEF Undoing, Kind, Repairs, Programmed
<1>4. h \notin {"undone", "dropin"}
  BY <1>1 DEF Raising, Refused, Commands, At
<1>5. /\ h \in Left(op.todo) /\ Tail(op.todo) \in Seq(Step) /\ Sorted(Kind, Tail(op.todo))
      /\ Left(Tail(op.todo)) = Left(op.todo) \ {h}
  BY <1>3, HeadFirst
<1>6. "undone" \in Left(op.todo) /\ ("access" \in Left(op.todo) => "dropin" \in Left(op.todo))
  BY <1>1, <1>2, <1>3 DEF Programmed, SetRight, Due
<1>7. /\ rest \in Seq(Step) /\ Left(rest) \subseteq Left(op.todo) /\ "undone" \in Left(rest)
      /\ Sorted("other", rest)
      /\ "access" \in Left(rest) => "dropin" \in Left(rest)
      /\ "dropin" \in Left(rest) => "access" \in Left(rest) \/ "access" \notin Left(op.todo)
  <2>1. CASE h = "access"
    <3>1. rest = Tail(Tail(op.todo))
      BY <2>1 DEF Remaining
    <3>2. At("access")
      BY <2>1, <1>1 DEF At
    <3>3. rest \in Seq(Step) /\ Sorted(Kind, rest) /\ Left(rest) = Left(op.todo) \ {"access", "dropin"}
      BY <3>1, <3>2, <1>2, <1>3, DropInNext
    <3> QED BY <3>3, <1>3, <1>6
  <2>2. CASE h \in {"reload", "restart"}
    <3>1. rest = <<"undone">>
      BY <2>2 DEF Remaining
    <3>2. Left(rest) = {"undone"} /\ rest \in Seq(Step) /\ Sorted("other", rest)
      BY <3>1, Single DEF Kinds
    <3> QED BY <3>2, <1>6
  <2>3. CASE h \notin {"access", "reload", "restart"}
    <3>1. rest = Tail(op.todo)
      BY <2>3 DEF Remaining
    <3> QED BY <2>3, <3>1, <1>3, <1>4, <1>5, <1>6
  <2> QED BY <2>1, <2>2, <2>3
<1>8. rest \in Seq(Step) \ {<<>>}
  BY <1>7, SomethingLeft
<1>9. /\ op' \in Operation /\ op'.todo = rest /\ op'.failed /\ op'.plan = op.plan /\ op'.undo = op.undo
      /\ op'.previous = op.previous /\ op'.previousSource = op.previousSource
  BY <1>1, <1>3, <1>8 DEF Operation
<1>10. TypeOK'
  <2>1. spent' \in [operations: Nat, failures: Nat, crashes: Nat, events: Nat]
    BY <1>1, <1>2 DEF TypeOK, Raising
  <2> QED BY <2>1, <1>1, <1>2, <1>9 DEF TypeOK
<1> QED BY <1>1, <1>3, <1>7, <1>9, <1>10, RollbackShort

(* The units are loaded for a rollback that cannot start the release.       *)
LEMMA ReloadStep ==
  ASSUME IInv, ReloadUnits PROVE IInv'
<1>1. CASE ~(op.undo /\ ~op.restorable)
  BY <1>1, CommandSteps
<1>2. CASE op.undo /\ ~op.restorable
  <2>1. /\ op # None /\ system' = Loaded /\ op' = [op EXCEPT !.todo = <<"undone">>]
        /\ UNCHANGED <<journal, files, plans, history, spent, scenario>>
    BY <1>2 DEF ReloadUnits, Systemd, At
  <2>2. TypeOK /\ Programmed /\ SetRight
    BY DEF IInv
  <2>3. Undoing /\ op \in Operation /\ op.failed /\ "undone" \in Left(op.todo)
    BY <1>2, <2>1, <2>2, OperationTyped DEF Undoing, Programmed, Due
  <2>4. <<"undone">> \in Seq(Step) \ {<<>>}
    BY Single, SomethingLeft
  <2>5. /\ op' \in Operation /\ op'.todo = <<"undone">> /\ op'.failed /\ op'.plan = op.plan
        /\ op'.undo = op.undo /\ op'.previous = op.previous /\ op'.previousSource = op.previousSource
    BY <2>1, <2>3, <2>4 DEF Operation
  <2>6. TypeOK'
    <3>1. files.piece["units"] \in Artifact \cup {None} /\ system \in SystemRecord
      BY <2>2 DEF TypeOK, FilesRecord, Piece
    <3>2. system' \in SystemRecord
      BY <2>1, <3>1 DEF Loaded, SystemRecord
    <3> QED BY <2>1, <2>2, <2>5, <3>2 DEF TypeOK
  <2>7. Left(op'.todo) = {"undone"} /\ Sorted("other", op'.todo)
    BY <2>5, Single DEF Kinds
  <2> QED BY <2>1, <2>3, <2>5, <2>6, <2>7, RollbackShort
<1> QED BY <1>1, <1>2

-----------------------------------------------------------------------------
(* The activation of a release fails.                                       *)

LEMMA RestoreProgram ==
  /\ RestoreSteps \in Seq(Step) \ {<<>>} /\ Sorted("other", RestoreSteps)
  /\ Left(RestoreSteps) = {"halt-helper", "halt", "units", "maintenance", "tools", "access", "dropin",
                           "pointer", "reload", "helper", "enable", "restart", "verify", "undone"}
  /\ WithdrawSteps \in Seq(Step) \ {<<>>} /\ Sorted("other", WithdrawSteps)
  /\ Left(WithdrawSteps) = {"halt-helper", "halt", "disable", "remove-pointer", "undone"}
<1> DEFINE r == <<"halt-helper", "halt">>
           t == <<"access", "dropin", "pointer", "reload", "helper", "enable", "restart", "verify",
                  "undone">>
<1>1. RestoreSteps = (r \o Pieces) \o t
  BY DEF RestoreSteps
<1>2. "other" \in Kinds
  BY DEF Kinds
<1>3. /\ r \in Seq(Step) /\ Pieces \in Seq(Step) /\ t \in Seq(Step)
      /\ Left(r) = {"halt-helper", "halt"} /\ Left(Pieces) = {"units", "maintenance", "tools"}
      /\ Left(t) = {"access", "dropin", "pointer", "reload", "helper", "enable", "restart", "verify",
                    "undone"}
      /\ Sorted("other", r) /\ Sorted("other", Pieces) /\ Sorted("other", t)
  <2>1. r \in Seq(Step) /\ Pieces \in Seq(Step) /\ t \in Seq(Step)
    BY StepSet DEF Pieces
  <2>2. /\ Left(r) = {"halt-helper", "halt"} /\ Left(Pieces) = {"units", "maintenance", "tools"}
        /\ Left(t) = {"access", "dropin", "pointer", "reload", "helper", "enable", "restart", "verify",
                      "undone"}
    BY DEF Left, Pieces
  <2>3. Sorted("other", r) /\ Sorted("other", Pieces) /\ Sorted("other", t)
    BY <1>2, Places DEF Sorted, Before, Pieces
  <2> QED BY <2>1, <2>2, <2>3
<1> HIDE DEF r, t
<1>7. /\ \A x \in {"halt-helper", "halt"} :
           \A y \in {"units", "maintenance", "tools", "access", "dropin", "pointer", "reload", "helper",
                    "enable", "restart", "verify", "undone"} : Before("other", x, y)
      /\ \A x \in {"units", "maintenance", "tools"} :
           \A y \in {"access", "dropin", "pointer", "reload", "helper", "enable", "restart", "verify",
                    "undone"} : Before("other", x, y)
  BY <1>2, Places DEF Before
<1>4. /\ r \o Pieces \in Seq(Step) /\ Left(r \o Pieces) = Left(r) \cup Left(Pieces)
      /\ Sorted("other", r \o Pieces)
  <2>1. \A x \in Left(r), y \in Left(Pieces) : Before("other", x, y)
    BY <1>3, <1>7
  <2> QED BY <2>1, <1>2, <1>3, Spliced, SortedSpliced
<1>8. /\ RestoreSteps \in Seq(Step) /\ Sorted("other", RestoreSteps)
      /\ Left(RestoreSteps) = Left(r) \cup Left(Pieces) \cup Left(t)
  <2>1. \A x \in Left(r \o Pieces), y \in Left(t) : Before("other", x, y)
    BY <1>3, <1>4, <1>7
  <2> QED BY <2>1, <1>1, <1>2, <1>3, <1>4, Spliced, SortedSpliced, ZenonT(60)
<1>9. /\ RestoreSteps # <<>>
      /\ Left(RestoreSteps) = {"halt-helper", "halt", "units", "maintenance", "tools", "access", "dropin",
                               "pointer", "reload", "helper", "enable", "restart", "verify", "undone"}
  BY <1>3, <1>8, SomethingLeft
<1>5. WithdrawSteps \in Seq(Step) \ {<<>>}
  BY StepSet DEF WithdrawSteps
<1>6. Sorted("other", WithdrawSteps)
  <2>1. "other" \in Kinds
    BY DEF Kinds
  <2> QED BY <2>1, Places DEF Sorted, Before, WithdrawSteps
<1>10. Left(WithdrawSteps) = {"halt-helper", "halt", "disable", "remove-pointer", "undone"}
  BY DEF Left, WithdrawSteps
<1> QED BY <1>5, <1>6, <1>8, <1>9, <1>10

(* What is left when the new release does not start, and is then undone.    *)
LEMMA ActivationFailsStep ==
  ASSUME IInv, ActivationFails PROVE IInv'
<1> DEFINE h == Head(op.todo)
<1>1. /\ op # None /\ ~op.undo /\ RolledBack /\ Raising
      /\ op' = [op EXCEPT !.undo = TRUE,
                          !.failed = op.previous # None /\ ~Restorable,
                          !.todo = IF Restorable THEN RestoreSteps ELSE WithdrawSteps]
      /\ history' = [history EXCEPT !.undone = TRUE]
      /\ UNCHANGED <<journal, files, system, plans, scenario>>
  BY DEF ActivationFails
<1>2. TypeOK /\ Programmed /\ SetRight /\ Recorded
  BY DEF IInv
<1>3. /\ op.plan.mode # "uninstall" /\ h \in StartingSteps
      /\ op.plan.mode = "repair" => h \in {"restart", "verify"}
  BY <1>1 DEF RolledBack, StartingSteps
<1>4. /\ op \in Operation /\ op.plan \in Plan /\ Kind \in Kinds /\ ~Removes
      /\ h \in Left(op.todo) /\ Nearest(h) /\ h \in Step /\ Left(op.todo) \subseteq Step
  BY <1>1, <1>2, <1>3, OperationTyped, HeadIsNearest DEF Removes
<1>5. (Repairs /\ ~Advancing) \/ (Advancing /\ ~Repairs)
  BY <1>1, <1>3, <1>4 DEF Plan, Repairs, Advancing
<1>6. ~Due("prepared") /\ ~Due("activated")
  <2>1. Before(Kind, "prepared", h) /\ Before(Kind, "activated", h)
    BY <1>3, <1>4, Order
  <2>2. "prepared" \in Step /\ "activated" \in Step
    BY StepSet
  <2> QED BY <2>1, <2>2, <1>4, BeforeIsOrder DEF Nearest, Due
<1>7. Unfinished
  BY <1>1, <1>2, <1>4, <1>6 DEF Recorded
<1>8. Advancing => journal.phase = "activated"
  <2> SUFFICES ASSUME Advancing PROVE journal.phase = "activated"
    OBVIOUS
  <2>1. Due("services")
    BY <1>1, <1>2, <1>3, <1>4 DEF Programmed, Due
  <2>2. journal.phase \notin {"services", "prepared", "packages", "dependencies", "release",
                              "complete", "uninstalled"}
    BY <2>1, <1>2, <1>6, <1>7 DEF Recorded, Unfinished
  <2>3. journal.phase \in Phase \cup {"uninstalled"}
    BY <1>2, <1>7 DEF TypeOK, JournalRecord, Unfinished
  <2> QED BY <2>2, <2>3, PhaseSet
<1>9. Repairs => ~Due("owners") /\ ~Due("directories")
  <2> SUFFICES ASSUME Repairs PROVE ~Due("owners") /\ ~Due("directories")
    OBVIOUS
  <2>1. h \in {"restart", "verify"} /\ {"owners", "directories"} \subseteq Step
    BY <1>3, StepSet DEF Repairs
  <2>2. Before(Kind, "owners", h) /\ Before(Kind, "directories", h)
    BY <2>1, <1>4, Order DEF LayingSteps
  <2> QED BY <2>1, <2>2, <1>4, BeforeIsOrder DEF Nearest, Due
<1>10. /\ op' \in Operation /\ op'.undo /\ op'.plan = op.plan
       /\ op'.failed = (op.previous # None /\ ~Restorable)
       /\ op'.todo = IF Restorable THEN RestoreSteps ELSE WithdrawSteps
       /\ op'.restorable /\ op'.previous = op.previous /\ op'.previousSource = op.previousSource
  <2>1. op.restorable /\ ~op.failed
    BY <1>1, <1>2 DEF Programmed
  <2>2. (op.previous # None /\ ~Restorable) \in BOOLEAN
    OBVIOUS
  <2>3. RestoreSteps \in Seq(Step) \ {<<>>} /\ WithdrawSteps \in Seq(Step) \ {<<>>}
    BY RestoreProgram
  <2> QED BY <2>1, <2>2, <2>3, <1>1, <1>4 DEF Operation
<1>11. op' # None
  BY <1>10, NoneAssumption
<1>12. /\ ~Repairs' /\ ~Advancing' /\ Undoing' /\ ~Removes' /\ Kind' = "other"
       /\ Laid' = Laid /\ Active' = Active /\ Serving' = Serving /\ Unfinished' = Unfinished
       /\ Anew' = Anew /\ ReadAccess' = ReadAccess
  BY <1>1, <1>3, <1>10, <1>11
     DEF Repairs, Advancing, Undoing, Removes, Kind, Laid, Active, Serving, Unfinished, Anew, ReadAccess
<1>13. /\ history'.undone /\ history'.removing = history.removing
       /\ history'.damaged = history.damaged /\ history'.lost = history.lost
       /\ history'.established = history.established /\ history'.consent = history.consent
       /\ history'.contested = history.contested
  BY <1>1, <1>2 DEF TypeOK
<1>14. Kept' = Kept /\ Unharmed' = Unharmed /\ (Untouched' => Untouched)
  BY <1>1, <1>12, <1>13 DEF Kept, Unharmed, Untouched
<1>15. /\ Sorted("other", op'.todo) /\ Left(op'.todo) \subseteq UndoSteps
       /\ "undone" \in Left(op'.todo)
       /\ Restorable => Left(op'.todo) = {"halt-helper", "halt", "units", "maintenance", "tools", "access",
                                        "dropin", "pointer", "reload", "helper", "enable", "restart",
                                        "verify", "undone"}
       /\ ~Restorable => Left(op'.todo) = {"halt-helper", "halt", "disable", "remove-pointer", "undone"}
  BY <1>10, RestoreProgram DEF UndoSteps
<1>16. TypeOK'
  <2>1. spent' \in [operations: Nat, failures: Nat, crashes: Nat, events: Nat]
    BY <1>1, <1>2 DEF TypeOK, Raising
  <2>2. history' \in [completed: BOOLEAN, established: BOOLEAN, consent: BOOLEAN, undone: BOOLEAN,
                     damaged: BOOLEAN, lost: BOOLEAN, removing: BOOLEAN, contested: BOOLEAN]
    BY <1>1, <1>2 DEF TypeOK
  <2> QED BY <2>1, <2>2, <1>1, <1>2, <1>10 DEF TypeOK
<1>17. op.previous = None => ~Restorable
  BY DEF Restorable
<1>18. Programmed'
  <2>1. op'.previous = None => Left(op'.todo) \subseteq {"halt-helper", "halt", "disable", "remove-pointer",
                                                       "undone"}
    BY <1>10, <1>15, <1>17
  <2>2. (op'.previous # None /\ ~op'.failed) =>
          /\ ~Due("disable")' /\ ~Due("remove-pointer")'
          /\ Due("halt-helper")' => Due("helper")'
          /\ Due("halt")' => Due("restart")'
    <3>1. (op'.previous # None /\ ~op'.failed) => Restorable
      BY <1>10
    <3>2. Restorable => ~Due("disable")' /\ ~Due("remove-pointer")' /\ Due("helper")' /\ Due("restart")'
      BY <1>11, <1>15 DEF Due
    <3> QED BY <3>1, <3>2
  <2> QED BY <2>1, <2>2, <1>10, <1>11, <1>12, <1>15 DEF Programmed, Due
<1>19. SetRight'
  <2>1. CASE Restorable
    BY <2>1, <1>11, <1>15 DEF SetRight, Due, Piece
  <2>2. CASE ~Restorable
    BY <2>2, <1>11, <1>15 DEF SetRight, Due, Piece
  <2> QED BY <2>1, <2>2
<1>20. Recorded'
  <2>1. ~Due("prepared")'
    BY <1>15 DEF Due, UndoSteps
  <2>2. op.plan.mode # "repair" => journal.phase = "activated"
    BY <1>1, <1>5, <1>8 DEF Repairs
  <2> QED BY <2>1, <2>2, <1>1, <1>2, <1>4, <1>6, <1>7, <1>10, <1>11, <1>12 DEF Recorded
<1>21. LaidDown'
  BY <1>1, <1>12, <1>13, <1>14 DEF IInv, LaidDown, HasAccount, Owned, BackedUp, PiecesOf, WebOf
<1>22. Activated' /\ Served'
  BY <1>13 DEF Activated, Served
<1>23. PlansHold'
  BY <1>1, <1>12, <1>13, <1>14 DEF IInv, PlansHold, StillInOrder
<1>24. AccessSet'
  <2>1. Due("dropin")' => Due("access")'
    BY <1>11, <1>15 DEF Due
  <2> QED BY <2>1 DEF AccessSet
<1>25. Laying' /\ Starting' /\ Mending' /\ Taking'
  BY <1>12 DEF Laying, Starting, Mending, Taking
<1>26. Restoring'
  <2>1. (op.plan.mode = "repair" /\ ~history.removing) =>
          /\ files.config # None /\ HasAccount /\ Owned /\ files.directories
          /\ BackedUp(op.plan.snapshot)
    BY <1>1, <1>9 DEF IInv, Mending, Repairs
  <2>2. BackedUp(op.plan.snapshot) => BackedUp(op.plan.snapshot)'
    BY <1>1, <1>10 DEF BackedUp
  <2>3. (op'.previous # None /\ ~op'.failed) =>
          /\ \A s \in {"units", "maintenance", "tools", "dropin", "pointer", "reload", "helper", "enable",
                     "restart"} : Due(s)'
    BY <1>10, <1>11, <1>15 DEF Due
  <2> QED BY <2>1, <2>2, <2>3, <1>1, <1>10, <1>13 DEF Restoring, HasAccount, Owned, Piece
<1>27. Returnable' /\ Fitting'
  BY <1>1, <1>4, <1>10, <1>11, <1>12, <1>13 DEF IInv, Returnable, Fitting
<1>28. AccountKept'
  BY <1>1, <1>4, <1>10, <1>11, <1>12, <1>13 DEF IInv, AccountKept, HasAccount
<1>29. Consented'
  BY <1>1, <1>4, <1>10, <1>11, <1>12, <1>13 DEF IInv, Consented
<1> QED BY <1>16, <1>18, <1>19, <1>20, <1>21, <1>22, <1>23, <1>24, <1>25, <1>26, <1>27, <1>28, <1>29
        DEF IInv

-----------------------------------------------------------------------------
(* Uninstallation.                                                          *)

(* What a removal is about, and what it can take nothing from.              *)
LEMMA RemovingFacts ==
  ASSUME IInv, NEW h, At(h), h \in {"strip", "remove-opt", "remove-run", "remove-etc", "remove-var",
                                    "uninstalled"}
  PROVE  /\ op # None /\ h = Head(op.todo) /\ h \in Left(op.todo) /\ Nearest(h)
         /\ Removes /\ ~Repairs /\ ~Advancing /\ ~Undoing /\ ~op.undo /\ Kind = "other"
         /\ Left(op.todo) \subseteq RemovalSteps
         /\ ~Anew
         /\ history.removing \/ (journal = None /\ ~history.established)
<1>1. TypeOK /\ Programmed /\ op # None /\ h = Head(op.todo)
  BY DEF IInv, At
<1>2. h \in Left(op.todo) /\ Nearest(h) /\ Left(op.todo) \subseteq Step
  BY <1>1, HeadIsNearest
<1>3. /\ ~Repairs /\ ~Undoing /\ ~Advancing
  BY <1>1, <1>2, PhaseSet
     DEF Programmed, MendingSteps, UndoSteps, LayingSteps, StartingSteps
<1>4. Removes /\ ~op.undo
  BY <1>1, <1>3, OperationTyped DEF Plan, Removes, Repairs, Undoing, Advancing
<1>5. Left(op.todo) \subseteq RemovalSteps
  BY <1>1, <1>4 DEF Programmed
<1>6. ~Anew /\ Kind = "other"
  BY <1>3, <1>4 DEF Anew, Removes, Kind
<1>7. history.removing \/ (journal = None /\ ~history.established)
  BY <1>4 DEF IInv, Taking
<1> QED BY <1>1, <1>2, <1>3, <1>4, <1>5, <1>6, <1>7

(* One entry is removed, or nothing more and the removal goes on.           *)
LEMMA EntryRemoved ==
  ASSUME IInv, NEW h, At(h), h \in {"strip", "remove-opt", "remove-run", "remove-etc"},
         op' = op \/ Advance,
         UNCHANGED <<journal, system, plans, history, spent, scenario>>, files' \in FilesRecord,
         files'.dropin \in {files.dropin, None}, files'.access \in {files.access, None},
         files'.backups = files.backups,
         (h = "strip" /\ op' # op) => files'.dropin = None,
         (h = "remove-etc" /\ op' # op) => files'.access = None
  PROVE  IInv'
<1>1. /\ op # None /\ h = Head(op.todo) /\ h \in Left(op.todo) /\ Nearest(h)
      /\ Removes /\ ~Repairs /\ ~Advancing /\ ~Undoing /\ ~op.undo /\ Kind = "other"
      /\ Left(op.todo) \subseteq RemovalSteps
      /\ ~Anew
      /\ history.removing \/ (journal = None /\ ~history.established)
  BY RemovingFacts
<1>2. TypeOK /\ Programmed /\ SetRight /\ Recorded
  BY DEF IInv
<1>3. h \notin LastSteps /\ h \notin Phase /\ h \in Step
  BY PhaseSet, StepSet DEF LastSteps
<1>4. op' # op => Moved(h) /\ Programmed' /\ SetRight' /\ Recorded'
  <2> SUFFICES ASSUME op' # op PROVE Moved(h) /\ Programmed' /\ SetRight' /\ Recorded'
    OBVIOUS
  <2>1. op' = [op EXCEPT !.todo = Tail(@)]
    BY DEF Advance
  <2>2. Moved(h) /\ Programmed' /\ SetRight'
    BY <2>1, <1>1, <1>2, <1>3, Moving, ProgramMoves
  <2> QED BY <2>2, <1>2, <1>3, RecordMoves
<1>5. /\ Repairs' = Repairs /\ Advancing' = Advancing /\ Undoing' = Undoing /\ Removes' = Removes
      /\ Kind' = Kind
      /\ \A s \in Step : (Due(s)' => Due(s)) /\ (Due(s) => Due(s)' \/ (s = h /\ op' # op))
      /\ op' # None /\ op' \in Operation /\ op'.plan = op.plan
  <2>1. CASE op' = op
    BY <2>1, <1>1, <1>2, OperationTyped DEF Repairs, Advancing, Undoing, Removes, Kind, Due
  <2>2. CASE op' # op
    BY <2>2, <1>4, MovedKinds DEF Moved
  <2> QED BY <2>1, <2>2
<1>6. Programmed' /\ SetRight' /\ Recorded'
  <2>1. CASE op' = op
    BY <2>1, <1>2 DEF Programmed, SetRight, Recorded, Sorted, Repairs, Advancing, Undoing, Removes,
                      Kind, Due, Unfinished, Place, Before
  <2> QED BY <2>1, <1>4
<1>7. TypeOK'
  BY <1>2, <1>5 DEF TypeOK
<1>8. /\ Laid' = Laid /\ Active' = Active /\ Serving' = Serving /\ Unfinished' = Unfinished
      /\ ~Anew'
  BY <1>1, <1>5 DEF Laid, Active, Serving, Unfinished, Anew, Removes
<1>9. Laid \/ Active \/ Serving \/ Unfinished => ~Kept' /\ ~Unharmed' /\ history.removing
  BY <1>1, <1>8 DEF Laid, Active, Serving, Unfinished, Kept, Unharmed
<1>10. LaidDown' /\ Activated' /\ Served' /\ PlansHold'
  BY <1>8, <1>9 DEF LaidDown, Activated, Served, PlansHold, StillInOrder
<1>11. AccessSet'
  <2>1. ~Due("dropin")'
    BY <1>1, <1>5, StepSet DEF RemovalSteps, Due
  <2> QED BY <2>1 DEF AccessSet
<1>12. Laying' /\ Starting' /\ Mending' /\ Restoring'
  BY <1>1, <1>5 DEF Laying, Starting, Mending, Restoring
<1>13. Taking'
  <2>1. /\ Due("halt-helper") => Due("halt-helper")'
        /\ Due("disable") => Due("disable")'
        /\ Due("forget-units") => Due("forget-units")'
        /\ Due("uninstalled")' => Due("uninstalled")
        /\ Due("strip") => Due("strip")' \/ (h = "strip" /\ op' # op)
        /\ Due("remove-etc") => Due("remove-etc")' \/ (h = "remove-etc" /\ op' # op)
    BY <1>5, StepSet
  <2>2. /\ history.removing \/ (journal = None /\ ~history.established)
        /\ Due("uninstalled") => journal # None
        /\ ~Due("halt-helper") => ~system.helper
        /\ ~Due("disable") => ~system.enabled /\ system.running = None
        /\ ~Due("strip") => files.dropin = None
        /\ ~Due("forget-units") => ~system.dropin
        /\ (op.plan.data /\ ~Due("remove-etc")) => files.access = None
    BY <1>1 DEF IInv, Taking
  <2>3. ~Due("strip")' => files'.dropin = None
    BY <2>1, <2>2
  <2>4. (op'.plan.data /\ ~Due("remove-etc")') => files'.access = None
    BY <2>1, <2>2, <1>5
  <2> QED BY <2>1, <2>2, <2>3, <2>4 DEF Taking
<1>14. Returnable' /\ Fitting'
  BY <1>1, <1>5, <1>8, <1>9 DEF Returnable, Fitting
<1>15. AccountKept'
  BY <1>1, <1>5 DEF IInv, AccountKept
<1>16. Consented'
  BY <1>1, <1>5, NoneAssumption DEF IInv, Consented, Access
<1> QED BY <1>6, <1>7, <1>10, <1>11, <1>12, <1>13, <1>14, <1>15, <1>16 DEF IInv

LEMMA EntrySteps ==
  ASSUME IInv, Strip \/ RemoveProgram \/ RemoveRun \/ RemoveSettings PROVE IInv'
<1>1. TypeOK /\ files \in FilesRecord
  BY DEF IInv, TypeOK
<1>2. CASE Strip
  <2>1. At("strip") /\ UNCHANGED <<journal, system, plans, history, spent, scenario>>
    BY <1>2 DEF Strip, Removing
  <2>2. \/ \E p \in Piece : files' = [files EXCEPT !.piece[p] = None] /\ op' = op
        \/ files' = [files EXCEPT !.dropin = None] /\ Advance
    BY <1>2 DEF Strip, Removing
  <2>3. CASE \E p \in Piece : files' = [files EXCEPT !.piece[p] = None] /\ op' = op
    <3>1. PICK p \in Piece : files' = [files EXCEPT !.piece[p] = None] /\ op' = op
      BY <2>3
    <3>2. /\ files'.dropin = files.dropin /\ files'.access = files.access
          /\ files'.backups = files.backups /\ files' \in FilesRecord
      BY <1>1, <3>1 DEF FilesRecord
    <3> QED BY <2>1, <3>1, <3>2, EntryRemoved
  <2>4. CASE files' = [files EXCEPT !.dropin = None] /\ Advance
    <3>1. /\ files'.dropin = None /\ files'.access = files.access
          /\ files'.backups = files.backups /\ files' \in FilesRecord
      BY <1>1, <2>4 DEF FilesRecord
    <3> QED BY <2>1, <2>4, <3>1, EntryRemoved
  <2> QED BY <2>2, <2>3, <2>4
<1>3. CASE RemoveProgram
  <2>1. At("remove-opt") /\ UNCHANGED <<journal, system, plans, history, spent, scenario>>
    BY <1>3 DEF RemoveProgram, Removing
  <2>2. \/ \E v \in Version : files' = [files EXCEPT !.release[v] = None] /\ op' = op
        \/ files' = [files EXCEPT !.current = None] /\ op' = op
        \/ files' = files /\ Advance
    BY <1>3 DEF RemoveProgram, Removing
  <2>3. CASE \E v \in Version : files' = [files EXCEPT !.release[v] = None] /\ op' = op
    <3>1. PICK v \in Version : files' = [files EXCEPT !.release[v] = None] /\ op' = op
      BY <2>3
    <3>2. /\ files'.dropin = files.dropin /\ files'.access = files.access
          /\ files'.backups = files.backups /\ files' \in FilesRecord
      BY <1>1, <3>1 DEF FilesRecord
    <3> QED BY <2>1, <3>1, <3>2, EntryRemoved
  <2>4. CASE files' = [files EXCEPT !.current = None] /\ op' = op
    <3>1. /\ files'.dropin = files.dropin /\ files'.access = files.access
          /\ files'.backups = files.backups /\ files' \in FilesRecord
      BY <1>1, <2>4 DEF FilesRecord
    <3> QED BY <2>1, <2>4, <3>1, EntryRemoved
  <2>5. CASE files' = files /\ Advance
    BY <1>1, <2>1, <2>5, EntryRemoved
  <2> QED BY <2>2, <2>3, <2>4, <2>5
<1>4. CASE RemoveRun
  <2>1. /\ At("remove-run") /\ UNCHANGED <<journal, system, plans, history, spent, scenario>>
        /\ files' = [files EXCEPT !.directories = FALSE] /\ Advance
    BY <1>4 DEF RemoveRun, Removing
  <2>2. /\ files'.dropin = files.dropin /\ files'.access = files.access
        /\ files'.backups = files.backups /\ files' \in FilesRecord
    BY <1>1, <2>1 DEF FilesRecord
  <2> QED BY <2>1, <2>2, EntryRemoved
<1>5. CASE RemoveSettings
  <2>1. At("remove-etc") /\ UNCHANGED <<journal, system, plans, history, spent, scenario>>
    BY <1>5 DEF RemoveSettings, Removing
  <2>2. \/ /\ \/ files' = [files EXCEPT !.config = None]
              \/ files' = [files EXCEPT !.account = FALSE]
              \/ files' = [files EXCEPT !.marker = FALSE]
              \/ files' = [files EXCEPT !.access = None]
           /\ op' = op
        \/ files.access = None /\ files' = [files EXCEPT !.owned = {}] /\ Advance
    BY <1>5 DEF RemoveSettings, Removing
  <2>3. /\ files'.dropin = files.dropin /\ files'.access \in {files.access, None}
        /\ files'.backups = files.backups
        /\ op' # op => files'.access = None
    BY <1>1, <2>2 DEF FilesRecord
  <2>4. files' \in FilesRecord
    <3>1. CASE files' = [files EXCEPT !.config = None]
      BY <1>1, <3>1 DEF FilesRecord
    <3>2. CASE files' = [files EXCEPT !.account = FALSE]
      BY <1>1, <3>2 DEF FilesRecord
    <3>3. CASE files' = [files EXCEPT !.marker = FALSE]
      BY <1>1, <3>3 DEF FilesRecord
    <3>4. CASE files' = [files EXCEPT !.access = None]
      BY <1>1, <3>4 DEF FilesRecord
    <3>5. CASE files' = [files EXCEPT !.owned = {}]
      BY <1>1, <3>5 DEF FilesRecord
    <3> QED BY <2>2, <3>1, <3>2, <3>3, <3>4, <3>5
  <2> QED BY <2>1, <2>2, <2>3, <2>4, EntryRemoved
<1> QED BY <1>2, <1>3, <1>4, <1>5

(* The data goes, and with it all that was recorded.                        *)
LEMMA StateRemoved ==
  ASSUME IInv, RemoveState PROVE IInv'
<1> DEFINE h == "remove-var"
<1>1. /\ At(h) /\ UNCHANGED <<system, plans, spent, scenario>>
      /\ \/ files.backups # {} /\ files' = [files EXCEPT !.backups = {}] /\ UNCHANGED <<journal, op>>
         \/ journal # None /\ journal' = None /\ UNCHANGED <<files, op>>
         \/ files.backups = {} /\ journal = None /\ op' = None /\ UNCHANGED <<journal, files>>
      /\ history' = IF files'.backups = {} /\ journal' = None THEN Purged ELSE history
  BY DEF RemoveState
<1>2. /\ op # None /\ h \in Left(op.todo) /\ Nearest(h)
      /\ Removes /\ ~Repairs /\ ~Advancing /\ ~Undoing /\ ~op.undo /\ Kind = "other"
      /\ Left(op.todo) \subseteq RemovalSteps
      /\ ~Anew
      /\ history.removing \/ (journal = None /\ ~history.established)
  BY <1>1, RemovingFacts
<1>3. TypeOK /\ Programmed /\ SetRight /\ Recorded
  BY DEF IInv
<1>4. /\ op.plan.data /\ ~Due("uninstalled")
      /\ ~Due("halt-helper") /\ ~Due("disable") /\ ~Due("strip") /\ ~Due("forget-units")
      /\ ~Due("remove-etc")
  <2>1. /\ {"halt-helper", "disable", "strip", "forget-units", "remove-etc"} \subseteq Step
        /\ h \in Step
    BY StepSet
  <2>2. \A s \in {"halt-helper", "disable", "strip", "forget-units", "remove-etc"} : Before(Kind, s, h)
    BY <1>2, Order DEF Kinds
  <2>3. Kind \in Kinds
    BY <1>2 DEF Kinds
  <2>4. \A s \in {"halt-helper", "disable", "strip", "forget-units", "remove-etc"} : ~Due(s)
    BY <2>1, <2>2, <2>3, <1>2, BeforeIsOrder DEF Nearest, Due
  <2> QED BY <2>4, <1>2, <1>3 DEF Programmed, Due
<1>5. /\ ~system.helper /\ ~system.enabled /\ system.running = None /\ files.dropin = None
      /\ ~system.dropin /\ files.access = None
  BY <1>2, <1>4 DEF IInv, Taking
<1>6. /\ files' \in FilesRecord
      /\ files'.dropin = None /\ files'.access = None
      /\ files' = [files EXCEPT !.backups = files'.backups]
      /\ files'.release = files.release
  <2>1. files \in FilesRecord
    BY <1>3 DEF TypeOK
  <2>2. CASE files' = files
    BY <2>1, <2>2, <1>5 DEF FilesRecord
  <2>3. CASE files' = [files EXCEPT !.backups = {}]
    BY <2>1, <2>3, <1>5 DEF FilesRecord
  <2> QED BY <2>2, <2>3, <1>1
<1>7. op' = op \/ op' = None
  BY <1>1
<1>8. /\ ~Repairs' /\ ~Advancing' /\ ~Undoing' /\ (op' # None => Removes')
      /\ \A s \in Step : Due(s)' => Due(s)
  BY <1>2, <1>7 DEF Repairs, Advancing, Undoing, Removes, Due
<1>9. journal' = journal \/ journal' = None
  BY <1>1
<1>10. TypeOK'
  <2>1. Purged \in [completed: BOOLEAN, established: BOOLEAN, consent: BOOLEAN, undone: BOOLEAN,
                    damaged: BOOLEAN, lost: BOOLEAN, removing: BOOLEAN, contested: BOOLEAN]
    BY DEF Purged
  <2>2. history' \in [completed: BOOLEAN, established: BOOLEAN, consent: BOOLEAN, undone: BOOLEAN,
                      damaged: BOOLEAN, lost: BOOLEAN, removing: BOOLEAN, contested: BOOLEAN]
    BY <2>1, <1>1, <1>3 DEF TypeOK
  <2> QED BY <2>2, <1>1, <1>3, <1>6, <1>7, <1>9 DEF TypeOK
<1>11. Programmed' /\ SetRight'
  <2>1. CASE op' = op
    BY <2>1, <1>3 DEF Programmed, SetRight, Sorted, Repairs, Advancing, Undoing, Removes, Kind, Due,
                      Place, Before
  <2>2. CASE op' = None
    BY <2>2 DEF Programmed, SetRight, Due
  <2> QED BY <1>7, <2>1, <2>2
<1>12. Recorded'
  BY <1>1, <1>3, <1>7, <1>8, <1>9 DEF Recorded, JournalFits
<1>13. (Laid' \/ Active' \/ Serving' \/ Unfinished') => history'.removing /\ ~Anew'
  <2> SUFFICES ASSUME journal' # None PROVE history'.removing /\ ~Anew'
    BY DEF Laid, Active, Serving, Unfinished
  <2>1. history' = history /\ journal = journal' /\ history.removing
    BY <1>1, <1>2, <1>9
  <2> QED BY <2>1, <1>2, <1>7 DEF Anew, Removes
<1>14. LaidDown' /\ Activated' /\ Served' /\ PlansHold'
  BY <1>13 DEF LaidDown, Activated, Served, PlansHold, StillInOrder, Kept, Unharmed
<1>15. ~Due("dropin")'
  BY <1>2, <1>8, StepSet DEF RemovalSteps, Due
<1>16. AccessSet' /\ Laying' /\ Starting' /\ Mending' /\ Restoring'
  BY <1>8, <1>15 DEF AccessSet, Laying, Starting, Mending, Restoring
<1>17. Taking'
  <2> SUFFICES ASSUME op' = op PROVE Taking'
    BY <1>7 DEF Taking, Removes
  <2>1. ~Due("uninstalled")'
    BY <1>4, <1>8, StepSet
  <2>2. history'.removing \/ (journal' = None /\ ~history'.established)
    <3>1. CASE history' = history
      BY <3>1, <1>1, <1>2
    <3>2. CASE history' = Purged /\ journal' = None
      BY <3>2 DEF Purged
    <3> QED BY <3>1, <3>2, <1>1
  <2> QED BY <2>1, <2>2, <1>1, <1>5, <1>6 DEF Taking
<1>18. Returnable' /\ Fitting'
  BY <1>8, <1>13 DEF Returnable, Fitting
<1>19. AccountKept'
  <2>1. (op' # None /\ ~Removes') => FALSE
    BY <1>8
  <2>2. CASE history' = Purged /\ journal' = None
    BY <2>1, <2>2 DEF AccountKept, Purged
  <2>3. CASE history' = history /\ ~(files'.backups = {} /\ journal' = None)
    <3>1. (journal' # None /\ journal'.installed # None) => history.established
      BY <1>9 DEF IInv, AccountKept
    <3>2. history.established =>
            \/ journal' # None /\ journal'.phase # "uninstalled" /\ journal'.installed # None
            \/ journal' = None /\ files'.backups # {}
      BY <2>3, <1>1, <1>9 DEF IInv, AccountKept
    <3>3. (history.established /\ ~history.removing) => FALSE
      BY <1>2
    <3> QED BY <2>1, <2>3, <3>1, <3>2, <3>3 DEF AccountKept
  <2> QED BY <2>2, <2>3, <1>1
<1>20. Consented'
  <2>1. ~(\/ files'.access = "lan" \/ files'.dropin # None \/ system'.dropin
          \/ system'.running # None /\ system'.running.exposed)
    BY <1>1, <1>5, <1>6, NoneAssumption DEF Access
  <2>2. ~(op' # None /\ ~Removes')
    BY <1>8
  <2> QED BY <2>1, <2>2 DEF Consented
<1> QED BY <1>10, <1>11, <1>12, <1>14, <1>16, <1>17, <1>18, <1>19, <1>20 DEF IInv

(* The program is gone, and the journal keeps what was installed last.      *)
LEMMA UninstalledStep ==
  ASSUME IInv, RecordUninstalled PROVE IInv'
<1> DEFINE last == IF journal.installed # None THEN journal.installed ELSE journal.previous
           bound == IF last = None THEN None
                    ELSE IF Unfinished THEN journal.previousSource ELSE journal.source
<1>1. /\ At("uninstalled") /\ op' = None
      /\ journal' = Journal("uninstalled", None, None, last, bound, None)
      /\ history' = [history EXCEPT !.removing = FALSE, !.established = FALSE, !.undone = FALSE,
                                 !.contested = FALSE]
      /\ UNCHANGED <<files, system, plans, spent, scenario>>
  BY DEF RecordUninstalled
<1>2. TypeOK /\ Recorded
  BY DEF IInv
<1>3. op # None /\ "uninstalled" \in Left(op.todo) /\ Removes
  BY <1>1, RemovingFacts
<1>4. journal # None /\ journal \in JournalRecord /\ JournalFits(journal)
  BY <1>2, <1>3 DEF IInv, Taking, Due, TypeOK, Recorded
<1>5. last \in Version \cup {None} /\ bound \in Artifact \cup {None} /\ (last = None <=> bound = None)
  <2>1. last \in Version \cup {None} /\ bound \in Artifact \cup {None}
    BY <1>4 DEF JournalRecord
  <2>2. CASE journal.phase = "uninstalled"
    <3>1. journal.installed = None /\ (journal.previous = None <=> journal.source = None)
      BY <2>2, <1>4 DEF JournalFits, Accepted
    <3>2. ~Unfinished
      BY <2>2 DEF Unfinished
    <3> QED BY <2>1, <3>1, <3>2
  <2>3. CASE journal.phase = "complete"
    <3>1. journal.installed # None /\ journal.source # None
      BY <2>3, <1>4 DEF JournalFits, Accepted
    <3>2. ~Unfinished
      BY <2>3 DEF Unfinished
    <3> QED BY <2>1, <3>1, <3>2
  <2>4. CASE journal.phase \notin {"complete", "uninstalled"}
    <3>1. journal.installed = journal.previous /\ (journal.previous = None <=> journal.previousSource = None)
      BY <2>4, <1>4 DEF JournalFits, Accepted
    <3>2. Unfinished
      BY <2>4, <1>4 DEF Unfinished
    <3> QED BY <2>1, <3>1, <3>2
  <2> QED BY <2>1, <2>2, <2>3, <2>4
<1>6. /\ journal'.phase = "uninstalled" /\ journal'.target = None /\ journal'.installed = None
      /\ journal'.previous = last /\ journal'.source = bound /\ journal'.previousSource = None
      /\ journal' \in JournalRecord /\ journal' # None
  <2>1. journal' \in JournalRecord
    BY <1>1, <1>5 DEF Journal, JournalRecord
  <2> QED BY <2>1, <1>1, NoneAssumption DEF Journal
<1>7. JournalFits(journal)'
  BY <1>5, <1>6 DEF JournalFits, Accepted
<1>8. TypeOK'
  BY <1>1, <1>2, <1>6 DEF TypeOK
<1>9. /\ ~Repairs' /\ ~Advancing' /\ ~Undoing' /\ ~Removes' /\ \A s \in Step : ~Due(s)'
      /\ ~Laid' /\ ~Active' /\ ~Serving' /\ ~Unfinished'
  BY <1>1, <1>6 DEF Repairs, Advancing, Undoing, Removes, Due, Laid, Active, Serving, Unfinished
<1>10. Programmed' /\ SetRight'
  BY <1>1, <1>9, StepSet DEF Programmed, SetRight, Due
<1>11. Recorded'
  BY <1>1, <1>2, <1>7, <1>9 DEF Recorded
<1>12. LaidDown' /\ Activated' /\ Served' /\ PlansHold'
  BY <1>9 DEF LaidDown, Activated, Served, PlansHold, StillInOrder
<1>13. AccessSet' /\ Laying' /\ Starting' /\ Mending' /\ Restoring' /\ Taking'
  BY <1>9, StepSet DEF AccessSet, Laying, Starting, Mending, Restoring, Taking
<1>14. Returnable' /\ Fitting'
  BY <1>1, <1>9 DEF Returnable, Fitting
<1>15. /\ ~history'.established /\ history'.consent = history.consent
  BY <1>1, <1>2 DEF TypeOK
<1>16. AccountKept'
  BY <1>1, <1>6, <1>15 DEF AccountKept
<1>17. Consented'
  BY <1>1, <1>15 DEF IInv, Consented
<1> QED BY <1>8, <1>10, <1>11, <1>12, <1>13, <1>14, <1>16, <1>17 DEF IInv

-----------------------------------------------------------------------------
(* Planning.                                                                *)

(* Only plans change.                                                       *)
LEMMA PlansMade ==
  ASSUME IInv, plans' \in [Operator -> Plan \cup RemovalPlan \cup {None}],
         \A o \in Operator : plans'[o] # None =>
           \/ plans'[o] = plans[o]
           \/ PlanSound(plans'[o]) /\ StillInOrder(plans'[o]),
         UNCHANGED <<journal, files, system, op, history, scenario>>, TypeOK'
  PROVE  IInv'
<1>1. /\ Repairs' = Repairs /\ Advancing' = Advancing /\ Undoing' = Undoing /\ Removes' = Removes
      /\ Kind' = Kind /\ \A t \in Step : Due(t)' = Due(t)
      /\ Laid' = Laid /\ Active' = Active /\ Serving' = Serving /\ Unfinished' = Unfinished
      /\ Anew' = Anew
  BY DEF Repairs, Advancing, Undoing, Removes, Kind, Due, Laid, Active, Serving, Unfinished, Anew
<1>2. ReadAccess' = ReadAccess /\ Goal' = Goal /\ Subject' = Subject /\ Kept' = Kept
      /\ Unharmed' = Unharmed /\ Untouched' = Untouched
  BY <1>1 DEF ReadAccess, Goal, Subject, Kept, Unharmed, Untouched
<1>3. Programmed' /\ SetRight'
  BY DEF IInv, Programmed, SetRight, Repairs, Advancing, Undoing, Removes, Kind, Due
<1>4. Recorded'
  <2>1. \A o \in Operator : plans'[o] # None => PlanSound(plans'[o])
    BY DEF IInv, Recorded
  <2> QED BY <2>1 DEF IInv, Recorded, Repairs, Advancing, Undoing, Removes, Due, Unfinished
<1>5. LaidDown' /\ Activated' /\ Served'
  BY <1>1, <1>2 DEF IInv, LaidDown, Activated, Served, HasAccount, Owned, BackedUp, PiecesOf, WebOf,
                    HelperOf, DropInLoaded, UnitsLoaded, RunningOf
<1>6. PlansHold'
  <2> SUFFICES ASSUME NEW o \in Operator, plans'[o] # None PROVE StillInOrder(plans[o])'
    BY DEF PlansHold
  <2>1. StillInOrder(plans'[o])
    BY DEF IInv, PlansHold
  <2> QED BY <2>1, <1>1, <1>2 DEF StillInOrder
<1>7. AccessSet' /\ Laying' /\ Starting' /\ Taking'
  BY <1>1, <1>2 DEF IInv, AccessSet, Laying, Starting, Taking, Due, HasAccount, Owned, WebOf, HelperOf,
                    DropInLoaded, UnitsLoaded, RunningOf
<1>8. Mending' /\ Restoring'
  BY <1>1, <1>2, SMTT(40) DEF IInv, Mending, Restoring, Due, HasAccount, Owned, WebOf, HelperOf, DropInLoaded,
                    UnitsLoaded, RunningOf, BackedUp
<1>9. Returnable' /\ Fitting' /\ AccountKept' /\ Consented'
  BY <1>1 DEF IInv, Returnable, Fitting, AccountKept, Consented, HasAccount
<1> QED BY <1>3, <1>4, <1>5, <1>6, <1>7, <1>8, <1>9 DEF IInv

(* What an operator may plan.                                               *)
LEMMA PlanTyped ==
  ASSUME TypeOK, NEW a \in Artifact, a.lan, NEW given \in Config \cup {None},
         NEW asked \in Access \cup {None}, NEW credential \in BOOLEAN,
         PlanOf(a, given, asked, credential).ready,
         PlanOf(a, given, asked, credential).mode # "noop"
  PROVE  PlanOf(a, given, asked, credential) \in Plan
<1> DEFINE access == Selected(asked)
           mode == ModeOf(a, access, credential)
           plan == PlanOf(a, given, asked, credential)
<1>1. files \in FilesRecord /\ journal \in JournalRecord \cup {None}
  BY DEF TypeOK
<1>2. ReadAccess \in Access
  BY <1>1 DEF ReadAccess, FilesRecord, Access
<1>3. access \in Access
  BY <1>2 DEF Selected, Access
<1>4. mode \in {"install", "resume", "upgrade", "repair"}
  <2>1. mode \in {"install", "blocked", "resume", "upgrade", "noop", "repair"}
    BY DEF ModeOf
  <2>2. mode # "noop" /\ mode # "blocked"
    BY DEF PlanOf
  <2> QED BY <2>1, <2>2
<1>5. Supplied(given) \in Config \cup {None}
  BY ConfigAssumption DEF Supplied
<1>6. RuntimeRepairs(a, access) \subseteq Repair
  BY DEF RuntimeRepairs, Repair
<1>7. (IF journal = None \/ Uninstalled THEN None ELSE journal.installed) \in Version \cup {None}
  BY <1>1 DEF JournalRecord
<1>8. /\ files.config \in Config \cup {None} /\ files.account \in BOOLEAN /\ SetupPending \in BOOLEAN
      /\ (credential /\ ~files.account) \in BOOLEAN /\ (~files.packages) \in BOOLEAN
      /\ (asked = "lan" \/ (asked = None /\ Fresh /\ files.access = None)) \in BOOLEAN
  BY <1>1 DEF FilesRecord, SetupPending, Fresh, NeverInstalled
<1>9. /\ plan.artifact = a /\ plan.mode = mode /\ plan.access = access
      /\ plan.ready = TRUE
  BY DEF PlanOf
<1>10. plan = [artifact |-> a, mode |-> mode, access |-> access, previousAccess |-> ReadAccess,
               existing |-> IF journal = None \/ Uninstalled THEN None ELSE journal.installed,
               supplied |-> Supplied(given), config |-> files.config, account |-> files.account,
               pending |-> SetupPending, credential |-> (credential /\ ~files.account),
               repairs |-> RuntimeRepairs(a, access), packages |-> ~files.packages,
               consents |-> (asked = "lan" \/ (asked = None /\ Fresh /\ files.access = None)),
               data |-> FALSE, snapshot |-> journal, ready |-> TRUE]
  BY DEF PlanOf
<1> HIDE DEF mode, access
<1> QED BY <1>1, <1>2, <1>3, <1>4, <1>5, <1>6, <1>7, <1>8, <1>10 DEF Plan

LEMMA PlanIsSound ==
  ASSUME IInv, NEW a \in Artifact, a.lan, NEW given \in Config \cup {None},
         NEW asked \in Access \cup {None}, NEW credential \in BOOLEAN,
         PlanOf(a, given, asked, credential).ready,
         PlanOf(a, given, asked, credential).mode # "noop"
  PROVE  /\ PlanSound(PlanOf(a, given, asked, credential))
         /\ StillInOrder(PlanOf(a, given, asked, credential))
<1> DEFINE access == Selected(asked)
           mode == ModeOf(a, access, credential)
           plan == PlanOf(a, given, asked, credential)
<1>1. TypeOK /\ JournalFits(journal)
  BY DEF IInv, Recorded
<1>2. /\ plan.artifact = a /\ plan.mode = mode /\ plan.access = access
      /\ plan.previousAccess = ReadAccess /\ plan.snapshot = journal
      /\ plan.repairs = RuntimeRepairs(a, access)
      /\ plan.existing = (IF journal = None \/ Uninstalled THEN None ELSE journal.installed)
      /\ plan.consents = (asked = "lan" \/ (asked = None /\ Fresh /\ files.access = None))
      /\ Servable(access, a) /\ mode # "blocked" /\ mode # "noop"
  BY DEF PlanOf
<1>3. mode = "install" => journal = None \/ journal.phase = "uninstalled"
  BY <1>2 DEF ModeOf, Uninstalled, Unfinished
<1>4. mode = "resume" => /\ journal # None /\ journal.phase \notin {"complete", "uninstalled"}
                         /\ journal.target = a.version /\ journal.source = a
  BY <1>2 DEF ModeOf, Uninstalled, Unfinished
<1>5. mode = "upgrade" => journal # None /\ journal.phase = "complete" /\ journal.installed # a.version
  BY <1>2 DEF ModeOf, Uninstalled, Unfinished
<1>6. mode = "repair" => /\ journal # None /\ journal.phase = "complete"
                         /\ journal.installed = a.version /\ journal.source = a
  BY <1>2 DEF ModeOf, Uninstalled, Unfinished
<1>7. "web-access" \notin plan.repairs => access = ReadAccess
  BY <1>2 DEF RuntimeRepairs
<1>8. (access = "lan" /\ ~plan.consents) => ReadAccess = "lan"
  <2> SUFFICES ASSUME access = "lan", ~plan.consents PROVE ReadAccess = "lan"
    OBVIOUS
  <2>1. asked # "lan" /\ ~(asked = None /\ Fresh /\ files.access = None)
    BY <1>2
  <2> QED BY <2>1 DEF Selected
<1>9. PlanSound(plan)
  BY <1>1, <1>2, <1>3, <1>4, <1>5, <1>6, <1>7, <1>8 DEF PlanSound, Uninstalled
<1>10. StillInOrder(plan)
  <2> SUFFICES ASSUME mode = "repair" PROVE StillInOrder(plan)
    BY <1>2 DEF StillInOrder
  <2>1. Complete /\ journal.installed = a.version
    BY <1>6 DEF Complete
  <2>2. plan.repairs =
          {r \in {"web-access"} : access # ReadAccess}
            \cup {r \in {"current"} : files.current # a.version}
            \cup {p \in Piece : files.piece[p] # PieceOf(p, a)}
            \cup {r \in {"web-access"} : files.dropin # DropIn(access, a)}
            \cup {r \in {"directories"} : ~files.directories}
    BY <2>1, <1>2 DEF RuntimeRepairs
  <2>3. /\ "directories" \notin plan.repairs => files.directories
        /\ \A p \in Piece \ plan.repairs : files.piece[p] = PieceOf(p, a)
        /\ "current" \notin plan.repairs => files.current = a.version
    BY <2>2
  <2> QED BY <2>3, <1>2 DEF StillInOrder
<1> QED BY <1>9, <1>10

LEMMA PlanStep ==
  ASSUME IInv, NEW o \in Operator, MakePlan(o) PROVE IInv'
<1>1. TypeOK /\ scenario \in Scenario
  BY DEF IInv, TypeOK
<1>2. /\ UNCHANGED <<journal, files, system, op, history, scenario>>
      /\ spent' = [spent EXCEPT !.operations = @ + 1]
  BY DEF MakePlan
<1>3. ASSUME NEW plan \in Plan \cup RemovalPlan, PlanSound(plan), StillInOrder(plan),
             plans' = [plans EXCEPT ![o] = plan]
      PROVE  IInv'
  <2>1. plans' \in [Operator -> Plan \cup RemovalPlan \cup {None}]
    BY <1>1, <1>3 DEF TypeOK
  <2>2. TypeOK'
    BY <2>1, <1>1, <1>2 DEF TypeOK
  <2>3. \A r \in Operator : plans'[r] = plans[r] \/ plans'[r] = plan
    BY <1>1, <1>3 DEF TypeOK
  <2> QED BY <2>1, <2>2, <2>3, <1>2, <1>3, PlansMade
<1>4. CASE \E a \in scenario.artifacts, given \in scenario.configs, asked \in scenario.access,
             credential \in BOOLEAN :
             LET plan == PlanOf(a, given, asked, credential)
             IN plan.ready /\ plan.mode # "noop" /\ plans' = [plans EXCEPT ![o] = plan]
  <2>1. PICK a \in scenario.artifacts, given \in scenario.configs, asked \in scenario.access,
             credential \in BOOLEAN :
          /\ PlanOf(a, given, asked, credential).ready
          /\ PlanOf(a, given, asked, credential).mode # "noop"
          /\ plans' = [plans EXCEPT ![o] = PlanOf(a, given, asked, credential)]
    BY <1>4
  <2>2. a \in Artifact /\ a.lan /\ given \in Config \cup {None} /\ asked \in Access \cup {None}
    BY <1>1 DEF Scenario, Access
  <2>3. PlanOf(a, given, asked, credential) \in Plan
    BY <2>1, <2>2, <1>1, PlanTyped
  <2>4. PlanSound(PlanOf(a, given, asked, credential)) /\ StillInOrder(PlanOf(a, given, asked, credential))
    BY <2>1, <2>2, PlanIsSound
  <2> QED BY <2>1, <2>3, <2>4, <1>3
<1>5. CASE \E data \in scenario.uninstalls :
             LET plan == UninstallPlan(data) IN plan.ready /\ plans' = [plans EXCEPT ![o] = plan]
  <2>1. PICK data \in scenario.uninstalls :
          UninstallPlan(data).ready /\ plans' = [plans EXCEPT ![o] = UninstallPlan(data)]
    BY <1>5
  <2> DEFINE plan == UninstallPlan(data)
  <2>2. plan.ready = TRUE /\ plan.mode = "uninstall" /\ plan.snapshot = journal /\ journal # None
    BY <2>1 DEF UninstallPlan
  <2>3. plan \in RemovalPlan
    <3>1. data \in BOOLEAN
      BY <1>1 DEF Scenario
    <3>2. journal \in JournalRecord
      BY <2>2, <1>1 DEF TypeOK
    <3>3. plan = [mode |-> "uninstall", data |-> data, snapshot |-> journal, ready |-> TRUE]
      BY <2>2 DEF UninstallPlan
    <3> QED BY <3>1, <3>2, <3>3, <2>2 DEF RemovalPlan
  <2>4. PlanSound(plan) /\ StillInOrder(plan)
    BY <2>2 DEF PlanSound, StillInOrder, IInv, Recorded
  <2> QED BY <2>1, <2>3, <2>4, <1>3
<1> QED BY <1>4, <1>5 DEF MakePlan

-----------------------------------------------------------------------------
(* The programs of the operations: which steps, and in order.               *)

(* Steps, sorted, that all have their places between two.                   *)
Stretch(kind, s, from, to, steps) ==
  /\ s \in Seq(Step) /\ Sorted(kind, s) /\ Left(s) = steps
  /\ \A x \in steps : Place(kind, x) \in from .. to

LEMMA Stretched ==
  ASSUME NEW kind \in Kinds, NEW s, NEW t, NEW a \in Int, NEW b \in Int, NEW c \in Int, NEW d \in Int,
         NEW xs, NEW ys, Stretch(kind, s, a, b, xs), Stretch(kind, t, c, d, ys), a <= c, b < c, b <= d
  PROVE  Stretch(kind, s \o t, a, d, xs \cup ys)
<1>1. s \in Seq(Step) /\ t \in Seq(Step)
  BY DEF Stretch
<1>2. s \o t \in Seq(Step) /\ Left(s \o t) = xs \cup ys
  BY <1>1, Spliced DEF Stretch
<1>3. \A x \in xs, y \in ys : Before(kind, x, y)
  BY DEF Stretch, Before
<1>4. Sorted(kind, s \o t)
  BY <1>1, <1>3, SortedSpliced DEF Stretch
<1>5. \A x \in xs \cup ys : Place(kind, x) \in a .. d
  BY DEF Stretch
<1> QED BY <1>2, <1>4, <1>5 DEF Stretch

LEMMA NoStretch ==
  ASSUME NEW kind \in Kinds, NEW a \in Int, NEW b \in Int PROVE Stretch(kind, <<>>, a, b, {})
<1>1. <<>> \in Seq(Step)
  OBVIOUS
<1> QED BY <1>1, NothingLeft DEF Stretch

(* The pieces programs are made of.                                         *)
LEMMA Stretches ==
  ASSUME NEW kind \in Kinds
  PROVE  /\ Stretch(kind, <<"prepared">>, 24, 24, {"prepared"})
         /\ Stretch(kind, <<"apt">>, 26, 26, {"apt"})
         /\ Stretch(kind, <<"packages">>, 28, 28, {"packages"})
         /\ Stretch(kind, <<"probe">>, 30, 30, {"probe"})
         /\ Stretch(kind, <<"dependencies">>, 32, 32, {"dependencies"})
         /\ Stretch(kind, <<"copy", "backup">>, 34, 36, {"copy", "backup"})
         /\ Stretch(kind, Pieces, 38, 42, Piece)
         /\ Stretch(kind, <<"units">>, 38, 38, {"units"})
         /\ Stretch(kind, <<"maintenance">>, 40, 40, {"maintenance"})
         /\ Stretch(kind, <<"tools">>, 42, 42, {"tools"})
         /\ Stretch(kind, <<"directories">>, 44, 44, {"directories"})
         /\ Stretch(kind, <<"access", "dropin">>, 50, 52, {"access", "dropin"})
         /\ Stretch(kind, <<"reload">>, 62, 62, {"reload"})
         /\ Stretch(kind, <<"helper", "restart", "verify">>, 64, 70, {"helper", "restart", "verify"})
         /\ Stretch(kind, ServiceSteps, 62, 72,
                    {"reload", "helper", "enable", "restart", "verify", "services"})
         /\ Stretch(kind, <<"complete">>, 74, 74, {"complete"})
<1>1. /\ Stretch(kind, <<"prepared">>, 24, 24, {"prepared"})
      /\ Stretch(kind, <<"apt">>, 26, 26, {"apt"})
      /\ Stretch(kind, <<"packages">>, 28, 28, {"packages"})
      /\ Stretch(kind, <<"probe">>, 30, 30, {"probe"})
      /\ Stretch(kind, <<"dependencies">>, 32, 32, {"dependencies"})
  BY StepSet, Places DEF Stretch, Left, Sorted, Before
<1>2. Stretch(kind, <<"copy", "backup">>, 34, 36, {"copy", "backup"})
  BY StepSet, Places DEF Stretch, Left, Sorted, Before
<1>3. Stretch(kind, Pieces, 38, 42, Piece)
  BY StepSet, Places DEF Stretch, Left, Sorted, Before, Pieces, Piece
<1>4. /\ Stretch(kind, <<"units">>, 38, 38, {"units"})
      /\ Stretch(kind, <<"maintenance">>, 40, 40, {"maintenance"})
      /\ Stretch(kind, <<"tools">>, 42, 42, {"tools"})
      /\ Stretch(kind, <<"directories">>, 44, 44, {"directories"})
  BY StepSet, Places DEF Stretch, Left, Sorted, Before
<1>5. Stretch(kind, <<"access", "dropin">>, 50, 52, {"access", "dropin"})
  BY StepSet, Places DEF Stretch, Left, Sorted, Before
<1>6. Stretch(kind, <<"reload">>, 62, 62, {"reload"})
  BY StepSet, Places DEF Stretch, Left, Sorted, Before
<1>7. Stretch(kind, <<"helper", "restart", "verify">>, 64, 70, {"helper", "restart", "verify"})
  BY StepSet, Places DEF Stretch, Left, Sorted, Before
<1>8. Stretch(kind, ServiceSteps, 62, 72, {"reload", "helper", "enable", "restart", "verify", "services"})
  BY StepSet, Places DEF Stretch, Left, Sorted, Before, ServiceSteps
<1>9. Stretch(kind, <<"complete">>, 74, 74, {"complete"})
  BY StepSet, Places DEF Stretch, Left, Sorted, Before
<1> QED BY <1>1, <1>2, <1>3, <1>4, <1>5, <1>6, <1>7, <1>8, <1>9

(* Laying a release, and activating it; the account of a repair comes late. *)
LEMMA ReleaseStretches ==
  /\ Stretch("other", ReleaseSteps, 34, 56, LayingSteps \cup {"release"})
  /\ Stretch("other", <<"pointer", "activated">>, 58, 60, {"pointer", "activated"})
  /\ Stretch("repair", <<"pointer">>, 37, 37, {"pointer"})
  /\ Stretch("repair", <<"account", "owners">>, 53, 54, {"account", "owners"})
<1>1. "other" \in Kinds /\ "repair" \in Kinds
  BY DEF Kinds
<1> DEFINE t == <<"directories", "configure", "account", "access", "dropin", "owners", "release">>
           ys == {"directories", "configure", "account", "access", "dropin", "owners", "release"}
<1>2. Stretch("other", t, 44, 56, ys)
  BY <1>1, StepSet, Places DEF Stretch, Left, Sorted, Before
<1>3. Stretch("other", <<"copy", "backup">>, 34, 36, {"copy", "backup"}) /\ Stretch("other", Pieces, 38, 42, Piece)
  BY <1>1, Stretches
<1>4. Stretch("other", <<"copy", "backup">> \o Pieces, 34, 42, {"copy", "backup"} \cup Piece)
  BY <1>1, <1>3, Stretched
<1> HIDE DEF t, ys
<1>5. Stretch("other", (<<"copy", "backup">> \o Pieces) \o t, 34, 56, ({"copy", "backup"} \cup Piece) \cup ys)
  BY <1>1, <1>2, <1>4, Stretched
<1>6. ({"copy", "backup"} \cup Piece) \cup ys = LayingSteps \cup {"release"}
  BY DEF LayingSteps, Piece, ys
<1>7. Stretch("other", ReleaseSteps, 34, 56, LayingSteps \cup {"release"})
  BY <1>5, <1>6 DEF ReleaseSteps, t
<1>8. Stretch("other", <<"pointer", "activated">>, 58, 60, {"pointer", "activated"})
  BY <1>1, StepSet, Places DEF Stretch, Left, Sorted, Before
<1>9. Stretch("repair", <<"pointer">>, 37, 37, {"pointer"})
  BY <1>1, StepSet, Places DEF Stretch, Left, Sorted, Before
<1>10. Stretch("repair", <<"account", "owners">>, 53, 54, {"account", "owners"})
  BY <1>1, StepSet, Places DEF Stretch, Left, Sorted, Before
<1> QED BY <1>7, <1>8, <1>9, <1>10

LEMMA UninstallProgram ==
  ASSUME NEW data \in BOOLEAN
  PROVE  /\ UninstallSteps(data) \in Seq(Step) \ {<<>>} /\ Sorted("other", UninstallSteps(data))
         /\ Left(UninstallSteps(data)) =
              {"halt-helper", "disable", "strip", "remove-opt", "remove-run", "forget-units"}
                \cup (IF data THEN {"remove-etc", "remove-var"} ELSE {"uninstalled"})
<1>1. "other" \in Kinds
  BY DEF Kinds
<1> DEFINE s == <<"halt-helper", "disable", "strip", "remove-opt", "remove-run", "forget-units">>
           xs == {"halt-helper", "disable", "strip", "remove-opt", "remove-run", "forget-units"}
           t == IF data THEN <<"remove-etc", "remove-var">> ELSE <<"uninstalled">>
           ys == IF data THEN {"remove-etc", "remove-var"} ELSE {"uninstalled"}
<1>2. Stretch("other", s, 2, 14, xs)
  BY <1>1, StepSet, Places DEF Stretch, Left, Sorted, Before
<1>3. Stretch("other", t, 16, 20, ys)
  <2>1. Stretch("other", <<"remove-etc", "remove-var">>, 16, 20, {"remove-etc", "remove-var"})
    BY <1>1, StepSet, Places DEF Stretch, Left, Sorted, Before
  <2>2. Stretch("other", <<"uninstalled">>, 16, 20, {"uninstalled"})
    BY <1>1, StepSet, Places DEF Stretch, Left, Sorted, Before
  <2> QED BY <2>1, <2>2
<1> HIDE DEF s, t, xs, ys
<1>4. Stretch("other", s \o t, 2, 20, xs \cup ys)
  BY <1>1, <1>2, <1>3, Stretched
<1>5. UninstallSteps(data) = s \o t
  BY DEF UninstallSteps, s, t
<1>6. "halt-helper" \in xs
  BY DEF xs
<1>7. Left(UninstallSteps(data)) # {} /\ UninstallSteps(data) \in Seq(Step)
  BY <1>4, <1>5, <1>6 DEF Stretch
<1> QED BY <1>4, <1>5, <1>7, SomethingLeft DEF Stretch, xs, ys

(* Steps there may be.                                                      *)
If(condition, steps) == IF condition THEN steps ELSE {}

RepairedSteps(repairs) ==
  If("current" \in repairs, {"pointer"})
    \cup (repairs \cap {"units", "maintenance", "tools", "directories"})
    \cup If("web-access" \in repairs, {"access", "dropin"})
    \cup {"account", "owners", "helper", "restart", "verify"}
    \cup If(repairs \cap (Piece \cup {"web-access"}) # {}, {"reload"})

LEMMA RepairProgram ==
  ASSUME NEW repairs, repairs \subseteq Repair
  PROVE  Stretch("repair", RepairSteps(repairs), 37, 70, RepairedSteps(repairs))
<1>1. "repair" \in Kinds
  BY DEF Kinds
<1> DEFINE s1 == Optional("current" \in repairs, <<"pointer">>)
           s2 == PieceSteps(repairs)
           s3 == Optional("directories" \in repairs, <<"directories">>)
           s4 == Optional("web-access" \in repairs, <<"access", "dropin">>)
           s5 == <<"account", "owners">>
           s6 == Optional(repairs \cap (Piece \cup {"web-access"}) # {}, <<"reload">>)
           s7 == <<"helper", "restart", "verify">>
           x1 == If("current" \in repairs, {"pointer"})
           x3 == If("directories" \in repairs, {"directories"})
           x4 == If("web-access" \in repairs, {"access", "dropin"})
           x6 == If(repairs \cap (Piece \cup {"web-access"}) # {}, {"reload"})
           u1 == Optional("units" \in repairs, <<"units">>)
           u2 == Optional("maintenance" \in repairs, <<"maintenance">>)
           u3 == Optional("tools" \in repairs, <<"tools">>)
           y1 == If("units" \in repairs, {"units"})
           y2 == If("maintenance" \in repairs, {"maintenance"})
           y3 == If("tools" \in repairs, {"tools"})
<1>2. /\ Stretch("repair", u1, 38, 38, y1) /\ Stretch("repair", u2, 40, 40, y2)
      /\ Stretch("repair", u3, 42, 42, y3)
  <2>1. /\ Stretch("repair", <<"units">>, 38, 38, {"units"})
        /\ Stretch("repair", <<"maintenance">>, 40, 40, {"maintenance"})
        /\ Stretch("repair", <<"tools">>, 42, 42, {"tools"})
    BY <1>1, Stretches
  <2>2. /\ (u1 = <<"units">> /\ y1 = {"units"}) \/ (u1 = <<>> /\ y1 = {})
        /\ (u2 = <<"maintenance">> /\ y2 = {"maintenance"}) \/ (u2 = <<>> /\ y2 = {})
        /\ (u3 = <<"tools">> /\ y3 = {"tools"}) \/ (u3 = <<>> /\ y3 = {})
    BY DEF Optional, If
  <2> HIDE DEF u1, u2, u3, y1, y2, y3
  <2>3. Stretch("repair", u1, 38, 38, y1)
    <3>1. Stretch("repair", <<>>, 38, 38, {})
      BY <1>1, NoStretch
    <3> QED BY <3>1, <2>1, <2>2
  <2>4. Stretch("repair", u2, 40, 40, y2)
    <3>1. Stretch("repair", <<>>, 40, 40, {})
      BY <1>1, NoStretch
    <3> QED BY <3>1, <2>1, <2>2
  <2>5. Stretch("repair", u3, 42, 42, y3)
    <3>1. Stretch("repair", <<>>, 42, 42, {})
      BY <1>1, NoStretch
    <3> QED BY <3>1, <2>1, <2>2
  <2> QED BY <2>3, <2>4, <2>5
<1>3. Stretch("repair", s2, 38, 42, y1 \cup y2 \cup y3)
  <2> HIDE DEF u1, u2, u3, y1, y2, y3
  <2>1. Stretch("repair", u1 \o u2, 38, 40, y1 \cup y2)
    BY <1>1, <1>2, Stretched
  <2>2. Stretch("repair", (u1 \o u2) \o u3, 38, 42, (y1 \cup y2) \cup y3)
    BY <1>1, <1>2, <2>1, Stretched
  <2>3. s2 = (u1 \o u2) \o u3
    BY DEF PieceSteps, u1, u2, u3
  <2> QED BY <2>2, <2>3
<1>4. /\ Stretch("repair", s1, 37, 37, x1) /\ Stretch("repair", s3, 44, 44, x3)
      /\ Stretch("repair", s4, 50, 52, x4) /\ Stretch("repair", s5, 53, 54, {"account", "owners"})
      /\ Stretch("repair", s6, 62, 62, x6)
      /\ Stretch("repair", s7, 64, 70, {"helper", "restart", "verify"})
  <2>1. /\ Stretch("repair", <<"pointer">>, 37, 37, {"pointer"})
        /\ Stretch("repair", <<"directories">>, 44, 44, {"directories"})
        /\ Stretch("repair", <<"access", "dropin">>, 50, 52, {"access", "dropin"})
        /\ Stretch("repair", <<"reload">>, 62, 62, {"reload"})
        /\ Stretch("repair", s5, 53, 54, {"account", "owners"})
        /\ Stretch("repair", s7, 64, 70, {"helper", "restart", "verify"})
    BY <1>1, Stretches, ReleaseStretches
  <2>2. /\ (s1 = <<"pointer">> /\ x1 = {"pointer"}) \/ (s1 = <<>> /\ x1 = {})
        /\ (s3 = <<"directories">> /\ x3 = {"directories"}) \/ (s3 = <<>> /\ x3 = {})
        /\ (s4 = <<"access", "dropin">> /\ x4 = {"access", "dropin"}) \/ (s4 = <<>> /\ x4 = {})
        /\ (s6 = <<"reload">> /\ x6 = {"reload"}) \/ (s6 = <<>> /\ x6 = {})
    BY DEF Optional, If
  <2> HIDE DEF s1, s3, s4, s6, x1, x3, x4, x6
  <2>3. Stretch("repair", s1, 37, 37, x1)
    <3>1. Stretch("repair", <<>>, 37, 37, {})
      BY <1>1, NoStretch
    <3> QED BY <3>1, <2>1, <2>2
  <2>4. Stretch("repair", s3, 44, 44, x3)
    <3>1. Stretch("repair", <<>>, 44, 44, {})
      BY <1>1, NoStretch
    <3> QED BY <3>1, <2>1, <2>2
  <2>5. Stretch("repair", s4, 50, 52, x4)
    <3>1. Stretch("repair", <<>>, 50, 52, {})
      BY <1>1, NoStretch
    <3> QED BY <3>1, <2>1, <2>2
  <2>6. Stretch("repair", s6, 62, 62, x6)
    <3>1. Stretch("repair", <<>>, 62, 62, {})
      BY <1>1, NoStretch
    <3> QED BY <3>1, <2>1, <2>2
  <2> QED BY <2>1, <2>3, <2>4, <2>5, <2>6
<1> DEFINE x2 == y1 \cup y2 \cup y3
           z == ((((x1 \cup x2) \cup x3) \cup x4) \cup {"account", "owners"}) \cup x6
<1>5. RepairSteps(repairs) = (((((s1 \o s2) \o s3) \o s4) \o s5) \o s6) \o s7
  BY DEF RepairSteps
<1>6. RepairedSteps(repairs) = z \cup {"helper", "restart", "verify"}
  BY DEF RepairedSteps, If
<1>7. Stretch("repair", (((((s1 \o s2) \o s3) \o s4) \o s5) \o s6) \o s7, 37, 70,
              z \cup {"helper", "restart", "verify"})
  <2> HIDE DEF s1, s2, s3, s4, s5, s6, s7, x1, x2, x3, x4, x6
  <2>1. Stretch("repair", s2, 38, 42, x2)
    BY <1>3 DEF x2
  <2>2. Stretch("repair", s1 \o s2, 37, 42, x1 \cup x2)
    BY <1>1, <1>4, <2>1, Stretched
  <2>3. Stretch("repair", (s1 \o s2) \o s3, 37, 44, (x1 \cup x2) \cup x3)
    BY <1>1, <1>4, <2>2, Stretched
  <2>4. Stretch("repair", ((s1 \o s2) \o s3) \o s4, 37, 52, ((x1 \cup x2) \cup x3) \cup x4)
    BY <1>1, <1>4, <2>3, Stretched
  <2>5. Stretch("repair", (((s1 \o s2) \o s3) \o s4) \o s5, 37, 54,
                (((x1 \cup x2) \cup x3) \cup x4) \cup {"account", "owners"})
    BY <1>1, <1>4, <2>4, Stretched
  <2>6. Stretch("repair", ((((s1 \o s2) \o s3) \o s4) \o s5) \o s6, 37, 62, z)
    BY <1>1, <1>4, <2>5, Stretched
  <2> QED BY <1>1, <1>4, <2>6, Stretched
<1> QED BY <1>5, <1>6, <1>7

(* The steps of an installation, and of what is left of it.                 *)
Steps(plan) ==
  If(~Unfinished, {"prepared"}) \cup If(plan.packages, {"apt"})
    \cup If(~PhaseDone("packages"), {"packages"}) \cup {"probe", "complete"}
    \cup (IF plan.mode = "repair" THEN RepairedSteps(plan.repairs)
          ELSE If(~PhaseDone("dependencies"), {"dependencies"})
                 \cup If(~PhaseDone("release"), LayingSteps \cup {"release"})
                 \cup If(~PhaseDone("activated"), {"pointer", "activated"})
                 \cup If(~PhaseDone("services"),
                         {"reload", "helper", "enable", "restart", "verify", "services"}))

LEMMA ReleaseProgram ==
  LET s == Optional(~PhaseDone("dependencies"), <<"dependencies">>)
             \o Optional(~PhaseDone("release"), ReleaseSteps)
             \o Optional(~PhaseDone("activated"), <<"pointer", "activated">>)
             \o Optional(~PhaseDone("services"), ServiceSteps)
  IN Stretch("other", s, 32, 72,
             If(~PhaseDone("dependencies"), {"dependencies"})
               \cup If(~PhaseDone("release"), LayingSteps \cup {"release"})
               \cup If(~PhaseDone("activated"), {"pointer", "activated"})
               \cup If(~PhaseDone("services"),
                       {"reload", "helper", "enable", "restart", "verify", "services"}))
<1>1. "other" \in Kinds
  BY DEF Kinds
<1> DEFINE s1 == Optional(~PhaseDone("dependencies"), <<"dependencies">>)
           s2 == Optional(~PhaseDone("release"), ReleaseSteps)
           s3 == Optional(~PhaseDone("activated"), <<"pointer", "activated">>)
           s4 == Optional(~PhaseDone("services"), ServiceSteps)
           x1 == If(~PhaseDone("dependencies"), {"dependencies"})
           x2 == If(~PhaseDone("release"), LayingSteps \cup {"release"})
           x3 == If(~PhaseDone("activated"), {"pointer", "activated"})
           x4 == If(~PhaseDone("services"),
                    {"reload", "helper", "enable", "restart", "verify", "services"})
<1>2. /\ Stretch("other", <<"dependencies">>, 32, 32, {"dependencies"})
      /\ Stretch("other", ReleaseSteps, 34, 56, LayingSteps \cup {"release"})
      /\ Stretch("other", <<"pointer", "activated">>, 58, 60, {"pointer", "activated"})
      /\ Stretch("other", ServiceSteps, 62, 72,
                 {"reload", "helper", "enable", "restart", "verify", "services"})
  BY <1>1, Stretches, ReleaseStretches
<1>3. /\ (s1 = <<"dependencies">> /\ x1 = {"dependencies"}) \/ (s1 = <<>> /\ x1 = {})
      /\ (s2 = ReleaseSteps /\ x2 = LayingSteps \cup {"release"}) \/ (s2 = <<>> /\ x2 = {})
      /\ (s3 = <<"pointer", "activated">> /\ x3 = {"pointer", "activated"}) \/ (s3 = <<>> /\ x3 = {})
      /\ \/ s4 = ServiceSteps /\ x4 = {"reload", "helper", "enable", "restart", "verify", "services"}
         \/ s4 = <<>> /\ x4 = {}
  BY DEF Optional, If
<1> HIDE DEF s1, s2, s3, s4, x1, x2, x3, x4
<1>4. Stretch("other", s1, 32, 32, x1)
  <2>1. Stretch("other", <<>>, 32, 32, {})
    BY <1>1, NoStretch
  <2> QED BY <2>1, <1>2, <1>3
<1>5. Stretch("other", s2, 34, 56, x2)
  <2>1. Stretch("other", <<>>, 34, 56, {})
    BY <1>1, NoStretch
  <2> QED BY <2>1, <1>2, <1>3
<1>6. Stretch("other", s3, 58, 60, x3)
  <2>1. Stretch("other", <<>>, 58, 60, {})
    BY <1>1, NoStretch
  <2> QED BY <2>1, <1>2, <1>3
<1>7. Stretch("other", s4, 62, 72, x4)
  <2>1. Stretch("other", <<>>, 62, 72, {})
    BY <1>1, NoStretch
  <2> QED BY <2>1, <1>2, <1>3
<1>8. Stretch("other", s1 \o s2, 32, 56, x1 \cup x2)
  BY <1>1, <1>4, <1>5, Stretched
<1>9. Stretch("other", (s1 \o s2) \o s3, 32, 60, (x1 \cup x2) \cup x3)
  BY <1>1, <1>6, <1>8, Stretched
<1>10. Stretch("other", ((s1 \o s2) \o s3) \o s4, 32, 72, ((x1 \cup x2) \cup x3) \cup x4)
  BY <1>1, <1>7, <1>9, Stretched
<1> QED BY <1>10 DEF s1, s2, s3, s4, x1, x2, x3, x4

LEMMA InstallProgram ==
  ASSUME NEW plan \in Plan
  PROVE  /\ InstallSteps(plan) \in Seq(Step) \ {<<>>}
         /\ Sorted(IF plan.mode = "repair" THEN "repair" ELSE "other", InstallSteps(plan))
         /\ Left(InstallSteps(plan)) = Steps(plan)
<1> DEFINE kind == IF plan.mode = "repair" THEN "repair" ELSE "other"
           s1 == Optional(~Unfinished, <<"prepared">>)
           s2 == Optional(plan.packages, <<"apt">>)
           s3 == Optional(~PhaseDone("packages"), <<"packages">>)
           s4 == <<"probe">>
           s5 == IF plan.mode = "repair" THEN RepairSteps(plan.repairs)
                 ELSE Optional(~PhaseDone("dependencies"), <<"dependencies">>)
                        \o Optional(~PhaseDone("release"), ReleaseSteps)
                        \o Optional(~PhaseDone("activated"), <<"pointer", "activated">>)
                        \o Optional(~PhaseDone("services"), ServiceSteps)
           s6 == <<"complete">>
           x1 == If(~Unfinished, {"prepared"})
           x2 == If(plan.packages, {"apt"})
           x3 == If(~PhaseDone("packages"), {"packages"})
           x5 == IF plan.mode = "repair" THEN RepairedSteps(plan.repairs)
                 ELSE If(~PhaseDone("dependencies"), {"dependencies"})
                        \cup If(~PhaseDone("release"), LayingSteps \cup {"release"})
                        \cup If(~PhaseDone("activated"), {"pointer", "activated"})
                        \cup If(~PhaseDone("services"),
                                {"reload", "helper", "enable", "restart", "verify", "services"})
<1>1. kind \in Kinds
  BY DEF Kinds
<1>2. Stretch(kind, s5, 32, 72, x5)
  <2>1. CASE plan.mode = "repair"
    <3>1. plan.repairs \subseteq Repair
      BY DEF Plan
    <3>2. Stretch("repair", RepairSteps(plan.repairs), 37, 70, RepairedSteps(plan.repairs))
      BY <3>1, RepairProgram
    <3> QED BY <2>1, <3>2 DEF Stretch
  <2>2. CASE plan.mode # "repair"
    BY <2>2, ReleaseProgram
  <2> QED BY <2>1, <2>2
<1>3. /\ (s1 = <<"prepared">> /\ x1 = {"prepared"}) \/ (s1 = <<>> /\ x1 = {})
      /\ (s2 = <<"apt">> /\ x2 = {"apt"}) \/ (s2 = <<>> /\ x2 = {})
      /\ (s3 = <<"packages">> /\ x3 = {"packages"}) \/ (s3 = <<>> /\ x3 = {})
  BY DEF Optional, If
<1>4. InstallSteps(plan) = ((((s1 \o s2) \o s3) \o s4) \o s5) \o s6
  BY DEF InstallSteps
<1>5. Steps(plan) = ((((x1 \cup x2) \cup x3) \cup {"probe"}) \cup x5) \cup {"complete"}
  BY DEF Steps
<1> HIDE DEF kind, s1, s2, s3, s4, s5, s6, x1, x2, x3, x5
<1>6. Stretch(kind, s1, 24, 24, x1)
  <2>1. Stretch(kind, <<"prepared">>, 24, 24, {"prepared"})
    BY <1>1, Stretches
  <2>2. Stretch(kind, <<>>, 24, 24, {})
    BY <1>1, NoStretch
  <2> QED BY <2>1, <2>2, <1>3
<1>7. Stretch(kind, s2, 26, 26, x2)
  <2>1. Stretch(kind, <<"apt">>, 26, 26, {"apt"})
    BY <1>1, Stretches
  <2>2. Stretch(kind, <<>>, 26, 26, {})
    BY <1>1, NoStretch
  <2> QED BY <2>1, <2>2, <1>3
<1>8. Stretch(kind, s3, 28, 28, x3)
  <2>1. Stretch(kind, <<"packages">>, 28, 28, {"packages"})
    BY <1>1, Stretches
  <2>2. Stretch(kind, <<>>, 28, 28, {})
    BY <1>1, NoStretch
  <2> QED BY <2>1, <2>2, <1>3
<1>9. Stretch(kind, s4, 30, 30, {"probe"}) /\ Stretch(kind, s6, 74, 74, {"complete"})
  BY <1>1, Stretches DEF s4, s6
<1>10. Stretch(kind, s1 \o s2, 24, 26, x1 \cup x2)
  BY <1>1, <1>6, <1>7, Stretched
<1>11. Stretch(kind, (s1 \o s2) \o s3, 24, 28, (x1 \cup x2) \cup x3)
  BY <1>1, <1>8, <1>10, Stretched
<1>12. Stretch(kind, ((s1 \o s2) \o s3) \o s4, 24, 30, ((x1 \cup x2) \cup x3) \cup {"probe"})
  BY <1>1, <1>9, <1>11, Stretched
<1>13. Stretch(kind, (((s1 \o s2) \o s3) \o s4) \o s5, 24, 72,
               (((x1 \cup x2) \cup x3) \cup {"probe"}) \cup x5)
  BY <1>1, <1>2, <1>12, Stretched
<1>14. Stretch(kind, ((((s1 \o s2) \o s3) \o s4) \o s5) \o s6, 24, 74,
               ((((x1 \cup x2) \cup x3) \cup {"probe"}) \cup x5) \cup {"complete"})
  BY <1>1, <1>9, <1>13, Stretched
<1>15. Stretch(kind, InstallSteps(plan), 24, 74, Steps(plan))
  BY <1>4, <1>5, <1>14
<1>16. "complete" \in Steps(plan)
  BY <1>5
<1>17. InstallSteps(plan) # <<>>
  BY <1>15, <1>16, SomethingLeft DEF Stretch
<1> QED BY <1>15, <1>17 DEF Stretch, kind

(* The phases are ranked in the order of the list.                          *)
LEMMA Ranks ==
  /\ Rank("prepared") = 1 /\ Rank("packages") = 2 /\ Rank("dependencies") = 3
  /\ Rank("release") = 4 /\ Rank("activated") = 5 /\ Rank("services") = 6 /\ Rank("complete") = 7
<1>1. \A i \in 1 .. 7 : i = 1 \/ i = 2 \/ i = 3 \/ i = 4 \/ i = 5 \/ i = 6 \/ i = 7
  OBVIOUS
<1>2. /\ Phases[1] = "prepared" /\ Phases[2] = "packages" /\ Phases[3] = "dependencies"
      /\ Phases[4] = "release" /\ Phases[5] = "activated" /\ Phases[6] = "services"
      /\ Phases[7] = "complete"
  BY DEF Phases
<1>3. ASSUME NEW k \in 1 .. 7 PROVE Rank(Phases[k]) = k
  <2>1. \E i \in 1 .. 7 : Phases[i] = Phases[k]
    OBVIOUS
  <2>2. Rank(Phases[k]) \in 1 .. 7 /\ Phases[Rank(Phases[k])] = Phases[k]
    BY <2>1 DEF Rank
  <2> QED BY <2>2, <1>1, <1>2
<1> QED BY <1>2, <1>3

LEMMA PhasesDone ==
  ASSUME TypeOK
  PROVE  /\ PhaseDone("packages") <=> Unfinished /\ journal.phase # "prepared"
         /\ PhaseDone("dependencies") <=> Unfinished /\ journal.phase \notin {"prepared", "packages"}
         /\ PhaseDone("release") <=>
              Unfinished /\ journal.phase \notin {"prepared", "packages", "dependencies"}
         /\ PhaseDone("activated") <=>
              Unfinished /\ journal.phase \notin {"prepared", "packages", "dependencies", "release"}
         /\ PhaseDone("services") <=> Unfinished /\ journal.phase = "services"
<1>1. Unfinished => journal.phase \in {"prepared", "packages", "dependencies", "release", "activated",
                                       "services"}
  BY PhaseSet DEF Unfinished, TypeOK, JournalRecord
<1> QED BY <1>1, Ranks DEF PhaseDone

-----------------------------------------------------------------------------
(* Applying what was planned.                                               *)

(* An uninstallation begins.                                                *)
LEMMA RemovalBegins ==
  ASSUME IInv, NEW o \in Operator, plans[o] # None, op = None, StillAsPlanned(plans[o]),
         plans[o].mode = "uninstall", plans' = [plans EXCEPT ![o] = None],
         op' = [plan |-> plans[o], todo |-> UninstallSteps(plans[o].data), undo |-> FALSE,
                failed |-> FALSE, restorable |-> TRUE, previous |-> None, previousSource |-> None],
         history' = [history EXCEPT !.removing = TRUE],
         UNCHANGED <<journal, files, system, spent, scenario>>
  PROVE  IInv'
<1> DEFINE plan == plans[o]
           steps == UninstallSteps(plan.data)
<1>1. TypeOK /\ Recorded /\ PlanSound(plan)
  BY DEF IInv, Recorded
<1>2. plan \in RemovalPlan
  BY <1>1 DEF TypeOK, Plan
<1>3. plan.data \in BOOLEAN /\ journal = plan.snapshot /\ journal # None
  BY <1>2, NoneAssumption DEF RemovalPlan, StillAsPlanned
<1>4. /\ steps \in Seq(Step) \ {<<>>} /\ Sorted("other", steps)
      /\ Left(steps) =
           {"halt-helper", "disable", "strip", "remove-opt", "remove-run", "forget-units"}
             \cup (IF plan.data THEN {"remove-etc", "remove-var"} ELSE {"uninstalled"})
  BY <1>3, UninstallProgram
<1>5. /\ op'.plan = plan /\ op'.todo = steps /\ op'.undo = FALSE /\ op'.failed = FALSE
      /\ op'.restorable = TRUE /\ op' \in Operation
  <2>1. op' \in Operation
    BY <1>2, <1>4 DEF Operation
  <2> QED BY <2>1
<1>6. op' # None
  BY <1>5, NoneAssumption
<1>7. /\ ~Repairs' /\ ~Advancing' /\ ~Undoing' /\ Removes' /\ Kind' = "other"
      /\ Laid' = Laid /\ Active' = Active /\ Serving' = Serving /\ Unfinished' = Unfinished /\ ~Anew'
  BY <1>5, <1>6 DEF Repairs, Advancing, Undoing, Removes, Kind, Laid, Active, Serving, Unfinished, Anew
<1>8. /\ history'.removing /\ history'.established = history.established
      /\ history'.consent = history.consent
  BY <1>1 DEF TypeOK
<1>9. ~Kept' /\ ~Unharmed'
  BY <1>7, <1>8 DEF Kept, Unharmed
<1>10. TypeOK'
  BY <1>1, <1>5 DEF TypeOK
<1>11. /\ Due("halt-helper")' /\ Due("disable")' /\ Due("strip")' /\ Due("forget-units")'
       /\ plan.data => Due("remove-etc")' /\ Due("remove-var")' /\ ~Due("uninstalled")'
       /\ ~plan.data => ~Due("remove-etc")' /\ ~Due("remove-var")' /\ Due("uninstalled")'
       /\ Left(op'.todo) \subseteq RemovalSteps
  BY <1>4, <1>5, <1>6 DEF Due, RemovalSteps
<1>12. Programmed'
  BY <1>4, <1>5, <1>6, <1>7, <1>11 DEF Programmed
<1>13. /\ ~Due("access")' /\ ~Due("account")' /\ ~Due("configure")' /\ ~Due("dropin")'
       /\ ~Due("pointer")' /\ ~Due("reload")' /\ \A p \in Piece : ~Due(p)'
  BY <1>11 DEF Due, RemovalSteps, Piece
<1>14. SetRight' /\ AccessSet'
  BY <1>13 DEF SetRight, AccessSet
<1>15. Recorded'
  <2>1. \A r \in Operator : plans'[r] # None => PlanSound(plans'[r])
    BY <1>1 DEF Recorded, TypeOK
  <2> QED BY <2>1, <1>1, <1>5, <1>7 DEF Recorded
<1>16. LaidDown' /\ Activated' /\ Served' /\ PlansHold'
  BY <1>8, <1>9 DEF LaidDown, Activated, Served, PlansHold, StillInOrder
<1>17. Laying' /\ Starting' /\ Mending' /\ Restoring'
  BY <1>7 DEF Laying, Starting, Mending, Restoring
<1>18. Taking'
  BY <1>3, <1>5, <1>8, <1>11 DEF Taking
<1>19. Returnable' /\ Fitting'
  BY <1>8 DEF Returnable, Fitting
<1>20. AccountKept'
  BY <1>7, <1>8 DEF IInv, AccountKept
<1>21. Consented'
  BY <1>7, <1>8 DEF IInv, Consented
<1> QED BY <1>10, <1>12, <1>14, <1>15, <1>16, <1>17, <1>18, <1>19, <1>20, <1>21 DEF IInv

(* Where a plan that still holds starts from.                               *)
LEMMA PlannedFrom ==
  ASSUME TypeOK, NEW plan \in Plan, PlanSound(plan), StillAsPlanned(plan), JournalFits(journal)
  PROVE  /\ journal = plan.snapshot /\ ~Conflicts /\ ReadAccess = plan.previousAccess
         /\ Unfinished <=> plan.mode = "resume"
         /\ plan.mode = "resume" =>
              /\ journal.target = plan.artifact.version /\ journal.source = plan.artifact
              /\ plan.existing = journal.installed /\ journal.previous = journal.installed
              /\ journal.installed = None <=> journal.previousSource = None
              /\ journal.installed # None => journal.previousSource.version = journal.installed
         /\ (plan.mode # "resume" /\ plan.existing # None) =>
              /\ journal # None /\ journal.phase = "complete"
              /\ plan.existing = journal.installed /\ journal.target = journal.installed
              /\ journal.source # None /\ journal.source.version = plan.existing
         /\ plan.mode = "repair" =>
              /\ journal # None /\ journal.phase = "complete"
              /\ plan.existing = plan.artifact.version /\ plan.existing # None
              /\ journal.source = plan.artifact /\ journal.target = plan.artifact.version
         /\ plan.existing # None <=>
              journal # None /\ journal.phase # "uninstalled" /\ journal.installed # None
<1>1. plan.mode \in {"install", "resume", "upgrade", "repair"} /\ plan.artifact \in Artifact
  BY DEF Plan
<1>2. journal = plan.snapshot /\ ~Conflicts /\ ReadAccess = plan.previousAccess
  BY <1>1 DEF StillAsPlanned
<1>3. Unfinished <=> plan.mode = "resume"
  BY <1>1, <1>2 DEF PlanSound, Unfinished
<1>4. plan.existing = IF journal = None \/ journal.phase = "uninstalled" THEN None ELSE journal.installed
  BY <1>1, <1>2 DEF PlanSound
<1>5. plan.mode = "resume" =>
        /\ journal.target = plan.artifact.version /\ journal.source = plan.artifact
        /\ plan.existing = journal.installed /\ journal.previous = journal.installed
        /\ journal.installed = None <=> journal.previousSource = None
        /\ journal.installed # None => journal.previousSource.version = journal.installed
  BY <1>1, <1>2, <1>4 DEF PlanSound, JournalFits, Accepted
<1>6. (plan.mode # "resume" /\ plan.existing # None) =>
        /\ journal # None /\ journal.phase = "complete"
        /\ plan.existing = journal.installed /\ journal.target = journal.installed
        /\ journal.source # None /\ journal.source.version = plan.existing
  BY <1>3, <1>4 DEF JournalFits, Accepted, Unfinished
<1>7. plan.mode = "repair" =>
        /\ journal # None /\ journal.phase = "complete"
        /\ plan.existing = plan.artifact.version /\ plan.existing # None
        /\ journal.source = plan.artifact /\ journal.target = plan.artifact.version
  BY <1>1, <1>2, <1>4 DEF PlanSound, JournalFits, Accepted
<1>8. plan.existing # None <=>
        journal # None /\ journal.phase # "uninstalled" /\ journal.installed # None
  BY <1>4
<1> QED BY <1>2, <1>3, <1>5, <1>6, <1>7, <1>8

(* An installation, upgrade, repair or resumption begins.                   *)
LEMMA InstallationBegins ==
  ASSUME IInv, NEW o \in Operator, plans[o] # None, op = None, StillAsPlanned(plans[o]),
         plans[o].mode # "uninstall", plans' = [plans EXCEPT ![o] = None],
         op' = [plan |-> plans[o], todo |-> InstallSteps(plans[o]), undo |-> FALSE,
                failed |-> FALSE, restorable |-> TRUE, previous |-> plans[o].existing,
                previousSource |-> IF Unfinished THEN journal.previousSource
                                   ELSE IF plans[o].existing # None THEN journal.source ELSE None],
         history' = [history EXCEPT
                       !.consent = @ \/ plans[o].consents,
                       !.contested = @ \/ Fingerprint(plans[o].artifact.version)
                                            \notin {None, plans[o].artifact}],
         UNCHANGED <<journal, files, system, spent, scenario>>
  PROVE  IInv'
<1> DEFINE plan == plans[o]
           a == plan.artifact
<1>1. TypeOK /\ Recorded /\ PlanSound(plan) /\ StillInOrder(plan) /\ JournalFits(journal)
  BY DEF IInv, Recorded, PlansHold
<1>2. plan \in Plan
  BY <1>1 DEF TypeOK, RemovalPlan
<1>3. /\ plan.mode \in {"install", "resume", "upgrade", "repair"} /\ a \in Artifact /\ a.lan
      /\ a.version \in Version /\ plan.existing \in Version \cup {None}
      /\ plan.consents \in BOOLEAN /\ plan.repairs \subseteq Repair
  BY <1>2 DEF Plan, Version
<1>4. /\ journal = plan.snapshot /\ ~Conflicts /\ ReadAccess = plan.previousAccess
      /\ Unfinished <=> plan.mode = "resume"
      /\ plan.mode = "resume" =>
           /\ journal.target = plan.artifact.version /\ journal.source = plan.artifact
           /\ plan.existing = journal.installed /\ journal.previous = journal.installed
           /\ journal.installed = None <=> journal.previousSource = None
           /\ journal.installed # None => journal.previousSource.version = journal.installed
      /\ (plan.mode # "resume" /\ plan.existing # None) =>
           /\ journal # None /\ journal.phase = "complete"
           /\ plan.existing = journal.installed /\ journal.target = journal.installed
           /\ journal.source # None /\ journal.source.version = plan.existing
      /\ plan.mode = "repair" =>
           /\ journal # None /\ journal.phase = "complete"
           /\ plan.existing = plan.artifact.version /\ plan.existing # None
           /\ journal.source = plan.artifact /\ journal.target = plan.artifact.version
      /\ plan.existing # None <=>
           journal # None /\ journal.phase # "uninstalled" /\ journal.installed # None
  BY <1>1, <1>2, PlannedFrom
<1> DEFINE steps == InstallSteps(plan)
           source == IF Unfinished THEN journal.previousSource
                     ELSE IF plan.existing # None THEN journal.source ELSE None
           kind == IF plan.mode = "repair" THEN "repair" ELSE "other"
<1>5. steps \in Seq(Step) \ {<<>>} /\ Sorted(kind, steps) /\ Left(steps) = Steps(plan)
  BY <1>2, InstallProgram
<1>6. /\ source \in Artifact \cup {None} /\ (plan.existing = None <=> source = None)
      /\ plan.existing # None => source.version = plan.existing
      /\ plan.mode = "repair" => source = a
  <2>1. journal # None => journal \in JournalRecord
    BY <1>1 DEF TypeOK
  <2>2. source \in Artifact \cup {None}
    BY <2>1, <1>4 DEF JournalRecord, Unfinished
  <2> QED BY <2>2, <1>3, <1>4
<1>7. /\ op' \in Operation /\ op'.plan = plan /\ op'.todo = steps /\ ~op'.undo /\ ~op'.failed
      /\ op'.restorable /\ op'.previous = plan.existing /\ op'.previousSource = source
  <2> HIDE DEF plan, steps, source
  <2>1. op' = [plan |-> plan, todo |-> steps, undo |-> FALSE, failed |-> FALSE, restorable |-> TRUE,
               previous |-> plan.existing, previousSource |-> source]
    BY DEF plan, steps, source
  <2> QED BY <2>1, <1>2, <1>3, <1>5, <1>6 DEF Operation
<1>8. op' # None
  BY <1>7, NoneAssumption
<1> HIDE DEF source, steps
<1>9. /\ (Repairs' <=> plan.mode = "repair") /\ (Advancing' <=> plan.mode # "repair")
      /\ ~Undoing' /\ ~Removes' /\ Kind' = kind
      /\ Laid' = Laid /\ Active' = Active /\ Serving' = Serving /\ Unfinished' = Unfinished
      /\ ~Anew' /\ ~Anew /\ ReadAccess' = ReadAccess
  BY <1>3, <1>4, <1>7, <1>8
     DEF Repairs, Advancing, Undoing, Removes, Kind, Laid, Active, Serving, Unfinished, Anew, ReadAccess
<1>10. /\ history'.consent = (history.consent \/ plan.consents)
       /\ history'.contested = (history.contested \/ files.release[a.version] \notin {None, a})
       /\ history'.removing = history.removing /\ history'.damaged = history.damaged
       /\ history'.lost = history.lost /\ history'.established = history.established
       /\ history'.undone = history.undone
  BY <1>1 DEF TypeOK, Fingerprint
<1>11. Kept' = Kept /\ Unharmed' = Unharmed /\ Untouched' = Untouched
  BY <1>9, <1>10 DEF Kept, Unharmed, Untouched
<1>12. TypeOK'
  <2>1. history' \in [completed: BOOLEAN, established: BOOLEAN, consent: BOOLEAN, undone: BOOLEAN,
                      damaged: BOOLEAN, lost: BOOLEAN, removing: BOOLEAN, contested: BOOLEAN]
    BY <1>1, <1>3 DEF TypeOK
  <2>2. plans' \in [Operator -> Plan \cup RemovalPlan \cup {None}]
    BY <1>1 DEF TypeOK
  <2> QED BY <2>1, <2>2, <1>1, <1>7 DEF TypeOK
(* What is due.                                                             *)
<1>13. \A s \in Step : Due(s)' <=> s \in Steps(plan)
  BY <1>5, <1>7, <1>8 DEF Due
<1>14. /\ PhaseDone("packages") <=> Unfinished /\ journal.phase # "prepared"
       /\ PhaseDone("dependencies") <=> Unfinished /\ journal.phase \notin {"prepared", "packages"}
       /\ PhaseDone("release") <=>
            Unfinished /\ journal.phase \notin {"prepared", "packages", "dependencies"}
       /\ PhaseDone("activated") <=>
            Unfinished /\ journal.phase \notin {"prepared", "packages", "dependencies", "release"}
       /\ PhaseDone("services") <=> Unfinished /\ journal.phase = "services"
  BY <1>1, PhasesDone
<1>15. {"prepared", "apt", "packages", "probe", "dependencies", "release", "pointer", "activated",
        "services", "complete", "enable", "undone", "remove-var", "uninstalled"}
         \cup LayingSteps \cup StartingSteps \cup Piece \subseteq Step
  BY StepSet DEF LayingSteps, StartingSteps, Piece
<1>16. ASSUME plan.mode # "repair"
       PROVE  /\ \A s \in LayingSteps \cup {"release"} : Due(s)' <=> ~PhaseDone("release")
              /\ \A s \in {"pointer", "activated"} : Due(s)' <=> ~PhaseDone("activated")
              /\ \A s \in StartingSteps \cup {"services"} : Due(s)' <=> ~PhaseDone("services")
              /\ Due("packages")' <=> ~PhaseDone("packages")
              /\ Due("dependencies")' <=> ~PhaseDone("dependencies")
  <2>1. Steps(plan) =
          If(~Unfinished, {"prepared"}) \cup If(plan.packages, {"apt"})
            \cup If(~PhaseDone("packages"), {"packages"}) \cup {"probe", "complete"}
            \cup If(~PhaseDone("dependencies"), {"dependencies"})
            \cup If(~PhaseDone("release"), LayingSteps \cup {"release"})
            \cup If(~PhaseDone("activated"), {"pointer", "activated"})
            \cup If(~PhaseDone("services"),
                    {"reload", "helper", "enable", "restart", "verify", "services"})
    BY <1>16 DEF Steps
  <2>2. \A s \in LayingSteps \cup {"release"} : s \in Steps(plan) <=> ~PhaseDone("release")
    BY <2>1 DEF If, LayingSteps
  <2>3. \A s \in {"pointer", "activated"} : s \in Steps(plan) <=> ~PhaseDone("activated")
    BY <2>1 DEF If, LayingSteps
  <2>4. \A s \in StartingSteps \cup {"services"} : s \in Steps(plan) <=> ~PhaseDone("services")
    BY <2>1 DEF If, LayingSteps, StartingSteps
  <2>5. /\ "packages" \in Steps(plan) <=> ~PhaseDone("packages")
        /\ "dependencies" \in Steps(plan) <=> ~PhaseDone("dependencies")
    BY <2>1 DEF If, LayingSteps
  <2> QED BY <2>2, <2>3, <2>4, <2>5, <1>13, <1>15
<1>17. ASSUME plan.mode = "repair"
       PROVE  /\ Due("pointer")' <=> "current" \in plan.repairs
              /\ \A p \in Piece \cup {"directories"} : Due(p)' <=> p \in plan.repairs
              /\ Due("access")' <=> "web-access" \in plan.repairs
              /\ Due("dropin")' <=> "web-access" \in plan.repairs
              /\ Due("reload")' <=> plan.repairs \cap (Piece \cup {"web-access"}) # {}
              /\ Due("account")' /\ Due("owners")' /\ Due("helper")' /\ Due("restart")' /\ Due("verify")'
              /\ ~Due("configure")' /\ Due("packages")'
  <2>1. ~Unfinished /\ ~PhaseDone("packages")
    BY <1>4, <1>14, <1>17
  <2>2. Steps(plan) = {"prepared"} \cup If(plan.packages, {"apt"}) \cup {"packages"}
                        \cup {"probe", "complete"} \cup RepairedSteps(plan.repairs)
    BY <2>1, <1>17 DEF Steps, If
  <2>3. /\ "pointer" \in Steps(plan) <=> "current" \in plan.repairs
        /\ "access" \in Steps(plan) <=> "web-access" \in plan.repairs
        /\ "dropin" \in Steps(plan) <=> "web-access" \in plan.repairs
        /\ "reload" \in Steps(plan) <=> plan.repairs \cap (Piece \cup {"web-access"}) # {}
        /\ {"account", "owners", "helper", "restart", "verify", "packages"} \subseteq Steps(plan)
        /\ "configure" \notin Steps(plan)
    BY <2>2 DEF RepairedSteps, If
  <2>4. \A p \in Piece \cup {"directories"} : p \in Steps(plan) <=> p \in plan.repairs
    BY <2>2 DEF RepairedSteps, If, Piece
  <2> QED BY <2>3, <2>4, <1>13, <1>15 DEF LayingSteps, StartingSteps
<1>18. Due("complete")' /\ (Due("prepared")' <=> ~Unfinished)
  <2>1. "complete" \in Steps(plan)
    BY DEF Steps
  <2>2. "prepared" \in Steps(plan) <=> ~Unfinished
    BY DEF Steps, If, RepairedSteps, LayingSteps
  <2> QED BY <2>1, <2>2, <1>13, <1>15
<1>19. Programmed'
  <2>1. Sorted(Kind', op'.todo) /\ (~op'.undo => op'.restorable /\ ~op'.failed)
    BY <1>5, <1>7, <1>9
  <2>2. plan.mode = "repair" => Left(op'.todo) \subseteq MendingSteps
    <3> SUFFICES ASSUME plan.mode = "repair" PROVE Steps(plan) \subseteq MendingSteps
      BY <1>5, <1>7
    <3>1. ~PhaseDone("dependencies") /\ ~PhaseDone("packages")
      BY <1>4, <1>14
    <3> QED BY DEF Steps, If, RepairedSteps, MendingSteps
  <2>3. plan.mode # "repair" =>
          Left(op'.todo) \subseteq Phase \cup LayingSteps \cup StartingSteps \cup {"apt", "probe", "pointer"}
    <3> SUFFICES ASSUME plan.mode # "repair"
                 PROVE  Steps(plan) \subseteq Phase \cup LayingSteps \cup StartingSteps
                                                 \cup {"apt", "probe", "pointer"}
      BY <1>5, <1>7
    <3> QED BY PhaseSet DEF Steps, If, StartingSteps
  <2>4. PhaseDone("activated") => PhaseDone("release")
    BY <1>14
  <2>5. PhaseDone("services") => PhaseDone("activated")
    BY <1>14
  <2>6. plan.mode # "repair" =>
          /\ \A s \in LayingSteps : Due(s)' => Due("release")'
          /\ Due("release")' => Due("pointer")'
          /\ Due("pointer")' => Due("activated")'
          /\ Due("activated")' => \A s \in StartingSteps : Due(s)'
          /\ \A s \in StartingSteps : Due(s)' => Due("services")'
    BY <2>4, <2>5, <1>16
  <2> QED BY <2>1, <2>2, <2>3, <2>6, <1>9, <1>18 DEF Programmed
<1>20. SetRight'
  <2>1. CASE plan.mode = "repair"
    <3>1. \A p \in Piece : Due(p)' => Due("reload")'
      BY <2>1, <1>17
    <3> QED BY <2>1, <3>1, <1>17 DEF SetRight
  <2>2. CASE plan.mode # "repair"
    <3>1. {"access", "dropin", "account", "configure", "owners"} \cup Piece \subseteq LayingSteps
          /\ {"reload", "restart"} \subseteq StartingSteps
      BY DEF LayingSteps, Piece, StartingSteps
    <3>2. PhaseDone("services") => PhaseDone("activated") /\ PhaseDone("release")
      BY <1>14
    <3>3. PhaseDone("activated") => PhaseDone("release")
      BY <1>14
    <3>4. \A p \in Piece : Due(p)' => Due("reload")'
      BY <2>2, <3>1, <3>2, <1>16
    <3> QED BY <2>2, <3>1, <3>2, <3>3, <3>4, <1>16 DEF SetRight
  <2> QED BY <2>1, <2>2
<1>21. Recorded'
  <2>1. \A r \in Operator : plans'[r] # None => PlanSound(plans'[r])
    BY <1>1 DEF Recorded, TypeOK
  <2>2. Unfinished => /\ op'.previous = journal.installed /\ op'.previousSource = journal.previousSource
                      /\ op'.plan.mode = "resume"
    BY <1>4, <1>7 DEF source
  <2>3. /\ op'.previous = None <=> op'.previousSource = None
        /\ op'.previous # None => op'.previousSource.version = op'.previous
        /\ op'.plan.mode = "repair" => /\ op'.previous = op'.plan.artifact.version
                                       /\ op'.previousSource = op'.plan.artifact
    BY <1>4, <1>6, <1>7
  <2>4. /\ Due("prepared")' => journal' = op'.plan.snapshot /\ ~Unfinished' /\ ~op'.undo
        /\ ~Due("prepared")' =>
             /\ Unfinished'
             /\ journal'.target = op'.plan.artifact.version /\ journal'.source = op'.plan.artifact
             /\ journal'.installed = op'.previous /\ journal'.previous = op'.previous
             /\ journal'.previousSource = op'.previousSource
             /\ op'.plan.mode # "repair" /\ ~op'.undo
    BY <2>2, <1>4, <1>7, <1>9, <1>18
  <2>5. Advancing' =>
          /\ Due("prepared")' => /\ Due("packages")' /\ Due("dependencies")' /\ Due("release")'
                                 /\ Due("activated")' /\ Due("services")'
          /\ ~Due("prepared")' =>
               /\ Due("packages")' <=> journal'.phase = "prepared"
               /\ Due("dependencies")' <=> journal'.phase \in {"prepared", "packages"}
               /\ Due("release")' <=> journal'.phase \in {"prepared", "packages", "dependencies"}
               /\ Due("activated")' <=>
                    journal'.phase \in {"prepared", "packages", "dependencies", "release"}
               /\ Due("services")' <=> journal'.phase # "services"
    BY <1>9, <1>14, <1>16, <1>18
  <2>6. (Repairs' /\ Due("prepared")') => Due("packages")'
    BY <1>9, <1>17
  <2>7. PlanSound(op'.plan) /\ JournalFits(journal)'
    BY <1>1, <1>7
  <2> QED BY <2>1, <2>3, <2>4, <2>5, <2>6, <2>7 DEF Recorded
(* What is there is what was there.                                         *)
<1>22. LaidDown' /\ Activated' /\ Served'
  BY <1>9, <1>10, <1>11 DEF IInv, LaidDown, Activated, Served, HasAccount, Owned, BackedUp, PiecesOf,
                            WebOf, HelperOf, DropInLoaded, UnitsLoaded, RunningOf
<1>23. PlansHold'
  <2> SUFFICES ASSUME NEW r \in Operator, plans'[r] # None PROVE StillInOrder(plans[r])'
    BY DEF PlansHold
  <2>1. plans'[r] = plans[r]
    BY <1>1 DEF TypeOK
  <2>2. StillInOrder(plans[r])
    BY <2>1 DEF IInv, PlansHold
  <2> QED BY <2>1, <2>2, <1>1, <1>9, <1>10, <1>11 DEF StillInOrder
<1>24. AccessSet'
  <2>1. Due("dropin")' => Due("access")'
    BY <1>16, <1>17 DEF LayingSteps
  <2> QED BY <2>1 DEF AccessSet
<1>25. Laying' /\ Starting'
  BY <1>9, <1>16 DEF Laying, Starting, LayingSteps, StartingSteps, Piece
<1>26. Mending'
  <2> SUFFICES ASSUME plan.mode = "repair", ~history.removing PROVE Mending'
    BY <1>9, <1>10 DEF Mending
  <2>1. Laid /\ Active /\ Serving /\ Kept /\ journal.source = a /\ journal.target = a.version
    BY <1>4 DEF Laid, Active, Serving, Kept
  <2>2. files.config # None /\ HasAccount /\ Owned /\ BackedUp(journal)
    BY <2>1 DEF IInv, LaidDown
  <2>3. /\ "directories" \notin plan.repairs => files.directories
        /\ Untouched => \A p \in Piece \ plan.repairs : files.piece[p] = PieceOf(p, a)
        /\ (~history.undone /\ "current" \notin plan.repairs) => files.current = a.version
    BY <2>1, <1>1 DEF StillInOrder
  <2>4. ~history.undone => /\ Untouched /\ WebOf(a) /\ system.enabled /\ DropInLoaded
                           /\ files.piece["units"] # None => UnitsLoaded
    BY <2>1 DEF IInv, LaidDown, Served, Untouched
  <2>5. (~history.undone /\ "units" \notin plan.repairs) => UnitsLoaded
    <3>1. "units" \in Piece /\ PieceOf("units", a) = a /\ a # None
      BY <1>3, ConfigAssumption DEF Piece, PieceOf
    <3> QED BY <2>3, <2>4, <3>1
  <2>6. ~Due("reload")' => "units" \notin plan.repairs
    BY <1>17 DEF Piece
  <2>7. BackedUp(op.plan.snapshot)'
    BY <2>2, <1>1, <1>4, <1>7 DEF BackedUp
  <2>8. files'.config # None /\ HasAccount' /\ Owned' /\ (~Due("directories")' => files'.directories)
    BY <2>2, <2>3, <1>10, <1>17 DEF HasAccount, Owned
  <2>9. ~history'.undone => \A p \in Piece : ~Due(p)' => files'.piece[p] = PieceOf(p, a)
    BY <2>3, <2>4, <1>1, <1>10, <1>17
  <2>10. ~history'.undone => (~Due("pointer")' => files'.current = a.version)
    BY <2>3, <1>1, <1>10, <1>17
  <2>11. ~history'.undone => (WebOf(op.plan.artifact)' /\ system'.enabled)
    BY <2>4, <1>1, <1>7, <1>9, <1>10 DEF WebOf, DropIn, Servable
  <2>12. ~history'.undone => (~Due("reload")' => UnitsLoaded' /\ DropInLoaded')
    BY <2>4, <2>5, <2>6, <1>1, <1>10 DEF UnitsLoaded, DropInLoaded
  <2>13. Due("helper")' /\ Due("restart")' /\ Due("account")'
    BY <1>17
  <2> QED BY <2>7, <2>8, <2>9, <2>10, <2>11, <2>12, <2>13, <1>7 DEF Mending
<1>27. Restoring' /\ Taking'
  BY <1>9 DEF Restoring, Taking
<1>28. Returnable'
  <2> SUFFICES ASSUME ~history.removing PROVE Returnable'
    BY <1>10 DEF Returnable
  <2>1. (Unfinished /\ journal.installed # None) =>
          files.release[journal.installed] = journal.previousSource
    BY DEF IInv, Returnable
  <2>2. plan.existing # None => files.release[plan.existing] = source
    <3>1. CASE plan.mode = "resume"
      BY <2>1, <3>1, <1>4 DEF source
    <3>2. CASE plan.mode # "resume" /\ plan.existing # None
      <4>1. Laid /\ Kept
        BY <3>2, <1>4 DEF Laid, Kept
      <4> QED BY <3>2, <4>1, <1>4 DEF IInv, LaidDown, source
    <3> QED BY <3>1, <3>2
  <2> QED BY <2>1, <2>2, <1>7, <1>9 DEF Returnable
<1>29. Fitting'
  BY <1>7, <1>9, <1>10 DEF IInv, Fitting
<1>30. AccountKept'
  <2>1. history.established => plan.existing # None
    <3>1. journal = None => files.backups = {}
      BY <1>4 DEF Conflicts, DataPresent
    <3> QED BY <3>1, <1>4 DEF IInv, AccountKept
  <2>2. plan.existing # None => history.established
    BY <1>4 DEF IInv, AccountKept
  <2> QED BY <2>1, <2>2, <1>7, <1>10 DEF IInv, AccountKept, HasAccount
<1>31. Consented'
  <2>1. "lan" \in {plan.access, plan.previousAccess} => history.consent \/ plan.consents
    <3>1. plan.previousAccess = "lan" => files.access = "lan"
      BY <1>4 DEF ReadAccess
    <3>2. (plan.access = "lan" /\ ~plan.consents) => plan.previousAccess = "lan"
      BY <1>1, <1>3 DEF PlanSound
    <3> QED BY <3>1, <3>2 DEF IInv, Consented
  <2> QED BY <2>1, <1>7, <1>10 DEF IInv, Consented
<1> QED BY <1>12, <1>19, <1>20, <1>21, <1>22, <1>23, <1>24, <1>25, <1>26, <1>27, <1>28, <1>29, <1>30,
           <1>31 DEF IInv

LEMMA ApplyStep ==
  ASSUME IInv, NEW o \in Operator, Apply(o) PROVE IInv'
<1>1. /\ plans[o] # None /\ op = None /\ plans' = [plans EXCEPT ![o] = None]
      /\ UNCHANGED <<journal, files, system, spent, scenario>>
  BY DEF Apply, Unlocked
<1>2. CASE ~StillAsPlanned(plans[o])
  <2>1. op' = op /\ history' = history
    BY <1>2 DEF Apply
  <2>2. plans' \in [Operator -> Plan \cup RemovalPlan \cup {None}]
        /\ \A r \in Operator : plans'[r] # None => plans'[r] = plans[r]
    BY <1>1 DEF IInv, TypeOK
  <2>3. TypeOK'
    BY <2>1, <2>2, <1>1 DEF IInv, TypeOK
  <2> QED BY <2>1, <2>2, <2>3, <1>1, PlansMade
<1>3. CASE StillAsPlanned(plans[o]) /\ plans[o].mode = "uninstall"
  BY <1>1, <1>3, RemovalBegins DEF Apply
<1>4. CASE StillAsPlanned(plans[o]) /\ plans[o].mode # "uninstall"
  BY <1>1, <1>4, InstallationBegins DEF Apply
<1> QED BY <1>2, <1>3, <1>4

(* The host the operators start from: nothing is installed, or one release  *)
(* is, completely.                                                          *)
LEMMA Initially == Init => IInv
<1> SUFFICES ASSUME Init PROVE IInv
  OBVIOUS
<1>1. /\ op = None /\ plans = [o \in Operator |-> None]
      /\ spent = [operations |-> 0, failures |-> 0, crashes |-> 0, events |-> 0]
      /\ scenario \in Scenario
  BY ScenarioAssumption DEF Init
<1>2. /\ ~Repairs /\ ~Advancing /\ ~Undoing /\ ~Removes /\ ~Anew /\ \A s : ~Due(s)
  BY <1>1 DEF Repairs, Advancing, Undoing, Removes, Anew, Due
<1>3. /\ Programmed /\ SetRight /\ AccessSet /\ Laying /\ Starting /\ Mending /\ Restoring /\ Taking
      /\ PlansHold
  BY <1>1, <1>2 DEF Programmed, SetRight, AccessSet, Laying, Starting, Mending, Restoring, Taking,
                    PlansHold
<1>4. /\ plans \in [Operator -> Plan \cup RemovalPlan \cup {None}]
      /\ op \in Operation \cup {None}
      /\ spent \in [operations: Nat, failures: Nat, crashes: Nat, events: Nat]
  BY <1>1
<1>5. "complete" \in Phase /\ "loopback" \in Access /\ "lan" # "loopback"
  BY PhaseSet DEF Access
<1>6. CASE scenario.installed = None
  <2>1. journal = None /\ files = NoFiles /\ system = NothingLoaded /\ history = Purged
    BY <1>6 DEF Init
  <2>2. ~Unfinished /\ ~Laid /\ ~Active /\ ~Serving
    BY <2>1 DEF Unfinished, Laid, Active, Serving
  <2>3. TypeOK
    <3>1. files \in FilesRecord
      BY <2>1 DEF NoFiles, FilesRecord
    <3>2. system \in SystemRecord
      BY <2>1 DEF NothingLoaded, SystemRecord
    <3>3. history \in [completed: BOOLEAN, established: BOOLEAN, consent: BOOLEAN, undone: BOOLEAN,
                       damaged: BOOLEAN, lost: BOOLEAN, removing: BOOLEAN, contested: BOOLEAN]
      BY <2>1 DEF Purged
    <3> QED BY <3>1, <3>2, <3>3, <2>1, <1>1, <1>4 DEF TypeOK
  <2>4. Recorded
    BY <2>1, <1>1, <1>2 DEF Recorded, JournalFits
  <2>5. LaidDown /\ Activated /\ Served
    BY <2>2 DEF LaidDown, Activated, Served
  <2>6. Returnable /\ Fitting
    BY <2>2, <1>1 DEF Returnable, Fitting
  <2>7. AccountKept
    BY <2>1, <1>1 DEF AccountKept, Purged
  <2>8. Consented
    BY <2>1, <1>1, NoneAssumption DEF Consented, NoFiles, NothingLoaded, Access
  <2> QED BY <2>3, <2>4, <2>5, <2>6, <2>7, <2>8, <1>3 DEF IInv
<1>7. CASE scenario.installed # None
  <2> DEFINE a == scenario.installed
  <2>1. a \in Artifact /\ a.version \in Version /\ a.version # None /\ a # None
        /\ a.lan \in BOOLEAN /\ a.maintained \in BOOLEAN
    <3>1. a \in Artifact
      BY <1>1, <1>7 DEF Scenario
    <3> QED BY <3>1, ArtifactAssumption, ConfigAssumption, NoneAssumption DEF Version
  <2>2. /\ journal = Journal("complete", a.version, a.version, None, a, None)
        /\ files = InstalledFiles(a) /\ system = InstalledSystem(a)
        /\ history = [Purged EXCEPT !.completed = TRUE, !.established = TRUE]
    BY <1>7 DEF Init
  <2>3. /\ journal # None /\ journal \in JournalRecord
        /\ journal.phase = "complete" /\ journal.target = a.version /\ journal.installed = a.version
        /\ journal.previous = None /\ journal.source = a /\ journal.previousSource = None
    <3>1. journal = [phase |-> "complete", target |-> a.version, installed |-> a.version,
                     previous |-> None, source |-> a, previousSource |-> None]
      BY <2>2 DEF Journal
    <3>2. journal \in JournalRecord
      BY <3>1, <2>1, <1>5 DEF JournalRecord
    <3> QED BY <3>1, <3>2, NoneAssumption
  <2>4. /\ history.established /\ ~history.consent /\ ~history.undone /\ ~history.damaged
        /\ ~history.lost /\ ~history.removing /\ ~history.contested
        /\ history \in [completed: BOOLEAN, established: BOOLEAN, consent: BOOLEAN, undone: BOOLEAN,
                        damaged: BOOLEAN, lost: BOOLEAN, removing: BOOLEAN, contested: BOOLEAN]
    BY <2>2 DEF Purged
  <2>5. /\ system.units = a /\ ~system.dropin /\ system.dropin = FALSE /\ system.enabled /\ system.helper = a.maintained
        /\ system.running = [code |-> a, exposed |-> FALSE] /\ system \in SystemRecord
    BY <2>1, <2>2 DEF InstalledSystem, SystemRecord
  <2>6. NoFiles \in FilesRecord
    BY DEF NoFiles, FilesRecord
  <2>7. /\ files.release[a.version] = a /\ files.current = a.version
        /\ \A p \in Piece : files.piece[p] = PieceOf(p, a)
        /\ files.access \in {"loopback", None} /\ files.dropin = None /\ files.config # None
        /\ files.account /\ files.owned = {"config", "account"} /\ files.directories
    <3>1. files.release = [NoFiles.release EXCEPT ![a.version] = a]
      BY <2>2 DEF InstalledFiles, NoFiles
    <3>2. NoFiles.release \in [Version -> Artifact \cup {None}]
      BY DEF NoFiles
    <3>3. files.piece = [p \in Piece |-> PieceOf(p, a)]
      BY <2>2 DEF InstalledFiles, NoFiles, PieceOf
    <3> QED BY <3>1, <3>2, <3>3, <2>1, <2>2, ConfigAssumption DEF InstalledFiles, NoFiles
  <2>8. files \in FilesRecord
    <3>1. [NoFiles.release EXCEPT ![a.version] = a] \in [Version -> Artifact \cup {None}]
      BY <2>1 DEF NoFiles
    <3>2. [p \in Piece |-> PieceOf(p, a)] \in [Piece -> Artifact \cup {None}]
      BY <2>1 DEF PieceOf
    <3>3. files = [release |-> [NoFiles.release EXCEPT ![a.version] = a],
                   current |-> a.version, piece |-> [p \in Piece |-> PieceOf(p, a)],
                   access |-> IF a.lan THEN "loopback" ELSE None, dropin |-> None,
                   config |-> Example, account |-> TRUE, marker |-> FALSE,
                   owned |-> {"config", "account"}, backups |-> {},
                   directories |-> TRUE, packages |-> TRUE]
      BY <2>2 DEF InstalledFiles, NoFiles, PieceOf
    <3> HIDE DEF a
    <3> QED BY <3>1, <3>2, <3>3, <2>1, <1>5, ConfigAssumption DEF FilesRecord
  <2>9. TypeOK
    BY <2>3, <2>4, <2>5, <2>8, <1>1, <1>4 DEF TypeOK
  <2>10. ReadAccess = "loopback" /\ WebOf(a)
    <3>1. ReadAccess = "loopback"
      BY <2>7 DEF ReadAccess
    <3> QED BY <3>1, <2>7 DEF WebOf, DropIn, Servable
  <2>11. ~Unfinished
    BY <2>3 DEF Unfinished
  <2>12. Recorded
    BY <2>1, <2>3, <1>1, <1>2 DEF Recorded, JournalFits, Accepted
  <2>13. LaidDown
    BY <2>3, <2>7, <2>10, <2>4 DEF LaidDown, HasAccount, Owned, BackedUp, PiecesOf
  <2>14. Activated
    BY <2>3, <2>7 DEF Activated
  <2>15. Served
    <3>1. "units" \in Piece /\ PieceOf("units", a) = a
      BY DEF Piece, PieceOf
    <3>2. UnitsLoaded /\ DropInLoaded
      BY <3>1, <2>5, <2>7 DEF UnitsLoaded, DropInLoaded
    <3>3. HelperOf(a) /\ RunningOf(a)
      BY <2>5, <2>10 DEF HelperOf, RunningOf
    <3> QED BY <3>2, <3>3, <2>3, <2>5 DEF Served
  <2>16. Returnable /\ Fitting
    BY <2>11, <1>1 DEF Returnable, Fitting
  <2>17. AccountKept
    BY <2>1, <2>3, <2>4, <2>7, <1>1 DEF AccountKept, HasAccount
  <2>18. Consented
    BY <2>5, <2>7, <1>1, <1>5, NoneAssumption DEF Consented, Access
  <2> QED BY <2>9, <2>12, <2>13, <2>14, <2>15, <2>16, <2>17, <2>18, <1>3 DEF IInv
<1> QED BY <1>6, <1>7

(* Every step of every operation, and whatever the host does, leaves the    *)
(* journal, the disk and the operation in agreement.                        *)
LEMMA Invariance == IInv /\ [Next]_vars => IInv'
<1> SUFFICES ASSUME IInv, [Next]_vars PROVE IInv'
  OBVIOUS
<1>1. CASE UNCHANGED vars
  <2>1. UNCHANGED <<journal, files, system, plans, op, history, spent, scenario>>
    BY <1>1 DEF vars
  <2>2. TypeOK'
    BY <2>1 DEF IInv, TypeOK
  <2>3. plans' \in [Operator -> Plan \cup RemovalPlan \cup {None}]
    BY <2>1 DEF IInv, TypeOK
  <2> QED BY <2>1, <2>2, <2>3, PlansMade
<1>2. CASE \E o \in Operator : MakePlan(o) \/ Apply(o)
  BY <1>2, PlanStep, ApplyStep
<1>3. CASE Installation
  <2>1. CASE \E h \in Phase \ {"complete"} : Record(h)
    <3>1. PICK h \in Phase \ {"complete"} : Record(h)
      BY <2>1
    <3>2. h \in Phase /\ h # "complete"
      BY <3>1
    <3> QED BY <3>1, <3>2, RecordStep
  <2>2. CASE RecordComplete
    BY <2>2, CompleteStep
  <2>3. CASE InstallPackages \/ Validate
    BY <2>3, FreeSteps
  <2>4. CASE \/ CopyRelease \/ BackUp \/ (\E p \in Piece : Integrate(p)) \/ MakeDirectories
             \/ Configure \/ InstallAccount \/ SetAccess \/ SetDropIn \/ RepairOwners
             \/ SetCurrent \/ RemoveCurrent
    BY <2>4, FileSteps
  <2>8. CASE WriteCredential
    BY <2>8, CredentialWritten
  <2>5. CASE ReloadUnits
    BY <2>5, ReloadStep
  <2>6. CASE \/ ActivateHelper \/ EnableUnits \/ RestartUnits \/ RequireActive
             \/ HaltHelper \/ HaltUnits \/ DisableUnits
    BY <2>6, CommandSteps
  <2>7. CASE RecordRollback
    BY <2>7, RollbackStep
  <2> QED BY <1>3, <2>1, <2>2, <2>3, <2>4, <2>5, <2>6, <2>7, <2>8 DEF Installation
<1>4. CASE Removal
  <2>1. CASE Strip \/ RemoveProgram \/ RemoveRun \/ RemoveSettings
    BY <2>1, EntrySteps
  <2>2. CASE ForgetUnits
    BY <2>2, CommandSteps
  <2>3. CASE RemoveState
    BY <2>3, StateRemoved
  <2>4. CASE RecordUninstalled
    BY <2>4, UninstalledStep
  <2> QED BY <1>4, <2>1, <2>2, <2>3, <2>4 DEF Removal
<1>5. CASE Host
  BY <1>5, RollbackFails, ActivationFailsStep, EndingSteps, HostSteps DEF Host
<1> QED BY <1>1, <1>2, <1>3, <1>4, <1>5 DEF Next

THEOREM Invariant == Spec => []IInv
<1>1. Init => IInv
  BY Initially
<1>2. IInv /\ [Next]_vars => IInv'
  BY Invariance
<1> QED BY <1>1, <1>2, PTL DEF Spec

(* What the journal says is there is there, and a journal never says what   *)
(* the installer would refuse to read (_load_state, _apply_install).        *)
LEMMA SoundDisk == IInv => DiskSound
<1> SUFFICES ASSUME IInv PROVE DiskSound
  OBVIOUS
<1>1. TypeOK
  BY DEF IInv
<1>2. JournalAccepted
  BY DEF IInv, Recorded, JournalFits, JournalAccepted
<1>3. RollbackPossible
  BY DEF IInv, Returnable, RollbackPossible
<1>4. TransitionBackedUp
  <2> SUFFICES ASSUME journal # None, ~Uninstalled, Rank(journal.phase) >= Rank("release"),
                      journal.previous \notin {None, journal.target}, ~history.removing
               PROVE  \E c \in Config : <<journal.previous, journal.target, c>> \in files.backups
    BY DEF TransitionBackedUp
  <2>1. journal.phase \in Phase
    BY <1>1 DEF TypeOK, JournalRecord, Uninstalled
  <2>2. Laid
    BY <2>1, PhaseSet, Ranks DEF Laid
  <2>3. Kept
    BY DEF Kept
  <2>4. BackedUp(journal)
    BY <2>2, <2>3 DEF IInv, LaidDown
  <2> QED BY <2>2, <2>4 DEF BackedUp, Laid
<1>5. ExposureAsked
  BY DEF IInv, Consented, ExposureAsked
<1> QED BY <1>1, <1>2, <1>3, <1>4, <1>5 DEF DiskSound

(* At every moment of every operation, crash, failure and rollback: the     *)
(* journal is accepted, the release to return to is there, no version is    *)
(* activated over another without a backup, and nothing is exposed unasked. *)
THEOREM SoundAlways == Spec => []DiskSound
<1>1. IInv => DiskSound
  BY SoundDisk
<1> QED BY <1>1, Invariant, PTL

LEMMA WholeWhenComplete == IInv => CompleteUnlessUndone
<1> SUFFICES ASSUME IInv, Complete, ~history.damaged, ~history.removing, ~history.undone
             PROVE  Whole(journal.installed, journal.source)
  BY DEF CompleteUnlessUndone
<1>1. /\ Laid /\ Active /\ Serving /\ Kept /\ Unharmed /\ Untouched
      /\ journal.target = journal.installed
  BY DEF IInv, Recorded, JournalFits, Accepted, Complete, Laid, Active, Serving, Kept, Unharmed, Untouched
<1>2. /\ files.release[journal.target] = journal.source
      /\ files.config # None /\ HasAccount /\ Owned /\ files.directories
      /\ PiecesOf(journal.source) /\ WebOf(journal.source)
  BY <1>1 DEF IInv, LaidDown
<1>3. files.current = journal.target
  BY <1>1 DEF IInv, Activated
<1>4. system.enabled /\ HelperOf(journal.source) /\ RunningOf(journal.source)
  BY <1>1 DEF IInv, Served
<1> QED BY <1>1, <1>2, <1>3, <1>4
        DEF Whole, HasAccount, Owned, PiecesOf, WebOf, HelperOf, RunningOf

(* A journal that says complete describes what is there: release, pointer,  *)
(* integration files, settings, owners and running services.                *)
THEOREM CompleteMeansWhole == Spec => []CompleteUnlessUndone
<1>1. IInv => CompleteUnlessUndone
  BY WholeWhenComplete
<1> QED BY <1>1, Invariant, PTL

(* An unfinished operation finds its release bound, the one to return to in *)
(* place and an account it may use or open, so its artifact resumes it.     *)
LEMMA Resumable == IInv => InterruptedCanResume
<1> DEFINE a == journal.source
           access == Selected(None)
           plan == PlanOf(a, None, None, FALSE)
<1> SUFFICES ASSUME IInv, Unfinished, op = None, ~history.removing, ~history.lost, ~history.contested
             PROVE  plan.ready /\ plan.mode = "resume"
  BY DEF InterruptedCanResume
<1>1. /\ journal # None /\ ~Uninstalled /\ ~Complete
      /\ journal.target = a.version /\ a.lan /\ journal.installed = journal.previous
  BY DEF IInv, Recorded, JournalFits, Accepted, Unfinished, Uninstalled, Complete
<1>2. ModeOf(a, access, FALSE) = "resume"
  BY <1>1 DEF ModeOf
<1>3. ~Conflicts
  BY <1>1 DEF Conflicts
<1>4. ReleasesSound(a)
  <2>1. Fingerprint(a.version) \in {None, a}
    BY <1>1 DEF IInv, Fitting, Fingerprint
  <2>2. journal.installed # None => Fingerprint(journal.installed) = journal.previousSource
    BY DEF IInv, Returnable, Fingerprint
  <2> QED BY <2>1, <2>2, <1>1 DEF ReleasesSound
<1>5. Servable(access, a)
  BY <1>1 DEF Servable
<1>6. ConfigFits(None, "resume")
  BY <1>1, ConfigAssumption DEF ConfigFits, Supplied
<1>7. files.account \/ SetupPending
  <2>1. CASE journal.installed = None
    BY <2>1, <1>1 DEF Unfinished, SetupPending, Fresh, NeverInstalled
  <2>2. CASE journal.installed # None
    <3>1. HasAccount
      BY <1>1, <2>2 DEF IInv, AccountKept
    <3> QED BY <3>1 DEF HasAccount, SetupPending
  <2> QED BY <2>1, <2>2
<1> QED BY <1>2, <1>3, <1>4, <1>5, <1>6, <1>7 DEF PlanOf

(* Wherever an operation was interrupted, its own artifact resumes it.      *)
THEOREM InterruptedResumes == Spec => []InterruptedCanResume
<1>1. IInv => InterruptedCanResume
  BY Resumable
<1> QED BY <1>1, Invariant, PTL

-----------------------------------------------------------------------------
(* What a step may do to the disk.                                          *)

(* The steps that write.                                                    *)
Writing ==
  \/ InstallPackages \/ CopyRelease \/ BackUp \/ \E p \in Piece : Integrate(p)
  \/ MakeDirectories \/ Configure \/ WriteCredential \/ InstallAccount
  \/ SetAccess \/ SetDropIn \/ RepairOwners \/ SetCurrent \/ RemoveCurrent \/ OperationFails
  \/ Strip \/ RemoveProgram \/ RemoveRun \/ RemoveSettings \/ RemoveState
  \/ SignUp \/ FinishSetup \/ EditConfig \/ Damage \/ LoseAccount

LEMMA OnlyWritingWrites ==
  ASSUME [Next]_vars PROVE files' = files \/ Writing
<1>1. CASE UNCHANGED vars
  BY <1>1 DEF vars
<1>2. CASE \E o \in Operator : MakePlan(o) \/ Apply(o)
  BY <1>2 DEF MakePlan, Apply
<1>3. CASE Installation
  <2>1. CASE (\E h \in Phase \ {"complete"} : Record(h)) \/ RecordComplete \/ RecordRollback
    BY <2>1 DEF Record, RecordComplete, RecordRollback
  <2>2. CASE Validate
    BY <2>2 DEF Validate, Write
  <2>3. CASE \/ ReloadUnits \/ ActivateHelper \/ EnableUnits \/ RestartUnits \/ RequireActive
             \/ HaltHelper \/ HaltUnits \/ DisableUnits
    BY <2>3 DEF ReloadUnits, ActivateHelper, EnableUnits, RestartUnits, RequireActive, HaltHelper,
                HaltUnits, DisableUnits, Systemd
  <2> QED BY <1>3, <2>1, <2>2, <2>3 DEF Installation, Writing
<1>4. CASE Removal
  BY <1>4 DEF Removal, Writing, ForgetUnits, Systemd, RecordUninstalled
<1>5. CASE Host
  BY <1>5 DEF Host, Writing, RollbackStepFails, ActivationFails, Crash, Reboot, Happens
<1> QED BY <1>1, <1>2, <1>3, <1>4, <1>5 DEF Next

(* What only certain steps do: change the configuration, open the creation  *)
(* of an account, and take away a release, the directories or the settings. *)
LEMMA Touching ==
  ASSUME IInv, [Next]_vars
  PROVE  /\ (files.config # None /\ files'.config # files.config) =>
              \/ At("remove-etc") /\ files'.config = None
              \/ files'.config # None /\ spent'.events > spent.events
         /\ (~files.marker /\ files'.marker) =>
              At("account") /\ NeverInstalled(op.plan.snapshot)
         /\ (\E v \in Version : files.release[v] # None /\ files'.release[v] = None) =>
              At("remove-opt")
         /\ (files.directories /\ ~files'.directories /\ spent' = spent) => At("remove-run")
<1>1. /\ TypeOK /\ files \in FilesRecord /\ spent.events \in Nat
      /\ spent \in [operations: Nat, failures: Nat, crashes: Nat, events: Nat]
      /\ files.marker \in BOOLEAN /\ files.directories \in BOOLEAN
  BY DEF IInv, TypeOK, FilesRecord
<1>2. \A event : Happens(event) => spent'.events > spent.events /\ spent' # spent
  BY <1>1 DEF Happens
<1>3. CASE files' = files
  BY <1>3
<1>4. CASE CopyRelease
  <2>1. op # None /\ At("copy") /\ op.plan.artifact # None
    <3>1. op # None /\ At("copy") /\ Head(op.todo) = "copy"
      BY <1>4 DEF CopyRelease, At
    <3>2. ~Removes
      BY <3>1, <1>1, HeadIsNearest DEF IInv, Programmed, RemovalSteps
    <3> QED BY <3>1, <3>2, <1>1, OperationTyped, ConfigAssumption DEF Plan
  <2>2. files' = [files EXCEPT !.release[op.plan.artifact.version] = op.plan.artifact]
    BY <1>4 DEF CopyRelease, Write
  <2>3. \A v \in Version : files'.release[v] \in {files.release[v], op.plan.artifact}
    BY <2>2, <1>1 DEF FilesRecord
  <2>4. files'.config = files.config /\ files'.marker = files.marker
        /\ files'.directories = files.directories
    BY <2>2, <1>1 DEF FilesRecord
  <2> QED BY <2>1, <2>3, <2>4
<1>5. CASE \/ InstallPackages \/ BackUp \/ (\E p \in Piece : Integrate(p)) \/ MakeDirectories
           \/ SetAccess \/ SetDropIn \/ RepairOwners \/ SetCurrent \/ RemoveCurrent
           \/ OperationFails \/ Strip
  <2>1. \/ files' = files
        \/ files' = [files EXCEPT !.packages = TRUE]
        \/ files' = [files EXCEPT !.backups = @ \cup {Backup}]
        \/ \E p \in Piece : \E x : files' = [files EXCEPT !.piece[p] = x]
        \/ files' = [files EXCEPT !.directories = TRUE]
        \/ \E x : files' = [files EXCEPT !.access = x]
        \/ \E x : files' = [files EXCEPT !.dropin = x]
        \/ \E x : files' = [files EXCEPT !.owned = x]
        \/ \E x : files' = [files EXCEPT !.current = x]
    BY <1>5 DEF InstallPackages, BackUp, Integrate, MakeDirectories, SetAccess, SetDropIn, RepairOwners,
                SetCurrent, RemoveCurrent, OperationFails, Strip, Write, Removing
  <2> QED BY <2>1, <1>1 DEF FilesRecord
<1>6. CASE Configure
  <2>1. \/ files' = files
        \/ files.config = None /\ files' = [files EXCEPT !.config = op.plan.supplied,
                                                         !.owned = @ \ {"config"}]
    BY <1>6 DEF Configure, Write
  <2> QED BY <2>1, <1>1 DEF FilesRecord
<1>7. CASE WriteCredential \/ InstallAccount
  <2>1. \/ files' = [files EXCEPT !.marker = @ /\ ~op.plan.credential]
        \/ files' = [files EXCEPT !.account = TRUE, !.owned = @ \ {"account"}]
        \/ /\ At("account") /\ Reopenable
           /\ files' = [files EXCEPT !.marker = TRUE,
                                     !.owned = IF files.marker THEN @ ELSE @ \ {"account"}]
    BY <1>7 DEF WriteCredential, InstallAccount, Write
  <2> QED BY <2>1, <1>1 DEF FilesRecord, Reopenable
<1>8. CASE RemoveProgram
  <2>1. /\ At("remove-opt")
        /\ \/ files' = files
           \/ \E v \in Version : files' = [files EXCEPT !.release[v] = None]
           \/ files' = [files EXCEPT !.current = None]
    BY <1>8 DEF RemoveProgram, Removing
  <2> QED BY <2>1, <1>1 DEF FilesRecord
<1>9. CASE RemoveRun
  <2>1. At("remove-run") /\ files' = [files EXCEPT !.directories = FALSE]
    BY <1>9 DEF RemoveRun, Removing
  <2> QED BY <2>1, <1>1 DEF FilesRecord
<1>10. CASE RemoveSettings
  <2>1. /\ At("remove-etc")
        /\ \/ files' = [files EXCEPT !.config = None]
           \/ files' = [files EXCEPT !.account = FALSE]
           \/ files' = [files EXCEPT !.marker = FALSE]
           \/ files' = [files EXCEPT !.access = None]
           \/ files' = [files EXCEPT !.owned = {}]
    BY <1>10 DEF RemoveSettings, Removing
  <2> QED BY <2>1, <1>1 DEF FilesRecord
<1>11. CASE RemoveState
  <2>1. files' = files \/ files' = [files EXCEPT !.backups = {}]
    BY <1>11 DEF RemoveState
  <2> QED BY <2>1, <1>1 DEF FilesRecord
<1>12. CASE SignUp \/ FinishSetup \/ LoseAccount
  <2>1. \/ files' = [files EXCEPT !.account = TRUE, !.marker = FALSE]
        \/ files' = [files EXCEPT !.marker = FALSE]
        \/ files' = [files EXCEPT !.account = FALSE]
    BY <1>12 DEF SignUp, FinishSetup, LoseAccount
  <2> QED BY <2>1, <1>1 DEF FilesRecord
<1>13. CASE EditConfig
  <2>1. /\ spent'.events > spent.events
        /\ \E c \in Config : files' = [files EXCEPT !.config = c]
    BY <1>13, <1>2 DEF EditConfig
  <2> QED BY <2>1, <1>1, ConfigAssumption DEF FilesRecord
<1>14. CASE Damage
  <2>1. /\ spent' # spent
        /\ \/ files' = [files EXCEPT !.current = None]
           \/ files' = [files EXCEPT !.directories = FALSE]
           \/ \E p \in Piece : files' = [files EXCEPT !.piece[p] = None]
    BY <1>14, <1>2 DEF Damage
  <2> QED BY <2>1, <1>1 DEF FilesRecord
<1> QED BY <1>3, <1>4, <1>5, <1>6, <1>7, <1>8, <1>9, <1>10, <1>11, <1>12, <1>13, <1>14,
           OnlyWritingWrites DEF Writing

(* What is due at its place in an uninstallation, nothing before it is.     *)
LEMMA StoppedByThen ==
  ASSUME IInv, NEW h \in {"remove-opt", "remove-run", "remove-etc"}, At(h)
  PROVE  /\ Removes /\ op # None /\ (h = "remove-etc" => op.plan.data)
         /\ system.running = None /\ ~system.enabled /\ ~system.helper
<1>1. /\ op # None /\ h \in Left(op.todo) /\ Nearest(h) /\ Removes /\ Kind = "other"
  BY RemovingFacts
<1>2. \A s \in {"halt-helper", "disable"} : ~Due(s)
  <2>1. "other" \in Kinds
    BY DEF Kinds
  <2>2. \A s \in {"halt-helper", "disable"} : Before("other", s, h)
    BY <2>1, Order
  <2>3. \A s \in {"halt-helper", "disable"} : s # h
    OBVIOUS
  <2>4. h \in Step /\ {"halt-helper", "disable"} \subseteq Step
    BY StepSet
  <2> QED BY <2>1, <2>2, <2>3, <2>4, <1>1, BeforeIsOrder DEF Due, Nearest
<1>3. h = "remove-etc" => op.plan.data
  BY <1>1 DEF IInv, Programmed, Due
<1> QED BY <1>1, <1>2, <1>3 DEF IInv, Taking

(* What an operation returns to was decided when it began.                  *)
AsPlanned == (op # None /\ ~Removes) => op.previous = op.plan.existing

(* Where there is neither a journal nor a backup no installation was ever   *)
(* completed, nor where one was planned without a journal.                  *)
Untold ==
  /\ (journal = None /\ files.backups = {}) => ~history.completed
  /\ (op # None /\ ~Removes /\ op.plan.snapshot = None) => ~history.completed

LEMMA PlanStays ==
  ASSUME IInv, [Next]_vars
  PROVE  \/ op' = None
         \/ /\ op # None /\ op'.plan = op.plan /\ op'.previous = op.previous
            /\ op'.previousSource = op.previousSource
         \/ op = None /\ (op'.plan.mode = "uninstall" \/ op'.previous = op'.plan.existing)
<1> DEFINE Unmoved == op' = op
           Onward == /\ op # None /\ op'.plan = op.plan /\ op'.previous = op.previous
                     /\ op'.previousSource = op.previousSource
<1>1. op \in Operation \cup {None}
  BY DEF IInv, TypeOK
<1>2. Unmoved => op' = None \/ Onward
  BY DEF Unmoved, Onward
<1>3. \A h : At(h) /\ Advance => Onward
  BY <1>1 DEF At, Advance, Onward, Operation
<1> HIDE DEF Unmoved, Onward
<1>4. CASE UNCHANGED vars
  BY <1>4, <1>2 DEF vars, Unmoved, Onward
<1>5. CASE \E o \in Operator : MakePlan(o) \/ Apply(o)
  <2>1. CASE \E o \in Operator : MakePlan(o)
    BY <2>1, <1>2 DEF MakePlan, Unmoved, Onward
  <2>2. CASE \E o \in Operator : Apply(o)
    <3>1. PICK o \in Operator : Apply(o)
      BY <2>2
    <3>2. op = None /\ (Unmoved \/ op'.plan.mode = "uninstall" \/ op'.previous = op'.plan.existing)
      BY <3>1 DEF Apply, Unlocked, Unmoved
    <3> QED BY <3>2, <1>2 DEF Onward
  <2> QED BY <1>5, <2>1, <2>2
<1>6. CASE Installation
  <2>1. CASE \/ \E h \in Phase \ {"complete"} : Record(h)
             \/ InstallPackages \/ Validate \/ CopyRelease \/ BackUp \/ \E p \in Piece : Integrate(p)
    <3>1. \E h : At(h) /\ Advance
      BY <2>1 DEF Record, InstallPackages, Validate, CopyRelease, BackUp, Integrate, Write
    <3> QED BY <3>1, <1>3 DEF Onward
  <2>2. CASE \/ MakeDirectories \/ Configure \/ InstallAccount \/ SetAccess \/ SetDropIn \/ RepairOwners
             \/ SetCurrent \/ RemoveCurrent
    <3>1. \E h : At(h) /\ Advance
      BY <2>2 DEF MakeDirectories, Configure, InstallAccount, SetAccess, SetDropIn, RepairOwners,
                  SetCurrent, RemoveCurrent, Write
    <3> QED BY <3>1, <1>3 DEF Onward
  <2>3. CASE \/ ActivateHelper \/ EnableUnits \/ RestartUnits \/ RequireActive
             \/ HaltHelper \/ HaltUnits \/ DisableUnits
    <3>1. \E h : At(h) /\ Advance
      BY <2>3 DEF ActivateHelper, EnableUnits, RestartUnits, RequireActive, HaltHelper, HaltUnits,
                  DisableUnits
    <3> QED BY <3>1, <1>3 DEF Onward
  <2>4. CASE ReloadUnits
    <3>1. At("reload") /\ (op' = [op EXCEPT !.todo = <<"undone">>] \/ Advance)
      BY <2>4 DEF ReloadUnits
    <3>2. op # None
      BY <3>1 DEF At
    <3> QED BY <3>1, <3>2, <1>1, <1>3 DEF Onward, Operation
  <2>5. CASE RecordComplete \/ RecordRollback
    BY <2>5 DEF RecordComplete, RecordRollback
  <2>6. CASE WriteCredential
    BY <2>6, <1>2 DEF WriteCredential, Unmoved
  <2> QED BY <1>6, <2>1, <2>2, <2>3, <2>4, <2>5, <2>6 DEF Installation
<1>7. CASE Removal
  <2>1. CASE Strip \/ RemoveProgram \/ RemoveRun \/ ForgetUnits \/ RemoveSettings
    <3>1. Unmoved \/ \E h : At(h) /\ Advance
      BY <2>1 DEF Strip, RemoveProgram, RemoveRun, ForgetUnits, RemoveSettings, Unmoved
    <3> QED BY <3>1, <1>2, <1>3 DEF Onward
  <2>2. CASE RemoveState \/ RecordUninstalled
    BY <2>2, <1>2 DEF RemoveState, RecordUninstalled, Unmoved, Onward
  <2> QED BY <1>7, <2>1, <2>2 DEF Removal
<1>8. CASE Host
  <2>1. CASE RollbackStepFails
    BY <2>1, <1>1 DEF RollbackStepFails, Onward, Operation
  <2>2. CASE ActivationFails
    BY <2>2, <1>1 DEF ActivationFails, Onward, Operation
  <2>3. CASE SignUp \/ FinishSetup \/ EditConfig \/ Damage \/ LoseAccount
    BY <2>3, <1>2 DEF SignUp, FinishSetup, EditConfig, Damage, LoseAccount, Unmoved, Onward
  <2>4. CASE OperationFails \/ Crash \/ Reboot
    BY <2>4 DEF OperationFails, Crash, Reboot
  <2> QED BY <1>8, <2>1, <2>2, <2>3, <2>4 DEF Host
<1> QED BY <1>4, <1>5, <1>6, <1>7, <1>8 DEF Next

(* A journal that is written is there.                                      *)
LEMMA JournalWritten ==
  ASSUME IInv,
         \/ \E h \in Phase \ {"complete"} : Record(h)
         \/ RecordComplete \/ RecordRollback \/ RecordUninstalled
  PROVE  journal' # None
<1>1. TypeOK /\ Programmed /\ Recorded
  BY DEF IInv
<1>2. ASSUME NEW phase \in Phase \cup {"uninstalled"}, NEW target \in Version \cup {None},
             NEW installed \in Version \cup {None}, NEW previous \in Version \cup {None},
             NEW source \in Artifact \cup {None}, NEW previousSource \in Artifact \cup {None}
      PROVE  Journal(phase, target, installed, previous, source, previousSource) # None
  <2>1. Journal(phase, target, installed, previous, source, previousSource) \in JournalRecord
    BY <1>2 DEF Journal, JournalRecord
  <2> QED BY <2>1, NoneAssumption
<1>3. ASSUME op # None, op.plan \in Plan
      PROVE  /\ op.plan.artifact.version \in Version /\ op.plan.artifact \in Artifact
             /\ op.previous \in Version \cup {None} /\ op.previousSource \in Artifact \cup {None}
  BY <1>1, <1>3, OperationTyped DEF Plan, Version
<1>4. CASE \E h \in Phase \ {"complete"} : Record(h)
  <2>1. PICK h \in Phase \ {"complete"} : Record(h)
    BY <1>4
  <2>2. At(h) /\ journal' = Established(h)
    BY <2>1 DEF Record
  <2>3. op # None /\ op.plan \in Plan
    BY <2>1, <2>2, Recording
  <2> QED BY <2>2, <2>3, <1>2, <1>3 DEF Established
<1>5. CASE RecordComplete
  <2>1. /\ At("complete") /\ "complete" \in Phase
        /\ journal' = [Established("complete") EXCEPT !.installed = op.plan.artifact.version]
    BY <1>5, PhaseSet DEF RecordComplete
  <2>2. op # None /\ op.plan \in Plan
    BY <2>1, Recording
  <2>3. journal' = Journal("complete", op.plan.artifact.version, op.plan.artifact.version, op.previous,
                           op.plan.artifact, op.previousSource)
    BY <2>1 DEF Established, Journal
  <2> QED BY <2>1, <2>2, <2>3, <1>2, <1>3
<1>6. CASE RecordRollback
  <2>1. /\ At("undone") /\ "release" \in Phase /\ "complete" \in Phase
        /\ journal' = IF op.plan.mode = "repair"
                      THEN IF op.failed THEN journal ELSE op.plan.snapshot
                      ELSE IF op.previous # None /\ ~op.failed
                      THEN Journal("complete", op.previous, op.previous, op.previous,
                                   op.previousSource, op.previousSource)
                      ELSE Established("release")
    BY <1>6, PhaseSet DEF RecordRollback
  <2>2. op # None /\ "undone" \in Left(op.todo)
    BY <2>1, <1>1, HeadIsNearest DEF At
  <2>3. ~Removes /\ ~Repairs /\ ~Advancing /\ op.plan \in Plan
    BY <2>2, <1>1, OperationTyped, PhaseSet
       DEF Programmed, RemovalSteps, MendingSteps, LayingSteps, StartingSteps
  <2>4. op.undo
    BY <2>2, <2>3, <1>1, OperationTyped DEF Plan, Repairs, Advancing
  <2>5. Unfinished
    BY <2>2, <2>3, <2>4, <1>1 DEF Recorded
  <2>6. op.plan.mode = "repair" => op.plan.snapshot # None
    BY <2>2, <1>1 DEF Recorded, PlanSound
  <2>7. journal # None
    BY <2>5 DEF Unfinished
  <2> QED BY <2>1, <2>2, <2>3, <2>6, <2>7, <1>2, <1>3 DEF Established
<1>7. CASE RecordUninstalled
  <2> DEFINE last == IF journal.installed # None THEN journal.installed ELSE journal.previous
             bound == IF last = None THEN None
                      ELSE IF Unfinished THEN journal.previousSource ELSE journal.source
  <2>1. At("uninstalled") /\ journal' = Journal("uninstalled", None, None, last, bound, None)
    BY <1>7 DEF RecordUninstalled
  <2>2. op # None /\ "uninstalled" \in Left(op.todo) /\ Removes
    BY <2>1, RemovingFacts
  <2>3. journal \in JournalRecord
    BY <2>2, <1>1 DEF IInv, Taking, Due, TypeOK
  <2>4. last \in Version \cup {None} /\ bound \in Artifact \cup {None}
    BY <2>3 DEF JournalRecord
  <2> QED BY <2>1, <2>4, <1>2
<1> QED BY <1>4, <1>5, <1>6, <1>7

(* What there is of the data says more than what is remembered of it, but   *)
(* for the last entry of it to be removed, and for a first completion.      *)
LEMMA DataTells ==
  ASSUME IInv, [Next]_vars
  PROVE  \/ journal' # None /\ history'.completed = history.completed
         \/ journal' # None /\ op' = None
         \/ ~history'.completed
         \/ /\ history'.completed = history.completed
            /\ journal' = None => journal = None \/ files'.backups # {}
            /\ files'.backups = {} => files.backups = {} \/ journal' # None
<1>1. /\ history \in [completed: BOOLEAN, established: BOOLEAN, consent: BOOLEAN, undone: BOOLEAN,
                      damaged: BOOLEAN, lost: BOOLEAN, removing: BOOLEAN, contested: BOOLEAN]
      /\ files \in FilesRecord
  BY DEF IInv, TypeOK
<1> DEFINE Told == /\ journal' = journal /\ history'.completed = history.completed
                   /\ files'.backups = {} => files.backups = {}
<1>2. CASE UNCHANGED vars
  BY <1>2 DEF vars
<1>3. CASE \E o \in Operator : MakePlan(o) \/ Apply(o)
  <2>1. Told
    BY <1>1, <1>3 DEF MakePlan, Apply
  <2> QED BY <2>1
<1>4. CASE Installation
  <2>1. CASE \E h \in Phase \ {"complete"} : Record(h)
    <3>1. history'.completed = history.completed
      BY <1>1, <2>1 DEF Record
    <3> QED BY <2>1, <3>1, JournalWritten
  <2>2. CASE RecordComplete
    BY <2>2, JournalWritten DEF RecordComplete
  <2>3. CASE RecordRollback
    BY <2>3, JournalWritten DEF RecordRollback
  <2>4. CASE \/ InstallPackages \/ Validate \/ CopyRelease \/ (\E p \in Piece : Integrate(p))
             \/ MakeDirectories \/ Configure \/ WriteCredential \/ InstallAccount
             \/ SetAccess \/ SetDropIn \/ RepairOwners \/ SetCurrent \/ RemoveCurrent
    <3>1. journal' = journal /\ history' = history /\ files'.backups = files.backups
      BY <1>1, <2>4 DEF InstallPackages, Validate, CopyRelease, Integrate, MakeDirectories, Configure,
                        WriteCredential, InstallAccount, SetAccess, SetDropIn, RepairOwners, SetCurrent,
                        RemoveCurrent, Write, FilesRecord
    <3> QED BY <3>1
  <2>5. CASE BackUp
    <3>1. journal' = journal /\ history' = history
          /\ files' \in {files, [files EXCEPT !.backups = @ \cup {Backup}]}
      BY <2>5 DEF BackUp, Write
    <3> QED BY <3>1, <1>1 DEF FilesRecord
  <2>6. CASE \/ ReloadUnits \/ ActivateHelper \/ EnableUnits \/ RestartUnits \/ RequireActive
             \/ HaltHelper \/ HaltUnits \/ DisableUnits
    <3>1. UNCHANGED <<journal, files, history>>
      BY <2>6 DEF ReloadUnits, ActivateHelper, EnableUnits, RestartUnits, RequireActive, HaltHelper,
                  HaltUnits, DisableUnits, Systemd
    <3> QED BY <3>1
  <2> QED BY <1>4, <2>1, <2>2, <2>3, <2>4, <2>5, <2>6 DEF Installation
<1>5. CASE Removal
  <2>1. CASE Strip \/ RemoveProgram \/ RemoveRun \/ RemoveSettings
    <3>1. journal' = journal /\ history' = history /\ files'.backups = files.backups
      BY <1>1, <2>1 DEF Strip, RemoveProgram, RemoveRun, RemoveSettings, Removing, FilesRecord
    <3> QED BY <3>1
  <2>2. CASE ForgetUnits
    BY <2>2 DEF ForgetUnits, Systemd
  <2>3. CASE RemoveState
    <3>1. /\ journal' \in {journal, None}
          /\ history' = IF files'.backups = {} /\ journal' = None THEN Purged ELSE history
      BY <2>3 DEF RemoveState
    <3> QED BY <3>1 DEF Purged
  <2>4. CASE RecordUninstalled
    <3>1. history'.completed = history.completed
      BY <1>1, <2>4 DEF RecordUninstalled
    <3> QED BY <2>4, <3>1, JournalWritten
  <2> QED BY <1>5, <2>1, <2>2, <2>3, <2>4 DEF Removal
<1>6. CASE Host
  <2>1. journal' = journal /\ history'.completed = history.completed
    BY <1>1, <1>6 DEF Host, RollbackStepFails, ActivationFails, OperationFails, Crash, Reboot, SignUp,
                      FinishSetup, EditConfig, Damage, LoseAccount, Happens
  <2>2. CASE UNCHANGED files
    BY <2>1, <2>2
  <2>3. CASE OperationFails \/ SignUp \/ FinishSetup \/ EditConfig \/ Damage \/ LoseAccount
    <3>1. OperationFails => files'.backups = files.backups
      BY <1>1 DEF OperationFails, FilesRecord
    <3>2. SignUp \/ FinishSetup \/ LoseAccount => files'.backups = files.backups
      BY <1>1 DEF SignUp, FinishSetup, LoseAccount, FilesRecord
    <3>3. EditConfig => files'.backups = files.backups
      BY <1>1 DEF EditConfig, FilesRecord
    <3>4. Damage => files'.backups = files.backups
      BY <1>1 DEF Damage, FilesRecord
    <3> QED BY <2>1, <2>3, <3>1, <3>2, <3>3, <3>4
  <2>4. RollbackStepFails \/ ActivationFails \/ Crash \/ Reboot => UNCHANGED files
    BY DEF RollbackStepFails, ActivationFails, Crash, Reboot
  <2> QED BY <1>6, <2>2, <2>3, <2>4 DEF Host
<1> QED BY <1>2, <1>3, <1>4, <1>5, <1>6 DEF Next

(* Only an operation that is applied begins one.                            *)
LEMMA OnlyApplyBegins ==
  ASSUME [Next]_vars, op = None, op' # None PROVE \E o \in Operator : Apply(o)
<1>1. ~UNCHANGED vars
  BY DEF vars
<1>2. ~Installation
  BY DEF Installation, Record, RecordComplete, InstallPackages, Validate, CopyRelease, BackUp,
         Integrate, MakeDirectories, Configure, WriteCredential, InstallAccount, SetAccess, SetDropIn,
         RepairOwners, SetCurrent, RemoveCurrent, ReloadUnits, ActivateHelper, EnableUnits,
         RestartUnits, RequireActive, HaltHelper, HaltUnits, DisableUnits, RecordRollback, At
<1>3. ~Removal
  BY DEF Removal, Strip, RemoveProgram, RemoveRun, ForgetUnits, RemoveSettings, RemoveState,
         RecordUninstalled, At
<1>4. ~Host
  BY DEF Host, RollbackStepFails, ActivationFails, OperationFails, Crash, Reboot, SignUp, FinishSetup,
         EditConfig, Damage, LoseAccount
<1>5. \A o \in Operator : ~MakePlan(o)
  BY DEF MakePlan
<1> QED BY <1>1, <1>2, <1>3, <1>4, <1>5 DEF Next

LEMMA UntoldStays ==
  ASSUME IInv, Untold, [Next]_vars PROVE Untold'
<1>1. ASSUME op' # None, op'.plan.mode # "uninstall", op'.plan.snapshot = None
      PROVE  ~history.completed
  <2>1. CASE op # None /\ op'.plan = op.plan
    BY <1>1, <2>1 DEF Untold, Removes
  <2>2. CASE op = None
    <3>1. PICK o \in Operator : Apply(o)
      BY <1>1, <2>2, OnlyApplyBegins
    <3>2. plans[o].snapshot = journal /\ ~Conflicts /\ op'.plan = plans[o]
      BY <1>1, <2>2, <3>1 DEF Apply, StillAsPlanned
    <3>3. journal = None /\ files.backups = {}
      BY <1>1, <3>2 DEF Conflicts, DataPresent
    <3> QED BY <3>3 DEF Untold
  <2> QED BY <1>1, <2>1, <2>2, PlanStays
<1>2. (op' # None /\ ~Removes' /\ op'.plan.snapshot = None) => ~history'.completed
  <2> SUFFICES ASSUME op' # None, op'.plan.mode # "uninstall", op'.plan.snapshot = None
               PROVE  ~history'.completed
    BY DEF Removes
  <2> QED BY <1>1, DataTells
<1>3. (journal' = None /\ files'.backups = {}) => ~history'.completed
  BY DataTells DEF Untold
<1> QED BY <1>2, <1>3 DEF Untold

LEMMA PreviousAsPlanned == Spec => [](IInv /\ AsPlanned /\ Untold)
<1>1. Init => IInv /\ AsPlanned /\ Untold
  <2> SUFFICES ASSUME Init PROVE IInv /\ AsPlanned /\ Untold
    OBVIOUS
  <2>1. IInv /\ op = None
    BY Initially DEF Init
  <2>2. journal = None => ~history.completed
    <3>1. CASE scenario.installed = None
      BY <3>1 DEF Init, Purged
    <3>2. CASE scenario.installed # None
      <4> DEFINE a == scenario.installed
      <4>1. a \in Artifact /\ a.version \in Version
        BY <3>2, ScenarioAssumption DEF Init, Scenario, Version
      <4>2. journal = Journal("complete", a.version, a.version, None, a, None)
        BY <3>2 DEF Init
      <4>3. journal \in JournalRecord
        BY <4>1, <4>2, PhaseSet DEF Journal, JournalRecord
      <4> QED BY <4>3, NoneAssumption
    <3> QED BY <3>1, <3>2
  <2> QED BY <2>1, <2>2 DEF AsPlanned, Untold
<1>2. IInv /\ AsPlanned /\ Untold /\ [Next]_vars => IInv' /\ AsPlanned' /\ Untold'
  BY Invariance, PlanStays, UntoldStays DEF AsPlanned, Removes
<1> QED BY <1>1, <1>2, PTL DEF Spec

-----------------------------------------------------------------------------
(* What no step ever does.                                                  *)

(* The configuration is replaced by the media service and removed with the  *)
(* data (_remove_tree of /etc), not by an installation, resume or rollback. *)
THEOREM ConfigurationKept == Spec => ConfigKept
<1>1. IInv /\ [Next]_vars =>
        [(files.config # None /\ files'.config # files.config) =>
           \/ files'.config = None /\ op # None /\ op.plan.data
           \/ spent'.events > spent.events]_vars
  <2> SUFFICES ASSUME IInv, [Next]_vars, files.config # None, files'.config # files.config
               PROVE  \/ files'.config = None /\ op # None /\ op.plan.data
                      \/ spent'.events > spent.events
    OBVIOUS
  <2>1. \/ At("remove-etc") /\ files'.config = None
        \/ spent'.events > spent.events
    BY Touching
  <2>2. At("remove-etc") => op # None /\ op.plan.data
    BY StoppedByThen
  <2> QED BY <2>1, <2>2
<1> QED BY <1>1, Invariant, PTL DEF Spec, ConfigKept

(* A completed installation never opens account creation again, though the  *)
(* account is lost at any moment; after an uninstallation that kept the     *)
(* data only a resumed reinstallation does (_install_account).              *)
THEOREM RegistrationClosed == Spec => RegistrationStaysClosed
<1>1. IInv /\ AsPlanned /\ Untold /\ [Next]_vars =>
        [(~files.marker /\ files'.marker) =>
           \/ ~history.completed
           \/ ~history.established /\ op.plan.mode = "resume"]_vars
  <2> SUFFICES ASSUME IInv, AsPlanned, Untold, [Next]_vars, ~files.marker, files'.marker,
                      history.completed
               PROVE  ~history.established /\ op.plan.mode = "resume"
    OBVIOUS
  <2>1. op # None /\ Head(op.todo) = "account" /\ NeverInstalled(op.plan.snapshot)
    BY Touching DEF At
  <2>2. ~Removes
    BY <2>1, HeadIsNearest DEF IInv, Programmed, RemovalSteps
  <2>3. op.plan \in Plan /\ PlanSound(op.plan)
    BY <2>1, <2>2, OperationTyped DEF IInv, Recorded
  <2>4. op.plan.existing = None
    BY <2>1, <2>3 DEF PlanSound, Plan, NeverInstalled
  <2>5. op.previous = None
    BY <2>1, <2>2, <2>4 DEF AsPlanned
  <2>6. ~history.established
    BY <2>1, <2>2, <2>5 DEF IInv, AccountKept
  <2>7. op.plan.snapshot # None
    BY <2>1, <2>2 DEF Untold
  <2>8. op.plan.mode = "resume"
    BY <2>1, <2>3, <2>7 DEF PlanSound, Plan, NeverInstalled
  <2> QED BY <2>6, <2>8
<1> QED BY <1>1, PreviousAsPlanned, PTL DEF Spec, RegistrationStaysClosed

(* An uninstallation removes a release, the directories or the settings     *)
(* only once no service runs or can be started again (_stop_services).      *)
THEOREM RemovedWhenStopped == Spec => StoppedBeforeRemoval
<1>1. IInv /\ [Next]_vars =>
        [(\/ \E v \in Version : files.release[v] # None /\ files'.release[v] = None
          \/ files.directories /\ ~files'.directories /\ spent' = spent
          \/ files.config # None /\ files'.config = None) =>
           system.running = None /\ ~system.enabled /\ ~system.helper]_vars
  BY Touching, StoppedByThen
<1> QED BY <1>1, Invariant, PTL DEF Spec, StoppedBeforeRemoval
====
