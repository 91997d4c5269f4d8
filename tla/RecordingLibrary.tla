--------------------------- MODULE RecordingLibrary ---------------------------
(* The recordings as the control clients list, read, check, recover and     *)
(* delete them (recording_library.py), against a recorder that does not     *)
(* wait for them. Listing and reading take no lock; deleting and starting a *)
(* check or a recovery hold the operation lock; a worker runs on its own.   *)
(*                                                                           *)
(* A file id stands for directory, name and version of the file it was      *)
(* given for.                                                               *)
EXTENDS ConfigControl, SequencesExt

CONSTANTS FilesMax, ChecksMax   \* 256 and 128

ASSUME LimitsAssumption == FilesMax \in Nat \ {0} /\ ChecksMax \in Nat \ {0}

VARIABLES
  files,     \* _files: the ids that are known, least recently used first
  checks,    \* _checks: the outcome of each check or recovery, likewise
  checking,  \* _checking
  worker,    \* the check or recovery that runs, or None
  reading    \* one storage.read

libraryVars == <<files, checks, checking, worker, reading>>

Id == [dir: Directory, name: Name \ {Partial}, version: Nat]
ASSUME IdAssumption == None \notin Id

Outcome == {"checking", "recovering", "unavailable", "passed", "recovered", "failed", "cancelled", "timeout"}

Root == active.config.directory
Reachable == Destination(storage) \in {"ok", "storage_threshold", "not_writable"}

Busy == RecordingActive \/ session.listed # {} \/ session.pending

(* Fault: the files on the list are all there is.                           *)
ProtectedListed(n) == n \in session.listed \/ session.current = n

Protected(n) ==
  \/ session.pending
  \/ session.recording \in {"starting", "stopping"}
  \/ n \in session.listed
  \/ IF session.current # None THEN session.current = n ELSE RecordingActive

Listed(id) == {i \in 1 .. Len(files) : files[i] = id}
Known(id) == Listed(id) # {}
Checked(id) == {i \in 1 .. Len(checks) : checks[i].id = id}

(* Without what stands at a place; and with something at the end, where the *)
(* first leaves at the limit.                                               *)
Without(sequence, places) ==
  IF places = {} THEN sequence ELSE RemoveAt(sequence, CHOOSE i \in places : TRUE)
Bounded(sequence, max) == IF Len(sequence) > max THEN Tail(sequence) ELSE sequence

(* Fault: the oldest outcome makes room after the new one was noted first.  *)
NotedFirst(check) == Bounded(<<check>> \o Without(checks, Checked(check.id)), ChecksMax)

(* The outcome of an id, at the end.                                        *)
Noted(check) == Bounded(Append(Without(checks, Checked(check.id)), check), ChecksMax)

(* _regular, and the version the id was given for.                          *)
Stands(id) ==
  disk[id.name] # None /\ disk[id.name].dir = id.dir
    /\ disk[id.name].links = 1 /\ disk[id.name].version = id.version

Openable(id) == Known(id) /\ Reachable /\ id.dir = Root /\ Stands(id)

-----------------------------------------------------------------------------
(* One row of a listing: what is shown of it binds nobody.                  *)
Register ==
  /\ session.service # "down" /\ Reachable
  /\ \E n \in Name \ {Partial} :
       /\ disk[n] # None /\ disk[n].dir = Root /\ disk[n].links = 1
       /\ LET id == [dir |-> Root, name |-> n, version |-> disk[n].version]
          IN files' = Bounded(Append(Without(files, Listed(id)), id), FilesMax)
       /\ files' # files
  /\ UNCHANGED <<sessionVars, configVars, operation, checks, checking, worker, reading, spent, scenario>>

Library(r) ==
  /\ reading' = r
  /\ UNCHANGED <<sessionVars, configVars, operation, files, checks, checking, worker, scenario>>

BeginRead ==
  /\ session.service # "down"
  /\ Spend("reads", scenario.reads)
  /\ \E i \in 1 .. Len(files) :
       Openable(files[i]) /\ Library([id |-> files[i], step |-> "opened"])

ExamineRead ==
  /\ reading # None /\ reading.step = "opened"
  /\ Library(IF Protected(reading.id.name) THEN None ELSE [reading EXCEPT !.step = "allowed"])
  /\ UNCHANGED spent

(* The bytes are there also if the name is gone; the version is compared.   *)
FinishRead ==
  /\ reading # None /\ reading.step = "allowed"
  /\ Library(IF Stands(reading.id) THEN [reading EXCEPT !.step = "read"] ELSE None)
  /\ UNCHANGED spent

-----------------------------------------------------------------------------
(* Under the operation lock: open, examine, act.                            *)

(* Bound: one copy of a fragment, and one partial copy, at a time.          *)
Recoverable(n) == n \in Fragment /\ disk[CopyOf(n)] = None /\ disk[Partial] = None

BeginMutation ==
  /\ Unlocked
  /\ \E i \in 1 .. Len(files), kind \in scenario.mutations :
       /\ Openable(files[i])
       /\ kind = "recover" => Recoverable(files[i].name)
       /\ Spend("mutations", scenario.mutating)
       /\ operation' = [kind |-> kind, id |-> files[i], step |-> "opened"]
  /\ UNCHANGED <<sessionVars, configVars, libraryVars, scenario>>

Mutating(kinds, step) ==
  operation # None /\ operation.kind \in kinds /\ operation.step = step /\ session.service # "down"
Refuse == operation' = None /\ UNCHANGED <<disk, libraryVars>>
Allow ==
  /\ operation' = [kind |-> operation.kind, id |-> operation.id, step |-> "allowed"]
  /\ UNCHANGED <<disk, libraryVars>>
Mutation == UNCHANGED <<session, storage, configVars, spent, scenario>>

ExamineDelete ==
  /\ Mutating({"delete"}, "opened")
  /\ IF checking = operation.id \/ Protected(operation.id.name) THEN Refuse ELSE Allow
  /\ Mutation

Delete ==
  /\ Mutating({"delete"}, "allowed")
  /\ IF ~Stands(operation.id) THEN Refuse
     ELSE /\ disk' = [disk EXCEPT ![operation.id.name] = None]
          /\ files' = Without(files, Listed(operation.id))
          /\ checks' = Without(checks, Checked(operation.id))
          /\ operation' = None
          /\ UNCHANGED <<checking, worker, reading>>
  /\ Mutation

ExamineWork ==
  /\ Mutating({"check", "recover"}, "opened")
  /\ IF Protected(operation.id.name) \/ Busy THEN Refuse ELSE Allow
  /\ Mutation

Begun(action) ==
  IF ~scenario.tools THEN "unavailable" ELSE IF action = "check" THEN "checking" ELSE "recovering"

StartWork ==
  /\ Mutating({"check", "recover"}, "allowed")
  /\ IF \/ checking # None
        \/ operation.kind = "recover" /\ scenario.tools /\ Destination(storage) # "ok"
     THEN Refuse
     ELSE /\ checks' = Noted([id |-> operation.id, state |-> Begun(operation.kind), copy |-> None])
          /\ IF scenario.tools
             THEN /\ checking' = operation.id
                  /\ worker' = [action |-> operation.kind, id |-> operation.id, dir |-> Root,
                                step |-> "begun"]
             ELSE UNCHANGED <<checking, worker>>
          /\ operation' = None
          /\ UNCHANGED <<disk, files, reading>>
  /\ Mutation

-----------------------------------------------------------------------------
(* The worker.                                                              *)

Working(action, step) == worker # None /\ worker.action = action /\ worker.step = step

Ends(outcome, copy) ==
  /\ checks' = LET check == [id |-> worker.id, state |-> outcome, copy |-> copy]
               IN IF Checked(worker.id) = {} THEN Append(checks, check)
                  ELSE [i \in 1 .. Len(checks) |-> IF i \in Checked(worker.id) THEN check ELSE checks[i]]
  /\ checking' = None
  /\ worker' = None

Work == UNCHANGED <<session, storage, configVars, operation, files, reading, spent, scenario>>

(* The decoder is asked every second whether it has ended; first whether a  *)
(* recording has started.                                                   *)
CheckEnds ==
  /\ Working("check", "begun")
  /\ \/ Busy /\ Ends("cancelled", None)
     \/ Ends("timeout", None)
     \/ Ends("failed", None)
     \/ disk[worker.id.name] # None /\ disk[worker.id.name].version = worker.id.version
          /\ Ends("passed", None)
  /\ UNCHANGED disk
  /\ Work

(* Fault: the file is not compared with the one that was asked for.         *)
GuardedUnbound ==
  /\ ~Busy
  /\ active.config.directory = worker.dir
  /\ Destination(storage) = "ok"

(* Before, during and after each run of the decoder.                        *)
Guarded ==
  /\ ~Busy
  /\ active.config.directory = worker.dir
  /\ Destination(storage) = "ok"
  /\ Stands(worker.id)

Advances(step) == worker' = [worker EXCEPT !.step = step] /\ UNCHANGED <<checks, checking>>

RecoverCreates ==
  /\ Working("recover", "begun") /\ Guarded
  /\ disk' = [disk EXCEPT ![Partial] = [dir |-> worker.dir, version |-> 1, links |-> 1, whole |-> FALSE]]
  /\ Advances("created")
  /\ Work

(* Decoded, its format and checksum compared, and synchronized.             *)
RecoverValidates ==
  /\ Working("recover", "created") /\ Guarded
  /\ disk' = [disk EXCEPT ![Partial].whole = TRUE]
  /\ Advances("validated")
  /\ Work

Target == CopyOf(worker.id.name)

(* The last guard was passed; nothing is overwritten.                       *)
RecoverPublishes ==
  /\ Working("recover", "validated")
  /\ disk' = [disk EXCEPT ![Partial].links = 2, ![Partial].version = 2,
                          ![Target] = [disk[Partial] EXCEPT !.links = 2, !.version = 2]]
  /\ Advances("linked")
  /\ Work

RecoverCompletes ==
  /\ Working("recover", "linked")
  /\ disk' = [disk EXCEPT ![Partial] = None, ![Target].links = 1, ![Target].version = 3]
  /\ Ends("recovered", Target)
  /\ Work

(* The partial copy cannot be removed: the link is taken back, or if that   *)
(* fails reported; removing the partial copy is tried once more.            *)
RecoverWithdraws ==
  /\ Working("recover", "linked")
  /\ \E undone, cleaned \in BOOLEAN :
       /\ disk' = [disk EXCEPT
                    ![Target] = IF undone THEN None
                                ELSE [@ EXCEPT !.links = IF cleaned THEN 1 ELSE 2, !.version = 3],
                    ![Partial] = IF cleaned THEN None ELSE [@ EXCEPT !.links = IF undone THEN 1 ELSE 2]]
       /\ Ends("failed", IF undone THEN None ELSE Target)
  /\ UNCHANGED <<session, storage, configVars, operation, files, reading, scenario>>
  /\ Spend("failures", scenario.failures)

(* A guard, the decoder or the disk ends it; the partial copy is removed, or*)
(* stays hidden.                                                            *)
RecoverFails ==
  /\ worker # None /\ worker.action = "recover" /\ worker.step # "linked"
  /\ \E outcome \in {"failed", "cancelled", "timeout"} :
       /\ outcome = "cancelled" => ~Guarded
       /\ outcome = "timeout" => worker.step # "validated"
       /\ Ends(outcome, None)
  /\ \/ disk' = [disk EXCEPT ![Partial] = None] /\ UNCHANGED spent
     \/ worker.step # "begun" /\ UNCHANGED disk /\ Spend("failures", scenario.failures)
  /\ UNCHANGED <<session, storage, configVars, operation, files, reading, scenario>>

LibraryInit ==
  files = <<>> /\ checks = <<>> /\ checking = None /\ worker = None /\ reading = None

(* Whatever the process kept is gone; ids are keyed anew by each one.       *)
LibraryEnds ==
  files' = <<>> /\ checks' = <<>> /\ checking' = None /\ worker' = None /\ reading' = None

LibraryStep ==
  \/ Register \/ BeginRead \/ ExamineRead \/ FinishRead
  \/ BeginMutation \/ ExamineDelete \/ Delete \/ ExamineWork \/ StartWork
  \/ CheckEnds \/ RecoverCreates \/ RecoverValidates \/ RecoverPublishes
  \/ RecoverCompletes \/ RecoverWithdraws \/ RecoverFails
=============================================================================
