---------------------------- MODULE ConfigControl ----------------------------
(* The configuration behind the control operations (media_control.py): read *)
(* and replaced by clients with the revision they saw, written atomically,  *)
(* applied live or left for a restart of the service.                       *)
(*                                                                           *)
(* operation is what holds the operation lock; the library's deletions and  *)
(* workers take the same one. A file and its revision are one thing here, a *)
(* document: the revision is the digest of the bytes, and form tells a file *)
(* the installer wrote from the handler's own.                              *)
EXTENDS MediaSession

CONSTANTS
  Client,
  Base,      \* records: what only a restart applies (capture, stream, monitoring)
  Bitrate,
  Secret     \* passphrases

ASSUME BaseAssumption ==
  \A b \in Base : /\ {b.device, b.mode, b.validated} \subseteq BOOLEAN
                  /\ {b.enabled, b.represented, b.suits, b.addressed, b.inRange} \subseteq BOOLEAN
                  /\ b.updates \in Nat /\ b.bands \in Nat

ASSUME SecretAssumption == None \notin Secret /\ "keep" \notin Secret /\ "clear" \notin Secret

Config == [base: Base, bitrate: Bitrate, directory: Directory, secret: Secret \cup {None}]
Document == [config: Config, form: {"given", "written"}]
UpdateOperation ==
  [kind: {"update"}, client: Client, config: Config, kept: BOOLEAN, step: {"replace", "sync", "apply"}]

ASSUME NoneAssumption == None \notin UpdateOperation

VARIABLES
  file,       \* the document in the file
  safe,       \* the documents a loss of power may leave in it
  saved,      \* _saved_config and _revision
  active,     \* _active_config and _active_revision
  engine,     \* the configuration the runtime and the engine use
  torn,       \* a rollback of it has failed
  operation,  \* what holds the operation lock
  known       \* the document each client has read or written last

configVars == <<file, safe, saved, active, engine, torn, known>>

-----------------------------------------------------------------------------
(* A configuration is validated on its own and against the audio evidence.  *)

CaptureValid(b) == b.device <=> b.mode
StreamValid(b) == b.inRange /\ (b.enabled => b.represented /\ b.addressed)
MonitoringValid(b) == b.updates <= 60 /\ b.bands \in 64 .. 2048
(* The device and mode are validated, and the representation for that mode. *)
CombinationValid(b) ==
  IF ~b.device /\ ~b.mode THEN ~b.enabled /\ ~b.represented
  ELSE b.device /\ b.mode /\ b.validated /\ (b.represented => b.suits)

Valid(config) ==
  /\ CaptureValid(config.base) /\ StreamValid(config.base) /\ MonitoringValid(config.base)
  /\ CombinationValid(config.base)

RequiresRestart(config) ==
  \/ active.config.base # config.base
  \/ active.config.secret # config.secret

KeptSecret == saved.config.secret

(* What a client offers; it may keep or clear the passphrase it never sees. *)
Offer == [base: Base, bitrate: Bitrate, directory: Directory, secret: Secret \cup {"keep", "clear"}]

Internal(offer) ==
  [offer EXCEPT !.secret = CASE @ = "keep" -> KeptSecret
                             [] @ = "clear" -> None
                             [] OTHER -> @]

Written(config) == [config |-> config, form |-> "written"]

Unlocked == Up /\ operation = None
Updating(step) ==
  operation # None /\ operation.kind = "update" /\ operation.step = step /\ session.service # "down"
Finished == operation' = None /\ UNCHANGED <<session, disk, storage>>

-----------------------------------------------------------------------------
GetConfig(c) ==
  /\ Unlocked
  /\ known' = [known EXCEPT ![c] = saved]
  /\ UNCHANGED <<sessionVars, file, safe, saved, active, engine, torn, operation, spent, scenario>>

(* Fault: the revision is not compared.                                     *)
CurrentAny(c) == TRUE
Current(c) == known[c] = saved

(* Every refusal leaves all as it was. What requires a restart is submitted *)
(* with its confirmation.                                                   *)
AdmitUpdate(c) ==
  /\ Unlocked
  /\ Current(c)
  /\ Spend("updates", scenario.updates)
  /\ \E offer \in scenario.offers :
       LET config == Internal(offer)
       IN /\ Valid(config)
          /\ config.directory # active.config.directory => ~RecordingActive
          /\ config # saved.config
          /\ operation' = [kind |-> "update", client |-> c, config |-> config,
                           kept |-> offer.secret = "keep", step |-> "replace"]
  /\ UNCHANGED <<sessionVars, configVars, scenario>>

(* Written to a temporary file, synchronized and renamed: whole, or not yet.*)
ReplaceFile ==
  /\ Updating("replace")
  /\ file' = Written(operation.config)
  /\ safe' = safe \cup {file'}
  /\ operation' = [operation EXCEPT !.step = "sync"]
  /\ UNCHANGED <<sessionVars, saved, active, engine, torn, known, spent, scenario>>

ReplaceFails ==
  /\ Updating("replace")
  /\ Spend("failures", scenario.failures)
  /\ Finished
  /\ UNCHANGED <<configVars, scenario>>

Told == known' \in {known, [known EXCEPT ![operation.client] = file]}

SyncDirectory ==
  /\ Updating("sync")
  /\ safe' = {file}
  /\ saved' = file
  /\ IF RequiresRestart(file.config)
     THEN Finished /\ Told
     ELSE /\ operation' = [operation EXCEPT !.step = "apply"]
          /\ UNCHANGED <<session, disk, storage, known>>
  /\ UNCHANGED <<file, active, engine, torn, spent, scenario>>

(* ConfigCommitUncertain: replaced, but perhaps not for good.               *)
SyncFails ==
  /\ Updating("sync")
  /\ Spend("failures", scenario.failures)
  /\ saved' = file
  /\ Finished
  /\ UNCHANGED <<file, safe, active, engine, torn, known, scenario>>

(* Fault: only the handler looks whether a recording is active.             *)
AppliesAlways == TRUE
(* The runtime looks again, in its own turn.                                *)
Applies == operation.config.directory # engine.directory => ~RecordingActive

ApplyLive ==
  /\ Updating("apply")
  /\ Applies
  /\ engine' = operation.config
  /\ active' = saved
  /\ Told
  /\ Finished
  /\ UNCHANGED <<file, safe, saved, torn, spent, scenario>>

(* What was applied is rolled back, unless that fails too.                  *)
ApplyFails ==
  /\ Updating("apply")
  /\ \/ /\ ~Applies
        /\ UNCHANGED <<engine, torn, spent>>
     \/ /\ Applies
        /\ Spend("failures", scenario.failures)
        /\ engine' \in {engine, operation.config}
        /\ torn' = (torn \/ engine' # engine)
  /\ Finished
  /\ UNCHANGED <<file, safe, saved, active, known, scenario>>

(* A service that starts makes the file its configuration.                  *)
Reload(document) ==
  /\ file' = document /\ saved' = document /\ active' = document
  /\ engine' = document.config
  /\ torn' = FALSE
  /\ UNCHANGED known

ConfigInit ==
  /\ file = [config |-> scenario.config, form |-> "given"]
  /\ safe = {file} /\ saved = file /\ active = file
  /\ engine = file.config /\ torn = FALSE
  /\ operation = None
  /\ known = [c \in Client |-> file]

Update ==
  \/ \E c \in scenario.clients : GetConfig(c) \/ AdmitUpdate(c)
  \/ ReplaceFile \/ ReplaceFails \/ SyncDirectory \/ SyncFails \/ ApplyLive \/ ApplyFails
=============================================================================
