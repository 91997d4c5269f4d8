-------------------------- MODULE ControlPlaneProofs --------------------------
(* Theorems about ControlPlane, for any number of clients, fragments,       *)
(* directories and configurations: the configuration and the helper first,  *)
(* then the recordings.                                                     *)
EXTENDS ControlPlane, TLAPS

(* A step that leaves the configuration and an update in progress alone, or *)
(* ends the service with the update.                                        *)
IsUpdate(op) == op # None /\ op.kind = "update"

Aside ==
  /\ UNCHANGED <<configVars, scenario>>
  /\ "service" \in DOMAIN session'
  /\ session'.service # "down" => session.service # "down"
  /\ \/ operation' = operation /\ (session'.service = "down" => session.service = "down")
     \/ ~IsUpdate(operation') /\ (session'.service = "down" \/ ~IsUpdate(operation))

-----------------------------------------------------------------------------
(* What the session's operators leave of a session.                         *)
LEMMA SessionOperators ==
  ASSUME NEW s, "service" \in DOMAIN s
  PROVE  /\ StopRecording(s).service = s.service /\ "service" \in DOMAIN StopRecording(s)
         /\ StopStream(s).service = s.service /\ "service" \in DOMAIN StopStream(s)
         /\ StopAll(s).service = s.service /\ "service" \in DOMAIN StopAll(s)
         /\ StartRecording(s).service = s.service /\ "service" \in DOMAIN StartRecording(s)
         /\ "service" \in DOMAIN Terminated(s) /\ (Terminated(s).service = "down" <=> s.service = "down")
<1>1. StopStream(s).service = s.service /\ "service" \in DOMAIN StopStream(s)
  BY DEF StopStream
<1>2. StopAll(s).service = s.service /\ "service" \in DOMAIN StopAll(s)
  BY <1>1 DEF StopAll
<1>3. StopRecording(s).service = s.service /\ "service" \in DOMAIN StopRecording(s)
  BY DEF StopRecording
<1>4. StartRecording(s).service = s.service /\ "service" \in DOMAIN StartRecording(s)
  BY DEF StartRecording
<1>5. "service" \in DOMAIN Terminated(s) /\ (Terminated(s).service = "down" <=> s.service = "down")
  BY <1>2 DEF Terminated
<1>6. QED BY <1>1, <1>2, <1>3, <1>4, <1>5

LEMMA LibraryAside ==
  ASSUME "service" \in DOMAIN session, scenario \in Scenario, LibraryStep
  PROVE  Aside
<1>1. CASE Register \/ BeginRead \/ ExamineRead \/ FinishRead
  BY <1>1 DEF Register, BeginRead, ExamineRead, FinishRead, Library, sessionVars, Aside
<1>2. CASE BeginMutation
  <2>1. scenario.mutations \subseteq {"delete", "check", "recover"}
    BY DEF Scenario
  <2>2. PICK i \in 1 .. Len(files), kind \in scenario.mutations :
          operation' = [kind |-> kind, id |-> files[i], step |-> "opened"]
    BY <1>2 DEF BeginMutation
  <2>3. operation = None /\ UNCHANGED <<session, configVars, scenario>>
    BY <1>2 DEF BeginMutation, Unlocked, sessionVars
  <2>4. ~IsUpdate(operation') /\ ~IsUpdate(operation)
    BY <2>1, <2>2, <2>3 DEF IsUpdate
  <2>5. QED BY <2>3, <2>4 DEF Aside
<1>3. CASE ExamineDelete \/ ExamineWork
  <2>1. operation.kind \in {"delete", "check", "recover"} /\ UNCHANGED <<session, configVars, scenario>>
    BY <1>3 DEF ExamineDelete, ExamineWork, Mutating, Mutation
  <2>2. operation' = None \/ operation' = [kind |-> operation.kind, id |-> operation.id, step |-> "allowed"]
    BY <1>3 DEF ExamineDelete, ExamineWork, Refuse, Allow
  <2>3. ~IsUpdate(operation') /\ ~IsUpdate(operation)
    BY <2>1, <2>2 DEF IsUpdate
  <2>4. QED BY <2>1, <2>3 DEF Aside
<1>4. CASE Delete \/ StartWork
  <2>1. operation.kind \in {"delete", "check", "recover"} /\ UNCHANGED <<session, configVars, scenario>>
    BY <1>4 DEF Delete, StartWork, Mutating, Mutation
  <2>2. operation' = None
    BY <1>4 DEF Delete, StartWork, Refuse
  <2>3. QED BY <2>1, <2>2 DEF Aside, IsUpdate
<1>5. CASE CheckEnds \/ RecoverCreates \/ RecoverValidates \/ RecoverPublishes \/ RecoverCompletes
             \/ RecoverWithdraws \/ RecoverFails
  BY <1>5 DEF CheckEnds, RecoverCreates, RecoverValidates, RecoverPublishes, RecoverCompletes,
              RecoverWithdraws, RecoverFails, Work, Aside
<1>6. QED BY <1>1, <1>2, <1>3, <1>4, <1>5 DEF LibraryStep

LEMMA HelperAside ==
  ASSUME "service" \in DOMAIN session, HelperStepNext
  PROVE  Aside
<1>1. CASE StopsRecording
  BY <1>1, SessionOperators DEF StopsRecording, Stops, Quiet, Outside, Aside
<1>2. CASE StopsStream \/ StopsCapture
  BY <1>2, SessionOperators DEF StopsStream, StopsCapture, Stops, Outside, Aside
<1>3. CASE StopService
  BY <1>3, SessionOperators DEF StopService, Outside, Aside
<1>4. CASE Accept \/ TakeLifecycle \/ Look \/ AwaitRecording \/ AwaitStream \/ AwaitStopped
             \/ AwaitService \/ Verify \/ ActPower \/ ActRestart \/ Completed \/ HelperGivesUp \/ InstallerLocks
  BY <1>4 DEF Accept, TakeLifecycle, Look, AwaitRecording, AwaitStream, AwaitStopped, AwaitService,
              Verify, ActPower, ActRestart, Completed, HelperGivesUp, InstallerLocks, Quiet, Outside, Aside
<1>5. QED BY <1>1, <1>2, <1>3, <1>4 DEF HelperStepNext

LEMMA RecorderService ==
  ASSUME "service" \in DOMAIN session, Recorder
  PROVE  /\ "service" \in DOMAIN session' /\ session'.service = session.service
         /\ UNCHANGED scenario
<1>2. CASE ListFragment \/ RecordingRuns \/ RotationDue \/ Rotated
  BY <1>2 DEF ListFragment, RecordingRuns, RotationDue, Rotated, Do
<1>3. CASE CloseFragment \/ FragmentClosed \/ RecordingStopped
  BY <1>3 DEF CloseFragment, FragmentClosed, RecordingStopped, Do
<1>4. CASE RecordingFails \/ StreamStopped \/ CaptureStopped \/ StorageChanges
  BY <1>4 DEF RecordingFails, StreamStopped, CaptureStopped, StorageChanges, Do
<1>5. QED BY <1>2, <1>3, <1>4 DEF Recorder

LEMMA MediaAside ==
  ASSUME "service" \in DOMAIN session, Media
  PROVE  Aside
<1>1. CASE Recorder /\ NotSession
  BY <1>1, RecorderService DEF NotSession, Aside
<1>0. CASE MediaFollows
  <2> DEFINE s == Streaming(session, active.config.base.enabled)
  <2>1. s.service = session.service /\ "service" \in DOMAIN s
    BY DEF Streaming
  <2>2. session' \in {s, StartRecording(s)} /\ NotSession /\ UNCHANGED scenario
    BY <1>0 DEF MediaFollows, FollowCapture, Do
  <2> HIDE DEF s
  <2>3. QED BY <2>1, <2>2, SessionOperators DEF NotSession, Aside
<1>2. CASE Bootstrap \/ EngineOpensFragment \/ CommandStartCapture
  BY <1>2 DEF Bootstrap, EngineOpensFragment, OpenFragment, CommandStartCapture, StartCapture, Do, NotSession, Aside
<1>3. CASE CommandStartRecording \/ CommandStopRecording \/ CommandStopCapture
  BY <1>3, SessionOperators
     DEF CommandStartRecording, CommandStopRecording, CommandStopCapture, Do, NotSession, Aside
<1>4. CASE EndService
  BY <1>4 DEF EndService, ServiceEnds, Idle, Aside, IsUpdate
<1>5. CASE ServiceDies
  BY <1>5 DEF ServiceDies, Idle, Aside, IsUpdate
<1>6. QED BY <1>0, <1>1, <1>2, <1>3, <1>4, <1>5 DEF Media

-----------------------------------------------------------------------------
(* What saved, known and safe are while an update is under way.             *)
UpdateInv ==
  /\ operation \in UpdateOperation
  /\ operation.step = "replace" =>
       /\ saved = file /\ known[operation.client] = file
       /\ operation.kept => operation.config.secret = file.config.secret
  /\ operation.step \in {"sync", "apply"} => file.config = operation.config
  /\ operation.step = "apply" => saved = file /\ safe = {file}

ConfigInv ==
  /\ "service" \in DOMAIN session
  /\ scenario \in Scenario
  /\ file \in Document /\ safe \subseteq Document /\ file \in safe
  /\ known \in [Client -> Document]
  /\ IF session.service = "down" THEN ~IsUpdate(operation)
     ELSE IF IsUpdate(operation) THEN UpdateInv ELSE saved = file

LEMMA ConfigInit_ == Init => ConfigInv
<1> SUFFICES ASSUME Init PROVE ConfigInv
  OBVIOUS
<1>1. scenario \in Scenario
  BY ScenariosAssumption DEF Init
<1>2. "service" \in DOMAIN session
  BY DEF Init, SessionInit, Idle
<1>3. file \in Document
  BY <1>1 DEF Init, ConfigInit, Scenario, Document
<1>4. safe = {file} /\ saved = file /\ operation = None /\ known = [c \in Client |-> file]
  BY DEF Init, ConfigInit
<1>5. known \in [Client -> Document]
  BY <1>3, <1>4
<1>6. QED BY <1>1, <1>2, <1>3, <1>4, <1>5 DEF ConfigInv, IsUpdate

(* What a client offers becomes a configuration.                            *)
LEMMA InternalType ==
  ASSUME NEW offer \in Offer, saved \in Document
  PROVE  /\ Internal(offer) \in Config
         /\ offer.secret = "keep" => Internal(offer).secret = saved.config.secret
<1>1. KeptSecret \in Secret \cup {None}
  BY DEF KeptSecret, Document, Config
<1>2. QED BY <1>1 DEF Internal, KeptSecret, Offer, Config

LEMMA AsideKeeps ==
  ASSUME ConfigInv, Aside
  PROVE  ConfigInv'
<1>1. /\ UNCHANGED <<file, safe, saved, known, scenario>>
      /\ "service" \in DOMAIN session'
  BY DEF Aside, configVars
<1>2. CASE session'.service = "down"
  BY <1>1, <1>2 DEF Aside, ConfigInv, IsUpdate
<1>3. CASE session'.service # "down"
  <2>1. session.service # "down"
    BY <1>3 DEF Aside
  <2>2. CASE operation' = operation
    BY <1>1, <1>3, <2>1, <2>2 DEF ConfigInv, IsUpdate, UpdateInv
  <2>3. CASE ~IsUpdate(operation') /\ ~IsUpdate(operation)
    BY <1>1, <2>1, <2>3 DEF ConfigInv, IsUpdate
  <2>4. QED BY <1>3, <2>2, <2>3 DEF Aside
<1>4. QED BY <1>2, <1>3

(* The updating operation, ended or one step on.                            *)
LEMMA UpdatingInv ==
  ASSUME NEW step, Updating(step), ConfigInv
  PROVE  /\ IsUpdate(operation) \/ operation.kind # "update"
         /\ UpdateInv /\ operation.step = step /\ session.service # "down"
BY DEF Updating, ConfigInv, IsUpdate

LEMMA UpdateKeeps ==
  ASSUME ConfigInv, Update
  PROVE  ConfigInv'
<1>1. CASE \E c \in scenario.clients : GetConfig(c)
  <2>1. PICK c \in Client : GetConfig(c)
    BY <1>1 DEF ConfigInv, Scenario
  <2>2. operation = None /\ session.service # "down"
    BY <2>1 DEF GetConfig, Unlocked, Up
  <2>3. saved = file /\ known' = [known EXCEPT ![c] = saved]
    BY <2>1, <2>2 DEF GetConfig, ConfigInv, IsUpdate
  <2>4. UNCHANGED <<session, file, safe, saved, operation, scenario>>
    BY <2>1 DEF GetConfig, sessionVars
  <2>5. known' \in [Client -> Document]
    BY <2>3 DEF ConfigInv
  <2>6. QED BY <2>2, <2>3, <2>4, <2>5 DEF ConfigInv, IsUpdate
<1>2. CASE \E c \in scenario.clients : AdmitUpdate(c)
  <2>1. PICK c \in Client : AdmitUpdate(c)
    BY <1>2 DEF ConfigInv, Scenario
  <2>2. operation = None /\ session.service # "down"
    BY <2>1 DEF AdmitUpdate, Unlocked, Up
  <2>3. saved = file /\ known[c] = file
    BY <2>1, <2>2 DEF AdmitUpdate, Current, ConfigInv, IsUpdate
  <2>4. PICK offer \in scenario.offers :
          operation' = [kind |-> "update", client |-> c, config |-> Internal(offer),
                        kept |-> offer.secret = "keep", step |-> "replace"]
    BY <2>1 DEF AdmitUpdate
  <2>5. offer \in Offer
    BY <2>4 DEF ConfigInv, Scenario
  <2>6. Internal(offer) \in Config /\ (offer.secret = "keep" => Internal(offer).secret = file.config.secret)
    BY <2>3, <2>5, InternalType DEF ConfigInv
  <2>7. UNCHANGED <<session, file, safe, saved, known, scenario>>
    BY <2>1 DEF AdmitUpdate, sessionVars, configVars
  <2>8. operation' \in UpdateOperation
    <3> DEFINE kept == offer.secret = "keep"
    <3>1. kept \in BOOLEAN
      OBVIOUS
    <3>2. operation' = [kind |-> "update", client |-> c, config |-> Internal(offer),
                        kept |-> kept, step |-> "replace"]
      BY <2>4
    <3> HIDE DEF kept
    <3>3. QED BY <3>1, <3>2, <2>6 DEF UpdateOperation
  <2>9. UpdateInv'
    <3>1. operation'.step = "replace" /\ operation'.client = c /\ operation'.config = Internal(offer)
      BY <2>4
    <3>2. operation'.kept => offer.secret = "keep"
      BY <2>4, Zenon
    <3>3. QED BY <2>3, <2>6, <2>7, <2>8, <3>1, <3>2 DEF UpdateInv
  <2>10. QED BY <2>2, <2>3, <2>7, <2>9 DEF ConfigInv
<1>3. CASE ReplaceFile
  <2>1. Updating("replace") /\ UpdateInv /\ session.service # "down"
    BY <1>3, UpdatingInv DEF ReplaceFile
  <2>2. /\ file' = Written(operation.config) /\ safe' = safe \cup {file'}
        /\ operation' = [operation EXCEPT !.step = "sync"]
        /\ UNCHANGED <<session, known, scenario>>
    BY <1>3 DEF ReplaceFile, sessionVars
  <2>3. file' \in Document
    BY <2>1, <2>2 DEF Written, Document, UpdateInv, UpdateOperation
  <2>4. operation' \in UpdateOperation /\ operation'.step = "sync"
    BY <2>1, <2>2 DEF UpdateInv, UpdateOperation
  <2>5. UpdateInv'
    <3>1. operation'.config = operation.config
      BY <2>1, <2>2 DEF UpdateInv, UpdateOperation
    <3>2. QED BY <2>2, <2>4, <3>1 DEF UpdateInv, Written
  <2>6. IsUpdate(operation')
    BY <2>4, NoneAssumption DEF IsUpdate, UpdateOperation
  <2>7. QED BY <2>1, <2>2, <2>3, <2>5, <2>6 DEF ConfigInv
<1>4. CASE ReplaceFails
  <2>1. Updating("replace") /\ saved = file /\ session.service # "down"
    BY <1>4, UpdatingInv DEF ReplaceFails, UpdateInv
  <2>2. operation' = None /\ UNCHANGED <<session, file, safe, saved, known, scenario>>
    BY <1>4 DEF ReplaceFails, Finished, configVars
  <2>3. QED BY <2>1, <2>2 DEF ConfigInv, IsUpdate
<1>5. CASE SyncDirectory
  <2>1. Updating("sync") /\ UpdateInv /\ session.service # "down" /\ operation.step = "sync"
    BY <1>5, UpdatingInv DEF SyncDirectory
  <2>2. /\ safe' = {file} /\ saved' = file /\ UNCHANGED <<file, session, scenario>>
        /\ \/ operation' = None /\ Told
           \/ operation' = [operation EXCEPT !.step = "apply"] /\ UNCHANGED known
    BY <1>5 DEF SyncDirectory, Finished
  <2>3. known' \in [Client -> Document]
    BY <2>2 DEF ConfigInv, Told
  <2>4. CASE operation' = None
    BY <2>2, <2>3, <2>4 DEF ConfigInv, IsUpdate
  <2>5. CASE operation' = [operation EXCEPT !.step = "apply"]
    <3>1. operation' \in UpdateOperation /\ operation'.step = "apply" /\ operation'.config = operation.config
      BY <2>1, <2>5 DEF UpdateInv, UpdateOperation
    <3>2. UpdateInv'
      BY <2>1, <2>2, <3>1 DEF UpdateInv, UpdateOperation
    <3>3. QED BY <2>1, <2>2, <2>3, <3>1, <3>2 DEF ConfigInv
  <2>6. QED BY <2>2, <2>4, <2>5
<1>6. CASE SyncFails
  BY <1>6 DEF SyncFails, Finished, ConfigInv, IsUpdate
<1>7. CASE ApplyLive
  <2>1. Updating("apply") /\ UpdateInv /\ saved = file
    BY <1>7, UpdatingInv DEF ApplyLive, UpdateInv
  <2>2. operation' = None /\ Told /\ UNCHANGED <<session, file, safe, saved, scenario>>
    BY <1>7 DEF ApplyLive, Finished
  <2>3. known' \in [Client -> Document]
    BY <2>2 DEF ConfigInv, Told
  <2>4. QED BY <2>1, <2>2, <2>3 DEF ConfigInv, IsUpdate
<1>8. CASE ApplyFails
  <2>1. Updating("apply") /\ UpdateInv /\ saved = file
    BY <1>8, UpdatingInv DEF ApplyFails, UpdateInv
  <2>2. operation' = None /\ UNCHANGED <<session, file, safe, saved, known, scenario>>
    BY <1>8 DEF ApplyFails, Finished
  <2>3. QED BY <2>1, <2>2 DEF ConfigInv, IsUpdate
<1>9. QED BY <1>1, <1>2, <1>3, <1>4, <1>5, <1>6, <1>7, <1>8 DEF Update

LEMMA ServiceKeeps ==
  ASSUME ConfigInv, ServiceStarts \/ PowerCycle
  PROVE  ConfigInv'
<1>1. CASE ServiceStarts
  BY <1>1 DEF ServiceStarts, Reload, ConfigInv, IsUpdate
<1>2. CASE PowerCycle
  <2>1. PICK document \in safe : Reload(document) /\ safe' \in {safe, {document}}
    BY <1>2 DEF PowerCycle, ConfigInv
  <2>2. operation' = None /\ scenario' = scenario /\ "service" \in DOMAIN session'
    BY <1>2 DEF PowerCycle, Off, Idle
  <2>3. file' = document /\ saved' = document /\ known' = known
    BY <2>1 DEF Reload
  <2>4. file' \in Document /\ safe' \subseteq Document /\ file' \in safe'
    BY <2>1, <2>3 DEF ConfigInv
  <2>5. QED BY <2>2, <2>3, <2>4 DEF ConfigInv, IsUpdate
<1>3. QED BY <1>1, <1>2

(* Each step of the control plane updates the configuration, starts a       *)
(* service, or goes by it.                                                  *)
LEMMA StepKinds ==
  ASSUME ConfigInv, Next
  PROVE  Update \/ Aside \/ ServiceStarts \/ PowerCycle
<1>1. "service" \in DOMAIN session /\ scenario \in Scenario
  BY DEF ConfigInv
<1>2. QED BY <1>1, LibraryAside, HelperAside, MediaAside DEF Next

LEMMA ConfigStep ==
  ASSUME ConfigInv, [Next]_vars
  PROVE  ConfigInv'
<1>1. CASE Next
  BY <1>1, StepKinds, UpdateKeeps, AsideKeeps, ServiceKeeps
<1>2. CASE UNCHANGED vars
  BY <1>2 DEF vars, configVars, ConfigInv, IsUpdate, UpdateInv
<1>3. QED BY <1>1, <1>2

(* What saved, safe and known are between and during updates, by any        *)
(* clients, with failures and crashes: the invariant the rest follows from  *)
(* (ControlOperations, write_config_atomic).                                *)
THEOREM ConfigInvariant == Spec => []ConfigInv
<1>1. Init => ConfigInv
  BY ConfigInit_
<1>2. ConfigInv /\ [Next]_vars => ConfigInv'
  BY ConfigStep
<1>3. QED BY <1>1, <1>2, PTL DEF Spec

(* What is applied to the running service is durable before.                *)
THEOREM AppliedDurable == Spec => []AppliedIsDurable
<1>1. ConfigInv => AppliedIsDurable
  BY DEF ConfigInv, AppliedIsDurable, Updating, IsUpdate, UpdateInv
<1>2. QED BY <1>1, ConfigInvariant, PTL

-----------------------------------------------------------------------------
(* Each step is a step of the register, or none.                            *)
LEMMA UpdateSimulated ==
  ASSUME ConfigInv, Update
  PROVE  [R!Next]_(R!vars)
<1> USE DEF R!Next, R!vars, R!See, R!Confirm, R!Replace
<1>1. CASE \E c \in scenario.clients : GetConfig(c)
  <2>1. PICK c \in Client : GetConfig(c)
    BY <1>1 DEF ConfigInv, Scenario
  <2>2. saved = file /\ known' = [known EXCEPT ![c] = saved] /\ UNCHANGED <<file, safe>>
    BY <2>1 DEF GetConfig, ConfigInv, IsUpdate, Unlocked, Up
  <2>3. R!See(c)
    BY <2>2
  <2>4. QED BY <2>3
<1>2. CASE \E c \in scenario.clients : AdmitUpdate(c)
  BY <1>2 DEF AdmitUpdate, configVars
<1>3. CASE ReplaceFile
  <2>1. UpdateInv /\ operation.step = "replace"
    BY <1>3, UpdatingInv DEF ReplaceFile
  <2>2. known[operation.client] = file /\ operation.client \in Client /\ operation.config \in Config
    BY <2>1 DEF UpdateInv, UpdateOperation
  <2>3. Written(operation.config) \in Document
    BY <2>2 DEF Written, Document
  <2>4. R!Replace(operation.client, Written(operation.config))
    BY <1>3, <2>2 DEF ReplaceFile
  <2>5. QED BY <2>2, <2>3, <2>4
<1>4. CASE ReplaceFails \/ SyncFails \/ ApplyFails
  BY <1>4 DEF ReplaceFails, SyncFails, ApplyFails, configVars
<1>5. CASE SyncDirectory
  <2>1. UpdateInv
    BY <1>5, UpdatingInv DEF SyncDirectory
  <2>2. operation.client \in Client
    BY <2>1 DEF UpdateInv, UpdateOperation
  <2>3. R!Confirm(operation.client)
    BY <1>5 DEF SyncDirectory, Told
  <2>4. QED BY <2>2, <2>3
<1>6. CASE ApplyLive
  <2>1. UpdateInv
    BY <1>6, UpdatingInv DEF ApplyLive
  <2>2. operation.client \in Client
    BY <2>1 DEF UpdateInv, UpdateOperation
  <2>3. R!See(operation.client) \/ UNCHANGED <<file, safe, known>>
    BY <1>6 DEF ApplyLive, Told
  <2>4. QED BY <2>2, <2>3
<1>7. QED BY <1>1, <1>2, <1>3, <1>4, <1>5, <1>6 DEF Update

LEMMA ServiceSimulated ==
  ASSUME ConfigInv, ServiceStarts \/ PowerCycle
  PROVE  [R!Next]_(R!vars)
<1>1. CASE ServiceStarts \/ (PowerCycle /\ machine = "halting")
  BY <1>1 DEF ServiceStarts, PowerCycle, Reload, R!vars
<1>2. CASE PowerCycle /\ machine # "halting"
  BY <1>2 DEF PowerCycle, Reload, R!Next, R!LosePower
<1>3. QED BY <1>1, <1>2

(* The configuration file implements the register of ConfigRegister: who    *)
(* replaces it has seen what is replaced, whatever clients, crashes and     *)
(* losses of power do.                                                      *)
THEOREM RegisterImplemented == Spec => RegisterSpec
<1>1. Init => R!Init
  <2>1. SUFFICES ASSUME Init PROVE R!Init
    OBVIOUS
  <2>2. file \in Document
    BY <2>1, ConfigInit_ DEF ConfigInv
  <2>3. QED BY <2>1, <2>2 DEF Init, ConfigInit, R!Init
<1>2. ConfigInv /\ [Next]_vars => [R!Next]_(R!vars)
  <2>1. SUFFICES ASSUME ConfigInv, [Next]_vars PROVE [R!Next]_(R!vars)
    OBVIOUS
  <2>2. CASE Next
    <3>1. Update \/ Aside \/ ServiceStarts \/ PowerCycle
      BY <2>1, <2>2, StepKinds
    <3>2. CASE Aside
      BY <3>2 DEF Aside, configVars, R!vars
    <3>3. QED BY <2>1, <3>1, <3>2, UpdateSimulated, ServiceSimulated
  <2>3. CASE UNCHANGED vars
    BY <2>3 DEF vars, configVars, R!vars
  <2>4. QED BY <2>1, <2>2, <2>3
<1>3. QED BY <1>1, <1>2, ConfigInvariant, PTL DEF Spec, RegisterSpec, R!Spec

(* An update that keeps the passphrase writes the one that is in the file.  *)
THEOREM KeptSecretKept == Spec => KeptSecretStays
<1>1. ConfigInv /\ [Next]_vars =>
        (Updating("replace") /\ operation.kept /\ file' # file /\ operation' # None
           => file'.config.secret = file.config.secret)
  <2>1. SUFFICES ASSUME ConfigInv, [Next]_vars, Updating("replace"), operation.kept,
                        file' # file, operation' # None
                 PROVE  file'.config.secret = file.config.secret
    OBVIOUS
  <2>2. UpdateInv /\ operation.step = "replace" /\ operation # None
    BY <2>1, UpdatingInv DEF Updating
  <2>3. operation.config.secret = file.config.secret
    BY <2>1, <2>2 DEF UpdateInv
  <2>4. Update \/ Aside \/ ServiceStarts \/ PowerCycle
    BY <2>1, StepKinds DEF vars, configVars
  <2>5. ReplaceFile
    <3>1. ~Aside
      BY <2>1 DEF Aside, configVars
    <3>2. ~ServiceStarts /\ ~PowerCycle
      BY <2>1 DEF ServiceStarts, PowerCycle, Reload
    <3>3. QED BY <2>1, <2>4, <3>1, <3>2
         DEF Update, GetConfig, AdmitUpdate, ReplaceFails, SyncDirectory, SyncFails, ApplyLive, ApplyFails,
             configVars
  <2>6. QED BY <2>3, <2>5 DEF ReplaceFile, Written
<1>2. QED BY <1>1, ConfigInvariant, PTL DEF Spec, KeptSecretStays

-----------------------------------------------------------------------------
(* The helper. A service that is down stays as it is until it is started.   *)
Resting(s) ==
  /\ s.capture = "stopped" /\ s.stream = "stopped" /\ s.recording = "stopped"
  /\ ~s.pending /\ ~s.follow /\ s.listed = {} /\ s.writing = {}

Down == session.service = "down"

SessionInv == DOMAIN session = DOMAIN Idle /\ (Down => Resting(session))

HelperInv ==
  /\ DOMAIN helper = DOMAIN HelperIdle
  /\ LifecycleHeld
  /\ helper.step \in {"act", "power"} => Down /\ session.exit = "clean"
  /\ machine = "halting" => helper.step = "power"

(* What a step of the session does to one that is up, or is down.           *)
SessionAside ==
  /\ DOMAIN session' = DOMAIN Idle
  /\ Down => session' = session
  /\ Down' => Resting(session')
  /\ UNCHANGED maintenanceVars

LEMMA SessionDomains ==
  ASSUME NEW s
  PROVE  /\ DOMAIN StopRecording(s) = DOMAIN s /\ DOMAIN StopStream(s) = DOMAIN s
         /\ DOMAIN StopAll(s) = DOMAIN s /\ DOMAIN StartRecording(s) = DOMAIN s
         /\ DOMAIN Terminated(s) = DOMAIN s
<1>1. DOMAIN StopStream(s) = DOMAIN s
  BY DEF StopStream
<1>2. DOMAIN StopAll(s) = DOMAIN s
  BY <1>1 DEF StopAll
<1>3. QED BY <1>1, <1>2 DEF StopRecording, StartRecording, Terminated

LEMMA RecorderRests ==
  ASSUME SessionInv, Recorder
  PROVE  DOMAIN session' = DOMAIN Idle /\ (Down => session' = session) /\ (Down' => Down)
<1> USE DEF SessionInv, Down, Resting
<1>0. "service" \in DOMAIN session
  BY DEF Idle
<1>1. DOMAIN session' = DOMAIN session
  <2>2. CASE ListFragment \/ RecordingRuns \/ RotationDue \/ Rotated \/ CloseFragment \/ FragmentClosed
    BY <2>2 DEF ListFragment, RecordingRuns, RotationDue, Rotated, CloseFragment, FragmentClosed, Do
  <2>3. CASE RecordingStopped \/ RecordingFails \/ StreamStopped \/ CaptureStopped \/ StorageChanges
    BY <2>3 DEF RecordingStopped, RecordingFails, StreamStopped, CaptureStopped, StorageChanges, Do
  <2>4. QED BY <2>2, <2>3 DEF Recorder
<1>2. ASSUME Down PROVE session' = session
  <2>1. ~ListFragment /\ ~RecordingRuns /\ ~RotationDue /\ ~Rotated
    BY <1>2 DEF ListFragment, RecordingRuns, RotationDue, Rotated
  <2>2. ~CloseFragment /\ ~FragmentClosed /\ ~RecordingStopped /\ ~RecordingFails
    BY <1>2 DEF CloseFragment, FragmentClosed, RecordingStopped, RecordingFails
  <2>3. ~StreamStopped /\ ~CaptureStopped
    BY <1>2 DEF StreamStopped, CaptureStopped
  <2>4. QED BY <2>1, <2>2, <2>3 DEF Recorder, StorageChanges
<1>3. session'.service = session.service
  BY <1>0, RecorderService
<1>4. QED BY <1>1, <1>2, <1>3

LEMMA MediaRests ==
  ASSUME SessionInv, Media
  PROVE  SessionAside
<1> USE DEF SessionInv, Down
<1>0. "service" \in DOMAIN session
  BY DEF Idle
<1>1. CASE Recorder /\ NotSession
  BY <1>1, RecorderRests DEF NotSession, SessionAside
<1>6. CASE MediaFollows
  <2> DEFINE s == Streaming(session, active.config.base.enabled)
  <2>1. s.service = session.service /\ DOMAIN s = DOMAIN session
    BY <1>0 DEF Streaming
  <2>2. session' \in {s, StartRecording(s)} /\ UNCHANGED maintenanceVars /\ Up
    BY <1>6 DEF MediaFollows, FollowCapture, Do, NotSession
  <2> HIDE DEF s
  <2>3. session'.service = session.service /\ DOMAIN session' = DOMAIN session
    BY <1>0, <2>1, <2>2, SessionDomains, SessionOperators
  <2>4. QED BY <2>2, <2>3 DEF SessionAside, Up
<1>2. CASE EngineOpensFragment
  BY <1>2 DEF EngineOpensFragment, OpenFragment, OpensFragment, NotSession, SessionAside, Resting, Idle
<1>3. CASE Bootstrap \/ CommandStartCapture \/ CommandStartRecording \/ CommandStopRecording \/ CommandStopCapture
  <2>1. Up /\ UNCHANGED maintenanceVars
    BY <1>3 DEF Bootstrap, CommandStartCapture, CommandStartRecording, CommandStopRecording, CommandStopCapture,
                Unlocked, NotSession
  <2>2. DOMAIN session' = DOMAIN session /\ session'.service = session.service
    BY <1>0, <1>3, SessionDomains, SessionOperators
       DEF Bootstrap, CommandStartCapture, StartCapture, CommandStartRecording, CommandStopRecording,
           CommandStopCapture, Do
  <2>3. QED BY <2>1, <2>2 DEF SessionAside, Up
<1>4. CASE EndService \/ ServiceDies
  BY <1>4, ZenonT(60) DEF EndService, ServiceEnds, ServiceDies, Idle, SessionAside, Resting
<1>5. QED BY <1>1, <1>2, <1>3, <1>4, <1>6 DEF Media

LEMMA SessionAsideKeeps ==
  ASSUME SessionInv, HelperInv, SessionAside
  PROVE  SessionInv' /\ HelperInv'
BY DEF SessionInv, HelperInv, SessionAside, maintenanceVars, Down, LifecycleHeld

LEMMA HelperKeeps ==
  ASSUME SessionInv, HelperInv, HelperStepNext
  PROVE  SessionInv' /\ HelperInv'
<1> USE DEF SessionInv, HelperInv, Down, LifecycleHeld, HelperIdle, Helper
<1> USE LockAssumption
<1>0. "service" \in DOMAIN session
  BY DEF Idle
<1>1. CASE StopsRecording \/ StopsStream \/ StopsCapture
  <2>1. CASE StopsRecording /\ session.recording = "starting"
    BY <1>1, <2>1 DEF StopsRecording, Stops, Fails, Quiet
  <2>2. CASE ~(StopsRecording /\ session.recording = "starting")
    <3>1. /\ Up
          /\ session' \in {StopRecording(session), StopStream(session), StopAll(session)}
          /\ helper.step \in {"stop recording", "stop stream", "stop capture"}
          /\ Goes("await recording") \/ Goes("await stream") \/ Goes("await stopped")
      BY <1>1, <2>2 DEF StopsRecording, StopsStream, StopsCapture, Stops, Answering
    <3>2. DOMAIN session' = DOMAIN session /\ session'.service = session.service
      <4> DEFINE A == StopRecording(session)
                 B == StopStream(session)
                 C == StopAll(session)
      <4>1. DOMAIN A = DOMAIN session /\ DOMAIN B = DOMAIN session /\ DOMAIN C = DOMAIN session
        BY SessionDomains
      <4>2. A.service = session.service /\ B.service = session.service /\ C.service = session.service
        BY <1>0, SessionOperators
      <4>3. session' \in {A, B, C}
        BY <3>1
      <4> HIDE DEF A, B, C
      <4>4. QED BY <4>1, <4>2, <4>3
    <3>3. SessionInv'
      BY <3>1, <3>2 DEF Up
    <3>4. HelperInv'
      BY <3>1 DEF Goes
    <3>5. QED BY <3>3, <3>4
  <2>3. QED BY <2>1, <2>2
<1>2. CASE StopService
  <2>1. session' = Terminated(session) /\ Helper("stop service") /\ Goes("await service")
    BY <1>2 DEF StopService
  <2>2. DOMAIN session' = DOMAIN session /\ (Down' <=> Down)
    BY <1>0, <2>1, SessionDomains, SessionOperators
  <2>3. Down => session' = session
    BY <2>1 DEF Terminated
  <2>4. HelperInv'
    BY <2>1 DEF Goes
  <2>5. QED BY <2>2, <2>3, <2>4 DEF Resting
<1>3. CASE Accept \/ TakeLifecycle \/ InstallerLocks
  BY <1>3 DEF Accept, TakeLifecycle, InstallerLocks, Fails, Quiet
<1>4. CASE Look \/ AwaitRecording \/ AwaitStream \/ AwaitStopped
  BY <1>4 DEF Look, AwaitRecording, AwaitStream, AwaitStopped, Goes, Fails, Quiet
<1>5. CASE AwaitService \/ Verify \/ ActPower
  BY <1>5 DEF AwaitService, Verify, ActPower, Goes, Fails, Quiet
<1>6. CASE ActRestart \/ Completed \/ HelperGivesUp
  BY <1>6 DEF ActRestart, Completed, HelperGivesUp, Goes, Quiet
<1>7. QED BY <1>1, <1>2, <1>3, <1>4, <1>5, <1>6 DEF HelperStepNext

LEMMA HelperStep_ ==
  ASSUME SessionInv, HelperInv, [Next]_vars
  PROVE  SessionInv' /\ HelperInv'
<1> USE DEF SessionInv, HelperInv, Down, LifecycleHeld
<1>1. CASE Update /\ NotConfig
  <2>1. UNCHANGED <<session, maintenanceVars>>
    BY <1>1 DEF Update, NotConfig, GetConfig, AdmitUpdate, ReplaceFile, ReplaceFails, SyncDirectory,
                SyncFails, ApplyLive, ApplyFails, Finished, sessionVars
  <2>2. QED BY <2>1 DEF maintenanceVars
<1>2. CASE LibraryStep /\ UNCHANGED maintenanceVars
  <2>1. UNCHANGED session
    BY <1>2 DEF LibraryStep, Register, BeginRead, ExamineRead, FinishRead, Library, BeginMutation,
                ExamineDelete, Delete, ExamineWork, StartWork, CheckEnds, RecoverCreates,
                RecoverValidates, RecoverPublishes, RecoverCompletes, RecoverWithdraws, RecoverFails,
                Mutation, Work, sessionVars
  <2>2. QED BY <1>2, <2>1 DEF maintenanceVars
<1>3. CASE HelperStepNext
  BY <1>3, HelperKeeps
<1>4. CASE Media
  BY <1>4, MediaRests, SessionAsideKeeps
<1>5. CASE ServiceStarts
  <2>1. /\ session' = [session EXCEPT !.service = "up", !.exit = "clean"]
        /\ UNCHANGED maintenanceVars /\ helper.step \notin {"act", "power"}
    BY <1>5 DEF ServiceStarts
  <2>2. QED BY <2>1 DEF maintenanceVars, Idle
<1>6. CASE PowerCycle
  <2>1. /\ session' = [Idle EXCEPT !.opened = session.opened]
        /\ helper' = HelperIdle /\ lifecycle' = None /\ machine' = "on"
    BY <1>6 DEF PowerCycle, Off
  <2>2. SessionInv'
    BY <2>1 DEF Idle
  <2>3. HelperInv'
    BY <2>1, LockAssumption DEF HelperIdle
  <2>4. QED BY <2>2, <2>3
<1>7. CASE UNCHANGED vars
  BY <1>7 DEF vars, maintenanceVars
<1>8. QED BY <1>1, <1>2, <1>3, <1>4, <1>5, <1>6, <1>7 DEF Next

(* What the helper and the session rely on of each other.                   *)
THEOREM HelperInvariant == Spec => [](SessionInv /\ HelperInv)
<1>1. Init => SessionInv /\ HelperInv
  BY LockAssumption DEF Init, SessionInit, MaintenanceInit, Idle, HelperIdle, SessionInv, HelperInv, Down, LifecycleHeld
<1>2. SessionInv /\ HelperInv /\ [Next]_vars => (SessionInv /\ HelperInv)'
  BY HelperStep_
<1>3. QED BY <1>1, <1>2, PTL DEF Spec

(* The helper holds the lock exactly while it acts, and halts the machine   *)
(* only with the service down for good (maintenance.py).                    *)
THEOREM MaintenanceSafe == Spec => [](LifecycleHeld /\ PowerAfterClean)
<1>1. SessionInv /\ HelperInv => LifecycleHeld /\ PowerAfterClean
  BY DEF SessionInv, HelperInv, PowerAfterClean, Resting, Down
<1>2. QED BY <1>1, HelperInvariant, PTL

(* Where the engine may get another directory from: an update that the      *)
(* runtime applied in its turn, or the start of a service.                  *)
LEMMA EngineChanges ==
  ASSUME ConfigInv, [Next]_vars, engine' # engine
  PROVE  \/ Applies /\ engine' = operation.config /\ session' = session
         \/ ServiceStarts \/ PowerCycle
<1>1. Update \/ Aside \/ ServiceStarts \/ PowerCycle
  BY StepKinds DEF vars, configVars
<1>2. ~Aside
  BY DEF Aside, configVars
<1>3. CASE Update
  <2>1. ApplyLive \/ ApplyFails
    BY <1>3 DEF Update, GetConfig, AdmitUpdate, ReplaceFile, ReplaceFails, SyncDirectory, SyncFails, configVars
  <2>2. QED BY <2>1 DEF ApplyLive, ApplyFails, Finished
<1>4. QED BY <1>1, <1>2, <1>3

(* The recording directory of the engine never changes under a recording,   *)
(* and a passphrase that an update keeps is the one of the file.            *)
THEOREM SettingsStand == Spec => SettingsLeftAlone
<1>1. ConfigInv /\ SessionInv /\ [Next]_vars => (engine'.directory # engine.directory => ~RecordingActive')
  <2>1. SUFFICES ASSUME ConfigInv, SessionInv, [Next]_vars, engine'.directory # engine.directory
                 PROVE  ~RecordingActive'
    OBVIOUS
  <2>2. CASE Applies /\ engine' = operation.config /\ session' = session
    BY <2>1, <2>2 DEF Applies, RecordingActive
  <2>3. CASE ServiceStarts
    BY <2>1, <2>3 DEF ServiceStarts, SessionInv, Down, Resting, RecordingActive, Active, Idle
  <2>4. CASE PowerCycle
    BY <2>4 DEF PowerCycle, Off, Idle, RecordingActive, Active
  <2>5. QED BY <2>1, <2>2, <2>3, <2>4, EngineChanges
<1>2. Spec => DirectoryStill
  BY <1>1, ConfigInvariant, HelperInvariant, PTL DEF Spec, DirectoryStill
<1>3. QED BY <1>2, KeptSecretKept DEF SettingsLeftAlone
-----------------------------------------------------------------------------
(* The recordings: what clients, the worker of the library and the helper   *)
(* may rely on while the recorder goes on.                                  *)

(* The recorder. Only the last fragment is open and not yet listed, and only*)
(* while the recorder is in a state that protects it.                       *)
RecorderSound(s) ==
  /\ s \in Session
  /\ s.base <= s.opened
  /\ s.listed \subseteq 1 .. s.opened /\ s.writing \subseteq 1 .. s.opened
  /\ s.current # None => s.current <= s.opened
  /\ s.last # None => s.last <= s.opened
  /\ s.pending => s.recording = "running"
  /\ s.recording = "starting" \/ s.pending => s.base < Fragments
  /\ \A n \in s.writing \ s.listed :
       n = s.opened /\ (s.recording \in {"starting", "stopping"} \/ s.pending)

RecorderInv == RecorderSound(session)

(* A fragment that is closed, if it still is there; and one that was opened *)
(* before.                                                                  *)
Kept(n) == disk[n] = None \/ disk[n].whole
Earlier(n) == n \in Fragment => n <= session.opened
Settled(n) == Earlier(n) /\ n \notin session.writing

DiskInv ==
  /\ disk \in [Name -> Entry \cup {None}]
  /\ \A n \in Fragment : disk[n] # None \/ disk[CopyOf(n)] # None => n <= session.opened
  /\ \A n \in session.writing : disk[n] # None
  /\ \A n \in session.listed \ session.writing : Kept(n)
  /\ session.last # None => session.last \notin session.writing /\ Kept(session.last)
  /\ CopiesWhole

(* Whoever was let at a file was let at one no sink opens again.            *)
MutationInv ==
  operation # None /\ ~IsUpdate(operation) =>
    /\ operation \in LibraryOperation
    /\ Earlier(operation.id.name) /\ operation.id.dir = Root
    /\ operation.kind = "recover" => operation.id.name \in Fragment
    /\ operation.step = "allowed" => Settled(operation.id.name)
    /\ operation.step = "allowed" /\ operation.kind = "delete" => checking # operation.id

ReadingInv ==
  reading # None =>
    /\ reading \in Reading /\ Earlier(reading.id.name)
    /\ reading.step # "opened" => Settled(reading.id.name)

(* The worker and its files.                                                *)
WorkerInv ==
  worker # None =>
    /\ worker \in Worker
    /\ Settled(worker.id.name) /\ worker.dir = worker.id.dir
    /\ checking = worker.id
    /\ worker.action = "recover" => worker.id.name \in Fragment
    /\ worker.step # "begun" => worker.action = "recover" /\ Stands(worker.id) /\ disk[Partial] # None
    /\ worker.step = "validated" => disk[Partial].whole /\ disk[Partial].dir = worker.dir
    /\ worker.step = "created" => disk[Partial].dir = worker.dir
    /\ worker.step = "linked" =>
         /\ disk[Target] # None /\ disk[Target].whole
         /\ disk[Target].dir = worker.dir /\ disk[Target].links = 2

FilesInv ==
  /\ files \in Seq(Id) /\ Len(files) <= FilesMax
  /\ \A i, j \in 1 .. Len(files) : files[i] = files[j] => i = j
  /\ \A i \in 1 .. Len(files) : Earlier(files[i].name)

ChecksInv ==
  /\ checks \in Seq(Check) /\ Len(checks) <= ChecksMax
  /\ \A i, j \in 1 .. Len(checks) : checks[i].id = checks[j].id => i = j
  /\ CheckingListed

LibraryInv ==
  /\ Down => operation = None
  /\ checking \in Id \cup {None}
  /\ FilesInv /\ ChecksInv /\ MutationInv /\ ReadingInv /\ WorkerInv

(* The helper knows the recording it found, and that it was closed.         *)
FoundInv ==
  /\ helper \in HelperState
  /\ helper.step \in {"queued", "look"} => helper.expected = None
  /\ helper.expected # None => helper.expected <= session.opened
  /\ helper.expected # None /\ helper.busy /\ helper.step \notin {"stop recording", "await recording"} =>
       Settled(helper.expected) /\ Kept(helper.expected)

(* The configurations in use.                                               *)
ConfigTyped ==
  /\ saved \in Document /\ active \in Document /\ engine \in Config /\ torn \in BOOLEAN
  /\ ActiveIsUsed

Locked == lifecycle \in {None, "helper", "installer"} /\ machine \in {"on", "halting"}

PlaneInv ==
  /\ storage \in Storage /\ ConfigTyped /\ Locked
  /\ RecorderInv /\ DiskInv /\ LibraryInv /\ FoundInv

-----------------------------------------------------------------------------
(* Sequences: what is left of one, in its order, each place at most once.   *)
Taken(r, length, s, places) ==
  \E f \in [1 .. length -> (1 .. Len(s)) \ places] :
    /\ \A j \in 1 .. length : r[j] = s[f[j]]
    /\ \A j, k \in 1 .. length : f[j] = f[k] => j = k

Leaves(r, s, places) ==
  \A i \in (1 .. Len(s)) \ places : \E j \in 1 .. Len(r) : r[j] = s[i]

LEMMA WithoutTakes ==
  ASSUME NEW S, NEW s \in Seq(S), NEW places \in SUBSET (1 .. Len(s)),
         \A i, j \in places : i = j
  PROVE  LET r == Without(s, places)
         IN /\ r \in Seq(S) /\ Len(r) <= Len(s)
            /\ Taken(r, Len(r), s, places) /\ Leaves(r, s, places)
<1> DEFINE r == Without(s, places)
<1>1. CASE places = {}
  <2>1. r = s
    BY <1>1 DEF Without
  <2> DEFINE f == [j \in 1 .. Len(s) |-> j]
  <2>2. f \in [1 .. Len(s) -> (1 .. Len(s)) \ places]
    BY <1>1
  <2>3. Taken(s, Len(s), s, places)
    BY <2>2 DEF Taken
  <2>4. Leaves(s, s, places)
    BY DEF Leaves
  <2>5. QED BY <2>1, <2>3, <2>4
<1>2. CASE places # {}
  <2> DEFINE i == CHOOSE i \in places : TRUE
  <2>1. i \in places /\ i \in 1 .. Len(s)
    BY <1>2
  <2>2. r = SubSeq(s, 1, i - 1) \o SubSeq(s, i + 1, Len(s))
    BY <1>2 DEF Without, RemoveAt
  <2>3. places = {i}
    BY <2>1
  <2> HIDE DEF i, r
  <2>4. Len(s) \in Nat /\ \A j \in 1 .. Len(s) : s[j] \in S
    OBVIOUS
  <2> DEFINE a == SubSeq(s, 1, i - 1)
             b == SubSeq(s, i + 1, Len(s))
  <2>5. a \in Seq(S) /\ Len(a) = i - 1 /\ \A j \in 1 .. i - 1 : a[j] = s[j]
    BY <2>1, <2>4
  <2>6. b \in Seq(S) /\ Len(b) = Len(s) - i /\ \A j \in 1 .. Len(s) - i : b[j] = s[i + j]
    BY <2>1, <2>4
  <2>13. r = a \o b
    BY <2>2
  <2> HIDE DEF a, b
  <2>7. r \in Seq(S) /\ Len(r) = Len(s) - 1
    BY <2>1, <2>4, <2>5, <2>6, <2>13
  <2>8. \A j \in 1 .. Len(r) : r[j] = s[IF j < i THEN j ELSE j + 1]
    <3>1. TAKE j \in 1 .. Len(r)
    <3>3. CASE j < i
      BY <2>1, <2>4, <2>5, <2>6, <2>7, <2>13, <3>3
    <3>4. CASE ~(j < i)
      <4>1. r[j] = b[j - (i - 1)] /\ j - (i - 1) \in 1 .. Len(s) - i
        BY <2>1, <2>4, <2>5, <2>6, <2>7, <2>13, <3>4
      <4>2. i + (j - (i - 1)) = j + 1
        BY <2>1, <2>7
      <4>3. QED BY <2>6, <3>4, <4>1, <4>2
    <3>5. QED BY <3>3, <3>4
  <2> DEFINE f == [j \in 1 .. Len(r) |-> IF j < i THEN j ELSE j + 1]
  <2>9. f \in [1 .. Len(r) -> (1 .. Len(s)) \ places]
    BY <2>1, <2>3, <2>4, <2>7
  <2>10. \A j, k \in 1 .. Len(r) : f[j] = f[k] => j = k
    BY <2>1, <2>7
  <2>11. Taken(r, Len(r), s, places)
    BY <2>8, <2>9, <2>10 DEF Taken
  <2>12. Leaves(r, s, places)
    <3>1. SUFFICES ASSUME NEW k \in 1 .. Len(s), k # i PROVE \E j \in 1 .. Len(r) : r[j] = s[k]
      BY <2>3 DEF Leaves
    <3>2. CASE k < i
      <4>1. k \in 1 .. Len(r)
        BY <2>1, <2>7, <3>2
      <4>2. QED BY <2>8, <3>2, <4>1
    <3>3. CASE k > i
      <4>1. k - 1 \in 1 .. Len(r) /\ ~(k - 1 < i) /\ (k - 1) + 1 = k
        BY <2>1, <2>7, <3>3
      <4>2. r[k - 1] = s[k]
        BY <2>8, <4>1
      <4>3. QED BY <4>1, <4>2
    <3>4. QED BY <2>1, <3>1, <3>2, <3>3
  <2>14. QED BY <2>4, <2>7, <2>11, <2>12 DEF r
<1>3. QED BY <1>1, <1>2

(* A new item at the end, within the limit.                                 *)
LEMMA EndsWith ==
  ASSUME NEW S, NEW s \in Seq(S), NEW places \in SUBSET (1 .. Len(s)),
         \A i, j \in places : i = j,
         NEW x \in S, NEW max \in Nat \ {0}, Len(s) <= max
  PROVE  LET r == Bounded(Append(Without(s, places), x), max)
         IN /\ r \in Seq(S) /\ Len(r) \in 1 .. max /\ r[Len(r)] = x
            /\ Taken(r, Len(r) - 1, s, places)
<1> DEFINE w == Without(s, places)
           t == Append(w, x)
           r == Bounded(t, max)
<1>1. w \in Seq(S) /\ Len(w) <= Len(s) /\ Taken(w, Len(w), s, places)
  BY WithoutTakes
<1> HIDE DEF w
<1>2. t \in Seq(S) /\ Len(t) = Len(w) + 1 /\ t[Len(t)] = x /\ \A j \in 1 .. Len(w) : t[j] = w[j]
  BY <1>1
<1>3. PICK f \in [1 .. Len(w) -> (1 .. Len(s)) \ places] :
        /\ \A j \in 1 .. Len(w) : w[j] = s[f[j]]
        /\ \A j, k \in 1 .. Len(w) : f[j] = f[k] => j = k
  BY <1>1 DEF Taken
<1> HIDE DEF t
<1>4. CASE Len(t) > max
  <2>1. r = Tail(t)
    BY <1>4 DEF Bounded
  <2>2. Len(t) \in Nat /\ Len(t) >= 2 /\ Len(w) = max
    BY <1>1, <1>2, <1>4
  <2>3. r \in Seq(S) /\ Len(r) = Len(w) /\ \A j \in 1 .. Len(r) : r[j] = t[j + 1]
    BY <1>2, <2>1, <2>2
  <2> HIDE DEF r
  <2> DEFINE g == [j \in 1 .. Len(r) - 1 |-> f[j + 1]]
  <2>4. g \in [1 .. Len(r) - 1 -> (1 .. Len(s)) \ places]
    BY <2>2, <2>3
  <2>5. \A j \in 1 .. Len(r) - 1 : r[j] = s[g[j]]
    BY <1>2, <1>3, <2>2, <2>3, SMTT(40)
  <2>6. \A j, k \in 1 .. Len(r) - 1 : g[j] = g[k] => j = k
    BY <1>3, <2>2, <2>3
  <2>7. Taken(r, Len(r) - 1, s, places)
    BY <2>4, <2>5, <2>6 DEF Taken
  <2>8. Len(r) \in 1 .. max /\ r[Len(r)] = x
    BY <1>2, <2>2, <2>3
  <2>9. QED BY <2>3, <2>7, <2>8 DEF r, t, w
<1>5. CASE ~(Len(t) > max)
  <2>1. r = t
    BY <1>5 DEF Bounded
  <2>2. Len(w) \in Nat /\ Len(r) - 1 = Len(w)
    BY <1>1, <1>2, <2>1
  <2>3. Taken(r, Len(r) - 1, s, places)
    <3>1. \A j \in 1 .. Len(w) : r[j] = s[f[j]]
      BY <1>2, <1>3, <2>1
    <3>2. Taken(r, Len(w), s, places)
      BY <1>3, <3>1 DEF Taken
    <3>3. QED BY <2>2, <3>2
  <2>4. r \in Seq(S) /\ Len(r) \in 1 .. max /\ r[Len(r)] = x
    BY <1>2, <1>5, <2>1, <2>2
  <2>5. QED BY <2>3, <2>4 DEF r, t, w
<1>6. QED BY <1>4, <1>5

(* The files and the outcomes stay within their limits, one of each.        *)
LEMMA RegisterKeepsFiles ==
  ASSUME FilesInv, NEW id \in Id, Earlier(id.name), session'.opened = session.opened,
         files' = Bounded(Append(Without(files, Listed(id)), id), FilesMax)
  PROVE  FilesInv'
<1> DEFINE r == Bounded(Append(Without(files, Listed(id)), id), FilesMax)
<1>1. Listed(id) \in SUBSET (1 .. Len(files)) /\ \A i, j \in Listed(id) : i = j
  BY DEF Listed, FilesInv
<1>2. /\ r \in Seq(Id) /\ Len(r) \in 1 .. FilesMax /\ r[Len(r)] = id
      /\ Taken(r, Len(r) - 1, files, Listed(id))
  BY <1>1, EndsWith, LimitsAssumption DEF FilesInv
<1> HIDE DEF r
<1>3. PICK f \in [1 .. Len(r) - 1 -> (1 .. Len(files)) \ Listed(id)] :
        /\ \A j \in 1 .. Len(r) - 1 : r[j] = files[f[j]]
        /\ \A j, k \in 1 .. Len(r) - 1 : f[j] = f[k] => j = k
  BY <1>2 DEF Taken
<1>4. \A j \in 1 .. Len(r) - 1 : r[j] # id
  BY <1>3 DEF Listed
<1>5. \A j, k \in 1 .. Len(r) - 1 : r[j] = r[k] => j = k
  <2>1. TAKE j, k \in 1 .. Len(r) - 1
  <2>2. f[j] \in 1 .. Len(files) /\ f[k] \in 1 .. Len(files)
    BY <1>3
  <2>3. QED BY <1>3, <2>2 DEF FilesInv
<1>6. \A j, k \in 1 .. Len(r) : r[j] = r[k] => j = k
  BY <1>2, <1>4, <1>5, LimitsAssumption
<1>7. \A j \in 1 .. Len(r) - 1 : Earlier(r[j].name)
  BY <1>3 DEF FilesInv
<1>8. \A j \in 1 .. Len(r) : Earlier(r[j].name)
  BY <1>2, <1>7, LimitsAssumption
<1>9. files' = r
  BY DEF r
<1>10. (\A j \in 1 .. Len(files) : Earlier(files[j].name))'
  BY <1>8, <1>9 DEF Earlier
<1>11. QED BY <1>2, <1>6, <1>9, <1>10, LimitsAssumption DEF FilesInv

LEMMA DeleteKeepsFiles ==
  ASSUME FilesInv, NEW id \in Id, session'.opened = session.opened,
         files' = Without(files, Listed(id))
  PROVE  FilesInv'
<1>1. Listed(id) \in SUBSET (1 .. Len(files)) /\ \A i, j \in Listed(id) : i = j
  BY DEF Listed, FilesInv
<1>2. files' \in Seq(Id) /\ Len(files') <= Len(files) /\ Taken(files', Len(files'), files, Listed(id))
  BY <1>1, WithoutTakes DEF FilesInv
<1>3. PICK f \in [1 .. Len(files') -> (1 .. Len(files)) \ Listed(id)] :
        /\ \A j \in 1 .. Len(files') : files'[j] = files[f[j]]
        /\ \A j, k \in 1 .. Len(files') : f[j] = f[k] => j = k
  BY <1>2 DEF Taken
<1>4. \A j, k \in 1 .. Len(files') : files'[j] = files'[k] => j = k
  <2>1. TAKE j, k \in 1 .. Len(files')
  <2>2. f[j] \in 1 .. Len(files) /\ f[k] \in 1 .. Len(files)
    BY <1>3
  <2>3. QED BY <1>3, <2>2 DEF FilesInv
<1>5. (\A j \in 1 .. Len(files) : Earlier(files[j].name))'
  <2>1. SUFFICES ASSUME NEW j \in 1 .. Len(files') PROVE Earlier(files[f[j]].name)
    BY <1>3 DEF Earlier
  <2>2. f[j] \in 1 .. Len(files)
    BY <1>3
  <2>3. QED BY <2>2 DEF FilesInv
<1>6. Len(files) \in Nat /\ Len(files') \in Nat
  BY <1>2 DEF FilesInv
<1>7. Len(files') <= FilesMax
  BY <1>2, <1>6, LimitsAssumption DEF FilesInv
<1>8. QED BY <1>2, <1>4, <1>5, <1>7 DEF FilesInv

LEMMA NotedKeepsChecks ==
  ASSUME ChecksInv, NEW check \in Check, checks' = Noted(check),
         checking' \in {None, check.id}
  PROVE  ChecksInv' /\ Checked(check.id)' # {}
<1> DEFINE r == Bounded(Append(Without(checks, Checked(check.id)), check), ChecksMax)
<1>1. Checked(check.id) \in SUBSET (1 .. Len(checks)) /\ \A i, j \in Checked(check.id) : i = j
  BY DEF Checked, ChecksInv
<1>2. /\ r \in Seq(Check) /\ Len(r) \in 1 .. ChecksMax /\ r[Len(r)] = check
      /\ Taken(r, Len(r) - 1, checks, Checked(check.id))
  BY <1>1, EndsWith, LimitsAssumption DEF ChecksInv
<1> HIDE DEF r
<1>3. PICK f \in [1 .. Len(r) - 1 -> (1 .. Len(checks)) \ Checked(check.id)] :
        /\ \A j \in 1 .. Len(r) - 1 : r[j] = checks[f[j]]
        /\ \A j, k \in 1 .. Len(r) - 1 : f[j] = f[k] => j = k
  BY <1>2 DEF Taken
<1>4. \A j \in 1 .. Len(r) - 1 : r[j].id # check.id
  BY <1>3 DEF Checked
<1>5. \A j, k \in 1 .. Len(r) - 1 : r[j].id = r[k].id => j = k
  <2>1. TAKE j, k \in 1 .. Len(r) - 1
  <2>2. f[j] \in 1 .. Len(checks) /\ f[k] \in 1 .. Len(checks)
    BY <1>3
  <2>3. QED BY <1>3, <2>2 DEF ChecksInv
<1>6. \A j, k \in 1 .. Len(r) : r[j].id = r[k].id => j = k
  BY <1>2, <1>4, <1>5, LimitsAssumption
<1>7. checks' = r
  BY DEF r, Noted
<1>8. Len(checks') \in 1 .. Len(checks') /\ checks'[Len(checks')].id = check.id
  BY <1>2, <1>7, LimitsAssumption
<1>9. Checked(check.id)' # {}
  BY <1>8 DEF Checked
<1>10. CheckingListed'
  <2>1. CASE checking' = None
    BY <2>1 DEF CheckingListed
  <2>2. CASE checking' = check.id
    BY <1>9, <2>2 DEF CheckingListed, Checked
  <2>3. QED BY <2>1, <2>2
<1>11. QED BY <1>2, <1>6, <1>7, <1>9, <1>10, LimitsAssumption DEF ChecksInv

LEMMA DeleteKeepsChecks ==
  ASSUME ChecksInv, NEW id \in Id, checks' = Without(checks, Checked(id)),
         checking' = checking, checking # id
  PROVE  ChecksInv'
<1>1. Checked(id) \in SUBSET (1 .. Len(checks)) /\ \A i, j \in Checked(id) : i = j
  BY DEF Checked, ChecksInv
<1>2. checks' \in Seq(Check) /\ Len(checks') <= Len(checks) /\ Taken(checks', Len(checks'), checks, Checked(id))
      /\ Leaves(checks', checks, Checked(id))
  BY <1>1, WithoutTakes DEF ChecksInv
<1>3. PICK f \in [1 .. Len(checks') -> (1 .. Len(checks)) \ Checked(id)] :
        /\ \A j \in 1 .. Len(checks') : checks'[j] = checks[f[j]]
        /\ \A j, k \in 1 .. Len(checks') : f[j] = f[k] => j = k
  BY <1>2 DEF Taken
<1>4. \A j, k \in 1 .. Len(checks') : checks'[j].id = checks'[k].id => j = k
  <2>1. TAKE j, k \in 1 .. Len(checks')
  <2>2. f[j] \in 1 .. Len(checks) /\ f[k] \in 1 .. Len(checks)
    BY <1>3
  <2>3. QED BY <1>3, <2>2 DEF ChecksInv
<1>5. CheckingListed'
  <2>1. SUFFICES ASSUME checking # None PROVE Checked(checking)' # {}
    BY DEF CheckingListed, Checked
  <2>2. PICK i \in 1 .. Len(checks) : checks[i].id = checking
    BY <2>1 DEF ChecksInv, CheckingListed, Checked
  <2>3. i \in (1 .. Len(checks)) \ Checked(id)
    BY <2>2 DEF Checked
  <2>4. PICK j \in 1 .. Len(checks') : checks'[j] = checks[i]
    BY <1>2, <2>3 DEF Leaves
  <2>5. QED BY <2>2, <2>4 DEF Checked
<1>6. Len(checks) \in Nat /\ Len(checks') \in Nat
  BY <1>2 DEF ChecksInv
<1>7. Len(checks') <= ChecksMax
  BY <1>2, <1>6, LimitsAssumption DEF ChecksInv
<1>8. QED BY <1>2, <1>4, <1>5, <1>7 DEF ChecksInv

-----------------------------------------------------------------------------
(* The recorder. What commands leave of the files of a session.             *)
SameFiles(s, t) ==
  /\ t.opened = s.opened /\ t.writing = s.writing /\ t.listed = s.listed /\ t.last = s.last
  /\ t.service = s.service

LEMMA StreamStops ==
  ASSUME NEW s, RecorderSound(s)
  PROVE  RecorderSound(StopStream(s)) /\ SameFiles(s, StopStream(s))
<1>1. StopStream(s) \in Session
  BY DEF RecorderSound, StopStream, Session, Rest
<1>2. QED BY <1>1 DEF RecorderSound, StopStream, SameFiles, Session

LEMMA RecordingStops ==
  ASSUME NEW s, RecorderSound(s)
  PROVE  RecorderSound(StopRecording(s)) /\ SameFiles(s, StopRecording(s))
<1>1. StopRecording(s) \in Session
  BY DEF RecorderSound, StopRecording, Session, Rest
<1>2. QED BY <1>1 DEF RecorderSound, StopRecording, SameFiles, Session

LEMMA AllStops ==
  ASSUME NEW s, RecorderSound(s)
  PROVE  RecorderSound(StopAll(s)) /\ SameFiles(s, StopAll(s))
<1> DEFINE r == StopStream(s)
<1>1. RecorderSound(r) /\ SameFiles(s, r)
  BY StreamStops
<1> HIDE DEF r
<1>2. StopAll(s) = [r EXCEPT !.capture = IF @ = "running" THEN "stopping" ELSE @,
                             !.recording = IF @ \in {"starting", "running"} THEN "stopping" ELSE @,
                             !.target = "stopped", !.pending = FALSE, !.follow = FALSE]
  BY DEF StopAll, r
<1>3. StopAll(s) \in Session
  <2> DEFINE capture == IF r.capture = "running" THEN "stopping" ELSE r.capture
             recording == IF r.recording \in {"starting", "running"} THEN "stopping" ELSE r.recording
  <2>1. /\ capture \in Rest /\ r \in Session
        /\ recording \in {"stopped", "starting", "running", "stopping", "failed"}
    BY <1>1 DEF RecorderSound, Session, Rest
  <2>2. StopAll(s) = [r EXCEPT !.capture = capture, !.recording = recording,
                               !.target = "stopped", !.pending = FALSE, !.follow = FALSE]
    BY <1>2
  <2> HIDE DEF capture, recording
  <2>3. QED BY <2>1, <2>2, ZenonT(60) DEF Session
<1>4. QED BY <1>1, <1>2, <1>3 DEF RecorderSound, SameFiles, Session

LEMMA TerminatedSound ==
  ASSUME NEW s, RecorderSound(s)
  PROVE  LET t == Terminated(s)
         IN /\ RecorderSound(t)
            /\ t.opened = s.opened /\ t.writing = s.writing /\ t.listed = s.listed /\ t.last = s.last
            /\ t.service = "down" => s.service = "down"
<1>1. CASE s.service = "up"
  <2> DEFINE r == StopAll(s)
  <2>1. RecorderSound(r) /\ SameFiles(s, r)
    BY AllStops
  <2> HIDE DEF r
  <2>2. Terminated(s) = [r EXCEPT !.service = "stopping"]
    BY <1>1 DEF Terminated, r
  <2>3. Terminated(s) \in Session
    BY <2>1, <2>2 DEF RecorderSound, Session
  <2>4. QED BY <2>1, <2>2, <2>3 DEF RecorderSound, SameFiles, Session
<1>2. CASE s.service # "up"
  BY <1>2 DEF Terminated
<1>3. QED BY <1>1, <1>2

LEMMA RecordingStarts ==
  ASSUME NEW s, RecorderSound(s), s.recording \in {"stopped", "failed"}, s.opened < Fragments
  PROVE  RecorderSound(StartRecording(s)) /\ SameFiles(s, StartRecording(s))
<1>1. StartRecording(s) \in Session
  BY DEF RecorderSound, StartRecording, Session
<1>2. s.writing \ s.listed = {} /\ ~s.pending
  BY DEF RecorderSound, Session
<1>3. QED BY <1>1, <1>2, FragmentsAssumption DEF RecorderSound, StartRecording, SameFiles, Session

LEMMA StreamingSound ==
  ASSUME NEW s, NEW enabled, RecorderSound(s)
  PROVE  LET t == Streaming(s, enabled)
         IN /\ RecorderSound(t) /\ SameFiles(s, t)
            /\ t.recording = s.recording
<1>1. Streaming(s, enabled) \in Session
  <2> DEFINE stream == IF enabled /\ s.stream = "stopped" THEN "running" ELSE s.stream
  <2>1. stream \in Rest /\ s \in Session
    BY DEF RecorderSound, Session, Rest
  <2>2. Streaming(s, enabled) = [s EXCEPT !.follow = FALSE, !.stream = stream]
    BY DEF Streaming
  <2> HIDE DEF stream
  <2>3. QED BY <2>1, <2>2 DEF Session
<1>2. QED BY <1>1 DEF RecorderSound, Streaming, SameFiles, Session

(* What a step of the session does to the files: those it opens are new, and*)
(* it changes only those it has open.                                       *)
Recorded ==
  /\ session'.opened >= session.opened
  /\ \A n \in session'.writing : n \in session.writing \/ n > session.opened
  /\ \A n \in Name :
       disk'[n] = disk[n] \/ (n \in Fragment /\ (n > session.opened \/ n \in session.writing))

LEMMA FilesStand ==
  ASSUME RecorderInv, DiskInv, disk' = disk,
         session'.opened = session.opened,
         session'.writing \subseteq session.writing,
         session'.listed \ session'.writing \subseteq session.listed \ session.writing,
         session'.last \notin {None, session.last} => session'.last \in session.listed \ session.writing
  PROVE  DiskInv' /\ Recorded
<1>1. Recorded
  BY DEF Recorded, RecorderInv, RecorderSound, Session
<1>2. CopiesWhole'
  BY DEF DiskInv, CopiesWhole
<1>3. session'.last # None => session'.last \notin session'.writing /\ Kept(session'.last)
  BY DEF DiskInv
<1>4. QED BY <1>1, <1>2, <1>3 DEF DiskInv, Kept

LEMMA FragmentOpens ==
  ASSUME RecorderInv, DiskInv, NEW directory \in Directory, OpenFragment(directory)
  PROVE  RecorderInv' /\ DiskInv' /\ Recorded
<1> DEFINE n == session.opened + 1
           entry == [dir |-> directory, version |-> 1, links |-> 1, whole |-> FALSE]
<1>1. /\ session' = [session EXCEPT !.opened = n, !.writing = @ \cup {n}]
      /\ disk' = [disk EXCEPT ![n] = entry]
      /\ session.writing \subseteq session.listed
      /\ session.recording = "starting" \/ session.pending
      /\ session.opened = session.base
  BY DEF OpenFragment, OpensFragment
<1>2. n \in Fragment /\ session.opened \in Nat /\ session.opened < Fragments
  BY <1>1, FragmentsAssumption DEF RecorderInv, RecorderSound, Session, Fragment
<1>3. entry \in Entry /\ entry # None
  <2>1. entry \in Entry
    BY DEF Entry
  <2>2. QED BY <2>1, EntryAssumption
<1> HIDE DEF entry
<1>4. session' \in Session
  <2> DEFINE writing == session.writing \cup {n}
  <2>1. n \in 0 .. Fragments /\ writing \in SUBSET Fragment /\ session \in Session
    BY <1>2, FragmentsAssumption DEF RecorderInv, RecorderSound, Session, Fragment
  <2>2. session' = [session EXCEPT !.opened = n, !.writing = writing]
    BY <1>1
  <2> HIDE DEF writing, n
  <2>3. QED BY <2>1, <2>2 DEF Session
<1>5. RecorderInv'
  BY <1>1, <1>2, <1>4, FragmentsAssumption DEF RecorderInv, RecorderSound, Session, Fragment
<1>6. Fragment \subseteq Name /\ \A m \in Fragment : CopyOf(m) \in Name /\ CopyOf(m) \notin Fragment
  BY FragmentsAssumption DEF Fragment, Name, CopyOf
<1>7. disk' \in [Name -> Entry \cup {None}] /\ \A m \in Name : m # n => disk'[m] = disk[m]
  BY <1>1, <1>2, <1>3, <1>6 DEF DiskInv
<1>8. disk'[n] # None
  BY <1>1, <1>2, <1>3, <1>6 DEF DiskInv
<1>9. /\ session'.opened = n /\ session'.writing = session.writing \cup {n}
      /\ session'.listed = session.listed /\ session'.last = session.last
  BY <1>1 DEF RecorderInv, RecorderSound, Session
<1> HIDE DEF n
<1>10. session.opened < n /\ n \in Nat /\ session.writing \subseteq Fragment /\ session.listed \subseteq Fragment
       /\ n \notin session.listed /\ (session.last # None => session.last # n)
  BY <1>2 DEF n, RecorderInv, RecorderSound, Session, Fragment
<1>11. disk[CopyOf(n)] = None
  BY <1>2, <1>10 DEF DiskInv, Fragment
<1>12. CopiesWhole'
  BY <1>2, <1>6, <1>7, <1>11 DEF DiskInv, CopiesWhole, n
<1>13. \A m \in Fragment : disk'[m] # None \/ disk'[CopyOf(m)] # None => m <= n
  BY <1>2, <1>6, <1>7, <1>10 DEF DiskInv, Fragment
<1>14. session'.last # None => session'.last \notin session'.writing /\ Kept(session.last)'
  BY <1>6, <1>7, <1>9, <1>10 DEF DiskInv, Kept, RecorderInv, RecorderSound, Session
<1>15. \A m \in session'.listed \ session'.writing : Kept(m)'
  BY <1>6, <1>7, <1>9, <1>10 DEF DiskInv, Kept
<1>16. \A m \in session'.writing : disk'[m] # None
  BY <1>6, <1>7, <1>8, <1>9, <1>10 DEF DiskInv
<1>17. DiskInv'
  BY <1>7, <1>9, <1>12, <1>13, <1>14, <1>15, <1>16 DEF DiskInv
<1>18. Recorded
  BY <1>2, <1>7, <1>9, <1>10 DEF Recorded
<1>19. QED BY <1>5, <1>17, <1>18

LEMMA FragmentCloses ==
  ASSUME RecorderInv, DiskInv, CloseFragment
  PROVE  RecorderInv' /\ DiskInv' /\ Recorded
<1>1. PICK n \in session.writing :
        /\ session' = [session EXCEPT !.writing = @ \ {n}]
        /\ disk' = [disk EXCEPT ![n].version = 2, ![n].whole = TRUE]
  BY DEF CloseFragment
<1>2. n \in Fragment /\ n <= session.opened /\ session.writing \subseteq Fragment /\ session.listed \subseteq Fragment
  BY <1>1 DEF RecorderInv, RecorderSound, Session, Fragment
<1>3. session' \in Session /\ RecorderInv'
  BY <1>1 DEF RecorderInv, RecorderSound, Session
<1>4. Fragment \subseteq Name /\ \A m \in Fragment : CopyOf(m) \in Name /\ CopyOf(m) \notin Fragment
  BY FragmentsAssumption DEF Fragment, Name, CopyOf
<1>5. disk[n] \in Entry /\ disk[n] # None
  BY <1>1, <1>2, <1>4 DEF DiskInv
<1> DEFINE entry == [disk[n] EXCEPT !.version = 2, !.whole = TRUE]
<1>6. entry \in Entry /\ entry # None /\ entry.whole /\ entry.dir = disk[n].dir
  <2> DEFINE e == disk[n]
  <2>1. e \in Entry /\ 2 \in 0 .. 4
    BY <1>5
  <2>2. entry = [e EXCEPT !.version = 2, !.whole = TRUE]
    OBVIOUS
  <2> HIDE DEF e, entry
  <2>3. entry \in Entry /\ entry.whole /\ entry.dir = e.dir
    BY <2>1, <2>2 DEF Entry
  <2>4. QED BY <2>3, EntryAssumption DEF e
<1>7. disk' = [disk EXCEPT ![n] = entry]
  BY <1>1, <1>2, <1>4, <1>5 DEF DiskInv
<1> HIDE DEF entry
<1>8. disk' \in [Name -> Entry \cup {None}] /\ disk'[n] = entry /\ \A m \in Name : m # n => disk'[m] = disk[m]
  BY <1>2, <1>4, <1>6, <1>7 DEF DiskInv
<1>9. /\ session'.opened = session.opened /\ session'.writing = session.writing \ {n}
      /\ session'.listed = session.listed /\ session'.last = session.last
  BY <1>1 DEF RecorderInv, RecorderSound, Session
<1>10. CopiesWhole'
  BY <1>4, <1>5, <1>6, <1>8 DEF DiskInv, CopiesWhole
<1>11. \A m \in Fragment : disk'[m] # None \/ disk'[CopyOf(m)] # None => m <= session.opened
  BY <1>2, <1>4, <1>8 DEF DiskInv
<1>12. session'.last # None => session'.last \notin session'.writing /\ Kept(session.last)'
  BY <1>1, <1>4, <1>8, <1>9 DEF DiskInv, Kept, RecorderInv, RecorderSound, Session
<1>13. \A m \in session'.listed \ session'.writing : Kept(m)'
  BY <1>2, <1>4, <1>6, <1>8, <1>9 DEF DiskInv, Kept
<1>14. \A m \in session'.writing : disk'[m] # None
  BY <1>2, <1>4, <1>8, <1>9 DEF DiskInv
<1>15. DiskInv'
  BY <1>8, <1>9, <1>10, <1>11, <1>12, <1>13, <1>14 DEF DiskInv
<1>16. Recorded
  BY <1>2, <1>1, <1>8, <1>9 DEF Recorded, RecorderInv, RecorderSound, Session
<1>17. QED BY <1>3, <1>15, <1>16

LEMMA RecorderKeeps ==
  ASSUME RecorderInv, DiskInv, scenario \in Scenario, storage \in Storage, Recorder
  PROVE  RecorderInv' /\ DiskInv' /\ Recorded /\ storage' \in Storage /\ scenario' = scenario
<1>1. CASE ListFragment
  <2>1. /\ session' = [session EXCEPT !.listed = @ \cup session.writing]
        /\ UNCHANGED <<disk, storage, scenario>>
    BY <1>1 DEF ListFragment, Do
  <2>2. session' \in Session /\ RecorderInv'
    BY <2>1 DEF RecorderInv, RecorderSound, Session
  <2>3. /\ session'.opened = session.opened /\ session'.writing = session.writing
        /\ session'.listed = session.listed \cup session.writing /\ session'.last = session.last
    BY <2>1 DEF RecorderInv, RecorderSound, Session
  <2>4. DiskInv' /\ Recorded
    BY <2>1, <2>3, FilesStand
  <2>5. QED BY <2>1, <2>2, <2>4
<1>2. CASE FragmentClosed
  <2>1. PICK n \in session.listed \ session.writing :
          /\ session' = [session EXCEPT !.listed = @ \ {n},
                           !.last = IF session.recording \in {"running", "stopping"} THEN n ELSE @,
                           !.current = IF @ = n THEN None ELSE @]
          /\ UNCHANGED <<disk, storage, scenario>>
    BY <1>2 DEF FragmentClosed, Do
  <2>2. n \in Fragment /\ n <= session.opened
    BY <2>1 DEF RecorderInv, RecorderSound, Session
  <2> DEFINE last == IF session.recording \in {"running", "stopping"} THEN n ELSE session.last
             current == IF session.current = n THEN None ELSE session.current
  <2>3. /\ last \in Fragment \cup {None} /\ (last # None => last <= session.opened)
        /\ current \in Fragment \cup {None} /\ (current # None => current <= session.opened)
        /\ last \in {n, session.last}
    BY <2>2 DEF RecorderInv, RecorderSound, Session
  <2>4. session' = [session EXCEPT !.listed = @ \ {n}, !.last = last, !.current = current]
    BY <2>1
  <2> HIDE DEF last, current
  <2>5. session' \in Session
    BY <2>3, <2>4 DEF RecorderInv, RecorderSound, Session
  <2>6. RecorderInv'
    BY <2>1, <2>3, <2>4, <2>5 DEF RecorderInv, RecorderSound, Session
  <2>7. /\ session'.opened = session.opened /\ session'.writing = session.writing
        /\ session'.listed = session.listed \ {n} /\ session'.last = last
    BY <2>4 DEF RecorderInv, RecorderSound, Session
  <2>8. DiskInv' /\ Recorded
    BY <2>1, <2>3, <2>7, FilesStand
  <2>9. QED BY <2>1, <2>6, <2>8
<1>3. CASE RecordingRuns \/ RotationDue \/ Rotated \/ RecordingStopped \/ StreamStopped \/ CaptureStopped
  <2>1. UNCHANGED <<disk, storage, scenario>>
    BY <1>3 DEF RecordingRuns, RotationDue, Rotated, RecordingStopped, StreamStopped, CaptureStopped, Do
  <2>2. SameFiles(session, session')
    BY <1>3 DEF RecordingRuns, RotationDue, Rotated, RecordingStopped, StreamStopped, CaptureStopped, Do,
                RecorderInv, RecorderSound, Session, SameFiles
  <2>3. session.writing \subseteq Fragment /\ session.opened \in Nat
    BY DEF RecorderInv, RecorderSound, Session
  <2>4. ASSUME RecordingRuns PROVE RecorderInv'
    <3>1. session' = [session EXCEPT !.recording = "running", !.current = session.opened]
      BY <2>4 DEF RecordingRuns, Do
    <3>2. session.opened \in Fragment
      BY <2>4, <2>3 DEF RecordingRuns
    <3>3. session' \in Session
      BY <3>1, <3>2 DEF RecorderInv, RecorderSound, Session
    <3>4. RecorderInv'
      BY <2>4, <3>1, <3>3 DEF RecordingRuns, RecorderInv, RecorderSound, Session
    <3>5. QED BY <3>4
  <2>5. ASSUME RotationDue PROVE RecorderInv'
    <3>1. session' = [session EXCEPT !.pending = TRUE, !.base = session.opened]
      BY <2>5 DEF RotationDue, Do
    <3>2. session' \in Session
      BY <3>1 DEF RecorderInv, RecorderSound, Session
    <3>3. RecorderInv'
      BY <2>5, <3>1, <3>2 DEF RotationDue, RecorderInv, RecorderSound, Session
    <3>4. QED BY <3>3
  <2>6. ASSUME Rotated PROVE RecorderInv'
    <3>1. session' = [session EXCEPT !.pending = FALSE, !.current = session.opened]
      BY <2>6 DEF Rotated, Do
    <3>2. session.opened \in Fragment /\ session.opened \in session.listed
      BY <2>6 DEF Rotated, RecorderInv, RecorderSound, Session
    <3>3. session' \in Session
      BY <3>1, <3>2 DEF RecorderInv, RecorderSound, Session
    <3>4. RecorderInv'
      BY <3>1, <3>2, <3>3 DEF RecorderInv, RecorderSound, Session
    <3>5. QED BY <3>4
  <2>7. ASSUME RecordingStopped PROVE RecorderInv'
    <3>1. /\ session' = [session EXCEPT !.recording = session.target, !.current = None]
          /\ session.opened \notin session.writing /\ session.recording = "stopping"
      BY <2>7 DEF RecordingStopped, Do
    <3>2. session' \in Session
      BY <3>1 DEF RecorderInv, RecorderSound, Session
    <3>3. RecorderInv'
      BY <3>1, <3>2 DEF RecorderInv, RecorderSound, Session
    <3>4. QED BY <3>3
  <2>8. ASSUME StreamStopped \/ CaptureStopped PROVE RecorderInv'
    <3>1. session' \in {[session EXCEPT !.stream = "stopped"], [session EXCEPT !.capture = "stopped"]}
      BY <2>8 DEF StreamStopped, CaptureStopped, Do
    <3>2. session' \in Session
      BY <3>1 DEF RecorderInv, RecorderSound, Session, Rest
    <3>3. RecorderInv'
      BY <3>1, <3>2 DEF RecorderInv, RecorderSound, Session
    <3>4. QED BY <3>3
  <2>9. RecorderInv'
    BY <1>3, <2>4, <2>5, <2>6, <2>7, <2>8
  <2>10. DiskInv' /\ Recorded
    BY <2>1, <2>2, FilesStand DEF SameFiles
  <2>11. QED BY <2>1, <2>9, <2>10
<1>4. CASE RecordingFails
  <2> DEFINE recording == IF session.recording = "starting" /\ Destination(storage) = "ok"
                          THEN "failed" ELSE "stopping"
  <2>1. /\ session' = [session EXCEPT !.recording = recording,
                                      !.target = "failed", !.error = TRUE, !.pending = FALSE]
        /\ session.writing \subseteq session.listed
        /\ UNCHANGED <<disk, storage, scenario>>
    BY <1>4 DEF RecordingFails
  <2>2. recording \in {"failed", "stopping"}
    OBVIOUS
  <2> HIDE DEF recording
  <2>3. session' \in Session
    BY <2>1, <2>2 DEF RecorderInv, RecorderSound, Session
  <2>4. RecorderInv'
    BY <2>1, <2>2, <2>3 DEF RecorderInv, RecorderSound, Session
  <2>5. SameFiles(session, session')
    BY <2>1 DEF RecorderInv, RecorderSound, Session, SameFiles
  <2>6. DiskInv' /\ Recorded
    BY <2>1, <2>5, FilesStand DEF SameFiles
  <2>7. QED BY <2>1, <2>4, <2>6
<1>5. CASE StorageChanges
  <2>1. UNCHANGED <<session, disk, scenario>> /\ storage' \in scenario.storages
    BY <1>5 DEF StorageChanges
  <2>2. DiskInv' /\ Recorded
    BY <2>1, FilesStand
  <2>3. QED BY <2>1, <2>2 DEF Scenario, RecorderInv
<1>6. CASE CloseFragment
  BY <1>6, FragmentCloses DEF CloseFragment
<1>7. QED BY <1>1, <1>2, <1>3, <1>4, <1>5, <1>6 DEF Recorder

(* What a session does while the service stays: nothing it relies on        *)
(* changes but what the recorder does.                                      *)
GoesOn ==
  /\ RecorderInv' /\ DiskInv' /\ Recorded
  /\ (Down' => Down) /\ storage' \in Storage /\ scenario' = scenario

LEMMA SameFilesGoOn ==
  ASSUME RecorderInv, DiskInv, RecorderInv', SameFiles(session, session'), disk' = disk,
         storage \in Storage, storage' = storage, scenario' = scenario
  PROVE  GoesOn
<1>1. DiskInv' /\ Recorded
  BY FilesStand DEF SameFiles
<1>2. QED BY <1>1 DEF SameFiles, GoesOn, Down

LEMMA MediaGoesOn ==
  ASSUME RecorderInv, DiskInv, scenario \in Scenario, storage \in Storage, engine \in Config,
         Media, ~EndService, ~ServiceDies
  PROVE  GoesOn /\ UNCHANGED <<configVars, operation, libraryVars, maintenanceVars>>
<1>0. RecorderSound(session) /\ session \in Session
  BY DEF RecorderInv, RecorderSound
<1>1. CASE Recorder /\ NotSession
  <2>1. RecorderInv' /\ DiskInv' /\ Recorded /\ storage' \in Storage /\ scenario' = scenario
    BY <1>1, RecorderKeeps
  <2>2. session'.service = session.service
    BY <1>0, <1>1, RecorderService DEF Session
  <2>3. QED BY <1>1, <2>1, <2>2 DEF NotSession, GoesOn, Down
<1>2. CASE Bootstrap
  <2>1. /\ session' \in {[session EXCEPT !.boot = FALSE, !.capture = "running", !.follow = TRUE],
                         [session EXCEPT !.boot = FALSE]}
        /\ UNCHANGED <<disk, storage, scenario>> /\ NotSession
    BY <1>2 DEF Bootstrap, Do
  <2>2. ASSUME session' = [session EXCEPT !.boot = FALSE, !.capture = "running", !.follow = TRUE]
        PROVE  RecorderInv' /\ SameFiles(session, session')
    <3>1. session' \in Session
      BY <1>0, <2>2 DEF Session, Rest
    <3>2. QED BY <1>0, <2>2, <3>1 DEF RecorderInv, RecorderSound, SameFiles, Session
  <2>3. ASSUME session' = [session EXCEPT !.boot = FALSE]
        PROVE  RecorderInv' /\ SameFiles(session, session')
    <3>1. session' \in Session
      BY <1>0, <2>3 DEF Session
    <3>2. QED BY <1>0, <2>3, <3>1 DEF RecorderInv, RecorderSound, SameFiles, Session
  <2>4. QED BY <2>1, <2>2, <2>3, SameFilesGoOn DEF NotSession
<1>3. CASE MediaFollows
  <2> DEFINE s == Streaming(session, active.config.base.enabled)
  <2>1. RecorderSound(s) /\ SameFiles(session, s) /\ s.recording = session.recording
    BY <1>0, StreamingSound
  <2>2. /\ session' = s \/ (CanRecord /\ session' = StartRecording(s))
        /\ UNCHANGED <<disk, storage, scenario>> /\ NotSession
    BY <1>3 DEF MediaFollows, FollowCapture, Do
  <2> HIDE DEF s
  <2>3. CanRecord => RecorderSound(StartRecording(s)) /\ SameFiles(s, StartRecording(s))
    BY <2>1, RecordingStarts DEF CanRecord, SameFiles
  <2>4. RecorderInv' /\ SameFiles(session, session')
    BY <2>1, <2>2, <2>3 DEF SameFiles, RecorderInv
  <2>5. QED BY <2>2, <2>4, SameFilesGoOn DEF NotSession
<1>4. CASE EngineOpensFragment
  <2>1. OpenFragment(engine.directory) /\ NotSession /\ engine.directory \in Directory
    BY <1>4 DEF EngineOpensFragment, Config
  <2>2. RecorderInv' /\ DiskInv' /\ Recorded
    BY <2>1, FragmentOpens
  <2>3. UNCHANGED <<storage, scenario>> /\ session'.service = session.service
    BY <1>0, <2>1 DEF OpenFragment, Session
  <2>4. QED BY <2>1, <2>2, <2>3 DEF NotSession, GoesOn, Down
<1>5. CASE CommandStartCapture
  <2>1. /\ session' = [session EXCEPT !.capture = "running", !.follow = TRUE]
        /\ UNCHANGED <<disk, storage, scenario>> /\ NotSession
    BY <1>5 DEF CommandStartCapture, StartCapture, Do
  <2>2. session' \in Session
    BY <1>0, <2>1 DEF Session, Rest
  <2>3. RecorderInv' /\ SameFiles(session, session')
    BY <1>0, <2>1, <2>2 DEF RecorderInv, RecorderSound, SameFiles, Session
  <2>4. QED BY <2>1, <2>3, SameFilesGoOn DEF NotSession
<1>6. CASE CommandStartRecording
  <2>1. CanRecord /\ session' = StartRecording(session) /\ UNCHANGED <<disk, storage, scenario>> /\ NotSession
    BY <1>6 DEF CommandStartRecording
  <2>2. RecorderInv' /\ SameFiles(session, session')
    BY <1>0, <2>1, RecordingStarts DEF CanRecord, RecorderInv
  <2>3. QED BY <2>1, <2>2, SameFilesGoOn DEF NotSession
<1>7. CASE CommandStopRecording
  <2>1. session' = StopRecording(session) /\ UNCHANGED <<disk, storage, scenario>> /\ NotSession
    BY <1>7 DEF CommandStopRecording, Do
  <2>2. RecorderInv' /\ SameFiles(session, session')
    BY <1>0, <2>1, RecordingStops DEF RecorderInv
  <2>3. QED BY <2>1, <2>2, SameFilesGoOn DEF NotSession
<1>8. CASE CommandStopCapture
  <2>1. session' = StopAll(session) /\ UNCHANGED <<disk, storage, scenario>> /\ NotSession
    BY <1>8 DEF CommandStopCapture, Do
  <2>2. RecorderInv' /\ SameFiles(session, session')
    BY <1>0, <2>1, AllStops DEF RecorderInv
  <2>3. QED BY <2>1, <2>2, SameFilesGoOn DEF NotSession
<1>9. QED BY <1>1, <1>2, <1>3, <1>4, <1>5, <1>6, <1>7, <1>8 DEF Media

(* The helper stops what runs like any other client.                        *)
LEMMA HelperGoesOn ==
  ASSUME RecorderInv, DiskInv, storage \in Storage, HelperStepNext
  PROVE  GoesOn /\ UNCHANGED <<configVars, operation, libraryVars, disk>> /\ session'.opened = session.opened
<1>0. RecorderSound(session)
  BY DEF RecorderInv
<1>1. /\ UNCHANGED <<disk, storage, configVars, operation, libraryVars, scenario>>
      /\ session' \in {session, StopRecording(session), StopStream(session), StopAll(session),
                       Terminated(session)}
  <2>1. CASE StopsRecording \/ StopsStream \/ StopsCapture \/ StopService
    BY <2>1 DEF StopsRecording, StopsStream, StopsCapture, StopService, Stops, Quiet, Outside
  <2>2. CASE ~(StopsRecording \/ StopsStream \/ StopsCapture \/ StopService)
    BY <2>2 DEF HelperStepNext, Accept, TakeLifecycle, Look, AwaitRecording, AwaitStream, AwaitStopped,
                AwaitService, Verify, ActPower, ActRestart, Completed, HelperGivesUp, InstallerLocks,
                Quiet, Outside
  <2>3. QED BY <2>1, <2>2
<1>2. CASE session' = Terminated(session)
  <2> DEFINE t == Terminated(session)
  <2>1. /\ RecorderSound(t)
        /\ t.opened = session.opened /\ t.writing = session.writing /\ t.listed = session.listed
        /\ t.last = session.last /\ (t.service = "down" => session.service = "down")
    BY <1>0, TerminatedSound
  <2>2. session' = t
    BY <1>2
  <2> HIDE DEF t
  <2>3. RecorderInv' /\ (Down' => Down)
    BY <2>1, <2>2 DEF RecorderInv, Down
  <2>4. DiskInv' /\ Recorded
    BY <1>1, <2>1, <2>2, FilesStand
  <2>5. QED BY <1>1, <2>1, <2>2, <2>3, <2>4 DEF GoesOn
<1>3. CASE session' # Terminated(session)
  <2>1. RecorderInv' /\ SameFiles(session, session')
    <3>1. CASE session' = session
      BY <1>0, <3>1 DEF RecorderInv, SameFiles
    <3>2. CASE session' = StopRecording(session)
      BY <1>0, <3>2, RecordingStops DEF RecorderInv
    <3>3. CASE session' = StopStream(session)
      BY <1>0, <3>3, StreamStops DEF RecorderInv
    <3>4. CASE session' = StopAll(session)
      BY <1>0, <3>4, AllStops DEF RecorderInv
    <3>5. QED BY <1>1, <1>3, <3>1, <3>2, <3>3, <3>4
  <2>2. QED BY <1>1, <2>1, SameFilesGoOn DEF SameFiles
<1>4. QED BY <1>2, <1>3

(* The end of the service, or of the machine, and its start.                *)
LEMMA EndsKeep ==
  ASSUME RecorderInv, DiskInv, disk' = disk,
         \/ Off
         \/ \E exit \in {"clean", "failed"} :
              session' = [Idle EXCEPT !.service = "down", !.exit = exit, !.opened = session.opened]
  PROVE  RecorderInv' /\ DiskInv' /\ Recorded
<1>1. session.opened \in 0 .. Fragments
  BY DEF RecorderInv, RecorderSound, Session
<1>2. session' \in Session
  <2>1. Idle \in Session
    BY FragmentsAssumption DEF Idle, Session, Rest
  <2>2. CASE Off
    BY <1>1, <2>1, <2>2 DEF Off, Session
  <2>3. ASSUME NEW exit \in {"clean", "failed"},
               session' = [Idle EXCEPT !.service = "down", !.exit = exit, !.opened = session.opened]
        PROVE  session' \in Session
    BY <1>1, <2>1, <2>3 DEF Session
  <2>4. QED BY <2>2, <2>3
<1>3. /\ session'.opened = session.opened /\ session'.writing = {} /\ session'.listed = {}
      /\ session'.last = None /\ session'.current = None /\ session'.base = 0
      /\ ~session'.pending /\ session'.recording = "stopped"
  BY DEF Off, Idle
<1>4. RecorderInv'
  BY <1>1, <1>2, <1>3 DEF RecorderInv, RecorderSound
<1>5. QED BY <1>3, <1>4, FilesStand

-----------------------------------------------------------------------------
(* The library. What the recorder does takes no file from under anyone who  *)
(* was let at it.                                                           *)
LEMMA SettledStays ==
  ASSUME RecorderInv, RecorderInv', Recorded
  PROVE  /\ \A n \in Name : Earlier(n) => Earlier(n)'
         /\ \A n \in Name : Settled(n) => Settled(n)'
         /\ \A n \in Name : Settled(n) => disk'[n] = disk[n]
<1>1. session.opened \in Nat /\ session'.opened \in Nat /\ session'.opened >= session.opened
  BY FragmentsAssumption DEF RecorderInv, RecorderSound, Session, Recorded
<1>2. session.writing \subseteq Fragment /\ session'.writing \subseteq Fragment
  BY DEF RecorderInv, RecorderSound, Session
<1>3. Fragment \subseteq Nat
  BY DEF Fragment
<1>4. \A n \in Name : Earlier(n) => Earlier(n)'
  BY <1>1, <1>3 DEF Earlier
<1>5. ASSUME NEW n \in Name, Settled(n) PROVE n \notin session'.writing /\ disk'[n] = disk[n]
  <2>1. n \in Fragment => ~(n > session.opened)
    <3>1. n \in Fragment => n <= session.opened /\ n \in Nat
      BY <1>3, <1>5 DEF Settled, Earlier
    <3>2. QED BY <1>1, <3>1
  <2>2. QED BY <1>2, <1>5, <2>1 DEF Settled, Recorded
<1>6. QED BY <1>4, <1>5 DEF Settled

LEMMA NamesApart ==
  /\ Fragment \subseteq Name /\ Fragment \subseteq Nat /\ Partial \in Name /\ Partial \notin Fragment
  /\ \A n \in Fragment : CopyOf(n) \in Name /\ CopyOf(n) \notin Fragment /\ CopyOf(n) # Partial
  /\ \A m, n \in Fragment : CopyOf(m) = CopyOf(n) => m = n
BY FragmentsAssumption DEF Fragment, Name, CopyOf, Partial

LEMMA LibraryGoesOn ==
  ASSUME RecorderInv, RecorderInv', LibraryInv, Recorded, Down' => Down,
         UNCHANGED <<libraryVars, operation>>, operation = None \/ IsUpdate(operation) \/ active' = active
  PROVE  LibraryInv'
<1>1. UNCHANGED <<files, checks, checking, worker, reading, operation>>
  BY DEF libraryVars
<1>2. /\ \A n \in Name : Earlier(n) => Earlier(n)'
      /\ \A n \in Name : Settled(n) => Settled(n)'
      /\ \A n \in Name : Settled(n) => disk'[n] = disk[n]
  BY SettledStays
<1>3. \A id \in Id : id.name \in Name
  BY DEF Id
<1>4. FilesInv'
  <2>1. \A i \in 1 .. Len(files) : files[i].name \in Name
    BY <1>3 DEF LibraryInv, FilesInv
  <2>2. (\A i \in 1 .. Len(files) : Earlier(files[i].name))'
    BY <1>1, <1>2, <2>1 DEF LibraryInv, FilesInv
  <2>3. QED BY <1>1, <2>2 DEF LibraryInv, FilesInv
<1>5. ChecksInv'
  BY <1>1 DEF LibraryInv, ChecksInv, CheckingListed, Checked
<1>6. MutationInv'
  <2>1. SUFFICES ASSUME operation # None, ~IsUpdate(operation) PROVE MutationInv'
    BY <1>1 DEF MutationInv, IsUpdate
  <2>2. operation \in LibraryOperation /\ operation.id.name \in Name
    BY <1>3, <2>1 DEF LibraryInv, MutationInv, LibraryOperation
  <2>3. Root' = Root
    BY <2>1 DEF Root
  <2>4. QED BY <1>1, <1>2, <2>1, <2>2, <2>3 DEF LibraryInv, MutationInv
<1>7. ReadingInv'
  <2>1. SUFFICES ASSUME reading # None PROVE ReadingInv'
    BY <1>1 DEF ReadingInv
  <2>2. reading \in Reading /\ reading.id.name \in Name
    BY <1>3, <2>1 DEF LibraryInv, ReadingInv, Reading
  <2>3. QED BY <1>1, <1>2, <2>1, <2>2 DEF LibraryInv, ReadingInv
<1>8. WorkerInv'
  <2>1. SUFFICES ASSUME worker # None PROVE WorkerInv'
    BY <1>1 DEF WorkerInv
  <2>2. worker \in Worker /\ worker.id.name \in Name /\ Settled(worker.id.name)
    BY <1>3, <2>1 DEF LibraryInv, WorkerInv, Worker
  <2>3. Settled(worker.id.name)' /\ disk'[worker.id.name] = disk[worker.id.name]
    BY <1>1, <1>2, <2>2
  <2>4. Stands(worker.id) => Stands(worker.id)'
    BY <1>1, <2>3 DEF Stands
  <2>5. disk'[Partial] = disk[Partial]
    BY NamesApart DEF Recorded
  <2>6. worker.step # "begun" => Target' = Target /\ disk'[Target] = disk[Target]
    <3>1. SUFFICES ASSUME worker.step # "begun" PROVE disk'[Target] = disk[Target]
      BY <1>1 DEF Target
    <3>2. worker.id.name \in Fragment
      BY <2>1, <3>1 DEF LibraryInv, WorkerInv
    <3>3. QED BY <3>2, NamesApart DEF Recorded, Target
  <2>7. QED BY <1>1, <2>1, <2>2, <2>3, <2>4, <2>5, <2>6 DEF LibraryInv, WorkerInv
<1>9. QED BY <1>1, <1>4, <1>5, <1>6, <1>7, <1>8 DEF LibraryInv

(* Parts of the invariant that a step of the library leaves alone.          *)
Alike == session' = session /\ active' = active

LEMMA PartsStand ==
  ASSUME LibraryInv, Alike
  PROVE  /\ files' = files => FilesInv'
         /\ checks' = checks /\ checking' = checking => ChecksInv'
         /\ operation' = operation /\ checking' \in {checking, None} => MutationInv'
         /\ operation' = None => MutationInv'
         /\ reading' = reading => ReadingInv'
         /\ worker' = worker /\ checking' = checking /\ disk' = disk => WorkerInv'
         /\ operation' \in {operation, None} => (Down => operation = None)'
<1> USE DEF Alike
<1>1. ASSUME files' = files PROVE FilesInv'
  BY <1>1 DEF LibraryInv, FilesInv, Earlier
<1>2. ASSUME checks' = checks, checking' = checking PROVE ChecksInv'
  BY <1>2 DEF LibraryInv, ChecksInv, CheckingListed, Checked
<1>3. ASSUME operation' = operation, checking' \in {checking, None} PROVE MutationInv'
  <2>1. SUFFICES ASSUME operation # None, ~IsUpdate(operation) PROVE MutationInv'
    BY <1>3 DEF MutationInv, IsUpdate
  <2>2. operation \in LibraryOperation /\ operation.id # None
    BY <2>1, IdAssumption DEF LibraryInv, MutationInv, LibraryOperation
  <2>3. QED BY <1>3, <2>1, <2>2 DEF LibraryInv, MutationInv, Earlier, Settled, Root, IsUpdate
<1>4. operation' = None => MutationInv'
  BY DEF MutationInv
<1>5. ASSUME reading' = reading PROVE ReadingInv'
  BY <1>5 DEF LibraryInv, ReadingInv, Earlier, Settled
<1>6. ASSUME worker' = worker, checking' = checking, disk' = disk PROVE WorkerInv'
  BY <1>6 DEF LibraryInv, WorkerInv, Earlier, Settled, Stands, Target
<1>7. operation' \in {operation, None} => (Down => operation = None)'
  BY DEF LibraryInv, Down
<1>8. QED BY <1>1, <1>2, <1>3, <1>4, <1>5, <1>6, <1>7

(* Who is not protected is not open, and stays so.                          *)
LEMMA UnprotectedSettled ==
  ASSUME RecorderInv, NEW n, Earlier(n), ~Protected(n)
  PROVE  Settled(n)
BY DEF RecorderInv, RecorderSound, Protected, Settled

(* The id of a file that stands.                                            *)
LEMMA OpenableIds ==
  ASSUME LibraryInv, NEW i \in 1 .. Len(files), Openable(files[i])
  PROVE  files[i] \in Id /\ Earlier(files[i].name) /\ files[i].dir = Root
BY DEF LibraryInv, FilesInv, Openable

LEMMA ReadingKeeps ==
  ASSUME RecorderInv, DiskInv, LibraryInv, active \in Document,
         Register \/ BeginRead \/ ExamineRead \/ FinishRead
  PROVE  LibraryInv' /\ UNCHANGED <<session, disk, storage, configVars, operation, scenario>>
<1>1. CASE Register
  <2>1. PICK n \in Name \ {Partial} :
          /\ disk[n] # None
          /\ LET id == [dir |-> Root, name |-> n, version |-> disk[n].version]
             IN files' = Bounded(Append(Without(files, Listed(id)), id), FilesMax)
    BY <1>1 DEF Register
  <2>2. UNCHANGED <<session, disk, storage, configVars, operation, checks, checking, worker, reading, scenario>>
    BY <1>1 DEF Register, sessionVars
  <2> DEFINE id == [dir |-> Root, name |-> n, version |-> disk[n].version]
  <2>3. disk[n].version \in Nat /\ Root \in Directory
    BY <2>1 DEF DiskInv, Entry, Root, Document, Config
  <2>4. id \in Id /\ id.name = n
    BY <2>3 DEF Id
  <2>5. Earlier(n)
    BY <2>1 DEF DiskInv, Earlier
  <2>6. files' = Bounded(Append(Without(files, Listed(id)), id), FilesMax)
    BY <2>1
  <2> HIDE DEF id
  <2>7. FilesInv'
    BY <2>2, <2>4, <2>5, <2>6, RegisterKeepsFiles DEF LibraryInv
  <2>8. Alike
    BY <2>2 DEF Alike, configVars
  <2>9. QED BY <2>2, <2>7, <2>8, PartsStand DEF LibraryInv
<1>2. CASE BeginRead \/ ExamineRead \/ FinishRead
  <2>1. UNCHANGED <<session, disk, storage, configVars, operation, files, checks, checking, worker, scenario>>
    BY <1>2 DEF BeginRead, ExamineRead, FinishRead, Library, sessionVars
  <2>2. Alike
    BY <2>1 DEF Alike, configVars
  <2>3. ReadingInv'
    <3>1. ASSUME BeginRead PROVE ReadingInv'
      <4>1. PICK i \in 1 .. Len(files) : Openable(files[i]) /\ reading' = [id |-> files[i], step |-> "opened"]
        BY <3>1 DEF BeginRead, Library
      <4>2. files[i] \in Id /\ Earlier(files[i].name)
        BY <4>1, OpenableIds
      <4>3. reading' \in Reading /\ reading'.step = "opened" /\ reading'.id = files[i]
        BY <4>1, <4>2 DEF Reading
      <4>4. Earlier(files[i].name)'
        BY <2>1, <4>2 DEF Earlier
      <4>5. QED BY <2>1, <4>3, <4>4 DEF ReadingInv
    <3>2. ASSUME ExamineRead PROVE ReadingInv'
      <4>1. CASE reading' = None
        BY <4>1 DEF ReadingInv
      <4>2. CASE reading' # None
        <5>1. reading # None /\ ~Protected(reading.id.name) /\ reading' = [reading EXCEPT !.step = "allowed"]
          BY <3>2, <4>2 DEF ExamineRead, Library
        <5>2. reading \in Reading /\ Earlier(reading.id.name)
          BY <5>1 DEF LibraryInv, ReadingInv
        <5>3. Settled(reading.id.name)
          BY <5>1, <5>2, UnprotectedSettled
        <5>4. reading' \in Reading /\ reading'.id = reading.id
          BY <5>1, <5>2 DEF Reading
        <5>5. Earlier(reading.id.name)' /\ Settled(reading.id.name)'
          BY <2>1, <5>2, <5>3, <5>4 DEF Earlier, Settled
        <5>6. QED BY <5>4, <5>5 DEF ReadingInv
      <4>3. QED BY <4>1, <4>2
    <3>3. ASSUME FinishRead PROVE ReadingInv'
      <4>1. CASE reading' = None
        BY <4>1 DEF ReadingInv
      <4>2. CASE reading' # None
        <5>1. reading # None /\ reading.step = "allowed" /\ reading' = [reading EXCEPT !.step = "read"]
          BY <3>3, <4>2 DEF FinishRead, Library
        <5>2. reading \in Reading /\ Settled(reading.id.name)
          BY <5>1 DEF LibraryInv, ReadingInv
        <5>3. reading' \in Reading /\ reading'.id = reading.id
          BY <5>1, <5>2 DEF Reading
        <5>4. Earlier(reading.id.name)' /\ Settled(reading.id.name)'
          BY <2>1, <5>2, <5>3 DEF Earlier, Settled
        <5>5. QED BY <5>3, <5>4 DEF ReadingInv
      <4>3. QED BY <4>1, <4>2
    <3>4. QED BY <1>2, <3>1, <3>2, <3>3
  <2>4. QED BY <2>1, <2>2, <2>3, PartsStand DEF LibraryInv
<1>3. QED BY <1>1, <1>2

(* A library step leaves each fragment, or takes one away that no sink has  *)
(* open; what it publishes is whole and beside its source.                  *)
DiskByLibrary ==
  /\ disk' \in [Name -> Entry \cup {None}]
  /\ \A n \in Fragment : disk'[n] = disk[n] \/ (disk'[n] = None /\ n \notin session.writing)
  /\ \A n \in Fragment : disk'[CopyOf(n)] # None =>
       /\ n <= session.opened
       /\ disk'[CopyOf(n)].whole /\ (disk'[n] # None => disk'[n].dir = disk'[CopyOf(n)].dir)

LEMMA LibraryKeepsDisk ==
  ASSUME RecorderInv, DiskInv, session' = session, DiskByLibrary
  PROVE  DiskInv'
<1>1. /\ session.writing \subseteq Fragment /\ session.listed \subseteq Fragment
      /\ session.last # None => session.last \in Fragment
  BY DEF RecorderInv, RecorderSound, Session
<1>2. CopiesWhole'
  BY DEF DiskByLibrary, CopiesWhole
<1>3. \A n \in session.listed \ session.writing : Kept(n)'
  BY <1>1 DEF DiskInv, DiskByLibrary, Kept
<1>4. session.last # None => session.last \notin session.writing /\ Kept(session.last)'
  BY <1>1 DEF DiskInv, DiskByLibrary, Kept
<1>5. \A n \in session.writing : disk'[n] # None
  BY <1>1 DEF DiskInv, DiskByLibrary
<1>6. \A n \in Fragment : disk'[n] # None \/ disk'[CopyOf(n)] # None => n <= session.opened
  BY DEF DiskInv, DiskByLibrary
<1>7. QED BY <1>2, <1>3, <1>4, <1>5, <1>6 DEF DiskInv, DiskByLibrary, Kept

LEMMA SameDiskByLibrary ==
  ASSUME DiskInv, disk' = disk
  PROVE  DiskByLibrary
BY DEF DiskInv, DiskByLibrary, CopiesWhole

(* Deleting, and what comes before a check or a recovery.                   *)
LEMMA OpeningKeeps ==
  ASSUME RecorderInv, LibraryInv, scenario \in Scenario, BeginMutation
  PROVE  LibraryInv' /\ UNCHANGED <<session, disk, storage, configVars, scenario>>
<1>1. PICK i \in 1 .. Len(files), kind \in scenario.mutations :
        /\ Openable(files[i])
        /\ kind = "recover" => Recoverable(files[i].name)
        /\ operation' = [kind |-> kind, id |-> files[i], step |-> "opened"]
  BY DEF BeginMutation
<1>2. UNCHANGED <<session, disk, storage, configVars, libraryVars, scenario>> /\ ~Down
  BY DEF BeginMutation, Unlocked, Up, Down, sessionVars
<1>3. files[i] \in Id /\ Earlier(files[i].name) /\ files[i].dir = Root
  BY <1>1, OpenableIds
<1>4. kind \in {"delete", "check", "recover"}
  BY DEF Scenario
<1>5. /\ operation' \in LibraryOperation /\ operation'.id = files[i]
      /\ operation'.kind = kind /\ operation'.step = "opened"
  BY <1>1, <1>3, <1>4 DEF LibraryOperation
<1>6. kind = "recover" => files[i].name \in Fragment
  BY <1>1 DEF Recoverable
<1>7. Earlier(operation.id.name)' /\ Root' = Root /\ ~Down'
  BY <1>2, <1>3, <1>5 DEF Earlier, Root, configVars, Down
<1>8. MutationInv'
  BY <1>3, <1>5, <1>6, <1>7 DEF MutationInv
<1>9. Alike
  BY <1>2 DEF Alike, configVars
<1>10. QED BY <1>2, <1>7, <1>8, <1>9, PartsStand DEF LibraryInv, libraryVars

(* What holds the operation lock, if it is the library's.                   *)
LEMMA MutatingId ==
  ASSUME LibraryInv, NEW kinds \in SUBSET {"delete", "check", "recover"}, NEW step, Mutating(kinds, step)
  PROVE  /\ operation \in LibraryOperation /\ operation.kind \in kinds /\ operation.step = step
         /\ operation.id \in Id /\ operation.id.dir = Root /\ Earlier(operation.id.name)
         /\ operation.kind = "recover" => operation.id.name \in Fragment
         /\ step = "allowed" => Settled(operation.id.name)
         /\ step = "allowed" /\ operation.kind = "delete" => checking # operation.id
<1>1. operation # None /\ ~IsUpdate(operation)
  BY DEF Mutating, IsUpdate
<1>2. QED BY <1>1 DEF LibraryInv, MutationInv, LibraryOperation, Mutating

LEMMA ExaminingKeeps ==
  ASSUME RecorderInv, LibraryInv, ExamineDelete \/ ExamineWork
  PROVE  LibraryInv' /\ UNCHANGED <<session, disk, storage, configVars, scenario>>
<1>1. UNCHANGED <<session, disk, storage, configVars, libraryVars, scenario>>
  BY DEF ExamineDelete, ExamineWork, Refuse, Allow, Mutation
<1>2. Alike /\ operation # None
  BY <1>1 DEF Alike, configVars, ExamineDelete, ExamineWork, Mutating
<1>3. CASE operation' = None
  BY <1>1, <1>2, <1>3, PartsStand DEF LibraryInv, libraryVars
<1>4. CASE operation' # None
  <2>1. /\ operation' = [kind |-> operation.kind, id |-> operation.id, step |-> "allowed"]
        /\ ~Protected(operation.id.name)
        /\ ExamineDelete => checking # operation.id
    BY <1>4 DEF ExamineDelete, ExamineWork, Refuse, Allow
  <2>2. /\ operation \in LibraryOperation /\ operation.id \in Id /\ operation.id.dir = Root
        /\ Earlier(operation.id.name)
        /\ operation.kind = "recover" => operation.id.name \in Fragment
        /\ operation.kind = "delete" => ExamineDelete
    <3>1. CASE ExamineDelete
      BY <3>1, MutatingId DEF ExamineDelete
    <3>2. CASE ExamineWork
      BY <3>2, MutatingId DEF ExamineWork
    <3>3. QED BY <3>1, <3>2
  <2>3. Settled(operation.id.name)
    BY <2>1, <2>2, UnprotectedSettled
  <2>4. /\ operation' \in LibraryOperation /\ operation'.id = operation.id
        /\ operation'.kind = operation.kind
    BY <2>1, <2>2 DEF LibraryOperation
  <2>5. Earlier(operation.id.name)' /\ Settled(operation.id.name)' /\ Root' = Root
    BY <1>1, <2>2, <2>3, <2>4 DEF Earlier, Settled, Root, configVars
  <2>6. checking' = checking /\ ~Down'
    BY <1>1, <1>2 DEF libraryVars, LibraryInv, Down
  <2>7. MutationInv'
    BY <2>1, <2>2, <2>4, <2>5, <2>6 DEF MutationInv
  <2>8. QED BY <1>1, <1>2, <2>6, <2>7, PartsStand DEF LibraryInv, libraryVars
<1>5. QED BY <1>1, <1>3, <1>4

LEMMA DeleteKeeps ==
  ASSUME RecorderInv, DiskInv, LibraryInv, Delete
  PROVE  LibraryInv' /\ DiskByLibrary /\ UNCHANGED <<session, storage, configVars, scenario>>
<1> DEFINE id == operation.id
<1>1. UNCHANGED <<session, storage, configVars, scenario>> /\ Alike /\ operation' = None
      /\ UNCHANGED <<checking, worker, reading>>
  BY DEF Delete, Mutation, Refuse, Alike, configVars, libraryVars
<1>2. id \in Id /\ Settled(id.name) /\ checking # id
  BY MutatingId DEF Delete
<1>3. id.name \in Name /\ id.name # Partial
  BY <1>2 DEF Id
<1>4. CASE ~Stands(id)
  BY <1>1, <1>4, PartsStand, SameDiskByLibrary DEF Delete, Refuse, LibraryInv, libraryVars
<1>5. CASE Stands(id)
  <2>1. /\ disk' = [disk EXCEPT ![id.name] = None]
        /\ files' = Without(files, Listed(id))
        /\ checks' = Without(checks, Checked(id))
    BY <1>5 DEF Delete
  <2> HIDE DEF id
  <2>2. /\ disk' \in [Name -> Entry \cup {None}]
        /\ disk'[id.name] = None /\ \A n \in Name : n # id.name => disk'[n] = disk[n]
    BY <1>3, <2>1 DEF DiskInv
  <2>3. DiskByLibrary
    <3>1. \A n \in Fragment : disk'[n] = disk[n] \/ (disk'[n] = None /\ n \notin session.writing)
      BY <1>2, <2>2, NamesApart DEF Settled
    <3>2. \A n \in Fragment : disk'[CopyOf(n)] # None =>
            /\ n <= session.opened
            /\ disk'[CopyOf(n)].whole /\ (disk'[n] # None => disk'[n].dir = disk'[CopyOf(n)].dir)
      BY <2>2, NamesApart DEF DiskInv, CopiesWhole
    <3>3. QED BY <2>2, <3>1, <3>2 DEF DiskByLibrary
  <2>4. FilesInv'
    BY <1>1, <1>2, <2>1, DeleteKeepsFiles DEF LibraryInv
  <2>5. ChecksInv'
    BY <1>1, <1>2, <2>1, DeleteKeepsChecks DEF LibraryInv
  <2>6. WorkerInv'
    <3>1. SUFFICES ASSUME worker # None PROVE WorkerInv'
      BY <1>1 DEF WorkerInv
    <3>2. worker \in Worker /\ Settled(worker.id.name) /\ checking = worker.id /\ worker.id \in Id
      BY <3>1 DEF LibraryInv, WorkerInv, Worker
    <3>3. Settled(worker.id.name)'
      BY <1>1, <3>2 DEF Settled, Earlier
    <3>4. CASE worker.step = "begun"
      BY <1>1, <3>1, <3>2, <3>3, <3>4 DEF LibraryInv, WorkerInv
    <3>5. CASE worker.step # "begun"
      <4>1. Stands(worker.id) /\ worker.id.name \in Fragment
        BY <3>1, <3>5 DEF LibraryInv, WorkerInv
      <4>2. worker.id.name # id.name
        <5>1. SUFFICES ASSUME worker.id.name = id.name PROVE worker.id = id
          BY <1>2, <3>2
        <5>2. worker.id.dir = id.dir /\ worker.id.version = id.version
          BY <1>5, <4>1, <5>1 DEF Stands, id
        <5>3. QED BY <1>2, <3>2, <5>1, <5>2 DEF Id
      <4>3. Stands(worker.id)'
        BY <1>1, <2>2, <4>1, <4>2, NamesApart DEF Stands
      <4>4. disk'[Partial] = disk[Partial]
        BY <1>3, <2>2, NamesApart
      <4>5. worker.step = "linked" => disk'[Target] = disk[Target] /\ Target' = Target
        <5>1. SUFFICES ASSUME worker.step = "linked" PROVE Target # id.name
          BY <1>1, <2>2, <4>1, NamesApart DEF Target
        <5>2. disk[Target].links = 2
          BY <3>1, <5>1 DEF LibraryInv, WorkerInv
        <5>3. disk[id.name].links = 1
          BY <1>5 DEF Stands, id
        <5>4. QED BY <5>2, <5>3
      <4>6. QED BY <1>1, <3>1, <3>2, <3>3, <4>1, <4>3, <4>4, <4>5 DEF LibraryInv, WorkerInv
    <3>6. QED BY <3>4, <3>5
  <2>7. QED BY <1>1, <2>3, <2>4, <2>5, <2>6, PartsStand DEF LibraryInv
<1>6. QED BY <1>4, <1>5

LEMMA StartKeeps ==
  ASSUME RecorderInv, DiskInv, LibraryInv, active \in Document, StartWork
  PROVE  LibraryInv' /\ UNCHANGED <<session, disk, storage, configVars, scenario>>
<1> DEFINE id == operation.id
           check == [id |-> id, state |-> Begun(operation.kind), copy |-> None]
<1>1. UNCHANGED <<session, disk, storage, configVars, scenario, files, reading>> /\ Alike /\ operation' = None
  BY DEF StartWork, Mutation, Refuse, Alike, configVars, libraryVars
<1>2. /\ id \in Id /\ Settled(id.name) /\ id.dir = Root
      /\ operation.kind \in {"check", "recover"}
      /\ operation.kind = "recover" => id.name \in Fragment
  BY MutatingId DEF StartWork
<1>3. CASE UNCHANGED libraryVars
  BY <1>1, <1>3, PartsStand DEF LibraryInv, libraryVars
<1>4. CASE ~UNCHANGED libraryVars
  <2>1. /\ checks' = Noted(check) /\ checking = None
        /\ IF scenario.tools
           THEN /\ checking' = id
                /\ worker' = [action |-> operation.kind, id |-> id, dir |-> Root, step |-> "begun"]
           ELSE UNCHANGED <<checking, worker>>
    BY <1>4 DEF StartWork, Refuse
  <2>2. check \in Check /\ check.id = id
    BY <1>2 DEF Check, Begun, Outcome
  <2> HIDE DEF check
  <2>3. checking' \in {None, check.id}
    BY <2>1, <2>2
  <2>4. ChecksInv'
    BY <2>1, <2>2, <2>3, NotedKeepsChecks DEF LibraryInv
  <2>5. Root \in Directory
    BY DEF Root, Document, Config
  <2>6. WorkerInv' /\ checking' \in Id \cup {None}
    <3>1. CASE ~scenario.tools
      BY <1>1, <2>1, <3>1, PartsStand DEF LibraryInv
    <3>2. CASE scenario.tools
      <4> HIDE DEF id
      <4>1. /\ worker' \in Worker /\ worker'.id = id /\ worker'.dir = Root
            /\ worker'.action = operation.kind /\ worker'.step = "begun" /\ checking' = id
        BY <1>2, <2>1, <2>5, <3>2 DEF Worker
      <4>2. Settled(worker.id.name)'
        BY <1>1, <1>2, <4>1 DEF Settled, Earlier
      <4>3. QED BY <1>2, <4>1, <4>2 DEF WorkerInv
    <3>3. QED BY <3>1, <3>2
  <2>7. QED BY <1>1, <2>4, <2>6, PartsStand DEF LibraryInv
<1>5. QED BY <1>3, <1>4

(* The worker ends: its outcome replaces the one that stands for its id.    *)
LEMMA EndsKeepsChecks ==
  ASSUME LibraryInv, worker # None, NEW outcome \in Outcome, NEW copy \in Copy \cup {None},
         Ends(outcome, copy)
  PROVE  ChecksInv' /\ checking' = None /\ worker' = None
<1> DEFINE id == worker.id
           check == [id |-> id, state |-> outcome, copy |-> copy]
<1>1. id \in Id /\ checking = id
  BY DEF LibraryInv, WorkerInv, Worker
<1>2. Checked(id) # {}
  BY <1>1, IdAssumption DEF LibraryInv, ChecksInv, CheckingListed
<1>3. check \in Check /\ check.id = id
  BY <1>1 DEF Check
<1>4. /\ checks' = [i \in 1 .. Len(checks) |-> IF i \in Checked(id) THEN check ELSE checks[i]]
      /\ checking' = None /\ worker' = None
  BY <1>2 DEF Ends
<1> HIDE DEF check, id
<1>5. checks \in Seq(Check) /\ Len(checks) \in Nat
  BY DEF LibraryInv, ChecksInv
<1>6. checks' \in Seq(Check) /\ Len(checks') = Len(checks)
  BY <1>3, <1>4, <1>5
<1>7. \A i \in 1 .. Len(checks) : checks'[i].id = checks[i].id
  BY <1>3, <1>4 DEF Checked
<1>8. QED BY <1>4, <1>6, <1>7 DEF LibraryInv, ChecksInv, CheckingListed

LEMMA WorkerEnds ==
  ASSUME LibraryInv, worker # None, NEW outcome \in Outcome, NEW copy \in Copy \cup {None},
         Ends(outcome, copy), Alike, UNCHANGED <<operation, files, reading>>
  PROVE  LibraryInv'
<1>1. ChecksInv' /\ checking' = None /\ worker' = None
  BY EndsKeepsChecks
<1>2. WorkerInv'
  BY <1>1 DEF WorkerInv
<1>3. QED BY <1>1, <1>2, PartsStand DEF LibraryInv

(* The worker goes on: only what is said of its step is new.                *)
LEMMA WorkerAdvances ==
  ASSUME LibraryInv, worker # None, NEW step \in {"created", "validated", "linked"}, Advances(step),
         Alike, UNCHANGED <<operation, files, reading>>, worker.action = "recover",
         Stands(worker.id)', disk'[Partial] # None,
         step # "linked" => disk'[Partial].dir = worker.dir,
         step = "validated" => disk'[Partial].whole,
         step = "linked" => /\ disk'[Target] # None /\ disk'[Target].whole
                            /\ disk'[Target].dir = worker.dir /\ disk'[Target].links = 2
  PROVE  LibraryInv'
<1>1. worker' = [worker EXCEPT !.step = step] /\ checks' = checks /\ checking' = checking
  BY DEF Advances
<1>2. /\ worker \in Worker /\ Settled(worker.id.name) /\ worker.dir = worker.id.dir
      /\ checking = worker.id /\ worker.id.name \in Fragment
  BY DEF LibraryInv, WorkerInv
<1>3. /\ worker' \in Worker /\ worker'.id = worker.id /\ worker'.dir = worker.dir
      /\ worker'.action = worker.action /\ worker'.step = step
  BY <1>1, <1>2 DEF Worker
<1>4. Target' = Target
  BY <1>3 DEF Target
<1>5. Settled(worker.id.name)'
  BY <1>2, <1>3 DEF Settled, Earlier, Alike
<1>6. WorkerInv'
  BY <1>1, <1>2, <1>3, <1>4, <1>5 DEF WorkerInv
<1>7. QED BY <1>1, <1>6, PartsStand DEF LibraryInv

(* Whatever a worker does to its partial copy and its copy.                 *)
LEMMA WorkerWrites ==
  ASSUME DiskInv, worker # None, WorkerInv, worker.id.name \in Fragment,
         disk' \in [Name -> Entry \cup {None}],
         \A n \in Name \ {Partial, Target} : disk'[n] = disk[n],
         disk'[Target] # None =>
           /\ disk'[Target].whole
           /\ disk[worker.id.name] # None => disk[worker.id.name].dir = disk'[Target].dir
  PROVE  DiskByLibrary /\ disk'[worker.id.name] = disk[worker.id.name]
<1>1. worker.id.name <= session.opened /\ Target = CopyOf(worker.id.name)
  BY DEF WorkerInv, Settled, Earlier, Target
<1>2. \A n \in Fragment : disk'[n] = disk[n]
  BY <1>1, NamesApart
<1>3. ASSUME NEW n \in Fragment, disk'[CopyOf(n)] # None
      PROVE  /\ n <= session.opened
             /\ disk'[CopyOf(n)].whole /\ (disk'[n] # None => disk'[n].dir = disk'[CopyOf(n)].dir)
  <2>1. CASE n = worker.id.name
    BY <1>1, <1>2, <1>3, <2>1
  <2>2. CASE n # worker.id.name
    <3>1. CopyOf(n) # Target /\ CopyOf(n) # Partial /\ CopyOf(n) \in Name
      BY <1>1, <2>2, NamesApart
    <3>2. disk'[CopyOf(n)] = disk[CopyOf(n)]
      BY <3>1
    <3>3. QED BY <1>2, <1>3, <3>2 DEF DiskInv, CopiesWhole
  <2>3. QED BY <2>1, <2>2
<1>4. QED BY <1>2, <1>3 DEF DiskByLibrary

WorkerStep ==
  CheckEnds \/ RecoverCreates \/ RecoverValidates \/ RecoverPublishes
    \/ RecoverCompletes \/ RecoverWithdraws \/ RecoverFails

LEMMA WorkerKeeps ==
  ASSUME RecorderInv, DiskInv, LibraryInv, WorkerStep
  PROVE  LibraryInv' /\ DiskByLibrary /\ UNCHANGED <<session, storage, configVars, scenario>>
<1> DEFINE partial == disk[Partial]
           name == worker.id.name
<1>0. /\ UNCHANGED <<session, storage, configVars, operation, files, reading, scenario>>
      /\ Alike /\ worker # None
  BY DEF WorkerStep, CheckEnds, RecoverCreates, RecoverValidates, RecoverPublishes, RecoverCompletes,
         RecoverWithdraws, RecoverFails, Work, Working, Alike, configVars
<1>1. CASE CheckEnds
  <2>1. PICK outcome \in Outcome : Ends(outcome, None) /\ disk' = disk
    BY <1>1 DEF CheckEnds, Outcome
  <2>2. LibraryInv'
    BY <1>0, <2>1, WorkerEnds
  <2>3. DiskByLibrary
    BY <2>1, SameDiskByLibrary
  <2>4. QED BY <1>0, <2>2, <2>3
<1>2. ASSUME ~CheckEnds PROVE
        /\ WorkerInv /\ worker \in Worker /\ worker.action = "recover" /\ name \in Fragment
        /\ Target = CopyOf(name) /\ Target \in Name /\ Target \notin Fragment /\ Target # Partial
        /\ Target \in Copy /\ Partial \in Name /\ name \in Name /\ name # Partial /\ name # Target
        /\ worker.step # "begun" => Stands(worker.id) /\ disk[Partial] # None
  <2>1. worker.action = "recover"
    BY <1>2 DEF WorkerStep, RecoverCreates, RecoverValidates, RecoverPublishes, RecoverCompletes,
                RecoverWithdraws, RecoverFails, Working
  <2>2. WorkerInv /\ worker \in Worker /\ name \in Fragment
    BY <1>0, <2>1 DEF LibraryInv, WorkerInv
  <2>3. QED BY <1>0, <2>1, <2>2, NamesApart DEF Target, Copy, WorkerInv
<1>3. CASE RecoverCreates
  <2> DEFINE entry == [dir |-> worker.dir, version |-> 1, links |-> 1, whole |-> FALSE]
  <2>0. ~CheckEnds
    BY <1>3 DEF CheckEnds, RecoverCreates, Working
  <2>1. Guarded /\ disk' = [disk EXCEPT ![Partial] = entry] /\ Advances("created")
    BY <1>3 DEF RecoverCreates
  <2>2. entry \in Entry
    BY <1>2, <2>0 DEF Entry, Worker
  <2>3. entry.dir = worker.dir /\ entry # None
    BY <2>2, EntryAssumption
  <2> HIDE DEF entry
  <2>4. /\ disk' \in [Name -> Entry \cup {None}] /\ disk'[Partial] = entry
        /\ \A n \in Name \ {Partial, Target} : disk'[n] = disk[n]
        /\ disk'[Target] = disk[Target]
    BY <1>2, <2>0, <2>1, <2>2 DEF DiskInv
  <2>5. DiskByLibrary /\ disk'[name] = disk[name]
    BY <1>0, <1>2, <2>0, <2>4, WorkerWrites DEF DiskInv, CopiesWhole
  <2>6. Stands(worker.id)'
    BY <1>2, <2>0, <2>1, <2>5 DEF Guarded, Stands, Advances, Worker
  <2>7. LibraryInv'
    BY <1>0, <1>2, <2>0, <2>1, <2>3, <2>4, <2>6, WorkerAdvances
  <2>8. QED BY <1>0, <2>5, <2>7
<1>4. CASE RecoverValidates
  <2> DEFINE entry == [partial EXCEPT !.whole = TRUE]
  <2>0. ~CheckEnds /\ worker.step = "created"
    BY <1>4 DEF CheckEnds, RecoverValidates, Working
  <2>1. Guarded /\ disk' = [disk EXCEPT ![Partial].whole = TRUE] /\ Advances("validated")
    BY <1>4 DEF RecoverValidates
  <2>2. partial \in Entry /\ partial.dir = worker.dir
    BY <1>0, <1>2, <2>0 DEF DiskInv, WorkerInv
  <2>3. entry \in Entry /\ entry.whole /\ entry.dir = worker.dir
    <3> HIDE DEF partial
    <3>1. QED BY <2>2 DEF Entry
  <2>4. entry # None /\ disk' = [disk EXCEPT ![Partial] = entry]
    BY <1>2, <2>0, <2>1, <2>3, EntryAssumption DEF DiskInv
  <2> HIDE DEF entry
  <2>5. /\ disk' \in [Name -> Entry \cup {None}] /\ disk'[Partial] = entry
        /\ \A n \in Name \ {Partial, Target} : disk'[n] = disk[n]
        /\ disk'[Target] = disk[Target]
    BY <1>2, <2>0, <2>3, <2>4 DEF DiskInv
  <2>6. DiskByLibrary /\ disk'[name] = disk[name]
    BY <1>0, <1>2, <2>0, <2>5, WorkerWrites DEF DiskInv, CopiesWhole
  <2>7. Stands(worker.id)'
    BY <1>2, <2>0, <2>1, <2>6 DEF Guarded, Stands, Advances, Worker
  <2>8. LibraryInv'
    BY <1>0, <1>2, <2>0, <2>1, <2>3, <2>4, <2>5, <2>7, WorkerAdvances
  <2>9. QED BY <1>0, <2>6, <2>8
<1>5. CASE RecoverPublishes
  <2> DEFINE entry == [partial EXCEPT !.links = 2, !.version = 2]
  <2>0. ~CheckEnds /\ worker.step = "validated"
    BY <1>5 DEF CheckEnds, RecoverPublishes, Working
  <2>1. /\ disk' = [disk EXCEPT ![Partial].links = 2, ![Partial].version = 2,
                                ![Target] = [disk[Partial] EXCEPT !.links = 2, !.version = 2]]
        /\ Advances("linked")
    BY <1>5 DEF RecoverPublishes
  <2>2. partial \in Entry /\ partial.dir = worker.dir /\ partial.whole
    BY <1>0, <1>2, <2>0 DEF DiskInv, WorkerInv
  <2>3. entry \in Entry /\ entry.whole /\ entry.dir = worker.dir /\ entry.links = 2
    <3> HIDE DEF partial
    <3>1. 2 \in 0 .. 4 /\ 2 \in 1 .. 2
      OBVIOUS
    <3>2. QED BY <2>2, <3>1 DEF Entry
  <2>4. disk' = [disk EXCEPT ![Partial] = entry, ![Target] = entry]
    BY <1>2, <2>0, <2>1, <2>2 DEF DiskInv
  <2>5. entry # None
    BY <2>3, EntryAssumption
  <2> HIDE DEF entry
  <2>6. /\ disk' \in [Name -> Entry \cup {None}] /\ disk'[Partial] = entry
        /\ \A n \in Name \ {Partial, Target} : disk'[n] = disk[n]
        /\ disk'[Target] = entry
    BY <1>2, <2>0, <2>3, <2>4 DEF DiskInv
  <2>7. disk[name].dir = worker.dir
    BY <1>0, <1>2, <2>0 DEF Stands, WorkerInv
  <2>8. DiskByLibrary /\ disk'[name] = disk[name]
    BY <1>0, <1>2, <2>0, <2>3, <2>6, <2>7, WorkerWrites
  <2>9. Stands(worker.id)'
    BY <1>2, <2>0, <2>1, <2>8 DEF Stands, Advances, Worker
  <2>10. LibraryInv'
    BY <1>0, <1>2, <2>0, <2>1, <2>3, <2>5, <2>6, <2>9, WorkerAdvances
  <2>11. QED BY <1>0, <2>8, <2>10
<1>6. CASE RecoverCompletes
  <2> DEFINE copy == disk[Target]
             entry == [copy EXCEPT !.links = 1, !.version = 3]
  <2>0. ~CheckEnds /\ worker.step = "linked"
    BY <1>6 DEF CheckEnds, RecoverCompletes, Working
  <2>1. /\ disk' = [disk EXCEPT ![Partial] = None, ![Target].links = 1, ![Target].version = 3]
        /\ Ends("recovered", Target)
    BY <1>6 DEF RecoverCompletes
  <2>2. copy \in Entry /\ copy.dir = worker.dir /\ copy.whole
    BY <1>0, <1>2, <2>0 DEF DiskInv, WorkerInv
  <2>3. entry \in Entry /\ entry.whole /\ entry.dir = worker.dir
    <3> HIDE DEF copy
    <3>1. 1 \in 1 .. 2 /\ 3 \in 0 .. 4
      OBVIOUS
    <3>2. QED BY <2>2, <3>1 DEF Entry
  <2>4. disk' = [disk EXCEPT ![Partial] = None, ![Target] = entry]
    BY <1>2, <2>0, <2>1, <2>2 DEF DiskInv
  <2> HIDE DEF entry
  <2>5. /\ disk' \in [Name -> Entry \cup {None}]
        /\ \A n \in Name \ {Partial, Target} : disk'[n] = disk[n]
        /\ disk'[Target] = entry
    BY <1>2, <2>0, <2>3, <2>4 DEF DiskInv
  <2>6. disk[name].dir = worker.dir
    BY <1>0, <1>2, <2>0 DEF Stands, WorkerInv
  <2>7. DiskByLibrary
    BY <1>0, <1>2, <2>0, <2>3, <2>5, <2>6, WorkerWrites
  <2>8. LibraryInv'
    BY <1>0, <1>2, <2>0, <2>1, WorkerEnds DEF Outcome
  <2>9. QED BY <1>0, <2>7, <2>8
<1>7. CASE RecoverWithdraws
  <2>0. ~CheckEnds /\ worker.step = "linked"
    BY <1>7 DEF CheckEnds, RecoverWithdraws, Working
  <2>1. PICK undone \in BOOLEAN, cleaned \in BOOLEAN :
          /\ disk' = [disk EXCEPT
                       ![Target] = IF undone THEN None
                                   ELSE [@ EXCEPT !.links = IF cleaned THEN 1 ELSE 2, !.version = 3],
                       ![Partial] = IF cleaned THEN None ELSE [@ EXCEPT !.links = IF undone THEN 1 ELSE 2]]
          /\ Ends("failed", IF undone THEN None ELSE Target)
    BY <1>7 DEF RecoverWithdraws
  <2> DEFINE copy == disk[Target]
             links == IF cleaned THEN 1 ELSE 2
             left == [copy EXCEPT !.links = links, !.version = 3]
             other == IF undone THEN 1 ELSE 2
             rest == [partial EXCEPT !.links = other]
             a == IF undone THEN None ELSE left
             b == IF cleaned THEN None ELSE rest
  <2>2. copy \in Entry /\ copy.dir = worker.dir /\ copy.whole /\ partial \in Entry
    BY <1>0, <1>2, <2>0 DEF DiskInv, WorkerInv
  <2>3. left \in Entry /\ left.whole /\ left.dir = worker.dir /\ rest \in Entry
    <3>1. links \in 1 .. 2 /\ other \in 1 .. 2 /\ 3 \in 0 .. 4
      OBVIOUS
    <3> HIDE DEF copy, partial, links, other
    <3>2. QED BY <2>2, <3>1 DEF Entry
  <2>4. disk' = [disk EXCEPT ![Target] = a, ![Partial] = b]
    BY <1>2, <2>0, <2>1 DEF DiskInv
  <2> HIDE DEF left, rest
  <2>9. a \in {None, left} /\ b \in {None, rest}
    OBVIOUS
  <2> HIDE DEF a, b
  <2>5. /\ disk' \in [Name -> Entry \cup {None}]
        /\ \A n \in Name \ {Partial, Target} : disk'[n] = disk[n]
        /\ disk'[Target] = a
    BY <1>2, <2>0, <2>3, <2>4, <2>9 DEF DiskInv
  <2>6. disk[name].dir = worker.dir
    BY <1>0, <1>2, <2>0 DEF Stands, WorkerInv
  <2>7. DiskByLibrary
    BY <1>0, <1>2, <2>0, <2>3, <2>5, <2>6, <2>9, WorkerWrites
  <2>8. LibraryInv'
    BY <1>0, <1>2, <2>0, <2>1, WorkerEnds DEF Outcome
  <2>10. QED BY <1>0, <2>7, <2>8
<1>8. CASE RecoverFails
  <2>0. ~CheckEnds
    BY <1>8 DEF CheckEnds, RecoverFails, Working
  <2>1. PICK outcome \in {"failed", "cancelled", "timeout"} : Ends(outcome, None)
    BY <1>8 DEF RecoverFails
  <2>2. disk' = disk \/ disk' = [disk EXCEPT ![Partial] = None]
    BY <1>8 DEF RecoverFails
  <2>3. /\ disk' \in [Name -> Entry \cup {None}]
        /\ \A n \in Name \ {Partial, Target} : disk'[n] = disk[n]
        /\ disk'[Target] = disk[Target]
    BY <1>2, <2>0, <2>2 DEF DiskInv
  <2>4. DiskByLibrary
    BY <1>0, <1>2, <2>0, <2>3, WorkerWrites DEF DiskInv, CopiesWhole
  <2>5. LibraryInv'
    BY <1>0, <2>1, WorkerEnds DEF Outcome
  <2>6. QED BY <1>0, <2>4, <2>5
<1>9. QED BY <1>1, <1>3, <1>4, <1>5, <1>6, <1>7, <1>8 DEF WorkerStep

-----------------------------------------------------------------------------
(* The helper.                                                              *)
LEMMA FoundStays ==
  ASSUME RecorderInv, RecorderInv', Recorded, FoundInv, helper' = helper
  PROVE  FoundInv'
<1>1. helper.expected # None => helper.expected \in Fragment /\ helper.expected \in Name
  BY NamesApart DEF FoundInv, HelperState
<1>2. session'.opened >= session.opened /\ session.opened \in Nat /\ session'.opened \in Nat
  BY FragmentsAssumption DEF RecorderInv, RecorderSound, Session, Recorded
<1>3. helper.expected # None => helper.expected <= session'.opened
  <2>1. SUFFICES ASSUME helper.expected # None PROVE helper.expected <= session'.opened
    OBVIOUS
  <2>2. helper.expected \in Nat /\ helper.expected <= session.opened
    BY <1>1, <2>1, NamesApart DEF FoundInv
  <2>3. QED BY <1>2, <2>2
<1>4. ASSUME helper.expected # None, helper.busy, helper.step \notin {"stop recording", "await recording"}
      PROVE  Settled(helper.expected)' /\ Kept(helper.expected)'
  <2>1. Settled(helper.expected) /\ Kept(helper.expected) /\ helper.expected \in Name
    BY <1>1, <1>4 DEF FoundInv
  <2>2. Settled(helper.expected)' /\ disk'[helper.expected] = disk[helper.expected]
    BY <2>1, SettledStays
  <2>3. QED BY <2>1, <2>2 DEF Kept
<1>5. QED BY <1>3, <1>4 DEF FoundInv

LEMMA FoundBesideLibrary ==
  ASSUME FoundInv, DiskByLibrary, session' = session, helper' = helper
  PROVE  FoundInv'
<1>1. helper.expected # None => helper.expected \in Fragment
  BY DEF FoundInv, HelperState
<1>2. helper.expected # None /\ Kept(helper.expected) => Kept(helper.expected)'
  BY <1>1 DEF DiskByLibrary, Kept
<1>3. QED BY <1>1, <1>2 DEF FoundInv, Settled, Earlier

(* A step of the helper that keeps what it has found, from or to where it   *)
(* does not matter.                                                         *)
LEMMA FoundGoes ==
  ASSUME RecorderInv, DiskInv, FoundInv, scenario \in Scenario, HelperStepNext, disk' = disk,
         RecorderInv', Recorded, session'.opened = session.opened
  PROVE  FoundInv'
<1> USE DEF HelperIdle, Helper
<1>0. helper \in HelperState
  BY DEF FoundInv
<1>1. \A n \in Name : Settled(n) /\ Kept(n) => Settled(n)' /\ Kept(n)'
  BY SettledStays DEF Kept
<1>2. helper.expected # None => helper.expected \in Name
  BY <1>0, NamesApart DEF HelperState
<1>3. ASSUME helper' \in HelperState,
             helper'.expected = None
               \/ /\ helper'.expected = helper.expected
                  /\ helper'.step \notin {"queued", "look"}
                  /\ helper'.busy => helper.busy
                  /\ \/ ~helper'.busy
                     \/ helper'.step \in {"stop recording", "await recording"}
                     \/ helper.step \notin {"stop recording", "await recording"}
      PROVE  FoundInv'
  <2>1. CASE helper'.expected = None
    BY <1>3, <2>1 DEF FoundInv
  <2>2. CASE helper'.expected # None
    <3>1. Settled(helper.expected) /\ Kept(helper.expected) => (Settled(helper.expected) /\ Kept(helper.expected))'
      BY <1>1, <1>2, <1>3, <2>2 DEF Settled, Kept, Earlier
    <3>2. QED BY <1>3, <2>2, <3>1 DEF FoundInv
  <2>3. QED BY <2>1, <2>2
<1>4. CASE Accept \/ TakeLifecycle
  <2>1. helper.step = "queued" => helper.expected = None
    BY DEF FoundInv
  <2>2. CASE Accept
    <3>1. PICK action \in MaintenanceAction :
            helper' = [HelperIdle EXCEPT !.busy = TRUE, !.action = action, !.phase = "queued", !.step = "queued"]
      BY <2>2 DEF Accept, Scenario
    <3>2. helper' \in HelperState /\ helper'.expected = None
      BY <3>1 DEF HelperState, HelperStep
    <3>3. QED BY <1>3, <3>2
  <2>3. CASE TakeLifecycle
    BY <1>0, <1>3, <2>1, <2>3 DEF TakeLifecycle, Fails, HelperState, HelperStep
  <2>4. QED BY <1>4, <2>2, <2>3
<1>5. CASE Look
  <2>1. helper.expected = None
    BY <1>5 DEF Look, FoundInv
  <2>2. CASE helper' = [helper EXCEPT !.step = "stop recording", !.expected = session.current]
             /\ session.current # None
    <3>1. session.current \in Fragment /\ session.current <= session.opened
      BY <2>2 DEF RecorderInv, RecorderSound, Session
    <3>2. helper' \in HelperState /\ helper'.step = "stop recording" /\ helper'.expected = session.current
      BY <1>0, <2>2, <3>1 DEF HelperState, HelperStep
    <3>3. QED BY <3>1, <3>2 DEF FoundInv
  <2>3. CASE Fails \/ Goes("await recording")
    BY <1>0, <1>3, <2>1, <2>3, ZenonT(60) DEF Fails, Goes, HelperState, HelperStep
  <2>4. QED BY <1>5, <2>2, <2>3 DEF Look
<1>6. CASE AwaitRecording
  <2>1. CASE Fails
    BY <1>0, <1>3, <1>6, <2>1 DEF AwaitRecording, Fails, HelperState, HelperStep
  <2>2. CASE ~Fails
    <3>1. Finalized /\ helper' = [helper EXCEPT !.step = "stop stream", !.phase = "stopping"]
      BY <1>6, <2>2 DEF AwaitRecording
    <3>2. helper' \in HelperState /\ helper'.expected = helper.expected /\ helper'.step = "stop stream"
      BY <1>0, <3>1 DEF HelperState, HelperStep
    <3>3. CASE helper.expected = None
      BY <1>3, <3>2, <3>3
    <3>4. CASE helper.expected # None
      <4>1. session.last = helper.expected
        BY <3>1, <3>4 DEF Finalized
      <4>2. /\ helper.expected <= session.opened /\ helper.expected \notin session.writing
            /\ Kept(helper.expected)
        BY <3>4, <4>1 DEF DiskInv, RecorderInv, RecorderSound
      <4>3. Settled(helper.expected)' /\ Kept(helper.expected)'
        BY <1>1, <1>2, <3>2, <3>4, <4>2 DEF Settled, Earlier, Kept
      <4>4. QED BY <3>2, <3>4, <4>2, <4>3 DEF FoundInv
    <3>5. QED BY <3>3, <3>4
  <2>3. QED BY <2>1, <2>2
<1>7. CASE StopsRecording \/ StopsStream \/ StopsCapture
  <2>1. \/ Fails /\ helper.step = "stop recording"
        \/ Goes("await recording") /\ helper.step = "stop recording"
        \/ Goes("await stream") /\ helper.step = "stop stream"
        \/ Goes("await stopped") /\ helper.step = "stop capture"
    BY <1>7 DEF StopsRecording, StopsStream, StopsCapture, Stops
  <2>2. QED BY <1>0, <1>3, <2>1, ZenonT(60) DEF Goes, Fails, HelperState, HelperStep
<1>8. CASE AwaitStream \/ AwaitStopped \/ StopService \/ AwaitService \/ Verify
  <2>1. /\ helper.step \in {"await stream", "await stopped", "stop service", "await service", "verify"}
        /\ \/ Fails \/ Goes("stop capture") \/ Goes("stop service") \/ Goes("await service") \/ Goes("verify")
           \/ helper' = [helper EXCEPT !.step = "act", !.phase = "restarting"]
    BY <1>8 DEF AwaitStream, AwaitStopped, StopService, AwaitService, Verify
  <2>2. QED BY <1>0, <1>3, <2>1 DEF Goes, Fails, HelperState, HelperStep
<1>9. CASE ActPower \/ ActRestart \/ Completed \/ HelperGivesUp
  <2>1. \/ helper.step = "act"
             /\ helper' \in {[helper EXCEPT !.step = "power"], [helper EXCEPT !.step = "await start"]}
        \/ helper' \in {[helper EXCEPT !.busy = FALSE, !.phase = "complete", !.step = "idle"],
                        [helper EXCEPT !.busy = FALSE, !.phase = "failed", !.step = "idle"]}
    BY <1>9 DEF ActPower, ActRestart, Completed, HelperGivesUp, Goes
  <2>2. QED BY <1>0, <1>3, <2>1, ZenonT(60) DEF HelperState, HelperStep
<1>10. CASE InstallerLocks
  BY <1>10, FoundStays DEF InstallerLocks
<1>11. QED BY <1>4, <1>5, <1>6, <1>7, <1>8, <1>9, <1>10 DEF HelperStepNext

-----------------------------------------------------------------------------
(* All together.                                                            *)
LEMMA ConfigStays ==
  ASSUME ConfigInv, ConfigTyped, Next
  PROVE  ConfigTyped'
<1>1. Update \/ Aside \/ ServiceStarts \/ PowerCycle
  BY StepKinds
<1>2. CASE Aside
  BY <1>2 DEF Aside, configVars, ConfigTyped, ActiveIsUsed
<1>3. CASE Update
  <2>1. UNCHANGED <<saved, active, engine, torn>> \/ (saved' = file /\ UNCHANGED <<active, engine, torn>>)
          \/ ApplyLive \/ ApplyFails
    BY <1>3 DEF Update, GetConfig, AdmitUpdate, ReplaceFile, ReplaceFails, SyncDirectory, SyncFails, configVars
  <2>2. ApplyLive \/ ApplyFails => operation.config \in Config
    BY UpdatingInv DEF ApplyLive, ApplyFails, UpdateInv, UpdateOperation
  <2>3. CASE ApplyLive
    <3>1. saved = file /\ file.config = operation.config
      BY <2>3, UpdatingInv DEF ApplyLive, UpdateInv
    <3>2. QED BY <2>2, <2>3, <3>1 DEF ApplyLive, ConfigTyped, ActiveIsUsed
  <2>4. CASE ApplyFails
    <3>1. /\ UNCHANGED <<saved, active>> /\ engine' \in Config
          /\ \/ UNCHANGED <<engine, torn>>
             \/ torn' = (torn \/ engine' # engine)
      BY <2>2, <2>4 DEF ApplyFails, ConfigTyped
    <3>2. torn' \in BOOLEAN
      BY <3>1, Zenon DEF ConfigTyped
    <3>3. (engine' = engine /\ (torn => torn')) \/ torn'
      BY <3>1, Zenon
    <3>4. ActiveIsUsed'
      BY <3>1, <3>3, Zenon DEF ConfigTyped, ActiveIsUsed
    <3>5. QED BY <3>1, <3>2, <3>4 DEF ConfigTyped
  <2>5. CASE UNCHANGED <<saved, active, engine, torn>>
    BY <2>5 DEF ConfigTyped, ActiveIsUsed
  <2>6. CASE saved' = file /\ UNCHANGED <<active, engine, torn>>
    <3>1. file \in Document
      BY DEF ConfigInv
    <3>2. QED BY <2>6, <3>1 DEF ConfigTyped, ActiveIsUsed
  <2>7. QED BY <2>1, <2>3, <2>4, <2>5, <2>6
<1>4. CASE ServiceStarts
  BY <1>4 DEF ServiceStarts, Reload, ConfigTyped, ConfigInv, Document, ActiveIsUsed
<1>5. CASE PowerCycle
  <2>1. PICK document \in safe : Reload(document)
    BY <1>5 DEF PowerCycle, ConfigInv
  <2>2. document \in Document
    BY <2>1 DEF ConfigInv
  <2>3. QED BY <2>1, <2>2 DEF Reload, ConfigTyped, Document, ActiveIsUsed
<1>6. QED BY <1>1, <1>2, <1>3, <1>4, <1>5

LEMMA LocksStay ==
  ASSUME Locked, Next
  PROVE  Locked'
<1>1. CASE UNCHANGED maintenanceVars
  BY <1>1 DEF maintenanceVars, Locked
<1>2. CASE HelperStepNext
  BY <1>2 DEF HelperStepNext, Accept, TakeLifecycle, Look, StopsRecording, StopsStream, StopsCapture, Stops,
              AwaitRecording, AwaitStream, AwaitStopped, StopService, AwaitService, Verify, ActPower,
              ActRestart, Completed, HelperGivesUp, InstallerLocks, Fails, Goes, Locked
<1>3. CASE PowerCycle
  BY <1>3 DEF PowerCycle, Locked
<1>4. CASE (Update /\ NotConfig) \/ Media \/ ServiceStarts
  BY <1>1, <1>4 DEF NotConfig, Media, NotSession, Bootstrap, MediaFollows, EngineOpensFragment,
                    CommandStartCapture, CommandStartRecording, CommandStopRecording, CommandStopCapture,
                    EndService, ServiceDies, ServiceStarts, maintenanceVars
<1>5. QED BY <1>1, <1>2, <1>3, <1>4 DEF Next

(* An update touches the recordings in nothing.                             *)
LEMMA UpdateBeside ==
  ASSUME ConfigInv, PlaneInv, Update, NotConfig
  PROVE  RecorderInv' /\ DiskInv' /\ LibraryInv' /\ FoundInv' /\ storage' = storage
<1>1. UNCHANGED <<session, disk, storage, libraryVars, helper>>
  BY DEF Update, NotConfig, GetConfig, AdmitUpdate, ReplaceFile, ReplaceFails, SyncDirectory,
         SyncFails, ApplyLive, ApplyFails, Finished, sessionVars, maintenanceVars
<1>2. RecorderInv' /\ DiskInv' /\ Recorded
  BY <1>1, FilesStand DEF PlaneInv, RecorderInv
<1>3. FoundInv'
  BY <1>1, <1>2, FoundStays DEF PlaneInv
<1>4. ~Down
  BY DEF Update, GetConfig, AdmitUpdate, ReplaceFile, ReplaceFails, SyncDirectory, SyncFails, ApplyLive,
         ApplyFails, Unlocked, Up, Updating, Down
<1>5. operation' = None \/ operation'.kind = "update"
  <2>1. CASE ReplaceFile \/ SyncDirectory
    <3>1. operation \in UpdateOperation
      BY <2>1, UpdatingInv DEF ReplaceFile, SyncDirectory, UpdateInv
    <3>2. QED BY <2>1, <3>1 DEF ReplaceFile, SyncDirectory, Finished, UpdateOperation
  <2>2. CASE ~(ReplaceFile \/ SyncDirectory)
    BY <2>2 DEF Update, GetConfig, AdmitUpdate, ReplaceFails, SyncFails, ApplyLive, ApplyFails, Finished, Unlocked
  <2>3. QED BY <2>1, <2>2
<1>6. MutationInv'
  BY <1>5 DEF MutationInv, IsUpdate
<1>7. LibraryInv'
  BY <1>1, <1>4, <1>6
     DEF PlaneInv, LibraryInv, libraryVars, Down, FilesInv, ChecksInv, CheckingListed, Checked, ReadingInv,
         WorkerInv, Earlier, Settled, Stands, Target
<1>8. QED BY <1>1, <1>2, <1>3, <1>7

(* Whatever is kept in the process ends with it.                            *)
LEMMA EndedLibrary ==
  ASSUME LibraryEnds, operation' = None
  PROVE  LibraryInv'
<1>1. files' = <<>> /\ checks' = <<>> /\ checking' = None /\ worker' = None /\ reading' = None
  BY DEF LibraryEnds
<1>2. FilesInv'
  BY <1>1, LimitsAssumption DEF FilesInv
<1>3. ChecksInv'
  BY <1>1, LimitsAssumption DEF ChecksInv, CheckingListed
<1>4. QED BY <1>1, <1>2, <1>3 DEF LibraryInv, MutationInv, ReadingInv, WorkerInv

LEMMA LibraryStepKeeps ==
  ASSUME ConfigInv, PlaneInv, LibraryStep, UNCHANGED maintenanceVars
  PROVE  RecorderInv' /\ DiskInv' /\ LibraryInv' /\ FoundInv' /\ storage' = storage
<1>1. /\ RecorderInv /\ DiskInv /\ LibraryInv /\ FoundInv
      /\ active \in Document /\ scenario \in Scenario
  BY DEF PlaneInv, ConfigTyped, ConfigInv
<1>2. LibraryInv' /\ DiskByLibrary /\ session' = session /\ storage' = storage
  <2>1. CASE Register \/ BeginRead \/ ExamineRead \/ FinishRead
    BY <1>1, <2>1, ReadingKeeps, SameDiskByLibrary
  <2>2. CASE BeginMutation
    BY <1>1, <2>2, OpeningKeeps, SameDiskByLibrary
  <2>3. CASE ExamineDelete \/ ExamineWork
    BY <1>1, <2>3, ExaminingKeeps, SameDiskByLibrary
  <2>4. CASE Delete
    BY <1>1, <2>4, DeleteKeeps
  <2>5. CASE StartWork
    BY <1>1, <2>5, StartKeeps, SameDiskByLibrary
  <2>6. CASE WorkerStep
    BY <1>1, <2>6, WorkerKeeps
  <2>7. QED BY <2>1, <2>2, <2>3, <2>4, <2>5, <2>6 DEF LibraryStep, WorkerStep
<1>3. RecorderInv' /\ DiskInv'
  BY <1>1, <1>2, LibraryKeepsDisk DEF RecorderInv
<1>4. FoundInv'
  BY <1>1, <1>2, FoundBesideLibrary DEF maintenanceVars
<1>5. QED BY <1>2, <1>3, <1>4

LEMMA PlaneStep ==
  ASSUME ConfigInv, PlaneInv, SessionInv, [Next]_vars
  PROVE  PlaneInv'
<1>0. /\ RecorderInv /\ DiskInv /\ LibraryInv /\ FoundInv /\ storage \in Storage
      /\ engine \in Config /\ scenario \in Scenario
  BY DEF PlaneInv, ConfigTyped, ConfigInv
<1>1. CASE UNCHANGED vars
  <2>1. UNCHANGED <<session, disk, storage, file, safe, saved, active, engine, torn, known, operation,
                    files, checks, checking, worker, reading, helper, lifecycle, machine, scenario>>
    BY <1>1 DEF vars, configVars, libraryVars, maintenanceVars
  <2>2. RecorderInv' /\ DiskInv' /\ Recorded
    BY <1>0, <2>1, FilesStand DEF RecorderInv
  <2>3. LibraryInv' /\ FoundInv'
    BY <1>0, <2>1, <2>2, LibraryGoesOn, FoundStays DEF libraryVars, Down
  <2>4. QED BY <2>1, <2>2, <2>3 DEF PlaneInv, ConfigTyped, ActiveIsUsed, Locked
<1>2. ASSUME Next PROVE RecorderInv' /\ DiskInv' /\ LibraryInv' /\ FoundInv' /\ storage' \in Storage
  <2>1. CASE Update /\ NotConfig
    BY <1>0, <2>1, UpdateBeside
  <2>2. CASE LibraryStep /\ UNCHANGED maintenanceVars
    BY <1>0, <2>2, LibraryStepKeeps
  <2>3. CASE HelperStepNext
    <3>1. /\ GoesOn /\ UNCHANGED <<configVars, operation, libraryVars, disk>>
          /\ session'.opened = session.opened
      BY <1>0, <2>3, HelperGoesOn
    <3>2. LibraryInv'
      BY <1>0, <3>1, LibraryGoesOn DEF GoesOn, configVars
    <3>3. FoundInv'
      BY <1>0, <2>3, <3>1, FoundGoes DEF GoesOn
    <3>4. QED BY <3>1, <3>2, <3>3 DEF GoesOn
  <2>4. CASE Media /\ ~EndService /\ ~ServiceDies
    <3>1. GoesOn /\ UNCHANGED <<configVars, operation, libraryVars, maintenanceVars>>
      BY <1>0, <2>4, MediaGoesOn
    <3>2. LibraryInv' /\ FoundInv'
      BY <1>0, <3>1, LibraryGoesOn, FoundStays DEF GoesOn, configVars, maintenanceVars
    <3>3. QED BY <3>1, <3>2 DEF GoesOn
  <2>5. CASE EndService \/ ServiceDies \/ PowerCycle
    <3>1. /\ \/ Off
             \/ \E exit \in {"clean", "failed"} :
                  session' = [Idle EXCEPT !.service = "down", !.exit = exit, !.opened = session.opened]
          /\ operation' = None /\ LibraryEnds /\ UNCHANGED <<disk, storage>>
      BY <2>5 DEF EndService, ServiceEnds, ServiceDies, PowerCycle
    <3>2. RecorderInv' /\ DiskInv' /\ Recorded
      BY <1>0, <3>1, EndsKeep
    <3>3. LibraryInv'
      BY <3>1, EndedLibrary
    <3>4. helper' = helper \/ helper' = HelperIdle
      BY <2>5 DEF EndService, ServiceDies, PowerCycle, maintenanceVars
    <3>5. FoundInv'
      <4>1. CASE helper' = helper
        BY <1>0, <3>2, <4>1, FoundStays
      <4>2. CASE helper' = HelperIdle
        BY <4>2 DEF FoundInv, HelperIdle, HelperState, HelperStep
      <4>3. QED BY <3>4, <4>1, <4>2
    <3>6. QED BY <1>0, <3>1, <3>2, <3>3, <3>5
  <2>6. CASE ServiceStarts
    <3>1. /\ session' = [session EXCEPT !.service = "up", !.exit = "clean"]
          /\ UNCHANGED <<disk, storage, operation, libraryVars, maintenanceVars>> /\ Down
      BY <2>6 DEF ServiceStarts, Down
    <3>2. session' \in Session /\ RecorderInv'
      BY <1>0, <3>1 DEF RecorderInv, RecorderSound, Session
    <3>3. /\ session'.opened = session.opened /\ session'.writing = session.writing
          /\ session'.listed = session.listed /\ session'.last = session.last /\ ~Down'
      BY <1>0, <3>1 DEF RecorderInv, RecorderSound, Session, Down
    <3>4. DiskInv' /\ Recorded
      BY <1>0, <3>1, <3>3, FilesStand
    <3>5. operation = None
      BY <1>0, <3>1 DEF LibraryInv
    <3>6. LibraryInv' /\ FoundInv'
      BY <1>0, <3>1, <3>2, <3>3, <3>4, <3>5, LibraryGoesOn, FoundStays DEF maintenanceVars
    <3>7. QED BY <1>0, <3>1, <3>2, <3>4, <3>6
  <2>7. QED BY <1>2, <2>1, <2>2, <2>3, <2>4, <2>5, <2>6 DEF Next
<1>3. QED BY <1>1, <1>2, ConfigStays, LocksStay DEF PlaneInv

LEMMA PlaneInit == Init => PlaneInv
<1> SUFFICES ASSUME Init PROVE PlaneInv
  OBVIOUS
<1>1. /\ session = Idle /\ disk = [n \in Name |-> None] /\ storage \in scenario.storages
      /\ operation = None /\ helper = HelperIdle /\ lifecycle = None /\ machine = "on"
      /\ files = <<>> /\ checks = <<>> /\ checking = None /\ worker = None /\ reading = None
  BY DEF Init, SessionInit, ConfigInit, LibraryInit, MaintenanceInit
<1>2. scenario \in Scenario /\ file \in Document
  BY ConfigInit_ DEF ConfigInv
<1>3. storage \in Storage /\ ConfigTyped /\ Locked
  BY <1>1, <1>2 DEF Init, ConfigInit, ConfigTyped, ActiveIsUsed, Locked, Scenario, Document
<1>4. Idle \in Session
  BY FragmentsAssumption DEF Idle, Session, Rest
<1>5. RecorderInv
  BY <1>1, <1>4 DEF RecorderInv, RecorderSound, Idle
<1>6. DiskInv
  BY <1>1, NamesApart DEF DiskInv, Idle, CopiesWhole
<1>7. FilesInv /\ ChecksInv
  BY <1>1, LimitsAssumption DEF FilesInv, ChecksInv, CheckingListed
<1>8. LibraryInv
  BY <1>1, <1>7 DEF LibraryInv, MutationInv, ReadingInv, WorkerInv
<1>9. FoundInv
  BY <1>1 DEF FoundInv, HelperIdle, HelperState, HelperStep
<1>10. QED BY <1>3, <1>5, <1>6, <1>8, <1>9 DEF PlaneInv

(* What the recorder, the files, the library, its worker and the helper     *)
(* know of each other: the invariant behind the results below.              *)
THEOREM PlaneInvariant == Spec => []PlaneInv
<1>1. Init => PlaneInv
  BY PlaneInit
<1>2. ConfigInv /\ SessionInv /\ PlaneInv /\ [Next]_vars => PlaneInv'
  BY PlaneStep
<1>3. QED BY <1>1, <1>2, ConfigInvariant, HelperInvariant, PTL DEF Spec

(* What clients, worker and helper share is of its type and holds together, *)
(* whatever fails or ends between their steps.                              *)
THEOREM PlaneSound == Spec => []PlaneConsistent
<1>1. ConfigInv /\ SessionInv /\ HelperInv /\ PlaneInv => PlaneConsistent
  <2> SUFFICES ASSUME ConfigInv, SessionInv, HelperInv, PlaneInv PROVE PlaneConsistent
    OBVIOUS
  <2>1. operation \in {None} \cup UpdateOperation \cup LibraryOperation
    BY DEF ConfigInv, UpdateInv, PlaneInv, LibraryInv, MutationInv, Down
  <2>2. checking \in Id \cup {None} /\ worker \in Worker \cup {None} /\ reading \in Reading \cup {None}
    BY DEF PlaneInv, LibraryInv, WorkerInv, ReadingInv
  <2>3. TypeOK
    BY <2>1, <2>2 DEF TypeOK, ConfigInv, PlaneInv, ConfigTyped, Locked, RecorderInv, RecorderSound, DiskInv,
                      LibraryInv, FilesInv, ChecksInv, FoundInv
  <2>4. AppliedIsDurable
    BY DEF ConfigInv, AppliedIsDurable, Updating, IsUpdate, UpdateInv
  <2>5. QED BY <2>3, <2>4 DEF PlaneConsistent, PlaneInv, ConfigTyped, LibraryInv, ChecksInv, DiskInv, HelperInv
<1>2. QED BY <1>1, ConfigInvariant, HelperInvariant, PlaneInvariant, PTL

(* What a recovery publishes is a copy of the file it was asked for.        *)
THEOREM SourceKept == Spec => []SourceStands
<1>1. PlaneInv => SourceStands
  BY DEF PlaneInv, LibraryInv, WorkerInv, SourceStands
<1>2. QED BY <1>1, PlaneInvariant, PTL

(* The recording that maintenance found is closed before anything else is   *)
(* stopped, whatever clients do meanwhile.                                  *)
THEOREM FoundKept == Spec => []FoundRecordingKept
<1>1. PlaneInv => FoundRecordingKept
  BY DEF PlaneInv, FoundInv, FoundRecordingKept, Kept
<1>2. QED BY <1>1, PlaneInvariant, PTL

(* A file that a sink has open is neither deleted, nor read, nor given to a *)
(* worker (_prevent_mutation, _prevent_active): who was let at a file in a  *)
(* step before was let at one no sink has open or opens again.              *)
THEOREM WritingSafe == Spec => WritingKept
<1>1. ConfigInv /\ PlaneInv /\ [Next]_vars =>
        \A n \in session.writing :
          /\ disk'[n] # None
          /\ (reading' # reading /\ reading' # None /\ reading'.step = "read" => reading'.id.name # n)
          /\ (worker = None /\ worker' # None => worker'.id.name # n)
  <2>1. SUFFICES ASSUME ConfigInv, PlaneInv, [Next]_vars, NEW n \in session.writing
                 PROVE  /\ disk'[n] # None
                        /\ (reading' # reading /\ reading' # None /\ reading'.step = "read" => reading'.id.name # n)
                        /\ (worker = None /\ worker' # None => worker'.id.name # n)
    OBVIOUS
  <2>2. /\ RecorderInv /\ DiskInv /\ LibraryInv /\ FoundInv /\ storage \in Storage
        /\ engine \in Config /\ active \in Document /\ scenario \in Scenario
    BY <2>1 DEF PlaneInv, ConfigTyped, ConfigInv
  <2>3. n \in Fragment /\ disk[n] # None
    BY <2>1, <2>2 DEF RecorderInv, RecorderSound, Session, DiskInv
  <2>4. CASE LibraryStep
    <3>1. disk'[n] # None
      <4>1. DiskByLibrary
        <5>1. CASE Delete
          BY <2>2, <5>1, DeleteKeeps
        <5>2. CASE WorkerStep
          BY <2>2, <5>2, WorkerKeeps
        <5>3. CASE ~Delete /\ ~WorkerStep
          <6>1. disk' = disk
            BY <2>4, <5>3 DEF LibraryStep, WorkerStep, Register, BeginRead, ExamineRead, FinishRead, Library,
                 BeginMutation, ExamineDelete, ExamineWork, Refuse, Allow, StartWork, sessionVars
          <6>2. QED BY <2>2, <6>1, SameDiskByLibrary
        <5>4. QED BY <5>1, <5>2, <5>3
      <4>2. QED BY <2>1, <2>3, <4>1 DEF DiskByLibrary
    <3>2. ASSUME reading' # reading, reading' # None, reading'.step = "read" PROVE reading'.id.name # n
      <4>1. CASE FinishRead
        <5>1. reading # None /\ reading.step = "allowed" /\ reading' = [reading EXCEPT !.step = "read"]
          BY <3>2, <4>1 DEF FinishRead, Library
        <5>2. reading \in Reading /\ Settled(reading.id.name)
          BY <2>2, <5>1 DEF LibraryInv, ReadingInv
        <5>3. reading'.id = reading.id
          BY <5>1, <5>2 DEF Reading
        <5>4. QED BY <2>1, <5>2, <5>3 DEF Settled
      <4>2. CASE BeginRead
        BY <3>2, <4>2 DEF BeginRead, Library
      <4>3. CASE ExamineRead
        <5>1. reading # None /\ reading' = [reading EXCEPT !.step = "allowed"] /\ reading \in Reading
          BY <2>2, <3>2, <4>3 DEF ExamineRead, Library, LibraryInv, ReadingInv
        <5>2. QED BY <3>2, <5>1 DEF Reading
      <4>4. CASE ~(FinishRead \/ BeginRead \/ ExamineRead)
        <5>1. reading' = reading
          BY <2>4, <4>4 DEF LibraryStep, Register, BeginMutation, ExamineDelete, Delete, ExamineWork, StartWork,
               Refuse, Allow, Mutation, CheckEnds, RecoverCreates, RecoverValidates, RecoverPublishes,
               RecoverCompletes, RecoverWithdraws, RecoverFails, Work, libraryVars
        <5>2. QED BY <3>2, <5>1
      <4>5. QED BY <4>1, <4>2, <4>3, <4>4
    <3>3. ASSUME worker = None, worker' # None PROVE worker'.id.name # n
      <4>1. StartWork
        BY <2>4, <3>3 DEF LibraryStep, Register, BeginRead, ExamineRead, FinishRead, Library, BeginMutation,
             ExamineDelete, Delete, ExamineWork, Refuse, Allow, CheckEnds, RecoverCreates, RecoverValidates,
             RecoverPublishes, RecoverCompletes, RecoverWithdraws, RecoverFails, Working, libraryVars
      <4>2. worker'.id = operation.id
        BY <3>3, <4>1 DEF StartWork, Refuse, libraryVars
      <4>3. Settled(operation.id.name)
        BY <2>2, <4>1, MutatingId DEF StartWork
      <4>4. QED BY <2>1, <4>2, <4>3 DEF Settled
    <3>4. QED BY <3>1, <3>2, <3>3
  <2>5. CASE ~LibraryStep
    <3>1. UNCHANGED <<reading, worker>> \/ LibraryEnds
      <4>1. CASE HelperStepNext
        BY <2>2, <4>1, HelperGoesOn DEF libraryVars
      <4>2. CASE Media /\ ~EndService /\ ~ServiceDies
        BY <2>2, <4>2, MediaGoesOn DEF libraryVars
      <4>3. CASE ~HelperStepNext /\ ~(Media /\ ~EndService /\ ~ServiceDies)
        BY <2>1, <2>5, <4>3
           DEF Next, NotConfig, EndService, ServiceDies, ServiceStarts, PowerCycle, vars, libraryVars
      <4>4. QED BY <4>1, <4>2, <4>3
    <3>2. disk'[n] # None
      <4>1. CASE disk' = disk
        BY <2>3, <4>1
      <4>2. CASE disk' # disk
        <5>1. Media /\ ~EndService /\ ~ServiceDies
          <6>1. ~HelperStepNext
            BY <2>2, <4>2, HelperGoesOn
          <6>2. ~(Update /\ NotConfig)
            BY <4>2 DEF Update, GetConfig, AdmitUpdate, ReplaceFile, ReplaceFails, SyncDirectory, SyncFails,
                        ApplyLive, ApplyFails, Finished, sessionVars
          <6>3. QED BY <2>1, <2>5, <4>2, <6>1, <6>2
                DEF Next, EndService, ServiceEnds, ServiceDies, ServiceStarts, PowerCycle, vars
        <5>2. GoesOn
          BY <2>2, <5>1, MediaGoesOn
        <5>3. CASE CloseFragment
          <6>1. PICK m \in session.writing : disk' = [disk EXCEPT ![m].version = 2, ![m].whole = TRUE]
            BY <5>3 DEF CloseFragment
          <6>2. CASE m = n
            <7>1. disk[n] \in Entry /\ n \in Name
              BY <2>2, <2>3, NamesApart DEF DiskInv
            <7>2. disk'[n] = [disk[n] EXCEPT !.version = 2, !.whole = TRUE]
              BY <2>2, <6>1, <6>2, <7>1 DEF DiskInv
            <7> DEFINE e == disk[n]
            <7>3. e \in Entry /\ 2 \in 0 .. 4
              BY <7>1
            <7> HIDE DEF e
            <7>4. [e EXCEPT !.version = 2, !.whole = TRUE] \in Entry
              BY <7>3 DEF Entry
            <7>5. QED BY <7>2, <7>4, EntryAssumption DEF e
          <6>3. CASE m # n
            <7>1. disk'[n] = disk[n]
              <8>1. n \in Name
                BY <2>2, <2>3, NamesApart DEF DiskInv
              <8>2. DOMAIN disk = Name
                BY <2>2 DEF DiskInv
              <8>3. QED BY <6>1, <6>3, <8>1, <8>2
            <7>2. QED BY <2>3, <7>1
          <6>4. QED BY <6>2, <6>3
        <5>4. CASE EngineOpensFragment
          <6>1. PICK entry \in {[dir |-> engine.directory, version |-> 1, links |-> 1, whole |-> FALSE]} :
                  disk' = [disk EXCEPT ![session.opened + 1] = entry]
            BY <5>4 DEF EngineOpensFragment, OpenFragment
          <6>2. n # session.opened + 1
            BY <2>1, <2>2 DEF RecorderInv, RecorderSound, Session
          <6>3. QED BY <2>2, <2>3, <6>1, <6>2 DEF DiskInv
        <5>5. QED BY <4>2, <5>1, <5>3, <5>4
             DEF Media, Recorder, ListFragment, RecordingRuns, RotationDue, Rotated, FragmentClosed,
                 RecordingStopped, RecordingFails, StreamStopped, CaptureStopped, StorageChanges, Bootstrap,
                 MediaFollows, FollowCapture, CommandStartCapture, StartCapture, CommandStartRecording,
                 CommandStopRecording, CommandStopCapture, Do
      <4>3. QED BY <4>1, <4>2
    <3>3. QED BY <3>1, <3>2 DEF LibraryEnds
  <2>6. QED BY <2>4, <2>5
<1>2. QED BY <1>1, ConfigInvariant, PlaneInvariant, PTL DEF Spec, WritingKept
===============================================================================
