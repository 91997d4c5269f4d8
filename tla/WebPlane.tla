------------------------------ MODULE WebPlane -------------------------------
(* The web process with what stands around it: accounts and sessions, long    *)
(* answers, the control channel to the media service, and the measurements    *)
(* that the answers carry.                                                    *)
EXTENDS WebStreams, ControlChannel, DeviceTelemetry

Chances == [requests: Nat, timeouts: Nat, faults: Nat, crashes: Nat, starts: Nat]

Scenario ==
  [threads: SUBSET Handler, disk: Directory, sessions: 0 .. SessionsMax,
   requests: SUBSET Kind, streams: SUBSET {"events", "file"}, addresses: SUBSET Address,
   seconds: BOOLEAN,
   budget: Nat, minutes: Nat, failures: Nat, records: Nat, commands: Nat, crashes: Nat,
   channel: Chances, moves: Nat, samples: BOOLEAN]

(* The web process is up: with an account, or with the permission to create  *)
(* one, and then without sessions.                                           *)
ASSUME ScenariosAssumption ==
  \A s \in Scenarios : s \in Scenario /\ Startable(s.disk) /\ (s.disk.credential = NoRecord => s.sessions = 0)

vars == <<scenario, securityVars, accountVars, streamVars, channelVars, telemetryVars>>

Init ==
  /\ scenario \in Scenarios
  /\ AccountInit /\ StreamsInit
  /\ ChannelInit(scenario.channel) /\ TelemetryInit(scenario.moves)

(* The end of the web process is the end of its streams.                     *)
WebEnds ==
  /\ WebDies \/ PowerLoss \/ PasswdRestarts
  /\ IF web' = "down" THEN StreamsGone ELSE UNCHANGED streamVars

Web ==
  \/ AccountStep /\ UNCHANGED streamVars
  \/ StreamStep
  \/ WebEnds

Next ==
  \/ Web /\ UNCHANGED <<channelVars, telemetryVars>>
  \/ ChannelStep /\ UNCHANGED <<scenario, securityVars, accountVars, streamVars, telemetryVars>>
  \/ /\ scenario.samples /\ TelemetryStep
     /\ UNCHANGED <<scenario, securityVars, accountVars, streamVars, channelVars>>

Spec == Init /\ [][Next]_vars

-----------------------------------------------------------------------------
(* Sessions opened with an older password are gone once the new one is in    *)
(* use, however logins, changes, rotations and the passwd command interleave; *)
(* only an administrator's command that is not through, or failed, leaves the *)
(* web process behind the disk.                                               *)
Behind == passwd \in {"finish", "restart"} \/ unannounced \/ \E h \in Handler : handler[h].step = "adopt"

SessionsHoldThePassword ==
  Up /\ ~Behind => memory = Current.credential /\ \A t \in DOMAIN sessions : sessions[t].record = memory

(* Whatever a loss of power leaves of the directory, the web process can     *)
(* start: with the account, or with the permission to create one.            *)
StartAlwaysPossible == \A d \in Range(directory) : Startable(d)

(* credential_lock is held from a password found right, or a setup allowed,  *)
(* until all that follows is done, and by that thread alone.                 *)
Locked == {"verified", "write", "ask", "publish", "adopt", "finish"}
LockHeld == \A h \in Handler : lock = h <=> handler[h].step \in Locked

(* No more passwords are in the works than there are slots.                  *)
SlotsBounded == Cardinality({h \in Handler : handler[h].slot}) <= PasswordSlots

(* The lock, the password slots, the count of streams and every session are  *)
(* what the requests in progress and the account say. What Behind lets pass  *)
(* includes the passwd command from its write to its restart.                *)
AccountSound ==
  /\ SecurityTypeOK /\ AccountTypeOK /\ StreamsTypeOK /\ ClientsCounted
  /\ LockHeld /\ SlotsBounded
  /\ SessionsHoldThePassword /\ StartAlwaysPossible

(* First-time setup never replaces an account, whoever created it meanwhile. *)
SetupKeepsAccount ==
  [][\A h \in Handler : handler[h].kind = "setup" /\ handler'[h] # handler[h] /\ Current.credential # NoRecord
       => Current'.credential = Current.credential \/ web' = "down"]_vars

(* A browser that was sent something and watches on has its spectrum         *)
(* measured: the lease does not run out between two renewals and nobody who  *)
(* leaves takes it away, once requests have been answered promptly for a     *)
(* renewal and a round. Before its first round a stream has renewed nothing, *)
(* and those before it may have ended without.                               *)
SpectrumWhileWatched ==
  calm > RenewSeconds + 1 => \A s \in Stream : Watching(s) /\ stream[s].seen => lease > 0

(* A stream whose session has ended sends at most what was on its way.       *)
RevokedStops == \A s \in Stream : stream[s].after <= 1

(* The channel is sound between start and close.                             *)
ChannelSound == ChannelTypeOK /\ SlotsBalance /\ ClosedIsQuiet /\ PathServes
=============================================================================
