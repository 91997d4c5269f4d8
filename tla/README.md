# TinyPiRelay: a formal model

TinyPiRelay turns a Raspberry Pi with a USB microphone into an audio relay. One
process owns the capture device, streams it over SRT, records it to disk in
fragments and measures a spectrum; another serves the browser; a privileged
helper restarts and powers off; an installer puts it all on the disk. This
directory holds TLA+ modules translated from the Python source, the TLC
configurations that check them on small instances, and TLAPS proofs of the
properties that matter most for every value of the constants. Paths below are
relative to `src/src/tinypirelay/`, documents to `src/docs/`.

## The system

    browser --HTTP--> web_service --Unix socket--> media_control --> media_runtime
                        |      |                        |              |     |
                 web_security  maintenance       recording_library   media_state   gstreamer_engine
                 (sessions,    (privileged       (files, recovery)   (pure         (pipeline,
                  attempts)     helper)                               decisions)    branches)

* Commands (start, stop, rotate, set bitrate, shutdown, replace the
  configuration, list, read, delete, check, recover) reach the media service
  through its control socket. The ones that change something hold one operation
  lock; `media_runtime` behind it is a queue drained by one thread at a time.
* For each queue item the runtime calls the pure reducer, replaces its state by
  the decision's, and dispatches the decision's effects to the engine. The
  answers and the engine's events come back as further queue items.
* The engine owns the GStreamer pipeline on the GLib thread. Removing a branch
  is asynchronous: unlink, end of stream, finalization or a timeout.
* The library works on the recorder's files while the recorder goes on. It asks
  for a snapshot of what is being written and acts afterwards.
* The web process keeps sessions and login attempts in memory, the account on
  the disk, and one spectrum lease for all the browsers that watch. The `passwd`
  command changes the account beside it and restarts it.
* The helper is a client of the media service like any other, and shares a
  lifecycle lock with the installer.

### Inventory

| Component | State | Operations | Hard behaviour | What makes it correct |
|---|---|---|---|---|
| Media state reducer (`media_state.py`) | one immutable record: service, capture, stream, connection, recording | 10 commands, 19 backend events, shutdown stages | late, duplicated and reordered events of three branches; faults in the course of a shutdown | branches hold their source, shutdown in order and never stuck, retry state and timer fit the stream |
| GStreamer engine (`gstreamer_engine.py`) | pipeline, branch table, finalizing branches, rotations, pending stops | start/stop of capture, stream and recording, rotate, set bitrate, spectrum on/off, bus messages, timeouts | deferred unlink and finish, a rotation broken half-way, events that trail the change | a stop is answered once, a rotation is reported once, no branch is lost |
| Media runtime (`media_runtime.py`) | work queue, generations and tokens of branches, timers, lease | drain, dispatch, results, engine events, timers, live configuration | results against events against commands, timers that fire late | settled, its view is the engine's; every wait has an end |
| Media service (`media_service.py`) | shutdown deadline | automatic start, signals | signal during start | capture and stream start together; it leaves before its deadline |
| Configuration control (`media_control.py`, `media_config.py`) | saved document, what is active, what the engine uses | read, replace, apply, roll back | failure between writing and applying, a rollback that fails too, loss of power | a register replaced only by who has seen what it replaces |
| Recording library (`recording_library.py`) | known ids, outcomes, one worker | list, read, delete, check, recover | a file rotated, replaced or finalized between check and use | a file being written is left alone, copies are whole |
| Maintenance (`maintenance.py`) | running action and its phase | restart, reboot, shut down | clients that go on while the helper stops things | what was being recorded is closed before anything goes down |
| Sessions and accounts (`web_security.py`) | sessions, attempts, credential | log in, rotate, log out, expire, change password, first setup | eviction, expiry, a credential that changes under a login, crashes | a session belongs to the password in use |
| Web service (`web_service.py`, `cli.py`) | memory of the account, streams, lease | requests, event streams, transfers, restart | a session that ends under a stream, the last watcher leaves while another comes | streams end with their session, who watches has a spectrum |
| Control protocol (`control_protocol.py`) | connections, workers, slots, socket | accept, serve, close, bind | close() against an accept in hand, kills, stale sockets | slots balance, a closed server is quiet |
| Installer (`installer.py`) | journal, releases, units, backups | install, upgrade, repair, resume, roll back, uninstall | crash between any two steps, stale plans | what is recorded as complete is whole |
| Device telemetry (`device_telemetry.py`) | last readings, scan cache | sample | a card or interface that changes between two readings | a rate is made of readings of one thing |
| Probing, assets, packaging | none | parse, report | none | not modelled |

## The modules

Every module is a translation of one Python class or function family. The
operators keep the source's names in CamelCase (`_finish_remove` is
`FinishRemove`); an operator whose comment begins with "Fault:" is a
plausible bug, used only to confirm that a property can fail. `PROJECT.json`
maps each definition to its lines.

| Module | Models | State |
|---|---|---|
| `MediaState` | `media_state.reduce`: commands, backend events, `_advance_shutdown` | `media`, the reducer's record; `effects` of the last decision |
| `MediaEngine` | `GStreamerEngine` and the callbacks around it | `engine`, its fields with the branch table; `callbacks`, idle sources of the streaming threads; `posted`, the events of the last step |
| `MediaQueue` | the runtime's queue, `_drain`, `_wait_backend`, live configuration | queue and drainer, each thread's place, idle sources, settings of runtime and engine |
| `MediaRuntime` | `MediaRuntime` and `media_service.run_service`, composing `MediaState` and `MediaEngine` | both of those, with work queue, tokens, timers, lease, calls under way, the configuration in force and the one being applied |
| `MediaSession` | the media service as control clients see it | `session`, `disk`, `storage` |
| `ConfigControl` | `MediaControlHandler`: configuration | `file`, `saved`, `active`, `engine`, `safe` (what a loss of power may leave), `known` (to each client), `torn` (a rollback failed), `operation` |
| `ConfigRegister` | abstract specification of the above | `value`, `safe`, `seen` |
| `RecordingLibrary` | `RecordingLibrary` with its worker | `files`, `checks`, `checking`, `worker`, `reading` |
| `Maintenance` | `MaintenanceController` | `helper`, `lifecycle`, `machine` |
| `ControlPlane` | the four above composed | - |
| `WebSecurity` | `SessionStore`, `LoginThrottle` | `sessions`, `minted`, `windows` |
| `WebAccount` | login, setup, password change; `passwd` | `handler` (threads), `lock`, `memory`, `web`, `directory`, `passwd` |
| `WebStreams` | event streams, transfers, the spectrum lease | `stream`, `clients`, `leaseLock`, `renewIn`, `lease`, `stray` |
| `ControlChannel` | `UnixControlServer`, `ControlClient` | `server`, `acceptor`, `peer`, `slots`, `tracked`, `path` |
| `DeviceTelemetry` | `DeviceTelemetryCollector` | `host`, `sampler`, `rates`, `scan`, `report` |
| `WebPlane` | the five above composed | - |
| `Installer` | `installer.py`: plan, apply, resume, roll back, uninstall | the disk (pointer, releases, units, backups), the journal, the operators' steps |
| `MC...` | instances for TLC | - |
| `...Proofs` | theorems | - |

**MediaState.** `reduce` is a pure function from a state and an event to a
decision. `Reduce(s, e)` is the same function over records, so that
`MediaRuntime` can call it. A step of `Spec` hands the reducer any event it
accepts, in any state: nothing is assumed of the order in which the engine or
the clients speak, which is more than they can do and therefore safe for the
invariants. A decision with an error skips the shutdown stages, as in the code.

**MediaEngine.** Each handler is an operator on the engine record and `out`
collects the events it emits. Bus messages, commands, timeouts and idle sources
run on the GLib thread one at a time, so that each is one action; the streaming
threads only close a valve and queue callbacks, which later run in order, perhaps
after their branch has gone. Removing a branch takes four steps of three
parties; a deadline, an overrun, an error or a lost capture may end it earlier.
A file may fail to close after its EOS went through.

**MediaQueue.** Steps are the critical sections of the runtime's lock and the
calls between them. Which thread drains is a race; what the drainer asks of the
engine runs at once on the owner and is left to an idle source otherwise. A
configuration update asks the engine for up to two settings and undoes both if
either is refused or its wait times out, also when the owner is executing the
call at that moment. The media state is left out: here work may post work, call
the engine, or wait.

**MediaRuntime.** Whoever posts to an unattended queue drains it. A draining
owner calls the engine at once; a control thread queues an idle source and may
wait for it, and the wait may time out. Each effect of the reducer and each event
of the engine is translated as the runtime translates it: generations of the
reducer to instances of the engine and back, timers armed and cancelled, the
watchdog of a connection attempt, results that come late. A recording's file is
the token of its branch. How long a timer takes is left open.

A configuration update (`_process_config_update`) is one more kind of work: it asks
the engine for what has changed, waits for the answers, undoes what was taken if
another call is refused or not answered, and then writes revisions and the
bitrate into the state itself, past the reducer. So a step of the state is either the
reducer's or `ConfigurationInForce`. While the drainer waits for the engine, here or
for the analyzer, it handles nothing else, and what it waits for may be given up
before the owner comes to it or while the owner is at it (`WaitTimeout`).
`runtime.amiss` is a history variable: it notes what went wrong on the way (a wait
given up, a call that overtook a deferred one, an undoing that failed), and the
properties that hold only without it say so.

**The control plane.** `MediaSession` summarises `MediaRuntime` and keeps what
the library depends on: the order in which a fragment is opened by its sink,
listed by the runtime, closed and taken off the list. A file is what `_version`
sees of it: directory, version, number of links, and whether it is whole.
`ConfigControl` has the steps of a replacement (rename, synchronization,
application) with a failure after each; `safe` are the documents a loss of power
may leave. `RecordingLibrary` separates each look at the recorder from the act
that follows, since only deletions and starts of workers hold the operation
lock. The worker of a recovery creates, validates, links, completes and withdraws
in steps. `Maintenance` is `perform()` with its waits, any of which may time
out. `ControlPlane` adds the commands of the clients, the end of the service by a
request, a crash or a loss of power, and its start.

**The web plane.** A request thread is at the step before its next lock or slow
call: `Login` admits, `LoginVerify` takes the credential lock and computes the
hash under it, and `LoginOpens` opens the session before it lets go of it.
Deadlines are counted down (a minute at a time for sessions and attempts, a second
for streams and leases). The credential's directory is a sequence of states since
the last fsync, and a loss of power leaves any one of them. A lease request that
timed out is executed later (`stray`). `ControlChannel` has the threads of the
server one system call at a time, with joins that time out. `DeviceTelemetry`
reads disk and interface in several steps between which the host may change.

**Installer.** A plan is made without the lock and applied later, perhaps after
another operator's. Every phase is a list of steps and then its journal entry; a
step fails (and rolls back or stops) or is cut short by a crash, after which some
operator resumes, repairs, installs something else or uninstalls. The account is
made in two durable steps, the credential and then the marker (`WriteCredential`,
`InstallAccount`), and a marker left between them is removed by the web process when
it starts (`FinishSetup`). A crash is the end of the process, or an orderly restart
of the machine that flushes what was written: `write_atomic` synchronizes the file
but not its directory, and copying a release or moving the pointer synchronizes
nothing (`installer.py:463-493`, `553-633`), so that a loss of power may lose or
reorder these writes. `Reboot` keeps them all, and what the runs and the proofs say
of crashes does not extend to power cuts during an installation.

## What the runs check

Each run's scenarios are a CONSTANT: a behaviour draws one at the start and keeps
it. A scenario names the commands, faults and limits of one part's
interleavings, so that one run covers them all without the product of their
states. The scenarios are commented in the MC modules.

| Run | Properties | Shows |
|---|---|---|
| `media` | `StateCoherent`, `BranchesHoldTheirSource` | the fields of service, stream, connection and recording fit each other; a live branch has a running capture under it |
| | `StopsAreRequested`, `GenerationsNameOneBranch` | a stop is asked of the backend once and with the change of state; a generation is never used for two branches |
| | `RetryTimerFollowsWait` | the retry timer is armed for, and only for, the wait the state shows |
| | `DuplicatesHarmless` | an event seen twice changes nothing the second time |
| | `ShutdownInOrder`, `ShutdownCompletes` | recording, stream, capture, and an end |
| `queue` | `FinishedInOrder`, `EveryCommandAnswered` | one drainer, nothing stranded, everything answered |
| | `SettingsAgree` | engine and runtime agree after an update, however its calls fail or time out |
| `media_runtime` | `StreamAgrees` | settled, the reducer's view of the stream is the engine's and every wait has an end |
| | `ServiceAgrees`, `WritersListed` | the same for capture, recording, lease and settings; every open file is on the list the library looks at |
| | `ReducerSpec` | every step of the state is one of `MediaState`, or puts a configuration into force (refinement) |
| | `ShutdownInTurn`, `StoppedAfterLastFragment` | a shutdown waits for something, as long as the engine is called in the order of the decisions; a recording ends with its last fragment |
| | `EngineConsistent` | a stop waits for branches that are being removed; a rotation is never missed |
| | `RemovedOnce`, `StopAnsweredOnce` | one event for each branch that leaves and each stop |
| | `CleanFragmentsSawEos` | a fragment passes for finalized only after EOS over a sound sink |
| `installer` | `DiskSound`, `InterruptedCanResume` | whatever is cut short can be gone on from, and exposes nothing unasked |
| | `CompleteUnlessUndone` | what is recorded as complete is whole |
| | `ConfigKept`, `RegistrationStaysClosed`, `StoppedBeforeRemoval` | the user's configuration and account survive; nothing is taken from under a service |
| `control` | `RegisterSpec` | the configuration file implements `ConfigRegister` (refinement) |
| | `SettingsLeftAlone` | a kept passphrase is the file's; the directory stays under a recording |
| | `PlaneConsistent` | what is active is durable and, unless a rollback failed, what the engine uses; the helper is locked and busy exactly while it acts; outcomes and copies of the library against the recorder |
| | `SourceStands`, `WritingKept` | the source of a recovery and the file being written are left alone |
| | `FoundRecordingKept`, `PowerAfterClean` | the helper closes what it found, and halts only after a clean stop |
| `web` | `AccountSound`, `SetupKeepsAccount` | sessions belong to the password in use, the lock to who acts on a verified one, the process can always start, setup replaces nobody |
| | `RevokedStops`, `SpectrumWhileWatched` | a stream ends with its session; who watches is measured for |
| | `ChannelSound`, `ReportsAreOfNow` | slots, threads and socket of the channel; both readings of a rate, and the total, of one disk or interface |
| `engine_forced_rotation` | `ForcedRotationsSaySo` | see Findings, as for the five below |
| `runtime_startup` | `StreamStartsWithCapture` | |
| `runtime_late_lease` | `StopHasAnEnd` | |
| `runtime_unheard` | `SpectrumLeased` | |
| `runtime_overtaken` | `ShutdownProgresses` | |
| `installer_rollback` | `CompleteIsWhole` | |

`media_runtime` has two kinds of behaviours, and `MCMediaRuntime` draws one: the
runtime with its own engine in `ServiceScenarios`, or an engine of its own
(`Alone`) in `Drills`, which every command, bus message, timeout and callback may
reach in any order. The second asks more of the engine than the runtime does; its
four properties, and the theorems of `MediaEngineProofs`, are about the engine
whoever drives it.

**Bounds.** Two generations of a branch are what a late event needs to meet its
successor; six failures run past the end of the backoff table; three branches give
two rotations, or a branch, its replacement and an analyzer. Three works and two
calls let two threads change roles twice. Two clients, documents of every validity
and two updates let one overtake the other. Two fragments with a copy each, a list
of two ids and of one outcome make a list evict what is in use. The web's three
threads outnumber its two slots for password checks; its lists hold two, so that a
third evicts; a lease of five seconds renewed every two has the order of the real
five and 2.0 (`media_runtime.py:39`, `web_service.py:56`), with seconds as the
smallest steps. The installer has a release from before LAN access, two later
ones, and a second payload under the number of the last. Each scenario bounds the
faults: one or two of each, at any step.

**View.** The `media_runtime` run and the violation runs beside it leave the last
step's events and effects out of the identity of a state. No action and no state
predicate reads them; the action properties read them primed, and TLC evaluates
those on every step it generates.

**Deadlock** is checked for `media` and `queue`. The others' bounds run out: when
every command, fault and branch of a scenario is spent, nothing may be left to do.

**Fairness.** `Acknowledgements` (`MediaState`) assumes that a stop under way is
acknowledged: the engine ends every removal at the latest with its deadline
(`DEFAULT_EOS_TIMEOUT_SECONDS`), and `StopWaitsForRemovals` says that what a stop
waits for is being removed. It is at odds with the code in one case, the finding of
`runtime_late_lease`: a lease renewed during the stop of the capture attaches a
branch the stop then waits for, and its acknowledgement comes, if at all, when the
service gives up at its own deadline. `ShutdownCompletes` is to be read as: the
reducer needs nothing but its acknowledgements. Whether they come is for
`StopHasAnEnd` and `ShutdownProgresses`, which are violated there and in
`runtime_overtaken`. For the queue, a thread that can go on does, and the
wait for the engine times out; the owner is not assumed to run anything, because
it may itself be waiting for a command.

## Refinement

* `ControlPlane!RegisterSpec`: `ConfigControl` implements `ConfigRegister`, whose
  value is the file, with a step for each replacement, read and loss of power.
  Checked by TLC and proved for all constants.
* `MediaRuntime!ReducerSpec`: the runtime hands the reducer only events of
  generations it has given and applies each decision whole: it starts as
  `MediaState` does, and every step is the reducer's, for some event, leaves its
  state alone, or puts a configuration into force. The last is
  `_process_config_update` (`media_runtime.py:550-574`), which replaces the state
  without asking the reducer: `ConfigurationInForce` is all it may do, the
  revisions of what is set and the bitrate of a running Opus stream for which no
  other is pending. It is stated without `MediaState`'s bounds on the generations,
  which exist for TLC and not in the code. Checked by TLC and proved for all
  constants; what is proved of `MediaState` holds of the runtime therefore, since a
  configuration put into force keeps a coherent state coherent.
* `MediaSession` is a summary of `MediaRuntime` written for `ControlPlane`. The
  link is by hand, from the same lines of code: `WritersListed` is the fact about
  the runtime it rests on.

## What is proved

All theorems hold for every value of the constants under the modules' named
`ASSUME`s, which say that numbers are numbers, finite sets finite, and that
`None` and its like are not among the things they stand for the absence of.
TLC evaluates each of them.

**The media state** (`MediaStateProofs`). `TypeCorrect`, `SourceHeldAlways`,
`ShutdownSound`, `RetrySound`, `RecordingSound`, `BitrateSound`, `StateSound`. The
inductive invariant is `IInv == Good(media) /\ effects \in Seq(Effect)`; `Good`
is `Coherent` with `Waiting` (a shutdown stage has a stop to wait for) and
`Quiet` (a stopped service has no live branch). It is needed because
`ShutdownNeverStuck` is kept only if every handler preserves a pending stop where
it returns an error, since an error skips the stages. One lemma for each
operation, frame lemmas for the parts it leaves alone, one for each stage.

**The steps of the reducer** (`MediaStepProofs`). `StopsRequested`,
`TimerFollowsWait`, `ShutdownOrdered`, `GenerationsFresh`, each an action property
from `Good`. `Told` relates the effects asked for to the branches that moved and is
proved of every handler. It does not survive the shutdown stages by itself: a
stage could repeat a stop the event had just asked for. `Mild` says that no
backend event stops a stream or brings a branch to life, and that it schedules a
retry only over a live stream, for whose recording a shutdown still waits. So the
stages add requests of their own only (`AdvanceShutdownLawful`). `Idempotent` is
`DuplicatesHarmless` in every reachable state: each handler leaves behind what
makes it return early the second time (`Still`), and the stages leave nothing
another pass would do (`Pushed`, `Parked`).

**The engine** (`MediaEngineProofs`). `EngineSound`. `EInv` holds whenever the owner's
thread lets go of the engine; `Consistent` is proved of every operator the
handlers are made of, in the order in which they call each other. Three facts
carry it. A branch is active or being removed and not both, so that taking it
out of one and putting it into the other (`Retired`) cannot lose what a stop waits
for. There is at most one rotation, to the fragment recorded now (`Rotating`):
it makes `CompleteRotation`'s choice the only one, and needs that the reducer asks
for a rotation only when none is pending (`MayRotate`). And `Reported`, that no
rotation has both halves done, is broken only by the step that finishes the old
fragment or plays the new one, each of which ends in `CompleteRotation`. The
callbacks that wait name branches that exist, because tokens are never withdrawn.

**The steps of the engine** (`MediaEngineProofs`). `LeavesOnce`, `AnsweredOnce`,
`CleanOnlyAfterEos`. One operation calls others that post events of their own, so
each handler is followed from the record it starts on through those it makes on
the way: `Running(e, f)` says that what was posted since `e` is a true ledger of
who has left it, once each, and that no stop has been answered yet; `Settled(e,
f)`, at the handler's end, that one that is over has been, by one event, with
nothing left to stop. `Ledger` says of each clean fragment that its EOS came
through and its valve is open. The loss of capture removes everything that is
held, in ascending order of tokens: `AscendingIsAll` proves that such an
enumeration exists and names each member once, from the order of inclusion on the
subsets of a finite set, which is well founded. The inductive invariant is `DInv`,
`EInv` with `Drains`: a branch that is held is unlinked at most once, before EOS
enters it, its drain finishes it only after EOS was seen, and an active one has no
drain. Without it a callback that was queued before could finish a branch whose
EOS never came. TLC checked `DInv` on all states of the run before it was proved.

**The runtime** (`MediaRuntimeProofs`). `UsesReducer` (`ReducerSpec`) and, with
it, `CoherentInRuntime`, `LawsInRuntime` and `HarmlessInRuntime`: what is proved
of the reducer alone holds in the composed system, where its events come from the
engine, from results that are late, from timers and from commands. The inductive
invariant is `IInv == World(Now) /\ Bounded`, with what an update under way may
rely on (`runtime.update` and the stream it was planned for: nothing else is
handled while its drainer waits), so that what it writes past the reducer keeps
`Good`. A reducer's law for an event is worth nothing unless the event is one it
was proved for, that is one of a generation already given; the runtime computes
that generation from what it remembered when it queued the work, armed the timer
or deferred the call. `World` therefore says of everything under way that it names
a generation the reducer has given (`WorkOk`, `CallOk`, `RuntimeOk`) and of what
the engine holds and posts that it names a branch that was added (`Sized`,
`Honest`). The two halves need each other: a file of the recorder is a token of
the engine, and a removal is translated through the runtime's mapping. Generations
and tokens only grow (`Later`, `Grows`), so that what was queued stays known
however late it is handled. Each operator of the runtime is shown to keep a world
(`Moves`), those that hand an event to the reducer to lead to one of its steps. A
step of the runtime takes at most one event to it, which is what makes the
refinement step by step. The module instantiates `MediaStepProofs` and
`MediaEngineProofs` for the reducer and the engine it composes and uses their
theorems; a few lemmas (`SameReduce`, `SameEvent`, ...) say that their operators
are those of the runtime's own instances. `LawsInRuntime` follows from
`StepLawful`, the step form of the four laws of the reducer, `HarmlessInRuntime`
from `ReduceHarmless`. The proof is why `Dispatched` is a recursive function and
not a fold.

**The queue** (`MediaQueueProofs`). `DrainerAlone`,
`QueueServed`, `WorkKept`, `FirstInFirstOut`: `InOrder` is the strengthening:
finished works, the one in hand and the queue are, in this order, the numbers up
to `Len(works)`. `UpdatesSettle` on top of it: `Settled` says what holds at each
stage of an update (`Midway`) and that a call not cancelled is the one the
drainer waits for now (`CallsFit`).

**The configuration** (`ControlPlaneProofs`). `ConfigInvariant`, `AppliedDurable`,
`RegisterImplemented`, `KeptSecretKept`: between updates what is saved is the file
(or the file cannot be read), and during one the client has seen what it replaces.
Each step of the plane maps to a step of the register or a stutter.
`SettingsStand`: the recording directory changes only with an application, which
refuses while a recording is active. `ConfigInvariant` includes `ActiveIsUsed`:
the engine runs with what is reported active unless a rollback failed too, and
only then (`torn`). `HelperInvariant` and `MaintenanceSafe`: from the helper's
verification to its act, the service is down and to stay down, and lock and busy
flag come back together on every path.

**The recordings** (`ControlPlaneProofs`). `PlaneInvariant` is about the recorder,
the disk, the library, its worker and the helper at once, because each relies on
the others:

* `RecorderInv`: only the last fragment is open and not yet listed, and only in
  a state in which `_protected` protects every name. This is the fact that makes
  a look at the snapshot enough.
* `DiskInv`: a fragment once closed is whole or gone; copies are whole.
* `MutationInv`, `ReadingInv`, `WorkerInv`: whoever passed the look acts on a file
  that is closed and that no sink opens again, since numbers are not used twice;
  the worker's file stands at its version, since nobody else may delete it while
  `_checking` names it.
* `ChecksInv`: at most one outcome of each id, so that removing the old one
  before adding the new one keeps the list in its limit without evicting it.
* `FoundInv`: the recording the helper found is closed from the moment it goes on.

From it `PlaneSound`, `SourceKept`, `FoundKept` and, as an action property,
`WritingSafe`. TLC checked `PlaneInv` on the states of the `control` run before it
was proved.

**The web process** (`WebPlaneProofs`). `AccountIsSound`, `RevokedStreamsStop`,
`SetupNeverReplaces`. What `AccountSound` states goes with a hole, `Behind`: from a
`passwd` command's write to its restart, and after one that failed half-way, the web
process holds the old password. `AccountInv` has what a thread knows at each step
(`Shape`), that the lock is held exactly by those who are past it (`LockHeld`),
that memory and every session hold the credential that is current unless somebody
is about to adopt or announce a new one (`MemoryHeld`), and what the disk may be
like (`DiskHeld`): in the directory's states since the last fsync a credential or
the setup marker is always there, and once a credential is durable none of them
lacks it. A session's token is never minted twice and an ended session does not
come back (`OnlyOlder`), which with `StreamInv` gives the end of streams: between
two looks at the session a stream sends once. The store is shown to keep its
limit from what `Create`, `Rotate` and the pruning do to a function's domain. That
the password slots suffice is a separate induction (`SlotsKeep`).

**The spectrum lease** (`WebPlaneProofs`). `WatchersMeasured`, for any number of
streams and any lease longer than a renewal and a round. `LeaseInv` has who holds
the lease lock (`LeaseHeld`), that whoever gives the lease back is alone
(`ReleasedAlone`), and two bounds in seconds: while the next renewal is to come
the lease outlasts it (`LeaseFresh`), and once it is due a stream that was sent
something cannot miss two rounds of prompt seconds (`Fits`). The attempt to prove
the property as it stood first, of every stream that watches, failed for a reason:
a chain of streams, each of which enters just before the last one leaves and loses
its session before its first round, never renews the lease it found. TLC finds the
chain with two sessions and five requests. Nobody was sent anything in it, so the
property is now about streams that were (`seen`). TLC checked `LeaseInv` on the
chain's instance before it was proved.

**Channel and measurements** (`WebPlaneProofs`). `ChannelIsSound`: slots balance
with connections in hand and workers, `HandHeld` and `WorkersTracked` say who is
responsible for a connection at each moment, and `AcceptorOver` that nobody can
register a worker once the acceptor was joined. `MeasurementsAreOfNow`:
`Readings` says that what is remembered was read in the last sample (or is too
old and then dropped), and `Unsaid` that a report is made in order. Each of the two
readings of a rate carries the disk or interface it was taken of, its sample and its
count: that the two are of one thing is the comparison of identities in `_rate`,
and nothing else.

**The installer** (`InstallerProofs`). `SoundAlways`, `CompleteMeansWhole`,
`InterruptedResumes`, `ConfigurationKept`, `RegistrationClosed`, `RemovedWhenStopped`:
all six properties of the run, for any releases, operators, configurations,
scenarios and numbers of failures and crashes. Besides the types of its
constants the proof assumes that `None` is none of the things it stands for the
absence of, and that the operators' artifacts have this version of the code
(`ScenarioAssumption`). `IInv` relates the journal, the disk, systemd, the reviewed
plans and the steps an operation has left:

* `Programmed`, `SetRight`: the steps left are in one order (`Sorted`), and where one
  takes back or makes stale what another sets, that one is still to come. What is
  left of a program that failed or was cut short is then known without knowing
  where it began (`Stretched`).
* `Recorded`: the journal agrees with the steps left. A phase that is recorded has
  no step left; an operation that has recorded nothing still has the journal it
  was planned from.
* `LaidDown`, `Activated`, `Served`: what each phase recorded in the journal says of
  the disk and of systemd. `Kept`, `Unharmed` and `Untouched` say which of it survives
  an interrupted uninstallation, damage by hand and a rollback.
* `Laying`, `Starting`, `Mending`, `Restoring`, `Taking`: what the steps of an
  installation, a repair, a rollback and a removal have done, so that the record
  that follows them is true. `PlansHold` says what a repair may rely on that was
  planned before the lock was taken.
* `Returnable`, `Fitting`, `AccountKept`, `Consented`: the release to return to, the
  one to resume, the account and the consent.

There is a lemma for each kind of step (`FileSteps`, `CommandSteps`, `RecordStep`,
`RollbackStep`, ...), all over the same few facts about sorted sequences. The
action properties follow from `IInv` and from what a step may touch at all
(`Touching`); `RegistrationClosed` needs besides that what an operation returns to
was decided by its plan (`AsPlanned`), and that a plan made without a journal and
without data to keep was made before anything was completed (`Untold`): its
exception, a resumed reinstallation over kept data, is stated in the property and is
the only one. TLC checked `IInv` on all states of the run
before it was proved. The proof showed that the model's first
`InterruptedCanResume` was false (see the third divergence of the installer
below), and that its exception for damaged files was not needed.

### Only model-checked

* Liveness (`ShutdownCompletes`, `EveryCommandAnswered`): temporal reasoning with
  fairness is beyond the prover.
* `MediaRuntime`: `StreamAgrees`, `ServiceAgrees`, `WritersListed`, `ShutdownInTurn`
  and `StoppedAfterLastFragment`. `IInv` says that whatever is under way names
  something real; these need what it will amount to: which stop, result or event
  each difference between the reducer's view and the engine's is waiting for. That
  invariant has not been found.

## Findings

Each is a run that TLC must find violated, with a property taken from a document
of the repository.

* `engine_forced_rotation` (`gstreamer_engine.py:922`). `_finish_remove` notes a
  forced rotation from its argument, before it reads the valve of the file sink.
  When closing the file fails and the replacement is not playing yet, the rotation
  is reported later as not forced and the runtime lists the spoiled fragment as
  finalized. `MEDIA_SERVICE.md:196`: "A forced removal is never reported as a
  finalized fragment."
* `runtime_startup` (`media_service.py:296`). The service looks at the runtime's
  state right after it handed it the event that capture has started. When another
  thread is draining, the event is only queued, capture is not running yet, and the
  configured stream or recording is never started. `GETTING_STARTED.md:76`:
  "streaming starts with capture".
* `runtime_late_lease` (`gstreamer_engine.py:549`). A lease of the spectrum that
  arrives while capture is being stopped attaches an analyzer that no removal has
  been asked for; the stop waits for it, and since `_cancel_all_timers` took the
  lease's timer the service waits until its own deadline. `MEDIA_SERVICE.md:217`:
  a branch timeout "cannot hold shutdown indefinitely".
* `runtime_unheard` (`media_runtime.py:605`). The wait for the engine to attach the
  analyzer is given up while the owner attaches it: the call takes effect,
  `_spectrum_backend_active` stays false, and the expiry of the lease finds nothing to
  remove. ADR 0003:208-209: "A web crash can leave spectrum attached for at most its
  five-second lease; expiry removes only that disposable branch".
* `runtime_overtaken` (`media_runtime.py:723`). A call is made at once on the owner and
  deferred to an idle source from a control thread. The capture.stop of a shutdown the
  owner drains then reaches the engine before the capture.start another thread
  decided earlier: it finds nothing to stop, capture starts afterwards, and the
  service waits for a stop nobody makes. `MEDIA_SERVICE.md:215-216`: "Shutdown is
  ordered and idempotent".
* `installer_rollback` (`installer.py:1836`). The rollback of a failed activation
  restores unit files, access and pointer while the journal still says
  "activated". Cut short and resumed, it skips the phases it believes done and
  records the new version complete with the old integration files.
  `INSTALLATION.md:210`: "The same artifact safely repairs/resumes an interrupted
  operation."

## Known divergences and limits without a run

Met while modelling, and not made a run of their own. Where a passing property has
an exception for one of them, it is named here and in the property's comment.

* Runtime. A caller that connects while the watchdog's abort is on its way is shown
  connected without a branch (`ConnectedIsAttached`, in the instance
  `WatchdogScenario` of `MCMediaRuntime`; `media_runtime.py:1434` against
  `MEDIA_SERVICE.md:174`); no scenario of the passing run with the watchdog has such a
  caller. A spectrum error that a streaming thread queued and that is reported
  after the next lease attached the analyzer again makes the runtime take it for
  detached, as a wait given up does (`reported_late` in `ServiceAgrees`). Once a bitrate
  was set with `set_opus_bitrate`, a reconnection builds the encoder from the engine's
  configuration (`gstreamer_engine.py:585`, `176-204`), whose bitrate is the older
  one; the encoder is not part of the model. `start_stream` reads the configuration
  before it queues its command.
* Configuration: a rollback that fails too leaves the engine with a setting nobody
  saved (`media_runtime.py:541`, ADR 0003:127-130), which is why `SettingsAgree`
  admits it only when reported.
* Recordings: a crash between link and unlink leaves a copy with two links that no
  listing shows (`recording_library.py:487`). Another spelling of the directory
  gives its files other ids.
* Maintenance: a request for the status that times out leaves the media service
  stopped (`maintenance.py:138`).
* Web: logging out while the same session is being rotated leaves the rotated one.
  A `passwd` command that cannot tell whether its write is durable exits without a
  restart, and the web process keeps the old credential until the next
  (`unannounced`). Releasing a lease late may cancel a newer one for up to one
  renewal.
* Installer: an uninstallation of an interrupted first installation that preserves
  data leaves a journal over which no installation is allowed
  (`INSTALLATION.md:348`). `INSTALLATION.md:226-231` promises that only a fresh
  installation permits account creation; but an uninstallation that keeps the data
  writes a journal without an installed version (`installer.py:1999-2008`), a
  reinstallation over it that is cut short has nothing installed either, and when
  the account is lost before it is resumed, the resumption writes the marker
  (`installer.py:1369-1371`, `1458`, `2154-2160`). `RegistrationStaysClosed`
  states this as its one exception (`history.completed` is kept through the
  uninstallation, `history.established` is not). An artifact rebuilt under a
  version number is planned while its release directory is still empty; another
  operator's upgrade to that version fails and is rolled back, which leaves the
  same journal and a full directory; applying the plan does not look at the
  directory before it writes its journal (`installer.py:1596-1641`), copying
  refuses, and neither artifact can resume, against `INSTALLATION.md:210`
  (`contested`, the exception of `InterruptedCanResume`; the scenario `Contending`
  reaches it). A temporary file of the first journal is taken for a conflict.
  Resuming repairs nothing that was damaged by hand, and a resumed or repaired
  installation after an interrupted uninstallation completes with its units
  disabled (`installer.py:1695`). That exception (`removing`) lasts: later repairs
  and resumptions record completion over the same disabled units, until an
  installation lays all down anew.

Assumed by the models: one control server for each socket; the joins of the
acceptor succeed, though the code's join is bounded and goes on without it
(`control_protocol.py:345`), so that an acceptor stuck for longer is outside what
`ChannelSound` says; the states of the credential's directory reach the disk in
their order; minutes of sessions and seconds of streams run independently of each
other; a device number is not given to another medium. Left out: a `SecurityError`
of first setup after its publication, and branches of the code no state reaches
(`maintenance.py:172-174`, the second check of `SetupLoad`).

## Not modelled

* The syntax of payloads, requests, frames, units and documents, the wording of
  errors and logs, redaction, HTML and the browser's code: no property is about
  them.
* Elements, caps and queue properties of GStreamer; GStreamer, systemd, apt, the
  kernel's sockets and file system are modelled by what the code relies on.
* `tinypirelay restart media` (`cli.py`) restarts the service without the lifecycle
  lock the helper and the installer share; `PowerAfterClean` is about the others.
* A restart of the media service, which drops the spectrum lease under those who
  watch until their next renewal; `SpectrumWhileWatched` is about a service that
  stays. Its lease and renewal are whole seconds, any that leave room for a round.
* Values of telemetry (levels, spectra, CPU, temperature): no state depends on them.
* `probe.py` and `audio_capabilities.py` parse the output of other programs and keep
  no state; the spikes are experiments, the tests are read as documentation.

## Layout of a component

`X.tla` holds the state, the actions and the properties of component X, `MCX.tla`
the definitions of its instances, `Y.cfg` one run, `XProofs.tla` its theorems
(`MediaStepProofs.tla` those about the steps of `MediaState`). In the proofs an
inductive invariant is named in `...Inv`, a lemma for an action ends in `Stands`,
and a lemma for a handler says what it keeps.

## What is next

1. An inductive invariant of what is under way in `MediaRuntime`, on top of
   `IInv`, beginning with `WritersListed`.
