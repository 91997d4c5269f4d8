----------------------------- MODULE MediaQueue ------------------------------
(***************************************************************************)
(* The runtime's work queue and the threads around it (media_runtime.py,   *)
(* with GStreamerEngine.invoke). Control threads dispatch commands and     *)
(* wait for them; the owner thread runs the GLib main loop, where engine   *)
(* events and timers post work and the service dispatches a few commands   *)
(* of its own. Whichever thread finds nobody draining drains the queue.    *)
(* What a drainer asks of the engine runs at once on the owner thread, and *)
(* on another thread is left to the owner as an idle source; applying a    *)
(* configuration waits for the answer, and undoes what it cannot confirm.  *)
(*                                                                         *)
(* Steps are the critical sections of the runtime's lock and the calls     *)
(* between them. What the work does to the media state is in MediaState    *)
(* and MediaRuntime; here it may post more work and call the engine.       *)
(***************************************************************************)
EXTENDS Naturals, Sequences

CONSTANTS
  Control,         (* the worker threads of the control server              *)
  Owner,           (* the GLib thread                                       *)
  None,            (* no thread                                             *)
  MaxWork,         (* bound: pieces of work ever queued                     *)
  MaxCalls         (* bound: idle sources before an effect or event adds one *)

ASSUME QueueAssumption ==
  /\ Owner \notin Control /\ None \notin Control \cup {Owner}
  /\ {MaxWork, MaxCalls} \subseteq Nat

Thread == Control \cup {Owner}

VARIABLES
  queue,           (* _queue: the work not taken yet, by number             *)
  works,           (* every _Work so far: its kind                          *)
  drainer,         (* _drain_thread, None unless _draining                  *)
  pc,              (* where a thread is                                     *)
  taken,           (* the work a draining thread is processing              *)
  mine,            (* the work a thread dispatched and waits for, or 0      *)
  finished,        (* the work whose `done` is set                          *)
  calls,           (* idle sources of the GLib context                      *)
  running,         (* the awaited call the owner is executing, or none      *)
  stage,           (* the call of the engine a configuration update is at   *)
  future,          (* its future                                            *)
  settings,        (* _config and opus_bitrate_bps: the update they are of  *)
  applied,         (* the same of the engine                                *)
  rollbackFailed   (* "media backend configuration rollback failed" raised  *)

threads == <<drainer, pc, taken, mine>>
update == <<stage, future>>
config == <<settings, applied, rollbackFailed>>
vars ==
  <<queue, works, threads, finished, calls, running, update, config>>

(* "command" and "config" are dispatched and waited for. *)
WorkKind == {"command", "config", "event"}

(* The calls of an update: the new configuration, the new bitrate, and what  *)
(* undoes the two.                                                          *)
Stage == {"config", "bitrate", "undoBitrate", "undoConfig"}
Setting(s) == IF s \in {"config", "undoConfig"} THEN "config" ELSE "bitrate"

(* An idle source: a call without an answer, an engine event to deliver, a   *)
(* call of an update, or one that was cancelled.                            *)
Call ==
  [call : {"effect", "event", "cancelled"}]
    \cup [call : {"answer"}, to : Control, stage : Stage]
Running ==
  [call : {"none", "cancelled"}] \cup [call : {"answer"}, to : Control, ok : BOOLEAN]

Init ==
  /\ queue = <<>> /\ works = <<>> /\ drainer = None
  /\ pc = [t \in Thread |-> "free"]
  /\ taken = [t \in Thread |-> 0] /\ mine = [t \in Thread |-> 0]
  /\ finished = {} /\ calls = <<>> /\ running = [call |-> "none"]
  /\ stage = [t \in Thread |-> "none"] /\ future = [t \in Thread |-> "none"]
  /\ settings = [config |-> 0, bitrate |-> 0] /\ applied = settings
  /\ rollbackFailed = FALSE

-----------------------------------------------------------------------------
(* _enqueue: one critical section, in which a thread that finds nobody      *)
(* draining becomes the drainer. `at` is where it goes on otherwise.        *)
Enqueue(t, kind, at) ==
  /\ Len(works) < MaxWork
  /\ works' = Append(works, kind)
  /\ queue' = Append(queue, Len(works) + 1)
  /\ IF drainer = None
       THEN drainer' = t /\ pc' = [pc EXCEPT ![t] = "take"]
       ELSE UNCHANGED drainer /\ pc' = [pc EXCEPT ![t] = at]

(* dispatch and apply_live_config: queue the work, drain if need be, and    *)
(* wait for it.                                                             *)
Dispatch(t, kind) ==
  /\ pc[t] = "free"
  /\ Enqueue(t, kind, "wait")
  /\ mine' = [mine EXCEPT ![t] = Len(works) + 1]
  /\ UNCHANGED <<taken, finished, calls, running, update, config>>

(* A timer posts its event on the owner thread.                             *)
TimerDue ==
  /\ pc[Owner] = "free"
  /\ Enqueue(Owner, "event", "free")
  /\ UNCHANGED <<taken, mine, finished, calls, running, update, config>>

WaitOver(t) ==
  /\ pc[t] = "wait" /\ mine[t] \in finished
  /\ pc' = [pc EXCEPT ![t] = "free"] /\ mine' = [mine EXCEPT ![t] = 0]
  /\ UNCHANGED <<queue, works, drainer, taken, finished, calls, running, update,
                 config>>

-----------------------------------------------------------------------------
(* _drain.                                                                  *)

(* Fault: the newest work first.                                            *)
TakeNewest(t) ==
  /\ pc[t] = "take" /\ queue # <<>>
  /\ queue' = SubSeq(queue, 1, Len(queue) - 1)
  /\ taken' = [taken EXCEPT ![t] = queue[Len(queue)]]
  /\ pc' = [pc EXCEPT ![t] = "process"]
  /\ UNCHANGED <<works, drainer, mine, finished, calls, running, update, config>>

Take(t) ==
  /\ pc[t] = "take" /\ queue # <<>>
  /\ queue' = Tail(queue)
  /\ taken' = [taken EXCEPT ![t] = Head(queue)]
  /\ pc' = [pc EXCEPT ![t] = "process"]
  /\ UNCHANGED <<works, drainer, mine, finished, calls, running, update, config>>

Leave(t) ==
  /\ pc[t] = "take" /\ queue = <<>>
  /\ drainer' = None
  /\ pc' = [pc EXCEPT ![t] = IF mine[t] = 0 THEN "free" ELSE "wait"]
  /\ UNCHANGED <<queue, works, taken, mine, finished, calls, running, update,
                 config>>

(* The end of a piece of work, whether it succeeded or raised.              *)
Finish(t) ==
  /\ finished' = finished \cup {taken[t]}
  /\ taken' = [taken EXCEPT ![t] = 0]
  /\ pc' = [pc EXCEPT ![t] = "take"]

(* post_event in the course of the work: it is this thread that drains.     *)
Post(n) ==
  /\ Len(works) + n <= MaxWork
  /\ works' = works \o [i \in 1..n |-> "event"]
  /\ queue' = queue \o [i \in 1..n |-> Len(works) + i]

(* A reducer event or an engine event, with an effect or none. On the owner *)
(* thread the engine answers before invoke returns, and the answer is       *)
(* queued behind; on another the call is left to the owner.                 *)
ProcessEvent(t) ==
  /\ pc[t] = "process" /\ works[taken[t]] # "config"
  /\ Finish(t)
  /\ \E effect \in BOOLEAN, posted \in {0, 1} :
       IF effect /\ t # Owner
         THEN /\ Post(posted)
              /\ Len(calls) < MaxCalls
              /\ calls' = Append(calls, [call |-> "effect"])
         ELSE /\ Post(IF effect THEN posted + 1 ELSE posted)
              /\ UNCHANGED calls
  /\ UNCHANGED <<drainer, mine, running, update, config>>

-----------------------------------------------------------------------------
(* _process_config_update: up to two calls of the engine, each waited for,   *)
(* and up to two that undo them.                                            *)

(* What a call sets its setting to.                                         *)
Value(t, s) ==
  IF s \in {"config", "bitrate"} THEN taken[t] ELSE settings[Setting(s)]

(* update_config and set_bitrate change the setting or raise.               *)
EngineSets(t, s, ok) ==
  applied' = IF ok THEN [applied EXCEPT ![Setting(s)] = Value(t, s)] ELSE applied

(* _wait_backend up to the wait. The owner gets its answer at once.          *)
Ask(t, s, waiting) ==
  /\ stage' = [stage EXCEPT ![t] = s]
  /\ pc' = [pc EXCEPT ![t] = "await"]
  /\ \/ /\ t = Owner
        /\ \E ok \in BOOLEAN :
             /\ EngineSets(t, s, ok)
             /\ future' = [future EXCEPT ![t] = IF ok THEN "done" ELSE "failed"]
        /\ calls' = waiting
     \/ /\ t # Owner
        /\ calls' = Append(waiting, [call |-> "answer", to |-> t, stage |-> s])
        /\ future' = [future EXCEPT ![t] = "pending"]
        /\ UNCHANGED applied
  /\ UNCHANGED <<finished, taken, settings>>

(* The work ends, with `changed` of the settings taken over.                *)
Close(t, changed, waiting) ==
  /\ settings' = [f \in DOMAIN settings |->
                    IF f \in changed THEN taken[t] ELSE settings[f]]
  /\ Finish(t)
  /\ stage' = [stage EXCEPT ![t] = "none"]
  /\ future' = [future EXCEPT ![t] = "none"]
  /\ calls' = waiting
  /\ UNCHANGED applied

(* The update is refused, or the engine is asked to apply it.                *)
ProcessConfig(t) ==
  /\ pc[t] = "process" /\ works[taken[t]] = "config"
  /\ \/ Close(t, {}, calls)
     \/ Ask(t, "config", calls)
  /\ UNCHANGED <<queue, works, drainer, mine, running, rollbackFailed>>

(* The call succeeded: the bitrate follows if the stream runs with another,  *)
(* and the settings are taken over at the end.                              *)
Confirmed(t) ==
  /\ pc[t] = "await" /\ future[t] = "done"
  /\ \/ stage[t] = "config" /\ Close(t, {"config"}, calls)
     \/ stage[t] = "config" /\ Ask(t, "bitrate", calls)
     \/ stage[t] = "bitrate" /\ Close(t, {"config", "bitrate"}, calls)
     \/ stage[t] = "undoBitrate" /\ Ask(t, "undoConfig", calls)
     \/ stage[t] = "undoConfig" /\ Close(t, {}, calls)
  /\ UNCHANGED <<queue, works, drainer, mine, running, rollbackFailed>>

(* Fault: only what was confirmed is undone.                                *)
UndoConfirmed(t, waiting) ==
  /\ \/ stage[t] = "config" /\ Close(t, {}, waiting)
     \/ stage[t] \in {"bitrate", "undoBitrate"} /\ Ask(t, "undoConfig", waiting)
     \/ stage[t] = "undoConfig" /\ Close(t, {}, waiting)
  /\ rollbackFailed' =
       (rollbackFailed \/ stage[t] \in {"undoBitrate", "undoConfig"})

(* The call failed or its wait did: everything attempted is undone, the     *)
(* call that failed too.                                                    *)
Undo(t, waiting) ==
  /\ \/ stage[t] = "config" /\ Ask(t, "undoConfig", waiting)
     \/ stage[t] = "bitrate" /\ Ask(t, "undoBitrate", waiting)
     \/ stage[t] = "undoBitrate" /\ Ask(t, "undoConfig", waiting)
     \/ stage[t] = "undoConfig" /\ Close(t, {}, waiting)
  /\ rollbackFailed' =
       (rollbackFailed \/ stage[t] \in {"undoBitrate", "undoConfig"})

Refused(t) ==
  /\ pc[t] = "await" /\ future[t] = "failed"
  /\ Undo(t, calls)
  /\ UNCHANGED <<queue, works, drainer, mine, running>>

(* A cancelled call does nothing when its idle source runs, and its result  *)
(* is dropped if it is running already.                                     *)
Cancel(t, c) ==
  IF c.call = "answer" /\ c.to = t THEN [call |-> "cancelled"] ELSE c

(* Fault: the wait has no timeout.                                          *)
WaitForever(t) == FALSE /\ UNCHANGED vars

(* CONFIG_APPLY_TIMEOUT_SECONDS passed.                                     *)
WaitTimeout(t) ==
  /\ pc[t] = "await" /\ future[t] = "pending"
  /\ Undo(t, [i \in DOMAIN calls |-> Cancel(t, calls[i])])
  /\ running' = Cancel(t, running)
  /\ UNCHANGED <<queue, works, drainer, mine>>

-----------------------------------------------------------------------------
(* The owner's main loop.                                                   *)

(* The engine emits an event, always as an idle source (_emit).             *)
EngineEmits ==
  /\ pc[Owner] = "free" /\ Len(calls) < MaxCalls
  /\ calls' = Append(calls, [call |-> "event"])
  /\ UNCHANGED <<queue, works, threads, finished, running, update, config>>

(* The first idle source runs. The result of an effect and an engine event  *)
(* are queued by the owner, which may have to drain the queue then.         *)
RunCall ==
  /\ pc[Owner] = "free" /\ calls # <<>>
  /\ calls' = Tail(calls)
  /\ LET c == Head(calls)
     IN  \/ /\ c.call \in {"effect", "event"} /\ Enqueue(Owner, "event", "free")
            /\ UNCHANGED <<running, applied>>
         \/ /\ c.call # "answer" /\ (c.call = "cancelled" \/ Len(works) = MaxWork)
            /\ UNCHANGED <<queue, works, drainer, pc, running, applied>>
         \/ /\ c.call = "answer"
            /\ \E ok \in BOOLEAN :
                 /\ EngineSets(c.to, c.stage, ok)
                 /\ running' = [call |-> "answer", to |-> c.to, ok |-> ok]
            /\ pc' = [pc EXCEPT ![Owner] = "calling"]
            /\ UNCHANGED <<queue, works, drainer>>
  /\ UNCHANGED <<taken, mine, finished, update, settings, rollbackFailed>>

(* The call returns; set_result on a cancelled future only raises.          *)
CallReturns ==
  /\ pc[Owner] = "calling"
  /\ pc' = [pc EXCEPT ![Owner] = "free"]
  /\ running' = [call |-> "none"]
  /\ future' = IF running.call = "answer"
                 THEN [future EXCEPT ![running.to] =
                         IF running.ok THEN "done" ELSE "failed"]
                 ELSE future
  /\ UNCHANGED <<queue, works, drainer, taken, mine, finished, calls, stage, config>>

Next ==
  \/ \E t \in Thread :
       \/ Dispatch(t, "command")
       \/ WaitOver(t)
       \/ Take(t)
       \/ Leave(t)
       \/ ProcessEvent(t)
       \/ ProcessConfig(t)
       \/ Confirmed(t)
       \/ Refused(t)
       \/ WaitTimeout(t)
  \/ \E t \in Control : Dispatch(t, "config")
  \/ TimerDue
  \/ EngineEmits
  \/ RunCall
  \/ CallReturns

Spec == Init /\ [][Next]_vars

(* Threads that can go on do; nobody is assumed to send commands, and no    *)
(* answer of the engine is assumed: the timeout is what bounds a wait.      *)
Steps(t) ==
  WaitOver(t) \/ Take(t) \/ Leave(t) \/ ProcessEvent(t) \/ ProcessConfig(t)
    \/ Confirmed(t) \/ Refused(t) \/ WaitTimeout(t)

FairSpec == Spec /\ \A t \in Thread : WF_vars(Steps(t))

-----------------------------------------------------------------------------
(* Types and safety.                                                        *)

Draining == {"take", "process", "await"}

(* The queue holds numbers of works, a thread is at one of its places, and  *)
(* the owner executes a call exactly when there is one running.             *)
TypeOK ==
  /\ works \in Seq(WorkKind) /\ queue \in Seq(1..Len(works))
  /\ drainer \in Thread \cup {None}
  /\ pc \in [Thread -> {"free", "wait", "calling"} \cup Draining]
  /\ taken \in [Thread -> 0..Len(works)] /\ mine \in [Thread -> 0..Len(works)]
  /\ finished \subseteq 1..Len(works)
  /\ calls \in Seq(Call) /\ running \in Running
  /\ pc[Owner] = "calling" <=> running.call # "none"
  /\ stage \in [Thread -> Stage \cup {"none"}]
  /\ future \in [Thread -> {"none", "pending", "done", "failed"}]
  /\ settings \in [{"config", "bitrate"} -> Nat]
  /\ applied \in [{"config", "bitrate"} -> Nat]
  /\ rollbackFailed \in BOOLEAN

(* One thread at a time takes work off the queue and applies it to the      *)
(* media state: the one that is registered as the drainer.                  *)
OneDrainer == \A t \in Thread : pc[t] \in Draining <=> drainer = t

(* Work on the queue always has a drainer: the thread that stops draining   *)
(* and the thread that adds work cannot miss each other.                    *)
NothingStranded == queue # <<>> => drainer # None

(* A dispatched piece of work is queued, being processed or done; a thread  *)
(* that waits never waits for work that was lost.                           *)
NothingLost ==
  \A t \in Thread :
    mine[t] # 0 =>
      \/ mine[t] \in finished
      \/ \E i \in DOMAIN queue : queue[i] = mine[t]
      \/ \E u \in Thread : taken[u] = mine[t]

(* Once an update is over the engine runs with the settings the runtime     *)
(* reports, whichever call of it failed, timed out or was still running at  *)
(* its timeout, unless the failed rollback was reported.                    *)
SettingsAgree ==
  (\A t \in Thread : pc[t] # "await") /\ ~rollbackFailed => applied = settings

(* Work is finished in the order it was queued.                             *)
FinishedInOrder ==
  [][ \A w \in finished' \ finished : finished = 1..(w - 1) ]_vars

(* Every dispatched command is answered, also when the owner dispatches one *)
(* (the stream at start-up, a shutdown) while the drainer is waiting for    *)
(* the owner: only the timeout gets the two out of it.                      *)
EveryCommandAnswered == \A t \in Thread : mine[t] # 0 ~> mine[t] = 0
=============================================================================
