--------------------------- MODULE MediaQueueProofs ---------------------------
(***************************************************************************)
(* Proofs about the work queue, for every set of control threads.          *)
(*                                                                         *)
(* None of the safety properties is inductive: that no work is lost needs  *)
(* a drainer that takes the next piece to have none in its hand, and that  *)
(* work finishes in order needs to know where every number is. InOrder     *)
(* says it: the finished works, the one in hand and the queue are, in this *)
(* order, the numbers up to Len(works).                                    *)
(***************************************************************************)
EXTENDS MediaQueue, TLAPS

Busy(t) == pc[t] \in {"process", "await"}

(* The number of the work taken last. *)
Last == Len(works) - Len(queue)

InOrder ==
  /\ Last \in Nat
  /\ \A i \in 1..Len(queue) : queue[i] = Last + i
  /\ \A t \in Thread : taken[t] = IF Busy(t) THEN Last ELSE 0
  /\ \A t \in Thread : Busy(t) => Last > 0
  /\ finished = 1..(IF \E t \in Thread : Busy(t) THEN Last - 1 ELSE Last)
  /\ \A t \in Thread : mine[t] \in 0..Len(works)

QueueType ==
  /\ works \in Seq(WorkKind) /\ queue \in Seq(Nat)
  /\ drainer \in Thread \cup {None}
  /\ pc \in [Thread -> {"free", "wait", "calling"} \cup Draining]
  /\ taken \in [Thread -> Nat] /\ mine \in [Thread -> Nat]

IInv == QueueType /\ OneDrainer /\ NothingStranded /\ InOrder

(* What the invariant is about. *)
scheduling == <<queue, works, drainer, pc, taken, mine, finished>>

LEMMA InitQueue == Init => IInv
  BY QueueAssumption
  DEF Init, IInv, QueueType, OneDrainer, NothingStranded, InOrder, Last, Busy,
      Draining, Thread

LEMMA Unchanged == IInv /\ UNCHANGED scheduling => IInv'
  BY DEF IInv, QueueType, OneDrainer, NothingStranded, InOrder, Last, Busy, scheduling

(* A piece of work is queued by a thread that is not draining. *)
LEMMA EnqueueKeeps ==
  ASSUME IInv, NEW t \in Thread, NEW kind \in WorkKind, NEW at \in {"free", "wait"},
         pc[t] \notin Draining, Enqueue(t, kind, at),
         UNCHANGED <<taken, finished>>,
         mine' \in [Thread -> Nat],
         \A u \in Thread : mine'[u] \in {mine[u], Len(works) + 1}
  PROVE  IInv'
<1>1. /\ works' \in Seq(WorkKind) /\ Len(works') = Len(works) + 1
      /\ queue' \in Seq(Nat) /\ Len(queue') = Len(queue) + 1
      /\ \A i \in 1..Len(queue) : queue'[i] = queue[i]
      /\ queue'[Len(queue) + 1] = Len(works) + 1
  BY DEF IInv, QueueType, Enqueue
<1>2. Last' = Last /\ Last \in Nat /\ Len(works) \in Nat /\ Len(queue) \in Nat
  BY <1>1 DEF IInv, QueueType, InOrder, Last
<1>3. \A u \in Thread : Busy(u)' <=> Busy(u)
  BY DEF IInv, QueueType, Enqueue, Busy, Draining
<1>4. QueueType'
  BY <1>1 DEF IInv, QueueType, Enqueue, Draining
<1>5. OneDrainer'
  BY QueueAssumption DEF IInv, QueueType, OneDrainer, Enqueue, Draining, Thread
<1>6. NothingStranded'
  BY QueueAssumption DEF NothingStranded, Enqueue, Thread
<1>7. InOrder'
  <2>1. \A i \in 1..Len(queue') : queue'[i] = Last' + i
    <3> SUFFICES ASSUME NEW i \in 1..Len(queue') PROVE queue'[i] = Last' + i
      OBVIOUS
    <3>1. CASE i \in 1..Len(queue)
      BY <3>1, <1>1, <1>2 DEF IInv, InOrder
    <3>2. CASE i = Len(queue) + 1
      BY <3>2, <1>1, <1>2 DEF Last
    <3> QED BY <3>1, <3>2, <1>1, <1>2
  <2>2. \A u \in Thread : mine'[u] \in 0..Len(works')
    BY <1>1, <1>2 DEF IInv, InOrder
  <2> QED BY <2>1, <2>2, <1>2, <1>3 DEF IInv, InOrder
<1> QED BY <1>4, <1>5, <1>6, <1>7 DEF IInv

LEMMA TakeKeeps ==
  ASSUME IInv, NEW t \in Thread, Take(t)
  PROVE  IInv'
<1>1. /\ queue' \in Seq(Nat) /\ Len(queue') = Len(queue) - 1 /\ Len(queue) > 0
      /\ \A i \in 1..Len(queue') : queue'[i] = queue[i + 1]
      /\ queue[1] = Last + 1 /\ works' = works
      /\ Len(works) \in Nat /\ Len(queue) \in Nat /\ Last \in Nat
  BY DEF IInv, QueueType, Take, InOrder
<1>2. Last' = Last + 1
  BY <1>1 DEF Last
<1>3. /\ drainer = t /\ \A u \in Thread : u # t => pc[u] \notin Draining
      /\ ~Busy(t) /\ \A u \in Thread : ~Busy(u)
  BY DEF IInv, OneDrainer, Take, Draining, Busy
<1>4. Busy(t)' /\ \A u \in Thread : u # t => ~Busy(u)'
  BY <1>3 DEF IInv, QueueType, Take, Busy
<1>5. QueueType'
  BY <1>1 DEF IInv, QueueType, Take, Draining, Last, InOrder
<1>6. OneDrainer' /\ NothingStranded'
  BY <1>3, QueueAssumption
  DEF IInv, QueueType, OneDrainer, NothingStranded, Take, Draining, Thread
<1>7. InOrder'
  <2>1. \A i \in 1..Len(queue') : queue'[i] = Last' + i
    BY <1>1, <1>2 DEF IInv, InOrder
  <2>2. \A u \in Thread : taken'[u] = IF Busy(u)' THEN Last' ELSE 0
    BY <1>1, <1>2, <1>3, <1>4 DEF IInv, QueueType, Take, InOrder
  <2>3. finished' = 1..(IF \E u \in Thread : Busy(u)' THEN Last' - 1 ELSE Last')
    BY <1>1, <1>2, <1>3, <1>4 DEF IInv, Take, InOrder
  <2>4. \A u \in Thread : mine'[u] \in 0..Len(works')
    BY <1>1 DEF IInv, Take, InOrder
  <2> QED BY <2>1, <2>2, <2>3, <2>4, <1>1, <1>2 DEF InOrder
<1> QED BY <1>5, <1>6, <1>7 DEF IInv

LEMMA LeaveKeeps ==
  ASSUME IInv, NEW t \in Thread, Leave(t)
  PROVE  IInv'
<1>1. \A u \in Thread : Busy(u)' <=> Busy(u)
  BY DEF IInv, QueueType, Leave, Busy
<1>2. QueueType' /\ NothingStranded'
  BY DEF IInv, QueueType, NothingStranded, Leave, Draining
<1>3. OneDrainer'
  BY QueueAssumption DEF IInv, QueueType, OneDrainer, Leave, Draining, Thread
<1>4. InOrder'
  BY <1>1 DEF IInv, InOrder, Leave, Last
<1> QED BY <1>2, <1>3, <1>4 DEF IInv

(* The work in hand is finished, and n events may be queued behind. *)
LEMMA FinishKeeps ==
  ASSUME IInv, NEW t \in Thread, Busy(t), Finish(t), UNCHANGED <<drainer, mine>>,
         NEW n \in Nat,
         works' \in Seq(WorkKind), Len(works') = Len(works) + n,
         queue' \in Seq(Nat), Len(queue') = Len(queue) + n,
         \A i \in 1..Len(queue) : queue'[i] = queue[i],
         \A i \in (Len(queue) + 1)..Len(queue') : queue'[i] = Len(works) + i - Len(queue)
  PROVE  IInv'
<1>1. /\ Last' = Last /\ Last \in Nat /\ Last > 0
      /\ Len(works) \in Nat /\ Len(queue) \in Nat
  BY DEF IInv, QueueType, InOrder, Last
<1>2. /\ drainer = t /\ \A u \in Thread : u # t => ~Busy(u)
      /\ taken[t] = Last /\ finished = 1..(Last - 1)
  BY DEF IInv, OneDrainer, Draining, Busy, InOrder
<1>3. \A u \in Thread : ~Busy(u)'
  BY <1>2 DEF IInv, QueueType, Finish, Busy
<1>4. QueueType'
  BY DEF IInv, QueueType, Finish, Draining
<1>5. OneDrainer' /\ NothingStranded'
  BY <1>2, QueueAssumption
  DEF IInv, QueueType, OneDrainer, NothingStranded, Finish, Draining, Busy, Thread
<1>6. InOrder'
  <2>1. \A i \in 1..Len(queue') : queue'[i] = Last' + i
    <3> SUFFICES ASSUME NEW i \in 1..Len(queue') PROVE queue'[i] = Last' + i
      OBVIOUS
    <3>1. CASE i \in 1..Len(queue)
      BY <3>1, <1>1 DEF IInv, InOrder
    <3>2. CASE i \in (Len(queue) + 1)..Len(queue')
      BY <3>2, <1>1 DEF Last
    <3> QED BY <3>1, <3>2, <1>1
  <2>2. \A u \in Thread : taken'[u] = 0
    BY <1>2 DEF IInv, QueueType, Finish, InOrder
  <2>3. finished' = 1..Last'
    BY <1>1, <1>2 DEF Finish
  <2>4. \A u \in Thread : mine'[u] \in 0..Len(works')
    BY <1>1 DEF IInv, InOrder
  <2> QED BY <2>1, <2>2, <2>3, <2>4, <1>1, <1>3 DEF InOrder
<1> QED BY <1>4, <1>5, <1>6 DEF IInv

(* The work in hand goes on waiting for the engine. *)
LEMMA AwaitKeeps ==
  ASSUME IInv, NEW t \in Thread, Busy(t), pc' = [pc EXCEPT ![t] = "await"],
         UNCHANGED <<queue, works, drainer, taken, mine, finished>>
  PROVE  IInv'
<1>1. \A u \in Thread : Busy(u)' <=> Busy(u)
  BY DEF IInv, QueueType, Busy
<1>2. QueueType' /\ NothingStranded' /\ OneDrainer'
  BY DEF IInv, QueueType, NothingStranded, OneDrainer, Draining, Busy
<1> QED BY <1>1, <1>2 DEF IInv, InOrder, Last

(* A thread that is not draining goes on without the queue. *)
LEMMA IdleKeeps ==
  ASSUME IInv, NEW t \in Thread, pc[t] \notin Draining,
         NEW p \in {"free", "wait", "calling"}, pc' = [pc EXCEPT ![t] = p],
         mine' \in [Thread -> Nat], \A u \in Thread : mine'[u] \in {0, mine[u]},
         UNCHANGED <<queue, works, drainer, taken, finished>>
  PROVE  IInv'
<1>1. \A u \in Thread : Busy(u)' <=> Busy(u)
  BY DEF IInv, QueueType, Busy, Draining
<1>2. QueueType' /\ NothingStranded' /\ OneDrainer'
  BY DEF IInv, QueueType, NothingStranded, OneDrainer, Draining
<1>3. \A u \in Thread : mine'[u] \in 0..Len(works')
  <2>1. Len(works) \in Nat /\ \A u \in Thread : mine[u] \in 0..Len(works)
    BY DEF IInv, QueueType, InOrder
  <2> QED BY <2>1
<1> QED BY <1>1, <1>2, <1>3 DEF IInv, InOrder, Last

-----------------------------------------------------------------------------
LEMMA CloseKeeps ==
  ASSUME IInv, NEW t \in Thread, Busy(t), NEW changed, NEW waiting,
         Close(t, changed, waiting), UNCHANGED <<queue, works, drainer, mine>>
  PROVE  IInv'
<1>1. /\ works' \in Seq(WorkKind) /\ Len(works') = Len(works) + 0
      /\ queue' \in Seq(Nat) /\ Len(queue') = Len(queue) + 0
      /\ \A i \in 1..Len(queue) : queue'[i] = queue[i]
      /\ \A i \in (Len(queue) + 1)..Len(queue') : queue'[i] = Len(works) + i - Len(queue)
  BY DEF IInv, QueueType
<1> QED BY <1>1, FinishKeeps DEF Close

LEMMA AskKeeps ==
  ASSUME IInv, NEW t \in Thread, Busy(t), NEW s, NEW waiting,
         Ask(t, s, waiting), UNCHANGED <<queue, works, drainer, mine>>
  PROVE  IInv'
  BY AwaitKeeps DEF Ask

LEMMA UndoKeeps ==
  ASSUME IInv, NEW t \in Thread, Busy(t), NEW waiting,
         Undo(t, waiting), UNCHANGED <<queue, works, drainer, mine>>
  PROVE  IInv'
  BY AskKeeps, CloseKeeps DEF Undo

LEMMA ProcessKeeps ==
  ASSUME IInv, NEW t \in Thread, ProcessEvent(t)
  PROVE  IInv'
<1>1. PICK n \in 0..2 : Post(n)
  BY DEF ProcessEvent
<1>2. /\ works' \in Seq(WorkKind) /\ Len(works') = Len(works) + n
      /\ queue' \in Seq(Nat) /\ Len(queue') = Len(queue) + n
      /\ \A i \in 1..Len(queue) : queue'[i] = queue[i]
      /\ \A i \in (Len(queue) + 1)..Len(queue') : queue'[i] = Len(works) + i - Len(queue)
  <2> DEFINE posted == [i \in 1..n |-> "event"]
             numbers == [i \in 1..n |-> Len(works) + i]
  <2>1. /\ works \in Seq(WorkKind) /\ queue \in Seq(Nat)
        /\ Len(works) \in Nat /\ Len(queue) \in Nat
    BY DEF IInv, QueueType
  <2>2. /\ posted \in Seq(WorkKind) /\ Len(posted) = n
        /\ numbers \in Seq(Nat) /\ Len(numbers) = n
        /\ \A i \in 1..n : numbers[i] = Len(works) + i
    BY <2>1 DEF WorkKind
  <2>3. works' = works \o posted /\ queue' = queue \o numbers
    BY <1>1 DEF Post
  <2> HIDE DEF posted, numbers
  <2> QED BY <2>1, <2>2, <2>3
<1>3. n \in Nat /\ Busy(t) /\ Finish(t) /\ UNCHANGED <<drainer, mine>>
  BY DEF ProcessEvent, Busy
<1> QED BY <1>2, <1>3, FinishKeeps

-----------------------------------------------------------------------------
LEMMA StepQueue == IInv /\ [Next]_vars => IInv'
<1> SUFFICES ASSUME IInv, [Next]_vars PROVE IInv'
  OBVIOUS
<1>1. ASSUME NEW t \in Thread, NEW kind \in WorkKind, Dispatch(t, kind) PROVE IInv'
  <2>1. /\ pc[t] \notin Draining
        /\ mine' \in [Thread -> Nat]
        /\ \A u \in Thread : mine'[u] \in {mine[u], Len(works) + 1}
    BY <1>1 DEF Dispatch, Draining, IInv, QueueType
  <2> QED BY <1>1, <2>1, EnqueueKeeps DEF Dispatch
<1>2. ASSUME NEW t \in Thread, WaitOver(t) PROVE IInv'
  <2>1. /\ pc[t] \notin Draining /\ mine' \in [Thread -> Nat]
        /\ \A u \in Thread : mine'[u] \in {0, mine[u]}
    BY <1>2 DEF WaitOver, Draining, IInv, QueueType
  <2> QED BY <1>2, <2>1, IdleKeeps DEF WaitOver
<1>3. ASSUME NEW t \in Thread, Take(t) PROVE IInv'
  BY <1>3, TakeKeeps
<1>4. ASSUME NEW t \in Thread, Leave(t) PROVE IInv'
  BY <1>4, LeaveKeeps
<1>5. ASSUME NEW t \in Thread, ProcessEvent(t) PROVE IInv'
  BY <1>5, ProcessKeeps
<1>6. ASSUME NEW t \in Thread, ProcessConfig(t) PROVE IInv'
  BY <1>6, AskKeeps, CloseKeeps DEF ProcessConfig, Busy
<1>7. ASSUME NEW t \in Thread, Confirmed(t) PROVE IInv'
  BY <1>7, AskKeeps, CloseKeeps DEF Confirmed, Busy
<1>8. ASSUME NEW t \in Thread, Refused(t) PROVE IInv'
  BY <1>8, UndoKeeps DEF Refused, Busy
<1>9. ASSUME NEW t \in Thread, WaitTimeout(t) PROVE IInv'
  BY <1>9, UndoKeeps DEF WaitTimeout, Busy
<1>10. CASE TimerDue
  <2>1. /\ Owner \in Thread /\ pc[Owner] \notin Draining /\ mine' \in [Thread -> Nat]
    BY <1>10 DEF TimerDue, Thread, Draining, IInv, QueueType
  <2> QED BY <1>10, <2>1, EnqueueKeeps DEF TimerDue, WorkKind
<1>11. CASE EngineEmits
  BY <1>11, Unchanged DEF EngineEmits, scheduling, threads
<1>12. CASE RunCall
  <2>1. /\ Owner \in Thread /\ pc[Owner] \notin Draining /\ mine' \in [Thread -> Nat]
        /\ UNCHANGED <<taken, mine, finished>>
    BY <1>12 DEF RunCall, Thread, Draining, IInv, QueueType
  <2>2. CASE Enqueue(Owner, "event", "free")
    BY <2>1, <2>2, EnqueueKeeps DEF WorkKind
  <2>3. CASE UNCHANGED <<queue, works, drainer, pc>>
    BY <2>1, <2>3, Unchanged DEF scheduling
  <2>4. CASE /\ pc' = [pc EXCEPT ![Owner] = "calling"]
             /\ UNCHANGED <<queue, works, drainer>>
    BY <2>1, <2>4, IdleKeeps
  <2> QED BY <1>12, <2>2, <2>3, <2>4 DEF RunCall
<1>13. CASE CallReturns
  <2>1. /\ Owner \in Thread /\ pc[Owner] \notin Draining /\ mine' \in [Thread -> Nat]
    BY <1>13 DEF CallReturns, Thread, Draining, IInv, QueueType
  <2> QED BY <1>13, <2>1, IdleKeeps DEF CallReturns
<1>14. CASE UNCHANGED vars
  BY <1>14, Unchanged DEF vars, scheduling, threads
<1>15. Control \subseteq Thread /\ {"command", "config"} \subseteq WorkKind
  BY DEF Thread, WorkKind
<1> QED
  BY <1>1, <1>2, <1>3, <1>4, <1>5, <1>6, <1>7, <1>8, <1>9, <1>10, <1>11, <1>12,
     <1>13, <1>14, <1>15 DEF Next

LEMMA AlwaysQueue == Spec => []IInv
  BY InitQueue, StepQueue, PTL DEF Spec

(* At any moment one thread at most takes work off the queue and applies    *)
(* it: _enqueue hands the role out, and _drain back, under the lock.        *)
THEOREM DrainerAlone == Spec => []OneDrainer
<1>1. IInv => OneDrainer
  BY DEF IInv
<1> QED BY <1>1, AlwaysQueue, PTL

(* No thread leaves work on the queue with nobody to drain it.              *)
THEOREM QueueServed == Spec => []NothingStranded
<1>1. IInv => NothingStranded
  BY DEF IInv
<1> QED BY <1>1, AlwaysQueue, PTL

(* Whoever waits in dispatch or apply_live_config waits for work that is    *)
(* done, in a drainer's hand, or on the queue.                              *)
THEOREM WorkKept == Spec => []NothingLost
<1>1. IInv => NothingLost
  <2> SUFFICES ASSUME IInv, NEW t \in Thread, mine[t] # 0
               PROVE  \/ mine[t] \in finished
                      \/ \E i \in DOMAIN queue : queue[i] = mine[t]
                      \/ \E u \in Thread : taken[u] = mine[t]
    BY DEF NothingLost
  <2>1. /\ mine[t] \in 1..Len(works) /\ Last \in Nat /\ Len(queue) \in Nat
        /\ Len(works) = Last + Len(queue) /\ DOMAIN queue = 1..Len(queue)
    BY DEF IInv, QueueType, InOrder, Last
  <2>2. CASE mine[t] > Last
    <3>1. mine[t] - Last \in 1..Len(queue)
      BY <2>1, <2>2
    <3>2. queue[mine[t] - Last] = mine[t]
      BY <3>1, <2>1 DEF IInv, InOrder
    <3> QED BY <3>1, <3>2, <2>1
  <2>3. CASE mine[t] = Last
    BY <2>1, <2>3 DEF IInv, InOrder
  <2>4. CASE mine[t] < Last
    BY <2>1, <2>4 DEF IInv, InOrder
  <2> QED BY <2>1, <2>2, <2>3, <2>4
<1> QED BY <1>1, AlwaysQueue, PTL

(* Work is finished in the order it was queued, whichever threads drain.    *)
THEOREM FirstInFirstOut == Spec => FinishedInOrder
<1>1. IInv /\ IInv' /\ [Next]_vars =>
        [\A w \in finished' \ finished : finished = 1..(w - 1)]_vars
  <2> SUFFICES ASSUME IInv, IInv', [Next]_vars, NEW w \in finished' \ finished
               PROVE  finished = 1..(w - 1)
    OBVIOUS
  <2>1. CASE \E t \in Thread : Busy(t) /\ Finish(t)
    <3>1. PICK t \in Thread : Busy(t) /\ Finish(t)
      BY <2>1
    <3>2. taken[t] = Last /\ finished = 1..(Last - 1)
      BY <3>1 DEF IInv, InOrder
    <3> QED BY <3>1, <3>2 DEF Finish
  <2>2. CASE UNCHANGED finished
    BY <2>2
  <2>3. (\E t \in Thread : Busy(t) /\ Finish(t)) \/ UNCHANGED finished
    BY DEF Next, vars, Dispatch, TimerDue, WaitOver, Take, Leave, ProcessEvent,
           ProcessConfig, Confirmed, Refused, WaitTimeout, Undo, Ask, Close,
           EngineEmits, RunCall, CallReturns, Busy
  <2> QED BY <2>1, <2>2, <2>3
<1> QED BY <1>1, AlwaysQueue, PTL DEF Spec, FinishedInOrder

-----------------------------------------------------------------------------
(* The engine and the runtime agree on the settings after an update,        *)
(* whichever of its calls was refused or timed out. Two things make it      *)
(* inductive. Midway says what is true at each stage of an update: the      *)
(* setting the stage is not about has the value of before or after it.      *)
(* CallsFit says that a call that was not cancelled is the one the drainer  *)
(* waits for now, so that none takes effect at a later stage.               *)

Answer(c) == c.call = "answer"

(* The thread a call answers is waiting for it. *)
Expected(c) ==
  /\ c.to \in Control /\ pc[c.to] = "await" /\ future[c.to] = "pending"

CallsFit ==
  /\ \A i \in DOMAIN calls : Answer(calls[i]) =>
       /\ ~Answer(running)
       /\ Expected(calls[i]) /\ calls[i].stage = stage[calls[i].to]
       /\ \A j \in DOMAIN calls : Answer(calls[j]) => i = j
  /\ Answer(running) =>
       /\ Expected(running)
       /\ running.ok => applied[Setting(stage[running.to])]
                          = Value(running.to, stage[running.to])

Midway(t) ==
  /\ stage[t] \in Stage
  /\ future[t] \in {"pending", "done", "failed"}
  /\ future[t] = "done" => applied[Setting(stage[t])] = Value(t, stage[t])
  /\ ~rollbackFailed =>
       /\ stage[t] \in {"config", "undoConfig"} => applied["bitrate"] = settings["bitrate"]
       /\ stage[t] = "bitrate" => applied["config"] = taken[t]

CallType ==
  /\ calls \in Seq(Call) /\ running \in Running
  /\ stage \in [Thread -> Stage \cup {"none"}]
  /\ future \in [Thread -> {"none", "pending", "done", "failed"}]
  /\ settings \in [{"config", "bitrate"} -> Nat]
  /\ applied \in [{"config", "bitrate"} -> Nat]
  /\ rollbackFailed \in BOOLEAN

Settled ==
  /\ CallType
  /\ CallsFit
  /\ \A t \in Thread : pc[t] = "await" => Midway(t)
  /\ SettingsAgree

LEMMA InitSettled == Init => Settled
<1> SUFFICES ASSUME Init PROVE Settled
  OBVIOUS
<1>1. CallType
  <2>1. calls \in Seq(Call) /\ running \in Running
    BY DEF Init, Running
  <2>2. /\ settings \in [{"config", "bitrate"} -> Nat]
        /\ applied \in [{"config", "bitrate"} -> Nat]
    BY DEF Init
  <2> QED BY <2>1, <2>2 DEF Init, CallType
<1>2. CallsFit
  BY DEF Init, CallsFit, Answer
<1>3. SettingsAgree /\ \A t \in Thread : pc[t] # "await"
  BY DEF Init, SettingsAgree
<1> QED BY <1>1, <1>2, <1>3 DEF Settled

(* Nobody but the drainer waits for the engine. *)
LEMMA OneWaits ==
  ASSUME IInv, NEW t \in Thread, pc[t] \in Draining, NEW u \in Thread, u # t
  PROVE  pc[u] # "await"
  BY DEF IInv, OneDrainer, Draining

(* Steps that are not about an update: who waits goes on waiting, and of    *)
(* the idle sources only others come and go.                                *)
LEMMA Bystander ==
  ASSUME Settled, UNCHANGED <<running, update, config>>,
         \A u \in Thread : pc'[u] = "await" <=> pc[u] = "await",
         \A u \in Thread : pc[u] = "await" => taken'[u] = taken[u],
         calls' \in Seq(Call),
         NEW shift \in {0, 1},
         \A i \in DOMAIN calls' : Answer(calls'[i]) =>
           i + shift \in DOMAIN calls /\ calls'[i] = calls[i + shift]
  PROVE  Settled'
<1>1. CallType' /\ SettingsAgree'
  BY DEF Settled, CallType, SettingsAgree, update, config
<1>2. \A u \in Thread : pc'[u] = "await" => Midway(u)'
  BY DEF Settled, Midway, Value, update, config
<1>3. CallsFit'
  <2>1. ASSUME NEW c, Expected(c) PROVE Expected(c)'
    BY <2>1 DEF Expected, update, Thread
  <2>2. Answer(running)' => /\ Expected(running)'
                            /\ running'.ok => applied'[Setting(stage'[running'.to])]
                                 = Value(running.to, stage[running.to])'
    BY <2>1 DEF Settled, CallsFit, Answer, Expected, Value, update, config, Thread
  <2>3. ASSUME NEW i \in DOMAIN calls', Answer(calls'[i])
        PROVE  /\ ~Answer(running)'
               /\ Expected(calls[i])' /\ calls'[i].stage = stage'[calls'[i].to]
               /\ \A j \in DOMAIN calls' : Answer(calls'[j]) => i = j
    <3>1. i + shift \in DOMAIN calls /\ calls'[i] = calls[i + shift]
      BY <2>3
    <3>2. /\ ~Answer(running) /\ Expected(calls'[i])
          /\ calls'[i].stage = stage[calls'[i].to]
          /\ \A j \in DOMAIN calls : Answer(calls[j]) => i + shift = j
      BY <2>3, <3>1 DEF Settled, CallsFit
    <3>3. \A j \in DOMAIN calls' : Answer(calls'[j]) => i = j
      <4> SUFFICES ASSUME NEW j \in DOMAIN calls', Answer(calls'[j]) PROVE i = j
        OBVIOUS
      <4>1. j + shift \in DOMAIN calls /\ Answer(calls[j + shift])
        OBVIOUS
      <4>2. i \in Nat /\ j \in Nat
        BY <2>3
      <4> QED BY <3>2, <4>1, <4>2
    <3> QED BY <2>1, <3>2, <3>3 DEF Answer, Expected, update
  <2> QED BY <2>2, <2>3 DEF CallsFit, Answer, Expected
<1> QED BY <1>1, <1>2, <1>3 DEF Settled

(* A call of the engine is made, and the setting it is not about is as the   *)
(* stage wants it.                                                          *)
LEMMA AskSettles ==
  ASSUME IInv, Settled, NEW t \in Thread, Busy(t), NEW s \in Stage,
         NEW waiting \in Seq(Call), \A i \in DOMAIN waiting : ~Answer(waiting[i]),
         Ask(t, s, waiting), running' \in Running, ~Answer(running)',
         rollbackFailed' \in BOOLEAN,
         ~rollbackFailed' =>
           /\ s \in {"config", "undoConfig"} => applied["bitrate"] = settings["bitrate"]
           /\ s = "bitrate" => applied["config"] = taken[t]
  PROVE  Settled'
<1>1. taken[t] \in Nat /\ pc[t] \in Draining /\ pc'[t] = "await"
  BY DEF IInv, QueueType, Busy, Draining, Ask
<1>2. \A u \in Thread : u # t => pc'[u] # "await"
  BY <1>1, OneWaits DEF IInv, QueueType, Ask
<1>3. /\ settings' = settings /\ taken' = taken /\ stage' = [stage EXCEPT ![t] = s]
      /\ stage'[t] = s /\ Value(t, s)' = Value(t, s) /\ Value(t, s) \in Nat
      /\ settings \in [{"config", "bitrate"} -> Nat]
      /\ applied \in [{"config", "bitrate"} -> Nat]
  BY <1>1 DEF Ask, Value, Settled, CallType, Setting
<1>4. CASE t = Owner
  <2>1. PICK ok \in BOOLEAN :
          /\ EngineSets(t, s, ok)
          /\ future' = [future EXCEPT ![t] = IF ok THEN "done" ELSE "failed"]
    BY <1>4 DEF Ask
  <2>2. /\ calls' = waiting /\ future'[t] = IF ok THEN "done" ELSE "failed"
        /\ future' \in [Thread -> {"none", "pending", "done", "failed"}]
        /\ applied' \in [{"config", "bitrate"} -> Nat]
        /\ ok => applied'[Setting(s)] = Value(t, s)
        /\ \A f \in {"config", "bitrate"} : f # Setting(s) => applied'[f] = applied[f]
    BY <1>3, <1>4, <2>1 DEF Ask, EngineSets, Settled, CallType, Setting
  <2>3. CallType'
    BY <1>3, <2>2 DEF Settled, CallType
  <2>4. CallsFit'
    BY <2>2 DEF CallsFit, Answer
  <2>5. Midway(t)'
    BY <1>3, <2>2 DEF Midway, Setting, Stage, Value
  <2> QED BY <1>1, <1>2, <2>3, <2>4, <2>5 DEF Settled, SettingsAgree
<1>5. CASE t # Owner
  <2> DEFINE c == [call |-> "answer", to |-> t, stage |-> s]
  <2>1. /\ t \in Control /\ c \in Call /\ Answer(c)
    BY <1>5 DEF Thread, Call, Answer
  <2>2. /\ calls' = Append(waiting, c) /\ applied' = applied
        /\ future' = [future EXCEPT ![t] = "pending"] /\ future'[t] = "pending"
    BY <1>5 DEF Ask, Settled, CallType
  <2>3. CallType'
    BY <1>3, <2>1, <2>2 DEF Settled, CallType
  <2>4. CallsFit'
    <3>1. \A i \in DOMAIN calls' : Answer(calls'[i]) => i = Len(waiting) + 1
      BY <2>2
    <3>2. calls'[Len(waiting) + 1] = c
      BY <2>2
    <3> QED BY <1>1, <1>3, <2>1, <2>2, <3>1, <3>2 DEF CallsFit, Answer, Expected
  <2>5. Midway(t)'
    BY <1>3, <2>2 DEF Midway, Setting, Value
  <2> QED BY <1>1, <1>2, <2>3, <2>4, <2>5 DEF Settled, SettingsAgree
<1> QED BY <1>4, <1>5

(* An update ends with the two in agreement, or reports that it does not.   *)
LEMMA CloseSettles ==
  ASSUME IInv, Settled, NEW t \in Thread, Busy(t), NEW changed,
         NEW waiting \in Seq(Call), \A i \in DOMAIN waiting : ~Answer(waiting[i]),
         Close(t, changed, waiting), running' \in Running, ~Answer(running)',
         rollbackFailed' \in BOOLEAN,
         ~rollbackFailed' => \A f \in {"config", "bitrate"} :
           applied[f] = IF f \in changed THEN taken[t] ELSE settings[f]
  PROVE  Settled'
<1>1. taken[t] \in Nat /\ pc[t] \in Draining /\ pc'[t] = "take"
  BY DEF IInv, QueueType, Busy, Draining, Close, Finish
<1>2. \A u \in Thread : pc'[u] # "await"
  BY <1>1, OneWaits DEF IInv, QueueType, Close, Finish
<1>3. /\ settings' \in [{"config", "bitrate"} -> Nat]
      /\ applied' = applied /\ applied \in [{"config", "bitrate"} -> Nat]
      /\ \A f \in {"config", "bitrate"} :
           settings'[f] = IF f \in changed THEN taken[t] ELSE settings[f]
  BY <1>1 DEF Close, Settled, CallType
<1>4. CallType'
  BY <1>3 DEF Close, Settled, CallType
<1>5. CallsFit'
  BY DEF Close, CallsFit, Answer
<1>6. SettingsAgree'
  BY <1>3 DEF SettingsAgree
<1> QED BY <1>2, <1>4, <1>5, <1>6 DEF Settled

LEMMA UndoSettles ==
  ASSUME IInv, Settled, NEW t \in Thread, pc[t] = "await",
         NEW waiting \in Seq(Call), \A i \in DOMAIN waiting : ~Answer(waiting[i]),
         Undo(t, waiting), running' \in Running, ~Answer(running)'
  PROVE  Settled'
<1>1. Midway(t) /\ Busy(t) /\ rollbackFailed \in BOOLEAN
  BY DEF Settled, CallType, Busy
<1>2. rollbackFailed' = (rollbackFailed \/ stage[t] \in {"undoBitrate", "undoConfig"})
  BY DEF Undo
<1>3. CASE stage[t] = "config" /\ Ask(t, "undoConfig", waiting)
  BY <1>1, <1>2, <1>3, AskSettles DEF Midway, Stage
<1>4. CASE stage[t] = "bitrate" /\ Ask(t, "undoBitrate", waiting)
  BY <1>1, <1>2, <1>4, AskSettles DEF Stage
<1>5. CASE stage[t] = "undoBitrate" /\ Ask(t, "undoConfig", waiting)
  BY <1>1, <1>2, <1>5, AskSettles DEF Stage
<1>6. CASE stage[t] = "undoConfig" /\ Close(t, {}, waiting)
  BY <1>1, <1>2, <1>6, CloseSettles
<1> QED BY <1>3, <1>4, <1>5, <1>6 DEF Undo

(* When the drainer is not waiting, there is no call that answers anybody.  *)
LEMMA NoAnswers ==
  ASSUME IInv, Settled, NEW t \in Thread, Busy(t),
         pc[t] = "process" \/ future[t] # "pending"
  PROVE  ~Answer(running) /\ \A i \in DOMAIN calls : ~Answer(calls[i])
<1>1. ASSUME NEW c, Expected(c) PROVE FALSE
  BY <1>1, OneWaits DEF Expected, Busy, Draining, Thread
<1> QED BY <1>1 DEF Settled, CallsFit

-----------------------------------------------------------------------------
LEMMA ProcessConfigSettles ==
  ASSUME IInv, Settled, NEW t \in Thread, ProcessConfig(t)
  PROVE  Settled'
<1>1. /\ Busy(t) /\ running' = running /\ rollbackFailed' = rollbackFailed
      /\ running \in Running /\ calls \in Seq(Call) /\ rollbackFailed \in BOOLEAN
      /\ settings \in [{"config", "bitrate"} -> Nat]
      /\ applied \in [{"config", "bitrate"} -> Nat]
  BY DEF ProcessConfig, Busy, Settled, CallType
<1>2. ~Answer(running)' /\ \A i \in DOMAIN calls : ~Answer(calls[i])
  BY <1>1, NoAnswers DEF ProcessConfig, Answer
<1>3. ~rollbackFailed => applied = settings
  <2>1. \A u \in Thread : pc[u] # "await"
    BY OneWaits DEF ProcessConfig, Draining
  <2> QED BY <2>1 DEF Settled, SettingsAgree
<1>4. CASE Close(t, {}, calls)
  BY <1>1, <1>2, <1>3, <1>4, CloseSettles
<1>5. CASE Ask(t, "config", calls)
  BY <1>1, <1>2, <1>3, <1>5, AskSettles DEF Stage
<1> QED BY <1>4, <1>5 DEF ProcessConfig

LEMMA ConfirmedSettles ==
  ASSUME IInv, Settled, NEW t \in Thread, Confirmed(t)
  PROVE  Settled'
<1>1. /\ Busy(t) /\ running' = running /\ rollbackFailed' = rollbackFailed
      /\ running \in Running /\ calls \in Seq(Call) /\ rollbackFailed \in BOOLEAN
      /\ Midway(t) /\ applied[Setting(stage[t])] = Value(t, stage[t])
  BY DEF Confirmed, Busy, Settled, CallType, Midway
<1>2. ~Answer(running)' /\ \A i \in DOMAIN calls : ~Answer(calls[i])
  BY <1>1, NoAnswers DEF Confirmed, Answer
<1>3. CASE stage[t] = "config" /\ Close(t, {"config"}, calls)
  BY <1>1, <1>2, <1>3, CloseSettles DEF Midway, Setting, Value
<1>4. CASE stage[t] = "config" /\ Ask(t, "bitrate", calls)
  BY <1>1, <1>2, <1>4, AskSettles DEF Stage, Setting, Value
<1>5. CASE stage[t] = "bitrate" /\ Close(t, {"config", "bitrate"}, calls)
  BY <1>1, <1>2, <1>5, CloseSettles DEF Midway, Setting, Value
<1>6. CASE stage[t] = "undoBitrate" /\ Ask(t, "undoConfig", calls)
  BY <1>1, <1>2, <1>6, AskSettles DEF Stage, Setting, Value
<1>7. CASE stage[t] = "undoConfig" /\ Close(t, {}, calls)
  BY <1>1, <1>2, <1>7, CloseSettles DEF Midway, Setting, Value
<1> QED BY <1>3, <1>4, <1>5, <1>6, <1>7 DEF Confirmed

LEMMA RefusedSettles ==
  ASSUME IInv, Settled, NEW t \in Thread, Refused(t)
  PROVE  Settled'
<1>1. Busy(t) /\ running' = running /\ running \in Running /\ calls \in Seq(Call)
  BY DEF Refused, Busy, Settled, CallType
<1>2. ~Answer(running)' /\ \A i \in DOMAIN calls : ~Answer(calls[i])
  BY <1>1, NoAnswers DEF Refused, Answer
<1> QED BY <1>1, <1>2, UndoSettles DEF Refused

LEMMA TimeoutSettles ==
  ASSUME IInv, Settled, NEW t \in Thread, WaitTimeout(t)
  PROVE  Settled'
<1> DEFINE waiting == [i \in DOMAIN calls |-> Cancel(t, calls[i])]
<1>1. calls \in Seq(Call) /\ running \in Running /\ pc[t] = "await"
  BY DEF WaitTimeout, Settled, CallType
<1>2. ASSUME NEW c, Expected(c) PROVE c.to = t
  BY <1>1, <1>2, OneWaits DEF Expected, Draining, Thread
<1>3. \A c \in Call : Cancel(t, c) \in Call
  BY DEF Cancel, Call
<1>4. waiting \in Seq(Call)
  BY <1>1, <1>3
<1>5. \A i \in DOMAIN waiting : ~Answer(waiting[i])
  BY <1>2 DEF Settled, CallsFit, Cancel, Answer
<1>6. running' \in Running /\ ~Answer(running)'
  BY <1>1, <1>2 DEF WaitTimeout, Settled, CallsFit, Cancel, Answer, Running
<1>7. Undo(t, waiting)
  BY DEF WaitTimeout
<1> HIDE DEF waiting
<1> QED BY <1>1, <1>4, <1>5, <1>6, <1>7, UndoSettles

(* The owner executes a call that is waited for: it may take effect.        *)
LEMMA CallSettles ==
  ASSUME IInv, Settled, pc[Owner] = "free", calls # <<>>, calls' = Tail(calls),
         Answer(Head(calls)), NEW ok \in BOOLEAN,
         EngineSets(Head(calls).to, Head(calls).stage, ok),
         running' = [call |-> "answer", to |-> Head(calls).to, ok |-> ok],
         pc' = [pc EXCEPT ![Owner] = "calling"],
         UNCHANGED <<taken, update, settings, rollbackFailed>>
  PROVE  Settled'
<1>0. PICK u, s : u = Head(calls).to /\ s = Head(calls).stage
  OBVIOUS
<1>1. /\ calls \in Seq(Call) /\ Len(calls) > 0 /\ 1 \in DOMAIN calls
      /\ Head(calls) = calls[1]
      /\ calls' \in Seq(Call)
      /\ \A i \in DOMAIN calls' : i + 1 \in DOMAIN calls /\ calls'[i] = calls[i + 1] /\ i + 1 # 1
  BY DEF Settled, CallType
<1>2. /\ u \in Control /\ u \in Thread /\ pc[u] = "await" /\ future[u] = "pending"
      /\ s = stage[u] /\ s \in Stage /\ ~Answer(running)
  BY <1>0, <1>1 DEF Settled, CallsFit, Expected, Thread, Midway
<1>3. \A i \in DOMAIN calls' : ~Answer(calls'[i])
  BY <1>1 DEF Settled, CallsFit
<1>4. \A v \in Thread : pc'[v] = "await" <=> v = u
  BY <1>2, OneWaits DEF Draining, IInv, QueueType
<1>5. /\ Value(u, s) \in Nat /\ Value(u, s)' = Value(u, s)
      /\ applied' \in [{"config", "bitrate"} -> Nat]
      /\ ok => applied'[Setting(s)] = Value(u, s)
      /\ \A f \in {"config", "bitrate"} : f # Setting(s) => applied'[f] = applied[f]
  <2>1. Value(u, s) \in Nat /\ Value(u, s)' = Value(u, s)
    BY <1>2 DEF Value, Setting, IInv, QueueType, Settled, CallType
  <2> QED BY <1>0, <2>1, <1>2 DEF EngineSets, Setting, Settled, CallType
<1>6. CallType'
  BY <1>0, <1>1, <1>2, <1>5 DEF Settled, CallType, Running, update
<1>7. CallsFit'
  BY <1>0, <1>2, <1>3, <1>4, <1>5 DEF CallsFit, Answer, Expected, update
<1>8. Midway(u)'
  BY <1>2, <1>5 DEF Settled, Midway, Setting, Stage, update
<1> QED BY <1>2, <1>4, <1>6, <1>7, <1>8 DEF Settled, SettingsAgree

LEMMA RunCallSettles ==
  ASSUME IInv, Settled, RunCall
  PROVE  Settled'
<1>1. /\ calls \in Seq(Call) /\ calls # <<>> /\ calls' = Tail(calls)
      /\ calls' \in Seq(Call)
      /\ \A i \in DOMAIN calls' : i + 1 \in DOMAIN calls /\ calls'[i] = calls[i + 1]
  BY DEF RunCall, Settled, CallType
<1>2. /\ pc[Owner] = "free" /\ Owner \in Thread
      /\ UNCHANGED <<taken, update, settings, rollbackFailed>>
  BY DEF RunCall, Thread
<1>3. CASE Enqueue(Owner, "event", "free") /\ UNCHANGED <<running, applied>>
  <2>1. \A u \in Thread : pc'[u] = "await" <=> pc[u] = "await"
    BY <1>2, <1>3 DEF Enqueue, IInv, QueueType
  <2> QED BY <1>1, <1>2, <1>3, <2>1, Bystander DEF config
<1>4. CASE UNCHANGED <<queue, works, drainer, pc, running, applied>>
  BY <1>1, <1>2, <1>4, Bystander DEF config
<1>5. CASE /\ Answer(Head(calls))
           /\ \E ok \in BOOLEAN :
                /\ EngineSets(Head(calls).to, Head(calls).stage, ok)
                /\ running' = [call |-> "answer", to |-> Head(calls).to, ok |-> ok]
           /\ pc' = [pc EXCEPT ![Owner] = "calling"]
  BY <1>1, <1>2, <1>5, CallSettles
<1> QED BY <1>3, <1>4, <1>5 DEF RunCall, Answer

LEMMA ReturnSettles ==
  ASSUME IInv, Settled, CallReturns
  PROVE  Settled'
<1>1. /\ \A u \in Thread : pc'[u] = "await" <=> pc[u] = "await"
      /\ UNCHANGED <<calls, stage, config, taken>>
  BY DEF CallReturns, IInv, QueueType
<1>2. CASE ~Answer(running)
  <2>1. future' = future /\ running' = [call |-> "none"]
    BY <1>2 DEF CallReturns, Answer
  <2>2. CallType'
    BY <1>1, <2>1 DEF Settled, CallType, Running, config
  <2>3. CallsFit'
    <3>1. ASSUME NEW c, Expected(c) PROVE Expected(c)'
      BY <1>1, <2>1, <3>1 DEF Expected, Thread
    <3> QED BY <1>1, <2>1, <3>1 DEF Settled, CallsFit, Answer, Expected
  <2> QED BY <1>1, <2>1, <2>2, <2>3 DEF Settled, SettingsAgree, Midway, Value, config
<1>3. CASE Answer(running)
  <2> DEFINE u == running.to
  <2>1. /\ u \in Thread /\ pc[u] = "await" /\ running.ok \in BOOLEAN
        /\ running.ok => applied[Setting(stage[u])] = Value(u, stage[u])
        /\ \A i \in DOMAIN calls : ~Answer(calls[i])
    BY <1>3 DEF Settled, CallsFit, Expected, Thread, CallType, Running, Answer
  <2>2. /\ future' = [future EXCEPT ![u] = IF running.ok THEN "done" ELSE "failed"]
        /\ running' = [call |-> "none"]
    BY <1>3 DEF CallReturns, Answer
  <2>3. CallType'
    BY <1>1, <2>1, <2>2 DEF Settled, CallType, Running, config
  <2>4. CallsFit'
    BY <1>1, <2>1, <2>2 DEF CallsFit, Answer
  <2>5. ASSUME NEW v \in Thread, pc'[v] = "await" PROVE Midway(v)'
    <3>1. v = u
      BY <1>1, <2>1, <2>5, OneWaits DEF Draining
    <3> QED BY <1>1, <2>1, <2>2, <3>1 DEF Settled, CallType, Midway, Value, config
  <2> QED BY <1>1, <2>3, <2>4, <2>5 DEF Settled, SettingsAgree, config
<1> QED BY <1>2, <1>3

-----------------------------------------------------------------------------
LEMMA StepSettled == IInv /\ Settled /\ [Next]_vars => Settled'
<1> SUFFICES ASSUME IInv, Settled, [Next]_vars PROVE Settled'
  OBVIOUS
<1>1. /\ calls \in Seq(Call) /\ pc \in [Thread -> {"free", "wait", "calling"} \cup Draining]
      /\ Owner \in Thread /\ Control \subseteq Thread
  BY DEF Settled, CallType, IInv, QueueType, Thread
<1>2. ASSUME UNCHANGED <<calls, running, update, config>>,
             \A u \in Thread : pc'[u] = "await" <=> pc[u] = "await",
             \A u \in Thread : pc[u] = "await" => taken'[u] = taken[u]
      PROVE  Settled'
  BY <1>1, <1>2, Bystander
<1>3. ASSUME NEW t \in Thread, NEW kind, Dispatch(t, kind) PROVE Settled'
  BY <1>1, <1>2, <1>3 DEF Dispatch, Enqueue
<1>4. ASSUME NEW t \in Thread, WaitOver(t) PROVE Settled'
  BY <1>1, <1>2, <1>4 DEF WaitOver
<1>5. ASSUME NEW t \in Thread, Take(t) PROVE Settled'
  BY <1>1, <1>2, <1>5 DEF Take, IInv, QueueType
<1>6. ASSUME NEW t \in Thread, Leave(t) PROVE Settled'
  BY <1>1, <1>2, <1>6 DEF Leave
<1>7. ASSUME NEW t \in Thread, ProcessEvent(t) PROVE Settled'
  <2>1. /\ \A u \in Thread : pc'[u] = "await" <=> pc[u] = "await"
        /\ \A u \in Thread : pc[u] = "await" => taken'[u] = taken[u]
        /\ UNCHANGED <<running, update, config>>
    BY <1>1, <1>7 DEF ProcessEvent, Finish, IInv, QueueType
  <2>2. CASE UNCHANGED calls
    BY <1>2, <2>1, <2>2
  <2>3. CASE calls' = Append(calls, [call |-> "effect"])
    <3>1. [call |-> "effect"] \in Call /\ ~Answer([call |-> "effect"])
      BY DEF Call, Answer
    <3>2. /\ calls' \in Seq(Call)
          /\ \A i \in DOMAIN calls' : Answer(calls'[i]) =>
               i + 0 \in DOMAIN calls /\ calls'[i] = calls[i + 0]
      BY <1>1, <2>3, <3>1
    <3> QED BY <2>1, <3>2, Bystander
  <2> QED BY <1>7, <2>2, <2>3 DEF ProcessEvent
<1>8. CASE TimerDue
  BY <1>1, <1>2, <1>8 DEF TimerDue, Enqueue
<1>9. CASE EngineEmits
  <2>1. [call |-> "event"] \in Call /\ ~Answer([call |-> "event"])
    BY DEF Call, Answer
  <2>2. /\ calls' \in Seq(Call)
        /\ \A i \in DOMAIN calls' : Answer(calls'[i]) =>
             i + 0 \in DOMAIN calls /\ calls'[i] = calls[i + 0]
    BY <1>1, <1>9, <2>1 DEF EngineEmits
  <2> QED BY <1>9, <2>2, Bystander DEF EngineEmits, threads
<1>10. CASE UNCHANGED vars
  BY <1>2, <1>10 DEF vars, threads
<1> QED
  BY <1>1, <1>3, <1>4, <1>5, <1>6, <1>7, <1>8, <1>9, <1>10, ProcessConfigSettles,
     ConfirmedSettles, RefusedSettles, TimeoutSettles, RunCallSettles, ReturnSettles
  DEF Next

(* Once an update is over, the engine runs with the settings the runtime    *)
(* reports, or the runtime has reported that undoing it failed: whichever   *)
(* calls were refused, timed out, or took effect after their timeout.       *)
THEOREM UpdatesSettle == Spec => []SettingsAgree
<1>1. Settled => SettingsAgree
  BY DEF Settled
<1> QED BY <1>1, InitSettled, StepSettled, AlwaysQueue, PTL DEF Spec
=============================================================================
