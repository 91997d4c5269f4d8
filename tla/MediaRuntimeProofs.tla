------------------------- MODULE MediaRuntimeProofs -------------------------
(* The runtime uses the reducer as MediaState specifies it: whatever is      *)
(* queued, deferred, timed or late names a generation that was given, so     *)
(* that every step is the reducer's, or leaves its state alone.              *)
EXTENDS MediaRuntime, SequenceTheorems, FiniteSetTheorems, TLAPS

(* What is proved of the reducer and of the engine, for the ones the runtime *)
(* composes.                                                                *)
SP == INSTANCE MediaStepProofs WITH
       Revision <- Settings, File <- 1..MaxBranch, MaxCapture <- MaxCommands,
       MaxStream <- MaxCommands, MaxRecording <- MaxCommands,
       MaxReconnect <- MaxBranch

EP == INSTANCE MediaEngineProofs WITH
        posted <- <<>>, callbacks <- <<>>, Scenarios <- {}, MaxCapture <- MaxCommands

LEMMA ReducerConstants ==
  /\ None \notin Settings \cup (1..MaxBranch)
  /\ Bitrate \subseteq Nat \ {0}
  /\ StorageFault \subseteq {"unsafe", "unavailable", "unverified"}
  /\ {MaxCommands, MaxCommands, MaxCommands, MaxBranch} \subseteq Nat
<1>1. 1..MaxBranch \subseteq Nat
  BY RuntimeAssumption
<1> QED BY <1>1, RuntimeAssumption

LEMMA Serves ==
  ASSUME NEW s, SP!Good(s), SP!Alive(s), NEW e \in SP!Event(s)
  PROVE  SP!Served(s, SP!Reduce(s, e))
BY ReducerConstants, SP!ReduceServes

LEMMA AscendingLists ==
  ASSUME NEW D, D \subseteq Nat, IsFiniteSet(D)
  PROVE  E!Ascending(D) \in Seq(D)
<1>1. EP!IsFiniteSet(D)
  BY DEF EP!IsFiniteSet, IsFiniteSet
<1>2. EP!Ascending(D) \in Seq(D)
  BY <1>1, EP!AscendingIsAll
<1>3. E!Cardinality(D) = EP!Cardinality(D)
  BY DEF E!Cardinality, EP!Cardinality
<1>4. E!Ascending(D) = EP!Ascending(D)
  BY <1>3 DEF E!Ascending, EP!Ascending
<1> QED BY <1>2, <1>4

-----------------------------------------------------------------------------
(* Sequences of anything.                                                   *)
Sequential(q) == \E D : q \in Seq(D)
Elements(q) == {q[i] : i \in DOMAIN q}

LEMMA EmptyElements == Sequential(<<>>) /\ Elements(<<>>) = {}
<1>1. <<>> \in Seq({})
  BY EmptySeq
<1> QED BY <1>1 DEF Sequential, Elements

LEMMA AppendElements ==
  ASSUME NEW q, Sequential(q), NEW p
  PROVE  Sequential(Append(q, p)) /\ Elements(Append(q, p)) = Elements(q) \cup {p}
<1>1. PICK D : q \in Seq(D)
  BY DEF Sequential
<1>2. q \in Seq(D \cup {p}) /\ p \in D \cup {p}
  BY <1>1
<1>3. /\ Append(q, p) \in Seq(D \cup {p}) /\ Len(Append(q, p)) = Len(q) + 1
      /\ \A i \in 1..Len(q) : Append(q, p)[i] = q[i]
      /\ Append(q, p)[Len(q) + 1] = p
  BY <1>2, AppendProperties
<1>4. /\ DOMAIN q = 1..Len(q) /\ DOMAIN Append(q, p) = 1..Len(q) + 1 /\ Len(q) \in Nat
  BY <1>2, <1>3, LenProperties
<1>5. 1..Len(q) + 1 = (1..Len(q)) \cup {Len(q) + 1}
  BY <1>4
<1> QED BY <1>3, <1>4, <1>5 DEF Sequential, Elements

LEMMA JoinedElements ==
  ASSUME NEW q, Sequential(q), NEW r, Sequential(r)
  PROVE  Sequential(q \o r) /\ Elements(q \o r) \subseteq Elements(q) \cup Elements(r)
<1>1. PICK D : q \in Seq(D)
  BY DEF Sequential
<1>2. PICK T : r \in Seq(T)
  BY DEF Sequential
<1>3. q \in Seq(D \cup T) /\ r \in Seq(D \cup T)
  BY <1>1, <1>2
<1>4. /\ q \o r \in Seq(D \cup T) /\ Len(q \o r) = Len(q) + Len(r)
      /\ \A i \in 1..Len(q) + Len(r) :
           (q \o r)[i] = IF i <= Len(q) THEN q[i] ELSE r[i - Len(q)]
  BY <1>3, ConcatProperties
<1>5. /\ Len(q) \in Nat /\ Len(r) \in Nat
      /\ DOMAIN q = 1..Len(q) /\ DOMAIN r = 1..Len(r)
      /\ DOMAIN (q \o r) = 1..Len(q) + Len(r)
  BY <1>3, <1>4, LenProperties
<1>6. ASSUME NEW i \in 1..Len(q) + Len(r)
      PROVE  (q \o r)[i] \in Elements(q) \cup Elements(r)
  <2>1. CASE i <= Len(q)
    <3>1. i \in 1..Len(q) /\ (q \o r)[i] = q[i]
      BY <1>4, <1>5, <2>1
    <3> QED BY <1>5, <3>1 DEF Elements
  <2>2. CASE ~(i <= Len(q))
    <3>1. i - Len(q) \in 1..Len(r) /\ (q \o r)[i] = r[i - Len(q)]
      BY <1>4, <1>5, <2>2
    <3> QED BY <1>5, <3>1 DEF Elements
  <2> QED BY <2>1, <2>2
<1> QED BY <1>4, <1>5, <1>6 DEF Sequential, Elements

LEMMA TailElements ==
  ASSUME NEW q, Sequential(q), q # <<>>
  PROVE  /\ Sequential(Tail(q)) /\ Elements(Tail(q)) \subseteq Elements(q)
         /\ Head(q) \in Elements(q)
<1>1. PICK D : q \in Seq(D)
  BY DEF Sequential
<1>2. /\ Tail(q) \in Seq(D) /\ Len(Tail(q)) = Len(q) - 1
      /\ \A i \in 1..Len(Tail(q)) : Tail(q)[i] = q[i + 1]
      /\ Head(q) = q[1] /\ Len(q) \in Nat /\ Len(q) # 0
  BY <1>1, HeadTailProperties, EmptySeq, LenProperties
<1>3. DOMAIN q = 1..Len(q) /\ DOMAIN Tail(q) = 1..Len(q) - 1
  BY <1>1, <1>2, LenProperties
<1>4. \A i \in 1..Len(q) - 1 : i + 1 \in 1..Len(q)
  BY <1>2
<1>5. 1 \in 1..Len(q)
  BY <1>2
<1> QED BY <1>2, <1>3, <1>4, <1>5 DEF Sequential, Elements

LEMMA PartElements ==
  ASSUME NEW q, Sequential(q), NEW m \in Nat \ {0}, NEW n \in Int, n <= Len(q)
  PROVE  /\ Sequential(SubSeq(q, m, n)) /\ Elements(SubSeq(q, m, n)) \subseteq Elements(q)
<1>1. PICK D : q \in Seq(D)
  BY DEF Sequential
<1>2. DOMAIN q = 1..Len(q) /\ Len(q) \in Nat
  BY <1>1, LenProperties
<1>3. SubSeq(q, m, n) = [i \in 1..(1 + n - m) |-> q[i + m - 1]]
  OBVIOUS
<1>4. \A i \in 1..(1 + n - m) : i + m - 1 \in 1..Len(q)
  BY <1>2
<1>5. SubSeq(q, m, n) \in Seq(D)
  <2>1. CASE 1 + n - m \in Nat
    <3>1. \A i \in 1..(1 + n - m) : q[i + m - 1] \in D
      BY <1>1, <1>2, <1>4, ElementOfSeq
    <3> QED BY <1>3, <2>1, <3>1, IsASeq
  <2>2. CASE 1 + n - m \notin Nat
    <3>1. 1..(1 + n - m) = 1..0
      BY <2>2
    <3>2. SubSeq(q, m, n) = [i \in 1..0 |-> q[i + m - 1]]
      BY <1>3, <3>1
    <3> QED BY <3>2, IsASeq
  <2> QED BY <2>1, <2>2
<1>6. DOMAIN SubSeq(q, m, n) = 1..(1 + n - m)
  BY <1>3
<1> QED BY <1>2, <1>3, <1>4, <1>5, <1>6 DEF Sequential, Elements

LEMMA MappedElements ==
  ASSUME NEW q, Sequential(q), NEW f, f = [i \in DOMAIN q |-> f[i]]
  PROVE  Sequential(f)
<1>1. PICK D : q \in Seq(D)
  BY DEF Sequential
<1>2. DOMAIN q = 1..Len(q) /\ Len(q) \in Nat
  BY <1>1, LenProperties
<1>3. \A i \in 1..Len(q) : f[i] \in {f[j] : j \in DOMAIN q}
  BY <1>2
<1>4. [i \in 1..Len(q) |-> f[i]] \in Seq({f[j] : j \in DOMAIN q})
  BY <1>2, <1>3, IsASeq
<1> QED BY <1>2, <1>4 DEF Sequential

-----------------------------------------------------------------------------
(* The engine, as far as the runtime depends on it: tokens are those of     *)
(* branches that were added, and the events say what they are about.        *)
Token == 1..MaxBranch

Honest(p) ==
  /\ p.kind \in {"capture-started", "capture-stopped"} => p.scope = "capture"
  /\ p.kind \in {"branch-created", "branch-added"} => p.scope \in Scope /\ p.token \in Token
  /\ p.kind = "branch-removed" => p.token \in {0} \cup Token
  /\ p.kind = "connection" => p.scope = "stream"
  /\ p.kind = "opus-bitrate-changed" => p.scope = "stream" /\ p.new_bps \in Bitrate
  /\ p.kind = "recording-rotated" =>
       p.scope = "recording" /\ p.old \in Token /\ p.new \in Token
  /\ p.kind = "error" => p.scope \in {"capture"} \cup E!Kind

EngineFields ==
  {"pipeline", "capture_generation", "start_pending", "stop_pending", "shutdown_pending",
   "branches", "active", "finalizing", "rotations", "rotation_forced", "out"}

Tokens(e) == 1..Len(e.branches)

Sized(e) ==
  /\ DOMAIN e = EngineFields
  /\ Sequential(e.branches) /\ Len(e.branches) \in 0..MaxBranch
  /\ \A b \in Elements(e.branches) : "kind" \in DOMAIN b /\ b.kind \in E!Kind
  /\ e.active \in [E!Kind -> {0} \cup Tokens(e)]
  /\ e.finalizing \subseteq Tokens(e)
  /\ \A r \in e.rotations : r.old \in Tokens(e) /\ r.new \in Tokens(e)
  /\ Sequential(e.out) /\ \A p \in Elements(e.out) : Honest(p)

Grows(e, f) == Sized(f) /\ Len(e.branches) <= Len(f.branches)

LEMMA GrowsOn ==
  ASSUME NEW e, NEW f, NEW h, Sized(e), Grows(e, f), Grows(f, h)
  PROVE  Grows(e, h)
BY RuntimeAssumption DEF Grows, Sized

LEMMA Stands == ASSUME NEW e, Sized(e) PROVE Grows(e, e)
BY RuntimeAssumption DEF Grows, Sized

LEMMA TokenOf ==
  ASSUME NEW e, Sized(e), NEW t \in Tokens(e)
  PROVE  t \in Token /\ t \in Nat /\ t # 0 /\ e.branches[t].kind \in E!Kind
<1>1. t \in Token /\ t \in Nat /\ t # 0
  BY RuntimeAssumption DEF Tokens, Token, Sized
<1>2. DOMAIN e.branches = Tokens(e)
  BY LenProperties DEF Tokens, Sized, Sequential
<1> QED BY <1>1, <1>2 DEF Sized, Elements

LEMMA HeldAreGiven ==
  ASSUME NEW e, Sized(e)
  PROVE  E!Held(e) \subseteq Tokens(e)
BY DEF E!Held, Sized

LEMMA EmitSized ==
  ASSUME NEW e, Sized(e), NEW p, Honest(p)
  PROVE  /\ Grows(e, E!Emit(e, p))
         /\ E!Emit(e, p).branches = e.branches /\ E!Emit(e, p).active = e.active
         /\ E!Emit(e, p).finalizing = e.finalizing
         /\ E!Emit(e, p).rotations = e.rotations
<1> DEFINE f == E!Emit(e, p)
<1>1. /\ DOMAIN f = EngineFields /\ f.out = Append(e.out, p)
      /\ f.branches = e.branches /\ f.active = e.active
      /\ f.finalizing = e.finalizing /\ f.rotations = e.rotations
  BY DEF E!Emit, Sized, EngineFields
<1>2. /\ Sequential(Append(e.out, p))
      /\ Elements(Append(e.out, p)) = Elements(e.out) \cup {p}
  BY AppendElements DEF Sized
<1> HIDE DEF f
<1>3. Sized(f)
  BY <1>1, <1>2 DEF Sized, Tokens
<1>4. Grows(e, f)
  BY <1>1, <1>3, RuntimeAssumption DEF Grows, Sized
<1> QED BY <1>1, <1>4 DEF f

(* Two records with the same branches.                                      *)
LEMMA SizedBy ==
  ASSUME NEW e, Sized(e), NEW f, DOMAIN f = EngineFields,
         f.branches = e.branches, f.out = e.out,
         f.active \in [E!Kind -> {0} \cup Tokens(e)],
         f.finalizing \subseteq Tokens(e),
         \A r \in f.rotations : r.old \in Tokens(e) /\ r.new \in Tokens(e)
  PROVE  Grows(e, f)
<1>1. Sized(f)
  BY DEF Sized, Tokens
<1> QED BY <1>1, RuntimeAssumption DEF Grows, Sized

LEMMA EmitCaptureStoppedSized ==
  ASSUME NEW e, Sized(e), NEW g
  PROVE  Grows(e, E!EmitCaptureStopped(e, g))
<1> DEFINE p == E!CaptureEvent("capture-stopped", g)
           q == E!CaptureEvent("shutdown-complete", g)
           stopped == E!Emit(e, p)
           quiet == [stopped EXCEPT !.shutdown_pending = FALSE]
<1>1. Honest(p) /\ Honest(q)
  BY DEF E!CaptureEvent, Honest
<1>2. Grows(e, stopped)
  BY <1>1, EmitSized
<1>3. Grows(stopped, quiet)
  <2>1. /\ DOMAIN quiet = EngineFields
        /\ quiet.branches = stopped.branches /\ quiet.out = stopped.out
        /\ quiet.active = stopped.active /\ quiet.finalizing = stopped.finalizing
        /\ quiet.rotations = stopped.rotations
    BY <1>2 DEF Grows, Sized, EngineFields
  <2> HIDE DEF quiet, stopped
  <2>2. Sized(stopped)
    BY <1>2 DEF Grows
  <2> QED BY <2>1, <2>2, SizedBy DEF Sized
<1>4. E!EmitCaptureStopped(e, g) = IF e.shutdown_pending THEN E!Emit(quiet, q) ELSE stopped
  BY DEF E!EmitCaptureStopped
<1> HIDE DEF p, q, stopped, quiet
<1>5. Grows(quiet, E!Emit(quiet, q))
  BY <1>1, <1>3, EmitSized DEF Grows
<1>6. Grows(e, quiet)
  BY <1>2, <1>3, GrowsOn
<1>7. Grows(e, E!Emit(quiet, q))
  BY <1>5, <1>6, GrowsOn
<1> QED BY <1>2, <1>4, <1>7

LEMMA HonestEvents ==
  ASSUME NEW e, Sized(e), NEW t \in Tokens(e)
  PROVE  /\ Honest(E!BranchEvent(e, "error", t))
         /\ \A forced : Honest(E!Removed(e, t, forced))
         /\ \A connected : Honest(E!Connection(e, t, connected))
         /\ e.branches[t].kind \in E!Output =>
              /\ Honest(E!BranchEvent(e, "branch-created", t))
              /\ Honest(E!BranchEvent(e, "branch-added", t))
<1>1. t \in Token /\ e.branches[t].kind \in E!Kind
  BY TokenOf
<1>2. Honest(E!BranchEvent(e, "error", t))
  BY <1>1 DEF E!BranchEvent, Honest
<1>3. \A forced : Honest(E!Removed(e, t, forced))
  BY <1>1 DEF E!Removed, Honest
<1>4. \A connected : Honest(E!Connection(e, t, connected))
  BY DEF E!Connection, Honest
<1>5. e.branches[t].kind \in E!Output =>
        /\ Honest(E!BranchEvent(e, "branch-created", t))
        /\ Honest(E!BranchEvent(e, "branch-added", t))
  BY <1>1 DEF E!BranchEvent, Honest, E!Output, Scope
<1> QED BY <1>2, <1>3, <1>4, <1>5

LEMMA HonestRotation ==
  ASSUME NEW e, Sized(e), NEW r \in e.rotations, NEW forced
  PROVE  Honest(E!Rotated(e, r, forced))
<1>1. r.old \in Token /\ r.new \in Token
  BY TokenOf DEF Sized
<1> QED BY <1>1 DEF E!Rotated, Honest

LEMMA MissingHonest ==
  ASSUME NEW scope, NEW g
  PROVE  Honest(E!Missing(scope, g))
BY DEF E!Missing, Honest

(* One branch is another one.                                               *)
LEMMA BranchPut ==
  ASSUME NEW e, Sized(e), NEW t \in Tokens(e),
         NEW b, "kind" \in DOMAIN b, b.kind \in E!Kind,
         NEW f, DOMAIN f = EngineFields, f.out = e.out,
         f.branches = [e.branches EXCEPT ![t] = b],
         f.active \in [E!Kind -> {0} \cup Tokens(e)],
         f.finalizing \subseteq Tokens(e),
         \A r \in f.rotations : r.old \in Tokens(e) /\ r.new \in Tokens(e)
  PROVE  Grows(e, f)
<1>1. PICK D : e.branches \in Seq(D)
  BY DEF Sized, Sequential
<1>2. e.branches \in Seq(D \cup {b}) /\ b \in D \cup {b} /\ t \in 1..Len(e.branches)
  BY <1>1 DEF Tokens
<1>3. /\ f.branches \in Seq(D \cup {b}) /\ Len(f.branches) = Len(e.branches)
      /\ \A i \in 1..Len(e.branches) : f.branches[i] = IF i = t THEN b ELSE e.branches[i]
  BY <1>2, ExceptSeq
<1>4. DOMAIN f.branches = Tokens(e) /\ DOMAIN e.branches = Tokens(e)
  BY <1>1, <1>3, LenProperties DEF Tokens
<1>5. \A c \in Elements(f.branches) : c = b \/ c \in Elements(e.branches)
  BY <1>3, <1>4 DEF Elements, Tokens
<1>6. Sized(f)
  <2>1. Sequential(f.branches)
    BY <1>3 DEF Sequential
  <2>2. Tokens(f) = Tokens(e)
    BY <1>3 DEF Tokens
  <2>3. \A c \in Elements(f.branches) : "kind" \in DOMAIN c /\ c.kind \in E!Kind
    BY <1>5 DEF Sized
  <2> QED BY <1>3, <2>1, <2>2, <2>3 DEF Sized
<1>7. Len(e.branches) \in Nat
  BY RuntimeAssumption DEF Sized
<1> QED BY <1>3, <1>6, <1>7 DEF Grows

LEMMA MaybeFinishSized ==
  ASSUME NEW e, Sized(e)
  PROVE  Grows(e, E!MaybeFinishCaptureStop(e))
<1> DEFINE f == [E!ForcePipelineNull(e) EXCEPT !.rotations = {}, !.rotation_forced = {},
                                               !.stop_pending = FALSE]
<1>1. /\ DOMAIN f = EngineFields /\ f.branches = e.branches /\ f.out = e.out
      /\ f.active = e.active /\ f.finalizing = e.finalizing /\ f.rotations = {}
  BY DEF E!ForcePipelineNull, Sized, EngineFields
<1>2. E!MaybeFinishCaptureStop(e) =
        IF ~e.stop_pending \/ E!Held(e) # {} THEN e
        ELSE E!EmitCaptureStopped(f, e.capture_generation)
  BY DEF E!MaybeFinishCaptureStop
<1> HIDE DEF f
<1>3. Grows(e, f)
  BY <1>1, SizedBy DEF Sized
<1>4. Grows(f, E!EmitCaptureStopped(f, e.capture_generation))
  BY <1>3, EmitCaptureStoppedSized DEF Grows
<1> QED BY <1>2, <1>3, <1>4, GrowsOn, Stands

LEMMA CancelSized ==
  ASSUME NEW e, Sized(e), NEW t
  PROVE  /\ Grows(e, E!CancelRotation(e, t))
         /\ E!CancelRotation(e, t).branches = e.branches
<1> DEFINE f == E!CancelRotation(e, t)
<1>1. /\ DOMAIN f = EngineFields /\ f.branches = e.branches /\ f.out = e.out
      /\ f.active = e.active /\ f.finalizing = e.finalizing
      /\ f.rotations \subseteq e.rotations
  BY DEF E!CancelRotation, Sized, EngineFields
<1> HIDE DEF f
<1>2. Grows(e, f)
  BY <1>1, SizedBy DEF Sized
<1> QED BY <1>1, <1>2 DEF f

LEMMA HandleSized ==
  ASSUME NEW e, Sized(e), NEW t \in Tokens(e), NEW drain
  PROVE  Grows(e, E!BeginRemoveHandle(e, t, drain))
<1> DEFINE b == [e.branches[t] EXCEPT !.drain = drain]
           f == [e EXCEPT !.finalizing = @ \cup {t}, !.branches[t].drain = drain]
<1>1. /\ DOMAIN f = EngineFields /\ f.out = e.out
      /\ f.branches = [e.branches EXCEPT ![t] = b]
      /\ f.active = e.active /\ f.finalizing = e.finalizing \cup {t}
      /\ f.rotations = e.rotations
  BY DEF Sized, EngineFields
<1>2. "kind" \in DOMAIN e.branches[t] /\ e.branches[t].kind \in E!Kind
  <2>1. DOMAIN e.branches = Tokens(e)
    BY LenProperties DEF Tokens, Sized, Sequential
  <2> QED BY <2>1 DEF Sized, Elements
<1>3. "kind" \in DOMAIN b /\ b.kind = e.branches[t].kind
  BY <1>2
<1>4. E!BeginRemoveHandle(e, t, drain) = IF t \in e.finalizing THEN e ELSE f
  BY DEF E!BeginRemoveHandle
<1> HIDE DEF b, f
<1>5. Grows(e, f)
  BY <1>1, <1>2, <1>3, BranchPut DEF Sized
<1> QED BY <1>4, <1>5, Stands

LEMMA BeginSized ==
  ASSUME NEW e, Sized(e), NEW kind \in E!Kind, NEW drain
  PROVE  Grows(e, E!BeginRemove(e, kind, drain))
<1> DEFINE t == e.active[kind]
           inactive == [e EXCEPT !.active[kind] = 0]
           f == E!CancelRotation(inactive, t)
<1>1. /\ DOMAIN inactive = EngineFields /\ inactive.branches = e.branches /\ inactive.out = e.out
      /\ inactive.active = [e.active EXCEPT ![kind] = 0]
      /\ inactive.finalizing = e.finalizing /\ inactive.rotations = e.rotations
  BY DEF Sized, EngineFields
<1>2. inactive.active \in [E!Kind -> {0} \cup Tokens(e)] /\ t \in {0} \cup Tokens(e)
  BY <1>1 DEF Sized
<1>3. E!BeginRemove(e, kind, drain) = IF t = 0 THEN e ELSE E!BeginRemoveHandle(f, t, drain)
  BY DEF E!BeginRemove
<1> HIDE DEF inactive, t, f
<1>4. Grows(e, inactive)
  BY <1>1, <1>2, SizedBy DEF Sized
<1>5. Grows(inactive, f) /\ f.branches = inactive.branches
  BY <1>4, CancelSized DEF Grows, f
<1>6. t # 0 => Grows(f, E!BeginRemoveHandle(f, t, drain))
  BY <1>1, <1>2, <1>5, HandleSized DEF Grows, Tokens
<1> QED BY <1>3, <1>4, <1>5, <1>6, GrowsOn, Stands

LEMMA CompleteSized ==
  ASSUME NEW e, Sized(e), NEW old, NEW forced
  PROVE  Grows(e, E!CompleteRotation(e, old, forced))
<1> DEFINE r == CHOOSE q \in E!ReadyRotations(e) : q.old = old
           f == [e EXCEPT !.rotations = @ \ {r}, !.rotation_forced = @ \ {old}]
           p == E!Rotated(e, r, forced \/ old \in e.rotation_forced)
<1>1. E!CompleteRotation(e, old, forced) =
        IF \A q \in E!ReadyRotations(e) : q.old # old THEN e ELSE E!Emit(f, p)
  BY DEF E!CompleteRotation
<1>2. CASE \E q \in E!ReadyRotations(e) : q.old = old
  <2>1. r \in e.rotations
    BY <1>2 DEF E!ReadyRotations
  <2>2. Honest(p)
    <3> HIDE DEF r
    <3> QED BY <2>1, HonestRotation
  <2>3. /\ DOMAIN f = EngineFields /\ f.branches = e.branches /\ f.out = e.out
        /\ f.active = e.active /\ f.finalizing = e.finalizing
        /\ f.rotations \subseteq e.rotations
    BY DEF Sized, EngineFields
  <2> HIDE DEF f, p, r
  <2>4. Grows(e, f)
    BY <2>3, SizedBy DEF Sized
  <2>5. Grows(f, E!Emit(f, p))
    BY <2>2, <2>4, EmitSized DEF Grows
  <2> QED BY <1>1, <2>4, <2>5, GrowsOn, Stands
<1>3. CASE \A q \in E!ReadyRotations(e) : q.old # old
  BY <1>1, <1>3, Stands
<1> QED BY <1>2, <1>3

LEMMA DiscardSized ==
  ASSUME NEW e, Sized(e), NEW t \in Tokens(e), NEW forced
  PROVE  /\ Grows(e, E!Discard(e, t, forced))
         /\ Len(E!Discard(e, t, forced).branches) = Len(e.branches)
<1> DEFINE c == e.branches[t]
           b == [E!NewBranch(c.kind, c.generation, c.announce) EXCEPT !.forced = forced]
           f == E!Discard(e, t, forced)
<1>1. /\ DOMAIN f = EngineFields /\ f.out = e.out
      /\ f.branches = [e.branches EXCEPT ![t] = b]
      /\ f.active = e.active /\ f.finalizing = e.finalizing
      /\ f.rotations = e.rotations
  BY DEF E!Discard, Sized, EngineFields
<1>2. "kind" \in DOMAIN b /\ b.kind = c.kind
  BY DEF E!NewBranch
<1>3. c.kind \in E!Kind
  BY TokenOf
<1> HIDE DEF f, b, c
<1>4. Grows(e, f)
  BY <1>1, <1>2, <1>3, BranchPut DEF Sized
<1>5. Len(f.branches) = Len(e.branches)
  <2>1. PICK D : e.branches \in Seq(D)
    BY DEF Sized, Sequential
  <2>2. e.branches \in Seq(D \cup {b}) /\ t \in 1..Len(e.branches)
    BY <2>1 DEF Tokens
  <2> QED BY <1>1, <2>2, ExceptSeq
<1> QED BY <1>4, <1>5 DEF f

LEMMA TokensStay ==
  ASSUME NEW e, Sized(e), NEW f, Grows(e, f)
  PROVE  Sized(f) /\ Tokens(e) \subseteq Tokens(f)
<1>1. Len(e.branches) \in Nat /\ Len(f.branches) \in Nat
  BY RuntimeAssumption DEF Grows, Sized
<1> QED BY <1>1 DEF Grows, Tokens

LEMMA FinishSized ==
  ASSUME NEW e, Sized(e), NEW t \in Tokens(e), NEW forced, NEW closed
  PROVE  Grows(e, E!FinishRemove(e, t, forced, closed))
<1> DEFINE b == e.branches[t]
           spoiled == \/ forced
                      \/ b.kind = "recording" /\ (b.valve # "open" \/ ~closed)
           marked == IF forced /\ \E r \in e.rotations : r.old = t
                       THEN e.rotation_forced \cup {t} ELSE e.rotation_forced
           base == [e EXCEPT !.finalizing = @ \ {t}, !.rotation_forced = marked]
           gone == E!Discard(base, t, spoiled)
           told == IF spoiled /\ b.kind = "recording"
                     THEN E!Emit(gone, E!BranchEvent(gone, "error", t)) ELSE gone
           removed == E!Emit(told, E!Removed(told, t, spoiled))
           complete == E!CompleteRotation(removed, t, spoiled)
<1>1. E!FinishRemove(e, t, forced, closed) =
        IF t \notin e.finalizing THEN e ELSE E!MaybeFinishCaptureStop(complete)
  BY DEF E!FinishRemove
<1>2. /\ DOMAIN base = EngineFields /\ base.branches = e.branches /\ base.out = e.out
      /\ base.active = e.active /\ base.finalizing \subseteq e.finalizing
      /\ base.rotations = e.rotations
  BY DEF Sized, EngineFields
<1> HIDE DEF base, spoiled, marked
<1>3. Grows(e, base)
  BY <1>2, SizedBy DEF Sized
<1>4. Sized(base) /\ t \in Tokens(base)
  BY <1>3, TokensStay
<1>5. Grows(base, gone)
  BY <1>4, DiscardSized
<1> HIDE DEF gone
<1>6. Sized(gone) /\ t \in Tokens(gone)
  BY <1>4, <1>5, TokensStay
<1>7. Grows(gone, told)
  BY <1>6, HonestEvents, EmitSized, Stands
<1> HIDE DEF told
<1>8. Sized(told) /\ t \in Tokens(told)
  BY <1>6, <1>7, TokensStay
<1>9. Grows(told, removed)
  BY <1>8, HonestEvents, EmitSized
<1> HIDE DEF removed
<1>10. Grows(removed, complete)
  BY <1>9, CompleteSized DEF Grows
<1> HIDE DEF complete
<1>11. Grows(complete, E!MaybeFinishCaptureStop(complete))
  BY <1>10, MaybeFinishSized DEF Grows
<1>12. Grows(e, gone)
  BY <1>3, <1>5, GrowsOn
<1>13. Grows(e, removed)
  BY <1>7, <1>9, <1>12, GrowsOn
<1>14. Grows(e, E!MaybeFinishCaptureStop(complete))
  BY <1>10, <1>11, <1>13, GrowsOn
<1> QED BY <1>1, <1>14, Stands

LEMMA DetachSized ==
  ASSUME NEW e, Sized(e), NEW t \in Tokens(e), NEW closed
  PROVE  Grows(e, E!DetachBranch(e, t, closed))
<1> DEFINE retiring == \E r \in e.rotations : r.old = t
           marked == [e EXCEPT !.rotation_forced = @ \cup {t}]
           base == IF retiring THEN marked ELSE E!CancelRotation(e, t)
           k == e.branches[t].kind
           inactive == [base EXCEPT !.active[k] = 0]
           rest == IF e.active[k] = t THEN inactive ELSE base
<1>1. E!DetachBranch(e, t, closed) =
        IF retiring /\ t \in e.finalizing THEN E!FinishRemove(marked, t, TRUE, closed)
        ELSE E!BeginRemoveHandle(rest, t, FALSE)
  BY DEF E!DetachBranch
<1>2. k \in E!Kind
  BY TokenOf
<1>3. /\ DOMAIN marked = EngineFields /\ marked.branches = e.branches
      /\ marked.out = e.out /\ marked.active = e.active
      /\ marked.finalizing = e.finalizing /\ marked.rotations = e.rotations
  BY DEF Sized, EngineFields
<1> HIDE DEF marked, retiring, k
<1>4. Grows(e, marked)
  BY <1>3, SizedBy DEF Sized
<1>5. Grows(e, base)
  BY <1>4, CancelSized
<1> HIDE DEF base
<1>6. /\ DOMAIN inactive = EngineFields /\ inactive.branches = base.branches
      /\ inactive.out = base.out /\ inactive.finalizing = base.finalizing
      /\ inactive.active = [base.active EXCEPT ![k] = 0]
      /\ inactive.rotations = base.rotations
  BY <1>5 DEF Grows, Sized, EngineFields
<1>7. Sized(base) /\ t \in Tokens(base)
  BY <1>5, TokensStay
<1>8. inactive.active \in [E!Kind -> {0} \cup Tokens(base)]
  BY <1>2, <1>6, <1>7 DEF Sized
<1> HIDE DEF inactive
<1>9. Grows(base, inactive)
  BY <1>6, <1>7, <1>8, SizedBy DEF Sized
<1>10. Grows(base, rest)
  BY <1>7, <1>9, Stands
<1> HIDE DEF rest
<1>11. Grows(rest, E!BeginRemoveHandle(rest, t, FALSE))
  BY <1>7, <1>10, TokensStay, HandleSized
<1>12. Grows(e, E!BeginRemoveHandle(rest, t, FALSE))
  BY <1>5, <1>10, <1>11, GrowsOn
<1>13. Grows(e, E!FinishRemove(marked, t, TRUE, closed))
  BY <1>4, TokensStay, FinishSized, GrowsOn
<1> QED BY <1>1, <1>12, <1>13

LEMMA ForceSized ==
  ASSUME NEW e, Sized(e), NEW t \in Tokens(e), NEW forced
  PROVE  Grows(e, E!ForceRemoveNow(e, t, forced))
<1> DEFINE k == e.branches[t].kind
           inactive == [e EXCEPT !.active[k] = 0]
           single == E!CancelRotation(inactive, t)
           gone == E!Discard(single, t, forced)
           told == E!Emit(gone, E!Removed(gone, t, forced))
<1>1. E!ForceRemoveNow(e, t, forced) = E!MaybeFinishCaptureStop(told)
  BY DEF E!ForceRemoveNow
<1>2. k \in E!Kind
  BY TokenOf
<1>3. /\ DOMAIN inactive = EngineFields /\ inactive.branches = e.branches
      /\ inactive.out = e.out /\ inactive.finalizing = e.finalizing
      /\ inactive.active = [e.active EXCEPT ![k] = 0]
      /\ inactive.rotations = e.rotations
  BY DEF Sized, EngineFields
<1> HIDE DEF inactive, k
<1>4. Grows(e, inactive)
  BY <1>2, <1>3, SizedBy DEF Sized
<1>5. Grows(inactive, single)
  BY <1>4, CancelSized DEF Grows
<1> HIDE DEF single
<1>6. Grows(e, single) /\ Sized(single) /\ t \in Tokens(single)
  BY <1>4, <1>5, GrowsOn, TokensStay
<1>7. Grows(single, gone)
  BY <1>6, DiscardSized
<1> HIDE DEF gone
<1>8. Grows(e, gone) /\ Sized(gone) /\ t \in Tokens(gone)
  BY <1>6, <1>7, GrowsOn, TokensStay
<1>9. Grows(gone, told)
  BY <1>8, HonestEvents, EmitSized
<1> HIDE DEF told
<1>10. Grows(told, E!MaybeFinishCaptureStop(told))
  BY <1>9, MaybeFinishSized DEF Grows
<1> QED BY <1>1, <1>8, <1>9, <1>10, GrowsOn

LEMMA ForceAllSized ==
  ASSUME NEW e, Sized(e)
  PROVE  Grows(e, E!ForceAllBranches(e))
<1> DEFINE first == E!Ascending(E!Held(e) \ e.finalizing)
           last == E!Ascending(e.finalizing)
           order == first \o last
           removals == [i \in DOMAIN order |-> E!Removed(e, order[i], TRUE)]
           dropped == [t \in DOMAIN e.branches |->
                         IF t \in E!Held(e)
                           THEN [E!NewBranch(e.branches[t].kind, e.branches[t].generation,
                                             e.branches[t].announce)
                                   EXCEPT !.forced = TRUE]
                           ELSE e.branches[t]]
           f == E!ForceAllBranches(e)
<1>1. /\ E!Held(e) \subseteq Tokens(e) /\ e.finalizing \subseteq Tokens(e)
      /\ Tokens(e) \subseteq Nat /\ Len(e.branches) \in Nat
  BY HeldAreGiven, RuntimeAssumption DEF Sized, Tokens
<1>2. IsFiniteSet(Tokens(e))
  <2>1. 1 \in Int /\ Len(e.branches) \in Int
    BY <1>1
  <2> QED BY <2>1, FS_Interval DEF Tokens
<1>3. IsFiniteSet(E!Held(e) \ e.finalizing) /\ IsFiniteSet(e.finalizing)
  BY <1>1, <1>2, FS_Subset
<1>4. first \in Seq(E!Held(e) \ e.finalizing) /\ last \in Seq(e.finalizing)
  BY <1>1, <1>3, AscendingLists
<1>5. first \in Seq(Tokens(e)) /\ last \in Seq(Tokens(e))
  BY <1>1, <1>4
<1> HIDE DEF first, last
<1>6. order \in Seq(Tokens(e))
  BY <1>5, ConcatProperties
<1> HIDE DEF order
<1>7. Sequential(removals)
  BY <1>6, MappedElements DEF Sequential
<1>8. ASSUME NEW p \in Elements(removals) PROVE Honest(p)
  <2>1. PICK i \in DOMAIN order : p = E!Removed(e, order[i], TRUE)
    BY <1>8 DEF Elements
  <2>2. order[i] \in Tokens(e)
    BY <1>6, ElementOfSeq, LenProperties
  <2> QED BY <2>1, <2>2, HonestEvents
<1>9. /\ DOMAIN f = EngineFields /\ f.out = e.out \o removals /\ f.branches = dropped
      /\ f.active = [k \in E!Kind |-> 0] /\ f.finalizing = {} /\ f.rotations = {}
  BY DEF E!ForceAllBranches, Sized, EngineFields, order, first, last
<1> HIDE DEF removals, f
<1>10. Sequential(f.out) /\ \A p \in Elements(f.out) : Honest(p)
  BY <1>7, <1>8, <1>9, JoinedElements DEF Sized
<1>11. DOMAIN e.branches = Tokens(e)
  BY LenProperties DEF Tokens, Sized, Sequential
<1>12. Sequential(dropped) /\ DOMAIN dropped = Tokens(e)
  BY <1>11, MappedElements DEF Sized
<1>13. ASSUME NEW t \in Tokens(e)
       PROVE  "kind" \in DOMAIN dropped[t] /\ dropped[t].kind \in E!Kind
  <2>1. "kind" \in DOMAIN e.branches[t] /\ e.branches[t].kind \in E!Kind
    BY <1>11 DEF Sized, Elements
  <2> QED BY <1>11, <2>1 DEF E!NewBranch
<1> HIDE DEF dropped
<1>14. \A b \in Elements(dropped) : "kind" \in DOMAIN b /\ b.kind \in E!Kind
  BY <1>12, <1>13 DEF Elements
<1>15. Len(dropped) = Len(e.branches)
  <2>1. DOMAIN dropped = 1..Len(dropped) /\ Len(dropped) \in Nat
    BY <1>12, LenProperties DEF Sequential
  <2> QED BY <1>1, <1>12, <2>1 DEF Tokens
<1>16. Sized(f)
  BY <1>9, <1>10, <1>12, <1>14, <1>15 DEF Sized
<1> QED BY <1>1, <1>9, <1>15, <1>16 DEF Grows, f

LEMMA EmitOn ==
  ASSUME NEW e, Sized(e), NEW f, Grows(e, f), NEW p, Honest(p)
  PROVE  Grows(e, E!Emit(f, p))
<1>1. Grows(f, E!Emit(f, p))
  BY EmitSized DEF Grows
<1> QED BY <1>1, GrowsOn

(* Two records that differ in other fields only.                            *)
LEMMA SameBranches ==
  ASSUME NEW e, Sized(e), NEW f, DOMAIN f = EngineFields,
         f.branches = e.branches, f.out = e.out, f.active = e.active,
         f.finalizing = e.finalizing, f.rotations = e.rotations
  PROVE  Grows(e, f)
BY SizedBy DEF Sized

LEMMA FailCaptureSized ==
  ASSUME NEW e, Sized(e), NEW code
  PROVE  Grows(e, E!FailCapture(e, code))
<1> DEFINE forced == E!ForceAllBranches(e)
           down == [E!ForcePipelineNull(forced) EXCEPT !.stop_pending = FALSE]
           p == [kind |-> "error", scope |-> "capture",
                 generation |-> e.capture_generation, code |-> code]
           told == E!Emit(down, p)
<1>1. E!FailCapture(e, code) =
        IF e.stop_pending \/ e.shutdown_pending
          THEN E!EmitCaptureStopped(told, e.capture_generation) ELSE told
  BY DEF E!FailCapture
<1>2. Grows(e, forced)
  BY ForceAllSized
<1> HIDE DEF forced
<1>3. /\ DOMAIN down = EngineFields /\ down.branches = forced.branches
      /\ down.out = forced.out /\ down.active = forced.active
      /\ down.finalizing = forced.finalizing /\ down.rotations = forced.rotations
  BY <1>2 DEF Grows, Sized, EngineFields, E!ForcePipelineNull
<1>4. Honest(p)
  BY DEF Honest
<1> HIDE DEF down, p
<1>5. Grows(forced, down)
  BY <1>2, <1>3, SameBranches DEF Grows
<1>6. Grows(e, down)
  BY <1>2, <1>5, GrowsOn
<1>7. Grows(e, told)
  BY <1>4, <1>6, EmitOn
<1> HIDE DEF told
<1>8. Grows(told, E!EmitCaptureStopped(told, e.capture_generation))
  BY <1>7, EmitCaptureStoppedSized DEF Grows
<1>9. Grows(e, E!EmitCaptureStopped(told, e.capture_generation))
  BY <1>7, <1>8, GrowsOn
<1> QED BY <1>1, <1>7, <1>9

LEMMA AddSized ==
  ASSUME NEW e, Sized(e), NEW kind \in E!Kind, NEW g, NEW announce,
         Len(e.branches) < MaxBranch
  PROVE  /\ Grows(e, E!AddBranch(e, kind, g, announce))
         /\ E!AddBranch(e, kind, g, announce).active[kind] = Len(e.branches) + 1
         /\ Len(E!AddBranch(e, kind, g, announce).branches) = Len(e.branches) + 1
<1> DEFINE t == Len(e.branches) + 1
           b == E!NewBranch(kind, g, announce)
           added == [e EXCEPT !.branches = Append(@, b), !.active[kind] = t]
           told == E!Emit(added, E!BranchEvent(added, "branch-created", t))
<1>1. E!AddBranch(e, kind, g, announce) = IF kind \in E!Output THEN told ELSE added
  BY DEF E!AddBranch
<1>2. /\ DOMAIN added = EngineFields /\ added.out = e.out
      /\ added.branches = Append(e.branches, b)
      /\ added.active = [e.active EXCEPT ![kind] = t]
      /\ added.finalizing = e.finalizing /\ added.rotations = e.rotations
  BY DEF Sized, EngineFields
<1>3. "kind" \in DOMAIN b /\ b.kind = kind
  BY DEF E!NewBranch
<1>4. Len(e.branches) \in Nat /\ t \in 1..MaxBranch
  BY RuntimeAssumption DEF Sized
<1> HIDE DEF added, b
<1>5. PICK D : e.branches \in Seq(D)
  BY DEF Sized, Sequential
<1>6. e.branches \in Seq(D \cup {b}) /\ b \in D \cup {b}
  BY <1>5
<1>7. Len(added.branches) = t /\ added.branches[t] = b
  BY <1>2, <1>6, AppendProperties
<1>8. /\ Sequential(added.branches)
      /\ Elements(added.branches) = Elements(e.branches) \cup {b}
  BY <1>2, AppendElements DEF Sized
<1>9. Tokens(e) \subseteq Tokens(added) /\ t \in Tokens(added)
  BY <1>4, <1>7 DEF Tokens
<1>10. added.active \in [E!Kind -> {0} \cup Tokens(added)] /\ added.active[kind] = t
  BY <1>2, <1>9 DEF Sized
<1>11. \A r \in added.rotations : r.old \in Tokens(added) /\ r.new \in Tokens(added)
  BY <1>2, <1>9 DEF Sized
<1>12. \A c \in Elements(added.branches) : "kind" \in DOMAIN c /\ c.kind \in E!Kind
  BY <1>3, <1>8 DEF Sized
<1>13. Sized(added)
  <2>1. added.finalizing \subseteq Tokens(added)
    BY <1>2, <1>9 DEF Sized
  <2>2. Sequential(added.out) /\ \A p \in Elements(added.out) : Honest(p)
    BY <1>2 DEF Sized
  <2>3. Len(added.branches) \in 0..MaxBranch
    BY <1>4, <1>7
  <2> QED BY <1>2, <1>8, <1>10, <1>11, <1>12, <2>1, <2>2, <2>3 DEF Sized
<1>14. Grows(e, added)
  BY <1>4, <1>7, <1>13 DEF Grows
<1>15. kind \in E!Output =>
         /\ Grows(e, told) /\ told.active = added.active
         /\ told.branches = added.branches
  <2>1. added.branches[t].kind = kind
    BY <1>3, <1>7
  <2>2. kind \in E!Output => Honest(E!BranchEvent(added, "branch-created", t))
    BY <1>9, <1>13, <2>1, HonestEvents
  <2> QED BY <1>13, <1>14, <2>2, EmitSized, GrowsOn
<1> HIDE DEF told
<1> QED BY <1>1, <1>7, <1>10, <1>14, <1>15

LEMMA TrySized ==
  ASSUME NEW e, Sized(e), NEW kind \in E!Kind, NEW g, NEW added \in BOOLEAN,
         added => Len(e.branches) < MaxBranch
  PROVE  Grows(e, E!TryAddMonitoring(e, kind, g, added))
<1> DEFINE p == [kind |-> "error", scope |-> kind, generation |-> g]
<1>1. Honest(p)
  BY DEF Honest
<1>2. Grows(e, E!Emit(e, p))
  BY <1>1, EmitSized
<1> QED BY <1>2, AddSized DEF E!TryAddMonitoring

LEMMA StartCaptureSized ==
  ASSUME NEW e, Sized(e), NEW plays, NEW level \in BOOLEAN,
         level => Len(e.branches) < MaxBranch
  PROVE  Grows(e, E!StartCapture(e, plays, level))
<1> DEFINE g == e.capture_generation + 1
           begun == [e EXCEPT !.capture_generation = g]
           open == [begun EXCEPT !.pipeline = TRUE, !.start_pending = g]
           inert == [begun EXCEPT !.start_pending = 0]
           p == [kind |-> "error", scope |-> "capture", generation |-> g,
                 code |-> "start_failed"]
<1>1. E!StartCapture(e, plays, level) =
        IF e.pipeline THEN e
        ELSE IF plays THEN E!TryAddMonitoring(open, "level", g, level)
        ELSE E!Emit(inert, p)
  BY DEF E!StartCapture
<1>2. /\ DOMAIN open = EngineFields /\ open.branches = e.branches /\ open.out = e.out
      /\ open.active = e.active /\ open.finalizing = e.finalizing
      /\ open.rotations = e.rotations
  BY DEF Sized, EngineFields
<1>3. /\ DOMAIN inert = EngineFields /\ inert.branches = e.branches /\ inert.out = e.out
      /\ inert.active = e.active /\ inert.finalizing = e.finalizing
      /\ inert.rotations = e.rotations
  BY DEF Sized, EngineFields
<1>4. Honest(p)
  BY DEF Honest
<1> HIDE DEF open, inert, p, g
<1>5. Grows(e, open) /\ Grows(e, inert)
  BY <1>2, <1>3, SameBranches
<1>6. Grows(e, E!Emit(inert, p))
  BY <1>4, <1>5, EmitOn
<1>7. "level" \in E!Kind
  BY DEF E!Kind
<1>8. Grows(open, E!TryAddMonitoring(open, "level", g, level))
  BY <1>2, <1>5, <1>7, TrySized DEF Grows
<1>9. Grows(e, E!TryAddMonitoring(open, "level", g, level))
  BY <1>5, <1>8, GrowsOn
<1> QED BY <1>1, <1>6, <1>9, Stands

LEMMA StopCaptureSized ==
  ASSUME NEW e, Sized(e)
  PROVE  Grows(e, E!StopCapture(e))
<1> DEFINE ending == [e EXCEPT !.stop_pending = TRUE]
           a == E!BeginRemove(ending, "level", FALSE)
           b == E!BeginRemove(a, "spectrum", FALSE)
           c == E!BeginRemove(b, "stream", TRUE)
           d == E!BeginRemove(c, "recording", TRUE)
<1>1. E!StopCapture(e) =
        IF ~e.pipeline THEN E!EmitCaptureStopped(e, e.capture_generation)
        ELSE E!MaybeFinishCaptureStop(d)
  BY DEF E!StopCapture
<1>2. {"level", "spectrum", "stream", "recording"} \subseteq E!Kind
  BY DEF E!Kind
<1>3. /\ DOMAIN ending = EngineFields /\ ending.branches = e.branches
      /\ ending.out = e.out /\ ending.active = e.active
      /\ ending.finalizing = e.finalizing /\ ending.rotations = e.rotations
  BY DEF Sized, EngineFields
<1> HIDE DEF ending
<1>4. Grows(e, ending)
  BY <1>3, SameBranches
<1>5. Grows(ending, a)
  BY <1>2, <1>4, BeginSized DEF Grows
<1> HIDE DEF a
<1>6. Grows(a, b)
  BY <1>2, <1>5, BeginSized DEF Grows
<1> HIDE DEF b
<1>7. Grows(b, c)
  BY <1>2, <1>6, BeginSized DEF Grows
<1> HIDE DEF c
<1>8. Grows(c, d)
  BY <1>2, <1>7, BeginSized DEF Grows
<1> HIDE DEF d
<1>9. Grows(d, E!MaybeFinishCaptureStop(d))
  BY <1>8, MaybeFinishSized DEF Grows
<1>10. Grows(e, b)
  BY <1>4, <1>5, <1>6, GrowsOn
<1>11. Grows(e, d)
  BY <1>7, <1>8, <1>10, GrowsOn
<1>12. Grows(e, E!MaybeFinishCaptureStop(d))
  BY <1>9, <1>11, GrowsOn
<1> QED BY <1>1, <1>12, EmitCaptureStoppedSized

LEMMA ShutdownSized ==
  ASSUME NEW e, Sized(e)
  PROVE  Grows(e, E!Shutdown(e))
<1> DEFINE shut == [e EXCEPT !.shutdown_pending = TRUE]
<1>1. /\ DOMAIN shut = EngineFields /\ shut.branches = e.branches
      /\ shut.out = e.out /\ shut.active = e.active
      /\ shut.finalizing = e.finalizing /\ shut.rotations = e.rotations
  BY DEF Sized, EngineFields
<1>2. E!Shutdown(e) = E!StopCapture(shut)
  BY DEF E!Shutdown
<1> HIDE DEF shut
<1>3. Grows(e, shut)
  BY <1>1, SameBranches
<1>4. Grows(shut, E!StopCapture(shut))
  BY <1>3, StopCaptureSized DEF Grows
<1> QED BY <1>2, <1>3, <1>4, GrowsOn

LEMMA SpectrumSized ==
  ASSUME NEW e, Sized(e), NEW on \in BOOLEAN, NEW added \in BOOLEAN,
         added => Len(e.branches) < MaxBranch
  PROVE  Grows(e, E!SetSpectrumActive(e, on, added))
<1>1. "spectrum" \in E!Kind
  BY DEF E!Kind
<1>2. Grows(e, E!BeginRemove(e, "spectrum", FALSE))
  BY <1>1, BeginSized
<1>3. \A g : Grows(e, E!TryAddMonitoring(e, "spectrum", g, added))
  BY <1>1, TrySized
<1> QED BY <1>2, <1>3, Stands DEF E!SetSpectrumActive

(* No branch is added by beginning to remove one.                           *)
LEMMA HandleLength ==
  ASSUME NEW e, Sized(e), NEW t, NEW drain
  PROVE  Len(E!BeginRemoveHandle(e, t, drain).branches) = Len(e.branches)
<1> DEFINE b == [e.branches[t] EXCEPT !.drain = drain]
           f == [e EXCEPT !.finalizing = @ \cup {t}, !.branches[t].drain = drain]
<1>1. f.branches = [e.branches EXCEPT ![t] = b]
  BY DEF Sized, EngineFields
<1>2. DOMAIN f.branches = DOMAIN e.branches
  BY <1>1
<1>3. Len(f.branches) = Len(e.branches)
  <2>1. PICK D : e.branches \in Seq(D)
    BY DEF Sized, Sequential
  <2>2. CASE t \in 1..Len(e.branches)
    <3>1. e.branches \in Seq(D \cup {b}) /\ b \in D \cup {b}
      BY <2>1
    <3> HIDE DEF b, f
    <3> QED BY <1>1, <2>2, <3>1, ExceptSeq
  <2>3. CASE t \notin 1..Len(e.branches)
    <3>1. DOMAIN e.branches = 1..Len(e.branches)
      BY <2>1, LenProperties
    <3>2. e.branches = [i \in DOMAIN e.branches |-> e.branches[i]]
      BY <2>1, LenProperties
    <3>3. f.branches = e.branches
      BY <1>1, <2>3, <3>1, <3>2
    <3> QED BY <3>3
  <2> QED BY <2>2, <2>3
<1>4. E!BeginRemoveHandle(e, t, drain) = IF t \in e.finalizing THEN e ELSE f
  BY DEF E!BeginRemoveHandle
<1> HIDE DEF f
<1> QED BY <1>3, <1>4

LEMMA BeginLength ==
  ASSUME NEW e, Sized(e), NEW kind \in E!Kind, NEW drain
  PROVE  Len(E!BeginRemove(e, kind, drain).branches) = Len(e.branches)
<1> DEFINE t == e.active[kind]
           inactive == [e EXCEPT !.active[kind] = 0]
           f == E!CancelRotation(inactive, t)
<1>1. /\ DOMAIN inactive = EngineFields /\ inactive.branches = e.branches
      /\ inactive.out = e.out
      /\ inactive.active = [e.active EXCEPT ![kind] = 0]
      /\ inactive.finalizing = e.finalizing /\ inactive.rotations = e.rotations
  BY DEF Sized, EngineFields
<1>2. inactive.active \in [E!Kind -> {0} \cup Tokens(e)]
  BY <1>1 DEF Sized
<1>3. E!BeginRemove(e, kind, drain) = IF t = 0 THEN e ELSE E!BeginRemoveHandle(f, t, drain)
  BY DEF E!BeginRemove
<1> HIDE DEF inactive, t, f
<1>4. Grows(e, inactive)
  BY <1>1, <1>2, SizedBy DEF Sized
<1>5. Grows(inactive, f) /\ f.branches = inactive.branches
  BY <1>4, CancelSized DEF Grows, f
<1>6. Len(E!BeginRemoveHandle(f, t, drain).branches) = Len(f.branches)
  BY <1>5, HandleLength DEF Grows
<1> QED BY <1>1, <1>3, <1>5, <1>6

LEMMA StartStreamSized ==
  ASSUME NEW e, Sized(e), NEW g, NEW added \in BOOLEAN,
         added => Len(e.branches) < MaxBranch
  PROVE  Grows(e, E!StartStream(e, g, added))
<1> DEFINE alone == E!BeginRemove(e, "stream", TRUE)
<1>1. "stream" \in E!Kind
  BY DEF E!Kind
<1>2. Grows(e, alone) /\ Len(alone.branches) = Len(e.branches)
  BY <1>1, BeginSized, BeginLength
<1>3. \/ E!StartStream(e, g, added) = e
      \/ E!StartStream(e, g, added) = alone
      \/ added /\ E!StartStream(e, g, added) = E!AddBranch(alone, "stream", g, TRUE)
  BY DEF E!StartStream
<1> HIDE DEF alone
<1>4. added => Grows(alone, E!AddBranch(alone, "stream", g, TRUE))
  BY <1>1, <1>2, AddSized DEF Grows
<1> QED BY <1>2, <1>3, <1>4, GrowsOn, Stands

LEMMA RemoveSized ==
  ASSUME NEW e, Sized(e), NEW kind \in E!Kind, NEW g, NEW drain
  PROVE  Grows(e, E!RemoveOrMissing(e, kind, g, drain))
BY BeginSized, EmitSized, MissingHonest DEF E!RemoveOrMissing

LEMMA StopsSized ==
  ASSUME NEW e, Sized(e), NEW g
  PROVE  /\ Grows(e, E!StopStream(e, g)) /\ Grows(e, E!AbortStreamAttempt(e, g))
         /\ Grows(e, E!StopRecording(e, g))
<1>1. "stream" \in E!Kind /\ "recording" \in E!Kind
  BY DEF E!Kind
<1>2. \A drain : Grows(e, E!RemoveOrMissing(e, "stream", g, drain))
  BY <1>1, RemoveSized
<1>3. \A drain : Grows(e, E!RemoveOrMissing(e, "recording", g, drain))
  BY <1>1, RemoveSized
<1> QED BY <1>2, <1>3, Stands DEF E!StopStream, E!AbortStreamAttempt, E!StopRecording

LEMMA SetBitrateSized ==
  ASSUME NEW e, Sized(e), NEW bps \in Bitrate
  PROVE  Grows(e, E!SetBitrate(e, bps))
<1> DEFINE t == e.active["stream"]
           p == [kind |-> "opus-bitrate-changed", scope |-> "stream",
                 generation |-> e.branches[t].generation, token |-> t, new_bps |-> bps]
<1>1. Honest(p)
  BY DEF Honest
<1>2. E!SetBitrate(e, bps) = IF t = 0 THEN e ELSE E!Emit(e, p)
  BY DEF E!SetBitrate
<1> HIDE DEF p
<1> QED BY <1>1, <1>2, EmitSized, Stands

LEMMA StartRecordingSized ==
  ASSUME NEW e, Sized(e), NEW g, NEW added \in BOOLEAN,
         added => Len(e.branches) < MaxBranch
  PROVE  Grows(e, E!StartRecording(e, g, added))
<1>1. "recording" \in E!Kind
  BY DEF E!Kind
<1>2. added => Grows(e, E!AddBranch(e, "recording", g, TRUE))
  BY <1>1, AddSized
<1> QED BY <1>2, Stands DEF E!StartRecording

LEMMA RotateSized ==
  ASSUME NEW e, Sized(e), NEW g, NEW added \in BOOLEAN,
         added => Len(e.branches) < MaxBranch
  PROVE  Grows(e, E!RotateRecording(e, g, added))
<1> DEFINE old == e.active["recording"]
           both == E!AddBranch(e, "recording", g, FALSE)
           new == both.active["recording"]
           paired == [both EXCEPT !.rotations = @ \cup {[old |-> old, new |-> new]}]
<1>1. "recording" \in E!Kind
  BY DEF E!Kind
<1>2. E!RotateRecording(e, g, added) =
        IF old = 0 \/ ~added THEN e ELSE E!BeginRemoveHandle(paired, old, TRUE)
  BY DEF E!RotateRecording
<1>3. CASE old # 0 /\ added
  <2>1. /\ Grows(e, both) /\ Len(both.branches) = Len(e.branches) + 1
        /\ new = Len(e.branches) + 1
    <3>1. Len(e.branches) < MaxBranch
      BY <1>3
    <3>2. \A announce :
            /\ Grows(e, E!AddBranch(e, "recording", g, announce))
            /\ E!AddBranch(e, "recording", g, announce).active["recording"]
                 = Len(e.branches) + 1
            /\ Len(E!AddBranch(e, "recording", g, announce).branches)
                 = Len(e.branches) + 1
      BY <1>1, <3>1, AddSized
    <3> QED BY <3>2
  <2>2. old \in Tokens(e) /\ Len(e.branches) \in Nat
    BY <1>1, <1>3, RuntimeAssumption DEF Sized
  <2> HIDE DEF both, old, new
  <2>3. old \in Tokens(both) /\ new \in Tokens(both)
    BY <2>1, <2>2 DEF Tokens
  <2> HIDE DEF both, new, old
  <2>4. /\ DOMAIN paired = EngineFields /\ paired.branches = both.branches
        /\ paired.out = both.out /\ paired.active = both.active
        /\ paired.finalizing = both.finalizing
        /\ paired.rotations = both.rotations \cup {[old |-> old, new |-> new]}
    BY <2>1 DEF Grows, Sized, EngineFields
  <2> HIDE DEF paired
  <2>5. \A r \in paired.rotations : r.old \in Tokens(both) /\ r.new \in Tokens(both)
    BY <2>1, <2>3, <2>4 DEF Grows, Sized
  <2>6. Sized(both) /\ both.active \in [E!Kind -> {0} \cup Tokens(both)]
        /\ both.finalizing \subseteq Tokens(both)
    BY <2>1 DEF Grows, Sized
  <2>7. Grows(both, paired)
    BY <2>4, <2>5, <2>6, SizedBy
  <2>8. Grows(paired, E!BeginRemoveHandle(paired, old, TRUE))
    BY <2>3, <2>6, <2>7, TokensStay, HandleSized
  <2>9. Grows(e, paired)
    BY <2>1, <2>7, GrowsOn
  <2> QED BY <1>2, <1>3, <2>8, <2>9, GrowsOn
<1> HIDE DEF paired, old
<1> QED BY <1>2, <1>3, Stands

LEMMA CapturePlayingSized ==
  ASSUME NEW e, Sized(e)
  PROVE  Grows(e, E!CapturePlaying(e))
<1> DEFINE f == [e EXCEPT !.start_pending = 0]
           p == E!CaptureEvent("capture-started", e.start_pending)
<1>1. /\ DOMAIN f = EngineFields /\ f.branches = e.branches
      /\ f.out = e.out /\ f.active = e.active
      /\ f.finalizing = e.finalizing /\ f.rotations = e.rotations
  BY DEF Sized, EngineFields
<1>2. Honest(p)
  BY DEF Honest, E!CaptureEvent
<1>3. E!CapturePlaying(e) = E!Emit(f, p)
  BY DEF E!CapturePlaying
<1> HIDE DEF f, p
<1> QED BY <1>1, <1>2, <1>3, SameBranches, EmitOn

LEMMA BranchShape ==
  ASSUME NEW e, Sized(e), NEW t \in Tokens(e)
  PROVE  "kind" \in DOMAIN e.branches[t] /\ e.branches[t].kind \in E!Kind
<1>1. DOMAIN e.branches = Tokens(e)
  BY LenProperties DEF Tokens, Sized, Sequential
<1> QED BY <1>1 DEF Sized, Elements

LEMMA BranchSet ==
  ASSUME NEW e, Sized(e), NEW t \in Tokens(e),
         NEW b, "kind" \in DOMAIN b, b.kind \in E!Kind
  PROVE  Grows(e, [e EXCEPT !.branches[t] = b])
<1> DEFINE f == [e EXCEPT !.branches[t] = b]
<1>1. /\ DOMAIN f = EngineFields /\ f.out = e.out
      /\ f.branches = [e.branches EXCEPT ![t] = b]
      /\ f.active = e.active /\ f.finalizing = e.finalizing
      /\ f.rotations = e.rotations
  BY DEF Sized, EngineFields
<1> HIDE DEF f
<1>2. Grows(e, f)
  BY <1>1, BranchPut DEF Sized
<1> QED BY <1>2 DEF f

LEMMA FieldSet ==
  ASSUME NEW e, Sized(e), NEW t \in Tokens(e), NEW field, field # "kind", NEW value
  PROVE  Grows(e, [e EXCEPT !.branches[t][field] = value])
<1> DEFINE b == [e.branches[t] EXCEPT ![field] = value]
<1>1. "kind" \in DOMAIN b /\ b.kind = e.branches[t].kind
  BY BranchShape
<1>2. [e EXCEPT !.branches[t][field] = value] = [e EXCEPT !.branches[t] = b]
  OBVIOUS
<1> HIDE DEF b
<1> QED BY <1>1, <1>2, BranchShape, BranchSet

LEMMA PlayingSized ==
  ASSUME NEW e, Sized(e), NEW t \in Tokens(e), e.branches[t].kind \in E!Output
  PROVE  Grows(e, E!BranchPlaying(e, t))
<1> DEFINE b == e.branches[t]
           announces == b.announce /\ ~b.announced
           c == [b EXCEPT !.playing = TRUE, !.announced = b.announced \/ announces]
           playing == [e EXCEPT !.branches[t] = c]
           told == IF announces THEN E!Emit(playing, E!BranchEvent(e, "branch-added", t))
                   ELSE playing
           pending == {r \in e.rotations : r.new = t}
           complete == E!CompleteRotation(told, (CHOOSE r \in pending : TRUE).old, FALSE)
<1>1. E!BranchPlaying(e, t) = IF pending = {} THEN told ELSE complete
  BY DEF E!BranchPlaying
<1>2. "kind" \in DOMAIN c /\ c.kind = b.kind
  BY BranchShape
<1>3. b.kind \in E!Kind
  BY BranchShape
<1> HIDE DEF c
<1>4. Grows(e, playing)
  BY <1>2, <1>3, BranchSet
<1>5. Honest(E!BranchEvent(e, "branch-added", t))
  BY HonestEvents
<1> HIDE DEF playing, announces
<1>6. Grows(e, told)
  BY <1>4, <1>5, EmitOn
<1> HIDE DEF told
<1>7. Grows(told, complete)
  BY <1>6, CompleteSized DEF Grows
<1> HIDE DEF complete, pending
<1> QED BY <1>1, <1>6, <1>7, GrowsOn

LEMMA SinkErrorSized ==
  ASSUME NEW e, Sized(e), NEW t \in Tokens(e), NEW closed
  PROVE  Grows(e, E!SinkError(e, t, closed))
<1> DEFINE handled == [e EXCEPT !.branches[t].valve = "reported"]
           lost == E!Emit(handled, E!Connection(e, t, FALSE))
           told == E!DetachBranch(lost, t, closed)
           gone == E!DetachBranch(handled, t, closed)
<1>1. E!SinkError(e, t, closed) =
        IF e.branches[t].kind = "stream" THEN told
        ELSE E!Emit(gone, E!BranchEvent(e, "error", t))
  BY DEF E!SinkError
<1>2. Grows(e, [e EXCEPT !.branches[t]["valve"] = "reported"])
  BY FieldSet
<1>3. Grows(e, handled)
  BY <1>2
<1>4. Honest(E!Connection(e, t, FALSE)) /\ Honest(E!BranchEvent(e, "error", t))
  BY HonestEvents
<1> HIDE DEF handled
<1>5. Grows(e, lost)
  BY <1>3, <1>4, EmitOn
<1> HIDE DEF lost
<1>6. Grows(lost, told)
  BY <1>5, TokensStay, DetachSized
<1>7. Grows(handled, gone)
  BY <1>3, TokensStay, DetachSized
<1> HIDE DEF told, gone
<1>8. Grows(e, told)
  BY <1>5, <1>6, GrowsOn
<1>9. Grows(e, gone)
  BY <1>3, <1>7, GrowsOn
<1>10. Grows(e, E!Emit(gone, E!BranchEvent(e, "error", t)))
  BY <1>4, <1>9, EmitOn
<1> QED BY <1>1, <1>8, <1>10

LEMMA BranchErrorSized ==
  ASSUME NEW e, Sized(e), NEW t \in Tokens(e), NEW closed
  PROVE  Grows(e, E!BranchError(e, t, closed))
<1>1. Honest(E!BranchEvent(e, "error", t))
  BY HonestEvents
<1>2. Grows(e, E!DetachBranch(e, t, closed))
  BY DetachSized
<1> QED BY <1>1, <1>2, EmitOn DEF E!BranchError

LEMMA ConnectionSized ==
  ASSUME NEW e, Sized(e), NEW t \in Tokens(e), NEW connected
  PROVE  Grows(e, E!ConnectionChanged(e, t, connected))
<1> DEFINE told == E!Emit(e, E!Connection(e, t, connected))
           ended == E!BeginRemove(told, "stream", FALSE)
<1>1. E!ConnectionChanged(e, t, connected) =
        IF t # e.active["stream"] THEN e ELSE IF connected THEN told ELSE ended
  BY DEF E!ConnectionChanged
<1>2. Honest(E!Connection(e, t, connected)) /\ "stream" \in E!Kind
  BY HonestEvents DEF E!Kind
<1>3. Grows(e, told)
  BY <1>2, EmitSized
<1> HIDE DEF told
<1>4. Grows(told, ended)
  BY <1>2, <1>3, BeginSized DEF Grows
<1> HIDE DEF ended
<1> QED BY <1>1, <1>3, <1>4, GrowsOn, Stands

LEMMA OverrunSized ==
  ASSUME NEW e, Sized(e), NEW t \in Tokens(e)
  PROVE  Grows(e, E!HandleQueueOverrun(e, t))
<1> DEFINE k == e.branches[t].kind
           lost == E!Emit(e, E!Connection(e, t, FALSE))
           ended == E!ForceRemoveNow(lost, t, FALSE)
           forced == E!ForceRemoveNow(e, t, TRUE)
           told == E!Emit(forced, E!BranchEvent(e, "error", t))
<1>1. E!HandleQueueOverrun(e, t) =
        IF t # e.active[k] THEN e ELSE IF k = "stream" THEN ended ELSE told
  BY DEF E!HandleQueueOverrun
<1>2. Honest(E!Connection(e, t, FALSE)) /\ Honest(E!BranchEvent(e, "error", t))
  BY HonestEvents
<1>3. Grows(e, lost)
  BY <1>2, EmitSized
<1> HIDE DEF lost
<1>4. Grows(lost, ended)
  BY <1>3, TokensStay, ForceSized
<1>5. Grows(e, forced)
  BY ForceSized
<1> HIDE DEF ended, forced
<1>6. Grows(e, told)
  BY <1>2, <1>5, EmitOn
<1> HIDE DEF told, k
<1> QED BY <1>1, <1>3, <1>4, <1>6, GrowsOn, Stands

LEMMA UnlinkSized ==
  ASSUME NEW e, Sized(e), NEW t \in Tokens(e), NEW sent, NEW closed
  PROVE  Grows(e, E!UnlinkAndDrain(e, t, sent, closed))
<1> DEFINE draining == [e EXCEPT !.branches[t].eos = "sent"]
<1>1. Grows(e, [e EXCEPT !.branches[t]["eos"] = "sent"])
  BY FieldSet
<1>2. Grows(e, draining)
  BY <1>1
<1>3. \A forced : Grows(e, E!FinishRemove(e, t, forced, closed))
  BY FinishSized
<1>4. \/ E!UnlinkAndDrain(e, t, sent, closed) = e
      \/ \E forced : E!UnlinkAndDrain(e, t, sent, closed)
                       = E!FinishRemove(e, t, forced, closed)
      \/ E!UnlinkAndDrain(e, t, sent, closed) = draining
  BY DEF E!UnlinkAndDrain
<1> HIDE DEF draining
<1> QED BY <1>2, <1>3, <1>4, Stands

-----------------------------------------------------------------------------
(* The reducer of the runtime is the one of the proofs about MediaState.    *)
LEMMA SameDecisions ==
  /\ \A s, effs : S!Change(s, effs) = SP!Change(s, effs)
  /\ \A s : S!Keep(s) = SP!Keep(s)
  /\ \A s, code : S!Reject(s, code) = SP!Reject(s, code)
  /\ \A s : S!CancelRetryEffect(s) = SP!CancelRetryEffect(s)
  /\ \A effs, f : S!AddEffect(effs, f) = SP!AddEffect(effs, f)
  /\ \A c : S!Disconnected(c) = SP!Disconnected(c)
BY DEF S!Change, SP!Change, S!Keep, SP!Keep, S!Reject, SP!Reject,
       S!CancelRetryEffect, SP!CancelRetryEffect, S!AddEffect, SP!AddEffect,
       S!Disconnected, SP!Disconnected

LEMMA SameCapture ==
  ASSUME NEW s
  PROVE  /\ \A v : S!CaptureStart(s, v) = SP!CaptureStart(s, v)
         /\ S!CaptureStop(s) = SP!CaptureStop(s)
         /\ \A g : S!CaptureStarted(s, g) = SP!CaptureStarted(s, g)
         /\ \A g : S!CaptureStopped(s, g) = SP!CaptureStopped(s, g)
         /\ \A g : S!CaptureFailed(s, g) = SP!CaptureFailed(s, g)
<1>1. \A v : S!CaptureStart(s, v) = SP!CaptureStart(s, v)
  BY SameDecisions DEF S!CaptureStart, SP!CaptureStart, S!Live, SP!Live
<1>2. S!CaptureStop(s) = SP!CaptureStop(s)
  BY SameDecisions DEF S!CaptureStop, SP!CaptureStop, S!Active, SP!Active
<1>3. \A g : S!CaptureStarted(s, g) = SP!CaptureStarted(s, g)
  BY SameDecisions DEF S!CaptureStarted, SP!CaptureStarted
<1>4. \A g : S!CaptureStopped(s, g) = SP!CaptureStopped(s, g)
  BY SameDecisions DEF S!CaptureStopped, SP!CaptureStopped
<1>5. S!FailCapture(s) = SP!FailCapture(s)
  <2>1. \A t : S!LoseStream(t) = SP!LoseStream(t)
    BY SameDecisions DEF S!LoseStream, SP!LoseStream, S!Active, SP!Active
  <2>2. \A t : S!LoseRecording(t) = SP!LoseRecording(t)
    BY SameDecisions DEF S!LoseRecording, SP!LoseRecording, S!Live, SP!Live
  <2> QED BY <2>1, <2>2, SameDecisions
          DEF S!FailCapture, SP!FailCapture, S!Active, SP!Active, S!Live, SP!Live
<1>6. \A g : S!CaptureFailed(s, g) = SP!CaptureFailed(s, g)
  BY <1>5, SameDecisions DEF S!CaptureFailed, SP!CaptureFailed
<1> QED BY <1>1, <1>2, <1>3, <1>4, <1>6

LEMMA SameStream ==
  ASSUME NEW s
  PROVE  /\ \A revision, representation, bitrate :
                S!StreamStart(s, revision, representation, bitrate)
                  = SP!StreamStart(s, revision, representation, bitrate)
         /\ S!StreamStop(s) = SP!StreamStop(s)
         /\ \A g : S!StreamStarted(s, g) = SP!StreamStarted(s, g)
         /\ \A g : S!StreamStopped(s, g) = SP!StreamStopped(s, g)
         /\ \A g : S!StreamFailed(s, g) = SP!StreamFailed(s, g)
         /\ \A bitrate : S!StreamSetOpusBitrate(s, bitrate)
                = SP!StreamSetOpusBitrate(s, bitrate)
         /\ \A g, bitrate : S!OpusBitrateApplied(s, g, bitrate)
                = SP!OpusBitrateApplied(s, g, bitrate)
         /\ \A g, bitrate : S!OpusBitrateFailed(s, g, bitrate)
                = SP!OpusBitrateFailed(s, g, bitrate)
<1>1. \A revision, representation, bitrate :
          S!StreamStart(s, revision, representation, bitrate)
            = SP!StreamStart(s, revision, representation, bitrate)
  BY SameDecisions
     DEF S!StreamStart, SP!StreamStart, S!Opus, SP!Opus, S!Live, SP!Live
<1>2. S!StreamStop(s) = SP!StreamStop(s)
  BY SameDecisions DEF S!StreamStop, SP!StreamStop
<1>3. \A g : S!StreamStarted(s, g) = SP!StreamStarted(s, g)
  BY SameDecisions DEF S!StreamStarted, SP!StreamStarted
<1>4. \A g : S!StreamStopped(s, g) = SP!StreamStopped(s, g)
  BY SameDecisions DEF S!StreamStopped, SP!StreamStopped
<1>5. \A g : S!StreamFailed(s, g) = SP!StreamFailed(s, g)
  BY SameDecisions DEF S!StreamFailed, SP!StreamFailed
<1>6. \A bitrate : S!StreamSetOpusBitrate(s, bitrate)
          = SP!StreamSetOpusBitrate(s, bitrate)
  BY SameDecisions
     DEF S!StreamSetOpusBitrate, SP!StreamSetOpusBitrate, S!Opus, SP!Opus
<1>7. \A g, bitrate : S!OpusBitrateApplied(s, g, bitrate)
          = SP!OpusBitrateApplied(s, g, bitrate)
  BY SameDecisions DEF S!OpusBitrateApplied, SP!OpusBitrateApplied
<1>8. \A g, bitrate : S!OpusBitrateFailed(s, g, bitrate)
          = SP!OpusBitrateFailed(s, g, bitrate)
  BY SameDecisions DEF S!OpusBitrateFailed, SP!OpusBitrateFailed
<1> QED BY <1>1, <1>2, <1>3, <1>4, <1>5, <1>6, <1>7, <1>8

LEMMA SameConnection ==
  ASSUME NEW s
  PROVE  /\ \A g : S!ConnectionConnected(s, g) = SP!ConnectionConnected(s, g)
         /\ \A g, retryable : S!ConnectionLost(s, g, retryable)
                = SP!ConnectionLost(s, g, retryable)
         /\ \A g : S!ConnectionRetryDue(s, g) = SP!ConnectionRetryDue(s, g)
         /\ \A g : S!ConnectionStats(s, g) = SP!ConnectionStats(s, g)
<1>1. \A g : S!ConnectionConnected(s, g) = SP!ConnectionConnected(s, g)
  BY SameDecisions
     DEF S!ConnectionConnected, SP!ConnectionConnected, S!Live, SP!Live
<1>2. \A g, retryable : S!ConnectionLost(s, g, retryable)
          = SP!ConnectionLost(s, g, retryable)
  BY SameDecisions
     DEF S!ConnectionLost, SP!ConnectionLost, S!Live, SP!Live, S!RetryDelay,
         SP!RetryDelay, S!RetryDelays, SP!RetryDelays
<1>3. \A g : S!ConnectionRetryDue(s, g) = SP!ConnectionRetryDue(s, g)
  BY SameDecisions DEF S!ConnectionRetryDue, SP!ConnectionRetryDue, S!Live, SP!Live
<1>4. \A g : S!ConnectionStats(s, g) = SP!ConnectionStats(s, g)
  BY SameDecisions DEF S!ConnectionStats, SP!ConnectionStats, S!Live, SP!Live
<1> QED BY <1>1, <1>2, <1>3, <1>4

LEMMA SameRecording ==
  ASSUME NEW s
  PROVE  /\ \A revision, status : S!RecordingStart(s, revision, status)
                = SP!RecordingStart(s, revision, status)
         /\ S!RecordingStop(s) = SP!RecordingStop(s)
         /\ S!RecordingRotate(s) = SP!RecordingRotate(s)
         /\ \A g : S!RecordingStarted(s, g) = SP!RecordingStarted(s, g)
         /\ \A g : S!RecordingStopped(s, g) = SP!RecordingStopped(s, g)
         /\ \A g : S!RecordingFailed(s, g) = SP!RecordingFailed(s, g)
         /\ \A g, status : S!RecordingStorageChecked(s, g, status)
                = SP!RecordingStorageChecked(s, g, status)
         /\ \A g, path : S!RecordingFragmentOpened(s, g, path)
                = SP!RecordingFragmentOpened(s, g, path)
         /\ \A g, path : S!RecordingFragmentClosed(s, g, path)
                = SP!RecordingFragmentClosed(s, g, path)
         /\ \A g : S!RecordingRotationCompleted(s, g)
                = SP!RecordingRotationCompleted(s, g)
         /\ S!MonitoringFailed(s) = SP!MonitoringFailed(s)
<1>1. \A revision, status : S!RecordingStart(s, revision, status)
          = SP!RecordingStart(s, revision, status)
  BY SameDecisions
     DEF S!RecordingStart, SP!RecordingStart, S!Live, SP!Live, S!BlockRecording,
         SP!BlockRecording, S!BlockedRecording, SP!BlockedRecording
<1>2. S!RecordingStop(s) = SP!RecordingStop(s)
  BY SameDecisions DEF S!RecordingStop, SP!RecordingStop, S!Settled, SP!Settled
<1>3. S!RecordingRotate(s) = SP!RecordingRotate(s)
  BY SameDecisions DEF S!RecordingRotate, SP!RecordingRotate
<1>4. \A g : S!RecordingStarted(s, g) = SP!RecordingStarted(s, g)
  BY SameDecisions DEF S!RecordingStarted, SP!RecordingStarted
<1>5. \A g : S!RecordingStopped(s, g) = SP!RecordingStopped(s, g)
  BY SameDecisions
     DEF S!RecordingStopped, SP!RecordingStopped, S!Settled, SP!Settled
<1>6. \A g : S!RecordingFailed(s, g) = SP!RecordingFailed(s, g)
  BY SameDecisions DEF S!RecordingFailed, SP!RecordingFailed
<1>7. \A g, status : S!RecordingStorageChecked(s, g, status)
          = SP!RecordingStorageChecked(s, g, status)
  BY SameDecisions
     DEF S!RecordingStorageChecked, SP!RecordingStorageChecked, S!BlockRecording,
         SP!BlockRecording, S!BlockedRecording, SP!BlockedRecording, S!Live,
         SP!Live
<1>8. \A g, path : S!RecordingFragmentOpened(s, g, path)
          = SP!RecordingFragmentOpened(s, g, path)
  BY SameDecisions DEF S!RecordingFragmentOpened, SP!RecordingFragmentOpened
<1>9. \A g, path : S!RecordingFragmentClosed(s, g, path)
          = SP!RecordingFragmentClosed(s, g, path)
  BY SameDecisions DEF S!RecordingFragmentClosed, SP!RecordingFragmentClosed
<1>10. \A g : S!RecordingRotationCompleted(s, g) = SP!RecordingRotationCompleted(s, g)
  BY SameDecisions DEF S!RecordingRotationCompleted, SP!RecordingRotationCompleted
<1>11. S!MonitoringFailed(s) = SP!MonitoringFailed(s)
  BY SameDecisions DEF S!MonitoringFailed, SP!MonitoringFailed
<1> QED BY <1>1, <1>2, <1>3, <1>4, <1>5, <1>6, <1>7, <1>8, <1>9, <1>10, <1>11

LEMMA SameShutdown ==
  /\ \A s, d : S!OnCommand(s, d) = SP!OnCommand(s, d)
  /\ \A s, d : S!OnEvent(s, d) = SP!OnEvent(s, d)
  /\ \A s : S!ServiceShutdown(s) = SP!ServiceShutdown(s)
<1>1. \A d : S!ShutRecording(d) = SP!ShutRecording(d)
  BY SameDecisions DEF S!ShutRecording, SP!ShutRecording, S!Live, SP!Live
<1>2. \A d : S!ShutStream(d) = SP!ShutStream(d)
  BY SameDecisions DEF S!ShutStream, SP!ShutStream, S!Live, SP!Live
<1>3. \A d : S!ShutCapture(d) = SP!ShutCapture(d)
  BY SameDecisions DEF S!ShutCapture, SP!ShutCapture, S!Live, SP!Live
<1>4. \A d : S!ShutService(d) = SP!ShutService(d)
  BY SameDecisions DEF S!ShutService, SP!ShutService
<1>5. \A d : S!AdvanceShutdown(d) = SP!AdvanceShutdown(d)
  BY <1>1, <1>2, <1>3, <1>4 DEF S!AdvanceShutdown, SP!AdvanceShutdown
<1>6. \A s, d : S!OnCommand(s, d) = SP!OnCommand(s, d)
  BY SameDecisions DEF S!OnCommand, SP!OnCommand
<1>7. \A s, d : S!OnEvent(s, d) = SP!OnEvent(s, d)
  BY <1>5, SameDecisions DEF S!OnEvent, SP!OnEvent
<1>8. \A s : S!ServiceShutdown(s) = SP!ServiceShutdown(s)
  BY SameDecisions DEF S!ServiceShutdown, SP!ServiceShutdown
<1> QED BY <1>6, <1>7, <1>8

LEMMA SameReduce ==
  ASSUME NEW s, NEW e
  PROVE  S!Reduce(s, e) = SP!Reduce(s, e)
BY SameDecisions, SameCapture, SameStream, SameConnection, SameRecording, SameShutdown
   DEF S!Reduce, SP!Reduce

LEMMA SameEvent ==
  ASSUME NEW s
  PROVE  S!Event(s) = SP!Event(s)
<1>1. S!Command = SP!Command
  BY DEF S!Command, SP!Command, S!PlainEvent, SP!PlainEvent, S!RevisionEvent,
         SP!RevisionEvent, S!Representation, SP!Representation, S!Opus, SP!Opus,
         S!StorageStatus, SP!StorageStatus
<1>2. S!CaptureEvent(s) = SP!CaptureEvent(s)
  BY DEF S!CaptureEvent, SP!CaptureEvent, S!GenerationEvent, SP!GenerationEvent
<1>3. S!StreamEvent(s) = SP!StreamEvent(s)
  BY DEF S!StreamEvent, SP!StreamEvent, S!GenerationEvent, SP!GenerationEvent,
         S!BitrateEvent, SP!BitrateEvent
<1>4. S!RecordingEvent(s) = SP!RecordingEvent(s)
  BY DEF S!RecordingEvent, SP!RecordingEvent, S!GenerationEvent, SP!GenerationEvent,
         S!FileEvent, SP!FileEvent, S!StorageStatus, SP!StorageStatus
<1> QED BY <1>1, <1>2, <1>3, <1>4 DEF S!Event, SP!Event, S!PlainEvent, SP!PlainEvent

LEMMA SameStart == S!InitialMedia = SP!InitialMedia
BY DEF S!InitialMedia, SP!InitialMedia

-----------------------------------------------------------------------------
(* The events the runtime hands to the reducer.                             *)
LEMMA CaptureEventsKnown ==
  ASSUME NEW m, NEW g \in 1..m.capture.generation
  PROVE  \A name \in {"capture.started", "capture.stopped", "capture.failed"} :
           Event(name, g) \in S!Event(m)
<1>1. \A name \in {"capture.started", "capture.stopped", "capture.failed"} :
        Event(name, g) \in S!CaptureEvent(m)
  BY DEF Event, S!CaptureEvent, S!GenerationEvent
<1> QED BY <1>1 DEF S!Event

LEMMA StreamEventsKnown ==
  ASSUME NEW m, NEW g \in 1..m.stream.generation
  PROVE  /\ \A name \in {"stream.started", "stream.stopped", "stream.failed",
                         "connection.connected", "connection.retry_due",
                         "connection.stats"} : Event(name, g) \in S!Event(m)
         /\ \A bps \in Bitrate : /\ BitrateApplied(g, bps) \in S!Event(m)
                                 /\ BitrateFailed(g, bps) \in S!Event(m)
         /\ Lost(g) \in S!Event(m)
<1>1. \A name \in {"stream.started", "stream.stopped", "stream.failed",
                   "connection.connected", "connection.retry_due",
                   "connection.stats"} : Event(name, g) \in S!StreamEvent(m)
  BY DEF Event, S!StreamEvent, S!GenerationEvent
<1>2. \A bps \in Bitrate : /\ BitrateApplied(g, bps) \in S!StreamEvent(m)
                           /\ BitrateFailed(g, bps) \in S!StreamEvent(m)
  BY DEF BitrateApplied, BitrateFailed, S!StreamEvent, S!BitrateEvent
<1>3. Lost(g) \in S!StreamEvent(m)
  BY DEF Lost, S!StreamEvent
<1> QED BY <1>1, <1>2, <1>3 DEF S!Event

LEMMA RecordingEventsKnown ==
  ASSUME NEW m, NEW g \in 1..m.recording.generation
  PROVE  /\ \A name \in {"recording.started", "recording.stopped", "recording.failed",
                         "recording.rotation_completed"} : Event(name, g) \in S!Event(m)
         /\ \A t \in Token : Opened(g, t) \in S!Event(m) /\ Closed(g, t) \in S!Event(m)
<1>1. \A name \in {"recording.started", "recording.stopped", "recording.failed",
                   "recording.rotation_completed"} : Event(name, g) \in S!RecordingEvent(m)
  BY DEF Event, S!RecordingEvent, S!GenerationEvent
<1>2. \A t \in Token : /\ Opened(g, t) \in S!RecordingEvent(m)
                       /\ Closed(g, t) \in S!RecordingEvent(m)
  BY DEF Opened, Closed, S!RecordingEvent, S!FileEvent, Token
<1> QED BY <1>1, <1>2 DEF S!Event

LEMMA OtherEventsKnown ==
  ASSUME NEW m
  PROVE  /\ [name |-> "monitoring.failed"] \in S!Event(m)
         /\ [name |-> "recording.rotate"] \in S!Event(m)
         /\ \A g \in 0..m.recording.generation, status \in {"safe"} \cup StorageFault :
              StorageChecked(g, status) \in S!Event(m)
<1>1. [name |-> "monitoring.failed"] \in S!Event(m)
  BY DEF S!Event, S!PlainEvent
<1>2. [name |-> "recording.rotate"] \in S!Event(m)
  BY DEF S!Event, S!Command, S!PlainEvent
<1>3. \A g \in 0..m.recording.generation, status \in {"safe"} \cup StorageFault :
        StorageChecked(g, status) \in S!RecordingEvent(m)
  BY DEF StorageChecked, S!RecordingEvent, S!StorageStatus
<1> QED BY <1>1, <1>2, <1>3 DEF S!Event

(* Generations of the branches are numbers.                                 *)
LEMMA Generations ==
  ASSUME NEW m, SP!Good(m)
  PROVE  /\ m.capture.generation \in Nat /\ m.stream.generation \in Nat
         /\ m.recording.generation \in Nat
         /\ m.stream.pending_opus_bitrate_bps \in Bitrate \cup {0}
         /\ m.recording.current_file \in Token \cup {None}
<1>1. m \in SP!MediaRecord
  BY DEF SP!Good, SP!Coherent
<1>2. /\ m.capture \in SP!CaptureRecord /\ m.stream \in SP!StreamRecord
      /\ m.recording \in SP!RecordingRecord
  BY <1>1 DEF SP!MediaRecord
<1> QED BY <1>2 DEF SP!CaptureRecord, SP!StreamRecord, SP!RecordingRecord, Token

LEMMA EventsStayKnown ==
  ASSUME NEW m, SP!Good(m), NEW n, SP!Good(n), SP!Later(m, n)
  PROVE  S!Event(m) \subseteq S!Event(n)
<1>1. /\ 1..m.capture.generation \subseteq 1..n.capture.generation
      /\ 1..m.stream.generation \subseteq 1..n.stream.generation
      /\ 1..m.recording.generation \subseteq 1..n.recording.generation
      /\ 0..m.recording.generation \subseteq 0..n.recording.generation
  BY Generations DEF SP!Later
<1>2. S!CaptureEvent(m) \subseteq S!CaptureEvent(n)
  BY <1>1 DEF S!CaptureEvent, S!GenerationEvent
<1>3. S!StreamEvent(m) \subseteq S!StreamEvent(n)
  BY <1>1 DEF S!StreamEvent, S!GenerationEvent, S!BitrateEvent
<1>4. S!RecordingEvent(m) \subseteq S!RecordingEvent(n)
  BY <1>1 DEF S!RecordingEvent, S!GenerationEvent, S!FileEvent
<1> QED BY <1>2, <1>3, <1>4 DEF S!Event

-----------------------------------------------------------------------------
(* The invariant of the world: whatever is queued or deferred names a       *)
(* generation the reducer has given, and a branch the engine has added.     *)

(* The calls of the engine, and those that may raise.                       *)
Raising ==
  {"capture.start", "stream.start", "connection.connect", "connection.timeout_stop",
   "stream.set_opus_bitrate", "recording.start", "recording.rotate"}
Calls == Raising \cup {"capture.stop", "stream.stop", "recording.stop", "service.stop"}

Of(effect) ==
  IF effect \in {"capture.start", "capture.stop"} THEN "capture"
  ELSE IF effect \in {"recording.start", "recording.stop", "recording.rotate"}
    THEN "recording" ELSE "stream"

Begun(m, effect, g) == g \in 1..m[Of(effect)].generation

WorkOk(m, work) ==
  /\ "kind" \in DOMAIN work
  /\ work.kind \in {"state", "result", "failure", "engine_event", "attempt_timeout",
                    "stats", "config_update", "lease", "lease_expired"}
  /\ work.kind = "state" => work.event \in S!Event(m)
  /\ work.kind = "result" => work.effect \in Answered /\ Begun(m, work.effect, work.generation)
  /\ work.kind = "failure" => work.effect \in Raising /\ Begun(m, work.effect, work.generation)
  /\ work.kind = "engine_event" => Honest(work.event)
  /\ work.kind = "config_update" => work.to \in Settings
  /\ work.kind = "lease" => work.on \in BOOLEAN

CallOk(m, c) ==
  /\ c.effect \in Calls
  /\ c.effect \in Raising => Begun(m, c.effect, c.generation)
  /\ c.effect = "stream.set_opus_bitrate" => c.bitrate \in Bitrate

SourceOk(m, e, source) ==
  /\ source.src = "event" => Honest(source.event)
  /\ source.src = "call" => CallOk(m, source)
  /\ source.src = "spectrum" => source.on \in BOOLEAN
  /\ source.src = "setting" =>
       /\ source.asks = "config" => source.settings \in Settings
       /\ source.asks # "config" => source.bps \in Bitrate
  /\ source.src = "callback" => source.token \in Tokens(e)

RuntimeFields ==
  {"mapping", "instance", "retiring", "paths", "timeout", "attempt", "attempt_due",
   "reconnect", "storage", "rotation", "stats_inflight", "lease", "spectrum",
   "awaiting", "config", "applied", "update", "amiss", "started"}

(* A bitrate is applied only to a running Opus stream with no other change  *)
(* pending.                                                                 *)
Applicable(m) ==
  /\ m.stream.state = "running" /\ m.stream.representation_id = S!Opus
  /\ m.stream.pending_opus_bitrate_bps = 0

UpdateOk(m, u) ==
  \/ u = NoUpdate
  \/ /\ DOMAIN u = {"stage", "answer", "to", "applies"}
     /\ u.stage \in UpdateStage /\ u.to \in Settings /\ u.applies \in BOOLEAN
     /\ u.applies => Applicable(m)

RuntimeOk(m, r) ==
  /\ DOMAIN r = RuntimeFields
  /\ DOMAIN r.mapping = Scope /\ DOMAIN r.instance = Scope
  /\ \A k \in Scope : r.mapping[k].desired \in 0..m[k].generation
  /\ r.reconnect \in 0..m.stream.generation
  /\ r.storage \in {None} \cup (0..m.recording.generation)
  /\ r.config \in Settings /\ UpdateOk(m, r.update)

WorldFields == {"media", "effects", "runtime", "engine", "queue", "idle"}

World(w) ==
  /\ SP!Good(w.media) /\ SP!Alive(w.media) /\ w.effects \in Seq(SP!Effect)
  /\ RuntimeOk(w.media, w.runtime)
  /\ Sized(w.engine)
  /\ Sequential(w.queue) /\ \A work \in Elements(w.queue) : WorkOk(w.media, work)
  /\ Sequential(w.idle) /\ \A s \in Elements(w.idle) : SourceOk(w.media, w.engine, s)

(* A world that may be operated on, and one that an operation leaves the    *)
(* reducer's state of alone.                                                *)
Shaped(w) == DOMAIN w = WorldFields /\ World(w)
Moves(w, v) == Shaped(v) /\ v.media = w.media /\ v.effects = w.effects

LEMMA MovesOn ==
  ASSUME NEW w, NEW v, NEW x, Moves(w, v), Moves(v, x)
  PROVE  Moves(w, x)
BY DEF Moves

LEMMA NoMove == ASSUME NEW w, Shaped(w) PROVE Moves(w, w)
BY DEF Moves

LEMMA RuntimeSet ==
  ASSUME NEW w, Shaped(w), NEW r, RuntimeOk(w.media, r)
  PROVE  /\ Moves(w, [w EXCEPT !.runtime = r])
         /\ [w EXCEPT !.runtime = r].runtime = r
         /\ [w EXCEPT !.runtime = r].queue = w.queue
         /\ [w EXCEPT !.runtime = r].idle = w.idle
         /\ [w EXCEPT !.runtime = r].engine = w.engine
<1> DEFINE v == [w EXCEPT !.runtime = r]
<1>1. /\ DOMAIN v = WorldFields /\ v.media = w.media /\ v.effects = w.effects
      /\ v.runtime = r /\ v.engine = w.engine /\ v.queue = w.queue /\ v.idle = w.idle
  BY DEF Shaped, WorldFields
<1> HIDE DEF v
<1>2. World(v)
  BY <1>1 DEF Shaped, World
<1> QED BY <1>1, <1>2 DEF Moves, Shaped, v

LEMMA Enqueued ==
  ASSUME NEW w, Shaped(w), NEW work, WorkOk(w.media, work)
  PROVE  Moves(w, Enqueue(w, work))
<1> DEFINE v == Enqueue(w, work)
<1>1. /\ DOMAIN v = WorldFields /\ v.media = w.media /\ v.effects = w.effects
      /\ v.runtime = w.runtime /\ v.engine = w.engine
      /\ v.queue = Append(w.queue, work) /\ v.idle = w.idle
  BY DEF Shaped, WorldFields, Enqueue
<1>2. /\ Sequential(Append(w.queue, work))
      /\ Elements(Append(w.queue, work)) = Elements(w.queue) \cup {work}
  BY AppendElements DEF Shaped, World
<1> HIDE DEF v
<1>3. World(v)
  BY <1>1, <1>2 DEF Shaped, World
<1> QED BY <1>1, <1>3 DEF Moves, Shaped, v

LEMMA Deferred ==
  ASSUME NEW w, Shaped(w), NEW s, SourceOk(w.media, w.engine, s)
  PROVE  Moves(w, [w EXCEPT !.idle = Append(@, s)])
<1> DEFINE v == [w EXCEPT !.idle = Append(@, s)]
<1>1. /\ DOMAIN v = WorldFields /\ v.media = w.media /\ v.effects = w.effects
      /\ v.runtime = w.runtime /\ v.engine = w.engine
      /\ v.queue = w.queue /\ v.idle = Append(w.idle, s)
  BY DEF Shaped, WorldFields
<1>2. /\ Sequential(Append(w.idle, s))
      /\ Elements(Append(w.idle, s)) = Elements(w.idle) \cup {s}
  BY AppendElements DEF Shaped, World
<1> HIDE DEF v
<1>3. World(v)
  BY <1>1, <1>2 DEF Shaped, World
<1> QED BY <1>1, <1>3 DEF Moves, Shaped, v

LEMMA StateWorkOk ==
  ASSUME NEW m, NEW event \in S!Event(m), NEW waiter
  PROVE  WorkOk(m, StateWork(event, waiter))
BY DEF WorkOk, StateWork

LEMMA Posted ==
  ASSUME NEW w, Shaped(w), NEW event \in S!Event(w.media)
  PROVE  Moves(w, Post(w, event))
BY StateWorkOk, Enqueued DEF Post

LEMMA StaleKeeps ==
  ASSUME NEW w, Shaped(w), NEW kind \in {"attempt_timeout", "lease_expired"}
  PROVE  Moves(w, [w EXCEPT !.queue = Stale(@, kind)])
<1> DEFINE q == Stale(w.queue, kind)
           v == [w EXCEPT !.queue = q]
<1>1. /\ DOMAIN v = WorldFields /\ v.media = w.media /\ v.effects = w.effects
      /\ v.runtime = w.runtime /\ v.engine = w.engine
      /\ v.queue = q /\ v.idle = w.idle
  BY DEF Shaped, WorldFields
<1>2. q = [i \in DOMAIN w.queue |-> IF w.queue[i].kind = kind
                                      THEN [w.queue[i] EXCEPT !.live = FALSE]
                                      ELSE w.queue[i]]
  BY DEF Stale
<1>3. Sequential(q)
  <2>1. q = [i \in DOMAIN w.queue |-> q[i]]
    BY <1>2
  <2> HIDE DEF q
  <2> QED BY <2>1, MappedElements DEF Shaped, World
<1>4. ASSUME NEW i \in DOMAIN w.queue PROVE WorkOk(w.media, q[i])
  <2> DEFINE work == w.queue[i]
             dead == [work EXCEPT !.live = FALSE]
  <2>1. WorkOk(w.media, work)
    BY DEF Shaped, World, Elements
  <2>2. q[i] = IF work.kind = kind THEN dead ELSE work
    BY <1>2
  <2>3. "kind" \in DOMAIN dead /\ dead.kind = work.kind
    BY <2>1 DEF WorkOk
  <2> HIDE DEF dead, work, q
  <2>4. work.kind = kind => WorkOk(w.media, dead)
    BY <2>3 DEF WorkOk
  <2> QED BY <2>1, <2>2, <2>4
<1>5. DOMAIN q = DOMAIN w.queue
  BY <1>2
<1> HIDE DEF v, q
<1>6. World(v)
  BY <1>1, <1>3, <1>4, <1>5 DEF Shaped, World, Elements
<1> QED BY <1>1, <1>6 DEF Moves, Shaped, v, q

LEMMA SourcesStay ==
  ASSUME NEW m, NEW e, Sized(e), NEW f, Grows(e, f), NEW s, SourceOk(m, e, s)
  PROVE  SourceOk(m, f, s)
BY TokensStay DEF SourceOk

LEMMA OperatedMoves ==
  ASSUME NEW w, Shaped(w), NEW e, Grows(w.engine, e)
  PROVE  Moves(w, Operated(w, e))
<1> DEFINE events == [i \in DOMAIN e.out |-> [src |-> "event", event |-> e.out[i]]]
           quiet == [e EXCEPT !.out = <<>>]
           v == Operated(w, e)
<1>1. /\ DOMAIN v = WorldFields /\ v.media = w.media /\ v.effects = w.effects
      /\ v.runtime = w.runtime /\ v.engine = quiet /\ v.queue = w.queue
      /\ v.idle = w.idle \o events
  BY DEF Shaped, WorldFields, Operated
<1>2. /\ DOMAIN quiet = EngineFields /\ quiet.out = <<>> /\ quiet.branches = e.branches
      /\ quiet.active = e.active /\ quiet.finalizing = e.finalizing
      /\ quiet.rotations = e.rotations
  BY DEF Grows, Sized, EngineFields
<1> HIDE DEF quiet, v
<1>3. Grows(w.engine, quiet)
  <2>1. Sized(quiet)
    BY <1>2, EmptyElements DEF Grows, Sized, Tokens
  <2> QED BY <1>2, <2>1 DEF Grows
<1>4. Sequential(events)
  BY MappedElements DEF Grows, Sized
<1>5. ASSUME NEW s \in Elements(events) PROVE SourceOk(w.media, quiet, s)
  <2>1. PICK i \in DOMAIN e.out : s = [src |-> "event", event |-> e.out[i]]
    BY <1>5 DEF Elements
  <2>2. Honest(e.out[i])
    BY DEF Grows, Sized, Elements
  <2> QED BY <2>1, <2>2 DEF SourceOk
<1> HIDE DEF events
<1>6. ASSUME NEW s \in Elements(w.idle) PROVE SourceOk(w.media, quiet, s)
  BY <1>3, <1>6, SourcesStay DEF Shaped, World
<1>7. /\ Sequential(w.idle \o events)
      /\ Elements(w.idle \o events) \subseteq Elements(w.idle) \cup Elements(events)
  BY <1>4, JoinedElements DEF Shaped, World
<1>8. World(v)
  BY <1>1, <1>3, <1>5, <1>6, <1>7 DEF Shaped, World, Grows
<1> QED BY <1>1, <1>8 DEF Moves, Shaped, v

-----------------------------------------------------------------------------
(* The timers.                                                              *)

(* Fields of the runtime that the invariant does not speak of.              *)
LEMMA RuntimeKeeps ==
  ASSUME NEW m, SP!Good(m), NEW r, RuntimeOk(m, r), NEW q, DOMAIN q = RuntimeFields,
         q.mapping = r.mapping, DOMAIN q.instance = Scope,
         q.reconnect \in {0, r.reconnect},
         q.storage \in {None, r.storage, m.recording.generation},
         q.config = r.config, q.update = r.update
  PROVE  RuntimeOk(m, q)
BY Generations DEF RuntimeOk

LEMMA SameFields ==
  ASSUME NEW w, NEW v, Moves(w, v), NEW x, DOMAIN x = WorldFields,
         x.media = v.media, x.effects = v.effects, x.runtime = v.runtime,
         x.engine = v.engine, x.queue = v.queue, x.idle = v.idle
  PROVE  Moves(w, x)
BY DEF Moves, Shaped, World

LEMMA CancelAttemptMoves ==
  ASSUME NEW w, Shaped(w)
  PROVE  Moves(w, CancelAttempt(w))
<1> DEFINE r == [w.runtime EXCEPT !.attempt = NoAttempt, !.attempt_due = FALSE]
           v == [w EXCEPT !.runtime = r]
           u == [v EXCEPT !.queue = Stale(@, "attempt_timeout")]
           x == CancelAttempt(w)
<1>1. /\ DOMAIN r = RuntimeFields /\ r.mapping = w.runtime.mapping
      /\ r.instance = w.runtime.instance
      /\ r.reconnect = w.runtime.reconnect /\ r.storage = w.runtime.storage
      /\ r.config = w.runtime.config /\ r.update = w.runtime.update
  BY DEF Shaped, World, RuntimeOk, RuntimeFields
<1>2. /\ DOMAIN x = WorldFields /\ x.media = u.media /\ x.effects = u.effects
      /\ x.runtime = u.runtime /\ x.engine = u.engine /\ x.queue = u.queue
      /\ x.idle = u.idle
  BY DEF Shaped, WorldFields, CancelAttempt
<1> HIDE DEF r, x
<1>3. RuntimeOk(w.media, r)
  BY <1>1, RuntimeKeeps DEF Shaped, World, RuntimeOk
<1>4. Moves(w, v)
  BY <1>3, RuntimeSet
<1> HIDE DEF v
<1>5. Moves(v, u)
  BY <1>4, StaleKeeps DEF Moves
<1> HIDE DEF u
<1>6. Moves(w, u)
  BY <1>4, <1>5, MovesOn
<1>7. Moves(w, x)
  BY <1>2, <1>6, SameFields
<1> QED BY <1>7 DEF x

LEMMA CancelLeaseMoves ==
  ASSUME NEW w, Shaped(w)
  PROVE  Moves(w, CancelLease(w))
<1> DEFINE r == [w.runtime EXCEPT !.lease = "none"]
           v == [w EXCEPT !.runtime = r]
           u == [v EXCEPT !.queue = Stale(@, "lease_expired")]
           x == CancelLease(w)
<1>1. /\ DOMAIN r = RuntimeFields /\ r.mapping = w.runtime.mapping
      /\ r.instance = w.runtime.instance
      /\ r.reconnect = w.runtime.reconnect /\ r.storage = w.runtime.storage
      /\ r.config = w.runtime.config /\ r.update = w.runtime.update
  BY DEF Shaped, World, RuntimeOk, RuntimeFields
<1>2. /\ DOMAIN x = WorldFields /\ x.media = u.media /\ x.effects = u.effects
      /\ x.runtime = u.runtime /\ x.engine = u.engine /\ x.queue = u.queue
      /\ x.idle = u.idle
  BY DEF Shaped, WorldFields, CancelLease
<1> HIDE DEF r, x
<1>3. RuntimeOk(w.media, r)
  BY <1>1, RuntimeKeeps DEF Shaped, World, RuntimeOk
<1>4. Moves(w, v)
  BY <1>3, RuntimeSet
<1> HIDE DEF v
<1>5. Moves(v, u)
  BY <1>4, StaleKeeps DEF Moves
<1> HIDE DEF u
<1>6. Moves(w, u)
  BY <1>4, <1>5, MovesOn
<1>7. Moves(w, x)
  BY <1>2, <1>6, SameFields
<1> QED BY <1>7 DEF x

(* A field of the runtime the invariant does not speak of.                  *)
Spoken == {"mapping", "instance", "reconnect", "storage", "config", "update"}

LEMMA FieldMoves ==
  ASSUME NEW w, Shaped(w), NEW value,
         NEW field \in RuntimeFields \ Spoken
  PROVE  Moves(w, [w EXCEPT !.runtime = [@ EXCEPT ![field] = value]])
<1> DEFINE r == [w.runtime EXCEPT ![field] = value]
<1>1. /\ DOMAIN r = RuntimeFields /\ r.mapping = w.runtime.mapping
      /\ r.instance = w.runtime.instance
      /\ r.reconnect = w.runtime.reconnect /\ r.storage = w.runtime.storage
      /\ r.config = w.runtime.config /\ r.update = w.runtime.update
  BY DEF Shaped, World, RuntimeOk, Spoken
<1> HIDE DEF r
<1>2. RuntimeOk(w.media, r)
  BY <1>1, RuntimeKeeps DEF Shaped, World, RuntimeOk
<1>3. Moves(w, [w EXCEPT !.runtime = r])
  BY <1>2, RuntimeSet
<1> QED BY <1>3 DEF r

LEMMA FieldsMove ==
  ASSUME NEW w, Shaped(w), NEW value
  PROVE  /\ Moves(w, [w EXCEPT !.runtime.timeout = value])
         /\ Moves(w, [w EXCEPT !.runtime.attempt = value])
         /\ Moves(w, [w EXCEPT !.runtime.attempt_due = value])
         /\ Moves(w, [w EXCEPT !.runtime.rotation = value])
         /\ Moves(w, [w EXCEPT !.runtime.stats_inflight = value])
         /\ Moves(w, [w EXCEPT !.runtime.lease = value])
         /\ Moves(w, [w EXCEPT !.runtime.spectrum = value])
         /\ Moves(w, [w EXCEPT !.runtime.awaiting = value])
         /\ Moves(w, [w EXCEPT !.runtime.started = value])
         /\ Moves(w, [w EXCEPT !.runtime.amiss = value])
         /\ Moves(w, [w EXCEPT !.runtime.applied = value])
         /\ Moves(w, [w EXCEPT !.runtime.paths = value])
         /\ Moves(w, [w EXCEPT !.runtime.retiring = value])
<1>1. \A field \in RuntimeFields \ Spoken :
        Moves(w, [w EXCEPT !.runtime = [@ EXCEPT ![field] = value]])
  BY FieldMoves
<1>2. {"timeout", "attempt", "attempt_due", "rotation", "stats_inflight", "lease",
       "spectrum", "awaiting", "started", "amiss", "applied", "paths", "retiring"}
        \subseteq RuntimeFields \ Spoken
  BY DEF RuntimeFields, Spoken
<1> QED BY <1>1, <1>2

LEMMA SyncAttemptMoves ==
  ASSUME NEW w, Shaped(w)
  PROVE  Moves(w, SyncAttempt(w))
<1> DEFINE cancelled == CancelAttempt(w)
           armed == [w EXCEPT !.runtime.attempt =
                       [generation |-> w.media.stream.generation,
                        instance |-> w.runtime.instance["stream"]]]
           cleared == [cancelled EXCEPT !.runtime.timeout = NoAttempt]
<1>1. \/ SyncAttempt(w) = w
      \/ SyncAttempt(w) = armed
      \/ SyncAttempt(w) = cancelled
      \/ SyncAttempt(w) = cleared
  BY DEF SyncAttempt
<1>2. Moves(w, armed)
  BY FieldsMove
<1>3. Moves(w, cancelled)
  BY CancelAttemptMoves
<1> HIDE DEF cancelled, armed
<1>4. Moves(cancelled, cleared)
  BY <1>3, FieldsMove DEF Moves
<1> HIDE DEF cleared
<1> QED BY <1>1, <1>2, <1>3, <1>4, MovesOn, NoMove

LEMMA CancelAllMoves ==
  ASSUME NEW w, Shaped(w)
  PROVE  Moves(w, CancelAll(w))
<1> DEFINE v == CancelAttempt(w)
           u == CancelLease(v)
           r == [u.runtime EXCEPT !.timeout = NoAttempt, !.reconnect = 0, !.storage = None,
                                  !.rotation = FALSE, !.spectrum = FALSE]
<1>1. CancelAll(w) = [u EXCEPT !.runtime = r]
  BY DEF CancelAll
<1>2. Moves(w, v)
  BY CancelAttemptMoves
<1> HIDE DEF v
<1>3. Moves(v, u)
  BY <1>2, CancelLeaseMoves DEF Moves
<1> HIDE DEF u
<1>4. /\ DOMAIN r = RuntimeFields /\ r.mapping = u.runtime.mapping
      /\ r.instance = u.runtime.instance /\ r.reconnect = 0 /\ r.storage = None
      /\ r.config = u.runtime.config /\ r.update = u.runtime.update
  BY <1>3 DEF Moves, Shaped, World, RuntimeOk, RuntimeFields
<1> HIDE DEF r
<1>5. RuntimeOk(u.media, r)
  BY <1>3, <1>4, RuntimeKeeps DEF Moves, Shaped, World, RuntimeOk
<1>6. Moves(u, [u EXCEPT !.runtime = r])
  BY <1>3, <1>5, RuntimeSet DEF Moves
<1> QED BY <1>1, <1>2, <1>3, <1>6, MovesOn

(* A world that differs in the runtime's own fields.                        *)
LEMMA RuntimeMoves ==
  ASSUME NEW w, Shaped(w), NEW x, DOMAIN x = WorldFields,
         x.media = w.media, x.effects = w.effects, RuntimeOk(w.media, x.runtime),
         x.engine = w.engine, x.queue = w.queue, x.idle = w.idle
  PROVE  Moves(w, x)
BY DEF Moves, Shaped, World

LEMMA SyncTimersMoves ==
  ASSUME NEW w, Shaped(w)
  PROVE  Moves(w, SyncTimers(w))
<1> DEFINE v == SyncAttempt(w)
           m == w.media.recording
           retry == w.media.connection.state = "retry_wait"
           x == [v EXCEPT
                   !.runtime.reconnect = IF retry THEN @ ELSE 0,
                   !.runtime.storage = IF m.state \notin {"running", "blocked"} THEN None
                                       ELSE IF @ = None THEN m.generation ELSE @,
                   !.runtime.rotation = m.state = "running" /\ ~m.rotation_pending]
<1>1. SyncTimers(w) = IF w.media.service # "running" THEN CancelAll(w) ELSE x
  BY DEF SyncTimers
<1>2. Moves(w, v)
  BY SyncAttemptMoves
<1> HIDE DEF v, retry
<1>3. /\ DOMAIN x = WorldFields /\ x.media = v.media /\ x.effects = v.effects
      /\ x.engine = v.engine /\ x.queue = v.queue /\ x.idle = v.idle
  BY <1>2 DEF Moves, Shaped, WorldFields
<1>4. /\ DOMAIN x.runtime = RuntimeFields /\ x.runtime.mapping = v.runtime.mapping
      /\ x.runtime.instance = v.runtime.instance
      /\ x.runtime.reconnect \in {0, v.runtime.reconnect}
      /\ x.runtime.storage \in {None, v.runtime.storage, m.generation}
      /\ x.runtime.config = v.runtime.config /\ x.runtime.update = v.runtime.update
  BY <1>2 DEF Moves, Shaped, World, WorldFields, RuntimeOk, RuntimeFields
<1> HIDE DEF x
<1>5. RuntimeOk(v.media, x.runtime)
  BY <1>2, <1>4, RuntimeKeeps DEF Moves, Shaped, World, RuntimeOk
<1>6. Moves(v, x)
  BY <1>2, <1>3, <1>5, RuntimeMoves DEF Moves
<1> QED BY <1>1, <1>2, <1>6, MovesOn, CancelAllMoves

LEMMA ForgetMoves ==
  ASSUME NEW w, Shaped(w), NEW scope \in Scope
  PROVE  Moves(w, Forget(w, scope))
<1> DEFINE x == Forget(w, scope)
           r == x.runtime
<1>1. /\ DOMAIN x = WorldFields /\ x.media = w.media /\ x.effects = w.effects
      /\ x.engine = w.engine /\ x.queue = w.queue /\ x.idle = w.idle
  BY DEF Shaped, WorldFields, Forget
<1>2. /\ DOMAIN r = RuntimeFields
      /\ r.mapping = [w.runtime.mapping EXCEPT ![scope] = NoMapping]
      /\ r.instance = [w.runtime.instance EXCEPT ![scope] = 0]
      /\ r.reconnect = w.runtime.reconnect /\ r.storage = w.runtime.storage
      /\ r.config = w.runtime.config /\ r.update = w.runtime.update
  BY DEF Shaped, World, WorldFields, RuntimeOk, RuntimeFields, Forget
<1> HIDE DEF x
<1>3. DOMAIN r.mapping = Scope /\ DOMAIN r.instance = Scope
  BY <1>2 DEF Shaped, World, RuntimeOk
<1>4. ASSUME NEW k \in Scope PROVE r.mapping[k].desired \in 0..w.media[k].generation
  <2>1. w.media[k].generation \in Nat
    BY Generations DEF Shaped, World, Scope
  <2> QED BY <1>2, <2>1 DEF Shaped, World, RuntimeOk, NoMapping
<1>5. RuntimeOk(w.media, r)
  BY <1>2, <1>3, <1>4 DEF Shaped, World, RuntimeOk
<1>6. Moves(w, x)
  BY <1>1, <1>5, RuntimeMoves
<1> QED BY <1>6 DEF x

LEMMA ClearStoppedMoves ==
  ASSUME NEW w, Shaped(w)
  PROVE  Moves(w, ClearStopped(w))
<1> DEFINE v == IF w.media.stream.state \in {"stopped", "failed"}
                  THEN Forget(w, "stream") ELSE w
<1>1. ClearStopped(w) = v \/ ClearStopped(w) = Forget(v, "recording")
  BY DEF ClearStopped
<1>2. "stream" \in Scope /\ "recording" \in Scope
  BY DEF Scope
<1>3. Moves(w, v)
  BY <1>2, ForgetMoves, NoMove
<1> HIDE DEF v
<1>4. Moves(v, Forget(v, "recording"))
  BY <1>2, <1>3, ForgetMoves DEF Moves
<1> QED BY <1>1, <1>3, <1>4, MovesOn

-----------------------------------------------------------------------------
(* The calls of the engine.                                                 *)

Outcomes == [added : BOOLEAN, plays : BOOLEAN, level : BOOLEAN,
             storage : {"safe"} \cup StorageFault]

Bounded == scenario \in Scenarios

LEMMA Room ==
  ASSUME Bounded, NEW e, Sized(e), Len(e.branches) < scenario.branches
  PROVE  Len(e.branches) < MaxBranch
<1>1. scenario.branches \in 0..MaxBranch
  BY RuntimeAssumption DEF Bounded, Scenario
<1>2. Len(e.branches) \in Nat /\ MaxBranch \in Nat
  BY RuntimeAssumption DEF Sized
<1> QED BY <1>1, <1>2

LEMMA AnswerSized ==
  ASSUME Bounded, NEW e, Sized(e), NEW m, NEW c, CallOk(m, c), NEW o \in Outcomes
  PROVE  /\ Grows(e, AnswerTo(e, c, o).engine)
         /\ AnswerTo(e, c, o).raised => c.effect \in Raising
<1> DEFINE a == AnswerTo(e, c, o)
           g == c.generation
           added == Added(e, o)
<1>1. added \in BOOLEAN /\ (added => Len(e.branches) < MaxBranch)
  BY Room DEF Added, Outcomes
<1> HIDE DEF added
<1>2. CASE c.effect = "capture.start"
  <2> DEFINE level == o.level /\ Len(e.branches) < scenario.branches
  <2>1. level \in BOOLEAN /\ (level => Len(e.branches) < MaxBranch)
    BY Room DEF Outcomes
  <2>2. a.engine = E!StartCapture(e, o.plays, level)
    BY <1>2 DEF AnswerTo, Answer
  <2> HIDE DEF level, a
  <2>3. Grows(e, a.engine)
    BY <2>1, <2>2, StartCaptureSized
  <2> QED BY <1>2, <2>3 DEF Raising, a
<1>3. CASE c.effect = "capture.stop"
  <2>1. a.engine = E!StopCapture(e) /\ a.raised = FALSE
    BY <1>3 DEF AnswerTo, Answer
  <2> HIDE DEF a
  <2>2. Grows(e, a.engine) /\ ~a.raised
    BY <2>1, StopCaptureSized
  <2> QED BY <2>2 DEF a
<1>4. CASE c.effect \in {"stream.start", "connection.connect"}
  <2>1. a.engine \in {e, E!StartStream(e, g, added)}
    BY <1>4 DEF AnswerTo, Answer, added
  <2> HIDE DEF a
  <2>2. Grows(e, a.engine)
    BY <1>1, <2>1, StartStreamSized, Stands
  <2> QED BY <1>4, <2>2 DEF Raising, a
<1>5. CASE c.effect = "stream.stop"
  <2>1. a.engine = E!StopStream(e, g) /\ a.raised = FALSE
    BY <1>5 DEF AnswerTo, Answer
  <2> HIDE DEF a
  <2>2. Grows(e, a.engine) /\ ~a.raised
    BY <2>1, StopsSized
  <2> QED BY <2>2 DEF a
<1>6. CASE c.effect = "connection.timeout_stop"
  <2>1. a.engine = E!AbortStreamAttempt(e, g)
    BY <1>6 DEF AnswerTo, Answer
  <2> HIDE DEF a
  <2>2. Grows(e, a.engine)
    BY <2>1, StopsSized
  <2> QED BY <1>6, <2>2 DEF Raising, a
<1>7. CASE c.effect = "stream.set_opus_bitrate"
  <2>1. a.engine \in {e, E!SetBitrate(e, c.bitrate)}
    BY <1>7 DEF AnswerTo, Answer
  <2> HIDE DEF a
  <2>2. Grows(e, a.engine)
    BY <1>7, <2>1, SetBitrateSized, Stands DEF CallOk
  <2> QED BY <1>7, <2>2 DEF Raising, a
<1>8. CASE c.effect = "recording.start"
  <2>1. a.engine \in {e, E!StartRecording(e, g, added)}
    BY <1>8 DEF AnswerTo, Answer, added
  <2> HIDE DEF a
  <2>2. Grows(e, a.engine)
    BY <1>1, <2>1, StartRecordingSized, Stands
  <2> QED BY <1>8, <2>2 DEF Raising, a
<1>9. CASE c.effect = "recording.stop"
  <2>1. a.engine = E!StopRecording(e, g) /\ a.raised = FALSE
    BY <1>9 DEF AnswerTo, Answer
  <2> HIDE DEF a
  <2>2. Grows(e, a.engine) /\ ~a.raised
    BY <2>1, StopsSized
  <2> QED BY <2>2 DEF a
<1>10. CASE c.effect = "recording.rotate"
  <2>1. a.engine \in {e, E!RotateRecording(e, g, added)}
    BY <1>10 DEF AnswerTo, Answer, added
  <2> HIDE DEF a
  <2>2. Grows(e, a.engine)
    BY <1>1, <2>1, RotateSized, Stands
  <2> QED BY <1>10, <2>2 DEF Raising, a
<1>11. CASE c.effect = "service.stop"
  <2>1. a.engine = E!Shutdown(e) /\ a.raised = FALSE
    BY <1>11 DEF AnswerTo, Answer
  <2> HIDE DEF a
  <2>2. Grows(e, a.engine) /\ ~a.raised
    BY <2>1, ShutdownSized
  <2> QED BY <2>2 DEF a
<1>12. c.effect \in Calls
  BY DEF CallOk
<1> QED BY <1>2, <1>3, <1>4, <1>5, <1>6, <1>7, <1>8, <1>9, <1>10, <1>11, <1>12
        DEF Calls, Raising

-----------------------------------------------------------------------------
(* Induction over a set of numbers.                                         *)
LEMMA Counted ==
  ASSUME NEW T, 0 \in T, \A n \in Nat : n \in T => n + 1 \in T
  PROVE  Nat \subseteq T
<1> DEFINE R == {ss \in Nat \X Nat : ss[1] < ss[2]}
           U == Nat \ T
<1>1. IsWellFoundedOn(R, Nat)
  BY NatLessThanWellFounded DEF OpToRel
<1>2. ASSUME U # {} PROVE FALSE
  <2>1. \E n \in U : \A k \in U : <<k, n>> \notin R
    <3> HIDE DEF R
    <3> QED BY <1>1, <1>2, WFMin
  <2>2. PICK n \in U : \A k \in U : <<k, n>> \notin R
    BY <2>1
  <2>3. n \in Nat /\ n # 0 /\ n - 1 \in Nat /\ n - 1 < n
    <3>1. n \in Nat /\ n # 0
      OBVIOUS
    <3> QED BY <3>1
  <2>4. <<n - 1, n>> \in R
    BY <2>3
  <2>5. n - 1 \in T
    BY <2>2, <2>3, <2>4
  <2>6. n = (n - 1) + 1
    BY <2>3
  <2> QED BY <2>2, <2>3, <2>5, <2>6
<1> QED BY <1>2

-----------------------------------------------------------------------------
(* The effects of a decision.                                               *)

LEMMA CallMoves ==
  ASSUME Bounded, NEW w, Shaped(w), NEW c, CallOk(w.media, c), NEW o \in Outcomes
  PROVE  Moves(w, Call(w, c, o))
<1> DEFINE a == AnswerTo(w.engine, c, o)
           after == Operated(w, a.engine)
           work(kind) == [kind |-> kind, effect |-> c.effect,
                          generation |-> c.generation, value |-> a.value]
<1>1. Call(w, c, o) = IF a.raised THEN Enqueue(after, work("failure"))
                      ELSE IF c.effect \in Answered THEN Enqueue(after, work("result"))
                      ELSE after
  BY DEF Call
<1>2. Grows(w.engine, a.engine) /\ (a.raised => c.effect \in Raising)
  BY AnswerSized DEF Shaped, World
<1> HIDE DEF a
<1>3. Moves(w, after)
  BY <1>2, OperatedMoves
<1> HIDE DEF after
<1>4. a.raised => WorkOk(w.media, work("failure"))
  BY <1>2 DEF WorkOk, CallOk
<1>5. c.effect \in Answered => WorkOk(w.media, work("result"))
  BY DEF WorkOk, CallOk, Answered, Raising
<1> HIDE DEF work
<1>6. /\ a.raised => Moves(after, Enqueue(after, work("failure")))
      /\ c.effect \in Answered => Moves(after, Enqueue(after, work("result")))
  BY <1>3, <1>4, <1>5, Enqueued DEF Moves
<1> QED BY <1>1, <1>3, <1>6, MovesOn

LEMMA InvokeMoves ==
  ASSUME Bounded, NEW w, Shaped(w), NEW by, NEW o \in Outcomes,
         NEW effect \in Calls, NEW g, effect \in Raising => Begun(w.media, effect, g),
         effect = "stream.set_opus_bitrate" => w.media.stream.pending_opus_bitrate_bps # 0
  PROVE  Moves(w, Invoke(w, by, o, effect, g))
<1> DEFINE c == [src |-> "call", effect |-> effect, generation |-> g,
                 bitrate |-> w.media.stream.pending_opus_bitrate_bps]
<1>1. Invoke(w, by, o, effect, g) =
        IF by = "owner" THEN Call(w, c, o) ELSE [w EXCEPT !.idle = Append(@, c)]
  BY DEF Invoke
<1>2. w.media.stream.pending_opus_bitrate_bps \in Bitrate \cup {0}
  BY Generations DEF Shaped, World
<1>3. CallOk(w.media, c) /\ SourceOk(w.media, w.engine, c)
  BY <1>2 DEF CallOk, SourceOk
<1> HIDE DEF c
<1> QED BY <1>1, <1>3, CallMoves, Deferred

LEMMA DispatchEffectMoves ==
  ASSUME Bounded, NEW w, Shaped(w), NEW by, NEW o \in Outcomes,
         NEW effect \in SP!Effect, SP!Begins(w.media, effect)
  PROVE  Moves(w, DispatchEffect(w, by, o, effect))
<1> DEFINE g == GenerationFor(w.media, effect)
           v == IF effect = "service.stop" THEN CancelAll(w) ELSE w
           m == w.media
<1>1. CASE effect = "connection.schedule_retry"
  <2> DEFINE r == [w.runtime EXCEPT !.reconnect = m.stream.generation]
  <2>1. DispatchEffect(w, by, o, effect) = [w EXCEPT !.runtime = r]
    BY <1>1 DEF DispatchEffect
  <2>2. /\ DOMAIN r = RuntimeFields /\ r.mapping = w.runtime.mapping
        /\ r.instance = w.runtime.instance /\ r.reconnect = m.stream.generation
        /\ r.storage = w.runtime.storage
        /\ r.config = w.runtime.config /\ r.update = w.runtime.update
    BY DEF Shaped, World, RuntimeOk, RuntimeFields
  <2> HIDE DEF r
  <2>3. RuntimeOk(m, r)
    BY <2>2, Generations DEF Shaped, World, RuntimeOk
  <2> QED BY <2>1, <2>3, RuntimeSet
<1>2. CASE effect = "connection.cancel_retry"
  <2> DEFINE r == [w.runtime EXCEPT !.reconnect = 0]
  <2>1. DispatchEffect(w, by, o, effect) = [w EXCEPT !.runtime = r]
    BY <1>2 DEF DispatchEffect
  <2>2. /\ DOMAIN r = RuntimeFields /\ r.mapping = w.runtime.mapping
        /\ r.instance = w.runtime.instance /\ r.reconnect = 0
        /\ r.storage = w.runtime.storage
        /\ r.config = w.runtime.config /\ r.update = w.runtime.update
    BY DEF Shaped, World, RuntimeOk, RuntimeFields
  <2> HIDE DEF r
  <2>3. RuntimeOk(m, r)
    BY <2>2, RuntimeKeeps DEF Shaped, World, RuntimeOk
  <2> QED BY <2>1, <2>3, RuntimeSet
<1>3. CASE effect \notin {"connection.schedule_retry", "connection.cancel_retry"}
  <2>1. DispatchEffect(w, by, o, effect) = Invoke(v, by, o, effect, g)
    BY <1>3 DEF DispatchEffect
  <2>2. effect \in Calls
    BY <1>3 DEF SP!Effect, Calls, Raising
  <2>3. Moves(w, v)
    BY CancelAllMoves, NoMove
  <2> HIDE DEF v
  <2>4. effect \in Raising => Begun(m, effect, g)
    <3>1. effect \in Raising => effect # "connection.timeout_stop"
      BY DEF SP!Effect
    <3>2. effect \in Raising => g = m[Of(effect)].generation
      BY DEF GenerationFor, Of, Raising
    <3>3. effect \in Raising => m[Of(effect)].generation # 0
      BY <3>1 DEF SP!Begins, Of, Raising
    <3>4. m[Of(effect)].generation \in Nat
      BY Generations DEF Of, Shaped, World
    <3> HIDE DEF g, m
    <3> QED BY <3>2, <3>3, <3>4 DEF Begun
  <2>5. effect = "stream.set_opus_bitrate" => m.stream.pending_opus_bitrate_bps # 0
    BY DEF SP!Begins
  <2> HIDE DEF g
  <2>6. Moves(v, Invoke(v, by, o, effect, g))
    BY <2>2, <2>3, <2>4, <2>5, InvokeMoves DEF Moves
  <2> QED BY <2>1, <2>3, <2>6, MovesOn
<1> QED BY <1>1, <1>2, <1>3

(* The worlds between the effects, which the recursive definition is about. *)
LEMMA DispatchedWorlds ==
  ASSUME NEW w, NEW effs, NEW by, NEW o, Len(effs) \in Nat
  PROVE  \E f : /\ f[0] = w
                /\ \A i \in 1..Len(effs) :
                     f[i] = DispatchEffect(f[i - 1], by, o, effs[i])
                /\ Dispatched(w, effs, by, o) = f[Len(effs)]
<1> DEFINE Worlds(f, n) == f = [i \in 0..n |->
                              IF i = 0 THEN w ELSE DispatchEffect(f[i - 1], by, o, effs[i])]
           T == {n \in Nat : \E f : Worlds(f, n)}
           after == CHOOSE f : Worlds(f, Len(effs))
<1>1. 0 \in T
  <2> DEFINE f == [i \in 0..0 |-> w]
  <2>1. Worlds(f, 0)
    BY DEF Worlds
  <2> QED BY <2>1
<1>2. ASSUME NEW n \in Nat, n \in T PROVE n + 1 \in T
  <2>1. PICK f : Worlds(f, n)
    BY <1>2
  <2> DEFINE h == [i \in 0..(n + 1) |->
                     IF i = n + 1 THEN DispatchEffect(f[n], by, o, effs[n + 1]) ELSE f[i]]
  <2>2. ASSUME NEW i \in 0..(n + 1)
        PROVE  h[i] = IF i = 0 THEN w ELSE DispatchEffect(h[i - 1], by, o, effs[i])
    <3>1. CASE i = n + 1
      <4>1. i # 0 /\ i - 1 = n /\ i - 1 \in 0..(n + 1) /\ i - 1 # n + 1
        BY <3>1
      <4>2. h[i - 1] = f[n] /\ h[i] = DispatchEffect(f[n], by, o, effs[i])
        BY <3>1, <4>1
      <4> QED BY <4>1, <4>2
    <3>2. CASE i # n + 1
      <4>1. i \in 0..n /\ h[i] = f[i]
        BY <3>2
      <4>2. f[i] = IF i = 0 THEN w ELSE DispatchEffect(f[i - 1], by, o, effs[i])
        BY <2>1, <4>1 DEF Worlds
      <4>3. i # 0 => i - 1 \in 0..(n + 1) /\ i - 1 # n + 1
        BY <4>1
      <4>4. i # 0 => h[i - 1] = f[i - 1]
        BY <4>3
      <4> HIDE DEF h
      <4> QED BY <4>1, <4>2, <4>4
    <3> QED BY <3>1, <3>2
  <2>3. h = [i \in 0..(n + 1) |-> h[i]]
    OBVIOUS
  <2> HIDE DEF h
  <2>4. Worlds(h, n + 1)
    BY <2>2, <2>3 DEF Worlds
  <2> QED BY <2>4
<1>3. Len(effs) \in T
  <2> HIDE DEF T
  <2> QED BY <1>1, <1>2, Counted
<1>4. \E f : Worlds(f, Len(effs))
  BY <1>3
<1>5. Worlds(after, Len(effs))
  <2> HIDE DEF Worlds
  <2> QED BY <1>4
<1>6. Dispatched(w, effs, by, o) = after[Len(effs)]
  BY DEF Dispatched, Worlds
<1> HIDE DEF after
<1>7. after[0] = w
  BY <1>5 DEF Worlds
<1>8. \A i \in 1..Len(effs) : after[i] = DispatchEffect(after[i - 1], by, o, effs[i])
  BY <1>5 DEF Worlds
<1> QED BY <1>6, <1>7, <1>8

LEMMA DispatchedMoves ==
  ASSUME Bounded, NEW w, Shaped(w), NEW by, NEW o \in Outcomes,
         NEW effs \in Seq(SP!Effect), \A f \in SP!Range(effs) : SP!Begins(w.media, f)
  PROVE  Moves(w, Dispatched(w, effs, by, o))
<1>1. Len(effs) \in Nat /\ DOMAIN effs = 1..Len(effs)
  BY LenProperties
<1>2. PICK after :
        /\ after[0] = w
        /\ \A i \in 1..Len(effs) : after[i] = DispatchEffect(after[i - 1], by, o, effs[i])
        /\ Dispatched(w, effs, by, o) = after[Len(effs)]
  <2>1. Len(effs) \in Nat
    BY <1>1
  <2> QED BY ONLY <2>1, DispatchedWorlds
<1> DEFINE T == {n \in Nat : n <= Len(effs) => Moves(w, after[n])}
<1>3. 0 \in T
  BY <1>1, <1>2, NoMove
<1>4. ASSUME NEW n \in Nat, n \in T PROVE n + 1 \in T
  <2>1. CASE n + 1 <= Len(effs)
    <3> DEFINE effect == effs[n + 1]
    <3>1. n \in 0..Len(effs) /\ n + 1 \in 0..Len(effs) /\ n + 1 \in DOMAIN effs
          /\ n + 1 # 0 /\ (n + 1) - 1 = n /\ n <= Len(effs)
      BY <1>1, <2>1
    <3>2. Moves(w, after[n])
      BY <1>4, <3>1
    <3>3. after[n + 1] = DispatchEffect(after[n], by, o, effect)
      BY <1>2, <3>1
    <3>4. effect \in SP!Effect /\ SP!Begins(w.media, effect)
      BY <3>1, ElementOfSeq, <1>1 DEF SP!Range
    <3> HIDE DEF effect
    <3>5. Moves(after[n], DispatchEffect(after[n], by, o, effect))
      BY <3>2, <3>4, DispatchEffectMoves DEF Moves
    <3>6. Moves(w, after[n + 1])
      BY <3>2, <3>3, <3>5, MovesOn
    <3> QED BY <3>6
  <2>2. CASE ~(n + 1 <= Len(effs))
    BY <2>2
  <2> QED BY <2>1, <2>2
<1>5. Len(effs) \in T
  <2> HIDE DEF T
  <2> QED BY <1>1, <1>3, <1>4, Counted
<1>6. Len(effs) <= Len(effs)
  BY <1>1
<1>7. Moves(w, after[Len(effs)])
  BY <1>5, <1>6
<1> QED BY <1>2, <1>7

-----------------------------------------------------------------------------
(* The work that is a decision of the reducer.                              *)
Reduces(w, v) ==
  /\ Shaped(v)
  /\ \E e \in S!Event(w.media) : /\ v.media = S!Reduce(w.media, e).state
                                 /\ v.effects = S!Reduce(w.media, e).effects

LEMMA ReducesOn ==
  ASSUME NEW w, NEW v, NEW x, Reduces(w, v), Moves(v, x)
  PROVE  Reduces(w, x)
BY DEF Reduces, Moves

(* What was true of a work or a call is true of it later.                   *)
LEMMA BegunLater ==
  ASSUME NEW m, SP!Good(m), NEW n, SP!Good(n), SP!Later(m, n), NEW effect, NEW g,
         Begun(m, effect, g)
  PROVE  Begun(n, effect, g)
<1>1. m[Of(effect)].generation \in Nat /\ n[Of(effect)].generation \in Nat
  BY Generations DEF Of
<1>2. m[Of(effect)].generation <= n[Of(effect)].generation
  BY DEF SP!Later, Of
<1> QED BY <1>1, <1>2 DEF Begun

LEMMA LaterKeeps ==
  ASSUME NEW m, SP!Good(m), NEW n, SP!Good(n), SP!Later(m, n)
  PROVE  /\ \A r : RuntimeOk(m, r) /\ r.update = NoUpdate => RuntimeOk(n, r)
         /\ \A work : WorkOk(m, work) => WorkOk(n, work)
         /\ \A e, s : SourceOk(m, e, s) => SourceOk(n, e, s)
<1>1. ASSUME NEW r, RuntimeOk(m, r), r.update = NoUpdate PROVE RuntimeOk(n, r)
  <2>1. \A k \in Scope : 0..m[k].generation \subseteq 0..n[k].generation
    BY Generations DEF Scope, SP!Later
  <2>2. /\ 0..m.stream.generation \subseteq 0..n.stream.generation
        /\ 0..m.recording.generation \subseteq 0..n.recording.generation
    BY Generations DEF SP!Later
  <2>3. UpdateOk(n, r.update)
    BY <1>1 DEF UpdateOk
  <2> QED BY <1>1, <2>1, <2>2, <2>3 DEF RuntimeOk
<1>2. ASSUME NEW work, WorkOk(m, work) PROVE WorkOk(n, work)
  BY <1>2, BegunLater, EventsStayKnown DEF WorkOk
<1>3. ASSUME NEW c, CallOk(m, c) PROVE CallOk(n, c)
  BY <1>3, BegunLater DEF CallOk
<1>4. ASSUME NEW e, NEW s, SourceOk(m, e, s) PROVE SourceOk(n, e, s)
  BY <1>3, <1>4 DEF SourceOk
<1> QED BY <1>1, <1>2, <1>4

LEMMA GivenKnown ==
  ASSUME NEW w, Shaped(w), NEW event \in S!Event(w.media), NEW o \in Outcomes
  PROVE  Given(w, event, o) \in S!Event(w.media)
<1> DEFINE m == w.media
<1>1. m.recording.generation \in Nat
  BY Generations DEF Shaped, World
<1>2. CASE event.name = "recording.start"
  <2>1. event \in [name : {"recording.start"}, config_revision : Settings,
                   storage_status : S!StorageStatus]
    BY <1>2 DEF S!Event, S!Command, S!CaptureEvent, S!StreamEvent, S!RecordingEvent,
                S!PlainEvent, S!RevisionEvent, S!GenerationEvent, S!BitrateEvent,
                S!FileEvent
  <2>2. o.storage \in S!StorageStatus
    BY DEF Outcomes, S!StorageStatus
  <2>3. Given(w, event, o) = [event EXCEPT !.storage_status = o.storage]
    BY <1>2 DEF Given
  <2>4. Given(w, event, o) \in [name : {"recording.start"}, config_revision : Settings,
                                storage_status : S!StorageStatus]
    BY <2>1, <2>2, <2>3
  <2> QED BY <2>4 DEF S!Event, S!Command
<1>3. CASE event.name # "recording.start"
  <2>1. \/ Given(w, event, o) = event
        \/ Given(w, event, o) = StorageChecked(m.recording.generation, o.storage)
    BY <1>3 DEF Given
  <2>2. StorageChecked(m.recording.generation, o.storage) \in S!Event(m)
    <3>1. o.storage \in {"safe"} \cup StorageFault
      BY DEF Outcomes
    <3>2. m.recording.generation \in 0..m.recording.generation
      BY <1>1
    <3> HIDE DEF m
    <3>3. \A g \in 0..m.recording.generation, status \in {"safe"} \cup StorageFault :
            StorageChecked(g, status) \in S!Event(m)
      BY OtherEventsKnown
    <3> QED BY <3>1, <3>2, <3>3
  <2> QED BY <2>1, <2>2
<1> QED BY <1>2, <1>3

LEMMA ApplyReduces ==
  ASSUME Bounded, NEW w, Shaped(w), w.runtime.update = NoUpdate,
         NEW event \in S!Event(w.media), NEW by, NEW o \in Outcomes
  PROVE  IF Unprepared(w, event) THEN ApplyStateEvent(w, event, by, o) = w
         ELSE Reduces(w, ApplyStateEvent(w, event, by, o))
<1> DEFINE e == Given(w, event, o)
           d == S!Reduce(w.media, e)
           decided == [w EXCEPT !.media = d.state, !.effects = d.effects]
           sent == Dispatched(decided, d.effects, by, o)
           synced == SyncTimers(sent)
<1>1. ApplyStateEvent(w, event, by, o) =
        IF Unprepared(w, event) THEN w ELSE ClearStopped(synced)
  BY DEF ApplyStateEvent
<1>2. e \in S!Event(w.media)
  BY GivenKnown
<1> HIDE DEF e
<1>3. SP!Served(w.media, d)
  <2>1. e \in SP!Event(w.media)
    BY <1>2, SameEvent
  <2>2. d = SP!Reduce(w.media, e)
    BY SameReduce
  <2> HIDE DEF d
  <2> QED BY <2>1, <2>2, Serves DEF Shaped, World
<1>4. Reduces(w, decided)
  <2>1. /\ DOMAIN decided = WorldFields /\ decided.media = d.state
        /\ decided.effects = d.effects
        /\ decided.runtime = w.runtime /\ decided.engine = w.engine
        /\ decided.queue = w.queue /\ decided.idle = w.idle
    BY DEF Shaped, WorldFields
  <2> HIDE DEF decided
  <2>2. /\ SP!Good(w.media) /\ SP!Good(d.state) /\ SP!Alive(d.state)
        /\ d.effects \in Seq(SP!Effect) /\ SP!Later(w.media, d.state)
    BY <1>3 DEF SP!Served, SP!Founded, Shaped, World
  <2>3. World(decided)
    <3> HIDE DEF d
    <3> QED BY <2>1, <2>2, LaterKeeps DEF Shaped, World
  <2> QED BY <1>2, <2>1, <2>3 DEF Reduces, Shaped
<1>5. d.effects \in Seq(SP!Effect) /\ \A f \in SP!Range(d.effects) : SP!Begins(d.state, f)
  BY <1>3 DEF SP!Served, SP!Founded
<1>6. decided.media = d.state
  BY DEF Shaped, WorldFields
<1> HIDE DEF d, decided
<1>7. Moves(decided, sent)
  BY <1>4, <1>5, <1>6, DispatchedMoves DEF Reduces
<1> HIDE DEF sent
<1>8. Moves(sent, synced)
  BY <1>7, SyncTimersMoves DEF Moves
<1> HIDE DEF synced
<1>9. Moves(synced, ClearStopped(synced))
  BY <1>8, ClearStoppedMoves DEF Moves
<1>10. Reduces(w, ClearStopped(synced))
  BY <1>4, <1>7, <1>8, <1>9, ReducesOn
<1> QED BY <1>1, <1>10

-----------------------------------------------------------------------------
(* The work that moves the world and leaves the reducer alone.              *)
LEMMA PostsOn ==
  ASSUME NEW w, NEW v, Moves(w, v), NEW event \in S!Event(w.media)
  PROVE  Moves(w, Post(v, event))
<1>1. Moves(v, Post(v, event))
  BY Posted DEF Moves
<1> QED BY <1>1, MovesOn

LEMMA TranslateKnown ==
  ASSUME NEW w, Shaped(w), NEW scope \in Scope \cup {"capture"}, NEW g,
         Translate(w, scope, g) # 0
  PROVE  Translate(w, scope, g) \in 1..w.media[scope].generation
<1>1. w.media[scope].generation \in Nat
  BY Generations DEF Shaped, World, Scope
<1>2. ASSUME scope \in Scope
      PROVE  w.runtime.mapping[scope].desired \in 0..w.media[scope].generation
  BY <1>2 DEF Shaped, World, RuntimeOk
<1> QED BY <1>1, <1>2 DEF Translate

LEMMA ProcessResultMoves ==
  ASSUME NEW w, Shaped(w), NEW work, WorkOk(w.media, work), work.kind = "result"
  PROVE  Moves(w, ProcessResult(w, work))
<1> DEFINE pending == w.media.stream.pending_opus_bitrate_bps
           g == work.generation
<1>1. work.effect \in Answered /\ Begun(w.media, work.effect, g)
  BY DEF WorkOk
<1>2. CASE work.effect # "stream.set_opus_bitrate"
  <2> DEFINE scope == IF work.effect \in {"recording.start", "recording.rotate"}
                        THEN "recording" ELSE "stream"
             entry == [backend |-> work.value, desired |-> g]
             x == [w EXCEPT !.runtime.mapping[scope] = entry]
             r == x.runtime
  <2>1. ProcessResult(w, work) = x
    BY <1>2 DEF ProcessResult
  <2>2. scope = Of(work.effect) /\ scope \in Scope
    BY <1>1, <1>2 DEF Answered, Of, Scope
  <2>3. g \in 0..w.media[scope].generation
    BY <1>1, <2>2, Generations DEF Begun, Scope, Shaped, World
  <2> HIDE DEF scope
  <2>4. entry.desired = g
    OBVIOUS
  <2> HIDE DEF entry
  <2>5. /\ DOMAIN x = WorldFields /\ x.media = w.media /\ x.effects = w.effects
        /\ x.engine = w.engine /\ x.queue = w.queue /\ x.idle = w.idle
    BY DEF Shaped, WorldFields
  <2>6. /\ DOMAIN r = RuntimeFields
        /\ r.mapping = [w.runtime.mapping EXCEPT ![scope] = entry]
        /\ r.instance = w.runtime.instance
        /\ r.reconnect = w.runtime.reconnect /\ r.storage = w.runtime.storage
        /\ r.config = w.runtime.config /\ r.update = w.runtime.update
    BY DEF Shaped, World, WorldFields, RuntimeOk, RuntimeFields
  <2> HIDE DEF x
  <2>7. RuntimeOk(w.media, r)
    BY <2>2, <2>3, <2>4, <2>6 DEF Shaped, World, RuntimeOk
  <2> QED BY <2>1, <2>5, <2>7, RuntimeMoves
<1>3. CASE work.effect = "stream.set_opus_bitrate"
  <2>1. g \in 1..w.media.stream.generation
    BY <1>1, <1>3 DEF Begun, Of
  <2>2. pending \in Bitrate \cup {0}
    BY Generations DEF Shaped, World
  <2>3. CASE pending = 0
    BY <1>3, <2>3, NoMove DEF ProcessResult
  <2>4. CASE pending # 0
    <3> DEFINE applied == BitrateApplied(g, pending)
               failed == BitrateFailed(g, pending)
    <3>1. \/ ProcessResult(w, work) = Post(w, applied)
          \/ ProcessResult(w, work) = Post(w, failed)
      BY <1>3, <2>4 DEF ProcessResult
    <3>2. pending \in Bitrate
      BY <2>2, <2>4
    <3>3. \A bps \in Bitrate : /\ BitrateApplied(g, bps) \in S!Event(w.media)
                               /\ BitrateFailed(g, bps) \in S!Event(w.media)
      BY <2>1, StreamEventsKnown
    <3>4. applied \in S!Event(w.media) /\ failed \in S!Event(w.media)
      BY <3>2, <3>3
    <3> HIDE DEF applied, failed
    <3> QED BY <3>1, <3>4, Posted
  <2> QED BY <2>3, <2>4
<1> QED BY <1>2, <1>3

LEMMA UnmarkedMoves ==
  ASSUME NEW w, Shaped(w), NEW x, NEW R,
         x = [w EXCEPT !.runtime.timeout = NoAttempt, !.runtime.retiring = R]
  PROVE  Moves(w, x)
<1> DEFINE v == [w EXCEPT !.runtime.timeout = NoAttempt]
<1>1. x = [v EXCEPT !.runtime.retiring = R]
  OBVIOUS
<1>2. Moves(w, v)
  BY FieldsMove
<1> HIDE DEF v
<1>3. Shaped(v)
  BY <1>2 DEF Moves
<1>4. Moves(v, [v EXCEPT !.runtime.retiring = R])
  BY <1>3, FieldsMove
<1> QED BY <1>1, <1>2, <1>4, MovesOn

LEMMA ProcessFailureMoves ==
  ASSUME NEW w, Shaped(w), NEW work, WorkOk(w.media, work), work.kind = "failure"
  PROVE  Moves(w, ProcessFailure(w, work))
<1> DEFINE g == work.generation
           pending == w.media.stream.pending_opus_bitrate_bps
           timeout == w.runtime.timeout
           plain == [w EXCEPT !.runtime.timeout = NoAttempt,
                              !.runtime.retiring = @ \ {<<"stream", timeout.instance>>}]
           unmarked == IF timeout = NoAttempt \/ timeout.generation # g THEN w ELSE plain
           x == ProcessFailure(w, work)
<1>1. work.effect \in Raising /\ Begun(w.media, work.effect, g)
  BY DEF WorkOk
<1>2. CASE work.effect = "capture.start"
  <2>1. x = Post(w, Event("capture.failed", g))
    BY <1>2 DEF ProcessFailure
  <2>2. g \in 1..w.media.capture.generation
    BY <1>1, <1>2 DEF Begun, Of
  <2>3. Event("capture.failed", g) \in S!Event(w.media)
    BY <2>2, CaptureEventsKnown
  <2> QED BY <2>1, <2>3, Posted
<1>3. CASE work.effect \in {"connection.timeout_stop", "connection.connect", "stream.start"}
  <2>1. g \in 1..w.media.stream.generation
    BY <1>1, <1>3 DEF Begun, Of
  <2>2. Lost(g) \in S!Event(w.media) /\ Event("stream.failed", g) \in S!Event(w.media)
    BY <2>1, StreamEventsKnown
  <2>3. plain = [w EXCEPT !.runtime.timeout = NoAttempt,
                          !.runtime.retiring = w.runtime.retiring
                                                 \ {<<"stream", timeout.instance>>}]
    OBVIOUS
  <2>4. Moves(w, plain)
    BY <2>3, UnmarkedMoves
  <2> HIDE DEF plain
  <2>5. Moves(w, unmarked)
    BY <2>4, NoMove
  <2>6. \/ x = Post(unmarked, Lost(g)) \/ x = Post(w, Lost(g))
        \/ x = Post(w, Event("stream.failed", g))
    BY <1>3 DEF ProcessFailure, plain
  <2> HIDE DEF unmarked, x
  <2> QED BY <2>2, <2>5, <2>6, PostsOn, Posted DEF x
<1>4. CASE work.effect = "stream.set_opus_bitrate"
  <2>1. g \in 1..w.media.stream.generation
    BY <1>1, <1>4 DEF Begun, Of
  <2>2. pending \in Bitrate \cup {0}
    BY Generations DEF Shaped, World
  <2>3. CASE pending = 0
    BY <1>4, <2>3, NoMove DEF ProcessFailure
  <2>4. CASE pending # 0
    <3>1. x = Post(w, BitrateFailed(g, pending))
      BY <1>4, <2>4 DEF ProcessFailure
    <3>2. pending \in Bitrate
      BY <2>2, <2>4
    <3>3. \A bps \in Bitrate : BitrateFailed(g, bps) \in S!Event(w.media)
      BY <2>1, StreamEventsKnown
    <3>4. BitrateFailed(g, pending) \in S!Event(w.media)
      BY <3>2, <3>3
    <3> QED BY <3>1, <3>4, Posted
  <2> QED BY <2>3, <2>4
<1>5. CASE work.effect \in {"recording.start", "recording.rotate"}
  <2>1. x = Post(w, Event("recording.failed", g))
    BY <1>5 DEF ProcessFailure
  <2>2. g \in 1..w.media.recording.generation
    BY <1>1, <1>5 DEF Begun, Of
  <2>3. Event("recording.failed", g) \in S!Event(w.media)
    BY <2>2, RecordingEventsKnown
  <2> QED BY <2>1, <2>3, Posted
<1> QED BY <1>1, <1>2, <1>3, <1>4, <1>5 DEF Raising

-----------------------------------------------------------------------------
(* The events of the engine.                                                *)
LEMMA InstanceMoves ==
  ASSUME NEW w, Shaped(w), NEW scope \in Scope, NEW t, NEW R, NEW x,
         x = [w EXCEPT !.runtime.instance[scope] = t, !.runtime.retiring = R]
  PROVE  Moves(w, x)
<1> DEFINE r == x.runtime
<1>1. /\ DOMAIN x = WorldFields /\ x.media = w.media /\ x.effects = w.effects
      /\ x.engine = w.engine /\ x.queue = w.queue /\ x.idle = w.idle
  BY DEF Shaped, WorldFields
<1>2. /\ DOMAIN r = RuntimeFields /\ r.mapping = w.runtime.mapping
      /\ r.instance = [w.runtime.instance EXCEPT ![scope] = t]
      /\ r.reconnect = w.runtime.reconnect /\ r.storage = w.runtime.storage
      /\ r.config = w.runtime.config /\ r.update = w.runtime.update
  BY DEF Shaped, World, WorldFields, RuntimeOk, RuntimeFields
<1> HIDE DEF r
<1>3. RuntimeOk(w.media, r)
  BY <1>2 DEF Shaped, World, RuntimeOk
<1> QED BY <1>1, <1>3, RuntimeMoves DEF r

LEMMA BranchCreatedMoves ==
  ASSUME NEW w, Shaped(w), NEW scope \in Scope, NEW t \in Token,
         NEW g \in 1..w.media[scope].generation
  PROVE  Moves(w, BranchCreated(w, scope, t, g))
<1> DEFINE old == w.runtime.instance[scope]
           retired == IF old \in {0, t} THEN {} ELSE {<<scope, old>>}
           replaced == [w EXCEPT !.runtime.instance[scope] = t,
                                 !.runtime.retiring = (@ \cup retired) \ {<<scope, t>>}]
           cancelled == CancelAttempt(replaced)
           cleared == [cancelled EXCEPT !.runtime.timeout = NoAttempt]
           fresh == IF old = t THEN replaced ELSE cleared
           listed == [replaced EXCEPT !.runtime.paths = @ \cup {t}]
           x == BranchCreated(w, scope, t, g)
<1>1. \/ x = SyncAttempt(fresh)
      \/ scope = "recording" /\ x = Post(listed, Opened(g, t))
      \/ x = listed
  BY DEF BranchCreated, Scope
<1>2. Moves(w, replaced)
  <2>1. replaced = [w EXCEPT !.runtime.instance[scope] = t,
                             !.runtime.retiring = (w.runtime.retiring \cup retired)
                                                    \ {<<scope, t>>}]
    OBVIOUS
  <2> HIDE DEF replaced
  <2> QED BY <2>1, InstanceMoves
<1> HIDE DEF replaced, x
<1>3. Moves(replaced, cancelled)
  BY <1>2, CancelAttemptMoves DEF Moves
<1> HIDE DEF cancelled
<1>4. Moves(cancelled, cleared)
  BY <1>3, FieldsMove DEF Moves
<1> HIDE DEF cleared
<1>5. Moves(w, fresh)
  BY <1>2, <1>3, <1>4, MovesOn
<1> HIDE DEF fresh
<1>6. Moves(w, SyncAttempt(fresh))
  BY <1>5, SyncAttemptMoves, MovesOn DEF Moves
<1>7. Moves(w, listed)
  <2>1. Moves(replaced, listed)
    BY <1>2, FieldsMove DEF Moves
  <2> QED BY <1>2, <2>1, MovesOn
<1> HIDE DEF listed
<1>8. scope = "recording" => Moves(w, Post(listed, Opened(g, t)))
  BY <1>7, RecordingEventsKnown, PostsOn
<1> QED BY <1>1, <1>6, <1>7, <1>8 DEF x

LEMMA BranchAddedMoves ==
  ASSUME NEW w, Shaped(w), NEW scope \in Scope, NEW t \in Token,
         NEW g \in 1..w.media[scope].generation
  PROVE  Moves(w, BranchAdded(w, scope, t, g))
<1>1. CASE scope = "stream"
  <2>1. Event("stream.started", g) \in S!Event(w.media)
    BY <1>1, StreamEventsKnown
  <2> QED BY <1>1, <2>1, Posted, NoMove DEF BranchAdded
<1>2. CASE scope = "recording"
  <2> DEFINE v == Post(w, Event("recording.started", g))
  <2>1. /\ Event("recording.started", g) \in S!Event(w.media)
        /\ Opened(g, t) \in S!Event(w.media)
    BY <1>2, RecordingEventsKnown
  <2>2. BranchAdded(w, scope, t, g) \in {w, Post(v, Opened(g, t))}
    BY <1>2 DEF BranchAdded
  <2>3. Moves(w, v)
    BY <2>1, Posted
  <2> HIDE DEF v
  <2> QED BY <2>1, <2>2, <2>3, PostsOn, NoMove
<1> QED BY <1>1, <1>2 DEF Scope

LEMMA RetiredMoves ==
  ASSUME NEW w, Shaped(w), NEW scope \in Scope, NEW t
  PROVE  Moves(w, Retired(w, scope, t))
<1> DEFINE current == w.runtime.instance[scope]
           gone == IF t = 0 THEN current ELSE t
           x == [w EXCEPT !.runtime.retiring = @ \ {<<scope, gone>>},
                          !.runtime.instance[scope] = IF @ = gone THEN 0 ELSE @]
           r == x.runtime
<1>1. Retired(w, scope, t) \in {w, x}
  BY DEF Retired
<1> HIDE DEF gone
<1>2. /\ DOMAIN x = WorldFields /\ x.media = w.media /\ x.effects = w.effects
      /\ x.engine = w.engine /\ x.queue = w.queue /\ x.idle = w.idle
  BY DEF Shaped, WorldFields
<1>3. /\ DOMAIN r = RuntimeFields /\ r.mapping = w.runtime.mapping
      /\ DOMAIN r.instance = Scope
      /\ r.reconnect = w.runtime.reconnect /\ r.storage = w.runtime.storage
      /\ r.config = w.runtime.config /\ r.update = w.runtime.update
  BY DEF Shaped, World, WorldFields, RuntimeOk, RuntimeFields
<1> HIDE DEF x
<1>4. RuntimeOk(w.media, r)
  BY <1>3 DEF Shaped, World, RuntimeOk
<1> QED BY <1>1, <1>2, <1>4, RuntimeMoves, NoMove

LEMMA StreamRemovedMoves ==
  ASSUME NEW w, Shaped(w), NEW g \in 1..w.media.stream.generation, NEW forced
  PROVE  Moves(w, StreamRemoved(w, forced, g))
<1>1. /\ Event("stream.failed", g) \in S!Event(w.media)
      /\ Event("stream.stopped", g) \in S!Event(w.media)
  BY StreamEventsKnown
<1> QED BY <1>1, Posted, NoMove DEF StreamRemoved

LEMMA RecordingRemovedMoves ==
  ASSUME NEW w, Shaped(w), NEW g \in 1..w.media.recording.generation,
         NEW t \in {0} \cup Token, NEW forced
  PROVE  Moves(w, RecordingRemoved(w, t, forced, g))
<1> DEFINE path == IF t = 0 THEN w.media.recording.current_file ELSE t
           shut == Post(w, Closed(g, path))
           failed == Post(w, Event("recording.failed", g))
           stopped == Event("recording.stopped", g)
           x == RecordingRemoved(w, t, forced, g)
<1>1. /\ Event("recording.failed", g) \in S!Event(w.media)
      /\ stopped \in S!Event(w.media)
      /\ \A f \in Token : Closed(g, f) \in S!Event(w.media)
  BY RecordingEventsKnown
<1>2. path \in Token \cup {None}
  BY Generations DEF Shaped, World
<1>3. \/ x = Post(failed, stopped) \/ x = w \/ x = Post(w, stopped)
      \/ path # None /\ x = Post(shut, stopped)
  BY DEF RecordingRemoved
<1> HIDE DEF x, path, stopped
<1>4. Moves(w, failed)
  BY <1>1, Posted
<1>5. path # None => Moves(w, shut)
  BY <1>1, <1>2, Posted
<1> HIDE DEF shut, failed
<1>6. x = Post(failed, stopped) => Moves(w, x)
  BY <1>1, <1>4, PostsOn
<1>7. x = Post(w, stopped) => Moves(w, x)
  BY <1>1, Posted
<1>8. (path # None /\ x = Post(shut, stopped)) => Moves(w, x)
  BY <1>1, <1>5, PostsOn
<1>9. Moves(w, x)
  BY <1>3, <1>6, <1>7, <1>8, NoMove
<1> QED BY <1>9 DEF x

LEMMA BranchRemovedMoves ==
  ASSUME NEW w, Shaped(w), NEW scope \in Scope, NEW t \in {0} \cup Token, NEW forced,
         NEW g \in 1..w.media[scope].generation
  PROVE  Moves(w, BranchRemoved(w, scope, t, forced, g))
<1> DEFINE timed_out == AnswersTimeout(w, scope, t, g)
           cleared == [w EXCEPT !.runtime.timeout = NoAttempt]
           acknowledged == IF timed_out THEN cleared ELSE w
           retired == Retired(acknowledged, scope, t)
           x == BranchRemoved(w, scope, t, forced, g)
<1>1. Moves(w, cleared)
  BY FieldsMove
<1>2. \/ scope = "stream" /\ x = Post(retired, Lost(g))
      \/ x = retired
      \/ scope = "stream" /\ x = StreamRemoved(retired, forced, g)
      \/ scope = "recording" /\ x = RecordingRemoved(retired, t, forced, g)
  BY DEF BranchRemoved, Scope, AnswersTimeout
<1> HIDE DEF cleared, timed_out, x
<1>3. Moves(w, acknowledged)
  BY <1>1, NoMove
<1> HIDE DEF acknowledged
<1>4. Moves(acknowledged, retired)
  BY <1>3, RetiredMoves DEF Moves
<1> HIDE DEF retired
<1>5. Moves(w, retired)
  BY <1>3, <1>4, MovesOn
<1>6. Shaped(retired) /\ retired.media = w.media
  BY <1>5 DEF Moves
<1>7. CASE scope = "stream" /\ x = Post(retired, Lost(g))
  <2>1. Lost(g) \in S!Event(w.media)
    BY <1>7, StreamEventsKnown
  <2>2. Moves(w, x)
    BY <1>5, <1>7, <2>1, PostsOn
  <2> QED BY <2>2 DEF x
<1>8. CASE scope = "stream" /\ x = StreamRemoved(retired, forced, g)
  <2>1. Moves(retired, x)
    BY <1>6, <1>8, StreamRemovedMoves
  <2> QED BY <1>5, <2>1, MovesOn DEF x
<1>9. CASE scope = "recording" /\ x = RecordingRemoved(retired, t, forced, g)
  <2>1. Moves(retired, x)
    BY <1>6, <1>9, RecordingRemovedMoves
  <2> QED BY <1>5, <2>1, MovesOn DEF x
<1>10. CASE x = retired
  BY <1>5, <1>10 DEF x
<1> QED BY <1>2, <1>7, <1>8, <1>9, <1>10

LEMMA ConnectionEventMoves ==
  ASSUME NEW w, Shaped(w), NEW t, NEW connected, NEW g \in 1..w.media.stream.generation
  PROVE  Moves(w, ConnectionEvent(w, t, connected, g))
<1> DEFINE v == [w EXCEPT !.runtime.retiring = @ \cup {<<"stream", t>>}]
<1>1. /\ Lost(g) \in S!Event(w.media)
      /\ Event("connection.connected", g) \in S!Event(w.media)
  BY StreamEventsKnown
<1>2. ConnectionEvent(w, t, connected, g)
        \in {w, Post(w, Event("connection.connected", g)), Post(v, Lost(g))}
  BY DEF ConnectionEvent
<1>3. Moves(w, v)
  BY FieldsMove
<1> HIDE DEF v
<1> QED BY <1>1, <1>2, <1>3, Posted, PostsOn, NoMove

LEMMA RecordingRotatedMoves ==
  ASSUME NEW w, Shaped(w), NEW event, event.old \in Token, event.new \in Token,
         NEW g \in 1..w.media.recording.generation
  PROVE  Moves(w, RecordingRotated(w, event, g))
<1> DEFINE swapped == [w EXCEPT !.runtime.retiring = @ \ {<<"recording", event.old>>},
                                !.runtime.instance["recording"] = event.new]
           opened == Post(swapped, Opened(g, event.new))
           shut == Post(swapped, Closed(g, event.old))
           both == Post(shut, Opened(g, event.new))
           x == RecordingRotated(w, event, g)
           r == swapped.runtime
<1>1. /\ Opened(g, event.new) \in S!Event(w.media)
      /\ Closed(g, event.old) \in S!Event(w.media)
      /\ Event("recording.failed", g) \in S!Event(w.media)
      /\ Event("recording.rotation_completed", g) \in S!Event(w.media)
  BY RecordingEventsKnown
<1>2. \/ x = Post(opened, Event("recording.failed", g))
      \/ x = Post(both, Event("recording.rotation_completed", g))
  BY DEF RecordingRotated
<1> HIDE DEF x
<1>3. Moves(w, swapped)
  <2>1. /\ DOMAIN swapped = WorldFields /\ swapped.media = w.media
        /\ swapped.effects = w.effects /\ swapped.engine = w.engine
        /\ swapped.queue = w.queue /\ swapped.idle = w.idle
    BY DEF Shaped, WorldFields
  <2>2. /\ DOMAIN r = RuntimeFields /\ r.mapping = w.runtime.mapping
        /\ DOMAIN r.instance = Scope
        /\ r.reconnect = w.runtime.reconnect /\ r.storage = w.runtime.storage
        /\ r.config = w.runtime.config /\ r.update = w.runtime.update
    BY DEF Shaped, World, WorldFields, RuntimeOk, RuntimeFields
  <2> HIDE DEF swapped
  <2>3. RuntimeOk(w.media, r)
    BY <2>2 DEF Shaped, World, RuntimeOk
  <2> QED BY <2>1, <2>3, RuntimeMoves
<1> HIDE DEF swapped
<1>4. Moves(w, opened) /\ Moves(w, shut)
  BY <1>1, <1>3, PostsOn
<1> HIDE DEF opened, shut
<1>5. Moves(w, both)
  BY <1>1, <1>4, PostsOn
<1> HIDE DEF both
<1>6. /\ Moves(w, Post(opened, Event("recording.failed", g)))
      /\ Moves(w, Post(both, Event("recording.rotation_completed", g)))
  BY <1>1, <1>4, <1>5, PostsOn
<1> QED BY <1>2, <1>6 DEF x

LEMMA BitrateChangedMoves ==
  ASSUME NEW w, Shaped(w), NEW t, NEW bps \in Bitrate,
         NEW g \in 1..w.media.stream.generation
  PROVE  Moves(w, BitrateChanged(w, t, bps, g))
<1>1. BitrateApplied(g, bps) \in S!Event(w.media)
  BY StreamEventsKnown
<1> QED BY <1>1, Posted, NoMove DEF BitrateChanged

LEMMA ErrorEventMoves ==
  ASSUME NEW w, Shaped(w), NEW event, event.scope \in Scope \cup {"capture"},
         NEW g \in 1..w.media[event.scope].generation
  PROVE  Moves(w, ErrorEvent(w, event, g))
<1> DEFINE v == [w EXCEPT !.runtime.spectrum = FALSE]
<1>1. CASE event.scope = "capture"
  <2>1. Event("capture.failed", g) \in S!Event(w.media)
    BY <1>1, CaptureEventsKnown
  <2>2. ErrorEvent(w, event, g) = Post(v, Event("capture.failed", g))
    BY <1>1 DEF ErrorEvent
  <2>3. Moves(w, v)
    BY FieldsMove
  <2> HIDE DEF v
  <2> QED BY <2>1, <2>2, <2>3, PostsOn
<1>2. CASE event.scope = "stream"
  <2>1. Event("stream.failed", g) \in S!Event(w.media)
    BY <1>2, StreamEventsKnown
  <2> QED BY <1>2, <2>1, Posted, NoMove DEF ErrorEvent
<1>3. CASE event.scope = "recording"
  <2>1. Event("recording.failed", g) \in S!Event(w.media)
    BY <1>3, RecordingEventsKnown
  <2> QED BY <1>3, <2>1, Posted, NoMove DEF ErrorEvent
<1> QED BY <1>1, <1>2, <1>3 DEF Scope

LEMMA MonitoringErrorMoves ==
  ASSUME NEW w, Shaped(w), NEW scope
  PROVE  Moves(w, MonitoringError(w, scope))
<1> DEFINE late == IF w.engine.active["spectrum"] # 0 THEN {"reported_late"} ELSE {}
           u == [w EXCEPT !.runtime.spectrum = FALSE]
           v == [w EXCEPT !.runtime.spectrum = FALSE, !.runtime.amiss = @ \cup late]
<1>1. [name |-> "monitoring.failed"] \in S!Event(w.media)
  BY OtherEventsKnown
<1>2. MonitoringError(w, scope) \in {Post(v, [name |-> "monitoring.failed"]),
                                     Post(w, [name |-> "monitoring.failed"])}
  BY DEF MonitoringError
<1>3. Moves(w, v)
  <2>1. v = [u EXCEPT !.runtime.amiss = u.runtime.amiss \cup late]
    BY DEF Shaped, World, WorldFields, RuntimeOk, RuntimeFields
  <2>2. Moves(w, u)
    BY FieldsMove
  <2> HIDE DEF u, v, late
  <2>3. Moves(u, v)
    BY <2>1, <2>2, FieldsMove DEF Moves
  <2> QED BY <2>2, <2>3, MovesOn
<1> HIDE DEF v
<1> QED BY <1>1, <1>2, <1>3, Posted, PostsOn

LEMMA ProcessEngineEventMoves ==
  ASSUME NEW w, Shaped(w), NEW event, Honest(event)
  PROVE  Moves(w, ProcessEngineEvent(w, event))
<1> DEFINE without == [w EXCEPT !.runtime.paths = @ \ {event.token}]
           unlisted == IF event.kind = "branch-removed" /\ event.scope = "recording"
                         THEN without ELSE w
           g == Translate(w, event.scope, event.generation)
           x == ProcessEngineEvent(w, event)
<1>1. Moves(w, without)
  BY FieldsMove
<1>2. Moves(w, unlisted)
  BY <1>1, NoMove
<1>3. CASE event.kind = "shutdown-complete"
  <2>1. x = [w EXCEPT !.runtime.paths = {}]
    BY <1>3 DEF ProcessEngineEvent
  <2>2. Moves(w, [w EXCEPT !.runtime.paths = {}])
    BY FieldsMove
  <2> QED BY <2>1, <2>2
<1>4. CASE event.kind = "error" /\ event.scope \in {"level", "spectrum"}
  <2>1. x = MonitoringError(w, event.scope)
    BY <1>4 DEF ProcessEngineEvent
  <2> QED BY <2>1, MonitoringErrorMoves
<1>5. CASE /\ event.kind # "shutdown-complete"
           /\ ~(event.kind = "error" /\ event.scope \in {"level", "spectrum"})
           /\ event.scope \notin {"level", "spectrum"} /\ g = 0
  <2>1. x = unlisted
    BY <1>5 DEF ProcessEngineEvent
  <2> QED BY <1>2, <2>1
<1>6. CASE /\ event.kind # "shutdown-complete"
           /\ ~(event.kind = "error" /\ event.scope \in {"level", "spectrum"})
           /\ ~(event.scope \notin {"level", "spectrum"} /\ g = 0)
  <2>1. ASSUME event.scope \in Scope \cup {"capture"}
        PROVE  g \in 1..w.media[event.scope].generation
    <3>1. g # 0
      BY <1>6, <2>1 DEF Scope
    <3> QED BY <2>1, <3>1, TranslateKnown
  <2> HIDE DEF g, unlisted
  <2>2. CASE event.kind = "branch-created"
    <3>1. x = BranchCreated(w, event.scope, event.token, g)
      BY <1>6, <2>2 DEF ProcessEngineEvent, g
    <3>2. event.scope \in Scope /\ event.token \in Token
      BY <2>2 DEF Honest
    <3> QED BY <2>1, <3>1, <3>2, BranchCreatedMoves
  <2>3. CASE event.kind = "branch-added"
    <3>1. x = BranchAdded(w, event.scope, event.token, g)
      BY <1>6, <2>3 DEF ProcessEngineEvent, g
    <3>2. event.scope \in Scope /\ event.token \in Token
      BY <2>3 DEF Honest
    <3> QED BY <2>1, <3>1, <3>2, BranchAddedMoves
  <2>4. CASE event.kind = "branch-removed" /\ event.scope \in Scope
    <3>1. x = BranchRemoved(unlisted, event.scope, event.token, event.forced, g)
      BY <1>6, <2>4 DEF ProcessEngineEvent, g, unlisted
    <3>2. event.token \in {0} \cup Token
      BY <2>4 DEF Honest
    <3>3. Shaped(unlisted) /\ unlisted.media = w.media
      BY <1>2 DEF Moves, unlisted
    <3>4. Moves(unlisted, x)
      BY <2>1, <2>4, <3>1, <3>2, <3>3, BranchRemovedMoves
    <3>5. Moves(w, unlisted)
      BY <1>2 DEF unlisted
    <3> QED BY <3>4, <3>5, MovesOn
  <2>5. CASE event.kind = "capture-started"
    <3>1. x = Post(w, Event("capture.started", g))
      BY <1>6, <2>5 DEF ProcessEngineEvent, g
    <3>2. event.scope = "capture"
      BY <2>5 DEF Honest
    <3> QED BY <2>1, <3>1, <3>2, CaptureEventsKnown, Posted
  <2>6. CASE event.kind = "capture-stopped"
    <3> DEFINE v == [w EXCEPT !.runtime.spectrum = FALSE]
    <3>1. x = Post(v, Event("capture.stopped", g))
      BY <1>6, <2>6 DEF ProcessEngineEvent, g
    <3>2. event.scope = "capture"
      BY <2>6 DEF Honest
    <3>3. Moves(w, v)
      BY FieldsMove
    <3> HIDE DEF v
    <3> QED BY <2>1, <3>1, <3>2, <3>3, CaptureEventsKnown, PostsOn
  <2>7. CASE event.kind = "connection"
    <3>1. x = ConnectionEvent(w, event.token, event.connected, g)
      BY <1>6, <2>7 DEF ProcessEngineEvent, g
    <3>2. event.scope = "stream" /\ event.scope \in Scope
      BY <2>7 DEF Honest, Scope
    <3> QED BY <2>1, <3>1, <3>2, ConnectionEventMoves
  <2>8. CASE event.kind = "opus-bitrate-changed"
    <3>1. x = BitrateChanged(w, event.token, event.new_bps, g)
      BY <1>6, <2>8 DEF ProcessEngineEvent, g
    <3>2. event.scope = "stream" /\ event.scope \in Scope /\ event.new_bps \in Bitrate
      BY <2>8 DEF Honest, Scope
    <3> QED BY <2>1, <3>1, <3>2, BitrateChangedMoves
  <2>9. CASE event.kind = "recording-rotated"
    <3>1. x = RecordingRotated(w, event, g)
      BY <1>6, <2>9 DEF ProcessEngineEvent, g
    <3>2. /\ event.scope = "recording" /\ event.scope \in Scope
          /\ event.old \in Token /\ event.new \in Token
      BY <2>9 DEF Honest, Scope
    <3> QED BY <2>1, <3>1, <3>2, RecordingRotatedMoves
  <2>10. CASE event.kind = "error"
    <3>1. x = ErrorEvent(w, event, g)
      BY <1>6, <2>10 DEF ProcessEngineEvent, g
    <3>2. event.scope \in Scope \cup {"capture"}
      BY <1>6, <2>10 DEF Honest, Scope, E!Kind
    <3> QED BY <2>1, <3>1, <3>2, ErrorEventMoves
  <2>11. CASE /\ event.kind \notin {"branch-created", "branch-added", "capture-started",
                                    "capture-stopped", "connection",
                                    "opus-bitrate-changed", "recording-rotated", "error"}
              /\ ~(event.kind = "branch-removed" /\ event.scope \in Scope)
    <3>1. x = w
      BY <1>6, <2>11 DEF ProcessEngineEvent, g
    <3> QED BY <3>1, NoMove
  <2> QED BY <2>2, <2>3, <2>4, <2>5, <2>6, <2>7, <2>8, <2>9, <2>10, <2>11
<1> QED BY <1>3, <1>4, <1>5, <1>6

LEMMA ReducesLater ==
  ASSUME NEW w, Shaped(w), NEW v, Reduces(w, v)
  PROVE  SP!Later(w.media, v.media)
<1>1. PICK e \in S!Event(w.media) : v.media = S!Reduce(w.media, e).state
  BY DEF Reduces
<1>2. e \in SP!Event(w.media) /\ S!Reduce(w.media, e) = SP!Reduce(w.media, e)
  BY SameEvent, SameReduce
<1>3. SP!Served(w.media, SP!Reduce(w.media, e))
  BY <1>2, Serves DEF Shaped, World
<1> QED BY <1>1, <1>2, <1>3 DEF SP!Served

(* A stream that is starting or running has been begun.                     *)
LEMMA LiveIsBegun ==
  ASSUME NEW m, SP!Good(m), SP!Alive(m), m.stream.state \in S!Live
  PROVE  m.stream.generation \in 1..m.stream.generation
<1>1. m.stream.generation # 0
  BY DEF SP!Alive, SP!Live, S!Live
<1> QED BY <1>1, Generations

LEMMA AttemptTimeoutMoves ==
  ASSUME Bounded, NEW w, Shaped(w), NEW work, NEW by, NEW o \in Outcomes
  PROVE  Moves(w, ProcessAttemptTimeout(w, work, by, o))
<1> DEFINE g == work.generation
           once == [w EXCEPT !.runtime.attempt = NoAttempt]
           off == [once EXCEPT !.runtime.attempt_due = FALSE]
           answered == IF work.live
                         THEN [w EXCEPT !.runtime =
                                 [@ EXCEPT !.attempt = NoAttempt, !.attempt_due = FALSE]]
                         ELSE w
           pending == [generation |-> g, instance |-> work.instance]
           timed == [answered EXCEPT !.runtime.timeout = pending]
           marked == [answered EXCEPT !.runtime.timeout = pending,
                        !.runtime.retiring = @ \cup {<<"stream", work.instance>>}]
           noted == [timed EXCEPT !.runtime.retiring = @ \cup {<<"stream", work.instance>>}]
           x == ProcessAttemptTimeout(w, work, by, o)
<1>1. \/ x = answered
      \/ /\ Connecting(w.media) /\ w.media.stream.generation = g
         /\ x = Invoke(marked, by, o, "connection.timeout_stop", g)
  BY DEF ProcessAttemptTimeout
<1>2. answered = w \/ answered = off
  OBVIOUS
<1>3. marked = noted
  OBVIOUS
<1> HIDE DEF x, marked
<1>4. Moves(w, once)
  BY FieldsMove
<1> HIDE DEF once
<1>5. Moves(once, off)
  BY <1>4, FieldsMove DEF Moves
<1> HIDE DEF off, answered
<1>6. Moves(w, answered)
  BY <1>2, <1>4, <1>5, MovesOn, NoMove
<1>7. Moves(answered, timed)
  BY <1>6, FieldsMove DEF Moves
<1> HIDE DEF timed
<1>8. Moves(timed, noted)
  BY <1>7, FieldsMove DEF Moves
<1> HIDE DEF noted
<1>9. Moves(w, marked)
  BY <1>3, <1>6, <1>7, <1>8, MovesOn
<1>10. ASSUME Connecting(w.media), w.media.stream.generation = g,
              x = Invoke(marked, by, o, "connection.timeout_stop", g)
       PROVE  Moves(w, x)
  <2>1. g \in 1..w.media.stream.generation
    BY <1>10, LiveIsBegun DEF Connecting, Shaped, World
  <2>2. Begun(marked.media, "connection.timeout_stop", g)
    BY <1>9, <2>1 DEF Begun, Of, Moves
  <2>3. "connection.timeout_stop" \in Calls /\ "connection.timeout_stop" \in Raising
    BY DEF Calls, Raising
  <2>4. Shaped(marked)
    BY <1>9 DEF Moves
  <2>5. Moves(marked, x)
    BY <1>10, <2>2, <2>3, <2>4, InvokeMoves
  <2> QED BY <1>9, <2>5, MovesOn
<1>11. Moves(w, x)
  BY <1>1, <1>6, <1>10
<1> QED BY <1>11 DEF x

LEMMA AskSpectrumMoves ==
  ASSUME Bounded, NEW w, Shaped(w), NEW on \in BOOLEAN, NEW by, NEW o \in Outcomes
  PROVE  Moves(w, AskSpectrum(w, on, by, o))
<1> DEFINE added == Added(w.engine, o)
           e == E!SetSpectrumActive(w.engine, on, added)
           asked == Operated(w, e)
           lit == on /\ e.active["spectrum"] # 0
           now == [asked EXCEPT !.runtime.spectrum = lit]
           source == [src |-> "spectrum", on |-> on]
           waits == [w EXCEPT !.runtime.awaiting = TRUE]
           later == [waits EXCEPT !.idle = Append(@, source)]
           x == AskSpectrum(w, on, by, o)
<1>1. x = IF by = "owner" THEN now ELSE later
  BY DEF AskSpectrum
<1>2. added \in BOOLEAN /\ (added => Len(w.engine.branches) < MaxBranch)
  BY Room DEF Added, Outcomes, Shaped, World
<1> HIDE DEF x, added
<1>3. Grows(w.engine, e)
  BY <1>2, SpectrumSized DEF Shaped, World
<1> HIDE DEF e
<1>4. Moves(w, asked)
  BY <1>3, OperatedMoves
<1> HIDE DEF asked, lit
<1>5. Moves(asked, now)
  BY <1>4, FieldsMove DEF Moves
<1> HIDE DEF now
<1>6. Moves(w, waits)
  BY FieldsMove
<1> HIDE DEF waits
<1>7. SourceOk(waits.media, waits.engine, source)
  BY DEF SourceOk
<1> HIDE DEF source
<1>8. Moves(waits, later)
  BY <1>6, <1>7, Deferred DEF Moves
<1> HIDE DEF later
<1>9. Moves(w, x)
  BY <1>1, <1>4, <1>5, <1>6, <1>8, MovesOn
<1> QED BY <1>9 DEF x

LEMMA SpectrumLeaseMoves ==
  ASSUME Bounded, NEW w, Shaped(w), NEW on \in BOOLEAN, NEW by, NEW o \in Outcomes
  PROVE  Moves(w, ProcessSpectrumLease(w, on, by, o))
<1> DEFINE cancelled == CancelLease(w)
           armed == [cancelled EXCEPT !.runtime.lease = "armed"]
           leased == IF on THEN armed ELSE cancelled
<1>1. ProcessSpectrumLease(w, on, by, o) \in {leased, AskSpectrum(leased, on, by, o)}
  BY DEF ProcessSpectrumLease
<1>2. Moves(w, cancelled)
  BY CancelLeaseMoves
<1> HIDE DEF cancelled
<1>3. Moves(cancelled, armed)
  BY <1>2, FieldsMove DEF Moves
<1> HIDE DEF armed
<1>4. Moves(w, leased)
  BY <1>2, <1>3, MovesOn
<1> HIDE DEF leased
<1>5. Moves(leased, AskSpectrum(leased, on, by, o))
  BY <1>4, AskSpectrumMoves DEF Moves
<1> QED BY <1>1, <1>4, <1>5, MovesOn

(* Work put before the rest.                                                *)
LEMMA Preceded ==
  ASSUME NEW w, Shaped(w), NEW work, WorkOk(w.media, work)
  PROVE  Moves(w, [w EXCEPT !.queue = <<work>> \o @])
<1> DEFINE q == <<work>> \o w.queue
           v == [w EXCEPT !.queue = <<work>> \o @]
<1>1. /\ DOMAIN v = WorldFields /\ v.media = w.media /\ v.effects = w.effects
      /\ v.runtime = w.runtime /\ v.engine = w.engine /\ v.queue = q /\ v.idle = w.idle
  BY DEF Shaped, WorldFields
<1>2. Sequential(<<work>>) /\ Elements(<<work>>) = {work}
  <2>1. <<work>> \in Seq({work})
    OBVIOUS
  <2>2. DOMAIN <<work>> = {1} /\ <<work>>[1] = work
    OBVIOUS
  <2> QED BY <2>1, <2>2 DEF Sequential, Elements
<1>3. Sequential(q) /\ Elements(q) \subseteq {work} \cup Elements(w.queue)
  BY <1>2, JoinedElements DEF Shaped, World
<1> HIDE DEF v, q
<1>4. World(v)
  BY <1>1, <1>3 DEF Shaped, World
<1> QED BY <1>1, <1>4 DEF Moves, Shaped, v, q

-----------------------------------------------------------------------------
(* The updates of the configuration.                                        *)
LEMMA UpdateMoves ==
  ASSUME NEW w, Shaped(w), NEW u, UpdateOk(w.media, u)
  PROVE  Moves(w, [w EXCEPT !.runtime.update = u])
<1> DEFINE r == [w.runtime EXCEPT !.update = u]
<1>1. /\ DOMAIN r = RuntimeFields /\ r.mapping = w.runtime.mapping
      /\ r.instance = w.runtime.instance /\ r.update = u
      /\ r.reconnect = w.runtime.reconnect /\ r.storage = w.runtime.storage
      /\ r.config = w.runtime.config
  BY DEF Shaped, World, RuntimeOk, RuntimeFields
<1> HIDE DEF r
<1>2. RuntimeOk(w.media, r)
  BY <1>1 DEF Shaped, World, RuntimeOk
<1>3. Moves(w, [w EXCEPT !.runtime = r])
  BY <1>2, RuntimeSet
<1> QED BY <1>3 DEF r

(* The stage and the answer of an update, if there is one.                  *)
LEMMA StagesOk ==
  ASSUME NEW m, NEW u, UpdateOk(m, u)
  PROVE  /\ \A a : UpdateOk(m, [u EXCEPT !.answer = a])
         /\ \A a : \A stage \in UpdateStage :
              UpdateOk(m, [u EXCEPT !.stage = stage, !.answer = a]) \/ u = NoUpdate
<1>1. CASE u = NoUpdate
  <2>1. \A a : [u EXCEPT !.answer = a] = u
    BY <1>1 DEF NoUpdate
  <2> QED BY <1>1, <2>1
<1>2. CASE u # NoUpdate
  <2>1. /\ DOMAIN u = {"stage", "answer", "to", "applies"}
        /\ u.stage \in UpdateStage /\ u.to \in Settings /\ u.applies \in BOOLEAN
        /\ u.applies => Applicable(m)
    BY <1>2 DEF UpdateOk
  <2>2. ASSUME NEW a PROVE UpdateOk(m, [u EXCEPT !.answer = a])
    BY <2>1 DEF UpdateOk
  <2>3. ASSUME NEW a, NEW stage \in UpdateStage
        PROVE  UpdateOk(m, [u EXCEPT !.stage = stage, !.answer = a])
    BY <2>1 DEF UpdateOk
  <2> QED BY <2>2, <2>3
<1> QED BY <1>1, <1>2

LEMMA AnswerMoves ==
  ASSUME NEW w, Shaped(w), NEW a
  PROVE  Moves(w, [w EXCEPT !.runtime.update.answer = a])
<1> DEFINE u == [w.runtime.update EXCEPT !.answer = a]
<1>1. UpdateOk(w.media, u)
  BY StagesOk DEF Shaped, World, RuntimeOk
<1>2. [w EXCEPT !.runtime.update.answer = a] = [w EXCEPT !.runtime.update = u]
  OBVIOUS
<1> HIDE DEF u
<1> QED BY <1>1, <1>2, UpdateMoves

LEMMA TakeSettingsMoves ==
  ASSUME NEW w, Shaped(w), NEW settings
  PROVE  Moves(w, TakeSettings(w, settings))
<1> DEFINE applied == [w EXCEPT !.runtime.applied = settings]
           done == [applied EXCEPT !.runtime.update.answer = "done"]
           failed == [w EXCEPT !.runtime.update.answer = "failed"]
           both == [w EXCEPT !.runtime.applied = settings,
                             !.runtime.update.answer = "done"]
<1>1. TakeSettings(w, settings) \in {failed, both}
  BY DEF TakeSettings
<1>2. both = done
  OBVIOUS
<1>3. Moves(w, failed)
  BY AnswerMoves
<1>4. Moves(w, applied)
  BY FieldsMove
<1> HIDE DEF applied, failed, both
<1>5. Moves(applied, done)
  BY <1>4, AnswerMoves DEF Moves
<1> HIDE DEF done
<1> QED BY <1>1, <1>2, <1>3, <1>4, <1>5, MovesOn

LEMMA TakeBitrateMoves ==
  ASSUME NEW w, Shaped(w), NEW bps \in Bitrate, NEW o
  PROVE  Moves(w, TakeBitrate(w, bps, o))
<1> DEFINE set == Operated(w, E!SetBitrate(w.engine, bps))
           done == [set EXCEPT !.runtime.update.answer = "done"]
           failed == [w EXCEPT !.runtime.update.answer = "failed"]
<1>1. TakeBitrate(w, bps, o) \in {failed, done}
  BY DEF TakeBitrate
<1>2. Moves(w, failed)
  BY AnswerMoves
<1> HIDE DEF failed
<1>3. Grows(w.engine, E!SetBitrate(w.engine, bps))
  BY SetBitrateSized DEF Shaped, World
<1>4. Moves(w, set)
  BY <1>3, OperatedMoves
<1> HIDE DEF set
<1>5. Moves(set, done)
  BY <1>4, AnswerMoves DEF Moves
<1> HIDE DEF done
<1> QED BY <1>1, <1>2, <1>4, <1>5, MovesOn

Setting(c) ==
  /\ c.src = "setting"
  /\ c.asks = "config" => c.settings \in Settings
  /\ c.asks # "config" => c.bps \in Bitrate

LEMMA AnswerUpdateMoves ==
  ASSUME NEW w, Shaped(w), NEW c, Setting(c), NEW o
  PROVE  Moves(w, AnswerUpdate(w, c, o))
BY TakeSettingsMoves, TakeBitrateMoves DEF Setting, AnswerUpdate

LEMMA AskUpdateMoves ==
  ASSUME NEW w, Shaped(w), w.runtime.update # NoUpdate, NEW stage \in UpdateStage,
         NEW c, Setting(c), NEW by, NEW o
  PROVE  Moves(w, AskUpdate(w, stage, c, by, o))
<1> DEFINE u == [w.runtime.update EXCEPT !.stage = stage, !.answer = "pending"]
           asked == [w EXCEPT !.runtime.update = u]
           queued == [asked EXCEPT !.idle = Append(@, c)]
<1>1. AskUpdate(w, stage, c, by, o) =
        IF by = "owner" THEN AnswerUpdate(asked, c, o) ELSE queued
  <2>1. "runtime" \in DOMAIN w /\ "update" \in DOMAIN w.runtime
    BY DEF Shaped, World, RuntimeOk, WorldFields, RuntimeFields
  <2> DEFINE staged == [w.runtime.update EXCEPT !.stage = stage]
             half == [w EXCEPT !.runtime.update = staged]
  <2>2. half.runtime.update = staged /\ DOMAIN half.runtime = DOMAIN w.runtime
    BY <2>1
  <2>3. [half EXCEPT !.runtime.update.answer = "pending"]
          = [half EXCEPT !.runtime.update = [staged EXCEPT !.answer = "pending"]]
    BY <2>2
  <2>4. u = [staged EXCEPT !.answer = "pending"]
    OBVIOUS
  <2>5. [w EXCEPT !.runtime.update.stage = stage] = half
    OBVIOUS
  <2> HIDE DEF u, staged
  <2>6. [half EXCEPT !.runtime.update = u] = asked
    BY <2>1
  <2> HIDE DEF half
  <2>7. [half EXCEPT !.runtime.update.answer = "pending"] = asked
    BY <2>3, <2>4, <2>6
  <2>8. [w EXCEPT !.runtime.update.stage = stage, !.runtime.update.answer = "pending"]
          = [[w EXCEPT !.runtime.update.stage = stage] EXCEPT !.runtime.update.answer = "pending"]
    OBVIOUS
  <2>9. [w EXCEPT !.runtime.update.stage = stage, !.runtime.update.answer = "pending"] = asked
    BY <2>5, <2>7, <2>8
  <2> DEFINE x == [w EXCEPT !.runtime.update.stage = stage, !.runtime.update.answer = "pending"]
  <2>10. AskUpdate(w, stage, c, by, o) =
           IF by = "owner" THEN AnswerUpdate(x, c, o) ELSE [x EXCEPT !.idle = Append(@, c)]
    BY DEF AskUpdate
  <2>11. x = asked
    BY <2>9
  <2> HIDE DEF x, asked
  <2> QED BY <2>10, <2>11
<1>2. UpdateOk(w.media, u)
  BY StagesOk DEF Shaped, World, RuntimeOk
<1> HIDE DEF u
<1>3. Moves(w, asked)
  BY <1>2, UpdateMoves
<1> HIDE DEF asked
<1>4. Moves(asked, AnswerUpdate(asked, c, o))
  BY <1>3, AnswerUpdateMoves DEF Moves
<1>5. SourceOk(asked.media, asked.engine, c)
  BY DEF SourceOk, Setting
<1>6. Moves(asked, queued)
  BY <1>3, <1>5, Deferred DEF Moves
<1> HIDE DEF queued
<1> QED BY <1>1, <1>3, <1>4, <1>6, MovesOn

LEMMA ConfigUpdateMoves ==
  ASSUME NEW w, Shaped(w), NEW to \in Settings, NEW by, NEW o
  PROVE  Moves(w, ProcessConfigUpdate(w, to, by, o))
<1> DEFINE u == [stage |-> "config", answer |-> "pending", to |-> to,
                 applies |-> AppliesBitrate(w, to)]
           begun == [w EXCEPT !.runtime.update = u]
           c == ConfigCall(to)
           x == ProcessConfigUpdate(w, to, by, o)
<1>1. x = IF RefusesUpdate(w, to) THEN w ELSE AskUpdate(begun, "config", c, by, o)
  BY DEF ProcessConfigUpdate
<1>2. CASE ~RefusesUpdate(w, to)
  <2>1. AppliesBitrate(w, to) => Applicable(w.media)
    BY <1>2 DEF RefusesUpdate, AppliesBitrate, Applicable
  <2>2. AppliesBitrate(w, to) \in BOOLEAN
    BY DEF AppliesBitrate
  <2>3. UpdateOk(w.media, u) /\ u # NoUpdate
    <3>1. DOMAIN u = {"stage", "answer", "to", "applies"} /\ u.stage = "config"
      OBVIOUS
    <3>2. u # NoUpdate
      BY <3>1 DEF NoUpdate
    <3>3. UpdateOk(w.media, u)
      BY <2>1, <2>2, <3>1 DEF UpdateOk, UpdateStage
    <3> QED BY <3>2, <3>3
  <2>4. begun.runtime.update = u
    BY DEF Shaped, World, WorldFields, RuntimeOk, RuntimeFields
  <2>5. Setting(c) /\ "config" \in UpdateStage
    BY DEF Setting, ConfigCall, UpdateStage
  <2> HIDE DEF u, c
  <2>6. Moves(w, begun)
    BY <2>3, UpdateMoves
  <2> HIDE DEF begun
  <2>7. Moves(begun, AskUpdate(begun, "config", c, by, o))
    BY <2>3, <2>4, <2>5, <2>6, AskUpdateMoves DEF Moves
  <2> QED BY <1>1, <1>2, <2>6, <2>7, MovesOn
<1> QED BY <1>1, <1>2, NoMove

-----------------------------------------------------------------------------
LEMMA StatsMove ==
  ASSUME Bounded, NEW w, Shaped(w), w.runtime.update = NoUpdate, NEW work, NEW by,
         NEW o \in Outcomes
  PROVE  \/ Moves(w, ProcessStats(w, work, by, o))
         \/ Reduces(w, ProcessStats(w, work, by, o))
<1> DEFINE g == work.generation
           polled == [w EXCEPT !.runtime.stats_inflight = FALSE]
           event == Event("connection.stats", g)
           sampled == ApplyStateEvent(polled, event, by, o)
           first == StateWork(Event("connection.connected", g), "none")
           sent == [sampled EXCEPT !.queue = <<first>> \o @]
           x == ProcessStats(w, work, by, o)
<1>1. \/ x = polled
      \/ /\ w.media.stream.state \in S!Live /\ g = w.media.stream.generation
         /\ x \in {sampled, sent}
  BY DEF ProcessStats
<1>2. Moves(w, polled) /\ polled.runtime.update = NoUpdate
  <2>1. polled.runtime.update = NoUpdate
    BY DEF Shaped, World, WorldFields, RuntimeOk, RuntimeFields
  <2> QED BY <2>1, FieldsMove
<1> HIDE DEF x, polled
<1>3. ASSUME w.media.stream.state \in S!Live, g = w.media.stream.generation,
             x \in {sampled, sent}
      PROVE  Reduces(w, x)
  <2>1. g \in 1..w.media.stream.generation
    BY <1>3, LiveIsBegun DEF Shaped, World
  <2>2. event \in S!Event(polled.media)
    BY <1>2, <2>1, StreamEventsKnown DEF Moves
  <2>3. ~Unprepared(polled, event)
    BY DEF Unprepared, Event
  <2> HIDE DEF event
  <2>4. Reduces(polled, sampled)
    BY <1>2, <2>2, <2>3, ApplyReduces DEF Moves
  <2> HIDE DEF sampled
  <2>5. Reduces(w, sampled) /\ Shaped(sampled)
    BY <1>2, <2>4 DEF Reduces, Moves
  <2>6. WorkOk(sampled.media, first)
    <3>1. Event("connection.connected", g) \in S!Event(w.media)
      BY <2>1, StreamEventsKnown
    <3>2. SP!Later(w.media, sampled.media)
      BY <2>5, ReducesLater
    <3>3. Event("connection.connected", g) \in S!Event(sampled.media)
      BY <2>5, <3>1, <3>2, EventsStayKnown DEF Shaped, World
    <3> QED BY <3>3, StateWorkOk
  <2> HIDE DEF first
  <2>7. Moves(sampled, sent)
    BY <2>5, <2>6, Preceded
  <2> HIDE DEF sent
  <2> QED BY <1>3, <2>5, <2>7, ReducesOn
<1> QED BY <1>1, <1>2, <1>3 DEF x

LEMMA ProcessMoves ==
  ASSUME Bounded, NEW w, Shaped(w), w.runtime.update = NoUpdate,
         NEW work, WorkOk(w.media, work), NEW by, NEW o \in Outcomes
  PROVE  Moves(w, Process(w, work, by, o)) \/ Reduces(w, Process(w, work, by, o))
<1> DEFINE x == Process(w, work, by, o)
<1>1. CASE work.kind = "state"
  <2>1. x = ApplyStateEvent(w, work.event, by, o)
    BY <1>1 DEF Process
  <2>2. work.event \in S!Event(w.media)
    BY <1>1 DEF WorkOk
  <2> QED BY <2>1, <2>2, ApplyReduces, NoMove
<1>2. CASE work.kind = "result"
  BY <1>2, ProcessResultMoves DEF Process
<1>3. CASE work.kind = "failure"
  BY <1>3, ProcessFailureMoves DEF Process
<1>4. CASE work.kind = "engine_event"
  <2>1. x = ProcessEngineEvent(w, work.event)
    BY <1>4 DEF Process
  <2>2. Honest(work.event)
    BY <1>4 DEF WorkOk
  <2> QED BY <2>1, <2>2, ProcessEngineEventMoves
<1>5. CASE work.kind = "attempt_timeout"
  BY <1>5, AttemptTimeoutMoves DEF Process
<1>6. CASE work.kind = "stats"
  BY <1>6, StatsMove DEF Process
<1>7. CASE work.kind = "lease"
  <2>1. x = ProcessSpectrumLease(w, work.on, by, o)
    BY <1>7 DEF Process
  <2>2. work.on \in BOOLEAN
    BY <1>7 DEF WorkOk
  <2> QED BY <2>1, <2>2, SpectrumLeaseMoves
<1>8. CASE work.kind = "lease_expired"
  <2>1. x = ProcessLeaseExpired(w, work, by, o)
    BY <1>8 DEF Process
  <2>2. x \in {w, ProcessSpectrumLease(w, FALSE, by, o)}
    BY <2>1 DEF ProcessLeaseExpired
  <2> QED BY <2>2, SpectrumLeaseMoves, NoMove
<1>9. CASE work.kind = "config_update"
  <2>1. x = ProcessConfigUpdate(w, work.to, by, o)
    BY <1>9 DEF Process
  <2>2. work.to \in Settings
    BY <1>9 DEF WorkOk
  <2> QED BY <2>1, <2>2, ConfigUpdateMoves
<1> QED BY <1>1, <1>2, <1>3, <1>4, <1>5, <1>6, <1>7, <1>8, <1>9 DEF WorkOk

-----------------------------------------------------------------------------
(* A configuration that comes into force.                                   *)
Settles(w, v) ==
  /\ Shaped(v) /\ v.effects = <<>> /\ v.runtime.config \in Settings
  /\ \E applies \in BOOLEAN :
       /\ v.media = Reconfigured(w.media, v.runtime.config, applies)
       /\ applies => Applicable(w.media)

LEMMA RevisedParts ==
  ASSUME NEW m \in SP!MediaRecord, NEW to \in Settings
  PROVE  /\ Revised(m.capture, to) \in SP!CaptureRecord
         /\ Revised(m.stream, to) \in SP!StreamRecord
         /\ Revised(m.recording, to) \in SP!RecordingRecord
<1>1. /\ m.capture \in SP!CaptureRecord /\ m.stream \in SP!StreamRecord
      /\ m.recording \in SP!RecordingRecord
  BY DEF SP!MediaRecord
<1>2. Revised(m.capture, to) \in SP!CaptureRecord
  BY <1>1 DEF Revised, SP!CaptureRecord
<1>3. Revised(m.stream, to) \in SP!StreamRecord
  BY <1>1 DEF Revised, SP!StreamRecord
<1>4. Revised(m.recording, to) \in SP!RecordingRecord
  BY <1>1 DEF Revised, SP!RecordingRecord
<1> QED BY <1>2, <1>3, <1>4

(* It changes revisions and a bitrate, and no state or generation.          *)
LEMMA ReconfiguredParts ==
  ASSUME NEW m \in SP!MediaRecord, NEW to \in Settings, NEW applies \in BOOLEAN
  PROVE  LET n == Reconfigured(m, to, applies) IN
         /\ n \in SP!MediaRecord
         /\ n.service = m.service /\ n.connection = m.connection
         /\ n.capture.state = m.capture.state
         /\ n.capture.generation = m.capture.generation
         /\ n.stream.state = m.stream.state
         /\ n.stream.generation = m.stream.generation
         /\ n.stream.representation_id = m.stream.representation_id
         /\ n.stream.pending_opus_bitrate_bps = m.stream.pending_opus_bitrate_bps
         /\ n.stream.opus_bitrate_bps = IF applies THEN to.bitrate
                                                   ELSE m.stream.opus_bitrate_bps
         /\ \A field \in {"state", "generation", "stop_target", "warning", "last_error",
                           "current_file", "rotation_pending"} :
              n.recording[field] = m.recording[field]
<1> DEFINE stream == Revised(m.stream, to)
           set == [stream EXCEPT !.opus_bitrate_bps = to.bitrate]
           n == Reconfigured(m, to, applies)
<1>1. /\ m.capture \in SP!CaptureRecord /\ m.stream \in SP!StreamRecord
      /\ m.recording \in SP!RecordingRecord
  BY DEF SP!MediaRecord
<1>2. /\ Revised(m.capture, to) \in SP!CaptureRecord /\ stream \in SP!StreamRecord
      /\ Revised(m.recording, to) \in SP!RecordingRecord
  BY RevisedParts
<1>3. to.bitrate \in Bitrate
  BY DEF Settings
<1>4. /\ Revised(m.capture, to).state = m.capture.state
      /\ Revised(m.capture, to).generation = m.capture.generation
  BY <1>1 DEF Revised, SP!CaptureRecord
<1>5. /\ stream.state = m.stream.state /\ stream.generation = m.stream.generation
      /\ stream.representation_id = m.stream.representation_id
      /\ stream.pending_opus_bitrate_bps = m.stream.pending_opus_bitrate_bps
      /\ stream.opus_bitrate_bps = m.stream.opus_bitrate_bps
  BY <1>1 DEF Revised, SP!StreamRecord
<1>6. \A field \in {"state", "generation", "stop_target", "warning", "last_error",
                    "current_file", "rotation_pending"} :
        Revised(m.recording, to)[field] = m.recording[field]
  BY <1>1 DEF Revised, SP!RecordingRecord
<1>7. n = [m EXCEPT !.capture = Revised(m.capture, to),
                    !.recording = Revised(m.recording, to),
                    !.stream = IF applies THEN set ELSE stream]
  BY DEF Reconfigured
<1> HIDE DEF stream
<1>8. /\ set \in SP!StreamRecord /\ set.opus_bitrate_bps = to.bitrate
      /\ set.state = stream.state /\ set.generation = stream.generation
      /\ set.representation_id = stream.representation_id
      /\ set.pending_opus_bitrate_bps = stream.pending_opus_bitrate_bps
  BY <1>2, <1>3 DEF SP!StreamRecord
<1> HIDE DEF set, n
<1>9. /\ n \in SP!MediaRecord /\ n.service = m.service /\ n.connection = m.connection
      /\ n.capture = Revised(m.capture, to) /\ n.recording = Revised(m.recording, to)
      /\ n.stream = IF applies THEN set ELSE stream
  BY <1>2, <1>7, <1>8 DEF SP!MediaRecord
<1> QED BY <1>4, <1>5, <1>6, <1>8, <1>9 DEF n

LEMMA ReconfiguredServes ==
  ASSUME NEW m, SP!Good(m), SP!Alive(m), NEW to \in Settings, NEW applies \in BOOLEAN,
         applies => Applicable(m)
  PROVE  /\ SP!Good(Reconfigured(m, to, applies))
         /\ SP!Alive(Reconfigured(m, to, applies))
         /\ SP!Later(m, Reconfigured(m, to, applies))
<1> DEFINE n == Reconfigured(m, to, applies)
<1>1. /\ m \in SP!MediaRecord /\ SP!SourceHeld(m) /\ SP!RetryCoherent(m)
      /\ SP!RecordingCoherent(m) /\ SP!BitrateCoherent(m)
      /\ SP!Waiting(m) /\ SP!Quiet(m)
  BY DEF SP!Good, SP!Coherent
<1>2. /\ n \in SP!MediaRecord
      /\ n.service = m.service /\ n.connection = m.connection
      /\ n.capture.state = m.capture.state
      /\ n.capture.generation = m.capture.generation
      /\ n.stream.state = m.stream.state
      /\ n.stream.generation = m.stream.generation
      /\ n.stream.representation_id = m.stream.representation_id
      /\ n.stream.pending_opus_bitrate_bps = m.stream.pending_opus_bitrate_bps
      /\ n.stream.opus_bitrate_bps = IF applies THEN to.bitrate
                                                ELSE m.stream.opus_bitrate_bps
  BY <1>1, ReconfiguredParts
<1>3. /\ n.recording.state = m.recording.state
      /\ n.recording.generation = m.recording.generation
      /\ n.recording.stop_target = m.recording.stop_target
      /\ n.recording.warning = m.recording.warning
      /\ n.recording.last_error = m.recording.last_error
      /\ n.recording.current_file = m.recording.current_file
      /\ n.recording.rotation_pending = m.recording.rotation_pending
  BY <1>1, ReconfiguredParts
<1> HIDE DEF n
<1>4. SP!SourceHeld(n)
  BY <1>1, <1>2, <1>3 DEF SP!SourceHeld
<1>5. SP!RetryCoherent(n)
  BY <1>1, <1>2 DEF SP!RetryCoherent
<1>6. SP!RecordingCoherent(n)
  BY <1>1, <1>3 DEF SP!RecordingCoherent
<1>7. SP!BitrateCoherent(n)
  <2>1. CASE applies
    <3>1. n.stream.pending_opus_bitrate_bps = 0
      BY <1>2, <2>1 DEF Applicable
    <3> QED BY <3>1 DEF SP!BitrateCoherent
  <2>2. CASE ~applies
    BY <1>1, <1>2, <2>2 DEF SP!BitrateCoherent
  <2> QED BY <2>1, <2>2
<1>8. SP!Waiting(n) /\ SP!Quiet(n)
  BY <1>1, <1>2, <1>3 DEF SP!Waiting, SP!Quiet, SP!BranchStates
<1>9. SP!Good(n)
  BY <1>2, <1>4, <1>5, <1>6, <1>7, <1>8 DEF SP!Good, SP!Coherent
<1>10. SP!Alive(n)
  BY <1>2, <1>3 DEF SP!Alive
<1>11. SP!Later(m, n)
  BY <1>2, <1>3, Generations DEF SP!Later
<1> QED BY <1>9, <1>10, <1>11 DEF n

LEMMA InForceSettles ==
  ASSUME NEW w, Shaped(w), w.runtime.update # NoUpdate
  PROVE  Settles(w, InForce(w))
<1> DEFINE u == w.runtime.update
           n == Reconfigured(w.media, u.to, u.applies)
           x == InForce(w)
           r == [w.runtime EXCEPT !.config = u.to, !.update = NoUpdate]
           q == x.runtime
<1>1. /\ u.to \in Settings /\ u.applies \in BOOLEAN /\ (u.applies => Applicable(w.media))
  BY DEF Shaped, World, RuntimeOk, UpdateOk
<1>2. /\ DOMAIN x = WorldFields /\ x.media = n /\ x.effects = <<>>
      /\ x.engine = w.engine /\ x.queue = w.queue /\ x.idle = w.idle
  BY DEF Shaped, WorldFields, InForce
<1>3. /\ DOMAIN q = RuntimeFields /\ q.mapping = w.runtime.mapping
      /\ q.instance = w.runtime.instance
      /\ q.reconnect = w.runtime.reconnect /\ q.storage = w.runtime.storage
      /\ q.config = u.to /\ q.update = NoUpdate
  BY DEF Shaped, World, WorldFields, RuntimeOk, RuntimeFields, InForce
<1> HIDE DEF x, u
<1>4. /\ SP!Good(w.media) /\ SP!Good(n) /\ SP!Alive(n) /\ SP!Later(w.media, n)
  BY <1>1, ReconfiguredServes DEF Shaped, World
<1> HIDE DEF n
<1>5. RuntimeOk(w.media, q)
  BY <1>1, <1>3 DEF Shaped, World, RuntimeOk, UpdateOk
<1>6. RuntimeOk(n, q)
  BY <1>3, <1>4, <1>5, LaterKeeps
<1>7. \A work \in Elements(x.queue) : WorkOk(n, work)
  BY <1>2, <1>4, LaterKeeps DEF Shaped, World
<1>8. \A s \in Elements(x.idle) : SourceOk(n, x.engine, s)
  BY <1>2, <1>4, LaterKeeps DEF Shaped, World
<1>9. x.effects \in Seq(SP!Effect)
  BY <1>2, EmptySeq
<1>10. Shaped(x)
  BY <1>2, <1>4, <1>6, <1>7, <1>8, <1>9 DEF Shaped, World
<1>11. /\ x.runtime.config = u.to
       /\ x.media = Reconfigured(w.media, x.runtime.config, u.applies)
  BY <1>2, <1>3 DEF n
<1> QED BY <1>1, <1>2, <1>10, <1>11 DEF Settles, x

(* What a step does of all this.                                            *)
Acts(w, v) == Moves(w, v) \/ Reduces(w, v) \/ Settles(w, v)

LEMMA ActsOn ==
  ASSUME NEW w, NEW v, Moves(w, v), NEW x, Acts(v, x)
  PROVE  Acts(w, x)
BY DEF Acts, Moves, Reduces, Settles

LEMMA InTurnActs ==
  ASSUME NEW w, NEW v, Acts(w, v), NEW before
  PROVE  Acts(w, InTurn(before, v))
<1> DEFINE x == [v EXCEPT !.runtime.amiss = @ \cup {"overtaken"}]
<1>1. InTurn(before, v) \in {v, x}
  BY DEF InTurn
<1>2. Shaped(v)
  BY DEF Acts, Moves, Reduces, Settles
<1>3. x = [v EXCEPT !.runtime.amiss = v.runtime.amiss \cup {"overtaken"}]
  OBVIOUS
<1>4. x.runtime.config = v.runtime.config
  BY <1>2 DEF Shaped, World, WorldFields, RuntimeOk, RuntimeFields
<1> HIDE DEF x
<1>5. Moves(v, x)
  BY <1>2, <1>3, FieldsMove
<1>6. Acts(w, x)
  <2>1. CASE Moves(w, v)
    BY <1>5, <2>1, MovesOn DEF Acts
  <2>2. CASE Reduces(w, v)
    BY <1>5, <2>2, ReducesOn DEF Acts
  <2>3. CASE Settles(w, v)
    BY <1>4, <1>5, <2>3 DEF Acts, Settles, Moves
  <2> QED BY <2>1, <2>2, <2>3 DEF Acts
<1> QED BY <1>1, <1>6

LEMMA NextOfUpdateActs ==
  ASSUME NEW w, Shaped(w), w.runtime.update # NoUpdate, NEW by, NEW o
  PROVE  Acts(w, NextOfUpdate(w, by, o))
<1> DEFINE u == w.runtime.update
           done == u.answer = "done"
           old == ConfigCall(w.runtime.config)
           bps == w.media.stream.opus_bitrate_bps
           noted == [w EXCEPT !.runtime.amiss = @ \cup {"not_undone"}]
           marked == IF done THEN w ELSE noted
           over == [marked EXCEPT !.runtime.update = NoUpdate]
           x == NextOfUpdate(w, by, o)
<1>1. u.stage \in UpdateStage /\ u.to \in Settings /\ w.runtime.config \in Settings
  BY DEF Shaped, World, RuntimeOk, UpdateOk
<1>2. \/ x = InForce(w)
      \/ x = AskUpdate(w, "bitrate", BitrateCall(u.to.bitrate), by, o)
      \/ x = AskUpdate(w, "undo_config", old, by, o)
      \/ bps # 0 /\ x = AskUpdate(w, "undo_bitrate", BitrateCall(bps), by, o)
      \/ x = AskUpdate(marked, "undo_config", old, by, o)
      \/ x = over
  BY <1>1 DEF NextOfUpdate, UpdateStage
<1>3. Setting(old) /\ Setting(BitrateCall(u.to.bitrate))
  BY <1>1 DEF Setting, ConfigCall, BitrateCall, Settings
<1>4. bps # 0 => Setting(BitrateCall(bps))
  <2>1. w.media \in SP!MediaRecord
    BY DEF Shaped, World, SP!Good, SP!Coherent
  <2>2. bps \in Bitrate \cup {0}
    BY <2>1 DEF SP!MediaRecord, SP!StreamRecord
  <2> QED BY <2>2 DEF Setting, BitrateCall
<1>5. {"bitrate", "undo_config", "undo_bitrate"} \subseteq UpdateStage
  BY DEF UpdateStage
<1>6. Moves(w, noted) /\ noted.runtime.update = u
  <2>1. noted = [w EXCEPT !.runtime.amiss = w.runtime.amiss \cup {"not_undone"}]
    OBVIOUS
  <2>2. noted.runtime.update = u
    BY DEF Shaped, World, WorldFields, RuntimeOk, RuntimeFields
  <2> HIDE DEF noted
  <2> QED BY <2>1, <2>2, FieldsMove
<1> HIDE DEF noted, old, x
<1>7. Moves(w, marked) /\ marked.runtime.update # NoUpdate
  BY <1>6, NoMove
<1> HIDE DEF marked
<1>8. Moves(marked, over)
  BY <1>7, UpdateMoves DEF Moves, UpdateOk
<1> HIDE DEF over
<1>9. CASE x = AskUpdate(marked, "undo_config", old, by, o)
  <2>1. Moves(marked, x)
    BY <1>3, <1>5, <1>7, <1>9, AskUpdateMoves DEF Moves
  <2> QED BY <1>7, <2>1, MovesOn DEF Acts, x
<1>10. CASE x = over
  BY <1>7, <1>8, <1>10, MovesOn DEF Acts, x
<1>11. CASE x = InForce(w)
  BY <1>11, InForceSettles DEF Acts, x
<1>12. CASE \/ x = AskUpdate(w, "bitrate", BitrateCall(u.to.bitrate), by, o)
            \/ x = AskUpdate(w, "undo_config", old, by, o)
            \/ bps # 0 /\ x = AskUpdate(w, "undo_bitrate", BitrateCall(bps), by, o)
  <2>1. Moves(w, x)
    BY <1>3, <1>4, <1>5, <1>12, AskUpdateMoves
  <2> QED BY <2>1 DEF Acts, x
<1> QED BY <1>2, <1>9, <1>10, <1>11, <1>12

-----------------------------------------------------------------------------
(* The steps.                                                               *)
IInv == World(Now) /\ Bounded

Handled ==
  [ \/ UNCHANGED <<media, effects>>
    \/ ConfigurationInForce
    \/ \E e \in S!Event(media) : S!Handle(e) ]_<<media, effects>>

LEMMA NowShaped == ASSUME IInv PROVE Shaped(Now)
BY DEF IInv, Shaped, Now, WorldFields

LEMMA BecomeKeeps ==
  ASSUME IInv, scenario' = scenario, NEW w, NEW by, Become(w, by),
         Acts(Now, w)
  PROVE  IInv' /\ Handled
<1>1. /\ media' = w.media /\ effects' = w.effects /\ runtime' = w.runtime
      /\ engine' = w.engine /\ queue' = w.queue /\ idle' = w.idle
  BY DEF Become
<1>2. World(w)
  BY DEF Acts, Moves, Reduces, Settles, Shaped
<1>3. World(Now')
  BY <1>1, <1>2 DEF World, Now
<1>4. IInv'
  BY <1>3 DEF IInv, Bounded
<1>5. Now.media = media /\ Now.effects = effects
  BY DEF Now
<1>6. CASE Moves(Now, w)
  <2>1. media' = media /\ effects' = effects
    BY <1>1, <1>5, <1>6 DEF Moves
  <2> QED BY <1>4, <2>1 DEF Handled
<1>7. CASE Reduces(Now, w)
  <2>1. PICK e \in S!Event(media) : /\ w.media = S!Reduce(media, e).state
                                    /\ w.effects = S!Reduce(media, e).effects
    BY <1>5, <1>7 DEF Reduces
  <2>2. S!Handle(e)
    BY <1>1, <2>1 DEF S!Handle
  <2> QED BY <1>4, <2>2 DEF Handled
<1>8. CASE Settles(Now, w)
  <2>1. PICK applies \in BOOLEAN :
          /\ w.media = Reconfigured(media, w.runtime.config, applies)
          /\ applies => Applicable(media)
    BY <1>5, <1>8 DEF Settles
  <2>2. effects' = <<>> /\ media' = Reconfigured(media, runtime'.config, applies)
    BY <1>1, <1>8, <2>1 DEF Settles
  <2>3. ConfigurationInForce
    BY <2>1, <2>2 DEF ConfigurationInForce, Applicable
  <2> QED BY <1>4, <2>3 DEF Handled
<1> QED BY <1>6, <1>7, <1>8 DEF Acts

LEMMA MovesKeep ==
  ASSUME IInv, scenario' = scenario, NEW w, NEW by, Become(w, by), Moves(Now, w)
  PROVE  IInv' /\ Handled
BY BecomeKeeps DEF Acts

LEMMA FirstWork ==
  ASSUME IInv, queue # <<>>
  PROVE  /\ Moves(Now, [Now EXCEPT !.queue = Tail(@)])
         /\ WorkOk(media, Head(queue))
<1> DEFINE x == [Now EXCEPT !.queue = Tail(@)]
<1>1. /\ DOMAIN x = WorldFields /\ x.media = media /\ x.effects = effects
      /\ x.runtime = runtime /\ x.engine = engine /\ x.queue = Tail(queue)
      /\ x.idle = idle
  BY DEF Now, WorldFields
<1>2. /\ Now.media = media /\ Now.effects = effects
      /\ Now.runtime = runtime /\ Now.engine = engine /\ Now.queue = queue
      /\ Now.idle = idle
  BY DEF Now
<1> HIDE DEF x
<1>3. /\ Sequential(Tail(queue)) /\ Elements(Tail(queue)) \subseteq Elements(queue)
      /\ Head(queue) \in Elements(queue)
  BY <1>2, TailElements DEF IInv, World
<1>4. World(x)
  BY <1>1, <1>2, <1>3 DEF IInv, World
<1>5. WorkOk(media, Head(queue))
  BY <1>2, <1>3 DEF IInv, World
<1> QED BY <1>1, <1>2, <1>4, <1>5 DEF Moves, Shaped, x

LEMMA FirstSource ==
  ASSUME IInv, idle # <<>>
  PROVE  /\ Moves(Now, [Now EXCEPT !.idle = Tail(@)])
         /\ SourceOk(media, engine, Head(idle))
<1> DEFINE x == [Now EXCEPT !.idle = Tail(@)]
<1>1. /\ DOMAIN x = WorldFields /\ x.media = media /\ x.effects = effects
      /\ x.runtime = runtime /\ x.engine = engine /\ x.queue = queue
      /\ x.idle = Tail(idle)
  BY DEF Now, WorldFields
<1>2. /\ Now.media = media /\ Now.effects = effects
      /\ Now.runtime = runtime /\ Now.engine = engine /\ Now.queue = queue
      /\ Now.idle = idle
  BY DEF Now
<1> HIDE DEF x
<1>3. /\ Sequential(Tail(idle)) /\ Elements(Tail(idle)) \subseteq Elements(idle)
      /\ Head(idle) \in Elements(idle)
  BY <1>2, TailElements DEF IInv, World
<1>4. World(x)
  BY <1>1, <1>2, <1>3 DEF IInv, World
<1>5. SourceOk(media, engine, Head(idle))
  BY <1>2, <1>3 DEF IInv, World
<1> QED BY <1>1, <1>2, <1>4, <1>5 DEF Moves, Shaped, x

LEMMA OutcomesKnown ==
  ASSUME Bounded, NEW level \in scenario.level
  PROVE  /\ Good(level) \in Outcomes
         /\ \A trouble \in {"call", "storage"} :
              \A o \in Spoilt(Good(level))[trouble] : o \in Outcomes
<1>1. level \in BOOLEAN
  BY RuntimeAssumption DEF Bounded, Scenario
<1>2. Good(level) \in Outcomes
  BY <1>1 DEF Good, Outcomes
<1>3. \A o \in Spoilt(Good(level))["call"] : o \in Outcomes
  BY <1>2 DEF Spoilt, Outcomes
<1>4. \A o \in Spoilt(Good(level))["storage"] : o \in Outcomes
  BY <1>2 DEF Spoilt, Outcomes
<1> QED BY <1>2, <1>3, <1>4

LEMMA DrainKeeps ==
  ASSUME IInv, scenario' = scenario, Drain
  PROVE  IInv' /\ Handled
<1> DEFINE rest == [Now EXCEPT !.queue = Tail(@)]
           work == Head(queue)
           y(o) == InTurn(rest, Process(rest, work, drainer, o))
<1>1. \E o \in Outcomes : Become(y(o), drainer)
  BY OutcomesKnown DEF Drain, Outcome, IInv
<1>2. PICK o \in Outcomes : Become(y(o), drainer)
  BY <1>1
<1> DEFINE x == Process(rest, work, drainer, o)
<1>3. Moves(Now, rest) /\ WorkOk(media, work)
  BY FirstWork DEF Drain
<1>4. rest.media = media /\ rest.runtime.update = NoUpdate
  BY DEF Now, Drain, Midway
<1> HIDE DEF rest, work
<1>5. Moves(rest, x) \/ Reduces(rest, x)
  BY <1>3, <1>4, ProcessMoves DEF IInv, Moves
<1>6. y(o) = InTurn(rest, x)
  OBVIOUS
<1> HIDE DEF x, y
<1>7. Acts(Now, x)
  BY <1>3, <1>5, ActsOn DEF Acts
<1>8. Acts(Now, y(o))
  BY <1>6, <1>7, InTurnActs
<1> QED BY <1>2, <1>8, BecomeKeeps

LEMMA ContinueUpdateKeeps ==
  ASSUME IInv, scenario' = scenario, ContinueUpdate
  PROVE  IInv' /\ Handled
<1> DEFINE y(o) == InTurn(Now, NextOfUpdate(Now, drainer, o))
<1>1. \E o \in Outcomes : Become(y(o), drainer)
  BY OutcomesKnown DEF ContinueUpdate, Outcome, IInv
<1>2. PICK o \in Outcomes : Become(y(o), drainer)
  BY <1>1
<1>3. Now.runtime.update # NoUpdate
  BY DEF Now, ContinueUpdate
<1>4. Acts(Now, NextOfUpdate(Now, drainer, o))
  BY <1>3, NowShaped, NextOfUpdateActs
<1>5. Acts(Now, y(o))
  BY <1>4, InTurnActs
<1> HIDE DEF y
<1> QED BY <1>2, <1>5, BecomeKeeps

(* The commands are the reducer's.                                          *)
LEMMA CommandsKnown ==
  ASSUME IInv, NEW name \in scenario.commands \ {"lease.renew", "lease.release",
                                                 "stream.set_opus_bitrate",
                                                 "config.update"}
  PROVE  Command(name) \in S!Event(media)
<1> DEFINE to == runtime.config
<1>1. name \in {"capture.start", "capture.stop", "stream.start", "stream.stop",
                "recording.start", "recording.stop", "capture.restart",
                "service.shutdown"}
  BY RuntimeAssumption DEF IInv, Bounded, Scenario
<1>2. to \in Settings /\ to.bitrate \in Bitrate
  BY DEF IInv, World, Now, RuntimeOk, Settings
<1>3. CASE name \in {"capture.start", "capture.restart"}
  <2>1. Command(name) = [name |-> "capture.start", config_revision |-> to]
    BY <1>3 DEF Command
  <2> QED BY <1>2, <2>1 DEF S!Event, S!Command, S!RevisionEvent
<1>4. CASE name = "stream.start"
  <2>1. Command(name) = [name |-> "stream.start", config_revision |-> to,
                         representation_id |-> S!Opus, opus_bitrate_bps |-> to.bitrate]
    BY <1>4 DEF Command
  <2> HIDE DEF to
  <2> QED BY <1>2, <2>1 DEF S!Event, S!Command, S!Representation
<1>5. CASE name = "recording.start"
  <2>1. Command(name) = [name |-> "recording.start", config_revision |-> to,
                         storage_status |-> "safe"]
    BY <1>5 DEF Command
  <2> QED BY <1>2, <2>1 DEF S!Event, S!Command, S!StorageStatus
<1>6. CASE name \in {"capture.stop", "stream.stop", "recording.stop"}
  <2>1. Command(name) = [name |-> name]
    BY <1>6 DEF Command
  <2> QED BY <1>6, <2>1 DEF S!Event, S!Command, S!PlainEvent
<1>7. CASE name = "service.shutdown"
  <2>1. Command(name) = [name |-> name]
    BY <1>7 DEF Command
  <2> QED BY <1>7, <2>1 DEF S!Event, S!PlainEvent
<1> QED BY <1>1, <1>3, <1>4, <1>5, <1>6, <1>7

LEMMA CommandWorkOk ==
  ASSUME IInv, NEW name \in scenario.commands, NEW by, NEW work \in CommandWork(name, by)
  PROVE  WorkOk(media, work)
<1>1. scenario.bitrates \subseteq Bitrate /\ scenario.folders \subseteq Folder
  BY RuntimeAssumption DEF IInv, Bounded, Scenario
<1>2. CASE name \in {"lease.renew", "lease.release"}
  <2>1. work = [kind |-> "lease", on |-> name = "lease.renew", waiter |-> by]
    BY <1>2 DEF CommandWork
  <2> QED BY <2>1 DEF WorkOk
<1>3. CASE name = "stream.set_opus_bitrate"
  <2>1. PICK b \in scenario.bitrates :
          work = StateWork([name |-> "stream.set_opus_bitrate", bitrate_bps |-> b], by)
    BY <1>3 DEF CommandWork
  <2>2. [name |-> "stream.set_opus_bitrate", bitrate_bps |-> b] \in S!Event(media)
    BY <1>1 DEF S!Event, S!Command
  <2> QED BY <2>1, <2>2, StateWorkOk
<1>4. CASE name = "config.update"
  <2>1. PICK b \in scenario.bitrates, f \in scenario.folders :
          work = [kind |-> "config_update", to |-> [bitrate |-> b, folder |-> f],
                  waiter |-> by]
    BY <1>4 DEF CommandWork
  <2>2. [bitrate |-> b, folder |-> f] \in Settings
    BY <1>1 DEF Settings
  <2> QED BY <2>1, <2>2 DEF WorkOk
<1>5. CASE name \notin {"lease.renew", "lease.release", "stream.set_opus_bitrate",
                       "config.update"}
  <2>1. work = StateWork(Command(name), by)
    BY <1>5 DEF CommandWork
  <2> QED BY <1>5, <2>1, CommandsKnown, StateWorkOk
<1> QED BY <1>2, <1>3, <1>4, <1>5

LEMMA DispatchKeeps ==
  ASSUME IInv, scenario' = scenario, NEW by, NEW name \in scenario.commands,
         Dispatch(by, name)
  PROVE  IInv' /\ Handled
<1>1. PICK work \in CommandWork(name, by) : Become(Enqueue(Now, work), by)
  BY DEF Dispatch
<1>2. WorkOk(Now.media, work)
  BY CommandWorkOk DEF Now
<1>3. Moves(Now, Enqueue(Now, work))
  BY <1>2, NowShaped, Enqueued
<1> QED BY <1>1, <1>3, MovesKeep

LEMMA CommandsKeep ==
  ASSUME IInv, scenario' = scenario, Bootstrap \/ RequestShutdown \/ ControlCommand
  PROVE  IInv' /\ Handled
<1>1. CASE Bootstrap
  BY <1>1, DispatchKeeps DEF Bootstrap
<1>2. CASE RequestShutdown
  BY <1>2, DispatchKeeps DEF RequestShutdown
<1>3. CASE ControlCommand
  BY <1>3, DispatchKeeps DEF ControlCommand
<1> QED BY <1>1, <1>2, <1>3

LEMMA StartStreamKeeps ==
  ASSUME IInv, scenario' = scenario, StartStreamWithCapture
  PROVE  IInv' /\ Handled
<1> DEFINE seen == [Now EXCEPT !.runtime.started = FALSE]
           work == StateWork(Command("stream.start"), "owner")
<1>1. \/ "stream.start" \in scenario.commands /\ Become(Enqueue(seen, work), "owner")
      \/ Become(seen, drainer)
  BY DEF StartStreamWithCapture
<1>2. Moves(Now, seen)
  BY NowShaped, FieldsMove
<1>3. seen.media = media
  BY DEF Now
<1> HIDE DEF seen
<1>4. ASSUME "stream.start" \in scenario.commands PROVE Moves(Now, Enqueue(seen, work))
  <2>1. Command("stream.start") \in S!Event(media)
    BY <1>4, CommandsKnown
  <2>2. WorkOk(seen.media, work)
    BY <1>3, <2>1, StateWorkOk
  <2> HIDE DEF work
  <2>3. Moves(seen, Enqueue(seen, work))
    BY <1>2, <2>2, Enqueued DEF Moves
  <2> QED BY <1>2, <2>3, MovesOn
<1> HIDE DEF work
<1>5. CASE "stream.start" \in scenario.commands /\ Become(Enqueue(seen, work), "owner")
  BY <1>4, <1>5, MovesKeep
<1>6. CASE Become(seen, drainer)
  BY <1>2, <1>6, MovesKeep
<1> QED BY <1>1, <1>5, <1>6

(* A source that is taken back.                                             *)
LEMMA WithdrawnMoves ==
  ASSUME IInv, NEW i \in DOMAIN idle, NEW v, Moves(Now, v), v.idle = idle
  PROVE  Moves(Now, [v EXCEPT !.idle = WithoutSource(i)])
<1> DEFINE before == SubSeq(idle, 1, i - 1)
           after == SubSeq(idle, i + 1, Len(idle))
           x == [v EXCEPT !.idle = WithoutSource(i)]
<1>1. /\ DOMAIN x = WorldFields /\ x.media = v.media /\ x.effects = v.effects
      /\ x.runtime = v.runtime /\ x.engine = v.engine /\ x.queue = v.queue
      /\ x.idle = before \o after
  BY DEF Moves, Shaped, WorldFields, WithoutSource
<1>2. /\ Sequential(idle) /\ Len(idle) \in Nat /\ i \in 1..Len(idle)
  <2>1. Sequential(idle)
    BY DEF IInv, World, Now
  <2> QED BY <2>1, LenProperties DEF Sequential
<1> HIDE DEF x
<1>3. /\ Sequential(before) /\ Elements(before) \subseteq Elements(idle)
      /\ Sequential(after) /\ Elements(after) \subseteq Elements(idle)
  BY <1>2, PartElements
<1> HIDE DEF before, after
<1>4. Sequential(before \o after) /\ Elements(before \o after) \subseteq Elements(idle)
  BY <1>3, JoinedElements
<1>5. World(x)
  BY <1>1, <1>4 DEF Moves, Shaped, World
<1>6. Moves(v, x)
  BY <1>1, <1>5 DEF Moves, Shaped
<1> QED BY <1>6, MovesOn DEF x

LEMMA WaitTimeoutKeeps ==
  ASSUME IInv, scenario' = scenario, WaitTimeout
  PROVE  IInv' /\ Handled
<1> DEFINE quiet == [Now EXCEPT !.runtime.awaiting = FALSE]
           unheard == [quiet EXCEPT !.runtime.amiss = @ \cup {"unheard"}]
           failed == [Now EXCEPT !.runtime.update.answer = "failed"]
<1>1. PICK i \in DOMAIN idle :
        \/ Become([Now EXCEPT !.runtime.awaiting = FALSE,
                              !.runtime.amiss = @ \cup {"unheard"},
                              !.idle = WithoutSource(i)], drainer)
        \/ Become([Now EXCEPT !.runtime.update.answer = "failed",
                              !.idle = WithoutSource(i)], drainer)
  BY DEF WaitTimeout
<1>2. /\ [Now EXCEPT !.runtime.awaiting = FALSE,
                     !.runtime.amiss = @ \cup {"unheard"},
                     !.idle = WithoutSource(i)]
           = [unheard EXCEPT !.idle = WithoutSource(i)]
      /\ [Now EXCEPT !.runtime.update.answer = "failed", !.idle = WithoutSource(i)]
           = [failed EXCEPT !.idle = WithoutSource(i)]
  <2>1. DOMAIN runtime = RuntimeFields
    BY DEF IInv, World, Now, RuntimeOk
  <2> QED BY <2>1 DEF Now, RuntimeFields
<1>3. unheard.idle = idle /\ failed.idle = idle
  BY DEF Now
<1>4. Moves(Now, failed)
  BY NowShaped, AnswerMoves
<1>5. Moves(Now, quiet)
  BY NowShaped, FieldsMove
<1>6. unheard = [quiet EXCEPT !.runtime.amiss = quiet.runtime.amiss \cup {"unheard"}]
  OBVIOUS
<1> HIDE DEF quiet, unheard, failed
<1>7. Moves(Now, unheard)
  <2>1. Moves(quiet, unheard)
    BY <1>5, <1>6, FieldsMove DEF Moves
  <2> QED BY <1>5, <2>1, MovesOn
<1>8. /\ Moves(Now, [unheard EXCEPT !.idle = WithoutSource(i)])
      /\ Moves(Now, [failed EXCEPT !.idle = WithoutSource(i)])
  BY <1>3, <1>4, <1>7, WithdrawnMoves
<1> QED BY <1>1, <1>2, <1>8, MovesKeep

LEMMA DeliverEventKeeps ==
  ASSUME IInv, scenario' = scenario, DeliverEvent
  PROVE  IInv' /\ Handled
<1> DEFINE event == Head(idle).event
           rest == [Now EXCEPT !.idle = Tail(@)]
           taken == [Now EXCEPT !.idle = Tail(@),
                                !.runtime.started = event.kind = "capture-started"]
           begun == [rest EXCEPT !.runtime.started = event.kind = "capture-started"]
           work == [kind |-> "engine_event", event |-> event]
<1>1. Become(Enqueue(taken, work), "owner") /\ idle # <<>> /\ Head(idle).src = "event"
  BY DEF DeliverEvent
<1>2. taken = begun
  BY DEF Now
<1>3. Moves(Now, rest) /\ Honest(event)
  BY <1>1, FirstSource DEF SourceOk
<1> HIDE DEF rest, taken, event
<1>4. Moves(rest, begun)
  BY <1>3, FieldsMove DEF Moves
<1> HIDE DEF begun
<1>5. WorkOk(begun.media, work)
  BY <1>3 DEF WorkOk
<1> HIDE DEF work
<1>6. Moves(begun, Enqueue(begun, work))
  BY <1>4, <1>5, Enqueued DEF Moves
<1>7. Moves(Now, Enqueue(begun, work))
  BY <1>3, <1>4, <1>6, MovesOn
<1> QED BY <1>1, <1>2, <1>7, MovesKeep

LEMMA RunCallKeeps ==
  ASSUME IInv, scenario' = scenario, RunCall
  PROVE  IInv' /\ Handled
<1> DEFINE rest == [Now EXCEPT !.idle = Tail(@)]
<1>1. \E o \in Outcomes : Become(Call(rest, Head(idle), o), "owner")
  BY OutcomesKnown DEF RunCall, Outcome, IInv
<1>2. PICK o \in Outcomes : Become(Call(rest, Head(idle), o), "owner")
  BY <1>1
<1>3. Moves(Now, rest) /\ CallOk(media, Head(idle))
  BY FirstSource DEF RunCall, SourceOk
<1>4. rest.media = media
  BY DEF Now
<1> HIDE DEF rest
<1>5. Moves(rest, Call(rest, Head(idle), o))
  BY <1>3, <1>4, CallMoves DEF IInv, Moves
<1>6. Moves(Now, Call(rest, Head(idle), o))
  BY <1>3, <1>5, MovesOn
<1> QED BY <1>2, <1>6, MovesKeep

LEMMA RunSpectrumCallKeeps ==
  ASSUME IInv, scenario' = scenario, RunSpectrumCall
  PROVE  IInv' /\ Handled
<1> DEFINE first == [Now EXCEPT !.idle = Tail(@)]
           rest == [Now EXCEPT !.idle = Tail(@), !.runtime.awaiting = FALSE]
           on == Head(idle).on
           added == Added(engine, Good(FALSE))
           noted == [rest EXCEPT !.runtime.amiss = @ \cup {"unheard"}]
           e == E!SetSpectrumActive(engine, on, added)
<1>1. \/ \E o \in Outcomes : Become(AskSpectrum(rest, on, "owner", o), drainer)
      \/ Become(Operated(noted, e), drainer)
  BY OutcomesKnown DEF RunSpectrumCall, Outcome, IInv
<1>2. Moves(Now, first) /\ on \in BOOLEAN
  BY FirstSource DEF RunSpectrumCall, SourceOk
<1>3. rest = [first EXCEPT !.runtime.awaiting = FALSE]
  BY DEF Now
<1>4. noted.engine = engine
  BY DEF Now
<1>9. noted = [rest EXCEPT !.runtime.amiss = rest.runtime.amiss \cup {"unheard"}]
  OBVIOUS
<1> HIDE DEF first, rest, noted, on
<1>5. Moves(Now, rest)
  <2>1. Shaped(first)
    BY <1>2 DEF Moves
  <2>2. Moves(first, rest)
    BY <1>3, <2>1, FieldsMove
  <2> QED BY <1>2, <2>2, MovesOn
<1>6. Shaped(rest) /\ Bounded
  BY <1>5 DEF Moves, IInv
<1>7. CASE \E o \in Outcomes : Become(AskSpectrum(rest, on, "owner", o), drainer)
  <2>1. PICK o \in Outcomes : Become(AskSpectrum(rest, on, "owner", o), drainer)
    BY <1>7
  <2>2. Moves(rest, AskSpectrum(rest, on, "owner", o))
    BY <1>2, <1>6, AskSpectrumMoves
  <2>3. Moves(Now, AskSpectrum(rest, on, "owner", o))
    BY <1>5, <2>2, MovesOn
  <2> QED BY <2>1, <2>3, MovesKeep
<1>8. CASE Become(Operated(noted, e), drainer)
  <2>1. Sized(engine)
    BY DEF IInv, World, Now
  <2>6. Moves(Now, noted) /\ Shaped(noted)
    <3>1. Moves(rest, noted)
      BY <1>6, <1>9, FieldsMove
    <3> QED BY <1>5, <3>1, MovesOn DEF Moves
  <2>2. added \in BOOLEAN /\ (added => Len(engine.branches) < MaxBranch)
    BY <1>6, <2>1, Room DEF Added, Good
  <2> HIDE DEF added
  <2>3. Grows(noted.engine, e)
    BY <1>2, <1>4, <2>1, <2>2, SpectrumSized
  <2> HIDE DEF e
  <2>4. Moves(noted, Operated(noted, e))
    BY <2>3, <2>6, OperatedMoves
  <2>5. Moves(Now, Operated(noted, e))
    BY <2>4, <2>6, MovesOn
  <2> QED BY <1>8, <2>5, MovesKeep
<1> QED BY <1>1, <1>7, <1>8

LEMMA RunUpdateCallKeeps ==
  ASSUME IInv, scenario' = scenario, RunUpdateCall
  PROVE  IInv' /\ Handled
<1> DEFINE rest == [Now EXCEPT !.idle = Tail(@)]
           c == Head(idle)
           answered(o) == AnswerUpdate(rest, c, o)
           unheard == [answered(Good(FALSE)) EXCEPT !.runtime.update.answer = "failed"]
<1>1. \/ \E o \in Outcomes : Become(answered(o), drainer)
      \/ Become(unheard, drainer)
  BY OutcomesKnown DEF RunUpdateCall, Outcome, IInv
<1>2. Moves(Now, rest) /\ Setting(c)
  BY FirstSource DEF RunUpdateCall, SourceOk, Setting
<1> HIDE DEF rest, c
<1>3. ASSUME NEW o PROVE Moves(Now, answered(o))
  <2>1. Moves(rest, answered(o))
    BY <1>2, AnswerUpdateMoves DEF Moves
  <2> QED BY <1>2, <2>1, MovesOn
<1>4. Moves(Now, answered(Good(FALSE)))
  BY <1>3
<1> HIDE DEF answered
<1>5. Moves(Now, unheard)
  <2>1. Moves(answered(Good(FALSE)), unheard)
    BY <1>4, AnswerMoves DEF Moves
  <2> QED BY <1>4, <2>1, MovesOn
<1> HIDE DEF unheard
<1> QED BY <1>1, <1>3, <1>5, MovesKeep

-----------------------------------------------------------------------------
(* The handlers of the engine.                                              *)
LEMMA EngineSized ==
  ASSUME IInv
  PROVE  /\ Sized(engine) /\ E!Held(engine) \subseteq Tokens(engine)
         /\ engine.finalizing \subseteq Tokens(engine)
<1>1. Sized(engine)
  BY DEF IInv, World, Now
<1> QED BY <1>1, HeldAreGiven DEF Sized

LEMMA RunKeeps ==
  ASSUME IInv, scenario' = scenario, NEW e, Grows(engine, e), Run(e)
  PROVE  IInv' /\ Handled
<1>1. Become(Operated(Now, e), "owner")
  BY DEF Run
<1>2. Now.engine = engine
  BY DEF Now
<1>3. Moves(Now, Operated(Now, e))
  BY <1>2, NowShaped, OperatedMoves
<1> QED BY <1>1, <1>3, MovesKeep

LEMMA RunCallbackKeeps ==
  ASSUME IInv, scenario' = scenario, RunCallback
  PROVE  IInv' /\ Handled
<1> DEFINE rest == [Now EXCEPT !.idle = Tail(@)]
           t == Head(idle).token
<1>1. \E e : /\ Become(Operated(rest, e), "owner")
             /\ \/ \E sent : e = E!UnlinkAndDrain(engine, t, sent, TRUE)
                \/ \E closed : e = E!FinishRemove(engine, t, FALSE, closed)
                \/ \E connected : e = E!ConnectionChanged(engine, t, connected)
                \/ e = E!HandleQueueOverrun(engine, t)
  BY DEF RunCallback
<1>2. PICK e : /\ Become(Operated(rest, e), "owner")
               /\ \/ \E sent : e = E!UnlinkAndDrain(engine, t, sent, TRUE)
                  \/ \E closed : e = E!FinishRemove(engine, t, FALSE, closed)
                  \/ \E connected : e = E!ConnectionChanged(engine, t, connected)
                  \/ e = E!HandleQueueOverrun(engine, t)
  BY <1>1
<1>3. Moves(Now, rest) /\ t \in Tokens(engine)
  BY FirstSource DEF RunCallback, SourceOk
<1>4. rest.engine = engine
  BY DEF Now
<1> HIDE DEF rest, t
<1>5. Grows(engine, e)
  BY <1>2, <1>3, EngineSized, UnlinkSized, FinishSized, ConnectionSized, OverrunSized
<1>6. Moves(rest, Operated(rest, e))
  BY <1>3, <1>4, <1>5, OperatedMoves DEF Moves
<1>7. Moves(Now, Operated(rest, e))
  BY <1>3, <1>6, MovesOn
<1> QED BY <1>2, <1>7, MovesKeep

LEMMA BusMessageKeeps ==
  ASSUME IInv, scenario' = scenario, BusMessage
  PROVE  IInv' /\ Handled
<1>1. CASE Run(E!CapturePlaying(engine))
  <2>1. Grows(engine, E!CapturePlaying(engine))
    BY EngineSized, CapturePlayingSized
  <2> QED BY <1>1, <2>1, RunKeeps
<1>2. CASE Run(E!FailCapture(engine, "device_lost"))
  <2>1. Grows(engine, E!FailCapture(engine, "device_lost"))
    BY EngineSized, FailCaptureSized
  <2> QED BY <1>2, <2>1, RunKeeps
<1>3. ASSUME NEW t \in E!Held(engine), engine.branches[t].kind \in E!Output,
             Run(E!BranchPlaying(engine, t))
      PROVE  IInv' /\ Handled
  <2>1. Grows(engine, E!BranchPlaying(engine, t))
    BY <1>3, EngineSized, PlayingSized
  <2> QED BY <1>3, <2>1, RunKeeps
<1>4. ASSUME NEW t \in E!Held(engine), Run(E!SinkError(engine, t, TRUE))
      PROVE  IInv' /\ Handled
  <2>1. Grows(engine, E!SinkError(engine, t, TRUE))
    BY EngineSized, SinkErrorSized
  <2> QED BY <1>4, <2>1, RunKeeps
<1>5. ASSUME NEW t \in E!Held(engine), Run(E!BranchError(engine, t, TRUE))
      PROVE  IInv' /\ Handled
  <2>1. Grows(engine, E!BranchError(engine, t, TRUE))
    BY EngineSized, BranchErrorSized
  <2> QED BY <1>5, <2>1, RunKeeps
<1> QED BY <1>1, <1>2, <1>3, <1>4, <1>5 DEF BusMessage

LEMMA RemovalTimeoutKeeps ==
  ASSUME IInv, scenario' = scenario, AnyRemovalTimeout
  PROVE  IInv' /\ Handled
<1>1. PICK t \in engine.finalizing : Run(E!FinishRemove(engine, t, TRUE, TRUE))
  BY DEF AnyRemovalTimeout, RemovalTimeout
<1>2. Grows(engine, E!FinishRemove(engine, t, TRUE, TRUE))
  BY EngineSized, FinishSized
<1> QED BY <1>1, <1>2, RunKeeps

-----------------------------------------------------------------------------
(* The streaming threads.                                                   *)
LEMMA ThreadMoves ==
  ASSUME NEW w, Shaped(w), NEW t \in Tokens(w.engine), NEW field, field # "kind",
         NEW value
  PROVE  Moves(w, [w EXCEPT !.engine.branches[t][field] = value])
<1> DEFINE f == [w.engine EXCEPT !.branches[t][field] = value]
           x == [w EXCEPT !.engine.branches[t][field] = value]
<1>1. /\ DOMAIN x = WorldFields /\ x.media = w.media /\ x.effects = w.effects
      /\ x.runtime = w.runtime /\ x.engine = f /\ x.queue = w.queue /\ x.idle = w.idle
  BY DEF Shaped, WorldFields
<1>2. Sized(w.engine)
  BY DEF Shaped, World
<1>3. Grows(w.engine, f)
  BY <1>2, FieldSet
<1> HIDE DEF f, x
<1>4. World(x)
  BY <1>1, <1>2, <1>3, SourcesStay DEF Shaped, World, Grows
<1> QED BY <1>1, <1>4 DEF Moves, Shaped, x

LEMMA StreamsKeep ==
  ASSUME IInv, scenario' = scenario, NEW t \in Tokens(engine), NEW field, field # "kind",
         NEW value, NEW callback, callback.src = "callback", callback.token = t,
         Streams(t, field, value, callback)
  PROVE  IInv' /\ Handled
<1> DEFINE v == [Now EXCEPT !.engine.branches[t][field] = value]
           x == [Now EXCEPT !.engine.branches[t][field] = value,
                            !.idle = Append(@, callback)]
           u == [v EXCEPT !.idle = Append(@, callback)]
<1>1. Become(x, drainer)
  BY DEF Streams
<1>2. x = u
  BY DEF Now
<1>3. Now.engine = engine
  BY DEF Now
<1>4. Moves(Now, v)
  BY <1>3, NowShaped, ThreadMoves
<1>5. v.engine = [engine EXCEPT !.branches[t][field] = value]
  BY DEF Now
<1> HIDE DEF v
<1>6. t \in Tokens(v.engine)
  BY <1>5, EngineSized, FieldSet, TokensStay
<1>7. SourceOk(v.media, v.engine, callback)
  BY <1>6 DEF SourceOk
<1>8. Moves(v, u)
  BY <1>4, <1>7, Deferred DEF Moves
<1> HIDE DEF x, u
<1>9. Moves(Now, x)
  BY <1>2, <1>4, <1>8, MovesOn
<1> QED BY <1>1, <1>9, MovesKeep

LEMMA CallbackKeeps ==
  ASSUME IInv, scenario' = scenario, NEW t \in Tokens(engine), NEW callback,
         callback.src = "callback", callback.token = t,
         Become([Now EXCEPT !.idle = Append(@, callback)], drainer)
  PROVE  IInv' /\ Handled
<1> DEFINE x == [Now EXCEPT !.idle = Append(@, callback)]
<1>1. SourceOk(Now.media, Now.engine, callback)
  BY DEF SourceOk, Now
<1>2. Moves(Now, x)
  BY <1>1, NowShaped, Deferred
<1> HIDE DEF x
<1>3. Become(x, drainer)
  BY DEF x
<1> QED BY <1>2, <1>3, MovesKeep

LEMMA StreamingThreadKeeps ==
  ASSUME IInv, scenario' = scenario, StreamingThread
  PROVE  IInv' /\ Handled
<1> DEFINE overrun(t) == [src |-> "callback", token |-> t, call |-> "handle_queue_overrun"]
           changed(t, connected) == [src |-> "callback", token |-> t,
                                     call |-> "connection_changed", connected |-> connected]
<1>1. PICK t \in E!Held(engine) :
        \/ Streams(t, "drain_scheduled", TRUE,
                   [src |-> "callback", call |-> "unlink_and_drain", token |-> t])
        \/ Streams(t, "eos", "seen",
                   [src |-> "callback", call |-> "finish_remove", token |-> t])
        \/ Become([Now EXCEPT !.engine.branches[t].valve = "dropping"], drainer)
        \/ Become([Now EXCEPT !.idle = Append(@, overrun(t))], drainer)
        \/ \E connected \in BOOLEAN :
             Become([Now EXCEPT !.idle = Append(@, changed(t, connected))], drainer)
  BY DEF StreamingThread, CallerSignal
<1>2. t \in Tokens(engine)
  BY EngineSized
<1>3. CASE Streams(t, "drain_scheduled", TRUE,
                   [src |-> "callback", call |-> "unlink_and_drain", token |-> t])
  <2> DEFINE c == [src |-> "callback", call |-> "unlink_and_drain", token |-> t]
  <2>1. c.src = "callback" /\ c.token = t /\ Streams(t, "drain_scheduled", TRUE, c)
    BY <1>3
  <2> HIDE DEF c
  <2> QED BY <1>2, <2>1, StreamsKeep
<1>4. CASE Streams(t, "eos", "seen",
                   [src |-> "callback", call |-> "finish_remove", token |-> t])
  <2> DEFINE c == [src |-> "callback", call |-> "finish_remove", token |-> t]
  <2>1. c.src = "callback" /\ c.token = t /\ Streams(t, "eos", "seen", c)
    BY <1>4
  <2> HIDE DEF c
  <2> QED BY <1>2, <2>1, StreamsKeep
<1>5. CASE Become([Now EXCEPT !.engine.branches[t].valve = "dropping"], drainer)
  <2> DEFINE x == [Now EXCEPT !.engine.branches[t].valve = "dropping"]
  <2>1. Now.engine = engine
    BY DEF Now
  <2>2. x = [Now EXCEPT !.engine.branches[t]["valve"] = "dropping"]
    OBVIOUS
  <2>3. Become(x, drainer)
    BY <1>5
  <2> HIDE DEF x
  <2>4. Moves(Now, x)
    BY <1>2, <2>1, <2>2, NowShaped, ThreadMoves
  <2> QED BY <2>3, <2>4, MovesKeep
<1>6. CASE Become([Now EXCEPT !.idle = Append(@, overrun(t))], drainer)
  <2>1. overrun(t).src = "callback" /\ overrun(t).token = t
    OBVIOUS
  <2> HIDE DEF overrun
  <2> QED BY <1>2, <1>6, <2>1, CallbackKeeps
<1>7. ASSUME NEW connected \in BOOLEAN,
             Become([Now EXCEPT !.idle = Append(@, changed(t, connected))], drainer)
      PROVE  IInv' /\ Handled
  <2>1. changed(t, connected).src = "callback" /\ changed(t, connected).token = t
    OBVIOUS
  <2> HIDE DEF changed
  <2> QED BY <1>2, <1>7, <2>1, CallbackKeeps
<1> QED BY <1>1, <1>3, <1>4, <1>5, <1>6, <1>7

-----------------------------------------------------------------------------
(* The timers.                                                              *)
LEMMA NowParts ==
  ASSUME IInv
  PROVE  /\ Now.media = media /\ Now.runtime = runtime /\ SP!Good(media)
         /\ RuntimeOk(media, runtime)
BY DEF IInv, World, Now

LEMMA TimerFieldMoves ==
  ASSUME NEW w, Shaped(w)
  PROVE  /\ Moves(w, [w EXCEPT !.runtime.reconnect = 0])
         /\ Moves(w, [w EXCEPT !.runtime.storage = None])
<1>1. ASSUME NEW r, DOMAIN r = RuntimeFields, r.mapping = w.runtime.mapping,
             r.instance = w.runtime.instance, r.reconnect \in {0, w.runtime.reconnect},
             r.storage \in {None, w.runtime.storage},
             r.config = w.runtime.config, r.update = w.runtime.update
      PROVE  Moves(w, [w EXCEPT !.runtime = r])
  <2>1. RuntimeOk(w.media, r)
    BY <1>1, RuntimeKeeps DEF Shaped, World, RuntimeOk
  <2> QED BY <2>1, RuntimeSet
<1>2. Moves(w, [w EXCEPT !.runtime.reconnect = 0])
  <2> DEFINE r == [w.runtime EXCEPT !.reconnect = 0]
  <2>1. /\ DOMAIN r = RuntimeFields /\ r.mapping = w.runtime.mapping
        /\ r.instance = w.runtime.instance /\ r.reconnect = 0
        /\ r.storage = w.runtime.storage
        /\ r.config = w.runtime.config /\ r.update = w.runtime.update
    BY DEF Shaped, World, RuntimeOk, RuntimeFields
  <2> HIDE DEF r
  <2>2. Moves(w, [w EXCEPT !.runtime = r])
    BY <1>1, <2>1
  <2> QED BY <2>2 DEF r
<1>3. Moves(w, [w EXCEPT !.runtime.storage = None])
  <2> DEFINE r == [w.runtime EXCEPT !.storage = None]
  <2>1. /\ DOMAIN r = RuntimeFields /\ r.mapping = w.runtime.mapping
        /\ r.instance = w.runtime.instance /\ r.reconnect = w.runtime.reconnect
        /\ r.storage = None
        /\ r.config = w.runtime.config /\ r.update = w.runtime.update
    BY DEF Shaped, World, RuntimeOk, RuntimeFields
  <2> HIDE DEF r
  <2>2. Moves(w, [w EXCEPT !.runtime = r])
    BY <1>1, <2>1
  <2> QED BY <2>2 DEF r
<1> QED BY <1>2, <1>3

LEMMA PostKeeps ==
  ASSUME IInv, scenario' = scenario, NEW v, Moves(Now, v), NEW event \in S!Event(media),
         NEW by, Become(Post(v, event), by)
  PROVE  IInv' /\ Handled
<1>1. Moves(Now, Post(v, event))
  BY NowParts, PostsOn
<1> QED BY <1>1, MovesKeep

LEMMA QueueKeeps ==
  ASSUME IInv, scenario' = scenario, NEW v, Moves(Now, v), NEW work, WorkOk(media, work),
         NEW by, Become(Enqueue(v, work), by)
  PROVE  IInv' /\ Handled
<1>1. Moves(v, Enqueue(v, work))
  BY NowParts, Enqueued DEF Moves
<1> QED BY <1>1, MovesOn, MovesKeep

LEMMA RetryDueKeeps ==
  ASSUME IInv, scenario' = scenario, RetryDue
  PROVE  IInv' /\ Handled
<1> DEFINE v == [Now EXCEPT !.runtime.reconnect = 0]
           g == runtime.reconnect
<1>1. Become(Post(v, Event("connection.retry_due", g)), "owner") /\ g # 0
  BY DEF RetryDue
<1>2. g \in 1..media.stream.generation
  BY <1>1, NowParts, Generations DEF RuntimeOk
<1>3. Event("connection.retry_due", g) \in S!Event(media)
  BY <1>2, StreamEventsKnown
<1>4. Moves(Now, v)
  BY NowShaped, TimerFieldMoves
<1> HIDE DEF v, g
<1> QED BY <1>1, <1>3, <1>4, PostKeeps

LEMMA StorageDueKeeps ==
  ASSUME IInv, scenario' = scenario, StorageDue
  PROVE  IInv' /\ Handled
<1> DEFINE v == [Now EXCEPT !.runtime.storage = None]
           g == runtime.storage
<1>1. /\ g # None
      /\ \E status \in {"safe"} \cup StorageFault :
           Become(Post(v, StorageChecked(g, status)), "owner")
  BY DEF StorageDue
<1>2. PICK status \in {"safe"} \cup StorageFault :
        Become(Post(v, StorageChecked(g, status)), "owner")
  BY <1>1
<1>3. g \in 0..media.recording.generation
  BY <1>1, NowParts DEF RuntimeOk
<1>4. StorageChecked(g, status) \in S!Event(media)
  BY <1>3, OtherEventsKnown
<1>5. Moves(Now, v)
  BY NowShaped, TimerFieldMoves
<1> HIDE DEF v, g
<1> QED BY <1>2, <1>4, <1>5, PostKeeps

LEMMA RotationDueKeeps ==
  ASSUME IInv, scenario' = scenario, RotationDue
  PROVE  IInv' /\ Handled
<1> DEFINE v == [Now EXCEPT !.runtime.rotation = FALSE]
<1>1. Become(Post(v, [name |-> "recording.rotate"]), "owner")
  BY DEF RotationDue
<1>2. [name |-> "recording.rotate"] \in S!Event(media)
  BY OtherEventsKnown
<1>3. Moves(Now, v)
  BY NowShaped, FieldsMove
<1> HIDE DEF v
<1> QED BY <1>1, <1>2, <1>3, PostKeeps

LEMMA AttemptDueKeeps ==
  ASSUME IInv, scenario' = scenario, AttemptDue
  PROVE  IInv' /\ Handled
<1> DEFINE v == [Now EXCEPT !.runtime.attempt_due = TRUE]
           work == [kind |-> "attempt_timeout", live |-> TRUE,
                    generation |-> runtime.attempt.generation,
                    instance |-> runtime.attempt.instance]
<1>1. Become(Enqueue(v, work), "owner")
  BY DEF AttemptDue
<1>2. WorkOk(media, work)
  BY DEF WorkOk
<1>3. Moves(Now, v)
  BY NowShaped, FieldsMove
<1> HIDE DEF v, work
<1> QED BY <1>1, <1>2, <1>3, QueueKeeps

LEMMA StatsDueKeeps ==
  ASSUME IInv, scenario' = scenario, StatsDue
  PROVE  IInv' /\ Handled
<1> DEFINE v == [Now EXCEPT !.runtime.stats_inflight = TRUE]
           work(sent) == [kind |-> "stats", generation |-> media.stream.generation,
                          instance |-> runtime.instance["stream"], sent |-> sent]
<1>1. \E sent : Become(Enqueue(v, work(sent)), "owner")
  BY DEF StatsDue
<1>2. PICK sent : Become(Enqueue(v, work(sent)), "owner")
  BY <1>1
<1>3. WorkOk(media, work(sent))
  BY DEF WorkOk
<1>4. Moves(Now, v)
  BY NowShaped, FieldsMove
<1> HIDE DEF v, work
<1> QED BY <1>2, <1>3, <1>4, QueueKeeps

LEMMA LeaseDueKeeps ==
  ASSUME IInv, scenario' = scenario, LeaseDue
  PROVE  IInv' /\ Handled
<1> DEFINE v == [Now EXCEPT !.runtime.lease = "due"]
           work == [kind |-> "lease_expired", live |-> TRUE]
<1>1. Become(Enqueue(v, work), "owner")
  BY DEF LeaseDue
<1>2. WorkOk(media, work)
  BY DEF WorkOk
<1>3. Moves(Now, v)
  BY NowShaped, FieldsMove
<1> HIDE DEF v, work
<1> QED BY <1>1, <1>2, <1>3, QueueKeeps

-----------------------------------------------------------------------------
(* The invariant is inductive.                                              *)
LEMMA StepKeeps ==
  ASSUME IInv, Next
  PROVE  IInv' /\ Handled
<1>1. scenario' = scenario
  BY DEF Next
<1>2. ASSUME Timer PROVE IInv' /\ Handled
  BY <1>1, <1>2, RetryDueKeeps, StorageDueKeeps, RotationDueKeeps, AttemptDueKeeps,
     StatsDueKeeps, LeaseDueKeeps DEF Timer
<1>3. Step
  BY DEF Next
<1> QED
  BY <1>1, <1>2, <1>3, CommandsKeep, StartStreamKeeps, DrainKeeps, ContinueUpdateKeeps,
     WaitTimeoutKeeps, DeliverEventKeeps, RunCallKeeps, RunSpectrumCallKeeps,
     RunUpdateCallKeeps, RunCallbackKeeps, BusMessageKeeps, RemovalTimeoutKeeps,
     StreamingThreadKeeps DEF Step

LEMMA StutterKeeps ==
  ASSUME IInv, UNCHANGED vars
  PROVE  IInv' /\ Handled
<1>1. /\ media' = media /\ effects' = effects /\ runtime' = runtime /\ engine' = engine
      /\ queue' = queue /\ idle' = idle /\ scenario' = scenario
  BY DEF vars
<1>2. Now' = Now
  BY <1>1 DEF Now
<1>3. World(Now')
  BY <1>2 DEF IInv
<1> QED BY <1>1, <1>3 DEF IInv, Bounded, Handled

LEMMA StartsWell == ASSUME Init PROVE IInv /\ S!Init
<1>1. /\ media = S!InitialMedia /\ effects = <<>> /\ runtime = InitialRuntime
      /\ engine = E!InitialEngine /\ queue = <<>> /\ idle = <<>>
      /\ scenario \in Scenarios
  BY DEF Init
<1>2. SP!Good(media) /\ SP!Alive(media)
  <2>1. media = SP!InitialMedia
    BY <1>1, SameStart
  <2>2. SP!Alive(SP!InitialMedia)
    BY ReducerConstants, SP!FirstAlive
  <2>3. SP!Init => SP!IInv
    BY ReducerConstants, SP!InitGood
  <2>4. SP!Init
    BY <1>1, <2>1 DEF SP!Init
  <2>5. SP!Good(media)
    BY <2>3, <2>4 DEF SP!IInv
  <2> QED BY <2>1, <2>2, <2>5
<1>3. RuntimeOk(media, runtime)
  <2>1. \A k \in Scope : 0 \in 0..media[k].generation
    BY <1>2, Generations DEF Scope
  <2>2. FirstSettings \in Settings
    <3>1. /\ scenario.bitrates \subseteq Bitrate /\ scenario.bitrates # {}
          /\ scenario.folders \subseteq Folder /\ scenario.folders # {}
      BY <1>1, RuntimeAssumption DEF Scenario
    <3> QED BY <3>1 DEF FirstSettings, Settings
  <2>3. runtime.config \in Settings /\ runtime.update = NoUpdate
    BY <1>1, <2>2 DEF InitialRuntime
  <2>4. /\ DOMAIN runtime = RuntimeFields
        /\ runtime.mapping = [k \in Scope |-> NoMapping]
        /\ runtime.instance = [k \in Scope |-> 0]
        /\ runtime.reconnect = 0 /\ runtime.storage = None
    BY <1>1 DEF InitialRuntime, RuntimeFields
  <2>5. UpdateOk(media, runtime.update)
    BY <2>3 DEF UpdateOk
  <2>6. 0 \in 0..media.stream.generation
    BY <2>1 DEF Scope
  <2> QED BY <2>1, <2>3, <2>4, <2>5, <2>6 DEF RuntimeOk, NoMapping
<1>4. Sized(engine)
  <2>1. /\ DOMAIN engine = EngineFields /\ engine.branches = <<>> /\ engine.out = <<>>
        /\ engine.active = [k \in E!Kind |-> 0] /\ engine.finalizing = {}
        /\ engine.rotations = {}
    BY <1>1 DEF E!InitialEngine, EngineFields
  <2>2. Len(<<>>) = 0
    BY EmptySeq
  <2> QED BY <2>1, <2>2, EmptyElements, RuntimeAssumption DEF Sized, Tokens
<1>5. effects \in Seq(SP!Effect)
  BY <1>1, EmptySeq
<1>6. World(Now)
  BY <1>1, <1>2, <1>3, <1>4, <1>5, EmptyElements DEF World, Now
<1> QED BY <1>1, <1>6 DEF IInv, Bounded, S!Init

(* Every step of the runtime is one of the reducer's for an event of its    *)
(* present generations, or puts a configuration into force (revisions that  *)
(* are set, and the bitrate of a running Opus stream with no other change   *)
(* pending), or leaves its state alone: whatever is queued, deferred, timed *)
(* or late, the runtime uses the reducer as MediaState specifies it, and    *)
(* goes past it in _process_config_update only.                             *)
THEOREM UsesReducer == Spec => ReducerSpec
<1>1. Init => IInv /\ S!Init
  BY StartsWell
<1>2. IInv /\ [Next]_vars => IInv' /\ Handled
  BY StepKeeps, StutterKeeps
<1>3. IInv /\ [Next]_vars =>
        [ \/ UNCHANGED <<media, effects>>
          \/ ConfigurationInForce
          \/ \E e \in S!Event(media) : S!Handle(e) ]_<<media, effects>>
  BY <1>2 DEF Handled
<1> QED BY <1>1, <1>2, <1>3, PTL DEF Spec, ReducerSpec

LEMMA GoodIsCoherent ==
  ASSUME SP!Good(media), effects \in Seq(SP!Effect)
  PROVE  S!StateCoherent /\ S!BranchesHoldTheirSource
<1>1. /\ media \in SP!MediaRecord /\ SP!SourceHeld(media) /\ SP!RetryCoherent(media)
      /\ SP!RecordingCoherent(media) /\ SP!BitrateCoherent(media)
      /\ SP!Waiting(media) /\ SP!Quiet(media)
  BY DEF SP!Good, SP!Coherent
<1>2. S!MediaRecord = SP!MediaRecord
  <2>1. S!CaptureRecord = SP!CaptureRecord
    BY DEF S!CaptureRecord, SP!CaptureRecord, S!BranchState, SP!BranchState
  <2>2. S!StreamRecord = SP!StreamRecord
    BY DEF S!StreamRecord, SP!StreamRecord, S!BranchState, SP!BranchState,
           S!Representation, SP!Representation, S!Opus, SP!Opus
  <2>3. S!ConnectionRecord = SP!ConnectionRecord
    BY DEF S!ConnectionRecord, SP!ConnectionRecord, S!ConnectionState, SP!ConnectionState
  <2>4. S!RecordingRecord = SP!RecordingRecord
    BY DEF S!RecordingRecord, SP!RecordingRecord, S!RecordingState, SP!RecordingState,
           S!BranchState, SP!BranchState, S!StorageStatus, SP!StorageStatus
  <2> QED BY <2>1, <2>2, <2>3, <2>4
          DEF S!MediaRecord, SP!MediaRecord, S!ServiceState, SP!ServiceState
<1>3. S!Effect = SP!Effect
  BY DEF S!Effect, SP!Effect
<1>4. S!TypeOK
  BY <1>1, <1>2, <1>3 DEF S!TypeOK
<1>5. S!ShutdownNeverStuck
  BY <1>1 DEF S!ShutdownNeverStuck, S!Waiting, SP!Waiting, S!Quiet, SP!Quiet,
              S!BranchStates, SP!BranchStates, S!Active, SP!Active
<1>6. S!RetryStateCoherent
  <2>1. \A n : S!RetryDelay(n) = SP!RetryDelay(n)
    BY DEF S!RetryDelay, SP!RetryDelay, S!RetryDelays, SP!RetryDelays
  <2> QED BY <1>1, <2>1 DEF S!RetryStateCoherent, S!RetryCoherent, SP!RetryCoherent,
                            S!Live, SP!Live
<1>7. S!PendingBitrateCoherent
  BY <1>1 DEF S!PendingBitrateCoherent, S!BitrateCoherent, SP!BitrateCoherent,
              S!Opus, SP!Opus
<1>8. S!RecordingFieldsCoherent
  BY <1>1 DEF S!RecordingFieldsCoherent, S!RecordingCoherent, SP!RecordingCoherent,
              S!Live, SP!Live
<1>9. S!BranchesHoldTheirSource
  BY <1>1 DEF S!BranchesHoldTheirSource, S!SourceHeld, SP!SourceHeld, S!Live, SP!Live
<1> QED BY <1>4, <1>5, <1>6, <1>7, <1>8, <1>9 DEF S!StateCoherent

(* The reducer's state is coherent in every state of the runtime, whatever  *)
(* the engine does and however late its events are, and a recording is      *)
(* closed before its source is taken away.                                  *)
THEOREM CoherentInRuntime == Spec => [](S!StateCoherent /\ S!BranchesHoldTheirSource)
<1>1. Init => IInv
  BY StartsWell
<1>2. IInv /\ [Next]_vars => IInv'
  BY StepKeeps, StutterKeeps
<1>3. IInv => S!StateCoherent /\ S!BranchesHoldTheirSource
  <2> SUFFICES ASSUME IInv PROVE S!StateCoherent /\ S!BranchesHoldTheirSource
    OBVIOUS
  <2>1. SP!Good(media) /\ effects \in Seq(SP!Effect)
    BY DEF IInv, World, Now
  <2> QED BY <2>1, GoodIsCoherent
<1> QED BY <1>1, <1>2, <1>3, PTL DEF Spec

(* What a step of the reducer is, whoever takes it.                         *)
LEMMA HandledIsLawful ==
  ASSUME SP!Good(media), SP!Alive(media), NEW e \in S!Event(media), S!Handle(e)
  PROVE  SP!StepLawful
<1>1. e \in SP!Event(media) /\ S!Reduce(media, e) = SP!Reduce(media, e)
  BY SameEvent, SameReduce
<1>2. SP!Lawful(media, SP!Reduce(media, e))
  BY <1>1, Serves DEF SP!Served
<1>3. media' = SP!Reduce(media, e).state /\ effects' = SP!Reduce(media, e).effects
  BY <1>1 DEF S!Handle
<1> QED BY <1>2, <1>3 DEF SP!Lawful, SP!StepLawful

(* A configuration that comes into force breaks none of the reducer's laws. *)
LEMMA InForceIsLawful ==
  ASSUME SP!Good(media), runtime'.config \in Settings, ConfigurationInForce
  PROVE  SP!StepLawful
<1>1. PICK applies \in BOOLEAN : media' = Reconfigured(media, runtime'.config, applies)
  BY DEF ConfigurationInForce
<1>2. effects' = <<>>
  BY DEF ConfigurationInForce
<1>3. media \in SP!MediaRecord
  BY DEF SP!Good, SP!Coherent
<1>4. /\ media'.service = media.service /\ media'.connection = media.connection
      /\ media'.capture.state = media.capture.state
      /\ media'.capture.generation = media.capture.generation
      /\ media'.stream.state = media.stream.state
      /\ media'.stream.generation = media.stream.generation
      /\ media'.recording.state = media.recording.state
      /\ media'.recording.generation = media.recording.generation
  BY <1>1, <1>3, ReconfiguredParts
<1>5. SP!Range(effects') = {}
  BY <1>2 DEF SP!Range
<1>6. ASSUME NEW b \in {"capture", "stream", "recording", "connection"}, NEW v
      PROVE  ~SP!Into(media[b], media'[b], v)
  BY <1>4 DEF SP!Into
<1>7. SP!StopsTold(media, media', SP!Range(effects'))
  BY <1>5, <1>6 DEF SP!StopsTold
<1>8. SP!TimerTold(media, media', SP!Range(effects'))
  BY <1>4, <1>5, <1>6 DEF SP!TimerTold
<1>9. SP!AllNumbered(media, media')
  BY <1>4, <1>6 DEF SP!AllNumbered, SP!Numbered
<1>10. SP!InOrder(media, media', SP!Range(effects'))
  BY <1>4, <1>5, <1>6 DEF SP!InOrder
<1> QED BY <1>7, <1>8, <1>9, <1>10 DEF SP!StepLawful, SP!Told

(* The vocabulary of MediaState and that of the proofs about it.            *)
LEMMA RuntimeVocabulary ==
  /\ \A f : S!Requested(f) <=> f \in SP!Range(effects')
  /\ \A f : S!Requested(f) \in BOOLEAN
  /\ \A b, v : S!Enters(b, v) \in BOOLEAN
  /\ \A b, v : S!Enters(b, v) <=> SP!Into(media[b], media'[b], v)
<1>1. \A f : S!Requested(f) <=> f \in SP!Range(effects')
  BY DEF S!Requested, SP!Range
<1>2. \A f : S!Requested(f) \in BOOLEAN
  BY DEF S!Requested
<1>3. \A b, v : S!Enters(b, v) \in BOOLEAN
  BY DEF S!Enters
<1>4. \A b, v : S!Enters(b, v) <=> SP!Into(media[b], media'[b], v)
  BY DEF S!Enters, SP!Into
<1> QED BY <1>1, <1>2, <1>3, <1>4

(* In the runtime, too, no branch is sent to a stop without the request to  *)
(* the engine in the same step, the retry timer is asked for and cancelled  *)
(* with the wait, a shutdown takes its stages in order, and a generation    *)
(* names one branch for good: late events, timeouts and retries of the      *)
(* engine reach the reducer only as events those laws were proved of.       *)
THEOREM LawsInRuntime ==
  Spec => /\ S!StopsAreRequested /\ S!RetryTimerFollowsWait
          /\ S!ShutdownInOrder /\ S!GenerationsNameOneBranch
<1> DEFINE Stops ==
             /\ S!Enters("recording", "stopping") = S!Requested("recording.stop")
             /\ S!Enters("capture", "stopping") = S!Requested("capture.stop")
             /\ (S!Enters("stream", "stopping") => S!Requested("stream.stop"))
             /\ (S!Requested("stream.stop") =>
                   S!Enters("stream", "stopping") \/ S!Enters("capture", "failed"))
           Waits ==
             /\ S!Enters("connection", "retry_wait") =
                  S!Requested("connection.schedule_retry")
             /\ (media.connection.state = "retry_wait"
                   /\ media'.connection.state # "retry_wait" =>
                     \/ S!Requested("connection.cancel_retry")
                     \/ S!Requested("connection.connect"))
           Ordered ==
             media'.service # "running" =>
               /\ (S!Enters("stream", "stopping") =>
                     media'.recording.state \notin S!Active)
               /\ (S!Enters("capture", "stopping") =>
                     {media'.recording.state, media'.stream.state} \cap S!Active = {})
               /\ S!Requested("service.stop") =
                    (media.service # "stopped" /\ media'.service = "stopped")
           Fresh ==
             \A b \in {"capture", "stream", "recording"} :
               IF media'[b].generation = media[b].generation
                 THEN ~S!Enters(b, "starting")
                 ELSE /\ media'[b].generation = media[b].generation + 1
                      /\ media[b].state \notin S!Active
                      /\ media'[b].state = "starting"
<1>1. SP!StepLawful => Stops /\ Waits /\ Ordered /\ Fresh
  <2> SUFFICES ASSUME SP!StepLawful PROVE Stops /\ Waits /\ Ordered /\ Fresh
    OBVIOUS
  <2>1. /\ SP!StopsTold(media, media', SP!Range(effects'))
        /\ SP!TimerTold(media, media', SP!Range(effects'))
        /\ SP!AllNumbered(media, media')
        /\ SP!InOrder(media, media', SP!Range(effects'))
    BY DEF SP!StepLawful, SP!Told
  <2>2. Stops
    BY <2>1, RuntimeVocabulary DEF SP!StopsTold
  <2>3. Waits
    BY <2>1, RuntimeVocabulary DEF SP!TimerTold
  <2>4. Ordered
    BY <2>1, RuntimeVocabulary DEF SP!InOrder, SP!Active, S!Active
  <2>5. Fresh
    BY <2>1, RuntimeVocabulary
       DEF SP!AllNumbered, SP!Numbered, SP!Into, S!Enters, SP!Active, S!Active
  <2> QED BY <2>2, <2>3, <2>4, <2>5
<1>2. IInv /\ IInv' /\ Handled => SP!StepLawful \/ UNCHANGED S!vars
  <2> SUFFICES ASSUME IInv, IInv', Handled PROVE SP!StepLawful \/ UNCHANGED S!vars
    OBVIOUS
  <2>1. SP!Good(media) /\ SP!Alive(media)
    BY DEF IInv, World, Now
  <2>2. runtime'.config \in Settings
    BY DEF IInv, World, Now, RuntimeOk
  <2>3. ConfigurationInForce => SP!StepLawful
    BY <2>1, <2>2, InForceIsLawful
  <2> QED BY <2>1, <2>3, HandledIsLawful DEF Handled, S!vars
<1>3. Init => IInv
  BY StartsWell
<1>4. IInv /\ [Next]_vars => IInv' /\ Handled
  BY StepKeeps, StutterKeeps
<1>5. IInv /\ [Next]_vars => [Stops]_S!vars /\ [Waits]_S!vars
                             /\ [Ordered]_S!vars /\ [Fresh]_S!vars
  <2> SUFFICES ASSUME IInv, [Next]_vars
               PROVE  [Stops]_S!vars /\ [Waits]_S!vars /\ [Ordered]_S!vars /\ [Fresh]_S!vars
    OBVIOUS
  <2>1. SP!StepLawful \/ UNCHANGED S!vars
    BY <1>2, <1>4
  <2> HIDE DEF Stops, Waits, Ordered, Fresh
  <2> QED BY <1>1, <2>1
<1> QED BY <1>3, <1>4, <1>5, PTL
        DEF Spec, S!StopsAreRequested, S!RetryTimerFollowsWait, S!ShutdownInOrder,
            S!GenerationsNameOneBranch

(* A command or an event handled twice is harmless in every state of the    *)
(* runtime.                                                                 *)
THEOREM HarmlessInRuntime == Spec => []S!DuplicatesHarmless
<1>1. Init => IInv
  BY StartsWell
<1>2. IInv /\ [Next]_vars => IInv'
  BY StepKeeps, StutterKeeps
<1>3. IInv => S!DuplicatesHarmless
  <2> SUFFICES ASSUME IInv, NEW e \in S!Event(media)
               PROVE  LET once == S!Reduce(media, e).state
                          twice == S!Reduce(once, e)
                      IN  twice.state = once /\ twice.effects = <<>>
    BY DEF S!DuplicatesHarmless
  <2>1. SP!Good(media) /\ e \in SP!Event(media)
    BY SameEvent DEF IInv, World, Now
  <2>2. SP!Harmless(media, e)
    BY <2>1, ReducerConstants, SP!ReduceHarmless
  <2> QED BY <2>2, SameReduce DEF SP!Harmless, SP!Still
<1> QED BY <1>1, <1>2, <1>3, PTL DEF Spec
=============================================================================
