-------------------------- MODULE MediaEngineProofs --------------------------
(* Theorems about MediaEngine: the fields of the engine agree with each     *)
(* other for any number of branches, generations, faults and callbacks; and *)
(* what its events say of the branches that leave, of the stops that end    *)
(* and of the fragments that are whole. For the latter each handler is      *)
(* followed from the record it starts on, through the records it makes on   *)
(* its way, to the one it leaves.                                           *)
EXTENDS MediaEngine, SequenceTheorems, FiniteSetTheorems, TLAPS

Fields ==
  {"pipeline", "capture_generation", "start_pending", "stop_pending", "shutdown_pending",
   "branches", "active", "finalizing", "rotations", "rotation_forced", "out"}

Tokens(e) == 1 .. Len(e.branches)

(* The shape of the record, whatever it has emitted; a token is active only *)
(* under its kind, and not while it is being removed.                       *)
Typed(e) ==
  /\ DOMAIN e = Fields
  /\ e.pipeline \in BOOLEAN /\ e.stop_pending \in BOOLEAN /\ e.shutdown_pending \in BOOLEAN
  /\ e.capture_generation \in Nat /\ e.start_pending \in 0 .. e.capture_generation
  /\ e.branches \in Seq(Branch)
  /\ e.active \in [Kind -> Tokens(e) \cup {0}]
  /\ e.finalizing \subseteq Tokens(e)
  /\ e.rotations \subseteq [old : Tokens(e), new : Tokens(e)]
  /\ e.rotation_forced \subseteq {r.old : r \in e.rotations}

Placed(e) ==
  /\ \A k \in Kind : e.active[k] # 0 =>
       e.active[k] \notin e.finalizing /\ e.branches[e.active[k]].kind = k
  /\ Held(e) # {} => e.pipeline
  /\ e.rotations # {} \/ e.start_pending # 0 => e.pipeline

(* There is one rotation at a time, to the fragment recorded now.           *)
Rotating(e) ==
  /\ \A r, q \in e.rotations : r = q
  /\ \A r \in e.rotations : r.old # r.new /\ r.new = e.active["recording"]

Body(e) == Typed(e) /\ Placed(e) /\ Rotating(e)

(* Its completion is not missed.                                            *)
Reported(e) ==
  \A r \in e.rotations : r.old \notin e.finalizing => ~e.branches[r.new].playing

(* What a stop has done to the branches; who answers it; what is left of it *)
(* to wait for.                                                             *)
Ending(e) == e.stop_pending => \A k \in Kind \ {"spectrum"} : e.active[k] = 0
Asked(e) == e.shutdown_pending => e.stop_pending
Waited(e) == e.stop_pending => Held(e) # {}

Sound(e) == Body(e) /\ Reported(e) /\ Ending(e) /\ Asked(e)
Consistent(e) == Sound(e) /\ Waited(e)

Grown(e, f) == Len(f.branches) \in Nat /\ Len(e.branches) <= Len(f.branches)

(* A handler that ends well.                                                *)
Well(e, f) == Consistent(f) /\ Grown(e, f)

-----------------------------------------------------------------------------
(* Two records that differ in what they have emitted and in what nothing    *)
(* above depends on.                                                        *)
Scalars(e, f) ==
  /\ DOMAIN f = Fields
  /\ f.pipeline = e.pipeline /\ f.stop_pending = e.stop_pending
  /\ f.shutdown_pending = e.shutdown_pending
  /\ f.capture_generation = e.capture_generation /\ f.start_pending = e.start_pending

KindsStand(e, f) ==
  /\ f.branches \in Seq(Branch) /\ Len(f.branches) = Len(e.branches)
  /\ \A t \in Tokens(e) : f.branches[t].kind = e.branches[t].kind

Alike(e, f) ==
  /\ Scalars(e, f) /\ KindsStand(e, f)
  /\ \A t \in Tokens(e) : f.branches[t].playing = e.branches[t].playing
  /\ f.active = e.active /\ f.finalizing = e.finalizing
  /\ f.rotations = e.rotations /\ f.rotation_forced = e.rotation_forced

LEMMA LengthIsNat ==
  ASSUME NEW e, e.branches \in Seq(Branch)
  PROVE  Len(e.branches) \in Nat
BY LenProperties

LEMMA AlikeStays ==
  ASSUME NEW e, NEW f, Alike(e, f), Body(e)
  PROVE  /\ Body(f)
         /\ Reported(e) => Reported(f)
         /\ Ending(e) => Ending(f)
         /\ Asked(e) => Asked(f)
         /\ Waited(e) => Waited(f)
         /\ Grown(e, f)
<1>1. Typed(f)
  BY DEF Alike, Scalars, KindsStand, Body, Typed, Tokens
<1>2. Held(f) = Held(e)
  BY DEF Alike, Held
<1>3. Placed(f)
  <2>1. \A k \in Kind : e.active[k] # 0 => e.active[k] \in Tokens(e)
    BY DEF Body, Typed
  <2>2. QED BY <1>2, <2>1 DEF Alike, Scalars, KindsStand, Body, Placed
<1>4. Rotating(f)
  BY DEF Alike, Body, Rotating
<1>5. Reported(e) => Reported(f)
  <2>1. \A r \in e.rotations : r.new \in Tokens(e)
    BY DEF Body, Typed
  <2>2. QED BY <2>1 DEF Alike, Reported
<1>6. (Ending(e) => Ending(f)) /\ (Asked(e) => Asked(f)) /\ (Waited(e) => Waited(f))
  BY <1>2 DEF Alike, Scalars, Ending, Asked, Waited
<1>7. Grown(e, f)
  <2>1. Len(e.branches) \in Nat
    BY LengthIsNat DEF Body, Typed
  <2>2. QED BY <2>1 DEF Alike, KindsStand, Grown
<1>8. QED BY <1>1, <1>3, <1>4, <1>5, <1>6, <1>7 DEF Body

LEMMA AlikeWell ==
  ASSUME NEW e, NEW f, Alike(e, f), Consistent(e)
  PROVE  Well(e, f)
BY AlikeStays DEF Consistent, Sound, Well

LEMMA AlikeSound ==
  ASSUME NEW e, NEW f, Alike(e, f), Sound(e)
  PROVE  Sound(f) /\ Grown(e, f)
BY AlikeStays DEF Sound

LEMMA Standing == ASSUME NEW e, Consistent(e) PROVE Well(e, e)
<1>1. Len(e.branches) \in Nat
  BY LengthIsNat DEF Consistent, Sound, Body, Typed
<1>2. QED BY <1>1 DEF Well, Grown

LEMMA EmitAlike ==
  ASSUME NEW e, NEW event, DOMAIN e = Fields, e.branches \in Seq(Branch)
  PROVE  Alike(e, Emit(e, event))
BY DEF Emit, Fields, Alike, Scalars, KindsStand

LEMMA EmitSound ==
  ASSUME NEW e, NEW event, Sound(e)
  PROVE  Sound(Emit(e, event)) /\ Alike(e, Emit(e, event)) /\ Grown(e, Emit(e, event))
BY EmitAlike, AlikeSound DEF Sound, Body, Typed

LEMMA EmitWell ==
  ASSUME NEW e, NEW event, Consistent(e)
  PROVE  Well(e, Emit(e, event)) /\ Alike(e, Emit(e, event))
BY EmitAlike, AlikeWell DEF Consistent, Sound, Body, Typed

LEMMA WellThen ==
  ASSUME NEW e, NEW f, NEW g, Well(e, f), Well(f, g)
  PROVE  Well(e, g)
BY DEF Well, Grown

-----------------------------------------------------------------------------
(* A branch that begins to be removed: it leaves the active ones, if it is  *)
(* there, and joins those being finalized. Its rotation is given up, unless *)
(* it is the one that retires.                                              *)
Retired(e, f, t) ==
  /\ Scalars(e, f) /\ KindsStand(e, f)
  /\ \A i \in Tokens(e) : f.branches[i].playing = e.branches[i].playing
  /\ f.active \in [Kind -> Tokens(e) \cup {0}]
  /\ \A k \in Kind : f.active[k] = IF e.active[k] = t THEN 0 ELSE e.active[k]
  /\ f.finalizing = e.finalizing \cup {t}
  /\ f.rotations \subseteq e.rotations
  /\ \A r \in f.rotations : r.new # t
  /\ f.rotation_forced \subseteq {r.old : r \in f.rotations}

LEMMA RetiredSound ==
  ASSUME NEW e, NEW f, NEW t \in Tokens(e), Retired(e, f, t), Body(e), e.pipeline
  PROVE  /\ Body(f)
         /\ Reported(e) => Reported(f)
         /\ Ending(e) => Ending(f)
         /\ Asked(e) => Asked(f)
         /\ Waited(f) /\ Grown(e, f)
<1>1. Len(e.branches) \in Nat
  BY LengthIsNat DEF Body, Typed
<1>2. t # 0
  BY <1>1 DEF Tokens
<1>3. Typed(f)
  BY <1>1 DEF Retired, Scalars, KindsStand, Body, Typed, Tokens
<1>4. Placed(f)
  <2>1. ASSUME NEW k \in Kind, f.active[k] # 0
        PROVE  f.active[k] \notin f.finalizing /\ f.branches[f.active[k]].kind = k
    <3>1. f.active[k] = e.active[k] /\ e.active[k] # t
      BY <2>1 DEF Retired
    <3>2. e.active[k] \in Tokens(e)
      BY <2>1, <3>1 DEF Body, Typed
    <3>3. QED BY <2>1, <3>1, <3>2 DEF Retired, KindsStand, Body, Placed
  <2>2. f.pipeline
    BY DEF Retired, Scalars
  <2>3. QED BY <2>1, <2>2 DEF Placed
<1>5. Rotating(f)
  <2>1. \A r \in f.rotations : r \in e.rotations /\ r.new = e.active["recording"] /\ r.new # t
    BY DEF Retired, Body, Rotating
  <2>2. "recording" \in Kind
    BY DEF Kind
  <2>3. QED BY <2>1, <2>2 DEF Retired, Body, Rotating
<1>6. Reported(e) => Reported(f)
  <2>1. \A r \in f.rotations : r \in e.rotations /\ r.new \in Tokens(e)
    BY DEF Retired, Body, Typed
  <2>2. QED BY <2>1 DEF Retired, Reported
<1>7. (Ending(e) => Ending(f)) /\ (Asked(e) => Asked(f))
  BY DEF Retired, Scalars, Ending, Asked
<1>8. Waited(f)
  BY DEF Retired, Waited, Held
<1>9. Grown(e, f)
  BY <1>1 DEF Retired, KindsStand, Grown
<1>10. QED BY <1>3, <1>4, <1>5, <1>6, <1>7, <1>8, <1>9 DEF Body

(* What CancelRotation leaves.                                              *)
LEMMA Cancelled ==
  ASSUME NEW e, NEW t, Typed(e)
  PROVE  LET f == CancelRotation(e, t)
         IN /\ Scalars(e, f)
            /\ f.branches = e.branches /\ f.active = e.active /\ f.finalizing = e.finalizing
            /\ f.rotations \subseteq e.rotations
            /\ \A r \in f.rotations : r.new # t /\ r.old # t
            /\ f.rotation_forced \subseteq {r.old : r \in f.rotations}
<1> DEFINE C == {r \in e.rotations : t \in {r.old, r.new}}
           f == CancelRotation(e, t)
<1>1. f = [e EXCEPT !.rotations = e.rotations \ C,
                    !.rotation_forced = e.rotation_forced \ {r.old : r \in C}]
  BY DEF CancelRotation
<1>2. DOMAIN e = Fields
  BY DEF Typed
<1>3. /\ Scalars(e, f)
      /\ f.branches = e.branches /\ f.active = e.active /\ f.finalizing = e.finalizing
      /\ f.rotations = e.rotations \ C
      /\ f.rotation_forced = e.rotation_forced \ {r.old : r \in C}
  BY <1>1, <1>2 DEF Fields, Scalars
<1>4. f.rotation_forced \subseteq {r.old : r \in f.rotations}
  <2>1. ASSUME NEW x \in f.rotation_forced
        PROVE  x \in {r.old : r \in f.rotations}
    <3>1. x \in e.rotation_forced /\ x \notin {r.old : r \in C}
      BY <1>3, <2>1
    <3>2. PICK r \in e.rotations : r.old = x
      BY <3>1 DEF Typed
    <3>3. r \notin C
      BY <3>1, <3>2
    <3>4. QED BY <1>3, <3>2, <3>3
  <2>2. QED BY <2>1
<1>5. \A r \in f.rotations : r.new # t /\ r.old # t
  BY <1>3
<1>6. QED BY <1>3, <1>4, <1>5

(* What BeginRemoveHandle does.                                             *)
LEMMA Handled ==
  ASSUME NEW e, NEW t \in Tokens(e), NEW drain \in BOOLEAN,
         DOMAIN e = Fields, e.branches \in Seq(Branch)
  PROVE  LET f == BeginRemoveHandle(e, t, drain)
         IN /\ Scalars(e, f) /\ KindsStand(e, f)
            /\ \A i \in Tokens(e) : f.branches[i].playing = e.branches[i].playing
            /\ f.active = e.active /\ f.finalizing = e.finalizing \cup {t}
            /\ f.rotations = e.rotations /\ f.rotation_forced = e.rotation_forced
<1> DEFINE f == BeginRemoveHandle(e, t, drain)
<1>1. CASE t \in e.finalizing
  <2>1. f = e /\ e.finalizing = e.finalizing \cup {t}
    BY <1>1 DEF BeginRemoveHandle
  <2>2. QED BY <2>1 DEF Scalars, KindsStand
<1>2. CASE t \notin e.finalizing
  <2> DEFINE b == [e.branches[t] EXCEPT !.drain = drain]
             bs == [e.branches EXCEPT ![t] = b]
  <2>1. b \in Branch /\ b.kind = e.branches[t].kind /\ b.playing = e.branches[t].playing
    <3> DEFINE old == e.branches[t]
    <3>1. old \in Branch
      BY DEF Tokens
    <3> HIDE DEF old
    <3>2. [old EXCEPT !.drain = drain] \in Branch
      BY <3>1 DEF Branch
    <3>3. QED BY <3>1, <3>2 DEF old, Branch
  <2>2. bs \in Seq(Branch) /\ Len(bs) = Len(e.branches)
        /\ \A i \in Tokens(e) : bs[i] = IF i = t THEN b ELSE e.branches[i]
    <3> HIDE DEF b
    <3>1. QED BY <2>1, ExceptSeq DEF Tokens
  <2>3. f = [e EXCEPT !.finalizing = e.finalizing \cup {t}, !.branches = bs]
    BY <1>2 DEF BeginRemoveHandle, Fields
  <2> HIDE DEF b, bs, f
  <2>4. /\ Scalars(e, f) /\ f.branches = bs /\ f.active = e.active
        /\ f.finalizing = e.finalizing \cup {t}
        /\ f.rotations = e.rotations /\ f.rotation_forced = e.rotation_forced
    BY <2>3 DEF Fields, Scalars
  <2>5. QED BY <2>1, <2>2, <2>4 DEF KindsStand, f
<1>3. QED BY <1>1, <1>2

LEMMA RemovalBegins ==
  ASSUME NEW e, NEW kind \in Kind, NEW drain \in BOOLEAN, Body(e)
  PROVE  LET f == BeginRemove(e, kind, drain)
         IN /\ Body(f)
            /\ Reported(e) => Reported(f)
            /\ Ending(e) => Ending(f)
            /\ Asked(e) => Asked(f)
            /\ Waited(e) => Waited(f)
            /\ Held(e) # {} => Held(f) # {}
            /\ Scalars(e, f) /\ Len(f.branches) = Len(e.branches)
            /\ \A k \in Kind : f.active[k] = IF k = kind THEN 0 ELSE e.active[k]
            /\ Grown(e, f)
<1> DEFINE t == e.active[kind]
           f == BeginRemove(e, kind, drain)
<1>0. Len(e.branches) \in Nat
  BY LengthIsNat DEF Body, Typed
<1>1. CASE t = 0
  <2>1. f = e
    BY <1>1 DEF BeginRemove
  <2>2. Scalars(e, e)
    BY DEF Scalars, Body, Typed
  <2>3. QED BY <1>0, <1>1, <2>1, <2>2 DEF Grown
<1>2. CASE t # 0
  <2> DEFINE e1 == [e EXCEPT !.active[kind] = 0]
             e2 == CancelRotation(e1, t)
  <2>1. t \in Tokens(e) /\ e.pipeline
    BY <1>2 DEF Body, Typed, Placed, Held
  <2>2. f = BeginRemoveHandle(e2, t, drain)
    BY <1>2 DEF BeginRemove
  <2>3. /\ Scalars(e, e1) /\ e1.branches = e.branches /\ e1.finalizing = e.finalizing
        /\ e1.rotations = e.rotations /\ e1.rotation_forced = e.rotation_forced
        /\ e1.active = [e.active EXCEPT ![kind] = 0]
    BY DEF Scalars, Fields, Body, Typed
  <2>4. Typed(e1)
    BY <2>3 DEF Body, Typed, Scalars, Tokens
  <2> HIDE DEF e1
  <2>5. /\ Scalars(e1, e2)
        /\ e2.branches = e1.branches /\ e2.active = e1.active /\ e2.finalizing = e1.finalizing
        /\ e2.rotations \subseteq e1.rotations
        /\ \A r \in e2.rotations : r.new # t /\ r.old # t
        /\ e2.rotation_forced \subseteq {r.old : r \in e2.rotations}
    BY <2>4, Cancelled
  <2> HIDE DEF e2, f
  <2>6. DOMAIN e2 = Fields /\ e2.branches \in Seq(Branch) /\ t \in Tokens(e2)
    BY <2>1, <2>3, <2>5 DEF Scalars, Body, Typed, Tokens
  <2>7. /\ Scalars(e2, f) /\ KindsStand(e2, f)
        /\ \A i \in Tokens(e2) : f.branches[i].playing = e2.branches[i].playing
        /\ f.active = e2.active /\ f.finalizing = e2.finalizing \cup {t}
        /\ f.rotations = e2.rotations /\ f.rotation_forced = e2.rotation_forced
    BY <2>2, <2>6, Handled
  <2>8. Scalars(e, f) /\ KindsStand(e, f)
    BY <2>3, <2>5, <2>7 DEF Scalars, KindsStand, Tokens
  <2>9. \A k \in Kind : f.active[k] = IF k = kind THEN 0 ELSE e.active[k]
    BY <2>3, <2>5, <2>7 DEF Body, Typed
  <2>10. \A k \in Kind : e.active[k] = t => k = kind
    BY <1>2 DEF Body, Placed
  <2>11. Retired(e, f, t)
    <3>1. f.active \in [Kind -> Tokens(e) \cup {0}]
      BY <2>3, <2>5, <2>7 DEF Body, Typed
    <3>2. \A k \in Kind : f.active[k] = IF e.active[k] = t THEN 0 ELSE e.active[k]
      BY <2>9, <2>10
    <3>3. \A i \in Tokens(e) : f.branches[i].playing = e.branches[i].playing
      BY <2>3, <2>5, <2>7 DEF Tokens
    <3>4. QED BY <2>3, <2>5, <2>7, <2>8, <3>1, <3>2, <3>3 DEF Retired
  <2>12. Held(f) # {}
    BY <2>7 DEF Held
  <2>13. QED BY <2>1, <2>8, <2>9, <2>11, <2>12, RetiredSound DEF KindsStand, f
<1>3. QED BY <1>1, <1>2

LEMMA RemovalBeginsWell ==
  ASSUME NEW e, NEW kind \in Kind, NEW drain \in BOOLEAN, Consistent(e)
  PROVE  Well(e, BeginRemove(e, kind, drain))
BY RemovalBegins DEF Consistent, Sound, Well

-----------------------------------------------------------------------------
(* The end of a branch.                                                     *)
LEMMA Discarded ==
  ASSUME NEW e, NEW t \in Tokens(e), NEW forced \in BOOLEAN,
         DOMAIN e = Fields, e.branches \in Seq(Branch)
  PROVE  LET f == Discard(e, t, forced)
         IN /\ Scalars(e, f) /\ KindsStand(e, f)
            /\ \A i \in Tokens(e) : i # t => f.branches[i].playing = e.branches[i].playing
            /\ f.branches[t].playing = FALSE
            /\ f.active = e.active /\ f.finalizing = e.finalizing
            /\ f.rotations = e.rotations /\ f.rotation_forced = e.rotation_forced
<1> DEFINE old == e.branches[t]
           b == [NewBranch(old.kind, old.generation, old.announce) EXCEPT !.forced = forced]
           bs == [e.branches EXCEPT ![t] = b]
           f == Discard(e, t, forced)
<1>1. old \in Branch
  BY DEF Tokens
<1>2. b \in Branch /\ b.kind = old.kind /\ b.playing = FALSE
  <2> HIDE DEF old
  <2>1. QED BY <1>1 DEF NewBranch, Branch
<1>3. f = [e EXCEPT !.branches = bs]
  BY DEF Discard, Fields
<1> HIDE DEF b
<1>4. bs \in Seq(Branch) /\ Len(bs) = Len(e.branches)
      /\ \A i \in Tokens(e) : bs[i] = IF i = t THEN b ELSE e.branches[i]
  BY <1>2, ExceptSeq DEF Tokens
<1> HIDE DEF bs, f
<1>5. /\ Scalars(e, f) /\ f.branches = bs /\ f.active = e.active
      /\ f.finalizing = e.finalizing
      /\ f.rotations = e.rotations /\ f.rotation_forced = e.rotation_forced
  BY <1>3 DEF Fields, Scalars
<1>6. QED BY <1>2, <1>4, <1>5 DEF KindsStand, f, old

(* A rotation is reported when the last of its two halves is done.          *)
LEMMA RotationCompletes ==
  ASSUME NEW e, NEW t, NEW forced, Body(e),
         \A r \in e.rotations : r.old # t => (r.old \notin e.finalizing => ~e.branches[r.new].playing)
  PROVE  LET f == CompleteRotation(e, t, forced)
         IN /\ Body(f) /\ Reported(f) /\ Scalars(e, f)
            /\ f.branches = e.branches /\ f.active = e.active /\ f.finalizing = e.finalizing
<1> DEFINE f == CompleteRotation(e, t, forced)
<1>0. Scalars(e, e)
  BY DEF Scalars, Body, Typed
<1>1. CASE \A r \in ReadyRotations(e) : r.old # t
  <2>1. f = e
    BY <1>1 DEF CompleteRotation
  <2>2. Reported(e)
    <3>1. ASSUME NEW r \in e.rotations, r.old \notin e.finalizing, e.branches[r.new].playing
          PROVE  FALSE
      <4>1. r.new = e.active["recording"] /\ r.new \in Tokens(e)
        BY DEF Body, Typed, Rotating
      <4>2. r.new # 0
        BY <4>1, LengthIsNat DEF Tokens, Body, Typed
      <4>3. r.new \notin e.finalizing
        BY <4>1, <4>2 DEF Body, Placed, Kind
      <4>4. r \in ReadyRotations(e)
        BY <3>1, <4>1, <4>3 DEF ReadyRotations
      <4>5. QED BY <1>1, <3>1, <4>4
    <3>2. QED BY <3>1 DEF Reported
  <2>3. QED BY <1>0, <2>1, <2>2
<1>2. CASE \E r \in ReadyRotations(e) : r.old = t
  <2> DEFINE r == CHOOSE q \in ReadyRotations(e) : q.old = t
             g == [e EXCEPT !.rotations = e.rotations \ {r}, !.rotation_forced = e.rotation_forced \ {t}]
  <2>1. r \in ReadyRotations(e) /\ r.old = t
    BY <1>2
  <2>2. r \in e.rotations
    BY <2>1 DEF ReadyRotations
  <2>3. f = Emit(g, Rotated(e, r, forced \/ t \in e.rotation_forced))
    BY <1>2 DEF CompleteRotation
  <2> HIDE DEF r
  <2>4. e.rotations \ {r} = {}
    BY <2>2 DEF Body, Rotating
  <2>5. e.rotation_forced \ {t} = {}
    <3>1. \A q \in e.rotations : q.old = t
      BY <2>1, <2>2 DEF Body, Rotating
    <3>2. QED BY <3>1 DEF Body, Typed
  <2>6. /\ Scalars(e, f) /\ f.branches = e.branches /\ f.active = e.active /\ f.finalizing = e.finalizing
        /\ f.rotations = {} /\ f.rotation_forced = {}
    BY <2>3, <2>4, <2>5 DEF Emit, Fields, Scalars, Body, Typed
  <2> HIDE DEF f
  <2>7. Typed(f)
    BY <2>6 DEF Scalars, Body, Typed, Tokens
  <2>8. Placed(f)
    BY <2>6 DEF Scalars, Body, Placed, Held
  <2>9. Rotating(f) /\ Reported(f)
    BY <2>6 DEF Rotating, Reported
  <2>10. QED BY <2>6, <2>7, <2>8, <2>9 DEF Body, f
<1>3. QED BY <1>1, <1>2

(* An engine that has been emptied.                                         *)
LEMMA Emptied ==
  ASSUME NEW f, DOMAIN f = Fields, f.pipeline = FALSE, f.start_pending = 0,
         f.stop_pending = FALSE, f.shutdown_pending = FALSE,
         f.capture_generation \in Nat, f.branches \in Seq(Branch),
         f.active \in [Kind -> {0}], f.finalizing = {},
         f.rotations = {}, f.rotation_forced = {}
  PROVE  Consistent(f)
<1>1. Typed(f)
  <2>1. 0 \in 0 .. f.capture_generation
    OBVIOUS
  <2>2. f.active \in [Kind -> Tokens(f) \cup {0}]
    OBVIOUS
  <2>3. QED BY <2>1, <2>2 DEF Typed
<1>2. Held(f) = {}
  BY DEF Held
<1>3. Placed(f)
  BY <1>2 DEF Placed
<1>4. QED BY <1>1, <1>2, <1>3 DEF Consistent, Sound, Body, Rotating, Reported, Ending, Asked, Waited

LEMMA StopFinishes ==
  ASSUME NEW e, Sound(e)
  PROVE  Well(e, MaybeFinishCaptureStop(e))
<1> DEFINE f == MaybeFinishCaptureStop(e)
<1>0. Len(e.branches) \in Nat
  BY LengthIsNat DEF Sound, Body, Typed
<1>1. CASE ~e.stop_pending \/ Held(e) # {}
  <2>1. f = e
    BY <1>1 DEF MaybeFinishCaptureStop
  <2>2. QED BY <1>0, <1>1, <2>1 DEF Consistent, Waited, Well, Grown
<1>2. CASE e.stop_pending /\ Held(e) = {}
  <2> DEFINE g == [ForcePipelineNull(e) EXCEPT !.rotations = {}, !.rotation_forced = {}, !.stop_pending = FALSE]
  <2>1. f = EmitCaptureStopped(g, e.capture_generation)
    BY <1>2 DEF MaybeFinishCaptureStop
  <2>2. /\ DOMAIN g = Fields /\ g.pipeline = FALSE /\ g.start_pending = 0 /\ g.stop_pending = FALSE
        /\ g.rotations = {} /\ g.rotation_forced = {}
        /\ g.shutdown_pending = e.shutdown_pending /\ g.capture_generation = e.capture_generation
        /\ g.branches = e.branches /\ g.active = e.active /\ g.finalizing = e.finalizing
    BY DEF ForcePipelineNull, Sound, Body, Typed, Fields
  <2> HIDE DEF g
  <2>3. /\ DOMAIN f = Fields /\ f.pipeline = FALSE /\ f.start_pending = 0 /\ f.stop_pending = FALSE
        /\ f.rotations = {} /\ f.rotation_forced = {}
        /\ f.shutdown_pending = FALSE /\ f.capture_generation = e.capture_generation
        /\ f.branches = e.branches /\ f.active = e.active /\ f.finalizing = e.finalizing
    BY <2>1, <2>2 DEF EmitCaptureStopped, Emit, Sound, Body, Typed, Fields
  <2> HIDE DEF f
  <2>4. f.active \in [Kind -> {0}] /\ f.finalizing = {}
    BY <1>2, <2>3 DEF Held, Sound, Body, Typed
  <2>5. Consistent(f)
    BY <2>3, <2>4, Emptied DEF Sound, Body, Typed
  <2>6. QED BY <1>0, <2>3, <2>5 DEF Well, Grown, f
<1>3. QED BY <1>1, <1>2 DEF Sound, Body, Typed

LEMMA RemovalFinishes ==
  ASSUME NEW e, NEW t \in Tokens(e), NEW forced \in BOOLEAN, NEW closed \in BOOLEAN, Consistent(e)
  PROVE  Well(e, FinishRemove(e, t, forced, closed))
<1>1. CASE t \notin e.finalizing
  BY <1>1, Standing DEF FinishRemove
<1>2. CASE t \in e.finalizing
  <2> DEFINE b == e.branches[t]
             spoiled == forced \/ (b.kind = "recording" /\ (b.valve # "open" \/ ~closed))
             marked == IF forced /\ \E r \in e.rotations : r.old = t
                         THEN e.rotation_forced \cup {t} ELSE e.rotation_forced
             e1 == [e EXCEPT !.finalizing = e.finalizing \ {t}, !.rotation_forced = marked]
             gone == Discard(e1, t, spoiled)
             told == IF spoiled /\ b.kind = "recording"
                       THEN Emit(gone, BranchEvent(gone, "error", t)) ELSE gone
             said == Emit(told, Removed(told, t, spoiled))
             done == CompleteRotation(said, t, spoiled)
  <2>1. FinishRemove(e, t, forced, closed) = MaybeFinishCaptureStop(done)
    BY <1>2 DEF FinishRemove
  <2>2. marked \subseteq {r.old : r \in e.rotations}
    BY DEF Consistent, Sound, Body, Typed
  <2>3. spoiled \in BOOLEAN
    OBVIOUS
  <2> HIDE DEF marked, spoiled
  <2>4. /\ Scalars(e, e1) /\ e1.branches = e.branches /\ e1.active = e.active
        /\ e1.finalizing = e.finalizing \ {t} /\ e1.rotations = e.rotations
        /\ e1.rotation_forced = marked
    BY DEF Consistent, Sound, Body, Typed, Fields, Scalars
  <2> HIDE DEF e1
  <2>5. /\ Scalars(e1, gone) /\ KindsStand(e1, gone)
        /\ \A i \in Tokens(e1) : i # t => gone.branches[i].playing = e1.branches[i].playing
        /\ gone.branches[t].playing = FALSE
        /\ gone.active = e1.active /\ gone.finalizing = e1.finalizing
        /\ gone.rotations = e1.rotations /\ gone.rotation_forced = e1.rotation_forced
    <3>1. t \in Tokens(e1) /\ DOMAIN e1 = Fields /\ e1.branches \in Seq(Branch)
      BY <2>4 DEF Scalars, Tokens, Consistent, Sound, Body, Typed
    <3>2. QED BY <2>3, <3>1, Discarded
  <2> HIDE DEF gone
  <2>6. Scalars(e, gone) /\ KindsStand(e, gone)
    BY <2>4, <2>5 DEF Scalars, KindsStand, Tokens
  <2>7. Body(gone)
    <3>1. Typed(gone)
      BY <2>2, <2>4, <2>5, <2>6 DEF Scalars, KindsStand, Tokens, Consistent, Sound, Body, Typed
    <3>2. Placed(gone)
      <4>1. \A k \in Kind : e.active[k] # 0 => e.active[k] \in Tokens(e)
        BY DEF Consistent, Sound, Body, Typed
      <4>2. Held(gone) \subseteq Held(e)
        BY <2>4, <2>5 DEF Held
      <4>3. QED BY <2>4, <2>5, <2>6, <4>1, <4>2
            DEF Scalars, KindsStand, Consistent, Sound, Body, Placed
    <3>3. Rotating(gone)
      BY <2>4, <2>5 DEF Consistent, Sound, Body, Rotating
    <3>4. QED BY <3>1, <3>2, <3>3 DEF Body
  <2>8. Body(told) /\ Alike(gone, told)
    <3>1. Alike(gone, gone)
      BY <2>7 DEF Body, Typed, Alike, Scalars, KindsStand
    <3>2. QED BY <2>7, <3>1, EmitAlike, AlikeStays DEF Body, Typed
  <2> HIDE DEF told
  <2>9. Body(said) /\ Alike(told, said)
    BY <2>8, EmitAlike, AlikeStays DEF Body, Typed
  <2> HIDE DEF said
  <2>10. \A r \in said.rotations : r.old # t => (r.old \notin said.finalizing => ~said.branches[r.new].playing)
    <3>1. ASSUME NEW r \in said.rotations, r.old # t, r.old \notin said.finalizing
          PROVE  ~said.branches[r.new].playing
      <4>1. r \in e.rotations /\ r.old \notin e.finalizing
        BY <2>4, <2>5, <2>8, <2>9, <3>1 DEF Alike
      <4>2. r.new \in Tokens(e) /\ ~e.branches[r.new].playing
        BY <4>1 DEF Consistent, Sound, Body, Typed, Reported
      <4>3. ~gone.branches[r.new].playing
        BY <2>4, <2>5, <4>2 DEF Tokens
      <4>4. QED BY <2>6, <2>8, <2>9, <4>2, <4>3 DEF Alike, KindsStand, Tokens
    <3>2. QED BY <3>1
  <2>11. /\ Body(done) /\ Reported(done) /\ Scalars(said, done)
         /\ done.branches = said.branches /\ done.active = said.active /\ done.finalizing = said.finalizing
    BY <2>9, <2>10, RotationCompletes
  <2> HIDE DEF done
  <2>12. Scalars(e, done) /\ done.active = e.active /\ Len(done.branches) = Len(e.branches)
    BY <2>4, <2>5, <2>6, <2>8, <2>9, <2>11 DEF Scalars, Alike, KindsStand
  <2>13. Sound(done)
    BY <2>11, <2>12 DEF Scalars, Consistent, Sound, Ending, Asked
  <2>14. Well(done, MaybeFinishCaptureStop(done))
    BY <2>13, StopFinishes
  <2>15. QED BY <2>1, <2>12, <2>14 DEF Well, Grown
<1>3. QED BY <1>1, <1>2

(* A branch is detached by an error.                                        *)
LEMMA DetachWell ==
  ASSUME NEW e, NEW t \in Held(e), NEW closed \in BOOLEAN, Consistent(e)
  PROVE  Well(e, DetachBranch(e, t, closed))
<1> DEFINE retiring == \E r \in e.rotations : r.old = t
           marked == [e EXCEPT !.rotation_forced = e.rotation_forced \cup {t}]
           base == IF retiring THEN marked ELSE CancelRotation(e, t)
           k == e.branches[t].kind
           cut == IF e.active[k] = t THEN [base EXCEPT !.active[k] = 0] ELSE base
           f == DetachBranch(e, t, closed)
<1>0. Len(e.branches) \in Nat /\ t \in Tokens(e) /\ t # 0 /\ e.pipeline /\ k \in Kind
  <2>1. Len(e.branches) \in Nat /\ t \in Tokens(e)
    BY LengthIsNat DEF Held, Consistent, Sound, Body, Typed
  <2>2. t # 0
    BY <2>1 DEF Tokens
  <2>3. e.branches[t] \in Branch
    BY <2>1 DEF Tokens, Consistent, Sound, Body, Typed
  <2>4. QED BY <2>1, <2>2, <2>3 DEF Branch, Consistent, Sound, Body, Placed
<1>1. /\ Scalars(e, marked) /\ marked.branches = e.branches /\ marked.active = e.active
      /\ marked.finalizing = e.finalizing /\ marked.rotations = e.rotations
      /\ marked.rotation_forced = e.rotation_forced \cup {t}
  BY DEF Scalars, Fields, Consistent, Sound, Body, Typed
<1> HIDE DEF marked
<1>2. CASE retiring /\ t \in e.finalizing
  <2>1. f = FinishRemove(marked, t, TRUE, closed)
    BY <1>2 DEF DetachBranch, marked
  <2>2. Consistent(marked)
    <3>1. Typed(marked)
      BY <1>1, <1>2 DEF Scalars, Tokens, Consistent, Sound, Body, Typed
    <3>2. Held(marked) = Held(e)
      BY <1>1 DEF Held
    <3>3. Placed(marked) /\ Rotating(marked)
      BY <1>1, <3>2 DEF Scalars, Consistent, Sound, Body, Placed, Rotating
    <3>4. QED BY <1>1, <3>1, <3>2, <3>3
          DEF Scalars, Consistent, Sound, Body, Reported, Ending, Asked, Waited
  <2>3. t \in Tokens(marked)
    BY <1>0, <1>1 DEF Tokens
  <2>4. Well(marked, FinishRemove(marked, t, TRUE, closed))
    BY <2>2, <2>3, RemovalFinishes
  <2>5. QED BY <1>1, <2>1, <2>4 DEF Well, Grown
<1>3. CASE ~(retiring /\ t \in e.finalizing)
  <2>1. f = BeginRemoveHandle(cut, t, FALSE)
    BY <1>3 DEF DetachBranch, marked
  <2>2. /\ Scalars(e, base) /\ base.branches = e.branches /\ base.active = e.active
        /\ base.finalizing = e.finalizing /\ base.rotations \subseteq e.rotations
        /\ \A r \in base.rotations : r.new # t
        /\ base.rotation_forced \subseteq {r.old : r \in base.rotations}
    <3>1. CASE retiring
      <4>1. PICK r \in e.rotations : r.old = t
        BY <3>1
      <4>2. \A q \in e.rotations : q.new # t
        BY <4>1 DEF Consistent, Sound, Body, Rotating
      <4>3. base = marked
        BY <3>1
      <4>4. QED BY <1>1, <4>1, <4>2, <4>3 DEF Consistent, Sound, Body, Typed
    <3>2. CASE ~retiring
      <4>1. base = CancelRotation(e, t)
        BY <3>2
      <4>2. Typed(e)
        BY DEF Consistent, Sound, Body
      <4>3. QED BY <4>1, <4>2, Cancelled
    <3>3. QED BY <3>1, <3>2
  <2> HIDE DEF base
  <2>3. \A j \in Kind : e.active[j] = t => j = k
    BY <1>0 DEF Consistent, Sound, Body, Placed
  <2>4. /\ Scalars(e, cut) /\ cut.branches = e.branches
        /\ cut.active \in [Kind -> Tokens(e) \cup {0}]
        /\ \A j \in Kind : cut.active[j] = IF e.active[j] = t THEN 0 ELSE e.active[j]
        /\ cut.finalizing = e.finalizing /\ cut.rotations = base.rotations
        /\ cut.rotation_forced = base.rotation_forced
    <3>1. CASE e.active[k] = t
      <4>1. cut = [base EXCEPT !.active[k] = 0]
        BY <3>1
      <4>2. /\ Scalars(e, cut) /\ cut.branches = e.branches
            /\ cut.active = [e.active EXCEPT ![k] = 0]
            /\ cut.finalizing = e.finalizing /\ cut.rotations = base.rotations
            /\ cut.rotation_forced = base.rotation_forced
        BY <2>2, <4>1 DEF Scalars, Fields
      <4> HIDE DEF cut
      <4>3. e.active \in [Kind -> Tokens(e) \cup {0}]
        BY DEF Consistent, Sound, Body, Typed
      <4>4. \A j \in Kind : cut.active[j] = IF e.active[j] = t THEN 0 ELSE e.active[j]
        BY <1>0, <2>3, <3>1, <4>2, <4>3
      <4>5. cut.active \in [Kind -> Tokens(e) \cup {0}]
        BY <1>0, <4>2, <4>3
      <4>6. QED BY <4>2, <4>4, <4>5
    <3>2. CASE e.active[k] # t
      <4>1. cut = base
        BY <3>2
      <4>2. \A j \in Kind : e.active[j] # t
        BY <2>3, <3>2
      <4> HIDE DEF cut
      <4>3. e.active \in [Kind -> Tokens(e) \cup {0}]
        BY DEF Consistent, Sound, Body, Typed
      <4>4. QED BY <2>2, <4>1, <4>2, <4>3
    <3>3. QED BY <3>1, <3>2
  <2> HIDE DEF cut, f
  <2>5. /\ Scalars(cut, f) /\ KindsStand(cut, f)
        /\ \A i \in Tokens(cut) : f.branches[i].playing = cut.branches[i].playing
        /\ f.active = cut.active /\ f.finalizing = cut.finalizing \cup {t}
        /\ f.rotations = cut.rotations /\ f.rotation_forced = cut.rotation_forced
    <3>1. DOMAIN cut = Fields /\ cut.branches \in Seq(Branch) /\ t \in Tokens(cut)
      BY <1>0, <2>4 DEF Scalars, Tokens, Consistent, Sound, Body, Typed
    <3> DEFINE no == FALSE
    <3>2. no \in BOOLEAN /\ f = BeginRemoveHandle(cut, t, no)
      BY <2>1
    <3> HIDE DEF no
    <3>3. QED BY <3>1, <3>2, Handled
  <2>6. Retired(e, f, t)
    <3>1. Scalars(e, f) /\ KindsStand(e, f)
      BY <2>4, <2>5 DEF Scalars, KindsStand, Tokens
    <3>2. \A i \in Tokens(e) : f.branches[i].playing = e.branches[i].playing
      BY <2>4, <2>5 DEF Tokens
    <3>3. QED BY <2>2, <2>4, <2>5, <3>1, <3>2 DEF Retired
  <2>7. QED BY <1>0, <2>6, RetiredSound DEF Consistent, Sound, Well, f
<1>4. QED BY <1>2, <1>3

(* An overrun takes a branch out at once.                                   *)
LEMMA ForceWell ==
  ASSUME NEW e, NEW t \in Tokens(e), NEW forced \in BOOLEAN, Consistent(e),
         e.active[e.branches[t].kind] = t
  PROVE  Well(e, ForceRemoveNow(e, t, forced))
<1> DEFINE k == e.branches[t].kind
           e1 == [e EXCEPT !.active[k] = 0]
           e2 == CancelRotation(e1, t)
           gone == Discard(e2, t, forced)
           said == Emit(gone, Removed(gone, t, forced))
<1>1. ForceRemoveNow(e, t, forced) = MaybeFinishCaptureStop(said)
  BY DEF ForceRemoveNow
<1>2. Len(e.branches) \in Nat /\ k \in Kind /\ t # 0
  <2>1. Len(e.branches) \in Nat /\ e.branches[t] \in Branch
    BY LengthIsNat DEF Tokens, Consistent, Sound, Body, Typed
  <2>2. QED BY <2>1 DEF Branch, Tokens
<1>3. /\ Scalars(e, e1) /\ e1.branches = e.branches /\ e1.finalizing = e.finalizing
      /\ e1.rotations = e.rotations /\ e1.rotation_forced = e.rotation_forced
      /\ e1.active = [e.active EXCEPT ![k] = 0]
  BY DEF Scalars, Fields, Consistent, Sound, Body, Typed
<1>4. Typed(e1)
  BY <1>3, ZenonT(60) DEF Consistent, Sound, Body, Typed, Scalars, Tokens
<1> HIDE DEF e1
<1>5. /\ Scalars(e1, e2)
      /\ e2.branches = e1.branches /\ e2.active = e1.active /\ e2.finalizing = e1.finalizing
      /\ e2.rotations \subseteq e1.rotations
      /\ \A r \in e2.rotations : r.new # t /\ r.old # t
      /\ e2.rotation_forced \subseteq {r.old : r \in e2.rotations}
  BY <1>4, Cancelled
<1> HIDE DEF e2
<1>6. /\ Scalars(e2, gone) /\ KindsStand(e2, gone)
      /\ \A i \in Tokens(e2) : i # t => gone.branches[i].playing = e2.branches[i].playing
      /\ gone.active = e2.active /\ gone.finalizing = e2.finalizing
      /\ gone.rotations = e2.rotations /\ gone.rotation_forced = e2.rotation_forced
  <2>1. DOMAIN e2 = Fields /\ e2.branches \in Seq(Branch) /\ t \in Tokens(e2)
    BY <1>3, <1>5 DEF Scalars, Tokens, Consistent, Sound, Body, Typed
  <2>2. QED BY <2>1, Discarded
<1> HIDE DEF gone
<1>7. Scalars(e, gone) /\ KindsStand(e, gone)
  BY <1>3, <1>5, <1>6 DEF Scalars, KindsStand, Tokens
<1>8. \A j \in Kind : gone.active[j] = IF j = k THEN 0 ELSE e.active[j]
  BY <1>3, <1>5, <1>6 DEF Consistent, Sound, Body, Typed
<1>9. Typed(gone)
  <2>1. Tokens(gone) = Tokens(e1) /\ Tokens(e1) = Tokens(e)
    BY <1>3, <1>7 DEF KindsStand, Tokens
  <2>2. /\ gone.active \in [Kind -> Tokens(gone) \cup {0}]
        /\ gone.finalizing \subseteq Tokens(gone)
        /\ gone.rotations \subseteq [old : Tokens(gone), new : Tokens(gone)]
    BY <1>4, <1>5, <1>6, <2>1 DEF Typed
  <2>3. gone.rotation_forced \subseteq {r.old : r \in gone.rotations}
    BY <1>5, <1>6
  <2>4. QED BY <1>7, <2>2, <2>3 DEF Scalars, KindsStand, Consistent, Sound, Body, Typed
<1>10. Placed(gone)
  <2>1. \A j \in Kind : e.active[j] # 0 => e.active[j] \in Tokens(e)
    BY DEF Consistent, Sound, Body, Typed
  <2>2. Held(gone) \subseteq Held(e)
    BY <1>3, <1>5, <1>6, <1>8 DEF Held
  <2>3. QED BY <1>3, <1>5, <1>6, <1>7, <1>8, <2>1, <2>2
        DEF Scalars, KindsStand, Consistent, Sound, Body, Placed
<1>11. Rotating(gone)
  <2>1. \A r \in gone.rotations : r \in e.rotations /\ r.new = e.active["recording"] /\ r.new # t
    BY <1>3, <1>5, <1>6 DEF Consistent, Sound, Body, Rotating
  <2>2. "recording" \in Kind
    BY DEF Kind
  <2>3. QED BY <1>8, <2>1, <2>2 DEF Consistent, Sound, Body, Rotating
<1>12. Reported(gone)
  <2>1. \A r \in gone.rotations : r \in e.rotations /\ r.new # t /\ r.new \in Tokens(e)
    BY <1>3, <1>5, <1>6 DEF Consistent, Sound, Body, Typed
  <2>2. QED BY <1>3, <1>5, <1>6, <2>1 DEF Tokens, Consistent, Sound, Reported
<1>13. Sound(gone)
  BY <1>7, <1>8, <1>9, <1>10, <1>11, <1>12 DEF Scalars, Consistent, Sound, Body, Ending, Asked
<1>14. Sound(said) /\ Grown(e, said)
  <2>1. Sound(said) /\ Grown(gone, said)
    BY <1>13, EmitSound
  <2>2. QED BY <1>7, <2>1 DEF KindsStand, Grown
<1>15. QED BY <1>1, <1>14, StopFinishes DEF Well, Grown

(* The loss of capture takes everything with it.                            *)
LEMMA AllForced ==
  ASSUME NEW e, Consistent(e)
  PROVE  LET f == ForceAllBranches(e)
         IN /\ Scalars(e, f) /\ f.branches \in Seq(Branch) /\ Len(f.branches) = Len(e.branches)
            /\ f.active = [k \in Kind |-> 0] /\ f.finalizing = {}
            /\ f.rotations = {} /\ f.rotation_forced = {}
<1> DEFINE Gone(b) == [NewBranch(b.kind, b.generation, b.announce) EXCEPT !.forced = TRUE]
           bs == [t \in DOMAIN e.branches |-> IF t \in Held(e) THEN Gone(e.branches[t]) ELSE e.branches[t]]
           f == ForceAllBranches(e)
<1>1. DOMAIN e = Fields /\ e.branches \in Seq(Branch) /\ Len(e.branches) \in Nat
  BY LengthIsNat DEF Consistent, Sound, Body, Typed
<1>2. DOMAIN e.branches = 1 .. Len(e.branches) /\ \A t \in DOMAIN e.branches : e.branches[t] \in Branch
  BY <1>1
<1>3. ASSUME NEW b \in Branch PROVE Gone(b) \in Branch
  BY DEF NewBranch, Branch
<1>4. bs \in [1 .. Len(e.branches) -> Branch]
  <2> HIDE DEF Gone
  <2>1. QED BY <1>2, <1>3
<1>5. f = [e EXCEPT !.out = f.out, !.branches = bs, !.active = [k \in Kind |-> 0],
                    !.finalizing = {}, !.rotations = {}, !.rotation_forced = {}]
  BY <1>1 DEF ForceAllBranches, Fields
<1> HIDE DEF bs, f
<1>6. /\ Scalars(e, f) /\ f.branches = bs /\ f.active = [k \in Kind |-> 0] /\ f.finalizing = {}
      /\ f.rotations = {} /\ f.rotation_forced = {}
  BY <1>1, <1>5 DEF Scalars, Fields
<1>7. bs \in Seq(Branch) /\ Len(bs) = Len(e.branches)
  BY <1>1, <1>4
<1>8. QED BY <1>6, <1>7 DEF f

LEMMA FailCaptureWell ==
  ASSUME NEW e, NEW code, Consistent(e)
  PROVE  Well(e, FailCapture(e, code))
<1> DEFINE all == ForceAllBranches(e)
           down == [ForcePipelineNull(all) EXCEPT !.stop_pending = FALSE]
           event == [kind |-> "error", scope |-> "capture", generation |-> e.capture_generation, code |-> code]
           told == Emit(down, event)
           f == FailCapture(e, code)
<1>1. f = IF e.stop_pending \/ e.shutdown_pending
            THEN EmitCaptureStopped(told, e.capture_generation) ELSE told
  BY DEF FailCapture
<1>2. /\ Scalars(e, all) /\ all.branches \in Seq(Branch) /\ Len(all.branches) = Len(e.branches)
      /\ all.active = [k \in Kind |-> 0] /\ all.finalizing = {}
      /\ all.rotations = {} /\ all.rotation_forced = {}
  BY AllForced
<1> HIDE DEF all
<1>3. /\ DOMAIN told = Fields /\ told.pipeline = FALSE /\ told.start_pending = 0 /\ told.stop_pending = FALSE
      /\ told.shutdown_pending = e.shutdown_pending /\ told.capture_generation = e.capture_generation
      /\ told.branches = all.branches /\ told.active = all.active /\ told.finalizing = {}
      /\ told.rotations = {} /\ told.rotation_forced = {}
  BY <1>2 DEF Scalars, ForcePipelineNull, Emit, Fields
<1> HIDE DEF told
<1>4. /\ DOMAIN f = Fields /\ f.pipeline = FALSE /\ f.start_pending = 0 /\ f.stop_pending = FALSE
      /\ f.shutdown_pending = FALSE /\ f.capture_generation = e.capture_generation
      /\ f.branches = all.branches /\ f.active = all.active /\ f.finalizing = {}
      /\ f.rotations = {} /\ f.rotation_forced = {}
  <2>1. e.shutdown_pending \in BOOLEAN
    BY DEF Consistent, Sound, Body, Typed
  <2>2. CASE e.stop_pending \/ e.shutdown_pending
    <3>1. f = EmitCaptureStopped(told, e.capture_generation)
      BY <1>1, <2>2
    <3>2. QED BY <1>3, <2>1, <3>1 DEF EmitCaptureStopped, Emit, Fields
  <2>3. CASE ~(e.stop_pending \/ e.shutdown_pending)
    <3>1. f = told
      BY <1>1, <2>3
    <3>2. QED BY <1>3, <2>1, <2>3, <3>1
  <2>4. QED BY <2>2, <2>3
<1> HIDE DEF f
<1>5. Consistent(f)
  <2>1. f.active \in [Kind -> {0}] /\ e.capture_generation \in Nat
    BY <1>2, <1>4 DEF Consistent, Sound, Body, Typed
  <2>2. QED BY <1>2, <1>4, <2>1, Emptied
<1>6. Len(e.branches) \in Nat
  BY LengthIsNat DEF Consistent, Sound, Body, Typed
<1>7. QED BY <1>2, <1>4, <1>5, <1>6 DEF Well, Grown, f

-----------------------------------------------------------------------------
(* The operations the runtime invokes.                                      *)
(* A branch has been attached: it is the newest, and active under its kind. *)
Attached(e, f, kind) ==
  LET t == Len(e.branches) + 1
  IN /\ f.branches \in Seq(Branch) /\ Len(f.branches) = t
     /\ f.branches[t].playing = FALSE
     /\ f.active = [e.active EXCEPT ![kind] = t]
     /\ f.finalizing = e.finalizing
     /\ f.rotations = e.rotations /\ f.rotation_forced = e.rotation_forced

LEMMA BranchAdded ==
  ASSUME NEW e, NEW kind \in Kind, NEW g \in Nat, NEW announce \in BOOLEAN,
         Sound(e), e.pipeline,
         kind = "recording" => e.rotations = {},
         e.stop_pending => kind = "spectrum"
  PROVE  LET f == AddBranch(e, kind, g, announce)
         IN  Well(e, f) /\ Scalars(e, f) /\ Attached(e, f, kind)
<1> DEFINE t == Len(e.branches) + 1
           b == NewBranch(kind, g, announce)
           bs == Append(e.branches, b)
           added == [e EXCEPT !.branches = bs, !.active[kind] = t]
           f == AddBranch(e, kind, g, announce)
<1>0. Len(e.branches) \in Nat /\ e.branches \in Seq(Branch) /\ DOMAIN e = Fields
  BY LengthIsNat DEF Sound, Body, Typed
<1>1. f = IF kind \in Output THEN Emit(added, BranchEvent(added, "branch-created", t)) ELSE added
  BY DEF AddBranch
<1>2. b \in Branch /\ b.kind = kind /\ b.playing = FALSE
  BY DEF NewBranch, Branch
<1> HIDE DEF b
<1>3. /\ bs \in Seq(Branch) /\ Len(bs) = t
      /\ \A i \in Tokens(e) : bs[i] = e.branches[i]
      /\ bs[t] = b
  BY <1>0, <1>2, AppendProperties DEF Tokens
<1> HIDE DEF bs
<1>4. /\ Scalars(e, added) /\ added.branches = bs
      /\ added.active = [e.active EXCEPT ![kind] = t]
      /\ added.finalizing = e.finalizing
      /\ added.rotations = e.rotations /\ added.rotation_forced = e.rotation_forced
  BY <1>0 DEF Scalars, Fields
<1> HIDE DEF added
<1>5. /\ Scalars(e, f) /\ f.branches = bs
      /\ f.active = [e.active EXCEPT ![kind] = t]
      /\ f.finalizing = e.finalizing
      /\ f.rotations = e.rotations /\ f.rotation_forced = e.rotation_forced
  BY <1>1, <1>4 DEF Scalars, Fields, Emit
<1> HIDE DEF f
<1>6. \A k \in Kind : f.active[k] = IF k = kind THEN t ELSE e.active[k]
  BY <1>5 DEF Sound, Body, Typed
<1>7. Typed(f)
  <2>1. \A i \in Tokens(e) : i \in Tokens(f)
    BY <1>0, <1>3, <1>5 DEF Tokens
  <2>2. t \in Tokens(f)
    BY <1>0, <1>3, <1>5 DEF Tokens
  <2>3. f.active \in [Kind -> Tokens(f) \cup {0}]
    BY <1>5, <2>1, <2>2 DEF Sound, Body, Typed
  <2>4. f.finalizing \subseteq Tokens(f) /\ f.rotations \subseteq [old : Tokens(f), new : Tokens(f)]
    BY <1>5, <2>1 DEF Sound, Body, Typed
  <2>5. QED BY <1>3, <1>5, <2>3, <2>4 DEF Scalars, Sound, Body, Typed
<1>8. Placed(f)
  <2>1. ASSUME NEW k \in Kind, f.active[k] # 0
        PROVE  f.active[k] \notin f.finalizing /\ f.branches[f.active[k]].kind = k
    <3>1. CASE k = kind
      <4>1. t \notin e.finalizing
        BY <1>0 DEF Tokens, Sound, Body, Typed
      <4>2. QED BY <1>2, <1>3, <1>5, <1>6, <3>1, <4>1
    <3>2. CASE k # kind
      <4>1. f.active[k] = e.active[k] /\ e.active[k] \in Tokens(e)
        BY <1>6, <2>1, <3>2 DEF Sound, Body, Typed
      <4>2. e.active[k] \notin e.finalizing /\ e.branches[e.active[k]].kind = k
        BY <2>1, <4>1 DEF Sound, Body, Placed
      <4>3. f.branches[e.active[k]] = e.branches[e.active[k]]
        BY <1>3, <1>5, <4>1
      <4>4. QED BY <1>5, <4>1, <4>2, <4>3
    <3>3. QED BY <3>1, <3>2
  <2>2. QED BY <1>5, <2>1 DEF Scalars, Placed
<1>9. Rotating(f) /\ Reported(f)
  <2>1. "recording" \in Kind
    BY DEF Kind
  <2>2. \A r \in e.rotations : r.new \in Tokens(e) /\ kind # "recording"
    BY DEF Sound, Body, Typed
  <2>3. Rotating(f)
    BY <1>5, <1>6, <2>1, <2>2 DEF Sound, Body, Rotating
  <2>4. \A r \in e.rotations : f.branches[r.new] = e.branches[r.new]
    BY <1>3, <1>5, <2>2
  <2>5. Reported(f)
    BY <1>5, <2>4 DEF Sound, Reported
  <2>6. QED BY <2>3, <2>5
<1>10. Ending(f) /\ Asked(f)
  BY <1>5, <1>6 DEF Scalars, Sound, Ending, Asked
<1>11. Waited(f)
  <2>1. t \in Held(f)
    BY <1>0, <1>6 DEF Held
  <2>2. QED BY <2>1 DEF Waited
<1>12. Grown(e, f)
  BY <1>0, <1>3, <1>5 DEF Grown
<1>13. Well(e, f)
  BY <1>7, <1>8, <1>9, <1>10, <1>11, <1>12 DEF Well, Consistent, Sound, Body
<1>14. Attached(e, f, kind)
  BY <1>2, <1>3, <1>5 DEF Attached
<1>15. QED BY <1>5, <1>13, <1>14 DEF f

LEMMA MonitoringWell ==
  ASSUME NEW e, NEW kind \in {"level", "spectrum"}, NEW added \in BOOLEAN,
         Consistent(e), e.pipeline, e.stop_pending => kind = "spectrum"
  PROVE  Well(e, TryAddMonitoring(e, kind, e.capture_generation, added))
<1>1. CASE added
  <2>1. kind \in Kind /\ kind # "recording" /\ e.capture_generation \in Nat /\ Sound(e)
    BY DEF Kind, Consistent, Sound, Body, Typed
  <2>2. Well(e, AddBranch(e, kind, e.capture_generation, FALSE))
    BY <2>1, BranchAdded
  <2>3. QED BY <1>1, <2>2 DEF TryAddMonitoring
<1>2. CASE ~added
  BY <1>2, EmitWell DEF TryAddMonitoring
<1>3. QED BY <1>1, <1>2

LEMMA StartCaptureWell ==
  ASSUME NEW e, NEW plays \in BOOLEAN, NEW level \in BOOLEAN, Consistent(e)
  PROVE  Well(e, StartCapture(e, plays, level))
<1> DEFINE g == e.capture_generation + 1
           begun == [e EXCEPT !.capture_generation = g]
           up == [begun EXCEPT !.pipeline = TRUE, !.start_pending = g]
           off == [begun EXCEPT !.start_pending = 0]
<1>1. CASE e.pipeline
  BY <1>1, Standing DEF StartCapture
<1>2. CASE ~e.pipeline
  <2>0. /\ DOMAIN e = Fields /\ e.capture_generation \in Nat /\ g \in Nat
        /\ e.stop_pending = FALSE /\ e.shutdown_pending = FALSE /\ e.start_pending = 0
        /\ e.rotations = {} /\ Held(e) = {} /\ Len(e.branches) \in Nat
    BY <1>2, LengthIsNat DEF Consistent, Sound, Body, Typed, Placed, Waited, Asked
  <2>1. CASE plays
    <3>1. /\ DOMAIN up = Fields /\ up.pipeline = TRUE /\ up.stop_pending = FALSE
          /\ up.shutdown_pending = FALSE /\ up.capture_generation = g /\ up.start_pending = g
          /\ up.branches = e.branches /\ up.active = e.active /\ up.finalizing = e.finalizing
          /\ up.rotations = {} /\ up.rotation_forced = e.rotation_forced
      BY <2>0 DEF Fields
    <3> HIDE DEF up
    <3>2. Typed(up)
      <4>1. g \in 0 .. g /\ Tokens(up) = Tokens(e)
        BY <2>0, <3>1 DEF Tokens
      <4>2. Typed(e)
        BY DEF Consistent, Sound, Body
      <4> HIDE DEF g
      <4>3. up.active \in [Kind -> Tokens(up) \cup {0}]
        BY <3>1, <4>1, <4>2 DEF Typed
      <4>4. up.rotation_forced \subseteq {r.old : r \in up.rotations}
        BY <2>0, <3>1, <4>2 DEF Typed
      <4>5. QED BY <2>0, <3>1, <4>1, <4>2, <4>3, <4>4 DEF Typed
    <3>3. Consistent(up)
      BY <3>1, <3>2 DEF Consistent, Sound, Body, Placed, Rotating, Reported, Ending, Asked, Waited
    <3>4. Well(up, TryAddMonitoring(up, "level", g, level))
      BY <3>1, <3>3, MonitoringWell
    <3>5. StartCapture(e, plays, level) = TryAddMonitoring(up, "level", g, level)
      BY <1>2, <2>1 DEF StartCapture, up
    <3>6. QED BY <3>1, <3>4, <3>5 DEF Well, Grown
  <2>2. CASE ~plays
    <3>1. /\ DOMAIN off = Fields /\ off.pipeline = e.pipeline /\ off.stop_pending = FALSE
          /\ off.shutdown_pending = FALSE /\ off.capture_generation = g /\ off.start_pending = 0
          /\ off.branches = e.branches /\ off.active = e.active /\ off.finalizing = e.finalizing
          /\ off.rotations = {} /\ off.rotation_forced = e.rotation_forced
      BY <2>0 DEF Fields
    <3> HIDE DEF off
    <3>2. Typed(off)
      <4>1. 0 \in 0 .. g /\ Tokens(off) = Tokens(e)
        BY <2>0, <3>1 DEF Tokens
      <4>2. Typed(e)
        BY DEF Consistent, Sound, Body
      <4> HIDE DEF g
      <4>3. off.active \in [Kind -> Tokens(off) \cup {0}]
        BY <3>1, <4>1, <4>2 DEF Typed
      <4>4. off.rotation_forced \subseteq {r.old : r \in off.rotations}
        BY <2>0, <3>1, <4>2 DEF Typed
      <4>5. QED BY <2>0, <3>1, <4>1, <4>2, <4>3, <4>4 DEF Typed
    <3>3. Held(off) = {}
      BY <2>0, <3>1 DEF Held
    <3>4. Consistent(off)
      BY <2>0, <3>1, <3>2, <3>3 DEF Consistent, Sound, Body, Placed, Rotating, Reported, Ending, Asked, Waited
    <3>5. PICK event : StartCapture(e, plays, level) = Emit(off, event)
      BY <1>2, <2>2 DEF StartCapture, off
    <3>6. Well(off, Emit(off, event))
      BY <3>4, EmitWell
    <3>7. QED BY <3>1, <3>5, <3>6 DEF Well, Grown
  <2>3. QED BY <2>1, <2>2
<1>3. QED BY <1>1, <1>2 DEF Consistent, Sound, Body, Typed

(* Stopping does not depend on whether the shutdown asked for it.           *)
LEMMA StopCaptureWell ==
  ASSUME NEW e, Body(e), Reported(e), Ending(e), Waited(e)
  PROVE  Well(e, StopCapture(e))
<1>0. DOMAIN e = Fields /\ e.branches \in Seq(Branch) /\ Len(e.branches) \in Nat
  BY LengthIsNat DEF Body, Typed
<1>1. CASE ~e.pipeline
  <2> DEFINE f == StopCapture(e)
  <2>1. f = EmitCaptureStopped(e, e.capture_generation)
    BY <1>1 DEF StopCapture
  <2>2. /\ DOMAIN f = Fields /\ f.pipeline = e.pipeline /\ f.start_pending = e.start_pending
        /\ f.stop_pending = e.stop_pending /\ f.shutdown_pending = FALSE
        /\ f.capture_generation = e.capture_generation
        /\ f.branches = e.branches /\ f.active = e.active /\ f.finalizing = e.finalizing
        /\ f.rotations = e.rotations /\ f.rotation_forced = e.rotation_forced
    BY <1>0, <2>1 DEF EmitCaptureStopped, Emit, Fields, Body, Typed
  <2> HIDE DEF f
  <2>3. Typed(f)
    BY <2>2 DEF Body, Typed, Tokens
  <2>4. Held(f) = Held(e)
    BY <2>2 DEF Held
  <2>5. Placed(f) /\ Rotating(f) /\ Reported(f) /\ Ending(f) /\ Asked(f) /\ Waited(f)
    BY <2>2, <2>4 DEF Body, Placed, Rotating, Reported, Ending, Asked, Waited
  <2>6. QED BY <1>0, <2>2, <2>3, <2>5 DEF Well, Grown, Consistent, Sound, Body, f
<1>2. CASE e.pipeline
  <2> DEFINE no == FALSE
             yes == TRUE
             e1 == [e EXCEPT !.stop_pending = TRUE]
             e2 == BeginRemove(e1, "level", no)
             e3 == BeginRemove(e2, "spectrum", no)
             e4 == BeginRemove(e3, "stream", yes)
             e5 == BeginRemove(e4, "recording", yes)
  <2>1. StopCapture(e) = MaybeFinishCaptureStop(e5) /\ no \in BOOLEAN /\ yes \in BOOLEAN
    BY <1>2 DEF StopCapture
  <2>2. /\ DOMAIN e1 = Fields /\ e1.pipeline = e.pipeline /\ e1.start_pending = e.start_pending
        /\ e1.stop_pending = TRUE /\ e1.shutdown_pending = e.shutdown_pending
        /\ e1.capture_generation = e.capture_generation
        /\ e1.branches = e.branches /\ e1.active = e.active /\ e1.finalizing = e.finalizing
        /\ e1.rotations = e.rotations /\ e1.rotation_forced = e.rotation_forced
    BY <1>0 DEF Fields
  <2> HIDE DEF no, yes, e1
  <2>3. Body(e1) /\ Reported(e1) /\ Asked(e1)
    <3>1. Typed(e1)
      BY <2>2 DEF Body, Typed, Tokens
    <3>2. Held(e1) = Held(e)
      BY <2>2 DEF Held
    <3>3. QED BY <2>2, <3>1, <3>2 DEF Body, Placed, Rotating, Reported, Asked
  <2>4. /\ "level" \in Kind /\ "spectrum" \in Kind /\ "stream" \in Kind /\ "recording" \in Kind
        /\ \A k \in Kind : k \in {"level", "spectrum", "stream", "recording"}
    BY DEF Kind
  <2>5. /\ Body(e2) /\ Reported(e2) /\ Asked(e2) /\ Len(e2.branches) = Len(e.branches)
        /\ e2.active["level"] = 0
    <3>1. Body(e1) /\ Reported(e1) /\ Asked(e1)
      BY <2>3
    <3> HIDE DEF e2
    <3>2. /\ Body(e2) /\ (Reported(e1) => Reported(e2)) /\ (Asked(e1) => Asked(e2))
          /\ Len(e2.branches) = Len(e1.branches)
          /\ \A k \in Kind : e2.active[k] = IF k = "level" THEN 0 ELSE e1.active[k]
      BY <2>1, <2>4, <3>1, RemovalBegins DEF e2
    <3>3. QED BY <2>2, <2>4, <3>1, <3>2
  <2> HIDE DEF e2
  <2>6. /\ Body(e3) /\ Reported(e3) /\ Asked(e3) /\ Len(e3.branches) = Len(e.branches)
        /\ e3.active["level"] = 0 /\ e3.active["spectrum"] = 0
    <3> HIDE DEF e3
    <3>1. /\ Body(e3) /\ (Reported(e2) => Reported(e3)) /\ (Asked(e2) => Asked(e3))
          /\ Len(e3.branches) = Len(e2.branches)
          /\ \A k \in Kind : e3.active[k] = IF k = "spectrum" THEN 0 ELSE e2.active[k]
      BY <2>1, <2>4, <2>5, RemovalBegins DEF e3
    <3>2. QED BY <2>4, <2>5, <3>1
  <2> HIDE DEF e3
  <2>7. /\ Body(e4) /\ Reported(e4) /\ Asked(e4) /\ Len(e4.branches) = Len(e.branches)
        /\ e4.active["level"] = 0 /\ e4.active["spectrum"] = 0 /\ e4.active["stream"] = 0
    <3> HIDE DEF e4
    <3>1. /\ Body(e4) /\ (Reported(e3) => Reported(e4)) /\ (Asked(e3) => Asked(e4))
          /\ Len(e4.branches) = Len(e3.branches)
          /\ \A k \in Kind : e4.active[k] = IF k = "stream" THEN 0 ELSE e3.active[k]
      BY <2>1, <2>4, <2>6, RemovalBegins DEF e4
    <3>2. QED BY <2>4, <2>6, <3>1
  <2> HIDE DEF e4
  <2>8. /\ Body(e5) /\ Reported(e5) /\ Asked(e5) /\ Len(e5.branches) = Len(e.branches)
        /\ \A k \in Kind : e5.active[k] = 0
    <3> HIDE DEF e5
    <3>1. /\ Body(e5) /\ (Reported(e4) => Reported(e5)) /\ (Asked(e4) => Asked(e5))
          /\ Len(e5.branches) = Len(e4.branches)
          /\ \A k \in Kind : e5.active[k] = IF k = "recording" THEN 0 ELSE e4.active[k]
      BY <2>1, <2>4, <2>7, RemovalBegins DEF e5
    <3>2. QED BY <2>4, <2>7, <3>1
  <2> HIDE DEF e5
  <2>9. Sound(e5)
    BY <2>8 DEF Sound, Ending
  <2>10. QED BY <2>1, <2>8, <2>9, StopFinishes DEF Well, Grown
<1>3. QED BY <1>1, <1>2 DEF Body, Typed

LEMMA ShutdownWell ==
  ASSUME NEW e, Consistent(e)
  PROVE  Well(e, Shutdown(e))
<1> DEFINE e1 == [e EXCEPT !.shutdown_pending = TRUE]
<1>1. /\ DOMAIN e1 = Fields /\ e1.pipeline = e.pipeline /\ e1.start_pending = e.start_pending
      /\ e1.stop_pending = e.stop_pending /\ e1.shutdown_pending = TRUE
      /\ e1.capture_generation = e.capture_generation
      /\ e1.branches = e.branches /\ e1.active = e.active /\ e1.finalizing = e.finalizing
      /\ e1.rotations = e.rotations /\ e1.rotation_forced = e.rotation_forced
  BY DEF Fields, Consistent, Sound, Body, Typed
<1>2. Shutdown(e) = StopCapture(e1)
  BY DEF Shutdown
<1> HIDE DEF e1
<1>3. Typed(e1)
  BY <1>1 DEF Consistent, Sound, Body, Typed, Tokens
<1>4. Held(e1) = Held(e)
  BY <1>1 DEF Held
<1>5. Body(e1) /\ Reported(e1) /\ Ending(e1) /\ Waited(e1)
  BY <1>1, <1>3, <1>4 DEF Consistent, Sound, Body, Placed, Rotating, Reported, Ending, Waited
<1>6. Well(e1, StopCapture(e1))
  BY <1>5, StopCaptureWell
<1>7. QED BY <1>1, <1>2, <1>6 DEF Well, Grown

LEMMA SpectrumWell ==
  ASSUME NEW e, NEW on \in BOOLEAN, NEW added \in BOOLEAN, Consistent(e)
  PROVE  Well(e, SetSpectrumActive(e, on, added))
<1>1. CASE ~on
  <2>1. Well(e, BeginRemove(e, "spectrum", FALSE))
    BY RemovalBeginsWell DEF Kind
  <2>2. QED BY <1>1, <2>1 DEF SetSpectrumActive
<1>2. CASE on /\ (~e.pipeline \/ e.active["spectrum"] # 0)
  BY <1>2, Standing DEF SetSpectrumActive
<1>3. CASE on /\ ~(~e.pipeline \/ e.active["spectrum"] # 0)
  <2>1. Well(e, TryAddMonitoring(e, "spectrum", e.capture_generation, added))
    BY <1>3, MonitoringWell
  <2>2. QED BY <1>3, <2>1 DEF SetSpectrumActive
<1>4. QED BY <1>1, <1>2, <1>3

LEMMA StartStreamWell ==
  ASSUME NEW e, NEW g \in Nat, NEW added \in BOOLEAN, Consistent(e), e.pipeline, ~e.stop_pending
  PROVE  Well(e, StartStream(e, g, added))
<1> DEFINE yes == TRUE
           alone == BeginRemove(e, "stream", yes)
<1>0. yes \in BOOLEAN
  OBVIOUS
<1> HIDE DEF yes
<1>1. CASE e.active["stream"] # 0 /\ e.branches[e.active["stream"]].generation = g
  BY <1>1, Standing DEF StartStream
<1>2. CASE ~(e.active["stream"] # 0 /\ e.branches[e.active["stream"]].generation = g)
  <2>1. "stream" \in Kind /\ "stream" # "recording"
    BY DEF Kind
  <2>2. Well(e, alone)
    BY <1>0, <2>1, RemovalBeginsWell
  <2>3. alone.pipeline /\ ~alone.stop_pending
    BY <1>0, <2>1, RemovalBegins DEF Scalars, Consistent, Sound
  <2>4. Well(alone, AddBranch(alone, "stream", g, yes))
    BY <1>0, <2>1, <2>2, <2>3, BranchAdded DEF Well, Consistent
  <2>5. StartStream(e, g, added) = IF added THEN AddBranch(alone, "stream", g, yes) ELSE alone
    BY <1>2 DEF StartStream, yes
  <2>6. QED BY <2>2, <2>4, <2>5, WellThen
<1>3. QED BY <1>1, <1>2

LEMMA RemoveWell ==
  ASSUME NEW e, NEW kind \in Kind, NEW g, NEW drain \in BOOLEAN, Consistent(e)
  PROVE  Well(e, RemoveOrMissing(e, kind, g, drain))
BY EmitWell, RemovalBeginsWell DEF RemoveOrMissing

LEMMA AbortWell ==
  ASSUME NEW e, NEW g, Consistent(e)
  PROVE  Well(e, AbortStreamAttempt(e, g))
<1>1. "stream" \in Kind
  BY DEF Kind
<1>2. QED BY <1>1, Standing, RemoveWell DEF AbortStreamAttempt

LEMMA BitrateWell ==
  ASSUME NEW e, NEW bps, Consistent(e)
  PROVE  Well(e, SetBitrate(e, bps))
BY Standing, EmitWell DEF SetBitrate

LEMMA StartRecordingWell ==
  ASSUME NEW e, NEW g \in Nat, NEW added \in BOOLEAN, Consistent(e), e.pipeline, ~e.stop_pending
  PROVE  Well(e, StartRecording(e, g, added))
<1>1. CASE e.active["recording"] # 0 \/ ~added
  BY <1>1, Standing DEF StartRecording
<1>2. CASE ~(e.active["recording"] # 0 \/ ~added)
  <2>1. e.rotations = {}
    <3>1. \A r \in e.rotations : r.new = 0 /\ r.new \in Tokens(e)
      BY <1>2 DEF Consistent, Sound, Body, Typed, Rotating
    <3>2. 0 \notin Tokens(e)
      BY LengthIsNat DEF Tokens, Consistent, Sound, Body, Typed
    <3>3. QED BY <3>1, <3>2
  <2>2. "recording" \in Kind /\ Sound(e)
    BY DEF Kind, Consistent
  <2>3. Well(e, AddBranch(e, "recording", g, TRUE))
    BY <2>1, <2>2, BranchAdded
  <2>4. QED BY <1>2, <2>3 DEF StartRecording
<1>3. QED BY <1>1, <1>2

LEMMA RotateWell ==
  ASSUME NEW e, NEW g \in Nat, NEW added \in BOOLEAN, Consistent(e), e.pipeline, ~e.stop_pending,
         e.rotations = {}
  PROVE  Well(e, RotateRecording(e, g, added))
<1> DEFINE old == e.active["recording"]
           no == FALSE
           both == AddBranch(e, "recording", g, no)
           new == Len(e.branches) + 1
           rotation == [old |-> old, new |-> both.active["recording"]]
           turned == [both EXCEPT !.rotations = both.rotations \cup {rotation}]
           f == BeginRemoveHandle(turned, old, TRUE)
<1>1. CASE old = 0 \/ ~added
  BY <1>1, Standing DEF RotateRecording
<1>2. CASE old # 0 /\ added
  <2>1. RotateRecording(e, g, added) = f
    BY <1>2 DEF RotateRecording
  <2>2. "recording" \in Kind /\ Sound(e) /\ Len(e.branches) \in Nat /\ no \in BOOLEAN
    BY LengthIsNat DEF Kind, Consistent, Sound, Body, Typed
  <2> HIDE DEF no
  <2>3. /\ Well(e, both) /\ Scalars(e, both)
        /\ both.branches \in Seq(Branch) /\ Len(both.branches) = new
        /\ both.branches[new].playing = FALSE
        /\ both.active = [e.active EXCEPT !["recording"] = new]
        /\ both.finalizing = e.finalizing
        /\ both.rotations = {} /\ both.rotation_forced = e.rotation_forced
    <3>1. both = AddBranch(e, "recording", g, no)
      OBVIOUS
    <3>2. "recording" \in Kind /\ ("recording" = "recording" => e.rotations = {})
          /\ (e.stop_pending => "recording" = "spectrum")
      BY <2>2
    <3> DEFINE kind == "recording"
               at == Len(e.branches) + 1
    <3>3. kind \in Kind /\ (kind = "recording" => e.rotations = {})
          /\ (e.stop_pending => kind = "spectrum") /\ both = AddBranch(e, kind, g, no)
      BY <3>1, <3>2, <2>2
    <3> HIDE DEF both, kind, at
    <3>4. /\ Well(e, both) /\ Scalars(e, both)
          /\ both.branches \in Seq(Branch) /\ Len(both.branches) = at
          /\ both.branches[at].playing = FALSE
          /\ both.active = [e.active EXCEPT ![kind] = at]
          /\ both.finalizing = e.finalizing
          /\ both.rotations = e.rotations /\ both.rotation_forced = e.rotation_forced
      <4>1. Sound(e) /\ no \in BOOLEAN
        BY <2>2
      <4>2. Well(e, both) /\ Scalars(e, both) /\ Attached(e, both, kind)
        BY <3>3, <4>1, BranchAdded
      <4>3. QED BY <4>2 DEF Attached, at
    <3>5. QED BY <3>4 DEF kind, at
  <2> HIDE DEF both
  <2>4. rotation = [old |-> old, new |-> new]
    BY <2>2, <2>3 DEF Consistent, Sound, Body, Typed
  <2>5. old \in Tokens(e) /\ old \in Tokens(both) /\ new \in Tokens(both) /\ old # new
    BY <1>2, <2>2, <2>3 DEF Tokens, Consistent, Sound, Body, Typed
  <2>6. /\ Scalars(both, turned) /\ turned.branches = both.branches /\ turned.active = both.active
        /\ turned.finalizing = both.finalizing
        /\ turned.rotations = {[old |-> old, new |-> new]}
        /\ turned.rotation_forced = both.rotation_forced
    BY <2>3, <2>4 DEF Scalars, Fields
  <2> HIDE DEF turned
  <2>7. /\ Scalars(turned, f) /\ KindsStand(turned, f)
        /\ \A i \in Tokens(turned) : f.branches[i].playing = turned.branches[i].playing
        /\ f.active = turned.active /\ f.finalizing = turned.finalizing \cup {old}
        /\ f.rotations = turned.rotations /\ f.rotation_forced = turned.rotation_forced
    <3>1. DOMAIN turned = Fields /\ turned.branches \in Seq(Branch) /\ old \in Tokens(turned)
      BY <2>3, <2>5, <2>6 DEF Scalars, Tokens
    <3>2. QED BY <3>1, Handled
  <2> HIDE DEF f
  <2>8. Scalars(both, f) /\ KindsStand(both, f) /\ f.active = both.active
        /\ f.finalizing = both.finalizing \cup {old}
        /\ f.rotations = {[old |-> old, new |-> new]} /\ f.rotation_forced = both.rotation_forced
    BY <2>6, <2>7 DEF Scalars, KindsStand, Tokens
  <2>9. Body(both)
    BY <2>3 DEF Well, Consistent, Sound
  <2>10. both.rotation_forced = {}
    BY <2>3, <2>9 DEF Body, Typed
  <2>11. Typed(f)
    BY <2>5, <2>8, <2>9, <2>10 DEF Scalars, KindsStand, Tokens, Body, Typed
  <2>12. \A k \in Kind : both.active[k] # old
    <3>1. ASSUME NEW k \in Kind, both.active[k] = old
          PROVE  FALSE
      <4>1. k # "recording" /\ e.active[k] = old
        BY <2>2, <2>3, <2>5, <3>1 DEF Consistent, Sound, Body, Typed
      <4>2. e.branches[old].kind = k /\ e.branches[old].kind = "recording"
        BY <1>2, <2>2, <4>1 DEF Sound, Body, Placed
      <4>3. QED BY <4>1, <4>2
    <3>2. QED BY <3>1
  <2>13. Placed(f)
    <3>1. \A k \in Kind : both.active[k] # 0 => both.active[k] \in Tokens(both)
      BY <2>9 DEF Body, Typed
    <3>2. f.pipeline
      BY <2>3, <2>8 DEF Scalars
    <3>3. QED BY <2>8, <2>9, <2>12, <3>1, <3>2 DEF KindsStand, Body, Placed
  <2>14. Rotating(f)
    <3>1. f.active["recording"] = new
      BY <2>2, <2>3, <2>8 DEF Consistent, Sound, Body, Typed
    <3>2. QED BY <2>5, <2>8, <3>1 DEF Rotating
  <2>15. Reported(f)
    BY <2>8 DEF Reported
  <2>16. Ending(f) /\ Asked(f) /\ Waited(f)
    BY <2>3, <2>8 DEF Scalars, Ending, Asked, Waited, Consistent, Sound
  <2>17. Grown(e, f)
    BY <2>2, <2>3, <2>8 DEF KindsStand, Grown
  <2>18. QED BY <2>1, <2>11, <2>13, <2>14, <2>15, <2>16, <2>17 DEF Well, Consistent, Sound, Body, f
<1>3. QED BY <1>1, <1>2

-----------------------------------------------------------------------------
(* Bus messages and deferred callbacks.                                     *)

(* A branch changes in what only its own end reads.                         *)
LEMMA Touched ==
  ASSUME NEW e, NEW f, NEW t \in Tokens(e), NEW b \in Branch,
         DOMAIN e = Fields, e.branches \in Seq(Branch),
         b.kind = e.branches[t].kind, b.playing = e.branches[t].playing,
         f = [e EXCEPT !.branches = [e.branches EXCEPT ![t] = b]]
  PROVE  Alike(e, f)
<1> DEFINE bs == [e.branches EXCEPT ![t] = b]
<1>1. bs \in Seq(Branch) /\ Len(bs) = Len(e.branches)
      /\ \A i \in Tokens(e) : bs[i] = IF i = t THEN b ELSE e.branches[i]
  BY ExceptSeq DEF Tokens
<1> HIDE DEF bs
<1>2. /\ Scalars(e, f) /\ f.branches = bs /\ f.active = e.active
      /\ f.finalizing = e.finalizing /\ f.rotations = e.rotations
      /\ f.rotation_forced = e.rotation_forced
  BY DEF Scalars, Fields, bs
<1>3. QED BY <1>1, <1>2 DEF Alike, KindsStand

LEMMA BranchTyped ==
  ASSUME NEW e, NEW t \in Held(e), Consistent(e)
  PROVE  /\ DOMAIN e = Fields /\ e.branches \in Seq(Branch) /\ t \in Tokens(e)
         /\ e.branches[t] \in Branch /\ e.branches[t].kind \in Kind
<1>1. DOMAIN e = Fields /\ e.branches \in Seq(Branch) /\ t \in Tokens(e)
  BY DEF Held, Consistent, Sound, Body, Typed
<1>2. e.branches[t] \in Branch
  BY <1>1 DEF Tokens
<1>3. QED BY <1>1, <1>2 DEF Branch

LEMMA CapturePlayingWell ==
  ASSUME NEW e, Consistent(e)
  PROVE  Well(e, CapturePlaying(e))
<1> DEFINE f == CapturePlaying(e)
<1>1. /\ DOMAIN f = Fields /\ f.pipeline = e.pipeline /\ f.start_pending = 0
      /\ f.stop_pending = e.stop_pending /\ f.shutdown_pending = e.shutdown_pending
      /\ f.capture_generation = e.capture_generation
      /\ f.branches = e.branches /\ f.active = e.active /\ f.finalizing = e.finalizing
      /\ f.rotations = e.rotations /\ f.rotation_forced = e.rotation_forced
  BY DEF CapturePlaying, Emit, Fields, Consistent, Sound, Body, Typed
<1> HIDE DEF f
<1>2. Typed(f)
  BY <1>1 DEF Consistent, Sound, Body, Typed, Tokens
<1>3. Held(f) = Held(e)
  BY <1>1 DEF Held
<1>4. Consistent(f)
  BY <1>1, <1>2, <1>3 DEF Consistent, Sound, Body, Placed, Rotating, Reported, Ending, Asked, Waited
<1>5. Len(e.branches) \in Nat
  BY LengthIsNat DEF Consistent, Sound, Body, Typed
<1>6. QED BY <1>1, <1>4, <1>5 DEF Well, Grown, f

LEMMA BranchPlayingWell ==
  ASSUME NEW e, NEW t \in Held(e), Consistent(e)
  PROVE  Well(e, BranchPlaying(e, t))
<1> DEFINE b == e.branches[t]
           announces == b.announce /\ ~b.announced
           heard == [b EXCEPT !.playing = TRUE, !.announced = b.announced \/ announces]
           bs == [e.branches EXCEPT ![t] = heard]
           playing == [e EXCEPT !.branches = bs]
           told == IF announces THEN Emit(playing, BranchEvent(e, "branch-added", t)) ELSE playing
           pending == {r \in e.rotations : r.new = t}
           f == BranchPlaying(e, t)
<1>0. /\ DOMAIN e = Fields /\ e.branches \in Seq(Branch) /\ t \in Tokens(e) /\ b \in Branch
      /\ Len(e.branches) \in Nat
  BY BranchTyped, LengthIsNat
<1>1. f = IF pending = {} THEN told
          ELSE CompleteRotation(told, (CHOOSE r \in pending : TRUE).old, FALSE)
  BY <1>0 DEF BranchPlaying, Fields
<1>2. heard \in Branch /\ heard.kind = b.kind /\ heard.playing = TRUE
  <2>1. b \in Branch /\ announces \in BOOLEAN /\ b.announced \in BOOLEAN
    BY <1>0 DEF Branch
  <2> DEFINE yes == b.announced \/ announces
  <2>2. yes \in BOOLEAN
    OBVIOUS
  <2> HIDE DEF b, yes
  <2>3. [b EXCEPT !.playing = TRUE, !.announced = yes] \in Branch
    BY <2>1, <2>2 DEF Branch
  <2>4. QED BY <2>1, <2>3 DEF yes, Branch
<1> HIDE DEF heard
<1>3. bs \in Seq(Branch) /\ Len(bs) = Len(e.branches)
      /\ \A i \in Tokens(e) : bs[i] = IF i = t THEN heard ELSE e.branches[i]
  BY <1>0, <1>2, ExceptSeq DEF Tokens
<1> HIDE DEF bs
<1>4. /\ Scalars(e, playing) /\ playing.branches = bs /\ playing.active = e.active
      /\ playing.finalizing = e.finalizing /\ playing.rotations = e.rotations
      /\ playing.rotation_forced = e.rotation_forced
  BY <1>0 DEF Scalars, Fields
<1> HIDE DEF playing
<1>5. Body(playing)
  <2>1. KindsStand(e, playing)
    BY <1>2, <1>3, <1>4 DEF KindsStand
  <2>2. Typed(playing)
    BY <1>4, <2>1 DEF Scalars, KindsStand, Tokens, Consistent, Sound, Body, Typed
  <2>3. Held(playing) = Held(e)
    BY <1>4 DEF Held
  <2>4. \A k \in Kind : e.active[k] # 0 => e.active[k] \in Tokens(e)
    BY DEF Consistent, Sound, Body, Typed
  <2>5. Placed(playing) /\ Rotating(playing)
    BY <1>4, <2>1, <2>3, <2>4 DEF Scalars, KindsStand, Consistent, Sound, Body, Placed, Rotating
  <2>6. QED BY <2>2, <2>5 DEF Body
<1>6. Body(told) /\ Alike(playing, told)
  <2>1. Alike(playing, playing)
    BY <1>5 DEF Body, Typed, Alike, Scalars, KindsStand
  <2>2. QED BY <1>5, <2>1, EmitAlike, AlikeStays DEF Body, Typed
<1> HIDE DEF told
<1>7. Body(f) /\ Reported(f) /\ Scalars(e, f) /\ f.active = e.active /\ f.finalizing = e.finalizing
      /\ Len(f.branches) = Len(e.branches)
  <2>1. CASE pending = {}
    <3>1. f = told
      BY <1>1, <2>1
    <3>2. \A r \in e.rotations : r.new \in Tokens(e) /\ r.new # t
      BY <2>1 DEF Consistent, Sound, Body, Typed
    <3>3. Reported(playing)
      BY <1>3, <1>4, <3>2 DEF Consistent, Sound, Reported
    <3>4. Reported(told)
      BY <1>5, <1>6, <3>3, AlikeStays
    <3>5. QED BY <1>3, <1>4, <1>6, <3>1, <3>4 DEF Alike, Scalars, KindsStand
  <2>2. CASE pending # {}
    <3> DEFINE q == CHOOSE r \in pending : TRUE
    <3>1. q \in e.rotations
      BY <2>2
    <3> DEFINE no == FALSE
    <3>2. f = CompleteRotation(told, q.old, no)
      BY <1>1, <2>2
    <3> HIDE DEF q, no, f
    <3>3. \A r \in told.rotations : r.old = q.old
      BY <1>4, <1>6, <3>1 DEF Alike, Consistent, Sound, Body, Rotating
    <3>4. /\ Body(f) /\ Reported(f) /\ Scalars(told, f)
          /\ f.branches = told.branches /\ f.active = told.active /\ f.finalizing = told.finalizing
      <4>1. f = CompleteRotation(told, q.old, no) /\ Body(told)
        BY <1>6, <3>2
      <4>2. \A r \in told.rotations : r.old # q.old =>
              (r.old \notin told.finalizing => ~told.branches[r.new].playing)
        BY <3>3
      <4>3. QED BY <4>1, <4>2, RotationCompletes
    <3>5. QED BY <1>3, <1>4, <1>6, <3>4 DEF Alike, Scalars, KindsStand
  <2>3. QED BY <2>1, <2>2
<1> HIDE DEF f
<1>8. Held(f) = Held(e)
  BY <1>7 DEF Held
<1>9. QED BY <1>0, <1>7, <1>8 DEF Scalars, Well, Grown, Consistent, Sound, Ending, Asked, Waited, f

LEMMA SinkErrorWell ==
  ASSUME NEW e, NEW t \in Held(e), NEW closed \in BOOLEAN, Consistent(e)
  PROVE  Well(e, SinkError(e, t, closed))
<1> DEFINE b == e.branches[t]
           spent == [b EXCEPT !.valve = "reported"]
           handled == [e EXCEPT !.branches[t].valve = "reported"]
           told == Emit(handled, Connection(e, t, FALSE))
<1>1. /\ DOMAIN e = Fields /\ e.branches \in Seq(Branch) /\ t \in Tokens(e) /\ b \in Branch
  BY BranchTyped
<1>2. spent \in Branch /\ spent.kind = b.kind /\ spent.playing = b.playing
  <2> HIDE DEF b
  <2>1. QED BY <1>1 DEF Branch
<1>3. Alike(e, handled)
  <2>1. handled = [e EXCEPT !.branches = [e.branches EXCEPT ![t] = spent]]
    BY <1>1 DEF Fields
  <2> HIDE DEF spent, handled
  <2>2. QED BY <1>1, <1>2, <2>1, Touched
<1> HIDE DEF handled
<1>4. Well(e, handled) /\ t \in Held(handled)
  BY <1>3, AlikeWell DEF Alike, Held
<1>5. Well(handled, told) /\ t \in Held(told)
  <2>1. Well(handled, told) /\ Alike(handled, told)
    BY <1>4, EmitWell DEF Well
  <2>2. QED BY <1>4, <2>1 DEF Alike, Held
<1> HIDE DEF told
<1>6. Well(told, DetachBranch(told, t, closed)) /\ Well(handled, DetachBranch(handled, t, closed))
  BY <1>4, <1>5, DetachWell DEF Well
<1>7. CASE b.kind = "stream"
  <2>1. SinkError(e, t, closed) = DetachBranch(told, t, closed)
    BY <1>7 DEF SinkError, told, handled
  <2>2. QED BY <1>4, <1>5, <1>6, <2>1, WellThen
<1>8. CASE b.kind # "stream"
  <2>1. SinkError(e, t, closed) = Emit(DetachBranch(handled, t, closed), BranchEvent(e, "error", t))
    BY <1>8 DEF SinkError, handled
  <2>2. Well(e, DetachBranch(handled, t, closed))
    BY <1>4, <1>6, WellThen
  <2>3. Well(DetachBranch(handled, t, closed), SinkError(e, t, closed))
    BY <2>1, <2>2, EmitWell DEF Well
  <2>4. QED BY <2>2, <2>3, WellThen
<1>9. QED BY <1>7, <1>8

LEMMA BranchErrorWell ==
  ASSUME NEW e, NEW t \in Held(e), NEW closed \in BOOLEAN, Consistent(e)
  PROVE  Well(e, BranchError(e, t, closed))
<1>1. Well(e, DetachBranch(e, t, closed))
  BY DetachWell
<1>2. Well(DetachBranch(e, t, closed), BranchError(e, t, closed))
  BY <1>1, EmitWell DEF BranchError, Well
<1>3. QED BY <1>1, <1>2, WellThen

LEMMA ConnectionWell ==
  ASSUME NEW e, NEW t, NEW connected, Consistent(e)
  PROVE  Well(e, ConnectionChanged(e, t, connected))
<1> DEFINE told == Emit(e, Connection(e, t, connected))
<1>1. Well(e, told)
  BY EmitWell
<1> HIDE DEF told
<1>2. Well(told, BeginRemove(told, "stream", FALSE))
  BY <1>1, RemovalBeginsWell DEF Kind, Well
<1>3. Well(e, BeginRemove(told, "stream", FALSE))
  BY <1>1, <1>2, WellThen
<1>4. ConnectionChanged(e, t, connected) \in {e, told, BeginRemove(told, "stream", FALSE)}
  BY DEF ConnectionChanged, told
<1>5. QED BY <1>1, <1>3, <1>4, Standing

LEMMA OverrunWell ==
  ASSUME NEW e, NEW t \in Tokens(e), Consistent(e)
  PROVE  Well(e, HandleQueueOverrun(e, t))
<1> DEFINE k == e.branches[t].kind
           told == Emit(e, Connection(e, t, FALSE))
           out == ForceRemoveNow(e, t, TRUE)
<1>1. CASE t # e.active[k]
  BY <1>1, Standing DEF HandleQueueOverrun
<1>2. CASE t = e.active[k] /\ k = "stream"
  <2>1. Well(e, told) /\ Alike(e, told)
    BY EmitWell
  <2>2. told.active = e.active /\ told.branches[t].kind = k /\ t \in Tokens(told)
    BY <2>1 DEF Alike, KindsStand, Tokens
  <2>3. HandleQueueOverrun(e, t) = ForceRemoveNow(told, t, FALSE)
    BY <1>2 DEF HandleQueueOverrun
  <2> HIDE DEF told
  <2>4. Well(told, ForceRemoveNow(told, t, FALSE))
    BY <1>2, <2>1, <2>2, ForceWell DEF Well
  <2>5. QED BY <2>1, <2>3, <2>4, WellThen
<1>3. CASE t = e.active[k] /\ k # "stream"
  <2>1. Well(e, out)
    BY <1>3, ForceWell
  <2>2. HandleQueueOverrun(e, t) = Emit(out, BranchEvent(e, "error", t))
    BY <1>3 DEF HandleQueueOverrun
  <2> HIDE DEF out
  <2>3. Well(out, HandleQueueOverrun(e, t))
    BY <2>1, <2>2, EmitWell DEF Well
  <2>4. QED BY <2>1, <2>3, WellThen
<1>4. QED BY <1>1, <1>2, <1>3

LEMMA DrainWell ==
  ASSUME NEW e, NEW t \in Tokens(e), NEW sent \in BOOLEAN, NEW closed \in BOOLEAN, Consistent(e)
  PROVE  Well(e, UnlinkAndDrain(e, t, sent, closed))
<1> DEFINE b == e.branches[t]
           eos == [b EXCEPT !.eos = "sent"]
           f == [e EXCEPT !.branches[t].eos = "sent"]
<1>1. CASE t \notin e.finalizing
  BY <1>1, Standing DEF UnlinkAndDrain
<1>2. CASE t \in e.finalizing
  <2>1. t \in Held(e)
    BY <1>2 DEF Held
  <2>2. /\ DOMAIN e = Fields /\ e.branches \in Seq(Branch) /\ b \in Branch
    BY <2>1, BranchTyped
  <2>3. eos \in Branch /\ eos.kind = b.kind /\ eos.playing = b.playing
    <3> HIDE DEF b
    <3>1. QED BY <2>2 DEF Branch
  <2>4. Alike(e, f)
    <3>1. f = [e EXCEPT !.branches = [e.branches EXCEPT ![t] = eos]]
      BY <2>2 DEF Fields
    <3> HIDE DEF eos, f
    <3>2. QED BY <2>2, <2>3, <3>1, Touched
  <2>5. Well(e, f)
    BY <2>4, AlikeWell
  <2>6. \A forced \in BOOLEAN : Well(e, FinishRemove(e, t, forced, closed))
    BY RemovalFinishes
  <2>7. UnlinkAndDrain(e, t, sent, closed) \in
          {f, FinishRemove(e, t, b.kind = "recording", closed), FinishRemove(e, t, TRUE, closed)}
    BY <1>2 DEF UnlinkAndDrain
  <2>8. (b.kind = "recording") \in BOOLEAN
    OBVIOUS
  <2>9. QED BY <2>5, <2>6, <2>7, <2>8
<1>3. QED BY <1>1, <1>2

-----------------------------------------------------------------------------
(* The inductive invariant: the fields agree, with nothing left unposted,   *)
(* and what waits to run on the owner's thread names branches there are.    *)
Call == {"unlink_and_drain", "finish_remove", "connection_changed", "handle_queue_overrun"}

Callback(e) ==
  [call : Call, token : Tokens(e)]
    \cup [call : Call, token : Tokens(e), connected : BOOLEAN]

EInv ==
  /\ Consistent(engine) /\ engine.out = <<>>
  /\ callbacks \in Seq(Callback(engine))
  /\ scenario \in Scenario

LEMMA CallbacksStand ==
  ASSUME NEW e, NEW f, Tokens(e) \subseteq Tokens(f), NEW s \in Seq(Callback(e))
  PROVE  s \in Seq(Callback(f))
<1>1. Callback(e) \subseteq Callback(f)
  BY DEF Callback
<1>2. \A i \in 1 .. Len(s) : s[i] \in Callback(f)
  BY <1>1
<1>3. QED BY <1>2

LEMMA InitStands == Init => EInv
<1> SUFFICES ASSUME Init PROVE EInv
  OBVIOUS
<1>1. engine = InitialEngine /\ callbacks = <<>> /\ scenario \in Scenario
  BY DEF Init
<1>2. DOMAIN InitialEngine = Fields
  BY DEF InitialEngine, Fields
<1>3. /\ engine.pipeline = FALSE /\ engine.start_pending = 0
      /\ engine.stop_pending = FALSE /\ engine.shutdown_pending = FALSE
      /\ engine.capture_generation \in Nat /\ engine.branches \in Seq(Branch)
      /\ engine.active \in [Kind -> {0}] /\ engine.finalizing = {}
      /\ engine.rotations = {} /\ engine.rotation_forced = {} /\ engine.out = <<>>
  BY <1>1 DEF InitialEngine
<1>4. Consistent(engine)
  BY <1>1, <1>2, <1>3, Emptied
<1>5. QED BY <1>1, <1>3, <1>4 DEF EInv

(* A handler ends with its events posted.                                   *)
LEMMA DoStands ==
  ASSUME EInv, NEW f, Well(engine, f), Do(f)
  PROVE  /\ Consistent(engine') /\ engine'.out = <<>>
         /\ Tokens(engine) \subseteq Tokens(engine')
<1> DEFINE g == [f EXCEPT !.out = <<>>]
<1>1. engine' = g
  BY DEF Do
<1>2. Consistent(f) /\ DOMAIN f = Fields /\ f.branches \in Seq(Branch)
  BY DEF Well, Consistent, Sound, Body, Typed
<1>3. Alike(f, g) /\ g.out = <<>>
  BY <1>2 DEF Fields, Alike, Scalars, KindsStand
<1> HIDE DEF g
<1>4. Well(f, g)
  BY <1>2, <1>3, AlikeWell
<1>5. Well(engine, g)
  BY <1>4, WellThen
<1>6. Len(engine.branches) \in Nat
  BY LengthIsNat DEF EInv, Consistent, Sound, Body, Typed
<1>7. QED BY <1>1, <1>3, <1>5, <1>6 DEF Well, Grown, Tokens

LEMMA RunStands ==
  ASSUME EInv, UNCHANGED scenario, NEW f, Well(engine, f), Run(f)
  PROVE  EInv'
<1>1. Do(f) /\ callbacks' = callbacks
  BY DEF Run
<1>2. /\ Consistent(engine') /\ engine'.out = <<>>
      /\ Tokens(engine) \subseteq Tokens(engine')
  BY <1>1, DoStands
<1>3. callbacks' \in Seq(Callback(engine'))
  BY <1>1, <1>2, CallbacksStand DEF EInv
<1>4. QED BY <1>2, <1>3 DEF EInv

LEMMA ScenarioTyped ==
  ASSUME EInv
  PROVE  scenario.generations \in Nat /\ scenario.level \subseteq BOOLEAN
BY DEF EInv, Scenario

LEMMA CaptureCommandStands ==
  ASSUME EInv, UNCHANGED scenario, CaptureCommand
  PROVE  EInv'
<1>1. Consistent(engine)
  BY DEF EInv
<1>2. ASSUME NEW plays \in BOOLEAN, NEW level \in scenario.level,
             Run(StartCapture(engine, plays, level))
      PROVE  EInv'
  <2>1. Well(engine, StartCapture(engine, plays, level))
    BY <1>1, ScenarioTyped, StartCaptureWell
  <2>2. QED BY <1>2, <2>1, RunStands
<1>3. CASE Run(StopCapture(engine))
  <2>1. Well(engine, StopCapture(engine))
    BY <1>1, StopCaptureWell DEF Consistent, Sound
  <2>2. QED BY <1>3, <2>1, RunStands
<1>4. CASE Run(Shutdown(engine))
  <2>1. Well(engine, Shutdown(engine))
    BY <1>1, ShutdownWell
  <2>2. QED BY <1>4, <2>1, RunStands
<1>5. QED BY <1>2, <1>3, <1>4 DEF CaptureCommand

LEMMA SpectrumCommandStands ==
  ASSUME EInv, UNCHANGED scenario, SpectrumCommand
  PROVE  EInv'
<1>1. ASSUME NEW on \in BOOLEAN, NEW added \in BOOLEAN,
             Run(SetSpectrumActive(engine, on, added))
      PROVE  EInv'
  <2>1. Well(engine, SetSpectrumActive(engine, on, added))
    BY SpectrumWell DEF EInv
  <2>2. QED BY <1>1, <2>1, RunStands
<1>2. QED BY <1>1 DEF SpectrumCommand

LEMMA StreamCommandStands ==
  ASSUME EInv, UNCHANGED scenario, StreamCommand
  PROVE  EInv'
<1>1. PICK g \in Generation :
        \/ /\ MayAdd("stream")
           /\ \E added \in BOOLEAN : Run(StartStream(engine, g, added))
        \/ Run(StopStream(engine, g))
        \/ Run(AbortStreamAttempt(engine, g))
        \/ Run(SetBitrate(engine, g))
  BY DEF StreamCommand
<1>2. g \in Nat /\ Consistent(engine)
  BY ScenarioTyped DEF Generation, EInv
<1>3. ASSUME MayAdd("stream"), NEW added \in BOOLEAN, Run(StartStream(engine, g, added))
      PROVE  EInv'
  <2>1. engine.pipeline /\ ~engine.stop_pending
    BY <1>3 DEF MayAdd
  <2>2. Well(engine, StartStream(engine, g, added))
    BY <1>2, <2>1, StartStreamWell
  <2>3. QED BY <1>3, <2>2, RunStands
<1>4. CASE Run(StopStream(engine, g))
  <2>1. Well(engine, StopStream(engine, g))
    BY <1>2, RemoveWell DEF StopStream, Kind
  <2>2. QED BY <1>4, <2>1, RunStands
<1>5. CASE Run(AbortStreamAttempt(engine, g))
  <2>1. Well(engine, AbortStreamAttempt(engine, g))
    BY <1>2, AbortWell
  <2>2. QED BY <1>5, <2>1, RunStands
<1>6. CASE Run(SetBitrate(engine, g))
  <2>1. Well(engine, SetBitrate(engine, g))
    BY <1>2, BitrateWell
  <2>2. QED BY <1>6, <2>1, RunStands
<1>7. QED BY <1>1, <1>3, <1>4, <1>5, <1>6

LEMMA RecordingCommandStands ==
  ASSUME EInv, UNCHANGED scenario, RecordingCommand
  PROVE  EInv'
<1>1. PICK g \in Generation :
        \/ /\ MayAdd("recording")
           /\ \E added \in BOOLEAN : Run(StartRecording(engine, g, added))
        \/ Run(StopRecording(engine, g))
        \/ /\ MayRotate
           /\ \E added \in BOOLEAN : Run(RotateRecording(engine, g, added))
  BY DEF RecordingCommand
<1>2. g \in Nat /\ Consistent(engine)
  BY ScenarioTyped DEF Generation, EInv
<1>3. ASSUME MayAdd("recording"), NEW added \in BOOLEAN, Run(StartRecording(engine, g, added))
      PROVE  EInv'
  <2>1. engine.pipeline /\ ~engine.stop_pending
    BY <1>3 DEF MayAdd
  <2>2. Well(engine, StartRecording(engine, g, added))
    BY <1>2, <2>1, StartRecordingWell
  <2>3. QED BY <1>3, <2>2, RunStands
<1>4. CASE Run(StopRecording(engine, g))
  <2>1. Well(engine, StopRecording(engine, g))
    BY <1>2, RemoveWell DEF StopRecording, Kind
  <2>2. QED BY <1>4, <2>1, RunStands
<1>5. ASSUME MayRotate, NEW added \in BOOLEAN, Run(RotateRecording(engine, g, added))
      PROVE  EInv'
  <2>1. engine.pipeline /\ ~engine.stop_pending /\ engine.rotations = {}
    BY <1>5 DEF MayRotate, MayAdd
  <2>2. Well(engine, RotateRecording(engine, g, added))
    BY <1>2, <2>1, RotateWell
  <2>3. QED BY <1>5, <2>2, RunStands
<1>6. QED BY <1>1, <1>3, <1>4, <1>5

LEMMA ClosingTyped == \A t : Closing(t) \subseteq BOOLEAN
BY DEF Closing

LEMMA BusMessageStands ==
  ASSUME EInv, UNCHANGED scenario, BusMessage
  PROVE  EInv'
<1>1. Consistent(engine)
  BY DEF EInv
<1>2. CASE Run(CapturePlaying(engine))
  BY <1>1, <1>2, CapturePlayingWell, RunStands
<1>3. ASSUME NEW t \in Held(engine), Run(BranchPlaying(engine, t))
      PROVE  EInv'
  BY <1>1, <1>3, BranchPlayingWell, RunStands
<1>4. ASSUME NEW t \in Held(engine), NEW closed \in Closing(t), Run(SinkError(engine, t, closed))
      PROVE  EInv'
  <2>1. Well(engine, SinkError(engine, t, closed))
    BY <1>1, ClosingTyped, SinkErrorWell
  <2>2. QED BY <1>4, <2>1, RunStands
<1>5. ASSUME NEW t \in Held(engine), NEW closed \in Closing(t), Run(BranchError(engine, t, closed))
      PROVE  EInv'
  <2>1. Well(engine, BranchError(engine, t, closed))
    BY <1>1, ClosingTyped, BranchErrorWell
  <2>2. QED BY <1>5, <2>1, RunStands
<1>6. ASSUME NEW code, Run(FailCapture(engine, code))
      PROVE  EInv'
  BY <1>1, <1>6, FailCaptureWell, RunStands
<1>7. QED BY <1>2, <1>3, <1>4, <1>5, <1>6 DEF BusMessage

(* A streaming thread marks a branch, and has a callback run.               *)
LEMMA MarkStands ==
  ASSUME EInv, NEW t \in Held(engine), NEW b \in Branch,
         b.kind = engine.branches[t].kind, b.playing = engine.branches[t].playing,
         engine' = [engine EXCEPT !.branches = [engine.branches EXCEPT ![t] = b]]
  PROVE  /\ Consistent(engine') /\ engine'.out = <<>>
         /\ Tokens(engine') = Tokens(engine)
<1>1. Consistent(engine)
  BY DEF EInv
<1>2. DOMAIN engine = Fields /\ engine.branches \in Seq(Branch) /\ t \in Tokens(engine)
  BY <1>1, BranchTyped
<1> DEFINE f == [engine EXCEPT !.branches = [engine.branches EXCEPT ![t] = b]]
<1>3. Alike(engine, f)
  BY <1>2, Touched
<1>4. f.out = <<>>
  BY <1>2 DEF EInv, Fields
<1>5. engine' = f
  OBVIOUS
<1> HIDE DEF f
<1>6. Consistent(f)
  BY <1>1, <1>3, AlikeWell DEF Well
<1>7. QED BY <1>3, <1>4, <1>5, <1>6 DEF Alike, KindsStand, Tokens

LEMMA DeferStands ==
  ASSUME EInv, UNCHANGED scenario, Consistent(engine'), engine'.out = <<>>,
         Tokens(engine') = Tokens(engine),
         NEW c \in Callback(engine), callbacks' = Append(callbacks, c)
  PROVE  EInv'
<1>1. callbacks' \in Seq(Callback(engine))
  BY AppendProperties DEF EInv
<1>2. Callback(engine') = Callback(engine)
  BY DEF Callback
<1>3. QED BY <1>1, <1>2 DEF EInv

LEMMA StreamingThreadStands ==
  ASSUME EInv, UNCHANGED scenario, StreamingThread
  PROVE  EInv'
<1>1. PICK t \in Held(engine) :
        SinkFails(t) \/ PadIdle(t) \/ EosReachesProbe(t) \/ CallerChanges(t) \/ QueueOverrun(t)
  BY DEF StreamingThread
<1>2. /\ Consistent(engine) /\ engine.out = <<>> /\ DOMAIN engine = Fields
      /\ engine.branches \in Seq(Branch) /\ t \in Tokens(engine) /\ engine.branches[t] \in Branch
  BY BranchTyped DEF EInv
<1> DEFINE b == engine.branches[t]
<1>3. CASE SinkFails(t)
  <2> DEFINE c == [b EXCEPT !.valve = "dropping"]
  <2>1. engine' = [engine EXCEPT !.branches = [engine.branches EXCEPT ![t] = c]]
        /\ callbacks' = callbacks
    BY <1>2, <1>3 DEF SinkFails, Fields
  <2>2. c \in Branch /\ c.kind = b.kind /\ c.playing = b.playing
    <3> HIDE DEF b
    <3>1. QED BY <1>2 DEF Branch, b
  <2> HIDE DEF c
  <2>3. /\ Consistent(engine') /\ engine'.out = <<>> /\ Tokens(engine') = Tokens(engine)
    BY <2>1, <2>2, MarkStands
  <2>4. QED BY <2>1, <2>3, CallbacksStand DEF EInv
<1>4. CASE PadIdle(t)
  <2> DEFINE c == [b EXCEPT !.drain_scheduled = TRUE]
             call == [call |-> "unlink_and_drain", token |-> t]
  <2>1. engine' = [engine EXCEPT !.branches = [engine.branches EXCEPT ![t] = c]]
        /\ callbacks' = Append(callbacks, call)
    BY <1>2, <1>4 DEF PadIdle, Defer, Fields
  <2>2. c \in Branch /\ c.kind = b.kind /\ c.playing = b.playing
    <3> HIDE DEF b
    <3>1. QED BY <1>2 DEF Branch, b
  <2>3. call \in Callback(engine)
    BY <1>2 DEF Callback, Call
  <2> HIDE DEF c, call
  <2>4. /\ Consistent(engine') /\ engine'.out = <<>> /\ Tokens(engine') = Tokens(engine)
    BY <2>1, <2>2, MarkStands
  <2>5. QED BY <2>1, <2>3, <2>4, DeferStands
<1>5. CASE EosReachesProbe(t)
  <2> DEFINE c == [b EXCEPT !.eos = "seen"]
             call == [call |-> "finish_remove", token |-> t]
  <2>1. engine' = [engine EXCEPT !.branches = [engine.branches EXCEPT ![t] = c]]
        /\ callbacks' = Append(callbacks, call)
    BY <1>2, <1>5 DEF EosReachesProbe, Defer, Fields
  <2>2. c \in Branch /\ c.kind = b.kind /\ c.playing = b.playing
    <3> HIDE DEF b
    <3>1. QED BY <1>2 DEF Branch, b
  <2>3. call \in Callback(engine)
    BY <1>2 DEF Callback, Call
  <2> HIDE DEF c, call
  <2>4. /\ Consistent(engine') /\ engine'.out = <<>> /\ Tokens(engine') = Tokens(engine)
    BY <2>1, <2>2, MarkStands
  <2>5. QED BY <2>1, <2>3, <2>4, DeferStands
<1>6. CASE CallerChanges(t)
  <2>1. PICK connected \in BOOLEAN :
          Defer([call |-> "connection_changed", token |-> t, connected |-> connected])
    BY <1>6 DEF CallerChanges
  <2> DEFINE call == [call |-> "connection_changed", token |-> t, connected |-> connected]
  <2>2. call \in Callback(engine) /\ callbacks' = Append(callbacks, call) /\ engine' = engine
    BY <1>2, <1>6, <2>1 DEF Callback, Call, CallerChanges, Defer
  <2> HIDE DEF call
  <2>3. QED BY <1>2, <2>2, DeferStands
<1>7. CASE QueueOverrun(t)
  <2> DEFINE call == [call |-> "handle_queue_overrun", token |-> t]
  <2>1. call \in Callback(engine) /\ callbacks' = Append(callbacks, call) /\ engine' = engine
    BY <1>2, <1>7 DEF Callback, Call, QueueOverrun, Defer
  <2> HIDE DEF call
  <2>2. QED BY <1>2, <2>1, DeferStands
<1>8. QED BY <1>1, <1>3, <1>4, <1>5, <1>6, <1>7

LEMMA RunCallbackStands ==
  ASSUME EInv, UNCHANGED scenario, RunCallback
  PROVE  EInv'
<1> DEFINE t == Head(callbacks).token
           no == FALSE
<1>1. /\ callbacks # <<>> /\ callbacks' = Tail(callbacks)
      /\ \/ \E sent \in BOOLEAN, closed \in Closing(t) :
              Do(UnlinkAndDrain(engine, t, sent, closed))
         \/ \E closed \in Closing(t) : Do(FinishRemove(engine, t, no, closed))
         \/ \E connected : Do(ConnectionChanged(engine, t, connected))
         \/ Do(HandleQueueOverrun(engine, t))
  BY DEF RunCallback
<1>2. no \in BOOLEAN
  OBVIOUS
<1>3. Head(callbacks) \in Callback(engine) /\ Tail(callbacks) \in Seq(Callback(engine))
  BY <1>1 DEF EInv
<1>4. t \in Tokens(engine)
  BY <1>3 DEF Callback
<1> HIDE DEF t, no
<1>5. PICK f : Do(f) /\ Well(engine, f)
  <2>1. Consistent(engine)
    BY DEF EInv
  <2>2. ASSUME NEW sent \in BOOLEAN, NEW closed \in Closing(t)
        PROVE  Well(engine, UnlinkAndDrain(engine, t, sent, closed))
    BY <1>4, <2>1, ClosingTyped, DrainWell
  <2>3. ASSUME NEW closed \in Closing(t)
        PROVE  Well(engine, FinishRemove(engine, t, no, closed))
    BY <1>2, <1>4, <2>1, ClosingTyped, RemovalFinishes
  <2>4. \A connected : Well(engine, ConnectionChanged(engine, t, connected))
    BY <2>1, ConnectionWell
  <2>5. Well(engine, HandleQueueOverrun(engine, t))
    BY <1>4, <2>1, OverrunWell
  <2>6. QED BY <1>1, <2>2, <2>3, <2>4, <2>5
<1>6. /\ Consistent(engine') /\ engine'.out = <<>>
      /\ Tokens(engine) \subseteq Tokens(engine')
  BY <1>5, DoStands
<1>7. callbacks' \in Seq(Callback(engine'))
  BY <1>1, <1>3, <1>6, CallbacksStand
<1>8. QED BY <1>6, <1>7 DEF EInv

LEMMA TimeoutStands ==
  ASSUME EInv, UNCHANGED scenario, AnyRemovalTimeout
  PROVE  EInv'
<1> DEFINE yes == TRUE
<1>1. PICK t \in engine.finalizing :
        \E closed \in Closing(t) : Run(FinishRemove(engine, t, yes, closed))
  BY DEF AnyRemovalTimeout, RemovalTimeout
<1>2. yes \in BOOLEAN
  OBVIOUS
<1> HIDE DEF yes
<1>3. Consistent(engine) /\ t \in Tokens(engine)
  BY DEF EInv, Consistent, Sound, Body, Typed
<1>4. \A closed \in Closing(t) : Well(engine, FinishRemove(engine, t, yes, closed))
  BY <1>2, <1>3, ClosingTyped, RemovalFinishes
<1>5. QED BY <1>1, <1>4, RunStands

LEMMA StepStands == EInv /\ [Next]_vars => EInv'
<1> SUFFICES ASSUME EInv, [Next]_vars PROVE EInv'
  OBVIOUS
<1>1. CASE UNCHANGED vars
  BY <1>1 DEF vars, EInv
<1>2. CASE Step /\ UNCHANGED scenario
  <2>1. CASE CaptureCommand BY <1>2, <2>1, CaptureCommandStands
  <2>2. CASE SpectrumCommand BY <1>2, <2>2, SpectrumCommandStands
  <2>3. CASE StreamCommand BY <1>2, <2>3, StreamCommandStands
  <2>4. CASE RecordingCommand BY <1>2, <2>4, RecordingCommandStands
  <2>5. CASE BusMessage BY <1>2, <2>5, BusMessageStands
  <2>6. CASE StreamingThread BY <1>2, <2>6, StreamingThreadStands
  <2>7. CASE RunCallback BY <1>2, <2>7, RunCallbackStands
  <2>8. CASE AnyRemovalTimeout BY <1>2, <2>8, TimeoutStands
  <2>9. QED BY <1>2, <2>1, <2>2, <2>3, <2>4, <2>5, <2>6, <2>7, <2>8 DEF Step
<1>3. QED BY <1>1, <1>2 DEF Next

LEMMA EngineFollows == EInv => EngineConsistent
<1> SUFFICES ASSUME EInv PROVE EngineConsistent
  OBVIOUS
<1>1. /\ Typed(engine) /\ Placed(engine) /\ Rotating(engine) /\ Reported(engine)
      /\ Ending(engine) /\ Asked(engine) /\ Waited(engine) /\ engine.out = <<>>
  BY DEF EInv, Consistent, Sound, Body
<1>2. Token = Tokens(engine)
  BY <1>1 DEF Typed, Token, Tokens
<1>3. TypeOK
  <2>1. engine.rotation_forced \subseteq Tokens(engine)
    BY <1>1 DEF Typed
  <2>2. QED BY <1>1, <1>2, <2>1 DEF Typed, TypeOK
<1>4. StopWaitsForBranches /\ StopWaitsForRemovals
  BY <1>1 DEF Placed, Ending, Asked, Waited, StopWaitsForBranches, StopWaitsForRemovals
<1>5. ActiveOrFinalizing
  BY <1>1 DEF Placed, ActiveOrFinalizing
<1>6. RotationsComplete
  <2>1. ReadyRotations(engine) = {}
    BY <1>1 DEF Reported, ReadyRotations
  <2>2. QED BY <1>1, <2>1 DEF Typed, Rotating, Reported, RotationsComplete
<1>7. QED BY <1>3, <1>4, <1>5, <1>6 DEF EngineConsistent

(* At every moment the owner's thread lets go of the engine, its fields     *)
(* agree: branches live only in a pipeline, each active under its own kind  *)
(* or being removed; a stop has a removal to wait for; a rotation whose two *)
(* halves are done has been reported (gstreamer_engine.py).                 *)
THEOREM EngineSound == Spec => []EngineConsistent
<1>1. Init => EInv
  BY InitStands
<1>2. EInv /\ [Next]_vars => EInv'
  BY StepStands
<1>3. EInv => EngineConsistent
  BY EngineFollows
<1>4. QED BY <1>1, <1>2, <1>3, PTL DEF Spec

-----------------------------------------------------------------------------
(* Tokens as they were given. A family of subsets of a finite set has a     *)
(* least member, hence a finite set of numbers a greatest, and an ascending *)
(* enumeration: taking the greatest number away leaves one that has one.    *)
Family(F, H) == IsFiniteSet(H) /\ F \subseteq SUBSET H /\ F # {}

LEMMA LeastMember ==
  ASSUME NEW H, NEW F, Family(F, H)
  PROVE  \E T \in F : \A U \in F : U \subseteq T => U = T
<1> DEFINE R == StrictSubsetOrdering(H)
<1>1. IsWellFoundedOn(R, SUBSET H)
  BY FS_StrictSubsetOrderingWellFounded, FS_FiniteSubsetsOfFinite DEF Family
<1> HIDE DEF R
<1>2. PICK T \in F : \A U \in F : ~ (<<U, T>> \in R)
  BY <1>1, WFMin DEF Family
<1>3. ASSUME NEW U \in F, U \subseteq T PROVE U = T
  <2>1. <<U, T>> \in (SUBSET H) \X (SUBSET H)
    BY <1>3 DEF Family
  <2>2. U # T => <<U, T>> \in R
    BY <1>3, <2>1 DEF R, StrictSubsetOrdering
  <2>3. QED BY <1>2, <2>2
<1>4. QED BY <1>3

LEMMA Greatest ==
  ASSUME NEW S, S \subseteq Nat, IsFiniteSet(S), S # {}
  PROVE  \E m \in S : \A n \in S : n <= m
<1> DEFINE Above(x) == {n \in S : n > x}
           F == {Above(x) : x \in S}
<1>1. Family(F, S)
  BY DEF Family
<1>2. PICK T \in F : \A U \in F : U \subseteq T => U = T
  <2> HIDE DEF F
  <2>1. QED BY <1>1, LeastMember
<1>3. PICK m \in S : T = Above(m)
  BY <1>2
<1>4. ASSUME NEW n \in S, n > m PROVE FALSE
  <2>1. Above(n) \subseteq T /\ Above(n) \in F
    <3>1. \A x \in S : x > n => x > m
      BY <1>4
    <3>2. QED BY <1>3, <3>1
  <2>2. n \in T /\ n \notin Above(n)
    <3>1. n \in Nat /\ m \in Nat
      OBVIOUS
    <3>2. QED BY <1>3, <1>4, <3>1
  <2>3. QED BY <1>2, <2>1, <2>2
<1>5. ASSUME NEW n \in S PROVE n <= m
  <2>1. n \in Nat /\ m \in Nat
    OBVIOUS
  <2>2. QED BY <1>4, <2>1
<1>6. QED BY <1>5

Enumerates(q, S) ==
  /\ q \in [1 .. Cardinality(S) -> S]
  /\ \A i, j \in 1 .. Cardinality(S) : i < j => q[i] < q[j]

LEMMA EnumerationGrows ==
  ASSUME NEW S, S \subseteq Nat, IsFiniteSet(S), NEW m \in S, \A n \in S : n <= m,
         NEW q, Enumerates(q, S \ {m})
  PROVE  \E p : Enumerates(p, S)
<1> DEFINE U == S \ {m}
           c == Cardinality(U)
           p == [i \in 1 .. c + 1 |-> IF i = c + 1 THEN m ELSE q[i]]
<1>1. IsFiniteSet(U) /\ c \in Nat /\ Cardinality(S) = c + 1
  <2>1. IsFiniteSet(U) /\ Cardinality(U) = Cardinality(S) - 1 /\ Cardinality(S) \in Nat
    BY FS_RemoveElement, FS_CardinalityType
  <2>2. Cardinality(U) \in Nat
    BY <2>1, FS_CardinalityType
  <2>3. QED BY <2>1, <2>2
<1>2. q \in [1 .. c -> U] /\ \A i, j \in 1 .. c : i < j => q[i] < q[j]
  BY DEF Enumerates
<1> HIDE DEF c
<1>3. \A i \in 1 .. c + 1 : i # c + 1 => i \in 1 .. c /\ q[i] \in U
  BY <1>1, <1>2
<1>4. p \in [1 .. c + 1 -> S]
  BY <1>3
<1>5. ASSUME NEW i \in 1 .. c + 1, NEW j \in 1 .. c + 1, i < j PROVE p[i] < p[j]
  <2>1. i # c + 1 /\ i \in 1 .. c
    BY <1>1, <1>5
  <2>2. p[i] = q[i] /\ q[i] \in U
    BY <1>3, <2>1
  <2>3. CASE j = c + 1
    <3>1. p[j] = m
      BY <2>3
    <3>2. q[i] <= m /\ q[i] # m /\ q[i] \in Nat /\ m \in Nat
      BY <2>2
    <3>3. QED BY <2>2, <3>1, <3>2
  <2>4. CASE j # c + 1
    <3>1. j \in 1 .. c /\ p[j] = q[j]
      BY <1>3, <2>4
    <3>2. QED BY <1>2, <1>5, <2>1, <2>2, <3>1
  <2>5. QED BY <2>3, <2>4
<1> HIDE DEF p
<1>6. QED BY <1>1, <1>4, <1>5 DEF Enumerates

LEMMA HasEnumeration ==
  ASSUME NEW S, S \subseteq Nat, IsFiniteSet(S)
  PROVE  \E q : Enumerates(q, S)
<1> DEFINE F == {T \in SUBSET S : ~ \E q : Enumerates(q, T)}
<1>1. ASSUME F # {} PROVE FALSE
  <2>1. PICK T \in F : \A U \in F : U \subseteq T => U = T
    <3>1. Family(F, S)
      BY <1>1 DEF Family
    <3> HIDE DEF F
    <3>2. QED BY <3>1, LeastMember
  <2>2. T \subseteq S /\ IsFiniteSet(T) /\ ~ \E q : Enumerates(q, T)
    BY FS_Subset
  <2>3. T # {}
    <3>1. Cardinality({}) = 0
      BY FS_EmptySet
    <3>2. [i \in 1 .. 0 |-> 0] \in [1 .. 0 -> {}]
      OBVIOUS
    <3>3. Enumerates([i \in 1 .. 0 |-> 0], {})
      BY <3>1, <3>2 DEF Enumerates
    <3>4. QED BY <2>2, <3>3
  <2>4. PICK m \in T : \A n \in T : n <= m
    BY <2>2, <2>3, Greatest
  <2>5. T \ {m} \notin F /\ T \ {m} \subseteq S
    BY <2>1, <2>2
  <2>6. PICK q : Enumerates(q, T \ {m})
    BY <2>5
  <2>7. T \subseteq Nat
    BY <2>2
  <2>8. QED BY <2>2, <2>4, <2>6, <2>7, EnumerationGrows
<1>2. QED BY <1>1

LEMMA AscendingIsAll ==
  ASSUME NEW S, S \subseteq Nat, IsFiniteSet(S)
  PROVE  /\ Ascending(S) \in Seq(S)
         /\ \A x \in S : \E i \in DOMAIN Ascending(S) : Ascending(S)[i] = x
         /\ \A i, j \in DOMAIN Ascending(S) : Ascending(S)[i] = Ascending(S)[j] => i = j
<1> DEFINE c == Cardinality(S)
           q == Ascending(S)
<1>1. c \in Nat
  BY FS_CardinalityType
<1>2. q \in [1 .. c -> S] /\ \A i, j \in 1 .. c : i < j => q[i] < q[j]
  BY HasEnumeration DEF Ascending, Enumerates
<1> HIDE DEF q, c
<1>3. \A i, j \in 1 .. c : q[i] = q[j] => i = j
  <2> SUFFICES ASSUME NEW i \in 1 .. c, NEW j \in 1 .. c, q[i] = q[j], i # j PROVE FALSE
    OBVIOUS
  <2>1. q[i] \in S /\ q[j] \in S
    BY <1>2
  <2>2. q[i] \in Nat /\ i \in Nat /\ j \in Nat
    <3>1. q[i] \in Nat
      BY <2>1
    <3>2. i \in Nat /\ j \in Nat
      BY <1>1
    <3>3. QED BY <3>1, <3>2
  <2>3. i < j \/ j < i
    BY <2>2
  <2>4. q[i] < q[j] \/ q[j] < q[i]
    BY <1>2, <2>3
  <2>5. QED BY <2>2, <2>4
<1>4. q \in Injection(1 .. c, S)
  BY <1>2, <1>3 DEF Injection, IsInjective
<1>5. IsFiniteSet(1 .. c) /\ Cardinality(1 .. c) = c
  BY <1>1, FS_Interval
<1>6. q \in Surjection(1 .. c, S)
  BY <1>4, <1>5, FS_Injection DEF c
<1>7. \A x \in S : \E i \in 1 .. c : q[i] = x
  BY <1>6 DEF Surjection
<1>8. q \in Seq(S) /\ DOMAIN q = 1 .. c
  BY <1>1, <1>2
<1>9. QED BY <1>3, <1>7, <1>8 DEF q

-----------------------------------------------------------------------------
(* What a handler does, as far as its events tell. Branches leave, and those *)
(* that stay keep what their drain has come to; new ones begin.             *)
Rec(e) ==
  /\ DOMAIN e = Fields /\ e.branches \in Seq(Branch)
  /\ e.active \in [Kind -> Tokens(e) \cup {0}] /\ e.finalizing \subseteq Tokens(e)

Drained(e, f, t) ==
  /\ f.branches[t].eos = e.branches[t].eos
  /\ f.branches[t].drain_scheduled = e.branches[t].drain_scheduled

Fresh(b) == b.eos = "none" /\ ~b.drain_scheduled

Goes(e, f) ==
  /\ Rec(f) /\ Len(e.branches) <= Len(f.branches)
  /\ \A t \in Held(f) :
       IF t \in Tokens(e)
         THEN t \in Held(e) /\ Drained(e, f, t) /\ (t \in e.finalizing => t \in f.finalizing)
         ELSE Fresh(f.branches[t])

(* Nothing is posted, nobody leaves.                                        *)
Plain(e, f) ==
  /\ Goes(e, f) /\ Held(e) \subseteq Held(f)
  /\ f.out = e.out /\ f.stop_pending = e.stop_pending /\ f.pipeline = e.pipeline

Removals(q, t) == {i \in DOMAIN q : q[i].kind = "branch-removed" /\ q[i].token = t}
Answers(q) == {i \in DOMAIN q : q[i].kind = "capture-stopped"}
Clean(p) == p.kind = "branch-removed" /\ p.scope = "recording" /\ p.token # 0 /\ ~p.forced
Sealed(e, t) == e.branches[t].eos = "seen" /\ e.branches[t].valve = "open"

(* What was posted since e says who has left it, once, and which fragments  *)
(* are whole.                                                               *)
Sequential(q) == \E S : q \in Seq(S)

Ledger(e, f) ==
  /\ Sequential(f.out)
  /\ \A t \in Tokens(e) :
       IF t \in Held(e) \ Held(f) THEN \E i : Removals(f.out, t) = {i} ELSE Removals(f.out, t) = {}
  /\ \A i \in DOMAIN f.out : Clean(f.out[i]) => Sealed(e, f.out[i].token)

(* In the middle of a handler no stop has been answered; at its end one that *)
(* is over has been, and only once nothing was left to stop.                *)
Running(e, f) ==
  /\ Goes(e, f) /\ Ledger(e, f)
  /\ Answers(f.out) = {} /\ (e.stop_pending => f.stop_pending)

Answered(e, f) ==
  /\ e.stop_pending /\ ~f.stop_pending => \E i : Answers(f.out) = {i}
  /\ Answers(f.out) # {} =>
       (\E i : Answers(f.out) = {i}) /\ ~f.stop_pending /\ ~f.pipeline /\ Held(f) = {}

Settled(e, f) == Goes(e, f) /\ Ledger(e, f) /\ Answered(e, f)

Silent(p) == p.kind # "capture-stopped" /\ (p.kind = "branch-removed" => p.token = 0)

LEMMA TokensGrow ==
  ASSUME NEW e, NEW f, Rec(e), Rec(f), Len(e.branches) <= Len(f.branches)
  PROVE  Tokens(e) \subseteq Tokens(f) /\ Tokens(e) \subseteq Nat \ {0}
<1>1. Len(e.branches) \in Nat /\ Len(f.branches) \in Nat
  BY LengthIsNat DEF Rec
<1>2. QED BY <1>1 DEF Tokens

LEMMA HeldAreTokens ==
  ASSUME NEW e, Rec(e)
  PROVE  Held(e) \subseteq Tokens(e) /\ Len(e.branches) \in Nat
BY LengthIsNat DEF Rec, Held

LEMMA GoesStart ==
  ASSUME NEW e, Rec(e)
  PROVE  Goes(e, e)
BY HeldAreTokens DEF Goes, Drained

LEMMA GoesOn ==
  ASSUME NEW e, NEW f, NEW g, Rec(e), Goes(e, f), Goes(f, g)
  PROVE  Goes(e, g)
<1>1. Rec(f) /\ Rec(g) /\ Len(e.branches) <= Len(f.branches) /\ Len(f.branches) <= Len(g.branches)
  BY DEF Goes
<1>2. Len(e.branches) \in Nat /\ Len(f.branches) \in Nat /\ Len(g.branches) \in Nat
  BY <1>1, LengthIsNat DEF Rec
<1>3. Tokens(e) \subseteq Tokens(f)
  BY <1>1, TokensGrow
<1>4. ASSUME NEW t \in Held(g), t \in Tokens(e)
      PROVE  t \in Held(e) /\ Drained(e, g, t) /\ (t \in e.finalizing => t \in g.finalizing)
  <2>1. t \in Held(f) /\ Drained(f, g, t) /\ (t \in f.finalizing => t \in g.finalizing)
    BY <1>3, <1>4 DEF Goes
  <2>2. t \in Held(e) /\ Drained(e, f, t) /\ (t \in e.finalizing => t \in f.finalizing)
    BY <1>4, <2>1 DEF Goes
  <2>3. QED BY <2>1, <2>2 DEF Drained
<1>5. ASSUME NEW t \in Held(g), t \notin Tokens(e)
      PROVE  Fresh(g.branches[t])
  <2>1. CASE t \in Tokens(f)
    <3>1. t \in Held(f) /\ Drained(f, g, t)
      BY <2>1 DEF Goes
    <3>2. Fresh(f.branches[t])
      BY <1>5, <3>1 DEF Goes
    <3>3. QED BY <3>1, <3>2 DEF Fresh, Drained
  <2>2. CASE t \notin Tokens(f)
    BY <2>2 DEF Goes
  <2>3. QED BY <2>1, <2>2
<1>6. QED BY <1>1, <1>2, <1>4, <1>5 DEF Goes

LEMMA RunningStart ==
  ASSUME NEW e, Rec(e), e.out = <<>>
  PROVE  Running(e, e)
<1>1. Goes(e, e)
  BY GoesStart
<1>2. Sequential(<<>>) /\ Answers(<<>>) = {} /\ \A t : Removals(<<>>, t) = {}
  <2>1. <<>> \in Seq({})
    OBVIOUS
  <2>2. DOMAIN <<>> = {}
    OBVIOUS
  <2>3. QED BY <2>1, <2>2 DEF Sequential, Answers, Removals
<1>3. Ledger(e, e)
  <2>1. DOMAIN e.out = {}
    OBVIOUS
  <2>2. QED BY <1>2, <2>1 DEF Ledger
<1>4. QED BY <1>1, <1>2, <1>3 DEF Running

LEMMA RunningPlain ==
  ASSUME NEW e, NEW f, NEW g, Rec(e), Running(e, f), Plain(f, g)
  PROVE  Running(e, g)
<1>1. Goes(e, g)
  BY GoesOn DEF Running, Plain
<1>2. \A t \in Tokens(e) : t \in Held(f) <=> t \in Held(g)
  <2>1. Tokens(e) \subseteq Tokens(f)
    BY TokensGrow DEF Running, Goes
  <2>2. QED BY <2>1 DEF Plain, Goes
<1>3. Ledger(e, g)
  BY <1>2 DEF Running, Ledger, Plain
<1>4. QED BY <1>1, <1>3 DEF Running, Plain

(* One more event.                                                          *)
OneMore(q, p, r, n) ==
  /\ Sequential(r) /\ DOMAIN r = DOMAIN q \cup {n} /\ n \notin DOMAIN q /\ r[n] = p
  /\ \A i \in DOMAIN q : r[i] = q[i]
  /\ \A t : Removals(r, t) = IF p.kind = "branch-removed" /\ p.token = t
                              THEN Removals(q, t) \cup {n} ELSE Removals(q, t)
  /\ Answers(r) = IF p.kind = "capture-stopped" THEN Answers(q) \cup {n} ELSE Answers(q)

LEMMA Posted ==
  ASSUME NEW q, NEW p, Sequential(q)
  PROVE  \E n : OneMore(q, p, Append(q, p), n)
<1> DEFINE n == Len(q) + 1
           r == Append(q, p)
<1>1. PICK S : q \in Seq(S)
  BY DEF Sequential
<1> DEFINE T == S \cup {p}
<1>2. q \in Seq(T) /\ p \in T /\ Len(q) \in Nat /\ DOMAIN q = 1 .. Len(q)
  BY <1>1
<1> HIDE DEF T
<1>3. r \in Seq(T) /\ Len(r) = n /\ r[n] = p /\ (\A i \in 1 .. Len(q) : r[i] = q[i]) /\ DOMAIN r = 1 .. n
  BY <1>2, AppendProperties
<1> HIDE DEF r
<1>4. DOMAIN r = DOMAIN q \cup {n} /\ n \notin DOMAIN q
  BY <1>2, <1>3
<1>5. \A i \in DOMAIN q : r[i] = q[i]
  BY <1>2, <1>3
<1> HIDE DEF n
<1>6. ASSUME NEW t
      PROVE  Removals(r, t) = IF p.kind = "branch-removed" /\ p.token = t
                                THEN Removals(q, t) \cup {n} ELSE Removals(q, t)
  BY <1>3, <1>4, <1>5 DEF Removals
<1>7. Answers(r) = IF p.kind = "capture-stopped" THEN Answers(q) \cup {n} ELSE Answers(q)
  BY <1>3, <1>4, <1>5 DEF Answers
<1>8. Sequential(r)
  BY <1>3 DEF Sequential
<1>9. QED BY <1>3, <1>4, <1>5, <1>6, <1>7, <1>8 DEF OneMore, r

(* What Emit leaves alone.                                                  *)
LEMMA Emits ==
  ASSUME NEW f, NEW p, Rec(f)
  PROVE  LET g == Emit(f, p)
         IN /\ g.out = Append(f.out, p) /\ g.stop_pending = f.stop_pending /\ g.pipeline = f.pipeline
            /\ g.shutdown_pending = f.shutdown_pending /\ g.capture_generation = f.capture_generation
            /\ g.branches = f.branches /\ g.active = f.active /\ g.finalizing = f.finalizing
            /\ g.rotations = f.rotations /\ g.rotation_forced = f.rotation_forced
            /\ Held(g) = Held(f) /\ Rec(g) /\ Goes(f, g)
<1> DEFINE g == Emit(f, p)
<1>1. /\ g.out = Append(f.out, p) /\ g.stop_pending = f.stop_pending /\ g.pipeline = f.pipeline
      /\ g.shutdown_pending = f.shutdown_pending /\ g.capture_generation = f.capture_generation
      /\ g.branches = f.branches /\ g.active = f.active /\ g.finalizing = f.finalizing
      /\ g.rotations = f.rotations /\ g.rotation_forced = f.rotation_forced /\ DOMAIN g = Fields
  BY DEF Emit, Rec, Fields
<1> HIDE DEF g
<1>2. Held(g) = Held(f) /\ Tokens(g) = Tokens(f)
  BY <1>1 DEF Held, Tokens
<1>3. Rec(g)
  BY <1>1, <1>2 DEF Rec
<1>4. Len(f.branches) \in Nat /\ Held(f) \subseteq Tokens(f)
  BY HeldAreTokens
<1>5. Goes(f, g)
  BY <1>1, <1>2, <1>3, <1>4 DEF Goes, Drained
<1>6. QED BY <1>1, <1>2, <1>3, <1>5 DEF g

LEMMA LedgerTells ==
  ASSUME NEW e, NEW f, NEW p, NEW g, Rec(e), Goes(e, f), Ledger(e, f), g.out = Append(f.out, p),
         \A t \in Tokens(e) : t \in Held(g) <=> t \in Held(f),
         p.kind = "branch-removed" => p.token = 0
  PROVE  Ledger(e, g)
<1>1. PICK n : OneMore(f.out, p, g.out, n)
  BY Posted DEF Ledger
<1>2. \A t \in Tokens(e) : t # 0
  BY TokensGrow DEF Goes
<1>3. \A t \in Tokens(e) : Removals(g.out, t) = Removals(f.out, t)
  BY <1>1, <1>2 DEF OneMore
<1>4. ~Clean(p)
  BY DEF Clean
<1>5. QED BY <1>1, <1>3, <1>4 DEF Ledger, OneMore

LEMMA RunningTells ==
  ASSUME NEW e, NEW f, NEW p, Rec(e), Running(e, f), Silent(p)
  PROVE  Running(e, Emit(f, p)) /\ Rec(Emit(f, p))
<1> DEFINE g == Emit(f, p)
<1>1. Rec(f) /\ Sequential(f.out)
  BY DEF Running, Goes, Ledger
<1>2. /\ g.out = Append(f.out, p) /\ g.stop_pending = f.stop_pending
      /\ Held(g) = Held(f) /\ Goes(f, g) /\ Rec(g)
  BY <1>1, Emits
<1> HIDE DEF g
<1>3. Goes(e, g) /\ Ledger(e, g)
  BY <1>2, GoesOn, LedgerTells DEF Running, Silent
<1>4. Answers(g.out) = {}
  BY <1>1, <1>2, Posted DEF Running, Silent, OneMore
<1>5. QED BY <1>2, <1>3, <1>4 DEF Running, g

LEMMA SettledTells ==
  ASSUME NEW e, NEW f, NEW p, Rec(e), Settled(e, f), Silent(p)
  PROVE  Settled(e, Emit(f, p))
<1> DEFINE g == Emit(f, p)
<1>1. Rec(f) /\ Sequential(f.out)
  BY DEF Settled, Goes, Ledger
<1>2. /\ g.out = Append(f.out, p) /\ g.stop_pending = f.stop_pending
      /\ g.pipeline = f.pipeline /\ Held(g) = Held(f) /\ Goes(f, g)
  BY <1>1, Emits
<1> HIDE DEF g
<1>3. Goes(e, g) /\ Ledger(e, g)
  BY <1>2, GoesOn, LedgerTells DEF Settled, Silent
<1>4. Answers(g.out) = Answers(f.out)
  BY <1>1, <1>2, Posted DEF Silent, OneMore
<1>5. QED BY <1>2, <1>3, <1>4 DEF Settled, Answered, g

LEMMA RunningSettles ==
  ASSUME NEW e, NEW f, Running(e, f)
  PROVE  Settled(e, f)
BY DEF Running, Settled, Answered

(* A branch leaves, and that is posted.                                     *)
Gone(f, g, t) ==
  /\ Goes(f, g) /\ Held(g) = Held(f) \ {t} /\ g.out = f.out /\ g.stop_pending = f.stop_pending

LEMMA RunningRemoved ==
  ASSUME NEW e, NEW f, NEW g, NEW t \in Tokens(e), NEW p, Rec(e), Running(e, f), t \in Held(f), Gone(f, g, t),
         p.kind = "branch-removed", p.token = t, Clean(p) => Sealed(e, t)
  PROVE  Running(e, Emit(g, p))
<1> DEFINE h == Emit(g, p)
<1>1. Rec(g) /\ Sequential(f.out)
  BY DEF Gone, Running, Goes, Ledger
<1>2. /\ h.out = Append(f.out, p) /\ h.stop_pending = f.stop_pending
      /\ Held(h) = Held(f) \ {t} /\ Goes(g, h)
  BY <1>1, Emits DEF Gone
<1> HIDE DEF h
<1>3. Goes(e, h)
  BY <1>2, GoesOn DEF Gone, Running
<1>4. PICK n : OneMore(f.out, p, h.out, n)
  BY <1>1, <1>2, Posted
<1>5. t \in Held(e)
  BY DEF Running, Goes
<1>6. Ledger(e, h)
  <2>1. ASSUME NEW u \in Tokens(e)
        PROVE  IF u \in Held(e) \ Held(h) THEN \E i : Removals(h.out, u) = {i} ELSE Removals(h.out, u) = {}
    <3>1. CASE u = t
      <4>1. Removals(f.out, t) = {}
        BY DEF Running, Ledger
      <4>2. QED BY <1>2, <1>4, <1>5, <3>1, <4>1, ZenonT(60) DEF OneMore
    <3>2. CASE u # t
      <4>1. Removals(h.out, u) = Removals(f.out, u) /\ (u \in Held(h) <=> u \in Held(f))
        BY <1>2, <1>4, <3>2 DEF OneMore
      <4>2. QED BY <4>1 DEF Running, Ledger
    <3>3. QED BY <3>1, <3>2
  <2>2. \A i \in DOMAIN h.out : Clean(h.out[i]) => Sealed(e, h.out[i].token)
    BY <1>4 DEF Running, Ledger, OneMore
  <2>3. QED BY <1>4, <2>1, <2>2 DEF Ledger, OneMore
<1>7. Answers(h.out) = {}
  BY <1>4 DEF Running, OneMore
<1>8. QED BY <1>2, <1>3, <1>6, <1>7 DEF Running, h

LEMMA Shaped == ASSUME NEW e, Body(e) PROVE Rec(e)
BY DEF Body, Typed, Rec

LEMMA PlainBy ==
  ASSUME NEW e, NEW f, Rec(e), Rec(f), Len(f.branches) = Len(e.branches), Held(f) = Held(e),
         \A t \in Tokens(e) : Drained(e, f, t), e.finalizing \subseteq f.finalizing,
         f.out = e.out, f.stop_pending = e.stop_pending, f.pipeline = e.pipeline
  PROVE  Plain(e, f)
<1>1. Len(e.branches) \in Nat /\ Held(e) \subseteq Tokens(e)
  BY HeldAreTokens
<1>2. QED BY <1>1 DEF Plain, Goes

LEMMA RunningPosts ==
  ASSUME NEW e, NEW f, NEW g, NEW p, Rec(e), Running(e, f), Goes(f, g), Held(f) \subseteq Held(g),
         g.stop_pending = f.stop_pending, g.out = Append(f.out, p), Silent(p)
  PROVE  Running(e, g)
<1>1. Goes(e, f) /\ Ledger(e, f) /\ Goes(e, g)
  BY GoesOn DEF Running
<1>2. \A t \in Tokens(e) : t \in Held(g) <=> t \in Held(f)
  <2>1. Tokens(e) \subseteq Tokens(f)
    BY <1>1, TokensGrow DEF Goes
  <2>2. QED BY <2>1 DEF Goes
<1>3. Ledger(e, g)
  BY <1>1, <1>2, LedgerTells DEF Silent
<1>4. Answers(g.out) = {}
  BY <1>1, Posted DEF Running, Ledger, Silent, OneMore
<1>5. QED BY <1>1, <1>3, <1>4 DEF Running

-----------------------------------------------------------------------------
(* The pieces of the handlers.                                              *)
LEMMA CancelPlain ==
  ASSUME NEW e, NEW t, Rec(e)
  PROVE  LET f == CancelRotation(e, t)
         IN /\ Plain(e, f) /\ Rec(f)
            /\ f.active = e.active /\ f.finalizing = e.finalizing /\ f.branches = e.branches
<1> DEFINE f == CancelRotation(e, t)
<1>1. /\ DOMAIN f = Fields
      /\ f.active = e.active /\ f.finalizing = e.finalizing /\ f.branches = e.branches
      /\ f.out = e.out /\ f.stop_pending = e.stop_pending /\ f.pipeline = e.pipeline
  BY DEF CancelRotation, Rec, Fields
<1> HIDE DEF f
<1>2. Held(f) = Held(e) /\ Tokens(f) = Tokens(e)
  BY <1>1 DEF Held, Tokens
<1>3. Rec(f)
  BY <1>1, <1>2 DEF Rec
<1>4. QED BY <1>1, <1>2, <1>3, PlainBy DEF Drained, f

LEMMA HandleDoes ==
  ASSUME NEW e, NEW t \in Tokens(e), NEW drain \in BOOLEAN, Rec(e)
  PROVE  LET f == BeginRemoveHandle(e, t, drain)
         IN /\ Rec(f) /\ Len(f.branches) = Len(e.branches)
            /\ f.active = e.active /\ f.finalizing = e.finalizing \cup {t}
            /\ \A i \in Tokens(e) : Drained(e, f, i)
            /\ f.out = e.out /\ f.stop_pending = e.stop_pending /\ f.pipeline = e.pipeline
<1> DEFINE f == BeginRemoveHandle(e, t, drain)
           b == [e.branches[t] EXCEPT !.drain = drain]
           bs == [e.branches EXCEPT ![t] = b]
<1>1. /\ Scalars(e, f) /\ KindsStand(e, f) /\ f.active = e.active
      /\ f.finalizing = e.finalizing \cup {t}
  BY Handled DEF Rec
<1>2. CASE t \in e.finalizing
  <2>1. f = e
    BY <1>2 DEF BeginRemoveHandle
  <2>2. QED BY <1>2, <2>1 DEF Drained
<1>3. CASE t \notin e.finalizing
  <2>1. f.out = e.out /\ f.branches = bs
    BY <1>3 DEF BeginRemoveHandle, Rec, Fields
  <2>2. b.eos = e.branches[t].eos /\ b.drain_scheduled = e.branches[t].drain_scheduled
    <3> DEFINE old == e.branches[t]
    <3>1. old \in Branch
      BY DEF Tokens, Rec
    <3> HIDE DEF old
    <3>2. QED BY <3>1 DEF old, Branch
  <2>3. \A i \in Tokens(e) : bs[i] = IF i = t THEN b ELSE e.branches[i]
    BY DEF Tokens, Rec
  <2> HIDE DEF b, bs, f
  <2>4. \A i \in Tokens(e) : Drained(e, f, i)
    BY <2>1, <2>2, <2>3 DEF Drained
  <2>5. Rec(f)
    BY <1>1 DEF Rec, Scalars, KindsStand, Tokens
  <2>6. QED BY <1>1, <2>1, <2>4, <2>5 DEF Scalars, KindsStand, f
<1>4. QED BY <1>2, <1>3

(* A branch that is there begins to be removed.                             *)
LEMMA Retires ==
  ASSUME NEW e, NEW f, NEW t \in Held(e), NEW drain \in BOOLEAN, Rec(e), Rec(f),
         f.branches = e.branches, f.finalizing = e.finalizing,
         {f.active[k] : k \in Kind} \ {0} \subseteq {e.active[k] : k \in Kind},
         {e.active[k] : k \in Kind} \subseteq {f.active[k] : k \in Kind} \cup {0, t},
         f.out = e.out, f.stop_pending = e.stop_pending, f.pipeline = e.pipeline
  PROVE  Plain(e, BeginRemoveHandle(f, t, drain))
<1> DEFINE g == BeginRemoveHandle(f, t, drain)
<1>1. t \in Tokens(f) /\ Tokens(f) = Tokens(e)
  BY HeldAreTokens DEF Tokens
<1>2. /\ Rec(g) /\ Len(g.branches) = Len(f.branches)
      /\ g.active = f.active /\ g.finalizing = f.finalizing \cup {t}
      /\ \A i \in Tokens(f) : Drained(f, g, i)
      /\ g.out = f.out /\ g.stop_pending = f.stop_pending /\ g.pipeline = f.pipeline
  BY <1>1, HandleDoes
<1> HIDE DEF g
<1>3. t # 0
  BY <1>1, HeldAreTokens DEF Tokens
<1>4. Held(g) = Held(e)
  <2> DEFINE A(x) == {x.active[k] : k \in Kind}
  <2>1. A(f) \ {0} \subseteq A(e) /\ A(e) \subseteq A(f) \cup {0, t}
    OBVIOUS
  <2>2. A(g) = A(f)
    BY <1>2
  <2>3. Held(g) = (A(f) \ {0}) \cup (e.finalizing \cup {t})
    BY <1>2, <2>2 DEF Held
  <2>4. Held(e) = (A(e) \ {0}) \cup e.finalizing
    BY DEF Held
  <2> HIDE DEF A
  <2>5. QED BY <1>3, <2>1, <2>3, <2>4
<1>5. \A i \in Tokens(e) : Drained(e, g, i)
  BY <1>1, <1>2 DEF Drained
<1>6. QED BY <1>2, <1>4, <1>5, PlainBy DEF g

LEMMA BeginPlain ==
  ASSUME NEW e, NEW kind \in Kind, NEW drain \in BOOLEAN, Rec(e)
  PROVE  Plain(e, BeginRemove(e, kind, drain)) /\ BeginRemove(e, kind, drain).active[kind] = 0
<1> DEFINE t == e.active[kind]
           f == BeginRemove(e, kind, drain)
<1>1. CASE t = 0
  <2>1. f = e
    BY <1>1 DEF BeginRemove
  <2>2. QED BY <1>1, <2>1, GoesStart DEF Plain
<1>2. CASE t # 0
  <2> DEFINE e1 == [e EXCEPT !.active[kind] = 0]
             e2 == CancelRotation(e1, t)
  <2>1. f = BeginRemoveHandle(e2, t, drain)
    BY <1>2 DEF BeginRemove
  <2>2. /\ DOMAIN e1 = Fields /\ e1.active = [e.active EXCEPT ![kind] = 0]
        /\ e1.branches = e.branches /\ e1.finalizing = e.finalizing
        /\ e1.out = e.out /\ e1.stop_pending = e.stop_pending /\ e1.pipeline = e.pipeline
    BY DEF Rec, Fields
  <2> HIDE DEF e1
  <2>3. Rec(e1)
    BY <2>2 DEF Rec, Tokens
  <2>4. /\ Plain(e1, e2) /\ Rec(e2)
        /\ e2.active = e1.active /\ e2.finalizing = e1.finalizing /\ e2.branches = e1.branches
    BY <2>3, CancelPlain
  <2> HIDE DEF e2
  <2>5. t \in Held(e)
    BY <1>2 DEF Held
  <2>6. /\ {e2.active[k] : k \in Kind} \ {0} \subseteq {e.active[k] : k \in Kind}
        /\ {e.active[k] : k \in Kind} \subseteq {e2.active[k] : k \in Kind} \cup {0, t}
    BY <2>2, <2>4 DEF Rec
  <2>7. Plain(e, f)
    <3>1. /\ e2.branches = e.branches /\ e2.finalizing = e.finalizing
          /\ e2.out = e.out /\ e2.stop_pending = e.stop_pending /\ e2.pipeline = e.pipeline
      BY <2>2, <2>4 DEF Plain
    <3> HIDE DEF f, t
    <3>2. Plain(e, BeginRemoveHandle(e2, t, drain))
      BY <2>4, <2>5, <2>6, <3>1, Retires
    <3>3. QED BY <2>1, <3>2
  <2>8. t \in Tokens(e2)
    BY <2>2, <2>4, <2>5, HeldAreTokens DEF Tokens
  <2>9. f.active = e2.active
    BY <2>1, <2>4, <2>8, HandleDoes
  <2>10. QED BY <2>2, <2>4, <2>7, <2>9 DEF Rec
<1>3. QED BY <1>1, <1>2

LEMMA RunningRotates ==
  ASSUME NEW e, NEW f, NEW t, NEW forced, Rec(e), Running(e, f)
  PROVE  Running(e, CompleteRotation(f, t, forced))
<1>1. CASE \A r \in ReadyRotations(f) : r.old # t
  BY <1>1 DEF CompleteRotation
<1>2. CASE \E r \in ReadyRotations(f) : r.old = t
  <2> DEFINE r == CHOOSE q \in ReadyRotations(f) : q.old = t
             g == [f EXCEPT !.rotations = @ \ {r}, !.rotation_forced = @ \ {t}]
             p == Rotated(f, r, forced \/ t \in f.rotation_forced)
  <2>1. CompleteRotation(f, t, forced) = Emit(g, p)
    BY <1>2 DEF CompleteRotation
  <2>2. Rec(f)
    BY DEF Running, Goes
  <2>3. /\ DOMAIN g = Fields
        /\ g.active = f.active /\ g.finalizing = f.finalizing /\ g.branches = f.branches
        /\ g.out = f.out /\ g.stop_pending = f.stop_pending /\ g.pipeline = f.pipeline
    BY <2>2 DEF Rec, Fields
  <2>4. Silent(p)
    BY DEF Rotated, Silent
  <2> HIDE DEF r, g, p
  <2>5. Rec(g) /\ Held(g) = Held(f) /\ Tokens(g) = Tokens(f)
    BY <2>2, <2>3 DEF Rec, Tokens, Held
  <2>6. Plain(f, g)
    BY <2>2, <2>3, <2>5, PlainBy DEF Drained
  <2>7. Running(e, g)
    BY <2>6, RunningPlain
  <2>8. QED BY <2>1, <2>4, <2>7, RunningTells
<1>3. QED BY <1>1, <1>2

(* A stop is answered.                                                      *)
LEMMA AnsweredSettles ==
  ASSUME NEW e, NEW g, NEW n, Rec(e), Goes(e, g), Ledger(e, g), Answers(g.out) = {},
         ~g.stop_pending, ~g.pipeline, Held(g) = {}
  PROVE  Settled(e, EmitCaptureStopped(g, n))
<1> DEFINE p == CaptureEvent("capture-stopped", n)
           h == Emit(g, p)
           i == [h EXCEPT !.shutdown_pending = FALSE]
           q == CaptureEvent("shutdown-complete", n)
<1>1. p.kind = "capture-stopped" /\ Silent(q)
  BY DEF CaptureEvent, Silent
<1>2. Rec(g) /\ Sequential(g.out)
  BY DEF Goes, Ledger
<1> HIDE DEF p, q
<1>3. /\ h.out = Append(g.out, p) /\ h.stop_pending = g.stop_pending /\ h.pipeline = g.pipeline
      /\ Held(h) = Held(g) /\ Rec(h) /\ Goes(g, h)
  BY <1>2, Emits
<1> HIDE DEF h
<1>4. PICK m : OneMore(g.out, p, h.out, m)
  BY <1>2, <1>3, Posted
<1>5. Answers(h.out) = {m}
  BY <1>1, <1>4 DEF OneMore
<1>6. Goes(e, h)
  BY <1>3, GoesOn
<1>7. Ledger(e, h)
  BY <1>1, <1>3, LedgerTells
<1>8. Settled(e, h)
  BY <1>3, <1>5, <1>6, <1>7 DEF Settled, Answered
<1>9. /\ DOMAIN i = Fields
      /\ i.active = h.active /\ i.finalizing = h.finalizing /\ i.branches = h.branches
      /\ i.out = h.out /\ i.stop_pending = h.stop_pending /\ i.pipeline = h.pipeline
  BY <1>3 DEF Rec, Fields
<1> HIDE DEF i
<1>10. Rec(i) /\ Held(i) = Held(h) /\ Tokens(i) = Tokens(h)
  BY <1>3, <1>9 DEF Rec, Tokens, Held
<1>11. Goes(h, i)
  BY <1>3, <1>9, <1>10, PlainBy DEF Drained, Plain
<1>12. Settled(e, i)
  <2>1. Goes(e, i)
    BY <1>6, <1>11, GoesOn
  <2>2. QED BY <1>8, <1>9, <1>10, <2>1 DEF Settled, Ledger, Answered
<1>13. Settled(e, Emit(i, q))
  BY <1>1, <1>12, SettledTells
<1>14. QED BY <1>8, <1>13 DEF EmitCaptureStopped, h, i, p, q

LEMMA StopSettles ==
  ASSUME NEW e, NEW f, Rec(e), Running(e, f)
  PROVE  Settled(e, MaybeFinishCaptureStop(f))
<1>1. CASE ~f.stop_pending \/ Held(f) # {}
  BY <1>1, RunningSettles DEF MaybeFinishCaptureStop
<1>2. CASE f.stop_pending /\ Held(f) = {}
  <2> DEFINE g == [ForcePipelineNull(f) EXCEPT !.rotations = {}, !.rotation_forced = {}, !.stop_pending = FALSE]
  <2>1. MaybeFinishCaptureStop(f) = EmitCaptureStopped(g, f.capture_generation)
    BY <1>2 DEF MaybeFinishCaptureStop
  <2>2. Rec(f)
    BY DEF Running, Goes
  <2>3. /\ DOMAIN g = Fields /\ g.pipeline = FALSE /\ g.stop_pending = FALSE
        /\ g.active = f.active /\ g.finalizing = f.finalizing /\ g.branches = f.branches
        /\ g.out = f.out
    BY <2>2 DEF ForcePipelineNull, Rec, Fields
  <2> HIDE DEF g
  <2>4. Rec(g) /\ Held(g) = {}
    <3>1. Held(g) = Held(f) /\ Tokens(g) = Tokens(f)
      BY <2>3 DEF Tokens, Held
    <3>2. Rec(g)
      BY <2>2, <2>3, <3>1 DEF Rec
    <3> QED BY <1>2, <3>1, <3>2
  <2>5. Goes(f, g)
    BY <2>2, <2>3, <2>4, HeldAreTokens DEF Goes
  <2>6. Goes(e, g) /\ Ledger(e, g)
    BY <1>2, <2>3, <2>4, <2>5, GoesOn DEF Running, Ledger
  <2>7. Answers(g.out) = {}
    BY <2>3 DEF Running
  <2>8. QED BY <2>1, <2>3, <2>4, <2>6, <2>7, AnsweredSettles
<1>3. QED BY <1>1, <1>2

(* A branch leaves.                                                         *)
LEMMA DiscardDoes ==
  ASSUME NEW e, NEW t \in Tokens(e), NEW forced \in BOOLEAN, Rec(e)
  PROVE  LET f == Discard(e, t, forced)
         IN /\ Rec(f) /\ Len(f.branches) = Len(e.branches)
            /\ f.active = e.active /\ f.finalizing = e.finalizing
            /\ \A i \in Tokens(e) : i # t => Drained(e, f, i)
            /\ f.branches[t].kind = e.branches[t].kind
            /\ f.out = e.out /\ f.stop_pending = e.stop_pending /\ f.pipeline = e.pipeline
<1> DEFINE f == Discard(e, t, forced)
<1>1. /\ Scalars(e, f) /\ KindsStand(e, f) /\ f.active = e.active /\ f.finalizing = e.finalizing
  BY Discarded DEF Rec
<1>2. /\ f.out = e.out
      /\ \A i \in Tokens(e) : i # t => f.branches[i] = e.branches[i]
  BY DEF Discard, Rec, Fields, Tokens
<1> HIDE DEF f
<1>3. Rec(f)
  BY <1>1 DEF Rec, Scalars, KindsStand, Tokens
<1>4. QED BY <1>1, <1>2, <1>3 DEF Drained, Scalars, KindsStand, f

LEMMA GoneBy ==
  ASSUME NEW f, NEW g, NEW t \in Tokens(f), Rec(f), Rec(g), Len(g.branches) = Len(f.branches),
         Held(g) = Held(f) \ {t}, \A i \in Tokens(f) : i # t => Drained(f, g, i),
         f.finalizing \ {t} \subseteq g.finalizing,
         g.out = f.out, g.stop_pending = f.stop_pending
  PROVE  Gone(f, g, t)
<1>1. Len(f.branches) \in Nat /\ Held(f) \subseteq Tokens(f)
  BY HeldAreTokens
<1>2. QED BY <1>1 DEF Gone, Goes

LEMMA FinishSettles ==
  ASSUME NEW e, NEW f, NEW t \in Tokens(e), NEW forced \in BOOLEAN, NEW closed \in BOOLEAN,
         Rec(e), Running(e, f), Placed(f),
         \/ forced \/ f.branches[t].kind # "recording"
         \/ e.branches[t].eos = "seen" /\ e.branches[t].valve = f.branches[t].valve
  PROVE  Settled(e, FinishRemove(f, t, forced, closed))
<1>1. CASE t \notin f.finalizing
  BY <1>1, RunningSettles DEF FinishRemove
<1>2. CASE t \in f.finalizing
  <2> DEFINE b == f.branches[t]
             spoiled == forced \/ (b.kind = "recording" /\ (b.valve # "open" \/ ~closed))
             marked == IF forced /\ \E r \in f.rotations : r.old = t
                         THEN f.rotation_forced \cup {t} ELSE f.rotation_forced
             f1 == [f EXCEPT !.finalizing = f.finalizing \ {t}, !.rotation_forced = marked]
             gone == Discard(f1, t, spoiled)
             p == BranchEvent(gone, "error", t)
             q == Removed(gone, t, spoiled)
             told == IF spoiled /\ b.kind = "recording" THEN Emit(gone, p) ELSE gone
             said == Emit(told, Removed(told, t, spoiled))
             done == CompleteRotation(said, t, spoiled)
  <2>1. FinishRemove(f, t, forced, closed) = MaybeFinishCaptureStop(done)
    BY <1>2 DEF FinishRemove
  <2>2. Rec(f) /\ t \in Tokens(f) /\ spoiled \in BOOLEAN
    BY <1>2 DEF Running, Goes, Rec
  <2>3. Clean(q) => Sealed(e, t)
    <3>1. gone.branches[t].kind = b.kind
      <4>1. Rec(f1) /\ Tokens(f1) = Tokens(f) /\ f1.branches = f.branches
        BY <2>2 DEF Rec, Fields, Tokens
      <4> HIDE DEF f1, spoiled
      <4>2. QED BY <2>2, <4>1, DiscardDoes
    <3> HIDE DEF gone
    <3>2. Clean(q) => b.kind = "recording" /\ ~spoiled
      BY <3>1 DEF Clean, Removed
    <3>3. QED BY <3>2 DEF Sealed
  <2> HIDE DEF spoiled, marked
  <2>4. /\ DOMAIN f1 = Fields /\ f1.active = f.active /\ f1.finalizing = f.finalizing \ {t}
        /\ f1.branches = f.branches
        /\ f1.out = f.out /\ f1.stop_pending = f.stop_pending /\ f1.pipeline = f.pipeline
    BY <2>2 DEF Rec, Fields
  <2> HIDE DEF f1
  <2>5. Rec(f1) /\ Tokens(f1) = Tokens(f)
    BY <2>2, <2>4 DEF Rec, Tokens
  <2>6. /\ Rec(gone) /\ Len(gone.branches) = Len(f1.branches)
        /\ gone.active = f1.active /\ gone.finalizing = f1.finalizing
        /\ \A i \in Tokens(f1) : i # t => Drained(f1, gone, i)
        /\ gone.out = f1.out /\ gone.stop_pending = f1.stop_pending
    BY <2>2, <2>5, DiscardDoes
  <2> HIDE DEF gone
  <2>7. Held(gone) = Held(f) \ {t}
    <3>1. \A k \in Kind : f.active[k] # t
      BY <1>2, <2>2, HeldAreTokens DEF Placed, Tokens
    <3>2. QED BY <2>4, <2>6, <3>1 DEF Held
  <2>8. Gone(f, gone, t)
    <3>1. \A i \in Tokens(f) : i # t => Drained(f, gone, i)
      BY <2>4, <2>5, <2>6 DEF Drained
    <3>2. QED BY <2>2, <2>4, <2>6, <2>7, <3>1, GoneBy
  <2>9. q.kind = "branch-removed" /\ q.token = t /\ Silent(p)
    BY DEF Removed, BranchEvent, Silent
  <2>10. t \in Held(f)
    BY <1>2 DEF Held
  <2>11. Running(e, said)
    <3>1. CASE ~(spoiled /\ b.kind = "recording")
      <4>1. said = Emit(gone, q)
        BY <3>1
      <4> HIDE DEF said, q
      <4>2. QED BY <2>3, <2>8, <2>9, <2>10, <4>1, RunningRemoved
    <3>2. CASE spoiled /\ b.kind = "recording"
      <4> DEFINE f2 == Emit(f, p)
      <4>1. said = Emit(told, q) /\ told = Emit(gone, p)
        <5>1. told = Emit(gone, p)
          BY <3>2
        <5>2. told.branches = gone.branches
          BY <2>6, <5>1, Emits
        <5> HIDE DEF told
        <5>3. QED BY <5>1, <5>2 DEF Removed
      <4> HIDE DEF said, q, p, told
      <4>2. Running(e, f2) /\ Rec(f2)
        BY <2>9, RunningTells
      <4>3. /\ f2.out = Append(f.out, p) /\ f2.stop_pending = f.stop_pending /\ Held(f2) = Held(f)
            /\ f2.branches = f.branches /\ f2.finalizing = f.finalizing
        BY <2>2, Emits
      <4>4. /\ told.out = Append(gone.out, p) /\ told.stop_pending = gone.stop_pending
            /\ Held(told) = Held(gone) /\ told.branches = gone.branches
            /\ told.finalizing = gone.finalizing /\ Rec(told)
        BY <2>6, <4>1, Emits
      <4> HIDE DEF f2
      <4>5. Gone(f2, told, t)
        <5>1. Tokens(f2) = Tokens(f)
          BY <4>3 DEF Tokens
        <5>2. \A i \in Tokens(f2) : i # t => Drained(f2, told, i)
          BY <2>4, <2>5, <2>6, <4>3, <4>4, <5>1 DEF Drained
        <5>3. QED BY <2>2, <2>4, <2>6, <2>7, <4>2, <4>3, <4>4, <5>1, <5>2, GoneBy
      <4>6. QED BY <2>3, <2>9, <2>10, <4>1, <4>2, <4>3, <4>5, RunningRemoved
    <3>3. QED BY <3>1, <3>2
  <2> HIDE DEF said
  <2>12. Running(e, done)
    BY <2>11, RunningRotates
  <2>13. QED BY <2>1, <2>12, StopSettles
<1>3. QED BY <1>1, <1>2

LEMMA DetachSettles ==
  ASSUME NEW e, NEW f, NEW t \in Tokens(e), NEW closed \in BOOLEAN, Rec(e), Running(e, f), Placed(f), t \in Held(f)
  PROVE  Settled(e, DetachBranch(f, t, closed))
<1> DEFINE retiring == \E r \in f.rotations : r.old = t
           marked == [f EXCEPT !.rotation_forced = f.rotation_forced \cup {t}]
           base == IF retiring THEN marked ELSE CancelRotation(f, t)
           k == f.branches[t].kind
           cut == IF f.active[k] = t THEN [base EXCEPT !.active[k] = 0] ELSE base
           g == DetachBranch(f, t, closed)
           yes == TRUE
<1>1. Rec(f) /\ t # 0 /\ t \in Tokens(f) /\ yes \in BOOLEAN /\ (~yes) \in BOOLEAN
  <2>1. Rec(f)
    BY DEF Running, Goes
  <2>2. t \in Tokens(f) /\ Len(f.branches) \in Nat
    BY <2>1, HeldAreTokens
  <2>3. t # 0
    BY <2>2 DEF Tokens
  <2>4. QED BY <2>1, <2>2, <2>3
<1> HIDE DEF yes
<1>2. /\ DOMAIN marked = Fields /\ marked.branches = f.branches /\ marked.active = f.active
      /\ marked.finalizing = f.finalizing
      /\ marked.out = f.out /\ marked.stop_pending = f.stop_pending /\ marked.pipeline = f.pipeline
  BY <1>1 DEF Rec, Fields
<1> HIDE DEF marked
<1>3. Rec(marked) /\ Held(marked) = Held(f) /\ Tokens(marked) = Tokens(f)
  BY <1>1, <1>2 DEF Rec, Tokens, Held
<1>4. CASE retiring /\ t \in f.finalizing
  <2>1. g = FinishRemove(marked, t, yes, closed)
    BY <1>4 DEF DetachBranch, marked, yes
  <2>2. Plain(f, marked)
    BY <1>1, <1>2, <1>3, PlainBy DEF Drained
  <2>3. Running(e, marked)
    BY <2>2, RunningPlain
  <2>4. Placed(marked)
    <3>1. marked.rotations = f.rotations /\ marked.start_pending = f.start_pending
      BY <1>1 DEF marked, Rec, Fields
    <3>2. QED BY <1>2, <1>3, <3>1 DEF Placed
  <2>5. yes
    BY DEF yes
  <2>6. QED BY <1>1, <2>1, <2>3, <2>4, <2>5, FinishSettles
<1>5. CASE ~(retiring /\ t \in f.finalizing)
  <2>1. g = BeginRemoveHandle(cut, t, ~yes)
    BY <1>5 DEF DetachBranch, marked, yes
  <2>2. /\ Rec(base) /\ base.branches = f.branches /\ base.active = f.active
        /\ base.finalizing = f.finalizing
        /\ base.out = f.out /\ base.stop_pending = f.stop_pending /\ base.pipeline = f.pipeline
    BY <1>1, <1>2, <1>3, CancelPlain DEF Plain
  <2> HIDE DEF base
  <2>3. k \in Kind
    <3>1. f.branches[t] \in Branch
      BY <1>1 DEF Rec, Tokens
    <3>2. QED BY <3>1 DEF Branch
  <2>4. /\ DOMAIN cut = Fields /\ cut.branches = f.branches
        /\ cut.active = IF f.active[k] = t THEN [f.active EXCEPT ![k] = 0] ELSE f.active
        /\ cut.finalizing = f.finalizing
        /\ cut.out = f.out /\ cut.stop_pending = f.stop_pending /\ cut.pipeline = f.pipeline
    BY <2>2 DEF Rec, Fields
  <2> HIDE DEF cut, k
  <2>5. Rec(cut)
    <3>1. cut.active \in [Kind -> Tokens(f) \cup {0}]
      BY <1>1, <2>4 DEF Rec
    <3>2. QED BY <1>1, <2>4, <3>1 DEF Rec, Tokens
  <2>6. /\ {cut.active[j] : j \in Kind} \ {0} \subseteq {f.active[j] : j \in Kind}
        /\ {f.active[j] : j \in Kind} \subseteq {cut.active[j] : j \in Kind} \cup {0, t}
    BY <1>1, <2>4 DEF Rec
  <2>7. Plain(f, BeginRemoveHandle(cut, t, ~yes))
    BY <1>1, <2>4, <2>5, <2>6, Retires
  <2>8. QED BY <2>1, <2>7, RunningPlain, RunningSettles
<1>6. QED BY <1>4, <1>5

LEMMA ForceSettles ==
  ASSUME NEW e, NEW f, NEW t \in Tokens(e), NEW forced \in BOOLEAN, Rec(e), Running(e, f), Placed(f),
         t = f.active[f.branches[t].kind], forced \/ f.branches[t].kind # "recording"
  PROVE  Settled(e, ForceRemoveNow(f, t, forced))
<1> DEFINE k == f.branches[t].kind
           f1 == [f EXCEPT !.active[k] = 0]
           f2 == CancelRotation(f1, t)
           gone == Discard(f2, t, forced)
           q == Removed(gone, t, forced)
<1>1. ForceRemoveNow(f, t, forced) = MaybeFinishCaptureStop(Emit(gone, q))
  BY DEF ForceRemoveNow
<1>2. Rec(f) /\ t \in Tokens(f) /\ t # 0
  <2>1. Rec(f) /\ Tokens(e) \subseteq Tokens(f) /\ Tokens(e) \subseteq Nat \ {0}
    BY TokensGrow DEF Running, Goes
  <2>2. QED BY <2>1
<1>3. k \in Kind
  <2>1. f.branches[t] \in Branch
    BY <1>2 DEF Rec, Tokens
  <2>2. QED BY <2>1 DEF Branch
<1>4. t \in Held(f) /\ t \notin f.finalizing /\ \A j \in Kind : j # k => f.active[j] # t
  BY <1>2, <1>3 DEF Held, Placed
<1>5. k # "recording" \/ forced
  OBVIOUS
<1>6. t = f.active[k]
  OBVIOUS
<1>7. /\ DOMAIN f1 = Fields /\ f1.branches = f.branches /\ f1.active = [f.active EXCEPT ![k] = 0]
      /\ f1.finalizing = f.finalizing
      /\ f1.out = f.out /\ f1.stop_pending = f.stop_pending /\ f1.pipeline = f.pipeline
  BY <1>2 DEF Rec, Fields
<1> HIDE DEF f1
<1>8. Rec(f1)
  BY <1>2, <1>3, <1>7 DEF Rec, Tokens
<1>9. /\ Rec(f2) /\ f2.active = f1.active /\ f2.finalizing = f1.finalizing /\ f2.branches = f1.branches
      /\ f2.out = f1.out /\ f2.stop_pending = f1.stop_pending
  BY <1>8, CancelPlain DEF Plain
<1> HIDE DEF f2
<1>10. Tokens(f2) = Tokens(f)
  BY <1>7, <1>9 DEF Tokens
<1>11. /\ Rec(gone) /\ Len(gone.branches) = Len(f2.branches)
       /\ gone.active = f2.active /\ gone.finalizing = f2.finalizing
       /\ \A i \in Tokens(f2) : i # t => Drained(f2, gone, i)
       /\ gone.branches[t].kind = f2.branches[t].kind
       /\ gone.out = f2.out /\ gone.stop_pending = f2.stop_pending
  BY <1>2, <1>9, <1>10, DiscardDoes
<1> HIDE DEF gone
<1>12. ~Clean(q) /\ q.kind = "branch-removed" /\ q.token = t
  BY <1>5, <1>7, <1>9, <1>11 DEF Removed, Clean
<1> HIDE DEF q
<1>13. Held(gone) = Held(f) \ {t}
  <2>1. \A j \in Kind : gone.active[j] = IF j = k THEN 0 ELSE f.active[j]
    BY <1>2, <1>3, <1>7, <1>9, <1>11 DEF Rec
  <2> HIDE DEF k
  <2>2. gone.finalizing = f.finalizing
    BY <1>7, <1>9, <1>11
  <2>3. \A x : x \in {gone.active[j] : j \in Kind} \ {0} <=> x \in ({f.active[j] : j \in Kind} \ {0}) \ {t}
    BY <1>3, <1>4, <1>6, <2>1
  <2>4. QED BY <1>4, <2>2, <2>3 DEF Held
<1> HIDE DEF k
<1>14. Gone(f, gone, t)
  <2>1. \A i \in Tokens(f) : i # t => Drained(f, gone, i)
    BY <1>7, <1>9, <1>10, <1>11 DEF Drained
  <2>2. QED BY <1>2, <1>7, <1>9, <1>11, <1>13, <2>1, GoneBy
<1>15. Running(e, Emit(gone, q))
  BY <1>4, <1>12, <1>14, RunningRemoved
<1>16. QED BY <1>1, <1>15, StopSettles

-----------------------------------------------------------------------------
(* The loss of capture: everything that is held leaves, each branch once.   *)
Lists(q, S) ==
  /\ q \in Seq(S)
  /\ \A x \in S : \E i \in DOMAIN q : q[i] = x
  /\ \A i, j \in DOMAIN q : q[i] = q[j] => i = j

LEMMA JoinedOnce ==
  ASSUME NEW S, NEW T, S \cap T = {}, NEW p, NEW q, Lists(p, S), Lists(q, T)
  PROVE  Lists(p \o q, S \cup T)
<1> DEFINE U == S \cup T
           r == p \o q
           m == Len(p)
           n == Len(q)
<1>1. p \in Seq(U) /\ q \in Seq(U) /\ m \in Nat /\ n \in Nat /\ DOMAIN p = 1 .. m /\ DOMAIN q = 1 .. n
  BY DEF Lists
<1>2. /\ \A i \in 1 .. m : p[i] \in S
      /\ \A i \in 1 .. n : q[i] \in T
  BY DEF Lists
<1> HIDE DEF U
<1>3. r \in Seq(U) /\ Len(r) = m + n /\ \A i \in 1 .. m + n : r[i] = IF i <= m THEN p[i] ELSE q[i - m]
  BY <1>1, ConcatProperties
<1> HIDE DEF r, m, n
<1>4. DOMAIN r = 1 .. m + n
  BY <1>3
<1>5. ASSUME NEW x \in U PROVE \E i \in DOMAIN r : r[i] = x
  <2>1. CASE x \in S
    <3>1. PICK i \in 1 .. m : p[i] = x
      BY <1>1, <2>1 DEF Lists
    <3>2. i \in 1 .. m + n /\ i <= m
      BY <1>1
    <3>3. QED BY <1>3, <1>4, <3>1, <3>2
  <2>2. CASE x \in T
    <3>1. PICK i \in 1 .. n : q[i] = x
      BY <1>1, <2>2 DEF Lists
    <3>2. m + i \in 1 .. m + n /\ ~(m + i <= m) /\ (m + i) - m = i
      BY <1>1
    <3>3. r[m + i] = x
      BY <1>3, <3>1, <3>2
    <3>4. QED BY <1>4, <3>2, <3>3
  <2>3. QED BY <2>1, <2>2 DEF U
<1>6. ASSUME NEW i \in DOMAIN r, NEW j \in DOMAIN r, r[i] = r[j] PROVE i = j
  <2>1. i \in Nat /\ j \in Nat /\ i \in 1 .. m + n /\ j \in 1 .. m + n
    BY <1>1, <1>4
  <2>2. (i <= m => i \in 1 .. m /\ r[i] = p[i]) /\ (j <= m => j \in 1 .. m /\ r[j] = p[j])
    BY <1>1, <1>3, <2>1
  <2>3. /\ i > m => i - m \in 1 .. n /\ r[i] = q[i - m]
        /\ j > m => j - m \in 1 .. n /\ r[j] = q[j - m]
    BY <1>1, <1>3, <2>1
  <2>4. CASE i <= m /\ j <= m
    BY <1>1, <1>6, <2>2, <2>4, ZenonT(60) DEF Lists
  <2>5. CASE i > m /\ j > m
    <3>1. i - m = j - m
      BY <1>1, <1>6, <2>3, <2>5 DEF Lists
    <3>2. QED BY <1>1, <2>1, <3>1
  <2>6. CASE i <= m /\ j > m
    BY <1>2, <1>6, <2>2, <2>3, <2>6
  <2>7. CASE i > m /\ j <= m
    BY <1>2, <1>6, <2>2, <2>3, <2>7
  <2>8. QED BY <1>1, <2>1, <2>4, <2>5, <2>6, <2>7
<1>7. QED BY <1>3, <1>5, <1>6 DEF Lists, U, r

LEMMA AllRemoved ==
  ASSUME NEW e, Consistent(e), e.out = <<>>
  PROVE  LET f == ForceAllBranches(e)
         IN Goes(e, f) /\ Ledger(e, f) /\ Answers(f.out) = {} /\ Held(f) = {} /\ Rec(f)
<1> DEFINE A == Held(e) \ e.finalizing
           B == e.finalizing
           order == Ascending(A) \o Ascending(B)
           removals == [i \in DOMAIN order |-> Removed(e, order[i], TRUE)]
           f == ForceAllBranches(e)
<1>1. Rec(e)
  BY Shaped DEF Consistent, Sound
<1>2. Len(e.branches) \in Nat /\ Held(e) \subseteq Tokens(e) /\ e.finalizing \subseteq Held(e)
  BY <1>1, HeldAreTokens DEF Held
<1>3. /\ Scalars(e, f) /\ f.branches \in Seq(Branch) /\ Len(f.branches) = Len(e.branches)
      /\ f.active = [k \in Kind |-> 0] /\ f.finalizing = {}
  BY AllForced
<1>4. Lists(order, Held(e))
  <2>1. Lists(Ascending(A), A) /\ Lists(Ascending(B), B)
    <3>1. IsFiniteSet(Tokens(e)) /\ Tokens(e) \subseteq Nat
      BY <1>2, FS_Interval, SMTT(40) DEF Tokens
    <3>2. IsFiniteSet(A) /\ IsFiniteSet(B) /\ A \subseteq Nat /\ B \subseteq Nat
      BY <1>2, <3>1, FS_Subset
    <3>3. QED BY <3>2, AscendingIsAll DEF Lists
  <2>2. A \cap B = {} /\ A \cup B = Held(e)
    BY <1>2
  <2> HIDE DEF A, B
  <2>3. QED BY <2>1, <2>2, JoinedOnce
<1>5. f.out = e.out \o removals
  BY <1>1 DEF ForceAllBranches, Rec, Fields
<1> HIDE DEF A, B, order, f
<1>6. /\ DOMAIN removals = DOMAIN order
      /\ \A i \in DOMAIN order : /\ removals[i].kind = "branch-removed" /\ removals[i].token = order[i]
                                 /\ removals[i].forced = TRUE
  BY DEF Removed
<1>7. Sequential(removals) /\ f.out = removals
  <2> DEFINE n == Len(order)
             S == {removals[i] : i \in 1 .. n}
  <2>1. DOMAIN order = 1 .. n /\ n \in Nat
    BY <1>4 DEF Lists
  <2> HIDE DEF n
  <2>2. removals \in [1 .. n -> S]
    BY <2>1
  <2> HIDE DEF removals, S
  <2>3. removals \in Seq(S)
    BY <2>1, <2>2
  <2>4. QED BY <1>5, <2>3 DEF Sequential
<1> HIDE DEF removals
<1>8. Held(f) = {}
  BY <1>3 DEF Held
<1>9. Ledger(e, f)
  <2>1. ASSUME NEW t \in Held(e) PROVE \E i : Removals(f.out, t) = {i}
    <3>1. PICK i \in DOMAIN order : order[i] = t
      BY <1>4 DEF Lists
    <3>2. Removals(f.out, t) = {i}
      BY <1>4, <1>6, <1>7, <3>1 DEF Removals, Lists
    <3>3. QED BY <3>2
  <2>2. ASSUME NEW t, t \notin Held(e) PROVE Removals(f.out, t) = {}
    <3>1. \A i \in DOMAIN order : order[i] \in Held(e)
      BY <1>4 DEF Lists
    <3>2. QED BY <1>6, <1>7, <2>2, <3>1 DEF Removals
  <2>3. \A i \in DOMAIN f.out : ~Clean(f.out[i])
    BY <1>6, <1>7 DEF Clean
  <2>4. QED BY <1>7, <1>8, <2>1, <2>2, <2>3 DEF Ledger
<1>10. Answers(f.out) = {}
  BY <1>6, <1>7 DEF Answers
<1>11. Rec(f)
  BY <1>3 DEF Rec, Scalars
<1>12. Goes(e, f)
  BY <1>2, <1>3, <1>8, <1>11 DEF Goes
<1>13. QED BY <1>8, <1>9, <1>10, <1>11, <1>12 DEF f

LEMMA FailCaptureSettles ==
  ASSUME NEW e, NEW code, Consistent(e), e.out = <<>>
  PROVE  Settled(e, FailCapture(e, code))
<1> DEFINE all == ForceAllBranches(e)
           down == [ForcePipelineNull(all) EXCEPT !.stop_pending = FALSE]
           event == [kind |-> "error", scope |-> "capture", generation |-> e.capture_generation, code |-> code]
           told == Emit(down, event)
<1>1. FailCapture(e, code) = IF e.stop_pending \/ e.shutdown_pending
        THEN EmitCaptureStopped(told, e.capture_generation) ELSE told
  BY DEF FailCapture
<1>2. Goes(e, all) /\ Ledger(e, all) /\ Answers(all.out) = {} /\ Held(all) = {} /\ Rec(all)
  BY AllRemoved
<1>3. Rec(e)
  BY Shaped DEF Consistent, Sound
<1> HIDE DEF all
<1>4. /\ DOMAIN down = Fields /\ down.pipeline = FALSE /\ down.stop_pending = FALSE
      /\ down.active = all.active /\ down.finalizing = all.finalizing /\ down.branches = all.branches
      /\ down.out = all.out
  BY <1>2 DEF ForcePipelineNull, Rec, Fields
<1> HIDE DEF down
<1>5. Rec(down) /\ Held(down) = {}
  BY <1>2, <1>4 DEF Rec, Tokens, Held
<1>6. Silent(event)
  BY DEF Silent
<1> HIDE DEF event
<1>7. /\ told.out = Append(down.out, event) /\ told.stop_pending = down.stop_pending
      /\ told.pipeline = down.pipeline /\ told.branches = down.branches
      /\ Held(told) = {} /\ Rec(told)
  BY <1>5, Emits
<1> HIDE DEF told
<1>8. Goes(e, told)
  BY <1>2, <1>4, <1>7 DEF Goes
<1>9. Ledger(e, told)
  BY <1>2, <1>3, <1>4, <1>6, <1>7, LedgerTells DEF Silent
<1>10. Answers(told.out) = {}
  BY <1>2, <1>4, <1>6, <1>7, Posted DEF Ledger, Silent, OneMore
<1>11. CASE e.stop_pending \/ e.shutdown_pending
  <2>1. Settled(e, EmitCaptureStopped(told, e.capture_generation))
    BY <1>3, <1>4, <1>7, <1>8, <1>9, <1>10, AnsweredSettles
  <2>2. QED BY <1>1, <1>11, <2>1
<1>12. CASE ~(e.stop_pending \/ e.shutdown_pending)
  BY <1>1, <1>8, <1>9, <1>10, <1>12 DEF Settled, Answered
<1>13. QED BY <1>11, <1>12

Tells(f, h) == h.out = f.out \/ \E p : Silent(p) /\ h.out = Append(f.out, p)

AddedTo(f, h, kind) ==
  LET t == Len(f.branches) + 1
  IN /\ Rec(h) /\ Goes(f, h) /\ t \in Tokens(h) /\ Len(h.branches) = t
     /\ h.active = [f.active EXCEPT ![kind] = t] /\ h.finalizing = f.finalizing
     /\ \A i \in Tokens(f) : h.branches[i] = f.branches[i]
     /\ h.stop_pending = f.stop_pending /\ h.pipeline = f.pipeline
     /\ Tells(f, h)

LEMMA AddDoes ==
  ASSUME NEW f, NEW kind \in Kind, NEW g \in Nat, NEW announce \in BOOLEAN, Rec(f)
  PROVE  AddedTo(f, AddBranch(f, kind, g, announce), kind)
<1> DEFINE t == Len(f.branches) + 1
           b == NewBranch(kind, g, announce)
           bs == Append(f.branches, b)
           added == [f EXCEPT !.branches = bs, !.active[kind] = t]
           p == BranchEvent(added, "branch-created", t)
           h == AddBranch(f, kind, g, announce)
<1>1. h = IF kind \in Output THEN Emit(added, p) ELSE added
  BY DEF AddBranch
<1>2. b \in Branch /\ Fresh(b)
  BY DEF NewBranch, Branch, Fresh
<1> HIDE DEF b
<1>3. Len(f.branches) \in Nat /\ Held(f) \subseteq Tokens(f)
  BY HeldAreTokens
<1>4. bs \in Seq(Branch) /\ Len(bs) = t /\ (\A i \in Tokens(f) : bs[i] = f.branches[i]) /\ bs[t] = b
  BY <1>2, <1>3, AppendProperties DEF Rec, Tokens
<1> HIDE DEF bs
<1>5. Silent(p)
  BY DEF BranchEvent, Silent
<1> HIDE DEF p
<1>6. /\ DOMAIN h = Fields /\ h.branches = bs /\ h.active = [f.active EXCEPT ![kind] = t]
      /\ h.finalizing = f.finalizing /\ h.stop_pending = f.stop_pending /\ h.pipeline = f.pipeline
      /\ h.out = f.out \/ h.out = Append(f.out, p)
  BY <1>1 DEF Emit, Rec, Fields
<1> HIDE DEF h, added
<1>7. Tokens(h) = Tokens(f) \cup {t}
  BY <1>3, <1>4, <1>6 DEF Tokens
<1>8. Rec(h)
  <2>1. h.active \in [Kind -> Tokens(h) \cup {0}] /\ h.finalizing \subseteq Tokens(h)
    BY <1>6, <1>7 DEF Rec
  <2>2. QED BY <1>4, <1>6, <2>1 DEF Rec
<1>9. Held(h) \subseteq Held(f) \cup {t} /\ t \notin Tokens(f)
  <2>1. \A k \in Kind : h.active[k] = t \/ h.active[k] = f.active[k]
    BY <1>6 DEF Rec
  <2>2. t \notin Tokens(f)
    BY <1>3 DEF Tokens
  <2>3. QED BY <1>6, <2>1, <2>2 DEF Held
<1>10. Goes(f, h)
  <2>1. ASSUME NEW i \in Held(h), i \in Tokens(f)
        PROVE  i \in Held(f) /\ Drained(f, h, i) /\ (i \in f.finalizing => i \in h.finalizing)
    BY <1>4, <1>6, <1>9, <2>1 DEF Drained
  <2>2. ASSUME NEW i \in Held(h), i \notin Tokens(f) PROVE Fresh(h.branches[i])
    BY <1>2, <1>3, <1>4, <1>6, <1>9, <2>2
  <2>3. Len(f.branches) <= Len(h.branches)
    BY <1>3, <1>4, <1>6
  <2>4. QED BY <1>8, <2>1, <2>2, <2>3 DEF Goes
<1>11. QED BY <1>4, <1>5, <1>6, <1>7, <1>8, <1>10 DEF AddedTo, Tells, h, b

LEMMA AddRuns ==
  ASSUME NEW e, NEW f, NEW kind \in Kind, NEW g \in Nat, NEW announce \in BOOLEAN,
         Rec(e), Running(e, f), f.active[kind] = 0
  PROVE  Running(e, AddBranch(f, kind, g, announce))
<1> DEFINE h == AddBranch(f, kind, g, announce)
<1>1. Rec(f)
  BY DEF Running, Goes
<1>2. AddedTo(f, h, kind)
  BY <1>1, AddDoes
<1> HIDE DEF h
<1>3. Held(f) \subseteq Held(h)
  <2>1. \A k \in Kind : f.active[k] # 0 => h.active[k] = f.active[k]
    BY <1>1, <1>2 DEF Rec, AddedTo
  <2>2. QED BY <1>2, <2>1 DEF Held, AddedTo
<1>4. CASE h.out = f.out
  BY <1>2, <1>3, <1>4, RunningPlain DEF AddedTo, Plain, h
<1>5. CASE \E p : Silent(p) /\ h.out = Append(f.out, p)
  BY <1>2, <1>3, <1>5, RunningPosts DEF AddedTo, h
<1>6. QED BY <1>2, <1>4, <1>5 DEF AddedTo, Tells

-----------------------------------------------------------------------------
(* Every operation, from a record between two steps.                        *)
Idle(e) == Consistent(e) /\ e.out = <<>>

LEMMA Begun ==
  ASSUME NEW e, Idle(e)
  PROVE  /\ Rec(e) /\ Running(e, e) /\ Settled(e, e) /\ Body(e) /\ Placed(e)
         /\ e.stop_pending \in BOOLEAN
         /\ ~e.pipeline => Held(e) = {} /\ ~e.stop_pending
<1>1. Rec(e) /\ Body(e) /\ Placed(e) /\ e.stop_pending \in BOOLEAN
  BY Shaped DEF Idle, Consistent, Sound, Body, Typed
<1>2. Running(e, e)
  BY <1>1, RunningStart DEF Idle
<1>3. ~e.pipeline => Held(e) = {} /\ ~e.stop_pending
  BY <1>1 DEF Placed, Idle, Consistent, Waited
<1>4. QED BY <1>1, <1>2, <1>3, RunningSettles

(* Flags aside, the record stays.                                           *)
Beside(f, g) ==
  /\ DOMAIN g = Fields /\ g.branches = f.branches /\ g.active = f.active
  /\ g.finalizing = f.finalizing /\ g.out = f.out
  /\ f.stop_pending => g.stop_pending

LEMMA RunningBeside ==
  ASSUME NEW e, NEW f, NEW g, Rec(e), Running(e, f), Beside(f, g)
  PROVE  Running(e, g) /\ Rec(g) /\ Held(g) = Held(f)
<1>1. Rec(f)
  BY DEF Running, Goes
<1>2. Rec(g) /\ Held(g) = Held(f)
  BY <1>1 DEF Rec, Beside, Tokens, Held
<1>3. Goes(f, g)
  BY <1>1, <1>2, HeldAreTokens DEF Goes, Beside, Drained
<1>4. Goes(e, g)
  BY <1>3, GoesOn DEF Running
<1>5. Ledger(e, g) /\ Answers(g.out) = {}
  BY <1>2 DEF Running, Ledger, Beside
<1>6. QED BY <1>2, <1>4, <1>5 DEF Running, Beside

LEMMA EmptyBeside ==
  ASSUME NEW e, NEW f, Rec(e), Held(e) = {}, f.active = e.active
  PROVE  \A k \in Kind : f.active[k] = 0
BY DEF Held

LEMMA MonitoringRuns ==
  ASSUME NEW e, NEW f, NEW kind \in Kind, NEW g \in Nat, NEW added, Rec(e), Running(e, f), f.active[kind] = 0
  PROVE  Running(e, TryAddMonitoring(f, kind, g, added))
<1>1. CASE added
  <2> DEFINE no == FALSE
  <2>1. no \in BOOLEAN
    OBVIOUS
  <2>2. TryAddMonitoring(f, kind, g, added) = AddBranch(f, kind, g, no)
    BY <1>1 DEF TryAddMonitoring
  <2> HIDE DEF no
  <2>3. QED BY <2>1, <2>2, AddRuns
<1>2. CASE ~added
  <2> DEFINE p == [kind |-> "error", scope |-> kind, generation |-> g]
  <2>1. TryAddMonitoring(f, kind, g, added) = Emit(f, p) /\ Silent(p)
    BY <1>2 DEF TryAddMonitoring, Silent
  <2> HIDE DEF p
  <2>2. QED BY <2>1, RunningTells
<1>3. QED BY <1>1, <1>2

LEMMA StartCaptureSettles ==
  ASSUME NEW e, NEW plays, NEW level, Idle(e)
  PROVE  Settled(e, StartCapture(e, plays, level))
<1> DEFINE g == e.capture_generation + 1
           begun == [e EXCEPT !.capture_generation = g]
           f1 == [begun EXCEPT !.pipeline = TRUE, !.start_pending = g]
           f2 == [begun EXCEPT !.start_pending = 0]
           p == [kind |-> "error", scope |-> "capture", generation |-> g, code |-> "start_failed"]
<1>1. Rec(e) /\ Running(e, e) /\ Settled(e, e) /\ (~e.pipeline => Held(e) = {})
  BY Begun
<1>2. g \in Nat
  BY DEF Idle, Consistent, Sound, Body, Typed
<1>3. Beside(e, f1) /\ Beside(e, f2)
  BY <1>1 DEF Rec, Fields, Beside
<1>4. CASE e.pipeline
  BY <1>1, <1>4 DEF StartCapture
<1>5. CASE ~e.pipeline /\ plays
  <2>1. StartCapture(e, plays, level) = TryAddMonitoring(f1, "level", g, level)
    BY <1>5 DEF StartCapture
  <2> HIDE DEF f1, g
  <2>2. Running(e, f1) /\ f1.active["level"] = 0
    BY <1>1, <1>3, <1>5, RunningBeside, EmptyBeside DEF Beside, Kind
  <2>3. "level" \in Kind
    BY DEF Kind
  <2>4. QED BY <1>1, <1>2, <2>1, <2>2, <2>3, MonitoringRuns, RunningSettles
<1>6. CASE ~e.pipeline /\ ~plays
  <2>1. StartCapture(e, plays, level) = Emit(f2, p) /\ Silent(p)
    BY <1>6 DEF StartCapture, Silent
  <2> HIDE DEF f2, p
  <2>2. Running(e, f2)
    BY <1>1, <1>3, RunningBeside
  <2>3. QED BY <1>1, <2>1, <2>2, RunningTells, RunningSettles
<1>7. QED BY <1>4, <1>5, <1>6

LEMMA StopCaptureSettles ==
  ASSUME NEW e, NEW f, Rec(e), Running(e, f), ~f.pipeline => Held(f) = {} /\ ~f.stop_pending
  PROVE  Settled(e, StopCapture(f))
<1> DEFINE no == FALSE
           yes == TRUE
           f1 == [f EXCEPT !.stop_pending = TRUE]
           f2 == BeginRemove(f1, "level", no)
           f3 == BeginRemove(f2, "spectrum", no)
           f4 == BeginRemove(f3, "stream", yes)
           f5 == BeginRemove(f4, "recording", yes)
<1>1. Rec(f) /\ yes \in BOOLEAN /\ no \in BOOLEAN
  BY DEF Running, Goes
<1>2. CASE ~f.pipeline
  <2>1. StopCapture(f) = EmitCaptureStopped(f, f.capture_generation)
    BY <1>2 DEF StopCapture
  <2>2. QED BY <1>1, <1>2, <2>1, AnsweredSettles DEF Running
<1>3. CASE f.pipeline
  <2>1. StopCapture(f) = MaybeFinishCaptureStop(f5)
    BY <1>3 DEF StopCapture
  <2>2. Beside(f, f1)
    BY <1>1 DEF Rec, Fields, Beside
  <2> HIDE DEF no, yes, f1
  <2>3. Running(e, f1) /\ Rec(f1)
    BY <2>2, RunningBeside
  <2>4. Plain(f1, f2) /\ Rec(f2)
    BY <1>1, <2>3, BeginPlain DEF Kind, Plain, Goes
  <2> HIDE DEF f2
  <2>5. Plain(f2, f3) /\ Rec(f3)
    BY <1>1, <2>4, BeginPlain DEF Kind, Plain, Goes
  <2> HIDE DEF f3
  <2>6. Plain(f3, f4) /\ Rec(f4)
    BY <1>1, <2>5, BeginPlain DEF Kind, Plain, Goes
  <2> HIDE DEF f4
  <2>7. Plain(f4, f5)
    BY <1>1, <2>6, BeginPlain DEF Kind
  <2> HIDE DEF f5
  <2>8. Running(e, f5)
    BY <2>3, <2>4, <2>5, <2>6, <2>7, RunningPlain
  <2>9. QED BY <2>1, <2>8, StopSettles
<1>4. QED BY <1>2, <1>3

LEMMA ShutdownSettles ==
  ASSUME NEW e, Idle(e)
  PROVE  Settled(e, StopCapture(e)) /\ Settled(e, Shutdown(e))
<1> DEFINE f == [e EXCEPT !.shutdown_pending = TRUE]
<1>1. Rec(e) /\ Running(e, e) /\ (~e.pipeline => Held(e) = {} /\ ~e.stop_pending)
  BY Begun
<1>2. Beside(e, f) /\ f.pipeline = e.pipeline /\ f.stop_pending = e.stop_pending
  BY <1>1 DEF Rec, Fields, Beside
<1>3. Shutdown(e) = StopCapture(f)
  BY DEF Shutdown
<1> HIDE DEF f
<1>4. Running(e, f) /\ Held(f) = Held(e)
  BY <1>1, <1>2, RunningBeside
<1>5. QED BY <1>1, <1>2, <1>3, <1>4, StopCaptureSettles

LEMMA BeginSettles ==
  ASSUME NEW e, NEW f, NEW kind \in Kind, NEW drain \in BOOLEAN, Rec(e), Running(e, f)
  PROVE  Settled(e, BeginRemove(f, kind, drain))
<1>1. Rec(f)
  BY DEF Running, Goes
<1>2. QED BY <1>1, BeginPlain, RunningPlain, RunningSettles

LEMMA SpectrumSettles ==
  ASSUME NEW e, NEW on, NEW added, Idle(e)
  PROVE  Settled(e, SetSpectrumActive(e, on, added))
<1> DEFINE no == FALSE
<1>0. Rec(e) /\ Running(e, e) /\ Settled(e, e) /\ no \in BOOLEAN /\ "spectrum" \in Kind
  BY Begun DEF Kind
<1>1. CASE ~on
  <2>1. SetSpectrumActive(e, on, added) = BeginRemove(e, "spectrum", no)
    BY <1>1 DEF SetSpectrumActive
  <2> HIDE DEF no
  <2>2. QED BY <1>0, <2>1, BeginSettles
<1>2. CASE on /\ (~e.pipeline \/ e.active["spectrum"] # 0)
  BY <1>0, <1>2 DEF SetSpectrumActive
<1>3. CASE on /\ ~(~e.pipeline \/ e.active["spectrum"] # 0)
  <2>1. SetSpectrumActive(e, on, added) = TryAddMonitoring(e, "spectrum", e.capture_generation, added)
    BY <1>3 DEF SetSpectrumActive
  <2>2. e.capture_generation \in Nat
    BY DEF Idle, Consistent, Sound, Body, Typed
  <2>3. Running(e, TryAddMonitoring(e, "spectrum", e.capture_generation, added))
    BY <1>0, <1>3, <2>2, MonitoringRuns
  <2>4. QED BY <2>1, <2>3, RunningSettles
<1>4. QED BY <1>1, <1>2, <1>3

LEMMA StartStreamSettles ==
  ASSUME NEW e, NEW g \in Nat, NEW added, Idle(e)
  PROVE  Settled(e, StartStream(e, g, added))
<1> DEFINE yes == TRUE
           alone == BeginRemove(e, "stream", yes)
<1>0. Rec(e) /\ Running(e, e) /\ Settled(e, e) /\ yes \in BOOLEAN /\ "stream" \in Kind
  BY Begun DEF Kind
<1>1. CASE e.active["stream"] # 0 /\ e.branches[e.active["stream"]].generation = g
  BY <1>0, <1>1 DEF StartStream
<1>2. CASE ~(e.active["stream"] # 0 /\ e.branches[e.active["stream"]].generation = g)
  <2>1. StartStream(e, g, added) = IF added THEN AddBranch(alone, "stream", g, yes) ELSE alone
    BY <1>2 DEF StartStream, yes
  <2> HIDE DEF yes
  <2>2. Plain(e, alone) /\ alone.active["stream"] = 0
    BY <1>0, BeginPlain
  <2> HIDE DEF alone
  <2>3. Running(e, alone)
    BY <1>0, <2>2, RunningPlain
  <2>4. Running(e, AddBranch(alone, "stream", g, yes))
    BY <1>0, <2>2, <2>3, AddRuns
  <2>5. QED BY <2>1, <2>3, <2>4, RunningSettles
<1>3. QED BY <1>1, <1>2

LEMMA RemoveSettles ==
  ASSUME NEW e, NEW kind \in Kind, NEW g, NEW drain \in BOOLEAN, Idle(e)
  PROVE  Settled(e, RemoveOrMissing(e, kind, g, drain))
<1>1. Rec(e) /\ Running(e, e)
  BY Begun
<1>2. CASE e.active[kind] = 0
  <2> DEFINE p == Missing(kind, g)
  <2>1. Silent(p) /\ RemoveOrMissing(e, kind, g, drain) = Emit(e, p)
    BY <1>2 DEF RemoveOrMissing, Missing, Silent
  <2> HIDE DEF p
  <2>2. QED BY <1>1, <2>1, RunningTells, RunningSettles
<1>3. CASE e.active[kind] # 0
  BY <1>1, <1>3, BeginSettles DEF RemoveOrMissing
<1>4. QED BY <1>2, <1>3

LEMMA StreamStops ==
  ASSUME NEW e, NEW g, Idle(e)
  PROVE  /\ Settled(e, StopStream(e, g)) /\ Settled(e, AbortStreamAttempt(e, g))
         /\ Settled(e, StopRecording(e, g))
<1>1. "stream" \in Kind /\ "recording" \in Kind
  BY DEF Kind
<1> DEFINE no == FALSE
           yes == TRUE
<1>2. no \in BOOLEAN /\ yes \in BOOLEAN
  OBVIOUS
<1>3. /\ StopStream(e, g) = RemoveOrMissing(e, "stream", g, yes)
      /\ AbortStreamAttempt(e, g) \in {e, RemoveOrMissing(e, "stream", g, no)}
      /\ StopRecording(e, g) = RemoveOrMissing(e, "recording", g, yes)
  BY DEF StopStream, AbortStreamAttempt, StopRecording
<1> HIDE DEF no, yes
<1>4. QED BY <1>1, <1>2, <1>3, RemoveSettles, Begun

LEMMA BitrateSettles ==
  ASSUME NEW e, NEW bps, Idle(e)
  PROVE  Settled(e, SetBitrate(e, bps))
<1> DEFINE t == e.active["stream"]
           p == [kind |-> "opus-bitrate-changed", scope |-> "stream",
                 generation |-> e.branches[t].generation, token |-> t, new_bps |-> bps]
<1>1. Rec(e) /\ Running(e, e) /\ Settled(e, e)
  BY Begun
<1>2. SetBitrate(e, bps) \in {e, Emit(e, p)} /\ Silent(p)
  BY DEF SetBitrate, Silent
<1> HIDE DEF p
<1>3. QED BY <1>1, <1>2, RunningTells, RunningSettles

LEMMA StartRecordingSettles ==
  ASSUME NEW e, NEW g \in Nat, NEW added, Idle(e)
  PROVE  Settled(e, StartRecording(e, g, added))
<1> DEFINE yes == TRUE
<1>1. Rec(e) /\ Running(e, e) /\ Settled(e, e) /\ yes \in BOOLEAN /\ "recording" \in Kind
  BY Begun DEF Kind
<1>2. StartRecording(e, g, added) = IF e.active["recording"] # 0 \/ ~added THEN e ELSE AddBranch(e, "recording", g, yes)
  BY DEF StartRecording
<1> HIDE DEF yes
<1>3. CASE e.active["recording"] # 0 \/ ~added
  BY <1>1, <1>2, <1>3
<1>4. CASE ~(e.active["recording"] # 0 \/ ~added)
  BY <1>1, <1>2, <1>4, AddRuns, RunningSettles
<1>5. QED BY <1>3, <1>4

LEMMA RotateSettles ==
  ASSUME NEW e, NEW g \in Nat, NEW added, Idle(e)
  PROVE  Settled(e, RotateRecording(e, g, added))
<1> DEFINE no == FALSE
           yes == TRUE
           old == e.active["recording"]
           both == AddBranch(e, "recording", g, no)
           rotation == [old |-> old, new |-> both.active["recording"]]
           turned == [both EXCEPT !.rotations = @ \cup {rotation}]
           h == BeginRemoveHandle(turned, old, yes)
<1>1. Rec(e) /\ Running(e, e) /\ Settled(e, e) /\ yes \in BOOLEAN /\ no \in BOOLEAN /\ "recording" \in Kind
  BY Begun DEF Kind
<1>2. RotateRecording(e, g, added) = IF old = 0 \/ ~added THEN e ELSE h
  BY DEF RotateRecording
<1> HIDE DEF no, yes
<1>3. CASE old = 0 \/ ~added
  BY <1>1, <1>2, <1>3
<1>4. CASE ~(old = 0 \/ ~added)
  <2>1. AddedTo(e, both, "recording")
    BY <1>1, AddDoes
  <2> HIDE DEF both
  <2>2. /\ DOMAIN turned = Fields /\ turned.branches = both.branches /\ turned.active = both.active
        /\ turned.finalizing = both.finalizing /\ turned.out = both.out
        /\ turned.stop_pending = both.stop_pending
    BY <2>1 DEF AddedTo, Rec, Fields
  <2> HIDE DEF turned
  <2>3. Rec(turned) /\ Tokens(turned) = Tokens(both)
    BY <2>1, <2>2 DEF AddedTo, Rec, Tokens
  <2>4. old \in Held(e) /\ old \in Tokens(e) /\ Len(e.branches) \in Nat
    BY <1>1, <1>4, HeldAreTokens DEF Held
  <2>5. Tokens(both) = Tokens(e) \cup {Len(e.branches) + 1} /\ Len(e.branches) + 1 \notin Tokens(e)
    BY <2>1, <2>4 DEF AddedTo, Tokens
  <2>6. /\ Rec(h) /\ Len(h.branches) = Len(turned.branches)
        /\ h.active = turned.active /\ h.finalizing = turned.finalizing \cup {old}
        /\ \A i \in Tokens(turned) : Drained(turned, h, i)
        /\ h.out = turned.out /\ h.stop_pending = turned.stop_pending
    BY <1>1, <2>3, <2>4, <2>5, HandleDoes
  <2> HIDE DEF h, old
  <2>7. Held(h) = Held(both) \cup {old}
    <3>1. old # 0
      BY <1>4
    <3>2. QED BY <2>2, <2>6, <3>1 DEF Held
  <2>8. Held(e) \subseteq Held(h)
    <3>1. \A k \in Kind : e.active[k] # 0 => h.active[k] = e.active[k] \/ e.active[k] = old
      BY <1>1, <2>1, <2>2, <2>6 DEF AddedTo, Rec, old
    <3>2. h.finalizing = e.finalizing \cup {old}
      BY <2>1, <2>2, <2>6 DEF AddedTo
    <3>3. QED BY <3>1, <3>2 DEF Held
  <2>9. Goes(e, h)
    <3>1. ASSUME NEW i \in Held(h), i \in Tokens(e)
          PROVE  i \in Held(e) /\ Drained(e, h, i) /\ (i \in e.finalizing => i \in h.finalizing)
      <4>1. i \in Held(e)
        BY <2>1, <2>4, <2>7, <3>1 DEF AddedTo, Goes
      <4>2. h.finalizing = e.finalizing \cup {old}
        BY <2>1, <2>2, <2>6 DEF AddedTo
      <4>3. Drained(turned, h, i) /\ turned.branches[i] = e.branches[i]
        BY <2>1, <2>2, <2>3, <2>5, <2>6, <3>1 DEF AddedTo
      <4>4. QED BY <4>1, <4>2, <4>3 DEF Drained
    <3>2. ASSUME NEW i \in Held(h), i \notin Tokens(e) PROVE Fresh(h.branches[i])
      <4>1. i \in Held(both) /\ i \in Tokens(both)
        BY <2>1, <2>4, <2>7, <3>2, HeldAreTokens DEF AddedTo
      <4>2. Fresh(both.branches[i])
        BY <2>1, <3>2, <4>1 DEF AddedTo, Goes
      <4>3. Drained(turned, h, i)
        BY <2>3, <2>6, <4>1
      <4>4. QED BY <2>2, <4>2, <4>3 DEF Fresh, Drained
    <3>3. Len(e.branches) <= Len(h.branches)
      BY <2>1, <2>2, <2>4, <2>6 DEF AddedTo
    <3>4. QED BY <2>6, <3>1, <3>2, <3>3 DEF Goes
  <2>10. h.stop_pending = e.stop_pending /\ Tells(e, h)
    BY <2>1, <2>2, <2>6 DEF AddedTo, Tells
  <2>11. CASE \E p : Silent(p) /\ h.out = Append(e.out, p)
    <3>1. PICK p : Silent(p) /\ h.out = Append(e.out, p)
      BY <2>11
    <3>2. Running(e, h)
      BY <1>1, <2>8, <2>9, <2>10, <3>1, RunningPosts
    <3>3. QED BY <1>2, <1>4, <3>2, RunningSettles DEF old
  <2>12. CASE h.out = e.out
    <3>1. Ledger(e, h) /\ Answers(h.out) = {}
      BY <1>1, <2>8, <2>9, <2>12, HeldAreTokens DEF Running, Ledger, Goes
    <3>2. QED BY <1>1, <1>2, <1>4, <2>9, <2>10, <3>1, RunningSettles DEF Running, old
  <2>13. QED BY <2>10, <2>11, <2>12 DEF Tells
<1>5. QED BY <1>3, <1>4

(* A branch changes in what neither its drain nor its place reads.          *)
LEMMA TouchRuns ==
  ASSUME NEW e, NEW f, NEW t \in Tokens(e), NEW b \in Branch, Rec(e), e.out = <<>>,
         b.eos = e.branches[t].eos, b.drain_scheduled = e.branches[t].drain_scheduled,
         f = [e EXCEPT !.branches = [e.branches EXCEPT ![t] = b]]
  PROVE  Running(e, f) /\ Rec(f) /\ Held(f) = Held(e)
<1> DEFINE bs == [e.branches EXCEPT ![t] = b]
<1>1. bs \in Seq(Branch) /\ Len(bs) = Len(e.branches)
      /\ \A i \in Tokens(e) : bs[i] = IF i = t THEN b ELSE e.branches[i]
  BY ExceptSeq DEF Tokens, Rec
<1> HIDE DEF bs
<1>2. /\ DOMAIN f = Fields /\ f.branches = bs /\ f.active = e.active /\ f.finalizing = e.finalizing
      /\ f.out = e.out /\ f.stop_pending = e.stop_pending /\ f.pipeline = e.pipeline
  BY DEF Rec, Fields, bs
<1>3. Rec(f) /\ Held(f) = Held(e)
  BY <1>1, <1>2 DEF Rec, Tokens, Held
<1>4. \A i \in Tokens(e) : Drained(e, f, i)
  BY <1>1, <1>2 DEF Drained
<1>5. Plain(e, f)
  BY <1>1, <1>2, <1>3, <1>4, PlainBy
<1>6. QED BY <1>3, <1>5, RunningStart, RunningPlain

LEMMA CapturePlayingSettles ==
  ASSUME NEW e, Idle(e)
  PROVE  Settled(e, CapturePlaying(e))
<1> DEFINE f == [e EXCEPT !.start_pending = 0]
           p == CaptureEvent("capture-started", e.start_pending)
<1>1. Rec(e) /\ Running(e, e)
  BY Begun
<1>2. Beside(e, f)
  BY <1>1 DEF Rec, Fields, Beside
<1>3. CapturePlaying(e) = Emit(f, p) /\ Silent(p)
  BY DEF CapturePlaying, CaptureEvent, Silent
<1> HIDE DEF f, p
<1>4. QED BY <1>1, <1>2, <1>3, RunningBeside, RunningTells, RunningSettles

LEMMA BranchPlayingSettles ==
  ASSUME NEW e, NEW t \in Held(e), Idle(e)
  PROVE  Settled(e, BranchPlaying(e, t))
<1> DEFINE b == e.branches[t]
           announces == b.announce /\ ~b.announced
           heard == [b EXCEPT !.playing = TRUE, !.announced = b.announced \/ announces]
           bs == [e.branches EXCEPT ![t] = heard]
           playing == [e EXCEPT !.branches = bs]
           p == BranchEvent(e, "branch-added", t)
           told == IF announces THEN Emit(playing, p) ELSE playing
           pending == {r \in e.rotations : r.new = t}
           q == CHOOSE r \in pending : TRUE
           no == FALSE
<1>0. /\ DOMAIN e = Fields /\ e.branches \in Seq(Branch) /\ t \in Tokens(e) /\ b \in Branch
      /\ Rec(e) /\ e.out = <<>>
  BY BranchTyped, Begun DEF Idle
<1>1. BranchPlaying(e, t) = IF pending = {} THEN told ELSE CompleteRotation(told, q.old, no)
  BY <1>0 DEF BranchPlaying, Fields
<1>2. heard \in Branch /\ heard.eos = b.eos /\ heard.drain_scheduled = b.drain_scheduled
  <2>1. b \in Branch /\ announces \in BOOLEAN /\ b.announced \in BOOLEAN
    BY <1>0 DEF Branch
  <2> DEFINE yes == b.announced \/ announces
  <2>2. yes \in BOOLEAN
    OBVIOUS
  <2> HIDE DEF b, yes
  <2>3. [b EXCEPT !.playing = TRUE, !.announced = yes] \in Branch
    BY <2>1, <2>2 DEF Branch
  <2>4. QED BY <2>1, <2>3 DEF yes, Branch
<1> HIDE DEF heard
<1>3. Running(e, playing)
  BY <1>0, <1>2, TouchRuns
<1>4. Silent(p)
  BY DEF BranchEvent, Silent
<1> HIDE DEF playing, p
<1>5. Running(e, told)
  BY <1>0, <1>3, <1>4, RunningTells
<1> HIDE DEF told, no, q, pending
<1>6. Running(e, CompleteRotation(told, q.old, no))
  BY <1>0, <1>5, RunningRotates
<1>7. QED BY <1>1, <1>5, <1>6, RunningSettles

LEMMA SinkErrorSettles ==
  ASSUME NEW e, NEW t \in Held(e), NEW closed \in BOOLEAN, Idle(e)
  PROVE  Settled(e, SinkError(e, t, closed))
<1> DEFINE b == e.branches[t]
           spent == [b EXCEPT !.valve = "reported"]
           handled == [e EXCEPT !.branches[t].valve = "reported"]
           p == Connection(e, t, FALSE)
           told == Emit(handled, p)
           q == BranchEvent(e, "error", t)
<1>1. /\ DOMAIN e = Fields /\ e.branches \in Seq(Branch) /\ t \in Tokens(e) /\ b \in Branch
      /\ Rec(e) /\ Body(e) /\ e.out = <<>>
  BY BranchTyped, Begun DEF Idle
<1>2. /\ spent \in Branch /\ spent.kind = b.kind /\ spent.playing = b.playing
      /\ spent.eos = b.eos /\ spent.drain_scheduled = b.drain_scheduled
  <2> HIDE DEF b
  <2>1. QED BY <1>1 DEF Branch
<1>3. handled = [e EXCEPT !.branches = [e.branches EXCEPT ![t] = spent]]
  BY <1>1 DEF Fields
<1>4. Silent(p) /\ Silent(q)
  BY DEF Connection, BranchEvent, Silent
<1> HIDE DEF spent, handled, p, q
<1>5. Running(e, handled) /\ Rec(handled) /\ Held(handled) = Held(e) /\ Body(handled)
  <2>1. Running(e, handled) /\ Rec(handled) /\ Held(handled) = Held(e)
    BY <1>1, <1>2, <1>3, TouchRuns
  <2>2. Alike(e, handled)
    BY <1>1, <1>2, <1>3, Touched
  <2>3. QED BY <1>1, <2>1, <2>2, AlikeStays
<1>6. Running(e, told) /\ Held(told) = Held(e) /\ Body(told)
  <2>1. Running(e, told) /\ Held(told) = Held(e)
    BY <1>1, <1>4, <1>5, RunningTells, Emits
  <2>2. Alike(handled, told)
    BY <1>5, EmitAlike DEF Rec
  <2>3. QED BY <1>5, <2>1, <2>2, AlikeStays
<1> HIDE DEF told
<1>7. Settled(e, DetachBranch(told, t, closed)) /\ Settled(e, DetachBranch(handled, t, closed))
  BY <1>1, <1>5, <1>6, DetachSettles DEF Body
<1>8. SinkError(e, t, closed) \in
        {DetachBranch(told, t, closed), Emit(DetachBranch(handled, t, closed), q)}
  BY DEF SinkError, told, handled, p, q
<1>9. QED BY <1>1, <1>4, <1>7, <1>8, SettledTells

LEMMA BranchErrorSettles ==
  ASSUME NEW e, NEW t \in Held(e), NEW closed \in BOOLEAN, Idle(e)
  PROVE  Settled(e, BranchError(e, t, closed))
<1> DEFINE q == BranchEvent(e, "error", t)
<1>1. Rec(e) /\ Running(e, e) /\ Placed(e) /\ t \in Tokens(e)
  BY Begun, HeldAreTokens
<1>2. Silent(q) /\ BranchError(e, t, closed) = Emit(DetachBranch(e, t, closed), q)
  BY DEF BranchEvent, Silent, BranchError
<1> HIDE DEF q
<1>3. QED BY <1>1, <1>2, DetachSettles, SettledTells

LEMMA ConnectionSettles ==
  ASSUME NEW e, NEW t, NEW connected, Idle(e)
  PROVE  Settled(e, ConnectionChanged(e, t, connected))
<1> DEFINE p == Connection(e, t, connected)
           told == Emit(e, p)
           no == FALSE
<1>1. Rec(e) /\ Running(e, e) /\ Settled(e, e) /\ "stream" \in Kind /\ no \in BOOLEAN
  BY Begun DEF Kind
<1>2. ConnectionChanged(e, t, connected) \in {e, told, BeginRemove(told, "stream", no)}
  BY DEF ConnectionChanged
<1>3. Silent(p)
  BY DEF Connection, Silent
<1> HIDE DEF p, no
<1>4. Running(e, told)
  BY <1>1, <1>3, RunningTells
<1> HIDE DEF told
<1>5. QED BY <1>1, <1>2, <1>4, BeginSettles, RunningSettles

LEMMA OverrunSettles ==
  ASSUME NEW e, NEW t \in Tokens(e), Idle(e)
  PROVE  Settled(e, HandleQueueOverrun(e, t))
<1> DEFINE k == e.branches[t].kind
           no == FALSE
           yes == TRUE
           p == Connection(e, t, no)
           told == Emit(e, p)
           q == BranchEvent(e, "error", t)
<1>1. Rec(e) /\ Running(e, e) /\ Settled(e, e) /\ Body(e) /\ Placed(e) /\ yes \in BOOLEAN /\ no \in BOOLEAN
  BY Begun
<1>2. Silent(p) /\ Silent(q)
  BY DEF Connection, BranchEvent, Silent
<1>3. CASE t # e.active[k]
  BY <1>1, <1>3 DEF HandleQueueOverrun
<1>4. CASE t = e.active[k] /\ k = "stream"
  <2>1. HandleQueueOverrun(e, t) = ForceRemoveNow(told, t, no)
    BY <1>4 DEF HandleQueueOverrun
  <2> HIDE DEF no, p
  <2>2. Running(e, told) /\ told.active = e.active /\ told.branches = e.branches
    BY <1>1, <1>2, RunningTells, Emits
  <2>3. Placed(told)
    <3>1. Alike(e, told)
      BY <1>1, EmitAlike DEF Rec
    <3>2. QED BY <1>1, <3>1, AlikeStays DEF Body
  <2> HIDE DEF told
  <2>4. told.branches[t].kind # "recording" /\ t = told.active[told.branches[t].kind]
    BY <1>4, <2>2
  <2>5. QED BY <1>1, <2>1, <2>2, <2>3, <2>4, ForceSettles
<1>5. CASE t = e.active[k] /\ k # "stream"
  <2>1. HandleQueueOverrun(e, t) = Emit(ForceRemoveNow(e, t, yes), q)
    BY <1>5 DEF HandleQueueOverrun
  <2>2. yes
    OBVIOUS
  <2> HIDE DEF yes, q
  <2>3. Settled(e, ForceRemoveNow(e, t, yes))
    BY <1>1, <1>5, <2>2, ForceSettles
  <2>4. QED BY <1>1, <1>2, <2>1, <2>3, SettledTells
<1>6. QED BY <1>3, <1>4, <1>5

(* EOS goes on its way, or the branch is closed without it.                 *)
Sends(e, f, t) ==
  /\ t \in e.finalizing
  /\ f = [e EXCEPT !.branches = [e.branches EXCEPT ![t] = [e.branches[t] EXCEPT !.eos = "sent"]]]

LEMMA DrainSettles ==
  ASSUME NEW e, NEW t \in Tokens(e), NEW sent \in BOOLEAN, NEW closed \in BOOLEAN, Idle(e)
  PROVE  LET f == UnlinkAndDrain(e, t, sent, closed)
         IN Settled(e, f) \/ Sends(e, f, t)
<1> DEFINE b == e.branches[t]
           yes == TRUE
           is == b.kind = "recording"
           f == UnlinkAndDrain(e, t, sent, closed)
           g == [e EXCEPT !.branches = [e.branches EXCEPT ![t] = [e.branches[t] EXCEPT !.eos = "sent"]]]
<1>1. Rec(e) /\ Running(e, e) /\ Settled(e, e) /\ Placed(e) /\ yes \in BOOLEAN /\ is \in BOOLEAN
  BY Begun
<1>2. yes /\ (is \/ e.branches[t].kind # "recording")
  OBVIOUS
<1>3. t \in e.finalizing => f \in {g, FinishRemove(e, t, is, closed), FinishRemove(e, t, yes, closed)}
  BY <1>1 DEF UnlinkAndDrain, Rec, Fields
<1>4. t \notin e.finalizing => f = e
  BY DEF UnlinkAndDrain
<1> HIDE DEF yes, is, f, b
<1>5. Settled(e, FinishRemove(e, t, is, closed)) /\ Settled(e, FinishRemove(e, t, yes, closed))
  BY <1>1, <1>2, FinishSettles
<1>6. CASE t \in e.finalizing /\ f = g
  BY <1>6 DEF Sends, f
<1>7. CASE t \notin e.finalizing \/ f # g
  BY <1>1, <1>3, <1>4, <1>5, <1>7 DEF f
<1>8. QED BY <1>6, <1>7

LEMMA SentLedger ==
  ASSUME NEW e, NEW f, NEW t \in Tokens(e), Sends(e, f, t), Idle(e)
  PROVE  Ledger(e, f) /\ Answered(e, f)
<1>1. Rec(e) /\ Running(e, e)
  BY Begun
<1>2. f.out = e.out /\ f.stop_pending = e.stop_pending /\ Held(f) = Held(e)
  BY <1>1 DEF Sends, Rec, Fields, Held
<1>3. QED BY <1>1, <1>2 DEF Running, Ledger, Answered

-----------------------------------------------------------------------------
(* What waits to run on the owner's thread agrees with how far each drain   *)
(* has come: a branch being drained is unlinked once, before EOS enters it, *)
(* and finished by its drain only after EOS came through.                   *)
Unlinks(cs, i, t) == cs[i].call = "unlink_and_drain" /\ cs[i].token = t
Finishes(cs, i, t) == cs[i].call = "finish_remove" /\ cs[i].token = t

DrainOf(e, cs, t) ==
  /\ \A i \in DOMAIN cs : Finishes(cs, i, t) => e.branches[t].eos = "seen"
  /\ \A i \in DOMAIN cs : Unlinks(cs, i, t) => e.branches[t].eos = "none" /\ e.branches[t].drain_scheduled
  /\ \A i, j \in DOMAIN cs : Unlinks(cs, i, t) /\ Unlinks(cs, j, t) => i = j
  /\ ~e.branches[t].drain_scheduled => e.branches[t].eos = "none"
  /\ t \notin e.finalizing => ~e.branches[t].drain_scheduled

Drains(e, cs) == \A t \in Held(e) : DrainOf(e, cs, t)

LEMMA DrainsGo ==
  ASSUME NEW e, NEW f, NEW cs, Rec(e), cs \in Seq(Callback(e)), Drains(e, cs), Goes(e, f)
  PROVE  Drains(f, cs)
<1>1. \A i \in DOMAIN cs : cs[i].token \in Tokens(e)
  <2>1. \A i \in DOMAIN cs : cs[i] \in Callback(e)
    OBVIOUS
  <2>2. QED BY <2>1 DEF Callback
<1>2. ASSUME NEW t \in Held(f) PROVE DrainOf(f, cs, t)
  <2>1. CASE t \in Tokens(e)
    <3>1. t \in Held(e) /\ Drained(e, f, t) /\ (t \in e.finalizing => t \in f.finalizing)
      BY <2>1 DEF Goes
    <3>2. DrainOf(e, cs, t)
      BY <3>1 DEF Drains
    <3>3. QED BY <3>1, <3>2 DEF DrainOf, Drained
  <2>2. CASE t \notin Tokens(e)
    <3>1. Fresh(f.branches[t])
      BY <2>2 DEF Goes
    <3>2. \A i \in DOMAIN cs : ~Unlinks(cs, i, t) /\ ~Finishes(cs, i, t)
      BY <1>1, <2>2 DEF Unlinks, Finishes
    <3>3. QED BY <3>1, <3>2 DEF DrainOf, Fresh
  <2>3. QED BY <2>1, <2>2
<1>3. QED BY <1>2 DEF Drains

LEMMA DrainsRest ==
  ASSUME NEW e, NEW S, NEW cs \in Seq(S), cs # <<>>, Drains(e, cs)
  PROVE  /\ Drains(e, Tail(cs))
         /\ \A t \in Held(e) : Unlinks(cs, 1, t) => \A i \in DOMAIN Tail(cs) : ~Unlinks(Tail(cs), i, t)
<1> DEFINE ds == Tail(cs)
<1>1. /\ Len(cs) \in Nat \ {0} /\ DOMAIN cs = 1 .. Len(cs)
      /\ DOMAIN ds = 1 .. Len(cs) - 1 /\ \A i \in 1 .. Len(cs) - 1 : ds[i] = cs[i + 1]
  BY HeadTailProperties, EmptySeq
<1>2. \A i \in DOMAIN ds : i \in Nat \ {0} /\ i + 1 \in DOMAIN cs /\ ds[i] = cs[i + 1]
  BY <1>1
<1>3. 1 \in DOMAIN cs
  BY <1>1
<1> HIDE DEF ds
<1>4. ASSUME NEW t \in Held(e) PROVE DrainOf(e, ds, t)
  <2>1. DrainOf(e, cs, t)
    BY DEF Drains
  <2>2. \A i \in DOMAIN ds : /\ Unlinks(ds, i, t) => Unlinks(cs, i + 1, t)
                             /\ Finishes(ds, i, t) => Finishes(cs, i + 1, t)
    BY <1>2 DEF Unlinks, Finishes
  <2>3. \A i, j \in DOMAIN ds : Unlinks(ds, i, t) /\ Unlinks(ds, j, t) => i = j
    <3>1. \A i, j \in DOMAIN ds : Unlinks(ds, i, t) /\ Unlinks(ds, j, t) => i + 1 = j + 1
      BY <1>2, <2>1, <2>2 DEF DrainOf
    <3>2. QED BY <1>2, <3>1
  <2>4. /\ \A i \in DOMAIN ds : Finishes(ds, i, t) => e.branches[t].eos = "seen"
        /\ \A i \in DOMAIN ds : Unlinks(ds, i, t) => e.branches[t].eos = "none" /\ e.branches[t].drain_scheduled
    BY <1>2, <2>1, <2>2 DEF DrainOf
  <2>5. QED BY <2>1, <2>3, <2>4 DEF DrainOf
<1>5. ASSUME NEW t \in Held(e), Unlinks(cs, 1, t), NEW i \in DOMAIN ds, Unlinks(ds, i, t) PROVE FALSE
  <2>1. Unlinks(cs, i + 1, t) /\ i + 1 \in DOMAIN cs /\ i + 1 # 1
    BY <1>2, <1>5 DEF Unlinks
  <2>2. DrainOf(e, cs, t)
    BY DEF Drains
  <2>3. QED BY <1>3, <1>5, <2>1, <2>2 DEF DrainOf
<1>6. QED BY <1>4, <1>5 DEF Drains, ds

-----------------------------------------------------------------------------
(* What a step has posted, told from the record before and after it.        *)
Accounts(e, f, q) ==
  /\ \A t \in Tokens(e) :
       IF t \in Held(e) \ Held(f) THEN \E i : Removals(q, t) = {i} ELSE Removals(q, t) = {}
  /\ \A i \in DOMAIN q : Clean(q[i]) => Sealed(e, q[i].token)
  /\ e.stop_pending /\ ~f.stop_pending => \E i : Answers(q) = {i}
  /\ Answers(q) # {} =>
       (\E i : Answers(q) = {i}) /\ ~f.stop_pending /\ ~f.pipeline /\ Held(f) = {}

LEMMA DoAccounts ==
  ASSUME NEW f, Rec(f), Ledger(engine, f), Answered(engine, f), Do(f)
  PROVE  Accounts(engine, engine', posted') /\ Goes(f, engine')
<1> DEFINE g == [f EXCEPT !.out = <<>>]
<1>1. engine' = g /\ posted' = f.out
  BY DEF Do
<1>2. /\ DOMAIN g = Fields /\ g.branches = f.branches /\ g.active = f.active /\ g.finalizing = f.finalizing
      /\ g.stop_pending = f.stop_pending /\ g.pipeline = f.pipeline
  BY DEF Rec, Fields
<1> HIDE DEF g
<1>3. Held(g) = Held(f) /\ Tokens(g) = Tokens(f) /\ Rec(g)
  BY <1>2 DEF Held, Tokens, Rec
<1>4. Goes(f, g)
  BY <1>2, <1>3, HeldAreTokens DEF Goes, Drained
<1>5. Accounts(engine, g, f.out)
  BY <1>2, <1>3 DEF Accounts, Ledger, Answered
<1>6. QED BY <1>1, <1>4, <1>5

LEMMA QuietAccounts ==
  ASSUME NEW f, Idle(engine), Held(f) = Held(engine), f.stop_pending = engine.stop_pending
  PROVE  Accounts(engine, f, <<>>)
<1>1. Running(engine, engine)
  BY Begun
<1>2. QED BY <1>1 DEF Idle, Running, Ledger, Accounts

DInv == EInv /\ Drains(engine, callbacks)

LEMMA DInvFacts ==
  ASSUME DInv
  PROVE  /\ Idle(engine) /\ Rec(engine) /\ Drains(engine, callbacks)
         /\ callbacks \in Seq(Callback(engine))
BY Begun DEF DInv, EInv, Idle

LEMMA RunAccounts ==
  ASSUME DInv, NEW f, Settled(engine, f), Do(f), NEW cs \in Seq(Callback(engine)), Drains(engine, cs)
  PROVE  Accounts(engine, engine', posted') /\ Drains(engine', cs)
<1>1. Rec(engine) /\ Rec(f) /\ Ledger(engine, f) /\ Answered(engine, f) /\ Goes(engine, f)
  BY DInvFacts DEF Settled, Goes
<1>2. Accounts(engine, engine', posted') /\ Goes(f, engine')
  BY <1>1, DoAccounts
<1>3. Goes(engine, engine')
  BY <1>1, <1>2, GoesOn
<1>4. QED BY <1>1, <1>2, <1>3, DrainsGo

Accounted == Accounts(engine, engine', posted') /\ Drains(engine', callbacks')

LEMMA RunAccounted ==
  ASSUME DInv, NEW f, Settled(engine, f), Run(f)
  PROVE  Accounted
BY DInvFacts, RunAccounts DEF Run, Accounted

LEMMA CommandAccounted ==
  ASSUME DInv, CaptureCommand \/ SpectrumCommand
  PROVE  Accounted
<1>1. Idle(engine)
  BY DInvFacts
<1>2. ASSUME NEW plays, NEW level, Run(StartCapture(engine, plays, level)) PROVE Accounted
  BY <1>1, <1>2, StartCaptureSettles, RunAccounted
<1>3. CASE Run(StopCapture(engine)) \/ Run(Shutdown(engine))
  BY <1>1, <1>3, ShutdownSettles, RunAccounted
<1>4. ASSUME NEW on, NEW added, Run(SetSpectrumActive(engine, on, added)) PROVE Accounted
  BY <1>1, <1>4, SpectrumSettles, RunAccounted
<1>5. CASE CaptureCommand
  BY <1>2, <1>3, <1>5 DEF CaptureCommand
<1>6. CASE SpectrumCommand
  BY <1>4, <1>6 DEF SpectrumCommand
<1>7. QED BY <1>5, <1>6

LEMMA OutputAccounted ==
  ASSUME DInv, StreamCommand \/ RecordingCommand
  PROVE  Accounted
<1>1. Idle(engine) /\ \A g \in Generation : g \in Nat
  BY DInvFacts, ScenarioTyped DEF Generation, DInv
<1>2. ASSUME NEW g \in Generation, NEW added, Run(StartStream(engine, g, added)) PROVE Accounted
  BY <1>1, <1>2, StartStreamSettles, RunAccounted
<1>3. ASSUME NEW g, Run(StopStream(engine, g)) \/ Run(AbortStreamAttempt(engine, g)) \/ Run(StopRecording(engine, g))
      PROVE  Accounted
  BY <1>1, <1>3, StreamStops, RunAccounted
<1>4. ASSUME NEW g, Run(SetBitrate(engine, g)) PROVE Accounted
  BY <1>1, <1>4, BitrateSettles, RunAccounted
<1>5. ASSUME NEW g \in Generation, NEW added, Run(StartRecording(engine, g, added)) PROVE Accounted
  BY <1>1, <1>5, StartRecordingSettles, RunAccounted
<1>6. ASSUME NEW g \in Generation, NEW added, Run(RotateRecording(engine, g, added)) PROVE Accounted
  BY <1>1, <1>6, RotateSettles, RunAccounted
<1>7. CASE StreamCommand
  BY <1>2, <1>3, <1>4, <1>7 DEF StreamCommand
<1>8. CASE RecordingCommand
  BY <1>3, <1>5, <1>6, <1>8 DEF RecordingCommand
<1>9. QED BY <1>7, <1>8

LEMMA BusAccounted ==
  ASSUME DInv, BusMessage
  PROVE  Accounted
<1>1. Idle(engine)
  BY DInvFacts
<1>2. CASE Run(CapturePlaying(engine))
  BY <1>1, <1>2, CapturePlayingSettles, RunAccounted
<1>3. ASSUME NEW t \in Held(engine), Run(BranchPlaying(engine, t)) PROVE Accounted
  BY <1>1, <1>3, BranchPlayingSettles, RunAccounted
<1>4. ASSUME NEW t \in Held(engine), NEW closed \in Closing(t), Run(SinkError(engine, t, closed))
      PROVE  Accounted
  BY <1>1, <1>4, ClosingTyped, SinkErrorSettles, RunAccounted
<1>5. ASSUME NEW t \in Held(engine), NEW closed \in Closing(t), Run(BranchError(engine, t, closed))
      PROVE  Accounted
  BY <1>1, <1>5, ClosingTyped, BranchErrorSettles, RunAccounted
<1>6. ASSUME NEW code, Run(FailCapture(engine, code)) PROVE Accounted
  BY <1>1, <1>6, FailCaptureSettles, RunAccounted DEF Idle
<1>7. QED BY <1>2, <1>3, <1>4, <1>5, <1>6 DEF BusMessage

LEMMA TimeoutAccounted ==
  ASSUME DInv, AnyRemovalTimeout
  PROVE  Accounted
<1> DEFINE yes == TRUE
<1>1. PICK t \in engine.finalizing : \E closed \in Closing(t) : Run(FinishRemove(engine, t, yes, closed))
  BY DEF AnyRemovalTimeout, RemovalTimeout
<1>2. yes /\ yes \in BOOLEAN
  OBVIOUS
<1> HIDE DEF yes
<1>3. Rec(engine) /\ Running(engine, engine) /\ Placed(engine) /\ t \in Tokens(engine)
  BY DInvFacts, Begun DEF Rec
<1>4. \A closed \in Closing(t) : Settled(engine, FinishRemove(engine, t, yes, closed))
  BY <1>2, <1>3, ClosingTyped, FinishSettles
<1>5. QED BY <1>1, <1>4, RunAccounted

(* A streaming thread posts nothing; its callback goes to the end.          *)
LEMMA DrainsAppend ==
  ASSUME NEW e, NEW f, NEW t \in Held(e), NEW S, NEW cs \in Seq(S), NEW c \in S, c.token = t,
         Held(f) = Held(e), f.finalizing = e.finalizing, Drains(e, cs), DrainOf(f, Append(cs, c), t),
         \A u \in Held(e) : u # t => f.branches[u] = e.branches[u]
  PROVE  Drains(f, Append(cs, c))
<1> DEFINE ds == Append(cs, c)
<1>1. /\ Len(cs) \in Nat /\ DOMAIN cs = 1 .. Len(cs) /\ DOMAIN ds = 1 .. Len(cs) + 1
      /\ \A i \in 1 .. Len(cs) : ds[i] = cs[i]
      /\ ds[Len(cs) + 1] = c
  BY AppendProperties
<1>2. \A i \in DOMAIN ds : (i \in DOMAIN cs /\ ds[i] = cs[i]) \/ ds[i] = c
  BY <1>1
<1> HIDE DEF ds
<1>3. ASSUME NEW u \in Held(f), u # t PROVE DrainOf(f, ds, u)
  <2>1. DrainOf(e, cs, u) /\ f.branches[u] = e.branches[u]
    BY <1>3 DEF Drains
  <2>2. \A i \in DOMAIN ds : /\ Unlinks(ds, i, u) => i \in DOMAIN cs /\ Unlinks(cs, i, u)
                             /\ Finishes(ds, i, u) => i \in DOMAIN cs /\ Finishes(cs, i, u)
    BY <1>2, <1>3 DEF Unlinks, Finishes
  <2>3. QED BY <2>1, <2>2 DEF DrainOf
<1>4. QED BY <1>3 DEF Drains, ds

LEMMA StreamingAccounted ==
  ASSUME DInv, StreamingThread
  PROVE  Accounted
<1>1. PICK t \in Held(engine) :
        SinkFails(t) \/ PadIdle(t) \/ EosReachesProbe(t) \/ CallerChanges(t) \/ QueueOverrun(t)
  BY DEF StreamingThread
<1> DEFINE b == engine.branches[t]
           S == Callback(engine)
<1>2. /\ Idle(engine) /\ Rec(engine) /\ Drains(engine, callbacks) /\ callbacks \in Seq(S)
      /\ t \in Tokens(engine) /\ b \in Branch /\ DrainOf(engine, callbacks, t)
  <2>1. /\ Idle(engine) /\ Rec(engine) /\ Drains(engine, callbacks) /\ callbacks \in Seq(S)
    BY DInvFacts
  <2>2. QED BY <2>1, BranchTyped DEF Idle, Drains
<1>3. ASSUME NEW c \in Branch, engine' = [engine EXCEPT !.branches = [engine.branches EXCEPT ![t] = c]]
      PROVE  /\ Held(engine') = Held(engine) /\ engine'.finalizing = engine.finalizing
             /\ engine'.stop_pending = engine.stop_pending /\ engine'.branches[t] = c
             /\ \A u \in Held(engine) : u # t => engine'.branches[u] = engine.branches[u]
  <2>1. /\ engine'.active = engine.active /\ engine'.finalizing = engine.finalizing
        /\ engine'.stop_pending = engine.stop_pending
        /\ engine'.branches = [engine.branches EXCEPT ![t] = c]
    BY <1>2, <1>3 DEF Rec, Fields
  <2>2. t \in DOMAIN engine.branches /\ \A u \in Held(engine) : u \in DOMAIN engine.branches
    BY <1>2, HeldAreTokens DEF Rec, Tokens
  <2>3. QED BY <2>1, <2>2 DEF Held
<1>4. \A i \in DOMAIN callbacks : i \in Nat /\ i <= Len(callbacks)
  BY <1>2
<1>5. ASSUME NEW c \in S
      PROVE  LET ds == Append(callbacks, c)
             IN /\ \A i \in DOMAIN ds : (i \in DOMAIN callbacks /\ ds[i] = callbacks[i])
                                        \/ (i = Len(callbacks) + 1 /\ ds[i] = c)
                /\ Len(callbacks) \in Nat
  BY <1>2, AppendProperties
<1>6. CASE SinkFails(t)
  <2> DEFINE c == [b EXCEPT !.valve = "dropping"]
  <2>1. /\ engine' = [engine EXCEPT !.branches = [engine.branches EXCEPT ![t] = c]]
        /\ callbacks' = callbacks /\ posted' = <<>>
    BY <1>2, <1>6 DEF SinkFails, Rec, Fields
  <2>2. c \in Branch /\ c.eos = b.eos /\ c.drain_scheduled = b.drain_scheduled
    <3> HIDE DEF b
    <3>1. QED BY <1>2 DEF Branch
  <2> HIDE DEF c
  <2>3. Accounted
    <3>1. Accounts(engine, engine', posted')
      BY <1>2, <1>3, <2>1, <2>2, QuietAccounts
    <3>2. \A u \in Held(engine) : DrainOf(engine', callbacks, u)
      <4>1. \A u \in Held(engine) : Drained(engine, engine', u) /\ engine'.finalizing = engine.finalizing
        BY <1>3, <2>1, <2>2 DEF Drained
      <4>2. QED BY <1>2, <4>1 DEF Drains, DrainOf, Drained
    <3>3. QED BY <1>3, <2>1, <2>2, <3>1, <3>2 DEF Accounted, Drains
  <2>4. QED BY <2>3
<1>7. CASE PadIdle(t)
  <2> DEFINE c == [b EXCEPT !.drain_scheduled = TRUE]
             call == [call |-> "unlink_and_drain", token |-> t]
  <2>1. /\ engine' = [engine EXCEPT !.branches = [engine.branches EXCEPT ![t] = c]]
        /\ callbacks' = Append(callbacks, call) /\ posted' = <<>>
        /\ t \in engine.finalizing /\ ~b.drain_scheduled
    BY <1>2, <1>7 DEF PadIdle, Defer, Rec, Fields
  <2>2. c \in Branch /\ c.eos = b.eos /\ c.drain_scheduled = TRUE
    <3> HIDE DEF b
    <3>1. QED BY <1>2 DEF Branch
  <2>3. call \in S /\ call.token = t /\ call.call = "unlink_and_drain"
    BY <1>2 DEF Callback, Call
  <2> HIDE DEF c, call, S
  <2>4. DrainOf(engine', callbacks', t)
    <3>1. \A i \in DOMAIN callbacks : ~Unlinks(callbacks, i, t) /\ ~Finishes(callbacks, i, t)
      BY <1>2, <2>1 DEF DrainOf
    <3>2. \A i \in DOMAIN callbacks' : /\ Unlinks(callbacks', i, t) => i = Len(callbacks) + 1
                                       /\ ~Finishes(callbacks', i, t)
      BY <1>5, <2>1, <2>3, <3>1 DEF Unlinks, Finishes
    <3>3. b.eos = "none" /\ engine'.branches[t] = c /\ engine'.finalizing = engine.finalizing
      BY <1>2, <1>3, <2>1, <2>2 DEF DrainOf
    <3>4. QED BY <2>1, <2>2, <3>2, <3>3 DEF DrainOf
  <2>5. Drains(engine', callbacks')
    <3>1. /\ Held(engine') = Held(engine) /\ engine'.finalizing = engine.finalizing
          /\ \A u \in Held(engine) : u # t => engine'.branches[u] = engine.branches[u]
      BY <1>3, <2>1, <2>2
    <3>2. DrainOf(engine', Append(callbacks, call), t)
      BY <2>1, <2>4
    <3>3. Drains(engine', Append(callbacks, call))
      BY <1>2, <2>3, <3>1, <3>2, DrainsAppend
    <3>4. QED BY <2>1, <3>3
  <2>6. QED BY <1>2, <1>3, <2>1, <2>2, <2>5, QuietAccounts DEF Accounted
<1>8. CASE EosReachesProbe(t)
  <2> DEFINE c == [b EXCEPT !.eos = "seen"]
             call == [call |-> "finish_remove", token |-> t]
  <2>1. /\ engine' = [engine EXCEPT !.branches = [engine.branches EXCEPT ![t] = c]]
        /\ callbacks' = Append(callbacks, call) /\ posted' = <<>>
        /\ t \in engine.finalizing /\ b.eos = "sent"
    BY <1>2, <1>8 DEF EosReachesProbe, Defer, Rec, Fields
  <2>2. c \in Branch /\ c.eos = "seen" /\ c.drain_scheduled = b.drain_scheduled
    <3> HIDE DEF b
    <3>1. QED BY <1>2 DEF Branch
  <2>3. call \in S /\ call.token = t /\ call.call = "finish_remove"
    BY <1>2 DEF Callback, Call
  <2> HIDE DEF c, call, S
  <2>4. DrainOf(engine', callbacks', t)
    <3>1. \A i \in DOMAIN callbacks : ~Unlinks(callbacks, i, t)
      BY <1>2, <2>1 DEF DrainOf
    <3>2. \A i \in DOMAIN callbacks' : ~Unlinks(callbacks', i, t)
      BY <1>5, <2>1, <2>3, <3>1 DEF Unlinks
    <3>3. b.drain_scheduled /\ engine'.branches[t] = c /\ engine'.finalizing = engine.finalizing
      BY <1>2, <1>3, <2>1, <2>2 DEF DrainOf
    <3>4. QED BY <2>1, <2>2, <3>2, <3>3 DEF DrainOf
  <2>5. Drains(engine', callbacks')
    <3>1. /\ Held(engine') = Held(engine) /\ engine'.finalizing = engine.finalizing
          /\ \A u \in Held(engine) : u # t => engine'.branches[u] = engine.branches[u]
      BY <1>3, <2>1, <2>2
    <3>2. DrainOf(engine', Append(callbacks, call), t)
      BY <2>1, <2>4
    <3>3. Drains(engine', Append(callbacks, call))
      BY <1>2, <2>3, <3>1, <3>2, DrainsAppend
    <3>4. QED BY <2>1, <3>3
  <2>6. QED BY <1>2, <1>3, <2>1, <2>2, <2>5, QuietAccounts DEF Accounted
<1>9. ASSUME NEW c \in S, c.token = t, c.call \notin {"unlink_and_drain", "finish_remove"},
             engine' = engine, callbacks' = Append(callbacks, c), posted' = <<>>
      PROVE  Accounted
  <2>1. \A i \in DOMAIN callbacks' :
          /\ Unlinks(callbacks', i, t) => i \in DOMAIN callbacks /\ Unlinks(callbacks, i, t)
          /\ Finishes(callbacks', i, t) => i \in DOMAIN callbacks /\ Finishes(callbacks, i, t)
    BY <1>5, <1>9 DEF Unlinks, Finishes
  <2>2. DrainOf(engine', callbacks', t)
    BY <1>2, <1>9, <2>1 DEF DrainOf
  <2> HIDE DEF S
  <2>3. Drains(engine', callbacks')
    BY <1>2, <1>9, <2>2, DrainsAppend
  <2>4. QED BY <1>2, <1>9, <2>3, QuietAccounts DEF Accounted
<1>10. CASE CallerChanges(t)
  <2>1. PICK connected \in BOOLEAN :
          Defer([call |-> "connection_changed", token |-> t, connected |-> connected])
    BY <1>10 DEF CallerChanges
  <2> DEFINE call == [call |-> "connection_changed", token |-> t, connected |-> connected]
  <2>2. /\ call \in S /\ call.token = t /\ call.call = "connection_changed"
        /\ callbacks' = Append(callbacks, call) /\ engine' = engine /\ posted' = <<>>
    BY <1>2, <1>10, <2>1 DEF Callback, Call, CallerChanges, Defer
  <2> HIDE DEF call, S
  <2>3. QED BY <1>9, <2>2
<1>11. CASE QueueOverrun(t)
  <2> DEFINE call == [call |-> "handle_queue_overrun", token |-> t]
  <2>1. /\ call \in S /\ call.token = t /\ call.call = "handle_queue_overrun"
        /\ callbacks' = Append(callbacks, call) /\ engine' = engine /\ posted' = <<>>
    BY <1>2, <1>11 DEF Callback, Call, QueueOverrun, Defer
  <2> HIDE DEF call, S
  <2>2. QED BY <1>9, <2>1
<1>12. QED BY <1>1, <1>6, <1>7, <1>8, <1>10, <1>11

LEMMA CallbackAccounted ==
  ASSUME DInv, RunCallback
  PROVE  Accounted
<1> DEFINE t == Head(callbacks).token
           call == Head(callbacks).call
           cs == Tail(callbacks)
           no == FALSE
           S == Callback(engine)
<1>1. /\ callbacks # <<>> /\ callbacks' = cs
      /\ \/ /\ call = "unlink_and_drain"
            /\ \E sent \in BOOLEAN, closed \in Closing(t) : Do(UnlinkAndDrain(engine, t, sent, closed))
         \/ /\ call = "finish_remove"
            /\ \E closed \in Closing(t) : Do(FinishRemove(engine, t, no, closed))
         \/ \E connected : Do(ConnectionChanged(engine, t, connected))
         \/ Do(HandleQueueOverrun(engine, t))
  BY DEF RunCallback
<1>2. /\ Idle(engine) /\ Rec(engine) /\ Drains(engine, callbacks) /\ callbacks \in Seq(S) /\ no \in BOOLEAN
  BY DInvFacts
<1>3. /\ Head(callbacks) \in S /\ cs \in Seq(S) /\ 1 \in DOMAIN callbacks /\ callbacks[1] = Head(callbacks)
  <2> HIDE DEF S
  <2>1. Len(callbacks) \in Nat \ {0} /\ DOMAIN callbacks = 1 .. Len(callbacks)
    BY <1>1, <1>2, EmptySeq
  <2>2. QED BY <1>1, <1>2, <2>1
<1>4. t \in Tokens(engine)
  BY <1>3 DEF Callback
<1>5. Drains(engine, cs)
  <2> HIDE DEF S
  <2>1. QED BY <1>1, <1>2, DrainsRest
<1>6. ASSUME NEW f, Settled(engine, f), Do(f) PROVE Accounted
  <2> HIDE DEF cs
  <2>1. QED BY <1>1, <1>3, <1>5, <1>6, RunAccounts DEF Accounted
<1>7. ASSUME call = "unlink_and_drain", NEW sent \in BOOLEAN, NEW closed \in Closing(t),
             Do(UnlinkAndDrain(engine, t, sent, closed))
      PROVE  Accounted
  <2> DEFINE f == UnlinkAndDrain(engine, t, sent, closed)
             c == [engine.branches[t] EXCEPT !.eos = "sent"]
  <2>1. CASE Settled(engine, f)
    BY <1>6, <1>7, <2>1
  <2>2. CASE Sends(engine, f, t)
    <3>1. Unlinks(callbacks, 1, t) /\ t \in Held(engine)
      BY <1>3, <1>7, <2>2 DEF Unlinks, Sends, Held
    <3>2. \A i \in DOMAIN cs : ~Unlinks(cs, i, t)
      <4> HIDE DEF S
      <4>1. QED BY <1>1, <1>2, <3>1, DrainsRest
    <3>3. DrainOf(engine, callbacks, t) /\ DrainOf(engine, cs, t)
      BY <1>2, <1>5, <3>1 DEF Drains
    <3>4. engine.branches[t].eos = "none" /\ engine.branches[t].drain_scheduled
      BY <1>3, <3>1, <3>3 DEF DrainOf
    <3>5. \A i \in DOMAIN cs : ~Finishes(cs, i, t)
      BY <3>3, <3>4 DEF DrainOf
    <3>6. engine.branches[t] \in Branch
      BY <1>2, <1>4 DEF Rec, Tokens
    <3>7. c \in Branch /\ c.eos = "sent" /\ c.drain_scheduled
      <4> DEFINE b == engine.branches[t]
      <4>1. b \in Branch /\ b.drain_scheduled
        BY <3>4, <3>6
      <4> HIDE DEF b
      <4>2. [b EXCEPT !.eos = "sent"] \in Branch /\ [b EXCEPT !.eos = "sent"].eos = "sent"
            /\ [b EXCEPT !.eos = "sent"].drain_scheduled
        BY <4>1 DEF Branch
      <4>3. QED BY <4>2 DEF b
    <3> HIDE DEF f, c
    <3>8. /\ DOMAIN f = Fields /\ f.active = engine.active /\ f.finalizing = engine.finalizing
          /\ f.branches = [engine.branches EXCEPT ![t] = c] /\ t \in engine.finalizing
      BY <1>2, <2>2 DEF Sends, Rec, Fields, c
    <3>9. Rec(f)
      <4>1. f.branches \in Seq(Branch) /\ Len(f.branches) = Len(engine.branches)
        BY <1>2, <1>4, <3>7, <3>8, ExceptSeq DEF Rec, Tokens
      <4>2. QED BY <1>2, <3>8, <4>1 DEF Rec, Tokens
    <3>10. Ledger(engine, f) /\ Answered(engine, f)
      BY <1>2, <1>4, <2>2, SentLedger
    <3>11. Accounts(engine, engine', posted')
      BY <1>7, <3>9, <3>10, DoAccounts DEF f
    <3>12. /\ Held(engine') = Held(engine) /\ engine'.finalizing = engine.finalizing
           /\ engine'.branches = [engine.branches EXCEPT ![t] = c]
      <4>1. /\ engine'.active = engine.active /\ engine'.finalizing = engine.finalizing
            /\ engine'.branches = [engine.branches EXCEPT ![t] = c]
        BY <1>7, <3>8 DEF Do, Fields, f
      <4>2. QED BY <4>1 DEF Held
    <3>13. ASSUME NEW u \in Held(engine) PROVE DrainOf(engine', cs, u)
      <4>1. u \in DOMAIN engine.branches /\ t \in DOMAIN engine.branches
        BY <1>2, <1>4, HeldAreTokens DEF Rec, Tokens
      <4>2. CASE u = t
        <5>1. engine'.branches[t] = c
          BY <3>12, <4>1
        <5>2. QED BY <3>2, <3>5, <3>7, <3>8, <3>12, <4>2, <5>1 DEF DrainOf
      <4>3. CASE u # t
        <5>1. engine'.branches[u] = engine.branches[u] /\ DrainOf(engine, cs, u)
          BY <1>5, <3>12, <4>1, <4>3 DEF Drains
        <5>2. QED BY <3>12, <5>1 DEF DrainOf
      <4>4. QED BY <4>2, <4>3
    <3>14. QED BY <1>1, <3>11, <3>12, <3>13 DEF Accounted, Drains
  <2>3. QED BY <1>2, <1>4, <2>1, <2>2, ClosingTyped, DrainSettles
<1>8. ASSUME call = "finish_remove", NEW closed \in Closing(t), Do(FinishRemove(engine, t, no, closed))
      PROVE  Accounted
  <2>1. CASE t \in engine.finalizing
    <3>1. t \in Held(engine) /\ Finishes(callbacks, 1, t)
      BY <1>3, <1>8, <2>1 DEF Held, Finishes
    <3>2. engine.branches[t].eos = "seen"
      BY <1>2, <1>3, <3>1 DEF Drains, DrainOf
    <3>3. Running(engine, engine) /\ Placed(engine)
      BY <1>2, Begun
    <3> HIDE DEF no, t
    <3>4. Settled(engine, FinishRemove(engine, t, no, closed))
      BY <1>2, <1>4, <3>2, <3>3, ClosingTyped, FinishSettles
    <3>5. QED BY <1>6, <1>8, <3>4
  <2>2. CASE t \notin engine.finalizing
    <3>1. FinishRemove(engine, t, no, closed) = engine
      BY <2>2 DEF FinishRemove
    <3>2. Settled(engine, engine)
      BY <1>2, Begun
    <3>3. QED BY <1>6, <1>8, <3>1, <3>2
  <2>3. QED BY <2>1, <2>2
<1>9. ASSUME NEW connected, Do(ConnectionChanged(engine, t, connected)) PROVE Accounted
  BY <1>2, <1>6, <1>9, ConnectionSettles
<1>10. CASE Do(HandleQueueOverrun(engine, t))
  BY <1>2, <1>4, <1>6, <1>10, OverrunSettles
<1>11. QED BY <1>1, <1>7, <1>8, <1>9, <1>10

LEMMA StepAccounted == DInv /\ Next => Accounted
<1> SUFFICES ASSUME DInv, Next PROVE Accounted
  OBVIOUS
<1>1. Step
  BY DEF Next
<1>2. QED BY <1>1, CommandAccounted, OutputAccounted, BusAccounted, StreamingAccounted,
             CallbackAccounted, TimeoutAccounted DEF Step

LEMMA DInvAlways == Spec => []DInv
<1>1. Init => DInv
  <2> SUFFICES ASSUME Init PROVE DInv
    OBVIOUS
  <2>1. EInv
    BY InitStands
  <2>2. engine = InitialEngine
    BY DEF Init
  <2>3. Held(engine) = {}
    BY <2>2 DEF InitialEngine, Held
  <2>4. QED BY <2>1, <2>3 DEF DInv, Drains
<1>2. DInv /\ [Next]_vars => DInv'
  <2> SUFFICES ASSUME DInv, [Next]_vars PROVE DInv'
    OBVIOUS
  <2>1. EInv'
    BY StepStands DEF DInv
  <2>2. CASE Next
    BY <2>1, <2>2, StepAccounted DEF DInv, Accounted
  <2>3. CASE UNCHANGED vars
    BY <2>1, <2>3 DEF DInv, vars
  <2>4. QED BY <2>2, <2>3
<1>3. QED BY <1>1, <1>2, PTL DEF Spec

LEMMA OneIsOne ==
  ASSUME NEW S
  PROVE  /\ (\E i : S = {i}) => Cardinality(S) = 1
         /\ S = {} => Cardinality(S) = 0
BY FS_Singleton, FS_EmptySet

-----------------------------------------------------------------------------
(* A branch leaves the engine with exactly one branch-removed, and none is   *)
(* posted for one that stays: any number of branches, however their ends    *)
(* race (_finish_remove, _force_remove_now, _force_all_branches).           *)
THEOREM LeavesOnce == Spec => RemovedOnce
<1> DEFINE Once == \A t \in DOMAIN engine.branches :
        Cardinality(PostedRemovals(t)) = IF t \in Held(engine) \ Held(engine)' THEN 1 ELSE 0
<1>1. DInv /\ [Next]_vars => [Once]_vars
  <2> SUFFICES ASSUME DInv, Next, NEW t \in DOMAIN engine.branches
               PROVE  Cardinality(PostedRemovals(t)) = IF t \in Held(engine) \ Held(engine)' THEN 1 ELSE 0
    OBVIOUS
  <2>1. Accounts(engine, engine', posted')
    BY StepAccounted DEF Accounted
  <2>2. t \in Tokens(engine)
    BY DInvFacts DEF Rec, Tokens
  <2>3. PostedRemovals(t) = Removals(posted', t)
    BY DEF PostedRemovals, Removals
  <2>4. QED BY <2>1, <2>2, <2>3, OneIsOne DEF Accounts
<1>2. QED BY <1>1, DInvAlways, PTL DEF Spec, RemovedOnce

(* Each pending stop is answered by one capture-stopped, at the moment it   *)
(* ends; and whenever one is posted nothing of the capture is left          *)
(* (_maybe_finish_capture_stop, _emit_capture_stopped, _fail_capture).      *)
THEOREM AnsweredOnce == Spec => StopAnsweredOnce
<1> DEFINE Once ==
      LET answers == {i \in DOMAIN posted' : posted'[i].kind = "capture-stopped"}
      IN  /\ engine.stop_pending /\ ~engine'.stop_pending => Cardinality(answers) = 1
          /\ answers # {} =>
               /\ Cardinality(answers) = 1
               /\ ~engine'.stop_pending /\ ~engine'.pipeline
               /\ Held(engine)' = {}
<1>1. DInv /\ [Next]_vars => [Once]_vars
  <2> SUFFICES ASSUME DInv, Next PROVE Once
    OBVIOUS
  <2>1. Accounts(engine, engine', posted')
    BY StepAccounted DEF Accounted
  <2>2. Answers(posted') = {i \in DOMAIN posted' : posted'[i].kind = "capture-stopped"}
    BY DEF Answers
  <2>3. QED BY <2>1, <2>2, OneIsOne DEF Accounts
<1>2. QED BY <1>1, DInvAlways, PTL DEF Spec, StopAnsweredOnce

(* A recording is reported removed without force only by the callback of    *)
(* its EOS, with its sink still sound: neither a timeout, an error nor an   *)
(* EOS that was refused can pass for it (_finish_remove).                   *)
THEOREM CleanOnlyAfterEos == Spec => CleanFragmentsSawEos
<1> DEFINE Saw == \A i \in DOMAIN posted' :
        LET p == posted'[i] IN
        /\ p.kind = "branch-removed" /\ p.scope = "recording"
        /\ p.token # 0 /\ ~p.forced
        => /\ engine.branches[p.token].eos = "seen"
           /\ engine.branches[p.token].valve = "open"
<1>1. DInv /\ [Next]_vars => [Saw]_vars
  <2> SUFFICES ASSUME DInv, Next PROVE Saw
    OBVIOUS
  <2>1. Accounts(engine, engine', posted')
    BY StepAccounted DEF Accounted
  <2>2. QED BY <2>1 DEF Accounts, Clean, Sealed
<1>2. QED BY <1>1, DInvAlways, PTL DEF Spec, CleanFragmentsSawEos
=============================================================================
