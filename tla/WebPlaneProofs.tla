---------------------------- MODULE WebPlaneProofs ----------------------------
(* Theorems about the web process and what stands around it: accounts,       *)
(* sessions and long answers; the control channel; the measurements. For any *)
(* number of threads, streams, sessions, addresses, peers, slots,            *)
(* directories and devices.                                                  *)
EXTENDS WebPlane, FiniteSetTheorems, TLAPS

-----------------------------------------------------------------------------
(* The session store.                                                        *)
LEMMA MinOfTwo ==
  ASSUME NEW a \in Nat, NEW b \in Nat
  PROVE  Min({a, b}) \in Nat /\ Min({a, b}) <= a /\ Min({a, b}) <= b /\ Min({a, b}) \in {a, b}
<1>1. \E x \in {a, b} : \A y \in {a, b} : x <= y
  BY SMT
<1>2. Min({a, b}) \in {a, b} /\ \A y \in {a, b} : Min({a, b}) <= y
  BY <1>1 DEF Min
<1>3. QED BY <1>2

LEMMA TimesAreNat == IdleTimeout \in Nat \ {0} /\ AbsoluteTimeout \in Nat \ {0} /\ IdleTimeout <= AbsoluteTimeout /\ SessionsMax \in Nat \ {0}
BY SecurityAssumption

(* Sessions that are taken out leave the others as they were, in order.      *)
Alike(a, b) == a.record = b.record /\ a.idle = b.idle /\ a.absolute = b.absolute

Leaves(new, gone, store) ==
  DOMAIN new = DOMAIN store \ gone /\ \A t \in DOMAIN store \ gone : Alike(new[t], store[t])

LEMMA WithoutOK ==
  ASSUME NEW last \in Nat, NEW store, StoreOK(store, last), NEW gone
  PROVE  StoreOK(Without(gone, store), last) /\ Leaves(Without(gone, store), gone, store)
<1> DEFINE W == Without(gone, store)
<1>1. DOMAIN W = DOMAIN store \ gone
  BY DEF Without
<1>2. \A t \in DOMAIN W : W[t] = [store[t] EXCEPT !.older = @ \ gone]
  BY DEF Without
<1>3. \A t \in DOMAIN W : /\ W[t] \in SessionEntry /\ W[t].older = store[t].older \ gone
                          /\ W[t].record = store[t].record /\ W[t].idle = store[t].idle
                          /\ W[t].absolute = store[t].absolute
  <2> SUFFICES ASSUME NEW t \in DOMAIN W
               PROVE  /\ W[t] \in SessionEntry /\ W[t].older = store[t].older \ gone
                      /\ W[t].record = store[t].record /\ W[t].idle = store[t].idle
                      /\ W[t].absolute = store[t].absolute
    OBVIOUS
  <2>1. store[t] \in SessionEntry
    BY <1>1 DEF StoreOK
  <2>2. W[t] = [store[t] EXCEPT !.older = store[t].older \ gone]
    BY <1>2
  <2> HIDE DEF W
  <2>3. QED BY <2>1, <2>2 DEF SessionEntry
<1> HIDE DEF W
<1>4. StoreOK(W, last)
  BY <1>1, <1>3 DEF StoreOK
<1>5. QED BY <1>1, <1>3, <1>4 DEF W, Alike, Leaves

(* A session that is put last is in order behind all others.                 *)
Joins(new, token, s, store) ==
  /\ DOMAIN new = DOMAIN store \cup {token}
  /\ \A t \in DOMAIN store : new[t] = store[t]
  /\ Alike(new[token], s)

LEMMA PutOK ==
  ASSUME NEW last \in Nat, NEW store, NEW first \in Nat, first <= last, StoreOK(store, first),
         NEW token \in 1 .. last, token \notin DOMAIN store,
         NEW s \in SessionEntry, s.idle <= s.absolute
  PROVE  StoreOK(Put(token, s, store), last) /\ Joins(Put(token, s, store), token, s, store)
<1> DEFINE P == Put(token, s, store)
           q == [s EXCEPT !.older = DOMAIN store]
<1>1. DOMAIN P = DOMAIN store \cup {token} /\ P[token] = q /\ \A t \in DOMAIN store : P[t] = store[t]
  BY DEF Put
<1>2. DOMAIN store \subseteq 1 .. first
  BY DEF StoreOK
<1>3. /\ q \in SessionEntry /\ q.older = DOMAIN store /\ q.record = s.record /\ q.idle = s.idle
      /\ q.absolute = s.absolute
  BY <1>2 DEF SessionEntry
<1> HIDE DEF P, q
<1>4. StoreOK(P, last)
  <2>1. DOMAIN P \subseteq 1 .. last
    BY <1>1, <1>2
  <2>2. \A t \in DOMAIN P : P[t] \in SessionEntry /\ P[t].idle <= P[t].absolute
    BY <1>1, <1>3 DEF StoreOK
  <2>3. \A t \in DOMAIN P : P[t].older \subseteq DOMAIN P \ {t}
    BY <1>1, <1>3 DEF StoreOK
  <2>4. \A t, u \in DOMAIN P : /\ t # u => (t \in P[u].older <=> u \notin P[t].older)
                               /\ t \in P[u].older => P[t].older \subseteq P[u].older
    BY <1>1, <1>3 DEF StoreOK
  <2>5. QED BY <2>1, <2>2, <2>3, <2>4 DEF StoreOK
<1>5. QED BY <1>1, <1>3, <1>4 DEF P, Alike, Joins

LEMMA TouchedOK ==
  ASSUME NEW s \in SessionEntry, s.idle <= s.absolute
  PROVE  /\ Touched(s) \in SessionEntry /\ Touched(s).idle <= Touched(s).absolute
         /\ Touched(s).record = s.record /\ Touched(s).absolute = s.absolute
<1> DEFINE m == Min({IdleTimeout, s.absolute})
<1>1. s.absolute \in Nat /\ IdleTimeout \in Nat
  BY TimesAreNat DEF SessionEntry
<1>2. m \in Nat /\ m <= IdleTimeout /\ m <= s.absolute
  BY <1>1, MinOfTwo
<1>3. Touched(s) = [s EXCEPT !.idle = m]
  BY DEF Touched
<1> HIDE DEF m
<1>4. QED BY <1>1, <1>2, <1>3 DEF SessionEntry

(* What a store may be after an operation: its sessions lived before under    *)
(* the same token, or have a token that was not handed out before, and hold   *)
(* the credential of a session that was there or of R.                        *)
StoreInv == minted \in Nat /\ StoreOK(sessions, minted) /\ Cardinality(DOMAIN sessions) <= SessionsMax

Follows(new, last, R) ==
  /\ StoreOK(new, last) /\ Cardinality(DOMAIN new) <= SessionsMax
  /\ \A t \in DOMAIN new :
       /\ t <= minted => t \in DOMAIN sessions /\ (Lives(new[t]) => Lives(sessions[t]))
       /\ new[t].record \in {sessions[u].record : u \in DOMAIN sessions} \cup R

LEMMA FewTokens ==
  ASSUME NEW last \in Nat, NEW store, StoreOK(store, last)
  PROVE  IsFiniteSet(DOMAIN store)
<1>1. DOMAIN store \subseteq 1 .. last
  BY DEF StoreOK
<1>2. IsFiniteSet(1 .. last)
  BY FS_Interval
<1>3. QED BY <1>1, <1>2, FS_Subset

LEMMA SameFollows ==
  ASSUME StoreInv, NEW R
  PROVE  Follows(sessions, minted, R)
BY DEF StoreInv, Follows

LEMMA NoneFollows ==
  ASSUME NEW last \in Nat, NEW R
  PROVE  Follows(<<>>, last, R)
<1>1. DOMAIN <<>> = {}
  OBVIOUS
<1>2. Cardinality({}) = 0
  BY FS_EmptySet
<1>3. QED BY <1>1, <1>2, TimesAreNat DEF Follows, StoreOK

(* What is left when some sessions are taken out.                            *)
LEMMA WithoutFollows ==
  ASSUME StoreInv, NEW gone, NEW R
  PROVE  Follows(Without(gone, sessions), minted, R)
<1> DEFINE W == Without(gone, sessions)
<1>1. /\ StoreOK(W, minted) /\ DOMAIN W = DOMAIN sessions \ gone
      /\ \A t \in DOMAIN sessions \ gone : Alike(W[t], sessions[t])
  <2>1. minted \in Nat /\ StoreOK(sessions, minted)
    BY DEF StoreInv
  <2>2. StoreOK(W, minted) /\ Leaves(W, gone, sessions)
    BY <2>1, WithoutOK
  <2>3. QED BY <2>2 DEF Leaves
<1> HIDE DEF W
<1>2. IsFiniteSet(DOMAIN sessions)
  BY FewTokens DEF StoreInv
<1>3. Cardinality(DOMAIN W) <= Cardinality(DOMAIN sessions)
  BY <1>1, <1>2, FS_Subset
<1>4. Cardinality(DOMAIN W) \in Nat /\ Cardinality(DOMAIN sessions) \in Nat
  BY <1>1, <1>2, FS_Subset, FS_CardinalityType
<1>5. Cardinality(DOMAIN W) <= SessionsMax
  BY <1>3, <1>4, TimesAreNat DEF StoreInv
<1>6. QED BY <1>1, <1>5 DEF Follows, Lives, Alike, W

LEMMA OthersFollow ==
  ASSUME StoreInv, NEW token, NEW R
  PROVE  Follows(Others(token), minted, R)
BY WithoutFollows DEF Others

(* A session that moves to the end under its own or a new token.             *)
LEMMA MovedFollows ==
  ASSUME StoreInv, NEW token, Holds(token), NEW R, NEW last \in {minted, minted + 1},
         NEW name \in {token, last}, name = token \/ last = minted + 1
  PROVE  Follows(Put(name, Touched(sessions[token]), Others(token)), last, R)
<1> DEFINE O == Others(token)
           P == Put(name, Touched(sessions[token]), Others(token))
           s == Touched(sessions[token])
<1>1. /\ StoreOK(O, minted) /\ DOMAIN O = DOMAIN sessions \ {token}
      /\ \A t \in DOMAIN O : Alike(O[t], sessions[t])
  <2>1. minted \in Nat /\ StoreOK(sessions, minted)
    BY DEF StoreInv
  <2>2. StoreOK(O, minted) /\ Leaves(O, {token}, sessions)
    BY <2>1, WithoutOK DEF Others
  <2>3. QED BY <2>2 DEF Leaves
<1>2. /\ minted \in Nat /\ last \in Nat /\ minted <= last /\ token \in DOMAIN sessions
      /\ DOMAIN sessions \subseteq 1 .. minted /\ Lives(sessions[token])
  BY DEF StoreInv, Holds, StoreOK
<1>3. /\ s \in SessionEntry /\ s.idle <= s.absolute /\ s.record = sessions[token].record
  <2>1. sessions[token] \in SessionEntry /\ sessions[token].idle <= sessions[token].absolute
    BY <1>2 DEF StoreInv, StoreOK
  <2>2. QED BY <2>1, TouchedOK
<1>4. name \in 1 .. last /\ name \notin DOMAIN O
  BY <1>1, <1>2
<1> HIDE DEF O, s
<1>5. /\ StoreOK(P, last) /\ DOMAIN P = DOMAIN O \cup {name}
      /\ \A t \in DOMAIN O : P[t] = O[t]
      /\ P[name].record = s.record
  <2>1. StoreOK(Put(name, s, O), last) /\ Joins(Put(name, s, O), name, s, O)
    <3>1. minted \in Nat /\ last \in Nat /\ minted <= last
      BY <1>2
    <3>2. StoreOK(O, minted)
      BY <1>1
    <3>3. s \in SessionEntry /\ s.idle <= s.absolute
      BY <1>3
    <3>4. QED BY <3>1, <3>2, <3>3, <1>4, PutOK
  <2>2. P = Put(name, s, O)
    BY DEF O, s
  <2>3. QED BY <2>1, <2>2 DEF Alike, Joins
<1> HIDE DEF P
<1>6. Cardinality(DOMAIN P) <= SessionsMax
  <2>1. IsFiniteSet(DOMAIN sessions) /\ IsFiniteSet(DOMAIN O)
    BY <1>1, <1>2, FewTokens, FS_Subset DEF StoreInv
  <2>2. Cardinality(DOMAIN O) = Cardinality(DOMAIN sessions) - 1
    BY <1>1, <1>2, <2>1, FS_RemoveElement
  <2>3. Cardinality(DOMAIN P) = Cardinality(DOMAIN O) + 1
    BY <1>4, <1>5, <2>1, FS_AddElement
  <2>4. Cardinality(DOMAIN sessions) \in Nat
    BY <2>1, FS_CardinalityType
  <2>5. QED BY <2>2, <2>3, <2>4 DEF StoreInv
<1>7. \A t \in DOMAIN P :
        /\ t <= minted => t \in DOMAIN sessions /\ (Lives(P[t]) => Lives(sessions[t]))
        /\ P[t].record \in {sessions[u].record : u \in DOMAIN sessions} \cup R
  <2> SUFFICES ASSUME NEW t \in DOMAIN P
               PROVE  /\ t <= minted => t \in DOMAIN sessions /\ (Lives(P[t]) => Lives(sessions[t]))
                      /\ P[t].record \in {sessions[u].record : u \in DOMAIN sessions}
    OBVIOUS
  <2>1. CASE t \in DOMAIN O
    BY <2>1, <1>1, <1>5 DEF Lives, Alike
  <2>2. CASE t = name
    <3>1. name <= minted => name = token
      BY <1>2
    <3>2. P[t].record = sessions[token].record
      BY <2>2, <1>3, <1>5
    <3>3. QED BY <2>2, <3>1, <3>2, <1>2
  <2>3. QED BY <2>1, <2>2, <1>5
<1>8. QED BY <1>5, <1>6, <1>7 DEF Follows, P

LEMMA UsedFollows ==
  ASSUME StoreInv, NEW token, NEW R
  PROVE  Follows(Used(token), minted, R)
<1>1. CASE Holds(token)
  <2>1. Follows(Put(token, Touched(sessions[token]), Others(token)), minted, R)
    BY <1>1, MovedFollows
  <2>2. QED BY <1>1, <2>1 DEF Used
<1>2. CASE ~Holds(token)
  <2>1. Follows(Others(token), minted, R)
    BY OthersFollow
  <2>2. QED BY <1>2, <2>1 DEF Used
<1>3. QED BY <1>1, <1>2

LEMMA ExaminedFollows ==
  ASSUME StoreInv, NEW token, NEW matches, NEW R
  PROVE  Follows(Examined(token, matches), minted, R)
<1>1. Follows(Used(token), minted, R)
  BY UsedFollows
<1>2. Follows(sessions, minted, R)
  BY SameFollows
<1>3. QED BY <1>1, <1>2 DEF Examined

LEMMA RotateFollows ==
  ASSUME StoreInv, NEW token, NEW R, Rotate(token)
  PROVE  Follows(sessions', minted', R) /\ minted' \in Nat /\ minted' >= minted
<1>1. minted \in Nat
  BY DEF StoreInv
<1>2. CASE Holds(token)
  <2>1. sessions' = Put(minted + 1, Touched(sessions[token]), Others(token)) /\ minted' = minted + 1
    BY <1>2 DEF Rotate, Renamed
  <2>2. minted + 1 \in {token, minted + 1} /\ minted + 1 \in {minted, minted + 1}
    OBVIOUS
  <2>3. Follows(Put(minted + 1, Touched(sessions[token]), Others(token)), minted + 1, R)
    BY <1>2, <2>2, MovedFollows
  <2>4. QED BY <1>1, <2>1, <2>3
<1>3. CASE ~Holds(token)
  <2>1. sessions' = Others(token) /\ minted' = minted
    BY <1>3 DEF Rotate
  <2>2. Follows(Others(token), minted, R)
    BY OthersFollow
  <2>3. QED BY <1>1, <2>1, <2>2
<1>4. QED BY <1>2, <1>3

(* Room for one more session is made by taking one out at most.              *)
Roomy(room) ==
  /\ StoreOK(room, minted) /\ Cardinality(DOMAIN room) < SessionsMax
  /\ \A t \in DOMAIN room : t \in DOMAIN sessions /\ Alike(room[t], sessions[t])


LEMMA RoomMade ==
  ASSUME StoreInv, NEW room \in Rooms(Pruned(sessions))
  PROVE  Roomy(room)
<1> DEFINE dead == {t \in DOMAIN sessions : ~Lives(sessions[t])}
           kept == Without(dead, sessions)
<1>1. minted \in Nat /\ StoreOK(sessions, minted)
  BY DEF StoreInv
<1>2. /\ StoreOK(kept, minted) /\ DOMAIN kept = DOMAIN sessions \ dead
      /\ \A t \in DOMAIN sessions \ dead : Alike(kept[t], sessions[t])
  <2>1. StoreOK(kept, minted) /\ Leaves(kept, dead, sessions)
    BY <1>1, WithoutOK
  <2>2. QED BY <2>1 DEF Leaves
<1>3. room \in Rooms(kept)
  BY DEF Pruned
<1> HIDE DEF dead, kept
<1>4. IsFiniteSet(DOMAIN kept) /\ Cardinality(DOMAIN kept) \in Nat /\ Cardinality(DOMAIN kept) <= SessionsMax
  <2>1. IsFiniteSet(DOMAIN sessions)
    BY <1>1, FewTokens
  <2>2. DOMAIN kept \in SUBSET DOMAIN sessions
    BY <1>2
  <2>3. IsFiniteSet(DOMAIN kept) /\ Cardinality(DOMAIN kept) <= Cardinality(DOMAIN sessions)
    BY <2>1, <2>2, FS_Subset
  <2>4. Cardinality(DOMAIN kept) \in Nat /\ Cardinality(DOMAIN sessions) \in Nat
    BY <2>1, <2>3, FS_CardinalityType
  <2>5. QED BY <2>3, <2>4, TimesAreNat DEF StoreInv
<1>5. CASE Cardinality(DOMAIN kept) < SessionsMax
  <2>1. room = kept
    BY <1>3, <1>5 DEF Rooms
  <2>2. QED BY <1>2, <1>5, <2>1 DEF Roomy
<1>6. CASE ~(Cardinality(DOMAIN kept) < SessionsMax)
  <2>1. PICK t \in DOMAIN kept : room = Without({t}, kept)
    BY <1>3, <1>6 DEF Rooms
  <2>2. /\ StoreOK(room, minted) /\ DOMAIN room = DOMAIN kept \ {t}
        /\ \A u \in DOMAIN kept \ {t} : Alike(room[u], kept[u])
    <3>1. minted \in Nat /\ StoreOK(kept, minted)
      BY <1>1, <1>2
    <3>2. StoreOK(Without({t}, kept), minted) /\ Leaves(Without({t}, kept), {t}, kept)
      BY <3>1, WithoutOK
    <3>3. QED BY <2>1, <3>2 DEF Leaves
  <2>3. Cardinality(DOMAIN room) = Cardinality(DOMAIN kept) - 1
    BY <1>4, <2>1, <2>2, FS_RemoveElement
  <2>4. Cardinality(DOMAIN room) < SessionsMax
    BY <1>4, <2>3, TimesAreNat
  <2>5. QED BY <1>2, <2>2, <2>4 DEF Roomy, Alike
<1>7. QED BY <1>5, <1>6

LEMMA CreateFollows ==
  ASSUME StoreInv, NEW record \in Record, Create(record)
  PROVE  Follows(sessions', minted', {record}) /\ minted' = minted + 1
<1>1. PICK room \in Rooms(Pruned(sessions)) : sessions' = Put(minted + 1, Full(record), room)
  BY DEF Create
<1>2. Roomy(room)
  BY RoomMade
<1> DEFINE last == minted + 1
<1>3. /\ minted' = last /\ minted \in Nat /\ last \in Nat /\ minted <= last /\ last \in 1 .. last
      /\ DOMAIN room \subseteq 1 .. minted /\ last \notin DOMAIN room
  BY <1>2 DEF Create, StoreInv, Roomy, StoreOK
<1>4. Full(record) \in SessionEntry /\ Full(record).idle <= Full(record).absolute /\ Full(record).record = record
  BY TimesAreNat DEF Full, SessionEntry, Record
<1>5. StoreOK(room, minted)
  BY <1>2 DEF Roomy
<1>6. ~(last <= minted)
  BY <1>3
<1> HIDE DEF last
<1>7. StoreOK(Put(last, Full(record), room), last) /\ Joins(Put(last, Full(record), room), last, Full(record), room)
  BY <1>3, <1>4, <1>5, PutOK
<1>8. sessions' = Put(last, Full(record), room)
  BY <1>1 DEF last
<1>9. /\ StoreOK(sessions', last) /\ DOMAIN sessions' = DOMAIN room \cup {last}
      /\ \A t \in DOMAIN room : sessions'[t] = room[t]
      /\ sessions'[last].record = record
  BY <1>4, <1>7, <1>8 DEF Joins, Alike
<1>10. Cardinality(DOMAIN sessions') <= SessionsMax
  <2>1. IsFiniteSet(DOMAIN room)
    BY <1>3, <1>5, FewTokens
  <2>2. Cardinality(DOMAIN sessions') = Cardinality(DOMAIN room) + 1
    BY <1>3, <1>9, <2>1, FS_AddElement
  <2>3. Cardinality(DOMAIN room) \in Nat
    BY <2>1, FS_CardinalityType
  <2>4. QED BY <1>2, <2>2, <2>3, TimesAreNat DEF Roomy
<1>11. \A t \in DOMAIN sessions' :
         /\ t <= minted => t \in DOMAIN sessions /\ (Lives(sessions'[t]) => Lives(sessions[t]))
         /\ sessions'[t].record \in {sessions[u].record : u \in DOMAIN sessions} \cup {record}
  BY <1>2, <1>6, <1>9 DEF Roomy, Alike, Lives
<1>12. QED BY <1>3, <1>9, <1>10, <1>11 DEF Follows, last

-----------------------------------------------------------------------------
(* The login throttle.                                                       *)
LEMMA LimitsAreNat ==
  ASSUME NEW address, NEW name, NEW k \in Scopes(address, name)
  PROVE  Limit(k) \in Nat \ {0} /\ (Len(k) = 2 <=> k = <<address, name>>)
<1>1. {GlobalMax, IpMax, PairMax} \subseteq Nat \ {0}
  BY SecurityAssumption
<1>2. CASE k = <<>>
  BY <1>1, <1>2 DEF Limit
<1>3. CASE k = <<address>>
  BY <1>1, <1>3 DEF Limit
<1>4. CASE k = <<address, name>>
  BY <1>1, <1>4 DEF Limit
<1>5. QED BY <1>2, <1>3, <1>4 DEF Scopes

(* The windows that are left when some are closed.                           *)
Pairs(keys) == {k \in keys : Len(k) = 2}

LEMMA FewerWindows ==
  ASSUME NEW w, WindowsOK(w), NEW new, DOMAIN new \subseteq DOMAIN w,
         \A k \in DOMAIN new : new[k] \in WindowEntry /\ new[k].attempts = w[k].attempts
  PROVE  WindowsOK(new)
<1>1. DOMAIN new \in SUBSET DOMAIN w /\ IsFiniteSet(DOMAIN w) /\ Cardinality(Pairs(DOMAIN w)) <= KeysMax
  BY DEF WindowsOK, Pairs
<1>2. IsFiniteSet(DOMAIN new)
  BY <1>1, FS_Subset
<1>3. Pairs(DOMAIN new) \in SUBSET Pairs(DOMAIN w) /\ Pairs(DOMAIN w) \in SUBSET DOMAIN w
  BY DEF Pairs
<1>4. IsFiniteSet(Pairs(DOMAIN w))
  BY <1>1, <1>3, FS_Subset
<1>5. IsFiniteSet(Pairs(DOMAIN new)) /\ Cardinality(Pairs(DOMAIN new)) <= Cardinality(Pairs(DOMAIN w))
  BY <1>3, <1>4, FS_Subset
<1>6. Cardinality(Pairs(DOMAIN new)) \in Nat /\ Cardinality(Pairs(DOMAIN w)) \in Nat /\ KeysMax \in Nat
  BY <1>4, <1>5, FS_CardinalityType, SecurityAssumption
<1>7. Cardinality(Pairs(DOMAIN new)) <= KeysMax
  BY <1>1, <1>5, <1>6
<1>8. \A k \in DOMAIN new : new[k] \in WindowEntry /\ new[k].attempts <= Limit(k)
  BY DEF WindowsOK
<1>9. QED BY <1>2, <1>7, <1>8 DEF WindowsOK, Pairs

LEMMA OpenWindowsOK ==
  ASSUME WindowsOK(windows)
  PROVE  WindowsOK(OpenWindows)
<1>1. DOMAIN OpenWindows \subseteq DOMAIN windows
  BY DEF OpenWindows
<1>2. \A k \in DOMAIN OpenWindows : OpenWindows[k] \in WindowEntry /\ OpenWindows[k].attempts = windows[k].attempts
  BY DEF OpenWindows, WindowsOK
<1>3. QED BY <1>1, <1>2, FewerWindows

LEMMA ForgivenOK ==
  ASSUME NEW address, NEW name, NEW w, WindowsOK(w)
  PROVE  WindowsOK(Forgiven(address, name, w))
<1> DEFINE f == Forgiven(address, name, w)
<1>1. DOMAIN f \subseteq DOMAIN w
  BY DEF Forgiven
<1>2. \A k \in DOMAIN f : f[k] \in WindowEntry /\ f[k].attempts = w[k].attempts
  BY DEF Forgiven, WindowsOK
<1> HIDE DEF f
<1>3. WindowsOK(f)
  BY <1>1, <1>2, FewerWindows
<1>4. QED BY <1>3 DEF f

LEMMA NoWindowsOK == WindowsOK(<<>>)
<1>1. DOMAIN <<>> = {} /\ Pairs({}) = {}
  BY DEF Pairs
<1>2. IsFiniteSet({}) /\ Cardinality({}) = 0 /\ KeysMax \in Nat
  BY FS_EmptySet, SecurityAssumption
<1>3. QED BY <1>1, <1>2 DEF WindowsOK, Pairs

LEMMA AdmittedOK ==
  ASSUME WindowsOK(windows), NEW address, NEW name
  PROVE  WindowsOK(Admitted(address, name))
<1> DEFINE known == DOMAIN OpenWindows
           pair == <<address, name>>
           new == Admitted(address, name)
<1>1. WindowsOK(OpenWindows) /\ \A k \in known : k \in DOMAIN windows /\ OpenWindows[k] = windows[k]
  BY OpenWindowsOK DEF OpenWindows
<1>2. CASE ~Admits(address, name)
  BY <1>1, <1>2 DEF Admitted
<1>3. CASE Admits(address, name)
  <2>1. /\ DOMAIN new = known \cup Scopes(address, name)
        /\ \A k \in DOMAIN new :
             new[k] = IF k \notin known THEN [attempts |-> 1, left |-> Window]
                      ELSE IF k \in Scopes(address, name) THEN [windows[k] EXCEPT !.attempts = @ + 1]
                      ELSE windows[k]
    BY <1>3 DEF Admitted
  <2>2. /\ pair \in known \/ Cardinality(Pairs(known)) < KeysMax
        /\ \A k \in Scopes(address, name) \cap known : windows[k].attempts < Limit(k)
    BY <1>3 DEF Admits, Pairs
  <2>3. /\ IsFiniteSet(known) /\ Cardinality(Pairs(known)) <= KeysMax
        /\ \A k \in known : windows[k] \in WindowEntry /\ windows[k].attempts <= Limit(k)
    BY <1>1 DEF WindowsOK, Pairs
  <2>4. \A k \in Scopes(address, name) : Limit(k) \in Nat \ {0} /\ (Len(k) = 2 <=> k = pair)
    BY LimitsAreNat
  <2>5. Window \in Nat /\ KeysMax \in Nat
    BY SecurityAssumption
  <2>6. Scopes(address, name) = {<<>>, <<address>>, pair}
    BY DEF Scopes
  <2> HIDE DEF new, known, pair
  <2>7. IsFiniteSet(DOMAIN new)
    <3>1. DOMAIN new = ((known \cup {<<>>}) \cup {<<address>>}) \cup {pair}
      BY <2>1, <2>6, Zenon
    <3>2. IsFiniteSet(known \cup {<<>>})
      BY <2>3, FS_AddElement
    <3>3. IsFiniteSet((known \cup {<<>>}) \cup {<<address>>})
      BY <3>2, FS_AddElement
    <3>4. IsFiniteSet(((known \cup {<<>>}) \cup {<<address>>}) \cup {pair})
      BY <3>3, FS_AddElement
    <3>5. QED BY <3>1, <3>4
  <2>8. \A k \in DOMAIN new : new[k] \in WindowEntry /\ new[k].attempts <= Limit(k)
    <3> SUFFICES ASSUME NEW k \in DOMAIN new PROVE new[k] \in WindowEntry /\ new[k].attempts <= Limit(k)
      OBVIOUS
    <3>1. CASE k \notin known
      <4>1. new[k] = [attempts |-> 1, left |-> Window] /\ k \in Scopes(address, name)
        BY <2>1, <3>1
      <4>2. QED BY <4>1, <2>4, <2>5 DEF WindowEntry
    <3>2. CASE k \in known /\ k \in Scopes(address, name)
      <4>1. new[k] = [windows[k] EXCEPT !.attempts = windows[k].attempts + 1]
        BY <2>1, <3>2
      <4>2. windows[k] \in WindowEntry /\ windows[k].attempts < Limit(k) /\ Limit(k) \in Nat
        BY <2>2, <2>3, <2>4, <3>2
      <4>3. new[k] \in WindowEntry /\ new[k].attempts = windows[k].attempts + 1
        BY <4>1, <4>2 DEF WindowEntry
      <4>4. windows[k].attempts \in Nat
        BY <4>2 DEF WindowEntry
      <4>5. QED BY <4>2, <4>3, <4>4
    <3>3. CASE k \in known /\ k \notin Scopes(address, name)
      BY <2>1, <2>3, <3>3
    <3>4. QED BY <3>1, <3>2, <3>3
  <2>9. Cardinality(Pairs(DOMAIN new)) <= KeysMax
    <3>1. Pairs(DOMAIN new) = Pairs(known) \cup {pair}
      BY <2>1, <2>4, <2>6 DEF Pairs
    <3>2. Pairs(known) \in SUBSET known
      BY DEF Pairs
    <3>3. IsFiniteSet(Pairs(known)) /\ Cardinality(Pairs(known)) \in Nat
      BY <3>2, <2>3, FS_Subset, FS_CardinalityType
    <3>4. CASE pair \in known
      <4>1. pair \in Pairs(known)
        BY <2>4, <2>6, <3>4 DEF Pairs
      <4>2. Pairs(DOMAIN new) = Pairs(known)
        BY <3>1, <4>1
      <4>3. QED BY <4>2, <2>3
    <3>5. CASE pair \notin known
      <4>1. Cardinality(Pairs(known)) < KeysMax /\ pair \notin Pairs(known)
        BY <2>2, <3>2, <3>5
      <4>2. Cardinality(Pairs(DOMAIN new)) = Cardinality(Pairs(known)) + 1
        BY <3>1, <3>3, <4>1, FS_AddElement
      <4>3. QED BY <3>3, <4>1, <4>2, <2>5
    <3>6. QED BY <3>4, <3>5
  <2>10. WindowsOK(new)
    BY <2>7, <2>8, <2>9 DEF WindowsOK, Pairs
  <2>11. QED BY <2>10 DEF new
<1>4. QED BY <1>2, <1>3

-----------------------------------------------------------------------------
(* The account. The invariant says what each step of a thread stands for:     *)
(* which locks it holds, what it knows of the password in use and what it has *)
(* left on the disk.                                                         *)
Counter == {"minutes", "requests", "failures", "records", "commands", "crashes"}

Fit(kind) ==
  CASE kind = "none" -> {"idle"}
    [] kind = "login" -> {"verify", "verified"}
    [] kind = "change" -> {"check", "admit", "write", "adopt"}
    [] kind = "maintain" -> {"check", "admit", "ask"}
    [] kind = "setup" -> {"load", "publish", "adopt", "finish"}
    [] kind = "session" -> {"check", "rotate"}
    [] kind = "logout" -> {"check", "logout"}

Shape == \A h \in Handler : handler[h].step \in Fit(handler[h].kind)

DownIsEmpty ==
  web = "down" => /\ \A h \in Handler : handler[h] = Free
                  /\ lock = None /\ sessions = <<>> /\ memory = NoRecord

Announced == passwd \notin {"finish", "restart"} /\ ~unannounced

MemoryHeld ==
  /\ \A t \in DOMAIN sessions : sessions[t].record = memory /\ memory # NoRecord
  /\ \A h \in Handler :
       /\ handler[h].kind \notin {"none", "setup"} => memory # NoRecord
       /\ handler[h].step = "verified" => handler[h].password = memory
       /\ handler[h].step = "publish" => memory = NoRecord
  /\ Up /\ ~Behind => memory = Current.credential

DiskHeld ==
  /\ \A h \in Handler :
       /\ handler[h].step \in {"adopt", "finish"} => Current.credential # NoRecord
       /\ handler[h].step = "adopt" => handler[h].record # NoRecord
       /\ handler[h].step = "adopt" /\ Announced => handler[h].record = Current.credential
  /\ passwd = "finish" => Current.credential # NoRecord
  /\ StartAlwaysPossible

AccountInv ==
  /\ scenario \in Scenarios /\ spent \in [Counter -> Nat]
  /\ StoreInv /\ WindowsOK(windows) /\ AccountTypeOK
  /\ Shape /\ LockHeld /\ DownIsEmpty /\ MemoryHeld /\ DiskHeld

(* No step brings a session back that had ended.                             *)
OnlyOlder ==
  /\ minted \in Nat /\ minted' \in Nat /\ minted <= minted'
  /\ \A t \in DOMAIN sessions' : t <= minted => t \in DOMAIN sessions /\ (Lives(sessions'[t]) => Lives(sessions[t]))

AccountKept == AccountInv' /\ OnlyOlder

(* One thread goes on.                                                       *)
ThreadMoves(h, new) ==
  /\ handler' \in [Handler -> Thread] /\ handler'[h] = new
  /\ \A g \in Handler \ {h} : handler'[g] = handler[g]

LEMMA FreeIsThread == Free \in Thread /\ Free.step = "idle" /\ Free.kind = "none"
BY DEF Free, Thread, Address, Name, Record, NoRecord

LEMMA DoneMoves ==
  ASSUME handler \in [Handler -> Thread], NEW h \in Handler, Done(h)
  PROVE  ThreadMoves(h, Free)
BY FreeIsThread DEF Done, ThreadMoves

LEMMA BeginMoves ==
  ASSUME handler \in [Handler -> Thread], NEW h \in Handler, NEW new \in Thread,
         handler' = [handler EXCEPT ![h] = new]
  PROVE  ThreadMoves(h, new)
BY DEF ThreadMoves

LEMMA GoMoves ==
  ASSUME handler \in [Handler -> Thread], NEW h \in Handler,
         NEW step \in {"verified", "write", "ask", "publish", "finish", "rotate", "logout", "admit"}, Go(h, step)
  PROVE  /\ ThreadMoves(h, [handler[h] EXCEPT !.step = step])
         /\ [handler[h] EXCEPT !.step = step] \in Thread
<1>1. handler[h] \in Thread
  OBVIOUS
<1>2. [handler[h] EXCEPT !.step = step] \in Thread
  BY <1>1 DEF Thread
<1>3. handler' = [handler EXCEPT ![h] = [handler[h] EXCEPT !.step = step]]
  BY DEF Go
<1>4. QED BY <1>2, <1>3, BeginMoves

LEMMA SpendOK ==
  ASSUME spent \in [Counter -> Nat], NEW c \in Counter, NEW limit, Spend(c, limit)
  PROVE  spent' \in [Counter -> Nat]
BY DEF Spend

LEMMA FaultOK ==
  ASSUME spent \in [Counter -> Nat], NEW outcome, Fault(outcome)
  PROVE  spent' \in [Counter -> Nat]
BY SpendOK DEF Fault, Counter

LEMMA FaultMintOK ==
  ASSUME spent \in [Counter -> Nat], NEW outcome, FaultMint(outcome)
  PROVE  spent' \in [Counter -> Nat] /\ Minted \in Record /\ Minted # NoRecord
<1>1. spent.records \in Nat /\ spent.failures \in Nat
  BY DEF Counter
<1>2. Minted \in Record /\ Minted # NoRecord
  BY <1>1 DEF Minted, Record, NoRecord
<1> DEFINE r == spent.records + 1
           f == IF outcome = "done" THEN spent.failures ELSE spent.failures + 1
<1>3. r \in Nat /\ f \in Nat
  BY <1>1
<1>4. spent' = [spent EXCEPT !.records = r, !.failures = f]
  BY DEF FaultMint
<1> HIDE DEF r, f
<1>5. spent' \in [Counter -> Nat]
  BY <1>3, <1>4 DEF Counter
<1>6. QED BY <1>2, <1>5

(* A thread goes on and leaves the account as it is: what a move to the state *)
(* new must respect.                                                         *)
Calm == UNCHANGED <<memory, web, directory, passwd, unannounced, scenario>>

Stored ==
  /\ Follows(sessions', minted', {memory}) /\ minted' \in Nat /\ minted' >= minted
  /\ memory # NoRecord \/ sessions' = sessions

Locks(h, new) ==
  /\ lock' = h <=> new.step \in Locked
  /\ lock' \in {lock, h, None} /\ (lock' # lock => lock \in {h, None})

Sound(new) ==
  /\ new \in Thread /\ new.step \in Fit(new.kind) /\ new.step \notin {"adopt", "finish"}
  /\ new.kind \notin {"none", "setup"} => memory # NoRecord
  /\ new.step = "verified" => new.password = memory
  /\ new.step = "publish" => memory = NoRecord

LEMMA StoredKept ==
  ASSUME AccountInv, Stored
  PROVE  StoreInv' /\ OnlyOlder
BY DEF AccountInv, Stored, Follows, StoreInv, OnlyOlder

LEMMA ThreadKept ==
  ASSUME AccountInv, Up, Calm, Stored, WindowsOK(windows'), spent' \in [Counter -> Nat],
         NEW h \in Handler, handler[h].step # "adopt", NEW new, ThreadMoves(h, new), Locks(h, new), Sound(new)
  PROVE  AccountKept
<1>1. /\ memory' = memory /\ web' = web /\ directory' = directory /\ passwd' = passwd
      /\ unannounced' = unannounced /\ scenario' = scenario /\ Current' = Current
      /\ StartAlwaysPossible' = StartAlwaysPossible /\ Announced' = Announced /\ Up' = Up
  BY DEF Calm, Current, StartAlwaysPossible, Announced, Up
<1>2. handler' \in [Handler -> Thread] /\ \A g \in Handler : IF g = h THEN handler'[g] = new ELSE handler'[g] = handler[g]
  BY DEF ThreadMoves
<1>3. lock' \in Handler \cup {None}
  BY DEF Locks, AccountInv, AccountTypeOK
<1>4. scenario' \in Scenarios /\ AccountTypeOK'
  BY <1>1, <1>2, <1>3 DEF AccountInv, AccountTypeOK
<1>5. Shape'
  BY <1>2 DEF AccountInv, Shape, Sound
<1>6. LockHeld'
  <2> SUFFICES ASSUME NEW g \in Handler PROVE lock' = g <=> handler'[g].step \in Locked
    BY DEF LockHeld
  <2>1. CASE g = h
    BY <2>1, <1>2 DEF Locks
  <2>2. CASE g # h
    <3>1. lock = g <=> handler[g].step \in Locked
      BY DEF AccountInv, LockHeld
    <3>2. lock' = g <=> lock = g
      BY <2>2, AccountAssumption DEF Locks
    <3>3. QED BY <2>2, <3>1, <3>2, <1>2
  <2>3. QED BY <2>1, <2>2
<1>7. DownIsEmpty'
  BY <1>1 DEF DownIsEmpty, Up
<1>8. MemoryHeld'
  <2>1. \A t \in DOMAIN sessions' : sessions'[t].record = memory' /\ memory' # NoRecord
    <3>1. CASE memory # NoRecord
      BY <1>1, <3>1 DEF AccountInv, MemoryHeld, Stored, Follows
    <3>2. CASE sessions' = sessions
      BY <1>1, <3>2 DEF AccountInv, MemoryHeld
    <3>3. QED BY <3>1, <3>2 DEF Stored
  <2>2. \A g \in Handler :
          /\ handler'[g].kind \notin {"none", "setup"} => memory' # NoRecord
          /\ handler'[g].step = "verified" => handler'[g].password = memory'
          /\ handler'[g].step = "publish" => memory' = NoRecord
    BY <1>1, <1>2 DEF AccountInv, MemoryHeld, Sound
  <2>3. Behind => Behind'
    BY <1>1, <1>2 DEF Behind
  <2>4. Up' /\ ~Behind' => memory' = Current'.credential
    BY <1>1, <2>3 DEF AccountInv, MemoryHeld
  <2>5. QED BY <2>1, <2>2, <2>4 DEF MemoryHeld
<1>9. DiskHeld'
  <2>1. \A g \in Handler :
          /\ handler'[g].step \in {"adopt", "finish"} => Current'.credential # NoRecord
          /\ handler'[g].step = "adopt" => handler'[g].record # NoRecord
          /\ handler'[g].step = "adopt" /\ Announced' => handler'[g].record = Current'.credential
    BY <1>1, <1>2 DEF AccountInv, DiskHeld, Sound
  <2>2. QED BY <1>1, <2>1 DEF AccountInv, DiskHeld
<1>10. QED BY <1>4, <1>5, <1>6, <1>7, <1>8, <1>9, StoredKept DEF AccountKept, AccountInv

LEMMA ThreadSound ==
  ASSUME AccountInv, NEW h \in Handler, handler[h].step \notin {"adopt", "finish"}
  PROVE  Sound(handler[h])
BY DEF AccountInv, AccountTypeOK, Shape, MemoryHeld, Sound

LEMMA FreeSound == Sound(Free)
BY FreeIsThread DEF Sound, Fit

LEMMA ThreadStays ==
  ASSUME AccountInv, UNCHANGED handler, NEW h \in Handler
  PROVE  ThreadMoves(h, handler[h])
BY DEF AccountInv, AccountTypeOK, ThreadMoves

LEMMA LockStays ==
  ASSUME AccountInv, UNCHANGED lock, NEW h \in Handler, NEW new,
         new.step \in Locked <=> handler[h].step \in Locked
  PROVE  Locks(h, new)
BY DEF AccountInv, LockHeld, Locks

LEMMA LockFreed ==
  ASSUME AccountInv, NEW h \in Handler, lock \in {h, None}, lock' = None, NEW new, new.step \notin Locked
  PROVE  Locks(h, new)
BY AccountAssumption DEF Locks

LEMMA LockTaken ==
  ASSUME AccountInv, NEW h \in Handler, lock \in {h, None}, lock' = h, NEW new, new.step \in Locked
  PROVE  Locks(h, new)
BY DEF Locks

LEMMA StoreStays ==
  ASSUME AccountInv, UNCHANGED <<sessions, minted>>
  PROVE  Stored
<1>1. StoreInv /\ sessions' = sessions /\ minted' = minted
  BY DEF AccountInv
<1>2. Follows(sessions, minted, {memory})
  BY <1>1, SameFollows
<1>3. QED BY <1>1, <1>2 DEF Stored, StoreInv

LEMMA StoreUsed ==
  ASSUME AccountInv, memory # NoRecord, UNCHANGED minted, NEW token,
         \/ sessions' = Used(token)
         \/ sessions' = Others(token)
         \/ \E matches \in BOOLEAN : sessions' = Examined(token, matches)
  PROVE  Stored
<1>1. StoreInv /\ minted' = minted /\ minted \in Nat
  BY DEF AccountInv, StoreInv
<1>2. Follows(sessions', minted, {memory})
  <2>1. CASE sessions' = Used(token)
    BY <1>1, <2>1, UsedFollows
  <2>2. CASE sessions' = Others(token)
    BY <1>1, <2>2, OthersFollow
  <2>3. CASE \E matches \in BOOLEAN : sessions' = Examined(token, matches)
    <3>1. PICK matches \in BOOLEAN : sessions' = Examined(token, matches)
      BY <2>3
    <3>2. Follows(Examined(token, matches), minted, {memory})
      BY <1>1, ExaminedFollows
    <3>3. QED BY <3>1, <3>2
  <2>4. QED BY <2>1, <2>2, <2>3
<1>3. QED BY <1>1, <1>2 DEF Stored

LEMMA AddressesFit ==
  ASSUME AccountInv
  PROVE  scenario \in Scenario /\ scenario.addresses \subseteq Address
BY ScenariosAssumption DEF AccountInv, Scenario

LEMMA LoginKeeps ==
  ASSUME AccountInv, NEW h \in Handler, Login(h)
  PROVE  AccountKept
<1>1. /\ Up /\ handler[h].step = "idle" /\ memory # NoRecord /\ UNCHANGED lock /\ Calm
      /\ spent' \in [Counter -> Nat] /\ UNCHANGED <<sessions, minted>>
  BY SpendOK DEF Login, Listens, At, Disk, Store, Calm, AccountInv, Counter
<1>2. PICK a \in scenario.addresses, n \in {"admin", "guest"}, p \in {NoRecord, memory} :
        /\ windows' = Admitted(a, n)
        /\ handler' = IF Admits(a, n) /\ SlotFree
                      THEN [handler EXCEPT ![h] = [Free EXCEPT !.kind = "login", !.step = "verify",
                              !.address = a, !.name = n, !.password = p, !.slot = TRUE]]
                      ELSE handler
  BY DEF Login
<1>3. WindowsOK(windows')
  BY <1>2, AdmittedOK DEF AccountInv
<1>4. Stored
  BY <1>1, StoreStays
<1> DEFINE new == [Free EXCEPT !.kind = "login", !.step = "verify",
                     !.address = a, !.name = n, !.password = p, !.slot = TRUE]
<1>5. CASE handler' = handler
  BY <1>1, <1>3, <1>4, <1>5, ThreadSound, ThreadStays, LockStays, ThreadKept
<1>6. CASE handler' = [handler EXCEPT ![h] = new]
  <2>1. new \in Thread /\ new.step = "verify" /\ new.kind = "login"
    <3>1. a \in Address /\ n \in Name /\ p \in Record
      BY AddressesFit DEF Name, Record, NoRecord, AccountInv, AccountTypeOK
    <3>2. QED BY <3>1, FreeIsThread DEF Thread, Kind
  <2> HIDE DEF new
  <2>2. Sound(new)
    BY <1>1, <2>1 DEF Sound, Fit
  <2>3. ThreadMoves(h, new)
    BY <1>6, <2>1, BeginMoves DEF AccountInv, AccountTypeOK
  <2>4. Locks(h, new)
    BY <1>1, <2>1, LockStays DEF Locked
  <2>5. QED BY <1>1, <1>3, <1>4, <2>2, <2>3, <2>4, ThreadKept
<1>7. QED BY <1>2, <1>5, <1>6

LEMMA LoginVerifyKeeps ==
  ASSUME AccountInv, NEW h \in Handler, LoginVerify(h)
  PROVE  AccountKept
<1>1. /\ Up /\ handler[h].step = "verify" /\ lock = None /\ Calm
      /\ spent' \in [Counter -> Nat] /\ WindowsOK(windows') /\ UNCHANGED <<sessions, minted>>
      /\ handler \in [Handler -> Thread] /\ handler[h] \in Thread
  BY DEF LoginVerify, At, Disk, Calm, securityVars, AccountInv, AccountTypeOK
<1>2. Stored
  BY <1>1, StoreStays
<1>3. handler[h].kind = "login" /\ memory # NoRecord
  BY <1>1 DEF AccountInv, AccountTypeOK, Shape, MemoryHeld, Fit, Thread, Kind
<1>4. CASE Verifies(h)
  <2> DEFINE new == [handler[h] EXCEPT !.step = "verified"]
  <2>1. Go(h, "verified") /\ lock' = h
    BY <1>4 DEF LoginVerify
  <2>2. ThreadMoves(h, new) /\ new \in Thread
    BY <1>1, <2>1, GoMoves
  <2>3. new.step = "verified" /\ new.kind = "login" /\ new.password = handler[h].password
    BY <1>1, <1>3 DEF Thread
  <2> HIDE DEF new
  <2>4. Sound(new)
    BY <1>3, <1>4, <2>2, <2>3 DEF Sound, Fit, Verifies
  <2>5. Locks(h, new)
    BY <1>1, <2>1, <2>3, LockTaken DEF Locked
  <2>6. QED BY <1>1, <1>2, <2>2, <2>4, <2>5, ThreadKept
<1>5. CASE ~Verifies(h)
  <2>1. Done(h) /\ UNCHANGED lock
    BY <1>5 DEF LoginVerify
  <2>2. ThreadMoves(h, Free)
    BY <1>1, <2>1, DoneMoves
  <2>3. Locks(h, Free)
    BY <1>1, <2>1, LockStays, FreeIsThread DEF Locked
  <2>4. QED BY <1>1, <1>2, <2>2, <2>3, FreeSound, ThreadKept
<1>6. QED BY <1>4, <1>5

LEMMA LoginOpensKeeps ==
  ASSUME AccountInv, NEW h \in Handler, LoginOpens(h)
  PROVE  AccountKept
<1>1. /\ Up /\ handler[h].step = "verified" /\ lock \in {h, None} /\ lock' = None /\ Calm /\ Done(h)
      /\ windows' = Forgiven(handler[h].address, handler[h].name, windows)
      /\ Create(handler[h].password) /\ spent' \in [Counter -> Nat] /\ handler \in [Handler -> Thread]
  BY DEF LoginOpens, At, Disk, Calm, AccountInv, AccountTypeOK
<1>2. handler[h].kind = "login" /\ handler[h].password = memory /\ memory # NoRecord /\ memory \in Record
  BY <1>1 DEF AccountInv, AccountTypeOK, Shape, MemoryHeld, Fit, Thread, Kind
<1>3. WindowsOK(windows')
  BY <1>1, ForgivenOK DEF AccountInv
<1>4. Follows(sessions', minted', {memory}) /\ minted' = minted + 1
  BY <1>1, <1>2, CreateFollows DEF AccountInv
<1>5. Stored
  BY <1>2, <1>4 DEF Stored, AccountInv, StoreInv
<1>6. ThreadMoves(h, Free)
  BY <1>1, DoneMoves
<1>7. Locks(h, Free)
  BY <1>1, LockFreed, FreeIsThread DEF Locked
<1>8. QED BY <1>1, <1>3, <1>5, <1>6, <1>7, FreeSound, ThreadKept

LEMMA RequestKeeps ==
  ASSUME AccountInv, NEW h \in Handler, Request(h)
  PROVE  AccountKept
<1>1. /\ Up /\ handler[h].step = "idle" /\ memory # NoRecord /\ UNCHANGED <<lock, minted>> /\ Calm
      /\ spent' \in [Counter -> Nat] /\ WindowsOK(windows') /\ handler \in [Handler -> Thread]
  BY SpendOK DEF Request, Listens, At, Disk, Calm, AccountInv, AccountTypeOK, Counter
<1>2. PICK k \in {"session", "logout", "change", "maintain"}, t \in 1 .. minted, p \in {NoRecord, memory} :
        /\ sessions' = Used(t)
        /\ handler' = IF Holds(t)
                      THEN [handler EXCEPT ![h] = [Free EXCEPT !.kind = k, !.token = t, !.password = p,
                                                     !.step = "check"]]
                      ELSE handler
  BY DEF Request
<1>3. Stored
  BY <1>1, <1>2, StoreUsed
<1> DEFINE new == [Free EXCEPT !.kind = k, !.token = t, !.password = p, !.step = "check"]
<1>4. CASE handler' = handler
  BY <1>1, <1>3, <1>4, ThreadSound, ThreadStays, LockStays, ThreadKept
<1>5. CASE handler' = [handler EXCEPT ![h] = new]
  <2>1. new \in Thread /\ new.step = "check" /\ new.kind = k
    <3>1. p \in Record /\ t \in Nat
      BY DEF Record, NoRecord, AccountInv, AccountTypeOK, StoreInv
    <3>2. QED BY <3>1, FreeIsThread DEF Thread, Kind
  <2> HIDE DEF new
  <2>2. Sound(new)
    BY <1>1, <2>1 DEF Sound, Fit
  <2>3. ThreadMoves(h, new)
    BY <1>1, <1>5, <2>1, BeginMoves
  <2>4. Locks(h, new)
    BY <1>1, <2>1, LockStays DEF Locked
  <2>5. QED BY <1>1, <1>3, <2>2, <2>3, <2>4, ThreadKept
<1>6. QED BY <1>2, <1>4, <1>5

(* A thread that knows of a session is at work in a process with an account. *)
LEMMA KindsAtSteps ==
  ASSUME AccountInv, NEW h \in Handler
  PROVE  /\ handler \in [Handler -> Thread] /\ handler[h] \in Thread
         /\ handler[h].step = "check" => handler[h].kind \in {"change", "maintain", "session", "logout"}
         /\ handler[h].step = "rotate" => handler[h].kind = "session"
         /\ handler[h].step = "logout" => handler[h].kind = "logout"
         /\ handler[h].step = "admit" => handler[h].kind \in {"change", "maintain"}
         /\ handler[h].step = "ask" => handler[h].kind = "maintain"
         /\ handler[h].step = "write" => handler[h].kind = "change"
         /\ handler[h].step = "adopt" => handler[h].kind \in {"change", "setup"}
         /\ handler[h].step \in {"load", "publish", "finish"} => handler[h].kind = "setup"
         /\ handler[h].kind \in {"change", "maintain", "session", "logout"} => memory # NoRecord
<1>1. handler \in [Handler -> Thread] /\ handler[h] \in Thread /\ handler[h].step \in Fit(handler[h].kind)
  BY DEF AccountInv, AccountTypeOK, Shape
<1>2. handler[h].kind \in Kind \cup {"none"}
  BY <1>1 DEF Thread
<1>3. handler[h].kind \notin {"none", "setup"} => memory # NoRecord
  BY DEF AccountInv, MemoryHeld
<1>4. QED BY <1>1, <1>2, <1>3 DEF Fit, Kind

(* A thread whose step changes, or that is done.                             *)
LEMMA GoKeeps ==
  ASSUME AccountInv, Up, Calm, Stored, WindowsOK(windows'), spent' \in [Counter -> Nat],
         NEW h \in Handler, handler[h].step # "adopt",
         NEW step \in {"rotate", "logout", "admit", "write", "ask", "publish"}, Go(h, step),
         step \in Fit(handler[h].kind), step = "publish" => memory = NoRecord,
         IF step \in Locked THEN lock \in {h, None} /\ lock' = h
         ELSE UNCHANGED lock /\ handler[h].step \notin Locked
  PROVE  AccountKept
<1> DEFINE new == [handler[h] EXCEPT !.step = step]
<1>1. handler \in [Handler -> Thread] /\ handler[h] \in Thread
  BY KindsAtSteps
<1>2. ThreadMoves(h, new) /\ new \in Thread
  BY <1>1, GoMoves
<1>3. new.step = step /\ new.kind = handler[h].kind
  BY <1>1 DEF Thread
<1> HIDE DEF new
<1>4. Sound(new)
  BY <1>2, <1>3 DEF Sound, AccountInv, MemoryHeld
<1>5. Locks(h, new)
  <2>1. CASE step \in Locked
    BY <2>1, <1>3, LockTaken
  <2>2. CASE step \notin Locked
    BY <2>2, <1>3, LockStays
  <2>3. QED BY <2>1, <2>2
<1>6. QED BY <1>2, <1>4, <1>5, ThreadKept

LEMMA DoneKeeps ==
  ASSUME AccountInv, Up, Calm, Stored, WindowsOK(windows'), spent' \in [Counter -> Nat],
         NEW h \in Handler, handler[h].step # "adopt", Done(h),
         \/ UNCHANGED lock /\ handler[h].step \notin Locked
         \/ lock \in {h, None} /\ lock' = None
  PROVE  AccountKept
<1>1. ThreadMoves(h, Free)
  BY KindsAtSteps, DoneMoves
<1>2. Free.step \notin Locked
  BY FreeIsThread DEF Locked
<1>3. Locks(h, Free)
  BY <1>2, LockStays, LockFreed
<1>4. QED BY <1>1, <1>3, FreeSound, ThreadKept

LEMMA CheckCsrfKeeps ==
  ASSUME AccountInv, NEW h \in Handler, CheckCsrf(h)
  PROVE  AccountKept
<1>1. /\ Up /\ handler[h].step = "check" /\ UNCHANGED <<lock, minted>> /\ Calm
      /\ spent' \in [Counter -> Nat] /\ WindowsOK(windows')
  BY DEF CheckCsrf, At, Disk, Calm, AccountInv
<1>2. handler[h].kind \in {"change", "maintain", "session", "logout"} /\ memory # NoRecord
  BY <1>1, KindsAtSteps
<1>3. PICK matches \in BOOLEAN :
        LET valid == Holds(handler[h].token) /\ matches IN
        /\ sessions' = Examined(handler[h].token, matches)
        /\ IF handler[h].kind = "session" THEN IF valid THEN Done(h) ELSE Go(h, "rotate")
           ELSE IF ~valid THEN Done(h)
           ELSE Go(h, IF handler[h].kind = "logout" THEN "logout" ELSE "admit")
  BY DEF CheckCsrf
<1>4. Stored
  BY <1>1, <1>2, <1>3, StoreUsed
<1>5. handler[h].step \notin Locked /\ handler[h].step # "adopt"
  BY <1>1 DEF Locked
<1>6. CASE Done(h)
  BY <1>1, <1>4, <1>5, <1>6, DoneKeeps
<1>7. CASE ~Done(h)
  <2>1. PICK step \in {"rotate", "logout", "admit"} : Go(h, step) /\ step \in Fit(handler[h].kind)
    BY <1>2, <1>3, <1>7 DEF Fit
  <2>2. step \notin Locked
    BY DEF Locked
  <2>3. QED BY <1>1, <1>4, <1>5, <2>1, <2>2, GoKeeps
<1>8. QED BY <1>6, <1>7

LEMMA SessionRotateKeeps ==
  ASSUME AccountInv, NEW h \in Handler, SessionRotate(h)
  PROVE  AccountKept
<1>1. /\ Up /\ handler[h].step = "rotate" /\ UNCHANGED lock /\ Calm /\ Done(h) /\ Rotate(handler[h].token)
      /\ spent' \in [Counter -> Nat] /\ WindowsOK(windows')
  BY DEF SessionRotate, At, Disk, Calm, AccountInv
<1>2. memory # NoRecord
  BY <1>1, KindsAtSteps
<1>3. Stored
  BY <1>1, <1>2, RotateFollows DEF Stored, AccountInv
<1>4. QED BY <1>1, <1>3, DoneKeeps DEF Locked

LEMMA LogoutKeeps ==
  ASSUME AccountInv, NEW h \in Handler, Logout(h)
  PROVE  AccountKept
<1>1. /\ Up /\ handler[h].step = "logout" /\ UNCHANGED <<lock, minted>> /\ Calm /\ Done(h)
      /\ sessions' = Others(handler[h].token) /\ spent' \in [Counter -> Nat] /\ WindowsOK(windows')
  BY DEF Logout, At, Disk, Calm, AccountInv
<1>2. memory # NoRecord
  BY <1>1, KindsAtSteps
<1>3. Stored
  BY <1>1, <1>2, StoreUsed
<1>4. QED BY <1>1, <1>3, DoneKeeps DEF Locked

LEMMA ReauthorizeKeeps ==
  ASSUME AccountInv, NEW h \in Handler, Reauthorize(h)
  PROVE  AccountKept
<1> DEFINE r == handler[h]
           in == Holds(r.token)
           checks == in /\ Admits(r.address, r.name) /\ SlotFree
<1>1. /\ Up /\ handler[h].step = "admit" /\ lock = None /\ UNCHANGED minted /\ Calm
      /\ spent' \in [Counter -> Nat] /\ sessions' = Used(r.token)
  BY DEF Reauthorize, At, Disk, Calm, AccountInv
<1>2. windows' = IF ~in THEN windows
                 ELSE IF checks /\ Verifies(h) THEN Forgiven(r.address, r.name, Admitted(r.address, r.name))
                 ELSE Admitted(r.address, r.name)
  BY DEF Reauthorize
<1>3. IF checks /\ Verifies(h) THEN lock' = h /\ Go(h, IF r.kind = "change" THEN "write" ELSE "ask")
      ELSE Done(h) /\ UNCHANGED lock
  BY DEF Reauthorize
<1>4. handler[h].kind \in {"change", "maintain"} /\ memory # NoRecord
  BY <1>1, KindsAtSteps
<1> HIDE DEF checks, in
<1>5. WindowsOK(windows')
  <2>1. WindowsOK(Admitted(r.address, r.name))
    BY AdmittedOK DEF AccountInv
  <2>2. WindowsOK(Forgiven(r.address, r.name, Admitted(r.address, r.name)))
    BY <2>1, ForgivenOK
  <2>3. QED BY <1>2, <2>1, <2>2 DEF AccountInv
<1>6. Stored
  BY <1>1, <1>4, StoreUsed
<1>7. CASE checks /\ Verifies(h)
  <2>1. PICK step \in {"write", "ask"} : Go(h, step) /\ step \in Fit(handler[h].kind)
    BY <1>3, <1>4, <1>7 DEF Fit
  <2>2. step \in Locked /\ lock' = h
    BY <1>3, <1>7 DEF Locked
  <2>3. QED BY <1>1, <1>5, <1>6, <2>1, <2>2, GoKeeps
<1>8. CASE ~(checks /\ Verifies(h))
  BY <1>1, <1>3, <1>5, <1>6, <1>8, DoneKeeps DEF Locked
<1>9. QED BY <1>7, <1>8

LEMMA MaintenanceAskedKeeps ==
  ASSUME AccountInv, NEW h \in Handler, MaintenanceAsked(h)
  PROVE  AccountKept
<1>1. /\ Up /\ handler[h].step = "ask" /\ lock' = None /\ Done(h) /\ Calm /\ UNCHANGED <<sessions, minted>>
      /\ spent' \in [Counter -> Nat] /\ WindowsOK(windows')
  BY DEF MaintenanceAsked, At, Disk, Calm, securityVars, AccountInv
<1>2. lock = h
  BY <1>1 DEF AccountInv, LockHeld, Locked
<1>3. QED BY <1>1, <1>2, StoreStays, DoneKeeps

LEMMA SetupKeeps ==
  ASSUME AccountInv, NEW h \in Handler, Setup(h)
  PROVE  AccountKept
<1>1. /\ Up /\ handler[h].step = "idle" /\ memory = NoRecord /\ UNCHANGED lock /\ Calm
      /\ spent' \in [Counter -> Nat] /\ UNCHANGED <<sessions, minted>>
  BY SpendOK DEF Setup, Listens, At, Disk, Store, Calm, AccountInv, Counter
<1>2. PICK a \in scenario.addresses :
        /\ windows' = Admitted(a, "first_setup")
        /\ handler' = IF Admits(a, "first_setup") /\ SlotFree
                      THEN [handler EXCEPT ![h] = [Free EXCEPT !.kind = "setup", !.step = "load",
                              !.address = a, !.name = "first_setup", !.slot = TRUE]]
                      ELSE handler
  BY DEF Setup
<1>3. WindowsOK(windows')
  BY <1>2, AdmittedOK DEF AccountInv
<1>4. Stored
  BY <1>1, StoreStays
<1> DEFINE new == [Free EXCEPT !.kind = "setup", !.step = "load",
                     !.address = a, !.name = "first_setup", !.slot = TRUE]
<1>5. CASE handler' = handler
  BY <1>1, <1>3, <1>4, <1>5, ThreadSound, ThreadStays, LockStays, ThreadKept
<1>6. CASE handler' = [handler EXCEPT ![h] = new]
  <2>1. new \in Thread /\ new.step = "load" /\ new.kind = "setup"
    <3>1. a \in Address /\ "first_setup" \in Name
      BY AddressesFit DEF Name
    <3>2. QED BY <3>1, FreeIsThread DEF Thread, Kind
  <2> HIDE DEF new
  <2>2. Sound(new)
    BY <1>1, <2>1 DEF Sound, Fit
  <2>3. ThreadMoves(h, new)
    BY <1>6, <2>1, BeginMoves DEF AccountInv, AccountTypeOK
  <2>4. Locks(h, new)
    BY <1>1, <2>1, LockStays DEF Locked
  <2>5. QED BY <1>1, <1>3, <1>4, <2>2, <2>3, <2>4, ThreadKept
<1>7. QED BY <1>2, <1>5, <1>6

-----------------------------------------------------------------------------
(* What a step leaves of the directory of the credential: it can be started   *)
(* from, and an account in it stays one.                                     *)
DirectoryOK ==
  /\ directory' \in Seq(Directory) /\ directory' # <<>> /\ StartAlwaysPossible'
  /\ Current.credential # NoRecord => Current'.credential # NoRecord

LEMMA CurrentIsThere ==
  ASSUME NEW d \in Seq(Directory), d # <<>>
  PROVE  Last(d) \in Directory /\ Last(d) \in Range(d)
BY DEF Last, Range

LEMMA ChangesOK ==
  ASSUME directory \in Seq(Directory), directory # <<>>, StartAlwaysPossible,
         NEW outcome \in Outcome, NEW d \in Directory, Startable(d), Changes(outcome, d)
  PROVE  /\ directory' \in Seq(Directory) /\ directory' # <<>> /\ StartAlwaysPossible'
         /\ Current' = IF outcome = "failed" THEN Current ELSE d
<1>1. CASE outcome = "failed"
  BY <1>1 DEF Changes, Current, StartAlwaysPossible
<1>2. CASE outcome = "uncertain"
  <2>1. directory' = Append(directory, d)
    BY <1>2 DEF Changes
  <2>2. /\ directory' \in Seq(Directory) /\ Len(directory') = Len(directory) + 1 /\ directory'[Len(directory')] = d
        /\ \A i \in 1 .. Len(directory) : directory'[i] = directory[i]
    BY <2>1
  <2>3. \A e \in Range(directory') : e \in Range(directory) \/ e = d
    BY <2>2 DEF Range
  <2>4. StartAlwaysPossible'
    BY <2>3 DEF StartAlwaysPossible
  <2>5. QED BY <1>2, <2>2, <2>4 DEF Current, Last
<1>3. CASE outcome = "done"
  <2>1. directory' = <<d>>
    BY <1>3 DEF Changes
  <2>2. Range(<<d>>) = {d} /\ Last(<<d>>) = d
    BY DEF Range, Last
  <2>3. StartAlwaysPossible'
    BY <2>1, <2>2 DEF StartAlwaysPossible
  <2>4. QED BY <1>3, <2>1, <2>2, <2>3 DEF Current
<1>4. QED BY <1>1, <1>2, <1>3 DEF Outcome

LEMMA CredentialChanged ==
  ASSUME directory \in Seq(Directory), directory # <<>>, StartAlwaysPossible,
         NEW outcome \in Outcome, NEW credential \in Record, credential # NoRecord,
         Changes(outcome, [Current EXCEPT !.credential = credential])
  PROVE  /\ DirectoryOK
         /\ Current'.credential = IF outcome = "failed" THEN Current.credential ELSE credential
<1> DEFINE d == [Current EXCEPT !.credential = credential]
<1>1. Current \in Directory
  BY CurrentIsThere DEF Current
<1>2. d \in Directory /\ d.credential = credential
  BY <1>1 DEF Directory
<1>3. Startable(d)
  BY <1>2 DEF Startable
<1> HIDE DEF d
<1>4. Changes(outcome, d)
  BY DEF d
<1>5. /\ directory' \in Seq(Directory) /\ directory' # <<>> /\ StartAlwaysPossible'
      /\ Current' = IF outcome = "failed" THEN Current ELSE d
  BY <1>2, <1>3, <1>4, ChangesOK
<1>6. QED BY <1>2, <1>5 DEF DirectoryOK

LEMMA MarkerFinished ==
  ASSUME directory \in Seq(Directory), directory # <<>>, StartAlwaysPossible,
         NEW outcome \in Outcome, Finishing(outcome), Current.credential # NoRecord
  PROVE  DirectoryOK /\ Current'.credential = Current.credential
<1> DEFINE d == [Current EXCEPT !.marker = FALSE]
<1>1. Current \in Directory
  BY CurrentIsThere DEF Current
<1>2. d \in Directory /\ d.credential = Current.credential
  BY <1>1 DEF Directory
<1>3. Startable(d)
  BY <1>2 DEF Startable
<1> HIDE DEF d
<1>4. CASE Current.marker
  <2>1. Changes(outcome, d)
    BY <1>4 DEF Finishing, d
  <2>2. /\ directory' \in Seq(Directory) /\ directory' # <<>> /\ StartAlwaysPossible'
        /\ Current' = IF outcome = "failed" THEN Current ELSE d
    BY <1>2, <1>3, <2>1, ChangesOK
  <2>3. QED BY <1>2, <2>2 DEF DirectoryOK
<1>5. CASE ~Current.marker
  <2>1. directory' = directory
    BY <1>5 DEF Finishing
  <2>2. QED BY <2>1 DEF DirectoryOK, Current, StartAlwaysPossible
<1>6. QED BY <1>4, <1>5

LEMMA DirectoryStays ==
  ASSUME AccountInv, UNCHANGED directory
  PROVE  DirectoryOK /\ Current' = Current
BY DEF AccountInv, AccountTypeOK, DiskHeld, DirectoryOK, Current, StartAlwaysPossible

(* A thread that holds the lock, or for which it is free, changes the         *)
(* account: nobody else is at a step that depends on it.                     *)
Changed(new) ==
  /\ new \in Thread /\ new.step \in Fit(new.kind) /\ new.step \notin {"verified", "publish"}
  /\ memory' \in Record /\ (memory # NoRecord => memory' # NoRecord)
  /\ new.kind \notin {"none", "setup"} => memory' # NoRecord
  /\ sessions' = <<>> \/ (sessions' = sessions /\ (memory' = memory \/ memory = NoRecord))
  /\ new.step \in {"adopt", "finish"} => Current'.credential # NoRecord
  /\ new.step = "adopt" /\ Announced => new.record = Current'.credential
  /\ new.step = "adopt" => new.record # NoRecord
  /\ Announced /\ new.step # "adopt" => memory' = Current'.credential

LEMMA ChangeKept ==
  ASSUME AccountInv, Up, UNCHANGED <<web, passwd, unannounced, scenario, minted, windows>>, spent' \in [Counter -> Nat],
         NEW h \in Handler, lock \in {h, None}, NEW new, ThreadMoves(h, new), Locks(h, new), DirectoryOK, Changed(new)
  PROVE  AccountKept
<1>1. \A g \in Handler \ {h} : handler'[g] = handler[g] /\ handler[g].step \notin Locked
  BY AccountAssumption DEF AccountInv, LockHeld, ThreadMoves
<1>2. handler' \in [Handler -> Thread] /\ handler'[h] = new
  BY DEF ThreadMoves
<1>3. lock' \in Handler \cup {None}
  BY DEF Locks
<1>4. AccountTypeOK' /\ scenario' \in Scenarios
  BY <1>2, <1>3 DEF AccountInv, AccountTypeOK, DirectoryOK, Changed
<1>5. Shape'
  BY <1>1, <1>2 DEF AccountInv, Shape, Changed
<1>6. LockHeld'
  <2>1. \A g \in Handler \ {h} : lock' # g
    BY AccountAssumption DEF Locks
  <2>2. QED BY <1>1, <1>2, <2>1 DEF LockHeld, Locks
<1>7. DownIsEmpty'
  BY DEF DownIsEmpty, Up
<1>8. MemoryHeld'
  <2>1. \A t \in DOMAIN sessions' : sessions'[t].record = memory' /\ memory' # NoRecord
    BY DEF AccountInv, MemoryHeld, Changed
  <2>2. \A g \in Handler :
          /\ handler'[g].kind \notin {"none", "setup"} => memory' # NoRecord
          /\ handler'[g].step = "verified" => handler'[g].password = memory'
          /\ handler'[g].step = "publish" => memory' = NoRecord
    BY <1>1, <1>2 DEF AccountInv, MemoryHeld, Changed, Locked
  <2>3. ~Behind' => Announced /\ new.step # "adopt"
    BY <1>2 DEF Behind, Announced
  <2>4. Up' /\ ~Behind' => memory' = Current'.credential
    BY <2>3 DEF Changed
  <2>5. QED BY <2>1, <2>2, <2>4 DEF MemoryHeld
<1>9. DiskHeld'
  <2>1. Announced' = Announced
    BY DEF Announced
  <2>2. \A g \in Handler :
          /\ handler'[g].step \in {"adopt", "finish"} => Current'.credential # NoRecord
          /\ handler'[g].step = "adopt" => handler'[g].record # NoRecord
          /\ handler'[g].step = "adopt" /\ Announced' => handler'[g].record = Current'.credential
    BY <1>1, <1>2, <2>1 DEF Changed, Locked
  <2>3. passwd' = "finish" => Current'.credential # NoRecord
    BY DEF AccountInv, DiskHeld, DirectoryOK
  <2>4. QED BY <2>2, <2>3 DEF DiskHeld, DirectoryOK
<1>10. StoreInv' /\ OnlyOlder
  <2>1. CASE sessions' = sessions
    <3>1. minted' = minted
      OBVIOUS
    <3>2. QED BY <2>1, <3>1 DEF AccountInv, StoreInv, OnlyOlder
  <2>2. CASE sessions' = <<>>
    <3>1. Follows(<<>>, minted, {}) /\ minted' = minted /\ minted \in Nat
      BY NoneFollows DEF AccountInv, StoreInv
    <3>2. QED BY <2>2, <3>1 DEF Follows, StoreInv, OnlyOlder
  <2>3. QED BY <2>1, <2>2 DEF Changed
<1>11. WindowsOK(windows')
  BY DEF AccountInv
<1>12. QED BY <1>4, <1>5, <1>6, <1>7, <1>8, <1>9, <1>10, <1>11 DEF AccountKept, AccountInv

(* While nobody adopts a credential and the command is not through, the       *)
(* process uses the credential of the disk.                                  *)
LEMMA NobodyAdopts ==
  ASSUME AccountInv, Up, NEW h \in Handler, lock \in {h, None}, handler[h].step # "adopt", Announced
  PROVE  memory = Current.credential
<1>1. \A g \in Handler : handler[g].step # "adopt"
  BY AccountAssumption DEF AccountInv, LockHeld, Locked
<1>2. ~Behind
  BY <1>1 DEF Behind, Announced
<1>3. QED BY <1>2 DEF AccountInv, MemoryHeld

LEMMA AdoptMoves ==
  ASSUME AccountInv, NEW h \in Handler, NEW record \in Record,
         handler' = [handler EXCEPT ![h].step = "adopt", ![h].record = record]
  PROVE  \E new \in Thread : ThreadMoves(h, new) /\ new.step = "adopt" /\ new.record = record /\ new.kind = handler[h].kind
<1> DEFINE new == [handler[h] EXCEPT !.step = "adopt", !.record = record]
<1>1. handler \in [Handler -> Thread] /\ handler[h] \in Thread
  BY KindsAtSteps
<1>2. new \in Thread /\ new.step = "adopt" /\ new.record = record /\ new.kind = handler[h].kind
  BY <1>1 DEF Thread
<1>3. handler' = [handler EXCEPT ![h] = new]
  BY <1>1
<1> HIDE DEF new
<1>4. ThreadMoves(h, new)
  BY <1>1, <1>2, <1>3, BeginMoves
<1>5. QED BY <1>2, <1>4

(* Both writers of a credential: it is on the disk before it is adopted.     *)
LEMMA CredentialWritten ==
  ASSUME AccountInv, Up, UNCHANGED <<web, passwd, unannounced, scenario, minted, windows, sessions, memory>>,
         NEW h \in Handler, handler[h].step \in {"write", "publish"}, "adopt" \in Fit(handler[h].kind),
         NEW outcome \in Outcome, FaultMint(outcome), Changes(outcome, [Current EXCEPT !.credential = Minted]),
         IF outcome = "failed" THEN Done(h) /\ lock' = None
         ELSE UNCHANGED lock /\ handler' = [handler EXCEPT ![h].step = "adopt", ![h].record = Minted]
  PROVE  AccountKept
<1>1. /\ spent' \in [Counter -> Nat] /\ Minted \in Record /\ Minted # NoRecord
  BY FaultMintOK DEF AccountInv
<1>2. DirectoryOK /\ Current'.credential = IF outcome = "failed" THEN Current.credential ELSE Minted
  BY <1>1, CredentialChanged DEF AccountInv, AccountTypeOK, DiskHeld
<1>3. lock = h /\ handler[h].step # "adopt" /\ memory \in Record
  BY DEF AccountInv, AccountTypeOK, LockHeld, Locked
<1>4. handler \in [Handler -> Thread]
  BY KindsAtSteps
<1>5. CASE outcome = "failed"
  <2>1. ThreadMoves(h, Free)
    BY <1>4, <1>5, DoneMoves
  <2>2. Locks(h, Free)
    BY <1>3, <1>5, LockFreed, FreeIsThread DEF Locked
  <2>3. Changed(Free)
    BY <1>2, <1>3, <1>5, NobodyAdopts, FreeIsThread DEF Changed, Fit
  <2>4. QED BY <1>1, <1>2, <1>3, <2>1, <2>2, <2>3, ChangeKept
<1>6. CASE outcome # "failed"
  <2>1. PICK new \in Thread : /\ ThreadMoves(h, new) /\ new.step = "adopt" /\ new.record = Minted
                              /\ new.kind = handler[h].kind
    BY <1>1, <1>6, AdoptMoves
  <2>2. Locks(h, new)
    BY <1>3, <1>6, <2>1, LockTaken DEF Locked
  <2>3. Changed(new)
    BY <1>1, <1>2, <1>3, <1>6, <2>1 DEF Changed, AccountInv, MemoryHeld
  <2>4. QED BY <1>1, <1>2, <1>3, <2>1, <2>2, <2>3, ChangeKept
<1>7. QED BY <1>5, <1>6

LEMMA PasswordWriteKeeps ==
  ASSUME AccountInv, NEW h \in Handler, PasswordWrite(h)
  PROVE  AccountKept
<1>1. /\ Up /\ handler[h].step = "write"
      /\ UNCHANGED <<web, passwd, unannounced, scenario, minted, windows, sessions, memory>>
  BY DEF PasswordWrite, At
<1>2. "adopt" \in Fit(handler[h].kind)
  BY <1>1, KindsAtSteps DEF Fit
<1>3. PICK outcome \in Outcome :
        /\ FaultMint(outcome) /\ Changes(outcome, [Current EXCEPT !.credential = Minted])
        /\ IF outcome = "failed" THEN Done(h) /\ lock' = None
           ELSE UNCHANGED lock /\ handler' = [handler EXCEPT ![h].step = "adopt", ![h].record = Minted]
  BY DEF PasswordWrite
<1>4. QED BY <1>1, <1>2, <1>3, CredentialWritten

LEMMA AdoptKeeps ==
  ASSUME AccountInv, NEW h \in Handler, Adopt(h)
  PROVE  AccountKept
<1>1. /\ Up /\ handler[h].step = "adopt" /\ memory' = handler[h].record /\ sessions' = <<>>
      /\ UNCHANGED <<web, passwd, unannounced, scenario, minted, windows, spent, directory>>
  BY DEF Adopt, At, RevokeAll, Disk
<1>2. /\ lock = h /\ handler[h].record # NoRecord /\ handler[h].record \in Record /\ spent' \in [Counter -> Nat]
      /\ Current.credential # NoRecord /\ (Announced => handler[h].record = Current.credential)
  BY <1>1, KindsAtSteps DEF AccountInv, LockHeld, Locked, DiskHeld, Thread
<1>3. DirectoryOK /\ Current' = Current
  BY <1>1, DirectoryStays
<1>4. handler \in [Handler -> Thread] /\ handler[h] \in Thread
  BY KindsAtSteps
<1>5. CASE handler[h].kind = "setup"
  <2> DEFINE new == [handler[h] EXCEPT !.step = "finish"]
  <2>1. Go(h, "finish") /\ UNCHANGED lock
    BY <1>5 DEF Adopt
  <2>2. ThreadMoves(h, new) /\ new \in Thread
    BY <1>4, <2>1, GoMoves
  <2>3. new.step = "finish" /\ new.kind = "setup"
    BY <1>4, <1>5 DEF Thread
  <2> HIDE DEF new
  <2>4. Locks(h, new)
    BY <1>2, <2>1, <2>3, LockTaken DEF Locked
  <2>5. Changed(new)
    BY <1>1, <1>2, <1>3, <2>2, <2>3 DEF Changed, Fit
  <2>6. QED BY <1>1, <1>2, <1>3, <2>2, <2>4, <2>5, ChangeKept
<1>6. CASE handler[h].kind # "setup"
  <2>1. Done(h) /\ lock' = None
    BY <1>6 DEF Adopt
  <2>2. ThreadMoves(h, Free)
    BY <1>4, <2>1, DoneMoves
  <2>3. Locks(h, Free)
    BY <1>2, <2>1, LockFreed, FreeIsThread DEF Locked
  <2>4. Changed(Free)
    BY <1>1, <1>2, <1>3, FreeIsThread DEF Changed, Fit
  <2>5. QED BY <1>1, <1>2, <1>3, <2>2, <2>3, <2>4, ChangeKept
<1>7. QED BY <1>5, <1>6

LEMMA SetupLoadKeeps ==
  ASSUME AccountInv, NEW h \in Handler, SetupLoad(h)
  PROVE  AccountKept
<1>1. /\ Up /\ handler[h].step = "load" /\ lock = None /\ handler[h].kind = "setup"
      /\ UNCHANGED <<sessions, minted, windows, web, scenario, passwd, unannounced>>
      /\ handler \in [Handler -> Thread] /\ handler[h].step \notin Locked
  BY KindsAtSteps DEF SetupLoad, At, Locked
<1>2. CASE Current.credential # NoRecord
  <2>1. PICK outcome \in Outcome :
          /\ Finishing(outcome) /\ Fault(outcome) /\ Done(h) /\ UNCHANGED lock
          /\ memory' = IF memory # NoRecord THEN memory
                       ELSE IF outcome = "done" THEN Current.credential ELSE NoRecord
    BY <1>2 DEF SetupLoad
  <2>2. DirectoryOK /\ Current'.credential = Current.credential
    BY <1>2, <2>1, MarkerFinished DEF AccountInv, AccountTypeOK, DiskHeld
  <2>3. spent' \in [Counter -> Nat]
    BY <2>1, FaultOK DEF AccountInv
  <2>4. ThreadMoves(h, Free)
    BY <1>1, <2>1, DoneMoves
  <2>5. Locks(h, Free)
    BY <1>1, <2>1, LockStays, FreeIsThread DEF Locked
  <2>6. memory \in Record /\ Current.credential \in Record
    BY CurrentIsThere DEF AccountInv, AccountTypeOK, Current, Directory
  <2>7. Announced => memory = Current.credential
    BY <1>1, NobodyAdopts
  <2>8. Changed(Free)
    BY <1>1, <1>2, <2>1, <2>2, <2>6, <2>7, FreeIsThread DEF Changed, Fit
  <2>9. QED BY <1>1, <2>2, <2>3, <2>4, <2>5, <2>8, ChangeKept
<1>3. CASE Current.credential = NoRecord
  <2>1. UNCHANGED <<directory, memory, spent>>
    BY <1>3 DEF SetupLoad
  <2>2. Calm /\ Stored /\ WindowsOK(windows') /\ spent' \in [Counter -> Nat]
    BY <1>1, <2>1, StoreStays DEF Calm, AccountInv
  <2>3. CASE memory # NoRecord \/ ~Current.marker
    <3>1. Done(h) /\ UNCHANGED lock
      BY <1>3, <2>3 DEF SetupLoad
    <3>2. QED BY <1>1, <2>2, <3>1, DoneKeeps
  <2>4. CASE ~(memory # NoRecord \/ ~Current.marker)
    <3>1. Go(h, "publish") /\ lock' = h
      BY <1>3, <2>4 DEF SetupLoad
    <3>2. "publish" \in Fit(handler[h].kind) /\ "publish" \in Locked /\ memory = NoRecord
      BY <1>1, <2>4 DEF Fit, Locked
    <3>3. QED BY <1>1, <2>2, <3>1, <3>2, GoKeeps
  <2>5. QED BY <2>3, <2>4
<1>4. QED BY <1>2, <1>3

LEMMA SetupPublishKeeps ==
  ASSUME AccountInv, NEW h \in Handler, SetupPublish(h)
  PROVE  AccountKept
<1>1. /\ Up /\ handler[h].step = "publish"
      /\ UNCHANGED <<sessions, minted, windows, web, scenario, passwd, unannounced>>
  BY DEF SetupPublish, At
<1>2. /\ handler[h].kind = "setup" /\ handler \in [Handler -> Thread]
      /\ lock = h /\ memory = NoRecord
  BY <1>1, KindsAtSteps DEF AccountInv, LockHeld, Locked, MemoryHeld
<1>3. CASE Publishable
  <2>1. PICK outcome \in Outcome :
          /\ FaultMint(outcome) /\ Changes(outcome, [Current EXCEPT !.credential = Minted])
          /\ IF outcome = "failed" THEN Done(h) /\ lock' = None
             ELSE UNCHANGED lock /\ handler' = [handler EXCEPT ![h].step = "adopt", ![h].record = Minted]
          /\ UNCHANGED memory
    BY <1>3 DEF SetupPublish
  <2>2. "adopt" \in Fit(handler[h].kind)
    BY <1>2 DEF Fit
  <2>3. QED BY <1>1, <2>1, <2>2, CredentialWritten
<1>4. CASE ~Publishable
  <2>1. UNCHANGED <<directory, spent>> /\ memory' = Current.credential /\ lock' = None /\ Done(h)
    BY <1>4 DEF SetupPublish
  <2>2. DirectoryOK /\ Current' = Current /\ Current.credential # NoRecord /\ Current.credential \in Record
    BY <1>4, <2>1, DirectoryStays, CurrentIsThere DEF Publishable, AccountInv, AccountTypeOK, Current, Directory
  <2>3. ThreadMoves(h, Free)
    BY <1>2, <2>1, DoneMoves
  <2>4. Locks(h, Free)
    BY <1>2, <2>1, LockFreed, FreeIsThread DEF Locked
  <2>5. Changed(Free)
    BY <1>1, <1>2, <2>1, <2>2, FreeIsThread DEF Changed, Fit
  <2>6. spent' \in [Counter -> Nat]
    BY <2>1 DEF AccountInv
  <2>7. QED BY <1>1, <1>2, <2>2, <2>3, <2>4, <2>5, <2>6, ChangeKept
<1>5. QED BY <1>3, <1>4

LEMMA SetupFinishKeeps ==
  ASSUME AccountInv, NEW h \in Handler, SetupFinish(h)
  PROVE  AccountKept
<1>1. /\ Up /\ handler[h].step = "finish" /\ lock' = None /\ Done(h)
      /\ UNCHANGED <<sessions, minted, windows, memory, web, scenario, passwd, unannounced>>
  BY DEF SetupFinish, At
<1>2. PICK outcome \in Outcome : Finishing(outcome) /\ Fault(outcome)
  BY DEF SetupFinish
<1>3. lock = h /\ Current.credential # NoRecord /\ memory \in Record /\ handler \in [Handler -> Thread]
  BY <1>1 DEF AccountInv, AccountTypeOK, LockHeld, Locked, DiskHeld
<1>4. DirectoryOK /\ Current'.credential = Current.credential
  BY <1>2, <1>3, MarkerFinished DEF AccountInv, AccountTypeOK, DiskHeld
<1>5. spent' \in [Counter -> Nat]
  BY <1>2, FaultOK DEF AccountInv
<1>6. ThreadMoves(h, Free)
  BY <1>1, <1>3, DoneMoves
<1>7. Locks(h, Free)
  BY <1>1, <1>3, LockFreed, FreeIsThread DEF Locked
<1>8. Announced => memory = Current.credential
  BY <1>1, <1>3, NobodyAdopts
<1>9. Changed(Free)
  BY <1>1, <1>3, <1>4, <1>8, FreeIsThread DEF Changed, Fit
<1>10. QED BY <1>1, <1>3, <1>4, <1>5, <1>6, <1>7, <1>9, ChangeKept

-----------------------------------------------------------------------------
(* The command beside the process: it makes the disk differ from the memory   *)
(* only while it is not through, or unannounced.                             *)
LEMMA BesideKept ==
  ASSUME AccountInv, UNCHANGED <<sessions, minted, windows, handler, lock, memory, web, scenario>>,
         passwd' \in Passwd, unannounced' \in BOOLEAN, spent' \in [Counter -> Nat], DirectoryOK,
         Announced' => Announced /\ Current'.credential = Current.credential,
         passwd' = "finish" => Current'.credential # NoRecord
  PROVE  AccountKept
<1>1. AccountTypeOK' /\ scenario' \in Scenarios
  BY DEF AccountInv, AccountTypeOK, DirectoryOK
<1>2. Shape' /\ LockHeld' /\ DownIsEmpty'
  BY DEF AccountInv, Shape, LockHeld, DownIsEmpty
<1>3. ~Behind' => ~Behind /\ Announced'
  BY DEF Behind, Announced
<1>4. MemoryHeld'
  BY <1>3 DEF AccountInv, MemoryHeld, Up
<1>5. DiskHeld'
  BY DEF AccountInv, DiskHeld, DirectoryOK
<1>6. StoreInv' /\ OnlyOlder /\ WindowsOK(windows')
  BY DEF AccountInv, StoreInv, OnlyOlder
<1>7. QED BY <1>1, <1>2, <1>4, <1>5, <1>6 DEF AccountKept, AccountInv

LEMMA PasswdBeginsKeeps ==
  ASSUME AccountInv, PasswdBegins
  PROVE  AccountKept
<1>1. /\ UNCHANGED <<sessions, minted, windows, handler, lock, memory, web, scenario, directory, unannounced>>
      /\ passwd = "idle" /\ passwd' = "write" /\ spent' \in [Counter -> Nat]
  BY SpendOK DEF PasswdBegins, Beside, AccountInv, Counter
<1>2. DirectoryOK /\ Current' = Current
  BY <1>1, DirectoryStays
<1>3. QED BY <1>1, <1>2, BesideKept DEF Announced, Passwd, AccountInv, AccountTypeOK

LEMMA PasswdWritesKeeps ==
  ASSUME AccountInv, PasswdWrites
  PROVE  AccountKept
<1>1. passwd = "write" /\ UNCHANGED <<sessions, minted, windows, handler, lock, memory, web, scenario>>
  BY DEF PasswdWrites, Beside
<1>2. PICK outcome \in Outcome :
        /\ FaultMint(outcome) /\ Changes(outcome, [Current EXCEPT !.credential = Minted])
        /\ IF outcome = "done" THEN passwd' = "finish" ELSE passwd' = "idle"
        /\ unannounced' = (unannounced \/ outcome = "uncertain")
  BY DEF PasswdWrites, Ends
<1>3. spent' \in [Counter -> Nat] /\ Minted \in Record /\ Minted # NoRecord
  BY <1>2, FaultMintOK DEF AccountInv
<1>4. DirectoryOK /\ Current'.credential = IF outcome = "failed" THEN Current.credential ELSE Minted
  BY <1>2, <1>3, CredentialChanged DEF AccountInv, AccountTypeOK, DiskHeld
<1>5. passwd' \in Passwd /\ unannounced' \in BOOLEAN
  BY <1>2 DEF Passwd, AccountInv, AccountTypeOK
<1>6. Announced' => Announced /\ outcome = "failed"
  BY <1>1, <1>2 DEF Announced, Outcome
<1>7. passwd' = "finish" => Current'.credential # NoRecord
  BY <1>2, <1>3, <1>4
<1>8. QED BY <1>1, <1>3, <1>4, <1>5, <1>6, <1>7, BesideKept

LEMMA PasswdFinishesKeeps ==
  ASSUME AccountInv, PasswdFinishes
  PROVE  AccountKept
<1>1. passwd = "finish" /\ UNCHANGED <<sessions, minted, windows, handler, lock, memory, web, scenario>>
  BY DEF PasswdFinishes, Beside
<1>2. PICK outcome \in Outcome :
        /\ Finishing(outcome) /\ Fault(outcome)
        /\ IF outcome = "done" THEN passwd' = "restart" ELSE passwd' = "idle"
        /\ unannounced' = (unannounced \/ outcome # "done")
  BY DEF PasswdFinishes, Ends
<1>3. Current.credential # NoRecord
  BY <1>1 DEF AccountInv, DiskHeld
<1>4. DirectoryOK /\ Current'.credential = Current.credential
  BY <1>2, <1>3, MarkerFinished DEF AccountInv, AccountTypeOK, DiskHeld
<1>5. spent' \in [Counter -> Nat]
  BY <1>2, FaultOK DEF AccountInv
<1>6. passwd' \in Passwd /\ unannounced' \in BOOLEAN /\ ~Announced' /\ passwd' # "finish"
  BY <1>2 DEF Passwd, Announced, AccountInv, AccountTypeOK
<1>7. QED BY <1>1, <1>4, <1>5, <1>6, BesideKept

-----------------------------------------------------------------------------
(* The end of the process and its start, and the clock.                      *)
LEMMA GoneKept ==
  ASSUME AccountInv, Gone, UNCHANGED scenario, passwd' \in Passwd, unannounced' \in BOOLEAN,
         spent' \in [Counter -> Nat], directory' \in Seq(Directory), directory' # <<>>, StartAlwaysPossible',
         passwd' = "finish" => Current'.credential # NoRecord
  PROVE  AccountKept
<1>1. /\ handler' \in [Handler -> Thread] /\ \A h \in Handler : handler'[h] = Free
      /\ lock' = None /\ memory' = NoRecord /\ sessions' = <<>> /\ windows' = <<>>
      /\ minted' = minted /\ minted \in Nat /\ web' = "down"
  BY FreeIsThread DEF Gone, AccountInv, StoreInv
<1>2. AccountTypeOK' /\ scenario' \in Scenarios
  BY <1>1 DEF AccountInv, AccountTypeOK, Record, NoRecord
<1>3. Shape' /\ LockHeld' /\ DownIsEmpty'
  BY <1>1, FreeIsThread, AccountAssumption DEF Shape, LockHeld, DownIsEmpty, Fit, Locked
<1>4. MemoryHeld'
  BY <1>1, FreeIsThread DEF MemoryHeld, Up
<1>5. DiskHeld'
  BY <1>1, FreeIsThread DEF DiskHeld
<1>6. StoreInv' /\ OnlyOlder
  <2>1. Follows(<<>>, minted, {})
    BY <1>1, NoneFollows
  <2>2. QED BY <1>1, <2>1 DEF Follows, StoreInv, OnlyOlder
<1>7. WindowsOK(windows')
  BY <1>1, NoWindowsOK
<1>8. QED BY <1>2, <1>3, <1>4, <1>5, <1>6, <1>7 DEF AccountKept, AccountInv

LEMMA WebDiesKeeps ==
  ASSUME AccountInv, WebDies
  PROVE  AccountKept
<1>1. Gone /\ UNCHANGED <<directory, passwd, unannounced, scenario>> /\ spent' \in [Counter -> Nat]
  BY SpendOK DEF WebDies, AccountInv, Counter
<1>2. DirectoryOK /\ Current' = Current
  BY <1>1, DirectoryStays
<1>3. passwd' \in Passwd /\ unannounced' \in BOOLEAN /\ (passwd' = "finish" => Current'.credential # NoRecord)
  BY <1>1, <1>2 DEF AccountInv, AccountTypeOK, DiskHeld
<1>4. QED BY <1>1, <1>2, <1>3, GoneKept DEF DirectoryOK

LEMMA PowerLossKeeps ==
  ASSUME AccountInv, PowerLoss
  PROVE  AccountKept
<1>1. /\ Gone /\ UNCHANGED <<unannounced, scenario>> /\ spent' \in [Counter -> Nat] /\ passwd' = "idle"
  BY SpendOK DEF PowerLoss, AccountInv, Counter
<1>2. PICK d \in Range(directory) : directory' = <<d>>
  BY DEF PowerLoss
<1>3. d \in Directory /\ Startable(d)
  BY DEF Range, AccountInv, AccountTypeOK, DiskHeld, StartAlwaysPossible
<1>4. Range(<<d>>) = {d}
  BY DEF Range
<1>5. directory' \in Seq(Directory) /\ directory' # <<>> /\ StartAlwaysPossible'
  BY <1>2, <1>3, <1>4 DEF StartAlwaysPossible
<1>6. QED BY <1>1, <1>5, GoneKept DEF Passwd, AccountInv, AccountTypeOK

LEMMA PasswdRestartsKeeps ==
  ASSUME AccountInv, PasswdRestarts
  PROVE  AccountKept
<1>1. passwd' = "idle" /\ UNCHANGED <<directory, scenario>>
  BY DEF PasswdRestarts, Ends
<1>2. DirectoryOK /\ Current' = Current
  BY <1>1, DirectoryStays
<1>3. CASE Gone /\ UNCHANGED <<unannounced, spent>>
  BY <1>1, <1>2, <1>3, GoneKept DEF DirectoryOK, Passwd, AccountInv, AccountTypeOK
<1>4. CASE /\ Spend("failures", scenario.failures) /\ unannounced' = TRUE
           /\ UNCHANGED <<sessions, minted, windows, handler, lock, memory, web>>
  <2>1. spent' \in [Counter -> Nat]
    BY <1>4, SpendOK DEF AccountInv, Counter
  <2>2. ~Announced' /\ passwd' \in Passwd /\ unannounced' \in BOOLEAN /\ passwd' # "finish"
    BY <1>1, <1>4 DEF Announced, Passwd
  <2>3. QED BY <1>1, <1>2, <1>4, <2>1, <2>2, BesideKept
<1>5. QED BY <1>3, <1>4 DEF PasswdRestarts

LEMMA WebStartsKeeps ==
  ASSUME AccountInv, WebStarts
  PROVE  AccountKept
<1>1. /\ web = "down" /\ UNCHANGED <<sessions, minted, windows, handler, lock, passwd, scenario>>
  BY DEF WebStarts
<1>2. PICK outcome \in Outcome :
        /\ IF Current.credential # NoRecord THEN Finishing(outcome) ELSE outcome = "done" /\ UNCHANGED directory
        /\ Fault(outcome)
        /\ IF outcome = "done" THEN web' = "up" /\ memory' = Current.credential /\ unannounced' = FALSE
           ELSE UNCHANGED <<web, memory, unannounced>>
  BY DEF WebStarts
<1>3. spent' \in [Counter -> Nat]
  BY <1>2, FaultOK DEF AccountInv
<1>4. DirectoryOK /\ Current'.credential = Current.credential /\ Current.credential \in Record
  <2>1. Current.credential \in Record
    BY CurrentIsThere DEF AccountInv, AccountTypeOK, Current, Directory
  <2>2. CASE Current.credential # NoRecord
    BY <1>2, <2>1, <2>2, MarkerFinished DEF AccountInv, AccountTypeOK, DiskHeld
  <2>3. CASE Current.credential = NoRecord
    <3>1. UNCHANGED directory
      BY <1>2, <2>3
    <3>2. QED BY <2>1, <3>1, DirectoryStays
  <2>4. QED BY <2>2, <2>3
<1>5. \A h \in Handler : handler'[h] = Free /\ handler[h] = Free
  BY <1>1 DEF AccountInv, DownIsEmpty
<1>6. sessions = <<>> /\ DOMAIN sessions' = {} /\ memory = NoRecord /\ lock' = None
  BY <1>1 DEF AccountInv, DownIsEmpty
<1>7. memory' \in Record /\ web' \in {"up", "down"} /\ unannounced' \in BOOLEAN
  BY <1>2, <1>4 DEF AccountInv, AccountTypeOK
<1>8. AccountTypeOK' /\ scenario' \in Scenarios
  BY <1>1, <1>4, <1>7 DEF AccountInv, AccountTypeOK, DirectoryOK
<1>9. Shape' /\ LockHeld'
  BY <1>1 DEF AccountInv, Shape, LockHeld
<1>10. DownIsEmpty'
  BY <1>1, <1>2, <1>5, <1>6 DEF DownIsEmpty
<1>11. MemoryHeld'
  <2>1. web' = "up" => memory' = Current'.credential
    BY <1>1, <1>2, <1>4
  <2>2. QED BY <1>5, <1>6, <2>1, FreeIsThread DEF MemoryHeld, Up
<1>12. DiskHeld'
  BY <1>1, <1>4, <1>5, FreeIsThread DEF AccountInv, DiskHeld, DirectoryOK
<1>13. StoreInv' /\ OnlyOlder /\ WindowsOK(windows')
  BY <1>1 DEF AccountInv, StoreInv, OnlyOlder
<1>14. QED BY <1>3, <1>8, <1>9, <1>10, <1>11, <1>12, <1>13 DEF AccountKept, AccountInv

LEMMA PassedIsLess ==
  ASSUME NEW n \in Nat
  PROVE  Passed(n) \in Nat /\ Passed(n) <= n
BY DEF Passed

LEMMA MinuteKeeps ==
  ASSUME AccountInv, Minute, UNCHANGED accountVars
  PROVE  AccountKept
<1>1. /\ UNCHANGED <<minted, scenario, handler, lock, memory, web, directory, passwd, unannounced>>
      /\ spent' \in [Counter -> Nat]
  BY SpendOK DEF Minute, accountVars, AccountInv, Counter
<1>2. /\ DOMAIN sessions' = DOMAIN sessions
      /\ \A t \in DOMAIN sessions :
           sessions'[t] = [sessions[t] EXCEPT !.idle = Passed(sessions[t].idle), !.absolute = Passed(sessions[t].absolute)]
  BY DEF Minute
<1>3. StoreInv
  BY DEF AccountInv
<1>4. \A t \in DOMAIN sessions :
        /\ sessions'[t] \in SessionEntry /\ sessions'[t].idle <= sessions'[t].absolute
        /\ sessions'[t].older = sessions[t].older /\ sessions'[t].record = sessions[t].record
        /\ Lives(sessions'[t]) => Lives(sessions[t])
  <2> SUFFICES ASSUME NEW t \in DOMAIN sessions
               PROVE  /\ sessions'[t] \in SessionEntry /\ sessions'[t].idle <= sessions'[t].absolute
                      /\ sessions'[t].older = sessions[t].older /\ sessions'[t].record = sessions[t].record
                      /\ Lives(sessions'[t]) => Lives(sessions[t])
    OBVIOUS
  <2> DEFINE s == sessions[t]
             i == Passed(s.idle)
             a == Passed(s.absolute)
  <2>1. s \in SessionEntry /\ s.idle <= s.absolute
    BY <1>3 DEF StoreInv, StoreOK
  <2>2. s.idle \in 0 .. IdleTimeout /\ s.absolute \in 0 .. AbsoluteTimeout
    BY <2>1 DEF SessionEntry
  <2>3. /\ i \in 0 .. IdleTimeout /\ a \in 0 .. AbsoluteTimeout /\ i <= a
        /\ (i > 0 => s.idle > 0) /\ (a > 0 => s.absolute > 0)
    BY <2>1, <2>2, TimesAreNat DEF Passed
  <2>4. sessions'[t] = [s EXCEPT !.idle = i, !.absolute = a]
    BY <1>2
  <2> HIDE DEF s, i, a
  <2>5. /\ sessions'[t] \in SessionEntry /\ sessions'[t].idle = i /\ sessions'[t].absolute = a
        /\ sessions'[t].older = s.older /\ sessions'[t].record = s.record
    BY <2>1, <2>3, <2>4 DEF SessionEntry
  <2>6. QED BY <2>3, <2>5 DEF s, Lives
<1>5. StoreOK(sessions', minted)
  BY <1>2, <1>3, <1>4 DEF StoreInv, StoreOK
<1>6. StoreInv' /\ OnlyOlder
  <2>1. Cardinality(DOMAIN sessions') = Cardinality(DOMAIN sessions)
    BY <1>2
  <2>2. minted' = minted
    BY <1>1
  <2>3. StoreInv'
    BY <1>3, <1>5, <2>1, <2>2 DEF StoreInv
  <2>4. OnlyOlder
    <3>1. minted \in Nat /\ minted' \in Nat /\ minted <= minted'
      BY <1>3, <2>2 DEF StoreInv
    <3>2. \A t \in DOMAIN sessions' : t \in DOMAIN sessions /\ (Lives(sessions'[t]) => Lives(sessions[t]))
      BY <1>2, <1>4
    <3>3. QED BY <3>1, <3>2 DEF OnlyOlder
  <2>5. QED BY <2>3, <2>4
<1>7. WindowsOK(windows')
  <2>1. /\ DOMAIN windows' = DOMAIN windows
        /\ \A k \in DOMAIN windows : windows'[k] = [windows[k] EXCEPT !.left = Passed(windows[k].left)]
    BY DEF Minute
  <2>2. \A k \in DOMAIN windows' : windows'[k] \in WindowEntry /\ windows'[k].attempts = windows[k].attempts
    <3> SUFFICES ASSUME NEW k \in DOMAIN windows
                 PROVE  windows'[k] \in WindowEntry /\ windows'[k].attempts = windows[k].attempts
      BY <2>1
    <3> DEFINE l == Passed(windows[k].left)
    <3>1. windows[k] \in WindowEntry
      BY DEF AccountInv, WindowsOK
    <3>2. Window \in Nat
      BY SecurityAssumption
    <3>3. l \in 0 .. Window
      BY <3>1, <3>2 DEF WindowEntry, Passed
    <3>4. windows'[k] = [windows[k] EXCEPT !.left = l]
      BY <2>1
    <3> HIDE DEF l
    <3>5. QED BY <3>1, <3>3, <3>4 DEF WindowEntry
  <2>3. WindowsOK(windows) /\ DOMAIN windows' \subseteq DOMAIN windows
    BY <2>1 DEF AccountInv
  <2>4. QED BY <2>2, <2>3, FewerWindows
<1>8. AccountTypeOK' /\ Shape' /\ LockHeld' /\ scenario' \in Scenarios
  BY <1>1 DEF AccountInv, AccountTypeOK, Shape, LockHeld
<1>9. DownIsEmpty'
  <2>1. sessions = <<>> => sessions' = <<>>
    BY DEF Minute
  <2>2. QED BY <1>1, <2>1 DEF AccountInv, DownIsEmpty
<1>10. MemoryHeld'
  <2>1. Behind' = Behind /\ Current' = Current /\ Up' = Up
    BY <1>1 DEF Behind, Current, Up
  <2>2. QED BY <1>1, <1>2, <1>4, <2>1 DEF AccountInv, MemoryHeld
<1>11. DiskHeld'
  BY <1>1 DEF AccountInv, DiskHeld, Announced, Current, StartAlwaysPossible
<1>12. QED BY <1>1, <1>6, <1>7, <1>8, <1>9, <1>10, <1>11 DEF AccountKept, AccountInv

LEMMA AccountStepKeeps ==
  ASSUME AccountInv, AccountStep
  PROVE  AccountKept
<1>1. ASSUME NEW h \in Handler,
             \/ Login(h) \/ LoginVerify(h) \/ LoginOpens(h)
             \/ Request(h) \/ CheckCsrf(h) \/ SessionRotate(h) \/ Logout(h)
             \/ Reauthorize(h) \/ MaintenanceAsked(h) \/ PasswordWrite(h) \/ Adopt(h)
             \/ Setup(h) \/ SetupLoad(h) \/ SetupPublish(h) \/ SetupFinish(h)
      PROVE  AccountKept
  <2>1. CASE Login(h) BY <2>1, LoginKeeps
  <2>2. CASE LoginVerify(h) BY <2>2, LoginVerifyKeeps
  <2>3. CASE LoginOpens(h) BY <2>3, LoginOpensKeeps
  <2>4. CASE Request(h) BY <2>4, RequestKeeps
  <2>5. CASE CheckCsrf(h) BY <2>5, CheckCsrfKeeps
  <2>6. CASE SessionRotate(h) BY <2>6, SessionRotateKeeps
  <2>7. CASE Logout(h) BY <2>7, LogoutKeeps
  <2>8. CASE Reauthorize(h) BY <2>8, ReauthorizeKeeps
  <2>9. CASE MaintenanceAsked(h) BY <2>9, MaintenanceAskedKeeps
  <2>10. CASE PasswordWrite(h) BY <2>10, PasswordWriteKeeps
  <2>11. CASE Adopt(h) BY <2>11, AdoptKeeps
  <2>12. CASE Setup(h) BY <2>12, SetupKeeps
  <2>13. CASE SetupLoad(h) BY <2>13, SetupLoadKeeps
  <2>14. CASE SetupPublish(h) BY <2>14, SetupPublishKeeps
  <2>15. CASE SetupFinish(h) BY <2>15, SetupFinishKeeps
  <2>16. QED BY <1>1, <2>1, <2>2, <2>3, <2>4, <2>5, <2>6, <2>7, <2>8, <2>9, <2>10, <2>11, <2>12, <2>13, <2>14, <2>15
<1>2. CASE PasswdBegins BY <1>2, PasswdBeginsKeeps
<1>3. CASE PasswdWrites BY <1>3, PasswdWritesKeeps
<1>4. CASE PasswdFinishes BY <1>4, PasswdFinishesKeeps
<1>5. CASE PasswdRestarts BY <1>5, PasswdRestartsKeeps
<1>6. CASE WebStarts BY <1>6, WebStartsKeeps
<1>7. CASE Minute /\ UNCHANGED accountVars BY <1>7, MinuteKeeps
<1>8. QED BY <1>1, <1>2, <1>3, <1>4, <1>5, <1>6, <1>7 DEF AccountStep

-----------------------------------------------------------------------------
(* What runs beside the account uses sessions at most.                       *)
LEMMA AloneKept ==
  ASSUME AccountInv, spent' \in [Counter -> Nat],
         UNCHANGED <<handler, lock, memory, web, directory, passwd, unannounced, minted, windows, scenario>>,
         sessions' = sessions \/ (Up /\ \E token \in Nat : sessions' = Used(token))
  PROVE  AccountKept
<1>1. Follows(sessions', minted, {}) /\ minted' = minted
  <2>1. StoreInv
    BY DEF AccountInv
  <2>2. CASE sessions' = sessions
    BY <2>1, <2>2, SameFollows
  <2>3. CASE \E token \in Nat : sessions' = Used(token)
    BY <2>1, <2>3, UsedFollows
  <2>4. QED BY <2>2, <2>3
<1>2. StoreInv' /\ OnlyOlder
  BY <1>1 DEF AccountInv, Follows, StoreInv, OnlyOlder
<1>3. AccountTypeOK' /\ scenario' \in Scenarios /\ WindowsOK(windows') /\ Shape' /\ LockHeld'
  BY DEF AccountInv, AccountTypeOK, Shape, LockHeld
<1>4. DownIsEmpty'
  BY DEF AccountInv, DownIsEmpty, Up
<1>5. MemoryHeld'
  <2>1. Behind' = Behind /\ Current' = Current /\ Up' = Up
    BY DEF Behind, Current, Up
  <2>2. \A t \in DOMAIN sessions' : \E u \in DOMAIN sessions : sessions'[t].record = sessions[u].record
    BY <1>1 DEF Follows
  <2>3. \A t \in DOMAIN sessions' : sessions'[t].record = memory /\ memory # NoRecord
    BY <2>2 DEF AccountInv, MemoryHeld
  <2>4. QED BY <2>1, <2>3 DEF AccountInv, MemoryHeld
<1>6. DiskHeld'
  BY DEF AccountInv, DiskHeld, Announced, Current, StartAlwaysPossible
<1>7. QED BY <1>2, <1>3, <1>4, <1>5, <1>6 DEF AccountKept, AccountInv

LEMMA AskedSpends ==
  ASSUME AccountInv, NEW request, Asks(request)
  PROVE  spent' \in [Counter -> Nat]
BY SpendOK DEF Asks, AccountInv, Counter

-----------------------------------------------------------------------------
(* Long answers. The invariant says which steps belong to which kind, that    *)
(* the counter of clients and the slots are what the streams say, and that a  *)
(* stream whose session has ended has sent once more at most.                *)
EventSteps == {"idle", "enter", "force", "loop", "due", "renew", "send", "leave", "release"}
FileSteps == {"info", "chunk", "read"}

Ordered(x) ==
  /\ x.step \in IF x.kind = "events" THEN EventSteps ELSE FileSteps
  /\ x.step \in {"chunk", "read"} => x.left > 0
  /\ x.step \in {"due", "renew", "send", "read"} => x.after = 0
  /\ x.after \in {0, 1} /\ x.token <= minted

StreamsOrdered == \A s \in Stream : Ordered(stream[s]) /\ (stream[s].after = 1 => ~Holds(stream[s].token))

Counts(x) == x.kind = "events" /\ x.step \notin {"idle", "enter", "release"}
Counting == {s \in Stream : Counts(stream[s])}
Taken(k) == {s \in Stream : stream[s].step # "idle" /\ stream[s].kind = k}
SlotsKept == \A k \in {"events", "file"} : Cardinality(Taken(k)) <= Slots(k)

StreamInv == StreamsTypeOK /\ StreamsOrdered /\ clients = Cardinality(Counting) /\ SlotsKept

LEMMA SlotsAreNat ==
  /\ SseSlots \in Nat /\ LeaseSeconds \in Nat /\ RenewSeconds \in Nat /\ Chunks \in Nat \ {0}
  /\ \A k \in {"events", "file"} : Slots(k) \in Nat
  /\ IsFiniteSet(Stream)
  /\ \A T : T \subseteq Stream => IsFiniteSet(T) /\ Cardinality(T) \in Nat
<1>1. {SseSlots, DownloadSlots, LeaseSeconds, RenewSeconds, Chunks} \subseteq Nat \ {0} /\ IsFiniteSet(Stream)
  BY StreamsAssumption
<1>2. ASSUME NEW T, T \subseteq Stream PROVE IsFiniteSet(T) /\ Cardinality(T) \in Nat
  BY <1>1, <1>2, FS_Subset, FS_CardinalityType
<1>3. QED BY <1>1, <1>2 DEF Slots

LEMMA EndedStays ==
  ASSUME OnlyOlder, NEW token, token <= minted, ~Holds(token)
  PROVE  ~(token \in DOMAIN sessions' /\ Lives(sessions'[token]))
BY DEF OnlyOlder, Holds

(* One stream goes on.                                                       *)
Leads(s, new) ==
  /\ stream' \in [Stream -> StreamState] /\ stream'[s] = new
  /\ \A o \in Stream \ {s} : stream'[o] = stream[o]

LeaseTypes ==
  /\ leaseLock' \in Stream \cup {None} /\ renewIn' \in 0 .. RenewSeconds /\ lease' \in 0 .. LeaseSeconds
  /\ stray' \subseteq {"lease", "release"} /\ calm' \in 0 .. LeaseSeconds

Balanced(s, new) ==
  \/ (Counts(new) <=> Counts(stream[s])) /\ clients' = clients
  \/ Counts(new) /\ ~Counts(stream[s]) /\ clients' = clients + 1
  \/ ~Counts(new) /\ Counts(stream[s]) /\ clients' = clients - 1

Slotted(s, new) ==
  \/ new.step = "idle"
  \/ stream[s].step # "idle" /\ new.kind = stream[s].kind
  \/ Cardinality(Taken(new.kind)) < Slots(new.kind)

LEMMA StreamKept ==
  ASSUME StreamInv, OnlyOlder, LeaseTypes, NEW s \in Stream, NEW new \in StreamState, Leads(s, new),
         Ordered(new), new.after = 1 => ~Holds(new.token), Balanced(s, new), Slotted(s, new)
  PROVE  StreamInv'
<1>1. stream' \in [Stream -> StreamState] /\ stream'[s] = new /\ \A o \in Stream \ {s} : stream'[o] = stream[o]
  BY DEF Leads
<1>2. StreamsOrdered'
  <2> SUFFICES ASSUME NEW o \in Stream
               PROVE  Ordered(stream[o])' /\ (stream'[o].after = 1 => ~(stream'[o].token \in DOMAIN sessions' /\ Lives(sessions'[stream'[o].token])))
    BY DEF StreamsOrdered, Holds
  <2>1. PICK x : x = stream'[o]
    OBVIOUS
  <2>2. x \in StreamState /\ Ordered(x) /\ (x.after = 1 => ~Holds(x.token))
    BY <1>1, <2>1 DEF StreamInv, StreamsOrdered, StreamsTypeOK
  <2>3. x.token <= minted /\ x.token \in Nat /\ minted <= minted' /\ minted \in Nat /\ minted' \in Nat
    BY <2>2 DEF Ordered, StreamState, OnlyOlder
  <2>4. x.token <= minted'
    BY <2>3
  <2>5. Ordered(stream[o])'
    BY <2>1, <2>2, <2>4 DEF Ordered
  <2>6. x.after = 1 => ~(x.token \in DOMAIN sessions' /\ Lives(sessions'[x.token]))
    BY <2>2, <2>3, EndedStays
  <2>7. QED BY <2>1, <2>5, <2>6
<1>3. Counting \subseteq Stream /\ Counting' \subseteq Stream /\ IsFiniteSet(Counting) /\ Cardinality(Counting) \in Nat
  BY SlotsAreNat DEF Counting
<1>4. clients' = Cardinality(Counting')
  <2>1. CASE (Counts(new) <=> Counts(stream[s])) /\ clients' = clients
    <3>1. Counting' = Counting
      BY <1>1, <2>1 DEF Counting, Counts
    <3>2. QED BY <2>1, <3>1 DEF StreamInv
  <2>2. CASE Counts(new) /\ ~Counts(stream[s]) /\ clients' = clients + 1
    <3>1. Counting' = Counting \cup {s} /\ s \notin Counting
      BY <1>1, <2>2 DEF Counting, Counts
    <3>2. Cardinality(Counting') = Cardinality(Counting) + 1
      BY <1>3, <3>1, FS_AddElement
    <3>3. QED BY <2>2, <3>2 DEF StreamInv
  <2>3. CASE ~Counts(new) /\ Counts(stream[s]) /\ clients' = clients - 1
    <3>1. Counting' = Counting \ {s} /\ s \in Counting
      BY <1>1, <2>3 DEF Counting, Counts
    <3>2. Cardinality(Counting') = Cardinality(Counting) - 1
      BY <1>3, <3>1, FS_RemoveElement
    <3>3. QED BY <2>3, <3>2 DEF StreamInv
  <2>4. QED BY <2>1, <2>2, <2>3 DEF Balanced
<1>5. SlotsKept'
  <2> SUFFICES ASSUME NEW k \in {"events", "file"} PROVE Cardinality(Taken(k)') <= Slots(k)
    BY DEF SlotsKept, Slots
  <2>1. Taken(k) \subseteq Stream /\ IsFiniteSet(Taken(k)) /\ Cardinality(Taken(k)) \in Nat /\ Cardinality(Taken(k)) <= Slots(k)
    BY SlotsAreNat DEF Taken, StreamInv, SlotsKept
  <2>2. CASE Taken(k)' \subseteq Taken(k)
    <3>1. Cardinality(Taken(k)') <= Cardinality(Taken(k)) /\ Cardinality(Taken(k)') \in Nat
      BY <2>1, <2>2, FS_Subset, FS_CardinalityType
    <3>2. QED BY <2>1, <3>1, SlotsAreNat
  <2>3. CASE ~(Taken(k)' \subseteq Taken(k))
    <3>1. Taken(k)' = Taken(k) \cup {s} /\ s \notin Taken(k) /\ new.step # "idle" /\ new.kind = k
      BY <1>1, <2>3 DEF Taken
    <3>2. Cardinality(Taken(k)) < Slots(k)
      BY <3>1 DEF Slotted, Taken
    <3>3. Cardinality(Taken(k)') = Cardinality(Taken(k)) + 1
      BY <2>1, <3>1, FS_AddElement
    <3>4. QED BY <2>1, <3>2, <3>3, SlotsAreNat
  <2>4. QED BY <2>2, <2>3
<1>6. StreamsTypeOK'
  <2>1. Counting' \subseteq Taken("events")' /\ Taken("events")' \subseteq Stream
    BY DEF Counting, Counts, Taken
  <2>2. IsFiniteSet(Taken("events")') /\ Cardinality(Taken("events")') \in Nat /\ Cardinality(Counting') \in Nat
    BY <1>3, <2>1, SlotsAreNat
  <2>3. Cardinality(Counting') <= Cardinality(Taken("events")')
    BY <2>1, <2>2, FS_Subset
  <2>4. Cardinality(Taken("events")') <= SseSlots
    BY <1>5 DEF SlotsKept, Slots
  <2>5. clients' \in 0 .. SseSlots
    BY <1>4, <2>2, <2>3, <2>4, SlotsAreNat
  <2>6. QED BY <1>1, <2>5 DEF StreamsTypeOK, LeaseTypes
<1>7. QED BY <1>2, <1>4, <1>5, <1>6 DEF StreamInv

LEMMA QuietIsState ==
  /\ Quiet \in StreamState /\ Quiet.kind = "events" /\ Quiet.step = "idle" /\ Quiet.token = 0
  /\ Quiet.after = 0 /\ Quiet.left = 0 /\ Quiet.age = 0 /\ ~Quiet.seen
BY SlotsAreNat DEF Quiet, StreamState

LEMMA StreamTyped ==
  ASSUME StreamInv, NEW s \in Stream
  PROVE  /\ stream \in [Stream -> StreamState] /\ stream[s] \in StreamState /\ Ordered(stream[s])
         /\ stream[s].after = 1 => ~Holds(stream[s].token)
         /\ stream[s].token \in Nat
         /\ stream[s].step \in EventSteps \ {"idle"} => stream[s].kind = "events"
         /\ stream[s].step \in FileSteps => stream[s].kind = "file"
BY DEF StreamInv, StreamsTypeOK, StreamsOrdered, StreamState, Ordered, EventSteps, FileSteps

Steps == EventSteps \cup FileSteps

LEMMA TurnLeads ==
  ASSUME StreamInv, NEW s \in Stream, NEW step \in Steps, Turn(s, step)
  PROVE  \E new \in StreamState : /\ Leads(s, new) /\ new.step = step /\ new.kind = stream[s].kind
                                  /\ new.token = stream[s].token /\ new.after = stream[s].after
                                  /\ new.left = stream[s].left /\ new.age = stream[s].age
                                  /\ new.seen = stream[s].seen
<1> DEFINE new == [stream[s] EXCEPT !.step = step]
<1>1. stream \in [Stream -> StreamState] /\ stream[s] \in StreamState
  BY StreamTyped
<1>2. /\ new \in StreamState /\ new.step = step /\ new.kind = stream[s].kind
      /\ new.token = stream[s].token /\ new.after = stream[s].after /\ new.left = stream[s].left
      /\ new.age = stream[s].age /\ new.seen = stream[s].seen
  BY <1>1 DEF StreamState, Steps, EventSteps, FileSteps
<1>3. stream' = [stream EXCEPT ![s] = new]
  BY DEF Turn
<1> HIDE DEF new
<1>4. Leads(s, new)
  BY <1>1, <1>2, <1>3 DEF Leads
<1>5. QED BY <1>2, <1>4

LEMMA OverLeads ==
  ASSUME StreamInv, NEW s \in Stream, Over(s)
  PROVE  Leads(s, Quiet)
BY StreamTyped, QuietIsState DEF Over, Leads

LEMMA QuietOrdered ==
  ASSUME AccountInv
  PROVE  Ordered(Quiet) /\ ~Counts(Quiet)
BY QuietIsState DEF Ordered, EventSteps, Counts, AccountInv, StoreInv

(* Streams that stay as they are but for their age, while sessions come and   *)
(* go.                                                                       *)
SameBut(x, y) ==
  x.step = y.step /\ x.kind = y.kind /\ x.token = y.token /\ x.after = y.after /\ x.left = y.left

LEMMA StreamsAge ==
  ASSUME StreamInv, OnlyOlder, UNCHANGED clients, LeaseTypes, stream' \in [Stream -> StreamState],
         \A s \in Stream : SameBut(stream'[s], stream[s])
  PROVE  StreamInv'
<1>1. StreamsOrdered'
  <2> SUFFICES ASSUME NEW s \in Stream
               PROVE  Ordered(stream[s])' /\ (stream'[s].after = 1 => ~(stream'[s].token \in DOMAIN sessions' /\ Lives(sessions'[stream'[s].token])))
    BY DEF StreamsOrdered, Holds
  <2>1. PICK token : token = stream[s].token
    OBVIOUS
  <2>2. Ordered(stream[s]) /\ token \in Nat /\ token <= minted
    BY <2>1, StreamTyped DEF Ordered
  <2>3. minted <= minted' /\ minted \in Nat /\ minted' \in Nat
    BY DEF OnlyOlder
  <2>4. stream'[s].token = token /\ stream'[s].after = stream[s].after
    BY <2>1 DEF SameBut
  <2>5. Ordered(stream[s])'
    BY <2>1, <2>2, <2>3 DEF Ordered, SameBut
  <2>6. stream[s].after = 1 => ~Holds(token)
    BY <2>1, StreamTyped
  <2>7. QED BY <2>2, <2>4, <2>5, <2>6, EndedStays
<1>2. Counting' = Counting /\ SlotsKept'
  <2>1. Counting' = Counting
    BY DEF Counting, Counts, SameBut
  <2>2. \A k \in {"events", "file"} : Taken(k)' = Taken(k)
    BY DEF Taken, SameBut
  <2>3. QED BY <2>1, <2>2 DEF StreamInv, SlotsKept, Slots
<1>3. StreamsTypeOK'
  BY DEF StreamInv, StreamsTypeOK, LeaseTypes
<1>4. QED BY <1>1, <1>2, <1>3 DEF StreamInv

LEMMA StreamsStay ==
  ASSUME StreamInv, OnlyOlder, UNCHANGED <<stream, clients>>, LeaseTypes
  PROVE  StreamInv'
<1>1. stream' \in [Stream -> StreamState] /\ \A s \in Stream : SameBut(stream'[s], stream[s])
  BY DEF SameBut, StreamInv, StreamsTypeOK
<1>2. QED BY <1>1, StreamsAge

LEMMA LeaseStays ==
  ASSUME StreamInv, UNCHANGED <<leaseLock, renewIn, lease, stray, calm>>
  PROVE  LeaseTypes
BY DEF StreamInv, StreamsTypeOK, LeaseTypes

LEMMA StreamsUnchanged ==
  ASSUME StreamInv, OnlyOlder, UNCHANGED streamVars
  PROVE  StreamInv'
BY StreamsStay, LeaseStays DEF streamVars

LEMMA OpenKeeps ==
  ASSUME AccountInv, StreamInv, NEW s \in Stream, Open(s)
  PROVE  AccountKept /\ StreamInv'
<1>1. Up /\ stream[s].step = "idle" /\ Unleased /\ Alone /\ spent' \in [Counter -> Nat]
  BY SpendOK DEF Open, In, AccountInv, Counter
<1>2. PICK t \in 1 .. minted, k \in {"events", "file"} :
        /\ sessions' = Used(t)
        /\ stream' = IF ~Holds(t) \/ Cardinality(Taken(k)) >= Slots(k) THEN stream
                     ELSE [stream EXCEPT ![s] = [Quiet EXCEPT !.kind = k, !.token = t,
                                                   !.step = IF k = "events" THEN "enter" ELSE "info"]]
  BY AddressesFit DEF Open, Taken, Scenario
<1>3. t \in Nat /\ t <= minted
  BY DEF AccountInv, StoreInv
<1>4. AccountKept
  BY <1>1, <1>2, <1>3, AloneKept DEF Alone
<1>5. OnlyOlder /\ LeaseTypes /\ UNCHANGED clients
  BY <1>1, <1>4, LeaseStays DEF AccountKept, Unleased
<1>6. CASE stream' = stream
  BY <1>4, <1>5, <1>6, StreamsStay
<1>7. CASE stream' # stream
  <2> DEFINE step == IF k = "events" THEN "enter" ELSE "info"
             new == [Quiet EXCEPT !.kind = k, !.token = t, !.step = step]
  <2>1. stream' = [stream EXCEPT ![s] = new] /\ ~(Cardinality(Taken(k)) >= Slots(k))
    BY <1>2, <1>7
  <2>2. /\ new \in StreamState /\ new.kind = k /\ new.step = step /\ new.token = t /\ new.after = 0
    BY <1>3, QuietIsState DEF StreamState
  <2> HIDE DEF new
  <2>3. Leads(s, new)
    BY <2>1, <2>2, StreamTyped DEF Leads
  <2>4. Ordered(new)
    BY <1>3, <2>2 DEF Ordered, EventSteps, FileSteps
  <2>5. ~Counts(new) /\ ~Counts(stream[s])
    BY <1>1, <2>2 DEF Counts
  <2>6. Cardinality(Taken(k)) < Slots(k)
    <3>1. Cardinality(Taken(k)) \in Nat /\ Slots(k) \in Nat
      BY SlotsAreNat DEF Taken
    <3>2. QED BY <2>1, <3>1
  <2>7. QED BY <1>4, <1>5, <2>2, <2>3, <2>4, <2>5, <2>6, StreamKept DEF Balanced, Slotted
<1>8. QED BY <1>6, <1>7

LEMMA EnterKeeps ==
  ASSUME AccountInv, StreamInv, NEW s \in Stream, Enter(s)
  PROVE  AccountKept /\ StreamInv'
<1>1. /\ stream[s].step = "enter" /\ clients' = clients + 1 /\ Alone /\ UNCHANGED <<renewIn, lease, stray, calm, sessions, spent>>
      /\ leaseLock' \in {leaseLock, s}
  BY DEF Enter, In
<1>2. PICK step \in {"force", "loop"} : Turn(s, step)
  BY DEF Enter
<1>3. AccountKept
  BY <1>1, AloneKept DEF Alone, AccountInv
<1>4. LeaseTypes
  BY <1>1 DEF StreamInv, StreamsTypeOK, LeaseTypes
<1>5. PICK new \in StreamState : /\ Leads(s, new) /\ new.step = step /\ new.kind = stream[s].kind
                                 /\ new.token = stream[s].token /\ new.after = stream[s].after /\ new.left = stream[s].left
  BY <1>2, TurnLeads DEF Steps, EventSteps
<1>6. Ordered(new) /\ (new.after = 1 => ~Holds(new.token)) /\ Balanced(s, new) /\ Slotted(s, new)
  BY <1>1, <1>5, StreamTyped DEF Ordered, EventSteps, Balanced, Slotted, Counts
<1>7. QED BY <1>3, <1>4, <1>5, <1>6, StreamKept DEF AccountKept

LEMMA AsksTypes ==
  ASSUME StreamInv, NEW request \in {"lease", "release"}, Asks(request),
         leaseLock' \in Stream \cup {None}, renewIn' \in 0 .. RenewSeconds
  PROVE  LeaseTypes
<1>1. lease' \in 0 .. LeaseSeconds
  BY SlotsAreNat DEF Asks, Executed, StreamInv, StreamsTypeOK
<1>2. stray' \subseteq {"lease", "release"} /\ calm' \in 0 .. LeaseSeconds
  <2>1. calm' \in {0, calm} /\ stray' \in {stray, stray \cup {request}}
    BY DEF Asks
  <2>2. calm \in 0 .. LeaseSeconds /\ stray \subseteq {"lease", "release"}
    BY DEF StreamInv, StreamsTypeOK
  <2>3. QED BY <2>1, <2>2, SlotsAreNat
<1>3. QED BY <1>1, <1>2 DEF LeaseTypes

LEMMA LeaseAskedKeeps ==
  ASSUME AccountInv, StreamInv, NEW s \in Stream, LeaseAsked(s)
  PROVE  AccountKept /\ StreamInv'
<1>1. /\ stream[s].step \in {"force", "renew"} /\ Asks("lease") /\ renewIn' = RenewSeconds /\ leaseLock' = None
      /\ UNCHANGED <<clients, sessions>> /\ Alone
  BY DEF LeaseAsked, In
<1>2. PICK step \in {"loop", "send"} : Turn(s, step) /\ (step = "send" => stream[s].step = "renew")
  BY <1>1 DEF LeaseAsked
<1>3. AccountKept
  BY <1>1, AskedSpends, AloneKept DEF Alone
<1>4. LeaseTypes
  BY <1>1, AsksTypes, SlotsAreNat
<1>5. PICK new \in StreamState : /\ Leads(s, new) /\ new.step = step /\ new.kind = stream[s].kind
                                 /\ new.token = stream[s].token /\ new.after = stream[s].after /\ new.left = stream[s].left
  BY <1>2, TurnLeads DEF Steps, EventSteps
<1>6. Ordered(new) /\ (new.after = 1 => ~Holds(new.token)) /\ Balanced(s, new) /\ Slotted(s, new)
  BY <1>1, <1>2, <1>5, StreamTyped DEF Ordered, EventSteps, Balanced, Slotted, Counts
<1>7. QED BY <1>3, <1>4, <1>5, <1>6, StreamKept DEF AccountKept

LEMMA StrayExecutedKeeps ==
  ASSUME AccountInv, StreamInv, StrayExecuted
  PROVE  AccountKept /\ StreamInv'
<1>1. UNCHANGED <<stream, leaseLock, clients, renewIn, sessions, spent>> /\ Alone /\ calm' = 0
  BY DEF StrayExecuted
<1>2. PICK r \in stray : lease' = Executed(r) /\ stray' = stray \ {r}
  BY DEF StrayExecuted
<1>3. AccountKept
  BY <1>1, AloneKept DEF Alone, AccountInv
<1>4. LeaseTypes
  BY <1>1, <1>2, SlotsAreNat DEF LeaseTypes, Executed, StreamInv, StreamsTypeOK
<1>5. QED BY <1>1, <1>3, <1>4, StreamsStay DEF AccountKept

LEMMA LoopKeeps ==
  ASSUME AccountInv, StreamInv, NEW s \in Stream, Loop(s)
  PROVE  AccountKept /\ StreamInv'
<1>1. /\ Up /\ stream[s].step = "loop" /\ sessions' = Used(stream[s].token) /\ Unleased /\ UNCHANGED spent /\ Alone
      /\ Turn(s, IF Holds(stream[s].token) THEN "due" ELSE "leave")
  BY DEF Loop, In, Authorized
<1>2. AccountKept
  BY <1>1, StreamTyped, AloneKept DEF Alone, AccountInv
<1>3. LeaseTypes /\ UNCHANGED clients
  BY <1>1, LeaseStays DEF Unleased
<1>4. PICK step \in {"due", "leave"} : Turn(s, step) /\ (step = "due" => Holds(stream[s].token))
  BY <1>1
<1>5. PICK new \in StreamState : /\ Leads(s, new) /\ new.step = step /\ new.kind = stream[s].kind
                                 /\ new.token = stream[s].token /\ new.after = stream[s].after /\ new.left = stream[s].left
  BY <1>4, TurnLeads DEF Steps, EventSteps
<1>6. Ordered(new) /\ (new.after = 1 => ~Holds(new.token)) /\ Balanced(s, new) /\ Slotted(s, new)
  BY <1>1, <1>3, <1>4, <1>5, StreamTyped DEF Ordered, EventSteps, Balanced, Slotted, Counts
<1>7. QED BY <1>2, <1>3, <1>5, <1>6, StreamKept DEF AccountKept

LEMMA RenewKeeps ==
  ASSUME AccountInv, StreamInv, NEW s \in Stream, Renew(s)
  PROVE  AccountKept /\ StreamInv'
<1>1. /\ stream[s].step = "due" /\ UNCHANGED <<clients, renewIn, lease, stray, calm, sessions, spent>> /\ Alone
      /\ leaseLock' \in {leaseLock, s}
  BY DEF Renew, In
<1>2. PICK step \in {"send", "renew"} : Turn(s, step)
  BY DEF Renew
<1>3. AccountKept
  BY <1>1, AloneKept DEF Alone, AccountInv
<1>4. LeaseTypes
  BY <1>1 DEF StreamInv, StreamsTypeOK, LeaseTypes
<1>5. PICK new \in StreamState : /\ Leads(s, new) /\ new.step = step /\ new.kind = stream[s].kind
                                 /\ new.token = stream[s].token /\ new.after = stream[s].after /\ new.left = stream[s].left
  BY <1>2, TurnLeads DEF Steps, EventSteps
<1>6. Ordered(new) /\ (new.after = 1 => ~Holds(new.token)) /\ Balanced(s, new) /\ Slotted(s, new)
  BY <1>1, <1>5, StreamTyped DEF Ordered, EventSteps, Balanced, Slotted, Counts
<1>7. QED BY <1>3, <1>4, <1>5, <1>6, StreamKept DEF AccountKept

LEMMA CountedOnce ==
  ASSUME StreamInv, NEW s \in Stream, stream[s].after = 0
  PROVE  Counted(s) \in {0, 1} /\ (Counted(s) = 1 => ~Holds(stream[s].token))
BY DEF Counted

LEMMA SendKeeps ==
  ASSUME AccountInv, StreamInv, NEW s \in Stream, Send(s)
  PROVE  AccountKept /\ StreamInv'
<1>1. stream[s].step = "send" /\ Unleased /\ UNCHANGED <<sessions, spent>> /\ Alone
  BY DEF Send, In
<1>2. AccountKept
  BY <1>1, AloneKept DEF Alone, AccountInv
<1>3. LeaseTypes /\ UNCHANGED clients
  BY <1>1, LeaseStays DEF Unleased
<1>4. /\ stream \in [Stream -> StreamState] /\ stream[s] \in StreamState /\ stream[s].after = 0
      /\ stream[s].token <= minted /\ stream[s].kind = "events"
  BY <1>1, StreamTyped DEF Ordered, EventSteps
<1>5. CASE Turn(s, "leave")
  <2>1. PICK new \in StreamState : /\ Leads(s, new) /\ new.step = "leave" /\ new.kind = stream[s].kind
                                   /\ new.token = stream[s].token /\ new.after = stream[s].after
                                   /\ new.left = stream[s].left
    BY <1>5, TurnLeads DEF Steps, EventSteps
  <2>2. Ordered(new) /\ (new.after = 1 => ~Holds(new.token)) /\ Balanced(s, new) /\ Slotted(s, new)
    BY <1>1, <1>3, <1>4, <2>1 DEF Ordered, EventSteps, Balanced, Slotted, Counts
  <2>3. QED BY <1>2, <1>3, <2>1, <2>2, StreamKept DEF AccountKept
<1>6. CASE stream' = [stream EXCEPT ![s].step = "loop", ![s].age = 0, ![s].after = Counted(s),
                                    ![s].seen = TRUE]
  <2> DEFINE c == Counted(s)
             new == [stream[s] EXCEPT !.step = "loop", !.age = 0, !.after = c, !.seen = TRUE]
  <2>1. c \in {0, 1} /\ (c = 1 => ~Holds(stream[s].token))
    BY <1>4, CountedOnce
  <2> HIDE DEF c
  <2>2. /\ new \in StreamState /\ new.step = "loop" /\ new.kind = "events" /\ new.token = stream[s].token
        /\ new.after = c
    <3>1. c \in Nat /\ 0 \in 0 .. LeaseSeconds
      BY <2>1, SlotsAreNat
    <3>2. QED BY <1>4, <3>1 DEF StreamState
  <2>3. stream' = [stream EXCEPT ![s] = new]
    BY <1>4, <1>6 DEF c
  <2> HIDE DEF new
  <2>4. Leads(s, new)
    BY <1>4, <2>2, <2>3 DEF Leads
  <2>5. Ordered(new) /\ (new.after = 1 => ~Holds(new.token)) /\ Balanced(s, new) /\ Slotted(s, new)
    BY <1>1, <1>3, <1>4, <2>1, <2>2 DEF Ordered, EventSteps, Balanced, Slotted, Counts
  <2>6. QED BY <1>2, <1>3, <2>2, <2>4, <2>5, StreamKept DEF AccountKept
<1>7. QED BY <1>5, <1>6 DEF Send

LEMMA LeaveKeeps ==
  ASSUME AccountInv, StreamInv, NEW s \in Stream, Leave(s)
  PROVE  AccountKept /\ StreamInv'
<1>1. stream[s].step = "leave" /\ clients' = clients - 1 /\ UNCHANGED <<lease, stray, calm, sessions, spent>> /\ Alone
  BY DEF Leave, In
<1>2. AccountKept
  BY <1>1, AloneKept DEF Alone, AccountInv
<1>3. /\ leaseLock' \in Stream \cup {None} /\ renewIn' \in 0 .. RenewSeconds
      /\ Turn(s, "release") \/ Over(s)
  BY SlotsAreNat DEF Leave, StreamInv, StreamsTypeOK
<1>4. LeaseTypes
  BY <1>1, <1>3 DEF StreamInv, StreamsTypeOK, LeaseTypes
<1>5. Counts(stream[s])
  BY <1>1, StreamTyped DEF Counts, EventSteps
<1>6. CASE Turn(s, "release")
  <2>1. PICK new \in StreamState : /\ Leads(s, new) /\ new.step = "release" /\ new.kind = stream[s].kind
                                   /\ new.token = stream[s].token /\ new.after = stream[s].after
                                   /\ new.left = stream[s].left
    BY <1>6, TurnLeads DEF Steps, EventSteps
  <2>2. Ordered(new) /\ (new.after = 1 => ~Holds(new.token)) /\ Balanced(s, new) /\ Slotted(s, new)
    BY <1>1, <1>5, <2>1, StreamTyped DEF Ordered, EventSteps, Balanced, Slotted, Counts
  <2>3. QED BY <1>2, <1>4, <2>1, <2>2, StreamKept DEF AccountKept
<1>7. CASE Over(s)
  <2>1. Leads(s, Quiet)
    BY <1>7, OverLeads
  <2>2. Balanced(s, Quiet) /\ Slotted(s, Quiet)
    BY <1>1, <1>5, QuietOrdered, QuietIsState DEF Balanced, Slotted
  <2>3. QED BY <1>2, <1>4, <2>1, <2>2, QuietOrdered, QuietIsState, StreamKept DEF AccountKept
<1>8. QED BY <1>3, <1>6, <1>7

LEMMA LeaseReleasedKeeps ==
  ASSUME AccountInv, StreamInv, NEW s \in Stream, LeaseReleased(s)
  PROVE  AccountKept /\ StreamInv'
<1>1. /\ stream[s].step = "release" /\ Asks("release") /\ leaseLock' = None /\ Over(s)
      /\ UNCHANGED <<clients, renewIn, sessions>> /\ Alone
  BY DEF LeaseReleased, In
<1>2. AccountKept
  BY <1>1, AskedSpends, AloneKept DEF Alone
<1>3. LeaseTypes
  BY <1>1, AsksTypes DEF StreamInv, StreamsTypeOK
<1>4. Leads(s, Quiet)
  BY <1>1, OverLeads
<1>5. Balanced(s, Quiet) /\ Slotted(s, Quiet)
  BY <1>1, QuietOrdered, QuietIsState DEF Balanced, Slotted, Counts
<1>6. QED BY <1>2, <1>3, <1>4, <1>5, QuietOrdered, QuietIsState, StreamKept DEF AccountKept

(* What a step of a file transfer makes of its stream.                       *)
FileMove(s, new) ==
  /\ new \in StreamState /\ Leads(s, new) /\ Ordered(new) /\ ~Counts(new)
  /\ new.after = 1 => ~Holds(new.token)
  /\ new.step = "idle" \/ new.kind = "file"

LEMMA FileMoveKept ==
  ASSUME StreamInv, OnlyOlder, LeaseTypes, UNCHANGED clients, NEW s \in Stream, NEW new, FileMove(s, new),
         stream[s].kind = "file", stream[s].step # "idle"
  PROVE  StreamInv'
BY StreamKept DEF FileMove, Balanced, Slotted, Counts

LEMMA TransferKeeps ==
  ASSUME AccountInv, StreamInv, NEW s \in Stream, Transfer(s)
  PROVE  AccountKept /\ StreamInv'
<1>1. Up /\ stream[s].step \in FileSteps /\ Unleased /\ UNCHANGED spent /\ Alone /\ sessions' \in {sessions, Used(stream[s].token)}
  BY DEF Transfer, In, FileSteps
<1>2. AccountKept
  BY <1>1, StreamTyped, AloneKept DEF Alone, AccountInv
<1>3. LeaseTypes /\ UNCHANGED clients
  BY <1>1, LeaseStays DEF Unleased
<1>4. /\ stream \in [Stream -> StreamState] /\ stream[s] \in StreamState /\ stream[s].kind = "file"
      /\ stream[s].token <= minted /\ stream[s].step # "idle" /\ ~Counts(stream[s])
      /\ stream[s].left \in 0 .. Chunks /\ stream[s].after \in {0, 1}
      /\ stream[s].step \in {"chunk", "read"} => stream[s].left > 0
      /\ stream[s].step = "read" => stream[s].after = 0
  BY <1>1, StreamTyped DEF Ordered, FileSteps, Counts, StreamState
<1>5. OnlyOlder /\ stream[s].kind = "file" /\ stream[s].step # "idle"
  BY <1>2, <1>4 DEF AccountKept
<1>6. Over(s) => FileMove(s, Quiet)
  BY OverLeads, QuietOrdered, QuietIsState DEF FileMove
<1>7. CASE stream[s].step = "info" /\ stream' = [stream EXCEPT ![s].step = "chunk", ![s].left = Chunks]
  <2> DEFINE new == [stream[s] EXCEPT !.step = "chunk", !.left = Chunks]
  <2>1. /\ new \in StreamState /\ new.step = "chunk" /\ new.kind = "file" /\ new.left = Chunks
        /\ new.token = stream[s].token /\ new.after = stream[s].after
    <3>1. Chunks \in 0 .. Chunks
      BY SlotsAreNat
    <3>2. QED BY <1>4, <3>1 DEF StreamState
  <2>2. stream' = [stream EXCEPT ![s] = new]
    BY <1>4, <1>7
  <2> HIDE DEF new
  <2>3. Leads(s, new)
    BY <1>4, <2>1, <2>2 DEF Leads
  <2>4. FileMove(s, new)
    BY <1>4, <2>1, <2>3, StreamTyped, SlotsAreNat DEF FileMove, Ordered, FileSteps, Counts
  <2>5. QED BY <1>2, <1>3, <1>5, <2>4, FileMoveKept
<1>8. CASE stream[s].step = "chunk" /\ Turn(s, "read") /\ Holds(stream[s].token)
  <2>1. PICK new \in StreamState : /\ Leads(s, new) /\ new.step = "read" /\ new.kind = stream[s].kind
                                   /\ new.token = stream[s].token /\ new.after = stream[s].after
                                   /\ new.left = stream[s].left
    BY <1>8, TurnLeads DEF Steps, FileSteps
  <2>2. new.after = 0
    BY <1>4, <1>8, <2>1, StreamTyped
  <2>3. FileMove(s, new)
    BY <1>4, <1>8, <2>1, <2>2 DEF FileMove, Ordered, FileSteps, Counts
  <2>4. QED BY <1>2, <1>3, <1>5, <2>3, FileMoveKept
<1>9. CASE stream[s].step = "read" /\ stream[s].left = 1 /\ stream' = [stream EXCEPT ![s] = [Quiet EXCEPT !.after = Counted(s)]]
  <2> DEFINE c == Counted(s)
             new == [Quiet EXCEPT !.after = c]
  <2>1. c \in {0, 1}
    BY <1>4, <1>9, CountedOnce
  <2> HIDE DEF c
  <2>2. /\ new \in StreamState /\ new.step = "idle" /\ new.kind = "events" /\ new.token = 0 /\ new.after = c
    BY <2>1, QuietIsState DEF StreamState
  <2>3. stream' = [stream EXCEPT ![s] = new]
    BY <1>9 DEF c
  <2> HIDE DEF new
  <2>4. Leads(s, new)
    BY <1>4, <2>2, <2>3 DEF Leads
  <2>5. ~Holds(0) /\ 0 <= minted
    BY DEF Holds, AccountInv, StoreInv, StoreOK
  <2>6. FileMove(s, new)
    BY <2>1, <2>2, <2>4, <2>5 DEF FileMove, Ordered, EventSteps, Counts
  <2>7. QED BY <1>2, <1>3, <1>5, <2>6, FileMoveKept
<1>10. CASE /\ stream[s].step = "read" /\ stream[s].left # 1
            /\ stream' = [stream EXCEPT ![s].step = "chunk", ![s].left = @ - 1, ![s].after = Counted(s)]
  <2> DEFINE c == Counted(s)
             l == stream[s].left - 1
             new == [stream[s] EXCEPT !.step = "chunk", !.left = l, !.after = c]
  <2>1. c \in {0, 1} /\ (c = 1 => ~Holds(stream[s].token)) /\ l \in 0 .. Chunks /\ l > 0
    BY <1>4, <1>10, CountedOnce, SlotsAreNat
  <2>2. stream' = [stream EXCEPT ![s] = new]
    BY <1>4, <1>10
  <2> HIDE DEF c, l
  <2>3. /\ new \in StreamState /\ new.step = "chunk" /\ new.kind = "file" /\ new.left = l
        /\ new.token = stream[s].token /\ new.after = c
    <3>1. c \in Nat
      BY <2>1
    <3>2. QED BY <1>4, <2>1, <3>1 DEF StreamState
  <2> HIDE DEF new
  <2>4. Leads(s, new)
    BY <1>4, <2>2, <2>3 DEF Leads
  <2>5. FileMove(s, new)
    BY <1>4, <2>1, <2>3, <2>4 DEF FileMove, Ordered, FileSteps, Counts
  <2>6. QED BY <1>2, <1>3, <1>5, <2>5, FileMoveKept
<1>11. CASE Over(s)
  BY <1>2, <1>3, <1>5, <1>6, <1>11, FileMoveKept
<1>12. QED BY <1>7, <1>8, <1>9, <1>10, <1>11 DEF Transfer, In, Authorized, Over

LEMMA SecondKeeps ==
  ASSUME AccountInv, StreamInv, Second
  PROVE  AccountKept /\ StreamInv'
<1>1. UNCHANGED <<leaseLock, clients, stray, sessions, spent>> /\ Alone
  BY DEF Second
<1>2. AccountKept
  BY <1>1, AloneKept DEF Alone, AccountInv
<1>3. lease' \in 0 .. LeaseSeconds /\ renewIn' \in 0 .. RenewSeconds
  BY SlotsAreNat DEF Second, Passed, StreamInv, StreamsTypeOK
<1>4. calm' \in 0 .. LeaseSeconds
  <2>1. calm \in Nat /\ LeaseSeconds \in Nat /\ calm + 1 \in Nat
    BY SlotsAreNat DEF StreamInv, StreamsTypeOK
  <2>2. Min({LeaseSeconds, calm + 1}) \in 0 .. LeaseSeconds
    BY <2>1, MinOfTwo
  <2>3. QED BY <2>1, <2>2 DEF Second
<1>5. LeaseTypes
  BY <1>1, <1>3, <1>4 DEF LeaseTypes, StreamInv, StreamsTypeOK
<1>6. \A s \in Stream : stream'[s] \in StreamState /\ SameBut(stream'[s], stream[s])
  <2> SUFFICES ASSUME NEW s \in Stream PROVE stream'[s] \in StreamState /\ SameBut(stream'[s], stream[s])
    OBVIOUS
  <2> DEFINE a == Min({LeaseSeconds, stream[s].age + 1})
  <2>1. stream[s] \in StreamState
    BY StreamTyped
  <2>2. a \in 0 .. LeaseSeconds
    <3>1. LeaseSeconds \in Nat
      BY SlotsAreNat
    <3>2. stream[s].age \in Nat /\ stream[s].age + 1 \in Nat
      BY <2>1, <3>1 DEF StreamState
    <3>3. QED BY <3>1, <3>2, MinOfTwo
  <2>3. stream'[s] = [stream[s] EXCEPT !.age = a] \/ stream'[s] = stream[s]
    BY DEF Second
  <2> HIDE DEF a
  <2>4. QED BY <2>1, <2>2, <2>3 DEF StreamState, SameBut
<1>7. stream' \in [Stream -> StreamState]
  <2>1. DOMAIN stream' = Stream
    BY DEF Second
  <2>2. stream' = [s \in Stream |-> stream'[s]]
    BY DEF Second
  <2>3. QED BY <1>6, <2>2
<1>8. QED BY <1>1, <1>2, <1>5, <1>6, <1>7, StreamsAge DEF AccountKept

LEMMA StreamStepKeeps ==
  ASSUME AccountInv, StreamInv, StreamStep
  PROVE  AccountKept /\ StreamInv'
<1>1. ASSUME NEW s \in Stream,
             \/ Open(s) \/ Enter(s) \/ LeaseAsked(s) \/ Loop(s) \/ Renew(s) \/ Send(s)
             \/ Leave(s) \/ LeaseReleased(s) \/ Transfer(s)
      PROVE  AccountKept /\ StreamInv'
  <2>1. CASE Open(s) BY <2>1, OpenKeeps
  <2>2. CASE Enter(s) BY <2>2, EnterKeeps
  <2>3. CASE LeaseAsked(s) BY <2>3, LeaseAskedKeeps
  <2>4. CASE Loop(s) BY <2>4, LoopKeeps
  <2>5. CASE Renew(s) BY <2>5, RenewKeeps
  <2>6. CASE Send(s) BY <2>6, SendKeeps
  <2>7. CASE Leave(s) BY <2>7, LeaveKeeps
  <2>8. CASE LeaseReleased(s) BY <2>8, LeaseReleasedKeeps
  <2>9. CASE Transfer(s) BY <2>9, TransferKeeps
  <2>10. QED BY <1>1, <2>1, <2>2, <2>3, <2>4, <2>5, <2>6, <2>7, <2>8, <2>9
<1>2. CASE StrayExecuted BY <1>2, StrayExecutedKeeps
<1>3. CASE Second BY <1>3, SecondKeeps
<1>4. QED BY <1>1, <1>2, <1>3 DEF StreamStep

LEMMA StreamsGoneOK ==
  ASSUME AccountKept, StreamInv, StreamsGone
  PROVE  StreamInv'
<1>1. /\ stream' \in [Stream -> StreamState] /\ \A s \in Stream : stream'[s] = Quiet
      /\ clients' = 0 /\ leaseLock' = None /\ renewIn' = 0 /\ UNCHANGED <<lease, stray, calm>>
  BY QuietIsState DEF StreamsGone
<1>2. StreamsOrdered'
  BY <1>1, QuietIsState DEF StreamsOrdered, Ordered, EventSteps, AccountKept, OnlyOlder
<1>3. Counting' = {} /\ \A k \in {"events", "file"} : Taken(k)' = {}
  BY <1>1, QuietIsState DEF Counting, Counts, Taken
<1>4. Cardinality({}) = 0
  BY FS_EmptySet
<1>5. SlotsKept'
  BY <1>3, <1>4, SlotsAreNat DEF SlotsKept, Slots
<1>6. StreamsTypeOK'
  BY <1>1, SlotsAreNat DEF StreamInv, StreamsTypeOK
<1>7. QED BY <1>1, <1>2, <1>3, <1>4, <1>5, <1>6 DEF StreamInv

LEMMA NextKeeps ==
  ASSUME AccountInv, StreamInv, [Next]_vars
  PROVE  AccountKept /\ StreamInv'
<1>1. CASE UNCHANGED <<scenario, securityVars, accountVars, streamVars>>
  <2>1. /\ UNCHANGED <<handler, lock, memory, web, directory, passwd, unannounced, minted, windows, scenario, sessions, spent>>
        /\ UNCHANGED streamVars
    BY <1>1 DEF securityVars, accountVars
  <2>2. AccountKept
    BY <2>1, AloneKept DEF AccountInv
  <2>3. QED BY <2>1, <2>2, StreamsUnchanged DEF AccountKept
<1>2. CASE AccountStep /\ UNCHANGED streamVars
  BY <1>2, AccountStepKeeps, StreamsUnchanged DEF AccountKept
<1>3. CASE StreamStep
  BY <1>3, StreamStepKeeps
<1>4. CASE WebEnds
  <2>1. AccountKept
    BY <1>4, WebDiesKeeps, PowerLossKeeps, PasswdRestartsKeeps DEF WebEnds
  <2>2. StreamsGone \/ UNCHANGED streamVars
    BY <1>4 DEF WebEnds
  <2>3. QED BY <2>1, <2>2, StreamsGoneOK, StreamsUnchanged DEF AccountKept
<1>5. QED BY <1>1, <1>2, <1>3, <1>4 DEF Next, Web, vars

LEMMA InitHolds ==
  ASSUME Init
  PROVE  AccountInv /\ StreamInv
<1> DEFINE n == scenario.sessions
           full == Full(memory)
<1>1. /\ scenario \in Scenarios /\ n \in 0 .. SessionsMax /\ scenario.disk \in Directory /\ Startable(scenario.disk)
      /\ (scenario.disk.credential = NoRecord => n = 0)
  BY ScenariosAssumption DEF Init, Scenario
<1>2. /\ handler = [h \in Handler |-> Free] /\ lock = None /\ web = "up"
      /\ directory = <<scenario.disk>> /\ memory = scenario.disk.credential
      /\ passwd = "idle" /\ unannounced = FALSE /\ windows = <<>> /\ minted = n
      /\ sessions = [t \in 1 .. n |-> [full EXCEPT !.older = 1 .. t - 1]]
      /\ spent = [minutes |-> 0, requests |-> 0, failures |-> 0, records |-> scenario.disk.credential,
                  commands |-> 0, crashes |-> 0]
  BY DEF Init, AccountInit
<1>3. n \in Nat /\ n <= SessionsMax /\ memory \in Record /\ minted \in Nat
  BY <1>1, <1>2, TimesAreNat DEF Directory
<1>4. full \in SessionEntry /\ full.idle <= full.absolute /\ full.record = memory
  BY <1>3, TimesAreNat DEF Full, SessionEntry
<1> HIDE DEF full
<1>5. DOMAIN sessions = 1 .. n /\ \A t \in 1 .. n : sessions[t] = [full EXCEPT !.older = 1 .. t - 1]
  BY <1>2
<1>6. \A t \in 1 .. n : /\ sessions[t] \in SessionEntry /\ sessions[t].idle <= sessions[t].absolute
                        /\ sessions[t].older = 1 .. t - 1 /\ sessions[t].record = memory
  <2> SUFFICES ASSUME NEW t \in 1 .. n
               PROVE  /\ sessions[t] \in SessionEntry /\ sessions[t].idle <= sessions[t].absolute
                      /\ sessions[t].older = 1 .. t - 1 /\ sessions[t].record = memory
    OBVIOUS
  <2>1. 1 .. t - 1 \in SUBSET Nat
    BY <1>3
  <2>2. QED BY <1>4, <1>5, <2>1 DEF SessionEntry
<1> HIDE DEF n
<1>7. StoreOK(sessions, minted)
  <2>1. \A t, u \in 1 .. n :
          /\ t # u => (t \in 1 .. u - 1 <=> u \notin 1 .. t - 1)
          /\ t \in 1 .. u - 1 => 1 .. t - 1 \subseteq 1 .. u - 1
    BY <1>3
  <2>2. \A t \in 1 .. n : 1 .. t - 1 \subseteq 1 .. n \ {t}
    BY <1>3
  <2>3. minted = n
    BY <1>2 DEF n
  <2>4. QED BY <1>5, <1>6, <2>1, <2>2, <2>3 DEF StoreOK
<1>8. StoreInv
  <2>1. Cardinality(1 .. n) = n
    BY <1>3, FS_Interval
  <2>2. QED BY <1>3, <1>5, <1>7, <2>1 DEF StoreInv
<1>9. WindowsOK(windows)
  BY <1>2, NoWindowsOK
<1>10. spent \in [Counter -> Nat]
  <2>1. scenario.disk.credential \in Nat
    BY <1>1 DEF Directory, Record
  <2>2. QED BY <1>2, <2>1 DEF Counter
<1>11. AccountTypeOK
  <2>1. directory \in Seq(Directory) /\ directory # <<>>
    BY <1>1, <1>2
  <2>2. QED BY <1>2, <1>3, <2>1, FreeIsThread DEF AccountTypeOK, Passwd
<1>12. Last(directory) = scenario.disk /\ Range(directory) = {scenario.disk}
  BY <1>2 DEF Last, Range
<1>13. Shape /\ LockHeld /\ DownIsEmpty
  BY <1>2, FreeIsThread, AccountAssumption DEF Shape, LockHeld, DownIsEmpty, Fit, Locked
<1>14. MemoryHeld
  <2>1. \A t \in DOMAIN sessions : sessions[t].record = memory /\ memory # NoRecord
    BY <1>1, <1>2, <1>3, <1>5, <1>6
  <2>2. QED BY <1>2, <1>12, <2>1, FreeIsThread DEF MemoryHeld, Current
<1>15. DiskHeld
  BY <1>1, <1>2, <1>12, FreeIsThread DEF DiskHeld, StartAlwaysPossible
<1>16. AccountInv
  BY <1>1, <1>8, <1>9, <1>10, <1>11, <1>13, <1>14, <1>15 DEF AccountInv
<1>17. StreamInv
  <2>1. /\ stream \in [Stream -> StreamState] /\ \A s \in Stream : stream[s] = Quiet
        /\ leaseLock = None /\ clients = 0 /\ renewIn = 0 /\ lease = 0 /\ stray = {} /\ calm = LeaseSeconds
    BY QuietIsState DEF Init, StreamsInit
  <2>2. StreamsOrdered
    BY <1>3, <2>1, QuietIsState DEF StreamsOrdered, Ordered, EventSteps
  <2>3. Counting = {} /\ \A k \in {"events", "file"} : Taken(k) = {}
    BY <2>1, QuietIsState DEF Counting, Counts, Taken
  <2>4. Cardinality({}) = 0
    BY FS_EmptySet
  <2>5. SlotsKept
    BY <2>3, <2>4, SlotsAreNat DEF SlotsKept
  <2>6. StreamsTypeOK
    BY <2>1, SlotsAreNat DEF StreamsTypeOK
  <2>7. QED BY <2>1, <2>2, <2>3, <2>4, <2>5, <2>6 DEF StreamInv
<1>18. QED BY <1>16, <1>17

-----------------------------------------------------------------------------
(* The password slots: whoever takes one found it free, and nobody else      *)
(* takes one in that step.                                                   *)
SlotHolders == {h \in Handler : handler[h].slot}

LEMMA FewerSlots ==
  ASSUME SlotsBounded, \A g \in Handler : handler'[g].slot => handler[g].slot
  PROVE  SlotsBounded'
<1>1. SlotHolders' \subseteq SlotHolders
  BY DEF SlotHolders
<1>2. IsFiniteSet(SlotHolders)
  BY ThreadsAssumption, FS_Subset DEF SlotHolders
<1>3. /\ Cardinality(SlotHolders) \in Nat /\ Cardinality(SlotHolders') \in Nat
      /\ Cardinality(SlotHolders') <= Cardinality(SlotHolders)
  BY <1>1, <1>2, FS_Subset, FS_CardinalityType
<1>4. SlotsBounded <=> Cardinality(SlotHolders) <= PasswordSlots
  BY DEF SlotsBounded, SlotHolders
<1>5. SlotsBounded' <=> Cardinality(SlotHolders') <= PasswordSlots
  BY DEF SlotsBounded, SlotHolders
<1>6. QED BY <1>3, <1>4, <1>5, AccountAssumption

LEMMA OneMoreSlot ==
  ASSUME SlotFree, NEW h \in Handler, \A g \in Handler \ {h} : handler'[g].slot => handler[g].slot
  PROVE  SlotsBounded'
<1>1. SlotHolders' \subseteq SlotHolders \cup {h}
  BY DEF SlotHolders
<1>2. IsFiniteSet(SlotHolders)
  BY ThreadsAssumption, FS_Subset DEF SlotHolders
<1>3. Cardinality(SlotHolders) \in Nat /\ Cardinality(SlotHolders) < PasswordSlots
  BY <1>2, FS_CardinalityType DEF SlotFree, SlotHolders
<1>4. /\ IsFiniteSet(SlotHolders \cup {h})
      /\ Cardinality(SlotHolders \cup {h}) \in {Cardinality(SlotHolders), Cardinality(SlotHolders) + 1}
  BY <1>2, FS_AddElement
<1>5. /\ Cardinality(SlotHolders') \in Nat
      /\ Cardinality(SlotHolders') <= Cardinality(SlotHolders \cup {h})
  BY <1>1, <1>4, FS_Subset, FS_CardinalityType
<1>6. Cardinality(SlotHolders') <= PasswordSlots
  BY <1>3, <1>4, <1>5, AccountAssumption
<1>7. QED BY <1>6 DEF SlotsBounded, SlotHolders

LEMMA SlotsKeep ==
  ASSUME AccountInv, SlotsBounded, [Next]_vars
  PROVE  SlotsBounded'
<1>1. handler \in [Handler -> Thread] /\ Free.slot = FALSE
  BY DEF AccountInv, AccountTypeOK, Free
<1>2. ASSUME NEW h \in Handler, Done(h) PROVE SlotsBounded'
  BY <1>1, <1>2, FewerSlots DEF Done
<1>3. ASSUME NEW h \in Handler, NEW step, Go(h, step) PROVE SlotsBounded'
  <2>1. \A g \in Handler : handler'[g].slot = handler[g].slot
    BY <1>1, <1>3 DEF Go, Thread
  <2>2. QED BY <2>1, FewerSlots
<1>4. CASE UNCHANGED handler
  BY <1>4, FewerSlots
<1>5. ASSUME NEW h \in Handler, NEW begun, handler' = [handler EXCEPT ![h] = begun], SlotFree PROVE SlotsBounded'
  BY <1>1, <1>5, OneMoreSlot
<1>6. ASSUME NEW h \in Handler, Login(h) PROVE SlotsBounded'
  <2>1. UNCHANGED handler \/ (SlotFree /\ \E begun : handler' = [handler EXCEPT ![h] = begun])
    BY <1>6 DEF Login
  <2>2. QED BY <2>1, <1>4, <1>5
<1>7. ASSUME NEW h \in Handler, Setup(h) PROVE SlotsBounded'
  <2>1. UNCHANGED handler \/ (SlotFree /\ \E begun : handler' = [handler EXCEPT ![h] = begun])
    BY <1>7 DEF Setup
  <2>2. QED BY <2>1, <1>4, <1>5
<1>8. ASSUME NEW h \in Handler, Request(h) PROVE SlotsBounded'
  <2>1. PICK k, t, p : handler' = IF Holds(t)
                                 THEN [handler EXCEPT ![h] = [Free EXCEPT !.kind = k, !.token = t, !.password = p,
                                                                !.step = "check"]]
                                 ELSE handler
    BY <1>8 DEF Request
  <2>2. \A g \in Handler : handler'[g].slot => handler[g].slot
    BY <1>1, <2>1 DEF Free
  <2>3. QED BY <2>2, FewerSlots
<1>9. ASSUME NEW h \in Handler, NEW record, handler' = [handler EXCEPT ![h].step = "adopt", ![h].record = record]
      PROVE  SlotsBounded'
  <2>1. \A g \in Handler : handler'[g].slot = handler[g].slot
    BY <1>1, <1>9 DEF Thread
  <2>2. QED BY <2>1, FewerSlots
<1>10. ASSUME NEW h \in Handler, LoginVerify(h) \/ LoginOpens(h) \/ CheckCsrf(h) \/ SessionRotate(h) \/ Logout(h)
       PROVE  SlotsBounded'
  <2>1. Done(h) \/ \E step : Go(h, step)
    BY <1>10 DEF LoginVerify, LoginOpens, CheckCsrf, SessionRotate, Logout
  <2>2. QED BY <2>1, <1>2, <1>3
<1>11. ASSUME NEW h \in Handler, Reauthorize(h) \/ MaintenanceAsked(h) \/ Adopt(h) \/ SetupLoad(h) \/ SetupFinish(h)
       PROVE  SlotsBounded'
  <2>1. Done(h) \/ \E step : Go(h, step)
    BY <1>11 DEF Reauthorize, MaintenanceAsked, Adopt, SetupLoad, SetupFinish
  <2>2. QED BY <2>1, <1>2, <1>3
<1>12. ASSUME NEW h \in Handler, PasswordWrite(h) \/ SetupPublish(h) PROVE SlotsBounded'
  <2>1. Done(h) \/ \E record : handler' = [handler EXCEPT ![h].step = "adopt", ![h].record = record]
    BY <1>12 DEF PasswordWrite, SetupPublish
  <2>2. QED BY <2>1, <1>2, <1>9
<1>13. CASE handler' = [h \in Handler |-> Free]
  BY <1>1, <1>13, FewerSlots
<1>14. CASE AccountStep
  <2>1. PasswdBegins \/ PasswdWrites \/ PasswdFinishes \/ WebStarts => UNCHANGED handler
    BY DEF PasswdBegins, PasswdWrites, PasswdFinishes, WebStarts, Beside
  <2>2. PasswdRestarts => UNCHANGED handler \/ handler' = [h \in Handler |-> Free]
    BY DEF PasswdRestarts, Gone
  <2>3. Minute /\ UNCHANGED accountVars => UNCHANGED handler
    BY DEF accountVars
  <2>4. QED BY <1>4, <1>6, <1>7, <1>8, <1>10, <1>11, <1>12, <1>13, <1>14, <2>1, <2>2, <2>3 DEF AccountStep
<1>15. CASE StreamStep
  <2>1. UNCHANGED handler
    BY <1>15 DEF StreamStep, Open, Enter, LeaseAsked, StrayExecuted, Loop, Renew, Send, Leave, LeaseReleased, Transfer, Second, Alone
  <2>2. QED BY <1>4, <2>1
<1>16. CASE WebEnds
  <2>1. UNCHANGED handler \/ handler' = [h \in Handler |-> Free]
    BY <1>16 DEF WebEnds, WebDies, PowerLoss, PasswdRestarts, Gone
  <2>2. QED BY <1>4, <1>13, <2>1
<1>17. CASE UNCHANGED <<scenario, securityVars, accountVars, streamVars>>
  BY <1>4, <1>17 DEF accountVars
<1>18. QED BY <1>14, <1>15, <1>16, <1>17 DEF Next, Web, vars

LEMMA SlotsStart == Init => SlotsBounded
<1> SUFFICES ASSUME Init PROVE SlotsBounded
  OBVIOUS
<1>1. SlotHolders = {}
  BY DEF SlotHolders, Init, AccountInit, Free
<1>2. Cardinality(SlotHolders) = 0
  BY <1>1, FS_EmptySet
<1>3. QED BY <1>2, AccountAssumption DEF SlotsBounded, SlotHolders

-----------------------------------------------------------------------------
(* The invariant says what the runs check.                                   *)
LEMMA InvariantSays ==
  ASSUME AccountInv, StreamInv, SlotsBounded
  PROVE  AccountSound
<1>1. SecurityTypeOK /\ AccountTypeOK /\ StreamsTypeOK
  BY DEF AccountInv, StoreInv, SecurityTypeOK, StreamInv
<1>2. ClientsCounted
  <2>1. Counting = {s \in Stream : stream[s].kind = "events" /\ stream[s].step \notin {"idle", "enter", "release"}}
    BY DEF Counting, Counts
  <2>2. QED BY <2>1 DEF StreamInv, ClientsCounted
<1>3. SessionsHoldThePassword /\ StartAlwaysPossible /\ LockHeld
  BY DEF AccountInv, MemoryHeld, DiskHeld, SessionsHoldThePassword
<1>4. QED BY <1>1, <1>2, <1>3 DEF AccountSound

LEMMA InvariantHolds == Spec => [](AccountInv /\ StreamInv)
<1>1. Init => AccountInv /\ StreamInv
  BY InitHolds
<1>2. AccountInv /\ StreamInv /\ [Next]_vars => (AccountInv /\ StreamInv)'
  BY NextKeeps DEF AccountKept
<1>3. QED BY <1>1, <1>2, PTL DEF Spec

(* The credential lock, the password slots, sessions and the directory are    *)
(* what the requests in progress say: the lock belongs to the one thread that *)
(* acts on a password found right, no more passwords are in the works than    *)
(* there are slots, no session outlives the password it was opened with but   *)
(* behind an administrator's passwd command, and whatever a loss of power     *)
(* leaves can be started from (web_service.py, web_security.py).             *)
THEOREM AccountIsSound == Spec => []AccountSound
<1>1. AccountInv /\ StreamInv /\ SlotsBounded => AccountSound
  BY InvariantSays
<1>2. AccountInv /\ SlotsBounded /\ [Next]_vars => SlotsBounded'
  BY SlotsKeep
<1>3. Spec => []SlotsBounded
  BY <1>2, SlotsStart, InvariantHolds, PTL DEF Spec
<1>4. QED BY <1>1, <1>3, InvariantHolds, PTL

(* An event stream or a transfer whose session has ended, by a logout, a      *)
(* rotation, the clock or a new password, sends once more at most             *)
(* (web_service.py, _events and _storage_file).                              *)
THEOREM RevokedStreamsStop == Spec => []RevokedStops
<1>1. AccountInv /\ StreamInv => RevokedStops
  BY DEF RevokedStops, StreamInv, StreamsOrdered, Ordered
<1>2. QED BY <1>1, InvariantHolds, PTL

-----------------------------------------------------------------------------
(* The lease. A stream that was sent something has asked for the lease or     *)
(* seen it renewed. While the next renewal is to come, the lease has what is  *)
(* left of it and more; once it is due, whoever goes round next renews it, and *)
(* a stream cannot miss two rounds while seconds are prompt.                 *)
Holding == {"force", "renew", "release"}
Rounds == {"loop", "due", "renew", "send"}

LeaseHeld == \A s \in Stream : stream[s].step \in Holding <=> leaseLock = s

ReleasedAlone == \A s \in Stream : stream[s].step = "release" => clients = 0 /\ renewIn = 0

LeaseFresh ==
  renewIn > 0 /\ calm > RenewSeconds - renewIn => lease >= LeaseSeconds - RenewSeconds + renewIn

Unseen(x) == (x.step \in {"idle", "enter", "force"} => ~x.seen) /\ (x.step = "idle" => x.age = 0)
Prompt(x, c) == c > 0 => x.age <= 1
DueSend(x, c, l) == x.step = "send" => x.age > 0 /\ (c > RenewSeconds => l >= LeaseSeconds - RenewSeconds)
DueRound(x, c, l) ==
  x.step \in Rounds /\ x.seen =>
    /\ c > RenewSeconds /\ x.age = 0 => l >= LeaseSeconds - RenewSeconds
    /\ c > RenewSeconds + 1 => l >= LeaseSeconds - RenewSeconds - 1

Fits(x, c, r, l) == Unseen(x) /\ Prompt(x, c) /\ (r = 0 => DueSend(x, c, l) /\ DueRound(x, c, l))

StreamsFit == \A s \in Stream : Fits(stream[s], calm, renewIn, lease)

LeaseInv == LeaseHeld /\ ReleasedAlone /\ LeaseFresh /\ StreamsFit

LEMMA LeaseNumbers ==
  ASSUME StreamInv
  PROVE  /\ LeaseSeconds \in Nat \ {0} /\ RenewSeconds \in Nat \ {0}
         /\ lease \in Nat /\ renewIn \in Nat /\ calm \in Nat /\ clients \in Nat
         /\ lease <= LeaseSeconds /\ renewIn <= RenewSeconds /\ calm <= LeaseSeconds
         /\ leaseLock \in Stream \cup {None} /\ None \notin Stream
<1>1. LeaseSeconds \in Nat \ {0} /\ RenewSeconds \in Nat \ {0} /\ None \notin Stream
  BY StreamsAssumption
<1>2. QED BY <1>1, SlotsAreNat DEF StreamInv, StreamsTypeOK

LEMMA QuietFits ==
  ASSUME NEW c \in Nat, NEW r, NEW l
  PROVE  Fits(Quiet, c, r, l)
BY QuietIsState DEF Fits, Unseen, Prompt, DueSend, DueRound, Rounds

(* One stream goes on, alone with the lock if it takes or gives it.          *)
LEMMA LeaseKept ==
  ASSUME StreamInv, LeaseInv, NEW s \in Stream, NEW new, Leads(s, new),
         leaseLock' = leaseLock \/ (leaseLock \in {None, s} /\ leaseLock' \in {None, s}),
         new.step \in Holding <=> leaseLock' = s,
         UNCHANGED <<clients, renewIn>> \/ leaseLock = None \/ leaseLock = s,
         new.step = "release" => clients' = 0 /\ renewIn' = 0,
         LeaseFresh', Fits(new, calm', renewIn', lease'),
         \A o \in Stream \ {s} : Fits(stream[o], calm', renewIn', lease')
  PROVE  LeaseInv'
<1>1. stream'[s] = new /\ (\A o \in Stream \ {s} : stream'[o] = stream[o]) /\ None \notin Stream
  BY StreamsAssumption DEF Leads
<1>2. LeaseHeld'
  BY <1>1 DEF LeaseInv, LeaseHeld
<1>3. ReleasedAlone'
  <2> SUFFICES ASSUME NEW o \in Stream, stream'[o].step = "release" PROVE clients' = 0 /\ renewIn' = 0
    BY DEF ReleasedAlone
  <2>1. CASE o = s
    BY <1>1, <2>1
  <2>2. CASE o # s
    <3>1. stream[o].step = "release" /\ leaseLock = o
      BY <1>1, <2>2 DEF LeaseInv, LeaseHeld, Holding
    <3>2. UNCHANGED <<clients, renewIn>>
      BY <1>1, <2>2, <3>1
    <3>3. QED BY <3>1, <3>2 DEF LeaseInv, ReleasedAlone
  <2>3. QED BY <2>1, <2>2
<1>4. \A o \in Stream : Fits(stream'[o], calm', renewIn', lease')
  BY <1>1
<1>5. StreamsFit'
  BY <1>4 DEF StreamsFit, Fits, Unseen, Prompt, DueSend, DueRound
<1>6. QED BY <1>2, <1>3, <1>5 DEF LeaseInv

(* The lease as it was, and a stream that takes no part in it.               *)
LEMMA UnleasedKeeps ==
  ASSUME StreamInv, LeaseInv, NEW s \in Stream, NEW new, Leads(s, new), UNCHANGED <<clients, renewIn, lease, calm>>,
         leaseLock' = leaseLock, new.step \notin Holding, stream[s].step \notin Holding,
         Fits(new, calm, renewIn, lease)
  PROVE  LeaseInv'
<1>1. leaseLock # s
  BY DEF LeaseInv, LeaseHeld
<1>2. LeaseFresh' /\ \A o \in Stream : Fits(stream[o], calm', renewIn', lease')
  BY DEF LeaseInv, LeaseFresh, StreamsFit
<1>3. new.step # "release"
  BY DEF Holding
<1>4. QED BY <1>1, <1>2, <1>3, LeaseKept

LEMMA LeaseStarts ==
  ASSUME Init, StreamInv
  PROVE  LeaseInv
<1>1. /\ \A s \in Stream : stream[s] = Quiet
      /\ leaseLock = None /\ renewIn = 0 /\ None \notin Stream
  BY StreamsAssumption DEF Init, StreamsInit
<1>2. LeaseHeld /\ ReleasedAlone /\ LeaseFresh
  BY <1>1, QuietIsState DEF LeaseHeld, ReleasedAlone, LeaseFresh, Holding
<1>3. StreamsFit
  BY <1>1, QuietFits, LeaseNumbers DEF StreamsFit
<1>4. QED BY <1>2, <1>3 DEF LeaseInv

LEMMA LeaseRests ==
  ASSUME LeaseInv, UNCHANGED streamVars
  PROVE  LeaseInv'
<1>1. UNCHANGED <<stream, leaseLock, clients, renewIn, lease, calm>>
  BY DEF streamVars
<1>2. LeaseHeld' /\ ReleasedAlone' /\ LeaseFresh'
  BY <1>1 DEF LeaseInv, LeaseHeld, ReleasedAlone, LeaseFresh
<1>3. StreamsFit'
  BY <1>1 DEF LeaseInv, StreamsFit, Fits, Unseen, Prompt, DueSend, DueRound
<1>4. QED BY <1>2, <1>3 DEF LeaseInv

LEMMA LeaseGone ==
  ASSUME StreamInv, LeaseInv, StreamsGone
  PROVE  LeaseInv'
<1>1. /\ \A s \in Stream : stream'[s] = Quiet
      /\ leaseLock' = None /\ renewIn' = 0 /\ clients' = 0 /\ None \notin Stream /\ calm' = calm
  BY StreamsAssumption DEF StreamsGone
<1>2. LeaseHeld' /\ ReleasedAlone' /\ LeaseFresh'
  BY <1>1, QuietIsState DEF LeaseHeld, ReleasedAlone, LeaseFresh, Holding
<1>3. \A s \in Stream : Fits(stream'[s], calm', renewIn', lease')
  BY <1>1, QuietFits, LeaseNumbers
<1>4. StreamsFit'
  BY <1>3 DEF StreamsFit, Fits, Unseen, Prompt, DueSend, DueRound
<1>5. QED BY <1>2, <1>4 DEF LeaseInv

LEMMA OpenLease ==
  ASSUME AccountInv, StreamInv, LeaseInv, NEW s \in Stream, Open(s)
  PROVE  LeaseInv'
<1>1. stream[s].step = "idle" /\ Unleased
  BY DEF Open, In
<1>2. PICK t \in 1 .. minted, k \in {"events", "file"} :
        \/ stream' = stream
        \/ stream' = [stream EXCEPT ![s] = [Quiet EXCEPT !.kind = k, !.token = t,
                                              !.step = IF k = "events" THEN "enter" ELSE "info"]]
  BY AddressesFit DEF Open, Scenario
<1>3. CASE stream' = stream
  BY <1>1, <1>3, LeaseRests DEF Unleased, streamVars
<1>4. CASE stream' # stream
  <2> DEFINE step == IF k = "events" THEN "enter" ELSE "info"
             new == [Quiet EXCEPT !.kind = k, !.token = t, !.step = step]
  <2>1. stream' = [stream EXCEPT ![s] = new]
    BY <1>2, <1>4
  <2>2. /\ new \in StreamState /\ new.step = step /\ new.age = 0 /\ ~new.seen
    <3>1. t \in Nat
      OBVIOUS
    <3>2. QED BY <3>1, QuietIsState DEF StreamState
  <2> HIDE DEF new
  <2>3. Leads(s, new)
    BY <2>1, <2>2, StreamTyped DEF Leads
  <2>4. Fits(new, calm, renewIn, lease)
    BY <2>2 DEF Fits, Unseen, Prompt, DueSend, DueRound, Rounds
  <2>5. new.step \notin Holding /\ stream[s].step \notin Holding
    BY <1>1, <2>2 DEF Holding
  <2>6. QED BY <1>1, <2>3, <2>4, <2>5, UnleasedKeeps DEF Unleased
<1>5. QED BY <1>3, <1>4

LEMMA TransferLease ==
  ASSUME StreamInv, LeaseInv, NEW s \in Stream, Transfer(s)
  PROVE  LeaseInv'
<1>1. stream[s].step \in FileSteps /\ Unleased
  BY DEF Transfer, In, FileSteps
<1>2. stream \in [Stream -> StreamState] /\ stream[s] \in StreamState /\ Fits(stream[s], calm, renewIn, lease)
  BY StreamTyped DEF LeaseInv, StreamsFit
<1>3. PICK new : /\ stream' = [stream EXCEPT ![s] = new] /\ new.step \in {"idle", "chunk", "read"}
                 /\ new.age = stream[s].age \/ (new.age = 0 /\ ~new.seen)
                 /\ new.step = "idle" => new.age = 0 /\ ~new.seen
  <2>1. CASE Over(s)
    BY <2>1, QuietIsState DEF Over
  <2>2. CASE stream' = [stream EXCEPT ![s].step = "chunk", ![s].left = Chunks]
    <3> DEFINE new == [stream[s] EXCEPT !.step = "chunk", !.left = Chunks]
    <3>1. stream' = [stream EXCEPT ![s] = new] /\ new.step = "chunk" /\ new.age = stream[s].age
      BY <1>2, <2>2 DEF StreamState
    <3>2. QED BY <3>1
  <2>3. CASE Turn(s, "read")
    <3> DEFINE new == [stream[s] EXCEPT !.step = "read"]
    <3>1. stream' = [stream EXCEPT ![s] = new] /\ new.step = "read" /\ new.age = stream[s].age
      BY <1>2, <2>3 DEF StreamState, Turn
    <3>2. QED BY <3>1
  <2>4. CASE stream' = [stream EXCEPT ![s] = [Quiet EXCEPT !.after = Counted(s)]]
    <3> DEFINE new == [Quiet EXCEPT !.after = Counted(s)]
    <3>1. new.step = "idle" /\ new.age = 0 /\ ~new.seen
      BY QuietIsState DEF StreamState
    <3>2. QED BY <2>4, <3>1
  <2>5. CASE stream' = [stream EXCEPT ![s].step = "chunk", ![s].left = @ - 1, ![s].after = Counted(s)]
    <3> DEFINE c == Counted(s)
               new == [stream[s] EXCEPT !.step = "chunk", !.left = @ - 1, !.after = c]
    <3>1. stream' = [stream EXCEPT ![s] = new] /\ new.step = "chunk" /\ new.age = stream[s].age
      BY <1>2, <2>5 DEF StreamState
    <3>2. QED BY <3>1
  <2>6. QED BY <2>1, <2>2, <2>3, <2>4, <2>5 DEF Transfer, Over
<1>4. /\ stream'[s] = new /\ new.step \notin Holding /\ stream[s].step \notin Holding
  BY <1>1, <1>2, <1>3 DEF Holding, FileSteps
<1>5. Fits(new, calm, renewIn, lease)
  BY <1>2, <1>3 DEF Fits, Unseen, Prompt, DueSend, DueRound, Rounds
<1>6. \A o \in Stream : Fits(stream'[o], calm, renewIn, lease)
  BY <1>2, <1>3, <1>5 DEF LeaseInv, StreamsFit
<1>7. StreamsFit'
  BY <1>1, <1>6 DEF Unleased, StreamsFit, Fits, Unseen, Prompt, DueSend, DueRound
<1>8. LeaseHeld' /\ ReleasedAlone' /\ LeaseFresh'
  BY <1>1, <1>2, <1>3, <1>4 DEF LeaseInv, LeaseHeld, ReleasedAlone, LeaseFresh, Unleased, Holding
<1>9. QED BY <1>7, <1>8 DEF LeaseInv

(* Entering, and a round.                                                    *)
LEMMA FitsKept ==
  ASSUME StreamInv, LeaseInv
  PROVE  \A s \in Stream : Fits(stream[s], calm, renewIn, lease)
BY DEF LeaseInv, StreamsFit

LEMMA EnterLease ==
  ASSUME StreamInv, LeaseInv, NEW s \in Stream, Enter(s)
  PROVE  LeaseInv'
<1>1. /\ stream[s].step = "enter" /\ leaseLock = None /\ UNCHANGED <<renewIn, lease, calm>>
      /\ \/ leaseLock' = s /\ Turn(s, "force")
         \/ leaseLock' = None /\ Turn(s, "loop")
  BY DEF Enter, In
<1>2. PICK step \in {"force", "loop"} : Turn(s, step) /\ leaseLock' = IF step = "force" THEN s ELSE None
  BY <1>1
<1>3. PICK new \in StreamState : Leads(s, new) /\ new.step = step /\ new.age = stream[s].age /\ new.seen = stream[s].seen
  BY <1>2, TurnLeads DEF Steps, EventSteps
<1>4. Fits(new, calm, renewIn, lease)
  BY <1>1, <1>3, FitsKept DEF Fits, Unseen, Prompt, DueSend, DueRound
<1>5. LeaseFresh' /\ \A o \in Stream : Fits(stream[o], calm', renewIn', lease')
  BY <1>1, FitsKept DEF LeaseInv, LeaseFresh
<1>6. (new.step \in Holding <=> leaseLock' = s) /\ new.step # "release" /\ leaseLock' \in {None, s}
  BY <1>2, <1>3, LeaseNumbers DEF Holding
<1>7. QED BY <1>1, <1>3, <1>4, <1>5, <1>6, LeaseKept

LEMMA LoopLease ==
  ASSUME StreamInv, LeaseInv, NEW s \in Stream, Loop(s)
  PROVE  LeaseInv'
<1>1. stream[s].step = "loop" /\ Unleased
  BY DEF Loop, In
<1>2. PICK step \in {"due", "leave"} : Turn(s, step)
  BY DEF Loop
<1>3. PICK new \in StreamState : Leads(s, new) /\ new.step = step /\ new.age = stream[s].age /\ new.seen = stream[s].seen
  BY <1>2, TurnLeads DEF Steps, EventSteps
<1>4. Fits(new, calm, renewIn, lease)
  BY <1>1, <1>3, FitsKept DEF Fits, Unseen, Prompt, DueSend, DueRound, Rounds
<1>5. new.step \notin Holding /\ stream[s].step \notin Holding
  BY <1>1, <1>3 DEF Holding
<1>6. QED BY <1>1, <1>3, <1>4, <1>5, UnleasedKeeps DEF Unleased

LEMMA RenewLease ==
  ASSUME StreamInv, LeaseInv, NEW s \in Stream, Renew(s)
  PROVE  LeaseInv'
<1>1. /\ stream[s].step = "due" /\ leaseLock = None /\ UNCHANGED <<clients, renewIn, lease, calm>>
      /\ \/ renewIn > 0 /\ leaseLock' = None /\ Turn(s, "send")
         \/ leaseLock' = s /\ Turn(s, "renew")
  BY DEF Renew, In
<1>2. PICK step \in {"send", "renew"} : /\ Turn(s, step) /\ leaseLock' = IF step = "renew" THEN s ELSE None
                                        /\ step = "send" => renewIn > 0
  BY <1>1
<1>3. PICK new \in StreamState : Leads(s, new) /\ new.step = step /\ new.age = stream[s].age /\ new.seen = stream[s].seen
  BY <1>2, TurnLeads DEF Steps, EventSteps
<1>4. Fits(new, calm, renewIn, lease)
  <2>1. Unseen(new) /\ Prompt(new, calm)
    BY <1>1, <1>3, FitsKept DEF Fits, Unseen, Prompt
  <2>2. CASE renewIn > 0
    BY <2>1, <2>2 DEF Fits
  <2>3. CASE ~(renewIn > 0)
    BY <1>1, <1>2, <1>3, <2>1, <2>3, FitsKept DEF Fits, DueSend, DueRound, Rounds
  <2>4. QED BY <2>2, <2>3
<1>5. LeaseFresh' /\ \A o \in Stream : Fits(stream[o], calm', renewIn', lease')
  BY <1>1, FitsKept DEF LeaseInv, LeaseFresh
<1>6. (new.step \in Holding <=> leaseLock' = s) /\ new.step # "release" /\ leaseLock' \in {None, s}
  BY <1>2, <1>3, LeaseNumbers DEF Holding
<1>7. QED BY <1>1, <1>3, <1>4, <1>5, <1>6, LeaseKept

LEMMA LeaseAskedLease ==
  ASSUME StreamInv, LeaseInv, NEW s \in Stream, LeaseAsked(s)
  PROVE  LeaseInv'
<1>1. /\ stream[s].step \in {"force", "renew"} /\ renewIn' = RenewSeconds /\ leaseLock' = None /\ UNCHANGED clients
      /\ \/ lease' = LeaseSeconds /\ calm' = calm
         \/ calm' = 0
  BY DEF LeaseAsked, In, Asks, Executed
<1>2. PICK step \in {"loop", "send"} : Turn(s, step)
  BY DEF LeaseAsked
<1>3. PICK new \in StreamState : Leads(s, new) /\ new.step = step /\ new.age = stream[s].age /\ new.seen = stream[s].seen
  BY <1>2, TurnLeads DEF Steps, EventSteps
<1>4. \A o \in Stream : Unseen(stream[o]) /\ Prompt(stream[o], calm')
  BY <1>1, FitsKept DEF Fits, Prompt
<1>5. renewIn' # 0
  BY <1>1, LeaseNumbers
<1>6. Fits(new, calm', renewIn', lease') /\ \A o \in Stream : Fits(stream[o], calm', renewIn', lease')
  BY <1>3, <1>4, <1>5 DEF Fits, Unseen, Prompt
<1>7. LeaseFresh'
  BY <1>1, LeaseNumbers DEF LeaseFresh
<1>8. leaseLock = s /\ leaseLock' # s /\ new.step \notin Holding /\ new.step # "release"
  BY <1>1, <1>3, LeaseNumbers DEF LeaseInv, LeaseHeld, Holding
<1>9. QED BY <1>1, <1>3, <1>6, <1>7, <1>8, LeaseKept

LEMMA StrayLease ==
  ASSUME StreamInv, LeaseInv, StrayExecuted
  PROVE  LeaseInv'
<1>1. UNCHANGED <<stream, leaseLock, clients, renewIn>> /\ calm' = 0
  BY DEF StrayExecuted
<1>2. LeaseHeld' /\ ReleasedAlone'
  BY <1>1 DEF LeaseInv, LeaseHeld, ReleasedAlone
<1>3. LeaseFresh'
  BY <1>1, LeaseNumbers DEF LeaseFresh
<1>4. \A s \in Stream : Fits(stream[s], 0, renewIn, lease')
  BY FitsKept, LeaseNumbers DEF Fits, Unseen, Prompt, DueSend, DueRound
<1>5. StreamsFit'
  BY <1>1, <1>4 DEF StreamsFit, Fits, Unseen, Prompt, DueSend, DueRound
<1>6. QED BY <1>2, <1>3, <1>5 DEF LeaseInv

LEMMA SendLease ==
  ASSUME StreamInv, LeaseInv, NEW s \in Stream, Send(s)
  PROVE  LeaseInv'
<1>1. stream[s].step = "send" /\ Unleased /\ stream[s].step \notin Holding
  BY DEF Send, In, Holding
<1>2. PICK new : /\ Leads(s, new) /\ new.step \in {"loop", "leave"}
                 /\ \/ new.step = "loop" /\ new.age = 0
                    \/ new.step = "leave" /\ new.age = stream[s].age
  <2>1. CASE Turn(s, "leave")
    <3>1. PICK new \in StreamState : Leads(s, new) /\ new.step = "leave" /\ new.age = stream[s].age
      BY <2>1, TurnLeads DEF Steps, EventSteps
    <3>2. QED BY <3>1
  <2>2. CASE stream' = [stream EXCEPT ![s].step = "loop", ![s].age = 0, ![s].after = Counted(s),
                                      ![s].seen = TRUE]
    <3> DEFINE c == Counted(s)
               new == [stream[s] EXCEPT !.step = "loop", !.age = 0, !.after = c, !.seen = TRUE]
    <3>1. stream \in [Stream -> StreamState] /\ stream[s] \in StreamState /\ stream[s].after = 0
      BY <1>1, StreamTyped DEF Ordered
    <3>2. c \in Nat /\ 0 \in 0 .. LeaseSeconds
      BY <3>1, CountedOnce, SlotsAreNat
    <3>3. stream' = [stream EXCEPT ![s] = new]
      BY <3>1, <2>2
    <3> HIDE DEF c
    <3>4. new \in StreamState /\ new.step = "loop" /\ new.age = 0
      BY <3>1, <3>2 DEF StreamState
    <3> HIDE DEF new
    <3>5. Leads(s, new)
      BY <3>1, <3>3, <3>4 DEF Leads
    <3>6. QED BY <3>4, <3>5
  <2>3. QED BY <2>1, <2>2 DEF Send
<1>3. Prompt(stream[s], calm) /\ (renewIn = 0 => DueSend(stream[s], calm, lease))
  BY FitsKept DEF Fits
<1>4. Prompt(new, calm) /\ Unseen(new)
  BY <1>2, <1>3 DEF Prompt, Unseen
<1>5. renewIn = 0 => DueSend(new, calm, lease) /\ DueRound(new, calm, lease)
  <2>1. renewIn = 0 /\ calm > RenewSeconds => lease >= LeaseSeconds - RenewSeconds
    BY <1>1, <1>3 DEF DueSend
  <2>2. QED BY <1>2, <2>1, LeaseNumbers DEF DueSend, DueRound, Rounds
<1>6. Fits(new, calm, renewIn, lease)
  BY <1>4, <1>5 DEF Fits
<1>7. new.step \notin Holding
  BY <1>2 DEF Holding
<1>8. QED BY <1>1, <1>2, <1>6, <1>7, UnleasedKeeps DEF Unleased

(* Nobody counts, so that nobody goes round.                                 *)
LEMMA NobodyCounts ==
  ASSUME StreamInv, clients = 0
  PROVE  \A s \in Stream : stream[s].step \notin Rounds
<1>1. Counting = {}
  BY SlotsAreNat, FS_EmptySet DEF StreamInv, Counting
<1>2. QED BY <1>1, StreamTyped DEF Counting, Counts, Rounds, EventSteps

LEMMA LeaveLease ==
  ASSUME StreamInv, StreamInv', LeaseInv, NEW s \in Stream, Leave(s)
  PROVE  LeaseInv'
<1>1. /\ stream[s].step = "leave" /\ leaseLock = None /\ UNCHANGED <<lease, calm>> /\ clients' = clients - 1
      /\ \/ clients = 1 /\ renewIn' = 0 /\ leaseLock' = s /\ Turn(s, "release")
         \/ UNCHANGED <<renewIn, leaseLock>> /\ Over(s)
  BY DEF Leave, In, LastOne
<1>2. CASE UNCHANGED <<renewIn, leaseLock>> /\ Over(s)
  <2>1. Leads(s, Quiet) /\ Quiet.step \notin Holding /\ Quiet.step # "release" /\ leaseLock' # s
    BY <1>1, <1>2, OverLeads, QuietIsState, LeaseNumbers DEF Holding
  <2>2. Fits(Quiet, calm', renewIn', lease') /\ LeaseFresh' /\ \A o \in Stream : Fits(stream[o], calm', renewIn', lease')
    BY <1>1, <1>2, FitsKept, QuietFits, LeaseNumbers DEF LeaseInv, LeaseFresh
  <2>3. QED BY <1>1, <1>2, <2>1, <2>2, LeaseKept
<1>3. CASE clients = 1 /\ renewIn' = 0 /\ leaseLock' = s /\ Turn(s, "release")
  <2>1. PICK new \in StreamState : Leads(s, new) /\ new.step = "release" /\ new.age = stream[s].age /\ new.seen = stream[s].seen
    BY <1>3, TurnLeads DEF Steps, EventSteps
  <2>2. clients' = 0 /\ LeaseFresh'
    BY <1>1, <1>3, LeaseNumbers DEF LeaseFresh
  <2>3. \A o \in Stream : stream'[o].step \notin Rounds
    <3>1. Counting' \subseteq Stream /\ Cardinality(Counting') = 0
      BY <2>2 DEF StreamInv, Counting
    <3>2. Counting' = {}
      BY <3>1, SlotsAreNat, FS_EmptySet
    <3>3. \A o \in Stream : stream'[o].step \in Rounds => stream'[o].kind = "events"
      BY DEF StreamInv, StreamsOrdered, Ordered, Rounds, FileSteps
    <3>4. QED BY <3>2, <3>3 DEF Counting, Counts, Rounds
  <2>4. \A o \in Stream \ {s} : stream[o].step \notin Rounds
    BY <2>1, <2>3 DEF Leads
  <2>5. Fits(new, calm', renewIn', lease') /\ \A o \in Stream \ {s} : Fits(stream[o], calm', renewIn', lease')
    BY <1>1, <2>1, <2>4, FitsKept DEF Fits, Unseen, Prompt, DueSend, DueRound, Rounds
  <2>6. QED BY <1>1, <1>3, <2>1, <2>2, <2>5, LeaseKept DEF Holding
<1>4. QED BY <1>1, <1>2, <1>3

LEMMA LeaseReleasedLease ==
  ASSUME StreamInv, LeaseInv, NEW s \in Stream, LeaseReleased(s)
  PROVE  LeaseInv'
<1>1. /\ stream[s].step = "release" /\ leaseLock' = None /\ Over(s) /\ UNCHANGED <<clients, renewIn>>
      /\ calm' \in {0, calm}
  BY DEF LeaseReleased, In, Asks
<1>2. clients = 0 /\ renewIn = 0 /\ leaseLock = s
  BY <1>1 DEF LeaseInv, ReleasedAlone, LeaseHeld, Holding
<1>3. Leads(s, Quiet) /\ Quiet.step \notin Holding /\ Quiet.step # "release" /\ leaseLock' # s
  BY <1>1, OverLeads, QuietIsState, LeaseNumbers DEF Holding
<1>4. \A o \in Stream : Fits(stream[o], calm', renewIn', lease')
  BY <1>1, <1>2, FitsKept, NobodyCounts DEF Fits, Unseen, Prompt, DueSend, DueRound, Rounds
<1>5. Fits(Quiet, calm', renewIn', lease') /\ LeaseFresh'
  BY <1>1, <1>2, QuietFits, LeaseNumbers DEF LeaseFresh
<1>6. QED BY <1>1, <1>2, <1>3, <1>4, <1>5, LeaseKept

(* A second takes one from the lease, and from what is left to the renewal.  *)
LEMMA SecondLease ==
  ASSUME StreamInv, LeaseInv, Second
  PROVE  LeaseInv'
<1>1. /\ UNCHANGED <<leaseLock, clients>> /\ lease' = Passed(lease) /\ renewIn' = Passed(renewIn)
      /\ calm' = IF Slow THEN 0 ELSE Min({LeaseSeconds, calm + 1})
  BY DEF Second
<1>2. /\ lease' \in Nat /\ lease' >= lease - 1 /\ renewIn' \in Nat
      /\ (renewIn > 0 => renewIn' = renewIn - 1) /\ (renewIn = 0 => renewIn' = 0)
  BY <1>1, LeaseNumbers DEF Passed
<1>3. calm' \in Nat /\ calm' <= calm + 1 /\ (Slow => calm' = 0)
  BY <1>1, LeaseNumbers, MinOfTwo
<1>4. ASSUME NEW s \in Stream
      PROVE  /\ stream'[s].step = stream[s].step /\ stream'[s].seen = stream[s].seen
             /\ stream[s].age \in Nat
             /\ stream[s].step = "idle" => stream'[s].age = stream[s].age
             /\ stream[s].step \in Rounds => stream'[s].age >= 1
             /\ stream'[s].age \in Nat /\ stream'[s].age <= stream[s].age + 1
  <2> DEFINE a == Min({LeaseSeconds, stream[s].age + 1})
  <2>1. stream[s] \in StreamState /\ stream[s].age \in Nat
    BY StreamTyped, LeaseNumbers DEF StreamState
  <2>2. a \in Nat /\ a <= stream[s].age + 1 /\ a >= 1
    <3>1. LeaseSeconds \in Nat /\ LeaseSeconds >= 1 /\ stream[s].age + 1 \in Nat /\ stream[s].age + 1 >= 1
      BY <2>1, LeaseNumbers
    <3>2. QED BY <3>1, MinOfTwo
  <2>3. stream'[s] = IF Watching(s) \/ stream[s].step \in {"leave", "release"} THEN [stream[s] EXCEPT !.age = a] ELSE stream[s]
    BY DEF Second
  <2>4. stream[s].step \in Rounds => Watching(s)
    BY StreamTyped DEF Watching, Rounds, EventSteps
  <2>5. stream[s].step = "idle" => ~Watching(s)
    BY DEF Watching
  <2> HIDE DEF a
  <2>6. QED BY <2>1, <2>2, <2>3, <2>4, <2>5 DEF StreamState
<1>5. ASSUME NEW s \in Stream, calm' > 0 PROVE stream[s].step = "idle" \/ stream[s].age = 0
  BY <1>3, <1>4, <1>5 DEF Slow
<1>6. LeaseHeld' /\ ReleasedAlone'
  BY <1>1, <1>2, <1>4 DEF LeaseInv, LeaseHeld, ReleasedAlone
<1>7. LeaseFresh'
  BY <1>2, <1>3, LeaseNumbers DEF LeaseInv, LeaseFresh
<1>8. ASSUME NEW s \in Stream PROVE Fits(stream'[s], calm', renewIn', lease')
  <2>1. Unseen(stream[s]) /\ Prompt(stream[s], calm)
    BY FitsKept DEF Fits
  <2>2. Unseen(stream'[s])
    BY <1>4, <2>1 DEF Unseen
  <2>3. Prompt(stream'[s], calm')
    BY <1>4, <1>5, <2>1 DEF Prompt, Unseen
  <2>4. ASSUME renewIn' = 0
        PROVE  DueSend(stream'[s], calm', lease') /\ DueRound(stream'[s], calm', lease')
    <3>1. CASE stream[s].step \notin Rounds
      BY <1>4, <3>1 DEF DueSend, DueRound, Rounds
    <3>2. CASE stream[s].step \in Rounds /\ renewIn > 0 /\ renewIn' = 0
      <4>1. calm' > RenewSeconds => lease' >= LeaseSeconds - RenewSeconds
        BY <1>2, <1>3, <3>2, LeaseNumbers DEF LeaseInv, LeaseFresh
      <4>2. QED BY <1>2, <1>3, <1>4, <3>2, <4>1, LeaseNumbers DEF DueSend, DueRound
    <3>3. CASE stream[s].step \in Rounds /\ renewIn = 0
      <4>1. DueSend(stream[s], calm, lease) /\ DueRound(stream[s], calm, lease)
        BY <3>3, FitsKept DEF Fits
      <4>2. DueSend(stream'[s], calm', lease')
        <5>1. stream[s].step = "send" => calm' = 0
          BY <1>3, <1>4, <1>5, <4>1 DEF DueSend
        <5>2. QED BY <1>4, <3>3, <5>1, LeaseNumbers DEF DueSend
      <4>3. stream[s].seen /\ calm' > RenewSeconds + 1 => lease' >= LeaseSeconds - RenewSeconds - 1
        <5>1. calm' > RenewSeconds + 1 => stream[s].age = 0 /\ calm > RenewSeconds
          BY <1>3, <1>5, <3>3, LeaseNumbers DEF Rounds
        <5>2. QED BY <1>2, <3>3, <4>1, <5>1, LeaseNumbers DEF DueRound
      <4>4. QED BY <1>4, <3>3, <4>2, <4>3 DEF DueRound
    <3>4. QED BY <2>4, <3>1, <3>2, <3>3, LeaseNumbers
  <2>5. QED BY <2>2, <2>3, <2>4 DEF Fits
<1>9. StreamsFit'
  BY <1>8 DEF StreamsFit, Fits, Unseen, Prompt, DueSend, DueRound
<1>10. QED BY <1>6, <1>7, <1>9 DEF LeaseInv

LEMMA LeaseKeeps ==
  ASSUME AccountInv, StreamInv, StreamInv', LeaseInv, [Next]_vars
  PROVE  LeaseInv'
<1>1. ASSUME NEW s \in Stream,
             \/ Open(s) \/ Enter(s) \/ LeaseAsked(s) \/ Loop(s) \/ Renew(s) \/ Send(s)
             \/ Leave(s) \/ LeaseReleased(s) \/ Transfer(s)
      PROVE  LeaseInv'
  <2>1. CASE Open(s) BY <2>1, OpenLease
  <2>2. CASE Enter(s) BY <2>2, EnterLease
  <2>3. CASE LeaseAsked(s) BY <2>3, LeaseAskedLease
  <2>4. CASE Loop(s) BY <2>4, LoopLease
  <2>5. CASE Renew(s) BY <2>5, RenewLease
  <2>6. CASE Send(s) BY <2>6, SendLease
  <2>7. CASE Leave(s) BY <2>7, LeaveLease
  <2>8. CASE LeaseReleased(s) BY <2>8, LeaseReleasedLease
  <2>9. CASE Transfer(s) BY <2>9, TransferLease
  <2>10. QED BY <1>1, <2>1, <2>2, <2>3, <2>4, <2>5, <2>6, <2>7, <2>8, <2>9
<1>2. CASE StreamStep
  BY <1>1, <1>2, StrayLease, SecondLease DEF StreamStep
<1>3. CASE UNCHANGED streamVars
  BY <1>3, LeaseRests
<1>4. CASE StreamsGone
  BY <1>4, LeaseGone
<1>5. QED BY <1>2, <1>3, <1>4 DEF Next, Web, WebEnds, vars

LEMMA LeaseSays ==
  ASSUME StreamInv, LeaseInv
  PROVE  SpectrumWhileWatched
<1> SUFFICES ASSUME calm > RenewSeconds + 1, NEW s \in Stream, Watching(s), stream[s].seen
             PROVE  lease > 0
  BY DEF SpectrumWhileWatched
<1>1. Fits(stream[s], calm, renewIn, lease) /\ stream[s].step \in Rounds
  <2>1. Fits(stream[s], calm, renewIn, lease)
    BY FitsKept
  <2>2. stream[s].step \in EventSteps
    BY StreamTyped DEF Ordered, Watching
  <2>3. QED BY <2>1, <2>2 DEF Fits, Unseen, Watching, EventSteps, Rounds
<1>2. CASE renewIn = 0
  <2>1. lease >= LeaseSeconds - RenewSeconds - 1
    BY <1>1, <1>2, LeaseNumbers DEF Fits, DueRound
  <2>2. QED BY <2>1, LeaseNumbers
<1>3. CASE renewIn > 0
  <2>1. lease >= LeaseSeconds - RenewSeconds + renewIn
    BY <1>3, LeaseNumbers DEF LeaseInv, LeaseFresh
  <2>2. QED BY <1>3, <2>1, LeaseNumbers
<1>4. QED BY <1>2, <1>3, LeaseNumbers

(* A browser that was sent something and watches on is measured for: however  *)
(* streams come, go round, lose their session and leave, and whatever the     *)
(* asking for the lease meets, it does not run out once requests have been    *)
(* answered promptly for a renewal and a round (web_service.py,               *)
(* acquire_sse_client, renew_spectrum_lease, release_sse_client).             *)
THEOREM WatchersMeasured == Spec => []SpectrumWhileWatched
<1>1. Init => AccountInv /\ StreamInv /\ LeaseInv
  BY InitHolds, LeaseStarts
<1>2. AccountInv /\ StreamInv /\ LeaseInv /\ [Next]_vars => (AccountInv /\ StreamInv /\ LeaseInv)'
  BY NextKeeps, LeaseKeeps DEF AccountKept
<1>3. AccountInv /\ StreamInv /\ LeaseInv => SpectrumWhileWatched
  BY LeaseSays
<1>4. QED BY <1>1, <1>2, <1>3, PTL DEF Spec

-----------------------------------------------------------------------------
(* What SetupKeepsAccount asks of one step.                                  *)
KeepsAccount ==
  \A h \in Handler : handler[h].kind = "setup" /\ handler'[h] # handler[h] /\ Current.credential # NoRecord
    => Current'.credential = Current.credential \/ web' = "down"

LEMMA OnlyThisThread ==
  ASSUME AccountInv, NEW h \in Handler,
         UNCHANGED directory \/ handler[h].kind # "setup" \/ Current'.credential = Current.credential \/ Current.credential = NoRecord,
         \A g \in Handler \ {h} : handler'[g] = handler[g]
  PROVE  KeepsAccount
<1>1. UNCHANGED directory => Current' = Current
  BY DEF Current
<1>2. QED BY <1>1 DEF KeepsAccount

LEMMA StepKeepsAccount ==
  ASSUME AccountInv, [Next]_vars
  PROVE  KeepsAccount
<1>1. CASE UNCHANGED handler
  BY <1>1 DEF KeepsAccount
<1>2. CASE UNCHANGED directory
  BY <1>2 DEF KeepsAccount, Current
<1>3. CASE web' = "down"
  BY <1>3 DEF KeepsAccount
<1>4. ASSUME NEW h \in Handler, PasswordWrite(h) PROVE KeepsAccount
  <2>1. handler[h].kind = "change" /\ handler \in [Handler -> Thread]
    BY <1>4, KindsAtSteps DEF PasswordWrite, At
  <2>2. \A g \in Handler \ {h} : handler'[g] = handler[g]
    BY <1>4, <2>1 DEF PasswordWrite, Done
  <2>3. QED BY <2>1, <2>2, OnlyThisThread
<1>5. ASSUME NEW h \in Handler, SetupLoad(h) \/ SetupPublish(h) \/ SetupFinish(h) PROVE KeepsAccount
  <2>1. handler \in [Handler -> Thread]
    BY KindsAtSteps
  <2>2. \A g \in Handler \ {h} : handler'[g] = handler[g]
    BY <1>5, <2>1 DEF SetupLoad, SetupPublish, SetupFinish, Done, Go
  <2>3. CASE Current.credential = NoRecord
    BY <2>2, <2>3, OnlyThisThread
  <2>4. CASE Current.credential # NoRecord
    <3>1. ASSUME NEW outcome \in Outcome, Finishing(outcome) PROVE Current'.credential = Current.credential
      BY <2>4, <3>1, MarkerFinished DEF AccountInv, AccountTypeOK, DiskHeld
    <3>2. CASE SetupLoad(h)
      <4>1. PICK outcome \in Outcome : Finishing(outcome)
        BY <2>4, <3>2 DEF SetupLoad
      <4>2. QED BY <2>2, <3>1, <4>1, OnlyThisThread
    <3>3. CASE SetupPublish(h)
      <4>1. UNCHANGED directory
        BY <2>4, <3>3 DEF SetupPublish, Publishable
      <4>2. QED BY <2>2, <4>1, OnlyThisThread
    <3>4. CASE SetupFinish(h)
      <4>1. PICK outcome \in Outcome : Finishing(outcome)
        BY <3>4 DEF SetupFinish
      <4>2. QED BY <2>2, <3>1, <4>1, OnlyThisThread
    <3>5. QED BY <1>5, <3>2, <3>3, <3>4
  <2>5. QED BY <2>3, <2>4
<1>6. CASE AccountStep
  <2>1. ASSUME NEW h \in Handler,
               \/ Login(h) \/ LoginVerify(h) \/ LoginOpens(h)
               \/ Request(h) \/ CheckCsrf(h) \/ SessionRotate(h) \/ Logout(h)
               \/ Reauthorize(h) \/ MaintenanceAsked(h) \/ Adopt(h) \/ Setup(h)
        PROVE  UNCHANGED directory
    BY <2>1 DEF Login, LoginVerify, LoginOpens, Request, CheckCsrf, SessionRotate, Logout,
                Reauthorize, MaintenanceAsked, Adopt, Setup, Disk
  <2>2. PasswdBegins \/ PasswdWrites \/ PasswdFinishes \/ WebStarts => UNCHANGED handler
    BY DEF PasswdBegins, PasswdWrites, PasswdFinishes, WebStarts, Beside
  <2>3. PasswdRestarts => UNCHANGED directory
    BY DEF PasswdRestarts
  <2>4. Minute /\ UNCHANGED accountVars => UNCHANGED handler
    BY DEF accountVars
  <2>5. QED BY <1>1, <1>2, <1>4, <1>5, <1>6, <2>1, <2>2, <2>3, <2>4 DEF AccountStep
<1>7. CASE StreamStep
  <2>1. UNCHANGED handler
    BY <1>7 DEF StreamStep, Open, Enter, LeaseAsked, StrayExecuted, Loop, Renew, Send, Leave, LeaseReleased, Transfer, Second, Alone
  <2>2. QED BY <1>1, <2>1
<1>8. CASE WebEnds
  <2>1. web' = "down" \/ UNCHANGED handler
    BY <1>8 DEF WebEnds, WebDies, PowerLoss, PasswdRestarts, Gone
  <2>2. QED BY <1>1, <1>3, <2>1
<1>9. CASE UNCHANGED <<scenario, securityVars, accountVars, streamVars>>
  BY <1>1, <1>9 DEF accountVars
<1>10. QED BY <1>6, <1>7, <1>8, <1>9 DEF Next, Web, vars

(* First-time setup never replaces an account that is already on the disk,    *)
(* whoever created it since the setup began: the complete file is linked to   *)
(* its name, which fails if there is one (web_security.py).                  *)
THEOREM SetupNeverReplaces == Spec => SetupKeepsAccount
<1>1. AccountInv /\ [Next]_vars => [KeepsAccount]_vars
  BY StepKeepsAccount
<1>2. Spec => [][KeepsAccount]_vars
  BY <1>1, InvariantHolds, PTL DEF Spec
<1>3. QED BY <1>2, PTL DEF SetupKeepsAccount, KeepsAccount


-----------------------------------------------------------------------------
(* The measurements. A reading that is kept is of the sample before, or of    *)
(* this one: nothing that is missed leaves an older one behind.              *)
SamplerSteps == {"idle", "storage", "disk", "scan", "file", "network"}
BeforeDisk == {"storage", "disk"}
RateName == {"disk", "network"}

Readings ==
  /\ DOMAIN rates = RateName
  /\ \A n \in RateName : rates[n] # Unknown => "age" \in DOMAIN rates[n]
  /\ rates["disk"] # Unknown => rates["disk"].age = IF sampler.step \in BeforeDisk THEN 1 ELSE 0
  /\ rates["network"] # Unknown => rates["network"].age = IF sampler.step = "idle" THEN 0 ELSE 1

SamplerShape ==
  /\ sampler.step \in SamplerSteps
  /\ DOMAIN sampler = {"step", "place", "device", "later"}
  /\ DOMAIN scan = {"of", "age", "complete"}
  /\ DOMAIN report = {"disk", "total", "network", "estimate"}

Unsaid ==
  /\ sampler.step \in BeforeDisk => report.disk = Unknown
  /\ sampler.step \in BeforeDisk \cup {"scan"} => report.total = Unknown
  /\ sampler.step # "idle" => report.network = Unknown
  /\ sampler.step \notin {"network", "idle"} => report.estimate = Unknown

TelemetryInv == SamplerShape /\ Readings /\ Unsaid /\ ReportsAreOfNow

LEMMA TelemetryStarts == Init => TelemetryInv
BY DEF Init, TelemetryInit, TelemetryInv, SamplerShape, SamplerSteps, Readings, RateName, BeforeDisk, Unsaid,
       ReportsAreOfNow, Silence

LEMMA BeginKeeps ==
  ASSUME TelemetryInv, Begin
  PROVE  TelemetryInv'
<1>1. /\ sampler.step = "idle" /\ report' = Silence
      /\ rates' = [n \in DOMAIN rates |-> IF rates[n] = Unknown THEN Unknown ELSE [rates[n] EXCEPT !.age = Older(@)]]
  BY DEF Begin, Doing
<1>2. PICK p \in Place, seconds \in {0, 1, ScanSeconds} :
        /\ sampler' = [step |-> "storage", place |-> p, device |-> 0, later |-> seconds > 0]
        /\ scan' = [scan EXCEPT !.age = Aged(seconds)]
  BY DEF Begin
<1>3. SamplerShape'
  BY <1>1, <1>2 DEF TelemetryInv, SamplerShape, SamplerSteps, Silence
<1>4. ASSUME NEW n \in RateName, rates'[n] # Unknown
      PROVE  "age" \in DOMAIN rates'[n] /\ rates'[n].age = 1
  <2>1. rates[n] # Unknown /\ rates'[n] = [rates[n] EXCEPT !.age = Older(@)]
    BY <1>1, <1>4 DEF TelemetryInv, Readings
  <2>2. "age" \in DOMAIN rates[n] /\ rates[n].age = 0
    BY <2>1, <1>1 DEF TelemetryInv, Readings, RateName, BeforeDisk
  <2>3. QED BY <2>1, <2>2 DEF Older
<1>5. Readings'
  BY <1>1, <1>2, <1>4 DEF TelemetryInv, Readings, RateName, BeforeDisk
<1>6. Unsaid' /\ ReportsAreOfNow'
  BY <1>1, <1>2 DEF Unsaid, ReportsAreOfNow, Silence
<1>7. QED BY <1>3, <1>5, <1>6 DEF TelemetryInv

LEMMA CheckDestinationKeeps ==
  ASSUME TelemetryInv, CheckDestination
  PROVE  TelemetryInv'
<1>1. sampler.step = "storage" /\ UNCHANGED report
  BY DEF CheckDestination, Doing
<1>2. CASE host.sound /\ host.mounted[sampler.place] # 0
  <2>1. sampler' = [sampler EXCEPT !.step = "disk", !.device = host.mounted[sampler.place]] /\ UNCHANGED <<rates, scan>>
    BY <1>2 DEF CheckDestination
  <2>2. sampler'.step = "disk" /\ DOMAIN sampler' = DOMAIN sampler
    BY <2>1 DEF TelemetryInv, SamplerShape
  <2>3. QED BY <1>1, <2>1, <2>2 DEF TelemetryInv, SamplerShape, SamplerSteps, Readings, BeforeDisk, Unsaid, ReportsAreOfNow, RateName
<1>3. CASE ~(host.sound /\ host.mounted[sampler.place] # 0)
  <2>1. /\ sampler' = [sampler EXCEPT !.step = "network"]
        /\ rates' = [rates EXCEPT !["disk"] = Unknown] /\ scan' = [scan EXCEPT !.of = Unknown]
    BY <1>3 DEF CheckDestination, To, Forgotten
  <2>2. /\ sampler'.step = "network" /\ DOMAIN sampler' = DOMAIN sampler /\ Identity' = Identity
      /\ sampler'.later = sampler.later /\ DOMAIN scan' = DOMAIN scan
    BY <2>1 DEF TelemetryInv, SamplerShape, Identity
  <2>3. rates'["disk"] = Unknown /\ rates'["network"] = rates["network"] /\ DOMAIN rates' = DOMAIN rates
    BY <2>1 DEF TelemetryInv, Readings, RateName
  <2>4. SamplerShape' /\ Readings'
    BY <1>1, <2>2, <2>3 DEF TelemetryInv, SamplerShape, SamplerSteps, Readings, BeforeDisk, RateName
  <2>5. Unsaid' /\ ReportsAreOfNow'
    BY <1>1, <2>2 DEF TelemetryInv, Unsaid, BeforeDisk, ReportsAreOfNow
  <2>6. QED BY <2>4, <2>5 DEF TelemetryInv
<1>4. QED BY <1>2, <1>3

(* What a measurement reports and remembers, when the reading before it is    *)
(* of the sample before.                                                      *)
LEMMA MeasuredIsOfNow ==
  ASSUME NEW n \in RateName, NEW of, NEW number, NEW there \in BOOLEAN,
         DOMAIN rates = RateName, DOMAIN report = {"disk", "total", "network", "estimate"},
         rates[n] # Unknown => rates[n].age = 1,
         Measured(n, of, number, there)
  PROVE  /\ DOMAIN rates' = RateName /\ DOMAIN report' = DOMAIN report
         /\ \A o \in RateName \ {n} : rates'[o] = rates[o]
         /\ rates'[n] # Unknown => "age" \in DOMAIN rates'[n] /\ rates'[n].age = 0
         /\ \A f \in DOMAIN report \ {n} : report'[f] = report[f]
         /\ report'[n] # Unknown => Comparable(report'[n]) /\ report'[n].to.of = of /\ sampler.later
BY DEF Measured, RateName, Comparable

LEMMA MeasureDiskKeeps ==
  ASSUME TelemetryInv, MeasureDisk
  PROVE  TelemetryInv'
<1>1. sampler.step = "disk" /\ sampler' = [sampler EXCEPT !.step = "scan"] /\ UNCHANGED scan
  BY DEF MeasureDisk, Doing, To
<1>2. /\ sampler'.step = "scan" /\ DOMAIN sampler' = DOMAIN sampler
      /\ Identity' = Identity /\ sampler'.later = sampler.later
  BY <1>1 DEF TelemetryInv, SamplerShape, Identity
<1>3. PICK there \in BOOLEAN : Measured("disk", Identity, sampler.device, there)
  BY DEF MeasureDisk
<1>4. /\ DOMAIN rates' = RateName /\ DOMAIN report' = DOMAIN report
      /\ rates'["network"] = rates["network"]
      /\ rates'["disk"] # Unknown => "age" \in DOMAIN rates'["disk"] /\ rates'["disk"].age = 0
      /\ report'["total"] = report["total"] /\ report'["network"] = report["network"]
      /\ report'["estimate"] = report["estimate"]
      /\ report'["disk"] # Unknown =>
           Comparable(report'["disk"]) /\ report'["disk"].to.of = Identity /\ sampler.later
  <2>1. /\ "disk" \in RateName /\ DOMAIN rates = RateName /\ DOMAIN report = {"disk", "total", "network", "estimate"}
        /\ rates["disk"] # Unknown => rates["disk"].age = 1
    BY <1>1 DEF TelemetryInv, SamplerShape, Readings, RateName, BeforeDisk
  <2>2. QED BY <2>1, <1>3, MeasuredIsOfNow DEF RateName
<1>5. SamplerShape' /\ Readings'
  BY <1>1, <1>2, <1>4 DEF TelemetryInv, SamplerShape, SamplerSteps, Readings, BeforeDisk, RateName
<1>6. Unsaid' /\ ReportsAreOfNow'
  BY <1>1, <1>2, <1>4 DEF TelemetryInv, Unsaid, BeforeDisk, ReportsAreOfNow
<1>7. QED BY <1>5, <1>6 DEF TelemetryInv

LEMMA ScanKeeps ==
  ASSUME TelemetryInv, Scan
  PROVE  TelemetryInv'
<1>1. sampler.step = "scan" /\ sampler' = [sampler EXCEPT !.step = "file"] /\ UNCHANGED rates
  BY DEF Scan, Doing, To
<1>2. /\ sampler'.step = "file" /\ DOMAIN sampler' = DOMAIN sampler
      /\ Identity' = Identity /\ sampler'.later = sampler.later
  BY <1>1 DEF TelemetryInv, SamplerShape, Identity
<1>3. /\ DOMAIN scan' = DOMAIN scan
      /\ scan'.of # Unknown => scan'.of = Identity /\ scan'.age < ScanSeconds
  <2>1. PICK complete \in BOOLEAN :
          scan' = IF host.mounted[sampler.place] # sampler.device \/ ~host.readable THEN [scan EXCEPT !.of = Unknown]
                  ELSE IF scan.of = Identity /\ scan.age < ScanSeconds THEN scan
                  ELSE [of |-> Identity, age |-> 0, complete |-> complete]
    BY DEF Scan
  <2>2. QED BY <2>1, TelemetryAssumption DEF TelemetryInv, SamplerShape
<1>4. report' = [report EXCEPT !.total =
        IF scan'.of # Unknown /\ scan'.complete THEN [of |-> scan'.of, age |-> scan'.age] ELSE Unknown]
  BY DEF Scan
<1>5. /\ DOMAIN report' = DOMAIN report /\ report'.disk = report.disk /\ report'.network = report.network
      /\ report'.estimate = report.estimate
      /\ report'.total # Unknown => report'.total.of = Identity /\ report'.total.age < ScanSeconds
  BY <1>3, <1>4 DEF TelemetryInv, SamplerShape
<1>6. SamplerShape' /\ Readings'
  BY <1>1, <1>2, <1>3, <1>5 DEF TelemetryInv, SamplerShape, SamplerSteps, Readings, BeforeDisk, RateName
<1>7. Unsaid' /\ ReportsAreOfNow'
  BY <1>1, <1>2, <1>5 DEF TelemetryInv, Unsaid, BeforeDisk, ReportsAreOfNow
<1>8. QED BY <1>6, <1>7 DEF TelemetryInv

LEMMA EstimateKeeps ==
  ASSUME TelemetryInv, Estimate
  PROVE  TelemetryInv'
<1>1. sampler.step = "file" /\ sampler' = [sampler EXCEPT !.step = "network"] /\ UNCHANGED <<rates, scan>>
  BY DEF Estimate, Doing, To
<1>2. /\ sampler'.step = "network" /\ DOMAIN sampler' = DOMAIN sampler
      /\ Identity' = Identity /\ sampler'.later = sampler.later
  BY <1>1 DEF TelemetryInv, SamplerShape, Identity
<1>3. PICK e : /\ report' = [report EXCEPT !.estimate = e]
               /\ e # Unknown => e = [of |-> Identity, elapsed |-> "this"]
  <2>1. report' = [report EXCEPT !.estimate =
          IF /\ host.running /\ host.elapsed = "this"
             /\ host.mounted[sampler.place] = sampler.device
          THEN [of |-> <<sampler.place, host.mounted[sampler.place]>>, elapsed |-> host.elapsed] ELSE Unknown]
    BY DEF Estimate
  <2>2. QED BY <2>1 DEF Identity
<1>4. /\ DOMAIN report' = DOMAIN report
      /\ report'.estimate # Unknown => report'.estimate = [of |-> Identity, elapsed |-> "this"]
      /\ \A f \in {"disk", "total", "network"} : report'[f] = report[f]
  BY <1>3 DEF TelemetryInv, SamplerShape
<1>5. SamplerShape' /\ Readings'
  BY <1>1, <1>2, <1>4 DEF TelemetryInv, SamplerShape, SamplerSteps, Readings, BeforeDisk, RateName
<1>6. Unsaid' /\ ReportsAreOfNow'
  BY <1>1, <1>2, <1>4 DEF TelemetryInv, Unsaid, BeforeDisk, ReportsAreOfNow
<1>7. QED BY <1>5, <1>6 DEF TelemetryInv

LEMMA MeasureNetworkKeeps ==
  ASSUME TelemetryInv, MeasureNetwork
  PROVE  TelemetryInv'
<1>1. sampler.step = "network" /\ sampler' = [sampler EXCEPT !.step = "idle"] /\ UNCHANGED scan
  BY DEF MeasureNetwork, Doing, To
<1>2. /\ sampler'.step = "idle" /\ DOMAIN sampler' = DOMAIN sampler
      /\ Identity' = Identity /\ sampler'.later = sampler.later
  BY <1>1 DEF TelemetryInv, SamplerShape, Identity
<1>3. /\ DOMAIN rates' = RateName /\ DOMAIN report' = DOMAIN report
      /\ rates'["disk"] = rates["disk"]
      /\ rates'["network"] # Unknown => "age" \in DOMAIN rates'["network"] /\ rates'["network"].age = 0
      /\ report'["disk"] = report["disk"] /\ report'["total"] = report["total"]
      /\ report'["estimate"] = report["estimate"]
      /\ report'["network"] # Unknown => Comparable(report'["network"]) /\ sampler.later
  <2>1. CASE host.interface = 0
    <3>1. rates' = [rates EXCEPT !["network"] = Unknown] /\ UNCHANGED report
      BY <2>1 DEF MeasureNetwork, Forgotten
    <3>2. QED BY <1>1, <3>1 DEF TelemetryInv, Readings, RateName, Unsaid
  <2>2. CASE host.interface # 0
    <3>1. /\ "network" \in RateName /\ DOMAIN rates = RateName /\ DOMAIN report = {"disk", "total", "network", "estimate"}
          /\ rates["network"] # Unknown => rates["network"].age = 1
      BY <1>1 DEF TelemetryInv, SamplerShape, Readings, RateName
    <3>2. \E b \in BOOLEAN : Measured("network", host.interface, host.interface, b)
      <4>1. Measured("network", host.interface, host.interface, host.readable)
        BY <2>2 DEF MeasureNetwork
      <4>2. QED BY <4>1 DEF Measured
    <3>3. QED BY <3>1, <3>2, MeasuredIsOfNow DEF RateName
  <2>3. QED BY <2>1, <2>2
<1>4. SamplerShape' /\ Readings'
  BY <1>1, <1>2, <1>3 DEF TelemetryInv, SamplerShape, SamplerSteps, Readings, BeforeDisk, RateName
<1>5. Unsaid' /\ ReportsAreOfNow'
  BY <1>1, <1>2, <1>3 DEF TelemetryInv, Unsaid, BeforeDisk, ReportsAreOfNow
<1>6. QED BY <1>4, <1>5 DEF TelemetryInv

LEMMA TelemetryRests ==
  ASSUME TelemetryInv, UNCHANGED <<sampler, rates, scan, report>>
  PROVE  TelemetryInv'
BY DEF TelemetryInv, SamplerShape, Readings, Unsaid, ReportsAreOfNow, Identity

LEMMA TelemetryKeeps == TelemetryInv /\ [Next]_vars => TelemetryInv'
<1> SUFFICES ASSUME TelemetryInv, [Next]_vars PROVE TelemetryInv'
  OBVIOUS
<1>1. CASE TelemetryStep
  <2>1. CASE HostChanges
    <3>1. UNCHANGED <<sampler, rates, scan, report>>
      BY <2>1, Zenon DEF HostChanges, Moved
    <3>2. QED BY <3>1, TelemetryRests
  <2>2. QED BY <1>1, <2>1, BeginKeeps, CheckDestinationKeeps, MeasureDiskKeeps, ScanKeeps, EstimateKeeps,
               MeasureNetworkKeeps DEF TelemetryStep
<1>2. CASE UNCHANGED telemetryVars
  BY <1>2, TelemetryRests DEF telemetryVars
<1>3. QED BY <1>1, <1>2 DEF Next, vars

(* A rate is made of two readings of one directory and device, or of one      *)
(* interface, taken one sample apart; a total is of the directory and device  *)
(* that were checked and less than half a minute old; and the time to the     *)
(* limit is of one fragment on that device: whatever is mounted, replaced or  *)
(* unreadable between two samples or within one.                              *)
THEOREM MeasurementsAreOfNow == Spec => []ReportsAreOfNow
<1>1. Spec => []TelemetryInv
  BY TelemetryStarts, TelemetryKeeps, PTL DEF Spec
<1>2. TelemetryInv => ReportsAreOfNow
  BY DEF TelemetryInv
<1>3. QED BY <1>1, <1>2, PTL
-----------------------------------------------------------------------------
(* The control channel. The accept thread has at most one connection in hand; *)
(* every worker it has registered is tracked until close() has waited for it; *)
(* and once the accept thread is joined nobody becomes a worker any more.     *)
WorkerStep == {"none", "backlog", "added", "reading", "handling", "answering", "ending"}

Busy == {p \in Peer : Working(p) \/ peer[p].worker = "added"}

HandHeld ==
  /\ acceptor.step \in {"taken", "checked"} => acceptor.peer \in Peer /\ peer[acceptor.peer].worker = "backlog"
  /\ acceptor.step = "start" => acceptor.peer \in Peer /\ peer[acceptor.peer].worker = "added"
  /\ \A p \in Peer : peer[p].worker = "added" => acceptor.step = "start" /\ acceptor.peer = p

WorkersTracked ==
  /\ server \notin {"clear", "down"} => Busy \subseteq tracked
  /\ server = "join workers" => Busy \subseteq joining

AcceptorOver == server \notin {"up", "listener", "join acceptor"} => acceptor.step = "ended"

NobodyThere == server \in {"none", "bind"} => \A p \in Peer : peer[p].worker = "none"

Deaf == server \notin {"up", "listener"} => listening = Nil

ChannelInv ==
  /\ ChannelTypeOK /\ SlotsBalance /\ HandHeld /\ WorkersTracked
  /\ AcceptorOver /\ NobodyThere /\ Deaf /\ ClosedIsQuiet /\ PathServes

LEMMA BusyFinite == IsFiniteSet(Busy) /\ Cardinality(Busy) \in Nat
BY ChannelAssumption, FS_Subset, FS_CardinalityType DEF Busy

LEMMA BalanceOfBusy == SlotsBalance <=> slots = Clients - Cardinality(Busy)
BY DEF SlotsBalance, Busy

LEMMA ChannelStarts == Init => ChannelInv
<1> SUFFICES ASSUME Init PROVE ChannelInv
  OBVIOUS
<1>1. /\ peer = [p \in Peer |-> Absent] /\ server = "none"
      /\ acceptor = [step |-> "ended", peer |-> Nil]
      /\ slots = Clients /\ tracked = {} /\ joining = {} /\ listening = Nil
  BY DEF Init, ChannelInit
<1>2. Busy = {}
  BY <1>1 DEF Busy, Absent, Working
<1>3. ChannelTypeOK
  BY <1>1, ChannelAssumption DEF ChannelTypeOK, PeerState, Absent, ServerStep
<1>4. SlotsBalance
  <2>1. Cardinality(Busy) = 0
    BY <1>2, FS_EmptySet
  <2>2. QED BY <1>1, <2>1, ChannelAssumption, BalanceOfBusy
<1>5. QED BY <1>1, <1>2, <1>3, <1>4 DEF ChannelInv, HandHeld, WorkersTracked, AcceptorOver, NobodyThere, Deaf,
             ClosedIsQuiet, PathServes, Absent
(* What setting a worker's step leaves of the clients.                       *)
LEMMA WorkerSet ==
  ASSUME ChannelTypeOK, NEW p \in Peer, NEW step \in WorkerStep, Worker(p, step)
  PROVE  /\ peer' \in [Peer -> PeerState]
         /\ peer'[p].worker = step /\ peer'[p].overran = peer[p].overran
         /\ \A o \in Peer \ {p} : peer'[o] = peer[o]
<1>1. peer' = [peer EXCEPT ![p] = [peer[p] EXCEPT !.worker = step]]
  BY DEF Worker
<1>2. peer \in [Peer -> PeerState] /\ peer[p] \in PeerState
  BY DEF ChannelTypeOK
<1> DEFINE q == [peer[p] EXCEPT !.worker = step]
<1>3. q \in PeerState /\ q.worker = step /\ q.overran = peer[p].overran
  BY <1>2 DEF PeerState, WorkerStep
<1> HIDE DEF q
<1>4. QED BY <1>1, <1>2, <1>3 DEF q

(* A connection that is dropped leaves no worker.                            *)
LEMMA DroppedType ==
  ASSUME NEW q \in PeerState
  PROVE  /\ Dropped(q) \in PeerState /\ Dropped(q).worker = "none" /\ Dropped(q).overran = q.overran
         /\ [Dropped(q) EXCEPT !.overran = FALSE] \in PeerState
         /\ [Dropped(q) EXCEPT !.overran = FALSE].worker = "none"
<1>1. Dropped(q) \in PeerState /\ Dropped(q).worker = "none" /\ Dropped(q).overran = q.overran
  BY DEF Dropped, PeerState
<1>2. QED BY <1>1 DEF PeerState

LEMMA PeerReplaced ==
  ASSUME ChannelTypeOK, NEW p \in Peer, NEW q \in PeerState, peer' = [peer EXCEPT ![p] = q]
  PROVE  /\ peer' \in [Peer -> PeerState] /\ peer'[p] = q
         /\ \A o \in Peer \ {p} : peer'[o] = peer[o]
BY DEF ChannelTypeOK

(* Steps that make nobody a worker and end no worker.                        *)
LEMMA QuietKeeps ==
  ASSUME ChannelInv, UNCHANGED <<server, acceptor, slots, tracked, joining, path, listening, bound>>,
         peer' \in [Peer -> PeerState],
         \A p \in Peer : /\ Working(p)' <=> Working(p)
                         /\ peer'[p].worker = "added" <=> peer[p].worker = "added"
                         /\ peer[p].worker = "backlog" => peer'[p].worker = "backlog"
                         /\ peer[p].overran => peer'[p].overran,
         server \in {"none", "bind"} => \A p \in Peer : peer'[p].worker = peer[p].worker
  PROVE  ChannelInv'
<1>1. Busy' = Busy
  BY DEF Busy
<1>2. SlotsBalance'
  <2>1. slots' = Clients - Cardinality(Busy)'
    BY <1>1, BalanceOfBusy DEF ChannelInv
  <2>2. QED BY <2>1 DEF SlotsBalance, Busy
<1>3. HandHeld' /\ WorkersTracked' /\ AcceptorOver' /\ NobodyThere' /\ Deaf' /\ PathServes'
  BY <1>1 DEF ChannelInv, HandHeld, WorkersTracked, AcceptorOver, NobodyThere, Deaf, PathServes
<1>4. ChannelTypeOK' /\ ClosedIsQuiet'
  BY DEF ChannelInv, ChannelTypeOK, ClosedIsQuiet
<1>5. QED BY <1>2, <1>3, <1>4 DEF ChannelInv

LEMMA ClientsKeep ==
  ASSUME ChannelInv, NEW p \in Peer, Connect(p) \/ GiveUp(p)
  PROVE  ChannelInv'
<1>1. UNCHANGED <<server, acceptor, slots, tracked, joining, path, listening, bound>>
  BY DEF Connect, GiveUp, Sockets, Server
<1>2. ChannelTypeOK /\ peer[p] \in PeerState
  BY DEF ChannelInv, ChannelTypeOK
<1>3. CASE Connect(p)
  <2> DEFINE q == [Absent EXCEPT !.client = "waiting", !.worker = "backlog"]
  <2>1. q \in PeerState /\ q.worker = "backlog" /\ q.overran = FALSE
    BY DEF Absent, PeerState
  <2>2. peer' = [peer EXCEPT ![p] = q] /\ peer[p] = Absent /\ listening # Nil
    BY <1>3 DEF Connect
  <2> HIDE DEF q
  <2>3. peer' \in [Peer -> PeerState] /\ peer'[p] = q /\ \A o \in Peer \ {p} : peer'[o] = peer[o]
    BY <1>2, <2>1, <2>2, PeerReplaced
  <2>4. peer[p].worker = "none" /\ peer[p].overran = FALSE
    BY <2>2 DEF Absent
  <2>5. server \notin {"none", "bind"}
    BY <2>2 DEF ChannelInv, Deaf
  <2>6. \A o \in Peer : /\ Working(o)' <=> Working(o)
                        /\ peer'[o].worker = "added" <=> peer[o].worker = "added"
                        /\ peer[o].worker = "backlog" => peer'[o].worker = "backlog"
                        /\ peer[o].overran => peer'[o].overran
    BY <2>1, <2>3, <2>4 DEF Working
  <2>7. QED BY <1>1, <2>3, <2>5, <2>6, QuietKeeps
<1>4. CASE GiveUp(p)
  <2> DEFINE q == [peer[p] EXCEPT !.client = "away"]
  <2>1. q \in PeerState /\ q.worker = peer[p].worker /\ q.overran = peer[p].overran
    BY <1>2 DEF PeerState
  <2>2. peer' = [peer EXCEPT ![p] = q]
    BY <1>4 DEF GiveUp
  <2> HIDE DEF q
  <2>3. peer' \in [Peer -> PeerState] /\ peer'[p] = q /\ \A o \in Peer \ {p} : peer'[o] = peer[o]
    BY <1>2, <2>1, <2>2, PeerReplaced
  <2>4. \A o \in Peer : peer'[o].worker = peer[o].worker /\ peer'[o].overran = peer[o].overran
    BY <2>1, <2>3
  <2>5. \A o \in Peer : Working(o)' <=> Working(o)
    BY <2>4 DEF Working
  <2>6. QED BY <1>1, <2>3, <2>4, <2>5, QuietKeeps
<1>5. QED BY <1>3, <1>4

LEMMA WorkersProgress ==
  ASSUME ChannelInv, NEW p \in Peer, Read(p) \/ Handle(p) \/ Unsent(p) \/ Answer(p) \/ JoinWorker(p)
  PROVE  ChannelInv'
<1>1. UNCHANGED <<server, acceptor, slots, tracked, joining, path, listening, bound>>
  BY DEF Read, Handle, Unsent, Answer, JoinWorker, Sockets, Server
<1>2. ChannelTypeOK /\ peer[p] \in PeerState
  BY DEF ChannelInv, ChannelTypeOK
<1>3. /\ peer' \in [Peer -> PeerState]
      /\ Working(p) /\ peer'[p].worker \in {"handling", "answering", "ending", peer[p].worker}
      /\ peer[p].overran => peer'[p].overran
      /\ \A o \in Peer \ {p} : peer'[o] = peer[o]
  <2>1. CASE Read(p) \/ Handle(p) \/ Unsent(p)
    <3>1. Working(p)
      BY <2>1 DEF Read, Handle, Unsent, Working
    <3>2. PICK step \in {"handling", "answering", "ending"} : Worker(p, step)
      BY <2>1 DEF Read, Handle, Unsent
    <3>3. QED BY <3>1, <3>2, <1>2, WorkerSet DEF WorkerStep
  <2>2. CASE Answer(p)
    <3> DEFINE q == [peer[p] EXCEPT !.worker = "ending", !.client = "away"]
    <3>1. q \in PeerState /\ q.worker = "ending" /\ q.overran = peer[p].overran
      BY <1>2 DEF PeerState
    <3>2. peer' = [peer EXCEPT ![p] = q] /\ peer[p].worker = "answering"
      BY <2>2 DEF Answer
    <3> HIDE DEF q
    <3>3. QED BY <1>2, <3>1, <3>2, PeerReplaced DEF Working
  <2>3. CASE JoinWorker(p)
    <3> DEFINE q == [peer[p] EXCEPT !.overran = TRUE]
    <3>1. q \in PeerState /\ q.worker = peer[p].worker /\ q.overran = TRUE
      BY <1>2 DEF PeerState
    <3>2. peer' = [peer EXCEPT ![p] = q] /\ Working(p)
      BY <2>3 DEF JoinWorker
    <3> HIDE DEF q
    <3>3. QED BY <1>2, <3>1, <3>2, PeerReplaced
  <2>4. QED BY <2>1, <2>2, <2>3
<1>4. \A o \in Peer : /\ Working(o)' <=> Working(o)
                      /\ peer'[o].worker = "added" <=> peer[o].worker = "added"
                      /\ peer[o].worker = "backlog" => peer'[o].worker = "backlog"
                      /\ peer[o].overran => peer'[o].overran
  BY <1>3 DEF Working
<1>5. server \in {"none", "bind"} => \A o \in Peer : peer'[o].worker = peer[o].worker
  BY <1>3 DEF Working, ChannelInv, NobodyThere
<1>6. QED BY <1>1, <1>3, <1>4, <1>5, QuietKeeps
(* Slots and the workers that hold them.                                     *)
LEMMA BalanceKept ==
  ASSUME SlotsBalance, slots \in 0 .. Clients, NEW p,
         \/ Busy' = Busy /\ slots' = slots
         \/ Busy' = Busy \cup {p} /\ p \notin Busy /\ slots # 0 /\ slots' = slots - 1
         \/ Busy' = Busy \ {p} /\ p \in Busy /\ slots' = slots + 1
  PROVE  SlotsBalance' /\ slots' \in 0 .. Clients
<1>1. slots = Clients - Cardinality(Busy) /\ Clients \in Nat /\ IsFiniteSet(Busy) /\ Cardinality(Busy) \in Nat
  BY BalanceOfBusy, BusyFinite, ChannelAssumption
<1>2. slots' = Clients - Cardinality(Busy') /\ slots' \in 0 .. Clients
  <2>1. CASE Busy' = Busy /\ slots' = slots
    BY <1>1, <2>1
  <2>2. CASE Busy' = Busy \cup {p} /\ p \notin Busy /\ slots # 0 /\ slots' = slots - 1
    BY <1>1, <2>2, FS_AddElement
  <2>3. CASE Busy' = Busy \ {p} /\ p \in Busy /\ slots' = slots + 1
    <3>1. Cardinality(Busy') = Cardinality(Busy) - 1
      BY <1>1, <2>3, FS_RemoveElement
    <3>2. Cardinality(Busy) # 0
      BY <1>1, <2>3, FS_EmptySet
    <3>3. QED BY <1>1, <2>3, <3>1, <3>2
  <2>4. QED BY <2>1, <2>2, <2>3
<1>3. QED BY <1>2 DEF SlotsBalance, Busy

LEMMA EndWorkerKeeps ==
  ASSUME ChannelInv, NEW p \in Peer, EndWorker(p)
  PROVE  ChannelInv'
<1>1. /\ UNCHANGED <<server, acceptor, joining, path, listening, bound>>
      /\ tracked' = tracked \ {p} /\ slots' = slots + 1 /\ peer[p].worker = "ending"
  BY DEF EndWorker, Sockets, Server
<1>2. ChannelTypeOK /\ peer[p] \in PeerState
  BY DEF ChannelInv, ChannelTypeOK
<1> DEFINE q == [Dropped(peer[p]) EXCEPT !.overran = FALSE]
<1>3. q \in PeerState /\ q.worker = "none"
  BY <1>2, DroppedType
<1>4. peer' = [peer EXCEPT ![p] = q]
  BY DEF EndWorker
<1> HIDE DEF q
<1>5. peer' \in [Peer -> PeerState] /\ peer'[p].worker = "none" /\ \A o \in Peer \ {p} : peer'[o] = peer[o]
  BY <1>2, <1>3, <1>4, PeerReplaced
<1>6. Busy' = Busy \ {p} /\ p \in Busy
  BY <1>1, <1>5 DEF Busy, Working
<1>7. SlotsBalance' /\ slots' \in 0 .. Clients
  BY <1>1, <1>6, BalanceKept DEF ChannelInv, ChannelTypeOK
<1>8. ChannelTypeOK'
  BY <1>1, <1>5, <1>7 DEF ChannelInv, ChannelTypeOK
<1>9. HandHeld'
  BY <1>1, <1>5 DEF ChannelInv, HandHeld
<1>10. WorkersTracked'
  BY <1>1, <1>6 DEF ChannelInv, WorkersTracked
<1>11. NobodyThere' /\ ClosedIsQuiet'
  BY <1>1, <1>5 DEF ChannelInv, NobodyThere, ClosedIsQuiet, Working
<1>12. AcceptorOver' /\ Deaf' /\ PathServes'
  BY <1>1 DEF ChannelInv, AcceptorOver, Deaf, PathServes
<1>13. QED BY <1>7, <1>8, <1>9, <1>10, <1>11, <1>12 DEF ChannelInv

(* The accept thread is there only while the server is up or closing.        *)
LEMMA AcceptorThere ==
  ASSUME ChannelInv, acceptor.step # "ended"
  PROVE  server \in {"up", "listener", "join acceptor"}
BY DEF ChannelInv, AcceptorOver

LEMMA AcceptorWaits ==
  ASSUME ChannelInv, AcceptorEnds \/ \E p \in Peer : Take(p)
  PROVE  ChannelInv'
<1>1. UNCHANGED <<peer, server, slots, tracked, joining, path, listening, bound>> /\ acceptor.step = "accept"
  BY DEF AcceptorEnds, Take, Sockets
<1>2. /\ acceptor' \in [step: {"accept", "taken", "checked", "start", "ended"}, peer: Peer \cup {Nil}]
      /\ \/ acceptor'.step = "ended"
         \/ acceptor'.step = "taken" /\ acceptor'.peer \in Peer /\ peer[acceptor'.peer].worker = "backlog"
  <2>1. CASE AcceptorEnds
    <3>1. acceptor' = [acceptor EXCEPT !.step = "ended"]
      BY <2>1 DEF AcceptorEnds
    <3>2. QED BY <3>1 DEF ChannelInv, ChannelTypeOK
  <2>2. CASE \E p \in Peer : Take(p)
    BY <2>2 DEF Take
  <2>3. QED BY <2>1, <2>2
<1>3. Busy' = Busy
  BY <1>1 DEF Busy, Working
<1>4. ChannelTypeOK' /\ SlotsBalance'
  BY <1>1, <1>2, <1>3, BalanceKept DEF ChannelInv, ChannelTypeOK
<1>5. HandHeld' /\ AcceptorOver'
  BY <1>1, <1>2 DEF ChannelInv, HandHeld, AcceptorOver
<1>6. WorkersTracked' /\ NobodyThere' /\ Deaf' /\ ClosedIsQuiet' /\ PathServes'
  BY <1>1, <1>3 DEF ChannelInv, WorkersTracked, NobodyThere, Deaf, ClosedIsQuiet, PathServes, Working
<1>7. QED BY <1>4, <1>5, <1>6 DEF ChannelInv

(* Dropping the connection in hand, before it has a worker or when its worker *)
(* could not be started.                                                     *)
LEMMA HandDropped ==
  ASSUME ChannelInv, acceptor.step \in {"taken", "checked", "start"},
         peer' = [peer EXCEPT ![acceptor.peer] = Dropped(peer[acceptor.peer])],
         acceptor' \in [step: {"accept", "ended"}, peer: Peer \cup {Nil}],
         UNCHANGED <<server, joining, path, listening, bound>>,
         IF acceptor.step = "start" THEN slots' = slots + 1 /\ tracked' = tracked \ {acceptor.peer}
         ELSE UNCHANGED <<slots, tracked>>
  PROVE  ChannelInv'
<1> DEFINE p == acceptor.peer
<1>1. /\ p \in Peer /\ peer[p].worker = IF acceptor.step = "start" THEN "added" ELSE "backlog"
      /\ ChannelTypeOK /\ peer[p] \in PeerState
  BY DEF ChannelInv, ChannelTypeOK, HandHeld
<1>2. server \in {"up", "listener", "join acceptor"}
  BY AcceptorThere
<1>3. peer' \in [Peer -> PeerState] /\ peer'[p].worker = "none" /\ \A o \in Peer \ {p} : peer'[o] = peer[o]
  BY <1>1, DroppedType, PeerReplaced
<1> HIDE DEF p
<1>4. Busy' = Busy \ {p} /\ (p \in Busy <=> acceptor.step = "start")
  BY <1>1, <1>3 DEF Busy, Working
<1>5. SlotsBalance' /\ slots' \in 0 .. Clients
  BY <1>4, BalanceKept DEF ChannelInv, ChannelTypeOK, p
<1>6. ChannelTypeOK'
  BY <1>3, <1>5 DEF ChannelInv, ChannelTypeOK, p
<1>7. HandHeld'
  BY <1>3 DEF ChannelInv, HandHeld, p
<1>8. WorkersTracked'
  BY <1>2, <1>4 DEF ChannelInv, WorkersTracked, p
<1>9. NobodyThere' /\ ClosedIsQuiet' /\ AcceptorOver' /\ Deaf' /\ PathServes'
  BY <1>2 DEF ChannelInv, NobodyThere, ClosedIsQuiet, AcceptorOver, Deaf, PathServes
<1>10. QED BY <1>5, <1>6, <1>7, <1>8, <1>9 DEF ChannelInv

LEMMA AcceptorKeeps ==
  ASSUME ChannelInv, CheckStop \/ Register \/ StartWorker
  PROVE  ChannelInv'
<1>1. CASE CheckStop
  <2>1. UNCHANGED <<server, slots, tracked, joining, path, listening, bound>> /\ acceptor.step = "taken"
    BY <1>1 DEF CheckStop, Sockets
  <2>2. CASE stop
    <3>1. peer' = [peer EXCEPT ![acceptor.peer] = Dropped(peer[acceptor.peer])] /\ acceptor' = [step |-> "ended", peer |-> Nil]
      BY <1>1, <2>2 DEF CheckStop, Hand
    <3>2. QED BY <2>1, <3>1, HandDropped
  <2>3. CASE ~stop
    <3>1. UNCHANGED peer /\ acceptor' = [acceptor EXCEPT !.step = "checked"]
      BY <1>1, <2>3 DEF CheckStop
    <3>2. /\ acceptor' \in [step: {"accept", "taken", "checked", "start", "ended"}, peer: Peer \cup {Nil}]
          /\ acceptor'.step = "checked" /\ acceptor'.peer = acceptor.peer
      BY <3>1 DEF ChannelInv, ChannelTypeOK
    <3>3. Busy' = Busy
      BY <3>1 DEF Busy, Working
    <3>4. ChannelTypeOK' /\ SlotsBalance'
      BY <2>1, <3>1, <3>2, <3>3, BalanceKept DEF ChannelInv, ChannelTypeOK
    <3>5. HandHeld' /\ AcceptorOver'
      BY <2>1, <3>1, <3>2 DEF ChannelInv, HandHeld, AcceptorOver
    <3>6. WorkersTracked' /\ NobodyThere' /\ Deaf' /\ ClosedIsQuiet' /\ PathServes'
      BY <2>1, <3>1, <3>3 DEF ChannelInv, WorkersTracked, NobodyThere, Deaf, ClosedIsQuiet, PathServes, Working
    <3>7. QED BY <3>4, <3>5, <3>6 DEF ChannelInv
  <2>4. QED BY <2>2, <2>3
<1>2. CASE Register
  <2>1. UNCHANGED <<server, joining, path, listening, bound>> /\ acceptor.step = "checked"
    BY <1>2 DEF Register, Sockets
  <2>2. CASE slots = 0
    <3>1. /\ peer' = [peer EXCEPT ![acceptor.peer] = Dropped(peer[acceptor.peer])]
          /\ acceptor' = [step |-> "accept", peer |-> Nil] /\ UNCHANGED <<slots, tracked>>
      BY <1>2, <2>2 DEF Register, Hand, Accepting
    <3>2. QED BY <2>1, <3>1, HandDropped
  <2>3. CASE slots # 0
    <3> DEFINE p == acceptor.peer
    <3>1. /\ slots' = slots - 1 /\ tracked' = tracked \cup {p}
          /\ Worker(p, "added") /\ acceptor' = [acceptor EXCEPT !.step = "start"]
      BY <1>2, <2>3 DEF Register, Hand
    <3>2. p \in Peer /\ peer[p].worker = "backlog" /\ ChannelTypeOK
      BY <2>1 DEF ChannelInv, HandHeld
    <3>3. /\ peer' \in [Peer -> PeerState] /\ peer'[p].worker = "added" /\ \A o \in Peer \ {p} : peer'[o] = peer[o]
      BY <3>1, <3>2, WorkerSet DEF WorkerStep
    <3>4. /\ acceptor' \in [step: {"accept", "taken", "checked", "start", "ended"}, peer: Peer \cup {Nil}]
          /\ acceptor'.step = "start" /\ acceptor'.peer = p
      BY <3>1 DEF ChannelInv, ChannelTypeOK
    <3>5. server \in {"up", "listener", "join acceptor"}
      BY <2>1, AcceptorThere
    <3>6. \A o \in Peer : peer[o].worker # "added"
      BY <2>1 DEF ChannelInv, HandHeld
    <3> HIDE DEF p
    <3>7. Busy' = Busy \cup {p} /\ p \notin Busy
      BY <3>2, <3>3 DEF Busy, Working
    <3>8. SlotsBalance' /\ slots' \in 0 .. Clients
      BY <2>3, <3>1, <3>7, BalanceKept DEF ChannelInv, ChannelTypeOK
    <3>9. ChannelTypeOK'
      BY <2>1, <3>1, <3>2, <3>3, <3>4, <3>8 DEF ChannelInv, ChannelTypeOK
    <3>10. HandHeld'
      BY <3>2, <3>3, <3>4, <3>6 DEF HandHeld
    <3>11. WorkersTracked'
      BY <2>1, <3>1, <3>5, <3>7 DEF ChannelInv, WorkersTracked
    <3>12. NobodyThere' /\ ClosedIsQuiet' /\ AcceptorOver' /\ Deaf' /\ PathServes'
      BY <2>1, <3>5 DEF ChannelInv, NobodyThere, ClosedIsQuiet, AcceptorOver, Deaf, PathServes
    <3>13. QED BY <3>8, <3>9, <3>10, <3>11, <3>12 DEF ChannelInv
  <2>4. QED BY <2>2, <2>3
<1>3. CASE StartWorker
  <2>1. /\ UNCHANGED <<server, joining, path, listening, bound>> /\ acceptor.step = "start"
        /\ acceptor' = [step |-> "accept", peer |-> Nil]
    BY <1>3 DEF StartWorker, Sockets, Accepting
  <2>2. CASE Worker(Hand, "reading") /\ UNCHANGED <<slots, tracked>>
    <3> DEFINE p == acceptor.peer
    <3>1. p \in Peer /\ peer[p].worker = "added" /\ ChannelTypeOK /\ Worker(p, "reading")
      BY <2>1, <2>2 DEF ChannelInv, HandHeld, Hand
    <3>2. /\ peer' \in [Peer -> PeerState] /\ peer'[p].worker = "reading" /\ \A o \in Peer \ {p} : peer'[o] = peer[o]
      BY <3>1, WorkerSet DEF WorkerStep
    <3>3. server \in {"up", "listener", "join acceptor"}
      BY <2>1, AcceptorThere
    <3>4. \A o \in Peer \ {p} : peer[o].worker # "added"
      BY <2>1 DEF ChannelInv, HandHeld
    <3> HIDE DEF p
    <3>5. Busy' = Busy
      BY <3>1, <3>2 DEF Busy, Working
    <3>6. ChannelTypeOK' /\ SlotsBalance'
      BY <2>1, <2>2, <3>2, <3>5, BalanceKept DEF ChannelInv, ChannelTypeOK
    <3>7. HandHeld'
      BY <2>1, <3>2, <3>4 DEF HandHeld
    <3>8. WorkersTracked'
      BY <2>1, <2>2, <3>5 DEF ChannelInv, WorkersTracked
    <3>9. NobodyThere' /\ ClosedIsQuiet' /\ AcceptorOver' /\ Deaf' /\ PathServes'
      BY <2>1, <3>3 DEF ChannelInv, NobodyThere, ClosedIsQuiet, AcceptorOver, Deaf, PathServes
    <3>10. QED BY <3>6, <3>7, <3>8, <3>9 DEF ChannelInv
  <2>3. CASE /\ peer' = [peer EXCEPT ![Hand] = Dropped(@)]
             /\ slots' = slots + 1 /\ tracked' = tracked \ {Hand}
    <3>1. peer' = [peer EXCEPT ![acceptor.peer] = Dropped(peer[acceptor.peer])] /\ tracked' = tracked \ {acceptor.peer}
      BY <2>3 DEF Hand
    <3>2. QED BY <2>1, <2>3, <3>1, HandDropped
  <2>4. QED BY <1>3, <2>2, <2>3 DEF StartWorker
<1>4. QED BY <1>1, <1>2, <1>3
(* close() and start(), one step of theirs after the other.                  *)
LEMMA CloseKeeps ==
  ASSUME ChannelInv, Close \/ JoinAcceptor \/ Snapshot
  PROVE  ChannelInv'
<1>1. UNCHANGED <<peer, acceptor, slots, tracked, path, listening, bound>>
  BY DEF Close, JoinAcceptor, Snapshot, Sockets
<1>2. /\ <<server, server'>> \in {<<"up", "listener">>, <<"join acceptor", "snapshot">>, <<"snapshot", "join workers">>}
      /\ server = "join acceptor" => acceptor.step = "ended"
      /\ joining' = IF server = "snapshot" THEN tracked ELSE joining
  BY DEF Close, JoinAcceptor, Snapshot, AcceptorJoined
<1>3. Busy' = Busy /\ SlotsBalance'
  BY <1>1, BalanceKept DEF ChannelInv, ChannelTypeOK, Busy, Working
<1>4. ChannelTypeOK' /\ HandHeld' /\ AcceptorOver' /\ NobodyThere' /\ Deaf' /\ ClosedIsQuiet' /\ PathServes'
  BY <1>1, <1>2 DEF ChannelInv, ChannelTypeOK, ServerStep, HandHeld, AcceptorOver, NobodyThere, Deaf,
                    ClosedIsQuiet, PathServes
<1>5. WorkersTracked'
  BY <1>1, <1>2, <1>3 DEF ChannelInv, WorkersTracked
<1>6. QED BY <1>3, <1>4, <1>5 DEF ChannelInv

LEMMA CloseListenerKeeps ==
  ASSUME ChannelInv, CloseListener
  PROVE  ChannelInv'
<1>1. /\ UNCHANGED <<acceptor, slots, tracked, joining, path, bound>>
      /\ server = "listener" /\ server' = "join acceptor" /\ listening' = Nil
      /\ peer' = [p \in Peer |-> IF peer[p].worker = "backlog" /\ acceptor.peer # p THEN Dropped(peer[p]) ELSE peer[p]]
  BY DEF CloseListener
<1>2. /\ peer' \in [Peer -> PeerState]
      /\ \A p \in Peer : \/ peer'[p] = peer[p]
                         \/ peer[p].worker = "backlog" /\ peer'[p].worker = "none" /\ acceptor.peer # p
  <2>1. \A p \in Peer : peer[p] \in PeerState
    BY DEF ChannelInv, ChannelTypeOK
  <2>2. QED BY <1>1, <2>1, DroppedType
<1>3. Busy' = Busy
  BY <1>2 DEF Busy, Working
<1>4. SlotsBalance' /\ ChannelTypeOK'
  BY <1>1, <1>2, <1>3, BalanceKept DEF ChannelInv, ChannelTypeOK, ServerStep
<1>5. HandHeld'
  BY <1>1, <1>2 DEF ChannelInv, HandHeld
<1>6. WorkersTracked' /\ AcceptorOver' /\ NobodyThere' /\ Deaf' /\ ClosedIsQuiet' /\ PathServes'
  BY <1>1, <1>3 DEF ChannelInv, WorkersTracked, AcceptorOver, NobodyThere, Deaf, ClosedIsQuiet, PathServes
<1>7. QED BY <1>4, <1>5, <1>6 DEF ChannelInv

(* Nobody is left but those whose time was over; nobody comes.               *)
LEMMA ClearKeeps ==
  ASSUME ChannelInv, Clear \/ CleanUp
  PROVE  ChannelInv'
<1>1. /\ UNCHANGED <<peer, acceptor, slots, joining, listening>> /\ tracked' \subseteq tracked
      /\ <<server, server'>> \in {<<"join workers", "clear">>, <<"clear", "down">>}
  BY DEF Clear, CleanUp, Sockets
<1>2. Busy' = Busy /\ SlotsBalance'
  BY <1>1, BalanceKept DEF ChannelInv, ChannelTypeOK, Busy, Working
<1>3. acceptor.step = "ended"
  BY <1>1 DEF ChannelInv, AcceptorOver
<1>4. ClosedIsQuiet'
  <2>1. CASE Clear
    <3>1. /\ server = "join workers" /\ Busy \subseteq joining
          /\ \A p \in joining : ~Working(p) \/ peer[p].overran
      BY <2>1 DEF ChannelInv, WorkersTracked, Clear
    <3>2. \A p \in Peer : peer[p].worker # "added" /\ (Working(p) => peer[p].overran)
      BY <1>3, <3>1 DEF ChannelInv, HandHeld, Busy
    <3>3. QED BY <1>1, <3>2 DEF ClosedIsQuiet, Working
  <2>2. CASE CleanUp
    BY <1>1, <2>2 DEF ChannelInv, ClosedIsQuiet, CleanUp, Working
  <2>3. QED BY <2>1, <2>2
<1>5. ChannelTypeOK' /\ HandHeld' /\ WorkersTracked' /\ AcceptorOver' /\ NobodyThere' /\ Deaf' /\ PathServes'
  BY <1>1, <1>3 DEF ChannelInv, ChannelTypeOK, ServerStep, HandHeld, WorkersTracked, AcceptorOver, NobodyThere, Deaf,
                    PathServes
<1>6. QED BY <1>2, <1>4, <1>5 DEF ChannelInv

LEMMA TerminateKeeps ==
  ASSUME ChannelInv, Terminate
  PROVE  ChannelInv'
<1>1. /\ peer' = [p \in Peer |-> IF peer[p].worker = "none" THEN peer[p] ELSE [Dropped(peer[p]) EXCEPT !.overran = FALSE]]
      /\ server' = "none" /\ acceptor' = [step |-> "ended", peer |-> Nil]
      /\ slots' = Clients /\ tracked' = {} /\ joining' = {} /\ listening' = Nil
  BY DEF Terminate
<1>2. peer' \in [Peer -> PeerState] /\ \A p \in Peer : peer'[p].worker = "none"
  <2>1. \A p \in Peer : peer[p] \in PeerState
    BY DEF ChannelInv, ChannelTypeOK
  <2>2. QED BY <1>1, <2>1, DroppedType
<1>3. Busy' = {}
  BY <1>2 DEF Busy, Working
<1>4. SlotsBalance'
  <2>1. slots' = Clients - Cardinality(Busy')
    BY <1>1, <1>3, FS_EmptySet, ChannelAssumption
  <2>2. QED BY <2>1 DEF SlotsBalance, Busy
<1>5. ChannelTypeOK'
  BY <1>1, <1>2, ChannelAssumption DEF ChannelTypeOK, ServerStep
<1>6. HandHeld' /\ WorkersTracked' /\ AcceptorOver' /\ NobodyThere' /\ Deaf' /\ ClosedIsQuiet' /\ PathServes'
  BY <1>1, <1>2, <1>3 DEF HandHeld, WorkersTracked, AcceptorOver, NobodyThere, Deaf, ClosedIsQuiet, PathServes
<1>7. QED BY <1>4, <1>5, <1>6 DEF ChannelInv

LEMMA StartKeeps ==
  ASSUME ChannelInv, Probe \/ Bind
  PROVE  ChannelInv'
<1>1. UNCHANGED <<peer, slots, tracked, joining>> /\ server \in {"none", "bind"}
  BY DEF Probe, Bind
<1>2. \/ server' \in {"bind", "down"} /\ UNCHANGED <<acceptor, listening>>
      \/ /\ server' = "up" /\ acceptor' = [step |-> "accept", peer |-> Nil]
         /\ path' = listening' /\ bound' = listening'
  BY DEF Probe, Bind, Accepting
<1>3. \A p \in Peer : peer[p].worker = "none"
  BY <1>1 DEF ChannelInv, NobodyThere
<1>4. Busy' = Busy /\ SlotsBalance'
  BY <1>1, BalanceKept DEF ChannelInv, ChannelTypeOK, Busy, Working
<1>5. ChannelTypeOK'
  <2>1. acceptor' \in [step: {"accept", "taken", "checked", "start", "ended"}, peer: Peer \cup {Nil}]
    BY <1>2 DEF ChannelInv, ChannelTypeOK
  <2>2. server' \in ServerStep
    BY <1>2 DEF ServerStep
  <2>3. QED BY <1>1, <2>1, <2>2 DEF ChannelInv, ChannelTypeOK
<1>6. acceptor.step = "ended" /\ listening = Nil
  BY <1>1 DEF ChannelInv, AcceptorOver, Deaf
<1>7. HandHeld' /\ NobodyThere' /\ ClosedIsQuiet'
  BY <1>1, <1>2, <1>3, <1>6 DEF HandHeld, NobodyThere, ClosedIsQuiet, Working
<1>8. AcceptorOver' /\ Deaf' /\ PathServes'
  BY <1>2, <1>6 DEF AcceptorOver, Deaf, PathServes
<1>9. WorkersTracked'
  <2>1. Busy' = {}
    BY <1>1, <1>3 DEF Busy, Working
  <2>2. QED BY <2>1 DEF WorkersTracked
<1>10. QED BY <1>4, <1>5, <1>7, <1>8, <1>9 DEF ChannelInv

LEMMA ChannelRests ==
  ASSUME ChannelInv, UNCHANGED channelVars
  PROVE  ChannelInv'
BY DEF ChannelInv, channelVars, ChannelTypeOK, SlotsBalance, HandHeld, WorkersTracked, AcceptorOver, NobodyThere, Deaf,
       ClosedIsQuiet, PathServes, Busy, Working

LEMMA ChannelKeeps == ChannelInv /\ [Next]_vars => ChannelInv'
<1> SUFFICES ASSUME ChannelInv, [Next]_vars PROVE ChannelInv'
  OBVIOUS
<1>1. CASE ChannelStep
  <2>1. CASE \E p \in Peer : Connect(p) \/ GiveUp(p)
    BY <2>1, ClientsKeep
  <2>2. CASE \E p \in Peer : Take(p)
    BY <2>2, AcceptorWaits
  <2>3. CASE \E p \in Peer : Read(p) \/ Handle(p) \/ Answer(p) \/ Unsent(p) \/ JoinWorker(p)
    BY <2>3, WorkersProgress
  <2>4. CASE \E p \in Peer : EndWorker(p)
    BY <2>4, EndWorkerKeeps
  <2>5. CASE AcceptorEnds
    BY <2>5, AcceptorWaits
  <2>6. QED BY <1>1, <2>1, <2>2, <2>3, <2>4, <2>5, AcceptorKeeps, CloseKeeps, CloseListenerKeeps, ClearKeeps,
               TerminateKeeps, StartKeeps DEF ChannelStep
<1>2. CASE UNCHANGED channelVars
  BY <1>2, ChannelRests
<1>3. QED BY <1>1, <1>2 DEF Next, vars

(* However connections, workers that cannot be started, clients that give up  *)
(* and the end of the server interleave, slots balance with workers, a closed *)
(* server has no worker but those it has waited for in vain, and the path      *)
(* leads to the server that accepts.                                          *)
THEOREM ChannelIsSound == Spec => []ChannelSound
<1>1. Spec => []ChannelInv
  BY ChannelStarts, ChannelKeeps, PTL DEF Spec
<1>2. ChannelInv => ChannelSound
  BY DEF ChannelInv, ChannelSound
<1>3. QED BY <1>1, <1>2, PTL
===============================================================================
