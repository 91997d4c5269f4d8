----------------------------- MODULE WebSecurity -----------------------------
(* The session store and the login throttle of the web process               *)
(* (web_security.py). Each operation is one step under the lock of its        *)
(* object. Deadlines are counted down: a session or a window is over when     *)
(* nothing is left of it, whoever looks first.                                *)
EXTENDS Naturals, Sequences, FiniteSets, SequencesExt, FiniteSetsExt

CONSTANTS
  None,
  SessionsMax, IdleTimeout, AbsoluteTimeout,            \* SessionStore
  Window, PairMax, IpMax, GlobalMax, KeysMax,           \* LoginThrottle
  Scenarios

ASSUME SecurityAssumption ==
  /\ {SessionsMax, IdleTimeout, AbsoluteTimeout, Window, PairMax, IpMax, GlobalMax, KeysMax}
       \subseteq Nat \ {0}
  /\ IdleTimeout <= AbsoluteTimeout

VARIABLES
  sessions,  \* by token; older: the tokens that were used before it
  minted,    \* bearer tokens handed out so far: a browser may hold any of them
  windows,   \* attempts by <<address, name>>, <<address>> and <<>> (all)
  scenario, spent

securityVars == <<sessions, minted, windows, spent>>

Spend(counter, limit) ==
  /\ spent[counter] < limit
  /\ spent' = [spent EXCEPT ![counter] = @ + 1]

Record == Nat
NoRecord == 0

SessionEntry ==
  [record: Record,  \* the credential it was opened with
   idle: 0 .. IdleTimeout, absolute: 0 .. AbsoluteTimeout, older: SUBSET Nat]
WindowEntry == [attempts: Nat \ {0}, left: 0 .. Window]

-----------------------------------------------------------------------------
Lives(s) == s.idle > 0 /\ s.absolute > 0

Without(gone, store) == [t \in DOMAIN store \ gone |-> [store[t] EXCEPT !.older = @ \ gone]]
Pruned(store) == Without({t \in DOMAIN store : ~Lives(store[t])}, store)
Others(token) == Without({token}, sessions)

(* The last in order of use, behind all that are there.                      *)
Put(token, s, store) ==
  [t \in DOMAIN store \cup {token} |-> IF t = token THEN [s EXCEPT !.older = DOMAIN store] ELSE store[t]]
Touched(s) == [s EXCEPT !.idle = Min({IdleTimeout, s.absolute})]

(* _find: an expired session is deleted by whoever looks for it.             *)
Holds(token) == token \in DOMAIN sessions /\ Lives(sessions[token])

(* authenticate and validate_csrf: a session that is used moves to the end.  *)
Used(token) == IF Holds(token) THEN Put(token, Touched(sessions[token]), Others(token)) ELSE Others(token)
Examined(token, matches) == IF Holds(token) /\ ~matches THEN sessions ELSE Used(token)

(* A full store drops the session whose use is longest ago.                  *)
Rooms(kept) ==
  IF Cardinality(DOMAIN kept) < SessionsMax THEN {kept}
  ELSE {Without({t}, kept) : t \in {t \in DOMAIN kept : kept[t].older = {}}}

Full(record) == [record |-> record, idle |-> IdleTimeout, absolute |-> AbsoluteTimeout, older |-> {}]

(* A rotated session keeps its absolute deadline.                            *)
Renamed(token) == Put(minted + 1, Touched(sessions[token]), Others(token))

Create(record) ==
  /\ \E room \in Rooms(Pruned(sessions)) : sessions' = Put(minted + 1, Full(record), room)
  /\ minted' = minted + 1
Rotate(token) ==
  IF Holds(token) THEN sessions' = Renamed(token) /\ minted' = minted + 1
  ELSE sessions' = Others(token) /\ UNCHANGED minted
RevokeAll == sessions' = <<>> /\ UNCHANGED minted

-----------------------------------------------------------------------------
Scopes(address, name) == {<<>>, <<address>>, <<address, name>>}
Limit(scope) == <<GlobalMax, IpMax, PairMax>>[Len(scope) + 1]

OpenWindows == [k \in {k \in DOMAIN windows : windows[k].left > 0} |-> windows[k]]

Admits(address, name) ==
  LET known == DOMAIN OpenWindows IN
  /\ <<address, name>> \in known \/ Cardinality({k \in known : Len(k) = 2}) < KeysMax
  /\ \A k \in Scopes(address, name) \cap known : windows[k].attempts < Limit(k)

(* admit: an admitted attempt counts in all three windows, each of which     *)
(* begins when it is first needed.                                           *)
Admitted(address, name) ==
  LET known == DOMAIN OpenWindows IN
  IF ~Admits(address, name) THEN OpenWindows
  ELSE [k \in known \cup Scopes(address, name) |->
          IF k \notin known THEN [attempts |-> 1, left |-> Window]
          ELSE IF k \in Scopes(address, name) THEN [windows[k] EXCEPT !.attempts = @ + 1]
          ELSE windows[k]]

(* reset: a success forgives the pair and the address, never the whole.      *)
Forgiven(address, name, w) ==
  [k \in DOMAIN w \ {<<address>>, <<address, name>>} |-> w[k]]

-----------------------------------------------------------------------------
(* The clock of sessions and windows; each deadline is passed at last.       *)
Passed(n) == IF n = 0 THEN 0 ELSE n - 1

Minute ==
  /\ Spend("minutes", scenario.minutes)
  /\ sessions' = [t \in DOMAIN sessions |->
                    [sessions[t] EXCEPT !.idle = Passed(@), !.absolute = Passed(@)]]
  /\ windows' = [k \in DOMAIN windows |-> [windows[k] EXCEPT !.left = Passed(@)]]
  /\ UNCHANGED <<minted, scenario>>

(* Sessions are in one order of use, so that one of them is the oldest.      *)
StoreOK(store, last) ==
  /\ DOMAIN store \subseteq 1 .. last
  /\ \A t \in DOMAIN store : store[t] \in SessionEntry /\ store[t].idle <= store[t].absolute
  /\ \A t \in DOMAIN store : store[t].older \subseteq DOMAIN store \ {t}
  /\ \A t, u \in DOMAIN store :
       /\ t # u => (t \in store[u].older <=> u \notin store[t].older)
       /\ t \in store[u].older => store[t].older \subseteq store[u].older

WindowsOK(w) ==
  /\ IsFiniteSet(DOMAIN w)
  /\ \A k \in DOMAIN w : w[k] \in WindowEntry /\ w[k].attempts <= Limit(k)
  /\ Cardinality({k \in DOMAIN w : Len(k) = 2}) <= KeysMax

SecurityTypeOK ==
  /\ minted \in Nat
  /\ StoreOK(sessions, minted) /\ Cardinality(DOMAIN sessions) <= SessionsMax
  /\ WindowsOK(windows)
=============================================================================
