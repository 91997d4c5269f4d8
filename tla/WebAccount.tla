----------------------------- MODULE WebAccount ------------------------------
(* The administrator's account: login, first setup, password change and       *)
(* reauthentication by the threads of the web process (web_service.py), the   *)
(* passwd command beside it (cli.py), and what the disk keeps of it.          *)
EXTENDS WebSecurity

CONSTANTS
  Handler,        \* request threads, as many as the server has client slots for
  PasswordSlots   \* MAX_CONCURRENT_PASSWORD_CHECKS

ASSUME AccountAssumption == None \notin Handler /\ PasswordSlots \in Nat \ {0}
ASSUME ThreadsAssumption == IsFiniteSet(Handler)

VARIABLES
  handler,    \* what each thread is at
  lock,       \* who holds credential_lock
  memory,     \* WebApplication.credential
  web,        \* up, or down: not running, or refusing to start
  directory,  \* states of the credential's directory since the last fsync
  passwd,     \* the command of an administrator
  unannounced \* a passwd command saved a credential and did not restart web

accountVars == <<handler, lock, memory, web, directory, passwd, unannounced>>

Address == {"near", "far"}
Name == {"admin", "first_setup", "guest"}

Free == [kind |-> "none", step |-> "idle", address |-> "near", name |-> "admin", token |-> 0,
         password |-> NoRecord, record |-> NoRecord, slot |-> FALSE]
Kind == {"login", "change", "maintain", "setup", "session", "logout"}
Thread ==
  [kind: Kind \cup {"none"},
   step: {"idle", "verify", "verified", "admit", "authorized", "write", "ask", "load", "publish",
          "adopt", "finish", "check", "rotate", "logout"},
   address: Address, name: Name, token: Nat, password: Record, record: Record, slot: BOOLEAN]

Passwd == {"idle", "write", "finish", "restart"}

Directory == [credential: Record, marker: BOOLEAN]
Current == Last(directory)

Up == web = "up"
At(h, step) == Up /\ handler[h].step = step
Go(h, step) == handler' = [handler EXCEPT ![h].step = step]
Done(h) == handler' = [handler EXCEPT ![h] = Free]
Listens(h) == At(h, "idle") /\ h \in scenario.threads
SlotFree == Cardinality({h \in Handler : handler[h].slot}) < PasswordSlots

(* A credential made now: its salt makes it unlike any other.                *)
Minted == spent.records + 1
MayMint == spent.records < scenario.records

Disk == UNCHANGED <<directory, passwd, unannounced>>
Store == UNCHANGED <<sessions, minted>>

(* What a write of the directory may leave: nothing, a change that is not    *)
(* yet known to be durable, or a synchronized one.                           *)
Outcome == {"failed", "uncertain", "done"}
Changes(outcome, d) ==
  directory' = CASE outcome = "failed" -> directory
                 [] outcome = "uncertain" -> Append(directory, d)
                 [] outcome = "done" -> <<d>>
Fault(outcome) == IF outcome = "done" THEN UNCHANGED spent ELSE Spend("failures", scenario.failures)
FaultMint(outcome) ==
  spent' = [spent EXCEPT !.records = @ + 1, !.failures = IF outcome = "done" THEN @ ELSE @ + 1]
MayFail(outcome) == outcome = "done" \/ spent.failures < scenario.failures

(* _finish_setup: the marker goes, and the directory is synchronized, if     *)
(* there is one.                                                             *)
Finishing(outcome) ==
  IF Current.marker THEN Changes(outcome, [Current EXCEPT !.marker = FALSE])
  ELSE outcome = "done" /\ UNCHANGED directory

-----------------------------------------------------------------------------
(* POST /api/login. The attempt counts before a slot is looked for, and also *)
(* if there is none.                                                         *)
Login(h) ==
  /\ Listens(h) /\ memory # NoRecord /\ "login" \in scenario.requests
  /\ Spend("requests", scenario.budget)
  /\ \E a \in scenario.addresses, n \in {"admin", "guest"}, p \in {NoRecord, memory} :
       /\ windows' = Admitted(a, n)
       /\ handler' = IF Admits(a, n) /\ SlotFree
                     THEN [handler EXCEPT ![h] = [Free EXCEPT !.kind = "login", !.step = "verify",
                             !.address = a, !.name = n, !.password = p, !.slot = TRUE]]
                     ELSE handler
  /\ UNCHANGED <<lock, memory, web, scenario>> /\ Store /\ Disk

Verifies(h) == handler[h].name = "admin" /\ handler[h].password = memory

(* Fault: the check is over, and with it the lock.                           *)
VerifyOutside(h) ==
  /\ At(h, "verify") /\ lock = None
  /\ IF Verifies(h) THEN Go(h, "verified") ELSE Done(h)
  /\ UNCHANGED <<lock, memory, web, scenario, securityVars>> /\ Disk

LoginVerify(h) ==
  /\ At(h, "verify") /\ lock = None
  /\ IF Verifies(h) THEN Go(h, "verified") /\ lock' = h
     ELSE Done(h) /\ UNCHANGED lock
  /\ UNCHANGED <<memory, web, scenario, securityVars>> /\ Disk

LoginOpens(h) ==
  /\ At(h, "verified") /\ lock \in {h, None}
  /\ windows' = Forgiven(handler[h].address, handler[h].name, windows)
  /\ Create(handler[h].password)
  /\ lock' = None /\ Done(h)
  /\ UNCHANGED <<memory, web, scenario, spent>> /\ Disk

-----------------------------------------------------------------------------
(* _require_auth: any token that was ever handed out may come back, with the *)
(* right or a wrong CSRF token. Two looks at the store, at most one apart.   *)
Request(h) ==
  /\ Listens(h) /\ memory # NoRecord
  /\ Spend("requests", scenario.budget)
  /\ \E k \in {"session", "logout", "change", "maintain"} \cap scenario.requests,
        t \in 1 .. minted, p \in {NoRecord, memory} :
       /\ p # NoRecord => k \in {"change", "maintain"}
       /\ sessions' = Used(t)
       /\ handler' = IF Holds(t)
                     THEN [handler EXCEPT ![h] = [Free EXCEPT !.kind = k, !.token = t, !.password = p,
                                                    !.step = "check"]]
                     ELSE handler
  /\ UNCHANGED <<minted, windows, lock, memory, web, scenario>> /\ Disk

CheckCsrf(h) ==
  /\ At(h, "check")
  /\ \E matches \in BOOLEAN :
       LET valid == Holds(handler[h].token) /\ matches IN
       /\ sessions' = Examined(handler[h].token, matches)
       /\ IF handler[h].kind = "session" THEN IF valid THEN Done(h) ELSE Go(h, "rotate")
          ELSE IF ~valid THEN Done(h)
          ELSE Go(h, IF handler[h].kind = "logout" THEN "logout" ELSE "admit")
  /\ UNCHANGED <<minted, windows, lock, memory, web, scenario, spent>> /\ Disk

(* GET /api/session gives a browser that lost its CSRF token a new session.  *)
SessionRotate(h) ==
  /\ At(h, "rotate")
  /\ Rotate(handler[h].token) /\ Done(h)
  /\ UNCHANGED <<windows, lock, memory, web, scenario, spent>> /\ Disk

Logout(h) ==
  /\ At(h, "logout")
  /\ sessions' = Others(handler[h].token) /\ Done(h)
  /\ UNCHANGED <<minted, windows, lock, memory, web, scenario, spent>> /\ Disk

-----------------------------------------------------------------------------
(* POST /api/account/password and /api/maintenance: the session is looked up *)
(* again under the lock, and the password is asked for again.                *)
Reauthorize(h) ==
  /\ At(h, "admit") /\ lock = None
  /\ LET r == handler[h]
         in == Holds(r.token)
         checks == in /\ Admits(r.address, r.name) /\ SlotFree
     IN  /\ sessions' = Used(r.token)
         /\ windows' = IF ~in THEN windows
                       ELSE IF checks /\ Verifies(h) THEN Forgiven(r.address, r.name, Admitted(r.address, r.name))
                       ELSE Admitted(r.address, r.name)
         /\ IF checks /\ Verifies(h)
            THEN lock' = h /\ Go(h, IF r.kind = "change" THEN "write" ELSE "ask")
            ELSE Done(h) /\ UNCHANGED lock
  /\ UNCHANGED <<minted, memory, web, scenario, spent>> /\ Disk

(* The helper is asked under the lock; what it does is Maintenance.          *)
MaintenanceAsked(h) ==
  /\ At(h, "ask") /\ lock' = None /\ Done(h)
  /\ UNCHANGED <<memory, web, scenario, securityVars>> /\ Disk

PasswordWrite(h) ==
  /\ At(h, "write") /\ MayMint
  /\ \E outcome \in Outcome :
       /\ MayFail(outcome) /\ FaultMint(outcome)
       /\ Changes(outcome, [Current EXCEPT !.credential = Minted])
       /\ IF outcome = "failed" THEN Done(h) /\ lock' = None
          ELSE UNCHANGED lock /\ handler' = [handler EXCEPT ![h].step = "adopt", ![h].record = Minted]
  /\ UNCHANGED <<sessions, minted, windows, memory, web, scenario, passwd, unannounced>>

Adopt(h) ==
  /\ At(h, "adopt")
  /\ memory' = handler[h].record /\ RevokeAll
  /\ IF handler[h].kind = "setup" THEN Go(h, "finish") /\ UNCHANGED lock
     ELSE Done(h) /\ lock' = None
  /\ UNCHANGED <<windows, web, scenario, spent>> /\ Disk

-----------------------------------------------------------------------------
(* POST /api/setup                                                           *)
Setup(h) ==
  /\ Listens(h) /\ memory = NoRecord /\ "setup" \in scenario.requests
  /\ Spend("requests", scenario.budget)
  /\ \E a \in scenario.addresses :
       /\ windows' = Admitted(a, "first_setup")
       /\ handler' = IF Admits(a, "first_setup") /\ SlotFree
                     THEN [handler EXCEPT ![h] = [Free EXCEPT !.kind = "setup", !.step = "load",
                             !.address = a, !.name = "first_setup", !.slot = TRUE]]
                     ELSE handler
  /\ UNCHANGED <<lock, memory, web, scenario>> /\ Store /\ Disk

(* load_web_credential: an account that is there is taken, and the marker is *)
(* finished; without one the marker must be there.                           *)
SetupLoad(h) ==
  /\ At(h, "load") /\ lock = None
  /\ IF Current.credential # NoRecord
     THEN \E outcome \in Outcome :
            /\ Finishing(outcome) /\ Fault(outcome)
            /\ memory' = IF memory # NoRecord THEN memory
                         ELSE IF outcome = "done" THEN Current.credential ELSE NoRecord
            /\ Done(h) /\ UNCHANGED lock
     ELSE /\ UNCHANGED <<directory, memory, spent>>
          /\ IF memory # NoRecord \/ ~Current.marker THEN Done(h) /\ UNCHANGED lock
             ELSE Go(h, "publish") /\ lock' = h
  /\ UNCHANGED <<sessions, minted, windows, web, scenario, passwd, unannounced>>

(* Fault: os.replace, as for a change.                                       *)
PublishableAlways == TRUE

(* The complete file is linked to its name, which fails if there is one.     *)
Publishable == Current.credential = NoRecord

SetupPublish(h) ==
  /\ At(h, "publish") /\ MayMint
  /\ \E outcome \in Outcome :
       /\ MayFail(outcome)
       /\ IF Publishable
          THEN /\ FaultMint(outcome)
               /\ Changes(outcome, [Current EXCEPT !.credential = Minted])
               /\ IF outcome = "failed" THEN Done(h) /\ lock' = None
                  ELSE UNCHANGED lock /\ handler' = [handler EXCEPT ![h].step = "adopt", ![h].record = Minted]
               /\ UNCHANGED memory
          ELSE /\ outcome = "done" /\ UNCHANGED <<directory, spent>>
               /\ memory' = Current.credential /\ lock' = None /\ Done(h)
  /\ UNCHANGED <<sessions, minted, windows, web, scenario, passwd, unannounced>>

SetupFinish(h) ==
  /\ At(h, "finish")
  /\ \E outcome \in Outcome : Finishing(outcome) /\ Fault(outcome)
  /\ lock' = None /\ Done(h)
  /\ UNCHANGED <<sessions, minted, windows, memory, web, scenario, passwd, unannounced>>

-----------------------------------------------------------------------------
(* sudo tinypirelay passwd: replaces the credential as the web user, knowing *)
(* nothing of the web process, and restarts it last. Every failure ends it.  *)
Ends == passwd' = "idle"
Beside == UNCHANGED <<sessions, minted, windows, handler, lock, memory, web, scenario>>

PasswdBegins ==
  /\ passwd = "idle" /\ Spend("commands", scenario.commands)
  /\ passwd' = "write"
  /\ UNCHANGED <<directory, unannounced>> /\ Beside

PasswdWrites ==
  /\ passwd = "write" /\ MayMint
  /\ \E outcome \in Outcome :
       /\ MayFail(outcome) /\ FaultMint(outcome)
       /\ Changes(outcome, [Current EXCEPT !.credential = Minted])
       /\ IF outcome = "done" THEN passwd' = "finish" ELSE Ends
       /\ unannounced' = (unannounced \/ outcome = "uncertain")
  /\ Beside

PasswdFinishes ==
  /\ passwd = "finish"
  /\ \E outcome \in Outcome :
       /\ Finishing(outcome) /\ Fault(outcome)
       /\ IF outcome = "done" THEN passwd' = "restart" ELSE Ends
       /\ unannounced' = (unannounced \/ outcome # "done")
  /\ Beside

-----------------------------------------------------------------------------
(* The end of the process takes its threads, sessions and windows.           *)
Gone ==
  /\ handler' = [h \in Handler |-> Free] /\ lock' = None /\ memory' = NoRecord
  /\ sessions' = <<>> /\ windows' = <<>> /\ UNCHANGED minted
  /\ web' = "down"

WebDies ==
  /\ Up /\ Spend("crashes", scenario.crashes) /\ Gone
  /\ UNCHANGED <<directory, passwd, unannounced, scenario>>

(* systemctl restart: stopped, and started like any other time.              *)
PasswdRestarts ==
  /\ passwd = "restart" /\ Ends
  /\ \/ Gone /\ UNCHANGED <<unannounced, spent>>
     \/ /\ Spend("failures", scenario.failures) /\ unannounced' = TRUE
        /\ UNCHANGED <<sessions, minted, windows, handler, lock, memory, web>>
  /\ UNCHANGED <<directory, scenario>>

(* load_web_credential at the start: a credential is enough, and the marker  *)
(* alone means setup; a marker that cannot be removed delays the start.      *)
Startable(d) == d.credential # NoRecord \/ d.marker

WebStarts ==
  /\ web = "down" /\ Startable(Current)
  /\ \E outcome \in Outcome :
       /\ IF Current.credential # NoRecord THEN Finishing(outcome) ELSE outcome = "done" /\ UNCHANGED directory
       /\ Fault(outcome)
       /\ IF outcome = "done" THEN web' = "up" /\ memory' = Current.credential /\ unannounced' = FALSE
          ELSE UNCHANGED <<web, memory, unannounced>>
  /\ UNCHANGED <<sessions, minted, windows, handler, lock, passwd, scenario>>

(* A loss of power keeps the directory as it was at some moment since it was *)
(* last synchronized.                                                        *)
PowerLoss ==
  /\ Spend("crashes", scenario.crashes) /\ Gone
  /\ \E d \in Range(directory) : directory' = <<d>>
  /\ passwd' = "idle" /\ UNCHANGED <<unannounced, scenario>>

AccountInit ==
  /\ handler = [h \in Handler |-> Free] /\ lock = None /\ web = "up"
  /\ directory = <<scenario.disk>> /\ memory = scenario.disk.credential
  /\ passwd = "idle" /\ unannounced = FALSE
  /\ windows = <<>> /\ minted = scenario.sessions
  /\ sessions = [t \in 1 .. scenario.sessions |->
                   [Full(memory) EXCEPT !.older = 1 .. t - 1]]
  /\ spent = [minutes |-> 0, requests |-> 0, failures |-> 0, records |-> scenario.disk.credential,
              commands |-> 0, crashes |-> 0]

AccountStep ==
  \/ \E h \in Handler :
       \/ Login(h) \/ LoginVerify(h) \/ LoginOpens(h)
       \/ Request(h) \/ CheckCsrf(h) \/ SessionRotate(h) \/ Logout(h)
       \/ Reauthorize(h) \/ MaintenanceAsked(h) \/ PasswordWrite(h) \/ Adopt(h)
       \/ Setup(h) \/ SetupLoad(h) \/ SetupPublish(h) \/ SetupFinish(h)
  \/ PasswdBegins \/ PasswdWrites \/ PasswdFinishes \/ PasswdRestarts
  \/ WebStarts
  \/ Minute /\ UNCHANGED accountVars

AccountTypeOK ==
  /\ handler \in [Handler -> Thread]
  /\ lock \in Handler \cup {None}
  /\ memory \in Record /\ web \in {"up", "down"}
  /\ directory \in Seq(Directory) /\ directory # <<>>
  /\ passwd \in Passwd /\ unannounced \in BOOLEAN
=============================================================================
