----------------------------- MODULE MCWebPlane ------------------------------
(* WebPlane on small instances: each scenario allows the interleavings one    *)
(* part is about, with the faults that hurt it.                               *)
EXTENDS WebPlane

One == CHOOSE h \in Handler : TRUE
MCThreads == {One, CHOOSE h \in Handler : h # One}
NoChances == [requests |-> 0, timeouts |-> 0, faults |-> 0, crashes |-> 0, starts |-> 0]
Fresh == [credential |-> NoRecord, marker |-> TRUE]
Claimed == [credential |-> 1, marker |-> FALSE]

Still ==
  [threads |-> MCThreads, disk |-> Claimed, sessions |-> 0, requests |-> {}, streams |-> {}, addresses |-> {"near"},
   seconds |-> FALSE, budget |-> 0, minutes |-> 0, failures |-> 0, records |-> 1, commands |-> 0, crashes |-> 0,
   channel |-> NoChances, moves |-> 0, samples |-> FALSE]

(* Two threads log in, change the password and lose sessions to the clock,   *)
(* beside the passwd command.                                                *)
Signing == [Still EXCEPT !.sessions = 1, !.requests = {"login", "change", "maintain"},
                         !.budget = 3, !.records = 3, !.commands = 1, !.failures = 1]

(* Sessions that are rotated, ended, evicted and expire; attempts of two     *)
(* addresses against the limits.                                             *)
Sessions == [Still EXCEPT !.sessions = 1, !.requests = {"login", "session", "logout"},
                          !.budget = 4, !.minutes = 2]
Trying == [Still EXCEPT !.threads = Handler, !.requests = {"login"}, !.addresses = Address, !.budget = 4, !.minutes = 1]

(* First setup, twice, with failing writes, the passwd command and the power *)
(* gone.                                                                     *)
SettingUp == [Still EXCEPT !.disk = Fresh, !.requests = {"setup", "login"}, !.budget = 3,
                           !.records = 2, !.commands = 1, !.failures = 2, !.crashes = 2]

(* Two who watch and two who transfer, with a logout, a failing lease, and a *)
(* restart.                                                                  *)
Viewing == [Still EXCEPT !.sessions = 1, !.streams = {"events"}, !.seconds = TRUE, !.budget = 3, !.failures = 1]
Leaving == [Still EXCEPT !.sessions = 2, !.streams = {"events", "file"}, !.requests = {"logout", "session"},
                         !.budget = 3, !.crashes = 1]

(* The channel opened, used, closed and opened again.                        *)
Serving == [Still EXCEPT !.channel = [requests |-> 3, timeouts |-> 1, faults |-> 1, crashes |-> 1, starts |-> 2]]

(* A host that changes under its measurements.                               *)
Sampling == [Still EXCEPT !.samples = TRUE, !.moves = 2]

MCScenarios == {Signing, Sessions, Trying, SettingUp, Viewing, Leaving, Serving, Sampling}
MCPlace == {"home", "card"}
MCDevice == {1, 2}
=============================================================================
