----------------------------- MODULE MCInstaller -----------------------------
(* Installer with a release from before LAN access and maintenance, two     *)
(* versions and a second payload under the number of the later one.         *)
EXTENDS Installer

CONSTANTS mine

Release(version, build, modern) ==
  [version |-> version, build |-> build, lan |-> modern, maintained |-> modern]
Legacy == Release(1, "a", FALSE)
First == Release(1, "b", TRUE)
Second == Release(2, "a", TRUE)
Rebuilt == Release(2, "b", TRUE)
Artifacts == {Legacy, First, Second, Rebuilt}

Installing ==
  [installed |-> None, artifacts |-> {First}, configs |-> {None, mine}, access |-> {None},
   uninstalls |-> {FALSE}, operators |-> {"one"}, operations |-> 3, failures |-> 1, crashes |-> 1,
   events |-> {"signup", "boot"}, happening |-> 1]

Upgrading ==
  [installed |-> Legacy, artifacts |-> {Second, Rebuilt}, configs |-> {None}, access |-> {None, "lan"},
   uninstalls |-> {}, operators |-> {"one"}, operations |-> 2, failures |-> 2, crashes |-> 1,
   events |-> {"edit", "lose", "boot"}, happening |-> 1]

Repairing ==
  [installed |-> First, artifacts |-> {First}, configs |-> {None}, access |-> {None, "lan", "loopback"},
   uninstalls |-> {}, operators |-> {"one"}, operations |-> 3, failures |-> 2, crashes |-> 1,
   events |-> {"damage"}, happening |-> 1]

Uninstalling ==
  [installed |-> First, artifacts |-> {First, Second}, configs |-> {None}, access |-> {None},
   uninstalls |-> {FALSE, TRUE}, operators |-> {"one"}, operations |-> 3, failures |-> 1, crashes |-> 1,
   events |-> {"boot", "lose"}, happening |-> 1]

Rivals ==
  [installed |-> First, artifacts |-> {First, Second}, configs |-> {None}, access |-> {None},
   uninstalls |-> {FALSE}, operators |-> {"one", "other"}, operations |-> 3, failures |-> 0, crashes |-> 1,
   events |-> {}, happening |-> 0]

(* A plan for another payload outlives an upgrade that was rolled back.     *)
Contending ==
  [installed |-> First, artifacts |-> {First, Second, Rebuilt}, configs |-> {None}, access |-> {None},
   uninstalls |-> {}, operators |-> {"one", "other"}, operations |-> 3, failures |-> 1, crashes |-> 0,
   events |-> {"damage"}, happening |-> 1]

InstallerScenarios == {Installing, Upgrading, Repairing, Uninstalling, Rivals, Contending}
RollbackScenario == {Upgrading}
=============================================================================
