------------------------------ MODULE MCControl ------------------------------
(* ControlPlane on small instances: each scenario allows the interleavings  *)
(* one part is about, with the faults that hurt it.                         *)
EXTENDS ControlPlane

Plain == [device |-> TRUE, mode |-> TRUE, validated |-> TRUE, enabled |-> FALSE, represented |-> TRUE,
          suits |-> TRUE, addressed |-> FALSE, inRange |-> TRUE, updates |-> 10, bands |-> 64]
Streams == [Plain EXCEPT !.enabled = TRUE, !.addressed = TRUE]
Unset == [Plain EXCEPT !.device = FALSE, !.mode = FALSE, !.represented = FALSE]
Invalid ==
  {[Plain EXCEPT !.device = FALSE], [Unset EXCEPT !.represented = TRUE], [Plain EXCEPT !.enabled = TRUE],
   [Plain EXCEPT !.validated = FALSE], [Plain EXCEPT !.suits = FALSE], [Plain EXCEPT !.inRange = FALSE],
   [Plain EXCEPT !.updates = 61], [Plain EXCEPT !.bands = 63]}

MCBase == {Plain, Streams, Unset} \cup Invalid
MCDirectory == {"home", "card"}
MCSecret == {"one"}

Good == [directory |-> TRUE, known |-> TRUE, required |-> TRUE, mounted |-> TRUE, inside |-> TRUE,
         same |-> TRUE, writable |-> TRUE, measured |-> TRUE, full |-> FALSE]
Gone == [Good EXCEPT !.mounted = FALSE]

Keep == [base |-> Plain, bitrate |-> 1, directory |-> "home", secret |-> "keep"]
Move == [Keep EXCEPT !.directory = "card"]
Start == [base |-> Plain, bitrate |-> 1, directory |-> "home", secret |-> "one"]

Still ==
  [config |-> Start, clients |-> {CHOOSE c \in Client : TRUE}, offers |-> {}, storages |-> {Good},
   follows |-> FALSE, commands |-> {}, mutations |-> {}, tools |-> FALSE,
   actions |-> {}, installs |-> FALSE,
   updates |-> 0, failures |-> 0, changes |-> 0, reads |-> 0, mutating |-> 0, acting |-> 0,
   starts |-> 0, crashes |-> 0]

(* Two clients, two updates, a failure and a crash.                         *)
Edits == [base: {Plain, Unset} \cup Invalid, bitrate: {1, 2}, directory: {"home"}, secret: MCSecret \cup {"keep", "clear"}]
Editing == [Still EXCEPT !.clients = Client, !.config.base = Unset, !.offers = Edits, 
                          !.updates = 2, !.failures = 1, !.crashes = 1]

(* A recording that starts by itself, stops and fails while the directory   *)
(* is changed.                                                              *)
Moving == [Still EXCEPT !.offers = {Move}, !.follows = TRUE,
                        !.commands = {"capture", "stop capture"}, !.updates = 1, !.crashes = 1]

(* Fragments are recorded, listed, read, checked and deleted.               *)
Browsing == [Still EXCEPT !.commands = {"recording", "stop recording"}, !.tools = TRUE,
                         !.mutations = {"delete", "check"}, !.reads = 1, !.mutating = 2,
                         !.starts = 1]

(* Nothing to check or recover with.                                        *)
Toolless == [Still EXCEPT !.commands = {"recording", "stop recording"}, !.starts = 1,
                          !.mutations = {"check", "recover"}, !.mutating = 1]

(* A recovery beside recordings, a failing storage and a crash; beside a    *)
(* deletion and a change of the directory.                                  *)
Recovery == [Still EXCEPT !.storages = {Good, Gone},
                          !.commands = {"recording", "stop recording"}, !.tools = TRUE,
                          !.mutations = {"check", "recover"}, !.mutating = 1,
                          !.failures = 1, !.starts = 2, !.crashes = 1]
Unmounting == [Recovery EXCEPT !.failures = 0, !.crashes = 0, !.changes = 1]
Relocating == [Still EXCEPT !.offers = {Move}, !.updates = 1,
                            !.commands = {"recording", "stop recording"}, !.tools = TRUE,
                            !.mutations = {"delete", "recover"}, !.mutating = 2, !.starts = 1]

(* The helper against clients that go on; against an installation, another  *)
(* action, and a crash.                                                     *)
Maintaining == [Still EXCEPT !.config.base = Streams,
                             !.commands = {"recording", "stop recording"},
                             !.actions = {"media.restart", "system.reboot"}, !.acting = 1,
                             !.starts = 2, !.failures = 1]
Contending == [Still EXCEPT !.config.base = Streams, !.commands = {"capture", "stop capture"},
                            !.offers = {[Keep EXCEPT !.base = Streams, !.bitrate = 2]}, !.updates = 1,
                            !.actions = {"media.restart", "system.reboot"}, !.installs = TRUE,
                            !.acting = 2, !.failures = 1, !.crashes = 1]

MCScenarios == {Editing, Moving, Browsing, Toolless, Recovery, Unmounting, Relocating,
                Maintaining, Contending}
=============================================================================
