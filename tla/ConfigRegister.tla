---------------------------- MODULE ConfigRegister ----------------------------
(* What the configuration promises to its clients: a register that is only  *)
(* replaced by who has seen what it replaces, and that a loss of power      *)
(* takes back to an earlier content only as long as the new one was not     *)
(* confirmed. ConfigControl implements it with a file.                      *)
CONSTANTS Client, Content

VARIABLES
  value,   \* the content
  safe,    \* the contents a loss of power may leave
  seen     \* what each client last read, or was told to have written

vars == <<value, safe, seen>>

Init ==
  /\ value \in Content
  /\ safe = {value}
  /\ seen = [c \in Client |-> value]

See(c) ==
  /\ seen' = [seen EXCEPT ![c] = value]
  /\ UNCHANGED <<value, safe>>

Replace(c, content) ==
  /\ seen[c] = value
  /\ value' = content
  /\ safe' = safe \cup {content}
  /\ UNCHANGED seen

(* The client may never get the answer.                                     *)
Confirm(c) ==
  /\ safe' = {value}
  /\ seen' \in {seen, [seen EXCEPT ![c] = value]}
  /\ UNCHANGED value

LosePower ==
  /\ value' \in safe
  /\ safe' = {value'}
  /\ UNCHANGED seen

Next ==
  \/ LosePower
  \/ \E c \in Client : See(c) \/ Confirm(c) \/ \E content \in Content : Replace(c, content)

Spec == Init /\ [][Next]_vars
=============================================================================
