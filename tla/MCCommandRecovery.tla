------------------------- MODULE MCCommandRecovery -------------------------
(* CommandRecovery on small instances: the kinds and ids of the commands  *)
(* and the triggers of the background tasks.                              *)
EXTENDS CommandRecovery

CONSTANTS c1, c2, manual, periodic

AllCreate == [c \in Commands |-> "create"]
Triggers  == [b \in Background |-> IF b = periodic THEN "Periodic" ELSE "Manual"]

\* One command beside a periodic or a manual reconcile, or two commands.
AnyCast == {{c1, periodic}, {c1, manual}, {c1, c2}}
TwoCommands == {{c1, c2}}

\* The second command carries no id when it takes part.
MixedIds  == {[c \in Commands |-> IF c = c1 THEN i ELSE "none"] : i \in {"order", "client", "none"}}
ClientIds == {[c \in Commands |-> "client"]}
=============================================================================
