-------------------------- MODULE MCControlClients --------------------------
(***************************************************************************)
(* Two commands at a time, against no host or one that serves.             *)
(***************************************************************************)
EXTENDS ControlClients

CONSTANT A

Pair(x, y) == [c \in Clients |-> IF c = A THEN x ELSE y]
Case(cmds, open, up, policy, autostart, startable, signal, n) ==
  [cmds |-> cmds, open |-> open, up |-> up, policy |-> policy, autostart |-> autostart,
   startable |-> startable, signal |-> signal, faults |-> n]

MCScenarios ==
  {Case(Pair(x, y), TRUE, up, "detached", FALSE, TRUE, FALSE, 1) :
     x \in {"start", "restart", "package", "import"}, y \in {"api-stop", "stop", "start"}, up \in BOOLEAN}
  \cup {Case(Pair(x, y), FALSE, FALSE, "detached", auto, TRUE, FALSE, 1) :
     x \in {"api-start", "start"}, y \in {"api-start", "api-status", "api-stop"}, auto \in BOOLEAN}
  \cup {Case(Pair("api-start", y), TRUE, TRUE, "detached", TRUE, TRUE, y = "api-status", 1) :
     y \in {"api-stop", "api-status"}}
  \cup {Case(Pair("interactive", y), TRUE, up, "stop_on_last_lease", FALSE, TRUE, FALSE, 1) :
     y \in {"interactive", "start", "main-status", "restart"}, up \in BOOLEAN}
  \cup {Case(Pair("stop", "restart"), TRUE, TRUE, "detached", FALSE, TRUE, FALSE, 2)}
  \cup {Case(Pair("start", "main-status"), TRUE, FALSE, "detached", FALSE, FALSE, TRUE, 0)}
=============================================================================
