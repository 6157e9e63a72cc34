--------------------------- MODULE MCEventPipeline ---------------------------
(* One thread, two requests, crashes, a posting that fails. *)
EXTENDS EventPipeline

CONSTANTS r1, r2

TwoRequests == {r1, r2}

\* Requests of a turn, with a crash, with a posting that fails, left by a turn that
\* another follows; two turns and a crash; a turn and compactions, compactions that
\* outlive their latch, and a crash among them; a report, an item and a crash; items
\* left behind by one crash and delivered after a second.
Scenario(turns, asks, usages, items, crashes, failures) ==
  [turns |-> turns, asks |-> asks, usages |-> usages, items |-> items, crashes |-> crashes,
   failures |-> failures]
Scenarios == {Scenario(1, 2, 0, 0, 0, 0), Scenario(1, 1, 0, 0, 1, 0), Scenario(1, 1, 0, 0, 0, 1),
              Scenario(2, 0, 0, 0, 1, 0), Scenario(2, 1, 0, 0, 0, 0), Scenario(1, 0, 2, 0, 0, 0),
              Scenario(0, 0, 1, 1, 1, 0), Scenario(0, 0, 3, 0, 0, 0), Scenario(0, 0, 2, 0, 1, 0),
              Scenario(0, 0, 0, 2, 2, 0)}
=============================================================================
