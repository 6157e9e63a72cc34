------------------------------ MODULE MCRuntime ------------------------------
EXTENDS Runtime

CONSTANTS c1, c2, c3, la, lb

\* Two commands of one resource, one of another.
MCResource == [c \in Commands |-> IF c = c3 THEN "b" ELSE "a"]
MCRestarts == [l \in Launches |-> IF l = la THEN 1 ELSE 0]

\* Commands, with and without a crash; sidecars, ditto.
Budget(stored, left, intents, turns, selfDrains, ensures, stops, crashes, failures) ==
  [stored |-> stored, left |-> left, intents |-> intents, turns |-> turns, drains |-> selfDrains,
   ensures |-> ensures, stops |-> stops, crashes |-> crashes, failures |-> failures]
MCBudgets == {Budget({c2}, NoLaunch, {c1}, 1, 0, 0, 0, 0, 0),
              Budget({}, NoLaunch, {c1, c3}, 0, 1, 0, 0, 0, 1),
              Budget({}, NoLaunch, {c1}, 1, 1, 0, 0, 1, 0),
              Budget({}, NoLaunch, {}, 0, 0, 2, 0, 0, 0), Budget({}, NoLaunch, {}, 0, 0, 1, 1, 0, 0),
              Budget({}, NoLaunch, {}, 0, 0, 1, 0, 1, 0), Budget({}, la, {}, 0, 0, 1, 0, 0, 0)}
=============================================================================
