--------------------------- MODULE MCKeyedWorker ---------------------------
(* Two keys, four pushes (three of them under one key) and one drain, with  *)
(* limits that both bite.                                                   *)
EXTENDS KeyedWorker, TLC

CONSTANTS k1, k2, j1, j2, j3, j4, d1

MCKeys   == {k1, k2}
MCJobs   == {j1, j2, j3, j4}
MCKeyOf  == (j1 :> k1) @@ (j2 :> k1) @@ (j3 :> k1) @@ (j4 :> k2)
MCDrains == {d1}
=============================================================================
