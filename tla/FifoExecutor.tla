---------------------------- MODULE FifoExecutor ----------------------------
(***************************************************************************)
(* What a user of a keyed queue is promised: the work of a key is taken    *)
(* from a bounded backlog, oldest first, and the next one begins when its  *)
(* predecessor has left; work is refused only when a limit is reached.     *)
(* KeyedWorker implements it.                                              *)
(***************************************************************************)
EXTENDS Naturals, Sequences, FiniteSets

CONSTANTS Keys, Jobs, KeyOf, MaxPendingPerKey, MaxPendingTotal

VARIABLES
    backlog,    \* key -> the accepted jobs that have not left, oldest first
    stage       \* job -> "new", "rejected", "waiting", "active" or "done"

InBacklog == {j \in Jobs : stage[j] \in {"waiting", "active"}}

Full(k) == \/ Len(backlog[k]) >= MaxPendingPerKey
           \/ Cardinality(InBacklog) >= MaxPendingTotal

Init == /\ backlog = [k \in Keys |-> << >>]
        /\ stage = [j \in Jobs |-> "new"]

Submit(j) == /\ stage[j] = "new"
             /\ ~Full(KeyOf[j])
             /\ backlog' = [backlog EXCEPT ![KeyOf[j]] = Append(@, j)]
             /\ stage' = [stage EXCEPT ![j] = "waiting"]

Refuse(j) == /\ stage[j] = "new"
             /\ Full(KeyOf[j])
             /\ stage' = [stage EXCEPT ![j] = "rejected"]
             /\ UNCHANGED backlog

Oldest(j) == backlog[KeyOf[j]] # << >> /\ Head(backlog[KeyOf[j]]) = j

Begin(j) == /\ Oldest(j)
            /\ stage[j] = "waiting"
            /\ stage' = [stage EXCEPT ![j] = "active"]
            /\ UNCHANGED backlog

Leave(j) == /\ Oldest(j)
            /\ stage[j] = "active"
            /\ backlog' = [backlog EXCEPT ![KeyOf[j]] = Tail(@)]
            /\ stage' = [stage EXCEPT ![j] = "done"]

Next == \E j \in Jobs : Submit(j) \/ Refuse(j) \/ Begin(j) \/ Leave(j)

Spec == Init /\ [][Next]_<<backlog, stage>>
=============================================================================
