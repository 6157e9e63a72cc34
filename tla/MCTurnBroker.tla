---------------------------- MODULE MCTurnBroker ----------------------------
(* Two turns that share a thread, one of an attributed author and one not.    *)
EXTENDS TurnBroker

CONSTANTS t1, t2, h1

TwoTurns == {t1, t2}
OneThread == {h1}
Shared == [t \in TwoTurns |-> h1]
First == {t1}
=============================================================================
