---------------------------- MODULE MCSupervisor ----------------------------
(***************************************************************************)
(* Instances of Supervisor: its bounds are numbers, given in each .cfg.    *)
(* Workers are numbered in the order of their forks, so there is nothing   *)
(* symmetric about them.                                                   *)
(***************************************************************************)
EXTENDS Supervisor
=============================================================================
