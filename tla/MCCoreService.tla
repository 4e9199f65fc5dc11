---------------------------- MODULE MCCoreService ----------------------------
(***************************************************************************)
(* CoreService for TLC: the main thread, one binder thread and one job;    *)
(* two nodes, of which the watchdog's list has one, so that a failure      *)
(* leads to a switch or, once on that node, to a restart.                  *)
(***************************************************************************)
EXTENDS CoreService, TLC

=============================================================================
