------------------------------ MODULE MCFakeIp ------------------------------
(***************************************************************************)
(* FakeIp for TLC.  The smallest range with more than one usable address   *)
(* (2 and 3) and one domain more than that, so that slots are reused.      *)
(* Domains, threads and flushers are interchangeable: nothing orders them  *)
(* (the CHOOSE of Restart has one candidate when the maps are inverse).    *)
(***************************************************************************)
EXTENDS FakeIp, TLC

Symmetry == Permutations(Domains) \cup Permutations(Threads) \cup Permutations(Flushers)
=============================================================================
