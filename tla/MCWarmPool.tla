----------------------------- MODULE MCWarmPool -----------------------------
(***************************************************************************)
(* WarmPool for TLC.  Getters and tunnel slots are interchangeable: no     *)
(* action orders them.  The safety run uses their symmetry; the run of the *)
(* background tasks checks liveness, where symmetry is not sound, and      *)
(* keeps one representative instead (its slots are numbers): free slots    *)
(* are taken in order, and of two dial tasks at the same point the one in  *)
(* the lower slot moves first.  Every behaviour is one of these, renamed.  *)
(***************************************************************************)
EXTENDS WarmPool, TLC

Symmetry == Permutations(Getters) \cup Permutations(Tunnels)

LowestSlots ==
  /\ \A t \in Slots \ Slots', u \in Slots \cap Slots' : t < u
  /\ \A t, u \in Tunnels : u < t /\ task[u] = task[t] /\ task[u] # "none" /\ task'[t] # task[t]
                              => task'[u] # task[u]

\* A dial of the Builder succeeds if it is tried often enough.
WarmSpec == FairSpec /\ \A t \in Tunnels : SF_vars(TaskDialOk(t))
=============================================================================
