----------------------------- MODULE MCWorkMgr -----------------------------
(***************************************************************************)
(* WorkMgr for TLC.  In every behaviour fleet is the set of workers that   *)
(* ever register: one of them, and then faults happen, or all of them, and *)
(* then, if that is more than one, none do.                                *)
(***************************************************************************)
EXTENDS WorkMgr, TLC

VARIABLE fleet

MCInit ==
  /\ Init
  /\ fleet \in {{x} : x \in Worker} \cup {Worker}

MCNext ==
  /\ Next
  /\ \A x \in Worker \ fleet : pool'[x] = P!Absent
  /\ Cardinality(fleet) > 1 => faults' = faults
  /\ UNCHANGED fleet

MCSpec == MCInit /\ [][MCNext]_<<vars, fleet>>
MCFairSpec == MCSpec /\ Fairness

Symmetry == Permutations(Work) \cup Permutations(Worker) \cup Permutations(Trigger)
=============================================================================
