--------------------------- MODULE MCWorkQueueMgr ---------------------------
(* WorkQueueMgr for TLC: small sets of works and workers.                  *)
EXTENDS WorkQueueMgr, TLC

Symmetry == Permutations(Work) \cup Permutations(Worker)
=============================================================================
