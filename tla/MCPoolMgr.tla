----------------------------- MODULE MCPoolMgr -----------------------------
(* PoolMgr for TLC: small sets of workers and threads.                     *)
EXTENDS PoolMgr
============================================================================
