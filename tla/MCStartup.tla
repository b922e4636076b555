----------------------------- MODULE MCStartup -----------------------------
(* Startup for TLC: a worker that registers while the coordinator starts. *)
EXTENDS Startup
=============================================================================
