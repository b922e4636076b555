------------------------------ MODULE MCDriver ------------------------------
(* Driver for TLC, with small sets of works and of requests at a time.     *)
EXTENDS Driver
=============================================================================
