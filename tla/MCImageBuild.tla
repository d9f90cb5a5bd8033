----------------------------- MODULE MCImageBuild ------------------------------
(* Three calls, one slot, one place in the queue. *)
EXTENDS ImageBuild, TLC
===============================================================================
