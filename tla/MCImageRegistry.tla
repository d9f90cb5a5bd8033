---------------------------- MODULE MCImageRegistry ----------------------------
(* Two tabs, a deletion, a prune and a build on two images. *)
EXTENDS ImageRegistry
===============================================================================
