----------------------------- MODULE MCConfigLock -----------------------------
(* A save that waits and a watcher sync that does not, restarted after a crash. *)
EXTENDS ConfigLock

CONSTANTS save, sync

MCCallers == {save, sync}
MCMaxRetries == [c \in MCCallers |-> IF c = sync THEN 0 ELSE 1]
===============================================================================
