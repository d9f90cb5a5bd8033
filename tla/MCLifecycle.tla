------------------------------ MODULE MCLifecycle ------------------------------
(* One host whose service is enabled.  The configs that may be saved: two that *)
(* work, one that switches the service off, one that fails to reconcile and   *)
(* one that apply-settings.sh does not accept.                                *)
EXTENDS Lifecycle, TLC

CONSTANTS on, other, off, broken, invalid
MCEnabled == Configs \cap {on, other, broken, invalid}
MCInvalid == Configs \cap {invalid}
MCBroken == Configs \cap {broken}

\* Three configs have their INCUS_DIR elsewhere than the installed one.
CONSTANTS appdata, elsewhere
MCDirs == {appdata, elsewhere}
MCDir == [c \in Configs |-> IF c \in {other, off, broken} THEN elsewhere ELSE appdata]

\* The bound of the run with two saves: nothing goes on after a save that comes
\* while another one is applied, and after a kill and two saves the array stays up.
OneByOne == ~hasty
StaysUp == ~(kills > 0 /\ array = "unmounting" /\ \A a \in Applies : at[a] # "idle")

\* Processes, and saves, differ in nothing but their names.
Symmetry == Permutations(Pids) \cup Permutations(Watchdogs) \cup Permutations(Applies)
===============================================================================
