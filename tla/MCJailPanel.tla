------------------------------ MODULE MCJailPanel ------------------------------
(* Two containers; either jobs come and go or details are loaded and edited, *)
(* in each case while the selection changes.                                 *)
EXTENDS JailPanel

CONSTANTS a, b

MCJails == {a, b}
MCBudgets == {[starts |-> 2, toggles |-> 3, edits |-> 0, faults |-> 1],
              [starts |-> 0, toggles |-> 4, edits |-> 2, faults |-> 1]}
===============================================================================
