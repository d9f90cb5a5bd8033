----------------------------- MODULE AtomicStore ------------------------------
(***************************************************************************)
(* What a JsonArrayStore promises its users: the file changes by one       *)
(* update at a time, each applied to what the file holds when it changes.  *)
(* The directory is a setting, so there may be several files.              *)
(***************************************************************************)
CONSTANTS
  Dirs,         \* values of incus.stateDir
  Ops,          \* the updates
  Apply(_, _),  \* Apply(op, items): the items after op, or Refused
  Refused       \* the mutator throws

VARIABLE files  \* files[d]: the items stored under d

\* op is applied to the items of d and the result is stored under e.
Update(op, d, e) ==
  /\ Apply(op, files[d]) # Refused
  /\ files' = [files EXCEPT ![e] = Apply(op, files[d])]

\* A change is one update, of one file; carrying the items over to a new
\* directory that was chosen while the update ran is allowed.
Next == \E op \in Ops, d, e \in Dirs : Update(op, d, e)
Spec == [][Next]_files
===============================================================================
