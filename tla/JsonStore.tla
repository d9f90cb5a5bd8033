------------------------------- MODULE JsonStore -------------------------------
(***************************************************************************)
(* JsonArrayStore of json-store.ts: a JSON array in a file, read, modified *)
(* and written back by asynchronous updates that a promise chain puts in a *)
(* row.  The path is asked for anew when a read and when a write begins.   *)
(* What the items are and what the updates do to them is up to the user.   *)
(***************************************************************************)
EXTENDS Sequences

CONSTANTS
  Apply(_, _),  \* Apply(op, items): the items after op, or Refused
  Refused,      \* the mutator throws
  Callers       \* they call update(), one update at a time each

VARIABLES
  files,   \* files[d]: the items stored under directory d
  dir,     \* the directory the path function names now
  chain,   \* callers whose update is not settled, oldest first
  op,      \* op[c]: the update of caller c while it is in the chain, else Refused
  loaded,  \* loaded[c]: what c is about to write, Refused before it has read
  path,    \* path[c]: the directory c writes to, Refused before its write begins
  answer   \* answer[c]: idle, waiting, ok or failed

\* A slip in Turn: no chain, an update runs as soon as it is asked for.
AnyTurn(c) == answer[c] = "waiting"

\* The update of c may run: all earlier ones have settled.
Turn(c) == chain # <<>> /\ Head(chain) = c

\* c calls update with o.
Issue(c, o) ==
  /\ answer[c] # "waiting"
  /\ chain' = Append(chain, c)
  /\ op' = [op EXCEPT ![c] = o]
  /\ answer' = [answer EXCEPT ![c] = "waiting"]
  /\ UNCHANGED <<files, dir, loaded, path>>

\* The update of c, the oldest, settles with r; what comes after it runs in any case.
Settle(c, r) ==
  /\ chain' = Tail(chain)
  /\ loaded' = [loaded EXCEPT ![c] = Refused]
  /\ path' = [path EXCEPT ![c] = Refused]
  /\ op' = [op EXCEPT ![c] = Refused]
  /\ answer' = [answer EXCEPT ![c] = r]

\* The file is read and the mutator run.
Load(c) ==
  /\ Turn(c) /\ loaded[c] = Refused
  /\ Apply(op[c], files[dir]) # Refused
  /\ loaded' = [loaded EXCEPT ![c] = Apply(op[c], files[dir])]
  /\ UNCHANGED <<files, dir, chain, op, path, answer>>

\* A slip in LoadFails: a rejected update stays at the head of the chain.
ChainBreaks(c) ==
  /\ Turn(c) /\ loaded[c] = Refused /\ answer[c] = "waiting"
  /\ answer' = [answer EXCEPT ![c] = "failed"]
  /\ UNCHANGED <<files, dir, chain, op, loaded, path>>

\* Another: the rejection is swallowed, and the chain waits for it for ever.
LoadHangs(c) ==
  /\ Turn(c) /\ loaded[c] = Refused
  /\ UNCHANGED <<files, dir, chain, op, loaded, path, answer>>

\* The read, the validation or the mutator throws: the caller is told.
LoadFails(c) ==
  /\ Turn(c) /\ loaded[c] = Refused
  /\ Settle(c, "failed")
  /\ UNCHANGED <<files, dir>>

\* The write begins: the path is as the settings say by now.
Opens(c) ==
  /\ loaded[c] # Refused /\ path[c] = Refused
  /\ path' = [path EXCEPT ![c] = dir]
  /\ UNCHANGED <<files, dir, chain, op, loaded, answer>>

\* The temporary file is renamed over the path.
Store(c) ==
  /\ path[c] # Refused
  /\ files' = [files EXCEPT ![path[c]] = loaded[c]]
  /\ Settle(c, "ok")
  /\ UNCHANGED dir

\* The temporary file cannot be written or renamed.
StoreFails(c) ==
  /\ path[c] # Refused
  /\ Settle(c, "failed")
  /\ UNCHANGED <<files, dir>>

StoreStep(c) == Load(c) \/ LoadFails(c) \/ Opens(c) \/ Store(c) \/ StoreFails(c)

\* A save of the settings changes the directory.
Relocate(d) ==
  /\ dir' = d
  /\ UNCHANGED <<files, chain, op, loaded, path, answer>>
===============================================================================
