------------------------------ MODULE ConfigLock ------------------------------
(***************************************************************************)
(* The lock file incus.cfg.lock, as acquireCfgLock and releaseCfgLock of   *)
(* config-sync.service.ts take it and give it back.  Every caller runs in  *)
(* a process of its own and each file-system call is one step, so that the *)
(* calls of different callers interleave in any order; callers that share  *)
(* one event loop have fewer interleavings.                                *)
(*                                                                         *)
(* A lock file is a generation: (inode, mtime) identify it and every       *)
(* creation makes a new one.  A token is drawn for each acquisition and    *)
(* written into the file that acquisition created, so "the file holds my   *)
(* token" is "the file is of the generation I created".                    *)
(***************************************************************************)
EXTENDS Naturals

CONSTANTS
  Callers,     \* those who call acquireCfgLock: saves, watcher syncs, a second API process
  MaxRetries,  \* MaxRetries[c]: the argument of acquireCfgLock, 0 or CFG_LOCK_MAX_RETRIES
  MaxGen,      \* bound: lock files created in a behaviour
  MaxCrashes   \* bound: processes that die in a behaviour

ASSUME LockAssumption ==
  /\ MaxRetries \in [Callers -> Nat]
  /\ MaxGen \in Nat
  /\ MaxCrashes \in Nat

VARIABLES
  pc,         \* pc[c]: where caller c is
  lock,       \* generation of the lock file, 0 when there is none
  gen,        \* generations created so far
  stale,      \* the lock file is older than CFG_LOCK_STALE_MS
  mine,       \* mine[c]: generation c created last (its token)
  before,     \* before[c]: generation c saw when it last checked the file
  attempt,    \* attempt[c]: waits c has done in this acquisition
  readOnly,   \* the flash refuses creations and removals
  crashes,    \* processes that died so far
  overrun,    \* history: some holder was still at work when its lock went stale
  stealRaced  \* history: a steal removed another generation than the one it checked

\* What the lock file is, and what only the environment and the histories change.
file == <<lock, gen, stale>>
env  == <<readOnly, crashes, overrun>>
vars == <<pc, lock, gen, stale, mine, before, attempt, readOnly, crashes, overrun, stealRaced>>

Holding == {"write", "critical", "unlinkOwn"}
Trying  == {"create", "stat", "restat", "steal"}
PCs     == {"idle", "wait"} \cup Trying \cup Holding

\* The lock file still is the one c created.
Owns(c) == pc[c] \in Holding /\ lock = mine[c]

Init ==
  /\ pc = [c \in Callers |-> "idle"]
  /\ lock = 0 /\ gen = 0 /\ stale = FALSE
  /\ mine = [c \in Callers |-> 0]
  /\ before = [c \in Callers |-> 0]
  /\ attempt = [c \in Callers |-> 0]
  /\ readOnly = FALSE /\ crashes = 0
  /\ overrun = FALSE /\ stealRaced = FALSE

\* c moves on from p to q.
Move(c, p, q) == pc[c] = p /\ pc' = [pc EXCEPT ![c] = q]

\* The call of c returns or its process dies: its local variables are gone.
Leave(c) ==
  /\ pc' = [pc EXCEPT ![c] = "idle"]
  /\ mine' = [mine EXCEPT ![c] = 0]
  /\ before' = [before EXCEPT ![c] = 0]
  /\ attempt' = [attempt EXCEPT ![c] = 0]

-------------------------------------------------------------------------------
(* acquireCfgLock *)

Request(c) ==
  /\ Move(c, "idle", "create")
  /\ UNCHANGED <<file, mine, before, attempt, env, stealRaced>>

\* The exclusive creation succeeds: a new file, still empty.
Create(c) ==
  /\ Move(c, "create", "write")
  /\ lock = 0 /\ ~readOnly /\ gen < MaxGen
  /\ gen' = gen + 1
  /\ lock' = gen + 1
  /\ stale' = FALSE
  /\ mine' = [mine EXCEPT ![c] = gen + 1]
  /\ UNCHANGED <<before, attempt, env, stealRaced>>

\* EEXIST, which a read-only file system answers too.
CreateExists(c) ==
  /\ Move(c, "create", "stat")
  /\ lock # 0
  /\ UNCHANGED <<file, mine, before, attempt, env, stealRaced>>

\* Any other error: the caller is told null.
CreateFails(c) ==
  /\ pc[c] = "create" /\ Leave(c)
  /\ lock = 0
  /\ UNCHANGED <<file, env, stealRaced>>

WriteToken(c) ==
  /\ Move(c, "write", "critical")
  /\ UNCHANGED <<file, mine, before, attempt, env, stealRaced>>

\* The write fails after the creation: null, and the file stays.
WriteFails(c) ==
  /\ pc[c] = "write" /\ Leave(c)
  /\ UNCHANGED <<file, env, stealRaced>>

\* First stat: the file has vanished.
StatVanished(c) ==
  /\ Move(c, "stat", "create")
  /\ lock = 0
  /\ UNCHANGED <<file, mine, before, attempt, env, stealRaced>>

\* A slip in StatStale: the age is not compared with CFG_LOCK_STALE_MS.
StatAnyAge(c) ==
  /\ Move(c, "stat", "restat")
  /\ lock # 0
  /\ before' = [before EXCEPT ![c] = lock]
  /\ UNCHANGED <<file, mine, attempt, env, stealRaced>>

StatStale(c) ==
  /\ Move(c, "stat", "restat")
  /\ lock # 0 /\ stale
  /\ before' = [before EXCEPT ![c] = lock]
  /\ UNCHANGED <<file, mine, attempt, env, stealRaced>>

GiveUp(c) ==
  /\ pc[c] = "stat" /\ Leave(c)
  /\ lock # 0 /\ ~stale
  /\ attempt[c] >= MaxRetries[c]
  /\ UNCHANGED <<file, env, stealRaced>>

\* A slip in Wait: ">" for ">=", one wait too many.
WaitOnceMore(c) ==
  /\ Move(c, "stat", "wait")
  /\ lock # 0 /\ ~stale
  /\ attempt[c] <= MaxRetries[c]
  /\ attempt' = [attempt EXCEPT ![c] = @ + 1]
  /\ UNCHANGED <<file, mine, before, env, stealRaced>>

Wait(c) ==
  /\ Move(c, "stat", "wait")
  /\ lock # 0 /\ ~stale
  /\ attempt[c] < MaxRetries[c]
  /\ attempt' = [attempt EXCEPT ![c] = @ + 1]
  /\ UNCHANGED <<file, mine, before, env, stealRaced>>

\* The CFG_LOCK_RETRY_MS timer.
Retry(c) ==
  /\ Move(c, "wait", "create")
  /\ UNCHANGED <<file, mine, before, attempt, env, stealRaced>>

\* A slip in RestatSame: the comparison is inverted, so a stale lock is never unlinked.
RestatInverted(c) ==
  /\ Move(c, "restat", "create")
  /\ lock = before[c]
  /\ UNCHANGED <<file, mine, before, attempt, env, stealRaced>>

\* Second stat: the same file as before, or not.
RestatSame(c) ==
  /\ Move(c, "restat", "steal")
  /\ lock = before[c]
  /\ UNCHANGED <<file, mine, before, attempt, env, stealRaced>>

RestatChanged(c) ==
  /\ Move(c, "restat", "create")
  /\ lock # before[c]
  /\ UNCHANGED <<file, mine, before, attempt, env, stealRaced>>

\* A slip in Steal: the unlink is forgotten before the continue.
StealNothing(c) ==
  /\ Move(c, "steal", "create")
  /\ lock # 0
  /\ UNCHANGED <<file, mine, before, attempt, env, stealRaced>>

\* unlink removes whatever file has the name by now.
Steal(c) ==
  /\ Move(c, "steal", "create")
  /\ lock # 0 /\ ~readOnly
  /\ lock' = 0
  /\ stealRaced' = (stealRaced \/ lock # before[c])
  /\ UNCHANGED <<gen, stale, mine, before, attempt, env>>

\* unlink throws, ENOENT or EROFS, and the loop goes on without a wait.
StealFails(c) ==
  /\ Move(c, "steal", "create")
  /\ lock = 0 \/ readOnly
  /\ UNCHANGED <<file, mine, before, attempt, env, stealRaced>>

-------------------------------------------------------------------------------
(* releaseCfgLock *)

\* A slip in ReadToken: the file is unlinked whatever token it holds.
ReleaseUnchecked(c) ==
  /\ Move(c, "critical", "unlinkOwn")
  /\ before' = [before EXCEPT ![c] = lock]
  /\ UNCHANGED <<file, mine, attempt, env, stealRaced>>

\* The file holds the caller's token.
ReadToken(c) ==
  /\ Move(c, "critical", "unlinkOwn")
  /\ lock = mine[c]
  /\ before' = [before EXCEPT ![c] = lock]
  /\ UNCHANGED <<file, mine, attempt, env, stealRaced>>

\* It holds another token, or there is no file.
TokenGone(c) ==
  /\ pc[c] = "critical" /\ Leave(c)
  /\ lock # mine[c]
  /\ UNCHANGED <<file, env, stealRaced>>

\* unlink, whose errors are only logged.
UnlinkOwn(c) ==
  /\ pc[c] = "unlinkOwn" /\ Leave(c)
  /\ lock' = IF readOnly THEN lock ELSE 0
  /\ UNCHANGED <<gen, stale, env, stealRaced>>

-------------------------------------------------------------------------------
(* What happens around the callers *)

\* The process dies; a lock it holds stays behind.
Crash(c) ==
  /\ pc[c] # "idle" /\ crashes < MaxCrashes
  /\ crashes' = crashes + 1
  /\ Leave(c)
  /\ UNCHANGED <<file, readOnly, overrun, stealRaced>>

\* CFG_LOCK_STALE_MS pass.
Expire ==
  /\ lock # 0 /\ ~stale
  /\ stale' = TRUE
  /\ overrun' = (overrun \/ \E c \in Callers : Owns(c))
  /\ UNCHANGED <<pc, lock, gen, mine, before, attempt, readOnly, crashes, stealRaced>>

TurnReadOnly ==
  /\ ~readOnly
  /\ readOnly' = TRUE
  /\ UNCHANGED <<pc, file, mine, before, attempt, crashes, overrun, stealRaced>>

Acquiring(c) ==
  \/ Create(c) \/ CreateExists(c) \/ CreateFails(c) \/ WriteToken(c) \/ WriteFails(c)
  \/ StatVanished(c) \/ StatStale(c) \/ GiveUp(c) \/ Wait(c) \/ Retry(c)
  \/ RestatSame(c) \/ RestatChanged(c) \/ Steal(c) \/ StealFails(c)
Releasing(c) == ReadToken(c) \/ TokenGone(c) \/ UnlinkOwn(c)
Step(c) == Acquiring(c) \/ Releasing(c)

Next ==
  \/ \E c \in Callers : Request(c) \/ Step(c) \/ Crash(c)
  \/ Expire
  \/ TurnReadOnly

Spec == Init /\ [][Next]_vars

\* A process that runs takes its next step, and time passes.  Nobody is
\* obliged to ask for the lock, to crash, or to lose the flash.
FairSpec == Spec /\ WF_vars(Expire) /\ \A c \in Callers : WF_vars(Step(c))

-------------------------------------------------------------------------------
(* Properties *)

\* Types, and that a caller never waits more often than it was told to.
TypeOK ==
  /\ pc \in [Callers -> PCs]
  /\ lock \in Nat /\ gen \in Nat /\ stale \in BOOLEAN
  /\ mine \in [Callers -> Nat]
  /\ before \in [Callers -> Nat]
  /\ attempt \in [Callers -> Nat]
  /\ \A c \in Callers : attempt[c] <= MaxRetries[c]
  /\ readOnly \in BOOLEAN /\ crashes \in Nat
  /\ overrun \in BOOLEAN /\ stealRaced \in BOOLEAN

\* Two callers are inside the protected read-modify-write of the incus.cfg and
\* incus.json pair only if a holder outlived CFG_LOCK_STALE_MS or a steal hit
\* the window between its second stat and its unlink.  Crashes, failed writes
\* of the token and a read-only flash alone never break the exclusion.
MutualExclusion ==
  \/ overrun
  \/ stealRaced
  \/ \A c, d \in Callers : c # d => ~(pc[c] = "critical" /\ pc[d] = "critical")

\* The lock file of a holder at work is removed by someone else only after it
\* went stale, or by a caller that looked at an earlier file and has not
\* unlinked yet: token and inode checks reduce the race to these two windows.
RobbedOnlyInWindow ==
  [][\A d \in Callers :
       Owns(d) /\ lock' # lock /\ pc'[d] = pc[d]
         => \/ stale
            \/ \E c \in Callers \ {d} : pc[c] \in {"steal", "unlinkOwn"} /\ before[c] # lock]_vars

\* A caller that tries to take the lock gets it, is refused or yields to the
\* event loop, as long as the flash can be written; when it has turned
\* read-only, a stale lock can be neither unlinked nor created anew, and
\* StealFails and CreateExists alternate without a wait.
EveryAttemptYields ==
  \A c \in Callers :
    pc[c] \in Trying ~> (readOnly \/ pc[c] \in {"idle", "wait"} \cup Holding)

\* A lock left behind by a dead holder cannot wedge the others for ever: if
\* callers keep asking, it is gone some day.
OrphanDoesNotWedge ==
  ([]<>(\E c \in Callers : pc[c] = "create")) =>
    \A g \in 1..MaxGen :
      (lock = g /\ \A c \in Callers : ~Owns(c)) ~> (lock # g \/ readOnly)

===============================================================================
