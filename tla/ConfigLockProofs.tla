--------------------------- MODULE ConfigLockProofs ---------------------------
(***************************************************************************)
(* For any set of callers, any retry limits and any bounds: what the lock  *)
(* file of incus.cfg guarantees (config-sync.service.ts:372-418).          *)
(***************************************************************************)
EXTENDS ConfigLock, TLAPS

-------------------------------------------------------------------------------
(* Type correctness *)

LEMMA InitType == Init => TypeOK
<1> SUFFICES ASSUME Init PROVE TypeOK
  OBVIOUS
<1>1. stale \in BOOLEAN /\ readOnly \in BOOLEAN /\ overrun \in BOOLEAN /\ stealRaced \in BOOLEAN
  BY Zenon DEF Init
<1>2. \A c \in Callers : attempt[c] <= MaxRetries[c]
  <2> TAKE c \in Callers
  <2>1. MaxRetries[c] \in Nat
    BY LockAssumption DEF LockAssumption
  <2>2. attempt[c] = 0
    BY DEF Init
  <2> QED
    BY <2>1, <2>2
<1>3. pc \in [Callers -> PCs] /\ mine \in [Callers -> Nat]
      /\ before \in [Callers -> Nat] /\ attempt \in [Callers -> Nat]
  BY DEF Init, PCs
<1>4. lock \in Nat /\ gen \in Nat /\ crashes \in Nat
  BY DEF Init
<1> QED
  BY <1>1, <1>2, <1>3, <1>4 DEF TypeOK

\* Each step keeps the types: what TypeOK says of locals survives Move and Leave.
LEMMA NextType == TypeOK /\ [Next]_vars => TypeOK'
<1> SUFFICES ASSUME TypeOK, [Next]_vars PROVE TypeOK'
  OBVIOUS
<1> USE LockAssumption DEF LockAssumption, TypeOK, PCs, Trying, Holding, Move, Leave, file, env
<1>1. ASSUME NEW c \in Callers, Request(c) PROVE TypeOK'
  BY <1>1 DEF Request
<1>2. ASSUME NEW c \in Callers, Acquiring(c) PROVE TypeOK'
  <2>1. CASE Create(c)
    <3>1. stale' \in BOOLEAN
      BY <2>1, Zenon DEF Create
    <3> QED
      BY <2>1, <3>1 DEF Create
  <2>2. CASE CreateExists(c) \/ WriteToken(c) \/ StatVanished(c) \/ Retry(c)
    BY <2>2 DEF CreateExists, WriteToken, StatVanished, Retry
  <2>3. CASE CreateFails(c) \/ WriteFails(c) \/ GiveUp(c)
    BY <2>3 DEF CreateFails, WriteFails, GiveUp
  <2>4. CASE StatStale(c)
    BY <2>4 DEF StatStale
  <2>5. CASE Wait(c)
    BY <2>5 DEF Wait
  <2>6. CASE RestatSame(c) \/ RestatChanged(c) \/ StealFails(c)
    BY <2>6 DEF RestatSame, RestatChanged, StealFails
  <2>7. CASE Steal(c)
    BY <2>7 DEF Steal
  <2> QED
    BY <1>2, <2>1, <2>2, <2>3, <2>4, <2>5, <2>6, <2>7 DEF Acquiring
<1>3. ASSUME NEW c \in Callers, Releasing(c) PROVE TypeOK'
  BY <1>3 DEF Releasing, ReadToken, TokenGone, UnlinkOwn
<1>4. ASSUME NEW c \in Callers, Crash(c) PROVE TypeOK'
  BY <1>4 DEF Crash
<1>5. CASE Expire
  BY <1>5 DEF Expire
<1>6. CASE TurnReadOnly
  BY <1>6 DEF TurnReadOnly
<1>7. CASE UNCHANGED vars
  BY <1>7 DEF vars
<1> QED
  BY <1>1, <1>2, <1>3, <1>4, <1>5, <1>6, <1>7 DEF Next, Step

\* Types hold throughout, and no caller waits more often than it was told to.
THEOREM TypeCorrect == Spec => []TypeOK
<1>1. Init => TypeOK
  BY InitType
<1>2. TypeOK /\ [Next]_vars => TypeOK'
  BY NextType
<1> QED
  BY <1>1, <1>2, PTL DEF Spec

-------------------------------------------------------------------------------
(* The inductive invariant *)

\* No local variable names a generation that was not created yet.
GensCreated ==
  /\ lock <= gen
  /\ \A c \in Callers : mine[c] <= gen /\ before[c] <= gen

\* A token is drawn once: no two callers hold the same.
TokensUnique ==
  /\ \A c \in Callers : pc[c] \in Holding => mine[c] > 0
  /\ \A c, d \in Callers : c # d /\ mine[c] = mine[d] => mine[c] = 0

\* A caller about to unlink a file it did not create saw it go stale, and a
\* generation never gets young again.
StealersSawStale ==
  \A c \in Callers : pc[c] \in {"restat", "steal"} =>
    /\ before[c] > 0
    /\ lock = before[c] => stale

\* A caller about to unlink its own file has read its own token in it.
ReleasersSawOwn ==
  \A c \in Callers : pc[c] = "unlinkOwn" => before[c] = mine[c]

\* As long as neither window was hit, whoever is at work has its own, fresh file.
HoldersKeepFile ==
  \/ overrun
  \/ stealRaced
  \/ \A c \in Callers : pc[c] \in Holding => lock = mine[c] /\ ~stale

LockInv ==
  /\ TypeOK
  /\ GensCreated
  /\ TokensUnique
  /\ StealersSawStale
  /\ ReleasersSawOwn
  /\ HoldersKeepFile

LEMMA InitInv == Init => LockInv
  BY InitType DEF Init, LockInv, GensCreated, TokensUnique, StealersSawStale,
                  ReleasersSawOwn, HoldersKeepFile, Holding

\* A creation: the new generation exceeds everything seen, so it is nobody's yet.
LEMMA CreateKeepsInv ==
  ASSUME LockInv, NEW c \in Callers, Create(c), TypeOK'
  PROVE  LockInv'
<1> USE DEF LockInv, TypeOK, Create, Move, env, Holding
<1>1. GensCreated'
  BY DEF GensCreated
<1>2. TokensUnique'
  BY DEF GensCreated, TokensUnique
<1>3. StealersSawStale'
  BY DEF GensCreated, StealersSawStale
<1>4. ReleasersSawOwn'
  BY DEF ReleasersSawOwn
<1>5. HoldersKeepFile'
  BY DEF HoldersKeepFile, TokensUnique
<1> QED
  BY <1>1, <1>2, <1>3, <1>4, <1>5

\* Steps of acquireCfgLock that leave the file alone.
LEMMA LookKeepsInv ==
  ASSUME LockInv, NEW c \in Callers, TypeOK',
         \/ Request(c) \/ CreateExists(c) \/ WriteToken(c) \/ StatVanished(c)
         \/ StatStale(c) \/ Wait(c) \/ Retry(c) \/ RestatSame(c) \/ RestatChanged(c)
         \/ StealFails(c)
  PROVE  LockInv'
<1> USE DEF LockInv, TypeOK, Move, file, env, Holding, Request, CreateExists, WriteToken,
            StatVanished, StatStale, Wait, Retry, RestatSame, RestatChanged, StealFails
<1>1. GensCreated'
  BY DEF GensCreated
<1>2. TokensUnique'
  BY DEF TokensUnique
<1>3. StealersSawStale'
  BY DEF StealersSawStale
<1>4. ReleasersSawOwn'
  BY DEF ReleasersSawOwn
<1>5. HoldersKeepFile'
  BY DEF HoldersKeepFile
<1> QED
  BY <1>1, <1>2, <1>3, <1>4, <1>5

\* Steps by which a caller goes without touching the file: refusals, a lost
\* token, a crash.
LEMMA LeaveKeepsInv ==
  ASSUME LockInv, NEW c \in Callers, TypeOK', Leave(c), UNCHANGED <<file, overrun, stealRaced>>
  PROVE  LockInv'
<1> USE DEF LockInv, TypeOK, Leave, file, Holding
<1>1. GensCreated'
  BY DEF GensCreated
<1>2. TokensUnique'
  BY DEF TokensUnique
<1>3. StealersSawStale'
  BY DEF StealersSawStale
<1>4. ReleasersSawOwn'
  BY DEF ReleasersSawOwn
<1>5. HoldersKeepFile'
  BY DEF HoldersKeepFile
<1> QED
  BY <1>1, <1>2, <1>3, <1>4, <1>5

\* A steal: the file it removes was stale when checked, so it was nobody's at
\* work; if it is another file by now, the race is recorded.
LEMMA StealKeepsInv ==
  ASSUME LockInv, NEW c \in Callers, Steal(c), TypeOK'
  PROVE  LockInv'
<1> USE DEF LockInv, TypeOK, Steal, Move, env, Holding
<1>1. GensCreated'
  BY DEF GensCreated
<1>2. TokensUnique'
  BY DEF TokensUnique
<1>3. StealersSawStale'
  BY DEF StealersSawStale
<1>4. ReleasersSawOwn'
  BY DEF ReleasersSawOwn
<1>5. HoldersKeepFile'
  <2> SUFFICES ASSUME ~overrun, ~stealRaced', NEW d \in Callers, pc'[d] \in Holding
               PROVE  FALSE
    BY DEF HoldersKeepFile
  <2>1. lock = before[c] /\ stale
    BY DEF StealersSawStale
  <2>2. pc[d] \in Holding
    OBVIOUS
  <2> QED
    BY <2>1, <2>2 DEF HoldersKeepFile
<1> QED
  BY <1>1, <1>2, <1>3, <1>4, <1>5

\* A release: the file was the releaser's own, so no other holder loses it.
LEMMA ReleaseKeepsInv ==
  ASSUME LockInv, NEW c \in Callers, ReadToken(c) \/ UnlinkOwn(c), TypeOK'
  PROVE  LockInv'
<1> USE DEF LockInv, TypeOK, ReadToken, UnlinkOwn, Leave, Move, file, env, Holding
<1>1. GensCreated'
  BY DEF GensCreated
<1>2. TokensUnique'
  BY DEF TokensUnique
<1>3. StealersSawStale'
  BY DEF StealersSawStale
<1>4. ReleasersSawOwn'
  BY DEF ReleasersSawOwn
<1>5. HoldersKeepFile'
  <2> SUFFICES ASSUME ~overrun, ~stealRaced, NEW d \in Callers, pc'[d] \in Holding
               PROVE  lock' = mine'[d] /\ ~stale'
    BY DEF HoldersKeepFile
  <2>1. pc[d] \in Holding /\ lock = mine[d] /\ ~stale /\ mine[d] > 0
    BY DEF HoldersKeepFile, TokensUnique
  <2>2. CASE ReadToken(c)
    BY <2>1, <2>2
  <2>3. CASE UnlinkOwn(c)
    <3>1. d # c
      BY <2>3
    <3>2. pc[c] \in Holding /\ lock = mine[c]
      BY <2>3 DEF HoldersKeepFile
    <3> QED
      BY <3>1, <3>2, <2>1 DEF TokensUnique
  <2> QED
    BY <2>2, <2>3
<1> QED
  BY <1>1, <1>2, <1>3, <1>4, <1>5

\* The file ages: were its owner still at work, the overrun is recorded.
LEMMA ExpireKeepsInv ==
  ASSUME LockInv, Expire, TypeOK'
  PROVE  LockInv'
<1> USE DEF LockInv, TypeOK, Expire, Owns, Holding
<1>1. GensCreated' /\ TokensUnique' /\ ReleasersSawOwn'
  BY DEF GensCreated, TokensUnique, ReleasersSawOwn
<1>2. StealersSawStale'
  BY DEF StealersSawStale
<1>3. HoldersKeepFile'
  BY DEF HoldersKeepFile
<1> QED
  BY <1>1, <1>2, <1>3

LEMMA NextInv == LockInv /\ [Next]_vars => LockInv'
<1> SUFFICES ASSUME LockInv, [Next]_vars PROVE LockInv'
  OBVIOUS
<1>1. TypeOK'
  BY NextType DEF LockInv
<1>2. ASSUME NEW c \in Callers, Request(c) PROVE LockInv'
  BY <1>1, <1>2, LookKeepsInv
<1>3. ASSUME NEW c \in Callers, Acquiring(c) PROVE LockInv'
  <2>1. CASE CreateFails(c) \/ WriteFails(c) \/ GiveUp(c)
    <3>1. Leave(c) /\ UNCHANGED <<file, overrun, stealRaced>>
      BY <2>1 DEF CreateFails, WriteFails, GiveUp, env
    <3> QED
      BY <1>1, <3>1, LeaveKeepsInv
  <2> QED
    BY <1>1, <1>3, <2>1, CreateKeepsInv, LookKeepsInv, StealKeepsInv DEF Acquiring
<1>4. ASSUME NEW c \in Callers, Releasing(c) PROVE LockInv'
  <2>1. CASE TokenGone(c)
    <3>1. Leave(c) /\ UNCHANGED <<file, overrun, stealRaced>>
      BY <2>1 DEF TokenGone, env
    <3> QED
      BY <1>1, <3>1, LeaveKeepsInv
  <2> QED
    BY <1>1, <1>4, <2>1, ReleaseKeepsInv DEF Releasing
<1>5. ASSUME NEW c \in Callers, Crash(c) PROVE LockInv'
  <2>1. Leave(c) /\ UNCHANGED <<file, overrun, stealRaced>>
    BY <1>5 DEF Crash
  <2> QED
    BY <1>1, <2>1, LeaveKeepsInv
<1>6. CASE Expire
  BY <1>1, <1>6, ExpireKeepsInv
<1>7. CASE TurnReadOnly \/ UNCHANGED vars
  BY <1>1, <1>7 DEF TurnReadOnly, vars, file, LockInv, TypeOK, GensCreated, TokensUnique,
                    StealersSawStale, ReleasersSawOwn, HoldersKeepFile
<1> QED
  BY <1>2, <1>3, <1>4, <1>5, <1>6, <1>7 DEF Next, Step

LEMMA LockInvariant == Spec => []LockInv
<1>1. Init => LockInv
  BY InitInv
<1>2. LockInv /\ [Next]_vars => LockInv'
  BY NextInv
<1> QED
  BY <1>1, <1>2, PTL DEF Spec

-------------------------------------------------------------------------------
(* What follows from it *)

\* Two callers meet in the protected section only after an overrun or a raced
\* steal, whatever crashes, failed writes and read-only remounts happened.
THEOREM Exclusion == Spec => []MutualExclusion
<1>1. LockInv => MutualExclusion
  <2> SUFFICES ASSUME LockInv, ~overrun, ~stealRaced,
                      NEW c \in Callers, NEW d \in Callers, c # d,
                      pc[c] = "critical", pc[d] = "critical"
               PROVE  FALSE
    BY DEF MutualExclusion
  <2>1. mine[c] = mine[d] /\ mine[c] > 0
    BY DEF LockInv, HoldersKeepFile, TokensUnique, Holding
  <2> QED
    BY <2>1 DEF LockInv, TokensUnique, TypeOK
<1> QED
  BY <1>1, LockInvariant, PTL

\* The step that removes the file of a holder at work removes a stale file, or
\* is the unlink of a caller that checked an earlier one.
THEOREM RobbedInWindow == Spec => RobbedOnlyInWindow
<1> DEFINE Robbed(d) ==
      Owns(d) /\ lock' # lock /\ pc'[d] = pc[d]
        => \/ stale
           \/ \E c \in Callers \ {d} : pc[c] \in {"steal", "unlinkOwn"} /\ before[c] # lock
<1>1. LockInv /\ [Next]_vars => [\A d \in Callers : Robbed(d)]_vars
  <2> SUFFICES ASSUME LockInv, Next, NEW d \in Callers,
                      Owns(d), lock' # lock, pc'[d] = pc[d], ~stale
               PROVE  \E c \in Callers \ {d} : pc[c] \in {"steal", "unlinkOwn"} /\ before[c] # lock
    OBVIOUS
  <2>1. lock > 0 /\ lock = mine[d]
    BY DEF Owns, LockInv, TokensUnique
  <2>2. PICK c \in Callers : Steal(c) \/ UnlinkOwn(c)
    BY <2>1 DEF Next, Step, Acquiring, Releasing, Request, Create, CreateExists, CreateFails,
                WriteToken, WriteFails, StatVanished, StatStale, GiveUp, Wait, Retry, RestatSame,
                RestatChanged, StealFails, ReadToken, TokenGone, Crash, Expire, TurnReadOnly,
                file, LockInv, TypeOK
  <2>3. c # d /\ pc[c] \in {"steal", "unlinkOwn"}
    BY <2>2 DEF Steal, UnlinkOwn, Move, Leave, LockInv, TypeOK
  <2>4. before[c] # lock
    BY <2>1, <2>2, <2>3 DEF Steal, UnlinkOwn, Move, LockInv, TypeOK, StealersSawStale,
                            ReleasersSawOwn, TokensUnique
  <2> QED
    BY <2>3, <2>4
<1> QED
  BY <1>1, LockInvariant, PTL DEF Spec, RobbedOnlyInWindow
===============================================================================
