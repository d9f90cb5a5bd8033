-------------------------- MODULE ImageRegistryProofs --------------------------
(***************************************************************************)
(* For any images, tabs, deletions, prunes, builds, directories and any    *)
(* number of faults: the registry implements AtomicStore, has one master   *)
(* at most, and that is the launched image unless a toggle was disturbed   *)
(* (json-store.ts:20-43, incus-image-builder.service.ts, App.vue:1380).    *)
(***************************************************************************)
EXTENDS ImageRegistry, FiniteSetTheorems, TLAPS

Toggling == {"marking", "configuring", "reverting"}
Asking   == {"marking", "reverting", "untracking", "recording"}
PCs      == Toggling \cup Asking \cup {"idle", "gone", "pruning", "imported"}

\* TypeOK, but for what it says of the chain.
StoreShape ==
  /\ files \in [Dirs -> Items] /\ dir \in Dirs
  /\ op \in [Callers -> Ops \cup {Refused}] /\ loaded \in [Callers -> Items \cup {Refused}]
  /\ path \in [Callers -> Dirs \cup {Refused}]
  /\ answer \in [Callers -> {"idle", "waiting", "ok", "failed"}]

UserShape ==
  /\ images \subseteq Aliases /\ launch \in Aliases \cup {Nobody}
  /\ view \in [Toggles -> Items]
  /\ pc \in [Callers -> PCs]
  /\ target \in [Callers -> Aliases \cup {Nobody}]
  /\ revert \in [Callers -> Aliases \cup {Nobody}]
  /\ todo \in [Callers -> SUBSET Aliases]
  /\ acts \in 0..MaxActs /\ faults \in 0..MaxFaults /\ moves \in 0..MaxMoves
  /\ torn \in BOOLEAN /\ wiped \subseteq Aliases

\* The chain holds exactly the callers that wait, each once, with an update.
Waiting ==
  /\ chain \in Seq(Callers)
  /\ \A c \in Callers : answer[c] = "waiting" <=> \E i \in 1 .. Len(chain) : chain[i] = c
  /\ \A i, j \in 1 .. Len(chain) : chain[i] = chain[j] => i = j
  /\ \A c \in Callers : answer[c] = "waiting" => op[c] \in Ops

\* Only the oldest update has read, what it read is still there, and who writes has read.
OnlyHeadLoaded ==
  \A c \in Callers :
    /\ loaded[c] # Refused => Turn(c) /\ \E d \in Dirs : loaded[c] = Apply(op[c], files[d])
    /\ path[c] # Refused => loaded[c] # Refused

StoreInv == StoreShape /\ Waiting /\ OnlyHeadLoaded
-------------------------------------------------------------------------------
(* One master *)

Single(items) == \A a, b \in Masters(items) : a = b

SingleInv ==
  /\ \A d \in Dirs : Single(files[d])
  /\ \A c \in Callers : loaded[c] # Refused => Single(loaded[c])
-------------------------------------------------------------------------------
(* The master is launched *)

\* Who waits for an update has asked for the one its code asks for there.
AskedOf(c) ==
  /\ pc[c] \in Toggling => c \in Toggles /\ target[c] \in Aliases
  /\ pc[c] \in {"gone", "imported"} => target[c] \in Aliases
  /\ answer[c] = "waiting" =>
       /\ pc[c] \in Asking
       /\ pc[c] = "marking" => op[c] = [kind |-> "mark", alias |-> target[c]]
       /\ pc[c] = "reverting" =>
            op[c] = IF revert[c] = Nobody THEN [kind |-> "unmark", alias |-> target[c]]
                                          ELSE [kind |-> "mark", alias |-> revert[c]]
       /\ pc[c] = "untracking" => op[c].kind = "untrack" /\ op[c].alias \in wiped
       /\ pc[c] = "recording" => op[c].kind = "built" /\ op[c].alias \in wiped

Asked == \A c \in Callers : AskedOf(c)

\* a alone may be marked, and is unless its record was rebuilt or untracked.
Marks(a) ==
  /\ Masters(Registry) \subseteq {a}
  /\ a \in Aliases \ wiped => a \in Masters(Registry)

\* The compensation of t leads back to what is launched, or to no master.
Remembers(t) == IF revert[t] = Nobody THEN launch \notin Aliases \ wiped ELSE launch = revert[t]

\* Before the first mutation took effect, and after.
Before(t) == Marks(launch) /\ (revert[t] = Nobody => Masters(Registry) = {})
After(t)  == Marks(target[t])

\* How far the toggle of t has come, by what t knows.
Progress(t) ==
  /\ pc[t] \in Toggling => Remembers(t)
  /\ pc[t] = "marking" => IF answer[t] = "ok" THEN After(t) ELSE Before(t)
  /\ pc[t] = "configuring" => After(t)
  /\ pc[t] = "reverting" => IF answer[t] = "ok" THEN Marks(launch) ELSE Before(t) \/ After(t)

Reads ==
  \A c \in Callers :
    /\ loaded[c] # Refused => loaded[c] = Apply(op[c], Registry)
    /\ path[c] # Refused => path[c] = dir

\* While no toggle was disturbed there is one at a time, and updates read what
\* they replace.
Calm ==
  ~torn =>
    /\ \A t, u \in Callers : pc[t] \in Toggling /\ pc[u] \in Toggling => t = u
    /\ (\A t \in Callers : pc[t] \notin Toggling) => Marks(launch)
    /\ \A t \in Callers : Progress(t)
    /\ Reads

RegistryInv == StoreInv /\ UserShape /\ SingleInv /\ Asked /\ Calm
-------------------------------------------------------------------------------
(* What the mutators do *)

LEMMA ApplyType ==
  ASSUME NEW o \in Ops, NEW items \in Items
  PROVE  Apply(o, items) \in Items \cup {Refused}
<1> USE DEF Ops, Items
<1>1. o.kind \in {"mark", "unmark", "untrack", "built"} /\ o.alias \in Aliases
  OBVIOUS
<1>2. CASE o.kind \in {"mark", "unmark"} /\ items[o.alias] = "none"
  BY <1>2 DEF Apply
<1>3. CASE o.kind = "mark" /\ items[o.alias] # "none"
  BY <1>3 DEF Apply
<1>4. CASE o.kind = "unmark" /\ items[o.alias] # "none"
  BY <1>4 DEF Apply
<1>5. CASE o.kind \in {"untrack", "built"}
  BY <1>5 DEF Apply
<1> QED
  BY <1>1, <1>2, <1>3, <1>4, <1>5

\* A mark makes its alias the only master.
LEMMA MarkMasters ==
  ASSUME NEW a \in Aliases, NEW items \in Items,
         Apply([kind |-> "mark", alias |-> a], items) # Refused
  PROVE  Masters(Apply([kind |-> "mark", alias |-> a], items)) = {a}
<1>1. items[a] # "none"
  BY DEF Apply
<1>2. Apply([kind |-> "mark", alias |-> a], items)
        = [b \in Aliases |-> IF b = a THEN "master" ELSE IF items[b] = "master" THEN "plain" ELSE items[b]]
  BY <1>1 DEF Apply
<1> QED
  BY <1>2 DEF Masters

\* Nothing else makes one; the alias it is about is none afterwards.
LEMMA OtherMasters ==
  ASSUME NEW o \in Ops, NEW items \in Items, o.kind # "mark", Apply(o, items) # Refused
  PROVE  Masters(Apply(o, items)) = Masters(items) \ {o.alias}
<1> USE DEF Ops, Items
<1>1. o.kind \in {"unmark", "untrack", "built"} /\ o.alias \in Aliases
  OBVIOUS
<1>2. \E r \in {"plain", "none"} : Apply(o, items) = [items EXCEPT ![o.alias] = r]
  BY <1>1 DEF Apply
<1> QED
  BY <1>1, <1>2 DEF Masters

LEMMA ApplySingle ==
  ASSUME NEW o \in Ops, NEW items \in Items, Single(items), Apply(o, items) # Refused
  PROVE  Single(Apply(o, items))
<1>1. CASE o.kind = "mark"
  <2>1. o = [kind |-> "mark", alias |-> o.alias] /\ o.alias \in Aliases
    BY <1>1 DEF Ops
  <2> QED
    BY <2>1, MarkMasters DEF Single
<1>2. CASE o.kind # "mark"
  BY <1>2, OtherMasters DEF Single
<1> QED
  BY <1>1, <1>2

-------------------------------------------------------------------------------
(* The store *)

LEMMA IssueKeepsStore ==
  ASSUME StoreInv, NEW c \in Callers, NEW o \in Ops, Issue(c, o)
  PROVE  StoreInv'
<1> USE DEF StoreInv, Issue
<1>1. StoreShape'
  BY DEF StoreShape
<1>2. chain' \in Seq(Callers) /\ Len(chain') = Len(chain) + 1 /\ chain'[Len(chain) + 1] = c
      /\ \A i \in 1 .. Len(chain) : chain'[i] = chain[i]
  BY DEF Waiting
<1>3. \A i \in 1 .. Len(chain) : chain[i] # c
  BY DEF Waiting
<1>4. \A d \in Callers : answer'[d] = IF d = c THEN "waiting" ELSE answer[d]
  BY DEF StoreShape
<1>5. Waiting'
  <2>1. \A d \in Callers : answer'[d] = "waiting" <=> \E i \in 1 .. Len(chain') : chain'[i] = d
    <3> TAKE d \in Callers
    <3>1. CASE d = c
      <4>1. Len(chain) + 1 \in 1 .. Len(chain')
        BY <1>2 DEF Waiting
      <4> QED
        BY <1>2, <1>4, <3>1, <4>1
    <3>2. CASE d # c
      <4>1. \A i \in 1 .. Len(chain') : chain'[i] = d => i \in 1 .. Len(chain)
        BY <1>2, <3>2 DEF Waiting
      <4>2. 1 .. Len(chain) \subseteq 1 .. Len(chain')
        BY <1>2 DEF Waiting
      <4> QED
        BY <1>2, <1>4, <3>2, <4>1, <4>2 DEF Waiting
    <3> QED
      BY <3>1, <3>2
  <2>2. \A i, j \in 1 .. Len(chain') : chain'[i] = chain'[j] => i = j
    BY <1>2, <1>3 DEF Waiting
  <2>3. \A d \in Callers : answer'[d] = "waiting" => op'[d] \in Ops
    BY <1>4 DEF Waiting, StoreShape
  <2> QED
    BY <1>2, <2>1, <2>2, <2>3 DEF Waiting
<1>6. OnlyHeadLoaded'
  <2> SUFFICES ASSUME NEW d \in Callers, loaded[d] # Refused
               PROVE  Turn(d)' /\ \E e \in Dirs : loaded[d] = Apply(op'[d], files[e])
    BY DEF OnlyHeadLoaded
  <2>1. Turn(d)
    BY DEF OnlyHeadLoaded
  <2>2. 1 \in 1 .. Len(chain) /\ chain[1] = d
    BY <2>1 DEF Turn, Waiting
  <2>3. d # c
    BY <1>3, <2>2
  <2>4. Turn(d)'
    BY <1>2, <2>2 DEF Turn
  <2> QED
    BY <2>3, <2>4 DEF OnlyHeadLoaded, StoreShape
<1> QED
  BY <1>1, <1>5, <1>6

\* The head is waiting, and the rest waits on when it settles.
LEMMA SettleKeepsStore ==
  ASSUME StoreInv, NEW c \in Callers, Turn(c), NEW r \in {"ok", "failed"}, Settle(c, r), dir' = dir,
         files' \in [Dirs -> Items]
  PROVE  StoreInv'
<1> USE DEF StoreInv, Settle
<1>1. StoreShape'
  BY DEF StoreShape
<1>2. 1 \in 1 .. Len(chain) /\ chain[1] = c
  BY DEF Turn, Waiting
<1>3. chain' \in Seq(Callers) /\ Len(chain') = Len(chain) - 1
      /\ \A i \in 1 .. Len(chain') : i + 1 \in 1 .. Len(chain) /\ chain'[i] = chain[i + 1]
  BY <1>2 DEF Waiting, Turn
<1>4. \A d \in Callers : answer'[d] = IF d = c THEN r ELSE answer[d]
  BY DEF StoreShape
<1>5. Waiting'
  <2>1. \A d \in Callers : answer'[d] = "waiting" <=> \E i \in 1 .. Len(chain') : chain'[i] = d
    <3> TAKE d \in Callers
    <3>1. CASE d = c
      <4>1. \A i \in 1 .. Len(chain') : chain'[i] # c
        BY <1>2, <1>3 DEF Waiting
      <4> QED
        BY <1>4, <3>1, <4>1
    <3>2. CASE d # c
      <4>1. ASSUME NEW i \in 1 .. Len(chain), chain[i] = d PROVE \E j \in 1 .. Len(chain') : chain'[j] = d
        <5>1. i - 1 \in 1 .. Len(chain') /\ chain'[i - 1] = d
          BY <1>2, <1>3, <3>2, <4>1 DEF Waiting
        <5> QED
          BY <5>1
      <4> QED
        BY <1>3, <1>4, <3>2, <4>1 DEF Waiting
    <3> QED
      BY <3>1, <3>2
  <2>2. \A i, j \in 1 .. Len(chain') : chain'[i] = chain'[j] => i = j
    BY <1>3 DEF Waiting
  <2>3. \A d \in Callers : answer'[d] = "waiting" => op'[d] \in Ops
    BY <1>4 DEF Waiting, StoreShape
  <2> QED
    BY <1>3, <2>1, <2>2, <2>3 DEF Waiting
<1>6. \A d \in Callers : loaded'[d] = Refused /\ path'[d] = Refused
  BY <1>2 DEF OnlyHeadLoaded, Turn, StoreShape
<1> QED
  BY <1>1, <1>5, <1>6 DEF OnlyHeadLoaded

LEMMA HeadWaits ==
  ASSUME StoreInv, NEW c \in Callers, Turn(c)
  PROVE  answer[c] = "waiting" /\ op[c] \in Ops /\ \A d \in Callers : loaded[d] # Refused => d = c
<1>1. 1 \in 1 .. Len(chain) /\ chain[1] = c
  BY DEF StoreInv, Turn, Waiting
<1> QED
  BY <1>1 DEF StoreInv, Turn, Waiting, OnlyHeadLoaded

LEMMA LoadKeepsStore ==
  ASSUME StoreInv, NEW c \in Callers, Load(c)
  PROVE  StoreInv'
<1> USE DEF StoreInv, Load
<1>1. op[c] \in Ops /\ \A d \in Callers \ {c} : loaded[d] = Refused
  BY HeadWaits
<1>2. Apply(op[c], files[dir]) \in Items \cup {Refused}
  BY <1>1, ApplyType DEF StoreShape
<1>3. StoreShape'
  BY <1>2 DEF StoreShape
<1>4. Waiting'
  BY DEF Waiting
<1>5. OnlyHeadLoaded'
  BY <1>1 DEF OnlyHeadLoaded, StoreShape, Turn
<1> QED
  BY <1>3, <1>4, <1>5

LEMMA OpensKeepsStore ==
  ASSUME StoreInv, NEW c \in Callers, Opens(c)
  PROVE  StoreInv'
BY DEF StoreInv, Opens, StoreShape, Waiting, OnlyHeadLoaded, Turn

LEMMA StoreStepKeepsStore ==
  ASSUME StoreInv, NEW c \in Callers, StoreStep(c)
  PROVE  StoreInv'
<1>1. CASE Load(c)
  BY <1>1, LoadKeepsStore
<1>2. CASE LoadFails(c)
  BY <1>2, SettleKeepsStore DEF LoadFails, StoreInv, StoreShape
<1>3. CASE Store(c) \/ StoreFails(c)
  <2>1. Turn(c) /\ loaded[c] \in Items
    BY <1>3 DEF Store, StoreFails, StoreInv, OnlyHeadLoaded, StoreShape
  <2>2. files' \in [Dirs -> Items] /\ dir' = dir
    BY <1>3, <2>1 DEF Store, StoreFails, StoreInv, StoreShape
  <2> QED
    BY <1>3, <2>1, <2>2, SettleKeepsStore DEF Store, StoreFails
<1>4. CASE Opens(c)
  BY <1>4, OpensKeepsStore
<1> QED
  BY <1>1, <1>2, <1>3, <1>4 DEF StoreStep

LEMMA RelocateKeepsStore ==
  ASSUME StoreInv, NEW d \in Dirs, Relocate(d)
  PROVE  StoreInv'
BY DEF StoreInv, Relocate, StoreShape, Waiting, OnlyHeadLoaded, Turn
-------------------------------------------------------------------------------
(* Types of the users' variables *)

LEMMA NextUserShape ==
  ASSUME StoreInv, UserShape, Asked, [Next]_vars
  PROVE  UserShape'
<1> USE DEF UserShape, PCs, Toggling, Asking, Begin, Becomes, Act, Fault, Forgets, bounds, clients
<1> USE RegistryAssumption DEF RegistryAssumption
<1>1. CASE UNCHANGED vars
  BY <1>1 DEF vars
<1>2. ASSUME NEW c \in Callers, Registering(c) PROVE UserShape'
  BY <1>2 DEF Registering
<1>3. ASSUME NEW c \in Callers, OtherStep(c) PROVE UserShape'
  <2>1. CASE Untracks(c) \/ BuildRecords(c)
    <3>1. target[c] \in Aliases
      BY <2>1 DEF Untracks, BuildRecords, Asked, AskedOf
    <3> QED
      BY <2>1, <3>1 DEF Untracks, BuildRecords
  <2>2. CASE DeleteDone(c) \/ PruneDone(c) \/ BuildDone(c)
    BY <2>2 DEF DeleteDone, PruneDone, BuildDone
  <2>3. CASE PruneChecks(c)
    BY <2>3 DEF PruneChecks
  <2>4. CASE PruneGoesOn(c)
    BY <2>4 DEF PruneGoesOn
  <2> QED
    BY <1>3, <2>1, <2>2, <2>3, <2>4 DEF OtherStep
<1>4. ASSUME NEW t \in Toggles, Reload(t) \/ ToggleStep(t) PROVE UserShape'
  <2> USE DEF Callers
  <2>1. Registry \in Items
    BY DEF Registry, StoreInv, StoreShape
  <2>2. CASE Reload(t)
    BY <2>1, <2>2 DEF Reload
  <2>3. CASE Marked(t)
    BY <2>3 DEF Marked
  <2>4. CASE Configured(t)
    BY <2>1, <2>4 DEF Configured
  <2>5. CASE MarkFails(t)
    BY <2>5 DEF MarkFails
  <2>6. CASE ConfigFails(t)
    <3>1. torn' \in BOOLEAN
      <4>1. torn' \in {torn, TRUE}
        BY <2>6 DEF ConfigFails
      <4> QED
        BY <4>1
    <3>2. launch' \in Aliases \cup {Nobody} /\ faults' \in 0..MaxFaults /\ pc' \in [Callers -> PCs]
      BY <2>6 DEF ConfigFails
    <3>3. UNCHANGED <<images, view, target, revert, todo, acts, moves, wiped>>
      BY <2>6 DEF ConfigFails
    <3> QED
      BY <3>1, <3>2, <3>3
  <2>7. CASE Reverted(t)
    <3>1. torn' \in BOOLEAN
      BY <2>7, Zenon DEF Reverted
    <3> QED
      BY <2>1, <2>7, <3>1 DEF Reverted
  <2> QED
    BY <1>4, <2>2, <2>3, <2>4, <2>5, <2>6, <2>7 DEF ToggleStep
<1>5. ASSUME NEW t \in Toggles, NEW a \in Aliases, Click(t, a) PROVE UserShape'
  <2>1. torn' \in BOOLEAN
    BY <1>5, Zenon DEF Click
  <2>2. (IF Masters(view[t]) = {} THEN Nobody ELSE CHOOSE m \in Masters(view[t]) : TRUE) \in Aliases \cup {Nobody}
    BY DEF Masters
  <2> QED
    BY <1>5, <2>1, <2>2 DEF Click, Callers
<1>6. ASSUME NEW c \in Deleters, NEW a \in Aliases, Delete(c, a) PROVE UserShape'
  BY <1>6 DEF Delete, Callers
<1>7. ASSUME NEW c \in Pruners, PruneLists(c) PROVE UserShape'
  BY <1>7 DEF PruneLists, Callers, Tracked
<1>8. ASSUME NEW c \in Builders, NEW a \in Aliases, BuildImports(c, a) PROVE UserShape'
  BY <1>8 DEF BuildImports, Callers
<1>9. ASSUME NEW a \in Aliases, RemovedOutside(a) PROVE UserShape'
  BY <1>9 DEF RemovedOutside
<1>10. ASSUME NEW d \in Dirs, Move(d) PROVE UserShape'
  BY <1>10 DEF Move
<1> QED
  BY <1>1, <1>2, <1>3, <1>4, <1>5, <1>6, <1>7, <1>8, <1>9, <1>10 DEF Next

-------------------------------------------------------------------------------
(* Steps and the master *)

\* What concerns a toggle is as it was, or its alias was rebuilt or untracked.
LEMMA SameProgress ==
  ASSUME NEW t \in Callers, Progress(t), pc'[t] = pc[t], answer'[t] = answer[t],
         target'[t] = target[t], revert'[t] = revert[t],
         launch' = launch, Registry' = Registry, wiped \subseteq wiped'
  PROVE  Progress(t)'
BY DEF Progress, Remembers, Before, After, Marks

Quiet(c) ==
  \/ pc'[c] = pc[c] /\ target'[c] = target[c]
  \/ /\ pc[c] \notin Toggling /\ pc'[c] \notin Toggling /\ answer[c] # "waiting"
     /\ pc'[c] \in {"gone", "imported"} => target'[c] \in Aliases

\* A caller that updates nothing goes on, or nothing happens to callers at all.
LEMMA QuietKeepsInv ==
  ASSUME RegistryInv, UNCHANGED <<storeVars, launch, revert, torn, wiped>>, \A c \in Callers : Quiet(c)
  PROVE  (SingleInv /\ Asked /\ Calm)'
<1> USE DEF RegistryInv, storeVars, Quiet
<1>1. SingleInv'
  BY DEF SingleInv
<1>2. Asked'
  BY DEF Asked, AskedOf
<1>3. Calm'
  <2> SUFFICES ASSUME ~torn PROVE Calm'
    BY DEF Calm
  <2>1. Registry' = Registry
    BY DEF Registry
  <2>2. \A t \in Callers : Progress(t)'
    <3> TAKE t \in Callers
    <3>1. CASE pc'[t] = pc[t] /\ target'[t] = target[t]
      BY <2>1, <3>1, SameProgress DEF Calm
    <3>2. CASE pc'[t] \notin Toggling
      BY <3>2 DEF Progress, Toggling
    <3> QED
      BY <3>1, <3>2
  <2>3. (\A t \in Callers : pc'[t] \notin Toggling) => Marks(launch)'
    BY <2>1 DEF Calm, Marks
  <2>4. \A t, u \in Callers : pc'[t] \in Toggling /\ pc'[u] \in Toggling => t = u
    BY DEF Calm
  <2>5. Reads'
    BY <2>1 DEF Calm, Reads
  <2> QED
    BY <2>2, <2>3, <2>4, <2>5 DEF Calm
<1> QED
  BY <1>1, <1>2, <1>3

LEMMA OthersKeepInv ==
  ASSUME RegistryInv,
         \/ \E c \in Callers : DeleteDone(c) \/ PruneChecks(c) \/ PruneGoesOn(c) \/ PruneDone(c) \/ BuildDone(c)
         \/ \E c \in Deleters, a \in Aliases : Delete(c, a)
         \/ \E c \in Pruners : PruneLists(c)
         \/ \E c \in Builders, a \in Aliases : BuildImports(c, a)
         \/ \E a \in Aliases : RemovedOutside(a)
         \/ \E t \in Toggles : Reload(t)
  PROVE  StoreInv' /\ (SingleInv /\ Asked /\ Calm)'
<1> USE DEF RegistryInv, storeVars, clients, bounds, Becomes, Begin, Toggling, Asking
<1>1. UNCHANGED <<storeVars, launch, revert, torn, wiped>>
  BY DEF DeleteDone, PruneChecks, PruneGoesOn, PruneDone, BuildDone, Delete, PruneLists, BuildImports,
         RemovedOutside, Reload
<1>2. \A c \in Callers : Quiet(c)
  <2>1. ASSUME NEW c \in Callers, DeleteDone(c) \/ PruneGoesOn(c) \/ PruneDone(c) \/ BuildDone(c)
        PROVE  \A d \in Callers : Quiet(d)
    BY <2>1 DEF Quiet, DeleteDone, PruneGoesOn, PruneDone, BuildDone, UserShape, Asked, AskedOf, Answered
  <2>2. ASSUME NEW c \in Callers, PruneChecks(c)
        PROVE  \A d \in Callers : Quiet(d)
    <3>1. pc[c] = "pruning" /\ answer[c] # "waiting"
      BY <2>2 DEF PruneChecks, Asked, AskedOf
    <3>2. \/ UNCHANGED <<pc, target>>
          \/ \E a \in Aliases : pc' = [pc EXCEPT ![c] = "gone"] /\ target' = [target EXCEPT ![c] = a]
      BY <2>2 DEF PruneChecks, UserShape
    <3> QED
      BY <3>1, <3>2 DEF Quiet, UserShape
  <2>3. ASSUME NEW c \in Callers, NEW a \in Aliases, Delete(c, a) \/ BuildImports(c, a)
        PROVE  \A d \in Callers : Quiet(d)
    BY <2>3 DEF Quiet, Delete, BuildImports, UserShape, Asked, AskedOf
  <2>4. ASSUME NEW c \in Callers, PruneLists(c)
        PROVE  \A d \in Callers : Quiet(d)
    BY <2>4 DEF Quiet, PruneLists, UserShape, Asked, AskedOf
  <2>5. ASSUME NEW a \in Aliases, RemovedOutside(a)
        PROVE  \A d \in Callers : Quiet(d)
    BY <2>5 DEF Quiet, RemovedOutside
  <2>6. ASSUME NEW t \in Toggles, Reload(t)
        PROVE  \A d \in Callers : Quiet(d)
    BY <2>6 DEF Quiet, Reload
  <2> QED
    BY <2>1, <2>2, <2>3, <2>4, <2>5, <2>6 DEF Callers
<1>3. StoreInv'
  BY <1>1 DEF StoreInv, StoreShape, Waiting, OnlyHeadLoaded, Turn
<1> QED
  BY <1>1, <1>2, <1>3, QuietKeepsInv

\* An update is asked for: the registry stays what it is.
LEMMA AskKeeps ==
  ASSUME RegistryInv, NEW c \in Callers, NEW o \in Ops, Issue(c, o)
  PROVE  /\ StoreInv' /\ SingleInv' /\ Registry' = Registry /\ (~torn => Reads')
         /\ op'[c] = o /\ answer'[c] = "waiting"
         /\ \A d \in Callers \ {c} : op'[d] = op[d] /\ answer'[d] = answer[d]
<1> USE DEF RegistryInv, Issue
<1>1. StoreInv'
  BY IssueKeepsStore
<1>2. Registry' = Registry /\ SingleInv'
  BY DEF SingleInv, Registry
<1>3. op'[c] = o /\ answer'[c] = "waiting" /\ \A d \in Callers \ {c} : op'[d] = op[d] /\ answer'[d] = answer[d]
  BY DEF StoreInv, StoreShape
<1>4. \A d \in Callers : loaded[d] # Refused => d # c
  BY HeadWaits DEF StoreInv, OnlyHeadLoaded
<1>5. ~torn => Reads'
  BY <1>2, <1>3, <1>4 DEF Calm, Reads
<1> QED
  BY <1>1, <1>2, <1>3, <1>5

LEMMA UpdatersKeepInv ==
  ASSUME RegistryInv, NEW c \in Callers, Untracks(c) \/ BuildRecords(c)
  PROVE  StoreInv' /\ (SingleInv /\ Asked /\ Calm)'
<1> USE DEF RegistryInv, Becomes, Toggling, Asking
<1>1. PICK k \in {"untrack", "built"} :
        /\ Issue(c, [kind |-> k, alias |-> target[c]])
        /\ pc' = [pc EXCEPT ![c] = IF k = "untrack" THEN "untracking" ELSE "recording"]
  BY DEF Untracks, BuildRecords, Ask
<1>2. /\ pc[c] \in {"gone", "imported"} /\ target[c] \in Aliases
      /\ wiped' = wiped \cup {target[c]} /\ UNCHANGED <<launch, torn>>
      /\ \A d \in Callers \ {c} : target'[d] = target[d] /\ revert'[d] = revert[d]
  BY DEF Untracks, BuildRecords, Forgets, Asked, AskedOf, UserShape
<1>3. [kind |-> k, alias |-> target[c]] \in Ops
  BY <1>2 DEF Ops
<1>4. /\ StoreInv' /\ SingleInv' /\ Registry' = Registry /\ (~torn => Reads')
      /\ op'[c] = [kind |-> k, alias |-> target[c]] /\ answer'[c] = "waiting"
      /\ \A d \in Callers \ {c} : op'[d] = op[d] /\ answer'[d] = answer[d]
  BY <1>1, <1>3, AskKeeps
<1>5. \A d \in Callers : pc'[d] = IF d = c THEN IF k = "untrack" THEN "untracking" ELSE "recording" ELSE pc[d]
  BY <1>1 DEF UserShape
<1>6. Asked'
  <2> SUFFICES ASSUME NEW d \in Callers PROVE AskedOf(d)'
    BY DEF Asked
  <2>1. CASE d = c
    BY <1>2, <1>4, <1>5, <2>1 DEF AskedOf
  <2>2. CASE d # c
    BY <1>2, <1>4, <1>5, <2>2 DEF Asked, AskedOf
  <2> QED
    BY <2>1, <2>2
<1>7. Calm'
  <2> SUFFICES ASSUME ~torn PROVE Calm'
    BY <1>2 DEF Calm
  <2>1. \A d \in Callers : Progress(d)'
    <3> TAKE d \in Callers
    <3>1. CASE d = c
      BY <1>5, <3>1 DEF Progress
    <3>2. CASE d # c
      <4>1. pc'[d] = pc[d] /\ target'[d] = target[d] /\ revert'[d] = revert[d] /\ answer'[d] = answer[d]
        BY <1>2, <1>4, <1>5, <3>2
      <4> QED
        BY <1>2, <1>4, <4>1, SameProgress DEF Calm
    <3> QED
      BY <3>1, <3>2
  <2>2. (\A d \in Callers : pc'[d] \notin Toggling) => Marks(launch)'
    BY <1>2, <1>4, <1>5 DEF Calm, Marks
  <2>3. \A t, u \in Callers : pc'[t] \in Toggling /\ pc'[u] \in Toggling => t = u
    BY <1>5 DEF Calm
  <2> QED
    BY <1>4, <2>1, <2>2, <2>3 DEF Calm
<1> QED
  BY <1>4, <1>6, <1>7

\* The toggle of t is the only one under way.
Alone(t) == \A u \in Callers \ {t} : pc[u] \notin Toggling /\ pc'[u] = pc[u]

LEMMA CalmAlone ==
  ASSUME NEW t \in Callers, Alone(t), Reads',
         pc'[t] \in Toggling => Progress(t)', pc'[t] \notin Toggling => Marks(launch)'
  PROVE  Calm'
<1>1. \A u \in Callers \ {t} : Progress(u)'
  BY DEF Alone, Progress, Toggling
<1>2. pc'[t] \notin Toggling => Progress(t)'
  BY DEF Progress, Toggling
<1> QED
  BY <1>1, <1>2 DEF Calm, Alone

LEMMA MarkedKeepsInv ==
  ASSUME RegistryInv, NEW t \in Toggles, Marked(t)
  PROVE  StoreInv' /\ (SingleInv /\ Asked /\ Calm)'
<1> USE DEF RegistryInv, Marked, Becomes, Toggling, Asking, storeVars, Callers
<1>1. \A u \in Callers : pc'[u] = IF u = t THEN "configuring" ELSE pc[u]
  BY DEF UserShape
<1>2. StoreInv' /\ SingleInv' /\ Registry' = Registry
  BY DEF StoreInv, StoreShape, Waiting, OnlyHeadLoaded, Turn, SingleInv, Registry
<1>3. Asked'
  BY <1>1 DEF Asked, AskedOf
<1>4. ASSUME ~torn PROVE Calm'
  <2>1. Alone(t) /\ Reads'
    BY <1>1, <1>2, <1>4 DEF Alone, Calm, Reads
  <2>2. Progress(t)'
    BY <1>1, <1>2, <1>4 DEF Calm, Progress, Remembers, After, Marks
  <2> QED
    BY <1>1, <2>1, <2>2, CalmAlone
<1> QED
  BY <1>2, <1>3, <1>4 DEF Calm

LEMMA ConfiguredKeepsInv ==
  ASSUME RegistryInv, NEW t \in Toggles, Configured(t)
  PROVE  StoreInv' /\ (SingleInv /\ Asked /\ Calm)'
<1> USE DEF RegistryInv, Configured, Becomes, Forgets, Toggling, Asking, storeVars, Callers
<1>1. \A u \in Callers : /\ pc'[u] = IF u = t THEN "idle" ELSE pc[u]
                         /\ u # t => target'[u] = target[u] /\ revert'[u] = revert[u]
  BY DEF UserShape
<1>2. StoreInv' /\ SingleInv' /\ Registry' = Registry
  BY DEF StoreInv, StoreShape, Waiting, OnlyHeadLoaded, Turn, SingleInv, Registry
<1>3. Asked'
  <2> SUFFICES ASSUME NEW u \in Callers PROVE AskedOf(u)'
    BY DEF Asked
  <2>1. AskedOf(u) /\ UNCHANGED <<op, answer, wiped>>
    BY DEF Asked
  <2> QED
    BY <1>1, <2>1 DEF AskedOf
<1>4. ASSUME ~torn PROVE Calm'
  <2>1. Alone(t) /\ Reads'
    BY <1>1, <1>2, <1>4 DEF Alone, Calm, Reads
  <2>2. Marks(launch)'
    BY <1>1, <1>2, <1>4 DEF Calm, Progress, After, Marks
  <2> QED
    BY <1>1, <2>1, <2>2, CalmAlone
<1> QED
  BY <1>2, <1>3, <1>4 DEF Calm

LEMMA RevertedKeepsInv ==
  ASSUME RegistryInv, NEW t \in Toggles, Reverted(t)
  PROVE  StoreInv' /\ (SingleInv /\ Asked /\ Calm)'
<1> USE DEF RegistryInv, Reverted, Becomes, Forgets, Answered, Toggling, Asking, storeVars, Callers
<1>1. \A u \in Callers : /\ pc'[u] = IF u = t THEN "idle" ELSE pc[u]
                         /\ u # t => target'[u] = target[u] /\ revert'[u] = revert[u]
  BY DEF UserShape
<1>2. StoreInv' /\ SingleInv' /\ Registry' = Registry
  BY DEF StoreInv, StoreShape, Waiting, OnlyHeadLoaded, Turn, SingleInv, Registry
<1>3. Asked'
  <2>1. answer[t] # "waiting"
    OBVIOUS
  <2>2. UNCHANGED <<op, answer, wiped>>
    OBVIOUS
  <2> QED
    BY <1>1, <2>1, <2>2 DEF Asked, AskedOf
<1>4. ASSUME ~torn' PROVE Calm'
  <2>1. ~torn /\ answer[t] = "ok"
    BY <1>4
  <2>2. Alone(t) /\ Reads'
    BY <1>1, <1>2, <2>1 DEF Alone, Calm, Reads
  <2>3. Marks(launch)'
    BY <1>1, <1>2, <2>1 DEF Calm, Progress, Marks
  <2> QED
    BY <1>1, <2>2, <2>3, CalmAlone
<1> QED
  BY <1>2, <1>3, <1>4 DEF Calm

\* A click from a current list, and nobody else's toggle under way.
LEMMA ClickKeepsInv ==
  ASSUME RegistryInv, NEW t \in Toggles, NEW a \in Aliases, Click(t, a)
  PROVE  StoreInv' /\ (SingleInv /\ Asked /\ Calm)'
<1> USE DEF RegistryInv, Toggling, Asking, Callers
<1> DEFINE o == [kind |-> "mark", alias |-> a]
<1>1. Issue(t, o) /\ o \in Ops
  BY DEF Click, Ask, Ops
<1>2. /\ StoreInv' /\ SingleInv' /\ Registry' = Registry /\ (~torn => Reads')
      /\ op'[t] = o /\ answer'[t] = "waiting"
      /\ \A d \in Callers \ {t} : op'[d] = op[d] /\ answer'[d] = answer[d]
  BY <1>1, AskKeeps
<1>3. \A u \in Callers : /\ pc'[u] = IF u = t THEN "marking" ELSE pc[u]
                         /\ target'[u] = IF u = t THEN a ELSE target[u]
                         /\ u # t => revert'[u] = revert[u]
  BY DEF Click, Begin, UserShape
<1>4. Asked'
  BY <1>2, <1>3 DEF Asked, AskedOf, Click
<1>5. ASSUME ~torn' PROVE Calm'
  <2>1. ~torn /\ view[t] = Registry /\ \A u \in Toggles : pc[u] = "idle"
    BY <1>5 DEF Click
  <2>2. \A u \in Callers : pc[u] \notin Toggling
    BY <2>1 DEF Asked, AskedOf
  <2>3. Marks(launch)
    BY <2>1, <2>2 DEF Calm
  <2>4. UNCHANGED <<launch, wiped>>
    BY DEF Click
  <2>5. revert'[t] = IF Masters(Registry) = {} THEN Nobody ELSE CHOOSE m \in Masters(Registry) : TRUE
    BY <2>1 DEF Click, UserShape
  <2>6. IF Masters(Registry) = {} THEN revert'[t] = Nobody
                                  ELSE revert'[t] = launch /\ launch \in Aliases
    BY <2>3, <2>5 DEF Marks, Masters
  <2>7. Remembers(t)' /\ Before(t)'
    <3>1. CASE Masters(Registry) = {}
      BY <1>2, <2>3, <2>4, <2>6, <3>1 DEF Remembers, Before, Marks
    <3>2. CASE Masters(Registry) # {}
      <4>1. revert'[t] = launch /\ launch # Nobody
        BY <2>6, <3>2, RegistryAssumption DEF RegistryAssumption
      <4> QED
        BY <1>2, <2>3, <2>4, <4>1 DEF Remembers, Before, Marks
    <3> QED
      BY <3>1, <3>2
  <2>8. Progress(t)'
    BY <1>2, <1>3, <2>7 DEF Progress
  <2>9. Alone(t)
    BY <1>3, <2>2 DEF Alone
  <2> QED
    BY <1>2, <1>3, <2>1, <2>8, <2>9, CalmAlone
<1> QED
  BY <1>2, <1>4, <1>5 DEF Calm

\* The compensation is asked for: a legal update of the alias it remembers.
LEMMA RevertKeepsInv ==
  ASSUME RegistryInv, NEW t \in Toggles, pc[t] \in Toggling, Revert(t), UNCHANGED <<target, revert, wiped>>,
         pc' = [pc EXCEPT ![t] = "reverting"],
         ~torn' => ~torn /\ launch' = launch /\ (Before(t) \/ After(t))
  PROVE  StoreInv' /\ (SingleInv /\ Asked /\ Calm)'
<1> USE DEF RegistryInv, Toggling, Asking, Callers
<1> DEFINE o == IF revert[t] = Nobody THEN [kind |-> "unmark", alias |-> target[t]]
                                      ELSE [kind |-> "mark", alias |-> revert[t]]
<1>1. Issue(t, o) /\ o \in Ops
  BY DEF Revert, Ask, Ops, Asked, AskedOf, UserShape
<1> HIDE DEF o
<1>2. /\ StoreInv' /\ SingleInv' /\ Registry' = Registry /\ (~torn => Reads')
      /\ op'[t] = o /\ answer'[t] = "waiting"
      /\ \A d \in Callers \ {t} : op'[d] = op[d] /\ answer'[d] = answer[d]
  BY <1>1, AskKeeps
<1>3. \A u \in Callers : pc'[u] = IF u = t THEN "reverting" ELSE pc[u]
  BY DEF UserShape
<1>4. Asked'
  <2> SUFFICES ASSUME NEW d \in Callers PROVE AskedOf(d)'
    BY DEF Asked
  <2>1. CASE d = t
    BY <1>2, <1>3, <2>1 DEF Asked, AskedOf, o
  <2>2. CASE d # t
    BY <1>2, <1>3, <2>2 DEF Asked, AskedOf
  <2> QED
    BY <2>1, <2>2
<1>5. ASSUME ~torn' PROVE Calm'
  <2>1. ~torn /\ launch' = launch /\ (Before(t) \/ After(t))
    BY <1>5
  <2>2. Alone(t)
    BY <1>3, <2>1 DEF Alone, Calm
  <2>3. Progress(t)'
    BY <1>2, <1>3, <2>1 DEF Calm, Progress, Remembers, Before, After, Marks
  <2> QED
    BY <1>2, <2>1, <2>2, <2>3, <1>3, CalmAlone
<1> QED
  BY <1>2, <1>4, <1>5 DEF Calm

LEMMA ToggleFailsKeepsInv ==
  ASSUME RegistryInv, NEW t \in Toggles, MarkFails(t) \/ ConfigFails(t)
  PROVE  StoreInv' /\ (SingleInv /\ Asked /\ Calm)'
<1> USE DEF RegistryInv, Toggling, Callers
<1>1. /\ pc[t] \in Toggling /\ Revert(t) /\ UNCHANGED <<target, revert, wiped>>
      /\ pc' = [pc EXCEPT ![t] = "reverting"]
  BY DEF MarkFails, ConfigFails, Becomes
<1>2. ASSUME ~torn' PROVE ~torn /\ launch' = launch /\ (Before(t) \/ After(t))
  <2>1. ~torn /\ launch' = launch
    BY <1>2 DEF MarkFails, ConfigFails
  <2>2. Progress(t) /\ pc[t] \in {"marking", "configuring"}
    BY <2>1 DEF Calm, MarkFails, ConfigFails, Becomes
  <2> QED
    BY <2>1, <2>2 DEF Progress
<1> QED
  BY <1>1, <1>2, RevertKeepsInv

LEMMA MoveKeepsInv ==
  ASSUME RegistryInv, NEW d \in Dirs, Move(d)
  PROVE  StoreInv' /\ (SingleInv /\ Asked /\ Calm)'
<1> USE DEF RegistryInv, Move
<1>1. StoreInv'
  BY RelocateKeepsStore
<1>2. SingleInv' /\ Asked'
  BY DEF SingleInv, Asked, AskedOf, Relocate, clients
<1> QED
  BY <1>1, <1>2 DEF Calm

LEMMA LoadKeepsInv ==
  ASSUME RegistryInv, NEW c \in Callers, Load(c), UNCHANGED <<launch, clients, torn, wiped>>
  PROVE  (SingleInv /\ Asked /\ Calm)'
<1> USE DEF RegistryInv, clients
<1>1. op[c] \in Ops /\ files[dir] \in Items /\ Apply(op[c], files[dir]) # Refused
  BY HeadWaits DEF Load, StoreInv, StoreShape
<1>2. UNCHANGED <<files, dir, op, path, answer>> /\ Registry' = Registry
      /\ \A d \in Callers : loaded'[d] = IF d = c THEN Apply(op[c], Registry) ELSE loaded[d]
  BY DEF Load, Registry, StoreInv, StoreShape
<1>3. SingleInv'
  BY <1>1, <1>2, ApplySingle DEF SingleInv, StoreInv, StoreShape, Registry
<1>4. Asked'
  BY <1>2 DEF Asked, AskedOf
<1>5. ASSUME ~torn PROVE Calm'
  <2>1. \A t \in Callers : Progress(t)'
    BY <1>2, <1>5, SameProgress DEF Calm
  <2>2. Reads'
    BY <1>2, <1>5 DEF Calm, Reads
  <2>3. Marks(launch) => Marks(launch)'
    BY <1>2 DEF Marks
  <2> QED
    BY <1>5, <2>1, <2>2, <2>3 DEF Calm
<1> QED
  BY <1>3, <1>4, <1>5 DEF Calm

\* The write begins: what it will replace is what was read, unless directories changed.
LEMMA OpensKeepsInv ==
  ASSUME RegistryInv, NEW c \in Callers, Opens(c), UNCHANGED <<launch, clients, torn, wiped>>
  PROVE  (SingleInv /\ Asked /\ Calm)'
<1> USE DEF RegistryInv, clients
<1>1. UNCHANGED <<files, dir, op, loaded, answer>> /\ Registry' = Registry
      /\ \A d \in Callers : path'[d] = IF d = c THEN dir ELSE path[d]
  BY DEF Opens, Registry, StoreInv, StoreShape
<1>2. SingleInv' /\ Asked'
  BY <1>1 DEF SingleInv, Asked, AskedOf
<1>3. ASSUME ~torn PROVE Calm'
  <2>1. \A t \in Callers : Progress(t)'
    BY <1>1, <1>3, SameProgress DEF Calm
  <2>2. Reads'
    BY <1>1, <1>3 DEF Calm, Reads
  <2>3. Marks(launch) => Marks(launch)'
    BY <1>1 DEF Marks
  <2> QED
    BY <1>3, <2>1, <2>2, <2>3 DEF Calm
<1> QED
  BY <1>2, <1>3 DEF Calm

\* An update that settles: its caller no longer waits, the others do as before.
LEMMA SettleFacts ==
  ASSUME RegistryInv, NEW c \in Callers, Turn(c), NEW r \in {"ok", "failed"}, Settle(c, r), UNCHANGED clients,
         UNCHANGED wiped
  PROVE  /\ answer[c] = "waiting" /\ op[c] \in Ops
         /\ \A d \in Callers : /\ loaded'[d] = Refused /\ path'[d] = Refused
                               /\ answer'[d] = IF d = c THEN r ELSE answer[d]
                               /\ op'[d] = IF d = c THEN Refused ELSE op[d]
         /\ Asked'
<1> USE DEF RegistryInv, Settle, clients
<1>1. answer[c] = "waiting" /\ op[c] \in Ops /\ \A d \in Callers : loaded[d] # Refused => d = c
  BY HeadWaits
<1>2. \A d \in Callers : /\ loaded'[d] = Refused /\ path'[d] = Refused
                         /\ answer'[d] = IF d = c THEN r ELSE answer[d]
                         /\ op'[d] = IF d = c THEN Refused ELSE op[d]
  BY <1>1 DEF StoreInv, StoreShape, OnlyHeadLoaded
<1>3. Asked'
  <2> SUFFICES ASSUME NEW d \in Callers PROVE AskedOf(d)'
    BY DEF Asked
  <2>1. AskedOf(d) /\ UNCHANGED <<pc, target, revert>>
    BY DEF Asked
  <2> QED
    BY <1>2, <2>1 DEF AskedOf
<1> QED
  BY <1>1, <1>2, <1>3

LEMMA FailureKeepsInv ==
  ASSUME RegistryInv, NEW c \in Callers, LoadFails(c) \/ StoreFails(c), UNCHANGED <<launch, clients, torn, wiped>>
  PROVE  (SingleInv /\ Asked /\ Calm)'
<1> USE DEF RegistryInv, clients
<1>1. Turn(c) /\ Settle(c, "failed") /\ UNCHANGED <<files, dir>>
  BY DEF LoadFails, StoreFails, StoreInv, OnlyHeadLoaded
<1>2. /\ answer[c] = "waiting" /\ Asked'
      /\ \A d \in Callers : loaded'[d] = Refused /\ path'[d] = Refused /\ answer'[d] = IF d = c THEN "failed" ELSE answer[d]
  BY <1>1, SettleFacts
<1>3. SingleInv' /\ Registry' = Registry
  BY <1>1, <1>2 DEF SingleInv, Registry
<1>4. ASSUME ~torn PROVE Calm'
  <2>1. \A t \in Callers \ {c} : Progress(t)'
    BY <1>2, <1>3, <1>4, SameProgress DEF Calm
  <2>2. Progress(c)'
    BY <1>2, <1>3, <1>4 DEF Calm, Progress, Remembers, Before, After, Marks, Asked, AskedOf, Asking
  <2>3. Reads'
    BY <1>2 DEF Reads
  <2>4. Marks(launch) => Marks(launch)'
    BY <1>3 DEF Marks
  <2> QED
    BY <1>4, <2>1, <2>2, <2>3, <2>4 DEF Calm
<1> QED
  BY <1>2, <1>3, <1>4 DEF Calm

\* The new array replaces the one it was computed from, unless directories changed.
LEMMA StoreKeepsInv ==
  ASSUME RegistryInv, NEW c \in Callers, Store(c), UNCHANGED <<launch, clients, torn, wiped>>
  PROVE  (SingleInv /\ Asked /\ Calm)'
<1> USE DEF RegistryInv, clients
<1>1. Turn(c) /\ Settle(c, "ok") /\ loaded[c] # Refused /\ loaded[c] \in Items
  BY DEF Store, StoreInv, StoreShape, OnlyHeadLoaded
<1>2. /\ answer[c] = "waiting" /\ op[c] \in Ops /\ Asked'
      /\ \A d \in Callers : loaded'[d] = Refused /\ path'[d] = Refused /\ answer'[d] = IF d = c THEN "ok" ELSE answer[d]
  BY <1>1, SettleFacts
<1>3. /\ Registry \in Items /\ Registry' \in Items /\ path[c] \in Dirs
      /\ \A d \in Dirs : files'[d] = IF d = path[c] THEN loaded[c] ELSE files[d]
  BY <1>1 DEF Store, Registry, StoreInv, StoreShape
<1>4. SingleInv'
  BY <1>1, <1>2, <1>3 DEF SingleInv, Single
<1>5. ASSUME ~torn PROVE Calm'
  <2>1. Registry' = Apply(op[c], Registry) /\ Registry' = loaded[c]
    <3>1. path[c] = dir /\ loaded[c] = Apply(op[c], Registry) /\ dir \in Dirs /\ dir' = dir
      BY <1>1, <1>5 DEF Calm, Reads, Store, StoreInv, StoreShape
    <3> QED
      BY <1>3, <3>1 DEF Registry
  <2>2. AskedOf(c) /\ Reads'
    BY <1>2 DEF Asked, Reads
  <2>3. \A t \in Callers \ {c} : pc'[t] = pc[t] /\ answer'[t] = answer[t]
    BY <1>2
  <2>4. CASE pc[c] \in {"untracking", "recording"}
    <3>1. Masters(Registry)' = Masters(Registry) \ {op[c].alias} /\ op[c].alias \in wiped
      <4>1. op[c].kind # "mark" /\ op[c].alias \in wiped
        BY <1>2, <2>2, <2>4 DEF AskedOf
      <4>2. Masters(Registry') = Masters(Registry) \ {op[c].alias}
        BY <1>1, <1>2, <1>3, <2>1, <4>1, OtherMasters
      <4> QED
        BY <4>1, <4>2 DEF Masters
    <3>2. /\ \A a : Marks(a) => Marks(a)'
          /\ \A t \in Callers : Before(t) => Before(t)'
          /\ \A t \in Callers : After(t) => After(t)'
          /\ \A t \in Callers : Remembers(t) => Remembers(t)'
          /\ Marks(launch) => Marks(launch)'
      BY <3>1 DEF Marks, Before, After, Remembers
    <3>3. \A t \in Callers \ {c} : Progress(t)'
      BY <1>5, <2>3, <3>2 DEF Calm, Progress
    <3>4. Progress(c)'
      BY <2>4 DEF Progress, Toggling
    <3> QED
      BY <1>5, <2>2, <3>2, <3>3, <3>4 DEF Calm
  <2>5. CASE pc[c] = "marking"
    <3>1. op[c] = [kind |-> "mark", alias |-> target[c]] /\ target[c] \in Aliases
      BY <1>2, <2>2, <2>5 DEF AskedOf, Toggling
    <3>2. Masters(Registry') = {target[c]}
      <4>1. /\ Registry' = Apply([kind |-> "mark", alias |-> target[c]], Registry)
            /\ Registry' # Refused /\ Registry \in Items
        BY <1>1, <1>3, <2>1, <3>1
      <4> QED
        BY <3>1, <4>1, MarkMasters
    <3>3. After(c)' /\ Remembers(c)'
      BY <1>5, <2>5, <3>2 DEF After, Marks, Masters, Calm, Progress, Remembers, Toggling
    <3>4. Progress(c)'
      BY <1>2, <2>5, <3>3 DEF Progress
    <3>5. Alone(c)
      BY <1>5, <2>5 DEF Alone, Calm, Toggling
    <3> QED
      BY <2>2, <2>5, <3>4, <3>5, CalmAlone DEF Toggling
  <2>6. CASE pc[c] = "reverting"
    <3>1. Remembers(c) /\ (Before(c) \/ After(c)) /\ target[c] \in Aliases
      BY <1>2, <1>5, <2>2, <2>6 DEF Calm, Progress, Toggling, AskedOf
    <3>2. Marks(launch)'
      <4>1. CASE revert[c] = Nobody
        <5>1. op[c].kind = "unmark" /\ op[c].alias = target[c]
          BY <1>2, <2>2, <2>6, <4>1 DEF AskedOf
        <5>2. Masters(Registry') = Masters(Registry) \ {target[c]}
          BY <1>1, <1>2, <1>3, <2>1, <5>1, OtherMasters
        <5>3. Masters(Registry') = {}
          BY <3>1, <4>1, <5>2 DEF Before, After, Marks
        <5> QED
          BY <3>1, <4>1, <5>3 DEF Marks, Remembers, Masters
      <4>2. CASE revert[c] # Nobody
        <5>1. op[c] = [kind |-> "mark", alias |-> revert[c]] /\ revert[c] \in Aliases
          BY <1>2, <2>2, <2>6, <4>2 DEF AskedOf, UserShape
        <5>2. Masters(Registry') = {revert[c]}
          <6>1. /\ Registry' = Apply([kind |-> "mark", alias |-> revert[c]], Registry)
                /\ Registry' # Refused /\ Registry \in Items
            BY <1>1, <1>3, <2>1, <5>1
          <6> QED
            BY <5>1, <6>1, MarkMasters
        <5> QED
          BY <3>1, <4>2, <5>2 DEF Marks, Remembers, Masters
      <4> QED
        BY <4>1, <4>2
    <3>3. Progress(c)'
      BY <1>2, <2>6, <3>1, <3>2 DEF Progress, Remembers
    <3>4. Alone(c)
      BY <1>5, <2>6 DEF Alone, Calm, Toggling
    <3> QED
      BY <2>2, <2>6, <3>3, <3>4, CalmAlone DEF Toggling
  <2> QED
    BY <1>2, <2>2, <2>4, <2>5, <2>6 DEF AskedOf, Asking
<1> QED
  BY <1>2, <1>4, <1>5 DEF Calm
-------------------------------------------------------------------------------
(* The invariant holds throughout *)

LEMMA InitInv == Init => RegistryInv
<1> SUFFICES ASSUME Init PROVE RegistryInv
  OBVIOUS
<1> USE RegistryAssumption DEF RegistryAssumption, Init
<1>1. dir \in Dirs
  OBVIOUS
<1>2. files \in [Dirs -> Items] /\ Registry \in Items /\ \A d \in Dirs : Masters(files[d]) = {}
  BY <1>1 DEF Items, Empty, Registry, Masters
<1>3. StoreShape
  BY <1>1, <1>2 DEF StoreShape
<1>4. torn \in BOOLEAN
  BY Zenon
<1>5. UserShape
  BY <1>2, <1>4 DEF UserShape, PCs, Toggling, Asking
<1>6. Waiting
  BY <1>3 DEF Waiting, StoreShape
<1>7. OnlyHeadLoaded /\ SingleInv
  BY <1>2 DEF OnlyHeadLoaded, SingleInv, Single
<1>8. Asked
  BY DEF Asked, AskedOf, Toggling
<1>9. Calm
  <2>1. Marks(launch)
    BY <1>1, <1>2 DEF Marks, Registry
  <2>2. \A t \in Callers : pc[t] \notin Toggling /\ Progress(t)
    BY DEF Progress, Toggling
  <2> QED
    BY <2>1, <2>2 DEF Calm, Reads
<1> QED
  BY <1>3, <1>5, <1>6, <1>7, <1>8, <1>9 DEF RegistryInv, StoreInv

LEMMA NextInv == RegistryInv /\ [Next]_vars => RegistryInv'
<1> SUFFICES ASSUME RegistryInv, [Next]_vars PROVE StoreInv' /\ (SingleInv /\ Asked /\ Calm)'
  BY NextUserShape DEF RegistryInv
<1>1. CASE UNCHANGED vars
  <2>1. UNCHANGED <<storeVars, launch, revert, torn, wiped>> /\ \A c \in Callers : Quiet(c)
    BY <1>1 DEF vars, clients, Quiet
  <2>2. StoreInv'
    BY <2>1 DEF storeVars, RegistryInv, StoreInv, StoreShape, Waiting, OnlyHeadLoaded, Turn
  <2> QED
    BY <2>1, <2>2, QuietKeepsInv
<1>2. ASSUME NEW c \in Callers, Registering(c) PROVE StoreInv' /\ (SingleInv /\ Asked /\ Calm)'
  BY <1>2, StoreStepKeepsStore, LoadKeepsInv, OpensKeepsInv, FailureKeepsInv, StoreKeepsInv
     DEF Registering, StoreStep, RegistryInv
<1>3. ASSUME NEW c \in Callers, OtherStep(c) PROVE StoreInv' /\ (SingleInv /\ Asked /\ Calm)'
  <2>1. CASE Untracks(c) \/ BuildRecords(c)
    BY <2>1, UpdatersKeepInv
  <2>2. CASE DeleteDone(c) \/ PruneChecks(c) \/ PruneGoesOn(c) \/ PruneDone(c) \/ BuildDone(c)
    BY <2>2, OthersKeepInv
  <2> QED
    BY <1>3, <2>1, <2>2 DEF OtherStep
<1>4. ASSUME NEW t \in Toggles, ToggleStep(t) PROVE StoreInv' /\ (SingleInv /\ Asked /\ Calm)'
  BY <1>4, MarkedKeepsInv, ConfiguredKeepsInv, RevertedKeepsInv, ToggleFailsKeepsInv DEF ToggleStep
<1>5. ASSUME NEW t \in Toggles, NEW a \in Aliases, Click(t, a) PROVE StoreInv' /\ (SingleInv /\ Asked /\ Calm)'
  BY <1>5, ClickKeepsInv
<1>6. ASSUME NEW d \in Dirs, Move(d) PROVE StoreInv' /\ (SingleInv /\ Asked /\ Calm)'
  BY <1>6, MoveKeepsInv
<1>7. CASE \/ \E c \in Deleters, a \in Aliases : Delete(c, a)
           \/ \E c \in Pruners : PruneLists(c)
           \/ \E c \in Builders, a \in Aliases : BuildImports(c, a)
           \/ \E a \in Aliases : RemovedOutside(a)
           \/ \E t \in Toggles : Reload(t)
  BY <1>7, OthersKeepInv
<1> QED
  BY <1>1, <1>2, <1>3, <1>4, <1>5, <1>6, <1>7 DEF Next

LEMMA InvHolds == Spec => []RegistryInv
  BY InitInv, NextInv, PTL DEF Spec

LEMMA InvImpliesTypes == RegistryInv => TypeOK
<1> SUFFICES ASSUME RegistryInv PROVE TypeOK
  OBVIOUS
<1>1. DOMAIN chain = 1 .. Len(chain)
  BY DEF RegistryInv, StoreInv, Waiting
<1>2. \A c \in Callers : (answer[c] = "waiting") = (c \in {chain[i] : i \in DOMAIN chain})
  BY <1>1 DEF RegistryInv, StoreInv, Waiting
<1>3. chain \in Seq(Callers) /\ \A i, j \in DOMAIN chain : chain[i] = chain[j] => i = j
  BY <1>1 DEF RegistryInv, StoreInv, Waiting
<1> QED
  BY <1>2, <1>3 DEF TypeOK, RegistryInv, StoreInv, StoreShape, UserShape, PCs, Toggling, Asking

LEMMA InvImpliesMaster == RegistryInv => MasterIsLaunched
<1> SUFFICES ASSUME RegistryInv PROVE MasterIsLaunched
  OBVIOUS
<1>1. OneMaster
  <2> SUFFICES ASSUME NEW d \in Dirs PROVE Cardinality(Masters(files[d])) <= 1
    BY DEF OneMaster
  <2>1. Single(files[d])
    BY DEF RegistryInv, SingleInv
  <2>2. CASE Masters(files[d]) = {}
    BY <2>2, FS_EmptySet
  <2>3. CASE Masters(files[d]) # {}
    <3>1. PICK a : Masters(files[d]) = {a}
      BY <2>1, <2>3 DEF Single
    <3>2. Cardinality({a}) = 1
      BY FS_Singleton
    <3> QED
      BY <3>1, <3>2
  <2> QED
    BY <2>2, <2>3
<1>2. ASSUME AllIdle, ~torn
      PROVE  /\ \A a \in Masters(Registry) : launch = a
             /\ launch \in Aliases \ wiped => Registry[launch] = "master"
  <2>1. Marks(launch)
    BY <1>2 DEF RegistryInv, Calm, AllIdle, Toggling
  <2> QED
    BY <2>1 DEF Marks, Masters
<1> QED
  BY <1>1, <1>2 DEF MasterIsLaunched

\* Only the last step of an update changes files: one update, of what a file holds now.
LEMMA StepImplements ==
  RegistryInv /\ [Next]_vars => [Abstract!Next]_files
<1> SUFFICES ASSUME RegistryInv, [Next]_vars
             PROVE  [Abstract!Next]_files
  OBVIOUS
<1>1. CASE UNCHANGED files
  BY <1>1
<1>2. ASSUME NEW c \in Callers, Store(c)
      PROVE  Abstract!Next
  <2>1. Turn(c) /\ op[c] \in Ops /\ path[c] \in Dirs
    BY <1>2, HeadWaits DEF Store, RegistryInv, StoreInv, OnlyHeadLoaded, StoreShape
  <2>2. PICK d \in Dirs : loaded[c] = Apply(op[c], files[d])
    BY <1>2, <2>1 DEF Store, RegistryInv, StoreInv, OnlyHeadLoaded
  <2>3. Abstract!Update(op[c], d, path[c])
    BY <1>2, <2>2 DEF Store, Abstract!Update, RegistryInv, StoreInv, OnlyHeadLoaded
  <2> QED
    BY <2>1, <2>3 DEF Abstract!Next
<1>3. UNCHANGED files \/ \E c \in Callers : Store(c)
  BY DEF Next, Registering, StoreStep, Load, LoadFails, Opens, StoreFails, Relocate, Move, vars, storeVars,
         OtherStep, ToggleStep, Untracks, DeleteDone, PruneChecks, PruneGoesOn, PruneDone, BuildRecords,
         BuildDone, Reload, Marked, Configured, MarkFails, ConfigFails, Reverted, Click, Delete, PruneLists,
         BuildImports, RemovedOutside, Ask, Revert, Issue
<1> QED
  BY <1>1, <1>2, <1>3

-------------------------------------------------------------------------------
\* Types hold throughout; who waits is in the chain of updates exactly once.
THEOREM RegistryTypes == Spec => []TypeOK
  BY InvHolds, InvImpliesTypes, PTL

\* However toggles, builds, deletions and prunes interleave, a registry has one
\* master at most, and config launches it once undisturbed toggles are over.
THEOREM MasterLaunched == Spec => []MasterIsLaunched
  BY InvHolds, InvImpliesMaster, PTL

\* Read, mutation and write of JsonArrayStore.update, with other updates waiting
\* in the chain, implement one atomic update: AtomicStore.
THEOREM StoreAtomic == Spec => UpdatesAtomic
  BY InvHolds, StepImplements, PTL DEF Spec, UpdatesAtomic, Abstract!Spec
===============================================================================
