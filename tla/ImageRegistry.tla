----------------------------- MODULE ImageRegistry -----------------------------
(***************************************************************************)
(* The registry of built images (image-builds.json) and those who change   *)
(* it: the "Set as default" button of the web UI, which also sets          *)
(* config.jailImage; deletions and prunes, which look at the images Incus  *)
(* has; and builds that end.  The registry is a JsonStore, incus.cfg and   *)
(* the Incus image store are two more stores, and nothing spans them.      *)
(***************************************************************************)
EXTENDS Naturals, FiniteSets, Sequences

CONSTANTS
  Aliases,   \* image aliases
  Toggles,   \* clicks of "Set as default", each with the list its tab shows
  Deleters,  \* calls of deleteJailImage
  Pruners,   \* calls of pruneStaleImageRecords
  Builders,  \* builds, from their import into Incus on
  Nobody,    \* no alias
  Dirs,      \* values of incus.stateDir
  Refused,   \* the mutator throws
  MaxActs,   \* bound: clicks, deletions, prunes and builds in a behaviour
  MaxFaults, \* bound: requests that fail, images removed by the incus CLI
  MaxMoves   \* bound: changes of incus.stateDir

Callers == Toggles \cup Deleters \cup Pruners \cup Builders

ASSUME RegistryAssumption ==
  /\ MaxActs \in Nat /\ MaxFaults \in Nat /\ MaxMoves \in Nat
  /\ Nobody \notin Aliases /\ Aliases # {} /\ Dirs # {} /\ Refused \notin Dirs

VARIABLES
  files, dir, chain, op, loaded, path, answer,  \* the JsonStore
  images,   \* aliases Incus has an image for
  launch,   \* config.jailImage
  view,     \* view[t]: the registry as the tab of toggle t shows it
  pc,       \* pc[c]: what c does
  target,   \* target[c]: the alias c works on
  revert,   \* revert[t]: the alias to mark again if the toggle fails, or Nobody
  todo,     \* todo[p]: aliases prune p has still to look at
  acts, faults, moves, \* counters of the bounds
  torn,     \* history: a toggle started late or overlapping, or failed halfway
  wiped     \* history: the aliases whose record was rebuilt or untracked

\* {alias, isMaster} records, an absent one being "none".
Items == [Aliases -> {"none", "plain", "master"}]
Empty == [a \in Aliases |-> "none"]
Tracked(items) == {a \in Aliases : items[a] # "none"}
Masters(items) == {a \in Aliases : items[a] = "master"}

Ops == [kind : {"mark", "unmark", "untrack", "built"}, alias : Aliases]

\* The mutators of setMasterImage, untrackImage and recordImageBuilt.
Apply(o, items) ==
  IF o.kind \in {"mark", "unmark"} /\ items[o.alias] = "none" THEN Refused
  ELSE IF o.kind = "mark"
    THEN [a \in Aliases |-> IF a = o.alias THEN "master"
                            ELSE IF items[a] = "master" THEN "plain" ELSE items[a]]
    ELSE [items EXCEPT ![o.alias] = IF o.kind = "untrack" THEN "none" ELSE "plain"]

INSTANCE JsonStore

storeVars == <<files, dir, chain, op, loaded, path, answer>>
clients == <<pc, target, revert, todo>>
bounds  == <<acts, faults, moves>>
vars    == <<storeVars, images, launch, view, clients, bounds, torn, wiped>>

Registry == files[dir]

Init ==
  /\ dir = CHOOSE d \in Dirs : TRUE
  /\ files = [d \in Dirs |-> IF d = dir THEN [a \in Aliases |-> "plain"] ELSE Empty]
  /\ chain = <<>>
  /\ op = [c \in Callers |-> Refused]
  /\ loaded = [c \in Callers |-> Refused]
  /\ path = [c \in Callers |-> Refused]
  /\ answer = [c \in Callers |-> "idle"]
  /\ images = Aliases
  /\ launch = Nobody
  /\ view = [t \in Toggles |-> Registry]
  /\ pc = [c \in Callers |-> "idle"]
  /\ target = [c \in Callers |-> Nobody]
  /\ revert = [c \in Callers |-> Nobody]
  /\ todo = [c \in Callers |-> {}]
  /\ acts = 0 /\ faults = 0 /\ moves = 0
  /\ torn = FALSE /\ wiped = {}

Act   == acts < MaxActs /\ acts' = acts + 1 /\ UNCHANGED <<faults, moves>>
Fault == faults < MaxFaults /\ faults' = faults + 1 /\ UNCHANGED <<acts, moves>>

Begin(c, p) == pc[c] = "idle" /\ Act /\ pc' = [pc EXCEPT ![c] = p]
Forgets(c) == target' = [target EXCEPT ![c] = Nobody] /\ revert' = [revert EXCEPT ![c] = Nobody]
Becomes(c, p, q) == pc[c] = p /\ pc' = [pc EXCEPT ![c] = q]
Answered(c) == answer[c] \in {"ok", "failed"}
Ask(c, kind, a) == Issue(c, [kind |-> kind, alias |-> a])

-------------------------------------------------------------------------------
(* "Set as default": toggleMaster *)

\* loadJailImages: the list a tab shows is read again.
Reload(t) ==
  /\ pc[t] = "idle" /\ view[t] # Registry
  /\ view' = [view EXCEPT ![t] = Registry]
  /\ UNCHANGED <<storeVars, images, launch, clients, bounds, torn, wiped>>

\* The click, refused for the image that is the master in this tab's list.
Click(t, a) ==
  /\ Begin(t, "marking")
  /\ view[t][a] = "plain"
  /\ target' = [target EXCEPT ![t] = a]
  /\ revert' = [revert EXCEPT ![t] = IF Masters(view[t]) = {} THEN Nobody
                                     ELSE CHOOSE m \in Masters(view[t]) : TRUE]
  /\ Ask(t, "mark", a)
  /\ torn' = (torn \/ view[t] # Registry \/ \E u \in Toggles : pc[u] # "idle")
  /\ UNCHANGED <<images, launch, view, todo, wiped>>

\* The first mutation succeeded, the second is sent.
Marked(t) ==
  /\ Becomes(t, "marking", "configuring") /\ answer[t] = "ok"
  /\ UNCHANGED <<storeVars, images, launch, view, target, revert, todo, bounds, torn, wiped>>

\* updateIncusConfig succeeds and the tab reloads both lists.
Configured(t) ==
  /\ Becomes(t, "configuring", "idle")
  /\ launch' = target[t]
  /\ view' = [view EXCEPT ![t] = Registry] /\ Forgets(t)
  /\ UNCHANGED <<storeVars, images, todo, bounds, torn, wiped>>

\* A slip in Revert: it repeats the failed toggle instead of undoing it.
RevertToTarget(t) == Ask(t, "mark", target[t])

\* The compensation: mark the previous master again, or unmark the new one.
Revert(t) ==
  IF revert[t] = Nobody THEN Ask(t, "unmark", target[t]) ELSE Ask(t, "mark", revert[t])

\* The first mutation fails, or its answer is lost.
MarkFails(t) ==
  /\ Becomes(t, "marking", "reverting")
  /\ \/ answer[t] = "failed" /\ UNCHANGED bounds
     \/ answer[t] = "ok" /\ Fault
  /\ Revert(t)
  /\ UNCHANGED <<images, launch, view, target, revert, todo, torn, wiped>>

\* The second mutation fails: nothing was saved, or incus.cfg was put back; or
\* it was saved, and applying it failed and was not undone, or the answer was lost.
ConfigFails(t) ==
  /\ Becomes(t, "configuring", "reverting") /\ Fault
  /\ \/ UNCHANGED <<launch, torn>>
     \/ launch' = target[t] /\ torn' = TRUE
  /\ Revert(t)
  /\ UNCHANGED <<images, view, target, revert, todo, wiped>>

\* The compensation has ended either way (allSettled), and the lists are reloaded.
Reverted(t) ==
  /\ Becomes(t, "reverting", "idle") /\ Answered(t)
  /\ view' = [view EXCEPT ![t] = Registry] /\ Forgets(t)
  /\ torn' = (torn \/ answer[t] = "failed")
  /\ UNCHANGED <<storeVars, images, launch, todo, bounds, wiped>>

ToggleStep(t) ==
  Marked(t) \/ Configured(t) \/ MarkFails(t) \/ ConfigFails(t) \/ Reverted(t)

-------------------------------------------------------------------------------
(* Deletions, prunes, builds *)

\* deleteJailImage: Incus deletes the image or fails to, and in any case ...
Delete(c, a) ==
  /\ Begin(c, "gone")
  /\ a \in Tracked(Registry)
  /\ images' \in {images, images \ {a}}
  /\ target' = [target EXCEPT ![c] = a]
  /\ UNCHANGED <<storeVars, launch, view, revert, todo, torn, wiped>>

\* ... it is untracked when the answer is here; a prune does so with an image it missed.
Untracks(c) ==
  /\ Becomes(c, "gone", "untracking")
  /\ Ask(c, "untrack", target[c]) /\ Forgets(c)
  /\ wiped' = wiped \cup {target[c]}
  /\ UNCHANGED <<images, launch, view, todo, bounds, torn>>

DeleteDone(c) ==
  /\ c \in Deleters /\ Becomes(c, "untracking", "idle") /\ Answered(c)
  /\ UNCHANGED <<storeVars, images, launch, view, target, revert, todo, bounds, torn, wiped>>

\* pruneStaleImageRecords reads the list ...
PruneLists(c) ==
  /\ Begin(c, "pruning")
  /\ todo' = [todo EXCEPT ![c] = Tracked(Registry)]
  /\ UNCHANGED <<storeVars, images, launch, view, target, revert, torn, wiped>>

\* ... asks Incus for each image, and untracks the record of a missing one.
PruneChecks(c) ==
  /\ pc[c] = "pruning"
  /\ \E a \in todo[c] :
       /\ todo' = [todo EXCEPT ![c] = @ \ {a}]
       /\ IF a \in images
            THEN UNCHANGED <<pc, target>>
            ELSE Becomes(c, "pruning", "gone") /\ target' = [target EXCEPT ![c] = a]
  /\ UNCHANGED <<storeVars, images, launch, view, revert, bounds, torn, wiped>>

\* On with the rest; an update that failed ends the prune.
PruneGoesOn(c) ==
  /\ c \in Pruners /\ Becomes(c, "untracking", "pruning") /\ Answered(c)
  /\ todo' = IF answer[c] = "ok" THEN todo ELSE [todo EXCEPT ![c] = {}]
  /\ UNCHANGED <<storeVars, images, launch, view, target, revert, bounds, torn, wiped>>

PruneDone(c) ==
  /\ todo[c] = {} /\ Becomes(c, "pruning", "idle")
  /\ UNCHANGED <<storeVars, images, launch, view, target, revert, todo, bounds, torn, wiped>>

\* distrobuilder imports the image under its alias, replacing one of that name ...
BuildImports(c, a) ==
  /\ Begin(c, "imported")
  /\ images' = images \cup {a}
  /\ target' = [target EXCEPT ![c] = a]
  /\ UNCHANGED <<storeVars, launch, view, revert, todo, torn, wiped>>

\* ... and exits with 0: recordImageBuilt.
BuildRecords(c) ==
  /\ Becomes(c, "imported", "recording")
  /\ Ask(c, "built", target[c]) /\ Forgets(c)
  /\ wiped' = wiped \cup {target[c]}
  /\ UNCHANGED <<images, launch, view, todo, bounds, torn>>

BuildDone(c) ==
  /\ Becomes(c, "recording", "idle") /\ Answered(c)
  /\ UNCHANGED <<storeVars, images, launch, view, target, revert, todo, bounds, torn, wiped>>

\* The image is deleted with the incus CLI.
RemovedOutside(a) ==
  /\ Fault /\ a \in images
  /\ images' = images \ {a}
  /\ UNCHANGED <<storeVars, launch, view, clients, torn, wiped>>

\* incus.stateDir is saved with another value.
Move(d) ==
  /\ moves < MaxMoves /\ moves' = moves + 1 /\ UNCHANGED <<acts, faults>>
  /\ d # dir /\ Relocate(d)
  /\ UNCHANGED <<images, launch, view, clients, wiped>>
  /\ torn' = TRUE

Registering(c) ==
  /\ StoreStep(c)
  /\ UNCHANGED <<images, launch, view, clients, bounds, torn, wiped>>

OtherStep(c) ==
  \/ Untracks(c) \/ DeleteDone(c) \/ PruneChecks(c) \/ PruneGoesOn(c) \/ PruneDone(c)
  \/ BuildRecords(c) \/ BuildDone(c)

Next ==
  \/ \E c \in Callers : Registering(c) \/ OtherStep(c)
  \/ \E t \in Toggles : Reload(t) \/ ToggleStep(t) \/ \E a \in Aliases : Click(t, a)
  \/ \E c \in Deleters, a \in Aliases : Delete(c, a)
  \/ \E c \in Pruners : PruneLists(c)
  \/ \E c \in Builders, a \in Aliases : BuildImports(c, a)
  \/ \E a \in Aliases : RemovedOutside(a)
  \/ \E d \in Dirs : Move(d)

Spec == Init /\ [][Next]_vars

\* File operations end one way or the other; nobody has to click or to build.
FairSpec == Spec /\ \A c \in Callers : WF_vars(Registering(c))

-------------------------------------------------------------------------------
(* Properties *)

\* Types; and a caller whose update is in the chain is there once and waits.
TypeOK ==
  /\ files \in [Dirs -> Items] /\ dir \in Dirs
  /\ chain \in Seq(Callers)
  /\ \A c \in Callers : (answer[c] = "waiting") = (c \in {chain[i] : i \in DOMAIN chain})
  /\ \A i, j \in DOMAIN chain : chain[i] = chain[j] => i = j
  /\ op \in [Callers -> Ops \cup {Refused}] /\ loaded \in [Callers -> Items \cup {Refused}]
  /\ path \in [Callers -> Dirs \cup {Refused}]
  /\ answer \in [Callers -> {"idle", "waiting", "ok", "failed"}]
  /\ images \subseteq Aliases /\ launch \in Aliases \cup {Nobody}
  /\ view \in [Toggles -> Items]
  /\ pc \in [Callers -> {"idle", "marking", "configuring", "reverting", "gone", "untracking", "pruning",
                         "imported", "recording"}]
  /\ target \in [Callers -> Aliases \cup {Nobody}]
  /\ revert \in [Callers -> Aliases \cup {Nobody}]
  /\ todo \in [Callers -> SUBSET Aliases]
  /\ acts \in 0..MaxActs /\ faults \in 0..MaxFaults /\ moves \in 0..MaxMoves
  /\ torn \in BOOLEAN /\ wiped \subseteq Aliases

AllIdle == \A c \in Callers : pc[c] = "idle" /\ answer[c] # "waiting"

OneMaster == \A d \in Dirs : Cardinality(Masters(files[d])) <= 1

\* "The UI can never advertise a master that new containers do not use".  Each
\* registry has one master at most, whoever marks, unmarks, rebuilds, deletes or
\* carries it over to another directory at the same time; and after toggles
\* that start from a current list, one after the other, and whose compensation
\* works, that master is what config launches, whatever builds, deletions and
\* prunes do meanwhile; and what config launches is the master, until its record
\* is rebuilt or untracked.
MasterIsLaunched ==
  /\ OneMaster
  /\ AllIdle /\ ~torn =>
       /\ \A a \in Masters(Registry) : launch = a
       /\ launch \in Aliases \ wiped => Registry[launch] = "master"

Abstract == INSTANCE AtomicStore WITH
  files <- files, Dirs <- Dirs, Ops <- Ops, Apply <- Apply, Refused <- Refused

\* Concurrent updates are updates one at a time: none is lost, and one that
\* fails changes nothing.
UpdatesAtomic == Abstract!Spec

\* An update that fails keeps no later one from being carried out.
UpdatesSettle == \A c \in Callers : answer[c] = "waiting" ~> answer[c] # "waiting"
===============================================================================
