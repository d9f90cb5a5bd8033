------------------------------- MODULE JailViews -------------------------------
(***************************************************************************)
(* The list of containers: IncusService answers it from a snapshot that is *)
(* shared for a second and dropped by every change, and each browser tab   *)
(* asks for it every few seconds and after each of its own actions.  Incus *)
(* is external; of the containers only their version counts, which every   *)
(* change raises.                                                          *)
(***************************************************************************)
EXTENDS Naturals, FiniteSets

CONSTANTS
  Tabs,       \* browser tabs with the page open
  Visible,    \* tabs that poll: one that the user has left does not
  Actions,    \* actions of the user: start, stop, launch, delete
  by,         \* by[a]: the tab action a comes from
  Double,     \* those of two changes: launchJail creates and starts, deleteJail stops and deletes
  Deletes,    \* those of deleteJail
  Nobody,     \* no tab, no request
  MaxFaults   \* bound: requests to Incus that fail

ASSUME ViewsAssumption ==
  Deletes \subseteq Double /\ Double \subseteq Actions /\ by \in [Actions -> Tabs]
  /\ Visible \subseteq Tabs /\ "poll" \notin Actions /\ Nobody \notin Tabs \cup Actions
  /\ IsFiniteSet(Tabs) /\ IsFiniteSet(Actions) /\ MaxFaults \in Nat

VARIABLES
  version,  \* Incus: the version of the containers
  stage,    \* stage[a]: the mutation of action a
  left,     \* left[a]: changes it still has to make
  own,      \* own[a]: history, the version its last change made in time
  late,     \* operations whose wait has run out, and that go on
  cache,    \* jailSnapshot, until it expires: the version when its GET began
  rq,       \* rq[t][k]: the status query of tab t's poller or after action k
  latest,   \* statusRequestId: the query sent last
  seen,     \* the version on the screen
  stale,    \* incusHealthy is false: the last query failed
  faults    \* counter of the bound

incus  == <<version, stage, left, own, late>>
view   == <<rq, latest, seen, stale>>
vars   == <<incus, cache, view, faults>>

Queries == Actions \cup {"poll"}

\* A query that is not under way, has been sent, or waits for a GET of the
\* list that began at version v: the answer is that version or a later one.
\* (Queries that share a GET may get different answers here, not in the code.)
Idle  == [kind |-> "idle", from |-> 0]
Sent  == [kind |-> "sent", from |-> 0]
On(v) == [kind |-> "on", from |-> v]

Init ==
  /\ version = 0 /\ stage = [a \in Actions |-> "idle"]
  /\ left = [a \in Actions |-> IF a \in Double THEN 2 ELSE 1]
  /\ own = [a \in Actions |-> 0] /\ late = {}
  /\ cache = Idle
  /\ rq = [t \in Tabs |-> [k \in Queries |-> Idle]] /\ latest = [t \in Tabs |-> Nobody]
  /\ seen = [t \in Tabs |-> 0] /\ stale = [t \in Tabs |-> FALSE]
  /\ faults = 0

Fault == faults < MaxFaults /\ faults' = faults + 1

-------------------------------------------------------------------------------
(* Queries *)

\* refreshStatus
Refresh(t, k) == rq' = [rq EXCEPT ![t][k] = Sent] /\ latest' = [latest EXCEPT ![t] = k]

\* The poller's timer; a poll never overlaps the one before.
Poll(t) ==
  /\ t \in Visible /\ rq[t]["poll"] = Idle
  /\ Refresh(t, "poll")
  /\ UNCHANGED <<incus, cache, seen, stale, faults>>

\* listJails: the GET of the snapshot, or one that others may share.
ListJails(t, k) ==
  /\ rq[t][k] = Sent
  /\ \/ /\ cache # Idle /\ rq' = [rq EXCEPT ![t][k] = cache]
        /\ UNCHANGED cache
     \/ /\ cache = Idle /\ cache' = On(version)
        /\ rq' = [rq EXCEPT ![t][k] = On(version)]
  /\ UNCHANGED <<incus, latest, seen, stale, faults>>

\* Slip: only a snapshot that was taken before a change expires.
ExpiresFirst ==
  /\ cache # Idle /\ version = 0 /\ cache' = Idle
  /\ UNCHANGED <<incus, view, faults>>

\* A snapshot is a second old: it serves no other query.
Expire ==
  /\ cache # Idle /\ cache' = Idle
  /\ UNCHANGED <<incus, view, faults>>

\* The check of statusRequestId.
Current(t, k) == latest[t] = k

\* A query is answered, or fails: then whatever snapshot is kept is dropped.
Answered(t, k) ==
  /\ rq[t][k].kind = "on" /\ rq' = [rq EXCEPT ![t][k] = Idle]
  /\ \/ /\ Current(t, k) /\ stale' = [stale EXCEPT ![t] = FALSE]
        /\ \E v \in rq[t][k].from .. version : seen' = [seen EXCEPT ![t] = v]
     \/ ~Current(t, k) /\ UNCHANGED <<seen, stale>>
  /\ UNCHANGED <<incus, cache, latest, faults>>

QueryFails(t, k) ==
  /\ rq[t][k].kind = "on" /\ Fault /\ rq' = [rq EXCEPT ![t][k] = Idle]
  /\ cache' = Idle
  /\ stale' = [stale EXCEPT ![t] = @ \/ Current(t, k)]
  /\ UNCHANGED <<incus, latest, seen>>

-------------------------------------------------------------------------------
(* Actions *)

\* jailAction, deleteJail, launchJail call their mutation.
Act(a) ==
  /\ stage[a] = "idle" /\ stage' = [stage EXCEPT ![a] = "called"]
  /\ UNCHANGED <<version, left, own, late, cache, view, faults>>

\* Incus carries out a change.
Change(a) ==
  /\ stage[a] = "called" /\ version' = version + 1
  /\ stage' = [stage EXCEPT ![a] = "changed"] /\ left' = [left EXCEPT ![a] = @ - 1]
  /\ own' = [own EXCEPT ![a] = version']
  /\ UNCHANGED <<late, cache, view, faults>>

\* Slips: the snapshot is dropped when the operation begins, not when it is
\* over; an action changes Incus once more.
WaitedOnly(a) ==
  /\ stage[a] = "changed"
  /\ stage' = [stage EXCEPT ![a] = IF left[a] > 0 THEN "called" ELSE "answered"]
  /\ UNCHANGED <<version, left, own, late, cache, view, faults>>

WaitedOnceMore(a) ==
  /\ stage[a] = "changed" /\ cache' = Idle
  /\ stage' = [stage EXCEPT ![a] = IF left[a] >= 0 THEN "called" ELSE "answered"]
  /\ UNCHANGED <<version, left, own, late, view, faults>>

\* callAndWait: the operation is over, the snapshot is dropped.
Waited(a) ==
  /\ stage[a] = "changed"
  /\ stage' = [stage EXCEPT ![a] = IF left[a] > 0 THEN "called" ELSE "answered"]
  /\ cache' = Idle
  /\ UNCHANGED <<version, left, own, late, view, faults>>

\* The wait of 60 seconds runs out and is no error: the operation counts as
\* over, and Incus carries it out later.
WaitRunsOut(a) ==
  /\ stage[a] = "called" /\ Fault
  /\ left' = [left EXCEPT ![a] = @ - 1] /\ late' = late \cup {a}
  /\ stage' = [stage EXCEPT ![a] = IF left[a] > 1 THEN "called" ELSE "answered"]
  /\ cache' = Idle
  /\ UNCHANGED <<version, own, view>>

LateChange(a) ==
  /\ a \in late /\ late' = late \ {a}
  /\ version' = version + 1
  /\ UNCHANGED <<stage, left, own, cache, view, faults>>

\* The first change of a deletion is under way: a stop, best effort.
Stopping(a) == a \in Deletes /\ left[a] = (IF stage[a] = "called" THEN 2 ELSE 1)

\* The operation fails, before or after it changed something: no snapshot is
\* dropped, and the tab shows the error without a refresh.
ActFails(a) ==
  /\ stage[a] \in {"called", "changed"} /\ ~Stopping(a) /\ Fault
  /\ stage' = [stage EXCEPT ![a] = "failed"]
  /\ UNCHANGED <<version, left, own, late, cache, view>>

StopFails(a) ==
  /\ stage[a] \in {"called", "changed"} /\ Stopping(a) /\ Fault
  /\ stage' = [stage EXCEPT ![a] = "called"] /\ left' = [left EXCEPT ![a] = 1]
  /\ UNCHANGED <<version, own, late, cache, view>>

\* The mutation is answered: the tab refreshes.
Acted(a) ==
  /\ stage[a] = "answered" /\ stage' = [stage EXCEPT ![a] = "over"]
  /\ Refresh(by[a], a)
  /\ UNCHANGED <<version, left, own, late, cache, seen, stale, faults>>

-------------------------------------------------------------------------------
Next ==
  \/ \E t \in Tabs : Poll(t)
  \/ \E t \in Tabs, k \in Queries : ListJails(t, k) \/ Answered(t, k) \/ QueryFails(t, k)
  \/ Expire
  \/ \E a \in Actions : Act(a) \/ Change(a) \/ Waited(a) \/ WaitRunsOut(a) \/ LateChange(a) \/ ActFails(a) \/ StopFails(a) \/ Acted(a)

Spec == Init /\ [][Next]_vars

FairSpec ==
  /\ Spec /\ WF_vars(Expire)
  /\ \A t \in Tabs : WF_vars(Poll(t))
  /\ \A t \in Tabs, k \in Queries : WF_vars(ListJails(t, k)) /\ WF_vars(Answered(t, k))

-------------------------------------------------------------------------------
\* Type correctness; nobody has seen what is not there yet.
TypeOK ==
  /\ \A t \in Tabs : seen[t] \in 0 .. version /\ latest[t] \in Queries \cup {Nobody}
  /\ \A a \in Actions : left[a] \in 0 .. 2 /\ own[a] \in 0 .. version
  /\ cache \in {Idle} \cup {On(v) : v \in 0 .. version} /\ late \subseteq Actions

\* The last query of tab t has been answered, and none is under way.
Quiet(t) == ~stale[t] /\ \A k \in Queries : rq[t][k] = Idle

\* A tab that asks for nothing shows its own actions, of which the change was
\* made before their wait ran out, however their refreshes, its polls and the
\* other tabs' queries shared or overtook one another.
ReadsOwnWrites ==
  \A t \in Tabs, a \in Actions :
    Quiet(t) /\ by[a] = t /\ stage[a] = "over" => seen[t] >= own[a]

\* When nothing changes any more, every tab shows what is there some day
\* if it polls.
Converges == \A t \in Visible : <>[](seen[t] = version)
===============================================================================
