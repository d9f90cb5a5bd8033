---------------------------- MODULE JailViewsProofs ----------------------------
(***************************************************************************)
(* For any tabs, actions, polls and faults: a tab shows what it changed    *)
(* (App.vue:106-225, incus.service.ts:130-220).                            *)
(***************************************************************************)
EXTENDS JailViews, TLAPS

\* What a query or the snapshot may be: nobody reads a version to come.
Ons == {On(v) : v \in 0 .. version}

Shape ==
  /\ version \in Nat /\ faults \in Nat
  /\ stage \in [Actions -> {"idle", "called", "changed", "answered", "over", "failed"}]
  /\ left \in [Actions -> 0 .. 2] /\ own \in [Actions -> 0 .. version] /\ late \subseteq Actions
  /\ cache \in {Idle} \cup Ons
  /\ rq \in [Tabs -> [Queries -> {Idle, Sent} \cup Ons]]
  /\ latest \in [Tabs -> Queries \cup {Nobody}]
  /\ seen \in [Tabs -> 0 .. version] /\ stale \in [Tabs -> BOOLEAN]

\* An action that has called Incus is about to make a change.
ChangesLeft == \A a \in Actions : stage[a] \in {"idle", "called"} => left[a] >= 1

\* The change was made before the snapshot was read, or there is no snapshot.
SnapshotNew(a) == cache = Idle \/ cache.from >= own[a]

\* Query r of tab t, the one sent last, will show what a changed, or has, or
\* has failed.
WillShow(t, a, r) ==
  \/ r = Sent
  \/ r.kind = "on" /\ r.from >= own[a]
  \/ r = Idle /\ (stale[t] \/ seen[t] >= own[a])

Fresh ==
  \A a \in Actions :
    /\ stage[a] \in {"answered", "over"} => SnapshotNew(a)
    /\ stage[a] = "over" => /\ latest[by[a]] \in Queries
                            /\ WillShow(by[a], a, rq[by[a]][latest[by[a]]])

ViewsInv == Shape /\ ChangesLeft /\ Fresh
-------------------------------------------------------------------------------
(* The invariant gives the properties *)

LEMMA InvImplies == ViewsInv => TypeOK /\ ReadsOwnWrites
<1> SUFFICES ASSUME ViewsInv PROVE TypeOK /\ ReadsOwnWrites
  OBVIOUS
<1>1. TypeOK
  BY DEF ViewsInv, Shape, TypeOK, Ons
<1>2. ReadsOwnWrites
  <2> SUFFICES ASSUME NEW t \in Tabs, NEW a \in Actions, Quiet(t), by[a] = t, stage[a] = "over"
               PROVE  seen[t] >= own[a]
    BY DEF ReadsOwnWrites
  <2>1. latest[t] \in Queries /\ WillShow(t, a, rq[t][latest[t]])
    BY DEF ViewsInv, Fresh
  <2>2. rq[t][latest[t]] = Idle /\ ~stale[t]
    BY <2>1 DEF Quiet
  <2> QED
    BY <2>1, <2>2 DEF WillShow, Idle, Sent
<1> QED
  BY <1>1, <1>2

LEMMA InitInv == Init => ViewsInv
<1> SUFFICES ASSUME Init PROVE ViewsInv
  OBVIOUS
<1> USE DEF Init
<1>1. stale \in [Tabs -> BOOLEAN]
  BY Zenon
<1>2. Shape
  BY <1>1, ViewsAssumption DEF Shape, ViewsAssumption
<1>3. ChangesLeft
  BY DEF ChangesLeft
<1>4. Fresh
  BY DEF Fresh
<1> QED
  BY <1>2, <1>3, <1>4 DEF ViewsInv

-------------------------------------------------------------------------------
(* Queries *)

LEMMA PollKeepsInv ==
  ASSUME ViewsInv, NEW t \in Tabs, Poll(t)
  PROVE  ViewsInv'
<1> USE DEF ViewsInv, Poll, Refresh, incus, Queries
<1>1. Shape'
  BY DEF Shape, Ons
<1>2. ChangesLeft'
  BY DEF ChangesLeft
<1>3. Fresh'
  <2> SUFFICES ASSUME NEW a \in Actions, stage[a] = "over"
               PROVE  latest'[by[a]] \in Queries /\ WillShow(by[a], a, rq[by[a]][latest[by[a]]])'
    BY DEF Fresh, SnapshotNew
  <2>1. by[a] \in Tabs
    BY ViewsAssumption DEF ViewsAssumption
  <2>2. CASE by[a] = t
    BY <2>1, <2>2 DEF WillShow, Shape
  <2>3. CASE by[a] # t
    BY <2>1, <2>3 DEF WillShow, Shape, Fresh
  <2> QED
    BY <2>2, <2>3
<1> QED
  BY <1>1, <1>2, <1>3

LEMMA ListJailsKeepsInv ==
  ASSUME ViewsInv, NEW t \in Tabs, NEW k \in Queries, ListJails(t, k)
  PROVE  ViewsInv'
<1> USE DEF ViewsInv, ListJails, incus
<1>1. PICK v \in 0 .. version : /\ rq' = [rq EXCEPT ![t][k] = On(v)] /\ cache' = On(v)
                                /\ v = version \/ cache = On(v)
  BY DEF Shape, Ons, Idle, On
<1>2. UNCHANGED <<version, stage, left, own, late, latest, seen, stale, faults>>
  OBVIOUS
<1>3. On(v) \in Ons
  BY DEF Ons
<1>4. Shape' /\ ChangesLeft'
  BY <1>1, <1>2, <1>3 DEF Shape, Ons, ChangesLeft
<1>5. ASSUME NEW a \in Actions, stage[a] \in {"answered", "over"} PROVE v >= own[a]
  BY <1>1, <1>5 DEF Fresh, SnapshotNew, Shape, On, Idle
<1>6. Fresh'
  <2> SUFFICES ASSUME NEW a \in Actions, stage[a] \in {"answered", "over"}
               PROVE  /\ SnapshotNew(a)'
                      /\ stage[a] = "over" => WillShow(by[a], a, rq[by[a]][latest[by[a]]])'
    BY <1>2 DEF Fresh
  <2>1. SnapshotNew(a)'
    BY <1>1, <1>2, <1>5 DEF SnapshotNew, On
  <2>2. ASSUME stage[a] = "over" PROVE WillShow(by[a], a, rq[by[a]][latest[by[a]]])'
    <3>1. by[a] \in Tabs /\ latest[by[a]] \in Queries /\ WillShow(by[a], a, rq[by[a]][latest[by[a]]])
      BY <2>2, ViewsAssumption DEF Fresh, ViewsAssumption
    <3>2. rq'[by[a]][latest[by[a]]] \in {On(v), rq[by[a]][latest[by[a]]]}
      BY <1>1, <3>1 DEF Shape
    <3> QED
      BY <1>2, <1>5, <3>1, <3>2 DEF WillShow, On
  <2> QED
    BY <2>1, <2>2
<1> QED
  BY <1>4, <1>6

LEMMA AnswerKeepsInv ==
  ASSUME ViewsInv, NEW t \in Tabs, NEW k \in Queries, Answered(t, k) \/ QueryFails(t, k)
  PROVE  ViewsInv'
<1> USE DEF ViewsInv, Answered, QueryFails, incus
<1>1. /\ rq[t][k].kind = "on" /\ rq' = [rq EXCEPT ![t][k] = Idle] /\ rq[t][k].from \in 0 .. version
      /\ UNCHANGED <<version, stage, left, own, late, latest>> /\ cache' \in {cache, Idle}
  BY DEF Shape, Ons, Idle, Sent, On
<1>2. /\ stale' \in [Tabs -> BOOLEAN] /\ seen' \in [Tabs -> 0 .. version]
      /\ \A u \in Tabs : u # t \/ latest[t] # k => (stale'[u] <=> stale[u]) /\ seen'[u] = seen[u]
      /\ latest[t] = k => stale'[t] \/ seen'[t] >= rq[t][k].from
  <2>1. CASE Answered(t, k) /\ Current(t, k)
    <3>1. stale' = [stale EXCEPT ![t] = FALSE] /\ \E v \in rq[t][k].from .. version : seen' = [seen EXCEPT ![t] = v]
      BY <2>1 DEF Answered, Current
    <3> QED
      BY <1>1, <2>1, <3>1 DEF Shape, Current
  <2>2. CASE Answered(t, k) /\ ~Current(t, k)
    BY <2>2 DEF Shape, Current
  <2>3. CASE QueryFails(t, k)
    <3>1. stale' = [stale EXCEPT ![t] = stale[t] \/ Current(t, k)] /\ seen' = seen
      BY <2>3 DEF QueryFails
    <3>2. stale' \in [Tabs -> BOOLEAN]
      BY <3>1 DEF Shape
    <3>3. \A u \in Tabs \ {t} : stale'[u] <=> stale[u]
      BY <3>1 DEF Shape
    <3>4. stale'[t] <=> stale[t] \/ latest[t] = k
      BY <3>1, Zenon DEF Shape, Current
    <3> QED
      BY <3>1, <3>2, <3>3, <3>4 DEF Shape
  <2> QED
    BY <2>1, <2>2, <2>3
<1>3. Shape'
  <2>2. faults' \in Nat
    BY DEF Shape, Fault
  <2>3. rq' \in [Tabs -> [Queries -> {Idle, Sent} \cup Ons]]
    BY <1>1 DEF Shape
  <2> QED
    BY <1>1, <1>2, <2>2, <2>3 DEF Shape, Ons
<1>4. ChangesLeft'
  BY <1>1 DEF ChangesLeft
<1>5. Fresh'
  <2> SUFFICES ASSUME NEW a \in Actions, stage[a] \in {"answered", "over"}
               PROVE  /\ SnapshotNew(a)'
                      /\ stage[a] = "over" => WillShow(by[a], a, rq[by[a]][latest[by[a]]])'
    BY <1>1 DEF Fresh
  <2>1. SnapshotNew(a)'
    BY <1>1 DEF Fresh, SnapshotNew
  <2>2. ASSUME stage[a] = "over" PROVE WillShow(by[a], a, rq[by[a]][latest[by[a]]])'
    <3>1. by[a] \in Tabs /\ latest[by[a]] \in Queries /\ WillShow(by[a], a, rq[by[a]][latest[by[a]]])
      BY <2>2, ViewsAssumption DEF Fresh, ViewsAssumption
    <3>2. CASE by[a] = t /\ latest[t] = k
      <4>1. rq[t][k].from >= own[a]
        BY <1>1, <3>1, <3>2 DEF WillShow, Idle, Sent
      <4>2. version \in Nat /\ own[a] \in 0 .. version
        BY DEF Shape
      <4>3. seen'[t] \in 0 .. version /\ (stale'[t] \/ seen'[t] >= rq[t][k].from)
        BY <1>2, <3>2
      <4>4. stale'[t] \/ seen'[t] >= own[a]
        BY <1>1, <4>1, <4>2, <4>3
      <4>5. rq'[t][k] = Idle /\ latest'[t] = k /\ own'[a] = own[a]
        BY <1>1, <3>2 DEF Shape
      <4> QED
        BY <3>2, <4>4, <4>5 DEF WillShow
    <3>3. CASE by[a] = t /\ latest[t] # k
      BY <1>1, <1>2, <3>1, <3>3 DEF WillShow, Shape, Idle, Sent
    <3>4. CASE by[a] # t
      BY <1>1, <1>2, <3>1, <3>4 DEF WillShow, Shape
    <3> QED
      BY <3>2, <3>3, <3>4
  <2> QED
    BY <2>1, <2>2
<1> QED
  BY <1>3, <1>4, <1>5

LEMMA ExpireKeepsInv ==
  ASSUME ViewsInv, Expire
  PROVE  ViewsInv'
BY DEF ViewsInv, Expire, incus, view, Shape, Ons, ChangesLeft, Fresh, SnapshotNew, WillShow

-------------------------------------------------------------------------------
(* Actions *)

\* Incus changes its containers: nothing that was read becomes newer.
LEMMA ChangeKeepsInv ==
  ASSUME ViewsInv, NEW a \in Actions, Change(a) \/ LateChange(a)
  PROVE  ViewsInv'
<1> USE DEF ViewsInv, Change, LateChange, view
<1>1. /\ version' = version + 1 /\ UNCHANGED <<cache, rq, latest, seen, stale, faults>>
      /\ \A b \in Actions : /\ stage'[b] = stage[b] \/ stage'[b] = "changed"
                            /\ stage'[b] # "changed" => own'[b] = own[b] /\ left'[b] = left[b]
  BY DEF Shape
<1>2. Ons \subseteq Ons'
  BY <1>1 DEF Ons, Shape
<1>3. Shape'
  <2>1. left' \in [Actions -> 0 .. 2] /\ own' \in [Actions -> 0 .. version'] /\ late' \subseteq Actions
    BY <1>1 DEF Shape, ChangesLeft
  <2>2. seen' \in [Tabs -> 0 .. version']
    BY <1>1 DEF Shape
  <2>3. version' \in Nat /\ stage' \in [Actions -> {"idle", "called", "changed", "answered", "over", "failed"}]
    BY <1>1 DEF Shape
  <2>4. cache' \in {Idle} \cup Ons' /\ rq' \in [Tabs -> [Queries -> {Idle, Sent} \cup Ons']]
    BY <1>1, <1>2 DEF Shape
  <2> QED
    BY <1>1, <2>1, <2>2, <2>3, <2>4 DEF Shape
<1>4. ChangesLeft'
  BY <1>1 DEF ChangesLeft
<1>5. Fresh'
  BY <1>1 DEF Fresh, SnapshotNew, WillShow
<1> QED
  BY <1>3, <1>4, <1>5

\* An action goes on: when it is answered, the snapshot has been dropped.
LEMMA ActionKeepsInv ==
  ASSUME ViewsInv, NEW a \in Actions,
         Act(a) \/ Waited(a) \/ WaitRunsOut(a) \/ ActFails(a) \/ StopFails(a)
  PROVE  ViewsInv'
<1> USE DEF ViewsInv, Act, Waited, WaitRunsOut, ActFails, StopFails, Stopping, Fault, view
<1>1. /\ UNCHANGED <<version, own, rq, latest, seen, stale>> /\ cache' \in {cache, Idle}
      /\ \A b \in Actions : /\ stage'[b] = "answered" => stage[b] = "answered" \/ cache' = Idle
                            /\ stage'[b] = "over" => stage[b] = "over"
  BY DEF Shape
<1>2. \A b \in Actions : b # a => stage'[b] = stage[b] /\ left'[b] = left[b]
  BY DEF Shape
<1>3. /\ stage'[a] \in {"called", "answered", "failed"} /\ left'[a] \in 0 .. 2
      /\ stage'[a] = "called" => left'[a] >= 1
  BY DEF Shape, ChangesLeft
<1>4. Shape'
  <2>1. /\ stage' \in [Actions -> {"idle", "called", "changed", "answered", "over", "failed"}]
        /\ left' \in [Actions -> 0 .. 2] /\ late' \subseteq Actions /\ faults' \in Nat
    BY DEF Shape, ChangesLeft
  <2> QED
    BY <1>1, <2>1 DEF Shape, Ons
<1>5. ChangesLeft'
  BY <1>2, <1>3 DEF ChangesLeft
<1>6. Fresh'
  BY <1>1 DEF Fresh, SnapshotNew, WillShow
<1> QED
  BY <1>4, <1>5, <1>6

\* The refresh after an action is sent once the snapshot was dropped.
LEMMA ActedKeepsInv ==
  ASSUME ViewsInv, NEW a \in Actions, Acted(a)
  PROVE  ViewsInv'
<1> USE DEF ViewsInv, Acted, Refresh, Queries
<1>1. by[a] \in Tabs
  BY ViewsAssumption DEF ViewsAssumption
<1>2. Shape'
  BY <1>1 DEF Shape, Ons
<1>3. ChangesLeft'
  BY DEF ChangesLeft, Shape
<1>4. Fresh'
  <2> SUFFICES ASSUME NEW b \in Actions
               PROVE  /\ stage'[b] \in {"answered", "over"} => SnapshotNew(b)
                      /\ stage'[b] = "over" => /\ latest'[by[b]] \in Queries
                                               /\ WillShow(by[b], b, rq[by[b]][latest[by[b]]])'
    BY DEF Fresh, SnapshotNew
  <2>1. by[b] \in Tabs
    BY ViewsAssumption DEF ViewsAssumption
  <2>2. stage'[b] \in {"answered", "over"} => stage[b] \in {"answered", "over"}
    BY DEF Shape
  <2>3. CASE by[b] = by[a]
    BY <2>1, <2>2, <2>3 DEF WillShow, Shape, Fresh
  <2>4. CASE by[b] # by[a]
    BY <1>1, <2>1, <2>2, <2>4 DEF WillShow, Shape, Fresh
  <2> QED
    BY <2>3, <2>4
<1> QED
  BY <1>2, <1>3, <1>4

LEMMA NextInv == ViewsInv /\ [Next]_vars => ViewsInv'
<1> SUFFICES ASSUME ViewsInv, [Next]_vars PROVE ViewsInv'
  OBVIOUS
<1>1. CASE UNCHANGED vars
  BY <1>1 DEF vars, incus, view, ViewsInv, Shape, Ons, ChangesLeft, Fresh, SnapshotNew, WillShow
<1>2. ASSUME NEW t \in Tabs, Poll(t) PROVE ViewsInv'
  BY <1>2, PollKeepsInv
<1>3. ASSUME NEW t \in Tabs, NEW k \in Queries, ListJails(t, k) \/ Answered(t, k) \/ QueryFails(t, k)
      PROVE  ViewsInv'
  BY <1>3, ListJailsKeepsInv, AnswerKeepsInv
<1>4. CASE Expire
  BY <1>4, ExpireKeepsInv
<1>5. ASSUME NEW a \in Actions, Change(a) \/ LateChange(a) PROVE ViewsInv'
  BY <1>5, ChangeKeepsInv
<1>6. ASSUME NEW a \in Actions, Act(a) \/ Waited(a) \/ WaitRunsOut(a) \/ ActFails(a) \/ StopFails(a)
      PROVE  ViewsInv'
  BY <1>6, ActionKeepsInv
<1>7. ASSUME NEW a \in Actions, Acted(a) PROVE ViewsInv'
  BY <1>7, ActedKeepsInv
<1> QED
  BY <1>1, <1>2, <1>3, <1>4, <1>5, <1>6, <1>7 DEF Next

LEMMA InvHolds == Spec => []ViewsInv
  BY InitInv, NextInv, PTL DEF Spec

-------------------------------------------------------------------------------
\* Types hold throughout; nobody sees a version that does not exist yet, and no
\* action makes more changes than it has.
THEOREM ViewsTypes == Spec => []TypeOK
  BY InvHolds, InvImplies, PTL

\* However its polls, its refreshes and the queries of other tabs share the
\* snapshot and overtake one another, a tab that waits for nothing shows what
\* its own actions changed in time.
THEOREM OwnWritesRead == Spec => []ReadsOwnWrites
  BY InvHolds, InvImplies, PTL
===============================================================================
