--------------------------- MODULE ImageBuildProofs ---------------------------
(***************************************************************************)
(* For any number of builds, slots and places in the queue: slots are      *)
(* counted exactly and the registry knows exactly the builds that          *)
(* succeeded (incus-image-builder.service.ts:206-532).                     *)
(***************************************************************************)
EXTENDS ImageBuild, FiniteSetTheorems, TLAPS

\* Types, but for the count of slots, whose range follows from Slots.
Shape ==
  /\ stage \in [Builds -> {"new", "preparing", "queued", "running", "recording", "leaving", "over"}]
  /\ status \in [Builds -> {"none", "queued", "running", "success", "failed"}]
  /\ error \in [Builds -> BOOLEAN] /\ lost \in [Builds -> BOOLEAN] /\ late \in [Builds -> BOOLEAN]
  /\ timer \in [Builds -> {"none", "limit", "grace", "hard"}]
  /\ child \in [Builds -> {"none", "alive", "exited", "closed"}]
  /\ code \in [Builds -> BOOLEAN]
  /\ records \in [Builds -> {0, 1}]
  /\ queue \in Seq(Builds)
  /\ crowded \in BOOLEAN

\* activeBuilds is the number of builds with a slot, all of them if one waits.
Slots ==
  /\ active = Cardinality(Occupying)
  /\ active <= MaxConcurrent
  /\ queue # <<>> => active = MaxConcurrent

\* The queue holds builds that wait, each once.
QueueWaits ==
  /\ \A i \in 1 .. Len(queue) : stage[queue[i]] = "queued"
  /\ \A i, j \in 1 .. Len(queue) : queue[i] = queue[j] => i = j

\* Unless calls overlapped, one prepares at most, and there is a place for it.
QueueFits ==
  ~crowded => /\ Len(queue) <= MaxQueued
              /\ \A b \in Preparing : Len(queue) < MaxQueued
              /\ \A b, c \in Preparing : b = c

\* Only a build that runs has a timer, and the outcome follows the stage.
TimersRun == \A b \in Builds : timer[b] # "none" => stage[b] = "running"

Outcomes ==
  \A b \in Builds :
    /\ stage[b] \in {"new", "preparing", "queued", "running"} =>
         records[b] = 0 /\ status[b] # "success" /\ ~late[b]
    /\ stage[b] \in {"new", "preparing", "queued"} => child[b] = "none" /\ ~error[b]
    /\ stage[b] = "recording" => records[b] = 0 /\ status[b] = "success"
    /\ stage[b] \in {"leaving", "over"} => (records[b] = 1 <=> status[b] = "success")
    /\ error[b] /\ ~late[b] => status[b] # "success"
    /\ ~lost[b] => ~late[b]

BuildInv == Shape /\ Slots /\ QueueWaits /\ QueueFits /\ TimersRun /\ Outcomes

-------------------------------------------------------------------------------
(* The invariant gives the properties *)

LEMMA Countable ==
  ASSUME NEW S, S \subseteq Builds
  PROVE  IsFiniteSet(S) /\ Cardinality(S) \in Nat
<1>1. IsFiniteSet(S)
  BY BuildAssumption, FS_Subset DEF BuildAssumption
<1> QED
  BY <1>1, FS_CardinalityType

LEMMA InvImplies == BuildInv => TypeOK /\ SlotsExact /\ RecordedIfSuccess
<1> SUFFICES ASSUME BuildInv PROVE TypeOK /\ SlotsExact /\ RecordedIfSuccess
  OBVIOUS
<1>1. active \in 0 .. MaxConcurrent
  <2>1. Occupying \subseteq Builds
    BY DEF Occupying
  <2> QED
    BY <2>1, Countable, BuildAssumption DEF BuildInv, Slots, BuildAssumption
<1>2. TypeOK
  BY <1>1 DEF BuildInv, Shape, TypeOK
<1>3. SlotsExact
  BY DEF BuildInv, Slots, QueueFits, SlotsExact
<1>4. RecordedIfSuccess
  <2> SUFFICES ASSUME NEW b \in Builds
               PROVE  /\ stage[b] = "over" => (records[b] = 1) = (status[b] = "success")
                      /\ error[b] /\ ~late[b] => status[b] # "success" /\ records[b] = 0
    BY DEF RecordedIfSuccess
  <2>1. records[b] \in {0, 1}
    BY DEF BuildInv, Shape
  <2> QED
    BY <2>1 DEF BuildInv, Shape, Outcomes
<1> QED
  BY <1>2, <1>3, <1>4

LEMMA InitInv == Init => BuildInv
<1> SUFFICES ASSUME Init PROVE BuildInv
  OBVIOUS
<1>1. Shape
  <2>1. error \in [Builds -> BOOLEAN] /\ lost \in [Builds -> BOOLEAN] /\ late \in [Builds -> BOOLEAN]
        /\ code \in [Builds -> BOOLEAN] /\ crowded \in BOOLEAN
    BY Zenon DEF Init
  <2>2. /\ stage \in [Builds -> {"new", "preparing", "queued", "running", "recording", "leaving", "over"}]
        /\ status \in [Builds -> {"none", "queued", "running", "success", "failed"}]
        /\ timer \in [Builds -> {"none", "limit", "grace", "hard"}]
        /\ child \in [Builds -> {"none", "alive", "exited", "closed"}]
        /\ records \in [Builds -> {0, 1}]
        /\ queue \in Seq(Builds)
    BY DEF Init
  <2> QED
    BY <2>1, <2>2 DEF Shape
<1>2. Slots
  <2>1. Occupying = {}
    BY DEF Init, Occupying
  <2> QED
    BY <2>1, FS_EmptySet, BuildAssumption DEF Init, Slots, BuildAssumption
<1>3. QueueWaits /\ QueueFits
  BY BuildAssumption DEF Init, QueueWaits, QueueFits, Preparing, BuildAssumption
<1>4. TimersRun /\ Outcomes
  BY DEF Init, TimersRun, Outcomes
<1> QED
  BY <1>1, <1>2, <1>3, <1>4 DEF BuildInv

-------------------------------------------------------------------------------
(* Each kind of step keeps it *)

\* A call passes the check of the queue, or is refused.
LEMMA CallKeepsInv ==
  ASSUME BuildInv, NEW b \in Builds, Admit(b) \/ Reject(b)
  PROVE  BuildInv'
<1> USE DEF BuildInv, Admit, Reject, Enters
<1>1. Shape'
  BY DEF Shape
<1>2. Slots'
  <2>1. Occupying' = Occupying
    BY DEF Occupying, Shape
  <2> QED
    BY <2>1 DEF Slots
<1>3. QueueWaits'
  BY DEF QueueWaits, Shape
<1>4. QueueFits'
  <2>1. CASE Admit(b)
    <3>1. Preparing' = Preparing \cup {b}
      BY <2>1 DEF Preparing, Shape
    <3>2. ~crowded' => ~crowded /\ Preparing = {}
      BY <2>1
    <3>3. Len(queue) \in Nat /\ Len(queue) < MaxQueued /\ queue' = queue
      BY <2>1 DEF Shape
    <3> QED
      BY <3>1, <3>2, <3>3, BuildAssumption DEF QueueFits, BuildAssumption
  <2>2. CASE Reject(b)
    <3>1. Preparing' \subseteq Preparing
      BY <2>2 DEF Preparing, Shape
    <3> QED
      BY <2>2, <3>1 DEF QueueFits
  <2> QED
    BY <2>1, <2>2
<1>5. TimersRun' /\ Outcomes'
  BY DEF TimersRun, Outcomes, Shape
<1> QED
  BY <1>1, <1>2, <1>3, <1>4, <1>5

\* A build takes a free slot.
LEMMA StartNowKeepsInv ==
  ASSUME BuildInv, NEW b \in Builds, StartNow(b)
  PROVE  BuildInv'
<1> USE DEF BuildInv, StartNow, Run, Enters, Reports
<1>1. Shape'
  BY DEF Shape
<1>2. Slots'
  <2>1. Occupying' = Occupying \cup {b} /\ b \notin Occupying /\ Occupying \subseteq Builds
    BY DEF Occupying, Shape
  <2>2. IsFiniteSet(Occupying) /\ Cardinality(Occupying) \in Nat
    BY <2>1, Countable
  <2>3. Cardinality(Occupying \cup {b}) = Cardinality(Occupying) + 1
    BY <2>1, <2>2, FS_AddElement
  <2> QED
    BY <2>1, <2>2, <2>3, BuildAssumption DEF Slots, BuildAssumption
<1>3. QueueWaits'
  BY DEF QueueWaits, Shape
<1>4. QueueFits'
  BY DEF QueueFits, Preparing, Shape
<1>5. TimersRun' /\ Outcomes'
  BY DEF TimersRun, Outcomes, Shape
<1> QED
  BY <1>1, <1>2, <1>3, <1>4, <1>5

\* A build waits: every slot is taken, and it had a place.
LEMMA EnqueueKeepsInv ==
  ASSUME BuildInv, NEW b \in Builds, Enqueue(b)
  PROVE  BuildInv'
<1> USE DEF BuildInv, Enqueue, Enters, Reports
<1>1. Shape'
  BY DEF Shape
<1>2. Slots'
  <2>1. Occupying' = Occupying /\ Occupying \subseteq Builds
    BY DEF Occupying, Shape
  <2>2. Cardinality(Occupying) \in Nat
    BY <2>1, Countable
  <2> QED
    BY <2>1, <2>2, BuildAssumption DEF Slots, BuildAssumption
<1>3. Len(queue') = Len(queue) + 1 /\ queue'[Len(queue) + 1] = b
      /\ \A i \in 1 .. Len(queue) : queue'[i] = queue[i]
  BY DEF Shape
<1>4. QueueWaits'
  <2>1. \A i \in 1 .. Len(queue) : queue[i] \in Builds /\ queue[i] # b
    BY DEF QueueWaits, Shape
  <2>2. Len(queue) \in Nat
    BY DEF Shape
  <2> QED
    BY <1>3, <2>1, <2>2 DEF QueueWaits, Shape
<1>5. QueueFits'
  <2>1. b \in Preparing /\ Preparing' = Preparing \ {b}
    BY DEF Preparing, Shape
  <2>2. Len(queue) \in Nat
    BY DEF Shape
  <2> QED
    BY <1>3, <2>1, <2>2, BuildAssumption DEF QueueFits, BuildAssumption
<1>6. TimersRun' /\ Outcomes'
  BY DEF TimersRun, Outcomes, Shape
<1> QED
  BY <1>1, <1>2, <1>4, <1>5, <1>6

\* Events, timers and the record of a build: it keeps its slot.
LEMMA RunningKeepsInv ==
  ASSUME BuildInv, NEW b \in Builds,
         \/ Exit(b) \/ Close(b) \/ SpawnFails(b) \/ SpawnThrows(b) \/ LogFails(b)
         \/ Fires(b) \/ Record(b) \/ RecordFails(b)
  PROVE  BuildInv'
<1> USE DEF BuildInv, Exit, Close, SpawnFails, SpawnThrows, LogFails, Fires, LimitFires, GraceFires, HardFires,
            Record, RecordFails, Finish, Unsettled, Enters, Reports
<1>1. Shape'
  <2>1. CASE Record(b)
    BY <2>1 DEF Shape, Outcomes
  <2>2. CASE Exit(b)
    BY <2>2 DEF Shape
  <2>3. CASE Close(b)
    BY <2>3 DEF Shape
  <2>4. CASE SpawnFails(b)
    <3>1. PICK c \in {"exited", "closed"} : child' = [child EXCEPT ![b] = c]
      BY <2>4
    <3> QED
      BY <2>4, <3>1 DEF Shape
  <2>6. CASE SpawnThrows(b)
    BY <2>6 DEF Shape
  <2>7. CASE LogFails(b)
    <3>1. error' \in [Builds -> BOOLEAN] /\ lost' \in [Builds -> BOOLEAN]
      BY <2>7 DEF Shape
    <3>2. late' \in [Builds -> BOOLEAN]
      <4>1. late' = [late EXCEPT ![b] = ~(stage[b] = "running")]
        BY <2>7
      <4>2. late' \in {[late EXCEPT ![b] = TRUE], [late EXCEPT ![b] = FALSE]}
        BY <4>1, Zenon
      <4> QED
        BY <4>2 DEF Shape
    <3>3. UNCHANGED <<child, code, records, queue, crowded>>
      BY <2>7
    <3>4. \/ UNCHANGED <<stage, status, timer>>
          \/ /\ stage' = [stage EXCEPT ![b] = "leaving"] /\ status' = [status EXCEPT ![b] = "failed"]
             /\ timer' = [timer EXCEPT ![b] = "none"]
      BY <2>7
    <3> QED
      BY <3>1, <3>2, <3>3, <3>4 DEF Shape
  <2>5. CASE Fires(b) \/ RecordFails(b)
    BY <2>5 DEF Shape
  <2> QED
    BY <2>1, <2>2, <2>3, <2>4, <2>5, <2>6, <2>7
<1>2. UNCHANGED <<queue, active, crowded>>
  OBVIOUS
<1>3. /\ stage'[b] \in {"running", "recording", "leaving"} <=> stage[b] \in {"running", "recording", "leaving"}
      /\ stage[b] \notin {"running", "recording", "leaving"} => stage'[b] = stage[b]
      /\ \A c \in Builds \ {b} : stage'[c] = stage[c]
  BY DEF Shape, TimersRun
<1>4. Slots'
  <2>1. Occupying' = Occupying
    BY <1>3 DEF Occupying
  <2> QED
    BY <1>2, <2>1 DEF Slots
<1>5. QueueWaits'
  <2>1. \A c \in Builds : stage[c] = "queued" => stage'[c] = "queued"
    BY <1>3
  <2> QED
    BY <1>2, <2>1 DEF QueueWaits, Shape
<1>6. QueueFits'
  <2>1. Preparing' = Preparing
    BY <1>3 DEF Preparing
  <2> QED
    BY <1>2, <2>1 DEF QueueFits
<1>7. TimersRun'
  BY DEF TimersRun, Shape
<1>8. Outcomes'
  <2>1. CASE Record(b) \/ RecordFails(b)
    BY <2>1 DEF Outcomes, Shape
  <2>2. CASE Exit(b) \/ Close(b)
    BY <2>2 DEF Outcomes, Shape
  <2>3. CASE SpawnFails(b) \/ SpawnThrows(b)
    BY <2>3 DEF Outcomes, Shape
  <2>5. CASE LogFails(b)
    <3>1. UNCHANGED <<child, records>> /\ child[b] # "none" /\ ~lost[b]
      BY <2>5
    <3>2. \A c \in Builds : /\ lost'[c] = IF c = b THEN TRUE ELSE lost[c]
                            /\ error'[c] = IF c = b THEN TRUE ELSE error[c]
      BY <2>5 DEF Shape
    <3>4. /\ \A c \in Builds : c # b => late'[c] = late[c]
          /\ late'[b] <=> stage[b] # "running"
      BY <2>5 DEF Shape
    <3>3. \/ stage[b] # "running" /\ UNCHANGED <<stage, status>>
          \/ /\ stage[b] = "running"
             /\ stage' = [stage EXCEPT ![b] = "leaving"] /\ status' = [status EXCEPT ![b] = "failed"]
      BY <2>5
    <3> QED
      BY <3>1, <3>2, <3>3, <3>4 DEF Outcomes, Shape
  <2>4. CASE Fires(b)
    BY <2>4 DEF Outcomes, Shape, TimersRun
  <2> QED
    BY <2>1, <2>2, <2>3, <2>4, <2>5
<1> QED
  BY <1>1, <1>4, <1>5, <1>6, <1>7, <1>8

\* A slot is given up, or handed to the build that has waited longest.
LEMMA LeaveKeepsInv ==
  ASSUME BuildInv, NEW b \in Builds, Leave(b)
  PROVE  BuildInv'
<1> USE DEF BuildInv, Leave, Enters, Reports
<1>1. b \in Occupying /\ Occupying \subseteq Builds /\ IsFiniteSet(Occupying)
      /\ Cardinality(Occupying) \in Nat
  <2>1. b \in Occupying /\ Occupying \subseteq Builds
    BY DEF Occupying
  <2> QED
    BY <2>1, Countable
<1>2. CASE queue = <<>>
  <2>1. Shape'
    BY <1>2 DEF Shape
  <2>2. Slots'
    <3>1. Occupying' = Occupying \ {b}
      BY <1>2 DEF Occupying, Shape
    <3>2. Cardinality(Occupying \ {b}) = Cardinality(Occupying) - 1
      BY <1>1, FS_RemoveElement
    <3> QED
      BY <1>1, <1>2, <3>1, <3>2, BuildAssumption DEF Slots, BuildAssumption
  <2>3. QueueWaits' /\ QueueFits'
    BY <1>2 DEF QueueWaits, QueueFits, Preparing, Shape
  <2>4. TimersRun' /\ Outcomes'
    BY <1>2 DEF TimersRun, Outcomes, Shape
  <2> QED
    BY <2>1, <2>2, <2>3, <2>4
<1>3. CASE queue # <<>>
  <2> DEFINE next == Head(queue)
  <2>1. /\ next \in Builds /\ stage[next] = "queued" /\ next # b
        /\ Len(queue) \in Nat \ {0} /\ next = queue[1]
    BY <1>3 DEF Shape, QueueWaits
  <2>2. /\ stage' = [stage EXCEPT ![b] = "over", ![next] = "running"]
        /\ status' = [status EXCEPT ![next] = "running"]
        /\ child' = [child EXCEPT ![next] = "alive"]
        /\ timer' = [timer EXCEPT ![next] = "limit"]
        /\ queue' = Tail(queue)
        /\ UNCHANGED <<active, lost, error, code, records, crowded, late>>
    BY <1>3
  <2>10. queue \in Seq(Builds) /\ QueueWaits
    BY DEF Shape
  <2> HIDE DEF next, Leave
  <2>3. Shape'
    <3>1. queue' \in Seq(Builds)
      BY <1>3, <2>2, <2>10
    <3> QED
      BY <2>1, <2>2, <3>1 DEF Shape
  <2>4. Len(queue') = Len(queue) - 1 /\ \A i \in 1 .. Len(queue') : queue'[i] = queue[i + 1]
    BY <1>3, <2>1, <2>2 DEF Shape
  <2>5. Slots'
    <3>1. Occupying' = (Occupying \ {b}) \cup {next} /\ next \notin Occupying \ {b}
      BY <2>1, <2>2 DEF Occupying, Shape
    <3>2. Cardinality(Occupying \ {b}) = Cardinality(Occupying) - 1 /\ IsFiniteSet(Occupying \ {b})
      BY <1>1, FS_RemoveElement
    <3>3. Cardinality((Occupying \ {b}) \cup {next}) = Cardinality(Occupying \ {b}) + 1
      BY <3>1, <3>2, FS_AddElement
    <3>4. Cardinality(Occupying') = Cardinality(Occupying)
      BY <1>1, <3>1, <3>2, <3>3
    <3> QED
      BY <1>3, <2>2, <3>4 DEF Slots
  <2>6. QueueWaits'
    <3>1. \A i \in 1 .. Len(queue') : queue'[i] \in Builds /\ queue'[i] # next /\ stage[queue'[i]] = "queued"
      <4> HIDE DEF BuildInv
      <4>1. \A i \in 1 .. Len(queue') : i + 1 \in 1 .. Len(queue) /\ i + 1 # 1
        BY <2>1, <2>4
      <4> QED
        BY <2>1, <2>4, <2>10, <4>1 DEF QueueWaits
    <3>2. \A i \in 1 .. Len(queue') : stage'[queue'[i]] = "queued"
      <4> TAKE i \in 1 .. Len(queue')
      <4>1. queue'[i] # b
        BY <1>1, <3>1 DEF Occupying
      <4> QED
        BY <2>2, <3>1, <4>1 DEF Shape
    <3>3. \A i, j \in 1 .. Len(queue') : queue'[i] = queue'[j] => i = j
      <4> HIDE DEF BuildInv
      <4>1. \A i \in 1 .. Len(queue') : i \in Nat /\ i + 1 \in 1 .. Len(queue)
        BY <2>1, <2>4
      <4> QED
        BY <2>4, <2>10, <4>1 DEF QueueWaits
    <3> QED
      BY <3>2, <3>3 DEF QueueWaits
  <2>7. QueueFits'
    <3>1. Preparing' \subseteq Preparing
      BY <2>1, <2>2 DEF Preparing, Shape
    <3> QED
      BY <2>1, <2>2, <2>4, <3>1, BuildAssumption DEF QueueFits, BuildAssumption
  <2>8. TimersRun'
    BY <1>1, <2>1, <2>2 DEF TimersRun, Shape, Occupying, Leave
  <2>9. Outcomes'
    BY <2>1, <2>2 DEF Outcomes, Shape, Leave
  <2> QED
    BY <2>3, <2>5, <2>6, <2>7, <2>8, <2>9
<1> QED
  BY <1>2, <1>3

LEMMA NextInv == BuildInv /\ [Next]_vars => BuildInv'
<1> SUFFICES ASSUME BuildInv, [Next]_vars PROVE BuildInv'
  OBVIOUS
<1>1. CASE UNCHANGED vars
  BY <1>1 DEF vars, BuildInv, Shape, Slots, Occupying, QueueWaits, QueueFits, Preparing, TimersRun, Outcomes
<1>2. ASSUME NEW b \in Builds, Admit(b) \/ Reject(b) PROVE BuildInv'
  BY <1>2, CallKeepsInv
<1>3. ASSUME NEW b \in Builds, Start(b) PROVE BuildInv'
  BY <1>3, StartNowKeepsInv, EnqueueKeepsInv DEF Start
<1>4. ASSUME NEW b \in Builds, Exit(b) \/ Close(b) \/ SpawnFails(b) \/ SpawnThrows(b) \/ LogFails(b) \/ Fires(b)
      PROVE  BuildInv'
  BY <1>4, RunningKeepsInv
<1>5. ASSUME NEW b \in Builds, Ends(b) PROVE BuildInv'
  BY <1>5, RunningKeepsInv, LeaveKeepsInv DEF Ends
<1> QED
  BY <1>1, <1>2, <1>3, <1>4, <1>5 DEF Next

LEMMA InvHolds == Spec => []BuildInv
  BY InitInv, NextInv, PTL DEF Spec

-------------------------------------------------------------------------------
\* Types hold throughout, and no more builds run than there are slots.
THEOREM BuildTypes == Spec => []TypeOK
  BY InvHolds, InvImplies, PTL

\* However builds end, activeBuilds is the number of builds with a slot, none
\* waits beside a free one, and the queue is bounded but for calls that overlap.
THEOREM SlotsCounted == Spec => []SlotsExact
  BY InvHolds, InvImplies, PTL

\* A build that is over has its record exactly if it is told to have succeeded,
\* and one that timed out or lost its log before it was settled never is.
THEOREM SuccessRecorded == Spec => []RecordedIfSuccess
  BY InvHolds, InvImplies, PTL
===============================================================================
