------------------------------ MODULE ImageBuild -------------------------------
(***************************************************************************)
(* IncusImageBuilderService: builds are admitted, queued, run as detached  *)
(* distrobuilder processes, at most MAX_CONCURRENT_BUILDS at a time, and   *)
(* end once, by whatever comes first: the exit of the process, an error of *)
(* spawn or of the log, or the last of three timers.  An error of the log  *)
(* may also come later, for the settlement itself writes to it.            *)
(*                                                                         *)
(* Every step is a section of JavaScript between two awaits or an event    *)
(* callback.  The process is the environment: it exits when it likes, with *)
(* any code, signalled or not, or never.                                   *)
(***************************************************************************)
EXTENDS Naturals, FiniteSets, Sequences

CONSTANTS
  Builds,        \* calls of startBuild
  MaxConcurrent, \* MAX_CONCURRENT_BUILDS
  MaxQueued      \* MAX_QUEUED_BUILDS

ASSUME BuildAssumption ==
  /\ IsFiniteSet(Builds)
  /\ MaxConcurrent \in Nat \ {0} /\ MaxQueued \in Nat

VARIABLES
  stage,    \* stage[b]: new, preparing, queued, running, recording, leaving, over
  status,   \* status[b]: what getStatus answers; none before b is in the map
  error,    \* error[b]: forcedError is set
  timer,    \* timer[b]: the timer that runs: none, limit, grace, hard
  lost,     \* lost[b]: the log has had its "error" event
  child,    \* child[b]: the process: none, alive, exited (its close event is due), closed
  code,     \* code[b]: exited with 0
  records,  \* records[b]: registry updates made for b
  queue,    \* builds that wait, oldest first
  active,   \* activeBuilds
  crowded,  \* history: a call passed the queue check while another one was preparing
  late      \* history: late[b], the log of b failed when b was settled already

vars == <<stage, status, error, lost, timer, child, code, records, queue, active, crowded, late>>

Init ==
  /\ stage = [b \in Builds |-> "new"] /\ status = [b \in Builds |-> "none"]
  /\ error = [b \in Builds |-> FALSE] /\ timer = [b \in Builds |-> "none"]
  /\ child = [b \in Builds |-> "none"] /\ code = [b \in Builds |-> FALSE]
  /\ records = [b \in Builds |-> 0]
  /\ lost = [b \in Builds |-> FALSE] /\ late = [b \in Builds |-> FALSE]
  /\ queue = <<>> /\ active = 0 /\ crowded = FALSE

Enters(b, s) == stage' = [stage EXCEPT ![b] = s]
Reports(b, s) == status' = [status EXCEPT ![b] = s]

\* finish() has not run yet.
Unsettled(b) == stage[b] = "running"
Preparing == {b \in Builds : stage[b] = "preparing"}
Occupying == {b \in Builds : stage[b] \in {"running", "recording", "leaving"}}

-------------------------------------------------------------------------------
(* startBuild and enqueue *)

\* The queue's length is checked first; pruning, directories and files are awaited after that.
Admit(b) ==
  /\ stage[b] = "new"
  /\ Len(queue) < MaxQueued
  /\ Enters(b, "preparing")
  /\ crowded' = (crowded \/ Preparing # {})
  /\ UNCHANGED <<status, error, lost, timer, child, code, records, queue, active, late>>

\* Preparing fails, or the queue is full: the caller gets an error and there is no build.
Reject(b) ==
  /\ stage[b] = "preparing" \/ (stage[b] = "new" /\ Len(queue) >= MaxQueued)
  /\ Enters(b, "over")
  /\ UNCHANGED <<status, error, lost, timer, child, code, records, queue, active, crowded, late>>

\* runBuild up to its first await: the process is spawned and the 60 minutes run.
Run(b) ==
  /\ Enters(b, "running") /\ Reports(b, "running")
  /\ child' = [child EXCEPT ![b] = "alive"]
  /\ timer' = [timer EXCEPT ![b] = "limit"]

\* A slip in StartNow: "<=" for "<".
StartOneMore(b) ==
  /\ stage[b] = "preparing" /\ active <= MaxConcurrent
  /\ Run(b)
  /\ active' = active + 1
  /\ UNCHANGED <<lost, error, code, records, queue, crowded, late>>

\* The build enters the map and starts at once, if a slot is free ...
StartNow(b) ==
  /\ stage[b] = "preparing" /\ active < MaxConcurrent
  /\ Run(b)
  /\ active' = active + 1
  /\ UNCHANGED <<lost, error, code, records, queue, crowded, late>>

\* ... or waits.
Enqueue(b) ==
  /\ stage[b] = "preparing" /\ active >= MaxConcurrent
  /\ Enters(b, "queued") /\ Reports(b, "queued")
  /\ queue' = Append(queue, b)
  /\ UNCHANGED <<lost, error, timer, child, code, records, active, crowded, late>>

-------------------------------------------------------------------------------
(* runBuild *)

\* finish(code, error): timers cleared; success is reported before it is recorded.
Finish(b, ok, failed) ==
  /\ timer' = [timer EXCEPT ![b] = "none"]
  /\ IF ok /\ ~failed THEN Enters(b, "recording") /\ Reports(b, "success")
                      ELSE Enters(b, "leaving") /\ Reports(b, "failed")

\* The process ends, with 0 or not.
Exit(b) ==
  /\ child[b] = "alive"
  /\ child' = [child EXCEPT ![b] = "exited"]
  /\ \E ok \in BOOLEAN : code' = [code EXCEPT ![b] = ok]
  /\ UNCHANGED <<lost, stage, status, error, timer, records, queue, active, crowded, late>>

\* Its "close" event, which settles the build unless something else has.
Close(b) ==
  /\ child[b] = "exited"
  /\ child' = [child EXCEPT ![b] = "closed"]
  /\ IF Unsettled(b) THEN Finish(b, code[b], error[b]) ELSE UNCHANGED <<stage, status, timer>>
  /\ UNCHANGED <<lost, error, code, records, queue, active, crowded, late>>

\* The program cannot be spawned: "error", with or without a later "close".
SpawnFails(b) ==
  /\ Unsettled(b) /\ child[b] = "alive" /\ timer[b] = "limit"
  /\ \E c \in {"exited", "closed"} : child' = [child EXCEPT ![b] = c]
  /\ Finish(b, FALSE, TRUE)
  /\ UNCHANGED <<lost, error, code, records, queue, active, crowded, late>>

\* Or spawn throws: runBuild rejects, the build keeps its status and its scratch directory.
SpawnThrows(b) ==
  /\ Unsettled(b) /\ child[b] = "alive" /\ timer[b] = "limit"
  /\ child' = [child EXCEPT ![b] = "none"] /\ timer' = [timer EXCEPT ![b] = "none"]
  /\ Enters(b, "leaving")
  /\ UNCHANGED <<lost, status, error, code, records, queue, active, crowded, late>>

\* The log cannot be written, maybe what finish() writes to it at the end: the
\* group is killed, and a build that is not settled is, without its close event.
LogFails(b) ==
  /\ child[b] # "none" /\ ~lost[b]
  /\ lost' = [lost EXCEPT ![b] = TRUE]
  /\ error' = [error EXCEPT ![b] = TRUE]
  /\ late' = [late EXCEPT ![b] = ~Unsettled(b)]
  /\ IF Unsettled(b) THEN Finish(b, FALSE, TRUE) ELSE UNCHANGED <<stage, status, timer>>
  /\ UNCHANGED <<child, code, records, queue, active, crowded>>

\* BUILD_TIMEOUT_MS: TERM.
LimitFires(b) ==
  /\ timer[b] = "limit"
  /\ error' = [error EXCEPT ![b] = TRUE]
  /\ timer' = [timer EXCEPT ![b] = "grace"]
  /\ UNCHANGED <<lost, stage, status, child, code, records, queue, active, crowded, late>>

\* A slip in GraceFires: no timer guards against a process that never closes.
KillOnly(b) ==
  /\ timer[b] = "grace"
  /\ timer' = [timer EXCEPT ![b] = "none"]
  /\ UNCHANGED <<lost, stage, status, error, child, code, records, queue, active, crowded, late>>

\* BUILD_KILL_GRACE_MS later: KILL.
GraceFires(b) ==
  /\ timer[b] = "grace"
  /\ timer' = [timer EXCEPT ![b] = "hard"]
  /\ UNCHANGED <<lost, stage, status, error, child, code, records, queue, active, crowded, late>>

\* BUILD_HARD_SETTLE_MS later: settled without a close event.
HardFires(b) ==
  /\ timer[b] = "hard"
  /\ Finish(b, FALSE, TRUE)
  /\ UNCHANGED <<lost, error, child, code, records, queue, active, crowded, late>>

\* recordImageBuilt ends, and with it the promise of the build ...
Record(b) ==
  /\ stage[b] = "recording"
  /\ records' = [records EXCEPT ![b] = @ + 1]
  /\ Enters(b, "leaving")
  /\ UNCHANGED <<status, error, lost, timer, child, code, queue, active, crowded, late>>

\* A slip in RecordFails: the success stands.
RecordFailsUnseen(b) ==
  /\ stage[b] = "recording"
  /\ Enters(b, "leaving")
  /\ UNCHANGED <<status, error, lost, timer, child, code, records, queue, active, crowded, late>>

\* ... or throws, and the success is taken back.
RecordFails(b) ==
  /\ stage[b] = "recording"
  /\ Enters(b, "leaving") /\ Reports(b, "failed")
  /\ UNCHANGED <<lost, error, timer, child, code, records, queue, active, crowded, late>>

\* A slip in Leave: the build that takes the slot over is not counted.
LeaveUncounted(b) ==
  /\ stage[b] = "leaving"
  /\ active' = active - 1
  /\ IF queue = <<>>
       THEN Enters(b, "over") /\ UNCHANGED <<status, timer, child, queue>>
       ELSE LET next == Head(queue) IN
            /\ stage' = [stage EXCEPT ![b] = "over", ![next] = "running"]
            /\ Reports(next, "running")
            /\ child' = [child EXCEPT ![next] = "alive"]
            /\ timer' = [timer EXCEPT ![next] = "limit"]
            /\ queue' = Tail(queue)
  /\ UNCHANGED <<lost, error, code, records, crowded, late>>

\* The scratch directory is removed, unless spawn threw, the slot is given up
\* and the oldest waiting build takes it, in one go.
Leave(b) ==
  /\ stage[b] = "leaving"
  /\ IF queue = <<>>
       THEN Enters(b, "over") /\ active' = active - 1 /\ UNCHANGED <<status, timer, child, queue>>
       ELSE LET next == Head(queue) IN
            /\ stage' = [stage EXCEPT ![b] = "over", ![next] = "running"]
            /\ Reports(next, "running")
            /\ child' = [child EXCEPT ![next] = "alive"]
            /\ timer' = [timer EXCEPT ![next] = "limit"]
            /\ queue' = Tail(queue)
            /\ UNCHANGED active
  /\ UNCHANGED <<lost, error, code, records, crowded, late>>

Start(b) == StartNow(b) \/ Enqueue(b)
Fires(b) == LimitFires(b) \/ GraceFires(b) \/ HardFires(b)
Ends(b)  == Record(b) \/ RecordFails(b) \/ Leave(b)

Next ==
  \E b \in Builds :
    \/ Admit(b) \/ Reject(b) \/ Start(b)
    \/ Exit(b) \/ Close(b) \/ SpawnFails(b) \/ SpawnThrows(b) \/ LogFails(b)
    \/ Fires(b) \/ Ends(b)

Spec == Init /\ [][Next]_vars

\* Timers fire and file operations end; a process need not exit.
FairSpec == Spec /\ \A b \in Builds : WF_vars(Fires(b)) /\ WF_vars(Ends(b))

-------------------------------------------------------------------------------
(* Properties *)

TypeOK ==
  /\ stage \in [Builds -> {"new", "preparing", "queued", "running", "recording", "leaving", "over"}]
  /\ status \in [Builds -> {"none", "queued", "running", "success", "failed"}]
  /\ error \in [Builds -> BOOLEAN] /\ lost \in [Builds -> BOOLEAN] /\ late \in [Builds -> BOOLEAN]
  /\ timer \in [Builds -> {"none", "limit", "grace", "hard"}]
  /\ child \in [Builds -> {"none", "alive", "exited", "closed"}]
  /\ code \in [Builds -> BOOLEAN]
  /\ records \in [Builds -> {0, 1}]
  /\ queue \in Seq(Builds)
  /\ active \in 0..MaxConcurrent
  /\ crowded \in BOOLEAN

\* activeBuilds counts the builds that hold a slot, whichever way they end and
\* however late the close event of an abandoned process comes, and builds wait
\* only while every slot is taken, so nothing overtakes the queue; which exceeds
\* MAX_QUEUED_BUILDS only when calls overlapped between the check of its length
\* and the enqueueing.
SlotsExact ==
  /\ active = Cardinality(Occupying)
  /\ queue # <<>> => active = MaxConcurrent
  /\ Len(queue) <= MaxQueued \/ crowded

\* The registry has a record of a build that is over exactly if it succeeded.
\* One that ran into its time limit, or whose log failed before it was settled,
\* is never a success, even if its process then exits with 0.  What the code
\* does not promise: the last lines of the log are written by the settlement,
\* and a build that loses them is a recorded success all the same.
RecordedIfSuccess ==
  \A b \in Builds :
    /\ stage[b] = "over" => (records[b] = 1) = (status[b] = "success")
    /\ error[b] /\ ~late[b] => status[b] # "success" /\ records[b] = 0

\* A process that never closes cannot keep its slot, or anyone in the queue:
\* every build that was accepted is over some day.
BuildsEnd == \A b \in Builds : stage[b] \in {"queued", "running"} ~> stage[b] = "over"
===============================================================================
