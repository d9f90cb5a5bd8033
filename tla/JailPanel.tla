------------------------------- MODULE JailPanel -------------------------------
(***************************************************************************)
(* The details panel of one container in App.vue: which container is       *)
(* selected, the loads of its detail, the edits, and the two kinds of      *)
(* background job it starts in incus-exec.service.ts and polls: "brew"     *)
(* (installHomebrewFormula) and "root" (runPrivilegedCommand).  A job is   *)
(* its number; its call, its poller and its server side go by that number. *)
(***************************************************************************)
EXTENDS Naturals, Sequences, SequencesExt

CONSTANTS
  Jails,     \* the containers
  None,      \* no container
  Kinds,     \* the kinds of job, from {"brew", "root"}
  Capacity,  \* MAX_JOBS, of each kind
  MaxStarts, \* bound: jobs started
  Budgets    \* bounds, one set of them for a behaviour: jobs started, clicks
             \* on "Details", changes of a container, failed calls and restarts

ASSUME PanelAssumption ==
  /\ None \notin Jails /\ Kinds \subseteq {"brew", "root"}
  /\ Capacity \in Nat \ {0}
  /\ MaxStarts \in Nat
  /\ Budgets \subseteq [starts : 0 .. MaxStarts, toggles : Nat, edits : Nat, faults : Nat]

VARIABLES
  sel,       \* detailsJailName
  detail,    \* jailDetail: the container and the version of it on the screen, or none
  request,   \* requestId
  loading,   \* detailLoading
  loads,     \* detail queries under way: [id, jail, version], version the one at the call
  edits,     \* containers with a change under way
  version,   \* server: version[j] of the configuration of container j
  kind, jail, \* of each job
  call,      \* the client's side of each job
  name,      \* the container whose panel reports the job
  handle,    \* per kind: the poller the panel would stop, 0 for none
  result,    \* per kind: the job whose outcome or error is shown, 0 for none
  jobs,      \* server, per kind: the jobs it knows, oldest first
  work,      \* server: the background work of each job
  budget,    \* what is left of the bounds
  failed,    \* history: the last load failed, or a change since
  overlap    \* history: kinds with two calls under way at once

panel  == <<sel, detail, request, loading, loads, edits, version, failed>>
poller == <<call, name, handle, result>>
job    == <<kind, jail>>
server == <<jobs, work>>
vars   == <<panel, poller, job, server, budget, overlap>>

Ids     == 1 .. MaxStarts
NoDetail == [jail |-> None, version |-> 0]
Load(id, j) == [id |-> id, jail |-> j, version |-> IF j = None THEN 0 ELSE version'[j]]

\* The template shows the fields of the selected container, its jobs' among
\* them, once a detail is loaded; after a failed load another's is still there.
FieldsShown == sel # None /\ ~loading /\ detail # NoDetail

Init ==
  /\ sel = None /\ detail = NoDetail /\ request = 0 /\ loading = FALSE
  /\ loads = {} /\ edits = {} /\ version = [j \in Jails |-> 1]
  /\ kind = [i \in Ids |-> "none"] /\ jail = [i \in Ids |-> None]
  /\ call = [i \in Ids |-> "idle"] /\ name = [i \in Ids |-> None]
  /\ handle = [k \in Kinds |-> 0]
  /\ result = [k \in Kinds |-> 0]
  /\ jobs = [k \in Kinds |-> <<>>] /\ work = [i \in Ids |-> "none"]
  /\ budget \in Budgets
  /\ failed = FALSE /\ overlap = {}

Spends(what) == budget[what] > 0 /\ budget' = [budget EXCEPT ![what] = @ - 1]
Fault == Spends("faults")

-------------------------------------------------------------------------------
(* The detail *)

\* loadJailDetail
Loads(j) ==
  /\ request' = request + 1 /\ loading' = TRUE /\ failed' = FALSE
  /\ loads' = loads \cup {Load(request + 1, j)}

\* stopInstallPolling and stopPrivilegedPolling of the kinds ks, applied to
\* the pollers c.
Stop(c, ks) == [i \in Ids |-> IF i \in {handle[k] : k \in ks} THEN "stopped" ELSE c[i]]

\* Slips: the handles are kept; the handles are cleared, the pollers go on.
SelectionKeepsHandles ==
  /\ call' = Stop(call, Kinds) /\ UNCHANGED handle
  /\ result' = [k \in Kinds |-> 0]

SelectionOnlyForgets ==
  /\ handle' = [k \in Kinds |-> 0] /\ UNCHANGED call
  /\ result' = [k \in Kinds |-> 0]

\* onSelectionChange
SelectionChanges ==
  /\ call' = Stop(call, Kinds) /\ handle' = [k \in Kinds |-> 0]
  /\ result' = [k \in Kinds |-> 0]

\* toggleJailDetails
Toggle(j) ==
  /\ Spends("toggles")
  /\ SelectionChanges /\ UNCHANGED version
  /\ \/ /\ sel = j /\ sel' = None /\ detail' = NoDetail
        /\ request' = request + 1 /\ loading' = FALSE
        /\ UNCHANGED <<loads, failed>>
     \/ /\ sel # j /\ sel' = j /\ Loads(j)
        /\ UNCHANGED detail
  /\ UNCHANGED <<edits, name, job, server, overlap>>

\* Slip: the answer of any load of the selected container is taken.
CurrentByName(l) == l.jail = sel

Current(l) == l.id = request /\ l.jail = sel

\* The answer arrives, with a version the container had since the call; it
\* is dropped unless it is the last load's.
Loaded ==
  \E l \in loads :
    /\ l.jail # None /\ loads' = loads \ {l}
    /\ \E v \in l.version .. version[l.jail] :
         detail' = IF Current(l) THEN [jail |-> l.jail, version |-> v] ELSE detail
    /\ loading' = (loading /\ l.id # request)
    /\ UNCHANGED <<sel, request, edits, version, failed, poller, job, server, budget, overlap>>

\* The query fails; that of no container always does.
LoadFails ==
  \E l \in loads :
    /\ loads' = loads \ {l}
    /\ \/ Fault
       \/ l.jail = None /\ UNCHANGED budget
    /\ failed' = (failed \/ Current(l))
    /\ loading' = (loading /\ l.id # request)
    /\ UNCHANGED <<sel, detail, request, edits, version, poller, job, server, overlap>>

\* saveJailCpuLimit and the other edits, and the change they make.
Edit ==
  /\ FieldsShown /\ Spends("edits")
  /\ edits' = edits \cup {sel}
  /\ UNCHANGED <<sel, detail, request, loading, loads, version, failed, poller, job, server, overlap>>

Changed ==
  \E j \in edits :
    /\ edits' = edits \ {j}
    /\ \/ /\ version' = [version EXCEPT ![j] = @ + 1] /\ UNCHANGED budget
          /\ Loads(sel)
       \/ /\ Fault /\ version' \in {version, [version EXCEPT ![j] = @ + 1]}
          /\ failed' = TRUE /\ UNCHANGED <<request, loading, loads>>
    /\ UNCHANGED <<sel, detail, poller, job, server, overlap>>

-------------------------------------------------------------------------------
(* Jobs: the panel *)

Calling(k) == {i \in Ids : kind[i] = k /\ call[i] = "calling"}

\* installHomebrewFormula, runPrivilegedCommand until the awaited mutation.
\* The button is disabled while busy, the Enter key of the field is not.
Start(k) ==
  \E i \in Ids :
    /\ FieldsShown /\ Spends("starts")
    /\ call[i] = "idle" /\ \A n \in 1 .. (i - 1) : call[n] # "idle"
    /\ call' = [Stop(call, {k}) EXCEPT ![i] = "calling"]
    /\ handle' = [handle EXCEPT ![k] = 0]
    /\ result' = [result EXCEPT ![k] = 0]
    /\ kind' = [kind EXCEPT ![i] = k] /\ jail' = [jail EXCEPT ![i] = sel]
    /\ overlap' = IF Calling(k) # {} THEN overlap \cup {k} ELSE overlap
    /\ UNCHANGED <<panel, name, server>>

\* The mutation is answered: the poller starts, for the container the job
\* runs in ("brew") or for the one selected now ("root").
Started(i) ==
  /\ call[i] = "calling" /\ work[i] # "none"
  /\ call' = [call EXCEPT ![i] = "waiting"]
  /\ name' = [name EXCEPT ![i] = IF kind[i] = "brew" THEN jail[i] ELSE sel]
  /\ handle' = [handle EXCEPT ![kind[i]] = i]
  /\ UNCHANGED <<panel, result, job, server, budget, overlap>>

\* result once the job i has met an error: "brew" shows it as installError,
\* "root" in the detailError it shares with the loads and edits.
ErrorOf(i) == IF kind[i] = "brew" THEN [result EXCEPT !["brew"] = i] ELSE result

\* The mutation fails, whether or not the server has begun the job; the error
\* is shown whatever container is selected by then.
StartFails(i) ==
  /\ call[i] = "calling" /\ Fault
  /\ call' = [call EXCEPT ![i] = "failed"]
  /\ result' = ErrorOf(i)
  /\ UNCHANGED <<panel, name, handle, job, server, overlap>>

\* The poller's timer; it asks once at a time.
Polls(i) ==
  /\ call[i] = "waiting" /\ call' = [call EXCEPT ![i] = "asked"]
  /\ UNCHANGED <<panel, name, handle, result, job, server, budget, overlap>>

Known(i) == i \in ToSet(jobs[kind[i]])

\* Slip: the selection is not looked at.
ReportsAnywhere(i) == call[i] = "asked"

\* The checks of the poll: it is still active and its container selected.
Reports(i) == call[i] = "asked" /\ sel = name[i]

\* A poll is answered.  With a final status the panel stops its poller, which
\* may be another one, and shows the outcome.
Polled(i) ==
  /\ call[i] = "asked"
  /\ LET k == kind[i]
         over == Known(i) /\ work[i] = "done"
         again == [call EXCEPT ![i] = "waiting"]
     IN \/ /\ ~(Reports(i) /\ over)
           /\ call' = again
           /\ UNCHANGED <<handle, result>>
        \/ /\ Reports(i) /\ over
           /\ call' = Stop(again, {k}) /\ handle' = [handle EXCEPT ![k] = 0]
           /\ result' = [result EXCEPT ![k] = i]
  /\ UNCHANGED <<panel, name, job, server, budget, overlap>>

\* A poll fails: the panel stops its poller and shows the error.
PollFails(i) ==
  /\ call[i] = "asked" /\ Fault
  /\ LET k == kind[i]
         again == [call EXCEPT ![i] = "waiting"]
     IN \/ /\ sel # name[i] /\ call' = again
           /\ UNCHANGED <<handle, result>>
        \/ /\ sel = name[i] /\ call' = Stop(again, {k})
           /\ handle' = [handle EXCEPT ![k] = 0]
           /\ result' = ErrorOf(i)
  /\ UNCHANGED <<panel, name, job, server, overlap>>

-------------------------------------------------------------------------------
(* Jobs: the server *)

\* pruneJobs: the oldest entries make room, running or not.
Pruned(s) == IF Len(s) >= Capacity THEN SubSeq(s, Len(s) - Capacity + 2, Len(s)) ELSE s

\* startHomebrewInstall, startPrivilegedCommand
Begins(i) ==
  /\ call[i] = "calling" /\ work[i] = "none"
  /\ work' = [work EXCEPT ![i] = "running"]
  /\ jobs' = [jobs EXCEPT ![kind[i]] = Append(Pruned(@), i)]
  /\ UNCHANGED <<panel, poller, job, budget, overlap>>

\* runHomebrewInstall, runPrivilegedCommand end and set the status: an entry
\* that was pruned is there again.
Ends(i) ==
  /\ work[i] = "running" /\ work' = [work EXCEPT ![i] = "done"]
  /\ jobs' = IF Known(i) THEN jobs ELSE [jobs EXCEPT ![kind[i]] = Append(@, i)]
  /\ UNCHANGED <<panel, poller, job, budget, overlap>>

\* The API restarts and knows no job.
Restart ==
  /\ Fault
  /\ jobs' = [k \in Kinds |-> <<>>]
  /\ work' = [i \in Ids |-> IF work[i] = "running" THEN "lost" ELSE work[i]]
  /\ UNCHANGED <<panel, poller, job, overlap>>

-------------------------------------------------------------------------------
Next ==
  \/ \E j \in Jails : Toggle(j)
  \/ Loaded \/ LoadFails \/ Edit \/ Changed
  \/ \E k \in Kinds : Start(k)
  \/ \E i \in Ids : Started(i) \/ StartFails(i) \/ Polls(i) \/ Polled(i) \/ PollFails(i)
                    \/ Begins(i) \/ Ends(i)
  \/ Restart

Spec == Init /\ [][Next]_vars

-------------------------------------------------------------------------------
Details == [jail : Jails \cup {None}, version : Nat]

\* Type correctness; the panel's handle is always that of a live poller, and
\* the server keeps each job once.
TypeOK ==
  /\ sel \in Jails \cup {None} /\ detail \in Details
  /\ loading \in BOOLEAN /\ edits \subseteq Jails
  /\ \A l \in loads : l.id \in 1 .. request /\ [jail |-> l.jail, version |-> l.version] \in Details
  /\ \A i \in Ids : /\ call[i] \in {"idle", "calling", "waiting", "asked", "stopped", "failed"}
                    /\ name[i] \in Jails \cup {None}
  /\ \A k \in Kinds : /\ handle[k] # 0 => call[handle[k]] \in {"waiting", "asked"}
                      /\ Len(jobs[k]) <= MaxStarts /\ IsInjective(jobs[k])

\* What a poll brought to the screen, an outcome or an error, is that of a job
\* in the selected container, however the selection changed while the job was
\* called, polled and done.  Violated for "root": the container is read after
\* the awaited mutation.  Not the error of a job that could not be started: the
\* catch of the mutation writes it without a look at the selection.
OwnResult ==
  \A k \in Kinds :
    FieldsShown /\ result[k] # 0 /\ call[result[k]] # "failed" => jail[result[k]] = sel

\* Once nothing is under way, the panel shows its container as it is on the
\* server, in whatever order the answers came; after a failure it may show
\* an older version or, since it is not cleared, another container.
ShowsTruth ==
  sel # None /\ loads = {} /\ edits = {} /\ ~failed
    => detail = [jail |-> sel, version |-> version[sel]]

\* A job the panel watches is dropped only for its outcome, another start,
\* another selection or a failed call; except after two starts overlapped,
\* whose first poller nothing stops and which then stops the others.
WatchedStep ==
  \A k \in Kinds \ overlap :
    handle[k] # 0 /\ handle'[k] # handle[k] =>
      \/ result'[k] = handle[k]
      \/ sel' # sel
      \/ Calling(k)' # {}
      \/ budget'.faults < budget.faults

Watched == [][WatchedStep]_vars
===============================================================================
