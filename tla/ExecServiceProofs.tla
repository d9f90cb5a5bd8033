--------------------------- MODULE ExecServiceProofs ---------------------------
(***************************************************************************)
(* What IncusExecService and the two parts of the web UI that call it      *)
(* guarantee.  For any containers, any capacity of the job maps and any    *)
(* budgets of the user and of faults: the panel of App.vue (1225-1505)     *)
(* shows its own container, its own job's outcome, and keeps watching what *)
(* it watches.  For any number of terminals, any limit and any number of   *)
(* faults: the accounts of the sessions (incus-exec.service.ts:60-177) are *)
(* exact.                                                                  *)
(***************************************************************************)
EXTENDS JailPanel, ExecSessions, FiniteSetTheorems, TLAPS

SeqThm == INSTANCE SequenceTheorems

-------------------------------------------------------------------------------
(* The inductive invariant *)

Polling == {"waiting", "asked"}

PanelShape ==
  /\ sel \in Jails \cup {None} /\ detail \in Details
  /\ request \in Nat /\ loading \in BOOLEAN /\ failed \in BOOLEAN
  /\ loads \subseteq [id : 1 .. request, jail : Jails \cup {None}, version : Nat]
  /\ edits \subseteq Jails /\ version \in [Jails -> Nat]
  /\ budget \in [starts : Nat, toggles : Nat, edits : Nat, faults : Nat]

JobShape ==
  /\ kind \in [Ids -> Kinds \cup {"none"}] /\ jail \in [Ids -> Jails \cup {None}]
  /\ call \in [Ids -> {"idle", "calling", "waiting", "asked", "stopped", "failed"}]
  /\ name \in [Ids -> Jails \cup {None}]
  /\ handle \in [Kinds -> Ids \cup {0}] /\ result \in [Kinds -> Ids \cup {0}]
  /\ overlap \subseteq Kinds

\* The load sent last is for the selected container, and no change has
\* overtaken it unless one failed; either it is under way or the panel shows
\* what it brought.
LastLoad ==
  /\ \A l \in loads : /\ l.jail # None => l.version <= version[l.jail]
                      /\ l.id = request => l.jail = sel
                      /\ l.id = request /\ sel # None /\ ~failed => l.version = version[sel]
  /\ sel # None /\ ~failed => \/ \E l \in loads : l.id = request
                              \/ detail = [jail |-> sel, version |-> version[sel]]

\* A handle is that of a poller of its kind.
Handles ==
  /\ \A i \in Ids : call[i] # "idle" => kind[i] \in Kinds
  /\ \A k \in Kinds : handle[k] # 0 => kind[handle[k]] = k /\ call[handle[k]] \in Polling

\* The pollers of "brew" report to the container of their job.
Outcomes ==
  /\ \A i \in Ids : kind[i] = "brew" /\ call[i] \in Polling => name[i] = jail[i]
  /\ \A k \in Kinds : result[k] # 0 =>
       /\ call[result[k]] # "idle"
       /\ k # "root" /\ call[result[k]] # "failed" => jail[result[k]] = sel

\* Until two calls of kind k overlap: one call at a time, none while a job is
\* watched, and no poller but the watched one.
Alone(k) ==
  /\ \A i \in Calling(k), n \in Calling(k) : i = n
  /\ handle[k] # 0 => Calling(k) = {}
  /\ \A i \in Ids : kind[i] = k /\ call[i] \in Polling => i = handle[k]

OneAtATime == \A k \in Kinds \ overlap : Alone(k)

\* The server: each list names a job that began, and names it once.
Lists(js, w) ==
  \A k \in Kinds : /\ js[k] \in Seq(Ids) /\ IsInjective(js[k])
                   /\ \A i \in ToSet(js[k]) : w[i] # "none"

ServerInv ==
  /\ work \in [Ids -> {"none", "running", "done", "lost"}]
  /\ DOMAIN jobs = Kinds /\ Lists(jobs, work)

PanelInv == PanelShape /\ LastLoad
JobInv   == JobShape /\ Handles /\ Outcomes /\ OneAtATime
Inv      == PanelInv /\ JobInv /\ ServerInv
-------------------------------------------------------------------------------
(* The lists of the server *)

LEMMA AppendKeepsInjective ==
  ASSUME NEW s \in Seq(Ids), IsInjective(s), NEW i \in Ids, i \notin ToSet(s)
  PROVE  /\ Append(s, i) \in Seq(Ids) /\ IsInjective(Append(s, i))
         /\ ToSet(Append(s, i)) = ToSet(s) \cup {i}
<1>1. /\ Append(s, i) \in Seq(Ids) /\ Len(Append(s, i)) = Len(s) + 1
      /\ Len(s) \in Nat /\ DOMAIN s = 1 .. Len(s)
      /\ \A n \in 1 .. Len(s) : Append(s, i)[n] = s[n]
      /\ Append(s, i)[Len(s) + 1] = i
  OBVIOUS
<1>2. DOMAIN Append(s, i) = 1 .. Len(s) + 1
  BY <1>1
<1>3. IsInjective(Append(s, i))
  <2> SUFFICES ASSUME NEW m \in 1 .. Len(s) + 1, NEW n \in 1 .. Len(s) + 1,
                      Append(s, i)[m] = Append(s, i)[n]
               PROVE  m = n
    BY <1>2 DEF IsInjective
  <2>1. \A q \in 1 .. Len(s) : s[q] # i
    BY <1>1 DEF ToSet
  <2> QED
    BY <1>1, <2>1 DEF IsInjective
<1>4. ToSet(Append(s, i)) = ToSet(s) \cup {i}
  BY <1>1, <1>2 DEF ToSet
<1> QED
  BY <1>1, <1>3, <1>4

\* pruneJobs keeps jobs, the newest ones.
LEMMA PrunedKeepsInjective ==
  ASSUME NEW s \in Seq(Ids), IsInjective(s)
  PROVE  Pruned(s) \in Seq(Ids) /\ IsInjective(Pruned(s)) /\ ToSet(Pruned(s)) \subseteq ToSet(s)
<1>1. CASE Len(s) < Capacity
  BY <1>1, PanelAssumption DEF Pruned, PanelAssumption
<1>2. CASE Len(s) >= Capacity
  <2> DEFINE m == Len(s) - Capacity + 2
             p == SubSeq(s, m, Len(s))
  <2>1. m \in Int /\ Len(s) \in Nat /\ m >= 2 /\ DOMAIN s = 1 .. Len(s)
    BY <1>2, PanelAssumption DEF PanelAssumption
  <2>2. \A n \in m .. Len(s) : n \in 1 .. Len(s) /\ s[n] \in Ids
    BY <2>1
  <2>3. /\ p \in Seq(Ids) /\ Len(p) = IF m <= Len(s) THEN Len(s) - m + 1 ELSE 0
        /\ \A n \in 1 .. Len(s) - m + 1 : p[n] = s[m + n - 1]
    BY <2>1, <2>2, SeqThm!SubSeqProperties
  <2> HIDE DEF m, p
  <2>4. DOMAIN p \subseteq 1 .. Len(s) - m + 1
    BY <2>1, <2>3
  <2>5. \A n \in DOMAIN p : m + n - 1 \in DOMAIN s /\ p[n] = s[m + n - 1] /\ n \in Nat
    BY <2>1, <2>3, <2>4
  <2>6. IsInjective(p)
    BY <2>1, <2>5 DEF IsInjective
  <2>7. ToSet(p) \subseteq ToSet(s)
    BY <2>5 DEF ToSet
  <2> QED
    BY <1>2, <2>3, <2>6, <2>7 DEF Pruned, p, m
<1> QED
  BY <1>1, <1>2, PanelAssumption DEF PanelAssumption

LEMMA InjectiveIsShort ==
  ASSUME NEW s \in Seq(Ids), IsInjective(s)
  PROVE  Len(s) <= MaxStarts
<1>1. Len(s) \in Nat /\ s \in [1 .. Len(s) -> Ids] /\ MaxStarts \in Nat
  BY PanelAssumption DEF PanelAssumption
<1>2. /\ IsFiniteSet(Ids) /\ Cardinality(Ids) = MaxStarts
      /\ IsFiniteSet(1 .. Len(s)) /\ Cardinality(1 .. Len(s)) = Len(s)
  <2>1. 1 \in Int /\ MaxStarts \in Int /\ Len(s) \in Int
    BY <1>1
  <2>2. /\ IsFiniteSet(1 .. MaxStarts)
        /\ Cardinality(1 .. MaxStarts) = IF 1 > MaxStarts THEN 0 ELSE MaxStarts - 1 + 1
    BY <2>1, FS_Interval
  <2>3. /\ IsFiniteSet(1 .. Len(s))
        /\ Cardinality(1 .. Len(s)) = IF 1 > Len(s) THEN 0 ELSE Len(s) - 1 + 1
    BY <2>1, FS_Interval
  <2> QED
    BY <1>1, <2>2, <2>3 DEF Ids
<1>3. SUFFICES ASSUME Len(s) > MaxStarts PROVE FALSE
  BY <1>1
<1>4. PICK m, n \in 1 .. Len(s) : m # n /\ s[m] = s[n]
  BY <1>1, <1>2, <1>3, FS_PigeonHole
<1> QED
  BY <1>1, <1>4 DEF IsInjective

-------------------------------------------------------------------------------
(* The invariant gives the properties *)

LEMMA InvImplies == Inv => TypeOK /\ ShowsTruth
<1> SUFFICES ASSUME Inv PROVE TypeOK /\ ShowsTruth
  OBVIOUS
<1> USE DEF Inv, PanelInv, JobInv, ServerInv
<1>1. \A l \in loads : l.id \in 1 .. request /\ [jail |-> l.jail, version |-> l.version] \in Details
  BY DEF PanelShape, Details
<1>2. \A k \in Kinds : /\ handle[k] # 0 => call[handle[k]] \in {"waiting", "asked"}
                       /\ Len(jobs[k]) <= MaxStarts /\ IsInjective(jobs[k])
  BY InjectiveIsShort DEF Handles, Polling, Lists
<1>3. TypeOK
  BY <1>1, <1>2 DEF TypeOK, PanelShape, JobShape
<1>4. ShowsTruth
  BY DEF ShowsTruth, LastLoad
<1> QED
  BY <1>3, <1>4

LEMMA InitInv == Init => Inv
<1> SUFFICES ASSUME Init PROVE Inv
  OBVIOUS
<1> USE DEF Init
<1>1. budget \in [starts : Nat, toggles : Nat, edits : Nat, faults : Nat]
  BY PanelAssumption DEF PanelAssumption
<1>2. PanelInv
  BY <1>1, PanelAssumption DEF PanelAssumption, PanelInv, PanelShape, LastLoad, NoDetail, Details
<1>3. JobInv
  BY PanelAssumption DEF PanelAssumption, JobInv, JobShape, Handles, Outcomes, OneAtATime, Alone, Calling, Polling, Ids
<1>4. ServerInv
  <2>1. <<>> \in Seq(Ids) /\ IsInjective(<<>>) /\ ToSet(<<>>) = {}
    BY DEF IsInjective, ToSet
  <2> QED
    BY <2>1 DEF ServerInv, Lists
<1> QED
  BY <1>2, <1>3, <1>4 DEF Inv


-------------------------------------------------------------------------------
(* The detail *)

\* A new load for the container that is selected from now on.
LEMMA LoadsKeepsInv ==
  ASSUME PanelInv, NEW j \in Jails \cup {None}, Loads(j), sel' = j,
         version' \in [Jails -> Nat], \A i \in Jails : version'[i] >= version[i]
  PROVE  /\ request' \in Nat /\ loading' \in BOOLEAN /\ failed' \in BOOLEAN
         /\ loads' \subseteq [id : 1 .. request', jail : Jails \cup {None}, version : Nat]
         /\ LastLoad'
<1> USE DEF PanelInv, Loads
<1>1. request' = request + 1 /\ request \in Nat
  BY DEF PanelShape
<1> DEFINE new == Load(request + 1, j)
<1>2. /\ new \in [id : 1 .. request', jail : Jails \cup {None}, version : Nat]
      /\ new.id = request' /\ new.jail = sel' /\ (j # None => new.version = version'[j])
  BY <1>1 DEF Load
<1>3. loads' = loads \cup {new}
  OBVIOUS
<1> HIDE DEF new
<1>4. \A l \in loads : /\ l \in [id : 1 .. request', jail : Jails \cup {None}, version : Nat]
                       /\ l.id < request'
  BY <1>1 DEF PanelShape
<1>5. \A l \in loads : l.jail # None => l.version <= version'[l.jail]
  <2> SUFFICES ASSUME NEW l \in loads, l.jail # None PROVE l.version <= version'[l.jail]
    OBVIOUS
  <2>1. /\ l.jail \in Jails /\ l.version \in Nat /\ l.version <= version[l.jail]
        /\ version[l.jail] \in Nat /\ version'[l.jail] \in Nat
    BY DEF PanelShape, LastLoad
  <2> QED
    BY <2>1
<1>6. \A l \in loads' : /\ l.jail # None => l.version <= version'[l.jail]
                        /\ l.id = request' => l = new
  BY <1>1, <1>2, <1>3, <1>4, <1>5
<1>7. LastLoad'
  BY <1>2, <1>3, <1>6 DEF LastLoad
<1>8. loads' \subseteq [id : 1 .. request', jail : Jails \cup {None}, version : Nat]
  BY <1>2, <1>3, <1>4
<1>9. loading' \in BOOLEAN /\ failed' \in BOOLEAN
  BY Zenon
<1>10. request' \in Nat
  BY <1>1
<1> QED
  BY <1>7, <1>8, <1>9, <1>10

LEMMA ToggleKeepsPanel ==
  ASSUME PanelInv, NEW j \in Jails, Toggle(j)
  PROVE  PanelInv' /\ sel' # sel
<1> USE DEF PanelInv, Toggle
<1>1. /\ version' = version /\ edits' = edits
      /\ budget' \in [starts : Nat, toggles : Nat, edits : Nat, faults : Nat]
  BY DEF PanelShape, Spends
<1>2. CASE sel = j /\ sel' = None /\ detail' = NoDetail /\ request' = request + 1 /\ loading' = FALSE
           /\ UNCHANGED <<loads, failed>>
  <2>1. \A l \in loads : l.id # request'
    BY <1>2 DEF PanelShape
  <2>2. loads' \subseteq [id : 1 .. request', jail : Jails \cup {None}, version : Nat]
    BY <1>2 DEF PanelShape
  <2>3. loading' \in BOOLEAN /\ failed' \in BOOLEAN
    BY <1>2, Zenon DEF PanelShape
  <2>4. request' \in Nat /\ detail' \in Details
    BY <1>2 DEF PanelShape, NoDetail, Details
  <2>5. PanelShape'
    BY <1>1, <1>2, <2>2, <2>3, <2>4 DEF PanelShape
  <2>6. LastLoad'
    BY <1>1, <1>2, <2>1 DEF LastLoad
  <2> QED
    BY <1>2, <2>5, <2>6, PanelAssumption DEF PanelAssumption
<1>3. CASE sel # j /\ sel' = j /\ Loads(j) /\ detail' = detail
  <2>1. version' \in [Jails -> Nat] /\ \A i \in Jails : version'[i] >= version[i]
    BY <1>1 DEF PanelShape
  <2> QED
    BY <1>1, <1>3, <2>1, LoadsKeepsInv DEF PanelShape
<1> QED
  BY <1>2, <1>3, PanelAssumption DEF PanelAssumption

LEMMA LoadedKeepsPanel ==
  ASSUME PanelInv, Loaded
  PROVE  PanelInv'
<1> USE DEF PanelInv
<1>1. PICK l \in loads : /\ l.jail # None /\ loads' = loads \ {l}
                         /\ \E v \in l.version .. version[l.jail] :
                              detail' = IF Current(l) THEN [jail |-> l.jail, version |-> v] ELSE detail
                         /\ loading' = (loading /\ l.id # request)
                         /\ UNCHANGED <<sel, request, edits, version, failed, budget>>
  BY DEF Loaded
<1>2. PICK v \in l.version .. version[l.jail] :
             detail' = IF Current(l) THEN [jail |-> l.jail, version |-> v] ELSE detail
  BY <1>1
<1>3. /\ l.jail \in Jails /\ l.version \in Nat /\ version[l.jail] \in Nat /\ v \in Nat
      /\ (Current(l) /\ ~failed => v = version[sel])
  BY <1>1 DEF PanelShape, LastLoad, Current
<1>4. detail' \in Details
  BY <1>2, <1>3 DEF PanelShape, Details
<1>5. loading' \in BOOLEAN
  BY <1>1, Zenon
<1>6. PanelShape'
  BY <1>1, <1>4, <1>5 DEF PanelShape
<1>7. LastLoad'
  BY <1>1, <1>2, <1>3 DEF LastLoad, Current
<1> QED
  BY <1>6, <1>7

LEMMA LoadFailsKeepsPanel ==
  ASSUME PanelInv, LoadFails
  PROVE  PanelInv'
<1> USE DEF PanelInv
<1>1. PICK l \in loads : /\ loads' = loads \ {l} /\ (Fault \/ UNCHANGED budget)
                         /\ failed' = (failed \/ Current(l))
                         /\ loading' = (loading /\ l.id # request)
                         /\ UNCHANGED <<sel, detail, request, edits, version>>
  BY DEF LoadFails
<1>2. loading' \in BOOLEAN /\ failed' \in BOOLEAN
  BY <1>1, Zenon
<1>3. budget' \in [starts : Nat, toggles : Nat, edits : Nat, faults : Nat]
  BY <1>1 DEF PanelShape, Fault, Spends
<1>4. (failed' <=> failed \/ Current(l)) /\ (l.id = request => Current(l))
  BY <1>1, Zenon DEF LastLoad, Current
<1>5. PanelShape'
  BY <1>1, <1>2, <1>3 DEF PanelShape
<1>6. LastLoad'
  BY <1>1, <1>4 DEF LastLoad
<1> QED
  BY <1>5, <1>6

LEMMA EditKeepsPanel ==
  ASSUME PanelInv, Edit
  PROVE  PanelInv'
BY DEF PanelInv, Edit, FieldsShown, PanelShape, LastLoad, Spends

LEMMA ChangedKeepsPanel ==
  ASSUME PanelInv, Changed
  PROVE  PanelInv'
<1> USE DEF PanelInv
<1>1. PICK j \in edits :
        /\ edits' = edits \ {j}
        /\ \/ version' = [version EXCEPT ![j] = @ + 1] /\ UNCHANGED budget /\ Loads(sel)
           \/ /\ Fault /\ version' \in {version, [version EXCEPT ![j] = @ + 1]}
              /\ failed' = TRUE /\ UNCHANGED <<request, loading, loads>>
        /\ UNCHANGED <<sel, detail>>
  BY DEF Changed
<1>2. version' \in [Jails -> Nat] /\ \A i \in Jails : version'[i] >= version[i]
  BY <1>1 DEF PanelShape
<1>3. CASE UNCHANGED budget /\ Loads(sel)
  <2>1. sel \in Jails \cup {None}
    BY DEF PanelShape
  <2> QED
    BY <1>1, <1>2, <1>3, <2>1, LoadsKeepsInv DEF PanelShape
<1>4. CASE Fault /\ failed' = TRUE /\ UNCHANGED <<request, loading, loads>>
  <2>1. budget' \in [starts : Nat, toggles : Nat, edits : Nat, faults : Nat]
    BY <1>4 DEF PanelShape, Fault, Spends
  <2>2. PanelShape'
    BY <1>1, <1>2, <1>4, <2>1 DEF PanelShape
  <2>3. \A l \in loads : l.jail # None => l.version <= version'[l.jail]
    <3> SUFFICES ASSUME NEW l \in loads, l.jail # None PROVE l.version <= version'[l.jail]
      OBVIOUS
    <3>1. /\ l.jail \in Jails /\ l.version \in Nat /\ l.version <= version[l.jail]
          /\ version[l.jail] \in Nat /\ version'[l.jail] \in Nat
      BY <1>2 DEF PanelShape, LastLoad
    <3> QED
      BY <1>2, <3>1
  <2>4. LastLoad'
    BY <1>1, <1>4, <2>3 DEF LastLoad
  <2> QED
    BY <2>2, <2>4
<1> QED
  BY <1>1, <1>3, <1>4


-------------------------------------------------------------------------------
(* The jobs: the panel *)

LEMMA NoJobIsZero == 0 \notin Ids
  BY DEF Ids

LEMMA ToggleKeepsJobs ==
  ASSUME PanelInv, JobInv, NEW j \in Jails, Toggle(j)
  PROVE  JobInv'
<1> USE DEF JobInv, Toggle, SelectionChanges, Stop, job
<1>1. /\ \A i \in Ids : call'[i] = IF \E k \in Kinds : handle[k] = i THEN "stopped" ELSE call[i]
      /\ call' \in [Ids -> {"idle", "calling", "waiting", "asked", "stopped", "failed"}]
      /\ UNCHANGED <<kind, jail, name, overlap>>
      /\ handle' = [k \in Kinds |-> 0] /\ result' = [k \in Kinds |-> 0]
  BY DEF JobShape
<1>2. JobShape'
  BY <1>1 DEF JobShape
<1>3. Handles'
  BY <1>1, NoJobIsZero DEF Handles, Polling
<1>4. Outcomes'
  BY <1>1 DEF Outcomes, Polling
<1>5. OneAtATime'
  BY <1>1 DEF OneAtATime, Alone, Calling, Handles, Polling
<1> QED
  BY <1>2, <1>3, <1>4, <1>5

LEMMA StartKeepsJobs ==
  ASSUME JobInv, NEW k \in Kinds, Start(k), sel \in Jails \cup {None}
  PROVE  JobInv' /\ Calling(k)' # {} /\ \A q \in Kinds \ {k} : handle'[q] = handle[q]
<1> USE DEF JobInv
<1>1. PICK i \in Ids :
        /\ call[i] = "idle"
        /\ call' = [Stop(call, {k}) EXCEPT ![i] = "calling"]
        /\ handle' = [handle EXCEPT ![k] = 0] /\ result' = [result EXCEPT ![k] = 0]
        /\ kind' = [kind EXCEPT ![i] = k] /\ jail' = [jail EXCEPT ![i] = sel]
        /\ overlap' = IF Calling(k) # {} THEN overlap \cup {k} ELSE overlap
        /\ UNCHANGED <<sel, name>>
  BY DEF Start, panel
<1>2. /\ \A n \in Ids : call'[n] = IF n = i THEN "calling" ELSE IF n = handle[k] THEN "stopped" ELSE call[n]
      /\ call' \in [Ids -> {"idle", "calling", "waiting", "asked", "stopped", "failed"}]
  BY <1>1 DEF JobShape, Stop
<1>3. /\ \A n \in Ids : kind'[n] = (IF n = i THEN k ELSE kind[n]) /\ (n # i => jail'[n] = jail[n])
      /\ \A q \in Kinds : /\ handle'[q] = IF q = k THEN 0 ELSE handle[q]
                          /\ result'[q] = IF q = k THEN 0 ELSE result[q]
  BY <1>1 DEF JobShape
<1>4. JobShape'
  BY <1>1, <1>2 DEF JobShape
<1>5. Handles'
  <2>1. \A q \in Kinds : handle[q] \in Ids \cup {0} /\ (handle[q] # 0 => handle[q] # i)
    BY <1>1 DEF Handles, JobShape, Polling
  <2> QED
    BY <1>2, <1>3, <2>1, NoJobIsZero DEF Handles
<1>6. Outcomes'
  <2>1. \A q \in Kinds : result[q] \in Ids \cup {0} /\ (result[q] # 0 => result[q] # i)
    BY <1>1 DEF Outcomes, JobShape
  <2>2. \A n \in Ids : kind'[n] = "brew" /\ call'[n] \in Polling => name'[n] = jail'[n]
    <3> SUFFICES ASSUME NEW n \in Ids, kind'[n] = "brew", call'[n] \in Polling
                 PROVE  name'[n] = jail'[n]
      OBVIOUS
    <3>1. n # i /\ call'[n] = call[n]
      BY <1>2 DEF Polling
    <3>2. kind[n] = "brew" /\ jail'[n] = jail[n] /\ name'[n] = name[n]
      BY <1>1, <1>3, <3>1
    <3> QED
      BY <3>1, <3>2 DEF Outcomes
  <2>3. \A q \in Kinds : result'[q] # 0 =>
          result'[q] = result[q] /\ result[q] \in Ids /\ result[q] # i
    BY <1>3, <2>1
  <2>4. \A q \in Kinds : result'[q] # 0 =>
          /\ call'[result'[q]] # "idle" /\ jail'[result'[q]] = jail[result[q]]
          /\ call'[result'[q]] # "failed" => call[result[q]] # "failed"
    <3>1. \A n \in Ids : n # i => /\ call[n] # "idle" => call'[n] # "idle"
                                  /\ call'[n] # "failed" => call[n] # "failed"
      <4>1. handle[k] # 0 => call[handle[k]] # "failed"
        BY <1>1 DEF Handles, Polling
      <4> QED
        BY <1>2, <4>1, NoJobIsZero
    <3>2. \A q \in Kinds : result[q] # 0 => call[result[q]] # "idle"
      BY DEF Outcomes
    <3> QED
      BY <1>3, <2>3, <3>1, <3>2
  <2>5. sel' = sel
    BY <1>1
  <2> QED
    BY <2>2, <2>3, <2>4, <2>5 DEF Outcomes
<1>7. OneAtATime'
  <2> SUFFICES ASSUME NEW q \in Kinds \ overlap' PROVE Alone(q)'
    BY DEF OneAtATime
  <2>1. Alone(q) /\ (q = k => Calling(k) = {})
    BY <1>1 DEF OneAtATime
  <2>2. CASE q = k
    BY <1>2, <1>3, <2>1, <2>2 DEF Alone, Calling, Polling
  <2>3. CASE q # k
    <3>1. \A n \in Ids : kind'[n] = q <=> kind[n] = q /\ n # i
      BY <1>1, <1>3, <2>3 DEF Handles
    <3>2. \A n \in Ids : kind[n] = q => n # handle[k]
      BY <2>3, NoJobIsZero DEF Handles
    <3>3. handle'[q] = handle[q] /\ \A n \in Ids : kind'[n] = q => kind[n] = q /\ call'[n] = call[n]
      BY <1>2, <1>3, <2>3, <3>1, <3>2
    <3> QED
      BY <2>1, <3>3 DEF Alone, Calling
  <2> QED
    BY <2>2, <2>3
<1> QED
  BY <1>2, <1>3, <1>4, <1>5, <1>6, <1>7 DEF Calling

LEMMA StartedKeepsJobs ==
  ASSUME JobInv, NEW i \in Ids, Started(i), sel \in Jails \cup {None}
  PROVE  JobInv'
<1> USE DEF JobInv
<1>1. /\ kind[i] \in Kinds /\ call[i] = "calling"
      /\ call' = [call EXCEPT ![i] = "waiting"] /\ handle' = [handle EXCEPT ![kind[i]] = i]
      /\ name' = [name EXCEPT ![i] = IF kind[i] = "brew" THEN jail[i] ELSE sel]
      /\ UNCHANGED <<sel, kind, jail, overlap, result>>
  BY DEF Handles, panel, job, Started
<1>2. JobShape'
  BY <1>1 DEF JobShape
<1>3. Handles'
  BY <1>1 DEF Handles, JobShape, Polling
<1>4. Outcomes'
  BY <1>1 DEF Outcomes, JobShape, Polling
<1>5. OneAtATime'
  <2> SUFFICES ASSUME NEW q \in Kinds \ overlap PROVE Alone(q)'
    BY <1>1 DEF OneAtATime
  <2>1. Alone(q)
    BY DEF OneAtATime
  <2>2. CASE q = kind[i]
    BY <1>1, <2>1, <2>2, NoJobIsZero DEF Alone, Calling, JobShape, Polling
  <2>3. CASE q # kind[i]
    BY <1>1, <2>1, <2>3 DEF Alone, Calling, JobShape, Polling
  <2> QED
    BY <2>2, <2>3
<1> QED
  BY <1>2, <1>3, <1>4, <1>5

\* An error is shown for the job that met it.
LEMMA ErrorShown ==
  ASSUME JobInv, NEW i \in Ids, kind[i] \in Kinds
  PROVE  /\ ErrorOf(i) \in [Kinds -> Ids \cup {0}]
         /\ \A q \in Kinds : ErrorOf(i)[q] = result[q] \/ (q = kind[i] /\ ErrorOf(i)[q] = i)
BY DEF ErrorOf, JobInv, JobShape

LEMMA CallGoesOn ==
  ASSUME JobInv, NEW i \in Ids, StartFails(i) \/ Polls(i)
  PROVE  JobInv'
<1> USE DEF JobInv
<1>1. /\ UNCHANGED <<sel, kind, jail, name, overlap, handle>>
      /\ \/ call[i] = "calling" /\ call' = [call EXCEPT ![i] = "failed"] /\ result' = ErrorOf(i)
         \/ call[i] = "waiting" /\ call' = [call EXCEPT ![i] = "asked"] /\ result' = result
  BY DEF StartFails, Polls, panel, job
<1> kind[i] \in Kinds
  BY <1>1 DEF Handles
<1>2. /\ result' \in [Kinds -> Ids \cup {0}]
      /\ \A q \in Kinds : \/ result'[q] = result[q]
                          \/ q = kind[i] /\ result'[q] = i /\ call'[i] = "failed"
  BY <1>1, ErrorShown DEF JobShape
<1>3. JobShape'
  BY <1>1, <1>2 DEF JobShape
<1>4. Handles'
  BY <1>1 DEF Handles, JobShape, Polling
<1>5. Outcomes'
  BY <1>1, <1>2 DEF Outcomes, JobShape, Polling
<1>6. OneAtATime'
  BY <1>1 DEF OneAtATime, Alone, Calling, JobShape, Handles, Polling
<1> QED
  BY <1>3, <1>4, <1>5, <1>6

\* The answer of a poll, which may end the polling of its kind.
LEMMA PolledKeepsJobs ==
  ASSUME JobInv, NEW i \in Ids, Polled(i) \/ PollFails(i)
  PROVE  JobInv'
<1> USE DEF JobInv
<1>1. kind[i] \in Kinds /\ call[i] = "asked" /\ UNCHANGED <<sel, kind, jail, name, overlap>>
  BY DEF Polled, PollFails, panel, job, Handles
<1> DEFINE k == kind[i]
<1>2. \/ /\ call' = [call EXCEPT ![i] = "waiting"] /\ UNCHANGED <<handle, result>>
      \/ /\ call' = Stop([call EXCEPT ![i] = "waiting"], {k}) /\ handle' = [handle EXCEPT ![k] = 0]
         /\ (result' = result \/ (result' = [result EXCEPT ![k] = i] /\ sel = name[i]))
  BY DEF Polled, PollFails, Reports, ErrorOf
<1>3. CASE call' = [call EXCEPT ![i] = "waiting"] /\ UNCHANGED <<handle, result>>
  <2>1. JobShape'
    BY <1>1, <1>3 DEF JobShape
  <2>2. Handles' /\ Outcomes'
    BY <1>1, <1>3 DEF Handles, Outcomes, JobShape, Polling
  <2>3. OneAtATime'
    BY <1>1, <1>3 DEF OneAtATime, Alone, Calling, JobShape, Polling
  <2> QED
    BY <2>1, <2>2, <2>3
<1>4. CASE /\ call' = Stop([call EXCEPT ![i] = "waiting"], {k}) /\ handle' = [handle EXCEPT ![k] = 0]
           /\ (result' = result \/ (result' = [result EXCEPT ![k] = i] /\ sel = name[i]))
  <2>1. /\ \A n \in Ids : call'[n] = IF n = handle[k] THEN "stopped" ELSE IF n = i THEN "waiting" ELSE call[n]
        /\ call' \in [Ids -> {"idle", "calling", "waiting", "asked", "stopped", "failed"}]
    BY <1>4 DEF JobShape, Stop
  <2>2. /\ \A q \in Kinds : handle'[q] = IF q = k THEN 0 ELSE handle[q]
        /\ \A q \in Kinds : result'[q] = result[q] \/ (q = k /\ result'[q] = i /\ sel = name[i])
        /\ handle' \in [Kinds -> Ids \cup {0}] /\ result' \in [Kinds -> Ids \cup {0}]
    <3>1. \A q \in Kinds : handle'[q] = IF q = k THEN 0 ELSE handle[q]
      BY <1>4 DEF JobShape
    <3>2. handle' \in [Kinds -> Ids \cup {0}]
      BY <1>4 DEF JobShape
    <3>3. /\ \A q \in Kinds : result'[q] = result[q] \/ (q = k /\ result'[q] = i /\ sel = name[i])
          /\ result' \in [Kinds -> Ids \cup {0}]
      BY <1>4 DEF JobShape
    <3> QED
      BY <3>1, <3>2, <3>3
  <2> HIDE DEF k
  <2>3. JobShape'
    BY <1>1, <2>1, <2>2 DEF JobShape
  <2>4. Handles'
    <3>1. \A q \in Kinds : q # k /\ handle[q] # 0 => handle[q] \in Ids /\ handle[q] # handle[k]
      BY <1>1 DEF Handles, JobShape, k
    <3>2. \A n \in Ids : call'[n] # "idle" => kind'[n] \in Kinds
      BY <1>1, <2>1, NoJobIsZero DEF Handles, Polling, k
    <3>3. \A q \in Kinds : handle'[q] # 0 => q # k /\ handle'[q] = handle[q]
      BY <2>2
    <3> QED
      BY <1>1, <2>1, <3>1, <3>2, <3>3 DEF Handles, Polling
  <2>5. k # "root" => name[i] = jail[i]
    BY <1>1, PanelAssumption DEF Outcomes, Polling, PanelAssumption, k
  <2>6. Outcomes'
    <3>1. \A n \in Ids : /\ call'[n] = "idle" => call[n] = "idle"
                         /\ call'[n] # "failed" => call[n] # "failed"
                         /\ call'[n] \in Polling => call[n] \in Polling
      <4>1. handle[k] # 0 => call[handle[k]] \in Polling
        BY <1>1 DEF Handles, k
      <4> QED
        BY <1>1, <2>1, <4>1, NoJobIsZero DEF Polling
    <3>2. \A q \in Kinds : result[q] # 0 =>
            /\ call[result[q]] # "idle"
            /\ q # "root" /\ call[result[q]] # "failed" => jail[result[q]] = sel
      BY DEF Outcomes
    <3>3. \A q \in Kinds : result'[q] # 0 =>
            /\ call'[result'[q]] # "idle"
            /\ q # "root" /\ call'[result'[q]] # "failed" => jail[result'[q]] = sel
      <4> SUFFICES ASSUME NEW q \in Kinds, result'[q] # 0
                   PROVE  /\ call'[result'[q]] # "idle"
                          /\ q # "root" /\ call'[result'[q]] # "failed" => jail[result'[q]] = sel
        OBVIOUS
      <4>1. result'[q] \in Ids
        BY <2>2
      <4>2. CASE result'[q] = result[q]
        BY <3>1, <3>2, <4>1, <4>2
      <4>3. CASE q = k /\ result'[q] = i /\ sel = name[i]
        BY <1>1, <2>5, <3>1, <4>3
      <4> QED
        BY <2>2, <4>2, <4>3
    <3>4. \A n \in Ids : kind[n] = "brew" /\ call'[n] \in Polling => name[n] = jail[n]
      BY <3>1 DEF Outcomes
    <3> QED
      BY <1>1, <3>3, <3>4 DEF Outcomes
  <2>7. OneAtATime'
    <3> SUFFICES ASSUME NEW q \in Kinds \ overlap PROVE Alone(q)'
      BY <1>1 DEF OneAtATime
    <3>1. Alone(q)
      BY DEF OneAtATime
    <3>2. CASE q = k
      <4>1. handle[k] = i /\ Calling(k) = {}
        BY <1>1, <3>1, <3>2, NoJobIsZero DEF Alone, Polling, k
      <4> QED
        BY <1>1, <2>1, <2>2, <3>1, <3>2, <4>1 DEF Alone, Calling, Polling
    <3>3. CASE q # k
      <4>1. \A n \in Ids : kind[n] = q => n # handle[k] /\ n # i
        BY <1>1, <3>3, NoJobIsZero DEF Handles, k
      <4>2. handle'[q] = handle[q] /\ \A n \in Ids : kind[n] = q => call'[n] = call[n]
        BY <2>1, <2>2, <3>3, <4>1
      <4> QED
        BY <1>1, <3>1, <4>2 DEF Alone, Calling
    <3> QED
      BY <3>2, <3>3
  <2> QED
    BY <2>3, <2>4, <2>6, <2>7
<1> QED
  BY <1>2, <1>3, <1>4

\* What the steps of loads, edits and the server leave alone.
LEMMA OtherKeepJobs ==
  ASSUME JobInv, UNCHANGED <<sel, poller, job, overlap>>
  PROVE  JobInv'
BY DEF JobInv, poller, job, JobShape, Handles, Outcomes, OneAtATime, Alone, Calling

-------------------------------------------------------------------------------
(* The jobs: the server *)

LEMMA BeginsKeepsServer ==
  ASSUME JobInv, ServerInv, NEW i \in Ids, Begins(i)
  PROVE  ServerInv'
<1> USE DEF ServerInv, Begins
<1>1. kind[i] \in Kinds
  BY DEF JobInv, Handles
<1> DEFINE s == Pruned(jobs[kind[i]])
<1>2. /\ s \in Seq(Ids) /\ IsInjective(s) /\ i \notin ToSet(s)
      /\ \A n \in ToSet(s) : n \in Ids /\ work[n] # "none"
  <2>1. jobs[kind[i]] \in Seq(Ids) /\ IsInjective(jobs[kind[i]])
    BY <1>1 DEF Lists
  <2>2. s \in Seq(Ids) /\ IsInjective(s) /\ ToSet(s) \subseteq ToSet(jobs[kind[i]])
    BY <2>1, PrunedKeepsInjective
  <2>3. \A n \in ToSet(s) : n \in Ids
    BY <2>2 DEF ToSet
  <2> QED
    BY <1>1, <2>2, <2>3 DEF Lists
<1>3. jobs' = [jobs EXCEPT ![kind[i]] = Append(s, i)]
  OBVIOUS
<1> HIDE DEF s
<1>4. /\ Append(s, i) \in Seq(Ids) /\ IsInjective(Append(s, i))
      /\ ToSet(Append(s, i)) = ToSet(s) \cup {i}
  BY <1>2, AppendKeepsInjective
<1>5. \A n \in Ids : work[n] # "none" => work'[n] # "none"
  OBVIOUS
<1>6. work'[i] # "none"
  OBVIOUS
<1>7. Lists(jobs', work')
  <2> SUFFICES ASSUME NEW k \in Kinds
               PROVE  /\ jobs'[k] \in Seq(Ids) /\ IsInjective(jobs'[k])
                      /\ \A n \in ToSet(jobs'[k]) : work'[n] # "none"
    BY DEF Lists
  <2>1. CASE k = kind[i]
    BY <1>2, <1>3, <1>4, <1>5, <1>6, <2>1
  <2>2. CASE k # kind[i]
    <3>1. jobs'[k] = jobs[k] /\ jobs[k] \in Seq(Ids) /\ IsInjective(jobs[k])
      BY <1>3, <2>2 DEF Lists
    <3>2. \A n \in ToSet(jobs[k]) : n \in Ids /\ work[n] # "none"
      BY <3>1 DEF ToSet, Lists
    <3> QED
      BY <1>5, <3>1, <3>2
  <2> QED
    BY <2>1, <2>2
<1> QED
  BY <1>3, <1>7

LEMMA EndsKeepsServer ==
  ASSUME ServerInv, NEW i \in Ids, Ends(i)
  PROVE  ServerInv'
<1> USE DEF ServerInv, Ends
<1>1. /\ work' \in [Ids -> {"none", "running", "done", "lost"}] /\ work'[i] # "none"
      /\ \A n \in Ids : work[n] # "none" => work'[n] # "none"
  OBVIOUS
<1>2. \A k \in Kinds : /\ jobs[k] \in Seq(Ids) /\ IsInjective(jobs[k])
                       /\ \A n \in ToSet(jobs[k]) : n \in Ids /\ work'[n] # "none"
  <2> TAKE k \in Kinds
  <2>1. jobs[k] \in Seq(Ids) /\ IsInjective(jobs[k]) /\ \A n \in ToSet(jobs[k]) : work[n] # "none"
    BY DEF Lists
  <2>2. \A n \in ToSet(jobs[k]) : n \in Ids
    BY <2>1 DEF ToSet
  <2> QED
    BY <1>1, <2>1, <2>2
<1>3. CASE jobs' = jobs
  BY <1>1, <1>2, <1>3 DEF Lists
<1>4. CASE ~Known(i) /\ jobs' = [jobs EXCEPT ![kind[i]] = Append(@, i)]
  <2> SUFFICES ASSUME NEW k \in Kinds
               PROVE  /\ jobs'[k] \in Seq(Ids) /\ IsInjective(jobs'[k])
                      /\ \A n \in ToSet(jobs'[k]) : work'[n] # "none"
    BY <1>1, <1>4 DEF Lists
  <2>1. CASE k = kind[i]
    <3>1. jobs'[k] = Append(jobs[k], i) /\ i \notin ToSet(jobs[k])
      BY <1>4, <2>1 DEF Known
    <3>2. /\ Append(jobs[k], i) \in Seq(Ids) /\ IsInjective(Append(jobs[k], i))
          /\ ToSet(Append(jobs[k], i)) = ToSet(jobs[k]) \cup {i}
      BY <1>2, <3>1, AppendKeepsInjective
    <3> QED
      BY <1>1, <1>2, <3>1, <3>2
  <2>2. CASE k # kind[i]
    BY <1>2, <1>4, <2>2
  <2> QED
    BY <2>1, <2>2
<1> QED
  BY <1>3, <1>4

LEMMA RestartKeepsServer ==
  ASSUME ServerInv, Restart
  PROVE  ServerInv'
<1>1. <<>> \in Seq(Ids) /\ IsInjective(<<>>) /\ ToSet(<<>>) = {}
  BY DEF IsInjective, ToSet
<1>2. jobs' = [k \in Kinds |-> <<>>]
  BY DEF Restart
<1>3. work' \in [Ids -> {"none", "running", "done", "lost"}]
  BY DEF Restart, ServerInv
<1> QED
  BY <1>1, <1>2, <1>3 DEF ServerInv, Lists

-------------------------------------------------------------------------------
(* The invariant *)

LEMMA BudgetSpent ==
  ASSUME PanelInv, NEW w \in {"starts", "toggles", "edits", "faults"}, Spends(w)
  PROVE  /\ budget' \in [starts : Nat, toggles : Nat, edits : Nat, faults : Nat]
         /\ w = "faults" => budget'.faults < budget.faults
BY DEF PanelInv, PanelShape, Spends

LEMMA PanelStays ==
  ASSUME PanelInv, UNCHANGED panel,
         budget' \in [starts : Nat, toggles : Nat, edits : Nat, faults : Nat]
  PROVE  PanelInv'
BY DEF PanelInv, PanelShape, LastLoad, panel

LEMMA ServerStays == ServerInv /\ UNCHANGED server => ServerInv'
  BY DEF ServerInv, Lists, server

LEMMA NextInv == Inv /\ [Next]_vars => Inv'
<1> SUFFICES ASSUME Inv, [Next]_vars PROVE Inv'
  OBVIOUS
<1> USE DEF Inv
<1>1. CASE UNCHANGED vars
  BY <1>1, PanelStays, OtherKeepJobs, ServerStays DEF vars, panel, PanelInv, PanelShape
<1>2. ASSUME NEW j \in Jails, Toggle(j) PROVE Inv'
  BY <1>2, ToggleKeepsPanel, ToggleKeepsJobs, ServerStays DEF Toggle
<1>3. CASE Loaded
  BY <1>3, LoadedKeepsPanel, OtherKeepJobs, ServerStays DEF Loaded
<1>4. CASE LoadFails
  BY <1>4, LoadFailsKeepsPanel, OtherKeepJobs, ServerStays DEF LoadFails
<1>5. CASE Edit
  BY <1>5, EditKeepsPanel, OtherKeepJobs, ServerStays DEF Edit
<1>6. CASE Changed
  BY <1>6, ChangedKeepsPanel, OtherKeepJobs, ServerStays DEF Changed
<1>7. sel \in Jails \cup {None}
  BY DEF PanelInv, PanelShape
<1>8. ASSUME NEW k \in Kinds, Start(k) PROVE Inv'
  BY <1>7, <1>8, StartKeepsJobs, BudgetSpent, PanelStays, ServerStays DEF Start
<1>9. ASSUME NEW i \in Ids, Started(i) PROVE Inv'
  BY <1>7, <1>9, StartedKeepsJobs, PanelStays, ServerStays DEF Started, PanelInv, PanelShape
<1>10. ASSUME NEW i \in Ids, StartFails(i) \/ Polls(i) PROVE Inv'
  <2>1. UNCHANGED panel /\ UNCHANGED server /\ (Fault \/ UNCHANGED budget)
    BY <1>10 DEF StartFails, Polls
  <2>2. PanelInv'
    BY <2>1, BudgetSpent, PanelStays DEF Fault, PanelInv, PanelShape
  <2> QED
    BY <1>10, <2>1, <2>2, CallGoesOn, ServerStays
<1>11. ASSUME NEW i \in Ids, Polled(i) \/ PollFails(i) PROVE Inv'
  <2>1. UNCHANGED panel /\ UNCHANGED server /\ (Fault \/ UNCHANGED budget)
    BY <1>11 DEF Polled, PollFails
  <2>2. PanelInv'
    BY <2>1, BudgetSpent, PanelStays DEF Fault, PanelInv, PanelShape
  <2> QED
    BY <1>11, <2>1, <2>2, PolledKeepsJobs, ServerStays
<1>12. ASSUME NEW i \in Ids, Begins(i) PROVE Inv'
  BY <1>12, BeginsKeepsServer, PanelStays, OtherKeepJobs DEF Begins, panel, PanelInv, PanelShape
<1>13. ASSUME NEW i \in Ids, Ends(i) PROVE Inv'
  BY <1>13, EndsKeepsServer, PanelStays, OtherKeepJobs DEF Ends, panel, PanelInv, PanelShape
<1>14. CASE Restart
  BY <1>14, RestartKeepsServer, BudgetSpent, PanelStays, OtherKeepJobs DEF Restart, Fault, panel
<1> QED
  BY <1>1, <1>2, <1>3, <1>4, <1>5, <1>6, <1>8, <1>9, <1>10, <1>11, <1>12, <1>13, <1>14 DEF Next

LEMMA InvHolds == Spec => []Inv
  BY InitInv, NextInv, PTL DEF Spec

-------------------------------------------------------------------------------
(* The theorems *)

\* Types hold throughout, the panel's handles are those of live pollers, and
\* the server keeps each job once, although pruneJobs drops running jobs and
\* their end puts them back.
THEOREM PanelTypes == Spec => []TypeOK
  BY InvHolds, InvImplies, PTL

\* Once no load and no edit is under way the panel shows its container as it
\* is, in whatever order the answers came, unless the last load or a change
\* since failed.
THEOREM TruthShown == Spec => []ShowsTruth
  BY InvHolds, InvImplies, PTL

\* What a poll brought to the screen is that of a job in the selected
\* container, for the jobs whose poller is given the container they run in.
THEOREM OwnOutcome ==
  ASSUME "root" \notin Kinds
  PROVE  Spec => []OwnResult
<1>1. Inv => OwnResult
  BY DEF Inv, JobInv, Outcomes, OwnResult
<1> QED
  BY <1>1, InvHolds, PTL

LEMMA StepKeepsWatch == Inv /\ [Next]_vars => WatchedStep
<1> SUFFICES ASSUME Inv, [Next]_vars,
                    NEW k \in Kinds \ overlap, handle[k] # 0, handle'[k] # handle[k]
             PROVE  \/ result'[k] = handle[k] \/ sel' # sel
                    \/ Calling(k)' # {} \/ budget'.faults < budget.faults
  BY DEF WatchedStep
<1> USE DEF Inv
<1>1. Alone(k) /\ JobShape /\ PanelInv
  BY DEF JobInv, OneAtATime
<1>2. handle' # handle
  OBVIOUS
<1>3. CASE \E j \in Jails : Toggle(j)
  BY <1>3, ToggleKeepsPanel
<1>4. ASSUME NEW q \in Kinds, Start(q) PROVE Calling(k)' # {}
  <2>1. sel \in Jails \cup {None}
    BY <1>1 DEF PanelInv, PanelShape
  <2>2. Calling(q)' # {} /\ \A n \in Kinds \ {q} : handle'[n] = handle[n]
    BY <1>4, <2>1, StartKeepsJobs
  <2> QED
    BY <2>2
<1>5. ASSUME NEW i \in Ids, Started(i) PROVE FALSE
  <2>1. call[i] = "calling" /\ kind[i] \in Kinds /\ handle' = [handle EXCEPT ![kind[i]] = i]
    BY <1>5 DEF Started, JobInv, Handles
  <2>2. kind[i] = k
    BY <1>1, <2>1 DEF JobShape
  <2> QED
    BY <1>1, <2>1, <2>2 DEF Alone, Calling
<1>6. ASSUME NEW i \in Ids, Polled(i) PROVE result'[k] = handle[k]
  <2>1. /\ call[i] = "asked" /\ kind[i] \in Kinds
        /\ handle' = [handle EXCEPT ![kind[i]] = 0] /\ result' = [result EXCEPT ![kind[i]] = i]
    BY <1>2, <1>6 DEF Polled, JobInv, Handles
  <2>2. kind[i] = k
    BY <1>1, <2>1 DEF JobShape
  <2> QED
    BY <1>1, <2>1, <2>2 DEF Alone, Polling, JobShape
<1>7. ASSUME NEW i \in Ids, PollFails(i) PROVE budget'.faults < budget.faults
  BY <1>1, <1>7, BudgetSpent DEF PollFails, Fault
<1>8. CASE \/ UNCHANGED vars \/ Loaded \/ LoadFails \/ Edit \/ Changed \/ Restart
           \/ \E i \in Ids : StartFails(i) \/ Polls(i) \/ Begins(i) \/ Ends(i)
  BY <1>2, <1>8
     DEF vars, poller, Loaded, LoadFails, Edit, Changed, Restart, StartFails, Polls, Begins, Ends
<1> QED
  BY <1>3, <1>4, <1>5, <1>6, <1>7, <1>8 DEF Next

\* A job the panel watches is dropped only for its outcome, another start,
\* another selection or a failed call, as long as no two starts overlapped.
THEOREM WatchKept == Spec => Watched
  BY InvHolds, StepKeepsWatch, PTL DEF Spec, Watched

-------------------------------------------------------------------------------
(* Terminals: the sessions of the same service *)

\* The terminals whose startJailExec waits for Incus.
Asked == {t \in Terminals : req[t] = "asked"}

\* The counts, and the sockets, each by itself.
SessionCounts ==
  /\ pending = Cardinality(Asked)
  /\ Cardinality(sess) + pending <= MaxSessions

SocketsFollow ==
  \A t \in Terminals : /\ t \in sess => io[t] \in Live /\ control[t] \in Live
                       /\ t \notin sess => io[t] \notin Live /\ control[t] \notin Live

\* Types, but for the count, whose range follows from the limit.
SessionShape ==
  /\ term \in [Terminals -> {"new", "calling", "leaving", "connected", "disconnected", "closed"}]
  /\ req \in [Terminals -> {"none", "asked", "refused", "served"}]
  /\ stops \subseteq Terminals /\ sess \subseteq Terminals /\ lost \subseteq Terminals
  /\ io \in [Terminals -> Live \cup {"none", "closed"}]
  /\ control \in [Terminals -> Live \cup {"none", "closed"}]

SessionsInv == SessionShape /\ SessionCounts /\ SocketsFollow

-------------------------------------------------------------------------------
(* Terminals: the invariant gives the properties *)

LEMMA AskedFinite ==
  ASSUME SessionShape
  PROVE  /\ IsFiniteSet(Asked) /\ IsFiniteSet(sess)
         /\ Cardinality(Asked) \in Nat /\ Cardinality(sess) \in Nat
<1>1. IsFiniteSet(Asked) /\ IsFiniteSet(sess)
  BY FS_Subset, ExecAssumption DEF ExecAssumption, SessionShape, Asked
<1> QED
  BY <1>1, FS_CardinalityType

LEMMA SessionsInvImplies ==
  ASSUME SessionsInv
  PROVE  ExecTypeOK /\ Accounted
<1>1. Cardinality(Asked) \in Nat /\ Cardinality(sess) \in Nat
  BY AskedFinite DEF SessionsInv
<1>2. pending \in 0 .. MaxSessions
  BY <1>1, ExecAssumption DEF SessionsInv, SessionCounts, ExecAssumption
<1> QED
  BY <1>2 DEF SessionsInv, SessionShape, SessionCounts, SocketsFollow, ExecTypeOK, Accounted, Asked

LEMMA InitSessions ==
  ASSUME ExecInit
  PROVE  SessionsInv
<1>1. SessionShape
  BY DEF ExecInit, SessionShape, Live
<1>2. SessionCounts
  <2>1. Asked = {}
    BY DEF ExecInit, Asked
  <2> QED
    BY <2>1, FS_EmptySet, ExecAssumption DEF ExecInit, SessionCounts, ExecAssumption
<1>3. SocketsFollow
  BY DEF ExecInit, SocketsFollow, Live
<1> QED
  BY <1>1, <1>2, <1>3 DEF SessionsInv

-------------------------------------------------------------------------------
(* Terminals: each kind of step keeps it *)

\* The check of the limit, refused or counted.
LEMMA RequestKeepsSessions ==
  ASSUME SessionsInv, NEW t \in Terminals, Request(t)
  PROVE  SessionsInv'
<1> USE DEF SessionsInv
<1>1. SessionShape'
  BY DEF SessionShape, Request, client, socks
<1>2. SocketsFollow'
  BY DEF SocketsFollow, Request, socks
<1>3. SessionCounts'
  <2>1. CASE TooMany /\ req' = [req EXCEPT ![t] = "refused"] /\ UNCHANGED pending
    <3>1. Asked' = Asked
      BY <2>1 DEF Asked, Request, SessionShape
    <3> QED
      BY <2>1, <3>1 DEF SessionCounts, Request
  <2>2. CASE ~TooMany /\ req' = [req EXCEPT ![t] = "asked"] /\ pending' = pending + 1
    <3>1. Asked' = Asked \cup {t} /\ t \notin Asked
      BY <2>2 DEF Asked, Request, SessionShape
    <3>2. Cardinality(Asked') = Cardinality(Asked) + 1
      BY <3>1, AskedFinite, FS_AddElement
    <3>3. Cardinality(sess) + pending + 1 <= MaxSessions
      BY <2>2, AskedFinite, ExecAssumption DEF TooMany, SessionCounts, ExecAssumption
    <3> QED
      BY <2>2, <3>2, <3>3, AskedFinite DEF SessionCounts, Request
  <2> QED
    BY <2>1, <2>2 DEF Request
<1> QED
  BY <1>1, <1>2, <1>3

\* Incus answers: what was counted as pending is a session, or nothing.
LEMMA AnswerKeepsSessions ==
  ASSUME SessionsInv, NEW t \in Terminals, Granted(t) \/ Refused(t)
  PROVE  SessionsInv'
<1> USE DEF SessionsInv
<1>1. SessionShape'
  BY DEF SessionShape, Granted, Refused, client, socks, Live
<1>2. SocketsFollow'
  BY DEF SocketsFollow, SessionShape, Granted, Refused, socks, Live
<1>3. SessionCounts'
  <2>1. Asked' = Asked \ {t} /\ t \in Asked
    BY DEF Asked, Granted, Refused, SessionShape
  <2>2. Cardinality(Asked') = Cardinality(Asked) - 1
    BY <2>1, AskedFinite, FS_RemoveElement
  <2>3. pending' = pending - 1
    BY DEF Granted, Refused
  <2>4. Cardinality(sess') <= Cardinality(sess) + 1
    <3>1. CASE sess' = sess \cup {t}
      <4>1. Cardinality(sess \cup {t}) = IF t \in sess THEN Cardinality(sess) ELSE Cardinality(sess) + 1
        BY AskedFinite, FS_AddElement
      <4> QED
        BY <3>1, <4>1, AskedFinite
    <3>2. CASE sess' = sess
      BY <3>2, AskedFinite
    <3> QED
      BY <3>1, <3>2 DEF Granted, Refused
  <2>5. Cardinality(sess') \in Nat
    BY <1>1, FS_Subset, FS_CardinalityType, ExecAssumption DEF SessionShape, ExecAssumption
  <2> QED
    BY <2>2, <2>3, <2>4, <2>5, AskedFinite, ExecAssumption DEF SessionCounts, ExecAssumption
<1> QED
  BY <1>1, <1>2, <1>3

\* A session ends with both its sockets.
LEMMA CleanupKeepsSessions ==
  ASSUME SessionsInv, NEW t \in Terminals, Cleanup(t), SessionShape', UNCHANGED <<req, pending>>
  PROVE  SessionsInv'
<1> USE DEF SessionsInv
<1>1. SocketsFollow'
  BY DEF SocketsFollow, SessionShape, Cleanup, Live
<1>2. SessionCounts'
  <2>1. Asked' = Asked
    BY DEF Asked
  <2>2. Cardinality(sess') <= Cardinality(sess) /\ Cardinality(sess') \in Nat
    <3>1. sess' = sess \ {t}
      BY DEF Cleanup
    <3>2. IsFiniteSet(sess \ {t}) /\ Cardinality(sess \ {t}) <= Cardinality(sess)
      BY AskedFinite, FS_Subset
    <3> QED
      BY <3>1, <3>2, FS_CardinalityType
  <2> QED
    BY <2>1, <2>2, AskedFinite, ExecAssumption DEF SessionCounts, ExecAssumption
<1> QED
  BY <1>1, <1>2

\* A socket that opens was live before.
LEMMA OpensKeepsSessions ==
  ASSUME SessionsInv, NEW t \in Terminals, Opens(t)
  PROVE  SessionsInv'
<1> USE DEF SessionsInv
<1>1. SessionShape'
  BY DEF SessionShape, Opens, client, Live
<1>2. SocketsFollow'
  BY DEF SocketsFollow, SessionShape, Opens, Live
<1>3. SessionCounts'
  BY DEF SessionCounts, Asked, Opens
<1> QED
  BY <1>1, <1>2, <1>3

\* The end of the process takes everything with it.
LEMMA RestartKeepsSessions ==
  ASSUME SessionsInv, ServiceRestarts
  PROVE  SessionsInv'
<1> USE DEF SessionsInv
<1>1. SessionShape'
  BY DEF SessionShape, ServiceRestarts, client, Live
<1>2. SocketsFollow'
  BY DEF SocketsFollow, SessionShape, ServiceRestarts, Live
<1>3. SessionCounts'
  <2>1. Asked' = {}
    BY DEF Asked, ServiceRestarts, SessionShape
  <2> QED
    BY <2>1, FS_EmptySet, ExecAssumption DEF SessionCounts, ServiceRestarts, ExecAssumption
<1> QED
  BY <1>1, <1>2, <1>3

\* Steps of a terminal, and of the network between, that leave the server alone.
LEMMA ClientKeepsSessions ==
  ASSUME SessionsInv, SessionShape', UNCHANGED service
  PROVE  SessionsInv'
  BY DEF SessionsInv, SessionCounts, SocketsFollow, Asked, service, socks

LEMMA NextSessions ==
  ASSUME SessionsInv, [ExecNext]_execVars
  PROVE  SessionsInv'
<1>1. ASSUME NEW t \in Terminals, Request(t) PROVE SessionsInv'
  BY <1>1, RequestKeepsSessions
<1>2. ASSUME NEW t \in Terminals, Granted(t) \/ Refused(t) PROVE SessionsInv'
  BY <1>2, AnswerKeepsSessions
<1>3. ASSUME NEW t \in Terminals, Opens(t) PROVE SessionsInv'
  BY <1>3, OpensKeepsSessions
<1>4. ASSUME NEW t \in Terminals, Over(t) PROVE SessionsInv'
  <2>1. SessionShape'
    BY <1>4 DEF SessionsInv, SessionShape, Over, Cleanup, client, Live
  <2> QED
    BY <1>4, <2>1, CleanupKeepsSessions DEF Over
<1>5. ASSUME NEW t \in Terminals, StopSession(t) PROVE SessionsInv'
  <2>1. SessionShape'
    BY <1>5 DEF SessionsInv, SessionShape, StopSession, Cleanup, socks, Live
  <2>2. CASE Cleanup(t)
    BY <1>5, <2>1, <2>2, CleanupKeepsSessions DEF StopSession
  <2>3. CASE UNCHANGED <<sess, socks>>
    BY <1>5, <2>1, <2>3, ClientKeepsSessions DEF StopSession, service
  <2> QED
    BY <1>5, <2>2, <2>3 DEF StopSession
<1>6. ASSUME NEW t \in Terminals,
             \/ Mount(t) \/ SessionStarted(t) \/ SessionFails(t) \/ StartLost(t)
             \/ Type(t) \/ Close(t) \/ StopLost(t) \/ Vanish(t)
      PROVE  SessionsInv'
  <2>1. UNCHANGED service
    BY <1>6 DEF Mount, SessionStarted, SessionFails, StartLost, Type, Close, StopLost, Vanish
  <2>2. UNCHANGED <<req, sess, io, control>>
    BY <2>1 DEF service, socks
  <2>3. term' \in [Terminals -> {"new", "calling", "leaving", "connected", "disconnected", "closed"}]
    BY <1>6 DEF SessionsInv, SessionShape, Mount, SessionStarted, SessionFails, StartLost, Fails, Type, Close, StopLost,
                Vanish, Becomes
  <2>4. stops' \subseteq Terminals /\ lost' \subseteq Terminals
    BY <1>6 DEF SessionsInv, SessionShape, Mount, SessionStarted, SessionFails, StartLost, Fails, Type, Close, StopLost,
                Vanish, Becomes
  <2>5. SessionShape'
    BY <2>2, <2>3, <2>4 DEF SessionsInv, SessionShape
  <2> QED
    BY <2>1, <2>5, ClientKeepsSessions
<1>7. CASE ServiceRestarts
  BY <1>7, RestartKeepsSessions
<1>8. CASE UNCHANGED execVars
  <2>1. SessionShape'
    BY <1>8 DEF execVars, client, service, socks, SessionsInv, SessionShape
  <2> QED
    BY <1>8, <2>1, ClientKeepsSessions DEF execVars
<1> QED
  BY <1>1, <1>2, <1>3, <1>4, <1>5, <1>6, <1>7, <1>8 DEF ExecNext

LEMMA SessionsInvHolds == ExecSpec => []SessionsInv
<1>1. ExecInit => SessionsInv
  BY InitSessions
<1>2. SessionsInv /\ [ExecNext]_execVars => SessionsInv'
  BY NextSessions
<1> QED
  BY <1>1, <1>2, PTL DEF ExecSpec

\* Types hold throughout, and the starts under way never exceed the limit.
THEOREM SessionTypes == ExecSpec => []ExecTypeOK
<1>1. SessionsInv => ExecTypeOK
  BY SessionsInvImplies
<1> QED
  BY <1>1, SessionsInvHolds, PTL

\* startSession, cleanupSession and every failing path between them keep the
\* count of pending sessions and the limit exact, and no websocket outlives its
\* session.
THEOREM SessionsAccounted == ExecSpec => []Accounted
<1>1. SessionsInv => Accounted
  BY SessionsInvImplies
<1> QED
  BY <1>1, SessionsInvHolds, PTL
===============================================================================
