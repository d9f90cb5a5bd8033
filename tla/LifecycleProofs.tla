---------------------------- MODULE LifecycleProofs ----------------------------
(***************************************************************************)
(* For any configs, directories, scripts, watchdogs, processes and bounds: *)
(* what rc.incus and the scripts around it guarantee about incusd as long  *)
(* as no start raced with a stop, and about the known-good config.         *)
(***************************************************************************)
EXTENDS Lifecycle, TLAPS

-------------------------------------------------------------------------------
(* The inductive invariant *)

StateShape ==
  /\ cfg \in Configs /\ known \in Configs /\ env \in Configs \cup {None}
  /\ array \in {"down", "up", "unmounting"}
  /\ daemon \in [Pids -> {"none", "starting", "up", "hung"}]
  /\ home \in [Pids -> Dirs \cup {None}] /\ fresh \in [Shells -> Pids \cup {None}]
  /\ pidfile \in Pids \cup {None} /\ wpid \in Watchdogs \cup {None}
  /\ flock \in Shells \cup {None}

ScriptShape ==
  /\ at \in [Shells -> Places] /\ call \in [Shells -> CallPlaces]
  /\ result \in [Shells -> {"none", "ok", "fail"}] /\ again \in [Shells -> BOOLEAN]
  /\ read \in [Shells -> Configs \cup {None}]

CountShape ==
  /\ tries \in [Shells -> Nat]
  /\ tries["events"] <= MaxAttempts /\ \A w \in Watchdogs : tries[w] <= MaxRestarts
  /\ events \in 0 .. MaxEvents /\ faults \in 0 .. MaxFaults /\ kills \in 0 .. MaxKills

HistoryShape ==
  /\ fitted \subseteq Configs
  /\ raced \in BOOLEAN /\ skipped \in BOOLEAN /\ overlapped \in BOOLEAN
  /\ hasty \in BOOLEAN /\ mixed \in BOOLEAN

\* The lock is held by the one incus-init.sh that reconciles.
Locked == \A s \in Shells : call[s] = "reconcile" <=> flock = s

\* A call that has sourced incus.cfg goes by it to its end.
Unsourced == {"none", "start", "stop", "init"}
HasRead   == \A s \in Shells : call[s] \notin Unsourced => read[s] \in Configs

Types == StateShape /\ ScriptShape /\ CountShape /\ HistoryShape /\ Locked /\ HasRead

\* The disks go when the script of the event says so.
EventOrder == (array = "unmounting" <=> at["events"] = "stopping") /\ ~again["events"]

\* A shell that has spawned and not yet written the pid is at that very command.
Recording == \A s \in Shells : fresh[s] # None => call[s] = "record" /\ fresh[s] \in Living

\* From a spawn to the end of a start that failed.
Launching == {"record", "wait", "cleanup", "cleaned"}

\* As long as nothing raced: one incusd at most and one start at most that made
\* it; incusd.pid names it, or is to; when a call is about to remove the pid
\* file none is left.
OneTracked ==
  raced \/ /\ \A p, q \in Living : p = q
           /\ Living \subseteq {pidfile} \cup {fresh[s] : s \in Shells}
           /\ \A s, t \in Shells : call[s] \in Launching /\ call[t] \in Launching => s = t
           /\ \A s \in Shells : /\ call[s] \in {"forget", "cleaned"} => Living = {}
                                /\ call[s] = "record" => Living \subseteq {fresh[s]}

Inv == Types /\ EventOrder /\ Recording /\ OneTracked

Stopping == {"stop", "watchdog", "shutdown", "kill", "forget"}

\* While the service stays enabled: the disks go after incusd.
DownLast ==
  raced \/ /\ array = "down" => Living = {}
           /\ array = "unmounting" => Living = {} \/ call["events"] \in Stopping

-------------------------------------------------------------------------------
(* Types *)

LEMMA Sorts ==
  /\ "events" \in Shells /\ Watchdogs \subseteq Shells /\ Applies \subseteq Shells
  /\ "events" \notin Watchdogs /\ "events" \notin Applies /\ Applies \cap Watchdogs = {}
  /\ None \notin Shells /\ None \notin Pids /\ None \notin Configs /\ None \notin Dirs
  /\ MaxAttempts \in Nat \ {0} /\ MaxRestarts \in Nat
  /\ MaxEvents \in Nat /\ MaxFaults \in Nat /\ MaxKills \in Nat
BY LifecycleAssumption DEF LifecycleAssumption, Shells

LEMMA InitInv == Init => Inv /\ DownLast
<1> SUFFICES ASSUME Init PROVE Inv /\ DownLast
  OBVIOUS
<1> USE LifecycleAssumption, Sorts DEF Init, LifecycleAssumption
<1>1. StateShape /\ ScriptShape
  BY DEF StateShape, ScriptShape, Places, CallPlaces
<1>2. CountShape /\ HistoryShape
  <2>1. HistoryShape
    BY Zenon DEF HistoryShape
  <2>2. CountShape
    BY DEF CountShape
  <2> QED
    BY <2>1, <2>2
<1>3. Locked /\ HasRead
  BY DEF Locked, HasRead, Unsourced
<1>4. EventOrder /\ Recording
  BY DEF EventOrder, Recording
<1>5. Living = {}
  BY DEF Living
<1>6. OneTracked /\ DownLast
  BY <1>5 DEF OneTracked, DownLast, Launching
<1> QED
  BY <1>1, <1>2, <1>3, <1>4, <1>6 DEF Inv, Types

LEMMA InvImplies == Inv => TypeOK /\ Tracked
<1> SUFFICES ASSUME Inv PROVE TypeOK /\ Tracked
  OBVIOUS
<1> USE DEF Inv, Types
<1>1. tries["events"] \in 0 .. MaxAttempts /\ \A w \in Watchdogs : tries[w] \in 0 .. MaxRestarts
  BY Sorts DEF CountShape
<1>2. \A s \in Shells : (call[s] = "reconcile") = (flock = s)
  BY Zenon DEF Locked
<1>3. {raced, skipped, overlapped, hasty, mixed} \subseteq BOOLEAN
  BY Zenon DEF HistoryShape
<1>4. TypeOK
  BY <1>1, <1>2, <1>3 DEF TypeOK, StateShape, ScriptShape, CountShape, HistoryShape
<1>5. Tracked
  <2> SUFFICES ASSUME AtRest, Living # {}, ~raced PROVE pidfile # None
    BY DEF Tracked
  <2>1. \A s \in Shells : fresh[s] = None
    BY DEF AtRest, Busy, Recording
  <2> QED
    BY <2>1, Sorts DEF OneTracked, Living
<1> QED
  BY <1>4, <1>5

\* What one process of incusd does to the others and to the files.
LEMMA BecomesKeeps ==
  ASSUME StateShape, NEW p \in Pids, NEW state \in {"none", "starting", "up", "hung"}, Becomes(p, state)
  PROVE  /\ daemon' \in [Pids -> {"none", "starting", "up", "hung"}]
         /\ home' \in [Pids -> Dirs \cup {None}] /\ fresh' \in [Shells -> Pids \cup {None}]
         /\ pidfile' \in Pids \cup {None}
         /\ state = "none" => Living' = Living \ {p}
         /\ state # "none" /\ daemon[p] # "none" => Living' = Living
         /\ \A s \in Shells : fresh'[s] = fresh[s] \/ (state = "none" /\ fresh[s] = p /\ fresh'[s] = None)
         /\ pidfile' = pidfile \/ (state = "none" /\ pidfile = p /\ pidfile' = None)
<1> USE DEF Becomes, StateShape
<1>1. daemon' \in [Pids -> {"none", "starting", "up", "hung"}]
  OBVIOUS
<1>2. home' \in [Pids -> Dirs \cup {None}] /\ fresh' \in [Shells -> Pids \cup {None}] /\ pidfile' \in Pids \cup {None}
  OBVIOUS
<1>3. /\ state = "none" => Living' = Living \ {p}
      /\ state # "none" /\ daemon[p] # "none" => Living' = Living
  BY DEF Living
<1> QED
  BY <1>1, <1>2, <1>3

\* What a step of a call leaves alone.
Called(s) ==
  /\ UNCHANGED <<cfg, known, array, events, kills, hasty, overlapped>>
  /\ call[s] # "none" /\ call'[s] \in CallPlaces
  /\ \A t \in Shells \ {s} : call'[t] = call[t] /\ (again'[t] <=> again[t])
  /\ \A t \in Shells \ Watchdogs : at'[t] = at[t] /\ (t # s => result'[t] = result[t] /\ read'[t] = read[t])
  /\ again'[s] => again[s]

LEMMA CallFrame ==
  ASSUME Types, NEW s \in Shells, CallStep(s)
  PROVE  Called(s)
<1> USE DEF Types, StateShape, ScriptShape
<1>1. UNCHANGED <<cfg, known, array, events, kills, hasty, overlapped>>
  BY DEF CallStep, Sources, StartChecks, Spawn, Records, WaitReady, WaitTimesOut, Cleans, Guard, Launch,
         StopWatchdog, Shutdown, Kills, Forget, Locks, InitEnds, Calling, Goes, Returns, Fault, NoFault,
         bounds, history, scripts
<1>2. call[s] # "none" /\ \E c \in CallPlaces : call' = [call EXCEPT ![s] = c]
  BY DEF CallStep, Sources, StartChecks, Spawn, Records, WaitReady, WaitTimesOut, Cleans, Guard, Launch,
         StopWatchdog, Shutdown, Kills, Forget, Locks, InitEnds, Calling, Goes, Returns, Sourced,
         CallPlaces
<1>3. again' = again \/ again' = [again EXCEPT ![s] = FALSE]
  BY DEF CallStep, Sources, StartChecks, Spawn, Records, WaitReady, WaitTimesOut, Cleans, Guard, Launch,
         StopWatchdog, Shutdown, Kills, Forget, Locks, InitEnds, Calling, Goes, Returns
<1>4. \/ at' = at
      \/ \E w \in Watchdogs, q \in Places : at' = [at EXCEPT ![w] = q]
  BY DEF CallStep, Sources, StartChecks, Spawn, Records, WaitReady, WaitTimesOut, Cleans, Guard, Launch,
         StopWatchdog, Shutdown, Kills, Forget, Locks, InitEnds, Calling, Goes, Returns, scripts, Unused,
         Places
<1>5. \/ read' = read
      \/ \E t \in {s} \cup Watchdogs : \E c : read' = [read EXCEPT ![t] = c]
  BY DEF CallStep, Sources, StartChecks, Spawn, Records, WaitReady, WaitTimesOut, Cleans, Guard, Launch,
         StopWatchdog, Shutdown, Kills, Forget, Locks, InitEnds, Calling, Goes, Returns
<1>6. \/ result' = result
      \/ \E t \in {s} \cup Watchdogs : \E r : result' = [result EXCEPT ![t] = r]
  BY DEF CallStep, Sources, StartChecks, Spawn, Records, WaitReady, WaitTimesOut, Cleans, Guard, Launch,
         StopWatchdog, Shutdown, Kills, Forget, Locks, InitEnds, Calling, Goes, Returns
<1> QED
  BY <1>1, <1>2, <1>3, <1>4, <1>5, <1>6, Sorts DEF Called

\* A fault is counted or there is none.
LEMMA Faults ==
  ASSUME CountShape, Fault \/ NoFault
  PROVE  UNCHANGED <<events, kills>> /\ faults' \in 0 .. MaxFaults
<1>1. UNCHANGED <<events, kills>> /\ (faults' = faults \/ (faults < MaxFaults /\ faults' = faults + 1))
  BY DEF Fault, NoFault, bounds
<1>2. faults \in 0 .. MaxFaults
  BY DEF CountShape
<1> QED
  BY <1>1, <1>2, Sorts

\* Calls that leave the watchdogs and the lock alone.
LEMMA CallKeepsTypes ==
  ASSUME Types, NEW s \in Shells,
         \/ Sources(s) \/ StartChecks(s) \/ Records(s) \/ WaitReady(s) \/ WaitTimesOut(s) \/ Cleans(s)
         \/ Guard(s) \/ Shutdown(s) \/ Kills(s) \/ Forget(s)
  PROVE  Types'
<1> USE DEF Types
<1>1. UNCHANGED <<cfg, known, array, wpid, flock, env, at, tries, skipped, fitted, overlapped, hasty, mixed>>
  BY DEF CallStep, Sources, StartChecks, Spawn, Records, WaitReady, WaitTimesOut, Cleans, Guard, Launch,
         StopWatchdog, Shutdown, Kills, Forget, Locks, InitEnds, Calling, Goes, Returns, history, scripts
<1>2. /\ daemon' \in [Pids -> {"none", "starting", "up", "hung"}]
      /\ home' \in [Pids -> Dirs \cup {None}] /\ fresh' \in [Shells -> Pids \cup {None}]
      /\ pidfile' \in Pids \cup {None}
  <2>1. CASE \E p \in Pids : Becomes(p, "none")
    BY <2>1, BecomesKeeps
  <2>2. CASE ~\E p \in Pids : Becomes(p, "none")
    <3>1. /\ UNCHANGED <<daemon, home>> /\ pidfile' \in {pidfile, None, fresh[s]}
          /\ fresh' = fresh \/ fresh' = [fresh EXCEPT ![s] = None]
      <4>1. CASE Kills(s)
        BY <2>2, <4>1 DEF Kills, StateShape, processes
      <4>2. CASE Shutdown(s)
        BY <2>2, <4>2 DEF Shutdown, Serving, processes
      <4>3. CASE ~Kills(s) /\ ~Shutdown(s)
        BY <4>3 DEF Sources, StartChecks, Records, WaitReady, WaitTimesOut, Cleans, Guard, Forget, processes
      <4> QED
        BY <4>1, <4>2, <4>3
    <3> QED
      BY <3>1 DEF StateShape
  <2> QED
    BY <2>1, <2>2
<1>3. Called(s)
  BY CallFrame DEF CallStep
<1>4. /\ result' = result \/ \E r \in {"ok", "fail"} : Returns(s, r)
      /\ again' = again \/ again' = [again EXCEPT ![s] = FALSE]
      /\ \E c \in CallPlaces : call' = [call EXCEPT ![s] = c]
  BY DEF CallStep, Sources, StartChecks, Spawn, Records, WaitReady, WaitTimesOut, Cleans, Guard, Launch,
         StopWatchdog, Shutdown, Kills, Forget, Locks, InitEnds, Calling, Goes, Returns, Sourced,
         CallPlaces
<1>5. result' \in [Shells -> {"none", "ok", "fail"}] /\ again' \in [Shells -> BOOLEAN] /\ call' \in [Shells -> CallPlaces]
  <2>1. \A r \in {"ok", "fail"} : Returns(s, r) => result' \in [Shells -> {"none", "ok", "fail"}]
    BY DEF ScriptShape, Returns
  <2>2. again' \in [Shells -> BOOLEAN]
    BY <1>4 DEF ScriptShape
  <2>3. call' \in [Shells -> CallPlaces]
    BY <1>4 DEF ScriptShape
  <2>4. result' \in [Shells -> {"none", "ok", "fail"}]
    BY <1>4, <2>1 DEF ScriptShape
  <2> QED
    BY <2>2, <2>3, <2>4
<1>6. /\ call[s] # "reconcile" /\ call'[s] # "reconcile"
      /\ \/ call'[s] \in Unsourced
         \/ Sources(s)
         \/ call[s] \notin Unsourced /\ read' = read
      /\ read' = read \/ read' = [read EXCEPT ![s] = None] \/ read' = [read EXCEPT ![s] = cfg]
  BY DEF ScriptShape, Sourced, Unsourced, CallStep, Sources, StartChecks, Spawn, Records, WaitReady,
         WaitTimesOut, Cleans, Guard, Launch, StopWatchdog, Shutdown, Kills, Forget, Locks, InitEnds,
         Calling, Goes, Returns
<1>7. read' \in [Shells -> Configs \cup {None}] /\ HasRead'
  <2>1. read' \in [Shells -> Configs \cup {None}]
    BY <1>6 DEF StateShape, ScriptShape
  <2>2. Sources(s) => read'[s] \in Configs
    BY DEF Sources, StateShape, ScriptShape
  <2>3. \A t \in Shells \ {s} : call'[t] = call[t] /\ read'[t] = read[t]
    BY <1>3, <1>6 DEF Called, ScriptShape
  <2> QED
    BY <1>6, <2>1, <2>2, <2>3 DEF HasRead
<1>8. Locked'
  BY <1>1, <1>3, <1>6 DEF Locked, Called
<1>9. events' = events /\ kills' = kills /\ faults' \in 0 .. MaxFaults
  BY Faults DEF CallStep, Sources, StartChecks, Spawn, Records, WaitReady, WaitTimesOut, Cleans, Guard,
                Launch, StopWatchdog, Shutdown, Kills, Forget, Locks, InitEnds, Calling, Goes, Returns,
                NoFault, bounds
<1>10. raced' \in BOOLEAN
  <2>1. raced' = raced \/ raced' = (raced \/ \E t \in Shells : fresh[t] # None)
    BY DEF CallStep, Sources, StartChecks, Spawn, Records, WaitReady, WaitTimesOut, Cleans, Guard, Launch,
           StopWatchdog, Shutdown, Kills, Forget, Locks, InitEnds, Calling, Goes, Returns, history
  <2> QED
    BY <2>1, Zenon DEF HistoryShape
<1> QED
  BY <1>1, <1>2, <1>5, <1>7, <1>8, <1>9, <1>10 DEF StateShape, ScriptShape, CountShape, HistoryShape

LEMMA SpawnKeepsTypes ==
  ASSUME Types, NEW s \in Shells, Spawn(s)
  PROVE  Types'
<1> USE DEF Types, Spawn, Calling, Goes, bounds
<1>1. /\ UNCHANGED <<cfg, known, array, at, tries, overlapped, hasty, pidfile, wpid, flock, env, result, again, read>>
      /\ UNCHANGED <<events, faults, kills, skipped, fitted>>
  OBVIOUS
<1>2. read[s] \in Configs
  BY DEF HasRead, Unsourced
<1>3. /\ daemon' \in [Pids -> {"none", "starting", "up", "hung"}]
      /\ home' \in [Pids -> Dirs \cup {None}] /\ fresh' \in [Shells -> Pids \cup {None}]
  BY <1>2, LifecycleAssumption DEF LifecycleAssumption, StateShape, Living
<1>4. call' \in [Shells -> CallPlaces] /\ \A t \in Shells : call'[t] = "reconcile" <=> call[t] = "reconcile"
  BY DEF ScriptShape, CallPlaces
<1>5. HasRead'
  BY <1>1, <1>2 DEF HasRead, Unsourced, ScriptShape
<1>6. raced' \in BOOLEAN /\ mixed' \in BOOLEAN
  BY Zenon
<1> QED
  BY <1>1, <1>3, <1>4, <1>5, <1>6 DEF StateShape, ScriptShape, CountShape, HistoryShape, Locked

\* A call launches a watchdog, or kills the one of the pid file.
LEMMA WatchdogCallKeepsTypes ==
  ASSUME Types, NEW s \in Shells, Launch(s) \/ StopWatchdog(s)
  PROVE  Types'
<1> USE DEF Types, Launch, StopWatchdog, Goes, Returns, bounds, history, processes
<1>1. /\ UNCHANGED <<cfg, known, array, processes, flock, env, again, bounds, history>>
      /\ \A t \in Shells \ {s} : call'[t] = call[t] /\ (t \notin Watchdogs => read'[t] = read[t])
  BY Sorts DEF ScriptShape, StateShape
<1>2. wpid' \in Watchdogs \cup {None} /\ (wpid # None => wpid \in Watchdogs)
  BY DEF StateShape, Unused
<1>3. at' \in [Shells -> Places]
  BY Sorts DEF StateShape, ScriptShape, Places, Unused
<1>4. call' \in [Shells -> CallPlaces] /\ \A t \in Shells : call'[t] = "reconcile" <=> call[t] = "reconcile"
  BY DEF ScriptShape, CallPlaces
<1>5. result' \in [Shells -> {"none", "ok", "fail"}] /\ read' \in [Shells -> Configs \cup {None}]
  BY DEF ScriptShape
<1>6. CountShape'
  BY <1>1, <1>2, Sorts DEF CountShape
<1>7. HasRead'
  BY <1>1, <1>2, <1>4 DEF HasRead, Unsourced, StateShape, ScriptShape
<1> QED
  BY <1>1, <1>2, <1>3, <1>4, <1>5, <1>6, <1>7 DEF StateShape, ScriptShape, HistoryShape, Locked

\* incus-init.sh takes the lock or not, and gives it back.
LEMMA InitKeepsTypes ==
  ASSUME Types, NEW s \in Shells, Locks(s) \/ InitEnds(s)
  PROVE  Types'
<1> USE DEF Types, Locks, InitEnds, Calling, Goes, Returns, bounds, processes
<1>1. /\ UNCHANGED <<cfg, known, array, processes, wpid, at, again, tries, bounds>>
      /\ UNCHANGED <<raced, overlapped, hasty, mixed>>
  OBVIOUS
<1>2. read[s] \in Configs
  BY DEF HasRead, Unsourced
<1>3. /\ call' \in [Shells -> CallPlaces] /\ result' \in [Shells -> {"none", "ok", "fail"}]
      /\ read' \in [Shells -> Configs \cup {None}]
  BY DEF ScriptShape, CallPlaces
<1>4. flock' \in Shells \cup {None} /\ env' \in Configs \cup {None} /\ fitted' \subseteq Configs /\ skipped' \in BOOLEAN
  BY <1>2 DEF StateShape, HistoryShape
<1>5. Locked'
  <2>1. \A t \in Shells \ {s} : call'[t] = call[t]
    BY DEF ScriptShape
  <2>2. \/ flock = None /\ flock' = s /\ call'[s] = "reconcile" /\ call[s] # "reconcile"
        \/ flock' = flock /\ flock # None /\ call'[s] = "none" /\ call[s] # "reconcile"
        \/ flock' = None /\ call[s] = "reconcile" /\ call'[s] = "none"
    BY DEF ScriptShape
  <2> QED
    BY <2>1, <2>2, Sorts DEF Locked
<1>6. HasRead'
  BY <1>2 DEF HasRead, Unsourced, ScriptShape
<1> QED
  BY <1>1, <1>3, <1>4, <1>5, <1>6 DEF StateShape, ScriptShape, CountShape, HistoryShape

LEMMA DaemonKeepsTypes ==
  ASSUME Types, NEW p \in Pids, DaemonStep(p)
  PROVE  Types'
<1> USE DEF Types
<1>1. UNCHANGED <<cfg, known, array, wpid, flock, env, calls, scripts, history>>
  BY DEF DaemonStep, ComesUp, Yields, Hangs, Dies, Daemon
<1>2. \E state \in {"none", "up", "hung"} : Becomes(p, state)
  BY DEF DaemonStep, ComesUp, Yields, Hangs, Dies, Daemon
<1>3. /\ daemon' \in [Pids -> {"none", "starting", "up", "hung"}]
      /\ home' \in [Pids -> Dirs \cup {None}] /\ fresh' \in [Shells -> Pids \cup {None}]
      /\ pidfile' \in Pids \cup {None}
  BY <1>2, BecomesKeeps
<1>4. events' = events /\ kills' = kills /\ faults' \in 0 .. MaxFaults
  BY Faults DEF DaemonStep, ComesUp, Yields, Hangs, Dies, Daemon
<1> QED
  BY <1>1, <1>3, <1>4 DEF calls, scripts, history, StateShape, ScriptShape, CountShape, HistoryShape, Locked, HasRead

\* A script of shell s goes on, whatever it calls: rc.incus or incus-init.sh
\* from their beginnings.
ScriptGoes(s) ==
  \E p \in Places, q \in Places, c \in {"none", "start", "stop", "init"} :
    \/ Script(s, p, q, c) \/ Restarts(s, p, q)
    \/ \E r \in {"ok", "fail"} : Done(s, p, r)

\* What a step of a script leaves alone.
Moved(s) ==
  /\ UNCHANGED <<processes, flock, env, raced, skipped>>
  /\ \A t \in Shells \ {s} : /\ at'[t] = at[t] /\ call'[t] = call[t] /\ result'[t] = result[t]
                             /\ read'[t] = read[t] /\ (again'[t] <=> again[t])
  /\ call'[s] = call[s] \/ (call[s] = "none" /\ call'[s] \in Unsourced)
  /\ (hasty => hasty') /\ (mixed => mixed') /\ (overlapped => overlapped')

LEMMA ScriptKeepsTypes ==
  ASSUME Types, NEW s \in Shells, ScriptGoes(s), Quiet,
         read' = read \/ \E c \in Configs \cup {None} : read' = [read EXCEPT ![s] = c],
         cfg' \in Configs, known' \in Configs, array' \in {"down", "up", "unmounting"},
         wpid' \in Watchdogs \cup {None}, tries' \in [Shells -> Nat],
         tries'["events"] <= MaxAttempts, \A w \in Watchdogs : tries'[w] <= MaxRestarts,
         events' \in 0 .. MaxEvents, fitted' \subseteq Configs,
         overlapped' \in BOOLEAN, overlapped => overlapped',
         hasty' \in BOOLEAN, hasty => hasty', mixed' \in BOOLEAN, mixed => mixed'
  PROVE  Types' /\ Moved(s)
<1> USE DEF Types, Quiet, processes
<1>1. /\ call[s] = "none" /\ call'[s] \in Unsourced /\ ScriptShape'
      /\ \A t \in Shells \ {s} : /\ call'[t] = call[t] /\ at'[t] = at[t] /\ result'[t] = result[t]
                                 /\ read'[t] = read[t] /\ (again'[t] <=> again[t])
  <2>1. PICK q \in Places, c \in {"none", "start", "stop", "init"}, r \in {"none", "ok", "fail"}, b \in BOOLEAN :
          /\ call[s] = "none" /\ at' = [at EXCEPT ![s] = q]
          /\ call' = [call EXCEPT ![s] = c] \/ (call' = call /\ c = "none")
          /\ result' = [result EXCEPT ![s] = r]
          /\ again' = [again EXCEPT ![s] = b] \/ again' = again
    BY DEF ScriptGoes, Script, Restarts, Done, Places
  <2>2. again' \in [Shells -> BOOLEAN]
    BY <2>1 DEF ScriptShape
  <2>3. call' \in [Shells -> CallPlaces]
    BY <2>1 DEF ScriptShape, CallPlaces
  <2>4. call'[s] \in Unsourced
    BY <2>1 DEF ScriptShape, Unsourced
  <2>5. at' \in [Shells -> Places] /\ result' \in [Shells -> {"none", "ok", "fail"}]
    BY <2>1 DEF ScriptShape
  <2>6. read' \in [Shells -> Configs \cup {None}] /\ \A t \in Shells \ {s} : read'[t] = read[t]
    BY DEF ScriptShape
  <2>7. \A t \in Shells \ {s} : call'[t] = call[t] /\ at'[t] = at[t] /\ result'[t] = result[t] /\ (again'[t] <=> again[t])
    BY <2>1 DEF ScriptShape
  <2> QED
    BY <2>1, <2>2, <2>3, <2>4, <2>5, <2>6, <2>7 DEF ScriptShape
<1>2. Locked' /\ HasRead'
  BY <1>1 DEF Locked, HasRead, Unsourced
<1>3. StateShape' /\ CountShape'
  BY DEF StateShape, CountShape
<1>4. HistoryShape'
  BY Zenon DEF HistoryShape
<1>5. Moved(s)
  BY <1>1 DEF Moved
<1> QED
  BY <1>1, <1>2, <1>3, <1>4, <1>5

\* What a script adds to the histories.
LEMMA Histories ==
  ASSUME Types, NEW s \in Shells,
         \/ UNCHANGED overlapped
         \/ SetsOut(s)
         \/ Acts(s)
  PROVE  overlapped' \in BOOLEAN /\ (overlapped => overlapped')
BY Zenon DEF Types, HistoryShape, SetsOut, Acts

\* The scripts of the array events.
LEMMA EventsKeepTypes ==
  ASSUME Types, Mounted \/ Unmounting \/ EventsGoOn
  PROVE  Types' /\ Moved("events")
<1> USE DEF Types, Mounted, Unmounting, EventsGoOn, MountRetries, MountGoesOn, Unmounted
<1>1. ScriptGoes("events")
  BY DEF ScriptGoes, Places
<1>2. /\ UNCHANGED <<cfg, known, wpid, read, fitted, hasty, mixed>> /\ Quiet
      /\ array' \in {"down", "up", "unmounting"}
  BY DEF StateShape, Onward
<1>3. events' \in 0 .. MaxEvents
  <2>1. events' = events \/ (events < MaxEvents /\ events' = events + 1)
    OBVIOUS
  <2> QED
    BY <2>1, Sorts DEF CountShape
<1>4. UNCHANGED overlapped \/ SetsOut("events")
  BY DEF Onward
<1>5. /\ tries' \in [Shells -> Nat] /\ tries'["events"] <= MaxAttempts
      /\ \A w \in Watchdogs : tries'[w] <= MaxRestarts
  <2>1. \/ tries' = tries \/ tries' = [tries EXCEPT !["events"] = 0] \/ tries' = [tries EXCEPT !["events"] = 1]
        \/ tries["events"] < MaxAttempts /\ tries' = [tries EXCEPT !["events"] = @ + 1]
    OBVIOUS
  <2>2. PICK n \in 0 .. MaxAttempts : tries' = [tries EXCEPT !["events"] = n]
    <3>1. tries = [tries EXCEPT !["events"] = tries["events"]] /\ tries["events"] \in 0 .. MaxAttempts
      BY Sorts DEF CountShape
    <3>2. 0 \in 0 .. MaxAttempts /\ 1 \in 0 .. MaxAttempts
      BY Sorts
    <3>3. tries["events"] < MaxAttempts => tries["events"] + 1 \in 0 .. MaxAttempts
      BY Sorts, <3>1
    <3> QED
      BY <2>1, <3>1, <3>2, <3>3
  <2> QED
    BY Sorts, <2>2 DEF CountShape
<1>6. hasty' \in BOOLEAN /\ mixed' \in BOOLEAN /\ fitted' \subseteq Configs
  BY <1>2, Zenon DEF HistoryShape
<1>7. "events" \in Shells
  BY Sorts
<1>8. overlapped' \in BOOLEAN /\ (overlapped => overlapped')
  BY <1>4, <1>7, Histories
<1> QED
  BY <1>1, <1>2, <1>3, <1>5, <1>6, <1>7, <1>8, ScriptKeepsTypes DEF StateShape

LEMMA WatchdogKeepsTypes ==
  ASSUME Types, NEW w \in Watchdogs, WatchdogReads(w) \/ Looks(w) \/ WatchdogGoesOn(w)
  PROVE  Types' /\ Moved(w)
<1> USE DEF Types, WatchdogReads, Looks, WatchdogGoesOn
<1>1. w \in Shells /\ w # "events"
  BY Sorts
<1>2. ScriptGoes(w)
  BY DEF ScriptGoes, Places
<1>3. /\ UNCHANGED <<cfg, known, array, events, fitted, hasty, mixed>> /\ Quiet
      /\ wpid' \in Watchdogs \cup {None}
      /\ read' = read \/ \E c \in Configs \cup {None} : read' = [read EXCEPT ![w] = c]
  BY DEF StateShape, Onward
<1>4. overlapped' \in BOOLEAN /\ (overlapped => overlapped')
  <2>1. UNCHANGED overlapped \/ SetsOut(w) \/ Acts(w)
    BY DEF Onward
  <2> QED
    BY <1>1, <2>1, Histories
<1>5. /\ tries' \in [Shells -> Nat] /\ tries'["events"] <= MaxAttempts
      /\ \A v \in Watchdogs : tries'[v] <= MaxRestarts
  <2>1. \/ tries' = tries \/ tries' = [tries EXCEPT ![w] = 0]
        \/ tries[w] < MaxRestarts /\ tries' = [tries EXCEPT ![w] = @ + 1]
    OBVIOUS
  <2> QED
    BY <1>1, <2>1, Sorts DEF CountShape
<1>6. hasty' \in BOOLEAN /\ mixed' \in BOOLEAN /\ fitted' \subseteq Configs
  BY <1>3, Zenon DEF HistoryShape
<1> QED
  BY <1>1, <1>2, <1>3, <1>4, <1>5, <1>6, ScriptKeepsTypes DEF StateShape, CountShape

LEMMA ApplyKeepsTypes ==
  ASSUME Types, NEW a \in Applies, ApplyGoesOn(a) \/ \E c \in Configs : Save(a, c)
  PROVE  Types' /\ Moved(a)
<1> USE DEF Types, Save
<1>1. a \in Shells
  BY Sorts
<1>2. ScriptGoes(a)
  BY DEF ScriptGoes, Places, ApplyGoesOn, ApplyReads, ApplyValidates, ApplyReconciles, Promotes, Restores,
         Reverts, Undone, Failing
<1>3. /\ UNCHANGED <<array, wpid, tries, events>> /\ Quiet
      /\ cfg' \in Configs /\ known' \in Configs
      /\ read' = read \/ \E c \in Configs \cup {None} : read' = [read EXCEPT ![a] = c]
  BY DEF StateShape, ApplyGoesOn, ApplyReads, ApplyValidates, ApplyReconciles, Promotes, Restores, Reverts,
         Undone, Failing, Applied, Onward, Script, Restarts, Done
<1>4. overlapped' \in BOOLEAN /\ (overlapped => overlapped')
  <2>1. UNCHANGED overlapped \/ SetsOut(a)
    BY DEF Onward, ApplyGoesOn, ApplyReads, ApplyValidates, ApplyReconciles, Promotes, Restores, Reverts,
           Undone, Failing, Applied, Script, Restarts, Done
  <2> QED
    BY <1>1, <2>1, Histories
<1>5. hasty' \in BOOLEAN /\ mixed' \in BOOLEAN /\ (hasty => hasty') /\ (mixed => mixed') /\ fitted' \subseteq Configs
  <2>1. \/ UNCHANGED <<hasty, mixed, fitted>>
        \/ /\ hasty' = (hasty \/ \E b \in Applies \ {a} : Applying(b))
           /\ mixed' = (mixed \/ cfg # known) /\ fitted' = {}
    BY DEF Onward, ApplyGoesOn, ApplyReads, ApplyValidates, ApplyReconciles, Promotes, Restores, Reverts,
           Undone, Failing, Applied, Script, Restarts, Done
  <2> QED
    BY <2>1, Zenon DEF HistoryShape
<1> QED
  BY <1>1, <1>2, <1>3, <1>4, <1>5, ScriptKeepsTypes DEF StateShape, CountShape

LEMMA TimesOutKeepsTypes ==
  ASSUME Types, NEW a \in Applies, TimesOut(a)
  PROVE  Types' /\ Moved(a)
<1>1. /\ at' \in [Shells -> Places] /\ result' \in [Shells -> {"none", "ok", "fail"}]
      /\ read' \in [Shells -> Configs \cup {None}]
      /\ \A t \in Shells \ {a} : at'[t] = at[t] /\ result'[t] = result[t] /\ read'[t] = read[t]
      /\ call[a] # "none" => read' = read
  BY Sorts DEF Types, TimesOut, ScriptShape, Places
<1>2. /\ UNCHANGED <<cfg, known, array, processes, wpid, flock, env, call, again, tries, events, faults>>
      /\ UNCHANGED <<raced, skipped, fitted, overlapped, hasty>>
  BY DEF TimesOut
<1>3. kills' \in 0 .. MaxKills
  BY Sorts DEF TimesOut, Types, CountShape
<1>4. mixed' \in BOOLEAN /\ (mixed => mixed')
  BY Zenon DEF TimesOut, Types, HistoryShape
<1>5. HasRead'
  BY <1>1, <1>2 DEF Types, HasRead, Unsourced
<1> QED
  BY <1>1, <1>2, <1>3, <1>4, <1>5 DEF Types, StateShape, ScriptShape, CountShape, HistoryShape, Locked, processes, Moved

\* The steps of the script of shell s.
ScriptStep(s) ==
  \/ s = "events" /\ (Mounted \/ Unmounting \/ EventsGoOn)
  \/ s \in Watchdogs /\ (WatchdogReads(s) \/ Looks(s) \/ WatchdogGoesOn(s))
  \/ s \in Applies /\ (ApplyGoesOn(s) \/ TimesOut(s) \/ \E c \in Configs : Save(s, c))

LEMMA ScriptFrame ==
  ASSUME Types, NEW s \in Shells, ScriptStep(s)
  PROVE  Types' /\ Moved(s)
BY EventsKeepTypes, WatchdogKeepsTypes, ApplyKeepsTypes, TimesOutKeepsTypes DEF ScriptStep

LEMMA Steps ==
  ASSUME Types, [Next]_vars
  PROVE  \/ UNCHANGED vars
         \/ \E s \in Shells : CallStep(s) \/ ScriptStep(s)
         \/ \E p \in Pids : DaemonStep(p)
BY Sorts DEF Next, ScriptStep

LEMMA NextTypes == Types /\ [Next]_vars => Types'
<1> SUFFICES ASSUME Types, [Next]_vars PROVE Types'
  OBVIOUS
<1>1. CASE UNCHANGED vars
  BY <1>1 DEF vars, processes, calls, scripts, bounds, history, Types, StateShape, ScriptShape, CountShape,
              HistoryShape, Locked, HasRead
<1>2. ASSUME NEW s \in Shells, CallStep(s) PROVE Types'
  BY <1>2, CallKeepsTypes, SpawnKeepsTypes, WatchdogCallKeepsTypes, InitKeepsTypes DEF CallStep
<1>3. ASSUME NEW p \in Pids, DaemonStep(p) PROVE Types'
  BY <1>3, DaemonKeepsTypes
<1>4. ASSUME NEW s \in Shells, ScriptStep(s) PROVE Types'
  BY <1>4, ScriptFrame
<1> QED
  BY <1>1, <1>2, <1>3, <1>4, Steps

-------------------------------------------------------------------------------
(* The order of an unmount *)

LEMMA NextOrder == Inv /\ [Next]_vars => EventOrder'
<1> SUFFICES ASSUME Inv, [Next]_vars PROVE EventOrder'
  OBVIOUS
<1> USE DEF Inv, Types, EventOrder
<1>1. CASE UNCHANGED vars
  BY <1>1 DEF vars, calls, scripts
<1>2. ASSUME NEW s \in Shells, CallStep(s) PROVE EventOrder'
  BY <1>2, CallFrame, Sorts DEF Called
<1>3. ASSUME NEW p \in Pids, DaemonStep(p) PROVE EventOrder'
  BY <1>3 DEF calls, scripts, DaemonStep, ComesUp, Yields, Hangs, Dies, Daemon
<1>4. CASE Mounted \/ Unmounting \/ EventsGoOn
  BY <1>4, Sorts DEF ScriptShape, Mounted, Unmounting, EventsGoOn, MountRetries, MountGoesOn, Unmounted,
                     Script
<1>5. ASSUME NEW s \in Shells \ {"events"}, ScriptStep(s) PROVE EventOrder'
  <2>1. array' = array
    BY <1>5 DEF ScriptStep, TimesOut, Save, WatchdogReads, Looks, WatchdogGoesOn, Script, ApplyGoesOn,
                ApplyReads, ApplyValidates, ApplyReconciles, Promotes, Restores, Reverts, Undone, Failing,
                Applied, Onward, Restarts, Done
  <2> QED
    BY <1>5, <2>1, ScriptFrame, Sorts DEF Moved
<1> QED
  BY <1>1, <1>2, <1>3, <1>4, <1>5, Steps, Sorts DEF ScriptStep

-------------------------------------------------------------------------------
(* One incusd, in the pid file *)

\* What a call that makes no process, and names none, does to those there are.
Reaps(s) ==
  /\ Living' \subseteq Living /\ (raced => raced')
  /\ \A t \in Shells : /\ fresh'[t] # None => fresh'[t] = fresh[t] /\ fresh[t] \in Living'
                       /\ fresh[t] \in Living' => fresh'[t] = fresh[t]
  /\ ~raced' => pidfile \notin Living' \/ pidfile' = pidfile
  /\ ~raced' /\ call'[s] \in {"forget", "cleaned"} => Living' = {}
  /\ call'[s] \in Launching => call[s] \in Launching
  /\ call'[s] # "record"
  /\ call[s] \in Stopping \ {"forget"} => call'[s] \in Stopping

LEMMA CallReaps ==
  ASSUME Inv, NEW s \in Shells, CallStep(s), ~Spawn(s), ~Records(s)
  PROVE  Reaps(s)
<1> USE DEF Inv, Types
<1>1. /\ call'[s] \in Launching => call[s] \in Launching
      /\ call'[s] # "record"
      /\ call[s] \in Stopping \ {"forget"} => call'[s] \in Stopping
  BY DEF ScriptShape, Launching, Stopping, Sourced, CallStep, Sources, StartChecks, Spawn, Records,
         WaitReady, WaitTimesOut, Cleans, Guard, Launch, StopWatchdog, Shutdown, Kills, Forget, Locks,
         InitEnds, Calling, Goes, Returns
<1>2. ASSUME UNCHANGED processes, raced' = raced, call'[s] \notin {"forget", "cleaned"} PROVE Reaps(s)
  BY <1>1, <1>2, Sorts DEF processes, Living, Reaps, Recording
<1>3. ASSUME NEW p \in Pids, Becomes(p, "none"), raced => raced',
             ~raced' => Living \subseteq {p}
      PROVE  Reaps(s)
  <2>1. /\ Living' = Living \ {p} /\ (pidfile' = pidfile \/ pidfile = p)
        /\ \A t \in Shells : fresh'[t] = fresh[t] \/ (fresh[t] = p /\ fresh'[t] = None)
        /\ \A t \in Shells : fresh'[t] = None \/ fresh'[t] # p
    <3>1. /\ Living' = Living \ {p} /\ (pidfile' = pidfile \/ pidfile = p)
          /\ \A t \in Shells : fresh'[t] = fresh[t] \/ (fresh[t] = p /\ fresh'[t] = None)
      BY <1>3, BecomesKeeps
    <3>2. \A t \in Shells : fresh'[t] = None \/ fresh'[t] # p
      BY <1>3, Sorts DEF Becomes, StateShape
    <3> QED
      BY <3>1, <3>2
  <2> QED
    BY <1>1, <1>3, <2>1, Sorts DEF Reaps, Recording
<1>4. CASE Kills(s)
  <2>1. raced' <=> raced \/ \E t \in Shells : fresh[t] # None
    BY <1>4, Zenon DEF Kills
  <2>2. ~raced' => Living \subseteq {pidfile}
    BY <2>1, Sorts DEF OneTracked, StateShape, Living
  <2>3. CASE pidfile = None
    <3>1. UNCHANGED processes
      BY <1>4, <2>3 DEF Kills
    <3>2. ~raced' => Living = {}
      BY <2>2, <2>3, Sorts DEF Living
    <3> QED
      BY <1>1, <2>1, <3>1, <3>2, Sorts DEF processes, Living, Reaps, Recording
  <2>4. CASE pidfile # None
    <3>1. pidfile \in Pids /\ Becomes(pidfile, "none")
      BY <1>4, <2>4 DEF Kills, StateShape
    <3> QED
      BY <1>3, <2>1, <2>2, <3>1
  <2> QED
    BY <2>3, <2>4
<1>5. CASE Shutdown(s)
  <2>1. raced' = raced
    BY <1>5 DEF Shutdown
  <2>2. CASE UNCHANGED processes /\ call'[s] = "kill"
    BY <1>2, <2>1, <2>2
  <2>3. ASSUME NEW p \in Serving(read[s]), Becomes(p, "none") PROVE Reaps(s)
    <3>1. p \in Living
      BY DEF Serving, Living
    <3>2. ~raced' => Living \subseteq {p}
      BY <2>1, <3>1 DEF OneTracked
    <3> QED
      BY <1>3, <2>1, <2>3, <3>1, <3>2 DEF Living
  <2> QED
    BY <1>5, <2>2, <2>3 DEF Shutdown, Goes, Calling, ScriptShape
<1>6. CASE Forget(s) \/ Cleans(s)
  <2>1. /\ UNCHANGED <<daemon, fresh>> /\ raced' = raced /\ call[s] \in {"forget", "cleaned"}
        /\ call'[s] \notin {"forget", "cleaned"}
    BY <1>6 DEF Forget, Cleans, Calling, Goes, Returns, ScriptShape
  <2>2. ~raced => Living = {}
    BY <2>1 DEF OneTracked
  <2> QED
    BY <1>1, <2>1, <2>2, Sorts DEF Living, Reaps, Recording
<1>7. CASE ~(Kills(s) \/ Shutdown(s) \/ Forget(s) \/ Cleans(s))
  <2>1. UNCHANGED processes /\ raced' = raced
    BY <1>7 DEF processes, history, CallStep, Sources, StartChecks, Spawn, Records, WaitReady,
                WaitTimesOut, Cleans, Guard, Launch, StopWatchdog, Shutdown, Kills, Forget, Locks,
                InitEnds, Calling, Goes, Returns
  <2>2. call'[s] \notin {"forget", "cleaned"}
    BY <1>7 DEF ScriptShape, Sourced, CallStep, Sources, StartChecks, Spawn, Records, WaitReady,
                WaitTimesOut, Cleans, Guard, Launch, StopWatchdog, Shutdown, Kills, Forget, Locks,
                InitEnds, Calling, Goes, Returns
  <2> QED
    BY <1>2, <2>1, <2>2
<1> QED
  BY <1>4, <1>5, <1>6, <1>7

\* A start that does not race finds no process, and no call that would remove
\* the pid of its own.
LEMMA SpawnTracks ==
  ASSUME Inv, NEW s \in Shells, Spawn(s)
  PROVE  /\ Recording' /\ OneTracked' /\ array' = array /\ cfg' = cfg /\ (raced => raced')
         /\ ~raced' => array = "up" /\ cfg \in Enabled
<1> USE DEF Inv, Types
<1>1. raced' <=> raced \/ BadTime(s)
  BY Zenon DEF Spawn
<1>2. call[s] = "spawn" /\ call' = [call EXCEPT ![s] = "record"] /\ UNCHANGED <<array, cfg>>
  BY DEF Spawn, Calling, Goes
<1>3. PICK p \in Pids \ Living : daemon' = [daemon EXCEPT ![p] = "starting"] /\ fresh' = [fresh EXCEPT ![s] = p]
  BY DEF Spawn
<1>4. Living' = Living \cup {p} /\ call'[s] = "record" /\ fresh'[s] = p
      /\ \A t \in Shells \ {s} : call'[t] = call[t] /\ fresh'[t] = fresh[t]
  BY <1>2, <1>3 DEF Living, StateShape, ScriptShape
<1>5. Recording'
  BY <1>4 DEF Recording
<1>6. ASSUME ~raced' PROVE OneTracked'
  <2>1. Living = {} /\ \A t \in Shells \ {s} : call[t] \notin Launching \cup {"forget"}
    BY <1>1, <1>6 DEF BadTime, Launching
  <2>2. Living' = {p}
    BY <1>4, <2>1
  <2>3. \A t \in Shells : call'[t] \in Launching \cup {"forget"} => t = s
    BY <1>4, <2>1
  <2>4. Living' \subseteq {fresh'[t] : t \in Shells}
    BY <1>4, <2>2
  <2>5. \A t \in Shells : /\ call'[t] \in {"forget", "cleaned"} => Living' = {}
                          /\ call'[t] = "record" => Living' \subseteq {fresh'[t]}
    BY <1>4, <2>2, <2>3 DEF Launching
  <2> QED
    BY <2>2, <2>3, <2>4, <2>5 DEF OneTracked
<1> QED
  BY <1>1, <1>2, <1>5, <1>6, Zenon DEF BadTime, OneTracked

\* The pid that is written is the one of the living incusd.
LEMMA RecordsTracks ==
  ASSUME Inv, NEW s \in Shells, Records(s)
  PROVE  Recording' /\ OneTracked' /\ Living' = Living /\ raced' = raced
<1> USE DEF Inv, Types
<1>1. /\ call[s] = "record" /\ call' = [call EXCEPT ![s] = "wait"] /\ UNCHANGED <<daemon, raced>>
      /\ pidfile' = fresh[s] /\ fresh' = [fresh EXCEPT ![s] = None]
  BY DEF Records, Calling, Goes
<1>2. Living' = Living /\ call'[s] = "wait" /\ fresh'[s] = None
      /\ \A t \in Shells \ {s} : call'[t] = call[t] /\ fresh'[t] = fresh[t]
  BY <1>1 DEF Living, StateShape, ScriptShape
<1>3. Recording'
  BY <1>2 DEF Recording
<1>4. ASSUME ~raced PROVE OneTracked'
  <2>1. Living \subseteq {pidfile'}
    BY <1>1, <1>4 DEF OneTracked
  <2>2. \A t \in Shells \ {s} : call[t] \notin Launching
    BY <1>1, <1>4 DEF OneTracked, Launching
  <2> QED
    BY <1>2, <1>4, <2>1, <2>2 DEF OneTracked, Launching
<1> QED
  BY <1>1, <1>2, <1>3, <1>4 DEF OneTracked

LEMMA CallTracks ==
  ASSUME Inv, NEW s \in Shells, CallStep(s)
  PROVE  Recording' /\ OneTracked'
<1>1. CASE Spawn(s)
  BY <1>1, SpawnTracks
<1>2. CASE Records(s)
  BY <1>2, RecordsTracks
<1>3. CASE ~Spawn(s) /\ ~Records(s)
  <2>1. Reaps(s) /\ \A t \in Shells \ {s} : call'[t] = call[t]
    BY <1>3, CallReaps, CallFrame DEF Inv, Called
  <2>2. call[s] = "record" => fresh[s] = None
    <3>1. call[s] # "record"
      BY <1>3 DEF CallStep, Sources, StartChecks, Spawn, Records, WaitReady, WaitTimesOut, Cleans, Guard,
                  Launch, StopWatchdog, Shutdown, Kills, Forget, Locks, InitEnds, Calling, Goes, Returns
    <3> QED
      BY <3>1
  <2>3. Recording'
    BY <2>1, <2>2 DEF Inv, Recording, Reaps
  <2>4. ASSUME ~raced' PROVE OneTracked'
    <3>1. /\ \A p, q \in Living : p = q
          /\ Living \subseteq {pidfile} \cup {fresh[t] : t \in Shells}
          /\ \A t, u \in Shells : call[t] \in Launching /\ call[u] \in Launching => t = u
          /\ \A t \in Shells : /\ call[t] \in {"forget", "cleaned"} => Living = {}
                               /\ call[t] = "record" => Living \subseteq {fresh[t]}
      BY <2>1, <2>4 DEF Inv, OneTracked, Reaps
    <3>2. Living' \subseteq {pidfile'} \cup {fresh'[t] : t \in Shells}
      BY <2>1, <2>4, <3>1 DEF Reaps
    <3>3. \A t, u \in Shells : call'[t] \in Launching /\ call'[u] \in Launching => t = u
      BY <2>1, <3>1 DEF Reaps
    <3>4. \A t \in Shells : /\ call'[t] \in {"forget", "cleaned"} => Living' = {}
                            /\ call'[t] = "record" => Living' \subseteq {fresh'[t]}
      BY <2>1, <2>4, <3>1 DEF Reaps
    <3> QED
      BY <2>1, <3>1, <3>2, <3>3, <3>4 DEF OneTracked, Reaps
  <2> QED
    BY <2>3, <2>4 DEF OneTracked
<1> QED
  BY <1>1, <1>2, <1>3

LEMMA DaemonTracks ==
  ASSUME Inv, NEW p \in Pids, DaemonStep(p)
  PROVE  /\ Recording' /\ OneTracked' /\ Living' \subseteq Living
         /\ UNCHANGED <<cfg, known, array, env, wpid, calls, scripts, history>>
<1> USE DEF Inv, Types
<1>1. /\ daemon[p] # "none" /\ UNCHANGED <<cfg, known, array, env, wpid, calls, scripts, history>>
      /\ \E to \in {"none", "up", "hung"} : Becomes(p, to)
  BY DEF DaemonStep, ComesUp, Yields, Hangs, Dies, Daemon
<1>2. PICK to \in {"none", "up", "hung"} : Becomes(p, to)
  BY <1>1
<1>3. /\ Living' = IF to = "none" THEN Living \ {p} ELSE Living
      /\ \A s \in Shells : fresh'[s] = fresh[s] \/ (to = "none" /\ fresh[s] = p /\ fresh'[s] = None)
      /\ pidfile' = pidfile \/ (to = "none" /\ pidfile = p /\ pidfile' = None)
  BY <1>1, <1>2, BecomesKeeps
<1>4. call' = call /\ raced' = raced
  BY <1>1 DEF calls, history
<1>5. \A s \in Shells : to = "none" => fresh'[s] # p
  BY <1>2, Sorts DEF Becomes, StateShape
<1>6. Recording'
  BY <1>3, <1>4, <1>5, Sorts DEF Recording
<1>7. OneTracked'
  BY <1>3, <1>4 DEF OneTracked, Launching
<1> QED
  BY <1>1, <1>3, <1>6, <1>7

\* Scripts touch no process.
LEMMA ScriptTracks ==
  ASSUME Inv, NEW s \in Shells, ScriptStep(s)
  PROVE  /\ Recording' /\ OneTracked' /\ Living' = Living /\ raced' = raced
         /\ \A t \in Shells : call'[t] = call[t] \/ (call[t] = "none" /\ call'[t] \in Unsourced)
<1>1. Moved(s)
  BY ScriptFrame DEF Inv
<1>2. UNCHANGED <<daemon, pidfile, fresh, raced>> /\ Living' = Living
      /\ \A t \in Shells : call'[t] = call[t] \/ (call[t] = "none" /\ call'[t] \in Unsourced)
  BY <1>1 DEF Moved, processes, Living
<1>3. Recording'
  BY <1>2 DEF Inv, Recording
<1>4. OneTracked'
  BY <1>2 DEF Inv, OneTracked, Launching, Unsourced
<1> QED
  BY <1>2, <1>3, <1>4

LEMMA NextInv == Inv /\ [Next]_vars => Inv'
<1> SUFFICES ASSUME Inv, [Next]_vars PROVE Inv'
  OBVIOUS
<1>1. Recording' /\ OneTracked'
  <2>1. CASE UNCHANGED vars
    BY <2>1 DEF vars, processes, calls, scripts, history, Inv, OneTracked, Recording, Living
  <2>2. ASSUME NEW s \in Shells, CallStep(s) PROVE Recording' /\ OneTracked'
    BY <2>2, CallTracks
  <2>3. ASSUME NEW p \in Pids, DaemonStep(p) PROVE Recording' /\ OneTracked'
    BY <2>3, DaemonTracks
  <2>4. ASSUME NEW s \in Shells, ScriptStep(s) PROVE Recording' /\ OneTracked'
    BY <2>4, ScriptTracks
  <2> QED
    BY <2>1, <2>2, <2>3, <2>4, Steps DEF Inv
<1> QED
  BY <1>1, NextTypes, NextOrder DEF Inv

LEMMA InvHolds == Spec => []Inv
  BY InitInv, NextInv, PTL DEF Spec

-------------------------------------------------------------------------------
(* The disks go last *)

LEMMA CallDown ==
  ASSUME Inv, DownLast, NEW s \in Shells, CallStep(s)
  PROVE  DownLast'
<1>1. CASE Spawn(s)
  BY <1>1, SpawnTracks DEF DownLast
<1>2. CASE Records(s)
  <2>1. Living' = Living /\ raced' = raced /\ Called(s)
    BY <1>2, RecordsTracks, CallFrame DEF Inv, CallStep
  <2>2. call[s] \notin Stopping
    BY <1>2 DEF Records, Calling, Stopping
  <2> QED
    BY <2>1, <2>2, Sorts DEF DownLast, Called
<1>3. CASE ~Spawn(s) /\ ~Records(s)
  <2>1. Reaps(s) /\ Called(s)
    BY <1>3, CallReaps, CallFrame DEF Inv
  <2>2. ~raced /\ call["events"] = "forget" => Living = {}
    BY Sorts DEF Inv, OneTracked
  <2>3. call["events"] \in Stopping \ {"forget"} => call'["events"] \in Stopping
    BY <2>1, Sorts DEF Reaps, Called
  <2> QED
    BY <2>1, <2>2, <2>3 DEF DownLast, Reaps, Called
<1> QED
  BY <1>1, <1>2, <1>3

LEMMA EventsDown ==
  ASSUME Inv, DownLast, Mounted \/ Unmounting \/ EventsGoOn, cfg \in Enabled
  PROVE  DownLast'
<1>1. Living' = Living /\ raced' = raced
  BY ScriptTracks, Sorts DEF ScriptStep
<1>2. CASE Mounted
  BY <1>2 DEF Mounted, DownLast
<1>3. CASE Unmounting
  <2>1. array' = "unmounting" /\ call'["events"] = "stop"
    BY <1>3, Sorts DEF Unmounting, Script, Inv, Types, ScriptShape
  <2> QED
    BY <2>1 DEF DownLast, Stopping
<1>4. CASE MountRetries \/ MountGoesOn
  <2>1. array' = array /\ array # "unmounting"
    BY <1>4 DEF MountRetries, MountGoesOn, Script, Inv, EventOrder
  <2> QED
    BY <1>1, <2>1 DEF DownLast
<1>5. CASE Unmounted
  <2>1. array = "unmounting" /\ array' = "down" /\ call["events"] = "none"
    BY <1>5 DEF Unmounted, Script
  <2> QED
    BY <1>1, <2>1 DEF DownLast, Stopping
<1> QED
  BY <1>2, <1>3, <1>4, <1>5 DEF EventsGoOn

LEMMA NextDown == Inv /\ cfg \in Enabled /\ DownLast /\ [Next]_vars => DownLast'
<1> SUFFICES ASSUME Inv, cfg \in Enabled, DownLast, [Next]_vars PROVE DownLast'
  OBVIOUS
<1>1. CASE UNCHANGED vars
  BY <1>1 DEF vars, processes, calls, scripts, history, DownLast, Living
<1>2. ASSUME NEW s \in Shells, CallStep(s) PROVE DownLast'
  BY <1>2, CallDown
<1>3. ASSUME NEW p \in Pids, DaemonStep(p) PROVE DownLast'
  BY <1>3, DaemonTracks DEF DownLast, calls, history
<1>4. CASE Mounted \/ Unmounting \/ EventsGoOn
  BY <1>4, EventsDown
<1>5. ASSUME NEW s \in Shells \ {"events"}, ScriptStep(s) PROVE DownLast'
  <2>1. Living' = Living /\ raced' = raced
    BY <1>5, ScriptTracks
  <2>2. array' = array
    BY <1>5 DEF ScriptStep, TimesOut, Save, WatchdogReads, Looks, WatchdogGoesOn, Script, ApplyGoesOn,
                ApplyReads, ApplyValidates, ApplyReconciles, Promotes, Restores, Reverts, Undone, Failing,
                Applied, Onward, Restarts, Done
  <2>3. call'["events"] = call["events"]
    BY <1>5, ScriptFrame, Sorts DEF Inv, Moved
  <2> QED
    BY <2>1, <2>2, <2>3 DEF DownLast
<1> QED
  BY <1>1, <1>2, <1>3, <1>4, <1>5, Steps, Sorts DEF ScriptStep, Inv

-------------------------------------------------------------------------------
(* Saves and their scripts *)

\* As long as no save was hasty: one apply-settings.sh at most is under way, and
\* it goes by the config in force.
ApplyOrder ==
  hasty \/ /\ \A a, b \in Applies : Applying(a) /\ Applying(b) => a = b
           /\ \A a \in Applies :
                /\ at[a] = "validating" => call[a] = "none" /\ read[a] = cfg
                /\ at[a] = "disabling" => cfg \notin Enabled /\ call[a] \in Stopping \cup {"none"} /\ ~again[a]
                /\ at[a] \in {"restarting", "reconciling"} => cfg \in Enabled

\* No incusd is left, or a stop is on its way to it.
Still == Living = {} \/ \E s \in Shells : call[s] \in Stopping \ {"forget"}

OffLast ==
  raced \/ hasty \/ mixed \/
    /\ cfg \notin Enabled /\ cfg = known => Still \/ \E a \in Applies : at[a] = "restored"
    /\ \A a \in Applies :
         /\ known \notin Enabled /\ at[a] \in {"saved", "validating"} => Still
         /\ at[a] = "disabling" /\ result[a] = "ok" => Living = {}

\* The script of the save reconciles the config that it promotes.
Reconciled ==
  hasty \/ \A a \in Applies : at[a] = "reconciling" =>
    /\ call[a] \in {"none", "init", "lock", "reconcile"}
    /\ call[a] # "none" => result[a] = "none"
    /\ call[a] \in {"lock", "reconcile"} => read[a] = cfg
    /\ result[a] = "ok" => cfg \in fitted \/ skipped

LEMMA InitSaves == Init => ApplyOrder /\ OffLast /\ Reconciled
<1> SUFFICES ASSUME Init PROVE ApplyOrder /\ OffLast /\ Reconciled
  OBVIOUS
<1>1. \A a \in Applies : at[a] = "idle"
  BY Sorts DEF Init
<1>2. Still
  BY DEF Init, Still, Living
<1> QED
  BY <1>1, <1>2 DEF ApplyOrder, OffLast, Reconciled, Applying

\* Of the calls of a script that disables, Forget alone succeeds; of those of a
\* script that reconciles, incus-init.sh.
LEMMA CallOutcome ==
  ASSUME Inv, NEW s \in Shells \ Watchdogs, CallStep(s), ~Dead(s)
  PROVE  /\ call[s] \in Stopping /\ ~again[s] =>
              /\ call'[s] \in Stopping \cup {"none"} /\ ~again'[s]
              /\ result'[s] = "ok" => result[s] = "ok" \/ call[s] = "forget"
         /\ call[s] \in {"init", "lock", "reconcile"} =>
              /\ call'[s] \in {"none", "lock", "reconcile"}
              /\ call'[s] # "none" => result'[s] = result[s]
              /\ call[s] = "init" => read'[s] = cfg
              /\ call'[s] = "reconcile" => read'[s] = read[s]
              /\ result'[s] = "ok" => result[s] = "ok" \/ skipped' \/ read[s] \in fitted'
         /\ fitted \subseteq fitted' /\ (skipped => skipped')
<1> USE DEF Inv, Types
<1>1. ASSUME call[s] \in Stopping, ~again[s]
      PROVE  /\ call'[s] \in Stopping \cup {"none"} /\ ~again'[s]
             /\ result'[s] = "ok" => result[s] = "ok" \/ call[s] = "forget"
  <2>1. Sources(s) \/ StopWatchdog(s) \/ Shutdown(s) \/ Kills(s) \/ Forget(s)
    BY <1>1 DEF Stopping, CallStep, Sources, StartChecks, Spawn, Records, WaitReady, WaitTimesOut, Cleans,
                Guard, Launch, StopWatchdog, Shutdown, Kills, Forget, Locks, InitEnds, Calling, Goes,
                Returns
  <2>2. CASE StopWatchdog(s)
    BY <1>1, <2>2 DEF StopWatchdog, ScriptShape, StateShape, Stopping
  <2>3. CASE Sources(s) \/ Shutdown(s) \/ Kills(s)
    BY <1>1, <2>3 DEF Sources, Sourced, Shutdown, Kills, Calling, Goes, ScriptShape, Stopping
  <2>4. CASE Forget(s)
    BY <1>1, <2>4 DEF Forget, Calling, Returns, Goes, ScriptShape, Stopping
  <2> QED
    BY <2>1, <2>2, <2>3, <2>4
<1>2. ASSUME call[s] \in {"init", "lock", "reconcile"}
      PROVE  /\ call'[s] \in {"none", "lock", "reconcile"}
             /\ call'[s] # "none" => result'[s] = result[s]
             /\ call[s] = "init" => read'[s] = cfg
             /\ call'[s] = "reconcile" => read'[s] = read[s]
             /\ result'[s] = "ok" => result[s] = "ok" \/ skipped' \/ read[s] \in fitted'
  <2>1. Sources(s) \/ Locks(s) \/ InitEnds(s)
    BY <1>2 DEF CallStep, Sources, StartChecks, Spawn, Records, WaitReady, WaitTimesOut, Cleans, Guard,
                Launch, StopWatchdog, Shutdown, Kills, Forget, Locks, InitEnds, Calling, Goes, Returns
  <2>2. CASE Sources(s)
    BY <1>2, <2>2 DEF Sources, Sourced, ScriptShape
  <2>3. CASE Locks(s)
    BY <1>2, <2>3 DEF Locks, Calling, Goes, Returns, ScriptShape
  <2>4. CASE InitEnds(s)
    BY <1>2, <2>4 DEF InitEnds, Calling, Goes, Returns, ScriptShape
  <2> QED
    BY <2>1, <2>2, <2>3, <2>4
<1>3. fitted \subseteq fitted' /\ (skipped => skipped')
  BY DEF history, CallStep, Sources, StartChecks, Spawn, Records, WaitReady, WaitTimesOut, Cleans, Guard,
         Launch, StopWatchdog, Shutdown, Kills, Forget, Locks, InitEnds, Calling, Goes, Returns
<1> QED
  BY <1>1, <1>2, <1>3

\* The steps that are not those of an apply-settings.sh.
LEMMA OthersOrder ==
  ASSUME Inv, ApplyOrder, NEW s \in Shells, CallStep(s) \/ (ScriptStep(s) /\ s \notin Applies)
  PROVE  /\ ApplyOrder' /\ UNCHANGED <<cfg, known, hasty>>
         /\ \A a \in Applies : /\ at'[a] = at[a]
                               /\ a # s => /\ call'[a] = call[a] /\ result'[a] = result[a] /\ read'[a] = read[a]
                                           /\ again'[a] <=> again[a]
<1> USE DEF Inv, Types
<1>1. CASE CallStep(s)
  <2>1. Called(s)
    BY <1>1, CallFrame
  <2>2. s \in Applies /\ at[s] = "disabling" /\ call[s] \in Stopping /\ ~again[s]
          => call'[s] \in Stopping \cup {"none"} /\ ~again'[s]
    BY <1>1, CallOutcome, Sorts DEF Dead
  <2> QED
    BY <2>1, <2>2, Sorts DEF Called, ApplyOrder, Applying
<1>2. CASE ScriptStep(s) /\ s \notin Applies
  <2>1. Moved(s) /\ UNCHANGED <<cfg, known, hasty>>
    BY <1>2, ScriptFrame DEF ScriptStep, Onward, Mounted, Unmounting, EventsGoOn, MountRetries,
                             MountGoesOn, Unmounted, Script, WatchdogReads, Looks, WatchdogGoesOn
  <2> QED
    BY <1>2, <2>1, Sorts DEF Moved, ApplyOrder, Applying
<1> QED
  BY <1>1, <1>2

\* A stop that is under way stays so until no incusd is left.
LEMMA StillStays ==
  ASSUME Inv, NEW s \in Shells, CallStep(s), ~Spawn(s), ~raced'
  PROVE  Living' \subseteq Living /\ ~raced /\ (Still => Still')
<1>1. CASE Records(s)
  <2>1. Living' = Living /\ raced' = raced /\ Called(s) /\ call[s] = "record"
    BY <1>1, RecordsTracks, CallFrame DEF Inv, Records, Calling
  <2> QED
    BY <2>1 DEF Still, Called, Stopping
<1>2. CASE ~Records(s)
  <2>1. Reaps(s) /\ Called(s)
    BY <1>2, CallReaps, CallFrame DEF Inv
  <2> QED
    BY <2>1 DEF Still, Reaps, Called, Stopping
<1> QED
  BY <1>1, <1>2

LEMMA CallOff ==
  ASSUME Inv, ApplyOrder, OffLast, NEW s \in Shells, CallStep(s)
  PROVE  OffLast'
<1> USE DEF Inv, Types
<1>1. /\ UNCHANGED <<cfg, known, hasty>>
      /\ \A a \in Applies : /\ at'[a] = at[a]
                            /\ a # s => result'[a] = result[a]
  BY OthersOrder
<1>2. CASE Spawn(s)
  <2>1. ~raced' => cfg \in Enabled
    BY <1>2, SpawnTracks
  <2>2. mixed' <=> mixed \/ \E a \in Applies : at[a] \in {"saved", "validating"}
    BY <1>2, Zenon DEF Spawn
  <2>3. ~hasty => \A a \in Applies : at[a] = "disabling" => cfg \notin Enabled
    BY DEF ApplyOrder
  <2> QED
    BY <1>1, <2>1, <2>2, <2>3 DEF OffLast
<1>3. CASE ~Spawn(s)
  <2>1. mixed' = mixed
    BY <1>3 DEF history, CallStep, Sources, StartChecks, Spawn, Records, WaitReady, WaitTimesOut, Cleans,
                Guard, Launch, StopWatchdog, Shutdown, Kills, Forget, Locks, InitEnds, Calling, Goes,
                Returns
  <2> SUFFICES ASSUME ~raced', ~hasty, ~mixed PROVE OffLast'
    BY <1>1, <2>1 DEF OffLast
  <2>2. Living' \subseteq Living /\ ~raced /\ (Still => Still')
    BY <1>3, StillStays
  <2>3. call[s] = "forget" => Living = {}
    BY <2>2 DEF OneTracked
  <2>4. s \in Applies /\ at[s] = "disabling" /\ result'[s] = "ok" => result[s] = "ok" \/ call[s] = "forget"
    <3>1. s \in Applies /\ at[s] = "disabling" => call[s] \in Stopping /\ ~again[s]
      BY CallFrame DEF ApplyOrder, Called
    <3> QED
      BY <3>1, CallOutcome, Sorts DEF Dead
  <2>5. \A a \in Applies : at'[a] = "disabling" /\ result'[a] = "ok" => Living = {}
    BY <1>1, <2>2, <2>3, <2>4 DEF OffLast
  <2> QED
    BY <1>1, <2>2, <2>5 DEF OffLast
<1> QED
  BY <1>2, <1>3

LEMMA CallReconciles ==
  ASSUME Inv, ApplyOrder, Reconciled, NEW s \in Shells, CallStep(s)
  PROVE  Reconciled'
<1> USE DEF Inv, Types
<1>1. /\ UNCHANGED <<cfg, hasty>>
      /\ \A a \in Applies : /\ at'[a] = at[a]
                            /\ a # s => call'[a] = call[a] /\ result'[a] = result[a] /\ read'[a] = read[a]
  BY OthersOrder
<1>2. fitted \subseteq fitted' /\ (skipped => skipped')
  BY DEF history, CallStep, Sources, StartChecks, Spawn, Records, WaitReady, WaitTimesOut, Cleans, Guard,
         Launch, StopWatchdog, Shutdown, Kills, Forget, Locks, InitEnds, Calling, Goes, Returns
<1> SUFFICES ASSUME ~hasty, s \in Applies, at[s] = "reconciling"
             PROVE  /\ call'[s] \in {"none", "init", "lock", "reconcile"}
                    /\ call'[s] # "none" => result'[s] = "none"
                    /\ call'[s] \in {"lock", "reconcile"} => read'[s] = cfg
                    /\ result'[s] = "ok" => cfg \in fitted' \/ skipped'
  BY <1>1, <1>2 DEF Reconciled
<1>3. /\ call[s] \in {"init", "lock", "reconcile"} /\ result[s] = "none"
      /\ call[s] \in {"lock", "reconcile"} => read[s] = cfg
  BY CallFrame DEF Reconciled, Called
<1>4. /\ call'[s] \in {"none", "lock", "reconcile"}
      /\ call'[s] # "none" => result'[s] = result[s]
      /\ call[s] = "init" => read'[s] = cfg
      /\ call'[s] = "reconcile" => read'[s] = read[s]
      /\ result'[s] = "ok" => result[s] = "ok" \/ skipped' \/ read[s] \in fitted'
  BY <1>3, CallOutcome, Sorts DEF Dead
<1>5. call[s] = "init" => call'[s] = "lock" /\ result'[s] = "none"
  BY <1>3 DEF ScriptShape, Sourced, CallStep, Sources, StartChecks, Spawn, Records, WaitReady,
              WaitTimesOut, Cleans, Guard, Launch, StopWatchdog, Shutdown, Kills, Forget, Locks, InitEnds,
              Calling, Goes, Returns
<1>6. call[s] # "init" => call'[s] # "lock"
  BY <1>3 DEF ScriptShape, Sourced, CallStep, Sources, StartChecks, Spawn, Records, WaitReady,
              WaitTimesOut, Cleans, Guard, Launch, StopWatchdog, Shutdown, Kills, Forget, Locks, InitEnds,
              Calling, Goes, Returns
<1> QED
  BY <1>3, <1>4, <1>5, <1>6

\* Beside the script of a save that overtakes none there is no other.
LEMMA ApplyAlone ==
  ASSUME Inv, ApplyOrder, NEW a \in Applies, ScriptStep(a), ~hasty'
  PROVE  ~hasty /\ \A b \in Applies \ {a} : at[b] \in {"idle", "done"} /\ at'[b] = at[b]
<1> USE DEF Inv, Types
<1>1. Moved(a) /\ a \in Shells
  BY ScriptFrame, Sorts
<1>2. ApplyGoesOn(a) \/ TimesOut(a) \/ \E c \in Configs : Save(a, c)
  BY Sorts DEF ScriptStep
<1>3. ~hasty
  BY <1>1 DEF Moved
<1>4. \A b \in Applies : Applying(b) /\ b # a => ~Applying(a)
  BY <1>3 DEF ApplyOrder
<1>5. CASE \E c \in Configs : Save(a, c)
  <2>1. hasty' <=> hasty \/ \E b \in Applies \ {a} : Applying(b)
    BY <1>5, Zenon DEF Save
  <2> QED
    BY <1>1, <1>3, <2>1, Sorts DEF Moved, Applying
<1>6. CASE ApplyGoesOn(a) \/ TimesOut(a)
  <2>1. Applying(a)
    BY <1>6 DEF Applying, TimesOut, ApplyGoesOn, ApplyReads, ApplyValidates, ApplyReconciles, Promotes,
                Restores, Reverts, Undone, Failing, Applied, Onward, Script, Restarts, Done
  <2> QED
    BY <1>1, <1>3, <1>4, <2>1, Sorts DEF Moved, Applying
<1> QED
  BY <1>2, <1>5, <1>6

LEMMA ApplyOrderOwn ==
  ASSUME Inv, ApplyOrder, NEW a \in Applies, ScriptStep(a)
  PROVE  ApplyOrder'
<1> USE DEF Inv, Types
<1> SUFFICES ASSUME ~hasty' PROVE ApplyOrder'
  BY DEF ApplyOrder
<1>1. a \in Shells
  BY Sorts
<1>2. ApplyGoesOn(a) \/ TimesOut(a) \/ \E c \in Configs : Save(a, c)
  BY Sorts DEF ScriptStep
<1>3. ~hasty /\ \A b \in Applies \ {a} : at'[b] \in {"idle", "done"}
  BY ApplyAlone
<1>4. /\ at'[a] = "validating" => call'[a] = "none" /\ read'[a] = cfg'
      /\ at'[a] = "disabling" => cfg' \notin Enabled /\ call'[a] \in Stopping \cup {"none"} /\ ~again'[a]
      /\ at'[a] \in {"restarting", "reconciling"} => cfg' \in Enabled
  <2>1. /\ at[a] = "validating" => call[a] = "none" /\ read[a] = cfg
        /\ at[a] \in {"restarting", "reconciling"} => cfg \in Enabled
    BY <1>3 DEF ApplyOrder
  <2>2. CASE ApplyReads(a)
    BY <1>1, <2>2 DEF ApplyReads, Script, ScriptShape
  <2>3. CASE ApplyValidates(a)
    BY <1>1, <2>1, <2>3 DEF ApplyValidates, Script, Restarts, Done, ScriptShape, Stopping
  <2>4. CASE ApplyReconciles(a)
    BY <1>1, <2>1, <2>4 DEF ApplyReconciles, Script, ScriptShape
  <2>5. CASE Promotes(a) \/ Restores(a) \/ Reverts(a) \/ Undone(a) \/ TimesOut(a) \/ \E c \in Configs : Save(a, c)
    <3>1. at'[a] \in {"done", "restored", "undoing", "undoing2", "saved"}
      BY <1>1, <2>5 DEF Promotes, Restores, Reverts, Undone, TimesOut, Save, Script, Restarts, Done, ScriptShape
    <3> QED
      BY <3>1
  <2> QED
    BY <1>2, <2>2, <2>3, <2>4, <2>5 DEF ApplyGoesOn
<1> QED
  BY <1>3, <1>4 DEF ApplyOrder, Applying

LEMMA ApplyOff ==
  ASSUME Inv, ApplyOrder, OffLast, NEW a \in Applies, ScriptStep(a)
  PROVE  OffLast'
<1> USE DEF Inv, Types
<1>1. /\ Living' = Living /\ raced' = raced /\ (Still => Still') /\ Moved(a) /\ a \in Shells
      /\ \A t \in Shells : call'[t] = "stop" => Still'
  BY ScriptTracks, ScriptFrame, Sorts DEF Still, Stopping
<1> SUFFICES ASSUME ~raced, ~hasty', ~mixed' PROVE OffLast'
  BY <1>1 DEF OffLast
<1>2. ~mixed
  BY <1>1 DEF Moved
<1>3. ~hasty /\ \A b \in Applies \ {a} : at[b] \in {"idle", "done"} /\ at'[b] = at[b]
  BY ApplyAlone
<1>4. /\ cfg \notin Enabled /\ cfg = known => Still \/ at[a] = "restored"
      /\ known \notin Enabled /\ at[a] \in {"saved", "validating"} => Still
      /\ at[a] = "disabling" /\ result[a] = "ok" => Living = {}
  BY <1>2, <1>3 DEF OffLast
<1> SUFFICES /\ cfg' \notin Enabled /\ cfg' = known' => Still' \/ at'[a] = "restored"
             /\ known' \notin Enabled /\ at'[a] \in {"saved", "validating"} => Still'
             /\ at'[a] = "disabling" /\ result'[a] = "ok" => Living' = {}
  BY <1>3 DEF OffLast
<1>5. at[a] = "validating" => read[a] = cfg
  BY <1>3 DEF ApplyOrder
<1>6. ASSUME NEW c \in Configs, Save(a, c)
      PROVE  /\ cfg' \notin Enabled /\ cfg' = known' => Still' \/ at'[a] = "restored"
             /\ known' \notin Enabled /\ at'[a] \in {"saved", "validating"} => Still'
             /\ at'[a] = "disabling" /\ result'[a] = "ok" => Living' = {}
  <2>1. cfg = known
    <3>1. mixed' <=> mixed \/ cfg # known
      BY <1>6, Zenon DEF Save
    <3> QED
      BY <3>1
  <2>2. at[a] = "idle" /\ at'[a] = "saved" /\ known' = known
    BY <1>1, <1>6 DEF Save, Script, ScriptShape
  <2> QED
    BY <1>1, <1>4, <2>1, <2>2
<1>7. CASE ApplyReads(a)
  BY <1>1, <1>4, <1>7 DEF ApplyReads, Script, ScriptShape
<1>8. CASE ApplyValidates(a)
  <2>1. \/ at'[a] = "done" /\ cfg' = known
        \/ cfg' = cfg /\ cfg \in Enabled /\ at'[a] = "restarting"
        \/ cfg' = cfg /\ at'[a] = "disabling" /\ call'[a] = "stop" /\ result'[a] = "none"
    BY <1>1, <1>5, <1>8 DEF ApplyValidates, Done, Script, Restarts, ScriptShape
  <2> QED
    BY <1>1, <1>4, <1>8, <2>1 DEF ApplyValidates, Done, Script, Restarts
<1>9. CASE ApplyReconciles(a)
  BY <1>1, <1>4, <1>9 DEF ApplyReconciles, Applied, Script, ScriptShape
<1>10. CASE Promotes(a)
  <2>1. at[a] = "disabling" \/ cfg \in Enabled
    BY <1>3, <1>10 DEF Promotes, Done, ApplyOrder
  <2>2. at[a] = "disabling" => Still
    BY <1>4, <1>10 DEF Promotes, Still
  <2>3. cfg' = cfg /\ at'[a] = "done"
    BY <1>1, <1>10 DEF Promotes, Done, ScriptShape
  <2> QED
    BY <1>1, <2>1, <2>2, <2>3
<1>11. CASE Restores(a)
  BY <1>1, <1>11 DEF Restores, Failing, Applied, Script, ScriptShape
<1>12. CASE Reverts(a)
  BY <1>1, <1>12 DEF Reverts, Applied, Script, Restarts, ScriptShape
<1>13. CASE Undone(a)
  BY <1>1, <1>4, <1>13 DEF Undone, Applied, Done, ScriptShape
<1>14. CASE TimesOut(a)
  <2>1. mixed' <=> mixed \/ at[a] = "restored"
    BY <1>14, Zenon DEF TimesOut
  <2> QED
    BY <1>1, <1>4, <1>14, <2>1 DEF TimesOut, ScriptShape
<1> QED
  BY <1>6, <1>7, <1>8, <1>9, <1>10, <1>11, <1>12, <1>13, <1>14, Sorts DEF ScriptStep, ApplyGoesOn

LEMMA ApplyReconcilesOwn ==
  ASSUME Inv, ApplyOrder, Reconciled, NEW a \in Applies, ScriptStep(a)
  PROVE  Reconciled'
<1> USE DEF Inv, Types
<1>1. a \in Shells
  BY Sorts
<1> SUFFICES ASSUME ~hasty', at'[a] = "reconciling"
             PROVE  call'[a] \in {"none", "init"} /\ result'[a] = "none"
  <2>1. ~hasty' => \A b \in Applies \ {a} : at'[b] # "reconciling"
    BY ApplyAlone
  <2> QED
    BY <2>1 DEF Reconciled
<1>2. ApplyReconciles(a)
  <2>1. CASE \E c \in Configs : Save(a, c)
    BY <1>1, <2>1 DEF Save, Script, ScriptShape
  <2>2. CASE TimesOut(a)
    BY <1>1, <2>2 DEF TimesOut, ScriptShape
  <2>3. CASE ApplyGoesOn(a)
    BY <1>1, <2>3 DEF ScriptShape, ApplyGoesOn, ApplyReads, ApplyValidates, ApplyReconciles, Promotes,
                      Restores, Reverts, Undone, Failing, Applied, Onward, Script, Restarts, Done
  <2> QED
    BY <2>1, <2>2, <2>3, Sorts DEF ScriptStep
<1> QED
  BY <1>1, <1>2 DEF ApplyReconciles, Script, ScriptShape

\* The scripts of the events and of the watchdogs.
LEMMA OtherScripts ==
  ASSUME Inv, ApplyOrder, NEW s \in Shells \ Applies, ScriptStep(s)
  PROVE  (OffLast => OffLast') /\ (Reconciled => Reconciled')
<1> USE DEF Inv, Types
<1>1. /\ UNCHANGED <<cfg, known, hasty>> /\ Moved(s)
      /\ \A a \in Applies : at'[a] = at[a] /\ call'[a] = call[a] /\ result'[a] = result[a] /\ read'[a] = read[a]
  BY OthersOrder, ScriptFrame
<1>2. Living' = Living /\ raced' = raced /\ (Still => Still')
  BY ScriptTracks DEF Still, Stopping
<1>3. UNCHANGED <<mixed, fitted, skipped>>
  BY Sorts DEF ScriptStep, Onward, Quiet, Mounted, Unmounting, EventsGoOn, MountRetries, MountGoesOn,
               Unmounted, Script, WatchdogReads, Looks, WatchdogGoesOn
<1> QED
  BY <1>1, <1>2, <1>3 DEF OffLast, Reconciled

LEMMA NextSaves ==
  Inv /\ ApplyOrder /\ OffLast /\ Reconciled /\ [Next]_vars => ApplyOrder' /\ OffLast' /\ Reconciled'
<1> SUFFICES ASSUME Inv, ApplyOrder, OffLast, Reconciled, [Next]_vars
             PROVE  ApplyOrder' /\ OffLast' /\ Reconciled'
  OBVIOUS
<1>1. CASE UNCHANGED vars
  <2>1. /\ UNCHANGED <<cfg, known, daemon, at, call, result, read, raced, skipped, fitted, hasty, mixed>>
        /\ again' = again
    BY <1>1 DEF vars, processes, calls, scripts, history
  <2> QED
    BY <2>1 DEF ApplyOrder, OffLast, Reconciled, Applying, Still, Living
<1>2. ASSUME NEW s \in Shells, CallStep(s) PROVE ApplyOrder' /\ OffLast' /\ Reconciled'
  BY <1>2, OthersOrder, CallOff, CallReconciles
<1>3. ASSUME NEW p \in Pids, DaemonStep(p) PROVE ApplyOrder' /\ OffLast' /\ Reconciled'
  <2>1. /\ Living' \subseteq Living
        /\ UNCHANGED <<cfg, known, at, call, result, read, raced, skipped, fitted, hasty, mixed>>
        /\ again' = again
    BY <1>3, DaemonTracks DEF calls, scripts, history
  <2> QED
    BY <2>1 DEF ApplyOrder, OffLast, Reconciled, Applying, Still
<1>4. ASSUME NEW s \in Shells \ Applies, ScriptStep(s) PROVE ApplyOrder' /\ OffLast' /\ Reconciled'
  BY <1>4, OthersOrder, OtherScripts
<1>5. ASSUME NEW a \in Applies, ScriptStep(a) PROVE ApplyOrder' /\ OffLast' /\ Reconciled'
  BY <1>5, ApplyOrderOwn, ApplyOff, ApplyReconcilesOwn
<1> QED
  BY <1>1, <1>2, <1>3, <1>4, <1>5, Steps, Sorts DEF Inv

\* What a promotion finds.
LEMMA PromotesReconciled ==
  ASSUME Inv, ApplyOrder, Reconciled, [Next]_vars, known' # known
  PROVE  known' \notin Enabled \/ known' \in fitted \/ skipped \/ hasty
<1>1. PICK a \in Applies : Promotes(a)
  <2>1. ~UNCHANGED vars
    BY DEF vars
  <2>2. ASSUME NEW s \in Shells, CallStep(s) \/ (ScriptStep(s) /\ s \notin Applies) PROVE FALSE
    BY <2>2, OthersOrder
  <2>3. ASSUME NEW p \in Pids, DaemonStep(p) PROVE FALSE
    BY <2>3, DaemonTracks
  <2>4. PICK a \in Applies : ScriptStep(a)
    BY <2>1, <2>2, <2>3, Steps DEF Inv
  <2>5. Promotes(a)
    BY <2>4, Sorts DEF ScriptStep, TimesOut, Save, ApplyGoesOn, ApplyReads, ApplyValidates, ApplyReconciles,
                       Restores, Reverts, Undone
  <2> QED
    BY <2>5
<1>2. known' = cfg /\ result[a] = "ok" /\ call[a] = "none" /\ at[a] \in {"disabling", "reconciling"}
  BY <1>1 DEF Promotes, Done
<1> QED
  BY <1>2 DEF ApplyOrder, Reconciled

LEMMA SavesHold == Spec => [](ApplyOrder /\ OffLast /\ Reconciled)
  BY InitSaves, NextSaves, InvHolds, PTL DEF Spec

-------------------------------------------------------------------------------
(* The service matches its config *)

\* Two scripts that are under way at the same time have been noticed.
Noticed == overlapped \/ \A s, t \in Shells : Busy(s) /\ Busy(t) => s = t


Alone(s) == \A t \in Shells \ {s} : ~Busy(t)

\* Shell s is the only one that a step may set going.
Only(s) ==
  /\ overlapped => overlapped'
  /\ \A t \in Shells \ {s} : Busy(t)' => Busy(t)
  /\ Busy(s) \/ overlapped' \/ Alone(s) \/ ~Busy(s)'

LEMMA CallOnly ==
  ASSUME Types, NEW s \in Shells, CallStep(s)
  PROVE  Only(s) /\ Busy(s) /\ overlapped' = overlapped
<1> USE DEF Types
<1>1. overlapped' = overlapped /\ Busy(s) /\ \A t \in Shells \ {s} : call'[t] = call[t]
  BY CallFrame DEF Called, Busy
<1>2. \A t \in Shells : at'[t] = at[t] \/ at'[t] \in {"off", "watching"}
  BY DEF ScriptShape, scripts, CallStep, Sources, StartChecks, Spawn, Records, WaitReady, WaitTimesOut,
         Cleans, Guard, Launch, StopWatchdog, Shutdown, Kills, Forget, Locks, InitEnds, Calling, Goes,
         Returns
<1> QED
  BY <1>1, <1>2 DEF Only, Busy

LEMMA ScriptOnly ==
  ASSUME Types, NEW s \in Shells, ScriptStep(s)
  PROVE  Only(s)
<1> USE DEF Types
<1>1. Moved(s)
  BY ScriptFrame
<1>2. Busy(s) \/ SetsOut(s) \/ Acts(s) \/ ~Busy(s)'
  <2>1. CASE s = "events"
    BY <2>1, Sorts DEF ScriptStep, Busy, Mounted, Unmounting, EventsGoOn, MountRetries, MountGoesOn,
                       Unmounted, Script
  <2>2. CASE s \in Watchdogs
    <3>1. CASE WatchdogReads(s) \/ Looks(s)
      BY <2>2, <3>1, Sorts DEF WatchdogReads, Looks, Script, Busy, ScriptShape
    <3>2. CASE WatchdogGoesOn(s)
      BY <3>2 DEF WatchdogGoesOn, Script, Busy
    <3> QED
      BY <2>2, <3>1, <3>2, Sorts DEF ScriptStep
  <2>3. CASE s \in Applies
    <3>1. CASE ApplyGoesOn(s)
      BY <3>1 DEF Busy, ApplyGoesOn, ApplyReads, ApplyValidates, ApplyReconciles, Promotes, Restores,
                  Reverts, Undone, Failing, Applied, Onward, Script, Restarts, Done
    <3>2. CASE TimesOut(s)
      BY <3>2 DEF TimesOut, Busy, ScriptShape
    <3>3. CASE \E c \in Configs : Save(s, c)
      BY <3>3 DEF Save
    <3> QED
      BY <2>3, <3>1, <3>2, <3>3, Sorts DEF ScriptStep
  <2> QED
    BY <2>1, <2>2, <2>3 DEF ScriptStep
<1>3. SetsOut(s) \/ Acts(s) => overlapped' \/ Alone(s)
  BY Zenon DEF SetsOut, Acts, Alone
<1> QED
  BY <1>1, <1>2, <1>3 DEF Only, Busy, Moved

LEMMA NextNoticed == Types /\ Noticed /\ [Next]_vars => Noticed'
<1> SUFFICES ASSUME Types, Noticed, [Next]_vars PROVE Noticed'
  OBVIOUS
<1>1. ASSUME NEW s \in Shells, Only(s) PROVE Noticed'
  <2> SUFFICES ASSUME ~overlapped', NEW t \in Shells, NEW u \in Shells, Busy(t)', Busy(u)', t # u PROVE FALSE
    BY DEF Noticed
  <2>1. ~overlapped /\ \A v, x \in Shells : Busy(v) /\ Busy(x) => v = x
    BY <1>1 DEF Only, Noticed
  <2>2. \A v \in {t, u} \ {s} : Busy(v)
    BY <1>1 DEF Only
  <2>3. s \in {t, u} /\ ~Busy(s)
    BY <2>1, <2>2
  <2>4. Alone(s)
    BY <1>1, <2>3 DEF Only
  <2> QED
    BY <2>2, <2>3, <2>4 DEF Alone
<1>2. CASE UNCHANGED vars
  BY <1>2 DEF vars, calls, scripts, history, Noticed, Busy
<1>3. ASSUME NEW p \in Pids, DaemonStep(p) PROVE Noticed'
  <2>1. UNCHANGED <<calls, scripts, history>>
    BY <1>3 DEF DaemonStep, ComesUp, Yields, Hangs, Dies, Daemon
  <2> QED
    BY <2>1 DEF calls, scripts, history, Noticed, Busy
<1> QED
  BY <1>1, <1>2, <1>3, CallOnly, ScriptOnly, Steps

\* incusd answers where config c wants it, and a watchdog stands by.
Watched(c) == Answers(c) /\ wpid # None
Silent     == Living = {} /\ wpid = None

\* What a script leaves behind when config c is in force.
Left(c) ==
  /\ array # "unmounting"
  /\ IF array = "up" /\ c \in Enabled THEN Watched(c) /\ env = c ELSE Silent

StartCalls == {"start", "check", "spawn", "record", "wait", "guard", "launch"}
InitCalls  == {"init", "lock", "reconcile"}
Resting    == {"idle", "off", "watching", "looking", "done"}

\* What the call of s has achieved when it is at its next command.
CallAt(s) ==
  /\ call[s] # "none" => result[s] = "none"
  /\ call[s] \notin Unsourced => read[s] = cfg
  /\ call[s] \in {"shutdown", "kill"} => wpid = None
  /\ call[s] \in {"forget", "start", "check", "spawn"} => Silent
  /\ call[s] \in {"record", "wait"} =>
       wpid = None /\ \E p \in Pids : daemon[p] \in {"starting", "up"} /\ home[p] = Dir[cfg]
  /\ call[s] \in {"guard", "launch"} => Answers(cfg) /\ wpid = None
  /\ call[s] \in InitCalls => Watched(cfg)

\* Script s is to get incusd running with the enabled config, ...
Raising(s) ==
  /\ array = "up" /\ cfg \in Enabled
  /\ call[s] \in Stopping \cup StartCalls \cup {"none"}
  /\ call[s] \in Stopping => again[s]
  /\ call[s] = "none" => result[s] = "ok" /\ Watched(cfg)

\* ... to reconcile the environment with it, ...
Fitting(s) ==
  /\ array = "up" /\ cfg \in Enabled /\ Watched(cfg)
  /\ call[s] \in InitCalls \cup {"none"}
  /\ call[s] = "none" => \/ result[s] = "ok" /\ env = cfg /\ cfg \notin Broken
                         \/ result[s] = "fail" /\ cfg \in Broken

\* ... or to stop incusd.
Lowering(s) ==
  /\ call[s] \in Stopping \cup {"none"}
  /\ ~again[s]
  /\ call[s] = "none" => Silent /\ result[s] # "fail"

\* What script s is to do where it is.
ScriptAt(s) ==
  /\ at[s] \in Resting => call[s] = "none"
  /\ at[s] \in {"starting", "restarting", "undoing"} => Raising(s)
  /\ at[s] = "reconciling" => Fitting(s)
  /\ at[s] = "disabling" => Lowering(s) /\ cfg \notin Enabled /\ array = "up"
  /\ at[s] = "stopping" => Lowering(s)
  /\ at[s] = "undoing2" => IF cfg \in Enabled THEN Fitting(s) ELSE Lowering(s) /\ array = "up"
  /\ at[s] \in {"saved", "validating"} => call[s] = "none" /\ Left(known)
  /\ at[s] = "validating" => read[s] = cfg
  /\ at[s] = "restored" => call[s] = "none" /\ array = "up"
  /\ at[s] # "abandoning"

\* The config in force is the known-good one but while a save is applied, and
\* the known-good one is not broken.
InForce ==
  /\ known \in Enabled => known \notin Broken
  /\ cfg = known \/ \E a \in Applies : at[a] \in {"saved", "validating", "restarting", "disabling", "reconciling"}

\* The one watchdog that lives is that of the pid file, and it finds nothing to do.
Watching ==
  \A w \in Watchdogs : /\ IF w = wpid THEN at[w] \in {"watching", "looking"} ELSE at[w] = "off"
                       /\ call[w] = "none"

Calm ==
  /\ ~raced /\ InForce /\ Watching
  /\ \A s \in Shells : CallAt(s) /\ ScriptAt(s)
  /\ AtRest => Left(cfg)

\* As long as nothing was disturbed one shell at most is busy, and each of its
\* steps finds what the steps before it have left.
Orderly == Noticed /\ (Undisturbed => Calm)

LEMMA InitOrderly ==
  ASSUME Installed \in Enabled => Installed \notin Broken, Init
  PROVE  Orderly
<1> USE Sorts DEF Init
<1>1. Living = {} /\ \A s \in Shells : ~Busy(s)
  BY DEF Living, Busy
<1>2. InForce /\ Watching
  BY DEF InForce, Watching
<1>3. \A s \in Shells : CallAt(s) /\ ScriptAt(s)
  BY DEF CallAt, ScriptAt, Stopping, Resting, InitCalls, Unsourced
<1>4. Left(cfg) /\ ~raced
  BY <1>1 DEF Left, Silent
<1> QED
  BY <1>1, <1>2, <1>3, <1>4 DEF Orderly, Noticed, Calm

\* What was disturbed stays so.
LEMMA StaysDisturbed ==
  ASSUME Types, [Next]_vars, Undisturbed'
  PROVE  Undisturbed
<1> USE DEF Types
<1>1. faults = 0
  <2>1. faults' = faults \/ faults' = faults + 1
    <3>1. ASSUME NEW s \in Shells, CallStep(s) PROVE faults' = faults \/ faults' = faults + 1
      BY <3>1 DEF Fault, NoFault, bounds, CallStep, Sources, StartChecks, Spawn, Records, WaitReady,
                  WaitTimesOut, Cleans, Guard, Launch, StopWatchdog, Shutdown, Kills, Forget, Locks,
                  InitEnds, Calling, Goes, Returns
    <3>2. ASSUME NEW s \in Shells, ScriptStep(s) PROVE faults' = faults
      BY <3>2 DEF ScriptStep, TimesOut, Save, Quiet, Mounted, Unmounting, EventsGoOn, MountRetries,
                  MountGoesOn, Unmounted, Script, WatchdogReads, Looks, WatchdogGoesOn, ApplyGoesOn,
                  ApplyReads, ApplyValidates, ApplyReconciles, Promotes, Restores, Reverts, Undone,
                  Failing, Applied, Onward, Restarts, Done
    <3>3. ASSUME NEW p \in Pids, DaemonStep(p) PROVE faults' = faults \/ faults' = faults + 1
      BY <3>3 DEF Fault, NoFault, bounds, DaemonStep, ComesUp, Yields, Hangs, Dies, Daemon
    <3>4. UNCHANGED vars => faults' = faults
      BY DEF vars, bounds
    <3> QED
      BY <3>1, <3>2, <3>3, <3>4, Steps
  <2>2. faults \in Nat
    BY Sorts DEF CountShape
  <2> QED
    BY <2>1, <2>2 DEF Undisturbed
<1>2. overlapped => overlapped'
  <2>1. ASSUME NEW p \in Pids, DaemonStep(p) PROVE overlapped' = overlapped
    BY <2>1 DEF history, DaemonStep, ComesUp, Yields, Hangs, Dies, Daemon
  <2>2. UNCHANGED vars => overlapped' = overlapped
    BY DEF vars, history
  <2> QED
    BY <2>1, <2>2, CallOnly, ScriptOnly, Steps DEF Only
<1>3. ASSUME NEW a \in Applies, at[a] = "done", result[a] = "none" PROVE at'[a] = "done" /\ result'[a] = "none"
  <2>1. CASE UNCHANGED vars
    BY <1>3, <2>1 DEF vars, calls, scripts
  <2>2. ASSUME NEW s \in Shells, CallStep(s) PROVE at'[a] = "done" /\ result'[a] = "none"
    <3>1. at'[a] = "done" /\ (a # s => result'[a] = result[a])
      BY <1>3, <2>2, CallFrame, Sorts DEF Called
    <3>2. a = s => result'[a] = "none"
      <4>1. a = s => result' = result \/ (\E r : Returns(s, r)) \/ \E w \in Watchdogs : result' = [result EXCEPT ![w] = "none"]
        BY <2>2 DEF CallStep, Sources, StartChecks, Spawn, Records, WaitReady, WaitTimesOut, Cleans, Guard,
                    Launch, StopWatchdog, Shutdown, Kills, Forget, Locks, InitEnds, Calling, Goes, Returns,
                    StateShape
      <4> QED
        BY <1>3, <4>1, Sorts DEF Returns, Dead, ScriptShape
    <3> QED
      BY <1>3, <3>1, <3>2
  <2>3. ASSUME NEW p \in Pids, DaemonStep(p) PROVE at'[a] = "done" /\ result'[a] = "none"
    BY <1>3, <2>3 DEF calls, scripts, DaemonStep, ComesUp, Yields, Hangs, Dies, Daemon
  <2>4. ASSUME NEW s \in Shells, ScriptStep(s) PROVE at'[a] = "done" /\ result'[a] = "none"
    <3>1. CASE s # a
      BY <1>3, <2>4, <3>1, ScriptFrame, Sorts DEF Moved
    <3>2. CASE s = a
      BY <1>3, <2>4, <3>2, Sorts DEF ScriptStep, TimesOut, Save, Applying, ApplyGoesOn, ApplyReads,
                                     ApplyValidates, ApplyReconciles, Promotes, Restores, Reverts, Undone,
                                     Failing, Applied, Onward, Script, Restarts, Done
    <3> QED
      BY <3>1, <3>2
  <2> QED
    BY <2>1, <2>2, <2>3, <2>4, Steps
<1> QED
  BY <1>1, <1>2, <1>3 DEF Undisturbed

\* Who acts is alone before and after.
LEMMA ActsAlone ==
  ASSUME Noticed, ~overlapped', NEW s \in Shells, Only(s), Busy(s) \/ Alone(s)
  PROVE  Alone(s) /\ Alone(s)'
<1>1. ~overlapped
  BY DEF Only
<1>2. Alone(s)
  BY <1>1 DEF Noticed, Alone
<1> QED
  BY <1>2 DEF Alone, Only

\* The shells that rest have nothing to answer for.
LEMMA AloneCalm ==
  ASSUME NEW s \in Shells, Alone(s)', ~raced', InForce', Watching', CallAt(s)', ScriptAt(s)', AtRest' => Left(cfg)'
  PROVE  Calm'
<1>1. ASSUME NEW t \in Shells \ {s} PROVE CallAt(t)' /\ ScriptAt(t)'
  <2>1. call'[t] = "none" /\ at'[t] \in Resting
    BY DEF Alone, Busy, Resting
  <2> QED
    BY <2>1 DEF CallAt, ScriptAt, Stopping, Resting, InitCalls, Unsourced
<1> QED
  BY <1>1 DEF Calm

\* The call of a script is one that its place wants.
LEMMA CallPhase ==
  ASSUME Types, Calm, NEW s \in Shells, call[s] # "none"
  PROVE  /\ s \notin Watchdogs /\ ~Dead(s) /\ at[s] \notin Resting /\ result[s] = "none"
         /\ call[s] \in StartCalls \cup InitCalls \cup Stopping
         /\ call[s] \in StartCalls => at[s] \in {"starting", "restarting", "undoing"} /\ Raising(s)
         /\ call[s] \in InitCalls => at[s] \in {"reconciling", "undoing2"} /\ cfg \in Enabled /\ Fitting(s)
         /\ call[s] \in Stopping => \/ at[s] \in {"starting", "restarting", "undoing"} /\ Raising(s) /\ again[s]
                                    \/ /\ at[s] \in {"disabling", "stopping", "undoing2"} /\ Lowering(s)
                                       /\ at[s] \in {"disabling", "undoing2"} => cfg \notin Enabled /\ array = "up"
<1>1. CallAt(s) /\ ScriptAt(s)
  BY DEF Calm
<1>2. s \notin Watchdogs
  BY DEF Calm, Watching
<1>3. at[s] \notin Resting /\ ~Dead(s)
  BY <1>1 DEF ScriptAt, Dead, Resting
<1>4. at[s] \in {"starting", "reconciling", "stopping", "disabling", "restarting", "undoing", "undoing2"}
  BY <1>1, <1>3 DEF Types, ScriptShape, Places, ScriptAt, Resting
<1>5. result[s] = "none"
  BY <1>1 DEF CallAt
<1> USE DEF Stopping, StartCalls, InitCalls
<1>6. CASE at[s] \in {"starting", "restarting", "undoing"}
  BY <1>1, <1>2, <1>3, <1>5, <1>6 DEF ScriptAt, Raising
<1>7. CASE at[s] = "reconciling"
  BY <1>1, <1>2, <1>3, <1>5, <1>7 DEF ScriptAt, Fitting
<1>8. CASE at[s] \in {"disabling", "stopping"}
  BY <1>1, <1>2, <1>3, <1>5, <1>8 DEF ScriptAt, Lowering
<1>9. CASE at[s] = "undoing2"
  BY <1>1, <1>2, <1>3, <1>5, <1>9 DEF ScriptAt, Lowering, Fitting
<1> QED
  BY <1>4, <1>6, <1>7, <1>8, <1>9

\* A script goes on with its call: it stays where it is and does what it is to.
LEMMA GoesOn ==
  ASSUME NEW s, at'[s] = at[s], UNCHANGED <<cfg, array>>,
         \/ at[s] \in {"starting", "restarting", "undoing"} /\ Raising(s)'
         \/ at[s] \in {"reconciling", "undoing2"} /\ cfg \in Enabled /\ Fitting(s)'
         \/ /\ at[s] \in {"disabling", "stopping", "undoing2"} /\ Lowering(s)'
            /\ at[s] \in {"disabling", "undoing2"} => cfg \notin Enabled /\ array = "up"
  PROVE  ScriptAt(s)'
  BY DEF ScriptAt, Resting

\* Calls leave the configs, the array and the scripts where they are.
LEMMA CallKeeps ==
  ASSUME Types, Calm, NEW s \in Shells, CallStep(s), Alone(s)',
         ~raced', Watching', CallAt(s)', ScriptAt(s)'
  PROVE  Calm'
<1>1. Called(s)
  BY CallFrame
<1>2. s \notin Watchdogs /\ at[s] \notin Resting
  BY <1>1, CallPhase DEF Called
<1>3. InForce'
  BY <1>1, Sorts DEF Calm, InForce, Called
<1>4. ~AtRest'
  BY <1>1, <1>2 DEF AtRest, Busy, Resting, Called
<1> QED
  BY <1>3, <1>4, AloneCalm

\* The shell of a call is no watchdog: the watchdogs stay as they are.
LEMMA WatchingStays ==
  ASSUME Types, Watching, NEW s \in Shells \ Watchdogs, NEW c, call' = [call EXCEPT ![s] = c], at' = at, wpid' = wpid
  PROVE  Watching'
BY Sorts DEF Types, ScriptShape, Watching

LEMMA SourcesCalm ==
  ASSUME Inv, Calm, NEW s \in Shells, Alone(s)', Sources(s)
  PROVE  Calm'
<1> USE DEF Inv, Types
<1>1. /\ s \notin Watchdogs /\ result[s] = "none" /\ CallAt(s) /\ Watching /\ ~raced
      /\ call[s] \in {"start", "stop", "init"}
  BY CallPhase DEF Calm, Sources
<1>2. /\ UNCHANGED <<cfg, known, array, processes, wpid, env, result, again, at, history>>
      /\ call' = [call EXCEPT ![s] = Sourced[call[s]]] /\ read' = [read EXCEPT ![s] = cfg]
  BY DEF Sources, scripts
<1>3. Watching' /\ ~raced'
  BY <1>1, <1>2, WatchingStays DEF history
<1>4. /\ call'[s] = Sourced[call[s]] /\ read'[s] = cfg
      /\ UNCHANGED <<Living, Answers(cfg), Silent, Watched(cfg)>>
  BY <1>1, <1>2 DEF ScriptShape, processes, Living, Answers, Serving, Silent, Watched
<1>5. CallAt(s)'
  BY <1>1, <1>2, <1>4 DEF CallAt, Sourced, InitCalls
<1>6. ScriptAt(s)'
  <2>1. CASE at[s] \in {"starting", "restarting", "undoing"} /\ Raising(s)
    <3>1. Raising(s)'
      BY <1>1, <1>2, <1>4, <2>1 DEF Raising, StartCalls, Stopping, Sourced
    <3> QED
      BY <1>2, <2>1, <3>1, GoesOn
  <2>2. CASE at[s] \in {"reconciling", "undoing2"} /\ cfg \in Enabled /\ Fitting(s)
    <3>1. Fitting(s)'
      BY <1>1, <1>2, <1>4, <2>2 DEF Fitting, InitCalls, Sourced
    <3> QED
      BY <1>2, <2>2, <3>1, GoesOn
  <2>3. CASE /\ at[s] \in {"disabling", "stopping", "undoing2"} /\ Lowering(s)
             /\ at[s] \in {"disabling", "undoing2"} => cfg \notin Enabled /\ array = "up"
    <3>1. Lowering(s)'
      BY <1>1, <1>2, <1>4, <2>3 DEF Lowering, Stopping, Sourced
    <3> QED
      BY <1>2, <2>3, <3>1, GoesOn
  <2> QED
    BY <1>1, <2>1, <2>2, <2>3, CallPhase
<1> QED
  BY <1>3, <1>5, <1>6, CallKeeps DEF CallStep

\* rc.incus start
LEMMA StartCalm ==
  ASSUME Inv, Calm, Undisturbed', NEW s \in Shells, Alone(s), Alone(s)',
         \/ StartChecks(s) \/ Spawn(s) \/ Records(s) \/ WaitReady(s) \/ WaitTimesOut(s)
         \/ Guard(s) \/ Launch(s)
  PROVE  Calm'
<1> USE DEF Inv, Types
<1>1. CallAt(s) /\ ~raced /\ Watching /\ call[s] \in StartCalls
  BY DEF Calm, StartCalls, StartChecks, Spawn, Records, WaitReady, WaitTimesOut, Guard, Launch, Calling
<1>2. /\ s \notin Watchdogs /\ ~Dead(s) /\ result[s] = "none" /\ s \in Shells \ Watchdogs
      /\ at[s] \in {"starting", "restarting", "undoing"} /\ Raising(s)
  BY <1>1, CallPhase DEF StartCalls
<1>3. array = "up" /\ cfg \in Enabled
  BY <1>2 DEF Raising
<1>4. ~(\E n \in Nat : faults' = n + 1)
  BY DEF Undisturbed
<1>5. faults \in Nat
  BY Sorts DEF CountShape
<1>6. ~Fault
  BY <1>4, <1>5 DEF Fault
<1>7. \A p \in Pids : daemon[p] = "up" => p \in Living
  BY DEF Living
<1>c. CallStep(s)
  BY DEF CallStep
<1> SUFFICES ~raced' /\ Watching' /\ CallAt(s)' /\ ScriptAt(s)'
  BY <1>c, CallKeeps
<1>g. ASSUME at'[s] = at[s], UNCHANGED <<cfg, array>>, call'[s] \in StartCalls PROVE ScriptAt(s)'
  <2>1. Raising(s)'
    BY <1>3, <1>g DEF Raising, StartCalls, Stopping
  <2> QED
    BY <1>2, <1>g, <2>1, GoesOn
<1>8. CASE StartChecks(s)
  <2>1. Silent /\ ~Answers(read[s]) /\ read[s] = cfg
    BY <1>1, <1>7, <1>8 DEF CallAt, StartChecks, Calling, Silent, Answers, Serving, Unsourced
  <2>2. /\ call' = [call EXCEPT ![s] = "spawn"] /\ UNCHANGED <<result, read, at, cfg, array, daemon, wpid, raced>>
    BY <1>3, <1>6, <1>8, <2>1 DEF StartChecks, Calling, Goes, processes
  <2>3. call'[s] = "spawn" /\ result'[s] = "none" /\ read'[s] = cfg /\ Silent'
    BY <1>2, <2>1, <2>2 DEF ScriptShape, Silent, Living
  <2>4. CallAt(s)'
    BY <2>2, <2>3 DEF CallAt, InitCalls
  <2> QED
    BY <1>1, <1>2, <1>g, <2>2, <2>3, <2>4, WatchingStays DEF StartCalls
<1>9. CASE Spawn(s)
  <2>1. Silent /\ read[s] = cfg
    BY <1>1, <1>9 DEF CallAt, Spawn, Calling, Unsourced
  <2>2. /\ call' = [call EXCEPT ![s] = "record"] /\ UNCHANGED <<result, read, at, cfg, array, wpid>>
        /\ \E p \in Pids : daemon' = [daemon EXCEPT ![p] = "starting"] /\ home' = [home EXCEPT ![p] = Dir[read[s]]]
    BY <1>9 DEF Spawn, Calling, Goes
  <2>3. ~raced'
    <3>1. raced' <=> raced \/ BadTime(s)
      BY <1>9, Zenon DEF Spawn
    <3>2. \A t \in Shells \ {s} : call[t] = "none"
      BY DEF Alone, Busy
    <3> QED
      BY <1>1, <1>3, <2>1, <3>1, <3>2 DEF BadTime, Silent
  <2>4. /\ call'[s] = "record" /\ result'[s] = "none" /\ read'[s] = cfg /\ wpid' = None
        /\ \E p \in Pids : daemon'[p] \in {"starting", "up"} /\ home'[p] = Dir[cfg]
    BY <1>2, <2>1, <2>2 DEF ScriptShape, StateShape, Silent
  <2>5. CallAt(s)'
    BY <2>2, <2>4 DEF CallAt, InitCalls
  <2> QED
    BY <1>1, <1>2, <1>g, <2>2, <2>3, <2>4, <2>5, WatchingStays DEF StartCalls
<1>10. CASE Records(s)
  <2>1. /\ read[s] = cfg /\ wpid = None
        /\ \E p \in Pids : daemon[p] \in {"starting", "up"} /\ home[p] = Dir[cfg]
    BY <1>1, <1>10 DEF CallAt, Records, Calling, Unsourced
  <2>2. /\ call' = [call EXCEPT ![s] = "wait"]
        /\ UNCHANGED <<result, read, at, cfg, array, wpid, daemon, home, raced>>
    BY <1>10 DEF Records, Calling, Goes
  <2>3. call'[s] = "wait" /\ result'[s] = "none" /\ read'[s] = cfg
    BY <1>2, <2>1, <2>2 DEF ScriptShape
  <2>4. CallAt(s)'
    BY <2>1, <2>2, <2>3 DEF CallAt, InitCalls
  <2> QED
    BY <1>1, <1>2, <1>g, <2>2, <2>3, <2>4, WatchingStays DEF StartCalls
<1>11. CASE WaitReady(s) \/ Guard(s)
  <2>1. read[s] = cfg /\ Answers(cfg) /\ wpid = None
    BY <1>1, <1>11 DEF CallAt, WaitReady, Guard, Calling, Unsourced
  <2>2. /\ \E c \in {"guard", "launch"} : call' = [call EXCEPT ![s] = c]
        /\ UNCHANGED <<result, read, at, cfg, array, wpid, daemon, home, raced>>
    BY <1>2, <1>11, <2>1 DEF WaitReady, Guard, Calling, Goes, processes
  <2>3. /\ call'[s] \in {"guard", "launch"} /\ result'[s] = "none" /\ read'[s] = cfg
        /\ Answers(cfg)' /\ wpid' = None
    BY <1>2, <2>1, <2>2 DEF ScriptShape, Answers, Serving
  <2>4. CallAt(s)'
    BY <2>2, <2>3 DEF CallAt, InitCalls
  <2> QED
    BY <1>1, <1>2, <1>g, <2>2, <2>3, <2>4, WatchingStays DEF StartCalls
<1>12. CASE WaitTimesOut(s)
  <2>1. read[s] = cfg /\ \E p \in Pids : daemon[p] \in {"starting", "up"} /\ home[p] = Dir[cfg]
    BY <1>1, <1>12 DEF CallAt, WaitTimesOut, Calling, Unsourced
  <2>2. \E p \in Pids : daemon[p] = "starting"
    BY <1>12, <2>1 DEF WaitTimesOut, Answers, Serving
  <2> QED
    BY <1>6, <1>12, <2>2 DEF WaitTimesOut
<1>13. CASE Launch(s)
  <2>1. PICK w \in Unused : at' = [at EXCEPT ![w] = "watching"] /\ wpid' = w
    BY <1>13 DEF Launch
  <2>2. /\ call' = [call EXCEPT ![s] = "none"] /\ result' = [result EXCEPT ![s] = "ok"]
        /\ UNCHANGED <<cfg, array, daemon, home, raced>> /\ Answers(cfg) /\ wpid = None
    BY <1>1, <1>2, <1>13 DEF CallAt, Launch, Returns, processes, history
  <2>3. w \in Watchdogs /\ w \in Shells /\ w # s /\ w # None /\ None \notin Watchdogs
    BY <1>2, Sorts DEF Unused
  <2>4. Watching'
    BY <1>1, <1>2, <2>1, <2>2, <2>3, Sorts DEF Watching, ScriptShape
  <2>5. call'[s] = "none" /\ result'[s] = "ok" /\ Watched(cfg)' /\ at'[s] = at[s]
    BY <2>1, <2>2, <2>3 DEF ScriptShape, Watched, Answers, Serving
  <2>6. CallAt(s)'
    BY <2>5 DEF CallAt, InitCalls, Unsourced
  <2>7. Raising(s)'
    BY <1>3, <2>2, <2>5 DEF Raising, Stopping
  <2> QED
    BY <1>1, <1>2, <2>2, <2>4, <2>5, <2>6, <2>7, GoesOn
<1> QED
  BY <1>8, <1>9, <1>10, <1>11, <1>12, <1>13

\* rc.incus stop
LEMMA StopCalm ==
  ASSUME Inv, Calm, NEW s \in Shells, Alone(s), Alone(s)',
         StopWatchdog(s) \/ Shutdown(s) \/ Kills(s) \/ Forget(s)
  PROVE  Calm'
<1> USE DEF Inv, Types
<1>1. CallAt(s) /\ ~raced /\ Watching
  BY DEF Calm
<1>c. CallStep(s)
  BY DEF CallStep
<1>2. /\ s \notin Watchdogs /\ ~Dead(s) /\ result[s] = "none" /\ s \in Shells \ Watchdogs
      /\ call[s] \in Stopping \ {"stop"} /\ read[s] = cfg
      /\ \/ at[s] \in {"starting", "restarting", "undoing"} /\ Raising(s) /\ again[s]
         \/ /\ at[s] \in {"disabling", "stopping", "undoing2"} /\ Lowering(s)
            /\ at[s] \in {"disabling", "undoing2"} => cfg \notin Enabled /\ array = "up"
  <2>1. call[s] \in {"watchdog", "shutdown", "cleanup", "kill", "forget"}
    BY DEF StopWatchdog, Shutdown, Kills, Forget, Calling
  <2>2. call[s] \in StartCalls \cup InitCalls \cup Stopping /\ call[s] # "none"
    BY <2>1, CallPhase
  <2>3. call[s] \in Stopping \ {"stop"}
    BY <2>1, <2>2 DEF StartCalls, InitCalls, Stopping
  <2> QED
    BY <1>1, <2>2, <2>3, CallPhase DEF CallAt, Unsourced, Stopping
<1> SUFFICES ~raced' /\ Watching' /\ CallAt(s)' /\ ScriptAt(s)'
  BY <1>c, CallKeeps
<1>3. ASSUME at'[s] = at[s], again'[s] <=> again[s], call'[s] \in Stopping, UNCHANGED <<cfg, array>> PROVE ScriptAt(s)'
  <2>1. CASE at[s] \in {"starting", "restarting", "undoing"} /\ Raising(s) /\ again[s]
    <3>1. Raising(s)'
      BY <1>3, <2>1 DEF Raising, Stopping
    <3> QED
      BY <1>3, <2>1, <3>1, GoesOn
  <2>2. CASE ~(at[s] \in {"starting", "restarting", "undoing"} /\ Raising(s) /\ again[s])
    <3>1. Lowering(s)'
      BY <1>2, <1>3, <2>2 DEF Lowering, Stopping
    <3> QED
      BY <1>2, <1>3, <2>2, <3>1, GoesOn
  <2> QED
    BY <2>1, <2>2
<1>4. CASE StopWatchdog(s)
  <2>1. /\ call' = [call EXCEPT ![s] = "shutdown"] /\ UNCHANGED <<cfg, array, raced, again>> /\ wpid' = None
        /\ \/ /\ wpid # None /\ at' = [at EXCEPT ![wpid] = "off"] /\ result' = [result EXCEPT ![wpid] = "none"]
              /\ \E c : read' = [read EXCEPT ![wpid] = c]
           \/ wpid = None /\ UNCHANGED <<at, result, read>>
    BY <1>2, <1>4 DEF StopWatchdog, history
  <2>2. (wpid # None => wpid \in Watchdogs /\ wpid # s) /\ None \notin Watchdogs
    BY <1>2, Sorts DEF StateShape
  <2>3. Watching'
    BY <1>1, <1>2, <2>1, <2>2, Sorts DEF Watching, ScriptShape
  <2>4. at'[s] = at[s] /\ result'[s] = "none" /\ call'[s] = "shutdown" /\ read'[s] = cfg
    BY <1>2, <2>1, <2>2 DEF ScriptShape
  <2>5. CallAt(s)'
    BY <2>1, <2>4 DEF CallAt, InitCalls
  <2> QED
    BY <1>1, <1>3, <2>1, <2>3, <2>4, <2>5 DEF Stopping
<1>5. CASE Shutdown(s) \/ Kills(s)
  <2>1. /\ call[s] \in {"shutdown", "kill"} /\ UNCHANGED <<cfg, array, again, at, result, read, wpid>>
        /\ \E c \in {"kill", "forget"} : call' = [call EXCEPT ![s] = c]
    BY <1>2, <1>5 DEF Shutdown, Kills, Calling, Goes, Stopping
  <2>2. ~raced'
    <3>1. \A t \in Shells : fresh[t] = None
      BY <2>1 DEF Alone, Busy, Recording
    <3>2. Shutdown(s) => raced' = raced
      BY DEF Shutdown
    <3>3. Kills(s) => (raced' <=> raced \/ \E t \in Shells : fresh[t] # None)
      BY Zenon DEF Kills
    <3> QED
      BY <1>1, <1>5, <3>1, <3>2, <3>3
  <2>3. call'[s] = "forget" => Living' = {}
    <3>1. Reaps(s)
      BY <1>c, <2>1, CallReaps DEF Spawn, Records, Calling
    <3> QED
      BY <2>2, <3>1 DEF Reaps
  <2>4. Watching'
    BY <1>1, <1>2, <2>1, WatchingStays
  <2>5. /\ at'[s] = at[s] /\ result'[s] = "none" /\ call'[s] \in {"kill", "forget"} /\ read'[s] = cfg
        /\ wpid' = None
    BY <1>1, <1>2, <2>1 DEF ScriptShape, CallAt
  <2>6. CallAt(s)'
    BY <2>1, <2>3, <2>5 DEF CallAt, InitCalls, Silent
  <2> QED
    BY <1>3, <2>1, <2>2, <2>4, <2>5, <2>6 DEF Stopping
<1>6. CASE Forget(s)
  <2>1. Silent /\ ~Answers(read[s])
    BY <1>1, <1>6 DEF CallAt, Forget, Calling, Silent, Answers, Serving, Living
  <2>2. UNCHANGED <<cfg, array, raced, at, wpid, daemon>> /\ again' = [again EXCEPT ![s] = FALSE]
    BY <1>6 DEF Forget, Calling
  <2>3. Silent' /\ ~again'[s]
    BY <2>1, <2>2 DEF Silent, Living, ScriptShape
  <2>4. CASE again[s]
    <3>1. call' = [call EXCEPT ![s] = "check"] /\ result' = result /\ read' = read
      BY <1>6, <2>1, <2>4 DEF Forget, Goes
    <3>2. Watching'
      BY <1>1, <1>2, <2>2, <3>1, WatchingStays
    <3>3. call'[s] = "check" /\ result'[s] = "none" /\ read'[s] = cfg
      BY <1>2, <3>1 DEF ScriptShape
    <3>4. CallAt(s)'
      BY <2>2, <2>3, <3>3 DEF CallAt, InitCalls
    <3>5. at[s] \in {"starting", "restarting", "undoing"} /\ Raising(s)
      BY <1>2, <2>4 DEF Lowering
    <3>6. Raising(s)'
      BY <2>2, <3>3, <3>5 DEF Raising, StartCalls, Stopping
    <3> QED
      BY <1>1, <2>2, <3>2, <3>4, <3>5, <3>6, GoesOn
  <2>5. CASE ~again[s]
    <3>1. call' = [call EXCEPT ![s] = "none"] /\ result' = [result EXCEPT ![s] = "ok"]
      BY <1>2, <1>6, <2>1, <2>5 DEF Forget, Goes, Returns
    <3>2. Watching'
      BY <1>1, <1>2, <2>2, <3>1, WatchingStays
    <3>3. call'[s] = "none" /\ result'[s] = "ok"
      BY <3>1 DEF ScriptShape
    <3>4. CallAt(s)'
      BY <3>3 DEF CallAt, InitCalls, Unsourced
    <3>5. Lowering(s)'
      BY <2>3, <3>3 DEF Lowering
    <3> QED
      BY <1>1, <1>2, <2>2, <2>5, <3>2, <3>4, <3>5, GoesOn
  <2> QED
    BY <2>4, <2>5
<1> QED
  BY <1>4, <1>5, <1>6

\* incus-init.sh
LEMMA InitCalm ==
  ASSUME Inv, Calm, NEW s \in Shells, Alone(s), Alone(s)', Locks(s) \/ InitEnds(s)
  PROVE  Calm'
<1> USE DEF Inv, Types
<1>1. CallAt(s) /\ ~raced /\ Watching /\ call[s] \in InitCalls /\ read[s] = cfg
  BY DEF Calm, InitCalls, Locks, InitEnds, Calling, CallAt, Unsourced
<1>2. /\ s \notin Watchdogs /\ ~Dead(s) /\ result[s] = "none" /\ s \in Shells \ Watchdogs
      /\ at[s] \in {"reconciling", "undoing2"} /\ cfg \in Enabled /\ Fitting(s)
  BY <1>1, CallPhase DEF InitCalls
<1>3. array = "up" /\ Watched(cfg)
  BY <1>2 DEF Fitting
<1>c. CallStep(s)
  BY DEF CallStep
<1> SUFFICES ~raced' /\ Watching' /\ CallAt(s)' /\ ScriptAt(s)'
  BY <1>c, CallKeeps
<1>4. UNCHANGED <<cfg, array, raced, at, wpid, daemon, home>>
  BY DEF Locks, InitEnds, Calling, processes
<1>5. Watched(cfg)'
  BY <1>3, <1>4 DEF Watched, Answers, Serving
<1>6. CASE Locks(s)
  <2>1. flock = None
    <3>1. \A t \in Shells \ {s} : call[t] # "reconcile"
      BY DEF Alone, Busy
    <3>2. call[s] # "reconcile"
      BY <1>6 DEF Locks, Calling
    <3> QED
      BY <3>1, <3>2 DEF Locked, StateShape
  <2>2. call' = [call EXCEPT ![s] = "reconcile"] /\ result' = result /\ read' = read
    BY <1>6, <2>1 DEF Locks, Goes
  <2>3. Watching'
    BY <1>1, <1>2, <1>4, <2>2, WatchingStays
  <2>4. call'[s] = "reconcile" /\ result'[s] = "none" /\ read'[s] = cfg
    BY <1>1, <1>2, <2>2 DEF ScriptShape
  <2>5. CallAt(s)'
    BY <1>4, <1>5, <2>4 DEF CallAt
  <2>6. Fitting(s)'
    BY <1>2, <1>3, <1>4, <1>5, <2>4 DEF Fitting, InitCalls
  <2> QED
    BY <1>1, <1>2, <1>4, <2>3, <2>5, <2>6, GoesOn
<1>7. CASE InitEnds(s)
  <2>1. Answers(read[s])
    BY <1>1, <1>3 DEF Watched
  <2>2. /\ call' = [call EXCEPT ![s] = "none"]
        /\ \/ cfg \notin Broken /\ env' = cfg /\ result' = [result EXCEPT ![s] = "ok"]
           \/ cfg \in Broken /\ env' = None /\ result' = [result EXCEPT ![s] = "fail"]
    BY <1>1, <1>2, <1>3, <1>7, <2>1 DEF InitEnds, Returns
  <2>3. Watching'
    BY <1>1, <1>2, <1>4, <2>2, WatchingStays
  <2>4. /\ call'[s] = "none"
        /\ \/ cfg \notin Broken /\ env' = cfg /\ result'[s] = "ok"
           \/ cfg \in Broken /\ result'[s] = "fail"
    BY <2>2 DEF ScriptShape
  <2>5. CallAt(s)'
    BY <2>4 DEF CallAt, InitCalls, Unsourced
  <2>6. Fitting(s)'
    BY <1>2, <1>3, <1>4, <1>5, <2>4 DEF Fitting
  <2> QED
    BY <1>1, <1>2, <1>4, <2>3, <2>5, <2>6, GoesOn
<1> QED
  BY <1>6, <1>7

\* incusd by itself: the one that starts comes up.
LEMMA DaemonCalm ==
  ASSUME Inv, Calm, Undisturbed', NEW p \in Pids, DaemonStep(p)
  PROVE  Calm'
<1> USE DEF Inv, Types
<1>1. ~Fault
  <2>1. faults \in Nat
    BY Sorts DEF CountShape
  <2> QED
    BY <2>1 DEF Fault, Undisturbed
<1>2. ~Yields(p)
  <2>1. ASSUME Yields(p) PROVE FALSE
    <3>1. PICK q \in Pids : daemon[q] = "up"
      BY <2>1 DEF Yields, Taken
    <3>2. daemon[p] = "starting"
      BY <2>1 DEF Yields, Daemon
    <3> QED
      BY <3>1, <3>2 DEF Calm, OneTracked, Living
  <2> QED
    BY <2>1
<1>3. ComesUp(p)
  BY <1>1, <1>2 DEF DaemonStep, Hangs, Dies
<1>4. /\ daemon[p] = "starting" /\ daemon' = [daemon EXCEPT ![p] = "up"] /\ home' = home
      /\ UNCHANGED <<cfg, known, array, wpid, flock, env, at, call, result, again, read, raced>>
  BY <1>3 DEF ComesUp, Daemon, Becomes, calls, scripts, history
<1>5. Living' = Living
  BY <1>4 DEF StateShape, Living
<1>6. ASSUME NEW c PROVE (Answers(c) => Answers(c)') /\ (Watched(c) => Watched(c)')
  BY <1>4 DEF StateShape, Answers, Serving, Watched
<1>7. Silent' <=> Silent
  BY <1>4, <1>5 DEF Silent
<1>8. ASSUME NEW q \in Pids, daemon[q] \in {"starting", "up"} PROVE daemon'[q] \in {"starting", "up"}
  BY <1>4, <1>8 DEF StateShape
<1>9. ASSUME NEW c, Left(c) PROVE Left(c)'
  BY <1>4, <1>6, <1>7, <1>9 DEF Left
<1>10. ASSUME NEW s \in Shells, CallAt(s) PROVE CallAt(s)'
  BY <1>4, <1>6, <1>7, <1>8, <1>10 DEF CallAt
<1>11. ASSUME NEW s \in Shells, ScriptAt(s) PROVE ScriptAt(s)'
  <2>1. Raising(s) => Raising(s)'
    BY <1>4, <1>6 DEF Raising
  <2>2. Fitting(s) => Fitting(s)'
    BY <1>4, <1>6 DEF Fitting
  <2>3. Lowering(s) => Lowering(s)'
    BY <1>4, <1>7 DEF Lowering
  <2>4. Left(known) => Left(known)'
    BY <1>4, <1>9
  <2> QED
    BY <1>4, <1>11, <2>1, <2>2, <2>3, <2>4 DEF ScriptAt
<1>12. AtRest' <=> AtRest
  BY <1>4 DEF AtRest, Busy
<1>13. InForce' /\ Watching' /\ ~raced'
  BY <1>4 DEF Calm, InForce, Watching
<1>14. AtRest' => Left(cfg)'
  BY <1>4, <1>9, <1>12 DEF Calm
<1> QED
  BY <1>10, <1>11, <1>13, <1>14 DEF Calm

\* Before the step of a shell that rests, all of them rest.
LEMMA AllRest ==
  ASSUME Calm, NEW s \in Shells, Alone(s), at[s] \in Resting
  PROVE  /\ AtRest /\ Left(cfg) /\ cfg = known /\ call[s] = "none"
         /\ (array = "up" /\ cfg \in Enabled) \/ Silent
<1>1. call[s] = "none"
  BY DEF Calm, ScriptAt
<1>2. AtRest
  BY <1>1 DEF Alone, AtRest, Busy, Resting
<1>3. \A a \in Applies : at[a] \in Resting
  BY <1>2, Sorts DEF AtRest, Busy, Resting
<1>4. cfg = known
  BY <1>3 DEF Calm, InForce, Resting
<1> QED
  BY <1>1, <1>2, <1>4 DEF Calm, Left

\* What a script changes of its own.
LEMMA ScriptDoes ==
  ASSUME Types, NEW s \in Shells, NEW p, NEW q, NEW c, Script(s, p, q, c)
  PROVE  at[s] = p /\ call[s] = "none" /\ at'[s] = q /\ call'[s] = c /\ result'[s] = "none" /\ ~again'[s]
  BY DEF Types, ScriptShape, Script

LEMMA RestartsDoes ==
  ASSUME Types, NEW s \in Shells, NEW p, NEW q, Restarts(s, p, q)
  PROVE  at[s] = p /\ call[s] = "none" /\ at'[s] = q /\ call'[s] = "stop" /\ result'[s] = "none" /\ again'[s]
  BY DEF Types, ScriptShape, Restarts

LEMMA DoneDoes ==
  ASSUME Types, NEW s \in Shells, NEW p, NEW r, Done(s, p, r)
  PROVE  at[s] = p /\ call[s] = "none" /\ at'[s] = "done" /\ call'[s] = "none" /\ result'[s] = r
  BY DEF Types, ScriptShape, Done

\* Nothing that incusd or the environment consists of is touched.
LEMMA MovedKeeps ==
  ASSUME NEW s, Moved(s), wpid' = wpid
  PROVE  /\ raced' = raced /\ env' = env /\ (Silent' <=> Silent)
         /\ \A c : Watched(c)' <=> Watched(c)
         /\ \A c : array' = array /\ Left(c) => Left(c)'
<1>1. raced' = raced /\ env' = env /\ daemon' = daemon /\ home' = home
  BY DEF Moved, processes
<1>2. Silent' <=> Silent
  BY <1>1 DEF Silent, Living
<1>3. \A c : Watched(c)' <=> Watched(c)
  BY <1>1 DEF Watched, Answers, Serving
<1> QED
  BY <1>1, <1>2, <1>3 DEF Left

\* A shell that stays at rest or is over has nothing to answer for.
LEMMA RestCalm ==
  ASSUME NEW s, at'[s] \in Resting, call'[s] = "none"
  PROVE  CallAt(s)' /\ ScriptAt(s)'
  BY DEF CallAt, ScriptAt, Stopping, Resting, InitCalls, Unsourced

\* Watchdogs stay as they are when another shell moves.
LEMMA MovedWatching ==
  ASSUME Watching, NEW s \in Shells \ Watchdogs, Moved(s), wpid' = wpid
  PROVE  Watching'
  BY Sorts DEF Watching, Moved

\* The events of the array.
LEMMA EventsCalm ==
  ASSUME Inv, Calm, Alone("events"), Alone("events")', Mounted \/ Unmounting \/ EventsGoOn
  PROVE  Calm'
<1> USE DEF Inv, Types
<1>1. "events" \in Shells \ Watchdogs /\ "events" \in Shells /\ "events" \notin Applies
  BY Sorts
<1>2. CallAt("events") /\ ScriptAt("events") /\ InForce /\ Watching /\ ~raced
  BY <1>1 DEF Calm
<1>3. wpid' = wpid /\ UNCHANGED <<cfg, known, read>>
  BY DEF Mounted, Unmounting, EventsGoOn, MountRetries, MountGoesOn, Unmounted, Script
<1>4. Moved("events")
  BY ScriptFrame, <1>1 DEF ScriptStep
<1>5. /\ raced' = raced /\ env' = env /\ (Silent' <=> Silent)
      /\ (Watched(cfg)' <=> Watched(cfg)) /\ (array' = array /\ Left(cfg) => Left(cfg)')
  BY <1>3, <1>4, MovedKeeps
<1>6. InForce'
  BY <1>2, <1>3, <1>4, Sorts DEF InForce, Moved
<1>7. Watching'
  BY <1>1, <1>2, <1>3, <1>4, MovedWatching
<1>8. cfg = known /\ (cfg \in Enabled => cfg \notin Broken)
  <2>1. \A a \in Applies : at[a] \in Resting
    BY Sorts DEF Alone, Busy, Resting
  <2> QED
    BY <1>2, <2>1 DEF InForce, Resting
<1> SUFFICES CallAt("events")' /\ ScriptAt("events")' /\ (AtRest' => Left(cfg)')
  BY <1>1, <1>2, <1>5, <1>6, <1>7, AloneCalm
<1>9. ASSUME at'["events"] \notin Resting PROVE ~AtRest'
  BY <1>1, <1>9 DEF AtRest, Busy, Resting
<1>10. CASE Mounted
  <2>1. array = "down" /\ array' = "up"
    BY <1>10 DEF Mounted
  <2>2. at["events"] = "idle"
    BY <1>1, <1>10, ScriptDoes DEF Mounted
  <2>3. Silent
    BY <1>1, <2>1, <2>2, AllRest DEF Resting
  <2>4. CASE cfg \in Enabled
    <3>1. Script("events", "idle", "starting", "start")
      BY <1>10, <2>4 DEF Mounted
    <3>2. at'["events"] = "starting" /\ call'["events"] = "start" /\ result'["events"] = "none"
      BY <1>1, <3>1, ScriptDoes
    <3>3. CallAt("events")'
      BY <1>5, <2>3, <3>2 DEF CallAt, Unsourced, InitCalls
    <3>4. ScriptAt("events")'
      BY <1>3, <2>1, <2>4, <3>2 DEF ScriptAt, Raising, StartCalls, Stopping, Resting
    <3> QED
      BY <1>9, <3>2, <3>3, <3>4 DEF Resting
  <2>5. CASE cfg \notin Enabled
    <3>1. Script("events", "idle", "idle", "none")
      BY <1>10, <2>5 DEF Mounted
    <3>2. at'["events"] = "idle" /\ call'["events"] = "none"
      BY <1>1, <3>1, ScriptDoes
    <3>3. Left(cfg)'
      BY <1>3, <1>5, <2>1, <2>3, <2>5 DEF Left
    <3> QED
      BY <3>2, <3>3, RestCalm DEF Resting
  <2> QED
    BY <2>4, <2>5
<1>11. CASE Unmounting
  <2>1. array = "up" /\ array' = "unmounting"
    BY <1>11 DEF Unmounting
  <2>2. at["events"] = "idle"
    BY <1>1, <1>11, ScriptDoes DEF Unmounting
  <2>3. cfg \notin Enabled => Silent
    BY <1>1, <2>2, AllRest DEF Resting
  <2>4. PICK c \in {"stop", "none"} : Script("events", "idle", "stopping", c) /\ (c = "none" => cfg \notin Enabled)
    BY <1>11 DEF Unmounting
  <2>5. at'["events"] = "stopping" /\ call'["events"] = c /\ result'["events"] = "none" /\ ~again'["events"]
    BY <1>1, <2>4, ScriptDoes
  <2>6. CallAt("events")'
    BY <2>4, <2>5 DEF CallAt, Unsourced, InitCalls
  <2>7. Lowering("events")'
    BY <1>5, <2>3, <2>4, <2>5 DEF Lowering, Stopping
  <2>8. ScriptAt("events")'
    BY <2>5, <2>7 DEF ScriptAt, Resting
  <2> QED
    BY <1>9, <2>5, <2>6, <2>8 DEF Resting
<1>12. CASE MountRetries
  <2>1. at["events"] = "starting" /\ call["events"] = "none" /\ result["events"] = "fail"
    BY <1>1, <1>12, ScriptDoes DEF MountRetries
  <2> QED
    BY <1>2, <2>1 DEF ScriptAt, Raising
<1>13. CASE MountGoesOn
  <2>1. array' = array
    BY <1>13 DEF MountGoesOn
  <2>2. CASE result["events"] = "ok" /\ Script("events", "starting", "reconciling", "init")
    <3>1. /\ at["events"] = "starting" /\ call["events"] = "none"
          /\ at'["events"] = "reconciling" /\ call'["events"] = "init" /\ result'["events"] = "none"
      BY <1>1, <2>2, ScriptDoes
    <3>2. array = "up" /\ cfg \in Enabled /\ Watched(cfg)
      BY <1>2, <3>1 DEF ScriptAt, Raising
    <3>3. CallAt("events")'
      BY <1>3, <1>5, <3>1, <3>2 DEF CallAt, Unsourced
    <3>4. Fitting("events")'
      BY <1>3, <1>5, <2>1, <3>1, <3>2 DEF Fitting, InitCalls
    <3>5. ScriptAt("events")'
      BY <3>1, <3>4 DEF ScriptAt, Resting
    <3> QED
      BY <1>9, <3>1, <3>3, <3>5 DEF Resting
  <2>3. CASE result["events"] = "fail" /\ Script("events", "reconciling", "abandoning", "stop")
    <3>1. at["events"] = "reconciling" /\ call["events"] = "none"
      BY <1>1, <2>3, ScriptDoes
    <3> QED
      BY <1>2, <1>8, <2>3, <3>1 DEF ScriptAt, Fitting
  <2>4. CASE result["events"] = "ok" /\ Script("events", "reconciling", "idle", "none")
    <3>1. /\ at["events"] = "reconciling" /\ call["events"] = "none"
          /\ at'["events"] = "idle" /\ call'["events"] = "none"
      BY <1>1, <2>4, ScriptDoes
    <3>2. array = "up" /\ cfg \in Enabled /\ Watched(cfg) /\ env = cfg
      BY <1>2, <2>4, <3>1 DEF ScriptAt, Fitting
    <3>3. Left(cfg)'
      BY <1>3, <1>5, <2>1, <3>2 DEF Left
    <3> QED
      BY <3>1, <3>3, RestCalm DEF Resting
  <2>5. CASE Script("events", "abandoning", "idle", "none")
    <3>1. at["events"] = "abandoning"
      BY <1>1, <2>5, ScriptDoes
    <3> QED
      BY <1>2, <3>1 DEF ScriptAt
  <2> QED
    BY <1>13, <2>2, <2>3, <2>4, <2>5 DEF MountGoesOn
<1>14. CASE Unmounted
  <2>1. /\ at["events"] = "stopping" /\ call["events"] = "none" /\ array' = "down"
        /\ at'["events"] = "idle" /\ call'["events"] = "none"
    BY <1>1, <1>14, ScriptDoes DEF Unmounted
  <2>2. Silent
    BY <1>2, <2>1 DEF ScriptAt, Lowering
  <2>3. Left(cfg)'
    BY <1>5, <2>1, <2>2 DEF Left
  <2> QED
    BY <2>1, <2>3, RestCalm DEF Resting
<1> QED
  BY <1>10, <1>11, <1>12, <1>13, <1>14 DEF EventsGoOn

\* Between its looks a watchdog disturbs nobody.
LEMMA PausesCalm ==
  ASSUME Calm, NEW w \in Watchdogs, Moved(w), UNCHANGED <<cfg, known, array, wpid>>,
         at[w] \in {"watching", "looking"}, at'[w] \in {"watching", "looking"}, call'[w] = "none", call[w] = "none"
  PROVE  Calm'
<1>1. w \in Shells
  BY Sorts
<1>2. /\ raced' = raced /\ env' = env /\ (Silent' <=> Silent) /\ daemon' = daemon /\ home' = home
      /\ \A c : (Watched(c)' <=> Watched(c)) /\ (Left(c) => Left(c)')
  BY MovedKeeps DEF Moved, processes
<1>3. \A t \in Shells \ {w} : /\ at'[t] = at[t] /\ call'[t] = call[t] /\ result'[t] = result[t]
                              /\ read'[t] = read[t] /\ (again'[t] <=> again[t])
  BY DEF Moved
<1>4. InForce'
  BY <1>3, Sorts DEF Calm, InForce
<1>5. Watching'
  BY <1>3, Sorts DEF Calm, Watching
<1>6. CallAt(w)' /\ ScriptAt(w)'
  BY RestCalm DEF Resting
<1>7. ASSUME NEW t \in Shells \ {w} PROVE CallAt(t)' /\ ScriptAt(t)'
  <2>1. CallAt(t) /\ ScriptAt(t)
    BY DEF Calm
  <2>2. CallAt(t)'
    BY <1>2, <1>3, <2>1 DEF CallAt, Answers, Serving
  <2>3. (Raising(t) => Raising(t)') /\ (Fitting(t) => Fitting(t)')
    BY <1>2, <1>3 DEF Raising, Fitting
  <2>4. Lowering(t) => Lowering(t)'
    BY <1>2, <1>3 DEF Lowering
  <2>5. Left(known) => Left(known)'
    BY <1>2
  <2>6. ScriptAt(t)'
    BY <1>3, <2>1, <2>3, <2>4, <2>5 DEF ScriptAt
  <2> QED
    BY <2>2, <2>6
<1>8. AtRest' => Left(cfg)'
  <2>1. AtRest' => AtRest
    BY <1>3 DEF AtRest, Busy
  <2>2. Left(cfg) => Left(cfg)'
    BY <1>2
  <2> QED
    BY <2>1, <2>2 DEF Calm
<1> QED
  BY <1>2, <1>4, <1>5, <1>6, <1>7, <1>8 DEF Calm

\* The watchdog sees an incusd that answers.
LEMMA WatchdogCalm ==
  ASSUME Inv, Calm, ~overlapped', NEW w \in Watchdogs, WatchdogReads(w) \/ Looks(w) \/ WatchdogGoesOn(w)
  PROVE  Calm'
<1> USE DEF Inv, Types
<1>1. w \in Shells /\ None \notin Watchdogs
  BY Sorts
<1>2. Watching
  BY DEF Calm
<1>3. ~WatchdogGoesOn(w)
  <2>1. at[w] \in {"watching", "looking", "off"}
    BY <1>2 DEF Watching
  <2>2. WatchdogGoesOn(w) => at[w] \in {"stopping", "starting", "reconciling"}
    BY DEF WatchdogGoesOn, Script
  <2> QED
    BY <2>1, <2>2
<1>4. at[w] \in {"watching", "looking"}
  BY <1>3 DEF WatchdogReads, Looks, Script
<1>5. w = wpid /\ wpid # None
  BY <1>1, <1>2, <1>4 DEF Watching
<1>6. Moved(w)
  BY <1>1, ScriptFrame DEF ScriptStep
<1>7. Alone(w) => array = "up" /\ cfg \in Enabled /\ Answers(cfg)
  <2>1. ~Silent
    BY <1>5 DEF Silent
  <2> QED
    BY <1>1, <1>4, <2>1, AllRest DEF Resting, Left, Watched
<1>8. CASE WatchdogReads(w)
  <2>1. cfg \in Enabled
    <3>1. cfg \notin Enabled => (overlapped' <=> overlapped \/ \E t \in Shells \ {w} : Busy(t))
      BY <1>8, Zenon DEF WatchdogReads, SetsOut
    <3> QED
      BY <1>7, <3>1 DEF Alone
  <2>2. Script(w, "watching", "looking", "none") /\ UNCHANGED <<cfg, known, array, wpid>>
    BY <1>8, <2>1 DEF WatchdogReads
  <2> QED
    BY <1>1, <1>6, <2>2, ScriptDoes, PausesCalm
<1>9. CASE Looks(w)
  <2>1. Answers(read[w])
    <3>1. ~Answers(read[w]) => (overlapped' <=> overlapped \/ read[w] # cfg \/ \E t \in Shells \ {w} : Busy(t))
      BY <1>9, Zenon DEF Looks, Acts
    <3> QED
      BY <1>7, <3>1 DEF Alone
  <2>2. Script(w, "looking", "watching", "none") /\ UNCHANGED <<cfg, known, array, wpid>>
    BY <1>9, <2>1 DEF Looks
  <2> QED
    BY <1>1, <1>6, <2>2, ScriptDoes, PausesCalm
<1> QED
  BY <1>3, <1>8, <1>9

\* A save, and apply-settings.sh.
LEMMA ApplyCalm ==
  ASSUME Inv, Calm, Undisturbed', NEW a \in Applies, Alone(a), Alone(a)',
         ApplyGoesOn(a) \/ TimesOut(a) \/ \E c \in Configs : Save(a, c)
  PROVE  Calm'
<1> USE DEF Inv, Types
<1>1. a \in Shells /\ a \in Shells \ Watchdogs
  BY Sorts
<1>2. CallAt(a) /\ ScriptAt(a) /\ InForce /\ Watching /\ ~raced
  BY <1>1 DEF Calm
<1>3. ApplyGoesOn(a) \/ \E c \in Configs : Save(a, c)
  <2>1. ~TimesOut(a)
    BY <1>1 DEF TimesOut, Undisturbed, ScriptShape
  <2> QED
    BY <2>1
<1>4. wpid' = wpid /\ array' = array
  BY <1>3 DEF Save, ApplyGoesOn, ApplyReads, ApplyValidates, ApplyReconciles, Promotes, Restores, Reverts,
              Undone, Failing, Applied, Onward, Script, Restarts, Done
<1>5. Moved(a)
  BY <1>1, ScriptFrame DEF ScriptStep
<1>6. /\ raced' = raced /\ env' = env /\ (Silent' <=> Silent)
      /\ \A c : (Watched(c)' <=> Watched(c)) /\ (Left(c) => Left(c)')
  BY <1>4, <1>5, MovedKeeps
<1>7. Watching'
  BY <1>1, <1>2, <1>4, <1>5, MovedWatching
<1>8. at[a] \notin {"saved", "validating", "restarting", "disabling", "reconciling"} => cfg = known
  <2>1. \A b \in Applies \ {a} : at[b] \in Resting
    BY Sorts DEF Alone, Busy, Resting
  <2> QED
    BY <1>2, <2>1 DEF InForce, Resting
<1>9. ASSUME cfg' = cfg, known' = known, Left(known) PROVE Left(known)'
  BY <1>6, <1>9
<1> SUFFICES InForce' /\ CallAt(a)' /\ ScriptAt(a)' /\ (AtRest' => Left(cfg)')
  BY <1>1, <1>2, <1>6, <1>7, AloneCalm
<1>10. ASSUME at'[a] \notin Resting PROVE ~AtRest'
  BY <1>1, <1>10 DEF AtRest, Busy, Resting
<1>11. ASSUME call'[a] \in {"stop", "none"}, result'[a] = "none" PROVE CallAt(a)'
  BY <1>11 DEF CallAt, Unsourced, InitCalls
<1>12. CASE \E c \in Configs : Save(a, c)
  <2>1. Script(a, "idle", "saved", "none") /\ known' = known
    BY <1>12 DEF Save
  <2>2. at[a] = "idle" /\ at'[a] = "saved" /\ call'[a] = "none" /\ result'[a] = "none"
    BY <1>1, <2>1, ScriptDoes
  <2>3. Left(known)
    BY <1>1, <2>2, AllRest DEF Resting
  <2>4. Left(known)'
    BY <1>6, <2>1, <2>3 DEF Left
  <2>5. ScriptAt(a)'
    BY <2>2, <2>4 DEF ScriptAt, Resting
  <2>6. InForce'
    BY <1>2, <2>1, <2>2 DEF InForce
  <2> QED
    BY <1>10, <1>11, <2>2, <2>5, <2>6 DEF Resting
<1>13. CASE ApplyReads(a)
  <2>1. at[a] = "saved" /\ at'[a] = "validating" /\ call'[a] = "none" /\ result'[a] = "none"
    BY <1>1, <1>13, ScriptDoes DEF ApplyReads
  <2>2. known' = known /\ cfg' = cfg /\ read'[a] = cfg
    BY <1>1, <1>13 DEF ApplyReads, ScriptShape
  <2>3. Left(known)'
    BY <1>2, <1>9, <2>1, <2>2 DEF ScriptAt
  <2>4. ScriptAt(a)'
    BY <2>1, <2>2, <2>3 DEF ScriptAt, Resting
  <2>5. InForce'
    BY <1>2, <2>1, <2>2 DEF InForce
  <2> QED
    BY <1>10, <1>11, <2>1, <2>4, <2>5 DEF Resting
<1>14. CASE ApplyValidates(a)
  <2>1. at[a] = "validating" /\ known' = known /\ read[a] = cfg
    BY <1>2, <1>14 DEF ApplyValidates, ScriptAt
  <2>2. Left(known)
    BY <1>2, <2>1 DEF ScriptAt
  <2>3. CASE ~Acceptable(cfg) /\ Done(a, "validating", "fail") /\ cfg' = known
    <3>1. at'[a] = "done" /\ call'[a] = "none"
      BY <1>1, <2>3, DoneDoes
    <3>2. Left(cfg)'
      BY <1>4, <1>6, <2>1, <2>2, <2>3 DEF Left
    <3>3. InForce'
      BY <1>2, <2>1, <2>3 DEF InForce
    <3> QED
      BY <3>1, <3>2, <3>3, RestCalm DEF Resting
  <2>4. CASE Acceptable(cfg) /\ cfg' = cfg
    <3>1. array = "up"
      BY <2>2, <2>4 DEF Left, Acceptable, StateShape
    <3>2. CASE cfg \in Enabled
      <4>1. Restarts(a, "validating", "restarting")
        BY <1>14, <2>1, <2>4, <3>2 DEF ApplyValidates
      <4>2. at'[a] = "restarting" /\ call'[a] = "stop" /\ result'[a] = "none" /\ again'[a]
        BY <1>1, <4>1, RestartsDoes
      <4>3. ScriptAt(a)'
        BY <1>4, <2>4, <3>1, <3>2, <4>2 DEF ScriptAt, Raising, Stopping, Resting
      <4>4. InForce'
        BY <1>2, <2>1, <4>2 DEF InForce
      <4> QED
        BY <1>10, <1>11, <4>2, <4>3, <4>4 DEF Resting
    <3>3. CASE cfg \notin Enabled
      <4>1. Script(a, "validating", "disabling", "stop")
        BY <1>14, <2>1, <2>4, <3>3 DEF ApplyValidates
      <4>2. at'[a] = "disabling" /\ call'[a] = "stop" /\ result'[a] = "none" /\ ~again'[a]
        BY <1>1, <4>1, ScriptDoes
      <4>3. ScriptAt(a)'
        BY <1>4, <2>4, <3>1, <3>3, <4>2 DEF ScriptAt, Lowering, Stopping, Resting
      <4>4. InForce'
        BY <1>2, <2>1, <4>2 DEF InForce
      <4> QED
        BY <1>10, <1>11, <4>2, <4>3, <4>4 DEF Resting
    <3> QED
      BY <3>2, <3>3
  <2> QED
    BY <1>14, <2>1, <2>3, <2>4 DEF ApplyValidates
<1>15. CASE ApplyReconciles(a)
  <2>1. PICK p \in {"restarting", "undoing"}, q \in {"reconciling", "undoing2"} :
          Script(a, p, q, "init") /\ (p = "restarting" <=> q = "reconciling")
    BY <1>15 DEF ApplyReconciles
  <2>2. /\ at[a] = p /\ call[a] = "none" /\ at'[a] = q /\ call'[a] = "init" /\ result'[a] = "none"
        /\ UNCHANGED <<cfg, known>>
    BY <1>1, <1>15, <2>1, ScriptDoes DEF ApplyReconciles
  <2>3. array = "up" /\ cfg \in Enabled /\ Watched(cfg)
    BY <1>2, <2>2 DEF ScriptAt, Raising
  <2>4. Watched(cfg)'
    BY <1>6, <2>2, <2>3 DEF Watched, Answers, Serving
  <2>5. CallAt(a)'
    BY <2>2, <2>4 DEF CallAt, Unsourced
  <2>6. Fitting(a)'
    BY <1>4, <2>2, <2>3, <2>4 DEF Fitting, InitCalls
  <2>7. ScriptAt(a)'
    BY <2>2, <2>3, <2>6 DEF ScriptAt, Resting
  <2>8. InForce'
    <3>1. CASE q = "reconciling"
      BY <1>2, <2>2, <3>1 DEF InForce
    <3>2. CASE q = "undoing2"
      BY <1>2, <1>8, <2>1, <2>2, <3>2 DEF InForce
    <3> QED
      BY <3>1, <3>2
  <2> QED
    BY <1>10, <2>2, <2>5, <2>7, <2>8 DEF Resting
<1>16. CASE Promotes(a)
  <2>1. PICK p \in {"disabling", "reconciling"} : Done(a, p, "ok")
    BY <1>16 DEF Promotes
  <2>2. at[a] = p /\ call[a] = "none" /\ at'[a] = "done" /\ call'[a] = "none"
    BY <1>1, <2>1, DoneDoes
  <2>3. result[a] = "ok" /\ cfg' = cfg /\ known' = cfg
    BY <1>16 DEF Promotes
  <2>4. /\ array = "up" /\ IF cfg \in Enabled THEN Watched(cfg) /\ env = cfg ELSE Silent
        /\ cfg \in Enabled => cfg \notin Broken
    BY <1>2, <2>2, <2>3 DEF ScriptAt, Lowering, Fitting
  <2>5. Left(cfg)
    BY <2>4 DEF Left
  <2>6. Left(cfg)'
    BY <1>4, <1>6, <2>3, <2>5 DEF Left
  <2>7. InForce'
    BY <2>3, <2>4 DEF InForce
  <2> QED
    BY <2>2, <2>6, <2>7, RestCalm DEF Resting
<1>17. CASE Restores(a)
  <2>1. result[a] = "fail" /\ cfg' = known /\ known' = known
    BY <1>17 DEF Restores
  <2>2. PICK p \in {"disabling", "restarting", "reconciling"} : Script(a, p, "restored", "none")
    BY <1>17 DEF Restores, Failing
  <2>3. at[a] = p /\ call[a] = "none" /\ at'[a] = "restored" /\ call'[a] = "none" /\ result'[a] = "none"
    BY <1>1, <2>2, ScriptDoes
  <2>4. array = "up"
    BY <1>2, <2>1, <2>3 DEF ScriptAt, Lowering, Raising, Fitting
  <2>5. InForce'
    BY <1>2, <2>1 DEF InForce
  <2>6. ScriptAt(a)'
    BY <1>4, <2>3, <2>4 DEF ScriptAt, Resting
  <2> QED
    BY <1>10, <1>11, <2>3, <2>5, <2>6 DEF Resting
<1>18. CASE Reverts(a)
  <2>1. UNCHANGED <<cfg, known>>
    BY <1>18 DEF Reverts
  <2>2. at[a] = "restored" /\ call[a] = "none"
    BY <1>18 DEF Reverts, Script, Restarts
  <2>3. array = "up" /\ cfg = known
    BY <1>2, <1>8, <2>2 DEF ScriptAt
  <2>4. InForce'
    BY <1>2, <2>1, <2>3 DEF InForce
  <2>5. CASE cfg \in Enabled
    <3>1. at'[a] = "undoing" /\ call'[a] = "stop" /\ result'[a] = "none" /\ again'[a]
      BY <1>1, <1>18, <2>5, RestartsDoes DEF Reverts
    <3>2. ScriptAt(a)'
      BY <1>4, <2>1, <2>3, <2>5, <3>1 DEF ScriptAt, Raising, Stopping, Resting
    <3> QED
      BY <1>10, <1>11, <2>4, <3>1, <3>2 DEF Resting
  <2>6. CASE cfg \notin Enabled
    <3>1. at'[a] = "undoing2" /\ call'[a] = "stop" /\ result'[a] = "none" /\ ~again'[a]
      BY <1>1, <1>18, <2>6, ScriptDoes DEF Reverts
    <3>2. ScriptAt(a)'
      BY <1>4, <2>1, <2>3, <2>6, <3>1 DEF ScriptAt, Lowering, Stopping, Resting
    <3> QED
      BY <1>10, <1>11, <2>4, <3>1, <3>2 DEF Resting
  <2> QED
    BY <2>5, <2>6
<1>19. CASE Undone(a)
  <2>1. PICK p \in {"undoing", "undoing2"} : Done(a, p, "fail") /\ (p = "undoing" => result[a] = "fail")
    BY <1>19 DEF Undone
  <2>2. at[a] = p /\ call[a] = "none" /\ at'[a] = "done" /\ call'[a] = "none" /\ UNCHANGED <<cfg, known>>
    BY <1>1, <1>19, <2>1, DoneDoes DEF Undone
  <2>3. p = "undoing2"
    BY <1>2, <2>1, <2>2 DEF ScriptAt, Raising
  <2>4. cfg = known
    BY <1>8, <2>2, <2>3
  <2>5. Left(cfg)
    BY <1>2, <2>2, <2>3, <2>4 DEF ScriptAt, Lowering, Fitting, InForce, Left
  <2>6. Left(cfg)'
    BY <1>6, <2>2, <2>5 DEF Left
  <2>7. InForce'
    BY <1>2, <2>2, <2>4 DEF InForce
  <2> QED
    BY <2>2, <2>6, <2>7, RestCalm DEF Resting
<1> QED
  BY <1>3, <1>12, <1>13, <1>14, <1>15, <1>16, <1>17, <1>18, <1>19 DEF ApplyGoesOn

\* As long as nothing is disturbed every step leaves what the next one wants to find.
LEMMA NextOrderly ==
  ASSUME Inv, Orderly, [Next]_vars
  PROVE  Orderly'
<1> USE DEF Inv
<1>1. Noticed'
  BY NextNoticed DEF Orderly
<1> SUFFICES ASSUME Undisturbed' PROVE Calm'
  BY <1>1 DEF Orderly
<1>2. Undisturbed /\ ~overlapped'
  BY StaysDisturbed DEF Undisturbed
<1>3. Calm /\ Noticed
  BY <1>2 DEF Orderly
<1>4. CASE UNCHANGED vars
  <2> USE <1>4 DEF vars, processes, calls, scripts, history
  <2>1. Silent' = Silent /\ AtRest' = AtRest
    BY Zenon DEF Silent, Living, AtRest, Busy
  <2>2. \A c : Watched(c)' = Watched(c)
    BY Zenon DEF Watched, Answers, Serving
  <2>3. \A c : Left(c) => Left(c)'
    BY <2>1, <2>2 DEF Left
  <2>4. ASSUME NEW s \in Shells PROVE CallAt(s)' /\ ScriptAt(s)'
    <3>1. CallAt(s) /\ ScriptAt(s)
      BY <1>3 DEF Calm
    <3>2. CallAt(s)'
      BY <2>1, <2>2, <3>1 DEF CallAt, Answers, Serving
    <3>3. (Raising(s) => Raising(s)') /\ (Fitting(s) => Fitting(s)')
      BY <2>2 DEF Raising, Fitting
    <3>4. Lowering(s) => Lowering(s)'
      BY <2>1 DEF Lowering
    <3>5. Left(known) => Left(known)'
      BY <2>3
    <3>6. ScriptAt(s)'
      BY <3>1, <3>3, <3>4, <3>5 DEF ScriptAt
    <3> QED
      BY <3>2, <3>6
  <2>5. AtRest' => Left(cfg)'
    BY <1>3, <2>1, <2>3 DEF Calm
  <2> QED
    BY <1>3, <2>4, <2>5 DEF Calm, InForce, Watching
<1>5. ASSUME NEW s \in Shells, CallStep(s) PROVE Calm'
  <2>1. Alone(s) /\ Alone(s)'
    BY <1>2, <1>3, <1>5, CallOnly, ActsAlone
  <2>2. ~Cleans(s)
    <3>1. call[s] \in StartCalls \cup InitCalls \cup Stopping
      BY <1>3, <1>5, CallFrame, CallPhase DEF Called
    <3> QED
      BY <3>1 DEF Cleans, Calling, StartCalls, InitCalls, Stopping
  <2> QED
    BY <1>2, <1>3, <1>5, <2>1, <2>2, SourcesCalm, StartCalm, StopCalm, InitCalm DEF CallStep
<1>6. ASSUME NEW p \in Pids, DaemonStep(p) PROVE Calm'
  BY <1>3, <1>6, DaemonCalm
<1>7. CASE Mounted \/ Unmounting \/ EventsGoOn
  <2>1. "events" \in Shells /\ Only("events")
    BY <1>7, Sorts, ScriptOnly DEF ScriptStep
  <2>2. Busy("events") \/ SetsOut("events")
    BY <1>7 DEF Busy, Mounted, Unmounting, EventsGoOn, MountRetries, MountGoesOn, Unmounted, Script
  <2>3. SetsOut("events") => Alone("events")
    BY <1>2, Zenon DEF SetsOut, Alone
  <2>4. Alone("events") /\ Alone("events")'
    BY <1>2, <1>3, <2>1, <2>2, <2>3, ActsAlone
  <2> QED
    BY <1>3, <1>7, <2>4, EventsCalm
<1>8. ASSUME NEW w \in Watchdogs, WatchdogReads(w) \/ Looks(w) \/ WatchdogGoesOn(w) PROVE Calm'
  BY <1>2, <1>3, <1>8, WatchdogCalm
<1>9. ASSUME NEW a \in Applies, ApplyGoesOn(a) \/ TimesOut(a) \/ \E c \in Configs : Save(a, c) PROVE Calm'
  <2>1. a \in Shells /\ Only(a)
    BY <1>9, Sorts, ScriptOnly DEF ScriptStep
  <2>2. Busy(a) \/ SetsOut(a)
    <3>1. ~TimesOut(a)
      BY <2>1 DEF TimesOut, Undisturbed, Types, ScriptShape
    <3>2. CASE ApplyGoesOn(a)
      BY <3>2 DEF Busy, ApplyGoesOn, ApplyReads, ApplyValidates, ApplyReconciles, Promotes, Restores,
                  Reverts, Undone, Failing, Applied, Onward, Script, Restarts, Done
    <3>3. CASE \E c \in Configs : Save(a, c)
      BY <3>3 DEF Save
    <3> QED
      BY <1>9, <3>1, <3>2, <3>3
  <2>3. SetsOut(a) => Alone(a)
    BY <1>2, Zenon DEF SetsOut, Alone
  <2>4. Alone(a) /\ Alone(a)'
    BY <1>2, <1>3, <2>1, <2>2, <2>3, ActsAlone
  <2> QED
    BY <1>3, <1>9, <2>4, ApplyCalm
<1> QED
  BY <1>4, <1>5, <1>6, <1>7, <1>8, <1>9 DEF Next

-------------------------------------------------------------------------------
(* The theorems *)

\* Types hold throughout; a mount tries three times at most, a watchdog as
\* often as its limit says, and the flock lets one incus-init.sh reconcile.
THEOREM LifecycleTypes == Spec => []TypeOK
  BY InvHolds, InvImplies, PTL

\* Unless a start raced with something, an incusd that lives is named by
\* incusd.pid at rest: the next stop can kill it even if it hangs, and wherever
\* incus.cfg says by then that it lives.
THEOREM DaemonTracked == Spec => []Tracked
  BY InvHolds, InvImplies, PTL

\* As long as the service stays enabled and no start races, incusd is gone
\* before the array is down, whatever fails, hangs or is killed meanwhile and
\* whichever directory a save names.
THEOREM StoppedWhileEnabled == Spec /\ [](cfg \in Enabled) => []StoppedUnlessRaced
<1>1. DownLast => StoppedUnlessRaced
  BY DEF DownLast, StoppedUnlessRaced
<1> QED
  BY <1>1, InitInv, InvHolds, NextDown, PTL DEF Spec

\* After any number of saves, none of them before the one before it was
\* applied: a disabled config that is the known-good one means that no incusd
\* is left, although scripts were killed, unless a start raced.
THEOREM OffStopped == Spec => []OffIsStopped
<1>1. OffLast => OffIsStopped
  <2> SUFFICES ASSUME OffLast, AtRest, cfg \notin Enabled, cfg = known, ~raced, ~hasty, ~mixed PROVE Living = {}
    BY DEF OffIsStopped
  <2>1. \A a \in Applies : at[a] # "restored"
    BY Sorts DEF AtRest, Busy
  <2>2. \A s \in Shells : call[s] = "none"
    BY DEF AtRest, Busy
  <2> QED
    BY <2>1, <2>2 DEF OffLast, Still, Stopping
<1> QED
  BY <1>1, SavesHold, PTL

\* After any number of saves, of which none came while another one was applied:
\* an enabled config becomes the known-good one only when an incus-init.sh has
\* succeeded with it since it was saved, or one was skipped.
THEOREM PromotedReconciled == Spec => PromotedIsReconciled
<1>1. Inv /\ ApplyOrder /\ Reconciled /\ [Next]_vars
        => [known' # known => known' \notin Enabled \/ known' \in fitted \/ skipped \/ hasty]_vars
  BY PromotesReconciled
<1> QED
  BY <1>1, InvHolds, SavesHold, PTL DEF Spec, PromotedIsReconciled

\* Without faults, and with rc.incus, the events of the array, the watchdogs and
\* any number of apply-settings.sh one after the other: at rest an enabled
\* service answers in the directory of the config in force, its environment is
\* that of this config and one watchdog stands by, whether each save was good,
\* broken or refused.  The config of the boot must not be a broken one, because
\* disks_mounted stops incusd again when incus-init.sh fails with it.
THEOREM ServiceRight ==
  ASSUME Installed \in Enabled => Installed \notin Broken
  PROVE  Spec => []ServiceMatches
<1>1. Orderly => ServiceMatches
  BY DEF Orderly, Calm, Left, Watched, ServiceMatches
<1>2. Init => Orderly
  BY InitOrderly
<1>3. Inv /\ Orderly /\ [Next]_vars => Orderly'
  BY NextOrderly
<1> QED
  BY <1>1, <1>2, <1>3, InvHolds, PTL DEF Spec
===============================================================================
