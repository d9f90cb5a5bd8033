------------------------------- MODULE Lifecycle -------------------------------
(***************************************************************************)
(* The life of incusd: rc.incus starts and stops it, incus-init.sh gives   *)
(* it its environment, and four kinds of script call these two: the array  *)
(* events disks_mounted and unmounting_disks, apply-settings.sh after a    *)
(* save, and the watchdogs that rc.incus itself launches.                  *)
(*                                                                         *)
(* A script waits for what it calls, so a shell is a caller with at most   *)
(* one call of rc.incus or incus-init.sh under way.  A script that is      *)
(* killed does not take its call with it: rc.incus and incus-init.sh run   *)
(* on as orphans.  Shells interleave between the commands that look at or  *)
(* change what they share.  A command sent to a hung incusd fails or never *)
(* returns: its step may be taken, and no fairness says that it is.        *)
(* lxcfs, the jails and the log are left out.                              *)
(***************************************************************************)
EXTENDS Naturals, FiniteSets

CONSTANTS
  Configs,     \* contents of incus.cfg
  Enabled,     \* those with SERVICE="enabled"
  Installed,   \* incus.cfg when the host boots
  Invalid,     \* those apply-settings.sh does not accept
  Broken,      \* those incus-init.sh fails with
  Dirs, Dir,   \* directories, and the INCUS_DIR of each config
  None,        \* no config, no shell, no process, no directory
  Applies,     \* saves of the settings, each with its run of apply-settings.sh
  Watchdogs,   \* watchdog processes
  Pids,        \* processes of incusd
  MaxAttempts, \* starts that disks_mounted tries
  MaxRestarts, \* restarts in a row that a watchdog tries
  MaxEvents,   \* bound: array starts
  MaxFaults,   \* bound: failures of the host and of incusd
  MaxKills     \* bound: scripts killed because the API's patience ended

ASSUME LifecycleAssumption ==
  /\ Enabled \subseteq Configs /\ Invalid \subseteq Configs /\ Broken \subseteq Configs
  /\ Installed \in Configs
  /\ Dir \in [Configs -> Dirs] /\ None \notin Dirs
  /\ None \notin Configs \cup Pids \cup {"events"} \cup Applies \cup Watchdogs
  /\ MaxAttempts \in Nat \ {0} /\ MaxRestarts \in Nat 
  /\ MaxEvents \in Nat /\ MaxFaults \in Nat /\ MaxKills \in Nat
  /\ "events" \notin Applies \cup Watchdogs /\ Applies \cap Watchdogs = {}

Shells == {"events"} \cup Applies \cup Watchdogs

VARIABLES
  cfg,      \* incus.cfg
  known,    \* incus.cfg.known-good
  array,    \* down, up, unmounting
  daemon,   \* daemon[p]: none, starting, up (it answers), hung
  home,     \* home[p]: the INCUS_DIR that p was started with
  pidfile,  \* the living process that incusd.pid names, None if it names none
  fresh,    \* fresh[s]: the living process that s has spawned and not yet written to incusd.pid
  wpid,     \* the living watchdog that incus-watchdog.pid names, None if it names none
  flock,    \* the shell whose incus-init.sh has the lock
  env,      \* the config the environment was reconciled with, None after a failure
  at,       \* at[s]: where the script is
  call,     \* call[s]: where its rc.incus or incus-init.sh is
  result,   \* result[s]: what the last call returned
  again,    \* again[s]: the call is a restart whose start is still to come
  read,     \* read[s]: the config that the call, or without one the script, has sourced
  tries,    \* tries[s]: starts that failed, or unhealthy looks, in a row
  events, faults, kills, \* counters of the bounds
  raced,    \* history: a start raced with another start, with a stop or with a change
  skipped,  \* history: an incus-init.sh found the lock taken
  fitted,   \* history: the configs an incus-init.sh succeeded with since the last save
  overlapped, \* history: a script set out while another one was under way, or a watchdog
              \* acted on an incus.cfg that had been replaced since it was read
  hasty,    \* history: a save came while another apply-settings.sh was under way
  mixed     \* history: a save replaced a config that was not known-good, incusd was spawned
            \* before apply-settings.sh had read it, or a rollback was killed halfway

processes == <<daemon, home, pidfile, fresh>>
calls     == <<call, result, again, read>>
scripts   == <<at, tries>>
bounds    == <<events, faults, kills>>
history   == <<raced, skipped, fitted, overlapped, hasty, mixed>>
vars == <<cfg, known, array, processes, wpid, flock, env, calls, scripts, bounds, history>>

Living     == {p \in Pids : daemon[p] # "none"}
Serving(c) == {p \in Pids : daemon[p] = "up" /\ home[p] = Dir[c]}

\* "incus info" in the INCUS_DIR of c.
Answers(c) == Serving(c) # {}

Init ==
  /\ cfg = Installed /\ known = cfg
  /\ array = "down"
  /\ daemon = [p \in Pids |-> "none"] /\ home = [p \in Pids |-> None]
  /\ pidfile = None /\ fresh = [s \in Shells |-> None]
  /\ wpid = None /\ flock = None /\ env = None
  /\ at = [s \in Shells |-> IF s \in Watchdogs THEN "off" ELSE "idle"]
  /\ call = [s \in Shells |-> "none"] /\ result = [s \in Shells |-> "none"]
  /\ again = [s \in Shells |-> FALSE] /\ read = [s \in Shells |-> None]
  /\ tries = [s \in Shells |-> 0]
  /\ events = 0 /\ faults = 0 /\ kills = 0
  /\ raced = FALSE /\ skipped = FALSE /\ fitted = {}
  /\ overlapped = FALSE /\ hasty = FALSE /\ mixed = FALSE

Fault   == faults < MaxFaults /\ faults' = faults + 1 /\ UNCHANGED <<events, kills>>
NoFault == UNCHANGED bounds

-------------------------------------------------------------------------------
(* rc.incus *)

Goes(s, c) == call' = [call EXCEPT ![s] = c] /\ UNCHANGED <<result, read>>

Dead(s) == at[s] \in {"off", "done"}

\* A call is over, and its script, if it still lives, gets the exit code.
Returns(s, r) ==
  /\ call' = [call EXCEPT ![s] = "none"] /\ read' = [read EXCEPT ![s] = None]
  /\ result' = [result EXCEPT ![s] = IF Dead(s) THEN @ ELSE r]

\* What steps of calls leave alone.
Calling(s, c) == call[s] = c /\ UNCHANGED <<cfg, known, array, at, tries, overlapped, hasty>>

Sourced == [start |-> "check", stop |-> "watchdog", init |-> "lock"]

\* rc.incus and incus-init.sh source incus.cfg before anything else; a restart
\* does so once.
Sources(s) ==
  /\ call[s] \in {"start", "stop", "init"}
  /\ call' = [call EXCEPT ![s] = Sourced[call[s]]] /\ read' = [read EXCEPT ![s] = cfg]
  /\ UNCHANGED <<cfg, known, array, processes, wpid, flock, env, result, again, scripts, bounds, history>>

\* A process of incusd changes; one that ends is named by no pid file any more.
Becomes(p, state) ==
  /\ daemon' = [daemon EXCEPT ![p] = state]
  /\ IF state = "none"
       THEN /\ home' = [home EXCEPT ![p] = None]
            /\ pidfile' = IF pidfile = p THEN None ELSE pidfile
            /\ fresh' = [s \in Shells |-> IF fresh[s] = p THEN None ELSE fresh[s]]
       ELSE UNCHANGED <<home, pidfile, fresh>>

\* start: preflight, which wants INCUS_DIR on persistent storage, then "already running?".
StartChecks(s) ==
  /\ Calling(s, "check")
  /\ \/ /\ IF array = "down" THEN NoFault ELSE Fault
        /\ Returns(s, "fail")
     \/ /\ array # "down" /\ NoFault
        /\ Goes(s, IF Answers(read[s]) THEN "guard" ELSE "spawn")
  /\ UNCHANGED <<processes, wpid, flock, env, again, raced, skipped, fitted, mixed>>

\* Beside a living incusd, with another start or stop under way, with the array
\* going down, with the service disabled.
BadTime(s) ==
  \/ Living # {} \/ array # "up" \/ cfg \notin Enabled
  \/ \E t \in Shells \ {s} : call[t] \in {"record", "wait", "cleanup", "cleaned",
                                         "stop", "watchdog", "shutdown", "kill", "forget"}

\* incusd is started ...
Spawn(s) ==
  /\ Calling(s, "spawn") /\ Goes(s, "record")
  /\ \E p \in Pids \ Living :
       /\ daemon' = [daemon EXCEPT ![p] = "starting"]
       /\ home' = [home EXCEPT ![p] = Dir[read[s]]]
       /\ fresh' = [fresh EXCEPT ![s] = p]
  /\ raced' = (raced \/ BadTime(s))
  /\ mixed' = (mixed \/ \E a \in Applies : at[a] \in {"saved", "validating"})
  /\ UNCHANGED <<pidfile, wpid, flock, env, again, bounds, skipped, fitted>>

\* ... and its pid written, whatever the pid file held.
Records(s) ==
  /\ Calling(s, "record") /\ Goes(s, "wait")
  /\ pidfile' = fresh[s] /\ fresh' = [fresh EXCEPT ![s] = None]
  /\ UNCHANGED <<daemon, home, wpid, flock, env, again, bounds, raced, skipped, fitted, mixed>>

WaitReady(s) ==
  /\ Calling(s, "wait") /\ Answers(read[s])
  /\ Goes(s, "guard")
  /\ UNCHANGED <<processes, wpid, flock, env, again, bounds, raced, skipped, fitted, mixed>>

\* No answer for 15 s: cleanup_failed_start.
WaitTimesOut(s) ==
  /\ Calling(s, "wait") /\ ~Answers(read[s])
  /\ IF \E p \in Pids : daemon[p] = "starting" THEN Fault ELSE NoFault
  /\ Goes(s, "cleanup")
  /\ UNCHANGED <<processes, wpid, flock, env, again, raced, skipped, fitted, mixed>>

\* A slip in Kills: cleanup_failed_start kills nothing.
CleanupForgets(s) ==
  /\ call[s] \in {"cleanup", "kill"} /\ Calling(s, call[s])
  /\ Goes(s, IF call[s] = "kill" THEN "forget" ELSE "cleaned")
  /\ IF call[s] = "kill" /\ pidfile # None
       THEN Becomes(pidfile, "none")
       ELSE pidfile' = None /\ UNCHANGED <<daemon, home, fresh>>
  /\ raced' = (raced \/ \E t \in Shells : fresh[t] # None)
  /\ UNCHANGED <<wpid, flock, env, again, bounds, skipped, fitted, mixed>>

\* terminate_tracked: TERM, then KILL, for the process in the pid file if it
\* lives; the caller removes the pid file once more.  A process whose pid is
\* not yet written is missed.
Kills(s) ==
  /\ call[s] \in {"cleanup", "kill"} /\ Calling(s, call[s])
  /\ Goes(s, IF call[s] = "kill" THEN "forget" ELSE "cleaned")
  /\ IF pidfile # None THEN Becomes(pidfile, "none") ELSE UNCHANGED processes
  /\ raced' = (raced \/ \E t \in Shells : fresh[t] # None)
  /\ UNCHANGED <<wpid, flock, env, again, bounds, skipped, fitted, mixed>>

\* The end of cleanup_failed_start, after the wait for lxcfs: the pid file is
\* removed, whatever it holds by now.
Cleans(s) ==
  /\ Calling(s, "cleaned") /\ Returns(s, "fail")
  /\ pidfile' = None
  /\ UNCHANGED <<daemon, home, fresh, wpid, flock, env, again, bounds, raced, skipped, fitted, mixed>>

\* ensure_watchdog looks at incus-watchdog.pid; a watchdog's own rc.incus does not.
Guard(s) ==
  /\ Calling(s, "guard")
  /\ IF s \in Watchdogs \/ wpid # None THEN Returns(s, "ok") ELSE Goes(s, "launch")
  /\ UNCHANGED <<processes, wpid, flock, env, again, bounds, raced, skipped, fitted, mixed>>

Unused == {w \in Watchdogs : at[w] = "off" /\ call[w] = "none"}

Launch(s) ==
  /\ call[s] = "launch" /\ Returns(s, "ok")
  /\ \E w \in Unused :
       /\ at' = [at EXCEPT ![w] = "watching"] /\ wpid' = w
  /\ UNCHANGED <<cfg, known, array, processes, flock, env, again, tries, bounds, history>>

\* stop: the watchdog of the pid file is killed first, but not what it called.
StopWatchdog(s) ==
  /\ call[s] = "watchdog" /\ call' = [call EXCEPT ![s] = "shutdown"]
  /\ IF s \notin Watchdogs /\ wpid # None
       THEN /\ at' = [at EXCEPT ![wpid] = "off"] /\ wpid' = None
            /\ result' = [result EXCEPT ![wpid] = "none"] /\ tries' = [tries EXCEPT ![wpid] = 0]
            /\ read' = [read EXCEPT ![wpid] = IF call[wpid] = "none" THEN None ELSE @]
       ELSE UNCHANGED <<at, wpid, result, tries, read>>
  /\ UNCHANGED <<cfg, known, array, processes, flock, env, again, bounds, history>>

\* A slip in Shutdown: no kill when the shutdown fails.
ShutdownOnly(s) ==
  /\ Calling(s, "shutdown") /\ Goes(s, "forget")
  /\ \/ /\ NoFault
        /\ \E p \in Serving(read[s]) : Becomes(p, "none")
     \/ /\ UNCHANGED processes
        /\ IF Answers(read[s]) THEN Fault ELSE NoFault
  /\ UNCHANGED <<wpid, flock, env, again, raced, skipped, fitted, mixed>>

\* incus admin shutdown in the INCUS_DIR that the config names now; if it fails
\* the process in the pid file is to be killed.
Shutdown(s) ==
  /\ Calling(s, "shutdown")
  /\ \/ /\ NoFault /\ Goes(s, "forget")
        /\ \E p \in Serving(read[s]) : Becomes(p, "none")
     \/ /\ UNCHANGED processes /\ Goes(s, "kill")
        /\ IF Answers(read[s]) THEN Fault ELSE NoFault
  /\ UNCHANGED <<wpid, flock, env, again, raced, skipped, fitted, mixed>>

\* The pid file is removed and the daemon asked once more.
Forget(s) ==
  /\ Calling(s, "forget")
  /\ pidfile' = None
  /\ again' = [again EXCEPT ![s] = FALSE]
  /\ IF Answers(read[s]) THEN Returns(s, "fail")
     ELSE IF again[s] THEN Goes(s, "check")
     ELSE Returns(s, "ok")
  /\ UNCHANGED <<daemon, home, fresh, wpid, flock, env, bounds, raced, skipped, fitted, mixed>>

-------------------------------------------------------------------------------
(* incus-init.sh *)

\* If another incus-init.sh runs, this one is content.
Locks(s) ==
  /\ Calling(s, "lock")
  /\ IF flock # None
       THEN Returns(s, "ok") /\ skipped' = TRUE /\ UNCHANGED flock
       ELSE Goes(s, "reconcile") /\ flock' = s /\ UNCHANGED skipped
  /\ UNCHANGED <<processes, wpid, env, again, bounds, raced, fitted, mixed>>

\* Pool, ACL, bridge and profile follow the config that was sourced, if incusd
\* answers to the end.
InitEnds(s) ==
  /\ Calling(s, "reconcile")
  /\ flock' = None
  /\ IF Answers(read[s]) /\ array # "down" /\ read[s] \notin Broken
       THEN env' = read[s] /\ fitted' = fitted \cup {read[s]} /\ Returns(s, "ok")
       ELSE env' = None /\ UNCHANGED fitted /\ Returns(s, "fail")
  /\ UNCHANGED <<processes, wpid, again, bounds, raced, skipped, mixed>>

CallStep(s) ==
  \/ Sources(s)
  \/ StartChecks(s) \/ Spawn(s) \/ Records(s) \/ WaitReady(s) \/ WaitTimesOut(s) \/ Cleans(s)
  \/ Guard(s) \/ Launch(s)
  \/ StopWatchdog(s) \/ Shutdown(s) \/ Kills(s) \/ Forget(s)
  \/ Locks(s) \/ InitEnds(s)

-------------------------------------------------------------------------------
(* incusd *)

Daemon(p, from, to) ==
  /\ daemon[p] = from /\ Becomes(p, to)
  /\ UNCHANGED <<cfg, known, array, wpid, flock, env, calls, scripts, history>>

\* p finds the socket of its INCUS_DIR taken by one that answers there.
Taken(p) == \E q \in Pids : daemon[q] = "up" /\ home[q] = home[p]

\* It takes the socket or, if that is taken, ends.
ComesUp(p) == ~Taken(p) /\ Daemon(p, "starting", "up") /\ NoFault
Yields(p)  == Taken(p) /\ Daemon(p, "starting", "none") /\ NoFault
Hangs(p)   == Daemon(p, "up", "hung") /\ Fault
Dies(p)    == Daemon(p, "up", "none") /\ Fault

DaemonStep(p) == ComesUp(p) \/ Yields(p) \/ Hangs(p) \/ Dies(p)

-------------------------------------------------------------------------------
(* The scripts *)

\* The script of s goes from p to q and calls c.
Script(s, p, q, c) ==
  /\ at[s] = p /\ call[s] = "none"
  /\ at' = [at EXCEPT ![s] = q] /\ call' = [call EXCEPT ![s] = c]
  /\ result' = [result EXCEPT ![s] = "none"]
  /\ again' = [again EXCEPT ![s] = FALSE]

Restarts(s, p, q) ==
  /\ at[s] = p /\ call[s] = "none"
  /\ at' = [at EXCEPT ![s] = q] /\ call' = [call EXCEPT ![s] = "stop"]
  /\ result' = [result EXCEPT ![s] = "none"]
  /\ again' = [again EXCEPT ![s] = TRUE]

\* What steps of scripts leave alone.
Quiet == UNCHANGED <<processes, flock, env, faults, kills, raced, skipped>>

\* s is between a resting place and its next one, or what it called runs on.
Busy(s) == call[s] # "none" \/ at[s] \notin {"idle", "off", "watching", "looking", "done"}

\* s leaves its resting place.
SetsOut(s) == overlapped' = (overlapped \/ \E t \in Shells \ {s} : Busy(t))

\* What a step leaves alone that neither sets out nor saves.
Onward == UNCHANGED <<fitted, overlapped, hasty, mixed>>

\* disks_mounted ...
Mounted ==
  /\ array = "down" /\ events < MaxEvents
  /\ array' = "up" /\ events' = events + 1
  /\ IF cfg \in Enabled THEN Script("events", "idle", "starting", "start") ELSE Script("events", "idle", "idle", "none")
  /\ tries' = [tries EXCEPT !["events"] = IF cfg \in Enabled THEN 1 ELSE 0]
  /\ SetsOut("events")
  /\ UNCHANGED <<cfg, known, wpid, read, fitted, hasty, mixed>> /\ Quiet

\* A slip in MountRetries: "-gt" for "-ge".
MountRetriesOnceMore ==
  /\ result["events"] = "fail"
  /\ IF tries["events"] <= MaxAttempts
       THEN Script("events", "starting", "starting", "start") /\ tries' = [tries EXCEPT !["events"] = @ + 1]
       ELSE Script("events", "starting", "idle", "none") /\ tries' = [tries EXCEPT !["events"] = 0]
  /\ UNCHANGED <<cfg, known, array, wpid, read, events>> /\ Onward /\ Quiet

\* ... starts, up to three times ...
MountRetries ==
  /\ result["events"] = "fail"
  /\ IF tries["events"] < MaxAttempts
       THEN Script("events", "starting", "starting", "start") /\ tries' = [tries EXCEPT !["events"] = @ + 1]
       ELSE Script("events", "starting", "idle", "none") /\ tries' = [tries EXCEPT !["events"] = 0]
  /\ UNCHANGED <<cfg, known, array, wpid, read, events>> /\ Onward /\ Quiet

\* ... reconciles, and stops incusd if that fails.
MountGoesOn ==
  /\ \/ result["events"] = "ok" /\ Script("events", "starting", "reconciling", "init")
     \/ result["events"] = "fail" /\ Script("events", "reconciling", "abandoning", "stop")
     \/ result["events"] = "ok" /\ Script("events", "reconciling", "idle", "none")
     \/ Script("events", "abandoning", "idle", "none")
  /\ tries' = [tries EXCEPT !["events"] = 0]
  /\ UNCHANGED <<cfg, known, array, wpid, read, events>> /\ Onward /\ Quiet

\* unmounting_disks stops incusd, if the service is enabled ...
Unmounting ==
  /\ array = "up" /\ array' = "unmounting"
  /\ IF cfg \in Enabled THEN Script("events", "idle", "stopping", "stop")
                        ELSE Script("events", "idle", "stopping", "none")
  /\ SetsOut("events")
  /\ UNCHANGED <<cfg, known, wpid, read, tries, events, fitted, hasty, mixed>> /\ Quiet

\* ... and the disks are unmounted when it is over.
Unmounted ==
  /\ array = "unmounting" /\ array' = "down"
  /\ Script("events", "stopping", "idle", "none")
  /\ UNCHANGED <<cfg, known, wpid, read, tries, events>> /\ Onward /\ Quiet

EventsGoOn == MountRetries \/ MountGoesOn \/ Unmounted

\* Every 30 s incus.cfg is sourced; the script ends when the service is disabled ...
WatchdogReads(w) ==
  /\ IF cfg \in Enabled
       THEN /\ Script(w, "watching", "looking", "none") /\ read' = [read EXCEPT ![w] = cfg]
            /\ UNCHANGED <<tries, wpid, overlapped>>
       ELSE /\ Script(w, "watching", "off", "none") /\ UNCHANGED read
            /\ tries' = [tries EXCEPT ![w] = 0]
            /\ wpid' = IF wpid = w THEN None ELSE wpid
            /\ SetsOut(w)
  /\ UNCHANGED <<cfg, known, array, events, fitted, hasty, mixed>> /\ Quiet

\* w acts on what it found.
Acts(w) == overlapped' = (overlapped \/ read[w] # cfg \/ \E t \in Shells \ {w} : Busy(t))

\* A slip in Looks: "-lt 3" for "-le 3".
LooksOnceLess(w) ==
  /\ at[w] = "looking" /\ read' = [read EXCEPT ![w] = None]
  /\ \/ /\ Answers(read[w])
        /\ Script(w, "looking", "watching", "none")
        /\ tries' = [tries EXCEPT ![w] = 0] /\ UNCHANGED <<wpid, overlapped>>
     \/ /\ ~Answers(read[w]) /\ tries[w] + 1 < MaxRestarts
        /\ Script(w, "looking", "stopping", "stop")
        /\ tries' = [tries EXCEPT ![w] = @ + 1] /\ UNCHANGED wpid
        /\ Acts(w)
     \/ /\ ~Answers(read[w]) /\ tries[w] + 1 >= MaxRestarts
        /\ Script(w, "looking", "off", "none")
        /\ tries' = [tries EXCEPT ![w] = 0]
        /\ wpid' = IF wpid = w THEN None ELSE wpid
        /\ Acts(w)
  /\ UNCHANGED <<cfg, known, array, events, fitted, hasty, mixed>> /\ Quiet

\* ... and incusd is asked; it is restarted, but the script ends after too many
\* restarts in a row.
Looks(w) ==
  /\ at[w] = "looking" /\ read' = [read EXCEPT ![w] = None]
  /\ \/ /\ Answers(read[w])
        /\ Script(w, "looking", "watching", "none")
        /\ tries' = [tries EXCEPT ![w] = 0] /\ UNCHANGED <<wpid, overlapped>>
     \/ /\ ~Answers(read[w]) /\ tries[w] < MaxRestarts
        /\ Script(w, "looking", "stopping", "stop")
        /\ tries' = [tries EXCEPT ![w] = @ + 1] /\ UNCHANGED wpid
        /\ Acts(w)
     \/ /\ ~Answers(read[w]) /\ tries[w] >= MaxRestarts
        /\ Script(w, "looking", "off", "none")
        /\ tries' = [tries EXCEPT ![w] = 0]
        /\ wpid' = IF wpid = w THEN None ELSE wpid
        /\ Acts(w)
  /\ UNCHANGED <<cfg, known, array, events, fitted, hasty, mixed>> /\ Quiet

\* Stop, start and reconcile, as far as each succeeds.
WatchdogGoesOn(w) ==
  /\ \/ result[w] = "ok" /\ Script(w, "stopping", "starting", "start")
     \/ result[w] = "ok" /\ Script(w, "starting", "reconciling", "init")
     \/ result[w] = "fail" /\ Script(w, "stopping", "watching", "none")
     \/ result[w] = "fail" /\ Script(w, "starting", "watching", "none")
     \/ Script(w, "reconciling", "watching", "none")
  /\ UNCHANGED <<cfg, known, array, wpid, read, tries, events>> /\ Onward /\ Quiet

-------------------------------------------------------------------------------
(* Saves and apply-settings.sh *)

Applying(a) == at[a] \notin {"idle", "done"}

\* applyConfigUpdate has saved c and the script is started.
Save(a, c) ==
  /\ Script(a, "idle", "saved", "none")
  /\ cfg' = c
  /\ SetsOut(a) /\ fitted' = {}
  /\ hasty' = (hasty \/ \E b \in Applies \ {a} : Applying(b))
  /\ mixed' = (mixed \/ cfg # known)
  /\ UNCHANGED <<known, array, wpid, read, tries, events>> /\ Quiet

Done(a, p, r) ==
  /\ at[a] = p /\ call[a] = "none"
  /\ at' = [at EXCEPT ![a] = "done"] /\ result' = [result EXCEPT ![a] = r]
  /\ UNCHANGED <<call, again>>

\* incus.cfg is sourced ...
ApplyReads(a) ==
  /\ Script(a, "saved", "validating", "none")
  /\ read' = [read EXCEPT ![a] = cfg]
  /\ UNCHANGED <<cfg, known, array, wpid, tries, events>> /\ Onward /\ Quiet

Acceptable(c) == c \notin Invalid /\ array # "down"

\* ... and validated, its directories too; a bad one is replaced without a restart.
ApplyValidates(a) ==
  /\ at[a] = "validating" /\ read' = [read EXCEPT ![a] = None]
  /\ \/ ~Acceptable(read[a]) /\ Done(a, "validating", "fail") /\ cfg' = known
     \/ /\ Acceptable(read[a]) /\ UNCHANGED cfg
        /\ IF read[a] \in Enabled THEN Restarts(a, "validating", "restarting")
                                  ELSE Script(a, "validating", "disabling", "stop")
  /\ UNCHANGED <<known, array, wpid, tries, events>> /\ Onward /\ Quiet

\* What the steps of apply-settings.sh after these leave alone.
Applied == UNCHANGED <<array, wpid, read, tries, events>> /\ Onward /\ Quiet

\* rc.incus restart succeeded: reconcile.
ApplyReconciles(a) ==
  /\ result[a] = "ok"
  /\ Script(a, "restarting", "reconciling", "init") \/ Script(a, "undoing", "undoing2", "init")
  /\ UNCHANGED <<cfg, known>> /\ Applied

\* A slip in Promotes: ";" for "&&", whatever the calls returned.
PromotesAnyway(a) ==
  /\ result[a] # "none"
  /\ Done(a, "disabling", "ok") \/ Done(a, "reconciling", "ok")
  /\ known' = cfg
  /\ UNCHANGED cfg /\ Applied

\* Everything succeeded: what incus.cfg holds by now is the known-good config.
Promotes(a) ==
  /\ result[a] = "ok"
  /\ Done(a, "disabling", "ok") \/ Done(a, "reconciling", "ok")
  /\ known' = cfg
  /\ UNCHANGED cfg /\ Applied

Failing == {"disabling", "restarting", "reconciling"}

\* A slip in Restores: "restore_known_good false" after a failed restart.
RestoresOnly(a) ==
  /\ result[a] = "fail" /\ cfg' = known
  /\ \E p \in Failing : Done(a, p, "fail")
  /\ UNCHANGED known /\ Applied

\* restore_known_good: the known-good config comes back (its cp and mv are one step) ...
Restores(a) ==
  /\ result[a] = "fail" /\ cfg' = known
  /\ \E p \in Failing : Script(a, p, "restored", "none")
  /\ UNCHANGED known /\ Applied

\* ... and is sourced and applied.
Reverts(a) ==
  /\ IF cfg \in Enabled THEN Restarts(a, "restored", "undoing")
                        ELSE Script(a, "restored", "undoing2", "stop")
  /\ UNCHANGED <<cfg, known>> /\ Applied

\* The rollback is over, and the caller gets its error in any case.
Undone(a) ==
  /\ \/ result[a] = "fail" /\ Done(a, "undoing", "fail")
     \/ Done(a, "undoing2", "fail")
  /\ UNCHANGED <<cfg, known>> /\ Applied

ApplyGoesOn(a) ==
  \/ ApplyReads(a) \/ ApplyValidates(a) \/ ApplyReconciles(a) \/ Promotes(a)
  \/ Restores(a) \/ Reverts(a) \/ Undone(a)

\* 90 s are over: the API kills the script, and what it called runs on.
TimesOut(a) ==
  /\ Applying(a) /\ kills < MaxKills /\ kills' = kills + 1 /\ UNCHANGED <<events, faults>>
  /\ at' = [at EXCEPT ![a] = "done"] /\ result' = [result EXCEPT ![a] = "none"]
  /\ read' = [read EXCEPT ![a] = IF call[a] = "none" THEN None ELSE @]
  /\ mixed' = (mixed \/ at[a] = "restored")
  /\ UNCHANGED <<cfg, known, array, processes, wpid, flock, env, call, again, tries,
                 raced, skipped, fitted, overlapped, hasty>>

Next ==
  \/ \E s \in Shells : CallStep(s)
  \/ \E p \in Pids : DaemonStep(p)
  \/ Mounted \/ Unmounting \/ EventsGoOn
  \/ \E w \in Watchdogs : WatchdogReads(w) \/ Looks(w) \/ WatchdogGoesOn(w)
  \/ \E a \in Applies : ApplyGoesOn(a) \/ TimesOut(a) \/ \E c \in Configs : Save(a, c)

Spec == Init /\ [][Next]_vars

\* A hung incusd may block whoever asks it.
Hung == \E p \in Pids : daemon[p] = "hung"

\* Scripts and what they call go on and watchdogs look, as long as no incusd
\* hangs, and an incusd that starts comes up unless a fault says otherwise.
\* Nobody has to start or stop the array or to save.
FairSpec ==
  /\ Spec
  /\ \A s \in Shells : WF_vars(~Hung /\ CallStep(s))
  /\ \A p \in Pids : WF_vars(ComesUp(p) \/ Yields(p))
  /\ WF_vars(EventsGoOn)
  /\ \A w \in Watchdogs : /\ WF_vars(WatchdogReads(w))
                          /\ WF_vars(~Hung /\ Looks(w)) /\ WF_vars(WatchdogGoesOn(w))
  /\ \A a \in Applies : WF_vars(ApplyGoesOn(a))

-------------------------------------------------------------------------------
(* Properties *)

Places == {"idle", "off", "starting", "reconciling", "abandoning", "stopping", "watching", "looking",
           "saved", "validating", "disabling", "restarting", "restored", "undoing", "undoing2", "done"}
CallPlaces == {"none", "start", "check", "spawn", "record", "wait", "cleanup", "cleaned", "guard",
               "launch", "stop", "watchdog", "shutdown", "kill", "forget",
               "init", "lock", "reconcile"}

\* Types; at most MAX attempts and restarts in a row; one incus-init.sh at a time.
TypeOK ==
  /\ cfg \in Configs /\ known \in Configs /\ env \in Configs \cup {None}
  /\ array \in {"down", "up", "unmounting"}
  /\ daemon \in [Pids -> {"none", "starting", "up", "hung"}]
  /\ home \in [Pids -> Dirs \cup {None}] /\ fresh \in [Shells -> Pids \cup {None}]
  /\ pidfile \in Pids \cup {None} /\ wpid \in Watchdogs \cup {None}
  /\ flock \in Shells \cup {None}
  /\ at \in [Shells -> Places] /\ call \in [Shells -> CallPlaces]
  /\ result \in [Shells -> {"none", "ok", "fail"}] /\ again \in [Shells -> BOOLEAN]
  /\ read \in [Shells -> Configs \cup {None}] /\ fitted \subseteq Configs
  /\ tries["events"] \in 0..MaxAttempts
  /\ \A w \in Watchdogs : tries[w] \in 0..MaxRestarts
  /\ \A s \in Shells : (call[s] = "reconcile") = (flock = s)
  /\ events \in 0..MaxEvents /\ faults \in 0..MaxFaults /\ kills \in 0..MaxKills
  /\ {raced, skipped, overlapped, hasty, mixed} \subseteq BOOLEAN

AtRest == \A s \in Shells : ~Busy(s)

\* When the array is down incusd is not running, hung or starting, provided no
\* start raced with the stop: "rc.incus stop" reaches the daemon or, through its
\* pid file, kills it, wherever incus.cfg says by then that it lives.
StoppedUnlessRaced == array = "down" => Living = {} \/ raced

\* The comment of unmounting_disks without the proviso: stop incusd "BEFORE the
\* array (which holds INCUS_DIR) unmounts".
StoppedBeforeUnmount == array = "down" => Living = {}

\* A service that is switched off in the known-good config has no incusd left,
\* although an apply of it or a rollback to it was killed; provided no start
\* raced, no save came before the last one was applied, and incusd was not
\* started for a config that apply-settings.sh was yet to refuse.
OffIsStopped ==
  AtRest /\ cfg \notin Enabled /\ cfg = known => Living = {} \/ raced \/ hasty \/ mixed

\* At rest the pid file names an incusd that lives, so that the next stop can
\* kill it even if it hangs.
Tracked == AtRest /\ Living # {} => pidfile # None \/ raced

\* apply-settings.sh makes an enabled config the known-good one only when an
\* incus-init.sh has succeeded with it since the save, provided none was
\* skipped and no save came while another one was applied: a save after the
\* success and before the cp would be promoted in its place.
PromotedIsReconciled ==
  [][known' # known => known' \notin Enabled \/ known' \in fitted \/ skipped \/ hasty]_vars

\* Without faults and with scripts one after the other, an enabled service runs
\* after every mount and every apply, good or bad, with the config in force, in
\* its directory, and with a watchdog beside it.
Undisturbed ==
  faults = 0 /\ ~overlapped /\ \A a \in Applies : at[a] = "done" => result[a] # "none"

ServiceMatches ==
  Undisturbed /\ AtRest /\ array = "up" /\ cfg \in Enabled
    => Answers(cfg) /\ env = cfg /\ wpid # None

\* While a watchdog lives, an incusd that died or failed to start answers again
\* before the array goes down, so many faults being within its restarts; but a
\* hung one may block the look that would find it.
Recovers ==
  array = "up" /\ at["events"] = "idle" /\ wpid # None
    ~> Answers(cfg) \/ array # "up" \/ Hung
===============================================================================
