------------------------------ MODULE ConfigSync ------------------------------
(***************************************************************************)
(* IncusConfigSyncService: the shell file incus.cfg, its copy incus.json   *)
(* and the value ConfigService serves, kept in agreement by saves          *)
(* (applyConfigUpdate) and by the watcher's syncs (syncCfgToJSON), in one  *)
(* API process that may die and come back while an administrator edits     *)
(* incus.cfg without asking for the lock.                                  *)
(*                                                                         *)
(* JavaScript runs one section at a time: `who` runs, `at` says how far it *)
(* is.  Timers fire and requests start only between sections; but after a  *)
(* lock was granted, promise callbacks of other saves may still run first. *)
(* Each file-system call that changes something others can see is a step,  *)
(* so edits, crashes and flash errors fall between any two of them.  The   *)
(* lock's own races are the subject of ConfigLock; here it is taken in one *)
(* step.                                                                   *)
(*                                                                         *)
(* A value is what bash would read; Parsed gives what parseShellConfig     *)
(* reads from the line that shellSingleQuote wrote for it.                 *)
(***************************************************************************)
EXTENDS Naturals, FiniteSets

CONSTANTS
  Keys,        \* settings
  Values,      \* their values
  Unset,       \* a file that has no line for the key
  Missing,     \* there is no such file
  Parsed,      \* Parsed[v]: v after shellSingleQuote and parseShellConfig
  Defaults,    \* what ConfigFilePersister loads when there is no incus.json
  Saves,       \* calls of applyConfigUpdate
  Input,       \* Input[s]: the partial update of save s
  Nobody,      \* no section runs
  MaxRetries,  \* CFG_LOCK_MAX_RETRIES
  Edits,       \* contents the administrator writes
  MaxEdits,    \* bound: edits in a behaviour
  MaxFaults,   \* bound: file-system errors in a behaviour
  MaxCrashes   \* bound: deaths of the process in a behaviour

Contents == [Keys -> Values \cup {Unset}]

ASSUME SyncAssumption ==
  /\ Unset \notin Values
  /\ Missing \notin Contents
  /\ Parsed \in [Values -> Values]
  /\ Defaults \in [Keys -> Values]
  /\ Input \in [Saves -> Contents]
  /\ Nobody \notin Saves /\ "sync" \notin Saves /\ Nobody # "sync"
  /\ MaxRetries \in Nat /\ MaxEdits \in Nat /\ MaxFaults \in Nat /\ MaxCrashes \in Nat
  /\ Edits \subseteq Contents

VARIABLES
  cfg,      \* incus.cfg
  json,     \* incus.json
  mem,      \* the value of ConfigService
  lock,     \* incus.cfg.lock: free, held, orphan (its owner is gone), stale (so for 15 s)
  phase,    \* the process: down, init (onModuleInit runs), up
  watch,    \* the watcher: armed, rearming (its 100 ms timer runs), off
  pending,  \* 100 ms timers of "change" events that still run
  who,      \* the section that runs: a save, "sync" or Nobody
  at,       \* how far it is
  txn,      \* its local variables
  tries,    \* tries[s]: lock attempts save s has made
  reply,    \* reply[s]: idle, trying, running, or the answer its caller got
  edits, faults, crashes, \* counters of the bounds
  owed,     \* history: owed[k], the value a save promised for k that nothing replaced since
  edited,   \* history: incus.cfg was edited since the running save read it
  missed,   \* history: a change no later sync has looked at was not seen or not synced
  split     \* history: a save changed both files and failed before it set mem

disk    == <<cfg, json>>
process == <<phase, watch, pending>>
section == <<who, at, txn>>
calls   == <<tries, reply>>
bounds  == <<edits, faults, crashes>>
history == <<owed, edited, missed, split>>
vars    == <<disk, mem, lock, process, section, calls, bounds, history>>

\* Keys that save s changes.
Touched(s) == {k \in Keys : Input[s][k] # Unset}

\* mapShellToTS(parseShellConfig(content)).
Read(content) == [k \in Keys |-> IF content[k] = Unset THEN Unset ELSE Parsed[content[k]]]

\* A slip in Merge: {...new, ...old}, what is in the file wins.
MergeSwapped(old, new) == [k \in Keys |-> IF old[k] = Unset THEN new[k] ELSE old[k]]

\* {...old, ...new}
Merge(old, new) == [k \in Keys |-> IF new[k] = Unset THEN old[k] ELSE new[k]]

OrEmpty(file) == IF file = Missing THEN [k \in Keys |-> Unset] ELSE file

\* isConfigDifferent(a, b), with {} for a file that is not there.
Differs(a, b) == \E k \in Keys : b[k] # Unset /\ OrEmpty(a)[k] # b[k]

NoTxn == [cfg0 |-> Missing, json0 |-> Missing, text |-> Missing, merged |-> Missing,
          cfgBackup |-> Missing, jsonBackup |-> Missing, backedUp |-> {}, installed |-> {},
          err |-> "none"]

Init ==
  /\ cfg \in Edits /\ json \in {Missing, Read(cfg)}
  /\ mem = Defaults /\ lock = "free"
  /\ phase = "down" /\ watch = "off" /\ pending = 0
  /\ who = Nobody /\ at = "idle" /\ txn = NoTxn
  /\ tries = [s \in Saves |-> 0] /\ reply = [s \in Saves |-> "idle"]
  /\ edits = 0 /\ faults = 0 /\ crashes = 0
  /\ owed = [k \in Keys |-> Unset]
  /\ edited = FALSE /\ missed = FALSE /\ split = FALSE

\* The flash refuses an operation.
Fault == faults < MaxFaults /\ faults' = faults + 1 /\ UNCHANGED <<edits, crashes>>
NoFault == UNCHANGED bounds

-------------------------------------------------------------------------------
(* The lock, in one step *)

Available == lock \in {"free", "stale"}

\* acquireCfgLock grants: the caller's section is next, once its promise resolves.
Grant(c) ==
  /\ who = Nobody /\ Available
  /\ lock' = "held" /\ who' = c /\ at' = "granted" /\ txn' = NoTxn
  /\ NoFault

\* The file can neither be created nor, if it was, be written: null, once an empty lock is left.
GrantFails ==
  /\ Available /\ Fault
  /\ lock' \in {"free", "orphan"}
  /\ UNCHANGED section

-------------------------------------------------------------------------------
(* Saves: applyConfigUpdate *)

\* Promise callbacks of other saves run before a granted section starts, timers do not.
CanRun(s) == who = Nobody \/ (at = "granted" /\ reply[s] = "idle")

Answer(s, a) == reply' = [reply EXCEPT ![s] = a]

\* No incus.cfg, checked before the lock and not again by it.
SaveNoFile(s) ==
  /\ phase = "up" /\ reply[s] = "idle" /\ CanRun(s) /\ cfg = Missing
  /\ Answer(s, "failed")
  /\ UNCHANGED <<disk, mem, lock, process, section, tries, bounds, history>>

\* An attempt at the lock: the first one, or one after the CFG_LOCK_RETRY_MS timer.
Attempt(s) ==
  /\ phase = "up" /\ CanRun(s)
  /\ reply[s] = "trying" \/ (reply[s] = "idle" /\ cfg # Missing)

SaveGranted(s) ==
  /\ Attempt(s) /\ Grant(s)
  /\ Answer(s, "running")
  /\ UNCHANGED <<disk, mem, process, tries, history>>

\* A slip in SaveWaits: one attempt more than CFG_LOCK_MAX_RETRIES allows.
WaitsOnceMore(s) ==
  /\ Attempt(s) /\ ~Available /\ tries[s] <= MaxRetries
  /\ tries' = [tries EXCEPT ![s] = @ + 1]
  /\ Answer(s, "trying")
  /\ UNCHANGED <<disk, mem, lock, process, section, bounds, history>>

SaveWaits(s) ==
  /\ Attempt(s) /\ ~Available /\ tries[s] < MaxRetries
  /\ tries' = [tries EXCEPT ![s] = @ + 1]
  /\ Answer(s, "trying")
  /\ UNCHANGED <<disk, mem, lock, process, section, bounds, history>>

SaveRefused(s) ==
  /\ Attempt(s)
  /\ \/ ~Available /\ tries[s] = MaxRetries /\ NoFault /\ UNCHANGED <<lock, section>>
     \/ GrantFails
  /\ Answer(s, "failed")
  /\ UNCHANGED <<disk, mem, process, tries, history>>

\* What running promise callbacks and file-system errors lead to inside a section.
Goto(q) == at' = q /\ UNCHANGED who
In(s, p) == who = s /\ at = p
Fails(err) == Goto("release") /\ txn' = [txn EXCEPT !.err = err]

\* readFileSync, and everything computed from what it returns.
SaveReads(s) ==
  /\ In(s, "granted")
  /\ IF cfg = Missing
       THEN Fails("failed") /\ UNCHANGED edited
       ELSE /\ Goto("backup") /\ edited' = FALSE
            /\ txn' = [NoTxn EXCEPT !.cfg0 = cfg, !.json0 = json,
                                    !.text = Merge(cfg, Input[s]),
                                    !.merged = Merge(Read(cfg), Input[s])]
  /\ UNCHANGED <<disk, mem, lock, process, calls, bounds, owed, missed, split>>

\* writeConfigPair stages both files and copies those that exist to backups.
SaveBacksUp(s) ==
  /\ In(s, "backup") /\ NoFault
  /\ Goto("installCfg")
  /\ txn' = [txn EXCEPT !.cfgBackup = cfg, !.jsonBackup = json,
                        !.backedUp = (IF cfg = Missing THEN {} ELSE {"cfg"})
                                     \cup (IF json = Missing THEN {} ELSE {"json"})]
  /\ UNCHANGED <<disk, mem, lock, process, calls, history>>

\* Staging or copying fails, before any backup or after that of incus.cfg.
SaveBackupFails(s) ==
  /\ In(s, "backup") /\ Fault
  /\ Goto("undoCfg")
  /\ \/ txn' = [txn EXCEPT !.err = "failed"]
     \/ /\ cfg # Missing
        /\ txn' = [txn EXCEPT !.err = "failed", !.cfgBackup = cfg, !.backedUp = {"cfg"}]
  /\ UNCHANGED <<disk, mem, lock, process, calls, history>>

\* A slip in Replaced: "rename" is not handled, and the watcher stays with the old inode.
ReplacedUnseen == UNCHANGED process

\* A file took the place of the watched one: "rename", and the watcher is closed.
Replaced ==
  /\ watch' = IF watch = "armed" THEN "rearming" ELSE watch
  /\ UNCHANGED <<phase, pending>>

SaveInstallsCfg(s) ==
  /\ In(s, "installCfg") /\ NoFault
  /\ cfg' = txn.text
  /\ txn' = [txn EXCEPT !.installed = {"cfg"}]
  /\ Goto("installJson") /\ Replaced
  /\ UNCHANGED <<json, mem, lock, calls, history>>

SaveInstallsJson(s) ==
  /\ In(s, "installJson") /\ NoFault
  /\ json' = txn.merged
  /\ txn' = [txn EXCEPT !.installed = {"cfg", "json"}]
  /\ Goto("cleanup")
  /\ UNCHANGED <<cfg, mem, lock, process, calls, history>>

\* One of the renames that install fails.
SaveInstallFails(s) ==
  /\ In(s, "installCfg") \/ In(s, "installJson")
  /\ Fault /\ Goto("undoCfg")
  /\ txn' = [txn EXCEPT !.err = "failed"]
  /\ UNCHANGED <<disk, mem, lock, process, calls, history>>

\* A slip in SaveUndoesCfg: incus.json is rolled back, incus.cfg is not.
CfgNotUndone(s) ==
  /\ In(s, "undoCfg")
  /\ NoFault /\ UNCHANGED <<cfg, process, txn>>
  /\ Goto("undoJson")
  /\ UNCHANGED <<json, mem, lock, calls, history>>

\* The backup is renamed over incus.cfg; without a backup what was installed
\* is removed.  Either may fail, and the rollback goes on.
SaveUndoesCfg(s) ==
  /\ In(s, "undoCfg")
  /\ \/ /\ NoFault /\ UNCHANGED txn
        /\ CASE "cfg" \in txn.backedUp -> cfg' = txn.cfgBackup /\ Replaced
             [] "cfg" \in txn.installed \ txn.backedUp -> cfg' = Missing /\ Replaced
             [] OTHER -> UNCHANGED <<cfg, process>>
     \/ /\ Fault /\ txn.backedUp \cup txn.installed # {}
        /\ txn' = [txn EXCEPT !.err = "incomplete"]
        /\ UNCHANGED <<cfg, process>>
  /\ Goto("undoJson")
  /\ UNCHANGED <<json, mem, lock, calls, history>>

\* The same for incus.json, which nothing has replaced when a rollback runs;
\* and the staged files are removed, which may fail after incus.json is back.
SaveUndoesJson(s) ==
  /\ In(s, "undoJson")
  /\ \/ /\ NoFault /\ UNCHANGED txn
        /\ json' = IF "json" \in txn.backedUp THEN txn.jsonBackup ELSE json
     \/ /\ Fault /\ txn' = [txn EXCEPT !.err = "incomplete"]
        /\ json' \in {json, IF "json" \in txn.backedUp THEN txn.jsonBackup ELSE json}
  /\ Goto("release")
  /\ UNCHANGED <<cfg, mem, lock, process, calls, history>>

\* Backups removed, ConfigService gets the merged value.
SaveCommits(s) ==
  /\ In(s, "cleanup") /\ NoFault
  /\ mem' = txn.merged /\ split' = FALSE
  /\ Goto("release") /\ UNCHANGED txn
  /\ UNCHANGED <<disk, lock, process, calls, owed, edited, missed>>

\* A backup cannot be removed: the error reaches the caller, both files stay installed.
SaveCleanupFails(s) ==
  /\ In(s, "cleanup") /\ Fault
  /\ split' = TRUE
  /\ Fails("cleanup")
  /\ UNCHANGED <<disk, mem, lock, process, calls, owed, edited, missed>>

\* The section ends and the lock file is removed, if it can be.
Leave ==
  /\ who' = Nobody /\ at' = "idle" /\ txn' = NoTxn
  /\ \/ lock' = "free" /\ NoFault
     \/ lock' = "orphan" /\ Fault

\* What the save promised from now on: its values, unless incus.cfg was
\* edited meanwhile; nothing about its keys after an error that is no rollback.
Promises(s) ==
  owed' = [k \in Keys |->
             IF k \notin Touched(s) \/ txn.err = "failed" THEN owed[k]
             ELSE IF txn.err = "none" /\ ~edited THEN Input[s][k]
             ELSE Unset]

SaveReleases(s) ==
  /\ In(s, "release") /\ Leave
  /\ Answer(s, IF txn.err = "none" THEN "saved" ELSE "failed")
  /\ Promises(s)
  /\ UNCHANGED <<disk, mem, process, tries, edited, missed, split>>

SaveStep(s) ==
  \/ SaveReads(s) \/ SaveBacksUp(s) \/ SaveBackupFails(s)
  \/ SaveInstallsCfg(s) \/ SaveInstallsJson(s) \/ SaveInstallFails(s)
  \/ SaveUndoesCfg(s) \/ SaveUndoesJson(s)
  \/ SaveCommits(s) \/ SaveCleanupFails(s) \/ SaveReleases(s)
SaveAsks(s) == SaveNoFile(s) \/ SaveGranted(s) \/ SaveWaits(s) \/ SaveRefused(s)

-------------------------------------------------------------------------------
(* Syncs: syncCfgToJSON, one attempt at the lock *)

\* A sync begins: there is no file, the lock is had, or this cycle is skipped.
SyncBegins ==
  \/ /\ cfg = Missing
     /\ NoFault /\ UNCHANGED <<lock, section, missed>>
  \/ cfg # Missing /\ Grant("sync") /\ UNCHANGED missed
  \/ /\ cfg # Missing /\ missed' = TRUE
     /\ \/ ~Available /\ NoFault /\ UNCHANGED <<lock, section>>
        \/ GrantFails

\* incus.cfg is read; what was missed before is seen now.
SyncReads ==
  /\ In("sync", "granted")
  /\ IF cfg = Missing THEN Goto("release") /\ UNCHANGED <<txn, missed>>
     ELSE /\ Goto("write") /\ txn' = [NoTxn EXCEPT !.merged = Read(cfg)]
          /\ missed' = FALSE
  /\ UNCHANGED <<disk, mem, lock, process, calls, bounds, owed, edited, split>>

\* incus.json and the served value follow, if they differ in a key incus.cfg has.
SyncWrites ==
  /\ In("sync", "write") /\ NoFault
  /\ Goto("release") /\ UNCHANGED txn
  /\ IF Differs(json, txn.merged)
       THEN /\ json' = Merge(OrEmpty(json), txn.merged)
            /\ mem' = json' /\ split' = FALSE
       ELSE UNCHANGED <<json, mem, split>>
  /\ UNCHANGED <<cfg, lock, process, calls, owed, edited, missed>>

\* The write fails and the error is logged.
SyncWriteFails ==
  /\ In("sync", "write") /\ Fault
  /\ Differs(json, txn.merged)
  /\ Goto("release") /\ UNCHANGED txn
  /\ missed' = TRUE
  /\ UNCHANGED <<disk, mem, lock, process, calls, owed, edited, split>>

SyncReleases ==
  /\ In("sync", "release") /\ Leave
  /\ UNCHANGED <<disk, mem, process, calls, history>>

SyncStep == SyncReads \/ SyncWrites \/ SyncWriteFails \/ SyncReleases

-------------------------------------------------------------------------------
(* The watcher: watchResilient, schedule *)

\* A slip in RearmFires: the new watcher is set, onChange() is not called.
RearmOnly ==
  /\ watch = "rearming" /\ who = Nobody
  /\ watch' = IF cfg = Missing THEN "off" ELSE "armed"
  /\ UNCHANGED <<disk, mem, lock, phase, pending, section, calls, bounds, history>>

\* 100 ms after a "rename": a new watcher if the file is there, and a sync.
RearmFires ==
  /\ watch = "rearming" /\ who = Nobody
  /\ watch' = IF cfg = Missing THEN "off" ELSE "armed"
  /\ SyncBegins
  /\ UNCHANGED <<disk, mem, phase, pending, calls, owed, edited, split>>

\* 100 ms after a "change".
ChangeFires ==
  /\ pending > 0 /\ who = Nobody
  /\ pending' = pending - 1
  /\ SyncBegins
  /\ UNCHANGED <<disk, mem, phase, watch, calls, owed, edited, split>>

-------------------------------------------------------------------------------
(* The process *)

\* ConfigFilePersister loads incus.json, then onModuleInit runs its sync.
Boot ==
  /\ phase = "down" /\ phase' = "init"
  /\ mem' = IF json = Missing THEN Defaults ELSE json
  /\ split' = FALSE
  /\ SyncBegins
  /\ UNCHANGED <<disk, watch, pending, calls, owed, edited>>

\* setupWatchers, and the API answers.
Ready ==
  /\ phase = "init" /\ who = Nobody
  /\ phase' = "up"
  /\ watch' = IF cfg = Missing THEN "off" ELSE "armed"
  /\ UNCHANGED <<disk, mem, lock, pending, section, calls, bounds, history>>

\* The process ends, at any point or in order: timers and watcher go with it,
\* the lock stays if it was held, callers get no answer.
Crash ==
  /\ phase # "down" /\ crashes < MaxCrashes
  /\ crashes' = crashes + 1 /\ UNCHANGED <<edits, faults>>
  /\ phase' = "down" /\ watch' = "off" /\ pending' = 0
  /\ who' = Nobody /\ at' = "idle" /\ txn' = NoTxn
  /\ lock' = IF lock = "held" THEN "orphan" ELSE lock
  /\ reply' = [s \in Saves |-> IF reply[s] \in {"trying", "running"} THEN "lost" ELSE reply[s]]
  /\ owed' = [k \in Keys |-> IF who \in Saves /\ k \in Touched(who) THEN Unset ELSE owed[k]]
  /\ UNCHANGED <<disk, mem, tries, edited, missed, split>>

\* CFG_LOCK_STALE_MS pass for a lock nobody releases.
Expire ==
  /\ lock = "orphan" /\ lock' = "stale"
  /\ UNCHANGED <<disk, mem, process, section, calls, bounds, history>>

-------------------------------------------------------------------------------
(* The administrator, who takes no lock; and apply-settings.sh, which puts *)
(* the last good incus.cfg back by renaming it over the current one        *)

Edit ==
  /\ edits < MaxEdits /\ edits' = edits + 1 /\ UNCHANGED <<faults, crashes>>
  /\ owed' = [k \in Keys |-> Unset] /\ edited' = TRUE
  /\ missed' = (missed \/ (watch = "off" /\ phase # "down"))
  /\ UNCHANGED <<json, mem, lock, section, calls, split, phase>>

\* The file is written in place: "change".
EditInPlace ==
  /\ Edit /\ cfg # Missing
  /\ cfg' \in Edits
  /\ pending' = IF watch = "armed" THEN pending + 1 ELSE pending
  /\ UNCHANGED watch

\* A new file is renamed over it, or created.
EditReplaces ==
  /\ Edit /\ Replaced
  /\ cfg' \in Edits

Remove ==
  /\ Edit /\ Replaced
  /\ cfg # Missing /\ cfg' = Missing

Next ==
  \/ \E s \in Saves : SaveAsks(s) \/ SaveStep(s)
  \/ SyncStep
  \/ RearmFires \/ ChangeFires
  \/ Boot \/ Ready \/ Crash \/ Expire
  \/ EditInPlace \/ EditReplaces \/ Remove

Spec == Init /\ [][Next]_vars

\* The event loop turns, timers fire, the process is restarted, time passes.
\* Nobody has to save, edit or crash.
FairSpec ==
  /\ Spec
  /\ \A s \in Saves : WF_vars(SaveStep(s)) /\ WF_vars(reply[s] = "trying" /\ SaveAsks(s))
  /\ WF_vars(SyncStep) /\ WF_vars(RearmFires) /\ WF_vars(ChangeFires)
  /\ WF_vars(Boot) /\ WF_vars(Ready) /\ WF_vars(Expire)

-------------------------------------------------------------------------------
(* Properties *)

Files == Contents \cup {Missing}

\* Types; the counters stay within their bounds and a save never asks for the
\* lock more often than CFG_LOCK_MAX_RETRIES allows.
TypeOK ==
  /\ cfg \in Files /\ json \in Files /\ mem \in Contents
  /\ lock \in {"free", "held", "orphan", "stale"}
  /\ phase \in {"down", "init", "up"} /\ watch \in {"armed", "rearming", "off"}
  /\ pending \in 0..MaxEdits
  /\ who \in Saves \cup {"sync", Nobody}
  /\ at \in {"idle", "granted", "backup", "installCfg", "installJson", "undoCfg", "undoJson",
             "cleanup", "write", "release"}
  /\ txn \in [cfg0 : Files, json0 : Files, text : Files, merged : Files,
              cfgBackup : Files, jsonBackup : Files,
              backedUp : SUBSET {"cfg", "json"}, installed : SUBSET {"cfg", "json"},
              err : {"none", "failed", "incomplete", "cleanup"}]
  /\ tries \in [Saves -> 0..MaxRetries]
  /\ reply \in [Saves -> {"idle", "trying", "running", "saved", "failed", "lost"}]
  /\ edits \in 0..MaxEdits /\ faults \in 0..MaxFaults /\ crashes \in 0..MaxCrashes
  /\ owed \in Contents
  /\ edited \in BOOLEAN /\ missed \in BOOLEAN /\ split \in BOOLEAN

\* Between sections incus.cfg holds every value a save was acknowledged for,
\* until an edit or another save of the same key: failed saves that come
\* after it, rollbacks, crashes and syncs lose none.
NoLostSave ==
  who = Nobody => \A k \in Keys : owed[k] # Unset => cfg # Missing /\ cfg[k] = owed[k]

\* A save that ends with a plain error leaves both files as it found them.  The
\* comment of writeConfigPair says so of any failure; the code keeps it but for
\* a backup that cannot be removed (err "cleanup"), when both files stay
\* installed, and for a rollback that fails as well, which has an error of its own.
FailedSaveRestores ==
  \A s \in Saves :
    In(s, "release") /\ txn.err = "failed" /\ txn.text # Missing /\ ~edited
      => cfg = txn.cfg0 /\ json = txn.json0

\* The service rests: it is up, watches incus.cfg and has no timer or section left.
AtRest == phase = "up" /\ watch = "armed" /\ pending = 0 /\ who = Nobody

\* At rest incus.json says what incus.cfg says, however edits, saves, faults
\* and crashes were interleaved, unless a change fell into a gap: the watcher
\* was off, or the sync it caused was skipped or failed; and between sections
\* the value GraphQL is served from is the persisted one, unless a save failed
\* after both files were installed.
RestAgreement ==
  /\ AtRest /\ ~missed /\ cfg # Missing => ~Differs(json, Read(cfg))
  /\ phase = "up" /\ who = Nobody /\ json # Missing /\ ~split => mem = json

\* A difference between the two files is followed: incus.cfg goes away or
\* incus.json catches up, after an edit as after a crash between the renames or
\* a rollback that failed, unless the change fell into one of the gaps.
ChangesFollowed ==
  cfg # Missing /\ Differs(json, Read(cfg))
    ~> cfg = Missing \/ ~Differs(json, Read(cfg)) \/ missed \/ (phase = "up" /\ watch = "off")
===============================================================================
