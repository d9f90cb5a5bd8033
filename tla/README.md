# Verification of the Incus plugin for Unraid

TLA+ models of the concurrent and failure-prone parts of incus-unraid, the TLC
runs that check them on small instances, and TLAPS proofs for every value of
the constants. In this text `api/` is `src/unraid-api-plugin-incus/src/`,
`web/` is `src/unraid-api-plugin-incus/web/src/`, and `emhttp/` is
`src/source/usr/local/emhttp/plugins/incus/`.

## 1. The system

The plugin runs an Incus daemon on an Unraid host. Its settings are the shell
file `incus.cfg`. Shell scripts start and stop the daemon with the disk array.
A NestJS module inside `unraid-api` mirrors the settings, talks to the daemon,
builds images and offers terminals. A Vue application in the browser calls it
over GraphQL. `src/unraid-codex` is a second plugin with a web client for an
agent server.

| Component | State it keeps | Operations | Talks to |
|---|---|---|---|
| Config lock (`api/config-sync.service.ts` 363-428) | the file `incus.cfg.lock` with a token in it | acquire with retries, steal of a stale lock, release | every process that writes the settings |
| Config sync (same file) | `incus.cfg`, `incus.json`, the value in ConfigService, two watchers, a debounce timer | save, sync after a file event, write of the pair with rollback, boot | the lock, the flash, administrators' edits |
| JSON array store (`api/json-store.ts`) | a JSON array in a file, a promise chain | update = read, mutate, write | image registry, builder presets |
| Image registry (`api/incus-image-builder.service.ts` 249-293, `web/App.vue` 1374-1411, `api/incus.resolver.ts` 338-372) | alias records with one default, `config.jailImage`, the images in Incus | set as default with compensation, delete, prune, record a build | the store, the settings, Incus |
| Image builds (`api/incus-image-builder.service.ts`) | builds, queue, active slots, timers, child processes | start, queue, run, time out, settle, record | distrobuilder, the registry |
| Service lifecycle (`emhttp/scripts/rc.incus`, `incus-watchdog.sh`, `apply-settings.sh`, `incus-init.sh`, `emhttp/event/*`) | incusd, pid files, `incus.cfg.known-good`, the lock of incus-init.sh | start, stop, restart, supervise, apply with rollback, mount, unmount | the array, the API's `updateIncusConfig` |
| Exec sessions (`api/incus-exec.service.ts` 60-177, `web/components/Terminal.vue`) | terminal sessions, two sockets each, two timers, a count of starts under way | start, input, resize, stop, expire | incusd, the browser's terminal |
| Jail details and background jobs (`web/composables/useJailDetail.ts`, `web/App.vue` 235-489, `api/incus-exec.service.ts` 320-526) | the selected container, its detail, jobs and their pollers | select, load, edit, start a job, poll it, evict it | incusd |
| Incus client and jail views (`api/incus.service.ts`, `api/incus-unix-client.service.ts`, `web/lib/polling.ts`, `web/App.vue` 105-226) | a one-second snapshot, the list on each tab's screen | list, launch, change state, delete, poll | incusd |
| Codex web client (`src/unraid-codex/web-src/src/protocol.ts`) | the socket, pending calls, thread and turn, timeline, approvals | connect, reconnect, establish a session, send, answer an approval, notices | the app-server |
| Package search (`api/incus-package-search.service.ts` and its worker) | catalog cache, requests under way | search, refresh | package mirrors |
| Installation (`src/incus.plg` and scripts) | packages, rollback copies | install, migrate, uninstall | the plugin manager |

### What is hard about them

- **Several processes and no common lock.** `incus.cfg` is written by the API,
  by `apply-settings.sh` and by hand, and only the API takes `incus.cfg.lock`.
  The lock itself is a file whose staleness is a guess.
- **Asynchronous sections.** An `await` between a check and its use admits
  other requests: the registry's read and write, the length of the build queue,
  the list of images that a prune looks at.
- **Several stores and no transaction.** `incus.cfg` and `incus.json`; the
  registry, `config.jailImage` and the images in Incus; `incus.cfg` and the
  environment that incusd has.
- **Failure halfway.** Renames, rollbacks, the token of the lock, the process
  of a build, the start of a daemon.
- **Death and return.** The API dies with a lock, a half-written pair or a
  detached build; a killed script leaves what it called running; a browser tab
  goes away with a call under way.
- **Answers out of order.** Polls, refreshes and loads overlap; a mutation is
  answered when the user has long selected another container or closed the
  terminal; a connection is lost between a call and its answer.
- **Timers.** Debouncing and re-arming of watchers, three timers of a build,
  15 s of waiting for incusd, 90 s of patience with `apply-settings.sh`.

### What makes each component correct

- *Lock*: one holder at work at a time; nobody loses a fresh lock; a dead
  holder does not wedge the others; waiting never freezes the event loop.
- *Config sync*: an acknowledged save is not lost; a failed one leaves both
  files as they were; at rest both files and the served value agree.
- *Store*: an update is atomic, and a failed one is harmless.
- *Registry*: one default at most, and it is what new jails are launched from.
- *Builds*: slots are counted exactly, nobody waits beside a free slot, every
  build ends once, and the registry knows the successful ones.
- *Lifecycle*: a stop is real before the array goes down; a config is promoted
  only if it was reconciled; a bad one is rolled back; incusd is supervised.
- *Exec sessions*: the limit counts exactly what lives, sockets included, and a
  session ends with its terminal.
- *Jail details and jobs*: an outcome is shown where it belongs; the detail is
  the selected container's and current; a job that is watched is not forgotten.
- *Jail views*: a user sees what he just did; every polling tab converges.
- *Codex client*: nothing waits for what is gone; after any number of lost
  connections the timeline, the composer and the thread agree with the server.

## 2. Modules

| Module | Models | Extends or instantiates |
|---|---|---|
| `ConfigLock` | the lock file, one step per file-system call | |
| `ConfigLockProofs` | theorems about it | `ConfigLock`, `TLAPS` |
| `ConfigSync` | saves, syncs, watcher, crash and boot | |
| `ConfigSyncProofs` | theorems about it | `ConfigSync`, `TLAPS` |
| `JsonStore` | one JSON array store with its chain | |
| `AtomicStore` | what such a store promises | |
| `ImageRegistry` | the registry and its users | `JsonStore` (instantiated with its operations), `AtomicStore` (implemented) |
| `ImageRegistryProofs` | theorems about it and its store | `ImageRegistry`, `FiniteSetTheorems`, `TLAPS` |
| `ImageBuild` | builds, queue and timers | |
| `ImageBuildProofs` | theorems about it | `ImageBuild`, `FiniteSetTheorems`, `TLAPS` |
| `Lifecycle` | scripts, watchdogs and incusd | |
| `LifecycleProofs` | theorems about it | `Lifecycle`, `TLAPS` |
| `ExecSessions` | terminals, sessions and their sockets | |
| `JailPanel` | the details panel and its background jobs | |
| `ExecServiceProofs` | theorems about both | `JailPanel`, `ExecSessions`, `FiniteSetTheorems`, `SequenceTheorems`, `TLAPS` |
| `JailViews` | the list, its snapshot, the tabs and their actions | |
| `JailViewsProofs` | theorems about it | `JailViews`, `TLAPS` |
| `CodexClient` | one tab of the Codex chathead and its connection | |
| `CodexClientProofs` | theorems about it | `CodexClient`, `SequenceTheorems` (instantiated), `TLAPS` |
| `MC...` | values of the constants for TLC | the module of the name |

A definition whose comment calls it a slip of X is a plausible mistake in the code of X. It is
not part of any next-state relation: it documents which mistake a property
would catch, and `PROJECT.json` pairs it with that property.

### ConfigLock

A caller is a process that runs `acquireCfgLock` and, when done,
`releaseCfgLock`. Its `pc` is the next file-system call. `Create` is
`openSync(..., "wx")`, `WriteToken` the write after it, `StatStale` and
`StatVanished` the first stat, `RestatSame` and `RestatChanged` the comparison
of inode and mtime, `Steal` the unlink, `Wait` and `Retry` the 200 ms between
two tries, `ReadToken` and `UnlinkOwn` the release. The lock file is a
generation number, since every creation makes a file with a new identity, and a
token is the generation its owner created. `Expire` makes the file older than
15 s, `Crash` ends a process anywhere, and `TurnReadOnly` makes the flash refuse
writes. Each caller has its own process, so all interleavings of calls occur;
callers in one event loop have fewer.

`overrun` (a holder was still at work when its lock went stale) and
`stealRaced` (an unlink hit another file than the one compared) are history
variables. They name exactly the two windows the algorithm has.

### ConfigSync

`who` and `at` say which section of JavaScript runs and how far it is; timers
and requests start between sections. `txn` holds the locals of a save. The save
is split at every operation that others can see: backup, rename of
`incus.cfg`, rename of `incus.json`, the two rollbacks, cleanup, release. A sync
reads, writes `incus.json` and updates the served value. The watcher has its
states (armed, re-arming after 100 ms, dropped). The administrator edits in
place, replaces or removes the file without the lock, which is also how
`apply-settings.sh` restores a good one. `Parsed` is what the quoting of
`shellSingleQuote` and the parser make of a value: one with an apostrophe does
not come back the same, and the instance has such a value. The lock is taken in
one step here; its races are `ConfigLock`'s.

`missed`, `split` and `edited` are histories: a file event fell into a time
without a watcher, or its sync was skipped or failed; a save failed after both files were
installed; the file was edited while a save was under way.

### JsonStore, AtomicStore, ImageRegistry

`JsonStore` has `Issue`, `Load`, `LoadFails`, `Opens`, `Store`, `StoreFails`: an update
waits for its turn, reads, and writes after an await. The path is a function
that is called anew when a read and when a write begins (`path` is what the
second call gave), so `dir` may change in between. `AtomicStore` is the abstract
specification, and `UpdatesAtomic` (`Abstract!Spec`) states that every behaviour
of the registry's file is one of atomic updates. It lets an update read the file
of one directory and write that of another, because the code does.

`ImageRegistry` adds the users. A click in the web UI is three requests (mark,
configure, and the compensation when one fails) that start from the list the
tab shows, which `Reload` makes current. A deletion removes the image and then
the record. A prune looks at the images one by one and untracks in a later step
those that were missing. A build imports first and records later. `RemovedOutside`
is the incus command line. `torn` is a history: a toggle started from an old
list, overlapped another one, or failed halfway. `wiped` is another: the aliases
whose record was rebuilt or untracked. `MasterIsLaunched` holds apart from these;
section 3 says what they leave out.

### ImageBuild

`stage` is where the code of a build is, `status` what a poller is told,
`child` the process and `timer` the timer that runs. `Admit` checks the queue,
`StartNow` or `Enqueue` follow after six awaits. `Exit` is the process, `Close`
its event, `SpawnFails` the error event of spawn and `SpawnThrows` its exception,
which nobody catches: the build keeps the status "running" and its scratch
directory, and gives up its slot. `LogFails` is the error of the log, once at any
time: `finish()` itself writes the last lines, so it may come when the build is
settled, and then it kills what has ended and changes nothing else. `late` records
that; the record of such a build stands. `LimitFires`, `GraceFires` and
`HardFires` are the timers, after 60 minutes and the two short ones after TERM and
KILL. `Finish` settles, `Record` writes the registry, and `Leave` is the `finally`
of `enqueue`: it frees the slot and starts the next build of the queue.

### Lifecycle

A shell is the array-event script, one run of `apply-settings.sh`, or one
watchdog. `at[s]` is where the script is and `call[s]` where the `rc.incus` or
`incus-init.sh` is that it waits for; `again[s]` says that the call is the stop
half of a restart. A killed script leaves its call running as an orphan, as a
killed bash does. Shells interleave between any two commands that look at or
change what they share:

- `Sources`: `rc.incus` and `incus-init.sh` source `incus.cfg` first, and go by what
  they have `read` from then on, the directory of incusd included.
- Start: `StartChecks` (preflight, then "already running?"), `Spawn` (incusd lives),
  `Records` (its pid is written; until then it is `fresh`), `WaitReady` or
  `WaitTimesOut` (15 s), and after the latter `cleanup_failed_start` in two steps:
  `Kills` (the process in the pid file, lines 73-74) and, after the wait for lxcfs,
  `Cleans` (the pid file is removed whatever it holds by then, line 77). Then `Guard`
  and `Launch` (look for a watchdog, launch one).
- Stop: `StopWatchdog`, `Shutdown` (the command in the directory that was sourced),
  `Kills` if that fails (the process in the pid file), and `Forget` (the pid file goes,
  incusd is asked once more).
- `incus-init.sh`: `Sources`, `Locks` (it takes the lock or is content), `InitEnds`. What
  it does to pool, ACL, bridge and profile is one success or failure, and `env` is the
  config it last succeeded with.
- A watchdog sources the config (`WatchdogReads`) and then asks incusd and acts (`Looks`).
- `apply-settings.sh` sources (`ApplyReads`), validates (`ApplyValidates`), calls, and
  promotes or restores; a rollback is `Restores` (the file), `Reverts` (it is sourced
  and applied) and `Undone`. `TimesOut` is the API that kills it after 90 s.

An incusd starts, comes up, hangs or dies; one that starts where another answers
gives up. It answers in its own directory only (`home`): after a save that moves
`INCUS_DIR`, the shutdown command reaches nobody and only the pid file leads to
the process. Preflight and `apply-settings.sh` refuse directories on a RAM disk, so
neither accepts a config while the array is down. Asking a hung incusd fails or
never returns: `incus info` and `incus admin shutdown` have no time limit here, so
their steps may be taken and no fairness says they are.

Histories say what the code does not prevent and what the properties therefore
leave out:

- `raced`: incusd was spawned at a bad time (beside a living one, while another
  shell starts, cleans up or stops, with the array not up, or with the
  service disabled), or a kill by pid file missed a process whose pid was not written.
- `skipped`: an `incus-init.sh` did nothing because another one ran.
- `overlapped`: a script set out while one was under way, or a watchdog acted on a
  config that had been replaced since it read it.
- `hasty`: a save came while the `apply-settings.sh` of another was under way.
- `mixed`: a save replaced a config that was not known-good, incusd was spawned for a
  config that `apply-settings.sh` had yet to read, or a rollback was killed between
  the file and the stop or start that belongs to it.

`fitted` collects the configs that an `incus-init.sh` succeeded with since the last save.

### ExecSessions

A terminal is a `Terminal.vue`: `Mount` calls `startJailExec`, `SessionStarted` gets its
answer (and stops the session if the terminal was closed meanwhile), `Close` is
the unmount, `Vanish` the tab that goes away. On the server `Request` is the
check of the limit, `Granted` what follows the answer of Incus, `Refused` each of
the failing paths, `Over` the close or error of either socket and the two timers,
`StopSession` the mutation, `ServiceRestarts` the end of the process. A session goes by its
terminal: no number is reused. `lost` is a history of calls and answers that did
not arrive; only the timers end the sessions of those.

### JailPanel

`sel`, `detail`, `request`, `loading` are the refs of `useJailDetail`; a load under
way carries the version of the container when it was called, and the answer is
that or a later one. `Edit` and `Changed` stand for every edit of the panel:
mutation, then a reload of the container selected *then*. A job has a number;
`call` is its mutation and then its poller, `handle` the poller that the panel
would stop, `jobs` and `work` its server side. `Started` has the one difference
between the two kinds: Homebrew remembers the container of the call, the
privileged command reads the selection after the await. `result` is what the panel
shows of each kind: the job whose outcome came, or whose error did (`ErrorOf`). An
error of a Homebrew job has a field of its own (`installError`), also when its
mutation fails (`StartFails`, which does not look at the selection); that of a
privileged command goes to `detailError`, which loads and edits write as well, so
that no state tells whose error it is, and no property speaks of it. The template
shows all this when `FieldsShown`: a container is selected, none is loading and a
detail is there. `Pruned` evicts the
oldest entry, running or not, and `Ends` puts an evicted one back, as
`Map.set` does. `failed` (the last load failed) and `overlap` (two starts at once,
possible through the Enter key) are histories.

### JailViews

Of the containers only a version counts, which every change raises; a query that
began at version v answers v or later. `cache` is the snapshot: `ListJails` takes
it or begins one, `Expire` is its second, `Waited` drops it when an operation is
over. `launchJail` and `deleteJail` are two operations, of which the stop of a
deletion may fail. `WaitRunsOut` is the 60 s wait that returns without an error
while the operation goes on; `LateChange` is what it does then. A tab numbers its
queries (`latest`) and takes the answer of the last one only.

### CodexClient

`sock`, `timer`, `pending` are the socket, the reconnection and the calls that wait;
`session` is how far `establishSession` is. `Continue` makes the next of its calls
(initialize, thread/resume or thread/start, the catalogs as one), `Refused` is the
error answer of one, and `Closed` is the close handler with everything that the
rejected calls do after it in the same turn of the event loop. `toServer` is a set
since nothing depends on the order of two calls of this client, `toClient` a
sequence: a WebSocket keeps the order. `Load` is a navigation: only `localStorage`
survives. The app-server is external: threads, turns, approvals of the connection
that has the thread. `overtaken` is a history: an item arrived between the answer
to thread/resume and the end of the catalogs, and `setState` replaces it by the
older answer (line 730).

## 3. Runs

| Run | Instance | Distinct states |
|---|---|---|
| `config_lock` | a save that waits once, a sync that does not wait; 3 lock files, 1 crash | 31 000 |
| `config_sync` | 2 keys, 2 saves of one key each, 1 edit, 2 faults, 1 crash | 446 000 |
| `image_registry` | 2 aliases, 2 tabs, a deletion, a prune, a build; 2 of them act, 1 fault, 1 move | 245 000 |
| `image_build` | 3 calls, 1 slot, 1 place in the queue | 147 000 |
| `lifecycle_array` | 2 array starts, 2 watchdogs, 2 processes, 2 failures; 2 attempts and restarts | 323 000 |
| `lifecycle_apply` | 1 array start and stop, 2 saves of any of 4 configs, 1 kill, 1 process, no restart by the watchdog | 2 104 000 |
| `lifecycle_unmount` (violation) | the same with 1 save of 5 configs, 2 processes, 2 attempts, 1 restart | |
| `exec_sessions` | 3 terminals, 2 sessions, 1 fault | 74 000 |
| `jail_panel` | 2 containers, 1 fault; 2 Homebrew jobs and 3 selections, or 2 edits and 4 selections | 99 000 |
| `jail_output` (violation) | the same with privileged commands | |
| `jail_views` | 2 tabs, a launch and a deletion, 2 faults | 391 000 |
| `codex_client` | 2 prompts, 1 approval, 1 lost connection, 1 page load, 1 refusal | 231 000 |

### What the passing runs show

- `config_lock`: callers meet inside the protected section only after an
  overrun or a raced steal (`MutualExclusion`); a holder at work loses its file
  only in these windows (`RobbedOnlyInWindow`); an acquisition ends or yields
  while the flash can be written (`EveryAttemptYields`); a lock of a dead holder
  goes away if callers keep asking (`OrphanDoesNotWedge`). Two callers suffice
  for every pair of roles, and three generations for a steal of a steal.
- `config_sync`: acknowledged values survive whatever follows them
  (`NoLostSave`); a save that ends with a plain error changed nothing, unless
  only the removal of a backup failed (`FailedSaveRestores`); at rest the files
  and the served value agree, unless an event or a boot sync was missed
  (`RestAgreement`); and a difference between the files is followed until they agree,
  with the same exceptions (`ChangesFollowed`). Two faults are
  what a failed rollback needs, one crash is what leaves an orphan lock, a boot
  sync that is skipped for it, and a split pair, and two saves that change one
  key each can overwrite one another.
- `image_registry`: every behaviour of the file is one of atomic updates
  (`UpdatesAtomic`, a refinement), there is one default at most, and it is the
  launched image when toggles are orderly (`MasterIsLaunched`), updates settle
  (`UpdatesSettle`). Two acts cover every pair of operations.
- `image_build`: slots and places in the queue are counted exactly and none is
  idle while a build waits, but for calls that overlap before the queue
  (`SlotsExact`); success is told exactly of builds that are recorded, and never of
  one that ran into its time limit or lost its log before it was settled
  (`RecordedIfSuccess`); every build gives up its slot (`BuildsEnd`). With one slot and
  one place, three calls give a build that runs, one that waits, and one that is
  refused or overtakes the check.
- `lifecycle_array`: a stop leaves no process of incusd, however hung, when the
  array is down (`StoppedUnlessRaced`), and what lives at rest is named by the pid
  file (`Tracked`), unless a start raced. As long as a watchdog lives and no incusd hangs,
  an incusd that died or failed to start answers again before the array goes down
  (`Recovers`); a hung one is left out, since it can block the very look that would find
  it. Two array starts let the scripts of the first meet those of the second. Two
  failures are as many as the watchdog has restarts, as three are in the code, and as many
  as make `disks_mounted` give up.
- `lifecycle_apply`: an enabled config becomes known-good only after an `incus-init.sh`
  succeeded with it since the save (`PromotedIsReconciled`); a service that is off in
  the known-good config has no incusd left (`OffIsStopped`); scripts that run one after
  the other leave the service up, reconciled with the config in force, in its
  directory and watched, after a good apply and after a rolled-back one
  (`ServiceMatches`). Of the four configs one works, one switches the service off, one fails
  to reconcile and one is refused. Two have their directory elsewhere, so that incusd has to
  be stopped in a directory that the config no longer names. The kill leaves a save with its
  calls orphaned anywhere, and the second save meets these orphans. Two constraints bound
  the run. `OneByOne` ends a behaviour once a save came while another one was applied
  (`hasty`), and since all three properties except what follows, nothing is lost by it.
  `StaysUp` ends one in which the array is stopped after a kill and two saves: a kill with one
  save and an array stop is there, and so are two saves with an array stop. The theorems have no
  such bounds. Processes, watchdogs and saves are symmetric, and no liveness is checked here.
- `exec_sessions`: the count is that of the starts under way on every path, the
  limit is never passed, and a live websocket belongs to a session, both or none
  (`Accounted`); a session ends with its terminal, also when it starts after the
  unmount (`Stopped`). Three terminals for two sessions give one that is refused.
- `jail_panel`: what the poll of a Homebrew job brings to the screen, outcome or error,
  is shown at its own container (`OwnResult`); the
  detail on the screen is the selected container as it is, whatever the order of
  the answers, if nothing failed (`ShowsTruth`; after a failed load the fields of
  the container before stay); a watched job is dropped for its outcome or for what
  the user or a failure did, until two starts overlapped (`Watched`). Two jobs for a
  capacity of one give an eviction; three selections leave a container and come back
  to it.
- `jail_views`: a tab with nothing under way shows its own actions, but for those
  whose wait ran out (`ReadsOwnWrites`), and a polling tab shows what is there some
  day (`Converges`). Two faults are a wait that runs out and a query that fails.
- `codex_client`: every call that waits is on the wire or answered, and so is every
  approval (`InFlight`); connected and with nothing to receive, the timeline is the
  server's, unless an item came between thread/resume and the catalogs, and the
  composer is not locked for a turn that is over (`ScreenAgrees`); a thread with a
  conversation is forgotten only if the connection is lost during its
  thread/resume (`KeepsThread`); the tab is connected for good once connections
  hold, unless the server refused initialize or thread/start, after which nobody
  calls again (`Connects`). Two prompts give a turn that waits for another and one
  with an approval; one lost connection, one page load and one refusal are one of
  each event that starts establishSession again or ends it.

### What the violation runs show

Each of these runs checks one property that a comment of the source states of the
program, and TLC finds how the code departs from it.

- `lifecycle_unmount` (`StoppedBeforeUnmount`): `unmounting_disks` asks `incus.cfg`, not
  incusd, so a disabled config that is saved and not yet applied lets the array go down
  under a running daemon. `StoppedUnlessRaced` is the part that does hold.
- `jail_output` (`OwnResult`): with `Kinds = {"root"}`, the outcome of a privileged command is
  shown in the panel of another container, because `runPrivilegedCommand` reads
  the selection after the awaited mutation (`web/App.vue:465`).

### What the properties leave out

These departures are in the models as the code has them. No run checks for them; each is
excepted, by name, in the property that it would break.

- `EveryAttemptYields`, `readOnly`: a stale lock on a flash that has turned read-only is
  neither unlinked nor created, and the loop of `acquireCfgLock` goes round without an await,
  although its comment says a sync must never stall the event loop (363-364).
- `RestAgreement` and `ChangesFollowed`, `missed` and the dropped watch: the process dies with
  the lock and is back within 15 s, its first sync is skipped, and no event is due (134-136
  speaks of the next one); a file that comes back after the 100 ms timer is not watched.
- `FailedSaveRestores` and `NoLostSave`, `edited`: a hand edit during a save is written away.
- `MasterIsLaunched`, `torn` and `wiped`: the second request of a toggle saves `jailImage` and
  then fails in applying it, and the compensation marks the old default again; two tabs
  toggle at once; rebuilding or deleting the default leaves a registry without one while
  the config launches its alias (`web/App.vue` 1387-1388 promises the contrary of a toggle).
- `RecordedIfSuccess`, `late`: the log's error comes when the build is settled.
- `PromotedIsReconciled`, `hasty` and `skipped`: a save between the success of `incus-init.sh`
  and the `cp` of `apply-settings.sh` is recorded as known-good without having been tried.
- `StoppedUnlessRaced`, `Tracked` and `OffIsStopped`, `raced`: see the histories of `Lifecycle`.
- `OwnResult`, `"failed"`: the error of a Homebrew job that could not be started is shown at
  the container selected by then (`web/App.vue:414`).
- `ShowsTruth`, `failed`, and `Watched`, `overlap`: a failed load leaves the fields of the
  container before; of two overlapping starts the later one loses its poller.
- `ReadsOwnWrites`: a wait that runs out tells a success that comes later.
- `KeepsThread`: a connection lost during `thread/resume` forgets the saved thread, and the
  next page starts another, although the README of the Codex plugin lists the resume.
- `Connects`, `errors`: a refused `initialize` or `thread/start` ends the session with the
  socket open.

### Fairness

Fairness is put on steps that the program or a timer will take, never on users,
administrators, crashes or failures. `ConfigLock`: each caller's next call (the
event loop or the process scheduler runs it) and the passing of time that makes
a lock stale. `ConfigSync`: the running section, armed timers, delivered file
events, and the restart of `unraid-api` by its supervisor. `ImageRegistry`: the
updates of the store (promises settle). `ImageBuild`: timers fire and promise
callbacks run; the process is not fair, so `BuildsEnd` rests on the timers.
`Lifecycle`: calls and scripts go on and watchdogs look, but no step that may ask incusd
is fair while one hangs (`Hung`), for `incus info` may not return then; and an incusd that
starts comes up unless one of the counted failures says otherwise.
`ExecSessions`: a call that was sent is handled and answered, unless it is counted
as lost; closing a terminal is not fair, and neither are the timers of a session,
so `Stopped` rests on the terminal alone. `JailViews`: the poller's timer, its
query and the end of the snapshot's second; the user's actions and Incus' changes
are not fair. `CodexClient`: socket events are delivered, the 2.5 s timer fires,
the server answers what it gets and ends its turns, and the user decides on a card
some day; loads, sends and losses are not fair. `JailPanel` has no liveness
property: a poller whose job was evicted asks for ever.

### Bounds

Every bound is a constant: `MaxGen`, `MaxCrashes`, `MaxRetries`, `MaxEdits`,
`MaxFaults`, `MaxActs`, `MaxMoves`, `MaxEvents`, `MaxKills`, `MaxRestarts`, `MaxAttempts`,
`MaxQueued`, `MaxConcurrent`, `MaxSessions` (8 in the code), `MaxStarts`, `Capacity`,
`Budgets`, `MaxDrops`, `MaxLoads`, `MaxErrors`, and the finite sets. The number of
`Pids` bounds the processes of incusd that live at once: a start waits while all
are taken. `Budgets` is a set: a behaviour of `jail_panel` has either jobs or edits,
since the two share nothing but the selection.

## 4. Proofs

`ConfigLockProofs` proves for any number of callers, retries, lock files and
crashes, from `LockAssumption` alone (the constants have their types):

- `TypeCorrect`: `Spec => []TypeOK`; no caller waits more often than it was told.
- `Exclusion`: `Spec => []MutualExclusion`.
- `RobbedInWindow`: `Spec => RobbedOnlyInWindow`, an action property.

`MutualExclusion` is not inductive: it says nothing of callers that have not
reached the section. `LockInv` strengthens it by five facts. No local variable
names a generation of the future (`GensCreated`), so a creation is news to
everybody. Tokens are unique (`TokensUnique`). A caller about to steal saw the
file stale, and a generation never becomes fresh again (`StealersSawStale`). A
caller about to release read its own token (`ReleasersSawOwn`). And unless one of
the windows was hit, a holder's file is the lock and fresh (`HoldersKeepFile`).
Two holders would then own the same generation, which `TokensUnique` forbids.
There is one lemma per kind of step (creation, look, leave, steal, release,
ageing), and `NextInv` puts them together.

`ExecServiceProofs` holds the theorems about both parts of the exec service. Of its
sessions it proves, for any number of terminals, any limit of sessions and any number of
faults, from `ExecAssumption` alone (finitely many terminals, a positive limit):

- `SessionTypes`: `ExecSpec => []ExecTypeOK`.
- `SessionsAccounted`: `ExecSpec => []Accounted`; the count of starts under way is
  exact, the limit is kept, and sockets live exactly as long as their session.

`Accounted` is inductive once types are known, so `SessionsInv` joins it with `SessionShape`,
which leaves out the range of `pending`: that follows from the count. Each start,
answer or failure moves one terminal into or out of the set of those that wait, and
the lemmas on cardinalities give the counter's new value.

`ImageBuildProofs` proves for any number of builds, slots and places in the
queue, from `BuildAssumption` alone (finitely many builds, at least one slot):

- `BuildTypes`: `Spec => []TypeOK`.
- `SlotsCounted`: `Spec => []SlotsExact`.
- `SuccessRecorded`: `Spec => []RecordedIfSuccess`.

`SlotsExact` alone is not inductive: nothing in it keeps the `finally` of `enqueue` from
starting a build that already has a slot. `BuildInv` adds that the queue holds builds that
wait, each once (`QueueWaits`); that unless calls overlapped at most one build
is between the check and the queue, and there is room for it (`QueueFits`); that only
a running build has a timer (`TimersRun`); and which outcome each stage allows
(`Outcomes`), which gives the record: an error is early only if the build was not yet settled. The build that
takes over the slot of one that is done then is queued, so the set of builds with a
slot loses one member and gains another, and the count stays right.

`ConfigSyncProofs` proves for any settings and values, any saves and edits, and any
number of faults, crashes and retries, from `SyncAssumption` alone (the constants
have their types; the parser maps values to values):

- `SyncTypes`: `Spec => []TypeOK`.
- `SavesLast`: `Spec => []NoLostSave`.
- `FailuresRestore`: `Spec => []FailedSaveRestores`.
- `RestAgrees`: `Spec => []RestAgreement`.

All four speak of moments between sections or at the end of one, so the invariant
`Inv` says what holds inside. `Shape`: a section belongs to a process that lives and
holds the lock. `Saving`: a save knows both files as it read them, every change it has
made has a backup, and each of its two ways out, `Forward` and `Backward`, leads to
where the properties look. `Owes`: an edit ends all promises, and as long as no edit
came what is owed is in the file the save has read and in the one it writes, but for its own
keys. `Served`: the value follows `incus.json` but for the one step before the commit.
`Followed`: whenever the two files differ, a timer runs, or a sync is about to read,
or it has read what the file still says; or the change was missed, or the watcher is
off. That a sync which is about to write has read the *current* content is needed, although
the files may agree by chance before it writes: without it the step would break the
agreement.

`ImageRegistryProofs` proves for any images, directories, tabs, deletions, prunes and
builds and any bounds, from `RegistryAssumption` alone:

- `StoreAtomic`: `Spec => UpdatesAtomic`, the refinement of `AtomicStore`: `Store` maps to
  one `Update`, every other step to a stutter.
- `MasterLaunched`: `Spec => []MasterIsLaunched`.
- `RegistryTypes`: `Spec => []TypeOK`.

The refinement rests on `StoreInv`: the chain holds exactly the callers that wait,
each once (`Waiting`), and only its head has read, and what it is about to write is
its update of what some file holds still (`OnlyHeadLoaded`). One master at most
follows for the files and for what is about to be written (`SingleInv`). For the launched image
`RegistryInv` says, phase by phase of a toggle, what is marked and what is launched before
and after each of its two mutations (`Before`, `After`, `Remembers`), with the
answer that is on its way, and leaves out the aliases whose record was wiped.

`LifecycleProofs` proves for any configs, scripts, watchdogs, processes and limits, from
`LifecycleAssumption` (the names differ, and `Installed` is a config):

- `LifecycleTypes`: `Spec => []TypeOK`.
- `DaemonTracked`: `Spec => []Tracked`.
- `StoppedWhileEnabled`: `Spec /\ [](cfg \in Enabled) => []StoppedUnlessRaced`. Run
  `lifecycle_unmount` shows why the hypothesis is there: a disabled config that is
  not applied yet lets the array go down under incusd. Run `lifecycle_array` has no save and
  satisfies it.
- `OffStopped`: `Spec => []OffIsStopped`, for any number of saves and kills.
- `PromotedReconciled`: `Spec => PromotedIsReconciled`, an action property, for any number of
  saves, whichever configs are enabled, broken or not accepted and however the host was
  installed. `hasty` is in the property for the save that comes between success and `cp`.
- `ServiceRight`: `Spec => []ServiceMatches` if the config of the boot is not a broken enabled one,
  for any number of saves, mounts and unmounts one after the other. The hypothesis is needed:
  when `incus-init.sh` fails, `disks_mounted` stops incusd again, and an enabled service does not
  run. A broken config that is saved later is no harm, since `apply-settings.sh` takes it back.

The invariant's core is `OneTracked`: unless a start raced, at most one incusd lives, one
start at most made it, the pid file names it or the shell that spawned it is about to
write it (`fresh`), and when a stop or a cleanup is about to remove the pid file none is
left. It holds with the types, with `Recording` (who has spawned and not written is at
that very command), and with `EventOrder` (the array goes as its script goes). `DownLast`
adds for the second theorem that an array on its way down has a stop under way. For saves,
`ApplyOrder` says that unless one was hasty a single `apply-settings.sh` is under way and goes by
the config in force; `OffLast` that unless something raced, was hasty or mixed, a service
that is off in the known-good config has nothing left alive, or a stop on its way to it, or a
restore about to call one; and `Reconciled` that the script reconciles the config that it promotes.

For `ServiceRight` the invariant `Orderly` says that two busy shells have been noticed, and that
as long as nothing was disturbed the system is `Calm`: every command of the one busy shell
finds what the commands before it have achieved, with the config that it has read
(nothing lives from the shutdown to the spawn, incusd answers from the guard on, the
script of each shell knows how far it is). `InForce` keeps
the known-good config from being a broken one, so that a rollback cannot fail; `Watching`
lets the watchdog of the pid file be the only one, which finds nothing to do. The steps that
`Calm` rules out are shown impossible: a wait times out and an incusd yields only after a
fault or a race.

Of the jobs and the details panel `ExecServiceProofs` proves for any containers, any number
of jobs, any capacity of the server's map and any budgets, from `PanelAssumption`:

- `PanelTypes`: `Spec => []TypeOK`.
- `TruthShown`: `Spec => []ShowsTruth`.
- `OwnOutcome`: `Spec => []OwnResult` if `"root" \notin Kinds`: what a poll of a Homebrew
  job brings to the screen belongs to the selected container. Run `jail_output` refutes it for
  the privileged commands.
- `WatchKept`: `Spec => Watched`, an action property.

`LastLoad` says of the load sent last that it is for the selected container and of
its current version, or was answered and shown. `Handles`, `Outcomes` and `OneAtATime`
tie pollers to jobs: a handle is that of a live poller of its kind, a Homebrew poller carries
its job's container, and until two starts overlapped the watched poller is the only one of its kind.
`Lists` keeps each job in the server's map once; that `pruneJobs` and the return of an
evicted job preserve it rests on lemmas about injective sequences, and that the map
stays within its size on one about their length.

`JailViewsProofs` proves for any tabs, actions, queries and faults, from
`ViewsAssumption`:

- `ViewsTypes`: `Spec => []TypeOK`.
- `OwnWritesRead`: `Spec => []ReadsOwnWrites`.

`Fresh` follows a change to the screen: once an action is answered the snapshot is gone or
newer than the change, and once its tab has asked again, the query that the tab will take
is on its way, or carries the change, or has failed and said so.

`CodexClientProofs` proves for any prompts, threads, lost connections, page loads and refused
calls, from `CodexAssumption` (names differ: no thread or prompt is `None`, and no prompt has
the name of another call):

- `ClientTypes`: `Spec => []TypeOK`.
- `NobodyWaits`: `Spec => []InFlight`.
- `ScreenTrue`: `Spec => []ScreenAgrees`.
- `ThreadIsKept`: `Spec => KeepsThread`, an action property.

What the screen shows depends on every message that is still to come, so the invariant
`CodexInv` follows the wire, layer by layer. `Wire`: nothing is under way but on an open
socket, each answer is the only one to a call that waits, and `establishSession` makes one
call at a time; `InFlight` is not inductive without it, because a second answer to the same
call would settle another one. `Sends`: a turn belongs to a prompt that was called in its thread.
`Approvals`: an open approval is a card, a request or a decision, and the notice that
it is resolved comes only after it is settled. `Session`: what each call of
`establishSession` and its answer say about the thread of the connection; from it follow
that a live session has the server's thread, and `KeepsThread`: a thread with a turn
is never refused and never replaced by a new one. `Truthful`, `Once` and `Ordered`: a notice
of a turn comes after the fact, each item is told once, and the items of a thread come
after the answer that opens it. With these `Book` is inductive, and is the heart of
`ScreenAgrees`: what the server has stored is what is shown plus what is on its way,
where "shown" is first the answer that opens the thread, then the snapshot, then the timeline.
`overtaken` is where this breaks: an item that arrives between snapshot and timeline is
lost with the older snapshot. `Lock` says that a turn that holds the composer, or whose
message will, still runs, or that its end is on the wire behind that message.

What is only model-checked is liveness: the prover handles neither `ENABLED` nor the
fairness that rests on it. Every invariant and every action property of the passing runs is the
subject of a theorem.

## 5. What is not modelled

- Package search: read-only for the rest of the system; a catalog per
  distribution, cached, with one fetch under way per catalog.
- Of the Codex client: `turn/interrupt` (no state of its own), MCP apps, sign-in,
  settings, realtime, and the rendering of items. They share the socket, the calls
  and the close handler that are modelled.
- `deleteStoppedJails`, `migrateJailWorkspace` and the other multi-step calls inside
  `incus.service.ts`, which the panel sees as one change that may fail halfway; the
  GET-then-PATCH of a container's config map, which loses one of two edits that
  overlap.
- What is typed into a terminal and printed by it.
- `incus-init.sh` inside: idempotent configuration commands in a row, without
  state of their own; only its lock and its outcome matter to the others.
- Jails that `unmounting_disks` stops one by one, lxcfs and the health file.
- Comments, quoting and layout of `incus.cfg`, beyond the one effect of quoting
  that changes a value; validation of single settings.
- The distrobuilder definition, build logs, and the retention of old builds.
- Installation and removal: sequential scripts run by the plugin manager.
- GraphQL schema and permissions, user-interface components, vendored tools.

## 6. Plan

1. A composition of `ConfigSync` with `Lifecycle`: `known-good` restored under a
   running watcher.
2. The edits of `incus.service.ts` as GET and PATCH of a container with versions.
