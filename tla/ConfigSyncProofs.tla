---------------------------- MODULE ConfigSyncProofs ----------------------------
(***************************************************************************)
(* Theorems about ConfigSync, for any settings and values, any number of   *)
(* saves, edits, file-system errors and crashes: types, the promises of    *)
(* acknowledged saves, the rollback of a failed save, and the agreement of *)
(* incus.cfg, incus.json and the value served.                             *)
(***************************************************************************)
EXTENDS ConfigSync, TLAPS

-------------------------------------------------------------------------------
(* The inductive invariant *)

\* The parts of TypeOK.
Txns == [cfg0 : Files, json0 : Files, text : Files, merged : Files,
         cfgBackup : Files, jsonBackup : Files,
         backedUp : SUBSET {"cfg", "json"}, installed : SUBSET {"cfg", "json"},
         err : {"none", "failed", "incomplete", "cleanup"}]

Places == {"idle", "granted", "backup", "installCfg", "installJson", "undoCfg", "undoJson",
           "cleanup", "write", "release"}

DataOK == cfg \in Files /\ json \in Files /\ mem \in Contents /\ owed \in Contents

SectionOK ==
  /\ lock \in {"free", "held", "orphan", "stale"}
  /\ who \in Saves \cup {"sync", Nobody} /\ at \in Places /\ txn \in Txns

CallsOK ==
  /\ phase \in {"down", "init", "up"} /\ watch \in {"armed", "rearming", "off"}
  /\ tries \in [Saves -> 0..MaxRetries]
  /\ reply \in [Saves -> {"idle", "trying", "running", "saved", "failed", "lost"}]

CountsOK ==
  /\ pending \in 0..MaxEdits
  /\ edits \in 0..MaxEdits /\ faults \in 0..MaxFaults /\ crashes \in 0..MaxCrashes

HistoryOK == edited \in BOOLEAN /\ missed \in BOOLEAN /\ split \in BOOLEAN

Types == DataOK /\ SectionOK /\ CallsOK /\ CountsOK /\ HistoryOK

\* file holds every value that is owed.
Intact(file) == \A k \in Keys : owed[k] # Unset => file # Missing /\ file[k] = owed[k]

\* Sections, the lock and the watcher belong to a process that lives; only a
\* save writes files, and it starts with nothing read.
Shape ==
  /\ pending <= edits
  /\ phase # "up" => watch = "off" /\ pending = 0
  /\ phase = "down" => who = Nobody
  /\ who \in Saves => phase = "up" /\ at # "write"
  /\ who = "sync" => at \in {"granted", "write", "release"}
  /\ who = Nobody <=> at = "idle"
  /\ who = Nobody <=> lock # "held"
  /\ at \in {"idle", "granted"} => txn = NoTxn
  /\ at = "write" => txn.merged \in Contents

\* A timer runs whose sync will look at incus.cfg.
Due == pending > 0 \/ watch = "rearming"

\* incus.json has every value of incus.cfg.
Agree == cfg # Missing => ~Differs(json, Read(cfg))

\* Nothing is owed after an edit; but for a save that has begun to read and
\* write, incus.cfg holds what is owed.
Owes ==
  /\ edited => \A k \in Keys : owed[k] = Unset
  /\ who \notin Saves \/ at = "granted" => Intact(cfg)

\* The running save found no incus.cfg.
FoundNone == at = "release" /\ txn.text = Missing /\ txn.err = "failed" /\ Intact(cfg)

\* What the running save knows of the files it has read, and where they are.
ReadBoth(s) ==
  /\ txn.cfg0 \in Contents /\ txn.merged \in Contents
  /\ txn.text = Merge(txn.cfg0, Input[s])
  /\ Intact(txn.cfg0)
  /\ "json" \in txn.backedUp => txn.jsonBackup = txn.json0
  /\ ~edited => /\ cfg \in {txn.cfg0, txn.text}
                /\ "cfg" \in txn.backedUp => txn.cfgBackup = txn.cfg0

\* Its way to the end: nothing is changed yet, incus.cfg is, both files are.
Forward ==
  /\ at \in {"backup", "installCfg", "installJson", "cleanup"} => txn.err = "none"
  /\ at \in {"backup", "installCfg"} => txn.installed = {} /\ (~edited => cfg = txn.cfg0)
  /\ at = "backup" => txn.backedUp = {}
  /\ at \in {"installCfg", "installJson"} /\ ~edited => "cfg" \in txn.backedUp
  /\ at \in {"installJson", "cleanup"} => Due \/ watch = "off"
  /\ at \in {"installJson", "cleanup"} /\ ~edited => cfg = txn.text
  /\ at \in {"backup", "installCfg", "installJson", "undoCfg", "undoJson"} => json = txn.json0
  /\ at = "cleanup" => json = txn.merged

\* Its way back: what is changed has a backup, and then is as it was.
Backward ==
  /\ at = "undoCfg" => /\ txn.err = "failed"
                       /\ ~edited => \/ "cfg" \in txn.backedUp
                                     \/ cfg = txn.cfg0 /\ txn.installed = {}
  /\ at = "undoJson" => /\ txn.err \in {"failed", "incomplete"}
                        /\ txn.err = "failed" /\ ~edited => cfg = txn.cfg0
  /\ at = "release" => /\ txn.err = "none" /\ ~edited => cfg = txn.text
                       /\ txn.err = "failed" => json = txn.json0
                       /\ txn.err = "failed" /\ ~edited => cfg = txn.cfg0

Saving ==
  who \in Saves /\ at # "granted" => FoundNone \/ (ReadBoth(who) /\ Forward /\ Backward)

\* The value served is the persisted one, but for a save that is about to set it.
Served ==
  phase # "down" /\ json # Missing /\ ~split /\ ~(who \in Saves /\ at = "cleanup") => mem = json

\* Unless a change was missed or the watcher is off for good, the files agree,
\* or a timer or a sync that runs will make them; a sync about to write has
\* read what incus.cfg says now.
Followed ==
  phase # "down" /\ ~missed /\ ~Due /\ ~(phase = "up" /\ watch = "off")
    => \/ Agree /\ at # "write"
       \/ who = "sync" /\ at = "granted"
       \/ who = "sync" /\ at = "write" /\ cfg # Missing /\ txn.merged = Read(cfg)

Inv == Types /\ Shape /\ Owes /\ Saving /\ Served /\ Followed

-------------------------------------------------------------------------------
(* What the operators return *)

LEMMA ContentsFacts ==
  /\ Missing \notin Contents
  /\ Defaults \in Contents
  /\ \A s \in Saves : Input[s] \in Contents
  /\ \A c \in Contents : Read(c) \in Contents
  /\ \A a, b \in Contents : Merge(a, b) \in Contents
  /\ \A f \in Files : OrEmpty(f) \in Contents
<1> USE SyncAssumption DEF SyncAssumption
<1>1. Missing \notin Contents /\ \A s \in Saves : Input[s] \in Contents
  OBVIOUS
<1>2. Defaults \in Contents
  BY DEF Contents
<1>3. \A c \in Contents : Read(c) \in Contents
  BY DEF Contents, Read
<1>4. \A a, b \in Contents : Merge(a, b) \in Contents
  BY DEF Contents, Merge
<1>5. \A f \in Files : OrEmpty(f) \in Contents
  BY DEF Files, Contents, OrEmpty
<1> QED
  BY <1>1, <1>2, <1>3, <1>4, <1>5

\* A sync leaves nothing to do for the next one.
LEMMA MergeAgrees ==
  ASSUME NEW a \in Contents, NEW b \in Contents
  PROVE  ~Differs(Merge(a, b), b)
<1> Merge(a, b) # Missing
  BY ContentsFacts
<1> QED
  BY DEF Differs, Merge, OrEmpty, Contents

LEMMA NoTxnFacts ==
  /\ NoTxn \in Txns
  /\ NoTxn.text = Missing /\ NoTxn.err = "none"
  /\ NoTxn.backedUp = {} /\ NoTxn.installed = {}
  BY DEF NoTxn, Txns, Files

LEMMA TypesAreTypeOK == Types <=> TypeOK
  BY Zenon DEF Types, TypeOK, DataOK, SectionOK, CallsOK, CountsOK, HistoryOK, Txns, Places

LEMMA InitInv == Init => Inv
<1> SUFFICES ASSUME Init PROVE Inv
  OBVIOUS
<1> USE SyncAssumption, ContentsFacts, NoTxnFacts DEF Init, SyncAssumption
<1>1. cfg \in Contents /\ json \in Files
  BY DEF Files
<1>2. Types
  <2>1. DataOK
    BY <1>1 DEF DataOK, Files, Contents
  <2>2. SectionOK
    BY DEF SectionOK, Places
  <2>3. CallsOK /\ CountsOK
    BY DEF CallsOK, CountsOK
  <2>4. HistoryOK
    BY Zenon DEF HistoryOK
  <2> QED
    BY <2>1, <2>2, <2>3, <2>4 DEF Types
<1>3. Shape
  BY DEF Shape
<1>4. Owes
  BY DEF Owes, Intact
<1>5. Saving /\ Served /\ Followed
  BY DEF Saving, Served, Followed
<1> QED
  BY <1>2, <1>3, <1>4, <1>5 DEF Inv

-------------------------------------------------------------------------------
(* Requests *)

LEMMA AskKeeps ==
  ASSUME Inv, NEW s \in Saves, SaveAsks(s)
  PROVE  Inv'
<1> USE DEF Inv, Types, disk, process, history, bounds, section
<1>1. UNCHANGED <<disk, mem, process, history>> /\ phase = "up"
  BY DEF SaveAsks, SaveNoFile, SaveGranted, SaveWaits, SaveRefused, Attempt
<1>2. \/ UNCHANGED <<lock, section, bounds>>
      \/ Grant(s)
      \/ GrantFails
  BY DEF SaveAsks, SaveNoFile, SaveGranted, SaveWaits, SaveRefused, NoFault
<1>3. CallsOK'
  <2>1. tries' \in [Saves -> 0..MaxRetries]
    BY SyncAssumption DEF CallsOK, SaveAsks, SaveNoFile, SaveGranted, SaveWaits, SaveRefused, SyncAssumption
  <2>2. reply' \in [Saves -> {"idle", "trying", "running", "saved", "failed", "lost"}]
    BY DEF CallsOK, SaveAsks, SaveNoFile, SaveGranted, SaveWaits, SaveRefused, Answer
  <2> QED
    BY <1>1, <2>1, <2>2 DEF CallsOK
<1>4. DataOK'
  BY <1>1 DEF DataOK
<1>5. HistoryOK'
  BY <1>1 DEF HistoryOK
<1>6. ASSUME UNCHANGED <<lock, section, bounds>> PROVE Inv'
  <2>1. SectionOK' /\ CountsOK'
    BY <1>1, <1>6 DEF SectionOK, CountsOK
  <2>2. Shape'
    BY <1>1, <1>6 DEF Shape
  <2>3. Owes' /\ Saving'
    BY <1>1, <1>6 DEF Owes, Saving, Intact, FoundNone, ReadBoth, Forward, Backward, Due
  <2>4. Served' /\ Followed'
    BY <1>1, <1>6 DEF Served, Followed, Due, Agree
  <2> QED
    BY <1>3, <1>4, <1>5, <2>1, <2>2, <2>3, <2>4
<1>7. ASSUME Grant(s) PROVE Inv'
  <2> USE <1>1, <1>7 DEF Grant, NoFault
  <2>1. SectionOK' /\ CountsOK'
    BY NoTxnFacts DEF SectionOK, CountsOK, Places
  <2>2. Shape'
    BY SyncAssumption DEF Shape, SyncAssumption
  <2>3. Owes' /\ Saving'
    BY SyncAssumption DEF Owes, Saving, Intact, SyncAssumption
  <2>4. Served' /\ Followed'
    BY SyncAssumption DEF Served, Followed, Due, Agree, Shape, SyncAssumption
  <2> QED
    BY <1>3, <1>4, <1>5, <2>1, <2>2, <2>3, <2>4
<1>8. ASSUME GrantFails PROVE Inv'
  <2> USE <1>1, <1>8 DEF GrantFails, Fault, Available
  <2>1. SectionOK' /\ CountsOK'
    BY SyncAssumption DEF SectionOK, CountsOK, SyncAssumption
  <2>2. Shape'
    BY DEF Shape
  <2>3. Owes' /\ Saving'
    BY DEF Owes, Saving, Intact, FoundNone, ReadBoth, Forward, Backward, Due
  <2>4. Served' /\ Followed'
    BY DEF Served, Followed, Due, Agree
  <2> QED
    BY <1>3, <1>4, <1>5, <2>1, <2>2, <2>3, <2>4
<1> QED
  BY <1>2, <1>6, <1>7, <1>8

-------------------------------------------------------------------------------
(* Saves *)

LEMMA ReadsKeep ==
  ASSUME Inv, NEW s \in Saves, SaveReads(s)
  PROVE  Inv'
<1> USE SyncAssumption, ContentsFacts, NoTxnFacts
    DEF Inv, Types, SaveReads, In, SyncAssumption, process, calls, bounds
<1>1. UNCHANGED <<cfg, json, mem, lock, phase, watch, pending, tries, reply, edits, faults,
                  crashes, owed, missed, split>>
      /\ who = s /\ at = "granted" /\ who' = s /\ txn = NoTxn /\ s # Nobody
  BY DEF disk, Fails, Goto, Shape
<1>2. CASE cfg = Missing
  <2>1. at' = "release" /\ txn' = [NoTxn EXCEPT !.err = "failed"] /\ edited' = edited
    BY <1>1, <1>2 DEF Fails, Goto
  <2>2. txn' \in Txns /\ txn'.text = Missing /\ txn'.err = "failed"
    BY <2>1 DEF Txns, NoTxn, Files
  <2>3. Types'
    BY <1>1, <2>1, <2>2 DEF DataOK, SectionOK, Places, CallsOK, CountsOK, HistoryOK
  <2>4. Shape' /\ Owes'
    BY <1>1, <2>1 DEF Shape, Owes, Intact
  <2>5. Saving'
    BY <1>1, <2>1, <2>2 DEF Saving, FoundNone, Owes, Intact
  <2>6. Served' /\ Followed'
    BY <1>1, <1>2, <2>1 DEF Served, Followed, Due, Agree
  <2> QED
    BY <2>3, <2>4, <2>5, <2>6
<1>3. CASE cfg # Missing
  <2>1. /\ at' = "backup" /\ edited' = FALSE
        /\ txn' = [NoTxn EXCEPT !.cfg0 = cfg, !.json0 = json, !.text = Merge(cfg, Input[s]),
                                !.merged = Merge(Read(cfg), Input[s])]
    BY <1>1, <1>3 DEF Goto
  <2>2. cfg \in Contents /\ json \in Files
    BY <1>3 DEF DataOK, Files
  <2>3. Merge(cfg, Input[s]) \in Contents /\ Merge(Read(cfg), Input[s]) \in Contents
    BY <2>2
  <2>4. /\ txn' \in Txns
        /\ txn'.cfg0 = cfg /\ txn'.json0 = json /\ txn'.text = Merge(cfg, Input[s])
        /\ txn'.merged \in Contents
        /\ txn'.err = "none" /\ txn'.backedUp = {} /\ txn'.installed = {}
    BY <2>1, <2>2, <2>3 DEF Txns, NoTxn, Files
  <2>5. Types'
    <3>1. HistoryOK'
      BY <1>1, <2>1, Zenon DEF HistoryOK
    <3> QED
      BY <1>1, <2>1, <2>4, <3>1 DEF DataOK, SectionOK, Places, CallsOK, CountsOK
  <2>6. Shape' /\ Owes'
    BY <1>1, <2>1 DEF Shape, Owes, Intact
  <2>7. Saving'
    <3>1. ReadBoth(s)'
      BY <1>1, <2>1, <2>2, <2>4 DEF ReadBoth, Owes, Intact
    <3>2. Forward' /\ Backward'
      BY <1>1, <2>1, <2>4 DEF Forward, Backward
    <3> QED
      BY <1>1, <3>1, <3>2 DEF Saving
  <2>8. Served' /\ Followed'
    BY <1>1, <2>1 DEF Served, Followed, Due, Agree
  <2> QED
    BY <2>5, <2>6, <2>7, <2>8
<1> QED
  BY <1>2, <1>3

\* What a step of a save in its middle knows before it.
LEMMA InMiddle ==
  ASSUME Inv, NEW s \in Saves, who = s, at \notin {"granted", "release"}
  PROVE  /\ s # Nobody /\ s # "sync" /\ phase = "up" /\ lock = "held"
         /\ ReadBoth(s) /\ Forward /\ Backward
  BY SyncAssumption DEF Inv, Shape, Saving, FoundNone, SyncAssumption

LEMMA BackupKeeps ==
  ASSUME Inv, NEW s \in Saves, SaveBacksUp(s) \/ SaveBackupFails(s)
  PROVE  Inv'
<1> USE DEF Inv, Types, process, calls, bounds, history, disk
<1>1. /\ UNCHANGED <<disk, mem, lock, process, calls, history, who>>
      /\ who = s /\ at = "backup" /\ at' \in {"installCfg", "undoCfg"}
      /\ UNCHANGED <<edits, crashes>> /\ faults' \in 0..MaxFaults
  BY SyncAssumption DEF SaveBacksUp, SaveBackupFails, In, Goto, NoFault, Fault, CountsOK, SyncAssumption
<1>2. ReadBoth(s) /\ Forward /\ Backward /\ s # Nobody /\ s # "sync"
  BY <1>1, InMiddle
<1>3. /\ txn' \in Txns
      /\ txn'.cfg0 = txn.cfg0 /\ txn'.json0 = txn.json0 /\ txn'.text = txn.text
      /\ txn'.merged = txn.merged /\ txn'.installed = {}
      /\ "json" \in txn'.backedUp => txn'.jsonBackup = json
      /\ "cfg" \in txn'.backedUp => txn'.cfgBackup = cfg
      /\ at' = "installCfg" => txn'.err = "none" /\ (cfg # Missing => "cfg" \in txn'.backedUp)
      /\ at' = "undoCfg" => txn'.err = "failed"
  <2>1. txn \in Txns /\ cfg \in Files /\ json \in Files /\ txn.backedUp = {} /\ txn.installed = {}
        /\ txn.err = "none"
    BY <1>1, <1>2 DEF SectionOK, DataOK, Forward
  <2>2. CASE SaveBacksUp(s)
    BY <2>1, <2>2 DEF SaveBacksUp, Goto, Txns
  <2>3. CASE SaveBackupFails(s)
    <3>1. at' = "undoCfg"
      BY <2>3 DEF SaveBackupFails, Goto
    <3>2. CASE txn' = [txn EXCEPT !.err = "failed"]
      BY <2>1, <3>1, <3>2 DEF Txns
    <3>3. CASE txn' = [txn EXCEPT !.err = "failed", !.cfgBackup = cfg, !.backedUp = {"cfg"}]
      BY <2>1, <3>1, <3>3 DEF Txns
    <3> QED
      BY <2>3, <3>2, <3>3 DEF SaveBackupFails
  <2> QED
    BY <2>2, <2>3
<1>4. Types'
  BY <1>1, <1>3 DEF DataOK, SectionOK, Places, CallsOK, CountsOK, HistoryOK
<1>5. Shape' /\ Owes'
  BY <1>1, <1>2 DEF Shape, Owes, Intact
<1>6. Saving'
  <2>1. ReadBoth(s)'
    BY <1>1, <1>2, <1>3 DEF ReadBoth, Intact, Forward
  <2>2. Forward' /\ Backward'
    BY <1>1, <1>2, <1>3, ContentsFacts DEF ReadBoth, Forward, Backward
  <2> QED
    BY <1>1, <2>1, <2>2 DEF Saving
<1>7. Served' /\ Followed'
  BY <1>1, <1>2 DEF Served, Followed, Due, Agree
<1> QED
  BY <1>4, <1>5, <1>6, <1>7

\* A file renamed over incus.cfg starts the timer of the watcher, if there is one.
LEMMA ReplacedFacts ==
  ASSUME Inv, Replaced
  PROVE  /\ UNCHANGED <<phase, pending>> /\ watch' \in {"armed", "rearming", "off"}
         /\ (Due \/ watch = "off")'
         /\ phase # "up" => watch' = "off"
         /\ watch' = "off" => watch = "off"
  BY DEF Inv, Types, CallsOK, Shape, Replaced, Due

LEMMA InstallsKeep ==
  ASSUME Inv, NEW s \in Saves, SaveInstallsCfg(s) \/ SaveInstallsJson(s)
  PROVE  Inv'
<1> USE DEF Inv, Types, calls, bounds, history
<1>1. /\ UNCHANGED <<mem, lock, calls, bounds, history, who>> /\ who = s
      /\ \/ /\ at = "installCfg" /\ at' = "installJson" /\ cfg' = txn.text /\ json' = json
            /\ txn' = [txn EXCEPT !.installed = {"cfg"}] /\ Replaced
         \/ /\ at = "installJson" /\ at' = "cleanup" /\ json' = txn.merged /\ cfg' = cfg
            /\ txn' = [txn EXCEPT !.installed = {"cfg", "json"}] /\ UNCHANGED process
  BY DEF SaveInstallsCfg, SaveInstallsJson, In, Goto, NoFault
<1>2. ReadBoth(s) /\ Forward /\ Backward /\ s # Nobody /\ s # "sync" /\ phase = "up"
  BY <1>1, InMiddle
<1>3. /\ txn' \in Txns
      /\ txn'.cfg0 = txn.cfg0 /\ txn'.json0 = txn.json0 /\ txn'.text = txn.text
      /\ txn'.merged = txn.merged /\ txn'.jsonBackup = txn.jsonBackup
      /\ txn'.cfgBackup = txn.cfgBackup /\ txn'.backedUp = txn.backedUp /\ txn'.err = txn.err
  BY <1>1 DEF SectionOK, Txns
<1>4. /\ phase' = phase /\ pending' = pending /\ watch' \in {"armed", "rearming", "off"}
      /\ (Due \/ watch = "off")'
  BY <1>1, <1>2, ReplacedFacts DEF Forward, process, Due, CallsOK
<1>5. Types'
  <2>1. DataOK'
    BY <1>1, <1>2 DEF DataOK, SectionOK, Txns
  <2> QED
    BY <1>1, <1>3, <1>4, <2>1 DEF SectionOK, Places, CallsOK, CountsOK, HistoryOK
<1>6. Shape' /\ Owes'
  BY <1>1, <1>2, <1>4 DEF Shape, Owes, Intact
<1>7. Saving'
  <2>1. ReadBoth(s)'
    BY <1>1, <1>2, <1>3 DEF ReadBoth, Intact, Forward
  <2>2. Forward' /\ Backward'
    BY <1>1, <1>2, <1>3, <1>4 DEF ReadBoth, Forward, Backward
  <2> QED
    BY <1>1, <2>1, <2>2 DEF Saving
<1>8. Served'
  BY <1>1, <1>2, <1>4 DEF Served
<1>9. Followed'
  BY <1>2, <1>4 DEF Followed, Due
<1> QED
  BY <1>5, <1>6, <1>7, <1>8, <1>9

LEMMA InstallFailsKeeps ==
  ASSUME Inv, NEW s \in Saves, SaveInstallFails(s)
  PROVE  Inv'
<1> USE DEF Inv, Types, process, calls, history, disk
<1>1. /\ UNCHANGED <<disk, mem, lock, process, calls, history, who>> /\ who = s
      /\ at \in {"installCfg", "installJson"} /\ at' = "undoCfg"
      /\ txn' = [txn EXCEPT !.err = "failed"]
      /\ UNCHANGED <<edits, crashes>> /\ faults' \in 0..MaxFaults
  BY SyncAssumption DEF SaveInstallFails, In, Goto, Fault, CountsOK, SyncAssumption
<1>2. ReadBoth(s) /\ Forward /\ Backward /\ s # Nobody /\ s # "sync" /\ phase = "up"
  BY <1>1, InMiddle
<1>3. /\ txn' \in Txns
      /\ txn'.cfg0 = txn.cfg0 /\ txn'.json0 = txn.json0 /\ txn'.text = txn.text
      /\ txn'.merged = txn.merged /\ txn'.jsonBackup = txn.jsonBackup
      /\ txn'.cfgBackup = txn.cfgBackup /\ txn'.backedUp = txn.backedUp
      /\ txn'.installed = txn.installed /\ txn'.err = "failed"
  BY <1>1 DEF SectionOK, Txns
<1>4. Types'
  BY <1>1, <1>3 DEF DataOK, SectionOK, Places, CallsOK, CountsOK, HistoryOK
<1>5. Shape' /\ Owes'
  BY <1>1, <1>2 DEF Shape, Owes, Intact
<1>6. Saving'
  <2>1. ReadBoth(s)'
    BY <1>1, <1>2, <1>3 DEF ReadBoth, Intact
  <2>2. Forward' /\ Backward'
    BY <1>1, <1>2, <1>3 DEF ReadBoth, Forward, Backward
  <2> QED
    BY <1>1, <2>1, <2>2 DEF Saving
<1>7. Served' /\ Followed'
  BY <1>1, <1>2 DEF Served, Followed, Due, Agree
<1> QED
  BY <1>4, <1>5, <1>6, <1>7

LEMMA UndoesCfgKeeps ==
  ASSUME Inv, NEW s \in Saves, SaveUndoesCfg(s)
  PROVE  Inv'
<1> USE DEF Inv, Types, calls, history
<1>1. /\ UNCHANGED <<json, mem, lock, calls, history, who>> /\ who = s
      /\ at = "undoCfg" /\ at' = "undoJson"
      /\ UNCHANGED <<edits, crashes>> /\ faults' \in 0..MaxFaults
  BY SyncAssumption DEF SaveUndoesCfg, In, Goto, Fault, NoFault, bounds, CountsOK, SyncAssumption
<1>2. ReadBoth(s) /\ Forward /\ Backward /\ s # Nobody /\ s # "sync" /\ phase = "up"
  BY <1>1, InMiddle
<1>3. /\ txn' \in Txns
      /\ txn'.cfg0 = txn.cfg0 /\ txn'.json0 = txn.json0 /\ txn'.text = txn.text
      /\ txn'.merged = txn.merged /\ txn'.jsonBackup = txn.jsonBackup
      /\ txn'.cfgBackup = txn.cfgBackup /\ txn'.backedUp = txn.backedUp
      /\ \/ txn'.err = "failed"
         \/ txn'.err = "incomplete" /\ cfg' = cfg
  BY <1>1, <1>2 DEF SaveUndoesCfg, SectionOK, Txns, Backward
<1>4. \/ UNCHANGED <<cfg, process>>
      \/ Replaced /\ cfg' \in {txn.cfgBackup, Missing}
  BY DEF SaveUndoesCfg
<1>5. \/ "cfg" \in txn.backedUp /\ cfg' = txn.cfgBackup
      \/ "cfg" \notin txn.backedUp /\ txn.installed # {}
      \/ cfg' = cfg /\ txn.installed = {} /\ "cfg" \notin txn.backedUp
      \/ cfg' = cfg /\ txn'.err = "incomplete"
  BY <1>1 DEF SaveUndoesCfg, SectionOK, Txns
<1>6. ~edited => cfg' \in {txn.cfg0, txn.text} /\ (txn'.err = "failed" => cfg' = txn.cfg0)
  BY <1>1, <1>2, <1>5 DEF ReadBoth, Backward
<1>7. /\ phase' = phase /\ pending' = pending /\ watch' \in {"armed", "rearming", "off"}
      /\ UNCHANGED <<cfg, process>> \/ (Due \/ watch = "off")'
  BY <1>4, ReplacedFacts DEF process, CallsOK
<1>8. Types'
  <2>1. cfg' \in Files
    BY <1>4 DEF DataOK, SectionOK, Txns, Files
  <2> QED
    BY <1>1, <1>3, <1>7, <2>1 DEF DataOK, SectionOK, Places, CallsOK, CountsOK, HistoryOK
<1>9. Shape' /\ Owes'
  BY <1>1, <1>2, <1>7 DEF Shape, Owes, Intact
<1>10. Saving'
  <2>1. ReadBoth(s)'
    BY <1>1, <1>2, <1>3, <1>6 DEF ReadBoth, Intact
  <2>2. Forward' /\ Backward'
    BY <1>1, <1>2, <1>3, <1>6 DEF Forward, Backward
  <2> QED
    BY <1>1, <2>1, <2>2 DEF Saving
<1>11. Served'
  BY <1>1, <1>2, <1>7 DEF Served
<1>12. Followed'
  BY <1>1, <1>2, <1>7 DEF Followed, Due, Agree, process
<1> QED
  BY <1>8, <1>9, <1>10, <1>11, <1>12

LEMMA UndoesJsonKeeps ==
  ASSUME Inv, NEW s \in Saves, SaveUndoesJson(s)
  PROVE  Inv'
<1> USE DEF Inv, Types, process, calls, history
<1>1. /\ UNCHANGED <<cfg, mem, lock, process, calls, history, who>> /\ who = s
      /\ at = "undoJson" /\ at' = "release"
      /\ UNCHANGED <<edits, crashes>> /\ faults' \in 0..MaxFaults
  BY SyncAssumption DEF SaveUndoesJson, In, Goto, Fault, NoFault, bounds, CountsOK, SyncAssumption
<1>2. ReadBoth(s) /\ Forward /\ Backward /\ s # Nobody /\ s # "sync" /\ phase = "up"
  BY <1>1, InMiddle
<1>3. json' = json
  BY <1>1, <1>2 DEF SaveUndoesJson, ReadBoth, Forward
<1>4. /\ txn' \in Txns
      /\ txn'.cfg0 = txn.cfg0 /\ txn'.json0 = txn.json0 /\ txn'.text = txn.text
      /\ txn'.merged = txn.merged /\ txn'.jsonBackup = txn.jsonBackup
      /\ txn'.cfgBackup = txn.cfgBackup /\ txn'.backedUp = txn.backedUp
      /\ txn'.err \in {txn.err, "incomplete"}
  BY <1>1, <1>2 DEF SaveUndoesJson, SectionOK, Txns
<1>5. Types'
  BY <1>1, <1>3, <1>4 DEF DataOK, SectionOK, Places, CallsOK, CountsOK, HistoryOK
<1>6. Shape' /\ Owes'
  BY <1>1, <1>2 DEF Shape, Owes, Intact
<1>7. Saving'
  <2>1. ReadBoth(s)'
    BY <1>1, <1>2, <1>4 DEF ReadBoth, Intact
  <2>2. Forward' /\ Backward'
    BY <1>1, <1>2, <1>3, <1>4 DEF Forward, Backward
  <2> QED
    BY <1>1, <2>1, <2>2 DEF Saving
<1>8. Served' /\ Followed'
  BY <1>1, <1>2, <1>3 DEF Served, Followed, Due, Agree
<1> QED
  BY <1>5, <1>6, <1>7, <1>8

LEMMA CommitsKeep ==
  ASSUME Inv, NEW s \in Saves, SaveCommits(s) \/ SaveCleanupFails(s)
  PROVE  Inv'
<1> USE DEF Inv, Types, process, calls, disk
<1>1. /\ UNCHANGED <<disk, lock, process, calls, owed, edited, missed, who>> /\ who = s
      /\ at = "cleanup" /\ at' = "release"
      /\ UNCHANGED <<edits, crashes>> /\ faults' \in 0..MaxFaults
  BY SyncAssumption
     DEF SaveCommits, SaveCleanupFails, In, Goto, Fails, Fault, NoFault, bounds, CountsOK, SyncAssumption
<1>2. ReadBoth(s) /\ Forward /\ Backward /\ s # Nobody /\ s # "sync" /\ phase = "up"
  BY <1>1, InMiddle
<1>3. /\ txn' \in Txns
      /\ txn'.cfg0 = txn.cfg0 /\ txn'.json0 = txn.json0 /\ txn'.text = txn.text
      /\ txn'.merged = txn.merged /\ txn'.jsonBackup = txn.jsonBackup
      /\ txn'.cfgBackup = txn.cfgBackup /\ txn'.backedUp = txn.backedUp
      /\ \/ txn' = txn /\ txn'.err = "none" /\ mem' = txn.merged
         \/ txn'.err = "cleanup" /\ mem' = mem /\ split' = TRUE
  BY <1>1, <1>2 DEF SaveCommits, SaveCleanupFails, Fails, Forward, SectionOK, Txns
<1>4. HistoryOK'
  <2>1. split' \in BOOLEAN
    BY Zenon DEF SaveCommits, SaveCleanupFails
  <2> QED
    BY <1>1, <2>1 DEF HistoryOK
<1>5. Types'
  BY <1>1, <1>2, <1>3, <1>4 DEF DataOK, SectionOK, Places, CallsOK, CountsOK, ReadBoth
<1>6. Shape' /\ Owes'
  BY <1>1, <1>2 DEF Shape, Owes, Intact
<1>7. Saving'
  <2>1. ReadBoth(s)'
    BY <1>1, <1>2, <1>3 DEF ReadBoth, Intact
  <2>2. Forward' /\ Backward'
    BY <1>1, <1>2, <1>3 DEF Forward, Backward
  <2> QED
    BY <1>1, <2>1, <2>2 DEF Saving
<1>8. Served'
  BY <1>1, <1>2, <1>3 DEF Served, Forward
<1>9. Followed'
  BY <1>1, <1>2 DEF Followed, Due, Agree
<1> QED
  BY <1>5, <1>6, <1>7, <1>8, <1>9

\* Leaving a section, of a save or of a sync.
LEMMA LeaveFacts ==
  ASSUME Inv, Leave, who # Nobody
  PROVE  /\ SectionOK' /\ who' = Nobody /\ at' = "idle" /\ txn' = NoTxn /\ lock' # "held"
         /\ UNCHANGED <<edits, crashes>> /\ faults' \in 0..MaxFaults
  BY SyncAssumption, NoTxnFacts
     DEF Inv, Types, Leave, Fault, NoFault, bounds, CountsOK, SectionOK, Places, SyncAssumption

\* What is promised from now on is in incus.cfg.
LEMMA PromisesKept ==
  ASSUME Inv, NEW s \in Saves, who = s, at = "release", Promises(s), UNCHANGED <<cfg, edited>>
  PROVE  /\ owed' \in Contents
         /\ edited => \A k \in Keys : owed'[k] = Unset
         /\ \A k \in Keys : owed'[k] # Unset => cfg # Missing /\ cfg[k] = owed'[k]
<1> USE SyncAssumption DEF Inv, Types, Promises, Touched, SyncAssumption
<1>1. owed \in Contents /\ Input[s] \in Contents
  BY DEF DataOK
<1>2. owed' \in Contents
  BY <1>1 DEF Contents
<1>3. edited => \A k \in Keys : owed'[k] = Unset
  BY DEF Owes
<1>4. ASSUME NEW k \in Keys, owed'[k] # Unset PROVE cfg # Missing /\ cfg[k] = owed'[k]
  <2>1. ~edited
    BY <1>3, <1>4
  <2>2. CASE FoundNone
    BY <1>4, <2>2 DEF FoundNone, Intact
  <2>3. CASE ReadBoth(s) /\ Backward
    <3>1. cfg \in {txn.cfg0, txn.text} /\ txn.cfg0 \in Contents /\ txn.text = Merge(txn.cfg0, Input[s])
      BY <2>1, <2>3 DEF ReadBoth
    <3>2. cfg # Missing
      BY <1>1, <3>1, ContentsFacts
    <3>3. owed[k] # Unset => txn.cfg0[k] = owed[k]
      BY <1>4, <2>3 DEF ReadBoth, Intact
    <3>4. CASE k \notin Touched(s)
      BY <1>1, <1>4, <3>1, <3>2, <3>3, <3>4 DEF Merge
    <3>5. CASE k \in Touched(s) /\ txn.err = "failed"
      BY <1>4, <2>1, <2>3, <3>2, <3>3, <3>5 DEF Backward
    <3>6. CASE k \in Touched(s) /\ txn.err # "failed"
      <4>1. txn.err = "none" /\ owed'[k] = Input[s][k]
        BY <1>4, <3>6
      <4>2. cfg = txn.text
        BY <2>1, <2>3, <4>1 DEF Backward
      <4> QED
        BY <3>1, <3>2, <3>6, <4>1, <4>2 DEF Merge
    <3> QED
      BY <3>4, <3>5, <3>6
  <2> QED
    BY <2>2, <2>3 DEF Saving
<1> QED
  BY <1>2, <1>3, <1>4

LEMMA SaveReleasesKeeps ==
  ASSUME Inv, NEW s \in Saves, SaveReleases(s)
  PROVE  Inv'
<1> USE DEF Inv, Types, process, disk
<1>1. /\ UNCHANGED <<disk, mem, process, tries, edited, missed, split>>
      /\ who = s /\ at = "release" /\ s # Nobody /\ s # "sync" /\ Leave
  BY SyncAssumption DEF SaveReleases, In, SyncAssumption
<1>2. /\ SectionOK' /\ who' = Nobody /\ at' = "idle" /\ txn' = NoTxn /\ lock' # "held"
      /\ UNCHANGED <<edits, crashes>> /\ faults' \in 0..MaxFaults
  BY <1>1, LeaveFacts
<1>3. /\ owed' \in Contents
      /\ edited => \A k \in Keys : owed'[k] = Unset
      /\ \A k \in Keys : owed'[k] # Unset => cfg # Missing /\ cfg[k] = owed'[k]
  BY <1>1, PromisesKept DEF SaveReleases
<1>4. Types'
  <2>1. reply' \in [Saves -> {"idle", "trying", "running", "saved", "failed", "lost"}]
    BY DEF SaveReleases, Answer, CallsOK
  <2> QED
    BY <1>1, <1>2, <1>3, <2>1 DEF DataOK, CallsOK, CountsOK, HistoryOK
<1>5. Shape' /\ Owes'
  <2>1. Shape'
    BY <1>1, <1>2, SyncAssumption DEF Shape, SyncAssumption
  <2>2. Owes'
    BY <1>1, <1>3, Zenon DEF Owes, Intact
  <2> QED
    BY <2>1, <2>2
<1>6. Saving'
  BY <1>2, SyncAssumption DEF Saving, SyncAssumption
<1>7. Served' /\ Followed'
  BY <1>1, <1>2 DEF Served, Followed, Due, Agree
<1> QED
  BY <1>4, <1>5, <1>6, <1>7

LEMMA SaveStepKeeps ==
  ASSUME Inv, NEW s \in Saves, SaveStep(s)
  PROVE  Inv'
  BY ReadsKeep, BackupKeeps, InstallsKeep, InstallFailsKeeps, UndoesCfgKeeps, UndoesJsonKeeps,
     CommitsKeep, SaveReleasesKeeps DEF SaveStep

-------------------------------------------------------------------------------
(* Syncs *)

\* A sync leaves incus.cfg and what is owed alone.
LEMMA SyncStepKeeps ==
  ASSUME Inv, SyncStep
  PROVE  Inv'
<1> USE SyncAssumption DEF Inv, Types, SyncStep, In, SyncAssumption
<1>1. /\ who = "sync" /\ "sync" \notin Saves /\ "sync" # Nobody
      /\ UNCHANGED <<cfg, phase, watch, pending, tries, reply, owed, edited>>
      /\ UNCHANGED <<edits, crashes>> /\ faults' \in 0..MaxFaults
      /\ who' \in {"sync", Nobody}
  BY DEF SyncReads, SyncWrites, SyncWriteFails, SyncReleases, Leave, Goto, Fault, NoFault,
         bounds, disk, process, calls, history, CountsOK
<1>2. CallsOK' /\ CountsOK' /\ Owes' /\ Saving'
  <2>1. CallsOK' /\ CountsOK'
    BY <1>1 DEF CallsOK, CountsOK
  <2>2. Owes' /\ Saving'
    BY <1>1 DEF Owes, Saving, Intact
  <2> QED
    BY <2>1, <2>2
<1>3. CASE SyncReads
  <2>1. /\ UNCHANGED <<json, mem, lock, split>> /\ who' = "sync" /\ txn = NoTxn /\ at = "granted"
        /\ \/ cfg = Missing /\ at' = "release" /\ txn' = NoTxn /\ missed' = missed
           \/ /\ cfg # Missing /\ at' = "write" /\ missed' = FALSE
              /\ txn' = [NoTxn EXCEPT !.merged = Read(cfg)]
    BY <1>1, <1>3 DEF SyncReads, Goto, disk, Shape
  <2>2. cfg # Missing => cfg \in Contents /\ Read(cfg) \in Contents
    BY ContentsFacts DEF DataOK, Files
  <2>3. txn' \in Txns /\ (at' = "write" => txn'.merged \in Contents /\ txn'.merged = Read(cfg))
    BY <2>1, <2>2, NoTxnFacts DEF NoTxn, Txns, Files
  <2>4. missed' \in BOOLEAN
    BY <1>3, Zenon DEF SyncReads, HistoryOK
  <2>5. Types'
    BY <1>1, <1>2, <2>1, <2>3, <2>4 DEF DataOK, SectionOK, Places, HistoryOK
  <2>6. Shape' /\ Served' /\ Followed'
    BY <1>1, <2>1, <2>3 DEF Shape, Served, Followed, Due, Agree
  <2> QED
    BY <1>2, <2>5, <2>6
<1>4. CASE SyncWrites
  <2>1. /\ UNCHANGED <<lock, missed, txn>> /\ who' = "sync" /\ at = "write" /\ at' = "release"
        /\ txn.merged \in Contents
    BY <1>1, <1>4 DEF SyncWrites, Goto, Shape
  <2>2. /\ json' \in Files /\ mem' \in Contents /\ split' \in BOOLEAN
        /\ ~Differs(json', txn.merged)
        /\ \/ UNCHANGED <<json, mem, split>>
           \/ mem' = json'
    <3>1. CASE Differs(json, txn.merged)
      <4>1. json' = Merge(OrEmpty(json), txn.merged) /\ mem' = json' /\ split' = FALSE
        BY <1>4, <3>1 DEF SyncWrites
      <4>2. OrEmpty(json) \in Contents
        BY ContentsFacts DEF DataOK
      <4>3. json' \in Contents /\ ~Differs(json', txn.merged)
        BY <2>1, <4>1, <4>2, ContentsFacts, MergeAgrees
      <4>4. split' \in BOOLEAN
        BY <4>1, Zenon
      <4> QED
        BY <4>1, <4>3, <4>4 DEF Files
    <3>2. CASE ~Differs(json, txn.merged)
      BY <1>4, <3>2 DEF SyncWrites, DataOK, HistoryOK
    <3> QED
      BY <3>1, <3>2
  <2>3. Types'
    BY <1>1, <1>2, <2>1, <2>2 DEF DataOK, SectionOK, Places, HistoryOK
  <2>4. Shape'
    BY <1>1, <2>1 DEF Shape
  <2>5. Served'
    BY <1>1, <2>1, <2>2 DEF Served
  <2>6. Followed'
    <3>1. CASE txn.merged = Read(cfg)
      BY <1>1, <2>1, <2>2, <3>1 DEF Followed, Agree
    <3>2. CASE txn.merged # Read(cfg)
      BY <1>1, <2>1, <3>2 DEF Followed, Due
    <3> QED
      BY <3>1, <3>2
  <2> QED
    BY <1>2, <2>3, <2>4, <2>5, <2>6
<1>5. CASE SyncWriteFails
  <2>1. /\ UNCHANGED <<json, mem, lock, split, txn>> /\ who' = "sync" /\ at' = "release"
        /\ missed' = TRUE
    BY <1>1, <1>5 DEF SyncWriteFails, Goto, disk
  <2>2. missed' \in BOOLEAN
    BY <2>1, Zenon
  <2>3. Types'
    BY <1>1, <1>2, <2>1, <2>2 DEF DataOK, SectionOK, Places, HistoryOK
  <2>4. Shape' /\ Served' /\ Followed'
    BY <1>1, <2>1 DEF Shape, Served, Followed
  <2> QED
    BY <1>2, <2>3, <2>4
<1>6. CASE SyncReleases
  <2>1. UNCHANGED <<json, mem, missed, split>> /\ at = "release" /\ Leave
    BY <1>6 DEF SyncReleases, disk, history
  <2>2. SectionOK' /\ who' = Nobody /\ at' = "idle" /\ txn' = NoTxn /\ lock' # "held"
    BY <1>1, <2>1, LeaveFacts
  <2>3. Types'
    BY <1>1, <1>2, <2>1, <2>2 DEF DataOK, HistoryOK
  <2>4. Shape' /\ Served' /\ Followed'
    BY <1>1, <2>1, <2>2 DEF Shape, Served, Followed, Due, Agree
  <2> QED
    BY <1>2, <2>3, <2>4
<1> QED
  BY <1>3, <1>4, <1>5, <1>6

-------------------------------------------------------------------------------
(* The watcher and the process *)

\* A sync that begins will read incus.cfg, unless there is none or it is missed.
LEMMA BeginsFacts ==
  ASSUME Inv, SyncBegins, who = Nobody
  PROVE  /\ SectionOK' /\ missed' \in BOOLEAN /\ txn' = NoTxn /\ who' \in {"sync", Nobody}
         /\ at' = IF who' = Nobody THEN "idle" ELSE "granted"
         /\ who' = Nobody <=> lock' # "held"
         /\ who' = Nobody => cfg = Missing \/ missed'
         /\ UNCHANGED <<edits, crashes>> /\ faults' \in 0..MaxFaults
<1> USE SyncAssumption DEF Inv, Types, SyncAssumption, bounds, NoFault
<1>1. at = "idle" /\ txn = NoTxn /\ lock # "held" /\ missed \in BOOLEAN
  BY DEF Shape, HistoryOK
<1>2. CASE cfg = Missing /\ NoFault /\ UNCHANGED <<lock, section, missed>>
  BY <1>1, <1>2 DEF section, SectionOK, CountsOK
<1>3. CASE cfg # Missing /\ Grant("sync") /\ UNCHANGED missed
  BY <1>1, <1>3, NoTxnFacts DEF Grant, SectionOK, Places, CountsOK
<1>4. CASE /\ cfg # Missing /\ missed' = TRUE
           /\ \/ ~Available /\ NoFault /\ UNCHANGED <<lock, section>>
              \/ GrantFails
  <2>1. missed' \in BOOLEAN /\ missed'
    BY <1>4, Zenon
  <2>2. /\ UNCHANGED <<section, edits, crashes>> /\ lock' \in {"free", "orphan", "stale"}
        /\ faults' \in 0..MaxFaults
    BY <1>1, <1>4 DEF GrantFails, Fault, SectionOK, CountsOK
  <2> QED
    BY <1>1, <2>1, <2>2 DEF section, SectionOK
<1> QED
  BY <1>2, <1>3, <1>4 DEF SyncBegins

LEMMA TimersKeep ==
  ASSUME Inv, RearmFires \/ ChangeFires
  PROVE  Inv'
<1> USE SyncAssumption DEF Inv, Types, RearmFires, ChangeFires, disk, calls, SyncAssumption
<1>1. /\ UNCHANGED <<cfg, json, mem, phase, tries, reply, owed, edited, split>>
      /\ who = Nobody /\ SyncBegins /\ phase = "up"
      /\ watch' \in {"armed", "rearming", "off"} /\ pending' \in 0..pending
  BY DEF Shape, CountsOK, CallsOK
<1>2. /\ SectionOK' /\ missed' \in BOOLEAN /\ txn' = NoTxn /\ who' \in {"sync", Nobody}
      /\ at' = IF who' = Nobody THEN "idle" ELSE "granted"
      /\ who' = Nobody <=> lock' # "held"
      /\ who' = Nobody => cfg = Missing \/ missed'
      /\ UNCHANGED <<edits, crashes>> /\ faults' \in 0..MaxFaults
  BY <1>1, BeginsFacts
<1>3. Types'
  BY <1>1, <1>2 DEF DataOK, CallsOK, CountsOK, HistoryOK
<1>4. Shape'
  BY <1>1, <1>2 DEF Shape, CountsOK
<1>5. Owes' /\ Saving'
  BY <1>1, <1>2 DEF Owes, Intact, Saving
<1>6. Served' /\ Followed'
  BY <1>1, <1>2 DEF Served, Followed, Agree
<1> QED
  BY <1>3, <1>4, <1>5, <1>6

LEMMA BootKeeps ==
  ASSUME Inv, Boot
  PROVE  Inv'
<1> USE SyncAssumption DEF Inv, Types, Boot, disk, calls, SyncAssumption
<1>1. /\ UNCHANGED <<cfg, json, watch, pending, tries, reply, owed, edited>>
      /\ who = Nobody /\ SyncBegins /\ phase' = "init" /\ watch = "off" /\ pending = 0
  BY DEF Shape
<1>2. /\ SectionOK' /\ missed' \in BOOLEAN /\ txn' = NoTxn /\ who' \in {"sync", Nobody}
      /\ at' = IF who' = Nobody THEN "idle" ELSE "granted"
      /\ who' = Nobody <=> lock' # "held"
      /\ who' = Nobody => cfg = Missing \/ missed'
      /\ UNCHANGED <<edits, crashes>> /\ faults' \in 0..MaxFaults
  BY <1>1, BeginsFacts
<1>3. mem' \in Contents
  BY ContentsFacts DEF DataOK, Files
<1>4. split' \in BOOLEAN
  BY Zenon
<1>5. Types'
  BY <1>1, <1>2, <1>3, <1>4 DEF DataOK, CallsOK, CountsOK, HistoryOK
<1>6. Shape'
  BY <1>1, <1>2 DEF Shape
<1>7. Owes' /\ Saving'
  BY <1>1, <1>2 DEF Owes, Intact, Saving
<1>8. Served' /\ Followed'
  BY <1>1, <1>2 DEF Served, Followed, Agree
<1> QED
  BY <1>5, <1>6, <1>7, <1>8

LEMMA ReadyKeeps ==
  ASSUME Inv, Ready
  PROVE  Inv'
<1> USE SyncAssumption DEF Inv, Types, Ready, disk, section, calls, bounds, history, SyncAssumption
<1>1. Types'
  BY DEF DataOK, SectionOK, CallsOK, CountsOK, HistoryOK
<1>2. Shape' /\ Owes' /\ Saving'
  BY DEF Shape, Owes, Intact, Saving
<1>3. Served' /\ Followed'
  BY DEF Shape, Served, Followed, Due, Agree
<1> QED
  BY <1>1, <1>2, <1>3

LEMMA CrashKeeps ==
  ASSUME Inv, Crash
  PROVE  Inv'
<1> USE SyncAssumption DEF Inv, Types, Crash, disk, SyncAssumption
<1>1. /\ UNCHANGED <<cfg, json, mem, tries, edited, missed, split, edits, faults>>
      /\ phase' = "down" /\ watch' = "off" /\ pending' = 0
      /\ who' = Nobody /\ at' = "idle" /\ txn' = NoTxn /\ lock' # "held"
      /\ lock' \in {"free", "orphan", "stale"} /\ crashes' \in 0..MaxCrashes
  BY DEF CountsOK, SectionOK
<1>2. owed' \in Contents /\ \A k \in Keys : owed'[k] \in {owed[k], Unset}
  BY DEF DataOK, Contents
<1>3. reply' \in [Saves -> {"idle", "trying", "running", "saved", "failed", "lost"}]
  BY DEF CallsOK
<1>4. Types'
  BY <1>1, <1>2, <1>3, NoTxnFacts DEF DataOK, SectionOK, Places, CallsOK, CountsOK, HistoryOK
<1>5. Shape'
  BY <1>1 DEF Shape, CountsOK
<1>6. Intact(cfg)'
  <2> SUFFICES ASSUME NEW k \in Keys, owed'[k] # Unset
               PROVE  cfg # Missing /\ cfg[k] = owed'[k]
    BY <1>1, Zenon DEF Intact
  <2>1. /\ ~edited /\ owed'[k] = owed[k] /\ owed[k] # Unset
        /\ who \in Saves => k \notin Touched(who)
    BY <1>2 DEF Owes
  <2>2. CASE who \notin Saves \/ at = "granted" \/ FoundNone
    BY <2>1, <2>2 DEF Owes, FoundNone, Intact
  <2>3. CASE who \in Saves /\ ReadBoth(who)
    <3>1. /\ cfg \in {txn.cfg0, txn.text} /\ txn.cfg0[k] = owed[k]
          /\ txn.cfg0 \in Contents /\ txn.text = Merge(txn.cfg0, Input[who])
      BY <2>1, <2>3 DEF ReadBoth, Intact
    <3>2. cfg # Missing
      BY <2>3, <3>1, ContentsFacts
    <3> QED
      BY <2>1, <2>3, <3>1, <3>2 DEF Merge, Touched
  <2> QED
    BY <2>2, <2>3 DEF Saving
<1>7. Owes' /\ Saving'
  BY <1>1, <1>2, <1>6 DEF Owes, Saving
<1>8. Served' /\ Followed'
  BY <1>1 DEF Served, Followed
<1> QED
  BY <1>4, <1>5, <1>7, <1>8

LEMMA ExpireKeeps ==
  ASSUME Inv, Expire
  PROVE  Inv'
<1> USE DEF Inv, Types, Expire, disk, process, section, calls, bounds, history
<1>1. Types'
  BY DEF DataOK, SectionOK, CallsOK, CountsOK, HistoryOK
<1>2. Shape'
  BY DEF Shape
<1>3. Owes' /\ Saving'
  BY DEF Owes, Saving, Intact, FoundNone, ReadBoth, Forward, Backward, Due
<1>4. Served' /\ Followed'
  BY DEF Served, Followed, Due, Agree
<1> QED
  BY <1>1, <1>2, <1>3, <1>4

-------------------------------------------------------------------------------
(* The administrator *)

\* After an edit nothing is owed; it is missed, or followed by a timer.
LEMMA EditKeeps ==
  ASSUME Inv, EditInPlace \/ EditReplaces \/ Remove
  PROVE  Inv'
<1> USE SyncAssumption DEF Inv, Types, SyncAssumption
<1>1. /\ UNCHANGED <<json, mem, lock, who, at, txn, tries, reply, split, phase, faults, crashes>>
      /\ edits < MaxEdits /\ edits' = edits + 1 /\ edited' = TRUE
      /\ owed' = [k \in Keys |-> Unset] /\ missed' = (missed \/ (watch = "off" /\ phase # "down"))
      /\ Edit
  BY DEF EditInPlace, EditReplaces, Remove, Edit, section, calls
<1>2. cfg' \in Files
  BY DEF EditInPlace, EditReplaces, Remove, Files
<1>3. /\ watch' \in {"armed", "rearming", "off"} /\ pending' \in 0..(pending + 1)
      /\ watch = "off" => watch' = "off" /\ pending' = pending
      /\ watch # "off" => Due'
      /\ Due => Due'
  BY DEF EditInPlace, EditReplaces, Remove, Replaced, CallsOK, CountsOK, Due
<1>4. HistoryOK'
  <2>1. edited' \in BOOLEAN /\ missed' \in BOOLEAN
    BY <1>1, Zenon DEF HistoryOK
  <2> QED
    BY <1>1, <2>1 DEF HistoryOK
<1>5. DataOK' /\ SectionOK' /\ CallsOK'
  BY <1>1, <1>2, <1>3 DEF DataOK, SectionOK, CallsOK, Contents
<1>6. CountsOK' /\ Shape'
  BY <1>1, <1>3 DEF CountsOK, Shape
<1>7. Owes'
  BY <1>1 DEF Owes, Intact
<1>8. Saving'
  <2>1. FoundNone => FoundNone'
    BY <1>1 DEF FoundNone, Intact
  <2>2. ASSUME NEW s \in Saves, ReadBoth(s), Forward, Backward
        PROVE  ReadBoth(s)' /\ Forward' /\ Backward'
    <3>1. ReadBoth(s)'
      BY <1>1, <2>2 DEF ReadBoth, Intact
    <3>2. Forward'
      BY <1>1, <1>3, <2>2 DEF Forward
    <3>3. Backward'
      BY <1>1, <2>2 DEF Backward
    <3> QED
      BY <3>1, <3>2, <3>3
  <2> QED
    BY <1>1, <2>1, <2>2 DEF Saving
<1>9. Served'
  BY <1>1 DEF Served
<1>10. Followed'
  BY <1>1, <1>3 DEF Followed, Shape
<1> QED
  BY <1>4, <1>5, <1>6, <1>7, <1>8, <1>9, <1>10

-------------------------------------------------------------------------------
(* The invariant and what it gives *)

LEMMA InvInductive == Inv /\ [Next]_vars => Inv'
<1> SUFFICES ASSUME Inv, [Next]_vars PROVE Inv'
  OBVIOUS
<1>1. CASE UNCHANGED vars
  <2> USE <1>1 DEF Inv, Types, vars, disk, process, section, calls, bounds, history
  <2>1. Types'
    BY DEF DataOK, SectionOK, CallsOK, CountsOK, HistoryOK
  <2>2. Shape'
    BY DEF Shape
  <2>3. Owes' /\ Saving'
    BY DEF Owes, Saving, Intact, FoundNone, ReadBoth, Forward, Backward, Due
  <2>4. Served' /\ Followed'
    BY DEF Served, Followed, Due, Agree
  <2> QED
    BY <2>1, <2>2, <2>3, <2>4
<1>2. CASE \E s \in Saves : SaveAsks(s) \/ SaveStep(s)
  BY <1>2, AskKeeps, SaveStepKeeps
<1>3. CASE SyncStep \/ RearmFires \/ ChangeFires
  BY <1>3, SyncStepKeeps, TimersKeep
<1>4. CASE Boot \/ Ready \/ Crash \/ Expire
  BY <1>4, BootKeeps, ReadyKeeps, CrashKeeps, ExpireKeeps
<1>5. CASE EditInPlace \/ EditReplaces \/ Remove
  BY <1>5, EditKeeps
<1> QED
  BY <1>1, <1>2, <1>3, <1>4, <1>5 DEF Next

LEMMA AlwaysInv == Spec => []Inv
<1>1. Init => Inv
  BY InitInv
<1>2. Inv /\ [Next]_vars => Inv'
  BY InvInductive
<1> QED
  BY <1>1, <1>2, PTL DEF Spec

\* Every value keeps its type, every counter its bound, and no save asks for
\* the lock more often than CFG_LOCK_MAX_RETRIES allows.
THEOREM SyncTypes == Spec => []TypeOK
<1>1. Inv => TypeOK
  BY TypesAreTypeOK DEF Inv
<1> QED
  BY <1>1, AlwaysInv, PTL

\* No acknowledged save is lost: between sections incus.cfg has every value a
\* save was acknowledged for that no edit and no other save has replaced,
\* whatever saves failed, rollbacks, syncs and crashes came after it.
THEOREM SavesLast == Spec => []NoLostSave
<1>1. Inv => NoLostSave
  BY SyncAssumption DEF Inv, Owes, Intact, NoLostSave, SyncAssumption
<1> QED
  BY <1>1, AlwaysInv, PTL

\* A save that ends with a plain error has put both files back (writeConfigPair),
\* at whichever call it failed, unless incus.cfg was edited meanwhile.
THEOREM FailuresRestore == Spec => []FailedSaveRestores
<1>1. Inv => FailedSaveRestores
  BY DEF Inv, Saving, FoundNone, Backward, FailedSaveRestores, In
<1> QED
  BY <1>1, AlwaysInv, PTL

\* At rest the two files agree unless a change was missed, and the value served
\* is the persisted one unless a save failed after both were installed.
THEOREM RestAgrees == Spec => []RestAgreement
<1>1. Inv => RestAgreement
  <2> SUFFICES ASSUME Inv PROVE RestAgreement
    OBVIOUS
  <2> USE SyncAssumption DEF Inv, SyncAssumption
  <2>1. AtRest /\ ~missed /\ cfg # Missing => ~Differs(json, Read(cfg))
    BY DEF AtRest, Followed, Due, Agree
  <2>2. phase = "up" /\ who = Nobody /\ json # Missing /\ ~split => mem = json
    BY DEF Served
  <2> QED
    BY <2>1, <2>2 DEF RestAgreement
<1> QED
  BY <1>1, AlwaysInv, PTL
===============================================================================
