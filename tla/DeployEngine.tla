---------------------------- MODULE DeployEngine ----------------------------
(***************************************************************************)
(* The crash-safe deploy engine of NexTwist: crates/deploy/src/engine.rs,  *)
(* journal.rs, backup.rs and method.rs, over the three store tables they   *)
(* write (op_journal, deployed_file, vanilla_backup).                      *)
(*                                                                         *)
(* A file operation and the row that records it cannot be made atomic, so  *)
(* every durable write of the engine (one SQLite statement, one file       *)
(* operation) is a step of its own here, and a crash or an error return    *)
(* may fall between any two of them.                                       *)
(***************************************************************************)
EXTENDS Integers, Sequences, FiniteSets

CONSTANTS
  NumTargets,  \* the Data/-rooted relpaths are 1 .. NumTargets, in ORDER BY order
  Mod,         \* staged mods; a mod's name also stands for the bytes it ships
  Local,       \* the mod whose tree is the staging root itself (a local archive), or None
  Vanilla,     \* bytes that Steam or the user put into the game folder
  Torn,        \* what an interrupted, non-atomic file copy leaves behind
  Absent,      \* no file at a path
  None,        \* no row / no operation
  Dir,         \* directories below the deploy root
  DirOf,       \* the directory of each target (DataRoot: directly in Data/)
  DataRoot,
  VanillaDirs, \* directories the game ships whether or not they hold a file
  Faults,      \* the faults that may occur (a subset of AllFaults)
  MaxFaults,   \* BOUND: fault events in one behaviour
  MaxPending   \* BOUND: op_journal rows that may be pending when a command starts

Target == 1 .. NumTargets
Bytes  == Mod \cup Vanilla \cup {Torn}

AllFaults == {"crash", "torn_backup", "torn_place", "torn_restore",
              "fail_file", "fail_commit", "fail_recovery",
              "write", "delete", "touch_pending", "touch_managed",
              "unstage", "lose_blob"}

ASSUME TargetAssumption == NumTargets \in Nat \ {0}
ASSUME BoundAssumption  == MaxFaults \in Nat /\ MaxPending \in Nat
ASSUME FaultAssumption  == Faults \subseteq AllFaults
ASSUME DirAssumption    == /\ DirOf \in [Target -> Dir \cup {DataRoot}]
                           /\ DataRoot \notin Dir
                           /\ VanillaDirs \subseteq Dir
ASSUME NameAssumption   == /\ Absent \notin Bytes \cup {None}
                           /\ None \notin Bytes
                           /\ Torn \notin Mod \cup Vanilla

(* One pending op_journal row, and one deployed_file row.                  *)
Row   == [kind : {"deploy"}, target : Target, src : Mod]
           \cup [kind : {"purge"}, target : Target, src : {None}]
Entry == [hash : Mod, source_mod : Mod \cup {None}]

ASSUME NoneAssumption   == None \notin Row \cup Entry
ASSUME LocalAssumption  == Local \in Mod \cup {None}

VARIABLES
  disk,      \* [Target -> Bytes or Absent]: the game's Data/ tree
  dirs,      \* directories that exist below the deploy root
  manifest,  \* deployed_file: the row of a target, or None
  ledger,    \* vanilla_backup: the hash recorded for a target, or None
  blob,      \* the originals store: state of the blob stored under each hash
  staged,    \* <<mod, target>> pairs whose staged source is a file
  journal,   \* the pending rows of op_journal, oldest first
  phase,     \* which engine loop is running
  pc,        \* the next durable write of that loop
  cur,       \* the journal row being executed
  todo,      \* targets the loop has still to visit
  plan,      \* the winner set the running command was given
  gone,      \* targets whose directories the loop will try to clean up
  orig,      \* history: what Steam or the user last left at a target
  origDirs,  \* history: directories that are not NexTwist's doing
  faults     \* history: fault events so far

durable  == <<disk, dirs, manifest, ledger, blob, staged, journal>>
volatile == <<phase, pc, cur, todo, plan, gone>>
history  == <<orig, origDirs, faults>>
vars     == <<durable, volatile, history>>

Phase == {"down", "idle", "purge", "deploy", "replay"}
Step  == {"next", "backup", "record", "place", "create", "manifest",
          "unlink", "restore", "drop", "mark"}
Plan  == [Target -> Mod \cup {None}]

NoPlan   == [t \in Target |-> None]
Managed  == {t \in Target : manifest[t] # None}
Pending(t) == \E i \in 1 .. Len(journal) : journal[i].target = t
First(S) == {t \in S : \A u \in S : t <= u}

TypeOK ==
  /\ disk \in [Target -> Bytes \cup {Absent}]
  /\ dirs \subseteq Dir
  /\ manifest \in [Target -> Entry \cup {None}]
  /\ ledger \in [Target -> Bytes \cup {None}]
  /\ blob \in [Bytes -> {"none", "torn", "whole"}]
  /\ staged \subseteq Mod \X Target
  /\ journal \in Seq(Row)
  /\ phase \in Phase
  /\ pc \in Step
  /\ cur \in Row \cup {None}
  /\ todo \subseteq Target
  /\ plan \in Plan
  /\ gone \subseteq Target
  /\ orig \in [Target -> Vanilla \cup {Absent}]
  /\ origDirs \subseteq Dir
  /\ faults \in 0 .. MaxFaults

-----------------------------------------------------------------------------
(* Control state.                                                          *)

\* The command is over (or has returned an error): the mutex is free again.
Return ==
  /\ phase' = "idle"
  /\ pc' = "next"
  /\ cur' = None
  /\ todo' = {}
  /\ plan' = NoPlan
  /\ gone' = {}

Goto(step) ==
  /\ pc' = step
  /\ UNCHANGED <<phase, cur, todo, plan, gone>>

\* begin_deploy / begin_purge: the durable intent, before any file operation.
BeginOp(row, step) ==
  /\ journal' = Append(journal, row)
  /\ cur' = row
  /\ pc' = step
  /\ todo' = todo \ {row.target}
  /\ UNCHANGED <<phase, plan, gone>>

\* A target's parent directories, strictly below the deploy root.
DirsOf(S) == {DirOf[t] : t \in S} \ {DataRoot}

\* remove_emptied_dirs: remove_dir refuses a directory that holds a file.
RemoveEmptiedDirs(S) ==
  dirs' = dirs \ {d \in DirsOf(S) : \A t \in Target : DirOf[t] = d => disk[t] = Absent}

Init ==
  /\ orig \in [Target -> Vanilla \cup {Absent}]
  /\ origDirs = VanillaDirs \cup DirsOf({t \in Target : orig[t] # Absent})
  /\ disk = orig
  /\ dirs = origDirs
  /\ manifest = [t \in Target |-> None]
  /\ ledger = [t \in Target |-> None]
  /\ blob = [h \in Bytes |-> "none"]
  /\ staged = Mod \X Target
  /\ journal = << >>
  /\ phase = "down"
  /\ pc = "next"
  /\ cur = None
  /\ todo = {}
  /\ plan = NoPlan
  /\ gone = {}
  /\ faults = 0

-----------------------------------------------------------------------------
(* Commands. Each runs to its end under the one state mutex, so no second  *)
(* command starts while a loop is running.                                 *)

\* deploy of the one tree at the staging root; a winner set is of the mods
\* that have a row, and so a root of their own.
SingleRoot(w) == \A t \in Target : w[t] \in {None, Local}
WinnerSet(w)  == \A t \in Target : w[t] = None \/ w[t] # Local

\* deploy / deploy_winners onto whatever is deployed now. An empty worklist
\* returns early.
StartDeploy(w) ==
  /\ phase = "idle" /\ Len(journal) < MaxPending
  /\ w # NoPlan
  /\ SingleRoot(w) \/ WinnerSet(w)
  /\ \A t \in Target : w[t] # None => <<w[t], t>> \in staged
  /\ phase' = "deploy"
  /\ plan' = w
  /\ todo' = {t \in Target : w[t] # None}
  /\ UNCHANGED <<pc, cur, gone, durable, history>>

\* purge (w = NoPlan) and redeploy_winners, which purges first.
StartPurge(w) ==
  /\ phase = "idle" /\ Len(journal) < MaxPending
  /\ WinnerSet(w)
  /\ \A t \in Target : w[t] # None => <<w[t], t>> \in staged
  /\ phase' = "purge"
  /\ plan' = w
  /\ todo' = Managed
  /\ gone' = Managed
  /\ UNCHANGED <<pc, cur, durable, history>>

\* A launch: recover_on_launch starts with the pending rows.
Launch ==
  /\ phase = "down"
  /\ phase' = "replay"
  /\ UNCHANGED <<pc, cur, todo, plan, gone, durable, history>>

Quit ==
  /\ phase = "idle"
  /\ phase' = "down"
  /\ UNCHANGED <<pc, cur, todo, plan, gone, durable, history>>

-----------------------------------------------------------------------------
(* The loops: deploy_winners, purge_inner and journal::replay.             *)

DeployNext ==
  /\ phase = "deploy" /\ pc = "next"
  /\ \E t \in First(todo) :
       /\ <<plan[t], t>> \in staged
       /\ BeginOp([kind |-> "deploy", target |-> t, src |-> plan[t]], "backup")
  /\ UNCHANGED <<disk, dirs, manifest, ledger, blob, staged, history>>

\* A winner whose source vanished since the resolver read it is skipped.
DeploySkip ==
  /\ phase = "deploy" /\ pc = "next"
  /\ \E t \in First(todo) :
       /\ <<plan[t], t>> \notin staged
       /\ todo' = todo \ {t}
  /\ UNCHANGED <<phase, pc, cur, plan, gone, durable, history>>

DeployEnd ==
  /\ phase = "deploy" /\ pc = "next" /\ todo = {}
  /\ Return
  /\ UNCHANGED <<durable, history>>

PurgeNext ==
  /\ phase = "purge" /\ pc = "next"
  /\ \E t \in First(todo) :
       BeginOp([kind |-> "purge", target |-> t, src |-> None], "unlink")
  /\ UNCHANGED <<disk, dirs, manifest, ledger, blob, staged, history>>

\* purge_inner's tail, then redeploy_winners goes on to deploy the winners.
PurgeEnd ==
  /\ phase = "purge" /\ pc = "next" /\ todo = {}
  /\ RemoveEmptiedDirs(gone)
  /\ IF plan = NoPlan
     THEN Return
     ELSE /\ phase' = "deploy"
          /\ todo' = {t \in Target : plan[t] # None}
          /\ gone' = {}
          /\ UNCHANGED <<pc, cur, plan>>
  /\ UNCHANGED <<disk, manifest, ledger, blob, staged, journal, history>>

\* MUTANTS of ReplayForward: recovery never backs up; always backs up what
\* is there, its own placement too; takes the placement for granted.
ReplayForwardNoBackup(row) ==
  /\ row.kind = "deploy"
  /\ <<row.src, row.target>> \in staged
  /\ pc' = "place"
  /\ gone' = gone

ReplayForwardBlindBackup(row) ==
  /\ row.kind = "deploy"
  /\ <<row.src, row.target>> \in staged
  /\ pc' = "backup"
  /\ gone' = gone

ReplayForwardTrusting(row) ==
  /\ row.kind = "deploy"
  /\ <<row.src, row.target>> \in staged
  /\ pc' = "manifest"
  /\ gone' = gone

\* replay_deploy's roll-forward: the staged source is still there.
ReplayForward(row) ==
  /\ row.kind = "deploy"
  /\ <<row.src, row.target>> \in staged
  /\ pc' = IF disk[row.target] = row.src THEN "place" ELSE "backup"
  /\ gone' = gone

\* MUTANTS of MustLeave: a roll-back always removes the target; it leaves
\* our own placement behind.
MustLeaveNothing(row) == FALSE

MustLeaveAnything(row) ==
  /\ disk[row.target] # Absent
  /\ ledger[row.target] = None
  /\ manifest[row.target] = None

\* Nothing here may safely be removed: the file is left and the row closed.
MustLeave(row) ==
  /\ disk[row.target] \notin {row.src, Absent}
  /\ ledger[row.target] = None
  /\ manifest[row.target] = None

ReplayLeave(row) ==
  /\ row.kind = "deploy"
  /\ <<row.src, row.target>> \notin staged
  /\ MustLeave(row)
  /\ pc' = "mark"
  /\ gone' = gone

\* replay_deploy's roll-back.
ReplayBack(row) ==
  /\ row.kind = "deploy"
  /\ <<row.src, row.target>> \notin staged
  /\ ~ MustLeave(row)
  /\ pc' = "unlink"
  /\ gone' = gone

\* MUTANT of ReplayPurge: recovery drops the rows without redoing the files.
ReplayPurgeRowsOnly(row) ==
  /\ row.kind = "purge"
  /\ pc' = "drop"
  /\ gone' = gone \cup {row.target}

\* replay_purge, which also hands the relpath to the directory cleanup.
ReplayPurge(row) ==
  /\ row.kind = "purge"
  /\ pc' = "unlink"
  /\ gone' = gone \cup {row.target}

ReplayNext ==
  /\ phase = "replay" /\ pc = "next" /\ journal # << >>
  /\ cur' = Head(journal)
  /\ \/ ReplayForward(Head(journal))
     \/ ReplayLeave(Head(journal))
     \/ ReplayBack(Head(journal))
     \/ ReplayPurge(Head(journal))
  /\ UNCHANGED <<phase, todo, plan, durable, history>>

ReplayEnd ==
  /\ phase = "replay" /\ pc = "next" /\ journal = << >>
  /\ RemoveEmptiedDirs(gone)
  /\ Return
  /\ UNCHANGED <<disk, manifest, ledger, blob, staged, journal, history>>

-----------------------------------------------------------------------------
(* The durable writes of one file.                                         *)

\* Is there a file here that NexTwist did not deploy?
IsForeign(t) == disk[t] # Absent /\ manifest[t] = None

\* backup_vanilla_if_absent: the copy into the content-addressed store ...
BackupCopy ==
  /\ pc = "backup" /\ IsForeign(cur.target)
  /\ blob' = [blob EXCEPT ![disk[cur.target]] = IF @ = "none" THEN "whole" ELSE @]
  /\ Goto("record")
  /\ UNCHANGED <<disk, dirs, manifest, ledger, staged, journal, history>>

BackupSkip ==
  /\ pc = "backup" /\ ~ IsForeign(cur.target)
  /\ Goto("place")
  /\ UNCHANGED <<durable, history>>

\* ... and record_vanilla, an upsert of the ledger row.
RecordVanilla ==
  /\ pc = "record"
  /\ ledger' = [ledger EXCEPT ![cur.target] = disk[cur.target]]
  /\ Goto("place")
  /\ UNCHANGED <<disk, dirs, manifest, blob, staged, journal, history>>

\* apply_idempotent: create the parent directories, remove what is there ...
PlaceRemove ==
  /\ pc = "place"
  /\ dirs' = dirs \cup DirsOf({cur.target})
  /\ disk' = [disk EXCEPT ![cur.target] = Absent]
  /\ Goto("create")
  /\ UNCHANGED <<manifest, ledger, blob, staged, journal, history>>

\* ... and create the placement from the staged source.
PlaceCreate ==
  /\ pc = "create" /\ <<cur.src, cur.target>> \in staged
  /\ disk' = [disk EXCEPT ![cur.target] = cur.src]
  /\ Goto("manifest")
  /\ UNCHANGED <<dirs, manifest, ledger, blob, staged, journal, history>>

PlaceFails ==
  /\ pc = "create" /\ <<cur.src, cur.target>> \notin staged
  /\ Return
  /\ UNCHANGED <<durable, history>>

\* finish_deploy's first statement. Replay does not know the mod id, and a
\* single-root deploy has none: both record 0.
RecordDeployed ==
  /\ pc = "manifest"
  /\ manifest' = [manifest EXCEPT ![cur.target] =
       [hash |-> cur.src,
        source_mod |-> IF phase = "replay" \/ cur.src = Local THEN None ELSE cur.src]]
  /\ Goto("mark")
  /\ UNCHANGED <<disk, dirs, ledger, blob, staged, journal, history>>

\* purge_inner, replay_purge and the roll-back: remove the placement ...
Unlink ==
  /\ pc = "unlink"
  /\ disk' = [disk EXCEPT ![cur.target] = Absent]
  /\ Goto("restore")
  /\ UNCHANGED <<dirs, manifest, ledger, blob, staged, journal, history>>

\* MUTANT of Restore: no early return when nothing was backed up.
RestoreUnchecked ==
  /\ pc = "restore"
  /\ dirs' = dirs \cup DirsOf({cur.target})
  /\ disk' = [disk EXCEPT ![cur.target] = ledger[cur.target]]
  /\ Goto("drop")
  /\ UNCHANGED <<manifest, ledger, blob, staged, journal, history>>

\* ... restore_vanilla ...
Restore ==
  /\ pc = "restore"
  /\ LET h == ledger[cur.target] IN
       /\ h # None
       /\ blob[h] # "none"
       /\ dirs' = dirs \cup DirsOf({cur.target})
       /\ disk' = [disk EXCEPT ![cur.target] = IF blob[h] = "whole" THEN h ELSE Torn]
  /\ Goto("drop")
  /\ UNCHANGED <<manifest, ledger, blob, staged, journal, history>>

RestoreNothing ==
  /\ pc = "restore" /\ ledger[cur.target] = None
  /\ Goto("drop")
  /\ UNCHANGED <<durable, history>>

\* MUTANT of DropManifest: the row stays.
DropManifestForgotten ==
  /\ pc = "drop"
  /\ Goto("mark")
  /\ UNCHANGED <<durable, history>>

\* ... and drop the manifest row. The vanilla_backup row stays.
DropManifest ==
  /\ pc = "drop"
  /\ manifest' = [manifest EXCEPT ![cur.target] = None]
  /\ Goto("mark")
  /\ UNCHANGED <<disk, dirs, ledger, blob, staged, journal, history>>

\* MUTANT of MarkDone: recovery does not close the rows it replays.
MarkDoneNotInReplay ==
  /\ pc = "mark"
  /\ journal' = IF phase = "replay" THEN journal
                                    ELSE SubSeq(journal, 1, Len(journal) - 1)
  /\ cur' = None
  /\ pc' = "next"
  /\ UNCHANGED <<phase, todo, plan, gone,
                 disk, dirs, manifest, ledger, blob, staged, history>>

\* mark_done. A command's own row is the newest; replay works oldest first.
MarkDone ==
  /\ pc = "mark"
  /\ journal' = IF phase = "replay" THEN Tail(journal)
                                    ELSE SubSeq(journal, 1, Len(journal) - 1)
  /\ cur' = None
  /\ pc' = "next"
  /\ UNCHANGED <<phase, todo, plan, gone,
                 disk, dirs, manifest, ledger, blob, staged, history>>

-----------------------------------------------------------------------------
(* Faults.                                                                 *)

Fault(f) ==
  /\ f \in Faults
  /\ faults < MaxFaults
  /\ faults' = faults + 1
  /\ UNCHANGED <<orig, origDirs>>

Running == phase \in {"purge", "deploy", "replay"}

Die ==
  /\ phase' = "down"
  /\ pc' = "next"
  /\ cur' = None
  /\ todo' = {}
  /\ plan' = NoPlan
  /\ gone' = {}

\* The process dies between two durable writes.
Crash ==
  /\ Running /\ Fault("crash")
  /\ Die
  /\ UNCHANGED durable

\* A step returns an error: `?` leaves the pending row behind and the
\* process goes on. A failed launch recovery is only logged.
Fail(f, steps) ==
  /\ Running /\ pc \in steps /\ Fault(f)
  /\ (f = "fail_recovery") = (phase = "replay")
  /\ Return
  /\ UNCHANGED durable

Failure ==
  \/ Fail("fail_file", {"backup", "place", "create", "unlink", "restore"})
  \/ Fail("fail_commit", {"next", "record", "manifest", "drop", "mark"})
  \/ Fail("fail_recovery", Step)

\* A file copy is cut short: the process dies in it, or (a full disk, say)
\* it returns an error and leaves the part it has written.
CutShort ==
  \/ Die
  \/ /\ (IF phase = "replay" THEN "fail_recovery" ELSE "fail_file") \in Faults
     /\ Return

\* fs::copy(target, blob) ...
TornBackup ==
  /\ pc = "backup" /\ Fault("torn_backup")
  /\ IsForeign(cur.target) /\ blob[disk[cur.target]] = "none"
  /\ blob' = [blob EXCEPT ![disk[cur.target]] = "torn"]
  /\ CutShort
  /\ UNCHANGED <<disk, dirs, manifest, ledger, staged, journal>>

\* ... reflink or fs::copy(source, target) ...
TornPlace ==
  /\ pc = "create" /\ Fault("torn_place")
  /\ disk' = [disk EXCEPT ![cur.target] = Torn]
  /\ CutShort
  /\ UNCHANGED <<dirs, manifest, ledger, blob, staged, journal>>

\* ... fs::copy(blob, target).
TornRestore ==
  /\ pc = "restore" /\ Fault("torn_restore")
  /\ ledger[cur.target] # None /\ blob[ledger[cur.target]] # "none"
  /\ dirs' = dirs \cup DirsOf({cur.target})
  /\ disk' = [disk EXCEPT ![cur.target] = Torn]
  /\ CutShort
  /\ UNCHANGED <<manifest, ledger, blob, staged, journal>>

\* restore_vanilla's NotPristine: the ledger names a blob that is not there.
RestoreFails ==
  /\ pc = "restore"
  /\ ledger[cur.target] # None /\ blob[ledger[cur.target]] = "none"
  /\ Return
  /\ UNCHANGED <<durable, history>>

-----------------------------------------------------------------------------
(* Steam and the user. They leave the path of the operation in flight      *)
(* alone, and unless a fault says otherwise also managed paths and paths   *)
(* with an operation still to recover.                                     *)

Touchable(t) ==
  /\ cur # None => cur.target # t
  /\ Pending(t) => "touch_pending" \in Faults
  /\ manifest[t] # None => "touch_managed" \in Faults

OutsideFault(f) ==
  /\ f \in Faults
  /\ faults < MaxFaults
  /\ faults' = faults + 1

SteamWrite(t, v) ==
  /\ Touchable(t) /\ OutsideFault("write")
  /\ disk[t] # v
  /\ disk' = [disk EXCEPT ![t] = v]
  /\ orig' = [orig EXCEPT ![t] = v]
  /\ dirs' = dirs \cup DirsOf({t})
  /\ origDirs' = origDirs \cup DirsOf({t})
  /\ UNCHANGED <<manifest, ledger, blob, staged, journal, volatile>>

SteamDelete(t) ==
  /\ Touchable(t) /\ OutsideFault("delete")
  /\ disk[t] # Absent
  /\ disk' = [disk EXCEPT ![t] = Absent]
  /\ orig' = [orig EXCEPT ![t] = Absent]
  /\ UNCHANGED <<dirs, origDirs, manifest, ledger, blob, staged, journal, volatile>>

\* A mod's staging directory is deleted.
Unstage(m) ==
  /\ Fault("unstage")
  /\ staged' = {s \in staged : s[1] # m}
  /\ UNCHANGED <<disk, dirs, manifest, ledger, blob, journal, volatile>>

\* A blob is deleted from the originals store.
LoseBlob(h) ==
  /\ Fault("lose_blob")
  /\ blob[h] # "none"
  /\ blob' = [blob EXCEPT ![h] = "none"]
  /\ UNCHANGED <<disk, dirs, manifest, ledger, staged, journal, volatile>>

-----------------------------------------------------------------------------
Command == \E w \in Plan : StartDeploy(w) \/ StartPurge(w)

Engine ==
  \/ DeployNext \/ DeploySkip \/ DeployEnd
  \/ PurgeNext \/ PurgeEnd
  \/ ReplayNext \/ ReplayEnd
  \/ BackupCopy \/ BackupSkip \/ RecordVanilla
  \/ PlaceRemove \/ PlaceCreate \/ PlaceFails \/ RecordDeployed
  \/ Unlink \/ Restore \/ RestoreNothing \/ RestoreFails \/ DropManifest
  \/ MarkDone

Environment ==
  \/ Crash \/ Failure \/ TornBackup \/ TornPlace \/ TornRestore
  \/ \E t \in Target : SteamDelete(t) \/ \E v \in Vanilla : SteamWrite(t, v)
  \/ \E m \in Mod : Unstage(m)
  \/ \E h \in Bytes : LoseBlob(h)

Next == Command \/ Launch \/ Quit \/ Engine \/ Environment

\* The engine is synchronous code under a mutex: it runs to the end of its
\* command unless the process dies; every user relaunches a dead app.
Spec == Init /\ [][Next]_vars /\ WF_vars(Engine) /\ WF_vars(Launch)

-----------------------------------------------------------------------------
(* Properties.                                                             *)

\* The traces of a copy that ends at its final name and was cut short there:
\* the backup of these very bytes (backup.rs:80 has no temporary name, and
\* line 78 takes what lies there for a backup), or a placement over this path,
\* whose debris recovery has recorded as the original.
CutShortAt(t) ==
  \/ orig[t] # Absent /\ blob[orig[t]] = "torn"
  \/ ledger[t] = Torn

\* The bytes of every original still exist: at the path, or whole in the
\* originals store under the hash the ledger gives for that path. This is
\* "backup-before-overwrite" (backup.rs) at every instant of every command
\* and of every recovery. A death inside a copy has exactly two ways round it:
\* inside the backup, the store holds part of these bytes; inside a
\* placement, the store has them whole and the ledger names the debris.
OriginalsSafe ==
  \A t \in Target :
    \/ orig[t] = Absent
    \/ disk[t] = orig[t]
    \/ blob[orig[t]] = "whole" /\ ledger[t] \in {orig[t], Torn}
    \/ blob[orig[t]] = "torn"

\* The ledger never names a mod's file ("poisoning the very ledger purge
\* restores from", replay_deploy), nor a blob that the store does not have.
LedgerClean ==
  \A t \in Target : ledger[t] # None =>
    ledger[t] \in Vanilla \cup {Torn} /\ blob[ledger[t]] # "none"

\* Provenance is complete at every path with no operation pending, also in
\* the middle of a command and while the process is dead: what the manifest
\* lists is on disk as recorded, everything else is the original, and debris
\* only where a copy was cut short. Purge, verify and recovery all rest on it.
AsLeft(t) == disk[t] = orig[t] \/ (disk[t] = Torn /\ CutShortAt(t))

PathsExplained ==
  \A t \in Target : ~ Pending(t) =>
    IF manifest[t] = None THEN AsLeft(t) ELSE disk[t] = manifest[t].hash

\* Intent before act (journal.rs): a step of the program changes a path only
\* under a row that was already pending, whatever errors went before.
IntentBeforeAct ==
  [][volatile' # volatile => \A t \in Target : disk'[t] # disk[t] => Pending(t)]_vars

\* finish_deploy, finish_purge and every branch of replay_deploy: the last
\* pending row of a path is closed only when the manifest describes the path.
RowsClosedConsistent ==
  [][\A t \in Target : Pending(t) /\ ~ Pending(t)' /\ manifest[t] # None
       => disk[t] = manifest[t].hash]_vars

\* Every command and every launch recovery returns, whatever fails under it
\* (replay must not meet the same row for ever).
CommandsReturn == Running ~> ~ Running

\* No operation is running and none is left to recover.
Settled == phase = "idle" /\ journal = << >>

\* recover_on_launch converges: a launch reaches a settled state.
RecoveryConverges == phase = "down" ~> Settled

-----------------------------------------------------------------------------
(* The engine implements the abstract ReversibleTree: a path moves while a *)
(* row is pending for it.                                                  *)

Reversible == INSTANCE ReversibleTree WITH
  Original <- Vanilla \cup {Absent},
  ModFile  <- Mod,
  Debris   <- Torn,
  Hidden   <- None,
  original <- orig,
  cut      <- {t \in Target : CutShortAt(t)},
  status   <- [t \in Target |-> IF Pending(t) THEN "moving"
                                ELSE IF manifest[t] = None THEN "original" ELSE "deployed"],
  shown    <- [t \in Target |-> IF Pending(t) THEN None ELSE disk[t]]

\* Every step of the engine, its crashes and its recovery is a step of the
\* abstract tree: one path at a time, and only announced moves.
ReversibleSpec == Reversible!Spec

\* Every announced move ends: the row is closed, by the command that opened
\* it or by the recovery after its death.
MovesEnd == Reversible!MovesEnd
=============================================================================
