---------------------------- MODULE IniActivation ----------------------------
(***************************************************************************)
(* The reversible activation of StarfieldCustom.ini: the journaled         *)
(* operations of crates/deploy/src/gameconfig.rs, journal::replay_ini, the *)
(* INI hooks of deploy, purge, repair and launch recovery, and the two     *)
(* gameconfig commands.                                                    *)
(*                                                                         *)
(* Each durable write is a step. The Data/ tree is one bit here, `loose`:  *)
(* whether the manifest lists anything (DeployEngine models the rest). The *)
(* provenance row stands for the bytes its hash names.                     *)
(***************************************************************************)
EXTENDS IniMerge

CONSTANTS
  UserFiles,   \* the files a user may save as StarfieldCustom.ini
  None,        \* no provenance row
  Marker,      \* the ABSENCE_MARKER row: NexTwist created the file
  Edits,       \* when users edit: "own" (no row), "active", "pending"
  Faults,      \* the faults that may occur
  MaxEdits,    \* BOUND: user edits in one behaviour
  MaxFaults,   \* BOUND: fault events in one behaviour
  MaxPending   \* BOUND: pending KIND_INI rows when a command starts

ASSUME FileAssumption  == \A f \in UserFiles : f = Utf16 \/ f \in Seq(Line)
ASSUME RowAssumption   == /\ None \notin Seq(Line) /\ Marker \notin Seq(Line) /\ None # Marker
                          /\ None \notin {NoFile, Utf16} /\ Marker \notin {NoFile, Utf16}
ASSUME EditAssumption  == Edits \subseteq {"own", "active", "pending"}
ASSUME FaultAssumption == Faults \subseteq {"crash", "fail", "torn", "torn_fail"}

VARIABLES
  ini,       \* the file on disk
  folder,    \* My Games/<game>: "none", "bare" (no other file) or "used"
  row,       \* vanilla_backup's row for the sentinel: None, Marker or a file
  pending,   \* how many KIND_INI rows of op_journal are pending
  loose,     \* the deploy manifest lists a file
  dataRows,  \* Data/ rows are pending: replay may change `loose`
  task,      \* the command running
  pc,        \* its next step
  jid,       \* purge_inner: the INI row was journaled before the loop
  res,       \* the conflict resolution asked for
  buf,       \* the bytes plan_merge planned
  own,       \* history: what the user's file was when it was last all theirs
  mixed,     \* history: the user edited a file NexTwist had a row for
  edits, faults

durable  == <<ini, folder, row, pending, loose, dataRows>>
volatile == <<task, pc, jid, res, buf>>
history  == <<own, mixed, edits, faults>>
vars     == <<durable, volatile, history>>

Task == {"down", "idle", "deploy", "apply", "purge", "redeploy", "repair", "recover"}
Steps == {"next", "data", "plan", "purging", "drift", "read", "intent", "backup", "write",
          "remove", "put", "forget", "done"}

IsFile(f) == f \in {NoFile, Utf16} \/ f \in Seq(Line)

TypeOK ==
  /\ IsFile(ini) /\ IsFile(own) /\ IsFile(buf)
  /\ folder \in {"none", "bare", "used"}
  /\ row \in {None, Marker} \/ (IsFile(row) /\ row # NoFile)
  /\ pending \in Nat
  /\ {loose, dataRows, jid, mixed} \subseteq BOOLEAN
  /\ task \in Task /\ pc \in Steps
  /\ res \in {"Block", "UseNexTwist"}
  /\ ini # NoFile => folder # "none"

\* The game has never run in the prefix, or it has left files there.
Init ==
  /\ ini \in UserFiles \cup {NoFile}
  /\ folder \in {"none", "used"}
  /\ ini # NoFile => folder = "used"
  /\ own = ini
  /\ row = None /\ pending = 0 /\ loose = FALSE /\ dataRows = FALSE
  /\ task = "down" /\ pc = "next" /\ jid = FALSE /\ res = "Block" /\ buf = NoFile
  /\ mixed = FALSE /\ edits = 0 /\ faults = 0

-----------------------------------------------------------------------------
Goto(step) == pc' = step /\ UNCHANGED <<task, jid, res, buf>>

Stop(where) ==
  /\ task' = where /\ pc' = "next" /\ jid' = FALSE /\ res' = "Block" /\ buf' = NoFile

Return == Stop("idle")

Start(command, step) ==
  /\ task = "idle" /\ pending < MaxPending
  /\ task' = command /\ pc' = step
  /\ UNCHANGED <<jid, buf, durable, history>>

StartDeploy   == Start("deploy", "data") /\ UNCHANGED res
StartPurge    == Start("purge", "plan") /\ UNCHANGED res
StartRedeploy == Start("redeploy", "plan") /\ UNCHANGED res
StartRepair   == Start("repair", "drift") /\ UNCHANGED res

\* apply_ini_activation: the caller chooses the resolution.
StartApply ==
  \E r \in {"Block", "UseNexTwist"} : Start("apply", "read") /\ res' = r

Launch ==
  /\ task = "down"
  /\ task' = "recover"
  /\ UNCHANGED <<pc, jid, res, buf, durable, history>>

Quit ==
  /\ task = "idle"
  /\ task' = "down"
  /\ UNCHANGED <<pc, jid, res, buf, durable, history>>

-----------------------------------------------------------------------------
(* The Data/ work around the hooks.                                        *)

\* deploy and deploy_winners: every winner may have been skipped, and an
\* empty single-root deploy reaches the hook too.
DeployData ==
  /\ task = "deploy" /\ pc = "data"
  /\ loose' \in {loose, TRUE}
  /\ Goto("read")
  /\ UNCHANGED <<ini, folder, row, pending, dataRows, history>>

\* MUTANT of PurgePlan: only a purge with loose files restores the INI.
PurgePlanLoose ==
  /\ pc = "plan"
  /\ jid' = (row # None /\ loose)
  /\ pending' = pending + IF row # None /\ loose THEN 1 ELSE 0
  /\ pc' = "purging"
  /\ UNCHANGED <<task, res, buf, ini, folder, row, loose, dataRows, history>>

\* purge_inner: the INI intent comes before the loop, if there is a row.
PurgePlan ==
  /\ pc = "plan"
  /\ jid' = (row # None)
  /\ pending' = pending + IF row # None THEN 1 ELSE 0
  /\ pc' = "purging"
  /\ UNCHANGED <<task, res, buf, ini, folder, row, loose, dataRows, history>>

\* The command has done its INI work: redeploy_winners goes on to deploy.
Finish ==
  IF task = "redeploy"
  THEN task' = "deploy" /\ pc' = "data" /\ jid' = FALSE /\ UNCHANGED <<res, buf>>
  ELSE Return

PurgeData ==
  /\ pc = "purging"
  /\ loose' = FALSE
  /\ IF jid THEN Goto("remove") ELSE Finish
  /\ UNCHANGED <<ini, folder, row, pending, dataRows, history>>

\* ini_drift gates repair's re-activation on a non-empty manifest.
Drifted == loose /\ (Plan(ini, "Block").kind = "write" /\ ~ IsActive(ini))

RepairDrift ==
  /\ pc = "drift"
  /\ IF Drifted THEN Goto("read") ELSE Return
  /\ UNCHANGED <<durable, history>>

-----------------------------------------------------------------------------
(* ensure_ini_active.                                                      *)

\* Blocked, UnsupportedEncoding and AlreadyActive write nothing at all.
EnsureNothing ==
  /\ pc = "read"
  /\ (Plan(ini, res).kind # "write" \/ IsActive(ini))
  /\ Return
  /\ UNCHANGED <<durable, history>>

EnsurePlan ==
  /\ pc = "read"
  /\ Plan(ini, res).kind = "write" /\ ~ IsActive(ini)
  /\ buf' = Merged(ini)
  /\ pc' = "intent"
  /\ UNCHANGED <<task, jid, res, durable, history>>

EnsureIntent ==
  /\ pc = "intent"
  /\ pending' = pending + 1
  /\ Goto("backup")
  /\ UNCHANGED <<ini, folder, row, loose, dataRows, history>>

\* MUTANT of EnsureBackup: an absent file is always stamped as created.
EnsureBackupStamps ==
  /\ pc = "backup"
  /\ row' = IF ini # NoFile THEN ini ELSE Marker
  /\ Goto("write")
  /\ UNCHANGED <<ini, folder, pending, loose, dataRows, history>>

\* backup_vanilla_if_absent: the sentinel is never in the manifest, so the
\* row of a file that is there is written, an older row replaced. A file that
\* is not there gets the absence marker, unless a row exists.
EnsureBackup ==
  /\ pc = "backup"
  /\ row' = IF ini # NoFile THEN ini ELSE IF row = None THEN Marker ELSE row
  /\ Goto("write")
  /\ UNCHANGED <<ini, folder, pending, loose, dataRows, history>>

\* atomic_write: the parent folders, a sibling temp file, a rename.
EnsureWrite ==
  /\ pc = "write"
  /\ ini' = buf
  /\ folder' = IF folder = "none" THEN "bare" ELSE folder
  /\ Goto("done")
  /\ UNCHANGED <<row, pending, loose, dataRows, history>>

-----------------------------------------------------------------------------
(* restore_ini_at, from purge_inner and from replay_ini.                   *)

\* MUTANT of RestoreRemove: recovery takes the file's removal as done.
RestoreRemoveLazy ==
  /\ pc = "remove"
  /\ ini' = IF task = "recover" THEN ini ELSE NoFile
  /\ Goto("put")
  /\ UNCHANGED <<folder, row, pending, loose, dataRows, history>>

RestoreRemove ==
  /\ pc = "remove"
  /\ ini' = NoFile
  /\ Goto("put")
  /\ UNCHANGED <<folder, row, pending, loose, dataRows, history>>

\* Created by NexTwist: prune the folders, which refuses a used one.
RestorePrune ==
  /\ pc = "put" /\ row = Marker
  /\ folder' = IF folder = "bare" THEN "none" ELSE folder
  /\ Goto("forget")
  /\ UNCHANGED <<ini, row, pending, loose, dataRows, history>>

\* Pre-existing: copy the recorded bytes back.
RestoreCopy ==
  /\ pc = "put" /\ row # Marker
  /\ ini' = row
  /\ folder' = IF folder = "none" THEN "bare" ELSE folder
  /\ Goto("forget")
  /\ UNCHANGED <<row, pending, loose, dataRows, history>>

\* Provenance consumed: the row is dropped.
RestoreForget ==
  /\ pc = "forget"
  /\ row' = None
  /\ own' = IF mixed THEN ini ELSE own
  /\ mixed' = FALSE
  /\ Goto("done")
  /\ UNCHANGED <<ini, folder, pending, loose, dataRows, edits, faults>>

\* MUTANT of MarkDone: recovery leaves the row it replayed pending.
MarkDoneNotInReplay ==
  /\ pc = "done"
  /\ pending' = IF task = "recover" THEN pending ELSE pending - 1
  /\ IF task = "recover" THEN Goto("next") ELSE Finish
  /\ UNCHANGED <<ini, folder, row, loose, dataRows, history>>

\* mark_done; replay goes on to the next pending row.
MarkDone ==
  /\ pc = "done"
  /\ pending' = pending - 1
  /\ IF task = "recover" THEN Goto("next") ELSE Finish
  /\ UNCHANGED <<ini, folder, row, loose, dataRows, history>>

-----------------------------------------------------------------------------
(* journal::replay.                                                        *)

ReplayData ==
  /\ task = "recover" /\ pc = "next" /\ dataRows
  /\ loose' \in BOOLEAN
  /\ dataRows' = FALSE
  /\ UNCHANGED <<ini, folder, row, pending, volatile, history>>

\* Without a provenance row the pending row is only closed.
ReplayIni ==
  /\ task = "recover" /\ pc = "next" /\ ~ dataRows /\ pending > 0
  /\ Goto(IF row = None THEN "done" ELSE "remove")
  /\ UNCHANGED <<durable, history>>

ReplayEnd ==
  /\ task = "recover" /\ pc = "next" /\ ~ dataRows /\ pending = 0
  /\ Return
  /\ UNCHANGED <<durable, history>>

-----------------------------------------------------------------------------
(* Faults and the user. Nobody edits the file while a command runs.        *)

Running == task \notin {"down", "idle"}

Fault(f) ==
  /\ f \in Faults /\ faults < MaxFaults
  /\ faults' = faults + 1
  /\ UNCHANGED <<own, mixed, edits>>

\* The Data/ loop is cut in the middle: some rows stay pending.
CutData ==
  IF pc \in {"data", "purging"}
  THEN loose' \in {loose, pc = "data"} /\ dataRows' \in {dataRows, TRUE}
  ELSE UNCHANGED <<loose, dataRows>>

Crash ==
  /\ Running /\ Fault("crash")
  /\ Stop("down") /\ CutData
  /\ UNCHANGED <<ini, folder, row, pending>>

\* `?`: the command returns an error, its pending rows stay.
Fail ==
  /\ Running /\ task # "recover" /\ Fault("fail")
  /\ Stop("idle") /\ CutData
  /\ UNCHANGED <<ini, folder, row, pending>>

\* restore_vanilla's fs::copy is cut short and leaves a prefix: the process
\* dies, or (a full disk) the command returns the error.
TornRestore ==
  /\ pc = "put"
  /\ \E f \in {"torn", "torn_fail"} :
       Fault(f) /\ Stop(IF f = "torn" THEN "down" ELSE "idle")
  /\ row \notin {Marker, Utf16}
  /\ \E k \in 0 .. Len(row) - 1 : ini' = SubSeq(row, 1, k)
  /\ folder' = IF folder = "none" THEN "bare" ELSE folder
  /\ UNCHANGED <<row, pending, loose, dataRows>>

\* May the user touch the file now?
MayEdit ==
  /\ ~ Running /\ edits < MaxEdits
  /\ (IF pending > 0 THEN "pending" ELSE IF row # None THEN "active" ELSE "own") \in Edits
  /\ edits' = edits + 1
  /\ UNCHANGED <<row, pending, loose, dataRows, volatile, faults>>

\* An edit of a file that is all the user's makes their next version; an
\* edit of an activated file is mixed with NexTwist's.
Edited ==
  IF row = None \/ (pending > 0 /\ ini = own)
  THEN own' = ini' /\ UNCHANGED mixed
  ELSE mixed' = TRUE /\ UNCHANGED own

UserSave(f) ==
  /\ MayEdit
  /\ ini' = f
  /\ folder' = IF folder = "none" THEN "bare" ELSE folder
  /\ Edited

\* An owned key is set to the user's own value.
UserEditLine ==
  /\ MayEdit /\ IsLines(ini)
  /\ \E k \in DOMAIN ini :
       \/ ini[k] = "inv" /\ ini' = [ini EXCEPT ![k] = "inv_other"]
       \/ ini[k] = "dirs" /\ ini' = [ini EXCEPT ![k] = "dirs_user"]
  /\ UNCHANGED folder
  /\ Edited

\* Deleting an activated file leaves the original to the row.
UserDelete ==
  /\ MayEdit /\ ini # NoFile
  /\ ini' = NoFile
  /\ own' = IF row = None THEN NoFile ELSE own
  /\ UNCHANGED <<folder, mixed>>

-----------------------------------------------------------------------------
Program ==
  \/ DeployData \/ PurgePlan \/ PurgeData \/ RepairDrift
  \/ EnsureNothing \/ EnsurePlan \/ EnsureIntent \/ EnsureBackup \/ EnsureWrite
  \/ RestoreRemove \/ RestorePrune \/ RestoreCopy \/ RestoreForget \/ MarkDone
  \/ ReplayData \/ ReplayIni \/ ReplayEnd

Next ==
  \/ StartDeploy \/ StartPurge \/ StartRedeploy \/ StartRepair \/ StartApply
  \/ Launch \/ Quit \/ Program
  \/ Crash \/ Fail \/ TornRestore
  \/ UserDelete \/ UserEditLine
  \/ \E f \in UserFiles : UserSave(f)

Spec == Init /\ [][Next]_vars /\ WF_vars(Program) /\ WF_vars(Launch)

-----------------------------------------------------------------------------
(* Properties.                                                             *)

Provenance == IF own = NoFile THEN Marker ELSE own

\* The user's INI is never lost: until they edit an activated file, what they
\* had is on disk or is what the provenance row restores (an absent file: the
\* absence marker, and never the marker for a file that did exist).
OriginalIniSafe == ~ mixed => ini = own \/ row = Provenance

\* Without a provenance row the file is the user's, byte for byte, whatever
\* was deployed, purged, blocked, crashed or recovered before.
InactiveIsUntouched ==
  row = None /\ pc \notin {"put", "forget", "write"} => ini = own

\* ensure_ini_active settles: after a command that ran it to its end the file
\* is active, or it is one the editor must not touch; a repair right after a
\* deploy finds no drift.
EnsureSettles ==
  [][(task \in {"deploy", "apply", "repair"} /\ task' = "idle" /\ pc \in {"read", "done"}
        /\ faults' = faults)
     => \/ IsActive(ini')
        \/ Plan(ini', "Block").kind \in {"conflict", "unsupported"}]_vars

\* A value of sResourceDataDirsFinal the user chose goes only when they asked
\* for it, or with a restore of the file they had: no deploy, redeploy or
\* repair overwrites it.
UserDirsKept ==
  [][HasConflict(ini) /\ ini' # ini /\ Running => (res = "UseNexTwist" \/ pc \in {"remove", "put"})]_vars

\* A purge of an activated game never strands the INI: cut at any point it has restored the file,
\* or the intent that recovery replays is in the journal.
PurgeNeverStrandsIni ==
  (task \in {"purge", "redeploy"} /\ pc = "purging" /\ row # None) ~> (row = None \/ (~ Running /\ pending > 0))

\* Launch recovery converges: every pending INI row is closed.
IniRecovered == task = "down" ~> (task = "idle" /\ pending = 0 /\ ~ dataRows)
=============================================================================
