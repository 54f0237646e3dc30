----------------------------- MODULE VerifyRepair -----------------------------
(***************************************************************************)
(* Drift detection and repair: crates/deploy/src/verify.rs, run beside the *)
(* deploy engine. verify only reads; repair re-places drifted files from   *)
(* staging without a journal row and removes unexplained empty             *)
(* directories. The INI part of both is in IniActivation.                  *)
(***************************************************************************)
EXTENDS DeployEngine

VARIABLE report  \* the drift verify found when the running repair began

rvars == <<vars, report>>

-----------------------------------------------------------------------------
(* verify: the manifest against the tree.                                  *)

Missing == {t \in Managed : disk[t] = Absent}
Changed == {t \in Managed : disk[t] \notin {Absent, manifest[t].hash}}

\* MUTANT of Drifted: only what is missing is worth reporting.
DriftedMissing == Missing

Drifted == Missing \cup Changed

\* walk_orphans: files neither managed nor at a path with a vanilla backup.
Orphans == {t \in Target : disk[t] # Absent /\ manifest[t] = None /\ ledger[t] = None}

\* MUTANT of OrphanDirs: what the manifest explains is not spared.
OrphanDirsAll ==
  {d \in dirs : \A t \in Target : DirOf[t] = d => disk[t] = Absent}

\* walk_orphan_dirs: empty, and on the path of no managed target.
OrphanDirs ==
  {d \in dirs \ DirsOf(Managed) : \A t \in Target : DirOf[t] = d => disk[t] = Absent}

Pristine == Drifted = {}

-----------------------------------------------------------------------------
(* repair.                                                                 *)

StartRepair ==
  /\ phase = "idle"
  /\ phase' = "repair"
  /\ report' = Drifted
  /\ todo' = Drifted
  /\ UNCHANGED <<pc, cur, plan, gone, durable, history>>

\* The staged source is found through the mod id of the entry. For an entry
\* without one (of a single-root deploy, or written by recovery) it is looked
\* for at the staging root itself.
Source(t) == IF manifest[t].source_mod = None THEN Local ELSE manifest[t].source_mod

Locatable(t) == Source(t) # None /\ <<Source(t), t>> \in staged

RepairSkip ==
  /\ phase = "repair" /\ pc = "next"
  /\ \E t \in First(todo) :
       /\ ~ Locatable(t)
       /\ todo' = todo \ {t}
  /\ UNCHANGED <<phase, pc, cur, plan, gone, durable, history, report>>

\* redeploy_from_staging: apply_idempotent removes what is there ...
RepairRemove ==
  /\ phase = "repair" /\ pc = "next"
  /\ \E t \in First(todo) :
       /\ Locatable(t)
       /\ todo' = todo \ {t}
       /\ cur' = [kind |-> "repair", target |-> t, src |-> Source(t)]
       /\ dirs' = dirs \cup DirsOf({t})
       /\ disk' = [disk EXCEPT ![t] = Absent]
  /\ pc' = "redeploy"
  /\ UNCHANGED <<phase, plan, gone, manifest, ledger, blob, staged, journal, history, report>>

\* ... and places the staged source. No row of any table is written.
RepairCreate ==
  /\ phase = "repair" /\ pc = "redeploy"
  /\ <<cur.src, cur.target>> \in staged
  /\ disk' = [disk EXCEPT ![cur.target] = cur.src]
  /\ cur' = None
  /\ pc' = "next"
  /\ UNCHANGED <<phase, todo, plan, gone, dirs, manifest, ledger, blob, staged, journal,
                 history, report>>

RepairFails ==
  /\ phase = "repair" /\ pc = "redeploy"
  /\ <<cur.src, cur.target>> \notin staged
  /\ Return
  /\ report' = {}
  /\ UNCHANGED <<durable, history>>

\* The orphan directories go, deepest first, until none is left.
RepairEnd ==
  /\ phase = "repair" /\ pc = "next" /\ todo = {}
  /\ dirs' = dirs \ OrphanDirs
  /\ Return
  /\ report' = {}
  /\ UNCHANGED <<disk, manifest, ledger, blob, staged, journal, history>>

RepairCrash ==
  /\ phase = "repair" /\ Fault("crash")
  /\ Die
  /\ report' = {}
  /\ UNCHANGED durable

-----------------------------------------------------------------------------
(* What verify is for: a managed file changed behind the engine's back,    *)
(* by a Steam re-verify (which puts the original back) or by the user.     *)

Drift(t, bytes) ==
  /\ phase # "repair" /\ manifest[t] # None /\ ~ Pending(t)
  /\ Fault("touch_managed")
  /\ disk[t] # bytes
  /\ disk' = [disk EXCEPT ![t] = bytes]
  /\ dirs' = dirs \cup DirsOf({t})
  /\ UNCHANGED <<manifest, ledger, blob, staged, journal, volatile, report>>

\* A directory is emptied or left behind by somebody else.
StrayDir(d) ==
  /\ phase = "idle" /\ d \notin dirs
  /\ Fault("touch_managed")
  /\ dirs' = dirs \cup {d}
  /\ UNCHANGED <<disk, manifest, ledger, blob, staged, journal, volatile, report>>

-----------------------------------------------------------------------------
Repair == RepairSkip \/ RepairRemove \/ RepairCreate \/ RepairFails \/ RepairEnd

RInit == Init /\ report = {}

RNext ==
  \/ Next /\ UNCHANGED report
  \/ StartRepair \/ Repair \/ RepairCrash
  \/ \E t \in Target, bytes \in Vanilla \cup {Absent} : Drift(t, bytes)
  \/ \E d \in Dir : StrayDir(d)

RSpec == RInit /\ [][RNext]_rvars /\ WF_rvars(Engine /\ UNCHANGED report)
                                  /\ WF_rvars(Launch /\ UNCHANGED report)
                                  /\ WF_rvars(Repair)

-----------------------------------------------------------------------------
(* Properties.                                                             *)

\* What repair promises to bring back: a file whose mod is still staged where
\* its entry points. (An entry that recovery wrote points to the staging root,
\* where a local archive may have another file of that path.)
Restorable(t) ==
  Locatable(t) /\ (manifest[t].source_mod = None => Local = manifest[t].hash)

\* A repair that runs to its end settles: every managed file it could bring
\* back is as the manifest records it, so a verify right after it reports
\* none of them.
RepairSettles ==
  [][phase = "repair" /\ pc = "next" /\ phase' = "idle"
       => \A t \in Managed : Restorable(t) => disk'[t] = manifest'[t].hash]_rvars

\* Repair touches only what verify reported: "an unmanaged file mistaken for
\* an orphan can never be destroyed". Nor does it take away the directory of
\* a managed file that it could not bring back.
RepairSparesOthers ==
  [][phase = "repair" /\ faults' = faults
       => /\ \A t \in Target : disk'[t] # disk[t] => t \in report /\ manifest[t] # None
          /\ dirs \ dirs' \subseteq Dir \ DirsOf(Managed)]_rvars

\* What is not managed is the user's, byte for byte, also after the drift of
\* a managed path, its repair (or a crash in it) and its purge; but for debris:
\* of a copy that was cut short, or of a placement over nothing, whose mod has
\* gone, which recovery takes for the user's own file (journal.rs:217).
UnmanagedIsOriginal ==
  \A t \in Target : manifest[t] = None /\ ~ Pending(t) =>
    AsLeft(t) \/ (orig[t] = Absent /\ disk[t] = Torn)

=============================================================================
