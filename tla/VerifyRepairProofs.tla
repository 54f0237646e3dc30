------------------------- MODULE VerifyRepairProofs -------------------------
(***************************************************************************)
(* Proofs about the deploy engine and the repair that runs on it, for      *)
(* every number of targets, every set of mods and originals, and every     *)
(* bound.  First DeployEngine by itself: its types, that every original is *)
(* kept, and that it implements ReversibleTree.  Then VerifyRepair: drift, *)
(* repair and the engine together, when managed files change behind the    *)
(* engine's back, mods lose their staged files, and the process dies       *)
(* anywhere.                                                               *)
(***************************************************************************)
EXTENDS VerifyRepair, SequenceTheorems, TLAPS

-----------------------------------------------------------------------------
(* The deploy engine.                                                      *)

(* TypeOK is not inductive: what a step writes is well typed only because  *)
(* the operation in flight is the row it works on.                         *)
Control ==
  /\ phase \in {"down", "idle"} => pc = "next"
  /\ pc = "next" <=> cur = None
  /\ pc # "next" =>
       /\ cur \in Row
       /\ journal # << >>
       /\ cur = IF phase = "replay" THEN Head(journal) ELSE journal[Len(journal)]
  /\ pc \in {"backup", "record", "place", "create", "manifest"} => cur.kind = "deploy"
  /\ pc = "record" => disk[cur.target] # Absent /\ manifest[cur.target] = None
  /\ pc = "manifest" => disk[cur.target] = cur.src
  /\ pc = "mark" /\ manifest[cur.target] # None => disk[cur.target] = manifest[cur.target].hash

TypeInv == TypeOK /\ Control

LEMMA RowFacts ==
  /\ None \notin Row
  /\ \A r \in Row : /\ r.target \in Target
                    /\ r.kind \in {"deploy", "purge"}
                    /\ r.kind = "deploy" => r.src \in Mod
                    /\ r.src \in Mod \cup {None}
  /\ \A t \in Target, m \in Mod : [kind |-> "deploy", target |-> t, src |-> m] \in Row
  /\ \A t \in Target : [kind |-> "purge", target |-> t, src |-> None] \in Row
  BY NoneAssumption DEF Row

LEMMA TargetFacts ==
  /\ \A S \in SUBSET Target : DirsOf(S) \subseteq Dir
  /\ \A S \in SUBSET Target : First(S) \subseteq S
  BY DirAssumption DEF DirsOf, First

LEMMA JournalFacts ==
  ASSUME NEW j \in Seq(Row), j # << >>
  PROVE  /\ Head(j) \in Row
         /\ Tail(j) \in Seq(Row)
         /\ SubSeq(j, 1, Len(j) - 1) \in Seq(Row)
         /\ Len(j) \in Nat \ {0}
         /\ Head(j) = j[1]
  <1>1. Head(j) \in Row /\ Tail(j) \in Seq(Row)
    BY HeadTailProperties
  <1>2. Len(j) \in Nat \ {0}
    BY EmptySeq
  <1>3. \A i \in 1 .. Len(j) - 1 : j[i] \in Row
    BY <1>2, ElementOfSeq
  <1>4. SubSeq(j, 1, Len(j) - 1) \in Seq(Row)
    BY <1>2, <1>3, SubSeqProperties
  <1> QED
    BY <1>1, <1>2, <1>4

LEMMA AppendFacts ==
  ASSUME NEW j \in Seq(Row), NEW r \in Row
  PROVE  /\ Append(j, r) \in Seq(Row)
         /\ Append(j, r) # << >>
         /\ Len(Append(j, r)) = Len(j) + 1
         /\ Append(j, r)[Len(Append(j, r))] = r
         /\ \A i \in 1 .. Len(j) : Append(j, r)[i] = j[i]
  BY AppendProperties, LenProperties

LEMMA TypeInit == Init => TypeInv
  <1> SUFFICES ASSUME Init PROVE TypeInv
    OBVIOUS
  <1>1. TypeOK
    <2>1. origDirs \subseteq Dir
      BY DirAssumption DEF Init, DirsOf
    <2>2. journal \in Seq(Row)
      BY EmptySeq DEF Init
    <2>3. faults \in 0 .. MaxFaults
      BY BoundAssumption DEF Init
    <2> QED
      BY <2>1, <2>2, <2>3, NameAssumption
      DEF Init, TypeOK, Bytes, Phase, Step, Plan, NoPlan
  <1>2. Control
    BY RowFacts DEF Init, Control
  <1> QED
    BY <1>1, <1>2 DEF TypeInv

(* One step per action; the facts about rows, sequences and directories    *)
(* that a leaf needs are instantiated once, below.                         *)
LEMMA TypeStep == TypeInv /\ [Next]_vars => TypeInv'
  <1> SUFFICES ASSUME TypeInv, [Next]_vars PROVE TypeInv'
    OBVIOUS
  <1> USE RowFacts, NameAssumption, BoundAssumption
      DEF TypeInv, TypeOK, Control, durable, volatile, history
  <1>c. ASSUME pc # "next"
        PROVE  /\ cur \in Row /\ cur.target \in Target
               /\ journal # << >> /\ Tail(journal) \in Seq(Row)
               /\ SubSeq(journal, 1, Len(journal) - 1) \in Seq(Row)
               /\ DirsOf({cur.target}) \subseteq Dir
    <2>1. cur \in Row /\ cur.target \in Target /\ journal # << >> /\ journal \in Seq(Row)
      BY <1>c
    <2>2. {cur.target} \in SUBSET Target
      BY <2>1
    <2>3. DirsOf({cur.target}) \subseteq Dir
      BY <2>2, TargetFacts
    <2> QED
      BY <2>1, <2>3, JournalFacts
  <1>1. CASE \E w \in Plan : StartDeploy(w) \/ StartPurge(w)
    BY <1>1 DEF StartDeploy, StartPurge, Managed, Phase
  <1>2. CASE Launch \/ Quit
    BY <1>2 DEF Launch, Quit, Phase
  <1>3. CASE DeployNext
    <2>1. PICK t \in First(todo) :
            /\ <<plan[t], t>> \in staged
            /\ BeginOp([kind |-> "deploy", target |-> t, src |-> plan[t]], "backup")
      BY <1>3 DEF DeployNext
    <2> DEFINE row == [kind |-> "deploy", target |-> t, src |-> plan[t]]
    <2>2. t \in Target /\ plan[t] \in Mod
      BY <2>1, TargetFacts
    <2>3. row \in Row
      BY <2>2
    <2> HIDE DEF row
    <2>4. /\ journal' = Append(journal, row) /\ cur' = row /\ pc' = "backup"
          /\ phase' = "deploy" /\ plan' = plan /\ gone' = gone
          /\ todo' \subseteq todo
      BY <1>3, <2>1 DEF DeployNext, BeginOp, row
    <2>5. row.kind = "deploy"
      BY DEF row
    <2> QED
      BY <1>3, <2>3, <2>4, <2>5, AppendFacts DEF DeployNext, Step
  <1>4. CASE DeploySkip
    BY <1>4, TargetFacts DEF DeploySkip
  <1>5. CASE DeployEnd
    BY <1>5 DEF DeployEnd, Return, Phase, Step, Plan, NoPlan
  <1>6. CASE PurgeNext
    <2>1. PICK t \in First(todo) :
            BeginOp([kind |-> "purge", target |-> t, src |-> None], "unlink")
      BY <1>6 DEF PurgeNext
    <2> DEFINE row == [kind |-> "purge", target |-> t, src |-> None]
    <2>2. row \in Row
      BY TargetFacts
    <2> HIDE DEF row
    <2>3. /\ journal' = Append(journal, row) /\ cur' = row /\ pc' = "unlink"
          /\ phase' = "purge" /\ plan' = plan /\ gone' = gone
          /\ todo' \subseteq todo
      BY <1>6, <2>1 DEF PurgeNext, BeginOp, row
    <2> QED
      BY <1>6, <2>2, <2>3, AppendFacts DEF PurgeNext, Step
  <1>7. CASE PurgeEnd
    BY <1>7 DEF PurgeEnd, RemoveEmptiedDirs, Return, Phase, Step, Plan, NoPlan
  <1>8. CASE ReplayNext
    BY <1>8, JournalFacts DEF ReplayNext, ReplayForward, ReplayLeave, ReplayBack, ReplayPurge, MustLeave, Step
  <1>9. CASE ReplayEnd
    BY <1>9 DEF ReplayEnd, RemoveEmptiedDirs, Return, Phase, Step, Plan, NoPlan
  <1>10. CASE BackupCopy
    BY <1>10, <1>c DEF BackupCopy, Goto, IsForeign, Step
  <1>11. CASE BackupSkip
    BY <1>11 DEF BackupSkip, Goto, Step
  <1>12. CASE RecordVanilla
    BY <1>12, <1>c DEF RecordVanilla, Goto, Step
  <1>13. CASE PlaceRemove
    BY <1>13, <1>c DEF PlaceRemove, Goto, Step
  <1>14. CASE PlaceCreate
    BY <1>14, <1>c DEF PlaceCreate, Goto, Step, Bytes
  <1>15. CASE PlaceFails
    BY <1>15 DEF PlaceFails, Return, Phase, Step, Plan, NoPlan
  <1>16. CASE RecordDeployed
    BY <1>16, <1>c DEF RecordDeployed, Goto, Step, Entry
  <1>17. CASE Unlink
    BY <1>17, <1>c DEF Unlink, Goto, Step
  <1>18. CASE Restore
    BY <1>18, <1>c DEF Restore, Goto, Step, Bytes
  <1>19. CASE RestoreNothing \/ RestoreFails
    BY <1>19 DEF RestoreNothing, RestoreFails, Goto, Return, Phase, Step, Plan, NoPlan
  <1>20. CASE DropManifest
    BY <1>20, <1>c DEF DropManifest, Goto, Step
  <1>21. CASE MarkDone
    BY <1>21, <1>c DEF MarkDone, Step
  <1>22. CASE Crash \/ Failure
    BY <1>22 DEF Crash, Failure, Fail, Fault, Die, Return, Phase, Step, Plan, NoPlan
  <1>23. CASE TornBackup
    BY <1>23, <1>c DEF TornBackup, Fault, CutShort, Die, Return, IsForeign, Phase, Step, Plan, NoPlan
  <1>24. CASE TornPlace
    BY <1>24, <1>c DEF TornPlace, Fault, CutShort, Die, Return, Phase, Step, Plan, NoPlan, Bytes
  <1>25. CASE TornRestore
    <2>1. pc # "next" /\ cur.target \in Target /\ DirsOf({cur.target}) \subseteq Dir
      BY <1>25, <1>c DEF TornRestore
    <2>2. dirs' \subseteq Dir /\ disk' \in [Target -> Bytes \cup {Absent}]
      BY <1>25, <2>1 DEF TornRestore, Bytes
    <2>3. /\ phase' \in {"down", "idle"} /\ pc' = "next" /\ cur' = None
          /\ todo' = {} /\ plan' = NoPlan /\ gone' = {}
      BY <1>25 DEF TornRestore, CutShort, Die, Return
    <2>4. UNCHANGED <<manifest, ledger, blob, staged, journal, orig, origDirs>>
          /\ faults' \in 0 .. MaxFaults
      BY <1>25 DEF TornRestore, Fault
    <2> QED
      BY <2>2, <2>3, <2>4 DEF Phase, Step, Plan, NoPlan
  <1>26. CASE \E t \in Target : SteamDelete(t)
    BY <1>26, <1>c DEF SteamDelete, Touchable, OutsideFault
  <1>27. CASE \E t \in Target, v \in Vanilla : SteamWrite(t, v)
    <2>1. PICK t \in Target, v \in Vanilla : SteamWrite(t, v)
      BY <1>27
    <2>2. {t} \in SUBSET Target
      OBVIOUS
    <2>3. DirsOf({t}) \subseteq Dir
      BY <2>2, TargetFacts
    <2>4. v \in Bytes
      BY DEF Bytes
    <2>5. v # Absent
      BY <2>4
    <2>6. UNCHANGED <<pc, cur, phase, journal>> /\ (cur # None => cur.target # t)
      BY <2>1 DEF SteamWrite, Touchable
    <2>7. TypeOK'
      <3>1. disk' \in [Target -> Bytes \cup {Absent}] /\ orig' \in [Target -> Vanilla \cup {Absent}]
        BY <2>1, <2>4 DEF SteamWrite
      <3>2. dirs' \subseteq Dir /\ origDirs' \subseteq Dir
        BY <2>1, <2>3 DEF SteamWrite
      <3>3. faults' \in 0 .. MaxFaults
        BY <2>1 DEF SteamWrite, OutsideFault
      <3>4. UNCHANGED <<manifest, ledger, blob, staged, journal, phase, pc, cur, todo, plan, gone>>
        BY <2>1 DEF SteamWrite
      <3> QED
        BY <3>1, <3>2, <3>3, <3>4
    <2>8. Control'
      BY <2>1, <2>6, <1>c DEF SteamWrite
    <2> QED
      BY <2>7, <2>8
  <1>28. CASE (\E m \in Mod : Unstage(m)) \/ (\E h \in Bytes : LoseBlob(h))
    BY <1>28 DEF Unstage, LoseBlob, Fault
  <1>29. CASE UNCHANGED vars
    BY <1>29 DEF vars
  <1> QED
    BY <1>1, <1>2, <1>3, <1>4, <1>5, <1>6, <1>7, <1>8, <1>9, <1>10, <1>11, <1>12,
       <1>13, <1>14, <1>15, <1>16, <1>17, <1>18, <1>19, <1>20, <1>21, <1>22,
       <1>23, <1>24, <1>25, <1>26, <1>27, <1>28, <1>29
    DEF Next, Command, Engine, Environment

\* Every variable keeps its type, for any number of targets, under every
\* combination of faults.
THEOREM TypeCorrect == Spec => []TypeOK
  <1>1. TypeInv => TypeOK
    BY DEF TypeInv
  <1> QED
    BY <1>1, TypeInit, TypeStep, PTL DEF Spec

\* Intent before act: whatever fails, and in commands and recovery alike, the
\* program changes a path only under a row already in the journal.
THEOREM IntentFirst == Spec => IntentBeforeAct
  <1> DEFINE Intended == volatile' # volatile =>
                           \A t \in Target : disk'[t] # disk[t] => Pending(t)
  <1>1. TypeInv /\ [Next]_vars => [Intended]_vars
    <2> SUFFICES ASSUME TypeInv, Next, volatile' # volatile,
                        NEW t \in Target, disk'[t] # disk[t]
                 PROVE  Pending(t)
      BY DEF vars
    <2>1. pc # "next" /\ cur.target = t
      BY RowFacts DEF Next, Command, Engine, Environment, TypeInv, TypeOK, Control,
        StartDeploy, StartPurge, Launch, Quit, DeployNext, DeploySkip, DeployEnd, PurgeNext,
        PurgeEnd, ReplayNext, ReplayEnd, BackupCopy, BackupSkip, RecordVanilla, PlaceRemove,
        PlaceCreate, PlaceFails, RecordDeployed, Unlink, Restore, RestoreNothing, RestoreFails,
        DropManifest, MarkDone, Crash, Failure, Fail, TornBackup, TornPlace, TornRestore,
        SteamDelete, SteamWrite, Unstage, LoseBlob, durable, volatile, history
    <2>2. \E i \in 1 .. Len(journal) : journal[i] = cur
      BY <2>1, JournalFacts DEF TypeInv, TypeOK, Control
    <2> QED
      BY <2>1, <2>2 DEF Pending
  <1>2. Spec => [][Intended]_vars
    BY <1>1, TypeInit, TypeStep, PTL DEF Spec
  <1> QED
    BY <1>2 DEF IntentBeforeAct

\* The last pending row of a path is closed only when the manifest, if it
\* claims the path, describes what is there.
THEOREM RowsClosed == Spec => RowsClosedConsistent
  <1> DEFINE Closing == \A t \in Target : Pending(t) /\ ~ Pending(t)' /\ manifest[t] # None
                          => disk[t] = manifest[t].hash
  <1>1. TypeInv /\ [Next]_vars => [Closing]_vars
    <2> SUFFICES ASSUME TypeInv, Next, NEW t \in Target,
                        Pending(t), ~ Pending(t)', manifest[t] # None
                 PROVE  disk[t] = manifest[t].hash
      BY DEF vars
    <2> USE DEF TypeInv, TypeOK
    <2>1. PICK i \in 1 .. Len(journal) : journal[i].target = t
      BY DEF Pending
    <2>2. journal # << >> /\ journal \in Seq(Row)
      BY <2>1, EmptySeq
    <2>3. CASE MarkDone
      <3>1. pc = "mark"
        BY <2>3 DEF MarkDone
      <3>2. CASE phase = "replay"
        <4>1. journal' = Tail(journal) /\ cur = Head(journal)
          BY <2>3, <3>1, <3>2 DEF MarkDone, Control
        <4>2. i = 1
          <5> SUFFICES ASSUME i # 1 PROVE FALSE
            OBVIOUS
          <5>1. i - 1 \in 1 .. Len(journal') /\ journal'[i - 1] = journal[i]
            BY <4>1, <2>2, HeadTailProperties
          <5> QED
            BY <5>1, <2>1 DEF Pending
        <4> QED
          BY <4>1, <4>2, <3>1, <2>1, <2>2, JournalFacts DEF Control
      <3>3. CASE phase # "replay"
        <4>1. journal' = SubSeq(journal, 1, Len(journal) - 1) /\ cur = journal[Len(journal)]
          BY <2>3, <3>1, <3>3 DEF MarkDone, Control
        <4>2. i = Len(journal)
          <5> SUFFICES ASSUME i # Len(journal) PROVE FALSE
            OBVIOUS
          <5>1. i \in 1 .. Len(journal') /\ journal'[i] = journal[i]
            BY <4>1, <2>2
          <5> QED
            BY <5>1, <2>1 DEF Pending
        <4> QED
          BY <4>1, <4>2, <3>1, <2>1 DEF Control
      <3> QED
        BY <3>2, <3>3
    <2>4. CASE DeployNext \/ PurgeNext
      <3>1. PICK r \in Row : journal' = Append(journal, r)
        <4>1. CASE DeployNext
          BY <4>1, RowFacts, TargetFacts DEF DeployNext, BeginOp
        <4>2. CASE PurgeNext
          BY <4>2, RowFacts, TargetFacts DEF PurgeNext, BeginOp
        <4> QED
          BY <2>4, <4>1, <4>2
      <3>2. i \in 1 .. Len(journal') /\ journal'[i] = journal[i]
        BY <3>1, <2>2, AppendFacts
      <3> QED
        BY <3>2, <2>1 DEF Pending
    <2>5. CASE UNCHANGED journal
      BY <2>5 DEF Pending
    <2> QED
      BY <2>3, <2>4, <2>5 DEF Next, Command, Engine, Environment,
        StartDeploy, StartPurge, Launch, Quit, DeploySkip, DeployEnd,
        PurgeEnd, ReplayNext, ReplayEnd, BackupCopy, BackupSkip, RecordVanilla, PlaceRemove,
        PlaceCreate, PlaceFails, RecordDeployed, Unlink, Restore, RestoreNothing, RestoreFails,
        DropManifest, Crash, Failure, Fail, TornBackup, TornPlace, TornRestore,
        SteamDelete, SteamWrite, Unstage, LoseBlob, durable, volatile, history
  <1>2. Spec => [][Closing]_vars
    BY <1>1, TypeInit, TypeStep, PTL DEF Spec
  <1> QED
    BY <1>2 DEF RowsClosedConsistent

-----------------------------------------------------------------------------
(***************************************************************************)
(* The deploy engine keeps every original and explains every path, for any *)
(* number of targets, mods and originals and any bound, when the process   *)
(* may die at any point, inside any of its file copies too, and Steam may  *)
(* add or update files, provided no mod ships the bytes of an original.    *)
(***************************************************************************)

CrashFaults  == Faults \subseteq {"crash", "torn_backup", "torn_place", "torn_restore", "write"}
DistinctMods == Mod \cap Vanilla = {}

(* The ledger and the store have of t what a purge needs: its original, or *)
(* what a copy that was cut short made of it.                              *)
Kept(t) ==
  IF orig[t] = Absent THEN ledger[t] \in {None, Torn}
  ELSE ledger[t] \in {orig[t], Torn} /\ blob[orig[t]] # "none"

(* What is in the originals store stays there as it is.                    *)
BlobsStay == \A h \in Bytes : blob[h] # "none" => blob'[h] = blob[h]

(* Recovery closes its row before any command opens one.                   *)
JournalShape ==
  /\ journal = << >> \/ \E r \in Row : journal = <<r>>
  /\ phase = "idle" => journal = << >>
  /\ phase \in {"purge", "deploy"} /\ cur = None => journal = << >>

Worklist ==
  /\ cur # None => cur.target \notin todo
  /\ phase \in {"down", "idle", "replay"} => todo = {}
  /\ phase = "purge" => \A t \in todo : manifest[t] # None

LedgerSound ==
  \A t \in Target : ledger[t] # None =>
    /\ blob[ledger[t]] # "none"
    /\ ledger[t] = Torn \/ (ledger[t] \in Vanilla /\ orig[t] # Absent)

PathSound ==
  \A t \in Target :
    /\ disk[t] = orig[t] \/ Kept(t)
    /\ manifest[t] # None => Kept(t)
    /\ ~ Pending(t) => IF manifest[t] = None THEN AsLeft(t) ELSE disk[t] = manifest[t].hash

(* A path with a pending row is in one of the states recovery knows.       *)
RowSound(r) ==
  /\ r.kind = "purge" => Kept(r.target)
  /\ r.kind = "deploy" /\ manifest[r.target] = None =>
       disk[r.target] \in {orig[r.target], Absent, r.src, Torn}

JournalSound == \A i \in 1 .. Len(journal) : RowSound(journal[i])

(* The operation in flight, between two durable writes.                    *)
InFlight ==
  LET t == cur.target IN
  /\ pc = "backup" /\ manifest[t] = None => disk[t] \in {orig[t], Absent, Torn}
  /\ pc = "record" => /\ disk[t] \in {orig[t], Torn}
                      /\ blob[disk[t]] # "none"
                      /\ orig[t] # Absent => blob[orig[t]] # "none"
  /\ pc \in {"place", "create", "manifest"} => Kept(t)
  /\ pc = "create" => disk[t] = Absent
  /\ pc = "mark" => IF cur.kind = "deploy" THEN manifest[t] # None
                    ELSE manifest[t] = None /\ AsLeft(t)
  /\ pc \in {"unlink", "restore", "drop"} => cur.kind = "purge"
  /\ pc = "restore" => disk[t] = Absent
  /\ pc = "drop" => AsLeft(t)

CrashInv ==
  /\ TypeInv
  /\ staged = Mod \X Target
  /\ JournalShape
  /\ Worklist
  /\ LedgerSound
  /\ PathSound
  /\ JournalSound
  /\ InFlight

-----------------------------------------------------------------------------
LEMMA OneRow ==
  ASSUME NEW r \in Row
  PROVE  /\ <<r>> # << >> /\ Len(<<r>>) = 1 /\ <<r>>[1] = r
         /\ Head(<<r>>) = r /\ Tail(<<r>>) = << >>
         /\ SubSeq(<<r>>, 1, Len(<<r>>) - 1) = << >>
         /\ Append(<< >>, r) = <<r>>
  <1>1. SubSeq(<<r>>, 1, 0) = << >>
    BY EmptySeq, SubSeqProperties
  <1> QED
    BY <1>1

\* With at most one row, a path is pending iff the row is its own.
LEMMA PendingFacts ==
  ASSUME NEW t \in Target
  PROVE  /\ journal = << >> => ~ Pending(t)
         /\ \A r \in Row : journal = <<r>> => (Pending(t) <=> r.target = t)
  BY OneRow DEF Pending

\* While an operation is in flight its row is the journal.
LEMMA InFlightFacts ==
  ASSUME CrashInv, pc # "next"
  PROVE  /\ cur \in Row /\ cur.target \in Target
         /\ journal = <<cur>>
         /\ RowSound(cur)
         /\ \A t \in Target : Pending(t) <=> t = cur.target
  <1> USE DEF CrashInv
  <1>1. cur \in Row /\ cur.target \in Target /\ journal # << >>
    BY RowFacts DEF TypeInv, Control
  <1>2. PICK r \in Row : journal = <<r>>
    BY <1>1 DEF JournalShape
  <1>3. r = cur
    BY <1>1, <1>2, OneRow DEF TypeInv, Control
  <1>4. RowSound(cur)
    BY <1>2, <1>3, OneRow DEF JournalSound
  <1> QED
    BY <1>1, <1>2, <1>3, <1>4, PendingFacts

\* What holds of a path whose file and rows a step leaves alone.
LEMMA PathStays ==
  ASSUME TypeOK, BlobsStay, NEW t \in Target,
         disk'[t] = disk[t] /\ ledger'[t] = ledger[t] /\ orig'[t] = orig[t]
  PROVE  (Kept(t) => Kept(t)') /\ (AsLeft(t) => AsLeft(t)')
  <1>1. orig[t] # Absent => orig[t] \in Bytes
    BY DEF TypeOK, Bytes
  <1> QED
    BY <1>1 DEF BlobsStay, Kept, AsLeft, CutShortAt

\* A step of the operation in flight has to establish only what concerns its
\* own path.
LEMMA OwnPath ==
  ASSUME CrashInv, pc # "next", BlobsStay, UNCHANGED <<journal, orig>>,
         NEW r \in Row, r = cur, NEW u \in Target, u = r.target,
         \A t \in Target \ {u} :
           disk'[t] = disk[t] /\ manifest'[t] = manifest[t] /\ ledger'[t] = ledger[t],
         RowSound(r)', disk'[u] = orig[u] \/ Kept(u)', manifest'[u] # None => Kept(u)'
  PROVE  PathSound' /\ JournalSound'
  <1>1. journal = <<r>> /\ \A t \in Target : Pending(t) <=> t = u
    BY InFlightFacts
  <1>2. JournalSound'
    BY <1>1, OneRow DEF JournalSound
  <1>3. ASSUME NEW t \in Target
        PROVE  /\ disk'[t] = orig'[t] \/ Kept(t)'
               /\ manifest'[t] # None => Kept(t)'
               /\ ~ Pending(t)' => IF manifest'[t] = None THEN AsLeft(t)'
                                                           ELSE disk'[t] = manifest'[t].hash
    <2>1. Pending(t)' <=> Pending(t)
      BY DEF Pending
    <2>2. CASE t = u
      BY <2>1, <2>2, <1>1
    <2>3. CASE t # u
      <3>1. disk'[t] = disk[t] /\ manifest'[t] = manifest[t] /\ ledger'[t] = ledger[t]
            /\ orig'[t] = orig[t]
        BY <2>3
      <3>2. (Kept(t) => Kept(t)') /\ (AsLeft(t) => AsLeft(t)')
        BY <3>1, PathStays DEF CrashInv, TypeInv
      <3> QED
        BY <2>1, <2>3, <1>1, <3>1, <3>2 DEF CrashInv, PathSound
    <2> QED
      BY <2>2, <2>3
  <1> QED
    BY <1>2, <1>3 DEF PathSound

LEMMA FileStep ==
  ASSUME CrashInv, TypeInv', pc # "next", BlobsStay,
         UNCHANGED <<journal, cur, phase, todo, orig, staged>>,
         \A t \in Target \ {cur.target} :
           disk'[t] = disk[t] /\ manifest'[t] = manifest[t] /\ ledger'[t] = ledger[t],
         LedgerSound', InFlight', RowSound(cur)',
         disk'[cur.target] = orig[cur.target] \/ Kept(cur.target)',
         manifest'[cur.target] # None => Kept(cur.target)'
  PROVE  CrashInv'
  <1>1. PICK r \in Row, u \in Target : r = cur /\ u = r.target
    BY InFlightFacts
  <1>2. JournalShape'
    BY DEF CrashInv, JournalShape
  <1>3. Worklist'
    BY <1>1, RowFacts DEF CrashInv, Worklist, TypeInv, TypeOK
  <1>4. RowSound(r)' /\ (disk'[u] = orig[u] \/ Kept(u)') /\ (manifest'[u] # None => Kept(u)')
    BY <1>1
  <1>5. PathSound' /\ JournalSound'
    BY <1>1, <1>4, OwnPath
  <1> QED
    BY <1>2, <1>3, <1>5 DEF CrashInv

\* The process dies inside a file copy: only the path in hand, or the store,
\* has changed.
LEMMA TornStep ==
  ASSUME CrashInv, TypeInv', pc # "next", BlobsStay, Die,
         UNCHANGED <<manifest, ledger, staged, journal, orig>>,
         NEW r \in Row, r = cur, NEW u \in Target, u = r.target,
         \A t \in Target \ {u} : disk'[t] = disk[t],
         RowSound(r)', disk'[u] = orig[u] \/ Kept(u)', manifest[u] # None => Kept(u)'
  PROVE  CrashInv'
  <1>1. PathSound' /\ JournalSound'
    BY OwnPath
  <1>2. LedgerSound'
    BY DEF CrashInv, LedgerSound, BlobsStay, TypeInv, TypeOK
  <1>3. InFlight' /\ Worklist' /\ JournalShape'
    BY DEF Die, InFlight, Worklist, JournalShape, CrashInv
  <1> QED
    BY <1>1, <1>2, <1>3 DEF CrashInv

\* A step that ends the loop or the process, or starts a loop, and leaves
\* every file and row alone.
LEMMA ControlStep ==
  ASSUME CrashInv, TypeInv', pc' = "next", UNCHANGED <<disk, manifest, ledger, blob, staged, journal, orig>>,
         JournalShape', Worklist'
  PROVE  CrashInv'
  <1>1. LedgerSound' /\ PathSound' /\ JournalSound'
    BY DEF CrashInv, LedgerSound, PathSound, JournalSound, RowSound, Kept, AsLeft, CutShortAt,
      Pending
  <1>2. InFlight'
    BY DEF InFlight
  <1> QED
    BY <1>1, <1>2 DEF CrashInv

LEMMA CrashInit == Init => CrashInv
  <1> SUFFICES ASSUME Init PROVE CrashInv
    OBVIOUS
  <1>1. TypeInv
    BY TypeInit
  <1>2. \A t \in Target : disk[t] = orig[t] /\ manifest[t] = None /\ ledger[t] = None
    BY DEF Init
  <1>3. journal = << >> /\ Len(journal) = 0 /\ staged = Mod \X Target /\ phase = "down"
        /\ pc = "next" /\ cur = None /\ todo = {} /\ \A h \in Bytes : blob[h] = "none"
    BY EmptySeq DEF Init
  <1> QED
    BY <1>1, <1>2, <1>3
    DEF CrashInv, JournalShape, Worklist, LedgerSound, PathSound, AsLeft, JournalSound, InFlight, Pending

LEMMA CrashStep ==
  ASSUME CrashFaults, DistinctMods, CrashInv, [Next]_vars
  PROVE  CrashInv'
  <1>t. TypeInv'
    BY TypeStep DEF CrashInv
  <1> USE RowFacts, NameAssumption, <1>t DEF durable, volatile, history
  <1>i. TypeOK /\ Control
    BY DEF CrashInv, TypeInv
  <1>1. CASE \E w \in Plan : StartDeploy(w) \/ StartPurge(w)
    BY <1>1, <1>i, ControlStep
    DEF StartDeploy, StartPurge, CrashInv, JournalShape, Worklist, Managed, Control
  <1>2. CASE Launch \/ Quit
    BY <1>2, <1>i, ControlStep DEF Launch, Quit, CrashInv, JournalShape, Worklist, Control
  <1>3. CASE DeployNext
    <2>1. PICK t \in First(todo) :
            BeginOp([kind |-> "deploy", target |-> t, src |-> plan[t]], "backup")
      BY <1>3 DEF DeployNext
    <2> DEFINE row == [kind |-> "deploy", target |-> t, src |-> plan[t]]
    <2>2. t \in Target /\ row \in Row
      <3>1. t \in Target
        BY <1>i, TargetFacts DEF TypeOK
      <3>2. plan[t] \in Mod
        BY <1>3, <1>i, <2>1, <1>t, <3>1 DEF TypeInv, Control, BeginOp, DeployNext, TypeOK
      <3> QED
        BY <3>1, <3>2
    <2>3. journal = << >>
      BY <1>3, <1>i DEF DeployNext, CrashInv, JournalShape, Control
    <2>4. row.kind = "deploy" /\ row.target = t
      OBVIOUS
    <2>5. journal' = <<row>> /\ cur' = row /\ pc' = "backup" /\ phase' = "deploy" /\ t \notin todo'
      BY <1>3, <2>1, <2>2, <2>3, OneRow DEF DeployNext, BeginOp
    <2>6. UNCHANGED <<disk, manifest, ledger, blob, staged, orig>> /\ todo' \subseteq todo
      BY <1>3, <2>1 DEF DeployNext, BeginOp
    <2> HIDE DEF row
    <2>7. \A u \in Target : ~ Pending(u)
      BY <2>3, PendingFacts
    <2>8. disk[t] \in {orig[t], Torn} \/ manifest[t] # None
      BY <2>2, <2>7 DEF CrashInv, PathSound, AsLeft
    <2>9. JournalShape' /\ Worklist'
      BY <2>2, <2>4, <2>5, <2>6 DEF JournalShape, Worklist
    <2>10. LedgerSound' /\ PathSound'
      BY <2>6, <2>7 DEF CrashInv, LedgerSound, PathSound, Kept, AsLeft, CutShortAt
    <2>11. JournalSound'
      BY <2>2, <2>4, <2>5, <2>6, <2>8, OneRow DEF JournalSound, RowSound
    <2>12. InFlight'
      BY <2>4, <2>5, <2>6, <2>8 DEF InFlight
    <2> QED
      BY <2>6, <2>9, <2>10, <2>11, <2>12 DEF CrashInv
  <1>4. CASE DeploySkip
    BY <1>4, <1>i, ControlStep DEF DeploySkip, CrashInv, JournalShape, Worklist, Control
  <1>5. CASE DeployEnd
    BY <1>5, <1>i, ControlStep DEF DeployEnd, Return, CrashInv, JournalShape, Worklist, Control
  <1>6. CASE PurgeNext
    <2>1. PICK t \in First(todo) :
            BeginOp([kind |-> "purge", target |-> t, src |-> None], "unlink")
      BY <1>6 DEF PurgeNext
    <2> DEFINE row == [kind |-> "purge", target |-> t, src |-> None]
    <2>2. t \in todo /\ t \in Target /\ row \in Row
      BY <1>i, TargetFacts DEF TypeOK
    <2>3. journal = << >>
      BY <1>6, <1>i DEF PurgeNext, CrashInv, JournalShape, Control
    <2>4. row.kind = "purge" /\ row.target = t
      OBVIOUS
    <2>5. journal' = <<row>> /\ cur' = row /\ pc' = "unlink" /\ phase' = "purge"
          /\ todo' = todo \ {t}
      BY <1>6, <2>1, <2>2, <2>3, OneRow DEF PurgeNext, BeginOp
    <2>6. UNCHANGED <<disk, manifest, ledger, blob, staged, orig>>
      BY <1>6 DEF PurgeNext
    <2> HIDE DEF row
    <2>7. \A u \in Target : ~ Pending(u)
      BY <2>3, PendingFacts
    <2>8. Kept(t)
      BY <1>6, <2>2 DEF PurgeNext, CrashInv, Worklist, PathSound
    <2>9. JournalShape' /\ Worklist'
      BY <1>6, <2>2, <2>4, <2>5, <2>6 DEF PurgeNext, CrashInv, JournalShape, Worklist
    <2>10. LedgerSound' /\ PathSound'
      BY <2>6, <2>7 DEF CrashInv, LedgerSound, PathSound, Kept, AsLeft, CutShortAt
    <2>11. JournalSound'
      BY <2>2, <2>4, <2>5, <2>6, <2>8, OneRow DEF JournalSound, RowSound, Kept
    <2>12. InFlight'
      BY <2>4, <2>5 DEF InFlight
    <2> QED
      BY <2>6, <2>9, <2>10, <2>11, <2>12 DEF CrashInv
  <1>7. CASE PurgeEnd
    BY <1>7, <1>i, ControlStep DEF PurgeEnd, Return, CrashInv, JournalShape, Worklist, Control
  <1>8. CASE ReplayNext
    <2>1. PICK r \in Row : journal = <<r>>
      BY <1>8 DEF ReplayNext, CrashInv, JournalShape
    <2>2. cur' = r /\ Head(journal) = r /\ RowSound(r) /\ r.target \in Target
      BY <1>8, <2>1, OneRow DEF ReplayNext, CrashInv, JournalSound
    <2>3. UNCHANGED <<disk, manifest, ledger, blob, staged, journal, orig, phase, todo>>
      BY <1>8 DEF ReplayNext
    <2>4. LedgerSound' /\ PathSound' /\ JournalSound' /\ JournalShape'
      BY <2>3, <1>8 DEF ReplayNext, CrashInv, LedgerSound, PathSound, JournalSound, JournalShape,
        RowSound, Kept, AsLeft, CutShortAt, Pending
    <2>5. todo = {}
      BY <1>8 DEF ReplayNext, CrashInv, Worklist
    <2>6. Worklist'
      BY <2>3, <2>5, <1>8 DEF ReplayNext, Worklist
    <2>7. InFlight'
      <3>1. CASE ReplayForward(r)
        <4>1. r.kind = "deploy" /\ r.src \in Mod
          BY <3>1 DEF ReplayForward
        <4>2. CASE disk[r.target] = r.src
          <5>1. disk[r.target] # orig[r.target]
            BY <4>1, <4>2, <2>2, <1>i DEF DistinctMods, TypeOK, Bytes
          <5>2. Kept(r.target)
            BY <5>1, <2>2 DEF CrashInv, PathSound
          <5> QED
            BY <3>1, <4>2, <5>2, <2>2, <2>3 DEF ReplayForward, InFlight, Kept
        <4>3. CASE disk[r.target] # r.src
          BY <3>1, <4>1, <4>3, <2>2, <2>3 DEF ReplayForward, InFlight, RowSound
        <4> QED
          BY <4>2, <4>3
      <3>2. CASE ReplayPurge(r)
        BY <3>2, <2>2 DEF ReplayPurge, InFlight
      <3>3. ~ ReplayLeave(r) /\ ~ ReplayBack(r)
        BY <2>2 DEF ReplayLeave, ReplayBack, CrashInv
      <3> QED
        BY <1>8, <2>2, <3>1, <3>2, <3>3 DEF ReplayNext
    <2> QED
      BY <2>3, <2>4, <2>6, <2>7 DEF CrashInv
  <1>9. CASE ReplayEnd
    BY <1>9, <1>i, ControlStep DEF ReplayEnd, Return, CrashInv, JournalShape, Worklist, Control
  <1>10. CASE BackupCopy
    <2>1. /\ cur.target \in Target /\ cur \in Row /\ cur.kind = "deploy" /\ pc = "backup"
          /\ manifest[cur.target] = None /\ disk[cur.target] \in {orig[cur.target], Torn}
          /\ disk[cur.target] # Absent /\ disk[cur.target] \in Bytes /\ RowSound(cur)
      BY <1>10, <1>i, InFlightFacts DEF BackupCopy, IsForeign, CrashInv, InFlight, Control, TypeOK
    <2>2. /\ blob' = [blob EXCEPT ![disk[cur.target]] = IF @ = "none" THEN "whole" ELSE @]
          /\ pc' = "record"
          /\ UNCHANGED <<disk, manifest, ledger, staged, journal, phase, cur, todo, orig>>
      BY <1>10 DEF BackupCopy, Goto
    <2>3. BlobsStay /\ blob'[disk[cur.target]] # "none"
      BY <2>1, <2>2, <1>i DEF BlobsStay, TypeOK
    <2>4. disk[cur.target] = orig[cur.target] \/ Kept(cur.target)
      BY <2>1 DEF CrashInv, PathSound
    <2>5. Kept(cur.target) => Kept(cur.target)'
      BY <2>1, <2>2, <2>3, <1>i, PathStays
    <2>6. orig[cur.target] # Absent => blob'[orig[cur.target]] # "none"
      BY <2>2, <2>3, <2>4, <2>5 DEF Kept
    <2>7. LedgerSound'
      BY <2>2, <2>3, <1>i DEF CrashInv, LedgerSound, BlobsStay, TypeOK
    <2>8. InFlight' /\ RowSound(cur)'
      BY <2>1, <2>2, <2>3, <2>6 DEF InFlight, RowSound
    <2> QED
      BY <2>1, <2>2, <2>3, <2>4, <2>5, <2>7, <2>8, FileStep
  <1>11. CASE BackupSkip
    BY <1>11, <1>i, FileStep, InFlightFacts DEF BackupSkip, Goto, IsForeign, CrashInv, LedgerSound, PathSound, InFlight, RowSound, Kept, TypeOK, BlobsStay
  <1>12. CASE RecordVanilla
    <2>1. /\ cur.target \in Target /\ cur \in Row /\ cur.kind = "deploy"
          /\ disk[cur.target] \in {orig[cur.target], Torn} /\ blob[disk[cur.target]] # "none"
          /\ orig[cur.target] # Absent => blob[orig[cur.target]] # "none"
          /\ orig[cur.target] \in Vanilla \cup {Absent} /\ disk[cur.target] # Absent
      BY <1>12, <1>i, InFlightFacts DEF RecordVanilla, CrashInv, InFlight, Control, TypeOK, Bytes
    <2>2. /\ ledger' = [ledger EXCEPT ![cur.target] = disk[cur.target]] /\ pc' = "place"
          /\ UNCHANGED <<disk, manifest, blob, staged, journal, phase, cur, todo, orig>>
      BY <1>12, <2>1 DEF RecordVanilla, Goto
    <2>3. Kept(cur.target)' /\ BlobsStay
      BY <2>1, <2>2, <1>i DEF Kept, TypeOK, BlobsStay
    <2>4. LedgerSound'
      BY <2>1, <2>2, <1>i DEF CrashInv, LedgerSound, TypeOK
    <2>5. RowSound(cur)'
      BY <2>1, <2>2 DEF RowSound
    <2>6. InFlight'
      BY <2>2, <2>3 DEF InFlight
    <2> QED
      BY <1>12, <1>i, <2>1, <2>2, <2>3, <2>4, <2>5, <2>6, FileStep DEF RecordVanilla, TypeOK
  <1>13. CASE PlaceRemove
    BY <1>13, <1>i, FileStep, InFlightFacts DEF PlaceRemove, Goto, CrashInv, LedgerSound, PathSound, InFlight, RowSound, Kept, TypeOK, BlobsStay
  <1>14. CASE PlaceCreate
    BY <1>14, <1>i, FileStep, InFlightFacts DEF PlaceCreate, Goto, CrashInv, LedgerSound, PathSound, InFlight, RowSound, Kept, TypeOK, BlobsStay
  <1>15. CASE PlaceFails
    BY <1>15, <1>i, InFlightFacts DEF PlaceFails, CrashInv, Control
  <1>16. CASE RecordDeployed
    <2>1. /\ cur.target \in Target /\ cur \in Row /\ cur.kind = "deploy"
          /\ Kept(cur.target) /\ disk[cur.target] = cur.src
      BY <1>16, <1>i, InFlightFacts DEF RecordDeployed, CrashInv, InFlight, Control
    <2>2. PICK e \in Entry : manifest' = [manifest EXCEPT ![cur.target] = e]
      <3> DEFINE m == IF phase = "replay" \/ cur.src = Local THEN None ELSE cur.src
      <3>1. m \in Mod \cup {None} /\ cur.src \in Mod
        BY <2>1
      <3>2. [hash |-> cur.src, source_mod |-> m] \in Entry
        BY <3>1 DEF Entry
      <3> QED
        BY <1>16, <3>2 DEF RecordDeployed
    <2>3. manifest'[cur.target] # None
      BY <1>i, <2>1, <2>2, NoneAssumption DEF TypeOK
    <2>4. UNCHANGED <<disk, ledger, blob, staged, journal, phase, cur, todo, orig>> /\ pc' = "mark"
          /\ BlobsStay
      BY <1>16 DEF RecordDeployed, Goto, BlobsStay
    <2>5. Kept(cur.target)' /\ RowSound(cur)' /\ InFlight' /\ LedgerSound'
      BY <2>1, <2>3, <2>4 DEF Kept, RowSound, InFlight, CrashInv, LedgerSound
    <2> QED
      BY <1>i, <2>1, <2>2, <2>4, <2>5, <1>16, FileStep DEF RecordDeployed, TypeOK
  <1>17. CASE Unlink
    BY <1>17, <1>i, FileStep, InFlightFacts DEF Unlink, Goto, CrashInv, LedgerSound, PathSound, InFlight, RowSound, Kept, TypeOK, BlobsStay
  <1>18. CASE Restore
    <2>1. /\ cur.target \in Target /\ cur.kind = "purge" /\ Kept(cur.target) /\ pc = "restore"
          /\ ledger[cur.target] # None /\ RowSound(cur) /\ cur \in Row
      BY <1>18, InFlightFacts DEF Restore, CrashInv, InFlight, RowSound
    <2>2. /\ disk' = [disk EXCEPT ![cur.target] =
                       IF blob[ledger[cur.target]] = "whole" THEN ledger[cur.target] ELSE Torn]
          /\ pc' = "drop" /\ BlobsStay
          /\ UNCHANGED <<manifest, ledger, blob, staged, journal, phase, cur, todo, orig>>
      BY <1>18 DEF Restore, Goto, BlobsStay
    <2>3. disk'[cur.target] = IF blob[ledger[cur.target]] = "whole" THEN ledger[cur.target] ELSE Torn
      BY <2>1, <2>2, <1>i DEF TypeOK
    <2>4. ledger[cur.target] # Torn =>
            /\ ledger[cur.target] = orig[cur.target] /\ orig[cur.target] # Absent
            /\ orig[cur.target] \in Bytes /\ blob[orig[cur.target]] \in {"torn", "whole"}
      BY <2>1, <1>i DEF Kept, TypeOK, Bytes
    <2>5. AsLeft(cur.target)'
      BY <2>2, <2>3, <2>4 DEF AsLeft, CutShortAt
    <2>6. Kept(cur.target)' /\ RowSound(cur)' /\ InFlight' /\ LedgerSound'
      BY <2>1, <2>2, <2>5 DEF Kept, RowSound, InFlight, CrashInv, LedgerSound
    <2> QED
      BY <2>1, <2>2, <2>6, <1>i, FileStep DEF TypeOK
  <1>19. CASE RestoreNothing
    <2>1. cur.target \in Target /\ cur.kind = "purge" /\ Kept(cur.target)
          /\ ledger[cur.target] = None /\ disk[cur.target] = Absent
      BY <1>19, InFlightFacts DEF RestoreNothing, CrashInv, InFlight, RowSound
    <2>2. orig[cur.target] = Absent
      BY <2>1, <1>i DEF Kept, TypeOK, Bytes
    <2>3. AsLeft(cur.target)' /\ BlobsStay
      BY <1>19, <2>1, <2>2 DEF RestoreNothing, Goto, AsLeft, BlobsStay
    <2> QED
      BY <1>19, <1>i, <2>1, <2>2, <2>3, FileStep, InFlightFacts
      DEF RestoreNothing, Goto, CrashInv, LedgerSound, InFlight, RowSound, Kept
  <1>20. CASE RestoreFails
    BY <1>20, <1>i, InFlightFacts DEF RestoreFails, CrashInv, LedgerSound
  <1>21. CASE DropManifest
    <2>1. /\ cur.target \in Target /\ cur.kind = "purge" /\ Kept(cur.target)
          /\ AsLeft(cur.target) /\ pc = "drop"
      BY <1>21, InFlightFacts DEF DropManifest, CrashInv, InFlight, RowSound
    <2>2. /\ manifest' = [manifest EXCEPT ![cur.target] = None] /\ pc' = "mark" /\ BlobsStay
          /\ UNCHANGED <<disk, ledger, blob, staged, journal, phase, cur, todo, orig>>
      BY <1>21 DEF DropManifest, Goto, BlobsStay
    <2>3. AsLeft(cur.target)' /\ Kept(cur.target)' /\ manifest'[cur.target] = None
      BY <2>1, <2>2, <1>i DEF AsLeft, CutShortAt, Kept, TypeOK
    <2>4. RowSound(cur)' /\ InFlight' /\ LedgerSound'
      BY <2>1, <2>2, <2>3 DEF RowSound, InFlight, CrashInv, LedgerSound
    <2> QED
      BY <2>1, <2>2, <2>3, <2>4, <1>i, FileStep DEF TypeOK
  <1>22. CASE MarkDone
    <2>1. /\ pc = "mark" /\ cur \in Row /\ cur.target \in Target /\ journal = <<cur>>
          /\ \A t \in Target : Pending(t) <=> t = cur.target
      BY <1>22, InFlightFacts DEF MarkDone
    <2>2. journal' = << >> /\ pc' = "next"
      BY <1>22, <2>1, OneRow DEF MarkDone
    <2>3. UNCHANGED <<disk, manifest, ledger, blob, staged, orig, phase, todo>>
      BY <1>22 DEF MarkDone
    <2>4. \A t \in Target : Kept(t) => Kept(t)'
      BY <2>3 DEF Kept
    <2>5. PathSound'
      <3> SUFFICES ASSUME NEW t \in Target
                   PROVE  IF manifest[t] = None THEN AsLeft(t) ELSE disk[t] = manifest[t].hash
        BY <2>3, <2>4 DEF CrashInv, PathSound, AsLeft, CutShortAt
      <3>1. CASE t = cur.target
        BY <3>1, <2>1, <1>i DEF CrashInv, InFlight, Control
      <3>2. CASE t # cur.target
        BY <3>2, <2>1 DEF CrashInv, PathSound
      <3> QED
        BY <3>1, <3>2
    <2>6. LedgerSound' /\ JournalShape' /\ JournalSound' /\ InFlight'
      BY <2>2, <2>3, EmptySeq DEF CrashInv, LedgerSound, JournalShape, JournalSound, InFlight
    <2>7. Worklist'
      BY <1>22, <2>3 DEF MarkDone, CrashInv, Worklist
    <2> QED
      BY <2>3, <2>5, <2>6, <2>7 DEF CrashInv
  <1>23. CASE Crash
    BY <1>23, <1>i, ControlStep DEF Crash, Fault, Die, CrashInv, JournalShape, Worklist, Control
  <1>24. CASE TornBackup \/ TornPlace \/ TornRestore
    <2>0. PICK r \in Row, u \in Target : r = cur /\ u = r.target
      BY <1>24, InFlightFacts DEF TornBackup, TornPlace, TornRestore
    <2>1. RowSound(r) /\ pc # "next" /\ Die
      BY <1>24, <2>0, InFlightFacts DEF TornBackup, TornPlace, TornRestore, CutShort, CrashFaults
    <2>2. UNCHANGED <<manifest, ledger, staged, journal, orig>>
      BY <1>24 DEF TornBackup, TornPlace, TornRestore, Fault
    <2>3. BlobsStay
      BY <1>24, <1>i, <2>0 DEF TornBackup, TornPlace, TornRestore, BlobsStay, IsForeign, TypeOK
    <2>4. UNCHANGED disk \/ (disk' = [disk EXCEPT ![u] = Torn] /\ Kept(u))
      <3>1. CASE TornBackup
        BY <3>1 DEF TornBackup
      <3>2. CASE TornPlace
        BY <3>2, <2>0 DEF TornPlace, CrashInv, InFlight
      <3>3. CASE TornRestore
        BY <3>3, <2>0, <2>1 DEF TornRestore, CrashInv, InFlight, RowSound
      <3> QED
        BY <1>24, <3>1, <3>2, <3>3
    <2>5. \A t \in Target \ {u} : disk'[t] = disk[t]
      BY <2>4, <1>i DEF TypeOK
    <2>6. orig[u] # Absent => orig[u] \in Bytes
      BY <1>i DEF TypeOK, Bytes
    <2>7. Kept(u) => Kept(u)'
      BY <2>2, <2>3, <2>6 DEF Kept, BlobsStay
    <2>8. disk'[u] = orig[u] \/ Kept(u)'
      BY <2>4, <2>7 DEF CrashInv, PathSound
    <2>9. manifest[u] # None => Kept(u)'
      BY <2>7 DEF CrashInv, PathSound
    <2>10. RowSound(r)'
      BY <2>0, <2>1, <2>2, <2>4, <2>7, <1>i DEF RowSound, TypeOK
    <2> QED
      BY <2>0, <2>1, <2>2, <2>3, <2>5, <2>8, <2>9, <2>10, TornStep
  <1>25. CASE \E t \in Target, v \in Vanilla : SteamWrite(t, v)
    <2>1. PICK t \in Target, v \in Vanilla : SteamWrite(t, v)
      BY <1>25
    <2>2. v # Absent /\ v # None /\ v # Torn
      BY DEF Bytes
    <2>3. manifest[t] = None /\ ~ Pending(t) /\ (cur # None => cur.target # t)
      BY <2>1 DEF SteamWrite, Touchable, CrashFaults
    <2>4. /\ disk' = [disk EXCEPT ![t] = v] /\ orig' = [orig EXCEPT ![t] = v]
          /\ UNCHANGED <<manifest, ledger, blob, staged, journal, phase, pc, cur, todo>>
      BY <2>1 DEF SteamWrite
    <2>5. disk'[t] = v /\ orig'[t] = v
          /\ \A u \in Target \ {t} : disk'[u] = disk[u] /\ orig'[u] = orig[u]
      BY <2>4, <1>i DEF TypeOK
    <2>6. \A u \in Target : /\ Pending(u)' <=> Pending(u)
                            /\ u # t => (Kept(u) <=> Kept(u)') /\ (AsLeft(u) <=> AsLeft(u)')
      BY <2>4, <2>5 DEF Pending, Kept, AsLeft, CutShortAt
    <2>7. LedgerSound'
      BY <2>2, <2>4, <2>5 DEF CrashInv, LedgerSound
    <2>8. PathSound'
      <3> SUFFICES ASSUME NEW u \in Target
                   PROVE  /\ disk'[u] = orig'[u] \/ Kept(u)'
                          /\ manifest'[u] # None => Kept(u)'
                          /\ ~ Pending(u)' => IF manifest'[u] = None THEN AsLeft(u)'
                                                                 ELSE disk'[u] = manifest'[u].hash
        BY DEF PathSound
      <3>1. CASE u = t
        BY <3>1, <2>3, <2>4, <2>5 DEF AsLeft
      <3>2. CASE u # t
        BY <3>2, <2>4, <2>5, <2>6 DEF CrashInv, PathSound
      <3> QED
        BY <3>1, <3>2
    <2>9. JournalSound'
      <3> SUFFICES ASSUME NEW i \in 1 .. Len(journal) PROVE RowSound(journal[i])'
        BY <2>4 DEF JournalSound
      <3>1. PICK r \in Row : r = journal[i]
        BY <1>i DEF TypeOK
      <3>2. r.target \in Target \ {t} /\ RowSound(r)
        BY <2>3, <3>1 DEF Pending, CrashInv, JournalSound
      <3>3. RowSound(r)'
        BY <3>2, <2>4, <2>5, <2>6 DEF RowSound
      <3> QED
        BY <3>1, <3>3, <2>4
    <2>10. InFlight'
      <3>1. CASE pc = "next"
        BY <3>1, <2>4 DEF InFlight
      <3>2. CASE pc # "next"
        <4>1. PICK u \in Target \ {t} : u = cur.target
          BY <3>2, <2>3, InFlightFacts
        <4>2. /\ disk'[u] = disk[u] /\ orig'[u] = orig[u] /\ (Kept(u) <=> Kept(u)')
              /\ (AsLeft(u) <=> AsLeft(u)')
          BY <4>1, <2>5, <2>6
        <4> QED
          BY <4>1, <4>2, <2>4 DEF CrashInv, InFlight
      <3> QED
        BY <3>1, <3>2
    <2>11. JournalShape' /\ Worklist'
      BY <2>4 DEF CrashInv, JournalShape, Worklist
    <2> QED
      BY <2>4, <2>7, <2>8, <2>9, <2>10, <2>11 DEF CrashInv
  <1>26. CASE UNCHANGED vars
    BY <1>26, <1>i DEF vars, CrashInv, JournalShape, Worklist, LedgerSound, PathSound, JournalSound,
      InFlight, RowSound, Kept, AsLeft, CutShortAt, Pending
  <1>27. ~ (Failure
            \/ (\E t \in Target : SteamDelete(t)) \/ (\E m \in Mod : Unstage(m))
            \/ (\E h \in Bytes : LoseBlob(h)))
    BY DEF CrashFaults, Failure, Fail, SteamDelete, Unstage, LoseBlob, Fault, OutsideFault
  <1> QED
    BY <1>1, <1>2, <1>3, <1>4, <1>5, <1>6, <1>7, <1>8, <1>9, <1>10, <1>11, <1>12,
       <1>13, <1>14, <1>15, <1>16, <1>17, <1>18, <1>19, <1>20, <1>21, <1>22,
       <1>23, <1>24, <1>25, <1>26, <1>27
    DEF Next, Command, Engine, Environment

-----------------------------------------------------------------------------
LEMMA CrashInvariant ==
  ASSUME CrashFaults, DistinctMods
  PROVE  Spec => []CrashInv
  <1>1. CrashInv /\ [Next]_vars => CrashInv'
    BY CrashStep
  <1> QED
    BY <1>1, CrashInit, PTL DEF Spec

\* The bytes of every original exist: at the path, or whole in the originals
\* store with the ledger knowing of them; and a death inside a copy is the
\* only way round that. This holds whenever the process dies, inside any of
\* its file copies too.
THEOREM OriginalsAreSafe ==
  ASSUME CrashFaults, DistinctMods
  PROVE  Spec => []OriginalsSafe
  <1>1. CrashInv => OriginalsSafe
    <2> SUFFICES ASSUME CrashInv, NEW t \in Target, orig[t] # Absent, disk[t] # orig[t]
                 PROVE  \/ blob[orig[t]] = "whole" /\ ledger[t] \in {orig[t], Torn}
                        \/ blob[orig[t]] = "torn"
      BY DEF OriginalsSafe
    <2>1. Kept(t)
      BY DEF CrashInv, PathSound
    <2>2. orig[t] \in Bytes /\ blob[orig[t]] \in {"none", "torn", "whole"}
      BY DEF CrashInv, TypeInv, TypeOK, Bytes
    <2> QED
      BY <2>1, <2>2 DEF Kept
  <1> QED
    BY <1>1, CrashInvariant, PTL

\* The ledger that purge restores from is never poisoned with a mod's file,
\* and names no blob that the store does not have, wherever the process dies.
THEOREM LedgerIsClean ==
  ASSUME CrashFaults, DistinctMods
  PROVE  Spec => []LedgerClean
  <1>1. CrashInv => LedgerClean
    BY DEF CrashInv, LedgerSound, LedgerClean
  <1> QED
    BY <1>1, CrashInvariant, PTL

\* At every path with no pending row the disk is what the manifest says; where
\* the manifest says nothing it is the original, or the debris of a copy that
\* was cut short for this very path.
THEOREM PathsAreExplained ==
  ASSUME CrashFaults, DistinctMods
  PROVE  Spec => []PathsExplained
  <1>1. CrashInv => PathsExplained
    BY DEF CrashInv, PathSound, PathsExplained
  <1> QED
    BY <1>1, CrashInvariant, PTL

-----------------------------------------------------------------------------
(* The deploy engine implements ReversibleTree: the initial states map to  *)
(* initial states, and each step to one abstract step of one path or to a  *)
(* stutter, under the same assumptions.                                    *)

Status(t) == IF Pending(t) THEN "moving"
             ELSE IF manifest[t] = None THEN "original" ELSE "deployed"
Shown(t)  == IF Pending(t) THEN None ELSE disk[t]

LEMMA RefinementInit == Init => Reversible!Init
  <1> SUFFICES ASSUME Init PROVE Reversible!Init
    OBVIOUS
  <1>1. \A t \in Target : ~ Pending(t)
    BY PendingFacts DEF Init
  <1> QED
    BY <1>1 DEF Init, Reversible!Init

\* A step that keeps the journal and changes no path without a pending row is
\* a stutter of the abstract tree.
LEMMA RefinementStutter ==
  ASSUME UNCHANGED <<journal, orig>>,
         \A t \in Target : ~ Pending(t) => manifest'[t] = manifest[t] /\ disk'[t] = disk[t]
  PROVE  UNCHANGED Reversible!vars
  <1>1. \A t \in Target : /\ Pending(t)' <=> Pending(t)
                          /\ Status(t)' = Status(t)
                          /\ Shown(t)' = Shown(t)
    BY DEF Pending, Status, Shown
  <1> QED
    BY <1>1 DEF Reversible!vars, Status, Shown

\* A step that opens the row of one path is an abstract Move.
LEMMA RefinementMove ==
  ASSUME NEW t \in Target, journal = << >>, NEW r \in Row, journal' = <<r>>, r.target = t,
         UNCHANGED <<disk, manifest, orig>>
  PROVE  Reversible!Move(t)
  <1>1. \A u \in Target : ~ Pending(u) /\ (Pending(u)' <=> u = t)
    BY PendingFacts, OneRow DEF Pending
  <1> QED
    BY <1>1 DEF Reversible!Move

LEMMA RefinementStep ==
  ASSUME CrashFaults, DistinctMods, CrashInv, [Next]_vars
  PROVE  [Reversible!Next]_(Reversible!vars)
  <1> USE RowFacts DEF durable, volatile, history
  <1>i. TypeOK /\ Control
    BY DEF CrashInv, TypeInv
  <1>1. CASE DeployNext
    <2>1. PICK t \in First(todo) :
            /\ <<plan[t], t>> \in staged
            /\ BeginOp([kind |-> "deploy", target |-> t, src |-> plan[t]], "backup")
      BY <1>1 DEF DeployNext
    <2>2. t \in Target /\ plan[t] \in Mod /\ journal = << >>
      BY <1>1, <1>i, <2>1, TargetFacts DEF DeployNext, CrashInv, JournalShape, Control, TypeOK
    <2>3. Reversible!Move(t)
      BY <1>1, <2>1, <2>2, OneRow, RefinementMove DEF DeployNext, BeginOp
    <2> QED
      BY <2>2, <2>3 DEF Reversible!Next
  <1>2. CASE PurgeNext
    <2>1. PICK t \in First(todo) :
            BeginOp([kind |-> "purge", target |-> t, src |-> None], "unlink")
      BY <1>2 DEF PurgeNext
    <2>2. t \in Target /\ journal = << >>
      BY <1>2, <1>i, TargetFacts DEF PurgeNext, CrashInv, JournalShape, Control, TypeOK
    <2>3. Reversible!Move(t)
      BY <1>2, <2>1, <2>2, OneRow, RefinementMove DEF PurgeNext, BeginOp
    <2> QED
      BY <2>2, <2>3 DEF Reversible!Next
  <1>3. CASE MarkDone
    <2>0. PICK t \in Target : t = cur.target
      BY <1>3, InFlightFacts DEF MarkDone
    <2>1. /\ pc = "mark" /\ cur \in Row /\ journal = <<cur>>
          /\ \A u \in Target : Pending(u) <=> u = t
      BY <1>3, <2>0, InFlightFacts DEF MarkDone
    <2>2. journal' = << >> /\ UNCHANGED <<disk, manifest, orig>>
      BY <1>3, <2>1, OneRow DEF MarkDone
    <2>3. \A u \in Target : ~ Pending(u)'
      BY <2>2, EmptySeq DEF Pending
    <2>4. CASE manifest[t] = None
      <3>1. disk[t] = orig[t] \/ (disk[t] = Torn /\ CutShortAt(t))
        BY <2>0, <2>1, <2>4, <1>i DEF CrashInv, InFlight, AsLeft
      <3>2. Reversible!Reverted(t)
        BY <2>1, <2>2, <2>3, <2>4, <3>1 DEF Reversible!Reverted
      <3> QED
        BY <2>1, <3>2 DEF Reversible!Next
    <2>5. CASE manifest[t] # None
      <3>1. disk[t] \in Mod
        BY <2>0, <2>1, <2>5, <1>i DEF Control, TypeOK, Entry
      <3>2. Reversible!Deployed(t)
        BY <2>1, <2>2, <2>3, <2>5, <3>1 DEF Reversible!Deployed
      <3> QED
        BY <2>1, <3>2 DEF Reversible!Next
    <2> QED
      BY <2>4, <2>5
  <1>4. CASE \E t \in Target, v \in Vanilla : SteamWrite(t, v)
    <2>1. PICK t \in Target, v \in Vanilla : SteamWrite(t, v)
      BY <1>4
    <2>2. manifest[t] = None /\ ~ Pending(t)
      BY <2>1 DEF SteamWrite, Touchable, CrashFaults
    <2>3. /\ disk' = [disk EXCEPT ![t] = v] /\ orig' = [orig EXCEPT ![t] = v]
          /\ UNCHANGED <<manifest, journal>>
      BY <2>1 DEF SteamWrite
    <2>4. \A u \in Target : Pending(u)' <=> Pending(u)
      BY <2>3 DEF Pending
    <2>5. \A u \in Target : /\ Status(u)' = Status(u)
                            /\ Shown(u)' = IF u = t THEN v ELSE Shown(u)
      BY <2>2, <2>3, <2>4, <1>i DEF Status, Shown, TypeOK
    <2>6. Status(t) = "original"
      BY <2>2 DEF Status
    <2>7. [u \in Target |-> Status(u)]' = [u \in Target |-> Status(u)]
      BY <2>5
    <2>8. [u \in Target |-> Shown(u)]' = [[u \in Target |-> Shown(u)] EXCEPT ![t] = v]
      BY <2>5
    <2>9. Reversible!Changed(t)
      BY <2>3, <2>6, <2>7, <2>8 DEF Reversible!Changed, Status, Shown
    <2> QED
      BY <2>9 DEF Reversible!Next
  <1>5. CASE \/ BackupCopy \/ BackupSkip \/ RecordVanilla \/ PlaceRemove \/ PlaceCreate
             \/ PlaceFails \/ RecordDeployed \/ Unlink \/ Restore \/ RestoreNothing
             \/ RestoreFails \/ DropManifest \/ TornBackup \/ TornPlace \/ TornRestore
    <2> USE <1>5
        DEF BackupCopy, BackupSkip, RecordVanilla, PlaceRemove, PlaceCreate, PlaceFails,
            RecordDeployed, Unlink, Restore, RestoreNothing, RestoreFails, DropManifest,
            TornBackup, TornPlace, TornRestore
    <2>1. cur.target \in Target /\ Pending(cur.target)
      BY InFlightFacts
    <2>2. UNCHANGED <<journal, orig>>
      BY DEF Fault
    <2>3. \A t \in Target \ {cur.target} : manifest'[t] = manifest[t] /\ disk'[t] = disk[t]
      BY <1>i DEF TypeOK
    <2> QED
      BY <2>1, <2>2, <2>3, RefinementStutter
  <1>6. CASE UNCHANGED <<disk, manifest, journal, orig>>
    BY <1>6, RefinementStutter
  <1>7. ~ \E t \in Target : SteamDelete(t)
    BY DEF CrashFaults, SteamDelete, OutsideFault
  <1>8. CASE UNCHANGED vars
    BY <1>6, <1>8 DEF vars
  <1>9. CASE Command \/ Launch \/ Quit \/ DeploySkip \/ DeployEnd \/ PurgeEnd \/ ReplayNext
             \/ ReplayEnd \/ Crash \/ Failure \/ (\E m \in Mod : Unstage(m))
             \/ (\E h \in Bytes : LoseBlob(h))
    BY <1>6, <1>9 DEF Command, StartDeploy, StartPurge, Launch, Quit, DeploySkip, DeployEnd,
      PurgeEnd, ReplayNext, ReplayEnd, Crash, Failure, Fail, Unstage, LoseBlob, Fault
  <1> QED
    BY <1>1, <1>2, <1>3, <1>4, <1>5, <1>7, <1>8, <1>9 DEF Next, Engine, Environment

\* The engine implements the abstract tree: whatever it does, and wherever it
\* dies, paths move one at a time, only under an announced row, and come to
\* rest showing exactly their original or a mod's file.
THEOREM ImplementsReversibleTree ==
  ASSUME CrashFaults, DistinctMods
  PROVE  Spec => ReversibleSpec
  <1>1. CrashInv /\ [Next]_vars => [Reversible!Next]_(Reversible!vars)
    BY RefinementStep
  <1> QED
    BY <1>1, RefinementInit, CrashInvariant, PTL DEF Spec, ReversibleSpec, Reversible!Spec

-----------------------------------------------------------------------------
(* Repair: what is not managed stays the user's, every original is kept,   *)
(* and a repair settles what it can and spares everything else.            *)

RepairFaults == Faults \subseteq {"crash", "torn_backup", "torn_place", "torn_restore",
                                  "unstage", "touch_managed"}

(* A command starts only when no operation is left to recover.             *)
OneAtATime == MaxPending <= 1

-----------------------------------------------------------------------------
(* While a repair runs, the engine's control state is repair's own.        *)

DataOK ==
  /\ disk \in [Target -> Bytes \cup {Absent}]
  /\ dirs \subseteq Dir
  /\ manifest \in [Target -> Entry \cup {None}]
  /\ ledger \in [Target -> Bytes \cup {None}]
  /\ blob \in [Bytes -> {"none", "torn", "whole"}]
  /\ staged \subseteq Mod \X Target
  /\ journal \in Seq(Row)
  /\ plan \in Plan
  /\ gone \subseteq Target
  /\ orig \in [Target -> Vanilla \cup {Absent}]
  /\ origDirs \subseteq Dir
  /\ faults \in 0 .. MaxFaults

Repairing ==
  /\ DataOK
  /\ phase = "repair" /\ pc \in {"next", "redeploy"}
  /\ pc = "next" => cur = None
  /\ report \subseteq Managed /\ todo \subseteq report
  /\ pc = "redeploy" => /\ cur.target \in report
                        /\ cur.src = Source(cur.target) /\ cur.src \in Mod

(* An entry knows its mod, or recovery wrote it.                           *)
EntriesSound == \A t \in Managed : manifest[t].source_mod \in {None, manifest[t].hash}

RepairTypeInv == EntriesSound /\ (Repairing \/ TypeInv)

LEMMA DataFacts == TypeInv => DataOK
  BY DEF TypeInv, TypeOK, DataOK

LEMMA EntryFacts ==
  ASSUME DataOK, NEW t \in Managed
  PROVE  /\ t \in Target /\ manifest[t] # None
         /\ manifest[t].hash \in Mod /\ manifest[t].source_mod \in Mod \cup {None}
  <1>1. t \in Target /\ manifest[t] \in Entry
    BY DEF DataOK, Managed
  <1> QED
    BY <1>1, NoneAssumption DEF Managed, Entry

\* A step of the engine writes an entry or removes one, and only in its own
\* phases.
LEMMA EntriesStep == TypeInv /\ EntriesSound /\ [Next]_vars => EntriesSound'
  <1> SUFFICES ASSUME TypeInv, EntriesSound, [Next]_vars PROVE EntriesSound'
    OBVIOUS
  <1>1. CASE UNCHANGED manifest
    BY <1>1 DEF EntriesSound, Managed
  <1>2. CASE RecordDeployed
    <2> DEFINE e == [hash |-> cur.src,
                     source_mod |-> IF phase = "replay" \/ cur.src = Local THEN None ELSE cur.src]
    <2>1. manifest' = [manifest EXCEPT ![cur.target] = e]
      BY <1>2 DEF RecordDeployed
    <2>2. e.source_mod \in {None, e.hash}
      OBVIOUS
    <2> HIDE DEF e
    <2>3. ASSUME NEW t \in Target, manifest'[t] # None
          PROVE  manifest'[t].source_mod \in {None, manifest'[t].hash}
      <3>1. CASE t = cur.target
        BY <2>1, <2>2, <3>1 DEF TypeInv, TypeOK
      <3>2. CASE t # cur.target
        BY <2>1, <2>3, <3>2 DEF TypeInv, TypeOK, EntriesSound, Managed
      <3> QED
        BY <3>1, <3>2
    <2> QED
      BY <2>3 DEF EntriesSound, Managed
  <1>3. CASE DropManifest
    BY <1>3 DEF DropManifest, EntriesSound, Managed, TypeInv, TypeOK
  <1> QED
    BY <1>1, <1>2, <1>3 DEF Next, Command, Engine, Environment, vars,
      StartDeploy, StartPurge, Launch, Quit, DeployNext, DeploySkip, DeployEnd, PurgeNext,
      PurgeEnd, ReplayNext, ReplayEnd, BackupCopy, BackupSkip, RecordVanilla, PlaceRemove,
      PlaceCreate, PlaceFails, Unlink, Restore, RestoreNothing, RestoreFails,
      MarkDone, Crash, Failure, Fail, TornBackup, TornPlace, TornRestore,
      SteamDelete, SteamWrite, Unstage, LoseBlob, durable, volatile, history

\* While a repair runs, the engine's actions are disabled: only Steam, the
\* user and the loss of a blob or of a staged mod can come in between.
LEMMA OnlyRepairRuns ==
  ASSUME Repairing, Next
  PROVE  \/ \E t \in Target : SteamDelete(t) \/ \E v \in Vanilla : SteamWrite(t, v)
         \/ \E m \in Mod : Unstage(m)
         \/ \E h \in Bytes : LoseBlob(h)
  <1>0. phase = "repair" /\ pc \in {"next", "redeploy"}
    BY DEF Repairing
  <1>1. ~ (Command \/ Launch \/ Quit)
    BY <1>0 DEF Command, StartDeploy, StartPurge, Launch, Quit
  <1>2. ~ (DeployNext \/ DeploySkip \/ DeployEnd \/ PurgeNext \/ PurgeEnd \/ ReplayNext \/ ReplayEnd)
    BY <1>0 DEF DeployNext, DeploySkip, DeployEnd, PurgeNext, PurgeEnd, ReplayNext, ReplayEnd
  <1>3. ~ (BackupCopy \/ BackupSkip \/ RecordVanilla \/ PlaceRemove \/ PlaceCreate \/ PlaceFails
           \/ RecordDeployed)
    BY <1>0 DEF BackupCopy, BackupSkip, RecordVanilla, PlaceRemove, PlaceCreate, PlaceFails,
      RecordDeployed
  <1>4. ~ (Unlink \/ Restore \/ RestoreNothing \/ RestoreFails \/ DropManifest \/ MarkDone)
    BY <1>0 DEF Unlink, Restore, RestoreNothing, RestoreFails, DropManifest, MarkDone
  <1>5. ~ (Crash \/ Failure \/ TornBackup \/ TornPlace \/ TornRestore)
    BY <1>0 DEF Crash, Failure, Fail, Running, TornBackup, TornPlace, TornRestore
  <1> QED
    BY <1>1, <1>2, <1>3, <1>4, <1>5 DEF Next, Engine, Environment

\* What the world outside may do to a repair, it does to files and sources.
LEMMA RepairingOutside ==
  ASSUME Repairing, Next, UNCHANGED report
  PROVE  Repairing' /\ UNCHANGED <<manifest, journal, volatile>> /\ staged' \subseteq staged
  <1> USE NameAssumption, BoundAssumption DEF volatile
  <1>1. CASE \E t \in Target : SteamDelete(t)
    BY <1>1 DEF SteamDelete, OutsideFault, Repairing, DataOK, Managed, Source
  <1>2. CASE \E t \in Target, v \in Vanilla : SteamWrite(t, v)
    <2>1. PICK t \in Target, v \in Vanilla : SteamWrite(t, v)
      BY <1>2
    <2>2. {t} \in SUBSET Target
      OBVIOUS
    <2>3. DirsOf({t}) \subseteq Dir
      BY <2>2, TargetFacts
    <2>4. v \in Bytes
      BY DEF Bytes
    <2>5. DataOK'
      <3>1. disk' \in [Target -> Bytes \cup {Absent}] /\ orig' \in [Target -> Vanilla \cup {Absent}]
        BY <2>1, <2>4 DEF SteamWrite, Repairing, DataOK
      <3>2. dirs' \subseteq Dir /\ origDirs' \subseteq Dir
        BY <2>1, <2>3 DEF SteamWrite, Repairing, DataOK
      <3>3. faults' \in 0 .. MaxFaults
        BY <2>1 DEF SteamWrite, OutsideFault, Repairing, DataOK
      <3>4. UNCHANGED <<manifest, ledger, blob, staged, journal, plan, gone>>
        BY <2>1 DEF SteamWrite
      <3> QED
        BY <3>1, <3>2, <3>3, <3>4 DEF Repairing, DataOK
    <2> QED
      BY <2>1, <2>5 DEF SteamWrite, Repairing, Managed, Source
  <1>3. CASE (\E m \in Mod : Unstage(m)) \/ (\E h \in Bytes : LoseBlob(h))
    BY <1>3 DEF Unstage, LoseBlob, Fault, Repairing, DataOK, Managed, Source
  <1> QED
    BY <1>1, <1>2, <1>3, OnlyRepairRuns

LEMMA RepairTypeInit == RInit => RepairTypeInv
  BY TypeInit DEF RInit, Init, RepairTypeInv, EntriesSound, Managed

\* A step of repair keeps to its own control state, until it returns and
\* leaves the engine idle.
LEMMA RepairingStep ==
  ASSUME Repairing, EntriesSound, Repair \/ RepairCrash
  PROVE  /\ Repairing' \/ (TypeInv' /\ phase' \in {"idle", "down"} /\ cur' = None
                             /\ todo' = {})
         /\ UNCHANGED <<manifest, ledger, blob, staged, journal, orig>>
         /\ \A t \in Target : disk'[t] # disk[t] => t \in report /\ manifest[t] # None
  <1> USE NameAssumption, BoundAssumption DEF durable, volatile, history
  <1>1. CASE RepairSkip
    BY <1>1, TargetFacts DEF RepairSkip, Repairing, DataOK, Managed
  <1>2. CASE RepairRemove
    <2>1. PICK t \in First(todo) :
            /\ Locatable(t)
            /\ todo' = todo \ {t}
            /\ cur' = [kind |-> "repair", target |-> t, src |-> Source(t)]
            /\ dirs' = dirs \cup DirsOf({t})
            /\ disk' = [disk EXCEPT ![t] = Absent]
      BY <1>2 DEF RepairRemove
    <2>2. t \in todo /\ t \in Target /\ {t} \in SUBSET Target /\ todo \subseteq Target
      BY TargetFacts DEF Repairing, Managed
    <2>3. DirsOf({t}) \subseteq Dir
      BY <2>2, TargetFacts
    <2>4. /\ pc' = "redeploy" /\ UNCHANGED <<phase, plan, gone, manifest, ledger, blob, staged,
                                             journal, orig, origDirs, faults, report>>
      BY <1>2 DEF RepairRemove
    <2>5. DataOK'
      BY <2>1, <2>2, <2>3, <2>4 DEF Repairing, DataOK
    <2>6. cur'.target = t /\ cur'.src = Source(t) /\ Source(t)' = Source(t)
      BY <2>1, <2>4 DEF Source
    <2>7. Source(t) \in Mod
      BY <2>1, <2>2, EntryFacts, LocalAssumption DEF Locatable, Source, Repairing
    <2> QED
      BY <2>1, <2>2, <2>4, <2>5, <2>6, <2>7 DEF Repairing, Managed
  <1>3. CASE RepairCreate
    <2>1. cur.target \in Target /\ cur.src \in Bytes
      BY <1>3 DEF RepairCreate, Repairing, Managed, Bytes
    <2> QED
      BY <1>3, <2>1 DEF RepairCreate, Repairing, DataOK, Managed
  <1>4. CASE RepairFails \/ RepairCrash
    BY <1>4 DEF RepairFails, RepairCrash, Fault, Return, Die, Repairing, DataOK, TypeInv, TypeOK,
      Control, Phase, Step, Plan, NoPlan
  <1>5. CASE RepairEnd
    BY <1>5 DEF RepairEnd, Return, Repairing, DataOK, TypeInv, TypeOK, Control, Phase, Step,
      Plan, NoPlan
  <1> QED
    BY <1>1, <1>2, <1>3, <1>4, <1>5 DEF Repair

\* The steps that only this module adds to an engine that is not repairing.
LEMMA DriftType ==
  ASSUME TypeInv, EntriesSound,
         NEW t \in Target, NEW b \in Vanilla \cup {Absent}, Drift(t, b)
  PROVE  TypeInv'
  <1> USE DEF volatile
  <1>1. {t} \in SUBSET Target
    OBVIOUS
  <1>2. DirsOf({t}) \subseteq Dir
    BY <1>1, TargetFacts
  <1>3. /\ disk' = [disk EXCEPT ![t] = b] /\ dirs' = dirs \cup DirsOf({t})
        /\ UNCHANGED <<manifest, ledger, blob, staged, journal, volatile, orig, origDirs>>
        /\ faults' \in 0 .. MaxFaults
    BY BoundAssumption DEF Drift, Fault, TypeInv, TypeOK
  <1>4. b \in Bytes \cup {Absent}
    BY DEF Bytes
  <1>5. TypeOK'
    BY <1>2, <1>3, <1>4 DEF TypeInv, TypeOK
  <1>6. pc # "next" => cur.target # t
    <2> SUFFICES ASSUME pc # "next" PROVE cur.target # t
      OBVIOUS
    <2>1. \E i \in 1 .. Len(journal) : journal[i] = cur
      BY JournalFacts DEF TypeInv, TypeOK, Control
    <2> QED
      BY <2>1 DEF Drift, Pending
  <1>7. Control'
    BY <1>3, <1>6, RowFacts DEF TypeInv, TypeOK, Control
  <1> QED
    BY <1>5, <1>7 DEF TypeInv

LEMMA StartRepairType ==
  ASSUME TypeInv, StartRepair
  PROVE  Repairing' /\ UNCHANGED <<durable, history>>
  BY DEF StartRepair, Drifted, Missing, Changed, Managed, durable, history,
    TypeInv, TypeOK, Control, Repairing, DataOK

LEMMA StrayDirType ==
  ASSUME RepairTypeInv, NEW d \in Dir, StrayDir(d)
  PROVE  TypeInv'
  <1>1. TypeInv
    BY DEF RepairTypeInv, Repairing, StrayDir
  <1> QED
    BY <1>1, BoundAssumption DEF StrayDir, Fault, volatile, TypeInv, TypeOK, Control

LEMMA RepairTypeStep == RepairTypeInv /\ [RNext]_rvars => RepairTypeInv'
  <1> SUFFICES ASSUME RepairTypeInv, [RNext]_rvars PROVE RepairTypeInv'
    OBVIOUS
  <1>0. EntriesSound /\ (Repairing \/ TypeInv)
    BY DEF RepairTypeInv
  <1>u. ASSUME UNCHANGED manifest PROVE EntriesSound'
    BY <1>0, <1>u DEF EntriesSound, Managed
  <1>1. CASE Next /\ UNCHANGED report
    <2>1. CASE Repairing
      BY <1>1, <1>u, <2>1, RepairingOutside DEF RepairTypeInv
    <2>2. CASE TypeInv
      BY <1>0, <1>1, <2>2, TypeStep, EntriesStep DEF RepairTypeInv
    <2> QED
      BY <1>0, <2>1, <2>2
  <1>2. CASE StartRepair
    <2>1. TypeInv
      BY <1>0, <1>2 DEF StartRepair, Repairing
    <2> QED
      BY <1>2, <1>u, <2>1, StartRepairType DEF RepairTypeInv, durable
  <1>3. CASE Repair \/ RepairCrash
    <2>1. Repairing
      BY <1>0, <1>3 DEF Repair, RepairSkip, RepairRemove, RepairCreate, RepairFails, RepairEnd,
        RepairCrash, TypeInv, TypeOK, Phase
    <2> QED
      BY <1>0, <1>3, <1>u, <2>1, RepairingStep DEF RepairTypeInv
  <1>4. CASE \E t \in Target, bytes \in Vanilla \cup {Absent} : Drift(t, bytes)
    <2>1. TypeInv /\ UNCHANGED manifest
      BY <1>0, <1>4 DEF Drift, Repairing
    <2> QED
      BY <1>0, <1>4, <1>u, <2>1, DriftType DEF RepairTypeInv
  <1>5. CASE \E d \in Dir : StrayDir(d)
    BY <1>0, <1>5, <1>u, StrayDirType DEF RepairTypeInv, StrayDir
  <1>6. CASE UNCHANGED rvars
    <2>1. UNCHANGED <<durable, volatile, history, report>>
      BY <1>6 DEF rvars, vars
    <2>2. CASE Repairing
      BY <1>0, <1>u, <2>1, <2>2 DEF durable, volatile, history, RepairTypeInv, Managed, Repairing,
        DataOK, Source
    <2>3. CASE TypeInv
      BY <1>0, <1>u, <2>1, <2>3 DEF durable, volatile, history, RepairTypeInv, TypeInv, TypeOK,
        Control
    <2> QED
      BY <1>0, <2>2, <2>3
  <1> QED
    BY <1>1, <1>2, <1>3, <1>4, <1>5, <1>6 DEF RNext

LEMMA RepairTypeCorrect == RSpec => []RepairTypeInv
  BY RepairTypeInit, RepairTypeStep, PTL DEF RSpec

\* Repair touches only what verify reported and the manifest still claims, and
\* takes away no directory of a managed file, under every combination of faults.
THEOREM OthersAreSpared == RSpec => RepairSparesOthers
  <1> DEFINE Spared ==
        phase = "repair" /\ faults' = faults
          => /\ \A t \in Target : disk'[t] # disk[t] => t \in report /\ manifest[t] # None
             /\ dirs \ dirs' \subseteq Dir \ DirsOf(Managed)
  <1>1. RepairTypeInv /\ [RNext]_rvars => [Spared]_rvars
    <2> SUFFICES ASSUME RepairTypeInv, RNext, phase = "repair", faults' = faults
                 PROVE  /\ \A t \in Target : disk'[t] # disk[t] => t \in report /\ manifest[t] # None
                        /\ dirs \ dirs' \subseteq Dir \ DirsOf(Managed)
      OBVIOUS
    <2>0. Repairing
      BY DEF RepairTypeInv, TypeInv, TypeOK, Phase
    <2>1. ~ Next
      <3>1. faults # faults + 1
        BY <2>0, BoundAssumption DEF Repairing, DataOK
      <3> QED
        BY <2>0, <3>1, OnlyRepairRuns DEF SteamDelete, SteamWrite, OutsideFault, Unstage, LoseBlob, Fault
    <2>2. CASE Repair \/ RepairCrash
      <3>1. \A t \in Target : disk'[t] # disk[t] => t \in report /\ manifest[t] # None
        BY <2>0, <2>2, RepairingStep DEF RepairTypeInv
      <3>2. CASE RepairEnd
        BY <2>0, <3>1, <3>2 DEF RepairEnd, OrphanDirs, Repairing, DataOK
      <3>3. CASE ~ RepairEnd
        BY <2>2, <3>1, <3>3 DEF Repair, RepairSkip, RepairRemove, RepairCreate, RepairFails,
          RepairCrash, durable
      <3> QED
        BY <3>2, <3>3
    <2>6. ~ StartRepair /\ (\A t \in Target, b \in Vanilla \cup {Absent} : ~ Drift(t, b))
          /\ (\A d \in Dir : ~ StrayDir(d))
      BY DEF StartRepair, Drift, StrayDir
    <2> QED
      BY <2>1, <2>2, <2>6 DEF RNext
  <1>2. RSpec => [][Spared]_rvars
    BY <1>1, RepairTypeCorrect, PTL DEF RSpec
  <1> QED
    BY <1>2 DEF RepairSparesOthers

-----------------------------------------------------------------------------
(* A repair has dealt with every managed file that is not on its list any  *)
(* more, as long as nobody changes managed files under it.                 *)

QuietRepair == "touch_managed" \in Faults => {"write", "delete"} \cap Faults = {}

Restored(t) == Restorable(t) =>
                 \/ t \in todo
                 \/ pc = "redeploy" /\ cur.target = t
                 \/ disk[t] = manifest[t].hash

Progress == phase = "repair" => \A t \in Managed : Restored(t)

LEMMA ProgressStep ==
  ASSUME QuietRepair, RepairTypeInv, RepairTypeInv', Progress, [RNext]_rvars
  PROVE  Progress'
  <1> SUFFICES ASSUME phase' = "repair", NEW t \in Target, manifest'[t] # None, Restorable(t)'
               PROVE  \/ t \in todo'
                      \/ pc' = "redeploy" /\ cur'.target = t
                      \/ disk'[t] = manifest'[t].hash
    BY DEF Progress, Restored, Managed
  <1>r. Repairing'
    BY DEF RepairTypeInv, TypeInv, TypeOK, Phase
  <1>1. CASE StartRepair
    BY <1>1 DEF StartRepair, Drifted, Missing, Changed, Managed, durable
  <1>s. ASSUME UNCHANGED manifest PROVE Source(t)' = Source(t)
    BY <1>s DEF Source
  <1>2. CASE phase = "repair" /\ Next /\ UNCHANGED report
    <2>1. Repairing
      BY <1>2 DEF RepairTypeInv, TypeInv, TypeOK, Phase
    <2>2. UNCHANGED <<manifest, pc, cur, todo>> /\ staged' \subseteq staged
      BY <1>2, <2>1, RepairingOutside DEF volatile
    <2>3. Restored(t)
      BY <1>2, <2>2 DEF Progress, Managed
    <2>4. Restorable(t)
      BY <1>s, <2>2 DEF Restorable, Locatable
    <2>5. disk'[t] = disk[t]
      <3>1. CASE \E u \in Target : SteamDelete(u)
        BY <2>1, <2>2, <3>1 DEF SteamDelete, Touchable, OutsideFault, QuietRepair, Repairing, DataOK
      <3>2. CASE \E u \in Target, v \in Vanilla : SteamWrite(u, v)
        BY <2>1, <2>2, <3>2 DEF SteamWrite, Touchable, OutsideFault, QuietRepair, Repairing, DataOK
      <3>3. CASE (\E m \in Mod : Unstage(m)) \/ (\E h \in Bytes : LoseBlob(h))
        BY <3>3 DEF Unstage, LoseBlob
      <3> QED
        BY <1>2, <2>1, <3>1, <3>2, <3>3, OnlyRepairRuns
    <2> QED
      BY <2>2, <2>3, <2>4, <2>5 DEF Restored
  <1>3. CASE phase = "repair" /\ (Repair \/ RepairCrash)
    <2>1. Repairing /\ EntriesSound
      BY <1>3 DEF RepairTypeInv, TypeInv, TypeOK, Phase
    <2>2. UNCHANGED <<manifest, staged>>
      BY <1>3, <2>1, RepairingStep
    <2>3. Restored(t) /\ Restorable(t)
      BY <1>3, <1>s, <2>2 DEF Progress, Managed, Restorable, Locatable
    <2>4. CASE RepairSkip
      BY <2>2, <2>3, <2>4 DEF RepairSkip, Restored, Restorable, durable
    <2>5. CASE RepairRemove
      BY <2>1, <2>2, <2>3, <2>5 DEF RepairRemove, Restored, Repairing, DataOK
    <2>6. CASE RepairCreate
      <3>1. cur.target = t => cur.src = manifest[t].hash
        BY <2>1, <2>2, <2>3, <2>6
        DEF RepairCreate, Repairing, EntriesSound, Managed, Restorable, Source
      <3> QED
        BY <2>1, <2>2, <2>3, <2>6, <3>1 DEF RepairCreate, Restored, Repairing, DataOK
    <2>7. ~ (RepairFails \/ RepairEnd \/ RepairCrash)
      BY DEF RepairFails, RepairEnd, RepairCrash, Return, Die
    <2> QED
      BY <1>3, <2>4, <2>5, <2>6, <2>7 DEF Repair
  <1>4. CASE UNCHANGED rvars
    BY <1>4 DEF rvars, vars, durable, volatile, history, Progress, Restored, Managed, Restorable,
      Locatable, Source
  <1>5. StartRepair \/ phase = "repair" \/ UNCHANGED rvars
    <2>1. CASE Next /\ phase # "repair"
      <3>1. TypeInv
        BY <2>1 DEF RepairTypeInv, Repairing
      <3> QED
        BY <2>1, <3>1, TypeStep DEF TypeInv, TypeOK, Phase
    <2>2. (Repair \/ RepairCrash) => phase = "repair"
      BY DEF Repair, RepairSkip, RepairRemove, RepairCreate, RepairFails, RepairEnd, RepairCrash
    <2>3. \A u \in Target, b \in Vanilla \cup {Absent} : ~ Drift(u, b)
      BY DEF Drift, volatile
    <2>4. \A d \in Dir : ~ StrayDir(d)
      BY DEF StrayDir, volatile
    <2> QED
      BY <2>1, <2>2, <2>3, <2>4 DEF RNext
  <1>6. (\A u \in Target, b \in Vanilla \cup {Absent} : ~ Drift(u, b)) /\ \A d \in Dir : ~ StrayDir(d)
    BY DEF Drift, StrayDir, volatile
  <1> QED
    BY <1>1, <1>2, <1>3, <1>4, <1>5, <1>6 DEF RNext

\* A repair that runs to its end leaves every managed file whose mod is still
\* staged where its entry points as the manifest records it, for any number of
\* targets, whatever else is lost under it.
THEOREM RepairsSettle ==
  ASSUME QuietRepair
  PROVE  RSpec => RepairSettles
  <1> DEFINE Settling ==
        phase = "repair" /\ pc = "next" /\ phase' = "idle"
          => \A t \in Managed : Restorable(t) => disk'[t] = manifest'[t].hash
  <1>1. RInit => Progress
    BY DEF RInit, Init, Progress
  <1>2. RepairTypeInv /\ RepairTypeInv' /\ Progress /\ [RNext]_rvars => Progress'
    BY ProgressStep
  <1>3. RepairTypeInv /\ Progress /\ [RNext]_rvars => [Settling]_rvars
    <2> SUFFICES ASSUME RepairTypeInv, Progress, RNext, phase = "repair", pc = "next", phase' = "idle",
                        NEW t \in Managed, Restorable(t)
                 PROVE  disk'[t] = manifest'[t].hash
      OBVIOUS
    <2>1. Repairing
      BY DEF RepairTypeInv, TypeInv, TypeOK, Phase
    <2>2. ~ (Next /\ UNCHANGED report)
      BY <2>1, RepairingOutside DEF volatile
    <2>3. RepairEnd
      BY <2>2 DEF RNext, Repair, RepairSkip, RepairRemove, RepairCreate, RepairFails, RepairCrash,
        Die, StartRepair, Drift, StrayDir, volatile
    <2> QED
      BY <2>3 DEF RepairEnd, Progress, Restored
  <1>4. RSpec => [][Settling]_rvars
    BY <1>1, <1>2, <1>3, RepairTypeCorrect, PTL DEF RSpec
  <1> QED
    BY <1>4 DEF RepairSettles

-----------------------------------------------------------------------------
(* What is kept, in the engine and in repair. Unlike CrashInv, this admits *)
(* a managed file that is not what its entry says, an operation left       *)
(* pending by a failed one, and a roll-back.                               *)

Shape ==
  /\ journal = << >> \/ \E r \in Row : journal = <<r>>
  /\ phase \in {"purge", "deploy"} /\ cur = None => journal = << >>

LedgerExact == \A t \in Target : ledger[t] # None => blob[ledger[t]] # "none" /\ Kept(t)

(* What may lie at a path that nobody claims.                              *)
Unclaimed(t) == AsLeft(t) \/ (orig[t] = Absent /\ disk[t] = Torn)

Paths ==
  \A t \in Target :
    /\ disk[t] = orig[t] \/ Kept(t)
    /\ manifest[t] # None => Kept(t)
    /\ ~ Pending(t) /\ manifest[t] = None => Unclaimed(t)

RowKnown(r) ==
  /\ r.kind = "purge" => Kept(r.target)
  /\ r.kind = "deploy" /\ manifest[r.target] = None =>
       disk[r.target] \in {orig[r.target], Absent, r.src, Torn}

Rows == \A i \in 1 .. Len(journal) : RowKnown(journal[i])

Flight ==
  LET t == cur.target IN
  /\ pc = "backup" /\ manifest[t] = None => disk[t] \in {orig[t], Absent, Torn}
  /\ pc = "record" => /\ disk[t] \in {orig[t], Torn}
                      /\ blob[disk[t]] # "none"
                      /\ orig[t] # Absent => blob[orig[t]] # "none"
  /\ pc \in {"place", "create", "manifest", "unlink", "restore", "drop"} => Kept(t)
  /\ pc \in {"create", "restore"} => disk[t] = Absent
  /\ pc = "mark" /\ manifest[t] = None => Unclaimed(t)
  /\ pc = "drop" => AsLeft(t)

Sound == LedgerExact /\ Paths /\ Rows

EngineInv == TypeInv /\ Shape /\ Worklist /\ Sound /\ Flight
RepairInv == RepairTypeInv /\ Shape /\ Sound /\ (phase = "repair" \/ EngineInv)

LEMMA AtHand ==
  ASSUME EngineInv, pc # "next"
  PROVE  /\ cur \in Row /\ cur.target \in Target
         /\ journal = <<cur>>
         /\ RowKnown(cur)
         /\ \A t \in Target : Pending(t) <=> t = cur.target
  <1> USE DEF EngineInv, Sound
  <1>1. cur \in Row /\ cur.target \in Target /\ journal # << >>
    BY RowFacts DEF TypeInv, Control
  <1>2. PICK r \in Row : journal = <<r>>
    BY <1>1 DEF Shape
  <1>3. r = cur
    BY <1>1, <1>2, OneRow DEF TypeInv, Control
  <1>4. RowKnown(cur)
    BY <1>2, <1>3, OneRow DEF Rows
  <1> QED
    BY <1>1, <1>2, <1>3, <1>4, PendingFacts

LEMMA KeptFacts ==
  ASSUME EngineInv, NEW t \in Target
  PROVE  /\ ledger[t] # None => Kept(t)
         /\ disk[t] # orig[t] => Kept(t)
         /\ Kept(t) /\ ledger[t] = None => orig[t] = Absent
         /\ orig[t] # None /\ orig[t] \in Vanilla \cup {Absent}
         /\ orig[t] # Absent => orig[t] \in Bytes
  <1>1. orig[t] \in Vanilla \cup {Absent} /\ orig[t] # None /\ (orig[t] # Absent => orig[t] \in Bytes)
    BY NameAssumption DEF EngineInv, TypeInv, TypeOK, Bytes
  <1> QED
    BY <1>1, NameAssumption DEF EngineInv, Sound, LedgerExact, Paths, Kept, Bytes

\* A step of the operation in flight has to establish only what concerns its
\* own path.
LEMMA OwnSound ==
  ASSUME EngineInv, pc # "next", BlobsStay, UNCHANGED <<journal, orig>>,
         NEW r \in Row, r = cur, NEW u \in Target, u = r.target,
         \A t \in Target \ {u} :
           disk'[t] = disk[t] /\ manifest'[t] = manifest[t] /\ ledger'[t] = ledger[t],
         RowKnown(r)', disk'[u] = orig[u] \/ Kept(u)', manifest'[u] # None => Kept(u)',
         ledger'[u] # None => blob'[ledger'[u]] # "none" /\ Kept(u)'
  PROVE  Sound'
  <1>1. journal = <<r>> /\ \A t \in Target : Pending(t) <=> t = u
    BY AtHand
  <1>2. Rows'
    BY <1>1, OneRow DEF Rows
  <1>3. ASSUME NEW t \in Target
        PROVE  /\ disk'[t] = orig'[t] \/ Kept(t)'
               /\ manifest'[t] # None => Kept(t)'
               /\ ~ Pending(t)' /\ manifest'[t] = None => Unclaimed(t)'
               /\ ledger'[t] # None => blob'[ledger'[t]] # "none" /\ Kept(t)'
    <2>1. Pending(t)' <=> Pending(t)
      BY DEF Pending
    <2>2. CASE t = u
      BY <2>1, <2>2, <1>1
    <2>3. CASE t # u
      <3>1. disk'[t] = disk[t] /\ manifest'[t] = manifest[t] /\ ledger'[t] = ledger[t]
            /\ orig'[t] = orig[t]
        BY <2>3
      <3>2. (Kept(t) => Kept(t)') /\ (AsLeft(t) => AsLeft(t)')
        BY <3>1, PathStays DEF EngineInv, TypeInv
      <3>3. ledger[t] # None => blob'[ledger[t]] # "none"
        BY DEF EngineInv, Sound, LedgerExact, BlobsStay, TypeInv, TypeOK
      <3> QED
        BY <2>1, <2>3, <1>1, <3>1, <3>2, <3>3 DEF EngineInv, Sound, LedgerExact, Paths, Unclaimed
    <2> QED
      BY <2>2, <2>3
  <1> QED
    BY <1>2, <1>3 DEF Sound, LedgerExact, Paths

LEMMA OwnPathStep ==
  ASSUME EngineInv, TypeInv', pc # "next", BlobsStay,
         UNCHANGED <<journal, cur, phase, todo, orig, staged>>,
         \A t \in Target \ {cur.target} :
           disk'[t] = disk[t] /\ manifest'[t] = manifest[t] /\ ledger'[t] = ledger[t],
         Flight', RowKnown(cur)',
         disk'[cur.target] = orig[cur.target] \/ Kept(cur.target)',
         manifest'[cur.target] # None => Kept(cur.target)',
         ledger'[cur.target] # None => blob'[ledger'[cur.target]] # "none" /\ Kept(cur.target)'
  PROVE  EngineInv'
  <1>1. PICK r \in Row, u \in Target : r = cur /\ u = r.target
    BY AtHand
  <1>2. Shape' /\ Worklist'
    BY <1>1, RowFacts DEF EngineInv, Shape, Worklist, TypeInv, TypeOK
  <1>3. /\ RowKnown(r)' /\ (disk'[u] = orig[u] \/ Kept(u)') /\ (manifest'[u] # None => Kept(u)')
        /\ ledger'[u] # None => blob'[ledger'[u]] # "none" /\ Kept(u)'
    BY <1>1
  <1>4. Sound'
    BY <1>1, <1>3, OwnSound
  <1> QED
    BY <1>2, <1>4 DEF EngineInv

\* What is kept stays kept by a step that leaves every file and row alone; the
\* loss of a staged source only adds to it.
LEMMA SoundStays ==
  ASSUME Sound, UNCHANGED <<disk, manifest, ledger, blob, journal, orig>>, staged' \subseteq staged
  PROVE  Sound'
  BY DEF Sound, LedgerExact, Paths, Rows, RowKnown, Kept, Unclaimed, AsLeft, CutShortAt, Pending

LEMMA LoopStep ==
  ASSUME EngineInv, TypeInv', pc' = "next",
         UNCHANGED <<disk, manifest, ledger, blob, staged, journal, orig>>, Shape', Worklist'
  PROVE  EngineInv'
  <1>1. Flight'
    BY DEF Flight
  <1> QED
    BY <1>1, SoundStays DEF EngineInv

LEMMA EngineInit == Init => EngineInv
  <1> SUFFICES ASSUME Init PROVE EngineInv
    OBVIOUS
  <1>1. TypeInv
    BY TypeInit
  <1>2. \A t \in Target : disk[t] = orig[t] /\ manifest[t] = None /\ ledger[t] = None
    BY DEF Init
  <1>3. journal = << >> /\ Len(journal) = 0 /\ phase = "down"
        /\ pc = "next" /\ cur = None /\ todo = {} /\ \A h \in Bytes : blob[h] = "none"
    BY EmptySeq DEF Init
  <1> QED
    BY <1>1, <1>2, <1>3
    DEF EngineInv, Shape, Worklist, Sound, LedgerExact, Paths, Unclaimed, AsLeft, Rows, Flight, Pending

LEMMA EngineStep ==
  ASSUME RepairFaults, OneAtATime, DistinctMods, EngineInv, [Next]_vars
  PROVE  EngineInv'
  <1>t. TypeInv'
    BY TypeStep DEF EngineInv
  <1> USE RowFacts, NameAssumption, <1>t DEF durable, volatile, history
  <1>i. TypeOK /\ Control
    BY DEF EngineInv, TypeInv
  <1>e. Len(journal) < MaxPending => journal = << >>
    BY <1>i, EmptySeq, BoundAssumption DEF OneAtATime, TypeOK
  <1>1. CASE \E w \in Plan : StartDeploy(w) \/ StartPurge(w)
    BY <1>1, <1>i, <1>e, LoopStep
    DEF StartDeploy, StartPurge, EngineInv, Shape, Worklist, Managed, Control
  <1>2. CASE Launch \/ Quit
    BY <1>2, <1>i, LoopStep DEF Launch, Quit, EngineInv, Shape, Worklist, Control
  <1>3. CASE DeployNext
    <2>1. PICK t \in First(todo) :
            BeginOp([kind |-> "deploy", target |-> t, src |-> plan[t]], "backup")
      BY <1>3 DEF DeployNext
    <2> DEFINE row == [kind |-> "deploy", target |-> t, src |-> plan[t]]
    <2>2. t \in Target /\ row \in Row
      <3>1. t \in Target
        BY <1>i, TargetFacts DEF TypeOK
      <3>2. plan[t] \in Mod
        BY <1>3, <1>i, <2>1, <1>t, <3>1 DEF TypeInv, Control, BeginOp, DeployNext, TypeOK
      <3> QED
        BY <3>1, <3>2
    <2>3. journal = << >>
      BY <1>3, <1>i DEF DeployNext, EngineInv, Shape, Control
    <2>4. row.kind = "deploy" /\ row.target = t
      OBVIOUS
    <2>5. journal' = <<row>> /\ cur' = row /\ pc' = "backup" /\ phase' = "deploy" /\ t \notin todo'
      BY <1>3, <2>1, <2>2, <2>3, OneRow DEF DeployNext, BeginOp
    <2>6. UNCHANGED <<disk, manifest, ledger, blob, staged, orig>> /\ todo' \subseteq todo
      BY <1>3, <2>1 DEF DeployNext, BeginOp
    <2> HIDE DEF row
    <2>7. \A u \in Target : ~ Pending(u)
      BY <2>3, PendingFacts
    <2>8. disk[t] \in {orig[t], Torn} \/ manifest[t] # None
      BY <2>2, <2>7 DEF EngineInv, Sound, Paths, Unclaimed, AsLeft
    <2>9. Shape' /\ Worklist'
      BY <2>2, <2>4, <2>5, <2>6 DEF Shape, Worklist
    <2>10. LedgerExact' /\ Paths'
      BY <2>6, <2>7
      DEF EngineInv, Sound, LedgerExact, Paths, Kept, Unclaimed, AsLeft, CutShortAt
    <2>11. Rows'
      BY <2>2, <2>4, <2>5, <2>6, <2>8, OneRow DEF Rows, RowKnown
    <2>12. Flight'
      BY <2>4, <2>5, <2>6, <2>8 DEF Flight
    <2> QED
      BY <2>9, <2>10, <2>11, <2>12 DEF EngineInv, Sound
  <1>4. CASE DeploySkip
    BY <1>4, <1>i, LoopStep DEF DeploySkip, EngineInv, Shape, Worklist, Control
  <1>5. CASE DeployEnd \/ PurgeEnd \/ ReplayEnd
    BY <1>5, <1>i, LoopStep
    DEF DeployEnd, PurgeEnd, ReplayEnd, Return, EngineInv, Shape, Worklist, Control
  <1>6. CASE PurgeNext
    <2>1. PICK t \in First(todo) :
            BeginOp([kind |-> "purge", target |-> t, src |-> None], "unlink")
      BY <1>6 DEF PurgeNext
    <2> DEFINE row == [kind |-> "purge", target |-> t, src |-> None]
    <2>2. t \in todo /\ t \in Target /\ row \in Row
      BY <1>i, TargetFacts DEF TypeOK
    <2>3. journal = << >>
      BY <1>6, <1>i DEF PurgeNext, EngineInv, Shape, Control
    <2>4. row.kind = "purge" /\ row.target = t
      OBVIOUS
    <2>5. journal' = <<row>> /\ cur' = row /\ pc' = "unlink" /\ phase' = "purge"
          /\ todo' = todo \ {t}
      BY <1>6, <2>1, <2>2, <2>3, OneRow DEF PurgeNext, BeginOp
    <2>6. UNCHANGED <<disk, manifest, ledger, blob, staged, orig>>
      BY <1>6 DEF PurgeNext
    <2> HIDE DEF row
    <2>7. \A u \in Target : ~ Pending(u)
      BY <2>3, PendingFacts
    <2>8. Kept(t)
      BY <1>6, <2>2 DEF PurgeNext, EngineInv, Sound, Worklist, Paths
    <2>9. Shape' /\ Worklist'
      BY <1>6, <2>2, <2>4, <2>5, <2>6 DEF PurgeNext, EngineInv, Shape, Worklist
    <2>10. LedgerExact' /\ Paths'
      BY <2>6, <2>7
      DEF EngineInv, Sound, LedgerExact, Paths, Kept, Unclaimed, AsLeft, CutShortAt
    <2>11. Rows'
      BY <2>2, <2>4, <2>5, <2>6, <2>8, OneRow DEF Rows, RowKnown, Kept
    <2>12. Flight'
      BY <2>4, <2>5, <2>6, <2>8 DEF Flight, Kept
    <2> QED
      BY <2>9, <2>10, <2>11, <2>12 DEF EngineInv, Sound
  <1>7. CASE ReplayNext
    <2>1. PICK r \in Row : journal = <<r>>
      BY <1>7 DEF ReplayNext, EngineInv, Shape
    <2>2. cur' = r /\ Head(journal) = r /\ RowKnown(r) /\ r.target \in Target
      BY <1>7, <2>1, OneRow DEF ReplayNext, EngineInv, Sound, Rows
    <2>3. UNCHANGED <<disk, manifest, ledger, blob, staged, journal, orig, phase, todo>>
      BY <1>7 DEF ReplayNext
    <2>4. Sound'
      BY <2>3, SoundStays DEF EngineInv
    <2>5. Shape' /\ Worklist'
      BY <2>3, <1>7 DEF ReplayNext, EngineInv, Shape, Worklist
    <2>6. disk[r.target] = orig[r.target] \/ Kept(r.target)
      BY <2>2 DEF EngineInv, Sound, Paths
    <2>7. r.kind = "deploy" /\ disk[r.target] = r.src => Kept(r.target)
      BY <2>2, <2>6, <1>i DEF DistinctMods, TypeOK, Bytes
    <2>8. Flight'
      <3>1. CASE ReplayForward(r)
        <4>1. r.kind = "deploy" /\ <<r.src, r.target>> \in staged
          BY <3>1 DEF ReplayForward
        <4>2. CASE disk[r.target] = r.src
          BY <3>1, <4>1, <4>2, <2>2, <2>3, <2>7 DEF ReplayForward, Flight, Kept
        <4>3. CASE disk[r.target] # r.src
          BY <3>1, <4>1, <4>3, <2>2, <2>3 DEF ReplayForward, Flight, RowKnown
        <4> QED
          BY <4>2, <4>3
      <3>2. CASE ReplayLeave(r)
        <4>1. Unclaimed(r.target)
          BY <3>2, <2>2, KeptFacts DEF ReplayLeave, MustLeave, RowKnown, Unclaimed, AsLeft
        <4> QED
          BY <3>2, <4>1, <2>2, <2>3 DEF ReplayLeave, Flight, Unclaimed, AsLeft, CutShortAt
      <3>3. CASE ReplayBack(r)
        <4>1. Kept(r.target)
          <5>1. manifest[r.target] # None => Kept(r.target)
            BY <2>2 DEF EngineInv, Sound, Paths
          <5>2. disk[r.target] = Absent => Kept(r.target)
            BY <2>2, <2>6, KeptFacts DEF Kept, EngineInv, Sound, LedgerExact
          <5> QED
            BY <3>3, <5>1, <5>2, <2>2, <2>7, KeptFacts DEF ReplayBack, MustLeave
        <4> QED
          BY <3>3, <4>1, <2>2, <2>3 DEF ReplayBack, Flight, Kept
      <3>4. CASE ReplayPurge(r)
        BY <3>4, <2>2, <2>3 DEF ReplayPurge, Flight, RowKnown, Kept
      <3> QED
        BY <1>7, <2>2, <3>1, <3>2, <3>3, <3>4 DEF ReplayNext
    <2> QED
      BY <2>4, <2>5, <2>8 DEF EngineInv
  <1>8. CASE BackupCopy
    <2>1. /\ cur.target \in Target /\ cur \in Row /\ cur.kind = "deploy" /\ pc = "backup"
          /\ manifest[cur.target] = None /\ disk[cur.target] \in {orig[cur.target], Torn}
          /\ disk[cur.target] # Absent /\ disk[cur.target] \in Bytes /\ RowKnown(cur)
      BY <1>8, <1>i, AtHand DEF BackupCopy, IsForeign, EngineInv, Flight, Control, TypeOK
    <2>2. /\ blob' = [blob EXCEPT ![disk[cur.target]] = IF @ = "none" THEN "whole" ELSE @]
          /\ pc' = "record"
          /\ UNCHANGED <<disk, manifest, ledger, staged, journal, phase, cur, todo, orig>>
      BY <1>8 DEF BackupCopy, Goto
    <2>3. BlobsStay /\ blob'[disk[cur.target]] # "none"
      BY <2>1, <2>2, <1>i DEF BlobsStay, TypeOK
    <2>4. Kept(cur.target) => Kept(cur.target)'
      BY <2>1, <2>2, <2>3, <1>i, PathStays
    <2>5. disk[cur.target] = orig[cur.target] \/ Kept(cur.target)'
      BY <2>1, <2>4, KeptFacts
    <2>6. orig[cur.target] # Absent => blob'[orig[cur.target]] # "none"
      BY <2>2, <2>3, <2>5 DEF Kept
    <2>7. ledger'[cur.target] # None => blob'[ledger'[cur.target]] # "none" /\ Kept(cur.target)'
      BY <2>1, <2>2, <2>3, <2>4, <1>i DEF EngineInv, Sound, LedgerExact, BlobsStay, TypeOK
    <2>8. Flight' /\ RowKnown(cur)'
      BY <2>1, <2>2, <2>3, <2>6 DEF Flight, RowKnown
    <2> QED
      BY <2>1, <2>2, <2>3, <2>5, <2>7, <2>8, OwnPathStep
  <1>9. CASE BackupSkip
    <2>1. cur.target \in Target /\ cur.kind = "deploy" /\ RowKnown(cur)
          /\ Kept(cur.target)
      <3>1. pc = "backup" /\ ~ IsForeign(cur.target)
        BY <1>9 DEF BackupSkip
      <3>2. cur.target \in Target /\ cur.kind = "deploy" /\ RowKnown(cur)
        BY <3>1, <1>i, AtHand DEF Control
      <3>3. CASE manifest[cur.target] # None
        BY <3>2, <3>3 DEF EngineInv, Sound, Paths
      <3>4. CASE disk[cur.target] = Absent
        BY <3>2, <3>4, KeptFacts DEF Kept
      <3> QED
        BY <3>1, <3>2, <3>3, <3>4 DEF IsForeign
    <2>2. UNCHANGED <<disk, manifest, ledger, blob, staged, journal, phase, cur, todo, orig>>
          /\ pc' = "place" /\ BlobsStay
      BY <1>9 DEF BackupSkip, Goto, BlobsStay
    <2>3. Kept(cur.target)' /\ RowKnown(cur)' /\ Flight'
      BY <2>1, <2>2 DEF Kept, RowKnown, Flight
    <2>4. ledger'[cur.target] # None => blob'[ledger'[cur.target]] # "none"
      BY <2>1, <2>2 DEF EngineInv, Sound, LedgerExact
    <2> QED
      BY <1>9, <2>1, <2>2, <2>3, <2>4, OwnPathStep DEF BackupSkip
  <1>10. CASE RecordVanilla
    <2>1. /\ cur.target \in Target /\ cur \in Row /\ cur.kind = "deploy"
          /\ disk[cur.target] \in {orig[cur.target], Torn} /\ blob[disk[cur.target]] # "none"
          /\ orig[cur.target] # Absent => blob[orig[cur.target]] # "none"
          /\ orig[cur.target] \in Vanilla \cup {Absent} /\ disk[cur.target] # Absent
      BY <1>10, <1>i, AtHand DEF RecordVanilla, EngineInv, Flight, Control, TypeOK, Bytes
    <2>2. /\ ledger' = [ledger EXCEPT ![cur.target] = disk[cur.target]] /\ pc' = "place"
          /\ UNCHANGED <<disk, manifest, blob, staged, journal, phase, cur, todo, orig>>
      BY <1>10, <2>1 DEF RecordVanilla, Goto
    <2>3. Kept(cur.target)' /\ BlobsStay /\ ledger'[cur.target] = disk[cur.target]
      BY <2>1, <2>2, <1>i DEF Kept, TypeOK, BlobsStay
    <2>4. RowKnown(cur)' /\ Flight'
      BY <2>1, <2>2, <2>3 DEF RowKnown, Flight
    <2> QED
      BY <1>10, <1>i, <2>1, <2>2, <2>3, <2>4, OwnPathStep DEF RecordVanilla, TypeOK
  <1>11. CASE PlaceRemove \/ PlaceCreate \/ RecordDeployed \/ Unlink
    <2>1. /\ cur.target \in Target /\ cur \in Row /\ Kept(cur.target) /\ RowKnown(cur)
          /\ pc \in {"place", "create", "manifest", "unlink"}
          /\ pc \in {"place", "create", "manifest"} => cur.kind = "deploy"
      BY <1>11, <1>i, AtHand
      DEF PlaceRemove, PlaceCreate, RecordDeployed, Unlink, EngineInv, Flight, Control
    <2>2. UNCHANGED <<ledger, blob, staged, journal, phase, cur, todo, orig>> /\ BlobsStay
      BY <1>11 DEF PlaceRemove, PlaceCreate, RecordDeployed, Unlink, Goto, BlobsStay
    <2>3. Kept(cur.target)'
      BY <2>1, <2>2 DEF Kept
    <2>4. \A t \in Target \ {cur.target} : disk'[t] = disk[t] /\ manifest'[t] = manifest[t]
      BY <1>11, <1>i DEF PlaceRemove, PlaceCreate, RecordDeployed, Unlink, TypeOK
    <2>5. RowKnown(cur)' /\ Flight'
      <3>1. CASE PlaceRemove \/ PlaceCreate \/ Unlink
        BY <3>1, <2>1, <2>2, <2>3, <1>i
        DEF PlaceRemove, PlaceCreate, Unlink, Goto, RowKnown, Flight, TypeOK
      <3>2. CASE RecordDeployed
        <4> DEFINE m == IF phase = "replay" \/ cur.src = Local THEN None ELSE cur.src
        <4>1. m \in Mod \cup {None} /\ cur.src \in Mod
          BY <2>1, <3>2, <1>i DEF RecordDeployed, Control
        <4>2. [hash |-> cur.src, source_mod |-> m] \in Entry
          BY <4>1 DEF Entry
        <4>3. manifest'[cur.target] # None /\ pc' = "mark" /\ cur.kind = "deploy"
          BY <3>2, <4>2, <2>1, <1>i, NoneAssumption DEF RecordDeployed, Goto, TypeOK
        <4> QED
          BY <4>3, <2>2 DEF RowKnown, Flight
      <3> QED
        BY <1>11, <3>1, <3>2
    <2>6. ledger'[cur.target] # None => blob'[ledger'[cur.target]] # "none"
      BY <2>1, <2>2 DEF EngineInv, Sound, LedgerExact
    <2> QED
      BY <2>1, <2>2, <2>3, <2>4, <2>5, <2>6, OwnPathStep
  <1>12. CASE PlaceFails \/ RestoreFails
    BY <1>12, <1>i, LoopStep
    DEF PlaceFails, RestoreFails, Return, EngineInv, Shape, Worklist
  <1>15. CASE Restore \/ RestoreNothing
    <2>1. /\ cur.target \in Target /\ cur \in Row /\ Kept(cur.target) /\ RowKnown(cur)
          /\ pc = "restore" /\ disk[cur.target] = Absent
      BY <1>15, AtHand DEF Restore, RestoreNothing, EngineInv, Flight
    <2>2. pc' = "drop" /\ BlobsStay
          /\ UNCHANGED <<manifest, ledger, blob, staged, journal, phase, cur, todo, orig>>
      BY <1>15 DEF Restore, RestoreNothing, Goto, BlobsStay
    <2>3. \A t \in Target \ {cur.target} : disk'[t] = disk[t]
      BY <1>15, <1>i DEF Restore, RestoreNothing, TypeOK
    <2>4. AsLeft(cur.target)' /\ disk'[cur.target] \in {orig[cur.target], Torn}
      <3>1. CASE Restore
        <4>1. ledger[cur.target] # None
              /\ disk'[cur.target] = IF blob[ledger[cur.target]] = "whole" THEN ledger[cur.target] ELSE Torn
          BY <3>1, <2>1, <1>i DEF Restore, TypeOK
        <4>2. ledger[cur.target] # Torn =>
                /\ ledger[cur.target] = orig[cur.target] /\ orig[cur.target] # Absent
                /\ blob[orig[cur.target]] \in {"torn", "whole"}
          BY <4>1, <2>1, <1>i, KeptFacts DEF Kept, TypeOK
        <4> QED
          BY <4>1, <4>2, <2>2 DEF AsLeft, CutShortAt
      <3>2. CASE RestoreNothing
        BY <3>2, <2>1, <2>2, KeptFacts DEF RestoreNothing, AsLeft
      <3> QED
        BY <1>15, <3>1, <3>2
    <2>5. Kept(cur.target)' /\ RowKnown(cur)' /\ Flight'
      BY <2>1, <2>2, <2>4 DEF Kept, RowKnown, Flight
    <2>6. ledger'[cur.target] # None => blob'[ledger'[cur.target]] # "none"
      BY <2>1, <2>2 DEF EngineInv, Sound, LedgerExact
    <2> QED
      BY <2>1, <2>2, <2>3, <2>5, <2>6, OwnPathStep
  <1>17. CASE DropManifest
    <2>1. /\ cur.target \in Target /\ Kept(cur.target) /\ RowKnown(cur)
          /\ pc = "drop" /\ AsLeft(cur.target)
      BY <1>17, AtHand DEF DropManifest, EngineInv, Flight
    <2>2. /\ manifest' = [manifest EXCEPT ![cur.target] = None] /\ pc' = "mark" /\ BlobsStay
          /\ UNCHANGED <<disk, ledger, blob, staged, journal, phase, cur, todo, orig>>
      BY <1>17 DEF DropManifest, Goto, BlobsStay
    <2>3. AsLeft(cur.target)' /\ Kept(cur.target)'
      BY <2>1, <2>2 DEF AsLeft, CutShortAt, Kept
    <2>4. RowKnown(cur)' /\ Flight'
      BY <2>2, <2>3 DEF RowKnown, Flight, Unclaimed, AsLeft
    <2>5. ledger'[cur.target] # None => blob'[ledger'[cur.target]] # "none"
      BY <2>1, <2>2 DEF EngineInv, Sound, LedgerExact
    <2> QED
      BY <2>1, <2>2, <2>3, <2>4, <2>5, <1>i, OwnPathStep DEF TypeOK
  <1>18. CASE MarkDone
    <2>1. /\ pc = "mark" /\ cur \in Row /\ cur.target \in Target /\ journal = <<cur>>
          /\ \A t \in Target : Pending(t) <=> t = cur.target
      BY <1>18, AtHand DEF MarkDone
    <2>2. journal' = << >> /\ pc' = "next"
      BY <1>18, <2>1, OneRow DEF MarkDone
    <2>3. UNCHANGED <<disk, manifest, ledger, blob, staged, orig, phase, todo>>
      BY <1>18 DEF MarkDone
    <2>4. \A t \in Target : (Kept(t) => Kept(t)') /\ (Unclaimed(t) => Unclaimed(t)')
      BY <2>3 DEF Kept, Unclaimed, AsLeft, CutShortAt
    <2>5. Paths'
      <3> SUFFICES ASSUME NEW t \in Target, manifest[t] = None
                   PROVE  Unclaimed(t)
        BY <2>3, <2>4 DEF EngineInv, Sound, Paths
      <3>1. CASE t = cur.target
        BY <3>1, <2>1, <1>i DEF EngineInv, Flight
      <3>2. CASE t # cur.target
        BY <3>2, <2>1 DEF EngineInv, Sound, Paths
      <3> QED
        BY <3>1, <3>2
    <2>6. LedgerExact' /\ Shape' /\ Rows' /\ Flight'
      BY <2>2, <2>3, <2>4, EmptySeq DEF EngineInv, Sound, LedgerExact, Shape, Rows, Flight
    <2>7. Worklist'
      BY <1>18, <2>3 DEF MarkDone, EngineInv, Worklist
    <2> QED
      BY <2>5, <2>6, <2>7 DEF EngineInv, Sound
  <1>19. CASE Crash
    BY <1>19, <1>i, LoopStep DEF Crash, Fault, Die, EngineInv, Shape, Worklist, Control
  <1>20. CASE TornBackup \/ TornPlace \/ TornRestore
    <2>0. PICK r \in Row, u \in Target : r = cur /\ u = r.target
      BY <1>20, AtHand DEF TornBackup, TornPlace, TornRestore
    <2>1. RowKnown(r) /\ pc # "next" /\ Die
      BY <1>20, <2>0, AtHand DEF TornBackup, TornPlace, TornRestore, CutShort, RepairFaults
    <2>2. UNCHANGED <<manifest, ledger, staged, journal, orig>>
      BY <1>20 DEF TornBackup, TornPlace, TornRestore, Fault
    <2>3. BlobsStay
      BY <1>20, <1>i, <2>0 DEF TornBackup, TornPlace, TornRestore, BlobsStay, IsForeign, TypeOK
    <2>4. UNCHANGED disk \/ (disk' = [disk EXCEPT ![u] = Torn] /\ Kept(u))
      <3>1. CASE TornBackup
        BY <3>1 DEF TornBackup
      <3>2. CASE TornPlace \/ TornRestore
        BY <3>2, <2>0 DEF TornPlace, TornRestore, EngineInv, Flight
      <3> QED
        BY <1>20, <3>1, <3>2
    <2>5. \A t \in Target \ {u} : disk'[t] = disk[t]
      BY <2>4, <1>i DEF TypeOK
    <2>6. Kept(u) => Kept(u)'
      BY <2>2, <2>3, KeptFacts DEF Kept, BlobsStay
    <2>7. (disk'[u] = orig[u] \/ Kept(u)') /\ (manifest[u] # None => Kept(u)')
      BY <2>4, <2>6 DEF EngineInv, Sound, Paths
    <2>8. ledger[u] # None => blob'[ledger[u]] # "none" /\ Kept(u)'
      BY <2>3, <2>6, <1>i DEF EngineInv, Sound, LedgerExact, BlobsStay, TypeOK
    <2>9. RowKnown(r)'
      BY <2>0, <2>1, <2>2, <2>4, <2>6, <1>i DEF RowKnown, TypeOK
    <2>10. Sound'
      BY <2>0, <2>1, <2>2, <2>3, <2>5, <2>7, <2>8, <2>9, OwnSound
    <2>11. Shape' /\ Flight' /\ Worklist'
      BY <2>1, <2>2 DEF Die, EngineInv, Shape, Flight, Worklist
    <2> QED
      BY <2>10, <2>11 DEF EngineInv
  <1>21. CASE \E m \in Mod : Unstage(m)
    <2>1. UNCHANGED <<disk, manifest, ledger, blob, journal, volatile, orig>> /\ staged' \subseteq staged
      BY <1>21 DEF Unstage, Fault
    <2>2. Sound' /\ Shape' /\ Worklist' /\ Flight'
      BY <2>1, SoundStays
      DEF EngineInv, Shape, Worklist, Flight, Kept, Unclaimed, AsLeft, CutShortAt
    <2> QED
      BY <2>2 DEF EngineInv
  <1>22. CASE UNCHANGED vars
    BY <1>22, SoundStays
    DEF vars, EngineInv, Shape, Worklist, Flight, Kept, Unclaimed, AsLeft, CutShortAt
  <1>23. ~ (Failure
            \/ (\E t \in Target : SteamDelete(t) \/ \E v \in Vanilla : SteamWrite(t, v))
            \/ (\E h \in Bytes : LoseBlob(h)))
    BY DEF RepairFaults, Failure, Fail, SteamDelete, SteamWrite, LoseBlob, Fault, OutsideFault
  <1> QED
    BY <1>1, <1>2, <1>3, <1>4, <1>5, <1>6, <1>7, <1>8, <1>9, <1>10, <1>11, <1>12,
       <1>15, <1>17, <1>18, <1>19, <1>20, <1>21, <1>22, <1>23
    DEF Next, Command, Engine, Environment

LEMMA RepairInit == RInit => RepairInv
  BY RepairTypeInit, EngineInit DEF RInit, RepairInv, EngineInv

LEMMA RepairStep ==
  ASSUME RepairFaults, OneAtATime, DistinctMods, RepairInv, [RNext]_rvars
  PROVE  RepairInv'
  <1>t. RepairTypeInv'
    BY RepairTypeStep DEF RepairInv
  <1> USE <1>t DEF volatile, durable, history
  <1>1. CASE phase # "repair" /\ ((Next /\ UNCHANGED report) \/ UNCHANGED rvars)
    BY <1>1, EngineStep DEF RepairInv, EngineInv, rvars
  <1>2. CASE phase = "repair" /\ Next /\ UNCHANGED report
    <2>1. Repairing
      BY <1>2 DEF RepairInv, RepairTypeInv, TypeInv, TypeOK, Phase
    <2>2. PICK m \in Mod : Unstage(m)
      BY <1>2, <2>1, OnlyRepairRuns
      DEF SteamDelete, SteamWrite, LoseBlob, Fault, OutsideFault, RepairFaults
    <2> QED
      BY <1>2, <2>2, SoundStays DEF Unstage, Fault, RepairInv, Shape
  <1>3. CASE StartRepair
    BY <1>3, SoundStays DEF StartRepair, RepairInv, Shape
  <1>4. CASE Repair \/ RepairCrash
    <2>1. Repairing /\ EntriesSound
      BY <1>4 DEF RepairInv, RepairTypeInv, Repair, RepairSkip, RepairRemove, RepairCreate,
        RepairFails, RepairEnd, RepairCrash, TypeInv, TypeOK, Phase
    <2>2. UNCHANGED <<manifest, ledger, blob, staged, journal, orig>>
      BY <1>4, <2>1, RepairingStep
    <2>3. \A t \in Target : disk'[t] # disk[t] => manifest[t] # None
      BY <1>4, <2>1, RepairingStep
    <2>4. Sound'
      <3>1. \A t \in Target : (Kept(t) <=> Kept(t)') /\ (Pending(t) <=> Pending(t)')
        BY <2>2 DEF Kept, Pending
      <3>2. LedgerExact'
        BY <2>2, <3>1 DEF RepairInv, Sound, LedgerExact
      <3>3. Paths'
        BY <2>2, <2>3, <3>1 DEF RepairInv, Sound, Paths, Unclaimed, AsLeft, CutShortAt
      <3>4. ASSUME NEW i \in 1 .. Len(journal) PROVE RowKnown(journal[i])'
        <4>1. PICK r \in Row : r = journal[i]
          BY <2>1 DEF Repairing, DataOK
        <4>2. r.target \in Target /\ RowKnown(r)
          BY <4>1, RowFacts DEF RepairInv, Sound, Rows
        <4>3. RowKnown(r)'
          BY <2>2, <2>3, <3>1, <4>2 DEF RowKnown
        <4> QED
          BY <2>2, <4>1, <4>3
      <3>5. Rows'
        BY <2>2, <3>4 DEF Rows
      <3> QED
        BY <3>2, <3>3, <3>5 DEF Sound
    <2>5. CASE phase' = "repair"
      BY <2>2, <2>4, <2>5 DEF RepairInv, Shape
    <2>6. CASE phase' # "repair"
      <3>1. TypeInv' /\ phase' \in {"idle", "down"} /\ cur' = None /\ todo' = {}
        BY <1>4, <2>1, <2>6, RepairingStep DEF Repairing
      <3>2. Shape' /\ Worklist'
        BY <2>2, <3>1 DEF RepairInv, Shape, Worklist
      <3>3. Flight'
        BY <3>1 DEF Flight, TypeInv, Control
      <3> QED
        BY <2>4, <3>1, <3>2, <3>3 DEF RepairInv, EngineInv
    <2> QED
      BY <2>5, <2>6
  <1>5. CASE \E t \in Target, bytes \in Vanilla \cup {Absent} : Drift(t, bytes)
    <2>1. PICK t \in Target, bytes \in Vanilla \cup {Absent} : Drift(t, bytes)
      BY <1>5
    <2>2. /\ disk' = [disk EXCEPT ![t] = bytes] /\ manifest[t] # None /\ ~ Pending(t)
          /\ UNCHANGED <<manifest, ledger, blob, staged, journal, phase, pc, cur, todo, orig>>
          /\ phase # "repair" /\ EngineInv
      BY <2>1 DEF Drift, Fault, RepairInv
    <2>3. \A u \in Target : u # t => disk'[u] = disk[u]
      BY <2>2 DEF EngineInv, TypeInv, TypeOK
    <2>4. TypeInv'
      BY <2>2 DEF RepairTypeInv, Repairing
    <2>5. Sound'
      BY <2>2, <2>3
      DEF EngineInv, Sound, LedgerExact, Paths, Rows, RowKnown, Kept, Unclaimed, AsLeft, CutShortAt,
          Pending
    <2>6. Flight'
      <3>1. CASE pc = "next"
        BY <3>1, <2>2 DEF Flight
      <3>2. CASE pc # "next"
        <4>1. cur.target \in Target /\ cur.target # t
          BY <3>2, <2>2, AtHand
        <4> QED
          BY <4>1, <2>2, <2>3 DEF EngineInv, Flight, Kept, Unclaimed, AsLeft, CutShortAt
      <3> QED
        BY <3>1, <3>2
    <2>7. Shape' /\ Worklist'
      BY <2>2 DEF EngineInv, Shape, Worklist
    <2> QED
      BY <2>4, <2>5, <2>6, <2>7 DEF RepairInv, EngineInv
  <1>6. CASE \E d \in Dir : StrayDir(d)
    <2>1. UNCHANGED <<disk, manifest, ledger, blob, staged, journal, volatile, orig>>
          /\ phase = "idle" /\ EngineInv
      BY <1>6 DEF StrayDir, Fault, RepairInv
    <2>2. TypeInv'
      BY <2>1 DEF RepairTypeInv, Repairing
    <2> QED
      BY <2>1, <2>2, SoundStays
      DEF RepairInv, EngineInv, Shape, Worklist, Flight, Kept, Unclaimed, AsLeft, CutShortAt
  <1>7. CASE phase = "repair" /\ UNCHANGED rvars
    BY <1>7, SoundStays DEF rvars, vars, RepairInv, Shape
  <1> QED
    BY <1>1, <1>2, <1>3, <1>4, <1>5, <1>6, <1>7 DEF RNext

LEMMA RepairInvariant ==
  ASSUME RepairFaults, OneAtATime, DistinctMods
  PROVE  RSpec => []RepairInv
  <1>1. RepairInv /\ [RNext]_rvars => RepairInv'
    BY RepairStep
  <1> QED
    BY <1>1, RepairInit, PTL DEF RSpec

\* What is not managed is the user's, byte for byte (or the debris of a copy
\* that was cut short), also after the drift of a managed path, its repair and
\* the loss of the mod it came from, whenever the process dies, inside any of
\* the engine's file copies too.
THEOREM UnmanagedIsTheUsers ==
  ASSUME RepairFaults, OneAtATime, DistinctMods
  PROVE  RSpec => []UnmanagedIsOriginal
  <1>1. RepairInv => UnmanagedIsOriginal
    BY DEF RepairInv, Sound, Paths, Unclaimed, UnmanagedIsOriginal
  <1> QED
    BY <1>1, RepairInvariant, PTL

\* The original of every path outlives drift, repair and the roll-back of an
\* operation whose staged source is gone; a death inside the backup of these
\* very bytes is the one way to lose it.
THEOREM OriginalsOutliveRepair ==
  ASSUME RepairFaults, OneAtATime, DistinctMods
  PROVE  RSpec => []OriginalsSafe
  <1>1. RepairInv => OriginalsSafe
    <2> SUFFICES ASSUME RepairInv, NEW t \in Target, orig[t] # Absent, disk[t] # orig[t]
                 PROVE  \/ blob[orig[t]] = "whole" /\ ledger[t] \in {orig[t], Torn}
                        \/ blob[orig[t]] = "torn"
      BY DEF OriginalsSafe
    <2>1. Kept(t)
      BY DEF RepairInv, Sound, Paths
    <2>2. blob[orig[t]] \in {"none", "torn", "whole"}
      BY DEF RepairInv, RepairTypeInv, Repairing, DataOK, TypeInv, TypeOK, Bytes
    <2> QED
      BY <2>1, <2>2 DEF Kept
  <1> QED
    BY <1>1, RepairInvariant, PTL
=============================================================================
