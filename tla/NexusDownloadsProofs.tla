------------------------ MODULE NexusDownloadsProofs ------------------------
(***************************************************************************)
(* Proofs about NexusDownloads, for every number of downloads, every       *)
(* bucket, every set of reset times and every length of a body.            *)
(***************************************************************************)
EXTENDS NexusDownloads, TLAPS

ResetTimes == UNION {0 .. r : r \in Resets}

LEMMA ResetFacts ==
  /\ Resets \subseteq ResetTimes
  /\ \A d \in ResetTimes : d \in Nat /\ (d > 0 => d - 1 \in ResetTimes)
  /\ 0 \in Resets => 0 \in ResetTimes
  <1> USE DownloadAssumption DEF ResetTimes
  <1>1. \A r \in Resets : r \in 0 .. r
    OBVIOUS
  <1>2. \A d \in ResetTimes : d \in Nat /\ (d > 0 => d - 1 \in ResetTimes)
    <2> SUFFICES ASSUME NEW d \in ResetTimes
                 PROVE  d \in Nat /\ (d > 0 => d - 1 \in ResetTimes)
      OBVIOUS
    <2>1. PICK r \in Resets : d \in 0 .. r
      OBVIOUS
    <2>2. d > 0 => d - 1 \in 0 .. r
      BY <2>1
    <2> QED
      BY <2>1, <2>2
  <1> QED
    BY <1>1, <1>2

LEMMA ArmFacts ==
  ASSUME NEW r \in Resets, deadline \in {Unset, 0} \cup ResetTimes, Arm(r)
  PROVE  deadline' \in {Unset, 0} \cup ResetTimes /\ deadline' >= deadline
  BY ResetFacts DEF Arm, Unset

(* Type correctness is inductive as it stands. *)
LEMMA TypeInit == Init => TypeOK
  BY DownloadAssumption DEF Init, TypeOK, States, Before, Window

LEMMA TypeStep == TypeOK /\ [Next]_vars => TypeOK'
  <1> SUFFICES ASSUME TypeOK, [Next]_vars PROVE TypeOK'
    OBVIOUS
  <1> USE DownloadAssumption DEF TypeOK, States, Before, Window, limiter, flags, disk, store
  <1>d. deadline \in {Unset, 0} \cup ResetTimes
    BY DEF ResetTimes
  <1>1. CASE Tick
    <2>1. deadline' \in {Unset, 0} \cup ResetTimes
      BY <1>1, <1>d, ResetFacts DEF Tick, Unset
    <2> QED
      BY <1>1, <2>1 DEF Tick, ResetTimes
  <1>2. CASE Kill
    BY <1>2 DEF Kill
  <1>3. ASSUME NEW t \in Tasks, Begin(t) \/ Cancel(t)
        PROVE  TypeOK'
    BY <1>3 DEF Begin, Cancel
  <1>4. ASSUME NEW t \in Tasks, Refuse(t) \/ RequireGame(t) \/ Register(t) \/ Gate(t)
        PROVE  TypeOK'
    BY <1>4 DEF Refuse, RequireGame, Register, Gate, Caught
  <1>5. ASSUME NEW t \in Tasks, ClearElapsed(t) \/ TakeToken(t)
        PROVE  TypeOK'
    BY <1>5 DEF ClearElapsed, TakeToken, DropElapsed
  <1>6. ASSUME NEW t \in Tasks, Answered(t) \/ TooManyRequests(t) \/ NoAnswer(t)
        PROVE  TypeOK'
    <2>1. deadline' \in {Unset, 0} \cup ResetTimes
      BY <1>6, <1>d, ArmFacts DEF Answered, TooManyRequests, NoAnswer, NoteHeaders, DropElapsed
    <2> QED
      BY <1>6, <2>1 DEF Answered, TooManyRequests, NoAnswer, Fails, ResetTimes
  <1>7. ASSUME NEW t \in Tasks, OpenStream(t) \/ Chunk(t) \/ Flush(t) \/ Extract(t)
        PROVE  TypeOK'
    BY <1>7 DEF OpenStream, Chunk, Flush, Extract, Unlinked, Fails
  <1>8. ASSUME NEW t \in Tasks, StartMove(t) \/ MoveIntoStaging(t)
        PROVE  TypeOK'
    <2>1. \A how \in {"none", "part", "mixed", "whole"} :
            Merged(t, how) => staged' \in [Tasks -> {"none", "part", "mixed", "whole"}]
      BY DEF Merged
    <2>2. staged' \in [Tasks -> {"none", "part", "mixed", "whole"}]
      BY <1>8, <2>1 DEF StartMove, MoveIntoStaging
    <2> QED
      BY <1>8, <2>2 DEF StartMove, MoveIntoStaging, Unlinked, Fails
  <1>9. ASSUME NEW t \in Tasks, Persist(t) \/ Report(t) \/ Rejected(t)
        PROVE  TypeOK'
    BY <1>9 DEF Persist, Report, Rejected, Fails, Caught
  <1>10. CASE UNCHANGED vars
    BY <1>10 DEF vars
  <1> QED
    BY <1>1, <1>2, <1>3, <1>4, <1>5, <1>6, <1>7, <1>8, <1>9, <1>10 DEF Next, Step

(* The state of the limiter, the flags, the disk, the store and the rows is *)
(* always what its declaration says; in particular the bucket is never      *)
(* overdrawn and no deadline lies beyond the longest reset a server sent.   *)
THEOREM DownloadsTypeCorrect == Spec => []TypeOK
  <1>1. Init => TypeOK
    BY TypeInit
  <1>2. TypeOK /\ [Next]_vars => TypeOK'
    BY TypeStep
  <1> QED
    BY <1>1, <1>2, PTL DEF Spec

-----------------------------------------------------------------------------
(* Whatever the requests beside it are answered, no task brings a deadline  *)
(* nearer that is still ahead (ratelimit.rs note_headers, until_ready).     *)
THEOREM BackoffIsHeld == Spec => BackoffHeld
  <1>1. TypeOK /\ [Next]_vars =>
          [(\E t \in Tasks : pc'[t] # pc[t] /\ pc'[t] # "killed") /\ deadline > 0
             => deadline' >= deadline]_vars
    <2> SUFFICES ASSUME TypeOK, Next, deadline > 0,
                        NEW u \in Tasks, pc'[u] # pc[u], pc'[u] # "killed"
                 PROVE  deadline' >= deadline
      OBVIOUS
    <2> USE DEF limiter, flags, disk, store
    <2>d. deadline \in {Unset, 0} \cup ResetTimes /\ deadline \in Int
      BY ResetFacts DEF TypeOK, ResetTimes, Unset
    <2>1. CASE Tick
      BY <2>1 DEF Tick
    <2>2. CASE Kill
      BY <2>2 DEF Kill
    <2>3. ASSUME NEW t \in Tasks, Begin(t) \/ Cancel(t) \/ Refuse(t) \/ RequireGame(t)
                                  \/ Register(t) \/ Gate(t) \/ TakeToken(t) \/ NoAnswer(t)
          PROVE  deadline' >= deadline
      BY <2>3, <2>d DEF Begin, Cancel, Refuse, RequireGame, Register, Gate, TakeToken, NoAnswer
    <2>4. ASSUME NEW t \in Tasks, ClearElapsed(t)
          PROVE  deadline' >= deadline
      BY <2>4, <2>d DEF ClearElapsed, DropElapsed
    <2>5. ASSUME NEW t \in Tasks, Answered(t) \/ TooManyRequests(t)
          PROVE  deadline' >= deadline
      BY <2>5, <2>d, ArmFacts DEF Answered, TooManyRequests, NoteHeaders, DropElapsed
    <2>6. ASSUME NEW t \in Tasks, OpenStream(t) \/ Chunk(t) \/ Flush(t) \/ Extract(t)
                                  \/ StartMove(t) \/ MoveIntoStaging(t)
                                  \/ Persist(t) \/ Report(t) \/ Rejected(t)
          PROVE  deadline' >= deadline
      BY <2>6, <2>d DEF OpenStream, Chunk, Flush, Extract, StartMove, MoveIntoStaging, Persist, Report, Rejected
    <2> QED
      BY <2>1, <2>2, <2>3, <2>4, <2>5, <2>6 DEF Next, Step
  <1> QED
    BY <1>1, DownloadsTypeCorrect, PTL DEF Spec, BackoffHeld

-----------------------------------------------------------------------------
(* Every way out of the window in which the archive guard is in scope       *)
(* unlinks the archive, and no other step of any task makes one.            *)
THEOREM NoArchiveOrphaned == Spec => []NoOrphanArchive
  <1>1. Init => NoOrphanArchive
    BY DEF Init, NoOrphanArchive
  <1>2. TypeOK /\ NoOrphanArchive /\ [Next]_vars => NoOrphanArchive'
    <2> SUFFICES ASSUME TypeOK, NoOrphanArchive, [Next]_vars PROVE NoOrphanArchive'
      OBVIOUS
    <2> USE DEF TypeOK, NoOrphanArchive, Window, limiter, flags, disk, store
    <2>1. CASE Tick \/ Kill
      BY <2>1 DEF Tick, Kill
    <2>2. ASSUME NEW t \in Tasks, Begin(t) \/ Cancel(t) \/ Refuse(t) \/ RequireGame(t)
                                  \/ Register(t) \/ Gate(t) \/ ClearElapsed(t) \/ TakeToken(t)
          PROVE  NoOrphanArchive'
      BY <2>2 DEF Begin, Cancel, Refuse, RequireGame, Register, Gate, ClearElapsed, TakeToken
    <2>3. ASSUME NEW t \in Tasks, Answered(t) \/ TooManyRequests(t) \/ NoAnswer(t)
          PROVE  NoOrphanArchive'
      BY <2>3 DEF Answered, TooManyRequests, NoAnswer, Fails
    <2>4. ASSUME NEW t \in Tasks, OpenStream(t) \/ Chunk(t) \/ Flush(t) \/ Extract(t)
                                  \/ StartMove(t) \/ MoveIntoStaging(t)
          PROVE  NoOrphanArchive'
      BY <2>4 DEF OpenStream, Chunk, Flush, Extract, StartMove, MoveIntoStaging, Unlinked, Fails
    <2>5. ASSUME NEW t \in Tasks, Persist(t) \/ Report(t) \/ Rejected(t)
          PROVE  NoOrphanArchive'
      BY <2>5 DEF Persist, Report, Rejected, Fails
    <2>6. CASE UNCHANGED vars
      BY <2>6 DEF vars
    <2> QED
      BY <2>1, <2>2, <2>3, <2>4, <2>5, <2>6 DEF Next, Step
  <1> QED
    BY <1>1, <1>2, DownloadsTypeCorrect, PTL DEF Spec

-----------------------------------------------------------------------------
(* CancelStops is not inductive: what keeps a cancelled task from its row   *)
(* is that it stands before the end of its stream, or is on its way out.    *)
Over == {"report", "reject", "ended", "killed"}

Progress ==
  /\ \A t \in stopped : /\ t \in tripped /\ t \notin mods
                        /\ \/ pc[t] \in Before \cup Over
                           \/ pc[t] = "stream" /\ left[t] > 0
  /\ \A t \in mods : pc[t] \in Over

LEMMA ProgressStep == TypeOK /\ Progress /\ [Next]_vars => Progress'
  <1> SUFFICES ASSUME TypeOK, Progress, [Next]_vars PROVE Progress'
    OBVIOUS
  <1> USE DEF TypeOK, Progress, Over, Before, limiter, flags, disk, store
  <1>1. CASE Tick \/ Kill
    BY <1>1 DEF Tick, Kill
  <1>2. ASSUME NEW t \in Tasks, Begin(t) \/ Cancel(t)
        PROVE  Progress'
    BY <1>2 DEF Begin, Cancel
  <1>3. ASSUME NEW t \in Tasks, Refuse(t) \/ RequireGame(t) \/ Register(t) \/ Gate(t)
                                \/ ClearElapsed(t) \/ TakeToken(t)
        PROVE  Progress'
    BY <1>3 DEF Refuse, RequireGame, Register, Gate, ClearElapsed, TakeToken
  <1>4. ASSUME NEW t \in Tasks, Answered(t) \/ TooManyRequests(t) \/ NoAnswer(t)
        PROVE  Progress'
    BY <1>4 DEF Answered, TooManyRequests, NoAnswer, Fails
  <1>5. ASSUME NEW t \in Tasks, OpenStream(t) \/ Chunk(t) \/ Flush(t) \/ Extract(t)
        PROVE  Progress'
    BY <1>5, DownloadAssumption DEF OpenStream, Chunk, Flush, Extract, Fails
  <1>6. ASSUME NEW t \in Tasks, StartMove(t) \/ MoveIntoStaging(t)
        PROVE  Progress'
    BY <1>6 DEF StartMove, MoveIntoStaging, Fails
  <1>7. ASSUME NEW t \in Tasks, Persist(t) \/ Report(t) \/ Rejected(t)
        PROVE  Progress'
    BY <1>7 DEF Persist, Report, Rejected, Fails
  <1>8. CASE UNCHANGED vars
    BY <1>8 DEF vars
  <1> QED
    BY <1>1, <1>2, <1>3, <1>4, <1>5, <1>6, <1>7, <1>8 DEF Next, Step

(* A download cancelled while a chunk was still to come never becomes a     *)
(* mod, whatever the steps between the click and the next look at the flag. *)
THEOREM CancelledStop == Spec => []CancelStops
  <1>1. Init => Progress
    BY DEF Init, Progress
  <1>2. Progress => CancelStops
    BY DEF Progress, CancelStops
  <1> QED
    BY <1>1, <1>2, ProgressStep, DownloadsTypeCorrect, PTL DEF Spec

-----------------------------------------------------------------------------
(* What makes a listed tree whole is the move before its row; what it can   *)
(* be mixed with has been moved, or is being moved, into the same root.     *)
MovedInto(t) == \E s \in Tasks : Shares(s, t) /\ staged[s] # "none"

WholeBehindMove ==
  \A t \in Tasks :
    /\ t \in mods \/ pc[t] = "persist" => staged[t] \in {"whole", "mixed"}
    /\ pc[t] = "moving" => staged[t] \in {"part", "mixed"}
    /\ staged[t] = "mixed" => MovedInto(t)

\* A move of t: its own entry, and the others as they were or mixed with it.
LEMMA MergedFacts ==
  ASSUME TypeOK, NEW t \in Tasks, NEW how, how # "none", Merged(t, how)
  PROVE  /\ staged'[t] = how
         /\ \A s \in Tasks \ {t} : \/ staged'[s] = staged[s]
                                   \/ staged'[s] = "mixed" /\ Shares(s, t) /\ staged[s] # "none"
         /\ \A s \in Tasks : staged[s] # "none" => staged'[s] # "none"
  <1>1. \A s \in Tasks :
          staged'[s] = IF s = t THEN how
                       ELSE IF Shares(s, t) /\ staged[s] # "none" THEN "mixed" ELSE staged[s]
    BY DEF Merged
  <1> QED
    BY <1>1

LEMMA WholeStep ==
  TypeOK /\ Progress /\ WholeBehindMove /\ [Next]_vars => WholeBehindMove'
  <1> SUFFICES ASSUME TypeOK, Progress, WholeBehindMove, [Next]_vars
               PROVE  WholeBehindMove'
    OBVIOUS
  <1> USE DEF TypeOK, WholeBehindMove, limiter, flags, disk, store
  <1>0. UNCHANGED staged => \A t \in Tasks : MovedInto(t)' = MovedInto(t)
    BY DEF MovedInto, Shares
  <1>1. CASE Tick \/ Kill
    BY <1>0, <1>1 DEF Tick, Kill
  <1>2. ASSUME NEW t \in Tasks, Begin(t) \/ Cancel(t) \/ Refuse(t) \/ RequireGame(t)
                                \/ Register(t) \/ Gate(t) \/ ClearElapsed(t) \/ TakeToken(t)
        PROVE  WholeBehindMove'
    BY <1>0, <1>2 DEF Begin, Cancel, Refuse, RequireGame, Register, Gate, ClearElapsed, TakeToken
  <1>3. ASSUME NEW t \in Tasks, Answered(t) \/ TooManyRequests(t) \/ NoAnswer(t)
        PROVE  WholeBehindMove'
    BY <1>0, <1>3 DEF Answered, TooManyRequests, NoAnswer, Fails
  <1>4. ASSUME NEW t \in Tasks, OpenStream(t) \/ Chunk(t) \/ Flush(t) \/ Extract(t)
        PROVE  WholeBehindMove'
    BY <1>0, <1>4 DEF OpenStream, Chunk, Flush, Extract, Fails
  <1>5. ASSUME NEW t \in Tasks, StartMove(t) \/ MoveIntoStaging(t)
        PROVE  WholeBehindMove'
    <2>0. /\ t \notin mods /\ mods' = mods /\ pc[t] \in {"move", "moving"}
          /\ \A s \in Tasks \ {t} : pc'[s] = pc[s]
      BY <1>5 DEF StartMove, MoveIntoStaging, Progress, Over, Fails
    <2>1. PICK how \in {"part", "mixed", "whole"} :
            /\ Merged(t, how)
            /\ how = "mixed" => staged[t] = "mixed"
            /\ pc'[t] = "persist" => how \in {"whole", "mixed"}
            /\ pc'[t] = "moving" => how = "part"
      BY <1>5 DEF StartMove, MoveIntoStaging, Fails
    <2>2. /\ staged'[t] = how
          /\ \A s \in Tasks \ {t} : \/ staged'[s] = staged[s]
                                    \/ staged'[s] = "mixed" /\ Shares(s, t) /\ staged[s] # "none"
          /\ \A s \in Tasks : staged[s] # "none" => staged'[s] # "none"
      BY <2>1, MergedFacts
    <2>3. \A s \in Tasks : MovedInto(s) => MovedInto(s)'
      BY <2>2 DEF MovedInto, Shares
    <2>4. ASSUME NEW s \in Tasks, staged'[s] = "mixed"
          PROVE  MovedInto(s)'
      <3>1. CASE staged[s] = "mixed"
        BY <2>3, <3>1
      <3>2. CASE staged[s] # "mixed"
        <4>1. Shares(s, t)
          BY <2>1, <2>2, <2>4, <3>2
        <4>2. Shares(t, s)
          BY <4>1 DEF Shares
        <4> QED
          BY <2>1, <2>2, <4>2 DEF MovedInto, Shares
      <3> QED
        BY <3>1, <3>2
    <2>5. ASSUME NEW s \in Tasks
          PROVE  /\ s \in mods' \/ pc'[s] = "persist" => staged'[s] \in {"whole", "mixed"}
                 /\ pc'[s] = "moving" => staged'[s] \in {"part", "mixed"}
      BY <2>0, <2>1, <2>2
    <2> QED
      BY <2>4, <2>5
  <1>6. ASSUME NEW t \in Tasks, Persist(t) \/ Report(t) \/ Rejected(t)
        PROVE  WholeBehindMove'
    BY <1>0, <1>6 DEF Persist, Report, Rejected, Fails
  <1>7. CASE UNCHANGED vars
    BY <1>0, <1>7 DEF vars
  <1> QED
    BY <1>1, <1>2, <1>3, <1>4, <1>5, <1>6, <1>7 DEF Next, Step

(* Whatever display names the files have and wherever moves, errors and     *)
(* kills interleave, a mod the store lists was moved to the last file; its   *)
(* tree can only be impaired by another file's move into its root, which the *)
(* display name permits.                                                     *)
THEOREM ListedAreStaged == Spec => []ListedIsStaged
  <1>1. Init => Progress /\ WholeBehindMove
    BY DEF Init, Progress, WholeBehindMove
  <1>2. TypeOK /\ Progress /\ WholeBehindMove /\ [Next]_vars => Progress' /\ WholeBehindMove'
    BY ProgressStep, WholeStep
  <1>3. TypeOK /\ WholeBehindMove => ListedIsStaged
    BY DEF TypeOK, WholeBehindMove, ListedIsStaged, MovedInto
  <1> QED
    BY <1>1, <1>2, <1>3, DownloadsTypeCorrect, PTL DEF Spec
=============================================================================
