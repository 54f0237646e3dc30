------------------------ MODULE ShellCommandsProofs ------------------------
(***************************************************************************)
(* Proofs about ShellCommands, for any number of tasks, roots, collections *)
(* and commands in flight.                                                 *)
(***************************************************************************)
EXTENDS ShellCommands, WellFoundedInduction, TLAPS

(* A non-empty set of ids has a first one.                                 *)
LEMMA FirstIsThere ==
  ASSUME NEW S \in SUBSET Nat, S # {}
  PROVE  First(S) \in S
  <1> DEFINE below == {ss \in Nat \X Nat : ss[1] < ss[2]}
  <1>1. IsWellFoundedOn(below, Nat)
    BY NatLessThanWellFounded, Zenon DEF OpToRel
  <1>2. \A x, y \in Nat : y < x => <<y, x>> \in below
    OBVIOUS
  <1> HIDE DEF below
  <1>3. PICK x \in S : \A y \in S : ~ (<<y, x>> \in below)
    BY <1>1, WFMin
  <1>4. \A y \in S : x <= y
    <2> SUFFICES ASSUME NEW y \in S PROVE x <= y
      OBVIOUS
    <2>1. ~ (y < x)
      BY <1>2, <1>3
    <2> QED
      BY <2>1
  <1> QED
    BY <1>3, <1>4 DEF First

\* The places in a command where it holds the mutex.
Held == {"purging", "placing", "clearing", "unflagging", "dropping", "removing", "unrowing",
         "creating", "linking", "joining"}

\* What a task may rely on: it holds the mutex exactly in its sections, and
\* what it has read there is still true.
Fits(p) ==
  /\ proc[p].at \in Held <=> lock = p
  /\ proc[p].at \in {"creating", "linking", "joining"} =>
       proc[p].coll \in DOMAIN colls /\ proc[p].ids \subseteq DOMAIN mods
  /\ proc[p].at \in {"linking", "joining"} => proc[p].prof \in DOMAIN profiles
  /\ proc[p].at = "dropping" => proc[p].prof \notin active

IInv == TypeOK /\ NoDanglingRows /\ \A p \in Proc : Fits(p)

LEMMA InitIInv == Init => IInv
  <1> SUFFICES ASSUME Init PROVE IInv
    OBVIOUS
  <1>1. Idle \in Task
    BY DEF Idle, Task, Ops, Ats, Id
  <1>2. TypeOK
    BY <1>1, MemberAssumption DEF Init, TypeOK, Id
  <1>3. NoDanglingRows
    BY DEF Init, NoDanglingRows
  <1>4. \A p \in Proc : Fits(p)
    BY NameAssumption DEF Init, Fits, Idle, Held
  <1> QED
    BY <1>2, <1>3, <1>4 DEF IInv

-----------------------------------------------------------------------------
(* The other tasks: where the step is made under the mutex, they are in no *)
(* section; where it is not, it leaves the store as it is.                 *)
LEMMA OthersUnderLock ==
  ASSUME IInv, NEW p \in Proc, \A o \in Proc \ {p} : proc'[o] = proc[o],
         lock \in {p, Free}, lock' \in {p, Free}
  PROVE  \A o \in Proc \ {p} : Fits(o)'
  BY NameAssumption DEF IInv, Fits, Held

LEMMA OthersAside ==
  ASSUME IInv, NEW p \in Proc, \A o \in Proc \ {p} : proc'[o] = proc[o],
         UNCHANGED <<mods, profiles, active, colls, lock>>
  PROVE  \A o \in Proc \ {p} : Fits(o)'
  BY DEF IInv, Fits

(* A step of p that changes nothing of the store: its own task and, when it *)
(* takes or leaves a section, the mutex.                                    *)
LEMMA StoreKept ==
  ASSUME IInv, NEW p \in Proc, UNCHANGED store,
         trees' \in SUBSET Root, live' \in SUBSET Root, up' \in BOOLEAN, calls' \in Nat,
         proc' \in [Proc -> Task], \A o \in Proc \ {p} : proc'[o] = proc[o],
         lock' = lock \/ (lock \in {p, Free} /\ lock' \in {p, Free}),
         Fits(p)'
  PROVE  IInv'
  <1> USE DEF store
  <1>1. TypeOK'
    BY DEF IInv, TypeOK
  <1>2. NoDanglingRows'
    BY DEF IInv, NoDanglingRows
  <1>3. \A o \in Proc \ {p} : Fits(o)'
    BY OthersUnderLock, OthersAside
  <1> QED
    BY <1>1, <1>2, <1>3 DEF IInv

\* A step that only moves p, on the same record.
LEMMA Moves ==
  ASSUME IInv, NEW p \in Proc, NEW at \in Ats, Goto(p, at)
  PROVE  /\ proc' \in [Proc -> Task] /\ \A o \in Proc \ {p} : proc'[o] = proc[o]
         /\ proc'[p].at = at /\ proc'[p].coll = proc[p].coll /\ proc'[p].ids = proc[p].ids
         /\ proc'[p].prof = proc[p].prof
  BY DEF IInv, TypeOK, Goto, Task

LEMMA Returns ==
  ASSUME IInv, NEW p \in Proc, Return(p)
  PROVE  /\ proc' \in [Proc -> Task] /\ \A o \in Proc \ {p} : proc'[o] = proc[o]
         /\ proc'[p].at = "idle"
  <1>1. Idle \in Task /\ Idle.at = "idle"
    BY DEF Idle, Task, Ops, Ats, Id
  <1> QED
    BY <1>1 DEF IInv, TypeOK, Return

LEMMA EngineSteps ==
  ASSUME IInv, NEW p \in Proc,
         \/ StartPurge(p) \/ PurgeRoot(p) \/ Purged(p) \/ PlaceRoot(p)
         \/ PurgeFails(p) \/ PlaceFails(p)
  PROVE  IInv'
  <1>0. /\ trees \in SUBSET Root /\ live \in SUBSET Root /\ up \in BOOLEAN /\ calls \in Nat
        /\ proc \in [Proc -> Task] /\ p # Free
        /\ Fits(p)
    BY NameAssumption DEF IInv, TypeOK
  <1>1. CASE StartPurge(p)
    <2> DEFINE t == [proc[p] EXCEPT !.at = "purging", !.was = live, !.flag = active]
    <2>1. t \in Task /\ t.at = "purging"
      <3>1. active \in SUBSET Id /\ "purging" \in Ats
        BY DEF IInv, TypeOK, Ats
      <3> QED
        BY <1>0, <3>1 DEF Task
    <2>2. proc' = [proc EXCEPT ![p] = t]
      BY <1>0, <1>1 DEF StartPurge
    <2> HIDE DEF t
    <2>3. proc' \in [Proc -> Task] /\ (\A o \in Proc \ {p} : proc'[o] = proc[o]) /\ proc'[p].at = "purging"
      BY <1>0, <2>1, <2>2
    <2>4. Fits(p)'
      BY <1>1, <2>3 DEF StartPurge, Acquire, Fits, Held
    <2> QED
      BY <1>0, <1>1, <2>3, <2>4, StoreKept DEF StartPurge, files, Acquire
  <1>2. CASE PurgeRoot(p)
    <2>1. Fits(p)'
      BY <1>0, <1>2 DEF PurgeRoot, store, Fits
    <2> QED
      BY <1>0, <1>2, <2>1, StoreKept DEF PurgeRoot
  <1>3. CASE Purged(p)
    <2>1. proc[p].at = "purging" /\ lock = p
      BY <1>0, <1>3 DEF Purged, At, Fits, Held
    <2>2. CASE /\ UNCHANGED lock
               /\ proc' = [proc EXCEPT ![p].at = "placing", ![p].names = Wanted(proc[p].prof) \cap trees,
                                       ![p].absent = Wanted(proc[p].prof) \ trees]
      <3> DEFINE wanted == Wanted(proc[p].prof)
      <3>1. wanted \in SUBSET Root
        BY DEF IInv, TypeOK, Wanted
      <3>2. /\ proc' = [proc EXCEPT ![p].at = "placing", ![p].names = wanted \cap trees,
                                    ![p].absent = wanted \ trees]
            /\ lock' = lock
        BY <2>2
      <3> HIDE DEF wanted
      <3>3. "placing" \in Ats
        BY DEF Ats
      <3>4. proc' \in [Proc -> Task] /\ (\A o \in Proc \ {p} : proc'[o] = proc[o])
            /\ proc'[p].at = "placing"
        <4> DEFINE t == [proc[p] EXCEPT !.at = "placing", !.names = wanted \cap trees,
                                       !.absent = wanted \ trees]
        <4>1. t \in Task /\ t.at = "placing"
          BY <1>0, <3>1, <3>3 DEF Task
        <4>2. proc' = [proc EXCEPT ![p] = t]
          BY <1>0, <3>2
        <4> HIDE DEF t
        <4> QED
          BY <1>0, <4>1, <4>2
      <3>5. Fits(p)'
        BY <1>0, <2>1, <3>2, <3>4 DEF Fits, Held
      <3> QED
        BY <1>0, <1>3, <3>2, <3>4, <3>5, StoreKept DEF Purged, files
    <2>3. CASE Goto(p, "want_cleanup") /\ Release
      <3>1. "want_cleanup" \in Ats
        BY DEF Ats
      <3>2. Fits(p)'
        BY <1>0, <2>3, <3>1, Moves DEF Release, Fits, Held
      <3> QED
        BY <1>0, <1>3, <2>1, <2>3, <3>1, <3>2, Moves, StoreKept DEF Purged, files, Release
    <2>4. CASE Return(p) /\ Release
      <3>1. Fits(p)'
        BY <1>0, <2>4, Returns DEF Release, Fits, Held
      <3> QED
        BY <1>0, <1>3, <2>1, <2>4, <3>1, Returns, StoreKept DEF Purged, files, Release
    <2> QED
      BY <1>3, <2>2, <2>3, <2>4, Zenon DEF Purged
  <1>4. CASE PlaceRoot(p)
    <2>1. PICK r \in proc[p].names : /\ live' = live \cup {r}
                                     /\ proc' = [proc EXCEPT ![p].names = @ \ {r}]
      BY <1>4 DEF PlaceRoot
    <2>2. proc[p].names \subseteq Root
      BY <1>0 DEF Task
    <2>3. /\ proc' \in [Proc -> Task] /\ (\A o \in Proc \ {p} : proc'[o] = proc[o])
          /\ proc'[p].at = proc[p].at /\ proc'[p].coll = proc[p].coll
          /\ proc'[p].ids = proc[p].ids /\ proc'[p].prof = proc[p].prof
      BY <1>0, <2>1 DEF Task
    <2>4. Fits(p)'
      BY <1>0, <1>4, <2>3 DEF PlaceRoot, store, Fits
    <2> QED
      BY <1>0, <1>4, <2>1, <2>2, <2>3, <2>4, StoreKept DEF PlaceRoot
  <1>5. CASE PurgeFails(p)
    <2>1. lock = p
      BY <1>0, <1>5 DEF PurgeFails, At, Fits, Held
    <2>2. Fits(p)'
      BY <1>0, <1>5, Returns DEF PurgeFails, Release, Fits, Held
    <2> QED
      BY <1>0, <1>5, <2>1, <2>2, Returns, StoreKept DEF PurgeFails, files, Release
  <1>6. CASE PlaceFails(p)
    <2>1. lock = p
      BY <1>0, <1>6 DEF PlaceFails, At, Fits, Held
    <2>2. CASE Return(p) /\ Release
      <3>1. Fits(p)'
        BY <1>0, <2>2, Returns DEF Release, Fits, Held
      <3> QED
        BY <1>0, <1>6, <2>1, <2>2, <3>1, Returns, StoreKept DEF PlaceFails, files, Release
    <2>3. CASE Goto(p, "clearing") /\ UNCHANGED lock
      <3>1. "clearing" \in Ats
        BY DEF Ats
      <3>2. Fits(p)'
        BY <1>0, <2>1, <2>3, <3>1, Moves DEF Fits, Held
      <3> QED
        BY <1>0, <1>6, <2>3, <3>1, <3>2, Moves, StoreKept DEF PlaceFails, files
    <2> QED
      BY <1>6, <2>2, <2>3 DEF PlaceFails
  <1> QED
    BY <1>1, <1>2, <1>3, <1>4, <1>5, <1>6

LEMMA FetchSteps ==
  ASSUME IInv, NEW p \in Proc,
         \/ StageTree(p) \/ Fetched(p) \/ FetchFails(p) \/ Pinned(p)
         \/ Joined(p) \/ StartCleanup(p) \/ RemoveTree(p)
  PROVE  IInv'
  <1>0. /\ trees \in SUBSET Root /\ live \in SUBSET Root /\ up \in BOOLEAN /\ calls \in Nat
        /\ proc \in [Proc -> Task] /\ p # Free
        /\ Fits(p)
    BY NameAssumption DEF IInv, TypeOK
  <1>1. CASE StageTree(p)
    <2>1. PICK r \in proc[p].names :
            /\ trees' = trees \cup {r}
            /\ proc' = [proc EXCEPT ![p].names = @ \ {r}, ![p].staged = @ \cup {r}]
      BY <1>1 DEF StageTree
    <2>2. r \in Root
      BY <1>0 DEF Task
    <2>3. /\ proc' \in [Proc -> Task] /\ (\A o \in Proc \ {p} : proc'[o] = proc[o])
          /\ proc'[p].at = proc[p].at /\ proc'[p].coll = proc[p].coll
          /\ proc'[p].ids = proc[p].ids /\ proc'[p].prof = proc[p].prof
      BY <1>0, <2>1, <2>2 DEF Task
    <2>4. Fits(p)'
      BY <1>0, <1>1, <2>3 DEF StageTree, store, Fits
    <2> QED
      BY <1>0, <1>1, <2>1, <2>2, <2>3, <2>4, StoreKept DEF StageTree
  <1>2. CASE Fetched(p)
    <2>1. proc[p].at = "fetching" /\ lock # p
      BY <1>0, <1>2 DEF Fetched, At, Fits, Held
    <2>2. CASE Return(p)
      <3>1. Fits(p)'
        BY <1>0, <1>2, <2>1, <2>2, Returns DEF Fetched, Fits, Held
      <3> QED
        BY <1>0, <1>2, <2>2, <3>1, Returns, StoreKept DEF Fetched, files
    <2>3. CASE Goto(p, "pinning")
      <3>1. "pinning" \in Ats
        BY DEF Ats
      <3>2. Fits(p)'
        BY <1>0, <1>2, <2>1, <2>3, <3>1, Moves DEF Fetched, Fits, Held
      <3> QED
        BY <1>0, <1>2, <2>3, <3>1, <3>2, Moves, StoreKept DEF Fetched, files
    <2> QED
      BY <1>2, <2>2, <2>3 DEF Fetched
  <1>3. CASE FetchFails(p)
    <2>1. PICK r \in proc[p].names : proc' = [proc EXCEPT ![p].names = @ \ {r}]
      BY <1>3 DEF FetchFails
    <2>2. /\ proc' \in [Proc -> Task] /\ (\A o \in Proc \ {p} : proc'[o] = proc[o])
          /\ proc'[p].at = proc[p].at /\ proc'[p].coll = proc[p].coll
          /\ proc'[p].ids = proc[p].ids /\ proc'[p].prof = proc[p].prof
      BY <1>0, <2>1 DEF Task
    <2>3. Fits(p)'
      BY <1>0, <1>3, <2>2 DEF FetchFails, store, Fits
    <2> QED
      BY <1>0, <1>3, <2>2, <2>3, StoreKept DEF FetchFails, files
  <1>4. CASE Pinned(p)
    <2>1. Fits(p)'
      BY <1>0, <1>4, Returns DEF Pinned, At, Fits, Held
    <2> QED
      BY <1>0, <1>4, <2>1, Returns, StoreKept DEF Pinned, files
  <1>5. CASE Joined(p)
    <2>1. lock = p /\ "want_purge" \in Ats
      BY <1>0, <1>5 DEF Joined, At, Fits, Held, Ats
    <2>2. Fits(p)'
      BY <1>0, <1>5, <2>1, Moves DEF Joined, Release, Fits, Held
    <2> QED
      BY <1>0, <1>5, <2>1, <2>2, Moves, StoreKept DEF Joined, files, Release
  <1>6. CASE StartCleanup(p)
    <2>1. PICK at \in {"removing", "unflagging"} : Goto(p, at)
      BY <1>6 DEF StartCleanup
    <2>2. at \in Ats
      BY DEF Ats
    <2>3. Fits(p)'
      BY <1>0, <1>6, <2>1, <2>2, Moves DEF StartCleanup, Acquire, Fits, Held
    <2> QED
      BY <1>0, <1>6, <2>1, <2>2, <2>3, Moves, StoreKept DEF StartCleanup, files, Acquire
  <1>7. CASE RemoveTree(p)
    <2>1. Goto(p, "unrowing") /\ "unrowing" \in Ats /\ proc[p].at = "removing"
      BY <1>7 DEF RemoveTree, Ats, At
    <2>2. trees' \in SUBSET Root
      BY <1>0, <1>7 DEF RemoveTree
    <2>3. Fits(p)'
      BY <1>0, <1>7, <2>1, Moves DEF RemoveTree, Fits, Held
    <2> QED
      BY <1>0, <1>7, <2>1, <2>2, <2>3, Moves, StoreKept DEF RemoveTree
  <1> QED
    BY <1>1, <1>2, <1>3, <1>4, <1>5, <1>6, <1>7

-----------------------------------------------------------------------------
StoreOK ==
  /\ DOMAIN mods \subseteq Id /\ mods \in [DOMAIN mods -> Root]
  /\ DOMAIN profiles \subseteq Id /\ profiles \in [DOMAIN profiles -> Slug \cup UserName]
  /\ DOMAIN colls \subseteq Id
  /\ colls \in [DOMAIN colls -> [slug : Slug, profile_id : {0} \cup Id]]
  /\ issued \in [{"mod", "profile", "coll"} -> {0} \cup Id]
  /\ NoDanglingRows

\* A step of p under the mutex that leaves the store in order.
LEMMA StoreWritten ==
  ASSUME IInv, NEW p \in Proc, StoreOK',
         trees' \in SUBSET Root, live' \in SUBSET Root, up' \in BOOLEAN, calls' \in Nat,
         proc' \in [Proc -> Task], \A o \in Proc \ {p} : proc'[o] = proc[o],
         lock \in {p, Free}, lock' \in {p, Free},
         Fits(p)'
  PROVE  IInv'
  <1>1. TypeOK'
    BY DEF IInv, TypeOK, StoreOK, NoDanglingRows
  <1>2. NoDanglingRows'
    BY DEF StoreOK
  <1>3. \A o \in Proc \ {p} : Fits(o)'
    BY OthersUnderLock
  <1> QED
    BY <1>1, <1>2, <1>3 DEF IInv

LEMMA StoreIsOK ==
  ASSUME IInv PROVE StoreOK
  BY DEF IInv, TypeOK, StoreOK

(* The statements of the store.                                             *)
LEMMA IssueFacts ==
  ASSUME StoreOK, NEW t \in {"mod", "profile", "coll"}
  PROVE  /\ NewId(t) \in Id
         /\ Issue(t) => issued' \in [{"mod", "profile", "coll"} -> {0} \cup Id]
  BY DEF StoreOK, NewId, Issue, Id

LEMMA InsertProfileOK ==
  ASSUME StoreOK, NEW name \in Slug \cup UserName, InsertProfile(name),
         UNCHANGED <<mods, active, members, colls, pins>>
  PROVE  StoreOK' /\ DOMAIN profiles' = DOMAIN profiles \cup {NewId("profile")}
  <1>1. /\ DOMAIN profiles' = DOMAIN profiles \cup {NewId("profile")}
        /\ profiles' \in [DOMAIN profiles' -> Slug \cup UserName]
    BY DEF StoreOK, InsertProfile, Put
  <1>2. NewId("profile") \in Id /\ issued' \in [{"mod", "profile", "coll"} -> {0} \cup Id]
    BY IssueFacts DEF InsertProfile
  <1>3. NoDanglingRows'
    BY <1>1 DEF StoreOK, NoDanglingRows
  <1> QED
    BY <1>1, <1>2, <1>3 DEF StoreOK

LEMMA DropProfileOK ==
  ASSUME StoreOK, NEW q, DropProfile(q), UNCHANGED <<mods, pins, issued>>
  PROVE  StoreOK' /\ DOMAIN profiles' = DOMAIN profiles \ {q}
  <1>1. /\ DOMAIN profiles' = DOMAIN profiles \ {q}
        /\ profiles' \in [DOMAIN profiles' -> Slug \cup UserName]
    BY DEF StoreOK, DropProfile, Without, Restrict
  <1>2. /\ DOMAIN colls' = DOMAIN colls
        /\ \A c \in DOMAIN colls : colls'[c] = IF colls[c].profile_id = q
                                     THEN [colls[c] EXCEPT !.profile_id = 0] ELSE colls[c]
    BY DEF DropProfile
  <1>3. \A c \in DOMAIN colls :
          /\ colls'[c] \in [slug : Slug, profile_id : {0} \cup Id]
          /\ colls'[c].profile_id \in {0} \cup (DOMAIN profiles \ {q})
    BY <1>2 DEF StoreOK, NoDanglingRows
  <1>4. colls' \in [DOMAIN colls' -> [slug : Slug, profile_id : {0} \cup Id]]
    BY <1>2, <1>3 DEF DropProfile
  <1>5. NoDanglingRows'
    BY <1>1, <1>2, <1>3 DEF StoreOK, NoDanglingRows, DropProfile
  <1> QED
    BY <1>1, <1>2, <1>4, <1>5 DEF StoreOK

LEMMA DropModOK ==
  ASSUME StoreOK, NEW m, DropMod(m), UNCHANGED <<profiles, active, colls, issued>>
  PROVE  StoreOK'
  <1>1. DOMAIN mods' = DOMAIN mods \ {m} /\ mods' \in [DOMAIN mods' -> Root]
    BY DEF StoreOK, DropMod, Without, Restrict
  <1>2. NoDanglingRows'
    BY <1>1 DEF StoreOK, NoDanglingRows, DropMod
  <1> QED
    BY <1>1, <1>2 DEF StoreOK

LEMMA DropCollOK ==
  ASSUME StoreOK, NEW c, DropColl(c), UNCHANGED <<mods, profiles, active, members, issued>>
  PROVE  StoreOK'
  <1>1. /\ DOMAIN colls' = DOMAIN colls \ {c}
        /\ colls' \in [DOMAIN colls' -> [slug : Slug, profile_id : {0} \cup Id]]
        /\ \A d \in DOMAIN colls' : colls'[d] = colls[d]
    BY DEF StoreOK, DropColl, Without, Restrict
  <1>2. NoDanglingRows'
    BY <1>1 DEF StoreOK, NoDanglingRows, DropColl
  <1> QED
    BY <1>1, <1>2 DEF StoreOK

LEMMA RowOfIsId ==
  ASSUME StoreOK, NEW s \in Slug
  PROVE  RowOf(s) \in Id
  <1>1. CASE \E c \in DOMAIN colls : colls[c].slug = s
    BY <1>1 DEF RowOf, StoreOK
  <1>2. CASE ~ \E c \in DOMAIN colls : colls[c].slug = s
    BY <1>2, IssueFacts DEF RowOf
  <1> QED
    BY <1>1, <1>2

LEMMA UpsertOK ==
  ASSUME StoreOK, NEW s \in Slug, NEW c \in Id, UpsertUnlinked(s, c),
         UNCHANGED <<mods, profiles, active, members, pins>>
  PROVE  StoreOK'
  <1> DEFINE v == [slug |-> s, profile_id |-> 0]
             R == [slug : Slug, profile_id : {0} \cup Id]
  <1>1. v \in R /\ v.profile_id = 0
    OBVIOUS
  <1>2. colls \in [DOMAIN colls -> R] /\ colls' = Put(colls, c, v)
    BY DEF StoreOK, UpsertUnlinked
  <1> HIDE DEF v, R
  <1>3. /\ DOMAIN colls' = DOMAIN colls \cup {c}
        /\ colls' \in [DOMAIN colls' -> R]
        /\ \A x \in DOMAIN colls : x # c => colls'[x] = colls[x]
        /\ colls'[c] = v
    BY <1>1, <1>2 DEF Put
  <1>4. issued' \in [{"mod", "profile", "coll"} -> {0} \cup Id]
    BY IssueFacts DEF UpsertUnlinked, StoreOK
  <1>5. NoDanglingRows'
    BY <1>1, <1>3 DEF StoreOK, NoDanglingRows
  <1> QED
    BY <1>3, <1>4, <1>5 DEF StoreOK, R

-----------------------------------------------------------------------------
\* A step of p to the record t.
LEMMA Becomes ==
  ASSUME IInv, NEW p \in Proc, NEW t \in Task, proc' = [proc EXCEPT ![p] = t]
  PROVE  proc' \in [Proc -> Task] /\ (\A o \in Proc \ {p} : proc'[o] = proc[o]) /\ proc'[p] = t
  BY DEF IInv, TypeOK

LEMMA CallSteps ==
  ASSUME IInv, NEW p \in Proc, Call(p)
  PROVE  IInv'
  <1>0. /\ trees \in SUBSET Root /\ live \in SUBSET Root /\ up \in BOOLEAN /\ calls \in Nat
        /\ proc \in [Proc -> Task] /\ p # Free /\ StoreOK
        /\ Fits(p)
    BY NameAssumption, StoreIsOK DEF IInv, TypeOK
  <1>1. \A op : Issued(p, op) => proc[p].at = "idle" /\ calls' \in Nat /\ lock # p
    BY <1>0 DEF Issued, Idle, Fits, Held
  <1>2. CASE Purge(p)
    <2> DEFINE t == [Idle EXCEPT !.op = "purge", !.at = "purging"]
    <2>1. t \in Task /\ t.at = "purging"
      BY DEF Idle, Task, Ops, Ats, Id
    <2>2. proc' = [proc EXCEPT ![p] = t]
      BY <1>2 DEF Purge, Start
    <2> HIDE DEF t
    <2>3. Fits(p)'
      BY <1>2, <2>1, <2>2, Becomes DEF Purge, Acquire, Fits, Held
    <2> QED
      BY <1>0, <1>1, <1>2, <2>1, <2>2, <2>3, Becomes, StoreKept DEF Purge, Acquire, files
  <1>3. CASE Deploy(p)
    <2> DEFINE t == [Idle EXCEPT !.op = "deploy", !.at = "placing", !.names = {Local}]
    <2>1. t \in Task /\ t.at = "placing"
      BY MemberAssumption DEF Idle, Task, Ops, Ats, Id
    <2>2. proc' = [proc EXCEPT ![p] = t]
      BY <1>3 DEF Deploy
    <2> HIDE DEF t
    <2>3. Fits(p)'
      BY <1>3, <2>1, <2>2, Becomes DEF Deploy, Acquire, Fits, Held
    <2> QED
      BY <1>0, <1>1, <1>3, <2>1, <2>2, <2>3, Becomes, StoreKept DEF Deploy, Acquire, files
  <1>4. ASSUME NEW u \in UserName, CreateProfile(p, u)
        PROVE  IInv'
    <2>1. StoreOK'
      BY <1>0, <1>4, InsertProfileOK DEF CreateProfile
    <2>2. Fits(p)'
      BY <1>0, <1>1, <1>4 DEF CreateProfile, Fits, Held
    <2> QED
      BY <1>0, <1>1, <1>4, <2>1, <2>2, StoreWritten DEF CreateProfile, files
  <1>5. ASSUME NEW q \in 1 .. issued.profile, DeleteProfile(p, q)
        PROVE  IInv'
    <2>1. StoreOK'
      BY <1>0, <1>5, DropProfileOK DEF DeleteProfile
    <2>2. Fits(p)'
      BY <1>0, <1>1, <1>5 DEF DeleteProfile, Fits, Held
    <2> QED
      BY <1>0, <1>1, <1>5, <2>1, <2>2, StoreWritten DEF DeleteProfile, files
  <1>6. ASSUME NEW q \in 1 .. issued.profile, SwitchProfile(p, q)
        PROVE  IInv'
    <2> DEFINE t == [Idle EXCEPT !.op = "switch_profile", !.at = "purging", !.prof = q,
                                 !.was = live, !.flag = active]
    <2>1. issued.profile \in Nat
      BY <1>0 DEF StoreOK, Id
    <2>2. q \in Id
      BY <2>1 DEF Id
    <2>3. t \in Task /\ t.at = "purging"
      <3>1. active \in SUBSET Id
        BY DEF IInv, TypeOK
      <3> QED
        BY <1>0, <2>2, <3>1 DEF Idle, Task, Ops, Ats
    <2>4. proc' = [proc EXCEPT ![p] = t]
      BY <1>6 DEF SwitchProfile
    <2> HIDE DEF t
    <2>5. Fits(p)'
      BY <1>6, <2>3, <2>4, Becomes DEF SwitchProfile, Acquire, Fits, Held
    <2> QED
      BY <1>0, <1>1, <1>6, <2>3, <2>4, <2>5, Becomes, StoreKept DEF SwitchProfile, Acquire, files
  <1>7. ASSUME NEW r \in Root \ {Local}, Download(p, r)
        PROVE  IInv'
    <2> DEFINE t == [Idle EXCEPT !.op = "download", !.at = "fetching", !.names = {r}]
    <2>1. t \in Task /\ t.at = "fetching"
      BY DEF Idle, Task, Ops, Ats, Id
    <2>2. proc' = [proc EXCEPT ![p] = t]
      BY <1>7 DEF Download
    <2> HIDE DEF t
    <2>3. Fits(p)'
      BY <1>1, <1>7, <2>1, <2>2, Becomes DEF Download, Fits, Held
    <2> QED
      BY <1>0, <1>1, <1>7, <2>1, <2>2, <2>3, Becomes, StoreKept DEF Download, files
  <1>8. ASSUME NEW s \in Slug, DownloadCollection(p, s)
        PROVE  IInv'
    <2> DEFINE t == [Idle EXCEPT !.op = "download_collection", !.at = "fetching",
                                 !.coll = RowOf(s), !.names = Members[s]]
    <2>1. RowOf(s) \in Id /\ Members[s] \in SUBSET Root
      BY <1>0, RowOfIsId, MemberAssumption
    <2>2. t \in Task /\ t.at = "fetching"
      BY <2>1 DEF Idle, Task, Ops, Ats
    <2>3. proc' = [proc EXCEPT ![p] = t]
      BY <1>8 DEF DownloadCollection
    <2>4. StoreOK'
      BY <1>0, <1>8, <2>1, UpsertOK DEF DownloadCollection
    <2> HIDE DEF t
    <2>5. Fits(p)'
      BY <1>0, <1>1, <1>8, <2>2, <2>3, Becomes DEF DownloadCollection, Fits, Held
    <2> QED
      BY <1>0, <1>1, <1>8, <2>2, <2>3, <2>4, <2>5, Becomes, StoreWritten
         DEF DownloadCollection, files
  <1>9. ASSUME NEW c \in DOMAIN colls, DeployCollection(p, c)
        PROVE  IInv'
    <2> DEFINE prof == colls[c].profile_id
               at == IF prof = 0 THEN "creating" ELSE "joining"
               t == [Idle EXCEPT !.op = "deploy_collection", !.coll = c, !.ids = PinnedTo(c),
                                 !.prof = prof, !.at = at]
    <2>1. /\ c \in Id /\ prof \in {0} \cup Id /\ (prof # 0 => prof \in DOMAIN profiles)
          /\ PinnedTo(c) \subseteq DOMAIN mods /\ PinnedTo(c) \in SUBSET Id
      BY <1>0 DEF StoreOK, NoDanglingRows, PinnedTo
    <2>2. proc' = [proc EXCEPT ![p] = t]
      BY <1>9 DEF DeployCollection
    <2>3. at \in Ats /\ at \in {"creating", "joining"} /\ (prof = 0 => at = "creating")
      BY DEF Ats
    <2> HIDE DEF at, prof
    <2>4. /\ t \in Task /\ t.at = at /\ t.coll = c /\ t.prof = prof /\ t.ids = PinnedTo(c)
      BY <2>1, <2>3 DEF Idle, Task, Ops
    <2> HIDE DEF t
    <2>5. Fits(p)'
      <3>1. proc'[p] = t /\ lock' = p /\ UNCHANGED <<mods, profiles, active, colls>>
        BY <1>9, <2>2, <2>4, Becomes DEF DeployCollection, Acquire, store
      <3>2. at = "joining" => prof \in DOMAIN profiles
        BY <2>1, <2>3
      <3> QED
        BY <2>1, <2>3, <2>4, <3>1, <3>2 DEF Fits, Held
    <2> QED
      BY <1>0, <1>1, <1>9, <2>2, <2>4, <2>5, Becomes, StoreKept
         DEF DeployCollection, Acquire, files
  <1>10. ASSUME NEW c \in DOMAIN colls, UninstallCollection(p, c)
         PROVE  IInv'
    <2> DEFINE t == [Idle EXCEPT !.op = "uninstall_collection", !.at = "want_purge", !.coll = c,
                                 !.ids = PinnedTo(c), !.prof = colls[c].profile_id]
    <2>1. c \in Id /\ colls[c].profile_id \in {0} \cup Id /\ PinnedTo(c) \in SUBSET Id
      BY <1>0 DEF StoreOK, PinnedTo
    <2>2. t \in Task /\ t.at = "want_purge"
      BY <2>1 DEF Idle, Task, Ops, Ats
    <2>3. proc' = [proc EXCEPT ![p] = t]
      BY <1>10 DEF UninstallCollection
    <2> HIDE DEF t
    <2>4. Fits(p)'
      BY <1>1, <1>10, <2>2, <2>3, Becomes DEF UninstallCollection, Fits, Held
    <2> QED
      BY <1>0, <1>1, <1>10, <2>2, <2>3, <2>4, Becomes, StoreKept DEF UninstallCollection, files
  <1> QED
    BY <1>2, <1>3, <1>4, <1>5, <1>6, <1>7, <1>8, <1>9, <1>10 DEF Call

LEMMA RowSteps ==
  ASSUME IInv, NEW p \in Proc,
         \/ SetActive(p) \/ ClearActive(p) \/ AddModRow(p) \/ PinMod(p) \/ RemoveCollection(p)
         \/ UnflagProfile(p) \/ DropDedicated(p) \/ RemoveModRow(p)
  PROVE  IInv'
  <1>0. /\ trees \in SUBSET Root /\ live \in SUBSET Root /\ up \in BOOLEAN /\ calls \in Nat
        /\ proc \in [Proc -> Task] /\ p # Free /\ StoreOK
        /\ Fits(p)
    BY NameAssumption, StoreIsOK DEF IInv, TypeOK
  <1>1. CASE SetActive(p)
    <2>1. lock = p
      BY <1>0, <1>1 DEF SetActive, At, Fits, Held
    <2>2. StoreOK'
      BY <1>0, <1>1 DEF SetActive, ActivateOnly, StoreOK, NoDanglingRows
    <2>3. Return(p) /\ Release
      BY <1>1 DEF SetActive
    <2>4. Fits(p)'
      BY <1>0, <2>3, Returns DEF Release, Fits, Held
    <2> QED
      BY <1>0, <1>1, <2>1, <2>2, <2>3, <2>4, Returns, StoreWritten DEF SetActive, files, Release
  <1>2. CASE ClearActive(p)
    <2>1. lock = p
      BY <1>0, <1>2 DEF ClearActive, At, Fits, Held
    <2>2. StoreOK'
      BY <1>0, <1>2 DEF ClearActive, StoreOK, NoDanglingRows
    <2>3. Fits(p)'
      BY <1>0, <1>2, Returns DEF ClearActive, Release, Fits, Held
    <2> QED
      BY <1>0, <1>2, <2>1, <2>2, <2>3, Returns, StoreWritten DEF ClearActive, files, Release
  <1>3. CASE AddModRow(p)
    <2>1. PICK r \in proc[p].staged :
            /\ mods' = Put(mods, NewId("mod"), r)
            /\ proc' = [proc EXCEPT ![p].staged = @ \ {r}, ![p].ids = @ \cup {NewId("mod")}]
      BY <1>3 DEF AddModRow
    <2>2. r \in Root /\ NewId("mod") \in Id
      BY <1>0, IssueFacts DEF Task
    <2>3. DOMAIN mods' = DOMAIN mods \cup {NewId("mod")} /\ mods' \in [DOMAIN mods' -> Root]
      BY <1>0, <2>1, <2>2 DEF Put, StoreOK
    <2>4. issued' \in [{"mod", "profile", "coll"} -> {0} \cup Id]
      BY <1>0, <1>3, IssueFacts DEF AddModRow
    <2>5. StoreOK'
      BY <1>0, <1>3, <2>2, <2>3, <2>4 DEF AddModRow, StoreOK, NoDanglingRows
    <2>6. /\ proc' \in [Proc -> Task] /\ (\A o \in Proc \ {p} : proc'[o] = proc[o])
          /\ proc'[p].at = proc[p].at
      <3> DEFINE n == NewId("mod")
                 t == [proc[p] EXCEPT !.staged = @ \ {r}, !.ids = @ \cup {n}]
      <3>1. proc \in [Proc -> Task] /\ proc[p] \in Task /\ n \in Id
        BY <1>0, <2>2
      <3>2. proc' = [proc EXCEPT ![p] = t]
        BY <2>1, <3>1
      <3> HIDE DEF n
      <3>3. t \in Task /\ t.at = proc[p].at
        BY <3>1 DEF Task
      <3> HIDE DEF t
      <3> QED
        BY <3>1, <3>2, <3>3
    <2>7. Fits(p)'
      BY <1>0, <1>3, <2>6 DEF AddModRow, At, Fits, Held
    <2> QED
      BY <1>0, <1>3, <2>5, <2>6, <2>7, StoreWritten DEF AddModRow, files
  <1>4. CASE PinMod(p)
    <2> DEFINE c == proc[p].coll
               m == First(proc[p].ids)
    <2>1. proc[p].at = "pinning" /\ lock = Free
      BY <1>4 DEF PinMod, At
    <2>2. CASE c \in DOMAIN colls /\ m \in DOMAIN mods
      <3>1. pins' = pins \cup {<<c, m>>} /\ proc' = [proc EXCEPT ![p].ids = @ \ {m}]
        BY <1>4, <2>2 DEF PinMod
      <3>2. StoreOK'
        BY <1>0, <1>4, <2>2, <3>1 DEF PinMod, StoreOK, NoDanglingRows
      <3> HIDE DEF c, m
      <3>3. /\ proc' \in [Proc -> Task] /\ (\A o \in Proc \ {p} : proc'[o] = proc[o])
            /\ proc'[p].at = proc[p].at
        BY <1>0, <3>1 DEF Task
      <3>4. Fits(p)'
        BY <1>0, <1>4, <2>1, <3>3 DEF PinMod, Fits, Held
      <3> QED
        BY <1>0, <1>4, <2>1, <3>2, <3>3, <3>4, StoreWritten DEF PinMod, files
    <2>3. CASE ~ (c \in DOMAIN colls /\ m \in DOMAIN mods)
      <3>1. Return(p) /\ UNCHANGED pins
        BY <1>4, <2>3 DEF PinMod
      <3>2. Fits(p)'
        BY <1>0, <1>4, <2>1, <3>1, Returns DEF PinMod, Fits, Held
      <3> QED
        BY <1>0, <1>4, <3>1, <3>2, Returns, StoreKept DEF PinMod, files, store
    <2> QED
      BY <2>2, <2>3
  <1>5. CASE RemoveCollection(p)
    <2>1. lock = p
      BY <1>0, <1>5 DEF RemoveCollection, At, Fits, Held
    <2>2. StoreOK'
      BY <1>0, <1>5, DropCollOK DEF RemoveCollection
    <2>3. Fits(p)'
      BY <1>0, <1>5, Returns DEF RemoveCollection, Release, Fits, Held
    <2> QED
      BY <1>0, <1>5, <2>1, <2>2, <2>3, Returns, StoreWritten DEF RemoveCollection, files, Release
  <1>6. CASE UnflagProfile(p)
    <2>1. lock = p /\ Goto(p, "dropping") /\ "dropping" \in Ats
      BY <1>0, <1>6 DEF UnflagProfile, At, Fits, Held, Ats
    <2>2. StoreOK'
      BY <1>0, <1>6 DEF UnflagProfile, StoreOK, NoDanglingRows
    <2>3. Fits(p)'
      BY <1>0, <1>6, <2>1, Moves DEF UnflagProfile, Fits, Held
    <2> QED
      BY <1>0, <1>6, <2>1, <2>2, <2>3, Moves, StoreWritten DEF UnflagProfile, files
  <1>7. CASE DropDedicated(p)
    <2>1. lock = p /\ Goto(p, "removing") /\ "removing" \in Ats
      BY <1>0, <1>7 DEF DropDedicated, At, Fits, Held, Ats
    <2>2. StoreOK'
      BY <1>0, <1>7, DropProfileOK DEF DropDedicated
    <2>3. Fits(p)'
      BY <1>0, <1>7, <2>1, Moves DEF DropDedicated, Fits, Held
    <2> QED
      BY <1>0, <1>7, <2>1, <2>2, <2>3, Moves, StoreWritten DEF DropDedicated, files
  <1>8. CASE RemoveModRow(p)
    <2> DEFINE m == First(proc[p].ids)
    <2>1. lock = p
      BY <1>0, <1>8 DEF RemoveModRow, At, Fits, Held
    <2>2. DropMod(m) /\ proc' = [proc EXCEPT ![p].ids = @ \ {m}, ![p].at = "removing"]
      BY <1>8 DEF RemoveModRow
    <2> HIDE DEF m
    <2>3. StoreOK'
      BY <1>0, <1>8, <2>2, DropModOK DEF RemoveModRow
    <2>4. /\ proc' \in [Proc -> Task] /\ (\A o \in Proc \ {p} : proc'[o] = proc[o])
          /\ proc'[p].at = "removing"
      <3>1. "removing" \in Ats
        BY DEF Ats
      <3> QED
        BY <1>0, <2>2, <3>1 DEF Task
    <2>5. Fits(p)'
      BY <1>0, <1>8, <2>1, <2>4 DEF RemoveModRow, Fits, Held
    <2> QED
      BY <1>0, <1>8, <2>1, <2>3, <2>4, <2>5, StoreWritten DEF RemoveModRow, files
  <1> QED
    BY <1>1, <1>2, <1>3, <1>4, <1>5, <1>6, <1>7, <1>8

LEMMA DedicatedSteps ==
  ASSUME IInv, NEW p \in Proc, CreateDedicated(p) \/ LinkProfile(p) \/ JoinMod(p)
  PROVE  IInv'
  <1>0. /\ trees \in SUBSET Root /\ live \in SUBSET Root /\ up \in BOOLEAN /\ calls \in Nat
        /\ proc \in [Proc -> Task] /\ p # Free /\ StoreOK
        /\ Fits(p)
    BY NameAssumption, StoreIsOK DEF IInv, TypeOK
  <1>1. CASE CreateDedicated(p)
    <2> DEFINE s == colls[proc[p].coll].slug
    <2>1. proc[p].at = "creating" /\ lock = p /\ proc[p].coll \in DOMAIN colls
          /\ proc[p].ids \subseteq DOMAIN mods
      BY <1>0, <1>1 DEF CreateDedicated, At, Fits, Held
    <2>2. s \in Slug
      BY <1>0, <2>1 DEF StoreOK
    <2>3. CASE NameTaken(s)
      <3>1. Return(p) /\ Release /\ UNCHANGED <<profiles, issued>>
        BY <1>1, <2>3 DEF CreateDedicated
      <3>2. Fits(p)'
        BY <1>0, <3>1, Returns DEF Release, Fits, Held
      <3> QED
        BY <1>0, <1>1, <2>1, <3>1, <3>2, Returns, StoreKept DEF CreateDedicated, files, store, Release
    <2>4. CASE ~ NameTaken(s)
      <3> DEFINE q == NewId("profile")
      <3>1. /\ InsertProfile(s) /\ UNCHANGED <<lock, mods, active, members, colls, pins, files, up, calls>>
            /\ proc' = [proc EXCEPT ![p].prof = q, ![p].at = "linking"]
        BY <1>1, <2>4 DEF CreateDedicated
      <3>2. StoreOK' /\ DOMAIN profiles' = DOMAIN profiles \cup {q}
        BY <1>0, <2>2, <3>1, InsertProfileOK
      <3>3. q \in Id /\ "linking" \in Ats
        BY <1>0, IssueFacts DEF Ats
      <3> HIDE DEF q
      <3>4. /\ proc' \in [Proc -> Task] /\ (\A o \in Proc \ {p} : proc'[o] = proc[o])
            /\ proc'[p].at = "linking" /\ proc'[p].coll = proc[p].coll
            /\ proc'[p].ids = proc[p].ids /\ proc'[p].prof = q
        BY <1>0, <3>1, <3>3 DEF Task
      <3>5. Fits(p)'
        BY <2>1, <3>1, <3>2, <3>4 DEF Fits, Held
      <3> QED
        BY <1>0, <2>1, <3>1, <3>2, <3>4, <3>5, StoreWritten DEF files
    <2> QED
      BY <2>3, <2>4
  <1>2. CASE LinkProfile(p)
    <2> DEFINE c == proc[p].coll
               q == proc[p].prof
    <2>1. /\ proc[p].at = "linking" /\ lock = p /\ c \in DOMAIN colls
          /\ proc[p].ids \subseteq DOMAIN mods /\ q \in DOMAIN profiles
      BY <1>0, <1>2 DEF LinkProfile, At, Fits, Held
    <2>2. Goto(p, "joining") /\ "joining" \in Ats /\ colls' = [colls EXCEPT ![c].profile_id = q]
      BY <1>2 DEF LinkProfile, Ats
    <2>3. q \in Id
      BY <1>0, <2>1 DEF StoreOK
    <2> HIDE DEF q
    <2>4. /\ DOMAIN colls' = DOMAIN colls
          /\ colls' \in [DOMAIN colls' -> [slug : Slug, profile_id : {0} \cup Id]]
          /\ \A d \in DOMAIN colls : colls'[d].profile_id \in {q, colls[d].profile_id}
      BY <1>0, <2>1, <2>2, <2>3 DEF StoreOK
    <2>5. StoreOK'
      BY <1>0, <1>2, <2>1, <2>4 DEF LinkProfile, StoreOK, NoDanglingRows
    <2>6. Fits(p)'
      BY <1>2, <2>1, <2>2, <2>4, Moves DEF LinkProfile, Fits, Held, q
    <2> QED
      BY <1>0, <1>2, <2>1, <2>2, <2>5, <2>6, Moves, StoreWritten DEF LinkProfile, files
  <1>3. CASE JoinMod(p)
    <2> DEFINE m == First(proc[p].ids)
               q == proc[p].prof
    <2>1. /\ proc[p].at = "joining" /\ lock = p /\ proc[p].coll \in DOMAIN colls
          /\ proc[p].ids \subseteq DOMAIN mods /\ q \in DOMAIN profiles
          /\ proc[p].ids # {} /\ proc[p].ids \in SUBSET Nat
      BY <1>0, <1>3 DEF JoinMod, At, Fits, Held, Task, Id
    <2>2. m \in proc[p].ids
      BY <2>1, FirstIsThere
    <2>3. members' = members \cup {<<q, m>>} /\ proc' = [proc EXCEPT ![p].ids = @ \ {m}]
      BY <1>3 DEF JoinMod
    <2> HIDE DEF m
    <2>4. StoreOK'
      BY <1>0, <1>3, <2>1, <2>2, <2>3 DEF JoinMod, StoreOK, NoDanglingRows
    <2>5. /\ proc' \in [Proc -> Task] /\ (\A o \in Proc \ {p} : proc'[o] = proc[o])
          /\ proc'[p].at = proc[p].at /\ proc'[p].coll = proc[p].coll
          /\ proc'[p].ids \subseteq proc[p].ids /\ proc'[p].prof = proc[p].prof
      BY <1>0, <2>3 DEF Task
    <2>6. Fits(p)'
      BY <1>3, <2>1, <2>5 DEF JoinMod, Fits, Held
    <2> QED
      BY <1>0, <1>3, <2>1, <2>4, <2>5, <2>6, StoreWritten DEF JoinMod, files
  <1> QED
    BY <1>1, <1>2, <1>3

LEMMA ProcessSteps ==
  ASSUME IInv, Crash \/ Launch
  PROVE  IInv'
  <1>1. CASE Crash
    <2>1. Idle \in Task /\ Idle.at = "idle"
      BY DEF Idle, Task, Ops, Ats, Id
    <2>2. TypeOK'
      BY <1>1, <2>1 DEF Crash, IInv, TypeOK, store, files
    <2>3. NoDanglingRows'
      BY <1>1 DEF Crash, IInv, NoDanglingRows, store
    <2>4. \A p \in Proc : Fits(p)'
      BY <1>1, <2>1, NameAssumption DEF Crash, Fits, Held
    <2> QED
      BY <2>2, <2>3, <2>4 DEF IInv
  <1>2. CASE Launch
    BY <1>2 DEF Launch, IInv, TypeOK, NoDanglingRows, Fits, store, files
  <1> QED
    BY <1>1, <1>2

-----------------------------------------------------------------------------
LEMMA StepIInv ==
  ASSUME IInv, [Next]_vars
  PROVE  IInv'
  <1>1. CASE UNCHANGED vars
    BY <1>1 DEF vars, store, files, IInv, TypeOK, NoDanglingRows, Fits
  <1>2. ASSUME NEW p \in Proc, Step(p) \/ Call(p) \/ Fault(p)
        PROVE  IInv'
    BY <1>2, EngineSteps, FetchSteps, CallSteps, RowSteps, DedicatedSteps DEF Step, Fault
  <1> QED
    BY <1>1, <1>2, ProcessSteps DEF Next

LEMMA InvHolds == Spec => []IInv
  BY InitIInv, StepIInv, PTL DEF Spec

(* The commands keep their tasks, the mutex and the rows of the store in    *)
(* the types of AppState and of the schema.                                 *)
THEOREM ShellTypeCorrect == Spec => []TypeOK
  <1>1. IInv => TypeOK
    BY DEF IInv
  <1> QED
    BY <1>1, InvHolds, PTL

(* However many commands interleave, fail or are cut by a crash, no row     *)
(* names a parent that is gone: what deploy_collection reads at the start   *)
(* of its section still holds when it writes, and what it or PinMod read    *)
(* before a gap is looked up again (collections.rs, the foreign keys of     *)
(* migrations V3 and V5).                                                   *)
THEOREM RowsAreWhole == Spec => []NoDanglingRows
  <1>1. IInv => NoDanglingRows
    BY DEF IInv
  <1> QED
    BY <1>1, InvHolds, PTL

(* The mutex excludes: two tasks are never both in a section of theirs, for *)
(* any number of commands in flight (AppState's tokio mutex).               *)
OneSection == \A p, o \in Proc : proc[p].at \in Held /\ proc[o].at \in Held => p = o

THEOREM SectionsExclude == Spec => []OneSection
  <1>1. IInv => OneSection
    BY DEF IInv, Fits, OneSection
  <1> QED
    BY <1>1, InvHolds, PTL

-----------------------------------------------------------------------------
(* What a task outside its sections may do while another holds the mutex.  *)
LEMMA Aside ==
  ASSUME IInv, NEW p \in Proc, Step(p) \/ Call(p) \/ Fault(p), lock \notin {p, Free}
  PROVE  UNCHANGED <<mods, profiles, active, members, live, lock>> /\ \A o \in Proc \ {p} : proc'[o] = proc[o]
  <1>0. proc[p].at \notin Held /\ proc \in [Proc -> Task]
    BY DEF IInv, TypeOK, Fits
  <1>1. ~ \/ StartPurge(p) \/ PurgeRoot(p) \/ Purged(p) \/ PlaceRoot(p) \/ SetActive(p)
          \/ ClearActive(p) \/ PurgeFails(p) \/ PlaceFails(p)
    BY <1>0 DEF StartPurge, PurgeRoot, Purged, PlaceRoot, SetActive, ClearActive, PurgeFails,
                PlaceFails, At, Acquire, Held
  <1>2. ~ \/ AddModRow(p) \/ PinMod(p) \/ CreateDedicated(p) \/ LinkProfile(p) \/ JoinMod(p) \/ Joined(p)
          \/ StartCleanup(p) \/ UnflagProfile(p) \/ DropDedicated(p) \/ RemoveTree(p)
          \/ RemoveModRow(p) \/ RemoveCollection(p)
    BY <1>0 DEF AddModRow, PinMod, CreateDedicated, LinkProfile, JoinMod, Joined, StartCleanup,
                UnflagProfile, DropDedicated, RemoveTree, RemoveModRow, RemoveCollection, At, Acquire, Held
  <1>3. CASE StageTree(p)
    BY <1>0, <1>3 DEF StageTree, store
  <1>4. CASE Fetched(p)
    BY <1>0, <1>4 DEF Fetched, Return, Goto, store, files
  <1>5. CASE FetchFails(p)
    BY <1>0, <1>5 DEF FetchFails, store, files
  <1>6. CASE Pinned(p)
    BY <1>0, <1>6 DEF Pinned, Return, store, files
  <1>7. CASE Call(p)
    <2>1. PICK r \in Root : Download(p, r)
      BY <1>7 DEF Call, Purge, Deploy, CreateProfile, DeleteProfile, SwitchProfile, DownloadCollection,
                  DeployCollection, UninstallCollection, Acquire
    <2> QED
      BY <1>0, <2>1 DEF Download, store, files
  <1> QED
    BY <1>1, <1>2, <1>3, <1>4, <1>5, <1>6, <1>7 DEF Step, Fault

(* delete_profile refuses the active profile, and uninstall_collection      *)
(* clears the flag before it drops the profile, in the section that holds   *)
(* the mutex: no profile goes while it is active, whoever made it so.       *)
THEOREM ActiveIsKept == Spec => ActiveProfileKept
  <1> DEFINE Kept == \A q \in active : q \in DOMAIN profiles'
  <1>1. ASSUME IInv, [Next]_vars PROVE Kept
    <2>0. active \subseteq DOMAIN profiles /\ StoreOK
      BY <1>1, StoreIsOK DEF IInv, NoDanglingRows
    <2>1. CASE UNCHANGED profiles
      BY <2>0, <2>1
    <2>2. CASE \/ UNCHANGED vars \/ Crash \/ Launch
      BY <2>0, <2>2 DEF vars, store, Crash, Launch
    <2>3. ASSUME NEW p \in Proc, CreateDedicated(p) \/ \E u \in UserName : CreateProfile(p, u)
          PROVE  Kept
      <3>1. UNCHANGED profiles \/ \E name : InsertProfile(name)
        BY <2>3 DEF CreateDedicated, CreateProfile
      <3> QED
        BY <2>0, <3>1 DEF InsertProfile, Put
    <2>4. ASSUME NEW p \in Proc, DropDedicated(p) \/ \E q \in 1 .. issued.profile : DeleteProfile(p, q)
          PROVE  Kept
      <3>1. Fits(p)
        BY <1>1 DEF IInv
      <3>2. PICK q : q \notin active /\ DropProfile(q)
        BY <2>4, <3>1 DEF DropDedicated, DeleteProfile, At, Fits
      <3> QED
        BY <2>0, <3>2 DEF DropProfile, Without, Restrict
    <2>5. ASSUME NEW p \in Proc, Step(p), ~ CreateDedicated(p), ~ DropDedicated(p)
          PROVE  UNCHANGED profiles
      BY <2>5 DEF Step, StartPurge, PurgeRoot, Purged, PlaceRoot, SetActive, ClearActive,
           StageTree, AddModRow, Fetched, PinMod, Pinned, LinkProfile, JoinMod, Joined,
           StartCleanup, UnflagProfile, RemoveTree, RemoveModRow, RemoveCollection, store
    <2>6. ASSUME NEW p \in Proc, Fault(p)
          PROVE  UNCHANGED profiles
      BY <2>6 DEF Fault, PurgeFails, PlaceFails, FetchFails, store
    <2>7. ASSUME NEW p \in Proc, Call(p), ~ \E u \in UserName : CreateProfile(p, u),
                 ~ \E q \in 1 .. issued.profile : DeleteProfile(p, q)
          PROVE  UNCHANGED profiles
      BY <2>7 DEF Call, Purge, Deploy, SwitchProfile, Download, DownloadCollection, DeployCollection,
           UninstallCollection, store
    <2> QED
      BY <1>1, <2>1, <2>2, <2>3, <2>4, <2>5, <2>6, <2>7 DEF Next
  <1> HIDE DEF Kept
  <1>2. Spec => [][Kept]_vars
    BY <1>1, InvHolds, PTL DEF Spec
  <1> QED
    BY <1>2, PTL DEF ActiveProfileKept, Kept

-----------------------------------------------------------------------------
(* Every step of a task moves that task alone.                             *)
LEMMA Alone ==
  ASSUME IInv, NEW p \in Proc, Step(p) \/ Call(p) \/ Fault(p)
  PROVE  \A o \in Proc \ {p} : proc'[o] = proc[o]
  <1>0. proc \in [Proc -> Task]
    BY DEF IInv, TypeOK
  <1>1. CASE \/ StartPurge(p) \/ PurgeRoot(p) \/ Purged(p) \/ PlaceRoot(p) \/ SetActive(p) \/ ClearActive(p)
    BY <1>0, <1>1 DEF StartPurge, PurgeRoot, Purged, PlaceRoot, SetActive, ClearActive, Goto, Return
  <1>2. CASE \/ StageTree(p) \/ AddModRow(p) \/ Fetched(p) \/ PinMod(p) \/ Pinned(p)
             \/ CreateDedicated(p) \/ LinkProfile(p) \/ JoinMod(p) \/ Joined(p)
    BY <1>0, <1>2 DEF StageTree, AddModRow, Fetched, PinMod, Pinned, CreateDedicated, LinkProfile,
                      JoinMod, Joined, Goto, Return
  <1>3. CASE \/ StartCleanup(p) \/ UnflagProfile(p) \/ DropDedicated(p)
             \/ RemoveTree(p) \/ RemoveModRow(p) \/ RemoveCollection(p) \/ Fault(p)
    BY <1>0, <1>3 DEF StartCleanup, UnflagProfile, DropDedicated, RemoveTree, RemoveModRow,
                      RemoveCollection, Fault, PurgeFails, PlaceFails, FetchFails, Goto, Return
  <1>4. CASE Call(p)
    BY <1>0, <1>4 DEF Call, Purge, Deploy, CreateProfile, DeleteProfile, SwitchProfile, Download,
                      DownloadCollection, DeployCollection, UninstallCollection, Start
  <1> QED
    BY <1>1, <1>2, <1>3, <1>4 DEF Step

\* Only these steps leave a task in the section of a switch.
LEMMA Enters ==
  ASSUME IInv, NEW p \in Proc, Step(p) \/ Call(p) \/ Fault(p), Switching(p)'
  PROVE  \/ StartPurge(p) \/ PurgeRoot(p) \/ Purged(p) \/ PlaceRoot(p) \/ PlaceFails(p)
         \/ \E q : SwitchProfile(p, q)
  <1>0. /\ proc \in [Proc -> Task] /\ proc'[p].op \in {"switch_profile", "deploy_collection"}
        /\ proc'[p].at \in {"purging", "placing", "clearing"}
    BY DEF IInv, TypeOK, Switching
  <1>1. ~ \/ SetActive(p) \/ ClearActive(p) \/ PurgeFails(p) \/ FetchFails(p)
    BY <1>0 DEF SetActive, ClearActive, PurgeFails, FetchFails, Return, At, Task, Idle
  <1>2. ~ \/ StageTree(p) \/ Fetched(p) \/ Pinned(p) \/ CreateDedicated(p) \/ LinkProfile(p) \/ Joined(p)
    <2>1. ~ StageTree(p)
      BY <1>0 DEF StageTree, At, Task
    <2>2. ~ CreateDedicated(p)
      BY <1>0 DEF CreateDedicated, Return, Idle, Task
    <2> QED
      BY <1>0, <2>1, <2>2 DEF Fetched, Pinned, LinkProfile, Joined, Goto, Return, At, Task, Idle
  <1>3. ~ AddModRow(p) /\ ~ PinMod(p) /\ ~ JoinMod(p)
    <2>1. proc[p].at \in {"fetching", "pinning", "joining"} =>
            /\ \A ids : proc' # [proc EXCEPT ![p].ids = ids]
            /\ \A r, ids : proc' # [proc EXCEPT ![p].staged = @ \ {r}, ![p].ids = ids]
            /\ ~ Return(p)
      BY <1>0 DEF Task, Return, Idle
    <2>2. ~ AddModRow(p)
      BY <2>1 DEF AddModRow, At
    <2>3. ~ PinMod(p)
      BY <2>1 DEF PinMod, At
    <2> QED
      BY <2>1, <2>2, <2>3 DEF JoinMod, At
  <1>4. ~ \/ StartCleanup(p) \/ UnflagProfile(p) \/ DropDedicated(p)
          \/ RemoveTree(p) \/ RemoveModRow(p) \/ RemoveCollection(p)
    BY <1>0 DEF StartCleanup, UnflagProfile, DropDedicated, RemoveTree, RemoveModRow,
                RemoveCollection, Goto, Return, At, Task, Idle
  <1>5. ASSUME Call(p) PROVE \E q : SwitchProfile(p, q)
    <2>1. proc[p] = Idle => proc'[p] # proc[p]
      BY <1>0 DEF Idle
    <2>2. ~ Purge(p) /\ ~ Deploy(p)
      BY <1>0 DEF Purge, Deploy, Start, Idle
    <2>3. \A u : ~ CreateProfile(p, u) /\ ~ DeleteProfile(p, u)
      BY <2>1 DEF CreateProfile, DeleteProfile, Issued
    <2>4. \A r : ~ Download(p, r)
      BY <1>0 DEF Download, Idle
    <2>5. \A s : ~ DownloadCollection(p, s)
      BY <1>0 DEF DownloadCollection, Idle
    <2>6. ASSUME NEW c PROVE ~ DeployCollection(p, c)
      <3> DEFINE at == IF colls[c].profile_id = 0 THEN "creating" ELSE "joining"
                 t == [Idle EXCEPT !.op = "deploy_collection", !.coll = c, !.ids = PinnedTo(c),
                                   !.prof = colls[c].profile_id, !.at = at]
      <3>1. at \notin {"purging", "placing", "clearing"}
        OBVIOUS
      <3>2. DeployCollection(p, c) => proc' = [proc EXCEPT ![p] = t]
        BY DEF DeployCollection
      <3> HIDE DEF at
      <3>3. t.at = at
        BY DEF Idle
      <3> QED
        BY <1>0, <3>1, <3>2, <3>3
    <2>7. \A c : ~ UninstallCollection(p, c)
      BY <1>0 DEF UninstallCollection, Idle
    <2> QED
      BY <1>5, <2>2, <2>3, <2>4, <2>5, <2>6, <2>7 DEF Call
  <1> QED
    BY <1>1, <1>2, <1>3, <1>4, <1>5 DEF Step, Fault

\* A switch half done: until the purge is over the game holds a part of what it
\* held; after it, what is deployed and what is still to be placed are what the
\* profile wants, but for the trees that were gone. The flag is the old one.
HalfDone(p) ==
  Switching(p) =>
    /\ active = proc[p].flag
    /\ proc[p].at = "purging" => live \subseteq proc[p].was
    /\ proc[p].at = "placing" => live \cup proc[p].names = Wanted(proc[p].prof) \ proc[p].absent
    /\ proc[p].at = "clearing" => live \subseteq Wanted(proc[p].prof)

\* The steps of a switch, by the switch itself.
LEMMA SwitchSteps ==
  ASSUME IInv, NEW p \in Proc, HalfDone(p), Switching(p)',
         \/ StartPurge(p) \/ PurgeRoot(p) \/ Purged(p) \/ PlaceRoot(p) \/ PlaceFails(p)
         \/ \E q : SwitchProfile(p, q)
  PROVE  HalfDone(p)'
  <1>0. proc \in [Proc -> Task] /\ UNCHANGED <<mods, members, active>>
    BY DEF IInv, TypeOK, StartPurge, PurgeRoot, Purged, PlaceRoot, PlaceFails, SwitchProfile, store
  <1>1. CASE StartPurge(p) \/ \E q : SwitchProfile(p, q)
    <2>1. /\ live' = live /\ proc'[p].at = "purging" /\ proc'[p].was = live /\ proc'[p].flag = active
      <3>1. CASE StartPurge(p)
        <4> DEFINE t == [proc[p] EXCEPT !.at = "purging", !.was = live, !.flag = active]
        <4>1. t.at = "purging" /\ t.was = live /\ t.flag = active
          BY <1>0 DEF Task
        <4>2. proc' = [proc EXCEPT ![p] = t] /\ live' = live
          BY <1>0, <3>1 DEF StartPurge, files
        <4> HIDE DEF t
        <4> QED
          BY <1>0, <4>1, <4>2
      <3>2. ASSUME NEW q, SwitchProfile(p, q)
            PROVE  /\ live' = live /\ proc'[p].at = "purging" /\ proc'[p].was = live
                   /\ proc'[p].flag = active
        <4> DEFINE t == [Idle EXCEPT !.op = "switch_profile", !.at = "purging", !.prof = q,
                                     !.was = live, !.flag = active]
        <4>1. t.at = "purging" /\ t.was = live /\ t.flag = active
          BY DEF Idle
        <4>2. proc' = [proc EXCEPT ![p] = t] /\ live' = live
          BY <3>2 DEF SwitchProfile, files
        <4> HIDE DEF t
        <4> QED
          BY <1>0, <4>1, <4>2
      <3> QED
        BY <1>1, <3>1, <3>2
    <2> QED
      BY <1>0, <2>1 DEF HalfDone
  <1>2. CASE PurgeRoot(p)
    <2>1. proc' = proc /\ live' \subseteq live /\ proc[p].at = "purging"
      BY <1>2 DEF PurgeRoot, At
    <2> QED
      BY <1>0, <2>1 DEF HalfDone, Switching
  <1>3. CASE Purged(p)
    <2>1. /\ live' = {} /\ proc[p].at = "purging"
          /\ \/ proc' = [proc EXCEPT ![p].at = "placing", ![p].names = Wanted(proc[p].prof) \cap trees,
                                     ![p].absent = Wanted(proc[p].prof) \ trees]
             \/ proc' = [proc EXCEPT ![p].at = "want_cleanup"] \/ proc' = [proc EXCEPT ![p] = Idle]
      BY <1>3 DEF Purged, files, Goto, Return, At
    <2> DEFINE wanted == Wanted(proc[p].prof)
    <2>2. proc' = [proc EXCEPT ![p].at = "placing", ![p].names = wanted \cap trees,
                               ![p].absent = wanted \ trees]
      BY <1>0, <2>1 DEF Task, Idle, Switching
    <2>3. proc'[p].prof = proc[p].prof /\ proc'[p].flag = proc[p].flag /\ proc'[p].op = proc[p].op
      BY <1>0, <2>2 DEF Task
    <2>4. Wanted(proc[p].prof)' = wanted
      BY <1>0, <2>3 DEF Wanted
    <2> HIDE DEF wanted
    <2>5. proc'[p].names = wanted \cap trees /\ proc'[p].absent = wanted \ trees /\ proc'[p].at = "placing"
      BY <1>0, <2>2 DEF Task
    <2>6. Switching(p)
      BY <2>1, <2>3 DEF Switching
    <2> QED
      BY <1>0, <2>1, <2>3, <2>4, <2>5, <2>6 DEF HalfDone
  <1>4. CASE PlaceRoot(p)
    <2>1. PICK r \in proc[p].names : /\ live' = live \cup {r} /\ proc[p].at = "placing"
                                     /\ proc' = [proc EXCEPT ![p].names = @ \ {r}]
      BY <1>4 DEF PlaceRoot, At
    <2>2. /\ proc'[p].names = proc[p].names \ {r} /\ proc'[p].absent = proc[p].absent
          /\ proc'[p].prof = proc[p].prof /\ proc'[p].at = "placing" /\ proc'[p].op = proc[p].op
          /\ proc'[p].flag = proc[p].flag
      BY <1>0, <2>1 DEF Task
    <2>3. Wanted(proc[p].prof)' = Wanted(proc[p].prof) /\ Switching(p)
      BY <1>0, <2>1, <2>2 DEF Wanted, Switching
    <2> QED
      BY <1>0, <2>1, <2>2, <2>3 DEF HalfDone
  <1>5. CASE PlaceFails(p)
    <2>1. Goto(p, "clearing") /\ live' = live /\ proc[p].at = "placing"
      BY <1>0, <1>5 DEF PlaceFails, Return, Idle, Switching, files, At
    <2>2. /\ proc'[p].prof = proc[p].prof /\ proc'[p].at = "clearing" /\ proc'[p].op = proc[p].op
          /\ proc'[p].flag = proc[p].flag
      BY <1>0, <2>1 DEF Goto, Task
    <2>3. Wanted(proc[p].prof)' = Wanted(proc[p].prof) /\ Switching(p)
      BY <1>0, <2>1, <2>2 DEF Wanted, Switching
    <2> QED
      BY <1>0, <2>1, <2>2, <2>3 DEF HalfDone
  <1> QED
    BY <1>1, <1>2, <1>3, <1>4, <1>5

LEMMA HalfDoneKept ==
  ASSUME IInv, \A p \in Proc : HalfDone(p), [Next]_vars
  PROVE  \A p \in Proc : HalfDone(p)'
  <1> SUFFICES ASSUME NEW p \in Proc, Switching(p)'
               PROVE  HalfDone(p)'
    BY DEF HalfDone
  <1>0. proc \in [Proc -> Task] /\ HalfDone(p)
    BY DEF IInv, TypeOK
  <1>1. CASE UNCHANGED <<mods, members, active, live>> /\ proc'[p] = proc[p]
    BY <1>0, <1>1 DEF HalfDone, Wanted, Switching
  <1>2. CASE UNCHANGED vars \/ Crash \/ Launch
    <2>1. ~ Crash
      BY DEF Crash, Idle, Switching
    <2> QED
      BY <1>1, <1>2, <2>1 DEF vars, Launch, store, files
  <1>3. ASSUME NEW o \in Proc \ {p}, Step(o) \/ Call(o) \/ Fault(o)
        PROVE  UNCHANGED <<mods, members, active, live>> /\ proc'[p] = proc[p]
    <2>1. proc'[p] = proc[p]
      BY <1>3, Alone
    <2>2. lock = p
      BY <2>1 DEF IInv, Fits, Held, Switching
    <2> QED
      BY <1>3, <2>1, <2>2, Aside, NameAssumption
  <1>4. ASSUME Step(p) \/ Call(p) \/ Fault(p)
        PROVE  HalfDone(p)'
    BY <1>0, <1>4, Enters, SwitchSteps
  <1> QED
    BY <1>1, <1>2, <1>3, <1>4 DEF Next

\* How a switch ends.
LEMMA Ends ==
  ASSUME IInv, NEW p \in Proc, [Next]_vars, Switching(p), proc'[p] = Idle
  PROVE  SetActive(p) \/ ClearActive(p) \/ PurgeFails(p) \/ Crash
  <1>0. proc \in [Proc -> Task] /\ Idle.at = "idle" /\ Idle.op = "idle"
    BY DEF IInv, TypeOK, Idle
  <1> USE DEF Switching
  <1>1. ~ (UNCHANGED vars \/ Launch)
    BY <1>0 DEF vars, Launch
  <1>2. ASSUME NEW o \in Proc \ {p} PROVE ~ (Step(o) \/ Call(o) \/ Fault(o))
    BY <1>0, <1>2, Alone
  <1>3. ~ \/ StartPurge(p) \/ StageTree(p) \/ AddModRow(p) \/ Fetched(p)
          \/ PinMod(p) \/ Pinned(p) \/ CreateDedicated(p) \/ LinkProfile(p) \/ JoinMod(p) \/ Joined(p)
          \/ StartCleanup(p) \/ UnflagProfile(p) \/ DropDedicated(p)
          \/ RemoveTree(p) \/ RemoveModRow(p) \/ RemoveCollection(p)
    BY DEF StartPurge, StageTree, AddModRow, Fetched, PinMod, Pinned, CreateDedicated,
           LinkProfile, JoinMod, Joined, StartCleanup, UnflagProfile, DropDedicated, RemoveTree,
           RemoveModRow, RemoveCollection, At
  <1>4. ~ PlaceRoot(p) /\ ~ PurgeRoot(p)
    BY <1>0 DEF PlaceRoot, PurgeRoot, At, Task
  <1>5. ~ Purged(p)
    <2>1. ASSUME Purged(p)
          PROVE  \/ proc' = [proc EXCEPT ![p].at = "placing", ![p].names = Wanted(proc[p].prof) \cap trees,
                                         ![p].absent = Wanted(proc[p].prof) \ trees]
                 \/ proc' = [proc EXCEPT ![p].at = "want_cleanup"]
      BY <2>1 DEF Purged, Goto
    <2> QED
      BY <1>0, <2>1 DEF Task
  <1>6. ~ PlaceFails(p) /\ ~ FetchFails(p)
    BY <1>0 DEF PlaceFails, FetchFails, At, Goto, Task
  <1>7. ~ Call(p)
    BY <1>0 DEF Call, Purge, Deploy, CreateProfile, DeleteProfile, SwitchProfile, Download,
                DownloadCollection, DeployCollection, UninstallCollection, Issued
  <1> QED
    BY <1>1, <1>2, <1>3, <1>4, <1>5, <1>6, <1>7 DEF Next, Step, Fault

(* switch_profile (profile.rs), however it ends - success, an error of the  *)
(* purge or after it, a crash anywhere - under any interleaving of the other *)
(* commands: nobody else touches the flag, the game or the rows it has read *)
(* while it holds the mutex, so that the files of two profiles never mix    *)
(* and only a crash leaves the old flag over files of the new profile.      *)
THEOREM SwitchIsSettled == Spec => SwitchSettles
  <1> DEFINE PInv == \A p \in Proc : HalfDone(p)
             Settles == \A p \in Proc : \A q \in {proc[p].prof} : Switching(p) /\ proc'[p] = Idle =>
               \/ active' = {q} /\ live' = Wanted(q)' \ proc[p].absent
               \/ active' = {} /\ live' \subseteq Wanted(q)'
               \/ active' = proc[p].flag /\ live' \subseteq proc[p].was /\ proc[p].at = "purging"
               \/ active' = proc[p].flag /\ live' \subseteq Wanted(q)' /\ ~ up'
  <1>1. Init => PInv
    BY DEF Init, HalfDone, Switching, Idle
  <1>2. IInv /\ PInv /\ [Next]_vars => PInv'
    BY HalfDoneKept
  <1>3. ASSUME IInv, PInv, [Next]_vars PROVE Settles
    <2> SUFFICES ASSUME NEW p \in Proc, NEW q, q = proc[p].prof, Switching(p), proc'[p] = Idle
                 PROVE  \/ active' = {q} /\ live' = Wanted(q)' \ proc[p].absent
                        \/ active' = {} /\ live' \subseteq Wanted(q)'
                        \/ active' = proc[p].flag /\ live' \subseteq proc[p].was /\ proc[p].at = "purging"
                        \/ active' = proc[p].flag /\ live' \subseteq Wanted(q)' /\ ~ up'
      OBVIOUS
    <2>0. HalfDone(p) /\ proc[p].at \in {"purging", "placing", "clearing"}
      BY <1>3 DEF Switching
    <2>1. UNCHANGED <<mods, members>> => Wanted(q)' = Wanted(q)
      BY DEF Wanted
    <2>2. CASE SetActive(p)
      <3>1. /\ proc[p].at = "placing" /\ proc[p].names = {} /\ active' = {q} \cap DOMAIN profiles
            /\ UNCHANGED <<mods, members, live>>
        BY <2>2 DEF SetActive, At, ActivateOnly, files, Switching
      <3>2. active' = {q} \/ active' = {}
        BY <3>1
      <3>3. live' = Wanted(q)' \ proc[p].absent
        BY <2>0, <2>1, <3>1 DEF HalfDone
      <3> QED
        BY <3>2, <3>3
    <2>3. CASE ClearActive(p)
      <3>1. proc[p].at = "clearing" /\ active' = {} /\ UNCHANGED <<mods, members, live>>
        BY <2>3 DEF ClearActive, At, files
      <3> QED
        BY <2>0, <2>1, <3>1 DEF HalfDone
    <2>4. CASE PurgeFails(p)
      <3>1. proc[p].at = "purging" /\ UNCHANGED <<active, live>>
        BY <2>4 DEF PurgeFails, At, store, files
      <3> QED
        BY <2>0, <3>1 DEF HalfDone
    <2>5. CASE Crash
      <3>1. ~ up' /\ UNCHANGED <<mods, members, active, live>>
        BY <2>5 DEF Crash, store, files
      <3>2. proc[p].at # "purging" => live \subseteq Wanted(q)
        BY <2>0 DEF HalfDone
      <3> QED
        BY <2>0, <2>1, <3>1, <3>2 DEF HalfDone
    <2> QED
      BY <1>3, <2>2, <2>3, <2>4, <2>5, Ends
  <1> HIDE DEF PInv, Settles
  <1>4. Spec => []PInv
    BY <1>1, <1>2, InvHolds, PTL DEF Spec
  <1>5. Spec => [][Settles]_vars
    BY <1>3, <1>4, InvHolds, PTL DEF Spec
  <1> QED
    BY <1>5, PTL DEF SwitchSettles, Settles
=============================================================================
