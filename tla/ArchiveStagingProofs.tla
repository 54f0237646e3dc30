------------------------ MODULE ArchiveStagingProofs ------------------------
(***************************************************************************)
(* Proofs about ArchiveStaging, for every number of concurrent installs    *)
(* and all archives.                                                       *)
(***************************************************************************)
EXTENDS ArchiveStaging, SequenceTheorems, FiniteSetTheorems, TLAPS

Places == {"idle", "unpack", "revalidate", "detect", "move", "lock", "list", "ok", "failed"}

Inside == {"zip", "7z"}   \* the formats the crate unpacks itself

AllValid(a) == \A i \in 1 .. Len(Entries[a]) : ValidEntry(Entries[a][i])

(* Where a task stands, and which entries it has looked at.                *)
Control ==
  /\ pc \in [Tasks -> Places]
  /\ arch \in [Tasks -> Archive]
  /\ at \in [Tasks -> Nat \ {0}]
  /\ DOMAIN temp = Tasks /\ DOMAIN todo = Tasks /\ DOMAIN listed = Tasks /\ DOMAIN past = Tasks
  /\ \A t \in Tasks :
       /\ pc[t] = "idle" => at[t] = 1
       /\ pc[t] \notin {"idle", "failed"} => Format[arch[t]] # "other"
       /\ pc[t] \in {"unpack", "revalidate"} =>
            \A i \in 1 .. at[t] - 1 : Format[arch[t]] \in Inside => ValidEntry(Entries[arch[t]][i])
       /\ pc[t] = "revalidate" => Format[arch[t]] = "rar"
       /\ pc[t] \in {"detect", "move", "lock", "list", "ok"} =>
            Format[arch[t]] = "rar" \/ AllValid(arch[t])

(* LockedDown is inductive only with what a file says of its install: a    *)
(* task that has not begun to move owns no file.                           *)
IsOwned(f) ==
  /\ f.by \in Tasks
  /\ pc[f.by] \in {"move", "lock", "list", "ok", "failed"}
  /\ pc[f.by] \in {"list", "ok"} => f.locked = TRUE
  /\ Format[arch[f.by]] = "rar" \/ AllValid(arch[f.by])

Owned ==
  \A p \in DOMAIN files : IsOwned(files[p])

LEMMA ControlInit == Init => Control /\ Owned
  BY DEF Init, Control, Owned, Places, NoFiles

LEMMA EntriesLen ==
  ASSUME Control, NEW t \in Tasks, pc[t] = "unpack", Format[arch[t]] \in Inside,
         at[t] > Len(Entries[arch[t]])
  PROVE  AllValid(arch[t])
  <1>1. \A i \in 1 .. Len(Entries[arch[t]]) : i \in 1 .. at[t] - 1
    BY DEF Control
  <1> QED
    BY <1>1 DEF Control, AllValid

LEMMA ControlStep == Control /\ [Next]_vars => Control'
  <1> SUFFICES ASSUME Control, [Next]_vars PROVE Control'
    OBVIOUS
  <1> USE DEF Places, Goto
  <1>1. ASSUME NEW t \in Tasks, Begin(t)
        PROVE  Control'
    BY <1>1, ArchiveAssumption DEF Begin, Control, Inside
  <1>2. ASSUME NEW t \in Tasks, Unpack(t)
        PROVE  Control'
    <2>1. CASE Drop(t) /\ UNCHANGED at
      BY <1>2, <2>1 DEF Unpack, Drop, Control
    <2>2. CASE ValidEntry(Entries[arch[t]][at[t]]) /\ at' = [at EXCEPT ![t] = @ + 1] /\ UNCHANGED pc
      BY <1>2, <2>2 DEF Unpack, Control
    <2> QED
      BY <1>2, <2>1, <2>2 DEF Unpack
  <1>3. ASSUME NEW t \in Tasks, RunTool(t)
        PROVE  Control'
    <2>1. CASE Drop(t) /\ UNCHANGED at
      BY <1>3, <2>1 DEF RunTool, Drop, Control
    <2>2. CASE at' = [at EXCEPT ![t] = @ + 1] /\ UNCHANGED pc
      BY <1>3, <2>2 DEF RunTool, Control, Inside
    <2> QED
      BY <1>3, <2>1, <2>2 DEF RunTool
  <1>4. ASSUME NEW t \in Tasks, Revalidate(t)
        PROVE  Control'
    BY <1>4 DEF Revalidate, Drop, Control
  <1>5. ASSUME NEW t \in Tasks, Unpacked(t)
        PROVE  Control'
    <2>1. Format[arch[t]] \in Inside => AllValid(arch[t])
      BY <1>5, EntriesLen DEF Unpacked
    <2>2. Format[arch[t]] \in Inside \/ Format[arch[t]] = "rar"
      BY <1>5, ArchiveAssumption DEF Unpacked, Control, Inside
    <2> QED
      BY <1>5, <2>1, <2>2 DEF Unpacked, Control, Inside
  <1>6. ASSUME NEW t \in Tasks, DetectRoot(t)
        PROVE  Control'
    BY <1>6 DEF DetectRoot, Control
  <1>7. ASSUME NEW t \in Tasks, \E p \in DOMAIN todo[t] : MoveItem(t, p)
        PROVE  Control'
    BY <1>7 DEF MoveItem, Moved, Control
  <1>8. ASSUME NEW t \in Tasks, MoveFails(t) \/ AllMoved(t) \/ MarkReadonly(t) \/ List(t)
        PROVE  Control'
    BY <1>8 DEF MoveFails, AllMoved, MarkReadonly, List, Control
  <1>9. CASE UNCHANGED vars
    BY <1>9 DEF vars, Control
  <1> QED
    BY <1>1, <1>2, <1>3, <1>4, <1>5, <1>6, <1>7, <1>8, <1>9 DEF Next, Step

(* Nobody but t moves, and t leaves the files alone.                       *)
LEMMA KeepOwned ==
  ASSUME Control, Owned, NEW t \in Tasks, NEW x,
         pc' = [pc EXCEPT ![t] = x], UNCHANGED <<files, arch>>,
         \/ pc[t] \notin {"move", "lock", "list", "ok", "failed"}
         \/ x \in {"move", "lock", "failed"}
         \/ pc[t] = "list" /\ x = "ok"
  PROVE  Owned'
  <1>1. pc' \in [Tasks -> Places \cup {x}] /\ pc'[t] = x
        /\ \A u \in Tasks \ {t} : pc'[u] = pc[u]
    BY DEF Control
  <1>2. ASSUME NEW p \in DOMAIN files PROVE IsOwned(files[p])'
    <2>1. IsOwned(files[p])
      BY DEF Owned
    <2>2. CASE files[p].by = t
      BY <1>1, <2>1, <2>2 DEF IsOwned
    <2>3. CASE files[p].by # t
      BY <1>1, <2>1, <2>3 DEF IsOwned
    <2> QED
      BY <2>2, <2>3
  <1> QED
    BY <1>2 DEF Owned

(* ... or it puts one file where it is moving.                             *)
LEMMA PutOwned ==
  ASSUME Control, Owned, NEW t \in Tasks, NEW p, NEW b, Put(t, p, b), pc[t] = "move",
         pc' = pc \/ pc' = [pc EXCEPT ![t] = "failed"], UNCHANGED arch
  PROVE  Owned'
  <1> DEFINE new == [bytes |-> b, by |-> t, locked |-> FALSE]
  <1>1. /\ DOMAIN files' = DOMAIN files \cup {p}
        /\ files'[p] = new
        /\ \A q \in DOMAIN files \ {p} : files'[q] = files[q]
    BY DEF Put, Updated
  <1>2. /\ pc'[t] \in {"move", "failed"}
        /\ \A u \in Tasks \ {t} : pc'[u] = pc[u]
    BY DEF Control
  <1>3. Format[arch[t]] = "rar" \/ AllValid(arch[t])
    BY DEF Control
  <1>4. ASSUME NEW q \in DOMAIN files'
        PROVE  IsOwned(files[q])'
    <2>1. CASE q = p
      BY <1>1, <1>2, <1>3, <2>1 DEF IsOwned
    <2>2. CASE q # p
      <3>1. q \in DOMAIN files /\ files'[q] = files[q] /\ IsOwned(files[q])
        BY <1>1, <2>2 DEF Owned
      <3>2. CASE files[q].by = t
        BY <1>2, <3>1, <3>2 DEF IsOwned
      <3>3. CASE files[q].by # t
        BY <1>2, <3>1, <3>3 DEF IsOwned
      <3> QED
        BY <3>1, <3>2, <3>3
    <2> QED
      BY <2>1, <2>2
  <1> QED
    BY <1>4 DEF Owned

LEMMA OwnedStep == Control /\ Owned /\ [Next]_vars => Owned'
  <1> SUFFICES ASSUME Control, Owned, [Next]_vars PROVE Owned'
    OBVIOUS
  <1> USE DEF Goto, stage
  <1>1. ASSUME NEW t \in Tasks, Begin(t) \/ Unpack(t) \/ RunTool(t) \/ Revalidate(t) \/ Unpacked(t)
        PROVE  Owned'
    <2>1. /\ UNCHANGED <<files, arch>>
          /\ pc[t] \notin {"move", "lock", "list", "ok", "failed"}
          /\ pc' = pc \/ \E x : pc' = [pc EXCEPT ![t] = x]
      BY <1>1 DEF Begin, Unpack, RunTool, Revalidate, Unpacked, Drop
    <2>2. CASE pc' = pc
      BY <2>1, <2>2 DEF Owned, IsOwned
    <2> QED
      BY <2>1, <2>2, KeepOwned
  <1>2. ASSUME NEW t \in Tasks, DetectRoot(t)
        PROVE  Owned'
    <2>0. pc[t] = "detect" /\ arch' = arch
      BY <1>2 DEF DetectRoot
    <2>1. CASE /\ files' = [p \in DOMAIN temp[t].files |->
                              [bytes |-> temp[t].files[p], by |-> t, locked |-> FALSE]]
               /\ pc' = [pc EXCEPT ![t] = "lock"]
      <3>1. pc'[t] = "lock" /\ (Format[arch[t]] = "rar" \/ AllValid(arch[t]))
        BY <2>0, <2>1 DEF Control
      <3>2. ASSUME NEW p \in DOMAIN files'
            PROVE  IsOwned(files[p])'
        BY <2>0, <2>1, <3>1 DEF IsOwned
      <3> QED
        BY <3>2 DEF Owned
    <2>2. CASE pc' = [pc EXCEPT ![t] = "move"] /\ UNCHANGED files
      BY <2>0, <2>2, KeepOwned
    <2> QED
      BY <1>2, <2>1, <2>2 DEF DetectRoot
  <1>3. ASSUME NEW t \in Tasks, NEW p \in DOMAIN todo[t], MoveItem(t, p)
        PROVE  Owned'
    <2>0. pc[t] = "move" /\ pc' = pc /\ arch' = arch
      BY <1>3 DEF MoveItem
    <2>1. CASE UNCHANGED files
      BY <2>0, <2>1 DEF Owned, IsOwned
    <2>2. CASE Put(t, p, todo[t][p])
      BY <2>0, <2>2, PutOwned
    <2> QED
      BY <1>3, <2>1, <2>2 DEF MoveItem
  <1>4. ASSUME NEW t \in Tasks, MoveFails(t)
        PROVE  Owned'
    <2>0. pc[t] = "move" /\ pc' = [pc EXCEPT ![t] = "failed"] /\ arch' = arch
      BY <1>4 DEF MoveFails
    <2>1. CASE UNCHANGED files
      BY <2>0, <2>1, KeepOwned
    <2>2. ASSUME NEW p, Put(t, p, Torn)
          PROVE  Owned'
      BY <2>0, <2>2, PutOwned
    <2> QED
      BY <1>4, <2>1, <2>2 DEF MoveFails
  <1>5. ASSUME NEW t \in Tasks, AllMoved(t) \/ List(t)
        PROVE  Owned'
    <2>1. /\ UNCHANGED <<files, arch>>
          /\ \/ pc' = [pc EXCEPT ![t] = "lock"]
             \/ pc[t] = "list" /\ pc' = [pc EXCEPT ![t] = "ok"]
             \/ pc[t] = "list" /\ pc' = [pc EXCEPT ![t] = "failed"]
      BY <1>5 DEF AllMoved, List
    <2> QED
      BY <2>1, KeepOwned
  <1>6. ASSUME NEW t \in Tasks, MarkReadonly(t)
        PROVE  Owned'
    <2>0. pc[t] = "lock" /\ arch' = arch
      BY <1>6 DEF MarkReadonly
    <2>1. CASE /\ files' = [p \in DOMAIN files |->
                        [bytes |-> files[p].bytes, by |-> files[p].by, locked |-> TRUE]]
               /\ pc' = [pc EXCEPT ![t] = "list"]
      <3>1. ASSUME NEW p \in DOMAIN files
            PROVE  files'[p].by = files[p].by /\ files'[p].locked = TRUE
        <4>1. files'[p] = [bytes |-> files[p].bytes, by |-> files[p].by, locked |-> TRUE]
          BY <2>1
        <4> QED
          BY <4>1
      <3>2. pc'[t] = "list" /\ (\A u \in Tasks \ {t} : pc'[u] = pc[u])
            /\ (Format[arch[t]] = "rar" \/ AllValid(arch[t]))
        BY <2>0, <2>1 DEF Control
      <3>3. ASSUME NEW p \in DOMAIN files'
            PROVE  IsOwned(files[p])'
        <4>1. p \in DOMAIN files /\ IsOwned(files[p])
          BY <2>1 DEF Owned
        <4>2. files'[p].by = files[p].by /\ files'[p].locked = TRUE
          BY <3>1, <4>1
        <4>3. pc'[files[p].by] \in {"move", "lock", "list", "ok", "failed"}
          BY <3>2, <4>1 DEF IsOwned
        <4>4. files'[p].by \in Tasks
              /\ (Format[arch[files'[p].by]] = "rar" \/ AllValid(arch[files'[p].by]))
          BY <4>1, <4>2 DEF IsOwned
        <4> QED
          BY <2>0, <4>2, <4>3, <4>4 DEF IsOwned
      <3> QED
        BY <3>3 DEF Owned
    <2>2. CASE pc' = [pc EXCEPT ![t] = "failed"] /\ UNCHANGED files
      BY <2>0, <2>2, KeepOwned
    <2> QED
      BY <1>6, <2>1, <2>2 DEF MarkReadonly
  <1>7. CASE UNCHANGED vars
    BY <1>7 DEF vars, Owned, IsOwned
  <1> QED
    BY <1>1, <1>2, <1>3, <1>4, <1>5, <1>6, <1>7 DEF Next, Step

LEMMA AlwaysOwned == Spec => [](Control /\ Owned)
  BY ControlInit, ControlStep, OwnedStep, PTL DEF Spec

(* A file put into the root by an install that returned is read-only,      *)
(* however many installs move and lock in that root at once.               *)
THEOREM ReturnedIsLocked == Spec => []LockedDown
  <1>1. Owned => LockedDown
    BY DEF Owned, IsOwned, LockedDown
  <1> QED
    BY <1>1, AlwaysOwned, PTL

(* No file reaches the staging root out of a .zip or .7z one of whose      *)
(* entries is refused, not even the ones before it.                        *)
NothingUnvetted ==
  \A p \in DOMAIN files : LET a == arch[files[p].by] IN
    Format[a] # "rar" => AllValid(a)

THEOREM WholeArchiveVetted == Spec => []NothingUnvetted
  <1>1. Owned => NothingUnvetted
    BY DEF Owned, IsOwned, NothingUnvetted
  <1> QED
    BY <1>1, AlwaysOwned, PTL

-----------------------------------------------------------------------------
(* What is in a temporary tree, and that it is the archive's content.      *)

Entry(a, i) == Entries[a][i]
IsFile(a, i) == Entries[a][i].kind = "file"

(* What the tool is given: no name is both a file and a directory.         *)
Coherent(a) ==
  \A i, j \in Taken(a) : Entry(a, i).kind # "dir" => Path(a, i) \notin Folders(Entry(a, j))

(* The entries up to the n-th, and of those the ones that show.            *)
Read(a, n) == {i \in Taken(a) : i <= n}
Shown(a, n) == {i \in Read(a, n) : /\ IsFile(a, i)
                                   /\ \A j \in Read(a, n) : IsFile(a, j) /\ j > i
                                        => Path(a, j) # Path(a, i)}

TreeOf(tree, a, n) ==
  /\ \A i \in Read(a, n) : IsFile(a, i) => Path(a, i) \in DOMAIN tree.files
  /\ \A p \in DOMAIN tree.files : \E i \in Shown(a, n) :
       Path(a, i) = p /\ tree.files[p] = Entry(a, i).bytes
  /\ tree.dirs = UNION {Folders(Entry(a, i)) : i \in Read(a, n)}
  /\ \A i \in Read(a, n) : Entry(a, i).kind = "link" => Path(a, i) \in tree.links
  /\ tree.dirs \cap DOMAIN tree.files = {}

TreeAt(t) ==
  /\ pc[t] = "idle" => temp[t] = NoTree
  /\ pc[t] \in {"unpack", "revalidate", "detect"} => TreeOf(temp[t], arch[t], at[t] - 1)
  /\ pc[t] \in {"revalidate", "detect"} => at[t] > Len(Entries[arch[t]])
  /\ pc[t] \in {"detect", "move", "lock", "list", "ok"} => Vetted(arch[t])

Trees == \A t \in Tasks : TreeAt(t)

(* What is still to move, and what has been moved.                         *)
ToMoveAt(t) ==
  pc[t] = "move" => \A p \in DOMAIN todo[t] :
    todo[t][p] = Dir \/ (p \in DOMAIN Content[arch[t]] /\ todo[t][p] = Content[arch[t]][p])

ToMoveIsContent == \A t \in Tasks : ToMoveAt(t)

Rooted ==
  root = FALSE => files = <<>> /\ \A t \in Tasks : pc[t] \notin {"move", "lock", "list", "ok"}

Over == \A t \in Tasks : past[t] \subseteq {u \in Tasks : pc[u] \in {"ok", "failed"}}

CompleteAt(t) ==
  /\ pc[t] \in {"move", "lock", "list", "ok"} =>
       \A p \in DOMAIN Content[arch[t]] :
         \/ pc[t] = "move" /\ p \in DOMAIN todo[t] /\ todo[t][p] # Dir
         \/ p \in DOMAIN files /\ files[p].by \notin past[t]
  /\ pc[t] = "ok" => DOMAIN Content[arch[t]] \subseteq listed[t]

Complete == \A t \in Tasks : CompleteAt(t)

(* What holds of the installs and the root they share.                     *)
StagingInv ==
  /\ Control /\ Owned /\ Trees /\ ToMoveIsContent
  /\ OnlyVettedContent /\ Rooted /\ Over /\ Complete

(* A path is a sequence of the components of its archive.                  *)
Component(a) ==
  UNION {{Path(a, i)[k] : k \in DOMAIN Path(a, i)} : i \in DOMAIN Entries[a]}

LEMMA EntriesOf ==
  ASSUME NEW a \in Archive
  PROVE  /\ Len(Entries[a]) \in Nat /\ DOMAIN Entries[a] = 1 .. Len(Entries[a])
         /\ \A i \in DOMAIN Entries[a] :
              /\ Entries[a][i].kind \in {"file", "dir", "link"}
              /\ Entries[a][i].bytes \notin {Torn, Dir}
              /\ IsFiniteSet(DOMAIN Entries[a][i].name)
  <1> DEFINE S == ToSet(Entries[a])
  <1>1. /\ Entries[a] \in Seq(S)
        /\ \A i \in DOMAIN Entries[a] :
             /\ Entries[a][i].kind \in {"file", "dir", "link"}
             /\ Entries[a][i].bytes \notin {Torn, Dir}
             /\ Entries[a][i].name \in Seq(ToSet(Entries[a][i].name))
    BY ArchiveAssumption
  <1> HIDE DEF S
  <1>2. ASSUME NEW i \in DOMAIN Entries[a] PROVE IsFiniteSet(DOMAIN Entries[a][i].name)
    <2> DEFINE name == Entries[a][i].name  T == ToSet(name)
    <2>1. name \in Seq(T)
      BY <1>1
    <2> HIDE DEF name, T
    <2>2. DOMAIN name = 1 .. Len(name) /\ Len(name) \in Nat
      BY <2>1, LenProperties
    <2>3. IsFiniteSet(1 .. Len(name))
      BY <2>2, FS_Interval
    <2> QED
      BY <2>2, <2>3 DEF name
  <1> QED
    BY <1>1, <1>2, LenProperties

LEMMA PathIsSeq ==
  ASSUME NEW a \in Archive, NEW i \in DOMAIN Entries[a]
  PROVE  Path(a, i) \in Seq(Component(a))
  <1> DEFINE p == Path(a, i)
             kept == {k \in DOMAIN Entries[a][i].name : Entries[a][i].name[k] # "."}
  <1>1. Cardinality(kept) \in Nat
    BY EntriesOf, FS_Subset, FS_CardinalityType
  <1>2. DOMAIN p = 1 .. Cardinality(kept) /\ p = [k \in 1 .. Cardinality(kept) |-> p[k]]
    BY DEF Path, SafeRelative
  <1> HIDE DEF kept
  <1>3. \A k \in 1 .. Cardinality(kept) : p[k] \in Component(a)
    <2> TAKE k \in 1 .. Cardinality(kept)
    <2>1. Path(a, i)[k] \in {Path(a, i)[l] : l \in DOMAIN Path(a, i)}
      BY <1>2
    <2> QED
      BY <2>1, Zenon DEF Component
  <1> HIDE DEF p
  <1>4. p \in [1 .. Cardinality(kept) -> Component(a)]
    BY <1>2, <1>3
  <1>5. p \in Seq(Component(a))
    BY <1>1, <1>4
  <1> QED
    BY <1>5 DEF p

(* The directories of an entry are the beginnings of its path.             *)
LEMMA FoldersAre ==
  ASSUME NEW a \in Archive, NEW i \in DOMAIN Entries[a], NEW q \in Folders(Entry(a, i))
  PROVE  /\ q \in Seq(Component(a)) /\ Len(q) >= 1 /\ Len(q) <= Len(Path(a, i))
         /\ \A k \in 1 .. Len(q) : q[k] = Path(a, i)[k]
  <1> DEFINE p == Path(a, i)
  <1>1. p \in Seq(Component(a))
    BY PathIsSeq
  <1>2. q \in Above(p) \/ (q = p /\ p # <<>>)
    BY DEF Folders, Path, Entry
  <1> HIDE DEF p
  <1>3. Len(p) \in Nat /\ DOMAIN p = 1 .. Len(p) /\ (p # <<>> => Len(p) >= 1)
    BY <1>1, LenProperties, EmptySeq
  <1>4. CASE q \in Above(p)
    <2>1. PICK n \in 1 .. Len(p) - 1 : q = SubSeq(p, 1, n)
      BY <1>4 DEF Above
    <2>2. n \in Nat /\ 1 <= n /\ n <= Len(p) /\ \A k \in 1 .. n : p[k] \in Component(a)
      BY <1>1, <1>3, <2>1, ElementOfSeq
    <2>3. /\ q \in Seq(Component(a)) /\ Len(q) = n /\ \A k \in 1 .. n : q[k] = p[k]
      BY <2>1, <2>2, SubSeqProperties
    <2> QED
      BY <2>2, <2>3 DEF p
  <1>5. CASE q = p /\ p # <<>>
    BY <1>1, <1>3, <1>5 DEF p
  <1> QED
    BY <1>2, <1>4, <1>5

LEMMA FirstFolder ==
  ASSUME NEW a \in Archive, NEW i \in DOMAIN Entries[a], Len(Path(a, i)) > 1
  PROVE  <<Path(a, i)[1]>> \in Folders(Entry(a, i))
  <1> DEFINE p == Path(a, i)
  <1>1. p \in Seq(Component(a)) /\ Len(p) \in Nat /\ Len(p) > 1
    BY PathIsSeq, LenProperties
  <1>2. SubSeq(p, 1, 1) \in Above(p)
    BY <1>1 DEF Above
  <1> HIDE DEF p
  <1>3. SubSeq(p, 1, 1) = <<p[1]>>
    <2>1. p[1] \in Component(a)
      BY <1>1, ElementOfSeq
    <2>2. <<p[1]>> \in Seq(Component(a)) /\ Len(<<p[1]>>) = 1 /\ <<p[1]>>[1] = p[1]
      BY <2>1
    <2>3. SubSeq(p, 1, 1) \in Seq(Component(a)) /\ Len(SubSeq(p, 1, 1)) = 1 /\ SubSeq(p, 1, 1)[1] = p[1]
      BY <2>1, SubSeqProperties
    <2>4. \A k \in 1 .. Len(SubSeq(p, 1, 1)) : SubSeq(p, 1, 1)[k] = <<p[1]>>[k]
      BY <2>2, <2>3
    <2> QED
      BY <2>2, <2>3, <2>4, SeqEqual
  <1>4. <<p[1]>> \in Above(p)
    BY <1>2, <1>3
  <1> QED
    BY <1>4 DEF p, Folders, Path, Entry

LEMMA SameTail ==
  ASSUME NEW S, NEW p \in Seq(S), NEW q \in Seq(S), p # <<>>, q # <<>>,
         p[1] = q[1], Tail(p) = Tail(q)
  PROVE  p = q
  <1> DEFINE tp == Tail(p)  tq == Tail(q)
  <1>1. /\ Len(p) \in Nat \ {0} /\ Len(q) \in Nat \ {0}
        /\ Len(tp) = Len(p) - 1 /\ Len(tq) = Len(q) - 1
        /\ \A k \in 1 .. Len(p) - 1 : tp[k] = p[k + 1]
        /\ \A k \in 1 .. Len(q) - 1 : tq[k] = q[k + 1]
    BY HeadTailProperties, EmptySeq
  <1>2. tp = tq
    OBVIOUS
  <1> HIDE DEF tp, tq
  <1>3. Len(p) = Len(q)
    BY <1>1, <1>2
  <1>4. Len(p) \in Nat
    BY <1>1
  <1>5. ASSUME NEW k \in 1 .. Len(p) PROVE p[k] = q[k]
    <2>1. CASE k # 1
      <3>1. k \in Nat /\ k - 1 \in 1 .. Len(p) - 1 /\ (k - 1) + 1 = k
        BY <1>4, <2>1
      <3>2. tp[k - 1] = p[(k - 1) + 1] /\ tq[k - 1] = q[(k - 1) + 1]
        BY <1>1, <1>3, <3>1
      <3> QED
        BY <1>2, <3>1, <3>2
    <2> QED
      BY <2>1
  <1> QED
    BY <1>3, <1>5, SeqEqual

(* No two kept entries lie at the same place.                              *)
LEMMA KeptApart ==
  ASSUME NEW a \in Archive, NEW i \in Kept(a), NEW j \in Kept(a), Place(a, i) = Place(a, j)
  PROVE  i = j
  <1>1. /\ i \in DOMAIN Entries[a] /\ j \in DOMAIN Entries[a] /\ i \in Nat /\ j \in Nat
        /\ i \in LastFiles(a) /\ j \in LastFiles(a)
    BY EntriesOf DEF Kept, LastFiles, Taken
  <1>2. Path(a, i) = Path(a, j)
    <2>1. CASE ~ Wraps(a)
      BY <2>1 DEF Place
    <2>2. CASE Wraps(a)
      <3>1. Len(Path(a, i)) > 1 /\ Len(Path(a, j)) > 1 /\ Tail(Path(a, i)) = Tail(Path(a, j))
        BY <2>2 DEF Kept, Place
      <3>2. /\ Path(a, i) \in Seq(Component(a)) /\ Path(a, j) \in Seq(Component(a))
            /\ Len(Path(a, i)) \in Nat /\ Len(Path(a, j)) \in Nat
            /\ Path(a, i) # <<>> /\ Path(a, j) # <<>>
        BY <1>1, <3>1, PathIsSeq, LenProperties, EmptySeq
      <3>3. Path(a, i)[1] \in Nth(a, 1) /\ Path(a, j)[1] \in Nth(a, 1)
        BY <1>1, <3>1, <3>2 DEF Nth, LastFiles
      <3>4. Path(a, i)[1] = Path(a, j)[1]
        BY <2>2, <3>3 DEF Wraps
      <3> QED
        BY <3>1, <3>2, <3>4, SameTail
    <2> QED
      BY <2>1, <2>2
  <1>3. ~ (i < j) /\ ~ (j < i)
    BY <1>1, <1>2 DEF LastFiles
  <1> QED
    BY <1>1, <1>3

LEMMA ContentAt ==
  ASSUME NEW a \in Archive
  PROVE  /\ \A i \in Kept(a) : /\ Place(a, i) \in DOMAIN Content[a]
                               /\ Content[a][Place(a, i)] = Entry(a, i).bytes
         /\ \A p \in DOMAIN Content[a] : \E i \in Kept(a) :
              Place(a, i) = p /\ Content[a][p] = Entry(a, i).bytes
  <1>1. Content[a] = [p \in {Place(a, i) : i \in Kept(a)} |->
                        Entries[a][CHOOSE i \in Kept(a) : Place(a, i) = p].bytes]
    BY DEF Content
  <1>2. ASSUME NEW i \in Kept(a)
        PROVE  /\ Place(a, i) \in DOMAIN Content[a]
               /\ Content[a][Place(a, i)] = Entry(a, i).bytes
    <2>1. (CHOOSE j \in Kept(a) : Place(a, j) = Place(a, i)) = i
      BY KeptApart
    <2> QED
      BY <1>1, <2>1 DEF Entry
  <1>3. ASSUME NEW p \in DOMAIN Content[a]
        PROVE  \E i \in Kept(a) : Place(a, i) = p /\ Content[a][p] = Entry(a, i).bytes
    BY <1>1 DEF Entry
  <1> QED
    BY <1>2, <1>3

(* A tree into which the whole archive has gone.                           *)
Full(tree, a) == Vetted(a) /\ \E n \in Nat : n >= Len(Entries[a]) /\ TreeOf(tree, a, n)

LEMMA FullTree ==
  ASSUME NEW a \in Archive, NEW tree, Full(tree, a)
  PROVE  /\ \A i \in Taken(a) : IsFile(a, i) => Path(a, i) \in DOMAIN tree.files
         /\ \A p \in DOMAIN tree.files : \E i \in LastFiles(a) :
              Path(a, i) = p /\ tree.files[p] = Entry(a, i).bytes
         /\ tree.dirs = UNION {Folders(Entry(a, i)) : i \in Taken(a)}
         /\ tree.dirs \cap DOMAIN tree.files = {}
         /\ \A i \in Taken(a) : Entry(a, i).kind \in {"file", "dir"}
  <1>1. PICK n \in Nat : n >= Len(Entries[a]) /\ TreeOf(tree, a, n)
    BY DEF Full
  <1>2. Read(a, n) = Taken(a)
    BY <1>1, EntriesOf DEF Read, Taken
  <1>3. Shown(a, n) = LastFiles(a)
    BY <1>2 DEF Shown, LastFiles, IsFile
  <1>4. \A i \in Taken(a) : Entry(a, i).kind \in {"file", "dir"}
    BY EntriesOf DEF Full, Vetted, ValidEntry, Taken, Entry
  <1> QED
    BY <1>1, <1>2, <1>3, <1>4 DEF TreeOf

(* Its paths are the beginnings of the paths of its entries.               *)
LEMMA PathsOfTree ==
  ASSUME NEW a \in Archive, NEW tree, Full(tree, a)
  PROVE  /\ \A q \in AllPaths(tree) : \E i \in Taken(a) :
              /\ q \in Seq(Component(a)) /\ 1 <= Len(q) /\ Len(q) <= Len(Path(a, i))
              /\ \A k \in 1 .. Len(q) : q[k] = Path(a, i)[k]
         /\ \A i \in Taken(a) : Path(a, i) # <<>> => Path(a, i) \in AllPaths(tree)
  <1>1. ASSUME NEW q \in DOMAIN tree.files
        PROVE  \E i \in Taken(a) :
                 /\ q \in Seq(Component(a)) /\ 1 <= Len(q) /\ Len(q) <= Len(Path(a, i))
                 /\ \A k \in 1 .. Len(q) : q[k] = Path(a, i)[k]
    <2>1. PICK i \in LastFiles(a) : Path(a, i) = q
      BY FullTree
    <2>2. i \in Taken(a) /\ i \in DOMAIN Entries[a] /\ q # <<>>
      BY <2>1 DEF LastFiles, Taken, Sound, Path
    <2>3. q \in Seq(Component(a)) /\ Len(q) \in Nat \ {0}
      BY <2>1, <2>2, PathIsSeq, EmptySeq
    <2> QED
      BY <2>1, <2>2, <2>3
  <1>2. ASSUME NEW q \in tree.dirs
        PROVE  \E i \in Taken(a) :
                 /\ q \in Seq(Component(a)) /\ 1 <= Len(q) /\ Len(q) <= Len(Path(a, i))
                 /\ \A k \in 1 .. Len(q) : q[k] = Path(a, i)[k]
    <2>1. PICK i \in Taken(a) : q \in Folders(Entry(a, i))
      BY FullTree
    <2>2. i \in DOMAIN Entries[a]
      BY DEF Taken
    <2> QED
      BY <2>1, <2>2, FoldersAre
  <1>3. ASSUME NEW i \in Taken(a), Path(a, i) # <<>>
        PROVE  Path(a, i) \in AllPaths(tree)
    <2>1. CASE IsFile(a, i)
      BY <2>1, FullTree DEF AllPaths
    <2>2. CASE Entry(a, i).kind = "dir"
      <3>1. Path(a, i) \in Folders(Entry(a, i))
        BY <1>3, <2>2 DEF Folders, Path, Entry
      <3> QED
        BY <3>1, FullTree DEF AllPaths
    <2> QED
      BY <2>1, <2>2, FullTree DEF IsFile, Entry
  <1> QED
    BY <1>1, <1>2, <1>3 DEF AllPaths

(* detect_archive_root finds a wrapper where the archive has one.          *)
LEMMA WrapperIsFound ==
  ASSUME NEW a \in Archive, NEW tree, Full(tree, a)
  PROVE  /\ Top(tree) = Nth(a, 1)
         /\ \A w : Nth(a, 1) = {w} => GameContent(tree, w) = Nth(a, 2) \cap Recognized
         /\ (\E w \in Top(tree) : IsWrapper(tree, w)) <=> Wraps(a)
  <1>0. \A i \in Taken(a) : i \in DOMAIN Entries[a] /\ Path(a, i) \in Seq(Component(a)) /\ Len(Path(a, i)) \in Nat
    BY PathIsSeq, LenProperties DEF Taken
  <1>1. \A q \in AllPaths(tree) : \E i \in Taken(a) :
          /\ Len(q) \in Nat /\ 1 <= Len(q) /\ Len(q) <= Len(Path(a, i))
          /\ q[1] = Path(a, i)[1] /\ (Len(q) >= 2 => q[2] = Path(a, i)[2])
    <2> TAKE q \in AllPaths(tree)
    <2>1. PICK i \in Taken(a) :
              /\ q \in Seq(Component(a)) /\ 1 <= Len(q) /\ Len(q) <= Len(Path(a, i))
              /\ \A k \in 1 .. Len(q) : q[k] = Path(a, i)[k]
      BY PathsOfTree
    <2>2. Len(q) \in Nat
      BY <2>1, LenProperties
    <2> QED
      BY <2>1, <2>2
  <1>2. Top(tree) \subseteq Nth(a, 1)
    <2> SUFFICES ASSUME NEW q \in AllPaths(tree) PROVE q[1] \in Nth(a, 1)
      BY DEF Top
    <2>1. PICK i \in Taken(a) :
            Len(q) \in Nat /\ 1 <= Len(q) /\ Len(q) <= Len(Path(a, i)) /\ q[1] = Path(a, i)[1]
      BY <1>1
    <2>2. Len(Path(a, i)) >= 1
      BY <1>0, <2>1
    <2> QED
      BY <2>1, <2>2 DEF Nth
  <1>3. Nth(a, 1) \subseteq Top(tree)
    <2> SUFFICES ASSUME NEW x \in Nth(a, 1) PROVE x \in Top(tree)
      OBVIOUS
    <2>1. PICK i \in Taken(a) : Len(Path(a, i)) >= 1 /\ x = Path(a, i)[1]
      BY DEF Nth
    <2>2. Path(a, i) # <<>>
      BY <1>0, <2>1, EmptySeq
    <2> QED
      BY <2>1, <2>2, PathsOfTree DEF Top
  <1>4. ASSUME NEW w, Nth(a, 1) = {w} PROVE GameContent(tree, w) = Nth(a, 2) \cap Recognized
    <2>1. ASSUME NEW x \in GameContent(tree, w) PROVE x \in Nth(a, 2) \cap Recognized
      <3>1. PICK q \in AllPaths(tree) : Len(q) > 1 /\ x = q[2]
        BY <2>1 DEF GameContent
      <3>2. PICK i \in Taken(a) : /\ Len(q) \in Nat /\ Len(q) <= Len(Path(a, i))
                                  /\ (Len(q) >= 2 => q[2] = Path(a, i)[2])
        BY <1>1
      <3>3. Len(Path(a, i)) >= 2 /\ x = Path(a, i)[2]
        BY <1>0, <3>1, <3>2
      <3> QED
        BY <2>1, <3>3 DEF Nth, GameContent
    <2>2. ASSUME NEW x \in Nth(a, 2), x \in Recognized PROVE x \in GameContent(tree, w)
      <3>1. PICK i \in Taken(a) : Len(Path(a, i)) >= 2 /\ x = Path(a, i)[2]
        BY <2>2 DEF Nth
      <3>2. Path(a, i) # <<>> /\ Len(Path(a, i)) > 1 /\ Len(Path(a, i)) >= 1
        BY <1>0, <3>1, EmptySeq
      <3>3. Path(a, i)[1] \in Nth(a, 1)
        BY <3>2 DEF Nth
      <3> QED
        BY <1>4, <2>2, <3>1, <3>2, <3>3, PathsOfTree DEF GameContent
    <2> QED
      BY <2>1, <2>2
  <1>5. ASSUME NEW w, Nth(a, 1) = {w}, Nth(a, 2) # {} PROVE <<w>> \in tree.dirs
    <2>1. PICK i \in Taken(a) : Len(Path(a, i)) >= 2
      BY <1>5 DEF Nth
    <2>2. i \in DOMAIN Entries[a] /\ Len(Path(a, i)) > 1 /\ Len(Path(a, i)) >= 1
      BY <1>0, <2>1
    <2>3. Path(a, i)[1] = w
      BY <1>5, <2>2 DEF Nth
    <2>4. <<w>> \in Folders(Entry(a, i))
      BY <2>2, <2>3, FirstFolder
    <2> QED
      BY <2>4, FullTree
  <1>6. Top(tree) = Nth(a, 1)
    BY <1>2, <1>3
  <1>7. (\E w \in Top(tree) : IsWrapper(tree, w)) => Wraps(a)
    BY <1>4, <1>6 DEF IsWrapper, Wraps
  <1>8. Wraps(a) => \E w \in Top(tree) : IsWrapper(tree, w)
    BY <1>4, <1>5, <1>6 DEF IsWrapper, Wraps
  <1> QED
    BY <1>4, <1>6, <1>7, <1>8

(* A file of the tree is the last of its path in the archive.              *)
LEMMA FileOfTree ==
  ASSUME NEW a \in Archive, NEW tree, Full(tree, a)
  PROVE  /\ \A i \in LastFiles(a) : /\ Path(a, i) \in DOMAIN tree.files
                                    /\ Path(a, i) \notin tree.dirs
                                    /\ tree.files[Path(a, i)] = Entry(a, i).bytes
                                    /\ Entry(a, i).bytes # Dir
         /\ \A q \in AllPaths(tree) : q \notin tree.dirs => \E i \in LastFiles(a) : Path(a, i) = q
  <1>1. ASSUME NEW i \in LastFiles(a)
        PROVE  /\ Path(a, i) \in DOMAIN tree.files /\ Path(a, i) \notin tree.dirs
               /\ tree.files[Path(a, i)] = Entry(a, i).bytes /\ Entry(a, i).bytes # Dir
    <2>1. i \in Taken(a) /\ IsFile(a, i) /\ i \in DOMAIN Entries[a]
      BY DEF LastFiles, IsFile, Taken
    <2>2. Path(a, i) \in DOMAIN tree.files /\ Path(a, i) \notin tree.dirs
      BY <2>1, FullTree
    <2>3. PICK j \in LastFiles(a) :
            Path(a, j) = Path(a, i) /\ tree.files[Path(a, i)] = Entry(a, j).bytes
      BY <2>2, FullTree
    <2>4. i \in Nat /\ j \in Nat
      BY EntriesOf DEF LastFiles, Taken
    <2>5. ~ (i < j) /\ ~ (j < i)
      BY <2>3, <2>4 DEF LastFiles
    <2>6. i = j
      BY <2>4, <2>5
    <2> QED
      BY <2>1, <2>2, <2>3, <2>6, EntriesOf DEF Entry
  <1>2. ASSUME NEW q \in AllPaths(tree), q \notin tree.dirs
        PROVE  \E i \in LastFiles(a) : Path(a, i) = q
    BY <1>2, FullTree DEF AllPaths
  <1> QED
    BY <1>1, <1>2

LEMMA PlainContent ==
  ASSUME NEW a \in Archive, NEW tree, Full(tree, a), ~ Wraps(a)
  PROVE  /\ DOMAIN ToMove(tree) = AllPaths(tree)
         /\ \A p \in AllPaths(tree) : p \in tree.dirs => ToMove(tree)[p] = Dir
         /\ \A p \in AllPaths(tree) : p \notin tree.dirs => ToMove(tree)[p] = tree.files[p]
         /\ \A p \in AllPaths(tree) : p \notin tree.dirs =>
              p \in DOMAIN Content[a] /\ tree.files[p] = Content[a][p]
         /\ \A p \in DOMAIN Content[a] :
              p \in DOMAIN tree.files /\ p \notin tree.dirs /\ Content[a][p] # Dir
  <1>1. ToMove(tree) = [p \in AllPaths(tree) |-> IF p \in tree.dirs THEN Dir ELSE tree.files[p]]
    BY WrapperIsFound DEF ToMove
  <1>2. Kept(a) = LastFiles(a) /\ \A i : Place(a, i) = Path(a, i)
    BY DEF Kept, Place
  <1>3. ASSUME NEW p \in AllPaths(tree), p \notin tree.dirs
        PROVE  p \in DOMAIN Content[a] /\ tree.files[p] = Content[a][p]
    <2>1. PICK i \in LastFiles(a) : Path(a, i) = p
      BY <1>3, FileOfTree
    <2>2. p \in DOMAIN Content[a] /\ Content[a][p] = Entry(a, i).bytes
      BY <1>2, <2>1, ContentAt
    <2> QED
      BY <2>1, <2>2, FileOfTree
  <1>4. ASSUME NEW p \in DOMAIN Content[a]
        PROVE  p \in DOMAIN tree.files /\ p \notin tree.dirs /\ Content[a][p] # Dir
    <2>1. PICK i \in LastFiles(a) : Path(a, i) = p /\ Content[a][p] = Entry(a, i).bytes
      BY <1>2, ContentAt
    <2> QED
      BY <2>1, FileOfTree
  <1> QED
    BY <1>1, <1>3, <1>4

(* Under a wrapper every path begins with it.                              *)
LEMMA WrappedContent ==
  ASSUME NEW a \in Archive, NEW tree, Full(tree, a), Wraps(a)
  PROVE  /\ \A p \in DOMAIN ToMove(tree) :
              \/ ToMove(tree)[p] = Dir
              \/ p \in DOMAIN Content[a] /\ ToMove(tree)[p] = Content[a][p]
         /\ \A p \in DOMAIN Content[a] : p \in DOMAIN ToMove(tree) /\ ToMove(tree)[p] # Dir
  <1>1. PICK w : Nth(a, 1) = {w}
    BY DEF Wraps
  <1>2. /\ Top(tree) = {w} /\ GameContent(tree, w) = Nth(a, 2) \cap Recognized
        /\ \E v \in Top(tree) : IsWrapper(tree, v)
    BY <1>1, WrapperIsFound
  <1> DEFINE kept == {q \in AllPaths(tree) : Len(q) > 1 /\ q[2] \in GameContent(tree, w)}
             Item(p) == IF p \in tree.dirs THEN Dir ELSE tree.files[p]
  <1>3. (CHOOSE v \in Top(tree) : TRUE) = w
    BY <1>2
  <1>4. ToMove(tree) = [p \in {Tail(q) : q \in kept} |-> Item(<<w>> \o p)]
    BY <1>2, <1>3 DEF ToMove
  <1>5. ASSUME NEW q \in kept
        PROVE  /\ q \in Seq(Component(a)) /\ Len(q) \in Nat /\ Len(q) > 1 /\ q \in AllPaths(tree)
               /\ q[2] \in Recognized /\ q[2] \in Nth(a, 2) /\ <<w>> \o Tail(q) = q
    <2>1. /\ q \in AllPaths(tree) /\ Len(q) > 1 /\ q[2] \in Nth(a, 2) /\ q[2] \in Recognized
      BY <1>2
    <2>2. q[1] = w
      BY <1>2, <2>1 DEF Top
    <2>3. q \in Seq(Component(a)) /\ Len(q) \in Nat
      BY <2>1, PathsOfTree, LenProperties
    <2>4. <<w>> \o Tail(q) = q
      <3>1. /\ q[1] \in Component(a) /\ q # <<>>
        BY <2>1, <2>3, ElementOfSeq, EmptySeq
      <3>2. <<q[1]>> \in Seq(Component(a)) /\ Len(<<q[1]>>) = 1 /\ <<q[1]>>[1] = q[1]
        BY <3>1
      <3>3. /\ Tail(q) \in Seq(Component(a)) /\ Len(Tail(q)) = Len(q) - 1
            /\ \A k \in 1 .. Len(Tail(q)) : Tail(q)[k] = q[k + 1]
        BY <2>3, <3>1, HeadTailProperties
      <3> DEFINE one == <<q[1]>>  tq == Tail(q)  all == one \o tq
      <3> HIDE DEF one, tq
      <3>4. /\ all \in Seq(Component(a)) /\ Len(all) = 1 + Len(tq)
            /\ \A k \in 1 .. 1 + Len(tq) : all[k] = IF k <= 1 THEN one[k] ELSE tq[k - 1]
        <4>1. one \in Seq(Component(a)) /\ tq \in Seq(Component(a)) /\ Len(one) = 1
          BY <3>2, <3>3 DEF one, tq
        <4>2. /\ all \in Seq(Component(a)) /\ Len(all) = Len(one) + Len(tq)
              /\ \A k \in 1 .. Len(one) + Len(tq) :
                   all[k] = IF k <= Len(one) THEN one[k] ELSE tq[k - Len(one)]
          BY <4>1, ConcatProperties
        <4> QED
          BY <4>1, <4>2
      <3> HIDE DEF all
      <3>5. Len(all) = Len(q)
        BY <2>1, <2>3, <3>3, <3>4 DEF tq
      <3>6. ASSUME NEW k \in 1 .. Len(q) PROVE all[k] = q[k]
        <4>1. CASE k = 1
          BY <2>3, <3>2, <3>3, <3>4, <4>1 DEF one, tq
        <4>2. CASE k # 1
          <5>1. Len(tq) = Len(q) - 1 /\ \A l \in 1 .. Len(tq) : tq[l] = q[l + 1]
            BY <3>3 DEF tq
          <5>2. k \in Nat /\ ~ (k <= 1) /\ k - 1 \in 1 .. Len(tq) /\ k \in 1 .. 1 + Len(tq) /\ (k - 1) + 1 = k
            BY <2>3, <4>2, <5>1
          <5>3. tq[k - 1] = q[(k - 1) + 1] /\ all[k] = tq[k - 1]
            BY <3>4, <5>1, <5>2
          <5> QED
            BY <5>2, <5>3
        <4> QED
          BY <4>1, <4>2
      <3>7. all = q
        BY <2>3, <3>4, <3>5, <3>6, SeqEqual
      <3> QED
        BY <2>2, <3>7 DEF all, one, tq
    <2> QED
      BY <2>1, <2>3, <2>4
  <1>6. \A q \in kept : Tail(q) \in DOMAIN ToMove(tree) /\ ToMove(tree)[Tail(q)] = Item(q)
    BY <1>4, <1>5
  <1>7. ASSUME NEW p \in DOMAIN ToMove(tree), ToMove(tree)[p] # Dir
        PROVE  p \in DOMAIN Content[a] /\ ToMove(tree)[p] = Content[a][p]
    <2>1. PICK q \in kept : p = Tail(q)
      BY <1>4
    <2>2. ToMove(tree)[p] = tree.files[q] /\ q \notin tree.dirs
      BY <1>6, <1>7, <2>1
    <2>3. PICK i \in LastFiles(a) : Path(a, i) = q
      BY <1>5, <2>2, FileOfTree
    <2>4. i \in Kept(a) /\ Place(a, i) = p
      BY <1>5, <2>1, <2>3 DEF Kept, Place
    <2> QED
      BY <2>2, <2>3, <2>4, ContentAt, FileOfTree
  <1>8. ASSUME NEW p \in DOMAIN Content[a]
        PROVE  p \in DOMAIN ToMove(tree) /\ ToMove(tree)[p] # Dir
    <2>1. PICK i \in Kept(a) : Place(a, i) = p
      BY ContentAt
    <2>2. /\ i \in LastFiles(a) /\ Len(Path(a, i)) > 1 /\ Path(a, i)[2] \in Recognized
          /\ p = Tail(Path(a, i)) /\ i \in Taken(a) /\ i \in DOMAIN Entries[a]
      BY <2>1 DEF Kept, Place, LastFiles, Taken
    <2>3. Path(a, i) \in AllPaths(tree)
      BY <2>2, FileOfTree DEF AllPaths
    <2>4. Len(Path(a, i)) \in Nat
      BY <2>2, PathIsSeq, LenProperties
    <2>5. Path(a, i)[2] \in Nth(a, 2)
      BY <2>2, <2>4 DEF Nth
    <2>6. Path(a, i) \in kept
      BY <1>2, <2>2, <2>3, <2>5
    <2> HIDE DEF kept
    <2>7. Item(Path(a, i)) # Dir
      BY <2>2, FileOfTree
    <2> HIDE DEF Item
    <2> QED
      BY <1>6, <2>2, <2>6, <2>7
  <1> QED
    BY <1>7, <1>8

-----------------------------------------------------------------------------
(* Unpacking, entry by entry.                                              *)

LEMMA NotAboveItself ==
  ASSUME NEW S, NEW p \in Seq(S)
  PROVE  p \notin Above(p)
  <1>1. Len(p) \in Nat
    BY LenProperties
  <1>2. ASSUME NEW n \in 1 .. Len(p) - 1 PROVE SubSeq(p, 1, n) # p
    <2>1. n \in Nat /\ 1 <= n /\ n < Len(p) /\ \A k \in 1 .. n : p[k] \in S
      BY <1>1, <1>2, ElementOfSeq
    <2>2. Len(SubSeq(p, 1, n)) = n
      BY <2>1, SubSeqProperties
    <2> QED
      BY <1>1, <2>1, <2>2
  <1> QED
    BY <1>2 DEF Above

LEMMA EntryIsWritten ==
  ASSUME NEW a \in Archive, NEW n \in Nat, n + 1 \in Taken(a), NEW tree, TreeOf(tree, a, n),
         Fits(tree, Entry(a, n + 1))
  PROVE  TreeOf(Written(tree, Entry(a, n + 1)), a, n + 1)
  <1> DEFINE i == n + 1
             p == Path(a, i)
             new == Written(tree, Entry(a, i))
  <1>1. i \in Taken(a) /\ i \in DOMAIN Entries[a] /\ i \in Nat /\ n < i
    BY EntriesOf DEF Taken
  <1>2. Taken(a) \subseteq Nat
    BY EntriesOf DEF Taken
  <1>3. Read(a, i) = Read(a, n) \cup {i} /\ \A j \in Read(a, n) : j \in Nat /\ j < i
    BY <1>1, <1>2 DEF Read
  <1>4. /\ new.dirs = tree.dirs \cup Folders(Entry(a, i))
        /\ IsFile(a, i) => /\ DOMAIN new.files = DOMAIN tree.files \cup {p}
                           /\ new.files[p] = Entry(a, i).bytes
                           /\ \A q \in DOMAIN tree.files : q # p => new.files[q] = tree.files[q]
        /\ ~ IsFile(a, i) => new.files = tree.files
        /\ tree.links \subseteq new.links
        /\ Entry(a, i).kind = "link" => p \in new.links
    BY DEF Written, Path, Entry, Updated, IsFile
  <1>5. p \notin Above(p)
    BY <1>1, PathIsSeq, NotAboveItself
  <1>6. /\ Folders(Entry(a, i)) \cap DOMAIN tree.files = {}
        /\ IsFile(a, i) => p \notin tree.dirs /\ p \notin Folders(Entry(a, i))
    BY <1>5 DEF Fits, CanHold, IsFile, Entry, Path, Folders
  <1> HIDE DEF i, p, new
  <1>7. \A j \in Read(a, i) : IsFile(a, j) => Path(a, j) \in DOMAIN new.files
    BY <1>3, <1>4 DEF TreeOf, p
  <1>8. ASSUME NEW q \in DOMAIN new.files
        PROVE  \E j \in Shown(a, i) : Path(a, j) = q /\ new.files[q] = Entry(a, j).bytes
    <2>1. CASE IsFile(a, i) /\ q = p
      <3>1. i \in Shown(a, i)
        BY <1>1, <1>3, <2>1 DEF Shown
      <3> QED
        BY <1>4, <2>1, <3>1 DEF p
    <2>2. CASE ~ (IsFile(a, i) /\ q = p)
      <3>1. q \in DOMAIN tree.files /\ new.files[q] = tree.files[q]
        BY <1>4, <2>2
      <3>2. PICK j \in Shown(a, n) : Path(a, j) = q /\ tree.files[q] = Entry(a, j).bytes
        BY <3>1 DEF TreeOf
      <3>3. IsFile(a, i) => Path(a, i) # Path(a, j)
        BY <2>2, <3>2 DEF p
      <3>4. j \in Shown(a, i)
        BY <1>3, <3>3 DEF Shown
      <3> QED
        BY <3>1, <3>2, <3>4
    <2> QED
      BY <2>1, <2>2
  <1>9. new.dirs = UNION {Folders(Entry(a, j)) : j \in Read(a, i)}
    BY <1>3, <1>4 DEF TreeOf
  <1>10. \A j \in Read(a, i) : Entry(a, j).kind = "link" => Path(a, j) \in new.links
    BY <1>3, <1>4 DEF TreeOf, p
  <1>11. new.dirs \cap DOMAIN new.files = {}
    BY <1>4, <1>6 DEF TreeOf
  <1>12. TreeOf(new, a, i)
    BY <1>7, <1>8, <1>9, <1>10, <1>11 DEF TreeOf
  <1> QED
    BY <1>12 DEF new, i

LEMMA EntryIsSkipped ==
  ASSUME NEW a \in Archive, NEW n \in Nat, n + 1 \notin Taken(a), NEW tree, TreeOf(tree, a, n)
  PROVE  TreeOf(tree, a, n + 1)
  <1>1. Taken(a) \subseteq Nat
    BY EntriesOf DEF Taken
  <1>2. Read(a, n + 1) = Read(a, n)
    BY <1>1 DEF Read
  <1>3. Shown(a, n + 1) = Shown(a, n)
    BY <1>2 DEF Shown
  <1> QED
    BY <1>2, <1>3 DEF TreeOf

(* The tool finds room for every name that is no file and directory at     *)
(* once.                                                                   *)
LEMMA ToolHasRoom ==
  ASSUME NEW a \in Archive, Coherent(a), NEW n \in Nat, NEW i \in Taken(a), NEW tree, TreeOf(tree, a, n)
  PROVE  Fits(tree, Entry(a, i))
  <1>1. ASSUME NEW q \in Folders(Entry(a, i)), q \in DOMAIN tree.files PROVE FALSE
    <2>1. PICK j \in Shown(a, n) : Path(a, j) = q
      BY <1>1 DEF TreeOf
    <2>2. j \in Taken(a) /\ Entry(a, j).kind # "dir"
      BY DEF Shown, Read, IsFile, Entry
    <2> QED
      BY <1>1, <2>1, <2>2 DEF Coherent
  <1>2. ASSUME Entry(a, i).kind # "dir", Path(a, i) \in tree.dirs PROVE FALSE
    <2>1. PICK j \in Read(a, n) : Path(a, i) \in Folders(Entry(a, j))
      BY <1>2 DEF TreeOf
    <2> QED
      BY <1>2, <2>1 DEF Coherent, Read
  <1> QED
    BY <1>1, <1>2 DEF Fits, CanHold, Entry, Path

LEMMA NothingRead ==
  ASSUME NEW a \in Archive
  PROVE  TreeOf(NoTree, a, 0)
  <1>1. Read(a, 0) = {}
    BY EntriesOf DEF Read, Taken
  <1>2. NoTree.dirs = {} /\ DOMAIN NoTree.files = {}
    BY DEF NoTree, NoFiles
  <1> QED
    BY <1>1, <1>2 DEF TreeOf

(* What the tool is given, whatever is in the archives.                    *)
ToolCoherent == \A a \in Archive : Format[a] = "rar" => Coherent(a)

(* A step of one task leaves what the others have alone.                   *)
LEMMA Others ==
  ASSUME Control, NEW t \in Tasks, Step(t)
  PROVE  /\ arch' = arch
         /\ \A u \in Tasks \ {t} :
              /\ pc'[u] = pc[u] /\ temp'[u] = temp[u] /\ at'[u] = at[u]
              /\ todo'[u] = todo[u] /\ listed'[u] = listed[u] /\ past'[u] = past[u]
  <1> USE DEF Goto, Control
  <1>1. CASE Begin(t)
    BY <1>1 DEF Begin
  <1>2. CASE Unpack(t)
    BY <1>2 DEF Unpack, Drop
  <1>3. CASE RunTool(t)
    BY <1>3 DEF RunTool, Drop
  <1>4. CASE Revalidate(t)
    BY <1>4 DEF Revalidate, Drop
  <1>5. CASE Unpacked(t)
    BY <1>5 DEF Unpacked
  <1>6. CASE DetectRoot(t)
    BY <1>6 DEF DetectRoot
  <1>7. CASE \E p \in DOMAIN todo[t] : MoveItem(t, p)
    BY <1>7 DEF MoveItem, Moved
  <1>8. CASE MoveFails(t) \/ AllMoved(t) \/ MarkReadonly(t) \/ List(t)
    BY <1>8 DEF MoveFails, AllMoved, MarkReadonly, List
  <1> QED
    BY <1>1, <1>2, <1>3, <1>4, <1>5, <1>6, <1>7, <1>8 DEF Step

LEMMA TreesStep ==
  ASSUME ToolCoherent, Control, Trees, NEW t \in Tasks, Step(t)
  PROVE  Trees'
  <1> USE DEF Goto
  <1>0. TreeAt(t) /\ arch[t] \in Archive /\ arch' = arch /\ at[t] \in Nat \ {0}
    BY Others DEF Trees, Control
  <1> SUFFICES TreeAt(t)'
    <2>1. ASSUME NEW u \in Tasks \ {t} PROVE TreeAt(u)'
      BY <2>1, Others DEF Trees, TreeAt
    <2> QED
      BY <2>1 DEF Trees
  <1> DEFINE a == arch[t]  n == at[t] - 1
  <1>1. CASE pc'[t] = "failed"
    BY <1>1 DEF TreeAt
  <1>2. CASE Begin(t) /\ pc'[t] # "failed"
    <2>1. pc[t] = "idle" /\ pc'[t] = "unpack" /\ temp' = temp /\ at' = at /\ at[t] = 1
      BY <1>2 DEF Begin, Control
    <2>2. TreeOf(NoTree, a, 0)
      BY <1>0, NothingRead
    <2> QED
      BY <1>0, <2>1, <2>2 DEF TreeAt
  <1>3. CASE (Unpack(t) \/ RunTool(t)) /\ pc'[t] # "failed"
    <2> DEFINE e == Entries[a][at[t]]
    <2>1. /\ pc[t] = "unpack" /\ pc' = pc /\ at'[t] = at[t] + 1 /\ at[t] <= Len(Entries[a])
          /\ \/ temp'[t] = Written(temp[t], e) /\ Fits(temp[t], e) /\ Sound(e)
             \/ temp'[t] = temp[t] /\ ~ (Sound(e) /\ Fits(temp[t], e)) /\ Format[a] = "rar"
      <3>1. CASE Unpack(t)
        BY <1>3, <3>1 DEF Unpack, Drop, ValidEntry, Control
      <3>2. CASE RunTool(t)
        BY <1>3, <3>2 DEF RunTool, Drop, Control
      <3> QED
        BY <1>3, <3>1, <3>2
    <2>2. /\ n \in Nat /\ n + 1 = at[t] /\ at'[t] - 1 = n + 1 /\ n + 1 \in DOMAIN Entries[a]
          /\ TreeOf(temp[t], a, n)
      BY <1>0, <2>1, EntriesOf DEF TreeAt
    <2>3. TreeOf(temp'[t], a, n + 1)
      <3>1. CASE temp'[t] = Written(temp[t], e) /\ Fits(temp[t], e) /\ Sound(e)
        <4>1. n + 1 \in Taken(a)
          BY <2>2, <3>1 DEF Taken
        <4>2. e = Entry(a, n + 1)
          BY <2>2 DEF Entry
        <4> QED
          BY <1>0, <2>2, <3>1, <4>1, <4>2, EntryIsWritten
      <3>2. CASE temp'[t] = temp[t] /\ ~ (Sound(e) /\ Fits(temp[t], e)) /\ Format[a] = "rar"
        <4>1. n + 1 \notin Taken(a)
          <5>1. ASSUME n + 1 \in Taken(a) PROVE FALSE
            <6>1. Fits(temp[t], Entry(a, n + 1))
              BY <1>0, <2>2, <3>2, <5>1, ToolHasRoom DEF ToolCoherent
            <6> QED
              BY <2>2, <3>2, <5>1, <6>1 DEF Entry, Taken
          <5> QED
            BY <5>1
        <4> QED
          BY <1>0, <2>2, <3>2, <4>1, EntryIsSkipped
      <3> QED
        BY <2>1, <3>1, <3>2
    <2>4. TreeOf(temp'[t], arch'[t], at'[t] - 1)
      BY <1>0, <2>2, <2>3
    <2> QED
      BY <2>1, <2>4 DEF TreeAt
  <1>4. CASE Revalidate(t) /\ pc'[t] # "failed"
    <2>1. /\ pc[t] = "revalidate" /\ temp[t].links = {} /\ pc'[t] = "detect"
          /\ temp' = temp /\ at' = at
      BY <1>4 DEF Revalidate, Drop, Control
    <2>2. TreeOf(temp[t], a, n) /\ at[t] > Len(Entries[a]) /\ Format[a] = "rar"
      BY <2>1, <1>0 DEF TreeAt, Control
    <2>3. ASSUME NEW i \in DOMAIN Entries[a], Sound(Entries[a][i]) PROVE ValidEntry(Entries[a][i])
      <3>1. i \in Read(a, n)
        BY <1>0, <2>2, <2>3, EntriesOf DEF Read, Taken
      <3>2. Entry(a, i).kind # "link"
        BY <2>1, <2>2, <3>1 DEF TreeOf
      <3> QED
        BY <2>3, <3>2 DEF ValidEntry, Entry
    <2>4. Vetted(a)
      BY <2>2, <2>3 DEF Vetted
    <2> QED
      BY <1>0, <2>1, <2>2, <2>4 DEF TreeAt
  <1>5. CASE Unpacked(t)
    <2>1. /\ pc[t] = "unpack" /\ at[t] > Len(Entries[a]) /\ temp' = temp /\ at' = at
          /\ pc'[t] = IF Format[a] = "rar" THEN "revalidate" ELSE "detect"
      BY <1>5 DEF Unpacked, Control
    <2>2. Format[a] # "rar" => AllValid(a)
      <3>1. Format[a] \in Inside \/ Format[a] = "rar"
        BY <2>1, ArchiveAssumption DEF Control, Inside
      <3> QED
        BY <2>1, <3>1, EntriesLen
    <2>3. Format[a] # "rar" => Vetted(a)
      BY <1>0, <2>2, EntriesOf DEF Vetted, AllValid
    <2> QED
      BY <1>0, <2>1, <2>3 DEF TreeAt
  <1>6. CASE (DetectRoot(t) \/ MoveFails(t) \/ AllMoved(t) \/ MarkReadonly(t) \/ List(t)) /\ pc'[t] # "failed"
    <2>1. /\ pc[t] \in {"detect", "move", "lock", "list"} /\ pc'[t] \in {"move", "lock", "list", "ok"}
      BY <1>6 DEF DetectRoot, MoveFails, AllMoved, MarkReadonly, List, Control
    <2> QED
      BY <1>0, <2>1 DEF TreeAt
  <1>7. CASE \E p \in DOMAIN todo[t] : MoveItem(t, p)
    <2>1. pc[t] = "move" /\ pc' = pc
      BY <1>7 DEF MoveItem
    <2> QED
      BY <1>0, <2>1 DEF TreeAt
  <1> QED
    BY <1>1, <1>2, <1>3, <1>4, <1>5, <1>6, <1>7 DEF Step

-----------------------------------------------------------------------------
(* Moving.                                                                 *)

LEMMA DetectedIsFull ==
  ASSUME Control, Trees, NEW t \in Tasks, pc[t] = "detect"
  PROVE  arch[t] \in Archive /\ Full(temp[t], arch[t])
  <1>1. /\ arch[t] \in Archive /\ at[t] \in Nat \ {0} /\ at[t] > Len(Entries[arch[t]])
        /\ TreeOf(temp[t], arch[t], at[t] - 1) /\ Vetted(arch[t])
    BY DEF Control, Trees, TreeAt
  <1>2. at[t] - 1 \in Nat /\ at[t] - 1 >= Len(Entries[arch[t]])
    BY <1>1, EntriesOf
  <1> QED
    BY <1>1, <1>2 DEF Full

(* What a task takes out of its tree is the archive's content and          *)
(* directories, the whole content among it.                                *)
LEMMA TakenIsContent ==
  ASSUME NEW a \in Archive, NEW tree, Full(tree, a)
  PROVE  /\ \A p \in DOMAIN ToMove(tree) :
              \/ ToMove(tree)[p] = Dir
              \/ p \in DOMAIN Content[a] /\ ToMove(tree)[p] = Content[a][p]
         /\ \A p \in DOMAIN Content[a] : p \in DOMAIN ToMove(tree) /\ ToMove(tree)[p] # Dir
         /\ (~ \E w \in Top(tree) : IsWrapper(tree, w)) =>
              /\ \A p \in DOMAIN tree.files : p \in DOMAIN Content[a] /\ tree.files[p] = Content[a][p]
              /\ DOMAIN Content[a] \subseteq DOMAIN tree.files
  <1>1. CASE Wraps(a)
    BY <1>1, WrappedContent, WrapperIsFound
  <1>2. CASE ~ Wraps(a)
    <2>1. DOMAIN tree.files \subseteq AllPaths(tree) /\ tree.dirs \cap DOMAIN tree.files = {}
      BY FullTree DEF AllPaths
    <2>2. \A p \in DOMAIN Content[a] : p \in AllPaths(tree) /\ p \notin tree.dirs
      BY <1>2, <2>1, PlainContent
    <2>3. \A p \in DOMAIN ToMove(tree) :
              \/ ToMove(tree)[p] = Dir
              \/ p \in DOMAIN Content[a] /\ ToMove(tree)[p] = Content[a][p]
      BY <1>2, PlainContent
    <2>4. \A p \in DOMAIN Content[a] : p \in DOMAIN ToMove(tree) /\ ToMove(tree)[p] # Dir
      BY <1>2, <2>2, PlainContent
    <2>5. /\ \A p \in DOMAIN tree.files : p \in DOMAIN Content[a] /\ tree.files[p] = Content[a][p]
          /\ DOMAIN Content[a] \subseteq DOMAIN tree.files
      BY <1>2, <2>1, PlainContent
    <2> QED
      BY <2>3, <2>4, <2>5
  <1> QED
    BY <1>1, <1>2

LEMMA ToMoveStep ==
  ASSUME Control, Trees, ToMoveIsContent, NEW t \in Tasks, Step(t)
  PROVE  ToMoveIsContent'
  <1> USE DEF Goto
  <1>0. ToMoveAt(t) /\ arch' = arch
    BY Others DEF ToMoveIsContent
  <1> SUFFICES ToMoveAt(t)'
    <2>1. ASSUME NEW u \in Tasks \ {t} PROVE ToMoveAt(u)'
      BY <2>1, Others DEF ToMoveIsContent, ToMoveAt
    <2> QED
      BY <2>1 DEF ToMoveIsContent
  <1>1. CASE pc'[t] # "move"
    BY <1>1 DEF ToMoveAt
  <1>2. CASE DetectRoot(t) /\ pc'[t] = "move"
    <2>1. pc[t] = "detect" /\ todo'[t] = ToMove(temp[t])
      BY <1>2 DEF DetectRoot, Control
    <2> QED
      BY <1>0, <2>1, DetectedIsFull, TakenIsContent DEF ToMoveAt
  <1>3. ASSUME NEW p \in DOMAIN todo[t], MoveItem(t, p) PROVE ToMoveAt(t)'
    <2>1. pc[t] = "move" /\ todo'[t] = [q \in DOMAIN todo[t] \ {p} |-> todo[t][q]]
      BY <1>3 DEF MoveItem, Moved, Control
    <2> QED
      BY <1>0, <2>1 DEF ToMoveAt
  <1>4. pc'[t] = "move" => DetectRoot(t) \/ \E p \in DOMAIN todo[t] : MoveItem(t, p)
    <2>1. CASE Begin(t) \/ Unpack(t) \/ RunTool(t) \/ Revalidate(t) \/ Unpacked(t)
      BY <2>1 DEF Begin, Unpack, RunTool, Revalidate, Unpacked, Drop, Control
    <2>2. CASE MoveFails(t) \/ AllMoved(t) \/ MarkReadonly(t) \/ List(t)
      BY <2>2 DEF MoveFails, AllMoved, MarkReadonly, List, Control
    <2> QED
      BY <2>1, <2>2 DEF Step
  <1> QED
    BY <1>1, <1>2, <1>3, <1>4

(* How a step changes the files: not at all, by the one rename, one file   *)
(* put, or all of them locked.                                             *)
Renames(t) ==
  /\ root = FALSE /\ pc[t] = "detect" /\ pc'[t] = "lock"
  /\ ~ \E w \in Top(temp[t]) : IsWrapper(temp[t], w)
  /\ files' = [p \in DOMAIN temp[t].files |-> [bytes |-> temp[t].files[p], by |-> t, locked |-> FALSE]]

Puts(t, p) ==
  /\ pc[t] = "move" /\ p \in DOMAIN todo[t] /\ todo[t][p] # Dir
  /\ \/ pc'[t] = "move" /\ Put(t, p, todo[t][p])
        /\ todo'[t] = [q \in DOMAIN todo[t] \ {p} |-> todo[t][q]]
     \/ pc'[t] = "failed" /\ Put(t, p, Torn)

Locks ==
  files' = [p \in DOMAIN files |-> [bytes |-> files[p].bytes, by |-> files[p].by, locked |-> TRUE]]

LEMMA FilesChange ==
  ASSUME Control, Rooted, NEW t \in Tasks, Step(t)
  PROVE  \/ files' = files
         \/ Renames(t)
         \/ \E p \in DOMAIN todo[t] : Puts(t, p)
         \/ Locks /\ pc[t] = "lock" /\ pc'[t] = "list"
  <1> USE DEF Goto, stage
  <1>1. CASE Begin(t) \/ Unpack(t) \/ RunTool(t) \/ Revalidate(t) \/ Unpacked(t) \/ AllMoved(t) \/ List(t)
    BY <1>1 DEF Begin, Unpack, RunTool, Revalidate, Unpacked, AllMoved, List
  <1>2. CASE DetectRoot(t)
    BY <1>2 DEF DetectRoot, Renames, Control
  <1>3. ASSUME NEW p \in DOMAIN todo[t], MoveItem(t, p) PROVE files' = files \/ Puts(t, p)
    BY <1>3 DEF MoveItem, Moved, Puts, Control
  <1>4. CASE MoveFails(t)
    BY <1>4 DEF MoveFails, Puts, Control
  <1>5. CASE MarkReadonly(t)
    BY <1>5 DEF MarkReadonly, Locks, Control
  <1> QED
    BY <1>1, <1>2, <1>3, <1>4, <1>5 DEF Step

(* A task that is over takes no step, and the order of the statements.     *)
LEMMA Forward ==
  ASSUME Control, NEW t \in Tasks, Step(t)
  PROVE  /\ pc[t] \notin {"ok", "failed"}
         /\ pc'[t] \in {"move", "lock", "list", "ok"} => pc[t] \in {"detect", "move", "lock", "list"}
         /\ pc'[t] = "ok" => pc[t] = "list" /\ listed'[t] = DOMAIN files /\ files' = files
         /\ pc[t] # "idle" => past'[t] = past[t]
         /\ pc[t] = "idle" => past'[t] = {u \in Tasks : pc[u] \in {"ok", "failed"}}
  <1> USE DEF Goto, Control, stage
  <1>1. CASE Begin(t)
    BY <1>1 DEF Begin
  <1>2. CASE Unpack(t) \/ RunTool(t) \/ Revalidate(t) \/ Unpacked(t)
    BY <1>2 DEF Unpack, RunTool, Revalidate, Unpacked, Drop
  <1>3. CASE DetectRoot(t) \/ \E p \in DOMAIN todo[t] : MoveItem(t, p)
    BY <1>3 DEF DetectRoot, MoveItem
  <1>4. CASE MoveFails(t) \/ AllMoved(t) \/ MarkReadonly(t)
    BY <1>4 DEF MoveFails, AllMoved, MarkReadonly
  <1>5. CASE List(t)
    BY <1>5 DEF List
  <1> QED
    BY <1>1, <1>2, <1>3, <1>4, <1>5 DEF Step

LEMMA OverStep ==
  ASSUME Control, Over, NEW t \in Tasks, Step(t)
  PROVE  Over'
  <1>1. {u \in Tasks : pc[u] \in {"ok", "failed"}} \subseteq {u \in Tasks : pc'[u] \in {"ok", "failed"}}
    BY Others, Forward
  <1>2. \A u \in Tasks : past'[u] = past[u] \/ past'[u] = {v \in Tasks : pc[v] \in {"ok", "failed"}}
    BY Others, Forward
  <1> QED
    BY <1>1, <1>2 DEF Over

LEMMA RootedStep ==
  ASSUME Control, Rooted, NEW t \in Tasks, Step(t)
  PROVE  Rooted'
  <1> SUFFICES ASSUME root' = FALSE
               PROVE  files' = <<>> /\ \A u \in Tasks : pc'[u] \notin {"move", "lock", "list", "ok"}
    BY DEF Rooted
  <1>1. ~ DetectRoot(t)
    BY DEF DetectRoot
  <1>2. root' = root
    BY <1>1 DEF Step, Begin, Unpack, RunTool, Revalidate, Unpacked, MoveFails, AllMoved, MarkReadonly,
                List, MoveItem, stage
  <1>3. files = <<>> /\ \A u \in Tasks : pc[u] \notin {"move", "lock", "list", "ok"}
    BY <1>2 DEF Rooted
  <1>4. pc'[t] \notin {"move", "lock", "list", "ok"}
    <2>1. pc[t] # "detect" \/ pc'[t] \notin {"move", "lock", "list", "ok"}
      BY <1>1, <1>3 DEF Step, Begin, Unpack, RunTool, Revalidate, Unpacked, MoveFails, AllMoved,
                  MarkReadonly, List, MoveItem
    <2> QED
      BY <1>3, <2>1, Forward
  <1>5. files' = files
    BY <1>1, <1>3 DEF Step, Begin, Unpack, RunTool, Revalidate, Unpacked, MoveFails, AllMoved,
                MarkReadonly, List, MoveItem, stage
  <1> QED
    BY <1>3, <1>4, <1>5, Others

(* A file in the root has content of a vetted archive.                     *)
Genuine(p) ==
  /\ Vetted(arch[files[p].by]) /\ p \in DOMAIN Content[arch[files[p].by]]
  /\ \/ files[p].bytes = Content[arch[files[p].by]][p]
     \/ files[p].bytes = Torn /\ pc[files[p].by] = "failed"

LEMMA ContentStep ==
  ASSUME Control, Owned, Trees, ToMoveIsContent, Rooted, OnlyVettedContent, NEW t \in Tasks, Step(t)
  PROVE  OnlyVettedContent'
  <1>a. OnlyVettedContent <=> \A p \in DOMAIN files : Genuine(p)
    BY DEF OnlyVettedContent, Genuine
  <1>b. OnlyVettedContent' <=> \A p \in DOMAIN files' : Genuine(p)'
    BY DEF OnlyVettedContent, Genuine
  <1>0. arch' = arch /\ \A u \in Tasks : pc[u] = "failed" => pc'[u] = "failed"
    BY Others, Forward
  <1>1. ASSUME NEW p \in DOMAIN files, files'[p].by = files[p].by, files'[p].bytes = files[p].bytes
        PROVE  Genuine(p)'
    <2>1. Genuine(p) /\ files[p].by \in Tasks
      BY <1>a DEF Owned, IsOwned
    <2> QED
      BY <1>0, <1>1, <2>1 DEF Genuine
  <1>2. CASE files' = files
    BY <1>1, <1>2, <1>b
  <1>3. CASE Locks
    <2>1. \A p \in DOMAIN files : files'[p].by = files[p].by /\ files'[p].bytes = files[p].bytes
      BY <1>3 DEF Locks
    <2> QED
      BY <1>1, <1>3, <1>b, <2>1 DEF Locks
  <1>4. CASE Renames(t)
    <2> DEFINE a == arch[t]
    <2>1. a \in Archive /\ Full(temp[t], a)
      BY <1>4, DetectedIsFull DEF Renames
    <2>2. \A p \in DOMAIN temp[t].files : p \in DOMAIN Content[a] /\ temp[t].files[p] = Content[a][p]
      BY <1>4, <2>1, TakenIsContent DEF Renames
    <2>3. Vetted(a)
      BY <2>1 DEF Full
    <2>4. DOMAIN files' = DOMAIN temp[t].files
          /\ \A p \in DOMAIN files' : files'[p].bytes = temp[t].files[p] /\ files'[p].by = t
      BY <1>4 DEF Renames
    <2> QED
      BY <1>0, <1>b, <2>2, <2>3, <2>4 DEF Genuine
  <1>5. ASSUME NEW q \in DOMAIN todo[t], Puts(t, q) PROVE OnlyVettedContent'
    <2> DEFINE a == arch[t]
    <2>1. /\ q \in DOMAIN Content[a] /\ todo[t][q] = Content[a][q] /\ Vetted(a)
      BY <1>5 DEF Puts, ToMoveIsContent, ToMoveAt, Trees, TreeAt
    <2>2. PICK b : Put(t, q, b) /\ (b = todo[t][q] \/ (b = Torn /\ pc'[t] = "failed"))
      BY <1>5 DEF Puts
    <2>3. /\ DOMAIN files' = DOMAIN files \cup {q}
          /\ files'[q] = [bytes |-> b, by |-> t, locked |-> FALSE]
          /\ \A p \in DOMAIN files : p # q => files'[p] = files[p]
      BY <2>2 DEF Put, Updated
    <2>4. files'[q].bytes = b /\ files'[q].by = t
      BY <2>3
    <2>5. Genuine(q)'
      BY <1>0, <2>1, <2>2, <2>4 DEF Genuine
    <2>6. \A p \in DOMAIN files : p # q => Genuine(p)'
      BY <1>1, <2>3
    <2> QED
      BY <1>b, <2>3, <2>5, <2>6
  <1> QED
    BY <1>2, <1>3, <1>4, <1>5, FilesChange

LEMMA CompleteStep ==
  ASSUME Control, Owned, Trees, Rooted, Over, Complete, NEW t \in Tasks, Step(t)
  PROVE  Complete'
  <1>0. arch' = arch /\ CompleteAt(t)
    BY Others DEF Complete
  <1> DEFINE Moved1(u, p) == pc[u] = "move" /\ p \in DOMAIN todo[u] /\ todo[u][p] # Dir
             There(u, p) == p \in DOMAIN files /\ files[p].by \notin past[u]
  <1>1. ASSUME NEW u \in Tasks, u # t, pc[u] \in {"move", "lock", "list", "ok"}, NEW p, There(u, p)
        PROVE  There(u, p)'
    <2>0. past'[u] = past[u]
      BY <1>1, Others
    <2>1. CASE files' = files
      BY <1>1, <2>0, <2>1
    <2>2. CASE Renames(t)
      BY <1>1, <2>2 DEF Renames, Rooted
    <2>3. CASE Locks
      <3>1. p \in DOMAIN files' /\ files'[p].by = files[p].by
        BY <1>1, <2>3 DEF Locks
      <3> QED
        BY <1>1, <2>0, <3>1
    <2>4. ASSUME NEW q \in DOMAIN todo[t], Puts(t, q) PROVE There(u, p)'
      <3>1. PICK b : Put(t, q, b)
        BY <2>4 DEF Puts
      <3>2. /\ DOMAIN files' = DOMAIN files \cup {q} /\ files'[q].by = t
            /\ p # q => files'[p] = files[p]
        BY <1>1, <3>1 DEF Put, Updated
      <3>3. t \notin past[u]
        BY <2>4 DEF Over, Puts
      <3> QED
        BY <1>1, <2>0, <3>2, <3>3
    <2> QED
      BY <2>1, <2>2, <2>3, <2>4, FilesChange
  <1>2. ASSUME NEW u \in Tasks, u # t PROVE CompleteAt(u)'
    <2>1. pc'[u] = pc[u] /\ todo'[u] = todo[u] /\ listed'[u] = listed[u]
      BY <1>2, Others
    <2>2. CompleteAt(u)
      BY DEF Complete
    <2>3. ASSUME pc[u] \in {"move", "lock", "list", "ok"}, NEW p \in DOMAIN Content[arch[u]]
          PROVE  (Moved1(u, p) \/ There(u, p))'
      <3>1. Moved1(u, p) \/ There(u, p)
        BY <2>2, <2>3 DEF CompleteAt
      <3>2. Moved1(u, p) => Moved1(u, p)'
        BY <2>1
      <3> QED
        BY <1>1, <1>2, <2>3, <3>1, <3>2
    <2> QED
      BY <1>0, <2>1, <2>2, <2>3 DEF CompleteAt
  <1> DEFINE a == arch[t]
  <1>3. ASSUME pc[t] \in {"move", "lock", "list"}, NEW p, There(t, p) PROVE There(t, p)'
    <2>0. past'[t] = past[t] /\ t \notin past[t]
      BY <1>3, Forward DEF Over
    <2>1. CASE files' = files
      BY <1>3, <2>0, <2>1
    <2>2. CASE Locks
      <3>1. p \in DOMAIN files' /\ files'[p].by = files[p].by
        BY <1>3, <2>2 DEF Locks
      <3> QED
        BY <1>3, <2>0, <3>1
    <2>3. ASSUME NEW q \in DOMAIN todo[t], Puts(t, q) PROVE There(t, p)'
      <3>1. PICK b : Put(t, q, b)
        BY <2>3 DEF Puts
      <3>2. /\ DOMAIN files' = DOMAIN files \cup {q} /\ files'[q].by = t
            /\ p # q => files'[p] = files[p]
        BY <1>3, <3>1 DEF Put, Updated
      <3> QED
        BY <1>3, <2>0, <3>2
    <2> QED
      BY <1>3, <2>1, <2>2, <2>3, FilesChange DEF Renames
  <1>4. ASSUME pc'[t] \in {"move", "lock", "list", "ok"}, NEW p \in DOMAIN Content[a]
        PROVE  (Moved1(t, p) \/ There(t, p))'
    <2>0. pc[t] \in {"detect", "move", "lock", "list"} /\ past'[t] = past[t] /\ t \notin past[t]
      BY <1>4, Forward DEF Over
    <2>1. CASE pc[t] = "detect"
      <3>1. a \in Archive /\ Full(temp[t], a)
        BY <2>1, DetectedIsFull
      <3>2. p \in DOMAIN ToMove(temp[t]) /\ ToMove(temp[t])[p] # Dir
        BY <1>4, <3>1, TakenIsContent
      <3>3. Renames(t) \/ (pc'[t] = "move" /\ todo'[t] = ToMove(temp[t]))
        BY <2>1 DEF Step, Begin, Unpack, RunTool, Revalidate, Unpacked, DetectRoot, MoveFails, AllMoved,
                    MarkReadonly, List, MoveItem, Goto, Renames, Control, Rooted
      <3>4. CASE Renames(t)
        <4>1. p \in DOMAIN temp[t].files
          BY <1>4, <3>1, <3>4, TakenIsContent DEF Renames
        <4>2. p \in DOMAIN files' /\ files'[p].by = t
          BY <3>4, <4>1 DEF Renames
        <4> QED
          BY <2>0, <4>2
      <3> QED
        BY <3>2, <3>3, <3>4
    <2>2. CASE pc[t] \in {"move", "lock", "list"} /\ There(t, p)
      BY <1>3, <2>2
    <2>3. CASE Moved1(t, p)
      <3>1. CASE AllMoved(t)
        BY <2>3, <3>1 DEF AllMoved, NoFiles
      <3>2. ASSUME NEW q \in DOMAIN todo[t], MoveItem(t, q)
            PROVE  (Moved1(t, p) \/ There(t, p))'
        <4>1. pc' = pc /\ todo'[t] = [r \in DOMAIN todo[t] \ {q} |-> todo[t][r]]
          BY <3>2 DEF MoveItem, Moved, Control
        <4>2. CASE p # q
          BY <2>3, <4>1, <4>2
        <4>3. CASE p = q
          <5>1. Put(t, p, todo[t][p])
            BY <2>3, <3>2, <4>3 DEF MoveItem
          <5>2. p \in DOMAIN files' /\ files'[p].by = t
            BY <5>1 DEF Put, Updated
          <5> QED
            BY <2>0, <5>2
        <4> QED
          BY <4>2, <4>3
      <3>3. AllMoved(t) \/ \E q \in DOMAIN todo[t] : MoveItem(t, q)
        BY <1>4, <2>3 DEF Step, Begin, Unpack, RunTool, Revalidate, Unpacked, DetectRoot, MoveFails,
                          MarkReadonly, List, Goto, Control
      <3> QED
        BY <3>1, <3>2, <3>3
    <2>4. pc[t] # "detect" => Moved1(t, p) \/ There(t, p)
      BY <1>0, <1>4, <2>0 DEF CompleteAt
    <2> QED
      BY <2>0, <2>1, <2>2, <2>3, <2>4
  <1>5. pc'[t] = "ok" => DOMAIN Content[a] \subseteq listed'[t]
    <2>1. SUFFICES ASSUME pc'[t] = "ok", NEW p \in DOMAIN Content[a] PROVE p \in listed'[t]
      OBVIOUS
    <2>2. pc[t] = "list" /\ listed'[t] = DOMAIN files
      BY <2>1, Forward
    <2> QED
      BY <1>0, <2>1, <2>2 DEF CompleteAt
  <1>6. CompleteAt(t)'
    BY <1>0, <1>4, <1>5 DEF CompleteAt
  <1> QED
    BY <1>2, <1>6 DEF Complete

LEMMA StagingInit == Init => StagingInv
  <1> SUFFICES ASSUME Init PROVE StagingInv
    OBVIOUS
  <1>1. \A t \in Tasks : pc[t] = "idle" /\ temp[t] = NoTree /\ past[t] = {}
    BY DEF Init
  <1>2. files = <<>> /\ DOMAIN files = {}
    BY DEF Init, NoFiles
  <1> QED
    BY <1>1, <1>2, ControlInit
    DEF StagingInv, Trees, TreeAt, ToMoveIsContent, ToMoveAt, OnlyVettedContent, Rooted, Over,
        Complete, CompleteAt

LEMMA StagingStep == ToolCoherent /\ StagingInv /\ [Next]_vars => StagingInv'
  <1> SUFFICES ASSUME ToolCoherent, StagingInv, [Next]_vars PROVE StagingInv'
    OBVIOUS
  <1>1. Control' /\ Owned'
    BY ControlStep, OwnedStep DEF StagingInv
  <1>2. ASSUME NEW t \in Tasks, Step(t) PROVE StagingInv'
    BY <1>1, <1>2, TreesStep, ToMoveStep, ContentStep, RootedStep, OverStep, CompleteStep DEF StagingInv
  <1>3. CASE UNCHANGED vars
    BY <1>1, <1>3
    DEF vars, stage, StagingInv, Trees, TreeAt, ToMoveIsContent, ToMoveAt, OnlyVettedContent, Rooted,
        Over, Complete, CompleteAt
  <1> QED
    BY <1>2, <1>3 DEF Next

LEMMA AlwaysStaged == ASSUME ToolCoherent PROVE Spec => []StagingInv
  <1>1. StagingInv /\ [Next]_vars => StagingInv'
    BY StagingStep
  <1> QED
    BY <1>1, StagingInit, PTL DEF Spec

(* Every file in the staging root comes from an archive all of whose       *)
(* entries were in order, lies where that archive's content belongs and    *)
(* has its bytes, unless the install that put it there failed: for any     *)
(* number of installs in one root at once.                                 *)
THEOREM RootHoldsVettedContent == ASSUME ToolCoherent PROVE Spec => []OnlyVettedContent
  <1>1. StagingInv => OnlyVettedContent
    BY DEF StagingInv
  <1> QED
    BY <1>1, AlwaysStaged, PTL

(* An install that returned has all of its archive's content in the root   *)
(* and in its list, none of it the remains of an install that was over     *)
(* before it began.                                                        *)
THEOREM ReturnedIsComplete == ASSUME ToolCoherent PROVE Spec => []OkIsComplete
  <1>1. StagingInv => OkIsComplete
    BY DEF StagingInv, Complete, CompleteAt, OkIsComplete
  <1> QED
    BY <1>1, AlwaysStaged, PTL
=============================================================================
