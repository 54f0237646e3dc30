---------------------------- MODULE ArchiveStaging ----------------------------
(* The extract crate: an archive is unpacked entry by entry into a temporary *)
(* directory of its own, every entry checked; when the whole archive has     *)
(* passed, its tree, or the game content inside its one wrapper folder, is   *)
(* moved into the staging root, locked and listed (staging.rs, validate.rs,  *)
(* zip.rs, sevenz.rs, rar.rs).                                               *)
(*                                                                           *)
(* A task is one call of install_archive.  Nothing serialises the calls: two *)
(* of them may share a root (a display name), one after the other or at once.*)
(* A path is a sequence of components; the bytes of a file are opaque.       *)
EXTENDS Naturals, Sequences, FiniteSets, SequencesExt

CONSTANTS
  Tasks,
  Archive, Format, Entries,  \* [Archive -> ...]; an entry is [name, kind, bytes]
  Recognized,                \* names of game folders, in any letter case
  Torn                       \* the bytes of a copy that was cut short

VARIABLES
  pc, arch,    \* where each task stands, and the archive it installs
  at,          \* the entry it unpacks next
  temp,        \* its temporary tree: [files, dirs, links]
  todo,        \* what it still has to move: path -> bytes, or Dir
  root,        \* is the staging root there?
  dirs, files, \* the directories and files in it: path -> [bytes, by, locked]
  listed,      \* the files a StagedMod returned names
  past         \* history: the tasks that were over when a task began

stage == <<root, dirs, files>>
vars  == <<pc, arch, at, temp, todo, stage, listed, past>>

Dir      == "a directory"

ASSUME ArchiveAssumption ==
  /\ Format \in [Archive -> {"zip", "7z", "rar", "other"}]
  /\ \A a \in Archive :
       /\ Entries[a] \in Seq(ToSet(Entries[a]))
       /\ \A i \in DOMAIN Entries[a] : LET e == Entries[a][i] IN
            /\ e.kind \in {"file", "dir", "link"} /\ e.bytes \notin {Torn, Dir}
            /\ e.name \in Seq(ToSet(e.name))
            /\ Format[a] = "7z" => e.kind # "link"

NoFiles  == <<>>
NoTree   == [files |-> NoFiles, dirs |-> {}, links |-> {}]

Init ==
  /\ pc = [t \in Tasks |-> "idle"] /\ arch \in [Tasks -> Archive]
  /\ at = [t \in Tasks |-> 1] /\ temp = [t \in Tasks |-> NoTree]
  /\ todo = [t \in Tasks |-> NoFiles]
  /\ root = FALSE /\ dirs = {} /\ files = NoFiles
  /\ listed = [t \in Tasks |-> {}] /\ past = [t \in Tasks |-> {}]

-----------------------------------------------------------------------------
\* Paths and trees.

Above(p) == {SubSeq(p, 1, n) : n \in 1 .. Len(p) - 1}   \* its ancestors

\* create_dir_all: no component may be a file.
CanHold(fs, ds) == ds \cap DOMAIN fs = {}

Updated(f, p, x) == [q \in DOMAIN f \cup {p} |-> IF q = p THEN x ELSE f[q]]

-----------------------------------------------------------------------------
\* Unpacking.

\* safe_relative: "." is dropped, a root and ".." are refused.
Unsafe(name) == \E i \in DOMAIN name : name[i] \in {"/", ".."}
SafeRelative(name) ==
  LET kept   == {i \in DOMAIN name : name[i] # "."}
      At(k)  == CHOOSE i \in kept : Cardinality({j \in kept : j <= i}) = k
  IN [k \in 1 .. Cardinality(kept) |-> name[At(k)]]

\* A name that stands for a path below the directory it is unpacked into.
Sound(e) == ~Unsafe(e.name) /\ (e.kind # "dir" => SafeRelative(e.name) # <<>>)

\* validate_entry; an entry of a directory is checked as the parent of a probe.
ValidEntry(e) == e.kind # "link" /\ Sound(e)

\* The directories an entry asks for.
Folders(e) ==
  LET p == SafeRelative(e.name)
  IN Above(p) \cup IF e.kind = "dir" THEN {p} \ {<<>>} ELSE {}

\* The tree with one more entry, where the tree can take it.
Fits(tree, e) ==
  /\ CanHold(tree.files, Folders(e))
  /\ e.kind # "dir" => SafeRelative(e.name) \notin tree.dirs

Written(tree, e) ==
  LET p == SafeRelative(e.name) IN
  [files |-> IF e.kind = "file" THEN Updated(tree.files, p, e.bytes) ELSE tree.files,
   dirs  |-> tree.dirs \cup Folders(e),
   links |-> IF e.kind = "link" THEN tree.links \cup {p} ELSE tree.links]

Goto(t, label) == pc' = [pc EXCEPT ![t] = label]

\* install_archive is called; the format is told by the archive's first bytes.
Begin(t) ==
  /\ pc[t] = "idle"
  /\ Goto(t, IF Format[arch[t]] = "other" THEN "failed" ELSE "unpack")
  /\ past' = [past EXCEPT ![t] = {u \in Tasks : pc[u] \in {"ok", "failed"}}]
  /\ UNCHANGED <<arch, at, temp, todo, stage, listed>>

\* The temporary directory goes with everything in it.
Drop(t) == Goto(t, "failed") /\ temp' = [temp EXCEPT ![t] = NoTree]

\* MUTANT of Unpack: an entry that is refused is left out.
UnpackRest(t) ==
  /\ pc[t] = "unpack" /\ Format[arch[t]] \in {"zip", "7z"} /\ at[t] <= Len(Entries[arch[t]])
  /\ LET e == Entries[arch[t]][at[t]] IN
     /\ temp' = [temp EXCEPT ![t] = IF ValidEntry(e) /\ Fits(@, e) THEN Written(@, e) ELSE @]
     /\ at' = [at EXCEPT ![t] = @ + 1] /\ UNCHANGED pc
  /\ UNCHANGED <<arch, todo, stage, listed, past>>

\* extract_zip, extract_7z: the first entry that is refused, cannot be decoded
\* or cannot be written ends it.
Unpack(t) ==
  /\ pc[t] = "unpack" /\ Format[arch[t]] \in {"zip", "7z"} /\ at[t] <= Len(Entries[arch[t]])
  /\ LET e == Entries[arch[t]][at[t]] IN
     \/ /\ ValidEntry(e) /\ Fits(temp[t], e)
        /\ temp' = [temp EXCEPT ![t] = Written(@, e)]
        /\ at' = [at EXCEPT ![t] = @ + 1] /\ UNCHANGED pc
     \/ Drop(t) /\ UNCHANGED at
  /\ UNCHANGED <<arch, todo, stage, listed, past>>

\* run_tool: unrar or 7z writes what it can of the archive before anybody has
\* looked at it, or reports an error.
RunTool(t) ==
  /\ pc[t] = "unpack" /\ Format[arch[t]] = "rar" /\ at[t] <= Len(Entries[arch[t]])
  /\ LET e == Entries[arch[t]][at[t]] IN
     \/ /\ temp' = [temp EXCEPT ![t] = IF Sound(e) /\ Fits(@, e) THEN Written(@, e) ELSE @]
        /\ at' = [at EXCEPT ![t] = @ + 1] /\ UNCHANGED pc
     \/ Drop(t) /\ UNCHANGED at
  /\ UNCHANGED <<arch, todo, stage, listed, past>>

\* revalidate_tree: a link anywhere in its output refuses the archive.
Revalidate(t) ==
  /\ pc[t] = "revalidate"
  /\ IF temp[t].links = {} THEN Goto(t, "detect") /\ UNCHANGED temp ELSE Drop(t)
  /\ UNCHANGED <<arch, at, todo, stage, listed, past>>

Unpacked(t) ==
  /\ pc[t] = "unpack" /\ at[t] > Len(Entries[arch[t]])
  /\ Goto(t, IF Format[arch[t]] = "rar" THEN "revalidate" ELSE "detect")
  /\ UNCHANGED <<arch, at, temp, todo, stage, listed, past>>

-----------------------------------------------------------------------------
\* Moving.

AllPaths(tree) == DOMAIN tree.files \cup tree.dirs
Top(tree)      == {p[1] : p \in AllPaths(tree)}

\* recognized_root_children: what of a folder is game content.
GameContent(tree, w) == {p[2] : p \in {q \in AllPaths(tree) : Len(q) > 1 /\ q[1] = w}} \cap Recognized

\* detect_archive_root: exactly one folder at the top, which is no game folder
\* but has some in it.
IsWrapper(tree, w) ==
  /\ Top(tree) = {w} /\ <<w>> \in tree.dirs /\ w \notin Recognized
  /\ GameContent(tree, w) # {}

\* What move_into_staging takes, by its path in the staging root.
ToMove(tree) ==
  LET Item(p) == IF p \in tree.dirs THEN Dir ELSE tree.files[p] IN
  IF \E w \in Top(tree) : IsWrapper(tree, w)
  THEN LET w == CHOOSE w \in Top(tree) : TRUE
           kept == {q \in AllPaths(tree) : Len(q) > 1 /\ q[2] \in GameContent(tree, w)}
       IN [p \in {Tail(q) : q \in kept} |-> Item(<<w>> \o p)]
  ELSE [p \in AllPaths(tree) |-> Item(p)]

\* The whole tree becomes the staging root by one rename, if it is not there
\* and has no wrapper; otherwise the root is made and filled.
DetectRoot(t) ==
  /\ pc[t] = "detect" /\ root' = TRUE
  /\ LET new == ToMove(temp[t]) IN
     \/ /\ ~root /\ ~ \E w \in Top(temp[t]) : IsWrapper(temp[t], w)
        /\ dirs' = temp[t].dirs
        /\ files' = [p \in DOMAIN temp[t].files |->
                       [bytes |-> temp[t].files[p], by |-> t, locked |-> FALSE]]
        /\ Goto(t, "lock") /\ UNCHANGED todo
     \/ /\ todo' = [todo EXCEPT ![t] = new]
        /\ Goto(t, "move") /\ UNCHANGED <<dirs, files>>
  /\ temp' = [temp EXCEPT ![t] = NoTree]
  /\ UNCHANGED <<arch, at, listed, past>>

Put(t, p, bytes) == files' = Updated(files, p, [bytes |-> bytes, by |-> t, locked |-> FALSE])

Moved(t, S) == todo' = [todo EXCEPT ![t] = [p \in DOMAIN @ \ S |-> @[p]]]

\* MUTANT of MoveItem: a file that is there already is kept.
MoveItemUnlessThere(t, p) ==
  /\ pc[t] = "move" /\ p \in DOMAIN todo[t]
  /\ CanHold(files, Above(p)) /\ Moved(t, {p})
  /\ IF todo[t][p] = Dir
     THEN p \notin DOMAIN files /\ dirs' = dirs \cup Above(p) \cup {p} /\ UNCHANGED files
     ELSE /\ p \notin dirs /\ dirs' = dirs \cup Above(p)
          /\ IF p \in DOMAIN files THEN UNCHANGED files ELSE Put(t, p, todo[t][p])
  /\ UNCHANGED <<pc, arch, at, temp, root, listed, past>>

\* recursive_move, move_path: a directory is made where there is none, a file
\* renamed (or copied) over the one that is there.  Both in any order.
MoveItem(t, p) ==
  /\ pc[t] = "move" /\ p \in DOMAIN todo[t]
  /\ CanHold(files, Above(p)) /\ Moved(t, {p})
  /\ IF todo[t][p] = Dir
     THEN p \notin DOMAIN files /\ dirs' = dirs \cup Above(p) \cup {p} /\ UNCHANGED files
     ELSE p \notin dirs /\ dirs' = dirs \cup Above(p) /\ Put(t, p, todo[t][p])
  /\ UNCHANGED <<pc, arch, at, temp, root, listed, past>>

\* The move ends early, between two items or in the copy of one.
MoveFails(t) ==
  /\ pc[t] = "move" /\ Goto(t, "failed")
  /\ \/ UNCHANGED <<dirs, files>>
     \/ \E p \in DOMAIN todo[t] :
          /\ todo[t][p] # Dir /\ CanHold(files, Above(p)) /\ p \notin dirs
          /\ dirs' = dirs \cup Above(p) /\ Put(t, p, Torn)
  /\ UNCHANGED <<arch, at, temp, todo, root, listed, past>>

AllMoved(t) ==
  /\ pc[t] = "move" /\ todo[t] = NoFiles /\ Goto(t, "lock")
  /\ UNCHANGED <<arch, at, temp, todo, stage, listed, past>>

\* MUTANT of MarkReadonly: the files are listed and locked by the next install.
MarkNothing(t) ==
  /\ pc[t] = "lock" /\ Goto(t, "list")
  /\ UNCHANGED <<arch, at, temp, todo, stage, listed, past>>

\* mark_tree_readonly: every file of the root, whoever put it there.
MarkReadonly(t) ==
  /\ pc[t] = "lock"
  /\ \/ /\ files' = [p \in DOMAIN files |->
                       [bytes |-> files[p].bytes, by |-> files[p].by, locked |-> TRUE]]
        /\ Goto(t, "list")
     \/ Goto(t, "failed") /\ UNCHANGED files
  /\ UNCHANGED <<arch, at, temp, todo, root, dirs, listed, past>>

\* list_files_rel: every file of the root is returned as the mod's, or a folder
\* cannot be read and the install ends there, its files in the root.
List(t) ==
  /\ pc[t] = "list"
  /\ \/ Goto(t, "ok") /\ listed' = [listed EXCEPT ![t] = DOMAIN files]
     \/ Goto(t, "failed") /\ UNCHANGED listed
  /\ UNCHANGED <<arch, at, temp, todo, stage, past>>

Step(t) ==
  \/ Begin(t) \/ Unpack(t) \/ RunTool(t) \/ Revalidate(t) \/ Unpacked(t) \/ DetectRoot(t)
  \/ MoveFails(t) \/ AllMoved(t) \/ MarkReadonly(t) \/ List(t)
  \/ \E p \in DOMAIN todo[t] : MoveItem(t, p)

Next == \E t \in Tasks : Step(t)

Spec == Init /\ [][Next]_vars

-----------------------------------------------------------------------------
\* What an archive is meant to hold, read off its entries at once: the last
\* file of a path, and of a lone wrapper folder the game folders alone.  A name
\* that stands for no path below the root counts for nothing.
Path(a, i) == SafeRelative(Entries[a][i].name)
Taken(a)   == {i \in DOMAIN Entries[a] : Sound(Entries[a][i])}
LastFiles(a) == {i \in Taken(a) : /\ Entries[a][i].kind = "file"
                                  /\ \A j \in Taken(a) : Entries[a][j].kind = "file" /\ j > i
                                       => Path(a, j) # Path(a, i)}

Nth(a, k)  == {Path(a, i)[k] : i \in {j \in Taken(a) : Len(Path(a, j)) >= k}}
Wraps(a)   == /\ \E w \in Nth(a, 1) \ Recognized : Nth(a, 1) = {w}
              /\ Nth(a, 2) \cap Recognized # {}

Kept(a)    == {i \in LastFiles(a) : Wraps(a) => Len(Path(a, i)) > 1 /\ Path(a, i)[2] \in Recognized}
Place(a, i) == IF Wraps(a) THEN Tail(Path(a, i)) ELSE Path(a, i)

Content == [a \in Archive |->
  [p \in {Place(a, i) : i \in Kept(a)} |->
     Entries[a][CHOOSE i \in Kept(a) : Place(a, i) = p].bytes]]

\* No entry is refused; the names the tool passes over are none.
Vetted(a) == \A i \in DOMAIN Entries[a] : LET e == Entries[a][i] IN
               ValidEntry(e) \/ (Format[a] = "rar" /\ ~Sound(e))

\* Every file in the staging root came from an archive all of whose entries
\* were in order, lies where that archive's content belongs and has the bytes
\* the archive gives it; only an install that failed may leave one torn
\* (staging.rs: "only moves the finished tree into staging_root once the WHOLE
\* archive has validated", and non-game siblings of a wrapper are excluded).
OnlyVettedContent ==
  \A p \in DOMAIN files : LET f == files[p]  a == arch[f.by] IN
    /\ Vetted(a) /\ p \in DOMAIN Content[a]
    /\ f.bytes = Content[a][p] \/ (f.bytes = Torn /\ pc[f.by] = "failed")

\* An install that returned has every file of its archive in the root and in
\* the list it returned; none of them is what an earlier, over, install left
\* there: so a retry replaces what the failed attempt had torn.
OkIsComplete ==
  \A t \in Tasks : pc[t] = "ok" =>
    \A p \in DOMAIN Content[arch[t]] :
      /\ p \in DOMAIN files /\ p \in listed[t]
      /\ files[p].by \notin past[t]

\* A file put there by an install that returned is read-only, whatever the
\* installs beside it did to the root: a hard link deployed from it cannot
\* change it (lib.rs mark_tree_readonly).
LockedDown == \A p \in DOMAIN files : pc[files[p].by] = "ok" => files[p].locked
===============================================================================
