------------------------------ MODULE IniMerge ------------------------------
(***************************************************************************)
(* The surgical editor of StarfieldCustom.ini: the `editor` module of      *)
(* crates/deploy/src/gameconfig.rs.                                        *)
(*                                                                         *)
(* A file is NoFile, Utf16 (a byte-order mark the editor refuses) or a     *)
(* sequence of lines. A line is what the editor can tell apart: a section  *)
(* header, one of the two owned keys in NexTwist's own spelling or in      *)
(* another, or text. Bytes outside the lines it touches are never looked   *)
(* at, so byte-order marks, line ends and wording are left out.            *)
(***************************************************************************)
EXTENDS Integers, Sequences, FiniteSetsExt

CONSTANTS NoFile, Utf16

\* bInvalidateOlderFiles as NexTwist spells it, and with any other value.
InvalidateLine == {"inv", "inv_other"}

\* sResourceDataDirsFinal: NexTwist's empty value, an empty value that is
\* spelt otherwise, the user's own directories.
DirsLine == {"dirs", "dirs_blank", "dirs_user"}

Section == {"[Archive]", "[Other]"}
Line    == Section \cup InvalidateLine \cup DirsLine \cup {"text"}

ASSUME NotLines == NoFile \notin Seq(Line) /\ Utf16 \notin Seq(Line) /\ NoFile # Utf16

\* The block NexTwist appends to a file without [Archive].
Block == <<"[Archive]", "inv", "dirs">>

IsLines(file) == file \notin {NoFile, Utf16}

\* The first position of a line of `kinds` in from .. to; 0 if there is none.
FirstIn(lines, from, to, kinds) ==
  LET hits == {i \in from .. to : lines[i] \in kinds}
  IN  IF hits = {} THEN 0 ELSE Min(hits)

Header(lines) == FirstIn(lines, 1, Len(lines), {"[Archive]"})

\* The last line of the [Archive] section.
SectionEnd(lines) ==
  LET next == FirstIn(lines, Header(lines) + 1, Len(lines), Section)
  IN  IF next = 0 THEN Len(lines) ELSE next - 1

OwnedAt(lines, kinds) ==
  FirstIn(lines, Header(lines) + 1, SectionEnd(lines), kinds)

\* detect_conflict: the value in force is a user's own, and not empty.
HasConflict(file) ==
  /\ IsLines(file)
  /\ Header(file) # 0
  /\ OwnedAt(file, DirsLine) # 0
  /\ file[OwnedAt(file, DirsLine)] = "dirs_user"

\* MUTANT of MergeInto: a missing key is appended to the file's last line.
MergeIntoAtEnd(lines) ==
  LET i == OwnedAt(lines, InvalidateLine)
      d == OwnedAt(lines, DirsLine)
  IN  [k \in DOMAIN lines |-> IF k = i THEN "inv" ELSE IF k = d THEN "dirs" ELSE lines[k]]
        \o (IF i = 0 THEN <<"inv">> ELSE << >>) \o (IF d = 0 THEN <<"dirs">> ELSE << >>)

\* merge_body for a file with an [Archive] section: owned keys are updated in
\* place, missing ones are inserted just after the header.
MergeInto(lines) ==
  LET h == Header(lines)
      i == OwnedAt(lines, InvalidateLine)
      d == OwnedAt(lines, DirsLine)
      updated == [k \in DOMAIN lines |->
                    IF k = i THEN "inv" ELSE IF k = d THEN "dirs" ELSE lines[k]]
      missing == (IF i = 0 THEN <<"inv">> ELSE << >>)
                   \o (IF d = 0 THEN <<"dirs">> ELSE << >>)
  IN  SubSeq(updated, 1, h) \o missing \o SubSeq(updated, h + 1, Len(updated))

\* The file plan_merge would write, were there no conflict.
Merged(file) ==
  IF file = NoFile THEN Block
  ELSE IF Header(file) = 0 THEN file \o Block
  ELSE MergeInto(file)

\* MUTANT of Plan: a conflicting value is not looked for.
PlanUnasked(file, resolution) ==
  IF file = Utf16 THEN [kind |-> "unsupported"] ELSE [kind |-> "write", file |-> Merged(file)]

\* plan_merge.
Plan(file, resolution) ==
  IF file = Utf16 THEN [kind |-> "unsupported"]
  ELSE IF resolution = "Block" /\ HasConflict(file) THEN [kind |-> "conflict"]
  ELSE [kind |-> "write", file |-> Merged(file)]

\* The file carries NexTwist's exact activation: planning is a no-op.
IsActive(file) == file # Utf16 /\ Merged(file) = file
=============================================================================
