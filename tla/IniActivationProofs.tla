------------------------ MODULE IniActivationProofs ------------------------
(***************************************************************************)
(* Proofs about IniActivation, for every set of user files and every       *)
(* bound: what the user had is never lost, and the editor keeps its word.  *)
(***************************************************************************)
EXTENDS IniActivation, SequenceTheorems, NaturalsInduction, WellFoundedInduction, TLAPS

-----------------------------------------------------------------------------
(* The editor, for files of every length.                                  *)

(* A non-empty set of numbers has a least one.                             *)
LEMMA LeastElement ==
  ASSUME NEW S \in SUBSET Nat, S # {}
  PROVE  Min(S) \in S /\ \A y \in S : Min(S) <= y
  <1> DEFINE below == {ss \in Nat \X Nat : ss[1] < ss[2]}
  <1>1. IsWellFoundedOn(below, Nat)
    BY NatLessThanWellFounded, Zenon DEF OpToRel
  <1>2. \A x, y \in Nat : y < x => <<y, x>> \in below
    OBVIOUS
  <1> HIDE DEF below
  <1>3. \E x \in S : \A y \in S : ~ (<<y, x>> \in below)
    BY <1>1, WFMin
  <1>4. \E x \in S : \A y \in S : x <= y
    <2>1. PICK x \in S : \A y \in S : ~ (<<y, x>> \in below)
      BY <1>3
    <2>2. ASSUME NEW y \in S PROVE x <= y
      <3>1. ~ (y < x)
        BY <1>2, <2>1
      <3> QED
        BY <3>1
    <2> QED
      BY <2>2
  <1> QED
    BY <1>4 DEF Min

(* What a search finds, and that a line found by hand is what it finds.    *)
LEMMA FirstInFacts ==
  ASSUME NEW lines, NEW from \in Nat \ {0}, NEW to \in Nat, NEW kinds
  PROVE  /\ FirstIn(lines, from, to, kinds) \in {0} \cup (from .. to)
         /\ FirstIn(lines, from, to, kinds) = 0 => \A j \in from .. to : lines[j] \notin kinds
         /\ FirstIn(lines, from, to, kinds) # 0 =>
              /\ lines[FirstIn(lines, from, to, kinds)] \in kinds
              /\ \A j \in from .. FirstIn(lines, from, to, kinds) - 1 : lines[j] \notin kinds
  <1> DEFINE hits == {i \in from .. to : lines[i] \in kinds}
  <1>1. CASE hits = {}
    BY <1>1 DEF FirstIn
  <1>2. CASE hits # {}
    <2>1. Min(hits) \in hits /\ \A y \in hits : Min(hits) <= y
      BY <1>2, LeastElement
    <2>2. FirstIn(lines, from, to, kinds) = Min(hits)
      BY <1>2 DEF FirstIn
    <2> HIDE DEF hits
    <2>3. \A j \in from .. Min(hits) - 1 : j \in hits => FALSE
      BY <2>1 DEF hits
    <2> QED
      BY <2>1, <2>2, <2>3 DEF hits
  <1> QED
    BY <1>1, <1>2

LEMMA FirstInIs ==
  ASSUME NEW lines, NEW from \in Nat \ {0}, NEW to \in Nat, NEW kinds,
         NEW k \in from .. to, lines[k] \in kinds,
         \A j \in from .. k - 1 : lines[j] \notin kinds
  PROVE  FirstIn(lines, from, to, kinds) = k
  BY FirstInFacts

LEMMA SectionFacts ==
  ASSUME NEW lines \in Seq(Line)
  PROVE  /\ Header(lines) \in 0 .. Len(lines)
         /\ Header(lines) = 0 => \A j \in 1 .. Len(lines) : lines[j] # "[Archive]"
         /\ Header(lines) # 0 =>
              /\ lines[Header(lines)] = "[Archive]"
              /\ \A j \in 1 .. Header(lines) - 1 : lines[j] # "[Archive]"
              /\ SectionEnd(lines) \in Header(lines) .. Len(lines)
              /\ \A j \in Header(lines) + 1 .. SectionEnd(lines) : lines[j] \notin Section
  <1>0. Len(lines) \in Nat
    BY LenProperties
  <1>1. /\ Header(lines) \in 0 .. Len(lines)
        /\ Header(lines) = 0 => \A j \in 1 .. Len(lines) : lines[j] # "[Archive]"
        /\ Header(lines) # 0 => /\ lines[Header(lines)] = "[Archive]"
                                /\ \A j \in 1 .. Header(lines) - 1 : lines[j] # "[Archive]"
    BY <1>0, FirstInFacts DEF Header
  <1>2. ASSUME Header(lines) # 0
        PROVE  /\ SectionEnd(lines) \in Header(lines) .. Len(lines)
               /\ \A j \in Header(lines) + 1 .. SectionEnd(lines) : lines[j] \notin Section
    <2> DEFINE next == FirstIn(lines, Header(lines) + 1, Len(lines), Section)
    <2>1. Header(lines) + 1 \in Nat \ {0}
      BY <1>1
    <2>2. /\ next \in {0} \cup (Header(lines) + 1 .. Len(lines))
          /\ next = 0 => \A j \in Header(lines) + 1 .. Len(lines) : lines[j] \notin Section
          /\ next # 0 => \A j \in Header(lines) + 1 .. next - 1 : lines[j] \notin Section
      BY <1>0, <2>1, FirstInFacts
    <2>3. SectionEnd(lines) = IF next = 0 THEN Len(lines) ELSE next - 1
      BY DEF SectionEnd
    <2> HIDE DEF next
    <2> QED
      BY <1>0, <1>1, <1>2, <2>2, <2>3
  <1> QED
    BY <1>1, <1>2

LEMMA HeaderIs ==
  ASSUME NEW lines \in Seq(Line), NEW h \in 1 .. Len(lines),
         lines[h] = "[Archive]", \A j \in 1 .. h - 1 : lines[j] # "[Archive]"
  PROVE  Header(lines) = h
  <1>1. Len(lines) \in Nat
    BY LenProperties
  <1> DEFINE kinds == {"[Archive]"}
             one == 1
  <1>2. /\ lines[h] \in kinds /\ \A j \in one .. h - 1 : lines[j] \notin kinds
        /\ one \in Nat \ {0} /\ h \in one .. Len(lines)
    OBVIOUS
  <1> HIDE DEF kinds, one
  <1>3. FirstIn(lines, one, Len(lines), kinds) = h
    BY <1>1, <1>2, FirstInIs
  <1> QED
    BY <1>3 DEF Header, kinds, one

(* A section reaches as far as there is no other header.                   *)
LEMMA SectionReaches ==
  ASSUME NEW lines \in Seq(Line), Header(lines) # 0, NEW p \in 1 .. Len(lines),
         \A j \in Header(lines) + 1 .. p : lines[j] \notin Section
  PROVE  SectionEnd(lines) >= p
  <1> DEFINE next == FirstIn(lines, Header(lines) + 1, Len(lines), Section)
  <1>0. Len(lines) \in Nat /\ Header(lines) \in Nat
    BY LenProperties, SectionFacts
  <1>1. /\ next \in {0} \cup (Header(lines) + 1 .. Len(lines))
        /\ next # 0 => lines[next] \in Section
    BY <1>0, FirstInFacts
  <1>2. SectionEnd(lines) = IF next = 0 THEN Len(lines) ELSE next - 1
    BY DEF SectionEnd
  <1> HIDE DEF next
  <1> QED
    BY <1>0, <1>1, <1>2

(* An owned key at p that no key of its kind precedes in the section.      *)
LEMMA OwnedIs ==
  ASSUME NEW lines \in Seq(Line), Header(lines) # 0,
         NEW p \in Header(lines) + 1 .. Len(lines), NEW kinds, lines[p] \in kinds,
         \A j \in Header(lines) + 1 .. p : lines[j] \notin Section,
         \A j \in Header(lines) + 1 .. p - 1 : lines[j] \notin kinds
  PROVE  OwnedAt(lines, kinds) = p
  <1>1. /\ Header(lines) \in 1 .. Len(lines) /\ Len(lines) \in Nat
        /\ SectionEnd(lines) \in Nat
    BY LenProperties, SectionFacts
  <1>2. SectionEnd(lines) >= p
    BY <1>1, SectionReaches
  <1>3. p \in Header(lines) + 1 .. SectionEnd(lines)
    BY <1>1, <1>2
  <1> QED
    BY <1>1, <1>3, FirstInIs DEF OwnedAt

-----------------------------------------------------------------------------
(* What MergeInto builds: the lines up to the header, the missing keys, the *)
(* rest.                                                                    *)
Insert(lines, h, m) == SubSeq(lines, 1, h) \o m \o SubSeq(lines, h + 1, Len(lines))

LEMMA ConcatFacts ==
  ASSUME NEW s \in Seq(Line), NEW t \in Seq(Line)
  PROVE  /\ s \o t \in Seq(Line)
         /\ Len(s \o t) = Len(s) + Len(t)
         /\ \A k \in 1 .. Len(s) : (s \o t)[k] = s[k]
         /\ \A k \in 1 .. Len(t) : (s \o t)[Len(s) + k] = t[k]
  <1>1. Len(s) \in Nat /\ Len(t) \in Nat
    BY LenProperties
  <1>2. /\ s \o t \in Seq(Line)
        /\ Len(s \o t) = Len(s) + Len(t)
        /\ \A i \in 1 .. Len(s) + Len(t) :
              (s \o t)[i] = IF i <= Len(s) THEN s[i] ELSE t[i - Len(s)]
    BY ONLY s \in Seq(Line), t \in Seq(Line), ConcatProperties, Zenon
  <1>3. ASSUME NEW k \in 1 .. Len(t)
        PROVE  (s \o t)[Len(s) + k] = t[k]
    <2> DEFINE i == Len(s) + k
    <2>1. i \in 1 .. Len(s) + Len(t) /\ ~ (i <= Len(s)) /\ i - Len(s) = k
      BY <1>1
    <2> HIDE DEF i
    <2>2. (s \o t)[i] = t[i - Len(s)]
      BY <1>2, <2>1, Zenon
    <2> QED
      BY <2>1, <2>2, Zenon DEF i
  <1>4. ASSUME NEW k \in 1 .. Len(s)
        PROVE  (s \o t)[k] = s[k]
    <2>1. k \in 1 .. Len(s) + Len(t) /\ k <= Len(s)
      BY <1>1
    <2> QED
      BY <1>2, <2>1, Zenon
  <1> QED
    BY <1>2, <1>3, <1>4, Zenon

IsInserted(s, u, h, m) ==
  /\ s \in Seq(Line)
  /\ Len(s) = Len(u) + Len(m)
  /\ \A k \in 1 .. h : s[k] = u[k]
  /\ \A k \in 1 .. Len(m) : s[h + k] = m[k]
  /\ \A k \in h + 1 .. Len(u) : s[k + Len(m)] = u[k]

LEMMA InsertFacts ==
  ASSUME NEW u \in Seq(Line), NEW m \in Seq(Line), NEW h \in 0 .. Len(u)
  PROVE  IsInserted(Insert(u, h, m), u, h, m)
  <1> DEFINE a == SubSeq(u, 1, h)
             b == SubSeq(u, h + 1, Len(u))
             n == Len(u)
             l == Len(m)
  <1>0. n \in Nat /\ l \in Nat /\ h \in Nat
    BY LenProperties
  <1>1. a \in Seq(Line) /\ Len(a) = h /\ \A k \in 1 .. h : a[k] = u[k]
    BY <1>0, SubSeqProperties
  <1>2. b \in Seq(Line) /\ Len(b) = n - h /\ \A k \in 1 .. n - h : b[k] = u[h + k]
    BY <1>0, SubSeqProperties
  <1> HIDE DEF a, b
  <1> DEFINE c == a \o m
             r == c \o b
  <1>3. c \in Seq(Line) /\ Len(c) = h + l
        /\ (\A k \in 1 .. h : c[k] = a[k]) /\ (\A k \in 1 .. l : c[h + k] = m[k])
    BY <1>1, ConcatFacts, Zenon
  <1> HIDE DEF c
  <1>4. /\ r \in Seq(Line) /\ Len(r) = Len(c) + Len(b)
        /\ \A k \in 1 .. Len(c) : r[k] = c[k]
        /\ \A k \in 1 .. Len(b) : r[Len(c) + k] = b[k]
    BY <1>2, <1>3, ConcatFacts, Zenon
  <1>5. Insert(u, h, m) = r
    BY DEF Insert, a, b, c
  <1> HIDE DEF n, l, r
  <1>6. \A k \in 1 .. h : r[k] = u[k]
    BY <1>0, <1>1, <1>3, <1>4
  <1>7. \A k \in 1 .. l : r[h + k] = m[k]
    BY <1>0, <1>3, <1>4
  <1>8. \A k \in h + 1 .. n : r[k + l] = u[k]
    <2> SUFFICES ASSUME NEW k \in h + 1 .. n PROVE r[k + l] = u[k]
      OBVIOUS
    <2>1. k - h \in 1 .. n - h /\ h + l + (k - h) = k + l /\ h + (k - h) = k
      BY <1>0
    <2>2. r[h + l + (k - h)] = b[k - h] /\ b[k - h] = u[h + (k - h)]
      BY <1>2, <1>3, <1>4, <2>1
    <2> QED
      BY <2>1, <2>2, Zenon
  <1>9. Len(r) = n + l
    BY <1>0, <1>2, <1>3, <1>4
  <1> QED
    BY <1>4, <1>5, <1>6, <1>7, <1>8, <1>9, Zenon DEF n, l, IsInserted

-----------------------------------------------------------------------------
Updated(lines) ==
  [k \in DOMAIN lines |-> IF k = OwnedAt(lines, InvalidateLine) THEN "inv"
                          ELSE IF k = OwnedAt(lines, DirsLine) THEN "dirs" ELSE lines[k]]

Missing(lines) ==
  (IF OwnedAt(lines, InvalidateLine) = 0 THEN <<"inv">> ELSE << >>)
    \o (IF OwnedAt(lines, DirsLine) = 0 THEN <<"dirs">> ELSE << >>)

LEMMA MergeIsInsert ==
  ASSUME NEW lines
  PROVE  MergeInto(lines) = Insert(Updated(lines), Header(lines), Missing(lines))
  BY Zenon DEF MergeInto, Insert, Updated, Missing

LEMMA OwnedFacts ==
  ASSUME NEW lines \in Seq(Line), Header(lines) # 0, NEW kinds
  PROVE  /\ OwnedAt(lines, kinds) \in {0} \cup (Header(lines) + 1 .. SectionEnd(lines))
         /\ OwnedAt(lines, kinds) = 0 =>
              \A j \in Header(lines) + 1 .. SectionEnd(lines) : lines[j] \notin kinds
         /\ OwnedAt(lines, kinds) # 0 =>
              /\ lines[OwnedAt(lines, kinds)] \in kinds
              /\ \A j \in Header(lines) + 1 .. OwnedAt(lines, kinds) - 1 : lines[j] \notin kinds
  <1>1. Header(lines) + 1 \in Nat \ {0} /\ SectionEnd(lines) \in Nat
    BY SectionFacts, LenProperties
  <1> QED
    BY <1>1, FirstInFacts DEF OwnedAt

LEMMA UpdatedFacts ==
  ASSUME NEW lines \in Seq(Line)
  PROVE  /\ Updated(lines) \in Seq(Line)
         /\ Len(Updated(lines)) = Len(lines)
         /\ \A k \in 1 .. Len(lines) :
              Updated(lines)[k] = IF k = OwnedAt(lines, InvalidateLine) THEN "inv"
                                  ELSE IF k = OwnedAt(lines, DirsLine) THEN "dirs" ELSE lines[k]
  <1> DEFINE n == Len(lines)
             i == OwnedAt(lines, InvalidateLine)
             d == OwnedAt(lines, DirsLine)
  <1>1. n \in Nat /\ lines \in [1 .. n -> Line] /\ DOMAIN lines = 1 .. n
    BY LenProperties
  <1>2. "inv" \in Line /\ "dirs" \in Line
    BY DEF Line, InvalidateLine, DirsLine
  <1>3. Updated(lines) =
          [k \in 1 .. n |-> IF k = i THEN "inv" ELSE IF k = d THEN "dirs" ELSE lines[k]]
    BY <1>1, Zenon DEF Updated
  <1> HIDE DEF n, i, d
  <1>4. Updated(lines) \in [1 .. n -> Line]
    BY <1>1, <1>2, <1>3
  <1>5. Updated(lines) \in Seq(Line)
    BY <1>1, <1>4, SeqDef
  <1>6. Len(Updated(lines)) = n
    BY <1>1, <1>4, <1>5, LenProperties
  <1>7. \A k \in 1 .. n :
          Updated(lines)[k] = IF k = i THEN "inv" ELSE IF k = d THEN "dirs" ELSE lines[k]
    BY <1>3
  <1> QED
    BY <1>5, <1>6, <1>7 DEF n, i, d

LEMMA MissingFacts ==
  ASSUME NEW lines
  PROVE  /\ Missing(lines) \in Seq(Line)
         /\ Len(Missing(lines)) = (IF OwnedAt(lines, InvalidateLine) = 0 THEN 1 ELSE 0)
                                    + (IF OwnedAt(lines, DirsLine) = 0 THEN 1 ELSE 0)
         /\ OwnedAt(lines, InvalidateLine) = 0 => Missing(lines)[1] = "inv"
         /\ OwnedAt(lines, DirsLine) = 0 => Missing(lines)[Len(Missing(lines))] = "dirs"
  <1>1. "inv" \in Line /\ "dirs" \in Line
    BY DEF Line, InvalidateLine, DirsLine
  <1>2. CASE OwnedAt(lines, InvalidateLine) = 0 /\ OwnedAt(lines, DirsLine) = 0
    <2>1. Missing(lines) = <<"inv">> \o <<"dirs">>
      BY <1>2 DEF Missing
    <2>2. /\ <<"inv">> \in Seq(Line) /\ Len(<<"inv">>) = 1 /\ <<"inv">>[1] = "inv"
          /\ <<"dirs">> \in Seq(Line) /\ Len(<<"dirs">>) = 1 /\ <<"dirs">>[1] = "dirs"
      BY <1>1
    <2> DEFINE s == <<"inv">>
               t == <<"dirs">>
    <2> HIDE DEF s, t
    <2>3. /\ s \in Seq(Line) /\ Len(s) = 1 /\ s[1] = "inv"
          /\ t \in Seq(Line) /\ Len(t) = 1 /\ t[1] = "dirs"
      BY <2>2, Zenon DEF s, t
    <2>4. /\ s \o t \in Seq(Line) /\ Len(s \o t) = Len(s) + Len(t)
          /\ \A k \in 1 .. Len(s) : (s \o t)[k] = s[k]
          /\ \A k \in 1 .. Len(t) : (s \o t)[Len(s) + k] = t[k]
      BY <2>3, ConcatFacts, Zenon
    <2>5. /\ s \o t \in Seq(Line) /\ Len(s \o t) = 2
          /\ (s \o t)[1] = "inv" /\ (s \o t)[2] = "dirs"
      BY <2>3, <2>4
    <2>6. Missing(lines) = s \o t
      BY <2>1, Zenon DEF s, t
    <2> QED
      BY <1>2, <2>5, <2>6
  <1>3. CASE OwnedAt(lines, InvalidateLine) = 0 /\ OwnedAt(lines, DirsLine) # 0
    <2>1. Missing(lines) = <<"inv">>
      BY <1>3 DEF Missing
    <2> QED
      BY <1>1, <1>3, <2>1
  <1>4. CASE OwnedAt(lines, InvalidateLine) # 0 /\ OwnedAt(lines, DirsLine) = 0
    <2>1. Missing(lines) = <<"dirs">>
      BY <1>4 DEF Missing
    <2> QED
      BY <1>1, <1>4, <2>1
  <1>5. CASE OwnedAt(lines, InvalidateLine) # 0 /\ OwnedAt(lines, DirsLine) # 0
    <2>1. Missing(lines) = << >>
      BY <1>5 DEF Missing
    <2> QED
      BY <1>5, <2>1
  <1> QED
    BY <1>2, <1>3, <1>4, <1>5

(* A file that carries both owned keys, as NexTwist spells them, is left    *)
(* exactly as it is.                                                        *)
LEMMA Fixed ==
  ASSUME NEW r \in Seq(Line), Header(r) # 0,
         OwnedAt(r, InvalidateLine) # 0, r[OwnedAt(r, InvalidateLine)] = "inv",
         OwnedAt(r, DirsLine) # 0, r[OwnedAt(r, DirsLine)] = "dirs"
  PROVE  MergeInto(r) = r
  <1> DEFINE n == Len(r)
             h == Header(r)
             u == Updated(r)
             m == Missing(r)
             s == Insert(u, h, m)
  <1>1. n \in Nat /\ h \in 0 .. n /\ Len(m) = 0 /\ m \in Seq(Line)
    BY LenProperties, SectionFacts, MissingFacts
  <1>2. u \in Seq(Line) /\ Len(u) = n /\ (\A k \in 1 .. n : u[k] = r[k]) /\ h \in 0 .. Len(u)
    BY <1>1, UpdatedFacts
  <1> HIDE DEF u, m, h, n, s
  <1>3. IsInserted(s, u, h, m)
    BY <1>1, <1>2, InsertFacts DEF s
  <1>4. Len(s) = n /\ \A k \in 1 .. n : s[k] = r[k]
    BY <1>1, <1>2, <1>3 DEF IsInserted
  <1>5. s = r
    BY <1>3, <1>4, SeqEqual DEF n, IsInserted
  <1> QED
    BY <1>5, MergeIsInsert DEF s, u, m, h

(* A file with an [Archive] section, as MergeInto leaves it: the line it    *)
(* had at k is at k or, behind the header, at k moved by the missing keys.  *)
LEMMA MergedLines ==
  ASSUME NEW f \in Seq(Line), Header(f) # 0
  PROVE  IsInserted(MergeInto(f), Updated(f), Header(f), Missing(f))
  <1>1. Header(f) \in 0 .. Len(Updated(f))
    BY SectionFacts, UpdatedFacts
  <1>2. Updated(f) \in Seq(Line) /\ Missing(f) \in Seq(Line)
    BY UpdatedFacts, MissingFacts
  <1> QED
    BY <1>1, <1>2, InsertFacts, MergeIsInsert

LEMMA MergedSectionIsActive ==
  ASSUME NEW f \in Seq(Line), Header(f) # 0
  PROVE  /\ MergeInto(f) \in Seq(Line) /\ MergeInto(MergeInto(f)) = MergeInto(f)
         /\ Header(MergeInto(f)) # 0
  <1> DEFINE n == Len(f)
             h == Header(f)
             e == SectionEnd(f)
             i == OwnedAt(f, InvalidateLine)
             d == OwnedAt(f, DirsLine)
             u == Updated(f)
             m == Missing(f)
             l == Len(m)
             r == MergeInto(f)
             ri == IF i = 0 THEN h + 1 ELSE i + l
             rd == IF d = 0 THEN h + l ELSE d + l
  <1>1. /\ n \in Nat /\ h \in 1 .. n /\ e \in h .. n
        /\ f[h] = "[Archive]"
        /\ \A j \in 1 .. h - 1 : f[j] # "[Archive]"
        /\ \A j \in h + 1 .. e : f[j] \notin Section
    BY LenProperties, SectionFacts
  <1>2. /\ i \in {0} \cup (h + 1 .. e)
        /\ i = 0 => \A j \in h + 1 .. e : f[j] \notin InvalidateLine
        /\ i # 0 => /\ f[i] \in InvalidateLine
                    /\ \A j \in h + 1 .. i - 1 : f[j] \notin InvalidateLine
    BY OwnedFacts
  <1>3. /\ d \in {0} \cup (h + 1 .. e)
        /\ d = 0 => \A j \in h + 1 .. e : f[j] \notin DirsLine
        /\ d # 0 => /\ f[d] \in DirsLine
                    /\ \A j \in h + 1 .. d - 1 : f[j] \notin DirsLine
    BY OwnedFacts
  <1>4. Len(u) = n /\ \A k \in 1 .. n :
                        u[k] = IF k = i THEN "inv" ELSE IF k = d THEN "dirs" ELSE f[k]
    BY UpdatedFacts
  <1>5. /\ l = (IF i = 0 THEN 1 ELSE 0) + (IF d = 0 THEN 1 ELSE 0)
        /\ i = 0 => m[1] = "inv"
        /\ d = 0 => m[l] = "dirs"
    BY MissingFacts
  <1>6. IsInserted(r, u, h, m)
    BY MergedLines
  <1> HIDE DEF n, h, e, i, d, u, m, l, r
  <1>7. r \in Seq(Line) /\ Len(r) = n + l
    BY <1>4, <1>6 DEF IsInserted, l
  <1>8. \A k \in 1 .. h : r[k] = f[k]
    BY <1>1, <1>2, <1>3, <1>4, <1>6 DEF IsInserted
  <1>9. \A k \in 1 .. l : r[h + k] = m[k]
    BY <1>6 DEF IsInserted, l
  <1>10. \A k \in h + 1 .. n :
           r[k + l] = IF k = i THEN "inv" ELSE IF k = d THEN "dirs" ELSE f[k]
    BY <1>1, <1>4, <1>6 DEF IsInserted, l
  <1>11. Header(r) = h
    <2>1. h \in 1 .. Len(r) /\ Len(r) \in Nat
      BY <1>1, <1>5, <1>7
    <2>2. r[h] = "[Archive]" /\ \A j \in 1 .. h - 1 : r[j] # "[Archive]"
      BY <1>1, <1>8
    <2> QED
      BY <1>7, <2>1, <2>2, HeaderIs
  <1>12. /\ i # d \/ i = 0
         /\ "inv" \notin Section /\ "dirs" \notin Section
         /\ "inv" \notin DirsLine /\ "dirs" \notin InvalidateLine
         /\ "inv" \in InvalidateLine /\ "dirs" \in DirsLine
    BY <1>2, <1>3 DEF Section, InvalidateLine, DirsLine
  <1>13. \A j \in h + 1 .. e + l : r[j] \notin Section
    <2> SUFFICES ASSUME NEW j \in h + 1 .. e + l PROVE r[j] \notin Section
      OBVIOUS
    <2>1. CASE j <= h + l
      <3>1. j - h \in 1 .. l /\ h + (j - h) = j
        BY <1>1, <1>5, <2>1
      <3>2. r[j] = m[j - h]
        BY <1>9, <3>1
      <3>3. m[j - h] \in {"inv", "dirs"}
        BY <1>2, <1>3, <1>5, <3>1
      <3> QED
        BY <1>12, <3>2, <3>3
    <2>2. CASE j > h + l
      <3>1. j - l \in h + 1 .. e /\ j - l \in h + 1 .. n /\ (j - l) + l = j
        BY <1>1, <1>5, <2>2
      <3>2. r[j] = IF j - l = i THEN "inv" ELSE IF j - l = d THEN "dirs" ELSE f[j - l]
        BY <1>10, <3>1
      <3> QED
        BY <1>1, <1>12, <3>1, <3>2
    <2> QED
      BY <1>1, <1>5, <2>1, <2>2
  <1>14. r[ri] = "inv" /\ ri \in h + 1 .. e + l /\ ri <= Len(r)
         /\ \A j \in h + 1 .. ri - 1 : r[j] \notin InvalidateLine
    <2>1. CASE i = 0
      BY <1>1, <1>5, <1>7, <1>9, <2>1
    <2>2. CASE i # 0
      <3>1. i \in h + 1 .. e /\ i \in h + 1 .. n /\ ri = i + l
        BY <1>1, <1>2, <2>2
      <3>2. r[ri] = "inv"
        BY <1>10, <3>1
      <3>3. ASSUME NEW j \in h + 1 .. ri - 1 PROVE r[j] \notin InvalidateLine
        <4>1. CASE j <= h + l
          <5>1. j - h \in 1 .. l /\ h + (j - h) = j
            BY <1>1, <1>5, <3>1, <4>1
          <5>2. r[j] = m[j - h]
            BY <1>9, <5>1
          <5>3. m[j - h] = "dirs"
            BY <1>5, <2>2, <5>1
          <5> QED
            BY <1>12, <5>2, <5>3
        <4>2. CASE j > h + l
          <5>1. j - l \in h + 1 .. i - 1 /\ j - l \in h + 1 .. n /\ (j - l) + l = j /\ j - l # i
            BY <1>1, <1>5, <3>1, <4>2
          <5>2. r[j] = IF j - l = d THEN "dirs" ELSE f[j - l]
            BY <1>10, <5>1
          <5> QED
            BY <1>2, <1>12, <2>2, <5>1, <5>2
        <4> QED
          BY <1>1, <1>5, <4>1, <4>2
      <3> QED
        BY <1>1, <1>5, <1>7, <3>1, <3>2, <3>3
    <2> QED
      BY <2>1, <2>2
  <1>15. r[rd] = "dirs" /\ rd \in h + 1 .. e + l /\ rd <= Len(r)
         /\ \A j \in h + 1 .. rd - 1 : r[j] \notin DirsLine
    <2>1. CASE d = 0
      <3>1. rd = h + l /\ l \in 1 .. 2
        BY <1>5, <2>1
      <3>2. r[rd] = "dirs"
        BY <1>5, <1>9, <2>1, <3>1
      <3>3. ASSUME NEW j \in h + 1 .. rd - 1 PROVE r[j] \notin DirsLine
        <4>1. j = h + 1 /\ l = 2 /\ i = 0
          BY <1>1, <1>5, <2>1, <3>1
        <4> QED
          BY <1>5, <1>9, <1>12, <4>1
      <3> QED
        BY <1>1, <1>7, <3>1, <3>2, <3>3
    <2>2. CASE d # 0
      <3>1. d \in h + 1 .. e /\ d \in h + 1 .. n /\ rd = d + l /\ d # i
        BY <1>1, <1>3, <1>12, <2>2
      <3>2. r[rd] = "dirs"
        BY <1>10, <3>1
      <3>3. ASSUME NEW j \in h + 1 .. rd - 1 PROVE r[j] \notin DirsLine
        <4>1. CASE j <= h + l
          <5>1. j = h + 1 /\ l = 1 /\ i = 0
            BY <1>1, <1>5, <2>2, <3>1, <4>1
          <5>2. r[j] = "inv"
            BY <1>5, <1>9, <5>1
          <5> QED
            BY <1>12, <5>2
        <4>2. CASE j > h + l
          <5>1. j - l \in h + 1 .. d - 1 /\ j - l \in h + 1 .. n /\ (j - l) + l = j /\ j - l # d
            BY <1>1, <1>5, <3>1, <4>2
          <5>2. r[j] = IF j - l = i THEN "inv" ELSE f[j - l]
            BY <1>10, <5>1
          <5> QED
            BY <1>3, <1>12, <2>2, <5>1, <5>2
        <4> QED
          BY <1>1, <1>5, <4>1, <4>2
      <3> QED
        BY <1>1, <1>5, <1>7, <3>1, <3>2, <3>3
    <2> QED
      BY <2>1, <2>2
  <1> HIDE DEF ri, rd
  <1>16. h # 0 /\ ri # 0 /\ rd # 0
    BY <1>1, <1>14, <1>15
  <1>17. OwnedAt(r, InvalidateLine) = ri /\ OwnedAt(r, DirsLine) = rd
    <2>1. /\ ri \in h + 1 .. Len(r) /\ \A j \in h + 1 .. ri : r[j] \notin Section
          /\ rd \in h + 1 .. Len(r) /\ \A j \in h + 1 .. rd : r[j] \notin Section
      BY <1>1, <1>5, <1>7, <1>13, <1>14, <1>15
    <2> QED
      BY <1>7, <1>11, <1>12, <1>14, <1>15, <1>16, <2>1, OwnedIs
  <1>18. MergeInto(r) = r
    BY <1>7, <1>11, <1>14, <1>15, <1>16, <1>17, Fixed
  <1> QED
    BY <1>7, <1>11, <1>16, <1>18 DEF r

-----------------------------------------------------------------------------
LEMMA BlockIsActive ==
  ASSUME NEW f \in Seq(Line), Header(f) = 0
  PROVE  f \o Block \in Seq(Line) /\ Header(f \o Block) # 0 /\ MergeInto(f \o Block) = f \o Block
  <1> DEFINE n == Len(f)
             r == f \o Block
  <1>1. Block \in Seq(Line) /\ Len(Block) = 3
        /\ Block[1] = "[Archive]" /\ Block[2] = "inv" /\ Block[3] = "dirs"
    BY DEF Block, Line, Section, InvalidateLine, DirsLine
  <1>2. n \in Nat /\ \A j \in 1 .. n : f[j] # "[Archive]"
    BY LenProperties, SectionFacts
  <1>3. /\ r \in Seq(Line) /\ Len(r) = n + 3
        /\ \A k \in 1 .. n : r[k] = f[k]
        /\ \A k \in 1 .. 3 : r[n + k] = Block[k]
    <2>1. /\ f \o Block \in Seq(Line) /\ Len(f \o Block) = Len(f) + Len(Block)
          /\ \A k \in 1 .. Len(f) : (f \o Block)[k] = f[k]
          /\ \A k \in 1 .. Len(Block) : (f \o Block)[Len(f) + k] = Block[k]
      BY <1>1, ConcatFacts, Zenon
    <2> QED
      BY <1>1, <2>1
  <1> HIDE DEF n, r
  <1>4. r[n + 1] = "[Archive]" /\ r[n + 2] = "inv" /\ r[n + 3] = "dirs"
    BY <1>1, <1>3
  <1>5. Header(r) = n + 1
    <2>1. n + 1 \in 1 .. Len(r) /\ \A j \in 1 .. (n + 1) - 1 : r[j] # "[Archive]"
      BY <1>2, <1>3
    <2> QED
      BY <1>3, <1>4, <2>1, HeaderIs
  <1>6. /\ "inv" \notin Section /\ "dirs" \notin Section /\ "inv" \notin DirsLine
        /\ "inv" \in InvalidateLine /\ "dirs" \in DirsLine
    BY DEF Section, InvalidateLine, DirsLine
  <1>7. OwnedAt(r, InvalidateLine) = n + 2
    <2>1. /\ Header(r) # 0 /\ n + 2 \in Header(r) + 1 .. Len(r)
          /\ \A j \in Header(r) + 1 .. n + 2 : r[j] \notin Section
          /\ \A j \in Header(r) + 1 .. (n + 2) - 1 : r[j] \notin InvalidateLine
      BY <1>2, <1>3, <1>4, <1>5, <1>6
    <2> QED
      BY <1>3, <1>4, <1>6, <2>1, OwnedIs
  <1>8. OwnedAt(r, DirsLine) = n + 3
    <2>1. /\ Header(r) # 0 /\ n + 3 \in Header(r) + 1 .. Len(r)
          /\ \A j \in Header(r) + 1 .. n + 3 : r[j] \notin Section
          /\ \A j \in Header(r) + 1 .. (n + 3) - 1 : r[j] \notin DirsLine
      BY <1>2, <1>3, <1>4, <1>5, <1>6
    <2> QED
      BY <1>3, <1>4, <1>6, <2>1, OwnedIs
  <1>9. n + 1 # 0 /\ n + 2 # 0 /\ n + 3 # 0
    BY <1>2
  <1>10. MergeInto(r) = r
    BY <1>3, <1>4, <1>5, <1>7, <1>8, <1>9, Fixed
  <1> QED
    BY <1>3, <1>5, <1>9, <1>10 DEF r

(* What the editor writes it never has to write again: planned on a file    *)
(* without [Archive], with a part of the section, or with keys of the same  *)
(* name elsewhere, the file that results carries the exact activation       *)
(* (plan_merge, is_active_at), so that no deploy or repair rewrites it and  *)
(* verify reports no drift.                                                 *)
THEOREM WrittenIsActive ==
  \A f \in Seq(Line) \cup {NoFile} : Merged(f) \in Seq(Line) /\ IsActive(Merged(f))
  <1> SUFFICES ASSUME NEW f \in Seq(Line) \cup {NoFile}
               PROVE  Merged(f) \in Seq(Line) /\ IsActive(Merged(f))
    OBVIOUS
  <1>1. ASSUME NEW r \in Seq(Line), Header(r) # 0, MergeInto(r) = r
        PROVE  IsActive(r)
    BY <1>1, NotLines DEF IsActive, Merged
  <1>2. CASE f \in Seq(Line) /\ Header(f) = 0
    <2>1. Merged(f) = f \o Block
      BY <1>2, NotLines DEF Merged
    <2> QED
      BY <1>1, <1>2, <2>1, BlockIsActive
  <1>3. CASE f \in Seq(Line) /\ Header(f) # 0
    <2>1. Merged(f) = MergeInto(f)
      BY <1>3, NotLines DEF Merged
    <2>2. MergeInto(f) \in Seq(Line) /\ MergeInto(MergeInto(f)) = MergeInto(f)
      BY <1>3, MergedSectionIsActive
    <2>3. Header(MergeInto(f)) # 0
      BY <1>3, MergedSectionIsActive
    <2> QED
      BY <1>1, <2>1, <2>2, <2>3
  <1>4. CASE f = NoFile
    <2>1. << >> \in Seq(Line) /\ Len(<< >>) = 0
      BY EmptySeq
    <2>2. Header(<< >>) = 0
      <3> DEFINE empty == << >>
      <3>1. empty \in Seq(Line) /\ Len(empty) = 0
        BY <2>1
      <3> HIDE DEF empty
      <3>2. Header(empty) \in 0 .. Len(empty)
        BY <3>1, SectionFacts, Zenon
      <3>3. Header(empty) = 0
        BY <3>1, <3>2
      <3> QED
        BY <3>3 DEF empty
    <2>3. << >> \o Block = Block
      BY ConcatEmptySeq DEF Block, Line, Section, InvalidateLine, DirsLine
    <2>4. Block \in Seq(Line) /\ Header(Block) # 0 /\ MergeInto(Block) = Block
      BY <2>1, <2>2, <2>3, BlockIsActive
    <2> QED
      BY <1>1, <1>4, <2>4 DEF Merged
  <1> QED
    BY <1>2, <1>3, <1>4

(* The editor touches the two owned keys only: every other line of the      *)
(* user's file is still there, in its order, moved by at most the keys that *)
(* were missing (merge_body edits in place, inserts behind the header and   *)
(* appends the block to a file without one).                                *)
THEOREM UserLinesStay ==
  \A f \in Seq(Line) : \A k \in 1 .. Len(f) :
    f[k] \notin InvalidateLine \cup DirsLine =>
      Merged(f)[IF Header(f) # 0 /\ k > Header(f) THEN k + Len(Merged(f)) - Len(f) ELSE k] = f[k]
  <1> SUFFICES ASSUME NEW f \in Seq(Line), NEW k \in 1 .. Len(f),
                      f[k] \notin InvalidateLine \cup DirsLine
               PROVE  Merged(f)[IF Header(f) # 0 /\ k > Header(f)
                                THEN k + Len(Merged(f)) - Len(f) ELSE k] = f[k]
    OBVIOUS
  <1>0. Len(f) \in Nat /\ Header(f) \in 0 .. Len(f) /\ f # NoFile
    BY LenProperties, SectionFacts, NotLines
  <1>1. CASE Header(f) = 0
    <2>1. Merged(f) = f \o Block
      BY <1>0, <1>1 DEF Merged
    <2>2. Block \in Seq(Line)
      BY DEF Block, Line, Section, InvalidateLine, DirsLine
    <2>3. (f \o Block)[k] = f[k]
      BY <2>2, ConcatFacts
    <2> QED
      BY <1>1, <2>1, <2>3
  <1>2. CASE Header(f) # 0
    <2> DEFINE r == MergeInto(f)
               u == Updated(f)
               m == Missing(f)
               h == Header(f)
    <2>1. Merged(f) = r
      BY <1>0, <1>2 DEF Merged
    <2>2. IsInserted(r, u, h, m)
      BY <1>2, MergedLines
    <2>3. Len(u) = Len(f) /\ Len(m) \in Nat
      BY UpdatedFacts, MissingFacts, LenProperties
    <2>4. u[k] = f[k]
      <3>1. k # OwnedAt(f, InvalidateLine) /\ k # OwnedAt(f, DirsLine)
        BY <1>2, OwnedFacts
      <3> QED
        BY <3>1, UpdatedFacts
    <2> HIDE DEF r, u, m
    <2>5. Len(r) = Len(f) + Len(m)
      BY <2>2, <2>3 DEF IsInserted
    <2>6. CASE k <= h
      BY <1>0, <2>1, <2>2, <2>4, <2>6 DEF IsInserted
    <2>7. CASE k > h
      <3>1. k \in h + 1 .. Len(u) /\ k + Len(r) - Len(f) = k + Len(m)
        BY <1>0, <2>3, <2>5, <2>7
      <3>2. r[k + Len(m)] = u[k]
        BY <2>2, <3>1 DEF IsInserted
      <3> QED
        BY <1>2, <2>1, <2>4, <2>7, <3>1, <3>2
    <2> QED
      BY <1>0, <2>6, <2>7
  <1> QED
    BY <1>1, <1>2

-----------------------------------------------------------------------------
(* The activation, for every set of user files and every bound.            *)

Active     == {f \in Seq(Line) : IsActive(f)}
Conflicted == {f \in Seq(Line) : HasConflict(f)}
File       == Seq(Line) \cup {NoFile, Utf16}

(* What the editor says of a file, in terms of these two sets.             *)
LEMMA PlanFacts ==
  ASSUME NEW f \in File, NEW r \in {"Block", "UseNexTwist"}
  PROVE  /\ IsActive(f) <=> f \in Active
         /\ HasConflict(f) <=> f \in Conflicted
         /\ Plan(f, r).kind = "write" => f \in Seq(Line) \cup {NoFile}
         /\ Plan(f, r).kind = "write" /\ f \in Conflicted => r = "UseNexTwist"
         /\ Plan(f, r).kind # "write" => Plan(f, "Block").kind \in {"conflict", "unsupported"}
  <1>1. IsActive(f) <=> f \in Active
    <2>1. ~ IsActive(Utf16)
      BY DEF IsActive
    <2>2. ~ IsActive(NoFile)
      <3>1. Block \in Seq(Line)
        BY DEF Block, Line, Section, InvalidateLine, DirsLine
      <3>2. Merged(NoFile) = Block
        BY DEF Merged
      <3> QED
        BY <3>1, <3>2, NotLines DEF IsActive
    <2> QED
      BY <2>1, <2>2, NotLines DEF Active, File
  <1>2. HasConflict(f) <=> f \in Conflicted
    BY NotLines DEF Conflicted, File, HasConflict, IsLines
  <1>3. ASSUME NEW s \in {"Block", "UseNexTwist"}
        PROVE  /\ f = Utf16 => Plan(f, s).kind = "unsupported"
               /\ f # Utf16 /\ s = "Block" /\ f \in Conflicted => Plan(f, s).kind = "conflict"
               /\ f # Utf16 /\ ~ (s = "Block" /\ f \in Conflicted) => Plan(f, s).kind = "write"
    BY <1>2 DEF Plan
  <1> QED
    BY <1>1, <1>2, <1>3 DEF File

Restoring == {"remove", "put", "forget"}
Ensuring  == {"intent", "backup", "write"}

Types ==
  /\ ini \in File /\ own \in File /\ buf \in File
  /\ row \in {None, Marker, Utf16} \cup Seq(Line)
  /\ pending \in Nat
  /\ mixed \in BOOLEAN /\ jid \in BOOLEAN
  /\ task \in Task
  /\ res \in {"Block", "UseNexTwist"}

\* Where the user's file is. A torn restore leaves a prefix, and then only
\* recovery may follow.
Where ==
  /\ row = None => ini = own /\ mixed = FALSE
  /\ mixed = FALSE /\ row # None => row = Provenance
  /\ mixed = FALSE /\ row # None =>
       \/ ini \in {own, NoFile} \/ ini \in Active
       \/ pending > 0 /\ task \in {"down", "recover"}

\* What each step of a command may rely on.
Steady ==
  /\ task \in {"down", "idle"} => pc = "next"
  /\ pc \in {"read"} \cup Ensuring => task \in {"deploy", "apply", "repair"}
  /\ pc = "data" => task = "deploy"
  /\ pc = "drift" => task = "repair"
  /\ pc \in {"plan", "purging"} => task \in {"purge", "redeploy"}
  /\ pc \in Restoring => task \in {"purge", "redeploy", "recover"}
  /\ pc \in {"backup", "write", "done"} \cup Restoring => pending > 0
  /\ pc \in Ensuring => buf \in Active /\ (ini \in Conflicted => res = "UseNexTwist")
  /\ pc \in {"intent", "backup"} => ini \notin Active
  /\ pc = "write" => row # None
  /\ pc \in Restoring => row # None
  /\ pc = "purging" /\ jid = TRUE => row # None /\ pending > 0
  /\ pc = "put" => ini = NoFile
  /\ pc = "forget" /\ mixed = FALSE => ini = own
  /\ pc = "done" /\ task \in {"deploy", "apply", "repair"} => ini \in Active
  /\ pc = "done" /\ task = "recover" => row = None

IInv == Types /\ Where /\ Steady

\* Nobody saves a file while a row is pending, and an error return is not
\* caused by a restore cut short.
Calm == "pending" \notin Edits /\ "torn_fail" \notin Faults

LEMMA InitIInv == Init => IInv
  <1> SUFFICES ASSUME Init PROVE IInv
    OBVIOUS
  <1>1. Types
    BY FileAssumption DEF Init, Types, File, Task
  <1>2. Where
    BY DEF Init, Where
  <1>3. Steady
    BY DEF Init, Steady, Restoring, Ensuring
  <1> QED
    BY <1>1, <1>2, <1>3 DEF IInv

-----------------------------------------------------------------------------
(* Starting, leaving and being cut short changes neither file nor row.      *)
LEMMA ControlSteps ==
  ASSUME IInv, \/ StartDeploy \/ StartPurge \/ StartRedeploy \/ StartRepair \/ StartApply
               \/ Launch \/ Quit \/ Crash \/ Fail
  PROVE  IInv'
  <1>0. NoFile \in File /\ Utf16 \in File /\ Seq(Line) \subseteq File
    BY DEF File
  <1> USE DEF IInv, Types, Where, Steady, Provenance, Task, Restoring, Ensuring, durable, history
  <1>1. CASE StartDeploy
    BY <1>1 DEF StartDeploy, Start
  <1>2. CASE StartPurge
    BY <1>2 DEF StartPurge, Start
  <1>3. CASE StartRedeploy
    BY <1>3 DEF StartRedeploy, Start
  <1>4. CASE StartRepair
    BY <1>4 DEF StartRepair, Start
  <1>5. CASE StartApply
    BY <1>5 DEF StartApply, Start
  <1>6. CASE Launch
    BY <1>6 DEF Launch
  <1>7. CASE Quit
    BY <1>7 DEF Quit
  <1>8. CASE Crash
    BY <1>0, <1>8 DEF Crash, Running, Fault, Stop, CutData
  <1>9. CASE Fail
    BY <1>0, <1>9 DEF Fail, Running, Fault, Stop, CutData
  <1> QED
    BY <1>1, <1>2, <1>3, <1>4, <1>5, <1>6, <1>7, <1>8, <1>9

LEMMA DataSteps ==
  ASSUME IInv, DeployData \/ PurgePlan \/ PurgeData \/ RepairDrift \/ ReplayData \/ ReplayIni \/ ReplayEnd
  PROVE  IInv'
  <1>0. NoFile \in File /\ Utf16 \in File /\ Seq(Line) \subseteq File
    BY DEF File
  <1> USE DEF IInv, Types, Where, Steady, Provenance, Task, Restoring, Ensuring, durable, history, volatile
  <1>1. CASE DeployData
    BY <1>1 DEF DeployData, Goto
  <1>2. CASE PurgePlan
    BY <1>2 DEF PurgePlan
  <1>3. CASE PurgeData
    <2>1. UNCHANGED <<ini, row, pending, own, mixed>> /\ pc = "purging"
      BY <1>3 DEF PurgeData
    <2>2. CASE jid
      <3>1. pc' = "remove" /\ UNCHANGED <<task, jid, res, buf>>
        BY <1>3, <2>2 DEF PurgeData, Goto
      <3>2. Types'
        BY <2>1, <3>1
      <3>3. Where'
        BY <2>1, <3>1
      <3>4. row # None /\ pending > 0
        <4>1. jid = TRUE
          BY <2>2, Zenon
        <4> QED
          BY <2>1, <4>1
      <3> QED
        BY <2>1, <3>1, <3>2, <3>3, <3>4
    <2>3. CASE ~ jid
      <3>1. /\ pc' \in {"data", "next"} /\ task' \in {"deploy", "idle"} 
            /\ pc' = "next" <=> task' = "idle"
            /\ jid' = FALSE /\ res' \in {res, "Block"} /\ buf' \in {buf, NoFile}
        BY <1>3, <2>3 DEF PurgeData, Finish, Return, Stop
      <3>2. Types'
        BY <1>0, <2>1, <3>1
      <3>3. Where'
        BY <2>1, <3>1
      <3> QED
        BY <2>1, <3>1, <3>2, <3>3
    <2> QED
      BY <2>2, <2>3
  <1>4. CASE RepairDrift
    BY <1>0, <1>4 DEF RepairDrift, Goto, Return, Stop
  <1>5. CASE ReplayData
    BY <1>5 DEF ReplayData
  <1>6. CASE ReplayIni
    BY <1>6 DEF ReplayIni, Goto
  <1>7. CASE ReplayEnd
    <2>1. /\ UNCHANGED <<ini, row, pending, own, mixed>> /\ pending = 0
          /\ task' = "idle" /\ pc' = "next" /\ jid' = FALSE /\ res' = "Block" /\ buf' = NoFile
      BY <1>7 DEF ReplayEnd, Return, Stop
    <2>2. Types'
      BY <1>0, <2>1
    <2>3. Where'
      BY <2>1
    <2> QED
      BY <2>1, <2>2, <2>3
  <1> QED
    BY <1>1, <1>2, <1>3, <1>4, <1>5, <1>6, <1>7

LEMMA EnsureSteps ==
  ASSUME IInv, EnsureNothing \/ EnsurePlan \/ EnsureIntent \/ EnsureBackup \/ EnsureWrite \/ MarkDone
  PROVE  IInv'
  <1>0. NoFile \in File /\ Utf16 \in File /\ Seq(Line) \subseteq File
    BY DEF File
  <1> USE DEF IInv, Types, Where, Steady, Provenance, Task, Restoring, Ensuring, durable, history, volatile
  <1>1. CASE EnsureNothing
    BY <1>0, <1>1 DEF EnsureNothing, Return, Stop
  <1>2. CASE EnsurePlan
    BY <1>2, PlanFacts, WrittenIsActive DEF EnsurePlan, File, Active
  <1>3. CASE EnsureIntent
    BY <1>3 DEF EnsureIntent, Goto
  <1>4. CASE EnsureBackup
    <2>1. /\ UNCHANGED <<ini, pending, own, mixed, task, jid, res, buf>>
          /\ pc = "backup" /\ pc' = "write"
          /\ row' = IF ini # NoFile THEN ini ELSE IF row = None THEN Marker ELSE row
      BY <1>4 DEF EnsureBackup, Goto
    <2>2. row' # None /\ row' \in {Marker, Utf16} \cup Seq(Line)
      BY <2>1, RowAssumption DEF File
    <2>3. Types'
      BY <2>1, <2>2
    <2>4. mixed = FALSE => ini \in {own, NoFile} /\ (ini = NoFile /\ row = None => own = NoFile)
      BY <2>1
    <2>5. mixed = FALSE => row' = Provenance
      BY <2>1, <2>4
    <2>6. Where'
      BY <2>1, <2>2, <2>4, <2>5
    <2> QED
      BY <2>1, <2>2, <2>3, <2>6
  <1>5. CASE EnsureWrite
    BY <1>5 DEF EnsureWrite, Goto, Active
  <1>6. CASE MarkDone
    <2>1. /\ UNCHANGED <<ini, row, own, mixed>> /\ pc = "done" /\ pending' = pending - 1
          /\ \/ pc' = "next" /\ task' = task /\ task = "recover" /\ UNCHANGED <<jid, res, buf>>
             \/ pc' = "data" /\ task' = "deploy" /\ jid' = FALSE /\ UNCHANGED <<res, buf>>
             \/ pc' = "next" /\ task' = "idle" /\ jid' = FALSE /\ res' = "Block" /\ buf' = NoFile
          /\ task' # "recover" => task # "recover"
      BY <1>6 DEF MarkDone, Goto, Finish, Return, Stop
    <2>2. Types'
      <3>1. pending' \in Nat
        BY <2>1
      <3>2. task' \in Task /\ jid' \in BOOLEAN
        BY <2>1
      <3>3. res' \in {"Block", "UseNexTwist"} /\ buf' \in File
        BY <1>0, <2>1
      <3> QED
        BY <2>1, <3>1, <3>2, <3>3
    <2>3. Where'
      BY <2>1
    <2> QED
      BY <2>1, <2>2, <2>3
  <1> QED
    BY <1>1, <1>2, <1>3, <1>4, <1>5, <1>6

LEMMA RestoreSteps ==
  ASSUME Calm, IInv, RestoreRemove \/ RestorePrune \/ RestoreCopy \/ RestoreForget \/ TornRestore
  PROVE  IInv'
  <1>0. NoFile \in File /\ Utf16 \in File /\ Seq(Line) \subseteq File
    BY DEF File
  <1> USE DEF IInv, Types, Where, Steady, Provenance, Task, Restoring, Ensuring, durable, history, volatile
  <1>1. CASE RestoreRemove
    BY <1>0, <1>1 DEF RestoreRemove, Goto
  <1>2. CASE RestorePrune
    <2>1. /\ UNCHANGED <<ini, row, pending, own, mixed, task, jid, res, buf>>
          /\ pc = "put" /\ row = Marker /\ pc' = "forget"
      BY <1>2 DEF RestorePrune, Goto
    <2>2. mixed = FALSE => own = NoFile
      BY <2>1, RowAssumption DEF File
    <2>3. Types' /\ Where'
      BY <2>1
    <2> QED
      BY <2>1, <2>2, <2>3
  <1>3. CASE RestoreCopy
    BY <1>0, <1>3, RowAssumption, NotLines DEF RestoreCopy, Goto
  <1>4. CASE RestoreForget
    BY <1>4 DEF RestoreForget, Goto
  <1>5. CASE TornRestore
    <2>1. PICK k \in 0 .. Len(row) - 1 : ini' = SubSeq(row, 1, k)
      BY <1>5 DEF TornRestore
    <2>2. row \in Seq(Line)
      BY <1>5 DEF TornRestore
    <2>3. ini' \in Seq(Line)
      BY <2>1, <2>2, LenProperties, SubSeqProperties
    <2>4. task' = "down"
      BY <1>5 DEF TornRestore, Calm, Fault, Stop
    <2> QED
      BY <1>0, <1>5, <2>3, <2>4 DEF TornRestore, Fault, Stop
  <1> QED
    BY <1>1, <1>2, <1>3, <1>4, <1>5

LEMMA UserSteps ==
  ASSUME Calm, IInv, UserDelete \/ UserEditLine \/ \E f \in UserFiles : UserSave(f)
  PROVE  IInv'
  <1>0. NoFile \in File /\ Utf16 \in File /\ Seq(Line) \subseteq File
    BY DEF File
  <1> USE DEF IInv, Types, Where, Steady, Provenance, Task, Restoring, Ensuring, durable, history, volatile
  <1>1. pending = 0 /\ task \in {"down", "idle"}
    BY DEF UserDelete, UserEditLine, UserSave, MayEdit, Running, Calm
  <1>2. CASE UserDelete
    BY <1>0, <1>1, <1>2 DEF UserDelete, MayEdit
  <1>3. CASE UserEditLine
    <2>1. ini' \in Seq(Line)
      <3>1. ini \in Seq(Line) /\ DOMAIN ini = 1 .. Len(ini)
        BY <1>3, LenProperties DEF UserEditLine, IsLines, File
      <3>2. "inv_other" \in Line /\ "dirs_user" \in Line
        BY DEF Line, InvalidateLine, DirsLine
      <3>3. PICK k \in DOMAIN ini : \/ ini' = [ini EXCEPT ![k] = "inv_other"]
                                    \/ ini' = [ini EXCEPT ![k] = "dirs_user"]
        BY <1>3 DEF UserEditLine
      <3> QED
        BY <3>1, <3>2, <3>3, ExceptSeq
    <2> QED
      <3>1. UNCHANGED <<row, pending, task, pc, jid, res, buf>>
        BY <1>3 DEF UserEditLine, MayEdit
      <3>2. (row = None /\ own' = ini' /\ mixed' = mixed) \/ (row # None /\ mixed' = TRUE /\ own' = own)
        <4>1. ~ (pending > 0)
          BY <1>1
        <4> QED
          BY <1>3, <4>1, Zenon DEF UserEditLine, Edited
      <3> QED
        BY <1>0, <1>1, <2>1, <3>1, <3>2
  <1>4. CASE \E f \in UserFiles : UserSave(f)
    <2>1. ini' \in File
      BY <1>0, <1>4, FileAssumption DEF UserSave
    <2> QED
      <3>1. UNCHANGED <<row, pending, task, pc, jid, res, buf>>
        BY <1>4 DEF UserSave, MayEdit
      <3>2. (row = None /\ own' = ini' /\ mixed' = mixed) \/ (row # None /\ mixed' = TRUE /\ own' = own)
        <4>1. ~ (pending > 0)
          BY <1>1
        <4> QED
          BY <1>4, <4>1, Zenon DEF UserSave, Edited
      <3> QED
        BY <1>1, <2>1, <3>1, <3>2
  <1> QED
    BY <1>2, <1>3, <1>4

-----------------------------------------------------------------------------
LEMMA StepIInv ==
  ASSUME Calm, IInv, [Next]_vars
  PROVE  IInv'
  <1>1. CASE UNCHANGED vars
    BY <1>1 DEF vars, durable, volatile, history, IInv, Types, Where, Steady, Provenance
  <1>2. CASE Next
    BY <1>2, ControlSteps, DataSteps, EnsureSteps, RestoreSteps, UserSteps DEF Next, Program
  <1> QED
    BY <1>1, <1>2

LEMMA InvHolds == Calm => (Spec => []IInv)
  <1> SUFFICES ASSUME Calm PROVE Spec => []IInv
    OBVIOUS
  <1>1. Init => IInv
    BY InitIInv
  <1>2. IInv /\ [Next]_vars => IInv'
    BY StepIInv
  <1> QED
    BY <1>1, <1>2, PTL DEF Spec

(* The user's INI is never lost, for every set of files they may save and   *)
(* any number of deploys, purges, crashes, errors and torn restores: until  *)
(* they edit an activated file, what they had is on disk or is what the     *)
(* provenance row restores (backup_ini_if_absent, restore_ini_at and their  *)
(* replay).                                                                 *)
THEOREM OriginalIsSafe == Calm => (Spec => []OriginalIniSafe)
  <1> SUFFICES ASSUME Calm PROVE Spec => []OriginalIniSafe
    OBVIOUS
  <1>1. IInv => OriginalIniSafe
    BY DEF IInv, Where, OriginalIniSafe
  <1> QED
    BY <1>1, InvHolds, PTL

(* Without a provenance row the file is the user's, byte for byte: neither  *)
(* a blocked activation nor a restored one leaves a trace.                  *)
THEOREM InactiveUntouched == Calm => (Spec => []InactiveIsUntouched)
  <1> SUFFICES ASSUME Calm PROVE Spec => []InactiveIsUntouched
    OBVIOUS
  <1>1. IInv => InactiveIsUntouched
    BY DEF IInv, Where, InactiveIsUntouched
  <1> QED
    BY <1>1, InvHolds, PTL

(* A command that runs ensure_ini_active to its end leaves a file that is   *)
(* active, or one it must not touch.                                        *)
THEOREM EnsureIsSettled == Calm => (Spec => EnsureSettles)
  <1> SUFFICES ASSUME Calm PROVE Spec => EnsureSettles
    OBVIOUS
  <1> DEFINE Settled ==
        (task \in {"deploy", "apply", "repair"} /\ task' = "idle" /\ pc \in {"read", "done"}
           /\ faults' = faults)
        => IsActive(ini') \/ Plan(ini', "Block").kind \in {"conflict", "unsupported"}
  <1>1. IInv /\ faults \in Nat /\ [Next]_vars => Settled
    <2> SUFFICES ASSUME IInv, faults \in Nat, [Next]_vars, task \in {"deploy", "apply", "repair"},
                        task' = "idle", pc \in {"read", "done"}, faults' = faults
                 PROVE  IsActive(ini') \/ Plan(ini', "Block").kind \in {"conflict", "unsupported"}
      OBVIOUS
    <2>1. ini \in File /\ res \in {"Block", "UseNexTwist"}
      BY DEF IInv, Types
    <2>2. ini' = ini /\ (EnsureNothing \/ ini \in Active)
      <3>1. CASE EnsureNothing
        BY <3>1 DEF EnsureNothing, durable
      <3>2. CASE MarkDone
        BY <3>2 DEF MarkDone, IInv, Steady
      <3>3. ~ Crash /\ ~ Fail /\ ~ TornRestore
        <4>1. faults + 1 # faults
          OBVIOUS
        <4> QED
          BY <4>1 DEF Crash, Fail, TornRestore, Fault
      <3>4. task' # task
        OBVIOUS
      <3>5. ~ UNCHANGED vars /\ ~ UserDelete /\ ~ UserEditLine /\ ~ \E f \in UserFiles : UserSave(f)
        BY <3>4 DEF vars, volatile, UserDelete, UserEditLine, UserSave, MayEdit
      <3>6. ~ StartDeploy /\ ~ StartPurge /\ ~ StartRedeploy /\ ~ StartRepair /\ ~ StartApply
            /\ ~ Launch /\ ~ Quit
        BY DEF StartDeploy, StartPurge, StartRedeploy, StartRepair, StartApply, Start, Launch, Quit
      <3>7. ~ DeployData /\ ~ PurgePlan /\ ~ PurgeData /\ ~ RepairDrift /\ ~ ReplayData
            /\ ~ ReplayIni /\ ~ ReplayEnd
        BY DEF DeployData, PurgePlan, PurgeData, RepairDrift, ReplayData, ReplayIni, ReplayEnd
      <3>8. ~ EnsurePlan /\ ~ EnsureIntent /\ ~ EnsureBackup /\ ~ EnsureWrite
        BY <3>4 DEF EnsurePlan, EnsureIntent, EnsureBackup, EnsureWrite, Goto
      <3>9. ~ RestoreRemove /\ ~ RestorePrune /\ ~ RestoreCopy /\ ~ RestoreForget
        BY DEF RestoreRemove, RestorePrune, RestoreCopy, RestoreForget
      <3> QED
        BY <3>1, <3>2, <3>3, <3>5, <3>6, <3>7, <3>8, <3>9 DEF Next, Program
    <2>3. CASE ini \in Active
      BY <2>1, <2>2, <2>3, PlanFacts
    <2>4. CASE EnsureNothing
      <3>1. Plan(ini, res).kind # "write" \/ IsActive(ini)
        BY <2>4 DEF EnsureNothing
      <3>2. IsActive(ini) \/ Plan(ini, "Block").kind \in {"conflict", "unsupported"}
        BY <2>1, <3>1, PlanFacts
      <3> QED
        BY <2>2, <3>2
    <2> QED
      BY <2>2, <2>3, <2>4
  <1>2. Init => faults \in Nat
    BY DEF Init
  <1>3. faults \in Nat /\ [Next]_vars => (faults \in Nat)'
    <2> SUFFICES ASSUME faults \in Nat, [Next]_vars PROVE faults' \in Nat
      OBVIOUS
    <2>1. CASE UNCHANGED vars
      BY <2>1 DEF vars, history
    <2>2. CASE UNCHANGED history
      BY <2>2 DEF history
    <2>3. CASE Crash \/ Fail \/ TornRestore
      BY <2>3 DEF Crash, Fail, TornRestore, Fault
    <2>4. CASE UserDelete \/ UserEditLine \/ \E f \in UserFiles : UserSave(f)
      BY <2>4 DEF UserDelete, UserEditLine, UserSave, MayEdit
    <2>5. CASE RestoreForget
      BY <2>5 DEF RestoreForget
    <2>6. CASE \/ StartDeploy \/ StartPurge \/ StartRedeploy \/ StartRepair \/ StartApply
               \/ Launch \/ Quit
      BY <2>6, <2>2 DEF StartDeploy, StartPurge, StartRedeploy, StartRepair, StartApply, Start,
                  Launch, Quit
    <2>7. CASE Program /\ ~ RestoreForget
      BY <2>7, <2>2 DEF Program, DeployData, PurgePlan, PurgeData, RepairDrift, EnsureNothing,
           EnsurePlan, EnsureIntent, EnsureBackup, EnsureWrite, RestoreRemove, RestorePrune,
           RestoreCopy, MarkDone, ReplayData, ReplayIni, ReplayEnd
    <2> QED
      BY <2>1, <2>3, <2>4, <2>5, <2>6, <2>7 DEF Next
  <1>4. Spec => [](faults \in Nat)
    BY <1>2, <1>3, PTL DEF Spec
  <1> HIDE DEF Settled
  <1>5. Spec => [][Settled]_vars
    BY <1>1, <1>4, InvHolds, PTL DEF Spec
  <1> QED
    BY <1>5, PTL DEF EnsureSettles, Settled

(* A value of sResourceDataDirsFinal the user chose is overwritten only     *)
(* when they asked for it, or by a restore of the file they had             *)
(* (detect_conflict and IniResolution::Block, through the steps between the *)
(* plan and the write).                                                     *)
THEOREM UserDirsAreKept == Calm => (Spec => UserDirsKept)
  <1> SUFFICES ASSUME Calm PROVE Spec => UserDirsKept
    OBVIOUS
  <1> DEFINE Kept == HasConflict(ini) /\ ini' # ini /\ Running
                       => (res = "UseNexTwist" \/ pc \in {"remove", "put"})
  <1>1. IInv /\ [Next]_vars => Kept
    <2> SUFFICES ASSUME IInv, [Next]_vars, HasConflict(ini), ini' # ini, Running
                 PROVE  res = "UseNexTwist" \/ pc \in {"remove", "put"}
      OBVIOUS
    <2>1. ini \in Conflicted
      BY PlanFacts DEF IInv, Types
    <2>2. CASE EnsureWrite
      BY <2>1, <2>2 DEF EnsureWrite, IInv, Steady, Ensuring
    <2>3. CASE RestoreRemove \/ RestoreCopy \/ TornRestore
      BY <2>3 DEF RestoreRemove, RestoreCopy, TornRestore
    <2>4. ~ UserDelete /\ ~ UserEditLine /\ ~ \E f \in UserFiles : UserSave(f)
      BY DEF UserDelete, UserEditLine, UserSave, MayEdit
    <2>5. ~ UNCHANGED vars /\ ~ Crash /\ ~ Fail
      BY DEF vars, durable, Crash, Fail
    <2>6. ~ StartDeploy /\ ~ StartPurge /\ ~ StartRedeploy /\ ~ StartRepair /\ ~ StartApply
          /\ ~ Launch /\ ~ Quit
      BY DEF StartDeploy, StartPurge, StartRedeploy, StartRepair, StartApply, Start, Launch, Quit,
             durable
    <2>7. ~ DeployData /\ ~ PurgePlan /\ ~ PurgeData /\ ~ RepairDrift /\ ~ ReplayData
          /\ ~ ReplayIni /\ ~ ReplayEnd
      BY DEF DeployData, PurgePlan, PurgeData, RepairDrift, ReplayData, ReplayIni, ReplayEnd, durable
    <2>8. ~ EnsureNothing /\ ~ EnsurePlan /\ ~ EnsureIntent /\ ~ EnsureBackup
          /\ ~ RestorePrune /\ ~ RestoreForget /\ ~ MarkDone
      BY DEF EnsureNothing, EnsurePlan, EnsureIntent, EnsureBackup, RestorePrune, RestoreForget,
             MarkDone, durable
    <2> QED
      BY <2>2, <2>3, <2>4, <2>5, <2>6, <2>7, <2>8 DEF Next, Program
  <1> HIDE DEF Kept
  <1>2. Spec => [][Kept]_vars
    BY <1>1, InvHolds, PTL DEF Spec
  <1> QED
    BY <1>2 DEF UserDirsKept, Kept
=============================================================================
