------------------------ MODULE FomodInstallerProofs ------------------------
(***************************************************************************)
(* Proofs about FomodInstaller, for all installers and archives, any       *)
(* number of calls in flight and of mod-list refreshes.                    *)
(*                                                                         *)
(* The resolver, the sort of the pages and the replay are proved too.      *)
(* They are built on FlattenSeq and on a recursive function over the       *)
(* items: what those compute is proved by induction on numbers, which      *)
(* needs no theorem with an operator parameter, because every non-empty    *)
(* set of numbers has a least one.                                         *)
(***************************************************************************)
EXTENDS FomodInstaller, SequenceTheorems, FiniteSetTheorems, TLAPS

(* Lists, whatever their elements are, and induction on their length.      *)
IsList(s) == s \in Seq(ToSet(s))

(* A function on 1 .. n is a list of that length, and every list is one.   *)
LEMMA ListOf ==
  ASSUME NEW s, NEW n \in Nat, DOMAIN s = 1 .. n, s = [i \in 1 .. n |-> s[i]]
  PROVE  IsList(s) /\ Len(s) = n
  <1>1. s \in [1 .. n -> ToSet(s)]
    BY DEF ToSet
  <1> QED
    BY <1>1 DEF IsList

(* What a list is, as a function.                                          *)
LEMMA ListIs ==
  ASSUME NEW s, IsList(s)
  PROVE  /\ Len(s) \in Nat /\ DOMAIN s = 1 .. Len(s) /\ s = [i \in 1 .. Len(s) |-> s[i]]
  <1> DEFINE S == ToSet(s)
  <1>1. s \in Seq(S)
    BY DEF IsList
  <1> HIDE DEF S
  <1> QED
    BY <1>1

(* Numbers have a least one, and so what holds of 0 and of each number's   *)
(* successor holds of all numbers.                                         *)
LEMMA LeastOfNumbers ==
  ASSUME NEW S \in SUBSET Nat, S # {}
  PROVE  \E x \in S : \A y \in S : x <= y
  <1> DEFINE less == {ss \in Nat \X Nat : ss[1] < ss[2]}
  <1>1. IsWellFoundedOn(less, Nat)
    BY NatLessThanWellFounded, Zenon DEF OpToRel
  <1>2. \A x, y \in Nat : y < x => <<y, x>> \in less
    OBVIOUS
  <1> HIDE DEF less
  <1>3. PICK x \in S : \A y \in S : ~ (<<y, x>> \in less)
    BY <1>1, WFMin
  <1>4. ASSUME NEW y \in S PROVE x <= y
    <2>1. x \in Nat /\ y \in Nat /\ ~ (<<y, x>> \in less)
      BY <1>3
    <2>2. ~ (y < x)
      BY <1>2, <2>1
    <2> QED
      BY <2>1, <2>2
  <1> QED
    BY <1>4

(* What holds of 0 and of the successor of each number it holds of holds of*)
(* all.                                                                    *)
LEMMA ByNumber ==
  ASSUME NEW T, 0 \in T, \A n \in Nat : n \in T => n + 1 \in T
  PROVE  Nat \subseteq T
  <1> SUFFICES ASSUME Nat \ T # {} PROVE FALSE
    OBVIOUS
  <1>1. PICK n \in Nat \ T : \A m \in Nat \ T : n <= m
    BY LeastOfNumbers
  <1>2. n - 1 \in Nat /\ n - 1 \notin Nat \ T
    BY <1>1
  <1> QED
    BY <1>1, <1>2

(* A sequence with one more element.                                       *)
LEMMA Appended ==
  ASSUME NEW X, NEW s \in Seq(X), NEW x \in X
  PROVE  /\ Append(s, x) \in Seq(X) /\ Len(s) \in Nat /\ Len(Append(s, x)) = Len(s) + 1
         /\ DOMAIN s = 1 .. Len(s) /\ DOMAIN Append(s, x) = 1 .. Len(s) + 1
         /\ \A i \in 1 .. Len(s) : Append(s, x)[i] = s[i]
         /\ Append(s, x)[Len(s) + 1] = x
  OBVIOUS

(* Two lists that are as long and agree at each place are one.             *)
LEMMA Sames ==
  ASSUME NEW s, NEW t, IsList(s), IsList(t), Len(s) = Len(t), \A i \in 1 .. Len(s) : s[i] = t[i]
  PROVE  s = t
  <1>1. /\ s = [i \in 1 .. Len(s) |-> s[i]] /\ t = [i \in 1 .. Len(t) |-> t[i]]
    BY ListIs
  <1> QED
    BY <1>1

(* A sequence over a set is a list, of elements of the set.                *)
LEMMA InSeq ==
  ASSUME NEW X, NEW s \in Seq(X)
  PROVE  /\ IsList(s) /\ ToSet(s) \subseteq X
         /\ Len(s) \in Nat /\ DOMAIN s = 1 .. Len(s) /\ \A i \in 1 .. Len(s) : s[i] \in X
  <1>1. Len(s) \in Nat /\ DOMAIN s = 1 .. Len(s) /\ s = [i \in 1 .. Len(s) |-> s[i]]
        /\ \A i \in 1 .. Len(s) : s[i] \in X
    OBVIOUS
  <1> QED
    BY <1>1, ListOf DEF ToSet

(* What holds of the empty sequence, and of a sequence with one more       *)
(* element when it holds of the sequence, holds of all sequences.          *)
LEMMA ByLength ==
  ASSUME NEW X, NEW T, <<>> \in T, \A s \in Seq(X), x \in X : s \in T => Append(s, x) \in T
  PROVE  Seq(X) \subseteq T
  <1> DEFINE N == {n \in Nat : \A s \in Seq(X) : Len(s) = n => s \in T}
  <1>1. 0 \in N
    <2>1. ASSUME NEW s \in Seq(X), Len(s) = 0 PROVE s = <<>>
      BY <2>1
    <2> QED
      BY <2>1
  <1>2. ASSUME NEW n \in Nat, n \in N PROVE n + 1 \in N
    <2> SUFFICES ASSUME NEW s \in Seq(X), Len(s) = n + 1 PROVE s \in T
      OBVIOUS
    <2> DEFINE t == [i \in 1 .. n |-> s[i]]
    <2>1. t \in Seq(X) /\ Len(t) = n /\ s[n + 1] \in X
      OBVIOUS
    <2>2. t \in T
      BY <1>2, <2>1
    <2>3. \A i \in 1 .. n : t[i] = s[i]
      OBVIOUS
    <2> HIDE DEF t
    <2>4. Append(t, s[n + 1]) = s
      <3> DEFINE a == Append(t, s[n + 1])
      <3>1. /\ a \in Seq(X) /\ Len(a) = n + 1 /\ a[n + 1] = s[n + 1]
            /\ \A i \in 1 .. n : a[i] = t[i]
        BY <2>1, Appended
      <3> HIDE DEF a
      <3>2. \A i \in 1 .. Len(a) : a[i] = s[i]
        BY <2>3, <3>1
      <3> QED
        BY <3>1, <3>2, Sames, InSeq DEF a
    <2> QED
      BY <2>1, <2>2, <2>4
  <1> HIDE DEF N
  <1>3. Nat \subseteq N
    BY <1>1, <1>2, ByNumber
  <1> QED
    BY <1>3 DEF N

-----------------------------------------------------------------------------
(* FlattenSeq: its recursion has one solution, and what that computes.     *)

(* f has what the first n lists of ss make, one behind the other.          *)
Joins(f, ss, n) ==
  /\ DOMAIN f = 1 .. n
  /\ \A i \in 0 .. n - 1 : f[i + 1] = IF i = 0 THEN ss[i + 1] ELSE f[i] \o ss[i + 1]

(* The same as the definition of FlattenSeq says it.                       *)
Flattens(f, ss, n) == \A i \in 1 .. n : f[i] = IF i = 1 THEN ss[i] ELSE f[i - 1] \o ss[i]

(* The two forms say the same.                                             *)
LEMMA JoinsAre ==
  ASSUME NEW ss, NEW n \in Nat, NEW f, DOMAIN f = 1 .. n
  PROVE  Joins(f, ss, n) <=> Flattens(f, ss, n)
  <1>1. ASSUME Joins(f, ss, n), NEW j \in 1 .. n
        PROVE  f[j] = IF j = 1 THEN ss[j] ELSE f[j - 1] \o ss[j]
    <2>1. PICK i \in 0 .. n - 1 : j - 1 = i
      OBVIOUS
    <2>2. j = i + 1 /\ (j = 1 <=> i = 0)
      BY <2>1
    <2>3. f[i + 1] = IF i = 0 THEN ss[i + 1] ELSE f[i] \o ss[i + 1]
      BY <1>1 DEF Joins
    <2> QED
      BY <2>1, <2>2, <2>3
  <1>2. ASSUME Flattens(f, ss, n), NEW i \in 0 .. n - 1
        PROVE  f[i + 1] = IF i = 0 THEN ss[i + 1] ELSE f[i] \o ss[i + 1]
    <2>1. PICK j \in 1 .. n : j = i + 1
      OBVIOUS
    <2>2. j - 1 = i /\ (j = 1 <=> i = 0)
      BY <2>1
    <2>3. f[j] = IF j = 1 THEN ss[j] ELSE f[j - 1] \o ss[j]
      BY <1>2 DEF Flattens
    <2>4. f[j] = IF i = 0 THEN ss[j] ELSE f[i] \o ss[j]
      BY <2>2, <2>3
    <2> QED
      BY <2>1, <2>4
  <1> QED
    BY <1>1, <1>2 DEF Joins, Flattens

(* Two such functions agree as far as both go.                             *)
LEMMA OneJoin ==
  ASSUME NEW ss, NEW m \in Nat, NEW n \in Nat, NEW f, Joins(f, ss, m), NEW g, Joins(g, ss, n),
         NEW k \in 1 .. m, k <= n
  PROVE  f[k] = g[k]
  <1> DEFINE T == {i \in Nat : i \in 1 .. m /\ i <= n => f[i] = g[i]}
  <1>1. 0 \in T
    OBVIOUS
  <1>2. ASSUME NEW i \in Nat, i \in T PROVE i + 1 \in T
    <2> SUFFICES ASSUME i + 1 \in 1 .. m, i + 1 <= n PROVE f[i + 1] = g[i + 1]
      OBVIOUS
    <2>1. i \in 0 .. m - 1 /\ i \in 0 .. n - 1
      OBVIOUS
    <2>2. /\ f[i + 1] = IF i = 0 THEN ss[i + 1] ELSE f[i] \o ss[i + 1]
          /\ g[i + 1] = IF i = 0 THEN ss[i + 1] ELSE g[i] \o ss[i + 1]
      BY <2>1 DEF Joins
    <2>3. i = 0 \/ f[i] = g[i]
      BY <1>2
    <2> QED
      BY <2>2, <2>3
  <1> HIDE DEF T
  <1>3. Nat \subseteq T
    BY <1>1, <1>2, ByNumber
  <1> QED
    BY <1>3 DEF T

(* There is such a function, so the CHOOSE in FlattenSeq picks one.        *)
LEMMA SomeJoin ==
  ASSUME NEW X, NEW ss \in Seq(Seq(X))
  PROVE  \E f \in [1 .. Len(ss) -> Seq(X)] : Joins(f, ss, Len(ss))
  <1> DEFINE Z == Len(ss)
             T == {n \in Nat : n <= Z => \E f \in [1 .. n -> Seq(X)] : Joins(f, ss, n)}
  <1>1. Z \in Nat /\ \A i \in 1 .. Z : ss[i] \in Seq(X)
    OBVIOUS
  <1> HIDE DEF Z
  <1>2. 0 \in T
    <2> DEFINE f == [i \in 1 .. 0 |-> <<>>]
    <2>1. f \in [1 .. 0 -> Seq(X)] /\ Joins(f, ss, 0)
      BY DEF Joins
    <2> QED
      BY <2>1
  <1>3. ASSUME NEW n \in Nat, n \in T PROVE n + 1 \in T
    <2> SUFFICES ASSUME n + 1 <= Z
                 PROVE  \E f \in [1 .. n + 1 -> Seq(X)] : Joins(f, ss, n + 1)
      OBVIOUS
    <2>1. PICK f \in [1 .. n -> Seq(X)] : Joins(f, ss, n)
      BY <1>1, <1>3
    <2> DEFINE last == IF n = 0 THEN ss[n + 1] ELSE f[n] \o ss[n + 1]
               g == [i \in 1 .. n + 1 |-> IF i = n + 1 THEN last ELSE f[i]]
    <2>2. last \in Seq(X)
      <3>1. ss[n + 1] \in Seq(X)
        BY <1>1
      <3>2. ASSUME n # 0 PROVE f[n] \o ss[n + 1] \in Seq(X)
        <4>1. f[n] \in Seq(X)
          BY <3>2
        <4> QED
          BY <3>1, <4>1
      <3> QED
        BY <3>1, <3>2
    <2> HIDE DEF last
    <2>3. /\ g \in [1 .. n + 1 -> Seq(X)] /\ DOMAIN g = 1 .. n + 1
          /\ g[n + 1] = last /\ \A i \in 1 .. n : g[i] = f[i]
      BY <2>2
    <2> HIDE DEF g
    <2>4. ASSUME NEW i \in 0 .. n
          PROVE  g[i + 1] = IF i = 0 THEN ss[i + 1] ELSE g[i] \o ss[i + 1]
      <3>1. CASE i = n
        <4>1. n = 0 \/ g[n] = f[n]
          BY <2>3
        <4> QED
          BY <2>3, <3>1, <4>1 DEF last
      <3>2. CASE i # n
        <4>1. i \in 0 .. n - 1 /\ i + 1 \in 1 .. n /\ (i = 0 \/ i \in 1 .. n)
          BY <3>2
        <4>2. f[i + 1] = IF i = 0 THEN ss[i + 1] ELSE f[i] \o ss[i + 1]
          BY <2>1, <4>1 DEF Joins
        <4>3. g[i + 1] = f[i + 1] /\ (i = 0 \/ g[i] = f[i])
          BY <2>3, <4>1
        <4> QED
          BY <4>2, <4>3
      <3> QED
        BY <3>1, <3>2
    <2>5. 0 .. n + 1 - 1 = 0 .. n
      OBVIOUS
    <2>6. Joins(g, ss, n + 1)
      BY <2>3, <2>4, <2>5 DEF Joins
    <2> QED
      BY <2>3, <2>6
  <1> HIDE DEF T
  <1>4. Z \in T
    BY <1>1, <1>2, <1>3, ByNumber
  <1> QED
    BY <1>1, <1>4 DEF T, Z

(* FlattenSeq is the last value of the function.                           *)
LEMMA FlattenIs ==
  ASSUME NEW X, NEW ss \in Seq(Seq(X)), Len(ss) # 0, NEW g, Joins(g, ss, Len(ss))
  PROVE  FlattenSeq(ss) = g[Len(ss)]
  <1> DEFINE Z == Len(ss)
             F(f) == [i \in 1 .. Z |-> IF i = 1 THEN ss[i] ELSE f[i - 1] \o ss[i]]
             h == CHOOSE f : f = F(f)
  <1>1. Z \in Nat \ {0}
    OBVIOUS
  <1>2. FlattenSeq(ss) = h[Z]
    BY DEF FlattenSeq
  <1>3. PICK f \in [1 .. Z -> Seq(X)] : Joins(f, ss, Z)
    BY SomeJoin
  <1>4. f = F(f)
    <2>1. Flattens(f, ss, Z)
      <3>1. DOMAIN f = 1 .. Z /\ Z \in Nat /\ Joins(f, ss, Z)
        BY <1>3
      <3> HIDE DEF Z, F
      <3> QED
        BY <3>1, JoinsAre
    <2> QED
      BY <2>1 DEF Flattens
  <1>5. h = F(h)
    <2> HIDE DEF F
    <2> QED
      BY <1>4
  <1> HIDE DEF h
  <1>6. Joins(h, ss, Z)
    <2> HIDE DEF Z
    <2>1. DOMAIN h = 1 .. Z /\ Flattens(h, ss, Z)
      BY <1>5 DEF Flattens
    <2> QED
      BY <1>1, <2>1, JoinsAre
  <1> HIDE DEF Z
  <1>7. h[Z] = g[Z]
    BY <1>1, <1>6, OneJoin DEF Z
  <1> QED
    BY <1>2, <1>7 DEF Z

(* Nothing joined is nothing.                                              *)
LEMMA FlattenEmpty ==
  ASSUME NEW ss, Len(ss) = 0
  PROVE  FlattenSeq(ss) = ss
  BY DEF FlattenSeq

(* Joined sequences over a set are a sequence over it.                     *)
LEMMA FlattenTyped ==
  ASSUME NEW X, NEW ss \in Seq(Seq(X))
  PROVE  FlattenSeq(ss) \in Seq(X)
  <1>1. CASE Len(ss) = 0
    <2>1. FlattenSeq(ss) = ss /\ ss = <<>>
      BY <1>1, FlattenEmpty
    <2> QED
      BY <2>1
  <1>2. CASE Len(ss) # 0
    <2>1. PICK f \in [1 .. Len(ss) -> Seq(X)] : Joins(f, ss, Len(ss))
      BY SomeJoin
    <2>2. FlattenSeq(ss) = f[Len(ss)]
      BY <1>2, <2>1, FlattenIs
    <2> DEFINE n == Len(ss)
    <2>3. n \in 1 .. n
      BY <1>2
    <2> HIDE DEF n
    <2>4. f \in [1 .. n -> Seq(X)]
      BY DEF n
    <2>5. f[n] \in Seq(X)
      BY <2>3, <2>4
    <2> QED
      BY <2>2, <2>5, Zenon DEF n
  <1> QED
    BY <1>1, <1>2

(* Cut off its last place, the function joins the lists before the last.   *)
LEMMA JoinsCut ==
  ASSUME NEW n \in Nat, NEW tt, NEW g, Joins(g, tt, n + 1), NEW ss, \A i \in 1 .. n : tt[i] = ss[i]
  PROVE  /\ Joins([i \in 1 .. n |-> g[i]], ss, n)
         /\ g[n + 1] = IF n = 0 THEN tt[n + 1] ELSE g[n] \o tt[n + 1]
  <1> DEFINE f == [i \in 1 .. n |-> g[i]]
  <1>1. \A i \in 0 .. n : g[i + 1] = IF i = 0 THEN tt[i + 1] ELSE g[i] \o tt[i + 1]
    <2> SUFFICES ASSUME NEW i \in 0 .. n
                 PROVE  g[i + 1] = IF i = 0 THEN tt[i + 1] ELSE g[i] \o tt[i + 1]
      OBVIOUS
    <2>1. i \in 0 .. n + 1 - 1
      OBVIOUS
    <2> QED
      BY <2>1 DEF Joins
  <1>2. DOMAIN f = 1 .. n /\ \A i \in 1 .. n : f[i] = g[i]
    OBVIOUS
  <1> HIDE DEF f
  <1>3. ASSUME NEW i \in 0 .. n - 1
        PROVE  f[i + 1] = IF i = 0 THEN ss[i + 1] ELSE f[i] \o ss[i + 1]
    <2>1. i \in 0 .. n /\ i + 1 \in 1 .. n /\ (i = 0 \/ i \in 1 .. n)
      OBVIOUS
    <2>2. g[i + 1] = IF i = 0 THEN tt[i + 1] ELSE g[i] \o tt[i + 1]
      BY <1>1, <2>1
    <2>3. f[i + 1] = g[i + 1] /\ tt[i + 1] = ss[i + 1] /\ (i = 0 \/ f[i] = g[i])
      BY <1>2, <2>1
    <2> QED
      BY <2>2, <2>3
  <1>4. Joins(f, ss, n)
    BY <1>2, <1>3 DEF Joins
  <1> QED
    BY <1>1, <1>4 DEF f

(* One more list goes behind what the others make.                         *)
LEMMA FlattenAppend ==
  ASSUME NEW X, NEW ss \in Seq(Seq(X)), NEW s \in Seq(X)
  PROVE  FlattenSeq(Append(ss, s)) = FlattenSeq(ss) \o s
  <1> DEFINE n == Len(ss)  tt == Append(ss, s)
  <1>1. /\ tt \in Seq(Seq(X)) /\ n \in Nat /\ Len(tt) = n + 1
        /\ \A i \in 1 .. n : tt[i] = ss[i]
        /\ tt[n + 1] = s
    BY Appended
  <1> HIDE DEF tt
  <1>2. PICK g \in [1 .. n + 1 -> Seq(X)] : Joins(g, tt, n + 1)
    BY <1>1, SomeJoin
  <1>3. FlattenSeq(tt) = g[n + 1]
    BY <1>1, <1>2, FlattenIs
  <1> DEFINE f == [i \in 1 .. n |-> g[i]]
  <1>4. Joins(f, ss, n) /\ g[n + 1] = IF n = 0 THEN tt[n + 1] ELSE g[n] \o tt[n + 1]
    <2> HIDE DEF n
    <2> QED
      BY <1>1, <1>2, JoinsCut
  <1>5. CASE n = 0
    <2>1. FlattenSeq(ss) = ss /\ ss = <<>>
      BY <1>5, FlattenEmpty
    <2>2. ss \o s = s
      BY <2>1
    <2> QED
      BY <1>1, <1>3, <1>4, <1>5, <2>1, <2>2 DEF tt
  <1>6. CASE n # 0
    <2>1. f[n] = g[n]
      BY <1>1, <1>6
    <2> HIDE DEF f
    <2>2. FlattenSeq(ss) = g[n]
      BY <1>4, <1>6, <2>1, FlattenIs
    <2> QED
      BY <1>1, <1>3, <1>4, <1>6, <2>2 DEF tt
  <1> QED
    BY <1>5, <1>6

-----------------------------------------------------------------------------
(* What is made of the elements of a list.                                 *)

(* f of each element.                                                      *)
Mapped(f, s) == [i \in DOMAIN s |-> f[s[i]]]

(* Every element of X goes to one of Y.                                    *)
Into(f, X, Y) == \A x \in X : f[x] \in Y

(* A list with one more element, whatever that is.                         *)
LEMMA AppendedList ==
  ASSUME NEW s, IsList(s), NEW x
  PROVE  /\ IsList(Append(s, x)) /\ Len(s) \in Nat /\ Len(Append(s, x)) = Len(s) + 1
         /\ \A i \in 1 .. Len(s) : Append(s, x)[i] = s[i]
         /\ Append(s, x)[Len(s) + 1] = x
  <1> DEFINE S == ToSet(s) \cup {x}
  <1>1. s \in Seq(S) /\ x \in S
    BY DEF IsList
  <1> HIDE DEF S
  <1>2. /\ Append(s, x) \in Seq(S) /\ Len(s) \in Nat /\ Len(Append(s, x)) = Len(s) + 1
        /\ \A i \in 1 .. Len(s) : Append(s, x)[i] = s[i]
        /\ Append(s, x)[Len(s) + 1] = x
    BY <1>1
  <1> QED
    BY <1>2, InSeq

(* A list behind another.                                                  *)
LEMMA ConcatenatedList ==
  ASSUME NEW s, NEW t, IsList(s), IsList(t)
  PROVE  /\ IsList(s \o t) /\ Len(s \o t) = Len(s) + Len(t) /\ Len(s) \in Nat /\ Len(t) \in Nat
         /\ \A i \in 1 .. Len(s) : (s \o t)[i] = s[i]
         /\ \A i \in 1 .. Len(t) : (s \o t)[Len(s) + i] = t[i]
  <1> DEFINE S == ToSet(s) \cup ToSet(t)
  <1>1. s \in Seq(S) /\ t \in Seq(S)
    BY DEF IsList
  <1> HIDE DEF S
  <1>2. s \o t \in Seq(S) /\ Len(s \o t) = Len(s) + Len(t) /\ Len(s) \in Nat /\ Len(t) \in Nat
         /\ (\A i \in 1 .. Len(s) : (s \o t)[i] = s[i])
         /\ (\A i \in 1 .. Len(t) : (s \o t)[Len(s) + i] = t[i])
    BY <1>1
  <1> QED
    BY <1>2, InSeq

(* Place by place.                                                         *)
LEMMA MappedIs ==
  ASSUME NEW f, NEW s, IsList(s)
  PROVE  /\ IsList(Mapped(f, s)) /\ Len(Mapped(f, s)) = Len(s)
         /\ \A i \in 1 .. Len(s) : Mapped(f, s)[i] = f[s[i]]
  <1> DEFINE t == [i \in 1 .. Len(s) |-> f[s[i]]]
  <1>1. Len(s) \in Nat /\ DOMAIN s = 1 .. Len(s)
    BY ListIs
  <1>2. Mapped(f, s) = t
    BY <1>1 DEF Mapped
  <1>3. t = [i \in 1 .. Len(s) |-> t[i]] /\ DOMAIN t = 1 .. Len(s) /\ \A i \in 1 .. Len(s) : t[i] = f[s[i]]
    OBVIOUS
  <1> HIDE DEF t
  <1> QED
    BY <1>1, <1>2, <1>3, ListOf

(* It is over the set that f goes into.                                    *)
LEMMA MappedTyped ==
  ASSUME NEW X, NEW Y, NEW f, Into(f, X, Y), NEW s \in Seq(X)
  PROVE  Mapped(f, s) \in Seq(Y)
  <1>1. Len(s) \in Nat /\ DOMAIN s = 1 .. Len(s) /\ \A i \in 1 .. Len(s) : f[s[i]] \in Y
    BY DEF Into
  <1>2. Mapped(f, s) = [i \in 1 .. Len(s) |-> f[s[i]]]
    BY <1>1 DEF Mapped
  <1> QED
    BY <1>1, <1>2

(* It commutes with one more element,                                      *)
LEMMA MappedAppend ==
  ASSUME NEW f, NEW s, IsList(s), NEW x
  PROVE  Mapped(f, Append(s, x)) = Append(Mapped(f, s), f[x])
  <1> DEFINE c == Append(s, x)  d == Mapped(f, s)  a == Mapped(f, c)  b == Append(d, f[x])
  <1>1. /\ IsList(c) /\ Len(c) = Len(s) + 1 /\ Len(s) \in Nat
        /\ \A i \in 1 .. Len(s) : c[i] = s[i]
        /\ c[Len(s) + 1] = x
    BY AppendedList
  <1>2. /\ IsList(d) /\ Len(d) = Len(s)
        /\ \A i \in 1 .. Len(s) : d[i] = f[s[i]]
    BY MappedIs
  <1>3. /\ IsList(a) /\ Len(a) = Len(s) + 1
        /\ \A i \in 1 .. Len(s) + 1 : a[i] = f[c[i]]
    <2> HIDE DEF c
    <2> QED
      BY <1>1, MappedIs
  <1>4. /\ IsList(b) /\ Len(b) = Len(s) + 1
        /\ \A i \in 1 .. Len(s) : b[i] = d[i]
        /\ b[Len(s) + 1] = f[x]
    <2> HIDE DEF d
    <2> QED
      BY <1>2, AppendedList
  <1> HIDE DEF a, b, c, d
  <1>5. \A i \in 1 .. Len(a) : a[i] = b[i]
    <2> SUFFICES ASSUME NEW i \in 1 .. Len(s) + 1 PROVE a[i] = b[i]
      BY <1>3
    <2>1. i = Len(s) + 1 \/ i \in 1 .. Len(s)
      BY <1>1
    <2> QED
      BY <1>1, <1>2, <1>3, <1>4, <2>1
  <1> QED
    BY <1>3, <1>4, <1>5, Sames DEF a, b, c, d

(* with one list behind another,                                           *)
LEMMA MappedConcat ==
  ASSUME NEW f, NEW s, NEW t, IsList(s), IsList(t)
  PROVE  Mapped(f, s \o t) = Mapped(f, s) \o Mapped(f, t)
  <1> DEFINE c == s \o t  d == Mapped(f, s)  e == Mapped(f, t)  a == Mapped(f, c)  b == d \o e
             m == Len(s)  n == Len(t)
  <1>1. /\ IsList(c) /\ Len(c) = m + n /\ m \in Nat /\ n \in Nat
        /\ \A i \in 1 .. m : c[i] = s[i]
        /\ \A i \in 1 .. n : c[m + i] = t[i]
    BY ConcatenatedList
  <1>2. /\ IsList(d) /\ Len(d) = m /\ \A i \in 1 .. m : d[i] = f[s[i]]
        /\ IsList(e) /\ Len(e) = n /\ \A i \in 1 .. n : e[i] = f[t[i]]
    BY MappedIs
  <1>3. /\ IsList(a) /\ Len(a) = m + n
        /\ \A i \in 1 .. m + n : a[i] = f[c[i]]
    <2> HIDE DEF c, m, n
    <2>1. /\ IsList(a) /\ Len(a) = Len(c)
          /\ \A i \in 1 .. Len(c) : a[i] = f[c[i]]
      BY <1>1, MappedIs
    <2>2. Len(c) = m + n
      BY <1>1
    <2> HIDE DEF a
    <2> QED
      BY <2>1, <2>2
  <1>4. /\ IsList(b) /\ Len(b) = m + n
        /\ \A i \in 1 .. m : b[i] = d[i]
        /\ \A i \in 1 .. n : b[m + i] = e[i]
    <2> HIDE DEF d, e, m, n
    <2> QED
      BY <1>2, ConcatenatedList
  <1> HIDE DEF a, b, c, d, e, m, n
  <1>5. ASSUME NEW i \in 1 .. m + n PROVE a[i] = b[i]
    <2>1. CASE i \in 1 .. m
      BY <1>1, <1>2, <1>3, <1>4, <2>1
    <2>2. CASE i \notin 1 .. m
      <3>1. PICK k \in 1 .. n : i = m + k
        <4>1. i - m \in 1 .. n /\ i = m + (i - m)
          BY <1>1, <2>2
        <4> QED
          BY <4>1
      <3>2. c[i] = t[k] /\ b[i] = e[k] /\ a[i] = f[c[i]] /\ e[k] = f[t[k]]
        BY <1>1, <1>2, <1>3, <1>4, <3>1
      <3> QED
        BY <3>2
    <2> QED
      BY <2>1, <2>2
  <1> QED
    BY <1>3, <1>4, <1>5, Sames DEF a, b, c, d, e

(* and with none.                                                          *)
LEMMA MappedEmpty ==
  ASSUME NEW f
  PROVE  Mapped(f, <<>>) = <<>>
  BY DEF Mapped

-----------------------------------------------------------------------------
(* FlattenSeq: what is in it, and how it commutes with what is done to the *)
(* elements.                                                               *)

HasAll(tt) == \A x : x \in ToSet(FlattenSeq(tt)) <=> \E i \in DOMAIN tt : x \in ToSet(tt[i])

(* What is in two lists one behind the other is in one of the two.         *)
LEMMA ConcatHas ==
  ASSUME NEW s, NEW t, IsList(s), IsList(t)
  PROVE  \A x : x \in ToSet(s \o t) <=> x \in ToSet(s) \/ x \in ToSet(t)
  <1> DEFINE c == s \o t  a == Len(s)  b == Len(t)
  <1>1. /\ IsList(c) /\ Len(c) = a + b /\ a \in Nat /\ b \in Nat
        /\ \A i \in 1 .. a : c[i] = s[i]
        /\ \A i \in 1 .. b : c[a + i] = t[i]
    BY ConcatenatedList
  <1>2. DOMAIN s = 1 .. a /\ DOMAIN t = 1 .. b
    BY ListIs
  <1>3. DOMAIN c = 1 .. a + b
    <2> HIDE DEF c, a, b
    <2> QED
      BY <1>1, ListIs
  <1> HIDE DEF a, b, c
  <1>4. ASSUME NEW x, x \in ToSet(c) PROVE x \in ToSet(s) \/ x \in ToSet(t)
    <2>1. PICK i \in 1 .. a + b : x = c[i]
      BY <1>3, <1>4 DEF ToSet
    <2>2. CASE i \in 1 .. a
      BY <1>1, <1>2, <2>1, <2>2 DEF ToSet
    <2>3. CASE i \notin 1 .. a
      <3>1. PICK k \in 1 .. b : i = a + k
        <4>1. i - a \in 1 .. b /\ i = a + (i - a)
          BY <1>1, <2>3
        <4> QED
          BY <4>1
      <3>2. x = t[k]
        BY <1>1, <2>1, <3>1
      <3> QED
        BY <1>2, <3>2 DEF ToSet
    <2> QED
      BY <2>2, <2>3
  <1>5. ASSUME NEW x, x \in ToSet(s) PROVE x \in ToSet(c)
    <2>1. PICK i \in 1 .. a : x = s[i]
      BY <1>2, <1>5 DEF ToSet
    <2>2. i \in 1 .. a + b /\ x = c[i]
      BY <1>1, <2>1
    <2> QED
      BY <1>3, <2>2 DEF ToSet
  <1>6. ASSUME NEW x, x \in ToSet(t) PROVE x \in ToSet(c)
    <2>1. PICK i \in 1 .. b : x = t[i]
      BY <1>2, <1>6 DEF ToSet
    <2>2. a + i \in 1 .. a + b /\ x = c[a + i]
      BY <1>1, <2>1
    <2> QED
      BY <1>3, <2>2 DEF ToSet
  <1> QED
    BY <1>4, <1>5, <1>6 DEF c

(* What is in joined lists is in one of them.                              *)
LEMMA FlattenHas ==
  ASSUME NEW X, NEW ss \in Seq(Seq(X))
  PROVE  HasAll(ss)
  <1> DEFINE T == {tt \in Seq(Seq(X)) : HasAll(tt)}
  <1>1. <<>> \in T
    <2>1. FlattenSeq(<<>>) = <<>>
      BY FlattenEmpty
    <2> QED
      BY <2>1 DEF ToSet, HasAll
  <1>2. ASSUME NEW tt \in Seq(Seq(X)), NEW s \in Seq(X), tt \in T PROVE Append(tt, s) \in T
    <2> DEFINE uu == Append(tt, s)  n == Len(tt)  f == FlattenSeq(tt)
    <2>1. /\ uu \in Seq(Seq(X)) /\ n \in Nat /\ DOMAIN uu = 1 .. n + 1 /\ DOMAIN tt = 1 .. n
          /\ \A i \in 1 .. n : uu[i] = tt[i]
          /\ uu[n + 1] = s
      BY Appended
    <2>2. f \in Seq(X) /\ FlattenSeq(uu) = f \o s
      BY FlattenTyped, FlattenAppend
    <2> HIDE DEF uu, n, f
    <2>3. \A x : x \in ToSet(f \o s) <=> x \in ToSet(f) \/ x \in ToSet(s)
      <3>1. IsList(f) /\ IsList(s)
        BY <2>2, InSeq
      <3> QED
        BY <3>1, ConcatHas
    <2>4. HasAll(tt)
      BY <1>2
    <2>5. \A x : (\E i \in DOMAIN uu : x \in ToSet(uu[i])) <=> (\E i \in DOMAIN tt : x \in ToSet(tt[i])) \/ x \in ToSet(s)
      <3>1. \A i : i \in 1 .. n + 1 <=> i \in 1 .. n \/ i = n + 1
        BY <2>1
      <3> QED
        BY <2>1, <3>1
    <2>6. HasAll(uu)
      BY <2>2, <2>3, <2>4, <2>5 DEF f, HasAll
    <2> QED
      BY <2>1, <2>6 DEF uu
  <1> HIDE DEF T
  <1>3. Seq(Seq(X)) \subseteq T
    BY <1>1, <1>2, ByLength
  <1>4. ss \in T
    BY <1>3
  <1> QED
    BY <1>4 DEF T

(* What is made of the elements may be made before the lists are joined.   *)
LEMMA FlattenMapped ==
  ASSUME NEW X, NEW Y, NEW f, Into(f, X, Y), NEW g, \A s \in Seq(X) : g[s] = Mapped(f, s),
         NEW ss \in Seq(Seq(X))
  PROVE  Mapped(f, FlattenSeq(ss)) = FlattenSeq(Mapped(g, ss))
  <1> DEFINE T == {tt \in Seq(Seq(X)) : Mapped(f, FlattenSeq(tt)) = FlattenSeq(Mapped(g, tt))}
  <1>1. <<>> \in T
    <2>1. FlattenSeq(<<>>) = <<>> /\ Mapped(f, <<>>) = <<>> /\ Mapped(g, <<>>) = <<>>
      BY FlattenEmpty, MappedEmpty
    <2> QED
      BY <2>1
  <1>2. ASSUME NEW tt \in Seq(Seq(X)), NEW s \in Seq(X), tt \in T PROVE Append(tt, s) \in T
    <2> DEFINE uu == Append(tt, s)
    <2>1. uu \in Seq(Seq(X))
      BY Appended
    <2>2. FlattenSeq(tt) \in Seq(X) /\ FlattenSeq(uu) = FlattenSeq(tt) \o s
      BY FlattenTyped, FlattenAppend
    <2>3. Mapped(f, FlattenSeq(uu)) = Mapped(f, FlattenSeq(tt)) \o g[s]
      <3> DEFINE h == FlattenSeq(tt)
      <3>1. IsList(h) /\ IsList(s) /\ FlattenSeq(uu) = h \o s /\ g[s] = Mapped(f, s)
        BY <2>2, InSeq
      <3> HIDE DEF h, uu
      <3>2. Mapped(f, h \o s) = Mapped(f, h) \o Mapped(f, s)
        BY <3>1, MappedConcat
      <3> QED
        BY <3>1, <3>2 DEF h
    <2>4. Mapped(g, uu) = Append(Mapped(g, tt), g[s]) /\ Mapped(g, tt) \in Seq(Seq(Y)) /\ g[s] \in Seq(Y)
      <3>1. IsList(tt)
        BY InSeq
      <3>2. Into(g, Seq(X), Seq(Y))
        BY MappedTyped DEF Into
      <3>3. g[s] \in Seq(Y)
        BY <3>2 DEF Into
      <3> QED
        BY <3>1, <3>2, <3>3, MappedAppend, MappedTyped
    <2>5. FlattenSeq(Mapped(g, uu)) = FlattenSeq(Mapped(g, tt)) \o g[s]
      BY <2>4, FlattenAppend
    <2>6. Mapped(f, FlattenSeq(tt)) = FlattenSeq(Mapped(g, tt))
      BY <1>2
    <2> HIDE DEF uu
    <2> QED
      BY <2>1, <2>3, <2>5, <2>6 DEF uu
  <1> HIDE DEF T
  <1>3. Seq(Seq(X)) \subseteq T
    BY <1>1, <1>2, ByLength
  <1> QED
    BY <1>3 DEF T

(* Lists of lists one behind the other, joined.                            *)
LEMMA FlattenConcat ==
  ASSUME NEW X, NEW ss \in Seq(Seq(X)), NEW tt \in Seq(Seq(X))
  PROVE  FlattenSeq(ss \o tt) = FlattenSeq(ss) \o FlattenSeq(tt)
  <1> DEFINE T == {uu \in Seq(Seq(X)) : FlattenSeq(ss \o uu) = FlattenSeq(ss) \o FlattenSeq(uu)}
  <1>1. <<>> \in T
    <2>1. FlattenSeq(<<>>) = <<>> /\ ss \o <<>> = ss /\ FlattenSeq(ss) \in Seq(X)
      BY FlattenEmpty, FlattenTyped
    <2>2. FlattenSeq(ss) \o <<>> = FlattenSeq(ss)
      BY <2>1
    <2> QED
      BY <2>1, <2>2
  <1>2. ASSUME NEW uu \in Seq(Seq(X)), NEW s \in Seq(X), uu \in T PROVE Append(uu, s) \in T
    <2>1. Append(uu, s) \in Seq(Seq(X)) /\ ss \o uu \in Seq(Seq(X))
      BY Appended, ConcatProperties
    <2>2. ss \o Append(uu, s) = Append(ss \o uu, s)
      OBVIOUS
    <2>3. FlattenSeq(Append(ss \o uu, s)) = FlattenSeq(ss \o uu) \o s
      BY <2>1, FlattenAppend
    <2>4. FlattenSeq(Append(uu, s)) = FlattenSeq(uu) \o s
      BY FlattenAppend
    <2>5. FlattenSeq(ss) \in Seq(X) /\ FlattenSeq(uu) \in Seq(X)
      BY FlattenTyped
    <2> DEFINE a == FlattenSeq(ss)  b == FlattenSeq(uu)
    <2>6. FlattenSeq(ss \o uu) = a \o b
      BY <1>2
    <2>7. (a \o b) \o s = a \o (b \o s)
      <3> HIDE DEF a, b
      <3> QED
        BY <2>5, ConcatAssociative DEF a, b
    <2> HIDE DEF a, b
    <2>8. FlattenSeq(ss \o Append(uu, s)) = a \o FlattenSeq(Append(uu, s))
      BY <2>2, <2>3, <2>4, <2>6, <2>7 DEF b
    <2> QED
      BY <2>1, <2>8 DEF a
  <1> HIDE DEF T
  <1>3. Seq(Seq(X)) \subseteq T
    BY <1>1, <1>2, ByLength
  <1> QED
    BY <1>3 DEF T

(* Joining twice is joining what each inner list of lists makes.           *)
LEMMA FlattenFlatten ==
  ASSUME NEW X, NEW g, \A ss \in Seq(Seq(X)) : g[ss] = FlattenSeq(ss),
         NEW sss \in Seq(Seq(Seq(X)))
  PROVE  FlattenSeq(FlattenSeq(sss)) = FlattenSeq(Mapped(g, sss))
  <1> DEFINE T == {tt \in Seq(Seq(Seq(X))) : FlattenSeq(FlattenSeq(tt)) = FlattenSeq(Mapped(g, tt))}
  <1>1. <<>> \in T
    <2>1. FlattenSeq(<<>>) = <<>> /\ Mapped(g, <<>>) = <<>>
      BY FlattenEmpty, MappedEmpty
    <2> QED
      BY <2>1
  <1>2. ASSUME NEW tt \in Seq(Seq(Seq(X))), NEW s \in Seq(Seq(X)), tt \in T PROVE Append(tt, s) \in T
    <2> DEFINE uu == Append(tt, s)
    <2>1. uu \in Seq(Seq(Seq(X)))
      BY Appended
    <2>2. FlattenSeq(tt) \in Seq(Seq(X)) /\ FlattenSeq(uu) = FlattenSeq(tt) \o s
      BY FlattenTyped, FlattenAppend
    <2>3. FlattenSeq(FlattenSeq(uu)) = FlattenSeq(FlattenSeq(tt)) \o g[s]
      <3> DEFINE h == FlattenSeq(tt)
      <3>1. h \in Seq(Seq(X)) /\ FlattenSeq(uu) = h \o s /\ g[s] = FlattenSeq(s)
        BY <2>2
      <3> HIDE DEF h, uu
      <3>2. FlattenSeq(h \o s) = FlattenSeq(h) \o FlattenSeq(s)
        BY <3>1, FlattenConcat
      <3> QED
        BY <3>1, <3>2 DEF h
    <2>4. Mapped(g, uu) = Append(Mapped(g, tt), g[s]) /\ Mapped(g, tt) \in Seq(Seq(X)) /\ g[s] \in Seq(X)
      <3>1. IsList(tt)
        BY InSeq
      <3>2. Into(g, Seq(Seq(X)), Seq(X))
        BY FlattenTyped DEF Into
      <3>3. g[s] \in Seq(X)
        BY <3>2 DEF Into
      <3> QED
        BY <3>1, <3>2, <3>3, MappedAppend, MappedTyped
    <2>5. FlattenSeq(Mapped(g, uu)) = FlattenSeq(Mapped(g, tt)) \o g[s]
      BY <2>4, FlattenAppend
    <2>6. FlattenSeq(FlattenSeq(tt)) = FlattenSeq(Mapped(g, tt))
      BY <1>2
    <2> HIDE DEF uu
    <2> QED
      BY <2>1, <2>3, <2>5, <2>6 DEF uu
  <1> HIDE DEF T
  <1>3. Seq(Seq(Seq(X))) \subseteq T
    BY <1>1, <1>2, ByLength
  <1> QED
    BY <1>3 DEF T

-----------------------------------------------------------------------------
(* Lists of lists, and what is chosen of a list.                           *)

(* A list of lists.                                                        *)
Lists(ss) == IsList(ss) /\ \A i \in 1 .. Len(ss) : IsList(ss[i])

(* Some set has all the elements, which the laws over a set ask for.       *)
LEMMA ListsTyped ==
  ASSUME NEW ss, Lists(ss)
  PROVE  \E X : ss \in Seq(Seq(X))
  <1> DEFINE X == UNION {ToSet(ss[i]) : i \in 1 .. Len(ss)}
  <1>1. ASSUME NEW i \in 1 .. Len(ss) PROVE ss[i] \in Seq(X)
    <2>1. ss[i] \in Seq(ToSet(ss[i])) /\ ToSet(ss[i]) \subseteq X
      BY DEF Lists, IsList
    <2> HIDE DEF X
    <2> QED
      BY <2>1
  <1>2. Len(ss) \in Nat /\ ss = [i \in 1 .. Len(ss) |-> ss[i]]
    BY ListIs DEF Lists
  <1> HIDE DEF X
  <1>3. ss \in [1 .. Len(ss) -> Seq(X)]
    BY <1>1, <1>2
  <1>4. ss \in Seq(Seq(X))
    BY <1>2, <1>3
  <1> QED
    BY <1>4

(* Joined lists are a list, with what is in them.                          *)
LEMMA FlattenLists ==
  ASSUME NEW ss, Lists(ss)
  PROVE  /\ IsList(FlattenSeq(ss))
         /\ \A x : x \in ToSet(FlattenSeq(ss)) <=> \E i \in 1 .. Len(ss) : x \in ToSet(ss[i])
  <1>1. PICK X : ss \in Seq(Seq(X))
    BY ListsTyped
  <1>2. FlattenSeq(ss) \in Seq(X) /\ HasAll(ss) /\ DOMAIN ss = 1 .. Len(ss)
    BY <1>1, FlattenTyped, FlattenHas
  <1> QED
    BY <1>2, InSeq DEF HasAll

(* The elements that are in S, in their order.                             *)
Kept(S, s) == FlattenSeq([i \in DOMAIN s |-> IF s[i] \in S THEN <<s[i]>> ELSE <<>>])

(* The lists of one element or none that are joined.                       *)
LEMMA KeptLists ==
  ASSUME NEW S, NEW s, IsList(s)
  PROVE  LET ss == [i \in DOMAIN s |-> IF s[i] \in S THEN <<s[i]>> ELSE <<>>] IN
         /\ Lists(ss) /\ Len(ss) = Len(s) /\ DOMAIN s = 1 .. Len(s)
         /\ \A i \in 1 .. Len(s) : ss[i] = IF s[i] \in S THEN <<s[i]>> ELSE <<>>
  <1> DEFINE ss == [i \in DOMAIN s |-> IF s[i] \in S THEN <<s[i]>> ELSE <<>>]
  <1>1. Len(s) \in Nat /\ DOMAIN s = 1 .. Len(s)
    BY ListIs
  <1>2. /\ DOMAIN ss = 1 .. Len(s) /\ ss = [i \in 1 .. Len(s) |-> ss[i]]
        /\ \A i \in 1 .. Len(s) : ss[i] = IF s[i] \in S THEN <<s[i]>> ELSE <<>>
    BY <1>1
  <1> HIDE DEF ss
  <1>3. IsList(ss) /\ Len(ss) = Len(s)
    BY <1>1, <1>2, ListOf
  <1>4. ASSUME NEW x PROVE IsList(<<x>>) /\ IsList(<<>>)
    BY DEF IsList, ToSet
  <1>5. \A i \in 1 .. Len(s) : IsList(ss[i])
    BY <1>2, <1>4
  <1> QED
    BY <1>1, <1>2, <1>3, <1>5 DEF Lists, ss

(* Kept is what is in both.                                                *)
LEMMA KeptHas ==
  ASSUME NEW S, NEW s, IsList(s)
  PROVE  IsList(Kept(S, s)) /\ ToSet(Kept(S, s)) = ToSet(s) \cap S
  <1> DEFINE ss == [i \in DOMAIN s |-> IF s[i] \in S THEN <<s[i]>> ELSE <<>>]
  <1>1. /\ Lists(ss) /\ Len(ss) = Len(s) /\ DOMAIN s = 1 .. Len(s)
        /\ \A i \in 1 .. Len(s) : ss[i] = IF s[i] \in S THEN <<s[i]>> ELSE <<>>
    BY KeptLists
  <1>2. Kept(S, s) = FlattenSeq(ss)
    BY DEF Kept
  <1> HIDE DEF ss
  <1>3. /\ IsList(FlattenSeq(ss))
        /\ \A x : x \in ToSet(FlattenSeq(ss)) <=> \E i \in 1 .. Len(ss) : x \in ToSet(ss[i])
    BY <1>1, FlattenLists
  <1>4. ASSUME NEW x, NEW y PROVE (x \in ToSet(<<y>>) <=> x = y) /\ x \notin ToSet(<<>>)
    BY DEF ToSet
  <1>5. ASSUME NEW x PROVE x \in ToSet(FlattenSeq(ss)) <=> x \in ToSet(s) /\ x \in S
    <2>1. \A i \in 1 .. Len(s) : x \in ToSet(ss[i]) <=> x = s[i] /\ s[i] \in S
      BY <1>1, <1>4
    <2>2. x \in ToSet(s) <=> \E i \in 1 .. Len(s) : x = s[i]
      BY <1>1 DEF ToSet
    <2> QED
      BY <1>1, <1>3, <2>1, <2>2
  <1> QED
    BY <1>2, <1>3, <1>5

(* The laws of FlattenSeq again, without a set of elements.                *)
LEMMA MapFlatten ==
  ASSUME NEW f, NEW ss, Lists(ss)
  PROVE  Mapped(f, FlattenSeq(ss)) = FlattenSeq([i \in 1 .. Len(ss) |-> Mapped(f, ss[i])])
  <1>1. PICK X : ss \in Seq(Seq(X))
    BY ListsTyped
  <1> DEFINE Y == {f[x] : x \in X}
             g == [s \in Seq(X) |-> Mapped(f, s)]
  <1>2. Into(f, X, Y) /\ \A s \in Seq(X) : g[s] = Mapped(f, s)
    BY DEF Into
  <1>3. DOMAIN ss = 1 .. Len(ss) /\ \A i \in 1 .. Len(ss) : ss[i] \in Seq(X)
    BY <1>1
  <1> HIDE DEF Y, g
  <1>4. Mapped(f, FlattenSeq(ss)) = FlattenSeq(Mapped(g, ss))
    BY <1>1, <1>2, FlattenMapped
  <1>5. Mapped(g, ss) = [i \in 1 .. Len(ss) |-> Mapped(f, ss[i])]
    <2>1. Mapped(g, ss) = [i \in 1 .. Len(ss) |-> g[ss[i]]]
      BY <1>3 DEF Mapped
    <2>2. \A i \in 1 .. Len(ss) : g[ss[i]] = Mapped(f, ss[i])
      BY <1>2, <1>3
    <2> QED
      BY <2>1, <2>2
  <1> QED
    BY <1>4, <1>5

(* Joining lists of lists from the inside.                                 *)
LEMMA FlattenDeep ==
  ASSUME NEW sss, IsList(sss), \A i \in 1 .. Len(sss) : Lists(sss[i])
  PROVE  FlattenSeq(FlattenSeq(sss)) = FlattenSeq([i \in 1 .. Len(sss) |-> FlattenSeq(sss[i])])
  <1> DEFINE Lst == UNION {{sss[i][j] : j \in 1 .. Len(sss[i])} : i \in 1 .. Len(sss)}
             X == UNION {ToSet(s) : s \in Lst}
             g == [ss \in Seq(Seq(X)) |-> FlattenSeq(ss)]
  <1>1. ASSUME NEW i \in 1 .. Len(sss) PROVE sss[i] \in Seq(Seq(X))
    <2>1. \A j \in 1 .. Len(sss[i]) : sss[i][j] \in Lst
      OBVIOUS
    <2>2. ASSUME NEW j \in 1 .. Len(sss[i]) PROVE sss[i][j] \in Seq(X)
      <3>1. ToSet(sss[i][j]) \subseteq X
        BY <2>1
      <3>2. sss[i][j] \in Seq(ToSet(sss[i][j]))
        BY DEF Lists, IsList
      <3> HIDE DEF X
      <3> QED
        BY <3>1, <3>2
    <2>3. Len(sss[i]) \in Nat /\ sss[i] = [j \in 1 .. Len(sss[i]) |-> sss[i][j]]
      BY ListIs DEF Lists
    <2> HIDE DEF X
    <2>4. sss[i] \in [1 .. Len(sss[i]) -> Seq(X)]
      BY <2>2, <2>3
    <2> QED
      BY <2>3, <2>4
  <1>2. \A ss \in Seq(Seq(X)) : g[ss] = FlattenSeq(ss)
    OBVIOUS
  <1> HIDE DEF X, Lst, g
  <1>3. Len(sss) \in Nat /\ sss = [i \in 1 .. Len(sss) |-> sss[i]] /\ DOMAIN sss = 1 .. Len(sss)
    BY ListIs
  <1>4. sss \in Seq(Seq(Seq(X)))
    <2>1. sss \in [1 .. Len(sss) -> Seq(Seq(X))]
      BY <1>1, <1>3
    <2> QED
      BY <1>3, <2>1
  <1>5. FlattenSeq(FlattenSeq(sss)) = FlattenSeq(Mapped(g, sss))
    BY <1>2, <1>4, FlattenFlatten
  <1>6. Mapped(g, sss) = [i \in 1 .. Len(sss) |-> FlattenSeq(sss[i])]
    <2>1. Mapped(g, sss) = [i \in 1 .. Len(sss) |-> g[sss[i]]]
      BY <1>3 DEF Mapped
    <2>2. \A i \in 1 .. Len(sss) : g[sss[i]] = FlattenSeq(sss[i])
      BY <1>1, <1>2
    <2> QED
      BY <2>1, <2>2
  <1> QED
    BY <1>5, <1>6

(* A function on 1 .. n that gives lists is a list of lists.               *)
LEMMA ListsBy ==
  ASSUME NEW n \in Nat, NEW ss, DOMAIN ss = 1 .. n, ss = [i \in 1 .. n |-> ss[i]],
         \A i \in 1 .. n : IsList(ss[i])
  PROVE  Lists(ss) /\ Len(ss) = n
  BY ListOf DEF Lists

(* Choosing from the lists before they are joined is choosing after.       *)
LEMMA KeptFlatten ==
  ASSUME NEW S, NEW ss, Lists(ss)
  PROVE  Kept(S, FlattenSeq(ss)) = FlattenSeq([i \in 1 .. Len(ss) |-> Kept(S, ss[i])])
  <1> DEFINE X == ToSet(FlattenSeq(ss))
             e == [x \in X |-> IF x \in S THEN <<x>> ELSE <<>>]
             E(s) == Mapped(e, s)
             tt == [i \in 1 .. Len(ss) |-> E(ss[i])]
  <1>1. /\ IsList(FlattenSeq(ss)) /\ Len(ss) \in Nat
        /\ \A i \in 1 .. Len(ss) : IsList(ss[i]) /\ ToSet(ss[i]) \subseteq X
    BY FlattenLists, ListIs DEF Lists
  <1>2. ASSUME NEW s, IsList(s), ToSet(s) \subseteq X
        PROVE  Kept(S, s) = FlattenSeq(E(s)) /\ Lists(E(s))
    <2> DEFINE u == [i \in DOMAIN s |-> IF s[i] \in S THEN <<s[i]>> ELSE <<>>]
    <2>1. \A i \in DOMAIN s : s[i] \in X
      BY <1>2 DEF ToSet
    <2> HIDE DEF X
    <2>2. E(s) = u
      BY <2>1 DEF Mapped
    <2> HIDE DEF E
    <2>3. Lists(u)
      BY <1>2, KeptLists
    <2> QED
      BY <2>2, <2>3 DEF Kept
  <1> HIDE DEF X, E
  <1>3. Kept(S, FlattenSeq(ss)) = FlattenSeq(E(FlattenSeq(ss)))
    BY <1>1, <1>2 DEF X
  <1>4. E(FlattenSeq(ss)) = FlattenSeq(tt)
    BY MapFlatten DEF E
  <1>5. IsList(tt) /\ Len(tt) = Len(ss) /\ \A i \in 1 .. Len(ss) : tt[i] = E(ss[i]) /\ Lists(tt[i])
    <2>1. DOMAIN tt = 1 .. Len(ss) /\ tt = [i \in 1 .. Len(ss) |-> tt[i]] /\ \A i \in 1 .. Len(ss) : tt[i] = E(ss[i])
      OBVIOUS
    <2> HIDE DEF tt
    <2> QED
      BY <1>1, <1>2, <2>1, ListOf
  <1> HIDE DEF tt
  <1>6. FlattenSeq(FlattenSeq(tt)) = FlattenSeq([i \in 1 .. Len(tt) |-> FlattenSeq(tt[i])])
    BY <1>5, FlattenDeep
  <1>7. [i \in 1 .. Len(tt) |-> FlattenSeq(tt[i])] = [i \in 1 .. Len(ss) |-> Kept(S, ss[i])]
    BY <1>1, <1>2, <1>5
  <1> QED
    BY <1>3, <1>4, <1>6, <1>7

(* Choosing by what becomes of the elements is choosing what becomes.      *)
LEMMA KeptMapped ==
  ASSUME NEW A, NEW B, NEW f, NEW s, IsList(s), \A i \in 1 .. Len(s) : f[s[i]] \in B <=> s[i] \in A
  PROVE  Kept(B, Mapped(f, s)) = Mapped(f, Kept(A, s))
  <1> DEFINE ss == [i \in DOMAIN s |-> IF s[i] \in A THEN <<s[i]>> ELSE <<>>]
             t == Mapped(f, s)
             tt == [i \in DOMAIN t |-> IF t[i] \in B THEN <<t[i]>> ELSE <<>>]
             n == Len(s)
  <1>1. /\ IsList(t) /\ Len(t) = n /\ \A i \in 1 .. n : t[i] = f[s[i]]
    BY MappedIs
  <1>2. DOMAIN t = 1 .. n /\ n \in Nat
    <2> HIDE DEF t, n
    <2>1. DOMAIN t = 1 .. Len(t) /\ Len(t) \in Nat
      BY <1>1, ListIs
    <2> QED
      BY <1>1, <2>1
  <1>3. /\ Lists(ss) /\ Len(ss) = n
        /\ \A i \in 1 .. n : ss[i] = IF s[i] \in A THEN <<s[i]>> ELSE <<>>
    BY KeptLists
  <1>4. Kept(A, s) = FlattenSeq(ss) /\ Kept(B, t) = FlattenSeq(tt)
    BY DEF Kept
  <1> HIDE DEF ss, t
  <1>5. Mapped(f, FlattenSeq(ss)) = FlattenSeq([i \in 1 .. Len(ss) |-> Mapped(f, ss[i])])
    BY <1>3, MapFlatten
  <1>6. ASSUME NEW x PROVE Mapped(f, <<x>>) = <<f[x]>> /\ Mapped(f, <<>>) = <<>>
    BY DEF Mapped
  <1> HIDE DEF n
  <1>7. ASSUME NEW i \in 1 .. n PROVE Mapped(f, ss[i]) = IF t[i] \in B THEN <<t[i]>> ELSE <<>>
    <2>1. f[s[i]] \in B <=> s[i] \in A
      BY DEF n
    <2>2. CASE s[i] \in A
      BY <1>1, <1>3, <1>6, <2>1, <2>2
    <2>3. CASE s[i] \notin A
      BY <1>1, <1>3, <1>6, <2>1, <2>3
    <2> QED
      BY <2>2, <2>3
  <1>8. [i \in 1 .. Len(ss) |-> Mapped(f, ss[i])] = tt
    BY <1>2, <1>3, <1>7
  <1> QED
    BY <1>4, <1>5, <1>8 DEF t

-----------------------------------------------------------------------------
(* The resolver: one item for each destination (dedup_by_priority).        *)

(* The plan after one more item.                                           *)
After(plan, it) ==
  IF it.dest \in DOMAIN plan /\ plan[it.dest].prio >= it.prio THEN plan ELSE Put(plan, it)

(* w has the plans after each number of items.                             *)
Wins(w, items, n) ==
  /\ DOMAIN w = 0 .. n
  /\ w[0] = <<>>
  /\ \A i \in 0 .. n - 1 : w[i + 1] = After(w[i], items[i + 1])

(* The i-th of the first n items has the highest priority of those for its *)
(* destination, and those before it a lower one.                           *)
FirstHighest(items, i, n) ==
  \A j \in 1 .. n : items[j].dest = items[i].dest =>
    items[j].prio <= items[i].prio /\ (j < i => items[j].prio < items[i].prio)

Best(plan, items, n) ==
  /\ DOMAIN plan = {items[i].dest : i \in 1 .. n}
  /\ \A d \in DOMAIN plan : \E i \in 1 .. n :
       plan[d] = items[i] /\ items[i].dest = d /\ FirstHighest(items, i, n)

(* There are such plans, so the recursion in DedupByPriority has a         *)
(* solution.                                                               *)
LEMMA SomeWinners ==
  ASSUME NEW items, NEW Z \in Nat
  PROVE  \E w : Wins(w, items, Z)
  <1> DEFINE T == {n \in Nat : \E w : Wins(w, items, n)}
  <1>1. 0 \in T
    <2> DEFINE w == [i \in 0 .. 0 |-> <<>>]
    <2>1. Wins(w, items, 0)
      BY DEF Wins
    <2> QED
      BY <2>1
  <1>2. ASSUME NEW n \in Nat, n \in T PROVE n + 1 \in T
    <2>1. PICK w : Wins(w, items, n)
      BY <1>2
    <2> DEFINE last == After(w[n], items[n + 1])
               v == [i \in 0 .. n + 1 |-> IF i = n + 1 THEN last ELSE w[i]]
    <2>2. DOMAIN v = 0 .. n + 1 /\ v[n + 1] = last /\ \A i \in 0 .. n : v[i] = w[i]
      OBVIOUS
    <2> HIDE DEF v
    <2>3. v[0] = <<>>
      BY <2>1, <2>2 DEF Wins
    <2>4. ASSUME NEW i \in 0 .. n PROVE v[i + 1] = After(v[i], items[i + 1])
      <3>1. CASE i = n
        BY <2>2, <3>1
      <3>2. CASE i # n
        <4>1. i \in 0 .. n - 1 /\ i + 1 \in 0 .. n
          BY <3>2
        <4>2. w[i + 1] = After(w[i], items[i + 1])
          BY <2>1, <4>1 DEF Wins
        <4> QED
          BY <2>2, <4>1, <4>2
      <3> QED
        BY <3>1, <3>2
    <2>5. 0 .. n + 1 - 1 = 0 .. n
      OBVIOUS
    <2>6. Wins(v, items, n + 1)
      BY <2>2, <2>3, <2>4, <2>5 DEF Wins
    <2> QED
      BY <2>6
  <1> HIDE DEF T
  <1>3. Nat \subseteq T
    BY <1>1, <1>2, ByNumber
  <1> QED
    BY <1>3 DEF T

(* One more item keeps the best in the plan.                               *)
LEMMA BestAfter ==
  ASSUME NEW items, NEW n \in Nat, NEW plan, Best(plan, items, n),
         \A i \in 1 .. n + 1 : items[i].prio \in Int
  PROVE  Best(After(plan, items[n + 1]), items, n + 1)
  <1> DEFINE it == items[n + 1]
  <1>1. \A i : i \in 1 .. n + 1 <=> i \in 1 .. n \/ i = n + 1
    OBVIOUS
  <1>2. DOMAIN plan = {items[i].dest : i \in 1 .. n}
    BY DEF Best
  <1>3. ASSUME NEW d \in DOMAIN plan
        PROVE  \E i \in 1 .. n : plan[d] = items[i] /\ items[i].dest = d /\ FirstHighest(items, i, n)
    BY DEF Best
  <1>4. ASSUME NEW d \in DOMAIN plan, d # it.dest \/ it.prio <= plan[d].prio
        PROVE  \E i \in 1 .. n + 1 : plan[d] = items[i] /\ items[i].dest = d /\ FirstHighest(items, i, n + 1)
    <2>1. PICK i \in 1 .. n : plan[d] = items[i] /\ items[i].dest = d /\ FirstHighest(items, i, n)
      BY <1>3
    <2>2. it.dest = items[i].dest => it.prio <= items[i].prio
      BY <1>4, <2>1
    <2>3. ~ (n + 1 < i) /\ i \in 1 .. n + 1
      OBVIOUS
    <2>4. FirstHighest(items, i, n + 1)
      BY <1>1, <2>1, <2>2, <2>3 DEF FirstHighest
    <2> QED
      BY <2>1, <2>3, <2>4
  <1>5. CASE it.dest \in DOMAIN plan /\ plan[it.dest].prio >= it.prio
    <2>1. After(plan, it) = plan
      BY <1>5 DEF After
    <2>2. plan[it.dest].prio \in Int
      BY <1>1, <1>3, <1>5
    <2>3. it.prio <= plan[it.dest].prio
      BY <1>1, <1>5, <2>2
    <2>4. DOMAIN plan = {items[i].dest : i \in 1 .. n + 1}
      BY <1>1, <1>2, <1>5
    <2>5. \A d \in DOMAIN plan : \E i \in 1 .. n + 1 :
            plan[d] = items[i] /\ items[i].dest = d /\ FirstHighest(items, i, n + 1)
      BY <1>4, <2>3
    <2> HIDE DEF it
    <2> QED
      BY <2>1, <2>4, <2>5 DEF Best, it
  <1>6. CASE ~ (it.dest \in DOMAIN plan /\ plan[it.dest].prio >= it.prio)
    <2> DEFINE put == Put(plan, it)
    <2>1. After(plan, it) = put
      BY <1>6 DEF After
    <2>2. /\ DOMAIN put = DOMAIN plan \cup {it.dest}
          /\ put[it.dest] = it
          /\ \A d \in DOMAIN plan : d # it.dest => put[d] = plan[d]
      BY DEF Put
    <2>3. FirstHighest(items, n + 1, n + 1)
      <3>1. ASSUME NEW j \in 1 .. n, items[j].dest = it.dest PROVE items[j].prio < it.prio
        <4>1. it.dest \in DOMAIN plan
          BY <1>2, <3>1
        <4>2. PICK i \in 1 .. n : plan[it.dest] = items[i] /\ items[i].dest = it.dest /\ FirstHighest(items, i, n)
          BY <1>3, <4>1
        <4>3. items[j].prio <= items[i].prio
          BY <3>1, <4>2 DEF FirstHighest
        <4>4. ~ (items[i].prio >= it.prio)
          BY <1>6, <4>1, <4>2
        <4>5. items[j].prio \in Int /\ items[i].prio \in Int /\ it.prio \in Int
          BY <1>1
        <4> HIDE DEF it
        <4> QED
          BY <4>3, <4>4, <4>5
      <3>2. it.prio \in Int /\ \A j \in 1 .. n : items[j].prio \in Int
        BY <1>1
      <3>3. ~ (n + 1 < n + 1) /\ it.prio <= it.prio
        BY <3>2
      <3>4. ASSUME NEW j \in 1 .. n, items[j].dest = it.dest PROVE items[j].prio <= it.prio /\ items[j].prio < it.prio
        BY <3>1, <3>2, <3>4
      <3> QED
        BY <1>1, <3>3, <3>4 DEF FirstHighest
    <2> HIDE DEF put
    <2>4. DOMAIN put = {items[i].dest : i \in 1 .. n + 1}
      BY <1>1, <1>2, <2>2
    <2>5. ASSUME NEW d \in DOMAIN put
          PROVE  \E i \in 1 .. n + 1 : put[d] = items[i] /\ items[i].dest = d /\ FirstHighest(items, i, n + 1)
      <3>1. CASE d = it.dest
        BY <1>1, <2>2, <2>3, <3>1
      <3>2. CASE d # it.dest
        BY <1>4, <2>2, <3>2
      <3> QED
        BY <3>1, <3>2
    <2> QED
      BY <2>1, <2>4, <2>5 DEF Best, put
  <1> QED
    BY <1>5, <1>6

(* So the plan after the last item has the best of all.                    *)
LEMMA BestWins ==
  ASSUME NEW items, NEW Z \in Nat, \A i \in 1 .. Z : items[i].prio \in Int, NEW w, Wins(w, items, Z)
  PROVE  Best(w[Z], items, Z)
  <1> DEFINE T == {n \in Nat : n <= Z => Best(w[n], items, n)}
  <1>1. 0 \in T
    BY DEF Wins, Best
  <1>2. ASSUME NEW n \in Nat, n \in T PROVE n + 1 \in T
    <2> SUFFICES ASSUME n + 1 <= Z PROVE Best(w[n + 1], items, n + 1)
      OBVIOUS
    <2>1. Best(w[n], items, n) /\ n \in 0 .. Z - 1 /\ \A i \in 1 .. n + 1 : i \in 1 .. Z
      BY <1>2
    <2>2. w[n + 1] = After(w[n], items[n + 1])
      BY <2>1 DEF Wins
    <2> QED
      BY <2>1, <2>2, BestAfter
  <1> HIDE DEF T
  <1>3. Z \in T
    BY <1>1, <1>2, ByNumber
  <1> QED
    BY <1>3 DEF T

(* dedup_by_priority.                                                      *)
LEMMA DedupBest ==
  ASSUME NEW items, Len(items) \in Nat, \A i \in 1 .. Len(items) : items[i].prio \in Int
  PROVE  Best(DedupByPriority(items), items, Len(items))
  <1> DEFINE Z == Len(items)
             F(w) == [n \in 0 .. Z |-> IF n = 0 THEN <<>>
                        ELSE LET before == w[n - 1]
                                 it     == items[n]
                             IN IF it.dest \in DOMAIN before /\ before[it.dest].prio >= it.prio
                                THEN before ELSE Put(before, it)]
             h == CHOOSE w : w = F(w)
  <1>1. DedupByPriority(items) = h[Z]
    BY DEF DedupByPriority
  <1>2. ASSUME NEW w PROVE F(w) = [n \in 0 .. Z |-> IF n = 0 THEN <<>> ELSE After(w[n - 1], items[n])]
    BY DEF After
  <1>3. PICK w : Wins(w, items, Z)
    BY SomeWinners
  <1>4. \E v : v = F(v)
    <2> DEFINE v == [i \in 0 .. Z |-> w[i]]
    <2>1. v = F(v)
      <3>1. ASSUME NEW n \in 0 .. Z PROVE v[n] = IF n = 0 THEN <<>> ELSE After(v[n - 1], items[n])
        <4>1. CASE n = 0
          BY <1>3, <4>1 DEF Wins
        <4>2. CASE n # 0
          <5>1. PICK i \in 0 .. Z - 1 : n = i + 1
            <6>1. n - 1 \in 0 .. Z - 1 /\ n = n - 1 + 1
              BY <4>2
            <6> QED
              BY <6>1
          <5>2. w[i + 1] = After(w[i], items[i + 1]) /\ n - 1 = i
            BY <1>3, <5>1 DEF Wins
          <5> QED
            BY <4>2, <5>1, <5>2
        <4> QED
          BY <4>1, <4>2
      <3>2. v = [n \in 0 .. Z |-> IF n = 0 THEN <<>> ELSE After(v[n - 1], items[n])]
        BY <3>1
      <3> HIDE DEF v, F
      <3> QED
        BY <1>2, <3>2
    <2> HIDE DEF F, v
    <2> QED
      BY <2>1
  <1>5. h = F(h)
    <2> HIDE DEF F
    <2> QED
      BY <1>4
  <1> HIDE DEF h
  <1>6. h = [n \in 0 .. Z |-> IF n = 0 THEN <<>> ELSE After(h[n - 1], items[n])]
    <2> HIDE DEF F
    <2> QED
      BY <1>2, <1>5
  <1> HIDE DEF F, Z
  <1>7. Wins(h, items, Z)
    <2>1. Z \in Nat
      BY DEF Z
    <2>2. DOMAIN h = 0 .. Z
      BY <1>6
    <2>3. h[0] = <<>>
      BY <1>6, <2>1
    <2>4. ASSUME NEW i \in 0 .. Z - 1 PROVE h[i + 1] = After(h[i], items[i + 1])
      <3>1. PICK n \in 0 .. Z : n = i + 1
        BY <2>1
      <3>2. n # 0 /\ n - 1 = i
        BY <3>1
      <3>3. h[n] = IF n = 0 THEN <<>> ELSE After(h[n - 1], items[n])
        BY <1>6
      <3> QED
        BY <3>1, <3>2, <3>3
    <2> QED
      BY <2>2, <2>3, <2>4 DEF Wins
  <1>8. Best(h[Z], items, Z)
    BY <1>7, BestWins DEF Z
  <1> QED
    BY <1>1, <1>8 DEF Z

(* A list of items, as far as their priorities go.                         *)
Items(s) == IsList(s) /\ \A x \in ToSet(s) : x.prio \in Int

(* The empty list has no item in it.                                       *)
LEMMA Nothing == Items(<<>>) /\ IsList(<<>>) /\ ToSet(<<>>) = {}
  BY DEF Items, IsList, ToSet

(* A list that the parser made.                                            *)
LEMMA ItemsAre ==
  ASSUME NEW s, Each(s, IsItem)
  PROVE  Items(s)
  BY DEF Each, IsItem, Items, IsList, ToSet

(* What is made of each element is a list of items, and so is all of it.   *)
LEMMA ItemsJoined ==
  ASSUME NEW n \in Nat, NEW ss, DOMAIN ss = 1 .. n, ss = [i \in 1 .. n |-> ss[i]],
         \A i \in 1 .. n : Items(ss[i])
  PROVE  Items(FlattenSeq(ss))
  <1>1. Lists(ss) /\ Len(ss) = n
    BY ListsBy DEF Items
  <1>2. /\ IsList(FlattenSeq(ss))
        /\ \A x : x \in ToSet(FlattenSeq(ss)) <=> \E i \in 1 .. Len(ss) : x \in ToSet(ss[i])
    BY <1>1, FlattenLists
  <1> QED
    BY <1>1, <1>2 DEF Items

(* Two of them, one behind the other.                                      *)
LEMMA ItemsConcat ==
  ASSUME NEW s, NEW t, Items(s), Items(t)
  PROVE  Items(s \o t)
  <1>1. IsList(s \o t)
    BY ConcatenatedList DEF Items
  <1>2. \A x : x \in ToSet(s \o t) <=> x \in ToSet(s) \/ x \in ToSet(t)
    BY ConcatHas DEF Items
  <1> QED
    BY <1>1, <1>2 DEF Items

(* Every entry of an installer is one of its plugins, in its place.        *)
LEMMA EntriesAre ==
  ASSUME NEW m \in Module
  PROVE  IsList(Entries[m]) /\ \A e \in ToSet(Entries[m]) : IsPlugin(e.it)
  <1> DEFINE Ent(st, g) == [i \in DOMAIN g.plugins |->
                              [id |-> <<st.name, g.name, g.plugins[i].name>>,
                               visible |-> st.visible, type |-> g.type, it |-> g.plugins[i]]]
             OnStep(st) == FlattenSeq([j \in DOMAIN st.groups |-> Ent(st, st.groups[j])])
             steps == Schema[m].steps
             Good(s) == IsList(s) /\ \A e \in ToSet(s) : IsPlugin(e.it)
  <1>1. Entries[m] = FlattenSeq([i \in DOMAIN steps |-> OnStep(steps[i])])
    BY DEF Entries, FlatMap
  <1>2. Each(steps, IsStep)
    BY ModuleAssumption DEF IsModule
  <1>3. ASSUME NEW n \in Nat, NEW ss, DOMAIN ss = 1 .. n, ss = [i \in 1 .. n |-> ss[i]],
               \A i \in 1 .. n : Good(ss[i])
        PROVE  Good(FlattenSeq(ss))
    <2>1. Lists(ss) /\ Len(ss) = n
      BY <1>3, ListsBy
    <2>2. /\ IsList(FlattenSeq(ss))
          /\ \A x : x \in ToSet(FlattenSeq(ss)) <=> \E i \in 1 .. Len(ss) : x \in ToSet(ss[i])
      BY <2>1, FlattenLists
    <2> QED
      BY <1>3, <2>1, <2>2
  <1>4. ASSUME NEW st, NEW g, IsGroup(g) PROVE Good(Ent(st, g))
    <2>1. IsList(g.plugins) /\ \A i \in DOMAIN g.plugins : IsPlugin(g.plugins[i])
      BY <1>4 DEF IsGroup, Each, IsList
    <2>2. DOMAIN g.plugins = 1 .. Len(g.plugins) /\ Len(g.plugins) \in Nat
      BY <2>1, ListIs
    <2> DEFINE s == Ent(st, g)
    <2>3. /\ DOMAIN s = 1 .. Len(g.plugins)
          /\ \A i \in 1 .. Len(g.plugins) : s[i].it = g.plugins[i]
      BY <2>2
    <2>4. s = [i \in 1 .. Len(g.plugins) |-> s[i]]
      BY <2>2
    <2> HIDE DEF s, Ent
    <2>5. IsList(s)
      BY <2>2, <2>3, <2>4, ListOf
    <2>6. \A e \in ToSet(s) : IsPlugin(e.it)
      BY <2>1, <2>2, <2>3 DEF ToSet
    <2> QED
      BY <2>5, <2>6 DEF s
  <1> HIDE DEF Ent, Good
  <1>5. ASSUME NEW st, IsStep(st) PROVE Good(OnStep(st))
    <2>1. IsList(st.groups) /\ \A j \in DOMAIN st.groups : IsGroup(st.groups[j])
      BY <1>5 DEF IsStep, Each, IsList
    <2>2. DOMAIN st.groups = 1 .. Len(st.groups) /\ Len(st.groups) \in Nat
      BY <2>1, ListIs
    <2> DEFINE ss == [j \in DOMAIN st.groups |-> Ent(st, st.groups[j])]
    <2>3. DOMAIN ss = 1 .. Len(st.groups) /\ ss = [j \in 1 .. Len(st.groups) |-> ss[j]]
          /\ \A j \in 1 .. Len(st.groups) : ss[j] = Ent(st, st.groups[j])
      BY <2>2
    <2> HIDE DEF ss
    <2>4. \A j \in 1 .. Len(st.groups) : Good(ss[j])
      BY <1>4, <2>1, <2>2, <2>3
    <2>5. Good(FlattenSeq(ss))
      BY <1>3, <2>2, <2>3, <2>4
    <2> QED
      BY <2>5 DEF ss
  <1>6. IsList(steps) /\ \A j \in DOMAIN steps : IsStep(steps[j])
    BY <1>2 DEF Each, IsList
  <1>7. DOMAIN steps = 1 .. Len(steps) /\ Len(steps) \in Nat
    BY <1>6, ListIs
  <1> DEFINE ss == [j \in DOMAIN steps |-> OnStep(steps[j])]
  <1> HIDE DEF OnStep, steps
  <1>8. DOMAIN ss = 1 .. Len(steps) /\ ss = [j \in 1 .. Len(steps) |-> ss[j]]
        /\ \A j \in 1 .. Len(steps) : ss[j] = OnStep(steps[j])
    BY <1>7
  <1> HIDE DEF ss
  <1>9. \A j \in 1 .. Len(steps) : Good(ss[j])
    BY <1>5, <1>6, <1>7, <1>8
  <1>10. Good(FlattenSeq(ss))
    BY <1>3, <1>7, <1>8, <1>9
  <1> QED
    BY <1>1, <1>10 DEF Good, ss

(* The shown ones are some of them.                                        *)
LEMMA ShownAre ==
  ASSUME NEW m \in Module, NEW sel
  PROVE  IsList(Shown(m, sel)) /\ \A e \in ToSet(Shown(m, sel)) : IsPlugin(e.it)
  <1> DEFINE es == Entries[m]
             S == {e \in ToSet(es) : Met(e.visible, sel.flags)}
  <1>1. Shown(m, sel) = Kept(S, es)
    <2>1. \A i \in DOMAIN es : es[i] \in S <=> Met(es[i].visible, sel.flags)
      BY DEF ToSet
    <2>2. Shown(m, sel) = FlattenSeq([i \in DOMAIN es |-> IF Met(es[i].visible, sel.flags) THEN <<es[i]>> ELSE <<>>])
      BY DEF Shown, Where, FlatMap
    <2> HIDE DEF S, es
    <2>3. [i \in DOMAIN es |-> IF Met(es[i].visible, sel.flags) THEN <<es[i]>> ELSE <<>>]
            = [i \in DOMAIN es |-> IF es[i] \in S THEN <<es[i]>> ELSE <<>>]
      BY <2>1
    <2> QED
      BY <2>2, <2>3 DEF Kept
  <1>2. IsList(es) /\ \A e \in ToSet(es) : IsPlugin(e.it)
    BY EntriesAre
  <1> HIDE DEF es, S
  <1>3. IsList(Kept(S, es)) /\ ToSet(Kept(S, es)) = ToSet(es) \cap S
    BY <1>2, KeptHas
  <1> QED
    BY <1>1, <1>2, <1>3

(* What a plugin contributes are items of its own.                         *)
LEMMA PluginItemsAre ==
  ASSUME NEW p, IsPlugin(p), NEW selected, NEW flags
  PROVE  Items(PluginItems(p, selected, flags))
  <1>1. CASE p.files = None
    BY <1>1, Nothing DEF PluginItems
  <1>2. CASE p.files # None
    <2> DEFINE Yes(it) == selected \/ it.always \/ (it.usable /\ TypeState(p.type, flags) # "NotUsable")
               fs == p.files
               S == {it \in ToSet(fs) : Yes(it)}
    <2>1. Items(fs)
      BY <1>2, ItemsAre DEF IsPlugin
    <2>2. PluginItems(p, selected, flags) = FlattenSeq([i \in DOMAIN fs |-> IF Yes(fs[i]) THEN <<fs[i]>> ELSE <<>>])
      BY <1>2 DEF PluginItems, Where, FlatMap
    <2>3. \A i \in DOMAIN fs : fs[i] \in S <=> Yes(fs[i])
      BY DEF ToSet
    <2> HIDE DEF Yes, fs, S
    <2>4. PluginItems(p, selected, flags) = Kept(S, fs)
      BY <2>2, <2>3 DEF Kept
    <2>5. IsList(Kept(S, fs)) /\ ToSet(Kept(S, fs)) = ToSet(fs) \cap S
      BY <2>1, KeptHas DEF Items
    <2> QED
      BY <2>1, <2>4, <2>5 DEF Items
  <1> QED
    BY <1>1, <1>2

(* Everything a selection contributes is an item with a priority.          *)
LEMMA ContributionsAre ==
  ASSUME NEW m \in Module, NEW sel
  PROVE  Items(Contributions(m, sel))
  <1> DEFINE es == Shown(m, sel)
             cs == Schema[m].conditional
             picked == [i \in DOMAIN es |-> PluginItems(es[i].it, es[i].id \in sel.chosen, sel.flags)]
             met == [i \in DOMAIN cs |-> IF Met(cs[i].dep, sel.flags) THEN cs[i].files ELSE <<>>]
  <1>1. Contributions(m, sel) = Schema[m].required \o FlattenSeq(picked) \o FlattenSeq(met)
    BY DEF Contributions, FlatMap
  <1>2. Items(Schema[m].required)
    BY ModuleAssumption, ItemsAre DEF IsModule
  <1>3. Items(FlattenSeq(picked))
    <2>1. IsList(es) /\ \A e \in ToSet(es) : IsPlugin(e.it)
      BY ShownAre
    <2>2. Len(es) \in Nat /\ DOMAIN es = 1 .. Len(es) /\ \A i \in 1 .. Len(es) : IsPlugin(es[i].it)
      BY <2>1, ListIs DEF ToSet
    <2> HIDE DEF es
    <2>3. DOMAIN picked = 1 .. Len(es) /\ picked = [i \in 1 .. Len(es) |-> picked[i]]
          /\ \A i \in 1 .. Len(es) : picked[i] = PluginItems(es[i].it, es[i].id \in sel.chosen, sel.flags)
      BY <2>2
    <2> HIDE DEF picked
    <2>4. \A i \in 1 .. Len(es) : Items(picked[i])
      BY <2>2, <2>3, PluginItemsAre
    <2> QED
      BY <2>2, <2>3, <2>4, ItemsJoined
  <1>4. Items(FlattenSeq(met))
    <2>1. IsList(cs) /\ \A i \in DOMAIN cs : Items(cs[i].files)
      <3>1. Each(cs, IsPattern)
        BY ModuleAssumption DEF IsModule
      <3> HIDE DEF cs
      <3> QED
        BY <3>1, ItemsAre DEF Each, IsPattern, IsList
    <2>2. Len(cs) \in Nat /\ DOMAIN cs = 1 .. Len(cs)
      BY <2>1, ListIs
    <2> HIDE DEF cs
    <2>3. DOMAIN met = 1 .. Len(cs) /\ met = [i \in 1 .. Len(cs) |-> met[i]]
          /\ \A i \in 1 .. Len(cs) : met[i] = IF Met(cs[i].dep, sel.flags) THEN cs[i].files ELSE <<>>
      BY <2>2
    <2> HIDE DEF met
    <2>4. \A i \in 1 .. Len(cs) : Items(met[i])
      BY <2>1, <2>2, <2>3, Nothing
    <2> QED
      BY <2>2, <2>3, <2>4, ItemsJoined
  <1> HIDE DEF picked, met
  <1> QED
    BY <1>1, <1>2, <1>3, <1>4, ItemsConcat

(* The plan shown is what the resolver makes of the selection.             *)
Resolved ==
  preview # None => preview.m \in Module /\ preview.plan = Resolve(preview.m, preview.of)

(* No step leaves another plan on the screen.                              *)
LEMMA ResolvedStep == Resolved /\ [Next]_vars => Resolved'
  <1> SUFFICES ASSUME Resolved, [Next]_vars PROVE Resolved'
    OBVIOUS
  <1> USE DEF dialog
  <1>1. CASE UNCHANGED preview
    BY <1>1 DEF Resolved
  <1>2. CASE preview' = None
    BY <1>2 DEF Resolved
  <1>3. ASSUME NEW c \in calls, ResolveReturns(c) PROVE Resolved'
    <2>1. CASE Resolves(archive, c.sel)
      <3>1. preview' = [of |-> c.sel, m |-> archive, plan |-> Resolve(archive, c.sel)]
        BY <1>3, <2>1 DEF ResolveReturns
      <3>2. preview'.of = c.sel /\ preview'.m = archive /\ preview'.plan = Resolve(archive, c.sel)
        BY <3>1
      <3>3. archive \in Module
        BY <2>1 DEF Resolves
      <3>4. Resolve(preview'.m, preview'.of) = Resolve(archive, c.sel)
        BY <3>2
      <3> QED
        BY <3>2, <3>3, <3>4 DEF Resolved
    <2>2. CASE ~ Resolves(archive, c.sel)
      BY <1>1, <1>3, <2>2 DEF ResolveReturns
    <2> QED
      BY <2>1, <2>2
  <1>4. CASE Click
    BY <1>1, <1>2, <1>4
    DEF Click, OpenWizard, InstallPlain, DismissFallback, ToggleOption, NextStep, PreviousStep,
        ShowPreview, LeavePreview, Apply, Cancel, Close
  <1>5. CASE Return
    <2>1. PICK c \in calls : \/ ParseOpens(c) \/ ParseIsPlain(c) \/ ParseFails(c)
                             \/ PlainReturns(c) \/ ResolveReturns(c) \/ ApplyChecks(c)
                             \/ ApplyRefused(c) \/ ApplyStages(c) \/ StagingFails(c)
      BY <1>5 DEF Return
    <2> QED
      BY <1>1, <1>2, <1>3, <2>1 DEF ParseOpens, ParseIsPlain, ParseFails, PlainReturns, ApplyChecks, ApplyRefused,
          ApplyStages, StagingFails, Close
  <1>6. CASE Refresh \/ Refreshed \/ Replace \/ UNCHANGED vars
    BY <1>1, <1>6 DEF Refresh, Refreshed, Replace, vars
  <1> QED
    BY <1>4, <1>5, <1>6 DEF Next

(* The row that the preview shows for a destination is the first of the    *)
(* highest priority among everything that the selection contributes, also  *)
(* when the archive was replaced since (dedup_by_priority).                *)
THEOREM TheFirstHighestWins == Spec => []FirstHighestWins
  <1>1. Init => Resolved
    BY DEF Init, Resolved
  <1>2. Resolved => FirstHighestWins
    <2> SUFFICES ASSUME Resolved, preview # None,
                        NEW i \in DOMAIN Contributions(preview.m, preview.of)
                 PROVE  LET items == Contributions(preview.m, preview.of)
                            d == items[i].dest IN
                        (/\ \A j \in DOMAIN items : items[j].dest = d => items[j].prio <= items[i].prio
                         /\ \A j \in 1 .. (i - 1) : items[j].dest = d => items[j].prio < items[i].prio)
                        => preview.plan[d] = items[i]
      BY DEF FirstHighestWins
    <2> DEFINE items == Contributions(preview.m, preview.of)
               d == items[i].dest
               n == Len(items)
    <2>1. Items(items) /\ preview.plan = DedupByPriority(items)
      BY ContributionsAre DEF Resolved, Resolve
    <2>2. n \in Nat /\ DOMAIN items = 1 .. n /\ i \in 1 .. n /\ \A j \in 1 .. n : items[j].prio \in Int
      BY <2>1, ListIs DEF Items, ToSet
    <2> SUFFICES ASSUME \A j \in 1 .. n : items[j].dest = d => items[j].prio <= items[i].prio,
                        \A j \in 1 .. (i - 1) : items[j].dest = d => items[j].prio < items[i].prio
                 PROVE  preview.plan[d] = items[i]
      BY <2>2
    <2> HIDE DEF items
    <2>3. Best(preview.plan, items, n)
      BY <2>1, <2>2, DedupBest
    <2>4. d \in DOMAIN preview.plan
      BY <2>2, <2>3 DEF Best
    <2>5. PICK k \in 1 .. n : preview.plan[d] = items[k] /\ items[k].dest = d /\ FirstHighest(items, k, n)
      BY <2>3, <2>4 DEF Best
    <2>6. items[k].prio <= items[i].prio /\ items[i].prio <= items[k].prio
      BY <2>2, <2>5 DEF FirstHighest
    <2>7. ~ i < k
      BY <2>2, <2>5, <2>6 DEF FirstHighest
    <2>8. ~ k < i
      <3> SUFFICES ASSUME k < i PROVE FALSE
        OBVIOUS
      <3>1. k \in 1 .. (i - 1)
        BY <2>2
      <3>2. items[k].prio < items[i].prio
        BY <2>5, <3>1
      <3> QED
        BY <2>2, <2>6, <3>2
    <2> QED
      BY <2>2, <2>5, <2>7, <2>8
  <1> QED
    BY <1>1, <1>2, ResolvedStep, PTL DEF Spec

(* The preview has a row for each destination that the selection writes    *)
(* to, and no other; every row is something the selection contributes,     *)
(* and to that destination (PlanEntry, dedup_by_priority).                 *)
PlanIsExact ==
  preview # None =>
    LET items == Contributions(preview.m, preview.of) IN
    /\ DOMAIN preview.plan = {items[i].dest : i \in DOMAIN items}
    /\ \A d \in DOMAIN preview.plan :
         preview.plan[d].dest = d /\ \E i \in DOMAIN items : preview.plan[d] = items[i]

(* Nothing that a selection writes is missing from the preview shown, and  *)
(* nothing else is in it.                                                  *)
THEOREM ThePlanIsExact == Spec => []PlanIsExact
  <1>1. Init => Resolved
    BY DEF Init, Resolved
  <1>2. Resolved => PlanIsExact
    <2> SUFFICES ASSUME Resolved, preview # None PROVE PlanIsExact
      BY DEF PlanIsExact
    <2> DEFINE items == Contributions(preview.m, preview.of)
               n == Len(items)
    <2>1. Items(items) /\ preview.plan = DedupByPriority(items)
      BY ContributionsAre DEF Resolved, Resolve
    <2>2. n \in Nat /\ DOMAIN items = 1 .. n /\ \A j \in 1 .. n : items[j].prio \in Int
      BY <2>1, ListIs DEF Items, ToSet
    <2>3. Best(preview.plan, items, n)
      <3> HIDE DEF items
      <3> QED
        BY <2>1, <2>2, DedupBest
    <2>4. /\ DOMAIN preview.plan = {items[i].dest : i \in DOMAIN items}
          /\ \A d \in DOMAIN preview.plan :
               preview.plan[d].dest = d /\ \E i \in DOMAIN items : preview.plan[d] = items[i]
      <3> HIDE DEF items
      <3> QED
        BY <2>2, <2>3 DEF Best
    <2> QED
      BY <2>4 DEF PlanIsExact
  <1> QED
    BY <1>1, <1>2, ResolvedStep, PTL DEF Spec

-----------------------------------------------------------------------------
(* The order of the pages, of their groups and of the options.             *)

(* A strict total order on the places 1 .. n.                              *)
Total(R, n) ==
  /\ \A i, j \in 1 .. n : <<i, j>> \in R => <<j, i>> \notin R
  /\ \A i, j, k \in 1 .. n : <<i, j>> \in R /\ <<j, k>> \in R => <<i, k>> \in R
  /\ \A i, j \in 1 .. n : i = j \/ <<i, j>> \in R \/ <<j, i>> \in R

InFront(R, n, j) == {i \in 1 .. n : <<i, j>> \in R}

(* How many places are in front of a place is less the further in front it *)
(* is.                                                                     *)
LEMMA RankIs ==
  ASSUME NEW n \in Nat, NEW R, Total(R, n), NEW j \in 1 .. n
  PROVE  /\ Cardinality(InFront(R, n, j)) \in 0 .. n - 1
         /\ \A k \in 1 .. n : <<j, k>> \in R => Cardinality(InFront(R, n, j)) < Cardinality(InFront(R, n, k))
  <1> DEFINE C(k) == Cardinality(InFront(R, n, k))
  <1>1. IsFiniteSet(1 .. n) /\ Cardinality(1 .. n) = n
    BY FS_Interval
  <1>2. \A k \in 1 .. n : IsFiniteSet(InFront(R, n, k)) /\ C(k) \in Nat
    <2> SUFFICES ASSUME NEW k \in 1 .. n
                 PROVE  IsFiniteSet(InFront(R, n, k)) /\ C(k) \in Nat
      OBVIOUS
    <2>1. InFront(R, n, k) \in SUBSET (1 .. n)
      BY DEF InFront
    <2> QED
      BY <1>1, <2>1, FS_Subset, FS_CardinalityType
  <1>3. ASSUME NEW T, IsFiniteSet(T), j \in T, InFront(R, n, j) \subseteq T
        PROVE  C(j) < Cardinality(T)
    <2>1. j \notin InFront(R, n, j)
      BY DEF InFront, Total
    <2>2. IsFiniteSet(T \ {j}) /\ Cardinality(T \ {j}) = Cardinality(T) - 1 /\ Cardinality(T) \in Nat
      BY <1>3, FS_RemoveElement, FS_CardinalityType
    <2>3. InFront(R, n, j) \in SUBSET (T \ {j})
      BY <1>3, <2>1
    <2>4. C(j) <= Cardinality(T \ {j})
      BY <2>2, <2>3, FS_Subset
    <2> QED
      BY <1>2, <2>2, <2>4
  <1>4. C(j) < n
    <2>1. InFront(R, n, j) \subseteq 1 .. n
      BY DEF InFront
    <2> QED
      BY <1>1, <1>3, <2>1
  <1>5. ASSUME NEW k \in 1 .. n, <<j, k>> \in R PROVE C(j) < C(k)
    <2>1. j \in InFront(R, n, k) /\ InFront(R, n, j) \subseteq InFront(R, n, k)
      BY <1>5 DEF InFront, Total
    <2> QED
      BY <1>2, <1>3, <2>1
  <1> QED
    BY <1>2, <1>4, <1>5

(* Each rank is the rank of one place.                                     *)
LEMMA RankedOnce ==
  ASSUME NEW n \in Nat, NEW R, Total(R, n), NEW k \in 1 .. n
  PROVE  \E j \in 1 .. n : Cardinality(InFront(R, n, j)) = k - 1
  <1> DEFINE f == [j \in 1 .. n |-> Cardinality(InFront(R, n, j)) + 1]
  <1>1. f \in [1 .. n -> 1 .. n]
    <2>1. ASSUME NEW j \in 1 .. n PROVE Cardinality(InFront(R, n, j)) + 1 \in 1 .. n
      BY RankIs
    <2> QED
      BY <2>1
  <1>2. ASSUME NEW i \in 1 .. n, NEW j \in 1 .. n, i # j PROVE f[i] # f[j]
    <2>1. <<i, j>> \in R \/ <<j, i>> \in R
      BY <1>2 DEF Total
    <2>2. /\ Cardinality(InFront(R, n, i)) \in Int /\ Cardinality(InFront(R, n, j)) \in Int
          /\ \/ Cardinality(InFront(R, n, i)) < Cardinality(InFront(R, n, j))
             \/ Cardinality(InFront(R, n, j)) < Cardinality(InFront(R, n, i))
      <3>1. Cardinality(InFront(R, n, i)) \in 0 .. n - 1 /\ Cardinality(InFront(R, n, j)) \in 0 .. n - 1
        BY RankIs
      <3> QED
        BY <2>1, <3>1, RankIs
    <2> QED
      BY <2>2
  <1>3. IsFiniteSet(1 .. n)
    BY FS_Interval
  <1> HIDE DEF f
  <1>4. f \in Injection(1 .. n, 1 .. n)
    BY <1>1, <1>2 DEF Injection, IsInjective
  <1>5. f \in Surjection(1 .. n, 1 .. n)
    BY <1>3, <1>4, FS_Injection
  <1>6. PICK j \in 1 .. n : f[j] = k
    BY <1>5 DEF Surjection
  <1>7. Cardinality(InFront(R, n, j)) + 1 = k /\ Cardinality(InFront(R, n, j)) \in 0 .. n - 1
    BY <1>6, RankIs DEF f
  <1> QED
    BY <1>7

(* The i-th of s is shown in front of the j-th.                            *)
InOrder(s, order, i, j) ==
  CASE order = "Ascending"  -> s[i].name < s[j].name \/ (s[i].name = s[j].name /\ i < j)
    [] order = "Descending" -> s[i].name > s[j].name \/ (s[i].name = s[j].name /\ i < j)
    [] order = "Explicit"   -> i < j

(* Sorting moves every element to one place, and shows the elements by     *)
(* their names in the order the author asked for; those of one name, and   *)
(* all of them under Explicit, stay in the order of the document: the sort *)
(* of wizard.rs is stable (ordered).                                       *)
THEOREM ListedAsAuthored ==
  ASSUME NEW s, IsList(s), NEW order \in Orders, \A i \in 1 .. Len(s) : s[i].name \in Nat
  PROVE  \E p \in [1 .. Len(s) -> 1 .. Len(s)] :
           /\ \A k, l \in 1 .. Len(s) : p[k] = p[l] => k = l
           /\ \A k, l \in 1 .. Len(s) : k < l => InOrder(s, order, p[k], p[l])
           /\ Ordered(s, order) = [k \in 1 .. Len(s) |-> s[p[k]]]
  <1> DEFINE n == Len(s)
             Ahead(i, j) == \/ order = "Ascending"  /\ s[i].name < s[j].name
                            \/ order = "Descending" /\ s[i].name > s[j].name
                            \/ i < j /\ (order = "Explicit" \/ s[i].name = s[j].name)
             R == {ij \in (1 .. n) \X (1 .. n) : Ahead(ij[1], ij[2])}
             Rank(j) == Cardinality(InFront(R, n, j))
             p == [k \in 1 .. n |-> CHOOSE j \in 1 .. n : Rank(j) = k - 1]
  <1>1. n \in Nat /\ DOMAIN s = 1 .. n
    BY ListIs
  <1> HIDE DEF n
  <1>2. \A i, j \in 1 .. n : <<i, j>> \in R <=> Ahead(i, j)
    OBVIOUS
  <1>3. Total(R, n)
    <2>1. \A i \in 1 .. n : s[i].name \in Int
      BY DEF n
    <2>2. order = "Ascending" \/ order = "Descending" \/ order = "Explicit"
      BY DEF Orders
    <2> HIDE DEF R
    <2>3. ASSUME NEW i \in 1 .. n, NEW j \in 1 .. n, Ahead(i, j) PROVE ~ Ahead(j, i)
      BY <1>1, <2>1, <2>2, <2>3
    <2>4. ASSUME NEW i \in 1 .. n, NEW j \in 1 .. n, NEW k \in 1 .. n, Ahead(i, j), Ahead(j, k)
          PROVE  Ahead(i, k)
      BY <1>1, <2>1, <2>2, <2>4
    <2>5. ASSUME NEW i \in 1 .. n, NEW j \in 1 .. n PROVE i = j \/ Ahead(i, j) \/ Ahead(j, i)
      BY <1>1, <2>1, <2>2
    <2> HIDE DEF Ahead
    <2> QED
      BY <1>2, <2>3, <2>4, <2>5 DEF Total
  <1>4. Ordered(s, order) = [k \in 1 .. n |-> s[p[k]]]
    <2>1. \A j \in 1 .. n : Cardinality({i \in 1 .. n : Ahead(i, j)}) = Rank(j)
      <3> SUFFICES ASSUME NEW j \in 1 .. n PROVE {i \in 1 .. n : Ahead(i, j)} = InFront(R, n, j)
        OBVIOUS
      <3> HIDE DEF R, Ahead
      <3> QED
        BY <1>2 DEF InFront
    <2>2. Ordered(s, order)
            = [k \in 1 .. n |-> s[CHOOSE j \in 1 .. n : Cardinality({i \in 1 .. n : Ahead(i, j)}) = k - 1]]
      BY <1>1 DEF Ordered
    <2> HIDE DEF Rank, Ahead, R
    <2>3. ASSUME NEW k \in 1 .. n
          PROVE  (CHOOSE j \in 1 .. n : Cardinality({i \in 1 .. n : Ahead(i, j)}) = k - 1)
                   = (CHOOSE j \in 1 .. n : Rank(j) = k - 1)
      BY <2>1
    <2> QED
      BY <2>2, <2>3
  <1>0. \A i, j \in 1 .. n : Ahead(i, j) => InOrder(s, order, i, j)
    BY DEF Orders, InOrder
  <1> HIDE DEF R, Ahead
  <1>5. ASSUME NEW k \in 1 .. n PROVE p[k] \in 1 .. n /\ Rank(p[k]) = k - 1
    <2>1. \E j \in 1 .. n : Rank(j) = k - 1
      BY <1>1, <1>3, RankedOnce
    <2>2. p[k] = CHOOSE j \in 1 .. n : Rank(j) = k - 1
      OBVIOUS
    <2> HIDE DEF p, Rank
    <2> QED
      BY <2>1, <2>2
  <1>6. ASSUME NEW k \in 1 .. n, NEW l \in 1 .. n, p[k] = p[l] PROVE k = l
    <2>1. Rank(p[k]) = k - 1 /\ Rank(p[l]) = l - 1
      BY <1>5
    <2> HIDE DEF p, Rank
    <2> QED
      BY <1>6, <2>1
  <1>8. ASSUME NEW k \in 1 .. n, NEW l \in 1 .. n, k < l PROVE InOrder(s, order, p[k], p[l])
    <2>1. /\ p[k] \in 1 .. n /\ Rank(p[k]) = k - 1
          /\ p[l] \in 1 .. n /\ Rank(p[l]) = l - 1
      BY <1>5
    <2> HIDE DEF p
    <2>2. Rank(p[k]) < Rank(p[l])
      <3> HIDE DEF Rank
      <3> QED
        BY <1>1, <1>8, <2>1
    <2>3. p[k] # p[l]
      <3> HIDE DEF Rank
      <3> QED
        BY <1>1, <1>8, <2>1
    <2>4. <<p[l], p[k]>> \notin R
      <3>1. <<p[l], p[k]>> \in R => Rank(p[l]) < Rank(p[k])
        BY <1>1, <1>3, <2>1, RankIs
      <3> HIDE DEF Rank
      <3> QED
        BY <1>1, <2>1, <2>2, <3>1
    <2>5. <<p[k], p[l]>> \in R
      BY <1>3, <2>1, <2>3, <2>4 DEF Total
    <2> QED
      BY <1>0, <1>2, <2>1, <2>5
  <1>7. p \in [1 .. n -> 1 .. n]
    <2>1. DOMAIN p = 1 .. n /\ p = [k \in 1 .. n |-> p[k]]
      OBVIOUS
    <2> HIDE DEF p
    <2> QED
      BY <1>5, <2>1
  <1> HIDE DEF p
  <1> QED
    BY <1>4, <1>6, <1>7, <1>8 DEF n

(* Sorting moves every element to one place.                               *)
LEMMA OrderedIs ==
  ASSUME NEW s, IsList(s), NEW order \in Orders, \A i \in 1 .. Len(s) : s[i].name \in Nat
  PROVE  \E p \in [1 .. Len(s) -> 1 .. Len(s)] :
           /\ \A k, l \in 1 .. Len(s) : p[k] = p[l] => k = l
           /\ Ordered(s, order) = [k \in 1 .. Len(s) |-> s[p[k]]]
  <1>1. PICK p \in [1 .. Len(s) -> 1 .. Len(s)] :
          /\ \A k, l \in 1 .. Len(s) : p[k] = p[l] => k = l
          /\ \A k, l \in 1 .. Len(s) : k < l => InOrder(s, order, p[k], p[l])
          /\ Ordered(s, order) = [k \in 1 .. Len(s) |-> s[p[k]]]
    BY ListedAsAuthored
  <1>2. /\ \A k, l \in 1 .. Len(s) : p[k] = p[l] => k = l
        /\ Ordered(s, order) = [k \in 1 .. Len(s) |-> s[p[k]]]
    BY <1>1
  <1> QED
    BY <1>2

(* What a page of the dialog shows of a step, and of each of its groups:   *)
(* the same, in another order.                                             *)
Moves(p, n) == p \in [1 .. n -> 1 .. n] /\ \A k, l \in 1 .. n : p[k] = p[l] => k = l

OfGroup(pg, g) ==
  /\ pg.name = g.name /\ IsList(pg.options) /\ Len(pg.options) = Len(g.plugins)
  /\ \E p : /\ Moves(p, Len(g.plugins))
            /\ \A k \in 1 .. Len(g.plugins) : /\ pg.options[k].name = g.plugins[p[k]].name
                                              /\ pg.options[k].flags = g.plugins[p[k]].flags

OfStep(view, st) ==
  /\ view.name = st.name /\ IsList(view.groups) /\ Len(view.groups) = Len(st.groups)
  /\ \E p : /\ Moves(p, Len(st.groups))
            /\ \A k \in 1 .. Len(st.groups) : OfGroup(view.groups[k], st.groups[p[k]])

OfModule(pages, steps) ==
  /\ IsList(pages) /\ Len(pages) = Len(steps)
  /\ \E p : /\ Moves(p, Len(steps))
            /\ \A k \in 1 .. Len(steps) : OfStep(pages[k], steps[p[k]])

(* The parts of a parsed module, down to its plugins.                      *)
LEMMA EachElement ==
  ASSUME NEW m \in Module
  PROVE  LET steps == Schema[m].steps IN
         /\ IsList(steps) /\ \A i \in 1 .. Len(steps) : IsStep(steps[i])
         /\ Schema[m].order \in Orders
  <1>1. Each(Schema[m].steps, IsStep) /\ Schema[m].order \in Orders
    BY ModuleAssumption DEF IsModule
  <1> DEFINE steps == Schema[m].steps
  <1>2. IsList(steps) /\ \A i \in DOMAIN steps : IsStep(steps[i])
    BY <1>1 DEF Each, IsList
  <1> HIDE DEF steps
  <1>3. DOMAIN steps = 1 .. Len(steps)
    BY <1>2, ListIs
  <1> QED
    BY <1>1, <1>2, <1>3 DEF steps

(* The groups of a step.                                                   *)
LEMMA GroupsAre ==
  ASSUME NEW st, IsStep(st)
  PROVE  /\ IsList(st.groups) /\ \A i \in 1 .. Len(st.groups) : IsGroup(st.groups[i])
         /\ st.order \in Orders /\ \A i \in 1 .. Len(st.groups) : st.groups[i].name \in Nat
  <1> DEFINE s == st.groups
  <1>1. IsList(s) /\ \A i \in DOMAIN s : IsGroup(s[i])
    BY DEF Each, IsList, IsStep
  <1> HIDE DEF s
  <1>2. DOMAIN s = 1 .. Len(s)
    BY <1>1, ListIs
  <1> QED
    BY <1>1, <1>2 DEF s, IsStep, IsGroup

(* The plugins of a group.                                                 *)
LEMMA PluginsAre ==
  ASSUME NEW g, IsGroup(g)
  PROVE  /\ IsList(g.plugins) /\ \A i \in 1 .. Len(g.plugins) : IsPlugin(g.plugins[i])
         /\ g.order \in Orders /\ \A i \in 1 .. Len(g.plugins) : g.plugins[i].name \in Nat
  <1> DEFINE s == g.plugins
  <1>1. IsList(s) /\ \A i \in DOMAIN s : IsPlugin(s[i])
    BY DEF Each, IsList, IsGroup
  <1> HIDE DEF s
  <1>2. DOMAIN s = 1 .. Len(s)
    BY <1>1, ListIs
  <1> QED
    BY <1>1, <1>2 DEF s, IsGroup, IsPlugin

(* The projection shows every step, group and option once.                 *)
LEMMA ProjectionIs ==
  ASSUME NEW m \in Module
  PROVE  OfModule(Projection[m], Schema[m].steps)
  <1> DEFINE Option(p) == [name |-> p.name, type |-> AuthoredType(p), flags |-> p.flags]
             Grp(g)    == LET ps == Ordered(g.plugins, g.order) IN
                   [name |-> g.name, type |-> g.type, options |-> [i \in DOMAIN ps |-> Option(ps[i])]]
             Page(st)  == LET gs == Ordered(st.groups, st.order) IN
                   [name |-> st.name, groups |-> [i \in DOMAIN gs |-> Grp(gs[i])]]
             steps     == Ordered(Schema[m].steps, Schema[m].order)
             pages     == [i \in DOMAIN steps |-> Page(steps[i])]
  <1>1. Projection[m] = pages
    BY DEF Projection, Project
  <1>2. ASSUME NEW g, IsGroup(g) PROVE OfGroup(Grp(g), g)
    <2> DEFINE n == Len(g.plugins)  ps == Ordered(g.plugins, g.order)
               os == [i \in DOMAIN ps |-> Option(ps[i])]
    <2>1. PICK p \in [1 .. n -> 1 .. n] :
            /\ \A k, l \in 1 .. n : p[k] = p[l] => k = l
            /\ ps = [k \in 1 .. n |-> g.plugins[p[k]]]
      <3> DEFINE s == g.plugins  order == g.order
      <3>1. IsList(s) /\ order \in Orders /\ \A i \in 1 .. Len(s) : s[i].name \in Nat
        BY <1>2, PluginsAre
      <3> HIDE DEF s, order
      <3>2. \E p \in [1 .. Len(s) -> 1 .. Len(s)] :
              /\ \A k, l \in 1 .. Len(s) : p[k] = p[l] => k = l
              /\ Ordered(s, order) = [k \in 1 .. Len(s) |-> s[p[k]]]
        BY <3>1, OrderedIs
      <3> QED
        BY <3>2 DEF s, order
    <2>2. n \in Nat
      BY <1>2, PluginsAre, ListIs
    <2>3. Grp(g).name = g.name /\ Grp(g).options = os
      OBVIOUS
    <2> HIDE DEF Grp
    <2>4. /\ DOMAIN os = 1 .. n /\ os = [k \in 1 .. n |-> os[k]]
          /\ \A k \in 1 .. n : os[k].name = g.plugins[p[k]].name /\ os[k].flags = g.plugins[p[k]].flags
      BY <2>1
    <2> HIDE DEF os, ps
    <2>5. IsList(os) /\ Len(os) = n
      BY <2>2, <2>4, ListOf
    <2>6. Moves(p, n)
      BY <2>1 DEF Moves
    <2> QED
      BY <2>3, <2>4, <2>5, <2>6 DEF OfGroup
  <1> HIDE DEF Option, Grp
  <1>3. ASSUME NEW st, IsStep(st) PROVE OfStep(Page(st), st)
    <2> DEFINE n == Len(st.groups)  gs == Ordered(st.groups, st.order)
               os == [i \in DOMAIN gs |-> Grp(gs[i])]
    <2>1. PICK p \in [1 .. n -> 1 .. n] :
            /\ \A k, l \in 1 .. n : p[k] = p[l] => k = l
            /\ gs = [k \in 1 .. n |-> st.groups[p[k]]]
      <3> DEFINE s == st.groups  order == st.order
      <3>1. IsList(s) /\ order \in Orders /\ \A i \in 1 .. Len(s) : s[i].name \in Nat
        BY <1>3, GroupsAre
      <3> HIDE DEF s, order
      <3>2. \E p \in [1 .. Len(s) -> 1 .. Len(s)] :
              /\ \A k, l \in 1 .. Len(s) : p[k] = p[l] => k = l
              /\ Ordered(s, order) = [k \in 1 .. Len(s) |-> s[p[k]]]
        BY <3>1, OrderedIs
      <3> QED
        BY <3>2 DEF s, order
    <2>2. n \in Nat /\ \A k \in 1 .. n : IsGroup(st.groups[k])
      BY <1>3, GroupsAre, ListIs
    <2>3. Page(st).name = st.name /\ Page(st).groups = os
      OBVIOUS
    <2> HIDE DEF Page
    <2>4. /\ DOMAIN os = 1 .. n /\ os = [k \in 1 .. n |-> os[k]]
          /\ \A k \in 1 .. n : os[k] = Grp(st.groups[p[k]])
      BY <2>1
    <2> HIDE DEF os, gs
    <2>5. IsList(os) /\ Len(os) = n
      BY <2>2, <2>4, ListOf
    <2>6. Moves(p, n) /\ \A k \in 1 .. n : p[k] \in 1 .. n
      BY <2>1 DEF Moves
    <2>7. \A k \in 1 .. n : OfGroup(os[k], st.groups[p[k]])
      BY <1>2, <2>2, <2>4, <2>6
    <2> QED
      BY <2>3, <2>5, <2>6, <2>7 DEF OfStep
  <1> HIDE DEF Page
  <1> DEFINE ss == Schema[m].steps  n == Len(ss)
  <1>4. /\ IsList(ss) /\ Schema[m].order \in Orders
        /\ \A k \in 1 .. n : IsStep(ss[k]) /\ ss[k].name \in Nat
    BY EachElement DEF IsStep
  <1>5. PICK p \in [1 .. n -> 1 .. n] :
          /\ \A k, l \in 1 .. n : p[k] = p[l] => k = l
          /\ steps = [k \in 1 .. n |-> ss[p[k]]]
    <2> DEFINE order == Schema[m].order
    <2>1. IsList(ss) /\ order \in Orders /\ \A k \in 1 .. Len(ss) : ss[k].name \in Nat
      BY <1>4
    <2> HIDE DEF ss, order
    <2>2. \E p \in [1 .. Len(ss) -> 1 .. Len(ss)] :
            /\ \A k, l \in 1 .. Len(ss) : p[k] = p[l] => k = l
            /\ Ordered(ss, order) = [k \in 1 .. Len(ss) |-> ss[p[k]]]
      BY <2>1, OrderedIs
    <2> QED
      BY <2>2 DEF ss, order
  <1>6. n \in Nat
    BY <1>4, ListIs
  <1> HIDE DEF ss
  <1>7. /\ DOMAIN pages = 1 .. n /\ pages = [k \in 1 .. n |-> pages[k]]
        /\ \A k \in 1 .. n : pages[k] = Page(ss[p[k]])
    BY <1>5
  <1> HIDE DEF pages, steps
  <1>8. IsList(pages) /\ Len(pages) = n
    BY <1>6, <1>7, ListOf
  <1>9. Moves(p, n) /\ \A k \in 1 .. n : p[k] \in 1 .. n
    BY <1>5 DEF Moves
  <1>10. \A k \in 1 .. n : OfStep(pages[k], ss[p[k]])
    BY <1>3, <1>4, <1>7, <1>9
  <1> QED
    BY <1>1, <1>8, <1>9, <1>10 DEF OfModule, ss

(* Names that are used once.                                               *)
OneName(s) == \A i, j \in DOMAIN s : s[i].name = s[j].name => i = j

OneNameAPage == \A m \in Module : OneName(Schema[m].steps)

DistinctNames ==
  \A m \in Module :
    /\ OneName(Schema[m].steps)
    /\ \A st \in ToSet(Schema[m].steps) :
         /\ OneName(st.groups)
         /\ \A g \in ToSet(st.groups) : OneName(g.plugins)

(* Among distinct names, the first match is the match.                     *)
LEMMA LookupFinds ==
  ASSUME NEW s, IsList(s), OneName(s), NEW j \in 1 .. Len(s)
  PROVE  Lookup(s, s[j].name) = j
  <1> DEFINE I == {i \in 1 .. Len(s) : s[i].name = s[j].name}
  <1>1. Len(s) \in Nat /\ DOMAIN s = 1 .. Len(s)
    BY ListIs
  <1>2. I = {j}
    BY <1>1 DEF OneName
  <1>3. Lookup(s, s[j].name) = IF I # {} THEN Min(I) ELSE 0
    BY DEF Lookup, SelectInSeq
  <1> HIDE DEF I
  <1>4. Min({j}) = j
    BY <1>1 DEF Min
  <1> QED
    BY <1>2, <1>3, <1>4

-----------------------------------------------------------------------------
(* The replay of what a Collection pins.                                   *)

(* The options of a group on a page that goes by name, and those of a page.*)
OptionsIn(name, pg) ==
  [i \in DOMAIN pg.options |-> [id |-> <<name, pg.name, pg.options[i].name>>, group |-> pg, it |-> pg.options[i]]]
OptionsOn(view) == FlattenSeq([j \in DOMAIN view.groups |-> OptionsIn(view.name, view.groups[j])])

(* What the choices of a group pin.                                        *)
Marks(st, g, choices) ==
  [k \in DOMAIN choices |-> [id |-> <<st.name, g.name, choices[k]>>,
                             flags |-> g.plugins[Lookup(g.plugins, choices[k])].flags]]

(* What is left of an option of the dialog: what it is, and its flags.     *)
Rec(X) == [o \in X |-> [id |-> o.id, flags |-> o.it.flags]]

PickedOf(X, S) == {o \in X : o.id \in S}

(* The options of a group are a list.                                      *)
LEMMA OptionsInAre ==
  ASSUME NEW name, NEW pg, IsList(pg.options)
  PROVE  /\ IsList(OptionsIn(name, pg)) /\ Len(OptionsIn(name, pg)) = Len(pg.options)
         /\ \A i \in 1 .. Len(pg.options) :
              OptionsIn(name, pg)[i] = [id |-> <<name, pg.name, pg.options[i].name>>,
                                        group |-> pg, it |-> pg.options[i]]
  <1> DEFINE s == OptionsIn(name, pg)  n == Len(pg.options)
  <1>1. n \in Nat /\ DOMAIN pg.options = 1 .. n
    BY ListIs
  <1>2. /\ DOMAIN s = 1 .. n /\ s = [i \in 1 .. n |-> s[i]]
        /\ \A i \in 1 .. n : s[i] = [id |-> <<name, pg.name, pg.options[i].name>>,
                                     group |-> pg, it |-> pg.options[i]]
    BY <1>1 DEF OptionsIn
  <1> HIDE DEF s, n
  <1>3. IsList(s) /\ Len(s) = n
    BY <1>1, <1>2, ListOf
  <1> QED
    BY <1>2, <1>3 DEF s, n

(* The options of a page are those of its groups.                          *)
LEMMA PageOptionsAre ==
  ASSUME NEW view, IsList(view.groups), \A j \in 1 .. Len(view.groups) : IsList(view.groups[j].options)
  PROVE  LET ss == [j \in DOMAIN view.groups |-> OptionsIn(view.name, view.groups[j])] IN
         /\ Lists(ss) /\ Len(ss) = Len(view.groups) /\ DOMAIN view.groups = 1 .. Len(view.groups)
         /\ \A j \in 1 .. Len(view.groups) : ss[j] = OptionsIn(view.name, view.groups[j])
         /\ IsList(OptionsOn(view))
         /\ \A x : x \in ToSet(OptionsOn(view))
                     <=> \E j \in 1 .. Len(view.groups) : x \in ToSet(OptionsIn(view.name, view.groups[j]))
  <1> DEFINE n == Len(view.groups)
             ss == [j \in DOMAIN view.groups |-> OptionsIn(view.name, view.groups[j])]
  <1>1. n \in Nat /\ DOMAIN view.groups = 1 .. n
    BY ListIs
  <1>2. /\ DOMAIN ss = 1 .. n /\ ss = [j \in 1 .. n |-> ss[j]]
        /\ \A j \in 1 .. n : ss[j] = OptionsIn(view.name, view.groups[j])
    BY <1>1
  <1>3. OptionsOn(view) = FlattenSeq(ss)
    BY DEF OptionsOn
  <1> HIDE DEF ss
  <1>4. \A j \in 1 .. n : IsList(ss[j])
    <2> SUFFICES ASSUME NEW j \in 1 .. n PROVE IsList(ss[j])
      OBVIOUS
    <2> DEFINE pg == view.groups[j]
    <2>1. IsList(pg.options) /\ ss[j] = OptionsIn(view.name, pg)
      BY <1>2
    <2> HIDE DEF pg, n
    <2>2. IsList(OptionsIn(view.name, pg))
      BY <2>1, OptionsInAre
    <2> QED
      BY <2>1, <2>2
  <1>5. Lists(ss) /\ Len(ss) = n
    BY <1>1, <1>2, <1>4, ListsBy
  <1>6. /\ IsList(FlattenSeq(ss))
        /\ \A x : x \in ToSet(FlattenSeq(ss)) <=> \E i \in 1 .. Len(ss) : x \in ToSet(ss[i])
    BY <1>5, FlattenLists
  <1> QED
    BY <1>1, <1>2, <1>3, <1>5, <1>6 DEF ss

(* Of joined lists: what is chosen of them, and made of that.              *)
LEMMA JoinLaw ==
  ASSUME NEW f, NEW S, NEW ss, Lists(ss)
  PROVE  Mapped(f, Kept(S, FlattenSeq(ss))) = FlattenSeq([i \in 1 .. Len(ss) |-> Mapped(f, Kept(S, ss[i]))])
  <1> DEFINE n == Len(ss)  tt == [i \in 1 .. n |-> Kept(S, ss[i])]
  <1>1. n \in Nat
    BY ListIs DEF Lists
  <1>2. Kept(S, FlattenSeq(ss)) = FlattenSeq(tt)
    BY KeptFlatten
  <1>3. DOMAIN tt = 1 .. n /\ tt = [i \in 1 .. n |-> tt[i]] /\ \A i \in 1 .. n : tt[i] = Kept(S, ss[i])
    OBVIOUS
  <1>4. \A i \in 1 .. n : IsList(Kept(S, ss[i]))
    BY KeptHas DEF Lists
  <1> HIDE DEF tt, n
  <1>5. Lists(tt) /\ Len(tt) = n
    BY <1>1, <1>3, <1>4, ListsBy
  <1>6. Mapped(f, FlattenSeq(tt)) = FlattenSeq([i \in 1 .. Len(tt) |-> Mapped(f, tt[i])])
    BY <1>5, MapFlatten
  <1>7. [i \in 1 .. Len(tt) |-> Mapped(f, tt[i])] = [i \in 1 .. n |-> Mapped(f, Kept(S, ss[i]))]
    BY <1>3, <1>5
  <1> QED
    BY <1>2, <1>6, <1>7 DEF n

(* The names a Collection pins of a group.                                 *)
Picks(name, pg) == Where([i \in DOMAIN pg.options |-> pg.options[i].name],
                         LAMBDA o : <<name, pg.name, o>> \in chosen)

(* A group's choices pin what was picked in it.                            *)
LEMMA GroupReplays ==
  ASSUME NEW name, NEW pg, NEW g, OfGroup(pg, g), IsList(g.plugins), OneName(g.plugins),
         NEW X, ToSet(OptionsIn(name, pg)) \subseteq X, NEW st, st.name = name
  PROVE  /\ IsList(Picks(name, pg))
         /\ \A c \in ToSet(Picks(name, pg)) : Lookup(g.plugins, c) # 0
         /\ Marks(st, g, Picks(name, pg)) = Mapped(Rec(X), Kept(PickedOf(X, chosen), OptionsIn(name, pg)))
  <1> DEFINE n     == Len(pg.options)
             names == [i \in DOMAIN pg.options |-> pg.options[i].name]
             C     == ToSet(names)
             A     == {c \in C : <<name, pg.name, c>> \in chosen}
             f     == [c \in C |-> [id |-> <<st.name, g.name, c>>,
                                    flags |-> g.plugins[Lookup(g.plugins, c)].flags]]
             B     == {f[c] : c \in A}
             os    == OptionsIn(name, pg)
             picks == Picks(name, pg)
             rec   == Rec(X)
             S     == PickedOf(X, chosen)
  <1>1. n \in Nat /\ DOMAIN pg.options = 1 .. n /\ n = Len(g.plugins) /\ pg.name = g.name
        /\ IsList(pg.options)
    BY ListIs DEF OfGroup
  <1>2. DOMAIN names = 1 .. n /\ names = [i \in 1 .. n |-> names[i]]
        /\ \A i \in 1 .. n : names[i] = pg.options[i].name
    BY <1>1
  <1> HIDE DEF n, names
  <1>3. IsList(names) /\ Len(names) = n
    BY <1>1, <1>2, ListOf
  <1>4. \A i \in 1 .. n : names[i] \in C
    BY <1>2 DEF ToSet
  <1>5. picks = Kept(A, names)
    <2>1. picks = FlattenSeq([i \in DOMAIN names |-> IF <<name, pg.name, names[i]>> \in chosen
                                                     THEN <<names[i]>> ELSE <<>>])
      BY DEF Picks, Where, FlatMap, names
    <2>2. \A i \in DOMAIN names : names[i] \in A <=> <<name, pg.name, names[i]>> \in chosen
      BY <1>2, <1>4
    <2> HIDE DEF A, picks
    <2> QED
      BY <2>1, <2>2 DEF Kept
  <1>6. IsList(picks) /\ ToSet(picks) = C \cap A
    <2> HIDE DEF C, A, picks
    <2> QED
      BY <1>3, <1>5, KeptHas DEF C
  <1>7. \A i \in 1 .. n :
          /\ Lookup(g.plugins, names[i]) \in 1 .. n
          /\ g.plugins[Lookup(g.plugins, names[i])].flags = pg.options[i].flags
    <2> SUFFICES ASSUME NEW i \in 1 .. n
                 PROVE  /\ Lookup(g.plugins, names[i]) \in 1 .. n
                        /\ g.plugins[Lookup(g.plugins, names[i])].flags = pg.options[i].flags
      OBVIOUS
    <2>1. PICK p : /\ Moves(p, n)
                   /\ \A k \in 1 .. n : /\ pg.options[k].name = g.plugins[p[k]].name
                                        /\ pg.options[k].flags = g.plugins[p[k]].flags
      BY <1>1 DEF OfGroup
    <2>2. p[i] \in 1 .. n
      BY <2>1 DEF Moves
    <2>3. Lookup(g.plugins, g.plugins[p[i]].name) = p[i]
      BY <1>1, <2>2, LookupFinds
    <2> QED
      BY <1>2, <2>1, <2>2, <2>3
  <1>8. \A c \in ToSet(picks) : Lookup(g.plugins, c) # 0
    <2>1. \A c \in C : \E i \in 1 .. n : c = names[i]
      BY <1>2 DEF ToSet
    <2>2. \A i \in 1 .. n : Lookup(g.plugins, names[i]) # 0
      BY <1>1, <1>7
    <2>3. ToSet(picks) \subseteq C
      BY <1>6
    <2> HIDE DEF picks, C
    <2> QED
      BY <2>1, <2>2, <2>3
  <1>9. Marks(st, g, picks) = Mapped(f, picks)
    <2>1. \A k \in DOMAIN picks : picks[k] \in C
      BY <1>6 DEF ToSet
    <2> HIDE DEF picks, C
    <2> QED
      BY <2>1 DEF Marks, Mapped
  <1>10. /\ IsList(os) /\ Len(os) = n
         /\ \A i \in 1 .. n : os[i] = [id |-> <<name, pg.name, pg.options[i].name>>,
                                       group |-> pg, it |-> pg.options[i]]
    BY <1>1, OptionsInAre DEF n
  <1>11. \A i \in 1 .. n : os[i] \in X
    <2>1. DOMAIN os = 1 .. n
      <3> HIDE DEF os
      <3> QED
        BY <1>10, ListIs
    <2> HIDE DEF os
    <2> QED
      BY <2>1 DEF ToSet, os
  <1> HIDE DEF os
  <1>12. \A i \in 1 .. n : f[names[i]] = rec[os[i]]
    <2> SUFFICES ASSUME NEW i \in 1 .. n PROVE f[names[i]] = rec[os[i]]
      OBVIOUS
    <2>1. f[names[i]] = [id |-> <<st.name, g.name, names[i]>>,
                         flags |-> g.plugins[Lookup(g.plugins, names[i])].flags]
      BY <1>4
    <2>2. rec[os[i]] = [id |-> os[i].id, flags |-> os[i].it.flags]
      BY <1>11 DEF Rec
    <2>3. os[i].id = <<name, pg.name, pg.options[i].name>> /\ os[i].it.flags = pg.options[i].flags
      BY <1>10
    <2>4. <<st.name, g.name, names[i]>> = os[i].id
      BY <1>1, <1>2, <2>3
    <2>5. g.plugins[Lookup(g.plugins, names[i])].flags = os[i].it.flags
      BY <1>7, <2>3
    <2> HIDE DEF f, rec, C
    <2> QED
      BY <2>1, <2>2, <2>4, <2>5
  <1>13. \A c \in C : f[c].id = <<name, pg.name, c>>
    BY <1>1
  <1>14. \A c \in C : f[c] \in B <=> c \in A
    <2> SUFFICES ASSUME NEW c \in C, f[c] \in B PROVE c \in A
      OBVIOUS
    <2>1. PICK d \in A : f[c] = f[d]
      OBVIOUS
    <2>2. f[c].id = <<name, pg.name, c>> /\ f[d].id = <<name, pg.name, d>>
      BY <1>13
    <2> HIDE DEF f
    <2>3. <<name, pg.name, c>> = <<name, pg.name, d>>
      BY <2>1, <2>2
    <2> QED
      BY <2>3
  <1> HIDE DEF f, B
  <1>15. Kept(B, Mapped(f, names)) = Mapped(f, Kept(A, names))
    <2>1. \A i \in 1 .. Len(names) : f[names[i]] \in B <=> names[i] \in A
      BY <1>3, <1>4, <1>14
    <2> HIDE DEF A, C
    <2> QED
      BY <1>3, <2>1, KeptMapped
  <1>16. Mapped(f, names) = Mapped(rec, os)
    <2>1. /\ IsList(Mapped(f, names)) /\ Len(Mapped(f, names)) = n
          /\ \A i \in 1 .. n : Mapped(f, names)[i] = f[names[i]]
      BY <1>3, MappedIs
    <2>2. /\ IsList(Mapped(rec, os)) /\ Len(Mapped(rec, os)) = n
          /\ \A i \in 1 .. n : Mapped(rec, os)[i] = rec[os[i]]
      BY <1>10, MappedIs
    <2> HIDE DEF rec
    <2> QED
      BY <1>12, <2>1, <2>2, Sames
  <1>17. Kept(B, Mapped(rec, os)) = Mapped(rec, Kept(S, os))
    <2>1. \A i \in 1 .. n : rec[os[i]] \in B <=> os[i] \in S
      <3> SUFFICES ASSUME NEW i \in 1 .. n PROVE rec[os[i]] \in B <=> os[i] \in S
        OBVIOUS
      <3>1. rec[os[i]] \in B <=> names[i] \in A
        BY <1>4, <1>12, <1>14
      <3>2. os[i] \in S <=> os[i].id \in chosen
        BY <1>11 DEF PickedOf
      <3>3. os[i].id = <<name, pg.name, names[i]>>
        BY <1>2, <1>10
      <3>4. names[i] \in A <=> <<name, pg.name, names[i]>> \in chosen
        BY <1>4
      <3> HIDE DEF rec, A, S
      <3> QED
        BY <3>1, <3>2, <3>3, <3>4
    <2> HIDE DEF rec, S
    <2> QED
      BY <1>10, <2>1, KeptMapped
  <1> QED
    BY <1>5, <1>6, <1>8, <1>9, <1>15, <1>16, <1>17 DEF os

(* A page's choices, and what they pin in a step.                          *)
GroupChoices(view) ==
  [j \in DOMAIN view.groups |-> [name |-> view.groups[j].name, choices |-> Picks(view.name, view.groups[j])]]

PageMarks(st, cgs) ==
  FlattenSeq([j \in DOMAIN cgs |-> Marks(st, st.groups[Lookup(st.groups, cgs[j].name)], cgs[j].choices)])

(* The group that a page's group is looked up as.                          *)
LEMMA GroupFound ==
  ASSUME NEW st, IsStep(st), OneName(st.groups), \A g \in ToSet(st.groups) : OneName(g.plugins),
         NEW view, OfStep(view, st), NEW j \in 1 .. Len(view.groups)
  PROVE  LET k == Lookup(st.groups, view.groups[j].name) IN
         /\ k \in 1 .. Len(st.groups)
         /\ OfGroup(view.groups[j], st.groups[k])
         /\ IsList(st.groups[k].plugins) /\ OneName(st.groups[k].plugins)
  <1> DEFINE gs == st.groups  pg == view.groups[j]  n == Len(gs)
  <1>1. IsList(gs) /\ n \in Nat /\ DOMAIN gs = 1 .. n /\ \A i \in 1 .. n : IsGroup(gs[i])
    BY GroupsAre, ListIs
  <1>2. PICK p : /\ Moves(p, n)
                 /\ \A k \in 1 .. n : OfGroup(view.groups[k], gs[p[k]])
    BY DEF OfStep
  <1>3. j \in 1 .. n
    BY DEF OfStep
  <1>4. OneName(gs) /\ \A i \in 1 .. n : OneName(gs[i].plugins)
    BY <1>1 DEF ToSet
  <1> HIDE DEF gs, n
  <1>5. p[j] \in 1 .. n
    BY <1>2, <1>3 DEF Moves
  <1>6. OfGroup(pg, gs[p[j]])
    BY <1>2, <1>3
  <1>7. pg.name = gs[p[j]].name
    BY <1>6 DEF OfGroup
  <1>8. Lookup(gs, gs[p[j]].name) = p[j]
    BY <1>1, <1>4, <1>5, LookupFinds DEF n
  <1>9. IsList(gs[p[j]].plugins)
    BY <1>1, <1>5, PluginsAre
  <1> HIDE DEF pg
  <1>10. Lookup(gs, pg.name) = p[j]
    BY <1>7, <1>8
  <1> QED
    BY <1>4, <1>5, <1>6, <1>9, <1>10 DEF gs, n, pg

(* A page's choices pin what was picked on it.                             *)
LEMMA PageReplays ==
  ASSUME NEW st, IsStep(st), OneName(st.groups), \A g \in ToSet(st.groups) : OneName(g.plugins),
         NEW view, OfStep(view, st), NEW X, ToSet(OptionsOn(view)) \subseteq X
  PROVE  /\ IsList(GroupChoices(view))
         /\ \A i \in DOMAIN GroupChoices(view) :
              LET cg == GroupChoices(view)[i]
                  k  == Lookup(st.groups, cg.name)
              IN /\ k # 0 /\ IsList(cg.choices)
                 /\ \A c \in ToSet(cg.choices) : Lookup(st.groups[k].plugins, c) # 0
         /\ PageMarks(st, GroupChoices(view)) = Mapped(Rec(X), Kept(PickedOf(X, chosen), OptionsOn(view)))
  <1> DEFINE n  == Len(view.groups)
             gc == GroupChoices(view)
             K(j) == Lookup(st.groups, view.groups[j].name)
             os == [j \in DOMAIN view.groups |-> OptionsIn(view.name, view.groups[j])]
             ms == [j \in DOMAIN gc |-> Marks(st, st.groups[Lookup(st.groups, gc[j].name)], gc[j].choices)]
             rec == Rec(X)
             S == PickedOf(X, chosen)
  <1>1. n \in Nat /\ DOMAIN view.groups = 1 .. n /\ IsList(view.groups)
    BY ListIs DEF OfStep
  <1>2. ASSUME NEW j \in 1 .. n
        PROVE  /\ K(j) \in 1 .. Len(st.groups) /\ OfGroup(view.groups[j], st.groups[K(j)])
               /\ IsList(st.groups[K(j)].plugins) /\ OneName(st.groups[K(j)].plugins)
    BY GroupFound
  <1>3. \A j \in 1 .. n : IsList(view.groups[j].options)
    BY <1>2 DEF OfGroup
  <1>4. /\ Lists(os) /\ Len(os) = n
        /\ \A j \in 1 .. n : os[j] = OptionsIn(view.name, view.groups[j])
        /\ \A x : x \in ToSet(OptionsOn(view))
                    <=> \E j \in 1 .. n : x \in ToSet(OptionsIn(view.name, view.groups[j]))
    BY <1>1, <1>3, PageOptionsAre
  <1>5. OptionsOn(view) = FlattenSeq(os)
    BY DEF OptionsOn
  <1>6. /\ DOMAIN gc = 1 .. n /\ gc = [j \in 1 .. n |-> gc[j]]
        /\ \A j \in 1 .. n : gc[j] = [name |-> view.groups[j].name, choices |-> Picks(view.name, view.groups[j])]
    BY <1>1 DEF GroupChoices
  <1>7. \A j \in 1 .. n : gc[j].name = view.groups[j].name /\ gc[j].choices = Picks(view.name, view.groups[j])
    <2> HIDE DEF gc, n
    <2> QED
      BY <1>6
  <1>8. PageMarks(st, gc) = FlattenSeq(ms)
    BY DEF PageMarks
  <1>9. ms = [j \in 1 .. n |-> Marks(st, st.groups[K(j)], Picks(view.name, view.groups[j]))]
    <2> HIDE DEF gc, n
    <2> QED
      BY <1>6, <1>7
  <1>10. st.name = view.name
    BY DEF OfStep
  <1> HIDE DEF gc, os, ms
  <1>11. ASSUME NEW j \in 1 .. n
         PROVE  /\ IsList(Picks(view.name, view.groups[j]))
                /\ \A c \in ToSet(Picks(view.name, view.groups[j])) : Lookup(st.groups[K(j)].plugins, c) # 0
                /\ Marks(st, st.groups[K(j)], Picks(view.name, view.groups[j])) = Mapped(rec, Kept(S, os[j]))
    <2> DEFINE pg == view.groups[j]  g == st.groups[K(j)]  name == view.name
    <2>1. OfGroup(pg, g) /\ IsList(g.plugins) /\ OneName(g.plugins)
      BY <1>2
    <2>2. ToSet(OptionsIn(name, pg)) \subseteq X
      BY <1>4
    <2>3. os[j] = OptionsIn(name, pg) /\ st.name = name
      BY <1>4, <1>10
    <2> HIDE DEF pg, g, K, rec, S, name
    <2>4. /\ IsList(Picks(name, pg))
          /\ \A c \in ToSet(Picks(name, pg)) : Lookup(g.plugins, c) # 0
          /\ Marks(st, g, Picks(name, pg)) = Mapped(Rec(X), Kept(PickedOf(X, chosen), OptionsIn(name, pg)))
      BY <2>1, <2>2, <2>3, GroupReplays
    <2> QED
      BY <2>3, <2>4 DEF pg, g, name, rec, S
  <1>12. ms = [j \in 1 .. n |-> Mapped(rec, Kept(S, os[j]))]
    <2> HIDE DEF K, rec, S, n
    <2> QED
      BY <1>9, <1>11
  <1>13. Mapped(rec, Kept(S, FlattenSeq(os))) = FlattenSeq([j \in 1 .. Len(os) |-> Mapped(rec, Kept(S, os[j]))])
    <2> HIDE DEF rec, S
    <2> QED
      BY <1>4, JoinLaw
  <1>14. PageMarks(st, gc) = Mapped(rec, Kept(S, OptionsOn(view)))
    <2> HIDE DEF rec, S
    <2> QED
      BY <1>4, <1>5, <1>8, <1>12, <1>13
  <1>15. IsList(gc)
    BY <1>1, <1>6, ListOf
  <1>16. ASSUME NEW i \in DOMAIN gc
         PROVE  LET k  == Lookup(st.groups, gc[i].name) IN
                /\ k # 0 /\ IsList(gc[i].choices)
                /\ \A c \in ToSet(gc[i].choices) : Lookup(st.groups[k].plugins, c) # 0
    <2>1. i \in 1 .. n /\ Lookup(st.groups, gc[i].name) = K(i) /\ gc[i].choices = Picks(view.name, view.groups[i])
      BY <1>6, <1>7
    <2>2. K(i) \in 1 .. Len(st.groups)
      BY <1>2, <2>1
    <2>3. Len(st.groups) \in Nat
      BY GroupsAre, ListIs
    <2>4. K(i) # 0
      BY <2>2, <2>3
    <2> HIDE DEF K
    <2> QED
      BY <1>11, <2>1, <2>4
  <1> QED
    BY <1>14, <1>15, <1>16 DEF gc

(* The options of a whole dialog.                                          *)
LEMMA OptionsAre ==
  ASSUME NEW m \in Module
  PROVE  LET pages == Projection[m]
             ss == [i \in DOMAIN pages |-> OptionsOn(pages[i])] IN
         /\ IsList(pages) /\ Lists(ss) /\ Len(ss) = Len(pages) /\ DOMAIN pages = 1 .. Len(pages) /\ Len(pages) \in Nat
         /\ \A i \in 1 .. Len(pages) : ss[i] = OptionsOn(pages[i])
         /\ \A i \in 1 .. Len(pages) :
              /\ IsList(pages[i].groups)
              /\ \A j \in 1 .. Len(pages[i].groups) : IsList(pages[i].groups[j].options)
         /\ Options[m] = FlattenSeq(ss) /\ IsList(Options[m])
         /\ \A x : x \in ToSet(Options[m]) <=> \E i \in 1 .. Len(pages) : x \in ToSet(OptionsOn(pages[i]))
  <1> DEFINE pages == Projection[m]  n == Len(pages)
             ss == [i \in DOMAIN pages |-> OptionsOn(pages[i])]
  <1>1. OfModule(pages, Schema[m].steps)
    BY ProjectionIs
  <1>2. Options[m] = FlattenSeq(ss)
    BY DEF Options, OptionsOn, OptionsIn, FlatMap
  <1> HIDE DEF pages
  <1>3. IsList(pages) /\ n \in Nat /\ DOMAIN pages = 1 .. n /\ n = Len(Schema[m].steps)
    BY <1>1, ListIs DEF OfModule
  <1>4. ASSUME NEW i \in 1 .. n
        PROVE  /\ IsList(pages[i].groups)
               /\ \A j \in 1 .. Len(pages[i].groups) : IsList(pages[i].groups[j].options)
    <2>1. PICK st : OfStep(pages[i], st)
      BY <1>1, <1>3 DEF OfModule
    <2>2. IsList(pages[i].groups) /\ Len(pages[i].groups) = Len(st.groups)
      BY <2>1 DEF OfStep
    <2>3. ASSUME NEW j \in 1 .. Len(pages[i].groups) PROVE IsList(pages[i].groups[j].options)
      <3>1. PICK g : OfGroup(pages[i].groups[j], g)
        BY <2>1, <2>2 DEF OfStep
      <3> QED
        BY <3>1 DEF OfGroup
    <2> QED
      BY <2>2, <2>3
  <1>5. /\ DOMAIN ss = 1 .. n /\ ss = [i \in 1 .. n |-> ss[i]]
        /\ \A i \in 1 .. n : ss[i] = OptionsOn(pages[i])
    BY <1>3
  <1> HIDE DEF ss
  <1>6. \A i \in 1 .. n : IsList(ss[i])
    <2> SUFFICES ASSUME NEW i \in 1 .. n PROVE IsList(ss[i])
      OBVIOUS
    <2> DEFINE view == pages[i]
    <2>1. /\ IsList(view.groups) /\ \A j \in 1 .. Len(view.groups) : IsList(view.groups[j].options)
          /\ ss[i] = OptionsOn(view)
      BY <1>4, <1>5
    <2> HIDE DEF view
    <2>2. IsList(OptionsOn(view))
      BY <2>1, PageOptionsAre
    <2> QED
      BY <2>1, <2>2
  <1>7. Lists(ss) /\ Len(ss) = n
    BY <1>3, <1>5, <1>6, ListsBy
  <1>8. /\ IsList(FlattenSeq(ss))
        /\ \A x : x \in ToSet(FlattenSeq(ss)) <=> \E i \in 1 .. Len(ss) : x \in ToSet(ss[i])
    BY <1>7, FlattenLists
  <1> QED
    BY <1>2, <1>3, <1>4, <1>5, <1>7, <1>8 DEF pages, ss

(* The step that a page is looked up as.                                   *)
LEMMA StepFound ==
  ASSUME DistinctNames, NEW m \in Module, NEW i \in 1 .. Len(Projection[m])
  PROVE  LET st == Schema[m].steps[Lookup(Schema[m].steps, Projection[m][i].name)] IN
         /\ Lookup(Schema[m].steps, Projection[m][i].name) # 0
         /\ IsStep(st) /\ OneName(st.groups) /\ \A g \in ToSet(st.groups) : OneName(g.plugins)
         /\ OfStep(Projection[m][i], st)
  <1> DEFINE ss == Schema[m].steps  n == Len(ss)  view == Projection[m][i]
  <1>1. IsList(ss) /\ n \in Nat /\ DOMAIN ss = 1 .. n /\ \A k \in 1 .. n : IsStep(ss[k])
    BY EachElement, ListIs
  <1>2. /\ OneName(ss)
        /\ \A k \in 1 .. n : /\ OneName(ss[k].groups)
                             /\ \A g \in ToSet(ss[k].groups) : OneName(g.plugins)
    BY <1>1 DEF DistinctNames, ToSet
  <1>3. PICK p : Moves(p, n) /\ OfStep(view, ss[p[i]]) /\ i \in 1 .. n
    BY ProjectionIs DEF OfModule
  <1>4. p[i] \in 1 .. n /\ view.name = ss[p[i]].name
    BY <1>3 DEF Moves, OfStep
  <1> HIDE DEF ss, view
  <1>5. Lookup(ss, ss[p[i]].name) = p[i]
    BY <1>1, <1>2, <1>4, LookupFinds
  <1>6. p[i] # 0
    BY <1>1, <1>4
  <1> QED
    BY <1>1, <1>2, <1>3, <1>4, <1>5, <1>6 DEF ss, view

(* Two pages go by two names.                                              *)
LEMMA PagesDiffer ==
  ASSUME OneNameAPage, NEW m \in Module, NEW i \in DOMAIN Projection[m], NEW j \in DOMAIN Projection[m],
         Projection[m][i].name = Projection[m][j].name
  PROVE  i = j
  <1> DEFINE ss == Schema[m].steps  n == Len(ss)  pages == Projection[m]
  <1>1. IsList(ss) /\ n \in Nat /\ DOMAIN ss = 1 .. n /\ OneName(ss)
    BY EachElement, ListIs DEF OneNameAPage
  <1>2. IsList(pages) /\ Len(pages) = n
    BY ProjectionIs DEF OfModule
  <1>3. PICK p : Moves(p, n) /\ \A k \in 1 .. n : OfStep(pages[k], ss[p[k]])
    BY ProjectionIs DEF OfModule
  <1>4. pages[i].name = pages[j].name
    OBVIOUS
  <1>5. i \in DOMAIN pages /\ j \in DOMAIN pages
    OBVIOUS
  <1> HIDE DEF pages
  <1>6. i \in 1 .. n /\ j \in 1 .. n
    BY <1>2, <1>5, ListIs
  <1>7. pages[i].name = ss[p[i]].name /\ pages[j].name = ss[p[j]].name /\ p[i] \in 1 .. n /\ p[j] \in 1 .. n
    BY <1>3, <1>6 DEF OfStep, Moves
  <1> HIDE DEF ss, n
  <1>8. p[i] = p[j]
    BY <1>1, <1>4, <1>7 DEF OneName
  <1> QED
    BY <1>3, <1>6, <1>8 DEF Moves

(* What was picked, as the page collects it.                               *)
PickedList(m) == Kept(PickedOf(ToSet(Options[m]), chosen), Options[m])

(* The selection that the page sends is made of what was picked.           *)
LEMMA SelectionIs ==
  ASSUME wizard \in Module
  PROVE  LET picked == PickedList(wizard) IN
         /\ IsList(picked)
         /\ ToSet(picked) = PickedOf(ToSet(Options[wizard]), chosen)
         /\ Selection = [chosen |-> {picked[i].id : i \in DOMAIN picked},
                         flags  |-> Raised(FlattenSeq([i \in DOMAIN picked |-> picked[i].it.flags]))]
  <1> DEFINE os == Options[wizard]  S == PickedOf(ToSet(os), chosen)
             w == Where(os, LAMBDA o : o.id \in chosen)
  <1>1. IsList(os)
    BY OptionsAre
  <1>2. w = Kept(S, os)
    <2>1. w = FlattenSeq([i \in DOMAIN os |-> IF os[i].id \in chosen THEN <<os[i]>> ELSE <<>>])
      BY DEF Where, FlatMap
    <2>2. \A i \in DOMAIN os : os[i] \in S <=> os[i].id \in chosen
      BY DEF PickedOf, ToSet
    <2> HIDE DEF os, S, w
    <2> QED
      BY <2>1, <2>2 DEF Kept
  <1>3. IsList(Kept(S, os)) /\ ToSet(Kept(S, os)) = ToSet(os) \cap S
    <2> HIDE DEF os, S
    <2> QED
      BY <1>1, KeptHas
  <1>4. ToSet(os) \cap S = S
    BY DEF PickedOf
  <1>5. Selection = [chosen |-> {w[i].id : i \in DOMAIN w},
                     flags  |-> Raised(FlattenSeq([i \in DOMAIN w |-> w[i].it.flags]))]
    BY DEF Selection, FlatMap
  <1>6. PickedList(wizard) = Kept(S, os)
    BY DEF PickedList
  <1> HIDE DEF S, os, w
  <1> QED
    BY <1>2, <1>3, <1>4, <1>5, <1>6 DEF S, os

(* What the choices pin is what was picked, with the same flags, in the    *)
(* same order.                                                             *)
LEMMA PinnedIs ==
  ASSUME DistinctNames, wizard \in Module
  PROVE  Pinned(wizard, PinnedChoices) = Mapped(Rec(ToSet(Options[wizard])), PickedList(wizard))
  <1> DEFINE pages == Projection[wizard]
             n == Len(pages)
             ss == Schema[wizard].steps
             St(i) == ss[Lookup(ss, pages[i].name)]
             pc == PinnedChoices
             os == [i \in DOMAIN pages |-> OptionsOn(pages[i])]
             X == ToSet(Options[wizard])
             rec == Rec(X)
             S == PickedOf(X, chosen)
  <1>1. n \in Nat /\ DOMAIN pages = 1 .. n
    BY OptionsAre
  <1>2. /\ DOMAIN pc = 1 .. n
        /\ \A i \in 1 .. n : pc[i].name = pages[i].name /\ pc[i].groups = GroupChoices(pages[i])
    <2>1. pc = [i \in DOMAIN pages |-> [name |-> pages[i].name, groups |-> GroupChoices(pages[i])]]
      BY DEF PinnedChoices, Pages, GroupChoices, Picks
    <2> HIDE DEF pages, pc, n
    <2> QED
      BY <1>1, <2>1
  <1>3. Pinned(wizard, pc) = FlattenSeq([i \in DOMAIN pc |-> PageMarks(ss[Lookup(ss, pc[i].name)], pc[i].groups)])
    BY DEF Pinned, FlatMap, PageMarks, Marks
  <1>4. [i \in DOMAIN pc |-> PageMarks(ss[Lookup(ss, pc[i].name)], pc[i].groups)]
          = [i \in 1 .. n |-> PageMarks(St(i), GroupChoices(pages[i]))]
    <2> HIDE DEF pages, pc, n, ss
    <2> QED
      BY <1>2
  <1>5. /\ Lists(os) /\ Len(os) = n
        /\ \A i \in 1 .. n : os[i] = OptionsOn(pages[i])
        /\ Options[wizard] = FlattenSeq(os)
        /\ \A x : x \in X <=> \E i \in 1 .. n : x \in ToSet(OptionsOn(pages[i]))
    BY OptionsAre
  <1> HIDE DEF pc, os
  <1>6. ASSUME NEW i \in 1 .. n
        PROVE  PageMarks(St(i), GroupChoices(pages[i])) = Mapped(rec, Kept(S, os[i]))
    <2> DEFINE st == St(i)  view == pages[i]
    <2>1. /\ IsStep(st) /\ OneName(st.groups) /\ \A g \in ToSet(st.groups) : OneName(g.plugins)
          /\ OfStep(view, st)
      BY StepFound
    <2>2. ToSet(OptionsOn(view)) \subseteq X /\ os[i] = OptionsOn(view)
      BY <1>5
    <2> HIDE DEF st, view, X
    <2>3. PageMarks(st, GroupChoices(view)) = Mapped(Rec(X), Kept(PickedOf(X, chosen), OptionsOn(view)))
      BY <2>1, <2>2, PageReplays
    <2> QED
      BY <2>2, <2>3 DEF st, view
  <1> HIDE DEF St, pages, n, rec, S
  <1>7. [i \in 1 .. n |-> PageMarks(St(i), GroupChoices(pages[i]))] = [i \in 1 .. n |-> Mapped(rec, Kept(S, os[i]))]
    BY <1>6
  <1>8. Mapped(rec, Kept(S, FlattenSeq(os))) = FlattenSeq([i \in 1 .. Len(os) |-> Mapped(rec, Kept(S, os[i]))])
    BY <1>5, JoinLaw
  <1> HIDE DEF X, ss
  <1>9. Pinned(wizard, pc) = Mapped(rec, Kept(S, Options[wizard]))
    BY <1>3, <1>4, <1>5, <1>7, <1>8
  <1> QED
    BY <1>9 DEF pc, rec, S, X, PickedList

(* The choices name a step, a group and a plugin each.                     *)
LEMMA PinnedIsFresh ==
  ASSUME DistinctNames, wizard \in Module
  PROVE  ~ Stale(wizard, PinnedChoices)
  <1> DEFINE pages == Projection[wizard]
             n == Len(pages)
             ss == Schema[wizard].steps
             pc == PinnedChoices
             CGood(st, g, c) == Lookup(st.groups[g].plugins, c) # 0
             GGood(st, cg) == LET g == Lookup(st.groups, cg.name) IN g # 0 /\ Each(cg.choices, LAMBDA c : CGood(st, g, c))
             SGood(cs) == LET s == Lookup(ss, cs.name) IN s # 0 /\ Each(cs.groups, LAMBDA cg : GGood(ss[s], cg))
  <1>1. n \in Nat /\ DOMAIN pages = 1 .. n
    BY OptionsAre
  <1>2. /\ DOMAIN pc = 1 .. n /\ pc = [i \in 1 .. n |-> pc[i]]
        /\ \A i \in 1 .. n : pc[i].name = pages[i].name /\ pc[i].groups = GroupChoices(pages[i])
    <2>1. pc = [i \in DOMAIN pages |-> [name |-> pages[i].name, groups |-> GroupChoices(pages[i])]]
      BY DEF PinnedChoices, Pages, GroupChoices, Picks
    <2> HIDE DEF pages, pc, n
    <2> QED
      BY <1>1, <2>1
  <1>3. Stale(wizard, pc) <=> ~ Each(pc, SGood)
    BY DEF Stale, Each
  <1> HIDE DEF pc
  <1>4. IsList(pc)
    <2> HIDE DEF n
    <2> QED
      BY <1>1, <1>2, ListOf
  <1>5. ASSUME NEW i \in 1 .. n PROVE SGood(pc[i])
    <2> DEFINE s == Lookup(ss, pages[i].name)  st == ss[s]  view == pages[i]  gc == GroupChoices(view)
    <2>1. /\ s # 0 /\ IsStep(st) /\ OneName(st.groups) /\ \A g \in ToSet(st.groups) : OneName(g.plugins)
          /\ OfStep(view, st)
      BY StepFound
    <2>2. pc[i].name = view.name /\ pc[i].groups = gc
      BY <1>2
    <2> DEFINE X == ToSet(OptionsOn(view))
    <2>3. /\ IsList(gc)
          /\ \A j \in DOMAIN gc :
               LET cg == gc[j]
                   k  == Lookup(st.groups, cg.name)
               IN /\ k # 0 /\ IsList(cg.choices)
                  /\ \A c \in ToSet(cg.choices) : Lookup(st.groups[k].plugins, c) # 0
      <3> HIDE DEF st, view
      <3> QED
        BY <2>1, PageReplays
    <2> HIDE DEF gc, st, view
    <2>4. \A j \in DOMAIN gc : GGood(st, gc[j])
      BY <2>3 DEF Each, IsList, ToSet
    <2> HIDE DEF GGood
    <2> DEFINE t == Lookup(ss, pc[i].name)  cgs == pc[i].groups
    <2>5. t = s /\ ss[t] = st
      BY <2>2 DEF st, view
    <2>6. t # 0 /\ cgs \in Seq(ToSet(cgs)) /\ \A j \in DOMAIN cgs : GGood(ss[t], cgs[j])
      <3> HIDE DEF t, s
      <3> QED
        BY <2>1, <2>2, <2>3, <2>4, <2>5 DEF IsList
    <2> QED
      BY <2>6 DEF Each
  <1> HIDE DEF SGood
  <1>6. Each(pc, SGood)
    BY <1>2, <1>4, <1>5 DEF Each, IsList
  <1> QED
    BY <1>3, <1>6 DEF pc

(* So the replay builds the selection of the page.                         *)
LEMMA ReplayedIs ==
  ASSUME DistinctNames, wizard \in Module
  PROVE  Replay(wizard, PinnedChoices) = Selection
  <1> DEFINE X == ToSet(Options[wizard])
             picked == PickedList(wizard)
             opts == Pinned(wizard, PinnedChoices)
  <1>1. /\ IsList(picked) /\ ToSet(picked) \subseteq X
        /\ Selection = [chosen |-> {picked[i].id : i \in DOMAIN picked},
                        flags  |-> Raised(FlattenSeq([i \in DOMAIN picked |-> picked[i].it.flags]))]
    BY SelectionIs DEF PickedOf
  <1>2. opts = Mapped(Rec(X), picked)
    BY PinnedIs
  <1>3. Replay(wizard, PinnedChoices)
          = [chosen |-> {opts[i].id : i \in DOMAIN opts},
             flags  |-> Raised(FlattenSeq([i \in DOMAIN opts |-> opts[i].flags]))]
    BY DEF Replay, FlatMap
  <1> HIDE DEF X, picked, opts
  <1>4. /\ DOMAIN opts = DOMAIN picked
        /\ \A i \in DOMAIN picked : opts[i].id = picked[i].id /\ opts[i].flags = picked[i].it.flags
    <2>1. \A i \in DOMAIN picked : picked[i] \in X
      BY <1>1 DEF ToSet
    <2> QED
      BY <1>2, <2>1 DEF Mapped, Rec
  <1>5. {opts[i].id : i \in DOMAIN opts} = {picked[i].id : i \in DOMAIN picked}
    BY <1>4
  <1>6. [i \in DOMAIN opts |-> opts[i].flags] = [i \in DOMAIN picked |-> picked[i].it.flags]
    BY <1>4
  <1> QED
    BY <1>1, <1>3, <1>5, <1>6

-----------------------------------------------------------------------------
(* What is installed.                                                      *)

(* A call that stages carries the archive that its selection was checked   *)
(* against; a call that installs a plain mod has no selection.             *)
Checked(c) == /\ c.kind = "stage" => Accepted(c.gate, c.sel)
              /\ c.kind = "plain" => c.sel = NoSel

(* Every mod recorded with a selection is of an archive that accepts it,   *)
(* or not the archive that was checked.                                    *)
Recorded ==
  /\ IsList(installed)
  /\ \A c \in calls : Checked(c)
  /\ AcceptedByItsArchive

(* Installing what was checked, or what needs no check, keeps that.        *)
LEMMA InstallRecords ==
  ASSUME Recorded, NEW c \in calls, NEW m, Install(c, m), c.kind \in {"stage", "plain"}
  PROVE  IsList(installed') /\ AcceptedByItsArchive'
  <1> DEFINE r == [of |-> c.sel, m |-> m, tree |-> Staged(m), gate |-> c.gate]
  <1>1. installed' = Append(installed, r)
    BY DEF Install
  <1>2. r.of # NoSel => r.m # r.gate \/ Accepted(r.m, r.of)
    BY DEF Recorded, Checked
  <1> HIDE DEF r
  <1>3. /\ IsList(installed') /\ Len(installed') = Len(installed) + 1 /\ Len(installed) \in Nat
        /\ \A i \in 1 .. Len(installed) : installed'[i] = installed[i]
        /\ installed'[Len(installed) + 1] = r
    BY <1>1, AppendedList DEF Recorded
  <1>4. DOMAIN installed' = 1 .. Len(installed) + 1 /\ DOMAIN installed = 1 .. Len(installed)
    BY <1>3, ListIs DEF Recorded
  <1>5. ASSUME NEW i \in DOMAIN installed', installed'[i].of # NoSel
        PROVE  installed'[i].m # installed'[i].gate \/ Accepted(installed'[i].m, installed'[i].of)
    <2>1. CASE i \in 1 .. Len(installed)
      BY <1>3, <1>4, <1>5, <2>1 DEF Recorded, AcceptedByItsArchive
    <2>2. CASE i = Len(installed) + 1
      BY <1>2, <1>3, <1>5, <2>2
    <2> QED
      BY <1>4, <2>1, <2>2
  <1> QED
    BY <1>3, <1>5 DEF AcceptedByItsArchive

(* A mod recorded with a selection was staged from an archive whose own    *)
(* installer accepts the selection: the server checks it again, whatever   *)
(* the page let through and whatever is at the path by then. Only a        *)
(* replacement between the check and the staging of one apply_fomod gets   *)
(* round it, and then the archive that was checked is not the staged one.  *)
THEOREM RecordedIsAccepted == Spec => []AcceptedByItsArchive
  <1>1. Init => Recorded
    BY DEF Init, Recorded, AcceptedByItsArchive, IsList, ToSet
  <1>2. Recorded /\ [Next]_vars => Recorded'
    <2> SUFFICES ASSUME Recorded, [Next]_vars PROVE Recorded'
      OBVIOUS
    <2>1. ASSUME UNCHANGED installed PROVE IsList(installed') /\ AcceptedByItsArchive'
      BY <2>1 DEF Recorded, AcceptedByItsArchive
    <2>2. ASSUME NEW c \in calls, calls' = calls \ {c} PROVE \A d \in calls' : Checked(d)
      BY <2>2 DEF Recorded
    <2>3. ASSUME NEW c \in calls, PlainReturns(c) \/ ApplyStages(c) PROVE Recorded'
      <3>1. \A d \in calls' : Checked(d)
        BY <2>2, <2>3 DEF PlainReturns, ApplyStages, Returns
      <3>2. IsList(installed') /\ AcceptedByItsArchive'
        BY <2>1, <2>3, InstallRecords DEF PlainReturns, ApplyStages
      <3> QED
        BY <3>1, <3>2 DEF Recorded, Checked
    <2>4. ASSUME NEW c \in calls, ApplyChecks(c) PROVE Recorded'
      <3> DEFINE d == [c EXCEPT !.kind = "stage", !.gate = archive]
      <3>1. /\ Accepted(archive, c.sel) /\ calls' = (calls \ {c}) \cup {d}
            /\ UNCHANGED <<archive, installed>>
        BY <2>4 DEF ApplyChecks, Resolves, world
      <3>2. Checked(d)
        <4>1. c \in calls
          OBVIOUS
        <4> QED
          BY <3>1 DEF Checked
      <3> HIDE DEF d
      <3>3. \A e \in calls' : Checked(e)
        BY <3>1, <3>2 DEF Recorded
      <3> QED
        BY <2>1, <3>1, <3>3 DEF Recorded, Checked
    <2>5. CASE Click
      <3>1. UNCHANGED installed
        BY <2>5 DEF Click, OpenWizard, InstallPlain, DismissFallback, ToggleOption, NextStep,
                    PreviousStep, ShowPreview, LeavePreview, Apply, Cancel
      <3>2. \A d \in calls' \ calls : d.kind \in {"parse", "resolve", "apply", "plain"}
                                      /\ (d.kind = "plain" => d.sel = NoSel)
        BY <2>5 DEF Click, OpenWizard, InstallPlain, DismissFallback, ToggleOption, NextStep,
                    PreviousStep, ShowPreview, LeavePreview, Apply, Cancel, Starts, Call
      <3>3. \A d \in calls' : Checked(d)
        BY <3>2 DEF Recorded, Checked
      <3> QED
        BY <2>1, <3>1, <3>3 DEF Recorded, Checked
    <2>6. ASSUME NEW c \in calls, \/ ParseOpens(c) \/ ParseIsPlain(c) \/ ParseFails(c)
                                  \/ ResolveReturns(c) \/ ApplyRefused(c) \/ StagingFails(c)
          PROVE  Recorded'
      <3>1. UNCHANGED installed
        BY <2>6 DEF ParseOpens, ParseIsPlain, ParseFails, ResolveReturns, ApplyRefused, StagingFails
      <3>2. calls' \subseteq calls \cup {Call("plain", NoSel)}
        BY <2>6 DEF ParseOpens, ParseIsPlain, ParseFails, ResolveReturns, ApplyRefused, StagingFails,
                    Returns
      <3>3. \A d \in calls' : Checked(d)
        BY <3>2 DEF Recorded, Checked, Call
      <3> QED
        BY <2>1, <3>1, <3>3 DEF Recorded, Checked
    <2>7. CASE Refresh \/ Refreshed \/ Replace \/ UNCHANGED vars
      <3>1. UNCHANGED <<installed, calls>>
        BY <2>7 DEF Refresh, Refreshed, Replace, vars
      <3> QED
        BY <2>1, <3>1 DEF Recorded, Checked
    <2> QED
      BY <2>3, <2>4, <2>5, <2>6, <2>7 DEF Next, Return
  <1>3. Recorded => AcceptedByItsArchive
    BY DEF Recorded
  <1> QED
    BY <1>1, <1>2, <1>3, PTL DEF Spec

-----------------------------------------------------------------------------
(* The dialog.                                                             *)

(* The pages behind the one that is shown are valid: the page behind is    *)
(* checked when it is left, and no click on another page changes its picks.*)
Behind ==
  wizard # None =>
    /\ wizard \in Module
    /\ step \in Nat \ {0} /\ (step = 1 \/ step \in DOMAIN Pages)
    /\ \A i \in DOMAIN Pages : i < step => StepValid(Pages[i], chosen)

(* The pages are a list.                                                   *)
LEMMA PagesAreListed ==
  ASSUME NEW m \in Module
  PROVE  DOMAIN Projection[m] = 1 .. Len(Projection[m]) /\ Len(Projection[m]) \in Nat
  BY OptionsAre

(* A page is as valid as it was when its own options are picked alike.     *)
LEMMA SamePicks ==
  ASSUME NEW st, NEW S, NEW T,
         \A g, o : <<st.name, g, o>> \in S <=> <<st.name, g, o>> \in T,
         StepValid(st, S)
  PROVE  StepValid(st, T)
  <1>1. ASSUME NEW g PROVE PickedIn(st, g, S) = PickedIn(st, g, T)
    <2>1. {i \in DOMAIN g.options : <<st.name, g.name, g.options[i].name>> \in S}
            = {i \in DOMAIN g.options : <<st.name, g.name, g.options[i].name>> \in T}
      OBVIOUS
    <2> QED
      BY <2>1 DEF PickedIn
  <1> QED
    BY <1>1 DEF StepValid

(* A click on an option leaves the picks of the other pages.               *)
LEMMA ToggleKeepsOthers ==
  ASSUME OneNameAPage, Behind, ToggleOption
  PROVE  Behind'
  <1>1. /\ wizard # None /\ UNCHANGED <<wizard, step>>
    BY DEF ToggleOption, OnPage
  <1>2. PICK k \in DOMAIN Options[wizard] :
          LET o == Options[wizard][k]
              siblings == {<<o.id[1], o.id[2], o.group.options[j].name>> : j \in DOMAIN o.group.options}
          IN o.id[1] = Pages[step].name /\ chosen' = Toggle(o, siblings)
    BY DEF ToggleOption
  <1> DEFINE o == Options[wizard][k]
             siblings == {<<o.id[1], o.id[2], o.group.options[j].name>> : j \in DOMAIN o.group.options}
  <1>3. o.id[1] = Pages[step].name
    BY <1>2
  <1>4. ASSUME NEW x, x # o.id, x \notin siblings PROVE x \in chosen' <=> x \in chosen
    <2>1. \/ chosen' = (chosen \ siblings) \cup {o.id}
          \/ chosen' = chosen \ siblings
          \/ chosen' = chosen \ {o.id}
          \/ chosen' = chosen \cup {o.id}
      <3>1. chosen' = Toggle(o, siblings)
        BY <1>2
      <3> HIDE DEF o, siblings
      <3> QED
        BY <3>1, Zenon DEF Toggle
    <2> HIDE DEF o, siblings
    <2> QED
      BY <1>4, <2>1
  <1>5. ASSUME NEW n, n # Pages[step].name, NEW g, NEW p
        PROVE  <<n, g, p>> \in chosen' <=> <<n, g, p>> \in chosen
    <2>1. <<n, g, p>> # o.id
      <3>1. <<n, g, p>>[1] = n
        OBVIOUS
      <3> QED
        BY <1>3, <1>5, <3>1
    <2>2. <<n, g, p>> \notin siblings
      BY <1>3, <1>5
    <2> HIDE DEF o, siblings
    <2> QED
      BY <1>4, <2>1, <2>2
  <1>6. ASSUME NEW i \in DOMAIN Pages, i < step PROVE StepValid(Pages[i], chosen')
    <2>1. step \in DOMAIN Pages /\ wizard \in Module /\ i # step
      BY <1>1, <1>6, PagesAreListed DEF Behind, Pages
    <2>2. Pages[i].name # Pages[step].name
      BY <2>1, PagesDiffer DEF Pages
    <2>3. StepValid(Pages[i], chosen)
      BY <1>1, <1>6 DEF Behind
    <2>4. \A g, p : <<Pages[i].name, g, p>> \in chosen <=> <<Pages[i].name, g, p>> \in chosen'
      BY <1>5, <2>2
    <2> QED
      BY <2>3, <2>4, SamePicks
  <1>7. Pages' = Pages
    BY <1>1 DEF Pages
  <1> QED
    BY <1>1, <1>6, <1>7 DEF Behind, StepValid, PickedIn

(* Every step keeps the pages behind valid.                                *)
LEMMA BehindStep == OneNameAPage /\ Behind /\ [Next]_vars => Behind'
  <1> SUFFICES ASSUME OneNameAPage, Behind, [Next]_vars PROVE Behind'
    OBVIOUS
  <1> USE DEF dialog
  <1>1. CASE UNCHANGED <<wizard, step, chosen>>
    BY <1>1 DEF Behind, Pages
  <1>2. CASE wizard' = None
    BY <1>2 DEF Behind
  <1>3. CASE NextStep
    <2>1. /\ wizard # None /\ UNCHANGED <<wizard, chosen>> /\ step' = step + 1 /\ Pages' = Pages
          /\ step < Len(Pages) /\ StepValid(Pages[step], chosen)
      BY <1>3 DEF NextStep, OnPage, Pages
    <2>2. step' \in DOMAIN Pages
      BY <2>1, PagesAreListed DEF Behind, Pages
    <2>3. \A i \in DOMAIN Pages : i < step' => i < step \/ i = step
      BY <2>1, PagesAreListed DEF Behind, Pages
    <2> QED
      BY <2>1, <2>2, <2>3 DEF Behind
  <1>4. CASE PreviousStep
    <2>1. /\ wizard # None /\ UNCHANGED <<wizard, chosen>> /\ step' = step - 1 /\ step > 1 /\ Pages' = Pages
      BY <1>4 DEF PreviousStep, OnPage, Pages
    <2>2. step' \in DOMAIN Pages /\ step' \in Nat \ {0}
      BY <2>1, PagesAreListed DEF Behind, Pages
    <2>3. \A i \in DOMAIN Pages : i < step' => i < step
      BY <2>1, PagesAreListed DEF Behind, Pages
    <2> QED
      BY <2>1, <2>2, <2>3 DEF Behind
  <1>5. ASSUME NEW c \in calls, ParseOpens(c) PROVE Behind'
    <2>1. wizard' = archive /\ archive \in Module /\ step' = 1
      BY <1>5 DEF ParseOpens
    <2>2. \A i \in DOMAIN Projection[wizard'] : ~ i < 1
      BY <2>1, PagesAreListed
    <2> QED
      BY <2>1, <2>2 DEF Behind, Pages
  <1>6. CASE Click
    BY <1>1, <1>2, <1>3, <1>4, <1>6, ToggleKeepsOthers
    DEF Click, OpenWizard, InstallPlain, DismissFallback, ShowPreview, LeavePreview, Apply, Cancel, Close
  <1>7. CASE Return
    <2>1. PICK c \in calls : \/ ParseOpens(c) \/ ParseIsPlain(c) \/ ParseFails(c)
                             \/ PlainReturns(c) \/ ResolveReturns(c) \/ ApplyChecks(c)
                             \/ ApplyRefused(c) \/ ApplyStages(c) \/ StagingFails(c)
      BY <1>7 DEF Return
    <2> QED
      BY <1>1, <1>2, <1>5, <2>1
      DEF ParseIsPlain, ParseFails, PlainReturns, ResolveReturns, ApplyChecks, ApplyRefused,
          ApplyStages, StagingFails, Close
  <1>8. CASE Refresh \/ Refreshed \/ Replace \/ UNCHANGED vars
    BY <1>1, <1>8 DEF Refresh, Refreshed, Replace, vars
  <1> QED
    BY <1>6, <1>7, <1>8 DEF Next

(* Only picks that are options are sent, and they make a page as valid.    *)
LEMMA SentIsChosen ==
  ASSUME wizard \in Module, NEW i \in DOMAIN Pages, StepValid(Pages[i], chosen)
  PROVE  StepValid(Pages[i], Selection.chosen)
  <1> DEFINE sent == Selection.chosen  view == Pages[i]
  <1>1. \A x : x \in sent <=> x \in chosen /\ \E o \in ToSet(Options[wizard]) : o.id = x
    <2> DEFINE picked == PickedList(wizard)
    <2>1. ToSet(picked) = PickedOf(ToSet(Options[wizard]), chosen) /\ sent = {picked[k].id : k \in DOMAIN picked}
      BY SelectionIs
    <2> HIDE DEF picked, sent
    <2>2. \A x : x \in sent <=> \E o \in ToSet(picked) : o.id = x
      BY <2>1 DEF ToSet
    <2> QED
      BY <2>1, <2>2 DEF PickedOf
  <1>2. ASSUME NEW j \in DOMAIN view.groups, NEW k \in DOMAIN view.groups[j].options
        PROVE  \E o \in ToSet(Options[wizard]) :
                 o.id = <<view.name, view.groups[j].name, view.groups[j].options[k].name>>
    <2> DEFINE pages == Projection[wizard]  pg == view.groups[j]  os == OptionsIn(view.name, pg)
    <2>1. /\ i \in 1 .. Len(pages) /\ view = pages[i]
          /\ IsList(view.groups) /\ \A l \in 1 .. Len(view.groups) : IsList(view.groups[l].options)
          /\ \A x : x \in ToSet(OptionsOn(view)) => x \in ToSet(Options[wizard])
      BY OptionsAre DEF Pages
    <2> HIDE DEF view
    <2>2. j \in 1 .. Len(view.groups) /\ IsList(pg.options)
      BY <2>1, ListIs
    <2>3. ToSet(os) \subseteq ToSet(OptionsOn(view))
      BY <2>1, <2>2, PageOptionsAre
    <2>4. IsList(os) /\ Len(os) = Len(pg.options) /\ DOMAIN pg.options = 1 .. Len(pg.options)
          /\ \A l \in 1 .. Len(pg.options) :
               os[l] = [id |-> <<view.name, pg.name, pg.options[l].name>>, group |-> pg, it |-> pg.options[l]]
      BY <2>2, OptionsInAre, ListIs
    <2>5. k \in DOMAIN os /\ os[k].id = <<view.name, pg.name, pg.options[k].name>>
      <3>1. k \in DOMAIN pg.options
        OBVIOUS
      <3> HIDE DEF os, pg
      <3>2. DOMAIN os = 1 .. Len(os)
        BY <2>4, ListIs
      <3>3. k \in DOMAIN os
        BY <2>4, <3>1, <3>2
      <3>4. os[k] = [id |-> <<view.name, pg.name, pg.options[k].name>>, group |-> pg, it |-> pg.options[k]]
        BY <2>4, <3>1
      <3>5. os[k].id = <<view.name, pg.name, pg.options[k].name>>
        BY <3>4
      <3> QED
        BY <3>3, <3>5
    <2> HIDE DEF os
    <2>6. os[k] \in ToSet(Options[wizard])
      BY <2>1, <2>3, <2>5 DEF ToSet
    <2> QED
      BY <2>5, <2>6
  <1>3. ASSUME NEW j \in DOMAIN view.groups
        PROVE  PickedIn(view, view.groups[j], chosen) = PickedIn(view, view.groups[j], sent)
    <2> DEFINE g == view.groups[j]
    <2> HIDE DEF sent, view
    <2>1. {k \in DOMAIN g.options : <<view.name, g.name, g.options[k].name>> \in chosen}
            = {k \in DOMAIN g.options : <<view.name, g.name, g.options[k].name>> \in sent}
      BY <1>1, <1>2
    <2> QED
      BY <2>1 DEF PickedIn
  <1> QED
    BY <1>3 DEF StepValid

(* Two steps of an installer go by two names: a plan is then asked for     *)
(* only when every page is decided, not only the last one, which is the    *)
(* only one that is checked then (fomodNext, fomod.ts).                    *)
THEOREM AskedWhenDecided == ASSUME OneNameAPage PROVE Spec => AskedIsComplete
  <1>1. Init => Behind
    BY DEF Init, Behind
  <1>2. Behind /\ [Next]_vars => Behind'
    BY BehindStep
  <1>3. Behind /\ ShowPreview => \A i \in DOMAIN Pages : StepValid(Pages[i], Selection.chosen)
    <2> SUFFICES ASSUME Behind, ShowPreview, NEW i \in DOMAIN Pages
                 PROVE  StepValid(Pages[i], chosen)
      BY SentIsChosen DEF Behind, ShowPreview, OnPage
    <2>1. wizard \in Module /\ step \in Nat /\ step = Len(Pages) /\ StepValid(Pages[step], chosen)
      BY DEF Behind, ShowPreview, OnPage
    <2>2. i < step \/ i = step
      BY <2>1, PagesAreListed DEF Pages
    <2> QED
      BY <2>1, <2>2 DEF Behind, ShowPreview, OnPage
  <1> QED
    BY <1>1, <1>2, <1>3, PTL DEF Spec, AskedIsComplete

(* When every step, group of a step and plugin of a group has a name of    *)
(* its own, replaying the choices that a Collection pins of what the user  *)
(* picked is no stale replay, and builds the very selection that the page  *)
(* sends, flags and their order included (replay.rs, fomod.ts).            *)
THEOREM ReplayedIsTheWizard == ASSUME DistinctNames PROVE Spec => []ReplayIsTheWizard
  <1>1. Init => Behind
    BY DEF Init, Behind
  <1>2. Behind /\ [Next]_vars => Behind'
    BY BehindStep DEF DistinctNames, OneNameAPage
  <1>3. Behind => ReplayIsTheWizard
    BY PinnedIsFresh, ReplayedIs DEF Behind, ReplayIsTheWizard
  <1> QED
    BY <1>1, <1>2, <1>3, PTL DEF Spec
=============================================================================
