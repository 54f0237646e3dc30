--------------------------- MODULE LoadOrderProofs ---------------------------
(***************************************************************************)
(* Proofs about LoadOrder, for every set of plugins, early ones, masters   *)
(* and profiles, and every number of saves and edits.                      *)
(***************************************************************************)
EXTENDS LoadOrder, SequenceTheorems, FiniteSetTheorems, TLAPS

-----------------------------------------------------------------------------
(* Sequences.                                                              *)

IsList(s) == s \in Seq(ToSet(s))

(* x stands in s somewhere ahead of y.                                     *)
Goes(s, x, y) == \E i, j \in DOMAIN s : i < j /\ s[i] = x /\ s[j] = y

Asymmetric(R, S) == \A x, y \in S : <<x, y>> \in R => <<y, x>> \notin R

Strict(R, S) ==
  /\ Asymmetric(R, S)
  /\ \A x, y \in S : x # y => <<x, y>> \in R \/ <<y, x>> \in R
  /\ \A x, y, z \in S : <<x, y>> \in R /\ <<y, z>> \in R => <<x, z>> \in R

Below(S, R, x) == {y \in S : <<y, x>> \in R}

LEMMA ListOf ==
  ASSUME NEW s, NEW n \in Nat, DOMAIN s = 1 .. n, s = [i \in 1 .. n |-> s[i]]
  PROVE  IsList(s) /\ Len(s) = n
  <1>1. s \in [1 .. n -> ToSet(s)]
    BY DEF ToSet
  <1> QED
    BY <1>1 DEF IsList

LEMMA ListIs ==
  ASSUME NEW s, IsList(s)
  PROVE  /\ Len(s) \in Nat /\ DOMAIN s = 1 .. Len(s) /\ s = [i \in 1 .. Len(s) |-> s[i]]
  <1> DEFINE S == ToSet(s)
  <1>1. s \in Seq(S)
    BY DEF IsList
  <1> HIDE DEF S
  <1> QED
    BY <1>1

(* Who has fewer before is before.                                         *)
LEMMA RankOfElement ==
  ASSUME NEW S, IsFiniteSet(S), NEW R, Strict(R, S), NEW x \in S
  PROVE  /\ IsFiniteSet(Below(S, R, x)) /\ Cardinality(Below(S, R, x)) \in Nat
         /\ Cardinality(Below(S, R, x)) < Cardinality(S)
         /\ \A y \in S : <<x, y>> \in R => Cardinality(Below(S, R, x)) < Cardinality(Below(S, R, y))
  <1>1. \A y \in S : IsFiniteSet(Below(S, R, y)) /\ Cardinality(Below(S, R, y)) \in Nat
    <2> SUFFICES ASSUME NEW y \in S
                 PROVE  IsFiniteSet(Below(S, R, y)) /\ Cardinality(Below(S, R, y)) \in Nat
      OBVIOUS
    <2>1. Below(S, R, y) \in SUBSET S
      BY DEF Below
    <2> QED
      BY <2>1, FS_Subset, FS_CardinalityType
  <1>2. ASSUME NEW T, IsFiniteSet(T), x \in T, Below(S, R, x) \subseteq T
        PROVE  Cardinality(Below(S, R, x)) < Cardinality(T)
    <2>1. x \notin Below(S, R, x)
      BY DEF Below, Strict, Asymmetric
    <2>2. IsFiniteSet(T \ {x}) /\ Cardinality(T \ {x}) = Cardinality(T) - 1 /\ Cardinality(T) \in Nat
      BY <1>2, FS_RemoveElement, FS_CardinalityType
    <2>3. Below(S, R, x) \in SUBSET (T \ {x})
      BY <1>2, <2>1
    <2>4. Cardinality(Below(S, R, x)) <= Cardinality(T \ {x})
      BY <2>2, <2>3, FS_Subset
    <2> QED
      BY <1>1, <2>2, <2>4
  <1>3. Cardinality(Below(S, R, x)) < Cardinality(S)
    BY <1>2 DEF Below
  <1>4. ASSUME NEW y \in S, <<x, y>> \in R
        PROVE  Cardinality(Below(S, R, x)) < Cardinality(Below(S, R, y))
    <2>1. x \in Below(S, R, y)
      BY <1>4 DEF Below
    <2>2. Below(S, R, x) \subseteq Below(S, R, y)
      BY <1>4 DEF Below, Strict
    <2> QED
      BY <1>1, <1>2, <2>1, <2>2
  <1> QED
    BY <1>1, <1>3, <1>4

(* Sorting lists every element of the set, in the order.                   *)
LEMMA SortedLists ==
  ASSUME NEW S, IsFiniteSet(S), NEW R, Strict(R, S)
  PROVE  /\ Cardinality(S) \in Nat /\ DOMAIN Sorted(S, R) = 1 .. Cardinality(S)
         /\ IsList(Sorted(S, R)) /\ ToSet(Sorted(S, R)) = S
         /\ \A i \in DOMAIN Sorted(S, R) : Cardinality(Below(S, R, Sorted(S, R)[i])) = i - 1
         /\ \A x, y : Goes(Sorted(S, R), x, y) => <<x, y>> \in R
  <1> DEFINE n == Cardinality(S)  s == Sorted(S, R)
             f == [x \in S |-> Cardinality(Below(S, R, x)) + 1]
  <1>1. n \in Nat
    BY FS_CardinalityType
  <1>2. f \in Injection(S, 1 .. n)
    <2>1. f \in [S -> 1 .. n]
      <3>1. ASSUME NEW x \in S PROVE Cardinality(Below(S, R, x)) + 1 \in 1 .. n
        BY <1>1, RankOfElement
      <3> QED
        BY <3>1
    <2>2. ASSUME NEW x \in S, NEW y \in S, x # y PROVE f[x] # f[y]
      <3>1. <<x, y>> \in R \/ <<y, x>> \in R
        BY <2>2 DEF Strict
      <3>2. f[x] < f[y] \/ f[y] < f[x]
        BY <3>1, RankOfElement
      <3> QED
        BY <2>1, <3>2
    <2> QED
      BY <2>1, <2>2 DEF Injection, IsInjective
  <1>3. f \in Surjection(S, 1 .. n)
    <2>1. IsFiniteSet(1 .. n) /\ Cardinality(1 .. n) = n
      BY <1>1, FS_Interval
    <2> HIDE DEF f
    <2> QED
      BY <1>2, <2>1, FS_Injection
  <1>4. ASSUME NEW i \in 1 .. n
        PROVE  s[i] \in S /\ Cardinality(Below(S, R, s[i])) = i - 1
    <2>1. PICK x \in S : f[x] = i
      BY <1>3 DEF Surjection
    <2>2. Cardinality(Below(S, R, x)) = i - 1
      BY <2>1, RankOfElement
    <2>3. s[i] = CHOOSE z \in S : Cardinality(Below(S, R, z)) = i - 1
      BY DEF Sorted, Below
    <2> HIDE DEF s
    <2> QED
      BY <2>2, <2>3
  <1>5. DOMAIN s = 1 .. n /\ s = [i \in 1 .. n |-> s[i]]
    <2> DEFINE c(i) == CHOOSE x \in S : Cardinality({y \in S : <<y, x>> \in R}) = i - 1
    <2>1. s = [i \in 1 .. n |-> c(i)]
      BY DEF Sorted
    <2> HIDE DEF s, c, n
    <2> QED
      BY <2>1
  <1>6. IsList(s)
    BY <1>1, <1>5, ListOf
  <1>7. ASSUME NEW x \in S PROVE x \in ToSet(s)
    <2>1. f[x] \in 1 .. n /\ Cardinality(Below(S, R, x)) = f[x] - 1
      BY <1>1, RankOfElement
    <2>2. s[f[x]] \in S /\ Cardinality(Below(S, R, s[f[x]])) = f[x] - 1
      BY <1>4, <2>1
    <2>3. f[s[f[x]]] = f[x]
      BY <2>1, <2>2
    <2> HIDE DEF f, s
    <2>4. s[f[x]] = x
      BY <1>2, <2>2, <2>3 DEF Injection, IsInjective
    <2> QED
      BY <1>5, <2>1, <2>4 DEF ToSet
  <1>8. ToSet(s) = S
    BY <1>4, <1>5, <1>7 DEF ToSet
  <1>9. ASSUME NEW i \in 1 .. n, NEW j \in 1 .. n, i < j PROVE <<s[i], s[j]>> \in R
    <2> HIDE DEF s
    <2>1. s[i] \in S /\ s[j] \in S /\ Cardinality(Below(S, R, s[i])) = i - 1
          /\ Cardinality(Below(S, R, s[j])) = j - 1
      BY <1>4
    <2>2. s[i] # s[j]
      BY <1>9, <2>1
    <2>3. <<s[j], s[i]>> \notin R
      BY <1>9, <2>1, RankOfElement
    <2> QED
      BY <2>1, <2>2, <2>3 DEF Strict
  <1> HIDE DEF s
  <1>10. \A x, y : Goes(s, x, y) => <<x, y>> \in R
    BY <1>5, <1>9 DEF Goes
  <1> QED
    BY <1>1, <1>4, <1>5, <1>6, <1>8, <1>10 DEF s

(* A list in the order of R is what sorting its elements gives.            *)
LEMMA SortedIs ==
  ASSUME NEW s, IsList(s), NEW R, Asymmetric(R, ToSet(s)),
         \A x, y : Goes(s, x, y) => <<x, y>> \in R
  PROVE  s = Sorted(ToSet(s), R) /\ IsFiniteSet(ToSet(s))
  <1> DEFINE n == Len(s)  S == ToSet(s)
  <1>1. n \in Nat /\ DOMAIN s = 1 .. n /\ s = [i \in 1 .. n |-> s[i]]
    BY ListIs
  <1>2. \A i \in 1 .. n : s[i] \in S
    BY <1>1 DEF ToSet
  <1>3. \A i, j \in 1 .. n : i < j => <<s[i], s[j]>> \in R
    BY <1>1 DEF Goes
  <1>4. \A i, j \in 1 .. n : i # j => s[i] # s[j]
    <2> SUFFICES ASSUME NEW i \in 1 .. n, NEW j \in 1 .. n, i # j, s[i] = s[j] PROVE FALSE
      OBVIOUS
    <2>1. <<s[i], s[i]>> \in R
      BY <1>1, <1>3
    <2> QED
      BY <1>2, <2>1 DEF Asymmetric
  <1> DEFINE First(m) == {s[i] : i \in 1 .. m}
  <1>5. ASSUME NEW m \in 0 .. n
        PROVE  IsFiniteSet(First(m)) /\ Cardinality(First(m)) = m
    <2> DEFINE T == First(m)  g == [i \in 1 .. m |-> s[i]]
    <2>1. g \in [1 .. m -> T] /\ \A i \in 1 .. m : g[i] = s[i]
      OBVIOUS
    <2>2. g \in Bijection(1 .. m, T)
      <3>1. \A i, j \in 1 .. m : i # j => g[i] # g[j]
        BY <1>1, <1>4, <2>1
      <3>2. \A y \in T : \E i \in 1 .. m : g[i] = y
        BY <2>1
      <3> QED
        BY <2>1, <3>1, <3>2 DEF Bijection, Injection, IsInjective, Surjection
    <2>3. IsFiniteSet(1 .. m) /\ Cardinality(1 .. m) = m
      BY <1>1, FS_Interval
    <2> QED
      BY <2>2, <2>3, FS_Bijection DEF ExistsBijection
  <1>6. S = First(n)
    BY <1>1 DEF ToSet
  <1>7. IsFiniteSet(S) /\ Cardinality(S) = n
    <2>1. n \in 0 .. n
      BY <1>1
    <2> HIDE DEF S, n, First
    <2> QED
      BY <1>5, <1>6, <2>1
  <1>8. ASSUME NEW k \in 1 .. n
        PROVE  Cardinality(Below(S, R, s[k])) = k - 1
    <2>1. Below(S, R, s[k]) = First(k - 1)
      <3>1. ASSUME NEW i \in 1 .. n, <<s[i], s[k]>> \in R PROVE i \in 1 .. (k - 1)
        <4>1. ~ (k < i) /\ i # k
          BY <1>2, <1>3, <3>1 DEF Asymmetric
        <4> QED
          BY <1>1, <4>1
      <3>2. ASSUME NEW i \in 1 .. (k - 1) PROVE <<s[i], s[k]>> \in R /\ s[i] \in S
        <4>1. i \in 1 .. n /\ i < k
          BY <1>1
        <4> QED
          BY <1>2, <1>3, <4>1
      <3>3. \A y : y \in S <=> \E i \in 1 .. n : y = s[i]
        BY <1>6
      <3>4. \A y : y \in Below(S, R, s[k]) <=> y \in S /\ <<y, s[k]>> \in R
        BY DEF Below
      <3>5. \A y : y \in First(k - 1) <=> \E i \in 1 .. (k - 1) : y = s[i]
        OBVIOUS
      <3> HIDE DEF S, First, n
      <3>6. ASSUME NEW y PROVE y \in Below(S, R, s[k]) <=> y \in First(k - 1)
        BY <3>1, <3>2, <3>3, <3>4, <3>5
      <3> QED
        BY <3>6
    <2>2. k - 1 \in 0 .. n
      BY <1>1
    <2> HIDE DEF S, n, First
    <2> QED
      BY <1>5, <2>1, <2>2
  <1>9. ASSUME NEW k \in 1 .. n
        PROVE  s[k] = CHOOSE x \in S : Cardinality(Below(S, R, x)) = k - 1
    <2>1. s[k] \in S /\ Cardinality(Below(S, R, s[k])) = k - 1
      BY <1>2, <1>8
    <2>2. ASSUME NEW x \in S, Cardinality(Below(S, R, x)) = k - 1 PROVE x = s[k]
      <3>1. PICK i \in 1 .. n : x = s[i]
        BY <1>6
      <3> QED
        BY <1>8, <2>2, <3>1
    <2> HIDE DEF S
    <2> QED
      BY <2>1, <2>2
  <1>10. Sorted(S, R) = [k \in 1 .. n |-> CHOOSE x \in S : Cardinality(Below(S, R, x)) = k - 1]
    BY <1>7 DEF Sorted, Below
  <1> HIDE DEF S, n
  <1> QED
    BY <1>1, <1>7, <1>9, <1>10 DEF S

(* Two lists of the same elements in the same order are one.               *)
LEMMA OneOrder ==
  ASSUME NEW s, IsList(s), NEW t, IsList(t), ToSet(s) = ToSet(t),
         NEW R, Asymmetric(R, ToSet(s)),
         \A x, y : Goes(s, x, y) \/ Goes(t, x, y) => <<x, y>> \in R
  PROVE  s = t
  BY SortedIs

-----------------------------------------------------------------------------
(* What a list has at some of its places.                                  *)

Less(S) == {ab \in S \X S : ab[1] < ab[2]}

LEMMA RemainingLists ==
  ASSUME NEW S \in SUBSET Nat, IsFiniteSet(S)
  PROVE  /\ Remaining(S) = Sorted(S, Less(S)) /\ Strict(Less(S), S)
         /\ IsList(Remaining(S)) /\ ToSet(Remaining(S)) = S
         /\ Cardinality(S) \in Nat /\ DOMAIN Remaining(S) = 1 .. Cardinality(S)
         /\ \A i \in DOMAIN Remaining(S) : Cardinality({y \in S : y < Remaining(S)[i]}) = i - 1
         /\ \A x, y : Goes(Remaining(S), x, y) => x < y
  <1> DEFINE R == Less(S)
  <1>1. \A x \in S : {y \in S : y < x} = Below(S, R, x)
    BY DEF Below, Less
  <1>2. Strict(R, S)
    BY DEF Strict, Asymmetric, Less
  <1>3. Remaining(S) = Sorted(S, R)
    <2> DEFINE c(i) == CHOOSE x \in S : Cardinality({y \in S : y < x}) = i - 1
               d(i) == CHOOSE x \in S : Cardinality({y \in S : <<y, x>> \in R}) = i - 1
    <2>1. ASSUME NEW i, NEW x \in S
          PROVE  (Cardinality({y \in S : y < x}) = i - 1)
                   <=> (Cardinality({y \in S : <<y, x>> \in R}) = i - 1)
      BY <1>1 DEF Below
    <2>2. ASSUME NEW i PROVE c(i) = d(i)
      BY <2>1
    <2>3. Remaining(S) = [i \in 1 .. Cardinality(S) |-> c(i)]
      BY DEF Remaining
    <2>4. Sorted(S, R) = [i \in 1 .. Cardinality(S) |-> d(i)]
      BY DEF Sorted
    <2> HIDE DEF c, d
    <2> QED
      BY <2>2, <2>3, <2>4
  <1>4. \A i \in DOMAIN Sorted(S, R) : Sorted(S, R)[i] \in S
    BY <1>2, SortedLists DEF ToSet
  <1>5. \A x, y : <<x, y>> \in R => x < y
    BY DEF Less
  <1> HIDE DEF R
  <1>6. \A i \in DOMAIN Remaining(S) : Cardinality({y \in S : y < Remaining(S)[i]}) = i - 1
    BY <1>1, <1>2, <1>3, <1>4, SortedLists
  <1>7. \A x, y : Goes(Remaining(S), x, y) => x < y
    <2>1. \A x, y : Goes(Remaining(S), x, y) => <<x, y>> \in R
      BY <1>2, <1>3, SortedLists
    <2> QED
      BY <1>5, <2>1
  <1> QED
    BY <1>2, <1>3, <1>6, <1>7, SortedLists DEF R

LEMMA KeptLists ==
  ASSUME NEW s, IsList(s), NEW I \in SUBSET DOMAIN s
  PROVE  /\ IsList(Kept(s, I)) /\ ToSet(Kept(s, I)) = {s[i] : i \in I}
         /\ DOMAIN Kept(s, I) = DOMAIN Remaining(I)
         /\ \A k \in DOMAIN Kept(s, I) : Remaining(I)[k] \in I /\ Kept(s, I)[k] = s[Remaining(I)[k]]
         /\ \A x, y : Goes(Kept(s, I), x, y) => Goes(s, x, y)
         /\ \A i \in I : LET k == Cardinality({j \in I : j <= i}) IN
              k \in DOMAIN Kept(s, I) /\ Kept(s, I)[k] = s[i]
  <1> DEFINE t == Kept(s, I)  at == Remaining(I)
  <1>1. IsFiniteSet(I) /\ I \in SUBSET Nat
    <2>1. DOMAIN s = 1 .. Len(s) /\ Len(s) \in Nat
      BY ListIs
    <2>2. IsFiniteSet(DOMAIN s)
      BY <2>1, FS_Interval
    <2> QED
      BY <2>1, <2>2, FS_Subset
  <1>2. /\ IsList(at) /\ ToSet(at) = I /\ Cardinality(I) \in Nat /\ DOMAIN at = 1 .. Cardinality(I)
        /\ \A i \in DOMAIN at : Cardinality({y \in I : y < at[i]}) = i - 1
        /\ \A x, y : Goes(at, x, y) => x < y
    BY <1>1, RemainingLists
  <1>3. t = [k \in DOMAIN at |-> s[at[k]]]
    BY DEF Kept
  <1>4. \A k \in DOMAIN at : at[k] \in I
    BY <1>2 DEF ToSet
  <1> HIDE DEF t, at
  <1>5. DOMAIN t = 1 .. Cardinality(I) /\ t = [k \in 1 .. Cardinality(I) |-> t[k]]
    BY <1>2, <1>3
  <1>6. IsList(t)
    BY <1>2, <1>5, ListOf
  <1>7. ToSet(t) = {s[i] : i \in I}
    <2>1. \A i \in I : \E k \in DOMAIN at : at[k] = i
      BY <1>2 DEF ToSet
    <2>2. \A k \in DOMAIN at : t[k] = s[at[k]]
      BY <1>3
    <2>3. DOMAIN t = DOMAIN at
      BY <1>3
    <2> QED
      BY <1>4, <2>1, <2>2, <2>3 DEF ToSet
  <1>8. ASSUME NEW x, NEW y, Goes(t, x, y) PROVE Goes(s, x, y)
    <2>1. PICK i, j \in DOMAIN t : i < j /\ t[i] = x /\ t[j] = y
      BY <1>8 DEF Goes
    <2>2. i \in DOMAIN at /\ j \in DOMAIN at /\ s[at[i]] = x /\ s[at[j]] = y
      BY <1>3, <2>1
    <2>3. at[i] < at[j]
      BY <1>2, <2>1, <2>2 DEF Goes
    <2> QED
      BY <1>4, <2>2, <2>3 DEF Goes
  <1>9. ASSUME NEW i \in I
        PROVE  LET k == Cardinality({j \in I : j <= i}) IN k \in DOMAIN t /\ t[k] = s[i]
    <2>1. PICK k \in DOMAIN at : at[k] = i
      BY <1>2 DEF ToSet
    <2>2. Cardinality({y \in I : y < i}) = k - 1
      BY <1>2, <2>1
    <2>3. {j \in I : j <= i} = {y \in I : y < i} \cup {i}
      BY <1>1
    <2>4. {y \in I : y < i} \in SUBSET I /\ i \notin {y \in I : y < i}
      BY <1>1
    <2>5. IsFiniteSet({y \in I : y < i})
      BY <1>1, <2>4, FS_Subset
    <2>6. Cardinality({y \in I : y < i} \cup {i}) = Cardinality({y \in I : y < i}) + 1
      BY <2>4, <2>5, FS_AddElement
    <2>7. Cardinality({j \in I : j <= i}) = k
      <3>1. k \in Nat
        BY <1>2, <2>1
      <3>2. Cardinality({j \in I : j <= i}) = (k - 1) + 1
        BY <2>2, <2>3, <2>6
      <3> QED
        BY <3>1, <3>2
    <2> QED
      BY <1>3, <2>1, <2>7
  <1>10. DOMAIN t = DOMAIN at /\ \A k \in DOMAIN t : t[k] = s[at[k]]
    BY <1>3
  <1> QED
    BY <1>4, <1>6, <1>7, <1>8, <1>9, <1>10 DEF t, at

(* The elements of a list that are in S.                                   *)
LEMMA AmongLists ==
  ASSUME NEW s, IsList(s), NEW S
  PROVE  /\ IsList(Among(s, S)) /\ ToSet(Among(s, S)) = ToSet(s) \cap S
         /\ \A x, y : Goes(Among(s, S), x, y) => Goes(s, x, y) /\ {x, y} \subseteq ToSet(s) \cap S
  <1> DEFINE I == {i \in DOMAIN s : s[i] \in S}
  <1>1. I \in SUBSET DOMAIN s /\ Among(s, S) = Kept(s, I)
    BY DEF Among
  <1>2. {s[i] : i \in I} = ToSet(s) \cap S
    BY DEF ToSet
  <1> HIDE DEF I
  <1>3. \A x, y : Goes(Among(s, S), x, y) => {x, y} \subseteq ToSet(Among(s, S))
    BY DEF Goes, ToSet
  <1> QED
    BY <1>1, <1>2, <1>3, KeptLists

(* A list all of whose elements are in S keeps them.                       *)
LEMMA AmongAll ==
  ASSUME NEW s, IsList(s), NEW S, ToSet(s) \subseteq S
  PROVE  Among(s, S) = s
  <1> DEFINE n == Len(s)  one == [i \in 1 .. n |-> i]
  <1>1. n \in Nat /\ DOMAIN s = 1 .. n /\ s = [i \in 1 .. n |-> s[i]]
    BY ListIs
  <1>2. Among(s, S) = Kept(s, 1 .. n)
    <2>1. {i \in DOMAIN s : s[i] \in S} = 1 .. n
      BY <1>1 DEF ToSet
    <2> QED
      BY <2>1 DEF Among
  <1>3. one = Remaining(1 .. n)
    <2>1. IsList(one) /\ ToSet(one) = 1 .. n
      <3>1. one = [i \in 1 .. n |-> one[i]] /\ DOMAIN one = 1 .. n
        OBVIOUS
      <3>2. ToSet(one) = 1 .. n
        BY DEF ToSet
      <3> HIDE DEF one, n
      <3> QED
        BY <1>1, <3>1, <3>2, ListOf
    <2>2. \A x, y : Goes(one, x, y) => <<x, y>> \in Less(1 .. n)
      BY <1>1 DEF Goes, Less
    <2>3. IsFiniteSet(1 .. n) /\ 1 .. n \in SUBSET Nat
      BY <1>1, FS_Interval
    <2>4. /\ IsList(Remaining(1 .. n)) /\ ToSet(Remaining(1 .. n)) = 1 .. n /\ Strict(Less(1 .. n), 1 .. n)
          /\ \A x, y : Goes(Remaining(1 .. n), x, y) => <<x, y>> \in Less(1 .. n)
      BY <2>3, RemainingLists, SortedLists
    <2> HIDE DEF one, n
    <2> QED
      BY <2>1, <2>2, <2>4, OneOrder DEF Strict
  <1>4. Kept(s, 1 .. n) = [k \in 1 .. n |-> s[k]]
    <2>1. Kept(s, 1 .. n) = [k \in DOMAIN one |-> s[one[k]]]
      BY <1>3 DEF Kept
    <2> QED
      BY <2>1
  <1> QED
    BY <1>1, <1>2, <1>4

LEMMA Joined ==
  ASSUME NEW s, IsList(s), NEW t, IsList(t)
  PROVE  /\ IsList(s \o t) /\ ToSet(s \o t) = ToSet(s) \cup ToSet(t)
         /\ Len(s \o t) = Len(s) + Len(t)
         /\ \A i \in 1 .. Len(s) : (s \o t)[i] = s[i]
         /\ \A i \in 1 .. Len(t) : (s \o t)[Len(s) + i] = t[i]
         /\ \A x, y : Goes(s \o t, x, y) =>
              Goes(s, x, y) \/ Goes(t, x, y) \/ (x \in ToSet(s) /\ y \in ToSet(t))
  <1> DEFINE S == ToSet(s) \cup ToSet(t)  c == s \o t
  <1>1. s \in Seq(S) /\ t \in Seq(S)
    BY DEF IsList
  <1>2. /\ DOMAIN s = 1 .. Len(s) /\ DOMAIN t = 1 .. Len(t) /\ Len(s) \in Nat /\ Len(t) \in Nat
    BY ListIs
  <1>3. /\ c \in Seq(S) /\ Len(c) = Len(s) + Len(t)
        /\ \A i \in 1 .. Len(c) : c[i] = IF i <= Len(s) THEN s[i] ELSE t[i - Len(s)]
    <2> HIDE DEF S
    <2> QED
      BY <1>1, ConcatProperties
  <1> HIDE DEF c, S
  <1>4. DOMAIN c = 1 .. Len(c) /\ c = [i \in 1 .. Len(c) |-> c[i]] /\ Len(c) \in Nat
    BY <1>3
  <1>5. IsList(c)
    BY <1>4, ListOf
  <1>6. ASSUME NEW i \in 1 .. Len(s) PROVE i \in 1 .. Len(c) /\ c[i] = s[i]
    BY <1>2, <1>3
  <1>7. ASSUME NEW i \in 1 .. Len(t) PROVE Len(s) + i \in 1 .. Len(c) /\ c[Len(s) + i] = t[i]
    <2>1. Len(s) + i \in 1 .. Len(c) /\ ~ (Len(s) + i <= Len(s)) /\ (Len(s) + i) - Len(s) = i
      BY <1>2, <1>3
    <2> QED
      BY <1>3, <2>1
  <1>8. ASSUME NEW i \in 1 .. Len(c)
        PROVE  \/ i \in 1 .. Len(s) /\ c[i] = s[i]
               \/ i - Len(s) \in 1 .. Len(t) /\ c[i] = t[i - Len(s)]
    BY <1>2, <1>3
  <1>9. ToSet(c) = ToSet(s) \cup ToSet(t)
    BY <1>2, <1>4, <1>6, <1>7, <1>8 DEF ToSet
  <1>10. ASSUME NEW x, NEW y, Goes(c, x, y)
         PROVE  Goes(s, x, y) \/ Goes(t, x, y) \/ (x \in ToSet(s) /\ y \in ToSet(t))
    <2>1. PICK i, j \in 1 .. Len(c) : i < j /\ c[i] = x /\ c[j] = y
      BY <1>4, <1>10 DEF Goes
    <2>2. CASE i \in 1 .. Len(s) /\ c[i] = s[i] /\ j \in 1 .. Len(s) /\ c[j] = s[j]
      BY <1>2, <2>1, <2>2 DEF Goes
    <2>3. CASE i \in 1 .. Len(s) /\ c[i] = s[i] /\ j - Len(s) \in 1 .. Len(t) /\ c[j] = t[j - Len(s)]
      BY <1>2, <2>1, <2>3 DEF ToSet
    <2>4. CASE i - Len(s) \in 1 .. Len(t) /\ c[i] = t[i - Len(s)]
      <3>1. j - Len(s) \in 1 .. Len(t) /\ c[j] = t[j - Len(s)] /\ i - Len(s) < j - Len(s)
        BY <1>2, <1>3, <1>8, <2>1, <2>4
      <3> QED
        BY <1>2, <2>1, <2>4, <3>1 DEF Goes
    <2> QED
      BY <1>8, <2>1, <2>2, <2>3, <2>4
  <1> QED
    BY <1>3, <1>5, <1>6, <1>7, <1>9, <1>10 DEF c

-----------------------------------------------------------------------------
(* Lists without repetition, and lists of lines.                           *)

Distinct(s) == \A x : ~ Goes(s, x, x)

LEMMA OneWay ==
  ASSUME NEW s, IsList(s), Distinct(s), NEW x, NEW y, Goes(s, x, y)
  PROVE  ~ Goes(s, y, x)
  <1>1. DOMAIN s = 1 .. Len(s) /\ Len(s) \in Nat
    BY ListIs
  <1> SUFFICES ASSUME Goes(s, y, x) PROVE FALSE
    OBVIOUS
  <1>2. PICK i, j \in DOMAIN s : i < j /\ s[i] = x /\ s[j] = y
    BY DEF Goes
  <1>3. PICK k, l \in DOMAIN s : k < l /\ s[k] = y /\ s[l] = x
    BY DEF Goes
  <1>4. j = k \/ j < k \/ k < j
    BY <1>1
  <1>5. i < l \/ j # k
    BY <1>1, <1>2, <1>3
  <1> QED
    BY <1>2, <1>3, <1>4, <1>5 DEF Distinct, Goes

LEMMA InSeq ==
  ASSUME NEW S, NEW s \in Seq(S)
  PROVE  /\ IsList(s) /\ ToSet(s) \subseteq S
         /\ Len(s) \in Nat /\ DOMAIN s = 1 .. Len(s) /\ \A i \in DOMAIN s : s[i] \in S
  <1>1. Len(s) \in Nat /\ DOMAIN s = 1 .. Len(s) /\ s = [i \in 1 .. Len(s) |-> s[i]]
        /\ \A i \in DOMAIN s : s[i] \in S
    OBVIOUS
  <1> QED
    BY <1>1, ListOf DEF ToSet

LEMMA ListIn ==
  ASSUME NEW s, IsList(s), NEW S, \A i \in DOMAIN s : s[i] \in S
  PROVE  s \in Seq(S)
  <1>1. Len(s) \in Nat /\ DOMAIN s = 1 .. Len(s) /\ s = [i \in 1 .. Len(s) |-> s[i]]
    BY ListIs
  <1> QED
    BY <1>1

(* The names of a list are as many as its lines.                           *)
LEMMA NamesAre ==
  ASSUME NEW s, IsList(s)
  PROVE  /\ IsList(NamesOf(s)) /\ DOMAIN NamesOf(s) = DOMAIN s
         /\ \A i \in DOMAIN s : NamesOf(s)[i] = s[i].name
         /\ ToSet(NamesOf(s)) = Names(s)
  <1>1. Len(s) \in Nat /\ DOMAIN s = 1 .. Len(s)
    BY ListIs
  <1>2. DOMAIN NamesOf(s) = DOMAIN s /\ \A i \in DOMAIN s : NamesOf(s)[i] = s[i].name
    BY DEF NamesOf
  <1>3. NamesOf(s) = [i \in 1 .. Len(s) |-> NamesOf(s)[i]]
    BY <1>1 DEF NamesOf
  <1>4. IsList(NamesOf(s))
    BY <1>1, <1>2, <1>3, ListOf
  <1>5. ToSet(NamesOf(s)) = Names(s)
    BY <1>2 DEF ToSet, Names
  <1> QED
    BY <1>2, <1>4, <1>5

LEMMA KeptNames ==
  ASSUME NEW s, IsList(s), NEW I \in SUBSET DOMAIN s
  PROVE  NamesOf(Kept(s, I)) = Kept(NamesOf(s), I)
  <1> DEFINE at == Remaining(I)
  <1>1. \A k \in DOMAIN at : at[k] \in I
    BY KeptLists
  <1>2. Kept(s, I) = [k \in DOMAIN at |-> s[at[k]]]
    BY DEF Kept
  <1>3. Kept(NamesOf(s), I) = [k \in DOMAIN at |-> NamesOf(s)[at[k]]]
    BY DEF Kept
  <1> HIDE DEF at
  <1>4. NamesOf(Kept(s, I)) = [k \in DOMAIN at |-> s[at[k]].name]
    BY <1>2 DEF NamesOf
  <1>5. \A k \in DOMAIN at : NamesOf(s)[at[k]] = s[at[k]].name
    BY <1>1 DEF NamesOf
  <1> QED
    BY <1>3, <1>4, <1>5

LEMMA OnlyLists ==
  ASSUME NEW s, IsList(s), NEW S
  PROVE  /\ IsList(Only(s, S)) /\ NamesOf(Only(s, S)) = Among(NamesOf(s), S)
         /\ ToSet(Only(s, S)) = {l \in ToSet(s) : l.name \in S}
  <1> DEFINE I == {i \in DOMAIN s : s[i].name \in S}
  <1>1. I \in SUBSET DOMAIN s /\ Only(s, S) = Kept(s, I)
    BY DEF Only
  <1>2. I = {i \in DOMAIN NamesOf(s) : NamesOf(s)[i] \in S}
    BY NamesAre
  <1>3. Among(NamesOf(s), S) = Kept(NamesOf(s), I)
    BY <1>2 DEF Among
  <1>4. {s[i] : i \in I} = {l \in ToSet(s) : l.name \in S}
    BY DEF ToSet
  <1> HIDE DEF I
  <1> QED
    BY <1>1, <1>3, <1>4, KeptNames, KeptLists

LEMMA NamesJoined ==
  ASSUME NEW s, IsList(s), NEW t, IsList(t)
  PROVE  NamesOf(s \o t) = NamesOf(s) \o NamesOf(t)
  <1> DEFINE c == s \o t  d == NamesOf(s) \o NamesOf(t)
  <1>1. /\ IsList(c) /\ Len(c) = Len(s) + Len(t)
        /\ \A i \in 1 .. Len(s) : c[i] = s[i]
        /\ \A i \in 1 .. Len(t) : c[Len(s) + i] = t[i]
    BY Joined
  <1>2. /\ Len(s) \in Nat /\ DOMAIN s = 1 .. Len(s) /\ Len(t) \in Nat /\ DOMAIN t = 1 .. Len(t)
        /\ DOMAIN c = 1 .. Len(c) /\ Len(c) \in Nat
    BY <1>1, ListIs
  <1>3. IsList(NamesOf(s)) /\ IsList(NamesOf(t)) /\ IsList(NamesOf(c))
    BY <1>1, NamesAre
  <1>4. Len(NamesOf(s)) = Len(s) /\ Len(NamesOf(t)) = Len(t) /\ Len(NamesOf(c)) = Len(c)
    <2>1. \A u : IsList(u) => DOMAIN NamesOf(u) = DOMAIN u /\ IsList(NamesOf(u))
      BY NamesAre
    <2>2. \A u : IsList(u) => Len(u) \in Nat /\ DOMAIN u = 1 .. Len(u)
      BY ListIs
    <2>3. ASSUME NEW u, IsList(u) PROVE Len(NamesOf(u)) = Len(u)
      <3>1. 1 .. Len(NamesOf(u)) = 1 .. Len(u) /\ Len(NamesOf(u)) \in Nat /\ Len(u) \in Nat
        BY <2>1, <2>2, <2>3
      <3> QED
        BY <3>1
    <2> QED
      BY <1>1, <2>3
  <1>5. /\ IsList(d) /\ Len(d) = Len(c)
        /\ \A i \in 1 .. Len(s) : d[i] = NamesOf(s)[i]
        /\ \A i \in 1 .. Len(t) : d[Len(s) + i] = NamesOf(t)[i]
    <2> DEFINE a == NamesOf(s)  b == NamesOf(t)
    <2>1. IsList(a) /\ IsList(b) /\ Len(a) = Len(s) /\ Len(b) = Len(t)
      BY <1>3, <1>4
    <2>3. IsList(a) /\ IsList(b)
      BY <2>1
    <2> HIDE DEF a, b, c, d
    <2>2. /\ IsList(a \o b) /\ Len(a \o b) = Len(a) + Len(b)
          /\ \A i \in 1 .. Len(a) : (a \o b)[i] = a[i]
          /\ \A i \in 1 .. Len(b) : (a \o b)[Len(a) + i] = b[i]
      BY <2>3, Joined
    <2> QED
      BY <1>1, <2>1, <2>2 DEF a, b, d
  <1>6. DOMAIN d = 1 .. Len(c) /\ d = [i \in 1 .. Len(c) |-> d[i]]
    BY <1>5, ListIs
  <1> HIDE DEF c, d
  <1>7. ASSUME NEW i \in 1 .. Len(c) PROVE d[i] = c[i].name
    <2>1. CASE i \in 1 .. Len(s)
      BY <1>1, <1>2, <1>5, <2>1, NamesAre
    <2>2. CASE i \notin 1 .. Len(s)
      <3>1. i - Len(s) \in 1 .. Len(t) /\ i = Len(s) + (i - Len(s))
        BY <1>1, <1>2, <2>2
      <3>2. d[i] = NamesOf(t)[i - Len(s)] /\ c[i] = t[i - Len(s)]
        BY <1>1, <1>5, <3>1
      <3> QED
        BY <1>2, <3>1, <3>2, NamesAre
    <2> QED
      BY <2>1, <2>2
  <1>8. NamesOf(c) = [i \in 1 .. Len(c) |-> c[i].name]
    BY <1>2 DEF NamesOf
  <1> QED
    BY <1>6, <1>7, <1>8 DEF c, d

-----------------------------------------------------------------------------
(* What a command writes.                                                  *)

\* The plugins of a list that are installed and not early, and of these the
\* ones it has enabled.
Listed(list) == (Names(list) \cap data) \ Early
Chosen(list) == {n \in data \ Early : \E i \in DOMAIN list : list[i].name = n /\ list[i].on = TRUE}

\* Masters first, then as in the list.
Ahead(list, x, y) ==
  \/ x \in Master /\ y \notin Master
  \/ (x \in Master <=> y \in Master) /\ Goes(NamesOf(list), x, y)

Settings(list) == \A i \in DOMAIN list : list[i].on \in BOOLEAN

(* The seed holds the lines it is given, the masters first.                *)
LEMMA SeedIs ==
  ASSUME LoadOrderAssumption, data \subseteq Plugin, NEW list, IsList(list), Settings(list)
  PROVE  LET seed == Seed(OnDisk(list)) IN
         /\ IsList(seed) /\ Names(seed) = Names(list) \cap data
         /\ NamesOf(seed) = Among(Among(NamesOf(list), data), Master)
                              \o Among(Among(NamesOf(list), data), Plugin \ Master)
         /\ \A i \in DOMAIN seed : seed[i] \in [name : Plugin, on : BOOLEAN]
         /\ \A n : (\E i \in DOMAIN seed : seed[i].name = n /\ seed[i].on = TRUE)
                     <=> n \in data /\ \E i \in DOMAIN list : list[i].name = n /\ list[i].on = TRUE
  <1> DEFINE d == OnDisk(list)  a == Only(d, Master)  b == Only(d, Plugin \ Master)
             lines == a \o b  seed == Seed(d)  N == NamesOf(list)
  <1>1. /\ IsList(d) /\ NamesOf(d) = Among(N, data)
        /\ ToSet(d) = {l \in ToSet(list) : l.name \in data}
    BY OnlyLists DEF OnDisk
  <1> HIDE DEF d, N
  <1>2. /\ IsList(a) /\ NamesOf(a) = Among(Among(N, data), Master)
        /\ ToSet(a) = {l \in ToSet(d) : l.name \in Master}
    BY <1>1, OnlyLists
  <1>3. /\ IsList(b) /\ NamesOf(b) = Among(Among(N, data), Plugin \ Master)
        /\ ToSet(b) = {l \in ToSet(d) : l.name \in Plugin \ Master}
    BY <1>1, OnlyLists
  <1>4. seed = [i \in DOMAIN lines |-> [name |-> lines[i].name, on |-> lines[i].on]]
    BY DEF Seed
  <1> HIDE DEF a, b
  <1>5. /\ IsList(lines) /\ ToSet(lines) = ToSet(a) \cup ToSet(b)
        /\ NamesOf(lines) = NamesOf(a) \o NamesOf(b)
    BY <1>2, <1>3, Joined, NamesJoined
  <1> HIDE DEF lines, seed
  <1>6. DOMAIN lines = 1 .. Len(lines) /\ Len(lines) \in Nat
    BY <1>5, ListIs
  <1>7. /\ DOMAIN seed = DOMAIN lines
        /\ \A i \in DOMAIN lines : seed[i].name = lines[i].name /\ seed[i].on = lines[i].on
        /\ \A i \in DOMAIN lines : seed[i] = [name |-> lines[i].name, on |-> lines[i].on]
    BY <1>4
  <1>8. IsList(seed)
    <2>1. DOMAIN seed = 1 .. Len(lines) /\ seed = [i \in 1 .. Len(lines) |-> seed[i]]
      BY <1>4, <1>6
    <2> QED
      BY <1>6, <2>1, ListOf
  <1>9. ToSet(lines) = {l \in ToSet(list) : l.name \in data}
    BY <1>1, <1>2, <1>3, <1>5 DEF LoadOrderAssumption
  <1>10. NamesOf(seed) = NamesOf(lines)
    BY <1>7 DEF NamesOf
  <1>11. /\ \A i \in DOMAIN lines : lines[i] \in ToSet(list) /\ lines[i].name \in data
         /\ \A l \in ToSet(list) : l.name \in data => \E i \in DOMAIN lines : lines[i] = l
    BY <1>9 DEF ToSet
  <1>12. /\ \A i \in DOMAIN list : list[i] \in ToSet(list)
         /\ \A l \in ToSet(list) : \E i \in DOMAIN list : list[i] = l
    BY DEF ToSet
  <1>13. Names(seed) = Names(list) \cap data
    <2>1. ASSUME NEW i \in DOMAIN seed PROVE seed[i].name \in Names(list) \cap data
      BY <1>7, <1>11, <1>12 DEF Names
    <2>2. ASSUME NEW i \in DOMAIN list, list[i].name \in data
          PROVE  \E k \in DOMAIN seed : seed[k].name = list[i].name
      BY <1>7, <1>11, <1>12, <2>2
    <2> QED
      BY <2>1, <2>2 DEF Names
  <1>14. \A i \in DOMAIN seed : seed[i] \in [name : Plugin, on : BOOLEAN]
    <2>1. ASSUME NEW i \in DOMAIN lines PROVE lines[i].name \in Plugin /\ lines[i].on \in BOOLEAN
      BY <1>11, <1>12 DEF Settings
    <2> QED
      BY <1>7, <2>1
  <1>15. ASSUME NEW n
         PROVE  (\E i \in DOMAIN seed : seed[i].name = n /\ seed[i].on = TRUE)
                  <=> n \in data /\ \E i \in DOMAIN list : list[i].name = n /\ list[i].on = TRUE
    <2>1. ASSUME NEW i \in DOMAIN seed, seed[i].name = n, seed[i].on = TRUE
          PROVE  n \in data /\ \E k \in DOMAIN list : list[k].name = n /\ list[k].on = TRUE
      BY <1>7, <1>11, <1>12, <2>1
    <2>2. ASSUME n \in data, NEW i \in DOMAIN list, list[i].name = n, list[i].on = TRUE
          PROVE  \E k \in DOMAIN seed : seed[k].name = n /\ seed[k].on = TRUE
      BY <1>7, <1>11, <1>12, <2>2
    <2> QED
      BY <2>1, <2>2
  <1> QED
    BY <1>2, <1>3, <1>5, <1>8, <1>10, <1>13, <1>14, <1>15 DEF seed, d, N

(* The seed keeps the order of the list within the two groups.             *)
LEMMA SeedOrder ==
  ASSUME LoadOrderAssumption, data \subseteq Plugin, NEW list, IsList(list), Settings(list),
         NEW x, NEW y, Goes(NamesOf(Seed(OnDisk(list))), x, y)
  PROVE  (x \in Master /\ y \in Plugin \ Master) \/ Goes(NamesOf(list), x, y)
  <1> DEFINE f == Seed(OnDisk(list))  N == NamesOf(list)  M == Among(N, data)
             a == Among(M, Master)  b == Among(M, Plugin \ Master)
  <1>1. NamesOf(f) = a \o b
    BY SeedIs
  <1>2. IsList(N)
    BY NamesAre
  <1> HIDE DEF f, N
  <1>3. IsList(M) /\ \A u, v : Goes(M, u, v) => Goes(N, u, v)
    BY <1>2, AmongLists
  <1> HIDE DEF M
  <1>4. /\ IsList(a) /\ ToSet(a) = ToSet(M) \cap Master
        /\ \A u, v : Goes(a, u, v) => Goes(M, u, v)
    BY <1>3, AmongLists
  <1>5. /\ IsList(b) /\ ToSet(b) = ToSet(M) \cap (Plugin \ Master)
        /\ \A u, v : Goes(b, u, v) => Goes(M, u, v)
    BY <1>3, AmongLists
  <1>6. Goes(NamesOf(f), x, y)
    BY DEF f
  <1> HIDE DEF a, b
  <1>7. \A u, v : Goes(a \o b, u, v) =>
          Goes(a, u, v) \/ Goes(b, u, v) \/ (u \in ToSet(a) /\ v \in ToSet(b))
    BY <1>4, <1>5, Joined
  <1> QED
    BY <1>1, <1>3, <1>4, <1>5, <1>6, <1>7 DEF N

(* Two plugins in the order in which libloot loads them from a file: the    *)
(* early ones first, then the masters, in each group as the file has them,  *)
(* those without a line last.                                              *)
LoadsAhead(f, x, y) ==
  \/ x \in Early /\ (y \in Early => x < y)
  \/ /\ x \notin Early /\ y \notin Early
     /\ \/ x \in Master /\ y \notin Master
        \/ /\ x \in Master <=> y \in Master
           /\ \/ Goes(NamesOf(f), x, y)
              \/ x \in Names(f) /\ y \notin Names(f)
              \/ x \notin Names(f) /\ y \notin Names(f) /\ x < y

LEMMA LoadOf ==
  ASSUME LoadOrderAssumption, data \subseteq Plugin, NEW f, IsList(f)
  PROVE  /\ IsList(Loaded(f)) /\ ToSet(Loaded(f)) = data
         /\ \A x, y : Goes(Loaded(f), x, y) => LoadsAhead(f, x, y)
  <1> DEFINE P(S) == Among(Among(NamesOf(f), data), S)
             X(S) == Remaining((S \cap data) \ Names(f))
             E == Remaining(Early \cap data)
             A == Master \ Early  B == Plugin \ Master
             c == Loaded(f)
  <1>1. ASSUME NEW S
        PROVE  /\ IsList(P(S)) /\ ToSet(P(S)) = Names(f) \cap data \cap S
               /\ \A x, y : Goes(P(S), x, y) => Goes(NamesOf(f), x, y)
    <2> DEFINE m == Among(NamesOf(f), data)
    <2>1. IsList(NamesOf(f)) /\ ToSet(NamesOf(f)) = Names(f)
      BY NamesAre
    <2>2. /\ IsList(m) /\ ToSet(m) = Names(f) \cap data
          /\ \A x, y : Goes(m, x, y) => Goes(NamesOf(f), x, y)
      BY <2>1, AmongLists
    <2> HIDE DEF m
    <2>3. /\ IsList(Among(m, S)) /\ ToSet(Among(m, S)) = ToSet(m) \cap S
          /\ \A x, y : Goes(Among(m, S), x, y) => Goes(m, x, y)
      BY <2>2, AmongLists
    <2> QED
      BY <2>2, <2>3 DEF m
  <1>2. ASSUME NEW S \in SUBSET Plugin
        PROVE  /\ IsList(Remaining(S)) /\ ToSet(Remaining(S)) = S
               /\ \A x, y : Goes(Remaining(S), x, y) => x < y
    <2>1. S \in SUBSET Nat /\ IsFiniteSet(S)
      BY FS_Subset DEF LoadOrderAssumption
    <2> QED
      BY <2>1, RemainingLists
  <1>3. IsList(E) /\ ToSet(E) = Early \cap data /\ \A x, y : Goes(E, x, y) => x < y
    BY <1>2 DEF LoadOrderAssumption
  <1>4. ASSUME NEW S \in SUBSET Plugin
        PROVE  /\ IsList(X(S)) /\ ToSet(X(S)) = (S \cap data) \ Names(f)
               /\ \A x, y : Goes(X(S), x, y) => x < y
    BY <1>2
  <1>5. A \in SUBSET Plugin /\ B \in SUBSET Plugin
    BY DEF LoadOrderAssumption
  <1>6. c = E \o (P(A) \o X(A)) \o (P(B) \o X(B))
    <2>1. ASSUME NEW S
          PROVE  NamesOf(Only(OnDisk(f), S)) = P(S)
      <3>1. IsList(OnDisk(f)) /\ NamesOf(OnDisk(f)) = Among(NamesOf(f), data)
        BY OnlyLists DEF OnDisk
      <3>2. NamesOf(Only(OnDisk(f), S)) = Among(NamesOf(OnDisk(f)), S)
        BY <3>1, OnlyLists
      <3> QED
        BY <3>1, <3>2
    <2>2. c = E \o (NamesOf(Only(OnDisk(f), A)) \o X(A)) \o (NamesOf(Only(OnDisk(f), B)) \o X(B))
      BY DEF Loaded
    <2>3. NamesOf(Only(OnDisk(f), A)) = P(A) /\ NamesOf(Only(OnDisk(f), B)) = P(B)
      BY <2>1
    <2> HIDE DEF P, X, E, c, A, B
    <2> QED
      BY <2>2, <2>3
  <1> DEFINE GA == P(A) \o X(A)  GB == P(B) \o X(B)
  <1>7. /\ IsList(P(A)) /\ ToSet(P(A)) = Names(f) \cap data \cap A
        /\ IsList(X(A)) /\ ToSet(X(A)) = (A \cap data) \ Names(f)
        /\ IsList(P(B)) /\ ToSet(P(B)) = Names(f) \cap data \cap B
        /\ IsList(X(B)) /\ ToSet(X(B)) = (B \cap data) \ Names(f)
        /\ \A x, y : Goes(P(A), x, y) \/ Goes(P(B), x, y) => Goes(NamesOf(f), x, y)
        /\ \A x, y : Goes(X(A), x, y) \/ Goes(X(B), x, y) => x < y
    BY <1>1, <1>4, <1>5
  <1> HIDE DEF P, X, E
  <1>8. /\ IsList(GA) /\ ToSet(GA) = A \cap data
        /\ \A x, y : Goes(GA, x, y) =>
             Goes(P(A), x, y) \/ Goes(X(A), x, y) \/ (x \in ToSet(P(A)) /\ y \in ToSet(X(A)))
    <2>1. /\ IsList(GA) /\ ToSet(GA) = ToSet(P(A)) \cup ToSet(X(A))
          /\ \A x, y : Goes(GA, x, y) =>
               Goes(P(A), x, y) \/ Goes(X(A), x, y) \/ (x \in ToSet(P(A)) /\ y \in ToSet(X(A)))
      BY <1>7, Joined
    <2> QED
      BY <1>7, <2>1
  <1>9. /\ IsList(GB) /\ ToSet(GB) = B \cap data
        /\ \A x, y : Goes(GB, x, y) =>
             Goes(P(B), x, y) \/ Goes(X(B), x, y) \/ (x \in ToSet(P(B)) /\ y \in ToSet(X(B)))
    <2>1. /\ IsList(GB) /\ ToSet(GB) = ToSet(P(B)) \cup ToSet(X(B))
          /\ \A x, y : Goes(GB, x, y) =>
               Goes(P(B), x, y) \/ Goes(X(B), x, y) \/ (x \in ToSet(P(B)) /\ y \in ToSet(X(B)))
      BY <1>7, Joined
    <2> QED
      BY <1>7, <2>1
  <1>10. c = (E \o GA) \o GB
    BY <1>6
  <1> HIDE DEF GA, GB, c
  <1>11. /\ IsList(E \o GA) /\ ToSet(E \o GA) = (Early \cap data) \cup (A \cap data)
         /\ \A x, y : Goes(E \o GA, x, y) =>
              Goes(E, x, y) \/ Goes(GA, x, y) \/ (x \in ToSet(E) /\ y \in ToSet(GA))
    <2>1. /\ IsList(E \o GA) /\ ToSet(E \o GA) = ToSet(E) \cup ToSet(GA)
          /\ \A x, y : Goes(E \o GA, x, y) =>
               Goes(E, x, y) \/ Goes(GA, x, y) \/ (x \in ToSet(E) /\ y \in ToSet(GA))
      BY <1>3, <1>8, Joined
    <2> QED
      BY <1>3, <1>8, <2>1
  <1>12. /\ IsList(c) /\ ToSet(c) = ToSet(E \o GA) \cup ToSet(GB)
         /\ \A x, y : Goes(c, x, y) =>
              Goes(E \o GA, x, y) \/ Goes(GB, x, y) \/ (x \in ToSet(E \o GA) /\ y \in ToSet(GB))
    BY <1>9, <1>10, <1>11, Joined
  <1>13. ToSet(c) = data
    BY <1>9, <1>11, <1>12 DEF LoadOrderAssumption
  <1>14. \A s, x, y : Goes(s, x, y) => x \in ToSet(s) /\ y \in ToSet(s)
    BY DEF Goes, ToSet
  <1>15. ASSUME NEW x, NEW y, Goes(c, x, y) PROVE LoadsAhead(f, x, y)
    <2>1. \/ Goes(E, x, y)
          \/ x \in ToSet(E) /\ y \in ToSet(GA)
          \/ Goes(GA, x, y)
          \/ x \in ToSet(E) /\ y \in ToSet(GB)
          \/ x \in ToSet(GA) /\ y \in ToSet(GB)
          \/ Goes(GB, x, y)
      BY <1>3, <1>8, <1>11, <1>12, <1>15
    <2>2. CASE Goes(E, x, y)
      BY <1>3, <1>14, <2>2 DEF LoadsAhead
    <2>3. CASE x \in ToSet(E) /\ (y \in ToSet(GA) \/ y \in ToSet(GB))
      BY <1>3, <1>8, <1>9, <2>3 DEF LoadsAhead, LoadOrderAssumption
    <2>4. CASE x \in ToSet(GA) /\ y \in ToSet(GB)
      BY <1>8, <1>9, <2>4 DEF LoadsAhead, LoadOrderAssumption
    <2>5. CASE Goes(GA, x, y)
      <3>1. x \in A \cap data /\ y \in A \cap data
        BY <1>8, <1>14, <2>5
      <3>2. \/ Goes(P(A), x, y)
            \/ Goes(X(A), x, y)
            \/ x \in ToSet(P(A)) /\ y \in ToSet(X(A))
        BY <1>8, <2>5
      <3>3. \/ Goes(NamesOf(f), x, y)
            \/ x \in Names(f) /\ y \notin Names(f)
            \/ x \notin Names(f) /\ y \notin Names(f) /\ x < y
        <4>1. CASE Goes(P(A), x, y)
          BY <1>7, <4>1
        <4>2. CASE Goes(X(A), x, y)
          BY <1>7, <1>14, <4>2
        <4>3. CASE x \in ToSet(P(A)) /\ y \in ToSet(X(A))
          BY <1>7, <4>3
        <4> QED
          BY <3>2, <4>1, <4>2, <4>3
      <3> QED
        BY <3>1, <3>3 DEF LoadsAhead
    <2>6. CASE Goes(GB, x, y)
      <3>1. x \in B \cap data /\ y \in B \cap data
        BY <1>9, <1>14, <2>6
      <3>2. \/ Goes(P(B), x, y)
            \/ Goes(X(B), x, y)
            \/ x \in ToSet(P(B)) /\ y \in ToSet(X(B))
        BY <1>9, <2>6
      <3>3. \/ Goes(NamesOf(f), x, y)
            \/ x \in Names(f) /\ y \notin Names(f)
            \/ x \notin Names(f) /\ y \notin Names(f) /\ x < y
        <4>1. CASE Goes(P(B), x, y)
          BY <1>7, <4>1
        <4>2. CASE Goes(X(B), x, y)
          BY <1>7, <1>14, <4>2
        <4>3. CASE x \in ToSet(P(B)) /\ y \in ToSet(X(B))
          BY <1>7, <4>3
        <4> QED
          BY <3>2, <4>1, <4>2, <4>3
      <3> QED
        BY <3>1, <3>3 DEF LoadsAhead, LoadOrderAssumption
    <2> QED
      BY <2>1, <2>2, <2>3, <2>4, <2>5, <2>6
  <1> QED
    BY <1>12, <1>13, <1>15 DEF c

(* It repeats none that the file does not repeat.                          *)
LEMMA LoadsOnce ==
  ASSUME LoadOrderAssumption, data \subseteq Plugin, NEW f, IsList(f), Distinct(NamesOf(f))
  PROVE  Distinct(Loaded(f))
  <1> SUFFICES ASSUME NEW x, Goes(Loaded(f), x, x) PROVE FALSE
    BY DEF Distinct
  <1>1. LoadsAhead(f, x, x) /\ x \in data
    <2>1. x \in ToSet(Loaded(f))
      BY DEF Goes, ToSet
    <2> QED
      BY <2>1, LoadOf
  <1>2. ~ (x < x)
    BY <1>1 DEF LoadOrderAssumption
  <1> QED
    BY <1>1, <1>2 DEF LoadsAhead, Distinct

(* libloot's order of the seed: all that is installed, and of what the list *)
(* had, masters first, in the order of the list.                           *)
LEMMA LoadedIs ==
  ASSUME LoadOrderAssumption, data \subseteq Plugin, NEW list, IsList(list), Settings(list)
  PROVE  LET c == Loaded(Seed(OnDisk(list))) IN
         /\ IsList(c) /\ ToSet(c) = data
         /\ \A x, y : Goes(c, x, y) /\ {x, y} \subseteq Listed(list) => Ahead(list, x, y)
  <1> DEFINE f == Seed(OnDisk(list))
  <1>1. IsList(f) /\ Names(f) = Names(list) \cap data
    BY SeedIs
  <1>2. \A x, y : Goes(NamesOf(f), x, y) =>
          (x \in Master /\ y \in Plugin \ Master) \/ Goes(NamesOf(list), x, y)
    BY SeedOrder
  <1> HIDE DEF f
  <1>3. /\ IsList(Loaded(f)) /\ ToSet(Loaded(f)) = data
        /\ \A x, y : Goes(Loaded(f), x, y) => LoadsAhead(f, x, y)
    BY <1>1, LoadOf
  <1>4. ASSUME NEW x \in Listed(list), NEW y \in Listed(list), LoadsAhead(f, x, y)
        PROVE  Ahead(list, x, y)
    BY <1>1, <1>2, <1>4 DEF LoadsAhead, Listed, Ahead
  <1> QED
    BY <1>3, <1>4 DEF f

(* Movable plugins that are already in the user's order stay where they are. *)
LEMMA ReconciledIs ==
  ASSUME NEW c, IsList(c), NEW m, IsList(m),
         Among(m, ToSet(c)) = Among(c, ToSet(Among(m, ToSet(c))))
  PROVE  Reconciled(c, m) = c
  <1> DEFINE mine == Among(m, ToSet(c))  T == ToSet(mine)  I == {i \in DOMAIN c : c[i] \in T}
             Nth(i) == Cardinality({j \in 1 .. i : c[j] \in T})
             place(i) == IF c[i] \in T THEN mine[Nth(i)] ELSE c[i]
  <1>1. Reconciled(c, m) = [i \in DOMAIN c |-> place(i)]
    BY DEF Reconciled
  <1>2. Len(c) \in Nat /\ DOMAIN c = 1 .. Len(c) /\ c = [i \in 1 .. Len(c) |-> c[i]]
    BY ListIs
  <1>3. mine = Kept(c, I)
    BY DEF Among
  <1> HIDE DEF mine, T
  <1>4. I \in SUBSET DOMAIN c
    OBVIOUS
  <1>5. \A i \in I : Kept(c, I)[Cardinality({j \in I : j <= i})] = c[i]
    <2> HIDE DEF I
    <2> QED
      BY <1>4, KeptLists
  <1>6. ASSUME NEW i \in DOMAIN c PROVE place(i) = c[i]
    <2>1. CASE c[i] \notin T
      BY <2>1
    <2>2. CASE c[i] \in T
      <3>1. i \in I
        BY <2>2
      <3>2. {j \in 1 .. i : c[j] \in T} = {j \in I : j <= i}
        BY <1>2
      <3> HIDE DEF I
      <3>3. place(i) = Kept(c, I)[Cardinality({j \in I : j <= i})]
        BY <1>3, <2>2, <3>2
      <3> QED
        BY <1>5, <3>1, <3>3
    <2> QED
      BY <2>1, <2>2
  <1> HIDE DEF place
  <1> QED
    BY <1>1, <1>2, <1>6

(* The lines that activate.                                                *)
LEMMA ActiveAre ==
  ASSUME NEW f, IsList(f)
  PROVE  /\ IsList(ActiveLines(f))
         /\ \A n : n \in ToSet(ActiveLines(f)) <=> \E i \in DOMAIN f : f[i].name = n /\ f[i].on
         /\ \A x, y : Goes(ActiveLines(f), x, y) => Goes(NamesOf(f), x, y)
  <1> DEFINE J == {i \in DOMAIN f : f[i].on}
  <1>1. J \in SUBSET DOMAIN f /\ ActiveLines(f) = NamesOf(Kept(f, J))
    BY DEF ActiveLines
  <1>2. \A i \in DOMAIN f : i \in J <=> f[i].on
    OBVIOUS
  <1> HIDE DEF J
  <1>3. ActiveLines(f) = Kept(NamesOf(f), J)
    BY <1>1, KeptNames
  <1>4. /\ IsList(NamesOf(f)) /\ DOMAIN NamesOf(f) = DOMAIN f
        /\ \A i \in DOMAIN f : NamesOf(f)[i] = f[i].name
    BY NamesAre
  <1> DEFINE N == NamesOf(f)
  <1>5. /\ IsList(Kept(N, J)) /\ ToSet(Kept(N, J)) = {N[i] : i \in J}
        /\ \A x, y : Goes(Kept(N, J), x, y) => Goes(N, x, y)
    <2> HIDE DEF N
    <2>1. IsList(N) /\ J \in SUBSET DOMAIN N
      BY <1>1, <1>4 DEF N
    <2> QED
      BY <2>1, KeptLists
  <1>6. ASSUME NEW n
        PROVE  n \in ToSet(ActiveLines(f)) <=> \E i \in DOMAIN f : f[i].name = n /\ f[i].on
    BY <1>1, <1>2, <1>3, <1>4, <1>5
  <1> QED
    BY <1>3, <1>5, <1>6

(* What libloot saves of an order.                                         *)
LEMMA SavedIs ==
  ASSUME LoadOrderAssumption, NEW c, IsList(c), NEW on
  PROVE  /\ Saved(c, on) \in Seq([name : Plugin, on : BOOLEAN])
         /\ IsList(Users(Saved(c, on)))
         /\ ToSet(Users(Saved(c, on))) = ToSet(c) \cap (Plugin \ Early) \cap on
         /\ \A x, y : Goes(Users(Saved(c, on)), x, y) => Goes(c, x, y)
         /\ ActiveLines(Saved(c, on)) = Users(Saved(c, on))
         /\ \A x, y : Goes(NamesOf(Saved(c, on)), x, y) => Goes(c, x, y)
  <1> DEFINE f == Saved(c, on)  lines == Among(c, Plugin \ Early)
  <1>1. /\ IsList(lines) /\ ToSet(lines) = ToSet(c) \cap (Plugin \ Early)
        /\ \A x, y : Goes(lines, x, y) => Goes(c, x, y)
    BY AmongLists
  <1>2. f = [i \in DOMAIN lines |-> [name |-> lines[i], on |-> lines[i] \in on]]
    BY DEF Saved
  <1> HIDE DEF lines, f
  <1>3. DOMAIN lines = 1 .. Len(lines) /\ Len(lines) \in Nat /\ lines = [i \in 1 .. Len(lines) |-> lines[i]]
    BY <1>1, ListIs
  <1>4. /\ DOMAIN f = DOMAIN lines
        /\ \A i \in DOMAIN lines : f[i] = [name |-> lines[i], on |-> lines[i] \in on]
    BY <1>2
  <1>5. ASSUME NEW i \in DOMAIN lines
        PROVE  /\ f[i].name = lines[i] /\ (f[i].on <=> lines[i] \in on)
               /\ f[i] \in [name : Plugin, on : BOOLEAN]
    <2>1. lines[i] \in Plugin
      BY <1>1 DEF ToSet
    <2> DEFINE b == lines[i] \in on
    <2>2. f[i] = [name |-> lines[i], on |-> b] /\ (b <=> lines[i] \in on) /\ b \in BOOLEAN
      BY <1>4
    <2> HIDE DEF b
    <2>3. f[i].name = lines[i] /\ f[i] \in [name : Plugin, on : BOOLEAN]
      BY <2>1, <2>2
    <2>4. f[i].on = b
      BY <2>2
    <2>5. f[i].on <=> b
      BY <2>4, Zenon
    <2> QED
      BY <2>2, <2>3, <2>5, Zenon
  <1>6. IsList(f)
    <2>1. f = [i \in 1 .. Len(lines) |-> f[i]]
      BY <1>2, <1>3
    <2> QED
      BY <1>3, <1>4, <2>1, ListOf
  <1>7. NamesOf(f) = lines
    BY <1>3, <1>4, <1>5 DEF NamesOf
  <1>8. /\ IsList(ActiveLines(f))
        /\ \A n : n \in ToSet(ActiveLines(f)) <=> \E i \in DOMAIN f : f[i].name = n /\ f[i].on
        /\ \A x, y : Goes(ActiveLines(f), x, y) => Goes(lines, x, y)
    BY <1>6, <1>7, ActiveAre
  <1>9. ToSet(ActiveLines(f)) = ToSet(lines) \cap on
    <2>1. ASSUME NEW n
          PROVE  n \in ToSet(ActiveLines(f)) <=> \E i \in DOMAIN lines : lines[i] = n /\ lines[i] \in on
      <3>1. \A i \in DOMAIN lines : (f[i].name = n /\ f[i].on) <=> (lines[i] = n /\ lines[i] \in on)
        BY <1>5, Zenon
      <3>2. n \in ToSet(ActiveLines(f)) <=> \E i \in DOMAIN lines : f[i].name = n /\ f[i].on
        BY <1>4, <1>8, Zenon
      <3> QED
        BY <3>1, <3>2, Zenon
    <2>2. \A n : n \in ToSet(lines) <=> \E i \in DOMAIN lines : lines[i] = n
      BY DEF ToSet
    <2> QED
      BY <2>1, <2>2
  <1>10. /\ IsList(Users(f)) /\ ToSet(Users(f)) = ToSet(ActiveLines(f)) \cap (Plugin \ Early)
         /\ \A x, y : Goes(Users(f), x, y) => Goes(ActiveLines(f), x, y)
    BY <1>8, AmongLists DEF Users
  <1>11. f \in Seq([name : Plugin, on : BOOLEAN])
    BY <1>4, <1>5, <1>6, ListIn
  <1>12. ActiveLines(f) = Users(f)
    BY <1>1, <1>8, <1>9, AmongAll DEF Users
  <1> QED
    BY <1>1, <1>7, <1>8, <1>9, <1>10, <1>11, <1>12 DEF f

(* The file of an applied list activates the plugins it has enabled, masters *)
(* first, in its order.                                                    *)
LEMMA AppliedIs ==
  ASSUME LoadOrderAssumption, data \subseteq Plugin,
         NEW list, IsList(list), Settings(list), Distinct(NamesOf(list))
  PROVE  /\ Applied(list) \in Seq([name : Plugin, on : BOOLEAN])
         /\ \A R : /\ Asymmetric(R, Chosen(list))
                   /\ \A x, y \in Chosen(list) : Ahead(list, x, y) => <<x, y>> \in R
                   => Users(Applied(list)) = Sorted(Chosen(list), R)
         /\ ToSet(ActiveLines(Applied(list))) = Chosen(list)
         /\ \A x, y : Goes(ActiveLines(Applied(list)), x, y) => Ahead(list, x, y)
         /\ Distinct(NamesOf(Applied(list))) /\ Distinct(NamesOf(Seed(OnDisk(list))))
  <1> DEFINE N == NamesOf(list)  seed == Seed(OnDisk(list))  c == Loaded(seed)
             m == NamesOf(Only(OnDisk(list), Plugin \ Master))  on == Active(seed)
             mine == Among(m, ToSet(c))  again == Among(c, ToSet(mine))
  <1>1. /\ IsList(seed) /\ Names(seed) = Names(list) \cap data
        /\ \A n : (\E i \in DOMAIN seed : seed[i].name = n /\ seed[i].on = TRUE)
                    <=> n \in data /\ \E i \in DOMAIN list : list[i].name = n /\ list[i].on = TRUE
        /\ \A i \in DOMAIN seed : seed[i] \in [name : Plugin, on : BOOLEAN]
    BY SeedIs
  <1>2. /\ IsList(c) /\ ToSet(c) = data
        /\ \A x, y : Goes(c, x, y) /\ {x, y} \subseteq Listed(list) => Ahead(list, x, y)
    BY LoadedIs
  <1>3. IsList(N) /\ ToSet(N) = Names(list)
    BY NamesAre
  <1>4. /\ IsList(m) /\ ToSet(m) = Names(list) \cap data \cap (Plugin \ Master)
        /\ \A x, y : Goes(m, x, y) => Goes(N, x, y)
    <2> DEFINE d == Among(N, data)
    <2>1. /\ IsList(d) /\ ToSet(d) = Names(list) \cap data
          /\ \A x, y : Goes(d, x, y) => Goes(N, x, y)
      <3> HIDE DEF N
      <3> QED
        BY <1>3, AmongLists
    <2>2. m = Among(d, Plugin \ Master)
      <3>1. IsList(OnDisk(list)) /\ NamesOf(OnDisk(list)) = d
        BY OnlyLists DEF OnDisk
      <3> QED
        BY <3>1, OnlyLists
    <2> HIDE DEF d, m, N
    <2> QED
      BY <2>1, <2>2, AmongLists
  <1>5. Distinct(N) /\ Distinct(NamesOf(seed)) /\ Distinct(c)
    <2>1. \A x : ~ Goes(NamesOf(seed), x, x)
      BY SeedOrder DEF Distinct
    <2>2. Distinct(NamesOf(seed))
      BY <2>1 DEF Distinct
    <2> QED
      BY <1>1, <2>2, LoadsOnce
  <1> HIDE DEF m, c, N
  <1>6. /\ IsList(mine) /\ ToSet(mine) = ToSet(m) \cap data
        /\ \A x, y : Goes(mine, x, y) => Goes(m, x, y) /\ {x, y} \subseteq ToSet(m) \cap data
    BY <1>2, <1>4, AmongLists
  <1> HIDE DEF mine
  <1>7. ToSet(mine) \subseteq Listed(list) /\ ToSet(mine) \cap Master = {} /\ ToSet(mine) \subseteq data
    BY <1>4, <1>6 DEF Listed, LoadOrderAssumption
  <1>8. /\ IsList(again) /\ ToSet(again) = ToSet(mine)
        /\ \A x, y : Goes(again, x, y) => Goes(c, x, y) /\ {x, y} \subseteq ToSet(mine)
    <2>1. /\ IsList(again) /\ ToSet(again) = data \cap ToSet(mine)
          /\ \A x, y : Goes(again, x, y) => Goes(c, x, y) /\ {x, y} \subseteq data \cap ToSet(mine)
      BY <1>2, AmongLists
    <2> HIDE DEF again
    <2> QED
      BY <1>7, <2>1
  <1> HIDE DEF again
  <1>9. mine = again
    <2> DEFINE S == ToSet(mine)  Q == {xy \in S \X S : Goes(N, xy[1], xy[2])}
    <2>1. \A x, y : Goes(N, x, y) => ~ Goes(N, y, x)
      BY <1>3, <1>5, OneWay
    <2>2. Asymmetric(Q, S)
      BY <2>1 DEF Asymmetric
    <2>3. ASSUME NEW x, NEW y, Goes(mine, x, y) PROVE <<x, y>> \in Q
      BY <1>4, <1>6, <2>3
    <2>4. ASSUME NEW x, NEW y, Goes(again, x, y) PROVE <<x, y>> \in Q
      <3>1. Ahead(list, x, y) /\ x \in S /\ y \in S
        BY <1>2, <1>7, <1>8, <2>4
      <3>2. Goes(N, x, y)
        BY <1>7, <3>1 DEF Ahead, N
      <3> QED
        BY <3>1, <3>2
    <2> HIDE DEF S, Q
    <2> QED
      BY <1>6, <1>8, <2>2, <2>3, <2>4, OneOrder DEF S
  <1>10. Reconciled(c, m) = c
    BY <1>2, <1>4, <1>9, ReconciledIs DEF mine, again
  <1>11. Applied(list) = Saved(c, on)
    BY <1>10 DEF Applied, c, m
  <1>12. \A n : n \in on <=> n \in Early \cap data \/ (n \in data /\ \E i \in DOMAIN seed : seed[i].name = n /\ seed[i].on = TRUE)
    <2> HIDE DEF seed
    <2>1. \A i \in DOMAIN seed : seed[i].on \in BOOLEAN
      BY <1>1
    <2> QED
      BY <2>1 DEF Active, ToSet
  <1> HIDE DEF seed, on
  <1>13. data \cap (Plugin \ Early) \cap on = Chosen(list)
    BY <1>1, <1>12 DEF Chosen
  <1>14. /\ Saved(c, on) \in Seq([name : Plugin, on : BOOLEAN])
         /\ IsList(Users(Saved(c, on))) /\ ToSet(Users(Saved(c, on))) = Chosen(list)
         /\ \A x, y : Goes(Users(Saved(c, on)), x, y) => Goes(c, x, y)
         /\ ActiveLines(Saved(c, on)) = Users(Saved(c, on))
         /\ \A x, y : Goes(NamesOf(Saved(c, on)), x, y) => Goes(c, x, y)
    BY <1>2, <1>13, SavedIs
  <1>15. ASSUME NEW R, Asymmetric(R, Chosen(list)),
                \A x, y \in Chosen(list) : Ahead(list, x, y) => <<x, y>> \in R
         PROVE  Users(Applied(list)) = Sorted(Chosen(list), R)
    <2> DEFINE u == Users(Saved(c, on))
    <2>1. Chosen(list) \subseteq Listed(list)
      BY DEF Chosen, Listed, Names
    <2>2. ASSUME NEW x, NEW y, Goes(u, x, y) PROVE <<x, y>> \in R
      <3>1. x \in ToSet(u) /\ y \in ToSet(u)
        BY <2>2 DEF Goes, ToSet
      <3> QED
        BY <1>2, <1>14, <1>15, <2>1, <2>2, <3>1
    <2> HIDE DEF u
    <2> QED
      BY <1>11, <1>14, <1>15, <2>2, SortedIs DEF u
  <1>16. \A x, y : Goes(Users(Saved(c, on)), x, y) => Ahead(list, x, y)
    <2> SUFFICES ASSUME NEW x, NEW y, Goes(Users(Saved(c, on)), x, y) PROVE Ahead(list, x, y)
      OBVIOUS
    <2>1. x \in Chosen(list) /\ y \in Chosen(list)
      BY <1>14 DEF Goes, ToSet
    <2>2. Chosen(list) \subseteq Listed(list)
      BY DEF Chosen, Listed, Names
    <2> QED
      BY <1>2, <1>14, <2>1, <2>2
  <1>17. Distinct(NamesOf(Saved(c, on)))
    BY <1>5, <1>14 DEF Distinct
  <1> QED
    BY <1>5, <1>11, <1>14, <1>15, <1>16, <1>17 DEF seed

-----------------------------------------------------------------------------
(* What a profile's rows list.                                             *)

RowsSound(r) ==
  /\ DOMAIN r \subseteq Plugin
  /\ \A n \in DOMAIN r : r[n] \in [on : BOOLEAN, order : Nat]

Ranks(r, x, y) == r[x].order < r[y].order \/ (r[x].order = r[y].order /\ x < y)

(* By order, then by name, is a strict order.                              *)
LEMMA RanksStrict ==
  ASSUME LoadOrderAssumption, NEW S \in SUBSET Plugin, NEW o, \A n \in S : o[n] \in Nat, NEW R,
         \A x, y \in S : <<x, y>> \in R <=> o[x] < o[y] \/ (o[x] = o[y] /\ x < y)
  PROVE  Strict(R, S) /\ IsFiniteSet(S)
  <1>1. S \in SUBSET Nat /\ IsFiniteSet(S)
    BY FS_Subset DEF LoadOrderAssumption
  <1>2. \A x \in S : x \in Nat /\ o[x] \in Nat
    BY <1>1
  <1>3. Asymmetric(R, S)
    BY <1>2 DEF Asymmetric
  <1>4. ASSUME NEW x \in S, NEW y \in S, x # y PROVE <<x, y>> \in R \/ <<y, x>> \in R
    BY <1>2, <1>4
  <1>5. ASSUME NEW x \in S, NEW y \in S, NEW z \in S, <<x, y>> \in R, <<y, z>> \in R
        PROVE  <<x, z>> \in R
    <2>1. o[x] < o[y] \/ (o[x] = o[y] /\ x < y)
      BY <1>5
    <2>2. o[y] < o[z] \/ (o[y] = o[z] /\ y < z)
      BY <1>5
    <2>3. o[x] \in Nat /\ o[y] \in Nat /\ o[z] \in Nat /\ x \in Nat /\ y \in Nat /\ z \in Nat
      BY <1>2
    <2>4. o[x] < o[z] \/ (o[x] = o[z] /\ x < z)
      BY <2>1, <2>2, <2>3
    <2> QED
      BY <2>4
  <1> QED
    BY <1>1, <1>3, <1>4, <1>5 DEF Strict

LEMMA NoRepeat ==
  ASSUME NEW S, NEW R, Strict(R, S), NEW s, ToSet(s) \subseteq S,
         \A x, y : Goes(s, x, y) => <<x, y>> \in R
  PROVE  Distinct(s)
  <1>1. \A x : Goes(s, x, x) => x \in S
    BY DEF Goes, ToSet
  <1> QED
    BY <1>1 DEF Distinct, Strict, Asymmetric

LEMMA RecordedIs ==
  ASSUME LoadOrderAssumption, NEW p, RowsSound(rows[p])
  PROVE  /\ IsList(Recorded(p)) /\ Settings(Recorded(p)) /\ Distinct(NamesOf(Recorded(p)))
         /\ \A i \in DOMAIN Recorded(p) : Recorded(p)[i].name \in Plugin
         /\ \A n : n \in Enabled(p) <=> \E i \in DOMAIN Recorded(p) :
                                          Recorded(p)[i].name = n /\ Recorded(p)[i].on
         /\ \A x, y : Goes(NamesOf(Recorded(p)), x, y) => Ranks(rows[p], x, y)
  <1> DEFINE K == DOMAIN rows[p]
             R == {ab \in K \X K : \/ rows[p][ab[1]].order < rows[p][ab[2]].order
                                   \/ rows[p][ab[1]].order = rows[p][ab[2]].order /\ ab[1] < ab[2]}
             q == Sorted(K, R)  c == Recorded(p)  o == [n \in K |-> rows[p][n].order]
  <1>1. /\ K \in SUBSET Plugin
        /\ \A n \in K : rows[p][n].on \in BOOLEAN /\ rows[p][n].order \in Nat /\ o[n] = rows[p][n].order
    BY DEF RowsSound
  <1>2. \A x, y \in K : <<x, y>> \in R <=> Ranks(rows[p], x, y)
    BY DEF Ranks
  <1>3. \A x, y : <<x, y>> \in R => x \in K /\ y \in K
    OBVIOUS
  <1>4. c = [i \in DOMAIN q |-> [name |-> q[i], on |-> rows[p][q[i]].on]]
    BY DEF Recorded
  <1> HIDE DEF R, c
  <1>5. Strict(R, K) /\ IsFiniteSet(K)
    <2>1. ASSUME NEW x \in K, NEW y \in K
          PROVE  <<x, y>> \in R <=> o[x] < o[y] \/ (o[x] = o[y] /\ x < y)
      <3>1. o[x] = rows[p][x].order /\ o[y] = rows[p][y].order
        OBVIOUS
      <3> HIDE DEF o
      <3> QED
        BY <1>2, <3>1 DEF Ranks
    <2> HIDE DEF K, o
    <2> QED
      BY <1>1, <2>1, RanksStrict
  <1>6. /\ IsList(q) /\ ToSet(q) = K /\ Cardinality(K) \in Nat /\ DOMAIN q = 1 .. Cardinality(K)
        /\ \A x, y : Goes(q, x, y) => <<x, y>> \in R
    BY <1>5, SortedLists
  <1> HIDE DEF q, K
  <1>7. /\ DOMAIN c = DOMAIN q
        /\ \A i \in DOMAIN q : c[i] = [name |-> q[i], on |-> rows[p][q[i]].on] /\ q[i] \in K
    BY <1>4, <1>6 DEF ToSet
  <1>8. IsList(c)
    <2>1. c = [i \in 1 .. Cardinality(K) |-> c[i]]
      BY <1>4, <1>6
    <2> QED
      BY <1>6, <1>7, <2>1, ListOf
  <1>9. \A i \in DOMAIN q : c[i].name = q[i] /\ c[i].on = rows[p][q[i]].on
    BY <1>7
  <1>10. NamesOf(c) = q
    <2>1. NamesOf(c) = [i \in DOMAIN q |-> q[i]]
      BY <1>7, <1>9 DEF NamesOf
    <2> QED
      BY <1>6, <2>1, ListIs
  <1>11. Settings(c) /\ \A i \in DOMAIN c : c[i].name \in Plugin
    BY <1>1, <1>7, <1>9 DEF Settings
  <1>12. \A x, y : Goes(q, x, y) => Ranks(rows[p], x, y)
    BY <1>2, <1>3, <1>6
  <1>13. Distinct(q)
    BY <1>5, <1>6, NoRepeat
  <1>14. ASSUME NEW n
         PROVE  n \in Enabled(p) <=> \E i \in DOMAIN c : c[i].name = n /\ c[i].on
    <2>1. ASSUME NEW i \in DOMAIN c, c[i].name = n, c[i].on PROVE n \in Enabled(p)
      <3>1. n \in K /\ rows[p][n].on
        BY <1>7, <1>9, <2>1, Zenon
      <3> QED
        BY <3>1 DEF Enabled, K
    <2>2. ASSUME n \in Enabled(p) PROVE \E i \in DOMAIN c : c[i].name = n /\ c[i].on
      <3>1. n \in K /\ rows[p][n].on
        BY <2>2 DEF Enabled, K
      <3>2. PICK i \in DOMAIN q : q[i] = n
        BY <1>6, <3>1 DEF ToSet
      <3> QED
        BY <1>7, <1>9, <3>1, <3>2, Zenon
    <2> QED
      BY <2>1, <2>2
  <1> QED
    BY <1>8, <1>10, <1>11, <1>12, <1>13, <1>14 DEF c

LEMMA MergedIs ==
  ASSUME LoadOrderAssumption, data \subseteq Plugin, NEW p, RowsSound(rows[p])
  PROVE  /\ IsList(Merged(p)) /\ Distinct(NamesOf(Merged(p)))
         /\ \A i \in DOMAIN Merged(p) : Merged(p)[i].name \in Plugin /\ Merged(p)[i].on \in BOOLEAN
  <1> DEFINE Row(n) == IF n \in DOMAIN rows[p] THEN rows[p][n] ELSE [on |-> FALSE, order |-> 0]
             R == {ab \in data \X data : \/ Row(ab[1]).order < Row(ab[2]).order
                                         \/ Row(ab[1]).order = Row(ab[2]).order /\ ab[1] < ab[2]}
             q == Sorted(data, R)  c == Merged(p)  o == [n \in data |-> Row(n).order]
  <1>1. \A n : Row(n).on \in BOOLEAN /\ Row(n).order \in Nat
    BY DEF RowsSound
  <1>2. c = [i \in DOMAIN q |-> [name |-> q[i], on |-> Row(q[i]).on]]
    BY DEF Merged
  <1> HIDE DEF Row, c
  <1>3. /\ \A n \in data : o[n] \in Nat
        /\ \A x, y \in data : <<x, y>> \in R <=> o[x] < o[y] \/ (o[x] = o[y] /\ x < y)
    BY <1>1
  <1> HIDE DEF R, o
  <1>4. Strict(R, data) /\ IsFiniteSet(data)
    BY <1>3, RanksStrict
  <1>5. /\ IsList(q) /\ ToSet(q) = data /\ Cardinality(data) \in Nat /\ DOMAIN q = 1 .. Cardinality(data)
        /\ \A x, y : Goes(q, x, y) => <<x, y>> \in R
    BY <1>4, SortedLists
  <1> HIDE DEF q
  <1>6. /\ DOMAIN c = DOMAIN q
        /\ \A i \in DOMAIN q : c[i] = [name |-> q[i], on |-> Row(q[i]).on] /\ q[i] \in data
    BY <1>2, <1>5 DEF ToSet
  <1>7. \A i \in DOMAIN q : c[i].name = q[i] /\ c[i].on = Row(q[i]).on
    BY <1>6
  <1>8. IsList(c)
    <2>1. c = [i \in 1 .. Cardinality(data) |-> c[i]]
      BY <1>2, <1>5
    <2> QED
      BY <1>5, <1>6, <2>1, ListOf
  <1>9. NamesOf(c) = q
    <2>1. NamesOf(c) = [i \in DOMAIN q |-> q[i]]
      BY <1>6, <1>7 DEF NamesOf
    <2> QED
      BY <1>5, <2>1, ListIs
  <1>10. Distinct(q)
    BY <1>4, <1>5, NoRepeat
  <1> QED
    BY <1>1, <1>6, <1>7, <1>8, <1>9, <1>10 DEF c

(* A list written to the file activates what rows say that give its plugins *)
(* the ranks it has them in.                                               *)
LEMMA IntendedIs ==
  ASSUME LoadOrderAssumption, data \subseteq Plugin,
         NEW list, IsList(list), Settings(list), Distinct(NamesOf(list)),
         NEW p, NEW r, NEW S,
         {n \in DOMAIN r[p] \cap S : r[p][n].on} = Chosen(list),
         \A n \in Chosen(list) : r[p][n].order \in Nat,
         \A x, y \in Chosen(list) : Goes(NamesOf(list), x, y) => Ranks(r[p], x, y)
  PROVE  Users(Applied(list)) = Intended(p, r, S)
  <1> DEFINE E == Chosen(list)
             Before(a, b) ==
               \/ a \in Master /\ b \notin Master
               \/ /\ a \in Master <=> b \in Master
                  /\ \/ r[p][a].order < r[p][b].order
                     \/ r[p][a].order = r[p][b].order /\ a < b
             R == {ab \in E \X E : Before(ab[1], ab[2])}
  <1>1. Intended(p, r, S) = Sorted(E, R)
    BY DEF Intended
  <1>2. \A x, y \in E : <<x, y>> \in R <=> Before(x, y)
    OBVIOUS
  <1>3. \A x \in E : x \in Nat /\ r[p][x].order \in Nat
    BY DEF Chosen, LoadOrderAssumption
  <1> HIDE DEF R, E
  <1>4. Asymmetric(R, E)
    <2> SUFFICES ASSUME NEW x \in E, NEW y \in E, Before(x, y), Before(y, x) PROVE FALSE
      BY <1>2 DEF Asymmetric
    <2> QED
      BY <1>3
  <1>5. ASSUME NEW x \in E, NEW y \in E, Ahead(list, x, y) PROVE <<x, y>> \in R
    BY <1>2, <1>5 DEF Ahead, Ranks, E
  <1>6. \A T : /\ Asymmetric(T, Chosen(list))
               /\ \A x, y \in Chosen(list) : Ahead(list, x, y) => <<x, y>> \in T
               => Users(Applied(list)) = Sorted(Chosen(list), T)
    BY AppliedIs
  <1> QED
    BY <1>1, <1>4, <1>5, <1>6 DEF E

-----------------------------------------------------------------------------
(* The invariant: every list is one of plugins with their settings, and the *)
(* file, the window's, the proposed and the saved one repeat none.         *)

Line == [name : Plugin, on : BOOLEAN, locked : BOOLEAN]

Window(s) == s \in Seq(Line) /\ Distinct(NamesOf(s))

Lines(f) == f \in Seq([name : Plugin, on : BOOLEAN]) /\ Distinct(NamesOf(f))

Lists ==
  /\ data \subseteq Plugin
  /\ active \in Profile \cup {None}
  /\ Lines(file)
  /\ Window(view)
  /\ proposal \in Seq(Plugin) /\ Distinct(proposal)
  /\ saving = Idle \/ saving.profile \in Profile
  /\ Window(saving.list)

RowsInv == DOMAIN rows = Profile /\ \A p \in Profile : RowsSound(rows[p])

OrderInv == Lists /\ RowsInv

LEMMA Empty ==
  /\ \A S : <<>> \in Seq(S)
  /\ Distinct(<<>>) /\ Window(<<>>) /\ Lines(<<>>) /\ RowsSound(<<>>)
  <1>1. \A S : <<>> \in Seq(S)
    OBVIOUS
  <1>2. DOMAIN <<>> = {} /\ DOMAIN NamesOf(<<>>) = {}
    BY DEF NamesOf
  <1> QED
    BY <1>1, <1>2 DEF Distinct, Goes, Window, Lines, RowsSound

LEMMA Places ==
  ASSUME NEW list, NEW n \in Names(list)
  PROVE  Place(list, n) \in DOMAIN list /\ list[Place(list, n)].name = n
  <1>1. \E i \in DOMAIN list : list[i].name = n
    BY DEF Names
  <1> QED
    BY <1>1 DEF Place

(* No name twice: the places tell the lines apart.                         *)
LEMMA DistinctAt ==
  ASSUME NEW s, IsList(s)
  PROVE  Distinct(s) <=> \A i, j \in DOMAIN s : s[i] = s[j] => i = j
  <1>1. Len(s) \in Nat /\ DOMAIN s = 1 .. Len(s)
    BY ListIs
  <1>2. ASSUME Distinct(s), NEW i \in DOMAIN s, NEW j \in DOMAIN s, s[i] = s[j] PROVE i = j
    <2>1. ~ (i < j) /\ ~ (j < i)
      BY <1>2 DEF Distinct, Goes
    <2> QED
      BY <1>1, <2>1
  <1>3. ASSUME \A i, j \in DOMAIN s : s[i] = s[j] => i = j PROVE Distinct(s)
    <2> SUFFICES ASSUME NEW x, NEW i \in DOMAIN s, NEW j \in DOMAIN s, i < j, s[i] = x, s[j] = x
                 PROVE  FALSE
      BY DEF Distinct, Goes
    <2>1. i = j
      BY <1>3
    <2> QED
      BY <1>1, <2>1
  <1> QED
    BY <1>2, <1>3

(* A list of the window is one of those the lemmas above speak of.          *)
LEMMA WindowIs ==
  ASSUME NEW s, Window(s)
  PROVE  /\ IsList(s) /\ Settings(s) /\ Distinct(NamesOf(s))
         /\ Len(s) \in Nat /\ DOMAIN s = 1 .. Len(s)
         /\ \A i \in DOMAIN s : s[i] \in Line
         /\ \A i, j \in DOMAIN s : s[i].name = s[j].name => i = j
  <1>1. /\ IsList(s) /\ Len(s) \in Nat /\ DOMAIN s = 1 .. Len(s)
        /\ \A i \in DOMAIN s : s[i] \in Line
    BY InSeq DEF Window
  <1>2. Settings(s)
    BY <1>1 DEF Settings, Line
  <1>3. IsList(NamesOf(s)) /\ DOMAIN NamesOf(s) = DOMAIN s
        /\ \A i \in DOMAIN s : NamesOf(s)[i] = s[i].name
    BY <1>1, NamesAre
  <1>4. \A i, j \in DOMAIN NamesOf(s) : NamesOf(s)[i] = NamesOf(s)[j] => i = j
    BY <1>3, DistinctAt DEF Window
  <1> QED
    BY <1>1, <1>2, <1>3, <1>4 DEF Window

LEMMA IsWindow ==
  ASSUME NEW n \in Nat, NEW s, DOMAIN s = 1 .. n, s = [i \in 1 .. n |-> s[i]],
         \A i \in 1 .. n : s[i] \in Line,
         \A i, j \in 1 .. n : s[i].name = s[j].name => i = j
  PROVE  Window(s)
  <1>1. IsList(s)
    BY ListOf
  <1>2. IsList(NamesOf(s)) /\ DOMAIN NamesOf(s) = DOMAIN s
        /\ \A i \in DOMAIN s : NamesOf(s)[i] = s[i].name
    BY <1>1, NamesAre
  <1>3. Distinct(NamesOf(s))
    BY <1>2, DistinctAt
  <1>4. s \in Seq(Line)
    BY <1>1, ListIn
  <1> QED
    BY <1>3, <1>4 DEF Window

LEMMA LinesAt ==
  ASSUME NEW f \in Seq([name : Plugin, on : BOOLEAN])
  PROVE  /\ IsList(f) /\ Len(f) \in Nat /\ DOMAIN f = 1 .. Len(f)
         /\ Lines(f) <=> \A i, j \in DOMAIN f : f[i].name = f[j].name => i = j
  <1>1. IsList(f) /\ Len(f) \in Nat /\ DOMAIN f = 1 .. Len(f)
    BY InSeq
  <1>2. /\ IsList(NamesOf(f)) /\ DOMAIN NamesOf(f) = DOMAIN f
        /\ \A i \in DOMAIN f : NamesOf(f)[i] = f[i].name
    BY <1>1, NamesAre
  <1>3. Distinct(NamesOf(f)) <=> \A i, j \in DOMAIN f : f[i].name = f[j].name => i = j
    BY <1>2, DistinctAt
  <1> QED
    BY <1>1, <1>3 DEF Lines

(* Outside the window: what LOOT proposes, what is written, what others do. *)
LEMMA SortTyped ==
  ASSUME LoadOrderAssumption, OrderInv, Sort
  PROVE  proposal' \in Seq(Plugin) /\ Distinct(proposal')
  <1> DEFINE E == data \cap Early  A == (data \cap Master) \ Early  B == data \ Master
             e == Remaining(E)
  <1>1. /\ E \in SUBSET Plugin /\ A \in SUBSET Plugin /\ B \in SUBSET Plugin
        /\ E \cap A = {} /\ E \cap B = {} /\ A \cap B = {}
    BY DEF OrderInv, Lists, LoadOrderAssumption
  <1>2. PICK s \in SetToSeqs(A), t \in SetToSeqs(B) : proposal' = (e \o s) \o t
    BY DEF Sort
  <1>3. ASSUME NEW S \in SUBSET Plugin, NEW u \in SetToSeqs(S)
        PROVE  IsList(u) /\ ToSet(u) \subseteq S /\ Distinct(u)
    <2>1. IsFiniteSet(S) /\ Cardinality(S) \in Nat
      BY FS_Subset, FS_CardinalityType DEF LoadOrderAssumption
    <2>2. u \in [1 .. Cardinality(S) -> S] /\ \A i, j \in 1 .. Cardinality(S) : i # j => u[i] # u[j]
      BY DEF SetToSeqs
    <2>3. IsList(u) /\ DOMAIN u = 1 .. Cardinality(S)
      <3>1. DOMAIN u = 1 .. Cardinality(S) /\ u = [i \in 1 .. Cardinality(S) |-> u[i]]
        BY <2>2
      <3> QED
        BY <2>1, <3>1, ListOf
    <2>4. Distinct(u)
      BY <2>2, <2>3, DistinctAt
    <2> QED
      BY <2>2, <2>3, <2>4 DEF ToSet
  <1>4. IsList(e) /\ ToSet(e) = E /\ Distinct(e)
    <2>1. E \in SUBSET Nat /\ IsFiniteSet(E)
      BY <1>1, FS_Subset DEF LoadOrderAssumption
    <2>2. /\ IsList(e) /\ ToSet(e) = E
          /\ \A x, y : Goes(e, x, y) => x < y
      BY <2>1, RemainingLists
    <2>3. \A x : Goes(e, x, x) => x \in E
      BY <2>2 DEF Goes, ToSet
    <2> QED
      BY <2>1, <2>2, <2>3 DEF Distinct
  <1>5. /\ IsList(s) /\ ToSet(s) \subseteq A /\ Distinct(s)
        /\ IsList(t) /\ ToSet(t) \subseteq B /\ Distinct(t)
    BY <1>1, <1>3
  <1> HIDE DEF e, E, A, B
  <1>6. /\ IsList(e \o s) /\ ToSet(e \o s) = ToSet(e) \cup ToSet(s)
        /\ \A x, y : Goes(e \o s, x, y) => Goes(e, x, y) \/ Goes(s, x, y) \/ (x \in ToSet(e) /\ y \in ToSet(s))
    BY <1>4, <1>5, Joined
  <1> DEFINE f == e \o s
  <1>7. IsList(f) /\ ToSet(f) \subseteq E \cup A /\ Distinct(f)
    BY <1>1, <1>4, <1>5, <1>6 DEF Distinct
  <1> HIDE DEF f
  <1>8. /\ IsList(f \o t) /\ ToSet(f \o t) = ToSet(f) \cup ToSet(t)
        /\ \A x, y : Goes(f \o t, x, y) => Goes(f, x, y) \/ Goes(t, x, y) \/ (x \in ToSet(f) /\ y \in ToSet(t))
    BY <1>5, <1>7, Joined
  <1> DEFINE g == f \o t
  <1>9. IsList(g) /\ ToSet(g) \subseteq Plugin /\ Distinct(g)
    BY <1>1, <1>5, <1>7, <1>8 DEF Distinct
  <1>10. proposal' = g
    BY <1>2 DEF f
  <1> HIDE DEF g
  <1>11. g \in Seq(Plugin)
    BY <1>9, ListIn DEF ToSet
  <1> QED
    BY <1>9, <1>10, <1>11

LEMMA WritesTyped ==
  ASSUME LoadOrderAssumption, data \subseteq Plugin,
         NEW list, IsList(list), Settings(list), Distinct(NamesOf(list))
  PROVE  Lines(Applied(list)) /\ Lines(Seed(OnDisk(list)))
  <1>1. /\ Applied(list) \in Seq([name : Plugin, on : BOOLEAN])
        /\ Distinct(NamesOf(Applied(list))) /\ Distinct(NamesOf(Seed(OnDisk(list))))
    BY AppliedIs
  <1> DEFINE seed == Seed(OnDisk(list))
  <1>2. IsList(seed) /\ \A i \in DOMAIN seed : seed[i] \in [name : Plugin, on : BOOLEAN]
    BY SeedIs
  <1> HIDE DEF seed
  <1>3. seed \in Seq([name : Plugin, on : BOOLEAN])
    BY <1>2, ListIn
  <1> QED
    BY <1>1, <1>3 DEF seed, Lines

(* ListPlugins shows the rows as they merge; only the locks are free.      *)
LEMMA StampedIs ==
  ASSUME LoadOrderAssumption, data \subseteq Plugin, NEW p, RowsSound(rows[p]), NEW locked
  PROVE  Window(Stamped(Merged(p), locked))
  <1> DEFINE m == Merged(p)  w == Stamped(m, locked)
  <1>1. /\ IsList(m) /\ Distinct(NamesOf(m))
        /\ \A i \in DOMAIN m : m[i].name \in Plugin /\ m[i].on \in BOOLEAN
    BY MergedIs
  <1> HIDE DEF m
  <1>2. Len(m) \in Nat /\ DOMAIN m = 1 .. Len(m)
    BY <1>1, ListIs
  <1>3. IsList(NamesOf(m)) /\ DOMAIN NamesOf(m) = DOMAIN m
        /\ \A i \in DOMAIN m : NamesOf(m)[i] = m[i].name
    BY <1>1, NamesAre
  <1>4. \A i, j \in DOMAIN m : m[i].name = m[j].name => i = j
    BY <1>1, <1>3, DistinctAt
  <1>5. w = [i \in DOMAIN m |-> [name |-> m[i].name, on |-> m[i].on, locked |-> m[i].name \in locked]]
    BY DEF Stamped
  <1> HIDE DEF w
  <1>6. ASSUME NEW i \in DOMAIN m PROVE w[i] \in Line /\ w[i].name = m[i].name
    <2> DEFINE l == m[i].name \in locked
    <2>1. l \in BOOLEAN
      OBVIOUS
    <2>2. w[i] = [name |-> m[i].name, on |-> m[i].on, locked |-> l]
      BY <1>5
    <2> HIDE DEF l
    <2> QED
      BY <1>1, <2>1, <2>2 DEF Line
  <1>7. DOMAIN w = 1 .. Len(m) /\ w = [i \in 1 .. Len(m) |-> w[i]]
    <2> DEFINE line(i) == [name |-> m[i].name, on |-> m[i].on, locked |-> m[i].name \in locked]
    <2>1. w = [i \in DOMAIN m |-> line(i)]
      BY <1>5
    <2> HIDE DEF line
    <2> QED
      BY <1>2, <2>1
  <1>8. \A i \in 1 .. Len(m) : w[i] \in Line
    BY <1>2, <1>6
  <1>9. \A i, j \in 1 .. Len(m) : w[i].name = w[j].name => i = j
    BY <1>2, <1>4, <1>6
  <1>10. Window(w)
    BY <1>2, <1>7, <1>8, <1>9, IsWindow
  <1> QED
    BY <1>10 DEF w, m

LEMMA ToggleTyped ==
  ASSUME LoadOrderAssumption, OrderInv, NEW n \in Plugin, Toggle(n)
  PROVE  Window(view') /\ RowsInv'
  <1> DEFINE i == Place(view, n)  on == ~ view[i].on
             at == IF n \in DOMAIN rows[active] THEN rows[active][n].order ELSE 0
             k == Len(view)
             r == [m \in DOMAIN rows[active] \cup {n} |->
                     IF m = n THEN [on |-> on, order |-> at] ELSE rows[active][m]]
  <1>1. /\ Window(view) /\ active \in Profile /\ n \in Names(view)
        /\ rows' = [rows EXCEPT ![active] = r]
        /\ view' = [view EXCEPT ![i].on = on]
    BY DEF Toggle, OrderInv, Lists
  <1>2. /\ k \in Nat /\ DOMAIN view = 1 .. k /\ \A j \in DOMAIN view : view[j] \in Line
        /\ \A j, l \in DOMAIN view : view[j].name = view[l].name => j = l
    BY <1>1, WindowIs
  <1>3. i \in DOMAIN view
    BY <1>1, Places
  <1>4. RowsSound(rows[active]) /\ DOMAIN rows = Profile
    BY <1>1 DEF OrderInv, RowsInv
  <1>5. on \in BOOLEAN
    OBVIOUS
  <1>6. at \in Nat
    BY <1>4 DEF RowsSound
  <1> HIDE DEF i, on, at, k
  <1>7. RowsSound(r)
    <2>1. DOMAIN r = DOMAIN rows[active] \cup {n}
      OBVIOUS
    <2>2. ASSUME NEW m \in DOMAIN r PROVE r[m] \in [on : BOOLEAN, order : Nat]
      BY <1>4, <1>5, <1>6 DEF RowsSound
    <2> HIDE DEF r
    <2> QED
      BY <1>4, <2>1, <2>2 DEF RowsSound
  <1> HIDE DEF r
  <1>8. RowsInv'
    BY <1>1, <1>4, <1>7 DEF OrderInv, RowsInv
  <1>9. /\ DOMAIN view' = 1 .. k /\ view' = [j \in 1 .. k |-> view'[j]]
        /\ view'[i] = [view[i] EXCEPT !.on = on]
        /\ \A j \in 1 .. k : j # i => view'[j] = view[j]
    BY <1>1, <1>2, <1>3
  <1>10. \A j \in 1 .. k : view'[j] \in Line /\ view'[j].name = view[j].name
    BY <1>2, <1>3, <1>5, <1>9 DEF Line
  <1> QED
    BY <1>2, <1>8, <1>9, <1>10, IsWindow

LEMMA MoveTyped ==
  ASSUME LoadOrderAssumption, OrderInv, NEW i \in DOMAIN view, Move(i)
  PROVE  Window(view')
  <1> DEFINE k == Len(view)
  <1>1. /\ Window(view) /\ i + 1 \in DOMAIN view
        /\ view' = [view EXCEPT ![i] = view[i + 1], ![i + 1] = view[i]]
    BY DEF Move, OrderInv, Lists
  <1>2. /\ k \in Nat /\ DOMAIN view = 1 .. k /\ \A j \in DOMAIN view : view[j] \in Line
        /\ \A j, l \in DOMAIN view : view[j].name = view[l].name => j = l
    BY <1>1, WindowIs
  <1> HIDE DEF k
  <1>3. i \in 1 .. k /\ i + 1 \in 1 .. k /\ i # i + 1
    BY <1>1, <1>2
  <1>4. /\ DOMAIN view' = 1 .. k /\ view' = [j \in 1 .. k |-> view'[j]]
        /\ view'[i] = view[i + 1] /\ view'[i + 1] = view[i]
        /\ \A j \in 1 .. k : j # i /\ j # i + 1 => view'[j] = view[j]
    BY <1>1, <1>2, <1>3
  <1>5. \A j \in 1 .. k : view'[j] \in Line
    BY <1>2, <1>3, <1>4
  <1>6. ASSUME NEW j \in 1 .. k, NEW l \in 1 .. k, view'[j].name = view'[l].name PROVE j = l
    <2> DEFINE At(x) == IF x = i THEN i + 1 ELSE IF x = i + 1 THEN i ELSE x
    <2>1. /\ At(j) \in 1 .. k /\ view'[j] = view[At(j)]
          /\ At(l) \in 1 .. k /\ view'[l] = view[At(l)]
      BY <1>3, <1>4
    <2>2. At(j) = At(l)
      BY <1>2, <1>6, <2>1
    <2> QED
      BY <1>3, <2>2
  <1> QED
    BY <1>2, <1>4, <1>5, <1>6, IsWindow

(* The proposed order drops no listed plugin and lists none twice.         *)
LEMMA ApplySortedTyped ==
  ASSUME LoadOrderAssumption, OrderInv, ApplySorted
  PROVE  Window(view')
  <1> DEFINE first == Among(proposal, Names(view))
             a == [i \in DOMAIN first |-> view[Place(view, first[i])]]
             b == Only(view, Plugin \ ToSet(proposal))
             w == a \o b
  <1>1. view' = w
    BY DEF ApplySorted
  <1>2. /\ IsList(view) /\ Distinct(NamesOf(view)) /\ \A i \in DOMAIN view : view[i] \in Line
    BY WindowIs DEF OrderInv, Lists
  <1>3. IsList(proposal) /\ Distinct(proposal)
    BY InSeq DEF OrderInv, Lists
  <1>4. /\ IsList(first) /\ ToSet(first) = ToSet(proposal) \cap Names(view)
        /\ \A x, y : Goes(first, x, y) => Goes(proposal, x, y)
    BY <1>3, AmongLists
  <1> HIDE DEF first
  <1>5. Len(first) \in Nat /\ DOMAIN first = 1 .. Len(first) /\ first = [i \in 1 .. Len(first) |-> first[i]]
    BY <1>4, ListIs
  <1>6. ASSUME NEW i \in DOMAIN first
        PROVE  a[i] \in ToSet(view) /\ a[i].name = first[i]
    <2>1. first[i] \in Names(view)
      BY <1>4 DEF ToSet
    <2>2. Place(view, first[i]) \in DOMAIN view /\ view[Place(view, first[i])].name = first[i]
      BY <2>1, Places
    <2>3. a[i] = view[Place(view, first[i])]
      OBVIOUS
    <2> QED
      BY <2>2, <2>3 DEF ToSet
  <1>7. DOMAIN a = DOMAIN first /\ a = [i \in DOMAIN first |-> a[i]]
    OBVIOUS
  <1> HIDE DEF a
  <1>8. IsList(a) /\ NamesOf(a) = first /\ ToSet(a) \subseteq ToSet(view)
    <2>1. IsList(a)
      BY <1>5, <1>7, ListOf
    <2>2. NamesOf(a) = [i \in DOMAIN first |-> first[i]]
      BY <1>6, <1>7 DEF NamesOf
    <2>3. NamesOf(a) = first
      BY <1>5, <2>2
    <2>4. ToSet(a) \subseteq ToSet(view)
      <3> SUFFICES ASSUME NEW l \in ToSet(a) PROVE l \in ToSet(view)
        OBVIOUS
      <3>1. PICK i \in DOMAIN a : a[i] = l
        BY DEF ToSet
      <3> QED
        BY <1>6, <1>7, <3>1
    <2> QED
      BY <2>1, <2>3, <2>4
  <1>9. /\ IsList(b) /\ NamesOf(b) = Among(NamesOf(view), Plugin \ ToSet(proposal))
        /\ ToSet(b) \subseteq ToSet(view)
    BY <1>2, OnlyLists
  <1>10. /\ ToSet(NamesOf(b)) \cap ToSet(proposal) = {} /\ IsList(NamesOf(b))
         /\ \A x, y : Goes(NamesOf(b), x, y) => Goes(NamesOf(view), x, y)
    <2> DEFINE N == NamesOf(view)
    <2>1. IsList(N)
      BY <1>2, NamesAre
    <2> HIDE DEF N
    <2>2. /\ IsList(Among(N, Plugin \ ToSet(proposal)))
          /\ ToSet(Among(N, Plugin \ ToSet(proposal))) = ToSet(N) \cap (Plugin \ ToSet(proposal))
          /\ \A x, y : Goes(Among(N, Plugin \ ToSet(proposal)), x, y) => Goes(N, x, y)
      BY <2>1, AmongLists
    <2> QED
      BY <1>9, <2>2 DEF N
  <1> HIDE DEF b
  <1>11. IsList(w) /\ ToSet(w) = ToSet(a) \cup ToSet(b) /\ NamesOf(w) = first \o NamesOf(b)
    BY <1>8, <1>9, Joined, NamesJoined
  <1> DEFINE nb == NamesOf(b)
  <1>12. \A x, y : Goes(first \o nb, x, y) =>
           Goes(first, x, y) \/ Goes(nb, x, y) \/ (x \in ToSet(first) /\ y \in ToSet(nb))
    <2> HIDE DEF nb
    <2>1. IsList(nb)
      BY <1>10 DEF nb
    <2> QED
      BY <1>4, <2>1, Joined
  <1>13. Distinct(NamesOf(w))
    BY <1>2, <1>3, <1>4, <1>10, <1>11, <1>12 DEF Distinct
  <1> HIDE DEF w
  <1>14. w \in Seq(Line)
    <2>1. \A i \in DOMAIN w : w[i] \in Line
      BY <1>2, <1>8, <1>9, <1>11 DEF ToSet
    <2> QED
      BY <1>11, <2>1, ListIn
  <1> QED
    BY <1>1, <1>13, <1>14 DEF Window

LEMMA MeddleTyped ==
  ASSUME LoadOrderAssumption, OrderInv, Meddle
  PROVE  Lines(file')
  <1> DEFINE F == [name : Plugin, on : BOOLEAN]
  <1>1. /\ file \in Seq(F) /\ Len(file) \in Nat /\ DOMAIN file = 1 .. Len(file)
        /\ \A i, j \in DOMAIN file : file[i].name = file[j].name => i = j
    <2>1. file \in Seq(F) /\ Lines(file)
      BY DEF OrderInv, Lists, Lines
    <2> QED
      BY <2>1, LinesAt
  <1>2. ASSUME NEW n \in Plugin PROVE [name |-> n, on |-> TRUE] \in F
    OBVIOUS
  <1>3. ASSUME NEW g \in Seq(F), \A i, j \in DOMAIN g : g[i].name = g[j].name => i = j
        PROVE  Lines(g)
    BY <1>3, LinesAt
  <1> HIDE DEF F
  <1>4. ASSUME NEW i \in DOMAIN file, file' = RemoveAt(file, i) PROVE Lines(file')
    <2> DEFINE a == SubSeq(file, 1, i - 1)  b == SubSeq(file, i + 1, Len(file))
    <2>1. /\ a \in Seq(F) /\ Len(a) = i - 1 /\ \A k \in 1 .. i - 1 : a[k] = file[k]
          /\ b \in Seq(F) /\ Len(b) = Len(file) - i /\ \A k \in 1 .. Len(file) - i : b[k] = file[k + i]
      <3>1. i \in Nat /\ 1 <= i /\ i <= Len(file)
        BY <1>1, <1>4
      <3>2. /\ \A k \in 1 .. i - 1 : file[k] \in F
            /\ \A k \in i + 1 .. Len(file) : file[k] \in F
        BY <1>1, <3>1
      <3>3. /\ a \in Seq(F) /\ Len(a) = IF 1 <= i - 1 THEN (i - 1) - 1 + 1 ELSE 0
            /\ \A k \in 1 .. (i - 1) - 1 + 1 : a[k] = file[1 + k - 1]
        BY <3>1, <3>2, SubSeqProperties
      <3>4. /\ b \in Seq(F) /\ Len(b) = IF i + 1 <= Len(file) THEN Len(file) - (i + 1) + 1 ELSE 0
            /\ \A k \in 1 .. Len(file) - (i + 1) + 1 : b[k] = file[(i + 1) + k - 1]
        BY <1>1, <3>1, <3>2, SubSeqProperties
      <3>5. Len(a) = i - 1 /\ Len(b) = Len(file) - i
        BY <1>1, <3>1, <3>3, <3>4
      <3>6. ASSUME NEW k \in 1 .. i - 1 PROVE a[k] = file[k]
        <4>1. 1 + k - 1 = k /\ k \in 1 .. (i - 1) - 1 + 1
          BY <3>1
        <4> QED
          BY <3>3, <4>1
      <3>7. ASSUME NEW k \in 1 .. Len(file) - i PROVE b[k] = file[k + i]
        <4>1. (i + 1) + k - 1 = k + i /\ k \in 1 .. Len(file) - (i + 1) + 1
          BY <1>1, <3>1
        <4> QED
          BY <3>4, <4>1
      <3> QED
        BY <3>3, <3>4, <3>5, <3>6, <3>7
    <2>2. file' = a \o b
      BY <1>4 DEF RemoveAt
    <2> HIDE DEF a, b
    <2>3. /\ file' \in Seq(F) /\ DOMAIN file' = 1 .. Len(file) - 1
          /\ \A k \in 1 .. Len(file) - 1 : file'[k] = IF k < i THEN file[k] ELSE file[k + 1]
      <3>1. /\ a \o b \in Seq(F) /\ Len(a \o b) = Len(file) - 1 /\ Len(a) = i - 1
            /\ \A k \in 1 .. Len(a) + Len(b) :
                 (a \o b)[k] = IF k <= Len(a) THEN a[k] ELSE b[k - Len(a)]
        <4>1. /\ a \o b \in Seq(F) /\ Len(a \o b) = Len(a) + Len(b)
              /\ \A k \in 1 .. Len(a) + Len(b) :
                   (a \o b)[k] = IF k <= Len(a) THEN a[k] ELSE b[k - Len(a)]
          BY <2>1, ConcatProperties
        <4> QED
          BY <1>1, <1>4, <2>1, <4>1
      <3>2. DOMAIN (a \o b) = 1 .. Len(file) - 1
        BY <3>1, LenProperties
      <3>3. ASSUME NEW k \in 1 .. Len(file) - 1
            PROVE  (a \o b)[k] = IF k < i THEN file[k] ELSE file[k + 1]
        <4>1. CASE k < i
          BY <1>1, <1>4, <2>1, <3>1, <4>1
        <4>2. CASE ~ (k < i)
          <5>1. k - Len(a) \in 1 .. Len(file) - i /\ (k - Len(a)) + i = k + 1 /\ ~ (k <= Len(a))
            BY <1>1, <1>4, <2>1, <4>2
          <5>2. k \in 1 .. Len(a) + Len(b)
            BY <1>1, <1>4, <2>1
          <5>3. (a \o b)[k] = b[k - Len(a)]
            BY <3>1, <5>1, <5>2
          <5> QED
            BY <2>1, <4>2, <5>1, <5>3
        <4> QED
          BY <4>1, <4>2
      <3> QED
        BY <2>2, <3>1, <3>2, <3>3
    <2>4. ASSUME NEW k \in DOMAIN file', NEW l \in DOMAIN file', file'[k].name = file'[l].name
          PROVE  k = l
      <3> DEFINE At(x) == IF x < i THEN x ELSE x + 1
      <3>1. /\ At(k) \in DOMAIN file /\ file'[k] = file[At(k)]
            /\ At(l) \in DOMAIN file /\ file'[l] = file[At(l)]
        BY <1>1, <1>4, <2>3
      <3>2. At(k) = At(l)
        BY <1>1, <2>4, <3>1
      <3> QED
        BY <1>1, <1>4, <2>3, <3>2
    <2> QED
      BY <1>3, <2>3, <2>4
  <1>5. ASSUME NEW n \in Plugin \ Names(file), file' = Append(file, [name |-> n, on |-> TRUE])
        PROVE  Lines(file')
    <2> DEFINE l == [name |-> n, on |-> TRUE]
    <2>1. l \in F /\ l.name = n
      BY <1>2
    <2>2. file' = Append(file, l)
      BY <1>5
    <2>3. \A i \in DOMAIN file : file[i].name # n
      BY <1>5 DEF Names
    <2> HIDE DEF l
    <2>4. /\ file' \in Seq(F) /\ DOMAIN file' = 1 .. Len(file) + 1
          /\ file'[Len(file) + 1] = l /\ \A i \in DOMAIN file : file'[i] = file[i]
      BY <1>1, <2>1, <2>2
    <2>5. ASSUME NEW i \in DOMAIN file', NEW j \in DOMAIN file', file'[i].name = file'[j].name
          PROVE  i = j
      <3>1. (i \in DOMAIN file \/ i = Len(file) + 1) /\ (j \in DOMAIN file \/ j = Len(file) + 1)
        BY <1>1, <2>4
      <3> QED
        BY <1>1, <2>1, <2>3, <2>4, <2>5, <3>1
    <2> QED
      BY <1>3, <2>4, <2>5
  <1>6. ASSUME NEW i \in 1 .. Len(file) - 1,
               file' = [file EXCEPT ![i] = file[i + 1], ![i + 1] = file[i]]
        PROVE  Lines(file')
    <2> DEFINE At(x) == IF x = i THEN i + 1 ELSE IF x = i + 1 THEN i ELSE x
    <2>1. /\ file' \in Seq(F) /\ DOMAIN file' = DOMAIN file
          /\ \A x \in DOMAIN file : At(x) \in DOMAIN file /\ file'[x] = file[At(x)]
      BY <1>1, <1>6
    <2>2. ASSUME NEW x \in DOMAIN file', NEW y \in DOMAIN file', file'[x].name = file'[y].name
          PROVE  x = y
      <3>1. At(x) = At(y)
        BY <1>1, <2>1, <2>2
      <3> QED
        BY <1>1, <2>1, <3>1
    <2> QED
      BY <1>3, <2>1, <2>2
  <1> QED
    BY <1>4, <1>5, <1>6 DEF Meddle

-----------------------------------------------------------------------------
LEMMA OrderInit ==
  ASSUME LoadOrderAssumption, Init
  PROVE  OrderInv
  <1>1. Idle.list = <<>>
    BY DEF Idle
  <1>2. \A r \in Start : RowsSound(r)
    BY DEF LoadOrderAssumption, RowsSound
  <1> QED
    BY <1>1, <1>2, Empty DEF Init, OrderInv, Lists, RowsInv, LoadOrderAssumption

(* Rows for the plugins of a list, or of a part of it, are rows.            *)
LEMMA PersistedTyped ==
  ASSUME LoadOrderAssumption, NEW p, RowsSound(rows[p]),
         NEW list \in Seq(Line)
  PROVE  RowsSound(Persisted(p, list))
  <1> DEFINE r == Persisted(p, list)
  <1>1. Len(list) \in Nat /\ DOMAIN list = 1 .. Len(list) /\ \A i \in DOMAIN list : list[i] \in Line
    BY InSeq
  <1>2. r = [n \in DOMAIN rows[p] \cup Names(list) |->
               IF n \notin Names(list) THEN rows[p][n]
               ELSE [on |-> list[Place(list, n)].on, order |-> Place(list, n) - 1]]
    BY DEF Persisted
  <1>3. Names(list) \subseteq Plugin
    BY <1>1 DEF Names, Line
  <1>4. ASSUME NEW n \in Names(list)
        PROVE  [on |-> list[Place(list, n)].on, order |-> Place(list, n) - 1] \in [on : BOOLEAN, order : Nat]
    <2>1. Place(list, n) \in DOMAIN list
      BY Places
    <2>2. list[Place(list, n)].on \in BOOLEAN /\ Place(list, n) - 1 \in Nat
      BY <1>1, <2>1 DEF Line
    <2> QED
      BY <2>2
  <1> HIDE DEF r
  <1> QED
    BY <1>2, <1>3, <1>4 DEF RowsSound, r

LEMMA SaveWriteTyped ==
  ASSUME LoadOrderAssumption, OrderInv, SaveWrite \/ SaveStops
  PROVE  Lines(file') /\ RowsInv'
  <1> DEFINE p == saving.profile  list == saving.list
  <1>1. /\ p \in Profile /\ Window(list) /\ data \subseteq Plugin
        /\ DOMAIN rows = Profile /\ RowsSound(rows[p])
    BY DEF SaveWrite, SaveStops, OrderInv, Lists, RowsInv
  <1>2. /\ file' = Applied(list)
        /\ \/ rows' = [rows EXCEPT ![p] = Persisted(p, list)]
           \/ \E k \in 0 .. Len(list) - 1 :
                rows' = [rows EXCEPT ![p] = Persisted(p, SubSeq(list, 1, k))]
    BY DEF SaveWrite, SaveStops
  <1> HIDE DEF p, list
  <1>3. Lines(file')
    BY <1>1, <1>2, WindowIs, WritesTyped
  <1>4. list \in Seq(Line)
    BY <1>1 DEF Window
  <1>5. ASSUME NEW k \in 0 .. Len(list) - 1 PROVE SubSeq(list, 1, k) \in Seq(Line)
    BY <1>4, SubSeqProperties
  <1>6. PICK l \in Seq(Line) : rows' = [rows EXCEPT ![p] = Persisted(p, l)]
    BY <1>2, <1>4, <1>5
  <1> DEFINE r == Persisted(p, l)
  <1>7. RowsSound(r)
    BY <1>1, PersistedTyped
  <1>8. rows' = [rows EXCEPT ![p] = r]
    BY <1>6
  <1> HIDE DEF r
  <1>9. RowsInv'
    BY <1>1, <1>7, <1>8 DEF OrderInv, RowsInv
  <1> QED
    BY <1>3, <1>9

LEMMA SwitchTyped ==
  ASSUME LoadOrderAssumption, OrderInv, NEW p \in Profile, Switch(p)
  PROVE  Lines(file') /\ active' \in Profile \cup {None}
  <1>1. RowsSound(rows[p]) /\ data \subseteq Plugin /\ Lines(file)
    BY DEF OrderInv, Lists, RowsInv
  <1> DEFINE list == Recorded(p)
  <1>2. IsList(list) /\ Settings(list) /\ Distinct(NamesOf(list))
    BY <1>1, RecordedIs
  <1> HIDE DEF list
  <1>3. Lines(Applied(list)) /\ Lines(Seed(OnDisk(list)))
    BY <1>1, <1>2, WritesTyped
  <1> QED
    BY <1>1, <1>3 DEF Switch, list

LEMMA OrderStep ==
  ASSUME LoadOrderAssumption, OrderInv, [Next]_vars
  PROVE  OrderInv'
  <1> USE DEF OrderInv
  <1>1. CASE ListPlugins
    <2>1. active \in Profile /\ RowsSound(rows[active]) /\ data \subseteq Plugin
      BY <1>1 DEF ListPlugins, Lists, RowsInv
    <2>2. PICK locked : view' = Stamped(Merged(active), locked)
      BY <1>1 DEF ListPlugins
    <2>3. Window(view')
      BY <2>1, <2>2, StampedIs
    <2> QED
      BY <1>1, <2>3, Empty DEF ListPlugins, Lists, RowsInv
  <1>2. CASE Sort
    BY <1>2, SortTyped DEF Sort, Lists, RowsInv
  <1>3. CASE ApplySorted
    BY <1>3, ApplySortedTyped, Empty DEF ApplySorted, Lists, RowsInv
  <1>4. CASE SaveClick
    <2>1. active \in Profile /\ saving' = [profile |-> active, list |-> view]
      BY <1>4 DEF SaveClick, Lists
    <2>2. saving'.profile = active /\ saving'.list = view
      BY <2>1
    <2> QED
      BY <1>4, <2>1, <2>2 DEF SaveClick, Lists, RowsInv
  <1>5. CASE SaveWrite \/ SaveStops
    <2>1. saving' = Idle /\ Idle.list = <<>>
      BY <1>5 DEF SaveWrite, SaveStops, Idle
    <2> QED
      BY <1>5, <2>1, SaveWriteTyped, Empty DEF SaveWrite, SaveStops, Lists
  <1>6. CASE SaveFails
    <2>1. saving' = Idle /\ Idle.list = <<>>
      BY <1>6 DEF SaveFails, Idle
    <2>2. Lines(file')
      <3> DEFINE list == saving.list
      <3>1. Window(list) /\ data \subseteq Plugin
        BY DEF Lists
      <3>2. file' \in {file, Seed(OnDisk(list))}
        BY <1>6 DEF SaveFails
      <3> HIDE DEF list
      <3>3. Lines(Seed(OnDisk(list)))
        BY <3>1, WindowIs, WritesTyped
      <3> QED
        BY <3>2, <3>3 DEF Lists
    <2> QED
      BY <1>6, <2>1, <2>2, Empty DEF SaveFails, Lists, RowsInv
  <1>7. CASE Redeploy
    BY <1>7 DEF Redeploy, Lists, RowsInv
  <1>8. CASE Meddle
    BY <1>8, MeddleTyped DEF Meddle, Lists, RowsInv
  <1>9. ASSUME NEW n \in Plugin, Toggle(n) PROVE OrderInv'
    BY <1>9, ToggleTyped DEF Toggle, Lists
  <1>10. ASSUME NEW i \in DOMAIN view, Move(i) PROVE OrderInv'
    BY <1>10, MoveTyped DEF Move, Lists, RowsInv
  <1>11. ASSUME NEW p \in Profile, Switch(p) PROVE OrderInv'
    BY <1>11, SwitchTyped DEF Switch, Lists, RowsInv
  <1>12. CASE UNCHANGED vars
    BY <1>12 DEF vars, Lists, RowsInv
  <1> QED
    BY <1>1, <1>2, <1>3, <1>4, <1>5, <1>6, <1>7, <1>8, <1>9, <1>10, <1>11, <1>12 DEF Next

(* Every list the window, LOOT, the commands and the file pass around names *)
(* plugins of the game, and the file and the three a save is made of name   *)
(* none twice.                                                             *)
THEOREM ListsAreSound == Spec => []OrderInv
  <1>1. Init => OrderInv
    BY OrderInit, LoadOrderAssumption
  <1>2. OrderInv /\ [Next]_vars => OrderInv'
    BY OrderStep, LoadOrderAssumption
  <1> QED
    BY <1>1, <1>2, PTL DEF Spec

-----------------------------------------------------------------------------
(* The verdict on the file.                                                *)

(* Two plugins in the order a profile's rows intend.                       *)
Earlier(r, x, y) ==
  \/ x \in Master /\ y \notin Master
  \/ (x \in Master <=> y \in Master) /\ Ranks(r, x, y)

(* A list of what the rows enable, in their order, is what they intend.     *)
LEMMA IntendedList ==
  ASSUME LoadOrderAssumption, NEW p, RowsSound(rows[p]), NEW S, NEW s, IsList(s),
         ToSet(s) = Enabled(p) \cap S,
         \A x, y : Goes(s, x, y) => Earlier(rows[p], x, y)
  PROVE  s = Intended(p, rows, S)
  <1> DEFINE E == Enabled(p) \cap S
             Before(a, b) ==
               \/ a \in Master /\ b \notin Master
               \/ /\ a \in Master <=> b \in Master
                  /\ \/ rows[p][a].order < rows[p][b].order
                     \/ rows[p][a].order = rows[p][b].order /\ a < b
             R == {ab \in E \X E : Before(ab[1], ab[2])}
  <1>1. Intended(p, rows, S) = Sorted(E, R)
    <2>1. {n \in DOMAIN rows[p] \cap S : rows[p][n].on} = E
      BY DEF Enabled
    <2> QED
      BY <2>1 DEF Intended
  <1>2. \A x, y \in E : <<x, y>> \in R <=> Before(x, y)
    OBVIOUS
  <1>3. \A x \in E : x \in Nat /\ rows[p][x].order \in Nat
    BY DEF Enabled, RowsSound, LoadOrderAssumption
  <1>4. ToSet(s) = E
    OBVIOUS
  <1> HIDE DEF R, E
  <1>5. Asymmetric(R, E)
    <2> SUFFICES ASSUME NEW x \in E, NEW y \in E, Before(x, y), Before(y, x) PROVE FALSE
      BY <1>2 DEF Asymmetric
    <2> QED
      BY <1>3
  <1>6. ASSUME NEW x, NEW y, Goes(s, x, y) PROVE <<x, y>> \in R
    <2>1. x \in E /\ y \in E
      BY <1>4, <1>6 DEF Goes, ToSet
    <2> QED
      BY <1>2, <1>6, <2>1 DEF Earlier, Ranks
  <1> QED
    BY <1>1, <1>4, <1>5, <1>6, SortedIs

(* What the verdict compares: the lines D that activate and the enabled     *)
(* plugins W, of which none is among the locked.                           *)
Verdict(p, D, W) ==
  \E locked :
    /\ locked \cap Enabled(p) = {}
    /\ Drift(p) = {n \in ToSet(D) : n \notin ToSet(W) \cup locked}
                  \cup (ToSet(W) \ ToSet(D))
                  \cup (IF Among(D, ToSet(W)) # Among(W, ToSet(D))
                        THEN ToSet(W) \cap ToSet(D) ELSE {})

LEMMA DriftIs ==
  ASSUME LoadOrderAssumption, OrderInv, NEW p \in Profile
  PROVE  LET D == ActiveLines(file)  W == ActiveLines(Recorded(p)) IN
         /\ RowsSound(rows[p]) /\ IsList(file) /\ Distinct(NamesOf(file))
         /\ IsList(D) /\ IsList(W) /\ ToSet(W) = Enabled(p)
         /\ \A n : n \in ToSet(D) <=> \E i \in DOMAIN file : file[i].name = n /\ file[i].on
         /\ \A x, y : Goes(D, x, y) => Goes(NamesOf(file), x, y)
         /\ \A x, y : Goes(W, x, y) => Ranks(rows[p], x, y)
         /\ Verdict(p, D, W)
  <1> DEFINE D == ActiveLines(file)  W == ActiveLines(Recorded(p))
             locked == Protected(file, Enabled(p))  wanted == Among(W, Plugin \ locked)
  <1>1. RowsSound(rows[p])
    BY DEF OrderInv, RowsInv
  <1>2. IsList(file) /\ Distinct(NamesOf(file))
    BY InSeq DEF OrderInv, Lists, Lines
  <1>3. /\ IsList(D)
        /\ \A n : n \in ToSet(D) <=> \E i \in DOMAIN file : file[i].name = n /\ file[i].on
        /\ \A x, y : Goes(D, x, y) => Goes(NamesOf(file), x, y)
    BY <1>2, ActiveAre
  <1>4. IsList(W) /\ ToSet(W) = Enabled(p) /\ \A x, y : Goes(W, x, y) => Ranks(rows[p], x, y)
    <2> DEFINE c == Recorded(p)
    <2>1. /\ IsList(c)
          /\ \A n : n \in Enabled(p) <=> \E i \in DOMAIN c : c[i].name = n /\ c[i].on
          /\ \A x, y : Goes(NamesOf(c), x, y) => Ranks(rows[p], x, y)
      BY <1>1, RecordedIs
    <2> HIDE DEF c
    <2>2. /\ IsList(ActiveLines(c))
          /\ \A n : n \in ToSet(ActiveLines(c)) <=> \E i \in DOMAIN c : c[i].name = n /\ c[i].on
          /\ \A x, y : Goes(ActiveLines(c), x, y) => Goes(NamesOf(c), x, y)
      BY <2>1, ActiveAre
    <2>3. ASSUME NEW n PROVE n \in ToSet(ActiveLines(c)) <=> n \in Enabled(p)
      BY <2>1, <2>2, Zenon
    <2> QED
      BY <2>1, <2>2, <2>3 DEF c
  <1>5. Enabled(p) \subseteq Plugin \ locked
    BY <1>1 DEF Enabled, Protected, RowsSound
  <1>6. locked \cap Enabled(p) = {}
    BY DEF Protected
  <1>7. Drift(p) = {n \in ToSet(D) : n \notin ToSet(wanted) \cup locked}
                   \cup (ToSet(wanted) \ ToSet(D))
                   \cup (IF Among(D, ToSet(wanted)) # Among(wanted, ToSet(D))
                         THEN ToSet(wanted) \cap ToSet(D) ELSE {})
    BY DEF Drift
  <1> HIDE DEF D, W, locked
  <1>8. wanted = W
    BY <1>4, <1>5, AmongAll
  <1> HIDE DEF wanted
  <1>9. Drift(p) = {n \in ToSet(D) : n \notin ToSet(W) \cup locked}
                   \cup (ToSet(W) \ ToSet(D))
                   \cup (IF Among(D, ToSet(W)) # Among(W, ToSet(D))
                         THEN ToSet(W) \cap ToSet(D) ELSE {})
    BY <1>7, <1>8
  <1>10. Verdict(p, D, W)
    BY <1>6, <1>9 DEF Verdict
  <1> QED
    BY <1>1, <1>2, <1>3, <1>4, <1>10 DEF D, W

LEMMA InSyncIs ==
  ASSUME LoadOrderAssumption, OrderInv
  PROVE  InSyncIsLoaded
  <1> SUFFICES ASSUME NEW p \in Profile, Drift(p) = {}
               PROVE  Among(Loaded(file), (Active(file) \cap Enabled(p)) \ Early)
                        = Intended(p, rows, data \ Early)
    BY DEF InSyncIsLoaded
  <1> DEFINE D == ActiveLines(file)  W == ActiveLines(Recorded(p))  N == NamesOf(file)
             c == Loaded(file)  S == (Active(file) \cap Enabled(p)) \ Early  A == Among(c, S)
             r == rows[p]
  <1>1. /\ RowsSound(r) /\ IsList(file) /\ Distinct(N)
        /\ IsList(D) /\ IsList(W) /\ ToSet(W) = Enabled(p)
        /\ \A n : n \in ToSet(D) <=> \E i \in DOMAIN file : file[i].name = n /\ file[i].on
        /\ \A x, y : Goes(D, x, y) => Goes(N, x, y)
        /\ \A x, y : Goes(W, x, y) => Ranks(r, x, y)
    BY DriftIs
  <1>2. /\ ToSet(W) \subseteq ToSet(D)
        /\ ToSet(W) \cap ToSet(D) # {} => Among(D, ToSet(W)) = Among(W, ToSet(D))
    <2>1. Verdict(p, D, W)
      BY DriftIs
    <2> HIDE DEF D, W
    <2> QED
      BY <2>1 DEF Verdict
  <1>3. IsList(N) /\ data \subseteq Plugin
    BY <1>1, NamesAre DEF OrderInv, Lists
  <1>4. IsList(c) /\ ToSet(c) = data /\ \A x, y : Goes(c, x, y) => LoadsAhead(file, x, y)
    BY <1>1, <1>3, LoadOf
  <1>5. \A n : n \in ToSet(D) => n \in Names(file)
    BY <1>1 DEF Names
  <1>6. \A n \in data : n \in ToSet(D) => n \in Active(file)
    BY <1>1 DEF Active, ToSet
  <1> HIDE DEF D, W, N, c
  <1>7. IsList(A) /\ ToSet(A) = data \cap S /\ \A x, y : Goes(A, x, y) => Goes(c, x, y)
    BY <1>4, AmongLists
  <1>8. ToSet(A) = Enabled(p) \cap (data \ Early)
    BY <1>1, <1>2, <1>6, <1>7
  <1> HIDE DEF A, S
  <1>9. ASSUME NEW x \in Enabled(p), NEW y \in Enabled(p), Goes(N, x, y) PROVE Ranks(r, x, y)
    <2>1. ~ Goes(N, y, x) /\ x # y
      BY <1>1, <1>3, <1>9, OneWay DEF Distinct
    <2>2. ~ Goes(D, y, x)
      BY <1>1, <2>1
    <2>3. Among(D, ToSet(W)) = Among(W, ToSet(D)) /\ Among(W, ToSet(D)) = W
      BY <1>1, <1>2, AmongAll
    <2>4. \A u, v : Goes(W, u, v) => Goes(D, u, v)
      BY <1>1, <2>3, AmongLists
    <2>5. PICK i, j \in DOMAIN W : W[i] = x /\ W[j] = y
      BY <1>1 DEF ToSet
    <2>6. i < j \/ j < i
      BY <1>1, <2>1, <2>5, ListIs
    <2>7. Goes(W, x, y)
      BY <2>2, <2>4, <2>5, <2>6 DEF Goes
    <2> QED
      BY <1>1, <2>7
  <1>10. ASSUME NEW x, NEW y, Goes(A, x, y) PROVE Earlier(r, x, y)
    <2>1. x \in ToSet(A) /\ y \in ToSet(A)
      BY <1>10 DEF Goes, ToSet
    <2>2. /\ x \in Enabled(p) /\ x \in Names(file) /\ x \notin Early
          /\ y \in Enabled(p) /\ y \in Names(file) /\ y \notin Early
      BY <1>1, <1>2, <1>5, <1>8, <2>1
    <2>3. LoadsAhead(file, x, y)
      BY <1>4, <1>7, <1>10
    <2> QED
      BY <1>9, <2>2, <2>3 DEF LoadsAhead, Earlier, N
  <1>11. A = Intended(p, rows, data \ Early)
    BY <1>1, <1>7, <1>8, <1>10, IntendedList
  <1> QED
    BY <1>11 DEF A, S, c

(* When reconcile_plugins_txt calls the file in sync, however it came about *)
(* - a save, a failed one, a switch, the game, another tool, a deployment - *)
(* libloot loads from it what the profile has enabled and is installed, in  *)
(* the order of the profile's rows.                                        *)
THEOREM InSyncIsWhatLoads == Spec => []InSyncIsLoaded
  <1>1. OrderInv => InSyncIsLoaded
    BY InSyncIs, LoadOrderAssumption
  <1> QED
    BY <1>1, ListsAreSound, PTL

-----------------------------------------------------------------------------
(* What is written.                                                        *)

(* What the rows say of a list once they are persisted from it.             *)
LEMMA SaveRows ==
  ASSUME LoadOrderAssumption, OrderInv, SaveWrite,
         NEW q, q = rows'[saving.profile]
  PROVE  LET list == saving.list  S == (data \ Early) \cap Names(list) IN
         /\ saving.profile \in Profile /\ data \subseteq Plugin
         /\ IsList(list) /\ Settings(list) /\ Distinct(NamesOf(list))
         /\ {n \in DOMAIN q \cap S : q[n].on} = Chosen(list)
         /\ \A n \in Chosen(list) : n \in DOMAIN q /\ q[n].on /\ q[n].order \in Nat
         /\ \A x, y \in Chosen(list) : Goes(NamesOf(list), x, y) => Ranks(q, x, y)
  <1> DEFINE p == saving.profile  list == saving.list  S == (data \ Early) \cap Names(list)
  <1>1. /\ p \in Profile /\ Window(list) /\ data \subseteq Plugin /\ DOMAIN rows = Profile
    BY DEF SaveWrite, OrderInv, Lists, RowsInv
  <1>2. q = Persisted(p, list)
    BY <1>1 DEF SaveWrite
  <1> HIDE DEF p, list
  <1>3. /\ IsList(list) /\ Settings(list) /\ Distinct(NamesOf(list))
        /\ Len(list) \in Nat /\ DOMAIN list = 1 .. Len(list)
        /\ \A i, j \in DOMAIN list : list[i].name = list[j].name => i = j
    BY <1>1, WindowIs
  <1>4. /\ Names(list) \subseteq DOMAIN q
        /\ \A n \in Names(list) : q[n] = [on |-> list[Place(list, n)].on, order |-> Place(list, n) - 1]
    BY <1>2 DEF Persisted
  <1>5. \A n \in Names(list) : /\ Place(list, n) \in DOMAIN list /\ list[Place(list, n)].name = n
    BY Places
  <1>6. ASSUME NEW n \in Names(list)
        PROVE  /\ q[n].order = Place(list, n) - 1 /\ Place(list, n) \in 1 .. Len(list)
               /\ q[n].on = list[Place(list, n)].on
    <2> DEFINE k == Place(list, n)  on == list[k].on
    <2>1. q[n] = [on |-> on, order |-> k - 1] /\ k \in 1 .. Len(list)
      BY <1>3, <1>4, <1>5
    <2> HIDE DEF k, on
    <2>2. q[n].order = k - 1 /\ q[n].on = on
      BY <2>1
    <2> QED
      BY <2>1, <2>2 DEF k, on
  <1>7. ASSUME NEW n \in Names(list), NEW i \in DOMAIN list, list[i].name = n
        PROVE  Place(list, n) = i
    BY <1>3, <1>5, <1>7
  <1>8. {n \in DOMAIN q \cap S : q[n].on} = Chosen(list)
    <2>1. ASSUME NEW n \in DOMAIN q \cap S, q[n].on PROVE n \in Chosen(list)
      <3>1. /\ Place(list, n) \in DOMAIN list /\ list[Place(list, n)].name = n
            /\ list[Place(list, n)].on = q[n].on
        BY <1>5, <1>6
      <3>2. list[Place(list, n)].on \in BOOLEAN
        BY <1>3, <3>1 DEF Settings
      <3>3. list[Place(list, n)].on = TRUE
        BY <2>1, <3>1, <3>2, Zenon
      <3> QED
        BY <3>1, <3>3 DEF Chosen
    <2>2. ASSUME NEW n \in Chosen(list) PROVE n \in DOMAIN q \cap S /\ q[n].on
      <3>1. PICK i \in DOMAIN list : list[i].name = n /\ list[i].on = TRUE
        BY DEF Chosen
      <3>2. n \in Names(list) /\ n \in data \ Early
        BY <3>1 DEF Names, Chosen
      <3>3. q[n].on = TRUE
        BY <1>6, <1>7, <3>1, <3>2
      <3>4. q[n].on
        BY <3>3, Zenon
      <3> QED
        BY <1>4, <3>2, <3>4
    <2>3. \A n : n \in {m \in DOMAIN q \cap S : q[m].on} <=> n \in DOMAIN q \cap S /\ q[n].on
      OBVIOUS
    <2> QED
      BY <2>1, <2>2, <2>3
  <1>9. \A n \in Chosen(list) : n \in Names(list)
    BY DEF Chosen, Names
  <1>10. \A n \in Chosen(list) : q[n].order \in Nat
    BY <1>3, <1>6, <1>9
  <1>11. ASSUME NEW x \in Chosen(list), NEW y \in Chosen(list), Goes(NamesOf(list), x, y)
         PROVE  Ranks(q, x, y)
    <2>1. DOMAIN NamesOf(list) = DOMAIN list /\ \A i \in DOMAIN list : NamesOf(list)[i] = list[i].name
      BY <1>3, NamesAre
    <2>2. PICK i, j \in DOMAIN list : i < j /\ list[i].name = x /\ list[j].name = y
      BY <1>11, <2>1 DEF Goes
    <2>3. Place(list, x) = i /\ Place(list, y) = j
      BY <1>7, <1>9, <2>2
    <2>4. q[x].order = i - 1 /\ q[y].order = j - 1
      BY <1>6, <1>9, <2>3
    <2> QED
      BY <1>3, <2>2, <2>4 DEF Ranks
  <1>12. \A n \in Chosen(list) : n \in DOMAIN q /\ q[n].on
    BY <1>8
  <1> QED
    BY <1>1, <1>3, <1>8, <1>10, <1>11, <1>12 DEF p, list

LEMMA SaveIntended ==
  ASSUME LoadOrderAssumption, OrderInv, SaveWrite
  PROVE  Users(file') = Intended(saving.profile, rows', (data \ Early) \cap Names(saving.list))
  <1> DEFINE p == saving.profile  list == saving.list  r == rows'  q == r[p]
             S == (data \ Early) \cap Names(list)
  <1>1. /\ data \subseteq Plugin /\ IsList(list) /\ Settings(list) /\ Distinct(NamesOf(list))
        /\ {n \in DOMAIN q \cap S : q[n].on} = Chosen(list)
        /\ \A n \in Chosen(list) : n \in DOMAIN q /\ q[n].on /\ q[n].order \in Nat
        /\ \A x, y \in Chosen(list) : Goes(NamesOf(list), x, y) => Ranks(q, x, y)
    BY SaveRows
  <1>2. file' = Applied(list)
    BY DEF SaveWrite
  <1> HIDE DEF p, list, r, S
  <1>3. Users(Applied(list)) = Intended(p, r, S)
    BY <1>1, IntendedIs
  <1> QED
    BY <1>2, <1>3 DEF p, list, r, S

(* What a profile's rows say of the list they are read as.                  *)
LEMMA SwitchRows ==
  ASSUME LoadOrderAssumption, OrderInv, NEW p \in Profile
  PROVE  LET list == Recorded(p)  r == rows[p] IN
         /\ data \subseteq Plugin /\ RowsSound(r)
         /\ IsList(list) /\ Settings(list) /\ Distinct(NamesOf(list))
         /\ {n \in DOMAIN r \cap (data \ Early) : r[n].on} = Chosen(list)
         /\ \A n \in Chosen(list) : n \in DOMAIN r /\ r[n].on /\ r[n].order \in Nat
         /\ \A x, y : Goes(NamesOf(list), x, y) => Ranks(r, x, y)
  <1> DEFINE list == Recorded(p)  r == rows[p]  S == data \ Early
  <1>2. RowsSound(r) /\ data \subseteq Plugin
    BY DEF OrderInv, Lists, RowsInv
  <1>3. /\ IsList(list) /\ Settings(list) /\ Distinct(NamesOf(list))
        /\ \A n : n \in Enabled(p) <=> \E i \in DOMAIN list : list[i].name = n /\ list[i].on
        /\ \A x, y : Goes(NamesOf(list), x, y) => Ranks(r, x, y)
    BY <1>2, RecordedIs
  <1> HIDE DEF list
  <1>4. ASSUME NEW n PROVE n \in Chosen(list) <=> n \in Enabled(p) /\ n \in data \ Early
    <2>1. ASSUME NEW i \in DOMAIN list PROVE list[i].on <=> list[i].on = TRUE
      <3>1. list[i].on \in BOOLEAN
        BY <1>3 DEF Settings
      <3> QED
        BY <3>1, Zenon
    <2>2. (\E i \in DOMAIN list : list[i].name = n /\ list[i].on)
            <=> (\E i \in DOMAIN list : list[i].name = n /\ list[i].on = TRUE)
      BY <2>1, Zenon
    <2> QED
      BY <1>3, <2>2 DEF Chosen
  <1>5. \A n \in Chosen(list) : n \in DOMAIN r /\ r[n].on /\ r[n].order \in Nat
    BY <1>2, <1>4 DEF Enabled, RowsSound
  <1>6. {n \in DOMAIN r \cap S : r[n].on} = Chosen(list)
    <2>1. \A n : n \in Enabled(p) <=> n \in DOMAIN r /\ r[n].on
      BY DEF Enabled
    <2>2. \A n : n \in {m \in DOMAIN r \cap S : r[m].on} <=> n \in DOMAIN r \cap S /\ r[n].on
      OBVIOUS
    <2>3. ASSUME NEW n PROVE n \in {m \in DOMAIN r \cap S : r[m].on} <=> n \in Chosen(list)
      BY <1>4, <2>1, <2>2
    <2> QED
      BY <2>3
  <1> QED
    BY <1>2, <1>3, <1>5, <1>6 DEF list

LEMMA SwitchIntended ==
  ASSUME LoadOrderAssumption, OrderInv, NEW p \in Profile, active' = p, Switch(p)
  PROVE  Users(file') = Intended(p, rows', data \ Early)
  <1> DEFINE list == Recorded(p)  S == data \ Early
  <1>1. file' = Applied(list) /\ rows' = rows
    BY DEF Switch, LoadOrderAssumption
  <1>2. /\ data \subseteq Plugin /\ IsList(list) /\ Settings(list) /\ Distinct(NamesOf(list))
        /\ {n \in DOMAIN rows[p] \cap S : rows[p][n].on} = Chosen(list)
        /\ \A n \in Chosen(list) : rows[p][n].order \in Nat
        /\ \A x, y \in Chosen(list) : Goes(NamesOf(list), x, y) => Ranks(rows[p], x, y)
    BY SwitchRows
  <1> HIDE DEF list, S
  <1>3. Users(Applied(list)) = Intended(p, rows, S)
    BY <1>2, IntendedIs
  <1> QED
    BY <1>1, <1>3 DEF S

(* Whenever save_plugin_order or switch_profile has written plugins.txt,    *)
(* what it activates of the user's plugins is what the rows of that profile *)
(* say, no more and no less, in their order: also when plugins have come    *)
(* and gone since the list was shown, when the window's order was LOOT's,   *)
(* and when another profile has become active between the two locks.        *)
THEOREM TheFileSaysTheRows == Spec => WrittenIsRecorded
  <1>1. OrderInv /\ [Next]_vars
          => [/\ SaveWrite => Users(file') = Intended(saving.profile, rows',
                                                (data \ Early) \cap Names(saving.list))
              /\ \A p \in Profile : active' = p /\ Switch(p) =>
                   Users(file') = Intended(p, rows', data \ Early)]_vars
    BY SaveIntended, SwitchIntended, LoadOrderAssumption
  <1> QED
    BY <1>1, ListsAreSound, PTL DEF Spec, WrittenIsRecorded

-----------------------------------------------------------------------------
(* Until something changes, what was written is what the rows say.          *)

FreshInv == fresh # None =>
  /\ fresh \in Profile
  /\ ToSet(ActiveLines(file)) \subseteq Enabled(fresh)
  /\ \A x, y : Goes(ActiveLines(file), x, y) => Earlier(rows[fresh], x, y)

LEMMA FreshStep ==
  ASSUME LoadOrderAssumption, OrderInv, FreshInv, [Next]_vars
  PROVE  FreshInv'
  <1>1. ASSUME fresh' = fresh, file' = file, rows' = rows PROVE FreshInv'
    BY <1>1 DEF FreshInv, Enabled, ActiveLines, NamesOf, Kept, Earlier, Ranks
  <1>2. CASE fresh' = None
    BY <1>2 DEF FreshInv
  <1>3. ASSUME NEW list, IsList(list), Settings(list), Distinct(NamesOf(list)), data \subseteq Plugin,
               NEW p \in Profile, NEW q, q = rows'[p],
               \A n \in Chosen(list) : n \in DOMAIN q /\ q[n].on,
               \A x, y \in Chosen(list) : Goes(NamesOf(list), x, y) => Ranks(q, x, y),
               file' = Applied(list), fresh' = p
        PROVE  FreshInv'
    <2>1. /\ ToSet(ActiveLines(file')) = Chosen(list)
          /\ \A x, y : Goes(ActiveLines(file'), x, y) => Ahead(list, x, y)
      BY <1>3, AppliedIs
    <2>2. ToSet(ActiveLines(file')) \subseteq {n \in DOMAIN q : q[n].on}
      BY <1>3, <2>1
    <2>3. ASSUME NEW x, NEW y, Goes(ActiveLines(file'), x, y) PROVE Earlier(q, x, y)
      <3>1. x \in Chosen(list) /\ y \in Chosen(list)
        BY <2>1, <2>3 DEF Goes, ToSet
      <3> QED
        BY <1>3, <2>1, <2>3, <3>1 DEF Ahead, Earlier
    <2>4. Enabled(fresh)' = {n \in DOMAIN q : q[n].on}
      BY <1>3 DEF Enabled
    <2> QED
      BY <1>3, <2>2, <2>3, <2>4 DEF FreshInv
  <1>4. CASE SaveWrite
    <2> DEFINE list == saving.list  p == saving.profile  q == rows'[p]
    <2>1. /\ p \in Profile /\ data \subseteq Plugin
          /\ IsList(list) /\ Settings(list) /\ Distinct(NamesOf(list))
          /\ \A n \in Chosen(list) : n \in DOMAIN q /\ q[n].on
          /\ \A x, y \in Chosen(list) : Goes(NamesOf(list), x, y) => Ranks(q, x, y)
      BY <1>4, SaveRows
    <2>2. file' = Applied(list) /\ fresh' = p
      BY <1>4 DEF SaveWrite
    <2> HIDE DEF list, p
    <2> QED
      BY <1>3, <2>1, <2>2
  <1>5. ASSUME NEW p \in Profile, Switch(p), fresh' # None PROVE FreshInv'
    <2> DEFINE list == Recorded(p)  q == rows[p]
    <2>1. file' = Applied(list) /\ fresh' = p /\ q = rows'[p]
      BY <1>5 DEF Switch
    <2>2. /\ data \subseteq Plugin
          /\ IsList(list) /\ Settings(list) /\ Distinct(NamesOf(list))
          /\ \A n \in Chosen(list) : n \in DOMAIN q /\ q[n].on
          /\ \A x, y \in Chosen(list) : Goes(NamesOf(list), x, y) => Ranks(q, x, y)
      BY SwitchRows
    <2> HIDE DEF list, q
    <2> QED
      BY <1>3, <2>1, <2>2
  <1>6. \/ fresh' = fresh /\ file' = file /\ rows' = rows
        \/ fresh' = None
        \/ SaveWrite
        \/ \E p \in Profile : Switch(p)
    BY DEF Next, vars, ListPlugins, Toggle, Move, Sort, ApplySorted, SaveClick, SaveFails,
           SaveStops, Redeploy, Meddle
  <1> QED
    BY <1>1, <1>2, <1>4, <1>5, <1>6

LEMMA CalmIs ==
  ASSUME LoadOrderAssumption, OrderInv, FreshInv
  PROVE  WrittenIsInSync
  <1> SUFFICES ASSUME fresh # None
               PROVE  /\ Drift(fresh) \subseteq Enabled(fresh)
                      /\ MastersAhead(fresh) => Drift(fresh) \cap ToSet(ActiveLines(file)) = {}
    BY DEF WrittenIsInSync
  <1> DEFINE p == fresh  r == rows[p]  D == ActiveLines(file)  W == ActiveLines(Recorded(p))
  <1>1. /\ p \in Profile /\ ToSet(D) \subseteq Enabled(p)
        /\ \A x, y : Goes(D, x, y) => Earlier(r, x, y)
    BY DEF FreshInv
  <1>2. /\ RowsSound(r) /\ IsList(D) /\ IsList(W) /\ ToSet(W) = Enabled(p)
        /\ \A x, y : Goes(W, x, y) => Ranks(r, x, y)
    BY <1>1, DriftIs
  <1>3. Verdict(p, D, W)
    BY <1>1, DriftIs
  <1> HIDE DEF D, W, p
  <1>4. Drift(p) \subseteq Enabled(p)
    BY <1>1, <1>2, <1>3 DEF Verdict
  <1>5. ASSUME MastersAhead(p) PROVE Among(D, ToSet(W)) = Among(W, ToSet(D))
    <2> DEFINE S == ToSet(D)  B == Among(W, S)
               Q == {xy \in S \X S : Ranks(r, xy[1], xy[2])}
    <2>1. Among(D, ToSet(W)) = D
      BY <1>1, <1>2, AmongAll
    <2>2. IsList(B) /\ ToSet(B) = S /\ \A x, y : Goes(B, x, y) => Goes(W, x, y) /\ x \in S /\ y \in S
      <3>1. S \subseteq ToSet(W)
        BY <1>1, <1>2
      <3> HIDE DEF S
      <3>2. /\ IsList(B) /\ ToSet(B) = ToSet(W) \cap S
            /\ \A x, y : Goes(B, x, y) => Goes(W, x, y) /\ {x, y} \subseteq ToSet(W) \cap S
        BY <1>2, AmongLists
      <3> QED
        BY <3>1, <3>2
    <2>3. \A x \in S : x \in Nat /\ r[x].order \in Nat
      BY <1>1, <1>2 DEF Enabled, RowsSound, LoadOrderAssumption
    <2>4. Asymmetric(Q, S)
      <3> HIDE DEF S
      <3> QED
        BY <2>3 DEF Asymmetric, Ranks
    <2>5. ASSUME NEW x, NEW y, Goes(D, x, y) PROVE <<x, y>> \in Q
      <3>1. x \in S /\ y \in S
        BY <2>5 DEF Goes, ToSet
      <3>2. Earlier(r, x, y)
        BY <1>1, <2>5
      <3>3. CASE x \in Master /\ y \notin Master
        BY <1>1, <1>5, <3>1, <3>3 DEF MastersAhead, Ranks
      <3>4. CASE Ranks(r, x, y)
        BY <3>1, <3>4
      <3> QED
        BY <3>2, <3>3, <3>4 DEF Earlier
    <2>6. \A x, y : Goes(B, x, y) => <<x, y>> \in Q
      BY <1>2, <2>2
    <2> HIDE DEF B, Q
    <2>7. D = B
      BY <1>2, <2>2, <2>4, <2>5, <2>6, OneOrder
    <2> QED
      BY <2>1, <2>7 DEF B
  <1>6. ASSUME MastersAhead(p) PROVE Drift(p) \cap ToSet(D) = {}
    BY <1>1, <1>2, <1>3, <1>5, <1>6 DEF Verdict
  <1> QED
    BY <1>4, <1>6 DEF p, D

(* What a save or a switch has written is no drift while the file, the rows *)
(* and the plugins stay as they are, but for enabled plugins that have no   *)
(* line in it, and unless the rows have a plugin ahead of a master.         *)
THEOREM TheFileIsNoDrift == Spec => []WrittenIsInSync
  <1>1. Init => FreshInv
    BY DEF Init, FreshInv
  <1>2. OrderInv /\ FreshInv /\ [Next]_vars => FreshInv'
    BY FreshStep, LoadOrderAssumption
  <1>3. OrderInv /\ FreshInv => WrittenIsInSync
    BY CalmIs, LoadOrderAssumption
  <1> QED
    BY <1>1, <1>2, <1>3, ListsAreSound, PTL DEF Spec

=============================================================================
