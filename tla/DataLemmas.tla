----------------------------- MODULE DataLemmas -----------------------------
(***************************************************************************)
(* What the operators of the community modules do to data, for every set,  *)
(* sequence and function: facts about folds, sums and lists that the       *)
(* proofs of several components need.                                      *)
(*                                                                         *)
(* A fold is defined with CHOOSE over functions that satisfy a recursion.  *)
(* To reason about it one shows that such a function exists, by induction, *)
(* and then that the fold is one.                                          *)
(***************************************************************************)
EXTENDS Naturals, Integers, Sequences, FiniteSets, SequencesExt, FiniteSetTheorems, TLAPS

-----------------------------------------------------------------------------
(* Induction, and recursion over finite sets.                              *)

(* A set of numbers that is not empty has a least one. The induction       *)
(* theorems of the library take an operator; this takes a set, and the     *)
(* inductions of these proofs rest on it.                                  *)
LEMMA LeastNumber ==
  ASSUME NEW T \in SUBSET Nat, T # {}
  PROVE  \E x \in T : \A y \in T : x <= y
<1> DEFINE R == OpToRel(<, Nat)
<1>1. IsWellFoundedOn(R, Nat)
  BY NatLessThanWellFounded
<1>2. PICK x \in T : \A y \in T : ~(<<y, x>> \in R)
  <2> HIDE DEF R
  <2>1. T \subseteq Nat
    OBVIOUS
  <2> QED BY <1>1, <2>1, WFMin
<1>3. \A y \in Nat : y < x => <<y, x>> \in R
  BY DEF OpToRel
<1> HIDE DEF R
<1>4. \A y \in T : ~(y < x)
  BY <1>2, <1>3
<1> QED BY <1>4

(* Induction over the subsets of a finite set.                             *)
LEMMA SubsetInduction ==
  ASSUME NEW D, IsFiniteSet(D), NEW T,
         \A s \in SUBSET D : (\A u \in SUBSET s : u # s => u \in T) => s \in T
  PROVE  SUBSET D \subseteq T
<1> SUFFICES ASSUME NEW s0 \in SUBSET D, s0 \notin T PROVE FALSE
  OBVIOUS
<1> DEFINE N == {n \in Nat : \E s \in SUBSET D : s \notin T /\ Cardinality(s) = n}
<1>1. \A s \in SUBSET D : IsFiniteSet(s) /\ Cardinality(s) \in Nat
  BY FS_Subset, FS_CardinalityType
<1>2. N # {} /\ N \in SUBSET Nat
  BY <1>1
<1>3. PICK n \in N : \A m \in N : n <= m
  <2> HIDE DEF N
  <2> QED BY <1>2, LeastNumber
<1>4. PICK s \in SUBSET D : s \notin T /\ Cardinality(s) = n
  BY <1>3
<1>5. PICK u \in SUBSET s : u # s /\ u \notin T
  BY <1>4
<1>6. Cardinality(u) <= Cardinality(s) /\ Cardinality(u) # Cardinality(s)
  BY <1>1, <1>5, FS_Subset
<1>7. Cardinality(u) \in N
  BY <1>1, <1>4, <1>5
<1> QED BY <1>1, <1>3, <1>4, <1>6, <1>7

(* Induction over the numbers, for a set.                                  *)
LEMMA NatInductionOn ==
  ASSUME NEW T, 0 \in T, \A n \in Nat : n \in T => n + 1 \in T
  PROVE  Nat \subseteq T
<1> SUFFICES ASSUME NEW m \in Nat, m \notin T PROVE FALSE
  OBVIOUS
<1> DEFINE N == Nat \ T
<1>1. PICK n \in N : \A k \in N : n <= k
  <2>1. N # {} /\ N \in SUBSET Nat
    OBVIOUS
  <2> HIDE DEF N
  <2> QED BY <2>1, LeastNumber
<1>2. n # 0 /\ n - 1 \in Nat /\ n = (n - 1) + 1
  OBVIOUS
<1>3. n - 1 \in T
  BY <1>1, <1>2
<1> QED BY <1>2, <1>3

(* g is the fold over the subsets of D that takes the member pick[s] of a  *)
(* set s last.                                                             *)
IsFold(g, D, base, step, pick) ==
  \A s \in SUBSET D : g[s] = IF s = {} THEN base ELSE step[pick[s]][g[s \ {pick[s]}]]

(* pick takes a member of every subset that has one.                       *)
Picks(pick, D) == \A s \in SUBSET D : s # {} => pick[s] \in s

(* A function defined by recursion over the subsets of a finite set.      *)
LEMMA FoldExists ==
  ASSUME NEW D, IsFiniteSet(D), NEW V, NEW base \in V, NEW step \in [D -> [V -> V]],
         NEW pick, Picks(pick, D)
  PROVE  \E g \in [SUBSET D -> V] :
           IsFold(g, D, base, step, pick)
<1> DEFINE Up(k) == {s \in SUBSET D : Cardinality(s) <= k}
           Rec(g, s) == IF s = {} THEN base ELSE step[pick[s]][g[s \ {pick[s]}]]
           T == {k \in Nat : \E g \in [Up(k) -> V] : \A s \in Up(k) : g[s] = Rec(g, s)}
<1>0. \A s \in SUBSET D : IsFiniteSet(s) /\ Cardinality(s) \in Nat
  BY FS_Subset, FS_CardinalityType
<1>1. 0 \in T
  <2>1. Up(0) = {{}}
    BY <1>0, FS_EmptySet
  <2> DEFINE g == [s \in Up(0) |-> base]
  <2>2. g \in [Up(0) -> V] /\ \A s \in Up(0) : g[s] = Rec(g, s)
    BY <2>1
  <2> QED BY <2>2
<1>2. ASSUME NEW k \in Nat, k \in T PROVE k + 1 \in T
  <2>1. PICK g \in [Up(k) -> V] : \A s \in Up(k) : g[s] = Rec(g, s)
    BY <1>2
  <2> DEFINE h == [s \in Up(k + 1) |-> Rec(g, s)]
  <2>2. ASSUME NEW s \in Up(k + 1), s # {}
        PROVE  s \ {pick[s]} \in Up(k) /\ s \ {pick[s]} \in Up(k + 1)
    <3>1. Cardinality(s \ {pick[s]}) = Cardinality(s) - 1
      BY <1>0, <2>2, FS_RemoveElement DEF Picks
    <3> QED BY <1>0, <3>1
  <2>3. ASSUME NEW s \in Up(k + 1) PROVE Rec(g, s) \in V
    BY <2>2 DEF Picks
  <2>4. ASSUME NEW s \in Up(k) PROVE s \in Up(k + 1) /\ h[s] = g[s]
    <3>1. s \in Up(k + 1)
      BY <1>0
    <3>2. h[s] = Rec(g, s)
      BY <3>1
    <3> QED BY <2>1, <3>1, <3>2
  <2>5. \A s \in Up(k + 1) : h[s] = Rec(h, s)
    BY <2>2, <2>4
  <2> HIDE DEF h
  <2>6. h \in [Up(k + 1) -> V]
    BY <2>3 DEF h
  <2>7. \E f \in [Up(k + 1) -> V] : \A s \in Up(k + 1) : f[s] = Rec(f, s)
    BY <2>5, <2>6
  <2>8. k + 1 \in Nat
    OBVIOUS
  <2> HIDE DEF Up, Rec
  <2> QED BY <2>7, <2>8, Zenon
<1>3. Cardinality(D) \in T
  <2> HIDE DEF T
  <2> QED BY <1>0, <1>1, <1>2, NatInductionOn
<1>4. Up(Cardinality(D)) = SUBSET D
  BY FS_Subset
<1>5. PICK g \in [SUBSET D -> V] : \A s \in SUBSET D : g[s] = Rec(g, s)
  BY <1>3, <1>4
<1> QED BY <1>5 DEF IsFold

-----------------------------------------------------------------------------
(* Folds over the places of a sequence.                                    *)

(* The folds of the community modules over a sequence take its last place  *)
(* first: the places before it are folded before it.                       *)
LEMMA LastPlace ==
  ASSUME NEW n \in Nat, NEW s \in SUBSET (1 .. n), s # {}
  PROVE  Max(s) \in s /\ \A y \in s : Max(s) >= y
<1> DEFINE T == {n - x : x \in s}
<1>1. T \in SUBSET Nat /\ T # {}
  <2>1. \A x \in s : x \in 1 .. n
    OBVIOUS
  <2>2. \A x \in 1 .. n : n - x \in Nat
    OBVIOUS
  <2> QED BY <2>1, <2>2
<1>2. PICK d \in T : \A e \in T : d <= e
  <2> HIDE DEF T
  <2> QED BY <1>1, LeastNumber
<1>3. PICK x \in s : d = n - x
  BY <1>2
<1>4. \A y \in s : y \in 1 .. n
  OBVIOUS
<1>5. ASSUME NEW y \in s PROVE x >= y
  <2>1. n - y \in T
    OBVIOUS
  <2>2. n - x <= n - y
    <3> HIDE DEF T
    <3> QED BY <1>2, <1>3, <2>1
  <2> QED BY <1>3, <1>4, <2>2
<1> QED BY <1>3, <1>5, Zenon DEF Max

(* The last of the first k + 1 places is the one after the first k.        *)
LEMMA PrefixPlaces ==
  ASSUME NEW n \in Nat, NEW k \in 0 .. n - 1
  PROVE  /\ 1 .. (k + 1) \in SUBSET (1 .. n) /\ 1 .. (k + 1) # {}
         /\ Max(1 .. (k + 1)) = k + 1
         /\ (1 .. (k + 1)) \ {k + 1} = 1 .. k
<1>1. 1 .. (k + 1) \in SUBSET (1 .. n) /\ k + 1 \in 1 .. (k + 1)
  OBVIOUS
<1>2. Max(1 .. (k + 1)) \in 1 .. (k + 1) /\ \A y \in 1 .. (k + 1) : Max(1 .. (k + 1)) >= y
  BY <1>1, LastPlace
<1> DEFINE m == Max(1 .. (k + 1))
<1>3. m \in 1 .. (k + 1) /\ m >= k + 1
  BY <1>1, <1>2
<1> HIDE DEF m
<1>4. m = k + 1
  BY <1>3
<1>5. (1 .. (k + 1)) \ {k + 1} = 1 .. k
  OBVIOUS
<1> QED BY <1>1, <1>4, <1>5 DEF m

(* g is the fold over the places of a sequence, the last place last.       *)
FoldsPlaces(g, n, base, step) ==
  \A s \in SUBSET (1 .. n) :
    g[s] = IF s = {} THEN base ELSE step[Max(s)][g[s \ {Max(s)}]]

(* There is such a fold for every step function: it is what FoldLeft       *)
(* computes.                                                               *)
LEMMA PrefixFold ==
  ASSUME NEW n \in Nat, NEW V, NEW base \in V, NEW step \in [1 .. n -> [V -> V]]
  PROVE  \E g \in [SUBSET (1 .. n) -> V] :
           FoldsPlaces(g, n, base, step)
<1> DEFINE D == 1 .. n
           pick == [s \in SUBSET D |-> Max(s)]
<1>1. Picks(pick, D)
  BY LastPlace DEF Picks
<1>2. IsFiniteSet(D)
  BY FS_Interval
<1>3. \A s \in SUBSET D : pick[s] = Max(s)
  OBVIOUS
<1> HIDE DEF pick
<1>4. PICK g \in [SUBSET D -> V] :
        IsFold(g, D, base, step, pick)
  <2> HIDE DEF D
  <2>1. step \in [D -> [V -> V]]
    BY DEF D
  <2> QED BY <1>1, <1>2, <2>1, FoldExists, Zenon
<1>5. ASSUME NEW s \in SUBSET D
      PROVE  g[s] = IF s = {} THEN base ELSE step[Max(s)][g[s \ {Max(s)}]]
  BY <1>3, <1>4 DEF IsFold
<1> QED BY <1>5 DEF FoldsPlaces

-----------------------------------------------------------------------------
(* Lists.                                                                  *)

(* What appending does to the elements of a list, and when none is twice   *)
(* in it.                                                                  *)
LEMMA AppendFacts ==
  ASSUME NEW A, NEW s \in Seq(A), NEW x \in A
  PROVE  /\ Append(s, x) \in Seq(A)
         /\ ToSet(Append(s, x)) = ToSet(s) \cup {x}
         /\ IsInjective(s) /\ x \notin ToSet(s) => IsInjective(Append(s, x))
<1>1. /\ Append(s, x) \in Seq(A) /\ Len(Append(s, x)) = Len(s) + 1 /\ Len(s) \in Nat
      /\ DOMAIN s = 1 .. Len(s) /\ DOMAIN Append(s, x) = 1 .. Len(s) + 1
      /\ Append(s, x)[Len(s) + 1] = x
      /\ \A i \in 1 .. Len(s) : Append(s, x)[i] = s[i]
  OBVIOUS
<1>2. \A i \in 1 .. Len(s) + 1 : i \in 1 .. Len(s) \/ i = Len(s) + 1
  BY <1>1
<1>3. \A i \in 1 .. Len(s) : i \in 1 .. Len(s) + 1
  BY <1>1
<1>4. Len(s) + 1 \in 1 .. Len(s) + 1
  BY <1>1
<1>5. ToSet(Append(s, x)) = ToSet(s) \cup {x}
  BY <1>1, <1>2, <1>3, <1>4, Zenon DEF ToSet
<1>6. ASSUME IsInjective(s), x \notin ToSet(s) PROVE IsInjective(Append(s, x))
  BY <1>1, <1>2, <1>6 DEF IsInjective, ToSet
<1> QED BY <1>1, <1>5, <1>6

(* The same of joining two lists,                                          *)
LEMMA ConcatFacts ==
  ASSUME NEW A, NEW s \in Seq(A), NEW t \in Seq(A)
  PROVE  /\ s \o t \in Seq(A)
         /\ ToSet(s \o t) = ToSet(s) \cup ToSet(t)
         /\ IsInjective(s) /\ IsInjective(t) /\ ToSet(s) \cap ToSet(t) = {}
              => IsInjective(s \o t)
<1> DEFINE n == Len(s)
           m == Len(t)
<1>1. /\ n \in Nat /\ m \in Nat /\ s \o t \in Seq(A) /\ Len(s \o t) = n + m
      /\ DOMAIN s = 1 .. n /\ DOMAIN t = 1 .. m /\ DOMAIN (s \o t) = 1 .. n + m
      /\ \A i \in 1 .. n + m : (s \o t)[i] = IF i <= n THEN s[i] ELSE t[i - n]
  OBVIOUS
<1> HIDE DEF n, m
<1>2. /\ \A i \in 1 .. n : i \in 1 .. n + m /\ (s \o t)[i] = s[i]
      /\ \A i \in 1 .. m : i + n \in 1 .. n + m /\ (s \o t)[i + n] = t[i]
  BY <1>1
<1>3. \A i \in 1 .. n + m : i \in 1 .. n \/ (i - n \in 1 .. m /\ (s \o t)[i] = t[i - n])
  BY <1>1
<1>4. ToSet(s \o t) = ToSet(s) \cup ToSet(t)
  <2>1. ToSet(s \o t) \subseteq ToSet(s) \cup ToSet(t)
    BY <1>1, <1>2, <1>3 DEF ToSet
  <2>2. ToSet(s) \subseteq ToSet(s \o t)
    BY <1>1, <1>2 DEF ToSet
  <2>3. ToSet(t) \subseteq ToSet(s \o t)
    <3> SUFFICES ASSUME NEW i \in 1 .. m PROVE t[i] \in ToSet(s \o t)
      BY <1>1 DEF ToSet
    <3>1. i + n \in 1 .. n + m /\ (s \o t)[i + n] = t[i]
      BY <1>2
    <3> QED BY <1>1, <3>1 DEF ToSet
  <2> QED BY <2>1, <2>2, <2>3
<1>5. ASSUME IsInjective(s), IsInjective(t), ToSet(s) \cap ToSet(t) = {}
      PROVE  IsInjective(s \o t)
  <2>1. \A i \in 1 .. n, j \in 1 .. m : s[i] # t[j]
    BY <1>1, <1>5 DEF ToSet
  <2> SUFFICES ASSUME NEW i \in 1 .. n + m, NEW j \in 1 .. n + m, (s \o t)[i] = (s \o t)[j]
               PROVE  i = j
    BY <1>1 DEF IsInjective
  <2>2. CASE i \in 1 .. n /\ j \in 1 .. n
    BY <1>1, <1>2, <1>5, <2>2 DEF IsInjective
  <2>3. CASE i \in 1 .. n /\ j \notin 1 .. n
    BY <1>2, <1>3, <2>1, <2>3
  <2>4. CASE i \notin 1 .. n /\ j \in 1 .. n
    BY <1>2, <1>3, <2>1, <2>4
  <2>5. CASE i \notin 1 .. n /\ j \notin 1 .. n
    <3>1. i - n \in 1 .. m /\ j - n \in 1 .. m /\ t[i - n] = t[j - n]
      BY <1>3, <2>5
    <3>2. i - n = j - n
      BY <1>1, <1>5, <3>1 DEF IsInjective
    <3> QED BY <1>1, <3>2
  <2> QED BY <2>2, <2>3, <2>4, <2>5
<1> QED BY <1>1, <1>4, <1>5

(* of taking the first element away,                                       *)
LEMMA TailFacts ==
  ASSUME NEW A, NEW s \in Seq(A), s # <<>>
  PROVE  /\ Head(s) \in A /\ Head(s) \in ToSet(s)
         /\ Tail(s) \in Seq(A)
         /\ ToSet(s) = ToSet(Tail(s)) \cup {Head(s)}
         /\ IsInjective(s) => IsInjective(Tail(s)) /\ Head(s) \notin ToSet(Tail(s))
<1> DEFINE n == Len(s)
<1>1. /\ n \in Nat /\ n >= 1 /\ Tail(s) \in Seq(A) /\ Len(Tail(s)) = n - 1 /\ Head(s) = s[1]
      /\ DOMAIN s = 1 .. n /\ DOMAIN Tail(s) = 1 .. n - 1
      /\ \A i \in 1 .. n - 1 : Tail(s)[i] = s[i + 1]
      /\ \A i \in 1 .. n : s[i] \in A
  OBVIOUS
<1> HIDE DEF n
<1>2. 1 \in 1 .. n /\ \A i \in 1 .. n - 1 : i + 1 \in 1 .. n /\ i + 1 # 1
  BY <1>1
<1>3. \A i \in 1 .. n : i = 1 \/ (i - 1 \in 1 .. n - 1 /\ Tail(s)[i - 1] = s[i])
  BY <1>1
<1>4. ToSet(s) = ToSet(Tail(s)) \cup {Head(s)}
  <2>1. ToSet(s) \subseteq ToSet(Tail(s)) \cup {Head(s)}
    <3> SUFFICES ASSUME NEW i \in 1 .. n PROVE s[i] \in ToSet(Tail(s)) \cup {Head(s)}
      BY <1>1 DEF ToSet
    <3>1. CASE i = 1
      BY <1>1, <3>1
    <3>2. CASE i - 1 \in 1 .. n - 1 /\ Tail(s)[i - 1] = s[i]
      BY <1>1, <3>2 DEF ToSet
    <3> QED BY <1>3, <3>1, <3>2
  <2>2. ToSet(Tail(s)) \subseteq ToSet(s)
    BY <1>1, <1>2 DEF ToSet
  <2>3. Head(s) \in ToSet(s)
    BY <1>1, <1>2 DEF ToSet
  <2> QED BY <2>1, <2>2, <2>3
<1>5. ASSUME IsInjective(s) PROVE IsInjective(Tail(s)) /\ Head(s) \notin ToSet(Tail(s))
  <2>1. ASSUME NEW i \in 1 .. n - 1, NEW j \in 1 .. n - 1, Tail(s)[i] = Tail(s)[j] PROVE i = j
    <3>1. i + 1 = j + 1
      BY <1>1, <1>2, <1>5, <2>1 DEF IsInjective
    <3> QED BY <1>1, <3>1
  <2>2. \A i \in 1 .. n - 1 : Tail(s)[i] # Head(s)
    BY <1>1, <1>2, <1>5 DEF IsInjective
  <2>3. IsInjective(Tail(s))
    BY <1>1, <2>1 DEF IsInjective
  <2>4. Head(s) \notin ToSet(Tail(s))
    BY <1>1, <2>2 DEF ToSet
  <2> QED BY <2>3, <2>4
<1> QED BY <1>1, <1>2, <1>4, <1>5

(* and of taking the last one away.                                        *)
LEMMA FrontFacts ==
  ASSUME NEW A, NEW s \in Seq(A), s # <<>>
  PROVE  /\ Last(s) \in A /\ Last(s) \in ToSet(s)
         /\ Front(s) \in Seq(A)
         /\ ToSet(s) = ToSet(Front(s)) \cup {Last(s)}
<1> DEFINE n == Len(s)
<1>1. /\ n \in Nat /\ n >= 1 /\ DOMAIN s = 1 .. n /\ \A i \in 1 .. n : s[i] \in A
      /\ Front(s) \in Seq(A) /\ Len(Front(s)) = n - 1 /\ Last(s) = s[n]
      /\ DOMAIN Front(s) = 1 .. n - 1
      /\ \A i \in 1 .. n - 1 : Front(s)[i] = s[i]
  <2>1. n \in Nat /\ n >= 1 /\ DOMAIN s = 1 .. n /\ \A i \in 1 .. n : s[i] \in A
    OBVIOUS
  <2>2. /\ Front(s) = SubSeq(s, 1, n - 1) /\ Last(s) = s[n]
        /\ SubSeq(s, 1, n - 1) \in Seq(A)
    BY <2>1 DEF Front, Last
  <2>3. Len(SubSeq(s, 1, n - 1)) = n - 1 /\ \A i \in 1 .. n - 1 : SubSeq(s, 1, n - 1)[i] = s[i]
    BY <2>1
  <2>4. DOMAIN Front(s) = 1 .. n - 1
    BY <2>2, <2>3
  <2> QED BY <2>1, <2>2, <2>3, <2>4
<1> HIDE DEF n
<1>2. n \in 1 .. n /\ \A i \in 1 .. n - 1 : i \in 1 .. n
  BY <1>1
<1>3. \A i \in 1 .. n : i = n \/ i \in 1 .. n - 1
  BY <1>1
<1>4. ToSet(s) = ToSet(Front(s)) \cup {Last(s)}
  BY <1>1, <1>2, <1>3, Zenon DEF ToSet
<1> QED BY <1>1, <1>2, <1>4

(* Any of the orders in which a finite set can be listed.                  *)
LEMMA ListingFacts ==
  ASSUME NEW S, IsFiniteSet(S), NEW order \in SetToSeqs(S)
  PROVE  order \in Seq(S) /\ IsInjective(order) /\ ToSet(order) = S
<1> DEFINE n == Cardinality(S)
<1>1. n \in Nat /\ order \in [1 .. n -> S]
      /\ \A i, j \in 1 .. n : i # j => order[i] # order[j]
  BY FS_CardinalityType DEF SetToSeqs
<1>2. order \in Seq(S) /\ IsInjective(order)
  BY <1>1 DEF IsInjective
<1>3. order \in Injection(1 .. n, S)
  BY <1>1 DEF Injection, IsInjective
<1>4. IsFiniteSet(1 .. n) /\ Cardinality(1 .. n) = n
  BY <1>1, FS_Interval
<1>5. order \in Surjection(1 .. n, S)
  BY <1>3, <1>4, FS_Injection
<1>6. ToSet(order) = S
  BY <1>1, <1>5 DEF ToSet, Surjection
<1> QED BY <1>2, <1>6

(* A list without repetition is as long as its elements are many.          *)
LEMMA ListCardinality ==
  ASSUME NEW A, NEW s \in Seq(A), IsInjective(s)
  PROVE  IsFiniteSet(ToSet(s)) /\ Cardinality(ToSet(s)) = Len(s)
<1> DEFINE n == Len(s)
           S == ToSet(s)
<1>1. n \in Nat /\ DOMAIN s = 1 .. n /\ s \in [1 .. n -> S]
  BY DEF ToSet
<1>2. s \in Bijection(1 .. n, S)
  BY <1>1 DEF Bijection, Injection, Surjection, IsInjective, ToSet
<1>3. IsFiniteSet(1 .. n) /\ Cardinality(1 .. n) = n
  BY <1>1, FS_Interval
<1>4. ExistsBijection(1 .. n, S)
  BY <1>2 DEF ExistsBijection
<1> QED BY <1>3, <1>4, FS_Bijection
=============================================================================
