----------------------------- MODULE FoldLemmas -----------------------------
(***************************************************************************)
(* What the proofs need of the folds over sequences and sets: the values a   *)
(* fold goes through exist, follow one another, and so may be reasoned about *)
(* step by step.                                                             *)
(***************************************************************************)
EXTENDS Integers, Sequences, SequencesExt, FiniteSetTheorems, SequenceTheorems, TLAPS

LEMMA LeastExists ==
  ASSUME NEW T \in SUBSET Nat, T # {} PROVE \E x \in T : \A y \in T : x <= y
<1>0. T \subseteq Nat
  OBVIOUS
<1>1. PICK x \in T : \A y \in T : ~ (<<y, x>> \in OpToRel(<, Nat))
  BY ONLY <1>0, T # {}, NatLessThanWellFounded, WFMin
<1>2. \A y \in T : ~ (y < x)
  BY <1>0, <1>1 DEF OpToRel
<1> QED
  BY <1>0, <1>2

\* Induction up to n, over a set.
LEMMA UpToAll ==
  ASSUME NEW n \in Nat, NEW T, 0 \in T, \A i \in 1..n : i - 1 \in T => i \in T
  PROVE \A i \in 0..n : i \in T
<1> DEFINE Out == {i \in 0..n : i \notin T}
<1>1. SUFFICES ASSUME Out # {} PROVE FALSE
  OBVIOUS
<1>2. Out \in SUBSET Nat
  OBVIOUS
<1>3. PICK i \in Out : \A j \in Out : i <= j
  BY <1>1, <1>2, LeastExists
<1>4. i \in 1..n
  BY <1>3
<1>5. i - 1 \in 0..n /\ ~(i <= i - 1)
  BY <1>4
<1>6. i - 1 \in T
  BY <1>3, <1>5
<1> QED
  BY <1>3, <1>4, <1>6

\* it folds g over the subsets of S, the element pick(s) of s last.
IsFold(it, S, A, b, g, pick) ==
    /\ it \in [SUBSET S -> A]
    /\ \A s \in SUBSET S : it[s] = IF s = {} THEN b ELSE g[<<it[s \ {pick[s]}], pick[s]>>]

IsChain(it, n, A, b, g) ==
    /\ it \in [SUBSET (1..n) -> A]
    /\ \A s \in SUBSET (1..n) : it[s] = IF s = {} THEN b ELSE g[<<it[s \ {Max(s)}], Max(s)>>]

\* A fold has a value on every subset of a finite set.
LEMMA FoldExists ==
  ASSUME NEW S, IsFiniteSet(S), NEW A, NEW b \in A, NEW g \in [A \X S -> A],
         NEW pick, \A s \in SUBSET S : s # {} => pick[s] \in s
  PROVE \E it : IsFold(it, S, A, b, g, pick)
<1> DEFINE Small(n) == {s \in SUBSET S : Cardinality(s) <= n}
           After(it, s) == IF s = {} THEN b ELSE g[<<it[s \ {pick[s]}], pick[s]>>]
           Good == {n \in Nat : \E it \in [Small(n) -> A] : \A s \in Small(n) : it[s] = After(it, s)}
<1>0. \A s \in SUBSET S : IsFiniteSet(s) /\ Cardinality(s) \in Nat
  BY FS_Subset, FS_CardinalityType
<1>1. Cardinality(S) \in Nat
  BY FS_CardinalityType
<1>2. 0 \in Good
  <2>1. \A s \in Small(0) : s = {}
    BY <1>0, FS_EmptySet
  <2> DEFINE it == [s \in Small(0) |-> b]
  <2>2. it \in [Small(0) -> A]
    OBVIOUS
  <2>3. \A s \in Small(0) : it[s] = After(it, s)
    BY <2>1
  <2> QED
    BY ONLY <2>2, <2>3
<1>3. ASSUME NEW n \in 1..Cardinality(S), n - 1 \in Good PROVE n \in Good
  <2>0. n \in Nat /\ n - 1 \in Nat
    BY <1>1
  <2>1. PICK it \in [Small(n - 1) -> A] : \A s \in Small(n - 1) : it[s] = After(it, s)
    BY <1>3
  <2>2. ASSUME NEW s \in Small(n), s # {} PROVE s \ {pick[s]} \in Small(n - 1) /\ pick[s] \in S
    <3>1. pick[s] \in s
      BY <2>2
    <3>2. Cardinality(s \ {pick[s]}) = Cardinality(s) - 1
      BY <3>1, <1>0, FS_RemoveElement
    <3> QED
      BY <1>0, <2>0, <3>1, <3>2
  <2> DEFINE more == [s \in Small(n) |-> After(it, s)]
  <2>3. ASSUME NEW s \in Small(n) PROVE After(it, s) \in A
    <3>1. CASE s = {}
      BY <3>1
    <3>2. CASE s # {}
      <4>1. it[s \ {pick[s]}] \in A /\ pick[s] \in S
        BY <2>2, <3>2
      <4> QED
        BY <3>2, <4>1
    <3> QED
      BY <3>1, <3>2
  <2>4. more \in [Small(n) -> A]
    BY ONLY <2>3
  <2>5. \A s \in Small(n - 1) : s \in Small(n) /\ more[s] = it[s]
    <3>1. ASSUME NEW s \in Small(n - 1) PROVE s \in Small(n)
      BY <1>0, <2>0
    <3> QED
      BY ONLY <2>1, <3>1
  <2>6. ASSUME NEW s \in Small(n) PROVE more[s] = After(more, s)
    <3>1. more[s] = After(it, s)
      OBVIOUS
    <3>2. s # {} => more[s \ {pick[s]}] = it[s \ {pick[s]}]
      BY ONLY <2>2, <2>5
    <3> HIDE DEF more
    <3> QED
      BY ONLY <3>1, <3>2
  <2> HIDE DEF more, Small
  <2> QED
    BY <2>0, <2>4, <2>6
<1>4. Cardinality(S) \in Good
  <2> HIDE DEF Good
  <2>1. \A i \in 0..Cardinality(S) : i \in Good
    BY ONLY <1>1, <1>2, <1>3, UpToAll
  <2> QED
    BY <1>1, <2>1
<1>5. Small(Cardinality(S)) = SUBSET S
  BY FS_Subset
<1> QED
  BY <1>4, <1>5 DEF IsFold

\* A nonempty set of indices has a last one.
LEMMA MaxOfIndices ==
  ASSUME NEW n \in Nat, NEW s \in SUBSET (1..n), s # {}
  PROVE Max(s) \in s /\ \A y \in s : Max(s) >= y
<1> DEFINE gaps == {k \in Nat : n - k \in s}
<1>1. gaps \in SUBSET Nat /\ gaps # {}
  <2>1. PICK x \in s : TRUE
    OBVIOUS
  <2>2. n - x \in gaps
    BY <2>1
  <2> QED
    BY <2>2
<1>2. PICK k \in gaps : \A j \in gaps : k <= j
  BY ONLY <1>1, LeastExists
<1>3. k \in Nat /\ n - k \in s
  BY <1>2
<1>4. ASSUME NEW y \in s PROVE n - k >= y
  <2>1. y \in 1..n
    OBVIOUS
  <2>2. n - y \in gaps
    BY <2>1
  <2> QED
    BY <1>2, <1>3, <2>1, <2>2
<1>5. \E x \in s : \A y \in s : x >= y
  BY <1>3, <1>4
<1> QED
  BY ONLY <1>5 DEF Max

\* A finite set of numbers has a greatest one.
LEMMA MaxOfFinite ==
  ASSUME NEW S \in SUBSET Nat, IsFiniteSet(S), S # {}
  PROVE Max(S) \in S /\ \A y \in S : Max(S) >= y
<1> DEFINE Bounded(n) == \A R \in SUBSET Nat :
                             IsFiniteSet(R) /\ Cardinality(R) = n => \E b \in Nat : \A y \in R : y <= b
           T == {n \in Nat : Bounded(n)}
<1>1. 0 \in T
  <2>1. ASSUME NEW R \in SUBSET Nat, IsFiniteSet(R), Cardinality(R) = 0
        PROVE \E b \in Nat : \A y \in R : y <= b
    <3>1. R = {}
      BY <2>1, FS_EmptySet
    <3> QED
      BY <3>1
  <2> QED
    BY <2>1
<1>2. ASSUME NEW n \in Nat \ {0}, n - 1 \in T PROVE n \in T
  <2>1. ASSUME NEW R \in SUBSET Nat, IsFiniteSet(R), Cardinality(R) = n
        PROVE \E b \in Nat : \A y \in R : y <= b
    <3>1. R # {}
      BY <2>1, FS_EmptySet
    <3>2. PICK x \in R : TRUE
      BY <3>1
    <3>3. IsFiniteSet(R \ {x}) /\ Cardinality(R \ {x}) = n - 1
      BY <2>1, <3>2, FS_RemoveElement
    <3>4. PICK b \in Nat : \A y \in R \ {x} : y <= b
      <4>1. Bounded(n - 1) /\ R \ {x} \in SUBSET Nat
        BY <1>2
      <4> QED
        BY <3>3, <4>1
    <3>5. x \in Nat /\ b + x \in Nat /\ \A y \in R : y \in Nat /\ y <= b + x
      BY <3>4
    <3> QED
      BY <3>5
  <2> QED
    BY <2>1
<1>3. Cardinality(S) \in T
  <2>1. Cardinality(S) \in Nat
    BY FS_CardinalityType
  <2> HIDE DEF T
  <2>2. \A i \in 0..Cardinality(S) : i \in T
    <3>1. \A i \in 1..Cardinality(S) : i - 1 \in T => i \in T
      BY <1>2, <2>1
    <3> QED
      BY ONLY <1>1, <2>1, <3>1, UpToAll
  <2> QED
    BY <2>1, <2>2
<1>4. PICK n \in Nat : \A y \in S : y <= n
  BY <1>3
<1> DEFINE gaps == {k \in Nat : n - k \in S}
<1>5. gaps \in SUBSET Nat /\ gaps # {}
  <2>1. PICK x \in S : TRUE
    OBVIOUS
  <2>2. n - x \in gaps
    BY <1>4, <2>1
  <2> QED
    BY <2>2
<1>6. PICK k \in gaps : \A j \in gaps : k <= j
  BY ONLY <1>5, LeastExists
<1>7. ASSUME NEW y \in S PROVE n - k >= y
  <2>1. n - y \in gaps
    BY <1>4
  <2>2. k \in Nat /\ k <= n - y /\ y \in Nat
    BY <1>6, <2>1
  <2> QED
    BY <1>4, <2>2
<1>8. \E x \in S : \A y \in S : x >= y
  BY <1>6, <1>7
<1> QED
  BY ONLY <1>8 DEF Max

\* A fold over the indices 1..n, last one first.
LEMMA ChainExists ==
  ASSUME NEW n \in Nat, NEW A, NEW b \in A, NEW g \in [A \X (1..n) -> A]
  PROVE \E it : IsChain(it, n, A, b, g)
<1> DEFINE pick == [s \in SUBSET (1..n) |-> Max(s)]
<1>1. \A s \in SUBSET (1..n) : pick[s] = Max(s)
  OBVIOUS
<1> HIDE DEF pick
<1>2. \A s \in SUBSET (1..n) : s # {} => pick[s] \in s
  BY <1>1, MaxOfIndices
<1>3. IsFiniteSet(1..n)
  BY FS_Interval
<1>4. PICK it : IsFold(it, 1..n, A, b, g, pick)
  <2> DEFINE S == 1..n
  <2>1. /\ IsFiniteSet(S) /\ b \in A /\ g \in [A \X S -> A]
        /\ \A s \in SUBSET S : s # {} => pick[s] \in s
    BY <1>2, <1>3
  <2> HIDE DEF S
  <2>2. \E it : IsFold(it, S, A, b, g, pick)
    BY ONLY <2>1, FoldExists
  <2> QED
    BY ONLY <2>2 DEF S
<1>5. IsChain(it, n, A, b, g)
  BY ONLY <1>1, <1>4 DEF IsFold, IsChain
<1> QED
  BY ONLY <1>5

\* Its values on 1..0, 1..1, ... are the steps of the fold.
LEMMA ChainSteps ==
  ASSUME NEW n \in Nat, NEW i \in 1..n
  PROVE Max(1..i) = i /\ (1..i) \ {i} = 1..i - 1 /\ 1..i # {} /\ 1..i \in SUBSET (1..n)
<1>1. 1..i \in SUBSET (1..n) /\ i \in 1..i /\ 1..i # {} /\ (1..i) \ {i} = 1..i - 1
  OBVIOUS
<1>2. Max(1..i) \in 1..i /\ Max(1..i) >= i
  BY <1>1, MaxOfIndices
<1> QED
  BY <1>1, <1>2

-----------------------------------------------------------------------------
(* Sequences that list a set, and what keeping some of their elements leaves. *)

Listed(s) == {s[i] : i \in 1..Len(s)}
Distinct(s) == \A i, j \in 1..Len(s) : s[i] = s[j] => i = j

\* The values FoldLeft goes through that keeps the elements of s in S.
KeepIterated(s, S) ==
  CHOOSE iter : iter = [d \in SUBSET DOMAIN s |->
     IF d = {} THEN <<>>
     ELSE LET x == Max(d) IN IF s[x] \in S THEN Append(iter[d \ {x}], s[x]) ELSE iter[d \ {x}]]

LEMMA AppendLists ==
  ASSUME NEW C, NEW q \in Seq(C), NEW x \in C
  PROVE /\ Append(q, x) \in Seq(C) /\ Listed(Append(q, x)) = Listed(q) \cup {x}
        /\ Distinct(q) /\ x \notin Listed(q) => Distinct(Append(q, x))
<1> DEFINE r == Append(q, x)
           n == Len(q)
<1>1. /\ n \in Nat /\ r \in Seq(C) /\ Len(r) = n + 1 /\ r[n + 1] = x
      /\ \A i \in 1..n : r[i] = q[i]
  OBVIOUS
<1> HIDE DEF r, n
<1>2. Listed(r) = Listed(q) \cup {x}
  <2>1. ASSUME NEW y \in Listed(r) PROVE y \in Listed(q) \cup {x}
    <3>1. PICK i \in 1..n + 1 : y = r[i]
      BY <1>1 DEF Listed
    <3>2. CASE i = n + 1
      BY <1>1, <3>1, <3>2
    <3>3. CASE i # n + 1
      <4>1. i \in 1..n
        BY <1>1, <3>3
      <4> QED
        BY <1>1, <3>1, <4>1 DEF Listed, n
    <3> QED
      BY <3>2, <3>3
  <2>2. ASSUME NEW i \in 1..n PROVE q[i] \in Listed(r)
    <3>1. i \in 1..n + 1 /\ q[i] = r[i]
      BY <1>1
    <3> QED
      BY <1>1, <3>1 DEF Listed
  <2>3. x \in Listed(r)
    <3>1. n + 1 \in 1..n + 1
      BY <1>1
    <3> QED
      BY <1>1, <3>1 DEF Listed
  <2> QED
    BY <2>1, <2>2, <2>3 DEF Listed, n
<1>3. ASSUME Distinct(q), x \notin Listed(q), NEW i \in 1..n + 1, NEW j \in 1..n + 1, r[i] = r[j]
      PROVE i = j
  <2>1. \A k \in 1..n : r[k] \in Listed(q)
    BY <1>1 DEF Listed, n
  <2>2. CASE i = n + 1 \/ j = n + 1
    BY <1>1, <1>3, <2>1, <2>2
  <2>3. CASE i # n + 1 /\ j # n + 1
    <3>1. i \in 1..n /\ j \in 1..n
      BY <1>1, <2>3
    <3> QED
      BY <1>1, <1>3, <3>1 DEF Distinct, n
  <2> QED
    BY <2>2, <2>3
<1> QED
  BY <1>1, <1>2, <1>3 DEF Distinct, r

\* The sequences it goes through, one element at a time.
LEMMA KeepSteps ==
  ASSUME NEW C, NEW s \in Seq(C), NEW S
  PROVE \E h : /\ h[0] = <<>> /\ h[Len(s)] = KeepIterated(s, S)[DOMAIN s]
              /\ \A i \in 1..Len(s) :
                   h[i] = IF s[i] \in S THEN Append(h[i - 1], s[i]) ELSE h[i - 1]
<1> DEFINE n == Len(s)
           Next1(q, i) == IF s[i] \in S THEN Append(q, s[i]) ELSE q
           g == [p \in Seq(C) \X (1..n) |-> Next1(p[1], p[2])]
<1>0. n \in Nat /\ DOMAIN s = 1..n /\ \A i \in 1..n : s[i] \in C
  OBVIOUS
<1> HIDE DEF n
<1>1. <<>> \in Seq(C)
  OBVIOUS
<1>2. ASSUME NEW q \in Seq(C), NEW i \in 1..n PROVE Next1(q, i) \in Seq(C)
  BY <1>0
<1>3. g \in [Seq(C) \X (1..n) -> Seq(C)]
  <2>1. ASSUME NEW p \in Seq(C) \X (1..n) PROVE Next1(p[1], p[2]) \in Seq(C)
    BY <1>2
  <2> HIDE DEF Next1
  <2> QED
    BY ONLY <2>1
<1>4. \A q \in Seq(C) : \A i \in 1..n : g[<<q, i>>] = Next1(q, i)
  OBVIOUS
<1> HIDE DEF g
<1>5. PICK it : IsChain(it, n, Seq(C), <<>>, g)
  BY ONLY <1>0, <1>1, <1>3, ChainExists
<1>6. /\ it \in [SUBSET (1..n) -> Seq(C)]
      /\ \A d \in SUBSET (1..n) : it[d] = IF d = {} THEN <<>> ELSE g[<<it[d \ {Max(d)}], Max(d)>>]
  BY ONLY <1>5 DEF IsChain
<1>7. ASSUME NEW d \in SUBSET (1..n)
      PROVE it[d] = IF d = {} THEN <<>> ELSE Next1(it[d \ {Max(d)}], Max(d))
  <2>1. CASE d = {}
    BY ONLY <1>6, <2>1
  <2>2. CASE d # {}
    <3>1. Max(d) \in 1..n
      BY <1>0, <2>2, MaxOfIndices
    <3>2. it[d \ {Max(d)}] \in Seq(C)
      BY ONLY <1>6
    <3>3. g[<<it[d \ {Max(d)}], Max(d)>>] = Next1(it[d \ {Max(d)}], Max(d))
      BY ONLY <1>4, <3>1, <3>2
    <3> QED
      BY ONLY <1>6, <2>2, <3>3
  <2> QED
    BY <2>1, <2>2
<1>8. it = [d \in SUBSET (1..n) |-> IF d = {} THEN <<>> ELSE Next1(it[d \ {Max(d)}], Max(d))]
  <2> HIDE DEF Next1
  <2> QED
    BY ONLY <1>6, <1>7
<1> DEFINE run == KeepIterated(s, S)
<1>9. run = [d \in SUBSET (1..n) |-> IF d = {} THEN <<>> ELSE Next1(run[d \ {Max(d)}], Max(d))]
  <2>1. \E iter : iter = [d \in SUBSET DOMAIN s |->
           IF d = {} THEN <<>>
           ELSE LET x == Max(d) IN
                IF s[x] \in S THEN Append(iter[d \ {x}], s[x]) ELSE iter[d \ {x}]]
    BY Zenon, <1>0, <1>8
  <2>2. run = [d \in SUBSET DOMAIN s |->
           IF d = {} THEN <<>>
           ELSE LET x == Max(d) IN
                IF s[x] \in S THEN Append(run[d \ {x}], s[x]) ELSE run[d \ {x}]]
    BY ONLY Zenon, <2>1 DEF KeepIterated
  <2> QED
    BY ONLY <2>2, <1>0
<1> HIDE DEF run
<1> DEFINE h == [i \in 0..n |-> run[1..i]]
<1>10. h[0] = <<>>
  <2>1. 1..0 = {} /\ 0 \in 0..n
    BY <1>0
  <2> QED
    BY ONLY <1>9, <2>1
<1>11. ASSUME NEW i \in 1..n PROVE h[i] = Next1(h[i - 1], i)
  <2>1. Max(1..i) = i /\ (1..i) \ {i} = 1..i - 1 /\ 1..i # {} /\ 1..i \in SUBSET (1..n)
    BY <1>0, ChainSteps
  <2> HIDE DEF Next1
  <2>2. run[1..i] = Next1(run[1..i - 1], i)
    BY ONLY <1>9, <2>1
  <2>3. i \in 0..n /\ i - 1 \in 0..n
    BY <1>0
  <2> QED
    BY ONLY <2>2, <2>3
<1>12. h[n] = KeepIterated(s, S)[DOMAIN s]
  BY <1>0 DEF run
<1>13. /\ h[0] = <<>> /\ h[n] = KeepIterated(s, S)[DOMAIN s]
       /\ \A i \in 1..n : h[i] = IF s[i] \in S THEN Append(h[i - 1], s[i]) ELSE h[i - 1]
  BY <1>10, <1>11, <1>12
<1> HIDE DEF h
<1> QED
  BY ONLY <1>13 DEF n

\* The elements that are kept are those of s in S, and none twice that was not.
LEMMA KeepIs ==
  ASSUME NEW C, NEW s \in Seq(C), NEW S, NEW kept, kept = KeepIterated(s, S)[DOMAIN s]
  PROVE /\ kept \in Seq(C) /\ Listed(kept) = Listed(s) \cap S /\ Len(kept) <= Len(s)
        /\ Distinct(s) => Distinct(kept)
<1> DEFINE n == Len(s)
<1>0. n \in Nat /\ DOMAIN s = 1..n /\ \A i \in 1..n : s[i] \in C
  OBVIOUS
<1>1. <<>> \in Seq(C)
  OBVIOUS
<1>2. PICK h : /\ h[0] = <<>> /\ h[n] = kept
               /\ \A i \in 1..n : h[i] = IF s[i] \in S THEN Append(h[i - 1], s[i]) ELSE h[i - 1]
  BY KeepSteps
<1>10. h[0] = <<>>
  BY <1>2
<1>11. ASSUME NEW i \in 1..n PROVE h[i] = IF s[i] \in S THEN Append(h[i - 1], s[i]) ELSE h[i - 1]
  BY <1>2
<1>12. h[n] = kept
  BY <1>2
<1> HIDE DEF n
<1> DEFINE Begun(i) == {s[j] : j \in 1..i}
           Good(i) == /\ h[i] \in Seq(C) /\ Listed(h[i]) = Begun(i) \cap S /\ Len(h[i]) <= i
                      /\ Distinct(s) => Distinct(h[i])
           T == {i \in 0..n : Good(i)}
<1>13. 0 \in T
  <2>1. Begun(0) = {} /\ 0 \in 0..n
    BY <1>0
  <2>2. Len(<<>>) = 0 /\ Listed(<<>>) = {} /\ Distinct(<<>>)
    BY DEF Listed, Distinct
  <2>3. Len(h[0]) <= 0
    BY ONLY <1>10, <2>2
  <2> HIDE DEF Begun
  <2> QED
    BY ONLY <1>1, <1>10, <2>1, <2>2, <2>3
<1>14. ASSUME NEW i \in 1..n, i - 1 \in T PROVE i \in T
  <2>0. i \in 0..n /\ s[i] \in C /\ Good(i - 1)
    BY <1>0, <1>14
  <2>1. Begun(i) = Begun(i - 1) \cup {s[i]}
    <3>1. 1..i = (1..i - 1) \cup {i}
      BY <1>0
    <3> QED
      BY <3>1
  <2>2. Distinct(s) => s[i] \notin Begun(i - 1)
    <3>1. ASSUME Distinct(s), NEW j \in 1..i - 1, s[j] = s[i] PROVE FALSE
      <4>1. j \in 1..n /\ j # i
        BY <1>0
      <4> QED
        BY <3>1, <4>1 DEF Distinct, n
    <3> QED
      BY <3>1
  <2> HIDE DEF Begun
  <2>3. CASE s[i] \in S
    <3>1. h[i] = Append(h[i - 1], s[i])
      BY <1>11, <2>3
    <3>2. /\ h[i] \in Seq(C) /\ Listed(h[i]) = Listed(h[i - 1]) \cup {s[i]}
          /\ Distinct(h[i - 1]) /\ s[i] \notin Listed(h[i - 1]) => Distinct(h[i])
      BY <2>0, <3>1, AppendLists
    <3>3. Len(h[i]) <= i
      BY <2>0, <3>1
    <3> QED
      BY <2>0, <2>1, <2>2, <2>3, <3>2, <3>3
  <2>4. CASE s[i] \notin S
    <3>1. h[i] = h[i - 1]
      BY <1>11, <2>4
    <3>2. Len(h[i]) <= i
      BY <2>0, <3>1
    <3> QED
      BY <2>0, <2>1, <2>4, <3>1, <3>2
  <2> QED
    BY <2>3, <2>4
<1>15. Good(n)
  <2> HIDE DEF T
  <2>1. \A i \in 0..n : i \in T
    BY ONLY <1>0, <1>13, <1>14, UpToAll
  <2>2. n \in 0..n
    BY <1>0
  <2> QED
    BY <2>1, <2>2 DEF T
<1>16. Begun(n) = Listed(s)
  BY DEF Listed, n
<1> QED
  BY <1>12, <1>15, <1>16 DEF n

\* Every two of s in this order are in R.
Ordered(s, R) == \A i, j \in 1..Len(s) : i < j => <<s[i], s[j]>> \in R

LEMMA AppendOrders ==
  ASSUME NEW C, NEW q \in Seq(C), NEW x \in C, NEW R, Ordered(q, R),
         \A y \in Listed(q) : <<y, x>> \in R
  PROVE Ordered(Append(q, x), R)
<1> DEFINE r == Append(q, x)
           n == Len(q)
<1>1. /\ n \in Nat /\ Len(r) = n + 1 /\ r[n + 1] = x
      /\ \A i \in 1..n : r[i] = q[i] /\ q[i] \in Listed(q)
  BY DEF Listed
<1>2. \A i, j \in 1..n : i < j => <<q[i], q[j]>> \in R
  BY DEF Ordered
<1> HIDE DEF r, n
<1>3. ASSUME NEW i \in 1..n + 1, NEW j \in 1..n + 1, i < j PROVE <<r[i], r[j]>> \in R
  <2>1. i \in 1..n
    BY <1>1, <1>3
  <2>2. CASE j \in 1..n
    BY <1>1, <1>2, <1>3, <2>1, <2>2
  <2>3. CASE j = n + 1
    BY <1>1, <2>1, <2>3
  <2> QED
    BY <1>1, <2>2, <2>3
<1> QED
  BY <1>1, <1>3 DEF Ordered, r

\* What is kept stays in order.
LEMMA KeepOrders ==
  ASSUME NEW C, NEW s \in Seq(C), NEW S, NEW R, Ordered(s, R),
         NEW kept, kept = KeepIterated(s, S)[DOMAIN s]
  PROVE Ordered(kept, R)
<1> DEFINE n == Len(s)
<1>0. n \in Nat /\ \A i \in 1..n : s[i] \in C
  OBVIOUS
<1>1. PICK h : /\ h[0] = <<>> /\ h[n] = kept
               /\ \A i \in 1..n : h[i] = IF s[i] \in S THEN Append(h[i - 1], s[i]) ELSE h[i - 1]
  BY KeepSteps
<1>2. \A i, j \in 1..n : i < j => <<s[i], s[j]>> \in R
  BY DEF Ordered
<1> HIDE DEF n
<1> DEFINE Begun(i) == {s[j] : j \in 1..i}
           Good(i) == h[i] \in Seq(C) /\ Listed(h[i]) \subseteq Begun(i) /\ Ordered(h[i], R)
           T == {i \in 0..n : Good(i)}
<1>3. 0 \in T
  <2>1. Len(<<>>) = 0 /\ <<>> \in Seq(C)
    OBVIOUS
  <2>2. Listed(<<>>) = {} /\ Ordered(<<>>, R)
    BY <2>1 DEF Listed, Ordered
  <2>3. 0 \in 0..n
    BY <1>0
  <2> HIDE DEF Begun
  <2> QED
    BY <1>1, <2>1, <2>2, <2>3
<1>4. ASSUME NEW i \in 1..n, i - 1 \in T PROVE i \in T
  <2>1. i \in 0..n /\ s[i] \in C /\ Good(i - 1)
    BY <1>0, <1>4
  <2>2. Begun(i) = Begun(i - 1) \cup {s[i]}
    <3>1. 1..i = (1..i - 1) \cup {i}
      BY <1>0
    <3> QED
      BY <3>1
  <2>3. \A y \in Begun(i - 1) : <<y, s[i]>> \in R
    <3>1. \A j \in 1..i - 1 : j \in 1..n /\ j < i
      BY <1>0
    <3> QED
      BY <1>2, <3>1
  <2> HIDE DEF Begun
  <2>4. CASE s[i] \in S
    <3> DEFINE q == h[i - 1]
               x == s[i]
    <3>1. h[i] = Append(q, x)
      BY <1>1, <2>4
    <3>2. q \in Seq(C) /\ x \in C /\ Ordered(q, R) /\ \A y \in Listed(q) : <<y, x>> \in R
      BY <2>1, <2>3
    <3> HIDE DEF q, x
    <3>3. /\ Append(q, x) \in Seq(C) /\ Listed(Append(q, x)) = Listed(q) \cup {x}
          /\ Ordered(Append(q, x), R)
      BY <3>2, AppendLists, AppendOrders
    <3> QED
      BY <2>1, <2>2, <3>1, <3>3 DEF q, x
  <2>5. CASE s[i] \notin S
    <3>1. h[i] = h[i - 1]
      BY <1>1, <2>5
    <3> QED
      BY <2>1, <2>2, <3>1
  <2> QED
    BY <2>4, <2>5
<1>5. Good(n)
  <2> HIDE DEF T
  <2>1. \A i \in 0..n : i \in T
    BY ONLY <1>0, <1>3, <1>4, UpToAll
  <2>2. n \in 0..n
    BY <1>0
  <2> QED
    BY <2>1, <2>2 DEF T
<1> QED
  BY <1>1, <1>5

\* The same, written as a function of how much of s was seen.
KeptOf(s, S) ==
    LET kept[n \in 0 .. Len(s)] ==
          IF n = 0 THEN <<>> ELSE IF s[n] \in S THEN Append(kept[n - 1], s[n]) ELSE kept[n - 1]
    IN  kept[Len(s)]

LEMMA KeptIsFolded ==
  ASSUME NEW C, NEW s \in Seq(C), NEW S
  PROVE KeptOf(s, S) = KeepIterated(s, S)[DOMAIN s]
<1> DEFINE m == Len(s)
           kept == CHOOSE kept : kept = [n \in 0 .. Len(s) |->
             IF n = 0 THEN <<>> ELSE IF s[n] \in S THEN Append(kept[n - 1], s[n]) ELSE kept[n - 1]]
<1>1. m \in Nat
  OBVIOUS
<1>2. PICK h : /\ h[0] = <<>> /\ h[m] = KeepIterated(s, S)[DOMAIN s]
               /\ \A i \in 1..m : h[i] = IF s[i] \in S THEN Append(h[i - 1], s[i]) ELSE h[i - 1]
  BY KeepSteps
<1> DEFINE g == [n \in 0..m |-> h[n]]
<1>3. g = [n \in 0..m |-> IF n = 0 THEN <<>> ELSE IF s[n] \in S THEN Append(g[n - 1], s[n]) ELSE g[n - 1]]
  <2>1. \A n \in 0..m : g[n] = h[n]
    OBVIOUS
  <2>2. g = [n \in 0..m |-> g[n]]
    OBVIOUS
  <2> HIDE DEF g
  <2>3. ASSUME NEW n \in 0..m
        PROVE g[n] = IF n = 0 THEN <<>> ELSE IF s[n] \in S THEN Append(g[n - 1], s[n]) ELSE g[n - 1]
    <3>1. CASE n = 0
      BY <1>2, <2>1, <3>1
    <3>2. CASE n # 0
      <4>1. n \in 1..m /\ n - 1 \in 0..m
        BY <1>1, <3>2
      <4>2. g[n] = h[n] /\ g[n - 1] = h[n - 1]
        BY <2>1, <4>1
      <4> QED
        BY <1>2, <3>2, <4>1, <4>2
    <3> QED
      BY <3>1, <3>2
  <2> QED
    BY ONLY <2>2, <2>3
<1> HIDE DEF g
<1>4. kept = [n \in 0..m |->
         IF n = 0 THEN <<>> ELSE IF s[n] \in S THEN Append(kept[n - 1], s[n]) ELSE kept[n - 1]]
  <2>1. \E f : f = [n \in 0 .. Len(s) |->
             IF n = 0 THEN <<>> ELSE IF s[n] \in S THEN Append(f[n - 1], s[n]) ELSE f[n - 1]]
    BY ONLY Zenon, <1>3
  <2> QED
    BY ONLY Zenon, <2>1
<1>5. KeptOf(s, S) = kept[m]
  BY DEF KeptOf
<1> HIDE DEF kept, m
<1> DEFINE T == {n \in 0..m : kept[n] = h[n]}
<1>6. 0 \in T
  BY <1>1, <1>2, <1>4
<1>7. ASSUME NEW n \in 1..m, n - 1 \in T PROVE n \in T
  <2>1. n \in 0..m /\ n # 0
    BY <1>1
  <2>2. kept[n] = IF s[n] \in S THEN Append(kept[n - 1], s[n]) ELSE kept[n - 1]
    BY <1>4, <2>1
  <2> QED
    BY <1>2, <1>7, <2>1, <2>2
<1>8. m \in T
  <2> HIDE DEF T
  <2>1. \A n \in 0..m : n \in T
    BY ONLY <1>1, <1>6, <1>7, UpToAll
  <2> QED
    BY <1>1, <2>1
<1> QED
  BY <1>2, <1>5, <1>8

LEMMA ToSetLists ==
  ASSUME NEW C, NEW s \in Seq(C) PROVE ToSet(s) = Listed(s) /\ Listed(s) \subseteq C
<1>1. DOMAIN s = 1..Len(s)
  OBVIOUS
<1> QED
  BY <1>1 DEF ToSet, Listed

\* A sequence without repetitions is as long as the set it lists.
LEMMA ListLength ==
  ASSUME NEW C, NEW s \in Seq(C), Distinct(s)
  PROVE  Cardinality(Listed(s)) = Len(s) /\ ToSet(s) = Listed(s)
<1>1. Len(s) \in Nat /\ DOMAIN s = 1..Len(s) /\ s = [i \in 1..Len(s) |-> s[i]]
  OBVIOUS
<1>2. ToSet(s) = Listed(s)
  BY <1>1 DEF ToSet, Listed
<1>3. s \in Bijection(1..Len(s), Listed(s))
  BY <1>1 DEF Bijection, Injection, IsInjective, Surjection, Listed, Distinct
<1>4. ExistsBijection(1..Len(s), Listed(s))
  BY <1>3 DEF ExistsBijection
<1>5. Cardinality(Listed(s)) = Len(s)
  BY ONLY <1>1, <1>4, FS_CountingElements
<1> QED
  BY <1>2, <1>5

\* It never lists more elements than it has places.
LEMMA ListIsSmall ==
  ASSUME NEW C, NEW s \in Seq(C)
  PROVE IsFiniteSet(Listed(s)) /\ Cardinality(Listed(s)) \in Nat /\ Cardinality(Listed(s)) <= Len(s)
<1>1. Len(s) \in Nat
  OBVIOUS
<1>2. [i \in 1..Len(s) |-> s[i]] \in Surjection(1..Len(s), Listed(s))
  BY DEF Surjection, Listed
<1>3. IsFiniteSet(1..Len(s)) /\ Cardinality(1..Len(s)) = Len(s)
  BY <1>1, FS_Interval
<1> QED
  BY <1>2, <1>3, FS_Surjection, FS_CardinalityType

\* Without its head, a sequence lists the rest.
LEMMA TailLists ==
  ASSUME NEW C, NEW s \in Seq(C), s # <<>>
  PROVE /\ Head(s) \in C /\ Head(s) = s[1]
        /\ Tail(s) \in Seq(C) /\ Len(Tail(s)) = Len(s) - 1 /\ Listed(Tail(s)) \subseteq Listed(s)
        /\ \A i \in 1..Len(s) - 1 : Tail(s)[i] = s[i + 1]
        /\ Distinct(s) => Distinct(Tail(s)) /\ Head(s) \notin Listed(Tail(s))
<1> DEFINE n == Len(s)
           r == Tail(s)
<1>1. n \in Nat \ {0}
  OBVIOUS
<1>2. /\ Head(s) \in C /\ Head(s) = s[1]
      /\ r \in Seq(C) /\ Len(r) = n - 1 /\ \A i \in 1..n - 1 : r[i] = s[i + 1]
  OBVIOUS
<1> HIDE DEF n, r
<1>3. Listed(r) \subseteq Listed(s)
  <2>1. \A i \in 1..n - 1 : i + 1 \in 1..n
    BY <1>1
  <2> QED
    BY <1>2, <2>1 DEF Listed, n
<1>4. ASSUME Distinct(s) PROVE Distinct(r) /\ Head(s) \notin Listed(r)
  <2>1. \A i \in 1..n - 1 : i + 1 \in 1..n /\ i + 1 # 1 /\ 1 \in 1..n
    BY <1>1
  <2>2. \A i, j \in 1..n : s[i] = s[j] => i = j
    BY <1>4 DEF Distinct, n
  <2>3. \A i, j \in 1..n - 1 : i + 1 = j + 1 => i = j
    BY <1>1
  <2>4. Distinct(r)
    BY <1>2, <2>1, <2>2, <2>3 DEF Distinct
  <2>5. Head(s) \notin Listed(r)
    BY <1>2, <2>1, <2>2 DEF Listed
  <2> QED
    BY <2>4, <2>5
<1> QED
  BY <1>2, <1>3, <1>4 DEF n, r
-----------------------------------------------------------------------------
(* Sums over finite sets. *)

\* f sums w over the subsets of S, the element pick(s) of s last.
Picks(pick, S) == \A s \in SUBSET S : s # {} => pick[s] \in s
IsSum(f, S, w, pick) ==
    \A s \in SUBSET S : f[s] = IF s = {} THEN 0 ELSE w[pick[s]] + f[s \ {pick[s]}]

IsNatSum(f, S, w, pick) ==
    f \in [SUBSET S -> Nat] /\ w \in [S -> Nat] /\ Picks(pick, S) /\ IsSum(f, S, w, pick)

\* A sum does not depend on which element comes last.
LEMMA SumTakesAny ==
  ASSUME NEW S, IsFiniteSet(S), NEW w, NEW it, NEW pick, IsNatSum(it, S, w, pick)
  PROVE \A s \in SUBSET S : \A x \in S \ s : it[s \cup {x}] = it[s] + w[x]
<1> DEFINE T == {s \in SUBSET S : \A x \in s : it[s] = it[s \ {x}] + w[x]}
           Good == {n \in Nat : \A s \in SUBSET S : Cardinality(s) <= n => s \in T}
<1> USE DEF IsNatSum
<1>0. \A s \in SUBSET S : IsFiniteSet(s) /\ Cardinality(s) \in Nat /\ Cardinality(s) <= Cardinality(S)
  BY FS_Subset, FS_CardinalityType
<1>1. Cardinality(S) \in Nat
  BY FS_CardinalityType
<1>2. 0 \in Good
  <2>1. \A s \in SUBSET S : Cardinality(s) <= 0 => s = {}
    BY <1>0, FS_EmptySet
  <2> QED
    BY <2>1
<1>3. ASSUME NEW n \in 1..Cardinality(S), n - 1 \in Good PROVE n \in Good
  <2>1. ASSUME NEW s \in SUBSET S, Cardinality(s) <= n, NEW x \in s
        PROVE it[s] = it[s \ {x}] + w[x]
    <3> DEFINE p == pick[s]
    <3>1. p \in s /\ it[s] = w[p] + it[s \ {p}]
      BY DEF Picks, IsSum
    <3> HIDE DEF p
    <3>2. CASE p = x
      BY <3>1, <3>2
    <3>3. CASE p # x
      <4> DEFINE a == s \ {p}
                 b == s \ {x}
                 c == (s \ {p}) \ {x}
      <4>1. a \in SUBSET S /\ b \in SUBSET S /\ c \in SUBSET S /\ x \in a /\ p \in b
            /\ c = a \ {x} /\ c = b \ {p}
        BY <3>1, <3>3
      <4>2. Cardinality(a) = Cardinality(s) - 1 /\ Cardinality(b) = Cardinality(s) - 1
        BY <1>0, <3>1, FS_RemoveElement
      <4> HIDE DEF a, b, c
      <4>3. Cardinality(a) <= n - 1 /\ Cardinality(b) <= n - 1
        BY <1>0, <1>1, <2>1, <4>2
      <4>4. a \in T /\ b \in T
        BY <1>3, <4>1, <4>3
      <4>5. it[a] = it[c] + w[x] /\ it[b] = it[c] + w[p]
        BY <4>1, <4>4
      <4>6. it[a] \in Nat /\ it[b] \in Nat /\ it[c] \in Nat /\ w[x] \in Nat /\ w[p] \in Nat
        BY <3>1, <4>1
      <4>7. it[s] = w[p] + it[a]
        BY <3>1 DEF a
      <4>8. it[s] = it[b] + w[x]
        BY <4>5, <4>6, <4>7
      <4> QED
        BY <4>8 DEF b
    <3> QED
      BY <3>2, <3>3
  <2> QED
    BY <1>1, <2>1
<1>4. \A s \in SUBSET S : s \in T
  <2> HIDE DEF Good
  <2>1. \A i \in 0..Cardinality(S) : i \in Good
    BY ONLY <1>1, <1>2, <1>3, UpToAll
  <2>2. Cardinality(S) \in Good
    BY <1>1, <2>1
  <2> QED
    BY <1>0, <2>2 DEF Good
<1>5. ASSUME NEW s \in SUBSET S, NEW x \in S \ s PROVE it[s \cup {x}] = it[s] + w[x]
  <2>1. s \cup {x} \in T /\ (s \cup {x}) \ {x} = s
    BY <1>4
  <2> QED
    BY <2>1
<1> QED
  BY <1>5

\* Two sums that take the elements in the same order agree.
LEMMA SumsAgree ==
  ASSUME NEW S, IsFiniteSet(S), NEW w, NEW pick, NEW f, NEW h,
         Picks(pick, S), IsSum(f, S, w, pick), IsSum(h, S, w, pick)
  PROVE \A s \in SUBSET S : f[s] = h[s]
<1> DEFINE Good == {n \in Nat : \A s \in SUBSET S : Cardinality(s) <= n => f[s] = h[s]}
<1>0. \A s \in SUBSET S : IsFiniteSet(s) /\ Cardinality(s) \in Nat /\ Cardinality(s) <= Cardinality(S)
  BY FS_Subset, FS_CardinalityType
<1>1. Cardinality(S) \in Nat
  BY FS_CardinalityType
<1>2. 0 \in Good
  <2>1. \A s \in SUBSET S : Cardinality(s) <= 0 => s = {}
    BY <1>0, FS_EmptySet
  <2> QED
    BY <2>1 DEF IsSum
<1>3. ASSUME NEW n \in 1..Cardinality(S), n - 1 \in Good PROVE n \in Good
  <2>1. ASSUME NEW s \in SUBSET S, Cardinality(s) <= n, s # {} PROVE f[s] = h[s]
    <3>1. pick[s] \in s /\ s \ {pick[s]} \in SUBSET S
      BY <2>1 DEF Picks
    <3>2. Cardinality(s \ {pick[s]}) = Cardinality(s) - 1
      BY <1>0, <3>1, FS_RemoveElement
    <3>3. f[s \ {pick[s]}] = h[s \ {pick[s]}]
      BY <1>0, <1>1, <1>3, <2>1, <3>1, <3>2
    <3> QED
      BY <2>1, <3>3 DEF IsSum
  <2>2. \A s \in SUBSET S : s = {} => f[s] = h[s]
    BY DEF IsSum
  <2> QED
    BY <1>1, <2>1, <2>2
<1> HIDE DEF Good
<1>4. \A i \in 0..Cardinality(S) : i \in Good
  BY ONLY <1>1, <1>2, <1>3, UpToAll
<1>5. Cardinality(S) \in Good
  BY <1>1, <1>4
<1> QED
  BY <1>0, <1>5 DEF Good

\* What the elements of S weigh together.
WeightOf(w, S) == MapThenSumSet(LAMBDA x : w[x], S)

WeighIterated(w, S) ==
  CHOOSE iter : iter = [s \in SUBSET S |->
     IF s = {} THEN 0
     ELSE LET x == CHOOSE x \in s : TRUE IN w[x] + iter[s \ {x}]]

LEMMA WeightIterates == ASSUME NEW w, NEW S PROVE WeightOf(w, S) = WeighIterated(w, S)[S]
BY DEF WeightOf, MapThenSumSet, MapThenFoldSet, WeighIterated

\* A set weighs what its elements weigh, each counted once.
LEMMA WeightAdd ==
  ASSUME NEW D, IsFiniteSet(D), NEW w \in [D -> Nat]
  PROVE /\ WeightOf(w, {}) = 0
        /\ \A s \in SUBSET D : WeightOf(w, s) \in Nat
        /\ \A s \in SUBSET D : \A x \in D \ s : WeightOf(w, s \cup {x}) = WeightOf(w, s) + w[x]
<1> DEFINE g == [p \in Nat \X D |-> w[p[2]] + p[1]]
           pick == [s \in SUBSET D |-> CHOOSE x \in s : TRUE]
<1>2. /\ \A s \in SUBSET D : pick[s] = CHOOSE x \in s : TRUE
      /\ \A s \in SUBSET D : s # {} => pick[s] \in s
  OBVIOUS
<1>3. /\ g \in [Nat \X D -> Nat]
      /\ \A n \in Nat : \A x \in D : g[<<n, x>>] = w[x] + n
  OBVIOUS
<1> HIDE DEF pick, g
\* On the subsets of a part of D, the fold exists and is the one of WeightOf.
<1>5. ASSUME NEW S \in SUBSET D
      PROVE /\ WeighIterated(w, S) \in [SUBSET S -> Nat]
            /\ \A s \in SUBSET S :
                 WeighIterated(w, S)[s] =
                   IF s = {} THEN 0 ELSE w[pick[s]] + WeighIterated(w, S)[s \ {pick[s]}]
  <2> DEFINE gS == [p \in Nat \X S |-> g[p]]
             sum == WeighIterated(w, S)
  <2>1. IsFiniteSet(S)
    BY FS_Subset
  <2>2. gS \in [Nat \X S -> Nat] /\ \A n \in Nat : \A x \in S : gS[<<n, x>>] = w[x] + n
    BY <1>3
  <2> HIDE DEF gS
  <2>3. 0 \in Nat /\ \A s \in SUBSET S : s # {} => pick[s] \in s
    BY <1>2
  <2>4. PICK it : IsFold(it, S, Nat, 0, gS, pick)
    BY ONLY <2>1, <2>2, <2>3, FoldExists
  <2>5. /\ it \in [SUBSET S -> Nat]
        /\ \A s \in SUBSET S : it[s] = IF s = {} THEN 0 ELSE gS[<<it[s \ {pick[s]}], pick[s]>>]
    BY ONLY <2>4 DEF IsFold
  <2>6. ASSUME NEW s \in SUBSET S
        PROVE it[s] = IF s = {} THEN 0
                      ELSE w[CHOOSE x \in s : TRUE] + it[s \ {CHOOSE x \in s : TRUE}]
    <3>1. CASE s = {}
      BY <2>5, <3>1
    <3>2. CASE s # {}
      <4>1. pick[s] \in S /\ s \ {pick[s]} \in SUBSET S
        BY <2>3, <3>2
      <4>2. it[s \ {pick[s]}] \in Nat
        BY <2>5, <4>1
      <4>3. it[s] = w[pick[s]] + it[s \ {pick[s]}]
        BY <2>2, <2>5, <3>2, <4>1, <4>2
      <4>4. pick[s] = CHOOSE x \in s : TRUE
        BY <1>2
      <4> QED
        BY <3>2, <4>3, <4>4
    <3> QED
      BY <3>1, <3>2
  <2>7. it = [s \in SUBSET S |->
                IF s = {} THEN 0
                ELSE w[CHOOSE x \in s : TRUE] + it[s \ {CHOOSE x \in s : TRUE}]]
    BY ONLY <2>5, <2>6
  <2>8. \E iter : iter = [s \in SUBSET S |->
                IF s = {} THEN 0
                ELSE LET x == CHOOSE x \in s : TRUE IN w[x] + iter[s \ {x}]]
    BY ONLY Zenon, <2>7
  <2>9. sum = [s \in SUBSET S |->
                IF s = {} THEN 0
                ELSE LET x == CHOOSE x \in s : TRUE IN w[x] + sum[s \ {x}]]
    BY ONLY Zenon, <2>8 DEF WeighIterated
  <2> HIDE DEF sum
  <2>10. DOMAIN sum = SUBSET S
    BY ONLY <2>9
  <2>11. ASSUME NEW s \in SUBSET S
         PROVE sum[s] = IF s = {} THEN 0 ELSE w[pick[s]] + sum[s \ {pick[s]}]
    <3>1. sum[s] = IF s = {} THEN 0
                   ELSE w[CHOOSE x \in s : TRUE] + sum[s \ {CHOOSE x \in s : TRUE}]
      BY ONLY <2>9
    <3>2. s # {} => pick[s] \in D
      BY <2>3
    <3> QED
      BY <1>2, <3>1, <3>2
  <2>12. \A s \in SUBSET S : sum[s] = it[s]
    <3>1. ASSUME NEW s \in SUBSET S
          PROVE it[s] = IF s = {} THEN 0 ELSE w[pick[s]] + it[s \ {pick[s]}]
      <4>1. it[s] = IF s = {} THEN 0
                    ELSE w[CHOOSE x \in s : TRUE] + it[s \ {CHOOSE x \in s : TRUE}]
        BY <2>6
      <4>2. s # {} => pick[s] \in D
        BY <2>3
      <4> QED
        BY <1>2, <4>1, <4>2
    <3>2. Picks(pick, S) /\ IsSum(sum, S, w, pick) /\ IsSum(it, S, w, pick)
      BY <2>3, <2>11, <3>1 DEF Picks, IsSum
    <3> QED
      BY ONLY <2>1, <3>2, SumsAgree
  <2>13. sum = it
    BY <2>5, <2>9, <2>10, <2>12
  <2> QED
    BY <2>5, <2>11, <2>13 DEF sum
<1> DEFINE sum(S) == WeighIterated(w, S)
<1> HIDE DEF sum
<1>6. \A S \in SUBSET D : IsFiniteSet(S) /\ \A s \in SUBSET S : s # {} => pick[s] \in s
  BY <1>2, FS_Subset
<1>7. ASSUME NEW S \in SUBSET D
      PROVE /\ sum(S) \in [SUBSET S -> Nat] /\ WeightOf(w, S) = sum(S)[S]
            /\ \A s \in SUBSET S : sum(S)[s] = IF s = {} THEN 0 ELSE w[pick[s]] + sum(S)[s \ {pick[s]}]
  BY <1>5, WeightIterates DEF sum
<1>8. WeightOf(w, {}) = 0
  BY <1>7
<1>9. ASSUME NEW s \in SUBSET D PROVE WeightOf(w, s) \in Nat
  <2>1. s \in SUBSET s
    OBVIOUS
  <2>2. sum(s) \in [SUBSET s -> Nat] /\ WeightOf(w, s) = sum(s)[s]
    BY <1>7
  <2> QED
    BY ONLY <2>1, <2>2
<1>10. ASSUME NEW s \in SUBSET D, NEW x \in D \ s
       PROVE WeightOf(w, s \cup {x}) = WeightOf(w, s) + w[x]
  <2> DEFINE S == s \cup {x}
             f == sum(S)
             h == sum(s)
             v == [i \in S |-> w[i]]
  <2>1. S \in SUBSET D /\ s \in SUBSET S /\ x \in S \ s /\ SUBSET s \subseteq SUBSET S
    OBVIOUS
  <2>2. v \in [S -> Nat] /\ \A i \in S : v[i] = w[i]
    BY <2>1
  <2> HIDE DEF S, v
  <2>3. /\ f \in [SUBSET S -> Nat] /\ WeightOf(w, S) = f[S]
        /\ \A a \in SUBSET S : f[a] = IF a = {} THEN 0 ELSE w[pick[a]] + f[a \ {pick[a]}]
    BY <1>7, <2>1
  <2>4. /\ WeightOf(w, s) = h[s]
        /\ \A a \in SUBSET s : h[a] = IF a = {} THEN 0 ELSE w[pick[a]] + h[a \ {pick[a]}]
    BY <1>7
  <2> HIDE DEF f, h
  <2>5. IsFiniteSet(S) /\ IsFiniteSet(s) /\ \A a \in SUBSET S : a # {} => pick[a] \in a
    BY <1>6, <2>1
  <2>6. \A a \in SUBSET s : f[a] = h[a]
    <3>1. \A a \in SUBSET s : f[a] = IF a = {} THEN 0 ELSE w[pick[a]] + f[a \ {pick[a]}]
      BY <2>1, <2>3
    <3>2. \A a \in SUBSET s : a # {} => pick[a] \in a
      BY <2>1, <2>5
    <3>3. Picks(pick, s) /\ IsSum(f, s, w, pick) /\ IsSum(h, s, w, pick)
      BY <2>4, <3>1, <3>2 DEF Picks, IsSum
    <3> QED
      BY ONLY <2>5, <3>3, SumsAgree
  <2>7. Picks(pick, S) /\ IsSum(f, S, v, pick)
    <3>1. \A a \in SUBSET S : a # {} => v[pick[a]] = w[pick[a]]
      BY <2>2, <2>5
    <3> QED
      BY <2>3, <2>5, <3>1 DEF Picks, IsSum
  <2>8. \A a \in SUBSET S : \A y \in S \ a : f[a \cup {y}] = f[a] + v[y]
    <3>1. f \in [SUBSET S -> Nat]
      BY <2>3
    <3>2. IsFiniteSet(S) /\ IsNatSum(f, S, v, pick)
      BY <2>2, <2>5, <2>7, <3>1 DEF IsNatSum
    <3>3. ASSUME NEW a \in SUBSET S, NEW y \in S \ a PROVE f[a \cup {y}] = f[a] + v[y]
      BY ONLY <3>2, SumTakesAny, a \in SUBSET S, y \in S \ a
    <3> QED
      BY ONLY <3>3
  <2>9. f[s \cup {x}] = f[s] + v[x]
    BY <2>1, <2>8
  <2>10. S = s \cup {x} /\ f[s] = h[s] /\ v[x] = w[x]
    BY <2>1, <2>2, <2>6 DEF S
  <2> QED
    BY <2>3, <2>4, <2>9, <2>10
<1> QED
  BY <1>8, <1>9, <1>10

\* More elements weigh no less.
LEMMA WeightGrows ==
  ASSUME NEW D, IsFiniteSet(D), NEW w \in [D -> Nat], NEW B \in SUBSET D, NEW A \in SUBSET B
  PROVE WeightOf(w, A) <= WeightOf(w, B)
<1> DEFINE Good == {n \in Nat : \A S \in SUBSET B : A \subseteq S /\ Cardinality(S) <= n =>
                                  WeightOf(w, A) <= WeightOf(w, S)}
<1>0. /\ \A S \in SUBSET D : WeightOf(w, S) \in Nat
      /\ \A S \in SUBSET D : \A x \in D \ S : WeightOf(w, S \cup {x}) = WeightOf(w, S) + w[x]
  BY WeightAdd
<1>1. \A S \in SUBSET B : S \in SUBSET D /\ IsFiniteSet(S) /\ Cardinality(S) \in Nat
  BY FS_Subset, FS_CardinalityType
<1>2. Cardinality(B) \in Nat /\ A \in SUBSET D
  BY <1>1
<1>3. 0 \in Good
  <2>1. \A S \in SUBSET B : Cardinality(S) <= 0 => S = {}
    BY <1>1, FS_EmptySet
  <2>2. ASSUME NEW S \in SUBSET B, A \subseteq S, S = {} PROVE WeightOf(w, A) <= WeightOf(w, S)
    <3>1. A = S /\ WeightOf(w, S) \in Nat
      BY <1>0, <1>1, <2>2
    <3> QED
      BY <3>1
  <2> QED
    BY <2>1, <2>2
<1>4. ASSUME NEW n \in 1..Cardinality(B), n - 1 \in Good PROVE n \in Good
  <2>1. ASSUME NEW S \in SUBSET B, A \subseteq S, Cardinality(S) <= n
        PROVE WeightOf(w, A) <= WeightOf(w, S)
    <3>1. CASE A = S
      <4>1. WeightOf(w, S) \in Nat
        BY <1>0, <1>1
      <4> QED
        BY <3>1, <4>1
    <3>2. CASE A # S
      <4>1. PICK x \in S : x \notin A
        BY <2>1, <3>2
      <4> DEFINE R == S \ {x}
      <4>2. R \in SUBSET B /\ A \subseteq R /\ S = R \cup {x} /\ x \in D \ R /\ R \in SUBSET D
        BY <2>1, <4>1
      <4>3. Cardinality(R) <= n - 1
        <5>1. IsFiniteSet(S) /\ Cardinality(S) \in Nat /\ Cardinality(R) = Cardinality(S) - 1
          BY <1>1, <4>1, FS_RemoveElement
        <5> QED
          BY <1>2, <2>1, <5>1
      <4> HIDE DEF R
      <4>4. WeightOf(w, A) <= WeightOf(w, R)
        BY <1>4, <4>2, <4>3
      <4>5. /\ WeightOf(w, S) = WeightOf(w, R) + w[x] /\ w[x] \in Nat
            /\ WeightOf(w, R) \in Nat /\ WeightOf(w, A) \in Nat
        BY <1>0, <1>2, <4>2
      <4> QED
        BY <4>4, <4>5
    <3> QED
      BY <3>1, <3>2
  <2> QED
    BY <1>2, <2>1
<1>5. Cardinality(B) \in Good
  <2> HIDE DEF Good
  <2>1. \A i \in 0..Cardinality(B) : i \in Good
    BY ONLY <1>2, <1>3, <1>4, UpToAll
  <2> QED
    BY <1>2, <2>1
<1> QED
  BY <1>2, <1>5
=============================================================================
