----------------------------- MODULE UpkeepProofs -----------------------------
(***************************************************************************)
(* Theorems about what runs beside capture.  Each part of MCUpkeep is proved *)
(* under its own specification, for every value of the constants; the last    *)
(* section carries the results over to the behaviours of UpkeepSpec.          *)
(***************************************************************************)
EXTENDS MCUpkeep, FoldLemmas

-----------------------------------------------------------------------------
(* SupervisorPatience: the supervisor's patience for every pair of limits *)

\* The failures observed so far are at most what the two counters explain.
CountersExplainStreak ==
    /\ streak <= restarts * (ResubscribeLimit + 1) + failures
    /\ resubscribed <= failures

PatienceInv == TypeOK /\ CountersExplainStreak

\* Each restart of the backend pays for one full round of re-subscriptions.
LEMMA RoundStep ==
  ASSUME NEW r \in Nat PROVE (r + 1) * (ResubscribeLimit + 1) =
                              r * (ResubscribeLimit + 1) + ResubscribeLimit + 1
BY LimitAssumption

\* ... and there are at most RestartLimit of them.
LEMMA RoundBound ==
  ASSUME NEW r \in 0..RestartLimit
  PROVE r * (ResubscribeLimit + 1) + ResubscribeLimit
          < (ResubscribeLimit + 1) * (RestartLimit + 1)
<1>1. RestartLimit \in Nat /\ ResubscribeLimit + 1 \in Nat
  BY LimitAssumption
<1>2. r * (ResubscribeLimit + 1) <= RestartLimit * (ResubscribeLimit + 1)
  BY <1>1
<1>3. (RestartLimit + 1) * (ResubscribeLimit + 1)
        = RestartLimit * (ResubscribeLimit + 1) + ResubscribeLimit + 1
  BY <1>1, RoundStep
<1> QED
  BY <1>1, <1>2, <1>3, LimitAssumption

\* The counters keep explaining the streak.
LEMMA PatienceStep == PatienceInv /\ [Next]_vars => PatienceInv'
<1> SUFFICES ASSUME PatienceInv, [Next]_vars PROVE PatienceInv'
  OBVIOUS
<1> USE LimitAssumption DEF PatienceInv, TypeOK, SupTypeOK, CountersExplainStreak, Counted
<1>0. restarts * (ResubscribeLimit + 1) \in Nat
  OBVIOUS
<1>1. ASSUME RequestRestart, Counted, failures' \in {0, failures},
             failures' = failures \/ failures = ResubscribeLimit
      PROVE PatienceInv'
  <2>1. CASE restarts < RestartLimit
    <3>1. restarts' = restarts + 1 /\ action' = "restart"
      BY <1>1, <2>1 DEF RequestRestart
    <3>2. restarts' * (ResubscribeLimit + 1)
            = restarts * (ResubscribeLimit + 1) + ResubscribeLimit + 1
      BY <3>1, RoundStep
    <3>3. streak' = streak + 1 /\ resubscribed' = 0
      BY <1>1, <3>1
    <3>4. failures' \in 0..ResubscribeLimit
          /\ (failures' = failures \/ failures = ResubscribeLimit)
      BY <1>1
    <3>5. streak' <= restarts' * (ResubscribeLimit + 1) + failures'
      <4> DEFINE paid == restarts * (ResubscribeLimit + 1)
      <4>1. streak <= paid + failures /\ paid \in Nat
            /\ restarts' * (ResubscribeLimit + 1) = paid + ResubscribeLimit + 1
        BY <1>0, <3>2
      <4> HIDE DEF paid
      <4> QED
        BY <4>1, <3>3, <3>4
    <3>6. resubscribed' <= failures'
      BY <3>3, <3>4
    <3>7. TypeOK'
      BY <2>1, <3>1, <3>3, <3>4
    <3> HIDE DEF TypeOK
    <3> QED
      BY <3>5, <3>6, <3>7
  <2>2. CASE ~(restarts < RestartLimit)
    <3>1. restarts' = 0 /\ action' = "degrade"
      BY <1>1, <2>2 DEF RequestRestart
    <3>2. streak' = 0 /\ resubscribed' = 0 /\ failures' \in 0..ResubscribeLimit
      BY <1>1, <3>1
    <3>3. restarts' * (ResubscribeLimit + 1) = 0
      BY <3>1
    <3>4. TypeOK'
      BY <3>1, <3>2
    <3>5. CountersExplainStreak'
      BY <3>2, <3>3
    <3> HIDE DEF TypeOK, CountersExplainStreak
    <3> QED
      BY <3>4, <3>5
  <2> QED
    BY <2>1, <2>2
<1>2. CASE Lost
  <2>1. CASE failures < ResubscribeLimit
    BY <1>0, <1>2, <2>1 DEF Lost, SubscriptionLost
  <2>2. CASE ~(failures < ResubscribeLimit)
    BY <1>1, <1>2, <2>2 DEF Lost, SubscriptionLost
  <2> QED
    BY <2>1, <2>2
<1>3. CASE Failed
  BY <1>1, <1>3 DEF Failed, BackendFailed
<1>4. CASE Healthy
  BY <1>4 DEF Healthy, Recovered
<1>5. CASE UNCHANGED vars
  BY <1>5 DEF vars, supVars
<1> QED
  BY <1>2, <1>3, <1>4, <1>5 DEF Next

\* The inductive invariant of the supervisor.
THEOREM PatienceInvariance == Spec => []PatienceInv
<1>1. Init => PatienceInv
  BY LimitAssumption DEF Init, SupInit, PatienceInv, TypeOK, SupTypeOK, CountersExplainStreak
<1> QED
  BY <1>1, PatienceStep, PTL DEF Spec

\* A backend that never recovers reaches degraded mode in bounded time.
THEOREM Patience == Spec => []PatienceIsBounded
<1>1. PatienceInv => PatienceIsBounded
  <2> SUFFICES ASSUME PatienceInv PROVE PatienceIsBounded
    OBVIOUS
  <2>1. restarts \in 0..RestartLimit /\ failures \in 0..ResubscribeLimit /\ streak \in Nat
    BY DEF PatienceInv, TypeOK, SupTypeOK
  <2>2. restarts * (ResubscribeLimit + 1) + ResubscribeLimit
          < (ResubscribeLimit + 1) * (RestartLimit + 1)
    BY <2>1, RoundBound
  <2>3. streak <= restarts * (ResubscribeLimit + 1) + failures
    BY DEF PatienceInv, CountersExplainStreak
  <2>4. restarts * (ResubscribeLimit + 1) \in Nat
        /\ (ResubscribeLimit + 1) * (RestartLimit + 1) \in Nat
    BY <2>1, LimitAssumption
  <2> QED
    BY <2>1, <2>2, <2>3, <2>4, LimitAssumption DEF PatienceIsBounded
<1> QED
  BY <1>1, PatienceInvariance, PTL

\* The supervisor escalates after ResubscribeLimit attempts.
THEOREM Escalation == Spec => []EscalatesOnTime
<1>1. PatienceInv => EscalatesOnTime
  BY LimitAssumption DEF PatienceInv, TypeOK, SupTypeOK, CountersExplainStreak, EscalatesOnTime
<1> QED
  BY <1>1, PatienceInvariance, PTL

-----------------------------------------------------------------------------
(* BlobStore: the references, the files and the reader *)

\* A finite set of naturals has a greatest element: the last blob of a page.
LEMMA MaxExists ==
  ASSUME NEW S \in SUBSET Nat, IsFiniteSet(S), S # {}
  PROVE Max(S) \in S /\ \A x \in S : Max(S) >= x
<1> DEFINE Above(m) == {x \in S : x > m}
           Sizes == {Cardinality(Above(m)) : m \in S}
<1>1. \A m \in S : IsFiniteSet(Above(m)) /\ Cardinality(Above(m)) \in Nat
  BY FS_Subset, FS_CardinalityType
<1>2. PICK n \in Sizes : \A k \in Sizes : ~(<<k, n>> \in OpToRel(<, Nat))
  <2>1. Sizes \subseteq Nat /\ Sizes # {}
    BY <1>1
  <2> HIDE DEF Sizes
  <2> QED
    BY <2>1, NatLessThanWellFounded, WFMin
<1>3. PICK m \in S : n = Cardinality(Above(m))
  BY <1>2
<1>4. \A y \in S : m >= y
  <2> SUFFICES ASSUME NEW y \in S, y > m PROVE FALSE
    OBVIOUS
  <2>0. y \in Nat /\ m \in Nat
    OBVIOUS
  <2>1. Above(y) \subseteq Above(m)
    <3> SUFFICES ASSUME NEW x \in S, x > y PROVE x > m
      OBVIOUS
    <3> QED
      BY <2>0, x \in Nat
  <2>2. y \in Above(m) /\ y \notin Above(y)
    BY <2>0
  <2>3. Cardinality(Above(y)) < Cardinality(Above(m))
    <3>1. IsFiniteSet(Above(m)) /\ Cardinality(Above(m)) \in Nat /\ Cardinality(Above(y)) \in Nat
      BY <1>1
    <3> HIDE DEF Above
    <3>2. Above(y) \in SUBSET Above(m) /\ Above(y) # Above(m)
      BY <2>1, <2>2
    <3> QED
      BY <3>1, <3>2, FS_Subset
  <2>4. <<Cardinality(Above(y)), n>> \in OpToRel(<, Nat)
    BY <1>1, <1>3, <2>3 DEF OpToRel
  <2> QED
    BY <1>2, <2>4
<1> QED
  BY <1>4 DEF Max

\* What a clip refers to is finite, and names blobs of its own body only.
LEMMA SpilledType ==
  ASSUME NEW c \in Clips
  PROVE /\ Spilled(c) \in Seq(Blobs)
        /\ DOMAIN Spilled(c) = 1 .. Len(Spilled(c)) /\ Len(Spilled(c)) \in Nat
        /\ Needs(c) \subseteq Blobs
        /\ \A b : IsFiniteSet(Flavors(c, b)) /\ Uses(c, b) \in Nat
        /\ \A b : Uses(c, b) > 0 => b \in Needs(c)
<1>1. Spilled(c) \in Seq(Blobs)
  BY BlobAssumption DEF Spilled
<1>2. DOMAIN Spilled(c) = 1 .. Len(Spilled(c)) /\ Len(Spilled(c)) \in Nat
  BY <1>1
<1>3. Needs(c) \subseteq Blobs
  BY <1>1 DEF Needs
<1>4. ASSUME NEW b PROVE IsFiniteSet(Flavors(c, b)) /\ Uses(c, b) \in Nat
  <2>1. Flavors(c, b) \in SUBSET (1 .. Len(Spilled(c)))
    BY <1>2 DEF Flavors
  <2>2. IsFiniteSet(1 .. Len(Spilled(c)))
    BY <1>2, FS_Interval
  <2>3. IsFiniteSet(Flavors(c, b))
    BY <2>1, <2>2, FS_Subset
  <2> QED
    BY <2>3, FS_CardinalityType DEF Uses
<1>5. ASSUME NEW b, Uses(c, b) > 0 PROVE b \in Needs(c)
  <2>1. Flavors(c, b) # {}
    BY <1>5, FS_EmptySet DEF Uses
  <2> QED
    BY <2>1 DEF Flavors, Needs
<1> QED
  BY <1>1, <1>2, <1>3, <1>4, <1>5

\* ... and so is what the clips of a table refer to.
LEMMA ReferencesFinite ==
  ASSUME NEW S \in SUBSET Clips, NEW b
  PROVE IsFiniteSet(References(S, b)) /\ Cardinality(References(S, b)) \in Nat
<1> DEFINE f == [c \in S |-> {c} \X Flavors(c, b)]
           T == {{c} \X Flavors(c, b) : c \in S}
<1>1. IsFiniteSet(S)
  BY BlobAssumption, FS_Subset
<1>2. f \in Surjection(S, T)
  BY DEF Surjection
<1>3. IsFiniteSet(T)
  <2> HIDE DEF f, T
  <2> QED
    BY <1>1, <1>2, FS_Surjection
<1>4. \A t \in T : IsFiniteSet(t)
  <2> SUFFICES ASSUME NEW c \in S PROVE IsFiniteSet({c} \X Flavors(c, b))
    OBVIOUS
  <2> QED
    BY SpilledType, FS_Singleton, FS_Product
<1>5. References(S, b) = UNION T
  BY DEF References
<1> HIDE DEF f, T
<1>6. IsFiniteSet(References(S, b))
  BY <1>3, <1>4, <1>5, FS_UNION
<1> QED
  BY <1>6, FS_CardinalityType

\* The references of separate tables add up.
LEMMA ReferencesSplit ==
  ASSUME NEW S \in SUBSET Clips, NEW T \in SUBSET Clips, NEW b, S \cap T = {}
  PROVE Cardinality(References(S \cup T, b))
          = Cardinality(References(S, b)) + Cardinality(References(T, b))
<1>1. References(S \cup T, b) = References(S, b) \cup References(T, b)
  BY DEF References
<1>2. References(S, b) \cap References(T, b) = {}
  <2> SUFFICES ASSUME NEW r \in References(S, b), r \in References(T, b) PROVE FALSE
    OBVIOUS
  <2>1. PICK c \in S : r \in {c} \X Flavors(c, b)
    BY DEF References
  <2>2. PICK d \in T : r \in {d} \X Flavors(d, b)
    BY DEF References
  <2> QED
    BY <2>1, <2>2
<1>3. Cardinality(References(S, b) \cap References(T, b)) = 0
  BY <1>2, FS_EmptySet
<1>4. /\ IsFiniteSet(References(S, b)) /\ Cardinality(References(S, b)) \in Nat
      /\ IsFiniteSet(References(T, b)) /\ Cardinality(References(T, b)) \in Nat
  BY ReferencesFinite
<1> DEFINE A == References(S, b)
           B == References(T, b)
<1> HIDE DEF A, B
<1>5. Cardinality(A \cup B) = Cardinality(A) + Cardinality(B) - Cardinality(A \cap B)
  <2>1. IsFiniteSet(A) /\ IsFiniteSet(B)
    BY <1>4 DEF A, B
  <2> QED
    BY ONLY <2>1, FS_Union
<1>6. Cardinality(A \cap B) = 0 /\ Cardinality(A) \in Nat /\ Cardinality(B) \in Nat
  BY ONLY <1>3, <1>4 DEF A, B
<1>7. Cardinality(A \cup B) = Cardinality(A) + Cardinality(B)
  BY ONLY <1>5, <1>6
<1> QED
  BY ONLY <1>1, <1>7 DEF A, B

\* One clip refers to a blob once per flavor.
LEMMA ReferencesOfOne ==
  ASSUME NEW c \in Clips, NEW b
  PROVE Cardinality(References({c}, b)) = Uses(c, b)
<1>1. References({c}, b) = {c} \X Flavors(c, b)
  BY DEF References
<1>2. IsFiniteSet(Flavors(c, b)) /\ IsFiniteSet({c}) /\ Cardinality({c}) = 1
  BY SpilledType, FS_Singleton
<1>3. Cardinality({c} \X Flavors(c, b)) = Cardinality({c}) * Cardinality(Flavors(c, b))
  BY <1>2, FS_Product
<1>4. Uses(c, b) = Cardinality(Flavors(c, b)) /\ Uses(c, b) \in Nat
  BY SpilledType DEF Uses
<1>5. 1 * Uses(c, b) = Uses(c, b)
  BY <1>4
<1> QED
  BY <1>1, <1>2, <1>3, <1>4, <1>5

\* What a row entering the table adds ...
LEMMA OccurrencesGrow ==
  ASSUME blobRows \subseteq Clips, NEW b, NEW c \in Clips, c \notin blobRows,
         blobRows' = blobRows \cup {c}
  PROVE Occurrences(b) \in Nat /\ Occurrences(b)' = Occurrences(b) + Uses(c, b)
<1>1. blobRows \cap {c} = {} /\ {c} \in SUBSET Clips /\ blobRows \in SUBSET Clips
  OBVIOUS
<1>2. Occurrences(b)' = Cardinality(References(blobRows \cup {c}, b))
  BY DEF Occurrences, References
<1>3. Cardinality(References(blobRows \cup {c}, b))
        = Cardinality(References(blobRows, b)) + Cardinality(References({c}, b))
  BY <1>1, ReferencesSplit
<1>4. Cardinality(References({c}, b)) = Uses(c, b)
  BY ReferencesOfOne
<1> QED
  BY <1>1, <1>2, <1>3, <1>4, ReferencesFinite DEF Occurrences

\* ... and what rows leaving it take away.
LEMMA OccurrencesShrink ==
  ASSUME blobRows \subseteq Clips, NEW b, NEW S \in SUBSET blobRows,
         blobRows' = blobRows \ S
  PROVE /\ Occurrences(b) \in Nat /\ Occurrences(b)' \in Nat
        /\ Cardinality(References(S, b)) \in Nat
        /\ Occurrences(b)' = Occurrences(b) - Cardinality(References(S, b))
<1>1. S \cap (blobRows \ S) = {} /\ S \cup (blobRows \ S) = blobRows
      /\ S \in SUBSET Clips /\ blobRows \ S \in SUBSET Clips
  OBVIOUS
<1>2. Cardinality(References(blobRows, b))
        = Cardinality(References(S, b)) + Cardinality(References(blobRows \ S, b))
  BY <1>1, ReferencesSplit
<1>3. Cardinality(References(S, b)) \in Nat /\ Cardinality(References(blobRows \ S, b)) \in Nat
  BY <1>1, ReferencesFinite
<1>4. Occurrences(b)' = Cardinality(References(blobRows \ S, b))
  BY DEF Occurrences, References
<1> QED
  BY <1>2, <1>3, <1>4 DEF Occurrences

\* The rows about the blobs are accounted for in states of the right shape:
\* this is inductive as it stands.
BlobInv == BlobTypeOK /\ BlobsAreAccounted

\* A clip enters the table with every blob it names counted and on disk.
LEMMA Entering ==
  ASSUME BlobInv, NEW c \in Clips, c \notin blobRows, Puttable(Needs(c)),
         file' = Published(Needs(c)), blobRows' = blobRows \cup {c}, Referenced(c),
         UNCHANGED <<hurt, cut>>
  PROVE /\ blobRows' \subseteq Clips /\ counted' \subseteq Blobs
        /\ refcount' \in [Blobs -> Nat] /\ file' \in [Blobs -> {"none", "good", "bad"}]
        /\ ReferencesAreCounted' /\ ReferencedAreKept'
<1> USE DEF BlobInv, BlobTypeOK, BlobsAreAccounted
<1>1. Needs(c) \subseteq Blobs /\ \A b : Uses(c, b) \in Nat /\ (Uses(c, b) > 0 => b \in Needs(c))
  BY SpilledType
<1>2. refcount' \in [Blobs -> Nat] /\ \A b \in Blobs : refcount'[b] = refcount[b] + Uses(c, b)
  BY <1>1 DEF Referenced
<1>3. counted' = counted \cup Needs(c)
  BY DEF Referenced
<1>4. file' \in [Blobs -> {"none", "good", "bad"}]
      /\ \A b \in Blobs : file'[b] = IF b \in Needs(c) /\ file[b] = "none" THEN "good" ELSE file[b]
  BY DEF Published
<1>5. ASSUME NEW b \in Blobs
      PROVE Occurrences(b) \in Nat /\ Occurrences(b)' = Occurrences(b) + Uses(c, b)
  BY OccurrencesGrow
<1>6. ReferencesAreCounted'
  <2> SUFFICES ASSUME NEW b \in Blobs
               PROVE /\ refcount'[b] >= Occurrences(b)'
                     /\ cut' = 0 => refcount'[b] = Occurrences(b)'
                     /\ refcount'[b] > 0 => b \in counted'
    BY DEF ReferencesAreCounted
  <2>1. /\ refcount[b] >= Occurrences(b)
        /\ cut = 0 => refcount[b] = Occurrences(b)
        /\ refcount[b] > 0 => b \in counted
        /\ refcount[b] \in Nat
    BY DEF ReferencesAreCounted
  <2> QED
    BY <1>1, <1>2, <1>3, <1>5, <2>1
<1>7. ReferencedAreKept'
  <2> SUFFICES ASSUME NEW b \in Blobs, refcount'[b] > 0 PROVE file'[b] = "good" \/ b \in hurt
    BY DEF ReferencedAreKept
  <2>1. CASE b \in Needs(c)
    BY <1>4, <2>1 DEF Puttable
  <2>2. CASE b \notin Needs(c)
    <3>1. Uses(c, b) = 0 /\ refcount[b] \in Nat
      BY <1>1, <2>2
    <3> QED
      BY <1>2, <1>4, <2>2, <3>1 DEF ReferencedAreKept
  <2> QED
    BY <2>1, <2>2
<1> QED
  BY <1>1, <1>2, <1>3, <1>4, <1>6, <1>7

\* Rows leave the table; no more than their references are released.
LEMMA Leaving ==
  ASSUME BlobInv, NEW S \in SUBSET blobRows, blobRows' = blobRows \ S,
         NEW less \in [Blobs -> Nat],
         \A b \in Blobs : less[b] <= Cardinality(References(S, b)),
         refcount' = [b \in Blobs |-> refcount[b] - less[b]],
         cut' = 0 => cut = 0 /\ \A b \in Blobs : less[b] = Cardinality(References(S, b)),
         UNCHANGED <<counted, file, hurt>>
  PROVE /\ refcount' \in [Blobs -> Nat]
        /\ ReferencesAreCounted' /\ ReferencedAreKept'
<1> USE DEF BlobInv, BlobTypeOK, BlobsAreAccounted
<1>1. ASSUME NEW b \in Blobs
      PROVE /\ refcount'[b] \in Nat /\ refcount'[b] <= refcount[b]
            /\ refcount'[b] >= Occurrences(b)'
            /\ cut' = 0 => refcount'[b] = Occurrences(b)'
  <2>1. refcount[b] >= Occurrences(b) /\ (cut = 0 => refcount[b] = Occurrences(b))
    BY DEF ReferencesAreCounted
  <2>2. /\ Occurrences(b) \in Nat /\ Occurrences(b)' \in Nat
        /\ Cardinality(References(S, b)) \in Nat
        /\ Occurrences(b)' = Occurrences(b) - Cardinality(References(S, b))
    BY OccurrencesShrink
  <2>3. refcount[b] \in Nat /\ less[b] \in Nat /\ refcount'[b] = refcount[b] - less[b]
    OBVIOUS
  <2> QED
    BY <2>1, <2>2, <2>3
<1>2. refcount' \in [Blobs -> Nat]
  BY <1>1
<1>3. ReferencesAreCounted'
  BY <1>1 DEF ReferencesAreCounted
<1>4. ReferencedAreKept'
  BY <1>1 DEF ReferencedAreKept
<1> QED
  BY <1>2, <1>3, <1>4

\* One deletion, of any set of rows, releases exactly their references.
LEMMA LeavingWhole ==
  ASSUME BlobInv, NEW S \in SUBSET blobRows, blobRows' = blobRows \ S,
         refcount' = Released(S), UNCHANGED <<counted, file, hurt, cut>>
  PROVE /\ refcount' \in [Blobs -> Nat]
        /\ ReferencesAreCounted' /\ ReferencedAreKept'
<1> DEFINE less == [b \in Blobs |-> Cardinality(References(S, b))]
<1>1. \A b \in Blobs : Cardinality(References(S, b)) \in Nat
  BY ReferencesFinite DEF BlobInv, BlobTypeOK
<1>2. less \in [Blobs -> Nat] /\ \A b \in Blobs : less[b] <= Cardinality(References(S, b))
  BY <1>1
<1>3. refcount' = [b \in Blobs |-> refcount[b] - less[b]]
  BY DEF Released
<1>4. \A b \in Blobs : less[b] = Cardinality(References(S, b))
  OBVIOUS
<1> HIDE DEF less
<1> QED
  BY <1>2, <1>3, <1>4, Leaving

\* Nothing happens to the rows or their counts.
LEMMA Resting ==
  ASSUME BlobInv, UNCHANGED <<blobRows, refcount, cut>>,
         \A b \in Blobs : refcount[b] > 0 => b \in counted'
  PROVE ReferencesAreCounted'
BY DEF BlobInv, BlobsAreAccounted, ReferencesAreCounted, Occurrences, References

\* What a scrub sends to quarantine is referenced and not good: a disk fault hit it.
LEMMA PageIsHurt ==
  ASSUME BlobInv
  PROVE /\ Page \subseteq Blobs /\ IsFiniteSet(Page)
        /\ \A b \in Page : file[b] # "good" => b \in hurt
<1>1. Page \subseteq Live /\ Page \subseteq Blobs
  BY DEF Page, Beyond, Scrubbable, Live, BlobInv, BlobTypeOK
<1>2. IsFiniteSet(Page)
  BY <1>1, BlobAssumption, FS_Subset
<1>3. \A b \in Page : file[b] # "good" => b \in hurt
  BY <1>1 DEF Live, BlobInv, BlobsAreAccounted, ReferencedAreKept
<1> QED
  BY <1>1, <1>2, <1>3

\* Every step of the store keeps the accounts.
LEMMA BlobStep == BlobInv /\ [BlobNext]_blobVars => BlobInv'
<1> SUFFICES ASSUME BlobInv, [BlobNext]_blobVars PROVE BlobInv'
  OBVIOUS
<1>0. /\ blobRows \subseteq Clips /\ sealed \subseteq Clips
      /\ counted \subseteq Blobs /\ quarantine \subseteq Blobs /\ hurt \subseteq Blobs
      /\ refcount \in [Blobs -> Nat]
      /\ file \in [Blobs -> {"none", "good", "bad"}]
      /\ temporary \in BOOLEAN /\ cut \in 0 .. MaxCuts
      /\ cursor \in Blobs \cup {0} /\ diskFaults \in 0 .. MaxFaults
      /\ ReferencesAreCounted /\ ReferencedAreKept /\ OnlyDamageIsQuarantined
  BY DEF BlobInv, BlobTypeOK, BlobsAreAccounted
<1> USE BlobAssumption
<1>1. ASSUME NEW c \in Clips, InsertBlobs(c) PROVE BlobInv'
  <2>1. /\ blobRows' \subseteq Clips /\ counted' \subseteq Blobs
        /\ refcount' \in [Blobs -> Nat] /\ file' \in [Blobs -> {"none", "good", "bad"}]
        /\ ReferencesAreCounted' /\ ReferencedAreKept'
    BY <1>1, Entering DEF InsertBlobs
  <2> QED
    BY <1>0, <1>1, <2>1 DEF InsertBlobs, BlobInv, BlobTypeOK, BlobsAreAccounted, OnlyDamageIsQuarantined
<1>2. ASSUME NEW c \in Clips, InsertBlobsFails(c) PROVE BlobInv'
  <2>1. file' \in [Blobs -> {"none", "good", "bad"}] /\ \A b \in Blobs : file[b] = "good" => file'[b] = "good"
    BY <1>0, <1>2 DEF InsertBlobsFails, Published
  <2>2. temporary' \in BOOLEAN /\ cursor' \in Blobs \cup {0}
    BY <1>0, <1>2 DEF InsertBlobsFails
  <2>3. UNCHANGED <<blobTable, hurt, diskFaults>>
    BY <1>2 DEF InsertBlobsFails
  <2>4. ReferencesAreCounted'
    BY <1>0, <2>3, Resting DEF blobTable, ReferencesAreCounted
  <2>5. ReferencedAreKept'
    BY <1>0, <2>1, <2>3 DEF blobTable, ReferencedAreKept
  <2> QED
    BY <1>0, <2>1, <2>2, <2>3, <2>4, <2>5
    DEF blobTable, BlobInv, BlobTypeOK, BlobsAreAccounted, OnlyDamageIsQuarantined
<1>3. ASSUME NEW c \in Clips, RetentionDies(c) PROVE BlobInv'
  <2>1. PICK n \in 0 .. Len(Spilled(c)) :
          refcount' = [b \in Blobs |-> refcount[b] - Cardinality(Flavors(c, b) \cap 1 .. n)]
    BY <1>3 DEF RetentionDies
  <2> DEFINE less == [b \in Blobs |-> Cardinality(Flavors(c, b) \cap 1 .. n)]
  <2>2. \A b \in Blobs : /\ Cardinality(Flavors(c, b) \cap 1 .. n) \in Nat
                         /\ Cardinality(Flavors(c, b) \cap 1 .. n) <= Cardinality(References({c}, b))
    <3> SUFFICES ASSUME NEW b \in Blobs
                 PROVE /\ Cardinality(Flavors(c, b) \cap 1 .. n) \in Nat
                       /\ Cardinality(Flavors(c, b) \cap 1 .. n) <= Cardinality(References({c}, b))
      OBVIOUS
    <3>1. IsFiniteSet(Flavors(c, b)) /\ Uses(c, b) = Cardinality(References({c}, b))
      BY SpilledType, ReferencesOfOne
    <3>2. /\ IsFiniteSet(Flavors(c, b) \cap 1 .. n)
          /\ Cardinality(Flavors(c, b) \cap 1 .. n) <= Cardinality(Flavors(c, b))
      BY <3>1, FS_Intersection
    <3> QED
      BY <3>1, <3>2, FS_CardinalityType DEF Uses
  <2>3. /\ less \in [Blobs -> Nat]
        /\ \A b \in Blobs : less[b] <= Cardinality(References({c}, b))
        /\ refcount' = [b \in Blobs |-> refcount[b] - less[b]]
    BY <2>1, <2>2
  <2>4. /\ {c} \in SUBSET blobRows /\ blobRows' = blobRows \ {c}
        /\ cut < MaxCuts /\ cut' = cut + 1 /\ cursor' = 0
        /\ UNCHANGED <<sealed, counted, file, temporary, quarantine, hurt, diskFaults>>
    BY <1>3 DEF RetentionDies
  <2>5. cut' # 0 /\ cut' \in 0 .. MaxCuts
    BY <1>0, <2>4
  <2> HIDE DEF less
  <2>6. /\ refcount' \in [Blobs -> Nat]
        /\ ReferencesAreCounted' /\ ReferencedAreKept'
    BY <2>3, <2>4, <2>5, Leaving
  <2> QED
    BY <1>0, <2>4, <2>5, <2>6 DEF BlobInv, BlobTypeOK, BlobsAreAccounted, OnlyDamageIsQuarantined
<1>4. ASSUME NEW S \in SUBSET blobRows, blobRows' = blobRows \ S, refcount' = Released(S),
             sealed' \subseteq Clips,
             UNCHANGED <<counted, file, temporary, quarantine, cursor, blobGhosts>>
      PROVE BlobInv'
  <2>1. /\ refcount' \in [Blobs -> Nat]
        /\ ReferencesAreCounted' /\ ReferencedAreKept'
    BY <1>4, LeavingWhole DEF blobGhosts
  <2> QED
    BY <1>0, <1>4, <2>1
    DEF blobGhosts, BlobInv, BlobTypeOK, BlobsAreAccounted, OnlyDamageIsQuarantined
<1>5. ASSUME NEW S \in SUBSET Clips, DeleteBlobs(S) PROVE BlobInv'
  BY <1>0, <1>4, <1>5 DEF DeleteBlobs
<1>6. ASSUME NEW c \in Clips, DeleteToGrace(c) PROVE BlobInv'
  <2>1. {c} \in SUBSET blobRows /\ sealed \cup {c} \subseteq Clips
    BY <1>0, <1>6 DEF DeleteToGrace
  <2> QED
    BY <1>4, <1>6, <2>1 DEF DeleteToGrace
<1>7. ASSUME NEW c \in Clips, RestoreFromGrace(c) PROVE BlobInv'
  <2>1. /\ sealed' \subseteq Clips /\ cursor' \in Blobs \cup {0}
        /\ UNCHANGED <<temporary, quarantine, hurt, cut, diskFaults>>
    BY <1>0, <1>7 DEF RestoreFromGrace, blobGhosts
  <2>2. /\ blobRows' \subseteq Clips /\ counted' \subseteq Blobs
        /\ refcount' \in [Blobs -> Nat] /\ file' \in [Blobs -> {"none", "good", "bad"}]
        /\ ReferencesAreCounted' /\ ReferencedAreKept'
    <3>1. CASE c \notin blobRows
      BY <1>7, <2>1, <3>1, Entering DEF RestoreFromGrace
    <3>2. CASE c \in blobRows
      <4>1. UNCHANGED <<blobRows, counted, refcount, file>>
        BY <1>7, <3>2 DEF RestoreFromGrace
      <4>2. ReferencesAreCounted'
        BY <1>0, <2>1, <4>1, Resting DEF ReferencesAreCounted
      <4> QED
        BY <1>0, <2>1, <4>1, <4>2 DEF ReferencedAreKept
    <3> QED
      BY <3>1, <3>2
  <2> QED
    BY <1>0, <2>1, <2>2 DEF BlobInv, BlobTypeOK, BlobsAreAccounted, OnlyDamageIsQuarantined
<1>8. ASSUME NEW S \in SUBSET Clips, PurgeGrace(S) PROVE BlobInv'
  <2>1. ReferencesAreCounted'
    BY <1>0, <1>8, Resting DEF PurgeGrace, blobGhosts, ReferencesAreCounted
  <2> QED
    BY <1>0, <1>8, <2>1 DEF PurgeGrace, blobGhosts, BlobInv, BlobTypeOK, BlobsAreAccounted,
                            OnlyDamageIsQuarantined, ReferencedAreKept
<1>9. ASSUME UNCHANGED <<blobRows, sealed, refcount, quarantine, hurt, cut, diskFaults>>,
             temporary' \in BOOLEAN, cursor' \in Blobs \cup {0},
             counted' \in {counted, counted \ Dead},
             NEW S \in SUBSET Reclaimed,
             file' = [b \in Blobs |-> IF b \in S THEN "none" ELSE file[b]]
      PROVE BlobInv'
  <2>1. \A b \in Blobs : refcount[b] > 0 => b \in counted' /\ b \notin S
    BY <1>0, <1>9 DEF ReferencesAreCounted, Dead, Live, Reclaimed
  <2>2. ReferencesAreCounted'
    BY <1>9, <2>1, Resting
  <2>3. file' \in [Blobs -> {"none", "good", "bad"}] /\ ReferencedAreKept'
    BY <1>0, <1>9, <2>1 DEF ReferencedAreKept
  <2>4. counted' \subseteq Blobs
    BY <1>0, <1>9
  <2> QED
    BY <1>0, <1>9, <2>2, <2>3, <2>4 DEF BlobInv, BlobTypeOK, BlobsAreAccounted, OnlyDamageIsQuarantined
<1>10. CASE CollectBlobs
  BY <1>0, <1>9, <1>10 DEF CollectBlobs, blobGhosts
<1>11. CASE CollectStops
  <2>1. Dead \subseteq Reclaimed
    BY DEF Reclaimed
  <2>2. CASE \E S \in SUBSET Dead :
               /\ file' = [b \in Blobs |-> IF b \in S THEN "none" ELSE file[b]]
               /\ UNCHANGED <<counted, temporary>>
    BY <1>0, <1>9, <1>11, <2>1, <2>2 DEF CollectStops, blobGhosts
  <2>3. CASE \E S \in SUBSET (Reclaimed \ Dead) :
               /\ file' = [b \in Blobs |-> IF b \in S \cup Dead THEN "none" ELSE file[b]]
               /\ counted' = counted \ Dead
               /\ temporary' \in {temporary, FALSE}
    <3>1. PICK S \in SUBSET (Reclaimed \ Dead) :
               file' = [b \in Blobs |-> IF b \in S \cup Dead THEN "none" ELSE file[b]]
      BY <2>3
    <3>2. S \cup Dead \in SUBSET Reclaimed
      BY <2>1
    <3>3. counted' = counted \ Dead /\ temporary' \in {temporary, FALSE}
      BY <2>3
    <3>4. UNCHANGED <<blobRows, sealed, refcount, quarantine, hurt, cut, diskFaults>>
          /\ cursor' \in {cursor, 0}
      BY <1>11 DEF CollectStops, blobGhosts
    <3> QED
      BY <1>0, <1>9, <3>1, <3>2, <3>3, <3>4
  <2> QED
    BY <1>11, <2>2, <2>3 DEF CollectStops
<1>12. ASSUME UNCHANGED <<blobRows, sealed, counted, refcount, temporary, hurt, cut, diskFaults>>,
              NEW S \in SUBSET Page, cursor' \in Blobs \cup {0},
              \A b \in S : file[b] # "good",
              file' = [b \in Blobs |-> IF b \in S THEN "none" ELSE file[b]],
              quarantine' \subseteq quarantine \cup S
       PROVE BlobInv'
  <2>1. S \subseteq Blobs /\ S \subseteq hurt
    BY <1>12, PageIsHurt
  <2>2. ReferencesAreCounted'
    BY <1>0, <1>12, Resting DEF ReferencesAreCounted
  <2>3. file' \in [Blobs -> {"none", "good", "bad"}] /\ ReferencedAreKept'
    BY <1>0, <1>12, <2>1 DEF ReferencedAreKept
  <2> QED
    BY <1>0, <1>12, <2>1, <2>2, <2>3 DEF BlobInv, BlobTypeOK, BlobsAreAccounted, OnlyDamageIsQuarantined
<1>13. CASE ScrubBlobs
  <2> DEFINE wrong == {b \in Page : file[b] # "good"}
  <2>1. /\ file' = [b \in Blobs |-> IF b \in wrong THEN "none" ELSE file[b]]
        /\ quarantine' = quarantine \cup wrong
    BY <1>13 DEF ScrubBlobs, Quarantined
  <2>2. cursor' \in Blobs \cup {0}
    <3>1. Page # {} => Max(Page) \in Page
      BY PageIsHurt, MaxExists
    <3>2. Page \subseteq Blobs
      BY PageIsHurt
    <3> QED
      BY <1>13, <3>1, <3>2 DEF ScrubBlobs
  <2>3. UNCHANGED <<blobRows, sealed, counted, refcount, temporary, hurt, cut, diskFaults>>
    BY <1>13 DEF ScrubBlobs, blobGhosts
  <2>4. wrong \in SUBSET Page /\ \A b \in wrong : file[b] # "good"
    OBVIOUS
  <2> HIDE DEF wrong
  <2> QED
    BY <1>12, <2>1, <2>2, <2>3, <2>4
<1>14. CASE ScrubStops
  <2>1. PICK b \in Page :
         /\ quarantine' = quarantine \cup {d \in Page : d < b /\ file[d] # "good"}
         /\ file' = [d \in Blobs |-> IF d \in Page /\ d <= b /\ file[d] # "good"
                                      THEN "none" ELSE file[d]]
    BY <1>14 DEF ScrubStops
  <2> DEFINE moved == {d \in Page : d <= b /\ file[d] # "good"}
  <2>2. file' = [d \in Blobs |-> IF d \in moved THEN "none" ELSE file[d]]
    BY <2>1
  <2>3. quarantine' \subseteq quarantine \cup moved
    <3>1. Page \subseteq Nat
      BY PageIsHurt
    <3>2. \A d \in Page : d < b => d <= b
      BY <3>1
    <3> QED
      BY <2>1, <3>2
  <2>4. moved \in SUBSET Page /\ \A d \in moved : file[d] # "good"
    OBVIOUS
  <2>5. UNCHANGED <<blobRows, sealed, counted, refcount, temporary, hurt, cut, diskFaults>>
        /\ cursor' \in Blobs \cup {0}
    BY <1>0, <1>14 DEF ScrubStops, blobGhosts
  <2> HIDE DEF moved
  <2> QED
    BY <1>12, <2>2, <2>3, <2>4, <2>5
<1>15. ASSUME NEW b \in Blobs, DiskFault(b) PROVE BlobInv'
  <2>1. PICK damage \in {"none", "bad"} : file' = [file EXCEPT ![b] = damage]
    BY <1>15 DEF DiskFault
  <2>2. /\ hurt' = hurt \cup {b} /\ diskFaults < MaxFaults /\ diskFaults' = diskFaults + 1
        /\ UNCHANGED <<blobRows, sealed, counted, refcount, quarantine, cut, temporary, cursor>>
    BY <1>15 DEF DiskFault, blobTable
  <2>3. ReferencesAreCounted'
    BY <1>0, <2>2, Resting DEF ReferencesAreCounted
  <2>4. file' \in [Blobs -> {"none", "good", "bad"}] /\ ReferencedAreKept'
    BY <1>0, <2>1, <2>2 DEF ReferencedAreKept
  <2> QED
    BY <1>0, <2>2, <2>3, <2>4 DEF BlobInv, BlobTypeOK, BlobsAreAccounted, OnlyDamageIsQuarantined
<1>16. ASSUME UNCHANGED <<blobTable, file, temporary, hurt, diskFaults>>, cursor' \in {cursor, 0}
       PROVE BlobInv'
  <2>1. ReferencesAreCounted'
    BY <1>0, <1>16, Resting DEF blobTable, ReferencesAreCounted
  <2> QED
    BY <1>0, <1>16, <2>1 DEF blobTable, BlobInv, BlobTypeOK, BlobsAreAccounted,
                             OnlyDamageIsQuarantined, ReferencedAreKept
<1>17. CASE BlobRestart
  BY <1>16, <1>17 DEF BlobRestart
<1>18. CASE UNCHANGED blobVars
  BY <1>16, <1>18 DEF blobVars, blobTable
<1> QED
  BY <1>1, <1>2, <1>3, <1>5, <1>6, <1>7, <1>8, <1>10, <1>11, <1>13, <1>14, <1>15, <1>17, <1>18
  DEF BlobNext

\* An empty store has nothing to account for.
LEMMA BlobStart == BlobInit => BlobInv
<1> SUFFICES ASSUME BlobInit PROVE BlobInv
  OBVIOUS
<1>1. \A b \in Blobs : Occurrences(b) = 0
  <2>1. \A b : References({}, b) = {}
    BY DEF References
  <2> QED
    BY <2>1, FS_EmptySet DEF BlobInit, Occurrences
<1>2. BlobTypeOK
  <2>1. cut \in 0 .. MaxCuts /\ diskFaults \in 0 .. MaxFaults
    BY BlobAssumption DEF BlobInit
  <2>2. refcount \in [Blobs -> Nat] /\ file \in [Blobs -> {"none", "good", "bad"}]
    BY DEF BlobInit
  <2>3. temporary \in BOOLEAN /\ cursor \in Blobs \cup {0}
    BY DEF BlobInit
  <2> QED
    BY <2>1, <2>2, <2>3 DEF BlobInit, BlobTypeOK
<1> QED
  BY <1>1, <1>2 DEF BlobInit, BlobInv, BlobsAreAccounted, ReferencesAreCounted, ReferencedAreKept,
                    OnlyDamageIsQuarantined

\* The rows kept about the blobs never lie about them: no count is below the
\* references of the table, no referenced body is lost but to a disk fault, and
\* nothing else is put in quarantine (update_blob_references, gc_blobs, scrub_blobs).
THEOREM BlobAccounts == BlobSpec => []BlobTypeOK /\ []BlobsAreAccounted
<1>1. BlobSpec => []BlobInv
  BY BlobStart, BlobStep, PTL DEF BlobSpec
<1>2. BlobInv => BlobTypeOK
  BY DEF BlobInv
<1>3. BlobInv => BlobsAreAccounted
  BY DEF BlobInv
<1> QED
  BY <1>1, <1>2, <1>3, PTL

\* What the reader sees of each clip, before a step and after it.
LEMMA ViewIs ==
  /\ ReaderView = [c \in Clips |-> IF c \notin blobRows THEN "absent"
                                   ELSE IF Hydrates(c) THEN "whole" ELSE "broken"]
  /\ ReaderView' = [c \in Clips |-> IF c \notin blobRows' THEN "absent"
                                    ELSE IF Hydrates(c)' THEN "whole" ELSE "broken"]
BY DEF ReaderView

\* Where no file of a row turns good or stops being good, nothing shows.
LEMMA SameView ==
  ASSUME blobRows' = blobRows,
         \A c \in blobRows : \A b \in Needs(c) : file'[b] = "good" <=> file[b] = "good"
  PROVE ReaderView' = ReaderView
<1>1. \A c \in blobRows : Hydrates(c)' <=> Hydrates(c)
  BY DEF Hydrates
<1> QED
  BY <1>1, ViewIs

\* A blob that a row names is counted.
LEMMA NeededIsCounted ==
  ASSUME BlobInv, NEW c \in blobRows, NEW b \in Needs(c)
  PROVE b \in Blobs /\ refcount[b] > 0
<1>1. c \in Clips /\ blobRows \subseteq Clips
  BY DEF BlobInv, BlobTypeOK
<1>2. b \in Blobs
  BY <1>1, SpilledType
<1>3. PICK i \in DOMAIN Spilled(c) : Spilled(c)[i] = b
  BY DEF Needs
<1>4. <<c, i>> \in References(blobRows, b)
  BY <1>3 DEF References, Flavors
<1>5. Occurrences(b) # 0 /\ Occurrences(b) \in Nat
  <2>1. References(blobRows, b) # {}
    BY <1>4
  <2> QED
    BY <1>1, <2>1, ReferencesFinite, FS_EmptySet DEF Occurrences
<1>6. refcount[b] >= Occurrences(b) /\ refcount[b] \in Nat
  BY <1>2 DEF BlobInv, BlobTypeOK, BlobsAreAccounted, ReferencesAreCounted
<1> QED
  BY <1>2, <1>5, <1>6

\* Every step of the store is a step of what the reader is promised, or none.
LEMMA ReaderStep == BlobInv /\ [BlobNext]_blobVars => [Reader!BytesNext]_Reader!bytesVars
<1> SUFFICES ASSUME BlobInv, [BlobNext]_blobVars
             PROVE Reader!BytesNext \/ UNCHANGED <<ReaderView, diskFaults>>
  BY DEF Reader!bytesVars
<1>0. /\ blobRows \subseteq Clips
      /\ file \in [Blobs -> {"none", "good", "bad"}]
      /\ \A c \in Clips : Needs(c) \subseteq Blobs
  BY SpilledType DEF BlobInv, BlobTypeOK
<1> DEFINE Goal == Reader!BytesNext \/ UNCHANGED <<ReaderView, diskFaults>>
\* The files that change become good: some broken clips are mended.
<1>1. ASSUME NEW S \in SUBSET Blobs, file' = Published(S), UNCHANGED <<blobRows, diskFaults>>
      PROVE Goal
  <2> DEFINE mended == {c \in Clips : ReaderView[c] = "broken" /\ ReaderView'[c] = "whole"}
  <2>1. \A b \in Blobs : file[b] = "good" => file'[b] = "good"
    BY <1>1 DEF Published
  <2>2. \A c \in blobRows : Hydrates(c) => Hydrates(c)'
    BY <1>0, <2>1 DEF Hydrates
  <2>3. ReaderView' = [c \in Clips |-> IF c \in mended THEN "whole" ELSE ReaderView[c]]
    BY <1>1, <2>2, ViewIs
  <2>4. CASE mended = {}
    <3>1. ReaderView' = [c \in Clips |-> ReaderView[c]]
      BY <2>3, <2>4
    <3>2. ReaderView = [c \in Clips |-> ReaderView[c]]
      BY ViewIs
    <3> QED
      BY <1>1, <3>1, <3>2
  <2>5. CASE mended # {}
    <3>1. mended \in SUBSET Clips /\ \A c \in mended : ReaderView[c] = "broken"
      OBVIOUS
    <3> HIDE DEF mended
    <3> QED
      BY <1>1, <2>3, <2>5, <3>1 DEF Reader!BytesNext, Reader!Mended
  <2> QED
    BY <2>4, <2>5
\* A clip enters the table with its files.
<1>2. ASSUME NEW c \in Clips, c \notin blobRows, Puttable(Needs(c)), file' = Published(Needs(c)),
             blobRows' = blobRows \cup {c}, UNCHANGED diskFaults
      PROVE Goal
  <2> DEFINE mended == {d \in Clips : ReaderView[d] = "broken" /\ ReaderView'[d] = "whole"}
  <2>1. \A b \in Blobs : file[b] = "good" => file'[b] = "good"
    BY <1>2 DEF Published
  <2>2. \A d \in blobRows : Hydrates(d) => Hydrates(d)'
    BY <1>0, <2>1 DEF Hydrates
  <2>3. Hydrates(c)'
    BY <1>0, <1>2 DEF Hydrates, Puttable, Published
  <2>4. ReaderView' = [d \in Clips |-> IF d = c \/ d \in mended THEN "whole" ELSE ReaderView[d]]
    BY <1>2, <2>2, <2>3, ViewIs
  <2>5. ReaderView[c] = "absent"
    BY <1>2, ViewIs
  <2>6. mended \in SUBSET {d \in Clips : ReaderView[d] = "broken"}
    OBVIOUS
  <2> HIDE DEF mended
  <2>7. Reader!Added(c)
    BY <1>2, <2>4, <2>5, <2>6 DEF Reader!Added
  <2> QED
    BY <2>7 DEF Reader!BytesNext
\* Rows leave the table.
<1>3. ASSUME NEW S \in SUBSET blobRows, blobRows' = blobRows \ S, UNCHANGED <<file, diskFaults>>
      PROVE Goal
  <2>1. \A d \in blobRows : Hydrates(d)' <=> Hydrates(d)
    BY <1>3 DEF Hydrates
  <2>2. ReaderView' = [d \in Clips |-> IF d \in S THEN "absent" ELSE ReaderView[d]]
    BY <1>0, <1>3, <2>1, ViewIs
  <2>3. Reader!Dropped(S) /\ S \in SUBSET Clips
    BY <1>0, <1>3, <2>2 DEF Reader!Dropped
  <2> QED
    BY <2>3 DEF Reader!BytesNext
\* The files of rows without a reference go.
<1>4. ASSUME NEW S \in SUBSET Reclaimed, file' = [b \in Blobs |-> IF b \in S THEN "none" ELSE file[b]],
             UNCHANGED <<blobRows, diskFaults>>
      PROVE Goal
  <2>1. \A c \in blobRows : \A b \in Needs(c) : b \in Blobs /\ b \notin S
    BY NeededIsCounted, <1>4
    DEF Reclaimed, Dead, Live, BlobInv, BlobsAreAccounted, ReferencesAreCounted
  <2>2. \A c \in blobRows : \A b \in Needs(c) : file'[b] = "good" <=> file[b] = "good"
    BY <1>4, <2>1
  <2> QED
    BY <1>4, <2>2, SameView
\* Files that are not good go.
<1>5. ASSUME NEW S \in SUBSET Blobs, \A b \in S : file[b] # "good",
             file' = [b \in Blobs |-> IF b \in S THEN "none" ELSE file[b]],
             UNCHANGED <<blobRows, diskFaults>>
      PROVE Goal
  <2>1. \A c \in blobRows : \A b \in Needs(c) : file'[b] = "good" <=> file[b] = "good"
    BY <1>0, <1>5
  <2> QED
    BY <1>5, <2>1, SameView
\* Nothing a reader could see happens.
<1>6. ASSUME UNCHANGED <<blobRows, file, diskFaults>> PROVE Goal
  BY <1>6, SameView
<1>7. ASSUME NEW c \in Clips, InsertBlobs(c) PROVE Goal
  BY <1>2, <1>7 DEF InsertBlobs
<1>8. ASSUME NEW c \in Clips, InsertBlobsFails(c) PROVE Goal
  <2>1. PICK n \in 0 .. Len(Spilled(c)) : file' = Published({Spilled(c)[i] : i \in 1 .. n})
    BY <1>8 DEF InsertBlobsFails
  <2>2. {Spilled(c)[i] : i \in 1 .. n} \in SUBSET Blobs
    <3>1. DOMAIN Spilled(c) = 1 .. Len(Spilled(c)) /\ Len(Spilled(c)) \in Nat /\ Needs(c) \subseteq Blobs
      BY SpilledType
    <3>2. {Spilled(c)[i] : i \in 1 .. n} \subseteq Needs(c)
      BY <3>1 DEF Needs
    <3> QED
      BY <3>1, <3>2
  <2>3. UNCHANGED <<blobRows, diskFaults>>
    BY <1>8 DEF InsertBlobsFails, blobTable
  <2> QED
    BY <1>1, <2>1, <2>2, <2>3
<1>9. ASSUME NEW c \in Clips, RetentionDies(c) PROVE Goal
  BY <1>3, <1>9 DEF RetentionDies
<1>10. ASSUME NEW c \in Clips, DeleteToGrace(c) PROVE Goal
  BY <1>3, <1>10 DEF DeleteToGrace, blobGhosts
<1>11. ASSUME NEW c \in Clips, RestoreFromGrace(c) PROVE Goal
  <2>1. UNCHANGED diskFaults
    BY <1>11 DEF RestoreFromGrace, blobGhosts
  <2>2. CASE c \notin blobRows
    BY <1>2, <1>11, <2>1, <2>2 DEF RestoreFromGrace
  <2>3. CASE c \in blobRows
    BY <1>6, <1>11, <2>1, <2>3 DEF RestoreFromGrace
  <2> QED
    BY <2>2, <2>3
<1>12. ASSUME NEW S \in SUBSET Clips, DeleteBlobs(S) \/ PurgeGrace(S) PROVE Goal
  BY <1>3, <1>6, <1>12 DEF DeleteBlobs, PurgeGrace, blobGhosts
<1>13. CASE CollectBlobs
  BY <1>4, <1>13 DEF CollectBlobs, blobGhosts
<1>14. CASE CollectStops
  <2>1. PICK S \in SUBSET Reclaimed : file' = [b \in Blobs |-> IF b \in S THEN "none" ELSE file[b]]
    <3>1. CASE \E S \in SUBSET Dead : file' = [b \in Blobs |-> IF b \in S THEN "none" ELSE file[b]]
      BY <3>1 DEF Reclaimed
    <3>2. CASE \E S \in SUBSET (Reclaimed \ Dead) :
                 file' = [b \in Blobs |-> IF b \in S \cup Dead THEN "none" ELSE file[b]]
      <4>1. PICK S \in SUBSET (Reclaimed \ Dead) :
                 file' = [b \in Blobs |-> IF b \in S \cup Dead THEN "none" ELSE file[b]]
        BY <3>2
      <4>2. S \cup Dead \in SUBSET Reclaimed
        BY DEF Reclaimed
      <4> QED
        BY <4>1, <4>2
    <3> QED
      BY <1>14, <3>1, <3>2 DEF CollectStops
  <2>2. UNCHANGED <<blobRows, diskFaults>>
    BY <1>14 DEF CollectStops, blobGhosts
  <2> QED
    BY <1>4, <2>1, <2>2
<1>15. CASE ScrubBlobs
  <2> DEFINE wrong == {b \in Page : file[b] # "good"}
  <2>1. file' = [b \in Blobs |-> IF b \in wrong THEN "none" ELSE file[b]]
    BY <1>15 DEF ScrubBlobs, Quarantined
  <2>2. wrong \in SUBSET Blobs /\ \A b \in wrong : file[b] # "good"
    BY PageIsHurt
  <2>3. UNCHANGED <<blobRows, diskFaults>>
    BY <1>15 DEF ScrubBlobs, blobGhosts
  <2> HIDE DEF wrong
  <2> QED
    BY <1>5, <2>1, <2>2, <2>3
<1>16. CASE ScrubStops
  <2>1. PICK b \in Page : file' = [d \in Blobs |-> IF d \in Page /\ d <= b /\ file[d] # "good"
                                                   THEN "none" ELSE file[d]]
    BY <1>16 DEF ScrubStops
  <2> DEFINE moved == {d \in Page : d <= b /\ file[d] # "good"}
  <2>2. file' = [d \in Blobs |-> IF d \in moved THEN "none" ELSE file[d]]
    BY <2>1
  <2>3. moved \in SUBSET Blobs /\ \A d \in moved : file[d] # "good"
    BY PageIsHurt
  <2>4. UNCHANGED <<blobRows, diskFaults>>
    BY <1>16 DEF ScrubStops, blobGhosts
  <2> HIDE DEF moved
  <2> QED
    BY <1>5, <2>2, <2>3, <2>4
<1>17. ASSUME NEW b \in Blobs, DiskFault(b) PROVE Goal
  <2> DEFINE S == {c \in blobRows : Hydrates(c) /\ b \in Needs(c)}
  <2>1. PICK damage \in {"none", "bad"} : file' = [file EXCEPT ![b] = damage]
    BY <1>17 DEF DiskFault
  <2>2. blobRows' = blobRows /\ diskFaults' = diskFaults + 1
    BY <1>17 DEF DiskFault, blobTable
  <2>3. \A c \in blobRows : Hydrates(c)' <=> Hydrates(c) /\ b \notin Needs(c)
    BY <1>0, <2>1 DEF Hydrates
  <2>4. ReaderView' = [c \in Clips |-> IF c \in S THEN "broken" ELSE ReaderView[c]]
    BY <1>0, <2>2, <2>3, ViewIs
  <2>5. S \in SUBSET Clips /\ \A c \in S : ReaderView[c] = "whole"
    BY <1>0, ViewIs
  <2> HIDE DEF S
  <2>6. Reader!Damaged(S)
    BY <2>2, <2>4, <2>5 DEF Reader!Damaged
  <2> QED
    BY <2>5, <2>6 DEF Reader!BytesNext
<1>18. CASE BlobRestart
  BY <1>6, <1>18 DEF BlobRestart, blobTable
<1>19. CASE UNCHANGED blobVars
  BY <1>6, <1>19 DEF blobVars
<1> QED
  BY <1>7, <1>8, <1>9, <1>10, <1>11, <1>12, <1>13, <1>14, <1>15, <1>16, <1>17, <1>18, <1>19
  DEF BlobNext

\* A clip enters the table with its bytes and only a disk fault takes them away,
\* through spill, collection, scrub, grace bin and every crash in them: the
\* blob store implements ClipBytes (spill_flavors, gc_blobs, scrub_blobs).
THEOREM BytesAreKept == BlobSpec => ReaderKeepsBytes
<1>1. BlobInit => Reader!BytesInit
  BY ViewIs DEF BlobInit, Reader!BytesInit
<1>2. BlobSpec => []BlobInv
  BY BlobStart, BlobStep, PTL DEF BlobSpec
<1> QED
  BY <1>1, <1>2, ReaderStep, PTL DEF BlobSpec, ReaderKeepsBytes, Reader!BytesSpec

-----------------------------------------------------------------------------
(* RetentionPass: what a pass condemns, and what its report is worth *)

Rows == [id : RetIds, at : 0 .. RetMaxNow]

\* Rows in this order: different ones, the second not the older.
Older == {p \in Rows \X Rows : p[1].id # p[2].id /\ p[1].at <= p[2].at}
InOrder(s) == s \in Seq(Rows) /\ Ordered(s, Older)

\* Filtering keeps what it should, in order.
LEMMA WhereIs ==
  ASSUME NEW C, NEW s \in Seq(C), NEW S
  PROVE /\ Where(s, S) \in Seq(C) /\ Listed(Where(s, S)) = Listed(s) \cap S
        /\ Len(Where(s, S)) <= Len(s) /\ (Distinct(s) => Distinct(Where(s, S)))
        /\ \A R : Ordered(s, R) => Ordered(Where(s, S), R)
<1> DEFINE kept == Where(s, S)
<1>1. kept = KeepIterated(s, S)[DOMAIN s]
  BY KeptIsFolded DEF Where, KeptOf
<1> HIDE DEF kept
<1> QED
  BY <1>1, KeepIs, KeepOrders DEF kept

\* In order means: no id twice, and no row younger than a later one.
LEMMA OrderIs ==
  ASSUME NEW s, InOrder(s)
  PROVE /\ s \in Seq(Rows) /\ Len(s) \in Nat /\ DOMAIN s = 1..Len(s) /\ Distinct(s)
        /\ \A i \in 1..Len(s) : s[i] \in Rows /\ s[i].at \in Nat /\ s[i].id \in RetIds
        /\ \A i, j \in 1..Len(s) : i < j => s[i].id # s[j].id /\ s[i].at <= s[j].at
        /\ \A i, j \in 1..Len(s) : s[i].id = s[j].id => i = j
        /\ \A x, y \in Listed(s) : x.id = y.id => x = y
        /\ Listed(s) \subseteq Rows
<1>1. s \in Seq(Rows) /\ Len(s) \in Nat /\ DOMAIN s = 1..Len(s) /\ Ordered(s, Older)
  BY DEF InOrder
<1>2. \A i \in 1..Len(s) : s[i] \in Rows
  BY <1>1
<1>3. \A i \in 1..Len(s) : s[i] \in Rows /\ s[i].at \in Nat /\ s[i].id \in RetIds
  BY <1>2 DEF Rows
<1>4. \A i, j \in 1..Len(s) : i < j => s[i].id # s[j].id /\ s[i].at <= s[j].at
  BY <1>1 DEF Ordered, Older
<1>5. ASSUME NEW i \in 1..Len(s), NEW j \in 1..Len(s), s[i].id = s[j].id PROVE i = j
  <2>1. i < j \/ j < i \/ i = j
    BY <1>1
  <2> QED
    BY <1>4, <1>5, <2>1
<1>6. \A x, y \in Listed(s) : x.id = y.id => x = y
  BY <1>5 DEF Listed
<1>7. Distinct(s)
  BY <1>5 DEF Distinct
<1>8. Listed(s) \subseteq Rows
  BY <1>2 DEF Listed
<1> QED
  BY ONLY <1>1, <1>3, <1>4, <1>5, <1>6, <1>7, <1>8, <1>2

\* The first n, or all of it.
LEMMA FirstIs ==
  ASSUME NEW C, NEW s \in Seq(C), NEW n \in Nat
  PROVE /\ FirstOf(s, n) \in Seq(C) /\ Len(FirstOf(s, n)) = IF n < Len(s) THEN n ELSE Len(s)
        /\ \A i \in 1..Len(FirstOf(s, n)) : FirstOf(s, n)[i] = s[i]
        /\ Listed(FirstOf(s, n)) \subseteq Listed(s)
        /\ (Distinct(s) => Distinct(FirstOf(s, n))) /\ (Len(s) <= n => FirstOf(s, n) = s)
<1> DEFINE m == IF n < Len(s) THEN n ELSE Len(s)
           f == FirstOf(s, n)
<1>1. Len(s) \in Nat /\ m \in Nat /\ m <= Len(s) /\ m <= n /\ (Len(s) <= n => m = Len(s))
  OBVIOUS
<1>2. f = SubSeq(s, 1, m)
  BY DEF FirstOf
<1> HIDE DEF f, m
<1>3. f \in Seq(C) /\ Len(f) = m /\ \A i \in 1..m : f[i] = s[i] /\ i \in 1..Len(s)
  BY <1>1, <1>2
<1>4. Listed(f) \subseteq Listed(s) /\ (Distinct(s) => Distinct(f))
  BY <1>3 DEF Listed, Distinct
<1>5. Len(s) <= n => f = s
  BY <1>1, <1>3, SeqEqual
<1> QED
  BY <1>3, <1>4, <1>5 DEF f, m

\* What comes after the first n.
LEMMA RestIs ==
  ASSUME NEW C, NEW s \in Seq(C), NEW n \in Nat
  PROVE /\ AfterFirst(s, n) \in Seq(C)
        /\ Len(AfterFirst(s, n)) = IF n < Len(s) THEN Len(s) - n ELSE 0
        /\ \A i \in 1..Len(AfterFirst(s, n)) : AfterFirst(s, n)[i] = s[n + i]
        /\ Listed(AfterFirst(s, n)) = {s[i] : i \in n + 1..Len(s)}
<1> DEFINE f == AfterFirst(s, n)
           m == IF n < Len(s) THEN Len(s) - n ELSE 0
<1>1. Len(s) \in Nat /\ m \in Nat /\ \A i \in 1..m : n + i \in n + 1..Len(s)
  OBVIOUS
<1>2. f \in Seq(C) /\ Len(f) = m /\ \A i \in 1..m : f[i] = s[n + i]
  BY DEF AfterFirst
<1>3. ASSUME NEW i \in n + 1..Len(s) PROVE \E j \in 1..m : f[j] = s[i]
  <2>1. i - n \in 1..m /\ n + (i - n) = i
    BY <1>1
  <2> QED
    BY <1>2, <2>1
<1> HIDE DEF f, m
<1>4. Listed(f) = {s[i] : i \in n + 1..Len(s)}
  <2>1. ASSUME NEW y \in Listed(f) PROVE y \in {s[i] : i \in n + 1..Len(s)}
    BY <1>1, <1>2 DEF Listed
  <2>2. ASSUME NEW i \in n + 1..Len(s) PROVE s[i] \in Listed(f)
    BY <1>2, <1>3 DEF Listed
  <2> QED
    BY <2>1, <2>2
<1> QED
  BY <1>2, <1>4 DEF f, m

\* The same rows, newest first.
LEMMA ReverseIs ==
  ASSUME NEW C, NEW s \in Seq(C)
  PROVE /\ Reverse(s) \in Seq(C) /\ Len(Reverse(s)) = Len(s)
        /\ \A i \in 1..Len(s) : Reverse(s)[i] = s[Len(s) - i + 1] /\ Len(s) - i + 1 \in 1..Len(s)
        /\ Listed(Reverse(s)) = Listed(s)
<1> DEFINE r == Reverse(s)
           n == Len(s)
<1>1. n \in Nat /\ \A i \in 1..n : s[i] \in C
  OBVIOUS
<1>2. r = [i \in 1..n |-> s[(n - i) + 1]]
  BY DEF Reverse
<1> HIDE DEF r, n
<1>3. \A i \in 1..n : n - i + 1 \in 1..n /\ n - (n - i + 1) + 1 = i
  BY <1>1
<1>4. /\ r \in Seq(C) /\ Len(r) = n /\ \A i \in 1..n : r[i] = s[n - i + 1]
  BY <1>1, <1>2, <1>3
<1>5. Listed(r) = Listed(s)
  <2>1. ASSUME NEW i \in 1..n PROVE r[i] \in Listed(s)
    BY <1>3, <1>4 DEF Listed, n
  <2>2. ASSUME NEW i \in 1..n PROVE s[i] \in Listed(r)
    <3>1. r[n - i + 1] = s[i] /\ n - i + 1 \in 1..n
      BY <1>3, <1>4
    <3> QED
      BY <1>4, <3>1 DEF Listed
  <2> QED
    BY <1>4, <2>1, <2>2 DEF Listed, n
<1> QED
  BY <1>3, <1>4, <1>5 DEF r, n

\* Ids of rows.
LEMMA IdsAre ==
  ASSUME NEW C, NEW s \in Seq(C)
  PROVE /\ IdsOf(s) = {row.id : row \in Listed(s)}
        /\ IsFiniteSet(IdsOf(s)) /\ Cardinality(IdsOf(s)) \in Nat /\ Cardinality(IdsOf(s)) <= Len(s)
<1>1. DOMAIN s = 1..Len(s) /\ Len(s) \in Nat
  OBVIOUS
<1>2. IdsOf(s) = {row.id : row \in Listed(s)}
  BY <1>1 DEF IdsOf, Listed
<1> DEFINE f == [i \in 1..Len(s) |-> s[i].id]
<1>3. f \in Surjection(1..Len(s), IdsOf(s))
  BY <1>1 DEF Surjection, IdsOf
<1>4. IsFiniteSet(1..Len(s)) /\ Cardinality(1..Len(s)) = Len(s)
  BY <1>1, FS_Interval
<1>5. IsFiniteSet(IdsOf(s)) /\ Cardinality(IdsOf(s)) <= Len(s)
  BY ONLY <1>3, <1>4, FS_Surjection
<1> QED
  BY <1>2, <1>5, FS_CardinalityType

\* What one query lists, oldest first, and then the other, newest first: of the rows
\* e of a rule those before a, and those beyond the m newest.
CandidatesOf(e, a, m, limit) ==
    LET aged == FirstOf(Where(e, {row \in ToSet(e) : row.at < a}), limit)
        over == FirstOf(AfterFirst(Reverse(e), m), limit - Len(aged))
    IN  aged \o Where(over, {row \in ToSet(over) : row.id \notin IdsOf(aged)})

\* If the limit was not reached, nothing is hidden by it: the second query stops
\* early only at rows that are older than an aged one.
LEMMA CandidatesCover ==
  ASSUME NEW e, InOrder(e), NEW a \in Int, NEW m \in Nat, NEW limit \in Nat,
         NEW listed, listed = CandidatesOf(e, a, m, limit)
  PROVE /\ listed \in Seq(Rows) /\ Listed(listed) \subseteq Listed(e)
        /\ Len(listed) < limit =>
             /\ \A row \in Listed(e) : row.at < a => row.id \in IdsOf(listed)
             /\ \A j \in m + 1..Len(e) : Reverse(e)[j].id \in IdsOf(listed)
<1> DEFINE young == {row \in ToSet(e) : row.at < a}
           all == Where(e, young)
           aged == FirstOf(all, limit)
           rev == Reverse(e)
           past == AfterFirst(rev, m)
           k == limit - Len(aged)
           over == FirstOf(past, k)
           fresh == {row \in ToSet(over) : row.id \notin IdsOf(aged)}
           rest == Where(over, fresh)
<1>1. /\ e \in Seq(Rows) /\ Len(e) \in Nat /\ Distinct(e)
      /\ \A x, y \in Listed(e) : x.id = y.id => x = y
      /\ \A i, j \in 1..Len(e) : i < j => e[i].at <= e[j].at
      /\ \A i \in 1..Len(e) : e[i].at \in Nat
  BY OrderIs
<1>2. young = {row \in Listed(e) : row.at < a}
  BY <1>1, ToSetLists
<1>3. all \in Seq(Rows) /\ Listed(all) = young /\ Distinct(all)
  BY <1>1, <1>2, WhereIs
<1> HIDE DEF all, young
<1>4. /\ aged \in Seq(Rows) /\ Len(aged) = (IF limit < Len(all) THEN limit ELSE Len(all))
      /\ Listed(aged) \subseteq Listed(all) /\ (Len(all) <= limit => aged = all)
  BY <1>3, FirstIs
<1>5. /\ rev \in Seq(Rows) /\ Len(rev) = Len(e) /\ Listed(rev) = Listed(e)
      /\ \A i \in 1..Len(e) : rev[i] = e[Len(e) - i + 1] /\ Len(e) - i + 1 \in 1..Len(e)
  BY <1>1, ReverseIs
<1> HIDE DEF aged, rev
<1>6. /\ past \in Seq(Rows) /\ Listed(past) = {rev[i] : i \in m + 1..Len(rev)}
      /\ Len(past) = (IF m < Len(rev) THEN Len(rev) - m ELSE 0)
      /\ \A i \in 1..Len(past) : past[i] = rev[m + i]
  BY <1>5, RestIs
<1>7. k \in Nat /\ Len(all) \in Nat /\ Len(aged) \in Nat
  BY <1>3, <1>4
<1> HIDE DEF past, k
<1>8. /\ over \in Seq(Rows) /\ Len(over) = (IF k < Len(past) THEN k ELSE Len(past))
      /\ \A i \in 1..Len(over) : over[i] = past[i]
      /\ Listed(over) \subseteq Listed(past) /\ (Len(past) <= k => over = past)
      /\ (Distinct(past) => Distinct(over))
  BY <1>6, <1>7, FirstIs
<1> HIDE DEF over
<1>9. fresh = {row \in Listed(over) : row.id \notin IdsOf(aged)}
  BY <1>8, ToSetLists
<1>10. rest \in Seq(Rows) /\ Listed(rest) = fresh /\ Len(rest) <= Len(over)
       /\ (Distinct(over) => Distinct(rest))
  BY <1>8, <1>9, WhereIs
<1> HIDE DEF rest, fresh
<1>11. listed = aged \o rest
  BY DEF CandidatesOf, aged, rest, all, young, over, past, rev, k, fresh
<1>12. /\ listed \in Seq(Rows) /\ Len(listed) = Len(aged) + Len(rest)
       /\ Listed(listed) = Listed(aged) \cup Listed(rest)
  <2>1. /\ listed \in Seq(Rows) /\ Len(listed) = Len(aged) + Len(rest)
        /\ \A i \in 1..Len(listed) : listed[i] = IF i <= Len(aged) THEN aged[i] ELSE rest[i - Len(aged)]
    <3>1. aged \in Seq(Rows) /\ rest \in Seq(Rows)
      BY <1>4, <1>10
    <3> QED
      BY ONLY <1>11, <3>1, ConcatProperties
  <2>2. Len(aged) \in Nat /\ Len(rest) \in Nat
    BY <1>4, <1>10
  <2>3. ASSUME NEW y \in Listed(listed) PROVE y \in Listed(aged) \cup Listed(rest)
    <3>1. PICK i \in 1..Len(listed) : y = listed[i]
      BY DEF Listed
    <3>2. CASE i <= Len(aged)
      BY <2>1, <2>2, <3>1, <3>2 DEF Listed
    <3>3. CASE ~(i <= Len(aged))
      <4>1. i - Len(aged) \in 1..Len(rest)
        BY <2>1, <2>2, <3>3
      <4> QED
        BY <2>1, <3>1, <3>3, <4>1 DEF Listed
    <3> QED
      BY <3>2, <3>3
  <2>4. ASSUME NEW i \in 1..Len(aged) PROVE aged[i] \in Listed(listed)
    <3>1. i \in 1..Len(listed) /\ i <= Len(aged)
      BY <2>1, <2>2
    <3> QED
      BY <2>1, <3>1 DEF Listed
  <2>5. ASSUME NEW i \in 1..Len(rest) PROVE rest[i] \in Listed(listed)
    <3> DEFINE j == Len(aged) + i
    <3>1. j \in 1..Len(listed) /\ ~(j <= Len(aged)) /\ j - Len(aged) = i
      BY <2>1, <2>2
    <3> HIDE DEF j
    <3> QED
      BY <2>1, <3>1 DEF Listed
  <2> QED
    BY <2>1, <2>3, <2>4, <2>5 DEF Listed
<1>13. Listed(listed) \subseteq Listed(e)
  <2>1. Listed(past) \subseteq Listed(rev)
    <3>1. \A i \in m + 1..Len(rev) : i \in 1..Len(rev)
      OBVIOUS
    <3> QED
      BY <1>6, <3>1 DEF Listed
  <2> QED
    BY <1>2, <1>3, <1>4, <1>5, <1>8, <1>9, <1>10, <1>12, <2>1
<1>14. /\ IdsOf(listed) = {row.id : row \in Listed(listed)} /\ IdsOf(aged) = {row.id : row \in Listed(aged)}
  BY <1>4, <1>12, IdsAre
<1>15. ASSUME Len(listed) < limit
       PROVE /\ \A row \in Listed(e) : row.at < a => row.id \in IdsOf(listed)
             /\ \A j \in m + 1..Len(e) : rev[j].id \in IdsOf(listed)
  <2>0. Len(rest) \in Nat /\ Len(past) \in Nat /\ Len(over) \in Nat
    BY <1>6, <1>8, <1>10
  <2>1. aged = all
    BY <1>4, <1>7, <1>12, <1>15, <2>0
  <2>2. \A row \in Listed(e) : row.at < a => row \in Listed(aged)
    BY <1>2, <1>3, <2>1
  <2>3. \A row \in Listed(aged) \cup Listed(rest) : row.id \in IdsOf(listed)
    BY <1>12, <1>14
  <2>4. \A row \in Listed(over) : row.id \in IdsOf(listed)
    <3>1. ASSUME NEW row \in Listed(over) PROVE row.id \in IdsOf(listed)
      <4>1. CASE row.id \in IdsOf(aged)
        <5>1. PICK other \in Listed(aged) : other.id = row.id
          BY <1>14, <4>1
        <5> QED
          BY <2>3, <5>1
      <4>2. CASE row.id \notin IdsOf(aged)
        BY <1>9, <1>10, <2>3, <4>2
      <4> QED
        BY <4>1, <4>2
    <3> QED
      BY <3>1
  <2>5. CASE Len(past) <= k
    <3>1. ASSUME NEW j \in m + 1..Len(e) PROVE rev[j].id \in IdsOf(listed)
      <4>1. rev[j] \in Listed(over)
        BY <1>5, <1>6, <1>8, <2>5
      <4> QED
        BY <2>4, <4>1
    <3> QED
      BY <2>2, <2>3, <3>1
  <2>6. CASE ~(Len(past) <= k)
    <3>1. Len(over) = k /\ Len(aged) + k = limit /\ Len(rest) # k
      BY <1>7, <1>8, <1>12, <1>15, <2>0, <2>6 DEF k
    <3>2. Distinct(over)
      <4>1. ASSUME NEW i \in 1..Len(past), NEW j \in 1..Len(past), past[i] = past[j] PROVE i = j
        <5>1. m + i \in 1..Len(e) /\ m + j \in 1..Len(e)
          BY <1>1, <1>5, <1>6
        <5>2. e[Len(e) - (m + i) + 1] = e[Len(e) - (m + j) + 1]
          BY <1>5, <1>6, <4>1, <5>1
        <5>3. Len(e) - (m + i) + 1 = Len(e) - (m + j) + 1
          BY <1>1, <1>5, <5>1, <5>2 DEF Distinct
        <5> QED
          BY <1>1, <5>3
      <4> QED
        BY <1>8, <4>1 DEF Distinct
    <3>3. \E row \in Listed(over) : row.id \in IdsOf(aged)
      <4>1. SUFFICES ASSUME \A row \in Listed(over) : row.id \notin IdsOf(aged) PROVE FALSE
        OBVIOUS
      <4>2. fresh = Listed(over)
        BY <1>9, <4>1
      <4>3. Cardinality(Listed(over)) = Len(over) /\ Cardinality(Listed(rest)) = Len(rest)
        BY <1>8, <1>10, <3>2, ListLength
      <4> QED
        BY <1>10, <3>1, <4>2, <4>3
    <3>4. PICK i \in 1..Len(over) : over[i].id \in IdsOf(aged)
      BY <3>3 DEF Listed
    <3>5. over[i].at < a
      <4>1. PICK row \in Listed(aged) : row.id = over[i].id
        BY <1>14, <3>4
      <4>2. row \in Listed(e) /\ row.at < a
        BY <1>2, <1>3, <2>1, <4>1
      <4>3. over[i] \in Listed(e)
        <5>1. over[i] \in Listed(past)
          BY <1>8 DEF Listed
        <5>2. PICK j \in m + 1..Len(rev) : over[i] = rev[j]
          BY <1>6, <5>1
        <5>3. j \in 1..Len(rev)
          OBVIOUS
        <5> QED
          BY <1>5, <5>2, <5>3 DEF Listed
      <4> QED
        BY <1>1, <4>1, <4>2, <4>3
    <3>6. i \in 1..Len(past) /\ over[i] = rev[m + i] /\ m + i \in 1..Len(e)
      BY <1>1, <1>5, <1>6, <1>8, <2>0
    <3>7. ASSUME NEW j \in m + 1..Len(e) PROVE rev[j].id \in IdsOf(listed)
      <4>1. CASE j <= m + i
        <5> DEFINE p == j - m
        <5>1. p \in 1..Len(over) /\ m + p = j /\ p \in 1..Len(past)
          BY <1>8, <2>0, <3>6, <4>1
        <5> HIDE DEF p
        <5>2. over[p] = rev[j] /\ over[p] \in Listed(over)
          BY <1>6, <1>8, <5>1 DEF Listed
        <5> QED
          BY <2>4, <5>2
      <4>2. CASE ~(j <= m + i)
        <5> DEFINE p == Len(e) - j + 1
                   q == Len(e) - (m + i) + 1
        <5>1. p \in 1..Len(e) /\ q \in 1..Len(e) /\ p < q
          BY <1>1, <3>6, <4>2
        <5>2. rev[j] = e[p] /\ rev[m + i] = e[q]
          <6>1. j \in 1..Len(e)
            OBVIOUS
          <6> QED
            BY <1>5, <3>6, <6>1
        <5> HIDE DEF p, q
        <5>3. e[p].at <= e[q].at /\ e[p].at \in Nat /\ e[q].at \in Nat
          BY <1>1, <5>1
        <5>4. e[p].at < a
          <6>1. e[q].at < a
            BY ONLY <3>5, <3>6, <5>2
          <6> QED
            BY ONLY <5>3, <6>1, a \in Int
        <5>5. e[p] \in Listed(e)
          BY <5>1 DEF Listed
        <5> QED
          BY <2>2, <2>3, <5>2, <5>4, <5>5
      <4> QED
        BY <4>1, <4>2
    <3> QED
      BY <2>2, <2>3, <3>7
  <2> QED
    BY <2>5, <2>6
<1> QED
  BY <1>12, <1>13, <1>15 DEF rev

-----------------------------------------------------------------------------
(* enforce_retention: the rules, one after the other *)

RetShape ==
    /\ InOrder(held) /\ retNow \in 0 .. RetMaxNow
    /\ \A row \in Listed(held) : row.at <= retNow
    /\ guarded \subseteq RetIds /\ members \subseteq RetIds /\ sealedIds \subseteq RetIds
    /\ DOMAIN rules \subseteq ToSet(RuleOrder) /\ \A s \in DOMAIN rules : rules[s] \in RuleChoices

\* The rows of h under rule s, those in g excepted.
EligibleOf(h, g, s) == Where(h, {row \in ToSet(h) : RetScope[row.id] = s /\ row.id \notin g})

LEMMA EligibleIs ==
  ASSUME NEW h, InOrder(h), NEW g, NEW s, NEW e, e = EligibleOf(h, g, s)
  PROVE /\ InOrder(e)
        /\ Listed(e) = {row \in Listed(h) : RetScope[row.id] = s /\ row.id \notin g}
<1> DEFINE S == {row \in ToSet(h) : RetScope[row.id] = s /\ row.id \notin g}
<1>1. h \in Seq(Rows) /\ Ordered(h, Older) /\ ToSet(h) = Listed(h)
  BY ToSetLists DEF InOrder
<1>2. e = Where(h, S)
  BY DEF EligibleOf
<1>3. S = {row \in Listed(h) : RetScope[row.id] = s /\ row.id \notin g}
  BY <1>1
<1> HIDE DEF S
<1>4. /\ Where(h, S) \in Seq(Rows) /\ Listed(Where(h, S)) = Listed(h) \cap S
      /\ Ordered(Where(h, S), Older)
  BY <1>1, WhereIs
<1> QED
  BY <1>2, <1>3, <1>4 DEF InOrder

\* The rows of rule s now.
LEMMA EligibleNow ==
  ASSUME RetShape, NEW s
  PROVE /\ InOrder(Eligible(s))
        /\ Listed(Eligible(s)) = {row \in Listed(held) : RetScope[row.id] = s /\ row.id \notin guarded}
<1>1. Eligible(s) = EligibleOf(held, guarded, s)
  BY DEF Eligible, EligibleOf
<1>2. InOrder(held)
  BY DEF RetShape
<1> QED
  BY <1>1, <1>2, EligibleIs

\* What the pass has found after some of the rules.
NoneFound == [ids |-> {}, left |-> 0, full |-> FALSE]
Founds == [ids : SUBSET RetIds, left : Nat, full : BOOLEAN]

Fair(f) ==
    /\ f \in Founds
    /\ IsFiniteSet(f.ids) /\ Cardinality(f.ids) <= MaxEvictions /\ f.ids \cap guarded = {}
    /\ f.left > 0 => f.ids # {}
    /\ f.full => f.left > 0

\* Nothing that rule s condemns is missing from ids.
Covered(s, ids) ==
    s \in DOMAIN rules =>
      /\ \A row \in Listed(Eligible(s)) : row.at < retNow - rules[s].age => row.id \in ids
      /\ \A j \in rules[s].items + 1 .. Len(Eligible(s)) : Reverse(Eligible(s))[j].id \in ids

LEMMA ApplyIs ==
  ASSUME RetShape, NEW f, Fair(f), NEW s, NEW g, g = ApplyRule(f, s)
  PROVE /\ Fair(g) /\ f.ids \subseteq g.ids /\ f.left <= g.left
        /\ g.left = 0 => Covered(s, g.ids)
<1> DEFINE cap == MaxEvictions - Cardinality(f.ids)
           listed == RetentionCandidates(s, cap + 1)
<1>1. /\ f \in Founds /\ f.ids \subseteq RetIds /\ f.left \in Nat /\ f.full \in BOOLEAN
      /\ IsFiniteSet(f.ids) /\ Cardinality(f.ids) \in Nat /\ f.ids \cap guarded = {}
      /\ f = [ids |-> f.ids, left |-> f.left, full |-> f.full]
      /\ (f.left > 0 => f.ids # {}) /\ (f.full => f.left > 0)
  BY FS_CardinalityType DEF Fair, Founds
<1>2. cap \in Nat /\ Cardinality(f.ids) + cap = MaxEvictions /\ MaxEvictions \in Nat \ {0}
  BY <1>1, RetAssumption DEF Fair
<1>3. CASE s \notin DOMAIN rules \/ f.full
  <2>1. g = f
    BY <1>3 DEF ApplyRule
  <2>2. f.left = 0 => Covered(s, f.ids)
    BY <1>1, <1>3 DEF Covered
  <2> QED
    BY <1>1, <2>1, <2>2
<1>4. CASE s \in DOMAIN rules /\ ~f.full /\ cap = 0
  <2> DEFINE n == f.left + 1
  <2>1. n \in Nat /\ n > 0 /\ f.left <= n
    BY <1>1
  <2>2. g = [f EXCEPT !.left = n, !.full = TRUE]
    BY <1>4 DEF ApplyRule
  <2> HIDE DEF n
  <2>3. g \in Founds /\ g.ids = f.ids /\ g.left = n /\ g.full = TRUE
    BY <1>1, <2>1, <2>2 DEF Founds
  <2>4. f.ids # {}
    BY <1>1, <1>2, <1>4, FS_EmptySet
  <2> QED
    BY <1>1, <1>2, <2>1, <2>3, <2>4 DEF Fair
<1>5. CASE s \in DOMAIN rules /\ ~f.full /\ cap # 0
  <2> DEFINE e == Eligible(s)
             a == retNow - rules[s].age
             m == rules[s].items
             limit == cap + 1
             first == FirstOf(listed, cap)
             ids == f.ids \cup IdsOf(first)
             n == f.left + (IF Len(listed) > cap THEN Len(listed) - cap ELSE 0)
  <2>1. retNow \in Nat /\ rules[s].age \in Nat /\ m \in Nat
    BY <1>5, RetAssumption DEF RetShape
  <2>2. a \in Int /\ limit \in Nat /\ InOrder(e)
    BY <1>2, <2>1, EligibleNow
  <2>3. listed = CandidatesOf(e, a, m, limit)
    BY DEF RetentionCandidates, CandidatesOf, Aged, OverCount
  <2>4. g = [f EXCEPT !.ids = ids, !.left = n]
    BY <1>5 DEF ApplyRule
  <2> HIDE DEF listed, e, a, m, limit
  <2>5. /\ listed \in Seq(Rows) /\ Listed(listed) \subseteq Listed(e)
        /\ Len(listed) < limit =>
             /\ \A row \in Listed(e) : row.at < a => row.id \in IdsOf(listed)
             /\ \A j \in m + 1..Len(e) : Reverse(e)[j].id \in IdsOf(listed)
    BY ONLY <2>1, <2>2, <2>3, CandidatesCover
  <2>6. /\ first \in Seq(Rows) /\ Len(first) = (IF cap < Len(listed) THEN cap ELSE Len(listed))
        /\ Listed(first) \subseteq Listed(listed) /\ (Len(listed) <= cap => first = listed)
    BY <1>2, <2>5, FirstIs
  <2> HIDE DEF first
  <2>7. /\ IdsOf(first) = {row.id : row \in Listed(first)} /\ IsFiniteSet(IdsOf(first))
        /\ Cardinality(IdsOf(first)) \in Nat /\ Cardinality(IdsOf(first)) <= Len(first)
    BY <2>6, IdsAre
  <2>8. Len(listed) \in Nat /\ Len(first) \in Nat /\ Len(first) <= cap
    BY <1>2, <2>5, <2>6
  <2>9. n \in Nat /\ f.left <= n /\ (n = 0 => f.left = 0 /\ Len(listed) <= cap)
        /\ (n > 0 => f.left > 0 \/ Len(listed) > cap)
    BY <1>1, <1>2, <2>8
  <2>10. \A c \in IdsOf(first) : c \in RetIds /\ c \notin guarded
    <3>1. Listed(e) = {row \in Listed(held) : RetScope[row.id] = s /\ row.id \notin guarded}
      BY EligibleNow DEF e
    <3>2. \A row \in Listed(held) : row.id \in RetIds
      BY OrderIs DEF RetShape, Rows
    <3> QED
      BY <2>5, <2>6, <2>7, <3>1, <3>2
  <2> HIDE DEF n
  <2>11. IsFiniteSet(ids) /\ Cardinality(ids) <= MaxEvictions
    <3>1. /\ IsFiniteSet(ids)
          /\ Cardinality(ids) = Cardinality(f.ids) + Cardinality(IdsOf(first)) - Cardinality(f.ids \cap IdsOf(first))
      BY <1>1, <2>7, FS_Union
    <3>2. Cardinality(f.ids \cap IdsOf(first)) \in Nat
      BY <1>1, FS_Intersection, FS_CardinalityType
    <3> QED
      BY <1>1, <1>2, <2>7, <2>8, <3>1, <3>2
  <2>12. n > 0 => ids # {}
    <3>1. ASSUME Len(listed) > cap PROVE ids # {}
      <4>1. Len(first) = cap /\ 1 \in 1..Len(first)
        BY <1>2, <1>5, <2>6, <2>8, <3>1
      <4>2. first[1].id \in IdsOf(first)
        BY <2>7, <4>1 DEF Listed
      <4> QED
        BY <4>2
    <3> QED
      BY <1>1, <2>9, <3>1
  <2>13. g \in Founds /\ g.ids = ids /\ g.left = n /\ ~g.full
    <3>1. ids \in SUBSET RetIds
      BY <1>1, <2>10
    <3> HIDE DEF ids
    <3> QED
      BY <1>1, <1>5, <2>4, <2>9, <3>1 DEF Founds
  <2>14. n = 0 => Covered(s, ids)
    <3>1. ASSUME n = 0 PROVE Covered(s, ids)
      <4>1. Len(listed) < limit /\ first = listed
        BY <1>2, <2>6, <2>8, <2>9, <3>1 DEF limit
      <4> QED
        BY <2>5, <4>1 DEF Covered, e, a, m
    <3> QED
      BY <3>1
  <2>15. ids \cap guarded = {} /\ f.ids \subseteq ids
    BY <1>1, <2>10
  <2> HIDE DEF ids
  <2> QED
    BY <2>9, <2>11, <2>12, <2>13, <2>14, <2>15 DEF Fair
<1> QED
  BY <1>3, <1>4, <1>5

CondIterated ==
  CHOOSE iter : iter = [d \in SUBSET DOMAIN RuleOrder |->
     IF d = {} THEN NoneFound ELSE LET x == Max(d) IN ApplyRule(iter[d \ {x}], RuleOrder[x])]

LEMMA CondIterates == Condemned = CondIterated[DOMAIN RuleOrder]
BY DEF Condemned, FoldLeft, MapThenFoldSet, CondIterated, NoneFound

\* What the whole pass condemns is fair game, within its capacity, and if nothing
\* is left it is all that any rule condemns.
LEMMA CondemnedIs ==
  ASSUME RetShape
  PROVE /\ Fair(Condemned)
        /\ Condemned.left = 0 => \A s \in ToSet(RuleOrder) : Covered(s, Condemned.ids)
<1> DEFINE n == Len(RuleOrder)
           A == {f \in Founds : Fair(f)}
           Apply(f, i) == ApplyRule(f, RuleOrder[i])
           g == [p \in A \X (1..n) |-> Apply(p[1], p[2])]
<1>0. n \in Nat /\ DOMAIN RuleOrder = 1..n /\ ToSet(RuleOrder) = {RuleOrder[i] : i \in 1..n}
  <2>1. RuleOrder \in Seq(ToSet(RuleOrder))
    BY RetAssumption
  <2> QED
    BY <2>1, ToSetLists DEF Listed
<1> HIDE DEF n
<1>1. NoneFound \in A
  <2>1. NoneFound \in Founds /\ NoneFound.ids = {} /\ NoneFound.left = 0 /\ NoneFound.full = FALSE
    BY DEF NoneFound, Founds
  <2>2. MaxEvictions \in Nat
    BY RetAssumption
  <2> QED
    BY <2>1, <2>2, FS_EmptySet DEF Fair
<1>2. ASSUME NEW f \in A, NEW i \in 1..n
      PROVE /\ Apply(f, i) \in A /\ f.ids \subseteq Apply(f, i).ids /\ f.left <= Apply(f, i).left
            /\ Apply(f, i).left = 0 => Covered(RuleOrder[i], Apply(f, i).ids)
  <2> DEFINE new == Apply(f, i)
  <2>1. Fair(f) /\ new = ApplyRule(f, RuleOrder[i])
    OBVIOUS
  <2> HIDE DEF new
  <2>2. /\ Fair(new) /\ f.ids \subseteq new.ids /\ f.left <= new.left
        /\ new.left = 0 => Covered(RuleOrder[i], new.ids)
    BY <2>1, ApplyIs
  <2> QED
    BY <2>2 DEF new, Fair
<1>3. g \in [A \X (1..n) -> A]
  <2>1. ASSUME NEW p \in A \X (1..n) PROVE Apply(p[1], p[2]) \in A
    BY <1>2
  <2> HIDE DEF Apply, A
  <2> QED
    BY ONLY <2>1
<1>4. \A f \in A : \A i \in 1..n : g[<<f, i>>] = Apply(f, i)
  <2> HIDE DEF Apply, A
  <2> QED
    OBVIOUS
<1> HIDE DEF g, A
<1>5. PICK it : IsChain(it, n, A, NoneFound, g)
  BY ONLY <1>0, <1>1, <1>3, ChainExists
<1>6. /\ it \in [SUBSET (1..n) -> A]
      /\ \A d \in SUBSET (1..n) : it[d] = IF d = {} THEN NoneFound ELSE g[<<it[d \ {Max(d)}], Max(d)>>]
  BY ONLY <1>5 DEF IsChain
<1>7. ASSUME NEW d \in SUBSET (1..n)
      PROVE it[d] = IF d = {} THEN NoneFound ELSE Apply(it[d \ {Max(d)}], Max(d))
  <2>1. CASE d = {}
    BY ONLY <1>6, <2>1
  <2>2. CASE d # {}
    <3>1. Max(d) \in 1..n
      BY <1>0, <2>2, MaxOfIndices
    <3>2. it[d \ {Max(d)}] \in A
      BY ONLY <1>6
    <3>3. g[<<it[d \ {Max(d)}], Max(d)>>] = Apply(it[d \ {Max(d)}], Max(d))
      BY ONLY <1>4, <3>1, <3>2
    <3> QED
      BY ONLY <1>6, <2>2, <3>3
  <2> QED
    BY <2>1, <2>2
<1>8. it = [d \in SUBSET (1..n) |-> IF d = {} THEN NoneFound ELSE Apply(it[d \ {Max(d)}], Max(d))]
  <2> HIDE DEF Apply
  <2> QED
    BY ONLY <1>6, <1>7
<1> DEFINE run == CondIterated
<1>9. run = [d \in SUBSET (1..n) |-> IF d = {} THEN NoneFound ELSE Apply(run[d \ {Max(d)}], Max(d))]
  <2>1. \E iter : iter = [d \in SUBSET DOMAIN RuleOrder |->
           IF d = {} THEN NoneFound
           ELSE LET x == Max(d) IN ApplyRule(iter[d \ {x}], RuleOrder[x])]
    BY Zenon, <1>0, <1>8
  <2>2. run = [d \in SUBSET DOMAIN RuleOrder |->
           IF d = {} THEN NoneFound
           ELSE LET x == Max(d) IN ApplyRule(run[d \ {x}], RuleOrder[x])]
    BY ONLY Zenon, <2>1 DEF CondIterated
  <2> QED
    BY ONLY <2>2, <1>0
<1> HIDE DEF run
<1> DEFINE h == [i \in 0..n |-> run[1..i]]
<1>10. h[0] = NoneFound
  <2>1. 1..0 = {} /\ 0 \in 0..n
    BY <1>0
  <2> QED
    BY ONLY <1>9, <2>1
<1>11. ASSUME NEW i \in 1..n PROVE h[i] = Apply(h[i - 1], i)
  <2>1. Max(1..i) = i /\ (1..i) \ {i} = 1..i - 1 /\ 1..i # {} /\ 1..i \in SUBSET (1..n)
    BY <1>0, ChainSteps
  <2> HIDE DEF Apply
  <2>2. run[1..i] = Apply(run[1..i - 1], i)
    BY ONLY <1>9, <2>1
  <2>3. i \in 0..n /\ i - 1 \in 0..n
    BY <1>0
  <2> QED
    BY ONLY <2>2, <2>3
<1>12. h[n] = Condemned
  BY <1>0, CondIterates DEF run
<1> HIDE DEF h, Apply
<1> DEFINE Good(i) == /\ h[i] \in A
                      /\ h[i].left = 0 => \A j \in 1..i : Covered(RuleOrder[j], h[i].ids)
           T == {i \in 0..n : Good(i)}
<1>13. 0 \in T
  <2>1. 0 \in 0..n /\ 1..0 = {}
    BY <1>0
  <2> QED
    BY <1>1, <1>10, <2>1
<1>14. ASSUME NEW i \in 1..n, i - 1 \in T PROVE i \in T
  <2> DEFINE f == h[i - 1]
             new == h[i]
  <2>1. f \in A /\ (f.left = 0 => \A j \in 1..i - 1 : Covered(RuleOrder[j], f.ids)) /\ i \in 0..n
    BY <1>0, <1>14
  <2>2. new = Apply(f, i)
    BY <1>11
  <2> HIDE DEF f, new
  <2>3. /\ new \in A /\ f.ids \subseteq new.ids /\ f.left <= new.left
        /\ new.left = 0 => Covered(RuleOrder[i], new.ids)
    BY <1>2, <2>1, <2>2
  <2>4. f.left \in Nat /\ new.left \in Nat
    BY <2>1, <2>3 DEF A, Founds
  <2>5. new.left = 0 => \A j \in 1..i : Covered(RuleOrder[j], new.ids)
    <3>1. ASSUME new.left = 0, NEW j \in 1..i PROVE Covered(RuleOrder[j], new.ids)
      <4>1. CASE j = i
        BY <2>3, <3>1, <4>1
      <4>2. CASE j # i
        <5>1. j \in 1..i - 1
          BY <1>0, <4>2
        <5>2. Covered(RuleOrder[j], f.ids)
          BY <2>1, <2>3, <2>4, <3>1, <5>1
        <5> QED
          BY <2>3, <5>2 DEF Covered
      <4> QED
        BY <4>1, <4>2
    <3> QED
      BY <3>1
  <2> QED
    BY <2>1, <2>3, <2>5 DEF new
<1>15. Good(n)
  <2> HIDE DEF T
  <2>1. \A i \in 0..n : i \in T
    BY ONLY <1>0, <1>13, <1>14, UpToAll
  <2>2. n \in 0..n
    BY <1>0
  <2> QED
    BY <2>1, <2>2 DEF T
<1> QED
  BY <1>0, <1>12, <1>15 DEF A

\* What a rule condemns being gone, the rule is kept.
LEMMA RuleIsKept ==
  ASSUME RetShape, NEW s \in DOMAIN rules, NEW gone, Covered(s, gone),
         NEW h, InOrder(h), Listed(h) = {row \in Listed(held) : row.id \notin gone},
         NEW e, e = EligibleOf(h, guarded, s)
  PROVE Len(e) <= rules[s].items /\ \A row \in ToSet(e) : row.at >= retNow - rules[s].age
<1> DEFINE old == Eligible(s)
           rev == Reverse(old)
           m == rules[s].items
           a == retNow - rules[s].age
           first == FirstOf(rev, m)
<1>1. InOrder(old) /\ Listed(old) = {row \in Listed(held) : RetScope[row.id] = s /\ row.id \notin guarded}
  BY EligibleNow
<1>2. InOrder(e) /\ Listed(e) = {row \in Listed(h) : RetScope[row.id] = s /\ row.id \notin guarded}
  BY EligibleIs
<1>3. m \in Nat /\ a \in Int
  BY RetAssumption DEF RetShape
<1>4. /\ \A row \in Listed(old) : row.at < a => row.id \in gone
      /\ \A j \in m + 1 .. Len(old) : rev[j].id \in gone
  BY DEF Covered
<1> HIDE DEF old, a, m
<1>5. Listed(e) = {row \in Listed(old) : row.id \notin gone}
  BY <1>1, <1>2
<1>6. old \in Seq(Rows) /\ e \in Seq(Rows) /\ Len(old) \in Nat /\ Len(e) \in Nat /\ Distinct(e)
  BY <1>1, <1>2, OrderIs
<1>7. rev \in Seq(Rows) /\ Len(rev) = Len(old) /\ Listed(rev) = Listed(old)
  BY <1>6, ReverseIs
<1> HIDE DEF rev
<1>8. /\ first \in Seq(Rows) /\ Len(first) = (IF m < Len(rev) THEN m ELSE Len(rev))
      /\ \A i \in 1..Len(first) : first[i] = rev[i]
  BY <1>3, <1>7, FirstIs
<1> HIDE DEF first
<1>9. Listed(e) \subseteq Listed(first)
  <2>1. ASSUME NEW row \in Listed(e) PROVE row \in Listed(first)
    <3>1. row \in Listed(rev) /\ row.id \notin gone
      BY <1>5, <1>7
    <3>2. PICK j \in 1..Len(rev) : row = rev[j]
      BY <3>1 DEF Listed
    <3>3. ~(j \in m + 1..Len(old))
      BY <1>4, <3>1, <3>2
    <3>4. j \in 1..Len(first)
      BY <1>3, <1>6, <1>7, <1>8, <3>3
    <3> QED
      BY <1>8, <3>2, <3>4 DEF Listed
  <2> QED
    BY <2>1
<1>10. Len(e) <= m
  <2>1. Cardinality(Listed(e)) = Len(e)
    BY <1>6, ListLength
  <2>2. IsFiniteSet(Listed(first)) /\ Cardinality(Listed(first)) \in Nat /\ Cardinality(Listed(first)) <= Len(first)
    BY <1>8, ListIsSmall
  <2>3. Cardinality(Listed(e)) <= Cardinality(Listed(first))
    BY <1>9, <2>2, FS_Subset
  <2> QED
    BY <1>3, <1>6, <1>7, <1>8, <2>1, <2>2, <2>3
<1>11. ASSUME NEW row \in ToSet(e) PROVE row.at >= a
  <2>1. row \in Listed(e)
    BY <1>6, ToSetLists
  <2>2. row \in Listed(old) /\ row.id \notin gone
    BY <1>5, <2>1
  <2>3. row.at \in Nat /\ ~(row.at < a)
    <3>1. row \in Rows
      BY <1>1, <2>2, OrderIs
    <3> QED
      BY <1>4, <2>2, <3>1 DEF Rows
  <2> QED
    BY <1>3, <2>3
<1> QED
  BY <1>10, <1>11 DEF a, m

-----------------------------------------------------------------------------
(* enforce_collection_retention *)

SweptOf(h, mine, g) == Reverse(Where(h, {row \in ToSet(h) : row.id \in mine \ g}))

LEMMA SweptIs ==
  ASSUME NEW h, InOrder(h), NEW mine, NEW g, NEW swept, swept = SweptOf(h, mine, g)
  PROVE /\ swept \in Seq(Rows) /\ Distinct(swept)
        /\ Listed(swept) = {row \in Listed(h) : row.id \in mine \ g}
<1> DEFINE S == {row \in ToSet(h) : row.id \in mine \ g}
           kept == Where(h, S)
<1>1. h \in Seq(Rows) /\ Ordered(h, Older) /\ ToSet(h) = Listed(h) /\ Distinct(h)
  BY ToSetLists, OrderIs DEF InOrder
<1>2. S = {row \in Listed(h) : row.id \in mine \ g}
  BY <1>1
<1>3. swept = Reverse(kept)
  BY DEF SweptOf
<1> HIDE DEF S
<1>4. kept \in Seq(Rows) /\ Listed(kept) = Listed(h) \cap S /\ Distinct(kept)
  BY <1>1, WhereIs
<1> HIDE DEF kept
<1>5. /\ swept \in Seq(Rows) /\ Len(swept) = Len(kept) /\ Listed(swept) = Listed(kept)
      /\ \A i \in 1..Len(kept) : swept[i] = kept[Len(kept) - i + 1] /\ Len(kept) - i + 1 \in 1..Len(kept)
  BY <1>3, <1>4, ReverseIs
<1>6. ASSUME NEW i \in 1..Len(kept), NEW j \in 1..Len(kept), swept[i] = swept[j] PROVE i = j
  <2> DEFINE p == Len(kept) - i + 1
             q == Len(kept) - j + 1
  <2>0. p \in 1..Len(kept) /\ q \in 1..Len(kept) /\ kept[p] = kept[q] /\ Len(kept) \in Nat
    BY <1>4, <1>5, <1>6
  <2> HIDE DEF p, q
  <2>2. p = q
    BY <1>4, <2>0 DEF Distinct
  <2>1. Len(kept) - i + 1 = Len(kept) - j + 1 /\ Len(kept) \in Nat
    BY <2>0, <2>2 DEF p, q
  <2> QED
    BY <2>1
<1> QED
  BY <1>2, <1>4, <1>5, <1>6 DEF Distinct

\* The rows within the limits stay within them when the others are gone.
LEMMA CollectionShrinks ==
  ASSUME RetShape,
         NEW swept \in Seq(Rows), NEW rest \in Seq(Rows), Distinct(rest),
         \A row \in Listed(rest) : \E i \in 1..Len(swept) : row = swept[i] /\ ~OverLimits(swept, i)
  PROVE /\ Len(rest) <= CollectionRule.items
        /\ BytesTo(rest, Len(rest)) <= CollectionRule.bytes
        /\ \A row \in ToSet(rest) : row.at >= retNow - CollectionRule.age
<1> DEFINE K == {i \in 1..Len(swept) : swept[i] \in Listed(rest) /\ ~OverLimits(swept, i)}
           all == FirstOf(rest, Len(rest))
<1>1. /\ Len(rest) \in Nat /\ Len(swept) \in Nat /\ ToSet(rest) = Listed(rest)
      /\ CollectionRule.age \in Nat /\ CollectionRule.items \in Nat /\ CollectionRule.bytes \in Nat
      /\ IsFiniteSet(RetIds) /\ RetSize \in [RetIds -> Nat]
  <2>1. RetIds \in SUBSET (0 .. (Unlimited - 1)) /\ Unlimited \in Nat
    <3>1. Unlimited \in Nat
      BY SMT DEF Unlimited
    <3> QED
      BY <3>1, RetAssumption
  <2>2. IsFiniteSet(0 .. (Unlimited - 1))
    BY <2>1, FS_Interval
  <2>3. IsFiniteSet(RetIds)
    BY <2>1, <2>2, FS_Subset
  <2> QED
    BY <2>3, RetAssumption, ToSetLists
<1>2. ASSUME NEW row \in Listed(rest) PROVE row.at >= retNow - CollectionRule.age
  <2>1. PICK i \in 1..Len(swept) : row = swept[i] /\ ~OverLimits(swept, i)
    OBVIOUS
  <2>2. swept[i] \in Rows
    OBVIOUS
  <2>3. swept[i].at \in Nat /\ ~(swept[i].at < retNow - CollectionRule.age) /\ retNow \in Nat
    BY <2>1, <2>2 DEF OverLimits, Rows, RetShape
  <2> QED
    BY <1>1, <2>1, <2>3
<1>3. \A s \in Seq(Rows) : IdsOf(s) = {row.id : row \in Listed(s)} /\ IdsOf(s) \subseteq RetIds
  <2>1. ASSUME NEW s \in Seq(Rows) PROVE IdsOf(s) = {row.id : row \in Listed(s)} /\ IdsOf(s) \subseteq RetIds
    <3>1. IdsOf(s) = {row.id : row \in Listed(s)}
      BY IdsAre
    <3>2. Listed(s) \subseteq Rows
      BY ToSetLists
    <3> QED
      BY <3>1, <3>2 DEF Rows
  <2> QED
    BY <2>1
<1>4. all = rest
  BY <1>1, FirstIs
<1>5. BytesTo(rest, Len(rest)) = WeightOf(RetSize, IdsOf(rest))
  BY <1>4 DEF BytesTo, WeightOf
<1>6. CASE K = {}
  <2>1. Listed(rest) = {}
    BY <1>6
  <2>2. Len(rest) = 0
    <3>1. 1 \notin 1..Len(rest)
      BY <2>1 DEF Listed
    <3> QED
      BY <1>1, <3>1
  <2>3. IdsOf(rest) = {}
    BY <1>3, <2>1
  <2>4. WeightOf(RetSize, {}) = 0
    BY <1>1, WeightAdd
  <2> QED
    BY <1>1, <1>2, <1>5, <2>2, <2>3, <2>4
<1>7. CASE K # {}
  <2> DEFINE m == Max(K)
             first == FirstOf(swept, m)
  <2>1. m \in K /\ \A i \in K : i <= m
    BY <1>1, <1>7, MaxOfIndices
  <2>2. m \in 1..Len(swept) /\ ~OverLimits(swept, m) /\ m \in Nat
    BY <2>1
  <2> HIDE DEF m
  <2>3. /\ first \in Seq(Rows) /\ Len(first) = m /\ \A i \in 1..m : first[i] = swept[i]
    BY <1>1, <2>2, FirstIs
  <2> HIDE DEF first
  <2>4. Listed(rest) \subseteq Listed(first)
    <3>1. ASSUME NEW row \in Listed(rest) PROVE row \in Listed(first)
      <4>1. PICK i \in 1..Len(swept) : row = swept[i] /\ ~OverLimits(swept, i)
        OBVIOUS
      <4>2. i \in K
        BY <4>1
      <4>3. i \in 1..m
        BY <2>1, <4>2
      <4> QED
        BY <2>3, <4>1, <4>3 DEF Listed
    <3> QED
      BY <3>1
  <2>5. Len(rest) <= m
    <3>1. Cardinality(Listed(rest)) = Len(rest)
      BY ListLength
    <3>2. IsFiniteSet(Listed(first)) /\ Cardinality(Listed(first)) \in Nat /\ Cardinality(Listed(first)) <= m
      BY <2>3, ListIsSmall
    <3>3. Cardinality(Listed(rest)) <= Cardinality(Listed(first))
      BY <2>4, <3>2, FS_Subset
    <3> QED
      BY <1>1, <2>2, <3>1, <3>2, <3>3
  <2>6. ~(m > CollectionRule.items) /\ ~(BytesTo(swept, m) > CollectionRule.bytes)
    BY <2>2 DEF OverLimits
  <2>7. BytesTo(swept, m) = WeightOf(RetSize, IdsOf(first))
    BY DEF BytesTo, WeightOf, first
  <2>8. IdsOf(rest) \subseteq IdsOf(first) /\ IdsOf(first) \subseteq RetIds
    BY <1>3, <2>3, <2>4
  <2>9. /\ WeightOf(RetSize, IdsOf(rest)) <= WeightOf(RetSize, IdsOf(first))
        /\ WeightOf(RetSize, IdsOf(rest)) \in Nat /\ WeightOf(RetSize, IdsOf(first)) \in Nat
    <3>1. IdsOf(rest) \in SUBSET RetIds /\ IdsOf(first) \in SUBSET RetIds /\ IdsOf(rest) \in SUBSET IdsOf(first)
      BY <2>8
    <3> QED
      BY <1>1, <3>1, WeightAdd, WeightGrows
  <2> QED
    BY <1>1, <1>2, <1>5, <2>2, <2>5, <2>6, <2>7, <2>9
<1> QED
  BY <1>6, <1>7

-----------------------------------------------------------------------------
(* The passes and what happens between them *)

RetInv == RetShape /\ PassIsAccounted

LEMMA WithoutIs ==
  ASSUME RetShape, NEW S, NEW h, h = Without(S)
  PROVE InOrder(h) /\ Listed(h) = {row \in Listed(held) : row.id \notin S}
<1> DEFINE R == {row \in ToSet(held) : row.id \notin S}
<1>1. held \in Seq(Rows) /\ Ordered(held, Older) /\ ToSet(held) = Listed(held)
  BY ToSetLists DEF RetShape, InOrder
<1>2. h = Where(held, R) /\ R = {row \in Listed(held) : row.id \notin S}
  BY <1>1 DEF Without
<1> HIDE DEF R
<1>3. /\ Where(held, R) \in Seq(Rows) /\ Listed(Where(held, R)) = Listed(held) \cap R
      /\ Ordered(Where(held, R), Older)
  BY <1>1, WhereIs
<1> QED
  BY <1>2, <1>3 DEF InOrder

\* A report of nothing promises nothing.
LEMMA NothingReported == report = NoReport => PassIsAccounted
BY DEF NoReport, PassIsAccounted, ReportIsComplete, PassMakesProgress, CollectionIsBounded

\* enforce_retention deletes what its rules condemn, and no more.
LEMMA EnforceIs ==
  ASSUME RetShape, NEW key \in BOOLEAN, EnforceRetention(key)
  PROVE \E gone \in SUBSET RetIds :
          /\ held' = Without(gone) /\ members' = members \ gone
          /\ \A c \in gone : Graced(c) => c \in sealedIds'
          /\ sealedIds' \subseteq gone
          /\ \/ report' = NoReport
             \/ /\ report'.pass = "retention" /\ report'.left = Condemned.left
                /\ report'.deferred = 0 => gone = Condemned.ids /\ report'.deleted = Cardinality(gone)
<1> DEFINE found == Condemned
           deferred == Deferred(found.ids, key)
           failing == {c \in found.ids \ deferred : Graced(c) /\ key /\ c \in Unreadable}
           reached(limit) == {c \in (found.ids \ deferred) \ guarded :
                                c < limit /\ \A b \in failing : c < b}
<1>1. Fair(found) /\ found.ids \subseteq RetIds /\ IsFiniteSet(found.ids) /\ found.ids \cap guarded = {}
  BY CondemnedIs DEF Fair, Founds
<1>2. PICK limit \in RetIds \cup {Unlimited} :
        /\ held' = Without(reached(limit))
        /\ sealedIds' = {c \in reached(limit) : Graced(c) /\ key}
        /\ members' = members \ reached(limit)
        /\ report' = IF failing # {} \/ limit # Unlimited THEN NoReport
                     ELSE [pass |-> "retention", left |-> found.left,
                           deferred |-> Cardinality(deferred), deleted |-> Cardinality(reached(limit))]
  BY DEF EnforceRetention
<1> DEFINE gone == reached(limit)
<1>3. deferred = {c \in found.ids : Graced(c) /\ ~key}
  BY DEF Deferred
<1> HIDE DEF found, deferred
<1>4. gone \in SUBSET RetIds
  BY <1>1
<1>5. \A c \in gone : Graced(c) => c \in sealedIds'
  BY <1>2, <1>3
<1>6. ASSUME failing = {}, limit = Unlimited
      PROVE /\ report'.pass = "retention" /\ report'.left = found.left
            /\ report'.deferred = 0 => gone = found.ids /\ report'.deleted = Cardinality(gone)
  <2>1. report' = [pass |-> "retention", left |-> found.left,
                   deferred |-> Cardinality(deferred), deleted |-> Cardinality(gone)]
    BY <1>2, <1>6
  <2>2. ASSUME Cardinality(deferred) = 0 PROVE gone = found.ids
    <3>1. IsFiniteSet(deferred)
      BY <1>1, <1>3, FS_Subset
    <3>2. deferred = {}
      BY <2>2, <3>1, FS_EmptySet
    <3>3. ASSUME NEW c \in found.ids PROVE c < Unlimited
      <4>1. c \in 0 .. (Unlimited - 1)
        BY <1>1, RetAssumption
      <4>2. Unlimited \in Nat
        BY SMT DEF Unlimited
      <4> QED
        BY <4>1, <4>2
    <3> QED
      BY <1>1, <1>6, <3>2, <3>3
  <2> QED
    BY <2>1, <2>2
<1>7. sealedIds' \subseteq gone
  BY <1>2
<1>8. (failing = {} /\ limit = Unlimited) \/ report' = NoReport
  BY <1>2
<1> HIDE DEF gone, failing
<1>9. held' = Without(gone) /\ members' = members \ gone
  BY <1>2 DEF gone
<1> QED
  BY <1>4, <1>5, <1>6, <1>7, <1>8, <1>9 DEF found

\* A retention pass leaves its promises true.
LEMMA EnforceKeeps ==
  ASSUME RetShape, NEW key \in BOOLEAN, EnforceRetention(key) PROVE RetInv'
<1>1. PICK gone \in SUBSET RetIds :
          /\ held' = Without(gone) /\ members' = members \ gone
          /\ \A c \in gone : Graced(c) => c \in sealedIds'
          /\ sealedIds' \subseteq gone
          /\ \/ report' = NoReport
             \/ /\ report'.pass = "retention" /\ report'.left = Condemned.left
                /\ report'.deferred = 0 => gone = Condemned.ids /\ report'.deleted = Cardinality(gone)
  BY EnforceIs
<1>2. UNCHANGED <<guarded, rules, retNow>>
  BY DEF EnforceRetention
<1>3. InOrder(held') /\ Listed(held') = {row \in Listed(held) : row.id \notin gone}
  BY <1>1, WithoutIs
<1>4. RetShape'
  BY <1>1, <1>2, <1>3 DEF RetShape
<1>5. CASE report' = NoReport
  <2>1. PassIsAccounted'
    BY <1>5 DEF NoReport, PassIsAccounted, ReportIsComplete, PassMakesProgress, CollectionIsBounded
  <2> QED
    BY <1>4, <2>1 DEF RetInv
<1>6. CASE /\ report'.pass = "retention" /\ report'.left = Condemned.left
           /\ report'.deferred = 0 => gone = Condemned.ids /\ report'.deleted = Cardinality(gone)
  <2>1. Fair(Condemned) /\ (Condemned.left = 0 => \A s \in ToSet(RuleOrder) : Covered(s, Condemned.ids))
    BY CondemnedIs
  <2>2. ASSUME report'.left = 0, report'.deferred = 0, NEW s \in DOMAIN rules,
               NEW e, e = EligibleOf(held', guarded, s)
        PROVE Len(e) <= rules[s].items /\ \A row \in ToSet(e) : row.at >= retNow - rules[s].age
    <3>1. Covered(s, gone)
      BY <1>6, <2>1, <2>2 DEF RetShape
    <3> DEFINE h == held'
    <3>2. InOrder(h) /\ Listed(h) = {row \in Listed(held) : row.id \notin gone} /\ e = EligibleOf(h, guarded, s)
      BY <1>3, <2>2
    <3> HIDE DEF h
    <3> QED
      BY ONLY RetShape, s \in DOMAIN rules, <3>1, <3>2, RuleIsKept
  <2>3. ReportIsComplete'
    <3>1. \A s : Eligible(s)' = EligibleOf(held', guarded, s)
      BY <1>2 DEF Eligible, EligibleOf
    <3>2. ASSUME report'.left = 0, report'.deferred = 0, NEW s \in DOMAIN rules'
          PROVE /\ Len(Eligible(s)') <= rules'[s].items
                /\ \A row \in ToSet(Eligible(s)') : row.at >= retNow' - rules'[s].age
      BY <1>2, <2>2, <3>1, <3>2
    <3> QED
      BY <3>2 DEF ReportIsComplete
  <2>4. PassMakesProgress'
    <3>1. ASSUME report'.left > 0, report'.deferred = 0 PROVE report'.deleted > 0
      <4>1. gone = Condemned.ids /\ report'.deleted = Cardinality(gone)
        BY <1>6, <3>1
      <4>2. gone # {} /\ IsFiniteSet(gone)
        BY <1>6, <2>1, <3>1, <4>1 DEF Fair
      <4>3. Cardinality(gone) \in Nat /\ Cardinality(gone) # 0
        BY <4>2, FS_EmptySet, FS_CardinalityType
      <4> QED
        BY <4>1, <4>3
    <3> QED
      BY <3>1 DEF PassMakesProgress
  <2>5. CollectionIsBounded'
    BY <1>6 DEF CollectionIsBounded
  <2> QED
    BY <1>4, <2>3, <2>4, <2>5 DEF RetInv, PassIsAccounted
<1> QED
  BY <1>1, <1>5, <1>6

\* So does a collection pass.
LEMMA CollectionKeeps ==
  ASSUME RetShape, EnforceCollectionRetention PROVE RetInv'
<1> DEFINE swept == Swept
           over == {i \in DOMAIN swept : OverLimits(swept, i)}
           taken == {i \in over : Cardinality({j \in over : j < i}) < PreviewLimit}
           gone == {swept[i].id : i \in taken}
           left == SweptOf(held', members', guarded)
<1>1. /\ held' = Without(gone) /\ members' = members \ gone /\ sealedIds' = {}
      /\ report' = [pass |-> "collection", truncated |-> taken # over]
      /\ UNCHANGED <<guarded, rules, retNow>>
  BY DEF EnforceCollectionRetention
<1>2. swept = SweptOf(held, members, guarded) /\ Swept' = left
  BY <1>1 DEF Swept, SweptOf
<1> HIDE DEF swept
<1>3. /\ swept \in Seq(Rows) /\ Listed(swept) = {row \in Listed(held) : row.id \in members \ guarded}
  BY <1>2, SweptIs DEF RetShape
<1>4. InOrder(held') /\ Listed(held') = {row \in Listed(held) : row.id \notin gone}
  BY <1>1, WithoutIs
<1>5. RetShape'
  BY <1>1, <1>4 DEF RetShape
<1>6. ReportIsComplete' /\ PassMakesProgress'
  BY <1>1 DEF ReportIsComplete, PassMakesProgress
<1>7. ASSUME taken = over
      PROVE /\ Len(left) <= CollectionRule.items
            /\ BytesTo(left, Len(left)) <= CollectionRule.bytes
            /\ \A row \in ToSet(left) : row.at >= retNow - CollectionRule.age
  <2>1. left \in Seq(Rows) /\ Distinct(left) /\ Listed(left) = {row \in Listed(held') : row.id \in members' \ guarded}
    <3> DEFINE h == held'
               mine == members'
    <3>1. InOrder(h) /\ left = SweptOf(h, mine, guarded)
      BY <1>4
    <3> HIDE DEF h, mine, left
    <3>2. left \in Seq(Rows) /\ Distinct(left) /\ Listed(left) = {row \in Listed(h) : row.id \in mine \ guarded}
      BY ONLY <3>1, SweptIs
    <3> QED
      BY ONLY <3>2 DEF h, mine
  <2>2. ASSUME NEW row \in Listed(left)
        PROVE \E i \in 1..Len(swept) : row = swept[i] /\ ~OverLimits(swept, i)
    <3>1. row \in Listed(swept) /\ row.id \notin gone
      BY <1>1, <1>3, <1>4, <2>1
    <3>2. PICK i \in 1..Len(swept) : row = swept[i]
      BY <3>1 DEF Listed
    <3>3. DOMAIN swept = 1..Len(swept)
      BY <1>3
    <3>4. i \notin over
      BY <1>7, <3>1, <3>2
    <3> QED
      BY <3>2, <3>3, <3>4
  <2> HIDE DEF left
  <2> QED
    BY ONLY RetShape, <1>3, <2>1, <2>2, CollectionShrinks
<1>8. CollectionIsBounded'
  <2>1. report'.pass = "collection" /\ (~report'.truncated => taken = over)
    BY <1>1
  <2> HIDE DEF left, over, taken
  <2> QED
    BY <1>1, <1>2, <1>7, <2>1 DEF CollectionIsBounded
<1> QED
  BY <1>5, <1>6, <1>8 DEF RetInv, PassIsAccounted

\* What only changes the table, the guards, the rules or the clock unreports.
LEMMA CopiedKeeps == ASSUME RetShape, NEW c \in RetIds, Copied(c) PROVE RetShape'
<1> DEFINE row == [id |-> c, at |-> retNow]
           rest == Without({c})
<1>1. /\ held' = Append(rest, row) /\ sealedIds' = {}
      /\ members' = (IF c \in RetStored THEN members ELSE members \ {c})
      /\ UNCHANGED <<guarded, rules, retNow>>
  BY DEF Copied, Unreported
<1>2. InOrder(rest) /\ Listed(rest) = {x \in Listed(held) : x.id \notin {c}}
  BY WithoutIs
<1>3. row \in Rows /\ row.id = c /\ row.at = retNow
  BY DEF RetShape, Rows
<1> HIDE DEF row, rest
<1>4. rest \in Seq(Rows) /\ Ordered(rest, Older)
  BY <1>2 DEF InOrder
<1>5. \A y \in Listed(rest) : <<y, row>> \in Older
  <2>1. ASSUME NEW y \in Listed(rest) PROVE <<y, row>> \in Older
    <3>1. y \in Rows /\ y.id # c /\ y.at <= retNow
      BY <1>2, OrderIs DEF RetShape
    <3> QED
      BY <1>3, <3>1 DEF Older
  <2> QED
    BY <2>1
<1>6. /\ Append(rest, row) \in Seq(Rows) /\ Listed(Append(rest, row)) = Listed(rest) \cup {row}
      /\ Ordered(Append(rest, row), Older)
  BY <1>3, <1>4, <1>5, AppendLists, AppendOrders
<1>7. InOrder(held') /\ Listed(held') = Listed(rest) \cup {row}
  BY <1>1, <1>6 DEF InOrder
<1>8. \A x \in Listed(held') : x.at <= retNow
  <2>1. retNow <= retNow
    BY DEF RetShape
  <2> QED
    BY <1>2, <1>3, <1>7, <2>1 DEF RetShape
<1> QED
  BY <1>1, <1>7, <1>8 DEF RetShape

LEMMA RetStep == RetInv /\ [RetNext]_retVars => RetInv'
<1> SUFFICES ASSUME RetInv, [RetNext]_retVars PROVE RetInv'
  OBVIOUS
<1>0. RetShape /\ PassIsAccounted
  BY DEF RetInv
<1>1. ASSUME Unreported, RetShape' PROVE RetInv'
  BY <1>1 DEF RetInv, Unreported, NoReport, PassIsAccounted, ReportIsComplete, PassMakesProgress,
     CollectionIsBounded
<1>2. CASE UNCHANGED retVars
  <2>1. UNCHANGED <<held, guarded, members, rules, retNow, sealedIds, report>>
    BY <1>2 DEF retVars
  <2>2. RetShape'
    BY <1>0, <2>1 DEF RetShape
  <2>3. ReportIsComplete'
    <3>1. \A s : Eligible(s)' = Eligible(s)
      <4>1. TAKE s
      <4> QED
        BY <2>1 DEF Eligible
    <3> QED
      BY <1>0, <2>1, <3>1 DEF PassIsAccounted, ReportIsComplete
  <2>4. PassMakesProgress'
    BY <1>0, <2>1 DEF PassIsAccounted, PassMakesProgress
  <2>5. CollectionIsBounded'
    <3>1. Swept' = Swept
      BY <2>1 DEF Swept
    <3> QED
      BY <1>0, <2>1, <3>1 DEF PassIsAccounted, CollectionIsBounded
  <2> QED
    BY <2>2, <2>3, <2>4, <2>5 DEF RetInv, PassIsAccounted
<1>3. ASSUME NEW c \in RetIds, Copied(c) PROVE RetInv'
  <2>1. Unreported
    BY <1>3 DEF Copied
  <2> QED
    BY <1>0, <1>1, <1>3, <2>1, CopiedKeeps
<1>4. ASSUME NEW c \in RetIds, SetGuard(c) \/ SetCollection(c) PROVE RetInv'
  <2>1. /\ Unreported /\ UNCHANGED <<held, rules, retNow>> /\ sealedIds' = {}
        /\ guarded' \subseteq RetIds /\ members' \subseteq RetIds
    BY <1>0, <1>4 DEF SetGuard, SetCollection, Unreported, RetShape
  <2>2. RetShape'
    BY <1>0, <2>1 DEF RetShape
  <2> QED
    BY <1>1, <2>1, <2>2
<1>5. ASSUME NEW i \in DOMAIN RuleOrder, NEW rule \in RuleChoices, SetRetentionRule(RuleOrder[i], rule)
      PROVE RetInv'
  <2> DEFINE s == RuleOrder[i]
  <2>1. s \in ToSet(RuleOrder)
    BY DEF ToSet
  <2>2. /\ rules' = [t \in DOMAIN rules \cup {s} |-> IF t = s THEN rule ELSE rules[t]]
        /\ Unreported /\ UNCHANGED <<held, guarded, members, retNow>> /\ sealedIds' = {}
    BY <1>5 DEF SetRetentionRule, Unreported
  <2> HIDE DEF s
  <2>3. DOMAIN rules' \subseteq ToSet(RuleOrder) /\ \A t \in DOMAIN rules' : rules'[t] \in RuleChoices
    BY <1>0, <2>1, <2>2 DEF RetShape
  <2>4. RetShape'
    BY <1>0, <2>2, <2>3 DEF RetShape
  <2> QED
    BY <1>1, <2>2, <2>4
<1>6. CASE RetTick
  <2>1. /\ Unreported /\ UNCHANGED <<held, guarded, members, rules>> /\ sealedIds' = {}
        /\ retNow < RetMaxNow /\ retNow' = retNow + 1
    BY <1>6 DEF RetTick, Unreported
  <2>2. retNow \in Nat /\ RetMaxNow \in Nat
    BY <1>0, RetAssumption DEF RetShape
  <2>3. retNow' \in 0 .. RetMaxNow
    BY <2>1, <2>2
  <2>4. \A row \in Listed(held') : row.at <= retNow'
    <3>1. ASSUME NEW row \in Listed(held) PROVE row.at <= retNow + 1
      <4>1. row.at \in Nat /\ row.at <= retNow
        BY <1>0, OrderIs DEF RetShape, Rows
      <4> QED
        BY <2>2, <4>1
    <3> QED
      BY <2>1, <3>1
  <2>5. RetShape'
    BY <1>0, <2>1, <2>3, <2>4 DEF RetShape
  <2> QED
    BY <1>1, <2>1, <2>5
<1> QED
  BY <1>0, <1>2, <1>3, <1>4, <1>5, <1>6, EnforceKeeps, CollectionKeeps DEF RetNext

LEMMA RetStart == RetInit => RetInv
<1> SUFFICES ASSUME RetInit PROVE RetInv
  OBVIOUS
<1>1. Len(<<>>) = 0 /\ <<>> \in Seq(Rows)
  OBVIOUS
<1>2. InOrder(held) /\ Listed(held) = {}
  BY <1>1 DEF RetInit, InOrder, Ordered, Listed
<1>3. 0 \in 0 .. RetMaxNow
  BY RetAssumption
<1>4. RetShape
  BY <1>2, <1>3 DEF RetInit, RetShape
<1>5. PassIsAccounted
  BY NothingReported DEF RetInit
<1> QED
  BY <1>4, <1>5 DEF RetInv

\* The types that the run checks follow.
LEMMA RetTypes == RetInv => RetTypeOK
<1> SUFFICES ASSUME RetInv PROVE RetTypeOK
  OBVIOUS
<1>1. InOrder(held)
  BY DEF RetInv, RetShape
<1>2. /\ DOMAIN held = 1..Len(held) /\ \A i \in 1..Len(held) : held[i] \in Rows
      /\ \A i, j \in 1..Len(held) : i < j => held[i].id # held[j].id /\ held[i].at <= held[j].at
  BY <1>1, OrderIs
<1>3. \A i \in 1..Len(held) : held[i].id \in RetIds /\ held[i].at \in 0 .. RetMaxNow
  BY <1>2 DEF Rows
<1> QED
  BY <1>2, <1>3 DEF RetInv, RetShape, RetTypeOK

\* What a retention pass takes from under a rule with a grace window is in the bin.
LEMMA GraceStep ==
  ASSUME RetInv, [RetNext]_retVars
  PROVE [\A c \in RetStored \ RetStored' :
           report'.pass # "collection" /\ Graced(c) => c \in sealedIds']_retVars
<1>0. RetShape
  BY DEF RetInv
<1>1. RetStored = {row.id : row \in Listed(held)}
  <2>1. DOMAIN held = 1..Len(held)
    BY <1>0, OrderIs DEF RetShape
  <2> QED
    BY <2>1 DEF RetStored, Listed
<1>2. ASSUME NEW h, InOrder(h), held' = h PROVE RetStored' = {row.id : row \in Listed(h)}
  <2>1. DOMAIN h = 1..Len(h)
    BY <1>2, OrderIs
  <2> QED
    BY <1>2, <2>1 DEF RetStored, Listed
<1>3. ASSUME UNCHANGED held PROVE RetStored \ RetStored' = {}
  BY <1>3 DEF RetStored
<1>4. ASSUME NEW c \in RetIds, Copied(c) PROVE RetStored \ RetStored' = {}
  <2> DEFINE row == [id |-> c, at |-> retNow]
             rest == Without({c})
             h == Append(rest, row)
  <2>1. InOrder(rest) /\ Listed(rest) = {x \in Listed(held) : x.id # c}
    BY <1>0, WithoutIs
  <2>2. held' = h /\ row \in Rows /\ row.id = c
    BY <1>0, <1>4 DEF Copied, RetShape, Rows
  <2>3. InOrder(held')
    BY <1>0, <1>4, CopiedKeeps DEF RetShape
  <2> HIDE DEF row, rest
  <2>4. Listed(h) = Listed(rest) \cup {row}
    BY <2>1, <2>2, AppendLists DEF InOrder
  <2> HIDE DEF h
  <2>5. RetStored' = {x.id : x \in Listed(h)}
    BY <1>2, <2>2, <2>3
  <2> QED
    BY <1>1, <2>1, <2>2, <2>4, <2>5
<1>5. ASSUME NEW key \in BOOLEAN, EnforceRetention(key), NEW c \in RetStored \ RetStored', Graced(c)
      PROVE c \in sealedIds'
  <2>1. PICK gone \in SUBSET RetIds :
          /\ held' = Without(gone) /\ \A d \in gone : Graced(d) => d \in sealedIds'
    BY <1>0, <1>5, EnforceIs
  <2> DEFINE h == Without(gone)
  <2>2. InOrder(h) /\ Listed(h) = {x \in Listed(held) : x.id \notin gone} /\ held' = h
    BY <1>0, <2>1, WithoutIs
  <2> HIDE DEF h
  <2>3. RetStored' = {x.id : x \in Listed(h)}
    BY <1>2, <2>2
  <2> QED
    BY <1>1, <1>5, <2>1, <2>2, <2>3
<1>6. CASE EnforceCollectionRetention
  BY <1>6 DEF EnforceCollectionRetention
<1> QED
  BY <1>3, <1>4, <1>5, <1>6 DEF RetNext, SetGuard, SetCollection, SetRetentionRule, RetTick, retVars

\* Whatever is copied, guarded, grouped and ruled between the passes, a pass that
\* reports itself complete has left nothing a rule or the collection's limits
\* condemn, and one that leaves work has done some (enforce_retention,
\* enforce_collection_retention).
THEOREM RetentionAccounts == RetSpec => []RetTypeOK /\ []PassIsAccounted
<1>1. RetInv => RetTypeOK /\ PassIsAccounted
  BY RetTypes DEF RetInv
<1> QED
  BY <1>1, RetStart, RetStep, PTL DEF RetSpec

\* A rule with a grace window destroys nothing, key or no key, crash or no crash.
THEOREM GraceIsKept == RetSpec => GraceIsHonoured
BY RetStart, RetStep, GraceStep, PTL DEF RetSpec, GraceIsHonoured

-----------------------------------------------------------------------------
(* ClipLifecycle: residency and imports *)

LifeRow == [archived : BOOLEAN, exported : BOOLEAN, consent : BOOLEAN, local : BOOLEAN]
StagedRow == [clip : LifeClips \ Detected, at : 0 .. LifeMaxNow, intact : BOOLEAN]

\* What a row records of its way in and out, in rows of the right shape: this
\* is inductive as it stands.
LifeInv ==
    /\ LifeTypeOK
    /\ clipRows \in [Present -> LifeRow] /\ staged \in [DOMAIN staged -> StagedRow]
    /\ ResidencyIsKept

\* Taking entries out of the quarantine leaves the others as they are.
LEMMA UnstagedType ==
  ASSUME LifeInv, NEW S, staged' = Unstaged(S)
  PROVE /\ DOMAIN staged' = DOMAIN staged \ S /\ DOMAIN staged' \subseteq ImportIds
        /\ staged' \in [DOMAIN staged' -> StagedRow]
        /\ \A i \in DOMAIN staged' : staged'[i].clip \in LifeClips \ Detected
BY DEF LifeInv, LifeTypeOK, Unstaged, StagedRow

\* A pass over the imports brings in what it takes out, and takes nothing else.
LEMMA RestoreEffect ==
  ASSUME LifeInv, NEW sel, Len(sel) \in Nat, RestoreImports(sel)
  PROVE \E entered, taken :
          /\ entered \in SUBSET DOMAIN staged
          /\ taken \cap DOMAIN staged \subseteq entered
          /\ clipRows' = Restored({staged[i].clip : i \in entered})
          /\ staged' = Unstaged(taken)
          /\ UNCHANGED <<handed, lifeNow>>
<1>1. PICK n \in 0 .. Len(sel), half \in {0, 1} :
        /\ clipRows' = Restored({staged[i].clip : i \in {sel[k] : k \in 1 .. n + half} \cap DOMAIN staged})
        /\ staged' = Unstaged(Committed(sel, n))
        /\ UNCHANGED <<handed, lifeNow>>
  BY DEF RestoreImports, Settled
<1> DEFINE entered == {sel[k] : k \in 1 .. n + half} \cap DOMAIN staged
<1>2. Committed(sel, n) \cap DOMAIN staged \subseteq entered
  BY DEF Committed
<1> QED
  BY <1>1, <1>2

\* Writing one Boolean of a row gives a row with the others as they were.
LEMMA ArchivedRow ==
  ASSUME NEW r \in LifeRow, NEW v \in BOOLEAN, NEW q, q = [r EXCEPT !.archived = v]
  PROVE /\ q \in LifeRow /\ q.archived = v
        /\ q.exported = r.exported /\ q.consent = r.consent /\ q.local = r.local
BY DEF LifeRow

LEMMA ExportedRow ==
  ASSUME NEW r \in LifeRow, NEW v \in BOOLEAN, NEW q, q = [r EXCEPT !.exported = v]
  PROVE /\ q \in LifeRow /\ q.exported = v
        /\ q.archived = r.archived /\ q.consent = r.consent /\ q.local = r.local
BY DEF LifeRow

LEMMA FreshRow ==
  ASSUME NEW consent \in BOOLEAN, NEW local \in BOOLEAN
  PROVE /\ RowOf(consent, local) \in LifeRow /\ ~RowOf(consent, local).archived
        /\ RowOf(consent, local).consent = consent /\ RowOf(consent, local).local = local
BY DEF RowOf, LifeRow

\* The restored rows: known ones as they were but out of the archive, fresh
\* ones local to nobody and without consent.
LEMMA RestoredRows ==
  ASSUME LifeInv, NEW entered \in SUBSET DOMAIN staged,
         clipRows' = Restored({staged[i].clip : i \in entered})
  PROVE /\ Present \subseteq Present' /\ Present' \subseteq LifeClips
        /\ clipRows' \in [Present' -> LifeRow]
        /\ \A c \in Present : /\ clipRows'[c].exported = clipRows[c].exported
                              /\ clipRows'[c].consent = clipRows[c].consent
                              /\ clipRows'[c].local = clipRows[c].local
        /\ \A c \in Present' \ Present : ~clipRows'[c].consent /\ ~clipRows'[c].local
        /\ \A i \in entered : staged[i].clip \in Present' /\ ~clipRows'[staged[i].clip].archived
<1> DEFINE S == {staged[i].clip : i \in entered}
<1>1. S \subseteq LifeClips
  BY DEF LifeInv, LifeTypeOK
<1>2. Present' = Present \cup S
  BY DEF Restored, Present
<1>3. \A c \in Present' :
        clipRows'[c] = IF c \notin Present THEN RowOf(FALSE, FALSE)
                       ELSE [clipRows[c] EXCEPT !.archived = @ /\ c \notin S]
  BY <1>2 DEF Restored
<1>4. \A c \in Present : clipRows[c] \in LifeRow
  BY DEF LifeInv
<1>5. ASSUME NEW c \in Present'
      PROVE /\ clipRows'[c] \in LifeRow /\ (c \in S => ~clipRows'[c].archived)
            /\ c \notin Present => ~clipRows'[c].consent /\ ~clipRows'[c].local
            /\ c \in Present => /\ clipRows'[c].exported = clipRows[c].exported
                                /\ clipRows'[c].consent = clipRows[c].consent
                                /\ clipRows'[c].local = clipRows[c].local
  <2> DEFINE v == clipRows[c].archived /\ c \notin S
  <2>1. CASE c \notin Present
    BY <1>3, <2>1, FreshRow
  <2>2. CASE c \in Present
    <3>1. v \in BOOLEAN /\ (c \in S => v = FALSE)
      OBVIOUS
    <3>2. clipRows'[c] = [clipRows[c] EXCEPT !.archived = v]
      BY <1>3, <1>5, <2>2
    <3>3. clipRows[c] \in LifeRow
      BY <1>4, <2>2
    <3> HIDE DEF v
    <3>4. /\ clipRows'[c] \in LifeRow /\ clipRows'[c].archived = v
          /\ clipRows'[c].exported = clipRows[c].exported
          /\ clipRows'[c].consent = clipRows[c].consent
          /\ clipRows'[c].local = clipRows[c].local
      BY <3>1, <3>2, <3>3, ArchivedRow
    <3> QED
      BY <2>2, <3>1, <3>4
  <2> QED
    BY <2>1, <2>2
<1>6. clipRows' = [c \in Present' |-> clipRows'[c]]
  BY <1>2 DEF Restored
<1>10. clipRows' \in [Present' -> LifeRow]
  BY <1>5, <1>6
<1> QED
  BY <1>1, <1>2, <1>5, <1>10 DEF LifeInv, LifeTypeOK

\* Every step of the lifecycle keeps what is recorded true.
LEMMA LifeStep == LifeInv /\ [LifeNext]_lifeVars => LifeInv'
<1> SUFFICES ASSUME LifeInv, [LifeNext]_lifeVars PROVE LifeInv'
  OBVIOUS
<1>0. /\ Present \subseteq LifeClips /\ handed \subseteq Present /\ lifeNow \in 0 .. LifeMaxNow
      /\ DOMAIN staged \subseteq ImportIds
      /\ \A i \in DOMAIN staged : staged[i].clip \in LifeClips \ Detected
      /\ clipRows \in [Present -> LifeRow] /\ staged \in [DOMAIN staged -> StagedRow]
      /\ ImportsStayLocal /\ ExportedIsMarked
  BY DEF LifeInv, LifeTypeOK, ResidencyIsKept
<1> USE LifeAssumption
\* It is enough to look at the rows ...
<1>1. ASSUME UNCHANGED <<staged, lifeNow>>, Present' \subseteq LifeClips, handed' \subseteq Present',
             clipRows' \in [Present' -> LifeRow],
             \A c \in Present' : ~clipRows'[c].local => ~clipRows'[c].consent,
             \A c \in handed' : clipRows'[c].exported
      PROVE LifeInv'
  BY <1>0, <1>1 DEF LifeInv, LifeTypeOK, ResidencyIsKept, ImportsStayLocal, ExportedIsMarked
\* ... or at the quarantine.
<1>2. ASSUME UNCHANGED <<clipRows, handed, lifeNow>>, DOMAIN staged' \subseteq ImportIds,
             staged' \in [DOMAIN staged' -> StagedRow]
      PROVE LifeInv'
  BY <1>0, <1>2 DEF LifeInv, LifeTypeOK, ResidencyIsKept, ImportsStayLocal, ExportedIsMarked,
                    Present, StagedRow
<1>3. ASSUME NEW c \in LifeClips, NEW consent \in BOOLEAN, CaptureClip(c, consent) PROVE LifeInv'
  <2> DEFINE row == IF c \in Present
                      THEN [clipRows[c] EXCEPT !.consent = consent, !.local = TRUE]
                      ELSE RowOf(consent, TRUE)
  <2>1. row \in LifeRow /\ row.local /\ (c \in Present => row.exported = clipRows[c].exported)
    BY <1>0 DEF LifeRow, RowOf
  <2>2. clipRows' = WithRow(c, row) /\ UNCHANGED <<staged, handed, lifeNow>>
    BY <1>3 DEF CaptureClip, Settled
  <2> HIDE DEF row
  <2>3. Present' = Present \cup {c} /\ \A d \in Present' : clipRows'[d] = IF d = c THEN row ELSE clipRows[d]
    BY <2>2 DEF WithRow, Present
  <2>4. clipRows' \in [Present' -> LifeRow]
    BY <1>0, <2>1, <2>2, <2>3 DEF WithRow
  <2>5. \A d \in Present' : ~clipRows'[d].local => ~clipRows'[d].consent
    BY <1>0, <2>1, <2>3 DEF ImportsStayLocal
  <2>6. \A d \in handed' : clipRows'[d].exported
    BY <1>0, <2>1, <2>2, <2>3 DEF ExportedIsMarked
  <2> QED
    BY <1>0, <1>1, <2>2, <2>3, <2>4, <2>5, <2>6
<1>4. ASSUME NEW c \in LifeClips, RemoveClip(c) PROVE LifeInv'
  <2>1. Present' = Present \ {c} /\ \A d \in Present' : clipRows'[d] = clipRows[d]
    BY <1>4 DEF RemoveClip, Present
  <2>2. clipRows' \in [Present' -> LifeRow] /\ handed' = handed \ {c} /\ UNCHANGED <<staged, lifeNow>>
    BY <1>0, <1>4, <2>1 DEF RemoveClip, Settled
  <2> QED
    BY <1>0, <1>1, <2>1, <2>2 DEF ImportsStayLocal, ExportedIsMarked
<1>5. ASSUME NEW c \in LifeClips, NEW value \in BOOLEAN, Annotate(c, "archived", value) PROVE LifeInv'
  <2>1. c \in Present /\ clipRows' = [clipRows EXCEPT ![c] = [clipRows[c] EXCEPT !.archived = value]]
        /\ UNCHANGED <<staged, handed, lifeNow>>
    BY <1>5 DEF Annotate, Settled
  <2>2. Present' = Present /\ clipRows' \in [Present' -> LifeRow]
    BY <1>0, <2>1 DEF Present, LifeRow
  <2>3. \A d \in Present : /\ clipRows'[d].local = clipRows[d].local
                           /\ clipRows'[d].consent = clipRows[d].consent
                           /\ clipRows'[d].exported = clipRows[d].exported
    BY <1>0, <2>1 DEF LifeRow
  <2> QED
    BY <1>0, <1>1, <2>1, <2>2, <2>3 DEF ImportsStayLocal, ExportedIsMarked
<1>6. ASSUME NEW c \in LifeClips, RecordResidency(c) PROVE LifeInv'
  <2>1. c \in Present /\ clipRows' = [clipRows EXCEPT ![c] = [clipRows[c] EXCEPT !.exported = TRUE]]
        /\ UNCHANGED <<staged, handed, lifeNow>>
    BY <1>6 DEF RecordResidency, Annotate, Settled
  <2>2. Present' = Present /\ clipRows' \in [Present' -> LifeRow]
    BY <1>0, <2>1 DEF Present, LifeRow
  <2>3. \A d \in Present : /\ clipRows'[d].local = clipRows[d].local
                           /\ clipRows'[d].consent = clipRows[d].consent
                           /\ (clipRows[d].exported => clipRows'[d].exported)
    BY <1>0, <2>1 DEF LifeRow
  <2> QED
    BY <1>0, <1>1, <2>1, <2>2, <2>3 DEF ImportsStayLocal, ExportedIsMarked
<1>7. ASSUME NEW version \in {1, 2}, NEW archive \in {"active", "archived", "all"},
             Export(version, archive)
      PROVE LifeInv'
  <2>1. /\ clipRows' = Marked(Visible(archive))
        /\ handed' \in {handed, handed \cup Visible(archive)} /\ UNCHANGED <<staged, lifeNow>>
    BY <1>7 DEF Export, Settled
  <2>2. Visible(archive) \subseteq Present
    BY DEF Visible
  <2>3. Present' = Present
        /\ \A c \in Present :
             clipRows'[c] = [clipRows[c] EXCEPT !.exported = @ \/ c \in Visible(archive)]
    BY <2>1 DEF Marked, Present
  <2>4. ASSUME NEW c \in Present
        PROVE /\ clipRows'[c] \in LifeRow
              /\ clipRows'[c].local = clipRows[c].local
              /\ clipRows'[c].consent = clipRows[c].consent
              /\ c \in Visible(archive) => clipRows'[c].exported
              /\ clipRows[c].exported => clipRows'[c].exported
    <3> DEFINE v == clipRows[c].exported \/ c \in Visible(archive)
    <3>1. v \in BOOLEAN /\ (clipRows[c].exported => v) /\ (c \in Visible(archive) => v)
      OBVIOUS
    <3>2. clipRows[c] \in LifeRow /\ clipRows'[c] = [clipRows[c] EXCEPT !.exported = v]
      BY <1>0, <2>3
    <3> HIDE DEF v
    <3>3. /\ clipRows'[c] \in LifeRow /\ clipRows'[c].exported = v
          /\ clipRows'[c].consent = clipRows[c].consent
          /\ clipRows'[c].local = clipRows[c].local
      BY <3>1, <3>2, ExportedRow
    <3> QED
      BY <3>1, <3>3
  <2>5. clipRows' \in [Present' -> LifeRow]
    BY <2>1, <2>3, <2>4 DEF Marked
  <2> QED
    BY <1>0, <1>1, <2>1, <2>2, <2>3, <2>4, <2>5 DEF ImportsStayLocal, ExportedIsMarked
<1>8. ASSUME NEW i \in ImportIds, NEW c \in LifeClips, StageImport(i, c) PROVE LifeInv'
  <2>1. DOMAIN staged' = DOMAIN staged \cup {i} /\ UNCHANGED <<clipRows, handed, lifeNow>>
    BY <1>8 DEF StageImport, Settled
  <2>2. staged' \in [DOMAIN staged' -> StagedRow]
    BY <1>0, <1>8, <2>1 DEF StageImport, StagedRow
  <2> QED
    BY <1>0, <1>2, <2>1, <2>2
<1>9. ASSUME NEW i \in ImportIds, AlterPayload(i) PROVE LifeInv'
  BY <1>0, <1>2, <1>9 DEF AlterPayload, StagedRow, Settled
<1>10. ASSUME NEW S, staged' = Unstaged(S), UNCHANGED <<clipRows, handed, lifeNow>> PROVE LifeInv'
  BY <1>2, <1>10, UnstagedType
<1>11. ASSUME NEW i \in ImportIds, RejectImport(i) PROVE LifeInv'
  BY <1>10, <1>11 DEF RejectImport, Settled
<1>12. CASE OpenStore
  BY <1>10, <1>12 DEF OpenStore, Settled
<1>13. ASSUME NEW i \in ImportIds, NEW j \in ImportIds,
              RestoreImports(IF i = j THEN <<i>> ELSE <<i, j>>)
       PROVE LifeInv'
  <2>1. Len(IF i = j THEN <<i>> ELSE <<i, j>>) \in Nat
    OBVIOUS
  <2>2. PICK entered, taken :
          /\ entered \in SUBSET DOMAIN staged
          /\ taken \cap DOMAIN staged \subseteq entered
          /\ clipRows' = Restored({staged[k].clip : k \in entered})
          /\ staged' = Unstaged(taken)
          /\ UNCHANGED <<handed, lifeNow>>
    BY <1>13, <2>1, RestoreEffect
  <2>3. /\ Present \subseteq Present' /\ Present' \subseteq LifeClips
        /\ clipRows' \in [Present' -> LifeRow]
        /\ \A c \in Present : /\ clipRows'[c].exported = clipRows[c].exported
                              /\ clipRows'[c].consent = clipRows[c].consent
                              /\ clipRows'[c].local = clipRows[c].local
        /\ \A c \in Present' \ Present : ~clipRows'[c].consent /\ ~clipRows'[c].local
    BY <2>2, RestoredRows
  <2>4. DOMAIN staged' \subseteq ImportIds /\ staged' \in [DOMAIN staged' -> StagedRow]
        /\ \A k \in DOMAIN staged' : staged'[k].clip \in LifeClips \ Detected
    BY <2>2, UnstagedType
  <2>5. ImportsStayLocal'
    BY <1>0, <2>3 DEF ImportsStayLocal
  <2>6. ExportedIsMarked' /\ handed' \subseteq Present'
    BY <1>0, <2>2, <2>3 DEF ExportedIsMarked
  <2> QED
    BY <1>0, <2>2, <2>3, <2>4, <2>5, <2>6 DEF LifeInv, LifeTypeOK, ResidencyIsKept
<1>14. CASE LifeTick
  BY <1>0, <1>14 DEF LifeTick, LifeInv, LifeTypeOK, ResidencyIsKept, ImportsStayLocal,
                     ExportedIsMarked, Present
<1>15. CASE UNCHANGED lifeVars
  BY <1>0, <1>15 DEF lifeVars, LifeInv, LifeTypeOK, ResidencyIsKept, ImportsStayLocal,
                     ExportedIsMarked, Present
<1> QED
  BY <1>3, <1>4, <1>5, <1>6, <1>7, <1>8, <1>9, <1>11, <1>12, <1>13, <1>14, <1>15
  DEF LifeNext, SetArchived

\* A staged clip leaves the quarantine for one of the three good reasons.
LEMMA ImportStep ==
  LifeInv /\ [LifeNext]_lifeVars =>
    [\A i \in DOMAIN staged \ DOMAIN staged' :
          \/ staged[i].clip \in Present' /\ ~clipRows'[staged[i].clip].archived
          \/ clipRows' = clipRows /\ staged[i].at <= lifeNow - MaxAge
          \/ RejectImport(i)]_lifeVars
<1> SUFFICES ASSUME LifeInv, LifeNext, NEW i \in DOMAIN staged \ DOMAIN staged'
             PROVE \/ staged[i].clip \in Present' /\ ~clipRows'[staged[i].clip].archived
                   \/ clipRows' = clipRows /\ staged[i].at <= lifeNow - MaxAge
                   \/ RejectImport(i)
  OBVIOUS
<1>1. ASSUME staged' = staged PROVE FALSE
  BY <1>1
<1>2. ASSUME NEW j \in ImportIds, NEW c \in LifeClips, StageImport(j, c) PROVE FALSE
  BY <1>2 DEF StageImport
<1>3. ASSUME NEW j \in ImportIds, AlterPayload(j) PROVE FALSE
  BY <1>3 DEF AlterPayload
<1>4. ASSUME NEW j \in ImportIds, RejectImport(j) PROVE j = i
  BY <1>4 DEF RejectImport, Unstaged
<1>5. CASE OpenStore
  BY <1>5 DEF OpenStore, Unstaged
<1>6. ASSUME NEW j \in ImportIds, NEW k \in ImportIds,
             RestoreImports(IF j = k THEN <<j>> ELSE <<j, k>>)
      PROVE staged[i].clip \in Present' /\ ~clipRows'[staged[i].clip].archived
  <2>1. Len(IF j = k THEN <<j>> ELSE <<j, k>>) \in Nat
    OBVIOUS
  <2>2. PICK entered, taken :
          /\ entered \in SUBSET DOMAIN staged
          /\ taken \cap DOMAIN staged \subseteq entered
          /\ clipRows' = Restored({staged[n].clip : n \in entered})
          /\ staged' = Unstaged(taken)
    BY <1>6, <2>1, RestoreEffect
  <2>3. i \in entered
    BY <2>2 DEF Unstaged
  <2> QED
    BY <2>2, <2>3, RestoredRows
<1> QED
  BY <1>1, <1>2, <1>3, <1>4, <1>5, <1>6
  DEF LifeNext, CaptureClip, RemoveClip, SetArchived, RecordResidency, Annotate, Export, LifeTick

LEMMA LifeStart == LifeInit => LifeInv
BY LifeAssumption DEF LifeInit, LifeInv, LifeTypeOK, ResidencyIsKept, ImportsStayLocal,
                      ExportedIsMarked, Present

\* What is recorded of a row's way in and out stays true, whatever was archived,
\* exported, deleted and restored around it: a clip only imports have brought
\* may neither sync nor feed the AI features, and what an export has handed out
\* is marked (sanitize_import_privacy, export_json).
THEOREM ResidencySafety == LifeSpec => []ResidencyIsKept
<1>1. LifeInv => ResidencyIsKept
  BY DEF LifeInv
<1> QED
  BY <1>1, LifeStart, LifeStep, PTL DEF LifeSpec

\* No import is lost, however the passes that restore it fail or die half way
\* (restore_imports, purge_import_quarantine).
THEOREM ImportSurvival == LifeSpec => ImportsAreNotLost
BY LifeStart, LifeStep, ImportStep, PTL DEF LifeSpec, ImportsAreNotLost

-----------------------------------------------------------------------------
(* StoreMaintenance: what the helpers of the table claim of it *)

TableRow == [version : {"old", "new"}, sensitive : BOOLEAN, projected : BOOLEAN, held : BOOLEAN]

\* What the helpers claim, of rows of the right shape.
MaintInv == tabled \in [InTable -> TableRow] /\ HelpersAreTrue

\* A row as the scan, the backfill and the audit leave it.
LEMMA ScrubbedRow ==
  ASSUME NEW r \in TableRow
  PROVE /\ [r EXCEPT !.sensitive = TRUE, !.projected = FALSE] \in TableRow
        /\ [r EXCEPT !.sensitive = TRUE, !.projected = FALSE].projected = FALSE
        /\ [r EXCEPT !.sensitive = TRUE, !.projected = FALSE].version = r.version
BY DEF TableRow

LEMMA BackfilledRow ==
  ASSUME NEW r \in TableRow, NEW v \in BOOLEAN, NEW q, q = [r EXCEPT !.projected = v]
  PROVE q \in TableRow /\ q.projected = v /\ q.sensitive = r.sensitive /\ q.version = r.version
BY DEF TableRow

LEMMA RepairedRow ==
  ASSUME NEW r \in TableRow
  PROVE /\ [r EXCEPT !.version = "new"] \in TableRow
        /\ [r EXCEPT !.version = "new"].version = "new"
        /\ [r EXCEPT !.version = "new"].sensitive = r.sensitive
        /\ [r EXCEPT !.version = "new"].projected = r.projected
BY DEF TableRow

LEMMA CopiedRow ==
  ASSUME NEW sensitive \in BOOLEAN, NEW onHold \in BOOLEAN, NEW q,
         q = [version |-> "new", sensitive |-> sensitive, projected |-> ~sensitive, held |-> onHold]
  PROVE q \in TableRow /\ q.version = "new" /\ (q.sensitive => ~q.projected)
BY DEF TableRow

\* Every step of the table and of the pass keeps the claims true.
LEMMA MaintStep == MaintInv /\ [MaintNext]_maintVars => MaintInv'
<1> SUFFICES ASSUME MaintInv, [MaintNext]_maintVars PROVE MaintInv'
  OBVIOUS
<1>0. /\ tabled \in [InTable -> TableRow]
      /\ \A id \in InTable : tabled[id].sensitive => ~tabled[id].projected
      /\ \A id \in InTable : <<ContentOf[id], tabled[id].version>> \in known
  BY DEF MaintInv, HelpersAreTrue, SensitiveIsUnprojected, FilterKnowsTable, HashOf
\* It is enough to look at the rows and at the filter.
<1>1. ASSUME tabled' \in [InTable' -> TableRow],
             \A id \in InTable' : tabled'[id].sensitive => ~tabled'[id].projected,
             \A id \in InTable' : <<ContentOf[id], tabled'[id].version>> \in known'
      PROVE MaintInv'
  BY <1>1 DEF MaintInv, HelpersAreTrue, SensitiveIsUnprojected, FilterKnowsTable, HashOf
<1>2. ASSUME UNCHANGED <<tabled, known>> PROVE MaintInv'
  BY <1>0, <1>1, <1>2 DEF InTable
<1>3. ASSUME NEW id \in RowIds, MaintCopy(id) PROVE MaintInv'
  <2> DEFINE hash == <<ContentOf[id], "new">>
             twins == {d \in InTable : HashOf(d) = hash}
             put == IF twins = {} THEN id ELSE CHOOSE d \in twins : TRUE
             sensitive == ContentOf[id] \in Secret
                          \/ (put \in InTable /\ twins # {} /\ tabled[put].sensitive)
             onHold == twins # {} /\ tabled[put].held
             row == [version |-> "new", sensitive |-> sensitive, projected |-> ~sensitive,
                     held |-> onHold]
  <2>1. /\ tabled' = [d \in InTable \cup {put} |-> IF d = put THEN row ELSE tabled[d]]
        /\ known' = known \cup {hash}
    BY <1>3 DEF MaintCopy
  <2>2. ContentOf[put] = ContentOf[id]
    <3>1. CASE twins = {}
      BY <3>1
    <3>2. CASE twins # {}
      <4>1. put \in twins
        BY <3>2
      <4> QED
        BY <4>1 DEF HashOf
    <3> QED
      BY <3>1, <3>2
  <2>3. row \in TableRow /\ row.version = "new" /\ (row.sensitive => ~row.projected)
    <3>1. sensitive \in BOOLEAN /\ onHold \in BOOLEAN
      OBVIOUS
    <3> HIDE DEF sensitive, onHold
    <3> QED
      BY <3>1, CopiedRow
  <2> HIDE DEF row, put, twins
  <2>4. InTable' = InTable \cup {put}
    BY <2>1 DEF InTable
  <2>5. tabled' \in [InTable' -> TableRow]
    BY <1>0, <2>1, <2>3, <2>4
  <2>6. \A d \in InTable' : tabled'[d] = IF d = put THEN row ELSE tabled[d]
    BY <2>1, <2>4
  <2> QED
    BY <1>0, <1>1, <2>1, <2>2, <2>3, <2>4, <2>5, <2>6
<1>4. ASSUME NEW id \in RowIds, MaintDelete(id) PROVE MaintInv'
  <2>1. tabled' = [d \in InTable \ {id} |-> tabled[d]] /\ known' = known
    BY <1>4 DEF MaintDelete, Dropped
  <2>2. InTable' = InTable \ {id}
    BY <2>1 DEF InTable
  <2> QED
    BY <1>0, <1>1, <2>1, <2>2
<1>5. ASSUME NEW id \in RowIds, BlobLost(id) PROVE MaintInv'
  BY <1>2, <1>5 DEF BlobLost
<1>6. CASE PassBegins
  BY <1>2, <1>6 DEF PassBegins, tableVars
<1>7. CASE ClawbackSensitive
  <2>1. PICK found : tabled' = [id \in InTable |-> IF id \in found THEN Scrubbed(id) ELSE tabled[id]]
    BY <1>7 DEF ClawbackSensitive
  <2>2. InTable' = InTable /\ known' = known
    BY <1>7, <2>1 DEF ClawbackSensitive, InTable
  <2>3. \A id \in InTable : /\ tabled'[id] \in TableRow
                            /\ tabled'[id].sensitive => ~tabled'[id].projected
                            /\ tabled'[id].version = tabled[id].version
    BY <1>0, <2>1, ScrubbedRow DEF Scrubbed
  <2>4. tabled' \in [InTable' -> TableRow]
    BY <2>1, <2>2, <2>3
  <2> QED
    BY <1>0, <1>1, <2>2, <2>3, <2>4
<1>8. CASE Backfill
  <2>1. known' = known
    BY <1>8 DEF Backfill
  <2>2. CASE UNCHANGED tabled
    BY <1>2, <2>1, <2>2
  <2>3. ASSUME NEW S \in SUBSET {id \in InTable : ~tabled[id].projected /\ ~tabled[id].sensitive},
               tabled' = [id \in InTable |-> [tabled[id] EXCEPT !.projected = @ \/ id \in S]]
        PROVE MaintInv'
    <3>1. InTable' = InTable
      BY <2>3 DEF InTable
    <3>2. ASSUME NEW id \in InTable
          PROVE /\ tabled'[id] \in TableRow
                /\ tabled'[id].sensitive => ~tabled'[id].projected
                /\ tabled'[id].version = tabled[id].version
      <4> DEFINE v == tabled[id].projected \/ id \in S
      <4>1. v \in BOOLEAN /\ (tabled[id].sensitive => ~v)
        BY <1>0, <2>3
      <4>2. tabled[id] \in TableRow /\ tabled'[id] = [tabled[id] EXCEPT !.projected = v]
        BY <1>0, <2>3
      <4> HIDE DEF v
      <4>3. /\ tabled'[id] \in TableRow /\ tabled'[id].projected = v
            /\ tabled'[id].sensitive = tabled[id].sensitive
            /\ tabled'[id].version = tabled[id].version
        BY <4>1, <4>2, BackfilledRow
      <4> QED
        BY <4>1, <4>3
    <3>3. tabled' \in [InTable' -> TableRow]
      BY <2>3, <3>1, <3>2
    <3> QED
      BY <1>0, <1>1, <2>1, <3>1, <3>2, <3>3
  <2> QED
    BY <1>8, <2>2, <2>3 DEF Backfill
<1>9. CASE AuditContentHashes
  <2> DEFINE batch == ToSet(AuditList)
             gone == {id \in Clashing(batch) : ~tabled[id].held}
             repaired == {id \in batch \ Clashing(batch) : tabled[id].version = "old"}
  <2>1. CASE batch \cap unreadable # {}
    BY <1>2, <1>9, <2>1 DEF AuditContentHashes, tableVars
  <2>2. CASE batch \cap unreadable = {}
    <3>1. /\ tabled' = [id \in InTable \ gone |->
                          IF id \in repaired THEN [tabled[id] EXCEPT !.version = "new"]
                          ELSE tabled[id]]
          /\ known' = known \cup {<<ContentOf[id], "new">> : id \in repaired}
      BY <1>9, <2>2 DEF AuditContentHashes, FilterTold
    <3> HIDE DEF gone, repaired
    <3>2. InTable' = InTable \ gone
      BY <3>1 DEF InTable
    <3>3. \A id \in InTable' : /\ tabled'[id] \in TableRow
                               /\ tabled'[id].sensitive => ~tabled'[id].projected
      BY <1>0, <3>1, <3>2, RepairedRow
    <3>4. \A id \in InTable' : <<ContentOf[id], tabled'[id].version>> \in known'
      BY <1>0, <3>1, <3>2, RepairedRow
    <3>5. tabled' \in [InTable' -> TableRow]
      BY <3>1, <3>2, <3>3
    <3> QED
      BY <1>1, <3>3, <3>4, <3>5
  <2> QED
    BY <2>1, <2>2
<1>10. CASE ScrubWal
  BY <1>2, <1>10 DEF ScrubWal
<1>11. CASE MaintReopen
  BY <1>0, <1>1, <1>11 DEF MaintReopen, InTable, HashOf
<1>12. CASE UNCHANGED maintVars
  BY <1>2, <1>12 DEF maintVars, tableVars
<1> QED
  BY <1>3, <1>4, <1>5, <1>6, <1>7, <1>8, <1>9, <1>10, <1>11, <1>12 DEF MaintNext

\* They hold of what an older version has left.
LEMMA MaintStart == MaintInit => MaintInv
<1> SUFFICES ASSUME MaintInit PROVE MaintInv
  OBVIOUS
<1>1. PICK heldRows \in SUBSET ToSet(OldRows) :
        tabled = [id \in ToSet(OldRows) |-> OldRow(id \in heldRows)]
  BY DEF MaintInit
<1>2. \A onHold \in BOOLEAN : OldRow(onHold) \in TableRow /\ ~OldRow(onHold).sensitive
  BY DEF OldRow, TableRow
<1>3. InTable = ToSet(OldRows) /\ known = {HashOf(id) : id \in InTable}
  BY <1>1 DEF MaintInit, InTable
<1>4. \A id \in InTable : (id \in heldRows) \in BOOLEAN
  OBVIOUS
<1>5. \A id \in InTable : tabled[id] \in TableRow /\ ~tabled[id].sensitive
  BY <1>1, <1>2, <1>3, <1>4
<1>6. tabled \in [InTable -> TableRow]
  BY <1>1, <1>3, <1>5
<1> QED
  BY <1>3, <1>5, <1>6 DEF MaintInv, HelpersAreTrue, SensitiveIsUnprojected, FilterKnowsTable

\* Whatever the copies, scans, backfills, repairs and crashes, no sensitive row
\* has a projection and no stored hash is unknown to the filter
\* (History::maintain_idle, dedup_filter).
THEOREM HelpersStayTrue == MaintSpec => []HelpersAreTrue
<1>1. MaintInv => HelpersAreTrue
  BY DEF MaintInv
<1> QED
  BY <1>1, MaintStart, MaintStep, PTL DEF MaintSpec

\* The audit step removes no content: a row it takes out has a twin with the
\* right hash, which stays (QUARANTINE, audit_content_hashes).
LEMMA AuditStep ==
  [MaintNext]_maintVars =>
    [stage = "audit" /\ stage' = "wal" =>
       {ContentOf[id] : id \in InTable'} = {ContentOf[id] : id \in InTable}]_maintVars
<1> SUFFICES ASSUME MaintNext, stage = "audit", stage' = "wal"
             PROVE {ContentOf[id] : id \in InTable'} = {ContentOf[id] : id \in InTable}
  OBVIOUS
<1>1. AuditContentHashes
  BY DEF MaintNext, MaintCopy, MaintDelete, BlobLost, PassBegins, ClawbackSensitive, Backfill,
         ScrubWal, MaintReopen
<1> DEFINE batch == ToSet(AuditList)
           gone == {id \in Clashing(batch) : ~tabled[id].held}
<1>2. DOMAIN tabled' = InTable \ gone
  BY <1>1 DEF AuditContentHashes
<1>3. ASSUME NEW id \in InTable PROVE \E d \in InTable \ gone : ContentOf[d] = ContentOf[id]
  <2>1. CASE id \notin gone
    BY <2>1
  <2>2. CASE id \in gone
    <3>1. PICK d \in InTable : HashOf(d) = <<ContentOf[id], "new">>
      BY <2>2 DEF Clashing
    <3>2. ContentOf[d] = ContentOf[id] /\ tabled[d].version = "new"
      BY <3>1 DEF HashOf
    <3>3. d \notin gone
      BY <3>2 DEF Clashing
    <3> QED
      BY <3>2, <3>3
  <2> QED
    BY <2>1, <2>2
<1> HIDE DEF gone
<1>4. InTable' = InTable \ gone
  BY <1>2 DEF InTable
<1> QED
  BY <1>3, <1>4

THEOREM AuditLosesNothing == MaintSpec => AuditKeepsContent
BY AuditStep, PTL DEF MaintSpec, AuditKeepsContent

\* The two orders and the cursor: every stored id once by seq, only stored ones
\* by check, and the cursor on one of them.
TableShape ==
    /\ InTable \subseteq RowIds
    /\ bySeq \in Seq(RowIds) /\ Distinct(bySeq) /\ Listed(bySeq) = InTable
    /\ scanned \in 0 .. Len(bySeq)
    /\ byCheck \in Seq(RowIds) /\ Listed(byCheck) \subseteq InTable
    /\ stage \in {"idle", "scan", "backfill", "audit", "wal"}

\* The ids of s in S are kept, in order and none twice.
LEMMA OnlyIs ==
  ASSUME NEW C, NEW s \in Seq(C), NEW S
  PROVE /\ Only(s, S) \in Seq(C) /\ Listed(Only(s, S)) = Listed(s) \cap S
        /\ Distinct(s) => Distinct(Only(s, S))
<1> DEFINE kept == Only(s, S)
<1>1. kept = KeepIterated(s, S)[DOMAIN s]
  BY KeptIsFolded DEF Only, KeptOf
<1> HIDE DEF kept
<1> QED
  BY <1>1, KeepIs DEF kept

\* What some of the ids leave by seq, and how far the cursor has come among them.
LEMMA RowsLeft ==
  ASSUME TableShape, NEW S, NEW left, left = Only(bySeq, InTable \ S)
  PROVE /\ left \in Seq(RowIds) /\ Distinct(left) /\ Listed(left) = InTable \ S
        /\ Cardinality(RowsUpTo(scanned) \ S) \in 0 .. Len(left)
<1>1. bySeq \in Seq(RowIds) /\ Distinct(bySeq) /\ Listed(bySeq) = InTable
  BY DEF TableShape
<1>2. left \in Seq(RowIds) /\ Distinct(left) /\ Listed(left) = InTable \ S
  BY <1>1, OnlyIs
<1>3. /\ IsFiniteSet(Listed(left)) /\ Cardinality(Listed(left)) = Len(left)
  BY <1>2, ListIsSmall, ListLength
<1>4. RowsUpTo(scanned) \subseteq InTable
  <2>1. scanned \in 0 .. Len(bySeq) /\ Len(bySeq) \in Nat
    BY DEF TableShape
  <2>2. \A i \in 1 .. scanned : i \in 1 .. Len(bySeq)
    BY <2>1
  <2> QED
    BY <1>1, <2>2 DEF RowsUpTo, Listed
<1> DEFINE seen == RowsUpTo(scanned) \ S
           all == Listed(left)
<1>5. seen \in SUBSET all /\ IsFiniteSet(all) /\ Cardinality(all) = Len(left)
  BY <1>2, <1>3, <1>4
<1>6. Len(left) \in Nat
  BY <1>2
<1> HIDE DEF seen, all
<1>7. IsFiniteSet(seen) /\ Cardinality(seen) <= Cardinality(all)
  BY <1>5, FS_Subset
<1>8. Cardinality(seen) \in Nat
  BY <1>7, FS_CardinalityType
<1>9. Cardinality(seen) \in 0 .. Len(left)
  BY <1>5, <1>6, <1>7, <1>8
<1> QED
  BY <1>2, <1>9 DEF seen

\* Rows that leave the table leave the two orders, and the cursor moves with them.
LEMMA RowsLeave ==
  ASSUME TableShape, NEW S, InTable' = InTable \ S, bySeq' = Only(bySeq, InTable \ S),
         scanned' = Cardinality(RowsUpTo(scanned) \ S),
         byCheck' \in Seq(RowIds), Listed(byCheck') \subseteq InTable \ S,
         stage' \in {"idle", "scan", "backfill", "audit", "wal"}
  PROVE TableShape'
<1> DEFINE left == Only(bySeq, InTable \ S)
<1>1. /\ left \in Seq(RowIds) /\ Distinct(left) /\ Listed(left) = InTable \ S
      /\ Cardinality(RowsUpTo(scanned) \ S) \in 0 .. Len(left)
  BY RowsLeft
<1>2. bySeq' = left
  OBVIOUS
<1> HIDE DEF left
<1>3. InTable \subseteq RowIds
  BY DEF TableShape
<1> QED
  BY <1>1, <1>2, <1>3 DEF TableShape

\* The cursor moves to the last row of a full batch, which is in the table.
LEMMA CursorMoves ==
  ASSUME TableShape, NEW batch, batch = First(ScanList, ScanBatch)
  PROVE NextCursor(batch) \in 0 .. Len(bySeq)
<1> DEFINE list == ScanList
           n == Len(batch)
<1>1. bySeq \in Seq(RowIds) /\ Len(bySeq) \in Nat /\ ScanBatch \in Nat \ {0}
  BY MaintAssumption DEF TableShape
<1>2. list \in Seq(RowIds) /\ Listed(list) \subseteq Listed(bySeq)
  BY <1>1, OnlyIs DEF ScanList
<1> HIDE DEF list
<1>3. batch \in Seq(RowIds) /\ n \in Nat /\ n <= Len(list) /\ \A i \in 1..n : batch[i] = list[i]
  <2> DEFINE m == IF ScanBatch < Len(list) THEN ScanBatch ELSE Len(list)
  <2>1. m \in 0 .. Len(list) /\ Len(list) \in Nat
    BY <1>1, <1>2
  <2>2. batch = SubSeq(list, 1, m)
    BY DEF First, list
  <2> HIDE DEF m
  <2> QED
    BY <1>2, <2>1, <2>2
<1>4. CASE n < ScanBatch
  BY <1>1, <1>4 DEF NextCursor
<1>5. CASE ~(n < ScanBatch)
  <2>1. n \in 1..n /\ n \in 1..Len(list)
    BY <1>1, <1>2, <1>3, <1>5
  <2>2. Last(batch) = list[n]
    BY <1>3, <2>1 DEF Last
  <2>3. PICK i \in 1..Len(bySeq) : bySeq[i] = Last(batch)
    BY <1>2, <2>1, <2>2 DEF Listed
  <2>4. DOMAIN bySeq = 1..Len(bySeq)
    BY <1>1
  <2>5. NextCursor(batch) = CHOOSE j \in DOMAIN bySeq : bySeq[j] = Last(batch)
    BY <1>5 DEF NextCursor
  <2>6. NextCursor(batch) \in DOMAIN bySeq
    BY <2>3, <2>4, <2>5
  <2> QED
    BY <1>1, <2>4, <2>6
<1> QED
  BY <1>4, <1>5


\* Every step of the table and of the pass keeps the orders and the cursor.
LEMMA TableStep == TableShape /\ [MaintNext]_maintVars => TableShape'
<1> SUFFICES ASSUME TableShape, [MaintNext]_maintVars PROVE TableShape'
  OBVIOUS
<1>0. /\ InTable \subseteq RowIds /\ byCheck \in Seq(RowIds) /\ Listed(byCheck) \subseteq InTable
      /\ stage \in {"idle", "scan", "backfill", "audit", "wal"}
  BY DEF TableShape
<1>1. ASSUME InTable' = InTable, UNCHANGED <<bySeq, byCheck>>, scanned' \in 0 .. Len(bySeq),
             stage' \in {"idle", "scan", "backfill", "audit", "wal"}
      PROVE TableShape'
  BY <1>1 DEF TableShape
<1>2. ASSUME UNCHANGED <<tabled, bySeq, scanned, byCheck>>,
             stage' \in {"idle", "scan", "backfill", "audit", "wal"}
      PROVE TableShape'
  <2>1. InTable' = InTable
    BY <1>2 DEF InTable
  <2>2. scanned' \in 0 .. Len(bySeq)
    BY <1>2 DEF TableShape
  <2> QED
    BY <1>1, <1>2, <2>1, <2>2
<1>3. ASSUME NEW id \in RowIds, MaintCopy(id) PROVE TableShape'
  <2> DEFINE hash == <<ContentOf[id], "new">>
             twins == {d \in InTable : HashOf(d) = hash}
             put == IF twins = {} THEN id ELSE CHOOSE d \in twins : TRUE
             left == Only(bySeq, InTable \ {put})
  <2>1. PICK row : /\ tabled' = [d \in InTable \cup {put} |-> IF d = put THEN row ELSE tabled[d]]
                   /\ bySeq' = Append(left, put)
                   /\ scanned' = Cardinality(RowsUpTo(scanned) \ {put})
                   /\ UNCHANGED <<byCheck, stage>>
    BY <1>3 DEF MaintCopy
  <2>2. put \in RowIds
    BY <1>0
  <2> HIDE DEF put, twins
  <2>3. InTable' = InTable \cup {put}
    BY <2>1 DEF InTable
  <2>4. /\ left \in Seq(RowIds) /\ Distinct(left) /\ Listed(left) = InTable \ {put}
        /\ Cardinality(RowsUpTo(scanned) \ {put}) \in 0 .. Len(left)
    BY RowsLeft
  <2> HIDE DEF left
  <2> DEFINE after == Append(left, put)
  <2>5. /\ after \in Seq(RowIds) /\ Listed(after) = Listed(left) \cup {put} /\ Distinct(after)
    BY <2>2, <2>4, AppendLists
  <2>6. Len(after) = Len(left) + 1 /\ Len(left) \in Nat
    BY <2>2, <2>4
  <2> HIDE DEF after
  <2>7. bySeq' = after /\ Listed(after) = InTable \cup {put}
    BY <2>1, <2>4, <2>5 DEF after
  <2> DEFINE seen == Cardinality(RowsUpTo(scanned) \ {put})
  <2>8. scanned' = seen /\ seen \in 0 .. Len(left)
    BY <2>1, <2>4
  <2> HIDE DEF seen
  <2>9. scanned' \in 0 .. Len(after)
    BY <2>6, <2>8
  <2>10. Listed(byCheck') \subseteq InTable' /\ byCheck' \in Seq(RowIds)
    BY <1>0, <2>1, <2>3
  <2>11. stage' \in {"idle", "scan", "backfill", "audit", "wal"} /\ InTable' \subseteq RowIds
    BY <1>0, <2>1, <2>2, <2>3
  <2> QED
    BY <2>3, <2>5, <2>7, <2>9, <2>10, <2>11 DEF TableShape
<1>4. ASSUME NEW id \in RowIds, MaintDelete(id) PROVE TableShape'
  <2>1. /\ tabled' = [d \in InTable \ {id} |-> tabled[d]] /\ bySeq' = Only(bySeq, InTable \ {id})
        /\ byCheck' = Only(byCheck, InTable \ {id})
        /\ scanned' = Cardinality(RowsUpTo(scanned) \ {id}) /\ stage' = stage
    BY <1>4 DEF MaintDelete, Dropped
  <2>2. InTable' = InTable \ {id}
    BY <2>1 DEF InTable
  <2>3. byCheck' \in Seq(RowIds) /\ Listed(byCheck') \subseteq InTable \ {id}
    <3> DEFINE checks == Only(byCheck, InTable \ {id})
    <3>1. checks \in Seq(RowIds) /\ Listed(checks) = Listed(byCheck) \cap (InTable \ {id})
      BY <1>0, OnlyIs
    <3>2. byCheck' = checks
      BY <2>1
    <3> HIDE DEF checks
    <3> QED
      BY <3>1, <3>2
  <2> QED
    BY <1>0, <2>1, <2>2, <2>3, RowsLeave
<1>5. ASSUME NEW id \in RowIds, BlobLost(id) PROVE TableShape'
  BY <1>0, <1>2, <1>5 DEF BlobLost
<1>6. CASE PassBegins
  BY <1>2, <1>6 DEF PassBegins, tableVars
<1>7. CASE ClawbackSensitive
  <2> DEFINE batch == First(ScanList, ScanBatch)
  <2>1. PICK found : /\ tabled' = [id \in InTable |-> IF id \in found THEN Scrubbed(id) ELSE tabled[id]]
                     /\ scanned' = NextCursor(batch) /\ UNCHANGED <<bySeq, byCheck>>
                     /\ stage' \in {"backfill", "audit"}
    BY <1>7 DEF ClawbackSensitive
  <2>2. InTable' = InTable
    BY <2>1 DEF InTable
  <2>3. NextCursor(batch) \in 0 .. Len(bySeq)
    BY CursorMoves
  <2> HIDE DEF batch
  <2> QED
    BY <1>1, <2>1, <2>2, <2>3
<1>8. CASE Backfill
  <2>1. /\ InTable' = InTable /\ UNCHANGED <<bySeq, scanned, byCheck>>
        /\ stage' \in {"audit", "idle"}
    BY <1>8 DEF Backfill, InTable
  <2>2. scanned' \in 0 .. Len(bySeq)
    BY <2>1 DEF TableShape
  <2> QED
    BY <1>1, <2>1, <2>2
<1>9. CASE AuditContentHashes
  <2> DEFINE list == AuditList
             batch == ToSet(list)
             gone == {id \in Clashing(batch) : ~tabled[id].held}
             repaired == {id \in batch \ Clashing(batch) : tabled[id].version = "old"}
  <2>1. CASE batch \cap unreadable # {}
    BY <1>2, <1>9, <2>1 DEF AuditContentHashes, tableVars
  <2>2. CASE batch \cap unreadable = {}
    <3>1. /\ tabled' = [id \in InTable \ gone |->
                          IF id \in repaired THEN [tabled[id] EXCEPT !.version = "new"]
                          ELSE tabled[id]]
          /\ bySeq' = Only(bySeq, InTable \ gone)
          /\ byCheck' = Only(byCheck, InTable \ batch) \o Only(list, InTable \ gone)
          /\ scanned' = Cardinality(RowsUpTo(scanned) \ gone)
          /\ stage' = "wal"
      BY <1>9, <2>2 DEF AuditContentHashes
    <3>2. gone \subseteq batch
      BY DEF Clashing
    <3>3. list \in Seq(RowIds)
      <4> DEFINE whole == Only(bySeq, InTable \ ToSet(byCheck)) \o byCheck
      <4>1. Only(bySeq, InTable \ ToSet(byCheck)) \in Seq(RowIds)
        BY OnlyIs DEF TableShape
      <4>2. whole \in Seq(RowIds) /\ AuditBatch \in Nat
        BY <1>0, <4>1, ConcatProperties, MaintAssumption
      <4>3. list = First(whole, AuditBatch)
        BY DEF AuditList
      <4> HIDE DEF whole, list
      <4> DEFINE m == IF AuditBatch < Len(whole) THEN AuditBatch ELSE Len(whole)
      <4>4. m \in 0 .. Len(whole) /\ Len(whole) \in Nat /\ list = SubSeq(whole, 1, m)
        BY <4>2, <4>3 DEF First
      <4> HIDE DEF m
      <4> QED
        BY <4>2, <4>4
    <3> HIDE DEF gone, repaired, list
    <3>4. InTable' = InTable \ gone
      BY <3>1 DEF InTable
    <3> DEFINE before == Only(byCheck, InTable \ batch)
               now == Only(list, InTable \ gone)
    <3>5. before \in Seq(RowIds) /\ Listed(before) = Listed(byCheck) \cap (InTable \ batch)
      BY <1>0, OnlyIs
    <3>6. now \in Seq(RowIds) /\ Listed(now) = Listed(list) \cap (InTable \ gone)
      BY <3>3, OnlyIs
    <3> HIDE DEF before, now, batch
    <3>7. Listed(before) \subseteq InTable \ gone /\ Listed(now) \subseteq InTable \ gone
      BY <3>2, <3>5, <3>6
    <3>8. before \o now \in Seq(RowIds) /\ Listed(before \o now) \subseteq InTable \ gone
      <4>1. /\ before \o now \in Seq(RowIds) /\ Len(before \o now) = Len(before) + Len(now)
            /\ \A i \in 1 .. Len(before) + Len(now) : (before \o now)[i] =
                 IF i <= Len(before) THEN before[i] ELSE now[i - Len(before)]
            /\ Len(before) \in Nat /\ Len(now) \in Nat
        BY <3>5, <3>6, ConcatProperties
      <4>2. ASSUME NEW i \in 1 .. Len(before) + Len(now) PROVE (before \o now)[i] \in InTable \ gone
        <5>1. CASE i <= Len(before)
          <6>1. i \in 1 .. Len(before)
            BY <4>1, <5>1
          <6> QED
            BY <3>7, <4>1, <5>1, <6>1 DEF Listed
        <5>2. CASE ~(i <= Len(before))
          <6>1. i - Len(before) \in 1 .. Len(now)
            BY <4>1, <5>2
          <6> QED
            BY <3>7, <4>1, <5>2, <6>1 DEF Listed
        <5> QED
          BY <5>1, <5>2
      <4> QED
        BY <4>1, <4>2 DEF Listed
    <3>9. byCheck' \in Seq(RowIds) /\ Listed(byCheck') \subseteq InTable \ gone
      BY <3>1, <3>8 DEF before, now
    <3> QED
      BY <3>1, <3>4, <3>9, RowsLeave
  <2> QED
    BY <2>1, <2>2
<1>10. CASE ScrubWal
  BY <1>2, <1>10 DEF ScrubWal
<1>11. CASE MaintReopen
  BY <1>2, <1>11 DEF MaintReopen
<1>12. CASE UNCHANGED maintVars
  BY <1>0, <1>2, <1>12 DEF maintVars, tableVars
<1> QED
  BY <1>3, <1>4, <1>5, <1>6, <1>7, <1>8, <1>9, <1>10, <1>11, <1>12 DEF MaintNext

\* They hold of what an older version has left, which has no row twice.
LEMMA TableStart == MaintInit => TableShape
<1> SUFFICES ASSUME MaintInit PROVE TableShape
  OBVIOUS
<1>1. OldRows \in Seq(RowIds) /\ \A i, j \in DOMAIN OldRows : OldRows[i] = OldRows[j] => i = j
  BY MaintAssumption
<1>2. ToSet(OldRows) = Listed(OldRows) /\ Listed(OldRows) \subseteq RowIds
  BY <1>1, ToSetLists
<1>3. Distinct(OldRows)
  BY <1>1 DEF Distinct
<1>4. InTable = ToSet(OldRows) /\ bySeq = OldRows /\ scanned \in 0 .. Len(OldRows)
      /\ byCheck = <<>> /\ stage = "idle"
  BY DEF MaintInit, InTable
<1>5. <<>> \in Seq(RowIds) /\ Listed(<<>>) = {}
  BY DEF Listed
<1> QED
  BY <1>1, <1>2, <1>3, <1>4, <1>5 DEF TableShape

\* The types that the run checks follow.
LEMMA TableTypes == TableShape => MaintTypeOK
<1> SUFFICES ASSUME TableShape PROVE MaintTypeOK
  OBVIOUS
<1>1. /\ bySeq \in Seq(RowIds) /\ Distinct(bySeq) /\ Listed(bySeq) = InTable
      /\ byCheck \in Seq(RowIds) /\ Listed(byCheck) \subseteq InTable
  BY DEF TableShape
<1>2. Cardinality(Listed(bySeq)) = Len(bySeq) /\ ToSet(bySeq) = Listed(bySeq)
  BY <1>1, ListLength
<1>3. ToSet(byCheck) = Listed(byCheck)
  BY <1>1, ToSetLists
<1> QED
  BY <1>1, <1>2, <1>3 DEF TableShape, MaintTypeOK

\* Whatever is copied, deleted, scanned, audited and lost, every stored row has one
\* place by seq, only stored rows were checked, and the cursor is on a row that is
\* there (clawback_sensitive, audit_content_hashes).
THEOREM CursorIsInTable == MaintSpec => []MaintTypeOK
BY TableStart, TableStep, TableTypes, PTL DEF MaintSpec

-----------------------------------------------------------------------------
(* Migrations: the import of a SQLite history *)

DestRecord == [there : BOOLEAN, rows : SUBSET ImportRows, sequence : Nat]
Stage == {"closed", "staged", "verified", "published", "open"}

\* What makes a publication safe: while no history is published, the bodies of
\* a verified image stay where its importer has put them.
ImpInv ==
    /\ ImportSafety
    /\ dest \in DestRecord /\ history \subseteq ImportRows /\ oldBlobs \subseteq Spilling
    /\ ~dest.there => dest.rows = {} /\ deleted = {}
    /\ ~dest.there => \A p \in Importers :
                        imp[p].at = "verified" => imp[p].rows \cap Spilling \subseteq newBlobs

\* The sequence a publication starts from.
LEMMA HighestIs ==
  ASSUME NEW S \in SUBSET ImportRows
  PROVE Highest(S) \in Nat /\ \A r \in S : r <= Highest(S)
<1> DEFINE T == S \cup {0}
<1>1. T \in SUBSET Nat /\ T # {}
  BY ImportAssumption
<1>2. IsFiniteSet(T)
  <2>1. IsFiniteSet(S)
    BY ImportAssumption, FS_Subset
  <2> QED
    BY <2>1, FS_AddElement
<1>3. Max(T) \in T /\ \A m \in T : Max(T) >= m
  BY <1>1, <1>2, MaxExists
<1>4. \E n \in T : \A m \in T : m <= n
  <2>1. \A m \in T : m <= Max(T)
    BY <1>1, <1>3
  <2> QED
    BY <1>3, <2>1
<1> QED
  BY <1>1, <1>4 DEF Highest

\* An importer moves on, the others stay where they are.
LEMMA GoesTo ==
  ASSUME ImpInv, NEW p \in Importers, NEW at \in Stage, NEW rows \in SUBSET ImportRows,
         Goes(p, at, rows)
  PROVE /\ imp' \in [Importers -> [at : Stage, rows : SUBSET ImportRows]]
        /\ imp'[p] = [at |-> at, rows |-> rows]
        /\ \A q \in Importers : q # p => imp'[q] = imp[q]
BY DEF ImpInv, ImportSafety, ImpTypeOK, Goes, Stage

\* Every step of every importer, of the user and of the old build.
LEMMA ImpStep == ImpInv /\ [ImpNext]_impVars => ImpInv'
<1> SUFFICES ASSUME ImpInv, [ImpNext]_impVars PROVE ImpInv'
  OBVIOUS
<1> USE ImportAssumption
<1>0. /\ imp \in [Importers -> [at : Stage, rows : SUBSET ImportRows]]
      /\ dest.rows \subseteq ImportRows /\ newBlobs \subseteq Spilling
      /\ dest.rows \cap Spilling \subseteq newBlobs
      /\ \A r \in dest.rows : r <= dest.sequence
      /\ dest.rows \cap deleted = {}
      /\ dest \in DestRecord /\ history \subseteq ImportRows /\ oldBlobs \subseteq Spilling
      /\ ~dest.there => dest.rows = {} /\ deleted = {}
      /\ ~dest.there => \A p \in Importers :
                          imp[p].at = "verified" => imp[p].rows \cap Spilling \subseteq newBlobs
  BY DEF ImpInv, ImportSafety, ImpTypeOK, PublishedIsWhole, Stage
<1>1. \A p \in Importers : imp[p].at \in Stage /\ imp[p].rows \in SUBSET ImportRows
  BY <1>0
\* While the published history stays, it is enough to look at the images.
<1>2. ASSUME UNCHANGED <<dest, deleted>>, history' \subseteq ImportRows, oldBlobs' \subseteq Spilling,
             imp' \in [Importers -> [at : Stage, rows : SUBSET ImportRows]],
             newBlobs' \subseteq Spilling, dest.rows \cap Spilling \subseteq newBlobs',
             ~dest.there => \A p \in Importers :
                              imp'[p].at = "verified" => imp'[p].rows \cap Spilling \subseteq newBlobs'
      PROVE ImpInv'
  BY <1>0, <1>2 DEF ImpInv, ImportSafety, ImpTypeOK, PublishedIsWhole, Stage
\* An importer that goes anywhere but to "verified", with no body taken away.
<1>3. ASSUME NEW p \in Importers, NEW at \in Stage, at # "verified",
             NEW rows \in SUBSET ImportRows, Goes(p, at, rows),
             UNCHANGED <<dest, deleted, history, oldBlobs>>,
             newBlobs \subseteq newBlobs', newBlobs' \subseteq Spilling
      PROVE ImpInv'
  <2>1. /\ imp' \in [Importers -> [at : Stage, rows : SUBSET ImportRows]]
        /\ imp'[p] = [at |-> at, rows |-> rows]
        /\ \A q \in Importers : q # p => imp'[q] = imp[q]
    BY <1>3, GoesTo
  <2>2. ASSUME NEW q \in Importers, ~dest.there, imp'[q].at = "verified"
        PROVE imp'[q].rows \cap Spilling \subseteq newBlobs'
    <3>1. q # p
      BY <1>3, <2>1, <2>2
    <3>2. imp[q].rows \cap Spilling \subseteq newBlobs
      BY <1>0, <2>1, <2>2, <3>1
    <3> QED
      BY <1>3, <2>1, <3>1, <3>2
  <2> QED
    BY <1>0, <1>2, <1>3, <2>1, <2>2
<1>4. ASSUME NEW p \in Importers, OpenDestination(p) PROVE ImpInv'
  <2>1. imp' \in [Importers -> [at : Stage, rows : SUBSET ImportRows]]
    <3>1. Goes(p, "open", {}) /\ "open" \in Stage /\ {} \in SUBSET ImportRows
      BY <1>4 DEF OpenDestination, Stage
    <3> QED
      BY <3>1, GoesTo
  <2> QED
    BY <1>0, <1>2, <1>4, <2>1 DEF OpenDestination
<1>5. ASSUME NEW p \in Importers, StageTables(p) PROVE ImpInv'
  BY <1>0, <1>3, <1>5 DEF StageTables, Stage
<1>6. ASSUME NEW p \in Importers, CopyBodies(p) PROVE ImpInv'
  <2>1. /\ imp' \in [Importers -> [at : Stage, rows : SUBSET ImportRows]]
        /\ imp'[p] = [at |-> "verified", rows |-> imp[p].rows]
        /\ \A q \in Importers : q # p => imp'[q] = imp[q]
    BY <1>1, <1>6, GoesTo DEF CopyBodies, Stage
  <2>2. newBlobs' = newBlobs \cup (imp[p].rows \cap Spilling)
        /\ UNCHANGED <<dest, deleted, history, oldBlobs>>
    BY <1>6 DEF CopyBodies
  <2>3. ASSUME NEW q \in Importers, ~dest.there, imp'[q].at = "verified"
        PROVE imp'[q].rows \cap Spilling \subseteq newBlobs'
    BY <1>0, <2>1, <2>2, <2>3
  <2> QED
    BY <1>0, <1>2, <2>1, <2>2, <2>3
<1>7. ASSUME NEW p \in Importers, Publish(p) PROVE ImpInv'
  <2>1. imp' \in [Importers -> [at : Stage, rows : SUBSET ImportRows]]
    BY <1>1, <1>7, GoesTo DEF Publish, Stage
  <2>2. /\ dest' = [there |-> TRUE, rows |-> imp[p].rows, sequence |-> Highest(imp[p].rows)]
        /\ UNCHANGED <<history, oldBlobs, newBlobs, deleted>>
        /\ imp[p].at = "verified" /\ ~dest.there
    BY <1>7 DEF Publish, Publishable
  <2>3. Highest(imp[p].rows) \in Nat /\ \A r \in imp[p].rows : r <= Highest(imp[p].rows)
    BY <1>1, HighestIs
  <2> QED
    BY <1>0, <1>1, <2>1, <2>2, <2>3 DEF ImpInv, ImportSafety, ImpTypeOK, PublishedIsWhole, Stage, DestRecord
<1>8. ASSUME NEW p \in Importers, RemoveStaging(p) PROVE ImpInv'
  BY <1>0, <1>3, <1>8 DEF RemoveStaging, Stage
<1>9. ASSUME NEW p \in Importers, ImportFails(p) PROVE ImpInv'
  <2>1. newBlobs \subseteq newBlobs' /\ newBlobs' \subseteq Spilling
        /\ Goes(p, "closed", {}) /\ UNCHANGED <<dest, deleted, history, oldBlobs>>
    BY <1>0, <1>9 DEF ImportFails
  <2>2. "closed" \in Stage /\ "closed" # "verified" /\ {} \in SUBSET ImportRows
    BY DEF Stage
  <2> QED
    BY <1>3, <2>1, <2>2
<1>10. ASSUME NEW p \in Importers, ImporterDies(p) PROVE ImpInv'
  BY <1>0, <1>3, <1>10 DEF ImporterDies, Stage
<1>11. ASSUME NEW p \in Importers, NEW r \in ImportRows, UserDeletes(p, r) PROVE ImpInv'
  <2>1. /\ dest' = [dest EXCEPT !.rows = @ \ {r}] /\ r \in dest.rows
        /\ newBlobs' = newBlobs \cap dest'.rows /\ deleted' = deleted \cup {r}
        /\ UNCHANGED <<imp, history, oldBlobs>>
    BY <1>11 DEF UserDeletes
  <2>2. dest.there
    BY <1>0, <2>1
  <2>3. dest'.there /\ dest'.rows = dest.rows \ {r} /\ dest'.sequence = dest.sequence
    BY <1>0, <2>1, <2>2 DEF DestRecord
  <2> QED
    BY <1>0, <2>1, <2>2, <2>3 DEF ImpInv, ImportSafety, ImpTypeOK, PublishedIsWhole, Stage, DestRecord
<1>12. ASSUME NEW r \in ImportRows, OldBuildWrites(r) PROVE ImpInv'
  BY <1>0, <1>2, <1>12 DEF OldBuildWrites
<1>13. CASE UNCHANGED impVars
  BY <1>0, <1>2, <1>13 DEF impVars
<1> QED
  BY <1>4, <1>5, <1>6, <1>7, <1>8, <1>9, <1>10, <1>11, <1>12, <1>13 DEF ImpNext

\* They hold of two histories at rest, one of them maybe without bodies.
LEMMA ImpStart == ImpInit \/ NoImport => ImpInv
<1> SUFFICES ASSUME ImpInit \/ NoImport PROVE ImpInv
  OBVIOUS
<1>1. /\ imp = [p \in Importers |-> AtRest]
      /\ newBlobs = {} /\ dest = Absent /\ deleted = {}
  BY DEF ImpInit, NoImport
<1>2. history \subseteq ImportRows /\ oldBlobs \subseteq Spilling
  BY DEF ImpInit, NoImport
<1>3. AtRest \in [at : Stage, rows : SUBSET ImportRows] /\ AtRest.at = "closed"
  BY DEF AtRest, Stage
<1>4. \A p \in Importers : imp[p] = AtRest
  BY <1>1
<1>5. imp \in [Importers -> [at : Stage, rows : SUBSET ImportRows]]
  BY <1>1, <1>3
<1>6. dest \in DestRecord /\ ~dest.there /\ dest.rows = {}
  BY <1>1 DEF Absent, DestRecord
<1> QED
  BY <1>1, <1>2, <1>3, <1>4, <1>5, <1>6
  DEF ImpInv, ImportSafety, ImpTypeOK, PublishedIsWhole, Stage

\* The published history is whole: every row has its body, the next sequence is
\* above every row's, no deleted row comes back, whoever else imports, opens or
\* dies (migrate_if_needed).
THEOREM ImportIsSafe == ImpSpec => []ImportSafety
<1>1. ImpInv => ImportSafety
  BY DEF ImpInv
<1> QED
  BY <1>1, ImpStart, ImpStep, PTL DEF ImpSpec

\* A published history is only edited, never replaced by a later import: the
\* hard link refuses an existing name (migrate_if_needed).
LEMMA PublishStep == [ImpNext]_impVars => [PublishedOnce]_impVars
<1> SUFFICES ASSUME ImpNext PROVE PublishedOnce \/ UNCHANGED impVars
  OBVIOUS
<1>1. ASSUME NEW p \in Importers, NEW r \in ImportRows, UserDeletes(p, r) PROVE PublishedOnce
  BY <1>1 DEF UserDeletes, PublishedOnce
<1> QED
  BY <1>1 DEF ImpNext, OpenDestination, StageTables, CopyBodies, Publish, Publishable, RemoveStaging,
              ImportFails, ImporterDies, OldBuildWrites, PublishedOnce

THEOREM PublicationIsFinal == ImpSpec => [][PublishedOnce]_impVars
BY PublishStep, PTL DEF ImpSpec

-----------------------------------------------------------------------------
(* Migrations: the rows through the migration of their file *)

DbState == [version : {0, OldSchema, NewSchema}, rows : SUBSET UpRows, sound : BOOLEAN]

\* The live file has the rows, but after a rollback cut short, when the backup
\* has; one that is not sound was damaged while it was migrated, and has a backup.
RowsAreSomewhere ==
    /\ severed = "no" /\ (upStep # "copying" \/ live.version = NewSchema) => owned \subseteq live.rows
    /\ severed = "backed" => upStep = "down" /\ live.version = OldSchema /\ Whole(backup)
    /\ ~live.sound => live.version = NewSchema /\ Whole(backup)

\* Without its -wal the file is an earlier one of the old schema, and while a
\* rollback is possible one of the new schema only if nothing is in the -wal.
BaseLags ==
    /\ base.version # 0 /\ (base.version = OldSchema => base.sound)
    /\ base.version = NewSchema => live.version = NewSchema /\ (guard # NoFile => base = live)
    /\ upStep = "copying" => base = live

\* The guard is the backup, as long as it may be put back.
GuardIsBackup ==
    upStep \in {"dry", "opening", "verify", "rollback", "copying"} /\ guard # NoFile =>
        guard = backup /\ guard.version = OldSchema /\ Whole(guard)

\* No migration that loses rows of the guard gets past its dry run.
DryRunWasPassed ==
    /\ upStep \in {"dry", "verify", "rollback", "copying"} => guard # NoFile
    /\ upStep \in {"down", "open"} => guard = NoFile
    /\ upStep \in {"dry", "opening"} /\ guard # NoFile => live.version = OldSchema
    /\ upStep = "dry" => dry = guard
    /\ upStep = "opening" =>
         IF guard = NoFile THEN live.version = NewSchema ELSE guard.rows \cap LostRows = {}

UpInv ==
    /\ live \in DbState /\ base \in DbState /\ backup \in DbState /\ dry \in DbState
    /\ guard \in DbState /\ manifest \in BOOLEAN /\ owned \subseteq UpRows /\ live.version # 0
    /\ UpgradeSafety
    /\ RowsAreSomewhere /\ BaseLags /\ GuardIsBackup /\ DryRunWasPassed

\* What a migration does to a file.
LEMMA MigratedIs ==
  ASSUME NEW db \in DbState
  PROVE /\ Migrated(db) \in DbState /\ Migrated(db).version = NewSchema
        /\ Migrated(db).sound = db.sound
        /\ Migrated(db).rows = IF db.version = NewSchema THEN db.rows ELSE db.rows \ LostRows
BY DEF Migrated, DbState, NewSchema, OldSchema

\* Counting the rows is enough to see that a migration has lost one.
LEMMA CountsTellLoss ==
  ASSUME NEW S \in SUBSET UpRows, Cardinality(S \ LostRows) = Cardinality(S)
  PROVE S \cap LostRows = {}
<1>1. IsFiniteSet(S)
  BY UpgradeAssumption, FS_Subset
<1>2. S \ LostRows \in SUBSET S
  OBVIOUS
<1>3. S \ LostRows = S
  <2>1. Cardinality(S) \in Nat
    BY <1>1, FS_CardinalityType
  <2> QED
    BY <1>1, <1>2, <2>1, FS_Subset
<1> QED
  BY <1>3

\* What the invariant says of the next state, when the types do not matter.
UpRest ==
    CopiesAreGone /\ RowsAreSomewhere /\ BaseLags /\ GuardIsBackup /\ DryRunWasPassed

UpTypes ==
    /\ live \in DbState /\ base \in DbState /\ backup \in DbState /\ dry \in DbState
    /\ guard \in DbState /\ manifest \in BOOLEAN /\ owned \subseteq UpRows /\ live.version # 0
    /\ severed \in {"no", "backed", "lost"}

UpSteps == upStep \in {"down", "dry", "opening", "verify", "rollback", "copying", "cleanup", "open"}

\* One file is whole: the live one, or the backup.
LEMMA UpInvFrom == UpTypes /\ UpRest /\ UpSteps => UpInv
<1> SUFFICES ASSUME UpTypes, UpRest, UpSteps PROVE UpInv
  OBVIOUS
<1>1. UpTypeOK
  BY DEF UpTypes, UpRest, UpSteps, UpTypeOK, GuardIsBackup, DryRunWasPassed
<1>2. RowsAreRecoverable
  <2>1. CASE severed = "backed" \/ ~live.sound
    BY <2>1 DEF UpRest, RowsAreSomewhere, RowsAreRecoverable
  <2>2. CASE severed = "lost" /\ live.sound
    BY <2>2 DEF RowsAreRecoverable, Whole
  <2>3. CASE severed = "no" /\ live.sound /\ upStep # "copying"
    BY <2>3 DEF UpRest, RowsAreSomewhere, RowsAreRecoverable, Whole
  <2>4. CASE upStep = "copying"
    BY <2>4 DEF UpRest, GuardIsBackup, DryRunWasPassed, RowsAreRecoverable
  <2> QED
    BY <2>1, <2>2, <2>3, <2>4 DEF UpTypes
<1> QED
  BY <1>1, <1>2 DEF UpTypes, UpRest, UpInv, UpgradeSafety

\* Outside of an attempt there is nothing to put back.
NoAttempt == upStep \in {"down", "cleanup", "open"} /\ (upStep # "cleanup" => guard = NoFile)

LEMMA UpAtRest ==
  UpTypes /\ CopiesAreGone /\ RowsAreSomewhere /\ BaseLags /\ NoAttempt => UpInv
<1> SUFFICES ASSUME UpTypes, CopiesAreGone, RowsAreSomewhere, BaseLags, NoAttempt PROVE UpInv
  OBVIOUS
<1>1. GuardIsBackup /\ DryRunWasPassed /\ UpSteps
  BY DEF GuardIsBackup, DryRunWasPassed, NoAttempt, UpSteps
<1> QED
  BY <1>1, UpInvFrom DEF UpRest

\* Every step of the upgrade, of the other process and of the user.
LEMMA UpStepKeeps == UpInv /\ [UpNext]_upVars => UpInv'
<1> SUFFICES ASSUME UpInv, [UpNext]_upVars PROVE UpInv'
  OBVIOUS
<1> USE UpgradeAssumption DEF OldSchema, NewSchema
<1>0. /\ UpTypes /\ UpTypeOK /\ UpRest /\ live.version \in {1, 2} /\ base.version \in {1, 2}
      /\ CopiesAreGone /\ RowsAreSomewhere /\ BaseLags /\ GuardIsBackup /\ DryRunWasPassed
  BY DEF UpInv, UpgradeSafety, UpTypeOK, UpTypes, UpRest, BaseLags, DbState
<1>1. NoFile \in DbState /\ NoFile.version = 0 /\ NoFile.sound = FALSE
  BY DEF NoFile, DbState
<1>2. ASSUME UpTypes', UpRest',
             upStep' \in {"down", "dry", "opening", "verify", "rollback", "copying", "cleanup", "open"}
      PROVE UpInv'
  <2>1. UpSteps'
    BY <1>2 DEF UpSteps
  <2> QED
    BY <1>2, <2>1, UpInvFrom, PTL
<1>3. ASSUME UpTypes', CopiesAreGone', RowsAreSomewhere', BaseLags',
             upStep' \in {"down", "cleanup", "open"}, upStep' # "cleanup" => guard' = NoFile
      PROVE UpInv'
  <2>1. NoAttempt'
    BY <1>3 DEF NoAttempt
  <2> QED
    BY <1>3, <2>1, UpAtRest, PTL
<1>4. ASSUME Stops, live' \in DbState, base' \in DbState, backup' \in DbState, manifest' \in BOOLEAN,
             owned' \subseteq UpRows, live'.version # 0, severed' \in {"no", "backed", "lost"},
             RowsAreSomewhere', BaseLags'
      PROVE UpInv'
  <2>1. upStep' = "down" /\ guard' = NoFile /\ guard' \in DbState /\ dry' \in DbState
    BY <1>0, <1>1, <1>4 DEF Stops, UpTypes
  <2>2. CopiesAreGone' /\ UpTypes'
    BY <1>4, <2>1 DEF CopiesAreGone, UpTypes
  <2> QED
    BY <1>3, <1>4, <2>1, <2>2
\* A file of the old schema is sound: nothing has been done to it.
<1>5. live.version = 1 => live.sound /\ base.version = 1 /\ base.sound
  BY <1>0 DEF RowsAreSomewhere, BaseLags
\* When its backup goes, the live file is all there is.
<1>6. ASSUME live.version = 1, upStep = "down", BackupGoes
      PROVE /\ severed' \in {"no", "lost"} /\ (severed' = "no" => owned \subseteq live.rows)
  BY <1>0, <1>6 DEF BackupGoes, RowsAreSomewhere, UpTypes
<1>7. CASE Prepare
  <2>1. /\ backup' = live /\ dry' = live /\ guard' = live /\ owned' = owned \cup live.rows
        /\ upStep' = "dry" /\ live' = live /\ base' = base /\ manifest' = manifest
        /\ live.version = 1 /\ live.sound /\ base.version = 1 /\ base.sound
        /\ severed' \in {"no", "lost"} /\ (severed' = "no" => owned \subseteq live.rows)
    BY <1>0, <1>5, <1>6, <1>7 DEF Prepare
  <2>2. UpTypes' /\ guard' # NoFile
    BY <1>0, <1>1, <2>1 DEF UpTypes, DbState
  <2>3. severed' = "no" => owned' = live.rows
    BY <2>1
  <2>4. Whole(live)'
    BY <2>1, <2>3 DEF Whole
  <2>5. CopiesAreGone' /\ RowsAreSomewhere' /\ BaseLags'
    BY <2>1, <2>3 DEF CopiesAreGone, RowsAreSomewhere, BaseLags
  <2>6. GuardIsBackup' /\ DryRunWasPassed'
    BY <2>1, <2>2, <2>4 DEF GuardIsBackup, DryRunWasPassed, Whole
  <2> QED
    BY <1>2, <2>1, <2>2, <2>5, <2>6 DEF UpRest
<1>8. CASE PrepareStops
  <2>1. /\ UNCHANGED <<upStep, live, base, manifest, guard, owned>>
        /\ upStep = "down" /\ live.version = 1 /\ live.sound /\ guard = NoFile
        /\ \/ UNCHANGED <<backup, dry, severed>>
           \/ /\ backup' \in {NoFile, Torn(live), live} /\ dry' \in {dry, NoFile, Torn(live), live}
              /\ BackupGoes
    BY <1>0, <1>5, <1>8 DEF PrepareStops, DryRunWasPassed
  <2>2. Torn(live) \in DbState
    BY <1>0 DEF Torn, UpTypes, DbState
  <2>3. CASE UNCHANGED <<backup, dry, severed>>
    <3>1. UpTypes' /\ CopiesAreGone' /\ RowsAreSomewhere' /\ BaseLags'
      BY <1>0, <2>1, <2>3 DEF UpTypes, CopiesAreGone, RowsAreSomewhere, BaseLags, Whole
    <3> QED
      BY <1>3, <2>1, <3>1
  <2>4. CASE /\ backup' \in {NoFile, Torn(live), live} /\ dry' \in {dry, NoFile, Torn(live), live}
             /\ BackupGoes
    <3>1. severed' \in {"no", "lost"} /\ (severed' = "no" => owned \subseteq live.rows)
      BY <1>6, <2>1, <2>4
    <3>2. UpTypes'
      BY <1>0, <1>1, <2>1, <2>2, <2>4, <3>1 DEF UpTypes
    <3>3. CopiesAreGone' /\ RowsAreSomewhere' /\ BaseLags'
      BY <1>0, <2>1, <3>1 DEF CopiesAreGone, RowsAreSomewhere, BaseLags
    <3> QED
      BY <1>3, <2>1, <3>2, <3>3
  <2> QED
    BY <2>1, <2>3, <2>4
<1>9. CASE PrepareNothing
  <2>1. /\ UNCHANGED <<live, base, backup, dry, manifest, guard, owned, severed>>
        /\ upStep = "down" /\ upStep' = "opening" /\ live.version = 2
    BY <1>9 DEF PrepareNothing
  <2>2. guard' = NoFile /\ severed # "backed" /\ UpTypes'
    BY <1>0, <2>1 DEF DryRunWasPassed, RowsAreSomewhere, UpTypes
  <2>3. CopiesAreGone' /\ RowsAreSomewhere' /\ BaseLags' /\ GuardIsBackup' /\ DryRunWasPassed'
    BY <1>0, <2>1, <2>2
    DEF CopiesAreGone, RowsAreSomewhere, BaseLags, GuardIsBackup, DryRunWasPassed, Whole
  <2> QED
    BY <1>2, <2>1, <2>2, <2>3 DEF UpRest
<1>10. CASE DryRun
  <2>1. /\ upStep = "dry" /\ dry' = NoFile /\ UNCHANGED <<live, base, backup, owned, severed>>
        /\ IF Verified(Migrated(dry)) THEN upStep' = "opening" /\ manifest' = TRUE /\ guard' = guard
           ELSE upStep' = "down" /\ guard' = NoFile /\ manifest' = manifest
    BY <1>10 DEF DryRun
  <2>2. CopiesAreGone' /\ RowsAreSomewhere' /\ UpTypes'
    BY <1>0, <1>1, <2>1 DEF CopiesAreGone, RowsAreSomewhere, UpTypes, Whole
  <2>3. BaseLags'
    BY <1>0, <2>1 DEF BaseLags
  <2>4. CASE ~Verified(Migrated(dry))
    BY <1>3, <2>1, <2>2, <2>3, <2>4
  <2>5. CASE Verified(Migrated(dry))
    <3>1. /\ dry = guard /\ guard # NoFile /\ guard.version = 1 /\ guard = backup
          /\ Whole(guard) /\ live.version = 1
      BY <1>0, <2>1 DEF DryRunWasPassed, GuardIsBackup
    <3>2. Cardinality(guard.rows \ LostRows) = Cardinality(guard.rows)
      <4>1. Migrated(guard).rows = guard.rows \ LostRows
        <5>1. Migrated(guard).rows = IF guard.version = 2 THEN guard.rows ELSE guard.rows \ LostRows
          BY <1>0, MigratedIs DEF UpTypes
        <5> QED
          BY <3>1, <5>1
      <4> QED
        BY <2>5, <3>1, <4>1 DEF Verified
    <3>3. guard.rows \cap LostRows = {}
      <4>1. guard.rows \in SUBSET UpRows
        BY <1>0 DEF DbState, UpTypes
      <4> QED
        BY <3>2, <4>1, CountsTellLoss
    <3>4. GuardIsBackup' /\ DryRunWasPassed'
      BY <2>1, <2>5, <3>1, <3>3 DEF GuardIsBackup, DryRunWasPassed, Whole
    <3> QED
      BY <1>2, <2>1, <2>2, <2>3, <2>5, <3>4 DEF UpRest
  <2> QED
    BY <2>4, <2>5
<1>11. CASE OpenLive
  <2>1. PICK sound \in BOOLEAN :
          /\ sound \/ live.version = 1
          /\ live' = [Migrated(live) EXCEPT !.sound = @ /\ sound]
    BY <1>11 DEF OpenLive
  <2>2. /\ upStep = "opening" /\ UNCHANGED <<base, backup, dry, manifest, guard, owned, severed>>
        /\ upStep' \in IF guard = NoFile THEN {"cleanup", "down"} ELSE {"verify", "rollback"}
    BY <1>11 DEF OpenLive
  <2> DEFINE whole == live.sound /\ sound
  <2>3. Migrated(live) \in DbState /\ Migrated(live).version = 2 /\ Migrated(live).sound = live.sound
        /\ Migrated(live).rows = IF live.version = 2 THEN live.rows ELSE live.rows \ LostRows
    BY <1>0, MigratedIs DEF UpTypes
  <2>4. live' = [Migrated(live) EXCEPT !.sound = whole] /\ whole \in BOOLEAN
    BY <2>1, <2>3
  <2>5. ~whole => ~live.sound \/ live.version = 1
    BY <2>1
  <2> HIDE DEF whole
  <2>6. live' \in DbState /\ live'.version = 2 /\ live'.sound = whole
        /\ live'.rows = Migrated(live).rows
    BY <2>3, <2>4 DEF DbState
  <2>7. live.version = 1 =>
          guard # NoFile /\ guard.rows \cap LostRows = {} /\ guard = backup /\ Whole(guard)
    BY <1>0, <2>2 DEF DryRunWasPassed, GuardIsBackup
  <2>8. severed # "backed" /\ UpTypes'
    BY <1>0, <2>2, <2>6 DEF RowsAreSomewhere, UpTypes
  <2>9. severed = "no" => owned \subseteq live.rows \ (IF live.version = 1 THEN LostRows ELSE {})
    <3>1. severed = "no" => owned \subseteq live.rows
      BY <1>0, <2>2 DEF RowsAreSomewhere
    <3>2. severed = "no" /\ live.version = 1 => owned \cap LostRows = {}
      BY <2>7 DEF Whole
    <3> QED
      BY <1>0, <3>1, <3>2
  <2>10. RowsAreSomewhere'
    <3>1. severed' = "no" => owned' \subseteq live'.rows
      BY <1>0, <2>2, <2>3, <2>6, <2>9
    <3>2. ~live'.sound => Whole(backup)'
      <4>1. ~live'.sound => Whole(backup)
        BY <1>0, <2>5, <2>6, <2>7 DEF RowsAreSomewhere
      <4> QED
        BY <2>2, <4>1 DEF Whole
    <3> QED
      BY <2>2, <2>6, <2>8, <3>1, <3>2 DEF RowsAreSomewhere
  <2>11. CopiesAreGone' /\ GuardIsBackup' /\ DryRunWasPassed'
    BY <1>0, <2>2 DEF CopiesAreGone, GuardIsBackup, DryRunWasPassed, Whole
  <2>12. guard # NoFile => base.version = 1
    BY <1>0, <2>2 DEF BaseLags, DryRunWasPassed
  <2>13. BaseLags'
    BY <1>0, <2>2, <2>6, <2>12 DEF BaseLags
  <2>14. upStep' \in {"down", "verify", "rollback", "cleanup"}
    BY <2>2
  <2> QED
    BY <1>2, <2>8, <2>10, <2>11, <2>13, <2>14 DEF UpRest
<1>12. CASE OpenLiveFails
  <2>1. /\ upStep = "opening" /\ UNCHANGED <<live, base, backup, dry, manifest, guard, owned, severed>>
        /\ upStep' = IF guard = NoFile THEN "down" ELSE "rollback"
    BY <1>12 DEF OpenLiveFails
  <2>2. UpTypes' /\ severed # "backed"
    BY <1>0, <2>1 DEF UpTypes, RowsAreSomewhere
  <2>3. CopiesAreGone' /\ RowsAreSomewhere' /\ BaseLags' /\ GuardIsBackup' /\ DryRunWasPassed'
    BY <1>0, <2>1, <2>2
    DEF CopiesAreGone, RowsAreSomewhere, BaseLags, GuardIsBackup, DryRunWasPassed, Whole
  <2> QED
    BY <1>2, <2>1, <2>2, <2>3 DEF UpRest
<1>13. CASE VerifyLive
  <2>1. /\ upStep = "verify" /\ UNCHANGED <<live, base, dry, guard, owned, severed>>
        /\ IF Accepts(live)
           THEN backup' = NoFile /\ manifest' = FALSE /\ upStep' = "cleanup"
           ELSE upStep' = "rollback" /\ backup' = backup /\ manifest' = manifest
    BY <1>13 DEF VerifyLive
  <2>2. UpTypes' /\ CopiesAreGone' /\ BaseLags' /\ severed # "backed"
    BY <1>0, <1>1, <2>1 DEF UpTypes, CopiesAreGone, BaseLags, RowsAreSomewhere
  <2>3. CASE Accepts(live)
    <3>1. live.sound
      BY <2>3 DEF Accepts, Verified
    <3>2. RowsAreSomewhere'
      BY <1>0, <2>1, <2>2, <2>3, <3>1 DEF RowsAreSomewhere
    <3> QED
      BY <1>3, <2>1, <2>2, <2>3, <3>2
  <2>4. CASE ~Accepts(live)
    <3>1. RowsAreSomewhere' /\ GuardIsBackup' /\ DryRunWasPassed'
      BY <1>0, <2>1, <2>2, <2>4 DEF RowsAreSomewhere, GuardIsBackup, DryRunWasPassed, Whole
    <3> QED
      BY <1>2, <2>1, <2>2, <2>4, <3>1 DEF UpRest
  <2> QED
    BY <2>3, <2>4
<1>14. CASE Rollback
  <2>1. /\ upStep = "rollback" /\ UNCHANGED <<base, backup, manifest, owned, severed>>
        /\ guard # NoFile /\ guard = backup /\ guard.version = 1 /\ Whole(guard)
    BY <1>0, <1>14 DEF Rollback, GuardIsBackup, DryRunWasPassed
  <2>2. upStep' = "copying" /\ live' = base /\ UNCHANGED <<dry, guard>>
    BY <1>14, <2>1 DEF Rollback
  <2>3. severed # "backed" /\ UpTypes'
    BY <1>0, <2>1, <2>2 DEF RowsAreSomewhere, UpTypes
  <2>4. base.version = 2 => base = live
    BY <1>0, <2>1 DEF BaseLags
  <2>5. Whole(backup)'
    BY <2>1 DEF Whole
  <2>6. ~base.sound => base.version = 2
    BY <1>0 DEF BaseLags
  <2>7. severed = "no" /\ base.version = 2 => owned \subseteq base.rows
    BY <1>0, <2>1, <2>4 DEF RowsAreSomewhere
  <2>8. RowsAreSomewhere'
    BY <2>1, <2>2, <2>3, <2>5, <2>6, <2>7 DEF RowsAreSomewhere
  <2>9. BaseLags' /\ CopiesAreGone'
    BY <1>0, <2>1, <2>2, <2>6 DEF BaseLags, CopiesAreGone
  <2>10. GuardIsBackup' /\ DryRunWasPassed'
    BY <1>0, <2>1, <2>2 DEF GuardIsBackup, DryRunWasPassed, Whole
  <2> QED
    BY <1>2, <2>2, <2>3, <2>8, <2>9, <2>10 DEF UpRest
<1>15. CASE RollbackCopies
  <2>1. /\ upStep = "copying" /\ UNCHANGED <<backup, manifest, owned, severed>> /\ Stops
        /\ live' = backup /\ base' = backup
    BY <1>15 DEF RollbackCopies
  <2>2. backup.version = 1 /\ Whole(backup) /\ severed # "backed" /\ upStep' = "down"
    BY <1>0, <2>1 DEF GuardIsBackup, DryRunWasPassed, RowsAreSomewhere, Stops
  <2>3. RowsAreSomewhere' /\ BaseLags'
    BY <2>1, <2>2 DEF RowsAreSomewhere, BaseLags, Whole
  <2> QED
    BY <1>0, <1>4, <2>1, <2>2, <2>3 DEF UpTypes
<1>16. CASE Cleanup
  <2>1. upStep = "cleanup" /\ UNCHANGED <<live, base, owned, severed>> /\ severed # "backed"
    BY <1>0, <1>16 DEF Cleanup, RowsAreSomewhere
  <2>2. CASE backup = NoFile /\ dry = NoFile /\ ~manifest
    <3>1. upStep' = "open" /\ guard' = NoFile /\ UNCHANGED <<backup, dry, manifest>>
      BY <1>16, <2>2 DEF Cleanup
    <3>2. UpTypes' /\ CopiesAreGone'
      BY <1>0, <1>1, <2>1, <2>2, <3>1 DEF UpTypes, CopiesAreGone
    <3>3. RowsAreSomewhere' /\ BaseLags'
      BY <1>0, <2>1, <3>1 DEF RowsAreSomewhere, BaseLags, Whole
    <3> QED
      BY <1>3, <3>1, <3>2, <3>3
  <2>3. CASE ~(backup = NoFile /\ dry = NoFile /\ ~manifest) /\ live.version = 2 /\ live.sound
    <3>1. /\ upStep' = "open" /\ guard' = NoFile
          /\ backup' = NoFile /\ dry' = NoFile /\ manifest' = FALSE
      BY <1>16, <2>3 DEF Cleanup
    <3>2. UpTypes' /\ CopiesAreGone'
      BY <1>0, <1>1, <2>1, <3>1 DEF UpTypes, CopiesAreGone
    <3>3. RowsAreSomewhere' /\ BaseLags'
      BY <1>0, <2>1, <2>3, <3>1 DEF RowsAreSomewhere, BaseLags
    <3> QED
      BY <1>3, <3>1, <3>2, <3>3
  <2>4. CASE ~(backup = NoFile /\ dry = NoFile /\ ~manifest) /\ ~(live.version = 2 /\ live.sound)
    <3>1. Stops /\ UNCHANGED <<backup, manifest>>
      BY <1>16, <2>4 DEF Cleanup
    <3>2. RowsAreSomewhere' /\ BaseLags'
      BY <1>0, <2>1, <3>1 DEF RowsAreSomewhere, BaseLags, Whole, Stops
    <3> QED
      BY <1>0, <1>4, <2>1, <3>1, <3>2 DEF UpTypes
  <2> QED
    BY <2>2, <2>3, <2>4
<1>17. CASE UpgradeEnds
  <2>1. /\ Stops /\ UNCHANGED <<live, base, manifest, owned>> /\ upStep # "down"
        /\ backup' = backup \/ (backup' = NoFile /\ upStep = "verify" /\ Accepts(live))
        /\ severed' = IF upStep = "copying" /\ severed = "no" /\ ~(owned \subseteq live.rows)
                      THEN "backed" ELSE severed
    BY <1>17 DEF UpgradeEnds
  <2>2. severed # "backed" /\ backup' \in DbState /\ upStep' = "down" /\ guard' = NoFile
    BY <1>0, <1>1, <2>1 DEF RowsAreSomewhere, UpTypes, Stops
  <2>3. BaseLags'
    BY <1>0, <2>1, <2>2 DEF BaseLags
  <2>4. CASE severed' = "backed"
    <3>1. upStep = "copying" /\ severed = "no" /\ ~(owned \subseteq live.rows) /\ backup' = backup
      BY <2>1, <2>2, <2>4
    <3>2. live.version = 1 /\ Whole(backup)
      BY <1>0, <3>1 DEF RowsAreSomewhere, GuardIsBackup, DryRunWasPassed
    <3>3. owned \subseteq backup.rows /\ backup.sound
      BY <3>1, <3>2 DEF Whole
    <3>4. RowsAreSomewhere'
      BY <1>5, <2>1, <2>2, <2>4, <3>1, <3>2, <3>3 DEF RowsAreSomewhere, Whole
    <3> QED
      BY <1>0, <1>4, <2>1, <2>2, <2>3, <2>4, <3>4 DEF UpTypes
  <2>5. CASE severed' = severed
    <3>1. severed = "no" => owned \subseteq live.rows
      BY <1>0, <2>1, <2>2, <2>5 DEF RowsAreSomewhere
    <3>2. ~live.sound => backup' = backup
      BY <2>1 DEF Accepts, Verified
    <3>3. RowsAreSomewhere'
      BY <1>0, <2>1, <2>2, <2>5, <3>1, <3>2 DEF RowsAreSomewhere, Whole
    <3> QED
      BY <1>0, <1>4, <2>1, <2>2, <2>3, <2>5, <3>3 DEF UpTypes
  <2> QED
    BY <2>1, <2>4, <2>5
<1>18. CASE Checkpoint
  <2>1. base' = live /\ UNCHANGED <<upStep, live, backup, dry, manifest, guard, owned, severed>>
    BY <1>18 DEF Checkpoint
  <2>2. UpTypes' /\ CopiesAreGone' /\ RowsAreSomewhere' /\ GuardIsBackup' /\ DryRunWasPassed'
    BY <1>0, <2>1
    DEF UpTypes, CopiesAreGone, RowsAreSomewhere, GuardIsBackup, DryRunWasPassed, Whole
  <2>3. BaseLags'
    BY <1>0, <1>5, <2>1 DEF BaseLags
  <2>4. upStep' \in {"down", "dry", "opening", "verify", "rollback", "copying", "cleanup", "open"}
    BY <1>0, <2>1 DEF UpTypeOK
  <2> QED
    BY <1>2, <2>2, <2>3, <2>4 DEF UpRest
<1>19. CASE UseAndClose
  <2>1. PICK rows \in SUBSET UpRows : live' = [live EXCEPT !.rows = rows] /\ owned' = rows
    BY <1>19 DEF UseAndClose
  <2>2. upStep = "open" /\ upStep' = "down" /\ UNCHANGED <<base, backup, dry, manifest, guard, severed>>
    BY <1>19 DEF UseAndClose
  <2>3. live.sound /\ guard = NoFile /\ severed # "backed"
    BY <1>0, <1>1, <2>2 DEF RowsAreSomewhere, CopiesAreGone, DryRunWasPassed, Whole
  <2>4. live' \in DbState /\ live'.version = live.version /\ live'.sound = live.sound /\ live'.rows = rows
    BY <1>0, <2>1 DEF DbState, UpTypes
  <2>5. UpTypes' /\ CopiesAreGone'
    BY <1>0, <2>1, <2>2, <2>4 DEF UpTypes, CopiesAreGone
  <2>6. RowsAreSomewhere' /\ BaseLags'
    BY <1>0, <2>1, <2>2, <2>3, <2>4 DEF RowsAreSomewhere, BaseLags
  <2> QED
    BY <1>3, <2>2, <2>3, <2>5, <2>6
<1>20. CASE OtherWrites
  <2>1. /\ upStep \in {"down", "dry", "opening", "rollback"} /\ live.version = 1
        /\ UNCHANGED <<upStep, base, backup, dry, manifest, guard, severed>>
    BY <1>20 DEF OtherWrites
  <2>2. PICK r \in UpRows :
          \/ live' = [live EXCEPT !.rows = @ \cup {r}] /\ owned' = owned
          \/ live' = [live EXCEPT !.rows = @ \ {r}] /\ owned' = owned \ {r}
    BY <1>20 DEF OtherWrites
  <2>3. /\ live' \in DbState /\ live'.version = 1 /\ live'.sound = live.sound
        /\ owned' \subseteq owned
        /\ live'.rows = live.rows \cup {r} \/ (live'.rows = live.rows \ {r} /\ owned' = owned \ {r})
    BY <1>0, <2>1, <2>2 DEF DbState, UpTypes
  <2>4. \A db \in DbState : Whole(db) => db.sound /\ (severed' # "lost" => owned' \subseteq db.rows)
    BY <2>1, <2>3 DEF Whole
  <2>5. Whole(backup) => Whole(backup)'
    BY <1>0, <2>1, <2>4 DEF Whole, UpTypes
  <2>6. Whole(guard) => Whole(guard)'
    BY <1>0, <2>1, <2>4 DEF Whole, UpTypes
  <2>7. UpTypes' /\ CopiesAreGone' /\ BaseLags'
    BY <1>0, <1>5, <2>1, <2>3 DEF UpTypes, CopiesAreGone, BaseLags
  <2>8. RowsAreSomewhere'
    BY <1>0, <1>5, <2>1, <2>3, <2>5 DEF RowsAreSomewhere
  <2>9. GuardIsBackup' /\ DryRunWasPassed'
    BY <1>0, <2>1, <2>3, <2>6 DEF GuardIsBackup, DryRunWasPassed
  <2> QED
    BY <1>2, <2>1, <2>7, <2>8, <2>9 DEF UpRest
<1>21. CASE UNCHANGED upVars
  <2>1. UpTypes' /\ UpTypeOK' /\ UpRest'
    BY <1>0, <1>21 DEF upVars, UpTypes, UpTypeOK, UpRest, CopiesAreGone, RowsAreSomewhere, BaseLags,
                       GuardIsBackup, DryRunWasPassed, Whole
  <2> QED
    BY <1>2, <2>1 DEF UpTypeOK
<1> QED
  BY <1>7, <1>8, <1>9, <1>10, <1>11, <1>12, <1>13, <1>14, <1>15, <1>16, <1>17, <1>18, <1>19, <1>20, <1>21
  DEF UpNext

\* A history of the old schema, sound and at rest.
LEMMA UpStart == UpInit => UpInv
<1> SUFFICES ASSUME UpInit PROVE UpInv
  OBVIOUS
<1>1. PICK rows \in SUBSET UpRows, filed \in SUBSET UpRows :
        /\ live = [version |-> 1, rows |-> rows, sound |-> TRUE] /\ owned = rows
        /\ base = [live EXCEPT !.rows = filed]
  BY DEF UpInit, OldSchema
<1>2. /\ upStep = "down" /\ backup = NoFile /\ dry = NoFile /\ manifest = FALSE /\ guard = NoFile
      /\ severed = "no"
  BY DEF UpInit
<1>3. /\ NoFile \in DbState /\ live \in DbState /\ live.sound /\ owned = live.rows /\ live.version = 1
      /\ base \in DbState /\ base.version = 1 /\ base.sound
  BY <1>1 DEF NoFile, DbState, OldSchema, NewSchema
<1>4. UpTypes /\ CopiesAreGone /\ RowsAreSomewhere /\ BaseLags
  <2>1. UpTypes
    <3>1. live \in DbState /\ base \in DbState /\ live.version # 0 /\ owned \subseteq UpRows
      BY <1>1, <1>3
    <3>2. backup \in DbState /\ dry \in DbState /\ guard \in DbState
      BY <1>2, <1>3
    <3>3. manifest \in BOOLEAN /\ severed \in {"no", "backed", "lost"}
      BY <1>2
    <3> QED
      BY <3>1, <3>2, <3>3 DEF UpTypes
  <2>2. CopiesAreGone
    BY <1>2 DEF CopiesAreGone
  <2>3. RowsAreSomewhere
    BY <1>2, <1>3 DEF RowsAreSomewhere
  <2>4. BaseLags
    BY <1>2, <1>3 DEF BaseLags, OldSchema, NewSchema
  <2> QED
    BY <2>1, <2>2, <2>3, <2>4
<1>5. NoAttempt
  BY <1>2 DEF NoAttempt
<1> QED
  BY <1>4, <1>5, UpAtRest

\* Wherever the upgrade stops and whoever else writes the old file, one file is
\* sound and no row is lost, but for those of a rollback cut short; and an open
\* store has no plaintext copy beside it (MigrationGuard, Store::open_profiled).
THEOREM UpgradeIsSafe == UpSpec => []UpgradeSafety
<1>1. UpInv => UpgradeSafety
  BY DEF UpInv
<1> QED
  BY <1>1, UpStart, UpStepKeeps, PTL DEF UpSpec

-----------------------------------------------------------------------------
(* SqliteStore: what the triggers and the statements keep true *)

SqlRow == [seq : 1 .. MaxSeq, sensitive : BOOLEAN, pinned : BOOLEAN, held : BOOLEAN, spilled : Nat]

SpilledIn(rows, S) == UNION {{c} \X (1 .. rows[c].spilled) : c \in S}

\* What the triggers and the foreign keys keep: the rows and what hangs on them.
RowsAgree ==
    /\ sqlRows \in [Here -> SqlRow] /\ Here \subseteq SqlClips
    /\ \A c, d \in Here : c # d => sqlRows[c].seq # sqlRows[d].seq
    /\ DOMAIN prose = {sqlRows[c].seq : c \in Here}
    /\ DOMAIN mirror = {sqlRows[c].seq : c \in Here \cap CodeClips}
    /\ \A c \in Here : prose[sqlRows[c].seq] = TextOf(c, sqlRows[c])
    /\ annotated = Here
    /\ blobCount = Cardinality(SpilledOf(Here))

\* What the statements around them keep.
StatementsAgree ==
    /\ lastSeq \in 0 .. MaxSeq
    /\ tagged \cup protected \cup faceted \cup vectors \subseteq Here
    /\ \A c \in faceted \cup vectors : ~sqlRows[c].sensitive
    /\ Here \subseteq filter
    /\ ResidueIsMarked

\* The two together are the safety of the store, in rows of the right shape.
SqlInv == RowsAgree /\ StatementsAgree

LEMMA SqlInvIsSafety == SqlInv => SqliteSafety
<1> SUFFICES ASSUME SqlInv PROVE SqliteSafety
  OBVIOUS
<1>1. \A c \in Here : sqlRows[c].seq \in 1 .. MaxSeq
  BY DEF SqlInv, RowsAgree, SqlRow
<1> QED
  BY <1>1 DEF SqlInv, RowsAgree, StatementsAgree, SqliteSafety, SqlTypeOK, SideTablesAgree

\* The flavors of a set of rows are finitely many ...
LEMMA SpilledInFinite ==
  ASSUME NEW S \in SUBSET SqlClips, NEW rows, \A c \in S : rows[c].spilled \in Nat
  PROVE IsFiniteSet(SpilledIn(rows, S)) /\ Cardinality(SpilledIn(rows, S)) \in Nat
<1> DEFINE f == [c \in S |-> {c} \X (1 .. rows[c].spilled)]
           T == {{c} \X (1 .. rows[c].spilled) : c \in S}
<1>1. IsFiniteSet(S)
  BY SqlAssumption, FS_Subset
<1>2. f \in Surjection(S, T)
  BY DEF Surjection
<1>3. IsFiniteSet(T)
  <2> HIDE DEF f, T
  <2> QED
    BY <1>1, <1>2, FS_Surjection
<1>4. \A t \in T : IsFiniteSet(t)
  <2> SUFFICES ASSUME NEW c \in S PROVE IsFiniteSet({c} \X (1 .. rows[c].spilled))
    OBVIOUS
  <2>1. IsFiniteSet({c})
    BY FS_Singleton
  <2>2. IsFiniteSet(1 .. rows[c].spilled)
    BY FS_Interval
  <2> QED
    BY <2>1, <2>2, FS_Product
<1>5. SpilledIn(rows, S) = UNION T
  BY DEF SpilledIn
<1> HIDE DEF f, T
<1>6. IsFiniteSet(SpilledIn(rows, S))
  BY <1>3, <1>4, <1>5, FS_UNION
<1> QED
  BY <1>6, FS_CardinalityType

\* ... and those of separate rows add up.
LEMMA SpilledInSplit ==
  ASSUME NEW S \in SUBSET SqlClips, NEW T \in SUBSET SqlClips, S \cap T = {}, NEW rows,
         \A c \in S \cup T : rows[c].spilled \in Nat
  PROVE Cardinality(SpilledIn(rows, S \cup T))
          = Cardinality(SpilledIn(rows, S)) + Cardinality(SpilledIn(rows, T))
<1>1. SpilledIn(rows, S \cup T) = SpilledIn(rows, S) \cup SpilledIn(rows, T)
  BY DEF SpilledIn
<1>2. SpilledIn(rows, S) \cap SpilledIn(rows, T) = {}
  <2> SUFFICES ASSUME NEW r \in SpilledIn(rows, S), r \in SpilledIn(rows, T) PROVE FALSE
    OBVIOUS
  <2>1. PICK c \in S : r \in {c} \X (1 .. rows[c].spilled)
    BY DEF SpilledIn
  <2>2. PICK d \in T : r \in {d} \X (1 .. rows[d].spilled)
    BY DEF SpilledIn
  <2> QED
    BY <2>1, <2>2
<1>3. Cardinality(SpilledIn(rows, S) \cap SpilledIn(rows, T)) = 0
  BY <1>2, FS_EmptySet
<1>4. IsFiniteSet(SpilledIn(rows, S)) /\ Cardinality(SpilledIn(rows, S)) \in Nat
  BY SpilledInFinite
<1>5. IsFiniteSet(SpilledIn(rows, T)) /\ Cardinality(SpilledIn(rows, T)) \in Nat
  BY SpilledInFinite
<1>6. Cardinality(SpilledIn(rows, S) \cup SpilledIn(rows, T))
        = Cardinality(SpilledIn(rows, S)) + Cardinality(SpilledIn(rows, T))
            - Cardinality(SpilledIn(rows, S) \cap SpilledIn(rows, T))
  BY <1>4, <1>5, FS_Union
<1>7. \A a, b \in Nat : a + b - 0 = a + b
  OBVIOUS
<1> HIDE DEF SpilledIn
<1> QED
  BY <1>1, <1>3, <1>4, <1>5, <1>6, <1>7

LEMMA SpilledInOne ==
  ASSUME NEW c \in SqlClips, NEW rows, rows[c].spilled \in Nat
  PROVE Cardinality(SpilledIn(rows, {c})) = rows[c].spilled
<1> DEFINE n == rows[c].spilled
<1>1. SpilledIn(rows, {c}) = {c} \X (1 .. n)
  BY DEF SpilledIn
<1>2. IsFiniteSet({c}) /\ Cardinality({c}) = 1
  BY FS_Singleton
<1>3. IsFiniteSet(1 .. n) /\ Cardinality(1 .. n) = n
  <2>1. n \in Nat
    OBVIOUS
  <2> HIDE DEF n
  <2>2. 1 \in Int /\ n \in Int
    BY <2>1
  <2>3. IsFiniteSet(1 .. n) /\ Cardinality(1 .. n) = IF 1 > n THEN 0 ELSE n - 1 + 1
    BY ONLY <2>2, FS_Interval
  <2> QED
    BY ONLY <2>1, <2>3
<1>5. Cardinality({c} \X (1 .. n)) = Cardinality({c}) * Cardinality(1 .. n)
  BY <1>2, <1>3, FS_Product
<1>6. 1 * n = n
  OBVIOUS
<1> QED
  BY <1>1, <1>2, <1>3, <1>5, <1>6

\* The highest number in use is above every row's.
LEMMA TopSeqIs ==
  ASSUME RowsAgree
  PROVE TopSeq \in 0 .. MaxSeq /\ \A c \in Here : sqlRows[c].seq <= TopSeq
<1> DEFINE seqs == {sqlRows[c].seq : c \in Here}
           all == seqs \cup {0}
           f == [c \in Here |-> sqlRows[c].seq]
<1>1. IsFiniteSet(Here)
  BY SqlAssumption, FS_Subset DEF RowsAgree
<1>2. f \in Surjection(Here, seqs)
  BY DEF Surjection
<1>3. seqs \subseteq 1 .. MaxSeq
  BY DEF RowsAgree, SqlRow
<1> HIDE DEF seqs, f
<1>4. IsFiniteSet(seqs)
  BY <1>1, <1>2, FS_Surjection
<1>5. IsFiniteSet(all)
  BY <1>4, FS_AddElement
<1>6. all \in SUBSET Nat /\ all # {} /\ all \subseteq 0 .. MaxSeq
  BY <1>3, SqlAssumption
<1>7. Max(all) \in all /\ \A n \in all : Max(all) >= n
  <2> HIDE DEF all
  <2> QED
    BY <1>5, <1>6, MaxExists
<1>8. TopSeq = Max(all)
  BY DEF TopSeq, seqs
<1>9. \A c \in Here : sqlRows[c].seq \in all /\ sqlRows[c].seq \in Nat
  BY <1>6 DEF seqs
<1> HIDE DEF all
<1> QED
  BY <1>6, <1>7, <1>8, <1>9

LEMMA NextSeqIs ==
  ASSUME RowsAgree, lastSeq \in 0 .. MaxSeq
  PROVE NextSeq \in Nat /\ NextSeq > TopSeq /\ NextSeq >= 1
<1>1. TopSeq \in Nat /\ lastSeq \in Nat
  BY TopSeqIs, SqlAssumption
<1> DEFINE both == {TopSeq, lastSeq}
<1>2. IsFiniteSet(both) /\ both \in SUBSET Nat /\ both # {}
  <2>1. IsFiniteSet({lastSeq})
    BY FS_Singleton
  <2>2. IsFiniteSet({lastSeq} \cup {TopSeq})
    BY <2>1, FS_AddElement
  <2>3. both = {lastSeq} \cup {TopSeq}
    OBVIOUS
  <2> QED
    BY <1>1, <2>2, <2>3
<1>3. TopSeq \in both /\ NextSeq = Max(both) + 1
  BY DEF NextSeq
<1> HIDE DEF both
<1>4. Max(both) \in both /\ \A n \in both : Max(both) >= n
  BY <1>2, MaxExists
<1>5. Max(both) \in Nat /\ Max(both) >= TopSeq
  BY <1>2, <1>3, <1>4
<1> HIDE DEF TopSeq
<1> QED
  BY <1>1, <1>3, <1>5

\* The blob is counted as before when no row changes what it refers to.
LEMMA CountStays ==
  ASSUME RowsAgree, Here' = Here, blobCount' = blobCount,
         \A c \in Here : sqlRows'[c].spilled = sqlRows[c].spilled
  PROVE blobCount' = Cardinality(SpilledOf(Here))'
<1>1. SpilledOf(Here)' = SpilledOf(Here)
  BY DEF SpilledOf
<1> QED
  BY <1>1 DEF RowsAgree

\* An update moves the entries of its row, whatever its new number.
LEMMA Updating ==
  ASSUME RowsAgree, NEW c \in Here, NEW row \in SqlRow, UpdateRow(c, row),
         row.spilled = sqlRows[c].spilled,
         \A d \in Here \ {c} : sqlRows[d].seq # row.seq
  PROVE RowsAgree' /\ Here' = Here /\ \A d \in Here : sqlRows'[d] = IF d = c THEN row ELSE sqlRows[d]
<1> DEFINE old == sqlRows[c].seq
           n == row.seq
<1>1. /\ sqlRows' = [sqlRows EXCEPT ![c] = row]
      /\ prose' = Reindexed(prose, old, row, TextOf(c, row))
      /\ mirror' = IF c \in CodeClips THEN Reindexed(mirror, old, row, TextOf(c, row)) ELSE mirror
      /\ UNCHANGED <<annotated, blobCount>>
  BY DEF UpdateRow
<1>2. Here' = Here /\ (\A d \in Here : sqlRows'[d] = IF d = c THEN row ELSE sqlRows[d])
      /\ sqlRows' \in [Here' -> SqlRow]
  BY <1>1 DEF RowsAgree, Here
<1>3. \A d \in Here \ {c} : sqlRows[d].seq # old /\ sqlRows[d].seq # n
  BY DEF RowsAgree
<1>4. \A d, e \in Here' : d # e => sqlRows'[d].seq # sqlRows'[e].seq
  BY <1>2, <1>3 DEF RowsAgree
<1>5. DOMAIN prose' = (DOMAIN prose \ {old}) \cup {n} /\ prose'[n] = TextOf(c, row)
      /\ \A k \in DOMAIN prose \ {old, n} : prose'[k] = prose[k]
  BY <1>1 DEF Reindexed, WithEntry, WithoutEntry
<1> HIDE DEF old, n
<1>6. DOMAIN prose' = {sqlRows'[d].seq : d \in Here'}
  <2>1. {sqlRows'[d].seq : d \in Here'} = {sqlRows[d].seq : d \in Here \ {c}} \cup {n}
    BY <1>2 DEF n
  <2>2. {sqlRows[d].seq : d \in Here} \ {old} = {sqlRows[d].seq : d \in Here \ {c}}
    BY <1>3 DEF old
  <2> QED
    BY <1>5, <2>1, <2>2 DEF RowsAgree
<1>7. ASSUME NEW d \in Here' PROVE prose'[sqlRows'[d].seq] = TextOf(d, sqlRows'[d])
  <2>1. CASE d = c
    BY <1>2, <1>5, <2>1 DEF n
  <2>2. CASE d # c
    <3>1. sqlRows'[d] = sqlRows[d] /\ sqlRows[d].seq \in DOMAIN prose \ {old, n}
      BY <1>2, <1>3, <2>2 DEF RowsAgree
    <3>2. prose'[sqlRows[d].seq] = prose[sqlRows[d].seq]
      BY <1>5, <3>1
    <3> QED
      BY <1>2, <3>1, <3>2 DEF RowsAgree
  <2> QED
    BY <2>1, <2>2
<1>8. DOMAIN mirror' = {sqlRows'[d].seq : d \in Here' \cap CodeClips}
  <2>1. CASE c \in CodeClips
    <3>1. DOMAIN mirror' = (DOMAIN mirror \ {old}) \cup {n}
      BY <1>1, <2>1 DEF old, n, Reindexed, WithEntry, WithoutEntry
    <3>2. {sqlRows'[d].seq : d \in Here' \cap CodeClips}
            = {sqlRows[d].seq : d \in (Here \cap CodeClips) \ {c}} \cup {n}
      BY <1>2, <2>1 DEF n
    <3>3. {sqlRows[d].seq : d \in Here \cap CodeClips} \ {old}
            = {sqlRows[d].seq : d \in (Here \cap CodeClips) \ {c}}
      BY <1>3, <2>1 DEF old
    <3> QED
      BY <3>1, <3>2, <3>3 DEF RowsAgree
  <2>2. CASE c \notin CodeClips
    <3>1. mirror' = mirror
      BY <1>1, <2>2
    <3>2. {sqlRows'[d].seq : d \in Here' \cap CodeClips} = {sqlRows[d].seq : d \in Here \cap CodeClips}
      BY <1>2, <2>2
    <3> QED
      BY <3>1, <3>2 DEF RowsAgree
  <2> QED
    BY <2>1, <2>2
<1>9. blobCount' = Cardinality(SpilledOf(Here))'
  BY <1>1, <1>2, CountStays
<1> QED
  BY <1>1, <1>2, <1>4, <1>6, <1>7, <1>8, <1>9 DEF RowsAgree

\* An insertion adds its entries, under a number nobody has.
LEMMA Inserting ==
  ASSUME RowsAgree, NEW c \in SqlClips, c \notin Here, NEW row \in SqlRow, InsertRow(c, row),
         \A d \in Here : sqlRows[d].seq # row.seq
  PROVE /\ RowsAgree' /\ Here' = Here \cup {c}
        /\ \A d \in Here' : sqlRows'[d] = IF d = c THEN row ELSE sqlRows[d]
<1> DEFINE n == row.seq
<1>1. /\ sqlRows' = WithEntry(sqlRows, c, row)
      /\ prose' = WithEntry(prose, n, TextOf(c, row))
      /\ mirror' = IF c \in CodeClips THEN WithEntry(mirror, n, TextOf(c, row)) ELSE mirror
      /\ annotated' = annotated \cup {c}
      /\ blobCount' = blobCount + row.spilled
  BY DEF InsertRow
<1>2. Here' = Here \cup {c} /\ (\A d \in Here' : sqlRows'[d] = IF d = c THEN row ELSE sqlRows[d])
  BY <1>1 DEF Here, WithEntry
<1>3. sqlRows' \in [Here' -> SqlRow]
  BY <1>1, <1>2 DEF RowsAgree, WithEntry, Here
<1>4. \A d, e \in Here' : d # e => sqlRows'[d].seq # sqlRows'[e].seq
  BY <1>2 DEF RowsAgree
<1>5. DOMAIN prose' = DOMAIN prose \cup {n} /\ prose'[n] = TextOf(c, row)
      /\ \A k \in DOMAIN prose \ {n} : prose'[k] = prose[k]
  BY <1>1 DEF WithEntry
<1> HIDE DEF n
<1>6. DOMAIN prose' = {sqlRows'[d].seq : d \in Here'}
  <2>1. {sqlRows'[d].seq : d \in Here'} = {sqlRows[d].seq : d \in Here} \cup {n}
    BY <1>2 DEF n
  <2> QED
    BY <1>5, <2>1 DEF RowsAgree
<1>7. ASSUME NEW d \in Here' PROVE prose'[sqlRows'[d].seq] = TextOf(d, sqlRows'[d])
  <2>1. CASE d = c
    BY <1>2, <1>5, <2>1 DEF n
  <2>2. CASE d # c
    <3>1. sqlRows'[d] = sqlRows[d] /\ sqlRows[d].seq \in DOMAIN prose \ {n} /\ d \in Here
      BY <1>2, <2>2 DEF RowsAgree, n
    <3>2. prose'[sqlRows[d].seq] = prose[sqlRows[d].seq]
      BY <1>5, <3>1
    <3> QED
      BY <3>1, <3>2 DEF RowsAgree
  <2> QED
    BY <2>1, <2>2
<1>8. DOMAIN mirror' = {sqlRows'[d].seq : d \in Here' \cap CodeClips}
  <2>1. CASE c \in CodeClips
    <3>1. DOMAIN mirror' = DOMAIN mirror \cup {n}
      BY <1>1, <2>1 DEF n, WithEntry
    <3>2. {sqlRows'[d].seq : d \in Here' \cap CodeClips}
            = {sqlRows[d].seq : d \in Here \cap CodeClips} \cup {n}
      BY <1>2, <2>1 DEF n
    <3> QED
      BY <3>1, <3>2 DEF RowsAgree
  <2>2. CASE c \notin CodeClips
    <3>1. mirror' = mirror
      BY <1>1, <2>2
    <3>2. {sqlRows'[d].seq : d \in Here' \cap CodeClips} = {sqlRows[d].seq : d \in Here \cap CodeClips}
      BY <1>2, <2>2
    <3> QED
      BY <3>1, <3>2 DEF RowsAgree
  <2> QED
    BY <2>1, <2>2
<1>9. blobCount' = Cardinality(SpilledOf(Here))'
  <2>1. \A d \in Here' : sqlRows'[d].spilled \in Nat
    BY <1>3 DEF SqlRow
  <2>2. Here \in SUBSET SqlClips /\ {c} \in SUBSET SqlClips /\ Here \cap {c} = {}
    BY DEF RowsAgree
  <2>3. SpilledOf(Here)' = SpilledIn(sqlRows', Here \cup {c})
    BY <1>2 DEF SpilledOf, SpilledIn
  <2>4. Cardinality(SpilledIn(sqlRows', Here \cup {c}))
          = Cardinality(SpilledIn(sqlRows', Here)) + Cardinality(SpilledIn(sqlRows', {c}))
    BY <1>2, <2>1, <2>2, SpilledInSplit
  <2>5. SpilledIn(sqlRows', Here) = SpilledOf(Here)
    BY <1>2 DEF SpilledIn, SpilledOf
  <2>6. sqlRows'[c].spilled = row.spilled /\ sqlRows'[c].spilled \in Nat
    BY <1>2, <2>1
  <2>7. Cardinality(SpilledIn(sqlRows', {c})) = row.spilled
    BY <2>6, SpilledInOne
  <2> QED
    BY <1>1, <2>3, <2>4, <2>5, <2>7 DEF RowsAgree
<1>10. annotated' = Here' /\ Here' \subseteq SqlClips
  BY <1>1, <1>2 DEF RowsAgree
<1> QED
  BY <1>3, <1>4, <1>6, <1>7, <1>8, <1>9, <1>10, <1>2 DEF RowsAgree

\* A deletion takes what hangs on its rows, and nothing else.
LEMMA Deleting ==
  ASSUME RowsAgree, NEW S \in SUBSET Here, DeleteRows(S)
  PROVE /\ RowsAgree' /\ Here' = Here \ S
        /\ \A d \in Here' : sqlRows'[d] = sqlRows[d]
        /\ faceted' = faceted \ S /\ vectors' = vectors \ S
<1> DEFINE seqs == {sqlRows[c].seq : c \in S}
<1>1. /\ sqlRows' = [c \in Here \ S |-> sqlRows[c]]
      /\ prose' = [n \in DOMAIN prose \ seqs |-> prose[n]]
      /\ mirror' = [n \in DOMAIN mirror \ seqs |-> mirror[n]]
      /\ annotated' = annotated \ S
      /\ faceted' = faceted \ S /\ vectors' = vectors \ S
      /\ blobCount' = blobCount - Cardinality(SpilledOf(S))
  BY DEF DeleteRows
<1>2. Here' = Here \ S /\ (\A d \in Here' : sqlRows'[d] = sqlRows[d]) /\ sqlRows' \in [Here' -> SqlRow]
  BY <1>1 DEF RowsAgree, Here
<1>3. \A d \in Here \ S : sqlRows[d].seq \notin seqs
  BY DEF RowsAgree
<1>4. \A d, e \in Here' : d # e => sqlRows'[d].seq # sqlRows'[e].seq
  BY <1>2 DEF RowsAgree
<1>5. DOMAIN prose' = {sqlRows'[d].seq : d \in Here'}
  <2>1. {sqlRows'[d].seq : d \in Here'} = {sqlRows[d].seq : d \in Here \ S}
    BY <1>2
  <2>2. {sqlRows[d].seq : d \in Here} \ seqs = {sqlRows[d].seq : d \in Here \ S}
    BY <1>3
  <2> QED
    BY <1>1, <2>1, <2>2 DEF RowsAgree
<1>6. DOMAIN mirror' = {sqlRows'[d].seq : d \in Here' \cap CodeClips}
  <2>1. {sqlRows'[d].seq : d \in Here' \cap CodeClips} = {sqlRows[d].seq : d \in (Here \ S) \cap CodeClips}
    BY <1>2
  <2>2. {sqlRows[d].seq : d \in Here \cap CodeClips} \ seqs
          = {sqlRows[d].seq : d \in (Here \ S) \cap CodeClips}
    BY <1>3
  <2> QED
    BY <1>1, <2>1, <2>2 DEF RowsAgree
<1>7. \A d \in Here' : prose'[sqlRows'[d].seq] = TextOf(d, sqlRows'[d])
  <2> SUFFICES ASSUME NEW d \in Here' PROVE prose'[sqlRows'[d].seq] = TextOf(d, sqlRows'[d])
    OBVIOUS
  <2>1. sqlRows'[d] = sqlRows[d] /\ sqlRows[d].seq \in DOMAIN prose \ seqs
    BY <1>2, <1>3 DEF RowsAgree
  <2> QED
    BY <1>1, <1>2, <2>1 DEF RowsAgree
<1>8. blobCount' = Cardinality(SpilledOf(Here))'
  <2>1. \A d \in Here : sqlRows[d].spilled \in Nat
    BY DEF RowsAgree, SqlRow
  <2>2. /\ S \in SUBSET SqlClips /\ Here \ S \in SUBSET SqlClips
        /\ S \cap (Here \ S) = {} /\ S \cup (Here \ S) = Here
    BY DEF RowsAgree
  <2>3. Cardinality(SpilledIn(sqlRows, S \cup (Here \ S)))
          = Cardinality(SpilledIn(sqlRows, S)) + Cardinality(SpilledIn(sqlRows, Here \ S))
    BY <2>1, <2>2, SpilledInSplit
  <2>4. Cardinality(SpilledIn(sqlRows, S)) \in Nat
    BY <2>1, <2>2, SpilledInFinite
  <2>5. Cardinality(SpilledIn(sqlRows, Here \ S)) \in Nat
    BY <2>1, <2>2, SpilledInFinite
  <2>6. SpilledOf(Here)' = SpilledIn(sqlRows, Here \ S)
    BY <1>2 DEF SpilledOf, SpilledIn
  <2>7. SpilledIn(sqlRows, S) = SpilledOf(S) /\ SpilledIn(sqlRows, S \cup (Here \ S)) = SpilledOf(Here)
    BY <2>2 DEF SpilledIn, SpilledOf
  <2> QED
    BY <1>1, <2>3, <2>4, <2>5, <2>6, <2>7 DEF RowsAgree
<1>9. annotated' = Here' /\ Here' \subseteq SqlClips
  BY <1>1, <1>2 DEF RowsAgree
<1> QED
  BY <1>1, <1>2, <1>4, <1>5, <1>6, <1>7, <1>8, <1>9 DEF RowsAgree

\* Facets and a vector follow the privacy of the row they belong to.
LEMMA Indexing ==
  ASSUME SqlInv, NEW c, NEW hidden \in BOOLEAN, Projected(c, hidden),
         Here' = Here \cup {c}, sqlRows'[c].sensitive = hidden,
         \A d \in Here \ {c} : sqlRows'[d].sensitive = sqlRows[d].sensitive
  PROVE faceted' \cup vectors' \subseteq Here' /\ \A d \in faceted' \cup vectors' : ~sqlRows'[d].sensitive
<1>1. faceted \cup vectors \subseteq Here /\ \A d \in faceted \cup vectors : ~sqlRows[d].sensitive
  BY DEF SqlInv, StatementsAgree
<1>2. CASE hidden
  <2>1. faceted' = faceted \ {c} /\ vectors' = vectors \ {c}
    BY <1>2 DEF Projected
  <2> QED
    BY <1>1, <2>1
<1>3. CASE ~hidden
  <2>1. faceted' \subseteq faceted \cup {c} /\ vectors' \subseteq vectors \cup {c}
    BY <1>3 DEF Projected
  <2>2. \A d \in faceted' \cup vectors' : d = c \/ d \in Here \ {c}
    BY <1>1, <2>1
  <2> QED
    BY <1>1, <1>3, <2>1, <2>2
<1> QED
  BY <1>2, <1>3

\* A known row is bumped above all others ...
LEMMA Bumping ==
  ASSUME SqlInv, NEW c \in SqlClips, NEW hidden \in BOOLEAN, BumpRow(c, hidden)
  PROVE SqlInv'
<1> DEFINE x == Sensitive(c, hidden)
           row == [sqlRows[c] EXCEPT !.seq = TopSeq + 1, !.sensitive = x]
<1>1. /\ c \in Here /\ TopSeq < MaxSeq /\ UpdateRow(c, row) /\ Projected(c, x)
      /\ UNCHANGED <<lastSeq, tagged, protected, filter, marked, residue, torn>>
  BY DEF BumpRow
<1>2. sqlRows[c] \in SqlRow
  BY <1>1 DEF SqlInv, RowsAgree
<1>3. x \in BOOLEAN
  BY <1>1, <1>2 DEF Sensitive, SqlRow
<1>4. TopSeq \in 0 .. MaxSeq /\ \A d \in Here : sqlRows[d].seq <= TopSeq
  BY TopSeqIs DEF SqlInv
<1> HIDE DEF x
<1>5. TopSeq + 1 \in 1 .. MaxSeq
  BY <1>1, <1>4, SqlAssumption
<1>6. row \in SqlRow /\ row.seq = TopSeq + 1 /\ row.sensitive = x /\ row.spilled = sqlRows[c].spilled
  BY <1>2, <1>3, <1>5 DEF SqlRow
<1>7. \A d \in Here \ {c} : sqlRows[d].seq # row.seq
  <2>1. \A d \in Here : sqlRows[d].seq \in Nat
    BY SqlAssumption DEF SqlInv, RowsAgree, SqlRow
  <2> QED
    BY <1>4, <1>6, <2>1
<1> HIDE DEF row
<1>8. RowsAgree' /\ Here' = Here /\ \A d \in Here : sqlRows'[d] = IF d = c THEN row ELSE sqlRows[d]
  BY <1>1, <1>6, <1>7, Updating DEF SqlInv
<1>9. faceted' \cup vectors' \subseteq Here' /\ \A d \in faceted' \cup vectors' : ~sqlRows'[d].sensitive
  <2>1. Here' = Here \cup {c} /\ sqlRows'[c].sensitive = x
        /\ \A d \in Here \ {c} : sqlRows'[d].sensitive = sqlRows[d].sensitive
    BY <1>1, <1>6, <1>8
  <2> QED
    BY <1>1, <1>3, <2>1, Indexing
<1> QED
  BY <1>1, <1>8, <1>9 DEF SqlInv, StatementsAgree, ResidueIsMarked

\* ... and a fresh one gets a number never given before.
LEMMA Adding ==
  ASSUME SqlInv, NEW c \in SqlClips, NEW hidden \in BOOLEAN, AddRow(c, hidden)
  PROVE SqlInv'
<1> DEFINE spilled == IF hidden THEN 0 ELSE BlobUses[c]
           row == [seq |-> NextSeq, sensitive |-> hidden, pinned |-> FALSE, held |-> FALSE,
                   spilled |-> spilled]
<1>1. /\ c \notin Here /\ NextSeq <= MaxSeq /\ InsertRow(c, row) /\ lastSeq' = NextSeq
      /\ Projected(c, hidden) /\ filter' = filter \cup {c}
      /\ UNCHANGED <<tagged, protected, marked, residue, torn>>
  BY DEF AddRow
<1>2. TopSeq \in 0 .. MaxSeq /\ (\A d \in Here : sqlRows[d].seq <= TopSeq)
      /\ NextSeq \in Nat /\ NextSeq > TopSeq /\ NextSeq >= 1
  BY TopSeqIs, NextSeqIs DEF SqlInv, StatementsAgree
<1>3. spilled \in Nat
  BY SqlAssumption
<1> HIDE DEF spilled
<1>4. NextSeq \in 1 .. MaxSeq
  BY <1>1, <1>2, SqlAssumption
<1>5. row \in SqlRow /\ row.seq = NextSeq /\ row.sensitive = hidden
  BY <1>3, <1>4 DEF SqlRow
<1>6. \A d \in Here : sqlRows[d].seq # row.seq
  <2>1. \A d \in Here : sqlRows[d].seq \in Nat
    BY SqlAssumption DEF SqlInv, RowsAgree, SqlRow
  <2>2. TopSeq \in Nat
    BY <1>2, SqlAssumption
  <2> HIDE DEF row
  <2> QED
    BY <1>2, <1>5, <2>1, <2>2
<1> HIDE DEF row
<1>7. /\ RowsAgree' /\ Here' = Here \cup {c}
      /\ \A d \in Here' : sqlRows'[d] = IF d = c THEN row ELSE sqlRows[d]
  BY <1>1, <1>5, <1>6, Inserting DEF SqlInv
<1>8. faceted' \cup vectors' \subseteq Here' /\ \A d \in faceted' \cup vectors' : ~sqlRows'[d].sensitive
  <2>1. sqlRows'[c].sensitive = hidden
        /\ \A d \in Here \ {c} : sqlRows'[d].sensitive = sqlRows[d].sensitive
    BY <1>5, <1>7
  <2> QED
    BY <1>1, <1>7, <2>1, Indexing
<1>9. lastSeq' \in 0 .. MaxSeq
  BY <1>1, <1>2, SqlAssumption
<1> QED
  BY <1>1, <1>7, <1>8, <1>9 DEF SqlInv, StatementsAgree, ResidueIsMarked

\* A deletion and its statements, in one transaction or not: what is left to
\* the next open is left as nothing but the mark of the WAL.
LEMMA DeletingStep ==
  ASSUME SqlInv, NEW S \in SUBSET Here, DeleteRows(S), NEW forgets \in BOOLEAN,
         Followed(S, forgets) \/ FollowedAtomically(S),
         ~forgets => S \cap protected = {}, lastSeq' = lastSeq
  PROVE SqlInv'
<1>1. /\ RowsAgree' /\ Here' = Here \ S
      /\ \A d \in Here' : sqlRows'[d] = sqlRows[d]
      /\ faceted' = faceted \ S /\ vectors' = vectors \ S
  BY Deleting DEF SqlInv
<1>2. tagged' = tagged \ S /\ protected' \subseteq protected \ S /\ residue' /\ (marked' \/ torn')
  BY DEF Followed, FollowedAtomically
<1>3. Here' \subseteq filter'
  <2>1. filter' = filter \/ filter' = DOMAIN sqlRows'
    BY DEF Followed, FollowedAtomically
  <2> QED
    BY <1>1, <2>1 DEF SqlInv, StatementsAgree, Here
<1>4. tagged' \cup protected' \cup faceted' \cup vectors' \subseteq Here'
  BY <1>1, <1>2 DEF SqlInv, StatementsAgree
<1>5. \A c \in faceted' \cup vectors' : ~sqlRows'[c].sensitive
  BY <1>1, <1>4 DEF SqlInv, StatementsAgree
<1> QED
  BY <1>1, <1>2, <1>3, <1>4, <1>5 DEF SqlInv, StatementsAgree, ResidueIsMarked

\* Every step of the store.
LEMMA SqlStep == SqlInv /\ [SqlNext]_sqlVars => SqlInv'
<1> SUFFICES ASSUME SqlInv, [SqlNext]_sqlVars PROVE SqlInv'
  OBVIOUS
<1>0. RowsAgree /\ StatementsAgree
  BY DEF SqlInv
<1>1. ASSUME UNCHANGED <<sqlRows, prose, mirror, annotated, blobCount>>, StatementsAgree'
      PROVE SqlInv'
  <2>1. Here' = Here /\ SpilledOf(Here)' = SpilledOf(Here)
    BY <1>1 DEF Here, SpilledOf
  <2>2. RowsAgree'
    BY <1>0, <1>1, <2>1 DEF RowsAgree
  <2> QED
    BY <1>1, <2>2 DEF SqlInv
<1>2. /\ Unheld(Here) \subseteq Here /\ Sweepable(Here) \subseteq Here
      /\ Sweepable(Here) \cap protected = {}
  BY DEF Unheld, Unpinned, Sweepable
<1>3. ASSUME NEW c \in SqlClips, NEW hidden \in BOOLEAN, SqlInsert(c, hidden) PROVE SqlInv'
  BY <1>3, Adding, Bumping DEF SqlInsert
<1>4. ASSUME NEW c \in SqlClips, SqlDelete(c) PROVE SqlInv'
  <2>1. {c} \in SUBSET Here /\ DeleteRows({c}) /\ Followed({c}, TRUE) /\ lastSeq' = lastSeq
    BY <1>2, <1>4 DEF SqlDelete
  <2> QED
    BY <2>1, DeletingStep
<1>5. ASSUME NEW c \in SqlClips, SqlSeal(c) PROVE SqlInv'
  <2>1. {c} \in SUBSET Here /\ DeleteRows({c}) /\ FollowedAtomically({c}) /\ lastSeq' = lastSeq
    BY <1>2, <1>5 DEF SqlSeal
  <2> QED
    BY <2>1, DeletingStep
<1>6. ASSUME NEW c \in SqlClips, SqlSweep(c) PROVE SqlInv'
  <2>1. {c} \in SUBSET Here /\ DeleteRows({c}) /\ Followed({c}, TRUE) /\ lastSeq' = lastSeq
    BY <1>2, <1>6 DEF SqlSweep
  <2> QED
    BY <2>1, DeletingStep
<1>7. ASSUME NEW c \in SqlClips, SqlRestore(c) PROVE SqlInv'
  BY <1>7, Adding, Bumping DEF SqlRestore
<1>8. ASSUME NEW c \in SqlClips, SqlPurgeGrace(c) PROVE SqlInv'
  BY <1>0, <1>1, <1>8 DEF SqlPurgeGrace, StatementsAgree, ResidueIsMarked, Here
<1>9. ASSUME NEW c \in SqlClips, SetProtected(c) PROVE SqlInv'
  BY <1>0, <1>1, <1>9 DEF SetProtected, StatementsAgree, ResidueIsMarked, Here
<1>10. ASSUME NEW c \in SqlClips, EditTags(c) PROVE SqlInv'
  BY <1>0, <1>1, <1>10 DEF EditTags, StatementsAgree, ResidueIsMarked, Here
<1>11. ASSUME NEW c \in SqlClips, SqlClawback(c) PROVE SqlInv'
  <2> DEFINE row == [sqlRows[c] EXCEPT !.sensitive = TRUE]
  <2>1. /\ c \in Here /\ UpdateRow(c, row) /\ faceted' = faceted \ {c} /\ vectors' = vectors \ {c}
        /\ residue' = TRUE /\ (marked' \/ torn') /\ UNCHANGED <<lastSeq, tagged>>
        /\ protected' \subseteq protected /\ filter' \in {filter, Here}
    BY <1>11 DEF SqlClawback
  <2>2. row \in SqlRow /\ row.seq = sqlRows[c].seq /\ row.spilled = sqlRows[c].spilled
    BY <1>0, <2>1 DEF RowsAgree, SqlRow
  <2> HIDE DEF row
  <2>3. \A d \in Here \ {c} : sqlRows[d].seq # row.seq
    BY <1>0, <2>1, <2>2 DEF RowsAgree
  <2>4. RowsAgree' /\ Here' = Here /\ \A d \in Here : sqlRows'[d] = IF d = c THEN row ELSE sqlRows[d]
    BY <1>0, <2>1, <2>2, <2>3, Updating
  <2> QED
    BY <1>0, <2>1, <2>4 DEF SqlInv, StatementsAgree, ResidueIsMarked
<1>12. ASSUME NEW c \in SqlClips, NEW value \in BOOLEAN, NEW column \in {"pinned", "held"},
              SetColumn(c, column, value)
       PROVE SqlInv'
  <2>1. /\ c \in Here /\ sqlRows' = [sqlRows EXCEPT ![c] = [sqlRows[c] EXCEPT ![column] = value]]
        /\ UNCHANGED <<lastSeq, prose, mirror, annotated, faceted, vectors, blobCount,
                       tagged, protected, filter, binned, marked, residue, torn>>
    BY <1>12 DEF SetColumn
  <2>2. /\ [sqlRows[c] EXCEPT ![column] = value] \in SqlRow
        /\ [sqlRows[c] EXCEPT ![column] = value].seq = sqlRows[c].seq
        /\ [sqlRows[c] EXCEPT ![column] = value].sensitive = sqlRows[c].sensitive
        /\ [sqlRows[c] EXCEPT ![column] = value].spilled = sqlRows[c].spilled
    <3>1. sqlRows[c] \in SqlRow
      BY <1>0, <2>1 DEF RowsAgree
    <3>2. CASE column = "pinned"
      BY <3>1, <3>2 DEF SqlRow
    <3>3. CASE column = "held"
      BY <3>1, <3>3 DEF SqlRow
    <3> QED
      BY <1>12, <3>2, <3>3
  <2>3. /\ Here' = Here /\ sqlRows' \in [Here -> SqlRow]
        /\ \A d \in Here : /\ sqlRows'[d].seq = sqlRows[d].seq
                           /\ sqlRows'[d].sensitive = sqlRows[d].sensitive
                           /\ sqlRows'[d].spilled = sqlRows[d].spilled
    BY <1>0, <2>1, <2>2 DEF RowsAgree, Here
  <2>4. \A d \in Here : TextOf(d, sqlRows'[d]) = TextOf(d, sqlRows[d])
    BY <2>3 DEF TextOf
  <2>5. blobCount' = Cardinality(SpilledOf(Here))'
    BY <1>0, <2>1, <2>3, CountStays
  <2>6. {sqlRows'[d].seq : d \in Here'} = {sqlRows[d].seq : d \in Here}
        /\ {sqlRows'[d].seq : d \in Here' \cap CodeClips} = {sqlRows[d].seq : d \in Here \cap CodeClips}
    BY <2>3
  <2>7. RowsAgree'
    <3>1. UNCHANGED <<prose, mirror, annotated>>
      BY <2>1
    <3>2. \A d, e \in Here' : d # e => sqlRows'[d].seq # sqlRows'[e].seq
      BY <1>0, <2>3 DEF RowsAgree
    <3>3. \A d \in Here' : prose'[sqlRows'[d].seq] = TextOf(d, sqlRows'[d])
      BY <1>0, <2>3, <2>4, <3>1 DEF RowsAgree
    <3>4. /\ DOMAIN prose' = {sqlRows'[d].seq : d \in Here'}
          /\ DOMAIN mirror' = {sqlRows'[d].seq : d \in Here' \cap CodeClips}
          /\ annotated' = Here' /\ Here' \subseteq SqlClips
      BY <1>0, <2>3, <2>6, <3>1 DEF RowsAgree
    <3>5. sqlRows' \in [Here' -> SqlRow]
      BY <2>3
    <3> QED
      BY <2>5, <3>2, <3>3, <3>4, <3>5 DEF RowsAgree
  <2> QED
    BY <1>0, <2>1, <2>3, <2>7 DEF SqlInv, StatementsAgree, ResidueIsMarked
<1>13. ASSUME NEW S, SqlBatch(S) PROVE SqlInv'
  <2>1. S \in SUBSET Here /\ DeleteRows(S) /\ FollowedAtomically(S) /\ lastSeq' = lastSeq
    BY <1>2, <1>13 DEF SqlBatch
  <2> QED
    BY <2>1, DeletingStep
<1>14. ASSUME NEW S \in SUBSET Here, NEW forgets \in BOOLEAN, DeleteWhere(S, forgets),
              ~forgets => S \cap protected = {}
       PROVE SqlInv'
  <2>1. DeleteRows(S) /\ Followed(S, forgets) /\ lastSeq' = lastSeq
    BY <1>14 DEF DeleteWhere
  <2> QED
    BY <1>14, <2>1, DeletingStep
<1>15. ASSUME NEW S, SqlPurgeExpired(S) PROVE SqlInv'
  BY <1>14, <1>15 DEF SqlPurgeExpired
<1>16. CASE SqlClear
  BY <1>2, <1>14, <1>16 DEF SqlClear
<1>17. CASE SqlClearAll
  BY <1>2, <1>14, <1>17 DEF SqlClearAll
<1>18. ASSUME NEW limit, SqlEnforceCap(limit) PROVE SqlInv'
  <2> DEFINE S == Evicted(Cardinality(Here) - limit)
  <2>1. S \in SUBSET Here /\ S \cap protected = {}
    BY <1>2 DEF Evicted
  <2>2. DeleteWhere(S, FALSE)
    BY <1>18 DEF SqlEnforceCap
  <2> QED
    BY <1>14, <2>1, <2>2
<1>19. CASE ScrubWalIfDirty
  BY <1>0, <1>1, <1>19 DEF ScrubWalIfDirty, StatementsAgree, ResidueIsMarked, Here
<1>20. CASE SqlReopen
  BY <1>0, <1>1, <1>20 DEF SqlReopen, StatementsAgree, ResidueIsMarked, Here
<1>21. CASE UNCHANGED sqlVars
  BY <1>0, <1>1, <1>21 DEF sqlVars, StatementsAgree, ResidueIsMarked, Here
<1> QED
  BY <1>3, <1>4, <1>5, <1>6, <1>7, <1>8, <1>9, <1>10, <1>11, <1>12, <1>13, <1>15, <1>16, <1>17,
     <1>18, <1>19, <1>20, <1>21
  DEF SqlNext

\* An empty store.
LEMMA SqlStart == SqlInit => SqlInv
<1> SUFFICES ASSUME SqlInit PROVE SqlInv
  OBVIOUS
<1>1. Here = {} /\ sqlRows \in [Here -> SqlRow]
  BY DEF SqlInit, Here
<1>2. SpilledOf(Here) = {} /\ Cardinality(SpilledOf(Here)) = 0
  BY <1>1, FS_EmptySet DEF SpilledOf
<1>3. RowsAgree
  BY <1>1, <1>2 DEF SqlInit, RowsAgree
<1>4. StatementsAgree
  BY <1>1, SqlAssumption DEF SqlInit, StatementsAgree, ResidueIsMarked
<1> QED
  BY <1>3, <1>4 DEF SqlInv

\* Under every order of copies, deletions, scrubs and crashes the side tables
\* say of the clip table what is true of it, and bytes of deleted rows in the
\* WAL are marked (the triggers of sqlite_backend.rs, delete_clips_where).
THEOREM SqliteIsSafe == SqlSpec => []SqliteSafety
<1>1. SqlInv => SqliteSafety
  BY SqlInvIsSafety
<1> QED
  BY <1>1, SqlStart, SqlStep, PTL DEF SqlSpec

-----------------------------------------------------------------------------
(* CaptureWatchdog: what the user is told of the worker *)

LEMMA MinOfTwo ==
  ASSUME NEW a \in Nat, NEW b \in Nat
  PROVE Min({a, b}) = IF a <= b THEN a ELSE b
BY DEF Min

\* A sleep that began with a beat ends before the heartbeat is stale, and a
\* recovery beats all along.
BeatsInTime ==
    /\ workerAt = "sleep" => beatAge + sleepLeft <= MaxPoll
    /\ workerAt = "recover" => beatAge = 0

WdInv == WdTypeOK /\ BeatsInTime /\ FailedWriteShows

\* The next sleep is as long as a poll may be apart.
LEMMA SleepsShortly ==
  ASSUME WdTypeOK, NEW seen, SleepAgain(seen)
  PROVE /\ interval' \in MinPoll .. MaxPoll /\ sleepLeft' = interval'
        /\ workerAt' = "sleep" /\ beatAge' = 0
<1>1. interval \in Nat /\ MinPoll \in Nat /\ MaxPoll \in Nat /\ MinPoll <= interval /\ interval <= MaxPoll
      /\ MinPoll >= 1 /\ (interval + 1) \div 2 \in Nat
  <2>1. MinPoll \in Nat \ {0} /\ MaxPoll \in Nat \ {0} /\ MinPoll <= MaxPoll
    BY WatchdogAssumption
  <2>2. interval \in MinPoll .. MaxPoll
    BY DEF WdTypeOK
  <2> QED
    BY <2>1, <2>2
<1>2. \A i \in Observed(seen) : i \in MinPoll .. MaxPoll
  <2>1. Min({interval + (interval + 1) \div 2, MaxPoll}) \in MinPoll .. MaxPoll
    <3> DEFINE a == interval + (interval + 1) \div 2
    <3>1. a \in Nat /\ a >= interval
      BY <1>1
    <3> HIDE DEF a
    <3>2. Min({a, MaxPoll}) = IF a <= MaxPoll THEN a ELSE MaxPoll
      BY <1>1, <3>1, MinOfTwo
    <3> QED
      BY <1>1, <3>1, <3>2 DEF a
  <2> QED
    BY <1>1, <2>1 DEF Observed
<1>3. \A i \in Observed(seen) : Min({2 * i, MaxPoll}) \in MinPoll .. MaxPoll
  <2> SUFFICES ASSUME NEW i \in Observed(seen) PROVE Min({2 * i, MaxPoll}) \in MinPoll .. MaxPoll
    OBVIOUS
  <2>1. i \in Nat /\ MinPoll <= i /\ i <= MaxPoll
    BY <1>1, <1>2
  <2>2. 2 * i \in Nat
    BY <2>1
  <2>3. Min({2 * i, MaxPoll}) = IF 2 * i <= MaxPoll THEN 2 * i ELSE MaxPoll
    BY <1>1, <2>2, MinOfTwo
  <2> QED
    BY <1>1, <2>1, <2>2, <2>3
<1>4. interval' \in Spaced(seen)
  BY DEF SleepAgain
<1>5. interval' \in MinPoll .. MaxPoll
  BY <1>2, <1>3, <1>4 DEF Spaced
<1> QED
  BY <1>5 DEF SleepAgain

Displays == {"starting", "watching", "source unproven", "read error", "storage error",
             "unavailable", "stalled"}

\* The numbers and the places apart.
LEMMA WdTypes ==
  WdTypeOK <=>
    /\ workerAt \in {"read", "store", "sleep", "recover"} /\ sleepLeft \in Nat
    /\ beatAge \in 0 .. StallTimeout /\ interval \in MinPoll .. MaxPoll
    /\ workerPaused \in BOOLEAN /\ storageBad \in BOOLEAN /\ unproven \in BOOLEAN /\ alarm \in BOOLEAN
    /\ readFails \in 0 .. (ReadFailureLimit - 1) /\ health \in Displays
BY DEF WdTypeOK, Blocking, Displays

\* Every step of the worker, of its user and of the watchdog.
LEMMA WdStep == WdInv /\ [WdNext]_wdVars => WdInv'
<1> SUFFICES ASSUME WdInv, [WdNext]_wdVars PROVE WdInv'
  OBVIOUS
<1>a. /\ MinPoll \in Nat /\ MaxPoll \in Nat /\ StallTimeout \in Nat /\ ReadFailureLimit \in Nat
      /\ MinPoll >= 1 /\ StallTimeout >= 1 /\ ReadFailureLimit >= 1
      /\ MinPoll <= MaxPoll /\ MaxPoll < StallTimeout
  BY WatchdogAssumption
<1>b. WdTypeOK /\ BeatsInTime /\ FailedWriteShows
  BY DEF WdInv
<1>h. /\ \A n \in MinPoll .. MaxPoll : n \in Nat /\ 0 + n <= MaxPoll
      /\ \A n \in 0 .. StallTimeout : n \in Nat
      /\ \A n \in 0 .. (ReadFailureLimit - 1) : n \in Nat
  BY <1>a
<1>c. sleepLeft \in Nat /\ beatAge \in 0 .. StallTimeout /\ interval \in MinPoll .. MaxPoll
      /\ readFails \in 0 .. (ReadFailureLimit - 1)
  BY <1>b, WdTypes
<1>d. workerPaused \in BOOLEAN /\ storageBad \in BOOLEAN /\ unproven \in BOOLEAN /\ alarm \in BOOLEAN
  BY <1>b, WdTypes
<1>e. workerAt \in {"read", "store", "sleep", "recover"} /\ health \in Displays
  BY <1>b, WdTypes
\* What is to be shown of the state after a step, in three parts.
<1>f. ASSUME workerAt' \in {"read", "store", "sleep", "recover"}, health' \in Displays,
             workerPaused' \in BOOLEAN, storageBad' \in BOOLEAN, unproven' \in BOOLEAN,
             alarm' \in BOOLEAN, sleepLeft' \in Nat, beatAge' \in 0 .. StallTimeout,
             interval' \in MinPoll .. MaxPoll, readFails' \in 0 .. (ReadFailureLimit - 1),
             workerAt' = "sleep" => beatAge' + sleepLeft' <= MaxPoll,
             workerAt' = "recover" => beatAge' = 0,
             storageBad' /\ workerAt' # "recover" => health' \in {"storage error", "stalled"}
      PROVE WdInv'
  <2>1. WdTypeOK'
    BY <1>f, WdTypes DEF WdTypeOK, Blocking, Displays
  <2> QED
    BY <1>f, <2>1 DEF WdInv, BeatsInTime, FailedWriteShows
<1>g. 0 \in 0 .. StallTimeout /\ 0 \in 0 .. (ReadFailureLimit - 1)
  BY <1>a
\* The worker goes back to sleep ...
<1>1. ASSUME NEW seen, SleepAgain(seen), workerPaused' \in BOOLEAN, storageBad' \in BOOLEAN,
             unproven' \in BOOLEAN, alarm' \in BOOLEAN,
             readFails' \in 0 .. (ReadFailureLimit - 1), health' \in Displays,
             storageBad' => health' \in {"storage error", "stalled"}
      PROVE WdInv'
  <2>1. /\ interval' \in MinPoll .. MaxPoll /\ sleepLeft' = interval'
        /\ workerAt' = "sleep" /\ beatAge' = 0
    BY <1>b, <1>1, SleepsShortly
  <2>2. sleepLeft' \in Nat /\ beatAge' + sleepLeft' <= MaxPoll
    BY <1>h, <2>1
  <2> QED
    BY <1>1, <1>f, <1>g, <2>1, <2>2
\* ... or leaves.
<1>2. ASSUME Leaves PROVE WdInv'
  <2>1. PICK recovery \in DOMAIN RecoveryDelay :
          /\ sleepLeft' = RecoveryDelay[recovery]
          /\ health' = CASE recovery = "resubscribe" -> "read error"
                         [] recovery = "restart" -> "stalled"
                         [] recovery = "degrade" -> "unavailable"
    BY <1>2 DEF Leaves
  <2>2. recovery \in {"resubscribe", "restart", "degrade"} /\ RecoveryDelay[recovery] \in Nat \ {0}
    BY <2>1, WatchdogAssumption
  <2>3. health' \in Displays
    BY <2>1, <2>2 DEF Displays
  <2>4. sleepLeft' \in Nat
    BY <2>1, <2>2
  <2>5. /\ workerAt' = "recover" /\ beatAge' = 0
        /\ UNCHANGED <<interval, workerPaused, storageBad, unproven, readFails, alarm>>
    BY <1>2 DEF Leaves
  <2> QED
    BY <1>c, <1>d, <1>f, <1>g, <2>3, <2>4, <2>5
<1>3. ASSUME UNCHANGED <<workerAt, sleepLeft, beatAge, interval, storageBad, unproven, readFails>>,
             workerPaused' \in BOOLEAN, alarm' \in BOOLEAN, health' \in {health, "stalled"}
      PROVE WdInv'
  <2>1. health' \in Displays
    BY <1>3, <1>e DEF Displays
  <2> QED
    BY <1>3, <1>b, <1>c, <1>d, <1>e, <1>f, <2>1 DEF BeatsInTime, FailedWriteShows
<1>4. CASE WdTick
  <2>1. /\ UNCHANGED <<workerAt, interval, workerPaused, storageBad, unproven, readFails, alarm, health>>
        /\ \/ workerAt \in {"read", "store"} /\ sleepLeft' = sleepLeft
           \/ sleepLeft > 0 /\ sleepLeft' = sleepLeft - 1
        /\ beatAge' = IF workerAt = "recover" THEN 0 ELSE Min({beatAge + 1, StallTimeout})
    BY <1>4 DEF WdTick, Beats, Blocking
  <2>2. beatAge + 1 \in Nat /\ StallTimeout \in Nat
    BY <1>a, <1>c
  <2>3. Min({beatAge + 1, StallTimeout}) = IF beatAge + 1 <= StallTimeout THEN beatAge + 1 ELSE StallTimeout
    BY <2>2, MinOfTwo
  <2>4. sleepLeft' \in Nat /\ (workerAt = "sleep" => sleepLeft' = sleepLeft - 1)
    BY <1>c, <2>1
  <2>5. beatAge' \in 0 .. StallTimeout /\ beatAge' <= beatAge + 1
    BY <1>a, <1>c, <2>1, <2>2, <2>3
  <2>6. ASSUME workerAt' = "sleep" PROVE beatAge' + sleepLeft' <= MaxPoll
    <3>1. beatAge + sleepLeft <= MaxPoll /\ sleepLeft' = sleepLeft - 1
      BY <1>b, <2>1, <2>4, <2>6 DEF BeatsInTime
    <3>2. beatAge \in Nat /\ beatAge' \in Nat /\ sleepLeft \in Nat /\ MaxPoll \in Nat
      BY <1>a, <1>c, <1>h, <2>5
    <3>3. beatAge' <= beatAge + 1
      BY <2>5
    <3>4. \A old, new, left, top \in Nat :
            old + left <= top /\ new <= old + 1 => new + (left - 1) <= top
      OBVIOUS
    <3> QED
      BY <3>1, <3>2, <3>3, <3>4
  <2>7. /\ workerAt' = "recover" => beatAge' = 0
        /\ storageBad' /\ workerAt' # "recover" => health' \in {"storage error", "stalled"}
    BY <1>b, <2>1 DEF FailedWriteShows
  <2> QED
    BY <1>c, <1>d, <1>e, <1>f, <2>1, <2>4, <2>5, <2>6, <2>7
<1>5. CASE WdTogglePause
  <2>1. workerPaused' \in BOOLEAN
    BY <1>5 DEF WdTogglePause
  <2> QED
    BY <1>3, <1>5, <1>d, <2>1 DEF WdTogglePause
<1>6. CASE WorkerBegins
  <2>1. /\ workerAt' = "sleep" /\ beatAge' = 0 /\ health' = "watching" /\ storageBad' = FALSE
        /\ unproven' = FALSE /\ readFails' = 0 /\ UNCHANGED <<workerPaused, alarm>>
        /\ interval' \in MinPoll .. MaxPoll /\ sleepLeft' = interval'
    BY <1>6 DEF WorkerBegins
  <2>2. sleepLeft' \in Nat /\ beatAge' + sleepLeft' <= MaxPoll
    BY <1>h, <2>1
  <2>3. health' \in Displays /\ storageBad' \in BOOLEAN /\ unproven' \in BOOLEAN
    BY <2>1 DEF Displays
  <2> QED
    BY <1>d, <1>f, <1>g, <2>1, <2>2, <2>3
<1>7. CASE ClipboardUnavailable
  BY <1>2, <1>7 DEF ClipboardUnavailable
<1>8. CASE PollPaused
  <2>1. /\ SleepAgain("stable") /\ workerAt = "sleep"
        /\ UNCHANGED <<workerPaused, storageBad, unproven, readFails, alarm, health>>
    BY <1>8 DEF PollPaused
  <2>2. storageBad' => health' \in {"storage error", "stalled"}
    BY <1>b, <2>1 DEF FailedWriteShows
  <2> QED
    BY <1>1, <1>c, <1>d, <1>e, <2>1, <2>2
<1>9. CASE PollReads
  <2>1. /\ workerAt = "sleep" /\ workerAt' = "read" /\ beatAge' = 0
        /\ UNCHANGED <<sleepLeft, interval, workerPaused, storageBad, unproven, readFails, alarm, health>>
    BY <1>9 DEF PollReads
  <2> QED
    BY <1>b, <1>c, <1>d, <1>e, <1>f, <1>g, <2>1 DEF FailedWriteShows
<1>10. CASE ReadOfNothing
  <2>1. /\ readFails' = 0 /\ UNCHANGED <<workerPaused, storageBad, unproven, alarm>>
        /\ health' = (IF storageBad THEN health ELSE Baseline(unproven)) /\ workerAt = "read"
    BY <1>10 DEF ReadOfNothing, ReadSucceeded
  <2>2. health' \in Displays /\ (storageBad => health' = health)
    BY <1>e, <2>1 DEF Baseline, Displays
  <2>3. PICK seen : SleepAgain(seen)
    BY <1>10 DEF ReadOfNothing
  <2>4. storageBad' => health' \in {"storage error", "stalled"}
    BY <1>b, <2>1, <2>2 DEF FailedWriteShows
  <2> QED
    BY <1>1, <1>d, <1>g, <2>1, <2>2, <2>3, <2>4
<1>11. CASE JudgeSource
  <2>1. /\ workerAt = "read" /\ ~storageBad /\ readFails' = 0 /\ unproven' = TRUE
        /\ health' = "source unproven" /\ UNCHANGED <<workerPaused, storageBad, alarm>>
    BY <1>11 DEF JudgeSource
  <2>2. health' \in Displays /\ unproven' \in BOOLEAN
    BY <2>1 DEF Displays
  <2>3. CASE SleepAgain("change")
    BY <1>1, <1>d, <1>g, <2>1, <2>2, <2>3
  <2>4. CASE workerAt' = "store" /\ UNCHANGED <<sleepLeft, beatAge, interval>>
    BY <1>c, <1>d, <1>f, <1>g, <2>1, <2>2, <2>4
  <2> QED
    BY <1>11, <2>3, <2>4 DEF JudgeSource
<1>12. CASE ReadOfClip
  <2>1. /\ workerAt = "read" /\ readFails' = 0 /\ workerAt' = "store"
        /\ health' = (IF storageBad THEN health ELSE Baseline(unproven))
        /\ UNCHANGED <<sleepLeft, beatAge, interval, workerPaused, storageBad, unproven, alarm>>
    BY <1>12 DEF ReadOfClip, ReadSucceeded
  <2>2. health' \in Displays /\ (storageBad => health' = health)
    BY <1>e, <2>1 DEF Baseline, Displays
  <2>3. storageBad' => health' \in {"storage error", "stalled"}
    BY <1>b, <2>1, <2>2 DEF FailedWriteShows
  <2> QED
    BY <1>c, <1>d, <1>f, <1>g, <2>1, <2>2, <2>3
<1>13. CASE ReadFails
  <2>1. /\ workerAt = "read" /\ readFails + 1 < ReadFailureLimit /\ readFails' = readFails + 1
        /\ SleepAgain("missed") /\ health' = (IF storageBad THEN health ELSE "read error")
        /\ UNCHANGED <<workerPaused, storageBad, unproven, alarm>>
    BY <1>13 DEF ReadFails
  <2>2. readFails' \in 0 .. (ReadFailureLimit - 1)
    <3>1. readFails \in Nat
      BY <1>c, <1>h
    <3>2. readFails + 1 < ReadFailureLimit /\ readFails' = readFails + 1
      BY <2>1
    <3>3. ReadFailureLimit \in Nat
      BY <1>a
    <3> QED
      BY <3>1, <3>2, <3>3
  <2>3. health' \in Displays /\ (storageBad => health' = health)
    BY <1>e, <2>1 DEF Displays
  <2>4. storageBad' => health' \in {"storage error", "stalled"}
    BY <1>b, <2>1, <2>3 DEF FailedWriteShows
  <2> QED
    BY <1>1, <1>d, <2>1, <2>2, <2>3, <2>4
<1>14. CASE ReadFailsAgain
  BY <1>2, <1>14 DEF ReadFailsAgain
<1>15. CASE StoreSucceeds
  <2>1. /\ storageBad' = FALSE /\ health' = Baseline(unproven) /\ SleepAgain("change")
        /\ UNCHANGED <<workerPaused, unproven, readFails, alarm>>
    BY <1>15 DEF StoreSucceeds
  <2>2. health' \in Displays
    BY <2>1 DEF Baseline, Displays
  <2> QED
    BY <1>1, <1>c, <1>d, <2>1, <2>2
<1>16. CASE StoreFails
  <2>1. /\ storageBad' = TRUE /\ health' = "storage error" /\ SleepAgain("change")
        /\ UNCHANGED <<workerPaused, unproven, readFails, alarm>>
    BY <1>16 DEF StoreFails
  <2>2. health' \in Displays
    BY <2>1 DEF Displays
  <2> QED
    BY <1>1, <1>c, <1>d, <2>1, <2>2
<1>17. CASE Panics
  BY <1>2, <1>17 DEF Panics
<1>18. CASE Watches
  BY <1>3, <1>18, <1>d DEF Watches, FindsStale, PublishesStall
<1>19. CASE UNCHANGED wdVars
  BY <1>3, <1>19, <1>d DEF wdVars
<1> QED
  BY <1>4, <1>5, <1>6, <1>7, <1>8, <1>9, <1>10, <1>11, <1>12, <1>13, <1>14, <1>15, <1>16, <1>17,
     <1>18, <1>19
  DEF WdNext, Wakes, Returns

LEMMA WdStart == WdInit => WdInv
<1> SUFFICES ASSUME WdInit PROVE WdInv
  OBVIOUS
<1>1. /\ MinPoll \in Nat \ {0} /\ MaxPoll \in Nat \ {0} /\ StallTimeout \in Nat \ {0}
      /\ ReadFailureLimit \in Nat \ {0} /\ MinPoll <= MaxPoll
  BY WatchdogAssumption
<1>2. MinPoll \in MinPoll .. MaxPoll /\ 0 \in 0 .. StallTimeout /\ 0 \in 0 .. (ReadFailureLimit - 1)
  BY <1>1
<1>3. WdTypeOK
  BY <1>2, WdTypes DEF WdInit, Displays
<1> QED
  BY <1>3 DEF WdInit, WdInv, BeatsInTime, FailedWriteShows

\* Only a worker stuck in a read or a write is found stale.
LEMMA StaleIsStuck == WdInv => OnlyStuckIsStale
<1> SUFFICES ASSUME WdInv, beatAge >= StallTimeout PROVE workerAt \in Blocking
  BY DEF OnlyStuckIsStale
<1>1. /\ sleepLeft \in Nat /\ beatAge \in 0 .. StallTimeout /\ MaxPoll \in Nat /\ StallTimeout \in Nat \ {0}
      /\ MaxPoll < StallTimeout /\ workerAt \in Blocking \cup {"sleep", "recover"}
  BY WatchdogAssumption DEF WdInv, WdTypeOK
<1>2. workerAt # "sleep" /\ workerAt # "recover"
  BY <1>1 DEF WdInv, BeatsInTime
<1> QED
  BY <1>1, <1>2

-----------------------------------------------------------------------------
(* MCUpkeep: the parts side by side *)

\* Every part keeps its own invariant, whichever of them moves.
UpkeepInv ==
    /\ PatienceInv /\ BlobInv /\ RetInv /\ LifeInv /\ MaintInv /\ TableShape
    /\ SqlInv /\ ImpInv /\ WdInv
    /\ part = "upgrade" => UpInv

\* A step of one part is a stutter of the others.
LEMMA PartsApart ==
  ASSUME [UpkeepNext]_upkeepVars
  PROVE /\ [Next]_vars /\ [BlobNext]_blobVars /\ [RetNext]_retVars /\ [LifeNext]_lifeVars
        /\ [MaintNext]_maintVars /\ [SqlNext]_sqlVars /\ [ImpNext]_impVars /\ [WdNext]_wdVars
        /\ part' = part /\ (part = "upgrade" => [UpNext]_upVars)
BY DEF UpkeepNext, DuckNext, SqliteNext, upkeepVars, duckVars, sqliteVars

LEMMA UpkeepStep == UpkeepInv /\ [UpkeepNext]_upkeepVars => UpkeepInv'
BY PartsApart, PatienceStep, BlobStep, RetStep, LifeStep, MaintStep, TableStep, SqlStep, ImpStep,
   WdStep, UpStepKeeps
DEF UpkeepInv

\* The part that is chosen starts in a state of its own, the others at rest.
LEMMA UpkeepStart == UpkeepInit => UpkeepInv
<1> SUFFICES ASSUME UpkeepInit PROVE UpkeepInv
  OBVIOUS
<1>1. PatienceInv
  BY LimitAssumption
  DEF UpkeepInit, Init, SupInit, PatienceInv, TypeOK, SupTypeOK, CountersExplainStreak
<1>2. BlobInv /\ RetInv /\ LifeInv /\ SqlInv /\ WdInv
  BY BlobStart, RetStart, LifeStart, SqlStart, WdStart DEF UpkeepInit
<1>3. MaintInv /\ TableShape
  <2>1. CASE part = "maintenance"
    BY <2>1, MaintStart, TableStart DEF UpkeepInit
  <2>2. CASE part # "maintenance"
    <3>1. InTable = {} /\ tabled \in [InTable -> TableRow]
      BY <2>2 DEF UpkeepInit, EmptyTable, InTable
    <3>2. MaintInv
      BY <3>1 DEF MaintInv, HelpersAreTrue, SensitiveIsUnprojected, FilterKnowsTable
    <3>3. bySeq = <<>> /\ scanned = 0 /\ byCheck = <<>> /\ stage = "idle"
      BY <2>2 DEF UpkeepInit, EmptyTable
    <3>4. <<>> \in Seq(RowIds) /\ Len(<<>>) = 0 /\ Listed(<<>>) = {} /\ Distinct(<<>>)
      BY DEF Listed, Distinct
    <3> QED
      BY <3>1, <3>2, <3>3, <3>4 DEF TableShape
  <2> QED
    BY <2>1, <2>2
<1>4. ImpInv
  BY ImpStart DEF UpkeepInit
<1>5. part = "upgrade" => UpInv
  BY UpStart DEF UpkeepInit
<1> QED
  BY <1>1, <1>2, <1>3, <1>4, <1>5 DEF UpkeepInv

LEMMA UpkeepInvariance == UpkeepSpec => []UpkeepInv
BY UpkeepStart, UpkeepStep, PTL DEF UpkeepSpec

\* In every behaviour of the upkeep, what is derived from the rows is true of
\* them: the counts and files of the blobs, the projections and the filter
\* (cas.rs, maintain_idle).
THEOREM StoreAccounts == UpkeepSpec => []StoreIsAccounted
<1>1. UpkeepInv => StoreIsAccounted
  BY DEF UpkeepInv, BlobInv, MaintInv, StoreIsAccounted
<1> QED
  BY <1>1, UpkeepInvariance, PTL

\* ... the report of a retention pass accounts for every clip it looked at: one
\* that reports nothing left has left nothing that a rule or the collection's
\* limits condemn, and one that leaves work has done some (enforce_retention,
\* enforce_collection_retention), in states of the right shape.
THEOREM UpkeepAccounts == UpkeepSpec => []UpkeepIsAccounted
<1>1. UpkeepInv => UpkeepTypeOK
  BY RetTypes, TableTypes DEF UpkeepInv, PatienceInv, BlobInv, LifeInv, WdInv, UpkeepTypeOK
<1>2. UpkeepInv => PassIsAccounted
  BY DEF UpkeepInv, RetInv
<1>3. UpkeepInv => UpkeepIsAccounted
  BY <1>1, <1>2 DEF UpkeepIsAccounted
<1> QED
  BY <1>3, UpkeepInvariance, PTL

\* ... the SQLite history stays whole: its side tables agree, and neither the
\* migration of its file nor the import into DuckDB loses a row, but for those
\* only the -wal had when a rollback was cut short before its copy
\* (sqlite_backend.rs, sqlite_migration.rs, duck_migration.rs).
THEOREM SqliteHistoryIsKept == UpkeepSpec => []SqliteKeepsHistory
<1>1. UpkeepInv => SqliteKeepsHistory
  BY SqlInvIsSafety DEF UpkeepInv, SqliteKeepsHistory, UpInv, ImpInv
<1> QED
  BY <1>1, UpkeepInvariance, PTL

\* ... an imported clip stays local and an exported one is marked
\* (data_lifecycle.rs).
THEOREM UpkeepResidency == UpkeepSpec => []ResidencyIsKept
<1>1. UpkeepInv => ResidencyIsKept
  BY DEF UpkeepInv, LifeInv
<1> QED
  BY <1>1, UpkeepInvariance, PTL

\* ... a clip enters the table with its bytes and only a disk fault takes them.
THEOREM UpkeepBytes == UpkeepSpec => ReaderKeepsBytes
<1>1. UpkeepInit => Reader!BytesInit
  BY ViewIs DEF UpkeepInit, BlobInit, Reader!BytesInit
<1>2. UpkeepInv /\ [UpkeepNext]_upkeepVars => [Reader!BytesNext]_Reader!bytesVars
  BY PartsApart, ReaderStep DEF UpkeepInv
<1> QED
  BY <1>1, <1>2, UpkeepInvariance, PTL DEF UpkeepSpec, ReaderKeepsBytes, Reader!BytesSpec

\* ... and the display never says that capture is fine after a failed write, nor
\* calls a worker stalled that only sleeps or waits: the safety of HealthIsHonest
\* (CaptureHealthState, watchdog_timeout).
THEOREM HealthIsTrue == UpkeepSpec => [](OnlyStuckIsStale /\ FailedWriteShows)
<1>1. UpkeepInv => OnlyStuckIsStale /\ FailedWriteShows
  BY StaleIsStuck DEF UpkeepInv, WdInv
<1> QED
  BY <1>1, UpkeepInvariance, PTL

\* A clip a retention pass takes from under a rule with a grace window is in the
\* bin, a published history is never replaced, no import is lost and the audit
\* takes no content away, in the same behaviours: action properties of
\* PassesKeepTheirPromises.
THEOREM PromisesKept ==
  UpkeepSpec => /\ GraceIsHonoured /\ [][PublishedOnce]_impVars
                /\ ImportsAreNotLost /\ AuditKeepsContent
<1>1. [UpkeepNext]_upkeepVars => [PublishedOnce]_impVars
  BY PartsApart, PublishStep
<1>2. UpkeepInv /\ [UpkeepNext]_upkeepVars =>
        [\A i \in DOMAIN staged \ DOMAIN staged' :
              \/ staged[i].clip \in Present' /\ ~clipRows'[staged[i].clip].archived
              \/ clipRows' = clipRows /\ staged[i].at <= lifeNow - MaxAge
              \/ RejectImport(i)]_lifeVars
  BY PartsApart, ImportStep DEF UpkeepInv
<1>3. [UpkeepNext]_upkeepVars =>
        [stage = "audit" /\ stage' = "wal" =>
           {ContentOf[id] : id \in InTable'} = {ContentOf[id] : id \in InTable}]_maintVars
  BY PartsApart, AuditStep
<1>4. UpkeepInv /\ [UpkeepNext]_upkeepVars =>
        [\A c \in RetStored \ RetStored' :
           report'.pass # "collection" /\ Graced(c) => c \in sealedIds']_retVars
  BY PartsApart, GraceStep DEF UpkeepInv
<1> QED
  BY <1>1, <1>2, <1>3, <1>4, UpkeepInvariance, PTL
  DEF UpkeepSpec, ImportsAreNotLost, AuditKeepsContent, GraceIsHonoured
=============================================================================
