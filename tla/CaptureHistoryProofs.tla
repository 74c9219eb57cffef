------------------------ MODULE CaptureHistoryProofs ------------------------
(***************************************************************************)
(* Theorems about the two halves a copy passes through: the capture worker *)
(* (CaptureLoop), then the history and its window (HistorySnapshots), each *)
(* under its own specification and for every value of its constants.       *)
(***************************************************************************)
EXTENDS CaptureLoop, HistorySnapshots, FoldLemmas

-----------------------------------------------------------------------------
(***************************************************************************)
(* CaptureLoop, for every set of contents, every verdict of the gate,      *)
(* every ledger and every limit: what the worker remembers is accounted    *)
(* for, a click recovers once, and what vbuff wrote is not captured back   *)
(* as long as it reads as it was written.                                  *)
(***************************************************************************)

(* The inductive invariant *)

\* The worker holds a content whenever it is past its read, and copy() holds
\* the mutex whenever it has written.
HeldWhileUsed ==
    /\ pc \in {"judge", "gate", "insert"} => seen # Empty
    /\ placed => copying # Empty

\* A recovery that is asked for is backed by a click.
AskedIsClicked == asked => clicks = 1

\* A content that is surely vbuff's own write is in the ledger for at least as
\* long, or about to be put there by copy(), which still holds the mutex.
LedgerHolds(hash, ticks) ==
    \/ placed /\ ReadBack[copying] = hash
    \/ \E i \in DOMAIN ledger : ledger[i].hash = hash /\ ledger[i].left >= ticks

\* The clipboard's own write is the last one: no other can push it out.
FreshIsLast ==
    fresh > 0 =>
        IF placed THEN ReadBack[copying] = clipboard
        ELSE \E i \in DOMAIN ledger : ledger[i].hash = clipboard /\ ledger[i].left >= fresh

SeenFreshIsHeld ==
    pc \in {"judge", "gate"} /\ seenFresh > 0 => LedgerHolds(seen, seenFresh)

CaptureInv ==
    CaptureTypeOK /\ RememberedIsAccounted /\ HeldWhileUsed /\ AskedIsClicked

WriteInv == CaptureInv /\ FreshIsLast /\ SeenFreshIsHeld

-----------------------------------------------------------------------------
(* The ledger's operators *)

\* Prune keeps a suffix of the ledger with every write that is still alive.
LEMMA PruneKeeps ==
  ASSUME NEW writes \in Seq(Entries)
  PROVE /\ Prune(writes) \in Seq(Entries)
        /\ Len(Prune(writes)) <= Len(writes)
        /\ \A i \in DOMAIN writes : writes[i].left > 0 =>
             \E j \in DOMAIN Prune(writes) : Prune(writes)[j] = writes[i]
<1> DEFINE live == {i \in 1..Len(writes) : writes[i].left > 0}
           front == CHOOSE i \in live : \A j \in live : i <= j
<1>0. Len(writes) \in Nat /\ DOMAIN writes = 1..Len(writes)
  OBVIOUS
<1>1. CASE live = {}
  <2>1. Prune(writes) = <<>>
    BY <1>1 DEF Prune
  <2>2. \A i \in DOMAIN writes : ~(writes[i].left > 0)
    BY <1>1, <1>0
  <2> QED
    BY <2>1, <2>2, <1>0
<1>2. CASE live # {}
  <2>1. Prune(writes) = SubSeq(writes, front, Len(writes))
    BY <1>2 DEF Prune
  <2>2. live \in SUBSET Nat
    BY <1>0
  <2>3. front \in live /\ \A j \in live : front <= j
    BY <2>2, <1>2, LeastExists
  <2>4. front \in 1..Len(writes)
    BY <2>3
  <2> HIDE DEF front
  <2>5. \A i \in front..Len(writes) : writes[i] \in Entries
    BY <2>4, <1>0
  <2>6. /\ SubSeq(writes, front, Len(writes)) \in Seq(Entries)
        /\ Len(SubSeq(writes, front, Len(writes))) = Len(writes) - front + 1
        /\ \A i \in 1..Len(writes) - front + 1 :
             SubSeq(writes, front, Len(writes))[i] = writes[front + i - 1]
    BY <2>4, <2>5, <1>0, SubSeqProperties
  <2>7. ASSUME NEW i \in DOMAIN writes, writes[i].left > 0
        PROVE \E j \in DOMAIN Prune(writes) : Prune(writes)[j] = writes[i]
    <3>1. i \in live /\ i \in Nat
      BY <2>7, <1>0
    <3>2. front <= i /\ i <= Len(writes)
      BY <3>1, <2>3
    <3> DEFINE j == i - front + 1
    <3>3. j \in 1..Len(writes) - front + 1 /\ front + j - 1 = i
      BY <3>1, <3>2, <2>4, <1>0
    <3>4. DOMAIN Prune(writes) = 1..Len(writes) - front + 1
      BY <2>1, <2>6
    <3>5. Prune(writes)[j] = writes[i]
      BY <3>3, <2>6, <2>1
    <3> QED
      BY <3>3, <3>4, <3>5
  <2> QED
    BY <2>1, <2>4, <2>6, <2>7, <1>0
<1> QED
  BY <1>1, <1>2

\* Register stays within the ledger's capacity, has the new write, and forgets
\* no live write but the one it evicts.
LEMMA RegisterKeeps ==
  ASSUME NEW writes \in Seq(Entries), Len(writes) <= Capacity, NEW hash \in Contents
  PROVE /\ Register(writes, hash) \in Seq(Entries)
        /\ Len(Register(writes, hash)) <= Capacity
        /\ \E j \in DOMAIN Register(writes, hash) :
             Register(writes, hash)[j] = [hash |-> hash, left |-> Ttl]
        /\ \A i \in DOMAIN writes :
             writes[i].left > 0 /\ writes[i].hash \notin Evicted(writes) =>
               \E j \in DOMAIN Register(writes, hash) : Register(writes, hash)[j] = writes[i]
<1> DEFINE kept == Prune(writes)
           entry == [hash |-> hash, left |-> Ttl]
           room == IF Len(kept) = Capacity THEN Tail(kept) ELSE kept
<1>0. Capacity \in Nat /\ Capacity >= 1 /\ Ttl \in Nat
  BY BoundAssumption
<1>1. kept \in Seq(Entries) /\ Len(kept) <= Capacity /\ Len(kept) \in Nat
  <2>1. kept \in Seq(Entries) /\ Len(kept) <= Len(writes)
    BY PruneKeeps
  <2> HIDE DEF kept
  <2>2. Len(kept) \in Nat /\ Len(writes) \in Nat
    BY <2>1
  <2> QED
    BY <2>1, <2>2, <1>0
<1>2. \A i \in DOMAIN writes : writes[i].left > 0 => \E j \in DOMAIN kept : kept[j] = writes[i]
  BY PruneKeeps
<1>3. entry \in Entries
  BY <1>0 DEF Entries
<1>4. Register(writes, hash) = Append(room, entry)
  BY DEF Register
<1>5. Evicted(writes) = IF Len(kept) = Capacity THEN {Head(kept).hash} ELSE {}
  BY DEF Evicted
<1> HIDE DEF kept, entry
<1>6. /\ room \in Seq(Entries) /\ Len(room) + 1 <= Capacity /\ Len(room) \in Nat
      /\ \A j \in DOMAIN kept : kept[j].hash \notin Evicted(writes) =>
           \E k \in DOMAIN room : room[k] = kept[j]
  <2>1. CASE Len(kept) = Capacity
    <3>1. kept # <<>>
      BY <2>1, <1>0, <1>1
    <3>2. /\ Tail(kept) \in Seq(Entries) /\ Len(Tail(kept)) = Len(kept) - 1
          /\ \A i \in 1..Len(Tail(kept)) : Tail(kept)[i] = kept[i + 1]
      BY <3>1, <1>1, HeadTailProperties
    <3>3. room = Tail(kept) /\ Evicted(writes) = {kept[1].hash}
      BY <2>1, <1>5, <3>1, <1>1
    <3>4. ASSUME NEW j \in DOMAIN kept, kept[j].hash \notin Evicted(writes)
          PROVE \E k \in DOMAIN Tail(kept) : Tail(kept)[k] = kept[j]
      <4>1. j \in Nat /\ j >= 2 /\ j <= Len(kept)
        BY <3>4, <3>3, <1>1
      <4>2. j - 1 \in 1..Len(Tail(kept)) /\ (j - 1) + 1 = j
        BY <4>1, <3>2, <1>1
      <4>3. DOMAIN Tail(kept) = 1..Len(Tail(kept))
        BY <3>2
      <4>4. Tail(kept)[j - 1] = kept[j]
        BY <4>2, <3>2
      <4> QED
        BY <4>2, <4>3, <4>4
    <3> HIDE DEF room
    <3>5. Len(room) = Len(kept) - 1
      BY <3>2, <3>3
    <3> QED
      BY <3>2, <3>3, <3>4, <3>5, <2>1, <1>0, <1>1
  <2>2. CASE Len(kept) # Capacity
    BY <2>2, <1>0, <1>1
  <2> QED
    BY <2>1, <2>2
<1> HIDE DEF room
<1>7. /\ Append(room, entry) \in Seq(Entries)
      /\ Len(Append(room, entry)) = Len(room) + 1
      /\ \A i \in 1..Len(room) : Append(room, entry)[i] = room[i]
      /\ Append(room, entry)[Len(room) + 1] = entry
  BY <1>3, <1>6, AppendProperties
<1>8. /\ DOMAIN Append(room, entry) = 1..Len(room) + 1
      /\ DOMAIN room = 1..Len(room)
  BY <1>6, <1>7
<1>9. Register(writes, hash) \in Seq(Entries) /\ Len(Register(writes, hash)) <= Capacity
  BY <1>4, <1>6, <1>7
<1>10. \E j \in DOMAIN Append(room, entry) : Append(room, entry)[j] = entry
  BY <1>6, <1>7, <1>8
<1>11. ASSUME NEW i \in DOMAIN writes, writes[i].left > 0, writes[i].hash \notin Evicted(writes)
       PROVE \E j \in DOMAIN Append(room, entry) : Append(room, entry)[j] = writes[i]
  <2>1. PICK j \in DOMAIN kept : kept[j] = writes[i]
    BY <1>2, <1>11
  <2>2. PICK k \in DOMAIN room : room[k] = kept[j]
    BY <2>1, <1>6, <1>11
  <2>3. Append(room, entry)[k] = writes[i] /\ k \in DOMAIN Append(room, entry)
    BY <2>1, <2>2, <1>6, <1>7, <1>8
  <2> QED
    BY <2>3
<1> QED
  BY <1>4, <1>9, <1>10, <1>11 DEF entry

\* The clock takes one tick from every write that has one left.
LEMMA AgedKeeps ==
  ASSUME NEW writes \in Seq(Entries)
  PROVE /\ Aged(writes) \in Seq(Entries)
        /\ Len(Aged(writes)) = Len(writes)
        /\ DOMAIN Aged(writes) = DOMAIN writes
        /\ \A i \in DOMAIN writes :
             /\ Aged(writes)[i].hash = writes[i].hash
             /\ Aged(writes)[i].left = IF writes[i].left > 0 THEN writes[i].left - 1 ELSE 0
<1> DEFINE less(e) == [e EXCEPT !.left = IF @ > 0 THEN @ - 1 ELSE 0]
<1>0. Ttl \in Nat
  BY BoundAssumption
<1>1. ASSUME NEW e \in Entries
      PROVE /\ less(e) \in Entries /\ less(e).hash = e.hash
            /\ less(e).left = IF e.left > 0 THEN e.left - 1 ELSE 0
  <2>1. e.left \in 0..Ttl /\ e.hash \in Contents /\ e = [hash |-> e.hash, left |-> e.left]
    BY <1>1 DEF Entries
  <2> DEFINE n == IF e.left > 0 THEN e.left - 1 ELSE 0
  <2>2. n \in 0..Ttl
    BY <2>1, <1>0
  <2>3. less(e) = [hash |-> e.hash, left |-> n]
    BY <2>1
  <2> QED
    BY <2>1, <2>2, <2>3 DEF Entries
<1>2. Aged(writes) = [i \in DOMAIN writes |-> less(writes[i])]
  BY DEF Aged
<1>3. \A i \in DOMAIN writes : writes[i] \in Entries
  OBVIOUS
<1>4. DOMAIN writes = 1..Len(writes) /\ Len(writes) \in Nat
  OBVIOUS
<1> HIDE DEF less
<1>5. \A i \in 1..Len(writes) : less(writes[i]) \in Entries
  BY <1>1, <1>3, <1>4
<1>6. Aged(writes) \in Seq(Entries) /\ Len(Aged(writes)) = Len(writes)
  BY <1>2, <1>4, <1>5
<1> QED
  BY <1>1, <1>2, <1>3, <1>4, <1>6

-----------------------------------------------------------------------------
(* What the worker remembers *)

\* The supervisor's counters stay within its limits, whatever it observes.
LEMMA SupStep ==
  ASSUME Sup!SupTypeOK,
         Sup!SubscriptionLost \/ Sup!BackendFailed \/ Sup!Recovered \/ UNCHANGED sup
  PROVE Sup!SupTypeOK'
BY BoundAssumption DEF Sup!SupTypeOK, Sup!SubscriptionLost, Sup!BackendFailed, Sup!Recovered,
   Sup!RequestRestart, sup

Sheds == [hash : Contents \union {Empty}, left : 0..ShedRetry]
Skips == [hash : Contents \union {Empty}, recoverable : BOOLEAN, left : 0..RecoveryWindow]

\* What a worker starts with is typed, and what it learns stays so.
LEMMA MemoryTyped ==
  /\ NoShed \in Sheds /\ NoSkip \in Skips
  /\ \A h \in Contents : [hash |-> h, left |-> ShedRetry] \in Sheds
  /\ \A h \in Contents : \A b \in BOOLEAN :
       [hash |-> h, recoverable |-> b, left |-> RecoveryWindow] \in Skips
<1>1. ShedRetry \in 0..ShedRetry /\ 0 \in 0..ShedRetry
      /\ RecoveryWindow \in 0..RecoveryWindow /\ 0 \in 0..RecoveryWindow
  BY BoundAssumption
<1> QED
  BY <1>1 DEF NoShed, NoSkip, Sheds, Skips

\* CaptureInit is one of the invariant's states.
LEMMA CaptureStart == CaptureInit => WriteInv
<1> SUFFICES ASSUME CaptureInit PROVE WriteInv
  OBVIOUS
<1>1. CaptureTypeOK
  <2>1. Sup!SupTypeOK
    BY BoundAssumption DEF CaptureInit, Sup!SupInit, Sup!SupTypeOK
  <2>2. ledger \in Seq(Entries) /\ Len(ledger) <= Capacity
    BY BoundAssumption DEF CaptureInit
  <2>3. /\ readFailures \in 0..(MaxReadFailures - 1) /\ offer \in 0..RecoveryWindow
        /\ fresh \in 0..Ttl /\ seenFresh \in 0..Ttl
    BY BoundAssumption DEF CaptureInit
  <2>4. lastShed \in Sheds /\ skipped \in Skips
    BY MemoryTyped DEF CaptureInit
  <2> QED
    BY <2>1, <2>2, <2>3, <2>4, ContentAssumption DEF CaptureInit, CaptureTypeOK, Sheds, Skips
<1> QED
  BY <1>1 DEF CaptureInit, WriteInv, CaptureInv, RememberedIsAccounted, HeldWhileUsed, AskedIsClicked,
     FreshIsLast, SeenFreshIsHeld

\* Every step keeps what the worker remembers typed and accounted for.
LEMMA CaptureStep == CaptureInv /\ [CaptureNext]_captureVars => CaptureInv'
<1> SUFFICES ASSUME CaptureInv, [CaptureNext]_captureVars PROVE CaptureInv'
  OBVIOUS
<1> USE ContentAssumption, BoundAssumption
    DEF Sheds, Skips, CaptureInv, CaptureTypeOK, RememberedIsAccounted, HeldWhileUsed, AskedIsClicked, desktop, copier,
        local, sup, shared, BackToPoll, WorkerGone
<1>1. ASSUME NEW c \in Contents \cup {Empty}, AppCopies(c) PROVE CaptureInv'
  BY <1>1, SupStep DEF AppCopies
<1>2. CASE TogglePause
  BY <1>2, SupStep DEF TogglePause
<1>3. ASSUME NEW l \in Loads, LoadChanges(l) PROVE CaptureInv'
  BY <1>3, SupStep DEF LoadChanges
<1>4. CASE ClickRecover
  BY <1>4, SupStep DEF ClickRecover
<1>5. CASE Tick
  <2>1. /\ ledger' \in Seq(Entries) /\ Len(ledger') <= Capacity
        /\ ledger' = Aged(ledger)
    BY <1>5, AgedKeeps DEF Tick
  <2>2. \A n, m \in Nat : m <= n => Less(m) \in 0..n
    BY DEF Less
  <2>3. offer' \in 0..RecoveryWindow /\ fresh' \in 0..Ttl /\ seenFresh' \in 0..Ttl
    BY <1>5, <2>2 DEF Tick
  <2>4. lastShed' \in Sheds
    <3>1. lastShed.left \in 0..ShedRetry /\ lastShed' = [lastShed EXCEPT !.left = Less(lastShed.left)]
      BY <1>5 DEF Tick
    <3>2. Less(lastShed.left) \in 0..ShedRetry
      BY <3>1, <2>2
    <3> QED
      BY <3>1, <3>2
  <2>5. skipped' \in Skips
    <3>1. skipped.left \in 0..RecoveryWindow /\ skipped' = [skipped EXCEPT !.left = Less(skipped.left)]
      BY <1>5 DEF Tick
    <3>2. Less(skipped.left) \in 0..RecoveryWindow
      BY <3>1, <2>2
    <3> QED
      BY <3>1, <3>2
  <2>6. Sup!SupTypeOK'
    BY <1>5, SupStep DEF Tick
  <2>7. UNCHANGED <<desktop, copying, placed, pc, seen, explicit, lastHash, readFailures, asked,
                    saved, outcomes, clicks>>
    BY <1>5 DEF Tick
  <2> QED
    BY <2>1, <2>3, <2>4, <2>5, <2>6, <2>7
<1>6. ASSUME NEW c \in OwnClips, CopyLocks(c) PROVE CaptureInv'
  BY <1>6, SupStep DEF CopyLocks
<1>7. CASE CopyPlaces
  BY <1>7, SupStep DEF CopyPlaces
<1>8. CASE CopyFails
  BY <1>8, SupStep DEF CopyFails
<1>9. CASE CopyRegisters
  <2>1. copying \in Contents /\ ledger' = Register(ledger, copying)
    BY <1>9 DEF CopyRegisters
  <2>2. ledger' \in Seq(Entries) /\ Len(ledger') <= Capacity
    BY <2>1, RegisterKeeps
  <2>3. Sup!SupTypeOK'
    BY <1>9, SupStep DEF CopyRegisters
  <2>4. seenFresh' \in 0..Ttl
    BY <1>9 DEF CopyRegisters
  <2>5. /\ copying' = Empty /\ placed' = FALSE
        /\ UNCHANGED <<desktop, pc, seen, explicit, local, shared, saved, outcomes, fresh, clicks>>
    BY <1>9 DEF CopyRegisters
  <2>6. copying' \in OwnClips \cup {Empty} /\ placed' \in BOOLEAN /\ (placed' => copying' # Empty)
    BY <2>5
  <2>7. lastShed' \in Sheds /\ skipped' \in Skips
    BY <2>5
  <2>8. /\ readFailures' \in 0..(MaxReadFailures - 1) /\ offer' \in 0..RecoveryWindow
        /\ fresh' \in 0..Ttl
    BY <2>5
  <2> QED
    BY <2>2, <2>3, <2>4, <2>5, <2>6, <2>7, <2>8
<1>10. CASE WorkerStarts
  BY <1>10, SupStep DEF WorkerStarts
<1>11. CASE WorkerUnavailable
  BY <1>11, SupStep DEF WorkerUnavailable
<1>12. CASE PollUnpaused
  BY <1>12, SupStep DEF PollUnpaused
<1>13. CASE ReadOk
  <2>1. Sup!SupTypeOK'
    BY <1>13, SupStep DEF ReadOk
  <2>2. readFailures' \in 0..(MaxReadFailures - 1) /\ seenFresh' \in 0..Ttl
    BY <1>13 DEF ReadOk
  <2>3. \/ pc' = "poll" /\ seen' = Empty /\ explicit' = FALSE
        \/ pc' = "judge" /\ seen' = clipboard /\ clipboard # Empty /\ explicit' = explicit
    <3>1. CASE clipboard = Empty
      BY <1>13, <3>1 DEF ReadOk
    <3>2. CASE clipboard # Empty
      BY <1>13, <3>2 DEF ReadOk
    <3> QED
      BY <3>1, <3>2
  <2>4. clipboard \in Contents \cup {Empty}
    OBVIOUS
  <2>5. UNCHANGED <<desktop, copier, lastHash, lastShed, skipped, shared, saved, outcomes, fresh, clicks>>
    BY <1>13 DEF ReadOk
  <2>6. /\ pc' \in {"poll", "judge"} /\ explicit' \in BOOLEAN /\ seen' \in Contents \cup {Empty}
        /\ pc' \in {"judge", "gate", "insert"} => seen' # Empty
    BY <2>3, <2>4
  <2>7. lastShed' \in Sheds /\ skipped' \in Skips
    BY <2>5
  <2> QED
    BY <2>1, <2>2, <2>5, <2>6, <2>7
<1>14. CASE ReadError
  <2>1. Sup!SupTypeOK'
    BY <1>14, SupStep DEF ReadError
  <2>2. readFailures' \in 0..(MaxReadFailures - 1) /\ seenFresh' \in 0..Ttl
    BY <1>14 DEF ReadError
  <2>3. lastShed' \in Sheds /\ skipped' \in Skips
    BY <1>14, MemoryTyped DEF ReadError
  <2> QED
    BY <1>14, <2>1, <2>2, <2>3 DEF ReadError
<1>15. CASE Judge
  <2>1. Sup!SupTypeOK'
    BY <1>15, SupStep DEF Judge
  <2>2. lastShed' \in Sheds /\ seenFresh' \in 0..Ttl
    BY <1>15, MemoryTyped DEF Judge
  <2>3. explicit' \in BOOLEAN
    BY <1>15 DEF Judge, MayRecover
  <2> QED
    BY <1>15, <2>1, <2>2, <2>3 DEF Judge, RequestTaken
<1>16. CASE GateSkips
  <2>1. Sup!SupTypeOK'
    BY <1>16, SupStep DEF GateSkips
  <2>2. ledger' \in Seq(Entries) /\ Len(ledger') <= Capacity
    <3>1. ledger' = Prune(ledger)
      BY <1>16 DEF GateSkips
    <3>2. Prune(ledger) \in Seq(Entries) /\ Len(Prune(ledger)) <= Len(ledger)
      BY PruneKeeps
    <3>3. Len(ledger) \in Nat /\ Len(ledger) <= Capacity /\ Len(Prune(ledger)) \in Nat
      BY <3>2
    <3> QED
      BY <3>1, <3>2, <3>3
  <2>3. seen \in Contents
    BY <1>16 DEF GateSkips
  <2> DEFINE r == Recoverable
  <2>4. r \in BOOLEAN
    BY DEF Recoverable, SelfWrite
  <2>5. skipped' = [hash |-> seen, recoverable |-> r, left |-> RecoveryWindow]
        /\ offer' = IF r THEN RecoveryWindow ELSE 0
    BY <1>16 DEF GateSkips
  <2> HIDE DEF r
  <2>6. skipped' \in Skips /\ offer' \in 0..RecoveryWindow
    BY <2>3, <2>4, <2>5, MemoryTyped
  <2>9. seenFresh' \in 0..Ttl
    BY <1>16 DEF GateSkips
  <2> QED
    BY <1>16, <2>1, <2>2, <2>3, <2>6, <2>9 DEF GateSkips
<1>17. CASE GateLoses
  <2>1. Sup!SupTypeOK'
    BY <1>17, SupStep DEF GateLoses
  <2>2. ledger' \in Seq(Entries) /\ Len(ledger') <= Capacity
    <3>1. ledger' = Prune(ledger)
      BY <1>17 DEF GateLoses
    <3>2. Prune(ledger) \in Seq(Entries) /\ Len(Prune(ledger)) <= Len(ledger)
      BY PruneKeeps
    <3>3. Len(ledger) \in Nat /\ Len(ledger) <= Capacity /\ Len(Prune(ledger)) \in Nat
      BY <3>2
    <3> QED
      BY <3>1, <3>2, <3>3
  <2>3. seen \in Contents
    BY <1>17 DEF GateLoses
  <2>4. skipped' \in Skips /\ offer' \in 0..RecoveryWindow
    <3>1. [hash |-> seen, recoverable |-> FALSE, left |-> RecoveryWindow] \in Skips
      BY <2>3, MemoryTyped
    <3>2. \/ /\ skipped' = [hash |-> seen, recoverable |-> FALSE, left |-> RecoveryWindow]
             /\ offer' = 0
          \/ UNCHANGED <<skipped, offer>>
      BY <1>17 DEF GateLoses
    <3>3. skipped \in Skips /\ offer \in 0..RecoveryWindow /\ 0 \in 0..RecoveryWindow
      OBVIOUS
    <3>4. CASE skipped' = [hash |-> seen, recoverable |-> FALSE, left |-> RecoveryWindow] /\ offer' = 0
      BY <3>1, <3>3, <3>4
    <3>5. CASE UNCHANGED <<skipped, offer>>
      BY <3>3, <3>5
    <3> QED
      BY <3>2, <3>4, <3>5
  <2>9. seenFresh' \in 0..Ttl
    BY <1>17 DEF GateLoses
  <2> QED
    BY <1>17, <2>1, <2>2, <2>3, <2>4, <2>9 DEF GateLoses
<1>18. CASE GateAdmits
  <2>1. Sup!SupTypeOK'
    BY <1>18, SupStep DEF GateAdmits
  <2>2. ledger' \in Seq(Entries) /\ Len(ledger') <= Capacity
    <3>1. ledger' = Prune(ledger)
      BY <1>18 DEF GateAdmits
    <3>2. Prune(ledger) \in Seq(Entries) /\ Len(Prune(ledger)) <= Len(ledger)
      BY PruneKeeps
    <3>3. Len(ledger) \in Nat /\ Len(ledger) <= Capacity /\ Len(Prune(ledger)) \in Nat
      BY <3>2
    <3> QED
      BY <3>1, <3>2, <3>3
  <2>3. seen \in Contents
    BY <1>18 DEF GateAdmits
  <2> QED
    BY <1>18, <2>1, <2>2, <2>3 DEF GateAdmits
<1>19. CASE GateSheds
  <2>1. Sup!SupTypeOK'
    BY <1>19, SupStep DEF GateSheds
  <2>2. ledger' \in Seq(Entries) /\ Len(ledger') <= Capacity
    <3>1. ledger' = Prune(ledger)
      BY <1>19 DEF GateSheds
    <3>2. Prune(ledger) \in Seq(Entries) /\ Len(Prune(ledger)) <= Len(ledger)
      BY PruneKeeps
    <3>3. Len(ledger) \in Nat /\ Len(ledger) <= Capacity /\ Len(Prune(ledger)) \in Nat
      BY <3>2
    <3> QED
      BY <3>1, <3>2, <3>3
  <2>3. seen \in Contents
    BY <1>19 DEF GateSheds
  <2>4. lastShed' \in Sheds
    BY <1>19, <2>3, MemoryTyped DEF GateSheds, Shed
  <2>9. seenFresh' \in 0..Ttl
    BY <1>19 DEF GateSheds
  <2> QED
    BY <1>19, <2>1, <2>2, <2>3, <2>4, <2>9 DEF GateSheds, Shed
<1>20. CASE InsertOk
  <2>1. Sup!SupTypeOK'
    BY <1>20, SupStep DEF InsertOk
  <2>2. lastShed' \in Sheds /\ seenFresh' \in 0..Ttl
    BY <1>20, MemoryTyped DEF InsertOk
  <2>3. /\ seen \in Contents /\ saved' = saved \cup {seen} /\ outcomes' = outcomes \cup {seen}
        /\ lastHash' = seen /\ offer' = 0 /\ pc' = "poll" /\ seen' = Empty /\ explicit' = FALSE
    BY <1>20 DEF InsertOk
  <2>4. UNCHANGED <<desktop, copier, readFailures, skipped, asked, fresh, clicks>>
    BY <1>20 DEF InsertOk
  <2>5. saved' \in SUBSET Contents /\ outcomes' \in SUBSET Contents /\ lastHash' \in outcomes'
    BY <2>3
  <2>6. offer' \in 0..RecoveryWindow /\ lastHash' \in Contents
    BY <2>3
  <2> QED
    BY <2>1, <2>2, <2>3, <2>4, <2>5, <2>6
<1>21. CASE InsertErr
  <2>1. Sup!SupTypeOK'
    BY <1>21, SupStep DEF InsertErr
  <2>2. seenFresh' \in 0..Ttl
    BY <1>21 DEF InsertErr
  <2> QED
    BY <1>21, <2>1, <2>2 DEF InsertErr
<1>22. CASE WorkerPanics
  <2>1. Sup!SupTypeOK'
    BY <1>22, SupStep DEF WorkerPanics
  <2>2. readFailures' \in 0..(MaxReadFailures - 1) /\ seenFresh' \in 0..Ttl
    BY <1>22 DEF WorkerPanics
  <2>3. lastShed' \in Sheds /\ skipped' \in Skips
    BY <1>22, MemoryTyped DEF WorkerPanics
  <2> QED
    BY <1>22, <2>1, <2>2, <2>3 DEF WorkerPanics
<1>23. CASE UNCHANGED captureVars
  BY <1>23, SupStep DEF captureVars
<1> QED
  BY <1>1, <1>2, <1>3, <1>4, <1>5, <1>6, <1>7, <1>8, <1>9, <1>10, <1>11, <1>12, <1>13, <1>14, <1>15, <1>16, <1>17, <1>18, <1>19, <1>20, <1>21, <1>22, <1>23 DEF CaptureNext, Desktop, Copy, Worker

-----------------------------------------------------------------------------
(* What vbuff wrote *)

\* A clip reads back under the hash it was registered with.
ReadsBackAsWritten == \A c \in OwnClips : ReadBack[c] = c

\* A step that keeps the live writes and the clipboard, and looks at nothing
\* but what is on it.
LiveKept ==
    \A i \in DOMAIN ledger : ledger[i].left > 0 =>
        \E j \in DOMAIN ledger' : ledger'[j] = ledger[i]

LooksOnlyAtClipboard ==
    \/ pc' \notin {"judge", "gate"}
    \/ pc \in {"judge", "gate"} /\ UNCHANGED <<seen, seenFresh>>
    \/ seen' = clipboard /\ seenFresh' = fresh

\* What the ledger holds is typed.
LEMMA EntriesTyped ==
  ASSUME CaptureInv
  PROVE \A i \in DOMAIN ledger : ledger[i].left \in Nat /\ ledger[i].hash \in Contents
<1>1. ledger \in Seq(Entries)
  BY DEF CaptureInv, CaptureTypeOK
<1>2. \A e \in Entries : e.left \in Nat /\ e.hash \in Contents
  BY BoundAssumption DEF Entries
<1> QED
  BY <1>1, <1>2

\* Such a step leaves every fresh write where the ledger holds it.
LEMMA QuietKeeps ==
  ASSUME CaptureInv, FreshIsLast, SeenFreshIsHeld,
         UNCHANGED <<clipboard, fresh, copying, placed>>, LiveKept, LooksOnlyAtClipboard
  PROVE FreshIsLast' /\ SeenFreshIsHeld'
<1>1. fresh \in Nat /\ seenFresh \in Nat /\ \A i \in DOMAIN ledger : ledger[i].left \in Nat
  <2>1. fresh \in 0..Ttl /\ seenFresh \in 0..Ttl
    BY DEF CaptureInv, CaptureTypeOK
  <2> QED
    BY <2>1, EntriesTyped
<1>2. ASSUME NEW h, NEW t \in Nat, t > 0,
             \E i \in DOMAIN ledger : ledger[i].hash = h /\ ledger[i].left >= t
      PROVE \E j \in DOMAIN ledger' : ledger'[j].hash = h /\ ledger'[j].left >= t
  <2>1. PICK i \in DOMAIN ledger : ledger[i].hash = h /\ ledger[i].left >= t
    BY <1>2
  <2>2. ledger[i].left > 0
    BY <1>1, <1>2, <2>1
  <2>3. PICK j \in DOMAIN ledger' : ledger'[j] = ledger[i]
    BY <2>2 DEF LiveKept
  <2> QED
    BY <2>1, <2>3
<1>3. FreshIsLast'
  <2> SUFFICES ASSUME fresh > 0
               PROVE IF placed THEN ReadBack[copying] = clipboard
                     ELSE \E j \in DOMAIN ledger' : ledger'[j].hash = clipboard /\ ledger'[j].left >= fresh
    BY DEF FreshIsLast
  <2> QED
    BY <1>1, <1>2 DEF FreshIsLast
<1>4. SeenFreshIsHeld'
  <2>1. CASE pc' \notin {"judge", "gate"}
    BY <2>1 DEF SeenFreshIsHeld
  <2>2. CASE pc \in {"judge", "gate"} /\ UNCHANGED <<seen, seenFresh>>
    <3>1. seenFresh > 0 => LedgerHolds(seen, seenFresh)
      BY <2>2 DEF SeenFreshIsHeld
    <3>2. seenFresh > 0 =>
            \/ placed /\ ReadBack[copying] = seen
            \/ \E j \in DOMAIN ledger' : ledger'[j].hash = seen /\ ledger'[j].left >= seenFresh
      BY <3>1, <1>1, <1>2 DEF LedgerHolds
    <3> QED
      BY <2>2, <3>2 DEF SeenFreshIsHeld, LedgerHolds
  <2>3. CASE seen' = clipboard /\ seenFresh' = fresh
    BY <2>3, <1>3 DEF SeenFreshIsHeld, LedgerHolds, FreshIsLast
  <2> QED
    BY <2>1, <2>2, <2>3 DEF LooksOnlyAtClipboard
<1> QED
  BY <1>3, <1>4

\* Every step keeps fresh writes in the ledger, or in copy()'s hands.
LEMMA WriteStep ==
  ASSUME ReadsBackAsWritten, WriteInv, [CaptureNext]_captureVars PROVE WriteInv'
<1> USE DEF WriteInv
<1>0. CaptureInv'
  BY CaptureStep
<1>1. /\ fresh \in Nat /\ seenFresh \in Nat /\ Ttl \in Nat /\ Ttl > 0
      /\ fresh <= Ttl /\ seenFresh <= Ttl
      /\ \A i \in DOMAIN ledger : ledger[i].left \in Nat /\ ledger[i].hash \in Contents
  <2>1. fresh \in 0..Ttl /\ seenFresh \in 0..Ttl
    BY DEF CaptureInv, CaptureTypeOK
  <2>2. \A i \in DOMAIN ledger : ledger[i].left \in Nat /\ ledger[i].hash \in Contents
    BY EntriesTyped DEF WriteInv
  <2> QED
    BY <2>1, <2>2, BoundAssumption
<1>2. ledger \in Seq(Entries) /\ Len(ledger) <= Capacity
  BY DEF CaptureInv, CaptureTypeOK
<1>3. ledger' = ledger => LiveKept
  BY DEF LiveKept
<1>4. ledger' = Prune(ledger) => LiveKept
  BY <1>2, PruneKeeps DEF LiveKept
<1> USE DEF LooksOnlyAtClipboard, desktop, copier, local, sup, shared, BackToPoll, WorkerGone
<1>5. CASE CaptureNext
  <2>1. ASSUME NEW c \in Contents \cup {Empty}, AppCopies(c)
        PROVE FreshIsLast' /\ SeenFreshIsHeld'
    <3>1. fresh' = 0 /\ UNCHANGED <<pc, seen, seenFresh, placed, copying, ledger>>
      BY <2>1 DEF AppCopies
    <3> QED
      BY <3>1 DEF FreshIsLast, SeenFreshIsHeld, LedgerHolds
  <2>2. CASE \/ TogglePause \/ (\E l \in Loads : LoadChanges(l)) \/ ClickRecover
             \/ WorkerStarts \/ WorkerUnavailable \/ PollUnpaused
    <3>1. UNCHANGED <<clipboard, fresh, copying, placed, ledger>>
      BY <2>2 DEF TogglePause, LoadChanges, ClickRecover, WorkerStarts, WorkerUnavailable, PollUnpaused
    <3>2. LooksOnlyAtClipboard
      BY <2>2 DEF TogglePause, LoadChanges, ClickRecover, WorkerStarts, WorkerUnavailable, PollUnpaused
    <3> QED
      BY <3>1, <3>2, <1>0, <1>3, QuietKeeps
  <2>3. CASE ReadOk \/ ReadError \/ Judge \/ InsertOk \/ InsertErr \/ WorkerPanics
    <3>1. UNCHANGED <<clipboard, fresh, copying, placed, ledger>>
      BY <2>3 DEF ReadOk, ReadError, Judge, InsertOk, InsertErr, WorkerPanics
    <3>2. LooksOnlyAtClipboard
      BY <2>3 DEF ReadOk, ReadError, Judge, InsertOk, InsertErr, WorkerPanics
    <3> QED
      BY <3>1, <3>2, <1>0, <1>3, QuietKeeps
  <2>4. CASE GateSkips \/ GateLoses \/ GateAdmits \/ GateSheds
    <3>1. UNCHANGED <<clipboard, fresh, copying, placed>> /\ ledger' = Prune(ledger)
      BY <2>4 DEF GateSkips, GateLoses, GateAdmits, GateSheds
    <3>2. LooksOnlyAtClipboard
      BY <2>4 DEF GateSkips, GateLoses, GateAdmits, GateSheds
    <3> QED
      BY <3>1, <3>2, <1>0, <1>4, QuietKeeps
  <2>5. CASE Tick
    <3>1. /\ ledger' = Aged(ledger) /\ fresh' = Less(fresh) /\ seenFresh' = Less(seenFresh)
          /\ UNCHANGED <<clipboard, copying, placed, pc, seen>>
      BY <2>5 DEF Tick
    <3>2. ASSUME NEW h, NEW t \in Nat, t > 0, Less(t) > 0,
                 \E i \in DOMAIN ledger : ledger[i].hash = h /\ ledger[i].left >= t
          PROVE \E j \in DOMAIN ledger' : ledger'[j].hash = h /\ ledger'[j].left >= Less(t)
      <4>1. PICK i \in DOMAIN ledger : ledger[i].hash = h /\ ledger[i].left >= t
        BY <3>2
      <4>2. /\ i \in DOMAIN ledger' /\ ledger'[i].hash = h
            /\ ledger'[i].left = IF ledger[i].left > 0 THEN ledger[i].left - 1 ELSE 0
        BY <3>1, <4>1, <1>2, AgedKeeps
      <4>3. ledger'[i].left >= Less(t)
        BY <4>1, <4>2, <3>2, <1>1 DEF Less
      <4> QED
        BY <4>2, <4>3
    <3>3. (fresh' > 0 => fresh > 0) /\ (seenFresh' > 0 => seenFresh > 0)
      BY <3>1, <1>1 DEF Less
    <3>4. FreshIsLast'
      <4> SUFFICES ASSUME fresh' > 0
                   PROVE IF placed THEN ReadBack[copying] = clipboard
                         ELSE \E j \in DOMAIN ledger' :
                                ledger'[j].hash = clipboard /\ ledger'[j].left >= fresh'
        BY <3>1 DEF FreshIsLast
      <4> QED
        BY <3>1, <3>2, <3>3, <1>1 DEF FreshIsLast
    <3>5. SeenFreshIsHeld'
      <4> SUFFICES ASSUME pc \in {"judge", "gate"}, seenFresh' > 0
                   PROVE \/ placed /\ ReadBack[copying] = seen
                         \/ \E j \in DOMAIN ledger' :
                                ledger'[j].hash = seen /\ ledger'[j].left >= seenFresh'
        BY <3>1 DEF SeenFreshIsHeld, LedgerHolds
      <4> QED
        BY <3>1, <3>2, <3>3, <1>1 DEF SeenFreshIsHeld, LedgerHolds
    <3> QED
      BY <1>0, <3>4, <3>5
  <2>6. ASSUME NEW c \in OwnClips, CopyLocks(c) PROVE FreshIsLast' /\ SeenFreshIsHeld'
    <3>1. ~placed
      BY <2>6 DEF CopyLocks, CaptureInv, HeldWhileUsed
    <3>2. UNCHANGED <<clipboard, fresh, placed, ledger, pc, seen, seenFresh>>
      BY <2>6 DEF CopyLocks
    <3> QED
      BY <3>1, <3>2 DEF FreshIsLast, SeenFreshIsHeld, LedgerHolds
  <2>7. CASE CopyPlaces
    <3>1. /\ ~placed /\ placed' = TRUE /\ clipboard' = ReadBack[copying]
          /\ UNCHANGED <<copying, ledger, pc, seen, seenFresh>>
      BY <2>7 DEF CopyPlaces
    <3> QED
      BY <1>0, <3>1 DEF FreshIsLast, SeenFreshIsHeld, LedgerHolds
  <2>8. CASE CopyFails
    <3>1. /\ ~placed /\ UNCHANGED <<placed, ledger, pc, seen, seenFresh>>
          /\ \/ fresh' = 0
             \/ UNCHANGED <<clipboard, fresh>>
      BY <2>8 DEF CopyFails
    <3> QED
      BY <1>0, <3>1 DEF FreshIsLast, SeenFreshIsHeld, LedgerHolds
  <2>9. CASE CopyRegisters
    <3>1. /\ placed /\ placed' = FALSE /\ ledger' = Register(ledger, copying)
          /\ seenFresh' = IF seen \in Evicted(ledger) THEN 0 ELSE seenFresh
          /\ UNCHANGED <<clipboard, fresh, pc, seen>>
      BY <2>9 DEF CopyRegisters
    <3>2. copying \in OwnClips /\ copying \in Contents /\ ReadBack[copying] = copying
      BY <3>1, ContentAssumption DEF CaptureInv, CaptureTypeOK, HeldWhileUsed, ReadsBackAsWritten
    <3>3. /\ \E j \in DOMAIN ledger' : ledger'[j] = [hash |-> copying, left |-> Ttl]
          /\ \A i \in DOMAIN ledger :
               ledger[i].left > 0 /\ ledger[i].hash \notin Evicted(ledger) =>
                 \E j \in DOMAIN ledger' : ledger'[j] = ledger[i]
      BY <3>1, <3>2, <1>2, RegisterKeeps
    <3>4. \E j \in DOMAIN ledger' : ledger'[j].hash = copying /\ ledger'[j].left = Ttl
      BY <3>3
    <3>5. FreshIsLast'
      BY <3>1, <3>2, <3>4, <1>1 DEF FreshIsLast
    <3>6. SeenFreshIsHeld'
      <4> SUFFICES ASSUME pc \in {"judge", "gate"}, seenFresh' > 0
                   PROVE \E j \in DOMAIN ledger' :
                           ledger'[j].hash = seen /\ ledger'[j].left >= seenFresh'
        BY <3>1 DEF SeenFreshIsHeld, LedgerHolds
      <4>1. seen \notin Evicted(ledger) /\ seenFresh' = seenFresh /\ LedgerHolds(seen, seenFresh)
        BY <3>1, <1>1 DEF SeenFreshIsHeld
      <4>2. CASE placed /\ ReadBack[copying] = seen
        BY <4>1, <4>2, <3>2, <3>4, <1>1
      <4>3. ASSUME NEW i \in DOMAIN ledger, ledger[i].hash = seen, ledger[i].left >= seenFresh
            PROVE \E j \in DOMAIN ledger' : ledger'[j].hash = seen /\ ledger'[j].left >= seenFresh'
        BY <4>1, <4>3, <3>3, <1>1
      <4> QED
        BY <4>1, <4>2, <4>3 DEF LedgerHolds
    <3> QED
      BY <1>0, <3>5, <3>6
  <2> QED
    BY <1>5, <1>0, <2>1, <2>2, <2>3, <2>4, <2>5, <2>6, <2>7, <2>8, <2>9 DEF CaptureNext, Desktop, Copy, Worker
<1>6. CASE UNCHANGED captureVars
  BY <1>6, <1>0, <1>3, QuietKeeps DEF captureVars
<1> QED
  BY <1>5, <1>6

-----------------------------------------------------------------------------
(* The theorems *)

\* run_worker's last_hash only ever names a content whose capture or skip was
\* recorded: no failed insert, shed, lost read, panic or restart loses a copy
\* silently, whatever the gate says of it.
THEOREM NothingIsForgotten == CaptureSpec => []CaptureSafety
<1>1. CaptureInit => CaptureInv
  BY CaptureStart DEF WriteInv
<1>2. CaptureInv => CaptureSafety
  BY DEF CaptureInv, CaptureSafety
<1> QED
  BY <1>1, CaptureStep, <1>2, PTL DEF CaptureSpec

\* take_skipped_recovery: however often the user clicks and however the offer,
\* the reads and the restarts fall, one click lets at most one content through.
THEOREM RecoverOnce == CaptureSpec => OneRecoveryPerClick
<1>1. CaptureInit => CaptureInv
  BY CaptureStart DEF WriteInv
<1>2. CaptureInv /\ [CaptureNext]_captureVars => [~explicit /\ explicit' => clicks = 1]_captureVars
  <2> SUFFICES ASSUME CaptureInv, CaptureNext, ~explicit, explicit' PROVE clicks = 1
    OBVIOUS
  <2> USE DEF desktop, copier, local, sup, shared, BackToPoll, WorkerGone
  <2>1. Judge
    BY DEF CaptureNext, Desktop, Copy, Worker, AppCopies, TogglePause, LoadChanges, ClickRecover, Tick,
       CopyLocks, CopyPlaces, CopyFails, CopyRegisters, WorkerStarts, WorkerUnavailable,
       PollUnpaused, ReadOk, ReadError, GateSkips, GateLoses, GateAdmits, GateSheds, InsertOk,
       InsertErr, WorkerPanics
  <2>2. MayRecover
    BY <2>1 DEF Judge
  <2> QED
    BY <2>2 DEF MayRecover, CaptureInv, AskedIsClicked
<1> QED
  BY <1>1, CaptureStep, <1>2, PTL DEF CaptureSpec, OneRecoveryPerClick

\* SelfWriteLedger, PasteCoordinator::copy and decide: what vbuff itself put on
\* the clipboard is not captured back within the ledger's ttl, wherever the
\* write and the worker's read interleave, provided that it reads back under
\* the hash it was registered with (a starter-pack clip does not).
THEOREM SelfWritesStayOut ==
  ASSUME ReadsBackAsWritten PROVE CaptureSpec => SelfWriteNotRecaptured
<1>1. CaptureInit => WriteInv
  BY CaptureStart
<1>2. WriteInv /\ [CaptureNext]_captureVars => WriteInv'
  BY WriteStep
<1>3. WriteInv /\ [CaptureNext]_captureVars => [pc = "gate" /\ pc' = "insert" => seenFresh = 0]_captureVars
  <2> SUFFICES ASSUME WriteInv, CaptureNext, pc = "gate", pc' = "insert" PROVE seenFresh = 0
    OBVIOUS
  <2> USE DEF desktop, copier, local, sup, shared, BackToPoll, WorkerGone
  <2>1. GateAdmits
    BY DEF CaptureNext, Desktop, Copy, Worker, AppCopies, TogglePause, LoadChanges, ClickRecover, Tick,
       CopyLocks, CopyPlaces, CopyFails, CopyRegisters, WorkerStarts, WorkerUnavailable,
       PollUnpaused, ReadOk, ReadError, Judge, GateSkips, GateLoses, GateSheds, InsertOk,
       InsertErr, WorkerPanics
  <2>2. ~placed /\ ~Matches(ledger, seen)
    BY <2>1 DEF GateAdmits, LedgerFree, Gated, SelfWrite, WriteInv, CaptureInv, HeldWhileUsed
  <2>3. ledger \in Seq(Entries) /\ seenFresh \in Nat
    BY BoundAssumption DEF WriteInv, CaptureInv, CaptureTypeOK
  <2> SUFFICES ASSUME seenFresh > 0 PROVE FALSE
    BY <2>3
  <2>4. PICK i \in DOMAIN ledger : ledger[i].hash = seen /\ ledger[i].left >= seenFresh
    BY <2>2 DEF WriteInv, SeenFreshIsHeld, LedgerHolds
  <2>5. ledger[i].left > 0
    BY <2>3, <2>4, EntriesTyped DEF WriteInv
  <2>6. \E j \in DOMAIN Prune(ledger) : Prune(ledger)[j] = ledger[i]
    BY <2>3, <2>5, PruneKeeps
  <2> QED
    BY <2>2, <2>4, <2>6 DEF Matches
<1> QED
  BY <1>1, <1>2, <1>3, PTL DEF CaptureSpec, SelfWriteNotRecaptured

-----------------------------------------------------------------------------
(***************************************************************************)
(* HistorySnapshots, for every set of clips, any number of snapshots and   *)
(* any failures.  What is kept in memory only stays out of the database:   *)
(* the lane's origins are asked before a clip is stored, and they name     *)
(* whatever can still be asked about.  And what the window shows           *)
(* converges: its newest snapshot tells the truth as soon as every change  *)
(* has been announced.                                                     *)
(***************************************************************************)

(* The inductive invariant *)

\* The operations that may still number a snapshot.
Unnumbered == {"origin", "queued", "found", "pruning", "pruned"}

\* What an operation in progress is entitled to, when the lane's origins are S
\* and v is the latest version.
Sound(o, v, S) ==
    /\ o \in Op /\ o.ver <= v
    /\ o.at = "origin" => o.clip \in S
    /\ o.at \in Unnumbered /\ o.job \in {"insert", "find to clone"} =>
         o.clip \in Clips \ Secrets
    /\ o.at = "found" => o.job \in {"find", "find to clone"}
    /\ o.clips \cap Secrets \subseteq S

OpsAreSound ==
    /\ op = [t \in Threads |-> op[t]]
    /\ \A t \in Threads : Sound(op[t], version, ToSet(origins))

\* A thread waits in the queue at most once.
QueueWaits ==
    /\ queue \in Seq(Threads) /\ Distinct(queue)
    /\ \A i \in 1..Len(queue) : op[queue[i]].at = "queued"

Pending == {t \in Threads : op[t].at \in Unnumbered}
VersionsAreBounded == version \in Nat /\ version + Cardinality(Pending) <= MaxVersion + 2

\* Whatever the window or the undo slot can name is remembered as memory-only for
\* as long as it is.
SecretsAreRemembered ==
    /\ origins \in Seq(Secrets) /\ Distinct(origins) /\ Len(origins) <= MaxOrigins
    /\ volatile \in Seq(Secrets) /\ Len(volatile) <= MaxVolatile
    /\ ToSet(volatile) \subseteq ToSet(origins)
    /\ (gui \cup {slot}) \cap Secrets \subseteq ToSet(origins)

RowsAreDurable ==
    /\ rows \subseteq Clips \ Secrets /\ pinned \subseteq rows
    /\ expired \subseteq Mortal /\ gui \subseteq Clips
    /\ latest \in 0 .. version /\ owed \in 0 .. version + 1
    /\ deleted \in MaybeClip /\ slot \in MaybeClip

HistoryInv ==
    OpsAreSound /\ QueueWaits /\ VersionsAreBounded /\ SecretsAreRemembered /\ RowsAreDurable

-----------------------------------------------------------------------------
(* The origins may forget a clip once nothing in the program can name it. *)

Nameable == ToSet(volatile) \cup gui \cup {slot}
            \cup UNION {op[t].clips \cup {op[t].clip} : t \in Threads}
ForgetsUnnamed == (ToSet(origins) \ ToSet(origins')) \cap Nameable = {}

LEMMA KeepingIs ==
  ASSUME NEW C, NEW s \in Seq(C), NEW S
  PROVE /\ Keeping(s, S) \in Seq(C) /\ Listed(Keeping(s, S)) = Listed(s) \cap S
        /\ Len(Keeping(s, S)) <= Len(s)
        /\ Distinct(s) => Distinct(Keeping(s, S))
<1> DEFINE kept == Keeping(s, S)
<1>1. kept = KeepIterated(s, S)[DOMAIN s]
  BY DEF Keeping, FoldLeft, MapThenFoldSet, KeepIterated
<1> HIDE DEF kept
<1>2. /\ kept \in Seq(C) /\ Listed(kept) = Listed(s) \cap S /\ Len(kept) <= Len(s)
      /\ Distinct(s) => Distinct(kept)
  BY ONLY s \in Seq(C), <1>1, KeepIs
<1> QED
  BY ONLY <1>2 DEF kept

LEMMA BegunIsOp ==
  ASSUME NEW at \in {"idle", "origin", "queued", "pruning"}, NEW job \in Jobs,
         NEW clip \in MaybeClip, NEW original \in MaybeClip, NEW lane \in BOOLEAN
  PROVE Begun(at, job, clip, original, lane) \in Op
BY ConstantsAssumption DEF Begun, Op, MaybeClip

\* What an operation must be entitled to when it is begun.
MayBegin(at, job, clip, S) ==
    /\ at \in {"idle", "origin", "queued", "pruning"}
    /\ at = "origin" => clip \in S
    /\ at \in Unnumbered /\ job \in {"insert", "find to clone"} => clip \in Clips \ Secrets

LEMMA BegunIsSound ==
  ASSUME NEW at, NEW job \in Jobs, NEW clip \in MaybeClip, NEW original \in MaybeClip,
         NEW lane \in BOOLEAN, NEW v \in Nat, NEW S, MayBegin(at, job, clip, S)
  PROVE LET r == Begun(at, job, clip, original, lane) IN Sound(r, v, S) /\ r.at = at
<1> DEFINE r == Begun(at, job, clip, original, lane)
<1>1. /\ r.at = at /\ r.job = job /\ r.clip = clip /\ r.clips = {} /\ r.ver = 0
  BY DEF Begun
<1>2. r \in Op
  BY BegunIsOp DEF MayBegin
<1> HIDE DEF r
<1>3. r.ver <= v /\ r.clips \cap Secrets \subseteq S
  BY ONLY <1>1, v \in Nat
<1>4. /\ r.at = "origin" => r.clip \in S
      /\ r.at \in Unnumbered /\ r.job \in {"insert", "find to clone"} =>
           r.clip \in Clips \ Secrets
      /\ r.at = "found" => r.job \in {"find", "find to clone"}
  BY <1>1 DEF MayBegin
<1>5. Sound(r, v, S)
  BY ONLY Zenon, <1>2, <1>3, <1>4 DEF Sound
<1> QED
  BY <1>1, <1>5 DEF r

LEMMA QueuedIsSound ==
  ASSUME NEW job \in Jobs, NEW clip \in MaybeClip, NEW original \in MaybeClip,
         NEW lane \in BOOLEAN, NEW v \in Nat, NEW S,
         job \in {"insert", "find to clone"} => clip \in Clips \ Secrets
  PROVE LET r == Begun("queued", job, clip, original, lane) IN Sound(r, v, S) /\ r.at = "queued"
<1>1. MayBegin("queued", job, clip, S)
  BY DEF MayBegin
<1> QED
  BY ONLY <1>1, BegunIsSound, job \in Jobs, clip \in MaybeClip, original \in MaybeClip,
     lane \in BOOLEAN, v \in Nat

LEMMA IdleIsSound == ASSUME NEW v \in Nat, NEW S PROVE Sound(Idle, v, S) /\ Idle.at = "idle"
<1>1. "refresh" \in Jobs /\ NoClip \in MaybeClip /\ FALSE \in BOOLEAN
  BY DEF Jobs, MaybeClip
<1>2. MayBegin("idle", "refresh", NoClip, S)
  BY DEF MayBegin
<1> DEFINE r == Begun("idle", "refresh", NoClip, NoClip, FALSE)
<1>3. Sound(r, v, S) /\ r.at = "idle"
  BY ONLY <1>1, <1>2, BegunIsSound, v \in Nat
<1> QED
  BY <1>3 DEF Idle

\* What holds of an operation stays true while the versions grow and what it names is
\* remembered.
LEMMA SoundStays ==
  ASSUME NEW o, NEW v \in Nat, NEW w \in Nat, NEW S, NEW T, Sound(o, v, S), v <= w,
         (S \ T) \cap (o.clips \cup {o.clip}) = {}
  PROVE Sound(o, w, T)
<1>1. o \in Op
  BY DEF Sound
<1>2. o.ver \in Nat
  BY <1>1, ConstantsAssumption DEF Op
<1>3. o.ver <= v
  BY ONLY Zenon, Sound(o, v, S) DEF Sound
<1>4. o.ver <= w
  BY ONLY <1>2, <1>3, v \in Nat, w \in Nat, v <= w
<1> QED
  BY <1>1, <1>4 DEF Sound

-----------------------------------------------------------------------------
(* One thread moves on. *)

LEMMA OpsMove ==
  ASSUME OpsAreSound, NEW t \in Threads, NEW r, op' = [op EXCEPT ![t] = r],
         version \in Nat, version' \in Nat, version <= version',
         Sound(r, version', ToSet(origins')), ForgetsUnnamed
  PROVE /\ OpsAreSound' /\ op'[t] = r
        /\ \A u \in Threads : u # t => op'[u] = op[u]
<1>1. op' = [u \in Threads |-> op'[u]] /\ op'[t] = r /\ \A u \in Threads : u # t => op'[u] = op[u]
  BY DEF OpsAreSound
<1>2. ASSUME NEW u \in Threads, u # t PROVE Sound(op[u], version', ToSet(origins'))
  <2> DEFINE S == ToSet(origins)
             T == ToSet(origins')
             o == op[u]
  <2>1. Sound(o, version, S)
    BY DEF OpsAreSound
  <2>2. (S \ T) \cap (o.clips \cup {o.clip}) = {}
    BY DEF ForgetsUnnamed, Nameable
  <2> HIDE DEF S, T, o
  <2>3. Sound(o, version', T)
    BY ONLY <2>1, <2>2, SoundStays, version \in Nat, version' \in Nat, version <= version'
  <2> QED
    BY <2>3 DEF o, T
<1> QED
  BY <1>1, <1>2 DEF OpsAreSound

\* The thread is not in the queue, joins it, or is the one that leaves it.
LEMMA QueueMoves ==
  ASSUME QueueWaits, NEW t \in Threads,
         \A u \in Threads : u # t => op'[u] = op[u],
         \/ queue' = queue /\ op[t].at # "queued"
         \/ queue' = Append(queue, t) /\ op[t].at # "queued" /\ op'[t].at = "queued"
         \/ queue # <<>> /\ t = Head(queue) /\ queue' = Tail(queue)
  PROVE QueueWaits'
<1>0. /\ Len(queue) \in Nat /\ \A i \in 1..Len(queue) : queue[i] \in Threads
      /\ Listed(queue) \subseteq Threads
  BY DEF QueueWaits, Listed
<1>1. op[t].at # "queued" => t \notin Listed(queue)
  BY DEF QueueWaits, Listed
<1>2. CASE queue' = queue /\ op[t].at # "queued"
  <2>1. \A i \in 1..Len(queue) : queue[i] # t
    BY <1>1, <1>2 DEF Listed
  <2> QED
    BY <1>0, <1>2, <2>1 DEF QueueWaits, Distinct
<1>3. CASE queue' = Append(queue, t) /\ op[t].at # "queued" /\ op'[t].at = "queued"
  <2> DEFINE q == queue'
  <2>1. q \in Seq(Threads) /\ Listed(q) = Listed(queue) \cup {t} /\ Distinct(q)
    BY <1>1, <1>3, AppendLists DEF QueueWaits
  <2>2. \A u \in Listed(queue) : op[u].at = "queued" /\ u # t
    BY <1>1, <1>3 DEF QueueWaits, Listed
  <2>3. \A u \in Listed(q) : op'[u].at = "queued"
    BY <1>0, <1>3, <2>1, <2>2
  <2>4. \A i \in 1..Len(q) : q[i] \in Listed(q)
    BY DEF Listed
  <2> QED
    BY <2>1, <2>3, <2>4 DEF QueueWaits, Distinct
<1>4. CASE queue # <<>> /\ t = Head(queue) /\ queue' = Tail(queue)
  <2> DEFINE q == queue'
  <2>1. q \in Seq(Threads) /\ Listed(q) \subseteq Listed(queue) /\ Distinct(q) /\ t \notin Listed(q)
    BY <1>4, TailLists DEF QueueWaits
  <2>2. \A u \in Listed(queue) : op[u].at = "queued"
    BY DEF QueueWaits, Listed
  <2>3. \A u \in Listed(q) : op'[u].at = "queued"
    BY <1>0, <2>1, <2>2
  <2>4. \A i \in 1..Len(q) : q[i] \in Listed(q)
    BY DEF Listed
  <2> QED
    BY <2>1, <2>3, <2>4 DEF QueueWaits, Distinct
<1> QED
  BY <1>2, <1>3, <1>4

LEMMA ThreadCount == IsFiniteSet(Threads) /\ Cardinality(Threads) <= 3
<1>1. IsFiniteSet({Capture, UI}) /\ Cardinality({Capture, UI}) <= 2
  <2>1. IsFiniteSet({Capture}) /\ Cardinality({Capture}) = 1
    BY FS_Singleton
  <2>2. {Capture, UI} = {Capture} \cup {UI}
    OBVIOUS
  <2>3. /\ IsFiniteSet({Capture} \cup {UI})
        /\ Cardinality({Capture} \cup {UI}) =
             IF UI \in {Capture} THEN Cardinality({Capture}) ELSE Cardinality({Capture}) + 1
    BY ONLY <2>1, FS_AddElement
  <2> QED
    BY <2>1, <2>2, <2>3
<1>2. Threads = {Capture, UI} \cup {Maintenance}
  BY ConstantsAssumption
<1> DEFINE P == {Capture, UI}
<1> HIDE DEF P
<1>3. /\ IsFiniteSet(P \cup {Maintenance})
      /\ Cardinality(P \cup {Maintenance}) =
           IF Maintenance \in P THEN Cardinality(P) ELSE Cardinality(P) + 1
  <2>1. IsFiniteSet(P)
    BY <1>1 DEF P
  <2> QED
    BY ONLY <2>1, FS_AddElement
<1>4. Cardinality(P) \in Nat
  BY <1>1, FS_CardinalityType DEF P
<1> QED
  BY <1>1, <1>2, <1>3, <1>4 DEF P

\* A version is given once for each operation that was begun below the bound.
LEMMA VersionsMove ==
  ASSUME VersionsAreBounded, NEW t \in Threads,
         \A u \in Threads : u # t => op'[u] = op[u],
         \/ version' = version /\ \/ version < MaxVersion
                                  \/ op[t].at \in Unnumbered
                                  \/ op'[t].at \notin Unnumbered
         \/ /\ version' \in {version, version + 1}
            /\ op[t].at \in Unnumbered /\ op'[t].at \notin Unnumbered
  PROVE VersionsAreBounded'
<1> DEFINE P == Pending
           Q == Pending'
<1>0. /\ P \subseteq Threads /\ Q \subseteq Threads /\ MaxVersion \in Nat /\ version \in Nat
      /\ version + Cardinality(P) <= MaxVersion + 2
  BY ConstantsAssumption DEF Pending, VersionsAreBounded
<1>1. /\ IsFiniteSet(P) /\ IsFiniteSet(Q) /\ Cardinality(P) \in Nat /\ Cardinality(Q) \in Nat
      /\ Cardinality(Q) <= 3
  <2>1. ASSUME NEW S \in SUBSET Threads
        PROVE IsFiniteSet(S) /\ Cardinality(S) \in Nat /\ Cardinality(S) <= 3
    <3>1. IsFiniteSet(S) /\ Cardinality(S) <= Cardinality(Threads)
      BY ThreadCount, FS_Subset
    <3>2. Cardinality(S) \in Nat /\ Cardinality(Threads) \in Nat
      BY <3>1, ThreadCount, FS_CardinalityType
    <3> QED
      BY <3>1, <3>2, ThreadCount
  <2> HIDE DEF P, Q
  <2> QED
    BY <1>0, <2>1
<1>2. CASE version' = version /\ version < MaxVersion
  <2> HIDE DEF P, Q
  <2>1. version' + Cardinality(Q) <= MaxVersion + 2
    BY ONLY <1>0, <1>1, <1>2
  <2> QED
    BY <1>0, <1>2, <2>1 DEF VersionsAreBounded, Q
<1>3. CASE version' = version /\ (op[t].at \in Unnumbered \/ op'[t].at \notin Unnumbered)
  <2>1. Q \subseteq P
    BY <1>3 DEF Pending
  <2> HIDE DEF P, Q
  <2>2. Cardinality(Q) <= Cardinality(P)
    BY ONLY <1>1, <2>1, FS_Subset
  <2>3. version' + Cardinality(Q) <= MaxVersion + 2
    BY ONLY <1>0, <1>1, <1>3, <2>2
  <2> QED
    BY <1>0, <1>3, <2>3 DEF VersionsAreBounded, Q
<1>4. CASE /\ version' \in {version, version + 1}
           /\ op[t].at \in Unnumbered /\ op'[t].at \notin Unnumbered
  <2>1. t \in P /\ Q = P \ {t}
    BY <1>4 DEF Pending
  <2> HIDE DEF P, Q
  <2>2. Cardinality(P \ {t}) = Cardinality(P) - 1
    BY ONLY <1>1, <2>1, FS_RemoveElement
  <2>3. version' + Cardinality(Q) <= MaxVersion + 2 /\ version' \in Nat
    BY ONLY <1>0, <1>1, <1>4, <2>1, <2>2
  <2> QED
    BY <2>3 DEF VersionsAreBounded, Q
<1> QED
  BY <1>2, <1>3, <1>4

LEMMA Moves ==
  ASSUME HistoryInv, NEW t \in Threads, NEW r, op' = [op EXCEPT ![t] = r],
         Sound(r, version', ToSet(origins')), ForgetsUnnamed,
         \/ queue' = queue /\ op[t].at # "queued"
         \/ queue' = Append(queue, t) /\ op[t].at # "queued" /\ r.at = "queued"
         \/ queue # <<>> /\ t = Head(queue) /\ queue' = Tail(queue),
         \/ version' = version /\ \/ version < MaxVersion
                                  \/ op[t].at \in Unnumbered
                                  \/ r.at \notin Unnumbered
         \/ /\ version' \in {version, version + 1}
            /\ op[t].at \in Unnumbered /\ r.at \notin Unnumbered
  PROVE OpsAreSound' /\ QueueWaits' /\ VersionsAreBounded'
<1>0. OpsAreSound /\ QueueWaits /\ VersionsAreBounded /\ version \in Nat
  BY DEF HistoryInv, VersionsAreBounded
<1>1. version' \in Nat /\ version <= version'
  BY <1>0
<1>2. OpsAreSound' /\ op'[t] = r /\ \A u \in Threads : u # t => op'[u] = op[u]
  BY ONLY <1>0, <1>1, OpsMove, t \in Threads, op' = [op EXCEPT ![t] = r], ForgetsUnnamed,
     Sound(r, version', ToSet(origins'))
<1>3. QueueWaits'
  BY <1>0, <1>2, QueueMoves
<1>4. VersionsAreBounded'
  BY <1>0, <1>2, VersionsMove
<1> QED
  BY <1>2, <1>3, <1>4

LEMMA OriginsRest == ASSUME UNCHANGED origins PROVE ForgetsUnnamed
BY DEF ForgetsUnnamed

\* A thread hands a job to the owner, and the origins rest.
LEMMA QueuedMoves ==
  ASSUME HistoryInv, NEW t \in Threads, NEW job \in Jobs, NEW clip \in MaybeClip,
         NEW lane \in BOOLEAN, Queued(t, job, clip, lane), UNCHANGED <<origins, version>>,
         job \in {"insert", "find to clone"} => clip \in Clips \ Secrets,
         op[t].at # "queued", version < MaxVersion \/ op[t].at \in Unnumbered
  PROVE OpsAreSound' /\ QueueWaits' /\ VersionsAreBounded'
<1> DEFINE r == Begun("queued", job, clip, NoClip, lane)
<1>1. /\ queue' = Append(queue, t) /\ op' = [op EXCEPT ![t] = r]
      /\ version' = version /\ version \in Nat /\ ForgetsUnnamed
  BY OriginsRest DEF Queued, HistoryInv, VersionsAreBounded
<1>2. Sound(r, version', ToSet(origins')) /\ r.at = "queued"
  <2>1. NoClip \in MaybeClip
    BY DEF MaybeClip
  <2> QED
    BY <1>1, <2>1, QueuedIsSound
<1> HIDE DEF r
<1> QED
  BY ONLY HistoryInv, <1>1, <1>2, Moves, t \in Threads, op[t].at # "queued",
     version < MaxVersion \/ op[t].at \in Unnumbered

LEMMA LanesRest ==
  ASSUME SecretsAreRemembered, UNCHANGED lanes,
         (gui' \cup {slot'}) \cap Secrets \subseteq ToSet(origins)
  PROVE SecretsAreRemembered'
BY DEF SecretsAreRemembered, lanes

\* The lane, the window and the undo slot name no more than before.
LEMMA LanesShrink ==
  ASSUME SecretsAreRemembered, UNCHANGED origins, NEW S, volatile' = Keeping(volatile, S),
         (gui' \cup {slot'}) \cap Secrets \subseteq ToSet(origins)
  PROVE SecretsAreRemembered'
<1>1. volatile' \in Seq(Secrets) /\ Listed(volatile') \subseteq Listed(volatile) /\ Len(volatile') <= Len(volatile)
  BY KeepingIs DEF SecretsAreRemembered
<1>2. ToSet(volatile') = Listed(volatile') /\ ToSet(volatile) = Listed(volatile)
  BY <1>1, ToSetLists DEF SecretsAreRemembered
<1>3. Len(volatile') <= MaxVolatile
  <2>1. Len(volatile') \in Nat /\ Len(volatile) \in Nat /\ Len(volatile) <= MaxVolatile /\ MaxVolatile \in Nat
    BY <1>1, ConstantsAssumption DEF SecretsAreRemembered
  <2> QED
    BY <1>1, <2>1
<1> QED
  BY <1>1, <1>2, <1>3 DEF SecretsAreRemembered

LEMMA RowsRest ==
  ASSUME RowsAreDurable, UNCHANGED <<rows, pinned, expired, latest, owed, deleted>>, version \in Nat,
         version' = version, gui' \subseteq Clips, slot' \in MaybeClip
  PROVE RowsAreDurable'
BY DEF RowsAreDurable

LEMMA NoClipIsNoSecret == NoClip \notin Secrets /\ Secrets \subseteq Clips /\ Clips \subseteq MaybeClip
BY ConstantsAssumption DEF MaybeClip

\* insert_volatile's first lock: the newest origin is remembered, the oldest may go.
LEMMA OriginsGrow ==
  ASSUME HistoryInv, NEW t \in Threads, NEW c \in Secrets, AddOrigin(t, c)
  PROVE /\ origins' \in Seq(Secrets) /\ Distinct(origins') /\ c \in ToSet(origins')
        /\ Len(origins') <= MaxOrigins
        /\ ToSet(origins') \subseteq ToSet(origins) \cup {c}
        /\ \/ ToSet(origins) \subseteq ToSet(origins')
           \/ IsFiniteSet(Secrets) => Cardinality(Secrets) > MaxOrigins
<1> DEFINE others == Keeping(origins, Clips \ {c})
           kept == Append(others, c)
<1>1. origins \in Seq(Secrets) /\ Distinct(origins) /\ Len(origins) <= MaxOrigins
  BY DEF HistoryInv, SecretsAreRemembered
<1>2. /\ others \in Seq(Secrets) /\ Listed(others) = Listed(origins) \cap (Clips \ {c})
      /\ Distinct(others) /\ Len(others) <= Len(origins)
  BY <1>1, KeepingIs
<1>3. origins' = IF Len(kept) > MaxOrigins THEN Tail(kept) ELSE kept
  BY DEF AddOrigin
<1> HIDE DEF others
<1>4. c \notin Listed(others) /\ Listed(origins) \subseteq Clips
  BY <1>1, <1>2, ToSetLists, NoClipIsNoSecret
<1>5. /\ kept \in Seq(Secrets) /\ Listed(kept) = Listed(others) \cup {c} /\ Distinct(kept)
  BY ONLY <1>2, <1>4, AppendLists, c \in Secrets
<1>6. Listed(kept) = Listed(origins) \cup {c}
  BY <1>2, <1>4, <1>5
<1>7. Len(kept) \in Nat \ {0} /\ kept[Len(kept)] = c /\ Len(kept) <= MaxOrigins + 1
  <2>1. Len(kept) \in Nat \ {0} /\ kept[Len(kept)] = c /\ Len(kept) = Len(others) + 1
    BY <1>2
  <2>2. Len(others) \in Nat /\ Len(origins) \in Nat /\ MaxOrigins \in Nat
    BY <1>1, <1>2, ConstantsAssumption
  <2> QED
    BY ONLY <1>1, <1>2, <2>1, <2>2
<1> HIDE DEF kept
<1>8. ToSet(origins) = Listed(origins) /\ ToSet(kept) = Listed(kept)
  BY <1>1, <1>5, ToSetLists
<1>9. CASE ~(Len(kept) > MaxOrigins)
  BY <1>3, <1>5, <1>6, <1>7, <1>8, <1>9, ConstantsAssumption
<1>10. CASE Len(kept) > MaxOrigins
  <2>1. kept # <<>> /\ Len(kept) >= 2
    BY <1>7, <1>10, ConstantsAssumption
  <2> DEFINE rest == Tail(kept)
  <2>2. /\ rest \in Seq(Secrets) /\ Len(rest) = Len(kept) - 1 /\ Listed(rest) \subseteq Listed(kept)
        /\ \A i \in 1..Len(kept) - 1 : rest[i] = kept[i + 1]
        /\ Distinct(rest)
    BY <1>5, <2>1, TailLists
  <2> HIDE DEF rest
  <2>3. c \in Listed(rest)
    <3>1. Len(kept) - 1 \in 1..Len(kept) - 1 /\ Len(kept) - 1 + 1 = Len(kept)
      BY <1>7, <2>1
    <3>2. rest[Len(kept) - 1] = c
      BY <1>7, <2>2, <3>1
    <3>3. Len(kept) - 1 \in 1..Len(rest)
      BY ONLY <2>2, <3>1
    <3> QED
      BY <3>2, <3>3 DEF Listed
  <2>4. ToSet(rest) = Listed(rest)
    BY <2>2, ToSetLists
  <2>5. IsFiniteSet(Secrets) => Cardinality(Secrets) > MaxOrigins
    <3> SUFFICES ASSUME IsFiniteSet(Secrets) PROVE Cardinality(Secrets) > MaxOrigins
      OBVIOUS
    <3>1. Cardinality(Listed(kept)) = Len(kept)
      BY <1>5, ListLength
    <3>2. Listed(kept) \subseteq Secrets
      BY <1>5, ToSetLists
    <3>3. Cardinality(Listed(kept)) <= Cardinality(Secrets)
      BY <3>2, FS_Subset
    <3>4. Cardinality(Secrets) \in Nat /\ MaxOrigins \in Nat
      BY FS_CardinalityType, ConstantsAssumption
    <3> QED
      BY <1>7, <1>10, <3>1, <3>3, <3>4
  <2>6. origins' = rest /\ Len(rest) <= MaxOrigins
    BY <1>3, <1>7, <1>10, <2>2, ConstantsAssumption DEF rest
  <2> QED
    BY <1>6, <1>8, <2>2, <2>3, <2>4, <2>5, <2>6
<1> QED
  BY <1>9, <1>10

LEMMA OriginStep ==
  ASSUME HistoryInv, NEW t \in Threads, NEW c \in Secrets, AddOrigin(t, c), ForgetsUnnamed,
         UNCHANGED <<rows, pinned, volatile, expired, version, queue, gui, latest, owed>>,
         slot' \in {slot, NoClip}, deleted' \in {deleted, NoClip}
  PROVE HistoryInv'
<1> DEFINE r == Begun("origin", "refresh", c, NoClip, FALSE)
<1>1. /\ IsIdle(t) /\ version < MaxVersion /\ op' = [op EXCEPT ![t] = r]
      /\ version' = version /\ version \in Nat
  BY DEF AddOrigin, MayStart, HistoryInv, VersionsAreBounded
<1>2. /\ origins' \in Seq(Secrets) /\ Distinct(origins') /\ c \in ToSet(origins')
      /\ Len(origins') <= MaxOrigins
  BY OriginsGrow
<1>3. Sound(r, version', ToSet(origins'))
  <2>1. /\ NoClip \in MaybeClip /\ c \in MaybeClip /\ "refresh" \in Jobs /\ FALSE \in BOOLEAN
        /\ MayBegin("origin", "refresh", c, ToSet(origins'))
    BY <1>2, NoClipIsNoSecret DEF MaybeClip, Jobs, MayBegin
  <2> QED
    BY <1>1, <1>2, <2>1, BegunIsSound
<1> HIDE DEF r
<1>4. op[t].at # "queued"
  BY <1>1 DEF IsIdle
<1>5. OpsAreSound' /\ QueueWaits' /\ VersionsAreBounded'
  <2>1. queue' = queue
    OBVIOUS
  <2> QED
    BY ONLY HistoryInv, <1>1, <1>3, <1>4, <2>1, Moves, t \in Threads, ForgetsUnnamed
<1>6. SecretsAreRemembered'
  <2>1. \A x \in ToSet(volatile) \cup gui \cup {slot} : x \in ToSet(origins) => x \in ToSet(origins')
    BY DEF ForgetsUnnamed, Nameable
  <2>2. /\ ToSet(volatile) \subseteq ToSet(origins) /\ (gui \cup {slot}) \cap Secrets \subseteq ToSet(origins)
        /\ volatile \in Seq(Secrets) /\ Len(volatile) <= MaxVolatile
    BY DEF HistoryInv, SecretsAreRemembered
  <2> QED
    BY <1>2, <2>1, <2>2, NoClipIsNoSecret DEF SecretsAreRemembered
<1>7. RowsAreDurable'
  BY <1>1 DEF HistoryInv, RowsAreDurable, MaybeClip
<1> QED
  BY <1>5, <1>6, <1>7 DEF HistoryInv

\* Handing a job to the owner.
LEMMA QueueStep ==
  ASSUME HistoryInv, NEW t \in Threads, NEW job \in Jobs, NEW clip \in MaybeClip,
         NEW lane \in BOOLEAN, Queued(t, job, clip, lane),
         UNCHANGED <<rows, pinned, origins, expired, version, gui, latest, owed>>,
         job \in {"insert", "find to clone"} => clip \in Clips \ Secrets,
         op[t].at # "queued", version < MaxVersion \/ op[t].at \in Unnumbered,
         SecretsAreRemembered', slot' \in MaybeClip, deleted' \in MaybeClip
  PROVE HistoryInv'
<1>1. OpsAreSound' /\ QueueWaits' /\ VersionsAreBounded'
  <2>1. UNCHANGED <<origins, version>>
    OBVIOUS
  <2> QED
    BY ONLY HistoryInv, <2>1, QueuedMoves, t \in Threads, job \in Jobs, clip \in MaybeClip,
       lane \in BOOLEAN, Queued(t, job, clip, lane),
       job \in {"insert", "find to clone"} => clip \in Clips \ Secrets,
       op[t].at # "queued", version < MaxVersion \/ op[t].at \in Unnumbered
<1>2. RowsAreDurable'
  BY DEF HistoryInv, RowsAreDurable
<1> QED
  BY <1>1, <1>2 DEF HistoryInv

LEMMA Names ==
  /\ {Capture, UI, Maintenance} \subseteq Threads /\ NoClip \in MaybeClip
  /\ {"refresh", "insert", "delete", "clear", "pin", "unpin", "find", "find to clone", "trim",
      "maintain"} \subseteq Jobs
  /\ \A t \in Threads : IsIdle(t) => op[t].at # "queued"
BY ConstantsAssumption DEF MaybeClip, Jobs, IsIdle

LEMMA KnownIsRemembered ==
  ASSUME HistoryInv
  PROVE /\ SecretsAreRemembered /\ gui \subseteq Clips /\ slot \in MaybeClip /\ deleted \in MaybeClip
        /\ (gui \cup {slot}) \cap Secrets \subseteq ToSet(origins) /\ ToSet(origins) \subseteq Secrets
        /\ ToSet(volatile) \subseteq Secrets /\ version \in Nat
        /\ ToSet(volatile) \subseteq ToSet(origins) /\ OpsAreSound
BY ToSetLists DEF HistoryInv, SecretsAreRemembered, RowsAreDurable, VersionsAreBounded

LEMMA CaptureDurableStep == ASSUME HistoryInv, CaptureDurable PROVE HistoryInv'
<1>1. PICK c \in NewClips \ Secrets : Insert(Capture, c)
  BY DEF CaptureDurable
<1>2. /\ c \in Clips \ Secrets /\ c \in MaybeClip /\ Capture \in Threads /\ "insert" \in Jobs
      /\ FALSE \in BOOLEAN /\ Queued(Capture, "insert", c, FALSE) /\ version < MaxVersion
      /\ op[Capture].at # "queued"
  BY <1>1, Names DEF NewClips, Insert, MayStart, MaybeClip
<1>3. /\ UNCHANGED <<rows, pinned, origins, expired, version, gui, latest, owed>>
      /\ UNCHANGED <<lanes, slot, deleted, gui>>
  BY DEF CaptureDurable, store, lanes, undo, shown
<1>4. SecretsAreRemembered' /\ slot' \in MaybeClip /\ deleted' \in MaybeClip
  BY <1>3, KnownIsRemembered, LanesRest
<1> QED
  BY ONLY HistoryInv, <1>2, <1>3, <1>4, QueueStep

LEMMA CaptureSecretStep == ASSUME HistoryInv, CaptureSecret, ForgetsUnnamed PROVE HistoryInv'
<1>1. PICK c \in NewClips \cap Secrets : AddOrigin(Capture, c)
  BY DEF CaptureSecret
<1>2. /\ c \in Secrets /\ Capture \in Threads
      /\ UNCHANGED <<rows, pinned, volatile, expired, version, queue, gui, latest, owed>>
      /\ slot' \in {slot, NoClip} /\ deleted' \in {deleted, NoClip}
  BY Names DEF CaptureSecret, store, undo, shown
<1> QED
  BY ONLY HistoryInv, <1>1, <1>2, OriginStep, ForgetsUnnamed

LEMMA DeleteVolatileStep ==
  ASSUME HistoryInv, NEW c \in gui, DeleteVolatile(c) PROVE HistoryInv'
<1>1. /\ UI \in Threads /\ "refresh" \in Jobs /\ NoClip \in MaybeClip /\ TRUE \in BOOLEAN
      /\ Queued(UI, "refresh", NoClip, TRUE) /\ version < MaxVersion /\ op[UI].at # "queued"
      /\ "refresh" \notin {"insert", "find to clone"}
  BY Names DEF DeleteVolatile, MayStart
<1>2. UNCHANGED <<rows, pinned, origins, expired, version, gui, latest, owed>>
  BY DEF DeleteVolatile, store, shown
<1>3. /\ SecretsAreRemembered /\ UNCHANGED origins /\ volatile' = Keeping(volatile, Clips \ {c})
      /\ (gui' \cup {slot'}) \cap Secrets \subseteq ToSet(origins)
  BY <1>2, KnownIsRemembered DEF DeleteVolatile
<1>4. SecretsAreRemembered'
  BY ONLY <1>3, LanesShrink
<1>5. slot' \in MaybeClip /\ deleted' \in MaybeClip
  BY KnownIsRemembered DEF DeleteVolatile, MaybeClip
<1> QED
  BY ONLY HistoryInv, <1>1, <1>2, <1>4, <1>5, QueueStep

LEMMA FindToDeleteStep ==
  ASSUME HistoryInv, NEW c \in gui, FindToDelete(c) PROVE HistoryInv'
<1>1. /\ UI \in Threads /\ "find" \in Jobs /\ c \in MaybeClip /\ FALSE \in BOOLEAN
      /\ Queued(UI, "find", c, FALSE) /\ version < MaxVersion /\ op[UI].at # "queued"
      /\ "find" \notin {"insert", "find to clone"}
  BY Names, KnownIsRemembered DEF FindToDelete, MayStart, MaybeClip
<1>2. UNCHANGED <<rows, pinned, origins, expired, version, gui, latest, owed>>
  BY DEF FindToDelete, store, lanes, shown
<1>3. /\ SecretsAreRemembered /\ UNCHANGED lanes
      /\ (gui' \cup {slot'}) \cap Secrets \subseteq ToSet(origins)
  BY <1>2, KnownIsRemembered DEF FindToDelete
<1>4. SecretsAreRemembered'
  BY ONLY <1>3, LanesRest
<1>5. slot' \in MaybeClip /\ deleted' \in MaybeClip
  BY KnownIsRemembered DEF FindToDelete, MaybeClip
<1> QED
  BY ONLY HistoryInv, <1>1, <1>2, <1>4, <1>5, QueueStep

LEMMA ClearStep == ASSUME HistoryInv, Clear PROVE HistoryInv'
<1>1. /\ UI \in Threads /\ "clear" \in Jobs /\ NoClip \in MaybeClip /\ TRUE \in BOOLEAN
      /\ Queued(UI, "clear", NoClip, TRUE) /\ version < MaxVersion /\ op[UI].at # "queued"
      /\ "clear" \notin {"insert", "find to clone"}
  BY Names DEF Clear, MayStart
<1>2. UNCHANGED <<rows, pinned, origins, expired, version, gui, latest, owed>>
  BY DEF Clear, store, shown
<1>3. SecretsAreRemembered'
  <2>1. volatile' = <<>> /\ <<>> \in Seq(Secrets) /\ Len(<<>>) = 0 /\ ToSet(<<>>) = {}
    BY DEF Clear, ToSet
  <2> QED
    BY <1>2, <2>1, KnownIsRemembered, ConstantsAssumption DEF SecretsAreRemembered, Clear
<1>4. slot' \in MaybeClip /\ deleted' \in MaybeClip
  BY KnownIsRemembered, Names DEF Clear
<1> QED
  BY ONLY HistoryInv, <1>1, <1>2, <1>3, <1>4, QueueStep

LEMMA SetPinnedStep == ASSUME HistoryInv, SetPinned PROVE HistoryInv'
<1>1. PICK c \in gui, job \in {"pin", "unpin"} : MayStart(UI) /\ Queued(UI, job, c, FALSE)
  BY DEF SetPinned
<1>2. /\ UI \in Threads /\ job \in Jobs /\ c \in MaybeClip /\ FALSE \in BOOLEAN
      /\ Queued(UI, job, c, FALSE) /\ version < MaxVersion /\ op[UI].at # "queued"
      /\ job \notin {"insert", "find to clone"}
  BY <1>1, Names, KnownIsRemembered DEF MayStart, MaybeClip
<1>3. /\ UNCHANGED <<rows, pinned, origins, expired, version, gui, latest, owed>>
      /\ UNCHANGED <<lanes, slot, deleted, gui>>
  BY DEF SetPinned, store, lanes, undo, shown
<1>4. SecretsAreRemembered' /\ slot' \in MaybeClip /\ deleted' \in MaybeClip
  BY <1>3, KnownIsRemembered, LanesRest
<1> QED
  BY ONLY HistoryInv, <1>2, <1>3, <1>4, QueueStep

LEMMA RefreshForMemoryStep == ASSUME HistoryInv, RefreshForMemory PROVE HistoryInv'
<1>1. /\ Maintenance \in Threads /\ "trim" \in Jobs /\ NoClip \in MaybeClip /\ FALSE \in BOOLEAN
      /\ Queued(Maintenance, "trim", NoClip, FALSE) /\ version < MaxVersion
      /\ op[Maintenance].at # "queued" /\ "trim" \notin {"insert", "find to clone"}
  BY Names DEF RefreshForMemory, MayStart
<1>2. /\ UNCHANGED <<rows, pinned, origins, expired, version, gui, latest, owed>>
      /\ UNCHANGED <<lanes, slot, deleted, gui>>
  BY DEF RefreshForMemory, store, lanes, undo, shown
<1>3. SecretsAreRemembered' /\ slot' \in MaybeClip /\ deleted' \in MaybeClip
  BY <1>2, KnownIsRemembered, LanesRest
<1> QED
  BY ONLY HistoryInv, <1>1, <1>2, <1>3, QueueStep

LEMMA RestoreSecretStep == ASSUME HistoryInv, RestoreSecret, ForgetsUnnamed PROVE HistoryInv'
<1>1. /\ slot \in Secrets /\ UI \in Threads /\ AddOrigin(UI, slot)
      /\ UNCHANGED <<rows, pinned, volatile, expired, version, queue, gui, latest, owed>>
      /\ slot' \in {slot, NoClip} /\ deleted' \in {deleted, NoClip}
  BY Names, KnownIsRemembered DEF RestoreSecret, IsMemoryOnly, store, shown
<1> QED
  BY ONLY HistoryInv, <1>1, OriginStep, ForgetsUnnamed

LEMMA RestoreDurableStep == ASSUME HistoryInv, RestoreDurable PROVE HistoryInv'
<1>1. /\ UI \in Threads /\ "insert" \in Jobs /\ slot \in MaybeClip /\ FALSE \in BOOLEAN
      /\ Queued(UI, "insert", slot, FALSE) /\ version < MaxVersion /\ op[UI].at # "queued"
      /\ slot \in Clips \ Secrets
  BY Names, KnownIsRemembered DEF RestoreDurable, Insert, MayStart, IsMemoryOnly, MaybeClip
<1>2. UNCHANGED <<rows, pinned, origins, expired, version, gui, latest, owed>>
  BY DEF RestoreDurable, store, lanes, shown
<1>3. /\ SecretsAreRemembered /\ UNCHANGED lanes
      /\ (gui' \cup {slot'}) \cap Secrets \subseteq ToSet(origins)
  BY <1>2, KnownIsRemembered, NoClipIsNoSecret DEF RestoreDurable
<1>4. SecretsAreRemembered'
  BY ONLY <1>3, LanesRest
<1>5. slot' \in MaybeClip /\ deleted' \in MaybeClip
  BY KnownIsRemembered, Names DEF RestoreDurable
<1> QED
  BY ONLY HistoryInv, <1>1, <1>2, <1>4, <1>5, QueueStep

\* A clip of the lane is memory-only, so its clone is.
LEMMA CloneVolatileStep == ASSUME HistoryInv, CloneVolatile, ForgetsUnnamed PROVE HistoryInv'
<1>1. PICK c \in NewClips \cap Secrets : AddOrigin(UI, c) /\ UNCHANGED queue
  BY KnownIsRemembered DEF CloneVolatile, VolatileIds, Live, IsMemoryOnly
<1>2. /\ c \in Secrets /\ UI \in Threads
      /\ UNCHANGED <<rows, pinned, volatile, expired, version, queue, gui, latest, owed>>
      /\ slot' \in {slot, NoClip} /\ deleted' \in {deleted, NoClip}
  BY <1>1, Names DEF CloneVolatile, store, undo, shown
<1> QED
  BY ONLY HistoryInv, <1>1, <1>2, OriginStep, ForgetsUnnamed

\* A step of one operation that changes neither the lanes nor the store.
LEMMA OpStep ==
  ASSUME HistoryInv, NEW t \in Threads, NEW r, op' = [op EXCEPT ![t] = r],
         Sound(r, version, ToSet(origins)),
         UNCHANGED <<rows, pinned, lanes, expired, version, slot, latest, owed>>,
         gui' \subseteq gui, deleted' \in MaybeClip,
         \/ queue' = queue /\ op[t].at # "queued"
         \/ queue' = Append(queue, t) /\ op[t].at # "queued" /\ r.at = "queued"
         \/ queue # <<>> /\ t = Head(queue) /\ queue' = Tail(queue),
         version < MaxVersion \/ op[t].at \in Unnumbered \/ r.at \notin Unnumbered
  PROVE HistoryInv'
<1>1. /\ version' = version /\ UNCHANGED origins /\ ForgetsUnnamed
      /\ Sound(r, version', ToSet(origins'))
  BY OriginsRest DEF lanes
<1>2. OpsAreSound' /\ QueueWaits' /\ VersionsAreBounded'
  BY <1>1, Moves
<1>3. SecretsAreRemembered'
  BY KnownIsRemembered, LanesRest
<1>4. RowsAreDurable'
  BY DEF HistoryInv, RowsAreDurable
<1> QED
  BY <1>2, <1>3, <1>4 DEF HistoryInv

\* r is o further on: it keeps its clip, its version and its clips.
Onward(r, o) == r \in Op /\ r.clip = o.clip /\ r.ver = o.ver /\ r.clips = o.clips

LEMMA OnwardIsSound ==
  ASSUME NEW o, NEW v, NEW S, Sound(o, v, S), NEW r, Onward(r, o), r.at # "origin",
         r.at \in Unnumbered /\ r.job \in {"insert", "find to clone"} =>
           o.clip \in Clips \ Secrets,
         r.at = "found" => r.job \in {"find", "find to clone"}
  PROVE Sound(r, v, S)
<1>1. r \in Op /\ r.ver <= v /\ r.clips \cap Secrets \subseteq S
  BY DEF Onward, Sound
<1>2. /\ r.at = "origin" => r.clip \in S
      /\ r.at \in Unnumbered /\ r.job \in {"insert", "find to clone"} =>
           r.clip \in Clips \ Secrets
      /\ r.at = "found" => r.job \in {"find", "find to clone"}
  BY DEF Onward
<1> QED
  BY ONLY Zenon, <1>1, <1>2 DEF Sound

\* An operation's own entitlement, one by one.
LEMMA OpSays ==
  ASSUME HistoryInv, NEW t \in Threads
  PROVE /\ op[t] \in Op /\ Sound(op[t], version, ToSet(origins))
        /\ op[t].at = "origin" => op[t].clip \in ToSet(origins)
        /\ op[t].at \in Unnumbered /\ op[t].job \in {"insert", "find to clone"} =>
             op[t].clip \in Clips \ Secrets
        /\ op[t].at = "found" => op[t].job \in {"find", "find to clone"}
        /\ op[t].clips \cap Secrets \subseteq ToSet(origins)
        /\ op[t].ver <= version
<1>1. Sound(op[t], version, ToSet(origins))
  BY DEF HistoryInv, OpsAreSound
<1> DEFINE o == op[t]
           v == version
           S == ToSet(origins)
<1> HIDE DEF o, v, S
<1>2. Sound(o, v, S)
  BY <1>1 DEF o, v, S
<1>3. /\ o \in Op /\ o.ver <= v /\ o.clips \cap Secrets \subseteq S
      /\ o.at = "origin" => o.clip \in S
      /\ o.at \in Unnumbered /\ o.job \in {"insert", "find to clone"} =>
           o.clip \in Clips \ Secrets
      /\ o.at = "found" => o.job \in {"find", "find to clone"}
  BY ONLY Zenon, <1>2 DEF Sound
<1> QED
  BY <1>1, <1>3 DEF o, v, S

LEMMA FoundStep == ASSUME HistoryInv, Found PROVE HistoryInv'
<1> DEFINE o == op[UI]
           job == IF o.job = "find" THEN "delete" ELSE "insert"
           r == [o EXCEPT !.at = "queued", !.job = job]
<1>1. /\ UI \in Threads /\ o \in Op /\ o.at = "found" /\ o.job \in {"find", "find to clone"}
      /\ o.job # "find" => o.clip \in Clips \ Secrets
      /\ Sound(o, version, ToSet(origins))
  BY Names, OpSays DEF Found, Unnumbered
<1>2. Onward(r, o) /\ r.at = "queued" /\ (r.job = "insert" => o.job # "find") /\ r.job # "find to clone"
  BY <1>1, Names DEF Onward, Op
<1>3. /\ op' = [op EXCEPT ![UI] = r] /\ queue' = Append(queue, UI)
      /\ UNCHANGED <<rows, pinned, lanes, expired, version, slot, latest, owed>>
      /\ gui' \subseteq gui /\ deleted' \in MaybeClip
  BY KnownIsRemembered DEF Found, store, undo, shown
<1>4. o.at # "queued" /\ o.at \in Unnumbered
  BY <1>1 DEF Unnumbered
<1> HIDE DEF r, job
<1>5. Sound(r, version, ToSet(origins))
  BY <1>1, <1>2, OnwardIsSound
<1> QED
  BY ONLY HistoryInv, <1>1, <1>2, <1>3, <1>4, <1>5, OpStep

LEMMA SlotExpiresStep == ASSUME HistoryInv, SlotExpires PROVE HistoryInv'
<1>1. OpsAreSound' /\ QueueWaits' /\ VersionsAreBounded'
  BY DEF SlotExpires, lanes, HistoryInv, OpsAreSound, QueueWaits, VersionsAreBounded, Pending
<1>2. SecretsAreRemembered'
  BY KnownIsRemembered, LanesRest, NoClipIsNoSecret DEF SlotExpires, shown
<1>3. RowsAreDurable'
  BY Names DEF SlotExpires, store, shown, HistoryInv, RowsAreDurable
<1> QED
  BY <1>1, <1>2, <1>3 DEF HistoryInv

LEMMA ExpiresStep == ASSUME HistoryInv, Expires PROVE HistoryInv'
<1>1. OpsAreSound' /\ QueueWaits' /\ VersionsAreBounded'
  BY DEF Expires, lanes, HistoryInv, OpsAreSound, QueueWaits, VersionsAreBounded, Pending
<1>2. SecretsAreRemembered'
  BY KnownIsRemembered, LanesRest DEF Expires, shown, undo
<1>3. RowsAreDurable'
  BY DEF Expires, store, shown, undo, HistoryInv, RowsAreDurable
<1> QED
  BY <1>1, <1>2, <1>3 DEF HistoryInv

LEMMA FindToCloneStep == ASSUME HistoryInv, FindToClone PROVE HistoryInv'
<1>1. PICK source \in gui \ VolatileIds, c \in NewClips \ Secrets :
        /\ queue' = Append(queue, UI)
        /\ op' = [op EXCEPT ![UI] = Begun("queued", "find to clone", c, source, FALSE)]
  BY DEF FindToClone
<1> DEFINE r == Begun("queued", "find to clone", c, source, FALSE)
<1>2. /\ UI \in Threads /\ "find to clone" \in Jobs /\ c \in MaybeClip /\ source \in MaybeClip
      /\ FALSE \in BOOLEAN /\ c \in Clips \ Secrets /\ version < MaxVersion /\ op[UI].at # "queued"
      /\ version \in Nat
  BY Names, KnownIsRemembered DEF FindToClone, NewClips, MaybeClip, MayStart
<1>3. Sound(r, version, ToSet(origins)) /\ r.at = "queued"
  BY <1>2, QueuedIsSound
<1>4. /\ op' = [op EXCEPT ![UI] = r] /\ queue' = Append(queue, UI)
      /\ UNCHANGED <<rows, pinned, lanes, expired, version, slot, latest, owed>>
      /\ gui' \subseteq gui /\ deleted' \in MaybeClip
  BY <1>1, KnownIsRemembered DEF FindToClone, store, undo, shown
<1> HIDE DEF r
<1> QED
  BY ONLY HistoryInv, <1>2, <1>3, <1>4, OpStep

LEMMA PublishPruneStep == ASSUME HistoryInv, PublishPrune PROVE HistoryInv'
<1> DEFINE o == op[Maintenance]
           r == [o EXCEPT !.at = "pruned"]
<1>1. /\ Maintenance \in Threads /\ o \in Op /\ o.at = "pruning" /\ Sound(o, version, ToSet(origins))
      /\ o.job \in {"insert", "find to clone"} => o.clip \in Clips \ Secrets
  BY Names, OpSays DEF PublishPrune, Unnumbered
<1>2. Onward(r, o) /\ r.at = "pruned" /\ r.job = o.job
  BY <1>1 DEF Onward, Op
<1>3. /\ op' = [op EXCEPT ![Maintenance] = r] /\ queue' = queue
      /\ UNCHANGED <<rows, pinned, lanes, expired, version, slot, latest, owed>>
      /\ gui' \subseteq gui /\ deleted' \in MaybeClip
  BY KnownIsRemembered DEF PublishPrune, store, undo, Live
<1>4. o.at # "queued" /\ o.at \in Unnumbered
  BY <1>1 DEF Unnumbered
<1> HIDE DEF r
<1>5. Sound(r, version, ToSet(origins))
  BY <1>1, <1>2, OnwardIsSound
<1> QED
  BY ONLY HistoryInv, <1>1, <1>2, <1>3, <1>4, <1>5, OpStep

LEMMA MaintainStoreStep == ASSUME HistoryInv, MaintainStore PROVE HistoryInv'
<1> DEFINE o == op[Maintenance]
           r == [o EXCEPT !.at = "queued"]
<1>1. /\ Maintenance \in Threads /\ o \in Op /\ o.at = "pruned" /\ Sound(o, version, ToSet(origins))
      /\ o.job \in {"insert", "find to clone"} => o.clip \in Clips \ Secrets
  BY Names, OpSays DEF MaintainStore, Unnumbered
<1>2. /\ UNCHANGED <<rows, pinned, lanes, expired, version, slot, latest, owed>>
      /\ gui' \subseteq gui /\ deleted' \in MaybeClip
  BY KnownIsRemembered DEF MaintainStore, store, undo, shown
<1>3. o.at # "queued" /\ o.at \in Unnumbered
  BY <1>1 DEF Unnumbered
<1>4. CASE OwnerFree
  <2>1. /\ op' = [op EXCEPT ![Maintenance] = r] /\ queue' = Append(queue, Maintenance)
    BY <1>4 DEF MaintainStore, OwnerFree
  <2>2. Onward(r, o) /\ r.at = "queued" /\ r.job = o.job
    BY <1>1 DEF Onward, Op
  <2> HIDE DEF r
  <2>3. Sound(r, version, ToSet(origins))
    BY <1>1, <2>2, OnwardIsSound
  <2> QED
    BY ONLY HistoryInv, <1>1, <1>2, <1>3, <2>1, <2>2, <2>3, OpStep
<1>5. CASE ~OwnerFree
  <2>1. op' = [op EXCEPT ![Maintenance] = Idle] /\ queue' = queue
    BY <1>5 DEF MaintainStore
  <2>2. Sound(Idle, version, ToSet(origins))
    BY KnownIsRemembered, IdleIsSound
  <2> QED
    BY ONLY HistoryInv, <1>1, <1>2, <1>3, <2>1, <2>2, OpStep
<1> QED
  BY <1>4, <1>5

LEMMA HeadWaits ==
  ASSUME HistoryInv, queue # <<>>
  PROVE Head(queue) \in Threads /\ op[Head(queue)].at = "queued"
<1>1. queue \in Seq(Threads) /\ \A i \in 1..Len(queue) : op[queue[i]].at = "queued"
  BY DEF HistoryInv, QueueWaits
<1>2. Head(queue) = queue[1] /\ 1 \in 1..Len(queue) /\ queue[1] \in Threads
  BY <1>1
<1> QED
  BY <1>1, <1>2

LEMMA RunFindStep == ASSUME HistoryInv, RunFind PROVE HistoryInv'
<1> DEFINE t == Head(queue)
           o == op[t]
           r == Looked(o)
<1>1. /\ t \in Threads /\ o.at = "queued" /\ queue # <<>> /\ queue' = Tail(queue)
      /\ o.job \in {"find", "find to clone"} /\ t = Head(queue)
  BY HeadWaits DEF RunFind
<1>2. op' = [op EXCEPT ![t] = r]
  BY DEF RunFind
<1>3. /\ UNCHANGED <<rows, pinned, lanes, expired, version, slot, latest, owed>>
      /\ gui' \subseteq gui /\ deleted' \in MaybeClip
  BY KnownIsRemembered DEF RunFind, store, undo, shown
<1> HIDE DEF t
<1>4. /\ o \in Op /\ Sound(o, version, ToSet(origins)) /\ o.at \in Unnumbered
      /\ o.job = "find to clone" => o.clip \in Clips \ Secrets
  BY <1>1, OpSays DEF Unnumbered
<1>5. Sound(Idle, version, ToSet(origins))
  BY KnownIsRemembered, IdleIsSound
<1>6. Sound(r, version, ToSet(origins))
  <2>1. CASE r = Idle
    BY <1>5, <2>1
  <2>2. CASE r # Idle
    <3>1. PICK original \in MaybeClip : r = [o EXCEPT !.at = "found", !.original = original]
      BY <1>1, <1>4, <2>2, Names DEF Looked, Op
    <3>2. Onward(r, o) /\ r.at = "found" /\ r.job = o.job
      BY <1>4, <3>1 DEF Onward, Op
    <3> HIDE DEF r
    <3> QED
      BY <1>1, <1>4, <3>2, OnwardIsSound
  <2> QED
    BY <2>1, <2>2
<1> HIDE DEF r
<1> QED
  BY ONLY HistoryInv, <1>1, <1>2, <1>3, <1>4, <1>6, OpStep

\* purge_expired_volatile drops from the lane only.
LEMMA PurgeVolatileStep == ASSUME HistoryInv, PurgeVolatile PROVE HistoryInv'
<1> DEFINE kept == Keeping(volatile, Clips \ expired)
           lane == kept # volatile
           r == Begun("pruning", "maintain", NoClip, NoClip, lane)
<1>1. /\ Maintenance \in Threads /\ "maintain" \in Jobs /\ NoClip \in MaybeClip /\ lane \in BOOLEAN
      /\ version < MaxVersion /\ op[Maintenance].at # "queued" /\ version' = version
      /\ version \in Nat /\ queue' = queue /\ UNCHANGED origins
  BY Names, KnownIsRemembered DEF PurgeVolatile, MayStart
<1>2. op' = [op EXCEPT ![Maintenance] = r]
  BY DEF PurgeVolatile
<1> HIDE DEF lane
<1>3. Sound(r, version', ToSet(origins'))
  <2>1. MayBegin("pruning", "maintain", NoClip, ToSet(origins'))
    BY DEF MayBegin
  <2> QED
    BY <1>1, <2>1, BegunIsSound
<1> HIDE DEF r
<1>4. OpsAreSound' /\ QueueWaits' /\ VersionsAreBounded'
  <2>1. ForgetsUnnamed
    BY <1>1, OriginsRest
  <2> QED
    BY ONLY HistoryInv, <1>1, <1>2, <1>3, <2>1, Moves
<1>5. SecretsAreRemembered'
  <2>1. /\ SecretsAreRemembered /\ UNCHANGED origins /\ volatile' = Keeping(volatile, Clips \ expired)
        /\ (gui' \cup {slot'}) \cap Secrets \subseteq ToSet(origins)
    BY KnownIsRemembered DEF PurgeVolatile, shown
  <2> QED
    BY ONLY <2>1, LanesShrink
<1>6. RowsAreDurable'
  BY Names DEF PurgeVolatile, store, shown, HistoryInv, RowsAreDurable
<1> QED
  BY <1>4, <1>5, <1>6 DEF HistoryInv

\* merge_volatile: what the snapshot gains, the lane still holds.
LEMMA MergeStep == ASSUME HistoryInv, NEW t \in Threads, Merge(t) PROVE HistoryInv'
<1> DEFINE o == op[t]
           clips == IF o.ver = 0 THEN {} ELSE o.clips \cup VolatileIds
           r == [o EXCEPT !.at = "merged", !.clips = clips]
<1>1. o \in Op /\ o.at = "loaded" /\ o.clips \cap Secrets \subseteq ToSet(origins) /\ o.ver <= version
  BY OpSays DEF Merge
<1>2. /\ op' = [op EXCEPT ![t] = r] /\ queue' = queue
      /\ UNCHANGED <<rows, pinned, lanes, expired, version, slot, latest, owed>>
      /\ gui' \subseteq gui /\ deleted' \in MaybeClip
  BY KnownIsRemembered DEF Merge, store, undo, shown
<1>3. clips \subseteq Clips /\ clips \cap Secrets \subseteq ToSet(origins)
  BY <1>1, KnownIsRemembered, ConstantsAssumption DEF VolatileIds, Live, Op
<1> HIDE DEF clips
<1>4. r \in Op /\ r.at = "merged" /\ r.ver = o.ver /\ r.clips = clips
  BY <1>1, <1>3 DEF Op
<1> HIDE DEF r
<1>5. /\ r \in Op /\ r.ver <= version /\ r.clips \cap Secrets \subseteq ToSet(origins)
      /\ r.at # "origin" /\ r.at \notin Unnumbered /\ r.at # "found"
  BY <1>1, <1>3, <1>4 DEF Unnumbered
<1>6. Sound(r, version, ToSet(origins))
  BY ONLY <1>5 DEF Sound
<1>7. o.at # "queued"
  BY <1>1
<1> QED
  BY ONLY HistoryInv, <1>2, <1>5, <1>6, <1>7, OpStep, t \in Threads

\* The presenter shows a snapshot's clips, or drops it.
LEMMA PublishStep == ASSUME HistoryInv, NEW t \in Threads, Publish(t) PROVE HistoryInv'
<1> DEFINE o == op[t]
<1>1. /\ o \in Op /\ o.at = "merged" /\ o.clips \cap Secrets \subseteq ToSet(origins) /\ o.ver <= version
      /\ o.clips \subseteq Clips /\ o.ver \in Nat /\ o.original \in MaybeClip
  <2>1. /\ o \in Op /\ o.at = "merged" /\ o.clips \cap Secrets \subseteq ToSet(origins)
        /\ o.ver <= version
    BY OpSays DEF Publish
  <2> QED
    BY <2>1, ConstantsAssumption DEF Op
<1>2. /\ op' = [op EXCEPT ![t] = Idle] /\ queue' = queue
      /\ UNCHANGED <<rows, pinned, lanes, expired, version, slot>>
      /\ version \in Nat /\ version' = version /\ UNCHANGED origins
  BY KnownIsRemembered DEF Publish, store, lanes
<1>3. deleted' \in MaybeClip
  BY <1>1, KnownIsRemembered DEF Publish
<1>4. /\ gui' \subseteq Clips /\ gui' \cap Secrets \subseteq ToSet(origins)
      /\ latest' \in 0 .. version /\ owed' \in 0 .. version + 1
  <2>1. Present(o) /\ gui \subseteq Clips /\ gui \cap Secrets \subseteq ToSet(origins)
        /\ latest \in 0 .. version /\ owed \in 0 .. version + 1
    BY KnownIsRemembered DEF Publish, HistoryInv, RowsAreDurable
  <2> HIDE DEF o
  <2>2. CASE o.ver = 0 \/ o.ver < latest
    BY <2>1, <2>2 DEF Present, shown
  <2>3. CASE ~(o.ver = 0 \/ o.ver < latest)
    BY <1>1, <1>2, <2>1, <2>3 DEF Present, Live
  <2> QED
    BY <2>2, <2>3
<1>5. OpsAreSound' /\ QueueWaits' /\ VersionsAreBounded'
  <2>1. Sound(Idle, version', ToSet(origins')) /\ ForgetsUnnamed /\ op[t].at # "queued"
        /\ "idle" \notin Unnumbered /\ Idle.at = "idle"
    BY <1>1, <1>2, IdleIsSound, OriginsRest DEF Unnumbered
  <2> QED
    BY ONLY HistoryInv, <1>2, <2>1, Moves, t \in Threads
<1>6. SecretsAreRemembered'
  BY <1>2, <1>4, KnownIsRemembered, LanesRest
<1>7. RowsAreDurable'
  BY <1>2, <1>3, <1>4 DEF HistoryInv, RowsAreDurable
<1> QED
  BY <1>5, <1>6, <1>7 DEF HistoryInv

\* insert_volatile's second lock: the newest first, the oldest cut off.
LEMMA AddVolatileStep == ASSUME HistoryInv, NEW t \in Threads, AddVolatile(t) PROVE HistoryInv'
<1> DEFINE c == op[t].clip
           S == {v \in Clips : Content[v] # Content[c]} \ expired
           kept == Keeping(volatile, S)
           all == <<c>> \o kept
           n == IF Len(kept) < MaxVolatile THEN Len(kept) + 1 ELSE MaxVolatile
           lane == SubSeq(all, 1, n)
<1>1. /\ op[t].at = "origin" /\ op[t].at \in Unnumbered /\ op[t].at # "queued"
      /\ c \in ToSet(origins) /\ c \in Secrets
  BY OpSays, KnownIsRemembered DEF AddVolatile, Unnumbered
<1>2. volatile \in Seq(Secrets) /\ ToSet(volatile) \subseteq ToSet(origins) /\ MaxVolatile \in Nat \ {0}
  BY ConstantsAssumption DEF HistoryInv, SecretsAreRemembered
<1>3. volatile' = lane
  BY DEF AddVolatile
<1>4. /\ UNCHANGED <<rows, pinned, origins, expired, version, gui, latest, owed>>
      /\ UNCHANGED <<slot, deleted>> /\ Queued(t, "refresh", NoClip, TRUE)
  BY DEF AddVolatile, store, undo, shown
<1> HIDE DEF c, S
<1>5. kept \in Seq(Secrets) /\ Listed(kept) \subseteq Listed(volatile)
  BY <1>2, KeepingIs
<1> HIDE DEF kept
<1>6. /\ all \in Seq(Secrets) /\ Len(all) = Len(kept) + 1 /\ all[1] = c /\ Len(kept) \in Nat
      /\ \A i \in 1..Len(all) : i # 1 => all[i] = kept[i - 1] /\ i - 1 \in 1..Len(kept)
  BY <1>1, <1>5
<1>7. Listed(all) \subseteq ToSet(origins)
  <2>1. ToSet(volatile) = Listed(volatile)
    BY <1>2, ToSetLists
  <2>2. Listed(kept) \subseteq ToSet(origins)
    BY <1>2, <1>5, <2>1
  <2>3. ASSUME NEW i \in 1..Len(all) PROVE all[i] \in ToSet(origins)
    BY <1>1, <1>6, <2>2 DEF Listed
  <2> QED
    BY <2>3 DEF Listed
<1>8. n \in 1..Len(all) /\ n <= MaxVolatile
  BY <1>2, <1>6
<1> HIDE DEF all, n
<1>9. lane \in Seq(Secrets) /\ Len(lane) = n /\ \A i \in 1..n : lane[i] = all[i] /\ i \in 1..Len(all)
  BY <1>6, <1>8
<1> HIDE DEF lane
<1>10. ToSet(lane) \subseteq ToSet(origins)
  <2>1. ToSet(lane) = Listed(lane)
    BY <1>9, ToSetLists
  <2> QED
    BY <1>7, <1>9, <2>1 DEF Listed
<1>11. SecretsAreRemembered'
  BY <1>3, <1>4, <1>8, <1>9, <1>10 DEF HistoryInv, SecretsAreRemembered
<1>12. /\ "refresh" \in Jobs /\ NoClip \in MaybeClip /\ TRUE \in BOOLEAN
       /\ "refresh" \notin {"insert", "find to clone"} /\ slot' \in MaybeClip /\ deleted' \in MaybeClip
  BY <1>4, Names, KnownIsRemembered
<1> QED
  BY ONLY HistoryInv, <1>1, <1>4, <1>11, <1>12, QueueStep, t \in Threads

\* What the owner stores for a job that may be queued is never a secret.
LEMMA AppliedIsDurable ==
  ASSUME HistoryInv, NEW job, NEW c, job = "insert" => c \in Clips \ Secrets
  PROVE Applied(job, c) \subseteq SUBSET (Clips \ Secrets)
<1>1. rows \subseteq Clips \ Secrets
  BY DEF HistoryInv, RowsAreDurable
<1>2. CASE job = "insert"
  <2>1. rows \cup {c} \subseteq Clips \ Secrets
    BY <1>1, <1>2
  <2>2. Inserted(c) \subseteq SUBSET (rows \cup {c})
    BY DEF Inserted
  <2> QED
    BY <1>2, <2>1, <2>2 DEF Applied
<1>3. CASE job # "insert"
  BY <1>1, <1>3 DEF Applied, Maintained, Live
<1> QED
  BY <1>2, <1>3

LEMMA RunJobStep == ASSUME HistoryInv, RunJob PROVE HistoryInv'
<1> DEFINE t == Head(queue)
           o == op[t]
<1>1. /\ t \in Threads /\ t = Head(queue) /\ o.at = "queued" /\ queue # <<>> /\ queue' = Tail(queue)
      /\ UNCHANGED <<lanes, expired, slot, deleted, gui, latest, owed>>
      /\ UNCHANGED origins
  BY HeadWaits DEF RunJob, undo, shown, lanes
<1>2. PICK kept \in Applied(o.job, o.clip) :
        LET ver == IF Publishes(o, kept) THEN version + 1 ELSE 0
        IN  /\ rows' = kept
            /\ pinned' = Pinned(o.job, o.clip) \cap kept
            /\ version' = IF ver = 0 THEN version ELSE ver
            /\ op' = [op EXCEPT ![t] = [o EXCEPT !.at = "loaded", !.ver = ver,
                                                 !.clips = Live(kept)]]
  BY DEF RunJob
<1> DEFINE ver == IF Publishes(o, kept) THEN version + 1 ELSE 0
           r == [o EXCEPT !.at = "loaded", !.ver = ver, !.clips = Live(kept)]
<1>3. /\ rows' = kept /\ pinned' \subseteq kept /\ op' = [op EXCEPT ![t] = r]
      /\ version' = IF ver = 0 THEN version ELSE ver
  BY <1>2
<1> HIDE DEF t
<1>4. o \in Op /\ o.at \in Unnumbered /\ (o.job = "insert" => o.clip \in Clips \ Secrets)
  BY <1>1, OpSays DEF Unnumbered
<1>5. kept \subseteq Clips \ Secrets
  BY <1>4, AppliedIsDurable
<1>6. version \in Nat /\ version <= MaxVersion + 2 /\ MaxVersion \in Nat
  <2>1. Cardinality(Pending) \in Nat
    <3>1. IsFiniteSet(Pending)
      BY ThreadCount, FS_Subset DEF Pending
    <3> QED
      BY <3>1, FS_CardinalityType
  <2> QED
    BY <2>1, ConstantsAssumption DEF HistoryInv, VersionsAreBounded
<1>7. ver \in {0, version + 1} /\ ver \in 0 .. MaxVersion + 3 /\ ver <= version'
      /\ version' \in {version, version + 1} /\ version' \in Nat
  BY <1>3, <1>6
<1>8. Live(kept) \subseteq Clips \ Secrets
  BY <1>5 DEF Live
<1> DEFINE clips == Live(kept)
<1> HIDE DEF ver
<1>9. r \in Op /\ r.at = "loaded" /\ r.ver = ver /\ r.clips = clips
  BY <1>4, <1>7, <1>8 DEF Op
<1> HIDE DEF r, clips
<1>10. /\ r \in Op /\ r.ver <= version' /\ r.clips \cap Secrets \subseteq ToSet(origins')
       /\ r.at # "origin" /\ r.at \notin Unnumbered /\ r.at # "found"
  BY <1>7, <1>8, <1>9 DEF Unnumbered, clips
<1>11. Sound(r, version', ToSet(origins'))
  BY ONLY <1>10 DEF Sound
<1>12. OpsAreSound' /\ QueueWaits' /\ VersionsAreBounded'
  <2>1. ForgetsUnnamed
    BY <1>1, OriginsRest
  <2> QED
    BY ONLY HistoryInv, <1>1, <1>3, <1>4, <1>7, <1>10, <1>11, <2>1, Moves
<1>13. SecretsAreRemembered'
  BY <1>1, KnownIsRemembered, LanesRest
<1>14. RowsAreDurable'
  BY <1>1, <1>3, <1>5, <1>6, <1>7 DEF HistoryInv, RowsAreDurable
<1> QED
  BY <1>12, <1>13, <1>14 DEF HistoryInv

LEMMA JobFailsStep == ASSUME HistoryInv, JobFails PROVE HistoryInv'
<1> DEFINE t == Head(queue)
           o == op[t]
           half == IF o.job = "insert" THEN {rows, rows \cup {o.clip}} ELSE {rows}
<1>1. /\ t \in Threads /\ t = Head(queue) /\ o.at = "queued" /\ queue # <<>> /\ queue' = Tail(queue)
      /\ UNCHANGED <<lanes, expired, version, slot, deleted, gui, latest>>
      /\ UNCHANGED origins /\ op' = [op EXCEPT ![t] = Idle] /\ version' = version
  BY HeadWaits DEF JobFails, undo, shown, lanes
<1>2. PICK kept \in half \cup Applied(o.job, o.clip) :
        /\ rows' = kept
        /\ pinned' = pinned \cap kept
        /\ owed' \in {owed, version + 1}
  BY DEF JobFails
<1> HIDE DEF t
<1>3. o.at \in Unnumbered /\ (o.job = "insert" => o.clip \in Clips \ Secrets)
  BY <1>1, OpSays DEF Unnumbered
<1>4. kept \subseteq Clips \ Secrets
  BY <1>2, <1>3, AppliedIsDurable DEF HistoryInv, RowsAreDurable
<1>5. OpsAreSound' /\ QueueWaits' /\ VersionsAreBounded'
  <2>1. Sound(Idle, version', ToSet(origins')) /\ ForgetsUnnamed
        /\ "idle" \notin Unnumbered /\ Idle.at = "idle"
    BY <1>1, KnownIsRemembered, IdleIsSound, OriginsRest DEF Unnumbered
  <2> QED
    BY ONLY HistoryInv, <1>1, <2>1, Moves
<1>6. SecretsAreRemembered'
  BY <1>1, KnownIsRemembered, LanesRest
<1>7. RowsAreDurable'
  BY <1>1, <1>2, <1>4, KnownIsRemembered DEF HistoryInv, RowsAreDurable
<1> QED
  BY <1>5, <1>6, <1>7 DEF HistoryInv

-----------------------------------------------------------------------------
(* The theorems *)

LEMMA HistoryStarts == Init => HistoryInv
<1> SUFFICES ASSUME Init PROVE HistoryInv
  OBVIOUS
<1>1. version = 0 /\ <<>> \in Seq(Secrets) /\ <<>> \in Seq(Threads) /\ Len(<<>>) = 0 /\ ToSet(<<>>) = {}
      /\ MaxVersion \in Nat /\ MaxVolatile \in Nat /\ MaxOrigins \in Nat
  BY ConstantsAssumption DEF Init, ToSet
<1>2. op = [t \in Threads |-> op[t]] /\ \A t \in Threads : op[t] = Idle
  BY DEF Init
<1>3. Sound(Idle, 0, {}) /\ Idle.at = "idle"
  BY IdleIsSound
<1>4. OpsAreSound
  BY <1>1, <1>2, <1>3 DEF OpsAreSound, Init
<1>5. QueueWaits
  BY <1>1 DEF QueueWaits, Distinct, Init
<1>6. VersionsAreBounded
  <2>1. Pending = {}
    BY <1>2, <1>3 DEF Pending, Unnumbered
  <2> QED
    BY <1>1, <2>1, FS_EmptySet DEF VersionsAreBounded
<1>7. SecretsAreRemembered
  BY <1>1, NoClipIsNoSecret DEF SecretsAreRemembered, Distinct, Init
<1>8. RowsAreDurable
  <2>1. rows = {} /\ pinned = {} /\ expired = {} /\ gui = {} /\ latest = 0 /\ owed = 0
        /\ deleted = NoClip /\ slot = NoClip
    BY DEF Init
  <2>2. latest \in 0 .. version /\ owed \in 0 .. version + 1
    BY ONLY <1>1, <2>1
  <2>3. deleted \in MaybeClip /\ slot \in MaybeClip
    BY <2>1, Names
  <2>4. /\ rows \subseteq Clips \ Secrets /\ pinned \subseteq rows
        /\ expired \subseteq Mortal /\ gui \subseteq Clips
    BY ONLY <2>1
  <2> QED
    BY ONLY Zenon, <2>2, <2>3, <2>4 DEF RowsAreDurable
<1> QED
  BY <1>4, <1>5, <1>6, <1>7, <1>8 DEF HistoryInv

LEMMA HistorySteps == ASSUME HistoryInv, [Next]_vars, ForgetsUnnamed PROVE HistoryInv'
<1>1. CASE CaptureDurable \/ CaptureSecret
  BY <1>1, CaptureDurableStep, CaptureSecretStep
<1>2. CASE Delete
  BY <1>2, DeleteVolatileStep, FindToDeleteStep DEF Delete
<1>3. CASE Found \/ RestoreSecret \/ RestoreDurable \/ SlotExpires
  BY <1>3, FoundStep, RestoreSecretStep, RestoreDurableStep, SlotExpiresStep
<1>4. CASE CloneVolatile \/ FindToClone \/ Clear \/ SetPinned
  BY <1>4, CloneVolatileStep, FindToCloneStep, ClearStep, SetPinnedStep
<1>5. CASE RefreshForMemory \/ PurgeVolatile \/ PublishPrune \/ MaintainStore
  BY <1>5, RefreshForMemoryStep, PurgeVolatileStep, PublishPruneStep, MaintainStoreStep
<1>6. CASE RunFind \/ RunJob \/ JobFails
  BY <1>6, RunFindStep, RunJobStep, JobFailsStep
<1>7. CASE \E t \in Threads : AddVolatile(t) \/ Merge(t) \/ Publish(t)
  BY <1>7, AddVolatileStep, MergeStep, PublishStep
<1>8. CASE Expires
  BY <1>8, ExpiresStep
<1>9. CASE UNCHANGED vars
  BY <1>9 DEF vars, HistoryInv, OpsAreSound, QueueWaits, VersionsAreBounded, Pending,
     SecretsAreRemembered, RowsAreDurable
<1> QED
  BY <1>1, <1>2, <1>3, <1>4, <1>5, <1>6, <1>7, <1>8, <1>9 DEF Next

LEMMA SafetyFollows == HistoryInv => HistorySafety
<1> SUFFICES ASSUME HistoryInv PROVE HistorySafety
  OBVIOUS
<1>1. ASSUME NEW S, NEW n \in Nat, NEW q \in Seq(S), Len(q) <= n PROVE q \in BoundedSeq(S, n)
  <2>1. Len(q) \in 0..n /\ q \in [1..Len(q) -> S]
    BY <1>1
  <2> QED
    BY <2>1 DEF BoundedSeq, SeqOf
<1>2. /\ volatile \in Seq(Clips) /\ Len(volatile) <= MaxVolatile
      /\ origins \in Seq(Clips) /\ Len(origins) <= MaxOrigins
  BY NoClipIsNoSecret DEF HistoryInv, SecretsAreRemembered
<1>3. queue \in Seq(Threads) /\ Len(queue) <= 3
  <2>1. queue \in Seq(Threads) /\ Distinct(queue)
    BY DEF HistoryInv, QueueWaits
  <2>2. Cardinality(Listed(queue)) = Len(queue)
    BY <2>1, ListLength
  <2>3. Listed(queue) \subseteq Threads
    BY <2>1, ToSetLists
  <2>4. Cardinality(Listed(queue)) <= Cardinality(Threads) /\ Cardinality(Threads) \in Nat
    BY <2>3, ThreadCount, FS_Subset, FS_CardinalityType
  <2>5. Len(queue) \in Nat
    BY <2>1
  <2> QED
    BY <2>1, <2>2, <2>4, <2>5, ThreadCount
<1>4. /\ volatile \in BoundedSeq(Clips, MaxVolatile) /\ origins \in BoundedSeq(Clips, MaxOrigins)
      /\ queue \in BoundedSeq(Threads, 3)
  <2>1. MaxVolatile \in Nat /\ MaxOrigins \in Nat /\ 3 \in Nat
    BY ConstantsAssumption
  <2> QED
    BY ONLY <1>1, <1>2, <1>3, <2>1
<1>5. version \in 0 .. MaxVersion + 3
  <2>1. Cardinality(Pending) \in Nat
    <3>1. IsFiniteSet(Pending)
      BY ThreadCount, FS_Subset DEF Pending
    <3> QED
      BY <3>1, FS_CardinalityType
  <2> QED
    BY <2>1, ConstantsAssumption DEF HistoryInv, VersionsAreBounded
<1>6. op \in [Threads -> Op]
  BY OpSays DEF HistoryInv, OpsAreSound
<1> QED
  BY <1>4, <1>5, <1>6, ConstantsAssumption DEF HistorySafety, TypeOK, SecretsNeverStored, HistoryInv, RowsAreDurable

\* As long as no origin is forgotten while something can still name its clip, a memory-only
\* clip never reaches the database, however long the session, whatever the threads do between
\* the locks and whichever jobs fail (History::insert_volatile, is_memory_only, restore).
THEOREM SecretsStayOut == Spec /\ [][ForgetsUnnamed]_vars => []HistorySafety
<1>1. HistoryInv /\ [Next]_vars /\ [ForgetsUnnamed]_vars => HistoryInv'
  <2>1. UNCHANGED vars => ForgetsUnnamed
    BY OriginsRest DEF vars
  <2> QED
    BY <2>1, HistorySteps
<1> QED
  BY <1>1, HistoryStarts, SafetyFollows, PTL DEF Spec

\* A session with no more secrets than MAX_VOLATILE_ORIGINS forgets none of them.
THEOREM FewSecretsStayOut ==
  ASSUME IsFiniteSet(Secrets), Cardinality(Secrets) <= MaxOrigins
  PROVE Spec => []HistorySafety
<1>1. ASSUME HistoryInv, [Next]_vars PROVE ForgetsUnnamed
  <2>1. ASSUME NEW t \in Threads, NEW c \in Secrets, AddOrigin(t, c) PROVE ForgetsUnnamed
    <3>1. ToSet(origins) \subseteq ToSet(origins')
      <4>1. Cardinality(Secrets) \in Nat /\ MaxOrigins \in Nat
        BY FS_CardinalityType, ConstantsAssumption
      <4> QED
        BY <1>1, <2>1, <4>1, OriginsGrow
    <3> QED
      BY <3>1 DEF ForgetsUnnamed
  <2>2. CASE CaptureSecret
    BY <2>1, <2>2, Names DEF CaptureSecret
  <2>3. CASE RestoreSecret
    BY <1>1, <2>1, <2>3, Names, KnownIsRemembered DEF RestoreSecret, IsMemoryOnly
  <2>4. CASE CloneVolatile
    BY <2>1, <2>4, Names, OriginsRest DEF CloneVolatile
  <2>5. CASE ~CaptureSecret /\ ~RestoreSecret /\ ~CloneVolatile
    <3>1. UNCHANGED origins
      BY <1>1, <2>5 DEF Next, vars, CaptureDurable, Delete, DeleteVolatile, FindToDelete, Found,
         RestoreDurable, SlotExpires, FindToClone, Clear, SetPinned, RefreshForMemory,
         PurgeVolatile, PublishPrune, MaintainStore, RunFind, RunJob, JobFails, AddVolatile,
         Merge, Publish, Expires, lanes
    <3> QED
      BY <3>1, OriginsRest
  <2> QED
    BY <2>2, <2>3, <2>4, <2>5
<1>2. HistoryInv /\ [Next]_vars => HistoryInv'
  BY <1>1, HistorySteps
<1> QED
  BY <1>2, HistoryStarts, SafetyFollows, PTL DEF Spec

-----------------------------------------------------------------------------
(* The window converges.  The snapshot of the latest version is shown or under *)
(* way to the window, and once nobody has a change left to announce it is a    *)
(* true one: nothing older can replace it and nothing newer is missing.        *)

\* What it should show.
Truth == Live(rows) \cup VolatileIds

\* An operation that has changed the lane and will number a snapshot for it.
Announces(o) == o.at = "queued" /\ o.lane /\ o.job # "maintain"

\* Every change since the latest version was given is still to be announced by nobody.
Settled == owed <= version /\ \A t \in Threads : ~Announces(op[t])

Carries(o, v) == o.at \in {"loaded", "merged"} /\ o.ver = v /\ v # 0
NewestIsUnderWay == latest = version \/ \E t \in Threads : Carries(op[t], version)

\* The snapshot of the latest version tells the truth, wherever it is.
NewestIsRight ==
    /\ latest = version => Live(gui) = Truth
    /\ \A t \in Threads : Carries(op[t], version) =>
         Live(op[t].clips) = IF op[t].at = "loaded" THEN Live(rows) ELSE Truth

Stages == {"idle", "origin", "queued", "found", "loaded", "merged", "pruning", "pruned"}
Work == [at : Stages, job : Jobs, clip : MaybeClip, original : MaybeClip, lane : BOOLEAN,
         ver : Nat, clips : SUBSET Clips]

\* An operation whose clip is one where it needs one, under a version that was given.
Working(o, v) ==
    /\ o \in Work /\ o.ver <= v
    /\ o.at = "origin" \/ o.job \in {"insert", "find to clone"} => o.clip \in Clips
    /\ o.at = "found" => o.job \in {"find", "find to clone"}
    /\ o.lane => o.job \notin {"find", "find to clone"}

OpsWork == op = [t \in Threads |-> op[t]] /\ \A t \in Threads : Working(op[t], version)

Shapes ==
    /\ version \in Nat /\ latest \in 0 .. version /\ owed \in 0 .. version + 1
    /\ rows \subseteq Clips /\ gui \subseteq Clips /\ slot \in MaybeClip
    /\ volatile \in Seq(Clips) /\ origins \in Seq(Clips)

WindowInv ==
    Shapes /\ OpsWork /\ QueueWaits /\ NewestIsUnderWay /\ (Settled => NewestIsRight)

-----------------------------------------------------------------------------
\* One thread moves on, in its turn.
LEMMA Turn ==
  ASSUME OpsWork, QueueWaits, NEW t \in Threads, NEW r, op' = [op EXCEPT ![t] = r],
         version \in Nat, version' \in Nat, version <= version', Working(r, version'),
         \/ queue' = queue /\ op[t].at # "queued"
         \/ queue' = Append(queue, t) /\ op[t].at # "queued" /\ r.at = "queued"
         \/ queue # <<>> /\ t = Head(queue) /\ queue' = Tail(queue)
  PROVE OpsWork' /\ QueueWaits' /\ op'[t] = r /\ \A u \in Threads : u # t => op'[u] = op[u]
<1>1. op' = [u \in Threads |-> op'[u]] /\ op'[t] = r /\ \A u \in Threads : u # t => op'[u] = op[u]
  BY DEF OpsWork
<1>2. ASSUME NEW u \in Threads, u # t PROVE Working(op[u], version')
  <2>1. Working(op[u], version)
    BY DEF OpsWork
  <2> DEFINE o == op[u]
  <2> HIDE DEF o
  <2>2. o \in Work /\ o.ver \in Nat /\ o.ver <= version
    BY <2>1 DEF Working, Work, o
  <2>3. o.ver <= version'
    BY ONLY <2>2, version \in Nat, version' \in Nat, version <= version'
  <2>4. Working(o, version')
    BY ONLY Zenon, <2>1, <2>2, <2>3 DEF Working, o
  <2> QED
    BY <2>4 DEF o
<1>3. OpsWork'
  BY <1>1, <1>2 DEF OpsWork
<1>4. QueueWaits'
  BY <1>1, QueueMoves
<1> QED
  BY <1>1, <1>3, <1>4

\* A step that brings no snapshot of the latest version, after which either somebody announces a change or
\* nothing that is to be shown has changed.
LEMMA Aside ==
  ASSUME WindowInv, NEW t \in Threads, NEW r, op' = [op EXCEPT ![t] = r], Working(r, version),
         \/ queue' = queue /\ op[t].at # "queued"
         \/ queue' = Append(queue, t) /\ op[t].at # "queued" /\ r.at = "queued"
         \/ queue # <<>> /\ t = Head(queue) /\ queue' = Tail(queue),
         ~Carries(op[t], version), ~Carries(r, version),
         UNCHANGED <<version, expired>>, latest' = latest, Shapes',
         \/ Announces(r) \/ owed' = version + 1
         \/ /\ Live(rows)' = Live(rows) /\ VolatileIds' = VolatileIds /\ Live(gui)' = Live(gui)
            /\ owed' = owed /\ ~Announces(op[t])
  PROVE WindowInv'
<1>0. /\ version \in Nat /\ version' = version /\ latest' = latest /\ OpsWork /\ QueueWaits
      /\ owed \in 0 .. version + 1
  BY DEF WindowInv, Shapes
<1>1. OpsWork' /\ QueueWaits' /\ op'[t] = r /\ \A u \in Threads : u # t => op'[u] = op[u]
  <2>1. version' \in Nat /\ version <= version' /\ Working(r, version')
    BY <1>0
  <2> QED
    BY ONLY <1>0, <2>1, Turn, t \in Threads, op' = [op EXCEPT ![t] = r],
         \/ queue' = queue /\ op[t].at # "queued"
         \/ queue' = Append(queue, t) /\ op[t].at # "queued" /\ r.at = "queued"
         \/ queue # <<>> /\ t = Head(queue) /\ queue' = Tail(queue)
<1>2. \A u \in Threads : Carries(op'[u], version') <=> Carries(op[u], version)
  BY <1>0, <1>1 DEF Carries
<1>3. \A u \in Threads : Carries(op[u], version) => op'[u] = op[u]
  BY <1>1 DEF Carries
<1>4. NewestIsUnderWay'
  BY <1>0, <1>2 DEF WindowInv, NewestIsUnderWay
<1>5. Settled' => NewestIsRight'
  <2> SUFFICES ASSUME Settled' PROVE NewestIsRight'
    OBVIOUS
  <2>1. ~Announces(r) /\ owed' # version + 1
    BY <1>0, <1>1 DEF Settled
  <2>2. /\ Live(rows)' = Live(rows) /\ VolatileIds' = VolatileIds /\ Live(gui)' = Live(gui)
        /\ owed' = owed /\ ~Announces(op[t])
    BY <2>1
  <2>3. Settled
    <3>1. owed <= version
      BY <1>0, <2>2 DEF Settled
    <3>2. \A u \in Threads : ~Announces(op[u])
      BY <1>1, <2>2 DEF Settled
    <3> QED
      BY <3>1, <3>2 DEF Settled
  <2>4. NewestIsRight
    BY <2>3 DEF WindowInv
  <2>5. Truth' = Truth
    BY <2>2 DEF Truth
  <2>6. latest' = version' => Live(gui)' = Truth'
    BY <1>0, <2>2, <2>4, <2>5 DEF NewestIsRight
  <2>7. ASSUME NEW u \in Threads, Carries(op'[u], version')
        PROVE op'[u].clips \ expired' = IF op'[u].at = "loaded" THEN Live(rows)' ELSE Truth'
    <3>1. Carries(op[u], version) /\ op'[u] = op[u]
      BY <1>2, <1>3, <2>7
    <3>2. op[u].clips \ expired = IF op[u].at = "loaded" THEN Live(rows) ELSE Truth
      BY <2>4, <3>1 DEF NewestIsRight, Live
    <3> QED
      BY <2>2, <2>5, <3>1, <3>2
  <2> QED
    BY <2>6, <2>7 DEF NewestIsRight, Live
<1> QED
  BY <1>1, <1>4, <1>5 DEF WindowInv

\* A thread begins an operation or hands a job to the owner: it announces the change it
\* has made to the lane, or it has made none that shows.
LEMMA WindowBegins ==
  ASSUME WindowInv, NEW t \in Threads,
         NEW at \in {"idle", "origin", "queued", "pruning"}, NEW job \in Jobs,
         NEW clip \in MaybeClip, NEW original \in MaybeClip, NEW lane \in BOOLEAN,
         at = "origin" \/ job \in {"insert", "find to clone"} => clip \in Clips,
         lane => job \notin {"find", "find to clone"},
         op' = [op EXCEPT ![t] = Begun(at, job, clip, original, lane)],
         queue' = queue \/ (queue' = Append(queue, t) /\ at = "queued"),
         op[t].at \in {"idle", "origin", "pruned"},
         UNCHANGED <<rows, expired, version, gui, latest, owed>>,
         volatile' \in Seq(Clips), origins' \in Seq(Clips), slot' \in MaybeClip,
         (at = "queued" /\ lane /\ job # "maintain") \/ VolatileIds' = VolatileIds
  PROVE WindowInv'
<1> DEFINE r == Begun(at, job, clip, original, lane)
<1>1. version \in Nat
  BY DEF WindowInv, Shapes
<1>2. op' = [op EXCEPT ![t] = r]
  OBVIOUS
<1>3. Working(r, version) /\ r.at = at /\ r.job = job /\ r.lane = lane
  <2>1. r.at = at /\ r.job = job /\ r.clip = clip /\ r.lane = lane /\ r.ver = 0
    BY DEF Begun
  <2>2. r \in Work
    BY DEF Begun, Work, Stages
  <2> HIDE DEF r
  <2>3. r.ver <= version
    BY ONLY <1>1, <2>1
  <2> QED
    BY <2>1, <2>2, <2>3 DEF Working
<1> HIDE DEF r
<1>4. /\ op[t].at # "queued" /\ ~Carries(op[t], version)
      /\ ~Carries(r, version) /\ ~Announces(op[t])
  BY <1>3 DEF Announces, Carries
<1>5. UNCHANGED <<version, expired>> /\ latest' = latest /\ Shapes'
  BY DEF WindowInv, Shapes
<1>6. \/ Announces(r)
      \/ /\ Live(rows)' = Live(rows) /\ VolatileIds' = VolatileIds /\ Live(gui)' = Live(gui)
         /\ owed' = owed /\ ~Announces(op[t])
  BY <1>3, <1>4 DEF Announces, Live
<1>7. \/ queue' = queue /\ op[t].at # "queued"
      \/ queue' = Append(queue, t) /\ op[t].at # "queued" /\ r.at = "queued"
  BY <1>3, <1>4
<1> QED
  BY ONLY WindowInv, <1>2, <1>3, <1>4, <1>5, <1>6, <1>7, Aside, t \in Threads

LEMMA IdleWorks == ASSUME NEW v \in Nat PROVE Working(Idle, v) /\ Idle.at = "idle"
<1>1. /\ Idle.at = "idle" /\ Idle.ver = 0 /\ Idle.job = "refresh" /\ Idle.lane = FALSE /\ Idle \in Work
  BY Names DEF Idle, Begun, Work, Stages
<1> QED
  BY <1>1 DEF Working

LEMMA LaneRests == ASSUME UNCHANGED <<volatile, expired>> PROVE VolatileIds' = VolatileIds
BY DEF VolatileIds, Live

LEMMA WindowKnows ==
  ASSUME WindowInv
  PROVE /\ version \in Nat /\ latest \in 0 .. version /\ owed \in 0 .. version + 1
        /\ rows \subseteq Clips /\ gui \subseteq Clips /\ slot \in MaybeClip
        /\ volatile \in Seq(Clips) /\ origins \in Seq(Clips) /\ queue \in Seq(Threads)
        /\ \A t \in Threads : Working(op[t], version)
BY DEF WindowInv, Shapes, OpsWork, QueueWaits

\* The owner's next thread.
LEMMA WindowHead ==
  ASSUME WindowInv, queue # <<>>
  PROVE /\ Head(queue) \in Threads /\ op[Head(queue)].at = "queued"
        /\ Working(op[Head(queue)], version)
<1>1. queue \in Seq(Threads) /\ \A i \in 1..Len(queue) : op[queue[i]].at = "queued"
  BY DEF WindowInv, QueueWaits
<1>2. Head(queue) = queue[1] /\ 1 \in 1..Len(queue) /\ queue[1] \in Threads
  BY <1>1
<1> QED
  BY <1>1, <1>2, WindowKnows

\* A job is handed to the owner, and nothing that shows has changed.
LEMMA WindowAsks ==
  ASSUME WindowInv, NEW t \in Threads, NEW job \in Jobs, NEW clip \in MaybeClip,
         job \in {"insert", "find to clone"} => clip \in Clips,
         Queued(t, job, clip, FALSE), IsIdle(t),
         UNCHANGED <<rows, lanes, expired, version, gui, latest, owed>>, slot' \in MaybeClip
  PROVE WindowInv'
<1>1. /\ queue' = Append(queue, t) /\ op' = [op EXCEPT ![t] = Begun("queued", job, clip, NoClip, FALSE)]
      /\ FALSE \in BOOLEAN /\ NoClip \in MaybeClip /\ op[t].at = "idle"
  BY Names DEF Queued, IsIdle
<1>2. /\ volatile' \in Seq(Clips) /\ origins' \in Seq(Clips) /\ VolatileIds' = VolatileIds
      /\ UNCHANGED <<rows, expired, version, gui, latest, owed>>
  BY WindowKnows, LaneRests DEF lanes
<1> QED
  BY <1>1, <1>2, WindowBegins

\* insert_volatile remembers the origin.
LEMMA WindowOrigin ==
  ASSUME WindowInv, NEW t \in Threads, NEW c \in Clips, AddOrigin(t, c),
         UNCHANGED <<rows, volatile, expired, version, queue, gui, latest, owed>>,
         slot' \in MaybeClip
  PROVE WindowInv'
<1>1. /\ op' = [op EXCEPT ![t] = Begun("origin", "refresh", c, NoClip, FALSE)]
      /\ FALSE \in BOOLEAN /\ NoClip \in MaybeClip /\ op[t].at = "idle" /\ c \in MaybeClip
      /\ "refresh" \in Jobs
  BY Names DEF AddOrigin, MayStart, IsIdle, MaybeClip
<1>2. origins' \in Seq(Clips)
  <2> DEFINE others == Keeping(origins, Clips \ {c})
             kept == Append(others, c)
  <2>1. others \in Seq(Clips)
    BY WindowKnows, KeepingIs
  <2>2. origins' = IF Len(kept) > MaxOrigins THEN Tail(kept) ELSE kept
    BY DEF AddOrigin
  <2> HIDE DEF others
  <2>3. kept \in Seq(Clips) /\ kept # <<>>
    <3>1. kept \in Seq(Clips) /\ Len(kept) = Len(others) + 1 /\ Len(others) \in Nat
      BY <2>1
    <3> HIDE DEF kept
    <3> QED
      BY <3>1
  <2> HIDE DEF kept
  <2>4. Tail(kept) \in Seq(Clips)
    BY ONLY <2>3, TailLists
  <2> QED
    BY <2>2, <2>3, <2>4
<1>3. volatile' \in Seq(Clips) /\ VolatileIds' = VolatileIds /\ queue' = queue
  BY WindowKnows, LaneRests
<1> QED
  BY <1>1, <1>2, <1>3, WindowBegins

-----------------------------------------------------------------------------
(* Every step keeps the window's invariant. *)

LEMMA CaptureDurableShown == ASSUME WindowInv, CaptureDurable PROVE WindowInv'
<1>1. PICK c \in NewClips \ Secrets : Insert(Capture, c)
  BY DEF CaptureDurable
<1>2. /\ c \in Clips /\ c \in MaybeClip /\ "insert" \in Jobs /\ Capture \in Threads
      /\ Queued(Capture, "insert", c, FALSE) /\ IsIdle(Capture)
      /\ UNCHANGED <<rows, lanes, expired, version, gui, latest, owed>> /\ slot' \in MaybeClip
  BY <1>1, Names, WindowKnows DEF CaptureDurable, NewClips, Insert, MayStart, MaybeClip, store, undo, shown
<1> QED
  BY <1>2, WindowAsks

LEMMA CaptureSecretShown == ASSUME WindowInv, CaptureSecret PROVE WindowInv'
<1>1. PICK c \in NewClips \cap Secrets : AddOrigin(Capture, c)
  BY DEF CaptureSecret
<1>2. /\ c \in Clips /\ Capture \in Threads /\ slot' \in MaybeClip
      /\ UNCHANGED <<rows, volatile, expired, version, queue, gui, latest, owed>>
  BY Names, WindowKnows DEF CaptureSecret, NewClips, store, undo, shown
<1> QED
  BY <1>1, <1>2, WindowOrigin

LEMMA DeleteVolatileShown ==
  ASSUME WindowInv, NEW c \in gui, DeleteVolatile(c) PROVE WindowInv'
<1>1. /\ UI \in Threads /\ "refresh" \in Jobs /\ NoClip \in MaybeClip /\ TRUE \in BOOLEAN
      /\ queue' = Append(queue, UI)
      /\ op' = [op EXCEPT ![UI] = Begun("queued", "refresh", NoClip, NoClip, TRUE)]
      /\ op[UI].at = "idle" /\ UNCHANGED <<rows, expired, version, gui, latest, owed>>
      /\ "refresh" \notin {"insert", "find to clone"} /\ "refresh" \notin {"find", "find to clone"}
      /\ "refresh" # "maintain"
  BY Names DEF DeleteVolatile, MayStart, IsIdle, Queued, store, shown
<1>2. volatile' \in Seq(Clips) /\ origins' \in Seq(Clips) /\ slot' \in MaybeClip
  BY WindowKnows, KeepingIs DEF DeleteVolatile, MaybeClip
<1> QED
  BY <1>1, <1>2, WindowBegins

LEMMA FindToDeleteShown ==
  ASSUME WindowInv, NEW c \in gui, FindToDelete(c) PROVE WindowInv'
<1>1. /\ c \in Clips /\ c \in MaybeClip /\ "find" \in Jobs /\ UI \in Threads
      /\ Queued(UI, "find", c, FALSE) /\ IsIdle(UI)
      /\ UNCHANGED <<rows, lanes, expired, version, gui, latest, owed>> /\ slot' \in MaybeClip
  BY Names, WindowKnows DEF FindToDelete, MayStart, MaybeClip, store, shown
<1> QED
  BY <1>1, WindowAsks

LEMMA RestoreSecretShown == ASSUME WindowInv, RestoreSecret PROVE WindowInv'
<1>1. /\ slot \in Clips /\ UI \in Threads /\ slot' \in MaybeClip /\ AddOrigin(UI, slot)
      /\ UNCHANGED <<rows, volatile, expired, version, queue, gui, latest, owed>>
  BY Names, WindowKnows DEF RestoreSecret, MaybeClip, store, shown
<1> QED
  BY <1>1, WindowOrigin

LEMMA RestoreDurableShown == ASSUME WindowInv, RestoreDurable PROVE WindowInv'
<1>1. /\ slot \in Clips /\ slot \in MaybeClip /\ "insert" \in Jobs /\ UI \in Threads
      /\ Queued(UI, "insert", slot, FALSE) /\ IsIdle(UI)
      /\ UNCHANGED <<rows, lanes, expired, version, gui, latest, owed>> /\ slot' \in MaybeClip
  BY Names, WindowKnows DEF RestoreDurable, Insert, MayStart, MaybeClip, store, shown
<1> QED
  BY <1>1, WindowAsks

LEMMA CloneVolatileShown == ASSUME WindowInv, CloneVolatile PROVE WindowInv'
<1>1. PICK source \in gui \cap VolatileIds, c \in NewClips \cap Secrets :
          IF IsMemoryOnly(source) THEN AddOrigin(UI, c) /\ UNCHANGED queue
                                  ELSE Insert(UI, c) /\ UNCHANGED origins
  BY DEF CloneVolatile
<1>2. /\ c \in Clips /\ c \in MaybeClip /\ UI \in Threads /\ slot' \in MaybeClip /\ "insert" \in Jobs
      /\ UNCHANGED <<rows, volatile, expired, version, gui, latest, owed>>
  BY Names, WindowKnows DEF CloneVolatile, NewClips, MaybeClip, store, undo, shown
<1>3. CASE AddOrigin(UI, c) /\ UNCHANGED queue
  BY <1>2, <1>3, WindowOrigin
<1>4. CASE Insert(UI, c) /\ UNCHANGED origins
  <2>1. Queued(UI, "insert", c, FALSE) /\ IsIdle(UI) /\ UNCHANGED lanes
    BY <1>2, <1>4 DEF Insert, MayStart, lanes
  <2> QED
    BY <1>2, <2>1, WindowAsks
<1> QED
  BY <1>1, <1>3, <1>4

LEMMA FindToCloneShown == ASSUME WindowInv, FindToClone PROVE WindowInv'
<1>1. PICK source \in gui \ VolatileIds, c \in NewClips \ Secrets :
        /\ queue' = Append(queue, UI)
        /\ op' = [op EXCEPT ![UI] = Begun("queued", "find to clone", c, source, FALSE)]
  BY DEF FindToClone
<1>2. /\ UI \in Threads /\ "find to clone" \in Jobs /\ c \in MaybeClip /\ source \in MaybeClip
      /\ FALSE \in BOOLEAN /\ c \in Clips /\ op[UI].at = "idle"
      /\ UNCHANGED <<rows, expired, version, gui, latest, owed>> /\ UNCHANGED <<volatile, origins, slot>>
  BY Names, WindowKnows DEF FindToClone, NewClips, MaybeClip, MayStart, IsIdle, store, lanes, undo, shown
<1>3. volatile' \in Seq(Clips) /\ origins' \in Seq(Clips) /\ slot' \in MaybeClip /\ VolatileIds' = VolatileIds
  BY <1>2, WindowKnows, LaneRests
<1> QED
  BY <1>1, <1>2, <1>3, WindowBegins

LEMMA ClearShown == ASSUME WindowInv, Clear PROVE WindowInv'
<1>1. /\ UI \in Threads /\ "clear" \in Jobs /\ NoClip \in MaybeClip /\ TRUE \in BOOLEAN
      /\ queue' = Append(queue, UI)
      /\ op' = [op EXCEPT ![UI] = Begun("queued", "clear", NoClip, NoClip, TRUE)]
      /\ op[UI].at = "idle" /\ UNCHANGED <<rows, expired, version, gui, latest, owed>>
      /\ "clear" \notin {"insert", "find to clone"} /\ "clear" \notin {"find", "find to clone"}
      /\ "clear" # "maintain"
  BY Names DEF Clear, MayStart, IsIdle, Queued, store, shown
<1>2. volatile' \in Seq(Clips) /\ origins' \in Seq(Clips) /\ slot' \in MaybeClip
  BY WindowKnows DEF Clear
<1> QED
  BY <1>1, <1>2, WindowBegins

LEMMA SetPinnedShown == ASSUME WindowInv, SetPinned PROVE WindowInv'
<1>1. PICK c \in gui, job \in {"pin", "unpin"} : MayStart(UI) /\ Queued(UI, job, c, FALSE)
  BY DEF SetPinned
<1>2. /\ UI \in Threads /\ job \in Jobs /\ c \in MaybeClip /\ c \in Clips /\ IsIdle(UI)
      /\ UNCHANGED <<rows, lanes, expired, version, gui, latest, owed>> /\ slot' \in MaybeClip
  BY <1>1, Names, WindowKnows DEF SetPinned, MayStart, MaybeClip, store, undo, shown
<1> QED
  BY <1>1, <1>2, WindowAsks

LEMMA RefreshForMemoryShown == ASSUME WindowInv, RefreshForMemory PROVE WindowInv'
<1>1. /\ Maintenance \in Threads /\ "trim" \in Jobs /\ NoClip \in MaybeClip /\ IsIdle(Maintenance)
      /\ Queued(Maintenance, "trim", NoClip, FALSE) /\ "trim" \notin {"insert", "find to clone"}
      /\ UNCHANGED <<rows, lanes, expired, version, gui, latest, owed>> /\ slot' \in MaybeClip
  BY Names, WindowKnows DEF RefreshForMemory, MayStart, store, undo, shown
<1> QED
  BY <1>1, WindowAsks

\* insert_volatile's second lock: the lane changes, and the operation will announce it.
LEMMA AddVolatileShown == ASSUME WindowInv, NEW t \in Threads, AddVolatile(t) PROVE WindowInv'
<1> DEFINE c == op[t].clip
           kept == Keeping(volatile, {v \in Clips : Content[v] # Content[c]} \ expired)
           all == <<c>> \o kept
           n == IF Len(kept) < MaxVolatile THEN Len(kept) + 1 ELSE MaxVolatile
<1>1. /\ "refresh" \in Jobs /\ NoClip \in MaybeClip /\ TRUE \in BOOLEAN
      /\ queue' = Append(queue, t)
      /\ op' = [op EXCEPT ![t] = Begun("queued", "refresh", NoClip, NoClip, TRUE)]
      /\ op[t].at = "origin" /\ UNCHANGED <<rows, expired, version, gui, latest, owed>>
      /\ "refresh" \notin {"insert", "find to clone"} /\ "refresh" \notin {"find", "find to clone"}
      /\ "refresh" # "maintain" /\ UNCHANGED <<origins, slot>>
  BY Names DEF AddVolatile, Queued, store, shown, undo
<1>2. volatile' = SubSeq(all, 1, n)
  BY DEF AddVolatile
<1>3. c \in Clips /\ volatile \in Seq(Clips) /\ MaxVolatile \in Nat \ {0}
  BY <1>1, WindowKnows, ConstantsAssumption DEF Working
<1> HIDE DEF c
<1>4. kept \in Seq(Clips)
  BY <1>3, KeepingIs
<1> HIDE DEF kept
<1>5. all \in Seq(Clips) /\ n \in 1 .. Len(all)
  BY <1>3, <1>4
<1> HIDE DEF all, n
<1>6. SubSeq(all, 1, n) \in Seq(Clips)
  BY <1>5
<1>7. volatile' \in Seq(Clips) /\ origins' \in Seq(Clips) /\ slot' \in MaybeClip
  BY <1>1, <1>2, <1>6, WindowKnows
<1> QED
  BY <1>1, <1>7, WindowBegins

\* purge_expired_volatile removes what no longer shows.
LEMMA PurgeVolatileShown == ASSUME WindowInv, PurgeVolatile PROVE WindowInv'
<1> DEFINE kept == Keeping(volatile, Clips \ expired)
           lane == kept # volatile
<1>1. /\ Maintenance \in Threads /\ "maintain" \in Jobs /\ NoClip \in MaybeClip /\ lane \in BOOLEAN
      /\ op' = [op EXCEPT ![Maintenance] = Begun("pruning", "maintain", NoClip, NoClip, lane)]
      /\ op[Maintenance].at = "idle" /\ UNCHANGED <<rows, expired, version, gui, latest, owed>>
      /\ "maintain" \notin {"insert", "find to clone"} /\ "maintain" \notin {"find", "find to clone"}
      /\ UNCHANGED <<origins, slot, queue>> /\ volatile' = kept
  BY Names DEF PurgeVolatile, MayStart, IsIdle, store, shown
<1> HIDE DEF lane
<1>2. kept \in Seq(Clips) /\ Listed(kept) = Listed(volatile) \cap (Clips \ expired)
  BY WindowKnows, KeepingIs
<1> HIDE DEF kept
<1>3. ToSet(kept) = Listed(kept) /\ ToSet(volatile) = Listed(volatile) /\ Listed(volatile) \subseteq Clips
  BY <1>2, WindowKnows, ToSetLists
<1>4. ToSet(kept) \ expired = ToSet(volatile) \ expired
  BY <1>2, <1>3
<1>5. VolatileIds' = VolatileIds
  BY <1>1, <1>4 DEF VolatileIds, Live
<1>6. volatile' \in Seq(Clips) /\ origins' \in Seq(Clips) /\ slot' \in MaybeClip
  BY <1>1, <1>2, WindowKnows
<1> QED
  BY <1>1, <1>5, <1>6, WindowBegins

\* A thread takes its operation on, and nothing that shows has changed.
LEMMA WindowOnward ==
  ASSUME WindowInv, NEW t \in Threads, NEW r, op' = [op EXCEPT ![t] = r], Working(r, version),
         \/ queue' = queue /\ op[t].at # "queued"
         \/ queue' = Append(queue, t) /\ op[t].at # "queued" /\ r.at = "queued"
         \/ queue # <<>> /\ t = Head(queue) /\ queue' = Tail(queue),
         op[t].at \in {"found", "pruning", "pruned", "queued"}, r.at \notin {"loaded", "merged"},
         ~Announces(op[t]), gui' \subseteq Clips, Live(gui)' = Live(gui),
         UNCHANGED <<rows, volatile, origins, expired, version, slot, latest, owed>>
  PROVE WindowInv'
<1>1. /\ UNCHANGED <<version, expired>> /\ latest' = latest
      /\ ~Carries(op[t], version) /\ ~Carries(r, version)
      /\ Live(rows)' = Live(rows) /\ owed' = owed /\ VolatileIds' = VolatileIds
  BY LaneRests DEF Live, Carries
<1>2. Shapes'
  BY DEF WindowInv, Shapes
<1> QED
  BY ONLY WindowInv, <1>1, <1>2, Aside, t \in Threads, op' = [op EXCEPT ![t] = r],
     Working(r, version), ~Announces(op[t]), Live(gui)' = Live(gui),
     \/ queue' = queue /\ op[t].at # "queued"
     \/ queue' = Append(queue, t) /\ op[t].at # "queued" /\ r.at = "queued"
     \/ queue # <<>> /\ t = Head(queue) /\ queue' = Tail(queue)

LEMMA PublishPruneShown == ASSUME WindowInv, PublishPrune PROVE WindowInv'
<1> DEFINE o == op[Maintenance]
           r == [o EXCEPT !.at = "pruned"]
<1>1. /\ Maintenance \in Threads /\ o.at = "pruning" /\ Working(o, version) /\ ~Announces(o)
      /\ op' = [op EXCEPT ![Maintenance] = r] /\ queue' = queue /\ gui' = Live(gui)
      /\ UNCHANGED <<rows, volatile, origins, expired, version, slot, latest, owed>>
  BY Names, WindowKnows DEF PublishPrune, Announces, store, lanes, undo
<1>2. gui' \subseteq Clips /\ Live(gui)' = Live(gui)
  BY <1>1, WindowKnows DEF Live
<1>3. /\ r \in Work /\ r.at = "pruned" /\ r.job = o.job /\ r.clip = o.clip /\ r.lane = o.lane
      /\ r.ver = o.ver
  BY <1>1 DEF Working, Work, Stages
<1> HIDE DEF r
<1>4. Working(r, version)
  BY <1>1, <1>3 DEF Working
<1> QED
  BY <1>1, <1>2, <1>3, <1>4, WindowOnward

LEMMA MaintainStoreShown == ASSUME WindowInv, MaintainStore PROVE WindowInv'
<1> DEFINE o == op[Maintenance]
           r == [o EXCEPT !.at = "queued"]
<1>1. /\ Maintenance \in Threads /\ o.at = "pruned" /\ Working(o, version) /\ ~Announces(o)
      /\ UNCHANGED <<rows, volatile, origins, expired, version, slot, latest, owed>>
      /\ gui' \subseteq Clips /\ Live(gui)' = Live(gui)
  BY Names, WindowKnows DEF MaintainStore, Announces, Live, store, lanes, undo, shown
<1>2. CASE OwnerFree
  <2>1. op' = [op EXCEPT ![Maintenance] = r] /\ queue' = Append(queue, Maintenance)
    BY <1>2 DEF MaintainStore, OwnerFree
  <2>2. /\ r \in Work /\ r.at = "queued" /\ r.job = o.job /\ r.clip = o.clip /\ r.lane = o.lane
        /\ r.ver = o.ver
    BY <1>1 DEF Working, Work, Stages
  <2> HIDE DEF r
  <2>3. Working(r, version)
    BY <1>1, <2>2 DEF Working
  <2> QED
    BY <1>1, <2>1, <2>2, <2>3, WindowOnward
<1>3. CASE ~OwnerFree
  <2>1. op' = [op EXCEPT ![Maintenance] = Idle] /\ queue' = queue
    BY <1>3 DEF MaintainStore
  <2>2. Working(Idle, version) /\ Idle.at = "idle"
    BY IdleWorks, WindowKnows
  <2> QED
    BY <1>1, <2>1, <2>2, WindowOnward
<1> QED
  BY <1>2, <1>3

LEMMA FoundShown == ASSUME WindowInv, Found PROVE WindowInv'
<1> DEFINE o == op[UI]
           job == IF o.job = "find" THEN "delete" ELSE "insert"
           r == [o EXCEPT !.at = "queued", !.job = job]
<1>1. /\ UI \in Threads /\ o.at = "found" /\ Working(o, version) /\ ~Announces(o)
      /\ op' = [op EXCEPT ![UI] = r] /\ queue' = Append(queue, UI)
      /\ UNCHANGED <<rows, volatile, origins, expired, version, slot, latest, owed>>
      /\ gui' \subseteq Clips /\ Live(gui)' = Live(gui)
  BY Names, WindowKnows DEF Found, Announces, Live, store, lanes, undo, shown
<1>2. o.job \in {"find", "find to clone"} /\ (o.job # "find" => o.clip \in Clips)
  BY <1>1 DEF Working
<1>3. /\ r \in Work /\ r.at = "queued" /\ r.job = job /\ r.clip = o.clip /\ r.lane = o.lane
      /\ r.ver = o.ver
  BY <1>1, Names DEF Working, Work, Stages
<1> HIDE DEF r
<1>4. Working(r, version)
  BY <1>1, <1>2, <1>3 DEF Working
<1> QED
  BY <1>1, <1>3, <1>4, WindowOnward

LEMMA RunFindShown == ASSUME WindowInv, RunFind PROVE WindowInv'
<1> DEFINE t == Head(queue)
           o == op[t]
           r == Looked(o)
<1>1. /\ t \in Threads /\ o.at = "queued" /\ Working(o, version) /\ o.job \in {"find", "find to clone"}
      /\ op' = [op EXCEPT ![t] = r] /\ queue # <<>> /\ queue' = Tail(queue)
      /\ UNCHANGED <<rows, volatile, origins, expired, version, slot, latest, owed>>
      /\ gui' \subseteq Clips /\ Live(gui)' = Live(gui)
  BY WindowHead, WindowKnows DEF RunFind, Live, store, lanes, undo, shown
<1>2. ~Announces(o)
  BY <1>1 DEF Working, Announces
<1>3. Working(r, version) /\ r.at \in {"found", "idle"}
  <2>1. CASE r = Idle
    BY <2>1, IdleWorks, WindowKnows
  <2>2. ASSUME NEW x \in MaybeClip, r = [o EXCEPT !.at = "found", !.original = x]
        PROVE Working(r, version) /\ r.at = "found"
    <3>1. /\ r \in Work /\ r.at = "found" /\ r.job = o.job /\ r.clip = o.clip /\ r.lane = o.lane
          /\ r.ver = o.ver
      BY <1>1, <2>2 DEF Working, Work, Stages
    <3> HIDE DEF r
    <3> QED
      BY <1>1, <3>1 DEF Working
  <2>3. o.clip \in MaybeClip /\ NoClip \in MaybeClip
    BY <1>1, Names DEF Working, Work
  <2> QED
    BY <2>1, <2>2, <2>3 DEF Looked
<1> HIDE DEF r, t
<1>4. r.at \notin {"loaded", "merged"}
  BY <1>3
<1>5. \/ queue' = queue /\ op[t].at # "queued"
      \/ queue' = Append(queue, t) /\ op[t].at # "queued" /\ r.at = "queued"
      \/ queue # <<>> /\ t = Head(queue) /\ queue' = Tail(queue)
  BY <1>1 DEF t
<1> QED
  BY ONLY WindowInv, <1>1, <1>2, <1>3, <1>4, <1>5, WindowOnward

LEMMA AppliedIsClips ==
  ASSUME WindowInv, NEW job, NEW c, job = "insert" => c \in Clips
  PROVE Applied(job, c) \subseteq SUBSET Clips
<1>1. rows \subseteq Clips
  BY WindowKnows
<1>2. CASE job = "insert"
  <2>1. rows \cup {c} \subseteq Clips
    BY <1>1, <1>2
  <2>2. Inserted(c) \subseteq SUBSET (rows \cup {c})
    BY DEF Inserted
  <2> QED
    BY <1>2, <2>1, <2>2 DEF Applied
<1>3. CASE job # "insert"
  BY <1>1, <1>3 DEF Applied, Maintained, Live
<1> QED
  BY <1>2, <1>3

\* A failed job that changed what is to be shown leaves its version owed.
LEMMA JobFailsShown == ASSUME WindowInv, JobFails PROVE WindowInv'
<1> DEFINE t == Head(queue)
           o == op[t]
           half == IF o.job = "insert" THEN {rows, rows \cup {o.clip}} ELSE {rows}
<1>1. /\ t \in Threads /\ o.at = "queued" /\ Working(o, version) /\ queue # <<>> /\ queue' = Tail(queue)
      /\ UNCHANGED <<volatile, origins, expired, version, slot, gui>> /\ latest' = latest
      /\ op' = [op EXCEPT ![t] = Idle]
  BY WindowHead DEF JobFails, undo, shown, lanes
<1>2. PICK kept \in half \cup Applied(o.job, o.clip) :
        /\ rows' = kept
        /\ owed' = IF (o.lane /\ o.job # "maintain") \/ Live(kept) # Live(rows)
                     THEN version + 1 ELSE owed
  BY DEF JobFails
<1> HIDE DEF t
<1>3. kept \subseteq Clips
  <2>1. o.job = "insert" => o.clip \in Clips
    BY <1>1 DEF Working
  <2> QED
    BY <1>2, <2>1, AppliedIsClips, WindowKnows
<1>4. Shapes'
  BY <1>1, <1>2, <1>3, WindowKnows DEF Shapes
<1>5. /\ UNCHANGED <<version, expired>> /\ latest' = latest
      /\ ~Carries(op[t], version) /\ ~Carries(Idle, version) /\ Working(Idle, version)
  BY <1>1, IdleWorks, WindowKnows DEF Carries
<1>6. \/ owed' = version + 1
      \/ /\ Live(rows)' = Live(rows) /\ VolatileIds' = VolatileIds /\ Live(gui)' = Live(gui)
         /\ owed' = owed /\ ~Announces(op[t])
  <2>1. VolatileIds' = VolatileIds /\ Live(gui)' = Live(gui)
    BY <1>1, LaneRests DEF Live
  <2>2. Live(kept) = Live(rows) => Live(rows)' = Live(rows)
    BY <1>1, <1>2 DEF Live
  <2> QED
    BY <1>2, <2>1, <2>2 DEF Announces
<1>7. queue # <<>> /\ t = Head(queue) /\ queue' = Tail(queue)
  BY <1>1 DEF t
<1> QED
  BY ONLY WindowInv, <1>1, <1>4, <1>5, <1>6, <1>7, Aside

\* What the presenter needs of a step that moves one operation: nobody else moves.
LEMMA Others ==
  ASSUME WindowInv, NEW t \in Threads, NEW r, op' = [op EXCEPT ![t] = r]
  PROVE op'[t] = r /\ \A u \in Threads : u # t => op'[u] = op[u]
<1>1. op = [u \in Threads |-> op[u]]
  BY DEF WindowInv, OpsWork
<1> QED
  BY <1>1

\* The owner numbers a snapshot of what it stored: the newest, and true so far.
LEMMA RunJobShown == ASSUME WindowInv, RunJob PROVE WindowInv'
<1> DEFINE t == Head(queue)
           o == op[t]
<1>1. /\ t \in Threads /\ o.at = "queued" /\ Working(o, version) /\ queue # <<>> /\ queue' = Tail(queue)
      /\ UNCHANGED <<volatile, origins, expired, slot, gui, owed>> /\ latest' = latest
      /\ o.job \notin {"find", "find to clone"}
  BY WindowHead DEF RunJob, undo, shown, lanes
<1>2. PICK kept \in Applied(o.job, o.clip) :
        LET ver == IF Publishes(o, kept) THEN version + 1 ELSE 0
        IN  /\ rows' = kept
            /\ pinned' = Pinned(o.job, o.clip) \cap kept
            /\ version' = IF ver = 0 THEN version ELSE ver
            /\ op' = [op EXCEPT ![t] = [o EXCEPT !.at = "loaded", !.ver = ver,
                                                 !.clips = Live(kept)]]
  BY DEF RunJob
<1> DEFINE ver == IF Publishes(o, kept) THEN version + 1 ELSE 0
           r == [o EXCEPT !.at = "loaded", !.ver = ver, !.clips = Live(kept)]
<1>3. /\ rows' = kept /\ op' = [op EXCEPT ![t] = r]
      /\ version' = IF ver = 0 THEN version ELSE ver
  BY <1>2
<1>4. /\ version \in Nat /\ latest \in 0 .. version /\ owed \in 0 .. version + 1
      /\ OpsWork /\ QueueWaits
  BY WindowKnows DEF WindowInv
<1>5. kept \subseteq Clips
  <2>1. o.job = "insert" => o.clip \in Clips
    BY <1>1 DEF Working
  <2> QED
    BY <1>2, <2>1, AppliedIsClips
<1>6. /\ ver \in {0, version + 1} /\ ver \in Nat
      /\ ver = 0 => version' = version /\ ~Publishes(o, kept)
      /\ ver # 0 => ver = version + 1 /\ version' = version + 1
  BY <1>3, <1>4
<1> HIDE DEF t, ver
<1>7. /\ r \in Work /\ r.at = "loaded" /\ r.job = o.job /\ r.clip = o.clip /\ r.lane = o.lane
      /\ r.ver = ver /\ r.clips = Live(kept)
  BY <1>1, <1>5, <1>6 DEF Working, Work, Stages, Live
<1> HIDE DEF r
<1>8. Working(r, version') /\ version' \in Nat /\ version <= version' /\ ver <= version'
  <2>1. version' \in Nat /\ version <= version' /\ ver <= version'
    BY ONLY <1>4, <1>6
  <2> QED
    BY <1>1, <1>7, <2>1 DEF Working
<1>9. queue # <<>> /\ t = Head(queue) /\ queue' = Tail(queue)
  BY <1>1 DEF t
<1>10. Shapes'
  <2>1. latest' \in 0 .. version' /\ owed' \in 0 .. version' + 1
    <3>1. latest' = latest /\ owed' = owed
      BY <1>1
    <3>2. /\ version' \in Nat /\ version <= version' /\ version \in Nat
          /\ latest \in 0 .. version /\ owed \in 0 .. version + 1
      BY <1>4, <1>8
    <3> DEFINE w == version'
    <3>3. w \in Nat /\ version <= w
      BY <3>2
    <3> HIDE DEF w
    <3>4. latest \in 0 .. w /\ owed \in 0 .. w + 1
      BY ONLY <3>2, <3>3
    <3> QED
      BY <3>1, <3>4 DEF w
  <2> QED
    BY <1>1, <1>3, <1>5, <1>8, <2>1, WindowKnows DEF Shapes
<1>11. CASE ver = 0
  <2>1. version' = version /\ o.job = "maintain" /\ kept = rows
    BY <1>6, <1>11 DEF Publishes
  <2>2. /\ ~Announces(op[t]) /\ ~Carries(op[t], version) /\ ~Carries(r, version)
        /\ Live(rows)' = Live(rows) /\ VolatileIds' = VolatileIds /\ Live(gui)' = Live(gui)
        /\ owed' = owed /\ UNCHANGED <<version, expired>> /\ latest' = latest
        /\ Working(r, version)
    BY <1>1, <1>3, <1>7, <1>8, <1>11, <2>1, LaneRests DEF Announces, Carries, Live
  <2> QED
    BY ONLY WindowInv, <1>1, <1>3, <1>9, <1>10, <2>2, Aside
<1>12. CASE ver # 0
  <2>1. OpsWork' /\ QueueWaits' /\ op'[t] = r /\ \A u \in Threads : u # t => op'[u] = op[u]
    BY ONLY <1>1, <1>3, <1>4, <1>8, <1>9, Turn
  <2>2. ver = version' /\ version' = version + 1
    BY <1>6, <1>12
  <2>3. Carries(op'[t], version')
    BY <1>7, <1>12, <2>1, <2>2 DEF Carries
  <2>4. ASSUME NEW u \in Threads, u # t PROVE ~Carries(op'[u], version')
    <3> DEFINE p == op[u]
    <3>1. op'[u] = p /\ Working(p, version)
      BY <2>1, <2>4, WindowKnows
    <3> HIDE DEF p
    <3>2. p.ver \in Nat /\ p.ver <= version
      BY <3>1 DEF Working, Work
    <3>3. p.ver # version'
      BY ONLY <1>4, <2>2, <3>2
    <3> QED
      BY <3>1, <3>3 DEF Carries
  <2>5. latest' # version'
    <3>1. latest' = latest /\ version \in Nat /\ latest \in 0 .. version
      BY <1>1, <1>4
    <3> QED
      BY ONLY <2>2, <3>1
  <2>6. op'[t].clips \ expired' = rows' \ expired' /\ op'[t].at = "loaded"
    BY <1>1, <1>3, <1>7, <2>1 DEF Live
  <2>7. NewestIsUnderWay'
    BY <1>1, <2>3 DEF NewestIsUnderWay
  <2>8. NewestIsRight'
    BY <2>4, <2>5, <2>6 DEF NewestIsRight, Live
  <2> QED
    BY <1>10, <2>1, <2>7, <2>8 DEF WindowInv
<1> QED
  BY <1>11, <1>12

\* merge_volatile adds the lane as it is now.
LEMMA MergeShown == ASSUME WindowInv, NEW t \in Threads, Merge(t) PROVE WindowInv'
<1> DEFINE o == op[t]
           clips == IF o.ver = 0 THEN {} ELSE o.clips \cup VolatileIds
           r == [o EXCEPT !.at = "merged", !.clips = clips]
<1>1. /\ o.at = "loaded" /\ Working(o, version) /\ op' = [op EXCEPT ![t] = r] /\ queue' = queue
      /\ UNCHANGED <<rows, volatile, origins, expired, version, slot, gui, owed>> /\ latest' = latest
  BY WindowKnows DEF Merge, store, lanes, undo, shown
<1>2. VolatileIds \subseteq Clips
  BY WindowKnows, ToSetLists DEF VolatileIds, Live
<1>3. /\ r \in Work /\ r.at = "merged" /\ r.job = o.job /\ r.clip = o.clip /\ r.lane = o.lane
      /\ r.ver = o.ver /\ r.clips = clips
  BY <1>1, <1>2 DEF Working, Work, Stages
<1> HIDE DEF r, clips
<1>4. Working(r, version)
  BY <1>1, <1>3 DEF Working
<1>5. Shapes'
  BY <1>1, WindowKnows DEF Shapes
<1>6. /\ ~Announces(o) /\ o.at # "queued" /\ UNCHANGED <<version, expired>> /\ owed' = owed
      /\ Live(rows)' = Live(rows) /\ VolatileIds' = VolatileIds /\ Live(gui)' = Live(gui)
  BY <1>1, LaneRests DEF Announces, Live
<1>7. CASE ~Carries(o, version)
  <2>1. ~Carries(r, version)
    BY <1>1, <1>3, <1>7 DEF Carries
  <2> QED
    BY ONLY WindowInv, <1>1, <1>4, <1>5, <1>6, <1>7, <2>1, Aside, t \in Threads
<1>8. CASE Carries(o, version)
  <2>1. OpsWork' /\ QueueWaits' /\ op'[t] = r /\ \A u \in Threads : u # t => op'[u] = op[u]
    <3>1. /\ OpsWork /\ QueueWaits /\ version \in Nat /\ version' \in Nat /\ version <= version'
          /\ Working(r, version')
      BY <1>1, <1>4, WindowKnows DEF WindowInv
    <3> QED
      BY ONLY <1>1, <1>6, <3>1, Turn, t \in Threads
  <2>2. \A u \in Threads : Carries(op'[u], version') <=> Carries(op[u], version)
    BY <1>1, <1>3, <1>8, <2>1 DEF Carries
  <2>3. NewestIsUnderWay'
    BY <1>1, <1>8, <2>2 DEF NewestIsUnderWay
  <2>4. ASSUME Settled' PROVE NewestIsRight'
    <3>1. owed <= version /\ \A u \in Threads : ~Announces(op[u])
      BY <1>1, <1>6, <2>1, <2>4 DEF Settled
    <3>2. NewestIsRight
      BY <3>1 DEF WindowInv, Settled
    <3>3. Truth' = Truth
      BY <1>6 DEF Truth
    <3>4. latest' = version' => Live(gui)' = Truth'
      BY <1>1, <1>6, <3>2, <3>3 DEF NewestIsRight
    <3>5. o.clips \ expired = Live(rows) /\ o.ver # 0
      BY <1>1, <1>8, <3>2 DEF NewestIsRight, Live, Carries
    <3>6. r.clips \ expired = Truth
      BY <1>3, <3>5 DEF clips, Truth, VolatileIds, Live
    <3>7. ASSUME NEW u \in Threads, Carries(op'[u], version')
          PROVE op'[u].clips \ expired' = IF op'[u].at = "loaded" THEN Live(rows)' ELSE Truth'
      <4>1. CASE u = t
        BY <1>1, <1>3, <2>1, <3>3, <3>6, <4>1
      <4>2. CASE u # t
        <5>1. Carries(op[u], version) /\ op'[u] = op[u]
          BY <2>1, <2>2, <3>7, <4>2
        <5>2. op[u].clips \ expired = IF op[u].at = "loaded" THEN Live(rows) ELSE Truth
          BY <3>2, <5>1 DEF NewestIsRight, Live
        <5> QED
          BY <1>1, <1>6, <3>3, <5>1, <5>2
      <4> QED
        BY <4>1, <4>2
    <3> QED
      BY <3>4, <3>7 DEF NewestIsRight, Live
  <2> QED
    BY <1>5, <2>1, <2>3, <2>4 DEF WindowInv
<1> QED
  BY <1>7, <1>8

\* The presenter shows a snapshot unless a later one was shown before.
LEMMA PublishShown == ASSUME WindowInv, NEW t \in Threads, Publish(t) PROVE WindowInv'
<1> DEFINE o == op[t]
<1>1. /\ o.at = "merged" /\ Working(o, version) /\ op' = [op EXCEPT ![t] = Idle] /\ queue' = queue
      /\ UNCHANGED <<rows, volatile, origins, expired, version, slot>> /\ Present(o)
      /\ version' = version /\ expired' = expired
  BY WindowKnows DEF Publish, store, lanes
<1>2. /\ version \in Nat /\ latest \in 0 .. version /\ owed \in 0 .. version + 1
      /\ OpsWork /\ QueueWaits
  BY WindowKnows DEF WindowInv
<1>3. Working(Idle, version) /\ Idle.at = "idle"
  BY <1>2, IdleWorks
<1>4. o \in Work /\ o.ver \in Nat /\ o.ver <= version
  BY <1>1 DEF Working, Work
<1>5. /\ Live(rows)' = Live(rows) /\ VolatileIds' = VolatileIds /\ Truth' = Truth
      /\ ~Announces(o) /\ o.at # "queued" /\ ~Carries(Idle, version) /\ ~Announces(Idle)
  BY <1>1, <1>3, LaneRests DEF Live, Truth, Announces, Carries
<1>6. CASE o.ver = 0 \/ o.ver < latest
  <2>1. gui' = gui /\ latest' = latest /\ owed' = owed
    BY <1>1, <1>6 DEF Present, shown
  <2>2. ~Carries(o, version)
    <3>1. o.ver = 0 \/ o.ver # version
      BY ONLY <1>2, <1>4, <1>6
    <3> QED
      BY <3>1 DEF Carries
  <2>3. Shapes'
    BY <1>1, <2>1, WindowKnows DEF Shapes
  <2>4. UNCHANGED <<version, expired>> /\ Live(gui)' = Live(gui)
    BY <1>1, <2>1 DEF Live
  <2> QED
    BY ONLY WindowInv, <1>1, <1>3, <1>5, <2>1, <2>2, <2>3, <2>4, Aside, t \in Threads
<1>7. CASE ~(o.ver = 0 \/ o.ver < latest)
  <2>1. /\ gui' = o.clips \ expired /\ latest' = o.ver
        /\ owed' = IF o.ver >= owed THEN 0 ELSE owed
    BY <1>1, <1>7 DEF Present, Live
  <2>2. OpsWork' /\ QueueWaits' /\ op'[t] = Idle /\ \A u \in Threads : u # t => op'[u] = op[u]
    <3>1. /\ version' \in Nat /\ version <= version' /\ Working(Idle, version')
      BY <1>1, <1>2, <1>3
    <3> QED
      BY ONLY <1>1, <1>2, <1>5, <3>1, Turn, t \in Threads
  <2>3. Shapes'
    <3>0. /\ version \in Nat /\ owed \in 0 .. version + 1 /\ o.ver \in 0 .. version
          /\ 0 \in 0 .. version + 1
      BY ONLY <1>2, <1>4
    <3>1. latest' \in 0 .. version /\ owed' \in 0 .. version + 1
      BY ONLY <3>0, <2>1, Zenon
    <3>2. gui' \subseteq Clips
      BY <1>4, <2>1 DEF Work
    <3> QED
      BY <1>1, <3>1, <3>2, WindowKnows DEF Shapes
  <2>4. ASSUME NEW u \in Threads, Carries(op'[u], version')
        PROVE u # t /\ op'[u] = op[u] /\ Carries(op[u], version)
    BY <1>1, <1>5, <2>2, <2>4
  <2>5. NewestIsUnderWay'
    <3>1. CASE o.ver = version
      BY <1>1, <2>1, <3>1 DEF NewestIsUnderWay
    <3>2. CASE o.ver # version
      <4>1. latest # version /\ version # 0
        BY ONLY <1>2, <1>4, <1>7, <3>2
      <4>2. PICK u \in Threads : Carries(op[u], version)
        BY <4>1 DEF WindowInv, NewestIsUnderWay
      <4>3. u # t
        BY <3>2, <4>2 DEF Carries
      <4> QED
        BY <1>1, <2>2, <4>2, <4>3 DEF NewestIsUnderWay
    <3> QED
      BY <3>1, <3>2
  <2>6. ASSUME Settled' PROVE NewestIsRight'
    <3>1. owed' <= version /\ \A u \in Threads : ~Announces(op'[u])
      BY <1>1, <2>6 DEF Settled
    <3>2. owed <= version
      BY ONLY <1>2, <1>4, <2>1, <3>1
    <3>3. \A u \in Threads : ~Announces(op[u])
      BY <1>5, <2>2, <3>1
    <3>4. NewestIsRight
      BY <3>2, <3>3 DEF WindowInv, Settled
    <3>5. latest' = version' => gui' \ expired' = Truth'
      <4>1. ASSUME latest' = version' PROVE Carries(o, version)
        BY <1>1, <1>7, <2>1, <4>1 DEF Carries
      <4>2. ASSUME latest' = version' PROVE o.clips \ expired = Truth
        BY <1>1, <3>4, <4>1, <4>2 DEF NewestIsRight, Live
      <4> QED
        BY <1>1, <1>5, <2>1, <4>2
    <3>6. ASSUME NEW u \in Threads, Carries(op'[u], version')
          PROVE op'[u].clips \ expired' = IF op'[u].at = "loaded" THEN Live(rows)' ELSE Truth'
      <4>1. u # t /\ op'[u] = op[u] /\ Carries(op[u], version)
        BY <2>4, <3>6
      <4>2. op[u].clips \ expired = IF op[u].at = "loaded" THEN Live(rows) ELSE Truth
        BY <3>4, <4>1 DEF NewestIsRight, Live
      <4> QED
        BY <1>1, <1>5, <4>1, <4>2
    <3> QED
      BY <3>5, <3>6 DEF NewestIsRight, Live
  <2> QED
    BY <2>2, <2>3, <2>5, <2>6 DEF WindowInv
<1> QED
  BY <1>6, <1>7

\* A clip whose time has passed leaves the window and the truth together.
LEMMA ExpiresShown == ASSUME WindowInv, Expires PROVE WindowInv'
<1>1. PICK c \in Mortal : expired' = expired \cup {c}
  BY DEF Expires
<1>2. UNCHANGED <<rows, volatile, origins, version, slot, gui, latest, owed, op, queue>>
  BY DEF Expires, store, lanes, undo, shown
<1>3. Shapes' /\ OpsWork' /\ QueueWaits' /\ NewestIsUnderWay' /\ Settled' = Settled
  BY <1>2 DEF WindowInv, Shapes, OpsWork, QueueWaits, NewestIsUnderWay, Settled
<1>4. ASSUME NewestIsRight PROVE NewestIsRight'
  <2>1. Truth' = Truth \ {c} /\ Live(rows)' = Live(rows) \ {c}
    BY <1>1, <1>2 DEF Truth, VolatileIds, Live
  <2>2. latest' = version' => gui' \ expired' = Truth'
    BY <1>1, <1>2, <1>4, <2>1 DEF NewestIsRight, Live
  <2>3. ASSUME NEW u \in Threads, Carries(op'[u], version')
        PROVE op'[u].clips \ expired' = IF op'[u].at = "loaded" THEN Live(rows)' ELSE Truth'
    <3>1. op'[u] = op[u] /\ Carries(op[u], version)
      BY <1>2, <2>3
    <3>2. op[u].clips \ expired = IF op[u].at = "loaded" THEN Live(rows) ELSE Truth
      BY <1>4, <3>1 DEF NewestIsRight, Live
    <3> QED
      BY <1>1, <2>1, <3>1, <3>2
  <2> QED
    BY <2>2, <2>3 DEF NewestIsRight, Live
<1> QED
  BY <1>3, <1>4 DEF WindowInv

LEMMA SlotExpiresShown == ASSUME WindowInv, SlotExpires PROVE WindowInv'
<1>1. /\ UNCHANGED <<rows, volatile, origins, expired, version, gui, latest, owed, op, queue>>
      /\ slot' \in MaybeClip
  BY Names DEF SlotExpires, store, lanes, shown
<1> QED
  BY <1>1 DEF WindowInv, Shapes, OpsWork, QueueWaits, NewestIsUnderWay, Settled, NewestIsRight,
     Truth, VolatileIds, Live

-----------------------------------------------------------------------------
LEMMA WindowStarts == Init => WindowInv
<1> SUFFICES ASSUME Init PROVE WindowInv
  OBVIOUS
<1>1. /\ version = 0 /\ latest = 0 /\ owed = 0 /\ rows = {} /\ gui = {} /\ slot = NoClip
      /\ volatile = <<>> /\ origins = <<>> /\ queue = <<>> /\ op = [t \in Threads |-> Idle]
      /\ NoClip \in MaybeClip
  BY Names DEF Init
<1>2. Shapes
  <2>1. <<>> \in Seq(Clips) /\ latest \in 0 .. version /\ owed \in 0 .. version + 1 /\ version \in Nat
    BY ONLY <1>1
  <2> QED
    BY <1>1, <2>1 DEF Shapes
<1>3. OpsWork
  BY <1>1, IdleWorks DEF OpsWork
<1>4. QueueWaits
  <2>1. <<>> \in Seq(Threads) /\ Len(<<>>) = 0
    OBVIOUS
  <2> QED
    BY <1>1, <2>1 DEF QueueWaits, Distinct
<1>5. NewestIsUnderWay
  BY <1>1 DEF NewestIsUnderWay
<1>6. NewestIsRight
  <2>1. ToSet(<<>>) = {}
    BY DEF ToSet
  <2>2. \A t \in Threads : ~Carries(op[t], version)
    BY <1>1 DEF Carries
  <2> QED
    BY <1>1, <2>1, <2>2 DEF NewestIsRight, Live, Truth, VolatileIds
<1> QED
  BY <1>2, <1>3, <1>4, <1>5, <1>6 DEF WindowInv

LEMMA WindowSteps == ASSUME WindowInv, [Next]_vars PROVE WindowInv'
<1>1. CASE CaptureDurable \/ CaptureSecret
  BY <1>1, CaptureDurableShown, CaptureSecretShown
<1>2. CASE Delete
  BY <1>2, DeleteVolatileShown, FindToDeleteShown DEF Delete
<1>3. CASE Found \/ RestoreSecret \/ RestoreDurable \/ SlotExpires
  BY <1>3, FoundShown, RestoreSecretShown, RestoreDurableShown, SlotExpiresShown
<1>4. CASE CloneVolatile \/ FindToClone \/ Clear \/ SetPinned
  BY <1>4, CloneVolatileShown, FindToCloneShown, ClearShown, SetPinnedShown
<1>5. CASE RefreshForMemory \/ PurgeVolatile \/ PublishPrune \/ MaintainStore
  BY <1>5, RefreshForMemoryShown, PurgeVolatileShown, PublishPruneShown, MaintainStoreShown
<1>6. CASE RunFind \/ RunJob \/ JobFails
  BY <1>6, RunFindShown, RunJobShown, JobFailsShown
<1>7. CASE \E t \in Threads : AddVolatile(t) \/ Merge(t) \/ Publish(t)
  BY <1>7, AddVolatileShown, MergeShown, PublishShown
<1>8. CASE Expires
  BY <1>8, ExpiresShown
<1>9. CASE UNCHANGED vars
  BY <1>9 DEF vars, WindowInv, Shapes, OpsWork, QueueWaits, NewestIsUnderWay, Settled,
     NewestIsRight, Truth, VolatileIds, Live
<1> QED
  BY <1>1, <1>2, <1>3, <1>4, <1>5, <1>6, <1>7, <1>8, <1>9 DEF Next

LEMMA WindowFollows == WindowInv => Converged
<1> SUFFICES ASSUME WindowInv, AllIdle, owed = 0 PROVE Live(gui) = Live(rows) \cup VolatileIds
  BY DEF Converged
<1>1. Settled
  BY WindowKnows DEF Settled, AllIdle, IsIdle, Announces
<1>2. latest = version
  BY DEF WindowInv, NewestIsUnderWay, AllIdle, IsIdle, Carries
<1> QED
  BY <1>1, <1>2 DEF WindowInv, NewestIsRight, Truth

\* When no operation is in progress the window shows exactly the live clips of the store and
\* of the lane, unless a failed operation's change was never announced: for any clips, any
\* number of snapshots, and whatever the three threads do between numbering a snapshot,
\* merging the lane into it and presenting it (HistoryPresenter::apply, merge_volatile).
THEOREM WindowConverges == Spec => []Converged
<1>1. WindowInv /\ [Next]_vars => WindowInv'
  BY WindowSteps
<1> QED
  BY <1>1, WindowStarts, WindowFollows, PTL DEF Spec
=============================================================================
