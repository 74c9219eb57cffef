-------------------------- MODULE ReplicaSyncProofs --------------------------
(***************************************************************************)
(* Convergence, add-wins presence and causality of the register, for every  *)
(* set of devices, every tolerance and every number of edits.  Each holder  *)
(* of a replica (a device or a snapshot under way) is shown to be a         *)
(* function of the edits it has heard of.                                    *)
(***************************************************************************)
EXTENDS MCReplicaSync, FoldLemmas

\* Not after, in the order of clocks.
UpTo(a, b) == a = b \/ Less(a, b)

-----------------------------------------------------------------------------
(* The order of clocks *)

\* The bounds of the fields of a clock.
LEMMA ClockFields ==
    ASSUME NEW c \in Clocks
    PROVE  /\ c.physical \in Nat /\ c.logical \in Nat /\ c.node \in Nat
           /\ c = [physical |-> c.physical, logical |-> c.logical, node |-> c.node]
  <1>1. Devices \subseteq Nat /\ MaxLogical \in Nat
    BY SyncAssumption
  <1>2. c.physical \in Nat /\ c.logical \in 0 .. MaxLogical /\ c.node \in Devices
    BY DEF Clocks
  <1>3. c = [physical |-> c.physical, logical |-> c.logical, node |-> c.node]
    BY DEF Clocks
  <1>. QED BY <1>1, <1>2, <1>3

\* The derived order of HybridLogicalClock is transitive.
LEMMA LessTransitive ==
    ASSUME NEW a \in Clocks, NEW b \in Clocks, NEW c \in Clocks, Less(a, b), Less(b, c)
    PROVE  Less(a, c)
  <1>. /\ a.physical \in Nat /\ a.logical \in Nat /\ a.node \in Nat
       /\ b.physical \in Nat /\ b.logical \in Nat /\ b.node \in Nat
       /\ c.physical \in Nat /\ c.logical \in Nat /\ c.node \in Nat
    BY ClockFields
  <1>. QED BY DEF Less

\* The derived order is total: the node breaks the last tie.
LEMMA LessTotal ==
    ASSUME NEW a \in Clocks, NEW b \in Clocks
    PROVE  a = b \/ Less(a, b) \/ Less(b, a)
  <1>1. /\ a.physical \in Nat /\ a.logical \in Nat /\ a.node \in Nat
        /\ b.physical \in Nat /\ b.logical \in Nat /\ b.node \in Nat
    BY ClockFields
  <1>2. CASE a.physical = b.physical /\ a.logical = b.logical /\ a.node = b.node
    BY <1>2, ClockFields
  <1>. QED BY <1>1, <1>2 DEF Less

\* No clock is before itself.
LEMMA LessIrreflexive ==
    ASSUME NEW a \in Clocks PROVE ~Less(a, a)
  BY ClockFields DEF Less

\* Nothing is before a clock and not before a later one.
LEMMA UpToLess ==
    ASSUME NEW a \in Clocks, NEW b \in Clocks, NEW c \in Clocks, UpTo(a, b), Less(b, c)
    PROVE  Less(a, c)
  BY LessTransitive DEF UpTo

\* bounded_at never advances a clock and keeps its node.
LEMMA BoundedUpTo ==
    ASSUME NEW c \in Clocks, NEW t \in Nat
    PROVE  Bounded(c, t) \in Clocks /\ UpTo(Bounded(c, t), c)
  <1>1. c.physical \in Nat /\ Tolerance \in Nat
    BY ClockFields, SyncAssumption
  <1>. QED BY <1>1 DEF Bounded, Clocks, UpTo, Less

\* advance_logical goes past the clock, rolling over into physical time.
LEMMA AdvanceGrows ==
    ASSUME NEW c \in Clocks
    PROVE  /\ Advance(c) \in Clocks /\ Advance(c).node = c.node
           /\ Advance(c).physical > c.physical
              \/ (Advance(c).physical = c.physical /\ Advance(c).logical > c.logical)
  <1>1. /\ c.physical \in Nat /\ c.logical \in 0 .. MaxLogical /\ MaxLogical \in Nat
        /\ c.physical + 1 \in Nat /\ 0 \in 0 .. MaxLogical /\ c.node \in Devices
        /\ c.physical < c.physical + 1
    BY SyncAssumption DEF Clocks
  <1>2. CASE c.logical < MaxLogical
    BY <1>1, <1>2 DEF Advance, Clocks
  <1>3. CASE ~(c.logical < MaxLogical)
    <2>1. Advance(c) = [c EXCEPT !.physical = @ + 1, !.logical = 0]
      BY <1>3 DEF Advance
    <2>. QED BY <1>1, <2>1 DEF Clocks
  <1>. QED BY <1>2, <1>3

\* tick is later than the clock it advances, whatever the wall clock says.
LEMMA TickGrows ==
    ASSUME NEW c \in Clocks, NEW t \in Nat
    PROVE  Tick(c, t) \in Clocks /\ Tick(c, t).node = c.node /\ Less(c, Tick(c, t))
  <1>1. c.physical \in Nat /\ c.node \in Devices /\ 0 \in 0 .. MaxLogical
    BY SyncAssumption DEF Clocks
  <1>2. CASE t > c.physical
    <2>1. Tick(c, t) = [c EXCEPT !.physical = t, !.logical = 0]
      BY <1>2 DEF Tick
    <2>. QED BY <1>1, <1>2, <2>1 DEF Clocks, Less
  <1>3. CASE ~(t > c.physical)
    <2>1. Tick(c, t) = Advance(c)
      BY <1>3 DEF Tick
    <2>. QED BY <1>1, <2>1, AdvanceGrows, ClockFields DEF Less
  <1>. QED BY <1>2, <1>3

\* The largest of a set that has one.
LEMMA LargestIs ==
    ASSUME NEW S, NEW m \in S, \A y \in S : y <= m
    PROVE  Largest(S) \in S /\ \A y \in S : y <= Largest(S)
  BY DEF Largest

\* observe is later than the local clock and than the remote one as bounded.
LEMMA ObserveGrows ==
    ASSUME NEW c \in Clocks, NEW r \in Clocks, NEW t \in Nat
    PROVE  /\ Observe(c, r, t) \in Clocks /\ Observe(c, r, t).node = c.node
           /\ Less(c, Observe(c, r, t)) /\ Less(Bounded(r, t), Observe(c, r, t))
  <1>. DEFINE remote == Bounded(r, t)
              P == {t, c.physical, remote.physical}
              top == Largest(P)
              tied == {x \in {c, remote} : x.physical = top}
              L == {x.logical : x \in tied}
  <1>1. remote \in Clocks
    BY BoundedUpTo
  <1>2. top \in P /\ \A y \in P : y <= top
    <2>1. /\ t \in Nat /\ c.physical \in Nat /\ remote.physical \in Nat
      BY <1>1 DEF Clocks
    <2>2. \E m \in P : \A y \in P : y <= m
      BY <2>1
    <2>. QED BY <2>2, LargestIs
  <1>3. CASE tied = {}
    <2>1. Observe(c, r, t) = [c EXCEPT !.physical = top, !.logical = 0]
      BY <1>3 DEF Observe
    <2>2. c.physical < top /\ remote.physical < top /\ top \in Nat
      BY <1>1, <1>2, <1>3 DEF Clocks
    <2>3. 0 \in 0 .. MaxLogical
      BY SyncAssumption
    <2>4. [c EXCEPT !.physical = top, !.logical = 0] \in Clocks
      BY <2>2, <2>3 DEF Clocks
    <2>. QED BY <1>1, <2>1, <2>2, <2>4 DEF Clocks, Less
  <1>4. CASE tied # {}
    <2>. DEFINE start == [c EXCEPT !.physical = top, !.logical = Largest(L)]
    <2>1. Largest(L) \in L /\ \A y \in L : y <= Largest(L)
      <3>1. \A x \in tied : x.logical \in Nat /\ (x = c \/ x = remote)
        BY <1>1, SyncAssumption DEF Clocks
      <3>2. \E m \in L : \A y \in L : y <= m
        BY <1>4, <3>1
      <3>. QED BY <3>2, LargestIs
    <2>2. Observe(c, r, t) = Advance(start)
      BY <1>4 DEF Observe
    <2>3. start \in Clocks /\ start.node = c.node
      BY <1>1, <1>2, <2>1 DEF Clocks
    <2>4. \A x \in {c, remote} :
            x.physical < start.physical
            \/ (x.physical = start.physical /\ x.logical <= start.logical)
      <3>. SUFFICES ASSUME NEW x \in {c, remote}
                    PROVE  x.physical < start.physical
                           \/ (x.physical = start.physical /\ x.logical <= start.logical)
        OBVIOUS
      <3>1. start.physical = top /\ start.logical = Largest(L)
        BY <1>1 DEF Clocks
      <3>2. x.physical \in Nat /\ top \in Nat /\ x.physical <= top
        BY <1>1, <1>2 DEF Clocks
      <3>3. x.physical = top => x.logical \in L
        OBVIOUS
      <3>. QED BY <2>1, <3>1, <3>2, <3>3
    <2>5. \A x \in {c, remote} : Less(x, Advance(start))
      <3>. SUFFICES ASSUME NEW x \in {c, remote} PROVE Less(x, Advance(start))
        OBVIOUS
      <3>. HIDE DEF start, remote
      <3>1. x \in Clocks /\ Advance(start) \in Clocks
        BY <1>1, <2>3, AdvanceGrows
      <3>2. /\ x.physical \in Nat /\ x.logical \in Nat
            /\ start.physical \in Nat /\ start.logical \in Nat
            /\ Advance(start).physical \in Nat /\ Advance(start).logical \in Nat
        BY <2>3, <3>1, ClockFields
      <3>3. \/ Advance(start).physical > start.physical
            \/ Advance(start).physical = start.physical
               /\ Advance(start).logical > start.logical
        BY <2>3, AdvanceGrows
      <3>. QED BY <2>4, <3>2, <3>3 DEF Less
    <2>. QED BY <2>2, <2>3, <2>5, AdvanceGrows
  <1>. QED BY <1>3, <1>4

-----------------------------------------------------------------------------
(* Types *)

\* A register write leaves a replica a replica, whether it is taken or not.
LEMMA AssignTyped ==
    ASSUME NEW r \in Replicas, NEW value \in BOOLEAN, NEW c \in Clocks, NEW t \in Nat
    PROVE  /\ Assign(r, value, c, t) \in Replicas
           /\ Assign(r, value, c, t).adds = r.adds
           /\ Assign(r, value, c, t).removes = r.removes
  BY BoundedUpTo DEF Assign, Replicas

\* Merging leaves a replica a replica and joins the two presence sets.
LEMMA MergeTyped ==
    ASSUME NEW r \in Replicas, NEW o \in Replicas, NEW t \in Nat
    PROVE  /\ Merge(r, o, t) \in Replicas
           /\ Merge(r, o, t).adds = r.adds \union o.adds
           /\ Merge(r, o, t).removes = r.removes \union o.removes
  <1>. DEFINE j == [r EXCEPT !.adds = @ \union o.adds, !.removes = @ \union o.removes]
  <1>1. /\ j \in Replicas /\ j.adds = r.adds \union o.adds
        /\ j.removes = r.removes \union o.removes
        /\ o.pinned \in BOOLEAN /\ o.clock \in Clocks
    BY DEF Replicas
  <1>. HIDE DEF j
  <1>2. Merge(r, o, t) = Assign(j, o.pinned, o.clock, t)
    BY DEF Merge, j
  <1>. QED BY <1>1, <1>2, AssignTyped

\* The edit a device records is well formed, and its dot is the next one.
LEMMA EditTyped ==
    ASSUME TypeOK, NEW d \in Devices, NEW c \in Clocks,
           NEW kind \in {"new", "pin", "unpin", "delete"}
    PROVE  /\ Edit(d, kind, c) \in Events
           /\ Edit(d, kind, c).dot = <<d, edits[d] + 1>>
           /\ Edit(d, kind, c).kind = kind
           /\ Edit(d, kind, c).clock = c
           /\ Edit(d, kind, c).past = Past(d)
  <1>1. edits[d] + 1 \in Nat
    BY DEF TypeOK
  <1>2. <<d, edits[d] + 1>> \in Dots
    BY <1>1 DEF Dots
  <1>3. Past(d) \subseteq Dots
    BY DEF TypeOK, Past, Events
  <1>. QED BY <1>2, <1>3 DEF Edit, Events

\* The clock of the creation.
LEMMA OriginTyped == Origin \in Clocks /\ Origin.node = Creator
  <1>1. Creator \in Devices /\ 0 \in 0 .. MaxLogical
    BY SyncAssumption
  <1>. QED BY <1>1 DEF Origin, Clocks

\* A device that received the item is past the clock of its creation.
LEMMA InitClocks ==
    ASSUME Init
    PROVE  /\ hlc \in [Devices -> Clocks]
           /\ \A d \in Devices : hlc[d].node = d /\ UpTo(Origin, hlc[d])
  <1>. SUFFICES ASSUME NEW d \in Devices
                PROVE  hlc[d] \in Clocks /\ hlc[d].node = d /\ UpTo(Origin, hlc[d])
    BY DEF Init
  <1>1. CASE d = Creator
    BY <1>1, OriginTyped DEF Init, UpTo
  <1>2. CASE d # Creator
    <2>. DEFINE own == [Origin EXCEPT !.node = d]
    <2>1. own \in Clocks /\ own.node = d
      BY OriginTyped DEF Clocks
    <2>2. Bounded(Origin, 0) = Origin
      BY SyncAssumption DEF Bounded, Origin
    <2>3. hlc[d] = Observe(own, Origin, 0)
      BY <1>2 DEF Init
    <2>. HIDE DEF own
    <2>4. /\ Observe(own, Origin, 0) \in Clocks /\ Observe(own, Origin, 0).node = d
          /\ Less(Origin, Observe(own, Origin, 0))
      BY <2>1, <2>2, OriginTyped, ObserveGrows
    <2>. QED BY <2>3, <2>4 DEF UpTo
  <1>. QED BY <1>1, <1>2

\* The devices and the network start well formed.
LEMMA TypeInit == Init => TypeOK
  <1>. SUFFICES ASSUME Init PROVE TypeOK
    OBVIOUS
  <1>1. hlc \in [Devices -> Clocks] /\ \A d \in Devices : hlc[d].node = d
    BY InitClocks
  <1>2. Creation \in Events /\ Creation.dot \in Dots
    BY OriginTyped, SyncAssumption DEF Creation, Events, Dots
  <1>3. [adds |-> {Creation.dot}, removes |-> {}, pinned |-> FALSE, clock |-> Origin]
          \in Replicas
    BY <1>2, OriginTyped DEF Replicas
  <1>. QED BY <1>1, <1>2, <1>3 DEF Init, TypeOK

\* A register write keeps everything well formed.
LEMMA TypeWritten ==
    ASSUME TypeOK, NEW d \in Devices, NEW kind \in {"pin", "unpin"},
           NEW r \in Replicas, NEW value \in BOOLEAN, Written(d, kind, r, value)
    PROVE  TypeOK'
  <1>. DEFINE c == Tick(hlc[d], now[d])
  <1>1. c \in Clocks /\ c.node = d /\ now[d] \in Nat
    BY TickGrows DEF TypeOK
  <1>2. hlc' \in [Devices -> Clocks] /\ \A x \in Devices : hlc'[x].node = x
    BY <1>1 DEF TypeOK, Written
  <1>3. replica' \in [Devices -> Replicas]
    BY <1>1, AssignTyped DEF TypeOK, Written
  <1>4. edits' \in [Devices -> Nat] /\ seen' \in [Devices -> SUBSET Events]
    BY <1>1, EditTyped DEF TypeOK, Written, Recorded
  <1>5. now' = now /\ net' = net /\ clamped' \in BOOLEAN
    BY DEF Written, Recorded, TypeOK
  <1>. QED BY <1>2, <1>3, <1>4, <1>5 DEF TypeOK

\* Every step keeps everything well formed.
LEMMA TypeNext == TypeOK /\ [Next]_vars => TypeOK'
  <1>. SUFFICES ASSUME TypeOK, [Next]_vars PROVE TypeOK'
    OBVIOUS
  <1>1. ASSUME NEW d \in Devices, Pin(d) PROVE TypeOK'
    <2>1. [replica[d] EXCEPT !.adds = @ \union {<<d, edits[d] + 1>>}] \in Replicas
      BY DEF TypeOK, Replicas, Dots
    <2>. QED BY <1>1, <2>1, TypeWritten DEF Pin
  <1>2. ASSUME NEW d \in Devices, Unpin(d) PROVE TypeOK'
    BY <1>2, TypeWritten DEF Unpin, TypeOK
  <1>3. ASSUME NEW d \in Devices, Delete(d) PROVE TypeOK'
    <2>1. Removed(replica[d]) \in Replicas
      BY DEF TypeOK, Replicas, Removed
    <2>2. edits' \in [Devices -> Nat] /\ seen' \in [Devices -> SUBSET Events]
      BY <1>3, EditTyped, OriginTyped DEF TypeOK, Delete, Recorded
    <2>. QED BY <1>3, <2>1, <2>2 DEF TypeOK, Delete, Recorded
  <1>4. ASSUME NEW d \in Devices, Send(d) PROVE TypeOK'
    BY <1>4 DEF TypeOK, Send
  <1>5. ASSUME NEW d \in Devices, Receive(d) PROVE TypeOK'
    <2>1. PICK m \in net :
            /\ hlc' = [hlc EXCEPT ![d] = Observe(hlc[d], m.replica.clock, now[d])]
            /\ replica' = [replica EXCEPT ![d] = Merge(@, m.replica, now[d])]
            /\ seen' = [seen EXCEPT ![d] = @ \union m.seen]
            /\ clamped' = (clamped \/ Bounded(m.replica.clock, now[d]) # m.replica.clock)
            /\ UNCHANGED <<now, edits, net>>
      BY <1>5 DEF Receive
    <2>2. m.replica \in Replicas /\ m.replica.clock \in Clocks /\ m.seen \in SUBSET Events
      BY DEF TypeOK, Replicas
    <2>3. hlc' \in [Devices -> Clocks] /\ \A x \in Devices : hlc'[x].node = x
      <3>. DEFINE heard == Observe(hlc[d], m.replica.clock, now[d])
      <3>1. heard \in Clocks /\ heard.node = d
        BY <2>2, ObserveGrows DEF TypeOK
      <3>. HIDE DEF heard
      <3>2. hlc' = [hlc EXCEPT ![d] = heard]
        BY <2>1 DEF heard
      <3>. QED BY <3>1, <3>2 DEF TypeOK
    <2>4. replica' \in [Devices -> Replicas]
      BY <2>1, <2>2, MergeTyped DEF TypeOK
    <2>5. seen' \in [Devices -> SUBSET Events] /\ clamped' \in BOOLEAN
      BY <2>1, <2>2 DEF TypeOK
    <2>. QED BY <2>1, <2>3, <2>4, <2>5 DEF TypeOK
  <1>6. ASSUME NEW d \in Devices, ClockStep(d) PROVE TypeOK'
    <2>1. now' \in [Devices -> Nat]
      BY <1>6, SyncAssumption DEF TypeOK, ClockStep
    <2>. QED BY <1>6, <2>1 DEF TypeOK, ClockStep
  <1>7. CASE Lose
    BY <1>7 DEF TypeOK, Lose
  <1>8. CASE UNCHANGED vars
    BY <1>8 DEF TypeOK, vars
  <1>. QED BY <1>1, <1>2, <1>3, <1>4, <1>5, <1>6, <1>7, <1>8 DEF Next

-----------------------------------------------------------------------------
(* The inductive invariant *)

\* The edits known to some device.
Known == UNION {seen[d] : d \in Devices}

\* Dots are counted: none that is known, or known of, is still to come.
Counted ==
    \A e \in Known : /\ e.dot[2] <= edits[e.dot[1]]
                     /\ \A x \in e.past : x[2] <= edits[x[1]]

DotsUnique == \A e, f \in Known : e.dot = f.dot => e = f
ClocksUnique == \A v, w \in Writes(Known) : v.clock = w.clock => v = w

\* A device's hybrid clock is behind none of its writes and not behind its
\* register.
ClocksBehind ==
    /\ \A w \in Writes(Known) : UpTo(w.clock, hlc[w.clock.node])
    /\ \A d \in Devices : UpTo(replica[d].clock, hlc[d])

\* Whoever has heard of an edit has heard of what its author knew of.
Closed(E) == \A e \in E : \A x \in e.past : \E f \in E : f.dot = x

\* The presence set is a function of the edits heard of.
Presence(r, E) ==
    /\ r.adds = Adds(E)
    /\ r.removes = Deleted(E) \intersect Adds(E)

\* So is the register: it holds the last write heard of.
LastWrite(r, E) ==
    \E w \in Writes(E) : /\ w.clock = r.clock
                         /\ r.pinned = (w.kind = "pin")
                         /\ \A v \in Writes(E) : UpTo(v.clock, w.clock)

\* A write is later than the writes its author knew of.
Causal == \A v, w \in Writes(Known) : w.dot \in v.past => Less(w.clock, v.clock)

\* Every replica, and every snapshot of one under way, says what was heard of.
HoldersSound ==
    /\ \A d \in Devices : Closed(seen[d]) /\ Presence(replica[d], seen[d])
    /\ \A m \in net : /\ m.seen \subseteq Known
                      /\ Closed(m.seen) /\ Presence(m.replica, m.seen)

RegistersCurrent ==
    /\ \A d \in Devices : LastWrite(replica[d], seen[d])
    /\ \A m \in net : LastWrite(m.replica, m.seen)

IInv ==
    /\ TypeOK
    /\ Counted /\ DotsUnique
    /\ ClocksUnique /\ ClocksBehind
    /\ HoldersSound
    /\ ~clamped => RegistersCurrent /\ Causal

-----------------------------------------------------------------------------
(* Sets of edits *)

\* What a set of edits asserts, writes and deletes distributes over unions.
LEMMA OfUnion ==
    ASSUME NEW E, NEW F
    PROVE  /\ Adds(E \union F) = Adds(E) \union Adds(F)
           /\ Writes(E \union F) = Writes(E) \union Writes(F)
           /\ Deleted(E \union F) = Deleted(E) \union Deleted(F)
  BY DEF Adds, Writes, Deletes, Deleted

\* What one edit asserts, writes and deletes.
LEMMA OfOne ==
    ASSUME NEW e, e.kind \in {"new", "pin", "unpin", "delete"}
    PROVE  /\ Adds({e}) = IF e.kind \in {"new", "pin"} THEN {e.dot} ELSE {}
           /\ Writes({e}) = IF e.kind = "delete" THEN {} ELSE {e}
           /\ Deleted({e}) = IF e.kind = "delete" THEN e.past ELSE {}
  BY DEF Adds, Writes, Deletes, Deleted

\* What a device knows of is known.
LEMMA SeenKnown == \A d \in Devices : seen[d] \subseteq Known
  BY DEF Known

\* Every known edit is well formed.
LEMMA KnownTyped == TypeOK => Known \subseteq Events
  BY DEF Known, TypeOK

\* The closure of two sets of edits carries over to their union.
LEMMA ClosedUnion ==
    ASSUME NEW E, NEW F, Closed(E), Closed(F) PROVE Closed(E \union F)
  BY DEF Closed

\* Presence of the union: a dot deleted on one side is never asserted only on
\* the other, because the deleter knew the assertion.
LEMMA PresenceUnion ==
    ASSUME DotsUnique, NEW E \in SUBSET Known, NEW F \in SUBSET Known,
           Closed(E), Closed(F), NEW r, NEW o, Presence(r, E), Presence(o, F),
           NEW j, j.adds = r.adds \union o.adds, j.removes = r.removes \union o.removes
    PROVE  Presence(j, E \union F)
  <1>1. ASSUME NEW A \in SUBSET Known, NEW B \in SUBSET Known, Closed(A),
               NEW x \in Deleted(A), x \in Adds(B)
        PROVE  x \in Adds(A)
    <2>1. PICK e \in A : x \in e.past
      BY DEF Deleted, Deletes
    <2>2. PICK f \in A : f.dot = x
      BY <1>1, <2>1 DEF Closed
    <2>3. PICK g \in B : g.dot = x /\ g.kind \in {"new", "pin"}
      BY <1>1 DEF Adds
    <2>4. f = g
      BY <2>2, <2>3 DEF DotsUnique
    <2>. QED BY <2>2, <2>3, <2>4 DEF Adds
  <1>2. Deleted(E) \intersect Adds(F) \subseteq Adds(E)
    BY <1>1
  <1>3. Deleted(F) \intersect Adds(E) \subseteq Adds(F)
    BY <1>1
  <1>4. j.adds = Adds(E \union F)
    <2>1. Adds(E \union F) = Adds(E) \union Adds(F)
      BY OfUnion
    <2>. QED BY <2>1 DEF Presence
  <1>5. j.removes = (Deleted(E) \union Deleted(F)) \intersect (Adds(E) \union Adds(F))
    BY <1>2, <1>3 DEF Presence
  <1>. QED BY <1>4, <1>5, OfUnion DEF Presence

-----------------------------------------------------------------------------
(* The initial states *)

\* The item as the Creator captured it is all that is known.
LEMMA InitIInv == Init => IInv
  <1>. SUFFICES ASSUME Init PROVE IInv
    OBVIOUS
  <1>1. TypeOK
    BY TypeInit
  <1>2. Known = {Creation}
    BY SyncAssumption DEF Init, Known
  <1>3. /\ Creation.dot = <<Creator, 0>> /\ Creation.past = {} /\ Creation.kind = "new"
        /\ Creation.clock = Origin
    BY DEF Creation
  <1>4. Counted /\ DotsUnique /\ ClocksUnique
    BY <1>2, <1>3, SyncAssumption DEF Init, Counted, DotsUnique, ClocksUnique, Writes
  <1>5. ClocksBehind
    <2>1. \A w \in Writes(Known) : w.clock = Origin
      BY <1>2, <1>3 DEF Writes
    <2>2. \A d \in Devices : replica[d].clock = Origin
      BY DEF Init
    <2>. QED BY <2>1, <2>2, InitClocks, OriginTyped, SyncAssumption DEF ClocksBehind
  <1>6. /\ Adds({Creation}) = {Creation.dot} /\ Writes({Creation}) = {Creation}
        /\ Deleted({Creation}) = {}
    <2>. HIDE DEF Creation
    <2>. QED BY <1>3 DEF Adds, Writes, Deletes, Deleted
  <1>7. HoldersSound
    BY <1>3, <1>6 DEF Init, HoldersSound, Closed, Presence
  <1>8. RegistersCurrent /\ Causal
    BY <1>2, <1>3, <1>6 DEF Init, RegistersCurrent, LastWrite, Causal, UpTo
  <1>. QED BY <1>1, <1>4, <1>5, <1>7, <1>8 DEF IInv

-----------------------------------------------------------------------------
(* The edits *)

\* An edit becomes known under a dot that nobody knows or knows of.
LEMMA RecordedStep ==
    ASSUME IInv, NEW d \in Devices, NEW kind \in {"pin", "unpin", "delete"},
           NEW c \in Clocks, Recorded(d, kind, c), NEW e, e = Edit(d, kind, c)
    PROVE  /\ Known' = Known \union {e}
           /\ Counted' /\ DotsUnique'
           /\ \A f \in Known : e.dot # f.dot /\ e.dot \notin f.past
           /\ e.dot \notin e.past
           /\ Closed(seen[d] \union {e})
  <1>1. /\ e \in Events /\ e.dot = <<d, edits[d] + 1>> /\ e.past = Past(d)
        /\ e.kind = kind /\ e.clock = c
    BY EditTyped DEF IInv
  <1>2. /\ seen' = [seen EXCEPT ![d] = @ \union {e}]
        /\ edits' = [edits EXCEPT ![d] = @ + 1]
        /\ seen \in [Devices -> SUBSET Events] /\ edits \in [Devices -> Nat]
    BY DEF Recorded, IInv, TypeOK
  <1>. HIDE DEF Edit
  <1>3. Known' = Known \union {e}
    <2>1. \A x \in Devices : seen'[x] = IF x = d THEN seen[x] \union {e} ELSE seen[x]
      BY <1>2
    <2>. QED BY <2>1 DEF Known
  <1>4. \A x \in Dots : x[1] \in Devices /\ x[2] \in Nat
    BY DEF Dots
  <1>5. \A f \in Known : f.dot \in Dots /\ f.past \subseteq Dots
    BY KnownTyped DEF IInv, Events
  <1>6. \A f \in Known : f.dot # e.dot /\ e.dot \notin f.past
    BY <1>1, <1>2, <1>4, <1>5 DEF IInv, Counted
  <1>7. \A x \in e.past : \E f \in seen[d] : f.dot = x
    BY <1>1 DEF Past
  <1>8. e.dot \notin e.past
    BY <1>6, <1>7, SeenKnown
  <1>9. Counted'
    <2>1. \A x \in Dots : x[2] <= edits[x[1]] => x[2] <= edits'[x[1]]
      BY <1>2, <1>4
    <2>2. \A f \in Known : /\ f.dot[2] <= edits'[f.dot[1]]
                           /\ \A x \in f.past : x[2] <= edits'[x[1]]
      BY <1>5, <2>1 DEF IInv, Counted
    <2>3. \A x \in e.past : x[2] <= edits'[x[1]]
      BY <1>7, <2>2, SeenKnown
    <2>4. e.dot[2] <= edits'[e.dot[1]]
      BY <1>1, <1>2
    <2>. QED BY <1>3, <2>2, <2>3, <2>4 DEF Counted
  <1>10. DotsUnique'
    BY <1>3, <1>6 DEF IInv, DotsUnique
  <1>11. Closed(seen[d] \union {e})
    BY <1>7 DEF IInv, HoldersSound, Closed
  <1>. QED BY <1>3, <1>6, <1>8, <1>9, <1>10, <1>11

\* The other devices' replicas, and the snapshots, stay sound in such a step.
LEMMA OthersSound ==
    ASSUME IInv, NEW d \in Devices, NEW E, NEW r, NEW e,
           Known' = Known \union {e},
           seen' = [seen EXCEPT ![d] = E], replica' = [replica EXCEPT ![d] = r],
           net' = net, Closed(E), Presence(r, E)
    PROVE  HoldersSound'
  <1>1. \A x \in Devices : /\ seen'[x] = IF x = d THEN E ELSE seen[x]
                           /\ replica'[x] = IF x = d THEN r ELSE replica[x]
    BY DEF IInv, TypeOK
  <1>. QED BY <1>1 DEF IInv, HoldersSound

\* A write of the register is newer than everything its author has heard of.
LEMMA WrittenStep ==
    ASSUME IInv, NEW d \in Devices, NEW kind \in {"pin", "unpin"},
           NEW r \in Replicas, NEW value \in BOOLEAN, Written(d, kind, r, value),
           value = (kind = "pin"),
           r.clock = replica[d].clock, r.removes = replica[d].removes,
           r.adds = IF kind = "pin" THEN replica[d].adds \union {<<d, edits[d] + 1>>}
                    ELSE replica[d].adds
    PROVE  IInv'
  <1>. DEFINE c == Tick(hlc[d], now[d])
              e == Edit(d, kind, c)
              q == Assign(r, value, c, now[d])
  <1>1. /\ c \in Clocks /\ c.node = d /\ Less(hlc[d], c)
        /\ now[d] \in Nat /\ hlc[d] \in Clocks /\ replica[d].clock \in Clocks
    <2>1. /\ now[d] \in Nat /\ hlc[d] \in Clocks /\ replica[d].clock \in Clocks
          /\ hlc[d].node = d
      BY DEF IInv, TypeOK, Replicas
    <2>. QED BY <2>1, TickGrows
  <1>2. /\ Recorded(d, kind, c)
        /\ hlc' = [hlc EXCEPT ![d] = c] /\ replica' = [replica EXCEPT ![d] = q]
        /\ clamped' = (clamped \/ Bounded(c, now[d]) # c)
    BY DEF Written
  <1>3. /\ e \in Events /\ e.dot = <<d, edits[d] + 1>> /\ e.past = Past(d)
        /\ e.kind = kind /\ e.clock = c
    BY <1>1, EditTyped DEF IInv
  <1>4. /\ seen' = [seen EXCEPT ![d] = @ \union {e}] /\ net' = net
    BY <1>2 DEF Recorded
  <1>. HIDE DEF e, c
  <1>5. /\ Known' = Known \union {e} /\ Counted' /\ DotsUnique'
        /\ \A f \in Known : e.dot # f.dot /\ e.dot \notin f.past
        /\ e.dot \notin e.past /\ Closed(seen[d] \union {e})
    BY <1>1, <1>2, RecordedStep DEF e
  <1>6. TypeOK'
    BY TypeWritten DEF IInv
  <1>7. Writes(Known') = Writes(Known) \union {e}
    BY <1>3, <1>5 DEF Writes
  <1>8. \A w \in Writes(Known) : w.clock \in Clocks /\ w.clock # c
    <2>. SUFFICES ASSUME NEW w \in Writes(Known) PROVE w.clock \in Clocks /\ w.clock # c
      OBVIOUS
    <2>1. w.clock \in Clocks
      BY KnownTyped DEF IInv, Writes, Events
    <2>2. w.clock.node = d => Less(w.clock, c)
      BY <1>1, <2>1, UpToLess DEF IInv, ClocksBehind
    <2>. QED BY <1>1, <2>1, <2>2, LessIrreflexive
  <1>9. ClocksUnique'
    BY <1>3, <1>7, <1>8 DEF IInv, ClocksUnique
  <1>10. q \in Replicas /\ q.adds = r.adds /\ q.removes = r.removes
    <2>. HIDE DEF c
    <2>1. c \in Clocks /\ now[d] \in Nat
      BY <1>1
    <2>. QED BY <2>1, AssignTyped, Zenon
  <1>11. ClocksBehind'
    <2>1. \A x \in Devices : hlc'[x] = IF x = d THEN c ELSE hlc[x]
      BY <1>2 DEF IInv, TypeOK
    <2>2. \A w \in Writes(Known) : UpTo(w.clock, hlc'[w.clock.node])
      <3>. SUFFICES ASSUME NEW w \in Writes(Known)
                    PROVE  UpTo(w.clock, hlc'[w.clock.node])
        OBVIOUS
      <3>1. w.clock.node \in Devices /\ UpTo(w.clock, hlc[w.clock.node])
        BY <1>8 DEF Clocks, IInv, ClocksBehind
      <3>2. w.clock.node = d => Less(w.clock, c)
        BY <1>1, <1>8, <3>1, UpToLess
      <3>. QED BY <2>1, <3>1, <3>2 DEF UpTo
    <2>3. UpTo(e.clock, hlc'[e.clock.node])
      BY <1>1, <1>3, <2>1 DEF UpTo
    <2>4. UpTo(q.clock, c)
      <3>1. UpTo(Bounded(c, now[d]), c)
        BY <1>1, BoundedUpTo
      <3>2. UpTo(r.clock, c)
        BY <1>1, UpToLess DEF IInv, ClocksBehind, UpTo
      <3>3. q.clock = r.clock \/ q.clock = Bounded(c, now[d])
        BY DEF Assign, Replicas
      <3>. QED BY <3>1, <3>2, <3>3
    <2>5. \A x \in Devices : UpTo(replica'[x].clock, hlc'[x])
      BY <1>2, <2>1, <2>4 DEF IInv, TypeOK, ClocksBehind
    <2>. QED BY <1>7, <2>2, <2>3, <2>5 DEF ClocksBehind
  <1>. HIDE DEF q
  <1>12. Presence(q, seen[d] \union {e})
    <2>1. /\ Adds({e}) = IF kind = "pin" THEN {e.dot} ELSE {}
          /\ Deleted({e}) = {}
      BY <1>3 DEF Adds, Deleted, Deletes
    <2>2. e.dot \notin Deleted(seen[d])
      BY <1>5, SeenKnown DEF Deleted, Deletes
    <2>3. Presence(replica[d], seen[d])
      BY DEF IInv, HoldersSound
    <2>4. /\ Adds(seen[d] \union {e}) = Adds(seen[d]) \union Adds({e})
          /\ Deleted(seen[d] \union {e}) = Deleted(seen[d]) \union Deleted({e})
      BY OfUnion
    <2>5. q.adds = Adds(seen[d] \union {e})
      BY <1>3, <1>10, <2>1, <2>3, <2>4 DEF Presence
    <2>. QED BY <1>10, <2>1, <2>2, <2>3, <2>4, <2>5 DEF Presence
  <1>13. HoldersSound'
    BY <1>2, <1>4, <1>5, <1>12, OthersSound
  <1>14. ASSUME ~clamped' PROVE RegistersCurrent' /\ Causal'
    <2>1. ~clamped /\ Bounded(c, now[d]) = c
      BY <1>2, <1>14
    <2>2. PICK last \in Writes(seen[d]) :
            /\ last.clock = replica[d].clock
            /\ \A v \in Writes(seen[d]) : UpTo(v.clock, last.clock)
      BY <2>1 DEF IInv, RegistersCurrent, LastWrite
    <2>3. Writes(seen[d]) \subseteq Writes(Known)
      BY SeenKnown DEF Writes
    <2>4. Less(replica[d].clock, c)
      BY <1>1, UpToLess DEF IInv, ClocksBehind
    <2>5. \A v \in Writes(seen[d]) : Less(v.clock, c)
      BY <1>1, <1>8, <2>2, <2>3, <2>4, UpToLess
    <2>6. q.clock = c /\ q.pinned = value
      BY <2>1, <2>4 DEF q, Assign, Replicas
    <2>7. Writes(seen[d] \union {e}) = Writes(seen[d]) \union {e}
      BY <1>3 DEF Writes
    <2>8. LastWrite(q, seen[d] \union {e})
      BY <1>3, <2>5, <2>6, <2>7 DEF LastWrite, UpTo
    <2>9. RegistersCurrent'
      BY <1>2, <1>4, <2>1, <2>8 DEF IInv, TypeOK, RegistersCurrent
    <2>10. \A w \in Writes(Known) : w.dot \in e.past => Less(w.clock, c)
      <3>. SUFFICES ASSUME NEW w \in Writes(Known), w.dot \in e.past PROVE Less(w.clock, c)
        OBVIOUS
      <3>1. PICK f \in seen[d] : f.dot = w.dot
        BY <1>3 DEF Past
      <3>2. f = w
        BY <3>1, SeenKnown DEF IInv, DotsUnique, Writes
      <3>. QED BY <2>5, <3>2 DEF Writes
    <2>11. Causal'
      BY <1>3, <1>5, <1>7, <2>1, <2>10 DEF IInv, Causal, Writes
    <2>. QED BY <2>9, <2>11
  <1>. QED BY <1>5, <1>6, <1>9, <1>11, <1>13, <1>14 DEF IInv

\* A deletion removes what its author knew, and it alone.
LEMMA DeleteStep ==
    ASSUME IInv, NEW d \in Devices, Delete(d)
    PROVE  IInv'
  <1>. DEFINE e == Edit(d, "delete", Origin)
              q == Removed(replica[d])
  <1>1. /\ Recorded(d, "delete", Origin)
        /\ replica' = [replica EXCEPT ![d] = q] /\ hlc' = hlc /\ clamped' = clamped
    BY DEF Delete
  <1>2. /\ e.past = Past(d) /\ e.kind = "delete"
    BY EditTyped, OriginTyped DEF IInv
  <1>3. /\ seen' = [seen EXCEPT ![d] = @ \union {e}] /\ net' = net
    BY <1>1 DEF Recorded
  <1>. HIDE DEF e
  <1>4. /\ Known' = Known \union {e} /\ Counted' /\ DotsUnique'
        /\ Closed(seen[d] \union {e})
    BY <1>1, OriginTyped, RecordedStep DEF e
  <1>5. TypeOK'
    <2>1. Delete(d) => Next
      BY DEF Next
    <2>. QED BY <2>1, TypeNext DEF IInv
  <1>6. /\ q.clock = replica[d].clock /\ q.pinned = replica[d].pinned
        /\ q.adds = replica[d].adds
        /\ q.removes = replica[d].removes \union replica[d].adds
    BY DEF Removed, IInv, TypeOK, Replicas
  <1>. HIDE DEF q
  <1>7. Writes(Known') = Writes(Known)
    BY <1>2, <1>4 DEF Writes
  <1>8. ClocksUnique' /\ ClocksBehind'
    BY <1>1, <1>6, <1>7 DEF IInv, TypeOK, ClocksUnique, ClocksBehind
  <1>9. Presence(q, seen[d] \union {e})
    <2>1. Adds({e}) = {} /\ Deleted({e}) = e.past
      BY <1>2 DEF Adds, Deletes, Deleted
    <2>2. Presence(replica[d], seen[d])
      BY DEF IInv, HoldersSound
    <2>3. /\ Adds(seen[d] \union {e}) = Adds(seen[d]) \union Adds({e})
          /\ Deleted(seen[d] \union {e}) = Deleted(seen[d]) \union Deleted({e})
      BY OfUnion
    <2>4. Adds(seen[d]) \subseteq e.past
      BY <1>2 DEF Adds, Past
    <2>. QED BY <1>6, <2>1, <2>2, <2>3, <2>4 DEF Presence
  <1>10. HoldersSound'
    BY <1>1, <1>3, <1>4, <1>9, OthersSound
  <1>11. ASSUME ~clamped' PROVE RegistersCurrent' /\ Causal'
    <2>1. Writes(seen[d] \union {e}) = Writes(seen[d])
      BY <1>2 DEF Writes
    <2>2. LastWrite(q, seen[d] \union {e})
      BY <1>1, <1>6, <1>11, <2>1 DEF IInv, RegistersCurrent, LastWrite
    <2>3. RegistersCurrent'
      BY <1>1, <1>3, <1>11, <2>2 DEF IInv, TypeOK, RegistersCurrent
    <2>. QED BY <1>1, <1>7, <1>11, <2>3 DEF IInv, Causal
  <1>. QED BY <1>4, <1>5, <1>8, <1>10, <1>11 DEF IInv

-----------------------------------------------------------------------------
(* The network and the clocks *)

\* The later of two last writes is the last write of the union.
LEMMA MergeCurrent ==
    ASSUME TypeOK, NEW E \in SUBSET Known, NEW F \in SUBSET Known,
           NEW r \in Replicas, NEW o \in Replicas, LastWrite(r, E), LastWrite(o, F),
           NEW t \in Nat, Bounded(o.clock, t) = o.clock
    PROVE  LastWrite(Merge(r, o, t), E \union F)
  <1>. DEFINE j == Merge(r, o, t)
  <1>1. /\ r.clock \in Clocks /\ o.clock \in Clocks
    BY DEF Replicas
  <1>2. IF Less(r.clock, o.clock) THEN j.clock = o.clock /\ j.pinned = o.pinned
        ELSE j.clock = r.clock /\ j.pinned = r.pinned
    BY DEF Merge, Assign, Replicas
  <1>3. Writes(E \union F) = Writes(E) \union Writes(F)
    BY OfUnion
  <1>4. \A v \in Writes(E) \union Writes(F) : v.clock \in Clocks
    BY KnownTyped DEF Writes, Events
  <1>5. PICK w \in Writes(E) : /\ w.clock = r.clock /\ r.pinned = (w.kind = "pin")
                              /\ \A v \in Writes(E) : UpTo(v.clock, w.clock)
    BY DEF LastWrite
  <1>6. PICK x \in Writes(F) : /\ x.clock = o.clock /\ o.pinned = (x.kind = "pin")
                              /\ \A v \in Writes(F) : UpTo(v.clock, x.clock)
    BY DEF LastWrite
  <1>. HIDE DEF j
  <1>7. CASE Less(r.clock, o.clock)
    <2>1. \A v \in Writes(E) : Less(v.clock, x.clock)
      BY <1>1, <1>4, <1>5, <1>6, <1>7, UpToLess
    <2>. QED BY <1>2, <1>3, <1>6, <1>7, <2>1 DEF LastWrite, UpTo, j
  <1>8. CASE ~Less(r.clock, o.clock)
    <2>1. UpTo(o.clock, r.clock)
      BY <1>1, <1>8, LessTotal DEF UpTo
    <2>2. \A v \in Writes(F) : UpTo(v.clock, w.clock)
      BY <1>1, <1>4, <1>5, <1>6, <2>1, LessTransitive DEF UpTo
    <2>. QED BY <1>2, <1>3, <1>5, <1>8, <2>2 DEF LastWrite, j
  <1>. QED BY <1>7, <1>8

\* A merged snapshot adds what its sender had heard of.
LEMMA ReceiveStep ==
    ASSUME IInv, NEW d \in Devices, Receive(d)
    PROVE  IInv'
  <1>1. PICK m \in net :
          /\ hlc' = [hlc EXCEPT ![d] = Observe(hlc[d], m.replica.clock, now[d])]
          /\ replica' = [replica EXCEPT ![d] = Merge(@, m.replica, now[d])]
          /\ seen' = [seen EXCEPT ![d] = @ \union m.seen]
          /\ clamped' = (clamped \/ Bounded(m.replica.clock, now[d]) # m.replica.clock)
          /\ UNCHANGED <<now, edits, net>>
    BY DEF Receive
  <1>. DEFINE heard == Observe(hlc[d], m.replica.clock, now[d])
              q == Merge(replica[d], m.replica, now[d])
              E == seen[d] \union m.seen
  <1>2. TypeOK'
    <2>1. Receive(d) => Next
      BY DEF Next
    <2>. QED BY <2>1, TypeNext DEF IInv
  <1>3. /\ m.replica \in Replicas /\ m.replica.clock \in Clocks
        /\ replica[d] \in Replicas /\ replica[d].clock \in Clocks
        /\ hlc[d] \in Clocks /\ hlc[d].node = d /\ now[d] \in Nat
        /\ seen[d] \in SUBSET Known /\ m.seen \in SUBSET Known
    BY SeenKnown DEF IInv, TypeOK, Replicas, HoldersSound
  <1>4. /\ heard \in Clocks /\ heard.node = d
        /\ Less(hlc[d], heard) /\ Less(Bounded(m.replica.clock, now[d]), heard)
    BY <1>3, ObserveGrows
  <1>5. \A x \in Devices : /\ hlc'[x] = IF x = d THEN heard ELSE hlc[x]
                           /\ replica'[x] = IF x = d THEN q ELSE replica[x]
                           /\ seen'[x] = IF x = d THEN E ELSE seen[x]
    BY <1>1 DEF IInv, TypeOK
  <1>6. Known' = Known
    BY <1>3, <1>5 DEF Known
  <1>7. Counted' /\ DotsUnique' /\ ClocksUnique'
    BY <1>1, <1>6 DEF IInv, Counted, DotsUnique, ClocksUnique
  <1>8. ClocksBehind'
    <2>1. \A w \in Writes(Known) : w.clock \in Clocks
      BY KnownTyped DEF IInv, Writes, Events
    <2>. HIDE DEF heard, q
    <2>2. \A w \in Writes(Known) : UpTo(w.clock, hlc'[w.clock.node])
      <3>. SUFFICES ASSUME NEW w \in Writes(Known)
                    PROVE  UpTo(w.clock, hlc'[w.clock.node])
        OBVIOUS
      <3>1. /\ w.clock \in Clocks /\ w.clock.node \in Devices
            /\ UpTo(w.clock, hlc[w.clock.node])
        BY <2>1 DEF Clocks, IInv, ClocksBehind
      <3>2. w.clock.node = d => Less(w.clock, heard)
        BY <1>3, <1>4, <3>1, UpToLess
      <3>. QED BY <1>5, <3>1, <3>2 DEF UpTo
    <2>3. Less(replica[d].clock, heard)
      BY <1>3, <1>4, UpToLess DEF IInv, ClocksBehind
    <2>4. q.clock = replica[d].clock \/ q.clock = Bounded(m.replica.clock, now[d])
      BY <1>3 DEF q, Merge, Assign, Replicas
    <2>5. \A x \in Devices : UpTo(replica'[x].clock, hlc'[x])
      BY <1>4, <1>5, <2>3, <2>4 DEF IInv, ClocksBehind, UpTo
    <2>. QED BY <1>6, <2>2, <2>5 DEF ClocksBehind
  <1>9. Closed(E) /\ Presence(q, E)
    <2>1. /\ Closed(seen[d]) /\ Closed(m.seen)
          /\ Presence(replica[d], seen[d]) /\ Presence(m.replica, m.seen)
      BY DEF IInv, HoldersSound
    <2>2. /\ q.adds = replica[d].adds \union m.replica.adds
          /\ q.removes = replica[d].removes \union m.replica.removes
      <3>1. m.replica \in Replicas /\ replica[d] \in Replicas /\ now[d] \in Nat
        BY <1>3
      <3>2. ASSUME NEW r \in Replicas, NEW o \in Replicas, NEW t \in Nat
            PROVE  /\ Merge(r, o, t).adds = r.adds \union o.adds
                   /\ Merge(r, o, t).removes = r.removes \union o.removes
        BY MergeTyped
      <3>. QED BY <3>1, <3>2
    <2>. HIDE DEF q
    <2>. QED BY <1>3, <2>1, <2>2, ClosedUnion, PresenceUnion DEF IInv
  <1>. HIDE DEF q, E, heard
  <1>10. HoldersSound'
    BY <1>1, <1>5, <1>6, <1>9 DEF IInv, HoldersSound
  <1>11. ASSUME ~clamped' PROVE RegistersCurrent' /\ Causal'
    <2>1. ~clamped /\ Bounded(m.replica.clock, now[d]) = m.replica.clock
      BY <1>1, <1>11
    <2>2. LastWrite(replica[d], seen[d]) /\ LastWrite(m.replica, m.seen)
      BY <2>1 DEF IInv, RegistersCurrent
    <2>3. LastWrite(q, E)
      BY <1>3, <2>1, <2>2, MergeCurrent DEF IInv, q, E
    <2>4. RegistersCurrent'
      BY <1>1, <1>5, <2>1, <2>3 DEF IInv, RegistersCurrent
    <2>. QED BY <1>6, <2>1, <2>4 DEF IInv, Causal
  <1>. QED BY <1>2, <1>7, <1>8, <1>10, <1>11 DEF IInv

\* Every step keeps the invariant.
LEMMA NextIInv == IInv /\ [Next]_vars => IInv'
  <1>. SUFFICES ASSUME IInv, [Next]_vars PROVE IInv'
    OBVIOUS
  <1>1. TypeOK'
    BY TypeNext DEF IInv
  <1>2. ASSUME NEW d \in Devices, Pin(d) PROVE IInv'
    <2>. DEFINE r == [replica[d] EXCEPT !.adds = @ \union {<<d, edits[d] + 1>>}]
    <2>1. /\ r \in Replicas /\ r.clock = replica[d].clock
          /\ r.removes = replica[d].removes
          /\ r.adds = replica[d].adds \union {<<d, edits[d] + 1>>}
      <3>1. replica[d] \in Replicas /\ edits[d] + 1 \in Nat
        BY DEF IInv, TypeOK
      <3>2. <<d, edits[d] + 1>> \in Dots
        BY <3>1 DEF Dots
      <3>. QED BY <3>1, <3>2 DEF Replicas
    <2>2. Written(d, "pin", r, TRUE)
      BY <1>2 DEF Pin
    <2>. HIDE DEF r
    <2>. QED BY <2>1, <2>2, WrittenStep
  <1>3. ASSUME NEW d \in Devices, Unpin(d) PROVE IInv'
    <2>1. replica[d] \in Replicas
      BY DEF IInv, TypeOK
    <2>2. Written(d, "unpin", replica[d], FALSE)
      BY <1>3 DEF Unpin
    <2>. QED BY <2>1, <2>2, WrittenStep
  <1>4. ASSUME NEW d \in Devices, Delete(d) PROVE IInv'
    BY <1>4, DeleteStep
  <1>5. ASSUME NEW d \in Devices, Receive(d) PROVE IInv'
    BY <1>5, ReceiveStep
  <1>6. ASSUME UNCHANGED <<hlc, replica, edits, seen, clamped>>,
               \A m \in net' : m \in net \/ \E d \in Devices :
                                 m = [replica |-> replica[d], seen |-> seen[d]]
        PROVE  IInv'
    <2>1. Known' = Known
      BY <1>6 DEF Known
    <2>2. Counted' /\ DotsUnique' /\ ClocksUnique' /\ ClocksBehind'
      BY <1>6, <2>1 DEF IInv, Counted, DotsUnique, ClocksUnique, ClocksBehind
    <2>3. HoldersSound'
      BY <1>6, <2>1, SeenKnown DEF IInv, HoldersSound
    <2>4. ~clamped' => RegistersCurrent' /\ Causal'
      BY <1>6, <2>1 DEF IInv, RegistersCurrent, Causal
    <2>. QED BY <1>1, <2>2, <2>3, <2>4 DEF IInv
  <1>7. ASSUME NEW d \in Devices, Send(d) PROVE IInv'
    BY <1>6, <1>7 DEF Send
  <1>8. CASE Lose
    BY <1>6, <1>8 DEF Lose
  <1>9. ASSUME NEW d \in Devices, ClockStep(d) PROVE IInv'
    BY <1>6, <1>9 DEF ClockStep
  <1>10. CASE UNCHANGED vars
    BY <1>6, <1>10 DEF vars
  <1>. QED BY <1>2, <1>3, <1>4, <1>5, <1>7, <1>8, <1>9, <1>10 DEF Next

\* The invariant holds of every reachable state.
LEMMA SpecIInv == Spec => []IInv
  BY InitIInv, NextIInv, PTL DEF Spec

-----------------------------------------------------------------------------
(* The theorems *)

\* The devices and the network stay well formed.
THEOREM TypeCorrect == Spec => []TypeOK
  <1>1. IInv => TypeOK
    BY DEF IInv
  <1>. QED BY <1>1, SpecIInv, PTL

\* Devices that heard of the same edits agree, whatever the order, the number
\* and the route of the snapshots that told them (ItemReplica::merge).
THEOREM Convergence == Spec => []Convergent
  <1>1. IInv => Convergent
    <2>. SUFFICES ASSUME IInv, ~clamped, NEW d \in Devices, NEW e \in Devices,
                         seen[d] = seen[e]
                  PROVE  replica[d] = replica[e]
      BY DEF Convergent
    <2>1. replica[d].adds = replica[e].adds /\ replica[d].removes = replica[e].removes
      BY DEF IInv, HoldersSound, Presence
    <2>2. PICK v \in Writes(seen[d]) :
            /\ v.clock = replica[d].clock /\ replica[d].pinned = (v.kind = "pin")
            /\ \A x \in Writes(seen[d]) : UpTo(x.clock, v.clock)
      BY DEF IInv, RegistersCurrent, LastWrite
    <2>3. PICK w \in Writes(seen[d]) :
            /\ w.clock = replica[e].clock /\ replica[e].pinned = (w.kind = "pin")
            /\ \A x \in Writes(seen[d]) : UpTo(x.clock, w.clock)
      BY DEF IInv, RegistersCurrent, LastWrite
    <2>4. v \in Writes(Known) /\ w \in Writes(Known)
      BY SeenKnown DEF Writes
    <2>5. v.clock \in Clocks /\ w.clock \in Clocks
      BY <2>2, <2>3 DEF IInv, TypeOK, Replicas
    <2>6. UpTo(v.clock, w.clock) /\ UpTo(w.clock, v.clock)
      BY <2>2, <2>3
    <2>7. v.clock = w.clock
      BY <2>5, <2>6, LessTransitive, LessIrreflexive DEF UpTo
    <2>8. v = w
      BY <2>4, <2>7 DEF IInv, ClocksUnique
    <2>9. replica[d] \in Replicas /\ replica[e] \in Replicas
      BY DEF IInv, TypeOK
    <2>. QED BY <2>1, <2>2, <2>3, <2>8, <2>9 DEF Replicas
  <1>. QED BY <1>1, SpecIInv, PTL

\* An item is gone exactly when every assertion of it was known to a deleter,
\* whatever the clocks do (OrSet::remove, OrSet::merge).
THEOREM AddsWin == Spec => []AddWins
  <1>1. IInv => AddWins
    BY DEF IInv, HoldersSound, Presence, AddWins, IsPresent
  <1>. QED BY <1>1, SpecIInv, PTL

\* An overwritten value does not come back to who knows of the overwriting
\* (HybridLogicalClock::observe, LwwRegister::assign).
THEOREM Causality == Spec => []NoUndoneWrite
  <1>1. IInv => NoUndoneWrite
    <2>. SUFFICES ASSUME IInv, ~clamped, NEW d \in Devices,
                         NEW w \in Writes(seen[d]), NEW v \in Writes(seen[d]),
                         w.clock = replica[d].clock, w.dot \in v.past
                  PROVE  FALSE
      BY DEF NoUndoneWrite
    <2>1. v \in Writes(Known) /\ w \in Writes(Known)
      BY SeenKnown DEF Writes
    <2>2. v.clock \in Clocks /\ w.clock \in Clocks
      BY <2>1, KnownTyped DEF IInv, Writes, Events
    <2>3. Less(w.clock, v.clock)
      BY <2>1 DEF IInv, Causal
    <2>4. UpTo(v.clock, w.clock)
      BY DEF IInv, RegistersCurrent, LastWrite
    <2>. QED BY <2>2, <2>3, <2>4, UpToLess, LessIrreflexive
  <1>. QED BY <1>1, SpecIInv, PTL

\* A write shows at once on the device that made it, unless its wall clock has
\* fallen behind its hybrid clock by more than the tolerance.
THEOREM OwnWrites == Spec => OwnWriteShows
  <1>. DEFINE Shows(d) ==
         LET written == Writes(seen'[d]) \ Writes(seen[d])
         IN  edits'[d] # edits[d] /\ hlc'[d].physical <= now[d] + Tolerance =>
               \A w \in written : replica'[d].pinned = (w.kind = "pin")
                                  /\ replica'[d].clock = w.clock
  <1>1. ASSUME IInv, NEW d \in Devices, NEW kind \in {"pin", "unpin"},
               NEW r \in Replicas, NEW value \in BOOLEAN, Written(d, kind, r, value),
               value = (kind = "pin"), r.clock = replica[d].clock, NEW x \in Devices
        PROVE  Shows(x)
    <2>. DEFINE c == Tick(hlc[d], now[d])
                e == Edit(d, kind, c)
    <2>1. /\ now[d] \in Nat /\ hlc[d] \in Clocks /\ replica[d].clock \in Clocks
      BY <1>1 DEF IInv, TypeOK, Replicas
    <2>2. c \in Clocks /\ Less(hlc[d], c)
      BY <2>1, TickGrows
    <2>3. Less(r.clock, c)
      BY <1>1, <2>1, <2>2, UpToLess DEF IInv, ClocksBehind
    <2>4. e.kind = kind /\ e.clock = c
      BY <1>1, <2>2, EditTyped DEF IInv
    <2>5. /\ hlc' = [hlc EXCEPT ![d] = c]
          /\ replica' = [replica EXCEPT ![d] = Assign(r, value, c, now[d])]
          /\ edits' = [edits EXCEPT ![d] = @ + 1]
          /\ seen' = [seen EXCEPT ![d] = @ \union {e}]
      BY <1>1 DEF Written, Recorded
    <2>. HIDE DEF c, e
    <2>6. CASE x # d
      BY <1>1, <2>5, <2>6 DEF IInv, TypeOK
    <2>7. CASE x = d /\ hlc'[d].physical <= now[d] + Tolerance
      <3>1. hlc'[d] = c
        BY <1>1, <2>5 DEF IInv, TypeOK
      <3>2. Bounded(c, now[d]) = c
        BY <2>1, <2>2, <2>7, <3>1, SyncAssumption, ClockFields DEF Bounded
      <3>3. /\ Assign(r, value, c, now[d]).pinned = value
            /\ Assign(r, value, c, now[d]).clock = c
        BY <1>1, <2>3, <3>2 DEF Assign, Replicas
      <3>4. /\ replica'[d] = Assign(r, value, c, now[d])
            /\ seen'[d] = seen[d] \union {e}
        BY <1>1, <2>5 DEF IInv, TypeOK
      <3>5. Writes(seen'[d]) \ Writes(seen[d]) \subseteq {e}
        BY <3>4 DEF Writes
      <3>. QED BY <1>1, <2>4, <2>7, <3>3, <3>4, <3>5
    <2>. QED BY <2>6, <2>7
  <1>2. ASSUME IInv, [Next]_vars, NEW x \in Devices PROVE Shows(x)
    <2>1. ASSUME NEW d \in Devices, Pin(d) PROVE Shows(x)
      <3>. DEFINE r == [replica[d] EXCEPT !.adds = @ \union {<<d, edits[d] + 1>>}]
      <3>1. edits[d] + 1 \in Nat /\ replica[d] \in Replicas
        BY <1>2 DEF IInv, TypeOK
      <3>2. <<d, edits[d] + 1>> \in Dots
        BY <3>1 DEF Dots
      <3>3. r \in Replicas /\ r.clock = replica[d].clock
        BY <3>1, <3>2 DEF Replicas
      <3>4. Written(d, "pin", r, TRUE)
        BY <2>1 DEF Pin
      <3>. HIDE DEF r, Shows
      <3>. QED BY <1>1, <1>2, <3>3, <3>4
    <2>2. ASSUME NEW d \in Devices, Unpin(d) PROVE Shows(x)
      <3>1. replica[d] \in Replicas
        BY <1>2 DEF IInv, TypeOK
      <3>2. Written(d, "unpin", replica[d], FALSE)
        BY <2>2 DEF Unpin
      <3>. HIDE DEF Shows
      <3>. QED BY <1>1, <1>2, <3>1, <3>2
    <2>3. ASSUME NEW d \in Devices, Delete(d) PROVE Shows(x)
      <3>. DEFINE e == Edit(d, "delete", Origin)
      <3>1. e.kind = "delete"
        BY <1>2, EditTyped, OriginTyped DEF IInv
      <3>2. seen' = [seen EXCEPT ![d] = @ \union {e}]
        BY <2>3 DEF Delete, Recorded
      <3>. HIDE DEF e
      <3>3. Writes(seen'[x]) = Writes(seen[x])
        BY <1>2, <3>1, <3>2 DEF Writes, IInv, TypeOK
      <3>. QED BY <3>3
    <2>4. CASE edits' = edits
      BY <2>4
    <2>5. ASSUME NEW d \in Devices, Send(d) \/ Receive(d) \/ ClockStep(d) PROVE edits' = edits
      BY <2>5 DEF Send, Receive, ClockStep
    <2>6. Lose \/ UNCHANGED vars => edits' = edits
      BY DEF Lose, vars
    <2>. HIDE DEF Shows
    <2>. QED BY <1>2, <2>1, <2>2, <2>3, <2>4, <2>5, <2>6 DEF Next
  <1>3. IInv /\ [Next]_vars => [\A d \in Devices : Shows(d)]_vars
    BY <1>2
  <1>. QED BY <1>3, SpecIInv, PTL DEF Spec, OwnWriteShows

-----------------------------------------------------------------------------
(***************************************************************************)
(* SnippetMirror.  The plan is a promise about the records it was made from:  *)
(* what it may overwrite there is the mirror's own, whatever happened since.  *)
(***************************************************************************)

Records == Contents \cup {Nothing}

MirrorTypeOK ==
    /\ source \in [SnippetKeys -> Records] /\ target \in [SnippetKeys -> Records]
    /\ saved.manifest \in [SnippetKeys -> Records \cup {Tombstone}]
    /\ plan \in [SnippetKeys -> {"none", "conflict", "upsert", "delete"}]
    /\ performed \subseteq SnippetKeys
    /\ mirrored \in [SnippetKeys -> SUBSET Contents]
    /\ disturbed \in BOOLEAN
    /\ planned.source \in [SnippetKeys -> Records] /\ planned.target \in [SnippetKeys -> Records]

PlanIsEarned ==
    phase = "apply" => \A k \in SnippetKeys :
        /\ plan[k] \in {"upsert", "delete"} /\ planned.target[k] # Nothing =>
             planned.target[k] \in mirrored[k]
        /\ plan[k] = "upsert" => planned.source[k] \in Contents
        /\ k \in performed /\ plan[k] = "upsert" => planned.source[k] \in mirrored[k]

SidesAreAsPlanned ==
    phase = "apply" => \A k \in SnippetKeys :
        /\ plan[k] = "none" => planned.source[k] = planned.target[k]
        /\ ~disturbed => /\ source[k] = planned.source[k]
                         /\ k \in performed => target[k] = source[k]
                         /\ k \notin performed => target[k] = planned.target[k]

MirrorInv == MirrorTypeOK /\ ManifestIsEarned /\ PlanIsEarned /\ SidesAreAsPlanned

\* plan_snippet_mirror: a difference is acted upon only where the last manifest
\* answers for the target's record, or there is none.
LEMMA ActionIs ==
  ASSUME MirrorTypeOK, NEW k \in SnippetKeys
  PROVE /\ Action(k) \in {"none", "conflict", "upsert", "delete"}
        /\ Action(k) = "none" => source[k] = target[k]
        /\ Action(k) = "upsert" => source[k] \in Contents
        /\ Action(k) \in {"upsert", "delete"} /\ target[k] # Nothing =>
             target[k] \in Contents /\ saved.manifest[k] = target[k]
<1>1. target[k] \in Contents \cup {Nothing}
  BY DEF MirrorTypeOK, Records
<1>2. Base(k) = saved.manifest[k] \/ Base(k) = Nothing
  BY DEF Base
<1>3. CASE source[k] = target[k]
  BY <1>3 DEF Action
<1>4. CASE source[k] # target[k] /\ target[k] = Nothing
  BY <1>4 DEF Action, MirrorTypeOK, Records
<1>5. CASE source[k] # target[k] /\ target[k] # Nothing
  BY <1>1, <1>2, <1>5 DEF Action, MirrorTypeOK, Records
<1> QED
  BY <1>3, <1>4, <1>5

LEMMA MirrorStart == MirrorInit => MirrorInv
<1> SUFFICES ASSUME MirrorInit PROVE MirrorInv
  OBVIOUS
<1>1. Nothing \notin Contents
  BY MirrorAssumption
<1>2. Empty \in [SnippetKeys -> Records] /\ NoPlan \in [SnippetKeys -> {"none", "conflict", "upsert", "delete"}]
      /\ \A k \in SnippetKeys : Empty[k] = Nothing
  BY DEF Empty, NoPlan, Records
<1>3. MirrorTypeOK
  BY <1>2 DEF MirrorInit, MirrorTypeOK, Records, AtRestSides
<1> QED
  BY <1>1, <1>2, <1>3 DEF MirrorInit, MirrorInv, ManifestIsEarned, PlanIsEarned, SidesAreAsPlanned

LEMMA MirrorStep == MirrorInv /\ [MirrorNext]_mirrorVars => MirrorInv'
<1> SUFFICES ASSUME MirrorInv, [MirrorNext]_mirrorVars PROVE MirrorInv'
  OBVIOUS
<1>0. Nothing \notin Contents /\ Tombstone \notin Contents /\ Nothing # Tombstone
  BY MirrorAssumption DEF Nothing, Tombstone
<1> USE DEF MirrorInv
<1>1. CASE Plan
  <2>1. MirrorTypeOK'
    <3>1. plan' \in [SnippetKeys -> {"none", "conflict", "upsert", "delete"}]
      BY <1>1, ActionIs DEF Plan
    <3>2. /\ planned'.source = source /\ planned'.target = target /\ performed' = {}
          /\ disturbed' = FALSE /\ UNCHANGED <<source, target, saved, mirrored>>
      BY <1>1 DEF Plan
    <3> QED
      BY <3>1, <3>2 DEF MirrorTypeOK
  <2>2. ManifestIsEarned'
    BY <1>1 DEF Plan, ManifestIsEarned
  <2>3. ASSUME NEW k \in SnippetKeys
        PROVE /\ plan'[k] = "none" => planned'.source[k] = planned'.target[k]
              /\ plan'[k] \in {"upsert", "delete"} /\ planned'.target[k] # Nothing =>
                   planned'.target[k] \in mirrored'[k]
              /\ plan'[k] = "upsert" => planned'.source[k] \in Contents
              /\ source'[k] = planned'.source[k] /\ target'[k] = planned'.target[k]
    <3>1. /\ plan'[k] = Action(k) /\ planned'.source = source /\ planned'.target = target
          /\ UNCHANGED <<source, target, mirrored>>
      BY <1>1 DEF Plan
    <3> QED
      BY <3>1, ActionIs DEF ManifestIsEarned
  <2>4. performed' = {}
    BY <1>1 DEF Plan
  <2> QED
    BY <2>1, <2>2, <2>3, <2>4 DEF PlanIsEarned, SidesAreAsPlanned
<1>2. CASE Stop
  <2>1. MirrorTypeOK'
    BY <1>2 DEF Stop, MirrorTypeOK, NoPlan, AtRestSides, Empty, Records
  <2> QED
    BY <1>2, <2>1 DEF Stop, ManifestIsEarned, PlanIsEarned, SidesAreAsPlanned
<1>3. ASSUME NEW whole \in BOOLEAN, Save(whole) PROVE MirrorInv'
  <2>1. /\ phase = "apply" /\ saved'.manifest = Applied /\ phase' = "idle" /\ plan' = NoPlan
        /\ performed' = {} /\ planned' = AtRestSides
        /\ UNCHANGED <<source, target, mirrored, disturbed>>
    BY <1>3 DEF Save
  <2>2. ASSUME NEW k \in SnippetKeys
        PROVE /\ Applied[k] \in Records \cup {Tombstone}
              /\ Applied[k] \in Contents => Applied[k] \in mirrored[k]
    <3>1. Base(k) = saved.manifest[k] \/ Base(k) = Nothing
      BY DEF Base
    <3>2. CASE k \notin performed
      BY <1>0, <3>1, <3>2 DEF Applied, MirrorTypeOK, ManifestIsEarned, Records
    <3>3. CASE k \in performed /\ plan[k] = "upsert"
      BY <2>1, <3>3 DEF Applied, MirrorTypeOK, PlanIsEarned
    <3>4. CASE k \in performed /\ plan[k] # "upsert"
      BY <1>0, <3>4 DEF Applied
    <3> QED
      BY <3>2, <3>3, <3>4
  <2>3. Applied \in [SnippetKeys -> Records \cup {Tombstone}]
    BY <2>2 DEF Applied
  <2>4. MirrorTypeOK'
    BY <2>1, <2>3 DEF MirrorTypeOK, NoPlan, AtRestSides, Empty, Records
  <2> QED
    BY <2>1, <2>2, <2>4 DEF ManifestIsEarned, PlanIsEarned, SidesAreAsPlanned
<1>4. ASSUME NEW k \in SnippetKeys, Perform(k) PROVE MirrorInv'
  <2>1. /\ phase = "apply" /\ phase' = "apply" /\ k \notin performed /\ performed' = performed \cup {k}
        /\ source[k] = planned.source[k] /\ target[k] = planned.target[k]
        /\ plan[k] \in {"upsert", "delete"} /\ target' = [target EXCEPT ![k] = source[k]]
        /\ mirrored' = IF plan[k] = "upsert" THEN [mirrored EXCEPT ![k] = @ \cup {source[k]}] ELSE mirrored
        /\ UNCHANGED <<source, saved, plan, planned, disturbed>>
    BY <1>4 DEF Perform
  <2>2. plan[k] = "upsert" => source[k] \in Contents
    BY <2>1 DEF PlanIsEarned
  <2>3. /\ mirrored' \in [SnippetKeys -> SUBSET Contents]
        /\ \A j \in SnippetKeys : mirrored[j] \subseteq mirrored'[j]
        /\ plan[k] = "upsert" => source[k] \in mirrored'[k]
    BY <2>1, <2>2 DEF MirrorTypeOK
  <2>4. /\ target' \in [SnippetKeys -> Records] /\ target'[k] = source[k]
        /\ \A j \in SnippetKeys \ {k} : target'[j] = target[j]
    BY <2>1 DEF MirrorTypeOK
  <2>5. MirrorTypeOK'
    BY <2>1, <2>3, <2>4 DEF MirrorTypeOK
  <2>6. ManifestIsEarned'
    BY <2>1, <2>3 DEF ManifestIsEarned
  <2>7. PlanIsEarned'
    BY <2>1, <2>3 DEF PlanIsEarned
  <2>8. SidesAreAsPlanned'
    BY <2>1, <2>4 DEF SidesAreAsPlanned
  <2> QED
    BY <2>5, <2>6, <2>7, <2>8
<1>5. ASSUME NEW k \in SnippetKeys, NEW c \in Records, EditSource(k, c) \/ EditTarget(k, c)
      PROVE MirrorInv'
  <2>1. /\ disturbed' = TRUE /\ UNCHANGED <<saved, plan, performed, phase, planned, mirrored>>
        /\ source' \in [SnippetKeys -> Records] /\ target' \in [SnippetKeys -> Records]
    BY <1>5 DEF EditSource, EditTarget, MirrorTypeOK
  <2> QED
    BY <2>1 DEF MirrorTypeOK, ManifestIsEarned, PlanIsEarned, SidesAreAsPlanned
<1>6. CASE UNCHANGED mirrorVars
  BY <1>6 DEF mirrorVars, MirrorTypeOK, ManifestIsEarned, PlanIsEarned, SidesAreAsPlanned
<1> QED
  BY <1>1, <1>2, <1>3, <1>4, <1>5, <1>6 DEF MirrorNext, Records

LEMMA MirrorKeeps == MirrorInv => MirrorSafety
<1> SUFFICES ASSUME MirrorInv PROVE MirrorSafety
  OBVIOUS
<1>1. AgreedIsEqual
  <2> SUFFICES ASSUME phase = "apply", ~disturbed,
                      \A k \in SnippetKeys : plan[k] = "none" \/ k \in performed
               PROVE source = target
    BY DEF AgreedIsEqual
  <2>1. \A k \in SnippetKeys : source[k] = target[k]
    BY DEF MirrorInv, SidesAreAsPlanned
  <2> QED
    BY <2>1 DEF MirrorInv, MirrorTypeOK
<1> QED
  BY <1>1 DEF MirrorInv, MirrorSafety

\* Perform is the one step that replaces a record on the target.
LEMMA ReplacedIsMirrored ==
  MirrorInv /\ [MirrorNext]_mirrorVars =>
    [\A k \in SnippetKeys :
       phase = "apply" /\ k \in performed' \ performed /\ target[k] # Nothing =>
          target[k] \in mirrored[k]]_mirrorVars
<1> SUFFICES ASSUME MirrorInv, MirrorNext, NEW k \in SnippetKeys, phase = "apply",
                    k \in performed' \ performed, target[k] # Nothing
             PROVE target[k] \in mirrored[k]
  OBVIOUS
<1>1. Perform(k)
  BY DEF MirrorNext, Plan, Stop, Save, Perform, EditSource, EditTarget
<1> QED
  BY <1>1 DEF Perform, MirrorInv, PlanIsEarned

-----------------------------------------------------------------------------
(***************************************************************************)
(* Handoffs: the outbox, and the session that burns after reading.  A receipt *)
(* of this epoch comes from a device that holds no copy any more.             *)
(***************************************************************************)

OutInv ==
    \A p \in DOMAIN outbox :
        /\ outbox[p].status \in {"pending", "waiting", "delivered", "failed"}
        /\ outbox[p].attempts \in 0..MaxRetries
        /\ DOMAIN outbox[p] = {"status", "attempts"}
        /\ outbox[p].status = "delivered" => p \in reached
        /\ outbox[p].status = "failed" <=> outbox[p].attempts = MaxRetries

BurnInv ==
    /\ burn \in [epoch : Nat, state : {"armed", "delivered", "pasted", "wiping", "complete"},
                 wiped : SUBSET Peers]
    /\ copies \subseteq Peers /\ burn.wiped \cap copies = {}
    /\ \A r \in receipts :
         /\ r.epoch \in Nat /\ r.epoch <= burn.epoch
         /\ r.epoch = burn.epoch => burn.state \in {"wiping", "complete"} /\ r.device \notin copies
    /\ burn.state \in {"armed", "delivered"} => pastes = 0
    /\ burn.state \in {"pasted", "wiping"} => pastes = 1
    /\ burn.state = "complete" => copies = {} /\ (burn.epoch > 0 => pastes = 1)

HandInv == OutInv /\ BurnInv

LEMMA HandStart == HandInit => HandInv
BY DEF HandInit, HandInv, OutInv, BurnInv

\* What is open is not settled: every entry that a step rewrites was open.
LEMMA OutStep ==
  OutInv /\ [OutNext]_outVars =>
    /\ OutInv'
    /\ [\A p \in DOMAIN outbox :
          outbox[p].status \in {"delivered", "failed"} => outbox'[p] = outbox[p]]_outVars
<1> SUFFICES ASSUME OutInv, [OutNext]_outVars
             PROVE OutInv' /\ [\A p \in DOMAIN outbox :
                                 outbox[p].status \in {"delivered", "failed"} => outbox'[p] = outbox[p]]_outVars
  OBVIOUS
<1>0. MaxRetries \in Nat /\ MaxRetries > 0
  BY HandoffAssumption
<1>1. ASSUME NEW p \in Peers, Enqueue(p)
      PROVE OutInv' /\ \A q \in DOMAIN outbox : outbox'[q] = outbox[q]
  BY <1>0, <1>1 DEF Enqueue, OutInv
<1>2. ASSUME NEW p \in Peers, NEW entry, Open(p), outbox' = [outbox EXCEPT ![p] = entry],
             reached \subseteq reached',
             entry.status \in {"waiting", "delivered", "failed"},
             entry.attempts \in 0..MaxRetries, DOMAIN entry = {"status", "attempts"},
             entry.status = "delivered" => p \in reached',
             entry.status = "failed" <=> entry.attempts = MaxRetries
      PROVE OutInv' /\ \A q \in DOMAIN outbox :
                         outbox[q].status \in {"delivered", "failed"} => outbox'[q] = outbox[q]
  BY <1>2 DEF Open, OutInv
<1>3. ASSUME NEW p \in Peers, MarkDelivered(p)
      PROVE OutInv' /\ \A q \in DOMAIN outbox :
                         outbox[q].status \in {"delivered", "failed"} => outbox'[q] = outbox[q]
  <2> DEFINE entry == [outbox[p] EXCEPT !.status = "delivered"]
  <2>1. Open(p) /\ outbox' = [outbox EXCEPT ![p] = entry] /\ reached' = reached \cup {p}
    BY <1>3 DEF MarkDelivered, Open
  <2>2. /\ entry.status = "delivered" /\ entry.attempts = outbox[p].attempts
        /\ DOMAIN entry = {"status", "attempts"}
        /\ outbox[p].attempts \in 0..MaxRetries /\ outbox[p].attempts # MaxRetries
    BY <2>1 DEF Open, OutInv
  <2> HIDE DEF entry
  <2> QED
    BY <1>2, <2>1, <2>2
<1>4. ASSUME NEW p \in Peers, NEW arrives \in BOOLEAN, RecordRetry(p, arrives)
      PROVE OutInv' /\ \A q \in DOMAIN outbox :
                         outbox[q].status \in {"delivered", "failed"} => outbox'[q] = outbox[q]
  <2> DEFINE n == outbox[p].attempts + 1
             entry == [status |-> IF n >= MaxRetries THEN "failed" ELSE "waiting", attempts |-> n]
  <2>1. Open(p) /\ outbox' = [outbox EXCEPT ![p] = entry] /\ reached \subseteq reached'
    BY <1>4 DEF RecordRetry
  <2>2. outbox[p].attempts \in 0..MaxRetries /\ outbox[p].attempts # MaxRetries
    BY <2>1 DEF Open, OutInv
  <2>3. n \in 0..MaxRetries /\ (n >= MaxRetries <=> n = MaxRetries)
    BY <1>0, <2>2
  <2> HIDE DEF n
  <2>4. /\ entry.status \in {"waiting", "failed"} /\ entry.attempts = n
        /\ DOMAIN entry = {"status", "attempts"}
        /\ entry.status = "failed" <=> n = MaxRetries
    BY <2>3
  <2> HIDE DEF entry
  <2> QED
    BY <1>2, <2>1, <2>3, <2>4
<1>5. CASE UNCHANGED outVars
  BY <1>5 DEF outVars, OutInv
<1> QED
  BY <1>1, <1>3, <1>4, <1>5 DEF OutNext

LEMMA BurnStep == BurnInv /\ [BurnNext]_burnVars => BurnInv'
<1> SUFFICES ASSUME BurnInv, [BurnNext]_burnVars PROVE BurnInv'
  OBVIOUS
<1> USE DEF BurnInv
<1>1. CASE NewSession
  BY <1>1 DEF NewSession
<1>2. CASE Delivered
  BY <1>2 DEF Delivered
<1>3. CASE PastedOnce
  BY <1>3 DEF PastedOnce
<1>4. CASE BeginWipe
  BY <1>4 DEF BeginWipe
<1>5. ASSUME NEW p \in Peers, Wipe(p) PROVE BurnInv'
  BY <1>5 DEF Wipe
<1>6. ASSUME NEW r \in receipts, AcceptReceipt(r) PROVE BurnInv'
  <2>1. /\ burn.state = "wiping" /\ r.epoch = burn.epoch /\ r.device \in Peers /\ r.device \notin copies
        /\ burn' = [burn EXCEPT !.wiped = burn.wiped \cup {r.device},
                                !.state = IF burn.wiped \cup {r.device} = Peers THEN "complete" ELSE @]
        /\ UNCHANGED <<copies, receipts, pastes>>
    BY <1>6 DEF AcceptReceipt, Matches
  <2>2. /\ burn'.epoch = burn.epoch /\ burn'.wiped = burn.wiped \cup {r.device}
        /\ burn'.state = IF burn.wiped \cup {r.device} = Peers THEN "complete" ELSE "wiping"
        /\ burn' \in [epoch : Nat, state : {"armed", "delivered", "pasted", "wiping", "complete"},
                      wiped : SUBSET Peers]
    BY <2>1
  <2> QED
    BY <2>1, <2>2
<1>7. CASE UNCHANGED burnVars
  BY <1>7 DEF burnVars
<1> QED
  BY <1>1, <1>2, <1>3, <1>4, <1>5, <1>6, <1>7 DEF BurnNext

LEMMA HandKeeps == HandInv => HandSafety
BY DEF HandInv, OutInv, BurnInv, HandSafety, CompleteIsWiped, OutboxIsHonest

-----------------------------------------------------------------------------
(***************************************************************************)
(* ClientGuards.  What a window forgets has expired at its clock, which does  *)
(* not go back; so what is fresh and spent is still there to refuse a replay. *)
(***************************************************************************)

WholeWindow(window) ==
    /\ IsFiniteSet(DOMAIN window) /\ Cardinality(DOMAIN window) <= Capacity
    /\ DOMAIN window \subseteq Keys
    /\ \A k \in DOMAIN window : window[k].until \in Nat /\ window[k].state \in Nat

RevocationsHold ==
    \A k \in KeysOf("capability") : revokedTo[k] > floor["revocations"] =>
        /\ k \in DOMAIN entries["revocations"]
        /\ entries["revocations"][k].until >= revokedTo[k]

GuardInv ==
    /\ entries = [w \in Windows |-> entries[w]] /\ \A w \in Windows : WholeWindow(entries[w])
    /\ floor \in [Windows -> Nat] /\ floor["revocations"] = floor["capability"]
    /\ accepted \in [Messages -> Nat] /\ reopened = {}
    /\ revokedTo \in [KeysOf("capability") -> Nat]
    /\ AcceptedOnce /\ SpentIsRemembered /\ RevocationsHold

LEMMA GuardStart == GuardInit => GuardInv
<1> SUFFICES ASSUME GuardInit PROVE GuardInv
  OBVIOUS
<1>1. IsFiniteSet({}) /\ Cardinality({}) = 0 /\ Capacity \in Nat
  BY FS_EmptySet, MessageAssumption
<1>2. WholeWindow([k \in {} |-> {}])
  BY <1>1 DEF WholeWindow
<1> HIDE DEF WholeWindow
<1>3. entries = [w \in Windows |-> entries[w]] /\ \A w \in Windows : WholeWindow(entries[w])
  BY <1>2 DEF GuardInit
<1>4. /\ floor \in [Windows -> Nat] /\ floor["revocations"] = floor["capability"]
      /\ accepted \in [Messages -> Nat] /\ \A m \in Messages : accepted[m] = 0
      /\ revokedTo \in [KeysOf("capability") -> Nat] /\ floor["revocations"] = 0
      /\ \A k \in KeysOf("capability") : revokedTo[k] = 0
  BY DEF GuardInit, Windows, Users
<1> QED
  BY <1>3, <1>4 DEF GuardInit, GuardInv, AcceptedOnce, SpentIsRemembered, RevocationsHold

\* ReplayGuard::advance_to
LEMMA AdvancedIs ==
  ASSUME NEW window, WholeWindow(window), NEW moment \in Nat
  PROVE /\ WholeWindow(Advanced(window, moment))
        /\ DOMAIN Advanced(window, moment) = {k \in DOMAIN window : window[k].until > moment}
        /\ \A k \in DOMAIN Advanced(window, moment) : Advanced(window, moment)[k] = window[k]
<1> DEFINE D == {k \in DOMAIN window : window[k].until > moment}
<1>1. DOMAIN Advanced(window, moment) = D /\ \A k \in D : Advanced(window, moment)[k] = window[k]
  BY DEF Advanced
<1>2. D \subseteq DOMAIN window
  OBVIOUS
<1>3. IsFiniteSet(D) /\ Cardinality(D) <= Cardinality(DOMAIN window)
  BY <1>2, FS_Subset DEF WholeWindow
<1>4. Cardinality(D) \in Nat /\ Cardinality(DOMAIN window) \in Nat /\ Capacity \in Nat
  BY <1>3, FS_CardinalityType, MessageAssumption DEF WholeWindow
<1>5. Cardinality(D) <= Capacity
  BY <1>3, <1>4 DEF WholeWindow
<1> QED
  BY <1>1, <1>2, <1>3, <1>5 DEF WholeWindow

\* ReplayGuard::record
LEMMA RecordedIs ==
  ASSUME NEW window, WholeWindow(window), NEW key \in Keys, NEW state \in Nat, NEW until \in Nat,
         HasRoom(window, key)
  PROVE /\ WholeWindow(RecordedIn(window, key, state, until))
        /\ DOMAIN RecordedIn(window, key, state, until) = DOMAIN window \cup {key}
        /\ \A k \in DOMAIN window \ {key} : RecordedIn(window, key, state, until)[k] = window[k]
        /\ RecordedIn(window, key, state, until)[key].state = state
        /\ RecordedIn(window, key, state, until)[key].until >= until
        /\ key \in DOMAIN window =>
             RecordedIn(window, key, state, until)[key].until >= window[key].until
<1> DEFINE r == RecordedIn(window, key, state, until)
           top == IF key \in DOMAIN window THEN Latest(window[key].until, until) ELSE until
<1>1. DOMAIN r = DOMAIN window \cup {key}
  BY DEF RecordedIn
<1>2. \A k \in DOMAIN window \ {key} : r[k] = window[k]
  BY DEF RecordedIn
<1>3. r[key] = [state |-> state, until |-> top]
  BY DEF RecordedIn
<1>4. top \in Nat /\ top >= until /\ (key \in DOMAIN window => top >= window[key].until)
  BY DEF Latest, WholeWindow
<1>5. IsFiniteSet(DOMAIN r) /\ Cardinality(DOMAIN r) <= Capacity
  <2>1. CASE key \in DOMAIN window
    BY <1>1, <2>1 DEF WholeWindow
  <2>2. CASE key \notin DOMAIN window
    <3>1. Cardinality(DOMAIN window) \in Nat /\ Capacity \in Nat
      BY FS_CardinalityType, MessageAssumption DEF WholeWindow
    <3>2. /\ IsFiniteSet(DOMAIN window \cup {key})
          /\ Cardinality(DOMAIN window \cup {key}) = Cardinality(DOMAIN window) + 1
      BY <2>2, FS_AddElement DEF WholeWindow
    <3> QED
      BY <1>1, <2>2, <3>1, <3>2 DEF HasRoom
  <2> QED
    BY <2>1, <2>2
<1> HIDE DEF r, top
<1>6. WholeWindow(r)
  BY <1>1, <1>2, <1>3, <1>4, <1>5 DEF WholeWindow
<1> QED
  BY <1>1, <1>2, <1>3, <1>4, <1>6 DEF r

\* What a message finds when it is presented: Fresh and Unspent refuse it if it,
\* or a later event of its endpoint that may still be replayed, was accepted.
LEMMA SpentIsRefused ==
  ASSUME GuardInv, NEW m \in Messages, NEW n \in Messages, NEW moment \in Nat,
         n.user = m.user, n.key = m.key, accepted[n] > 0, moment >= floor[m.user], moment < n.until,
         NEW revoked, Unspent(m, Advanced(entries[m.user], moment), revoked)
  PROVE m.user = "webhook" /\ n.id < m.id
<1>1. /\ m.user \in Users /\ m.user \in Windows /\ n.until \in Nat /\ m.id \in Nat /\ n.id \in Nat
      /\ floor[m.user] \in Nat
  BY MessageAssumption DEF GuardInv, Windows
<1>2. floor[n.user] < n.until
  BY <1>1
<1>3. /\ m.key \in DOMAIN entries[m.user] /\ entries[m.user][m.key].until >= n.until
      /\ m.user = "webhook" => entries[m.user][m.key].state >= n.id
  BY <1>2 DEF GuardInv, SpentIsRemembered
<1>4. WholeWindow(entries[m.user])
  BY <1>1 DEF GuardInv
<1>5. entries[m.user][m.key].until \in Nat /\ entries[m.user][m.key].state \in Nat
  BY <1>3, <1>4 DEF WholeWindow
<1>6. entries[m.user][m.key].until > moment
  BY <1>1, <1>3, <1>5
<1> DEFINE own == Advanced(entries[m.user], moment)
<1>7. m.key \in DOMAIN own /\ own[m.key] = entries[m.user][m.key]
  BY <1>3, <1>4, <1>6, AdvancedIs
<1> HIDE DEF own
<1>8. Unspent(m, own, revoked)
  BY DEF own
<1>9. m.user = "webhook"
  BY <1>1, <1>7, <1>8 DEF Unspent, Users
<1>10. own[m.key].state < m.id
  BY <1>7, <1>8, <1>9 DEF Unspent
<1> QED
  BY <1>1, <1>3, <1>5, <1>7, <1>9, <1>10

\* verify_and_consume and its like, as a whole.
LEMMA PresentStep ==
  ASSUME GuardInv, NEW m \in Messages, NEW clock \in Nat, Present(m, clock)
  PROVE /\ GuardInv'
        /\ \A n \in Messages : n.user = "capability" /\ accepted'[n] > accepted[n] =>
             floor'["revocations"] >= revokedTo[n.key]
<1> DEFINE moment == Latest(floor[m.user], clock)
           own == Advanced(entries[m.user], moment)
           revoked == Advanced(entries["revocations"], moment)
           capable == m.user = "capability"
           accepts == Fresh(m, moment) /\ Unspent(m, own, revoked) /\ HasRoom(own, m.key)
           kept == IF accepts THEN RecordedIn(own, m.key, m.id, m.until) ELSE own
<1>0. /\ m.user \in Users /\ m.user \in Windows /\ m.user # "revocations" /\ "revocations" \in Windows
      /\ "capability" \in Windows /\ m.id \in Nat /\ m.until \in Nat /\ m.key \in Keys
      /\ floor[m.user] \in Nat /\ floor["revocations"] \in Nat
  BY MessageAssumption DEF GuardInv, Windows, Users, Keys
<1>1. moment \in Nat /\ moment >= floor[m.user] /\ (capable => moment >= floor["revocations"])
  BY <1>0 DEF Latest, GuardInv
<1>2. WholeWindow(entries[m.user]) /\ WholeWindow(entries["revocations"])
  BY <1>0 DEF GuardInv
<1> HIDE DEF moment
<1>3. /\ WholeWindow(own)
      /\ DOMAIN own = {k \in DOMAIN entries[m.user] : entries[m.user][k].until > moment}
      /\ \A k \in DOMAIN own : own[k] = entries[m.user][k]
  BY <1>1, <1>2, AdvancedIs
<1>4. /\ WholeWindow(revoked)
      /\ DOMAIN revoked = {k \in DOMAIN entries["revocations"] : entries["revocations"][k].until > moment}
      /\ \A k \in DOMAIN revoked : revoked[k] = entries["revocations"][k]
  BY <1>1, <1>2, AdvancedIs
<1>5. ASSUME accepts, NEW n \in Messages, n.user = m.user, n.key = m.key, accepted[n] > 0, moment < n.until
      PROVE m.user = "webhook" /\ n.id < m.id
  <2>1. Unspent(m, Advanced(entries[m.user], moment), revoked)
    BY <1>5
  <2> HIDE DEF own, revoked, accepts
  <2> QED
    BY <1>1, <1>5, <2>1, SpentIsRefused
<1>6. /\ floor' = IF capable THEN [floor EXCEPT ![m.user] = moment, !["revocations"] = moment]
                  ELSE [floor EXCEPT ![m.user] = moment]
      /\ entries' = IF accepts
                    THEN [IF capable THEN [entries EXCEPT ![m.user] = own, !["revocations"] = revoked]
                          ELSE [entries EXCEPT ![m.user] = own]
                            EXCEPT ![m.user] = RecordedIn(own, m.key, m.id, m.until)]
                    ELSE IF capable THEN [entries EXCEPT ![m.user] = own, !["revocations"] = revoked]
                         ELSE [entries EXCEPT ![m.user] = own]
      /\ accepted' = IF accepts THEN [accepted EXCEPT ![m] = @ + 1] ELSE accepted
      /\ reopened' = IF accepts /\ m.user = "webhook" /\ Below(m, moment)
                     THEN reopened \cup {m} ELSE reopened
      /\ revokedTo' = revokedTo
  BY DEF Present, moment
<1>7. accepts => /\ WholeWindow(kept) /\ DOMAIN kept = DOMAIN own \cup {m.key}
                 /\ \A k \in DOMAIN own \ {m.key} : kept[k] = own[k]
                 /\ kept[m.key].state = m.id /\ kept[m.key].until >= m.until
                 /\ m.key \in DOMAIN own => kept[m.key].until >= own[m.key].until
  <2> SUFFICES ASSUME accepts
               PROVE LET r == RecordedIn(own, m.key, m.id, m.until) IN
                     /\ WholeWindow(r) /\ DOMAIN r = DOMAIN own \cup {m.key}
                     /\ \A k \in DOMAIN own \ {m.key} : r[k] = own[k]
                     /\ r[m.key].state = m.id /\ r[m.key].until >= m.until
                     /\ m.key \in DOMAIN own => r[m.key].until >= own[m.key].until
    OBVIOUS
  <2>1. HasRoom(own, m.key)
    OBVIOUS
  <2> HIDE DEF own, accepts
  <2> DEFINE key == m.key
             state == m.id
             until == m.until
  <2>2. key \in Keys /\ state \in Nat /\ until \in Nat /\ HasRoom(own, key)
    BY <1>0, <2>1
  <2> HIDE DEF key, state, until
  <2>3. /\ WholeWindow(RecordedIn(own, key, state, until))
        /\ DOMAIN RecordedIn(own, key, state, until) = DOMAIN own \cup {key}
        /\ \A k \in DOMAIN own \ {key} : RecordedIn(own, key, state, until)[k] = own[k]
        /\ RecordedIn(own, key, state, until)[key].state = state
        /\ RecordedIn(own, key, state, until)[key].until >= until
        /\ key \in DOMAIN own => RecordedIn(own, key, state, until)[key].until >= own[key].until
    BY <1>3, <2>2, RecordedIs
  <2> QED
    BY <2>3 DEF key, state, until
<1>71. ~accepts => kept = own
  OBVIOUS
<1>8. entries' = [w \in Windows |-> IF w = m.user THEN kept
                                    ELSE IF w = "revocations" /\ capable THEN revoked ELSE entries[w]]
  <2>1. entries = [w \in Windows |-> entries[w]]
    BY DEF GuardInv
  <2> HIDE DEF own, revoked, accepts
  <2> QED
    BY <1>0, <1>6, <2>1
<1>9. accepts => moment < m.until /\ Unspent(m, own, revoked)
  BY DEF Fresh
<1>10. floor' = [w \in Windows |-> IF w = m.user \/ (w = "revocations" /\ capable) THEN moment ELSE floor[w]]
  BY <1>0, <1>6 DEF GuardInv
<1>11. /\ accepted' \in [Messages -> Nat] /\ \A n \in Messages \ {m} : accepted'[n] = accepted[n]
       /\ accepted'[m] = IF accepts THEN accepted[m] + 1 ELSE accepted[m]
  BY <1>6 DEF GuardInv
<1>12. accepts /\ m.user = "webhook" => ~Below(m, moment)
  <2> SUFFICES ASSUME accepts, NEW n \in Messages, n.user = m.user, n.key = m.key, accepted[n] > 0,
                      m.id <= n.id, moment < n.until
               PROVE FALSE
    BY DEF Below
  <2> QED
    BY <1>5, <1>0, MessageAssumption
<1> HIDE DEF own, revoked, accepts, kept
<1>13. WholeWindow(kept)
  BY <1>3, <1>7, <1>71
<1>14. /\ entries' = [w \in Windows |-> entries'[w]] /\ \A w \in Windows : WholeWindow(entries'[w])
  BY <1>4, <1>8, <1>13 DEF GuardInv
<1>15. floor' \in [Windows -> Nat] /\ floor'["revocations"] = floor'["capability"]
  BY <1>0, <1>1, <1>10 DEF GuardInv
<1>16. reopened' = {}
  BY <1>6, <1>12 DEF GuardInv
<1>17. AcceptedOnce'
  <2>1. accepts => ~(accepted[m] > 0)
    BY <1>5, <1>9, <1>0
  <2> QED
    BY <1>11, <2>1 DEF GuardInv, AcceptedOnce
<1>18. SpentIsRemembered'
  <2> SUFFICES ASSUME NEW n \in Messages, accepted'[n] > 0, floor'[n.user] < n.until
               PROVE /\ n.key \in DOMAIN entries'[n.user]
                     /\ entries'[n.user][n.key].until >= n.until
                     /\ n.user = "webhook" => entries'[n.user][n.key].state >= n.id
    BY DEF SpentIsRemembered
  <2>0. n.user \in Users /\ n.user \in Windows /\ n.user # "revocations" /\ n.until \in Nat /\ n.id \in Nat
    BY MessageAssumption DEF Windows, Users
  <2>1. CASE n.user # m.user
    <3>1. floor'[n.user] = floor[n.user] /\ entries'[n.user] = entries[n.user] /\ accepted'[n] = accepted[n]
      BY <1>8, <1>10, <1>11, <2>0, <2>1
    <3> QED
      BY <3>1 DEF GuardInv, SpentIsRemembered
  <2>2. CASE n.user = m.user
    <3>1. entries'[n.user] = kept /\ floor'[n.user] = moment
      BY <1>0, <1>8, <1>10, <2>2
    <3>2. CASE n = m /\ accepts
      BY <1>0, <1>7, <3>1, <3>2
    <3>3. CASE n # m \/ ~accepts
      <4>1. accepted[n] > 0
        BY <1>11, <3>3
      <4>2. floor[n.user] < n.until
        BY <1>0, <1>1, <2>0, <2>2, <3>1
      <4>3. /\ n.key \in DOMAIN entries[n.user] /\ entries[n.user][n.key].until >= n.until
            /\ n.user = "webhook" => entries[n.user][n.key].state >= n.id
        BY <4>1, <4>2 DEF GuardInv, SpentIsRemembered
      <4>4. entries[m.user][n.key].until \in Nat
        BY <1>2, <2>2, <4>3 DEF WholeWindow
      <4>5. n.key \in DOMAIN own /\ own[n.key] = entries[n.user][n.key]
        BY <1>1, <1>3, <2>0, <2>2, <3>1, <4>3, <4>4
      <4>6. CASE n.key # m.key \/ ~accepts
        BY <1>7, <1>71, <3>1, <4>3, <4>5, <4>6
      <4>7. CASE n.key = m.key /\ accepts
        <5>1. m.user = "webhook" /\ n.id < m.id
          BY <1>5, <2>2, <3>1, <4>1, <4>7
        <5>2. kept[m.key].until >= own[m.key].until /\ kept[m.key].state = m.id /\ m.key \in DOMAIN kept
          BY <1>7, <4>5, <4>7
        <5>3. kept[m.key].until \in Nat /\ own[m.key].until \in Nat
          BY <1>3, <1>13, <4>5, <4>7, <5>2 DEF WholeWindow
        <5> QED
          BY <1>0, <2>0, <2>2, <3>1, <4>3, <4>5, <4>7, <5>1, <5>2, <5>3
      <4> QED
        BY <4>6, <4>7
    <3> QED
      BY <3>2, <3>3
  <2> QED
    BY <2>1, <2>2
<1>19. RevocationsHold'
  <2> SUFFICES ASSUME NEW k \in KeysOf("capability"), revokedTo[k] > floor'["revocations"]
               PROVE /\ k \in DOMAIN entries'["revocations"]
                     /\ entries'["revocations"][k].until >= revokedTo[k]
    BY <1>6 DEF RevocationsHold
  <2>1. revokedTo[k] \in Nat
    BY DEF GuardInv
  <2>2. /\ floor'["revocations"] = IF capable THEN moment ELSE floor["revocations"]
        /\ entries'["revocations"] = IF capable THEN revoked ELSE entries["revocations"]
    BY <1>0, <1>8, <1>10
  <2>3. revokedTo[k] > floor["revocations"]
    BY <1>0, <1>1, <2>1, <2>2
  <2>4. k \in DOMAIN entries["revocations"] /\ entries["revocations"][k].until >= revokedTo[k]
    BY <2>3 DEF GuardInv, RevocationsHold
  <2>5. entries["revocations"][k].until \in Nat
    BY <1>2, <2>4 DEF WholeWindow
  <2> QED
    BY <1>1, <1>4, <2>1, <2>2, <2>4, <2>5
<1>20. ASSUME NEW n \in Messages, n.user = "capability", accepted'[n] > accepted[n]
       PROVE floor'["revocations"] >= revokedTo[n.key]
  <2>1. accepted[n] \in Nat
    BY DEF GuardInv
  <2>2. n = m /\ accepts /\ capable
    BY <1>11, <1>20, <2>1
  <2>3. n.key \in KeysOf("capability")
    BY <1>20 DEF KeysOf
  <2>4. revokedTo[n.key] \in Nat /\ floor'["revocations"] = moment
    BY <1>0, <1>10, <2>2, <2>3 DEF GuardInv
  <2>5. n.key \notin DOMAIN revoked
    BY <1>9, <2>2 DEF Unspent
  <2> SUFFICES ASSUME revokedTo[n.key] > moment PROVE FALSE
    BY <1>1, <2>4
  <2>6. revokedTo[n.key] > floor["revocations"]
    BY <1>0, <1>1, <2>2, <2>4
  <2>7. /\ n.key \in DOMAIN entries["revocations"]
        /\ entries["revocations"][n.key].until >= revokedTo[n.key]
    BY <2>3, <2>6 DEF GuardInv, RevocationsHold
  <2>8. entries["revocations"][n.key].until \in Nat
    BY <1>2, <2>7 DEF WholeWindow
  <2> QED
    BY <1>1, <1>4, <2>4, <2>5, <2>7, <2>8
<1>21. revokedTo' \in [KeysOf("capability") -> Nat]
  BY <1>6 DEF GuardInv
<1> QED
  BY <1>11, <1>14, <1>15, <1>16, <1>17, <1>18, <1>19, <1>20, <1>21 DEF GuardInv

\* CapabilityVerifier::revoke
LEMMA RevokeStep ==
  ASSUME GuardInv, NEW k \in KeysOf("capability"), NEW until \in Nat, Revoke(k, until)
  PROVE GuardInv'
<1> DEFINE own == entries["revocations"]
           next == RecordedIn(own, k, 0, until)
<1>0. /\ "revocations" \in Windows /\ k \in Keys /\ WholeWindow(own) /\ HasRoom(own, k)
      /\ floor["revocations"] \in Nat /\ revokedTo[k] \in Nat
  BY DEF GuardInv, Windows, Keys, KeysOf, Revoke
<1>1. /\ entries' = [entries EXCEPT !["revocations"] = next]
      /\ revokedTo' = [revokedTo EXCEPT ![k] = Latest(@, until)]
      /\ UNCHANGED <<floor, accepted, reopened>>
  BY DEF Revoke
<1> HIDE DEF own
<1>2. /\ WholeWindow(next) /\ DOMAIN next = DOMAIN own \cup {k}
      /\ \A j \in DOMAIN own \ {k} : next[j] = own[j]
      /\ next[k].until >= until /\ (k \in DOMAIN own => next[k].until >= own[k].until)
  <2> DEFINE state == 0
  <2>1. state \in Nat
    OBVIOUS
  <2> HIDE DEF state
  <2>2. /\ WholeWindow(RecordedIn(own, k, state, until))
        /\ DOMAIN RecordedIn(own, k, state, until) = DOMAIN own \cup {k}
        /\ \A j \in DOMAIN own \ {k} : RecordedIn(own, k, state, until)[j] = own[j]
        /\ RecordedIn(own, k, state, until)[k].state = state
        /\ RecordedIn(own, k, state, until)[k].until >= until
        /\ k \in DOMAIN own => RecordedIn(own, k, state, until)[k].until >= own[k].until
    BY <1>0, <2>1, RecordedIs
  <2> QED
    BY <2>2 DEF state
<1> HIDE DEF next
<1>3. entries' = [w \in Windows |-> IF w = "revocations" THEN next ELSE entries[w]]
  BY <1>0, <1>1 DEF GuardInv
<1>4. entries' = [w \in Windows |-> entries'[w]] /\ \A w \in Windows : WholeWindow(entries'[w])
  BY <1>2, <1>3 DEF GuardInv
<1>5. /\ revokedTo' \in [KeysOf("capability") -> Nat]
      /\ \A j \in KeysOf("capability") \ {k} : revokedTo'[j] = revokedTo[j]
      /\ revokedTo'[k] = Latest(revokedTo[k], until)
  BY <1>0, <1>1 DEF GuardInv, Latest
<1>6. SpentIsRemembered'
  <2>1. \A m \in Messages : m.user \in Windows /\ m.user # "revocations"
    BY MessageAssumption DEF Windows, Users
  <2>2. \A m \in Messages : entries'[m.user] = entries[m.user]
    BY <1>3, <2>1
  <2> QED
    BY <1>1, <2>2 DEF GuardInv, SpentIsRemembered
<1>7. RevocationsHold'
  <2> SUFFICES ASSUME NEW j \in KeysOf("capability"), revokedTo'[j] > floor["revocations"]
               PROVE j \in DOMAIN next /\ next[j].until >= revokedTo'[j]
    BY <1>0, <1>1, <1>3 DEF RevocationsHold
  <2>1. revokedTo[j] > floor["revocations"] =>
          j \in DOMAIN own /\ own[j].until >= revokedTo[j]
    BY DEF GuardInv, RevocationsHold, own
  <2>2. CASE j # k
    BY <1>2, <1>5, <2>1, <2>2
  <2>3. CASE j = k
    <3>1. next[k].until \in Nat /\ (k \in DOMAIN own => own[k].until \in Nat)
      BY <1>0, <1>2 DEF WholeWindow
    <3>0. /\ revokedTo[k] <= until => revokedTo'[k] = until
          /\ revokedTo[k] > until => revokedTo'[k] = revokedTo[k]
      <4>1. revokedTo'[k] = IF revokedTo[k] < until THEN until ELSE revokedTo[k]
        BY <1>5 DEF Latest
      <4> QED
        BY <1>0, <4>1
    <3>2. CASE revokedTo[k] <= until
      BY <1>2, <2>3, <3>0, <3>2
    <3>3. CASE revokedTo[k] > until
      <4>1. revokedTo'[k] = revokedTo[k]
        BY <3>0, <3>3
      <4> QED
        BY <1>0, <1>2, <2>1, <2>3, <3>1, <4>1
    <3> QED
      BY <1>0, <3>2, <3>3
  <2> QED
    BY <2>2, <2>3
<1> QED
  BY <1>1, <1>4, <1>5, <1>6, <1>7 DEF GuardInv, AcceptedOnce

\* A step of any user, or of none.
LEMMA GuardsStep ==
  ASSUME GuardInv, [\E user \in Users : GuardStep(user)]_guardVars
  PROVE /\ GuardInv'
        /\ [\A m \in Messages : m.user = "capability" /\ accepted'[m] > accepted[m] =>
              floor'["revocations"] >= revokedTo[m.key]]_guardVars
<1>1. CASE UNCHANGED guardVars
  BY <1>1 DEF guardVars, GuardInv, AcceptedOnce, SpentIsRemembered, RevocationsHold
<1>2. ASSUME NEW m \in Messages, NEW clock \in 0..GuardMaxNow, Present(m, clock)
      PROVE /\ GuardInv'
            /\ \A n \in Messages : n.user = "capability" /\ accepted'[n] > accepted[n] =>
                 floor'["revocations"] >= revokedTo[n.key]
  <2>1. clock \in Nat
    BY MessageAssumption
  <2> QED
    BY <1>2, <2>1, PresentStep
<1>3. ASSUME NEW k \in KeysOf("capability"), NEW until \in 0..GuardMaxNow, Revoke(k, until)
      PROVE GuardInv' /\ accepted' = accepted
  <2>1. until \in Nat
    BY MessageAssumption
  <2> QED
    BY <1>3, <2>1, RevokeStep DEF Revoke
<1>4. \A m \in Messages : accepted[m] \in Nat
  BY DEF GuardInv
<1> HIDE DEF GuardInv
<1>5. ASSUME NEW user \in Users, GuardStep(user)
      PROVE /\ GuardInv'
            /\ \A m \in Messages : m.user = "capability" /\ accepted'[m] > accepted[m] =>
                 floor'["revocations"] >= revokedTo[m.key]
  <2>1. CASE \E m \in Messages, clock \in 0..GuardMaxNow : m.user = user /\ Present(m, clock)
    BY <1>2, <2>1
  <2>2. CASE \E k \in KeysOf("capability"), until \in 0..GuardMaxNow : Revoke(k, until)
    BY <1>3, <1>4, <2>2
  <2> QED
    BY <1>5, <2>1, <2>2 DEF GuardStep
<1> QED
  BY <1>1, <1>5

LEMMA GuardKeeps == GuardInv => GuardSafety
BY DEF GuardInv, GuardSafety, GuardTypeOK, WholeWindow, OrderIsKept, WindowsAreBounded

\* ReplayGuard and its four users, for every set of messages, capacity and run
\* of the clock: nothing is accepted twice, an endpoint's events stay in order
\* while they can be replayed, and what is spent is remembered until it expires.
THEOREM GuardsHold == GuardSpec => []GuardSafety /\ RevokedIsRefused
<1>1. GuardInv /\ [GuardNext]_guardVars => GuardInv'
  BY GuardsStep DEF GuardNext
<1>2. GuardInv /\ [GuardNext]_guardVars =>
        [\A m \in Messages : m.user = "capability" /\ accepted'[m] > accepted[m] =>
           floor'["revocations"] >= revokedTo[m.key]]_guardVars
  BY GuardsStep DEF GuardNext
<1> QED
  BY GuardStart, <1>1, <1>2, GuardKeeps, PTL DEF GuardSpec, RevokedIsRefused

-----------------------------------------------------------------------------
(***************************************************************************)
(* ClientGuards: the limiter's counts are what it granted in a token's last   *)
(* window; a token it forgot was granted nothing that a quota still covers.   *)
(***************************************************************************)

CountsAreTrue ==
    \A t \in Tokens, k \in Kinds, v \in 0..MaxWindow :
        /\ granted[<<t, k, v>>] \in Nat
        /\ granted[<<t, k, v>>] <= QuotaOf[k]
        /\ t \in DOMAIN windows /\ v = windows[t].id => granted[<<t, k, v>>] = windows[t].counts[k]
        /\ t \in DOMAIN windows /\ v > windows[t].id => granted[<<t, k, v>>] = 0
        /\ t \notin DOMAIN windows /\ v >= latest - 1 => granted[<<t, k, v>>] = 0

\* A token is only remembered for what it was granted.
KnownWasServed ==
    \A t \in DOMAIN windows : \E k \in Kinds : granted[<<t, k, windows[t].id>>] > 0

QuotaInv ==
    /\ latest \in Int /\ latest <= MaxWindow
    /\ IsFiniteSet(DOMAIN windows) /\ DOMAIN windows \subseteq Tokens
    /\ Cardinality(DOMAIN windows) <= MaxTokens
    /\ \A t \in DOMAIN windows : /\ windows[t] = [id |-> windows[t].id, counts |-> windows[t].counts]
                                 /\ windows[t].id \in 0..latest /\ windows[t].counts \in [Kinds -> Nat]
    /\ granted = [slot \in Tokens \X Kinds \X (0..MaxWindow) |-> granted[slot]]
    /\ CountsAreTrue /\ KnownWasServed /\ QuotaIsGiven

LEMMA QuotaStart == QuotaInit => QuotaInv
<1> SUFFICES ASSUME QuotaInit PROVE QuotaInv
  OBVIOUS
<1>0. MaxWindow \in Nat /\ MaxTokens \in Nat /\ \A k \in Kinds : QuotaOf[k] \in Nat
  BY QuotaAssumption
<1>1. DOMAIN windows = {} /\ IsFiniteSet({}) /\ Cardinality({}) = 0 /\ latest = -1 /\ ~refusedLive
  BY FS_EmptySet DEF QuotaInit
<1>2. \A t \in Tokens, k \in Kinds, v \in 0..MaxWindow : granted[<<t, k, v>>] = 0
  BY DEF QuotaInit
<1>3. granted = [slot \in Tokens \X Kinds \X (0..MaxWindow) |-> granted[slot]]
  BY DEF QuotaInit
<1>4. CountsAreTrue
  <2> SUFFICES ASSUME NEW t \in Tokens, NEW k \in Kinds, NEW v \in 0..MaxWindow
               PROVE /\ granted[<<t, k, v>>] = 0 /\ granted[<<t, k, v>>] \in Nat
                     /\ granted[<<t, k, v>>] <= QuotaOf[k]
    BY <1>1 DEF CountsAreTrue
  <2>1. granted[<<t, k, v>>] = 0 /\ QuotaOf[k] \in Nat
    BY <1>0, <1>2
  <2> QED
    BY <2>1
<1> QED
  BY <1>0, <1>1, <1>3, <1>4 DEF QuotaInv, KnownWasServed, QuotaIsGiven

\* TokenRateLimiter::admit
LEMMA AdmitStep ==
  ASSUME QuotaInv, NEW t \in Tokens, NEW k \in Kinds, NEW w \in 0..MaxWindow, Admit(t, k, w), latest <= w
  PROVE QuotaInv'
<1> DEFINE known == Remembered(t, w)
           rolled == Rolled(known, t, w)
           full == t \notin DOMAIN known /\ Cardinality(DOMAIN known) >= MaxTokens
           spent == rolled[t].counts[k] >= QuotaOf[k]
           others == {u \in Tokens \ {t} : \E j \in Kinds, v \in {w - 1, w} :
                                              v >= 0 /\ granted[<<u, j, v>>] > 0}
<1>0. /\ MaxWindow \in Nat /\ MaxTokens \in Nat /\ IsFiniteSet(Tokens) /\ w \in Nat /\ w <= MaxWindow
      /\ latest \in Int /\ QuotaOf[k] \in Nat /\ QuotaOf[k] > 0
  BY QuotaAssumption DEF QuotaInv
<1>1. /\ latest' = w
      /\ windows' = IF full THEN known ELSE IF spent THEN rolled
                    ELSE [rolled EXCEPT ![t].counts[k] = @ + 1]
      /\ granted' = IF full \/ spent THEN granted ELSE [granted EXCEPT ![<<t, k, w>>] = @ + 1]
      /\ refusedLive' = (refusedLive \/ (granted[<<t, k, w>>] < QuotaOf[k] /\ (full \/ spent)
                                         /\ Cardinality(others) < MaxTokens))
  BY <1>0 DEF Admit
<1>2. /\ DOMAIN known \subseteq DOMAIN windows /\ \A u \in DOMAIN known : known[u] = windows[u]
      /\ t \in DOMAIN windows => known = windows
      /\ t \notin DOMAIN windows => \A u \in DOMAIN windows : u \in DOMAIN known <=> windows[u].id >= w - 1
  BY DEF Remembered
<1> HIDE DEF known
<1>3. IsFiniteSet(DOMAIN known) /\ Cardinality(DOMAIN known) <= Cardinality(DOMAIN windows)
  BY <1>2, FS_Subset DEF QuotaInv
<1>4. /\ DOMAIN rolled = DOMAIN known \cup {t}
      /\ \A u \in DOMAIN known \ {t} : rolled[u] = windows[u]
      /\ rolled[t] = IF t \in DOMAIN known /\ windows[t].id = w THEN windows[t]
                     ELSE [id |-> w, counts |-> NoCounts]
  BY <1>2 DEF Rolled
<1> HIDE DEF rolled
<1> DEFINE counts == rolled[t].counts
<1>5. /\ rolled[t] = [id |-> w, counts |-> counts] /\ counts \in [Kinds -> Nat]
      /\ \A j \in Kinds : counts[j] = granted[<<t, j, w>>]
  <2>1. CASE t \in DOMAIN known /\ windows[t].id = w
    <3>1. t \in DOMAIN windows /\ rolled[t] = windows[t]
      BY <1>2, <1>4, <2>1
    <3>2. /\ windows[t] = [id |-> windows[t].id, counts |-> windows[t].counts]
          /\ windows[t].counts \in [Kinds -> Nat]
      BY <3>1 DEF QuotaInv
    <3>3. \A j \in Kinds : windows[t].counts[j] = granted[<<t, j, w>>]
      BY <2>1, <3>1 DEF QuotaInv, CountsAreTrue
    <3> QED
      BY <2>1, <3>1, <3>2, <3>3
  <2>2. CASE ~(t \in DOMAIN known /\ windows[t].id = w)
    <3>1. rolled[t] = [id |-> w, counts |-> NoCounts] /\ NoCounts \in [Kinds -> Nat]
          /\ \A j \in Kinds : NoCounts[j] = 0
      BY <1>4, <2>2 DEF NoCounts
    <3>2. ASSUME NEW j \in Kinds PROVE granted[<<t, j, w>>] = 0
      <4>1. CASE t \in DOMAIN windows
        <5>1. windows[t].id \in 0..latest /\ windows[t].id # w
          BY <1>2, <2>2, <4>1 DEF QuotaInv
        <5>2. w > windows[t].id
          BY <1>0, <5>1
        <5> QED
          BY <4>1, <5>2 DEF QuotaInv, CountsAreTrue
      <4>2. CASE t \notin DOMAIN windows
        <5>1. w >= latest - 1
          BY <1>0
        <5> QED
          BY <4>2, <5>1 DEF QuotaInv, CountsAreTrue
      <4> QED
        BY <4>1, <4>2
    <3> QED
      BY <3>1, <3>2
  <2> QED
    BY <2>1, <2>2
<1> HIDE DEF counts
<1>6. /\ granted[<<t, k, w>>] \in Nat /\ counts[k] = granted[<<t, k, w>>]
      /\ granted[<<t, k, w>>] <= QuotaOf[k]
  BY <1>5 DEF QuotaInv, CountsAreTrue
<1>7. spent <=> granted[<<t, k, w>>] >= QuotaOf[k]
  BY <1>6 DEF counts
\* Every token that is remembered was served in this window or the one before.
<1>8. full => ~(Cardinality(others) < MaxTokens)
  <2> SUFFICES ASSUME full PROVE Cardinality(others) >= MaxTokens /\ Cardinality(others) \in Nat
    BY <1>0
  <2>1. t \notin DOMAIN windows
    BY <1>2
  <2>2. ASSUME NEW u \in DOMAIN known PROVE u \in others
    <3>1. /\ u \in DOMAIN windows /\ u \in Tokens /\ u # t /\ windows[u].id \in 0..latest
          /\ windows[u].id >= w - 1
      BY <1>2, <2>1 DEF QuotaInv
    <3>2. PICK j \in Kinds : granted[<<u, j, windows[u].id>>] > 0
      BY <3>1 DEF QuotaInv, KnownWasServed
    <3>3. windows[u].id \in {w - 1, w} /\ windows[u].id >= 0
      BY <1>0, <3>1
    <3> QED
      BY <3>1, <3>2, <3>3
  <2>3. others \subseteq Tokens
    OBVIOUS
  <2> HIDE DEF others
  <2>4. IsFiniteSet(others)
    BY <1>0, <2>3, FS_Subset
  <2>5. DOMAIN known \subseteq others
    BY <2>2
  <2>6. Cardinality(DOMAIN known) <= Cardinality(others)
    BY <2>4, <2>5, FS_Subset
  <2>7. Cardinality(DOMAIN known) \in Nat /\ Cardinality(others) \in Nat
    BY <1>3, <2>4, FS_CardinalityType
  <2> QED
    BY <1>0, <2>6, <2>7
<1> HIDE DEF others
<1>9. ~refusedLive'
  <2>1. ~(granted[<<t, k, w>>] < QuotaOf[k] /\ (full \/ spent) /\ Cardinality(others) < MaxTokens)
    BY <1>0, <1>6, <1>7, <1>8
  <2>2. ~refusedLive
    BY DEF QuotaInv, QuotaIsGiven
  <2> HIDE DEF full, spent
  <2> QED
    BY <1>1, <2>1, <2>2
<1> DEFINE unmet == full \/ spent
<1>10. /\ granted' = IF unmet THEN granted ELSE [granted EXCEPT ![<<t, k, w>>] = @ + 1]
       /\ windows' = IF full THEN known ELSE IF unmet THEN rolled
                     ELSE [rolled EXCEPT ![t].counts[k] = @ + 1]
       /\ full \in BOOLEAN /\ unmet \in BOOLEAN /\ (full => unmet)
  BY <1>1
<1>11. ~unmet => granted[<<t, k, w>>] < QuotaOf[k]
  BY <1>0, <1>6, <1>7
<1>12. ~full => t \in DOMAIN known \/ Cardinality(DOMAIN known) < MaxTokens
  BY <1>0, <1>3, FS_CardinalityType
<1>13. full => t \notin DOMAIN known
  OBVIOUS
<1>14. ~full /\ unmet => granted[<<t, k, w>>] > 0
  BY <1>0, <1>6, <1>7
<1> HIDE DEF full, spent, unmet
<1>15. granted' = [slot \in Tokens \X Kinds \X (0..MaxWindow) |-> granted'[slot]]
  BY <1>10 DEF QuotaInv
<1>16. ASSUME NEW u \in Tokens, NEW j \in Kinds, NEW v \in 0..MaxWindow
       PROVE granted'[<<u, j, v>>] = IF u = t /\ j = k /\ v = w /\ ~unmet
                                     THEN granted[<<t, k, w>>] + 1 ELSE granted[<<u, j, v>>]
  <2>1. <<u, j, v>> \in Tokens \X Kinds \X (0..MaxWindow)
    OBVIOUS
  <2>2. <<u, j, v>> = <<t, k, w>> <=> u = t /\ j = k /\ v = w
    OBVIOUS
  <2>3. granted = [slot \in Tokens \X Kinds \X (0..MaxWindow) |-> granted[slot]]
    BY DEF QuotaInv
  <2> QED
    BY <1>10, <2>1, <2>2, <2>3
<1>17. ~full => /\ DOMAIN windows' = DOMAIN known \cup {t}
                /\ windows'[t] = [id |-> w, counts |-> windows'[t].counts]
                /\ windows'[t].counts \in [Kinds -> Nat]
                /\ \A j \in Kinds : windows'[t].counts[j] = granted'[<<t, j, w>>]
  <2> SUFFICES ASSUME ~full
               PROVE /\ DOMAIN windows' = DOMAIN known \cup {t}
                     /\ windows'[t] = [id |-> w, counts |-> windows'[t].counts]
                     /\ windows'[t].counts \in [Kinds -> Nat]
                     /\ \A j \in Kinds : windows'[t].counts[j] = granted'[<<t, j, w>>]
    OBVIOUS
  <2>1. CASE unmet
    <3>1. windows' = rolled /\ windows'[t].counts = counts
      BY <1>10, <2>1 DEF counts
    <3>2. \A j \in Kinds : granted'[<<t, j, w>>] = granted[<<t, j, w>>]
      BY <1>16, <2>1
    <3> QED
      BY <1>4, <1>5, <3>1, <3>2
  <2>2. CASE ~unmet
    <3>1. windows' = [rolled EXCEPT ![t].counts[k] = @ + 1]
      BY <1>10, <2>2
    <3>2. windows'[t] = [id |-> w, counts |-> [counts EXCEPT ![k] = @ + 1]]
      BY <1>4, <1>5, <3>1
    <3>3. [counts EXCEPT ![k] = @ + 1] \in [Kinds -> Nat]
          /\ \A j \in Kinds : [counts EXCEPT ![k] = @ + 1][j] =
                               IF j = k THEN counts[k] + 1 ELSE counts[j]
      BY <1>5
    <3>4. \A j \in Kinds : granted'[<<t, j, w>>] = IF j = k THEN granted[<<t, k, w>>] + 1
                                                    ELSE granted[<<t, j, w>>]
      BY <1>16, <2>2
    <3>5. DOMAIN windows' = DOMAIN rolled
      BY <3>1
    <3> QED
      BY <1>4, <1>5, <3>2, <3>3, <3>4, <3>5
  <2> QED
    BY <2>1, <2>2
<1>18. ASSUME NEW u \in DOMAIN windows', u # t
       PROVE u \in DOMAIN known /\ windows'[u] = windows[u] /\ u \in DOMAIN windows
  <2>1. CASE full
    BY <1>2, <1>10, <1>18, <2>1
  <2>2. CASE ~full /\ unmet
    BY <1>2, <1>4, <1>10, <1>18, <2>2
  <2>3. CASE ~full /\ ~unmet
    BY <1>2, <1>4, <1>10, <1>17, <1>18, <2>3
  <2> QED
    BY <2>1, <2>2, <2>3
<1>19. full => DOMAIN windows' = DOMAIN known /\ t \notin DOMAIN windows'
  BY <1>10, <1>13
<1>20. IsFiniteSet(DOMAIN windows') /\ DOMAIN windows' \subseteq Tokens
       /\ Cardinality(DOMAIN windows') <= MaxTokens
  <2>1. DOMAIN known \subseteq Tokens /\ Cardinality(DOMAIN known) <= MaxTokens
        /\ Cardinality(DOMAIN known) \in Nat
    BY <1>0, <1>2, <1>3, FS_CardinalityType DEF QuotaInv
  <2>2. CASE full \/ t \in DOMAIN known
    <3>1. DOMAIN windows' = DOMAIN known
      BY <1>17, <1>19, <2>2
    <3> QED
      BY <1>3, <2>1, <3>1
  <2>3. CASE ~full /\ t \notin DOMAIN known
    <3>1. /\ IsFiniteSet(DOMAIN known \cup {t})
          /\ Cardinality(DOMAIN known \cup {t}) = Cardinality(DOMAIN known) + 1
      BY <1>3, <2>3, FS_AddElement
    <3> QED
      BY <1>0, <1>12, <1>17, <2>1, <2>3, <3>1
  <2> QED
    BY <2>2, <2>3
<1>21. \A u \in DOMAIN windows' :
         /\ windows'[u] = [id |-> windows'[u].id, counts |-> windows'[u].counts]
         /\ windows'[u].id \in 0..latest' /\ windows'[u].counts \in [Kinds -> Nat]
  <2> SUFFICES ASSUME NEW u \in DOMAIN windows'
               PROVE /\ windows'[u] = [id |-> windows'[u].id, counts |-> windows'[u].counts]
                     /\ windows'[u].id \in 0..w /\ windows'[u].counts \in [Kinds -> Nat]
    BY <1>1
  <2>1. CASE u = t
    BY <1>0, <1>17, <1>19, <2>1
  <2>2. CASE u # t
    BY <1>0, <1>18, <2>2 DEF QuotaInv
  <2> QED
    BY <2>1, <2>2
<1>22. CountsAreTrue'
  <2> SUFFICES ASSUME NEW u \in Tokens, NEW j \in Kinds, NEW v \in 0..MaxWindow
               PROVE /\ granted'[<<u, j, v>>] \in Nat
                     /\ granted'[<<u, j, v>>] <= QuotaOf[j]
                     /\ u \in DOMAIN windows' /\ v = windows'[u].id =>
                          granted'[<<u, j, v>>] = windows'[u].counts[j]
                     /\ u \in DOMAIN windows' /\ v > windows'[u].id => granted'[<<u, j, v>>] = 0
                     /\ u \notin DOMAIN windows' /\ v >= w - 1 => granted'[<<u, j, v>>] = 0
    BY <1>1 DEF CountsAreTrue
  <2>0. /\ granted[<<u, j, v>>] \in Nat /\ granted[<<u, j, v>>] <= QuotaOf[j]
        /\ u \in DOMAIN windows /\ v = windows[u].id => granted[<<u, j, v>>] = windows[u].counts[j]
        /\ u \in DOMAIN windows /\ v > windows[u].id => granted[<<u, j, v>>] = 0
        /\ u \notin DOMAIN windows /\ v >= latest - 1 => granted[<<u, j, v>>] = 0
        /\ u \in DOMAIN windows => windows[u].id \in 0..latest
        /\ QuotaOf[j] \in Nat
    BY QuotaAssumption DEF QuotaInv, CountsAreTrue
  <2>1. granted'[<<u, j, v>>] = IF u = t /\ j = k /\ v = w /\ ~unmet
                               THEN granted[<<t, k, w>>] + 1 ELSE granted[<<u, j, v>>]
    BY <1>16
  <2>2. granted'[<<u, j, v>>] \in Nat /\ granted'[<<u, j, v>>] <= QuotaOf[j]
    BY <1>0, <1>6, <1>11, <2>0, <2>1
  <2>3. CASE u = t /\ ~full
    <3>1. u \in DOMAIN windows' /\ windows'[u].id = w /\ windows'[u].counts[j] = granted'[<<u, j, w>>]
      BY <1>17, <2>3
    <3>2. v > w => granted[<<u, j, v>>] = 0
      <4>1. CASE u \in DOMAIN windows
        BY <1>0, <2>0, <4>1
      <4>2. CASE u \notin DOMAIN windows
        BY <1>0, <2>0, <4>2
      <4> QED
        BY <4>1, <4>2
    <3>3. v > w => granted'[<<u, j, v>>] = 0
      BY <1>0, <2>1, <3>2
    <3> QED
      BY <2>2, <3>1, <3>3
  <2>4. CASE u = t /\ full
    <3>1. u \notin DOMAIN windows' /\ u \notin DOMAIN windows /\ unmet
      BY <1>2, <1>10, <1>13, <1>19, <2>4
    <3> QED
      BY <1>0, <2>0, <2>1, <2>2, <3>1
  <2>5. CASE u # t /\ u \in DOMAIN windows'
    <3>1. windows'[u] = windows[u] /\ u \in DOMAIN windows
      BY <1>18, <2>5
    <3> QED
      BY <2>0, <2>1, <2>2, <2>5, <3>1
  <2>6. CASE u # t /\ u \notin DOMAIN windows'
    <3>1. u \notin DOMAIN known
      BY <1>17, <1>19, <2>6
    <3>2. CASE u \notin DOMAIN windows
      BY <1>0, <2>0, <2>1, <2>2, <2>6, <3>2
    <3>3. CASE u \in DOMAIN windows
      <4>1. t \notin DOMAIN windows /\ ~(windows[u].id >= w - 1)
        BY <1>2, <3>1, <3>3
      <4> QED
        BY <1>0, <2>0, <2>1, <2>2, <2>6, <3>3, <4>1
    <3> QED
      BY <3>2, <3>3
  <2> QED
    BY <2>3, <2>4, <2>5, <2>6
<1>23. KnownWasServed'
  <2> SUFFICES ASSUME NEW u \in DOMAIN windows'
               PROVE \E j \in Kinds : granted'[<<u, j, windows'[u].id>>] > 0
    BY DEF KnownWasServed
  <2>1. CASE u = t
    <3>1. ~full /\ windows'[u].id = w
      BY <1>17, <1>19, <2>1
    <3>2. granted'[<<t, k, w>>] > 0
      BY <1>6, <1>14, <1>16, <3>1
    <3> QED
      BY <2>1, <3>1, <3>2
  <2>2. CASE u # t
    <3>1. windows'[u] = windows[u] /\ u \in DOMAIN windows
      BY <1>18, <2>2
    <3>2. PICK j \in Kinds : granted[<<u, j, windows[u].id>>] > 0
      BY <3>1 DEF QuotaInv, KnownWasServed
    <3>3. u \in Tokens /\ windows[u].id \in 0..MaxWindow
      BY <1>0, <3>1 DEF QuotaInv
    <3>4. granted'[<<u, j, windows[u].id>>] = granted[<<u, j, windows[u].id>>]
      BY <1>16, <2>2, <3>3
    <3> QED
      BY <3>1, <3>2, <3>4
  <2> QED
    BY <2>1, <2>2
<1>24. latest' \in Int /\ latest' <= MaxWindow /\ QuotaIsGiven'
  BY <1>0, <1>1, <1>9 DEF QuotaIsGiven
<1> HIDE DEF CountsAreTrue, KnownWasServed, QuotaIsGiven
<1> QED
  BY ONLY <1>15, <1>20, <1>21, <1>22, <1>23, <1>24 DEF QuotaInv

LEMMA QuotaStep == QuotaInv /\ [QuotaNext]_quotaVars => QuotaInv'
<1> SUFFICES ASSUME QuotaInv, [QuotaNext]_quotaVars PROVE QuotaInv'
  OBVIOUS
<1>1. CASE UNCHANGED quotaVars
  BY <1>1 DEF quotaVars, QuotaInv, CountsAreTrue, KnownWasServed, QuotaIsGiven
<1>2. ASSUME NEW t \in Tokens, NEW k \in Kinds, NEW w \in 0..MaxWindow, Admit(t, k, w)
      PROVE QuotaInv'
  <2>1. latest \in Int /\ w \in Int
    BY QuotaAssumption DEF QuotaInv
  <2>2. CASE w < latest
    BY <1>1, <1>2, <2>2 DEF Admit
  <2>3. CASE latest <= w
    BY <1>2, <2>3, AdmitStep
  <2> QED
    BY <2>1, <2>2, <2>3
<1> QED
  BY <1>1, <1>2 DEF QuotaNext

-----------------------------------------------------------------------------
(* ClientGuards, the stream: the client's cursor is behind what it was handed. *)

StreamInv ==
    /\ produced \in 0..MaxEvents /\ cursor \in 1..produced + 1
    /\ taken \in Seq(Nat) /\ cursor = Len(taken) + 1
    /\ \A i \in 1..Len(taken) : taken[i] = i

LEMMA StreamStart == StreamInit => StreamInv
<1> SUFFICES ASSUME StreamInit PROVE StreamInv
  OBVIOUS
<1>1. <<>> \in Seq(Nat) /\ Len(<<>>) = 0 /\ MaxEvents \in Nat
  BY QuotaAssumption
<1> QED
  BY <1>1 DEF StreamInit, StreamInv

\* EventReplayCursor::select
LEMMA SelectStep ==
  ASSUME StreamInv, NEW limit \in Nat \ {0}, Select(limit) PROVE StreamInv'
<1>0. MaxEvents \in Nat /\ produced \in Nat /\ cursor \in Nat /\ cursor <= produced + 1
      /\ cursor >= 1 /\ produced <= MaxEvents /\ Len(taken) \in Nat
  BY QuotaAssumption DEF StreamInv
<1>1. CASE cursor < Oldest
  BY <1>1 DEF Select, StreamInv
<1>2. CASE ~(cursor < Oldest)
  <2> DEFINE last == IF cursor + limit - 1 < produced THEN cursor + limit - 1 ELSE produced
             n == last - cursor + 1
             more == [i \in 1..n |-> cursor + i - 1]
  <2>1. /\ taken' = taken \o more /\ cursor' = last + 1 /\ produced' = produced
    BY <1>2 DEF Select
  <2>2. last \in Nat /\ last <= produced /\ last >= cursor - 1
    BY <1>0
  <2> HIDE DEF last
  <2>3. n \in Nat
    BY <1>0, <2>2
  <2>4. more \in Seq(Nat) /\ Len(more) = n /\ \A i \in 1..n : more[i] = cursor + i - 1
    BY <1>0, <2>3
  <2> HIDE DEF more
  <2> HIDE DEF n
  <2>5. /\ taken \o more \in Seq(Nat) /\ Len(taken \o more) = Len(taken) + n
        /\ \A i \in 1..Len(taken) + n :
             (taken \o more)[i] = IF i <= Len(taken) THEN taken[i] ELSE more[i - Len(taken)]
    <3>1. taken \in Seq(Nat) /\ more \in Seq(Nat)
      BY <2>4 DEF StreamInv
    <3>2. /\ taken \o more \in Seq(Nat) /\ Len(taken \o more) = Len(taken) + Len(more)
          /\ \A i \in 1..Len(taken) + Len(more) :
               (taken \o more)[i] = IF i <= Len(taken) THEN taken[i] ELSE more[i - Len(taken)]
      BY ONLY <3>1, ConcatProperties
    <3>3. Len(more) = n
      BY <2>4
    <3> QED
      BY ONLY <3>2, <3>3
  <2>6. cursor = Len(taken) + 1 /\ \A i \in 1..Len(taken) : taken[i] = i
    BY DEF StreamInv
  <2>7. ASSUME NEW i \in 1..Len(taken) + n PROVE (taken \o more)[i] = i
    <3>1. CASE i <= Len(taken)
      BY <1>0, <2>5, <2>6, <3>1
    <3>2. CASE ~(i <= Len(taken))
      <4>1. i - Len(taken) \in 1..n
        BY <1>0, <2>3, <3>2
      <4>2. (taken \o more)[i] = cursor + (i - Len(taken)) - 1
        BY <2>4, <2>5, <3>2, <4>1
      <4> QED
        BY <1>0, <2>3, <2>6, <4>2
    <3> QED
      BY <3>1, <3>2
  <2>8. Len(taken) + n = last /\ cursor' = Len(taken \o more) + 1
    BY <1>0, <2>1, <2>2, <2>5, <2>6 DEF n
  <2>9. produced' \in 0..MaxEvents /\ cursor' \in 1..produced' + 1
    BY <1>0, <2>1, <2>2
  <2> QED
    BY <2>1, <2>5, <2>7, <2>8, <2>9 DEF StreamInv
<1> QED
  BY <1>1, <1>2

LEMMA StreamStep == StreamInv /\ [StreamNext]_streamVars => StreamInv'
<1> SUFFICES ASSUME StreamInv, [StreamNext]_streamVars PROVE StreamInv'
  OBVIOUS
<1>1. CASE Produce
  BY <1>1, QuotaAssumption DEF Produce, StreamInv
<1>2. ASSUME NEW limit \in 1..MaxEvents, Select(limit) PROVE StreamInv'
  BY <1>2, QuotaAssumption, SelectStep
<1>3. CASE UNCHANGED streamVars
  BY <1>3 DEF streamVars, StreamInv
<1> QED
  BY <1>1, <1>2, <1>3 DEF StreamNext

LEMMA QuotaKeeps == QuotaInv /\ StreamInv => QuotaSafety
<1> SUFFICES ASSUME QuotaInv, StreamInv PROVE QuotaSafety
  OBVIOUS
<1>1. QuotaTypeOK
  BY DEF QuotaTypeOK, QuotaInv, StreamInv
<1>2. QuotaHolds
  BY DEF QuotaHolds, QuotaInv, CountsAreTrue
<1>3. NoEventIsSkipped
  BY DEF NoEventIsSkipped, StreamInv
<1> QED
  BY <1>1, <1>2, <1>3 DEF QuotaSafety, QuotaInv

-----------------------------------------------------------------------------
(* TrustedGroup: every copy is a prefix of its owner's, which replays without a refusal. *)

GroupEntries == [action : {"add", "revoke"}, device : GroupDevices, by : GroupDevices,
                 clock : 0..GroupMaxClock]
GroupStates == [owner : SUBSET GroupDevices, active : SUBSET GroupDevices, clock : Int]

Iterated(l) ==
  CHOOSE iter : iter = [s \in SUBSET DOMAIN l |->
     IF s = {} THEN NoState
     ELSE LET x == Max(s) IN AfterEntry(iter[s \ {x}], l[x])]

LEMMA ReplayIterates == ASSUME NEW l PROVE Replay(l) = Iterated(l)[DOMAIN l]
BY DEF Replay, FoldLeft, MapThenFoldSet, Iterated

LEMMA AfterEntryIs ==
  ASSUME NEW state \in GroupStates, NEW e \in GroupEntries
  PROVE AfterEntry(state, e) \in GroupStates
BY GroupAssumption DEF GroupStates, GroupEntries, AfterEntry

\* Replaying a log is applying its entries in order.
LEMMA ReplayRuns ==
  ASSUME NEW l \in Seq(GroupEntries)
  PROVE \E h \in [0..Len(l) -> GroupStates] :
          /\ h[0] = NoState /\ h[Len(l)] = Replay(l)
          /\ \A i \in 1..Len(l) : h[i] = AfterEntry(h[i - 1], l[i])
<1> DEFINE n == Len(l)
           g == [p \in GroupStates \X (1..n) |-> AfterEntry(p[1], l[p[2]])]
<1>0. n \in Nat /\ DOMAIN l = 1..n /\ \A i \in 1..n : l[i] \in GroupEntries
  OBVIOUS
<1> HIDE DEF n
<1>1. NoState \in GroupStates
  BY DEF NoState, GroupStates
<1>2. g \in [GroupStates \X (1..n) -> GroupStates]
  <2>1. ASSUME NEW p \in GroupStates \X (1..n) PROVE AfterEntry(p[1], l[p[2]]) \in GroupStates
    BY <1>0, AfterEntryIs
  <2> QED
    BY ONLY <2>1
<1>3. \A st \in GroupStates : \A i \in 1..n : g[<<st, i>>] = AfterEntry(st, l[i])
  OBVIOUS
<1> HIDE DEF g
<1>c. PICK it : IsChain(it, n, GroupStates, NoState, g)
  BY ONLY <1>0, <1>1, <1>2, ChainExists
<1>4. /\ it \in [SUBSET (1..n) -> GroupStates]
       /\ \A s \in SUBSET (1..n) : it[s] = IF s = {} THEN NoState ELSE g[<<it[s \ {Max(s)}], Max(s)>>]
  BY ONLY <1>c DEF IsChain
<1>5. ASSUME NEW s \in SUBSET (1..n)
      PROVE it[s] = IF s = {} THEN NoState ELSE AfterEntry(it[s \ {Max(s)}], l[Max(s)])
  <2>1. CASE s = {}
    BY <1>4, <2>1
  <2>2. CASE s # {}
    <3>1. Max(s) \in 1..n
      BY <1>0, <2>2, MaxOfIndices
    <3>2. it[s \ {Max(s)}] \in GroupStates
      BY <1>4
    <3>3. g[<<it[s \ {Max(s)}], Max(s)>>] = AfterEntry(it[s \ {Max(s)}], l[Max(s)])
      BY ONLY <1>3, <3>1, <3>2
    <3> QED
      BY <1>4, <2>2, <3>3
  <2> QED
    BY <2>1, <2>2
<1>6. it = [s \in SUBSET (1..n) |->
              IF s = {} THEN NoState ELSE AfterEntry(it[s \ {Max(s)}], l[Max(s)])]
  BY ONLY <1>4, <1>5
<1> DEFINE run == Iterated(l)
<1>7. run = [s \in SUBSET (1..n) |->
               IF s = {} THEN NoState ELSE AfterEntry(run[s \ {Max(s)}], l[Max(s)])]
  <2>1. \E iter : iter = [s \in SUBSET DOMAIN l |->
                     IF s = {} THEN NoState
                     ELSE LET x == Max(s) IN AfterEntry(iter[s \ {x}], l[x])]
    BY Zenon, <1>0, <1>6
  <2>2. run = [s \in SUBSET DOMAIN l |->
                     IF s = {} THEN NoState
                     ELSE LET x == Max(s) IN AfterEntry(run[s \ {x}], l[x])]
    BY ONLY Zenon, <2>1 DEF Iterated
  <2> QED
    BY ONLY <2>2, <1>0
<1> HIDE DEF run
<1> DEFINE h == [i \in 0..n |-> run[1..i]]
<1>8. h[0] = NoState
  <2>1. 1..0 = {} /\ 0 \in 0..n
    BY <1>0
  <2> QED
    BY <1>7, <2>1
<1>9. ASSUME NEW i \in 1..n PROVE h[i] = AfterEntry(h[i - 1], l[i])
  <2>1. Max(1..i) = i /\ (1..i) \ {i} = 1..i - 1 /\ 1..i # {} /\ 1..i \in SUBSET (1..n)
    BY <1>0, ChainSteps
  <2>2. run[1..i] = AfterEntry(run[1..i - 1], l[i])
    BY ONLY <1>7, <2>1
  <2>3. i \in 0..n /\ i - 1 \in 0..n
    BY <1>0
  <2> QED
    BY ONLY <2>2, <2>3
<1>10. h[n] = Replay(l)
  <2>1. Replay(l) = run[DOMAIN l]
    BY ReplayIterates DEF run
  <2> QED
    BY <1>0, <2>1
<1>11. \A i \in 0..n : h[i] \in GroupStates
  <2> DEFINE T == {i \in 0..n : h[i] \in GroupStates}
  <2>1. 0 \in T
    BY <1>0, <1>1, <1>8
  <2> HIDE DEF h
  <2>2. ASSUME NEW i \in 1..n, i - 1 \in T PROVE i \in T
    BY <1>0, <1>9, <2>2, AfterEntryIs
  <2> HIDE DEF T
  <2>3. \A i \in 0..n : i \in T
    BY ONLY <1>0, <2>1, <2>2, UpToAll
  <2> QED
    BY <2>3 DEF T
<1>12. h \in [0..n -> GroupStates]
  BY ONLY <1>11
<1> HIDE DEF h
<1> QED
  BY ONLY <1>8, <1>9, <1>10, <1>12 DEF n

\* The first k elements of a sequence.
LEMMA FrontIs ==
  ASSUME NEW S, NEW l \in Seq(S), NEW k \in 0..Len(l)
  PROVE /\ SubSeq(l, 1, k) \in Seq(S) /\ Len(SubSeq(l, 1, k)) = k
        /\ \A i \in 1..k : SubSeq(l, 1, k)[i] = l[i]
<1>1. Len(l) \in Nat /\ 1 \in Int /\ k \in Int
  OBVIOUS
<1>2. \A i \in 1..k : l[i] \in S
  BY <1>1
<1>3. /\ SubSeq(l, 1, k) \in Seq(S)
      /\ Len(SubSeq(l, 1, k)) = IF 1 <= k THEN k - 1 + 1 ELSE 0
      /\ \A i \in 1..k - 1 + 1 : SubSeq(l, 1, k)[i] = l[1 + i - 1]
  BY ONLY <1>1, <1>2, SubSeqProperties
<1> QED
  BY <1>1, <1>3

LEMMA SameFront ==
  ASSUME NEW S, NEW l \in Seq(S), NEW m \in Seq(S), NEW k \in 0..Len(l), k <= Len(m),
         \A i \in 1..k : l[i] = m[i]
  PROVE SubSeq(l, 1, k) = SubSeq(m, 1, k)
<1>1. k \in 0..Len(m)
  OBVIOUS
<1> DEFINE a == SubSeq(l, 1, k)
           b == SubSeq(m, 1, k)
<1>2. a \in Seq(S) /\ Len(a) = k /\ \A i \in 1..k : a[i] = l[i]
  BY FrontIs
<1>3. b \in Seq(S) /\ Len(b) = k /\ \A i \in 1..k : b[i] = m[i]
  BY <1>1, FrontIs
<1> HIDE DEF a, b
<1>4. Len(a) = Len(b) /\ \A i \in 1..Len(a) : a[i] = b[i]
  BY <1>2, <1>3
<1>5. a = b
  BY ONLY <1>2, <1>3, <1>4, SeqEqual
<1> QED
  BY <1>5 DEF a, b

LEMMA PrefixIs ==
  ASSUME NEW S, NEW l \in Seq(S), NEW m \in Seq(S)
  PROVE IsPrefix(l, m) <=> Len(l) <= Len(m) /\ \A i \in 1..Len(l) : l[i] = m[i]
<1>0. Len(l) \in Nat /\ Len(m) \in Nat /\ Len(l) \in 0..Len(l)
  OBVIOUS
<1>1. ASSUME IsPrefix(l, m) PROVE Len(l) <= Len(m) /\ \A i \in 1..Len(l) : l[i] = m[i]
  <2>1. Len(l) <= Len(m) /\ SubSeq(l, 1, Len(l)) = SubSeq(m, 1, Len(l))
    BY <1>1 DEF IsPrefix
  <2>2. Len(l) \in 0..Len(m)
    BY <1>0, <2>1
  <2>3. \A i \in 1..Len(l) : SubSeq(l, 1, Len(l))[i] = l[i]
    BY <1>0, FrontIs
  <2>4. \A i \in 1..Len(l) : SubSeq(m, 1, Len(l))[i] = m[i]
    BY <2>2, FrontIs
  <2> QED
    BY <2>1, <2>3, <2>4
<1>2. ASSUME Len(l) <= Len(m), \A i \in 1..Len(l) : l[i] = m[i] PROVE IsPrefix(l, m)
  <2>1. SubSeq(l, 1, Len(l)) = SubSeq(m, 1, Len(l))
    BY ONLY <1>0, <1>2, l \in Seq(S), m \in Seq(S), SameFront
  <2> QED
    BY <1>2, <2>1 DEF IsPrefix
<1> QED
  BY <1>1, <1>2

\* The state after the first k entries.
AsOf(l, k) == Replay(SubSeq(l, 1, k))

LEMMA AsOfRuns ==
  ASSUME NEW l \in Seq(GroupEntries)
  PROVE /\ AsOf(l, 0) = NoState /\ AsOf(l, Len(l)) = Replay(l)
        /\ \A k \in 0..Len(l) : AsOf(l, k) \in GroupStates
        /\ \A k \in 1..Len(l) : AsOf(l, k) = AfterEntry(AsOf(l, k - 1), l[k])
<1> DEFINE n == Len(l)
<1>0. n \in Nat
  OBVIOUS
<1>1. PICK h \in [0..n -> GroupStates] :
        /\ h[0] = NoState /\ h[n] = Replay(l)
        /\ \A i \in 1..n : h[i] = AfterEntry(h[i - 1], l[i])
  BY ReplayRuns
<1>2. ASSUME NEW k \in 0..n PROVE AsOf(l, k) = h[k]
  <2> DEFINE a == SubSeq(l, 1, k)
  <2>1. a \in Seq(GroupEntries) /\ Len(a) = k /\ \A i \in 1..k : a[i] = l[i]
    BY FrontIs
  <2> HIDE DEF a
  <2>2. PICK f \in [0..k -> GroupStates] :
          /\ f[0] = NoState /\ f[k] = Replay(a)
          /\ \A i \in 1..k : f[i] = AfterEntry(f[i - 1], a[i])
    BY <2>1, ReplayRuns
  <2> DEFINE T == {i \in 0..k : f[i] = h[i]}
  <2>3. 0 \in T
    BY <1>0, <1>1, <2>2
  <2>4. ASSUME NEW i \in 1..k, i - 1 \in T PROVE i \in T
    <3>1. i \in 1..n
      BY <1>0
    <3>2. f[i] = AfterEntry(f[i - 1], l[i]) /\ h[i] = AfterEntry(h[i - 1], l[i])
      BY <1>1, <2>1, <2>2, <3>1
    <3>3. f[i - 1] = h[i - 1]
      BY <2>4
    <3> QED
      BY <3>2, <3>3
  <2> HIDE DEF T
  <2>5. k \in Nat
    BY <1>0
  <2>6. \A i \in 0..k : i \in T
    BY ONLY <2>3, <2>4, <2>5, UpToAll
  <2>7. k \in T
    BY <2>5, <2>6
  <2> QED
    BY <2>2, <2>7 DEF T, AsOf, a
<1>3. 0 \in 0..n /\ n \in 0..n /\ \A k \in 1..n : k \in 0..n /\ k - 1 \in 0..n
  BY <1>0
<1> HIDE DEF n
<1>4. \A k \in 1..n : AsOf(l, k) = AfterEntry(AsOf(l, k - 1), l[k])
  BY <1>1, <1>2, <1>3
<1>5. \A k \in 0..n : AsOf(l, k) \in GroupStates
  BY <1>1, <1>2
<1>6. AsOf(l, 0) = NoState /\ AsOf(l, n) = Replay(l)
  BY <1>1, <1>2, <1>3
<1> QED
  BY ONLY <1>4, <1>5, <1>6 DEF n

\* What an entry adds to a log.
LEMMA AppendedLog ==
  ASSUME NEW l \in Seq(GroupEntries), NEW e \in GroupEntries
  PROVE /\ Append(l, e) \in Seq(GroupEntries) /\ Len(Append(l, e)) = Len(l) + 1
        /\ \A i \in 1..Len(l) : Append(l, e)[i] = l[i]
        /\ Append(l, e)[Len(l) + 1] = e
        /\ \A k \in 0..Len(l) : AsOf(Append(l, e), k) = AsOf(l, k)
        /\ AsOf(Append(l, e), Len(l) + 1) = AfterEntry(Replay(l), e)
        /\ Replay(Append(l, e)) = AfterEntry(Replay(l), e)
<1> DEFINE m == Append(l, e)
<1>0. Len(l) \in Nat
  OBVIOUS
<1>1. /\ m \in Seq(GroupEntries) /\ Len(m) = Len(l) + 1
      /\ \A i \in 1..Len(l) : m[i] = l[i]
      /\ m[Len(l) + 1] = e
  BY AppendProperties
<1> HIDE DEF m
<1>2. ASSUME NEW k \in 0..Len(l) PROVE AsOf(m, k) = AsOf(l, k)
  <2>1. k <= Len(m) /\ \A i \in 1..k : l[i] = m[i]
    BY <1>0, <1>1
  <2>2. SubSeq(l, 1, k) = SubSeq(m, 1, k)
    BY ONLY <1>1, <2>1, l \in Seq(GroupEntries), k \in 0..Len(l), SameFront
  <2> QED
    BY <2>2 DEF AsOf
<1>3. Len(l) + 1 \in 1..Len(m) /\ Len(l) \in 0..Len(l) /\ Len(l) + 1 - 1 = Len(l)
  BY <1>0, <1>1
<1>4. AsOf(m, Len(l) + 1) = AfterEntry(AsOf(m, Len(l)), e)
  BY <1>1, <1>3, AsOfRuns
<1>5. AsOf(m, Len(l)) = Replay(l) /\ AsOf(m, Len(l) + 1) = Replay(m)
  BY <1>1, <1>2, <1>3, AsOfRuns
<1> QED
  BY <1>1, <1>2, <1>4, <1>5 DEF m

\* One log continues another.
Within(l, m) == Len(l) <= Len(m) /\ \A i \in 1..Len(l) : l[i] = m[i]

Copies == log \in [GroupDevices -> Seq(GroupEntries)]

\* Who founded the group holds its longest log: only he appends, and to his copy.
OwnersIsLongest ==
    \A d \in GroupDevices : log[d] # <<>> =>
        \A e \in GroupDevices : Within(log[e], log[log[d][1].by])

LogsInv == Copies /\ CopiesVerify /\ OwnersIsLongest

\* Every key was made for an entry some device still holds, in an epoch of its own.
KeysInv ==
    /\ epoch \in Nat
    /\ \A t \in wrapped :
         /\ t.epoch \in Nat /\ t.epoch <= epoch /\ t.at \in Nat \ {0}
         /\ \E d \in GroupDevices : t.at <= Len(log[d])
         /\ \A d \in GroupDevices : t.at <= Len(log[d]) =>
              t.recipients = AsOf(log[d], t.at).active /\ t.revoked \notin t.recipients
    /\ \A t, u \in wrapped : t.epoch = u.epoch => t = u

SignersInv ==
    /\ \A d \in GroupDevices : Replay(log[d]).active \subseteq enrolled
    /\ ledger \in Seq([signer : GroupDevices, kind : {"captured", "sent"}])
    /\ SignersAreEnrolled

GroupInv == LogsInv /\ KeysInv /\ SignersInv

LEMMA VerifiesIs ==
  ASSUME NEW l \in Seq(GroupEntries)
  PROVE Verifies(l) <=> /\ Len(l) <= MaxGroupLog
                        /\ \A i \in 1..Len(l) : Admits(AsOf(l, i - 1), l[i])
BY DEF Verifies, AsOf

\* The first author of a verified log stays its owner.
LEMMA OwnerStays ==
  ASSUME NEW l \in Seq(GroupEntries), Verifies(l), l # <<>>
  PROVE /\ l[1].by \in GroupDevices /\ Replay(l).owner = {l[1].by}
        /\ \A k \in 1..Len(l) : AsOf(l, k).owner = {l[1].by}
<1>0. Len(l) \in Nat \ {0} /\ 1 \in 1..Len(l) /\ l[1] \in GroupEntries
  BY EmptySeq
<1>1. l[1].by \in GroupDevices
  BY <1>0 DEF GroupEntries
<1> DEFINE T == {k \in 0..Len(l) : k > 0 => AsOf(l, k).owner = {l[1].by}}
<1>2. 0 \in T
  BY <1>0
<1>3. ASSUME NEW k \in 1..Len(l), k - 1 \in T PROVE k \in T
  <2>1. AsOf(l, k) = AfterEntry(AsOf(l, k - 1), l[k])
    BY AsOfRuns
  <2>2. CASE k = 1
    <3>1. AsOf(l, k - 1).owner = {}
      BY <2>2, AsOfRuns DEF NoState
    <3>2. AsOf(l, k).owner = {l[k].by}
      BY ONLY <2>1, <3>1 DEF AfterEntry
    <3> QED
      BY <2>2, <3>2
  <2>3. CASE k # 1
    <3>1. AsOf(l, k - 1).owner = {l[1].by}
      BY <1>0, <1>3, <2>3
    <3>2. AsOf(l, k - 1).owner # {}
      BY ONLY <3>1
    <3>3. AsOf(l, k).owner = AsOf(l, k - 1).owner
      BY ONLY <2>1, <3>2 DEF AfterEntry
    <3> QED
      BY <3>1, <3>3
  <2> QED
    BY <2>2, <2>3
<1> HIDE DEF T
<1>4. \A k \in 0..Len(l) : k \in T
  BY ONLY <1>0, <1>2, <1>3, UpToAll
<1>5. \A k \in 1..Len(l) : AsOf(l, k).owner = {l[1].by}
  BY <1>0, <1>4 DEF T
<1>6. Len(l) \in 1..Len(l) /\ AsOf(l, Len(l)) = Replay(l)
  BY <1>0, AsOfRuns
<1> QED
  BY <1>1, <1>5, <1>6

LEMMA EmptyReplay == Replay(<<>>) = NoState /\ AsOf(<<>>, 0) = NoState
<1>1. <<>> \in Seq(GroupEntries) /\ Len(<<>>) = 0
  BY EmptySeq
<1> QED
  BY <1>1, AsOfRuns

\* Who may append holds a log that continues every other.
LEMMA AuthorIsLongest ==
  ASSUME LogsInv, NEW by \in GroupDevices, NEW e \in GroupEntries, e.by = by,
         Appends(by, e), log[by] # <<>> \/ Founds
  PROVE \A d \in GroupDevices : Within(log[d], log[by])
<1>1. CASE log[by] # <<>>
  <2>1. Replay(log[by]).owner = {log[by][1].by}
    BY <1>1, OwnerStays DEF LogsInv, Copies, CopiesVerify
  <2>2. Replay(log[by]).owner = {by}
    BY <2>1 DEF Appends, Admits
  <2>3. log[by][1].by = by
    BY <2>1, <2>2
  <2> QED
    BY <1>1, <2>3 DEF LogsInv, OwnersIsLongest
<1>2. CASE Founds
  BY <1>2, EmptySeq DEF Founds, Within
<1> QED
  BY <1>1, <1>2

\* An admitted entry keeps the logs as they should be.
LEMMA LogGrows ==
  ASSUME LogsInv, NEW by \in GroupDevices, NEW e \in GroupEntries, e.by = by,
         Appends(by, e), log[by] # <<>> \/ Founds,
         log' = [log EXCEPT ![by] = Append(log[by], e)]
  PROVE LogsInv'
<1> DEFINE l == log[by]
           m == Append(l, e)
<1>0. l \in Seq(GroupEntries) /\ Len(l) \in Nat
  BY DEF LogsInv, Copies
<1>1. /\ m \in Seq(GroupEntries) /\ Len(m) = Len(l) + 1
      /\ \A i \in 1..Len(l) : m[i] = l[i]
      /\ m[Len(l) + 1] = e
      /\ \A k \in 0..Len(l) : AsOf(m, k) = AsOf(l, k)
  BY <1>0, AppendedLog
<1>2. log' = [log EXCEPT ![by] = m] /\ log \in [GroupDevices -> Seq(GroupEntries)]
  BY DEF LogsInv, Copies
<1>3. Appends(by, e) /\ Verifies(l)
  BY DEF LogsInv, CopiesVerify
<1>4. \A d \in GroupDevices : Within(log[d], l)
  BY AuthorIsLongest
<1>5. Admits(Replay(l), e) /\ Len(l) < MaxGroupLog /\ MaxGroupLog \in Nat
  BY <1>3, GroupAssumption DEF Appends
<1> HIDE DEF m, l
<1>6. Copies'
  BY <1>1, <1>2 DEF Copies
<1>7. Verifies(m)
  <2>1. ASSUME NEW i \in 1..Len(m) PROVE Admits(AsOf(m, i - 1), m[i])
    <3>1. CASE i <= Len(l)
      <4>1. i \in 1..Len(l) /\ i - 1 \in 0..Len(l)
        BY <1>0, <1>1, <3>1
      <4>2. Admits(AsOf(l, i - 1), l[i])
        BY <1>0, <1>3, <4>1, VerifiesIs
      <4> QED
        BY <1>1, <4>1, <4>2
    <3>2. CASE i = Len(l) + 1
      <4>1. i - 1 = Len(l) /\ Len(l) \in 0..Len(l)
        BY <1>0, <3>2
      <4>2. AsOf(m, i - 1) = Replay(l)
        BY <1>0, <1>1, <4>1, AsOfRuns
      <4> QED
        BY <1>1, <1>5, <3>2, <4>2
    <3> QED
      BY <1>0, <1>1, <3>1, <3>2
  <2>2. Len(m) <= MaxGroupLog
    BY <1>0, <1>1, <1>5
  <2> QED
    BY ONLY <1>1, <2>1, <2>2, VerifiesIs
<1>8. CopiesVerify'
  <2>1. ASSUME NEW d \in GroupDevices PROVE Verifies(log'[d])
    BY <1>2, <1>7 DEF LogsInv, CopiesVerify
  <2> QED
    BY <2>1 DEF CopiesVerify, Verifies
<1>9. OwnersIsLongest'
  <2>1. ASSUME NEW d \in GroupDevices PROVE Within(log'[d], m)
    <3>1. CASE d = by
      BY <1>2, <3>1 DEF Within
    <3>2. CASE d # by
      <4>1. log'[d] = log[d] /\ Len(log[d]) \in Nat
        BY <1>2, <3>2
      <4>2. Len(log[d]) <= Len(l) /\ \A i \in 1..Len(log[d]) : log[d][i] = l[i]
        BY <1>4 DEF Within
      <4>3. Len(log[d]) <= Len(m)
        BY <1>0, <1>1, <4>1, <4>2
      <4>4. ASSUME NEW i \in 1..Len(log[d]) PROVE log[d][i] = m[i]
        <5>1. i \in 1..Len(l)
          BY <1>0, <4>1, <4>2
        <5> QED
          BY <1>1, <4>2, <5>1
      <4> QED
        BY <4>1, <4>3, <4>4 DEF Within
    <3> QED
      BY <3>1, <3>2
  <2>2. m # <<>> /\ m[1].by = by
    <3>1. m # <<>>
      BY <1>0, <1>1, EmptySeq
    <3>2. CASE l = <<>>
      <4>1. Len(l) = 0
        BY <3>2, EmptySeq
      <4>2. m[1] = e
        BY <1>1, <4>1
      <4> QED
        BY <3>1, <4>2
    <3>3. CASE l # <<>>
      <4>1. Replay(l).owner = {l[1].by} /\ 1 \in 1..Len(l)
        BY <1>0, <1>3, <3>3, OwnerStays, EmptySeq
      <4>2. Replay(l).owner = {by}
        BY <1>5, <4>1 DEF Admits
      <4> QED
        BY <1>1, <3>1, <4>1, <4>2
    <3> QED
      BY <3>1, <3>2, <3>3
  <2>3. ASSUME NEW d \in GroupDevices, log'[d] # <<>> PROVE log'[d][1].by = by
    <3>1. Len(log'[d]) \in Nat \ {0} /\ 1 \in 1..Len(log'[d])
      BY <1>1, <1>2, <2>3, EmptySeq
    <3>2. log'[d][1] = m[1]
      BY <2>1, <3>1 DEF Within
    <3> QED
      BY <2>2, <3>2
  <2>4. log'[by] = m
    BY <1>2
  <2> QED
    BY <2>1, <2>3, <2>4 DEF OwnersIsLongest, Within
<1> QED
  BY <1>6, <1>8, <1>9 DEF LogsInv

\* Taking over a longer log that verifies keeps them too.
LEMMA LogAdopts ==
  ASSUME LogsInv, NEW d \in GroupDevices, NEW from \in GroupDevices, Adopt(d, from)
  PROVE LogsInv'
<1> DEFINE l == log[from]
           o == l[1].by
<1>1. /\ log \in [GroupDevices -> Seq(GroupEntries)] /\ log' = [log EXCEPT ![d] = l]
      /\ Len(log[d]) < Len(l) /\ Verifies(l) /\ l \in Seq(GroupEntries)
  BY DEF Adopt, LogsInv, Copies
<1>2. \A c \in GroupDevices : Len(log[c]) \in Nat
  BY <1>1
<1>3. l # <<>> /\ o \in GroupDevices
  <2>1. l # <<>>
    BY <1>1, <1>2, EmptySeq
  <2> QED
    BY <1>1, <2>1, OwnerStays
<1>4. \A c \in GroupDevices : Within(log[c], log[o])
  BY <1>3 DEF LogsInv, OwnersIsLongest
<1> HIDE DEF o, l
<1>5. o # d
  <2>1. Len(l) <= Len(log[o])
    BY <1>4 DEF Within, l
  <2> QED
    BY <1>1, <1>2, <1>3, <2>1
<1>6. log'[o] = log[o] /\ \A c \in GroupDevices : log'[c] = log[c] \/ log'[c] = l
  BY <1>1, <1>3, <1>5
<1>7. \A c \in GroupDevices : Within(log'[c], log[o])
  BY <1>4, <1>6 DEF l
<1>8. ASSUME NEW c \in GroupDevices, log'[c] # <<>> PROVE log'[c][1].by = o
  <2>1. log'[c] \in Seq(GroupEntries)
    BY <1>1
  <2>2. 1 \in 1..Len(log'[c]) /\ 1 \in 1..Len(l)
    BY <1>1, <1>3, <1>8, <2>1, EmptySeq
  <2>3. log'[c][1] = log[o][1] /\ l[1] = log[o][1]
    BY <1>4, <1>7, <2>2 DEF Within, l
  <2> QED
    BY <2>3 DEF o
<1>9. Copies'
  BY <1>1 DEF Copies
<1>10. \A c \in GroupDevices : Verifies(log'[c])
  BY <1>1, <1>6 DEF LogsInv, CopiesVerify
<1>11. CopiesVerify'
  BY <1>10 DEF CopiesVerify, Verifies
<1>12. OwnersIsLongest'
  BY <1>6, <1>7, <1>8 DEF OwnersIsLongest, Within
<1> QED
  BY <1>9, <1>11, <1>12 DEF LogsInv

\* An entry leaves what was wrapped before it as it is.
LEMMA KeysOutlive ==
  ASSUME LogsInv, KeysInv, NEW by \in GroupDevices, NEW e \in GroupEntries, e.by = by,
         Appends(by, e), log[by] # <<>> \/ Founds,
         log' = [log EXCEPT ![by] = Append(log[by], e)], NEW t \in wrapped
  PROVE /\ \E d \in GroupDevices : t.at <= Len(log'[d])
        /\ \A d \in GroupDevices : t.at <= Len(log'[d]) =>
             t.recipients = AsOf(log'[d], t.at).active /\ t.revoked \notin t.recipients
<1> DEFINE l == log[by]
           m == Append(l, e)
<1>0. l \in Seq(GroupEntries) /\ Len(l) \in Nat /\ log \in [GroupDevices -> Seq(GroupEntries)]
  BY DEF LogsInv, Copies
<1>1. Len(m) = Len(l) + 1 /\ \A k \in 0..Len(l) : AsOf(m, k) = AsOf(l, k)
  BY <1>0, AppendedLog
<1>2. log' = [log EXCEPT ![by] = m]
  OBVIOUS
<1>3. \A d \in GroupDevices : Within(log[d], l)
  BY AuthorIsLongest
<1>4. /\ t.at \in Nat \ {0} /\ \E d \in GroupDevices : t.at <= Len(log[d])
      /\ \A d \in GroupDevices : t.at <= Len(log[d]) =>
           t.recipients = AsOf(log[d], t.at).active /\ t.revoked \notin t.recipients
  BY DEF KeysInv
<1> HIDE DEF m
<1>5. t.at <= Len(l)
  <2>1. PICK d \in GroupDevices : t.at <= Len(log[d])
    BY <1>4
  <2>2. Len(log[d]) <= Len(l) /\ Len(log[d]) \in Nat
    BY <1>0, <1>3 DEF Within
  <2> QED
    BY <1>0, <1>4, <2>1, <2>2
<1>6. t.at <= Len(log'[by]) /\ log'[by] = m
  BY <1>0, <1>1, <1>2, <1>4, <1>5
<1>7. ASSUME NEW d \in GroupDevices, t.at <= Len(log'[d])
      PROVE t.recipients = AsOf(log'[d], t.at).active /\ t.revoked \notin t.recipients
  <2>1. CASE d = by
    <3>1. t.at \in 0..Len(l)
      BY <1>0, <1>4, <1>5
    <3>2. AsOf(log'[d], t.at) = AsOf(log[by], t.at)
      BY <1>1, <1>6, <2>1, <3>1
    <3> QED
      BY <1>4, <1>5, <3>2
  <2>2. CASE d # by
    <3>1. log'[d] = log[d]
      BY <1>0, <1>2, <2>2
    <3> QED
      BY <1>4, <1>7, <3>1
  <2> QED
    BY <2>1, <2>2
<1> QED
  BY <1>6, <1>7

\* What an entry does to the devices that may sign.
LEMMA SignersGrow ==
  ASSUME LogsInv, SignersInv, NEW by \in GroupDevices, NEW e \in GroupEntries,
         log' = [log EXCEPT ![by] = Append(log[by], e)], enrolled \subseteq enrolled',
         e.action = "add" => e.device \in enrolled'
  PROVE \A d \in GroupDevices : Replay(log'[d]).active \subseteq enrolled'
<1>0. log[by] \in Seq(GroupEntries) /\ log \in [GroupDevices -> Seq(GroupEntries)]
  BY DEF LogsInv, Copies
<1>1. \A d \in GroupDevices : Replay(log[d]).active \subseteq enrolled
  BY DEF SignersInv
<1>2. Replay(Append(log[by], e)) = AfterEntry(Replay(log[by]), e)
  BY <1>0, AppendedLog
<1>3. Replay(Append(log[by], e)).active \subseteq Replay(log[by]).active \cup enrolled'
  BY ONLY <1>2, e.action = "add" => e.device \in enrolled' DEF AfterEntry
<1> QED
  BY <1>0, <1>1, <1>3

LEMMA AppendStep ==
  ASSUME GroupInv, NEW by \in GroupDevices, NEW action \in {"add", "revoke"},
         NEW device \in GroupDevices, NEW clock \in 0..GroupMaxClock,
         log[by] # <<>> \/ Founds, AppendChange(by, action, device, clock)
  PROVE GroupInv'
<1> DEFINE e == Entry(action, device, by, clock)
<1>1. e \in GroupEntries /\ e.by = by /\ e.action = action /\ e.device = device
  BY DEF Entry, GroupEntries
<1>2. /\ Appends(by, e) /\ log' = [log EXCEPT ![by] = Append(log[by], e)]
      /\ enrolled' = IF action = "add" THEN enrolled \cup {device} ELSE enrolled
      /\ epoch' = epoch /\ wrapped' = wrapped /\ ledger' = ledger
  BY DEF AppendChange
<1>3. LogsInv /\ KeysInv /\ SignersInv
  BY DEF GroupInv
<1> HIDE DEF e
<1>4. LogsInv'
  BY <1>1, <1>2, <1>3, LogGrows
<1>5. KeysInv'
  <2>1. ASSUME NEW t \in wrapped
        PROVE /\ \E d \in GroupDevices : t.at <= Len(log'[d])
              /\ \A d \in GroupDevices : t.at <= Len(log'[d]) =>
                   t.recipients = AsOf(log'[d], t.at).active /\ t.revoked \notin t.recipients
    BY <1>1, <1>2, <1>3, KeysOutlive
  <2> QED
    BY <1>2, <1>3, <2>1 DEF KeysInv, AsOf, Replay
<1>6. SignersInv'
  <2>1. enrolled \subseteq enrolled' /\ (e.action = "add" => e.device \in enrolled')
    BY <1>1, <1>2
  <2>2. \A d \in GroupDevices : Replay(log'[d]).active \subseteq enrolled'
    BY <1>1, <1>2, <1>3, <2>1, SignersGrow
  <2> QED
    BY <1>2, <1>3, <2>1, <2>2 DEF SignersInv, SignersAreEnrolled, Replay
<1> QED
  BY <1>4, <1>5, <1>6 DEF GroupInv

LEMMA RekeyStep ==
  ASSUME GroupInv, NEW by \in GroupDevices, NEW device \in GroupDevices,
         NEW clock \in 0..GroupMaxClock, RevokeAndRekey(by, device, clock)
  PROVE GroupInv'
<1> DEFINE e == Entry("revoke", device, by, clock)
           l == log[by]
           m == Append(l, e)
           key == [epoch |-> epoch + 1, revoked |-> device, recipients |-> Replay(m).active, at |-> Len(m)]
<1>1. e \in GroupEntries /\ e.by = by /\ e.action = "revoke" /\ e.device = device
  BY DEF Entry, GroupEntries
<1>2. /\ Appends(by, e) /\ log' = [log EXCEPT ![by] = m] /\ device \in Replay(l).active
      /\ epoch' = epoch + 1 /\ wrapped' = wrapped \cup {key} /\ enrolled' = enrolled /\ ledger' = ledger
  BY DEF RevokeAndRekey
<1>3. LogsInv /\ KeysInv /\ SignersInv /\ epoch \in Nat
  BY DEF GroupInv, KeysInv
<1>4. l \in Seq(GroupEntries) /\ Len(l) \in Nat /\ log \in [GroupDevices -> Seq(GroupEntries)]
  BY <1>3 DEF LogsInv, Copies
<1>5. l # <<>>
  BY <1>2, EmptyReplay DEF NoState
<1>6. /\ m \in Seq(GroupEntries) /\ Len(m) = Len(l) + 1
      /\ AsOf(m, Len(l) + 1) = AfterEntry(Replay(l), e) /\ Replay(m) = AfterEntry(Replay(l), e)
  BY <1>1, <1>4, AppendedLog
<1>7. /\ key.epoch = epoch + 1 /\ key.revoked = device
      /\ key.recipients = Replay(m).active /\ key.at = Len(m)
  OBVIOUS
<1> HIDE DEF e
<1>8. LogsInv'
  BY <1>1, <1>2, <1>3, <1>5, LogGrows
<1>9. ASSUME NEW t \in wrapped
      PROVE /\ \E d \in GroupDevices : t.at <= Len(log'[d])
            /\ \A d \in GroupDevices : t.at <= Len(log'[d]) =>
                 t.recipients = AsOf(log'[d], t.at).active /\ t.revoked \notin t.recipients
  BY <1>1, <1>2, <1>3, <1>5, KeysOutlive
<1>10. \A d \in GroupDevices : Within(log[d], l)
  BY <1>1, <1>2, <1>3, <1>5, AuthorIsLongest
<1> HIDE DEF key, m
<1>11. ASSUME NEW d \in GroupDevices, key.at <= Len(log'[d])
       PROVE key.recipients = AsOf(log'[d], key.at).active
  <2>1. CASE d = by
    BY <1>2, <1>4, <1>6, <1>7, <2>1
  <2>2. CASE d # by
    <3>1. log'[d] = log[d] /\ Len(log[d]) <= Len(l) /\ Len(log[d]) \in Nat
      BY <1>2, <1>4, <1>10, <2>2 DEF Within
    <3> QED
      BY <1>4, <1>6, <1>7, <1>11, <3>1
  <2> QED
    BY <2>1, <2>2
<1>12. key.revoked \notin key.recipients
  <2>1. Replay(m).active = Replay(l).active \ {device}
    BY <1>1, <1>6 DEF AfterEntry
  <2> QED
    BY <1>7, <2>1
<1>13. key.at <= Len(log'[by]) /\ key.at \in Nat \ {0}
  BY <1>2, <1>4, <1>6, <1>7
<1>14. KeysInv'
  <2>1. \A t \in wrapped : t.epoch \in Nat /\ t.epoch <= epoch /\ t.at \in Nat \ {0}
    BY <1>3 DEF KeysInv
  <2>2. \A t, u \in wrapped : t.epoch = u.epoch => t = u
    BY <1>3 DEF KeysInv
  <2>3. \A t, u \in wrapped' : t.epoch = u.epoch => t = u
    BY <1>2, <1>3, <1>7, <2>1, <2>2
  <2>4. ASSUME NEW t \in wrapped'
        PROVE /\ t.epoch \in Nat /\ t.epoch <= epoch' /\ t.at \in Nat \ {0}
              /\ \E d \in GroupDevices : t.at <= Len(log'[d])
              /\ \A d \in GroupDevices : t.at <= Len(log'[d]) =>
                   t.recipients = AsOf(log'[d], t.at).active /\ t.revoked \notin t.recipients
    <3>1. CASE t = key
      BY <1>2, <1>3, <1>7, <1>11, <1>12, <1>13, <3>1
    <3>2. CASE t \in wrapped
      BY <1>2, <1>3, <1>9, <2>1, <3>2
    <3> QED
      BY <1>2, <3>1, <3>2
  <2>5. epoch' \in Nat
    BY <1>2, <1>3
  <2> QED
    BY <2>3, <2>4, <2>5 DEF KeysInv, AsOf, Replay
<1>15. SignersInv'
  <2>1. \A d \in GroupDevices : Replay(log'[d]).active \subseteq enrolled'
    <3>1. log' = [log EXCEPT ![by] = Append(log[by], e)]
      BY <1>2 DEF m
    <3>2. enrolled \subseteq enrolled' /\ (e.action = "add" => e.device \in enrolled')
      BY <1>1, <1>2
    <3> QED
      BY ONLY <1>1, <1>3, <3>1, <3>2, SignersGrow, by \in GroupDevices
  <2> QED
    BY <1>2, <1>3, <2>1 DEF SignersInv, SignersAreEnrolled, Replay
<1> QED
  BY <1>8, <1>14, <1>15 DEF GroupInv

LEMMA AdoptStep ==
  ASSUME GroupInv, NEW d \in GroupDevices, NEW from \in GroupDevices, Adopt(d, from)
  PROVE GroupInv'
<1>1. LogsInv /\ KeysInv /\ SignersInv
  BY DEF GroupInv
<1>2. /\ log' = [log EXCEPT ![d] = log[from]] /\ log \in [GroupDevices -> Seq(GroupEntries)]
      /\ Len(log[d]) < Len(log[from])
      /\ epoch' = epoch /\ wrapped' = wrapped /\ ledger' = ledger /\ enrolled' = enrolled
  BY <1>1 DEF Adopt, LogsInv, Copies
<1>3. LogsInv'
  BY <1>1, LogAdopts
<1>4. /\ \A c \in GroupDevices : log'[c] = log[c] \/ log'[c] = log[from]
      /\ \A c \in GroupDevices : Len(log[c]) \in Nat /\ Len(log[c]) <= Len(log'[c])
  BY <1>2
<1>5. KeysInv'
  <2>1. ASSUME NEW t \in wrapped
        PROVE /\ \E c \in GroupDevices : t.at <= Len(log'[c])
              /\ \A c \in GroupDevices : t.at <= Len(log'[c]) =>
                   t.recipients = AsOf(log'[c], t.at).active /\ t.revoked \notin t.recipients
    <3>1. /\ t.at \in Nat /\ \E c \in GroupDevices : t.at <= Len(log[c])
          /\ \A c \in GroupDevices : t.at <= Len(log[c]) =>
               t.recipients = AsOf(log[c], t.at).active /\ t.revoked \notin t.recipients
      BY <1>1 DEF KeysInv
    <3>2. \E c \in GroupDevices : t.at <= Len(log'[c])
      <4>1. PICK c \in GroupDevices : t.at <= Len(log[c])
        BY <3>1
      <4>2. Len(log'[c]) \in Nat
        BY <1>2
      <4>3. t.at <= Len(log'[c])
        BY <1>4, <3>1, <4>1, <4>2
      <4> QED
        BY <4>3
    <3> QED
      BY <1>4, <3>1, <3>2
  <2> QED
    BY <1>1, <1>2, <2>1 DEF KeysInv, AsOf, Replay
<1>6. SignersInv'
  <2>1. \A c \in GroupDevices : Replay(log'[c]).active \subseteq enrolled'
    BY <1>1, <1>2, <1>4 DEF SignersInv
  <2> QED
    BY <1>1, <1>2, <2>1 DEF SignersInv, SignersAreEnrolled, Replay
<1> QED
  BY <1>3, <1>5, <1>6 DEF GroupInv

LEMMA EventStep ==
  ASSUME GroupInv, NEW d \in GroupDevices, NEW signer \in GroupDevices,
         NEW kind \in {"captured", "sent"}, AppendEvent(d, signer, kind)
  PROVE GroupInv'
<1> DEFINE Signed == [signer : GroupDevices, kind : {"captured", "sent"}]
           event == [signer |-> signer, kind |-> kind]
<1>1. /\ ledger' = Append(ledger, event) /\ signer \in Replay(log[d]).active
      /\ UNCHANGED <<log, epoch, wrapped, enrolled>>
  BY DEF AppendEvent
<1>2. ledger \in Seq(Signed) /\ event \in Signed /\ event.signer = signer
  BY DEF GroupInv, SignersInv
<1>3. /\ signer \in enrolled
      /\ \A i \in 1..Len(ledger) : ledger[i].signer \in enrolled
  BY <1>1 DEF GroupInv, SignersInv, SignersAreEnrolled
<1> HIDE DEF event, Signed
<1>4. /\ ledger' \in Seq(Signed) /\ Len(ledger') = Len(ledger) + 1 /\ Len(ledger) \in Nat
      /\ \A i \in 1..Len(ledger) : ledger'[i] = ledger[i]
      /\ ledger'[Len(ledger) + 1] = event
  BY <1>1, <1>2, AppendProperties
<1>5. \A i \in 1..Len(ledger') : ledger'[i].signer \in enrolled'
  <2>1. ASSUME NEW i \in 1..Len(ledger') PROVE ledger'[i].signer \in enrolled
    <3>1. CASE i <= Len(ledger)
      BY <1>3, <1>4, <3>1
    <3>2. CASE i = Len(ledger) + 1
      BY <1>2, <1>3, <1>4, <3>2
    <3> QED
      BY <1>4, <3>1, <3>2
  <2> QED
    BY <1>1, <2>1
<1>6. SignersInv'
  BY <1>1, <1>4, <1>5 DEF GroupInv, SignersInv, SignersAreEnrolled, Signed, Replay
<1>7. LogsInv' /\ KeysInv'
  BY <1>1 DEF GroupInv, LogsInv, KeysInv, Copies, CopiesVerify, OwnersIsLongest, Verifies, AsOf, Replay, Within
<1> QED
  BY <1>6, <1>7 DEF GroupInv

LEMMA GroupStep == GroupInv /\ [GroupNext]_groupVars => GroupInv'
<1> SUFFICES ASSUME GroupInv, [GroupNext]_groupVars PROVE GroupInv'
  OBVIOUS
<1>1. ASSUME NEW by \in GroupDevices, NEW device \in GroupDevices, NEW action \in {"add", "revoke"},
             NEW clock \in 0..GroupMaxClock, log[by] # <<>> \/ Founds,
             AppendChange(by, action, device, clock)
      PROVE GroupInv'
  BY <1>1, AppendStep
<1>2. ASSUME NEW by \in GroupDevices, NEW device \in GroupDevices, NEW clock \in 0..GroupMaxClock,
             RevokeAndRekey(by, device, clock)
      PROVE GroupInv'
  BY <1>2, RekeyStep
<1>3. ASSUME NEW d \in GroupDevices, NEW from \in GroupDevices, Adopt(d, from) PROVE GroupInv'
  BY <1>3, AdoptStep
<1>4. ASSUME NEW d \in GroupDevices, NEW signer \in GroupDevices, NEW kind \in {"captured", "sent"},
             AppendEvent(d, signer, kind)
      PROVE GroupInv'
  BY <1>4, EventStep
<1>5. CASE UNCHANGED groupVars
  BY <1>5 DEF groupVars, GroupInv, LogsInv, KeysInv, SignersInv, SignersAreEnrolled,
     Copies, CopiesVerify, OwnersIsLongest, Verifies, AsOf, Replay, Within
<1> QED
  BY <1>1, <1>2, <1>3, <1>4, <1>5 DEF GroupNext

LEMMA GroupStart == GroupInit => GroupInv
<1> SUFFICES ASSUME GroupInit PROVE GroupInv
  OBVIOUS
<1>1. \A d \in GroupDevices : log[d] = <<>>
  BY DEF GroupInit
<1>2. Len(<<>>) = 0 /\ <<>> \in Seq(GroupEntries)
  BY EmptySeq
<1>3. Copies
  BY <1>2 DEF Copies, GroupInit
<1>4. Verifies(<<>>)
  <2>1. 0 <= MaxGroupLog
    BY GroupAssumption
  <2> DEFINE none == <<>>
  <2>2. none \in Seq(GroupEntries) /\ Len(none) = 0
    BY <1>2
  <2> HIDE DEF none
  <2>3. \A i \in 1..Len(none) : FALSE
    BY <2>2
  <2>4. Verifies(none)
    BY <2>1, <2>2, <2>3, VerifiesIs
  <2> QED
    BY <2>4 DEF none
<1>5. LogsInv
  BY <1>1, <1>3, <1>4 DEF LogsInv, CopiesVerify, OwnersIsLongest
<1>6. KeysInv
  BY DEF KeysInv, GroupInit
<1>7. SignersInv
  <2>1. \A d \in GroupDevices : Replay(log[d]).active = {}
    BY <1>1, EmptyReplay DEF NoState
  <2>2. ledger = <<>>
    BY DEF GroupInit
  <2> QED
    BY <2>1, <2>2 DEF SignersInv, SignersAreEnrolled
<1> QED
  BY <1>5, <1>6, <1>7 DEF GroupInv

LEMMA GroupKeeps == GroupInv => GroupSafety
<1> SUFFICES ASSUME GroupInv PROVE GroupSafety
  OBVIOUS
<1>1. LogsInv /\ KeysInv /\ SignersInv
  BY DEF GroupInv
<1>2. \A d \in GroupDevices : log[d] \in Seq(GroupEntries) /\ Len(log[d]) \in Nat
  BY <1>1 DEF LogsInv, Copies
<1>3. ASSUME NEW d \in GroupDevices, NEW e \in GroupDevices
      PROVE IsPrefix(log[d], log[e]) \/ IsPrefix(log[e], log[d])
  <2>1. (Within(log[d], log[e]) => IsPrefix(log[d], log[e]))
        /\ (Within(log[e], log[d]) => IsPrefix(log[e], log[d]))
    BY <1>2, PrefixIs DEF Within
  <2>2. CASE log[d] = <<>>
    BY <1>2, <2>1, <2>2, EmptySeq DEF Within
  <2>3. CASE log[d] # <<>>
    <3> DEFINE whole == log[log[d][1].by]
    <3>1. Within(log[d], whole) /\ Within(log[e], whole)
      BY <1>1, <2>3 DEF LogsInv, OwnersIsLongest
    <3> HIDE DEF whole
    <3>2. \A i \in 1..Len(log[d]) : log[d][i] = whole[i]
      BY <3>1 DEF Within
    <3>3. \A i \in 1..Len(log[e]) : log[e][i] = whole[i]
      BY <3>1 DEF Within
    <3>4. Within(log[d], log[e]) \/ Within(log[e], log[d])
      <4>1. CASE Len(log[d]) <= Len(log[e])
        BY <1>2, <3>2, <3>3, <4>1 DEF Within
      <4>2. CASE Len(log[e]) <= Len(log[d])
        BY <1>2, <3>2, <3>3, <4>2 DEF Within
      <4> QED
        BY <1>2, <4>1, <4>2
    <3> QED
      BY <2>1, <3>4
  <2> QED
    BY <2>2, <2>3
<1>4. KeysStayInGroup
  BY <1>1 DEF KeysInv, KeysStayInGroup, AsOf
<1> QED
  BY <1>1, <1>3, <1>4 DEF GroupSafety, LogsInv, SignersInv, OneHistory

\* An owner who revoked himself: nobody may append, so there is nothing to adopt.
LEMMA ClosedStep ==
  ASSUME GroupInv, [GroupNext]_groupVars, NEW d \in GroupDevices, log[d] # <<>>,
         Replay(log[d]).owner \cap Replay(log[d]).active = {}
  PROVE log'[d] = log[d]
<1> DEFINE l == log[d]
<1>0. /\ l \in Seq(GroupEntries) /\ Len(l) \in Nat /\ Verifies(l)
      /\ log \in [GroupDevices -> Seq(GroupEntries)]
  BY DEF GroupInv, LogsInv, Copies, CopiesVerify
<1>1. Replay(l).owner = {l[1].by}
  BY <1>0, OwnerStays
<1>2. ASSUME NEW e, Admits(Replay(l), e) PROVE FALSE
  BY <1>1, <1>2 DEF Admits
<1> HIDE DEF l
<1>3. ASSUME NEW by \in GroupDevices, NEW device \in GroupDevices, NEW action \in {"add", "revoke"},
             NEW clock \in 0..GroupMaxClock, AppendChange(by, action, device, clock)
      PROVE log'[d] = l
  <2>1. by # d
    BY <1>2, <1>3 DEF AppendChange, Appends, l
  <2> QED
    BY <1>0, <1>3, <2>1 DEF AppendChange, l
<1>4. ASSUME NEW by \in GroupDevices, NEW device \in GroupDevices, NEW clock \in 0..GroupMaxClock,
             RevokeAndRekey(by, device, clock)
      PROVE log'[d] = l
  <2>1. by # d
    BY <1>2, <1>4 DEF RevokeAndRekey, Appends, l
  <2> QED
    BY <1>0, <1>4, <2>1 DEF RevokeAndRekey, l
<1>5. ASSUME NEW c \in GroupDevices, NEW from \in GroupDevices, Adopt(c, from) PROVE log'[d] = l
  <2> DEFINE m == log[from]
  <2>1. /\ Len(log[c]) < Len(m) /\ IsPrefix(log[c], m) /\ Verifies(m)
        /\ log' = [log EXCEPT ![c] = m] /\ m \in Seq(GroupEntries) /\ Len(m) \in Nat
    BY <1>0, <1>5 DEF Adopt
  <2> HIDE DEF m
  <2>2. CASE c # d
    BY <1>0, <2>1, <2>2 DEF l
  <2>3. CASE c = d
    <3>1. Len(l) < Len(m) /\ \A i \in 1..Len(l) : l[i] = m[i]
      BY <1>0, <2>1, <2>3, PrefixIs DEF l
    <3>2. Len(l) + 1 \in 1..Len(m) /\ Len(l) \in 0..Len(l) /\ Len(l) <= Len(m)
      BY <1>0, <2>1, <3>1
    <3>3. Admits(AsOf(m, Len(l) + 1 - 1), m[Len(l) + 1])
      BY <2>1, <3>2, VerifiesIs
    <3>4. SubSeq(l, 1, Len(l)) = SubSeq(m, 1, Len(l))
      BY <1>0, <2>1, <3>1, <3>2, SameFront
    <3>5. AsOf(m, Len(l)) = Replay(l) /\ Len(l) + 1 - 1 = Len(l)
      <4>1. AsOf(m, Len(l)) = AsOf(l, Len(l))
        BY ONLY <3>4 DEF AsOf
      <4> QED
        BY <1>0, <4>1, AsOfRuns
    <3> QED
      BY <1>2, <3>3, <3>5
  <2> QED
    BY <2>2, <2>3
<1>6. ASSUME NEW c \in GroupDevices, NEW signer \in GroupDevices, NEW kind \in {"captured", "sent"},
             AppendEvent(c, signer, kind)
      PROVE log'[d] = l
  BY <1>6 DEF AppendEvent, l
<1>7. CASE UNCHANGED groupVars
  BY <1>7 DEF groupVars, l
<1> QED
  BY <1>3, <1>4, <1>5, <1>6, <1>7 DEF GroupNext, l

-----------------------------------------------------------------------------
(* SyncPlans: a sum takes its elements in any order, and so the selection's bytes are those *)
(* of the items it selects.                                                                  *)

\* Induction over the subsets of a finite set, over a set of them.
LEMMA SubsetsAll ==
  ASSUME NEW S, IsFiniteSet(S), NEW T, {} \in T,
         \A s \in SUBSET S : \A x \in S \ s : s \in T => s \cup {x} \in T
  PROVE \A s \in SUBSET S : s \in T
<1> DEFINE Good == {n \in Nat : \A s \in SUBSET S : Cardinality(s) <= n => s \in T}
<1>0. \A s \in SUBSET S : IsFiniteSet(s) /\ Cardinality(s) \in Nat /\ Cardinality(s) <= Cardinality(S)
  BY FS_Subset, FS_CardinalityType
<1>1. Cardinality(S) \in Nat
  BY FS_CardinalityType
<1>2. 0 \in Good
  <2>1. \A s \in SUBSET S : Cardinality(s) <= 0 => s = {}
    BY <1>0, FS_EmptySet
  <2> QED
    BY <2>1
<1>3. ASSUME NEW n \in 1..Cardinality(S), n - 1 \in Good PROVE n \in Good
  <2>1. ASSUME NEW s \in SUBSET S, Cardinality(s) <= n PROVE s \in T
    <3>1. CASE s = {}
      BY <3>1
    <3>2. CASE s # {}
      <4>1. PICK x \in s : TRUE
        BY <3>2
      <4>2. Cardinality(s \ {x}) = Cardinality(s) - 1
        BY <1>0, <4>1, FS_RemoveElement
      <4>3. s \ {x} \in SUBSET S /\ x \in S \ (s \ {x}) /\ (s \ {x}) \cup {x} = s
        BY <4>1
      <4>4. s \ {x} \in T
        BY <1>0, <1>1, <1>3, <2>1, <4>2, <4>3
      <4> QED
        BY <4>3, <4>4
    <3> QED
      BY <3>1, <3>2
  <2> QED
    BY <1>1, <2>1
<1> HIDE DEF Good
<1>4. \A i \in 0..Cardinality(S) : i \in Good
  BY ONLY <1>1, <1>2, <1>3, UpToAll
<1>5. Cardinality(S) \in Good
  BY <1>1, <1>4
<1> QED
  BY <1>0, <1>5 DEF Good

-----------------------------------------------------------------------------
\* Bytes, of the items as they are.
BytesOf(its, S) == MapThenSumSet(LAMBDA i : its[i].bytes, S)

SumIterated(its, S) ==
  CHOOSE iter : iter = [s \in SUBSET S |->
     IF s = {} THEN 0
     ELSE LET x == CHOOSE x \in s : TRUE IN its[x].bytes + iter[s \ {x}]]

LEMMA BytesIterate == ASSUME NEW its, NEW S PROVE BytesOf(its, S) = SumIterated(its, S)[S]
BY DEF BytesOf, MapThenSumSet, MapThenFoldSet, SumIterated

\* The bytes of a set of items are those of its items, each once.
LEMMA BytesAdd ==
  ASSUME NEW its \in Seq(SyncItems)
  PROVE /\ BytesOf(its, {}) = 0
        /\ \A s \in SUBSET DOMAIN its : BytesOf(its, s) \in Nat
        /\ \A s \in SUBSET DOMAIN its : \A x \in DOMAIN its \ s :
             BytesOf(its, s \cup {x}) = BytesOf(its, s) + its[x].bytes
<1> DEFINE D == DOMAIN its
           w == [i \in D |-> its[i].bytes]
<1>1. IsFiniteSet(D) /\ \A i \in D : its[i].bytes \in Nat
  <2>1. D = 1..Len(its) /\ Len(its) \in Nat /\ \A i \in D : its[i] \in SyncItems
    OBVIOUS
  <2> QED
    BY <2>1, FS_Interval DEF SyncItems
<1>2. w \in [D -> Nat] /\ \A i \in D : w[i] = its[i].bytes
  BY <1>1
<1> HIDE DEF w, D
<1>3. /\ WeightOf(w, {}) = 0
      /\ \A s \in SUBSET D : WeightOf(w, s) \in Nat
      /\ \A s \in SUBSET D : \A x \in D \ s : WeightOf(w, s \cup {x}) = WeightOf(w, s) + w[x]
  BY ONLY <1>1, <1>2, WeightAdd
\* The weights are a fold of the bytes, and there is only one.
<1>4. ASSUME NEW S \in SUBSET D PROVE BytesOf(its, S) = WeightOf(w, S)
  <2> DEFINE it == [s \in SUBSET S |-> WeightOf(w, s)]
             sum == SumIterated(its, S)
             pick == [s \in SUBSET S |-> CHOOSE x \in s : TRUE]
  <2>1. /\ \A s \in SUBSET S : pick[s] = CHOOSE x \in s : TRUE
        /\ \A s \in SUBSET S : s # {} => pick[s] \in s
        /\ it = [s \in SUBSET S |-> it[s]] /\ \A s \in SUBSET S : it[s] = WeightOf(w, s)
    OBVIOUS
  <2> HIDE DEF it, pick
  <2>2. ASSUME NEW s \in SUBSET S PROVE it[s] = IF s = {} THEN 0 ELSE w[pick[s]] + it[s \ {pick[s]}]
    <3>1. CASE s = {}
      BY <1>3, <2>1, <3>1
    <3>2. CASE s # {}
      <4> DEFINE x == pick[s]
                 t == s \ {x}
      <4>1. x \in D \ t /\ t \in SUBSET D /\ t \in SUBSET S /\ s = t \cup {x}
        BY <2>1, <3>2
      <4> HIDE DEF x, t
      <4>2. WeightOf(w, s) = WeightOf(w, t) + w[x] /\ WeightOf(w, t) \in Nat /\ w[x] \in Nat
        BY <1>2, <1>3, <4>1
      <4>3. it[s] = WeightOf(w, s) /\ it[t] = WeightOf(w, t)
        BY ONLY <2>1, <4>1, s \in SUBSET S
      <4>4. it[s] = w[x] + it[t]
        BY ONLY <4>2, <4>3
      <4> QED
        BY <3>2, <4>4 DEF x, t
    <3> QED
      BY <3>1, <3>2
  <2>3. ASSUME NEW s \in SUBSET S
        PROVE it[s] = IF s = {} THEN 0
                      ELSE its[CHOOSE x \in s : TRUE].bytes + it[s \ {CHOOSE x \in s : TRUE}]
    <3>1. CASE s = {}
      BY <2>2, <3>1
    <3>2. CASE s # {}
      <4>1. pick[s] \in D /\ pick[s] = CHOOSE x \in s : TRUE
        BY <2>1, <3>2
      <4>2. it[s] = w[pick[s]] + it[s \ {pick[s]}]
        BY <2>2, <3>2
      <4>3. w[pick[s]] = its[pick[s]].bytes
        BY ONLY <1>2, <4>1
      <4> QED
        BY <3>2, <4>1, <4>2, <4>3
    <3> QED
      BY <3>1, <3>2
  <2>4. it = [s \in SUBSET S |->
                IF s = {} THEN 0
                ELSE its[CHOOSE x \in s : TRUE].bytes + it[s \ {CHOOSE x \in s : TRUE}]]
    BY ONLY <2>1, <2>3
  <2>5. \E iter : iter = [s \in SUBSET S |->
                IF s = {} THEN 0
                ELSE LET x == CHOOSE x \in s : TRUE IN its[x].bytes + iter[s \ {x}]]
    BY ONLY Zenon, <2>4
  <2>6. sum = [s \in SUBSET S |->
                IF s = {} THEN 0
                ELSE LET x == CHOOSE x \in s : TRUE IN its[x].bytes + sum[s \ {x}]]
    BY ONLY Zenon, <2>5 DEF SumIterated
  <2> HIDE DEF sum
  <2>7. ASSUME NEW s \in SUBSET S
        PROVE sum[s] = IF s = {} THEN 0 ELSE w[pick[s]] + sum[s \ {pick[s]}]
    <3>1. sum[s] = IF s = {} THEN 0
                   ELSE its[CHOOSE x \in s : TRUE].bytes + sum[s \ {CHOOSE x \in s : TRUE}]
      BY ONLY <2>6
    <3>2. s # {} => pick[s] \in D
      BY <2>1
    <3> QED
      BY <1>2, <2>1, <3>1, <3>2
  <2>8. IsFiniteSet(S) /\ Picks(pick, S) /\ IsSum(sum, S, w, pick) /\ IsSum(it, S, w, pick)
    BY <1>1, <2>1, <2>2, <2>7, FS_Subset DEF Picks, IsSum
  <2>9. sum[S] = it[S]
    BY ONLY <2>8, SumsAgree
  <2> QED
    BY <2>1, <2>9, BytesIterate DEF sum
<1>5. ASSUME NEW s \in SUBSET D, NEW x \in D \ s
      PROVE BytesOf(its, s \cup {x}) = BytesOf(its, s) + its[x].bytes
  <2>1. s \cup {x} \in SUBSET D
    OBVIOUS
  <2> QED
    BY <1>2, <1>3, <1>4, <2>1
<1>6. {} \in SUBSET D
  OBVIOUS
<1> QED
  BY <1>3, <1>4, <1>5, <1>6 DEF D

-----------------------------------------------------------------------------
SelStates == [ids : Seq(Nat), bytes : Nat, skipped : Nat, full : BOOLEAN]
NoneSelected == [ids |-> <<>>, bytes |-> 0, skipped |-> 0, full |-> FALSE]

SelStep(selected, limit, acc, i) ==
    IF acc.full \/ i \notin selected THEN acc
    ELSE IF LocalOnly(items[i]) \/ ~AcceptsFromLocal
         THEN [acc EXCEPT !.skipped = @ + 1]
    ELSE IF Len(acc.ids) = limit THEN [acc EXCEPT !.full = TRUE]
    ELSE [acc EXCEPT !.ids = Append(@, i), !.bytes = @ + items[i].bytes]

Indices == [i \in 1..Len(items) |-> i]

SelIterated(selected, limit) ==
  CHOOSE iter : iter = [s \in SUBSET DOMAIN Indices |->
     IF s = {} THEN NoneSelected
     ELSE LET x == Max(s) IN SelStep(selected, limit, iter[s \ {x}], Indices[x])]

LEMMA SelIterates ==
  ASSUME NEW selected, NEW limit
  PROVE Selective(selected, limit) = SelIterated(selected, limit)[DOMAIN Indices]
BY DEF Selective, FoldLeft, MapThenFoldSet, SelIterated, SelStep, NoneSelected, Indices

\* The plan so far: in order, within the limit, with the bytes of its items.
ExactTo(its, p, limit, k) ==
    /\ p.ids \in Seq(Nat) /\ Len(p.ids) <= limit
    /\ \A j \in 1..Len(p.ids) : p.ids[j] \in 1..k
    /\ \A j, m \in 1..Len(p.ids) : j < m => p.ids[j] < p.ids[m]
    /\ p.bytes = BytesOf(its, {p.ids[j] : j \in 1..Len(p.ids)})

LEMMA SelStepIs ==
  ASSUME items \in Seq(SyncItems), NEW selected, NEW limit \in Nat,
         NEW acc \in SelStates, NEW i \in 1..Len(items)
  PROVE /\ SelStep(selected, limit, acc, i) \in SelStates
        /\ \/ /\ SelStep(selected, limit, acc, i).ids = acc.ids
              /\ SelStep(selected, limit, acc, i).bytes = acc.bytes
           \/ /\ Len(acc.ids) # limit
              /\ SelStep(selected, limit, acc, i).ids = Append(acc.ids, i)
              /\ SelStep(selected, limit, acc, i).bytes = acc.bytes + items[i].bytes
<1>1. items[i].bytes \in Nat /\ i \in Nat
  <2>1. items[i] \in SyncItems
    OBVIOUS
  <2> QED
    BY <2>1 DEF SyncItems
<1>2. Append(acc.ids, i) \in Seq(Nat) /\ acc.bytes + items[i].bytes \in Nat /\ acc.skipped + 1 \in Nat
  BY <1>1 DEF SelStates
<1>3. acc = [ids |-> acc.ids, bytes |-> acc.bytes, skipped |-> acc.skipped, full |-> acc.full]
  BY DEF SelStates
<1> DEFINE a == Append(acc.ids, i)
           b == acc.bytes + items[i].bytes
           c == acc.skipped + 1
           new == SelStep(selected, limit, acc, i)
<1> HIDE DEF a, b, c
<1>4. \/ new = acc
      \/ new = [acc EXCEPT !.skipped = c]
      \/ new = [acc EXCEPT !.full = TRUE]
      \/ Len(acc.ids) # limit /\ new = [acc EXCEPT !.ids = a, !.bytes = b]
  BY DEF SelStep, a, b, c
<1> HIDE DEF new
<1>5. a \in Seq(Nat) /\ b \in Nat /\ c \in Nat
  BY <1>2 DEF a, b, c
<1>6. CASE new = acc
  BY <1>6 DEF new
<1>7. CASE new = [acc EXCEPT !.skipped = c]
  BY <1>5, <1>7 DEF new, SelStates
<1>8. CASE new = [acc EXCEPT !.full = TRUE]
  BY <1>8 DEF new, SelStates
<1>9. CASE Len(acc.ids) # limit /\ new = [acc EXCEPT !.ids = a, !.bytes = b]
  <2>1. new \in SelStates /\ new.ids = a /\ new.bytes = b
    BY <1>5, <1>9 DEF SelStates
  <2> QED
    BY <1>9, <2>1 DEF new, a, b
<1> QED
  BY <1>4, <1>6, <1>7, <1>8, <1>9

LEMMA ExactGrows ==
  ASSUME items \in Seq(SyncItems), NEW limit \in Nat, NEW acc \in SelStates, NEW new \in SelStates,
         NEW i \in 1..Len(items), ExactTo(items, acc, limit, i - 1),
         \/ new.ids = acc.ids /\ new.bytes = acc.bytes
         \/ /\ Len(acc.ids) # limit
            /\ new.ids = Append(acc.ids, i) /\ new.bytes = acc.bytes + items[i].bytes
  PROVE ExactTo(items, new, limit, i)
<1> DEFINE old == acc.ids
           n == Len(old)
<1>1. /\ old \in Seq(Nat) /\ n \in Nat /\ n <= limit
      /\ \A j \in 1..n : old[j] \in 1..i - 1
      /\ \A j, m \in 1..n : j < m => old[j] < old[m]
      /\ acc.bytes = BytesOf(items, {old[j] : j \in 1..n})
  BY DEF ExactTo
<1>2. CASE new.ids = acc.ids /\ new.bytes = acc.bytes
  BY <1>1, <1>2 DEF ExactTo
<1>3. CASE /\ Len(acc.ids) # limit
           /\ new.ids = Append(acc.ids, i) /\ new.bytes = acc.bytes + items[i].bytes
  <2> DEFINE ids == new.ids
  <2>1. /\ ids \in Seq(Nat) /\ Len(ids) = n + 1 /\ \A j \in 1..n : ids[j] = old[j]
        /\ ids[n + 1] = i /\ i \in Nat
    <3>1. i \in Nat /\ old \in Seq(Nat)
      BY <1>1
    <3>2. ids = Append(old, i)
      BY <1>3
    <3> QED
      BY <3>1, <3>2, AppendProperties
  <2>2. n + 1 <= limit
    BY <1>1, <1>3
  <2> DEFINE S == {old[j] : j \in 1..n}
  <2>3. {ids[j] : j \in 1..Len(ids)} = S \cup {i}
    <3>1. \A j \in 1..Len(ids) : j \in 1..n \/ j = n + 1
      BY <1>1, <2>1
    <3>2. n + 1 \in 1..Len(ids) /\ \A j \in 1..n : j \in 1..Len(ids)
      BY <1>1, <2>1
    <3> QED
      BY <2>1, <3>1, <3>2
  <2>4. S \in SUBSET DOMAIN items /\ i \in DOMAIN items \ S
    BY <1>1
  <2> HIDE DEF S
  <2>5. BytesOf(items, S \cup {i}) = BytesOf(items, S) + items[i].bytes
    BY <2>4, BytesAdd
  <2>6. new.bytes = BytesOf(items, {ids[j] : j \in 1..Len(ids)})
    BY <1>1, <1>3, <2>3, <2>5 DEF S
  <2> HIDE DEF ids, n, old
  <2>7. ASSUME NEW j \in 1..Len(ids) PROVE ids[j] \in 1..i
    <3>1. j \in 1..n \/ j = n + 1
      BY <1>1, <2>1
    <3>2. \A m \in 1..n : ids[m] \in 1..i - 1
      BY <1>1, <2>1
    <3> QED
      BY <2>1, <3>1, <3>2
  <2>8. \A j, m \in 1..Len(ids) : j < m => ids[j] < ids[m]
    <3>1. ASSUME NEW j \in 1..Len(ids), NEW m \in 1..Len(ids), j < m PROVE ids[j] < ids[m]
      <4>1. j \in 1..n /\ ids[j] = old[j] /\ old[j] \in 1..i - 1
        BY <1>1, <2>1, <3>1
      <4>2. CASE m \in 1..n
        BY <1>1, <2>1, <3>1, <4>1, <4>2
      <4>3. CASE m = n + 1
        BY <2>1, <4>1, <4>3
      <4> QED
        BY <1>1, <2>1, <4>2, <4>3
    <3> QED
      BY <3>1
  <2> QED
    BY <2>1, <2>2, <2>6, <2>7, <2>8 DEF ExactTo, ids
<1> QED
  BY <1>2, <1>3

\* plan_selective_replay, over the items in order.
LEMMA SelectiveIsExact ==
  ASSUME items \in Seq(SyncItems), NEW selected, NEW limit \in Nat
  PROVE /\ Selective(selected, limit) \in SelStates
        /\ ExactTo(items, Selective(selected, limit), limit, Len(items))
<1> DEFINE n == Len(items)
           g == [p \in SelStates \X (1..n) |-> SelStep(selected, limit, p[1], p[2])]
<1>0. n \in Nat /\ DOMAIN Indices = 1..n /\ \A i \in 1..n : Indices[i] = i
  BY DEF Indices
<1>1. NoneSelected \in SelStates /\ ExactTo(items, NoneSelected, limit, 0)
  <2>1. /\ NoneSelected \in SelStates /\ NoneSelected.ids = <<>> /\ NoneSelected.bytes = 0
    BY EmptySeq DEF NoneSelected, SelStates
  <2>2. Len(NoneSelected.ids) = 0 /\ NoneSelected.ids \in Seq(Nat)
    BY <2>1, EmptySeq
  <2>3. {NoneSelected.ids[j] : j \in 1..Len(NoneSelected.ids)} = {}
    BY <2>2
  <2>4. BytesOf(items, {}) = 0
    BY BytesAdd
  <2>5. NoneSelected.bytes = BytesOf(items, {NoneSelected.ids[j] : j \in 1..Len(NoneSelected.ids)})
    BY ONLY <2>1, <2>3, <2>4
  <2> QED
    BY <2>1, <2>2, <2>5 DEF ExactTo
<1>2. g \in [SelStates \X (1..n) -> SelStates]
  <2>1. ASSUME NEW p \in SelStates \X (1..n) PROVE SelStep(selected, limit, p[1], p[2]) \in SelStates
    BY SelStepIs
  <2> QED
    BY ONLY <2>1
<1>3. \A st \in SelStates : \A i \in 1..n : g[<<st, i>>] = SelStep(selected, limit, st, i)
  OBVIOUS
<1> HIDE DEF g, n
<1>c. PICK it : IsChain(it, n, SelStates, NoneSelected, g)
  BY ONLY <1>0, <1>1, <1>2, ChainExists
<1>4. /\ it \in [SUBSET (1..n) -> SelStates]
      /\ \A s \in SUBSET (1..n) : it[s] = IF s = {} THEN NoneSelected ELSE g[<<it[s \ {Max(s)}], Max(s)>>]
  BY ONLY <1>c DEF IsChain
<1>5. ASSUME NEW s \in SUBSET (1..n)
      PROVE it[s] = IF s = {} THEN NoneSelected
                    ELSE SelStep(selected, limit, it[s \ {Max(s)}], Indices[Max(s)])
  <2>1. CASE s = {}
    BY <1>4, <2>1
  <2>2. CASE s # {}
    <3>1. Max(s) \in 1..n /\ Indices[Max(s)] = Max(s)
      BY <1>0, <2>2, MaxOfIndices
    <3>2. it[s \ {Max(s)}] \in SelStates
      BY <1>4
    <3>3. g[<<it[s \ {Max(s)}], Max(s)>>] = SelStep(selected, limit, it[s \ {Max(s)}], Max(s))
      BY ONLY <1>3, <3>1, <3>2
    <3> QED
      BY <1>4, <2>2, <3>1, <3>3
  <2> QED
    BY <2>1, <2>2
<1>6. it = [s \in SUBSET (1..n) |->
              IF s = {} THEN NoneSelected
              ELSE SelStep(selected, limit, it[s \ {Max(s)}], Indices[Max(s)])]
  BY ONLY <1>4, <1>5
<1> DEFINE run == SelIterated(selected, limit)
<1>7. run = [s \in SUBSET (1..n) |->
               IF s = {} THEN NoneSelected
               ELSE SelStep(selected, limit, run[s \ {Max(s)}], Indices[Max(s)])]
  <2>1. \E iter : iter = [s \in SUBSET DOMAIN Indices |->
                     IF s = {} THEN NoneSelected
                     ELSE LET x == Max(s) IN SelStep(selected, limit, iter[s \ {x}], Indices[x])]
    BY Zenon, <1>0, <1>6
  <2>2. run = [s \in SUBSET DOMAIN Indices |->
                     IF s = {} THEN NoneSelected
                     ELSE LET x == Max(s) IN SelStep(selected, limit, run[s \ {x}], Indices[x])]
    BY ONLY Zenon, <2>1 DEF SelIterated
  <2> QED
    BY ONLY <2>2, <1>0
<1> HIDE DEF run
<1>8. run[1..0] = NoneSelected
  <2>1. 1..0 = {}
    OBVIOUS
  <2> QED
    BY <1>7, <2>1
<1>9. ASSUME NEW i \in 1..n PROVE run[1..i] = SelStep(selected, limit, run[1..i - 1], i)
  <2>1. Max(1..i) = i /\ (1..i) \ {i} = 1..i - 1 /\ 1..i # {} /\ 1..i \in SUBSET (1..n)
    BY <1>0, ChainSteps
  <2>2. Indices[i] = i
    BY <1>0
  <2> QED
    BY ONLY <1>7, <2>1, <2>2
<1> DEFINE T == {k \in 0..n : run[1..k] \in SelStates /\ ExactTo(items, run[1..k], limit, k)}
<1>10. 0 \in T
  BY <1>0, <1>1, <1>8
<1>11. ASSUME NEW i \in 1..n, i - 1 \in T PROVE i \in T
  <2> DEFINE acc == run[1..i - 1]
             new == run[1..i]
  <2>1. acc \in SelStates /\ ExactTo(items, acc, limit, i - 1) /\ new = SelStep(selected, limit, acc, i)
    BY <1>9, <1>11
  <2>2. i \in 1..Len(items)
    BY DEF n
  <2> HIDE DEF acc, new
  <2>3. /\ new \in SelStates
        /\ \/ new.ids = acc.ids /\ new.bytes = acc.bytes
           \/ /\ Len(acc.ids) # limit
              /\ new.ids = Append(acc.ids, i) /\ new.bytes = acc.bytes + items[i].bytes
    <3> DEFINE after == SelStep(selected, limit, acc, i)
    <3>1. /\ after \in SelStates
          /\ \/ after.ids = acc.ids /\ after.bytes = acc.bytes
             \/ /\ Len(acc.ids) # limit
                /\ after.ids = Append(acc.ids, i) /\ after.bytes = acc.bytes + items[i].bytes
      BY <2>1, <2>2, SelStepIs
    <3>2. new = after
      BY <2>1
    <3> HIDE DEF after
    <3> QED
      BY ONLY <3>1, <3>2
  <2>4. ExactTo(items, new, limit, i)
    BY <2>1, <2>2, <2>3, ExactGrows
  <2> QED
    BY <1>0, <2>3, <2>4 DEF new
<1> HIDE DEF T
<1>12. \A k \in 0..n : k \in T
  BY ONLY <1>0, <1>10, <1>11, UpToAll
<1>13. n \in T
  BY <1>0, <1>12
<1>14. Selective(selected, limit) = run[1..n]
  <2>1. Selective(selected, limit) = run[DOMAIN Indices]
    BY SelIterates DEF run
  <2> QED
    BY <1>0, <2>1
<1> QED
  BY <1>13, <1>14 DEF T, n

\* What is marked sensitive keeps its bytes.
LEMMA SameBytes ==
  ASSUME NEW its \in Seq(SyncItems), NEW jts \in Seq(SyncItems), Len(its) = Len(jts),
         \A i \in 1..Len(its) : its[i].bytes = jts[i].bytes
  PROVE \A s \in SUBSET DOMAIN its : BytesOf(its, s) = BytesOf(jts, s)
<1> DEFINE D == DOMAIN its
           T == {s \in SUBSET D : BytesOf(its, s) = BytesOf(jts, s)}
<1>1. D = DOMAIN jts /\ D = 1..Len(its) /\ IsFiniteSet(D) /\ Len(its) \in Nat
  BY FS_Interval
<1> HIDE DEF D
<1>2. {} \in T
  BY <1>1, BytesAdd
<1>3. ASSUME NEW s \in SUBSET D, NEW x \in D \ s, s \in T PROVE s \cup {x} \in T
  <2>1. BytesOf(its, s \cup {x}) = BytesOf(its, s) + its[x].bytes
    BY BytesAdd DEF D
  <2>2. BytesOf(jts, s \cup {x}) = BytesOf(jts, s) + jts[x].bytes
    BY <1>1, BytesAdd
  <2>3. its[x].bytes = jts[x].bytes
    BY <1>1
  <2> QED
    BY <1>3, <2>1, <2>2, <2>3
<1> HIDE DEF T
<1>4. \A s \in SUBSET D : s \in T
  BY ONLY <1>1, <1>2, <1>3, SubsetsAll
<1> QED
  BY <1>4 DEF T, D

PlanInv ==
    /\ items \in Seq(SyncItems) /\ lane.maxBytes \in Nat
    /\ NothingLocalLeaves /\ ShownIsTrue
    /\ chosen.limit \in Nat /\ ExactTo(items, chosen, chosen.limit, Len(items))

LEMMA PlanStart == PlanInit => PlanInv
<1> SUFFICES ASSUME PlanInit PROVE PlanInv
  OBVIOUS
<1>1. items \in Seq(SyncItems) /\ lane.maxBytes \in Nat /\ wrongly = {} /\ fresh = FALSE
  BY PlanAssumption DEF PlanInit
<1>2. chosen.ids = <<>> /\ chosen.bytes = 0 /\ chosen.limit = 0
  BY DEF PlanInit, NoChoice
<1>3. Len(chosen.ids) = 0 /\ chosen.ids \in Seq(Nat)
  BY <1>2, EmptySeq
<1>4. {chosen.ids[j] : j \in 1..Len(chosen.ids)} = {} /\ BytesOf(items, {}) = 0
  BY <1>1, <1>3, BytesAdd
<1>5. ExactTo(items, chosen, chosen.limit, Len(items))
  <2>1. chosen.bytes = BytesOf(items, {chosen.ids[j] : j \in 1..Len(chosen.ids)})
    BY ONLY <1>2, <1>4
  <2> QED
    BY <1>1, <1>2, <1>3, <2>1 DEF ExactTo
<1> QED
  BY <1>1, <1>2, <1>5 DEF PlanInv, NothingLocalLeaves, ShownIsTrue

LEMMA ChooseStep ==
  ASSUME PlanInv, NEW selected, NEW limit \in 1..MaxSelected, Choose(selected, limit)
  PROVE PlanInv'
<1> DEFINE made == Selective(selected, limit)
<1>1. limit \in Nat
  BY PlanAssumption
<1>2. made \in SelStates /\ ExactTo(items, made, limit, Len(items))
  BY <1>1, SelectiveIsExact DEF PlanInv
<1>3. /\ chosen' = [ids |-> made.ids, bytes |-> made.bytes, skipped |-> made.skipped, limit |-> limit]
      /\ UNCHANGED <<items, rules, lane, trust, mode, shown, sent, fresh, wrongly>>
  BY DEF Choose
<1> HIDE DEF made
<1>4. chosen'.ids = made.ids /\ chosen'.bytes = made.bytes /\ chosen'.limit = limit
  BY <1>3
<1>5. ExactTo(items', chosen', chosen'.limit, Len(items'))
  BY <1>2, <1>3, <1>4 DEF ExactTo
<1>6. NothingLocalLeaves' /\ ShownIsTrue'
  BY <1>3 DEF PlanInv, NothingLocalLeaves, ShownIsTrue, Materialization, LocalOnly, AcceptsFromLocal
<1> QED
  BY <1>1, <1>3, <1>4, <1>5, <1>6 DEF PlanInv

LEMMA ShowStep ==
  ASSUME PlanInv, Show PROVE PlanInv'
<1> DEFINE leaves == IF AcceptsFromLocal THEN Transferable ELSE {}
           D == DOMAIN items
<1>1. /\ shown' = [rehearsal |-> Rehearsal, estimate |-> Estimate]
      /\ UNCHANGED <<items, rules, lane, trust, mode, chosen, sent, wrongly>>
  BY DEF Show
<1>2. D = 1..Len(items) /\ Len(items) \in Nat /\ IsFiniteSet(D) /\ Cardinality(D) = Len(items)
  <2>1. D = 1..Len(items) /\ Len(items) \in Nat
    BY DEF PlanInv
  <2>2. IsFiniteSet(1..Len(items)) /\ Cardinality(1..Len(items)) = Len(items)
    <3> DEFINE n == Len(items)
    <3>1. n \in Nat /\ n \in Int /\ 1 \in Int
      BY <2>1
    <3> HIDE DEF n
    <3>2. IsFiniteSet(1..n) /\ Cardinality(1..n) = IF 1 > n THEN 0 ELSE n - 1 + 1
      BY ONLY <3>1, FS_Interval
    <3>3. Cardinality(1..n) = n
      BY ONLY <3>1, <3>2
    <3> QED
      BY ONLY <3>2, <3>3 DEF n
  <2> QED
    BY ONLY <2>1, <2>2
<1>3. leaves \in SUBSET D
  BY DEF Transferable
<1>4. leaves = {i \in D : Materialization(items[i], TRUE) # "nothing"}
  BY DEF Transferable, Materialization
<1>5. /\ shown'.rehearsal.items = Cardinality(leaves)
      /\ shown'.rehearsal.localOnly = Cardinality(D \ leaves)
  BY <1>1 DEF Rehearsal
<1>6. Cardinality(leaves) + Cardinality(D \ leaves) = Len(items)
  <2>1. Cardinality(D \ leaves) = Cardinality(D) - Cardinality(D \cap leaves)
    BY <1>2, FS_Difference
  <2>2. D \cap leaves = leaves /\ Cardinality(leaves) \in Nat
    BY <1>2, <1>3, FS_Subset, FS_CardinalityType
  <2>3. Cardinality(D \ leaves) = Len(items) - Cardinality(leaves)
    BY ONLY <1>2, <2>1, <2>2
  <2> QED
    BY ONLY <1>2, <2>2, <2>3
<1>7. AcceptsFromLocal => shown'.rehearsal = shown'.estimate
  BY <1>1 DEF Rehearsal, Estimate
<1> HIDE DEF leaves
<1>8. ShownIsTrue'
  BY <1>1, <1>4, <1>5, <1>6, <1>7 DEF ShownIsTrue, Materialization, LocalOnly, AcceptsFromLocal
<1> QED
  BY <1>1, <1>8 DEF PlanInv, NothingLocalLeaves

LEMMA TransferStep ==
  ASSUME PlanInv, NEW i \in DOMAIN items, NEW requested \in BOOLEAN, Transfer(i, requested)
  PROVE PlanInv'
<1>1. items[i].bytes \in Nat /\ lane.maxBytes \in Nat
  <2>1. items[i] \in SyncItems
    BY DEF PlanInv
  <2> QED
    BY <2>1 DEF PlanInv, SyncItems
<1>2. ~(LocalOnly(items[i]) \/ ~AcceptsFromLocal)
  BY DEF Transfer, Materialization
<1>3. ~(items[i].bytes > lane.maxBytes)
  BY <1>1 DEF Transfer, LaneAccepts
<1>4. wrongly' = wrongly /\ UNCHANGED <<items, rules, lane, trust, mode, shown, chosen, fresh>>
  BY <1>2, <1>3 DEF Transfer
<1>5. NothingLocalLeaves' /\ ShownIsTrue'
  BY <1>4 DEF PlanInv, NothingLocalLeaves, ShownIsTrue, Materialization, LocalOnly, AcceptsFromLocal
<1> QED
  BY <1>4, <1>5 DEF PlanInv

LEMMA MarkStep ==
  ASSUME PlanInv, NEW i \in DOMAIN items, MarkSensitive(i) PROVE PlanInv'
<1>1. /\ items' = [items EXCEPT ![i].sensitive = TRUE] /\ fresh' = FALSE
      /\ UNCHANGED <<rules, lane, trust, mode, shown, chosen, sent, wrongly>>
  BY DEF MarkSensitive
<1>2. items \in Seq(SyncItems) /\ Len(items) \in Nat /\ i \in 1..Len(items) /\ items[i] \in SyncItems
  BY DEF PlanInv
<1> DEFINE r == [items[i] EXCEPT !.sensitive = TRUE]
<1>3. r \in SyncItems /\ r.bytes = items[i].bytes
  BY <1>2 DEF SyncItems
<1>4. items' = [items EXCEPT ![i] = r]
  BY <1>1
<1> HIDE DEF r
<1>5. items' \in Seq(SyncItems) /\ Len(items') = Len(items)
  BY <1>2, <1>3, <1>4
<1>6. \A j \in 1..Len(items) : items[j].bytes = items'[j].bytes
  BY <1>2, <1>3, <1>4
<1>7. \A s \in SUBSET DOMAIN items : BytesOf(items, s) = BytesOf(items', s)
  BY <1>2, <1>5, <1>6, SameBytes
<1>8. ExactTo(items', chosen', chosen'.limit, Len(items'))
  <2> DEFINE S == {chosen.ids[j] : j \in 1..Len(chosen.ids)}
  <2>1. ExactTo(items, chosen, chosen.limit, Len(items))
    BY DEF PlanInv
  <2>2. S \in SUBSET DOMAIN items
    BY <1>2, <2>1 DEF ExactTo
  <2>3. BytesOf(items', S) = BytesOf(items, S)
    BY <1>7, <2>2
  <2> QED
    BY <1>1, <1>5, <2>1, <2>3 DEF ExactTo
<1>9. NothingLocalLeaves' /\ ShownIsTrue'
  BY <1>1 DEF PlanInv, NothingLocalLeaves, ShownIsTrue
<1> QED
  BY <1>1, <1>5, <1>8, <1>9 DEF PlanInv

LEMMA PlanStep == PlanInv /\ [PlanNext]_planVars => PlanInv'
<1> SUFFICES ASSUME PlanInv, [PlanNext]_planVars PROVE PlanInv'
  OBVIOUS
<1>1. CASE Show
  BY <1>1, ShowStep
<1>2. ASSUME NEW selected \in SUBSET DOMAIN items, NEW limit \in 1..MaxSelected, Choose(selected, limit)
      PROVE PlanInv'
  BY <1>2, ChooseStep
<1>3. ASSUME NEW i \in DOMAIN items, NEW requested \in BOOLEAN, Transfer(i, requested) PROVE PlanInv'
  BY <1>3, TransferStep
<1>4. ASSUME NEW i \in DOMAIN items, MarkSensitive(i) PROVE PlanInv'
  BY <1>4, MarkStep
<1>5. CASE Distrust
  <2>1. fresh' = FALSE /\ UNCHANGED <<items, rules, lane, mode, shown, chosen, sent, wrongly>>
    BY <1>5 DEF Distrust
  <2> QED
    BY <2>1 DEF PlanInv, NothingLocalLeaves, ShownIsTrue
<1>6. CASE UNCHANGED planVars
  <2>1. UNCHANGED <<items, lane, trust, mode, shown, chosen, fresh, wrongly>>
    BY <1>6 DEF planVars
  <2>2. NothingLocalLeaves' /\ ShownIsTrue'
    BY <2>1 DEF PlanInv, NothingLocalLeaves, ShownIsTrue, Materialization, LocalOnly, AcceptsFromLocal
  <2> QED
    BY <2>1, <2>2 DEF PlanInv
<1> QED
  BY <1>1, <1>2, <1>3, <1>4, <1>5, <1>6 DEF PlanNext

LEMMA PlanKeeps == PlanInv => PlanSafety
<1> SUFFICES ASSUME PlanInv PROVE PlanSafety
  OBVIOUS
<1>1. ExactTo(items, chosen, chosen.limit, Len(items))
  BY DEF PlanInv
<1>2. DOMAIN chosen.ids = 1..Len(chosen.ids)
  BY <1>1 DEF ExactTo
<1>3. PlanIsExact
  BY <1>1, <1>2 DEF ExactTo, PlanIsExact, Bytes, BytesOf
<1> QED
  BY <1>3 DEF PlanInv, PlanSafety

-----------------------------------------------------------------------------
(***************************************************************************)
(* MCReplicaSync: the parts share no state, so each keeps its invariant in    *)
(* the behaviours of every other.                                             *)
(***************************************************************************)

SyncInv ==
    /\ HandInv /\ MirrorInv /\ GuardInv /\ QuotaInv /\ StreamInv
    /\ GroupInv /\ PlanInv

LEMMA SyncStart == SyncInit => SyncInv
BY HandStart, MirrorStart, GuardStart, QuotaStart, StreamStart, GroupStart, PlanStart
   DEF SyncInit, SyncInv

\* Each part takes a step of its own or none.
LEMMA PartsApart ==
  [SyncNext]_syncVars =>
    /\ [Next]_vars /\ [GroupNext]_groupVars /\ [PlanNext]_planVars
    /\ [OutNext]_outVars /\ [BurnNext]_burnVars /\ [MirrorNext]_mirrorVars
    /\ [\E user \in Users : GuardStep(user)]_guardVars
    /\ [QuotaNext]_quotaVars /\ [StreamNext]_streamVars
BY DEF SyncNext, PeerNext, ClientNext, syncVars, peerVars, clientVars

LEMMA SyncStep == SyncInv /\ [SyncNext]_syncVars => SyncInv'
BY PartsApart, OutStep, BurnStep, MirrorStep, GuardsStep, QuotaStep, StreamStep, GroupStep,
   PlanStep DEF SyncInv, HandInv

\* ReplayGuard, CapabilityVerifier, TokenRateLimiter and EventReplayCursor: a
\* message is accepted once and never while revoked, no token exceeds its quota,
\* none within it is refused without as many others served, and no event is
\* skipped, for every set of messages and tokens, capacity and retention.
THEOREM ClientsAreServed == SyncSpec => ClientsGetTheirShare
<1>1. SyncInv => GuardSafety /\ QuotaSafety
  BY GuardKeeps, QuotaKeeps DEF SyncInv
<1>2. SyncInv /\ [SyncNext]_syncVars =>
        [\A m \in Messages : m.user = "capability" /\ accepted'[m] > accepted[m] =>
           floor'["revocations"] >= revokedTo[m.key]]_guardVars
  BY PartsApart, GuardsStep DEF SyncInv
<1> QED
  BY SyncStart, SyncStep, <1>1, <1>2, PTL DEF SyncSpec, ClientsGetTheirShare, RevokedIsRefused

\* plan_snippet_mirror and SnippetSyncManifest::applied: what only the target's
\* user wrote is never replaced, wherever edits, stops and lost manifests fall.
THEOREM EditsAreKept == SyncSpec => MirrorKeepsEdits
<1>1. SyncInv => MirrorSafety
  BY MirrorKeeps DEF SyncInv
<1>2. SyncInv /\ [SyncNext]_syncVars =>
        [\A k \in SnippetKeys :
           phase = "apply" /\ k \in performed' \ performed /\ target[k] # Nothing =>
              target[k] \in mirrored[k]]_mirrorVars
  BY PartsApart, ReplacedIsMirrored DEF SyncInv
<1> QED
  BY SyncStart, SyncStep, <1>1, <1>2, PTL DEF SyncSpec, MirrorKeepsEdits, OnlyMirroredIsReplaced

\* MembershipLog's append_change and revoke_and_rekey, SignedChain and CustodyRecord:
\* no two devices disagree on a change, each new key is wrapped for members of the
\* group it was made for, every signer was enrolled, and a group whose owner left it
\* never changes again, for every set of devices and length of log.
THEOREM GroupAgrees == SyncSpec => GroupIsOfOneMind
<1>1. SyncInv => GroupSafety
  BY GroupKeeps DEF SyncInv
<1>2. SyncInv /\ [SyncNext]_syncVars =>
        [\A d \in GroupDevices :
           log[d] # <<>> /\ Replay(log[d]).owner \cap Replay(log[d]).active = {} =>
              log'[d] = log[d]]_groupVars
  BY PartsApart, ClosedStep DEF SyncInv
<1> QED
  BY SyncStart, SyncStep, <1>1, <1>2, PTL DEF SyncSpec, GroupIsOfOneMind, ClosedStaysClosed

\* rehearse_pairing, plan_selective_replay, seal_if_allowed, the offline outbox and
\* the burn after paste: nothing local leaves, the plan shown is of the items as they
\* are, and what is reported delivered or wiped is, and stays so.
THEOREM TransfersAreKept == SyncSpec => TransfersAreHonest
<1>1. SyncInv => PlanSafety /\ HandSafety
  BY PlanKeeps, HandKeeps DEF SyncInv
<1>2. SyncInv /\ [SyncNext]_syncVars =>
        [\A p \in DOMAIN outbox :
           outbox[p].status \in {"delivered", "failed"} => outbox'[p] = outbox[p]]_outVars
  BY PartsApart, OutStep DEF SyncInv, HandInv
<1> QED
  BY SyncStart, SyncStep, <1>1, <1>2, PTL DEF SyncSpec, TransfersAreHonest, SettledIsFinal
=============================================================================
