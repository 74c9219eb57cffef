----------------------------- MODULE ReplicaSync -----------------------------
(***************************************************************************)
(* One item replicated on several devices: hybrid logical clocks            *)
(* (vbuff-sync/src/clock.rs), the add-wins presence set and the             *)
(* last-writer-wins register `pinned` (crdt.rs).  The name, notes and color *)
(* registers and the tag set are of the same two types.                     *)
(*                                                                           *)
(* The crate is a foundation without a transport: the network, which may    *)
(* delay, reorder, duplicate and lose snapshots, and the discipline of the  *)
(* callers (tick for a write, observe the register of what was merged) are  *)
(* external.  Wall clocks may be stepped back and forth at will.            *)
(***************************************************************************)
EXTENDS Naturals, FiniteSets

CONSTANTS
    Devices,        \* device ids, ordered as node_id is
    Creator,        \* the device that captured the item
    MaxLogical,     \* u32::MAX
    Tolerance,      \* MAX_REMOTE_FUTURE_MS
    MaxNow,         \* bound: [Devices -> Nat], how far each wall clock goes
    MaxPhysical,    \* bound: a hybrid clock stops observing beyond this
    MaxEdits,       \* bound: [Devices -> Nat], edits a device makes
    MaxInFlight     \* bound: snapshots in the network

ASSUME SyncAssumption ==
    /\ Devices \subseteq Nat
    /\ Creator \in Devices
    /\ MaxLogical \in Nat /\ Tolerance \in Nat
    /\ MaxPhysical \in Nat /\ MaxInFlight \in Nat
    /\ MaxNow \in [Devices -> Nat] /\ MaxEdits \in [Devices -> Nat]

VARIABLES
    now,        \* wall clock of each device
    hlc,        \* HybridLogicalClock of each device
    replica,    \* ItemReplica of each device
    edits,      \* edits made by each device: its dot counter
    net,        \* snapshots under way
    seen,       \* ghost: the edits each device has made or heard of
    clamped     \* ghost: bounded_at has changed a clock

vars == <<now, hlc, replica, edits, net, seen, clamped>>

-----------------------------------------------------------------------------
(* HybridLogicalClock *)

Clocks == [physical : Nat, logical : 0 .. MaxLogical, node : Devices]

\* Defective variant of Less: the tie-break is left out.
LessWithoutNode(a, b) ==
    a.physical < b.physical \/ (a.physical = b.physical /\ a.logical < b.logical)

\* The derived order: physical, then logical, then node.
Less(a, b) ==
    \/ a.physical < b.physical
    \/ a.physical = b.physical /\ a.logical < b.logical
    \/ a.physical = b.physical /\ a.logical = b.logical /\ a.node < b.node

\* bounded_at
Bounded(c, t) ==
    IF c.physical > t + Tolerance THEN [c EXCEPT !.physical = t + Tolerance] ELSE c

\* Defective variant of Advance: the counter does not roll over.
AdvanceForever(c) == [c EXCEPT !.logical = @ + 1]

\* advance_logical
Advance(c) ==
    IF c.logical < MaxLogical THEN [c EXCEPT !.logical = @ + 1]
    ELSE [c EXCEPT !.physical = @ + 1, !.logical = 0]

Tick(c, t) ==
    IF t > c.physical THEN [c EXCEPT !.physical = t, !.logical = 0] ELSE Advance(c)

\* Defective variant of Observe: the remote clock is not taken over.
ObserveNothing(c, r, t) == Tick(c, t)

Largest(S) == CHOOSE x \in S : \A y \in S : y <= x

\* The local clock passes the wall clock, itself and the bounded remote one.
Observe(c, r, t) ==
    LET remote == Bounded(r, t)
        top == Largest({t, c.physical, remote.physical})
        tied == {x \in {c, remote} : x.physical = top}
    IN  IF tied = {} THEN [c EXCEPT !.physical = top, !.logical = 0]
        ELSE Advance([c EXCEPT !.physical = top,
                               !.logical = Largest({x.logical : x \in tied})])

-----------------------------------------------------------------------------
(* ItemReplica *)

Dots == Devices \X Nat
Replicas == [adds : SUBSET Dots, removes : SUBSET Dots, pinned : BOOLEAN, clock : Clocks]

\* OrSet::contains
IsPresent(r) == r.adds \ r.removes # {}

\* Defective variant of Assign: a far-future clock is stored as it came.
AssignUnbounded(r, value, clock, t) ==
    IF Less(r.clock, clock) THEN [r EXCEPT !.pinned = value, !.clock = clock] ELSE r

\* LwwRegister::assign
Assign(r, value, clock, t) ==
    LET bounded == Bounded(clock, t)
    IN  IF Less(r.clock, bounded) THEN [r EXCEPT !.pinned = value, !.clock = bounded] ELSE r

\* Defective variant of Removed: the tombstone covers dots not yet observed.
RemovedUnseen(r) ==
    [r EXCEPT !.removes = @ \union {<<d, n>> : d \in Devices, n \in 0 .. 2}]

\* OrSet::remove: the dots observed here, and no other.
Removed(r) == [r EXCEPT !.removes = @ \union r.adds]

\* ItemReplica::merge
Merge(r, other, t) ==
    Assign([r EXCEPT !.adds = @ \union other.adds, !.removes = @ \union other.removes],
           other.pinned, other.clock, t)

-----------------------------------------------------------------------------
(* Edits, as the ghost records them: a dot, a kind, the clock of a register  *)
(* write and the dots of the edits its author knew of.                       *)

Past(d) == {e.dot : e \in seen[d]}
Edit(d, kind, clock) ==
    [dot |-> <<d, edits[d] + 1>>, kind |-> kind, clock |-> clock, past |-> Past(d)]

Adds(E) == {e.dot : e \in {x \in E : x.kind \in {"new", "pin"}}}
Writes(E) == {e \in E : e.kind \in {"new", "pin", "unpin"}}
Deletes(E) == {e \in E : e.kind = "delete"}
Deleted(E) == UNION {e.past : e \in Deletes(E)}

Origin == [physical |-> 0, logical |-> 0, node |-> Creator]
Creation == [dot |-> <<Creator, 0>>, kind |-> "new", clock |-> Origin, past |-> {}]

\* Every device has received the item the Creator captured, and its clock.
Init ==
    /\ now = [d \in Devices |-> 0]
    /\ hlc = [d \in Devices |-> IF d = Creator THEN Origin
                                ELSE Observe([Origin EXCEPT !.node = d], Origin, 0)]
    /\ replica = [d \in Devices |->
         [adds |-> {Creation.dot}, removes |-> {}, pinned |-> FALSE, clock |-> Origin]]
    /\ edits = [d \in Devices |-> 0]
    /\ net = {}
    /\ seen = [d \in Devices |-> {Creation}]
    /\ clamped = FALSE

\* The part common to all edits: a dot is spent and the edit is recorded.
Recorded(d, kind, clock) ==
    /\ edits[d] < MaxEdits[d]
    /\ edits' = [edits EXCEPT ![d] = @ + 1]
    /\ seen' = [seen EXCEPT ![d] = @ \union {Edit(d, kind, clock)}]
    /\ UNCHANGED <<now, net>>

\* A write of the register takes the next tick of the device's clock.
Written(d, kind, r, value) ==
    LET clock == Tick(hlc[d], now[d])
    IN  /\ Recorded(d, kind, clock)
        /\ hlc' = [hlc EXCEPT ![d] = clock]
        /\ replica' = [replica EXCEPT ![d] = Assign(r, value, clock, now[d])]
        /\ clamped' = (clamped \/ Bounded(clock, now[d]) # clock)

\* ItemReplica::pin: a fresh presence dot, then the register.
Pin(d) ==
    Written(d, "pin", [replica[d] EXCEPT !.adds = @ \union {<<d, edits[d] + 1>>}], TRUE)

\* fields.pinned.assign(false, ..)
Unpin(d) == Written(d, "unpin", replica[d], FALSE)

\* ItemReplica::delete
Delete(d) ==
    /\ Recorded(d, "delete", Origin)
    /\ replica' = [replica EXCEPT ![d] = Removed(@)]
    /\ UNCHANGED <<hlc, clamped>>

Send(d) ==
    LET snapshot == [replica |-> replica[d], seen |-> seen[d]]
    IN  /\ Cardinality(net \union {snapshot}) <= MaxInFlight
        /\ net' = net \union {snapshot}
        /\ UNCHANGED <<now, hlc, replica, edits, seen, clamped>>

\* A snapshot is merged; it stays under way, to be delivered again or lost.
Receive(d) ==
    \E m \in net :
        LET heard == Observe(hlc[d], m.replica.clock, now[d])
        IN  /\ heard.physical <= MaxPhysical
            /\ hlc' = [hlc EXCEPT ![d] = heard]
            /\ replica' = [replica EXCEPT ![d] = Merge(@, m.replica, now[d])]
            /\ seen' = [seen EXCEPT ![d] = @ \union m.seen]
            /\ clamped' = (clamped \/ Bounded(m.replica.clock, now[d]) # m.replica.clock)
            /\ UNCHANGED <<now, edits, net>>

Lose ==
    /\ \E m \in net : net' = net \ {m}
    /\ UNCHANGED <<now, hlc, replica, edits, seen, clamped>>

\* The wall clock of a device passes, or is stepped.
ClockStep(d) ==
    /\ \E t \in 0 .. MaxNow[d] : now' = [now EXCEPT ![d] = t]
    /\ UNCHANGED <<hlc, replica, edits, net, seen, clamped>>

Next ==
    \/ Lose
    \/ \E d \in Devices :
         Pin(d) \/ Unpin(d) \/ Delete(d) \/ Send(d) \/ Receive(d) \/ ClockStep(d)

Spec == Init /\ [][Next]_vars

-----------------------------------------------------------------------------
(* Properties *)

Events ==
    [dot : Dots, kind : {"new", "pin", "unpin", "delete"}, clock : Clocks, past : SUBSET Dots]

\* The state of the devices and of the network is well formed.
TypeOK ==
    /\ now \in [Devices -> Nat]
    /\ hlc \in [Devices -> Clocks] /\ \A d \in Devices : hlc[d].node = d
    /\ replica \in [Devices -> Replicas]
    /\ edits \in [Devices -> Nat]
    /\ net \subseteq [replica : Replicas, seen : SUBSET Events]
    /\ seen \in [Devices -> SUBSET Events]
    /\ clamped \in BOOLEAN

\* Devices that have heard of the same edits agree, in whatever order and
\* however often the snapshots arrived ("independent edits on multiple devices
\* always converge deterministically", docs/mistakes-top-500.md), as long as no
\* clock led a wall clock by more than the tolerance.
Convergent ==
    ~clamped => \A d, e \in Devices : seen[d] = seen[e] => replica[d] = replica[e]

\* The item is there exactly when some device asserted it (captured or pinned)
\* without the deleter knowing: "Concurrent unseen adds therefore win", and
\* what a deleter did see never comes back, whatever the clocks do.
AddWins ==
    \A d \in Devices : IsPresent(replica[d]) <=> Adds(seen[d]) \ Deleted(seen[d]) # {}

\* A value that somebody who knew it has overwritten is not shown by anyone who
\* knows of the overwriting (HybridLogicalClock::observe).
NoUndoneWrite ==
    ~clamped =>
        \A d \in Devices : \A w, v \in Writes(seen[d]) :
            w.clock = replica[d].clock => w.dot \notin v.past

\* A device's own write shows at once, even after its clock was stepped back or
\* it met a far-future clock, as long as the wall clock is within the tolerance
\* of the device's own hybrid clock ("far_future_register_cannot_win_forever").
OwnWriteShows ==
    [][\A d \in Devices :
         LET written == Writes(seen'[d]) \ Writes(seen[d])
         IN  edits'[d] # edits[d] /\ hlc'[d].physical <= now[d] + Tolerance =>
               \A w \in written : replica'[d].pinned = (w.kind = "pin")
                                  /\ replica'[d].clock = w.clock]_vars
=============================================================================
