-------------------------- MODULE HistorySnapshots --------------------------
(***************************************************************************)
(* The history facade and what the interface shows of it (src/history.rs,  *)
(* src/history_presenter.rs, src/store_owner.rs, src/maintenance.rs).      *)
(*                                                                         *)
(* Three threads use one History: the capture worker, the event loop and   *)
(* the maintenance loop.  Each operation is cut where the code gives up a  *)
(* lock or waits for the store's owner thread:                             *)
(*                                                                         *)
(*    idle -> (origin) -> queued -> loaded -> merged -> idle               *)
(*                                                                         *)
(* The order of rows and the length of a snapshot (snapshot_limit) are     *)
(* abstracted: a snapshot is the set of its clips.  The identifiers of the *)
(* memory-only clips, which an event carries to label them, are left out.  *)
(***************************************************************************)
EXTENDS Integers, Sequences, FiniteSets, SequencesExt

CONSTANTS
    Clips,        \* clip identifiers
    Secrets,      \* those the gate sends to the memory-only lane
    Mortal,       \* those whose expiry passes during the run
    Content,      \* the content of each clip
    Threads,      \* {Capture, UI, Maintenance}
    Capture, UI, Maintenance,
    NoClip,
    MaxVolatile,  \* MAX_VOLATILE_CLIPS
    MaxOrigins,   \* MAX_VOLATILE_ORIGINS
    MaxHistory,   \* config.max_history
    MaxVersion,   \* bound on the snapshots of a run
    Failures      \* whether store jobs may fail

ASSUME ConstantsAssumption ==
    /\ Secrets \subseteq Clips /\ Mortal \subseteq Clips
    /\ Content \in [Clips -> Clips]
    /\ NoClip \notin Clips
    /\ Threads = {Capture, UI, Maintenance}
    /\ MaxVolatile \in Nat \ {0} /\ MaxOrigins \in Nat \ {0}
    /\ MaxHistory \in Nat /\ MaxVersion \in Nat
    /\ Failures \in BOOLEAN

VARIABLES
    rows,        \* live rows of the store
    pinned,      \* those pinned
    volatile,    \* History.volatile, newest first
    origins,     \* History.volatile_origins, oldest first
    expired,     \* clips whose expires_at has passed
    version,     \* History.snapshot_version
    deleted,     \* History.deleted_original
    slot,        \* the interface's undo slot
    queue,       \* threads whose job the owner has not run
    op,          \* what each thread is doing
    gui,         \* AppState: the clips shown
    latest,      \* the presenter's latest version
    owed         \* history: 0, or a version whose change no event announced

vars == <<rows, pinned, volatile, origins, expired, version, deleted, slot,
          queue, op, gui, latest, owed>>
store == <<rows, pinned>>
lanes == <<volatile, origins>>
undo  == <<deleted, slot>>
shown == <<gui, latest>>

(***************************************************************************)
(* An operation in progress.  job is what the owner will run for it, lane  *)
(* whether it has already changed the volatile lane.                       *)
(***************************************************************************)
Jobs == {"refresh", "insert", "delete", "clear", "pin", "unpin", "find",
         "find to clone", "trim", "maintain"}
MaybeClip == Clips \cup {NoClip}
Begun(at, job, clip, original, lane) ==
    [at |-> at, job |-> job, clip |-> clip, original |-> original, lane |-> lane,
     ver |-> 0, clips |-> {}]
Idle == Begun("idle", "refresh", NoClip, NoClip, FALSE)
Op == [at : {"idle", "origin", "queued", "found", "loaded", "merged",
             "pruning", "pruned"},
       job : Jobs, clip : MaybeClip, original : MaybeClip, lane : BOOLEAN,
       ver : 0 .. MaxVersion + 3,
       clips : SUBSET Clips]

IsIdle(t) == op[t].at = "idle"
AllIdle == \A t \in Threads : IsIdle(t)
Live(clips) == clips \ expired
\* The elements of s that are in S, in their order (VecDeque::retain, Vec::retain).
Keeping(s, S) == FoldLeft(LAMBDA kept, c : IF c \in S THEN Append(kept, c) ELSE kept, <<>>, s)
VolatileIds == Live(ToSet(volatile))

Init ==
    /\ rows = {} /\ pinned = {}
    /\ volatile = <<>> /\ origins = <<>>
    /\ expired = {}
    /\ version = 0 /\ latest = 0 /\ owed = 0
    /\ deleted = NoClip /\ slot = NoClip
    /\ queue = <<>>
    /\ op = [t \in Threads |-> Idle]
    /\ gui = {}

(***************************************************************************)
(* Hand a job to the owner (StoreOwner::execute).                          *)
(***************************************************************************)
Queued(t, job, clip, lane) ==
    /\ queue' = Append(queue, t)
    /\ op' = [op EXCEPT ![t] = Begun("queued", job, clip, NoClip, lane)]

MayStart(t) == IsIdle(t) /\ version < MaxVersion
\* Mutant: asks the lane, which the clip may already have left.
AsksTheLane(c) == c \in ToSet(volatile)
IsMemoryOnly(c) == c \in ToSet(origins)

Insert(t, c) ==
    /\ MayStart(t)
    /\ Queued(t, "insert", c, FALSE)

(***************************************************************************)
(* insert_volatile takes the origins' lock, then the lane's.               *)
(***************************************************************************)
AddOrigin(t, c) ==
    LET kept == Append(Keeping(origins, Clips \ {c}), c)
    IN  /\ MayStart(t)
        /\ origins' = IF Len(kept) > MaxOrigins THEN Tail(kept) ELSE kept
        /\ op' = [op EXCEPT ![t] = Begun("origin", "refresh", c, NoClip, FALSE)]

\* Mutant: the lane is not truncated.
LaneUnbounded(t) ==
    /\ op[t].at = "origin"
    /\ volatile' = <<op[t].clip>> \o volatile
    /\ Queued(t, "refresh", NoClip, TRUE)
    /\ UNCHANGED <<store, origins, expired, version, undo, shown, owed>>

AddVolatile(t) ==
    LET c == op[t].clip
        kept == Keeping(volatile, {v \in Clips : Content[v] # Content[c]} \ expired)
    IN  /\ op[t].at = "origin"
        /\ volatile' = SubSeq(<<c>> \o kept, 1, IF Len(kept) < MaxVolatile THEN Len(kept) + 1
                                                                        ELSE MaxVolatile)
        /\ Queued(t, "refresh", NoClip, TRUE)
        /\ UNCHANGED <<store, origins, expired, version, undo, shown, owed>>

(***************************************************************************)
(* The capture worker stores a new clip in the lane the gate chose.        *)
(***************************************************************************)
InUse == rows \cup ToSet(volatile) \cup ToSet(origins) \cup expired \cup gui
         \cup {slot, deleted} \cup {op[t].clip : t \in Threads}
NewClips == Clips \ InUse

CaptureDurable ==
    /\ \E c \in NewClips \ Secrets : Insert(Capture, c)
    /\ UNCHANGED <<store, lanes, expired, version, undo, shown, owed>>

CaptureSecret ==
    /\ \E c \in NewClips \cap Secrets : AddOrigin(Capture, c)
    /\ UNCHANGED <<store, volatile, expired, version, undo, queue, shown, owed>>

(***************************************************************************)
(* The event loop's commands.                                              *)
(***************************************************************************)
DeleteVolatile(c) ==
    /\ MayStart(UI)
    /\ c \in ToSet(volatile)
    /\ volatile' = Keeping(volatile, Clips \ {c})
    /\ slot' = c
    /\ Queued(UI, "refresh", NoClip, TRUE)
    /\ UNCHANGED <<store, origins, expired, version, deleted, shown, owed>>

FindToDelete(c) ==
    /\ MayStart(UI)
    /\ c \notin ToSet(volatile)
    /\ slot' = c
    /\ Queued(UI, "find", c, FALSE)
    /\ UNCHANGED <<store, lanes, expired, version, deleted, shown, owed>>

\* The user deletes a clip the window shows; the window keeps a copy to undo it.
Delete == \E c \in gui : DeleteVolatile(c) \/ FindToDelete(c)

\* What follows a find on the event loop: the deletion, or the clone's insertion.
Found ==
    LET o == op[UI]
        next == IF o.job = "find" THEN "delete" ELSE "insert"
    IN  /\ o.at = "found"
        /\ queue' = Append(queue, UI)
        /\ op' = [op EXCEPT ![UI] = [o EXCEPT !.at = "queued", !.job = next]]
        /\ UNCHANGED <<store, lanes, expired, version, undo, shown, owed>>

\* restore: the original if it is still kept, the window's copy otherwise.
RestoreSecret ==
    /\ slot # NoClip /\ IsMemoryOnly(slot)
    /\ AddOrigin(UI, slot)
    /\ deleted' = IF deleted = slot THEN NoClip ELSE deleted
    /\ slot' = NoClip
    /\ UNCHANGED <<store, volatile, expired, version, queue, shown, owed>>

RestoreDurable ==
    /\ slot # NoClip /\ ~IsMemoryOnly(slot)
    /\ Insert(UI, slot)
    /\ deleted' = IF deleted = slot THEN NoClip ELSE deleted
    /\ slot' = NoClip
    /\ UNCHANGED <<store, lanes, expired, version, shown, owed>>

\* Five seconds pass, or another undoable action takes the slot.
SlotExpires ==
    /\ slot # NoClip
    /\ slot' = NoClip
    /\ UNCHANGED <<store, lanes, expired, version, deleted, queue, op, shown, owed>>

\* A plain-text clone gets a new identifier and the lane of its source.
CloneVolatile ==
    /\ \E source \in gui \cap VolatileIds, c \in NewClips \cap Secrets :
          IF IsMemoryOnly(source) THEN AddOrigin(UI, c) /\ UNCHANGED queue
                                  ELSE Insert(UI, c) /\ UNCHANGED origins
    /\ UNCHANGED <<store, volatile, expired, version, undo, shown, owed>>

FindToClone ==
    /\ MayStart(UI)
    /\ \E source \in gui \ VolatileIds, c \in NewClips \ Secrets :
          /\ ~IsMemoryOnly(source)
          /\ queue' = Append(queue, UI)
          /\ op' = [op EXCEPT ![UI] = Begun("queued", "find to clone", c, source, FALSE)]
    /\ UNCHANGED <<store, lanes, expired, version, undo, shown, owed>>

Clear ==
    /\ MayStart(UI)
    /\ deleted' = NoClip
    /\ volatile' = <<>>
    /\ Queued(UI, "clear", NoClip, TRUE)
    /\ UNCHANGED <<store, origins, expired, version, slot, shown, owed>>

SetPinned ==
    /\ \E c \in gui, job \in {"pin", "unpin"} :
          /\ MayStart(UI)
          /\ ~IsMemoryOnly(c)
          /\ Queued(UI, job, c, FALSE)
    /\ UNCHANGED <<store, lanes, expired, version, undo, shown, owed>>

(***************************************************************************)
(* Maintenance.  try_execute gives up when any job is pending.             *)
(***************************************************************************)
OwnerFree == queue = <<>>

RefreshForMemory ==
    /\ MayStart(Maintenance) /\ OwnerFree
    /\ Queued(Maintenance, "trim", NoClip, FALSE)
    /\ UNCHANGED <<store, lanes, expired, version, undo, shown, owed>>

\* purge_expired_volatile, then the undo original's five seconds.
PurgeVolatile ==
    LET kept == Keeping(volatile, Clips \ expired)
    IN  /\ MayStart(Maintenance)
        /\ volatile' = kept
        /\ deleted' \in {deleted} \cup (IF slot = NoClip THEN {NoClip} ELSE {})
        /\ op' = [op EXCEPT ![Maintenance] =
                      Begun("pruning", "maintain", NoClip, NoClip, kept # volatile)]
        /\ UNCHANGED <<store, origins, expired, version, slot, queue, shown, owed>>

\* HistoryEvent::PruneExpired carries no version.
PublishPrune ==
    LET o == op[Maintenance]
    IN  /\ o.at = "pruning"
        /\ gui' = Live(gui)
        /\ op' = [op EXCEPT ![Maintenance] = [o EXCEPT !.at = "pruned"]]
        /\ UNCHANGED <<store, lanes, expired, version, undo, queue, latest, owed>>

MaintainStore ==
    LET o == op[Maintenance]
    IN  /\ o.at = "pruned"
        /\ IF OwnerFree
             THEN /\ queue' = <<Maintenance>>
                  /\ op' = [op EXCEPT ![Maintenance] = [o EXCEPT !.at = "queued"]]
             ELSE /\ op' = [op EXCEPT ![Maintenance] = Idle]
                  /\ UNCHANGED queue
        /\ UNCHANGED <<store, lanes, expired, version, undo, shown, owed>>

(***************************************************************************)
(* The owner thread runs the jobs in the order they were queued.           *)
(***************************************************************************)
\* insert, then enforce_cap: as many unprotected rows go as there are too many.  Which are
\* the oldest is open: an undone clip keeps its old place.
Inserted(c) ==
    LET all == rows \cup {c}
        loose == all \ pinned
        over == Cardinality(all) - MaxHistory
        count == IF over > Cardinality(loose) THEN Cardinality(loose) ELSE over
    IN  IF over <= 0 THEN {all}
        ELSE {all \ out : out \in {e \in SUBSET loose : Cardinality(e) = count}}

\* purge_expired, then an audit that may quarantine a row.
Maintained == {Live(rows) \ bad : bad \in {{}} \cup {{r} : r \in Live(rows)}}

Applied(job, c) ==
    CASE job = "insert" -> Inserted(c)
      [] job = "delete" -> {rows \ {c}}
      [] job = "clear" -> {rows \cap pinned}
      [] job = "maintain" -> Maintained
      [] OTHER -> {rows}

Pinned(job, c) ==
    CASE job = "pin" -> (pinned \cup {c}) \cap rows
      [] job = "unpin" -> pinned \ {c}
      [] OTHER -> pinned

\* Maintenance publishes clips only when it changed what the window shows.
Publishes(o, kept) == o.job = "maintain" => o.lane \/ kept # rows

\* find looks the clip up; a clone needs its source, a deletion only keeps the original.
Looked(o) ==
    IF o.job = "find" THEN
        [o EXCEPT !.at = "found", !.original = IF o.clip \in rows THEN o.clip ELSE NoClip]
    ELSE IF o.original \in rows THEN [o EXCEPT !.at = "found", !.original = NoClip]
    ELSE Idle

RunFind ==
    /\ queue # <<>>
    /\ LET t == Head(queue)
       IN  /\ op[t].job \in {"find", "find to clone"}
           /\ op' = [op EXCEPT ![t] = Looked(op[t])]
    /\ queue' = Tail(queue)
    /\ UNCHANGED <<store, lanes, expired, version, undo, shown, owed>>

RunJob ==
    /\ queue # <<>>
    /\ LET t == Head(queue)
           o == op[t]
       IN  /\ o.job \notin {"find", "find to clone"}
           /\ \E kept \in Applied(o.job, o.clip) :
                LET ver == IF Publishes(o, kept) THEN version + 1 ELSE 0
                IN  /\ rows' = kept
                    /\ pinned' = Pinned(o.job, o.clip) \cap kept
                    /\ version' = IF ver = 0 THEN version ELSE ver
                    /\ op' = [op EXCEPT ![t] = [o EXCEPT !.at = "loaded", !.ver = ver,
                                                         !.clips = Live(kept)]]
    /\ queue' = Tail(queue)
    /\ UNCHANGED <<lanes, expired, undo, shown, owed>>

\* A job fails before, between or after its commits, and its operation publishes nothing.
JobFails ==
    /\ Failures /\ queue # <<>>
    /\ LET t == Head(queue)
           o == op[t]
           half == IF o.job = "insert" THEN {rows, rows \cup {o.clip}} ELSE {rows}
       IN  /\ \E kept \in half \cup Applied(o.job, o.clip) :
                /\ rows' = kept
                /\ pinned' = pinned \cap kept
                /\ owed' = IF (o.lane /\ o.job # "maintain") \/ Live(kept) # Live(rows)
                             THEN version + 1 ELSE owed
           /\ op' = [op EXCEPT ![t] = Idle]
    /\ queue' = Tail(queue)
    /\ UNCHANGED <<lanes, expired, version, undo, shown>>

(***************************************************************************)
(* Back on the calling thread: merge_volatile, then the event, each under  *)
(* a lock of its own.                                                      *)
(***************************************************************************)
Merge(t) ==
    LET o == op[t]
    IN  /\ o.at = "loaded"
        /\ op' = [op EXCEPT ![t] = [o EXCEPT !.at = "merged",
                                             !.clips = IF o.ver = 0 THEN {} ELSE @ \cup VolatileIds]]
        /\ UNCHANGED <<store, lanes, expired, version, undo, queue, shown, owed>>

\* Mutant: snapshots are applied in the order they arrive.
PresentInOrder(o) ==
    IF o.ver = 0
      THEN UNCHANGED <<shown, owed>>
      ELSE /\ gui' = Live(o.clips)
           /\ latest' = version
           /\ owed' = IF o.ver >= owed THEN 0 ELSE owed

\* The presenter: an event without a version carries no clips, a snapshot older than
\* the latest is dropped.
Present(o) ==
    IF o.ver = 0 \/ o.ver < latest
      THEN UNCHANGED <<shown, owed>>
      ELSE /\ gui' = Live(o.clips)
           /\ latest' = o.ver
           /\ owed' = IF o.ver >= owed THEN 0 ELSE owed

Publish(t) ==
    LET o == op[t]
    IN  /\ o.at = "merged"
        /\ Present(o)
        /\ deleted' = IF o.job = "delete" THEN o.original ELSE deleted
        /\ op' = [op EXCEPT ![t] = Idle]
        /\ UNCHANGED <<store, lanes, expired, version, slot, queue>>

(***************************************************************************)
(* Time passes.                                                            *)
(***************************************************************************)
Expires ==
    /\ \E c \in Mortal \ expired : expired' = expired \cup {c}
    /\ UNCHANGED <<store, lanes, version, undo, queue, op, shown, owed>>

Next ==
    \/ CaptureDurable \/ CaptureSecret
    \/ Delete \/ Found \/ RestoreSecret \/ RestoreDurable \/ SlotExpires
    \/ CloneVolatile \/ FindToClone \/ Clear \/ SetPinned
    \/ RefreshForMemory \/ PurgeVolatile \/ PublishPrune \/ MaintainStore
    \/ RunFind \/ RunJob \/ JobFails
    \/ \E t \in Threads : AddVolatile(t) \/ Merge(t) \/ Publish(t)
    \/ Expires

Spec == Init /\ [][Next]_vars

(***************************************************************************)
(* Properties.                                                             *)
(***************************************************************************)
\* Types, and the bounds on the two lanes, whatever the threads do between the two locks.
TypeOK ==
    /\ rows \subseteq Clips /\ pinned \subseteq rows
    /\ volatile \in BoundedSeq(Clips, MaxVolatile)
    /\ origins \in BoundedSeq(Clips, MaxOrigins)
    /\ expired \subseteq Mortal
    /\ version \in 0 .. MaxVersion + 3 /\ latest \in 0 .. version
    /\ owed \in 0 .. version + 1
    /\ deleted \in MaybeClip /\ slot \in MaybeClip
    /\ queue \in BoundedSeq(Threads, 3)
    /\ op \in [Threads -> Op]
    /\ gui \subseteq Clips

\* A clip of the memory-only lane never reaches the database: not by its capture, nor by
\* its clone, nor by the undo of its deletion (History::is_memory_only asks the origins,
\* which outlive the lane).
SecretsNeverStored == rows \cap Secrets = {}

\* The bounded lane and its origins keep their types and their secrets (History::prepend_memory).
HistorySafety == TypeOK /\ SecretsNeverStored

\* When no operation is in progress the window shows exactly the store and the lane: no
\* deleted clip lingers and no stored clip is missing, in whatever order the snapshots
\* arrived, unless a failed operation left a change unannounced.
Converged == AllIdle /\ owed = 0 => Live(gui) = Live(rows) \cup VolatileIds

=============================================================================
