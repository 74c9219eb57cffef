----------------------------- MODULE CaptureLoop -----------------------------
(***************************************************************************)
(* The resident capture worker (src/capture.rs: spawn, run_worker), the     *)
(* supervisor that restarts it, and the paste coordinator's copy()          *)
(* (src/paste.rs), which writes the same clipboard from the event-loop      *)
(* thread under the self-write ledger's mutex.                               *)
(*                                                                           *)
(* Contents stand for content hashes.  What CapturePolicy::decide says of a *)
(* content that is not a self write is the constant Verdict.  The worker's  *)
(* iteration is cut where it can be interleaved: after the pause check,     *)
(* after the read, before it takes the ledger mutex, and at the insert.     *)
(***************************************************************************)
EXTENDS Naturals, Sequences

CONSTANTS
    Contents,         \* what the clipboard can hold, by content hash
    Empty,            \* an empty clipboard; also None
    Verdict,          \* [Contents -> Verdicts]
    Heavy,            \* contents larger than the soft limit under pressure
    HasText,          \* contents with a text flavor to preview
    Loads,            \* memory pressure levels that occur
    OwnClips,         \* what vbuff writes: clips of its history
    ReadBack,         \* [OwnClips -> Contents]: the hash a written clip reads as
    MaxReadFailures,  \* MAX_CONSECUTIVE_READ_FAILURES
    RecoveryWindow,   \* SKIP_RECOVERY_WINDOW_MS, in ticks
    ShedRetry,        \* SHED_RETRY_INTERVAL, in ticks
    ResubscribeLimit, RestartLimit,
    Ttl,              \* SelfWriteLedger::ttl, in ticks
    Capacity          \* SelfWriteLedger::capacity

\* "lost" stands for the gate's Loss reasons, and for a capture rule that
\* leaves no realized flavor.
Verdicts == {"capture", "skip", "skip_recoverable", "lost"}

ASSUME ContentAssumption ==
    /\ Empty \notin Contents
    /\ Verdict \in [Contents -> Verdicts]
    /\ Heavy \subseteq Contents /\ HasText \subseteq Contents
    /\ "normal" \in Loads /\ Loads \subseteq {"normal", "soft", "hard"}
    /\ OwnClips \subseteq Contents /\ ReadBack \in [OwnClips -> Contents]
ASSUME BoundAssumption ==
    /\ MaxReadFailures \in Nat \ {0}
    /\ RecoveryWindow \in Nat \ {0}
    /\ ShedRetry \in Nat \ {0}
    /\ Ttl \in Nat \ {0} /\ Capacity \in Nat \ {0}
    /\ ResubscribeLimit \in Nat \ {0} /\ RestartLimit \in Nat \ {0}

VARIABLES
    clipboard,    \* the system clipboard
    paused,       \* the AtomicBool the tray toggles
    load,         \* memory pressure: "normal", "soft" or "hard"
    ledger,       \* the shared SelfWriteLedger
    copying,      \* the clip copy() holds the ledger mutex for, or Empty
    placed,       \* copy() has written it and not yet registered it
    pc,           \* the worker: "down", "poll", "read", "judge", "gate", "insert"
    seen,         \* the content of this iteration's read
    explicit,     \* explicit_recovery
    lastHash, readFailures, lastShed, skipped,      \* run_worker's locals
    failures, restarts, action,                     \* CaptureSupervisor
    offer,        \* ticks the recovery offer stays on screen, 0 for none
    asked,        \* Diagnostics::recover_skipped
    saved,        \* the contents History::insert accepted
    outcomes,     \* the contents with a recorded capture or intentional skip
    fresh,        \* ghost: ticks the clipboard is surely a self write
    seenFresh,    \* ghost: the same for what was read
    clicks        \* ghost: recovery clicks not yet used up

Sup == INSTANCE CaptureSupervisor

desktop == <<clipboard, paused, load>>
copier == <<ledger, copying, placed>>
local == <<lastHash, readFailures, lastShed, skipped>>
sup == <<failures, restarts, action>>
shared == <<offer, asked>>
captureVars == <<desktop, copier, pc, seen, explicit, local, sup, shared, saved,
          outcomes, fresh, seenFresh, clicks>>

NoShed == [hash |-> Empty, left |-> 0]
NoSkip == [hash |-> Empty, recoverable |-> FALSE, left |-> 0]

Entries == [hash : Contents, left : 0..Ttl]

CaptureTypeOK ==
    /\ clipboard \in Contents \union {Empty}
    /\ paused \in BOOLEAN
    /\ load \in Loads
    /\ ledger \in Seq(Entries) /\ Len(ledger) <= Capacity
    /\ copying \in OwnClips \union {Empty}
    /\ placed \in BOOLEAN
    /\ pc \in {"down", "poll", "read", "judge", "gate", "insert"}
    /\ seen \in Contents \union {Empty}
    /\ explicit \in BOOLEAN
    /\ lastHash \in Contents \union {Empty}
    /\ readFailures \in 0..(MaxReadFailures - 1)
    /\ lastShed \in [hash : Contents \union {Empty}, left : 0..ShedRetry]
    /\ skipped \in [hash : Contents \union {Empty}, recoverable : BOOLEAN,
                    left : 0..RecoveryWindow]
    /\ Sup!SupTypeOK
    /\ offer \in 0..RecoveryWindow
    /\ asked \in BOOLEAN
    /\ saved \in SUBSET Contents
    /\ outcomes \in SUBSET Contents
    /\ fresh \in 0..Ttl /\ seenFresh \in 0..Ttl
    /\ clicks \in {0, 1}

CaptureInit ==
    /\ clipboard = Empty /\ paused = FALSE /\ load = "normal"
    /\ ledger = <<>> /\ copying = Empty /\ placed = FALSE
    /\ pc = "down" /\ seen = Empty /\ explicit = FALSE
    /\ lastHash = Empty /\ readFailures = 0 /\ lastShed = NoShed
    /\ skipped = NoSkip
    /\ Sup!SupInit
    /\ offer = 0 /\ asked = FALSE
    /\ saved = {} /\ outcomes = {}
    /\ fresh = 0 /\ seenFresh = 0 /\ clicks = 0

-----------------------------------------------------------------------------
(* SelfWriteLedger: what vbuff itself put on the clipboard within the last   *)
(* Ttl.  An entry keeps the ticks that remain until expires_at; the nonce is  *)
(* left out because the shipping backend's reads never carry one              *)
(* (CapturedClipboard::default()).                                            *)

\* prune: drop expired writes from the front, and only from the front.
Prune(writes) ==
    LET live == {i \in 1..Len(writes) : writes[i].left > 0}
        front == CHOOSE i \in live : \A j \in live : i <= j
    IN  IF live = {} THEN <<>> ELSE SubSeq(writes, front, Len(writes))

Evicted(writes) == IF Len(Prune(writes)) = Capacity THEN {Head(Prune(writes)).hash} ELSE {}

\* register
Register(writes, hash) ==
    LET kept == Prune(writes)
    IN  Append(IF Len(kept) = Capacity THEN Tail(kept) ELSE kept,
               [hash |-> hash, left |-> Ttl])

\* matches, after its prune: expiry of the entries behind the front is not
\* looked at again.
Matches(writes, hash) ==
    \E i \in DOMAIN Prune(writes) : Prune(writes)[i].hash = hash

\* Instant::now() moves on by one tick.
Aged(writes) ==
    [i \in DOMAIN writes |->
        [writes[i] EXCEPT !.left = IF @ > 0 THEN @ - 1 ELSE 0]]

-----------------------------------------------------------------------------
(* The desktop and the user *)

\* Another application puts c on the clipboard, or clears it.
AppCopies(c) ==
    /\ clipboard' = c
    /\ fresh' = 0
    /\ UNCHANGED <<paused, load, copier, pc, seen, explicit, local, sup, shared,
                   saved, outcomes, seenFresh, clicks>>

\* toggle_pause
TogglePause ==
    /\ paused' = ~paused
    /\ UNCHANGED <<clipboard, load, copier, pc, seen, explicit, local, sup,
                   shared, saved, outcomes, fresh, seenFresh, clicks>>

\* memory_pressure::response tightens or relaxes the byte limits.
LoadChanges(l) ==
    /\ load' = l
    /\ UNCHANGED <<clipboard, paused, copier, pc, seen, explicit, local, sup,
                   shared, saved, outcomes, fresh, seenFresh, clicks>>

\* Diagnostics::request_skipped_recovery: the offer is single use.
ClickRecover ==
    /\ offer > 0
    /\ offer' = 0
    /\ asked' = TRUE
    /\ clicks' = 1
    /\ UNCHANGED <<desktop, copier, pc, seen, explicit, local, sup, saved,
                   outcomes, fresh, seenFresh>>

Less(n) == IF n > 0 THEN n - 1 ELSE 0

\* The monotonic clock advances under every deadline at once.
Tick ==
    /\ fresh + seenFresh + lastShed.left + skipped.left + offer > 0
       \/ \E i \in DOMAIN ledger : ledger[i].left > 0
    /\ ledger' = Aged(ledger)
    /\ lastShed' = [lastShed EXCEPT !.left = Less(@)]
    /\ skipped' = [skipped EXCEPT !.left = Less(@)]
    /\ offer' = Less(offer)
    /\ fresh' = Less(fresh) /\ seenFresh' = Less(seenFresh)
    /\ UNCHANGED <<desktop, copying, placed, pc, seen, explicit, lastHash,
                   readFailures, sup, asked, saved, outcomes, clicks>>

-----------------------------------------------------------------------------
(* PasteCoordinator::copy, on the event-loop thread *)

\* The ledger mutex is taken before the clipboard write ...
CopyLocks(c) ==
    /\ copying = Empty
    /\ copying' = c
    /\ UNCHANGED <<desktop, ledger, placed, pc, seen, explicit, local, sup,
                   shared, saved, outcomes, fresh, seenFresh, clicks>>

CopyPlaces ==
    /\ copying # Empty /\ ~placed
    /\ clipboard' = ReadBack[copying]
    /\ placed' = TRUE
    /\ fresh' = Ttl
    /\ UNCHANGED <<paused, load, ledger, copying, pc, seen, explicit, local, sup,
                   shared, saved, outcomes, seenFresh, clicks>>

\* The write is refused, fails halfway, or is reported as failed after it went
\* through: whatever it left on the clipboard is not registered.
CopyFails ==
    /\ copying # Empty /\ ~placed
    /\ copying' = Empty
    /\ clipboard' \in {clipboard, ReadBack[copying], Empty}
    /\ fresh' = IF clipboard' = clipboard THEN fresh ELSE 0
    /\ UNCHANGED <<paused, load, ledger, placed, pc, seen, explicit, local, sup,
                   shared, saved, outcomes, seenFresh, clicks>>

\* ... and released after the write is registered.  A full ledger forgets its
\* oldest write, which then may be captured.
CopyRegisters ==
    /\ placed
    /\ ledger' = Register(ledger, copying)
    /\ copying' = Empty
    /\ placed' = FALSE
    /\ seenFresh' = IF seen \in Evicted(ledger) THEN 0 ELSE seenFresh
    /\ UNCHANGED <<desktop, pc, seen, explicit, local, sup, shared, saved,
                   outcomes, fresh, clicks>>

-----------------------------------------------------------------------------
(* The worker *)

\* The end of an iteration; the values only it uses are forgotten.
BackToPoll == pc' = "poll" /\ seen' = Empty /\ explicit' = FALSE /\ seenFresh' = 0

\* run_worker returned or panicked: its locals are gone.
WorkerGone ==
    /\ pc' = "down" /\ seen' = Empty /\ explicit' = FALSE /\ seenFresh' = 0
    /\ lastHash' = Empty /\ readFailures' = 0 /\ lastShed' = NoShed /\ skipped' = NoSkip

\* After the recovery delay the supervisor thread runs run_worker again.
WorkerStarts ==
    /\ pc = "down"
    /\ pc' = "poll"
    /\ UNCHANGED <<desktop, copier, seen, explicit, local, sup, shared, saved,
                   outcomes, fresh, seenFresh, clicks>>

\* system_clipboard() fails: BackendUnavailable.
WorkerUnavailable ==
    /\ pc = "down"
    /\ Sup!SubscriptionLost
    /\ UNCHANGED <<desktop, copier, pc, seen, explicit, local, shared, saved,
                   outcomes, fresh, seenFresh, clicks>>

\* A paused iteration only slows the scheduler down; an unpaused one goes on
\* to read, whatever paused becomes after this check.
PollUnpaused ==
    /\ pc = "poll" /\ ~paused
    /\ pc' = "read"
    /\ UNCHANGED <<desktop, copier, seen, explicit, local, sup, shared, saved,
                   outcomes, fresh, seenFresh, clicks>>

ReadOk ==
    /\ pc = "read"
    /\ readFailures' = 0
    /\ Sup!Recovered
    /\ IF clipboard = Empty
         THEN BackToPoll
         ELSE /\ pc' = "judge" /\ seen' = clipboard /\ seenFresh' = fresh
              /\ UNCHANGED explicit
    /\ UNCHANGED <<desktop, copier, lastHash, lastShed, skipped, shared, saved,
                   outcomes, fresh, clicks>>

ReadError ==
    /\ pc = "read"
    /\ IF readFailures + 1 < MaxReadFailures
         THEN /\ readFailures' = readFailures + 1
              /\ BackToPoll
              /\ UNCHANGED <<lastHash, lastShed, skipped, sup>>
         ELSE WorkerGone /\ Sup!SubscriptionLost
    /\ UNCHANGED <<desktop, copier, shared, saved, outcomes, fresh, clicks>>

\* The gate's verdict may be overridden once for exactly what it last skipped.
MayRecover == asked /\ skipped.recoverable /\ skipped.left > 0 /\ skipped.hash = seen

\* take_skipped_recovery: the request is swapped out, used or not.
\* Defective variant: it is only looked at.
RequestStays == UNCHANGED asked
RequestTaken == asked' = FALSE

\* What is already stored, or was just shed, is not looked at again.
Stable ==
    /\ ~MayRecover
    /\ lastHash = seen \/ (lastShed.hash = seen /\ lastShed.left > 0)

Judge ==
    /\ pc = "judge"
    /\ RequestTaken
    /\ clicks' = IF MayRecover THEN 0 ELSE clicks
    /\ IF Stable
         THEN BackToPoll /\ UNCHANGED lastShed
         ELSE /\ pc' = "gate" /\ explicit' = MayRecover
              /\ lastShed' = IF MayRecover THEN lastShed ELSE NoShed
              /\ UNCHANGED <<seen, seenFresh>>
    /\ UNCHANGED <<desktop, copier, lastHash, readFailures, skipped, sup, offer,
                   saved, outcomes, fresh>>

\* The ledger is consulted under its mutex, which copy() may hold.
\* Defective variant: the worker does not wait for copy() to release it.
LedgerReadAnytime == TRUE
LedgerFree == copying = Empty
SelfWrite == Matches(ledger, seen)

Lost == ~SelfWrite /\ ~explicit /\ Verdict[seen] = "lost"
Gated == SelfWrite \/ (~explicit /\ Verdict[seen] \in {"skip", "skip_recoverable"})
Recoverable == ~SelfWrite /\ Verdict[seen] = "skip_recoverable"

\* The policy skips the read: an intentional outcome, remembered in last_hash
\* and in the ring of skipped captures.
GateSkips ==
    /\ pc = "gate" /\ LedgerFree
    /\ Gated
    /\ ledger' = Prune(ledger)
    /\ skipped' = [hash |-> seen, recoverable |-> Recoverable, left |-> RecoveryWindow]
    /\ offer' = IF Recoverable THEN RecoveryWindow ELSE 0
    /\ lastHash' = seen
    /\ outcomes' = outcomes \union {seen}
    /\ BackToPoll
    /\ UNCHANGED <<desktop, copying, placed, readFailures, lastShed, sup, asked,
                   saved, fresh, clicks>>

\* A Loss is not remembered, so the read is judged again on the next poll.  The
\* policy's own losses enter the ring of skipped captures; an emptied one not.
GateLoses ==
    /\ pc = "gate" /\ LedgerFree
    /\ Lost
    /\ ledger' = Prune(ledger)
    /\ \/ /\ skipped' = [hash |-> seen, recoverable |-> FALSE, left |-> RecoveryWindow]
          /\ offer' = 0
       \/ UNCHANGED <<skipped, offer>>
    /\ BackToPoll
    /\ UNCHANGED <<desktop, copying, placed, lastHash, readFailures, lastShed, sup,
                   asked, saved, outcomes, fresh, clicks>>

\* ByteBackpressure::admit and shed_to_text_preview under the current load.
Admitted ==
    \/ load = "normal" \/ seen \notin Heavy
    \/ load = "soft" /\ seen \in HasText

GateAdmits ==
    /\ pc = "gate" /\ LedgerFree
    /\ ~Gated /\ ~Lost /\ Admitted
    /\ ledger' = Prune(ledger)
    /\ pc' = "insert"
    /\ UNCHANGED <<desktop, copying, placed, seen, explicit, local, sup, shared,
                   saved, outcomes, fresh, seenFresh, clicks>>

\* Too large for now: not remembered, so it is tried again after ShedRetry.
\* Defective variant: the shed content is remembered as if it had been stored.
ShedRemembered ==
    /\ lastShed' = [hash |-> seen, left |-> ShedRetry]
    /\ lastHash' = seen
Shed ==
    /\ lastShed' = [hash |-> seen, left |-> ShedRetry]
    /\ UNCHANGED lastHash

GateSheds ==
    /\ pc = "gate" /\ LedgerFree
    /\ ~Gated /\ ~Lost /\ ~Admitted
    /\ ledger' = Prune(ledger)
    /\ Shed
    /\ BackToPoll
    /\ UNCHANGED <<desktop, copying, placed, readFailures, skipped, sup, shared,
                   saved, outcomes, fresh, clicks>>

InsertOk ==
    /\ pc = "insert"
    /\ saved' = saved \union {seen}
    /\ outcomes' = outcomes \union {seen}
    /\ lastHash' = seen
    /\ lastShed' = NoShed
    /\ offer' = 0
    /\ BackToPoll
    /\ UNCHANGED <<desktop, copier, readFailures, skipped, sup, asked, fresh, clicks>>

\* "Keep the previous hash so the same clipboard is retried on the next poll".
\* Defective variant: the hash is remembered whatever History::insert answered.
InsertErrRemembers ==
    /\ pc = "insert"
    /\ lastHash' = seen
    /\ BackToPoll
    /\ UNCHANGED <<desktop, copier, readFailures, lastShed, skipped, sup, shared,
                   saved, outcomes, fresh, clicks>>
InsertErr ==
    /\ pc = "insert"
    /\ BackToPoll
    /\ UNCHANGED <<desktop, copier, local, sup, shared, saved, outcomes, fresh,
                   clicks>>

\* catch_unwind: a panic anywhere in the iteration, except while the thread
\* is blocked on the ledger mutex.
WorkerPanics ==
    /\ pc # "down"
    /\ pc = "gate" => LedgerFree
    /\ WorkerGone
    /\ Sup!BackendFailed
    /\ UNCHANGED <<desktop, copier, shared, saved, outcomes, fresh, clicks>>

-----------------------------------------------------------------------------
Desktop ==
    \/ \E c \in Contents \union {Empty} : AppCopies(c)
    \/ TogglePause
    \/ \E l \in Loads : LoadChanges(l)
    \/ ClickRecover

Copy == (\E c \in OwnClips : CopyLocks(c)) \/ CopyPlaces \/ CopyFails \/ CopyRegisters

Worker ==
    \/ WorkerStarts \/ WorkerUnavailable
    \/ PollUnpaused \/ ReadOk \/ ReadError
    \/ Judge \/ GateSkips \/ GateLoses \/ GateAdmits \/ GateSheds
    \/ InsertOk \/ InsertErr \/ WorkerPanics

CaptureNext == Desktop \/ Tick \/ Copy \/ Worker

\* The clock advances, copy() returns, and every failure the worker retries
\* (an unavailable backend, a read, an insert, a panic) is intermittent.
Fairness ==
    /\ WF_captureVars(Tick)
    /\ WF_captureVars(CopyPlaces \/ CopyFails) /\ WF_captureVars(CopyRegisters)
    /\ SF_captureVars(WorkerStarts) /\ SF_captureVars(PollUnpaused) /\ SF_captureVars(ReadOk)
    /\ SF_captureVars(Judge) /\ SF_captureVars(GateSkips) /\ SF_captureVars(GateLoses)
    /\ SF_captureVars(GateAdmits) /\ SF_captureVars(GateSheds) /\ SF_captureVars(InsertOk)

CaptureSpec == CaptureInit /\ [][CaptureNext]_captureVars
FairSpec == CaptureSpec /\ Fairness

-----------------------------------------------------------------------------
(* Properties *)

\* A clip a copy() that succeeds put on the clipboard less than Ttl ago is never
\* captured as a new copy, wherever copy()'s lock, write and register fall between the
\* worker's read and its gate, unless newer writes pushed it out of the ledger.
SelfWriteNotRecaptured ==
    [][pc = "gate" /\ pc' = "insert" => seenFresh = 0]_captureVars

\* The worker only stops looking at a content whose capture or intentional
\* skip was recorded: no failed insert, shed or restart loses it silently.
RememberedIsAccounted == lastHash # Empty => lastHash \in outcomes

\* The worker's memory of what it saw (run_worker) keeps its types and is accounted for.
CaptureSafety == CaptureTypeOK /\ RememberedIsAccounted

\* One click on "recover" lets at most one gated content through.
OneRecoveryPerClick == [][~explicit /\ explicit' => clicks = 1]_captureVars

\* A copy that stays on the clipboard while capture runs is stored in the end,
\* through failed reads and inserts, panics, restarts, sheds and their retry
\* delay, and whatever vbuff itself wrote before.
SettledCopyIsStored ==
    \A c \in {d \in Contents : Verdict[d] = "capture"} \ {ReadBack[k] : k \in OwnClips} :
        <>[](clipboard = c /\ ~paused /\ load = "normal") => <>(c \in saved)
=============================================================================
