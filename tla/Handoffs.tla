------------------------------- MODULE Handoffs -------------------------------
(***************************************************************************)
(* An item on its way to other devices: the outbox with its retries          *)
(* (device_experience/outbox.rs), and burn after reading with its wipe       *)
(* receipts (burn.rs, ledger.rs).  The network loses answers, repeats and    *)
(* delays.                                                                   *)
(***************************************************************************)
EXTENDS Integers, FiniteSets

CONSTANTS
    Peers,          \* the devices an item is sent to
    MaxRetries,     \* 8
    MaxEpoch        \* bound: epochs of burn sessions

ASSUME HandoffAssumption == MaxRetries \in Nat \ {0} /\ MaxEpoch \in Nat

VARIABLES
    outbox,      \* [peer -> [status, attempts]]
    reached,     \* ghost: the peers the item was delivered to, as they know it
    burn,        \* [epoch, state, wiped] of the session
    copies,      \* the peers that hold a copy of the session's item
    receipts,    \* receipts under way: [device, epoch]; one may be used again
    pastes       \* ghost: how often the burning item was pasted 

outVars == <<outbox, reached>>
burnVars == <<burn, copies, receipts, pastes>>
handVars == <<outVars, burnVars>>

HandInit ==
    /\ outbox = [p \in {} |-> {}] /\ reached = {}
    /\ burn = [epoch |-> 0, state |-> "complete", wiped |-> {}] /\ copies = {} /\ receipts = {} /\ pastes = 0

-----------------------------------------------------------------------------
(* SyncOutbox *)

\* Defective variant of Open: a late failure reopens what was delivered.
OpenUnlessFailed(p) == p \in DOMAIN outbox /\ outbox[p].status # "failed"

Open(p) == p \in DOMAIN outbox /\ outbox[p].status \in {"pending", "waiting"}

\* enqueue, where an event is one item for one peer
Enqueue(p) ==
    /\ p \notin DOMAIN outbox
    /\ outbox' = [q \in DOMAIN outbox \cup {p} |->
                    IF q = p THEN [status |-> "pending", attempts |-> 0] ELSE outbox[q]]
    /\ UNCHANGED reached

\* record_retry: an attempt failed, as far as the sender knows.
RecordRetry(p, arrives) ==
    /\ Open(p)
    /\ LET n == outbox[p].attempts + 1 IN
         outbox' = [outbox EXCEPT ![p] =
                      [status |-> IF n >= MaxRetries THEN "failed" ELSE "waiting", attempts |-> n]]
    /\ reached' = IF arrives THEN reached \cup {p} ELSE reached

MarkDelivered(p) ==
    /\ Open(p)
    /\ outbox' = [outbox EXCEPT ![p].status = "delivered"]
    /\ reached' = reached \cup {p}

OutNext == \E p \in Peers : Enqueue(p) \/ MarkDelivered(p) \/ \E arrives \in BOOLEAN : RecordRetry(p, arrives)

-----------------------------------------------------------------------------
(* BurnSession: one at a time, each in an epoch of its own *)

NewSession ==
    /\ burn.state = "complete" /\ burn.epoch < MaxEpoch
    /\ burn' = [epoch |-> burn.epoch + 1, state |-> "armed", wiped |-> {}]
    /\ copies' = Peers /\ pastes' = 0 /\ UNCHANGED receipts

Delivered ==
    /\ burn.state = "armed" /\ burn' = [burn EXCEPT !.state = "delivered"]
    /\ UNCHANGED <<copies, receipts, pastes>>

PastedOnce ==
    /\ burn.state = "delivered" /\ burn' = [burn EXCEPT !.state = "pasted"]
    /\ pastes' = pastes + 1 /\ UNCHANGED <<copies, receipts>>

BeginWipe ==
    /\ burn.state = "pasted" /\ burn' = [burn EXCEPT !.state = "wiping"]
    /\ UNCHANGED <<copies, receipts, pastes>>

\* A device wipes its copy and signs that it did (issue_wipe_receipt).
Wipe(p) ==
    /\ burn.state = "wiping" /\ p \in copies
    /\ copies' = copies \ {p} /\ receipts' = receipts \cup {[device |-> p, epoch |-> burn.epoch]}
    /\ UNCHANGED <<burn, pastes>>

Matches(r) == burn.state = "wiping" /\ r.epoch = burn.epoch /\ r.device \in Peers

AcceptReceipt(r) ==
    /\ Matches(r)
    /\ LET wiped == burn.wiped \cup {r.device} IN
         burn' = [burn EXCEPT !.wiped = wiped, !.state = IF wiped = Peers THEN "complete" ELSE @]
    /\ UNCHANGED <<copies, receipts, pastes>>

BurnNext ==
    \/ NewSession \/ Delivered \/ PastedOnce \/ BeginWipe
    \/ \E p \in Peers : Wipe(p)
    \/ \E r \in receipts : AcceptReceipt(r)

HandNext == (OutNext /\ UNCHANGED burnVars) \/ (BurnNext /\ UNCHANGED outVars)

-----------------------------------------------------------------------------
\* A session is complete only when no device holds the item any more, whatever
\* receipts of earlier sessions still arrive, and the item was pasted once
\* (BurnSession::accept_receipt, pasted_once).
CompleteIsWiped == burn.state = "complete" => copies = {} /\ (burn.epoch > 0 => pastes = 1)

\* What the outbox calls delivered has arrived, and an event is given up after
\* its last attempt, not before (SyncOutbox).
OutboxIsHonest ==
    \A p \in DOMAIN outbox :
        /\ outbox[p].status = "delivered" => p \in reached
        /\ outbox[p].status = "failed" <=> outbox[p].attempts = MaxRetries

\* What is delivered or given up is not touched again (mark_delivered, record_retry).
SettledIsFinal ==
    [][\A p \in DOMAIN outbox :
         outbox[p].status \in {"delivered", "failed"} => outbox'[p] = outbox[p]]_outVars

HandSafety == CompleteIsWiped /\ OutboxIsHonest
=============================================================================
