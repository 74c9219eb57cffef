----------------------------- MODULE TrustedGroup -----------------------------
(***************************************************************************)
(* The devices that trust each other: the signed membership log              *)
(* (vbuff-sync/src/membership.rs over chain.rs), its revocations with a new  *)
(* group key, and the two other logs of the same chain, the sync ledger      *)
(* (ledger.rs) and the custody of an item (provenance.rs).  A device takes   *)
(* over any longer log that continues its own and verifies.  Signatures and  *)
(* hashes hold: a device signs with the key it registered last.              *)
(***************************************************************************)
EXTENDS Integers, Sequences, SequencesExt

CONSTANTS
    GroupDevices,   \* device ids
    GroupMaxClock,  \* bound: clocks of membership entries
    MaxGroupLog,    \* MAX_MEMBERSHIP_ENTRIES
    MaxKeyEpoch,    \* u64::MAX
    MaxLedger       \* MAX_LEDGER_ENTRIES, MAX_CUSTODY_ENTRIES

ASSUME GroupAssumption ==
    {GroupMaxClock, MaxGroupLog, MaxKeyEpoch, MaxLedger} \subseteq Nat

VARIABLES
    log,         \* [device -> its copy of the membership log]
    epoch,       \* the epoch the owner has stored
    wrapped,     \* the transitions: [epoch, revoked, recipients, at]
    ledger,      \* entries [signer, kind]; sent, received and captured are kinds
    enrolled     \* ghost: the devices that were ever added by a verified entry

groupVars == <<log, epoch, wrapped, ledger, enrolled>>

\* One device begins the log by adding itself; the others have nothing yet.
GroupInit ==
    /\ log = [d \in GroupDevices |-> <<>>]
    /\ epoch = 0 /\ wrapped = {} /\ ledger = <<>> /\ enrolled = {}

NoState == [owner |-> {}, active |-> {}, clock |-> -1]

\* MembershipEntry::apply
AfterEntry(state, entry) ==
    [owner |-> IF state.owner = {} THEN {entry.by} ELSE state.owner,
     active |-> IF entry.action = "add" THEN state.active \cup {entry.device}
                ELSE state.active \ {entry.device},
     clock |-> entry.clock]

Replay(l) == FoldLeft(AfterEntry, NoState, l)

\* Defective variant of Admits: who authors an entry is only asked to be active.
AdmitsAnyMember(state, entry) ==
    /\ IF state.owner = {} THEN entry.action = "add" /\ entry.device = entry.by
       ELSE entry.by \in state.active
    /\ entry.clock > state.clock
    /\ (entry.action = "add") = (entry.device \notin state.active)

\* validate_entry_semantics and expected_signing_key
Admits(state, entry) ==
    /\ IF state.owner = {} THEN entry.action = "add" /\ entry.device = entry.by
       ELSE state.owner = {entry.by} /\ entry.by \in state.active
    /\ entry.clock > state.clock
    /\ (entry.action = "add") = (entry.device \notin state.active)

\* SignedChain::verify
Verifies(l) ==
    /\ Len(l) <= MaxGroupLog
    /\ \A i \in 1..Len(l) : Admits(Replay(SubSeq(l, 1, i - 1)), l[i])

Entry(action, device, by, clock) == [action |-> action, device |-> device, by |-> by, clock |-> clock]

\* append_change: the author appends to his own copy.
Appends(by, entry) == Len(log[by]) < MaxGroupLog /\ Admits(Replay(log[by]), entry)

AppendChange(by, action, device, clock) ==
    LET entry == Entry(action, device, by, clock) IN
    /\ Appends(by, entry)
    /\ log' = [log EXCEPT ![by] = Append(@, entry)]
    /\ enrolled' = IF action = "add" THEN enrolled \cup {device} ELSE enrolled
    /\ UNCHANGED <<epoch, wrapped, ledger>>

\* revoke_and_rekey: nothing is stored unless all of it can be.
RevokeAndRekey(by, device, clock) ==
    LET entry == Entry("revoke", device, by, clock)
        staged == Append(log[by], entry)
    IN
    /\ Verifies(log[by]) /\ device \in Replay(log[by]).active
    /\ Appends(by, entry) /\ epoch < MaxKeyEpoch
    /\ log' = [log EXCEPT ![by] = staged]
    /\ epoch' = epoch + 1
    /\ wrapped' = wrapped \cup
         {[epoch |-> epoch', revoked |-> device, recipients |-> Replay(staged).active, at |-> Len(staged)]}
    /\ UNCHANGED <<ledger, enrolled>>

\* A device adopts a log that continues its own.
Adopt(d, from) ==
    /\ Len(log[d]) < Len(log[from]) /\ IsPrefix(log[d], log[from]) /\ Verifies(log[from])
    /\ log' = [log EXCEPT ![d] = log[from]]
    /\ UNCHANGED <<epoch, wrapped, ledger, enrolled>>

\* append_event: the signer is one of the devices the verifier trusts, which are
\* the active members of his log; a custody event is signed by its device.
AppendEvent(d, signer, kind) ==
    /\ Len(ledger) < MaxLedger
    /\ signer \in Replay(log[d]).active
    /\ ledger' = Append(ledger, [signer |-> signer, kind |-> kind])
    /\ UNCHANGED <<log, epoch, wrapped, enrolled>>

\* A group has one founder: the others wait for his log.
Founds == \A d \in GroupDevices : log[d] = <<>>

GroupNext ==
    \/ \E by, device \in GroupDevices, action \in {"add", "revoke"}, clock \in 0..GroupMaxClock :
         (log[by] # <<>> \/ Founds) /\ AppendChange(by, action, device, clock)
    \/ \E by, device \in GroupDevices, clock \in 0..GroupMaxClock : RevokeAndRekey(by, device, clock)
    \/ \E d, from \in GroupDevices : Adopt(d, from)
    \/ \E d, signer \in GroupDevices, kind \in {"captured", "sent"} : AppendEvent(d, signer, kind)

-----------------------------------------------------------------------------
\* Every copy verifies: what one device appends, the others accept (append and
\* verify share expected_signing_key).
CopiesVerify == \A d \in GroupDevices : Verifies(log[d])

\* Two devices never hold logs that contradict each other: only the owner
\* appends, to one copy (validate_entry_semantics).
OneHistory ==
    \A d, e \in GroupDevices : IsPrefix(log[d], log[e]) \/ IsPrefix(log[e], log[d])

\* A group key is wrapped for the devices that are in the group when it is made,
\* and for no revoked one, and no two keys share an epoch (revoke_and_rekey).
KeysStayInGroup ==
    /\ \A t \in wrapped : \A d \in GroupDevices : t.at <= Len(log[d]) =>
         /\ t.recipients = Replay(SubSeq(log[d], 1, t.at)).active
         /\ t.revoked \notin t.recipients
    /\ \A t, u \in wrapped : t.epoch = u.epoch => t = u

\* Only devices somebody added are ever trusted to sign.
SignersAreEnrolled == \A i \in 1..Len(ledger) : ledger[i].signer \in enrolled

\* An owner who revoked himself has closed the log for good.
ClosedStaysClosed ==
    [][\A d \in GroupDevices :
         log[d] # <<>> /\ Replay(log[d]).owner \cap Replay(log[d]).active = {} =>
            log'[d] = log[d]]_groupVars

GroupSafety == CopiesVerify /\ OneHistory /\ KeysStayInGroup /\ SignersAreEnrolled
=============================================================================
