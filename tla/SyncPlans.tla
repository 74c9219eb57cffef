------------------------------ MODULE SyncPlans ------------------------------
(***************************************************************************)
(* What would be sent to a device and what is: the rehearsal of a pairing,   *)
(* the dry run, the replay plan and the transfer of one item                 *)
(* (vbuff-sync/src/device_experience/policy.rs), and the sealing gate with   *)
(* its rules and the device's lane (policy.rs).  The user may mark an item   *)
(* sensitive, or distrust the device, after the plan was shown to him.       *)
(***************************************************************************)
EXTENDS Integers, Sequences, FiniteSets, FiniteSetsExt, SequencesExt

CONSTANTS
    ItemChoices,   \* sequences of items [bytes, collection, sensitive, eligible, thumbnail]
    RuleChoices,   \* sequences of rules [decision, maxBytes, collection]
    LaneChoices,   \* lanes [collections, maxBytes]
    AnyCollection, \* a rule without a collection; an item in none
    MaxSelected    \* bound: maximum_items of a selection

SyncItems == [bytes : Nat, collection : STRING, sensitive : BOOLEAN, eligible : BOOLEAN,
              thumbnail : BOOLEAN]

ASSUME PlanAssumption ==
    /\ ItemChoices \subseteq Seq(SyncItems)
    /\ LaneChoices \subseteq [collections : SUBSET STRING, maxBytes : Nat]
    /\ MaxSelected \in Nat

Trusts == {"full", "receive", "send", "untrusted"}
Modes == {"full", "metadata", "demand"}

VARIABLES
    items, rules, lane,
    trust, mode,     \* of DeviceExperiencePolicy
    shown,           \* what the user was shown: the rehearsal and the estimate
    chosen,          \* the replay plan: [ids, bytes, skipped, limit]
    sent,            \* [item index -> "nothing", "metadata", "thumbnail", "payload"]
    fresh,           \* ghost: nothing has changed since the user was shown it
    wrongly          \* ghost: items sent while they were local or the device refused

planVars == <<items, rules, lane, trust, mode, shown, chosen, sent, fresh, wrongly>>

Unseen == [items |-> 0, bytes |-> 0, localOnly |-> 0, metadataFirst |-> 0]
NoChoice == [ids |-> <<>>, bytes |-> 0, skipped |-> 0, limit |-> 0]

PlanInit ==
    /\ items \in ItemChoices /\ rules \in RuleChoices /\ lane \in LaneChoices
    /\ trust \in Trusts /\ mode \in Modes
    /\ shown = [rehearsal |-> Unseen, estimate |-> Unseen]
    /\ chosen = NoChoice /\ fresh = FALSE /\ wrongly = {}
    /\ sent = [i \in DOMAIN items |-> "nothing"]

AcceptsFromLocal == trust \in {"full", "receive"}
LocalOnly(item) == item.sensitive \/ ~item.eligible

Transferable == {i \in DOMAIN items : ~LocalOnly(items[i])}

Bytes(S) == MapThenSumSet(LAMBDA i : items[i].bytes, S)

\* rehearse_pairing, for this device
Rehearsal ==
    LET leaves == IF AcceptsFromLocal THEN Transferable ELSE {} IN
    [items |-> Cardinality(leaves), bytes |-> Bytes(leaves),
     localOnly |-> Cardinality(DOMAIN items \ leaves),
     metadataFirst |-> IF mode = "full" THEN 0 ELSE Cardinality(leaves)]

\* estimate_sync, for this device alone
Estimate ==
    [items |-> Cardinality(Transferable), bytes |-> Bytes(Transferable),
     localOnly |-> Cardinality(DOMAIN items \ Transferable),
     metadataFirst |-> IF AcceptsFromLocal /\ mode # "full" THEN Cardinality(Transferable) ELSE 0]

Show ==
    /\ shown' = [rehearsal |-> Rehearsal, estimate |-> Estimate] /\ fresh' = TRUE
    /\ UNCHANGED <<items, rules, lane, trust, mode, chosen, sent, wrongly>>

\* plan_selective_replay: the selected items in order; it stops, and counts no
\* further, at the first one that could be sent beyond the limit.
Selective(selected, limit) ==
    LET Step(acc, i) ==
          IF acc.full \/ i \notin selected THEN acc
          ELSE IF LocalOnly(items[i]) \/ ~AcceptsFromLocal
               THEN [acc EXCEPT !.skipped = @ + 1]
          ELSE IF Len(acc.ids) = limit THEN [acc EXCEPT !.full = TRUE]
          ELSE [acc EXCEPT !.ids = Append(@, i), !.bytes = @ + items[i].bytes]
    IN  FoldLeft(Step, [ids |-> <<>>, bytes |-> 0, skipped |-> 0, full |-> FALSE],
                 [i \in 1..Len(items) |-> i])

Choose(selected, limit) ==
    LET plan == Selective(selected, limit) IN
    /\ chosen' = [ids |-> plan.ids, bytes |-> plan.bytes, skipped |-> plan.skipped, limit |-> limit]
    /\ UNCHANGED <<items, rules, lane, trust, mode, shown, sent, fresh, wrongly>>

\* SyncPolicy::evaluate: the first rule that matches, and none means no.
RuleMatches(rule, item) ==
    /\ item.bytes <= rule.maxBytes
    /\ rule.collection \in {AnyCollection, item.collection}

Allowed(item) ==
    /\ ~LocalOnly(item)
    /\ \E i \in DOMAIN rules :
         /\ RuleMatches(rules[i], item) /\ rules[i].decision = "allow"
         /\ \A j \in 1..i - 1 : ~RuleMatches(rules[j], item)

LaneAccepts(item) ==
    item.bytes <= lane.maxBytes /\ (lane.collections = {} \/ item.collection \in lane.collections)

\* transfer_materialization
Materialization(item, requested) ==
    IF LocalOnly(item) \/ ~AcceptsFromLocal THEN "nothing"
    ELSE IF mode = "full" \/ requested THEN "payload"
    ELSE IF mode = "metadata" /\ item.thumbnail THEN "thumbnail"
    ELSE "metadata"

\* One planned item is sealed: seal_if_allowed, at what the item is now
Transfer(i, requested) ==
    /\ \E j \in DOMAIN chosen.ids : chosen.ids[j] = i
    /\ LET part == Materialization(items[i], requested) IN
       /\ part # "nothing" /\ Allowed(items[i]) /\ LaneAccepts(items[i])
       /\ sent' = [sent EXCEPT ![i] = part]
       /\ wrongly' = IF LocalOnly(items[i]) \/ ~AcceptsFromLocal \/ items[i].bytes > lane.maxBytes
                     THEN wrongly \cup {i} ELSE wrongly
    /\ UNCHANGED <<items, rules, lane, trust, mode, shown, chosen, fresh>>

\* The user changes his mind.
MarkSensitive(i) ==
    /\ ~items[i].sensitive /\ items' = [items EXCEPT ![i].sensitive = TRUE] /\ fresh' = FALSE
    /\ UNCHANGED <<rules, lane, trust, mode, shown, chosen, sent, wrongly>>
Distrust ==
    /\ AcceptsFromLocal /\ trust' = "untrusted" /\ fresh' = FALSE
    /\ UNCHANGED <<items, rules, lane, mode, shown, chosen, sent, wrongly>>

PlanNext ==
    \/ Show
    \/ \E selected \in SUBSET DOMAIN items, limit \in 1..MaxSelected : Choose(selected, limit)
    \/ \E i \in DOMAIN items, requested \in BOOLEAN : Transfer(i, requested)
    \/ \E i \in DOMAIN items : MarkSensitive(i)
    \/ Distrust

-----------------------------------------------------------------------------
\* Nothing that is local by now, or that the device's lane refuses, leaves,
\* however old the plan is.
NothingLocalLeaves == wrongly = {}

\* What the user was shown is what could be sent: the rehearsal counts exactly
\* the items a transfer would not deny, agrees with the dry run where the device
\* takes anything, and no plan made since holds more.
ShownIsTrue ==
    fresh =>
      /\ shown.rehearsal.items = Cardinality({i \in DOMAIN items : Materialization(items[i], TRUE) # "nothing"})
      /\ shown.rehearsal.items + shown.rehearsal.localOnly = Len(items)
      /\ AcceptsFromLocal => shown.rehearsal = shown.estimate

\* A plan holds no more than its limit, nothing twice, and its bytes are those of
\* its items.
PlanIsExact ==
    /\ Len(chosen.ids) <= chosen.limit
    /\ \A j, k \in DOMAIN chosen.ids : j < k => chosen.ids[j] < chosen.ids[k]
    /\ chosen.bytes = Bytes({chosen.ids[j] : j \in DOMAIN chosen.ids})

PlanSafety == NothingLocalLeaves /\ ShownIsTrue /\ PlanIsExact
=============================================================================
