---------------------------- MODULE RetentionPass ----------------------------
(***************************************************************************)
(* Retention by kind (enforce_retention) and by collection                  *)
(* (enforce_collection_retention): bounded passes over the clip table.       *)
(*                                                                           *)
(* A row is its id and the time of its last copy; rows are kept oldest       *)
(* first, the order of (updated_at, seq).                                    *)
(***************************************************************************)
EXTENDS Integers, Sequences, SequencesExt, FiniteSetsExt

CONSTANTS
    RetIds,         \* clip ids, ordered as numbers
    RetScope,       \* [RetIds -> scope]: "sensitive" or a kind
    RetSize,        \* [RetIds -> Nat]: byte_size
    RuleOrder,      \* the scopes, in the order of retention_rules
    RuleChoices,    \* rules to choose from: [age, items : Nat \cup {Unlimited}, graced : BOOLEAN]
    CollectionRule, \* [age, items, bytes : Nat \cup {Unlimited}]
    Unreadable,     \* ids whose bodies are lost: delete_with_grace fails
    MaxEvictions,   \* MAX_RETENTION_EVICTIONS
    PreviewLimit,   \* the limit given to enforce_collection_retention
    RetMaxNow       \* bound: how far the clock goes

Unlimited == 1000000

ASSUME RetAssumption ==
    /\ RetIds \subseteq 0 .. (Unlimited - 1)
    /\ RetScope \in [RetIds -> ToSet(RuleOrder)] /\ RetSize \in [RetIds -> Nat]
    /\ RuleOrder \in Seq(ToSet(RuleOrder))
    /\ \A rule \in RuleChoices : rule.age \in Nat /\ rule.items \in Nat /\ rule.graced \in BOOLEAN
    /\ CollectionRule.age \in Nat /\ CollectionRule.items \in Nat /\ CollectionRule.bytes \in Nat
    /\ MaxEvictions \in Nat \ {0} /\ RetMaxNow \in Nat

VARIABLES
    held,       \* rows, oldest first: Seq([id, at])
    guarded,    \* ids under a guard of DeleteGuards::SWEEP
    members,    \* ids in the collection
    rules,      \* [scope -> rule], for the scopes that have one
    retNow,     \* now_millis
    sealedIds,  \* ids the last pass put in the grace bin
    report      \* what the last pass returned

retVars == <<held, guarded, members, rules, retNow, sealedIds, report>>

NoReport == [pass |-> "none"]
Unreported == report' = NoReport /\ sealedIds' = {}
RetStored == {held[i].id : i \in DOMAIN held}

\* The rows of s that are in S, in the order of s.
Where(s, S) ==
    LET kept[n \in 0 .. Len(s)] ==
          IF n = 0 THEN <<>> ELSE IF s[n] \in S THEN Append(kept[n - 1], s[n]) ELSE kept[n - 1]
    IN  kept[Len(s)]
Without(S) == Where(held, {row \in ToSet(held) : row.id \notin S})
FirstOf(s, n) == SubSeq(s, 1, IF n < Len(s) THEN n ELSE Len(s))
AfterFirst(s, n) == SubSeq(s, n + 1, Len(s))
IdsOf(s) == {s[i].id : i \in DOMAIN s}

RetInit ==
    /\ held = <<>> /\ guarded = {} /\ members = {} /\ sealedIds = {}
    /\ rules = [s \in {} |-> {}]
    /\ retNow = 0 /\ report = NoReport

\* insert: a new row, or a known one bumped to the top.
Copied(c) ==
    /\ held' = Append(Without({c}), [id |-> c, at |-> retNow])
    /\ members' = IF c \in RetStored THEN members ELSE members \ {c}
    /\ Unreported
    /\ UNCHANGED <<guarded, rules, retNow>>

RetTick ==
    /\ retNow < RetMaxNow /\ retNow' = retNow + 1
    /\ Unreported
    /\ UNCHANGED <<held, guarded, members, rules>>

\* A pin, a hold or a session protection comes or goes.
SetGuard(c) ==
    /\ c \in RetStored
    /\ guarded' \in {guarded \cup {c}, guarded \ {c}}
    /\ Unreported
    /\ UNCHANGED <<held, members, rules, retNow>>

SetCollection(c) ==
    /\ c \in RetStored
    /\ members' \in {members \cup {c}, members \ {c}}
    /\ Unreported
    /\ UNCHANGED <<held, guarded, rules, retNow>>

SetRetentionRule(s, rule) ==
    /\ rules' = [t \in DOMAIN rules \cup {s} |-> IF t = s THEN rule ELSE rules[t]]
    /\ Unreported
    /\ UNCHANGED <<held, guarded, members, retNow>>

-----------------------------------------------------------------------------
(* enforce_retention *)

Eligible(s) ==
    Where(held, {row \in ToSet(held) : RetScope[row.id] = s /\ row.id \notin guarded})

\* The rows that rule s is too old for.
Aged(eligible, s) == Where(eligible, {row \in ToSet(eligible) : row.at < retNow - rules[s].age})

\* Defective variant of OverCount: the overflow is listed oldest first.
OverCountOldestFirst(eligible, s) ==
    LET n == Len(eligible) - rules[s].items
    IN  FirstOf(eligible, IF n < 0 THEN 0 ELSE n)

\* Newest first, so that the aged rows, listed before, come last.
OverCount(eligible, s) == AfterFirst(Reverse(eligible), rules[s].items)

RetentionCandidates(s, limit) ==
    LET eligible == Eligible(s)
        aged == FirstOf(Aged(eligible, s), limit)
        over == FirstOf(OverCount(eligible, s), limit - Len(aged))
    IN  aged \o Where(over, {row \in ToSet(over) : row.id \notin IdsOf(aged)})

\* One rule: what is left of the pass's capacity, and one more to see an overflow.
ApplyRule(found, s) ==
    LET capacity == MaxEvictions - Cardinality(found.ids)
        listed == RetentionCandidates(s, capacity + 1)
    IN  IF s \notin DOMAIN rules \/ found.full THEN found
        ELSE IF capacity = 0 THEN [found EXCEPT !.left = @ + 1, !.full = TRUE]
        ELSE [found EXCEPT
                !.ids = @ \cup IdsOf(FirstOf(listed, capacity)),
                !.left = @ + (IF Len(listed) > capacity THEN Len(listed) - capacity ELSE 0)]

Condemned == FoldLeft(ApplyRule, [ids |-> {}, left |-> 0, full |-> FALSE], RuleOrder)
Graced(c) == rules[RetScope[c]].graced

\* Defective variant of Deferred: without a key the clip is deleted for good.
DeferredNever(ids, key) == {}

\* A grace window without a key: reported, not deleted.
Deferred(ids, key) == {c \in ids : Graced(c) /\ ~key}

\* The deletions go by id, each on its own, up to the first body that cannot be
\* read back, or to the point where the process dies.
EnforceRetention(key) ==
    LET found == Condemned
        deferred == Deferred(found.ids, key)
        failing == {c \in found.ids \ deferred : Graced(c) /\ key /\ c \in Unreadable}
        reached(limit) == {c \in (found.ids \ deferred) \ guarded :
                               c < limit /\ \A b \in failing : c < b}
    IN  /\ \E limit \in RetIds \cup {Unlimited} :
             LET gone == reached(limit) IN
             /\ held' = Without(gone)
             /\ sealedIds' = {c \in gone : Graced(c) /\ key}
             /\ members' = members \ gone
             /\ report' = IF failing # {} \/ limit # Unlimited THEN NoReport
                          ELSE [pass |-> "retention", left |-> found.left,
                                deferred |-> Cardinality(deferred), deleted |-> Cardinality(gone)]
    /\ UNCHANGED <<guarded, rules, retNow>>

-----------------------------------------------------------------------------
(* enforce_collection_retention *)

Swept == Reverse(Where(held, {row \in ToSet(held) : row.id \in members \ guarded}))
BytesTo(swept, i) == MapThenSumSet(LAMBDA c : RetSize[c], IdsOf(FirstOf(swept, i)))

OverLimits(swept, i) ==
    \/ swept[i].at < retNow - CollectionRule.age
    \/ i > CollectionRule.items
    \/ BytesTo(swept, i) > CollectionRule.bytes

\* The newest of them up to the limit; all of it in one transaction.
EnforceCollectionRetention ==
    LET swept == Swept
        over == {i \in DOMAIN swept : OverLimits(swept, i)}
        taken == {i \in over : Cardinality({j \in over : j < i}) < PreviewLimit}
        gone == {swept[i].id : i \in taken}
    IN  /\ held' = Without(gone)
        /\ members' = members \ gone
        /\ sealedIds' = {}
        /\ report' = [pass |-> "collection", truncated |-> taken # over]
        /\ UNCHANGED <<guarded, rules, retNow>>

RetNext ==
    \/ \E c \in RetIds : Copied(c) \/ SetGuard(c) \/ SetCollection(c)
    \/ \E i \in DOMAIN RuleOrder, rule \in RuleChoices : SetRetentionRule(RuleOrder[i], rule)
    \/ \E key \in BOOLEAN : EnforceRetention(key)
    \/ EnforceCollectionRetention
    \/ RetTick

RetSpec == RetInit /\ [][RetNext]_retVars

-----------------------------------------------------------------------------
RetTypeOK ==
    /\ \A i \in DOMAIN held : held[i].id \in RetIds /\ held[i].at \in 0 .. RetMaxNow
    /\ \A i, j \in DOMAIN held : i < j => held[i].id # held[j].id /\ held[i].at <= held[j].at
    /\ guarded \subseteq RetIds /\ members \subseteq RetIds /\ sealedIds \subseteq RetIds

\* A pass that reports nothing left and nothing deferred has left nothing that
\* a rule condemns: neither the shared capacity of the rules nor the limit the
\* two queries share hides an aged or an overflowing clip (remaining_candidates).
ReportIsComplete ==
    report.pass = "retention" /\ report.left = 0 /\ report.deferred = 0 =>
        \A s \in DOMAIN rules :
            LET left == Eligible(s) IN
            /\ Len(left) <= rules[s].items
            /\ \A row \in ToSet(left) : row.at >= retNow - rules[s].age

\* A pass that leaves work behind has done some, unless it had to defer it:
\* repeated passes come to an end.
PassMakesProgress ==
    report.pass = "retention" /\ report.left > 0 /\ report.deferred = 0 => report.deleted > 0

\* A rule with a grace window never destroys a clip: what a retention pass
\* removes under it is in the grace bin, key or no key, crash or no crash.
GraceIsHonoured ==
    [][\A c \in RetStored \ RetStored' :
          report'.pass # "collection" /\ Graced(c) => c \in sealedIds']_retVars

\* A collection pass that is not truncated leaves the unguarded members within
\* all three limits.
CollectionIsBounded ==
    report.pass = "collection" /\ ~report.truncated =>
        LET swept == Swept IN
        /\ Len(swept) <= CollectionRule.items
        /\ BytesTo(swept, Len(swept)) <= CollectionRule.bytes
        /\ \A row \in ToSet(swept) : row.at >= retNow - CollectionRule.age

\* What a pass reports is what it did: a pass that reports itself complete is,
\* and one that does not has made room for the next.
PassIsAccounted == ReportIsComplete /\ PassMakesProgress /\ CollectionIsBounded
=============================================================================
