---------------------------- MODULE MCReplicaSync ----------------------------
(***************************************************************************)
(* What crosses a trust boundary.  Between devices: replicated items, the     *)
(* trusted group, what is sent to a device and on its way there.  To other   *)
(* programs: the snippet mirror, one-shot messages, the quotas of clients.   *)
(* The parts share no state, so a behaviour is of one of them, chosen at the *)
(* start.                                                                     *)
(*                                                                            *)
(* Replicas: three devices, the last of which only relays: the first two may  *)
(* end up with the same edits through different paths.                        *)
(***************************************************************************)
EXTENDS ReplicaSync, TrustedGroup, SyncPlans, Handoffs,
        SnippetMirror, ClientGuards

MCMaxEdits == [d \in Devices |-> CASE d = 1 -> 2 [] d = 2 -> 1 [] OTHER -> 0]
MCMaxNow == [d \in Devices |-> IF d = 1 THEN 1 ELSE 0]

Message(user, key, id, from, until) ==
    [user |-> user, key |-> key, id |-> id, from |-> from, until |-> until]

\* Two capabilities, two leases of one request, two events of one endpoint
\* (the earlier with the longer life) and one of another.
MCMessages ==
    { Message("callback", 1, 1, 1, 3), Message("callback", 2, 1, 0, 2),
      Message("capability", 1, 1, 0, 3), Message("capability", 2, 1, 0, 2),
      Message("remote", 1, 1, 0, 2), Message("remote", 1, 2, 1, 3),
      Message("webhook", 1, 1, 0, 3), Message("webhook", 1, 2, 0, 2),
      Message("webhook", 2, 1, 0, 3) }

MCQuotas == [k \in {"read", "paste"} |-> 1]

Item(bytes, collection, eligible, thumbnail) ==
    [bytes |-> bytes, collection |-> collection, sensitive |-> FALSE,
     eligible |-> eligible, thumbnail |-> thumbnail]

\* Two that may leave, of which a lane refuses the larger one, and one that may not.
MCItems ==
    { <<Item(1, "work", TRUE, TRUE), Item(2, "none", FALSE, FALSE), Item(2, "work", TRUE, FALSE)>> }

MCRules ==
    { <<[decision |-> "allow", maxBytes |-> 2, collection |-> "none"]>>,
      <<[decision |-> "deny", maxBytes |-> 1, collection |-> "work"],
        [decision |-> "allow", maxBytes |-> 2, collection |-> "work"]>> }
MCLanes == {[collections |-> {"work"}, maxBytes |-> 1]}

VARIABLE part

clientVars == <<guardVars, quotaVars, streamVars, mirrorVars>>
peerVars == <<vars, groupVars, planVars, outVars, burnVars>>
syncVars == <<part, peerVars, clientVars>>

\* The parts that stand still start in one of their initial states.
SyncInit ==
    /\ part \in {"replicas", "group", "plans", "outbox", "burn", "mirror", "quota", "stream"} \cup Users
    /\ Init /\ GroupInit /\ PlanInit /\ HandInit
    /\ MirrorInit /\ GuardInit /\ QuotaInit /\ StreamInit
    /\ part # "mirror" => source = Empty /\ target = Empty
    /\ part # "plans" => trust = "full" /\ mode = "full" /\ Len(rules) = 1

PeerNext ==
    \/ part = "replicas" /\ Next /\ UNCHANGED <<groupVars, planVars, outVars, burnVars>>
    \/ part = "group" /\ GroupNext /\ UNCHANGED <<vars, planVars, outVars, burnVars>>
    \/ part = "plans" /\ PlanNext /\ UNCHANGED <<vars, groupVars, outVars, burnVars>>
    \/ part = "outbox" /\ OutNext /\ UNCHANGED <<vars, groupVars, planVars, burnVars>>
    \/ part = "burn" /\ BurnNext /\ UNCHANGED <<vars, groupVars, planVars, outVars>>

ClientNext ==
    \/ part = "mirror" /\ MirrorNext /\ UNCHANGED <<guardVars, quotaVars, streamVars>>
    \/ part \in Users /\ GuardStep(part) /\ UNCHANGED <<mirrorVars, quotaVars, streamVars>>
    \/ part = "quota" /\ QuotaNext /\ UNCHANGED <<mirrorVars, guardVars, streamVars>>
    \/ part = "stream" /\ StreamNext /\ UNCHANGED <<mirrorVars, guardVars, quotaVars>>

SyncNext ==
    /\ UNCHANGED part
    /\ \/ PeerNext /\ UNCHANGED clientVars
       \/ ClientNext /\ UNCHANGED peerVars

SyncSpec == SyncInit /\ [][SyncNext]_syncVars

\* A client's message is accepted once, never while it is revoked, and a client
\* gets its share of requests and every event (ReplayGuard, TokenRateLimiter).
ClientsGetTheirShare == []GuardSafety /\ RevokedIsRefused /\ []QuotaSafety

\* The mirror never loses what only its target's user wrote.
MirrorKeepsEdits == []MirrorSafety /\ OnlyMirroredIsReplaced

\* The group's devices never disagree, and a key stays among them.
GroupIsOfOneMind == []GroupSafety /\ ClosedStaysClosed

\* What is local never leaves, the user is shown what would, and what is reported
\* delivered or wiped is, and stays so.
TransfersAreHonest == []PlanSafety /\ []HandSafety /\ SettledIsFinal
=============================================================================
