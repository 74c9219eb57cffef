-------------------------- MODULE SupervisorPatience -------------------------
(***************************************************************************)
(* CaptureSupervisor under every sequence of observations, with the two     *)
(* counts its limits are about kept beside it.                               *)
(***************************************************************************)
EXTENDS CaptureSupervisor

VARIABLES
    streak,       \* ghost: failures observed since a recovery or a degrade
    resubscribed  \* ghost: resubscriptions since anything else was tried

vars == <<supVars, streak, resubscribed>>

Counted ==
    /\ streak' = IF action' = "degrade" THEN 0 ELSE streak + 1
    /\ resubscribed' = IF action' = "resubscribe" THEN resubscribed + 1 ELSE 0

Init == SupInit /\ streak = 0 /\ resubscribed = 0

Lost == SubscriptionLost /\ Counted
Failed == BackendFailed /\ Counted
Healthy == Recovered /\ streak' = 0 /\ resubscribed' = 0

Next == Lost \/ Failed \/ Healthy
Spec == Init /\ [][Next]_vars

TypeOK == SupTypeOK /\ streak \in Nat /\ resubscribed \in Nat

\* However lost subscriptions and panics interleave, a backend that never
\* recovers reaches degraded mode within (ResubscribeLimit + 1) *
\* (RestartLimit + 1) observations: the 30 s retry of EnterDegradedMode is not
\* postponed for ever by the cheaper recoveries (observe, request_restart).
PatienceIsBounded == streak < (ResubscribeLimit + 1) * (RestartLimit + 1)

\* The supervisor never re-subscribes more than ResubscribeLimit times in a
\* row without escalating (the failures counter of observe).
EscalatesOnTime == resubscribed <= ResubscribeLimit
=============================================================================
