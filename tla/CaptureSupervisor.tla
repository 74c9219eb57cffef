-------------------------- MODULE CaptureSupervisor --------------------------
(***************************************************************************)
(* CaptureSupervisor (vbuff-core/src/reliability.rs): escalates a failing   *)
(* clipboard backend from re-subscription to a restart to degraded mode.    *)
(***************************************************************************)
EXTENDS Naturals

CONSTANTS ResubscribeLimit, RestartLimit

ASSUME LimitAssumption ==
    /\ ResubscribeLimit \in Nat \ {0}
    /\ RestartLimit \in Nat \ {0}

VARIABLES
    failures,     \* lost subscriptions since the last escalation or recovery
    restarts,     \* restarts since the last degraded period or recovery
    action        \* the RecoveryAction of the last observation

supVars == <<failures, restarts, action>>

SupInit == failures = 0 /\ restarts = 0 /\ action = "none"

\* request_restart
RequestRestart ==
    IF restarts < RestartLimit
      THEN restarts' = restarts + 1 /\ action' = "restart"
      ELSE restarts' = 0 /\ action' = "degrade"

\* Defective variant of SubscriptionLost: no escalation.
SubscriptionLostNoEscalation ==
    /\ action' = "resubscribe"
    /\ failures' = (failures + 1) % (ResubscribeLimit + 1)
    /\ UNCHANGED restarts

\* observe(SubscriptionLost)
SubscriptionLost ==
    IF failures < ResubscribeLimit
      THEN failures' = failures + 1 /\ action' = "resubscribe" /\ UNCHANGED restarts
      ELSE failures' = 0 /\ RequestRestart

\* observe(BackendFailed)
BackendFailed == RequestRestart /\ UNCHANGED failures

\* observe(Healthy) and observe(RecoverySucceeded)
Recovered == failures' = 0 /\ restarts' = 0 /\ action' = "none"

SupTypeOK ==
    /\ failures \in 0..ResubscribeLimit
    /\ restarts \in 0..RestartLimit
    /\ action \in {"none", "resubscribe", "restart", "degrade"}
=============================================================================
