----------------------------- MODULE CaptureGate -----------------------------
(***************************************************************************)
(* CapturePolicy judging one read of the worker, and the user recovering    *)
(* what it skipped from a second read of the same content (src/capture.rs,  *)
(* run_worker).  What changes between two decisions of the same process is  *)
(* only the read; the policy comes from the configuration it started with.  *)
(***************************************************************************)
EXTENDS CapturePolicy

VARIABLES
    policy,     \* the CapturePolicy
    read,       \* the read before the gate
    phase,      \* "read", "judged" or "recovered"
    outcome     \* what became of the read

vars == <<policy, read, phase, outcome>>

\* A rule can match only if one is armed, and only text holds secrets.  A
\* clipboard selection is one whose intent is never asked for.
Consistent(p, r) ==
    /\ ~p.armed => ~r.excluded /\ r.rule = "capture"
    /\ r.content # "text" => r.secrets = {}

Init ==
    /\ policy \in Policies
    /\ read \in {r \in Reads : Consistent(policy, r)}
    /\ phase = "read"
    /\ outcome = Skip("Empty")

Judge ==
    /\ phase = "read"
    /\ phase' = "judged"
    /\ outcome' = Outcome(policy, read, FALSE)
    /\ UNCHANGED <<policy, read>>

\* The same content is read again; the owner may have changed meanwhile, and
\* the evidence with it.
Recover ==
    /\ phase = "judged"
    /\ IsRecoverable(outcome)
    /\ phase' = "recovered"
    /\ \E coherence \in {"coherent", "unknown", "torn"}, selfWrite \in BOOLEAN :
         read' = [read EXCEPT !.coherence = coherence, !.selfWrite = selfWrite]
    /\ outcome' = Outcome(policy, read', TRUE)
    /\ UNCHANGED policy

\* Nothing is left to decide about this read.
Settled ==
    /\ phase = "recovered" \/ (phase = "judged" /\ ~IsRecoverable(outcome))
    /\ UNCHANGED vars

Next == Judge \/ Recover \/ Settled
Spec == Init /\ [][Next]_vars

-----------------------------------------------------------------------------
(* Properties *)

GateStored == phase = "judged" /\ outcome.stored

\* In Skip mode nothing is stored on evidence the backend did not supply:
\* coherence, concealment and, when a source rule is armed, provenance are
\* each proven (UnknownEvidencePolicy::Skip, "refuse the capture outright").
SkipModeDemandsProof ==
    GateStored /\ policy.mode = "skip" =>
        /\ read.coherence = "coherent"
        /\ read.concealment = "clear"
        /\ policy.armed => read.provenance = "proven"

\* Whichever of the gate's branches stores a read, a detected secret, a clip a
\* rule marks sensitive and a recovered clip are kept from sync and AI and
\* expire, and what the gate itself let through within the user's secret_ttl.
SecretsAreContained ==
    outcome.stored =>
        /\ Findings(policy, read) # {} \/ read.rule = "sensitive" \/ phase = "recovered"
             => outcome.sensitive
        /\ outcome.sensitive <=> outcome.expires # Never
        /\ outcome.sensitive => ~outcome.sync /\ ~outcome.ai
        /\ phase = "judged" => outcome.expires <= SecretTtl

\* Neither a torn read nor vbuff's own write is stored, not even when the user
\* asks for it back ("bypasses the gate, but never a read the backend
\* affirmatively reported as torn", run_worker).
RefusedEvidenceIsFinal ==
    outcome.stored => read.coherence # "torn" /\ ~read.selfWrite

\* Evidence of one more secret never lets a clip live longer, leave memory or
\* lose its mask: the limits come from every finding, not from the strongest
\* one (the comment on sensitivity_reason in decide).
FindingsOnlyTighten ==
    GateStored /\ read.content = "text" =>
        \A k \in Kinds :
            LET more == Outcome(policy, [read EXCEPT !.secrets = @ \union {k}], FALSE)
            IN  /\ more.stored
                /\ outcome.sensitive => more.sensitive /\ more.expires <= outcome.expires
                /\ outcome.memoryOnly => more.memoryOnly

\* Turning the detectors off changes nothing for a one-time password
\* (actionable_findings: "One-time passwords stay outside it").
ToggleSparesOneTimePasswords ==
    phase = "judged" /\ read.secrets = {OneTimePassword} =>
        outcome = Outcome([policy EXCEPT !.detect = ~@], read, FALSE)

\* The gate fails closed: on missing proof in Skip mode, and on evidence that
\* was refused, whatever the user asks for (decide, run_worker).
GateFailsClosed == SkipModeDemandsProof /\ RefusedEvidenceIsFinal

\* What the detectors find is honoured: by containment, by limits that only
\* tighten, and by the one kind the user's toggle does not reach (decide,
\* actionable_findings).
FindingsAreHonoured ==
    SecretsAreContained /\ FindingsOnlyTighten /\ ToggleSparesOneTimePasswords

\* README.md: "One-time passwords, private keys, recovery codes, and explicit
\* skipped-capture recovery use a bounded process-only lane outside the
\* database."
OneTimePasswordsStayInMemory ==
    outcome.stored /\ OneTimePassword \in read.secrets => outcome.memoryOnly

\* run_worker: "Unknown coherence must stay eligible here: it is the permanent
\* state of the generic backend, so requiring proof would silently disable
\* recovery altogether."  A text the generic backend read, skipped only for
\* what that backend cannot prove, can be recovered.
GenericSkipIsRecoverable ==
    /\ phase = "judged" /\ ~outcome.stored
    /\ policy.mode = "skip" /\ policy.armed
    /\ read.content = "text" /\ read.selection = "clipboard" /\ ~read.selfWrite
    /\ read.coherence = "unknown" /\ read.concealment = "unknown"
    /\ read.provenance = "unknown"
    => IsRecoverable(outcome)
=============================================================================
