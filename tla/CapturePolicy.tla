---------------------------- MODULE CapturePolicy ----------------------------
(***************************************************************************)
(* The capture gate: CapturePolicy::decide (vbuff-core/src/capture/         *)
(* policy.rs), the secret handling table it reads (trust/secrets.rs), and   *)
(* what run_worker (src/capture.rs) makes of the decision: an explicit      *)
(* recovery overrides it, a capture rule strips flavors, and the clip goes  *)
(* to the database or to the process-only lane.                              *)
(*                                                                           *)
(* A read is a record of the evidence the gate looks at; the text detectors *)
(* are reduced to the set of secret kinds they find in it.                   *)
(***************************************************************************)
EXTENDS Naturals, Sequences, FiniteSets

CONSTANTS
    Kinds,          \* the SecretKinds the detectors can report
    Lifetime,       \* [Kinds -> Nat]: handling_for_secret(kind).ttl
    InMemory,       \* the kinds with handling_for_secret(kind).memory_only
    OneTimePassword,
    SecretTtl,      \* CapturePolicy::secret_ttl
    RecoveryTtl     \* how long an explicitly recovered clip lives

ASSUME KindAssumption ==
    /\ IsFiniteSet(Kinds)
    /\ OneTimePassword \in Kinds
    /\ InMemory \subseteq Kinds
    /\ Lifetime \in [Kinds -> Nat \ {0}]
    /\ SecretTtl \in Nat \ {0}
    /\ RecoveryTtl \in Nat \ {0}

Modes == {"guard", "skip", "allow"}

\* CapturePolicy: armed says that excluded_apps or rules is not empty.
Policies ==
    [mode : Modes, armed : BOOLEAN, detect : BOOLEAN, skipBlank : BOOLEAN]

\* CaptureInput.  excluded and rule are what excluded_apps and the first
\* matching rule say of the provenance the read carries.
Reads ==
    [content : {"none", "unrealized", "text", "blank", "image"},
     secrets : SUBSET Kinds,
     coherence : {"coherent", "unknown", "torn"},
     selfWrite : BOOLEAN,
     selection : {"clipboard", "intended", "incidental", "unknown"},
     concealment : {"clear", "unknown", "concealed"},
     provenance : {"proven", "unknown"},
     excluded : BOOLEAN,
     rule : {"capture", "skip", "strip_text", "strip_images", "sensitive"}]

Skip(reason) == [stored |-> FALSE, reason |-> reason]
Capture(action, sensitive, memoryOnly, expires) ==
    [stored |-> TRUE, action |-> action, sensitive |-> sensitive,
     sync |-> ~sensitive, ai |-> ~sensitive, memoryOnly |-> memoryOnly,
     expires |-> expires]

Never == 0   \* expires_after: None

-----------------------------------------------------------------------------
(* decide *)

Unproven(p, r) == p.armed /\ r.provenance = "unknown"

\* The refusals up to the provenance check, in the order decide tries them.
Evidence(p, r) == <<
    [holds |-> r.content = "none",                                reason |-> "Empty"],
    [holds |-> r.coherence = "torn",                              reason |-> "TornRead"],
    [holds |-> r.coherence = "unknown" /\ p.mode = "skip",        reason |-> "CoherenceUnknown"],
    [holds |-> r.selfWrite,                                       reason |-> "SelfWriteSuppressed"],
    [holds |-> r.selection = "incidental",                        reason |-> "PrimaryWithoutIntent"],
    [holds |-> r.selection = "unknown",                           reason |-> "IntentUnknown"],
    [holds |-> r.concealment = "concealed",                       reason |-> "Concealed"],
    [holds |-> r.concealment = "unknown" /\ p.mode = "skip",      reason |-> "ConcealmentUnknown"],
    [holds |-> r.content = "unrealized",                          reason |-> "NoRealizedFlavor"],
    [holds |-> Unproven(p, r) /\ p.mode = "skip",                 reason |-> "ProvenanceUnknown"] >>

\* The refusals that rest on provenance and content.
Rules(p, r) == <<
    [holds |-> r.excluded,                                        reason |-> "ExcludedSource"],
    [holds |-> r.rule = "skip",                                   reason |-> "SourceRule"],
    [holds |-> p.skipBlank /\ r.content = "blank",                reason |-> "WhitespaceOnly"] >>

Refusing(checks) == {i \in DOMAIN checks : checks[i].holds}
FirstReason(checks) ==
    checks[CHOOSE i \in Refusing(checks) : \A j \in Refusing(checks) : i <= j].reason

\* actionable_findings: detect_secrets does not govern one-time passwords.
Findings(p, r) == IF p.detect THEN r.secrets ELSE r.secrets \intersect {OneTimePassword}

Shortest(lifetimes) == CHOOSE t \in lifetimes : \A u \in lifetimes : t <= u
AtMost(t, ceiling) == IF t < ceiling THEN t ELSE ceiling

\* Defective variant of Expiry: the most lenient finding names the lifetime.
ExpiryOfLongest(p, r) ==
    LET found == Findings(p, r)
        longest == CHOOSE k \in found : \A j \in found : Lifetime[j] <= Lifetime[k]
    IN  IF found # {} THEN AtMost(Lifetime[longest], SecretTtl)
        ELSE IF r.rule = "sensitive" THEN SecretTtl ELSE Never

\* The strictest lifetime over every finding; a capture rule alone is bounded
\* by the user's secret_ttl.
Expiry(p, r) ==
    LET found == Findings(p, r)
    IN  IF found # {} THEN AtMost(Shortest({Lifetime[k] : k \in found}), SecretTtl)
        ELSE IF r.rule = "sensitive" THEN SecretTtl ELSE Never

Judged(p, r) ==
    Capture(r.rule, Findings(p, r) # {} \/ r.rule = "sensitive",
            Findings(p, r) \intersect InMemory # {}, Expiry(p, r))

\* Rules armed, provenance unknown, Guard mode: the sensitive lane.
Guarded == Capture("capture", TRUE, FALSE, SecretTtl)

\* Defective variant of decide: provenance is trusted without proof.
DecideTrusting(p, r) ==
    IF Refusing(SubSeq(Evidence(p, r), 1, 9)) # {}
      THEN Skip(FirstReason(SubSeq(Evidence(p, r), 1, 9)))
    ELSE IF Refusing(Rules(p, r)) # {} THEN Skip(FirstReason(Rules(p, r)))
    ELSE Judged(p, r)

Decide(p, r) ==
    IF Refusing(Evidence(p, r)) # {} THEN Skip(FirstReason(Evidence(p, r)))
    ELSE IF Unproven(p, r) /\ p.mode = "guard" THEN Guarded
    ELSE IF Refusing(Rules(p, r)) # {} THEN Skip(FirstReason(Rules(p, r)))
    ELSE Judged(p, r)

\* DropReason::is_recoverable
IsRecoverable(d) == ~d.stored /\ d.reason = "ProvenanceUnknown"

-----------------------------------------------------------------------------
(* run_worker around the gate *)

\* apply_action, then the check that a realized flavor is left.
Stripped(r, d) ==
    IF d.stored /\ r.content = "image" /\ d.action \in {"strip_text", "strip_images"}
      THEN Skip("NoRealizedFlavor")
      ELSE d

\* An explicit recovery may override the gate on what can be stored at all.
Realized(r) == r.content \in {"text", "blank", "image"}

Outcome(p, r, explicit) ==
    IF explicit /\ ~r.selfWrite /\ r.coherence # "torn" /\ Realized(r)
      THEN Capture("capture", TRUE, TRUE, RecoveryTtl)
      ELSE Stripped(r, Decide(p, r))
=============================================================================
