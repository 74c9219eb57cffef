---------------------------- MODULE UserSideProofs ----------------------------
(***************************************************************************)
(* Theorems about where the user's decisions are kept, for every value of     *)
(* the constants: each part of MCUserSide under its own specification; the    *)
(* last section carries the results over to the behaviours of UserSpec.       *)
(***************************************************************************)
EXTENDS MCUserSide, QueryGrammarProofs

-----------------------------------------------------------------------------
(* CapturePolicy and CaptureGate: what the gate stores *)

\* The outcome is always what the gate makes of the read and the policy.
OutcomeIsTheGates ==
    \/ phase = "read" /\ outcome = Skip("Empty")
    \/ phase = "judged" /\ outcome = Outcome(policy, read, FALSE)
    \/ phase = "recovered" /\ outcome = Outcome(policy, read, TRUE)

GateInv == policy \in Policies /\ read \in Reads /\ OutcomeIsTheGates

\* decide gets past its refusals only when none of them holds.
LEMMA EvidenceClears ==
  ASSUME NEW p, NEW r, Refusing(Evidence(p, r)) = {}
  PROVE /\ r.content # "none" /\ r.content # "unrealized"
        /\ r.coherence # "torn" /\ ~r.selfWrite
        /\ r.concealment # "concealed"
        /\ p.mode = "skip" => /\ r.coherence # "unknown" /\ r.concealment # "unknown"
                              /\ ~Unproven(p, r)
<1> DEFINE E == Evidence(p, r)
<1>1. DOMAIN E = 1..10
  BY DEF Evidence
<1>2. \A i \in 1..10 : ~E[i].holds
  BY <1>1 DEF Refusing
<1>3. /\ E[1].holds <=> r.content = "none"
      /\ E[2].holds <=> r.coherence = "torn"
      /\ E[3].holds <=> r.coherence = "unknown" /\ p.mode = "skip"
      /\ E[4].holds = r.selfWrite
  BY DEF Evidence
<1>4. /\ E[7].holds <=> r.concealment = "concealed"
      /\ E[8].holds <=> r.concealment = "unknown" /\ p.mode = "skip"
      /\ E[9].holds <=> r.content = "unrealized"
      /\ E[10].holds <=> Unproven(p, r) /\ p.mode = "skip"
  BY DEF Evidence
<1> HIDE DEF E
<1> QED
  BY <1>2, <1>3, <1>4

\* What decide stores has passed every refusal of the evidence.
LEMMA StoredIsClear ==
  ASSUME NEW p, NEW r, Stripped(r, Decide(p, r)).stored
  PROVE Refusing(Evidence(p, r)) = {}
BY DEF Stripped, Decide, Skip

\* An override only stores what decide would not have refused for good.
LEMMA OverrideIsClear ==
  ASSUME NEW p, NEW r \in Reads, Outcome(p, r, TRUE).stored
  PROVE /\ Outcome(p, r, TRUE) = Capture("capture", TRUE, TRUE, RecoveryTtl)
        /\ r.coherence # "torn" /\ ~r.selfWrite
<1>1. CASE ~r.selfWrite /\ r.coherence # "torn" /\ Realized(r)
  BY <1>1 DEF Outcome
<1>2. CASE ~(~r.selfWrite /\ r.coherence # "torn" /\ Realized(r))
  <2>1. Outcome(p, r, TRUE) = Stripped(r, Decide(p, r))
    BY <1>2 DEF Outcome
  <2>2. Refusing(Evidence(p, r)) = {}
    BY <2>1, StoredIsClear
  <2>3. Realized(r)
    BY <2>2, EvidenceClears DEF Realized, Reads
  <2> QED
    BY <1>2, <2>2, <2>3, EvidenceClears
<1> QED
  BY <1>1, <1>2

\* Init, Judge and Recover keep the outcome what the gate makes of the read.
LEMMA GateStart == Init => GateInv
BY DEF Init, GateInv, OutcomeIsTheGates

LEMMA GateStep == GateInv /\ [Next]_vars => GateInv'
<1> SUFFICES ASSUME GateInv, [Next]_vars PROVE GateInv'
  OBVIOUS
<1> USE DEF GateInv, OutcomeIsTheGates
<1>1. CASE Judge
  BY <1>1 DEF Judge
<1>2. CASE Recover
  <2>1. PICK coherence \in {"coherent", "unknown", "torn"}, selfWrite \in BOOLEAN :
          read' = [read EXCEPT !.coherence = coherence, !.selfWrite = selfWrite]
    BY <1>2 DEF Recover
  <2>2. read' \in Reads
    BY <2>1 DEF Reads
  <2> QED
    BY <1>2, <2>2 DEF Recover
<1>3. CASE Settled \/ UNCHANGED vars
  BY <1>3 DEF Settled, vars
<1> QED
  BY <1>1, <1>2, <1>3 DEF Next

\* The two ways the outcome may be a stored clip.
LEMMA StoredByTheGate ==
  ASSUME GateInv, outcome.stored
  PROVE \/ phase = "judged" /\ outcome = Stripped(read, Decide(policy, read))
           /\ Refusing(Evidence(policy, read)) = {}
        \/ phase = "recovered" /\ outcome = Capture("capture", TRUE, TRUE, RecoveryTtl)
           /\ read.coherence # "torn" /\ ~read.selfWrite
<1>1. phase \in {"judged", "recovered"}
  <2>1. ~Skip("Empty").stored
    BY DEF Skip
  <2> QED
    BY <2>1 DEF GateInv, OutcomeIsTheGates
<1>2. CASE phase = "judged"
  <2>1. outcome = Outcome(policy, read, FALSE)
    BY <1>2 DEF GateInv, OutcomeIsTheGates
  <2>2. outcome = Stripped(read, Decide(policy, read))
    BY <2>1 DEF Outcome
  <2> QED
    BY <1>2, <2>2, StoredIsClear
<1>3. CASE phase = "recovered"
  <2>1. outcome = Outcome(policy, read, TRUE)
    BY <1>3 DEF GateInv, OutcomeIsTheGates
  <2> QED
    BY <1>3, <2>1, OverrideIsClear DEF GateInv
<1> QED
  BY <1>1, <1>2, <1>3

LEMMA GateFails == GateInv => GateFailsClosed
<1> SUFFICES ASSUME GateInv, outcome.stored
             PROVE /\ phase = "judged" /\ policy.mode = "skip" =>
                        /\ read.coherence = "coherent" /\ read.concealment = "clear"
                        /\ policy.armed => read.provenance = "proven"
                   /\ read.coherence # "torn" /\ ~read.selfWrite
  BY DEF GateFailsClosed, SkipModeDemandsProof, RefusedEvidenceIsFinal, GateStored
<1>1. CASE Refusing(Evidence(policy, read)) = {}
  BY <1>1, EvidenceClears DEF GateInv, Reads, Unproven
<1> QED
  BY <1>1, StoredByTheGate

-----------------------------------------------------------------------------
(* What the detectors find *)

\* A lifetime found is a positive number no longer than any other found.
LEMMA ShortestLifetime ==
  ASSUME NEW found \in SUBSET Kinds, found # {}
  PROVE /\ Shortest({Lifetime[k] : k \in found}) \in Nat
        /\ Shortest({Lifetime[k] : k \in found}) > 0
        /\ \A j \in found : Shortest({Lifetime[k] : k \in found}) <= Lifetime[j]
        /\ \E j \in found : Shortest({Lifetime[k] : k \in found}) = Lifetime[j]
<1> DEFINE L == {Lifetime[k] : k \in found}
<1>1. \A k \in found : Lifetime[k] \in Nat /\ Lifetime[k] > 0
  BY KindAssumption
<1>2. L \in SUBSET Nat /\ L # {}
  BY <1>1
<1>3. Shortest(L) \in L /\ \A t \in L : Shortest(L) <= t
  <2> HIDE DEF L
  <2> QED
    BY <1>2, LeastExists DEF Shortest
<1> QED
  BY <1>1, <1>3

\* How long the gate lets a judged clip live.
LEMMA ExpiryBounds ==
  ASSUME NEW p, NEW r \in Reads
  PROVE /\ Expiry(p, r) \in Nat /\ Expiry(p, r) <= SecretTtl
        /\ Findings(p, r) # {} \/ r.rule = "sensitive" <=> Expiry(p, r) # Never
        /\ Findings(p, r) \in SUBSET Kinds
<1>0. SecretTtl \in Nat /\ SecretTtl > 0
  BY KindAssumption
<1>1. Findings(p, r) \in SUBSET Kinds
  BY DEF Findings, Reads
<1>2. CASE Findings(p, r) # {}
  <2> DEFINE s == Shortest({Lifetime[k] : k \in Findings(p, r)})
  <2>1. s \in Nat /\ s > 0
    BY <1>1, <1>2, ShortestLifetime
  <2>2. Expiry(p, r) = AtMost(s, SecretTtl)
    BY <1>2 DEF Expiry
  <2> HIDE DEF s
  <2>3. AtMost(s, SecretTtl) \in Nat /\ AtMost(s, SecretTtl) > 0 /\ AtMost(s, SecretTtl) <= SecretTtl
    BY <1>0, <2>1 DEF AtMost
  <2> QED
    BY <1>1, <1>2, <2>2, <2>3 DEF Never
<1>3. CASE Findings(p, r) = {}
  BY <1>0, <1>1, <1>3 DEF Expiry, Never
<1> QED
  BY <1>2, <1>3

\* What decide stores is judged, or guarded.
LEMMA StoredIsJudged ==
  ASSUME NEW p, NEW r, Stripped(r, Decide(p, r)).stored
  PROVE /\ Stripped(r, Decide(p, r)) = Decide(p, r)
        /\ \/ Decide(p, r) = Guarded /\ Unproven(p, r) /\ p.mode = "guard"
           \/ Decide(p, r) = Judged(p, r) /\ Refusing(Rules(p, r)) = {}
              /\ ~(Unproven(p, r) /\ p.mode = "guard")
BY DEF Stripped, Decide, Skip

\* The four limits of a clip that is kept.
LEMMA JudgedFields ==
  ASSUME NEW p, NEW r \in Reads
  PROVE /\ Judged(p, r).sensitive <=> Findings(p, r) # {} \/ r.rule = "sensitive"
        /\ Judged(p, r).sync <=> ~Judged(p, r).sensitive
        /\ Judged(p, r).ai <=> ~Judged(p, r).sensitive
        /\ Judged(p, r).expires = Expiry(p, r)
        /\ Judged(p, r).memoryOnly <=> Findings(p, r) \intersect InMemory # {}
        /\ Judged(p, r).stored
<1> DEFINE s == Findings(p, r) # {} \/ r.rule = "sensitive"
           m == Findings(p, r) \intersect InMemory # {}
<1>1. s \in BOOLEAN /\ m \in BOOLEAN
  OBVIOUS
<1>2. Judged(p, r) = [stored |-> TRUE, action |-> r.rule, sensitive |-> s, sync |-> ~s, ai |-> ~s,
                      memoryOnly |-> m, expires |-> Expiry(p, r)]
  BY DEF Judged, Capture
<1> HIDE DEF s, m
<1>3. /\ Judged(p, r).sensitive = s /\ Judged(p, r).sync = ~s /\ Judged(p, r).ai = ~s
      /\ Judged(p, r).expires = Expiry(p, r) /\ Judged(p, r).memoryOnly = m /\ Judged(p, r).stored
  BY <1>1, <1>2
<1> QED
  BY <1>1, <1>3 DEF s, m

\* A clip that is sensitive whatever its text says.
LEMMA SensitiveFields ==
  ASSUME NEW m, NEW t
  PROVE /\ Capture("capture", TRUE, m, t).sensitive
        /\ ~Capture("capture", TRUE, m, t).sync /\ ~Capture("capture", TRUE, m, t).ai
        /\ Capture("capture", TRUE, m, t).expires = t
        /\ Capture("capture", TRUE, m, t).memoryOnly = m
        /\ Capture("capture", TRUE, m, t).stored
BY DEF Capture

LEMMA GateContains == GateInv => SecretsAreContained
<1> SUFFICES ASSUME GateInv, outcome.stored
             PROVE /\ Findings(policy, read) # {} \/ read.rule = "sensitive" \/ phase = "recovered"
                        => outcome.sensitive
                   /\ outcome.sensitive <=> outcome.expires # Never
                   /\ outcome.sensitive => ~outcome.sync /\ ~outcome.ai
                   /\ phase = "judged" => outcome.expires <= SecretTtl
  BY DEF SecretsAreContained
<1>0. /\ SecretTtl \in Nat /\ SecretTtl > 0 /\ RecoveryTtl \in Nat /\ RecoveryTtl > 0
      /\ read \in Reads
  BY KindAssumption DEF GateInv
<1>1. CASE phase = "recovered" /\ outcome = Capture("capture", TRUE, TRUE, RecoveryTtl)
  <2>1. /\ outcome.sensitive /\ ~outcome.sync /\ ~outcome.ai
        /\ outcome.expires = RecoveryTtl
    BY <1>1, SensitiveFields
  <2>2. outcome.expires # Never
    BY <1>0, <2>1 DEF Never
  <2> QED
    BY <1>1, <2>1, <2>2
<1>2. CASE phase = "judged" /\ outcome = Guarded
  <2>1. /\ outcome.sensitive /\ ~outcome.sync /\ ~outcome.ai
        /\ outcome.expires = SecretTtl
    BY <1>2, SensitiveFields DEF Guarded
  <2>2. outcome.expires # Never /\ SecretTtl <= SecretTtl
    BY <1>0, <2>1 DEF Never
  <2> QED
    BY <1>2, <2>1, <2>2
<1>3. CASE phase = "judged" /\ outcome = Judged(policy, read)
  BY <1>0, <1>3, JudgedFields, ExpiryBounds
<1> QED
  BY <1>1, <1>2, <1>3, StoredByTheGate, StoredIsJudged

\* One secret more never loosens the limits of a clip.
LEMMA ExpiryTightens ==
  ASSUME NEW p, NEW r \in Reads, NEW k \in Kinds, NEW more \in Reads,
         more = [r EXCEPT !.secrets = @ \union {k}], Expiry(p, r) # Never
  PROVE Expiry(p, more) <= Expiry(p, r)
<1>0. SecretTtl \in Nat /\ SecretTtl > 0
  BY KindAssumption
<1>1. /\ r.secrets \subseteq more.secrets /\ more.rule = r.rule
      /\ Findings(p, r) \subseteq Findings(p, more)
  BY DEF Findings, Reads
<1>2. Findings(p, r) \in SUBSET Kinds /\ Findings(p, more) \in SUBSET Kinds
  BY ExpiryBounds
<1>3. CASE Findings(p, r) # {}
  <2> DEFINE s == Shortest({Lifetime[j] : j \in Findings(p, r)})
             t == Shortest({Lifetime[j] : j \in Findings(p, more)})
  <2>1. PICK j \in Findings(p, r) : s = Lifetime[j]
    BY <1>2, <1>3, ShortestLifetime
  <2>2. t <= Lifetime[j] /\ j \in Kinds
    BY <1>1, <1>2, <1>3, <2>1, ShortestLifetime
  <2>3. t \in Nat /\ s \in Nat
    BY <1>1, <1>2, <1>3, ShortestLifetime
  <2>4. Expiry(p, r) = AtMost(s, SecretTtl) /\ Expiry(p, more) = AtMost(t, SecretTtl)
    BY <1>1, <1>3 DEF Expiry
  <2> HIDE DEF s, t
  <2> QED
    BY <1>0, <2>1, <2>2, <2>3, <2>4 DEF AtMost
<1>4. CASE Findings(p, r) = {}
  <2>1. Expiry(p, r) = SecretTtl
    BY <1>4 DEF Expiry
  <2> QED
    BY <2>1, ExpiryBounds
<1> QED
  BY <1>3, <1>4

\* The checks of decide do not look at the secrets.
LEMMA SecretsAreLast ==
  ASSUME NEW p, NEW r \in Reads, NEW S,
         NEW more, more = [r EXCEPT !.secrets = S]
  PROVE /\ Evidence(p, more) = Evidence(p, r) /\ Rules(p, more) = Rules(p, r)
        /\ Unproven(p, more) = Unproven(p, r) /\ more.content = r.content /\ more.rule = r.rule
<1>1. /\ more.content = r.content /\ more.coherence = r.coherence /\ more.selfWrite = r.selfWrite
      /\ more.selection = r.selection /\ more.concealment = r.concealment
      /\ more.provenance = r.provenance /\ more.excluded = r.excluded /\ more.rule = r.rule
  BY DEF Reads
<1>2. Unproven(p, more) = Unproven(p, r)
  BY <1>1 DEF Unproven
<1> QED
  BY <1>1, <1>2 DEF Evidence, Rules

LEMMA GateTightens == GateInv => FindingsOnlyTighten
<1> SUFFICES ASSUME GateInv, GateStored, read.content = "text", NEW k \in Kinds
             PROVE LET more == Outcome(policy, [read EXCEPT !.secrets = @ \union {k}], FALSE)
                   IN  /\ more.stored
                       /\ outcome.sensitive => more.sensitive /\ more.expires <= outcome.expires
                       /\ outcome.memoryOnly => more.memoryOnly
  BY DEF FindingsOnlyTighten
<1> DEFINE r == [read EXCEPT !.secrets = @ \union {k}]
           more == Outcome(policy, r, FALSE)
<1>1. read \in Reads /\ phase = "judged" /\ outcome.stored
  BY DEF GateInv, GateStored
<1>2. r \in Reads /\ read.secrets \subseteq r.secrets
  BY <1>1 DEF Reads
<1>3. /\ Evidence(policy, r) = Evidence(policy, read) /\ Rules(policy, r) = Rules(policy, read)
      /\ Unproven(policy, r) = Unproven(policy, read) /\ r.content = "text" /\ r.rule = read.rule
  BY <1>1, SecretsAreLast
<1>4. outcome = Stripped(read, Decide(policy, read)) /\ Refusing(Evidence(policy, read)) = {}
  BY <1>1, StoredByTheGate
<1>5. more = Decide(policy, r)
  BY <1>3 DEF Outcome, Stripped
<1>6. outcome = Decide(policy, read)
  BY <1>1, <1>4, StoredIsJudged
<1>7. CASE outcome = Guarded /\ Unproven(policy, read) /\ policy.mode = "guard"
  <2>1. more = Guarded
    BY <1>3, <1>4, <1>5, <1>7 DEF Decide
  <2>2. Guarded.stored /\ Guarded.sensitive /\ Guarded.expires = SecretTtl /\ Guarded.memoryOnly = FALSE
    BY SensitiveFields DEF Guarded
  <2> HIDE DEF more
  <2>3. SecretTtl <= SecretTtl
    BY KindAssumption
  <2> QED
    BY <1>7, <2>1, <2>2, <2>3 DEF more
<1>8. CASE /\ outcome = Judged(policy, read) /\ Refusing(Rules(policy, read)) = {}
           /\ ~(Unproven(policy, read) /\ policy.mode = "guard")
  <2>1. more = Judged(policy, r)
    BY <1>3, <1>4, <1>5, <1>8 DEF Decide
  <2> HIDE DEF r
  <2>2. Findings(policy, read) \subseteq Findings(policy, r)
    BY <1>2 DEF Findings
  <2>3. outcome.sensitive => more.sensitive
    BY <1>1, <1>2, <1>3, <1>8, <2>1, <2>2, JudgedFields
  <2>4. outcome.memoryOnly => more.memoryOnly
    BY <1>1, <1>2, <1>8, <2>1, <2>2, JudgedFields
  <2>5. outcome.sensitive => Expiry(policy, read) # Never
    BY <1>1, <1>8, JudgedFields, ExpiryBounds
  <2>6. Expiry(policy, read) # Never => Expiry(policy, r) <= Expiry(policy, read)
    BY <1>1, <1>2, ExpiryTightens DEF r
  <2>7. more.stored /\ more.expires = Expiry(policy, r) /\ outcome.expires = Expiry(policy, read)
    BY <1>1, <1>2, <1>8, <2>1, JudgedFields
  <2> QED
    BY <2>3, <2>4, <2>5, <2>6, <2>7 DEF r
<1> QED
  BY <1>1, <1>4, <1>6, <1>7, <1>8, StoredIsJudged

\* The user's toggle of the detectors does not reach a one-time password.
LEMMA GateSpares == GateInv => ToggleSparesOneTimePasswords
<1> SUFFICES ASSUME GateInv, phase = "judged", read.secrets = {OneTimePassword}
             PROVE outcome = Outcome([policy EXCEPT !.detect = ~@], read, FALSE)
  BY DEF ToggleSparesOneTimePasswords
<1> DEFINE q == [policy EXCEPT !.detect = ~@]
<1>1. outcome = Stripped(read, Decide(policy, read))
  BY DEF GateInv, OutcomeIsTheGates, Outcome
<1>2. q.mode = policy.mode /\ q.armed = policy.armed /\ q.skipBlank = policy.skipBlank
  BY DEF GateInv, Policies
<1>3. Findings(q, read) = Findings(policy, read)
  BY DEF Findings
<1> HIDE DEF q
<1>4. Unproven(q, read) = Unproven(policy, read)
  BY <1>2 DEF Unproven
<1>5. Evidence(q, read) = Evidence(policy, read) /\ Rules(q, read) = Rules(policy, read)
  BY <1>2, <1>4 DEF Evidence, Rules
<1>6. Judged(q, read) = Judged(policy, read)
  BY <1>3 DEF Judged, Expiry
<1>7. Decide(q, read) = Decide(policy, read)
  BY <1>2, <1>4, <1>5, <1>6 DEF Decide
<1>8. Outcome(q, read, FALSE) = Stripped(read, Decide(q, read))
  BY DEF Outcome
<1> QED
  BY <1>1, <1>7, <1>8 DEF q

\* decide and run_worker, for every policy, table of lifetimes and read: what
\* Skip mode cannot prove is not stored, nor what was refused for good, not
\* even when the user asks for it back.
THEOREM GateIsClosed == Spec => []GateFailsClosed
<1> QED
  BY GateStart, GateStep, GateFails, PTL DEF Spec

\* actionable_findings and decide: whichever branch stores a read, every
\* finding is contained, one more secret only tightens the limits, and the
\* toggle spares one-time passwords.
THEOREM SecretsAreKept == Spec => []FindingsAreHonoured
<1>1. GateInv => FindingsAreHonoured
  BY GateContains, GateTightens, GateSpares DEF FindingsAreHonoured
<1> QED
  BY GateStart, GateStep, <1>1, PTL DEF Spec

-----------------------------------------------------------------------------
(* UpdateVerifier: what a release has to get past *)

Spans == [from : 0..Forever, until : 0..Forever]
Rings == UNION {[keys -> Spans] : keys \in SUBSET KeyIds}

\* Some key of the ring can sign every release after the watermark.
Signs(ring, top) ==
    \A s \in Sequences : s > top => \E k \in DOMAIN ring : Active(ring, k, s)

\* The ring still holds every key that was accepted, retired no later.
Recalls(ring, told) ==
    \A k \in DOMAIN told : k \in DOMAIN ring /\ ring[k].until <= told[k].until

UpdShape ==
    /\ verifier \in [open : BOOLEAN, keyring : Rings, highest : 0..MaxSequence]
    /\ stateFile \in [is : {"absent", "whole", "damaged"}, keyring : Rings, highest : 0..MaxSequence]
    /\ history \in [top : 0..MaxSequence, keyring : Rings]
    /\ version \in Sequences /\ due \in 0..MaxSequence

\* A restart reads the file, so the file keeps every promise of memory.
UpdInv ==
    /\ UpdShape
    /\ Signs(verifier.keyring, verifier.highest) /\ Signs(stateFile.keyring, stateFile.highest)
    /\ verifier.open => Recalls(verifier.keyring, history.keyring)
    /\ Recalls(stateFile.keyring, history.keyring)
    /\ WatermarkCoversAccepted /\ DueIsNewer

LEMMA BootstrapRing ==
  /\ Bootstrap \in Rings /\ Signs(Bootstrap, 0) /\ Recalls(Bootstrap, Bootstrap)
<1>1. /\ MaxSequence \in Nat /\ Forever \in Nat /\ Forever > MaxSequence /\ FirstKey \in KeyIds
  BY UpdateAssumption DEF Forever
<1>2. [from |-> 0, until |-> Forever] \in Spans
  BY <1>1 DEF Spans
<1>3. Bootstrap \in [{FirstKey} -> Spans] /\ {FirstKey} \in SUBSET KeyIds
  BY <1>1, <1>2 DEF Bootstrap
<1>4. /\ DOMAIN Bootstrap = {FirstKey} /\ Bootstrap[FirstKey].from = 0
      /\ Bootstrap[FirstKey].until = Forever
  BY DEF Bootstrap
<1>5. \A s \in Sequences : Active(Bootstrap, FirstKey, s)
  BY <1>1, <1>4 DEF Active, Sequences
<1> QED
  BY <1>1, <1>3, <1>4, <1>5 DEF Rings, Signs, Recalls

\* A rotation adds one key, ends one, and leaves no sequence without a signer.
LEMMA RotatedRing ==
  ASSUME NEW ring \in Rings, NEW m \in Manifests, NEW top \in 0..MaxSequence,
         Signs(ring, top), m.sequence > top, m.at > m.sequence,
         m.key \in DOMAIN ring, Rotates(m) => m.next \notin DOMAIN ring
  PROVE /\ Rotated(ring, m) \in Rings
        /\ Signs(Rotated(ring, m), m.sequence)
        /\ Recalls(Rotated(ring, m), ring)
<1>0. /\ MaxSequence \in Nat /\ Forever \in Nat /\ Forever > MaxSequence
      /\ m.at \in Nat /\ m.at <= Forever /\ m.sequence \in Sequences
      /\ m.next \in KeyIds
  BY UpdateAssumption DEF Forever, Manifests, Sequences
<1>1. PICK keys \in SUBSET KeyIds : ring \in [keys -> Spans]
  BY DEF Rings
<1>2. \A k \in keys : ring[k].from \in 0..Forever /\ ring[k].until \in 0..Forever
  BY <1>1 DEF Spans
<1>3. DOMAIN ring = keys
  BY <1>1
<1>4. CASE ~Rotates(m)
  <2>1. Rotated(ring, m) = ring
    BY <1>4 DEF Rotated
  <2>2. Signs(ring, m.sequence)
    BY <1>0 DEF Signs, Sequences
  <2>3. Recalls(ring, ring)
    BY <1>0, <1>2, <1>3 DEF Recalls
  <2> QED
    BY <2>1, <2>2, <2>3
<1>5. CASE Rotates(m)
  <2> DEFINE trusted == [k \in DOMAIN ring \cup {m.next} |->
                           IF k = m.next THEN [from |-> m.at, until |-> Forever] ELSE ring[k]]
             end == IF trusted[m.key].until < m.at THEN trusted[m.key].until ELSE m.at
             ended == [trusted EXCEPT ![m.key].until = end]
  <2>1. Rotated(ring, m) = ended
    BY <1>5 DEF Rotated, Superseded
  <2>2. m.key # m.next /\ m.key \in keys /\ m.next \notin keys
    BY <1>3, <1>5
  <2>3. trusted \in [keys \cup {m.next} -> Spans]
    BY <1>0, <1>1, <1>3 DEF Spans
  <2>4. trusted[m.key] = ring[m.key]
        /\ trusted[m.next] = [from |-> m.at, until |-> Forever]
        /\ \A k \in keys : trusted[k] = ring[k]
    BY <1>3, <2>2
  <2>5. end \in 0..Forever /\ end <= ring[m.key].until /\ end <= m.at
        /\ (end = ring[m.key].until \/ end = m.at)
    BY <1>0, <1>2, <2>2, <2>4
  <2> HIDE DEF end
  <2>6. ended = [k \in keys \cup {m.next} |->
                   IF k = m.key THEN [from |-> ring[k].from, until |-> end] ELSE trusted[k]]
    <3>1. DOMAIN trusted = keys \cup {m.next}
      BY <1>3
    <3>2. trusted[m.key] \in Spans
      BY <2>2, <2>3
    <3>3. [trusted[m.key] EXCEPT !.until = end] = [from |-> ring[m.key].from, until |-> end]
      BY <3>2, <2>4 DEF Spans
    <3> HIDE DEF trusted
    <3> QED
      BY <2>2, <3>1, <3>3
  <2> HIDE DEF trusted, ended
  <2>7. /\ DOMAIN ended = keys \cup {m.next}
        /\ ended[m.key] = [from |-> ring[m.key].from, until |-> end]
        /\ ended[m.next] = [from |-> m.at, until |-> Forever]
        /\ \A k \in keys \ {m.key} : ended[k] = ring[k]
    BY <2>2, <2>4, <2>6
  <2>8. ended \in Rings
    <3>1. \A k \in keys \cup {m.next} : ended[k] \in Spans
      BY <1>0, <1>1, <1>2, <2>2, <2>5, <2>7 DEF Spans
    <3>2. ended \in [keys \cup {m.next} -> Spans]
      BY <2>6, <2>7, <3>1
    <3> QED
      BY <1>0, <3>2 DEF Rings
  <2>9. Recalls(ended, ring)
    BY <1>2, <1>3, <2>2, <2>5, <2>7, <1>0 DEF Recalls
  <2>10. Signs(ended, m.sequence)
    <3> SUFFICES ASSUME NEW s \in Sequences, s > m.sequence
                 PROVE \E k \in DOMAIN ended : Active(ended, k, s)
      BY DEF Signs
    <3>0. s \in Nat /\ s <= MaxSequence /\ s > top
      BY <1>0 DEF Sequences
    <3>1. CASE s >= m.at
      <4>1. Active(ended, m.next, s)
        BY <1>0, <2>7, <3>0, <3>1 DEF Active
      <4> QED
        BY <2>7, <4>1
    <3>2. CASE ~(s >= m.at)
      <4>1. PICK k \in keys : Active(ring, k, s)
        BY <1>3, <3>0 DEF Signs
      <4>2. CASE k = m.key
        <5>1. ended[k].from <= s /\ s < ended[k].until
          BY <1>0, <1>2, <2>5, <2>7, <3>0, <3>2, <4>1, <4>2 DEF Active
        <5> QED
          BY <2>7, <5>1 DEF Active
      <4>3. CASE k # m.key
        BY <2>7, <4>1, <4>3 DEF Active
      <4> QED
        BY <4>2, <4>3
    <3> QED
      BY <3>1, <3>2
  <2> QED
    BY <2>1, <2>8, <2>9, <2>10
<1> QED
  BY <1>4, <1>5

\* What is recalled of what is recalled is recalled.
LEMMA RecallsChain ==
  ASSUME NEW a \in Rings, NEW b \in Rings, NEW c \in Rings, Recalls(a, b), Recalls(b, c)
  PROVE Recalls(a, c)
<1>1. \A ring \in Rings : \A k \in DOMAIN ring : ring[k].until \in Nat
  BY UpdateAssumption DEF Rings, Spans, Forever
<1> QED
  BY <1>1 DEF Recalls

LEMMA UpdStart == UpdInit => UpdInv
<1> SUFFICES ASSUME UpdInit PROVE UpdInv
  OBVIOUS
<1>1. MaxSequence \in Nat /\ MaxSequence >= 1
  BY UpdateAssumption
<1>2. UpdShape
  BY <1>1, BootstrapRing DEF UpdInit, UpdShape, Closed, Sequences, NoUpdate
<1> QED
  BY <1>1, <1>2, BootstrapRing
  DEF UpdInit, UpdInv, Closed, NoUpdate, WatermarkCoversAccepted, DueIsNewer

LEMMA UpdStep == UpdInv /\ [UpdNext]_updVars => UpdInv'
<1> SUFFICES ASSUME UpdInv, [UpdNext]_updVars PROVE UpdInv'
  OBVIOUS
<1> USE DEF UpdInv
<1>0. MaxSequence \in Nat /\ MaxSequence >= 1
  BY UpdateAssumption
<1>00. /\ verifier.keyring \in Rings /\ verifier.highest \in 0..MaxSequence
       /\ stateFile.keyring \in Rings /\ stateFile.highest \in 0..MaxSequence
       /\ history.keyring \in Rings /\ history.top \in 0..MaxSequence
  BY DEF UpdShape
<1>1. ASSUME NEW m \in Manifests, VerifyAndStore(m) PROVE UpdInv'
  <2> DEFINE ring == Rotated(verifier.keyring, m)
             written == [is |-> "whole", keyring |-> ring, highest |-> m.sequence]
  <2>1. /\ verifier.open /\ m.at > m.sequence /\ m.key \in DOMAIN verifier.keyring
        /\ m.sequence > verifier.highest /\ m.version > version
        /\ Rotates(m) => m.next \notin DOMAIN verifier.keyring
    BY <1>1 DEF VerifyAndStore, Valid, Verifies, Active
  <2>2. /\ m.sequence \in Sequences /\ m.version \in Sequences
        /\ m.sequence \in 0..MaxSequence /\ m.version \in 0..MaxSequence
    BY <1>0 DEF Manifests, Sequences
  <2>3. ring \in Rings /\ Signs(ring, m.sequence) /\ Recalls(ring, verifier.keyring)
    BY <2>1, <1>00, RotatedRing
  <2>4. \/ /\ stateFile' = written
           /\ verifier' = [verifier EXCEPT !.keyring = ring, !.highest = m.sequence]
           /\ due' = m.version
           /\ history' = [top |-> m.sequence, keyring |-> ring]
           /\ UNCHANGED <<version, decays>>
        \/ stateFile' = written /\ UNCHANGED <<verifier, version, due, history, decays>>
    BY <1>1 DEF VerifyAndStore
  <2> HIDE DEF ring
  <2>5. written \in [is : {"absent", "whole", "damaged"}, keyring : Rings, highest : 0..MaxSequence]
        /\ written.keyring = ring /\ written.highest = m.sequence
    BY <2>2, <2>3
  <2>6. Recalls(ring, history.keyring)
    BY <2>1, <2>3, <1>00, RecallsChain
  <2> HIDE DEF written
  <2>7. CASE /\ stateFile' = written
             /\ verifier' = [verifier EXCEPT !.keyring = ring, !.highest = m.sequence]
             /\ due' = m.version
             /\ history' = [top |-> m.sequence, keyring |-> ring]
             /\ UNCHANGED <<version, decays>>
    <3>1. /\ verifier' \in [open : BOOLEAN, keyring : Rings, highest : 0..MaxSequence]
          /\ verifier'.keyring = ring /\ verifier'.highest = m.sequence
      BY <2>2, <2>3, <2>7 DEF UpdShape
    <3>2. /\ history' \in [top : 0..MaxSequence, keyring : Rings]
          /\ history'.keyring = ring /\ history'.top = m.sequence
      BY <2>2, <2>3, <2>7
    <3>3. UpdShape'
      BY <2>2, <2>5, <2>7, <3>1, <3>2 DEF UpdShape
    <3>4. Recalls(ring, ring)
      <4>1. \A k \in DOMAIN ring : ring[k].until \in Nat
        BY <2>3, UpdateAssumption DEF Rings, Spans, Forever
      <4> QED
        BY <4>1 DEF Recalls
    <3>5. WatermarkCoversAccepted'
      BY <2>2, <2>5, <2>7, <3>1, <3>2, <1>0 DEF WatermarkCoversAccepted
    <3>6. DueIsNewer'
      BY <2>1, <2>7 DEF DueIsNewer
    <3> QED
      BY <2>3, <2>5, <2>7, <3>1, <3>2, <3>3, <3>4, <3>5, <3>6
  <2>8. CASE stateFile' = written /\ UNCHANGED <<verifier, version, due, history, decays>>
    <3>1. UpdShape'
      BY <2>5, <2>8 DEF UpdShape
    <3>2. history.top <= m.sequence
      BY <2>1, <2>2, <1>00, <1>0 DEF WatermarkCoversAccepted
    <3>3. WatermarkCoversAccepted'
      BY <2>5, <2>8, <3>2 DEF WatermarkCoversAccepted
    <3> QED
      BY <2>3, <2>5, <2>6, <2>8, <3>1, <3>3 DEF DueIsNewer
  <2> QED
    BY <2>4, <2>7, <2>8
<1>2. CASE Load
  <2>1. /\ verifier' = [open |-> TRUE, keyring |-> stateFile.keyring, highest |-> stateFile.highest]
        /\ UNCHANGED <<stateFile, version, due, history, decays>>
    BY <1>2 DEF Load
  <2>2. /\ verifier' \in [open : BOOLEAN, keyring : Rings, highest : 0..MaxSequence]
        /\ verifier'.keyring = stateFile.keyring /\ verifier'.highest = stateFile.highest
    BY <2>1, <1>00
  <2> QED
    BY <2>1, <2>2 DEF UpdShape, WatermarkCoversAccepted, DueIsNewer
<1>3. CASE Install
  <2>1. version' \in Sequences
    BY <1>0, <1>3 DEF Install, UpdShape, NoUpdate, Sequences
  <2>2. due' = NoUpdate /\ UNCHANGED <<verifier, stateFile, history, decays>>
    BY <1>3 DEF Install
  <2> QED
    BY <1>0, <2>1, <2>2 DEF UpdShape, WatermarkCoversAccepted, DueIsNewer, NoUpdate
<1>4. CASE Restart
  <2>1. /\ verifier' = Closed /\ due' = NoUpdate /\ UNCHANGED <<stateFile, version, history, decays>>
    BY <1>4 DEF Restart
  <2>2. /\ Closed \in [open : BOOLEAN, keyring : Rings, highest : 0..MaxSequence]
        /\ Closed.keyring = Bootstrap /\ Closed.highest = 0 /\ ~Closed.open
    BY <1>0, BootstrapRing DEF Closed
  <2> QED
    BY <1>0, <2>1, <2>2, BootstrapRing DEF UpdShape, WatermarkCoversAccepted, DueIsNewer, NoUpdate
<1>5. CASE FileDecays
  <2>1. /\ stateFile' = [stateFile EXCEPT !.is = "damaged"]
        /\ UNCHANGED <<verifier, version, due, history>>
    BY <1>5 DEF FileDecays
  <2>2. /\ stateFile' \in [is : {"absent", "whole", "damaged"}, keyring : Rings, highest : 0..MaxSequence]
        /\ stateFile'.keyring = stateFile.keyring /\ stateFile'.highest = stateFile.highest
    BY <2>1 DEF UpdShape
  <2> QED
    BY <2>1, <2>2 DEF UpdShape, WatermarkCoversAccepted, DueIsNewer
<1>6. CASE Reprovision
  <2>1. /\ stateFile' = [is |-> "absent", keyring |-> Bootstrap, highest |-> 0]
        /\ history' = [top |-> 0, keyring |-> Bootstrap]
        /\ ~verifier.open /\ UNCHANGED <<verifier, version, due>>
    BY <1>6 DEF Reprovision
  <2>2. /\ stateFile' \in [is : {"absent", "whole", "damaged"}, keyring : Rings, highest : 0..MaxSequence]
        /\ history' \in [top : 0..MaxSequence, keyring : Rings]
        /\ stateFile'.keyring = Bootstrap /\ stateFile'.highest = 0
        /\ history'.keyring = Bootstrap /\ history'.top = 0
    BY <1>0, <2>1, BootstrapRing
  <2> QED
    BY <1>0, <2>1, <2>2, BootstrapRing DEF UpdShape, WatermarkCoversAccepted, DueIsNewer
<1>7. CASE UNCHANGED updVars
  BY <1>7 DEF updVars, UpdShape, WatermarkCoversAccepted, DueIsNewer
<1> QED
  BY <1>1, <1>2, <1>3, <1>4, <1>5, <1>6, <1>7 DEF UpdNext

LEMMA UpdKeeps == UpdInv => UpdateSafety
<1> SUFFICES ASSUME UpdInv PROVE UpdateSafety
  OBVIOUS
<1>1. \A ring \in Rings : Keyrings(ring)
  BY DEF Rings, Spans, Keyrings
<1>2. UpdTypeOK
  BY <1>1 DEF UpdInv, UpdShape, UpdTypeOK
<1>3. RetiredStaysRetired
  BY DEF UpdInv, RetiredStaysRetired, Recalls
<1>4. SomeoneCanSign
  BY DEF UpdInv, SomeoneCanSign, Signs
<1> QED
  BY <1>2, <1>3, <1>4 DEF UpdInv, UpdateSafety

\* verify_and_store and load, for every set of keys: across failed writes,
\* deaths, damaged files and rotations that overlap, a retired key stays
\* retired, an accepted release is not accepted again, and some key can sign
\* every release to come.
THEOREM ReleasesAreSafe == UpdSpec => []UpdateSafety
<1> QED
  BY UpdStart, UpdStep, UpdKeeps, PTL DEF UpdSpec

-----------------------------------------------------------------------------
(* PopupActions: what was captured for memory only stays there *)

\* Whatever the popup can still act on, and whatever an undo can put back, is
\* remembered as captured for memory only (volatile_origins).
OriginsAreKnown ==
    /\ view \cap private \subseteq origins
    /\ undo.kind = "delete" => /\ undo.clip \in PopClips
                               /\ undo.clip \in private => undo.clip \in origins

PopInv == PopupSafety /\ IsFiniteSet(volatile) /\ OriginsAreKnown

\* insert_volatile leaves a finite lane within its cap, of remembered origins.
LEMMA LaneStep ==
  ASSUME IsFiniteSet(volatile), volatile \subseteq origins, NEW c, InsertVolatile(c)
  PROVE /\ IsFiniteSet(volatile') /\ volatile' \subseteq origins' /\ Cardinality(volatile') <= VolatileCap
        /\ origins' = origins \cup {c} /\ volatile' \subseteq volatile \cup {c} /\ UNCHANGED <<rows, pins>>
<1>1. PICK kept \in SUBSET (volatile \ {c}) : volatile' = kept \cup {c}
  BY DEF InsertVolatile
<1>2. volatile' \subseteq volatile \cup {c}
  BY <1>1
<1>3. IsFiniteSet(volatile \cup {c})
  BY FS_AddElement
<1>4. IsFiniteSet(volatile')
  BY <1>2, <1>3, FS_Subset
<1> QED
  BY <1>2, <1>4 DEF InsertVolatile

\* A clip that leaves makes the lane no larger.
LEMMA LaneShrinks ==
  ASSUME IsFiniteSet(volatile), Cardinality(volatile) <= VolatileCap, NEW c
  PROVE IsFiniteSet(volatile \ {c}) /\ Cardinality(volatile \ {c}) <= VolatileCap
<1>1. IsFiniteSet(volatile \ {c}) /\ Cardinality(volatile \ {c}) <= Cardinality(volatile)
  BY FS_Subset
<1>2. Cardinality(volatile) \in Nat /\ Cardinality(volatile \ {c}) \in Nat
  BY <1>1, FS_CardinalityType
<1> QED
  BY <1>1, <1>2, PopupAssumption

LEMMA EmptyLane == IsFiniteSet({}) /\ Cardinality({}) <= VolatileCap
BY FS_EmptySet, PopupAssumption

LEMMA PopStart == PopInit => PopInv
<1> SUFFICES ASSUME PopInit PROVE PopInv
  OBVIOUS
<1>1. Stored = {}
  BY DEF PopInit, Stored
<1> QED
  BY <1>1, EmptyLane DEF PopInit, PopInv, PopupSafety, PopTypeOK, PrivateStaysInMemory, RowsAreWhole,
     PeekIsAttended, OriginsAreKnown, NoUndo, Known

\* What insert and the removal of rows do to the store.
LEMMA InsertStep ==
  ASSUME RowsAreWhole, NEW c, rows' = WithClip(c, "whole")
  PROVE Stored' = Stored \cup {c} /\ RowsAreWhole'
BY DEF RowsAreWhole, Stored, WithClip

LEMMA RemovalStep ==
  ASSUME RowsAreWhole, NEW S, rows' = WithoutClips(S)
  PROVE Stored' = Stored \ S /\ RowsAreWhole'
BY DEF RowsAreWhole, Stored, WithoutClips

LEMMA PopStep == PopInv /\ [PopNext]_popVars => PopInv'
<1> SUFFICES ASSUME PopInv, [PopNext]_popVars PROVE PopInv'
  OBVIOUS
<1> USE DEF PopInv, PopupSafety, PopTypeOK, PrivateStaysInMemory, RowsAreWhole, PeekIsAttended,
            OriginsAreKnown, Known, Stored, laneVars, clipVars, faceVars
<1>1. ASSUME NEW c \in PopClips, NEW b \in BOOLEAN, CaptureNew(c, b) PROVE PopInv'
  <2>1. c \notin Known \cup private /\ UNCHANGED <<original, view, popup, dialog, undo, peek>>
    BY <1>1 DEF CaptureNew, Fresh
  <2>2. CASE b
    <3>1. InsertVolatile(c) /\ private' = private \cup {c}
      BY <1>1, <2>2 DEF CaptureNew
    <3> QED
      BY <2>1, <3>1, LaneStep
  <2>3. CASE ~b
    <3>1. rows' = WithClip(c, "whole") /\ UNCHANGED <<pins, volatile, origins, private>>
      BY <1>1, <2>3 DEF CaptureNew, Insert
    <3>2. Stored' = Stored \cup {c} /\ RowsAreWhole'
      BY <3>1, InsertStep DEF RowsAreWhole
    <3> QED
      BY <2>1, <3>1, <3>2
  <2> QED
    BY <2>2, <2>3
<1>2. ASSUME NEW c \in PopClips, NEW b \in BOOLEAN, TogglePin(c, b) PROVE PopInv'
  <2>1. UNCHANGED <<rows, volatile, origins, private, original, view, popup, dialog, peek>>
        /\ pins' \subseteq Stored
    BY <1>2 DEF TogglePin, SetPinned
  <2>2. undo'.kind = "pin"
    BY <1>2 DEF TogglePin, Slot
  <2> QED
    BY <2>1, <2>2
<1>3. ASSUME NEW c \in PopClips, ClipLeaves(c) PROVE PopInv'
  <2>1. /\ rows' = WithoutClips({c}) /\ pins' = pins \ {c} /\ volatile' = volatile \ {c}
        /\ UNCHANGED <<origins, private, original, view, popup, dialog, undo, peek>>
    BY <1>3 DEF ClipLeaves
  <2>2. Stored' = Stored \ {c} /\ RowsAreWhole'
    BY <2>1, RemovalStep
  <2> QED
    BY <2>1, <2>2, LaneShrinks
<1>4. ASSUME NEW c \in PopClips, PeekAt(c) \/ AskDelete(c) PROVE PopInv'
  BY <1>4 DEF PeekAt, AskDelete, Shown
<1>5. ASSUME NEW c \in PopClips, NEW d \in PopClips, CreatePlainTextClone(c, d) PROVE PopInv'
  <2>1. /\ c \in view /\ c \in Known /\ d \notin Known \cup private /\ CloneInto(c, d)
        /\ private' = IF c \in private THEN private \cup {d} ELSE private
        /\ UNCHANGED <<original, view, popup, dialog, undo, peek>>
    BY <1>5 DEF CreatePlainTextClone, Fresh
  <2>2. CASE c \in origins
    <3>1. InsertVolatile(d)
      BY <2>1, <2>2 DEF CloneInto, IsMemoryOnly
    <3> QED
      BY <2>1, <3>1, LaneStep
  <2>3. CASE c \notin origins
    <3>1. c \notin private
      BY <2>1, <2>3
    <3>2. rows' = WithClip(d, "whole") /\ UNCHANGED <<pins, volatile, origins, private>>
      BY <2>1, <2>3, <3>1 DEF CloneInto, IsMemoryOnly, Insert
    <3>3. Stored' = Stored \cup {d} /\ RowsAreWhole'
      BY <3>2, InsertStep DEF RowsAreWhole
    <3> QED
      BY <2>1, <3>2, <3>3
  <2> QED
    BY <2>2, <2>3
<1>6. CASE Refresh
  BY <1>6 DEF Refresh
<1>7. CASE RestartPopup
  <2>1. /\ volatile' = {} /\ origins' = {} /\ view' = Stored /\ popup' = "hidden"
        /\ dialog' = Nothing /\ undo' = NoUndo /\ peek' = Nothing /\ UNCHANGED <<rows, pins, private>>
    BY <1>7 DEF RestartPopup
  <2> QED
    BY <2>1, EmptyLane DEF NoUndo
<1>8. CASE ShowPopup \/ HidePopup \/ FocusMoves \/ AskClear \/ Cancel
  BY <1>8 DEF ShowPopup, HidePopup, Hidden, FocusMoves, AskClear, Cancel
<1>9. CASE PopTick
  <2>1. UNCHANGED <<rows, pins, volatile, origins, private, view, popup, dialog>>
        /\ peek' \in {peek, Nothing} /\ undo' \in {undo, NoUndo}
    BY <1>9 DEF PopTick
  <2> QED
    BY <2>1 DEF NoUndo
<1>10. CASE ConfirmDelete
  <2> DEFINE c == dialog
  <2>1. /\ c \in PopClips /\ dialog' = Nothing /\ Deletion(c)
        /\ undo' = IF c \in view THEN Slot("delete", c, FALSE) ELSE undo
        /\ UNCHANGED <<origins, private, view, popup, peek>>
    BY <1>10 DEF ConfirmDelete
  <2>2. undo'.kind = "delete" => /\ undo'.clip \in PopClips
                                 /\ undo'.clip \in private => undo'.clip \in origins
    <3>1. CASE c \in view
      BY <2>1, <3>1 DEF Slot
    <3>2. CASE c \notin view
      BY <2>1, <3>2
    <3> QED
      BY <3>1, <3>2
  <2>3. \/ volatile' = volatile \ {c} /\ UNCHANGED <<rows, pins>>
        \/ UNCHANGED <<volatile, rows, pins>>
        \/ rows' = WithoutClips({c}) /\ pins' = pins \ {c} /\ UNCHANGED volatile
    BY <2>1 DEF Deletion
  <2> HIDE DEF c
  <2>4. /\ IsFiniteSet(volatile') /\ Cardinality(volatile') <= VolatileCap
        /\ volatile' \subseteq volatile
    BY <2>3, LaneShrinks
  <2>5. /\ Stored' \subseteq Stored /\ pins' \subseteq Stored'
        /\ RowsAreWhole'
    BY <2>3, RemovalStep
  <2> QED
    BY <2>1, <2>2, <2>4, <2>5
<1>11. CASE ConfirmClear
  <2>1. /\ dialog' = Nothing /\ volatile' = {} /\ rows' = WithoutClips(Stored \ pins)
        /\ UNCHANGED <<pins, origins, private, view, popup, undo, peek>>
    BY <1>11 DEF ConfirmClear
  <2>2. /\ Stored' = pins /\ RowsAreWhole'
    <3> DEFINE gone == Stored \ pins
    <3>1. rows' = WithoutClips(gone) /\ Stored \ gone = pins
      BY <2>1
    <3> HIDE DEF gone
    <3>2. Stored' = Stored \ gone /\ RowsAreWhole'
      BY <3>1, RemovalStep
    <3> QED
      BY <3>1, <3>2
  <2> QED
    BY <2>1, <2>2, EmptyLane
<1>12. CASE ApplyUndo
  <2>1. /\ undo' = NoUndo /\ UNCHANGED <<private, view, popup, dialog, peek>>
        /\ \/ /\ undo.kind = "pin" /\ SetPinned(undo.clip, undo.pinned)
              /\ UNCHANGED <<rows, volatile, origins, original>>
           \/ undo.kind = "delete" /\ Restore(undo.clip)
    BY <1>12 DEF ApplyUndo
  <2>2. undo'.kind # "delete"
    BY <2>1 DEF NoUndo
  <2>3. CASE SetPinned(undo.clip, undo.pinned) /\ UNCHANGED <<rows, volatile, origins, original>>
    <3>1. pins' \subseteq Stored
      BY <2>3 DEF SetPinned
    <3> QED
      BY <2>1, <2>2, <2>3, <3>1
  <2>4. CASE undo.kind = "delete" /\ Restore(undo.clip)
    <3> DEFINE c == undo.clip
    <3>1. c \in PopClips /\ (c \in private => c \in origins)
      BY <2>4
    <3> HIDE DEF c
    <3>2. \/ UNCHANGED <<rows, pins, volatile, origins>>
          \/ c \in origins /\ InsertVolatile(c)
          \/ c \notin origins /\ rows' = WithClip(c, "whole") /\ UNCHANGED <<pins, volatile, origins>>
      BY <2>4 DEF Restore, Body, Insert, IsMemoryOnly, c
    <3>3. CASE UNCHANGED <<rows, pins, volatile, origins>>
      BY <2>1, <2>2, <3>3
    <3>4. CASE InsertVolatile(c)
      BY <2>1, <2>2, <3>1, <3>4, LaneStep
    <3>5. CASE c \notin origins /\ rows' = WithClip(c, "whole") /\ UNCHANGED <<pins, volatile, origins>>
      <4>1. Stored' = Stored \cup {c} /\ RowsAreWhole'
        BY <3>5, InsertStep DEF RowsAreWhole
      <4> QED
        BY <2>1, <2>2, <3>1, <3>5, <4>1
    <3> QED
      BY <3>2, <3>3, <3>4, <3>5
  <2> QED
    BY <2>1, <2>3, <2>4
<1>13. CASE UNCHANGED popVars
  BY <1>13 DEF popVars
<1> QED
  BY <1>1, <1>2, <1>3, <1>4, <1>5, <1>6, <1>7, <1>8, <1>9, <1>10, <1>11, <1>12, <1>13 DEF PopNext

\* insert_volatile, restore, plain_text_clone and set_pinned: whatever the user
\* does on a stale snapshot, and whatever fails, a clip captured for memory only
\* never reaches the database, an undo restores whole clips, and a reveal ends
\* with the focus.
THEOREM PopupIsSafe == PopSpec => []PopupSafety
<1>1. PopInv => PopupSafety
  BY DEF PopInv
<1> QED
  BY PopStart, PopStep, <1>1, PTL DEF PopSpec

-----------------------------------------------------------------------------
(* PasteQueue: what an undo takes back *)

Items == [id : Nat, added : BOOLEAN]

\* Every item has an id of its own, given out before now; what is offered for
\* undo is an id that was given out, to an item that was added for it.
IdsAreSpent ==
    /\ offered <= lastItem
    /\ \A i \in DOMAIN stack : stack[i].id \in 1..lastItem
    /\ \A i, j \in DOMAIN stack : stack[i].id = stack[j].id => i = j
    /\ \A i \in DOMAIN stack : stack[i].id = offered => stack[i].added

QueueInv ==
    /\ stack \in Seq(Items) /\ lastItem \in Nat /\ offered \in Nat
    /\ Len(stack) <= StackCap
    /\ IdsAreSpent

\* RemoveAt: the items behind i move up by one.
LEMMA RemoveAtIs ==
  ASSUME NEW S, NEW s \in Seq(S), NEW i \in DOMAIN s
  PROVE /\ RemoveAt(s, i) \in Seq(S) /\ Len(RemoveAt(s, i)) = Len(s) - 1
        /\ DOMAIN RemoveAt(s, i) = 1..Len(s) - 1
        /\ \A j \in 1..Len(s) - 1 : RemoveAt(s, i)[j] = s[IF j < i THEN j ELSE j + 1]
<1>0. Len(s) \in Nat /\ DOMAIN s = 1..Len(s) /\ i \in 1..Len(s)
  OBVIOUS
<1> DEFINE a == SubSeq(s, 1, i - 1)
           b == SubSeq(s, i + 1, Len(s))
<1>1. \A j \in DOMAIN s : s[j] \in S
  OBVIOUS
<1>2. a \in Seq(S) /\ Len(a) = i - 1 /\ \A j \in 1..i - 1 : a[j] = s[j]
  <2>1. \A j \in 1..i - 1 : s[j] \in S
    BY <1>0, <1>1
  <2>2. /\ a \in Seq(S) /\ Len(a) = IF 1 <= i - 1 THEN i - 1 - 1 + 1 ELSE 0
        /\ \A j \in 1..i - 1 - 1 + 1 : a[j] = s[1 + j - 1]
    BY <1>0, <2>1, SubSeqProperties
  <2> HIDE DEF a
  <2> QED
    BY <1>0, <2>2
<1>3. /\ b \in Seq(S) /\ Len(b) = Len(s) - i /\ \A j \in 1..Len(s) - i : b[j] = s[i + j]
  <2>1. \A j \in i + 1..Len(s) : s[j] \in S
    BY <1>0, <1>1
  <2>2. /\ b \in Seq(S) /\ Len(b) = IF i + 1 <= Len(s) THEN Len(s) - (i + 1) + 1 ELSE 0
        /\ \A j \in 1..Len(s) - (i + 1) + 1 : b[j] = s[i + 1 + j - 1]
    BY <1>0, <2>1, SubSeqProperties
  <2> HIDE DEF b
  <2>3. Len(s) - (i + 1) + 1 = Len(s) - i /\ (~(i + 1 <= Len(s)) => Len(s) - i = 0)
    BY <1>0
  <2>4. \A j \in 1..Len(s) - i : i + 1 + j - 1 = i + j
    BY <1>0
  <2> QED
    BY <2>2, <2>3, <2>4
<1>4. RemoveAt(s, i) = a \o b
  BY DEF RemoveAt
<1> HIDE DEF a, b
<1>5. /\ a \o b \in Seq(S) /\ Len(a \o b) = Len(a) + Len(b)
      /\ \A j \in 1..Len(a) + Len(b) : (a \o b)[j] = IF j <= Len(a) THEN a[j] ELSE b[j - Len(a)]
  BY <1>2, <1>3, ConcatProperties
<1>6. Len(a \o b) = Len(s) - 1 /\ DOMAIN (a \o b) = 1..Len(s) - 1
  <2>1. Len(a \o b) = Len(s) - 1
    BY <1>0, <1>2, <1>3, <1>5
  <2> QED
    BY <1>5, <2>1
<1>7. ASSUME NEW j \in 1..Len(s) - 1 PROVE (a \o b)[j] = s[IF j < i THEN j ELSE j + 1]
  <2>1. CASE j < i
    <3>1. (a \o b)[j] = a[j] /\ j \in 1..i - 1
      BY <1>0, <1>2, <1>3, <1>5, <2>1
    <3> QED
      BY <1>2, <2>1, <3>1
  <2>2. CASE ~(j < i)
    <3>0. j - (i - 1) \in 1..Len(s) - i /\ ~(j <= i - 1) /\ Len(a) = i - 1
      BY <1>0, <1>2, <2>2
    <3>1. (a \o b)[j] = b[j - (i - 1)] /\ j - (i - 1) \in 1..Len(s) - i
      <4>1. j \in 1..Len(a) + Len(b)
        BY ONLY <1>5, <1>6, Len(s) \in Nat, j \in 1..Len(s) - 1
      <4>2. (a \o b)[j] = IF j <= Len(a) THEN a[j] ELSE b[j - Len(a)]
        BY ONLY <1>5, <4>1
      <4> QED
        BY ONLY <3>0, <4>2
    <3>2. b[j - (i - 1)] = s[i + (j - (i - 1))] /\ i + (j - (i - 1)) = j + 1
      BY <1>0, <1>3, <3>1
    <3> QED
      BY <2>2, <3>1, <3>2
  <2> QED
    BY <2>1, <2>2
<1> QED
  BY <1>4, <1>5, <1>6, <1>7

\* InsertAt: the items from i on move down by one.
LEMMA InsertAtIs ==
  ASSUME NEW S, NEW s \in Seq(S), NEW i \in 1..Len(s) + 1, NEW e \in S
  PROVE /\ InsertAt(s, i, e) \in Seq(S) /\ Len(InsertAt(s, i, e)) = Len(s) + 1
        /\ DOMAIN InsertAt(s, i, e) = 1..Len(s) + 1
        /\ \A j \in 1..Len(s) + 1 :
             InsertAt(s, i, e)[j] = IF j < i THEN s[j] ELSE IF j = i THEN e ELSE s[j - 1]
<1>0. Len(s) \in Nat /\ DOMAIN s = 1..Len(s) /\ i \in Nat /\ i >= 1 /\ i <= Len(s) + 1
  OBVIOUS
<1> DEFINE a == SubSeq(s, 1, i - 1)
           b == SubSeq(s, i, Len(s))
           c == a \o <<e>>
<1>1. \A j \in DOMAIN s : s[j] \in S
  OBVIOUS
<1>2. a \in Seq(S) /\ Len(a) = i - 1 /\ \A j \in 1..i - 1 : a[j] = s[j]
  <2>1. \A j \in 1..i - 1 : s[j] \in S
    BY <1>0, <1>1
  <2>2. /\ a \in Seq(S) /\ Len(a) = IF 1 <= i - 1 THEN i - 1 - 1 + 1 ELSE 0
        /\ \A j \in 1..i - 1 - 1 + 1 : a[j] = s[1 + j - 1]
    BY <1>0, <2>1, SubSeqProperties
  <2> HIDE DEF a
  <2> QED
    BY <1>0, <2>2
<1>3. /\ b \in Seq(S) /\ Len(b) = Len(s) - i + 1
      /\ \A j \in 1..Len(s) - i + 1 : b[j] = s[i + j - 1]
  <2>1. \A j \in i..Len(s) : s[j] \in S
    BY <1>0, <1>1
  <2>2. /\ b \in Seq(S) /\ Len(b) = IF i <= Len(s) THEN Len(s) - i + 1 ELSE 0
        /\ \A j \in 1..Len(s) - i + 1 : b[j] = s[i + j - 1]
    BY <1>0, <2>1, SubSeqProperties
  <2> HIDE DEF b
  <2>3. ~(i <= Len(s)) => Len(s) - i + 1 = 0
    BY <1>0
  <2> QED
    BY <2>2, <2>3
<1>4. InsertAt(s, i, e) = c \o b
  BY DEF InsertAt
<1>5. <<e>> \in Seq(S) /\ Len(<<e>>) = 1 /\ <<e>>[1] = e
  OBVIOUS
<1> HIDE DEF a, b
<1>6. c \in Seq(S) /\ Len(c) = i /\ (\A j \in 1..i - 1 : c[j] = s[j]) /\ c[i] = e
  <2> DEFINE one == <<e>>
  <2>0. one \in Seq(S) /\ Len(one) = 1 /\ one[1] = e
    BY <1>5
  <2> HIDE DEF one
  <2>1. /\ a \o one \in Seq(S) /\ Len(a \o one) = Len(a) + Len(one)
        /\ \A j \in 1..Len(a) + Len(one) :
             (a \o one)[j] = IF j <= Len(a) THEN a[j] ELSE one[j - Len(a)]
    BY <1>2, <2>0, ConcatProperties
  <2>2. (a \o one)[i] = one[1]
    BY <1>0, <1>2, <2>0, <2>1
  <2> QED
    BY <1>0, <1>2, <2>0, <2>1, <2>2 DEF one
<1> HIDE DEF c
<1>7. /\ c \o b \in Seq(S) /\ Len(c \o b) = Len(c) + Len(b)
      /\ \A j \in 1..Len(c) + Len(b) : (c \o b)[j] = IF j <= Len(c) THEN c[j] ELSE b[j - Len(c)]
  BY <1>3, <1>6, ConcatProperties
<1>8. Len(c \o b) = Len(s) + 1 /\ DOMAIN (c \o b) = 1..Len(s) + 1
  BY <1>0, <1>3, <1>6, <1>7
<1>9. ASSUME NEW j \in 1..Len(s) + 1
      PROVE (c \o b)[j] = IF j < i THEN s[j] ELSE IF j = i THEN e ELSE s[j - 1]
  <2>1. CASE j <= i
    <3>1. (c \o b)[j] = c[j]
      BY <1>0, <1>3, <1>6, <1>7, <2>1
    <3> QED
      BY <1>0, <1>6, <2>1, <3>1
  <2>2. CASE ~(j <= i)
    <3>1. (c \o b)[j] = b[j - i] /\ j - i \in 1..Len(s) - i + 1
      BY <1>0, <1>3, <1>6, <1>7, <2>2
    <3>2. b[j - i] = s[i + (j - i) - 1] /\ i + (j - i) - 1 = j - 1
      BY <1>0, <1>3, <3>1
    <3> QED
      BY <1>0, <2>2, <3>1, <3>2
  <2> QED
    BY <2>1, <2>2
<1> QED
  BY <1>4, <1>7, <1>8, <1>9

\* A step that only leaves items out or moves them.
LEMMA DrawnStep ==
  ASSUME QueueInv, NEW n \in Nat, n <= StackCap, NEW from \in [1..n -> DOMAIN stack],
         \A i, j \in 1..n : from[i] = from[j] => i = j,
         stack' \in Seq(Items), Len(stack') = n,
         \A j \in 1..n : /\ stack'[j].id = stack[from[j]].id
                         /\ stack'[j].added = stack[from[j]].added,
         lastItem' = lastItem, offered' \in {offered, 0}
  PROVE QueueInv'
<1>1. DOMAIN stack' = 1..n
  OBVIOUS
<1>2. \A i \in DOMAIN stack : stack[i].id \in 1..lastItem
  BY DEF QueueInv, IdsAreSpent
<1>3. lastItem \in Nat /\ offered \in Nat
  BY DEF QueueInv
<1>4. \A i \in DOMAIN stack' : stack'[i].id \in 1..lastItem
  BY <1>1, <1>2
<1>5. \A i, j \in DOMAIN stack' : stack'[i].id = stack'[j].id => i = j
  BY <1>1 DEF QueueInv, IdsAreSpent
<1>6. \A i \in DOMAIN stack' : stack'[i].id = offered' => stack'[i].added
  <2> SUFFICES ASSUME NEW i \in 1..n, stack'[i].id = offered' PROVE stack'[i].added
    BY <1>1
  <2>1. stack[from[i]].id = offered' /\ from[i] \in DOMAIN stack
    OBVIOUS
  <2>2. offered' = offered
    BY <2>1, <1>2, <1>3
  <2>3. \A k \in DOMAIN stack : stack[k].id = offered => stack[k].added
    BY DEF QueueInv, IdsAreSpent
  <2>4. stack[from[i]].added
    BY <2>1, <2>2, <2>3
  <2>5. stack'[i].added = stack[from[i]].added
    OBVIOUS
  <2> QED
    BY ONLY <2>4, <2>5
<1> QED
  BY <1>3, <1>4, <1>5, <1>6 DEF QueueInv, IdsAreSpent

\* ... one item, say.
LEMMA RemovedStep ==
  ASSUME QueueInv, NEW i \in DOMAIN stack, stack' = RemoveAt(stack, i),
         lastItem' = lastItem, offered' \in {offered, 0}
  PROVE QueueInv'
<1>0. /\ stack \in Seq(Items) /\ Len(stack) \in Nat /\ DOMAIN stack = 1..Len(stack)
      /\ Len(stack) <= StackCap /\ StackCap \in Nat
  BY QueueAssumption DEF QueueInv
<1> DEFINE n == Len(stack) - 1
           from == [j \in 1..n |-> IF j < i THEN j ELSE j + 1]
<1>1. /\ RemoveAt(stack, i) \in Seq(Items) /\ Len(RemoveAt(stack, i)) = n
      /\ \A j \in 1..n : RemoveAt(stack, i)[j] = stack[IF j < i THEN j ELSE j + 1]
  BY <1>0, RemoveAtIs
<1>2. n \in Nat /\ n <= StackCap /\ from \in [1..n -> DOMAIN stack]
      /\ \A j, k \in 1..n : from[j] = from[k] => j = k
  BY <1>0
<1>3. \A j \in 1..n : stack'[j] = stack[from[j]]
  BY <1>1
<1> HIDE DEF from, n
<1> QED
  BY <1>1, <1>2, <1>3, DrawnStep

\* A step that adds one item, under a new id, at p.
LEMMA GrownStep ==
  ASSUME QueueInv, Len(stack) < StackCap, NEW p \in 1..Len(stack) + 1,
         NEW added \in BOOLEAN,
         stack' \in Seq(Items), Len(stack') = Len(stack) + 1,
         \A j \in 1..Len(stack) + 1 :
           stack'[j] = IF j < p THEN stack[j]
                       ELSE IF j = p THEN Item(NextId, added) ELSE stack[j - 1],
         lastItem' = NextId, offered' = offered \/ (offered' = NextId /\ added)
  PROVE QueueInv'
<1>0. /\ lastItem \in Nat /\ offered \in Nat /\ offered <= lastItem /\ NextId = lastItem + 1
      /\ Len(stack) \in Nat /\ StackCap \in Nat /\ p \in Nat /\ p >= 1 /\ p <= Len(stack) + 1
      /\ DOMAIN stack = 1..Len(stack)
  BY QueueAssumption DEF QueueInv, IdsAreSpent, NextId
<1> DEFINE n == Len(stack) + 1
           from(j) == IF j < p THEN j ELSE j - 1
<1>1. DOMAIN stack' = 1..n
  OBVIOUS
<1>2. /\ stack'[p].id = NextId /\ stack'[p].added = added
  BY <1>0 DEF Item
<1>3. \A j \in 1..n \ {p} : from(j) \in DOMAIN stack /\ stack'[j] = stack[from(j)]
  BY <1>0
<1>4. \A i, j \in 1..n \ {p} : from(i) = from(j) => i = j
  BY <1>0
<1>5. \A i \in DOMAIN stack : stack[i].id \in 1..lastItem /\ stack[i].id # NextId
  BY <1>0 DEF QueueInv, IdsAreSpent
<1> HIDE DEF from
<1>6. \A i \in DOMAIN stack' : stack'[i].id \in 1..NextId
  <2> SUFFICES ASSUME NEW i \in 1..n PROVE stack'[i].id \in 1..NextId
    BY <1>1
  <2>1. CASE i = p
    BY <1>0, <1>2, <2>1
  <2>2. CASE i # p
    <3>1. stack'[i].id \in 1..lastItem
      BY <1>3, <1>5, <2>2
    <3> QED
      BY <1>0, <3>1
  <2> QED
    BY <2>1, <2>2
<1>7. \A i, j \in DOMAIN stack' : stack'[i].id = stack'[j].id => i = j
  <2> SUFFICES ASSUME NEW i \in 1..n, NEW j \in 1..n, stack'[i].id = stack'[j].id PROVE i = j
    BY <1>1
  <2>1. CASE i = p /\ j # p
    BY <1>2, <1>3, <1>5, <2>1
  <2>2. CASE i # p /\ j = p
    BY <1>2, <1>3, <1>5, <2>2
  <2>3. CASE i # p /\ j # p
    <3>1. stack[from(i)].id = stack[from(j)].id /\ from(i) \in DOMAIN stack /\ from(j) \in DOMAIN stack
      BY <1>3, <2>3
    <3>2. from(i) = from(j)
      BY <3>1 DEF QueueInv, IdsAreSpent
    <3> QED
      BY <1>4, <2>3, <3>2
  <2> QED
    BY <2>1, <2>2, <2>3
<1>8. \A i \in DOMAIN stack' : stack'[i].id = offered' => stack'[i].added
  <2> SUFFICES ASSUME NEW i \in 1..n, stack'[i].id = offered' PROVE stack'[i].added
    BY <1>1
  <2>1. CASE i = p
    BY <1>0, <1>2, <2>1
  <2>2. CASE i # p
    <3>1. from(i) \in DOMAIN stack /\ stack'[i] = stack[from(i)]
      BY <1>3, <2>2
    <3>2. offered' = offered
      BY <1>5, <3>1
    <3> QED
      BY <3>1, <3>2 DEF QueueInv, IdsAreSpent
  <2> QED
    BY <2>1, <2>2
<1>9. lastItem' \in Nat /\ offered' \in Nat /\ offered' <= lastItem' /\ Len(stack') <= StackCap
  BY <1>0
<1> QED
  BY <1>6, <1>7, <1>8, <1>9 DEF QueueInv, IdsAreSpent

LEMMA QueueStart == QueueInit => QueueInv
<1> SUFFICES ASSUME QueueInit PROVE QueueInv
  OBVIOUS
<1>1. stack = <<>> /\ <<>> \in Seq(Items) /\ Len(<<>>) = 0 /\ DOMAIN <<>> = {}
  BY DEF QueueInit
<1> QED
  BY <1>1, QueueAssumption DEF QueueInit, QueueInv, IdsAreSpent

LEMMA QueueStep == QueueInv /\ [QueueNext]_stackVars => QueueInv'
<1> SUFFICES ASSUME QueueInv, [QueueNext]_stackVars PROVE QueueInv'
  OBVIOUS
<1>0. /\ stack \in Seq(Items) /\ Len(stack) \in Nat /\ DOMAIN stack = 1..Len(stack)
      /\ Len(stack) <= StackCap /\ StackCap \in Nat /\ lastItem \in Nat /\ offered \in Nat
      /\ \A i \in DOMAIN stack : stack[i] \in Items
  BY QueueAssumption DEF QueueInv
<1>01. \A a \in BOOLEAN : Item(NextId, a) \in Items
  BY <1>0 DEF Item, Items, NextId
<1>03. ASSUME stack' = stack, lastItem' = lastItem, offered' \in {offered, 0}
       PROVE QueueInv'
  BY <1>0, <1>03 DEF QueueInv, IdsAreSpent
<1>1. ASSUME NEW i \in DOMAIN stack, Duplicate(i) PROVE QueueInv'
  <2>1. /\ Len(stack) < StackCap /\ UNCHANGED offered /\ lastItem' = NextId
        /\ stack' = InsertAt(stack, i + 1, Item(NextId, FALSE))
    BY <1>1, <1>0 DEF Duplicate, CanAdd, Grown
  <2>2. i + 1 \in 1..Len(stack) + 1
    BY <1>0
  <2> DEFINE e == Item(NextId, FALSE)
             p == i + 1
  <2>3. e \in Items
    BY <1>01, <2>2
  <2>35. p \in 1..Len(stack) + 1
    BY <2>2
  <2> HIDE DEF e, p
  <2>36. stack \in Seq(Items)
    BY <1>0
  <2>4. /\ InsertAt(stack, p, e) \in Seq(Items) /\ Len(InsertAt(stack, p, e)) = Len(stack) + 1
        /\ DOMAIN InsertAt(stack, p, e) = 1..Len(stack) + 1
        /\ \A j \in 1..Len(stack) + 1 :
             InsertAt(stack, p, e)[j] = IF j < p THEN stack[j] ELSE IF j = p THEN e ELSE stack[j - 1]
    BY ONLY <2>3, <2>35, <2>36, InsertAtIs
  <2>5. stack' = InsertAt(stack, p, e) /\ p \in 1..Len(stack) + 1
    BY <2>1, <2>2 DEF e, p
  <2>6. stack' \in Seq(Items) /\ Len(stack') = Len(stack) + 1
    BY <2>4, <2>5
  <2>7. \A j \in 1..Len(stack) + 1 :
          stack'[j] = IF j < p THEN stack[j]
                      ELSE IF j = p THEN Item(NextId, FALSE) ELSE stack[j - 1]
    BY <2>4, <2>5 DEF e
  <2> QED
    BY <2>1, <2>2, <2>5, <2>6, <2>7, GrownStep
<1>2. ASSUME NEW added \in BOOLEAN, CanAdd,
             Grown(Append(stack, Item(NextId, added))),
             offered' = offered \/ (offered' = NextId /\ added)
      PROVE QueueInv'
  <2>1. Len(stack) < StackCap /\ lastItem' = NextId
        /\ stack' = Append(stack, Item(NextId, added))
    BY <1>0, <1>2 DEF CanAdd, Grown
  <2> DEFINE p == Len(stack) + 1
             e == Item(NextId, added)
  <2>2. e \in Items
    BY <1>01
  <2> HIDE DEF e
  <2>3. /\ Append(stack, e) \in Seq(Items) /\ Len(Append(stack, e)) = Len(stack) + 1
        /\ \A j \in 1..Len(stack) : Append(stack, e)[j] = stack[j]
        /\ Append(stack, e)[p] = e
    BY <1>0, <2>2, AppendProperties
  <2>4. stack' = Append(stack, e) /\ p \in 1..Len(stack) + 1
    BY <1>0, <2>1 DEF e
  <2>5. \A j \in 1..Len(stack) + 1 :
          stack'[j] = IF j < p THEN stack[j]
                      ELSE IF j = p THEN Item(NextId, added) ELSE stack[j - 1]
    BY <1>0, <2>3, <2>4 DEF e
  <2>6. stack' \in Seq(Items) /\ Len(stack') = Len(stack) + 1
    BY <2>3, <2>4
  <2> HIDE DEF p
  <2> QED
    BY <1>2, <2>1, <2>4, <2>5, <2>6, GrownStep
<1>3. CASE AddToQueue
  BY <1>2, <1>3 DEF AddToQueue
<1>4. CASE AddMerged
  BY <1>2, <1>4 DEF AddMerged
<1>5. CASE EditStack
  <2>1. lastItem' = lastItem /\ offered' = offered
    BY <1>0, <1>5 DEF EditStack
  <2>2. PICK i \in DOMAIN stack :
          \/ stack' = RemoveAt(stack, i)
          \/ i > 1 /\ stack' = [stack EXCEPT ![i] = stack[i - 1], ![i - 1] = stack[i]]
          \/ stack' = <<>>
    BY <1>5 DEF EditStack
  <2>3. CASE stack' = RemoveAt(stack, i)
    BY <1>0, <2>1, <2>3, RemovedStep
  <2>4. CASE i > 1 /\ stack' = [stack EXCEPT ![i] = stack[i - 1], ![i - 1] = stack[i]]
    <3> DEFINE from == [j \in 1..Len(stack) |-> IF j = i THEN i - 1 ELSE IF j = i - 1 THEN i ELSE j]
    <3>1. i \in Nat /\ i - 1 \in 1..Len(stack) /\ i \in 1..Len(stack)
      BY <1>0, <2>4
    <3>2. from \in [1..Len(stack) -> DOMAIN stack]
          /\ \A j, k \in 1..Len(stack) : from[j] = from[k] => j = k
      BY <1>0, <3>1
    <3>3. \A j \in 1..Len(stack) : stack'[j] = stack[from[j]]
      BY <1>0, <2>4, <3>1
    <3>4. stack' \in Seq(Items) /\ Len(stack') = Len(stack)
      BY <1>0, <2>4, <3>1
    <3> DEFINE n == Len(stack)
    <3>5. n \in Nat /\ n <= StackCap /\ from \in [1..n -> DOMAIN stack]
          /\ (\A j, k \in 1..n : from[j] = from[k] => j = k) /\ Len(stack') = n
      BY <1>0, <3>2, <3>4
    <3>6. \A j \in 1..n : /\ stack'[j].id = stack[from[j]].id
                          /\ stack'[j].added = stack[from[j]].added
      BY <3>3
    <3> HIDE DEF from, n
    <3> QED
      BY <2>1, <3>4, <3>5, <3>6, DrawnStep
  <2>5. CASE stack' = <<>>
    <3>1. <<>> \in Seq(Items) /\ Len(<<>>) = 0 /\ DOMAIN <<>> = {}
      OBVIOUS
    <3> QED
      BY <1>0, <2>1, <2>5, <3>1 DEF QueueInv, IdsAreSpent
  <2> QED
    BY <2>2, <2>3, <2>4, <2>5
<1>6. CASE PasteNextQueued
  <2>1. /\ stack # <<>> /\ stack' = Tail(stack) /\ lastItem' = lastItem /\ offered' = offered
    BY <1>6 DEF PasteNextQueued
  <2>4. /\ Tail(stack) \in Seq(Items) /\ Len(Tail(stack)) = Len(stack) - 1
        /\ \A j \in 1..Len(Tail(stack)) : Tail(stack)[j] = stack[j + 1]
    BY <1>0, <2>1, HeadTailProperties
  <2> DEFINE n == Len(stack) - 1
             from == [j \in 1..n |-> j + 1]
  <2>5. n \in Nat /\ n <= StackCap /\ from \in [1..n -> DOMAIN stack]
        /\ \A j, k \in 1..n : from[j] = from[k] => j = k
    <3>1. Len(stack) # 0
      BY <1>0, <2>1
    <3> QED
      BY <1>0, <3>1
  <2>6. \A j \in 1..n : stack'[j] = stack[from[j]]
    BY <2>1, <2>4
  <2> HIDE DEF from, n
  <2>7. stack' \in Seq(Items) /\ Len(stack') = n
    BY <2>1, <2>4 DEF n
  <2>8. \A j \in 1..n : /\ stack'[j].id = stack[from[j]].id
                        /\ stack'[j].added = stack[from[j]].added
    BY <2>6
  <2> QED
    BY <2>1, <2>5, <2>7, <2>8, DrawnStep
<1>7. CASE PasteOther \/ OpenAgain \/ SlotLost \/ UNCHANGED stackVars
  BY <1>03, <1>7 DEF PasteOther, OpenAgain, SlotLost, stackVars
<1>8. CASE UndoAdd
  <2>1. lastItem' = lastItem /\ offered' = 0
    BY <1>0, <1>8 DEF UndoAdd
  <2>2. CASE stack' = stack
    BY <1>03, <2>1, <2>2
  <2>3. ASSUME NEW i \in DOMAIN stack, stack' = RemoveAt(stack, i) PROVE QueueInv'
    BY <1>0, <2>1, <2>3, RemovedStep
  <2> QED
    BY <1>8, <2>2, <2>3 DEF UndoAdd
<1> QED
  BY <1>1, <1>3, <1>4, <1>5, <1>6, <1>7, <1>8 DEF QueueNext

LEMMA QueueKeeps == QueueInv => QueueSafety
BY DEF QueueInv, IdsAreSpent, QueueSafety, UndoIsExact, IsInjective

\* PasteStack: an undo takes back the item it was offered for and no other, and
\* the stack keeps its bound.
THEOREM QueueIsSafe == QueueSpec => []QueueSafety
BY QueueStart, QueueStep, QueueKeeps, PTL DEF QueueSpec

-----------------------------------------------------------------------------
(***************************************************************************)
(* The settings file and its writers.  The login entry and the file answer    *)
(* for the copy in memory between the two halves of set_autostart as well,    *)
(* and a migration under way holds the copy of what it will rewrite.          *)
(***************************************************************************)

MaybeFile == Configs \cup {NoFile}
Commands == {Idle} \cup [step : {"write", "backup", "migrate"}, text : Configs]

FilesAreWhole ==
    /\ file \in MaybeFile /\ rollback \in MaybeFile /\ migrated \in MaybeFile
    /\ mem \in MaybeFile /\ before \in MaybeFile
    /\ command \in Commands
KeptIsLoadable ==
    /\ savedBy = "vbuff" => Loadable(file)
    /\ Running => Loadable(mem)
    /\ before # NoFile => Running /\ Loadable(before)
CopyIsKept ==
    /\ migrated # NoFile => rollback = migrated
    /\ command.step = "migrate" => rollback = command.text
MemoryFollows == Running /\ ~behind => file = mem
LoginFollows ==
    /\ Running /\ before = NoFile /\ ~unsure => entry = mem.login
    /\ Running /\ before # NoFile /\ ~unsure => entry = before.login
SetInv == FilesAreWhole /\ KeptIsLoadable /\ CopyIsKept /\ MemoryFollows /\ LoginFollows

\* What the handlers make of a Config they may save is again one: validate holds
\* of it after apply_default_profile, set_autostart and SetUiPreferences.
LEMMA ConfigsKeep ==
  /\ NoFile \notin Configs /\ ~Loadable(NoFile) /\ ~Parses(NoFile)
  /\ DefaultConfig \in Configs /\ Loadable(DefaultConfig)
  /\ \A c \in Configs : /\ WithProfile(c) \in Configs /\ WithProfile(c).login = c.login
                        /\ [c EXCEPT !.prefs = ~@] \in Configs
                        /\ [c EXCEPT !.prefs = ~@].login = c.login
                        /\ [c EXCEPT !.login = ~@] \in Configs
                        /\ [c EXCEPT !.schema = Current] \in Configs
                        /\ Loadable(c) => Loadable(WithProfile(c))
<1>1. NoFile \notin Configs /\ ~Loadable(NoFile) /\ ~Parses(NoFile)
  BY DEF NoFile, Configs, Loadable, Parses, Legacy, Current, Unknown
<1>2. DefaultConfig \in Configs /\ Loadable(DefaultConfig)
  BY SettingsAssumption DEF DefaultConfig, Configs, Loadable, Parses, LimitsFit, Legacy, Current, Unknown
<1> SUFFICES ASSUME NEW c \in Configs
             PROVE /\ WithProfile(c) \in Configs /\ WithProfile(c).login = c.login
                   /\ [c EXCEPT !.prefs = ~@] \in Configs
                   /\ [c EXCEPT !.prefs = ~@].login = c.login
                   /\ [c EXCEPT !.login = ~@] \in Configs
                   /\ [c EXCEPT !.schema = Current] \in Configs
                   /\ Loadable(c) => Loadable(WithProfile(c))
  BY <1>1, <1>2
<1>3. WithProfile(c) \in Configs /\ WithProfile(c).login = c.login
  BY SettingsAssumption DEF WithProfile, Configs
<1>4. [c EXCEPT !.prefs = ~@] \in Configs /\ [c EXCEPT !.prefs = ~@].login = c.login
  BY DEF Configs
<1>5. [c EXCEPT !.login = ~@] \in Configs /\ [c EXCEPT !.schema = Current] \in Configs
  BY DEF Configs, Current
<1>6. Loadable(c) => Loadable(WithProfile(c))
  BY SettingsAssumption DEF WithProfile, Configs, Loadable, Parses, LimitsFit
<1> QED
  BY <1>3, <1>4, <1>5, <1>6

LEMMA SetStart == SetInit => SetInv
BY ConfigsKeep DEF SetInit, SetInv, FilesAreWhole, KeptIsLoadable, CopyIsKept, MemoryFollows,
   LoginFollows, MaybeFile, Commands, Idle, Running

\* A step of the resident, which leaves the commands and the migrations alone.
LEMMA AppStep ==
  ASSUME SetInv, UNCHANGED <<rollback, migrated, command>>,
         mem' \in MaybeFile, before' \in MaybeFile,
         \/ Saves(mem') /\ mem' \in Configs
         \/ UNCHANGED <<file, savedBy>>,
         mem' # NoFile => Loadable(mem'),
         before' # NoFile => mem' # NoFile /\ Loadable(before'),
         mem' # NoFile /\ ~behind' => file' = mem',
         LoginFollows'
  PROVE SetInv'
<1>1. FilesAreWhole'
  BY DEF SetInv, FilesAreWhole, Saves, MaybeFile
<1>2. KeptIsLoadable'
  BY DEF SetInv, KeptIsLoadable, Saves, Running, Loadable, Parses, LimitsFit
<1> QED
  BY <1>1, <1>2 DEF SetInv, CopyIsKept, MemoryFollows, Running

\* A step that leaves the resident alone and says so when the file changes.
LEMMA FileStep ==
  ASSUME SetInv, UNCHANGED <<mem, before, entry, unsure>>,
         file' \in MaybeFile, rollback' \in MaybeFile, migrated' \in MaybeFile,
         command' \in Commands,
         savedBy' = "vbuff" => Loadable(file'),
         (file' = file /\ behind' = behind) \/ behind' = TRUE,
         CopyIsKept'
  PROVE SetInv'
BY DEF SetInv, FilesAreWhole, KeptIsLoadable, MemoryFollows, LoginFollows, Running, Loadable,
   Parses, LimitsFit

LEMMA SetStep == SetInv /\ [SetNext]_setVars => SetInv'
<1> SUFFICES ASSUME SetInv, [SetNext]_setVars PROVE SetInv'
  OBVIOUS
<1>0. /\ file \in MaybeFile /\ rollback \in MaybeFile /\ migrated \in MaybeFile
      /\ mem \in MaybeFile /\ before \in MaybeFile
      /\ command \in Commands
      /\ Idle \in Commands
      /\ NoFile \in MaybeFile
  BY DEF SetInv, FilesAreWhole, Commands, MaybeFile
<1>00. command.text \in MaybeFile
  BY <1>0 DEF Commands, Idle, MaybeFile
<1>01. \A c \in MaybeFile : Loadable(c) => c \in Configs
  BY ConfigsKeep DEF MaybeFile
<1>02. /\ mem # NoFile => Loadable(mem) /\ mem \in Configs
       /\ before # NoFile => mem # NoFile /\ Loadable(before) /\ before \in Configs
       /\ mem # NoFile /\ ~behind => file = mem
       /\ mem # NoFile /\ before = NoFile /\ ~unsure => entry = mem.login
       /\ mem # NoFile /\ before # NoFile /\ ~unsure => entry = before.login
  BY <1>0, <1>01 DEF SetInv, KeptIsLoadable, MemoryFollows, LoginFollows, Running
<1>03. /\ savedBy = "vbuff" => Loadable(file)
       /\ migrated # NoFile => rollback = migrated
       /\ command.step = "migrate" => rollback = command.text
  BY DEF SetInv, KeptIsLoadable, CopyIsKept
<1>04. \A c \in Configs : c # NoFile /\ c \in MaybeFile
  BY ConfigsKeep DEF MaybeFile
<1>05. ASSUME NEW c \in Configs, mem # NoFile, before = NoFile, Changes(c), c.login = mem.login,
              UNCHANGED <<before, entry, unsure>>, Quiet
       PROVE SetInv'
  <2>1. /\ UNCHANGED <<rollback, migrated, command>> /\ before' \in MaybeFile
        /\ before' = NoFile /\ entry' = entry /\ unsure' = unsure
    BY <1>0, <1>05 DEF Quiet
  <2>2. CASE Saves(c) /\ mem' = c /\ behind' = FALSE
    BY <1>02, <1>04, <1>05, <2>1, <2>2, AppStep DEF Saves, LoginFollows, Running
  <2>3. CASE SaveFails /\ TakenBack(c) /\ UNCHANGED behind
    BY <1>0, <1>02, <1>05, <2>1, <2>3, AppStep DEF SaveFails, TakenBack, LoginFollows, Running
  <2> QED
    BY <1>05, <2>2, <2>3 DEF Changes
<1>1. CASE StartApp
  <2>1. /\ UNCHANGED <<rollback, migrated, command>> /\ before' = NoFile /\ behind' = FALSE
    BY <1>02, <1>1 DEF StartApp, Quiet, Running
  <2>2. entry' = mem'.login \/ unsure' = TRUE
    BY <1>1 DEF StartApp
  <2>3. CASE file = NoFile /\ Saves(DefaultConfig) /\ mem' = DefaultConfig
    BY <1>0, <1>04, <2>1, <2>2, <2>3, ConfigsKeep, AppStep DEF Saves, LoginFollows, Running
  <2>4. CASE Loadable(file) /\ SaveFails /\ mem' = file
    BY <1>0, <2>1, <2>2, <2>4, AppStep DEF SaveFails, LoginFollows, Running
  <2> QED
    BY <1>1, <2>3, <2>4 DEF StartApp
<1>2. CASE StopApp
  BY <1>0, <1>2, AppStep DEF StopApp, Quiet, LoginFollows, Running
<1>3. CASE SetPreferences
  <2> DEFINE c == [mem EXCEPT !.prefs = ~@]
  <2>1. mem # NoFile /\ before = NoFile /\ Changes(c) /\ UNCHANGED <<before, entry, unsure>> /\ Quiet
    BY <1>3 DEF SetPreferences, Ready, Running
  <2>2. c \in Configs /\ c.login = mem.login
    BY <1>02, <2>1, ConfigsKeep
  <2> HIDE DEF c
  <2> QED
    BY <1>05, <2>1, <2>2
<1>4. CASE ApplyDefaultProfile
  BY <1>02, <1>05, <1>4, ConfigsKeep DEF ApplyDefaultProfile, Ready, Running
<1>5. CASE SetAutostart
  <2> DEFINE c == [mem EXCEPT !.login = ~@]
  <2>1. /\ mem # NoFile /\ before = NoFile /\ entry' = entry /\ unsure' = unsure
        /\ UNCHANGED <<rollback, migrated, command>>
        /\ \/ Saves(c) /\ mem' = c /\ behind' = FALSE /\ before' = mem
           \/ SaveFails /\ UNCHANGED <<mem, behind, before>>
    BY <1>5 DEF SetAutostart, Ready, Running, Quiet
  <2>2. c \in Configs
    BY <1>02, <2>1, ConfigsKeep
  <2> HIDE DEF c
  <2>3. CASE Saves(c) /\ mem' = c /\ behind' = FALSE /\ before' = mem
    BY <1>0, <1>02, <1>04, <2>1, <2>2, <2>3, AppStep DEF Saves, LoginFollows, Running
  <2>4. CASE SaveFails /\ UNCHANGED <<mem, behind, before>>
    BY <1>0, <1>02, <2>1, <2>4, AppStep DEF SaveFails, LoginFollows, Running
  <2> QED
    BY <2>1, <2>3, <2>4
<1>6. CASE AutostartAnswers
  <2>1. /\ mem # NoFile /\ before # NoFile /\ before' = NoFile
        /\ UNCHANGED <<rollback, migrated, command>>
    BY <1>6 DEF AutostartAnswers, Running, Quiet
  <2>2. CASE entry' = mem.login /\ unsure' = FALSE /\ SaveFails /\ UNCHANGED <<mem, behind>>
    BY <1>0, <1>02, <2>1, <2>2, AppStep DEF SaveFails, LoginFollows, Running
  <2>3. CASE GoesBack(before) /\ (UNCHANGED <<entry, unsure>> \/ unsure' = TRUE)
    <3>1. /\ mem' = before /\ before \in Configs /\ Loadable(before)
          /\ \/ Saves(before) /\ behind' = FALSE
             \/ SaveFails /\ behind' = TRUE
      BY <1>02, <2>1, <2>3 DEF GoesBack
    <3>2. LoginFollows'
      BY <1>02, <2>1, <2>3, <3>1 DEF LoginFollows, Running
    <3>3. (Saves(before) /\ behind' = FALSE /\ file' = before) \/ (SaveFails /\ behind' = TRUE)
      BY <3>1 DEF Saves
    <3> QED
      BY <1>0, <2>1, <3>1, <3>2, <3>3, AppStep DEF SaveFails
  <2> QED
    BY <1>6, <2>2, <2>3 DEF AutostartAnswers
<1>7. CASE EditFile
  <2>1. file' \in MaybeFile
    BY <1>7, TypedAssumption DEF EditFile, MaybeFile
  <2> QED
    BY <1>0, <1>03, <1>7, <2>1, FileStep DEF EditFile, CopyIsKept
<1>8. ASSUME NEW text \in Configs, Begins("write", text) \/ Begins("backup", text),
             UNCHANGED <<file, savedBy, behind, rollback, migrated>>, RestOfApp
      PROVE SetInv'
  <2>1. /\ command' \in Commands
        /\ command'.step # "migrate"
    BY <1>8 DEF Begins, Commands
  <2> QED
    BY <1>0, <1>03, <1>8, <2>1, FileStep DEF CopyIsKept, RestOfApp
<1>9. CASE ReadForApply
  <2>1. PICK shared \in Typed :
          Begins("write", [file EXCEPT !.preview = shared.preview, !.soft = shared.soft,
                                       !.login = shared.login])
    BY <1>9 DEF ReadForApply
  <2> DEFINE text == [file EXCEPT !.preview = shared.preview, !.soft = shared.soft,
                                  !.login = shared.login]
  <2>2. file \in Configs
    BY <1>0, <1>01, <1>9 DEF ReadForApply
  <2>3. text \in Configs
    BY <2>2, TypedAssumption DEF Configs
  <2> HIDE DEF text
  <2> QED
    BY <1>8, <1>9, <2>1, <2>3 DEF ReadForApply, text
<1>10. CASE ReadHandoff
  BY <1>8, <1>10, TypedAssumption DEF ReadHandoff
<1>11. CASE ReadForMigration
  <2>1. file \in Configs
    BY <1>0, <1>11, ConfigsKeep DEF ReadForMigration, MaybeFile
  <2> QED
    BY <1>8, <1>11, <2>1 DEF ReadForMigration
<1>12. CASE WriteConfig
  <2>1. /\ command' = Idle /\ UNCHANGED <<rollback, migrated>> /\ RestOfApp /\ Idle.step = "none"
        /\ \/ Saves(command.text) /\ behind' = TRUE
           \/ SaveFails /\ UNCHANGED behind
    BY <1>12 DEF WriteConfig, Idle
  <2>2. CopyIsKept'
    BY <1>03, <2>1 DEF CopyIsKept
  <2>3. CASE Saves(command.text) /\ behind' = TRUE
    BY <1>0, <1>00, <2>1, <2>2, <2>3, FileStep DEF Saves, RestOfApp
  <2>4. CASE SaveFails /\ UNCHANGED behind
    BY <1>0, <1>03, <2>1, <2>2, <2>4, FileStep DEF SaveFails, RestOfApp
  <2> QED
    BY <2>1, <2>3, <2>4
<1>13. CASE BackUp
  <2>1. /\ command.step = "backup" /\ migrated' = migrated /\ RestOfApp
        /\ UNCHANGED <<file, savedBy, behind>>
        /\ \/ BackedUp(command.text) /\ command' = [command EXCEPT !.step = "migrate"]
           \/ UNCHANGED rollback /\ command' = Idle
    BY <1>13 DEF BackUp
  <2>2. CASE BackedUp(command.text) /\ command' = [command EXCEPT !.step = "migrate"]
    <3>1. /\ command' \in Commands
          /\ command'.text = command.text
      BY <1>0, <2>1, <2>2 DEF Commands, Idle
    <3>2. rollback' = command.text /\ rollback \in {NoFile, command.text}
      BY <2>2 DEF BackedUp
    <3>3. CopyIsKept'
      BY <1>03, <2>1, <3>1, <3>2 DEF CopyIsKept
    <3> QED
      BY <1>0, <1>00, <1>03, <2>1, <3>1, <3>2, <3>3, FileStep DEF RestOfApp
  <2>3. CASE UNCHANGED rollback /\ command' = Idle
    <3>1. CopyIsKept'
      BY <1>03, <2>1, <2>3 DEF CopyIsKept, Idle
    <3> QED
      BY <1>0, <1>03, <2>1, <2>3, <3>1, FileStep DEF RestOfApp
  <2> QED
    BY <2>1, <2>2, <2>3
<1>14. CASE Migrate
  <2>1. /\ command.step = "migrate" /\ command' = Idle /\ Idle.step = "none" /\ UNCHANGED rollback
        /\ RestOfApp
        /\ \/ /\ file' = [command.text EXCEPT !.schema = Current]
              /\ migrated' = command.text /\ savedBy' = "other" /\ behind' = TRUE
           \/ SaveFails /\ UNCHANGED <<migrated, behind>>
    BY <1>14 DEF Migrate, Idle
  <2>2. CASE /\ file' = [command.text EXCEPT !.schema = Current]
             /\ migrated' = command.text /\ savedBy' = "other" /\ behind' = TRUE
    <3>1. file' \in MaybeFile
      BY <1>0, <2>1, <2>2, ConfigsKeep DEF MaybeFile, Commands
    <3>2. CopyIsKept'
      BY <1>03, <2>1, <2>2 DEF CopyIsKept
    <3> QED
      BY <1>0, <1>00, <2>1, <2>2, <3>1, <3>2, FileStep DEF RestOfApp
  <2>3. CASE SaveFails /\ UNCHANGED <<migrated, behind>>
    <3>1. CopyIsKept'
      BY <1>03, <2>1, <2>3 DEF CopyIsKept
    <3> QED
      BY <1>0, <1>03, <2>1, <2>3, <3>1, FileStep DEF RestOfApp, SaveFails
  <2> QED
    BY <2>1, <2>2, <2>3
<1>15. CASE StopCommand
  <2>1. command' = Idle /\ Idle.step = "none" /\ UNCHANGED <<file, savedBy, behind, rollback, migrated>>
    BY <1>15 DEF StopCommand, Idle
  <2>2. CopyIsKept'
    BY <1>03, <2>1 DEF CopyIsKept
  <2> QED
    BY <1>0, <1>03, <1>15, <2>1, <2>2, FileStep DEF StopCommand, RestOfApp
<1>16. CASE UNCHANGED setVars
  BY <1>16 DEF setVars, SetInv, FilesAreWhole, KeptIsLoadable, CopyIsKept, MemoryFollows,
     LoginFollows, Running
<1> QED
  BY <1>1, <1>2, <1>3, <1>4, <1>5, <1>6, <1>7, <1>9, <1>10, <1>11, <1>12, <1>13, <1>14, <1>15, <1>16
     DEF SetNext

LEMMA SettingsKeep == SetInv => SettingsSafety
<1> SUFFICES ASSUME SetInv PROVE SettingsSafety
  OBVIOUS
<1>1. SetTypeOK /\ MigrationIsReversible /\ MemoryIsSaved /\ LoginIsAsShown
  BY DEF SetInv, FilesAreWhole, CopyIsKept, MemoryFollows, LoginFollows, SetTypeOK, MaybeFile,
     Commands, Idle, MigrationIsReversible, MemoryIsSaved, LoginIsAsShown, Ready
<1>2. SavedIsLoadable
  BY ConfigsKeep DEF SetInv, FilesAreWhole, KeptIsLoadable, SavedIsLoadable, MaybeFile, Running
<1> QED
  BY <1>1, <1>2 DEF SettingsSafety

\* Config: what is saved can be loaded again, a migration can be undone, and
\* memory and the login entry follow the file whichever write or call failed
\* (save, apply_default_profile, MigrateApply, set_autostart).
THEOREM SettingsAreKept == SetSpec => []SettingsSafety
BY SetStart, SetStep, SettingsKeep, PTL DEF SetSpec

-----------------------------------------------------------------------------
(* Ranking by a strict order *)

IsOrder(R, D) ==
    /\ R \subseteq D \X D
    /\ \A x \in D : <<x, x>> \notin R
    /\ \A x, y, z \in D : <<x, y>> \in R /\ <<y, z>> \in R => <<x, z>> \in R
    /\ \A x, y \in D : x = y \/ <<x, y>> \in R \/ <<y, x>> \in R

Ahead(R, S, x) == {y \in S : <<y, x>> \in R}
TopBy(R, S, k) == {x \in S : Cardinality(Ahead(R, S, x)) < k}

\* A finite set has a last element ...
LEMMA LastExists ==
  ASSUME NEW D, NEW R, IsOrder(R, D), NEW S \in SUBSET D, IsFiniteSet(S), S # {}
  PROVE \E z \in S : \A x \in S \ {z} : <<x, z>> \in R
<1> DEFINE HasLast(A) == \E z \in A : \A x \in A \ {z} : <<x, z>> \in R
           T == {n \in Nat : \A A \in SUBSET D : IsFiniteSet(A) /\ A # {} /\ Cardinality(A) = n => HasLast(A)}
<1>1. 0 \in T
  BY FS_EmptySet
<1>2. ASSUME NEW n \in Nat, n > 0, n - 1 \in T PROVE n \in T
  <2>1. ASSUME NEW A \in SUBSET D, IsFiniteSet(A), A # {}, Cardinality(A) = n PROVE HasLast(A)
    <3>1. PICK a \in A : TRUE
      BY <2>1
    <3> DEFINE B == A \ {a}
    <3>2. IsFiniteSet(B) /\ Cardinality(B) = n - 1
      BY <2>1, <3>1, FS_RemoveElement
    <3>3. CASE B = {}
      BY <3>1, <3>3
    <3>4. CASE B # {}
      <4>1. PICK z \in B : \A x \in B \ {z} : <<x, z>> \in R
        BY <1>2, <3>2, <3>4
      <4>2. a \in D /\ z \in D /\ a # z /\ \A x \in B : x \in D
        OBVIOUS
      <4>3. CASE <<a, z>> \in R
        BY <4>1, <4>3
      <4>4. CASE <<z, a>> \in R
        <5>1. \A x \in A \ {a} : <<x, a>> \in R
          BY <4>1, <4>2, <4>4 DEF IsOrder
        <5> QED
          BY <3>1, <5>1
      <4> QED
        BY <4>2, <4>3, <4>4 DEF IsOrder
    <3> QED
      BY <3>3, <3>4
  <2> QED
    BY <2>1
<1> HIDE DEF T
<1>3. Cardinality(S) \in Nat
  BY FS_CardinalityType
<1>4. Cardinality(S) \in T
  <2>1. \A i \in 0 .. Cardinality(S) : i \in T
    <3>1. \A i \in 1 .. Cardinality(S) : i - 1 \in T => i \in T
      BY <1>2, <1>3
    <3> QED
      BY ONLY <1>1, <1>3, <3>1, UpToAll
  <2> QED
    BY <1>3, <2>1
<1> QED
  BY <1>4 DEF T

\* ... and a first one.
LEMMA FirstExists ==
  ASSUME NEW D, NEW R, IsOrder(R, D), NEW S \in SUBSET D, IsFiniteSet(S), S # {}
  PROVE \E z \in S : Ahead(R, S, z) = {}
<1> DEFINE Q == {p \in D \X D : <<p[2], p[1]>> \in R}
<1>1. /\ R \subseteq D \X D /\ \A x \in D : <<x, x>> \notin R
      /\ \A x, y, z \in D : <<x, y>> \in R /\ <<y, z>> \in R => <<x, z>> \in R
      /\ \A x, y \in D : x = y \/ <<x, y>> \in R \/ <<y, x>> \in R
  BY DEF IsOrder
<1>2. \A x, y \in D : <<x, y>> \in Q <=> <<y, x>> \in R
  OBVIOUS
<1>3. Q \subseteq D \X D
  OBVIOUS
<1> HIDE DEF Q
<1>4. IsOrder(Q, D)
  BY <1>1, <1>2, <1>3 DEF IsOrder
<1>5. PICK z \in S : \A x \in S \ {z} : <<x, z>> \in Q
  BY <1>4, LastExists
<1>6. ASSUME NEW y \in S, <<y, z>> \in R PROVE FALSE
  <2>1. y # z
    BY <1>1, <1>6
  <2>2. <<z, y>> \in R
    BY <1>2, <1>5, <2>1
  <2> QED
    BY <1>1, <1>6, <2>2
<1> QED
  BY <1>6 DEF Ahead

\* Of those within the top there are no more than its places.
LEMMA TopIsSmall ==
  ASSUME NEW D, NEW R, IsOrder(R, D), NEW S \in SUBSET D, IsFiniteSet(S), NEW k \in Nat
  PROVE IsFiniteSet(TopBy(R, S, k)) /\ Cardinality(TopBy(R, S, k)) <= k
<1> DEFINE Top == TopBy(R, S, k)
<1>1. Top \in SUBSET S /\ Top \in SUBSET D
  BY DEF TopBy
<1>2. IsFiniteSet(Top) /\ Cardinality(Top) \in Nat
  BY <1>1, FS_Subset, FS_CardinalityType
<1>3. CASE Top = {}
  BY <1>2, <1>3, FS_EmptySet
<1>4. CASE Top # {}
  <2>1. PICK z \in Top : \A x \in Top \ {z} : <<x, z>> \in R
    BY <1>1, <1>2, <1>4, LastExists
  <2> DEFINE rest == Top \ {z}
             ahead == Ahead(R, S, z)
  <2>2. IsFiniteSet(rest) /\ Cardinality(rest) = Cardinality(Top) - 1
    BY <1>2, FS_RemoveElement
  <2>3. rest \in SUBSET ahead /\ ahead \in SUBSET S
    BY <1>1, <2>1 DEF Ahead
  <2>4. Cardinality(ahead) < k
    BY <2>1 DEF TopBy
  <2> HIDE DEF rest, ahead, Top
  <2>5. IsFiniteSet(ahead) /\ Cardinality(rest) <= Cardinality(ahead) /\ Cardinality(ahead) \in Nat
    BY <2>3, FS_Subset, FS_CardinalityType
  <2> QED
    BY <1>2, <2>2, <2>4, <2>5 DEF Top
<1> QED
  BY <1>2, <1>3, <1>4

\* If there are as many, every place is taken.
LEMMA TopIsFull ==
  ASSUME NEW D, NEW R, IsOrder(R, D), NEW S \in SUBSET D, IsFiniteSet(S),
         NEW k \in Nat, Cardinality(S) >= k
  PROVE Cardinality(TopBy(R, S, k)) >= k
<1> DEFINE Full(A) == Cardinality(A) >= k => Cardinality(TopBy(R, A, k)) >= k
           T == {n \in Nat : \A A \in SUBSET D : IsFiniteSet(A) /\ Cardinality(A) = n => Full(A)}
<1>0. /\ \A x \in D : <<x, x>> \notin R
      /\ \A x, y, z \in D : <<x, y>> \in R /\ <<y, z>> \in R => <<x, z>> \in R
  BY DEF IsOrder
<1>1. \A A : TopBy(R, A, k) \in SUBSET A
  BY DEF TopBy
<1>2. ASSUME NEW A \in SUBSET D, IsFiniteSet(A), Cardinality(A) = k PROVE Full(A)
  <2>1. ASSUME NEW x \in A PROVE Cardinality(Ahead(R, A, x)) < k
    <3> DEFINE rest == A \ {x}
               ahead == Ahead(R, A, x)
    <3>1. IsFiniteSet(rest) /\ Cardinality(rest) = k - 1
      BY <1>2, FS_RemoveElement
    <3>2. ahead \in SUBSET rest
      BY <1>0 DEF Ahead
    <3> HIDE DEF rest, ahead
    <3>3. Cardinality(ahead) <= k - 1 /\ Cardinality(ahead) \in Nat
      BY <3>1, <3>2, FS_Subset, FS_CardinalityType
    <3> QED
      BY <3>3 DEF ahead
  <2>2. TopBy(R, A, k) = A
    BY <2>1 DEF TopBy
  <2> QED
    BY <1>2, <2>2
<1>3. 0 \in T
  <2>1. ASSUME NEW A \in SUBSET D, IsFiniteSet(A), Cardinality(A) = 0, Cardinality(A) >= k PROVE Full(A)
    <3>1. Cardinality(A) = k
      BY <2>1
    <3> QED
      BY <1>2, <2>1, <3>1
  <2> QED
    BY <2>1
<1>4. ASSUME NEW n \in Nat, n > 0, n - 1 \in T PROVE n \in T
  <2>1. ASSUME NEW A \in SUBSET D, IsFiniteSet(A), Cardinality(A) = n, n > k PROVE Full(A)
    <3>1. A # {}
      BY <1>4, <2>1, FS_EmptySet
    <3>2. PICK z \in A : \A x \in A \ {z} : <<x, z>> \in R
      BY <2>1, <3>1, LastExists
    <3> DEFINE B == A \ {z}
               top == TopBy(R, B, k)
               whole == TopBy(R, A, k)
    <3>3. IsFiniteSet(B) /\ Cardinality(B) = n - 1 /\ B \in SUBSET D
      BY <2>1, FS_RemoveElement
    <3>4. \A x \in B : Ahead(R, A, x) = Ahead(R, B, x)
      <4>1. ASSUME NEW x \in B PROVE <<z, x>> \notin R
        <5>1. <<x, z>> \in R /\ x \in D /\ z \in D
          BY <3>2
        <5> QED
          BY <1>0, <5>1
      <4> QED
        BY <4>1 DEF Ahead
    <3>5. top \in SUBSET whole
      BY <3>4 DEF TopBy
    <3>6. Cardinality(top) >= k
      BY <1>4, <2>1, <3>3
    <3>7. IsFiniteSet(whole) /\ top \in SUBSET B
      BY <1>1, <2>1, FS_Subset
    <3> HIDE DEF top, whole, B
    <3>8. Cardinality(top) <= Cardinality(whole) /\ Cardinality(top) \in Nat /\ Cardinality(whole) \in Nat
      BY <3>3, <3>5, <3>7, FS_Subset, FS_CardinalityType
    <3> QED
      BY <3>6, <3>8 DEF whole
  <2>2. ASSUME NEW A \in SUBSET D, IsFiniteSet(A), Cardinality(A) = n PROVE Full(A)
    <3>1. n > k \/ n = k \/ ~(n >= k)
      OBVIOUS
    <3> QED
      BY <1>2, <2>1, <2>2, <3>1
  <2> QED
    BY <2>2
<1> HIDE DEF T
<1>5. Cardinality(S) \in Nat
  BY FS_CardinalityType
<1>6. Cardinality(S) \in T
  <2>1. \A i \in 1 .. Cardinality(S) : i - 1 \in T => i \in T
    BY <1>4, <1>5
  <2>2. \A i \in 0 .. Cardinality(S) : i \in T
    BY ONLY <1>3, <1>5, <2>1, UpToAll
  <2> QED
    BY <1>5, <2>2
<1> QED
  BY <1>6 DEF T

\* The top of two sets needs of the first only its top: those it leaves behind
\* have the places of both taken ahead of them.
LEMMA TopOfTop ==
  ASSUME NEW D, NEW R, IsOrder(R, D), NEW A \in SUBSET D, NEW B \in SUBSET D,
         IsFiniteSet(A), IsFiniteSet(B), NEW k \in Nat
  PROVE TopBy(R, TopBy(R, A, k) \cup B, k) = TopBy(R, A \cup B, k)
<1> DEFINE U == A \cup B
           V == TopBy(R, A, k) \cup B
<1>0. \A x, y, z \in D : <<x, y>> \in R /\ <<y, z>> \in R => <<x, z>> \in R
  BY DEF IsOrder
<1>1. V \in SUBSET U /\ U \in SUBSET D /\ A \in SUBSET U /\ B \in SUBSET V /\ TopBy(R, A, k) \in SUBSET V
  BY DEF TopBy
<1>2. IsFiniteSet(U)
  BY FS_Union
<1> HIDE DEF U, V
<1>3. ASSUME NEW P \in SUBSET U, NEW x PROVE IsFiniteSet(Ahead(R, P, x)) /\ Cardinality(Ahead(R, P, x)) \in Nat
  <2>1. Ahead(R, P, x) \in SUBSET U
    BY DEF Ahead
  <2> QED
    BY <1>2, <2>1, FS_Subset, FS_CardinalityType
<1>4. ASSUME NEW P \in SUBSET U, NEW Q \in SUBSET P, NEW x
      PROVE Cardinality(Ahead(R, Q, x)) <= Cardinality(Ahead(R, P, x))
  <2>1. Ahead(R, Q, x) \in SUBSET Ahead(R, P, x)
    BY DEF Ahead
  <2> QED
    BY <1>3, <2>1, FS_Subset
<1>5. ASSUME NEW x \in TopBy(R, U, k) PROVE x \in TopBy(R, V, k)
  <2>1. x \in U /\ Cardinality(Ahead(R, U, x)) < k
    BY DEF TopBy
  <2>2. U \in SUBSET U
    OBVIOUS
  <2>3. /\ Cardinality(Ahead(R, A, x)) <= Cardinality(Ahead(R, U, x))
        /\ Cardinality(Ahead(R, V, x)) <= Cardinality(Ahead(R, U, x))
    BY <1>1, <1>4, <2>2
  <2>4. /\ Cardinality(Ahead(R, A, x)) \in Nat /\ Cardinality(Ahead(R, V, x)) \in Nat
        /\ Cardinality(Ahead(R, U, x)) \in Nat
    BY <1>1, <1>3, <2>2
  <2>5. Cardinality(Ahead(R, A, x)) < k /\ Cardinality(Ahead(R, V, x)) < k
    BY <2>1, <2>3, <2>4
  <2>6. x \in V
    BY <2>1, <2>5 DEF U, V, TopBy
  <2> QED
    BY <2>5, <2>6 DEF TopBy
<1>6. ASSUME NEW x \in TopBy(R, V, k), ~(Cardinality(Ahead(R, U, x)) < k) PROVE FALSE
  <2>1. x \in V /\ Cardinality(Ahead(R, V, x)) < k /\ x \in D
    BY <1>1 DEF TopBy
  <2>2. PICK y \in U : <<y, x>> \in R /\ y \notin V
    <3>1. Ahead(R, V, x) # Ahead(R, U, x)
      BY <1>6, <2>1
    <3> QED
      BY <1>1, <3>1 DEF Ahead
  <2>3. y \in A /\ y \in D /\ ~(Cardinality(Ahead(R, A, y)) < k)
    BY <1>1, <2>2 DEF U, V, TopBy
  <2> DEFINE Y == Ahead(R, A, y)
             top == TopBy(R, Y, k)
             past == Ahead(R, V, x)
  <2>4. Y \in SUBSET A /\ Y \in SUBSET D /\ IsFiniteSet(Y) /\ Cardinality(Y) \in Nat
    BY <1>1, <1>3 DEF Ahead
  <2>5. Cardinality(Y) >= k
    BY <2>3, <2>4
  <2>6. Cardinality(top) >= k
    BY <2>4, <2>5, TopIsFull
  <2>7. top \in SUBSET past
    <3>1. ASSUME NEW w \in top PROVE w \in past
      <4>1. w \in Y /\ Cardinality(Ahead(R, Y, w)) < k
        BY DEF TopBy
      <4>2. w \in A /\ w \in D /\ <<w, y>> \in R
        BY <4>1, <2>4 DEF Ahead
      <4>3. Ahead(R, A, w) = Ahead(R, Y, w)
        <5>1. ASSUME NEW v \in A, <<v, w>> \in R PROVE <<v, y>> \in R
          BY <1>0, <2>3, <4>2, <5>1
        <5> QED
          BY <5>1 DEF Ahead
      <4>4. w \in V
        BY <1>1, <4>1, <4>2, <4>3 DEF TopBy
      <4>5. <<w, x>> \in R
        BY <1>0, <2>1, <2>2, <2>3, <4>2
      <4> QED
        BY <4>4, <4>5 DEF Ahead
    <3> QED
      BY <3>1
  <2>8. IsFiniteSet(past) /\ Cardinality(past) \in Nat
    BY <1>1, <1>3
  <2>9. top \in SUBSET Y
    BY DEF TopBy
  <2>10. Cardinality(past) < k
    BY <2>1
  <2> HIDE DEF top, past, Y
  <2>11. Cardinality(top) <= Cardinality(past) /\ Cardinality(top) \in Nat
    BY <2>4, <2>7, <2>8, <2>9, FS_Subset, FS_CardinalityType
  <2> QED
    BY <2>6, <2>8, <2>10, <2>11
<1>7. ASSUME NEW x \in TopBy(R, V, k) PROVE x \in TopBy(R, U, k)
  <2>1. x \in U
    BY <1>1 DEF TopBy
  <2> QED
    BY <1>6, <1>7, <2>1 DEF TopBy
<1> QED
  BY <1>5, <1>7 DEF U, V

-----------------------------------------------------------------------------
(* Texts *)

LEMMA MinOfNumbers ==
  ASSUME NEW S \in SUBSET Nat, S # {}
  PROVE Min(S) \in S /\ \A y \in S : Min(S) <= y
<1>1. \E x \in S : \A y \in S : x <= y
  BY ONLY S \in SUBSET Nat, S # {}, LeastExists
<1> QED
  BY <1>1 DEF Min

\* A part of a text.
LEMMA PartIs ==
  ASSUME NEW C, NEW s \in Seq(C), NEW a \in Nat, NEW b \in Nat, a >= 1, b <= Len(s), a <= b + 1
  PROVE /\ SubSeq(s, a, b) \in Seq(C) /\ Len(SubSeq(s, a, b)) = b - a + 1
        /\ \A j \in 1..b - a + 1 : SubSeq(s, a, b)[j] = s[a + j - 1]
<1>1. Len(s) \in Nat /\ \A j \in 1..Len(s) : s[j] \in C
  OBVIOUS
<1>2. \A j \in a..b : s[j] \in C
  BY <1>1
<1> DEFINE p == SubSeq(s, a, b)
<1>3. /\ p \in Seq(C) /\ Len(p) = IF a <= b THEN b - a + 1 ELSE 0
      /\ \A j \in 1..b - a + 1 : p[j] = s[a + j - 1]
  BY <1>1, <1>2, SubSeqProperties
<1> HIDE DEF p
<1>4. ~(a <= b) => b - a + 1 = 0
  OBVIOUS
<1> QED
  BY <1>3, <1>4

\* What is left of two texts is the same if its letters are.
LEMMA TailsAgree ==
  ASSUME NEW C, NEW s \in Seq(C), NEW t \in Seq(C), NEW a \in Nat, NEW b \in Nat, NEW d \in Nat,
         a >= 1, a <= Len(s) + 1, Len(s) + d = Len(t), b = a + d
  PROVE SubSeq(s, a, Len(s)) = SubSeq(t, b, Len(t)) <=> \A k \in a..Len(s) : s[k] = t[k + d]
<1> DEFINE n == Len(s) - a + 1
           p == SubSeq(s, a, Len(s))
           r == SubSeq(t, b, Len(t))
<1>1. Len(s) \in Nat /\ Len(t) \in Nat /\ n \in Nat /\ Len(t) - b + 1 = n /\ b >= 1 /\ b <= Len(t) + 1
  OBVIOUS
<1>2. p \in Seq(C) /\ Len(p) = n /\ \A j \in 1..n : p[j] = s[a + j - 1]
  BY <1>1, PartIs
<1>3. r \in Seq(C) /\ Len(r) = n /\ \A j \in 1..n : r[j] = t[b + j - 1]
  <2>1. /\ r \in Seq(C) /\ Len(r) = Len(t) - b + 1
        /\ \A j \in 1..Len(t) - b + 1 : r[j] = t[b + j - 1]
    BY <1>1, PartIs
  <2> HIDE DEF r
  <2> QED
    BY <1>1, <2>1
<1>4. p = r <=> \A j \in 1..n : p[j] = r[j]
  BY ONLY <1>1, <1>2, <1>3, SeqEqual
<1>5. ASSUME NEW j \in 1..n PROVE a + j - 1 \in a..Len(s) /\ b + j - 1 = a + j - 1 + d
  BY <1>1
<1>6. ASSUME NEW k \in a..Len(s)
      PROVE k - a + 1 \in 1..n /\ a + (k - a + 1) - 1 = k /\ b + (k - a + 1) - 1 = k + d
  BY <1>1
<1> HIDE DEF p, r, n
<1>7. ASSUME \A j \in 1..n : p[j] = r[j], NEW k \in a..Len(s) PROVE s[k] = t[k + d]
  <2> DEFINE i == k - a + 1
  <2>1. i \in 1..n /\ a + i - 1 = k /\ b + i - 1 = k + d
    BY <1>6
  <2> HIDE DEF i
  <2>2. p[i] = s[k] /\ r[i] = t[k + d] /\ p[i] = r[i]
    BY ONLY <1>2, <1>3, <1>7, <2>1
  <2> QED
    BY <2>2
<1>8. ASSUME \A k \in a..Len(s) : s[k] = t[k + d], NEW j \in 1..n PROVE p[j] = r[j]
  <2> DEFINE i == a + j - 1
  <2>1. i \in a..Len(s) /\ b + j - 1 = i + d /\ p[j] = s[i] /\ r[j] = t[b + j - 1]
    BY <1>2, <1>3, <1>5
  <2> HIDE DEF i
  <2> QED
    BY ONLY <1>8, <2>1
<1> QED
  BY <1>4, <1>7, <1>8 DEF p, r

FoundAt(q, t, i) == i \in 1..Len(t) - Len(q) + 1 /\ \A j \in 1..Len(q) : t[i + j - 1] = q[j]

LEMMA WithinIs ==
  ASSUME NEW C, NEW q \in Seq(C), NEW t \in Seq(C)
  PROVE Within(q, t) <=> \E i \in Nat : FoundAt(q, t, i)
<1>0. Len(q) \in Nat /\ Len(t) \in Nat
  OBVIOUS
<1>1. ASSUME NEW i \in 1..Len(t) - Len(q) + 1
      PROVE SubSeq(t, i, i + Len(q) - 1) = q <=> \A j \in 1..Len(q) : t[i + j - 1] = q[j]
  <2> DEFINE p == SubSeq(t, i, i + Len(q) - 1)
             b == i + Len(q) - 1
  <2>1. i \in Nat /\ i >= 1 /\ b \in Nat /\ b <= Len(t) /\ i <= b + 1 /\ b - i + 1 = Len(q)
    BY <1>0
  <2>2. p \in Seq(C) /\ Len(p) = b - i + 1 /\ \A j \in 1..b - i + 1 : p[j] = t[i + j - 1]
    BY <2>1, PartIs
  <2> HIDE DEF p, b
  <2>3. p = q <=> \A j \in 1..Len(q) : p[j] = q[j]
    BY <1>0, <2>1, <2>2, SeqEqual
  <2> QED
    BY <2>1, <2>2, <2>3 DEF p
<1>2. \A i : FoundAt(q, t, i) => i \in 1..Len(t) - Len(q) + 1 /\ i \in Nat
  BY <1>0 DEF FoundAt
<1>3. \A i \in 1..Len(t) - Len(q) + 1 : i \in Places(q, t) <=> FoundAt(q, t, i)
  BY <1>1 DEF Places, FoundAt
<1>4. Places(q, t) \in SUBSET (1..Len(t) - Len(q) + 1)
  BY DEF Places
<1> QED
  BY <1>2, <1>3, <1>4 DEF Within

\* What is in a part of a text is in the text.
LEMMA WithinPart ==
  ASSUME NEW C, NEW t \in Seq(C), NEW q \in Seq(C), NEW a \in Nat, NEW b \in Nat,
         a >= 1, b <= Len(t), a <= b + 1, Within(q, SubSeq(t, a, b))
  PROVE Within(q, t)
<1> DEFINE p == SubSeq(t, a, b)
<1>0. Len(q) \in Nat /\ Len(t) \in Nat
  OBVIOUS
<1>1. p \in Seq(C) /\ Len(p) = b - a + 1 /\ \A j \in 1..b - a + 1 : p[j] = t[a + j - 1]
  BY PartIs
<1> HIDE DEF p
<1>2. Within(q, p)
  BY DEF p
<1>3. PICK i \in Nat : FoundAt(q, p, i)
  BY ONLY <1>1, <1>2, WithinIs, q \in Seq(C)
<1>4. i \in 1..Len(p) - Len(q) + 1 /\ \A j \in 1..Len(q) : p[i + j - 1] = q[j]
  BY <1>3 DEF FoundAt
<1> DEFINE k == a + i - 1
<1>5. k \in Nat /\ k \in 1..Len(t) - Len(q) + 1
  BY <1>0, <1>1, <1>4
<1>6. ASSUME NEW j \in 1..Len(q) PROVE t[k + j - 1] = q[j]
  <2> DEFINE x == i + j - 1
  <2>1. x \in 1..b - a + 1 /\ a + x - 1 = k + j - 1
    BY <1>0, <1>1, <1>4
  <2>2. p[x] = q[j]
    BY <1>4
  <2> HIDE DEF x, k
  <2> QED
    BY <1>1, <2>1, <2>2
<1> HIDE DEF k
<1>7. FoundAt(q, t, k)
  BY <1>5, <1>6 DEF FoundAt
<1> QED
  BY <1>5, <1>7, WithinIs

\* A part of a text is in it, and what is in it is where its parts are.
LEMMA PartWithin ==
  ASSUME NEW C, NEW t \in Seq(C), NEW q \in Seq(C), Within(q, t), NEW a \in Nat, NEW b \in Nat,
         a >= 1, b <= Len(q), a <= b + 1
  PROVE SubSeq(q, a, b) \in Seq(C) /\ Within(SubSeq(q, a, b), t)
<1> DEFINE p == SubSeq(q, a, b)
<1>0. Len(q) \in Nat /\ Len(t) \in Nat
  OBVIOUS
<1>1. p \in Seq(C) /\ Len(p) = b - a + 1 /\ \A j \in 1..b - a + 1 : p[j] = q[a + j - 1]
  BY PartIs
<1> HIDE DEF p
<1>2. PICK i \in Nat : FoundAt(q, t, i)
  BY WithinIs
<1>3. i \in 1..Len(t) - Len(q) + 1 /\ \A j \in 1..Len(q) : t[i + j - 1] = q[j]
  BY <1>2 DEF FoundAt
<1> DEFINE k == i + a - 1
<1>4. k \in Nat /\ k \in 1..Len(t) - Len(p) + 1
  BY <1>0, <1>1, <1>3
<1>5. ASSUME NEW j \in 1..Len(p) PROVE t[k + j - 1] = p[j]
  <2> DEFINE x == a + j - 1
  <2>0. j \in 1..b - a + 1
    BY ONLY <1>1, j \in 1..Len(p)
  <2>1. x \in 1..Len(q) /\ i + x - 1 = k + j - 1 /\ j \in 1..b - a + 1
    BY ONLY <1>0, <2>0, a \in Nat, b \in Nat, i \in Nat, a >= 1, b <= Len(q)
  <2>2. p[j] = q[x]
    BY <1>1, <2>1
  <2> HIDE DEF x, k
  <2> QED
    BY <1>3, <2>1, <2>2
<1> HIDE DEF k
<1>6. FoundAt(p, t, k)
  BY <1>4, <1>5 DEF FoundAt
<1>7. Within(p, t)
  BY <1>1, <1>4, <1>6, WithinIs
<1> QED
  BY <1>1, <1>7 DEF p

LEMMA ItselfWithin ==
  ASSUME NEW C, NEW t \in Seq(C) PROVE Within(t, t)
<1>1. Len(t) \in Nat
  OBVIOUS
<1>2. FoundAt(t, t, 1)
  <2>1. \A j \in 1..Len(t) : 1 + j - 1 = j
    BY <1>1
  <2> QED
    BY <1>1, <2>1 DEF FoundAt
<1> QED
  BY <1>2, WithinIs

\* Letters past the end of a text.
LEMMA NothingLeft ==
  ASSUME NEW C, NEW s \in Seq(C), NEW a \in Nat, a > Len(s)
  PROVE SubSeq(s, a, Len(s)) = <<>>
<1> DEFINE p == SubSeq(s, a, Len(s))
<1>1. Len(s) \in Nat /\ \A j \in a..Len(s) : s[j] \in C
  OBVIOUS
<1>2. p \in Seq(C) /\ Len(p) = IF a <= Len(s) THEN Len(s) - a + 1 ELSE 0
  BY <1>1, SubSeqProperties
<1> HIDE DEF p
<1>3. p \in Seq(C) /\ Len(p) = 0
  BY <1>1, <1>2
<1>4. p = <<>>
  BY ONLY <1>3
<1> QED
  BY <1>4 DEF p

\* Two texts begin with m letters alike, and no more.
Alike(s, t, m) ==
    /\ m \in Nat /\ m <= Len(s) /\ m <= Len(t)
    /\ \A j \in 1..m : s[j] = t[j]
    /\ m < Len(s) /\ m < Len(t) => s[m + 1] # t[m + 1]

LEMMA AlikeIs ==
  ASSUME NEW C, NEW s \in Seq(C), NEW t \in Seq(C)
  PROVE Alike(s, t, AlikeUpTo(s, t)) /\ Alike(t, s, AlikeUpTo(s, t))
<1> DEFINE least == Min({Len(s), Len(t)})
           m == AlikeUpTo(s, t)
           alike == {n \in 1..least : SubSeq(s, 1, n) = SubSeq(t, 1, n)}
           upto == {0} \cup alike
<1>0. Len(s) \in Nat /\ Len(t) \in Nat
  OBVIOUS
<1>1. least \in Nat /\ least <= Len(s) /\ least <= Len(t) /\ (least = Len(s) \/ least = Len(t))
  <2> DEFINE both == {Len(s), Len(t)}
  <2>1. both \in SUBSET Nat /\ both # {}
    BY <1>0
  <2>2. Min(both) \in both /\ \A y \in both : Min(both) <= y
    BY ONLY <2>1, MinOfNumbers
  <2> QED
    BY <1>0, <2>2
<1>2. m = Max(upto)
  BY DEF AlikeUpTo
<1>3. upto \in SUBSET Nat /\ upto # {} /\ IsFiniteSet(upto)
  <2>1. upto \in SUBSET (0..least)
    BY <1>1
  <2>2. IsFiniteSet(0..least)
    BY <1>1, FS_Interval
  <2>3. IsFiniteSet(upto)
    BY ONLY <2>1, <2>2, FS_Subset
  <2> QED
    BY <1>1, <2>1, <2>3
<1> HIDE DEF least, m
<1>4. \A n \in 1..least : SubSeq(s, 1, n) = SubSeq(t, 1, n) <=> \A j \in 1..n : s[j] = t[j]
  <2>1. ASSUME NEW n \in 1..least
        PROVE SubSeq(s, 1, n) = SubSeq(t, 1, n) <=> \A j \in 1..n : s[j] = t[j]
    <3> DEFINE p == SubSeq(s, 1, n)
               r == SubSeq(t, 1, n)
    <3>1. n \in Nat /\ n >= 1 /\ n <= Len(s) /\ n <= Len(t) /\ n - 1 + 1 = n /\ 1 <= n + 1
      BY <1>0, <1>1
    <3>2. p \in Seq(C) /\ Len(p) = n - 1 + 1 /\ \A j \in 1..n - 1 + 1 : p[j] = s[1 + j - 1]
      BY ONLY <3>1, s \in Seq(C), PartIs
    <3>3. r \in Seq(C) /\ Len(r) = n - 1 + 1 /\ \A j \in 1..n - 1 + 1 : r[j] = t[1 + j - 1]
      BY ONLY <3>1, t \in Seq(C), PartIs
    <3> HIDE DEF p, r
    <3>4. \A j \in 1..n : p[j] = s[j] /\ r[j] = t[j]
      BY <3>1, <3>2, <3>3
    <3>5. p = r <=> \A j \in 1..n : p[j] = r[j]
      BY <3>1, <3>2, <3>3, SeqEqual
    <3> QED
      BY <3>4, <3>5 DEF p, r
  <2> QED
    BY <2>1
<1>5. m \in upto /\ \A y \in upto : m >= y
  BY ONLY <1>2, <1>3, MaxOfFinite
<1>6. m \in Nat /\ m <= least
  BY <1>1, <1>5
<1>7. \A j \in 1..m : s[j] = t[j]
  <2>1. CASE m = 0
    BY <2>1
  <2>2. CASE m \in alike
    BY <1>4, <2>2
  <2> QED
    BY <1>5, <2>1, <2>2
<1>8. ASSUME m < Len(s), m < Len(t), s[m + 1] = t[m + 1] PROVE FALSE
  <2> DEFINE w == m + 1
  <2>1. w \in 1..least /\ w > m /\ \A j \in 1..w : j \in 1..m \/ j = w
    BY <1>1, <1>6, <1>8
  <2>2. \A j \in 1..w : s[j] = t[j]
    BY <1>7, <1>8, <2>1
  <2> HIDE DEF w
  <2>3. w \in alike
    BY <1>4, <2>1, <2>2
  <2>4. w \in Nat /\ m >= w
    BY <1>1, <1>5, <2>1, <2>3
  <2> QED
    BY <1>6, <2>1, <2>4
<1> QED
  BY <1>0, <1>1, <1>6, <1>7, <1>8 DEF m, Alike

\* The matcher skips those letters and one letter of the longer text, or of both.
LEMMA EditIs ==
  ASSUME NEW C, NEW s \in Seq(C), NEW t \in Seq(C), NEW m, m = AlikeUpTo(s, t)
  PROVE WithinOneEdit(s, t) <=>
          \/ Len(s) = Len(t) /\ \A k \in m + 2..Len(s) : s[k] = t[k]
          \/ Len(s) = Len(t) + 1 /\ \A k \in m + 1..Len(t) : t[k] = s[k + 1]
          \/ Len(s) + 1 = Len(t) /\ \A k \in m + 1..Len(s) : s[k] = t[k + 1]
<1>0. Len(s) \in Nat /\ Len(t) \in Nat
  OBVIOUS
<1>1. m \in Nat /\ m <= Len(s) /\ m <= Len(t)
  BY AlikeIs DEF Alike
<1>2. m + 1 + 1 = m + 2 /\ m + 0 + 1 = m + 1 /\ m + 2 \in Nat /\ m + 1 \in Nat
  BY <1>1
<1>3. /\ Len(s) = Len(t) => Len(s) # Len(t) + 1 /\ Len(s) + 1 # Len(t)
      /\ Len(s) = Len(t) + 1 => Len(s) # Len(t) /\ Len(s) + 1 # Len(t)
      /\ Len(s) + 1 = Len(t) => Len(s) # Len(t) /\ Len(s) # Len(t) + 1
  BY <1>0
<1> DEFINE W == WithinOneEdit(s, t)
           Replaced == \A k \in m + 2..Len(s) : s[k] = t[k]
           Longer == \A k \in m + 1..Len(t) : t[k] = s[k + 1]
           Shorter == \A k \in m + 1..Len(s) : s[k] = t[k + 1]
<1>4. Len(s) = Len(t) => (W <=> Replaced)
  <2> SUFFICES ASSUME Len(s) = Len(t) PROVE W <=> Replaced
    OBVIOUS
  <2> DEFINE a == m + 2
  <2>1. W <=> SubSeq(s, a, Len(s)) = SubSeq(t, a, Len(t))
    BY <1>2, <1>3 DEF WithinOneEdit
  <2>2. CASE m = Len(s)
    <3>1. SubSeq(s, a, Len(s)) = <<>> /\ SubSeq(t, a, Len(t)) = <<>>
      BY <1>0, <1>1, <2>2, NothingLeft
    <3>2. Replaced
      BY <1>0, <2>2
    <3> QED
      BY <2>1, <3>1, <3>2
  <2>3. CASE m # Len(s)
    <3>1. /\ a \in Nat /\ 0 \in Nat /\ a >= 1 /\ a <= Len(s) + 1 /\ Len(s) + 0 = Len(t) /\ a = a + 0
          /\ \A k \in a..Len(s) : k + 0 = k
      BY <1>0, <1>1, <2>3
    <3>0. Replaced <=> \A k \in a..Len(s) : s[k] = t[k]
      OBVIOUS
    <3> HIDE DEF a, Replaced, W
    <3>2. SubSeq(s, a, Len(s)) = SubSeq(t, a, Len(t)) <=> \A k \in a..Len(s) : s[k] = t[k + 0]
      BY ONLY <3>1, s \in Seq(C), t \in Seq(C), TailsAgree
    <3>3. SubSeq(s, a, Len(s)) = SubSeq(t, a, Len(t)) <=> \A k \in a..Len(s) : s[k] = t[k]
      BY ONLY <3>1, <3>2
    <3> QED
      BY ONLY <2>1, <3>0, <3>3
  <2> QED
    BY <2>2, <2>3
<1>5. Len(s) = Len(t) + 1 => (W <=> Longer)
  <2> SUFFICES ASSUME Len(s) = Len(t) + 1 PROVE W <=> Longer
    OBVIOUS
  <2> DEFINE a == m + 1
             b == m + 2
  <2>0. Longer <=> \A k \in a..Len(t) : t[k] = s[k + 1]
    OBVIOUS
  <2>1. a \in Nat /\ b \in Nat /\ 1 \in Nat /\ a >= 1 /\ a <= Len(t) + 1 /\ b = a + 1 /\ Len(t) + 1 = Len(s)
    BY <1>0, <1>1
  <2>2. W <=> SubSeq(t, a, Len(t)) = SubSeq(s, b, Len(s))
    BY <1>2, <1>3 DEF WithinOneEdit
  <2> HIDE DEF a, b, W, Longer
  <2>3. SubSeq(t, a, Len(t)) = SubSeq(s, b, Len(s)) <=> \A k \in a..Len(t) : t[k] = s[k + 1]
    BY ONLY <2>1, s \in Seq(C), t \in Seq(C), TailsAgree
  <2> QED
    BY ONLY <2>0, <2>2, <2>3
<1>6. Len(s) + 1 = Len(t) => (W <=> Shorter)
  <2> SUFFICES ASSUME Len(s) + 1 = Len(t) PROVE W <=> Shorter
    OBVIOUS
  <2> DEFINE a == m + 1
             b == m + 2
  <2>0. Shorter <=> \A k \in a..Len(s) : s[k] = t[k + 1]
    OBVIOUS
  <2>1. a \in Nat /\ b \in Nat /\ 1 \in Nat /\ a >= 1 /\ a <= Len(s) + 1 /\ b = a + 1 /\ Len(s) + 1 = Len(t)
    BY <1>0, <1>1
  <2>2. W <=> SubSeq(s, a, Len(s)) = SubSeq(t, b, Len(t))
    BY <1>2, <1>3 DEF WithinOneEdit
  <2> HIDE DEF a, b, W, Shorter
  <2>3. SubSeq(s, a, Len(s)) = SubSeq(t, b, Len(t)) <=> \A k \in a..Len(s) : s[k] = t[k + 1]
    BY ONLY <2>1, s \in Seq(C), t \in Seq(C), TailsAgree
  <2> QED
    BY ONLY <2>0, <2>2, <2>3
<1>7. Len(s) # Len(t) /\ Len(s) # Len(t) + 1 /\ Len(s) + 1 # Len(t) => ~W
  BY DEF WithinOneEdit
<1>8. W <=> \/ Len(s) = Len(t) /\ Replaced
            \/ Len(s) = Len(t) + 1 /\ Longer
            \/ Len(s) + 1 = Len(t) /\ Shorter
  <2> HIDE DEF W, Replaced, Longer, Shorter
  <2> QED
    BY ONLY <1>4, <1>5, <1>6, <1>7, <1>3
<1> QED
  BY ONLY <1>8

\* One letter less: the letters behind the first difference move up by one.
LEMMA LetterLess ==
  ASSUME NEW C, NEW s \in Seq(C), NEW t \in Seq(C), Len(s) = Len(t) + 1,
         NEW m, Alike(s, t, m)
  PROVE (\E i \in DOMAIN s : RemoveAt(s, i) = t) <=> \A k \in m + 1..Len(t) : t[k] = s[k + 1]
<1>0. Len(s) \in Nat /\ Len(t) \in Nat /\ DOMAIN s = 1..Len(s) /\ Len(s) - 1 = Len(t)
  OBVIOUS
<1>5. m \in Nat /\ m <= Len(t) /\ (\A j \in 1..m : s[j] = t[j]) /\ (m < Len(t) => s[m + 1] # t[m + 1])
  BY <1>0 DEF Alike
<1>1. ASSUME NEW i \in DOMAIN s
      PROVE RemoveAt(s, i) = t <=> \A j \in 1..Len(t) : t[j] = s[IF j < i THEN j ELSE j + 1]
  <2> DEFINE r == RemoveAt(s, i)
  <2>1. /\ r \in Seq(C) /\ Len(r) = Len(s) - 1
        /\ \A j \in 1..Len(s) - 1 : r[j] = s[IF j < i THEN j ELSE j + 1]
    BY RemoveAtIs
  <2> HIDE DEF r
  <2>2. r = t <=> \A j \in 1..Len(t) : r[j] = t[j]
    BY <1>0, <1>5, <2>1, SeqEqual
  <2>3. \A j \in 1..Len(t) : r[j] = s[IF j < i THEN j ELSE j + 1]
    BY ONLY <1>0, <2>1
  <2> QED
    BY <2>2, <2>3 DEF r
<1>2. ASSUME \A k \in m + 1..Len(t) : t[k] = s[k + 1]
      PROVE \E i \in DOMAIN s : RemoveAt(s, i) = t
  <2> DEFINE i == m + 1
  <2>1. i \in DOMAIN s
    BY <1>0, <1>5
  <2>2. ASSUME NEW j \in 1..Len(t) PROVE t[j] = s[IF j < i THEN j ELSE j + 1]
    <3>1. CASE j < i
      <4>1. j \in 1..m
        BY <1>0, <1>5, <3>1
      <4> QED
        BY <1>5, <3>1, <4>1
    <3>2. CASE ~(j < i)
      <4>1. j \in m + 1..Len(t)
        BY <1>0, <1>5, <3>2
      <4> QED
        BY <1>2, <3>2, <4>1
    <3> QED
      BY <1>5, <3>1, <3>2
  <2> HIDE DEF i
  <2> QED
    BY <1>1, <2>1, <2>2
<1>3. ASSUME NEW i \in DOMAIN s, RemoveAt(s, i) = t, NEW k \in m + 1..Len(t)
      PROVE t[k] = s[k + 1]
  <2>1. \A j \in 1..Len(t) : t[j] = s[IF j < i THEN j ELSE j + 1]
    BY <1>1, <1>3
  <2>2. CASE k < i
    <3> DEFINE w == m + 1
    <3>1. w \in 1..Len(t) /\ w < i /\ m < Len(t)
      BY <1>0, <1>5, <2>2
    <3>2. t[w] = s[w]
      BY ONLY <2>1, <3>1
    <3> QED
      BY <1>5, <3>1, <3>2
  <2>3. CASE ~(k < i)
    <3>1. k \in 1..Len(t)
      BY <1>0, <1>5
    <3> QED
      BY <2>1, <2>3, <3>1
  <2> QED
    BY <2>2, <2>3
<1> QED
  BY <1>2, <1>3

\* Another letter: the others are the same.
LEMMA LetterElse ==
  ASSUME NEW C, NEW s \in Seq(C), NEW t \in Seq(C), Len(s) = Len(t),
         NEW m, Alike(s, t, m)
  PROVE (s = t \/ \E i \in DOMAIN s : ReplaceAt(s, i, t[i]) = t) <=> \A k \in m + 2..Len(s) : s[k] = t[k]
<1>0. Len(s) \in Nat /\ DOMAIN s = 1..Len(s) /\ DOMAIN t = 1..Len(s)
  OBVIOUS
<1>5. m \in Nat /\ m <= Len(t) /\ (\A j \in 1..m : s[j] = t[j]) /\ (m < Len(t) => s[m + 1] # t[m + 1])
  BY <1>0 DEF Alike
<1>1. s = t <=> \A j \in 1..Len(s) : s[j] = t[j]
  BY <1>0, <1>5, SeqEqual
<1>2. ASSUME NEW i \in DOMAIN s
      PROVE ReplaceAt(s, i, t[i]) = t <=> \A j \in 1..Len(s) : j # i => s[j] = t[j]
  <2> DEFINE r == [s EXCEPT ![i] = t[i]]
  <2>1. t[i] \in C
    BY <1>0, <1>5
  <2>2. r \in Seq(C) /\ Len(r) = Len(s) /\ \A j \in 1..Len(s) : r[j] = IF j = i THEN t[i] ELSE s[j]
    BY <1>0, <1>5, <2>1
  <2>3. ReplaceAt(s, i, t[i]) = r
    BY DEF ReplaceAt
  <2> HIDE DEF r
  <2>4. r = t <=> \A j \in 1..Len(s) : r[j] = t[j]
    BY <1>0, <1>5, <2>2, SeqEqual
  <2> QED
    BY <2>2, <2>3, <2>4
<1>3. ASSUME \A k \in m + 2..Len(s) : s[k] = t[k]
      PROVE s = t \/ \E i \in DOMAIN s : ReplaceAt(s, i, t[i]) = t
  <2>1. CASE m = Len(s)
    BY <1>0, <1>5, <1>1, <2>1
  <2>2. CASE m # Len(s)
    <3> DEFINE i == m + 1
    <3>1. i \in DOMAIN s /\ \A j \in 1..Len(s) : j # i => j \in 1..m \/ j \in m + 2..Len(s)
      BY <1>0, <1>5, <2>2
    <3> HIDE DEF i
    <3> QED
      BY <1>5, <1>2, <1>3, <3>1
  <2> QED
    BY <2>1, <2>2
<1>4. ASSUME s = t \/ \E i \in DOMAIN s : ReplaceAt(s, i, t[i]) = t, NEW k \in m + 2..Len(s)
      PROVE s[k] = t[k]
  <2>1. CASE s = t
    BY <2>1
  <2>2. ASSUME NEW i \in DOMAIN s, ReplaceAt(s, i, t[i]) = t PROVE s[k] = t[k]
    <3>1. \A j \in 1..Len(s) : j # i => s[j] = t[j]
      BY <1>2, <2>2
    <3> DEFINE w == m + 1
    <3>2. w \in 1..Len(s) /\ w # k /\ k \in 1..Len(s) /\ m < Len(t)
      BY <1>0, <1>5
    <3>3. w = i
      BY <1>5, <3>1, <3>2
    <3> HIDE DEF w
    <3> QED
      BY <3>1, <3>2, <3>3
  <2> QED
    BY <1>4, <2>1, <2>2
<1> QED
  BY <1>3, <1>4

\* edit_distance_at_most_one forgives one edit, and no more.
LEMMA EditsForgiven ==
  ASSUME NEW C, NEW s \in Seq(C), NEW t \in Seq(C)
  PROVE WithinOneEdit(s, t) = OneEdit(s, t)
<1> DEFINE m == AlikeUpTo(s, t)
           Replaced == \A k \in m + 2..Len(s) : s[k] = t[k]
           Longer == \A k \in m + 1..Len(t) : t[k] = s[k + 1]
           Shorter == \A k \in m + 1..Len(s) : s[k] = t[k + 1]
           More == \E i \in DOMAIN s : RemoveAt(s, i) = t
           Fewer == \E i \in DOMAIN t : RemoveAt(t, i) = s
           Other == \E i \in DOMAIN s : ReplaceAt(s, i, t[i]) = t
<1>0. Len(s) \in Nat /\ Len(t) \in Nat
  OBVIOUS
<1>1. Alike(s, t, m) /\ Alike(t, s, m)
  BY AlikeIs
<1>2. WithinOneEdit(s, t) <=>
        \/ Len(s) = Len(t) /\ Replaced
        \/ Len(s) = Len(t) + 1 /\ Longer
        \/ Len(s) + 1 = Len(t) /\ Shorter
  BY EditIs
<1>3. OneEdit(s, t) <=> s = t \/ More \/ Fewer \/ (Len(s) = Len(t) /\ Other)
  BY DEF OneEdit
<1>4. More => Len(s) = Len(t) + 1
  <2>1. ASSUME NEW i \in DOMAIN s, RemoveAt(s, i) = t PROVE Len(s) = Len(t) + 1
    <3>1. Len(t) = Len(s) - 1
      BY <2>1, RemoveAtIs
    <3> QED
      BY <1>0, <3>1
  <2> QED
    BY <2>1
<1>5. Fewer => Len(s) + 1 = Len(t)
  <2>1. ASSUME NEW i \in DOMAIN t, RemoveAt(t, i) = s PROVE Len(s) + 1 = Len(t)
    <3>1. Len(s) = Len(t) - 1
      BY <2>1, RemoveAtIs
    <3> QED
      BY <1>0, <3>1
  <2> QED
    BY <2>1
<1> HIDE DEF m
<1>6. Len(s) = Len(t) => (s = t \/ Other <=> Replaced)
  BY <1>1, LetterElse
<1>7. Len(s) = Len(t) + 1 => (More <=> Longer)
  BY <1>1, LetterLess
<1>8. Len(s) + 1 = Len(t) => (Fewer <=> Shorter)
  BY <1>1, LetterLess
<1>9. s = t => Len(s) = Len(t)
  OBVIOUS
<1>10. /\ Len(s) = Len(t) => Len(s) # Len(t) + 1 /\ Len(s) + 1 # Len(t)
       /\ Len(s) = Len(t) + 1 => Len(s) + 1 # Len(t)
  BY <1>0
<1>11. WithinOneEdit(s, t) <=> OneEdit(s, t)
  <2> HIDE DEF Replaced, Longer, Shorter, More, Fewer, Other
  <2> QED
    BY ONLY <1>2, <1>3, <1>4, <1>5, <1>6, <1>7, <1>8, <1>9, <1>10
<1>12. OneEdit(s, t) \in BOOLEAN /\ WithinOneEdit(s, t) \in BOOLEAN
  BY <1>0 DEF OneEdit, WithinOneEdit
<1> QED
  BY ONLY <1>11, <1>12

\* The fragments of a word are not so long that one mistake reaches both.
LEMMA FragmentsAre ==
  ASSUME NEW C, NEW q \in Seq(C), Mistypable(q)
  PROVE \E width \in Nat : /\ width >= 1 /\ width + width <= Len(q)
                           /\ Fragments(q) = {SubSeq(q, 1, width), SubSeq(q, Len(q) - width + 1, Len(q))}
<1>1. Len(q) \in Nat /\ Len(q) >= 3 /\ WideLength \in Nat /\ WideLength >= 6
  <2>1. /\ {MaxSearchable, WideLength, ResultLimit, ResultBytes, BatchRows, BatchBytes} \subseteq Nat \ {0}
        /\ TypoLength \subseteq Nat \ (0..2) /\ WideLength >= 6
    BY ONLY ScanAssumption DEF ScanAssumption
  <2>2. Len(q) \in TypoLength
    BY DEF Mistypable
  <2>3. Len(q) \in Nat \ (0..2) /\ WideLength \in Nat
    BY ONLY <2>1, <2>2
  <2> DEFINE n == Len(q)
  <2>4. n \in Nat /\ n \notin 0..2
    BY <2>3
  <2> HIDE DEF n
  <2>6. n >= 3
    BY ONLY <2>4
  <2>5. WideLength >= 6
    BY ONLY <2>1
  <2> QED
    BY ONLY <2>3, <2>4, <2>5, <2>6 DEF n
<1>2. CASE Len(q) >= WideLength
  <2>1. Fragments(q) = {SubSeq(q, 1, 3), SubSeq(q, Len(q) - 3 + 1, Len(q))}
    BY <1>2 DEF Fragments
  <2>2. 3 \in Nat /\ 3 >= 1 /\ 3 + 3 <= Len(q)
    BY <1>1, <1>2
  <2> QED
    BY ONLY <2>1, <2>2
<1>3. CASE ~(Len(q) >= WideLength)
  <2>1. Fragments(q) = {SubSeq(q, 1, 1), SubSeq(q, Len(q) - 1 + 1, Len(q))}
    BY <1>3 DEF Fragments
  <2>2. 1 \in Nat /\ 1 >= 1 /\ 1 + 1 <= Len(q)
    BY <1>1
  <2> QED
    BY ONLY <2>1, <2>2
<1> QED
  BY <1>2, <1>3

\* One mistake leaves the first or the last letters of a word as they are.
LEMMA FragmentStays ==
  ASSUME NEW C, NEW word \in Seq(C), NEW q \in Seq(C), Mistypable(q), WithinOneEdit(word, q)
  PROVE \E f \in Fragments(q) : f \in Seq(C) /\ Within(f, word)
<1> DEFINE n == Len(q)
           l == Len(word)
           m == AlikeUpTo(word, q)
<1>1. PICK width \in Nat : /\ width >= 1 /\ width + width <= n
                           /\ Fragments(q) = {SubSeq(q, 1, width), SubSeq(q, n - width + 1, n)}
  BY FragmentsAre
<1>2. n \in Nat /\ l \in Nat /\ m \in Nat /\ m <= l /\ m <= n /\ \A j \in 1..m : word[j] = q[j]
  BY AlikeIs DEF Alike
<1>3. \/ l = n /\ \A k \in m + 2..l : word[k] = q[k]
      \/ l = n + 1 /\ \A k \in m + 1..n : q[k] = word[k + 1]
      \/ l + 1 = n /\ \A k \in m + 1..l : word[k] = q[k + 1]
  BY EditIs
<1> DEFINE start == SubSeq(q, 1, width)
           tail == SubSeq(q, n - width + 1, n)
<1>4. start \in Seq(C) /\ Len(start) = width /\ \A j \in 1..width : start[j] = q[j]
  <2>1. 1 \in Nat /\ width \in Nat /\ 1 >= 1 /\ width <= n /\ 1 <= width + 1 /\ width - 1 + 1 = width
    BY <1>1, <1>2
  <2>2. /\ start \in Seq(C) /\ Len(start) = width - 1 + 1
        /\ \A j \in 1..width - 1 + 1 : start[j] = q[1 + j - 1]
    BY ONLY <2>1, q \in Seq(C), PartIs
  <2> HIDE DEF start
  <2> QED
    BY <2>1, <2>2
<1>5. tail \in Seq(C) /\ Len(tail) = width /\ \A j \in 1..width : tail[j] = q[n - width + j]
  <2> DEFINE a == n - width + 1
  <2>1. a \in Nat /\ n \in Nat /\ a >= 1 /\ n <= n /\ a <= n + 1 /\ n - a + 1 = width
        /\ \A j \in 1..width : a + j - 1 = n - width + j
    BY <1>1, <1>2
  <2> HIDE DEF a
  <2>2. /\ SubSeq(q, a, n) \in Seq(C) /\ Len(SubSeq(q, a, n)) = n - a + 1
        /\ \A j \in 1..n - a + 1 : SubSeq(q, a, n)[j] = q[a + j - 1]
    BY ONLY <2>1, q \in Seq(C), PartIs
  <2>3. tail = SubSeq(q, a, n)
    BY DEF a
  <2> HIDE DEF tail
  <2> QED
    BY ONLY <2>1, <2>2, <2>3
<1> HIDE DEF start, tail, m
<1>6. CASE m >= width
  <2>1. FoundAt(start, word, 1)
    <3>1. 1 \in 1..Len(word) - Len(start) + 1
      BY <1>1, <1>2, <1>4, <1>6
    <3>2. ASSUME NEW j \in 1..Len(start) PROVE word[1 + j - 1] = start[j]
      <4>1. j \in 1..width /\ j \in 1..m /\ 1 + j - 1 = j
        BY <1>1, <1>2, <1>4, <1>6
      <4> QED
        BY <1>2, <1>4, <4>1
    <3> QED
      BY <3>1, <3>2 DEF FoundAt
  <2>2. Within(start, word)
    BY <1>4, <2>1, WithinIs
  <2> QED
    BY <1>1, <1>4, <2>2 DEF start
<1>7. CASE ~(m >= width)
  <2> DEFINE i == l - width + 1
  <2>1. i \in Nat /\ i \in 1..Len(word) - Len(tail) + 1
    BY <1>1, <1>2, <1>3, <1>5
  <2>2. ASSUME NEW j \in 1..Len(tail) PROVE word[i + j - 1] = tail[j]
    <3> DEFINE k == l - width + j
               x == n - width + j
    <3>1. j \in 1..width /\ i + j - 1 = k /\ tail[j] = q[x]
      BY <1>1, <1>2, <1>5
    <3>2. CASE l = n /\ \A y \in m + 2..l : word[y] = q[y]
      <4>1. k \in m + 2..l /\ x = k
        BY <1>1, <1>2, <1>7, <3>1, <3>2
      <4> QED
        BY ONLY <3>1, <3>2, <4>1
    <3>3. CASE l = n + 1 /\ \A y \in m + 1..n : q[y] = word[y + 1]
      <4>1. x \in m + 1..n /\ k = x + 1
        BY <1>1, <1>2, <1>7, <3>1, <3>3
      <4> QED
        BY ONLY <3>1, <3>3, <4>1
    <3>4. CASE l + 1 = n /\ \A y \in m + 1..l : word[y] = q[y + 1]
      <4>1. k \in m + 1..l /\ x = k + 1
        <5>1. l + 1 = n /\ j \in 1..width
          BY <3>1, <3>4
        <5>2. width \in Nat /\ width + width <= n /\ n \in Nat /\ l \in Nat /\ m \in Nat /\ ~(m >= width)
          BY <1>1, <1>2, <1>7
        <5> QED
          BY ONLY <5>1, <5>2
      <4> QED
        BY ONLY <3>1, <3>4, <4>1
    <3> QED
      BY <1>3, <3>2, <3>3, <3>4
  <2> HIDE DEF i
  <2>3. FoundAt(tail, word, i)
    BY <2>1, <2>2 DEF FoundAt
  <2>4. Within(tail, word)
    BY <1>5, <2>1, <2>3, WithinIs
  <2> QED
    BY <1>1, <1>5, <2>4 DEF tail
<1> QED
  BY <1>6, <1>7

LEMMA SearchableIs ==
  ASSUME NEW C, NEW t \in Seq(C)
  PROVE /\ Searchable(t) \in Seq(C)
        /\ \A q \in Seq(C) : Within(q, Searchable(t)) => Within(q, t)
<1> DEFINE n == Min({Len(t), MaxSearchable})
           both == {Len(t), MaxSearchable}
<1>1. Len(t) \in Nat /\ MaxSearchable \in Nat
  BY ScanAssumption
<1>2. both \in SUBSET Nat /\ both # {}
  BY <1>1
<1>3. Min(both) \in both /\ \A y \in both : Min(both) <= y
  BY ONLY <1>2, MinOfNumbers
<1>4. n \in Nat /\ n <= Len(t) /\ 1 \in Nat /\ 1 <= n + 1 /\ 1 >= 1
  BY <1>1, <1>3
<1>5. Searchable(t) = SubSeq(t, 1, n)
  BY DEF Searchable
<1> HIDE DEF n
<1>6. SubSeq(t, 1, n) \in Seq(C)
  BY <1>4, PartIs
<1>7. ASSUME NEW q \in Seq(C), Within(q, SubSeq(t, 1, n)) PROVE Within(q, t)
  BY <1>4, <1>7, WithinPart
<1> QED
  BY <1>5, <1>6, <1>7

\* What score_text and typo_matches find is in the text, in part at least.
LEMMA TextIsFound ==
  ASSUME NEW C, NEW text \in Seq(C), NEW q \in Seq(C), NEW row, ScoreText(row, text, q) # 0
  PROVE (~row.sensitive /\ Within(q, text)) \/ Within(q, row.app) \/ Within(q, row.kind)
BY SearchableIs DEF ScoreText

LEMMA TypoIsFound ==
  ASSUME NEW C, NEW text \in Seq(C), NEW q \in Seq(C), NEW row, TypoMatches(row, text, q)
  PROVE /\ ~row.sensitive /\ text # <<>>
        /\ \E f \in Fragments(q) : Within(f, text)
<1>1. ~row.sensitive /\ Mistypable(q)
  BY DEF TypoMatches
<1>2. PICK word \in WordsOf(Searchable(text)) : WithinOneEdit(word, q)
  BY DEF TypoMatches
<1> DEFINE t == Searchable(text)
<1>3. t \in Seq(C) /\ \A p \in Seq(C) : Within(p, t) => Within(p, text)
  BY SearchableIs
<1> HIDE DEF t
<1>4. PICK a \in 1..Len(t), b \in 1..Len(t) : a <= b /\ word = SubSeq(t, a, b)
  BY <1>2 DEF WordsOf, t
<1>5. Len(t) \in Nat /\ a \in Nat /\ b \in Nat /\ a >= 1 /\ b <= Len(t) /\ a <= b + 1
  BY <1>3, <1>4
<1>6. word \in Seq(C)
  BY <1>3, <1>4, <1>5, PartIs
<1>7. PICK f \in Fragments(q) : f \in Seq(C) /\ Within(f, word)
  BY <1>1, <1>2, <1>6, FragmentStays
<1>8. Within(f, SubSeq(t, a, b))
  BY <1>4, <1>7
<1>9. Within(f, t)
  BY <1>3, <1>5, <1>7, <1>8, WithinPart
<1>10. Within(f, text)
  BY <1>3, <1>7, <1>9
<1>11. text # <<>>
  <2> SUFFICES ASSUME text = <<>> PROVE FALSE
    OBVIOUS
  <2>1. Len(text) = 0 /\ {Len(text), MaxSearchable} \in SUBSET Nat /\ {Len(text), MaxSearchable} # {}
    BY ScanAssumption
  <2>2. Min({Len(text), MaxSearchable}) <= 0 /\ Min({Len(text), MaxSearchable}) \in Nat
    BY <2>1, MinOfNumbers
  <2>3. Searchable(text) = <<>>
    BY <2>1, <2>2, NothingLeft DEF Searchable
  <2> QED
    BY <1>4, <2>3 DEF t
<1> QED
  BY <1>1, <1>7, <1>10, <1>11

\* The letters of a query and of the texts of a row.
Letters(q, row) ==
    ToSet(q) \cup ToSet(row.text) \cup ToSet(row.relaid) \cup ToSet(row.app) \cup ToSet(row.kind)

LEMMA TextsOfRow ==
  ASSUME NEW q, NEW row, IsText(q), IsRow(row)
  PROVE {q, row.text, row.relaid, row.app, row.kind} \subseteq Seq(Letters(q, row))
<1> DEFINE C == Letters(q, row)
<1>1. /\ ToSet(q) \subseteq C /\ ToSet(row.text) \subseteq C /\ ToSet(row.relaid) \subseteq C
      /\ ToSet(row.app) \subseteq C /\ ToSet(row.kind) \subseteq C
  BY DEF Letters
<1> HIDE DEF C
<1>2. ASSUME NEW s, IsText(s), ToSet(s) \subseteq C PROVE s \in Seq(C)
  <2> DEFINE A == ToSet(s)
  <2>1. s \in Seq(A) /\ A \subseteq C
    BY <1>2 DEF IsText
  <2> HIDE DEF A
  <2> QED
    BY ONLY <2>1
<1>3. IsText(row.text) /\ IsText(row.relaid) /\ IsText(row.app) /\ IsText(row.kind)
  BY DEF IsRow
<1> QED
  BY <1>1, <1>2, <1>3 DEF C

LEMMA NotInNothing ==
  ASSUME NEW C, NEW q \in Seq(C), q # <<>>, Within(q, <<>>) PROVE FALSE
<1>1. Len(q) \in Nat /\ Len(q) # 0 /\ <<>> \in Seq(C) /\ Len(<<>>) = 0
  OBVIOUS
<1>2. PICK i \in Nat : FoundAt(q, <<>>, i)
  BY <1>1, WithinIs
<1>3. i \in 1..0 - Len(q) + 1
  BY <1>1, <1>2 DEF FoundAt
<1> QED
  BY <1>1, <1>3

\* A row that search_recall returns is one that recall_candidates_batch offers.
LEMMA HitIsCandidate ==
  ASSUME NEW q, NEW row, IsText(q), IsRow(row), Score(row, q) # 0
  PROVE Candidate(row, q)
<1> DEFINE C == Letters(q, row)
<1>1. q \in Seq(C) /\ row.text \in Seq(C) /\ row.relaid \in Seq(C)
  BY TextsOfRow
<1> HIDE DEF C
<1>2. CASE q = <<>> \/ ~row.ascii \/ ~row.whole \/ Within(q, row.app) \/ Within(q, row.kind)
  BY <1>2 DEF Candidate
<1>3. CASE ~(q = <<>> \/ ~row.ascii \/ ~row.whole \/ Within(q, row.app) \/ Within(q, row.kind))
  <2>1. row.stored = row.text /\ row.relaid = <<>>
    BY <1>3 DEF IsRow
  <2>2. \/ ScoreText(row, row.text, q) # 0 \/ TypoMatches(row, row.text, q)
        \/ ScoreText(row, row.relaid, q) # 0 \/ TypoMatches(row, row.relaid, q)
    BY <1>3 DEF Score
  <2>3. ~(ScoreText(row, row.relaid, q) # 0)
    BY <1>1, <1>3, <2>1, TextIsFound, NotInNothing
  <2>4. ~TypoMatches(row, row.relaid, q)
    BY <1>1, <2>1, TypoIsFound
  <2>5. CASE ScoreText(row, row.text, q) # 0
    <3>1. Within(q, row.text)
      BY <1>1, <1>3, <2>5, TextIsFound
    <3>2. CASE Mistypable(q)
      <4>1. PICK width \in Nat : /\ width >= 1 /\ width + width <= Len(q)
                                 /\ Fragments(q) = {SubSeq(q, 1, width), SubSeq(q, Len(q) - width + 1, Len(q))}
        BY <1>1, <3>2, FragmentsAre
      <4>2. 1 \in Nat /\ 1 >= 1 /\ width <= Len(q) /\ 1 <= width + 1
        BY <1>1, <4>1
      <4>3. Within(SubSeq(q, 1, width), row.text)
        BY <1>1, <3>1, <4>2, PartWithin
      <4> QED
        BY <2>1, <4>1, <4>3 DEF Candidate
    <3>3. CASE ~Mistypable(q)
      BY <2>1, <3>1, <3>3 DEF Candidate, Fragments
    <3> QED
      BY <3>2, <3>3
  <2>6. CASE TypoMatches(row, row.text, q)
    BY <1>1, <2>1, <2>6, TypoIsFound DEF Candidate
  <2> QED
    BY <2>2, <2>3, <2>4, <2>5, <2>6
<1> QED
  BY <1>2, <1>3

\* What a sensitive row says does not make it a hit.
LEMMA SecretIsNoHit ==
  ASSUME NEW q, NEW row, IsText(q), IsRow(row), Score(row, q) # 0, row.sensitive
  PROVE q = <<>> \/ Within(q, row.app) \/ Within(q, row.kind)
<1> DEFINE C == Letters(q, row)
<1>1. q \in Seq(C) /\ row.text \in Seq(C) /\ row.relaid \in Seq(C)
  BY TextsOfRow
<1> HIDE DEF C
<1>2. \/ q = <<>>
      \/ ScoreText(row, row.text, q) # 0 \/ TypoMatches(row, row.text, q)
      \/ ScoreText(row, row.relaid, q) # 0 \/ TypoMatches(row, row.relaid, q)
  BY DEF Score
<1>3. ~TypoMatches(row, row.text, q) /\ ~TypoMatches(row, row.relaid, q)
  BY DEF TypoMatches
<1> QED
  BY <1>1, <1>2, <1>3, TextIsFound

LEMMA ScoreIsInt ==
  ASSUME NEW q, NEW row, IsText(q), IsRow(row) PROVE Score(row, q) \in Int
<1> DEFINE C == Letters(q, row)
<1>1. q \in Seq(C) /\ row.text \in Seq(C) /\ row.relaid \in Seq(C) /\ row.app \in Seq(C) /\ row.kind \in Seq(C)
  BY TextsOfRow
<1> HIDE DEF C
<1>2. ASSUME NEW t \in Seq(C), Within(q, t) PROVE SubstringScore(q, t) \in Int
  <2> DEFINE P == Places(q, t)
  <2>1. P \in SUBSET Nat /\ P # {}
    <3>1. Len(t) \in Nat /\ Len(q) \in Nat
      BY <1>1
    <3> QED
      BY <1>2, <3>1 DEF Places, Within
  <2> HIDE DEF P
  <2>2. Min(P) \in Nat
    BY <2>1, MinOfNumbers
  <2> DEFINE i == Min(P)
             bonus == IF i = 1 THEN 50 ELSE IF t[i - 1] = " " THEN 20 ELSE 0
  <2>3. SubstringScore(q, t) = 101 - i + bonus
    BY DEF SubstringScore, P
  <2>4. bonus \in Int
    OBVIOUS
  <2> HIDE DEF bonus, i
  <2>5. i \in Int
    BY <2>2 DEF i
  <2> QED
    BY ONLY <2>3, <2>4, <2>5
<1>3. ASSUME NEW t \in Seq(C) PROVE ScoreText(row, t, q) \in Int
  <2> DEFINE u == Searchable(t)
  <2>1. u \in Seq(C)
    BY SearchableIs
  <2> HIDE DEF u
  <2>2. /\ Within(q, u) => SubstringScore(q, u) \in Int
        /\ Within(q, row.app) => SubstringScore(q, row.app) \in Int
        /\ Within(q, row.kind) => SubstringScore(q, row.kind) \in Int
    BY <1>1, <1>2, <2>1
  <2> QED
    BY <2>2 DEF ScoreText, u
<1>4. ScoreText(row, row.text, q) \in Int /\ ScoreText(row, row.relaid, q) \in Int
  BY <1>1, <1>3
<1> QED
  BY <1>4 DEF Score

\* The order of recall_order, of the rows of a table.
Outranks(q, tab, a, b) ==
    \/ tab[a].pinned /\ ~tab[b].pinned
    \/ tab[a].pinned = tab[b].pinned /\ Score(tab[a], q) > Score(tab[b], q)
    \/ tab[a].pinned = tab[b].pinned /\ Score(tab[a], q) = Score(tab[b], q) /\ a > b

HitOrder(q, tab) == {p \in (DOMAIN tab) \X (DOMAIN tab) : Outranks(q, tab, p[1], p[2])}

IsTable(q, tab) ==
    /\ IsText(q)
    /\ IsFiniteSet(DOMAIN tab) /\ DOMAIN tab \subseteq Nat \ {0}
    /\ \A id \in DOMAIN tab : IsRow(tab[id])

LEMMA HitOrderIs ==
  ASSUME NEW q, NEW tab, IsTable(q, tab) PROVE IsOrder(HitOrder(q, tab), DOMAIN tab)
<1> DEFINE D == DOMAIN tab
           sc == [id \in D |-> Score(tab[id], q)]
           pin == [id \in D |-> tab[id].pinned]
           R == HitOrder(q, tab)
<1>1. \A id \in D : id \in Int
  BY DEF IsTable
<1>2. \A id \in D : sc[id] \in Int
  BY ScoreIsInt DEF IsTable
<1>3. \A id \in D : pin[id] \in BOOLEAN
  BY DEF IsTable, IsRow
<1>4. \A a, b \in D : <<a, b>> \in R <=>
        \/ pin[a] /\ ~pin[b]
        \/ pin[a] = pin[b] /\ sc[a] > sc[b]
        \/ pin[a] = pin[b] /\ sc[a] = sc[b] /\ a > b
  <2>1. ASSUME NEW a \in D, NEW b \in D PROVE <<a, b>> \in R <=> Outranks(q, tab, a, b)
    BY DEF HitOrder
  <2>2. ASSUME NEW a \in D, NEW b \in D
        PROVE Outranks(q, tab, a, b) <=> \/ pin[a] /\ ~pin[b]
                                         \/ pin[a] = pin[b] /\ sc[a] > sc[b]
                                         \/ pin[a] = pin[b] /\ sc[a] = sc[b] /\ a > b
    BY DEF Outranks
  <2> QED
    BY <2>1, <2>2
<1>5. R \subseteq D \X D
  BY DEF HitOrder
<1> HIDE DEF sc, pin, R, D
<1>6. \A x \in D : <<x, x>> \notin R
  BY <1>1, <1>2, <1>3, <1>4
<1>7. ASSUME NEW x \in D, NEW y \in D, NEW z \in D, <<x, y>> \in R, <<y, z>> \in R PROVE <<x, z>> \in R
  BY <1>1, <1>2, <1>3, <1>4, <1>7
<1>8. ASSUME NEW x \in D, NEW y \in D PROVE x = y \/ <<x, y>> \in R \/ <<y, x>> \in R
  BY <1>1, <1>2, <1>3, <1>4
<1> QED
  BY <1>5, <1>6, <1>7, <1>8 DEF IsOrder, D, R

\* The best of the hits so far: as many as have places, the first one among
\* them, and the top of them if their bytes fit.
Best(R, w, W, F) ==
    /\ W \subseteq F /\ Cardinality(W) <= ResultLimit
    /\ \A id \in F : Ahead(R, F, id) = {} => id \in W
    /\ WeightOf(w, F) <= ResultBytes => W = TopBy(R, F, ResultLimit)

KeptBy(R, w, S) ==
    LET top == TopBy(R, S, ResultLimit) IN
    {id \in top : \/ Ahead(R, top, id) = {}
                  \/ WeightOf(w, Ahead(R, top, id) \cup {id}) <= ResultBytes}

LEMMA LimitIs == ResultLimit \in Nat /\ ResultLimit >= 1 /\ ResultBytes \in Nat /\ BatchRows \in Nat
                 /\ BatchRows >= 1 /\ BatchBytes \in Nat /\ BatchBytes >= 1
<1>1. {ResultLimit, ResultBytes, BatchRows, BatchBytes} \subseteq Nat \ {0}
  BY ScanAssumption DEF ScanAssumption
<1>2. /\ ResultLimit \in Nat \ {0} /\ ResultBytes \in Nat \ {0}
      /\ BatchRows \in Nat \ {0} /\ BatchBytes \in Nat \ {0}
  BY <1>1
<1> QED
  BY ONLY <1>2

\* Merging a batch into the best of what was found keeps the best of both.
LEMMA MergeKeepsBest ==
  ASSUME NEW D, IsFiniteSet(D), NEW R, IsOrder(R, D), NEW w \in [D -> Nat],
         NEW F \in SUBSET D, NEW B \in SUBSET D, NEW W, Best(R, w, W, F)
  PROVE Best(R, w, KeptBy(R, w, W \cup B), F \cup B)
<1> DEFINE U == W \cup B
           G == F \cup B
           top == TopBy(R, U, ResultLimit)
           K == KeptBy(R, w, U)
<1>0. ResultLimit \in Nat /\ ResultLimit >= 1 /\ ResultBytes \in Nat
  BY LimitIs
<1>1. W \in SUBSET F /\ U \in SUBSET G /\ G \in SUBSET D /\ U \in SUBSET D /\ F \in SUBSET G
  BY DEF Best
<1>2. IsFiniteSet(F) /\ IsFiniteSet(B) /\ IsFiniteSet(G) /\ IsFiniteSet(U)
  BY <1>1, FS_Subset
<1>3. top \in SUBSET U /\ K \in SUBSET top
  BY DEF TopBy, KeptBy
<1>4. IsFiniteSet(top) /\ Cardinality(top) <= ResultLimit /\ Cardinality(top) \in Nat
  <2>1. IsFiniteSet(top) /\ Cardinality(top) <= ResultLimit
    BY <1>0, <1>1, <1>2, TopIsSmall
  <2> QED
    BY <2>1, FS_CardinalityType
<1>5. K = {id \in top : \/ Ahead(R, top, id) = {}
                        \/ WeightOf(w, Ahead(R, top, id) \cup {id}) <= ResultBytes}
  BY DEF KeptBy
<1>6. \A S \in SUBSET D : WeightOf(w, S) \in Nat
  BY WeightAdd
<1>7. \A S, T \in SUBSET D : S \subseteq T => WeightOf(w, S) <= WeightOf(w, T)
  BY WeightGrows
<1>8. ASSUME NEW id \in G, Ahead(R, G, id) = {} PROVE id \in K
  <2>1. id \in U
    <3>1. CASE id \in F
      <4>1. Ahead(R, F, id) = {}
        BY <1>1, <1>8 DEF Ahead
      <4> QED
        BY <3>1, <4>1 DEF Best
    <3> QED
      BY <3>1
  <2>2. Ahead(R, U, id) = {} /\ Ahead(R, top, id) = {}
    BY <1>1, <1>3, <1>8 DEF Ahead
  <2>3. Cardinality(Ahead(R, U, id)) < ResultLimit
    <3>1. Cardinality({}) = 0
      BY FS_EmptySet
    <3>2. 0 < ResultLimit
      BY ONLY <1>0
    <3> QED
      BY ONLY <2>2, <3>1, <3>2
  <2>4. id \in top
    BY <2>1, <2>3 DEF TopBy
  <2> HIDE DEF top, K
  <2> QED
    BY <1>5, <2>2, <2>4
<1>9. ASSUME WeightOf(w, G) <= ResultBytes PROVE K = TopBy(R, G, ResultLimit)
  <2>1. WeightOf(w, F) <= ResultBytes
    <3> HIDE DEF G
    <3>1. WeightOf(w, F) <= WeightOf(w, G) /\ WeightOf(w, F) \in Nat /\ WeightOf(w, G) \in Nat
      BY <1>1, <1>6, <1>7
    <3> QED
      BY <1>0, <1>9, <3>1
  <2>2. W = TopBy(R, F, ResultLimit)
    BY <2>1 DEF Best
  <2>3. top = TopBy(R, G, ResultLimit)
    BY <1>0, <1>2, <2>2, TopOfTop
  <2>4. ASSUME NEW id \in top PROVE id \in K
    <3> DEFINE S == Ahead(R, top, id) \cup {id}
    <3>1. S \in SUBSET G /\ S \in SUBSET D
      BY <1>1, <1>3 DEF Ahead
    <3> HIDE DEF G, S
    <3>2. WeightOf(w, S) <= WeightOf(w, G) /\ WeightOf(w, S) \in Nat /\ WeightOf(w, G) \in Nat
      BY <1>1, <1>6, <1>7, <3>1
    <3>3. WeightOf(w, S) <= ResultBytes
      BY <1>0, <1>9, <3>2
    <3> HIDE DEF top, K
    <3> QED
      BY <1>5, <3>3 DEF S
  <2> HIDE DEF top, K
  <2> QED
    BY <1>3, <2>3, <2>4
<1>10. Cardinality(K) <= ResultLimit
  <2> HIDE DEF top, K
  <2>1. Cardinality(K) <= Cardinality(top) /\ IsFiniteSet(K)
    BY <1>3, <1>4, FS_Subset
  <2>2. Cardinality(K) \in Nat
    BY <2>1, FS_CardinalityType
  <2> QED
    BY <1>0, <1>4, <2>1, <2>2
<1>11. K \subseteq G
  BY <1>1, <1>3
<1> HIDE DEF K, G, U
<1>12. Best(R, w, K, G)
  BY <1>8, <1>9, <1>10, <1>11 DEF Best
<1> QED
  BY <1>12 DEF K, G, U

-----------------------------------------------------------------------------
(* RecallScan: one search of the history *)

RowBytes(tab) == [id \in DOMAIN tab |-> tab[id].size]
HitsIn(q, tab, S) == {id \in S : Score(tab[id], q) # 0}
LaneOf(tab) == {id \in DOMAIN tab : tab[id].lane}
StoreOf(tab) == {id \in DOMAIN tab : ~tab[id].lane /\ ~tab[id].archived}

\* The rows that collect has looked at, or need not.
ReadIn(q, tab, b, at) ==
    IF at = "lane" THEN {}
    ELSE LaneOf(tab) \cup {id \in StoreOf(tab) : Candidate(tab[id], q) /\ (at = "done" \/ id >= b)}

SeenHits == HitsIn(searchFor, table, ReadIn(searchFor, table, below, searching))

ScanInv ==
    /\ IsTable(searchFor, table)
    /\ searching \in {"lane", "store", "done"} /\ below \in Nat
    /\ searching = "lane" => \A id \in DOMAIN table : id < below
    /\ total = Cardinality(SeenHits)
    /\ Best(HitOrder(searchFor, table), RowBytes(table), winners, SeenHits)

LEMMA TableIs ==
  ASSUME IsTable(searchFor, table)
  PROVE /\ IsFiniteSet(DOMAIN table) /\ DOMAIN table \in SUBSET Nat
        /\ RowBytes(table) \in [DOMAIN table -> Nat]
        /\ IsOrder(HitOrder(searchFor, table), DOMAIN table)
<1>1. IsFiniteSet(DOMAIN table) /\ DOMAIN table \in SUBSET Nat
  BY DEF IsTable
<1>2. \A id \in DOMAIN table : table[id].size \in Nat
  BY DEF IsTable, IsRow
<1>3. RowBytes(table) \in [DOMAIN table -> Nat]
  BY <1>2 DEF RowBytes
<1> QED
  BY <1>1, <1>3, HitOrderIs

\* The order, the top and what is kept, as the lemmas know them.
LEMMA KeptIs ==
  ASSUME NEW S \in SUBSET DOMAIN table
  PROVE LET R == HitOrder(searchFor, table)  w == RowBytes(table) IN
        /\ \A id \in DOMAIN table : AheadIn(S, id) = Ahead(R, S, id)
        /\ TopOf(S) = TopBy(R, S, ResultLimit)
        /\ Kept(S) = KeptBy(R, w, S)
        /\ SizeOf(S) = WeightOf(w, S)
<1> DEFINE R == HitOrder(searchFor, table)
           w == RowBytes(table)
           D == DOMAIN table
<1>1. ASSUME NEW a \in D, NEW b \in D PROVE Precedes(a, b) <=> <<a, b>> \in R
  <2>1. Precedes(a, b) <=> Outranks(searchFor, table, a, b)
    BY DEF Precedes, Outranks
  <2>2. <<a, b>> \in R <=> Outranks(searchFor, table, a, b)
    BY DEF HitOrder
  <2> QED
    BY <2>1, <2>2
<1>2. ASSUME NEW Q \in SUBSET D, NEW id \in D PROVE AheadIn(Q, id) = Ahead(R, Q, id)
  <2> HIDE DEF R
  <2>1. \A other \in Q : Precedes(other, id) <=> <<other, id>> \in R
    BY <1>1
  <2> QED
    BY <2>1 DEF AheadIn, Ahead
<1>3. \A Q : SizeOf(Q) = WeightOf(w, Q)
  BY DEF SizeOf, WeightOf, BytesOfRow, RowBytes
<1> HIDE DEF R, w, D
<1>4. ASSUME NEW Q \in SUBSET D PROVE TopOf(Q) = TopBy(R, Q, ResultLimit)
  <2>1. \A id \in Q : AheadIn(Q, id) = Ahead(R, Q, id)
    BY <1>2
  <2> QED
    BY <2>1 DEF TopOf, TopBy
<1>5. S \in SUBSET D
  BY DEF D
<1> DEFINE top == TopOf(S)
<1>6. top = TopBy(R, S, ResultLimit) /\ top \in SUBSET D
  BY <1>4, <1>5 DEF TopOf
<1>7. Kept(S) = {id \in top : \/ AheadIn(top, id) = {}
                              \/ SizeOf(AheadIn(top, id) \cup {id}) <= ResultBytes}
  BY DEF Kept
<1>8. KeptBy(R, w, S) = {id \in top : \/ Ahead(R, top, id) = {}
                                      \/ WeightOf(w, Ahead(R, top, id) \cup {id}) <= ResultBytes}
  BY <1>6 DEF KeptBy
<1> HIDE DEF top
<1>9. \A id \in top : AheadIn(top, id) = Ahead(R, top, id)
  BY <1>2, <1>6
<1>10. Kept(S) = KeptBy(R, w, S)
  BY <1>3, <1>7, <1>8, <1>9
<1> QED
  BY <1>2, <1>3, <1>4, <1>5, <1>10 DEF R, w, D

\* The batch holds the newest of the rows on offer, and is empty only when there are none.
LEMMA BatchIsNewest ==
  ASSUME IsTable(searchFor, table)
  PROVE /\ NextBatch \in SUBSET Offered /\ Offered \in SUBSET DOMAIN table
        /\ \A id \in NextBatch : \A other \in Offered : other > id => other \in NextBatch
        /\ NextBatch = {} => Offered = {}
<1> DEFINE O == Offered
           D == DOMAIN table
           w == RowBytes(table)
<1>0. BatchRows \in Nat /\ BatchRows >= 1 /\ BatchBytes \in Nat /\ BatchBytes >= 1
  BY LimitIs
<1>1. IsFiniteSet(D) /\ D \in SUBSET Nat /\ w \in [D -> Nat]
  BY TableIs
<1>2. O \in SUBSET D
  BY DEF Offered, InStore
<1>3. IsFiniteSet(O) /\ O \in SUBSET Nat
  BY <1>1, <1>2, FS_Subset
<1>4. NextBatch = {id \in O : Cardinality(NewerIn(O, id)) < BatchRows /\ SizeOf(NewerIn(O, id)) < BatchBytes}
  BY DEF NextBatch
<1>5. \A Q : SizeOf(Q) = WeightOf(w, Q)
  BY DEF SizeOf, WeightOf, BytesOfRow, RowBytes
<1> HIDE DEF O, D, w
<1>6. \A id : NewerIn(O, id) \in SUBSET O /\ NewerIn(O, id) \in SUBSET D
  BY <1>2 DEF NewerIn
<1>7. \A S \in SUBSET D : WeightOf(w, S) \in Nat
  BY <1>1, WeightAdd
<1>8. \A id : Cardinality(NewerIn(O, id)) \in Nat /\ IsFiniteSet(NewerIn(O, id))
  BY <1>3, <1>6, FS_Subset, FS_CardinalityType
<1>9. ASSUME NEW id \in NextBatch, NEW other \in O, other > id PROVE other \in NextBatch
  <2> DEFINE A == NewerIn(O, other)
             B == NewerIn(O, id)
  <2>1. A \in SUBSET B
    <3>1. \A x \in O : x > other => x > id
      BY <1>3, <1>4, <1>9
    <3> QED
      BY <3>1 DEF NewerIn
  <2>2. /\ IsFiniteSet(B) /\ Cardinality(B) \in Nat /\ Cardinality(A) \in Nat /\ B \in SUBSET D
        /\ A \in SUBSET D /\ Cardinality(B) < BatchRows /\ WeightOf(w, B) < BatchBytes
    BY <1>4, <1>5, <1>6, <1>8
  <2> HIDE DEF A, B
  <2>3. Cardinality(A) <= Cardinality(B)
    BY <2>1, <2>2, FS_Subset
  <2>4. WeightOf(w, A) <= WeightOf(w, B)
    BY <1>1, <2>1, <2>2, WeightGrows
  <2>5. WeightOf(w, A) \in Nat /\ WeightOf(w, B) \in Nat
    BY <1>7, <2>2
  <2>6. Cardinality(A) < BatchRows /\ WeightOf(w, A) < BatchBytes
    BY ONLY <1>0, <2>2, <2>3, <2>4, <2>5
  <2> QED
    BY <1>4, <1>5, <2>6 DEF A
<1>10. ASSUME O # {} PROVE NextBatch # {}
  <2> DEFINE newest == Max(O)
  <2>1. newest \in O /\ \A y \in O : newest >= y
    BY <1>3, <1>10, MaxOfFinite
  <2> HIDE DEF newest
  <2>2. NewerIn(O, newest) = {}
    <3>1. newest \in Nat /\ \A y \in O : y \in Nat /\ newest >= y
      BY <1>3, <2>1
    <3>2. \A y \in O : ~(y > newest)
      BY ONLY <3>1
    <3> QED
      BY <3>2 DEF NewerIn
  <2>3. Cardinality(NewerIn(O, newest)) = 0 /\ SizeOf(NewerIn(O, newest)) = 0
    BY <1>1, <1>5, <2>2, WeightAdd, FS_EmptySet
  <2>4. 0 < BatchRows /\ 0 < BatchBytes
    BY <1>0
  <2> QED
    BY <1>4, <2>1, <2>3, <2>4
<1>11. NextBatch \in SUBSET O
  BY <1>4
<1> QED
  BY <1>2, <1>9, <1>10, <1>11 DEF O, D

\* What a merge makes of the hits so far.
LEMMA MergeIs ==
  ASSUME IsTable(searchFor, table), NEW S \in SUBSET DOMAIN table, NEW B \in SUBSET DOMAIN table,
         S \cap B = {}, NEW W,
         Best(HitOrder(searchFor, table), RowBytes(table), W, HitsIn(searchFor, table, S))
  PROVE /\ Best(HitOrder(searchFor, table), RowBytes(table), Kept(W \cup Hits(B)),
                HitsIn(searchFor, table, S \cup B))
        /\ Cardinality(HitsIn(searchFor, table, S \cup B))
             = Cardinality(HitsIn(searchFor, table, S)) + Cardinality(Hits(B))
<1> DEFINE D == DOMAIN table
           R == HitOrder(searchFor, table)
           w == RowBytes(table)
           F == HitsIn(searchFor, table, S)
           E == Hits(B)
<1>1. IsFiniteSet(D) /\ IsOrder(R, D) /\ w \in [D -> Nat]
  BY TableIs
<1>2. F \in SUBSET D /\ E \in SUBSET D /\ F \cap E = {} /\ HitsIn(searchFor, table, S \cup B) = F \cup E
  BY DEF HitsIn, Hits
<1>3. W \cup E \in SUBSET D
  BY <1>2 DEF Best
<1>4. Kept(W \cup E) = KeptBy(R, w, W \cup E)
  BY <1>3, KeptIs
<1>5. Best(R, w, W, F)
  OBVIOUS
<1> HIDE DEF D, R, w, F, E
<1>6. Best(R, w, KeptBy(R, w, W \cup E), F \cup E)
  BY ONLY <1>1, <1>2, <1>5, MergeKeepsBest
<1>7. IsFiniteSet(F) /\ IsFiniteSet(E)
  BY <1>1, <1>2, FS_Subset
<1>8. Cardinality(F \cup E) = Cardinality(F) + Cardinality(E) - Cardinality(F \cap E)
  BY <1>7, FS_Union
<1>9. Cardinality(F) \in Nat /\ Cardinality(E) \in Nat /\ Cardinality(F \cap E) = 0
  BY <1>2, <1>7, FS_CardinalityType, FS_EmptySet
<1>10. Cardinality(F \cup E) = Cardinality(F) + Cardinality(E)
  BY ONLY <1>8, <1>9
<1> QED
  BY <1>2, <1>4, <1>6, <1>10 DEF D, R, w, F, E

LEMMA TopRowIs ==
  ASSUME IsTable(searchFor, table)
  PROVE TopRow \in Nat /\ \A id \in DOMAIN table : id \in Nat /\ id < TopRow + 1
<1> DEFINE S == DOMAIN table \cup {0}
<1>1. S \in SUBSET Nat /\ S # {}
  BY DEF IsTable
<1>2. IsFiniteSet(S)
  BY FS_AddElement DEF IsTable
<1>3. Max(S) \in S /\ \A y \in S : Max(S) >= y
  BY ONLY <1>1, <1>2, MaxOfFinite
<1>4. TopRow = Max(S)
  BY DEF TopRow
<1>5. TopRow \in Nat /\ \A id \in S : id \in Nat /\ TopRow >= id
  BY ONLY <1>1, <1>3, <1>4
<1> HIDE DEF S
<1>6. \A id \in S : id < TopRow + 1
  BY ONLY <1>5
<1> QED
  BY <1>5, <1>6 DEF S

\* Before a row was read there is nothing to keep.
LEMMA NothingIsBest == ASSUME NEW R, NEW w PROVE Best(R, w, {}, {}) /\ Cardinality({}) = 0
<1>1. Cardinality({}) = 0 /\ 0 <= ResultLimit
  BY FS_EmptySet, LimitIs
<1>2. TopBy(R, {}, ResultLimit) = {}
  BY DEF TopBy
<1> QED
  BY <1>1, <1>2 DEF Best

LEMMA ScanStart == ScanInit => ScanInv
<1> SUFFICES ASSUME ScanInit PROVE ScanInv
  OBVIOUS
<1>1. PICK search \in Searches : searchFor = search[1] /\ table = search[2]
  BY DEF ScanInit
<1>2. below = TopRow + 1 /\ winners = {} /\ total = 0 /\ searching = "lane"
  BY DEF ScanInit
<1>3. IsTable(searchFor, table)
  <2>1. /\ IsText(search[1])
        /\ IsFiniteSet(DOMAIN search[2]) /\ DOMAIN search[2] \subseteq Nat \ {0}
        /\ \A id \in DOMAIN search[2] : IsRow(search[2][id])
    BY ScanAssumption DEF ScanAssumption
  <2> QED
    BY <1>1, <2>1 DEF IsTable
<1>4. below \in Nat /\ \A id \in DOMAIN table : id < below
  BY <1>2, <1>3, TopRowIs
<1>6. SeenHits = {}
  BY <1>2 DEF SeenHits, HitsIn, ReadIn
<1>7. total = Cardinality(SeenHits)
  BY <1>2, <1>6, NothingIsBest
<1>8. Best(HitOrder(searchFor, table), RowBytes(table), winners, SeenHits)
  BY <1>2, <1>6, NothingIsBest
<1> QED
  BY <1>2, <1>3, <1>4, <1>7, <1>8 DEF ScanInv

LEMMA ScanStep == ScanInv /\ [ScanNext]_scanVars => ScanInv'
<1> SUFFICES ASSUME ScanInv, [ScanNext]_scanVars PROVE ScanInv'
  OBVIOUS
<1> DEFINE R == HitOrder(searchFor, table)
           w == RowBytes(table)
           D == DOMAIN table
           seen == ReadIn(searchFor, table, below, searching)
           found == HitsIn(searchFor, table, seen)
<1>0. /\ IsTable(searchFor, table)
      /\ searching \in {"lane", "store", "done"} /\ below \in Nat
      /\ searching = "lane" => \A id \in D : id < below
      /\ total = Cardinality(found)
      /\ Best(R, w, winners, found)
  BY DEF ScanInv, SeenHits
<1>1. seen \in SUBSET D
  BY DEF ReadIn, LaneOf, StoreOf
<1>2. ASSUME searchFor' = searchFor, table' = table, below' \in Nat,
             searching' \in {"lane", "store", "done"},
             searching' = "lane" => \A id \in D : id < below',
             NEW found2, found2 = HitsIn(searchFor, table, ReadIn(searchFor, table, below', searching')),
             total' = Cardinality(found2), Best(R, w, winners', found2)
      PROVE ScanInv'
  <2>1. IsTable(searchFor', table')
    BY <1>0, <1>2
  <2>2. found2 = HitsIn(searchFor', table', ReadIn(searchFor', table', below', searching'))
    BY <1>2
  <2>3. Best(HitOrder(searchFor', table'), RowBytes(table'), winners', found2)
    BY <1>2
  <2>4. \A id \in DOMAIN table' : searching' = "lane" => id < below'
    BY <1>2
  <2> QED
    BY <1>2, <2>1, <2>2, <2>3, <2>4 DEF ScanInv, SeenHits
<1>3. ASSUME NEW B \in SUBSET D, seen \cap B = {}, Merge(B), below' \in Nat, searching' = "store",
             ReadIn(searchFor, table, below', "store") = seen \cup B
      PROVE ScanInv'
  <2> DEFINE found2 == HitsIn(searchFor, table, seen \cup B)
  <2>1. /\ winners' = Kept(winners \cup Hits(B)) /\ total' = total + Cardinality(Hits(B))
        /\ searchFor' = searchFor /\ table' = table
    BY <1>3 DEF Merge
  <2>2. Best(R, w, winners', found2) /\ Cardinality(found2) = Cardinality(found) + Cardinality(Hits(B))
    <3>1. /\ Best(R, w, Kept(winners \cup Hits(B)), found2)
          /\ Cardinality(found2) = Cardinality(found) + Cardinality(Hits(B))
      <4> HIDE DEF seen
      <4> QED
        BY <1>0, <1>1, <1>3, MergeIs
    <3> QED
      BY ONLY <2>1, <3>1
  <2>3. total' = Cardinality(found2)
    BY <1>0, <2>1, <2>2
  <2>4. found2 = HitsIn(searchFor, table, ReadIn(searchFor, table, below', searching'))
    BY <1>3
  <2> HIDE DEF found2, R, w, D, seen, found
  <2>5. searching' \in {"lane", "store", "done"} /\ (searching' = "lane" => \A id \in D : id < below')
    BY <1>3
  <2> QED
    BY ONLY <1>2, <1>3, <2>1, <2>2, <2>3, <2>4, <2>5
<1>4. CASE SearchLane
  <2> DEFINE B == LaneOf(table)
  <2>1. searching = "lane" /\ searching' = "store" /\ Merge(B) /\ below' = below
    BY <1>4 DEF SearchLane, LaneOf
  <2>2. seen = {} /\ B \in SUBSET D
    BY <2>1 DEF ReadIn, LaneOf
  <2>3. \A id \in D : ~(id >= below)
    <3>1. \A id \in D : id \in Nat /\ id < below
      BY <1>0, <2>1, TopRowIs
    <3> QED
      BY ONLY <1>0, <3>1
  <2>4. ReadIn(searchFor, table, below', "store") = seen \cup B
    BY <2>1, <2>2, <2>3 DEF ReadIn, StoreOf
  <2> QED
    BY <1>0, <1>3, <2>1, <2>2, <2>4
<1>5. CASE SearchBatch
  <2> DEFINE B == NextBatch
             b == Min(B)
  <2>1. searching = "store" /\ searching' = "store" /\ Merge(B) /\ below' = b /\ B # {}
    BY <1>5 DEF SearchBatch
  <2>2. /\ B \in SUBSET Offered /\ Offered \in SUBSET D
        /\ \A id \in B : \A other \in Offered : other > id => other \in B
    BY <1>0, BatchIsNewest
  <2>3. D \in SUBSET Nat
    BY <1>0, TableIs
  <2> HIDE DEF B, D
  <2>4. b \in B /\ \A y \in B : b <= y
    BY <2>1, <2>2, <2>3, MinOfNumbers
  <2>5. b \in Nat /\ B \in SUBSET D
    BY <2>2, <2>3, <2>4
  <2>6. Offered = {id \in StoreOf(table) : id < below /\ Candidate(table[id], searchFor)}
    BY DEF Offered, InStore, StoreOf
  <2>7. \A id \in StoreOf(table) : id \in D /\ id \in Nat /\ ~table[id].lane
    BY <2>3 DEF StoreOf, D
  <2>8. seen = LaneOf(table) \cup {id \in StoreOf(table) : Candidate(table[id], searchFor) /\ id >= below}
    BY <2>1 DEF ReadIn
  <2>9. ReadIn(searchFor, table, b, "store")
          = LaneOf(table) \cup {id \in StoreOf(table) : Candidate(table[id], searchFor) /\ id >= b}
    BY DEF ReadIn
  <2> HIDE DEF b, seen
  <2>10. ASSUME NEW id \in StoreOf(table), Candidate(table[id], searchFor)
         PROVE id >= b <=> id >= below \/ id \in B
    <3>1. id \in Nat /\ below \in Nat /\ b < below
      BY <1>0, <2>2, <2>4, <2>6, <2>7
    <3>2. CASE id >= below
      BY <2>5, <3>1, <3>2
    <3>3. CASE ~(id >= below)
      <4>1. id \in Offered
        BY <2>6, <2>10, <3>1, <3>3
      <4>2. id > b => id \in B
        BY <2>2, <2>4, <4>1
      <4> QED
        BY <2>4, <2>5, <3>1, <3>3, <4>2
    <3> QED
      BY <3>2, <3>3
  <2>11. B \subseteq {id \in StoreOf(table) : Candidate(table[id], searchFor)}
    BY <2>2, <2>6
  <2>12. ReadIn(searchFor, table, b, "store") = seen \cup B
    BY <2>8, <2>9, <2>10, <2>11
  <2>13. seen \cap B = {}
    <3>1. \A id \in B : id \in StoreOf(table) /\ id \in Nat /\ id < below /\ id \notin LaneOf(table)
      BY <2>2, <2>6, <2>7 DEF LaneOf
    <3>2. \A id \in B : ~(id >= below)
      BY <1>0, <3>1
    <3> QED
      BY <2>8, <3>1, <3>2
  <2> QED
    BY <1>3, <2>1, <2>5, <2>12, <2>13 DEF D
<1>6. CASE SearchEnds
  <2>1. /\ searching = "store" /\ NextBatch = {} /\ searching' = "done"
        /\ UNCHANGED <<searchFor, table, below, winners, total>>
    BY <1>6 DEF SearchEnds
  <2>2. Offered = {}
    BY <1>0, <2>1, BatchIsNewest
  <2>3. \A id \in StoreOf(table) : Candidate(table[id], searchFor) => id >= below
    <3>1. \A id \in StoreOf(table) : id \in Nat
      BY <1>0, TableIs DEF StoreOf
    <3>2. \A id \in StoreOf(table) : Candidate(table[id], searchFor) => ~(id < below)
      BY <2>2 DEF Offered, InStore, StoreOf
    <3> QED
      BY <1>0, <3>1, <3>2
  <2>4. ReadIn(searchFor, table, below, "done") = seen
    BY <2>1, <2>3 DEF ReadIn
  <2>5. found = HitsIn(searchFor, table, ReadIn(searchFor, table, below', searching'))
    BY <2>1, <2>4
  <2> HIDE DEF R, w, D, seen, found
  <2> QED
    BY <1>0, <1>2, <2>1, <2>5
<1>7. CASE SearchAgain
  <2>1. /\ searching' = "lane" /\ below' = TopRow + 1 /\ winners' = {} /\ total' = 0
        /\ UNCHANGED <<searchFor, table>>
    BY <1>7 DEF SearchAgain
  <2>2. TopRow \in Nat /\ \A id \in D : id \in Nat /\ id < TopRow + 1
    BY <1>0, TopRowIs
  <2>3. HitsIn(searchFor, table, ReadIn(searchFor, table, below', searching')) = {}
    BY <2>1 DEF HitsIn, ReadIn
  <2>4. Best(R, w, {}, {}) /\ Cardinality({}) = 0
    BY NothingIsBest
  <2> DEFINE none == {}
  <2>5. /\ none = HitsIn(searchFor, table, ReadIn(searchFor, table, below', searching'))
        /\ total' = Cardinality(none) /\ Best(R, w, winners', none)
    BY <2>1, <2>3, <2>4
  <2>6. below' \in Nat /\ \A id \in D : id < below'
    BY <2>1, <2>2
  <2> HIDE DEF R, w, D, none
  <2> QED
    BY <1>2, <2>1, <2>5, <2>6
<1>8. CASE UNCHANGED scanVars
  <2>1. UNCHANGED <<searchFor, table, below, winners, total, searching>>
    BY <1>8 DEF scanVars
  <2>2. found = HitsIn(searchFor, table, ReadIn(searchFor, table, below', searching'))
    BY <2>1
  <2> HIDE DEF R, w, D, seen, found
  <2> QED
    BY <1>0, <1>2, <2>1, <2>2
<1> QED
  BY <1>4, <1>5, <1>6, <1>7, <1>8 DEF ScanNext

\* collect and recall_candidates_batch together find what search_recall would.
LEMMA ScanFindsAll == ScanInv => SearchIsComplete
<1> SUFFICES ASSUME ScanInv, searching = "done" PROVE
        /\ total = Cardinality(AllHits)
        /\ winners \subseteq AllHits /\ Cardinality(winners) <= ResultLimit
        /\ \A id \in AllHits : AheadIn(AllHits, id) = {} => id \in winners
        /\ SizeOf(AllHits) <= ResultBytes => winners = TopOf(AllHits)
  BY DEF SearchIsComplete
<1> DEFINE R == HitOrder(searchFor, table)
           w == RowBytes(table)
           D == DOMAIN table
<1>1. IsTable(searchFor, table) /\ total = Cardinality(SeenHits) /\ Best(R, w, winners, SeenHits)
  BY DEF ScanInv
<1>2. \A id \in D : Score(table[id], searchFor) # 0 => Candidate(table[id], searchFor)
  BY <1>1, HitIsCandidate DEF IsTable
<1>3. SeenHits = AllHits
  <2>1. SeenHits = {id \in LaneOf(table) \cup {id \in StoreOf(table) : Candidate(table[id], searchFor)} :
                      Score(table[id], searchFor) # 0}
    BY DEF SeenHits, ReadIn, HitsIn
  <2>2. AllHits = {id \in LaneOf(table) \cup StoreOf(table) : Score(table[id], searchFor) # 0}
    BY DEF AllHits, Hits, Searched, InStore, LaneOf, StoreOf
  <2>3. StoreOf(table) \in SUBSET D
    BY DEF StoreOf
  <2> HIDE DEF D
  <2> QED
    BY <1>2, <2>1, <2>2, <2>3
<1>4. AllHits \in SUBSET D
  BY DEF AllHits, Hits, Searched, InStore
<1>5. /\ \A id \in D : AheadIn(AllHits, id) = Ahead(R, AllHits, id)
      /\ TopOf(AllHits) = TopBy(R, AllHits, ResultLimit)
      /\ SizeOf(AllHits) = WeightOf(w, AllHits)
  BY <1>4, KeptIs
<1> HIDE DEF R, w, D
<1>6. Best(R, w, winners, AllHits)
  BY <1>1, <1>3
<1> QED
  BY <1>1, <1>3, <1>4, <1>5, <1>6 DEF Best

LEMMA ScanForgives == ScanInv => OneEditIsForgiven
<1> SUFFICES ASSUME ScanInv, NEW id \in DOMAIN table
             PROVE WithinOneEdit(table[id].text, searchFor) = OneEdit(table[id].text, searchFor)
  BY DEF OneEditIsForgiven
<1>1. IsText(searchFor) /\ IsRow(table[id])
  BY DEF ScanInv, IsTable
<1> DEFINE C == Letters(searchFor, table[id])
<1>2. searchFor \in Seq(C) /\ table[id].text \in Seq(C)
  BY <1>1, TextsOfRow
<1> HIDE DEF C
<1> QED
  BY <1>2, EditsForgiven

LEMMA ScanKeepsSecrets == ScanInv => SecretsAreNotSearched
<1> SUFFICES ASSUME ScanInv, NEW id \in winners, table[id].sensitive
             PROVE \/ searchFor = <<>>
                   \/ Within(searchFor, table[id].app) \/ Within(searchFor, table[id].kind)
  BY DEF SecretsAreNotSearched
<1>1. id \in SeenHits
  BY DEF ScanInv, Best
<1>2. id \in DOMAIN table /\ Score(table[id], searchFor) # 0
  BY <1>1 DEF SeenHits, HitsIn, ReadIn, LaneOf, StoreOf
<1>3. IsText(searchFor) /\ IsRow(table[id])
  BY <1>2 DEF ScanInv, IsTable
<1> QED
  BY <1>2, <1>3, SecretIsNoHit

-----------------------------------------------------------------------------
(* StoreQueries: the order of the list *)

\* ORDER BY: every clip has one place, and those ahead of it the places before.
LEMMA ArrangedIs ==
  ASSUME NEW S, IsFiniteSet(S), NEW R, IsOrder(R, S)
  PROVE /\ Cardinality(S) \in Nat
        /\ Arranged(S, R) \in [1..Cardinality(S) -> S]
        /\ \A x \in S : \E i \in 1..Cardinality(S) : Arranged(S, R)[i] = x
        /\ \A i, j \in 1..Cardinality(S) : i < j => <<Arranged(S, R)[i], Arranged(S, R)[j]>> \in R
<1> DEFINE n == Cardinality(S)
           cnt == [c \in S |-> Cardinality({d \in S : <<d, c>> \in R})]
           A == Arranged(S, R)
<1>1. n \in Nat
  BY FS_CardinalityType
<1>2. /\ \A x \in S : <<x, x>> \notin R
      /\ \A x, y, z \in S : <<x, y>> \in R /\ <<y, z>> \in R => <<x, z>> \in R
      /\ \A x, y \in S : x = y \/ <<x, y>> \in R \/ <<y, x>> \in R
  BY DEF IsOrder
<1>3. ASSUME NEW c \in S PROVE cnt[c] \in 0..n - 1
  <2> DEFINE above == {d \in S : <<d, c>> \in R}
             rest == S \ {c}
  <2>1. above \in SUBSET rest
    BY <1>2
  <2>2. IsFiniteSet(rest) /\ Cardinality(rest) = n - 1
    BY FS_RemoveElement
  <2>3. cnt[c] = Cardinality(above)
    OBVIOUS
  <2> HIDE DEF above, rest
  <2>4. IsFiniteSet(above) /\ Cardinality(above) <= Cardinality(rest)
    BY <2>1, <2>2, FS_Subset
  <2>5. Cardinality(above) \in Nat
    BY <2>4, FS_CardinalityType
  <2> QED
    BY <1>1, <2>2, <2>3, <2>4, <2>5
<1>4. ASSUME NEW c \in S, NEW d \in S, <<c, d>> \in R PROVE cnt[c] < cnt[d]
  <2> DEFINE one == {e \in S : <<e, c>> \in R}
             two == {e \in S : <<e, d>> \in R}
  <2>1. one \in SUBSET S /\ two \in SUBSET S
    OBVIOUS
  <2>2. one \cup {c} \in SUBSET two /\ c \notin one
    BY <1>2, <1>4
  <2>3. cnt[c] = Cardinality(one) /\ cnt[d] = Cardinality(two)
    OBVIOUS
  <2> HIDE DEF one, two, cnt
  <2>4. IsFiniteSet(one) /\ IsFiniteSet(two)
    BY <2>1, FS_Subset
  <2>5. Cardinality(one \cup {c}) = Cardinality(one) + 1
    BY <2>2, <2>4, FS_AddElement
  <2>6. Cardinality(one \cup {c}) <= Cardinality(two)
    BY <2>2, <2>4, FS_Subset
  <2>7. Cardinality(one) \in Nat /\ Cardinality(two) \in Nat
    BY <2>4, FS_CardinalityType
  <2> QED
    BY <2>3, <2>5, <2>6, <2>7
<1>5. \A c, d \in S : cnt[c] = cnt[d] => c = d
  <2>1. ASSUME NEW c \in S, NEW d \in S, cnt[c] = cnt[d], c # d PROVE FALSE
    <3>1. cnt[c] \in Int /\ cnt[d] \in Int
      BY <1>1, <1>3
    <3>2. <<c, d>> \in R \/ <<d, c>> \in R
      BY <1>2, <2>1
    <3>3. cnt[c] < cnt[d] \/ cnt[d] < cnt[c]
      BY <1>4, <3>2
    <3> HIDE DEF cnt
    <3> QED
      BY <2>1, <3>1, <3>3
  <2> QED
    BY <2>1
<1>6. cnt \in [S -> 0..n - 1]
  BY <1>3
<1>7. \A i \in 1..n : A[i] = CHOOSE c \in S : cnt[c] = i - 1
  BY DEF Arranged
<1>8. A = [i \in 1..n |-> CHOOSE c \in S : Cardinality({d \in S : <<d, c>> \in R}) = i - 1]
  BY DEF Arranged
<1> HIDE DEF cnt, A
<1>9. \A k \in 0..n - 1 : \E c \in S : cnt[c] = k
  <2> DEFINE places == 0..n - 1
  <2>1. IsFiniteSet(places) /\ Cardinality(places) = n
    BY <1>1, FS_Interval
  <2>2. cnt \in Injection(S, places)
    BY <1>5, <1>6 DEF Injection, IsInjective
  <2> HIDE DEF places
  <2>3. cnt \in Surjection(S, places)
    BY <2>1, <2>2, FS_Injection
  <2> QED
    BY <2>3 DEF Surjection, places
<1>10. ASSUME NEW i \in 1..n PROVE A[i] \in S /\ cnt[A[i]] = i - 1
  <2>1. i - 1 \in 0..n - 1
    BY <1>1
  <2>2. \E c \in S : cnt[c] = i - 1
    BY <1>9, <2>1
  <2> QED
    BY <1>7, <2>2
<1>11. A \in [1..n -> S]
  BY ONLY <1>8, <1>10
<1>12. ASSUME NEW x \in S PROVE \E i \in 1..n : A[i] = x
  <2> DEFINE i == cnt[x] + 1
  <2>1. i \in 1..n /\ i - 1 = cnt[x]
    BY <1>1, <1>3
  <2>2. A[i] \in S /\ cnt[A[i]] = i - 1
    BY <1>10, <2>1
  <2> QED
    BY <1>5, <2>1, <2>2
<1>13. ASSUME NEW i \in 1..n, NEW j \in 1..n, i < j PROVE <<A[i], A[j]>> \in R
  <2>1. A[i] \in S /\ A[j] \in S /\ cnt[A[i]] < cnt[A[j]] /\ cnt[A[i]] \in Int /\ cnt[A[j]] \in Int
    BY <1>1, <1>10, <1>13
  <2>2. A[i] # A[j] /\ <<A[j], A[i]>> \notin R
    BY <1>4, <2>1
  <2> QED
    BY <1>2, <2>1, <2>2
<1> QED
  BY <1>1, <1>11, <1>12, <1>13 DEF A

\* LIMIT
LEMMA FirstIs ==
  ASSUME NEW S, NEW n \in Nat, NEW A \in [1..n -> S], NEW k \in Nat
  PROVE /\ FirstOf(k, A) \in Seq(S)
        /\ Len(FirstOf(k, A)) = IF k <= n THEN k ELSE n
        /\ \A j \in 1..Len(FirstOf(k, A)) : FirstOf(k, A)[j] = A[j]
<1> DEFINE m == Min({k, n})
<1>1. A \in Seq(S) /\ Len(A) = n
  OBVIOUS
<1>2. m \in {k, n} /\ \A y \in {k, n} : m <= y
  <2>1. {k, n} \in SUBSET Nat /\ {k, n} # {}
    OBVIOUS
  <2> QED
    BY <2>1, MinOfNumbers
<1>3. FirstOf(k, A) = SubSeq(A, 1, m)
  BY <1>1 DEF FirstOf
<1> HIDE DEF m
<1>4. m \in Nat /\ m <= n /\ m = IF k <= n THEN k ELSE n
  BY <1>2
<1>5. /\ SubSeq(A, 1, m) \in Seq(S) /\ Len(SubSeq(A, 1, m)) = m - 1 + 1
      /\ \A j \in 1..m - 1 + 1 : SubSeq(A, 1, m)[j] = A[1 + j - 1]
  <2>1. 1 \in Nat /\ 1 >= 1 /\ m <= Len(A) /\ 1 <= m + 1
    BY <1>1, <1>4
  <2> HIDE DEF m
  <2>2. \A j \in 1..m - 1 + 1 : SubSeq(A, 1, m)[j] = A[j + 1 - 1]
    BY ONLY <1>1, <1>4, <2>1, PartIs
  <2> QED
    BY ONLY <1>1, <1>4, <2>1, <2>2, PartIs
<1>6. m - 1 + 1 = m /\ \A j \in 1..m : 1 + j - 1 = j
  BY <1>4
<1> QED
  BY <1>3, <1>4, <1>5, <1>6

\* c.pinned < ? OR (c.pinned = ? AND (c.updated_at < ? OR (c.updated_at = ? AND c.seq < ?)))
LEMMA BehindIs ==
  ASSUME NEW a \in Nat, NEW b \in Nat, NEW c \in Nat, NEW d \in Nat, NEW e \in Nat, NEW f \in Nat
  PROVE Behind(<<a, b, c>>, <<d, e, f>>) <=>
             a < d \/ (a = d /\ b < e) \/ (a = d /\ b = e /\ c < f)
<1> DEFINE r == <<a, b, c>>
           s == <<d, e, f>>
<1>1. /\ DOMAIN r = {1, 2, 3} /\ r[1] = a /\ r[2] = b /\ r[3] = c
      /\ s[1] = d /\ s[2] = e /\ s[3] = f
  OBVIOUS
<1>2. 1..1 - 1 = {} /\ 1..2 - 1 = {1} /\ 1..3 - 1 = {1, 2}
  OBVIOUS
<1>3. Behind(r, s) <=> \/ r[1] < s[1]
                       \/ r[2] < s[2] /\ r[1] = s[1]
                       \/ r[3] < s[3] /\ r[1] = s[1] /\ r[2] = s[2]
  <2> HIDE DEF r, s
  <2>1. Behind(r, s) <=> \/ r[1] < s[1] /\ \A j \in 1..1 - 1 : r[j] = s[j]
                         \/ r[2] < s[2] /\ \A j \in 1..2 - 1 : r[j] = s[j]
                         \/ r[3] < s[3] /\ \A j \in 1..3 - 1 : r[j] = s[j]
    BY <1>1 DEF Behind
  <2> QED
    BY <1>2, <2>1
<1> HIDE DEF r, s
<1>4. Behind(r, s) <=> a < d \/ (a = d /\ b < e) \/ (a = d /\ b = e /\ c < f)
  BY <1>1, <1>3
<1> QED
  BY <1>4 DEF r, s

\* The same without the pin.
LEMMA TimeBehindIs ==
  ASSUME NEW a \in Nat, NEW b \in Nat, NEW c \in Nat, NEW d \in Nat, NEW e \in Nat, NEW f \in Nat
  PROVE Behind(Tail(<<a, b, c>>), Tail(<<d, e, f>>)) <=> b < e \/ (b = e /\ c < f)
<1> DEFINE p == <<b, c>>
           q == <<e, f>>
<1>1. Tail(<<a, b, c>>) = p /\ Tail(<<d, e, f>>) = q
  OBVIOUS
<1>2. DOMAIN p = {1, 2} /\ p[1] = b /\ p[2] = c /\ q[1] = e /\ q[2] = f
  OBVIOUS
<1>3. 1..1 - 1 = {} /\ 1..2 - 1 = {1}
  OBVIOUS
<1> HIDE DEF p, q
<1>4. Behind(p, q) <=> \/ p[1] < q[1] /\ \A j \in 1..1 - 1 : p[j] = q[j]
                       \/ p[2] < q[2] /\ \A j \in 1..2 - 1 : p[j] = q[j]
  BY <1>2 DEF Behind
<1> QED
  BY <1>1, <1>2, <1>3, <1>4

-----------------------------------------------------------------------------
(* StoreQueries: the table *)

StoredRows ==
    [pinned : {0, 1}, at : Nat, seq : Nat, sensitive : BOOLEAN, archived : BOOLEAN,
     lapsed : BOOLEAN, ai : BOOLEAN, printed : BOOLEAN, embedded : BOOLEAN]

\* A row that may not be shown to a model has no vector, a secret no fingerprint.
IsPrivate(row) ==
    /\ row.sensitive => ~row.printed /\ ~row.ai /\ ~row.embedded
    /\ row.embedded => row.ai

\* insert, and what scrubs and backfills: seq is the row's alone.
IsRecords(recs, last) ==
    /\ DOMAIN recs \subseteq Archive /\ last \in Nat
    /\ \A c \in DOMAIN recs : /\ recs[c] \in StoredRows /\ IsPrivate(recs[c])
                              /\ recs[c].seq <= last
    /\ \A c, d \in DOMAIN recs : recs[c].seq = recs[d].seq => c = d

RankIn(recs, c) == <<recs[c].pinned, recs[c].at, recs[c].seq>>
ListOrder(recs, S) == {p \in S \X S : Behind(RankIn(recs, p[2]), RankIn(recs, p[1]))}
TimeOrder(recs, S) == {p \in S \X S : Behind(Tail(RankIn(recs, p[2])), Tail(RankIn(recs, p[1])))}

LEMMA ArchiveIsFinite == IsFiniteSet(Archive)
<1>1. Shelf \in Seq(Archive) /\ Archive = ToSet(Shelf)
  BY QueriesAssumption DEF Archive
<1>2. Shelf \in [1..Len(Shelf) -> Archive] /\ Len(Shelf) \in Nat
  BY <1>1
<1>3. \A c \in Archive : \E i \in 1..Len(Shelf) : Shelf[i] = c
  BY <1>1, <1>2 DEF ToSet
<1>4. Shelf \in Surjection(1..Len(Shelf), Archive)
  BY <1>2, <1>3 DEF Surjection
<1>5. IsFiniteSet(1..Len(Shelf))
  BY <1>2, FS_Interval
<1> QED
  BY <1>4, <1>5, FS_Surjection

\* Rows by rank, and by time: both orders are total.
LEMMA RanksOrder ==
  ASSUME NEW recs, NEW last, IsRecords(recs, last), NEW S \in SUBSET DOMAIN recs
  PROVE IsOrder(ListOrder(recs, S), S) /\ IsOrder(TimeOrder(recs, S), S)
<1> DEFINE pin == [c \in S |-> recs[c].pinned]
           at == [c \in S |-> recs[c].at]
           seq == [c \in S |-> recs[c].seq]
           L == ListOrder(recs, S)
           T == TimeOrder(recs, S)
<1>1. \A c \in S : recs[c] \in StoredRows
  BY DEF IsRecords
<1>2. \A c \in S : pin[c] \in Nat /\ at[c] \in Nat /\ seq[c] \in Nat
  BY <1>1 DEF StoredRows
<1>3. \A c, d \in S : seq[c] = seq[d] => c = d
  BY DEF IsRecords
<1>4. ASSUME NEW x \in S, NEW y \in S
      PROVE /\ <<x, y>> \in L <=> \/ pin[y] < pin[x]
                                  \/ pin[y] = pin[x] /\ at[y] < at[x]
                                  \/ pin[y] = pin[x] /\ at[y] = at[x] /\ seq[y] < seq[x]
            /\ <<x, y>> \in T <=> at[y] < at[x] \/ (at[y] = at[x] /\ seq[y] < seq[x])
  <2>1. RankIn(recs, x) = <<pin[x], at[x], seq[x]>> /\ RankIn(recs, y) = <<pin[y], at[y], seq[y]>>
    BY DEF RankIn
  <2>2. /\ <<x, y>> \in L <=> Behind(RankIn(recs, y), RankIn(recs, x))
        /\ <<x, y>> \in T <=> Behind(Tail(RankIn(recs, y)), Tail(RankIn(recs, x)))
    BY DEF ListOrder, TimeOrder
  <2>3. /\ pin[x] \in Nat /\ at[x] \in Nat /\ seq[x] \in Nat
        /\ pin[y] \in Nat /\ at[y] \in Nat /\ seq[y] \in Nat
    BY <1>2
  <2> HIDE DEF pin, at, seq, L, T
  <2>4. /\ Behind(<<pin[y], at[y], seq[y]>>, <<pin[x], at[x], seq[x]>>) <=>
             pin[y] < pin[x] \/ (pin[y] = pin[x] /\ at[y] < at[x])
               \/ (pin[y] = pin[x] /\ at[y] = at[x] /\ seq[y] < seq[x])
        /\ Behind(Tail(<<pin[y], at[y], seq[y]>>), Tail(<<pin[x], at[x], seq[x]>>)) <=>
             at[y] < at[x] \/ (at[y] = at[x] /\ seq[y] < seq[x])
    <3> DEFINE a == pin[y]
               b == at[y]
               c == seq[y]
               d == pin[x]
               e == at[x]
               g == seq[x]
    <3>1. a \in Nat /\ b \in Nat /\ c \in Nat /\ d \in Nat /\ e \in Nat /\ g \in Nat
      BY <2>3
    <3> HIDE DEF a, b, c, d, e, g
    <3>2. /\ Behind(<<a, b, c>>, <<d, e, g>>) <=>
               a < d \/ (a = d /\ b < e) \/ (a = d /\ b = e /\ c < g)
          /\ Behind(Tail(<<a, b, c>>), Tail(<<d, e, g>>)) <=> b < e \/ (b = e /\ c < g)
      BY ONLY <3>1, BehindIs, TimeBehindIs
    <3> QED
      BY <3>2 DEF a, b, c, d, e, g
  <2> QED
    BY <2>1, <2>2, <2>4
<1>5. L \subseteq S \X S /\ T \subseteq S \X S
  BY DEF ListOrder, TimeOrder
<1> HIDE DEF pin, at, seq, L, T
<1>6. \A x \in S : <<x, x>> \notin L /\ <<x, x>> \notin T
  BY <1>2, <1>4
<1>7. ASSUME NEW x \in S, NEW y \in S, NEW z \in S
      PROVE /\ <<x, y>> \in L /\ <<y, z>> \in L => <<x, z>> \in L
            /\ <<x, y>> \in T /\ <<y, z>> \in T => <<x, z>> \in T
  BY <1>2, <1>4
<1>8. ASSUME NEW x \in S, NEW y \in S
      PROVE x = y \/ ((<<x, y>> \in L \/ <<y, x>> \in L) /\ (<<x, y>> \in T \/ <<y, x>> \in T))
  BY <1>2, <1>3, <1>4
<1> QED
  BY <1>5, <1>6, <1>7, <1>8 DEF IsOrder, L, T

\* InOrder and ByTime of some of the table: each clip once, in its place.
LEMMA ListedIs ==
  ASSUME IsRecords(records, lastSeqNo), NEW S \in SUBSET InTable
  PROVE /\ IsFiniteSet(S) /\ Cardinality(S) \in Nat
        /\ InOrder(S) \in [1..Cardinality(S) -> S] /\ ByTime(S) \in [1..Cardinality(S) -> S]
        /\ \A x \in S : \E i \in 1..Cardinality(S) : InOrder(S)[i] = x
        /\ \A i, j \in 1..Cardinality(S) :
             i < j => Behind(Rank(InOrder(S)[j]), Rank(InOrder(S)[i]))
<1>1. IsFiniteSet(S)
  <2>1. S \in SUBSET Archive
    BY DEF InTable, IsRecords
  <2> QED
    BY <2>1, ArchiveIsFinite, FS_Subset
<1>2. S \in SUBSET DOMAIN records
  BY DEF InTable
<1>3. InOrder(S) = Arranged(S, ListOrder(records, S)) /\ ByTime(S) = Arranged(S, TimeOrder(records, S))
  BY DEF InOrder, ByTime, ListOrder, TimeOrder, Rank, RowOf, RankIn
<1> DEFINE n == Cardinality(S)
           L == ListOrder(records, S)
           T == TimeOrder(records, S)
<1>4. IsOrder(L, S) /\ IsOrder(T, S)
  BY <1>2, RanksOrder
<1>5. \A p \in L : Behind(Rank(p[2]), Rank(p[1]))
  BY DEF ListOrder, Rank, RowOf, RankIn
<1> HIDE DEF L, T
<1>6. /\ n \in Nat /\ Arranged(S, L) \in [1..n -> S]
      /\ \A x \in S : \E i \in 1..n : Arranged(S, L)[i] = x
      /\ \A i, j \in 1..n : i < j => <<Arranged(S, L)[i], Arranged(S, L)[j]>> \in L
  BY ONLY <1>1, <1>4, ArrangedIs
<1>7. Arranged(S, T) \in [1..n -> S]
  BY ONLY <1>1, <1>4, ArrangedIs
<1>8. ASSUME NEW i \in 1..n, NEW j \in 1..n, i < j
      PROVE Behind(Rank(Arranged(S, L)[j]), Rank(Arranged(S, L)[i]))
  <2> DEFINE p == <<Arranged(S, L)[i], Arranged(S, L)[j]>>
  <2>1. p \in L /\ p[1] = Arranged(S, L)[i] /\ p[2] = Arranged(S, L)[j]
    BY <1>6, <1>8
  <2> QED
    BY ONLY <1>5, <2>1
<1> QED
  BY <1>1, <1>3, <1>6, <1>7, <1>8 DEF L, T

-----------------------------------------------------------------------------
(* StoreQueries: a search, page by page *)

Sessions ==
    [reads : {"none", "pages", "ended"}, cursor : {<<>>} \cup (Nat \X Nat \X Nat),
     given : Seq(Archive), owed : SUBSET Archive, touched : SUBSET Archive]

\* What LIKE and the index both find, of what a search shows.
Owing(recs, shield, eng) ==
    {c \in DOMAIN recs : ~recs[c].archived /\ ~recs[c].sensitive /\ (~recs[c].lapsed \/ c \in shield)}
      \cap LikeHits \cap (IF eng = "sqlite" THEN FtsHits ELSE LikeHits)

\* What nobody wrote to is given in order down to the cursor, still matches, and
\* is given already or behind the cursor.
SessionHolds(s, recs, shield, eng) ==
    /\ s \in Sessions
    /\ s.reads = "none" => s = NoSession
    /\ s.cursor = <<>> => s.given = <<>>
    /\ \A i, j \in DOMAIN s.given :
         i < j /\ s.given[i] \notin s.touched /\ s.given[j] \notin s.touched =>
             Behind(RankIn(recs, s.given[j]), RankIn(recs, s.given[i]))
    /\ \A i \in DOMAIN s.given :
         s.given[i] \notin s.touched =>
             /\ s.given[i] \in DOMAIN recs
             /\ s.cursor = RankIn(recs, s.given[i]) \/ Behind(s.cursor, RankIn(recs, s.given[i]))
    /\ s.owed \ s.touched \subseteq Owing(recs, shield, eng)
    /\ \A c \in s.owed \ s.touched :
         \/ \E i \in DOMAIN s.given : s.given[i] = c
         \/ s.reads = "pages" /\ (s.cursor = <<>> \/ Behind(RankIn(recs, c), s.cursor))

\* What a search sees of a clip.
SameTo(c, recs, recs2, shield, shield2) ==
    /\ c \in DOMAIN recs <=> c \in DOMAIN recs2
    /\ c \in shield <=> c \in shield2
    /\ c \in DOMAIN recs =>
         /\ recs2[c].pinned = recs[c].pinned /\ recs2[c].at = recs[c].at
         /\ recs2[c].seq = recs[c].seq /\ recs2[c].sensitive = recs[c].sensitive
         /\ recs2[c].archived = recs[c].archived /\ recs2[c].lapsed = recs[c].lapsed

\* No session.
LEMMA RestHolds ==
  ASSUME NEW recs, NEW shield, NEW eng PROVE SessionHolds(NoSession, recs, shield, eng)
<1>1. /\ NoSession \in Sessions /\ NoSession.given = <<>> /\ NoSession.owed = {}
      /\ DOMAIN NoSession.given = {}
  BY DEF NoSession, Sessions
<1> QED
  BY <1>1 DEF SessionHolds

\* The session while others write.
LEMMA SessionFrame ==
  ASSUME NEW s, NEW recs, NEW recs2, NEW shield, NEW shield2, NEW eng, NEW S \in SUBSET Archive,
         SessionHolds(s, recs, shield, eng),
         \A c \in Archive \ S : SameTo(c, recs, recs2, shield, shield2)
  PROVE SessionHolds([s EXCEPT !.touched = IF s.reads = "none" THEN @ ELSE @ \cup S],
                     recs2, shield2, eng)
<1>1. s \in Sessions
  BY DEF SessionHolds
<1>2. CASE s.reads = "none"
  <2>1. s = NoSession
    BY <1>2 DEF SessionHolds
  <2>2. [s EXCEPT !.touched = IF s.reads = "none" THEN @ ELSE @ \cup S] = NoSession
    BY <1>2, <2>1 DEF NoSession
  <2> QED
    BY <2>2, RestHolds
<1>3. CASE s.reads # "none"
  <2> DEFINE t == [s EXCEPT !.touched = s.touched \cup S]
             gone == s.touched
  <2>1. [s EXCEPT !.touched = IF s.reads = "none" THEN @ ELSE @ \cup S] = t
    BY <1>3
  <2>2. /\ t \in Sessions /\ t.reads = s.reads /\ t.cursor = s.cursor /\ t.given = s.given
        /\ t.owed = s.owed /\ t.touched = gone \cup S
    BY <1>1 DEF Sessions
  <2>3. /\ s.given \in Seq(Archive) /\ s.owed \subseteq Archive
        /\ \A i \in DOMAIN s.given : s.given[i] \in Archive
    BY <1>1 DEF Sessions
  <2> HIDE DEF t
  <2>4. \A c \in Archive \ S : c \in DOMAIN recs =>
             c \in DOMAIN recs2 /\ RankIn(recs2, c) = RankIn(recs, c)
    BY DEF SameTo, RankIn
  <2>5. \A c \in Archive \ S : c \in Owing(recs, shield, eng) => c \in Owing(recs2, shield2, eng)
    BY DEF SameTo, Owing
  <2>6. \A i \in DOMAIN s.given : s.given[i] \notin t.touched =>
             /\ s.given[i] \notin gone /\ s.given[i] \in DOMAIN recs
             /\ s.given[i] \in DOMAIN recs2
             /\ RankIn(recs2, s.given[i]) = RankIn(recs, s.given[i])
    BY <2>2, <2>3, <2>4 DEF SessionHolds
  <2>7. ASSUME NEW i \in DOMAIN t.given, NEW j \in DOMAIN t.given,
               i < j, t.given[i] \notin t.touched, t.given[j] \notin t.touched
        PROVE Behind(RankIn(recs2, t.given[j]), RankIn(recs2, t.given[i]))
    BY <2>2, <2>6, <2>7 DEF SessionHolds
  <2>8. ASSUME NEW i \in DOMAIN t.given, t.given[i] \notin t.touched
        PROVE /\ t.given[i] \in DOMAIN recs2
              /\ t.cursor = RankIn(recs2, t.given[i]) \/ Behind(t.cursor, RankIn(recs2, t.given[i]))
    BY <2>2, <2>6, <2>8 DEF SessionHolds
  <2>9. ASSUME NEW c \in t.owed \ t.touched
        PROVE /\ c \in Owing(recs2, shield2, eng)
              /\ \/ \E i \in DOMAIN t.given : t.given[i] = c
                 \/ t.reads = "pages" /\ (t.cursor = <<>> \/ Behind(RankIn(recs2, c), t.cursor))
    <3>1. c \in s.owed \ s.touched /\ c \in Archive \ S
      BY <2>2, <2>3
    <3>2. c \in Owing(recs, shield, eng)
      BY <3>1 DEF SessionHolds
    <3>3. RankIn(recs2, c) = RankIn(recs, c)
      BY <2>4, <3>1, <3>2 DEF Owing
    <3> QED
      BY <2>2, <2>5, <3>1, <3>2, <3>3 DEF SessionHolds
  <2>10. t.reads # "none" /\ (t.cursor = <<>> => t.given = <<>>)
    BY <1>3, <2>2 DEF SessionHolds
  <2>11. SessionHolds(t, recs2, shield2, eng)
    BY <2>2, <2>7, <2>8, <2>9, <2>10 DEF SessionHolds
  <2> QED
    BY <2>1, <2>11
<1> QED
  BY <1>2, <1>3

LEMMA BehindTriples ==
  ASSUME NEW a \in Nat, NEW b \in Nat, NEW c \in Nat, NEW d \in Nat, NEW e \in Nat, NEW f \in Nat,
         NEW g \in Nat, NEW h \in Nat, NEW k \in Nat,
         Behind(<<a, b, c>>, <<d, e, f>>), Behind(<<d, e, f>>, <<g, h, k>>)
  PROVE Behind(<<a, b, c>>, <<g, h, k>>)
<1>1. Behind(<<a, b, c>>, <<d, e, f>>) <=>
             a < d \/ (a = d /\ b < e) \/ (a = d /\ b = e /\ c < f)
  BY BehindIs
<1>2. Behind(<<d, e, f>>, <<g, h, k>>) <=>
             d < g \/ (d = g /\ e < h) \/ (d = g /\ e = h /\ f < k)
  BY BehindIs
<1>3. Behind(<<a, b, c>>, <<g, h, k>>) <=>
             a < g \/ (a = g /\ b < h) \/ (a = g /\ b = h /\ c < k)
  BY BehindIs
<1> QED
  BY <1>1, <1>2, <1>3

LEMMA BehindChain ==
  ASSUME NEW r \in Nat \X Nat \X Nat, NEW s \in Nat \X Nat \X Nat, NEW t \in Nat \X Nat \X Nat,
         Behind(r, s), Behind(s, t)
  PROVE Behind(r, t)
<1>1. /\ r = <<r[1], r[2], r[3]>> /\ r[1] \in Nat /\ r[2] \in Nat /\ r[3] \in Nat
      /\ s = <<s[1], s[2], s[3]>> /\ s[1] \in Nat /\ s[2] \in Nat /\ s[3] \in Nat
      /\ t = <<t[1], t[2], t[3]>> /\ t[1] \in Nat /\ t[2] \in Nat /\ t[3] \in Nat
  OBVIOUS
<1> QED
  BY <1>1, BehindTriples

LEMMA RankIsTriple ==
  ASSUME IsRecords(records, lastSeqNo), NEW c \in InTable
  PROVE Rank(c) = RankIn(records, c) /\ Rank(c) \in Nat \X Nat \X Nat
<1>1. records[c] \in StoredRows
  BY DEF IsRecords, InTable
<1>2. records[c].pinned \in Nat /\ records[c].at \in Nat /\ records[c].seq \in Nat
  BY <1>1 DEF StoredRows
<1> QED
  BY <1>2 DEF Rank, RowOf, RankIn

QInv ==
    /\ engine \in {"duckdb", "sqlite"}
    /\ IsRecords(records, lastSeqNo)
    /\ ShieldIsOfClips
    /\ SessionHolds(session, records, shielded, engine)

\* What is owed matches, whichever way the planner looks for it.
LEMMA OwedMatches == QInv => Owing(records, shielded, engine) \subseteq Matching
BY DEF QInv, Owing, Matching, Found, UseFts, InTable, RowOf

LEMMA SessionWith ==
  ASSUME NEW s \in Sessions, NEW g \in Seq(Archive), NEW c \in {<<>>} \cup (Nat \X Nat \X Nat),
         NEW r \in {"none", "pages", "ended"}
  PROVE [s EXCEPT !.given = g, !.cursor = c, !.reads = r] \in Sessions
BY DEF Sessions

\* next_page: the first rows behind the cursor, and a cursor at the last of them.
LEMMA PageStep ==
  ASSUME QInv, NextPage PROVE SessionHolds(session', records, shielded, engine)
<1>0. IsRecords(records, lastSeqNo) /\ SessionHolds(session, records, shielded, engine)
  BY DEF QInv
<1>1. session \in Sessions /\ session.reads = "pages"
  BY <1>0 DEF SessionHolds, NextPage
<1> DEFINE g == session.given
           m == Len(g)
           cursor == session.cursor
           rest == IF cursor = <<>> THEN Matching ELSE {c \in Matching : PastCursor(c)}
           A == InOrder(rest)
           n == Cardinality(rest)
<1>2. PICK limit \in 1..2 :
        LET page == FirstOf(limit, A) IN
        session' = [session EXCEPT !.given = @ \o page,
                                   !.cursor = IF page = <<>> THEN @ ELSE Rank(page[Len(page)]),
                                   !.reads = IF Len(page) = limit THEN @ ELSE "ended"]
  BY DEF NextPage
<1> DEFINE page == FirstOf(limit, A)
           k == Len(page)
           t == [session EXCEPT !.given = g \o page,
                                !.cursor = IF page = <<>> THEN cursor ELSE Rank(page[k]),
                                !.reads = IF k = limit THEN "pages" ELSE "ended"]
<1>3. session' = t
  BY <1>1, <1>2
<1>4. /\ rest \in SUBSET InTable
      /\ \A x \in rest : x \in InTable /\ (cursor # <<>> => Behind(Rank(x), cursor))
      /\ \A x \in Matching : cursor = <<>> \/ Behind(Rank(x), cursor) => x \in rest
  BY DEF Matching, Found, PastCursor
<1> HIDE DEF rest
<1>5. /\ n \in Nat /\ A \in [1..n -> rest]
      /\ \A x \in rest : \E i \in 1..n : A[i] = x
      /\ \A i, j \in 1..n : i < j => Behind(Rank(A[j]), Rank(A[i]))
  BY <1>0, <1>4, ListedIs
<1> HIDE DEF A, n
<1>6. limit \in Nat /\ limit >= 1
  OBVIOUS
<1>7. /\ page \in Seq(rest) /\ k = IF limit <= n THEN limit ELSE n
      /\ \A j \in 1..k : page[j] = A[j]
  <2>1. A \in [1..n -> rest] /\ n \in Nat /\ limit \in Nat
    BY <1>5, <1>6
  <2> HIDE DEF page
  <2>2. /\ FirstOf(limit, A) \in Seq(rest)
        /\ Len(FirstOf(limit, A)) = IF limit <= n THEN limit ELSE n
        /\ \A j \in 1..Len(FirstOf(limit, A)) : FirstOf(limit, A)[j] = A[j]
    BY ONLY <2>1, FirstIs
  <2> QED
    BY ONLY <2>2 DEF page
<1>8. k \in Nat /\ k <= n /\ k <= limit
  BY <1>5, <1>6, <1>7
<1>9. g \in Seq(Archive) /\ m \in Nat /\ DOMAIN g = 1..m /\ \A i \in 1..m : g[i] \in Archive
  BY <1>1 DEF Sessions
<1>10. rest \subseteq Archive
  BY <1>0, <1>4 DEF InTable, IsRecords
<1> HIDE DEF page
<1>11. page \in Seq(Archive) /\ DOMAIN page = 1..k /\ (page = <<>> <=> k = 0)
  BY <1>7, <1>8, <1>10
<1>12. /\ g \o page \in Seq(Archive) /\ DOMAIN (g \o page) = 1..m + k
       /\ \A i \in 1..m + k : (g \o page)[i] = IF i <= m THEN g[i] ELSE page[i - m]
  BY <1>8, <1>9, <1>11
<1>13. /\ \A i \in 1..m : (g \o page)[i] = g[i]
       /\ \A i \in 1..m + k : i > m => i - m \in 1..k /\ (g \o page)[i] = A[i - m]
  BY <1>7, <1>8, <1>9, <1>12
<1> DEFINE last == IF k = 0 THEN cursor ELSE Rank(A[k])
<1>14. k # 0 => k \in 1..k /\ k \in 1..n /\ page[k] = A[k] /\ A[k] \in rest
  BY <1>5, <1>7, <1>8
<1>15. (IF page = <<>> THEN cursor ELSE Rank(page[k])) = last
  BY <1>11, <1>14
<1>16. /\ t.given = g \o page /\ t.cursor = last /\ t.owed = session.owed
       /\ t.touched = session.touched /\ t.reads = (IF k = limit THEN "pages" ELSE "ended")
  BY <1>1, <1>15 DEF Sessions
<1>17. cursor \in {<<>>} \cup (Nat \X Nat \X Nat)
  BY <1>1 DEF Sessions
<1>18. last \in {<<>>} \cup (Nat \X Nat \X Nat)
  <2>1. CASE k = 0
    BY <1>17, <2>1
  <2>2. CASE k # 0
    BY <1>0, <1>4, <1>14, <2>2, RankIsTriple
  <2> QED
    BY <2>1, <2>2
<1>19. t \in Sessions
  <2> DEFINE all == g \o page
             at == IF page = <<>> THEN cursor ELSE Rank(page[k])
             state == IF k = limit THEN "pages" ELSE "ended"
  <2>1. at \in {<<>>} \cup (Nat \X Nat \X Nat)
    BY <1>15, <1>18
  <2>2. all \in Seq(Archive) /\ state \in {"none", "pages", "ended"}
    BY <1>12
  <2>3. t = [session EXCEPT !.given = all, !.cursor = at, !.reads = state]
    OBVIOUS
  <2> HIDE DEF all, at, state, t
  <2> QED
    BY ONLY <1>1, <2>1, <2>2, <2>3, SessionWith
<1> HIDE DEF t
<1>20. \A i \in 1..m : g[i] \notin session.touched =>
         /\ g[i] \in InTable /\ cursor # <<>>
         /\ cursor = Rank(g[i]) \/ Behind(cursor, Rank(g[i]))
  <2>1. ASSUME NEW i \in 1..m, g[i] \notin session.touched
        PROVE /\ g[i] \in InTable /\ cursor # <<>>
              /\ cursor = Rank(g[i]) \/ Behind(cursor, Rank(g[i]))
    <3>1. g[i] \in InTable /\ (cursor = RankIn(records, g[i]) \/ Behind(cursor, RankIn(records, g[i])))
      BY <1>0, <1>9, <2>1 DEF SessionHolds, InTable
    <3>2. g # <<>>
      BY <1>9
    <3>3. cursor # <<>>
      BY <1>0, <3>2 DEF SessionHolds
    <3> QED
      BY <1>0, <3>1, <3>3, RankIsTriple
  <2> QED
    BY <2>1
<1>21. ASSUME NEW i \in 1..m, g[i] \notin session.touched, NEW x \in rest
       PROVE Behind(Rank(x), Rank(g[i]))
  <2>1. g[i] \in InTable /\ cursor # <<>> /\ (cursor = Rank(g[i]) \/ Behind(cursor, Rank(g[i])))
    BY <1>20, <1>21
  <2>2. Behind(Rank(x), cursor) /\ x \in InTable
    BY <1>4, <2>1
  <2>3. /\ Rank(x) \in Nat \X Nat \X Nat /\ Rank(g[i]) \in Nat \X Nat \X Nat
        /\ cursor \in Nat \X Nat \X Nat
    BY <1>0, <1>17, <2>1, <2>2, RankIsTriple
  <2> QED
    BY <2>1, <2>2, <2>3, BehindChain
<1> HIDE DEF last
<1>22. \A j \in 1..k : j \in 1..n /\ A[j] \in rest /\ A[j] \in InTable
  BY <1>4, <1>5, <1>8
<1> DEFINE all == g \o page
           touched == session.touched
<1>23. /\ \A i \in 1..m : all[i] = g[i]
       /\ \A i \in 1..m + k : i > m => i - m \in 1..k /\ all[i] = A[i - m]
       /\ DOMAIN all = 1..m + k
  BY <1>12, <1>13
<1> HIDE DEF all
<1>24. ASSUME NEW i \in 1..m + k, NEW j \in 1..m + k, i < j, all[i] \notin touched, all[j] \notin touched
       PROVE Behind(Rank(all[j]), Rank(all[i]))
  <2>1. CASE j <= m
    <3>1. i \in 1..m /\ j \in 1..m /\ all[i] = g[i] /\ all[j] = g[j]
      BY <1>9, <1>23, <1>24, <2>1
    <3>2. Behind(RankIn(records, g[j]), RankIn(records, g[i]))
      BY <1>0, <1>9, <1>24, <3>1 DEF SessionHolds
    <3>3. g[i] \in InTable /\ g[j] \in InTable
      BY <1>20, <1>24, <3>1
    <3> QED
      BY <1>0, <3>1, <3>2, <3>3, RankIsTriple
  <2>2. CASE i <= m /\ j > m
    <3>1. i \in 1..m /\ all[i] = g[i] /\ j - m \in 1..k /\ all[j] = A[j - m]
      BY <1>9, <1>23, <1>24, <2>2
    <3>2. A[j - m] \in rest
      BY <1>22, <3>1
    <3> QED
      BY <1>21, <1>24, <3>1, <3>2
  <2>3. CASE i > m
    <3>1. j > m
      BY <1>9, <1>24, <2>3
    <3>2. i - m \in 1..k /\ j - m \in 1..k /\ all[i] = A[i - m] /\ all[j] = A[j - m] /\ i - m < j - m
      BY <1>8, <1>9, <1>23, <1>24, <2>3, <3>1
    <3> DEFINE x == i - m
               y == j - m
    <3>3. x \in 1..n /\ y \in 1..n /\ x < y
      BY <1>22, <3>2
    <3> HIDE DEF x, y
    <3>4. Behind(Rank(A[y]), Rank(A[x]))
      BY <1>5, <3>3
    <3> QED
      BY <3>2, <3>4 DEF x, y
  <2> QED
    BY <1>8, <1>9, <1>24, <2>1, <2>2, <2>3
<1>25. ASSUME NEW i \in 1..m + k, all[i] \notin touched
       PROVE all[i] \in InTable /\ (last = Rank(all[i]) \/ Behind(last, Rank(all[i])))
  <2>1. CASE i <= m
    <3>1. i \in 1..m /\ all[i] = g[i]
      BY <1>9, <1>23, <1>25, <2>1
    <3>2. CASE k = 0
      BY <1>20, <1>25, <3>1, <3>2 DEF last
    <3>3. CASE k # 0
      <4>1. last = Rank(A[k]) /\ A[k] \in rest
        BY <1>14, <3>3 DEF last
      <4> QED
        BY <1>20, <1>21, <1>25, <3>1, <4>1
    <3> QED
      BY <3>2, <3>3
  <2>2. CASE i > m
    <3>1. i - m \in 1..k /\ all[i] = A[i - m]
      BY <1>9, <1>23, <1>25, <2>2
    <3> DEFINE x == i - m
    <3>2. x \in 1..k /\ all[i] = A[x]
      BY <3>1
    <3> HIDE DEF x
    <3>3. k # 0 /\ x <= k /\ x \in 1..n /\ k \in 1..n /\ A[x] \in InTable
      BY <1>8, <1>14, <1>22, <3>2
    <3>4. last = Rank(A[k])
      BY <3>3 DEF last
    <3>5. x = k \/ Behind(Rank(A[k]), Rank(A[x]))
      BY <1>5, <1>8, <3>2, <3>3
    <3> QED
      BY <3>2, <3>3, <3>4, <3>5
  <2> QED
    BY <1>8, <1>9, <1>25, <2>1, <2>2
<1>26. ASSUME NEW c \in session.owed \ touched
       PROVE /\ c \in Owing(records, shielded, engine) /\ c \in InTable
             /\ \/ \E i \in 1..m + k : all[i] = c
                \/ t.reads = "pages" /\ (last = <<>> \/ Behind(Rank(c), last))
  <2>1. /\ c \in Owing(records, shielded, engine)
        /\ (\E i \in 1..m : g[i] = c) \/ cursor = <<>> \/ Behind(RankIn(records, c), cursor)
    BY <1>0, <1>9, <1>26 DEF SessionHolds
  <2>2. c \in Matching /\ c \in InTable
    BY <2>1, OwedMatches DEF Matching, Found
  <2>3. Rank(c) = RankIn(records, c)
    BY <1>0, <2>2, RankIsTriple
  <2>4. CASE \E i \in 1..m : g[i] = c
    <3>1. PICK i \in 1..m : g[i] = c
      BY <2>4
    <3>2. i \in 1..m + k /\ all[i] = c
      BY <1>8, <1>9, <1>23, <3>1
    <3> QED
      BY <2>1, <2>2, <3>2
  <2>5. CASE cursor = <<>> \/ Behind(Rank(c), cursor)
    <3>1. c \in rest
      BY <1>4, <2>2, <2>5
    <3>2. PICK x \in 1..n : A[x] = c
      BY <1>5, <3>1
    <3>3. CASE x <= k
      <4> DEFINE i == m + x
      <4>1. i \in 1..m + k /\ i > m /\ i - m = x
        BY <1>5, <1>8, <1>9, <3>2, <3>3
      <4>2. all[i] = c
        BY <1>23, <3>2, <4>1
      <4> HIDE DEF i
      <4> QED
        BY <2>1, <2>2, <4>1, <4>2
    <3>4. CASE x > k
      <4>1. k = limit /\ k # 0 /\ k \in 1..n
        BY <1>5, <1>6, <1>7, <3>2, <3>4
      <4>2. last = Rank(A[k]) /\ t.reads = "pages"
        BY <1>16, <4>1 DEF last
      <4>3. Behind(Rank(c), last)
        BY <1>5, <3>2, <3>4, <4>1, <4>2
      <4> QED
        BY <2>1, <2>2, <4>2, <4>3
    <3> QED
      BY <1>5, <1>8, <3>2, <3>3, <3>4
  <2> QED
    BY <2>1, <2>3, <2>4, <2>5
<1>27. last = <<>> => all = <<>>
  <2>1. ASSUME last = <<>> PROVE all = <<>>
    <3>1. k = 0
      <4>1. ASSUME k # 0 PROVE FALSE
        <5>1. last = Rank(A[k]) /\ A[k] \in InTable
          BY <1>4, <1>14, <4>1 DEF last
        <5>2. Rank(A[k]) \in Nat \X Nat \X Nat
          BY <1>0, <5>1, RankIsTriple
        <5> QED
          BY <2>1, <5>1, <5>2
      <4> QED
        BY <4>1
    <3>2. cursor = <<>>
      BY <2>1, <3>1 DEF last
    <3>3. g = <<>> /\ page = <<>>
      BY <1>0, <1>11, <3>1, <3>2 DEF SessionHolds
    <3> QED
      BY <3>3 DEF all
  <2> QED
    BY <2>1
<1>28. /\ t.given = all /\ t.cursor = last /\ t.owed = session.owed /\ t.touched = touched
       /\ t.reads \in {"pages", "ended"}
  BY <1>16 DEF all
<1>29. \A i \in DOMAIN t.given : t.given[i] \notin t.touched =>
         /\ t.given[i] \in DOMAIN records /\ RankIn(records, t.given[i]) = Rank(t.given[i])
         /\ t.cursor = Rank(t.given[i]) \/ Behind(t.cursor, Rank(t.given[i]))
  <2>1. ASSUME NEW i \in 1..m + k, all[i] \notin touched
        PROVE /\ all[i] \in DOMAIN records /\ RankIn(records, all[i]) = Rank(all[i])
              /\ last = Rank(all[i]) \/ Behind(last, Rank(all[i]))
    BY <1>0, <1>25, <2>1, RankIsTriple DEF InTable
  <2> QED
    BY <1>23, <1>28, <2>1
<1>30. \A i, j \in DOMAIN t.given :
         i < j /\ t.given[i] \notin t.touched /\ t.given[j] \notin t.touched =>
             Behind(RankIn(records, t.given[j]), RankIn(records, t.given[i]))
  BY <1>23, <1>24, <1>28, <1>29
<1>31. \A c \in t.owed \ t.touched :
         /\ c \in Owing(records, shielded, engine)
         /\ \/ \E i \in DOMAIN t.given : t.given[i] = c
            \/ t.reads = "pages" /\ (t.cursor = <<>> \/ Behind(RankIn(records, c), t.cursor))
  <2>1. ASSUME NEW c \in session.owed \ touched PROVE RankIn(records, c) = Rank(c)
    BY <1>0, <1>26, <2>1, RankIsTriple
  <2> QED
    BY <1>23, <1>26, <1>28, <2>1
<1>32. SessionHolds(t, records, shielded, engine)
  BY <1>19, <1>27, <1>28, <1>29, <1>30, <1>31 DEF SessionHolds
<1> QED
  BY <1>3, <1>32

\* A search begins with everything owed and nothing given.
LEMMA BeginStep ==
  ASSUME QInv, BeginSearch PROVE SessionHolds(session', records, shielded, engine)
<1> DEFINE owed == Owing(records, shielded, engine)
           s == [NoSession EXCEPT !.reads = "pages", !.owed = owed]
<1>1. owed = Found \cap LikeHits \cap (IF engine = "sqlite" THEN FtsHits ELSE LikeHits)
  BY DEF Owing, Found, InTable, RowOf
<1>2. session' = s
  BY <1>1 DEF BeginSearch
<1>3. owed \in SUBSET Archive
  BY DEF Owing, QInv, IsRecords
<1> HIDE DEF owed
<1>4. /\ s \in Sessions /\ s.reads = "pages" /\ s.cursor = <<>> /\ s.given = <<>>
      /\ s.owed = owed /\ s.touched = {}
  <2> DEFINE z == NoSession
  <2>1. /\ z \in Sessions /\ z.cursor = <<>> /\ z.given = <<>> /\ z.touched = {}
    BY DEF NoSession, Sessions
  <2>2. s = [z EXCEPT !.reads = "pages", !.owed = owed]
    OBVIOUS
  <2> HIDE DEF s, z
  <2> QED
    BY <1>3, <2>1, <2>2 DEF Sessions
<1> HIDE DEF s
<1>5. SessionHolds(s, records, shielded, engine)
  BY <1>4 DEF SessionHolds, owed
<1> QED
  BY <1>2, <1>5

-----------------------------------------------------------------------------
(* StoreQueries: what is written *)

LEMMA RecordIs ==
  ASSUME NEW at \in Nat, NEW seq \in Nat, NEW sensitive \in BOOLEAN, NEW ai \in BOOLEAN
  PROVE /\ Record(at, seq, sensitive, ai) \in StoredRows /\ IsPrivate(Record(at, seq, sensitive, ai))
        /\ Record(at, seq, sensitive, ai).seq = seq
BY DEF Record, StoredRows, IsPrivate

\* A row is edited in its place.
LEMMA RowsEdited ==
  ASSUME NEW recs, NEW last, IsRecords(recs, last), NEW recs2, DOMAIN recs2 = DOMAIN recs,
         \A c \in DOMAIN recs : recs2[c] \in StoredRows /\ IsPrivate(recs2[c]) /\ recs2[c].seq = recs[c].seq
  PROVE IsRecords(recs2, last)
BY DEF IsRecords

LEMMA RowsRemoved ==
  ASSUME NEW recs, NEW last, IsRecords(recs, last), NEW gone
  PROVE IsRecords([c \in DOMAIN recs \ gone |-> recs[c]], last)
BY DEF IsRecords

LEMMA RowAdded ==
  ASSUME NEW recs, NEW last, IsRecords(recs, last), NEW gone, NEW c \in Archive,
         NEW row \in StoredRows, IsPrivate(row), row.seq = last + 1
  PROVE IsRecords([d \in (DOMAIN recs \ gone) \cup {c} |-> IF d = c THEN row ELSE recs[d]], last + 1)
<1> DEFINE keep == DOMAIN recs \ gone
           recs2 == [d \in keep \cup {c} |-> IF d = c THEN row ELSE recs[d]]
<1>1. last \in Nat /\ DOMAIN recs2 = keep \cup {c} /\ keep \subseteq Archive
  BY DEF IsRecords
<1>2. \A d \in keep \ {c} :
        /\ recs2[d] = recs[d] /\ recs[d] \in StoredRows /\ IsPrivate(recs[d])
        /\ recs[d].seq \in Nat /\ recs[d].seq <= last
  BY DEF IsRecords, StoredRows
<1>3. recs2[c] = row
  OBVIOUS
<1>4. \A d, e \in keep \ {c} : recs[d].seq = recs[e].seq => d = e
  BY DEF IsRecords
<1> HIDE DEF recs2, keep
<1>5. \A d \in DOMAIN recs2 : /\ recs2[d] \in StoredRows /\ IsPrivate(recs2[d])
                              /\ recs2[d].seq <= last + 1
  BY <1>1, <1>2, <1>3
<1>6. \A d, e \in DOMAIN recs2 : recs2[d].seq = recs2[e].seq => d = e
  BY <1>1, <1>2, <1>3, <1>4
<1>7. DOMAIN recs2 \subseteq Archive /\ last + 1 \in Nat
  BY <1>1
<1>8. IsRecords(recs2, last + 1)
  BY <1>5, <1>6, <1>7 DEF IsRecords
<1> QED
  BY <1>8 DEF recs2, keep

\* A write of S: the session goes on, or rests.
LEMMA WroteStep ==
  ASSUME QInv, NEW S \in SUBSET Archive, Wrote(S),
         \A c \in Archive \ S : SameTo(c, records, records', shielded, shielded')
  PROVE engine' = engine /\ SessionHolds(session', records', shielded', engine')
<1> DEFINE recs2 == records'
           shield2 == shielded'
           t == [session EXCEPT !.touched = IF session.reads = "none" THEN @ ELSE @ \cup S]
<1>1. session' = t /\ engine' = engine
  BY DEF Wrote
<1>2. SessionHolds(session, records, shielded, engine)
  BY DEF QInv
<1>3. \A c \in Archive \ S : SameTo(c, records, recs2, shielded, shield2)
  OBVIOUS
<1> HIDE DEF recs2, shield2
<1>4. SessionHolds(t, recs2, shield2, engine)
  BY ONLY <1>2, <1>3, S \in SUBSET Archive, SessionFrame
<1> QED
  BY <1>1, <1>4 DEF recs2, shield2

\* Rows keep what a search sees of them.
LEMMA SameRows ==
  ASSUME NEW recs, NEW recs2, NEW shield, DOMAIN recs2 = DOMAIN recs,
         \A c \in DOMAIN recs : /\ recs2[c].pinned = recs[c].pinned /\ recs2[c].at = recs[c].at
                                /\ recs2[c].seq = recs[c].seq
                                /\ recs2[c].sensitive = recs[c].sensitive
                                /\ recs2[c].archived = recs[c].archived
                                /\ recs2[c].lapsed = recs[c].lapsed
  PROVE \A c : SameTo(c, recs, recs2, shield, shield)
BY DEF SameTo

\* What is protected from the cleanup is in the archive, so there is an end to it.
LEMMA ShieldIsFinite ==
  ASSUME QInv PROVE /\ IsFiniteSet(shielded) /\ Cardinality(shielded) \in Nat
                    /\ shielded \subseteq InTable /\ Cardinality(shielded) <= MaxShielded
                    /\ MaxShielded \in Nat
<1>1. shielded \in SUBSET Archive
  BY DEF QInv, ShieldIsOfClips, IsRecords, InTable
<1>2. IsFiniteSet(shielded)
  BY <1>1, ArchiveIsFinite, FS_Subset
<1> QED
  BY <1>2, FS_CardinalityType, QueriesAssumption DEF QInv, ShieldIsOfClips

LEMMA CopyStep ==
  ASSUME QInv, NEW c \in Archive, NEW at \in Moments, NEW secret \in BOOLEAN, NEW ai \in BOOLEAN,
         InsertClip(c, at, secret, ai)
  PROVE QInv'
<1> DEFINE gone == {d \in InTable : RowOf(d).lapsed}
           row == IF c \in InTable \ gone THEN Merged(RowOf(c), at, secret, ai)
                  ELSE Record(at, lastSeqNo + 1, secret, ai)
<1>1. IsRecords(records, lastSeqNo)
  BY DEF QInv
<1>2. /\ records' = [d \in (InTable \ gone) \cup {c} |-> IF d = c THEN row ELSE records[d]]
      /\ lastSeqNo' = lastSeqNo + 1 /\ shielded' = shielded \ gone /\ Wrote({c} \cup gone)
  BY DEF InsertClip
<1>3. at \in Nat /\ lastSeqNo \in Nat /\ lastSeqNo + 1 \in Nat
  BY <1>1, QueriesAssumption DEF IsRecords
<1>4. row \in StoredRows /\ IsPrivate(row) /\ row.seq = lastSeqNo + 1
  <2> DEFINE seq == lastSeqNo + 1
             old == records[c]
             new == Record(at, seq, old.sensitive \/ secret, ai)
  <2>1. CASE c \in InTable \ gone
    <3>1. old \in StoredRows
      BY <1>1, <2>1 DEF IsRecords, InTable
    <3>2. old.sensitive \in BOOLEAN /\ old.archived \in BOOLEAN /\ old.pinned \in {0, 1}
      BY <3>1 DEF StoredRows
    <3> DEFINE mix == old.sensitive \/ secret
    <3>3. mix \in BOOLEAN /\ seq \in Nat /\ at \in Nat
      BY <1>3
    <3>4. row = [new EXCEPT !.pinned = old.pinned, !.archived = old.archived]
      BY <2>1 DEF Merged, RowOf
    <3> HIDE DEF row, old, seq, mix
    <3>5. new \in StoredRows /\ IsPrivate(new) /\ new.seq = seq
      BY <3>3, RecordIs DEF mix
    <3> HIDE DEF new
    <3>6. row \in StoredRows /\ row.seq = new.seq
      BY <3>2, <3>4, <3>5 DEF StoredRows
    <3>7. IsPrivate(row)
      BY <3>4, <3>5 DEF IsPrivate, StoredRows
    <3> QED
      BY <3>5, <3>6, <3>7 DEF seq
  <2>2. CASE c \notin InTable \ gone
    <3>1. row = Record(at, seq, secret, ai)
      BY <2>2
    <3>2. seq \in Nat
      BY <1>3
    <3> HIDE DEF row, seq
    <3> QED
      BY <1>3, <3>1, <3>2, RecordIs DEF seq
  <2> QED
    BY <2>1, <2>2
<1>5. gone \in SUBSET Archive /\ InTable = DOMAIN records
  BY <1>1 DEF InTable, IsRecords
<1> HIDE DEF gone, row
<1>6. IsRecords(records', lastSeqNo')
  <2> DEFINE seq == lastSeqNo + 1
             recs2 == [d \in (DOMAIN records \ gone) \cup {c} |-> IF d = c THEN row ELSE records[d]]
  <2>1. IsRecords(recs2, lastSeqNo + 1)
    BY <1>1, <1>4, RowAdded
  <2>2. records' = recs2 /\ lastSeqNo' = lastSeqNo + 1
    BY <1>2, <1>5
  <2> HIDE DEF recs2
  <2> QED
    BY <2>1, <2>2
<1>7. ShieldIsOfClips'
  <2>1. shielded' \in SUBSET shielded
    BY <1>2
  <2>2. IsFiniteSet(shielded') /\ Cardinality(shielded') <= Cardinality(shielded)
    BY <2>1, ShieldIsFinite, FS_Subset
  <2>3. Cardinality(shielded') \in Nat
    BY <2>2, FS_CardinalityType
  <2>4. Cardinality(shielded') <= MaxShielded
    BY <2>2, <2>3, ShieldIsFinite
  <2>5. shielded' \subseteq DOMAIN records'
    BY <1>2, ShieldIsFinite
  <2> QED
    BY <2>4, <2>5 DEF ShieldIsOfClips, InTable
<1>8. \A d \in Archive \ ({c} \cup gone) : SameTo(d, records, records', shielded, shielded')
  BY <1>2, <1>5 DEF SameTo
<1>9. engine' = engine /\ SessionHolds(session', records', shielded', engine')
  <2>1. {c} \cup gone \in SUBSET Archive
    BY <1>5
  <2> QED
    BY <1>2, <1>8, <2>1, WroteStep
<1> QED
  BY <1>6, <1>7, <1>9 DEF QInv

\* Rows are edited, and those outside S only in what no search sees.
LEMMA EditStep ==
  ASSUME QInv, NEW S \in SUBSET Archive, Wrote(S), shielded' = shielded, lastSeqNo' = lastSeqNo,
         DOMAIN records' = DOMAIN records,
         \A c \in DOMAIN records : /\ records'[c] \in StoredRows /\ IsPrivate(records'[c])
                                   /\ records'[c].seq = records[c].seq,
         \A c \in Archive \ S : SameTo(c, records, records', shielded, shielded')
  PROVE QInv'
<1>1. IsRecords(records', lastSeqNo')
  <2> DEFINE recs2 == records'
  <2>1. IsRecords(records, lastSeqNo)
    BY DEF QInv
  <2>2. DOMAIN recs2 = DOMAIN records
        /\ \A c \in DOMAIN records : recs2[c] \in StoredRows /\ IsPrivate(recs2[c]) /\ recs2[c].seq = records[c].seq
    OBVIOUS
  <2> HIDE DEF recs2
  <2>3. IsRecords(recs2, lastSeqNo)
    BY <2>1, <2>2, RowsEdited
  <2> QED
    BY <2>3 DEF recs2
<1>2. ShieldIsOfClips'
  BY DEF QInv, ShieldIsOfClips, InTable
<1>3. engine' = engine /\ SessionHolds(session', records', shielded', engine')
  BY WroteStep
<1> QED
  BY <1>1, <1>2, <1>3 DEF QInv

\* toggle_pin, set_archived, expiry and clawback_sensitive.
LEMMA RowStep ==
  ASSUME QInv, NEW c \in InTable, PinClip(c) \/ ArchiveClip(c) \/ Lapse(c) \/ Clawback(c)
  PROVE QInv'
<1> DEFINE old == records[c]
           new == records'[c]
<1>1. old \in StoredRows /\ IsPrivate(old)
  BY DEF QInv, IsRecords, InTable
<1>2. PICK row : /\ records' = [records EXCEPT ![c] = row]
                 /\ \/ row = [old EXCEPT !.pinned = 1 - @]
                    \/ row = [old EXCEPT !.archived = ~@]
                    \/ row = [old EXCEPT !.lapsed = TRUE]
                    \/ row = [old EXCEPT !.sensitive = TRUE, !.ai = FALSE, !.printed = FALSE,
                                         !.embedded = FALSE]
  BY DEF PinClip, ArchiveClip, Lapse, Clawback, Edited, RowOf, Scrubbed
<1>3. Wrote({c}) /\ shielded' = shielded /\ lastSeqNo' = lastSeqNo
  BY DEF PinClip, ArchiveClip, Lapse, Clawback
<1> HIDE DEF old
<1>4. row \in StoredRows /\ IsPrivate(row) /\ row.seq = old.seq
  <2>1. CASE row = [old EXCEPT !.pinned = 1 - @]
    <3>1. old.pinned \in {0, 1} /\ 1 - old.pinned \in {0, 1}
      BY <1>1 DEF StoredRows
    <3> QED
      BY <1>1, <2>1, <3>1 DEF StoredRows, IsPrivate
  <2>2. CASE row = [old EXCEPT !.archived = ~@]
    BY <1>1, <2>2 DEF StoredRows, IsPrivate
  <2>3. CASE row = [old EXCEPT !.lapsed = TRUE]
    BY <1>1, <2>3 DEF StoredRows, IsPrivate
  <2>4. CASE row = [old EXCEPT !.sensitive = TRUE, !.ai = FALSE, !.printed = FALSE,
                               !.embedded = FALSE]
    BY <1>1, <2>4 DEF StoredRows, IsPrivate
  <2> QED
    BY <1>2, <2>1, <2>2, <2>3, <2>4
<1>5. \A d \in DOMAIN records : records[d] \in StoredRows /\ IsPrivate(records[d])
  BY DEF QInv, IsRecords
<1>6. /\ DOMAIN records' = DOMAIN records
      /\ \A d \in DOMAIN records : records'[d] = IF d = c THEN row ELSE records[d]
  BY <1>2 DEF InTable
<1>7. \A d \in DOMAIN records : /\ records'[d] \in StoredRows /\ IsPrivate(records'[d])
                                /\ records'[d].seq = records[d].seq
  BY <1>4, <1>5, <1>6 DEF old
<1>8. \A d \in Archive \ {c} : SameTo(d, records, records', shielded, shielded')
  BY <1>3, <1>6 DEF SameTo
<1>9. {c} \in SUBSET Archive
  BY DEF QInv, IsRecords, InTable
<1> QED
  BY <1>3, <1>6, <1>7, <1>8, <1>9, EditStep

LEMMA DeleteStep == ASSUME QInv, NEW c \in InTable, DeleteClip(c) PROVE QInv'
<1>1. /\ records' = [d \in DOMAIN records \ {c} |-> records[d]] /\ shielded' = shielded \ {c}
      /\ Wrote({c}) /\ lastSeqNo' = lastSeqNo
  BY DEF DeleteClip, Without, InTable
<1>2. IsRecords(records', lastSeqNo')
  <2> DEFINE recs2 == [d \in DOMAIN records \ {c} |-> records[d]]
  <2>1. IsRecords(recs2, lastSeqNo)
    BY RowsRemoved DEF QInv
  <2> HIDE DEF recs2
  <2> QED
    BY <1>1, <2>1 DEF recs2
<1>3. ShieldIsOfClips'
  <2>1. shielded' \in SUBSET shielded
    BY <1>1
  <2>2. IsFiniteSet(shielded') /\ Cardinality(shielded') <= Cardinality(shielded)
    BY <2>1, ShieldIsFinite, FS_Subset
  <2>3. Cardinality(shielded') \in Nat
    BY <2>2, FS_CardinalityType
  <2>4. Cardinality(shielded') <= MaxShielded
    BY <2>2, <2>3, ShieldIsFinite
  <2>5. shielded' \subseteq DOMAIN records'
    BY <1>1, ShieldIsFinite DEF InTable
  <2> QED
    BY <2>4, <2>5 DEF ShieldIsOfClips, InTable
<1>4. {c} \in SUBSET Archive
  BY DEF QInv, IsRecords, InTable
<1>5. \A d \in Archive \ {c} : SameTo(d, records, records', shielded, shielded')
  BY <1>1 DEF SameTo
<1>6. engine' = engine /\ SessionHolds(session', records', shielded', engine')
  BY <1>1, <1>4, <1>5, WroteStep
<1> QED
  BY <1>2, <1>3, <1>6 DEF QInv

\* set_session_protected
LEMMA ShieldStep ==
  ASSUME QInv, NEW c \in Archive, NEW protected \in BOOLEAN, SetShielded(c, protected) PROVE QInv'
<1>1. Wrote({c}) /\ records' = records /\ lastSeqNo' = lastSeqNo
  BY DEF SetShielded
<1>2. IsRecords(records', lastSeqNo')
  BY <1>1 DEF QInv
<1>3. ShieldIsOfClips'
  <2>1. CASE protected
    <3>1. /\ c \in InTable /\ shielded' = shielded \cup {c}
          /\ c \in shielded \/ Cardinality(shielded) < MaxShielded
      BY <2>1 DEF SetShielded
    <3>2. Cardinality(shielded') = IF c \in shielded THEN Cardinality(shielded)
                                                     ELSE Cardinality(shielded) + 1
      BY <3>1, ShieldIsFinite, FS_AddElement
    <3>3. Cardinality(shielded') <= MaxShielded
      BY <3>1, <3>2, ShieldIsFinite
    <3>4. shielded' \subseteq DOMAIN records'
      BY <1>1, <3>1, ShieldIsFinite DEF InTable
    <3> QED
      BY <3>3, <3>4 DEF ShieldIsOfClips, InTable
  <2>2. CASE ~protected
    <3>1. shielded' = shielded \ {c} /\ shielded' \in SUBSET shielded
      BY <2>2 DEF SetShielded
    <3>2. IsFiniteSet(shielded') /\ Cardinality(shielded') <= Cardinality(shielded)
      BY <3>1, ShieldIsFinite, FS_Subset
    <3>3. Cardinality(shielded') \in Nat
      BY <3>2, FS_CardinalityType
    <3>4. Cardinality(shielded') <= MaxShielded /\ shielded' \subseteq DOMAIN records'
      BY <1>1, <3>1, <3>2, <3>3, ShieldIsFinite DEF InTable
    <3> QED
      BY <3>4 DEF ShieldIsOfClips, InTable
  <2> QED
    BY <2>1, <2>2
<1>4. \A d \in Archive \ {c} : SameTo(d, records, records', shielded, shielded')
  BY <1>1 DEF SameTo, SetShielded
<1>5. engine' = engine /\ SessionHolds(session', records', shielded', engine')
  <2>1. {c} \in SUBSET Archive
    OBVIOUS
  <2> QED
    BY <1>1, <1>4, <2>1, WroteStep
<1> QED
  BY <1>2, <1>3, <1>5 DEF QInv

\* backfill_fingerprints and backfill_normalized_fingerprints.
LEMMA BackfillStep == ASSUME QInv, Backfill PROVE QInv'
<1>1. PICK batch \in SUBSET Unprinted : records' = [c \in InTable |-> Printed(c, batch)]
  BY DEF Backfill, kSubset
<1>2. Wrote({}) /\ shielded' = shielded /\ lastSeqNo' = lastSeqNo
  BY DEF Backfill
<1>3. \A c \in DOMAIN records : records[c] \in StoredRows /\ IsPrivate(records[c])
  BY DEF QInv, IsRecords
<1>4. \A c \in batch : c \in DOMAIN records /\ ~records[c].sensitive
  BY DEF Unprinted, InTable, RowOf
<1>5. ASSUME NEW c \in DOMAIN records
      PROVE /\ records'[c] = [records[c] EXCEPT !.printed = records[c].printed \/ c \in batch]
            /\ records'[c] \in StoredRows /\ IsPrivate(records'[c])
  <2> DEFINE old == records[c]
             on == old.printed \/ c \in batch
  <2>1. records'[c] = [old EXCEPT !.printed = on]
    BY <1>1 DEF Printed, RowOf, InTable
  <2>2. old \in StoredRows /\ IsPrivate(old) /\ (c \in batch => ~old.sensitive)
    BY <1>3, <1>4
  <2>3. on \in BOOLEAN /\ (old.sensitive => ~on)
    BY <2>2 DEF IsPrivate
  <2>4. records'[c] = [records[c] EXCEPT !.printed = records[c].printed \/ c \in batch]
    BY <2>1
  <2> DEFINE new == records'[c]
  <2>5. new = [old EXCEPT !.printed = on]
    BY <2>1
  <2> HIDE DEF old, on, new
  <2>6. new \in StoredRows /\ IsPrivate(new)
    BY ONLY <2>2, <2>3, <2>5 DEF StoredRows, IsPrivate
  <2> QED
    BY <2>4, <2>6 DEF new
<1>6. DOMAIN records' = DOMAIN records
  BY <1>1 DEF InTable
<1>7. \A c \in DOMAIN records :
        /\ records'[c].pinned = records[c].pinned /\ records'[c].at = records[c].at
        /\ records'[c].seq = records[c].seq /\ records'[c].sensitive = records[c].sensitive
        /\ records'[c].archived = records[c].archived /\ records'[c].lapsed = records[c].lapsed
  BY <1>3, <1>5 DEF StoredRows
<1>8. \A c : SameTo(c, records, records', shielded, shielded')
  BY <1>2, <1>6, <1>7 DEF SameTo
<1> QED
  BY <1>2, <1>5, <1>6, <1>7, <1>8, EditStep

\* query_store's backfill of the vectors.
LEMMA VectorStep == ASSUME QInv, BackfillEmbeddings(1) PROVE QInv'
<1> DEFINE missing == {c \in InTable : /\ RowOf(c).ai /\ ~RowOf(c).embedded
                                       /\ ~RowOf(c).sensitive /\ ~RowOf(c).lapsed}
           batch == ToSet(FirstOf(AskFactor * 1, ByTime(missing)))
<1>1. records' = [c \in InTable |-> [records[c] EXCEPT !.embedded = records[c].embedded \/ c \in batch]]
  BY DEF BackfillEmbeddings
<1>2. Wrote({}) /\ shielded' = shielded /\ lastSeqNo' = lastSeqNo
  BY DEF BackfillEmbeddings
<1>3. \A c \in DOMAIN records : records[c] \in StoredRows /\ IsPrivate(records[c])
  BY DEF QInv, IsRecords
<1>4. \A c \in batch : c \in missing
  <2> DEFINE n == Cardinality(missing)
             A == ByTime(missing)
             k == AskFactor * 1
  <2>1. missing \in SUBSET InTable /\ IsRecords(records, lastSeqNo)
    BY DEF QInv
  <2> HIDE DEF missing
  <2>2. n \in Nat /\ A \in [1..n -> missing]
    BY <2>1, ListedIs
  <2>3. k \in Nat
    BY QueriesAssumption
  <2> DEFINE p == FirstOf(k, A)
  <2>4. batch = ToSet(p)
    OBVIOUS
  <2> HIDE DEF n, A, k, batch
  <2>5. p \in Seq(missing)
    BY ONLY <2>2, <2>3, FirstIs
  <2> HIDE DEF p
  <2> QED
    BY ONLY <2>4, <2>5 DEF ToSet
<1>5. \A c \in batch : c \in DOMAIN records /\ ~records[c].sensitive /\ records[c].ai
  BY <1>4 DEF InTable, RowOf
<1> HIDE DEF batch, missing
<1>6. ASSUME NEW c \in DOMAIN records
      PROVE /\ records'[c] = [records[c] EXCEPT !.embedded = records[c].embedded \/ c \in batch]
            /\ records'[c] \in StoredRows /\ IsPrivate(records'[c])
  <2> DEFINE old == records[c]
             on == old.embedded \/ c \in batch
             new == records'[c]
  <2>1. new = [old EXCEPT !.embedded = on]
    BY <1>1 DEF InTable
  <2>2. old \in StoredRows /\ IsPrivate(old) /\ (c \in batch => ~old.sensitive /\ old.ai)
    BY <1>3, <1>5
  <2>3. on \in BOOLEAN /\ (on => ~old.sensitive /\ old.ai)
    BY <2>2 DEF IsPrivate
  <2>4. new = [records[c] EXCEPT !.embedded = records[c].embedded \/ c \in batch]
    BY <2>1
  <2> HIDE DEF old, on, new
  <2>5. new \in StoredRows /\ IsPrivate(new)
    BY ONLY <2>1, <2>2, <2>3 DEF StoredRows, IsPrivate
  <2> QED
    BY <2>4, <2>5 DEF new
<1>7. DOMAIN records' = DOMAIN records
  BY <1>1 DEF InTable
<1>8. \A c \in DOMAIN records :
        /\ records'[c].pinned = records[c].pinned /\ records'[c].at = records[c].at
        /\ records'[c].seq = records[c].seq /\ records'[c].sensitive = records[c].sensitive
        /\ records'[c].archived = records[c].archived /\ records'[c].lapsed = records[c].lapsed
  BY <1>3, <1>6 DEF StoredRows
<1>9. \A c : SameTo(c, records, records', shielded, shielded')
  BY <1>2, <1>7, <1>8 DEF SameTo
<1> QED
  BY <1>2, <1>6, <1>7, <1>8, <1>9, EditStep

\* The store is opened again.
LEMMA RestartStep == ASSUME QInv, RestartStore PROVE QInv'
<1>1. PICK batch \in SUBSET Unprinted :
        records' = [c \in InTable |-> IF RowOf(c).sensitive THEN Scrubbed(RowOf(c)) ELSE Printed(c, batch)]
  BY DEF RestartStore, kSubset
<1>2. shielded' = {} /\ session' = NoSession /\ lastSeqNo' = lastSeqNo /\ engine' = engine
  BY DEF RestartStore
<1>3. \A c \in DOMAIN records : records[c] \in StoredRows /\ IsPrivate(records[c])
  BY DEF QInv, IsRecords
<1>4. DOMAIN records' = DOMAIN records
  BY <1>1 DEF InTable
<1>5. ASSUME NEW c \in DOMAIN records
      PROVE /\ records'[c] \in StoredRows /\ IsPrivate(records'[c])
            /\ records'[c].seq = records[c].seq
  <2> DEFINE old == records[c]
             new == records'[c]
             on == old.printed \/ c \in batch
  <2>1. old \in StoredRows /\ IsPrivate(old) /\ on \in BOOLEAN
    BY <1>3
  <2>2. new = IF old.sensitive
              THEN [old EXCEPT !.sensitive = TRUE, !.ai = FALSE, !.printed = FALSE, !.embedded = FALSE]
              ELSE [old EXCEPT !.printed = on]
    BY <1>1 DEF Scrubbed, Printed, RowOf, InTable
  <2> HIDE DEF old, new, on
  <2>3. CASE old.sensitive
    <3>1. new = [old EXCEPT !.sensitive = TRUE, !.ai = FALSE, !.printed = FALSE, !.embedded = FALSE]
      BY <2>2, <2>3
    <3>2. new \in StoredRows /\ IsPrivate(new) /\ new.seq = old.seq
      BY ONLY <2>1, <3>1 DEF StoredRows, IsPrivate
    <3> QED
      BY <3>2 DEF new, old
  <2>4. CASE ~old.sensitive
    <3>1. new = [old EXCEPT !.printed = on]
      BY <2>2, <2>4
    <3>2. new \in StoredRows /\ IsPrivate(new) /\ new.seq = old.seq
      BY ONLY <2>1, <2>4, <3>1 DEF StoredRows, IsPrivate
    <3> QED
      BY <3>2 DEF new, old
  <2> QED
    BY <2>3, <2>4
<1>6. IsRecords(records', lastSeqNo')
  <2> DEFINE recs2 == records'
  <2>1. IsRecords(records, lastSeqNo)
    BY DEF QInv
  <2>2. DOMAIN recs2 = DOMAIN records
        /\ \A c \in DOMAIN records : recs2[c] \in StoredRows /\ IsPrivate(recs2[c]) /\ recs2[c].seq = records[c].seq
    BY <1>4, <1>5
  <2> HIDE DEF recs2
  <2>3. IsRecords(recs2, lastSeqNo)
    BY <2>1, <2>2, RowsEdited
  <2> QED
    BY <1>2, <2>3 DEF recs2
<1>7. ShieldIsOfClips'
  BY <1>2, FS_EmptySet, QueriesAssumption DEF ShieldIsOfClips
<1>8. SessionHolds(session', records', shielded', engine')
  BY <1>2, RestHolds
<1> QED
  BY <1>2, <1>6, <1>7, <1>8 DEF QInv

-----------------------------------------------------------------------------
(* StoreQueries: clips near a fingerprint *)

\* What weighs at least one each weighs at least as many as there are.
LEMMA WeightCounts ==
  ASSUME NEW D, IsFiniteSet(D), NEW w \in [D -> Nat], \A x \in D : w[x] >= 1
  PROVE WeightOf(w, D) \in Nat /\ WeightOf(w, D) >= Cardinality(D)
<1> DEFINE T == {n \in Nat : \A s \in SUBSET D : Cardinality(s) = n => WeightOf(w, s) >= n}
<1>1. /\ WeightOf(w, {}) = 0
      /\ \A s \in SUBSET D : WeightOf(w, s) \in Nat
      /\ \A s \in SUBSET D : \A x \in D \ s : WeightOf(w, s \cup {x}) = WeightOf(w, s) + w[x]
  BY WeightAdd
<1>2. \A s \in SUBSET D : IsFiniteSet(s) /\ Cardinality(s) \in Nat
  BY FS_Subset, FS_CardinalityType
<1>3. 0 \in T
  BY <1>1
<1>4. ASSUME NEW n \in Nat, n > 0, n - 1 \in T PROVE n \in T
  <2>1. ASSUME NEW s \in SUBSET D, Cardinality(s) = n PROVE WeightOf(w, s) >= n
    <3>1. s # {}
      BY <1>4, <2>1, FS_EmptySet
    <3>2. PICK x \in s : TRUE
      BY <3>1
    <3> DEFINE rest == s \ {x}
    <3>3. rest \in SUBSET D /\ x \in D \ rest /\ s = rest \cup {x}
      BY <3>2
    <3>4. Cardinality(rest) = n - 1
      BY <1>2, <2>1, <3>2, FS_RemoveElement
    <3> HIDE DEF rest
    <3>5. WeightOf(w, rest) >= n - 1 /\ WeightOf(w, rest) \in Nat
      BY <1>1, <1>4, <3>3, <3>4
    <3>6. WeightOf(w, s) = WeightOf(w, rest) + w[x] /\ w[x] \in Nat /\ w[x] >= 1
      BY <1>1, <3>3
    <3> QED
      BY <3>5, <3>6
  <2> QED
    BY <2>1
<1> HIDE DEF T
<1>5. Cardinality(D) \in T
  <2>1. Cardinality(D) \in Nat
    BY FS_CardinalityType
  <2>2. \A i \in 1..Cardinality(D) : i - 1 \in T => i \in T
    BY <1>4, <2>1
  <2>3. \A i \in 0..Cardinality(D) : i \in T
    BY ONLY <1>3, <2>1, <2>2, UpToAll
  <2> QED
    BY <2>1, <2>3
<1> QED
  BY <1>1, <1>5 DEF T

\* Four bands that all differ are four bits at least: whoever is nearer shares one.
LEMMA NearShareBands ==
  ASSUME NEW c \in Archive, NEW d \in Archive, ~SharesBand(Bits[c], Bits[d])
  PROVE Distance(Bits[c], Bits[d]) \in Nat /\ Distance(Bits[c], Bits[d]) >= 4
<1> DEFINE x == Bits[c]
           y == Bits[d]
           B == DOMAIN x
           w == BitsApart(x, y)
<1>1. /\ IsFiniteSet(B) /\ Cardinality(B) = 4 /\ DOMAIN y = B
      /\ \A b \in B : IsFiniteSet(x[b]) /\ IsFiniteSet(y[b])
  BY QueriesAssumption
<1>2. ASSUME NEW b \in B PROVE w[b] \in Nat /\ w[b] >= 1
  <2> DEFINE both == x[b] \cup y[b]
             apart == both \ (x[b] \cap y[b])
  <2>1. w[b] = Cardinality(apart)
    BY DEF BitsApart
  <2>2. x[b] # y[b]
    BY DEF SharesBand
  <2>3. apart # {}
    BY <2>2
  <2>4. IsFiniteSet(both)
    BY <1>1, FS_Union
  <2>5. apart \in SUBSET both
    OBVIOUS
  <2> HIDE DEF both, apart, w
  <2>6. IsFiniteSet(apart)
    BY <2>4, <2>5, FS_Subset
  <2>7. Cardinality(apart) \in Nat /\ Cardinality(apart) # 0
    BY <2>3, <2>6, FS_CardinalityType, FS_EmptySet
  <2> QED
    BY <2>1, <2>7
<1>3. w = [b \in B |-> Cardinality((x[b] \cup y[b]) \ (x[b] \cap y[b]))]
  BY DEF BitsApart
<1>4. Distance(x, y) = WeightOf(w, B)
  BY DEF Distance, WeightOf
<1> HIDE DEF x, y, B, w
<1>5. w \in [B -> Nat] /\ \A b \in B : w[b] >= 1
  BY <1>2, <1>3
<1>6. WeightOf(w, B) \in Nat /\ WeightOf(w, B) >= Cardinality(B)
  BY <1>1, <1>5, WeightCounts
<1> QED
  BY <1>1, <1>4, <1>6 DEF x, y

LEMMA NearAreFound == QInv => NearIsComplete
<1> SUFFICES ASSUME QInv, NEW d \in Archive, NEW distance \in Distances
             PROVE FindNear(Bits[d], distance, 2) =
                   FirstOf(2, ByTime({c \in PlainRows :
                     RowOf(c).printed /\ Distance(Bits[d], Bits[c]) <= distance}))
  BY DEF NearIsComplete
<1> DEFINE x == Bits[d]
           near == {c \in PlainRows : RowOf(c).printed /\ Distance(x, Bits[c]) <= distance}
           scanned == {c \in PlainRows : /\ RowOf(c).printed
                                         /\ Prefiltered(distance) => SharesBand(x, Bits[c])}
           found == {c \in scanned : Distance(x, Bits[c]) <= distance}
<1>1. distance \in Nat
  BY QueriesAssumption
<1>2. \A c \in PlainRows : c \in Archive
  BY DEF QInv, IsRecords, PlainRows, ActiveRows, InTable
<1>3. ASSUME NEW c \in near PROVE Prefiltered(distance) => SharesBand(x, Bits[c])
  <2>1. SUFFICES ASSUME distance < 4, ~SharesBand(x, Bits[c]) PROVE FALSE
    BY DEF Prefiltered
  <2>2. c \in Archive /\ Distance(x, Bits[c]) <= distance
    BY <1>2
  <2>3. Distance(x, Bits[c]) \in Nat /\ Distance(x, Bits[c]) >= 4
    BY <2>1, <2>2, NearShareBands
  <2> QED
    BY <1>1, <2>1, <2>2, <2>3
<1>4. found = near
  BY <1>3
<1>5. FindNear(x, distance, 2) = FirstOf(2, ByTime(found))
  BY DEF FindNear
<1> HIDE DEF found, near
<1> QED
  BY <1>4, <1>5 DEF near

\* What is first of some of the table is of them.
LEMMA FirstOfThem ==
  ASSUME QInv, NEW S \in SUBSET InTable, NEW k \in Nat
  PROVE /\ ToSet(FirstOf(k, InOrder(S))) \subseteq S /\ ToSet(FirstOf(k, ByTime(S))) \subseteq S
        /\ (FirstOf(k, InOrder(S)) # <<>> => S # {})
<1> DEFINE n == Cardinality(S)
           A == InOrder(S)
           B == ByTime(S)
<1>1. n \in Nat /\ A \in [1..n -> S] /\ B \in [1..n -> S]
  BY ListedIs DEF QInv
<1> HIDE DEF n, A, B
<1> DEFINE p == FirstOf(k, A)
           q == FirstOf(k, B)
<1>2. p \in Seq(S)
  BY ONLY <1>1, k \in Nat, FirstIs
<1>3. q \in Seq(S)
  BY ONLY <1>1, k \in Nat, FirstIs
<1> HIDE DEF p, q
<1>4. ToSet(p) \subseteq S /\ ToSet(q) \subseteq S
  BY ONLY <1>2, <1>3 DEF ToSet
<1>5. p # <<>> => S # {}
  BY <1>2
<1> QED
  BY <1>4, <1>5 DEF p, q, A, B

LEMMA GroupsArePlain == QInv => SecretsStandAlone
<1> SUFFICES ASSUME QInv, NEW c \in Archive
             PROVE /\ \A d \in ToSet(NearDuplicateGroup(c, Cardinality(Archive))) : ~RowOf(d).sensitive
                   /\ c \in InTable /\ RowOf(c).sensitive =>
                        ToSet(NearDuplicateGroup(c, Cardinality(Archive))) = {}
  BY DEF SecretsStandAlone
<1> DEFINE k == Cardinality(Archive)
           same == {d \in PlainRows : RowOf(d).printed /\ SameText[d] = SameText[c]}
           group == NearDuplicateGroup(c, k)
<1>1. k \in Nat
  BY ArchiveIsFinite, FS_CardinalityType
<1>2. same \in SUBSET InTable /\ \A d \in same : ~RowOf(d).sensitive
  BY DEF PlainRows, ActiveRows
<1>3. group = IF c \in InTable /\ RowOf(c).printed THEN FirstOf(k, ByTime(same)) ELSE <<>>
  BY DEF NearDuplicateGroup
<1>4. c \in InTable /\ RowOf(c).sensitive => ~RowOf(c).printed
  BY DEF QInv, IsRecords, IsPrivate, InTable, RowOf
<1>5. ToSet(<<>>) = {}
  BY DEF ToSet
<1> HIDE DEF k, same, group
<1>6. ToSet(FirstOf(k, ByTime(same))) \subseteq same
  BY <1>1, <1>2, FirstOfThem
<1> QED
  BY <1>2, <1>3, <1>4, <1>5, <1>6 DEF group, k

LEMMA RankedAreAllowed == QInv => OnlyAllowedIsRanked
<1> SUFFICES ASSUME QInv PROVE OnlyAllowedIsRanked
  OBVIOUS
<1>1. \A c \in InTable : RowOf(c).embedded => RowOf(c).ai /\ ~RowOf(c).sensitive
  <2>1. ASSUME NEW c \in InTable PROVE IsPrivate(records[c]) /\ records[c] \in StoredRows
    BY DEF QInv, IsRecords, InTable
  <2> QED
    BY <2>1 DEF IsPrivate, RowOf
<1>2. ASSUME NEW c \in Rankable(1) PROVE c \in ActiveRows \/ c \in shielded
  <2> DEFINE k == AskFactor * 1
             found == FirstOf(k, InOrder(Matching))
             others == FirstOf(k, InOrder(ActiveRows))
  <2>1. k \in Nat
    BY QueriesAssumption
  <2>2. Matching \in SUBSET InTable /\ ActiveRows \in SUBSET InTable
    BY DEF Matching, Found, ActiveRows
  <2>3. c \in ToSet(IF found # <<>> THEN found ELSE others)
    BY <1>2 DEF Rankable, Candidates
  <2> HIDE DEF k
  <2>4. ToSet(found) \subseteq Matching /\ ToSet(others) \subseteq ActiveRows
    BY <2>1, <2>2, FirstOfThem
  <2> HIDE DEF found, others
  <2>5. c \in Matching \/ c \in ActiveRows
    BY <2>3, <2>4
  <2> QED
    BY <2>5 DEF Matching, Found, ActiveRows
<1> QED
  BY <1>1, <1>2 DEF OnlyAllowedIsRanked

LEMMA SessionsAreWhole == QInv => PagesAreWhole
<1> SUFFICES ASSUME QInv PROVE PagesAreWhole
  OBVIOUS
<1> DEFINE given == session.given
<1>1. SessionHolds(session, records, shielded, engine) /\ IsRecords(records, lastSeqNo)
  BY DEF QInv
<1>2. ASSUME NEW i \in DOMAIN given, NEW j \in DOMAIN given,
             i < j, {given[i], given[j]} \subseteq Untouched
      PROVE Behind(Rank(given[j]), Rank(given[i]))
  <2>1. given[i] \notin session.touched /\ given[j] \notin session.touched
    BY <1>2 DEF Untouched
  <2>2. Behind(RankIn(records, given[j]), RankIn(records, given[i]))
    BY <1>1, <1>2, <2>1 DEF SessionHolds
  <2> QED
    BY <2>2 DEF Rank, RowOf, RankIn
<1>3. session.reads = "ended" => session.owed \cap Untouched \subseteq ToSet(given)
  BY <1>1 DEF SessionHolds, Untouched, ToSet
<1> QED
  BY <1>2, <1>3 DEF PagesAreWhole

LEMMA AnswersKeep == QInv => QueriesSafety
BY SessionsAreWhole, NearAreFound, GroupsArePlain, RankedAreAllowed DEF QInv, QueriesSafety

LEMMA QueriesStart == QueriesInit => QInv
<1> SUFFICES ASSUME QueriesInit PROVE QInv
  OBVIOUS
<1> DEFINE place == [c \in Archive |-> CHOOSE i \in DOMAIN Shelf : Shelf[i] = c]
           moment == Min(Moments)
<1>1. Shelf \in Seq(Archive) /\ Archive = ToSet(Shelf) /\ Cardinality(Archive) = Len(Shelf)
  BY QueriesAssumption DEF Archive
<1>2. DOMAIN Shelf = 1..Len(Shelf) /\ Len(Shelf) \in Nat
  BY <1>1
<1>3. ASSUME NEW c \in Archive PROVE place[c] \in 1..Len(Shelf) /\ Shelf[place[c]] = c
  <2>1. \E i \in DOMAIN Shelf : Shelf[i] = c
    BY <1>1 DEF ToSet
  <2> QED
    BY <1>2, <2>1
<1>4. moment \in Nat
  BY QueriesAssumption, MinOfNumbers
<1>5. PICK legacy \in Archive :
        records = [c \in Archive |->
                     [Record(moment, place[c], FALSE, TRUE) EXCEPT
                        !.printed = c # legacy, !.embedded = c # legacy]]
  BY DEF QueriesInit
<1>6. /\ engine \in {"duckdb", "sqlite"} /\ lastSeqNo = Len(Shelf) /\ shielded = {}
      /\ session = NoSession
  BY <1>1 DEF QueriesInit
<1> HIDE DEF place, moment
<1>7. ASSUME NEW c \in Archive
      PROVE /\ records[c] \in StoredRows /\ IsPrivate(records[c])
            /\ records[c].seq = place[c]
  <2> DEFINE old == Record(moment, place[c], FALSE, TRUE)
             new == records[c]
             on == c # legacy
             seq == place[c]
  <2>1. new = [old EXCEPT !.printed = on, !.embedded = on]
    BY <1>5
  <2>2. seq \in Nat
    BY <1>2, <1>3
  <2>3. old = [pinned |-> 0, at |-> moment, seq |-> seq, sensitive |-> FALSE, archived |-> FALSE,
               lapsed |-> FALSE, ai |-> TRUE, printed |-> TRUE, embedded |-> TRUE]
    BY DEF Record
  <2>4. on \in BOOLEAN
    OBVIOUS
  <2> HIDE DEF old, new, on, seq
  <2>5. new \in StoredRows /\ IsPrivate(new) /\ new.seq = seq
    BY ONLY <1>4, <2>1, <2>2, <2>3, <2>4 DEF StoredRows, IsPrivate
  <2> QED
    BY <2>5 DEF new, seq
<1>8. DOMAIN records = Archive
  BY <1>5
<1>9. IsRecords(records, lastSeqNo)
  <2>1. \A c, d \in Archive : records[c].seq = records[d].seq => c = d
    BY <1>3, <1>7
  <2>2. \A c \in Archive : records[c].seq <= lastSeqNo
    BY <1>2, <1>3, <1>6, <1>7
  <2> QED
    BY <1>2, <1>6, <1>7, <1>8, <2>1, <2>2 DEF IsRecords
<1>10. ShieldIsOfClips
  BY <1>6, FS_EmptySet, QueriesAssumption DEF ShieldIsOfClips
<1>11. SessionHolds(session, records, shielded, engine)
  BY <1>6, RestHolds
<1> QED
  BY <1>6, <1>9, <1>10, <1>11 DEF QInv

LEMMA QueriesStep == QInv /\ [QueriesNext]_queryVars => QInv'
<1> SUFFICES ASSUME QInv, [QueriesNext]_queryVars PROVE QInv'
  OBVIOUS
<1>1. CASE UNCHANGED queryVars
  BY <1>1 DEF queryVars, QInv, IsRecords, ShieldIsOfClips, InTable, SessionHolds
<1>2. CASE BeginSearch
  <2>1. UNCHANGED <<engine, records, lastSeqNo, shielded>>
    BY <1>2 DEF BeginSearch
  <2>2. SessionHolds(session', records, shielded, engine)
    BY <1>2, BeginStep
  <2> QED
    BY <2>1, <2>2 DEF QInv, ShieldIsOfClips, InTable
<1>3. CASE NextPage
  <2>1. UNCHANGED <<engine, records, lastSeqNo, shielded>>
    BY <1>3 DEF NextPage
  <2>2. SessionHolds(session', records, shielded, engine)
    BY <1>3, PageStep
  <2> QED
    BY <2>1, <2>2 DEF QInv, ShieldIsOfClips, InTable
<1>4. ASSUME NEW c \in Archive, WriteOf(c) PROVE QInv'
  <2>1. CASE \E at \in Moments, secret, ai \in BOOLEAN : InsertClip(c, at, secret, ai)
    BY <2>1, CopyStep
  <2>2. CASE c \in InTable /\ (PinClip(c) \/ ArchiveClip(c) \/ Lapse(c) \/ Clawback(c))
    BY <2>2, RowStep
  <2>3. CASE c \in InTable /\ DeleteClip(c)
    BY <2>3, DeleteStep
  <2>4. CASE \E protected \in BOOLEAN : SetShielded(c, protected)
    BY <2>4, ShieldStep
  <2> QED
    BY <1>4, <2>1, <2>2, <2>3, <2>4 DEF WriteOf
<1> QED
  BY <1>1, <1>2, <1>3, <1>4, BackfillStep, VectorStep, RestartStep DEF QueriesNext

-----------------------------------------------------------------------------
(***************************************************************************)
(* MCUserSide: the parts share no state, so each keeps its invariant in the   *)
(* behaviours of every other.                                                 *)
(***************************************************************************)

UserInv ==
    /\ GateInv /\ UpdInv /\ PopInv /\ QueueInv /\ SetInv
    /\ part = "search" => ScanInv
    /\ part = "answers" => QInv
    /\ TypedInv

\* The read of the behaviours that judge none is one the gate could be given.
LEMMA NoReadStarts == NoRead => GateInv
<1>1. [mode |-> "guard", armed |-> FALSE, detect |-> TRUE, skipBlank |-> FALSE] \in Policies
  BY DEF Policies, Modes
<1>2. [content |-> "none", secrets |-> {}, coherence |-> "unknown", selfWrite |-> FALSE,
       selection |-> "clipboard", concealment |-> "unknown", provenance |-> "unknown",
       excluded |-> FALSE, rule |-> "capture"] \in Reads
  BY DEF Reads
<1>3. (CHOOSE p \in Policies : TRUE) \in Policies /\ (CHOOSE r \in Reads : TRUE) \in Reads
  BY <1>1, <1>2
<1> HIDE DEF Policies, Reads
<1> QED
  BY <1>3 DEF NoRead, GateInv, OutcomeIsTheGates

LEMMA UserStart == UserInit => UserInv
<1> SUFFICES ASSUME UserInit PROVE UserInv
  OBVIOUS
<1>1. UpdInit /\ PopInit /\ QueueInit /\ SetInit
  BY DEF UserInit
<1>2. Init \/ NoRead
  BY DEF UserInit
<1>3. part = "search" => ScanInv
  BY ScanStart DEF UserInit
<1>4. part = "answers" => QInv
  BY QueriesStart DEF UserInit
<1>5. TypedInv
  BY TypingStarts DEF UserInit
<1> QED
  BY <1>1, <1>2, <1>3, <1>4, <1>5, GateStart, NoReadStarts, UpdStart, PopStart, QueueStart, SetStart DEF UserInv

\* Each part takes a step of its own or none.
LEMMA UserParts ==
  [UserNext]_userVars =>
    /\ [Next]_vars /\ [UpdNext]_updVars /\ [PopNext]_popVars /\ [QueueNext]_stackVars
    /\ [SetNext]_setVars
    /\ part' = part /\ (part = "search" => [ScanNext]_scanVars)
    /\ (part = "answers" => [QueriesNext]_queryVars)
    /\ [QueryNext]_typed
BY DEF UserNext, userVars, otherVars

LEMMA UserStep == UserInv /\ [UserNext]_userVars => UserInv'
BY UserParts, GateStep, UpdStep, PopStep, QueueStep, SetStep, ScanStep, QueriesStep, TypingStep DEF UserInv

\* History's lane, pins and undo slot, PasteStack, Config and UpdateVerifier:
\* what the user decided holds in whichever part he acts.
THEOREM DecisionsAreKept == UserSpec => []DecisionsHold
<1>1. UserInv => DecisionsHold
  BY UpdKeeps, QueueKeeps, SettingsKeep DEF UserInv, PopInv, DecisionsHold
<1> QED
  BY UserStart, UserStep, <1>1, PTL DEF UserSpec

\* decide, actionable_findings and run_worker, in the composed behaviours: the
\* gate fails closed and honours what the detectors find.
THEOREM GateHolds == UserSpec => []GateFailsClosed /\ []FindingsAreHonoured
<1>1. UserInv => GateFailsClosed /\ FindingsAreHonoured
  BY GateFails, GateContains, GateTightens, GateSpares DEF UserInv, FindingsAreHonoured
<1> QED
  BY UserStart, UserStep, <1>1, PTL DEF UserSpec

\* collect, recall_candidates_batch, search_recall and edit_distance_at_most_one,
\* in the composed behaviours: a search in batches of candidates counts every hit
\* of the whole history, shows the best of them, forgives one edit of a word and
\* reads nothing of what is sensitive.
THEOREM SearchesFindAll == UserSpec => [](part = "search" => SearchSafety)
<1>1. UserInv => (part = "search" => SearchSafety)
  BY ScanFindsAll, ScanForgives, ScanKeepsSecrets DEF UserInv, SearchSafety
<1> QED
  BY UserStart, UserStep, <1>1, PTL DEF UserSpec

\* search_page, find_near_fingerprint, near_duplicate_group and
\* local_similarity_search, in the composed behaviours: who pages to the end of a
\* search is given every clip that nobody wrote to meanwhile, once and in order; the
\* bands miss no clip that is near; and no secret is compared or ranked.
THEOREM AnswersAreWhole == UserSpec => [](part = "answers" => QueriesSafety)
<1>1. UserInv => (part = "answers" => QueriesSafety)
  BY AnswersKeep DEF UserInv
<1> QED
  BY UserStart, UserStep, <1>1, PTL DEF UserSpec

\* parse_natural_query, parse_query, Constraint::matches and sql_predicates, and with
\* them the searches and answers above: whatever is typed, the grammar that is to
\* replace the two live parsers reads what each of them reads, loses no clip that the
\* live one finds, is free of spelling and of the order of filters, and obeys or
\* refuses every filter.
THEOREM SearchesAreHonestAlways == UserSpec => []SearchesAreHonest
<1>1. UserInv => SearchesAreHonest
  <2>1. UserInv => (part = "search" => SearchSafety)
    BY ScanFindsAll, ScanForgives, ScanKeepsSecrets DEF UserInv, SearchSafety
  <2>2. UserInv => (part = "query" => QuerySafety)
    BY QueriesAreHonest DEF UserInv
  <2>3. UserInv => (part = "answers" => QueriesSafety)
    BY AnswersKeep DEF UserInv
  <2> QED
    BY <2>1, <2>2, <2>3 DEF SearchesAreHonest
<1> QED
  BY UserStart, UserStep, <1>1, PTL DEF UserSpec
=============================================================================
