---------------------------- MODULE SnippetMirror ----------------------------
(***************************************************************************)
(* The one-way mirror of snippets into another program                       *)
(* (vbuff-ipc/src/integration/automation/snippets.rs): a cycle plans against *)
(* the manifest of the last one, an external adapter performs some of the    *)
(* operations, and the caller saves the manifest of what was performed.      *)
(* Users edit both sides between any two steps, and the caller may stop.     *)
(***************************************************************************)
EXTENDS Naturals, FiniteSets

CONSTANTS
    SnippetKeys,
    Contents,      \* content hashes
    MaxUserEdits   \* bound: edits of the users, on both sides together

Nothing == 0    \* no record; in the manifest, no entry
Tombstone == 1    \* a tombstone; a content stands for Present with its hash

ASSUME MirrorAssumption == Contents \subseteq Nat \ {Nothing, Tombstone} /\ MaxUserEdits \in Nat

VARIABLES
    source, target,   \* [key -> content, or Nothing]
    saved,           \* what is saved: [manifest, trusted, source, target]
    plan,             \* [key -> action, or "none"]; what is left to perform
    performed,        \* the keys whose operation the adapter has performed
    phase,            \* "idle", "apply"
    sides,            \* the revisions of the two sides
    planned,          \* the records and revisions the plan was made from
    mirrored,         \* ghost: [key -> contents the mirror has put on the target]
    disturbed         \* ghost: a user has edited since the plan was made

mirrorVars == <<source, target, saved, plan, performed, phase, sides, planned, mirrored, disturbed>>

Empty == [k \in SnippetKeys |-> Nothing]
AtRestSides == [source |-> Empty, target |-> Empty, sides |-> [source |-> 0, target |-> 0]]
NoPlan == [k \in SnippetKeys |-> "none"]

\* A first run, with what either side already holds.
MirrorInit ==
    /\ source \in [SnippetKeys -> Contents \cup {Nothing}]
    /\ target \in [SnippetKeys -> Contents \cup {Nothing}]
    /\ saved = [manifest |-> Empty, trusted |-> FALSE, source |-> 0, target |-> 0]
    /\ plan = NoPlan /\ performed = {} /\ phase = "idle"
    /\ sides = [source |-> 1, target |-> 1]
    /\ planned = AtRestSides
    /\ mirrored = [k \in SnippetKeys |-> {}]
    /\ disturbed = FALSE

\* trusted_manifest: a manifest that does not match its hash is no base.
Base(k) == IF saved.trusted THEN saved.manifest[k] ELSE Nothing

\* Defective variant of Action: a target that differs is always overwritten.
ActionByForce(k) == IF source[k] = target[k] THEN "none"
                    ELSE IF source[k] # Nothing THEN "upsert" ELSE "delete"

\* plan_snippet_mirror, for one key
Action(k) ==
    LET left == source[k] right == target[k] IN
    IF left = right THEN "none"
    ELSE IF right = Nothing THEN (IF Base(k) \in Contents THEN "conflict" ELSE "upsert")
    ELSE IF left = Nothing THEN (IF Base(k) = right THEN "delete" ELSE "conflict")
    ELSE IF Base(k) = right THEN "upsert" ELSE "conflict"

\* SnippetBridgeCursor::accepts, then the plan
Plan ==
    /\ phase = "idle"
    /\ sides.source >= saved.source /\ sides.target >= saved.target
    /\ sides.source > saved.source \/ sides.target > saved.target
    /\ plan' = [k \in SnippetKeys |-> Action(k)]
    /\ phase' = "apply" /\ performed' = {}
    /\ planned' = [source |-> source, target |-> target, sides |-> sides] /\ disturbed' = FALSE
    /\ UNCHANGED <<source, target, saved, sides, mirrored>>

\* The adapter performs an operation on the records it was planned from.
Perform(k) ==
    /\ phase = "apply" /\ k \notin performed
    /\ source[k] = planned.source[k] /\ target[k] = planned.target[k]
    /\ plan[k] \in {"upsert", "delete"}
    /\ target' = [target EXCEPT ![k] = source[k]]
    /\ performed' = performed \cup {k}
    /\ mirrored' = IF plan[k] = "upsert" THEN [mirrored EXCEPT ![k] = @ \cup {source[k]}] ELSE mirrored
    /\ sides' = [sides EXCEPT !.target = @ + 1]
    /\ UNCHANGED <<source, saved, plan, phase, planned, disturbed>>

\* SnippetSyncManifest::applied, to the operations that were performed and the
\* records they were planned from
Applied ==
    [k \in SnippetKeys |->
        IF k \notin performed THEN Base(k)
        ELSE IF plan[k] = "upsert" THEN planned.source[k] ELSE Tombstone]

\* The caller saves the manifest with its hash and the revisions it planned at, or
\* stops before the hash: the manifest is then no base.
Save(whole) ==
    /\ phase = "apply"
    /\ saved' = [manifest |-> Applied, trusted |-> whole,
                   source |-> planned.sides.source,
                   target |-> planned.sides.target]
    /\ phase' = "idle" /\ plan' = NoPlan /\ performed' = {} /\ planned' = AtRestSides
    /\ UNCHANGED <<source, target, sides, mirrored, disturbed>>

\* The caller stops: what was performed is on the target, and nowhere else.
Stop ==
    /\ phase = "apply"
    /\ phase' = "idle" /\ plan' = NoPlan /\ performed' = {} /\ planned' = AtRestSides
    /\ UNCHANGED <<source, target, saved, sides, mirrored, disturbed>>

\* A user edits, adds or deletes a snippet.
EditSource(k, c) ==
    /\ sides.source <= MaxUserEdits /\ c # source[k]
    /\ source' = [source EXCEPT ![k] = c] /\ sides' = [sides EXCEPT !.source = @ + 1]
    /\ disturbed' = TRUE
    /\ UNCHANGED <<target, saved, plan, performed, phase, planned, mirrored>>
EditTarget(k, c) ==
    /\ sides.target <= MaxUserEdits /\ c # target[k]
    /\ target' = [target EXCEPT ![k] = c] /\ sides' = [sides EXCEPT !.target = @ + 1]
    /\ disturbed' = TRUE
    /\ UNCHANGED <<source, saved, plan, performed, phase, planned, mirrored>>

MirrorNext ==
    \/ Plan \/ Stop
    \/ \E whole \in BOOLEAN : Save(whole)
    \/ \E k \in SnippetKeys : Perform(k)
    \/ \E k \in SnippetKeys, c \in Contents \cup {Nothing} : EditSource(k, c) \/ EditTarget(k, c)

-----------------------------------------------------------------------------
\* What the mirror replaces or deletes on the target is something it put there
\* itself: what only the target's user wrote is never lost, whatever was edited,
\* half performed or not saved ("on any doubt the plan is Conflict",
\* plan_snippet_mirror).
OnlyMirroredIsReplaced ==
    [][\A k \in SnippetKeys :
         phase = "apply" /\ k \in performed' \ performed /\ target[k] # Nothing =>
            target[k] \in mirrored[k]]_mirrorVars

\* The manifest claims of the target only what the mirror did there.
ManifestIsEarned ==
    \A k \in SnippetKeys : saved.manifest[k] \in Contents => saved.manifest[k] \in mirrored[k]

\* A cycle without a conflict or an interruption leaves both sides equal.
AgreedIsEqual ==
    (/\ phase = "apply" /\ ~disturbed
    /\ \A k \in SnippetKeys : plan[k] = "none" \/ k \in performed)
    => source = target

MirrorSafety == ManifestIsEarned /\ AgreedIsEqual
=============================================================================
