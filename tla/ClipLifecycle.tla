---------------------------- MODULE ClipLifecycle ----------------------------
(***************************************************************************)
(* Annotations, residency, exports and imports (data_lifecycle.rs).          *)
(*                                                                           *)
(* A row carries its sidecars clip_annotations and clip_residency.  Imports  *)
(* wait in a quarantine table and enter the clip table in two commits, so    *)
(* the process may die with a clip in both.                                  *)
(***************************************************************************)
EXTENDS Integers, Sequences, FiniteSets, Functions

CONSTANTS
    LifeClips,   \* clips, by content hash
    Detected,    \* clips the default capture policy finds sensitive
    ImportIds,   \* import ids
    MaxAge,      \* IMPORT_QUARANTINE_MAX_AGE
    LifeMaxNow   \* bound: how far the clock goes

ASSUME LifeAssumption ==
    Detected \subseteq LifeClips /\ MaxAge \in Nat /\ LifeMaxNow \in Nat

VARIABLES
    clipRows,   \* [stored clips -> row]
    staged,     \* import_quarantine: [import ids -> [clip, at, intact]]
    lifeNow,    \* wall clock
    handed      \* ghost: rows whose bytes an export has handed out

lifeVars == <<clipRows, staged, lifeNow, handed>>

Present == DOMAIN clipRows
RowOf(consent, local) ==
    [archived |-> FALSE, exported |-> FALSE, consent |-> consent, local |-> local]

WithRow(c, row) == [d \in Present \cup {c} |-> IF d = c THEN row ELSE clipRows[d]]
Settled == UNCHANGED lifeNow

LifeInit ==
    /\ clipRows = [c \in {} |-> {}] /\ staged = [i \in {} |-> {}]
    /\ lifeNow = 0 /\ handed = {}

-----------------------------------------------------------------------------
\* insert of a local capture: a known row keeps its sidecars and takes the new
\* metadata.  consent stands for sync_eligible and ai_allowed.
CaptureClip(c, consent) ==
    /\ clipRows' = WithRow(c, IF c \in Present
                               THEN [clipRows[c] EXCEPT !.consent = consent, !.local = TRUE]
                               ELSE RowOf(consent, TRUE))
    /\ UNCHANGED <<staged, handed>> /\ Settled

\* Deleted or expired: the sidecars go with the row.
RemoveClip(c) ==
    /\ c \in Present
    /\ clipRows' = [d \in Present \ {c} |-> clipRows[d]]
    /\ handed' = handed \ {c}
    /\ UNCHANGED staged /\ Settled

Annotate(c, field, value) ==
    /\ c \in Present
    /\ clipRows' = [clipRows EXCEPT ![c] = [@ EXCEPT ![field] = value]]
    /\ UNCHANGED <<staged, handed>> /\ Settled

SetArchived(c) == \E value \in BOOLEAN : Annotate(c, "archived", value)
RecordResidency(c) == Annotate(c, "exported", TRUE)

-----------------------------------------------------------------------------
(* export_json *)

Visible(archive) ==
    {c \in Present : archive = "all" \/ (archive = "archived") = clipRows[c].archived}

\* A version 1 export cannot carry a privacy policy.
Portable(c, version) == version = 2 \/ (clipRows[c].consent /\ c \notin Detected)

Marked(S) == [c \in Present |-> [clipRows[c] EXCEPT !.exported = @ \/ c \in S]]

\* The output is returned after the marks are committed.
Export(version, archive) ==
    /\ \A c \in Visible(archive) : Portable(c, version)
    /\ clipRows' = Marked(Visible(archive))
    /\ handed' \in {handed, handed \cup Visible(archive)}
    /\ UNCHANGED staged /\ Settled

-----------------------------------------------------------------------------
(* The import quarantine *)

\* sanitize_import_privacy: the policy may refuse it or find it sensitive.
StageImport(i, c) ==
    /\ i \notin DOMAIN staged
    /\ c \notin Detected
    /\ staged' = [j \in DOMAIN staged \cup {i} |->
                    IF j = i THEN [clip |-> c, at |-> lifeNow, intact |-> TRUE] ELSE staged[j]]
    /\ UNCHANGED <<clipRows, handed>> /\ Settled

\* A payload is altered at rest.
AlterPayload(i) ==
    /\ i \in DOMAIN staged
    /\ staged' = [staged EXCEPT ![i].intact = FALSE]
    /\ UNCHANGED <<clipRows, handed>> /\ Settled

Unstaged(S) == [i \in DOMAIN staged \ S |-> staged[i]]

\* Defective variant of Restored: the consent of the imported metadata is kept.
RestoredTrusting(S) ==
    [c \in Present \cup S |-> IF c \in Present THEN [clipRows[c] EXCEPT !.archived = FALSE]
                               ELSE RowOf(TRUE, FALSE)]

\* A clip already there is taken out of the archive, another one is inserted
\* without consent.
Restored(S) ==
    [c \in Present \cup S |->
        IF c \notin Present THEN RowOf(FALSE, FALSE)
        ELSE [clipRows[c] EXCEPT !.archived = @ /\ c \notin S]]

\* The quarantine rows deleted when the pass ended after n of its ids.
Committed(sel, n) == {sel[k] : k \in 1 .. n}

\* restore_imports: one id after the other, until one fails its verification
\* or the process dies, maybe with the clip in the table and still staged.
RestoreImports(sel) ==
    \E n \in 0 .. Len(sel), half \in {0, 1} :
        LET known(S) == S \cap DOMAIN staged
            entered == known({sel[k] : k \in 1 .. n + half})
        IN  /\ n + half <= Len(sel)
            /\ \A i \in entered : staged[i].intact
            /\ clipRows' = Restored({staged[i].clip : i \in entered})
            /\ staged' = Unstaged(Committed(sel, n))
            /\ UNCHANGED handed /\ Settled

RejectImport(i) ==
    /\ i \in DOMAIN staged
    /\ staged' = Unstaged({i})
    /\ UNCHANGED <<clipRows, handed>> /\ Settled

\* purge_import_quarantine, on every open of the store and only then.
OpenStore ==
    /\ staged' = Unstaged({i \in DOMAIN staged : staged[i].at <= lifeNow - MaxAge})
    /\ UNCHANGED <<clipRows, handed>> /\ Settled

-----------------------------------------------------------------------------
\* The wall clock, which may be stepped back.
LifeTick ==
    /\ lifeNow' \in 0 .. LifeMaxNow
    /\ UNCHANGED <<clipRows, staged, handed>>

LifeNext ==
    \/ \E c \in LifeClips, consent \in BOOLEAN : CaptureClip(c, consent)
    \/ \E c \in LifeClips : RemoveClip(c) \/ SetArchived(c) \/ RecordResidency(c)
    \/ \E version \in {1, 2}, archive \in {"active", "archived", "all"} : Export(version, archive)
    \/ \E i \in ImportIds : AlterPayload(i) \/ RejectImport(i)
                            \/ \E c \in LifeClips : StageImport(i, c)
    \/ \E i, j \in ImportIds : RestoreImports(IF i = j THEN <<i>> ELSE <<i, j>>)
    \/ OpenStore \/ LifeTick

LifeSpec == LifeInit /\ [][LifeNext]_lifeVars

-----------------------------------------------------------------------------
LifeTypeOK ==
    /\ Present \subseteq LifeClips
    /\ DOMAIN staged \subseteq ImportIds
    /\ \A i \in DOMAIN staged : staged[i].clip \in LifeClips \ Detected
    /\ handed \subseteq Present /\ lifeNow \in 0 .. LifeMaxNow

\* A clip that only imports have brought may neither sync nor feed the AI
\* features, whatever was archived, exported, deleted and restored around it
\* (sanitize_import_privacy).
ImportsStayLocal == \A c \in Present : ~clipRows[c].local => ~clipRows[c].consent

\* What an export has handed out is marked as exported for as long as the row
\* lives (export_json, SensitiveDataResidency).
ExportedIsMarked == \A c \in handed : clipRows[c].exported

\* No import is lost: a staged clip leaves the quarantine by a rejection, by
\* age at an open, or because it is in the table and out of the archive, even
\* when the pass that restores it fails or dies half way (restore_imports).
ImportsAreNotLost ==
    [][\A i \in DOMAIN staged \ DOMAIN staged' :
          \/ staged[i].clip \in Present' /\ ~clipRows'[staged[i].clip].archived
          \/ clipRows' = clipRows /\ staged[i].at <= lifeNow - MaxAge
          \/ RejectImport(i)]_lifeVars

\* What is recorded of a row's way in and out stays true.
ResidencyIsKept == ImportsStayLocal /\ ExportedIsMarked
=============================================================================
