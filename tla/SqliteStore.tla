----------------------------- MODULE SqliteStore -----------------------------
(***************************************************************************)
(* The SQLite backend (sqlite_backend.rs): the clip table and what follows   *)
(* it.  Foreign keys and triggers keep the annotations, the full-text rows,  *)
(* the facets, the vectors and the blob counts; the tags, the protection of  *)
(* the session and the mark that the WAL holds deleted bytes are kept by     *)
(* statements of their own, so the process may die between them.             *)
(***************************************************************************)
EXTENDS Integers, FiniteSets, FiniteSetsExt

CONSTANTS
    SqlClips,    \* clips, by content hash
    CodeClips,   \* those of kind code, mirrored in clip_fts_code
    BlobUses,    \* [SqlClips -> Nat]: how often its flavors name the blob
    SqlSecrets,  \* those a detector newer than some rows finds secret
    MaxSeq       \* bound: the sequence numbers given

ASSUME SqlAssumption ==
    IsFiniteSet(SqlClips) /\ CodeClips \subseteq SqlClips /\ BlobUses \in [SqlClips -> Nat] /\ MaxSeq \in Nat

VARIABLES
    sqlRows,      \* [stored clips -> [seq, sensitive, pinned, held, spilled]]
    lastSeq,      \* sqlite_sequence: the last number an insert was given
    prose,        \* clip_fts_prose: [rowid -> text]
    mirror,       \* clip_fts_code: [rowid -> text]
    annotated,    \* clips with a row in clip_annotations and clip_residency
    faceted,      \* clips with rows in clip_facets
    vectors,      \* clips with a row in clip_embeddings
    blobCount,    \* refcount of the blob
    tagged,       \* clips with rows in clip_tags
    protected,    \* the temporary table session_protected
    filter,       \* dedup_filter
    binned,       \* clips with a record in grace_bin
    marked,       \* pending_wal_scrub > 0
    residue,      \* ghost: the WAL still holds bytes of deleted rows
    torn          \* ghost: the process died between a deletion and its mark

sqlVars == <<sqlRows, lastSeq, prose, mirror, annotated, faceted, vectors, blobCount,
             tagged, protected, filter, binned, marked, residue, torn>>

Here == DOMAIN sqlRows
\* The flavors of the rows in S whose body is the blob.
SpilledOf(S) == UNION {{c} \X (1 .. sqlRows[c].spilled) : c \in S}
\* item_text, empty for a sensitive clip
TextOf(c, row) == IF row.sensitive THEN {} ELSE {c}
TopSeq == Max({sqlRows[c].seq : c \in Here} \cup {0})
NextSeq == Max({TopSeq, lastSeq}) + 1

SqlInit ==
    /\ sqlRows = [c \in {} |-> {}] /\ lastSeq = 0
    /\ prose = [n \in {} |-> {}] /\ mirror = [n \in {} |-> {}]
    /\ annotated = {} /\ faceted = {} /\ vectors = {} /\ blobCount = 0
    /\ tagged = {} /\ protected = {} /\ filter = {} /\ binned = {}
    /\ marked = FALSE /\ residue = FALSE /\ torn = FALSE

-----------------------------------------------------------------------------
(* The triggers and the foreign keys: what a statement on clips entails *)

WithoutEntry(f, n) == [k \in DOMAIN f \ {n} |-> f[k]]
WithEntry(f, n, v) == [k \in DOMAIN f \cup {n} |-> IF k = n THEN v ELSE f[k]]

\* Defective variant of Reindexed: the entry under the old rowid stays.
ReindexedInPlace(index, seq, row, text) == WithEntry(index, row.seq, text)

\* clips_fts_au: out under the old rowid, in under the new one.
Reindexed(index, seq, row, text) == WithEntry(WithoutEntry(index, seq), row.seq, text)

\* UPDATE of seq, item_text: the content of the rows in changed is rewritten.
UpdateRow(c, row) ==
    /\ sqlRows' = [sqlRows EXCEPT ![c] = row]
    /\ prose' = Reindexed(prose, sqlRows[c].seq, row, TextOf(c, row))
    /\ mirror' = IF c \in CodeClips
                 THEN Reindexed(mirror, sqlRows[c].seq, row, TextOf(c, row)) ELSE mirror
    /\ UNCHANGED <<annotated, blobCount>>

\* clips_lifecycle_ai, clips_fts_ai, clips_blob_ai
InsertRow(c, row) ==
    /\ sqlRows' = WithEntry(sqlRows, c, row)
    /\ prose' = WithEntry(prose, row.seq, TextOf(c, row))
    /\ mirror' = IF c \in CodeClips THEN WithEntry(mirror, row.seq, TextOf(c, row)) ELSE mirror
    /\ annotated' = annotated \cup {c}
    /\ blobCount' = blobCount + row.spilled

\* clips_fts_ad, clips_blob_ad and the cascades
DeleteRows(S) ==
    LET seqs == {sqlRows[c].seq : c \in S} IN
    /\ sqlRows' = [c \in Here \ S |-> sqlRows[c]]
    /\ prose' = [n \in DOMAIN prose \ seqs |-> prose[n]]
    /\ mirror' = [n \in DOMAIN mirror \ seqs |-> mirror[n]]
    /\ annotated' = annotated \ S
    /\ faceted' = faceted \ S /\ vectors' = vectors \ S
    /\ blobCount' = blobCount - Cardinality(SpilledOf(S))

-----------------------------------------------------------------------------
(* DeleteGuards *)

Unheld(S) == {c \in S : c \in annotated /\ ~sqlRows[c].held}
Unpinned(S) == {c \in Unheld(S) : ~sqlRows[c].pinned}
Sweepable(S) == Unpinned(S) \ protected

-----------------------------------------------------------------------------
(* insert *)

\* A re-copy can tighten privacy, never loosen it.
Sensitive(c, sensitive) == sensitive \/ (c \in Here /\ sqlRows[c].sensitive)

\* Facets and a vector for what may be indexed, none for the rest.
Projected(c, sensitive) ==
    IF sensitive THEN faceted' = faceted \ {c} /\ vectors' = vectors \ {c}
    ELSE faceted' = faceted \cup {c} /\ vectors' \in {vectors \cup {c}, vectors \ {c}}

\* A known row: updated_at and seq are bumped.
BumpRow(c, sensitive) ==
    /\ c \in Here /\ c \in filter
    /\ TopSeq < MaxSeq
    /\ UpdateRow(c, [sqlRows[c] EXCEPT !.seq = TopSeq + 1, !.sensitive = Sensitive(c, sensitive)])
    /\ Projected(c, Sensitive(c, sensitive))
    /\ UNCHANGED <<lastSeq, tagged, protected, filter, marked, residue, torn>>

\* A fresh row; the filter learns its hash after the commit.
AddRow(c, sensitive) ==
    /\ c \notin Here
    /\ NextSeq <= MaxSeq
    /\ InsertRow(c, [seq |-> NextSeq, sensitive |-> sensitive, pinned |-> FALSE, held |-> FALSE,
                     spilled |-> IF sensitive THEN 0 ELSE BlobUses[c]])
    /\ lastSeq' = NextSeq
    /\ Projected(c, sensitive)
    /\ filter' = filter \cup {c}
    /\ UNCHANGED <<tagged, protected, marked, residue, torn>>

-----------------------------------------------------------------------------
(* Deletion *)

\* The statements after the DELETE, each committed on its own: the tags, the
\* protection, the mark.  The process may die before the last of them.
Followed(S, forgets) ==
    \/ /\ tagged' = tagged \ S
       /\ protected' = IF forgets THEN protected \ S ELSE protected
       /\ marked' = TRUE /\ residue' = TRUE
       /\ UNCHANGED <<filter, torn>>
    \/ /\ tagged' = tagged \ S \* what is left of them goes at the next open
       /\ protected' = {} /\ filter' = DOMAIN sqlRows'
       /\ residue' = TRUE /\ torn' = TRUE
       /\ UNCHANGED marked

\* The same statements inside the transaction of the deletion.
FollowedAtomically(S) ==
    /\ tagged' = tagged \ S /\ protected' = protected \ S
    /\ marked' = TRUE /\ residue' = TRUE
    /\ UNCHANGED <<filter, torn>>

\* delete: a held clip is an error.
SqlDelete(c) ==
    /\ c \in Unheld(Here)
    /\ DeleteRows({c}) /\ Followed({c}, TRUE)
    /\ UNCHANGED <<lastSeq, binned>>

\* delete_clips_where, for clear, clear_all, the expiry and the count cap.
DeleteWhere(S, forgets) ==
    /\ S # {}
    /\ DeleteRows(S) /\ Followed(S, forgets)
    /\ UNCHANGED <<lastSeq, binned>>

SqlClear == DeleteWhere(Sweepable(Here), FALSE)
SqlClearAll == DeleteWhere(Unheld(Here), TRUE)
SqlPurgeExpired(S) == S \subseteq Here /\ DeleteWhere(S, TRUE)

\* The n oldest of the unguarded: a protected row never uses up the limit.
Evicted(n) ==
    {c \in Sweepable(Here) : Cardinality({d \in Sweepable(Here) : sqlRows[d].seq < sqlRows[c].seq}) < n}

SqlEnforceCap(limit) ==
    /\ Cardinality(Here) > limit
    /\ DeleteWhere(Evicted(Cardinality(Here) - limit), FALSE)

\* apply_batch: one transaction, rolled back as a whole when one member fails.
SqlBatch(S) ==
    /\ S # {} /\ S \subseteq Unheld(Here)
    /\ DeleteRows(S) /\ FollowedAtomically(S)
    /\ UNCHANGED <<lastSeq, binned>>

\* delete_with_grace: the record and the deletion in one transaction.
SqlSeal(c) ==
    /\ c \in Unheld(Here)
    /\ DeleteRows({c}) /\ FollowedAtomically({c})
    /\ binned' = binned \cup {c}
    /\ UNCHANGED lastSeq

\* enforce_retention, one row after the other, outside a transaction.
SqlSweep(c) ==
    /\ c \in Sweepable(Here)
    /\ DeleteRows({c}) /\ Followed({c}, TRUE)
    /\ UNCHANGED <<lastSeq, binned>>

\* restore_from_grace: insert, then the record goes, or the process dies first.
SqlRestore(c) ==
    /\ c \in binned
    /\ \E sensitive \in BOOLEAN : AddRow(c, sensitive) \/ BumpRow(c, sensitive)
    /\ binned' \in {binned, binned \ {c}}

SqlPurgeGrace(c) ==
    /\ c \in binned /\ binned' = binned \ {c}
    /\ marked' = TRUE /\ residue' = TRUE
    /\ UNCHANGED <<sqlRows, lastSeq, prose, mirror, annotated, faceted, vectors, blobCount,
                    tagged, protected, filter, torn>>

-----------------------------------------------------------------------------
(* What else touches a row *)

SqlInsert(c, sensitive) ==
    /\ AddRow(c, sensitive) \/ BumpRow(c, sensitive)
    /\ UNCHANGED binned

\* set_pinned, set_legal_hold: no trigger watches these columns.
SetColumn(c, column, value) ==
    /\ c \in Here
    /\ sqlRows' = [sqlRows EXCEPT ![c] = [@ EXCEPT ![column] = value]]
    /\ UNCHANGED <<lastSeq, prose, mirror, annotated, faceted, vectors, blobCount,
                    tagged, protected, filter, binned, marked, residue, torn>>

SetProtected(c) ==
    /\ \/ c \in Here /\ protected' = protected \cup {c}
       \/ protected' = protected \ {c}
    /\ UNCHANGED <<sqlRows, lastSeq, prose, mirror, annotated, faceted, vectors, blobCount,
                    tagged, filter, binned, marked, residue, torn>>

\* edit_tags, of clips that are not sensitive; it also drops what has no clip.
EditTags(c) ==
    /\ c \in Here /\ ~sqlRows[c].sensitive
    /\ \E S \in {tagged \cup {c}, tagged \ {c}} : tagged' = S \cap Here
    /\ UNCHANGED <<sqlRows, lastSeq, prose, mirror, annotated, faceted, vectors, blobCount,
                    protected, filter, binned, marked, residue, torn>>

\* clawback_sensitive: the scrub in one transaction, the mark after it.
SqlClawback(c) ==
    /\ c \in Here \cap SqlSecrets /\ ~sqlRows[c].sensitive
    /\ UpdateRow(c, [sqlRows[c] EXCEPT !.sensitive = TRUE])
    /\ faceted' = faceted \ {c} /\ vectors' = vectors \ {c}
    /\ residue' = TRUE
    /\ \/ marked' = TRUE /\ UNCHANGED <<protected, filter, torn>>
       \/ UNCHANGED marked /\ torn' = TRUE /\ protected' = {} /\ filter' = Here
    /\ UNCHANGED <<lastSeq, tagged, binned>>

\* scrub_wal_if_dirty: truncated, unless a reader is in the way.
ScrubWalIfDirty ==
    /\ marked
    /\ marked' = FALSE /\ residue' = FALSE
    /\ UNCHANGED <<sqlRows, lastSeq, prose, mirror, annotated, faceted, vectors, blobCount,
                    tagged, protected, filter, binned, torn>>

\* The store is opened again: from_connection_with_cas.
SqlReopen ==
    /\ tagged' = tagged \cap Here
    /\ protected' = {} /\ filter' = Here
    /\ UNCHANGED <<sqlRows, lastSeq, prose, mirror, annotated, faceted, vectors, blobCount,
                    binned, marked, residue, torn>>

SqlNext ==
    \/ \E c \in SqlClips :
         \/ SqlInsert(c, TRUE) \/ SqlInsert(c, FALSE)
         \/ SqlDelete(c) \/ SqlSeal(c) \/ SqlSweep(c) \/ SqlRestore(c) \/ SqlPurgeGrace(c)
         \/ SetProtected(c) \/ EditTags(c) \/ SqlClawback(c)
         \/ \E value \in BOOLEAN : SetColumn(c, "pinned", value) \/ SetColumn(c, "held", value)
    \/ \E S \in SUBSET SqlClips : SqlBatch(S) \/ SqlPurgeExpired(S)
    \/ SqlClear \/ SqlClearAll
    \/ \E limit \in 0 .. Cardinality(SqlClips) : SqlEnforceCap(limit)
    \/ ScrubWalIfDirty \/ SqlReopen

SqlSpec == SqlInit /\ [][SqlNext]_sqlVars

-----------------------------------------------------------------------------
SqlTypeOK ==
    /\ Here \subseteq SqlClips /\ lastSeq \in 0 .. MaxSeq
    /\ \A c \in Here : sqlRows[c].seq \in 1 .. MaxSeq
    /\ \A c, d \in Here : c # d => sqlRows[c].seq # sqlRows[d].seq

\* Under every order of copies, deletions, scrubs and crashes, each side table
\* says of the clip table what is true of it: an entry per row under its
\* present number and with its present text, code mirrored, counts exact,
\* nothing of a row that is gone, nothing indexed of a sensitive one.
SideTablesAgree ==
    /\ DOMAIN prose = {sqlRows[c].seq : c \in Here}
    /\ DOMAIN mirror = {sqlRows[c].seq : c \in Here \cap CodeClips}
    /\ \A c \in Here : prose[sqlRows[c].seq] = TextOf(c, sqlRows[c])
    /\ annotated = Here
    /\ tagged \cup protected \cup faceted \cup vectors \subseteq Here
    /\ \A c \in faceted \cup vectors : ~sqlRows[c].sensitive
    /\ blobCount = Cardinality(SpilledOf(Here))
    /\ Here \subseteq filter

\* Bytes of deleted rows in the WAL are always marked for the scrub, except
\* where the process died between the deletion and its mark.
ResidueIsMarked == residue /\ ~torn => marked

SqliteSafety == SqlTypeOK /\ SideTablesAgree /\ ResidueIsMarked
=============================================================================
