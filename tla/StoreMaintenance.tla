--------------------------- MODULE StoreMaintenance ---------------------------
(***************************************************************************)
(* The idle pass over the clip table (History::maintain_idle): the secret    *)
(* scan with its persistent cursor, the bounded backfills of projections,    *)
(* the rolling audit of content hashes and the checkpoint of the WAL.        *)
(*                                                                           *)
(* Each step commits on its own; the process may die between two of them,    *)
(* and an error ends the pass.  Rows written by an older version carry its   *)
(* content hash, and secrets its detectors did not know.                     *)
(***************************************************************************)
EXTENDS Integers, Sequences, SequencesExt, FiniteSets

CONSTANTS
    RowIds,      \* row ids
    ContentOf,   \* [RowIds -> content]
    OldRows,     \* rows an older version has left, oldest first
    Secret,      \* contents that the new detectors find
    ScanBatch,   \* the limit of clawback_sensitive
    AuditBatch,  \* the limit of audit_content_hashes
    MaxCopies,   \* bound: copies made
    MaxStops     \* bound: times the process dies

ASSUME MaintAssumption ==
    /\ OldRows \in Seq(RowIds) /\ \A i, j \in DOMAIN OldRows : OldRows[i] = OldRows[j] => i = j
    /\ ScanBatch \in Nat \ {0} /\ AuditBatch \in Nat \ {0}

VARIABLES
    tabled,     \* [stored ids -> row]
    bySeq,      \* the stored ids by seq
    scanned,    \* secret_scan_cursor, as the number of rows up to it
    byCheck,    \* ids with a checked_at, oldest first
    known,      \* dedup_filter: <<content, hash version>>
    walPending, \* pending_wal_scrub > 0
    stage,      \* the step of the pass
    unreadable, \* ids whose blob the disk has lost
    copies, stops

tableVars == <<tabled, bySeq, scanned, byCheck, known, walPending, unreadable>>
maintVars == <<tableVars, stage, copies, stops>>

InTable == DOMAIN tabled
HashOf(id) == <<ContentOf[id], tabled[id].version>>
Only(s, S) ==
    LET kept[n \in 0 .. Len(s)] ==
          IF n = 0 THEN <<>> ELSE IF s[n] \in S THEN Append(kept[n - 1], s[n]) ELSE kept[n - 1]
    IN  kept[Len(s)]
First(s, n) == SubSeq(s, 1, IF n < Len(s) THEN n ELSE Len(s))
RowsUpTo(n) == {bySeq[i] : i \in 1 .. n}

OldRow(held) == [version |-> "old", sensitive |-> FALSE, projected |-> FALSE, held |-> held]

MaintInit ==
    /\ \E heldRows \in SUBSET ToSet(OldRows) :
         tabled = [id \in ToSet(OldRows) |-> OldRow(id \in heldRows)]
    /\ bySeq = OldRows
    /\ scanned \in 0 .. Len(OldRows)
    /\ byCheck = <<>>
    /\ known = {HashOf(id) : id \in InTable}
    /\ walPending = FALSE /\ stage = "idle" /\ unreadable = {}
    /\ copies = 0 /\ stops = 0

-----------------------------------------------------------------------------
(* What the rest of the program does to the table between two passes *)

\* A row leaves the table: what is behind the cursor shrinks with it.
Dropped(S) ==
    /\ tabled' = [id \in InTable \ S |-> tabled[id]]
    /\ bySeq' = Only(bySeq, InTable \ S)
    /\ byCheck' = Only(byCheck, InTable \ S)
    /\ scanned' = Cardinality(RowsUpTo(scanned) \ S)

\* insert: the filter decides whether a known row is looked for; without it the
\* unique index refuses.  A known row is bumped and stays sensitive.
MaintCopy(id) ==
    /\ stage = "idle" /\ copies < MaxCopies /\ copies' = copies + 1
    /\ LET hash == <<ContentOf[id], "new">>
           twins == {d \in InTable : HashOf(d) = hash}
           put == IF twins = {} THEN id ELSE CHOOSE d \in twins : TRUE
           sensitive == ContentOf[id] \in Secret
                        \/ (put \in InTable /\ twins # {} /\ tabled[put].sensitive)
           row == [version |-> "new", sensitive |-> sensitive, projected |-> ~sensitive,
                   held |-> twins # {} /\ tabled[put].held]
       IN  /\ twins = {} => id \notin InTable
           /\ twins # {} => hash \in known
           /\ tabled' = [d \in InTable \cup {put} |-> IF d = put THEN row ELSE tabled[d]]
           /\ bySeq' = Append(Only(bySeq, InTable \ {put}), put)
           /\ scanned' = Cardinality(RowsUpTo(scanned) \ {put})
           /\ known' = known \cup {hash}
    /\ UNCHANGED <<byCheck, walPending, stage, unreadable, stops>>

MaintDelete(id) ==
    /\ stage = "idle" /\ id \in InTable /\ ~tabled[id].held
    /\ Dropped({id}) /\ walPending' = TRUE
    /\ UNCHANGED <<known, stage, unreadable, copies, stops>>

BlobLost(id) ==
    /\ stage = "idle" /\ unreadable = {} /\ id \in InTable
    /\ unreadable' = {id}
    /\ UNCHANGED <<tabled, bySeq, scanned, byCheck, known, walPending, stage, copies, stops>>

-----------------------------------------------------------------------------
(* The pass *)

PassBegins ==
    /\ stage = "idle" /\ stage' = "scan"
    /\ UNCHANGED <<tableVars, copies, stops>>

\* Rows after the cursor that are not sensitive and have text.
ScanList == Only(bySeq, {id \in InTable \ RowsUpTo(scanned) : ~tabled[id].sensitive})

\* A short batch means the end was reached: start over.
NextCursor(batch) ==
    IF Len(batch) < ScanBatch THEN 0 ELSE CHOOSE i \in DOMAIN bySeq : bySeq[i] = Last(batch)

\* tighten_sensitive and SENSITIVE_SCRUB_SET
Scrubbed(id) == [tabled[id] EXCEPT !.sensitive = TRUE, !.projected = FALSE]

ClawbackSensitive ==
    /\ stage = "scan"
    /\ LET batch == First(ScanList, ScanBatch)
           found == {id \in ToSet(batch) : ContentOf[id] \in Secret}
       IN  /\ tabled' = [id \in InTable |-> IF id \in found THEN Scrubbed(id) ELSE tabled[id]]
           /\ scanned' = NextCursor(batch)
           /\ walPending' = (walPending \/ found # {})
    /\ stage' \in {"backfill", "audit"}
    /\ UNCHANGED <<bySeq, byCheck, known, unreadable, copies, stops>>

\* backfill_fingerprints, _normalized_fingerprints and _embeddings: some of the
\* rows without a projection.  The second reads the bodies back.
Backfill ==
    /\ stage = "backfill"
    /\ LET bare == {id \in InTable : ~tabled[id].projected /\ ~tabled[id].sensitive} IN
       \/ /\ \E S \in SUBSET bare :
               tabled' = [id \in InTable |-> [tabled[id] EXCEPT !.projected = @ \/ id \in S]]
          /\ stage' = "audit"
       \/ bare \cap unreadable # {} /\ stage' = "idle" /\ UNCHANGED tabled
    /\ UNCHANGED <<bySeq, scanned, byCheck, known, walPending, unreadable, copies, stops>>

\* Never checked first, by seq; then the oldest check.
AuditList == First(Only(bySeq, InTable \ ToSet(byCheck)) \o byCheck, AuditBatch)

\* The audited rows whose true hash another row has.
Clashing(batch) ==
    {id \in batch : /\ tabled[id].version = "old"
                    /\ \E d \in InTable \ {id} : HashOf(d) = <<ContentOf[id], "new">>}

\* The filter learns the repaired hashes.
FilterTold(S) == known \cup {<<ContentOf[id], "new">> : id \in S}

\* audit_content_hashes: a wrong hash is repaired, or its row quarantined when
\* another one has it, unless it is held.  One body that cannot be read back
\* fails the pass.
AuditContentHashes ==
    /\ stage = "audit"
    /\ LET list == AuditList
           batch == ToSet(list)
           clashing == Clashing(batch)
           gone == {id \in clashing : ~tabled[id].held}
           repaired == {id \in batch \ clashing : tabled[id].version = "old"}
       IN  IF batch \cap unreadable # {}
           THEN stage' = "idle" /\ UNCHANGED tableVars
           ELSE /\ tabled' = [id \in InTable \ gone |->
                                IF id \in repaired THEN [tabled[id] EXCEPT !.version = "new"]
                                ELSE tabled[id]]
                /\ bySeq' = Only(bySeq, InTable \ gone)
                /\ byCheck' = Only(byCheck, InTable \ batch) \o Only(list, InTable \ gone)
                /\ scanned' = Cardinality(RowsUpTo(scanned) \ gone)
                /\ known' = FilterTold(repaired)
                /\ walPending' = (walPending \/ gone # {})
                /\ stage' = "wal"
                /\ UNCHANGED unreadable
    /\ UNCHANGED <<copies, stops>>

\* gc_blobs (BlobStore), then scrub_wal_if_dirty.
ScrubWal ==
    /\ stage = "wal" /\ stage' = "idle"
    /\ walPending' = FALSE
    /\ UNCHANGED <<tabled, bySeq, scanned, byCheck, known, unreadable, copies, stops>>

\* The process dies and the store is opened again: the filter is rebuilt.
MaintReopen ==
    /\ stops < MaxStops /\ stops' = stops + 1
    /\ stage' = "idle"
    /\ known' = {HashOf(id) : id \in InTable}
    /\ UNCHANGED <<tabled, bySeq, scanned, byCheck, walPending, unreadable, copies>>

PassSteps == PassBegins \/ ClawbackSensitive \/ Backfill \/ AuditContentHashes \/ ScrubWal

MaintNext ==
    \/ \E id \in RowIds : MaintCopy(id) \/ MaintDelete(id) \/ BlobLost(id)
    \/ PassBegins \/ ClawbackSensitive \/ Backfill \/ AuditContentHashes \/ ScrubWal
    \/ MaintReopen

\* The maintenance thread wakes again and again.
MaintSpec == MaintInit /\ [][MaintNext]_maintVars /\ WF_maintVars(PassSteps)

-----------------------------------------------------------------------------
MaintTypeOK ==
    /\ InTable \subseteq RowIds /\ ToSet(bySeq) = InTable /\ Len(bySeq) = Cardinality(InTable)
    /\ scanned \in 0 .. Len(bySeq) /\ ToSet(byCheck) \subseteq InTable
    /\ stage \in {"idle", "scan", "backfill", "audit", "wal"}

\* No sequence of copies, scans, backfills and repairs leaves a sensitive row
\* with a projection that correlates it with others (SENSITIVE_SCRUB_SET).
SensitiveIsUnprojected == \A id \in InTable : tabled[id].sensitive => ~tabled[id].projected

\* The filter never overlooks a stored hash, repaired ones included: a re-copy
\* is recognised and never runs into the unique index (dedup_filter).
FilterKnowsTable == \A id \in InTable : HashOf(id) \in known

\* The audit removes duplicates only: no content leaves the table by it
\* (QUARANTINE).
AuditKeepsContent ==
    [][stage = "audit" /\ stage' = "wal" =>
          {ContentOf[id] : id \in InTable'} = {ContentOf[id] : id \in InTable}]_maintVars

\* Once copying pauses, every secret the detectors know is reclassified, even
\* behind the cursor (clawback_sensitive).
SecretsAreFound ==
    \A id \in RowIds :
        (id \in InTable /\ ContentOf[id] \in Secret /\ ~tabled[id].sensitive)
            ~> (id \notin InTable \/ tabled[id].sensitive)

\* Unless a body is lost, every wrong hash is repaired, removed as a duplicate,
\* or its row is held: the audit goes round (checked_at).
HashesAreAudited ==
    \A id \in RowIds :
        (id \in InTable /\ tabled[id].version = "old")
            ~> (id \notin InTable \/ tabled[id].version = "new" \/ tabled[id].held
                \/ unreadable # {})

\* What the table's helpers claim of it stays true through every pass: no
\* projection of a secret, no stored hash unknown to the filter.
HelpersAreTrue == SensitiveIsUnprojected /\ FilterKnowsTable

\* The two rounds come to an end together, each at its own pace, whatever the
\* other removes: every secret reclassified, every wrong hash settled, and no
\* content lost on the way.
UpkeepSettles == SecretsAreFound /\ HashesAreAudited /\ AuditKeepsContent
=============================================================================
