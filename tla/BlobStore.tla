------------------------------ MODULE BlobStore ------------------------------
(***************************************************************************)
(* Flavor bodies kept outside the clip table: cas.rs, and the rows of        *)
(* blob_refs and blob_quarantine the DuckDB store keeps about them.          *)
(*                                                                           *)
(* A blob is its hash under one content kind.  Rows and files are not        *)
(* changed together: a transaction covers the rows, each file is removed or  *)
(* renamed on its own, and the process may die between any two steps.        *)
(* All of it runs on the store owner's thread, so nothing else interleaves.  *)
(***************************************************************************)
EXTENDS Integers, Sequences, FiniteSets, FiniteSetsExt

CONSTANTS
    Clips,      \* clips, by content hash
    Blobs,      \* blob hashes, ordered as numbers
    Body,       \* [Clips -> Seq(Blobs)]: the flavors above threshold_for
    Private,    \* the sensitive clips: their flavors stay inline
    ScrubPage,  \* the limit given to scrub_blobs
    MaxFaults,  \* bound: disk faults
    MaxCuts     \* bound: retention sweeps cut short

ASSUME BlobAssumption ==
    /\ IsFiniteSet(Clips) /\ IsFiniteSet(Blobs) /\ Blobs \subseteq Nat \ {0}
    /\ Body \in [Clips -> Seq(Blobs)]
    /\ Private \subseteq Clips
    /\ ScrubPage \in Nat /\ MaxFaults \in Nat /\ MaxCuts \in Nat

VARIABLES
    blobRows,     \* clips in the table
    sealed,       \* clips in the grace bin: their bytes are in the record
    counted,      \* blobs with a row in blob_refs
    refcount,     \* its refcount (0 without a row)
    file,         \* "none", "good" or "bad": the file at path_for
    temporary,    \* an abandoned .tmp- file is left
    quarantine,   \* blobs with a row in blob_quarantine
    cursor,       \* blob_scrub_cursor; 0 is None
    hurt,         \* ghost: blobs a disk fault has touched
    cut,          \* ghost: retention sweeps that died between two statements
    diskFaults    \* ghost: disk faults so far

blobVars == <<blobRows, sealed, counted, refcount, file, temporary, quarantine, cursor,
              hurt, cut, diskFaults>>
blobTable == <<blobRows, sealed, counted, refcount, quarantine, cut>>
blobGhosts == <<hurt, cut, diskFaults>>

\* What insert spills: nothing of a sensitive clip.
Spilled(c) == IF c \in Private THEN <<>> ELSE Body[c]

\* Every flavor of a clip that names b counts, the same blob twice if need be.
Flavors(c, b) == {i \in DOMAIN Spilled(c) : Spilled(c)[i] = b}
Uses(c, b) == Cardinality(Flavors(c, b))
Needs(c) == {Spilled(c)[i] : i \in DOMAIN Spilled(c)}

\* The references of the clips in S to b, and how many the table holds.
References(S, b) == UNION {{c} \X Flavors(c, b) : c \in S}
Occurrences(b) == Cardinality(References(blobRows, b))

Hydrates(c) == \A b \in Needs(c) : file[b] = "good"
Live == {b \in counted : refcount[b] > 0}
Dead == {b \in counted : refcount[b] = 0}

BlobInit ==
    /\ blobRows = {} /\ sealed = {} /\ counted = {} /\ quarantine = {}
    /\ refcount = [b \in Blobs |-> 0]
    /\ file = [b \in Blobs |-> "none"]
    /\ temporary = FALSE /\ cursor = 0
    /\ hurt = {} /\ cut = 0 /\ diskFaults = 0

-----------------------------------------------------------------------------
(* Insertion *)

\* put: the file is there with the right hash, or it is written and renamed.
Published(S) == [b \in Blobs |-> IF b \in S /\ file[b] = "none" THEN "good" ELSE file[b]]

\* Defective variant of Puttable: put trusts a file that is already there.
TrustsExisting(S) == TRUE

\* put refuses a file with another hash.
Puttable(S) == \A b \in S : file[b] # "bad"

\* Defective variant of Referenced: one reference per blob, not per flavor.
ReferencedOnce(c) ==
    /\ counted' = counted \cup Needs(c)
    /\ refcount' = [b \in Blobs |-> refcount[b] + (IF b \in Needs(c) THEN 1 ELSE 0)]

\* update_blob_references(.., 1)
Referenced(c) ==
    /\ counted' = counted \cup Needs(c)
    /\ refcount' = [b \in Blobs |-> refcount[b] + Uses(c, b)]

\* insert of a fresh clip: spill, row and references, commit.
InsertBlobs(c) ==
    /\ c \notin blobRows
    /\ Puttable(Needs(c))
    /\ file' = Published(Needs(c))
    /\ blobRows' = blobRows \cup {c}
    /\ Referenced(c)
    /\ UNCHANGED <<sealed, temporary, quarantine, cursor, hurt, cut, diskFaults>>

\* insert fails on a wrong file or on the disk, or the process dies: the rows
\* roll back, the files already published stay, and so may a temporary one.
InsertBlobsFails(c) ==
    /\ c \notin blobRows
    /\ \E n \in 0 .. Len(Spilled(c)) :
         LET before == {Spilled(c)[i] : i \in 1 .. n} IN
         /\ Puttable(before)
         /\ file' = Published(before)
         /\ \/ temporary' = temporary
            \/ /\ n < Len(Spilled(c)) /\ file'[Spilled(c)[n + 1]] = "none"
               /\ temporary' = TRUE
    /\ cursor' \in {cursor, 0}
    /\ UNCHANGED <<blobTable, hurt, diskFaults>>

-----------------------------------------------------------------------------
(* Deletion: the references go, the rows of blob_refs and the files stay *)

Released(S) == [b \in Blobs |-> refcount[b] - Cardinality(References(S, b))]

\* delete, apply_batch and delete_clips_where: one transaction.
DeleteBlobs(S) ==
    /\ S # {} /\ S \subseteq blobRows
    /\ blobRows' = blobRows \ S
    /\ refcount' = Released(S)
    /\ UNCHANGED <<sealed, counted, file, temporary, quarantine, cursor, blobGhosts>>

\* enforce_retention deletes a row outside a transaction, each statement on its
\* own: the process may die before remove_dependents has released every flavor.
RetentionDies(c) ==
    /\ cut < MaxCuts
    /\ c \in blobRows
    /\ blobRows' = blobRows \ {c}
    /\ \E n \in 0 .. Len(Spilled(c)) :
         refcount' = [b \in Blobs |-> refcount[b]
                         - Cardinality(Flavors(c, b) \cap 1 .. n)]
    /\ cut' = cut + 1
    /\ cursor' = 0
    /\ UNCHANGED <<sealed, counted, file, temporary, quarantine, hurt, diskFaults>>

\* delete_with_grace: the bodies are read back before the row goes.
DeleteToGrace(c) ==
    /\ c \in blobRows /\ Hydrates(c)
    /\ sealed' = sealed \cup {c}
    /\ blobRows' = blobRows \ {c}
    /\ refcount' = Released({c})
    /\ UNCHANGED <<counted, file, temporary, quarantine, cursor, blobGhosts>>

\* restore_from_grace: insert, then the record; the process may die in between.
RestoreFromGrace(c) ==
    /\ c \in sealed
    /\ \/ /\ c \notin blobRows /\ Puttable(Needs(c))
          /\ file' = Published(Needs(c))
          /\ blobRows' = blobRows \cup {c}
          /\ Referenced(c)
       \/ c \in blobRows /\ UNCHANGED <<blobRows, counted, refcount, file>>
    /\ sealed' \in {sealed, sealed \ {c}}
    /\ cursor' \in {cursor, 0}
    /\ UNCHANGED <<temporary, quarantine, blobGhosts>>

PurgeGrace(S) ==
    /\ S # {} /\ S \subseteq sealed
    /\ sealed' = sealed \ S
    /\ UNCHANGED <<blobRows, counted, refcount, file, temporary, quarantine, cursor, blobGhosts>>

-----------------------------------------------------------------------------
(* gc_blobs *)

\* The files of the dead rows, and the orphans.
Reclaimed == Dead \cup {b \in Blobs : b \notin Live}

CollectBlobs ==
    /\ file' = [b \in Blobs |-> IF b \in Reclaimed THEN "none" ELSE file[b]]
    /\ counted' = counted \ Dead
    /\ temporary' = FALSE
    /\ UNCHANGED <<blobRows, sealed, refcount, quarantine, cursor, blobGhosts>>

\* It stops between two removals: among the files of the dead rows, whose rows
\* are deleted after, or among the orphans.
CollectStops ==
    /\ \/ \E S \in SUBSET Dead :
            /\ file' = [b \in Blobs |-> IF b \in S THEN "none" ELSE file[b]]
            /\ UNCHANGED <<counted, temporary>>
       \/ \E S \in SUBSET (Reclaimed \ Dead) :
            /\ file' = [b \in Blobs |-> IF b \in S \cup Dead THEN "none" ELSE file[b]]
            /\ counted' = counted \ Dead
            /\ temporary' \in {temporary, FALSE}
    /\ cursor' \in {cursor, 0}
    /\ UNCHANGED <<blobRows, sealed, refcount, quarantine, blobGhosts>>

-----------------------------------------------------------------------------
(* scrub_blobs *)

Scrubbable == Live \ quarantine
Beyond(n) == {b \in Scrubbable : b > n}

\* The next page after the cursor, in hash order.
Page == {b \in Beyond(cursor) : Cardinality({d \in Beyond(cursor) : d < b}) < ScrubPage}

\* Moved into the quarantine directory and recorded.
Quarantined(S) ==
    LET wrong == {b \in S : file[b] # "good"} IN
    /\ file' = [b \in Blobs |-> IF b \in wrong THEN "none" ELSE file[b]]
    /\ quarantine' = quarantine \cup wrong

ScrubBlobs ==
    /\ ScrubPage > 0
    /\ Quarantined(Page)
    /\ cursor' = IF Page = {} \/ Beyond(Max(Page)) = {} THEN 0 ELSE Max(Page)
    /\ UNCHANGED <<blobRows, sealed, counted, refcount, temporary, blobGhosts>>

\* It stops after some of the page, the last file moved but not recorded.
ScrubStops ==
    /\ \E b \in Page :
         /\ quarantine' = quarantine \cup {d \in Page : d < b /\ file[d] # "good"}
         /\ file' = [d \in Blobs |-> IF d \in Page /\ d <= b /\ file[d] # "good"
                                      THEN "none" ELSE file[d]]
    /\ cursor' \in {cursor, 0}
    /\ UNCHANGED <<blobRows, sealed, counted, refcount, temporary, blobGhosts>>

-----------------------------------------------------------------------------
\* The disk loses or alters a file.
DiskFault(b) ==
    /\ diskFaults < MaxFaults
    /\ file[b] = "good"
    /\ \E damage \in {"none", "bad"} : file' = [file EXCEPT ![b] = damage]
    /\ diskFaults' = diskFaults + 1
    /\ hurt' = hurt \cup {b}
    /\ UNCHANGED <<blobTable, temporary, cursor>>

BlobRestart ==
    /\ cursor' = 0
    /\ UNCHANGED <<blobTable, file, temporary, hurt, diskFaults>>

BlobNext ==
    \/ \E c \in Clips : InsertBlobs(c) \/ InsertBlobsFails(c) \/ RetentionDies(c)
                        \/ DeleteToGrace(c) \/ RestoreFromGrace(c)
    \/ \E S \in SUBSET Clips : DeleteBlobs(S) \/ PurgeGrace(S)
    \/ CollectBlobs \/ CollectStops
    \/ ScrubBlobs \/ ScrubStops
    \/ \E b \in Blobs : DiskFault(b)
    \/ BlobRestart

BlobSpec == BlobInit /\ [][BlobNext]_blobVars

-----------------------------------------------------------------------------
BlobTypeOK ==
    /\ blobRows \subseteq Clips /\ sealed \subseteq Clips
    /\ counted \subseteq Blobs /\ quarantine \subseteq Blobs /\ hurt \subseteq Blobs
    /\ refcount \in [Blobs -> Nat]
    /\ file \in [Blobs -> {"none", "good", "bad"}]
    /\ temporary \in BOOLEAN /\ cut \in 0 .. MaxCuts
    /\ cursor \in Blobs \cup {0} /\ diskFaults \in 0 .. MaxFaults

\* However inserts, deletions, restores and interrupted passes follow each
\* other, a count is never below the references the table holds, and it is
\* above them only after a retention sweep died between two of its statements
\* (update_blob_references, remove_dependents).
ReferencesAreCounted ==
    \A b \in Blobs :
        /\ refcount[b] >= Occurrences(b)
        /\ cut = 0 => refcount[b] = Occurrences(b)
        /\ refcount[b] > 0 => b \in counted

\* A blob that is referenced has its file, unless a disk fault has touched it:
\* neither a collection nor a crash takes the body of a row away.
ReferencedAreKept ==
    \A b \in Blobs : refcount[b] > 0 => file[b] = "good" \/ b \in hurt

\* Only a blob that a disk fault has touched is ever put in quarantine: no
\* crash of an insert, a collection or a scrub makes a sound blob look corrupt.
OnlyDamageIsQuarantined == quarantine \subseteq hurt

\* The rows kept about the blobs never lie about them.
BlobsAreAccounted == ReferencesAreCounted /\ ReferencedAreKept /\ OnlyDamageIsQuarantined

\* The promise of ClipBytes.
ReaderView ==
    [c \in Clips |-> IF c \notin blobRows THEN "absent"
                     ELSE IF Hydrates(c) THEN "whole" ELSE "broken"]

Reader == INSTANCE ClipBytes WITH content <- ReaderView, faults <- diskFaults

\* A clip enters the table with its bytes and only a disk fault takes them
\* away, through spill, collection, scrub, grace bin and every crash in them.
ReaderKeepsBytes == Reader!BytesSpec
=============================================================================
