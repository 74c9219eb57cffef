------------------------------ MODULE ClipStore ------------------------------
(***************************************************************************)
(* The clip table (vbuff-store/src/duckdb_backend.rs, ttl.rs,               *)
(* data_lifecycle.rs): insertion with deduplication, the flags that protect *)
(* a clip, every path that deletes one, the encrypted grace bin, and the    *)
(* background passes that tighten or index what is stored.                  *)
(*                                                                         *)
(* A row is keyed by its content.  Lifetimes count down in ticks.  All      *)
(* calls run on the owner's thread, so they only interleave with a crash    *)
(* between two commits of one call.                                        *)
(***************************************************************************)
EXTENDS Naturals, FiniteSets, Sequences, SequencesExt

CONSTANTS
    Contents,
    Secretive,    \* contents a detector would reclassify
    Flags,        \* the flags that occur
    Life,         \* SENSITIVE_TTL_CEILING, in ticks
    Window,       \* the window of a grace record, in ticks
    MaxHistory,   \* config.max_history
    MaxSealed     \* bound on the records of the grace bin

AllFlags == {"pinned", "favorite", "protected", "held"}

ASSUME StoreAssumption ==
    /\ IsFiniteSet(Contents) /\ Secretive \subseteq Contents
    /\ Flags \subseteq AllFlags
    /\ Life \in Nat \ {0} /\ Window \in Nat \ {0}
    /\ MaxHistory \in Nat /\ MaxSealed \in Nat

VARIABLES
    rows,         \* the live rows
    recency,      \* their contents by (updated_at, seq), oldest first
    embeddings,   \* contents with a feature vector
    filter,       \* dedup_filter
    grace,        \* the sealed records of the grace bin
    at,           \* where a call of several commits stands
    restoring     \* the record restore_from_grace is working on

vars == <<rows, recency, embeddings, filter, grace, at, restoring>>

Forever == Life + 1            \* expires_at: None
Lifetimes == 0 .. Forever      \* 0 once the deadline has passed
Shorter(s, t) == IF s < t THEN s ELSE t
Less(t) == IF t \in 1 .. Life THEN t - 1 ELSE t

Row == [sensitive : BOOLEAN, expiry : Lifetimes, flags : SUBSET Flags, indexed : BOOLEAN]
Sealed == [content : Contents, sensitive : BOOLEAN, expiry : Lifetimes,
           flags : SUBSET Flags, left : 0 .. Window]
NoRecord == [content |-> {}, left |-> 0]

\* What a caller hands to insert: ordinary, or sensitive with or without a deadline.
Incoming == {[sensitive |-> FALSE, expiry |-> Forever]} \cup
            {[sensitive |-> TRUE, expiry |-> t] : t \in 1 .. Forever}

Init ==
    /\ rows = [c \in {} |-> {}] /\ recency = <<>>
    /\ embeddings = {} /\ filter = {}
    /\ grace = {}
    /\ at = "idle" /\ restoring = NoRecord

Stored == DOMAIN rows
Has(c, f) == f \in rows[c].flags
Expired == {c \in Stored : rows[c].expiry = 0}

(***************************************************************************)
(* DeleteGuards: what each way of deleting leaves alone.                   *)
(***************************************************************************)
Unheld == {c \in Stored : ~Has(c, "held")}
Clearable == {c \in Unheld : ~Has(c, "pinned") /\ ~Has(c, "protected")}
\* Mutant: a sweep that forgets the hold.
SweepsHeld == {c \in Stored : ~Has(c, "pinned") /\ ~Has(c, "protected") /\ ~Has(c, "favorite")}
Sweepable == {c \in Clearable : ~Has(c, "favorite")}

\* The elements of s that are in S, in their order.
Keeping(s, S) == FoldLeft(LAMBDA kept, c : IF c \in S THEN Append(kept, c) ELSE kept, <<>>, s)

\* The rows gone leave the table with all that depends on them.
Kept(gone) == [c \in Stored \ gone |-> rows[c]]
Removed(gone) ==
    /\ rows' = Kept(gone)
    /\ recency' = Keeping(recency, Stored \ gone)
    /\ embeddings' = embeddings \ gone

(***************************************************************************)
(* insert                                                                  *)
(***************************************************************************)
\* tighten_sensitive: a sensitive row always carries a deadline.
Bounded(sensitive, t) == IF sensitive /\ t = Forever THEN Life ELSE t

\* Mutant: the deadline of the latest copy replaces the stored one.
MergedLatest(row, new) ==
    LET sensitive == row.sensitive \/ new.sensitive
    IN  [row EXCEPT !.sensitive = sensitive, !.indexed = ~sensitive,
                    !.expiry = Bounded(sensitive, new.expiry)]

\* A copy of stored content tightens the row and never loosens it.
Merged(row, new) ==
    LET sensitive == row.sensitive \/ new.sensitive
    IN  [row EXCEPT !.sensitive = sensitive, !.indexed = ~sensitive,
                    !.expiry = Bounded(sensitive, Shorter(row.expiry, new.expiry))]

Fresh(new, flags) ==
    [sensitive |-> new.sensitive, expiry |-> Bounded(new.sensitive, new.expiry),
     flags |-> flags, indexed |-> ~new.sensitive]

\* A row in the table; its vector is optional unless the row is sensitive.
Written(c, row) ==
    /\ rows' = [d \in (Stored \ Expired) \cup {c} |-> IF d = c THEN row ELSE rows[d]]
    /\ \E vector \in {{}, {c}} :
          /\ row.sensitive => vector = {}
          /\ embeddings' = ((embeddings \ Expired) \ {c}) \cup vector

LiveOrder == Keeping(recency, Stored \ Expired)

\* The bloom filter decides whether the table is asked at all; the unique index refuses
\* what it overlooks.
Known(c) == c \in filter /\ c \in Stored \ Expired

\* Mutant: the bumped row keeps its old place as well.
BumpKeepsOld(c, new) ==
    /\ Known(c)
    /\ Written(c, Merged(rows[c], new))
    /\ recency' = Append(LiveOrder, c)
    /\ UNCHANGED filter

InsertKnown(c, new) ==
    /\ Known(c)
    /\ Written(c, Merged(rows[c], new))
    /\ recency' = Append(Keeping(LiveOrder, Stored \ {c}), c)
    /\ UNCHANGED filter

\* Mutant: the filter is not told.
FilterNotTold(c, new, flags, place) ==
    /\ c \notin Stored \ Expired
    /\ Written(c, Fresh(new, flags))
    /\ place \in 1 .. Len(LiveOrder) + 1
    /\ recency' = InsertAt(LiveOrder, place, c)
    /\ UNCHANGED filter

InsertFresh(c, new, flags, place) ==
    /\ c \notin Stored \ Expired
    /\ Written(c, Fresh(new, flags))
    /\ place \in 1 .. Len(LiveOrder) + 1
    /\ recency' = InsertAt(LiveOrder, place, c)
    /\ filter' = filter \cup {c}

\* History::insert of a captured clip: it is the newest, and enforce_cap follows.
Capture(c, new) ==
    /\ at = "idle"
    /\ InsertKnown(c, new) \/ InsertFresh(c, new, {}, Len(LiveOrder) + 1)
    /\ at' = "cap"
    /\ UNCHANGED <<grace, restoring>>

Older(c, d) == \E i, j \in DOMAIN recency : i < j /\ recency[i] = c /\ recency[j] = d

\* enforce_cap takes the oldest of the unprotected rows, as many as the table has too many.
Overflow ==
    LET excess == Cardinality(Stored \ Expired) - MaxHistory
    IN  IF Cardinality(Stored \ Expired) <= MaxHistory THEN {}
        ELSE {c \in Sweepable : Cardinality({d \in Sweepable : Older(d, c)}) < excess}

EnforceCap ==
    /\ at = "cap"
    /\ Removed(Overflow)
    /\ at' = "idle"
    /\ UNCHANGED <<filter, grace, restoring>>

(***************************************************************************)
(* Flags and lifetimes.                                                    *)
(***************************************************************************)
SetFlag(c, f) ==
    /\ at = "idle"
    /\ \E flags \in {rows[c].flags \cup {f}, rows[c].flags \ {f}} :
          rows' = [rows EXCEPT ![c].flags = flags]
    /\ UNCHANGED <<recency, embeddings, filter, grace, at, restoring>>

\* Mutant: the lifetime of a sensitive clip can be edited.
SetAnyTtl(c, t) ==
    /\ at = "idle"
    /\ rows[c].expiry > 0
    /\ rows' = [rows EXCEPT ![c].expiry = t]
    /\ UNCHANGED <<recency, embeddings, filter, grace, at, restoring>>

\* set_ttl is for ordinary clips; the privacy policy owns the others.
SetTtl(c, t) ==
    /\ at = "idle"
    /\ rows[c].expiry > 0 /\ ~rows[c].sensitive
    /\ rows' = [rows EXCEPT ![c].expiry = t]
    /\ UNCHANGED <<recency, embeddings, filter, grace, at, restoring>>

(***************************************************************************)
(* Deletion.                                                               *)
(***************************************************************************)
DeleteSome(gone) ==
    /\ at = "idle"
    /\ Removed(gone)
    /\ UNCHANGED <<filter, grace, at, restoring>>

Delete(c) == c \in Unheld /\ DeleteSome({c})
Clear == DeleteSome(Clearable)
ClearAll == DeleteSome(Unheld)
PurgeExpired == DeleteSome(Expired)

\* Retention by kind, by sensitivity and by collection; RetentionPass says which rows.
Sweep == \E gone \in SUBSET Sweepable : DeleteSome(gone)

SealedCopy(c) == [content |-> c, sensitive |-> rows[c].sensitive, expiry |-> rows[c].expiry,
                  flags |-> rows[c].flags \cap {"pinned", "favorite"}, left |-> Window]
Unspent == {r \in grace : r.left > 0}

\* delete_with_grace, by the user or by retention with a key.
Seal(c) ==
    /\ at = "idle"
    /\ c \in Unheld
    /\ Cardinality(Unspent) < MaxSealed
    /\ grace' = Unspent \cup {SealedCopy(c)}
    /\ Removed({c})
    /\ UNCHANGED <<filter, at, restoring>>

PurgeGraceBin ==
    /\ at = "idle"
    /\ grace' = Unspent
    /\ UNCHANGED <<rows, recency, embeddings, filter, at, restoring>>

\* Mutant: the record goes first.
RestoreForgetsFirst(r) ==
    /\ at = "idle"
    /\ r.left > 0
    /\ grace' = grace \ {r}
    /\ at' = "forget" /\ restoring' = r
    /\ UNCHANGED <<rows, recency, embeddings, filter>>

\* restore_from_grace inserts and commits, then forgets the record.  The clip keeps its
\* old updated_at: its place among the others is open.
Restore(r) ==
    LET new == [sensitive |-> r.sensitive, expiry |-> r.expiry]
    IN  /\ at = "idle"
        /\ r.left > 0
        /\ \/ InsertKnown(r.content, new)
           \/ \E place \in 1 .. Cardinality(Contents) : InsertFresh(r.content, new, r.flags, place)
        /\ at' = "forget" /\ restoring' = r
        /\ UNCHANGED grace

\* Too late: the record goes all the same.
RestoreSpent(r) ==
    /\ at = "idle"
    /\ r.left = 0
    /\ grace' = grace \ {r}
    /\ UNCHANGED <<rows, recency, embeddings, filter, at, restoring>>

ForgetRestored ==
    /\ at = "forget"
    /\ grace' = grace \ {restoring}
    /\ at' = "idle" /\ restoring' = NoRecord
    /\ UNCHANGED <<rows, recency, embeddings, filter>>

(***************************************************************************)
(* Idle maintenance.                                                       *)
(***************************************************************************)
\* Mutant: the vector of a reclassified clip stays.
ClawbackKeepsVectors(found, ttl) ==
    /\ at = "idle"
    /\ rows' = [c \in Stored |->
                   IF c \in found
                     THEN [rows[c] EXCEPT !.sensitive = TRUE, !.indexed = FALSE,
                                          !.expiry = Bounded(TRUE, Shorter(@, ttl))]
                     ELSE rows[c]]
    /\ UNCHANGED <<recency, embeddings, filter, grace, at, restoring>>

\* clawback_sensitive of a batch; SecretScan says which rows it reaches.
Clawback(found, ttl) ==
    /\ at = "idle"
    /\ rows' = [c \in Stored |->
                   IF c \in found
                     THEN [rows[c] EXCEPT !.sensitive = TRUE, !.indexed = FALSE,
                                          !.expiry = Bounded(TRUE, Shorter(@, ttl))]
                     ELSE rows[c]]
    /\ embeddings' = embeddings \ found
    /\ UNCHANGED <<recency, filter, grace, at, restoring>>

Suspects == {c \in Stored \cap Secretive : ~rows[c].sensitive /\ rows[c].indexed}

BackfillEmbeddings ==
    /\ at = "idle"
    /\ \E found \in SUBSET {c \in Stored \ Expired : ~rows[c].sensitive /\ rows[c].indexed} :
          embeddings' = embeddings \cup found
    /\ UNCHANGED <<rows, recency, filter, grace, at, restoring>>

(***************************************************************************)
(* The process dies, between two commits of a call or not, and the store    *)
(* is opened again: session protection is gone, sensitive rows are scrubbed *)
(* and the filter is rebuilt; main then calls enforce_cap, whose count      *)
(* leaves out the expired rows its sweep may take.                         *)
(***************************************************************************)
Reopen ==
    /\ rows' = [c \in Stored |-> [rows[c] EXCEPT !.flags = @ \ {"protected"},
                                                 !.indexed = @ /\ ~rows[c].sensitive]]
    /\ embeddings' = {c \in embeddings : c \in Stored => ~rows[c].sensitive}
    /\ filter' = Stored
    /\ at' = "cap" /\ restoring' = NoRecord
    /\ UNCHANGED <<recency, grace>>

Tick ==
    /\ at = "idle"
    /\ rows' = [c \in Stored |-> [rows[c] EXCEPT !.expiry = Less(@)]]
    /\ grace' = {[r EXCEPT !.expiry = Less(@), !.left = IF @ > 0 THEN @ - 1 ELSE 0] : r \in grace}
    /\ UNCHANGED <<recency, embeddings, filter, at, restoring>>

Maintain ==
    \/ PurgeExpired \/ PurgeGraceBin \/ Sweep \/ BackfillEmbeddings
    \/ \E found \in SUBSET Suspects, ttl \in 1 .. Life : Clawback(found, ttl)

Next ==
    \/ \E c \in Contents, new \in Incoming : Capture(c, new)
    \/ EnforceCap
    \/ \E c \in Stored, f \in Flags : SetFlag(c, f)
    \/ \E c \in Stored, t \in 1 .. Forever : SetTtl(c, t)
    \/ \E c \in Stored : Delete(c) \/ Seal(c)
    \/ Clear \/ ClearAll
    \/ \E r \in grace : Restore(r) \/ RestoreSpent(r)
    \/ ForgetRestored
    \/ Maintain
    \/ Reopen \/ Tick

Spec == Init /\ [][Next]_vars

(***************************************************************************)
(* Properties.                                                             *)
(***************************************************************************)
\* Types; the recency order lists exactly the rows.
TypeOK ==
    /\ Stored \subseteq Contents /\ rows \in [Stored -> Row]
    /\ ToSet(recency) = Stored /\ Len(recency) = Cardinality(Stored)
    /\ embeddings \subseteq Contents /\ filter \subseteq Contents
    /\ grace \subseteq Sealed /\ Cardinality(grace) <= MaxSealed
    /\ at \in {"idle", "cap", "forget"}
    /\ restoring \in Sealed \cup {NoRecord}

\* A clip under legal hold leaves the table only when its hard privacy deadline has
\* passed, on whatever path (docs/data-contract-v3.md, "Legal hold").
HeldOnlyExpires ==
    [][\A c \in Stored : Has(c, "held") /\ c \notin Stored' => rows[c].expiry = 0]_vars

\* While its row lives, a sensitive clip stays sensitive and its deadline only comes
\* closer: re-copies, restores, edits and background passes tighten, never loosen
\* (tighten_sensitive, the merge in insert, set_ttl).  A copy of an expired row's content
\* makes a new row: insert purges first.
PrivacyRatchet ==
    [][\A c \in (Stored \ Expired) \cap Stored' : rows[c].sensitive =>
          rows'[c].sensitive /\ rows'[c].expiry <= rows[c].expiry]_vars

\* A sensitive row has a deadline, nothing of its text in the search projection and no
\* feature vector; and no vector outlives its row.
SensitiveIsScrubbed ==
    /\ \A c \in Stored : rows[c].sensitive =>
          ~rows[c].indexed /\ rows[c].expiry # Forever /\ c \notin embeddings
    /\ embeddings \subseteq Stored

\* insert trusts the bloom filter when it says a content is new: were a stored content
\* missing from it, the unique index would refuse the copy for ever.
FilterCoversRows == Stored \subseteq filter

\* A record leaves the grace bin when its window has passed, or when its content is a
\* live row again, even if the process dies in the middle of a restore.
SealedIsRecoverable ==
    [][\A r \in grace : r.left > 0 /\ (\A s \in grace' : s.content # r.content)
          => r.content \in Stored']_vars

\* architecture.md, retention: "Count cap: after each insert, keep newest N where not
\* protected; delete the rest oldest-first".  Read at its weakest: of the N newest clips,
\* enforce_cap takes none.
NewestAreKept ==
    [][at = "cap" /\ at' = "idle" => \A c \in Stored \ Expired :
          Cardinality({d \in Stored : Older(c, d)}) < MaxHistory => c \in Stored']_vars
=============================================================================
