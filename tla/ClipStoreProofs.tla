--------------------------- MODULE ClipStoreProofs ---------------------------
(***************************************************************************)
(* Proofs about ClipStore for every set of contents, every lifetime and     *)
(* every cap: what a stored row may never lose, on whatever path.           *)
(***************************************************************************)
EXTENDS ClipStore, FoldLemmas

\* The rows and the sealed records keep their types.
RowsTyped ==
    /\ Stored \subseteq Contents /\ rows \in [Stored -> Row]
    /\ grace \subseteq Sealed

\* Between the two commits of a restore, the clip is back and its record known.
RestoredIsLive ==
    at = "forget" => restoring \in grace /\ restoring.content \in Stored

IInv ==
    /\ RowsTyped
    /\ SensitiveIsScrubbed
    /\ FilterCoversRows
    /\ RestoredIsLive

\* What tighten_sensitive guarantees of a row.
Tight(row) == row.sensitive => ~row.indexed /\ row.expiry # Forever

-----------------------------------------------------------------------------
(* Lifetimes.                                                              *)

\* The shorter of two lifetimes is one of them and no longer than either.
LEMMA ShorterBounds ==
    ASSUME NEW s \in Lifetimes, NEW t \in Lifetimes
    PROVE  Shorter(s, t) \in Lifetimes /\ Shorter(s, t) <= s /\ Shorter(s, t) <= t
  BY StoreAssumption DEF Shorter, Lifetimes, Forever

\* tighten_sensitive bounds a sensitive row and leaves a bounded lifetime alone.
LEMMA BoundedLifetime ==
    ASSUME NEW s \in BOOLEAN, NEW t \in Lifetimes
    PROVE  /\ Bounded(s, t) \in Lifetimes
           /\ s => Bounded(s, t) # Forever
           /\ t # Forever => Bounded(s, t) = t
  BY StoreAssumption DEF Bounded, Lifetimes, Forever

\* A tick makes no lifetime longer and gives no row an endless one.
LEMMA LessLifetime ==
    ASSUME NEW t \in Lifetimes
    PROVE  Less(t) \in Lifetimes /\ Less(t) <= t /\ (t # Forever => Less(t) # Forever)
  BY StoreAssumption DEF Less, Lifetimes, Forever

\* The merge of a copy into a row is a tight row that is at least as strict.
LEMMA MergedTightens ==
    ASSUME NEW row \in Row, Tight(row), NEW new,
           new.sensitive \in BOOLEAN, new.expiry \in Lifetimes
    PROVE  /\ Merged(row, new) \in Row
           /\ Tight(Merged(row, new))
           /\ row.sensitive => /\ Merged(row, new).sensitive
                               /\ Merged(row, new).expiry <= row.expiry
<1> DEFINE sensitive == row.sensitive \/ new.sensitive
           least == Shorter(row.expiry, new.expiry)
<1>1. row.expiry \in Lifetimes /\ row.sensitive \in BOOLEAN
  BY DEF Row
<1>2. least \in Lifetimes /\ least <= row.expiry
  BY <1>1, ShorterBounds
<1>3. /\ Bounded(sensitive, least) \in Lifetimes
      /\ sensitive => Bounded(sensitive, least) # Forever
      /\ least # Forever => Bounded(sensitive, least) = least
  <2> HIDE DEF least
  <2> QED BY <1>1, <1>2, BoundedLifetime
<1>4. Merged(row, new) = [row EXCEPT !.sensitive = sensitive, !.indexed = ~sensitive,
                                     !.expiry = Bounded(sensitive, least)]
  BY DEF Merged
<1>5. row.sensitive => row.expiry \in Nat /\ row.expiry < Forever
  BY <1>1, StoreAssumption DEF Tight, Lifetimes, Forever
<1>6. row.sensitive => least # Forever
  BY <1>2, <1>5, StoreAssumption DEF Lifetimes, Forever
<1> HIDE DEF least
<1> QED
  BY <1>1, <1>2, <1>3, <1>4, <1>6 DEF Row, Tight

\* A fresh row is tight.
LEMMA FreshIsTight ==
    ASSUME NEW new, new.sensitive \in BOOLEAN, new.expiry \in Lifetimes,
           NEW flags \in SUBSET Flags
    PROVE  Fresh(new, flags) \in Row /\ Tight(Fresh(new, flags))
  BY BoundedLifetime DEF Fresh, Row, Tight

-----------------------------------------------------------------------------
(* What one insertion does to the table.                                   *)

\* Writing a tight row over a scrubbed table leaves a scrubbed table, and only expired
\* rows leave it.
LEMMA WrittenScrubbed ==
    ASSUME RowsTyped, SensitiveIsScrubbed, NEW c \in Contents, NEW row \in Row,
           Tight(row), Written(c, row)
    PROVE  /\ Stored' = (Stored \ Expired) \cup {c}
           /\ rows' \in [Stored' -> Row]
           /\ rows'[c] = row
           /\ \A d \in Stored \ Expired : d # c => rows'[d] = rows[d]
           /\ SensitiveIsScrubbed'
<1>1. /\ Stored' = (Stored \ Expired) \cup {c}
      /\ rows'[c] = row
      /\ \A d \in Stored \ Expired : d # c => rows'[d] = rows[d]
      /\ rows' = [d \in (Stored \ Expired) \cup {c} |-> IF d = c THEN row ELSE rows[d]]
  BY DEF Written, Stored
<1>2. rows' \in [Stored' -> Row]
  BY <1>1 DEF RowsTyped
<1>3. PICK vector \in {{}, {c}} :
          /\ row.sensitive => vector = {}
          /\ embeddings' = ((embeddings \ Expired) \ {c}) \cup vector
  BY DEF Written
<1>4. embeddings' \subseteq Stored'
  BY <1>1, <1>3 DEF SensitiveIsScrubbed
<1>5. ASSUME NEW d \in Stored', rows'[d].sensitive
      PROVE  ~rows'[d].indexed /\ rows'[d].expiry # Forever /\ d \notin embeddings'
  <2>1. CASE d = c
    BY <1>1, <1>3, <1>5, <2>1 DEF Tight
  <2>2. CASE d # c
    BY <1>1, <1>3, <1>5, <2>2 DEF SensitiveIsScrubbed
  <2> QED BY <2>1, <2>2
<1> QED
  BY <1>1, <1>2, <1>4, <1>5 DEF SensitiveIsScrubbed

\* An insertion of a typed clip: the content is live afterwards, no row that was not
\* expired leaves, none is loosened, and the filter knows every row.
Inserts(c, new) ==
    \/ InsertKnown(c, new)
    \/ \E flags \in SUBSET Flags : \E place : InsertFresh(c, new, flags, place)

\* No live sensitive row is loosened.
Ratchets == \A c \in (Stored \ Expired) \cap Stored' : rows[c].sensitive =>
                rows'[c].sensitive /\ rows'[c].expiry <= rows[c].expiry

LEMMA RowsOfTable ==
    ASSUME RowsTyped, SensitiveIsScrubbed, NEW c \in Stored
    PROVE  /\ c \in Contents /\ rows[c] \in Row /\ Tight(rows[c])
           /\ rows[c].expiry \in Lifetimes /\ rows[c].expiry \in Nat
           /\ rows[c].sensitive \in BOOLEAN
  BY StoreAssumption DEF RowsTyped, SensitiveIsScrubbed, Tight, Row, Lifetimes, Forever

LEMMA InsertKeepsTable ==
    ASSUME RowsTyped, SensitiveIsScrubbed, FilterCoversRows, NEW c \in Contents, NEW new,
           new.sensitive \in BOOLEAN, new.expiry \in Lifetimes, Inserts(c, new)
    PROVE  /\ Stored' = (Stored \ Expired) \cup {c}
           /\ rows' \in [Stored' -> Row]
           /\ SensitiveIsScrubbed' /\ FilterCoversRows'
           /\ Ratchets
<1>1. CASE InsertKnown(c, new)
  <2>1. c \in Stored \ Expired /\ Written(c, Merged(rows[c], new)) /\ filter' = filter
    BY <1>1 DEF InsertKnown, Known
  <2>2. /\ Merged(rows[c], new) \in Row /\ Tight(Merged(rows[c], new))
        /\ rows[c].sensitive => /\ Merged(rows[c], new).sensitive
                                /\ Merged(rows[c], new).expiry <= rows[c].expiry
    BY <2>1, RowsOfTable, MergedTightens
  <2>3. /\ Stored' = (Stored \ Expired) \cup {c}
        /\ rows' \in [Stored' -> Row]
        /\ rows'[c] = Merged(rows[c], new)
        /\ \A d \in Stored \ Expired : d # c => rows'[d] = rows[d]
        /\ SensitiveIsScrubbed'
    BY <2>1, <2>2, WrittenScrubbed
  <2>4. ASSUME NEW d \in (Stored \ Expired) \cap Stored', rows[d].sensitive
        PROVE  rows'[d].sensitive /\ rows'[d].expiry <= rows[d].expiry
    <3>1. rows[d].expiry \in Nat
      BY RowsOfTable
    <3> QED BY <2>2, <2>3, <2>4, <3>1
  <2>5. FilterCoversRows'
    BY <2>1, <2>3 DEF FilterCoversRows
  <2> QED BY <2>3, <2>4, <2>5 DEF Ratchets
<1>2. ASSUME NEW flags \in SUBSET Flags, NEW place, InsertFresh(c, new, flags, place)
      PROVE  /\ Stored' = (Stored \ Expired) \cup {c}
             /\ rows' \in [Stored' -> Row]
             /\ SensitiveIsScrubbed' /\ FilterCoversRows'
             /\ Ratchets
  <2>1. c \notin Stored \ Expired /\ Written(c, Fresh(new, flags)) /\ filter' = filter \cup {c}
    BY <1>2 DEF InsertFresh
  <2>2. Fresh(new, flags) \in Row /\ Tight(Fresh(new, flags))
    BY FreshIsTight
  <2>3. /\ Stored' = (Stored \ Expired) \cup {c}
        /\ rows' \in [Stored' -> Row]
        /\ \A d \in Stored \ Expired : d # c => rows'[d] = rows[d]
        /\ SensitiveIsScrubbed'
    BY <2>1, <2>2, WrittenScrubbed
  <2>4. ASSUME NEW d \in (Stored \ Expired) \cap Stored', rows[d].sensitive
        PROVE  rows'[d].sensitive /\ rows'[d].expiry <= rows[d].expiry
    <3>1. rows[d].expiry \in Nat
      BY RowsOfTable
    <3> QED BY <2>1, <2>3, <2>4, <3>1
  <2>5. FilterCoversRows'
    BY <2>1, <2>3 DEF FilterCoversRows
  <2> QED BY <2>3, <2>4, <2>5 DEF Ratchets
<1> QED
  BY <1>1, <1>2 DEF Inserts

\* A deletion takes the rows named and leaves the others as they are.
LEMMA RemovalKeepsTable ==
    ASSUME RowsTyped, SensitiveIsScrubbed, FilterCoversRows, NEW gone, Removed(gone),
           filter' = filter
    PROVE  /\ Stored' = Stored \ gone
           /\ rows' \in [Stored' -> Row]
           /\ SensitiveIsScrubbed' /\ FilterCoversRows'
           /\ Ratchets
<1>1. /\ Stored' = Stored \ gone
      /\ \A d \in Stored' : rows'[d] = rows[d]
      /\ rows' = [d \in Stored \ gone |-> rows[d]]
      /\ embeddings' = embeddings \ gone
  BY DEF Removed, Kept, Stored
<1>2. rows' \in [Stored' -> Row]
  BY <1>1 DEF RowsTyped
<1>3. SensitiveIsScrubbed'
  BY <1>1 DEF SensitiveIsScrubbed
<1>4. ASSUME NEW d \in (Stored \ Expired) \cap Stored'
      PROVE  rows'[d] = rows[d] /\ rows[d].expiry <= rows[d].expiry
  BY <1>1, RowsOfTable
<1> QED
  BY <1>1, <1>2, <1>3, <1>4 DEF FilterCoversRows, Ratchets

\* A rewriting of the rows in place, each tight and no looser than it was.
LEMMA RewriteKeepsTable ==
    ASSUME RowsTyped, SensitiveIsScrubbed, FilterCoversRows,
           Stored' = Stored, rows' \in [Stored -> Row],
           \A c \in Stored : Tight(rows'[c]),
           \A c \in Stored : rows[c].sensitive =>
               rows'[c].sensitive /\ rows'[c].expiry <= rows[c].expiry,
           embeddings' \subseteq Stored,
           \A c \in embeddings' : ~rows'[c].sensitive,
           Stored \subseteq filter'
    PROVE  SensitiveIsScrubbed' /\ FilterCoversRows' /\ Ratchets
<1>1. SensitiveIsScrubbed'
  BY DEF SensitiveIsScrubbed, Tight
<1> QED
  BY <1>1 DEF FilterCoversRows, Ratchets

\* What one step does to the table: all the properties of a row at once.
TableKept ==
    /\ Stored' \subseteq Contents /\ rows' \in [Stored' -> Row]
    /\ SensitiveIsScrubbed' /\ FilterCoversRows'
    /\ Ratchets
    /\ \A c \in Stored \ Stored' : Has(c, "held") => rows[c].expiry = 0

\* A deletion that spares the held rows, or takes expired ones only.
LEMMA GuardedRemoval ==
    ASSUME IInv, NEW gone, Removed(gone), filter' = filter,
           gone \subseteq Unheld \/ gone \subseteq Expired
    PROVE  TableKept
<1>1. /\ Stored' = Stored \ gone
      /\ rows' \in [Stored' -> Row]
      /\ SensitiveIsScrubbed' /\ FilterCoversRows'
      /\ Ratchets
  BY RemovalKeepsTable DEF IInv
<1>2. ASSUME NEW c \in Stored \ Stored', Has(c, "held") PROVE rows[c].expiry = 0
  BY <1>1, <1>2 DEF Unheld, Expired
<1> QED
  BY <1>1, <1>2 DEF TableKept, IInv, RowsTyped

\* Only purge_expired, on the way into insert, takes rows when a clip is inserted.
LEMMA GuardedInsertion ==
    ASSUME IInv, NEW c \in Contents, NEW new,
           new.sensitive \in BOOLEAN, new.expiry \in Lifetimes, Inserts(c, new)
    PROVE  TableKept /\ c \in Stored'
<1>1. /\ Stored' = (Stored \ Expired) \cup {c}
      /\ rows' \in [Stored' -> Row]
      /\ SensitiveIsScrubbed' /\ FilterCoversRows'
      /\ Ratchets
  BY InsertKeepsTable DEF IInv
<1> QED
  BY <1>1 DEF TableKept, IInv, RowsTyped, Expired

-----------------------------------------------------------------------------
(* The steps.                                                              *)

\* Rows rewritten in place stay what TableKept asks.
LEMMA GuardedRewrite ==
    ASSUME IInv,
           Stored' = Stored, rows' \in [Stored -> Row],
           \A c \in Stored : Tight(rows'[c]),
           \A c \in Stored : rows[c].sensitive =>
               rows'[c].sensitive /\ rows'[c].expiry <= rows[c].expiry,
           embeddings' \subseteq Stored,
           \A c \in embeddings' : ~rows'[c].sensitive,
           Stored \subseteq filter'
    PROVE  TableKept
<1>1. SensitiveIsScrubbed' /\ FilterCoversRows' /\ Ratchets
  BY RewriteKeepsTable DEF IInv
<1> QED
  BY <1>1 DEF TableKept, IInv, RowsTyped

\* A step that leaves the rows alone and gives no vector to a sensitive one.
LEMMA RowsUntouched ==
    ASSUME IInv, rows' = rows, filter' = filter, embeddings' \subseteq Stored,
           \A c \in embeddings' : ~rows[c].sensitive
    PROVE  TableKept
<1>1. \A c \in Stored : Tight(rows[c]) /\ rows[c].expiry \in Nat
  BY RowsOfTable DEF IInv
<1>2. Stored' = Stored
  BY DEF Stored
<1> QED
  BY <1>1, <1>2, GuardedRewrite DEF IInv, RowsTyped, FilterCoversRows

\* The vectors of a scrubbed table belong to ordinary rows.
LEMMA VectorsAreOrdinary ==
    ASSUME SensitiveIsScrubbed
    PROVE  embeddings \subseteq Stored /\ \A c \in embeddings : ~rows[c].sensitive
  BY DEF SensitiveIsScrubbed

LEMMA CaptureStep ==
    ASSUME IInv, NEW c \in Contents, NEW new \in Incoming, Capture(c, new)
    PROVE  TableKept
<1>1. new.sensitive \in BOOLEAN /\ new.expiry \in Lifetimes
  <2>1. CASE new = [sensitive |-> FALSE, expiry |-> Forever]
    BY <2>1, StoreAssumption DEF Lifetimes, Forever
  <2>2. ASSUME NEW t \in 1 .. Forever, new = [sensitive |-> TRUE, expiry |-> t]
        PROVE  new.sensitive \in BOOLEAN /\ new.expiry \in Lifetimes
    <3>1. t \in Lifetimes
      BY StoreAssumption DEF Lifetimes, Forever
    <3> QED BY <2>2, <3>1
  <2> QED BY <2>1, <2>2 DEF Incoming
<1>2. Inserts(c, new)
  BY DEF Capture, Inserts
<1> QED
  BY <1>1, <1>2, GuardedInsertion

LEMMA RestoreStep ==
    ASSUME IInv, NEW r \in grace, Restore(r)
    PROVE  TableKept /\ r.content \in Stored'
<1> DEFINE new == [sensitive |-> r.sensitive, expiry |-> r.expiry]
<1>1. r \in Sealed
  BY DEF IInv, RowsTyped
<1>2. r.content \in Contents /\ r.flags \in SUBSET Flags
      /\ new.sensitive \in BOOLEAN /\ new.expiry \in Lifetimes
  BY <1>1 DEF Sealed
<1>3. Inserts(r.content, new)
  BY <1>2 DEF Restore, Inserts
<1> HIDE DEF new
<1> QED
  BY <1>2, <1>3, GuardedInsertion

LEMMA SetFlagStep ==
    ASSUME IInv, NEW c \in Stored, NEW f \in Flags, SetFlag(c, f)
    PROVE  TableKept
<1>1. PICK flags \in {rows[c].flags \cup {f}, rows[c].flags \ {f}} :
          rows' = [rows EXCEPT ![c].flags = flags]
  BY DEF SetFlag
<1>2. \A d \in Stored : rows[d] \in Row /\ Tight(rows[d]) /\ rows[d].expiry \in Nat
  BY RowsOfTable DEF IInv
<1>3. flags \in SUBSET Flags
  BY <1>2 DEF Row
<1>4. Stored' = Stored /\ rows' \in [Stored -> Row]
  BY <1>1, <1>2, <1>3 DEF Stored, IInv, RowsTyped, Row
<1>5. \A d \in Stored : /\ rows'[d].sensitive = rows[d].sensitive
                        /\ rows'[d].expiry = rows[d].expiry
                        /\ rows'[d].indexed = rows[d].indexed
  BY <1>1, <1>2 DEF IInv, RowsTyped, Row
<1>6. embeddings' \subseteq Stored /\ \A d \in embeddings' : ~rows'[d].sensitive
  BY <1>5, VectorsAreOrdinary DEF SetFlag, IInv
<1> QED
  BY <1>2, <1>4, <1>5, <1>6, GuardedRewrite DEF SetFlag, IInv, Tight, FilterCoversRows

LEMMA SetTtlStep ==
    ASSUME IInv, NEW c \in Stored, NEW t \in 1 .. Forever, SetTtl(c, t)
    PROVE  TableKept
<1>1. /\ rows' = [rows EXCEPT ![c].expiry = t]
      /\ ~rows[c].sensitive
  BY DEF SetTtl
<1>2. \A d \in Stored : rows[d] \in Row /\ Tight(rows[d]) /\ rows[d].expiry \in Nat
  BY RowsOfTable DEF IInv
<1>3. t \in Lifetimes
  BY StoreAssumption DEF Lifetimes, Forever
<1>4. Stored' = Stored /\ rows' \in [Stored -> Row]
  BY <1>1, <1>2, <1>3 DEF Stored, IInv, RowsTyped, Row
<1>5. \A d \in Stored : /\ rows'[d].sensitive = rows[d].sensitive
                        /\ rows'[d].indexed = rows[d].indexed
                        /\ rows[d].sensitive => rows'[d].expiry = rows[d].expiry
  BY <1>1, <1>2 DEF IInv, RowsTyped, Row
<1>6. embeddings' \subseteq Stored /\ \A d \in embeddings' : ~rows'[d].sensitive
  BY <1>5, VectorsAreOrdinary DEF SetTtl, IInv
<1>7. \A d \in Stored : Tight(rows'[d])
  BY <1>2, <1>5 DEF Tight
<1> QED
  BY <1>2, <1>4, <1>5, <1>6, <1>7, GuardedRewrite DEF SetTtl, IInv, FilterCoversRows

LEMMA ClawbackStep ==
    ASSUME IInv, NEW found \in SUBSET Suspects, NEW ttl \in 1 .. Life, Clawback(found, ttl)
    PROVE  TableKept
<1> DEFINE deadline(c) == Bounded(TRUE, Shorter(rows[c].expiry, ttl))
           struck(c) == [rows[c] EXCEPT !.sensitive = TRUE, !.indexed = FALSE,
                                        !.expiry = deadline(c)]
<1>1. /\ rows' = [c \in Stored |-> IF c \in found THEN struck(c) ELSE rows[c]]
      /\ embeddings' = embeddings \ found
      /\ filter' = filter
  BY DEF Clawback
<1>2. \A d \in Stored : /\ rows[d] \in Row /\ Tight(rows[d])
                        /\ rows[d].expiry \in Nat /\ rows[d].expiry \in Lifetimes
  BY RowsOfTable DEF IInv
<1>3. ASSUME NEW d \in Stored
      PROVE  /\ deadline(d) \in Lifetimes /\ deadline(d) # Forever
             /\ struck(d) \in Row /\ struck(d).sensitive /\ Tight(struck(d))
  <2>1. ttl \in Lifetimes
    BY StoreAssumption DEF Lifetimes, Forever
  <2>2. deadline(d) \in Lifetimes /\ deadline(d) # Forever
    BY <1>2, <2>1, ShorterBounds, BoundedLifetime
  <2> HIDE DEF deadline
  <2> QED BY <1>2, <2>2 DEF Row, Tight
<1>4. \A d \in found : ~rows[d].sensitive /\ d \in Stored
  BY DEF Suspects
<1>5. Stored' = Stored /\ rows' \in [Stored -> Row]
  <2>1. \A d \in Stored : (IF d \in found THEN struck(d) ELSE rows[d]) \in Row
    BY <1>2, <1>3
  <2> HIDE DEF struck
  <2> QED BY <1>1, <2>1 DEF Stored
<1>6. \A d \in Stored : rows'[d] = IF d \in found THEN struck(d) ELSE rows[d]
  <2> HIDE DEF struck
  <2> QED BY <1>1
<1> HIDE DEF struck
<1>7. \A d \in Stored : Tight(rows'[d])
  BY <1>2, <1>3, <1>6
<1>8. \A d \in Stored : rows[d].sensitive =>
          rows'[d].sensitive /\ rows'[d].expiry <= rows[d].expiry
  BY <1>2, <1>4, <1>6
<1>9. embeddings' \subseteq Stored /\ \A d \in embeddings' : ~rows'[d].sensitive
  BY <1>1, <1>6, VectorsAreOrdinary DEF IInv
<1> QED
  BY <1>1, <1>5, <1>7, <1>8, <1>9, GuardedRewrite DEF IInv, FilterCoversRows

LEMMA TickStep ==
    ASSUME IInv, Tick
    PROVE  TableKept
<1>1. /\ rows' = [c \in Stored |-> [rows[c] EXCEPT !.expiry = Less(rows[c].expiry)]]
      /\ embeddings' = embeddings /\ filter' = filter
  BY DEF Tick
<1>2. \A d \in Stored : /\ rows[d] \in Row /\ Tight(rows[d])
                        /\ rows[d].expiry \in Nat /\ rows[d].expiry \in Lifetimes
  BY RowsOfTable DEF IInv
<1>3. ASSUME NEW d \in Stored
      PROVE  /\ Less(rows[d].expiry) \in Lifetimes /\ Less(rows[d].expiry) <= rows[d].expiry
             /\ rows[d].expiry # Forever => Less(rows[d].expiry) # Forever
  BY <1>2, LessLifetime
<1>4. ASSUME NEW d \in Stored
      PROVE  /\ rows'[d] \in Row /\ rows'[d].expiry = Less(rows[d].expiry)
             /\ rows'[d].sensitive = rows[d].sensitive
             /\ rows'[d].indexed = rows[d].indexed
  BY <1>1, <1>2, <1>3 DEF Row
<1>5. Stored' = Stored /\ rows' \in [Stored -> Row]
  BY <1>1, <1>4 DEF Stored
<1>6. \A d \in Stored : Tight(rows'[d])
  BY <1>2, <1>3, <1>4 DEF Tight
<1>7. \A d \in Stored : rows[d].sensitive =>
          rows'[d].sensitive /\ rows'[d].expiry <= rows[d].expiry
  BY <1>3, <1>4
<1>8. embeddings' \subseteq Stored /\ \A d \in embeddings' : ~rows'[d].sensitive
  BY <1>1, <1>4, VectorsAreOrdinary DEF IInv
<1> QED
  BY <1>1, <1>5, <1>6, <1>7, <1>8, GuardedRewrite DEF IInv, FilterCoversRows

LEMMA ReopenStep ==
    ASSUME IInv, Reopen
    PROVE  TableKept
<1>1. /\ rows' = [c \in Stored |-> [rows[c] EXCEPT !.flags = rows[c].flags \ {"protected"},
                                       !.indexed = rows[c].indexed /\ ~rows[c].sensitive]]
      /\ embeddings' = {c \in embeddings : c \in Stored => ~rows[c].sensitive}
      /\ filter' = Stored
  BY DEF Reopen
<1>2. \A d \in Stored : /\ rows[d] \in Row /\ Tight(rows[d])
                        /\ rows[d].expiry \in Nat /\ rows[d].expiry \in Lifetimes
  BY RowsOfTable DEF IInv
<1>3. ASSUME NEW d \in Stored
      PROVE  /\ rows'[d] \in Row /\ rows'[d].expiry = rows[d].expiry
             /\ rows'[d].sensitive = rows[d].sensitive
             /\ rows[d].sensitive => ~rows'[d].indexed
  <2>1. rows'[d] = [rows[d] EXCEPT !.flags = rows[d].flags \ {"protected"},
                                   !.indexed = rows[d].indexed /\ ~rows[d].sensitive]
    BY <1>1
  <2>2. rows[d].sensitive \in BOOLEAN /\ rows[d].indexed \in BOOLEAN
        /\ rows[d].expiry \in Lifetimes /\ rows[d].flags \in SUBSET Flags
    BY <1>2 DEF Row
  <2> DEFINE still == rows[d].indexed /\ ~rows[d].sensitive
             left == rows[d].flags \ {"protected"}
  <2>3. rows'[d] = [sensitive |-> rows[d].sensitive, expiry |-> rows[d].expiry,
                    flags |-> left, indexed |-> still]
    BY <1>2, <2>1 DEF Row
  <2>4. still \in BOOLEAN /\ left \in SUBSET Flags /\ (rows[d].sensitive => ~still)
    BY <2>2
  <2> HIDE DEF still, left
  <2>5. rows'[d] \in Row
    BY <2>2, <2>3, <2>4 DEF Row
  <2>6. /\ rows'[d].expiry = rows[d].expiry
        /\ rows'[d].sensitive = rows[d].sensitive
        /\ rows'[d].indexed = still
    BY <2>3
  <2> QED BY <2>4, <2>5, <2>6
<1>4. Stored' = Stored /\ rows' \in [Stored -> Row]
  BY <1>1, <1>3 DEF Stored
<1>5. \A d \in Stored : Tight(rows'[d])
  BY <1>2, <1>3 DEF Tight
<1>6. \A d \in Stored : rows[d].sensitive =>
          rows'[d].sensitive /\ rows'[d].expiry <= rows[d].expiry
  BY <1>2, <1>3
<1>7. embeddings' \subseteq Stored /\ \A d \in embeddings' : ~rows'[d].sensitive
  BY <1>1, <1>3, VectorsAreOrdinary DEF IInv
<1> QED
  BY <1>1, <1>4, <1>5, <1>6, <1>7, GuardedRewrite DEF IInv, FilterCoversRows

\* What the sweeps and the two clearing commands may take is not held.
LEMMA SweepsSpareHeld == Overflow \subseteq Unheld /\ Sweepable \subseteq Unheld
                         /\ Clearable \subseteq Unheld
  BY DEF Overflow, Sweepable, Clearable

\* Whatever happens, the table keeps what TableKept asks.
LEMMA TableStep == IInv /\ [Next]_vars => TableKept
<1> SUFFICES ASSUME IInv, [Next]_vars PROVE TableKept
  OBVIOUS
<1>0. embeddings \subseteq Stored /\ \A c \in embeddings : ~rows[c].sensitive
  BY VectorsAreOrdinary DEF IInv
<1>1. ASSUME NEW c \in Contents, NEW new \in Incoming, Capture(c, new) PROVE TableKept
  BY <1>1, CaptureStep
<1>2. CASE EnforceCap
  BY <1>2, SweepsSpareHeld, GuardedRemoval DEF EnforceCap
<1>3. ASSUME NEW c \in Stored, NEW f \in Flags, SetFlag(c, f) PROVE TableKept
  BY <1>3, SetFlagStep
<1>4. ASSUME NEW c \in Stored, NEW t \in 1 .. Forever, SetTtl(c, t) PROVE TableKept
  BY <1>4, SetTtlStep
<1>5. ASSUME NEW c \in Stored, Delete(c) PROVE TableKept
  BY <1>5, GuardedRemoval DEF Delete, DeleteSome
<1>6. ASSUME NEW c \in Stored, Seal(c) PROVE TableKept
  BY <1>6, GuardedRemoval DEF Seal
<1>7. CASE Clear
  BY <1>7, SweepsSpareHeld, GuardedRemoval DEF Clear, DeleteSome
<1>8. CASE ClearAll
  BY <1>8, GuardedRemoval DEF ClearAll, DeleteSome
<1>9. ASSUME NEW r \in grace, Restore(r) PROVE TableKept
  BY <1>9, RestoreStep
<1>10. ASSUME NEW r \in grace, RestoreSpent(r) PROVE TableKept
  BY <1>0, <1>10, RowsUntouched DEF RestoreSpent
<1>11. CASE ForgetRestored
  BY <1>0, <1>11, RowsUntouched DEF ForgetRestored
<1>12. CASE PurgeExpired
  BY <1>12, GuardedRemoval DEF PurgeExpired, DeleteSome
<1>13. CASE PurgeGraceBin
  BY <1>0, <1>13, RowsUntouched DEF PurgeGraceBin
<1>14. CASE Sweep
  BY <1>14, SweepsSpareHeld, GuardedRemoval DEF Sweep, DeleteSome
<1>15. CASE BackfillEmbeddings
  BY <1>0, <1>15, RowsUntouched DEF BackfillEmbeddings
<1>16. ASSUME NEW found \in SUBSET Suspects, NEW ttl \in 1 .. Life, Clawback(found, ttl)
       PROVE  TableKept
  BY <1>16, ClawbackStep
<1>17. CASE Reopen
  BY <1>17, ReopenStep
<1>18. CASE Tick
  BY <1>18, TickStep
<1>19. CASE UNCHANGED vars
  BY <1>0, <1>19, RowsUntouched DEF vars
<1> QED
  BY <1>1, <1>2, <1>3, <1>4, <1>5, <1>6, <1>7, <1>8, <1>9, <1>10, <1>11, <1>12, <1>13,
     <1>14, <1>15, <1>16, <1>17, <1>18, <1>19 DEF Next, Maintain

\* The sealed records keep their type, and a restore under way has its clip in the table.
LEMMA GraceStep == IInv /\ [Next]_vars => grace' \subseteq Sealed /\ RestoredIsLive'
<1> SUFFICES ASSUME IInv, [Next]_vars PROVE grace' \subseteq Sealed /\ RestoredIsLive'
  OBVIOUS
<1> USE DEF RestoredIsLive
<1>0. grace \subseteq Sealed
  BY DEF IInv, RowsTyped
<1>1. ASSUME NEW c \in Contents, NEW new \in Incoming, Capture(c, new)
      PROVE  grace' \subseteq Sealed /\ RestoredIsLive'
  BY <1>0, <1>1 DEF Capture
<1>2. CASE EnforceCap
  BY <1>0, <1>2 DEF EnforceCap
<1>3. ASSUME NEW c \in Stored, NEW f \in Flags, SetFlag(c, f)
      PROVE  grace' \subseteq Sealed /\ RestoredIsLive'
  BY <1>0, <1>3 DEF SetFlag
<1>4. ASSUME NEW c \in Stored, NEW t \in 1 .. Forever, SetTtl(c, t)
      PROVE  grace' \subseteq Sealed /\ RestoredIsLive'
  BY <1>0, <1>4 DEF SetTtl
<1>5. ASSUME NEW gone, DeleteSome(gone)
      PROVE  grace' \subseteq Sealed /\ RestoredIsLive'
  BY <1>0, <1>5 DEF DeleteSome
<1>6. ASSUME NEW c \in Stored, Seal(c)
      PROVE  grace' \subseteq Sealed /\ RestoredIsLive'
  <2>1. rows[c] \in Row /\ c \in Contents
    BY RowsOfTable DEF IInv
  <2>2. SealedCopy(c) \in Sealed
    BY <2>1, StoreAssumption DEF SealedCopy, Sealed, Row
  <2> QED BY <1>0, <1>6, <2>2 DEF Seal, Unspent
<1>7. ASSUME NEW r \in grace, Restore(r)
      PROVE  grace' \subseteq Sealed /\ RestoredIsLive'
  BY <1>0, <1>7, RestoreStep DEF Restore
<1>8. ASSUME NEW r \in grace, RestoreSpent(r)
      PROVE  grace' \subseteq Sealed /\ RestoredIsLive'
  BY <1>0, <1>8 DEF RestoreSpent
<1>9. CASE ForgetRestored
  BY <1>0, <1>9 DEF ForgetRestored
<1>10. CASE PurgeGraceBin
  BY <1>0, <1>10 DEF PurgeGraceBin, Unspent
<1>11. CASE BackfillEmbeddings
  BY <1>0, <1>11 DEF BackfillEmbeddings
<1>12. ASSUME NEW found \in SUBSET Suspects, NEW ttl \in 1 .. Life, Clawback(found, ttl)
       PROVE  grace' \subseteq Sealed /\ RestoredIsLive'
  BY <1>0, <1>12 DEF Clawback
<1>13. CASE Reopen
  BY <1>0, <1>13 DEF Reopen
<1>14. CASE Tick
  <2>1. /\ at # "forget" /\ at' = at
        /\ grace' = {[r EXCEPT !.expiry = Less(r.expiry),
                               !.left = IF r.left > 0 THEN r.left - 1 ELSE 0] : r \in grace}
    BY <1>14 DEF Tick
  <2>2. ASSUME NEW r \in grace
        PROVE  [r EXCEPT !.expiry = Less(r.expiry),
                         !.left = IF r.left > 0 THEN r.left - 1 ELSE 0] \in Sealed
    <3>1. r \in Sealed
      BY <1>0
    <3>2. Less(r.expiry) \in Lifetimes
      BY <3>1, LessLifetime DEF Sealed
    <3>3. (IF r.left > 0 THEN r.left - 1 ELSE 0) \in 0 .. Window
      BY <3>1, StoreAssumption DEF Sealed
    <3> QED BY <3>1, <3>2, <3>3 DEF Sealed
  <2> QED BY <2>1, <2>2
<1>15. CASE UNCHANGED vars
  <2>1. Stored' = Stored
    BY <1>15 DEF vars, Stored
  <2> QED BY <1>0, <1>15, <2>1 DEF vars, IInv
<1>16. \/ Clear \/ ClearAll \/ Sweep \/ PurgeExpired \/ (\E c \in Stored : Delete(c))
       => \E gone : DeleteSome(gone)
  BY DEF Clear, ClearAll, Sweep, PurgeExpired, Delete
<1> QED
  BY <1>1, <1>2, <1>3, <1>4, <1>5, <1>6, <1>7, <1>8, <1>9, <1>10, <1>11, <1>12, <1>13,
     <1>14, <1>15, <1>16 DEF Next, Maintain

-----------------------------------------------------------------------------
(* The order of the rows and the bin. *)

\* The order lists exactly the rows, each once.
OrderInv ==
    /\ recency \in Seq(Contents) /\ Distinct(recency) /\ Listed(recency) = Stored

\* The bin is within its bound; what a call left in between is one of its steps.
RestInv ==
    /\ IsFiniteSet(grace) /\ Cardinality(grace) <= MaxSealed
    /\ filter \subseteq Contents
    /\ at \in {"idle", "cap", "forget"} /\ restoring \in Sealed \cup {NoRecord}

LEMMA KeepingIs ==
    ASSUME NEW s \in Seq(Contents), NEW S
    PROVE  /\ Keeping(s, S) \in Seq(Contents) /\ Listed(Keeping(s, S)) = Listed(s) \cap S
           /\ Distinct(s) => Distinct(Keeping(s, S))
<1> DEFINE kept == Keeping(s, S)
<1>1. kept = KeepIterated(s, S)[DOMAIN s]
  BY DEF Keeping, FoldLeft, MapThenFoldSet, KeepIterated
<1> HIDE DEF kept
<1>2. kept \in Seq(Contents) /\ Listed(kept) = Listed(s) \cap S /\ (Distinct(s) => Distinct(kept))
  BY ONLY s \in Seq(Contents), <1>1, KeepIs
<1> QED
  BY ONLY <1>2 DEF kept

\* The rows gone leave the order, and only they.
LEMMA RemovalOrder ==
    ASSUME OrderInv, NEW gone, Removed(gone) PROVE OrderInv'
<1>1. recency' = Keeping(recency, Stored \ gone) /\ Stored' = Stored \ gone
  BY DEF Removed, Kept, Stored
<1>2. /\ recency' \in Seq(Contents) /\ Listed(recency') = Listed(recency) \cap (Stored \ gone)
      /\ Distinct(recency')
  BY <1>1, KeepingIs DEF OrderInv
<1> QED
  BY <1>1, <1>2 DEF OrderInv

\* A clip put at any place of an order without it.
LEMMA InsertLists ==
    ASSUME NEW C, NEW s \in Seq(C), NEW c \in C, NEW place \in 1..Len(s) + 1,
           Distinct(s), c \notin Listed(s)
    PROVE  /\ InsertAt(s, place, c) \in Seq(C) /\ Distinct(InsertAt(s, place, c))
           /\ Listed(InsertAt(s, place, c)) = Listed(s) \cup {c}
<1> DEFINE n == Len(s)
           r == InsertAt(s, place, c)
           a == SubSeq(s, 1, place - 1)
           b == SubSeq(s, place, n)
<1>0. n \in Nat /\ place \in 1..n + 1 /\ place \in Int /\ \A i \in 1..n : s[i] \in C
  OBVIOUS
<1> HIDE DEF n
<1>1. a \in Seq(C) /\ Len(a) = place - 1 /\ \A i \in 1..place - 1 : a[i] = s[i]
  <2>1. 1 \in Int /\ place - 1 \in Int /\ \A i \in 1..place - 1 : s[i] \in C
    BY <1>0
  <2>2. /\ SubSeq(s, 1, place - 1) \in Seq(C)
        /\ Len(SubSeq(s, 1, place - 1)) = IF 1 <= place - 1 THEN place - 1 - 1 + 1 ELSE 0
        /\ \A i \in 1..place - 1 - 1 + 1 : SubSeq(s, 1, place - 1)[i] = s[1 + i - 1]
    BY ONLY <2>1, SubSeqProperties
  <2> QED
    BY <1>0, <2>2
<1>2. b \in Seq(C) /\ Len(b) = n - place + 1 /\ \A i \in 1..n - place + 1 : b[i] = s[place + i - 1]
  <2>1. place \in Int /\ n \in Int /\ \A i \in place..n : s[i] \in C
    BY <1>0
  <2>2. /\ SubSeq(s, place, n) \in Seq(C)
        /\ Len(SubSeq(s, place, n)) = IF place <= n THEN n - place + 1 ELSE 0
        /\ \A i \in 1..n - place + 1 : SubSeq(s, place, n)[i] = s[place + i - 1]
    BY ONLY <2>1, SubSeqProperties
  <2> QED
    BY <1>0, <2>2
<1>3. r = (a \o <<c>>) \o b
  BY DEF InsertAt, n
<1> HIDE DEF a, b, r
<1>4. /\ a \o <<c>> \in Seq(C) /\ Len(a \o <<c>>) = place
      /\ \A i \in 1..place : (a \o <<c>>)[i] = IF i < place THEN a[i] ELSE c
  <2>1. <<c>> \in Seq(C) /\ Len(<<c>>) = 1 /\ <<c>>[1] = c
    OBVIOUS
  <2> DEFINE one == <<c>>
  <2> HIDE DEF one
  <2>2. one \in Seq(C) /\ Len(one) = 1 /\ one[1] = c
    BY <2>1 DEF one
  <2>3. /\ a \o one \in Seq(C) /\ Len(a \o one) = Len(a) + Len(one)
        /\ \A i \in 1..Len(a) + Len(one) :
             (a \o one)[i] = IF i <= Len(a) THEN a[i] ELSE one[i - Len(a)]
    BY ONLY <1>1, <2>2, ConcatProperties
  <2>4. ASSUME NEW i \in 1..place PROVE (a \o one)[i] = IF i < place THEN a[i] ELSE c
    <3>1. i \in 1..Len(a) + Len(one) /\ (i <= Len(a) <=> i < place)
      BY <1>0, <1>1, <2>2
    <3>2. ~(i < place) => i - Len(a) = 1
      BY <1>0, <1>1
    <3> QED
      BY <2>2, <2>3, <3>1, <3>2
  <2> QED
    BY <1>0, <1>1, <2>2, <2>3, <2>4 DEF one
<1> DEFINE f == a \o <<c>>
<1>5. f \in Seq(C) /\ Len(f) = place /\ \A i \in 1..place : f[i] = IF i < place THEN a[i] ELSE c
  BY <1>4
<1>6. r = f \o b
  BY <1>3
<1> HIDE DEF f
<1>7. /\ f \o b \in Seq(C) /\ Len(f \o b) = Len(f) + Len(b)
      /\ \A i \in 1..Len(f) + Len(b) : (f \o b)[i] = IF i <= Len(f) THEN f[i] ELSE b[i - Len(f)]
  BY ONLY <1>2, <1>5, ConcatProperties
\* The elements of r: those of s before the place, c, those of s from the place on.
<1>8. r \in Seq(C) /\ Len(r) = n + 1
  BY <1>0, <1>2, <1>5, <1>6, <1>7
<1>9. ASSUME NEW i \in 1..n + 1
      PROVE r[i] = IF i < place THEN s[i] ELSE IF i = place THEN c ELSE s[i - 1]
  <2>1. i \in 1..Len(f) + Len(b) /\ Len(f) = place
    BY <1>0, <1>2, <1>5
  <2>2. r[i] = IF i <= place THEN f[i] ELSE b[i - place]
    BY <1>6, <1>7, <2>1
  <2>3. CASE i < place
    <3>1. i \in 1..place /\ i \in 1..place - 1 /\ i <= place
      BY <1>0, <2>3
    <3> QED
      BY <1>1, <1>5, <2>2, <2>3, <3>1
  <2>4. CASE i = place
    <3>1. i \in 1..place /\ ~(i < place) /\ i <= place
      BY <1>0, <2>4
    <3> QED
      BY <1>5, <2>2, <2>4, <3>1
  <2>5. CASE i > place
    <3>1. i - place \in 1..n - place + 1 /\ place + (i - place) - 1 = i - 1
          /\ ~(i <= place) /\ ~(i < place) /\ i # place
      BY <1>0, <2>5
    <3>2. b[i - place] = s[place + (i - place) - 1]
      BY <1>2, <3>1
    <3> QED
      BY <2>2, <3>1, <3>2
  <2> QED
    BY <1>0, <2>3, <2>4, <2>5
<1>10. Listed(r) = Listed(s) \cup {c}
  <2>1. ASSUME NEW i \in 1..n + 1 PROVE r[i] \in Listed(s) \cup {c}
    <3>1. (i < place => i \in 1..n) /\ (i > place => i - 1 \in 1..n)
      BY <1>0
    <3> QED
      BY <1>0, <1>9, <3>1 DEF Listed, n
  <2>2. ASSUME NEW i \in 1..n PROVE s[i] \in Listed(r)
    <3>1. CASE i < place
      <4>1. i \in 1..n + 1
        BY <1>0
      <4>2. r[i] = s[i]
        BY <1>9, <3>1, <4>1
      <4> QED
        BY <1>8, <4>1, <4>2 DEF Listed
    <3>2. CASE ~(i < place)
      <4>1. i + 1 \in 1..n + 1 /\ ~(i + 1 < place) /\ i + 1 # place /\ i + 1 - 1 = i
        BY <1>0, <3>2
      <4>2. r[i + 1] = s[i + 1 - 1]
        BY <1>9, <4>1
      <4>3. r[i + 1] = s[i]
        BY <4>1, <4>2
      <4> QED
        BY <1>8, <4>1, <4>3 DEF Listed
    <3> QED
      BY <3>1, <3>2
  <2>3. c \in Listed(r)
    <3>1. place \in 1..n + 1 /\ r[place] = c
      BY <1>0, <1>9
    <3> QED
      BY <1>8, <3>1 DEF Listed
  <2> QED
    BY <1>8, <2>1, <2>2, <2>3 DEF Listed, n
<1>11. Distinct(r)
  <2> SUFFICES ASSUME NEW i \in 1..n + 1, NEW j \in 1..n + 1, r[i] = r[j] PROVE i = j
    BY <1>8 DEF Distinct
  <2> DEFINE At(k) == IF k < place THEN k ELSE k - 1
  <2>1. \A k \in 1..n + 1 : k # place => At(k) \in 1..n /\ r[k] = s[At(k)]
    BY <1>0, <1>9
  <2>2. \A k \in 1..n : s[k] # c
    BY DEF Listed, n
  <2>3. \A k, l \in 1..n : s[k] = s[l] => k = l
    BY DEF Distinct, n
  <2>4. r[place] = c
    BY <1>0, <1>9
  <2>5. CASE i = place \/ j = place
    BY <2>1, <2>2, <2>4, <2>5
  <2>6. CASE i # place /\ j # place
    <3>1. At(i) = At(j)
      <4>1. At(i) \in 1..n /\ At(j) \in 1..n /\ s[At(i)] = s[At(j)]
        BY <2>1, <2>6
      <4> HIDE DEF At
      <4> QED
        BY ONLY <2>3, <4>1
    <3> QED
      BY <1>0, <2>6, <3>1
  <2> QED
    BY <2>5, <2>6
<1> QED
  BY <1>8, <1>10, <1>11 DEF r

\* insert: the clip has one place in the order, the expired rows none.
LEMMA InsertionOrder ==
    ASSUME OrderInv, NEW c \in Contents, NEW new, Inserts(c, new) PROVE OrderInv'
<1>1. /\ LiveOrder \in Seq(Contents) /\ Distinct(LiveOrder)
      /\ Listed(LiveOrder) = Stored \ Expired
  BY KeepingIs DEF OrderInv, LiveOrder
<1>2. Stored' = (Stored \ Expired) \cup {c}
  BY DEF Inserts, InsertKnown, InsertFresh, Written, Stored
<1>3. CASE InsertKnown(c, new)
  <2> DEFINE rest == Keeping(LiveOrder, Stored \ {c})
  <2>1. recency' = Append(rest, c) /\ c \in Stored \ Expired
    BY <1>3 DEF InsertKnown, Known
  <2>2. /\ rest \in Seq(Contents) /\ Distinct(rest)
        /\ Listed(rest) = (Stored \ Expired) \cap (Stored \ {c})
    BY <1>1, KeepingIs
  <2> HIDE DEF rest
  <2>3. /\ recency' \in Seq(Contents) /\ Listed(recency') = Listed(rest) \cup {c}
        /\ Distinct(recency')
    BY <2>1, <2>2, AppendLists
  <2>4. Listed(recency') = Stored'
    BY <1>2, <2>1, <2>2, <2>3
  <2> QED
    BY <2>3, <2>4 DEF OrderInv
<1>4. ASSUME NEW flags \in SUBSET Flags, NEW place, InsertFresh(c, new, flags, place)
      PROVE OrderInv'
  <2>1. /\ c \notin Stored \ Expired /\ place \in 1..Len(LiveOrder) + 1
        /\ recency' = InsertAt(LiveOrder, place, c)
    BY <1>4 DEF InsertFresh
  <2>2. /\ recency' \in Seq(Contents) /\ Distinct(recency')
        /\ Listed(recency') = Listed(LiveOrder) \cup {c}
    BY <1>1, <2>1, InsertLists
  <2> QED
    BY <1>1, <1>2, <2>2 DEF OrderInv
<1> QED
  BY <1>3, <1>4 DEF Inserts

LEMMA OrderStep == IInv /\ OrderInv /\ [Next]_vars => OrderInv'
<1> SUFFICES ASSUME IInv, OrderInv, [Next]_vars PROVE OrderInv'
  OBVIOUS
<1>1. ASSUME UNCHANGED recency, Stored' = Stored PROVE OrderInv'
  BY <1>1 DEF OrderInv
<1>2. ASSUME NEW gone, DeleteSome(gone) PROVE OrderInv'
  BY <1>2, RemovalOrder DEF DeleteSome
<1>3. ASSUME NEW c \in Contents, NEW new \in Incoming, Capture(c, new) PROVE OrderInv'
  BY <1>3, InsertionOrder DEF Capture, Inserts
<1>4. CASE EnforceCap
  BY <1>4, RemovalOrder DEF EnforceCap
<1>5. ASSUME NEW c \in Stored, NEW f \in Flags, SetFlag(c, f) PROVE OrderInv'
  BY <1>1, <1>5 DEF SetFlag, Stored
<1>6. ASSUME NEW c \in Stored, NEW t \in 1 .. Forever, SetTtl(c, t) PROVE OrderInv'
  BY <1>1, <1>6 DEF SetTtl, Stored
<1>7. ASSUME NEW c \in Stored, Seal(c) PROVE OrderInv'
  BY <1>7, RemovalOrder DEF Seal
<1>8. ASSUME NEW r \in grace, Restore(r) PROVE OrderInv'
  <2> DEFINE new == [sensitive |-> r.sensitive, expiry |-> r.expiry]
  <2>1. r.content \in Contents /\ r.flags \in SUBSET Flags
    BY DEF IInv, RowsTyped, Sealed
  <2>2. Inserts(r.content, new)
    BY <1>8, <2>1 DEF Restore, Inserts
  <2> HIDE DEF new
  <2> QED
    BY <2>1, <2>2, InsertionOrder
<1>9. ASSUME NEW r \in grace, RestoreSpent(r) PROVE OrderInv'
  BY <1>1, <1>9 DEF RestoreSpent, Stored
<1>10. CASE ForgetRestored \/ PurgeGraceBin \/ BackfillEmbeddings
  BY <1>1, <1>10 DEF ForgetRestored, PurgeGraceBin, BackfillEmbeddings, Stored
<1>11. ASSUME NEW found \in SUBSET Suspects, NEW ttl \in 1 .. Life, Clawback(found, ttl)
       PROVE  OrderInv'
  BY <1>1, <1>11 DEF Clawback, Stored
<1>12. CASE Reopen
  BY <1>1, <1>12 DEF Reopen, Stored
<1>13. CASE Tick
  BY <1>1, <1>13 DEF Tick, Stored
<1>14. CASE UNCHANGED vars
  BY <1>1, <1>14 DEF vars, Stored
<1>15. \/ Clear \/ ClearAll \/ Sweep \/ PurgeExpired \/ (\E c \in Stored : Delete(c))
       => \E gone : DeleteSome(gone)
  BY DEF Clear, ClearAll, Sweep, PurgeExpired, Delete
<1> QED
  BY <1>2, <1>3, <1>4, <1>5, <1>6, <1>7, <1>8, <1>9, <1>10, <1>11, <1>12, <1>13, <1>14, <1>15
     DEF Next, Maintain

\* A bin that only loses records stays within its bound.
LEMMA SmallerBin ==
    ASSUME RestInv, NEW bin, bin \subseteq grace
    PROVE  IsFiniteSet(bin) /\ Cardinality(bin) <= MaxSealed
<1>1. IsFiniteSet(grace) /\ Cardinality(grace) <= MaxSealed /\ MaxSealed \in Nat
  BY StoreAssumption DEF RestInv
<1>2. IsFiniteSet(bin) /\ Cardinality(bin) <= Cardinality(grace)
  BY <1>1, FS_Subset
<1>3. Cardinality(bin) \in Nat /\ Cardinality(grace) \in Nat
  BY <1>1, <1>2, FS_CardinalityType
<1> QED
  BY <1>1, <1>2, <1>3

\* A tick ages the records; two may become alike, none splits.
LEMMA AgedBin ==
    ASSUME RestInv, Tick PROVE IsFiniteSet(grace') /\ Cardinality(grace') <= MaxSealed
<1> DEFINE aged == [r \in grace |-> [r EXCEPT !.expiry = Less(r.expiry),
                                              !.left = IF r.left > 0 THEN r.left - 1 ELSE 0]]
<1>1. grace' = {aged[r] : r \in grace}
  BY DEF Tick
<1>2. aged = [r \in grace |-> aged[r]]
  OBVIOUS
<1> HIDE DEF aged
<1>3. aged \in Surjection(grace, grace')
  BY <1>1, <1>2 DEF Surjection
<1>4. IsFiniteSet(grace) /\ Cardinality(grace) <= MaxSealed /\ MaxSealed \in Nat
  BY StoreAssumption DEF RestInv
<1> DEFINE old == grace
           later == grace'
<1> HIDE DEF old, later
<1>5. IsFiniteSet(old) /\ aged \in Surjection(old, later)
  BY <1>3, <1>4 DEF old, later
<1>6. IsFiniteSet(later) /\ Cardinality(later) <= Cardinality(old)
  BY ONLY <1>5, FS_Surjection
<1>7. Cardinality(later) \in Nat /\ Cardinality(old) \in Nat
  BY ONLY <1>5, <1>6, FS_CardinalityType
<1> QED
  BY <1>4, <1>6, <1>7 DEF old, later

LEMMA RestStep == IInv /\ RestInv /\ [Next]_vars => RestInv'
<1> SUFFICES ASSUME IInv, RestInv, [Next]_vars PROVE RestInv'
  OBVIOUS
<1> DEFINE BinOK == IsFiniteSet(grace') /\ Cardinality(grace') <= MaxSealed
<1>0. /\ filter \subseteq Contents /\ grace \subseteq Sealed /\ Stored \subseteq Contents
      /\ at \in {"idle", "cap", "forget"} /\ restoring \in Sealed \cup {NoRecord}
  BY DEF RestInv, IInv, RowsTyped
<1>1. ASSUME UNCHANGED <<grace, filter, at, restoring>> PROVE RestInv'
  BY <1>1 DEF RestInv
<1>2. ASSUME grace' \subseteq grace PROVE BinOK
  BY <1>2, SmallerBin
<1>3. ASSUME NEW gone, DeleteSome(gone) PROVE RestInv'
  BY <1>1, <1>3 DEF DeleteSome
<1>4. ASSUME NEW c \in Contents, NEW new \in Incoming, Capture(c, new) PROVE RestInv'
  <2>1. filter' \subseteq Contents /\ grace' = grace /\ restoring' = restoring /\ at' = "cap"
    BY <1>0, <1>4 DEF Capture, InsertKnown, InsertFresh
  <2> QED
    BY <2>1 DEF RestInv
<1>5. CASE EnforceCap
  BY <1>5 DEF EnforceCap, RestInv
<1>6. ASSUME NEW c \in Stored, NEW f \in Flags, SetFlag(c, f) PROVE RestInv'
  BY <1>1, <1>6 DEF SetFlag
<1>7. ASSUME NEW c \in Stored, NEW t \in 1 .. Forever, SetTtl(c, t) PROVE RestInv'
  BY <1>1, <1>7 DEF SetTtl
<1>8. ASSUME NEW c \in Stored, Seal(c) PROVE RestInv'
  <2> DEFINE x == SealedCopy(c)
  <2>1. Cardinality(Unspent) < MaxSealed /\ grace' = Unspent \cup {x}
        /\ UNCHANGED <<filter, at, restoring>>
    BY <1>8 DEF Seal
  <2> HIDE DEF x
  <2>2. IsFiniteSet(Unspent)
    BY SmallerBin DEF Unspent
  <2>3. IsFiniteSet(grace') /\ Cardinality(grace') = IF x \in Unspent THEN Cardinality(Unspent)
                                                   ELSE Cardinality(Unspent) + 1
    BY <2>1, <2>2, FS_AddElement
  <2>4. Cardinality(Unspent) \in Nat /\ MaxSealed \in Nat
    BY <2>2, FS_CardinalityType, StoreAssumption
  <2>5. Cardinality(grace') <= MaxSealed
    BY <2>1, <2>3, <2>4
  <2> QED
    BY <1>0, <2>1, <2>3, <2>5 DEF RestInv
<1>9. ASSUME NEW r \in grace, Restore(r) PROVE RestInv'
  <2>1. r \in Sealed /\ r.content \in Contents
    BY <1>0 DEF Sealed
  <2>2. filter' \subseteq Contents /\ grace' = grace /\ restoring' = r /\ at' = "forget"
    BY <1>0, <1>9, <2>1 DEF Restore, InsertKnown, InsertFresh
  <2> QED
    BY <2>1, <2>2 DEF RestInv
<1>10. ASSUME NEW r \in grace, RestoreSpent(r) PROVE RestInv'
  BY <1>0, <1>2, <1>10 DEF RestoreSpent, RestInv
<1>11. CASE ForgetRestored
  BY <1>0, <1>2, <1>11 DEF ForgetRestored, RestInv
<1>12. CASE PurgeGraceBin
  BY <1>0, <1>2, <1>12 DEF PurgeGraceBin, Unspent, RestInv
<1>13. CASE BackfillEmbeddings
  BY <1>1, <1>13 DEF BackfillEmbeddings
<1>14. ASSUME NEW found \in SUBSET Suspects, NEW ttl \in 1 .. Life, Clawback(found, ttl)
       PROVE  RestInv'
  BY <1>1, <1>14 DEF Clawback
<1>15. CASE Reopen
  BY <1>0, <1>2, <1>15 DEF Reopen, RestInv
<1>16. CASE Tick
  <2>1. UNCHANGED <<filter, at, restoring>>
    BY <1>16 DEF Tick
  <2>2. IsFiniteSet(grace') /\ Cardinality(grace') <= MaxSealed
    BY <1>16, AgedBin
  <2> QED
    BY <1>0, <2>1, <2>2 DEF RestInv
<1>17. CASE UNCHANGED vars
  BY <1>1, <1>17 DEF vars
<1>18. \/ Clear \/ ClearAll \/ Sweep \/ PurgeExpired \/ (\E c \in Stored : Delete(c))
       => \E gone : DeleteSome(gone)
  BY DEF Clear, ClearAll, Sweep, PurgeExpired, Delete
<1> QED
  BY <1>3, <1>4, <1>5, <1>6, <1>7, <1>8, <1>9, <1>10, <1>11, <1>12, <1>13, <1>14, <1>15, <1>16,
     <1>17, <1>18 DEF Next, Maintain

-----------------------------------------------------------------------------
(* The theorems.                                                           *)

\* The inductive invariant holds in every reachable state.
THEOREM Invariance == Spec => []IInv
<1>1. Init => IInv
  BY DEF Init, IInv, RowsTyped, SensitiveIsScrubbed, FilterCoversRows, RestoredIsLive, Stored
<1>2. IInv /\ [Next]_vars => IInv'
  BY TableStep, GraceStep DEF TableKept, IInv, RowsTyped
<1> QED
  BY <1>1, <1>2, PTL DEF Spec

\* The recency order lists exactly the rows, each once, through insertions, restores and
\* every deletion; and the bin keeps its bound (insert, enforce_cap, delete_with_grace).
THEOREM TypeCorrect == Spec => []TypeOK
<1>1. Init => OrderInv /\ RestInv
  <2> SUFFICES ASSUME Init PROVE OrderInv /\ RestInv
    OBVIOUS
  <2>1. <<>> \in Seq(Contents) /\ Distinct(<<>>) /\ Listed(<<>>) = {} /\ Stored = {}
    BY DEF Init, Stored, Distinct, Listed
  <2>2. IsFiniteSet({}) /\ Cardinality({}) = 0 /\ MaxSealed \in Nat
    BY FS_EmptySet, StoreAssumption
  <2> QED
    BY <2>1, <2>2 DEF Init, OrderInv, RestInv
<1>2. IInv /\ OrderInv /\ RestInv => TypeOK
  <2> SUFFICES ASSUME IInv, OrderInv, RestInv PROVE TypeOK
    OBVIOUS
  <2>1. ToSet(recency) = Stored /\ Len(recency) = Cardinality(Stored)
    BY ListLength DEF OrderInv
  <2>2. embeddings \subseteq Contents
    BY VectorsAreOrdinary DEF IInv, RowsTyped
  <2> QED
    BY <2>1, <2>2 DEF TypeOK, IInv, RowsTyped, RestInv
<1> QED
  BY <1>1, <1>2, Invariance, OrderStep, RestStep, PTL DEF Spec

\* A sensitive row always has a deadline, no text in the search projection and no vector:
\* insert, the merge of a re-copy, restores, the clawback and the backfill keep it so.
THEOREM ScrubSafety == Spec => []SensitiveIsScrubbed
<1>1. IInv => SensitiveIsScrubbed
  BY DEF IInv
<1> QED
  BY <1>1, Invariance, PTL

\* The deduplication filter never overlooks a stored row, so no copy of stored content is
\* refused by the unique index.
THEOREM FilterSafety == Spec => []FilterCoversRows
<1>1. IInv => FilterCoversRows
  BY DEF IInv
<1> QED
  BY <1>1, Invariance, PTL

\* Of all the ways a row leaves the table, only its hard privacy deadline takes one under
\* legal hold.
THEOREM HoldSafety == Spec => HeldOnlyExpires
<1>1. IInv /\ [Next]_vars
      => [\A c \in Stored : Has(c, "held") /\ c \notin Stored' => rows[c].expiry = 0]_vars
  BY TableStep DEF TableKept
<1> QED
  BY <1>1, Invariance, PTL DEF Spec, HeldOnlyExpires

\* No step loosens a live sensitive row: not a re-copy, a restore, an edit, nor a pass.
THEOREM RatchetSafety == Spec => PrivacyRatchet
<1>1. IInv /\ [Next]_vars
      => [\A c \in (Stored \ Expired) \cap Stored' : rows[c].sensitive =>
             rows'[c].sensitive /\ rows'[c].expiry <= rows[c].expiry]_vars
  BY TableStep DEF TableKept, Ratchets
<1> QED
  BY <1>1, Invariance, PTL DEF Spec, PrivacyRatchet

\* What is sealed and not yet spent stays sealed, or is a live row again: a crash between
\* the insert and the removal of its record loses nothing.
THEOREM RecoverySafety == Spec => SealedIsRecoverable
<1> DEFINE Recoverable == \A r \in grace :
              r.left > 0 /\ (\A s \in grace' : s.content # r.content) => r.content \in Stored'
<1>1. IInv /\ [Next]_vars => [Recoverable]_vars
  <2> SUFFICES ASSUME IInv, Next, NEW r \in grace, r.left > 0,
                      \A s \in grace' : s.content # r.content
               PROVE  r.content \in Stored'
    OBVIOUS
  <2>1. r \notin grace'
    OBVIOUS
  <2>2. CASE ForgetRestored
    BY <2>1, <2>2 DEF ForgetRestored, IInv, RestoredIsLive, Stored
  <2>3. CASE Tick
    <3>1. [r EXCEPT !.expiry = Less(r.expiry),
                    !.left = IF r.left > 0 THEN r.left - 1 ELSE 0] \in grace'
      BY <2>3 DEF Tick
    <3>2. r \in Sealed
      BY DEF IInv, RowsTyped
    <3> QED BY <3>1, <3>2 DEF Sealed
  <2>4. CASE PurgeGraceBin \/ (\E c \in Stored : Seal(c))
    BY <2>1, <2>4 DEF PurgeGraceBin, Seal, Unspent
  <2>5. ASSUME NEW q \in grace, RestoreSpent(q) PROVE FALSE
    BY <2>1, <2>5 DEF RestoreSpent
  <2>6. grace' # grace
    BY <2>1
  <2> QED
    BY <2>2, <2>3, <2>4, <2>5, <2>6
    DEF Next, Maintain, Capture, EnforceCap, SetFlag, SetTtl, Delete, Clear, ClearAll, Restore,
        PurgeExpired, Sweep, DeleteSome, BackfillEmbeddings, Clawback, Reopen
<1> QED
  BY <1>1, Invariance, PTL DEF Spec, SealedIsRecoverable

=============================================================================
