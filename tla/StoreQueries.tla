----------------------------- MODULE StoreQueries -----------------------------
(***************************************************************************)
(* What the store answers (duckdb_backend.rs, sqlite_backend.rs): a search    *)
(* read page by page while clips are copied, pinned, archived and deleted;    *)
(* clips near a fingerprint; clips of the same text; and the clips that        *)
(* `vbuff ask` ranks.                                                         *)
(*                                                                           *)
(* One query text of three characters or more is searched for.  A row's one    *)
(* flag "printed" stands for whichever of its simhash, dhash and normalized     *)
(* hash a question is about; facets, scores and suggested pins are left out,     *)
(* and so is what the search of an ask does to the planner.                      *)
(***************************************************************************)
EXTENDS Naturals, FiniteSets, SequencesExt, FiniteSetsExt

CONSTANTS
    Shelf,        \* clips, oldest first
    SameText,     \* clip -> its normalized text
    Bits,         \* clip -> [band -> the bits set in it]
    LikeHits, FtsHits,   \* clips that LIKE, and that the token index, finds
    Moments,      \* values of updated_at: the wall clock may be set back
    MaxShielded,  \* 10,000 rows of session_protected
    FtsRows,      \* FTS_ROW_THRESHOLD
    LatencyWindow, \* LATENCY_WINDOW
    AskFactor,    \* candidates for each result of an ask
    PrintBatch,   \* limit of one backfill
    Distances,    \* asked for
    MaxWrites     \* bound on the writes of a behaviour

Archive == ToSet(Shelf)

ASSUME QueriesAssumption ==
    /\ LikeHits \cup FtsHits \subseteq Archive
    /\ Shelf \in Seq(Archive) /\ Cardinality(Archive) = Len(Shelf)
    /\ \A c, d \in Archive : DOMAIN Bits[c] = DOMAIN Bits[d]
    /\ \A c \in Archive : /\ IsFiniteSet(DOMAIN Bits[c]) /\ Cardinality(DOMAIN Bits[c]) = 4
                          /\ \A band \in DOMAIN Bits[c] : IsFiniteSet(Bits[c][band])
    /\ Moments # {} /\ Moments \cup Distances \subseteq Nat /\ MaxWrites \in Nat
    /\ {MaxShielded, FtsRows, LatencyWindow, AskFactor, PrintBatch} \subseteq Nat \ {0}

VARIABLES
    engine,     \* "duckdb" or "sqlite"
    records,    \* the table
    lastSeqNo,
    shielded,   \* session_protected
    planner,    \* SearchPlanner: like_latencies (is it slow?), latency_promoted
    session,    \* SearchSession and what it has been given
    writes

queryVars == <<engine, records, lastSeqNo, shielded, planner, session, writes>>

InTable == DOMAIN records
RowOf(c) == records[c]

NewPlanner == [slow |-> <<>>, promoted |-> FALSE]
\* owed: what matched when the session began; touched: what was written since.
NoSession == [reads |-> "none", cursor |-> <<>>, given |-> <<>>, owed |-> {}, touched |-> {}]

Record(at, seq, sensitive, ai) ==
    [pinned |-> 0, at |-> at, seq |-> seq, sensitive |-> sensitive, archived |-> FALSE,
     lapsed |-> FALSE, ai |-> ai /\ ~sensitive, printed |-> ~sensitive,
     embedded |-> ai /\ ~sensitive]

-----------------------------------------------------------------------------
(* Order and visibility *)

Rank(c) == <<RowOf(c).pinned, RowOf(c).at, RowOf(c).seq>>
Behind(r, s) == \E i \in DOMAIN r : r[i] < s[i] /\ \A j \in 1..(i - 1) : r[j] = s[j]

FirstOf(n, ranked) == SubSeq(ranked, 1, Min({n, Len(ranked)}))

\* Each clip of S in the place that those ahead of it leave.
Arranged(S, isAhead) ==
    [i \in 1..Cardinality(S) |->
        CHOOSE c \in S : Cardinality({d \in S : <<d, c>> \in isAhead}) = i - 1]
InOrder(S) == Arranged(S, {p \in S \X S : Behind(Rank(p[2]), Rank(p[1]))})
ByTime(S) == Arranged(S, {p \in S \X S : Behind(Tail(Rank(p[2])), Tail(Rank(p[1])))})

\* list, and what the queries about fingerprints and pins look at.
ActiveRows == {c \in InTable : ~RowOf(c).archived /\ ~RowOf(c).lapsed}
PlainRows == {c \in ActiveRows : ~RowOf(c).sensitive}
\* Search alone shows a protected clip past its expiry.
Found ==
    {c \in InTable : /\ ~RowOf(c).archived /\ ~RowOf(c).sensitive
                     /\ ~RowOf(c).lapsed \/ c \in shielded}

-----------------------------------------------------------------------------
(* A search, page by page *)

CountRows == Cardinality({c \in InTable : ~RowOf(c).lapsed})
UseFts == engine = "sqlite" /\ (CountRows >= FtsRows \/ planner.promoted)
Matching == Found \cap (IF UseFts THEN FtsHits ELSE LikeHits)

\* record_like: the 95th percentile of the last latencies.
RecordLike(isSlow) ==
    LET full == Len(planner.slow) = LatencyWindow
        slow == Append(IF full THEN Tail(planner.slow) ELSE planner.slow, isSlow)
        fast == Cardinality({i \in DOMAIN slow : ~slow[i]}) IN
    [slow |-> slow, promoted |-> ((Len(slow) - 1) * 95) \div 100 >= fast]

BeginSearch ==
    /\ session.reads = "none"
    /\ session' = [NoSession EXCEPT !.reads = "pages",
                     !.owed = Found \cap LikeHits \cap
                              (IF engine = "sqlite" THEN FtsHits ELSE LikeHits)]
    /\ UNCHANGED <<engine, records, lastSeqNo, shielded, planner, writes>>

\* Mutant: a cursor without the pin.
PastMomentAndSequence(c) ==
    LET cursor == session.cursor IN
    \/ RowOf(c).at < cursor[2]
    \/ RowOf(c).at = cursor[2] /\ RowOf(c).seq < cursor[3]
\* c.pinned < ? OR (c.pinned = ? AND (c.updated_at < ? OR (c.updated_at = ? AND c.seq < ?)))
PastCursor(c) == Behind(Rank(c), session.cursor)

\* next_page.  The session ends with a page that is not full.
NextPage ==
    /\ session.reads = "pages"
    /\ \E limit \in 1..2 :
         LET rest == IF session.cursor = <<>> THEN Matching
                     ELSE {c \in Matching : PastCursor(c)}
             page == FirstOf(limit, InOrder(rest)) IN
         session' = [session EXCEPT
                       !.given = @ \o page,
                       !.cursor = IF page = <<>> THEN @ ELSE Rank(page[Len(page)]),
                       !.reads = IF Len(page) = limit THEN @ ELSE "ended"]
    /\ IF UseFts \/ engine = "duckdb" THEN UNCHANGED planner
       ELSE \E isSlow \in BOOLEAN : planner' = RecordLike(isSlow)
    /\ UNCHANGED <<engine, records, lastSeqNo, shielded, writes>>

-----------------------------------------------------------------------------
(* Other questions *)

\* hamming_distance
BitsApart(x, y) == [b \in DOMAIN x |-> Cardinality((x[b] \cup y[b]) \ (x[b] \cap y[b]))]
Distance(x, y) == MapThenSumSet(LAMBDA b : BitsApart(x, y)[b], DOMAIN x)

\* Mutant
PrefilteredAtFour(distance) == distance <= 4
\* "Four equal bands are a complete candidate filter only for distances below four."
Prefiltered(distance) == distance < 4

SharesBand(x, y) == \E b \in DOMAIN x : x[b] = y[b]

\* find_near_fingerprint
FindNear(x, distance, limit) ==
    LET scanned == {c \in PlainRows : /\ RowOf(c).printed
                                      /\ Prefiltered(distance) => SharesBand(x, Bits[c])} IN
    FirstOf(limit, ByTime({c \in scanned : Distance(x, Bits[c]) <= distance}))

\* near_duplicate_group: the seed is any clip.
NearDuplicateGroup(c, limit) ==
    IF c \in InTable /\ RowOf(c).printed
    THEN FirstOf(limit, ByTime({d \in PlainRows : RowOf(d).printed /\ SameText[d] = SameText[c]}))
    ELSE <<>>

\* local_similarity_search: which clips may be ranked for an ask.
Candidates(limit) ==
    LET found == FirstOf(AskFactor * limit, InOrder(Matching)) IN
    IF found # <<>> THEN found ELSE FirstOf(AskFactor * limit, InOrder(ActiveRows))
Rankable(limit) ==
    {c \in ToSet(Candidates(limit)) : RowOf(c).ai /\ ~RowOf(c).sensitive /\ RowOf(c).embedded}

-----------------------------------------------------------------------------
(* Writes *)

\* A write of the clips S: what a session was owed of them is open.
Wrote(S) ==
    /\ writes < MaxWrites /\ writes' = writes + 1
    /\ session' = [session EXCEPT !.touched = IF session.reads = "none" THEN @ ELSE @ \cup S]
    /\ UNCHANGED <<engine, planner>>

Without(gone) == [c \in InTable \ gone |-> records[c]]
Edited(c, to) == records' = [records EXCEPT ![c] = to]

\* A re-copy moves a row to the top and never makes it less private.
Merged(old, at, secret, ai) ==
    [Record(at, lastSeqNo + 1, old.sensitive \/ secret, ai) EXCEPT
       !.pinned = old.pinned, !.archived = old.archived]

\* insert: purge_expired first.
InsertClip(c, at, secret, ai) ==
    LET gone == {d \in InTable : RowOf(d).lapsed}
        row == IF c \in InTable \ gone THEN Merged(RowOf(c), at, secret, ai)
               ELSE Record(at, lastSeqNo + 1, secret, ai) IN
    /\ records' = [d \in (InTable \ gone) \cup {c} |-> IF d = c THEN row ELSE records[d]]
    /\ lastSeqNo' = lastSeqNo + 1
    /\ shielded' = shielded \ gone
    /\ Wrote({c} \cup gone)

PinClip(c) ==
    /\ Edited(c, [RowOf(c) EXCEPT !.pinned = 1 - @]) /\ Wrote({c})
    /\ UNCHANGED <<lastSeqNo, shielded>>

ArchiveClip(c) ==
    /\ Edited(c, [RowOf(c) EXCEPT !.archived = ~@]) /\ Wrote({c})
    /\ UNCHANGED <<lastSeqNo, shielded>>

Lapse(c) ==
    /\ ~RowOf(c).lapsed /\ Edited(c, [RowOf(c) EXCEPT !.lapsed = TRUE]) /\ Wrote({c})
    /\ UNCHANGED <<lastSeqNo, shielded>>

DeleteClip(c) ==
    /\ records' = Without({c}) /\ shielded' = shielded \ {c} /\ Wrote({c})
    /\ UNCHANGED lastSeqNo

\* SENSITIVE_SCRUB_SET
Scrubbed(row) ==
    [row EXCEPT !.sensitive = TRUE, !.ai = FALSE, !.printed = FALSE, !.embedded = FALSE]
\* clawback_sensitive finds a secret in a stored clip.
Clawback(c) ==
    /\ ~RowOf(c).sensitive /\ Edited(c, Scrubbed(RowOf(c))) /\ Wrote({c})
    /\ UNCHANGED <<lastSeqNo, shielded>>

\* backfill_fingerprints, backfill_normalized_fingerprints: some of the rows
\* without one.  The query of a session does not see it.
Unprinted ==
    {c \in InTable : ~RowOf(c).printed /\ ~RowOf(c).sensitive /\ ~RowOf(c).lapsed}
Printed(c, batch) == [RowOf(c) EXCEPT !.printed = @ \/ c \in batch]
Backfill ==
    /\ Unprinted # {}
    /\ \E batch \in kSubset(Min({PrintBatch, Cardinality(Unprinted)}), Unprinted) :
         records' = [c \in InTable |-> Printed(c, batch)]
    /\ Wrote({}) /\ UNCHANGED <<lastSeqNo, shielded>>

\* query_store: an ask begins with a backfill of the vectors.
BackfillEmbeddings(limit) ==
    LET missing == {c \in InTable : /\ RowOf(c).ai /\ ~RowOf(c).embedded
                                    /\ ~RowOf(c).sensitive /\ ~RowOf(c).lapsed}
        batch == ToSet(FirstOf(AskFactor * limit, ByTime(missing))) IN
    /\ missing # {}
    /\ records' = [c \in InTable |-> [records[c] EXCEPT !.embedded = @ \/ c \in batch]]
    /\ Wrote({}) /\ UNCHANGED <<lastSeqNo, shielded>>

\* set_session_protected: what was protected before is never refused.
SetShielded(c, protected) ==
    /\ IF protected
       THEN /\ c \in InTable
            /\ c \in shielded \/ Cardinality(shielded) < MaxShielded
            /\ shielded' = shielded \cup {c}
       ELSE shielded' = shielded \ {c}
    /\ shielded' # shielded
    /\ Wrote({c}) /\ UNCHANGED <<records, lastSeqNo>>

\* The store is opened again: the connection's table is gone, and so are planner
\* and session; sensitive rows are scrubbed, some fingerprints added.
RestartStore ==
    /\ shielded' = {} /\ planner' = NewPlanner /\ session' = NoSession
    /\ writes < MaxWrites /\ writes' = writes + 1
    /\ \E batch \in kSubset(Min({PrintBatch, Cardinality(Unprinted)}), Unprinted) :
         records' = [c \in InTable |->
                       IF RowOf(c).sensitive THEN Scrubbed(RowOf(c)) ELSE Printed(c, batch)]
    /\ UNCHANGED <<engine, lastSeqNo>>

WriteOf(c) ==
    \/ \E at \in Moments, secret, ai \in BOOLEAN : ~(secret /\ ai) /\ InsertClip(c, at, secret, ai)
    \/ /\ c \in InTable
       /\ PinClip(c) \/ ArchiveClip(c) \/ Lapse(c) \/ DeleteClip(c) \/ Clawback(c)
    \/ \E protected \in BOOLEAN : SetShielded(c, protected)

\* A history of an older build: one clip has neither fingerprint nor vector.
QueriesInit ==
    /\ engine \in {"duckdb", "sqlite"}
    /\ \E legacy \in Archive :
         records = [c \in Archive |->
                      LET position == CHOOSE i \in DOMAIN Shelf : Shelf[i] = c
                          row == Record(Min(Moments), position, FALSE, TRUE) IN
                      [row EXCEPT !.printed = c # legacy, !.embedded = c # legacy]]
    /\ lastSeqNo = Cardinality(Archive)
    /\ shielded = {} /\ planner = NewPlanner /\ session = NoSession /\ writes = 0

QueriesNext ==
    \/ BeginSearch \/ NextPage \/ Backfill \/ BackfillEmbeddings(1) \/ RestartStore
    \/ \E c \in Archive : WriteOf(c)

-----------------------------------------------------------------------------
(* Properties *)

Untouched == Archive \ session.touched

\* A reader that pages to the end is given every clip that nobody wrote to
\* meanwhile, once and in the order of the list, whatever is copied, pinned or
\* deleted around it, whenever SQLite changes from LIKE to its index, and
\* wherever the clock is set (search_page's cursor).
PagesAreWhole ==
    LET given == session.given IN
    /\ \A i, j \in DOMAIN given :
          i < j /\ {given[i], given[j]} \subseteq Untouched => Behind(Rank(given[j]), Rank(given[i]))
    /\ session.reads = "ended" => session.owed \cap Untouched \subseteq ToSet(given)

\* The bands spare rows that cannot be near, never one that is
\* (find_near_fingerprint: "cannot become a false negative").
NearIsComplete ==
    \A x \in {Bits[c] : c \in Archive}, distance \in Distances :
        FindNear(x, distance, 2) =
        FirstOf(2, ByTime({c \in PlainRows : RowOf(c).printed /\ Distance(x, Bits[c]) <= distance}))

\* "Sensitive rows are never correlated with their neighbours": neither in the
\* group of another clip nor when it is asked for their own.
SecretsStandAlone ==
    \A c \in Archive :
        LET group == ToSet(NearDuplicateGroup(c, Cardinality(Archive))) IN
        /\ \A d \in group : ~RowOf(d).sensitive
        /\ c \in InTable /\ RowOf(c).sensitive => group = {}

\* What an ask ranks, and what has a vector at all, may be shown to a model
\* (AiGate; retain in local_similarity_search).
OnlyAllowedIsRanked ==
    /\ \A c \in InTable : RowOf(c).embedded => RowOf(c).ai /\ ~RowOf(c).sensitive
    /\ \A c \in Rankable(1) : c \in ActiveRows \/ c \in shielded

\* The exception from the cleanup is kept for clips that there are, so that
\* none is refused for those that are gone (set_session_protected).
ShieldIsOfClips == shielded \subseteq InTable /\ Cardinality(shielded) <= MaxShielded

QueriesSafety ==
    /\ PagesAreWhole /\ NearIsComplete /\ SecretsStandAlone /\ OnlyAllowedIsRanked
    /\ ShieldIsOfClips
=============================================================================
