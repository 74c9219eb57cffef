------------------------------ MODULE RecallScan ------------------------------
(***************************************************************************)
(* One search of the whole history: the matcher (recall/search.rs), the      *)
(* coarse SQL condition that spares it most rows (recall_candidates_batch),  *)
(* and the batches from which the best hits are kept (history_search.rs,     *)
(* collect).  HistoryWindow models when such a search counts.                *)
(*                                                                           *)
(* A text is a sequence of letters in lower case, " " among them.  A row has *)
(*   text     what the matcher reads                                         *)
(*   relaid   that text typed on the other keyboard layout, if not ASCII     *)
(*   stored   what LIKE reads of it, in item_text                            *)
(*   whole    item_text is as long as the payload                            *)
(*   ascii    item_text and source_app are ASCII; whole makes stored the text *)
(*   app, kind, sensitive, pinned, size, lane (kept in memory only), archived *)
(* and a greater number is a newer row.  The filters of a query, its scope    *)
(* and its tags are conditions on single rows and left out, as are aliases,   *)
(* affinity and pinned results, which the search of the window never passes.  *)
(***************************************************************************)
EXTENDS Integers, FiniteSets, SequencesExt, FiniteSetsExt

CONSTANTS
    Searches,       \* pairs of a query text and a history [row numbers -> rows]
    MaxSearchable,  \* MAX_SEARCHABLE_CHARS
    TypoLength,     \* 3..32: lengths of a word that may be mistyped
    WideLength,     \* 6: from here on the fragments are three letters
    ResultLimit,    \* recall_result_limit
    ResultBytes,    \* RESULT_BYTES
    BatchRows, BatchBytes   \* of recall_candidates_batch

IsText(s) == s \in Seq(ToSet(s))

IsRow(row) ==
    /\ \A s \in {row.text, row.relaid, row.stored, row.app, row.kind} : IsText(s)
    /\ row.size \in Nat /\ {row.sensitive, row.pinned, row.lane} \subseteq BOOLEAN
    /\ row.ascii => row.relaid = <<>>
    /\ row.ascii /\ row.whole => row.stored = row.text

ASSUME ScanAssumption ==
    /\ {MaxSearchable, WideLength, ResultLimit, ResultBytes, BatchRows, BatchBytes}
          \subseteq Nat \ {0}
    /\ TypoLength \subseteq Nat \ (0..2) /\ WideLength >= 6
    /\ \A search \in Searches :
          /\ IsText(search[1])
          /\ IsFiniteSet(DOMAIN search[2]) /\ DOMAIN search[2] \subseteq Nat \ {0}
          /\ \A id \in DOMAIN search[2] : IsRow(search[2][id])

VARIABLES
    searchFor,  \* the query text
    table,      \* the history
    below,      \* the cursor: rows from here on were read
    winners, total,
    searching   \* "lane", "store" or "done"

scanVars == <<searchFor, table, below, winners, total, searching>>

-----------------------------------------------------------------------------
(* The matcher *)

Places(q, text) == {i \in 1..(Len(text) - Len(q) + 1) : SubSeq(text, i, i + Len(q) - 1) = q}
Within(q, text) == Places(q, text) # {}

\* substring_score; the texts are shorter than the 64 letters that cost a point.
SubstringScore(q, text) ==
    LET i == Min(Places(q, text)) IN
    101 - i + (IF i = 1 THEN 50 ELSE IF text[i - 1] = " " THEN 20 ELSE 0)

Searchable(text) == SubSeq(text, 1, Min({Len(text), MaxSearchable}))

\* score_text: 0 stands for no match, as a match scores above 0 in any text of
\* less than eighty letters.
ScoreText(row, text, q) ==
    IF ~row.sensitive /\ Within(q, Searchable(text)) THEN SubstringScore(q, Searchable(text))
    ELSE IF Within(q, row.app) THEN SubstringScore(q, row.app) - 10
    ELSE IF Within(q, row.kind) THEN SubstringScore(q, row.kind) - 20
    ELSE 0

\* The letters before the first difference.
AlikeUpTo(left, right) ==
    Max({0} \cup {n \in 1..Min({Len(left), Len(right)}) : SubSeq(left, 1, n) = SubSeq(right, 1, n)})

\* edit_distance_at_most_one: those are skipped, one letter is forgiven there,
\* and the rest must be the same.
WithinOneEdit(left, right) ==
    LET same == AlikeUpTo(left, right)
        rest(s, n) == SubSeq(s, same + n + 1, Len(s)) IN
    CASE Len(left) = Len(right)     -> rest(left, 1) = rest(right, 1)
      [] Len(left) = Len(right) + 1 -> rest(left, 1) = rest(right, 0)
      [] Len(left) + 1 = Len(right) -> rest(left, 0) = rest(right, 1)
      [] OTHER -> FALSE

WordsOf(text) ==
    {SubSeq(text, w[1], w[2]) : w \in
        {p \in (1..Len(text)) \X (1..Len(text)) :
            /\ p[1] <= p[2] /\ \A k \in p[1]..p[2] : text[k] # " "
            /\ p[1] > 1 => text[p[1] - 1] = " "
            /\ p[2] < Len(text) => text[p[2] + 1] = " "}}

Mistypable(q) == Len(q) \in TypoLength /\ " " \notin {q[i] : i \in DOMAIN q}

\* typo_matches
TypoMatches(row, text, q) ==
    /\ ~row.sensitive /\ Mistypable(q)
    /\ \E word \in WordsOf(Searchable(text)) : WithinOneEdit(word, q)

\* search_recall, of one row: a match as it is before one of a mistyped word,
\* both before those on the other layout.
Score(row, q) ==
    LET direct == ScoreText(row, row.text, q)
        relaid == ScoreText(row, row.relaid, q) IN
    IF q = <<>> THEN 1
    ELSE IF direct # 0 THEN direct
    ELSE IF TypoMatches(row, row.text, q) THEN 35
    ELSE IF relaid # 0 THEN relaid - 200
    ELSE IF TypoMatches(row, row.relaid, q) THEN 35 - 200
    ELSE 0

-----------------------------------------------------------------------------
(* The rows the store offers: recall_candidates_batch *)

\* Defective variant of Fragments: three letters as soon as there are five.
FragmentsOverlapping(q) ==
    LET width == IF Len(q) >= 5 THEN 3 ELSE 1 IN
    IF Mistypable(q) THEN {SubSeq(q, 1, width), SubSeq(q, Len(q) - width + 1, Len(q))} ELSE {q}

\* One mistake leaves the first or the last letters of a word as they are.
Fragments(q) ==
    LET width == IF Len(q) >= WideLength THEN 3 ELSE 1 IN
    IF Mistypable(q) THEN {SubSeq(q, 1, width), SubSeq(q, Len(q) - width + 1, Len(q))} ELSE {q}

Candidate(row, q) ==
    \/ q = <<>>
    \/ \E part \in Fragments(q) : Within(part, row.stored)
    \/ Within(q, row.app)
    \/ ~row.ascii
    \/ ~row.whole
    \/ Within(q, row.kind)

InStore == {id \in DOMAIN table : ~table[id].lane /\ ~table[id].archived}
Offered == {id \in InStore : id < below /\ Candidate(table[id], searchFor)}

BytesOfRow == [id \in DOMAIN table |-> table[id].size]
SizeOf(S) == MapThenSumSet(LAMBDA id : BytesOfRow[id], S)
NewerIn(S, id) == {other \in S : other > id}

\* The newest rows, until the batch is full by its rows or by its bytes.
NextBatch ==
    {id \in Offered :
        /\ Cardinality(NewerIn(Offered, id)) < BatchRows
        /\ SizeOf(NewerIn(Offered, id)) < BatchBytes}

-----------------------------------------------------------------------------
(* The search worker: collect *)

TopRow == Max(DOMAIN table \cup {0})

ScanInit ==
    /\ \E search \in Searches : searchFor = search[1] /\ table = search[2]
    /\ below = TopRow + 1
    /\ winners = {} /\ total = 0 /\ searching = "lane"

Hits(S) == {id \in S : Score(table[id], searchFor) # 0}

Precedes(a, b) ==
    LET x == table[a]  y == table[b]
        xs == Score(x, searchFor)  ys == Score(y, searchFor) IN
    \/ x.pinned /\ ~y.pinned
    \/ x.pinned = y.pinned /\ xs > ys
    \/ x.pinned = y.pinned /\ xs = ys /\ a > b

AheadIn(S, id) == {other \in S : Precedes(other, id)}
TopOf(S) == {id \in S : Cardinality(AheadIn(S, id)) < ResultLimit}

\* The best hits, as many as fit; the first one always does.
Kept(S) ==
    {id \in TopOf(S) :
        \/ AheadIn(TopOf(S), id) = {}
        \/ SizeOf(AheadIn(TopOf(S), id) \cup {id}) <= ResultBytes}

Merge(batch) ==
    /\ winners' = Kept(winners \cup Hits(batch))
    /\ total' = total + Cardinality(Hits(batch))
    /\ UNCHANGED <<searchFor, table>>

\* volatile_snapshot comes first.
SearchLane ==
    /\ searching = "lane" /\ searching' = "store"
    /\ Merge({id \in DOMAIN table : table[id].lane})
    /\ UNCHANGED below

SearchBatch ==
    /\ searching = "store" /\ NextBatch # {}
    /\ Merge(NextBatch) /\ below' = Min(NextBatch)
    /\ UNCHANGED searching

SearchEnds ==
    /\ searching = "store" /\ NextBatch = {}
    /\ searching' = "done"
    /\ UNCHANGED <<searchFor, table, below, winners, total>>

\* The next request, as when the list was published anew.
SearchAgain ==
    /\ searching = "done" /\ searching' = "lane"
    /\ below' = TopRow + 1 /\ winners' = {} /\ total' = 0
    /\ UNCHANGED <<searchFor, table>>

ScanNext == SearchLane \/ SearchBatch \/ SearchEnds \/ SearchAgain

-----------------------------------------------------------------------------
(* Properties *)

Searched == {id \in DOMAIN table : table[id].lane} \cup InStore
AllHits == Hits(Searched)

\* One letter more, one less, one exchanged, or none.
OneEdit(s, t) ==
    \/ s = t
    \/ \E i \in DOMAIN s : RemoveAt(s, i) = t
    \/ \E i \in DOMAIN t : RemoveAt(t, i) = s
    \/ Len(s) = Len(t) /\ \E i \in DOMAIN s : ReplaceAt(s, i, t[i]) = t

\* Searching in batches of candidates finds what the matcher would find in the
\* whole history: every hit is counted, the best one is shown, and the best
\* ones are if their bytes fit (recall_candidates_batch and its tests, collect).
SearchIsComplete ==
    searching = "done" =>
        /\ total = Cardinality(AllHits)
        /\ winners \subseteq AllHits /\ Cardinality(winners) <= ResultLimit
        /\ \A id \in AllHits : AheadIn(AllHits, id) = {} => id \in winners
        /\ SizeOf(AllHits) <= ResultBytes => winners = TopOf(AllHits)

\* The matcher forgives exactly one edit (edit_distance_at_most_one).
OneEditIsForgiven ==
    \A id \in DOMAIN table :
        WithinOneEdit(table[id].text, searchFor) = OneEdit(table[id].text, searchFor)

\* What a sensitive clip says never decides whether it is found (score_text).
SecretsAreNotSearched ==
    \A id \in winners :
        table[id].sensitive =>
            \/ searchFor = <<>>
            \/ Within(searchFor, table[id].app) \/ Within(searchFor, table[id].kind)

SearchSafety == SearchIsComplete /\ OneEditIsForgiven /\ SecretsAreNotSearched
=============================================================================
