------------------------------ MODULE MCUserSide ------------------------------
(***************************************************************************)
(* Where the user's decisions are kept: the capture gate, and beside it what  *)
(* the popup does to clips, its queue, the settings file, the releases he     *)
(* lets in, what his queries mean, what a search finds and the store answers. *)
(* The parts share no state, so a behaviour is of one of them, chosen at the      *)
(* start; the others rest where they begin.                                   *)
(***************************************************************************)
EXTENDS MCCaptureGate, UpdateVerifier, PopupActions, PasteQueue, Settings, RecallScan,
        QueryGrammar, StoreQueries

VARIABLE part

otherVars == <<updVars, popVars, stackVars, setVars, scanVars, typed, queryVars>>
userVars == <<part, vars, otherVars>>

\* Two legacy files that differ, one of them with limits that do not fit; the
\* setup of another machine; and a file of a newer build.
MCFile(schema, preview, soft, login) ==
    [schema |-> schema, preview |-> preview, soft |-> soft, login |-> login, prefs |-> FALSE]
MCTyped ==
    {MCFile(Legacy, 1, 2, FALSE), MCFile(Legacy, 2, 1, TRUE), MCFile(Current, 2, 2, TRUE),
     MCFile(Unknown, 1, 1, FALSE)}

\* Searches: every word of some lengths against every word that differs by at
\* most one letter in length; and histories of three rows of every sort.
Words(lengths) == UNION {[1..n -> {"a", "b"}] : n \in lengths}
Row(text) ==
    [text |-> text, stored |-> text, relaid |-> <<>>, whole |-> TRUE, ascii |-> TRUE,
     app |-> <<>>, kind |-> <<"b">>, sensitive |-> FALSE, pinned |-> FALSE, size |-> 1,
     lane |-> FALSE, archived |-> FALSE]
MCTypos ==
    UNION {{<<q, <<Row(t)>>>> : t \in Words({Len(q) - 1, Len(q), Len(q) + 1})} :
             q \in {w \in Words({3, 5, 6}) : w[1] = "a"}}
Aba == <<"a", "b", "a">>
MCRows ==
    { [Row(Aba) EXCEPT !.pinned = TRUE], [Row(<<"b", " ">> \o Aba) EXCEPT !.size = 2],
      [Row(Aba) EXCEPT !.stored = <<"b">>, !.whole = FALSE, !.size = 4],
      [Row(Aba) EXCEPT !.stored = <<>>, !.ascii = FALSE],
      [Row(<<"b">>) EXCEPT !.relaid = Aba, !.ascii = FALSE],
      [Row(Aba) EXCEPT !.stored = <<>>, !.whole = FALSE, !.sensitive = TRUE],
      [Row(Aba) EXCEPT !.stored = <<>>, !.whole = FALSE, !.sensitive = TRUE, !.app = Aba],
      [Row(Aba) EXCEPT !.lane = TRUE], [Row(Aba) EXCEPT !.archived = TRUE],
      [Row(<<"b">>) EXCEPT !.kind = Aba], Row(<<"a", "b">>), Row(<<"b", "b">>) }
MCSearches ==
    MCTypos \cup {<<q, <<a, b, c>>>> :
        q \in {Aba, <<"a">>, <<"b", " ", "a">>}, a \in MCRows, b \in MCRows, c \in MCRows}

\* Queries: every sort of token, in the spellings that parsers tell apart.
Spelt(name, form) == [is |-> <<name>>, form |-> form]
Said(name) == [key |-> NoKey, value |-> Spelt(name, {})]
Filter(name, wanted) == [key |-> Spelt(name, {}), value |-> Spelt(wanted, {})]
Relative(form) == [key |-> Spelt("after", {}), value |-> [is |-> <<"last-", "hour">>, form |-> form]]
MCTokens ==
    { Said(word) : word \in {"release", "from", "last", "hour", "before", "lunch", "today",
                             "yesterday", "links"} } \cup
    { Filter("app", "mail"), Filter("kind", "html"), Filter("kind", "links"),
      Filter("kind", "release"), Filter("tag", "work"), Filter("before", "early"),
      Filter("before", "late"), Filter("after", "late"), Filter("host", "docs"), Filter("host", "release"),
      Relative({}), Relative({"capital"}),
      [key |-> Spelt("app", {"capital"}), value |-> Spelt("mail", {"capital"})],
      [key |-> Spelt("app", {"wide"}), value |-> Spelt("mail", {})],
      [key |-> Spelt("device", {}), value |-> Spelt("lap", {"foreign"})],
      [key |-> Spelt("app", {}), value |-> NoKey],
      [key |-> Spelt("app", {}), value |-> [is |-> <<>>, form |-> {"padded"}]],
      [key |-> Spelt("host", {}), value |-> Spelt("docs", {"capital"})],
      [key |-> Spelt("host", {"capital"}), value |-> Spelt("docs", {})],
      [key |-> Spelt("host", {}), value |-> NoKey],
      [key |-> NoKey, value |-> Spelt("today", {"padded"})],
      [key |-> NoKey, value |-> Spelt("links", {"capital"})] }
MCSynonyms == [word \in {"links"} |-> "url"]
MCDurations == [word \in {"hour"} |-> 1]
MCDates == [word \in {"early", "late"} |-> IF word = "early" THEN 24 ELSE 48]

QueryClip(app, device, at, kind) ==
    [app |-> app, device |-> device, tags |-> {Spelt("work", {})}, kind |-> kind, at |-> at,
     host |-> {Spelt("docs", {"capital"})}]
MCQueryClips ==
    { QueryClip({}, {}, 65, "url"),
      QueryClip({[is |-> <<"mail", "hour">>, form |-> {"capital"}]}, {Spelt("lap", {"foreign"})},
                36, "html"),
      QueryClip({Spelt("mail", {"wide"})}, {Spelt("lap", {"capital"})}, 60, "url"),
      QueryClip({[is |-> <<"app", ":", "mail">>, form |-> {}]}, {}, 24, "url") }

\* Clips that differ by three bits, in three bands or in four; two of the same text.
MCShelf == <<"first", "second", "third">>
MCSameText == [c \in {"first", "second", "third"} |-> IF c = "third" THEN 2 ELSE 1]
MCBits ==
    [c \in {"first", "second", "third"} |-> [band \in 1..4 |->
        IF c = "second" \/ (c = "first" /\ band = 4) THEN {} ELSE IF band = 2 THEN {2} ELSE {1}]]

\* No search: an empty query of an empty history.
NoSearch == searchFor = <<>> /\ table = <<>> /\ below = 1 /\ winners = {} /\ total = 0
            /\ searching = "done"

\* No store: an empty one.
QueriesRest ==
    /\ engine = "duckdb" /\ records = [c \in {} |-> {}] /\ lastSeqNo = 0 /\ writes = 0
    /\ shielded = {} /\ planner = NewPlanner /\ session = NoSession

\* A read that no gate judges.
NoRead ==
    /\ policy = CHOOSE p \in Policies : TRUE
    /\ read = CHOOSE r \in Reads : TRUE
    /\ phase = "read" /\ outcome = Skip("Empty")

UserInit ==
    /\ part \in {"gate", "updates", "popup", "queue", "settings", "search", "query", "answers"}
    /\ IF part = "gate" THEN Init ELSE NoRead
    /\ UpdInit /\ PopInit /\ QueueInit /\ SetInit
    /\ IF part = "search" THEN ScanInit ELSE NoSearch
    /\ QueryInit
    /\ IF part = "answers" THEN QueriesInit ELSE QueriesRest

UserNext ==
    /\ UNCHANGED part
    /\ \/ part = "gate" /\ Next /\ UNCHANGED otherVars
       \/ part = "updates" /\ UpdNext
          /\ UNCHANGED <<vars, popVars, stackVars, setVars, scanVars, typed, queryVars>>
       \/ part = "popup" /\ PopNext
          /\ UNCHANGED <<vars, updVars, stackVars, setVars, scanVars, typed, queryVars>>
       \/ part = "queue" /\ QueueNext
          /\ UNCHANGED <<vars, updVars, popVars, setVars, scanVars, typed, queryVars>>
       \/ part = "settings" /\ SetNext
          /\ UNCHANGED <<vars, updVars, popVars, stackVars, scanVars, typed, queryVars>>
       \/ part = "search" /\ ScanNext
          /\ UNCHANGED <<vars, updVars, popVars, stackVars, setVars, typed, queryVars>>
       \/ part = "query" /\ QueryNext
          /\ UNCHANGED <<vars, updVars, popVars, stackVars, setVars, scanVars, queryVars>>
       \/ part = "answers" /\ QueriesNext
          /\ UNCHANGED <<vars, updVars, popVars, stackVars, setVars, scanVars, typed>>

UserSpec == UserInit /\ [][UserNext]_userVars

\* What the user decided holds: clips kept in memory stay there and an undo takes
\* back what it offers (popup, History), settings are what the program shows
\* (Config), and a release once superseded stays out (UpdateVerifier).
DecisionsHold == PopupSafety /\ QueueSafety /\ SettingsSafety /\ UpdateSafety

\* A query means the same to every parser that reads it, and a search finds what
\* there is and says nothing of what is secret (parse_natural_query, parse_query,
\* collect, recall_candidates_batch, search_recall, search_page, find_near_fingerprint,
\* near_duplicate_group, local_similarity_search).
SearchesAreHonest == (part = "search" => SearchSafety) /\ (part = "query" => QuerySafety)
                     /\ (part = "answers" => QueriesSafety)
=============================================================================
