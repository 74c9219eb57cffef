----------------------------- MODULE QueryGrammar -----------------------------
(***************************************************************************)
(* What a typed query means.  Three parsers read it: the live one of recall  *)
(* (recall/query.rs), the live one of the store (vbuff-store/src/search.rs), *)
(* and the one meant to replace both (recall/grammar.rs), which compiles its *)
(* constraints to SQL as well.                                               *)
(*                                                                           *)
(* Tokens are what is left of the words after splitting and quotes: a key     *)
(* and a value, or a word alone.  A text is [is, form]: `is` names its parts, *)
(* and form says how its spelling differs from the plain one:                *)
(*   "capital"  ASCII capitals (for a value last-2h: LAST-2h)                *)
(*   "foreign"  capitals beyond ASCII                                        *)
(*   "wide"     another Unicode form of the same letters                     *)
(*   "padded"   blanks around it, kept by quotes                             *)
(* Instants are hours.  Length limits and the other keyboard layout, which   *)
(* the live app filter tries too, are left out.                              *)
(***************************************************************************)
EXTENDS Integers, FiniteSets, SequencesExt

CONSTANTS
    Tokens,       \* what may be typed
    MaxTyped,     \* bound: tokens of a query
    QueryClips,   \* clips to match: [app, device, tags, kind, at, host]
    KindSlugs,    \* the slugs of ContentKind
    KindSynonyms, \* [word -> slug]: natural_kind, KIND_SYNONYMS
    Durations,    \* [word -> hours]
    Dates         \* [word -> instant]: dates in ISO form

VARIABLE typed

\* What the code's own tables and types say of the vocabulary: an empty key has no
\* form, an empty value at most blanks, dates have no capitals, the words of the
\* grammar are neither kinds nor spans of time, and hosts are what URLs give, ASCII.
Texts == [is : Seq(STRING), form : SUBSET {"capital", "foreign", "wide", "padded"}]
Sugar == {"from", "last", "today", "yesterday", "before", "lunch"}
ASSUME VocabularyAssumption ==
    /\ Tokens \subseteq [key : Texts, value : Texts]
    /\ \A token \in Tokens :
         /\ token.key.is = <<>> => token.key.form = {}
         /\ token.value.is = <<>> => token.value.form \subseteq {"padded"}
         /\ "capital" \in token.value.form => \A date \in DOMAIN Dates : token.value.is # <<date>>
    /\ (Sugar \cup {""}) \cap (DOMAIN KindSynonyms \cup DOMAIN Durations \cup DOMAIN Dates) = {}
    /\ "" \notin KindSlugs
    /\ Durations \in [DOMAIN Durations -> Nat] /\ Dates \in [DOMAIN Dates -> Int]
    /\ QueryClips \subseteq [app : SUBSET Texts, device : SUBSET Texts, tags : SUBSET Texts,
                            kind : STRING, at : Int,
                            host : SUBSET {t \in Texts : t.form \subseteq {"capital"}}]

Midnight == 48
Noon == Midnight + 12
QueryNow == Midnight + 18

-----------------------------------------------------------------------------
(* Texts *)

AsciiLower(t) == [t EXCEPT !.form = @ \ {"capital"}]
NormalizeLabel(t) == [t EXCEPT !.form = @ \ {"capital", "padded"}]
UnicodeLower(t) == [t EXCEPT !.form = @ \ {"capital", "foreign"}]
NormalizeLookup(t) == [t EXCEPT !.form = {}]

Blank(t) == t.is = <<>>
NoKey == [is |-> <<>>, form |-> {}]

\* The word a text is, letter by letter, or "".
Word(t) == IF t.form = {} /\ Len(t.is) = 1 THEN Head(t.is) ELSE ""

\* The token as one text.
Whole(token) ==
    IF token.key = NoKey THEN token.value
    ELSE [is |-> token.key.is \o <<":">> \o token.value.is,
          form |-> token.key.form \cup token.value.form]

\* The part occurs in the text as it is spelt.
Occurs(part, t) ==
    /\ part.form \in {t.form, t.form \ {"padded"}}
    /\ \E i \in 0..(Len(t.is) - Len(part.is)) : SubSeq(t.is, i + 1, i + Len(part.is)) = part.is

\* What may be missing is a set of at most one value.
KindOf(word) ==
    IF word \in DOMAIN KindSynonyms THEN {KindSynonyms[word]} ELSE {word} \cap KindSlugs
DurationOf(word) == {Durations[w] : w \in {word} \cap DOMAIN Durations}
DateOf(word) == {Dates[w] : w \in {word} \cap DOMAIN Dates}
IsRelative(t) == Len(t.is) = 2 /\ Head(t.is) = "last-"
Since(t) == {QueryNow - hours : hours \in DurationOf(Word([t EXCEPT !.is = Tail(@)]))}

RecallKeys == {"app", "kind", "tag", "device", "before", "after"}
StoreKeys == {"host", "color", "lang", "iso_date"}

\* A query while it is parsed: the tokens read, and the constraints so far.
Unread == [bad |-> FALSE, read |-> 0, text |-> <<>>, constraints |-> <<>>]
Keeps(p, token) == [p EXCEPT !.text = Append(@, token), !.read = @ + 1]

ConstraintsOn(p, key) == {i \in DOMAIN p.constraints : p.constraints[i][1] = key}

\* push_constraint, of a facet that may or may not be repeated.
Pushed(p, key, values, repeats) ==
    IF values = {} \/ (~repeats /\ ConstraintsOn(p, key) # {}) THEN [p EXCEPT !.bad = TRUE]
    ELSE [p EXCEPT !.constraints = Append(@, <<key, CHOOSE v \in values : TRUE>>)]

Advanced(p, count) == [p EXCEPT !.read = @ + count]

\* Windows that nothing can match are refused.
WindowIsEmpty(p) ==
    \E i \in ConstraintsOn(p, "before"), j \in ConstraintsOn(p, "after") :
        p.constraints[i][2] <= p.constraints[j][2]
Checked(p) == IF ~p.bad /\ WindowIsEmpty(p) THEN [p EXCEPT !.bad = TRUE] ELSE p

-----------------------------------------------------------------------------
(* parse_natural_query *)

Once(p, key, values) == Pushed(p, key, values, FALSE)

RecallKey(token) ==
    LET word == Word(AsciiLower(token.key)) IN IF word \in RecallKeys THEN word ELSE ""

\* parse_date_or_relative: the prefix is looked for before capitals are folded.
DateOrRelative(value) ==
    LET word == Word(AsciiLower(value)) IN
    IF word = "today" THEN {Midnight}
    ELSE IF word = "yesterday" THEN {Midnight - 24}
    ELSE IF IsRelative(value) /\ "capital" \notin value.form THEN Since(AsciiLower(value))
    ELSE DateOf(Word(value))

\* apply_facet and set_once
RecallValue(key, value) ==
    IF Blank(value) THEN {}
    ELSE IF key = "kind" THEN KindOf(Word(AsciiLower(value)))
    ELSE IF key \in {"before", "after"} THEN DateOrRelative(value)
    ELSE {AsciiLower(value)}

RecallStep(query, p, i) ==
    LET word == Word(AsciiLower(Whole(query[i])))
        facet == RecallKey(query[i])
        follows == i < Len(query)
        next == IF follows THEN Whole(query[i + 1]) ELSE NoKey
        today == Once(p, "after", {Midnight}) IN
    IF p.bad \/ p.read >= i THEN p
    ELSE IF facet # "" THEN Advanced(Once(p, facet, RecallValue(facet, query[i].value)), 1)
    ELSE IF word = "from" /\ follows THEN Advanced(Once(p, "app", RecallValue("app", next)), 2)
    ELSE IF word \in DOMAIN KindSynonyms THEN Advanced(Once(p, "kind", KindOf(word)), 1)
    ELSE IF word = "today" THEN Advanced(today, 1)
    ELSE IF word = "yesterday" THEN
        Advanced(Once(Once(p, "after", {Midnight - 24}), "before", {Midnight}), 1)
    ELSE IF word = "last" /\ follows THEN
        Advanced(Once(p, "after", {QueryNow - h : h \in DurationOf(Word(AsciiLower(next)))}), 2)
    ELSE IF word = "before" /\ follows /\ Word(AsciiLower(next)) = "lunch" THEN
        Advanced(Once(today, "before", {Noon}), 2)
    ELSE Keeps(p, query[i])

ParseNatural(query) ==
    Checked(FoldLeftDomain(LAMBDA p, i : RecallStep(query, p, i), Unread, query))

\* matches_filters; a clip may have no app and no device.
RecallFinds(p, clip) ==
    \A i \in DOMAIN p.constraints :
        LET value == p.constraints[i][2] IN
        CASE p.constraints[i][1] = "app" ->
               \E app \in clip.app : Occurs(UnicodeLower(value), UnicodeLower(app))
          [] p.constraints[i][1] = "device" ->
               \E device \in clip.device : AsciiLower(device) = AsciiLower(value)
          [] p.constraints[i][1] = "tag" -> NormalizeLabel(value) \in clip.tags
          [] p.constraints[i][1] = "kind" -> clip.kind = value
          [] p.constraints[i][1] = "before" -> clip.at < value
          [] p.constraints[i][1] = "after" -> clip.at >= value

-----------------------------------------------------------------------------
(* The store's parse_query *)

StoreStep(p, token) ==
    IF Word(token.key) \in StoreKeys /\ ~(Blank(token.value) /\ token.value.form = {})
    THEN Pushed(p, Word(token.key), {UnicodeLower(token.value)}, TRUE)
    ELSE Keeps(p, token)

ParseStore(query) == FoldLeft(StoreStep, Unread, query)

-----------------------------------------------------------------------------
(* The unified grammar *)

Facet(syntax, compare, sql, repeats, blankIsText) ==
    [syntax |-> syntax, compare |-> compare, sql |-> sql, repeats |-> repeats,
     blankIsText |-> blankIsText]

\* `sql` is where the value is found: a column, a row of clip_facets, nowhere.
Registry ==
    [key \in RecallKeys \cup StoreKeys |->
        CASE key = "app" -> Facet("text", "contains", "missing", FALSE, FALSE)
          [] key = "kind" -> Facet("kind", "equals", "column", FALSE, FALSE)
          [] key \in {"tag", "device"} -> Facet("text", "equals", "missing", FALSE, FALSE)
          [] key = "before" -> Facet("instant", "before", "column", FALSE, FALSE)
          [] key = "after" -> Facet("instant", "at or after", "column", FALSE, FALSE)
          [] key \in StoreKeys -> Facet("text", "equals", "facet row", TRUE, TRUE)]

\* facet_spec
FacetKey(token) ==
    LET word == Word(NormalizeLookup(token.key)) IN
    IF word \in DOMAIN Registry THEN word ELSE ""

\* parse_instant
ParseInstant(value) ==
    IF Word(value) = "today" THEN {Midnight}
    ELSE IF Word(value) = "yesterday" THEN {Midnight - 24}
    ELSE IF IsRelative(value) THEN Since(value)
    ELSE DateOf(Word(value))

\* parse_facet_value, of a value that is not left in the text
ParseFacetValue(key, value) ==
    IF Blank(value) THEN {}
    ELSE IF Registry[key].syntax = "text" THEN {NormalizeLookup(value)}
    ELSE IF Registry[key].syntax = "kind" THEN KindOf(Word(NormalizeLookup(value)))
    ELSE ParseInstant(NormalizeLookup(value))

Pushes(p, key, values) == Pushed(p, key, values, Registry[key].repeats)

IsFacet(token) ==
    FacetKey(token) # "" /\ ~(Blank(token.value) /\ Registry[FacetKey(token)].blankIsText)

\* apply_sugar, apply_bare_kind
GrammarStep(query, p, i) ==
    LET word == Word(NormalizeLookup(Whole(query[i])))
        facet == FacetKey(query[i])
        follows == i < Len(query)
        next == IF follows THEN Whole(query[i + 1]) ELSE NoKey
        today == Pushes(p, "after", {Midnight}) IN
    IF p.bad \/ p.read >= i THEN p
    ELSE IF IsFacet(query[i]) THEN
        Advanced(Pushes(p, facet, ParseFacetValue(facet, query[i].value)), 1)
    ELSE IF word = "from" /\ follows THEN
        Advanced(Pushes(p, "app", ParseFacetValue("app", next)), 2)
    ELSE IF word = "last" /\ follows THEN
        Advanced(Pushes(p, "after", {QueryNow - h : h \in DurationOf(Word(NormalizeLookup(next)))}), 2)
    ELSE IF word = "today" THEN Advanced(today, 1)
    ELSE IF word = "yesterday" THEN
        Advanced(Pushes(Pushes(p, "after", {Midnight - 24}), "before", {Midnight}), 1)
    ELSE IF word = "before" /\ follows /\ Word(NormalizeLookup(next)) = "lunch" THEN
        Advanced(Pushes(today, "before", {Noon}), 2)
    ELSE IF word \in DOMAIN KindSynonyms THEN Advanced(Pushes(p, "kind", KindOf(word)), 1)
    ELSE Keeps(p, query[i])

ParseQuery(query) ==
    Checked(FoldLeftDomain(LAMBDA p, i : GrammarStep(query, p, i), Unread, query))

\* ClipFacetView::values
ValuesOf(clip, key) ==
    CASE key = "app" -> clip.app
      [] key = "device" -> clip.device
      [] key = "tag" -> clip.tags
      [] key = "host" -> {UnicodeLower(host) : host \in clip.host}
      [] OTHER -> {}

\* Constraint::matches
GrammarFinds(p, clip) ==
    \A i \in DOMAIN p.constraints :
        LET facet == p.constraints[i][1]
            value == p.constraints[i][2]
            folded == {NormalizeLookup(v) : v \in ValuesOf(clip, facet)} IN
        CASE Registry[facet].compare = "before" -> clip.at < value
          [] Registry[facet].compare = "at or after" -> clip.at >= value
          [] Registry[facet].compare = "contains" -> \E v \in folded : Occurs(value, v)
          [] facet = "kind" -> clip.kind = value
          [] OTHER -> value \in folded

\* sql_predicates: no SQL at all where one constraint has none.
HasSql(p) == \A i \in DOMAIN p.constraints : Registry[p.constraints[i][1]].sql # "missing"

\* The rows that satisfy the SQL; clip_facets holds what extract_facets found.
SqlFinds(p, clip) ==
    \A i \in DOMAIN p.constraints :
        LET facet == p.constraints[i][1]
            value == p.constraints[i][2] IN
        CASE facet = "before" -> clip.at < value
          [] facet = "after" -> clip.at >= value
          [] facet = "kind" -> clip.kind = value
          [] OTHER -> value \in ValuesOf(clip, facet)

\* What pins are kept under: the text, and the constraints in any order.
Fingerprint(p) ==
    <<p.text, [c \in ToSet(p.constraints) |->
                  Cardinality({i \in DOMAIN p.constraints : p.constraints[i] = c})]>>

-----------------------------------------------------------------------------
QueryInit == typed = <<>>

TypeToken == Len(typed) < MaxTyped /\ \E token \in Tokens : typed' = Append(typed, token)
EraseToken == typed # <<>> /\ typed' = Front(typed)

QueryNext == TypeToken \/ EraseToken

-----------------------------------------------------------------------------
(* Properties *)

Natural == ParseNatural(typed)
Unified == ParseQuery(typed)

Forms == UNION {typed[i].key.form \cup typed[i].value.form : i \in DOMAIN typed}
IsSugar(token) ==
    Word(NormalizeLookup(Whole(token))) \in
        {"from", "last", "today", "yesterday", "before"} \cup DOMAIN KindSynonyms

\* Spelt so that the older parser of recall knows it, without the store's facets.
IsNatural ==
    /\ Forms \subseteq {"capital"}
    /\ \A i \in DOMAIN typed :
         /\ IsFacet(typed[i]) => FacetKey(typed[i]) \in RecallKeys
         /\ "capital" \in typed[i].value.form => ~IsRelative(typed[i].value)

\* Spelt so that the store's parser knows it, without anything of recall's.
IsStoreQuery ==
    /\ Forms \subseteq {"capital", "foreign"}
    /\ \A i \in DOMAIN typed :
         /\ ~IsSugar(typed[i]) /\ FacetKey(typed[i]) \notin RecallKeys
         /\ typed[i].key.form = {}

\* The grammar that is to replace two parsers is their union: what either one
\* reads, refuses or leaves in the text today, it does too ("the registry is
\* exactly the union of the two live vocabularies").
UnifiesBoth ==
    /\ IsNatural =>
         /\ Unified.bad = Natural.bad
         /\ ~Natural.bad => Fingerprint(Unified) = Fingerprint(Natural)
    /\ IsStoreQuery =>
         LET store == ParseStore(typed) IN
         ~Unified.bad /\ Unified.text = store.text /\ Unified.constraints = store.constraints

\* Where both read the same filters, the new one finds every clip the live one
\* finds, however the clip and the query are spelt (normalize_lookup).
NoClipIsLost ==
    (~Unified.bad /\ ~Natural.bad /\ Unified.text = Natural.text) =>
        \A clip \in QueryClips : RecallFinds(Natural, clip) => GrammarFinds(Unified, clip)

\* To the grammar no spelling makes a difference (normalize_lookup is the only
\* normalization).
SpellingIsFree ==
    LET plain == [i \in DOMAIN typed |-> [key |-> NormalizeLookup(typed[i].key),
                                          value |-> NormalizeLookup(typed[i].value)]]
        other == ParseQuery(plain) IN
    /\ Unified.bad = other.bad
    /\ Unified.constraints = other.constraints /\ Len(Unified.text) = Len(other.text)

\* A filter is obeyed or the query refused: the key of one is never searched for
\* as text, and what SQL finds is what the constraints say ("a known facet with
\* an invalid value is still an error"; sql_predicates).
FiltersAreObeyed ==
    /\ ~Unified.bad => \A i \in DOMAIN Unified.text : ~IsFacet(Unified.text[i])
    /\ ~Natural.bad => \A i \in DOMAIN Natural.text : RecallKey(Natural.text[i]) = ""
    /\ ~Unified.bad /\ HasSql(Unified) =>
         \A clip \in QueryClips : SqlFinds(Unified, clip) = GrammarFinds(Unified, clip)

\* A query that is accepted leaves some instant that it could match: one of the
\* instants it names, or an hour before.
WindowsAreOpen ==
    \A p \in {Natural, Unified} : ~p.bad =>
        LET bounds == {p.constraints[i][2] :
                         i \in ConstraintsOn(p, "before") \cup ConstraintsOn(p, "after")} IN
        \E at \in {0} \cup bounds \cup {bound - 1 : bound \in bounds} :
            \A i \in DOMAIN p.constraints :
                /\ p.constraints[i][1] = "before" => at < p.constraints[i][2]
                /\ p.constraints[i][1] = "after" => at >= p.constraints[i][2]

\* The order of filters does not change what is found or pinned (fingerprint).
OrderIsFree ==
    \A i \in 1..(Len(typed) - 1) :
        LET swapped == [typed EXCEPT ![i] = typed[i + 1], ![i + 1] = typed[i]]
            other == ParseQuery(swapped) IN
        (/\ IsFacet(typed[i]) /\ IsFacet(typed[i + 1])
         /\ i > 1 => ~IsSugar(typed[i - 1])) =>
            /\ Unified.bad = other.bad
            /\ ~other.bad => Fingerprint(Unified) = Fingerprint(other)

QuerySafety ==
    /\ UnifiesBoth /\ NoClipIsLost /\ SpellingIsFree /\ FiltersAreObeyed
    /\ WindowsAreOpen /\ OrderIsFree
=============================================================================
