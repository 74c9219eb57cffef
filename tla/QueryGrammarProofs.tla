------------------------- MODULE QueryGrammarProofs -------------------------
(***************************************************************************)
(* What a query means to the three parsers that read it, for every         *)
(* vocabulary and every shelf of clips.  Both grammars are runs over what  *)
(* each token is read as; what two runs have in common is shown token by   *)
(* token.                                                                  *)
(***************************************************************************)
EXTENDS QueryGrammar, FoldLemmas

-----------------------------------------------------------------------------
(* The readings of tokens, and runs of them *)

\* Texts, and what tokens are as one text.
Spellings == [is : Seq(STRING \cup {":"}), form : SUBSET {"capital", "foreign", "wide", "padded"}]
AllTokens == [key : Spellings, value : Spellings]
AllKeys == RecallKeys \cup StoreKeys
FacetValues == Spellings \cup {KindSynonyms[w] : w \in DOMAIN KindSynonyms} \cup KindSlugs \cup Int
ParseStates == [bad : BOOLEAN, read : Nat, text : Seq(AllTokens), constraints : Seq(AllKeys \X FacetValues)]

NoWord == ""

\* What is read at a token: how many tokens it takes, none if it is left in the
\* text; the facet and its values, at most one; the end of the window it opens.
Readings == [takes : 0..2, key : AllKeys, values : SUBSET FacetValues, also : SUBSET Int]
ReadAs(takes, field, values, also) == [takes |-> takes, key |-> field, values |-> values, also |-> also]
LeftAlone == ReadAs(0, "app", {}, {})

Filed(p, r) ==
    IF r.also = {} THEN Pushes(p, r.key, r.values)
    ELSE Pushes(Pushes(p, r.key, r.values), "before", r.also)
Taken(p, i, r, token) ==
    IF p.bad \/ p.read >= i THEN p
    ELSE IF r.takes = 0 THEN Keeps(p, token)
    ELSE Advanced(Filed(p, r), r.takes)

NaturalReading(query, i) ==
    LET word == Word(AsciiLower(Whole(query[i])))
        facet == RecallKey(query[i])
        follows == i < Len(query)
        next == IF follows THEN Whole(query[i + 1]) ELSE NoKey IN
    IF facet # NoWord THEN ReadAs(1, facet, RecallValue(facet, query[i].value), {})
    ELSE IF word = "from" /\ follows THEN ReadAs(2, "app", RecallValue("app", next), {})
    ELSE IF word \in DOMAIN KindSynonyms THEN ReadAs(1, "kind", KindOf(word), {})
    ELSE IF word = "today" THEN ReadAs(1, "after", {Midnight}, {})
    ELSE IF word = "yesterday" THEN ReadAs(1, "after", {Midnight - 24}, {Midnight})
    ELSE IF word = "last" /\ follows THEN
        ReadAs(2, "after", {QueryNow - h : h \in DurationOf(Word(AsciiLower(next)))}, {})
    ELSE IF word = "before" /\ follows /\ Word(AsciiLower(next)) = "lunch" THEN
        ReadAs(2, "after", {Midnight}, {Noon})
    ELSE LeftAlone

UnifiedReading(query, i) ==
    LET word == Word(NormalizeLookup(Whole(query[i])))
        facet == FacetKey(query[i])
        follows == i < Len(query)
        next == IF follows THEN Whole(query[i + 1]) ELSE NoKey IN
    IF IsFacet(query[i]) THEN ReadAs(1, facet, ParseFacetValue(facet, query[i].value), {})
    ELSE IF word = "from" /\ follows THEN ReadAs(2, "app", ParseFacetValue("app", next), {})
    ELSE IF word = "last" /\ follows THEN
        ReadAs(2, "after", {QueryNow - h : h \in DurationOf(Word(NormalizeLookup(next)))}, {})
    ELSE IF word = "today" THEN ReadAs(1, "after", {Midnight}, {})
    ELSE IF word = "yesterday" THEN ReadAs(1, "after", {Midnight - 24}, {Midnight})
    ELSE IF word = "before" /\ follows /\ Word(NormalizeLookup(next)) = "lunch" THEN
        ReadAs(2, "after", {Midnight}, {Noon})
    ELSE IF word \in DOMAIN KindSynonyms THEN ReadAs(1, "kind", KindOf(word), {})
    ELSE LeftAlone

\* h is how the parse of the query goes when each token is read as r says.
IsRun(h, query, r) ==
    /\ h \in [0..Len(query) -> ParseStates]
    /\ h[0] = Unread
    /\ \A i \in 1..Len(query) : h[i] = Taken(h[i - 1], i, r[i], query[i])

LEMMA RepeatsIs ==
  /\ \A field \in RecallKeys : field \in AllKeys /\ field \notin StoreKeys
  /\ \A field \in StoreKeys : field \in AllKeys
  /\ \A field \in RecallKeys : Registry[field].repeats = FALSE /\ Registry[field].blankIsText = FALSE
  /\ \A field \in StoreKeys : Registry[field].repeats = TRUE /\ Registry[field].blankIsText = TRUE
<1>1. /\ \A field \in RecallKeys : field \in AllKeys /\ field \notin StoreKeys
      /\ \A field \in StoreKeys : field \in AllKeys
  BY DEF RecallKeys, StoreKeys, AllKeys
<1>2. ASSUME NEW field \in StoreKeys PROVE Registry[field].repeats = TRUE /\ Registry[field].blankIsText = TRUE
  BY <1>1 DEF Registry, RecallKeys, StoreKeys, AllKeys, Facet
<1>3. /\ Registry["app"].repeats = FALSE /\ Registry["app"].blankIsText = FALSE
      /\ Registry["kind"].repeats = FALSE /\ Registry["kind"].blankIsText = FALSE
      /\ Registry["tag"].repeats = FALSE /\ Registry["tag"].blankIsText = FALSE
      /\ Registry["device"].repeats = FALSE /\ Registry["device"].blankIsText = FALSE
      /\ Registry["before"].repeats = FALSE /\ Registry["before"].blankIsText = FALSE
      /\ Registry["after"].repeats = FALSE /\ Registry["after"].blankIsText = FALSE
  BY DEF Registry, RecallKeys, StoreKeys, AllKeys, Facet
<1>4. ASSUME NEW field \in RecallKeys PROVE Registry[field].repeats = FALSE /\ Registry[field].blankIsText = FALSE
  BY ONLY <1>3 DEF RecallKeys
<1> QED
  BY <1>1, <1>2, <1>4

LEMMA OnceIsPushes ==
  ASSUME NEW p, NEW field \in RecallKeys, NEW values PROVE Once(p, field, values) = Pushes(p, field, values)
<1>1. Registry[field].repeats = FALSE
  BY Zenon, RepeatsIs DEF AllKeys
<1> QED
  BY <1>1 DEF Once, Pushes

LEMMA NaturalSteps ==
  ASSUME NEW p, NEW query, NEW i
  PROVE RecallStep(query, p, i) = Taken(p, i, NaturalReading(query, i), query[i])
<1> DEFINE word == Word(AsciiLower(Whole(query[i])))
           facet == RecallKey(query[i])
           named == facet # ""
           follows == i < Len(query)
           next == IF follows THEN Whole(query[i + 1]) ELSE NoKey
           lastWord == Word(AsciiLower(next))
           spans == {QueryNow - h : h \in DurationOf(lastWord)}
           r == NaturalReading(query, i)
<1>1. {"app", "kind", "before", "after"} \subseteq RecallKeys /\ (named => facet \in RecallKeys)
  BY DEF RecallKeys, RecallKey
<1>3. r = (IF named THEN ReadAs(1, facet, RecallValue(facet, query[i].value), {})
    ELSE IF word = "from" /\ follows THEN ReadAs(2, "app", RecallValue("app", next), {})
    ELSE IF word \in DOMAIN KindSynonyms THEN ReadAs(1, "kind", KindOf(word), {})
    ELSE IF word = "today" THEN ReadAs(1, "after", {Midnight}, {})
    ELSE IF word = "yesterday" THEN ReadAs(1, "after", {Midnight - 24}, {Midnight})
    ELSE IF word = "last" /\ follows THEN
        ReadAs(2, "after", spans, {})
    ELSE IF word = "before" /\ follows /\ lastWord = "lunch" THEN
        ReadAs(2, "after", {Midnight}, {Noon})
    ELSE LeftAlone)
  BY DEF NaturalReading, NoWord
<1>11. \A s, v : /\ Once(s, "app", v) = Pushes(s, "app", v) /\ Once(s, "kind", v) = Pushes(s, "kind", v)
               /\ Once(s, "before", v) = Pushes(s, "before", v) /\ Once(s, "after", v) = Pushes(s, "after", v)
  BY OnceIsPushes, <1>1
<1>12. named => Once(p, facet, RecallValue(facet, query[i].value)) = Pushes(p, facet, RecallValue(facet, query[i].value))
  BY OnceIsPushes, <1>1
<1>13. RecallStep(query, p, i) = (IF p.bad \/ p.read >= i THEN p
    ELSE IF named THEN Advanced(Once(p, facet, RecallValue(facet, query[i].value)), 1)
    ELSE IF word = "from" /\ follows THEN Advanced(Once(p, "app", RecallValue("app", next)), 2)
    ELSE IF word \in DOMAIN KindSynonyms THEN Advanced(Once(p, "kind", KindOf(word)), 1)
    ELSE IF word = "today" THEN Advanced(Once(p, "after", {Midnight}), 1)
    ELSE IF word = "yesterday" THEN
        Advanced(Once(Once(p, "after", {Midnight - 24}), "before", {Midnight}), 1)
    ELSE IF word = "last" /\ follows THEN
        Advanced(Once(p, "after", spans), 2)
    ELSE IF word = "before" /\ follows /\ lastWord = "lunch" THEN
        Advanced(Once(Once(p, "after", {Midnight}), "before", {Noon}), 2)
    ELSE Keeps(p, query[i]))
  BY DEF RecallStep
<1>4. RecallStep(query, p, i) = (IF p.bad \/ p.read >= i THEN p
    ELSE IF named THEN Advanced(Pushes(p, facet, RecallValue(facet, query[i].value)), 1)
    ELSE IF word = "from" /\ follows THEN Advanced(Pushes(p, "app", RecallValue("app", next)), 2)
    ELSE IF word \in DOMAIN KindSynonyms THEN Advanced(Pushes(p, "kind", KindOf(word)), 1)
    ELSE IF word = "today" THEN Advanced(Pushes(p, "after", {Midnight}), 1)
    ELSE IF word = "yesterday" THEN
        Advanced(Pushes(Pushes(p, "after", {Midnight - 24}), "before", {Midnight}), 1)
    ELSE IF word = "last" /\ follows THEN
        Advanced(Pushes(p, "after", spans), 2)
    ELSE IF word = "before" /\ follows /\ lastWord = "lunch" THEN
        Advanced(Pushes(Pushes(p, "after", {Midnight}), "before", {Noon}), 2)
    ELSE Keeps(p, query[i]))
  <2> HIDE DEF word, facet, named, follows, next, lastWord, spans, r
  <2> QED
    BY ONLY <1>11, <1>12, <1>13
<1>5. \A takes, field, values, also :
        /\ ReadAs(takes, field, values, also).takes = takes /\ ReadAs(takes, field, values, also).key = field
        /\ ReadAs(takes, field, values, also).values = values /\ ReadAs(takes, field, values, also).also = also
  BY DEF ReadAs
<1>6. \A instant : {instant} # {}
  OBVIOUS
<1> HIDE DEF word, facet, named, follows, next, lastWord, spans, r
<1>7. CASE p.bad \/ p.read >= i
  BY ONLY <1>4, <1>7 DEF Taken
<1>8. ASSUME ~(p.bad \/ p.read >= i)
      PROVE Taken(p, i, r, query[i]) = IF r.takes = 0 THEN Keeps(p, query[i]) ELSE Advanced(Filed(p, r), r.takes)
  BY ONLY <1>8 DEF Taken
<1>9. ASSUME ~(p.bad \/ p.read >= i)
      PROVE RecallStep(query, p, i) = IF r.takes = 0 THEN Keeps(p, query[i]) ELSE Advanced(Filed(p, r), r.takes)
  <2>1. CASE named
    BY ONLY <1>3, <1>4, <1>5, <1>6, <1>9, <2>1 DEF Filed
  <2>2. CASE ~(named) /\ word = "from" /\ follows
    BY ONLY <1>3, <1>4, <1>5, <1>6, <1>9, <2>2 DEF Filed
  <2>3. CASE ~(named) /\ ~(word = "from" /\ follows) /\ word \in DOMAIN KindSynonyms
    BY ONLY <1>3, <1>4, <1>5, <1>6, <1>9, <2>3 DEF Filed
  <2>4. CASE ~(named)
              /\ ~(word = "from" /\ follows)
              /\ ~(word \in DOMAIN KindSynonyms) /\ word = "today"
    BY ONLY <1>3, <1>4, <1>5, <1>6, <1>9, <2>4 DEF Filed
  <2>5. CASE ~(named)
              /\ ~(word = "from" /\ follows)
              /\ ~(word \in DOMAIN KindSynonyms)
              /\ ~(word = "today") /\ word = "yesterday"
    BY ONLY <1>3, <1>4, <1>5, <1>6, <1>9, <2>5 DEF Filed
  <2>6. CASE ~(named)
              /\ ~(word = "from" /\ follows)
              /\ ~(word \in DOMAIN KindSynonyms)
              /\ ~(word = "today")
              /\ ~(word = "yesterday") /\ word = "last" /\ follows
    BY ONLY <1>3, <1>4, <1>5, <1>6, <1>9, <2>6 DEF Filed
  <2>7. CASE ~(named)
              /\ ~(word = "from" /\ follows)
              /\ ~(word \in DOMAIN KindSynonyms)
              /\ ~(word = "today")
              /\ ~(word = "yesterday")
              /\ ~(word = "last" /\ follows) /\ word = "before" /\ follows /\ lastWord = "lunch"
    BY ONLY <1>3, <1>4, <1>5, <1>6, <1>9, <2>7 DEF Filed
  <2>8. CASE ~(named)
            /\ ~(word = "from" /\ follows)
            /\ ~(word \in DOMAIN KindSynonyms)
            /\ ~(word = "today")
            /\ ~(word = "yesterday")
            /\ ~(word = "last" /\ follows)
            /\ ~(word = "before" /\ follows /\ lastWord = "lunch")
    BY ONLY <1>3, <1>4, <1>5, <1>6, <1>9, <2>8 DEF LeftAlone
  <2> QED
    BY ONLY <2>1, <2>2, <2>3, <2>4, <2>5, <2>6, <2>7, <2>8
<1> QED
  BY ONLY <1>7, <1>8, <1>9 DEF r

LEMMA UnifiedSteps ==
  ASSUME NEW p, NEW query, NEW i
  PROVE GrammarStep(query, p, i) = Taken(p, i, UnifiedReading(query, i), query[i])
<1> DEFINE word == Word(NormalizeLookup(Whole(query[i])))
           facet == FacetKey(query[i])
           follows == i < Len(query)
           next == IF follows THEN Whole(query[i + 1]) ELSE NoKey
           lastWord == Word(NormalizeLookup(next))
           spans == {QueryNow - h : h \in DurationOf(lastWord)}
           r == UnifiedReading(query, i)
<1>3. r = (IF IsFacet(query[i]) THEN ReadAs(1, facet, ParseFacetValue(facet, query[i].value), {})
    ELSE IF word = "from" /\ follows THEN ReadAs(2, "app", ParseFacetValue("app", next), {})
    ELSE IF word = "last" /\ follows THEN
        ReadAs(2, "after", spans, {})
    ELSE IF word = "today" THEN ReadAs(1, "after", {Midnight}, {})
    ELSE IF word = "yesterday" THEN ReadAs(1, "after", {Midnight - 24}, {Midnight})
    ELSE IF word = "before" /\ follows /\ lastWord = "lunch" THEN
        ReadAs(2, "after", {Midnight}, {Noon})
    ELSE IF word \in DOMAIN KindSynonyms THEN ReadAs(1, "kind", KindOf(word), {})
    ELSE LeftAlone)
  BY DEF UnifiedReading
<1>4. GrammarStep(query, p, i) = (IF p.bad \/ p.read >= i THEN p
    ELSE IF IsFacet(query[i]) THEN Advanced(Pushes(p, facet, ParseFacetValue(facet, query[i].value)), 1)
    ELSE IF word = "from" /\ follows THEN Advanced(Pushes(p, "app", ParseFacetValue("app", next)), 2)
    ELSE IF word = "last" /\ follows THEN
        Advanced(Pushes(p, "after", spans), 2)
    ELSE IF word = "today" THEN Advanced(Pushes(p, "after", {Midnight}), 1)
    ELSE IF word = "yesterday" THEN
        Advanced(Pushes(Pushes(p, "after", {Midnight - 24}), "before", {Midnight}), 1)
    ELSE IF word = "before" /\ follows /\ lastWord = "lunch" THEN
        Advanced(Pushes(Pushes(p, "after", {Midnight}), "before", {Noon}), 2)
    ELSE IF word \in DOMAIN KindSynonyms THEN Advanced(Pushes(p, "kind", KindOf(word)), 1)
    ELSE Keeps(p, query[i]))
  BY DEF GrammarStep
<1>5. \A takes, field, values, also :
        /\ ReadAs(takes, field, values, also).takes = takes /\ ReadAs(takes, field, values, also).key = field
        /\ ReadAs(takes, field, values, also).values = values /\ ReadAs(takes, field, values, also).also = also
  BY DEF ReadAs
<1>6. \A instant : {instant} # {}
  OBVIOUS
<1> HIDE DEF word, facet, follows, next, lastWord, spans, r
<1>7. CASE p.bad \/ p.read >= i
  BY ONLY <1>4, <1>7 DEF Taken
<1>8. ASSUME ~(p.bad \/ p.read >= i)
      PROVE Taken(p, i, r, query[i]) = IF r.takes = 0 THEN Keeps(p, query[i]) ELSE Advanced(Filed(p, r), r.takes)
  BY ONLY <1>8 DEF Taken
<1>9. ASSUME ~(p.bad \/ p.read >= i)
      PROVE GrammarStep(query, p, i) = IF r.takes = 0 THEN Keeps(p, query[i]) ELSE Advanced(Filed(p, r), r.takes)
  <2>1. CASE IsFacet(query[i])
    BY ONLY <1>3, <1>4, <1>5, <1>6, <1>9, <2>1 DEF Filed
  <2>2. CASE ~(IsFacet(query[i])) /\ word = "from" /\ follows
    BY ONLY <1>3, <1>4, <1>5, <1>6, <1>9, <2>2 DEF Filed
  <2>3. CASE ~(IsFacet(query[i])) /\ ~(word = "from" /\ follows) /\ word = "last" /\ follows
    BY ONLY <1>3, <1>4, <1>5, <1>6, <1>9, <2>3 DEF Filed
  <2>4. CASE ~(IsFacet(query[i]))
              /\ ~(word = "from" /\ follows)
              /\ ~(word = "last" /\ follows) /\ word = "today"
    BY ONLY <1>3, <1>4, <1>5, <1>6, <1>9, <2>4 DEF Filed
  <2>5. CASE ~(IsFacet(query[i]))
              /\ ~(word = "from" /\ follows)
              /\ ~(word = "last" /\ follows)
              /\ ~(word = "today") /\ word = "yesterday"
    BY ONLY <1>3, <1>4, <1>5, <1>6, <1>9, <2>5 DEF Filed
  <2>6. CASE ~(IsFacet(query[i]))
              /\ ~(word = "from" /\ follows)
              /\ ~(word = "last" /\ follows)
              /\ ~(word = "today")
              /\ ~(word = "yesterday") /\ word = "before" /\ follows /\ lastWord = "lunch"
    BY ONLY <1>3, <1>4, <1>5, <1>6, <1>9, <2>6 DEF Filed
  <2>7. CASE ~(IsFacet(query[i]))
              /\ ~(word = "from" /\ follows)
              /\ ~(word = "last" /\ follows)
              /\ ~(word = "today")
              /\ ~(word = "yesterday")
              /\ ~(word = "before" /\ follows /\ lastWord = "lunch") /\ word \in DOMAIN KindSynonyms
    BY ONLY <1>3, <1>4, <1>5, <1>6, <1>9, <2>7 DEF Filed
  <2>8. CASE ~(IsFacet(query[i]))
            /\ ~(word = "from" /\ follows)
            /\ ~(word = "last" /\ follows)
            /\ ~(word = "today")
            /\ ~(word = "yesterday")
            /\ ~(word = "before" /\ follows /\ lastWord = "lunch")
            /\ ~(word \in DOMAIN KindSynonyms)
    BY ONLY <1>3, <1>4, <1>5, <1>6, <1>9, <2>8 DEF LeftAlone
  <2> QED
    BY ONLY <2>1, <2>2, <2>3, <2>4, <2>5, <2>6, <2>7, <2>8
<1> QED
  BY ONLY <1>7, <1>8, <1>9 DEF r

-----------------------------------------------------------------------------
(* Words and texts *)

LEMMA WordIs == \A t : Word(t) = IF t.form = {} /\ Len(t.is) = 1 THEN Head(t.is) ELSE NoWord
BY Zenon DEF Word, NoWord

LEMMA NoWordIs ==
  /\ NoWord \notin RecallKeys /\ NoWord \notin StoreKeys /\ NoWord \notin AllKeys
  /\ NoWord # "from" /\ NoWord # "last" /\ NoWord # "today" /\ NoWord # "yesterday"
  /\ NoWord # "before" /\ NoWord # "lunch"
BY Zenon DEF NoWord, AllKeys, RecallKeys, StoreKeys

LEMMA KeysAre ==
  /\ \A token : RecallKey(token) = IF Word(AsciiLower(token.key)) \in RecallKeys THEN Word(AsciiLower(token.key)) ELSE NoWord
  /\ \A token : FacetKey(token) = IF Word(NormalizeLookup(token.key)) \in AllKeys THEN Word(NormalizeLookup(token.key)) ELSE NoWord
  /\ \A token : IsFacet(token) <=> /\ FacetKey(token) # NoWord
                                   /\ ~(Blank(token.value) /\ FacetKey(token) \in StoreKeys)
<1>1. \A token : RecallKey(token) = IF Word(AsciiLower(token.key)) \in RecallKeys THEN Word(AsciiLower(token.key)) ELSE NoWord
  BY Zenon DEF RecallKey, NoWord
<1>2. DOMAIN Registry = AllKeys
  BY DEF Registry, AllKeys
<1>3. \A token : FacetKey(token) = IF Word(NormalizeLookup(token.key)) \in AllKeys THEN Word(NormalizeLookup(token.key)) ELSE NoWord
  BY Zenon, <1>2 DEF FacetKey, NoWord
<1>4. \A token : IsFacet(token) <=> /\ FacetKey(token) # NoWord
                                    /\ ~(Blank(token.value) /\ Registry[FacetKey(token)].blankIsText)
  BY Zenon DEF IsFacet, NoWord
<1>5. \A token : FacetKey(token) # NoWord => FacetKey(token) \in AllKeys
  BY Zenon, <1>3
<1>6. \A field \in AllKeys : Registry[field].blankIsText <=> field \in StoreKeys
  BY RepeatsIs DEF AllKeys
<1> QED
  BY ONLY Zenon, <1>1, <1>3, <1>4, <1>5, <1>6

\* What the vocabulary says of words.
LEMMA VocabularyIs ==
  /\ NoWord \notin DOMAIN KindSynonyms /\ NoWord \notin DOMAIN Durations
  /\ NoWord \notin DOMAIN Dates /\ NoWord \notin KindSlugs
  /\ Sugar \cap (DOMAIN KindSynonyms \cup DOMAIN Durations \cup DOMAIN Dates) = {}
  /\ \A w \in DOMAIN Durations : Durations[w] \in Nat
  /\ \A w \in DOMAIN Dates : Dates[w] \in Int
<1>1. NoWord \in Sugar \cup {""}
  BY Zenon DEF NoWord
<1>2. NoWord \notin DOMAIN KindSynonyms \cup DOMAIN Durations \cup DOMAIN Dates
  BY <1>1, VocabularyAssumption
<1>3. NoWord \notin KindSlugs
  BY Zenon, VocabularyAssumption DEF NoWord
<1> QED
  BY <1>2, <1>3, VocabularyAssumption

LEMMA TextsAre ==
  ASSUME NEW t \in Spellings
  PROVE /\ AsciiLower(t) \in Spellings /\ AsciiLower(t).is = t.is /\ AsciiLower(t).form = t.form \ {"capital"}
        /\ UnicodeLower(t) \in Spellings /\ UnicodeLower(t).is = t.is
        /\ UnicodeLower(t).form = t.form \ {"capital", "foreign"}
        /\ NormalizeLabel(t) \in Spellings /\ NormalizeLabel(t).is = t.is
        /\ NormalizeLookup(t) \in Spellings /\ NormalizeLookup(t).is = t.is /\ NormalizeLookup(t).form = {}
        /\ NormalizeLookup(t) = [is |-> t.is, form |-> {}]
<1> DEFINE Forms4 == {"capital", "foreign", "wide", "padded"}
<1>1. t = [is |-> t.is, form |-> t.form] /\ t.is \in Seq(STRING \cup {":"}) /\ t.form \in SUBSET Forms4
  BY DEF Spellings
<1>2. /\ AsciiLower(t) = [is |-> t.is, form |-> t.form \ {"capital"}]
      /\ UnicodeLower(t) = [is |-> t.is, form |-> t.form \ {"capital", "foreign"}]
      /\ NormalizeLabel(t) = [is |-> t.is, form |-> t.form \ {"capital", "padded"}]
      /\ NormalizeLookup(t) = [is |-> t.is, form |-> {}]
  <2> DEFINE is == t.is form == t.form
  <2>1. t = [is |-> is, form |-> form]
    BY <1>1
  <2> HIDE DEF is, form
  <2>2. \A f : [t EXCEPT !.form = f] = [is |-> is, form |-> f]
    BY ONLY <2>1
  <2>3. t.form = form /\ t.is = is
    BY ONLY <2>1
  <2>4. /\ AsciiLower(t) = [t EXCEPT !.form = form \ {"capital"}]
        /\ UnicodeLower(t) = [t EXCEPT !.form = form \ {"capital", "foreign"}]
        /\ NormalizeLabel(t) = [t EXCEPT !.form = form \ {"capital", "padded"}]
        /\ NormalizeLookup(t) = [t EXCEPT !.form = {}]
    BY ONLY <2>3 DEF AsciiLower, UnicodeLower, NormalizeLabel, NormalizeLookup
  <2> QED
    BY ONLY <2>2, <2>3, <2>4
<1>3. Spellings = [is : Seq(STRING \cup {":"}), form : SUBSET Forms4]
  BY DEF Spellings
<1> HIDE DEF Forms4
<1>4. \A f \in SUBSET Forms4 : [is |-> t.is, form |-> f] \in Spellings
  BY ONLY <1>1, <1>3
<1>5. /\ t.form \ {"capital"} \in SUBSET Forms4 /\ t.form \ {"capital", "foreign"} \in SUBSET Forms4
      /\ t.form \ {"capital", "padded"} \in SUBSET Forms4 /\ {} \in SUBSET Forms4
  BY ONLY <1>1
<1> QED
  BY ONLY <1>2, <1>4, <1>5

LEMMA WholeIs ==
  ASSUME NEW token \in AllTokens
  PROVE /\ Whole(token) \in Spellings
        /\ token.key = NoKey => Whole(token) = token.value
        /\ token.key # NoKey => /\ Whole(token).is = token.key.is \o <<":">> \o token.value.is
                                /\ Len(Whole(token).is) = Len(token.key.is) + 1 + Len(token.value.is)
                                /\ Whole(token).form = token.key.form \cup token.value.form
<1>1. token.key \in Spellings /\ token.value \in Spellings
  BY DEF AllTokens
<1>2. CASE token.key = NoKey
  BY <1>1, <1>2 DEF Whole
<1>3. CASE token.key # NoKey
  <2>0. ":" \in STRING \cup {":"}
    OBVIOUS
  <2>1. token.key.is \in Seq(STRING \cup {":"}) /\ token.value.is \in Seq(STRING \cup {":"})
    BY <1>1 DEF Spellings
  <2>2. token.key.form \in SUBSET {"capital", "foreign", "wide", "padded"}
        /\ token.value.form \in SUBSET {"capital", "foreign", "wide", "padded"}
    BY <1>1 DEF Spellings
  <2>3. Whole(token) = [is |-> token.key.is \o <<":">> \o token.value.is,
                        form |-> token.key.form \cup token.value.form]
    BY <1>3 DEF Whole
  <2>4. token.key.is \o <<":">> \o token.value.is \in Seq(STRING \cup {":"})
        /\ Len(token.key.is \o <<":">> \o token.value.is) = Len(token.key.is) + 1 + Len(token.value.is)
    BY ONLY <2>0, <2>1
  <2>5. token.key.form \cup token.value.form \in SUBSET {"capital", "foreign", "wide", "padded"}
    BY ONLY <2>2
  <2>6. Whole(token) \in Spellings
    BY ONLY <2>3, <2>4, <2>5 DEF Spellings
  <2>7. Whole(token).is = token.key.is \o <<":">> \o token.value.is
        /\ Whole(token).form = token.key.form \cup token.value.form
    <3> DEFINE is == token.key.is \o <<":">> \o token.value.is
               form == token.key.form \cup token.value.form
    <3>1. Whole(token) = [is |-> is, form |-> form]
      BY ONLY <2>3
    <3> HIDE DEF is, form
    <3>2. Whole(token).is = is /\ Whole(token).form = form
      BY ONLY <3>1
    <3> QED
      BY ONLY <3>2 DEF is, form
  <2> QED
    BY ONLY <1>3, <2>4, <2>6, <2>7
<1> QED
  BY <1>2, <1>3

\* Values are values, and instants where a window is to begin or end.
LEMMA ValuesAre ==
  ASSUME NEW word, NEW t \in Spellings
  PROVE /\ KindOf(word) \in SUBSET FacetValues
        /\ {QueryNow - h : h \in DurationOf(word)} \in SUBSET Int
        /\ Since(t) \in SUBSET Int
        /\ DateOf(word) \in SUBSET Int
<1>1. KindOf(word) \in SUBSET FacetValues
  BY DEF KindOf, FacetValues
<1>2. \A h \in DurationOf(word) : h \in Int
  BY VocabularyIs DEF DurationOf
<1>3. \A w : \A h \in DurationOf(w) : h \in Int
  BY VocabularyIs DEF DurationOf
<1>4. QueryNow \in Int
  BY DEF QueryNow, Midnight
<1>5. Since(t) \in SUBSET Int
  BY ONLY <1>3, <1>4 DEF Since
<1>6. DateOf(word) \in SUBSET Int
  BY VocabularyIs DEF DateOf
<1> QED
  BY ONLY <1>1, <1>2, <1>4, <1>5, <1>6

LEMMA InstantsAre ==
  ASSUME NEW t \in Spellings
  PROVE DateOrRelative(t) \in SUBSET Int /\ ParseInstant(t) \in SUBSET Int
<1>1. AsciiLower(t) \in Spellings
  BY TextsAre
<1>2. Midnight \in Int /\ Midnight - 24 \in Int
  BY DEF Midnight
<1>3. /\ Since(t) \in SUBSET Int /\ Since(AsciiLower(t)) \in SUBSET Int
      /\ \A word : DateOf(word) \in SUBSET Int
  BY <1>1, ValuesAre
<1>4. DateOrRelative(t) \in SUBSET Int
  BY ONLY <1>2, <1>3 DEF DateOrRelative
<1> QED
  BY ONLY <1>2, <1>3, <1>4 DEF ParseInstant

LEMMA FacetValuesAre ==
  ASSUME NEW field \in AllKeys, NEW t \in Spellings
  PROVE /\ RecallValue(field, t) \in SUBSET FacetValues
        /\ ParseFacetValue(field, t) \in SUBSET FacetValues
        /\ field \in {"before", "after"} => /\ RecallValue(field, t) \in SUBSET Int
                                          /\ ParseFacetValue(field, t) \in SUBSET Int
<1>1. AsciiLower(t) \in Spellings /\ NormalizeLookup(t) \in Spellings
  BY TextsAre
<1>2. /\ DateOrRelative(t) \in SUBSET Int /\ ParseInstant(NormalizeLookup(t)) \in SUBSET Int
  BY <1>1, InstantsAre
<1>3. \A word : KindOf(word) \in SUBSET FacetValues
  BY ValuesAre, <1>1
<1>4. Spellings \subseteq FacetValues /\ Int \subseteq FacetValues
  BY DEF FacetValues
<1>5. RecallValue(field, t) \in SUBSET FacetValues /\ (field \in {"before", "after"} => RecallValue(field, t) \in SUBSET Int)
  BY ONLY <1>1, <1>2, <1>3, <1>4 DEF RecallValue
<1>6. /\ Registry["before"].syntax = "instant" /\ Registry["after"].syntax = "instant"
  BY DEF Registry, RecallKeys, StoreKeys, Facet
<1>7. ParseFacetValue(field, t) \in SUBSET FacetValues
  BY ONLY <1>1, <1>2, <1>3, <1>4 DEF ParseFacetValue
<1>8. field \in {"before", "after"} => ParseFacetValue(field, t) \in SUBSET Int
  BY ONLY <1>2, <1>6 DEF ParseFacetValue
<1> QED
  BY ONLY <1>5, <1>7, <1>8

WellRead(r, i, n) ==
    /\ r \in Readings
    /\ r.takes = 2 => i < n
    /\ r.key \in {"before", "after"} => r.values \in SUBSET Int
    /\ r.also # {} => r.key = "after"

LEMMA ReadAsIs ==
  \A takes, field, values, also :
        /\ ReadAs(takes, field, values, also).takes = takes /\ ReadAs(takes, field, values, also).key = field
        /\ ReadAs(takes, field, values, also).values = values /\ ReadAs(takes, field, values, also).also = also
        /\ takes \in 0..2 /\ field \in AllKeys /\ values \in SUBSET FacetValues /\ also \in SUBSET Int
             => ReadAs(takes, field, values, also) \in Readings
BY DEF ReadAs, Readings

LEMMA ReadAsIsWell ==
  ASSUME NEW takes \in 0..2, NEW field \in AllKeys, NEW values \in SUBSET FacetValues, NEW also \in SUBSET Int,
         NEW i \in Nat, NEW n \in Nat, takes = 2 => i < n,
         field \in {"before", "after"} => values \in SUBSET Int, also # {} => field = "after"
  PROVE WellRead(ReadAs(takes, field, values, also), i, n)
<1> DEFINE r == ReadAs(takes, field, values, also)
<1>1. r.takes = takes /\ r.key = field /\ r.values = values /\ r.also = also
  BY ReadAsIs
<1>2. r \in Readings
  BY ReadAsIs
<1> HIDE DEF r
<1>3. WellRead(r, i, n)
  BY <1>1, <1>2 DEF WellRead
<1> QED
  BY ONLY <1>3 DEF r

LEMMA NaturalIsWellRead ==
  ASSUME NEW query \in Seq(AllTokens), NEW i \in 1..Len(query)
  PROVE WellRead(NaturalReading(query, i), i, Len(query))
<1> DEFINE word == Word(AsciiLower(Whole(query[i])))
           facet == RecallKey(query[i])
           follows == i < Len(query)
           next == IF follows THEN Whole(query[i + 1]) ELSE NoKey
           lastWord == Word(AsciiLower(next))
           spans == {QueryNow - h : h \in DurationOf(lastWord)}
           r == NaturalReading(query, i)
<1>1. Len(query) \in Nat /\ query[i] \in AllTokens /\ (follows => query[i + 1] \in AllTokens)
  OBVIOUS
<1>2. query[i].value \in Spellings
  BY <1>1 DEF AllTokens
<1>3. NoKey \in Spellings
  BY DEF NoKey, Spellings
<1>4. next \in Spellings
  BY <1>1, <1>3, WholeIs
<1>5. facet # NoWord => facet \in AllKeys
  BY Zenon, KeysAre, RepeatsIs
<1>6. /\ facet # NoWord => /\ RecallValue(facet, query[i].value) \in SUBSET FacetValues
                           /\ facet \in {"before", "after"} => RecallValue(facet, query[i].value) \in SUBSET Int
  BY ONLY <1>2, <1>5, FacetValuesAre
<1>7. "app" \in AllKeys /\ "kind" \in AllKeys /\ "after" \in AllKeys
  BY DEF AllKeys, RecallKeys
<1>8. RecallValue("app", next) \in SUBSET FacetValues
  BY ONLY <1>4, <1>7, FacetValuesAre
<1>9. KindOf(word) \in SUBSET FacetValues /\ spans \in SUBSET Int
  BY <1>3, ValuesAre
<1>10. Int \subseteq FacetValues /\ Midnight \in Int /\ Midnight - 24 \in Int /\ Noon \in Int
  BY DEF FacetValues, Midnight, Noon
<1>11. r = (IF facet # NoWord THEN ReadAs(1, facet, RecallValue(facet, query[i].value), {})
    ELSE IF word = "from" /\ follows THEN ReadAs(2, "app", RecallValue("app", next), {})
    ELSE IF word \in DOMAIN KindSynonyms THEN ReadAs(1, "kind", KindOf(word), {})
    ELSE IF word = "today" THEN ReadAs(1, "after", {Midnight}, {})
    ELSE IF word = "yesterday" THEN ReadAs(1, "after", {Midnight - 24}, {Midnight})
    ELSE IF word = "last" /\ follows THEN ReadAs(2, "after", spans, {})
    ELSE IF word = "before" /\ follows /\ lastWord = "lunch" THEN
        ReadAs(2, "after", {Midnight}, {Noon})
    ELSE ReadAs(0, "app", {}, {}))
  BY DEF NaturalReading, LeftAlone
<1> HIDE DEF word, facet, next, lastWord, spans, r
<1> DEFINE n == Len(query) dawn == Midnight - 24
<1>12. /\ {Midnight} \in SUBSET Int /\ {dawn} \in SUBSET Int /\ {Noon} \in SUBSET Int /\ {} \in SUBSET Int
       /\ {Midnight} \in SUBSET FacetValues /\ {dawn} \in SUBSET FacetValues /\ spans \in SUBSET FacetValues
       /\ {} \in SUBSET FacetValues
  BY ONLY <1>9, <1>10
<1> HIDE DEF dawn
<1>13. n \in Nat /\ i \in Nat
  BY <1>1
<1> HIDE DEF n
<1>14. facet # NoWord => WellRead(ReadAs(1, facet, RecallValue(facet, query[i].value), {}), i, n)
  BY ONLY <1>5, <1>6, <1>12, <1>13, ReadAsIsWell
<1>15. /\ i < n => WellRead(ReadAs(2, "app", RecallValue("app", next), {}), i, n)
       /\ WellRead(ReadAs(1, "kind", KindOf(word), {}), i, n)
  BY ONLY <1>7, <1>8, <1>9, <1>12, <1>13, ReadAsIsWell
<1>16. /\ WellRead(ReadAs(1, "after", {Midnight}, {}), i, n)
       /\ WellRead(ReadAs(1, "after", {dawn}, {Midnight}), i, n)
  BY ONLY <1>7, <1>12, <1>13, ReadAsIsWell
<1>17. /\ i < n => WellRead(ReadAs(2, "after", spans, {}), i, n)
       /\ i < n => WellRead(ReadAs(2, "after", {Midnight}, {Noon}), i, n)
       /\ WellRead(ReadAs(0, "app", {}, {}), i, n)
  BY ONLY <1>7, <1>9, <1>12, <1>13, ReadAsIsWell
<1>18. follows => i < n
  BY DEF n
<1> HIDE DEF follows
<1>19. WellRead(r, i, n)
  BY ONLY <1>11, <1>14, <1>15, <1>16, <1>17, <1>18 DEF dawn
<1> QED
  BY ONLY <1>19 DEF r, n

LEMMA UnifiedIsWellRead ==
  ASSUME NEW query \in Seq(AllTokens), NEW i \in 1..Len(query)
  PROVE WellRead(UnifiedReading(query, i), i, Len(query))
<1> DEFINE word == Word(NormalizeLookup(Whole(query[i])))
           facet == FacetKey(query[i])
           follows == i < Len(query)
           next == IF follows THEN Whole(query[i + 1]) ELSE NoKey
           lastWord == Word(NormalizeLookup(next))
           spans == {QueryNow - h : h \in DurationOf(lastWord)}
           r == UnifiedReading(query, i)
<1>1. Len(query) \in Nat /\ query[i] \in AllTokens /\ (follows => query[i + 1] \in AllTokens)
  OBVIOUS
<1>2. query[i].value \in Spellings
  BY <1>1 DEF AllTokens
<1>3. NoKey \in Spellings
  BY DEF NoKey, Spellings
<1>4. next \in Spellings
  BY <1>1, <1>3, WholeIs
<1>5. IsFacet(query[i]) => facet \in AllKeys
  BY Zenon, KeysAre
<1>6. IsFacet(query[i]) => /\ ParseFacetValue(facet, query[i].value) \in SUBSET FacetValues
                           /\ facet \in {"before", "after"} => ParseFacetValue(facet, query[i].value) \in SUBSET Int
  BY ONLY <1>2, <1>5, FacetValuesAre
<1>7. "app" \in AllKeys /\ "kind" \in AllKeys /\ "after" \in AllKeys
  BY DEF AllKeys, RecallKeys
<1>8. ParseFacetValue("app", next) \in SUBSET FacetValues
  BY ONLY <1>4, <1>7, FacetValuesAre
<1>9. KindOf(word) \in SUBSET FacetValues /\ spans \in SUBSET Int
  BY <1>3, ValuesAre
<1>10. Int \subseteq FacetValues /\ Midnight \in Int /\ Midnight - 24 \in Int /\ Noon \in Int
  BY DEF FacetValues, Midnight, Noon
<1>11. r = (IF IsFacet(query[i]) THEN ReadAs(1, facet, ParseFacetValue(facet, query[i].value), {})
    ELSE IF word = "from" /\ follows THEN ReadAs(2, "app", ParseFacetValue("app", next), {})
    ELSE IF word = "last" /\ follows THEN ReadAs(2, "after", spans, {})
    ELSE IF word = "today" THEN ReadAs(1, "after", {Midnight}, {})
    ELSE IF word = "yesterday" THEN ReadAs(1, "after", {Midnight - 24}, {Midnight})
    ELSE IF word = "before" /\ follows /\ lastWord = "lunch" THEN
        ReadAs(2, "after", {Midnight}, {Noon})
    ELSE IF word \in DOMAIN KindSynonyms THEN ReadAs(1, "kind", KindOf(word), {})
    ELSE ReadAs(0, "app", {}, {}))
  BY DEF UnifiedReading, LeftAlone
<1> HIDE DEF word, facet, next, lastWord, spans, r
<1> DEFINE n == Len(query) dawn == Midnight - 24
<1>12. /\ {Midnight} \in SUBSET Int /\ {dawn} \in SUBSET Int /\ {Noon} \in SUBSET Int /\ {} \in SUBSET Int
       /\ {Midnight} \in SUBSET FacetValues /\ {dawn} \in SUBSET FacetValues /\ spans \in SUBSET FacetValues
       /\ {} \in SUBSET FacetValues
  BY ONLY <1>9, <1>10
<1> HIDE DEF dawn
<1>13. n \in Nat /\ i \in Nat
  BY <1>1
<1> HIDE DEF n
<1>14. IsFacet(query[i]) => WellRead(ReadAs(1, facet, ParseFacetValue(facet, query[i].value), {}), i, n)
  BY ONLY <1>5, <1>6, <1>12, <1>13, ReadAsIsWell
<1>15. /\ i < n => WellRead(ReadAs(2, "app", ParseFacetValue("app", next), {}), i, n)
       /\ WellRead(ReadAs(1, "kind", KindOf(word), {}), i, n)
  BY ONLY <1>7, <1>8, <1>9, <1>12, <1>13, ReadAsIsWell
<1>16. /\ WellRead(ReadAs(1, "after", {Midnight}, {}), i, n)
       /\ WellRead(ReadAs(1, "after", {dawn}, {Midnight}), i, n)
  BY ONLY <1>7, <1>12, <1>13, ReadAsIsWell
<1>17. /\ i < n => WellRead(ReadAs(2, "after", spans, {}), i, n)
       /\ i < n => WellRead(ReadAs(2, "after", {Midnight}, {Noon}), i, n)
       /\ WellRead(ReadAs(0, "app", {}, {}), i, n)
  BY ONLY <1>7, <1>9, <1>12, <1>13, ReadAsIsWell
<1>18. follows => i < n
  BY DEF n
<1> HIDE DEF follows
<1>19. WellRead(r, i, n)
  BY ONLY <1>11, <1>14, <1>15, <1>16, <1>17, <1>18 DEF dawn
<1> QED
  BY ONLY <1>19 DEF r, n

-----------------------------------------------------------------------------
(* Queries while they are parsed *)

AnyOf(values) == CHOOSE v \in values : TRUE
Refuses(p, field, values) == values = {} \/ (field \notin StoreKeys /\ ConstraintsOn(p, field) # {})

LEMMA PushedIs ==
  ASSUME NEW p \in ParseStates, NEW field \in AllKeys, NEW values \in SUBSET FacetValues
  PROVE /\ Pushes(p, field, values) \in ParseStates
        /\ Pushes(p, field, values).read = p.read /\ Pushes(p, field, values).text = p.text
        /\ Refuses(p, field, values) =>
             Pushes(p, field, values).bad = TRUE /\ Pushes(p, field, values).constraints = p.constraints
        /\ ~Refuses(p, field, values) =>
             /\ Pushes(p, field, values).bad = p.bad
             /\ Pushes(p, field, values).constraints = Append(p.constraints, <<field, AnyOf(values)>>)
<1> DEFINE c == <<field, AnyOf(values)>>
           more == Append(p.constraints, c)
           refused == Refuses(p, field, values)
<1>1. (~Registry[field].repeats) <=> field \notin StoreKeys
  BY RepeatsIs DEF AllKeys
<1>2. Pushes(p, field, values) = IF refused THEN [p EXCEPT !.bad = TRUE] ELSE [p EXCEPT !.constraints = more]
  <2>1. Pushes(p, field, values) = IF refused THEN [p EXCEPT !.bad = TRUE] ELSE [p EXCEPT !.constraints = Append(@, c)]
    BY <1>1 DEF Pushes, Pushed, AnyOf, Refuses
  <2> QED
    BY <2>1 DEF ParseStates
<1>3. values # {} => c \in AllKeys \X FacetValues
  BY DEF AnyOf
<1>4. p.constraints \in Seq(AllKeys \X FacetValues)
  BY DEF ParseStates
<1>5. values # {} => more \in Seq(AllKeys \X FacetValues)
  BY <1>3, <1>4
<1>8. ~refused => values # {}
  BY DEF Refuses
<1> DEFINE q == Pushes(p, field, values)
<1> HIDE DEF c, more, refused, q
<1>6. refused => q \in ParseStates /\ q.read = p.read /\ q.text = p.text /\ q.bad = TRUE /\ q.constraints = p.constraints
  BY ONLY <1>2, p \in ParseStates DEF ParseStates, q
<1>7. ~refused => q \in ParseStates /\ q.read = p.read /\ q.text = p.text /\ q.bad = p.bad /\ q.constraints = more
  BY ONLY <1>2, <1>5, <1>8, p \in ParseStates DEF ParseStates, q
<1> QED
  BY ONLY <1>6, <1>7 DEF more, c, q, refused

LEMMA PushesInto ==
  ASSUME NEW p \in ParseStates, NEW field \in AllKeys, NEW values \in SUBSET FacetValues
  PROVE /\ Pushes(p, field, values) \in ParseStates
        /\ Pushes(p, field, values).read = p.read /\ Pushes(p, field, values).text = p.text
BY PushedIs

LEMMA KeepsIs ==
  ASSUME NEW p \in ParseStates, NEW token \in AllTokens
  PROVE /\ Keeps(p, token) \in ParseStates /\ Keeps(p, token).bad = p.bad
        /\ Keeps(p, token).read = p.read + 1 /\ Keeps(p, token).text = Append(p.text, token)
        /\ Keeps(p, token).constraints = p.constraints
<1> DEFINE more == Append(p.text, token)
<1>1. p.text \in Seq(AllTokens) /\ p.read \in Nat
  BY DEF ParseStates
<1>2. more \in Seq(AllTokens)
  BY <1>1
<1>3. Keeps(p, token) = [p EXCEPT !.text = more, !.read = p.read + 1]
  BY DEF Keeps, ParseStates
<1> HIDE DEF more
<1>5. Keeps(p, token) = [bad |-> p.bad, read |-> p.read + 1, text |-> more, constraints |-> p.constraints]
  BY ONLY <1>3, p \in ParseStates DEF ParseStates
<1>6. p.bad \in BOOLEAN /\ p.constraints \in Seq(AllKeys \X FacetValues)
  BY DEF ParseStates
<1>4. /\ Keeps(p, token) \in ParseStates /\ Keeps(p, token).bad = p.bad
      /\ Keeps(p, token).read = p.read + 1 /\ Keeps(p, token).text = more
      /\ Keeps(p, token).constraints = p.constraints
  BY ONLY <1>1, <1>2, <1>5, <1>6 DEF ParseStates
<1> QED
  BY ONLY <1>4 DEF more

LEMMA AdvancedIs ==
  ASSUME NEW p \in ParseStates, NEW count \in 0..2
  PROVE /\ Advanced(p, count) \in ParseStates /\ Advanced(p, count).bad = p.bad
        /\ Advanced(p, count).read = p.read + count /\ Advanced(p, count).text = p.text
        /\ Advanced(p, count).constraints = p.constraints
BY DEF Advanced, ParseStates

LEMMA FiledIs ==
  ASSUME NEW p \in ParseStates, NEW r, NEW i, NEW n, WellRead(r, i, n)
  PROVE /\ Filed(p, r) \in ParseStates /\ Filed(p, r).read = p.read /\ Filed(p, r).text = p.text
<1>1. r.key \in AllKeys /\ r.values \in SUBSET FacetValues /\ r.also \in SUBSET FacetValues /\ "before" \in AllKeys
  BY DEF WellRead, Readings, FacetValues, AllKeys, RecallKeys
<1>2. /\ Pushes(p, r.key, r.values) \in ParseStates
      /\ Pushes(p, r.key, r.values).read = p.read /\ Pushes(p, r.key, r.values).text = p.text
  BY ONLY <1>1, p \in ParseStates, PushesInto
<1> DEFINE q == Pushes(p, r.key, r.values)
<1> HIDE DEF q
<1>3. q \in ParseStates => /\ Pushes(q, "before", r.also) \in ParseStates
                      /\ Pushes(q, "before", r.also).read = q.read /\ Pushes(q, "before", r.also).text = q.text
  BY ONLY <1>1, PushesInto
<1> QED
  BY ONLY <1>2, <1>3 DEF Filed, q

LEMMA TakenIs ==
  ASSUME NEW p \in ParseStates, NEW r, NEW i, NEW n, WellRead(r, i, n), NEW token \in AllTokens
  PROVE Taken(p, i, r, token) \in ParseStates
<1>1. Filed(p, r) \in ParseStates
  BY FiledIs
<1>2. r.takes \in 0..2
  BY DEF WellRead, Readings
<1> QED
  BY ONLY <1>1, <1>2, p \in ParseStates, token \in AllTokens, KeepsIs, AdvancedIs DEF Taken

\* A fold over a list goes through it element by element.
FoldsBy(run, n, A, b, g) ==
    /\ run[{}] = b
    /\ \A s \in SUBSET (1..n) : s # {} /\ run[s \ {Max(s)}] \in A => run[s] = g[<<run[s \ {Max(s)}], Max(s)>>]
IsPath(h, n, A, b, g, run) ==
    /\ h \in [0..n -> A] /\ h[0] = b /\ h[n] = run[1..n]
    /\ \A i \in 1..n : h[i] = g[<<h[i - 1], i>>]

LEMMA FoldFollows ==
  ASSUME NEW n \in Nat, NEW A, NEW b \in A, NEW g \in [A \X (1..n) -> A], NEW run, FoldsBy(run, n, A, b, g)
  PROVE \E h : IsPath(h, n, A, b, g, run)
<1>0. /\ run[{}] = b
      /\ \A s \in SUBSET (1..n) : s # {} /\ run[s \ {Max(s)}] \in A => run[s] = g[<<run[s \ {Max(s)}], Max(s)>>]
  BY DEF FoldsBy
<1> DEFINE h == [i \in 0..n |-> run[1..i]]
<1>1. h[0] = b
  <2>1. 1..0 = {}
    OBVIOUS
  <2> QED
    BY <1>0, <2>1
<1>2. ASSUME NEW i \in 1..n, h[i - 1] \in A PROVE h[i] = g[<<h[i - 1], i>>] /\ h[i] \in A
  <2>1. Max(1..i) = i /\ (1..i) \ {i} = 1..i - 1 /\ 1..i # {} /\ 1..i \in SUBSET (1..n)
    BY ChainSteps
  <2>2. h[i] = run[1..i] /\ h[i - 1] = run[1..i - 1]
    OBVIOUS
  <2>3. h[i] = g[<<h[i - 1], i>>]
    BY ONLY <1>2, <2>1, <2>2, <1>0
  <2>4. <<h[i - 1], i>> \in A \X (1..n)
    BY <1>2
  <2> QED
    BY ONLY <2>3, <2>4, g \in [A \X (1..n) -> A]
<1>3. h[n] = run[1..n] /\ DOMAIN h = 0..n
  OBVIOUS
<1>4. h = [i \in 0..n |-> h[i]]
  OBVIOUS
<1> DEFINE T == {i \in 0..n : h[i] \in A}
<1> HIDE DEF h
<1>5. 0 \in T
  BY <1>1
<1>6. ASSUME NEW i \in 1..n, i - 1 \in T PROVE i \in T
  <2>1. h[i - 1] \in A
    BY ONLY <1>6 DEF T
  <2>2. h[i] \in A
    BY ONLY <1>2, <2>1
  <2> QED
    BY ONLY <2>2, n \in Nat DEF T
<1> HIDE DEF T
<1>7. \A i \in 0..n : i \in T
  BY ONLY <1>5, <1>6, n \in Nat, UpToAll
<1>8. \A i \in 0..n : h[i] \in A
  BY <1>7 DEF T
<1>9. h \in [0..n -> A]
  BY ONLY <1>4, <1>8
<1>10. \A i \in 1..n : i - 1 \in 0..n
  OBVIOUS
<1>11. \A i \in 1..n : h[i] = g[<<h[i - 1], i>>]
  BY ONLY <1>2, <1>8, <1>10
<1> QED
  BY ONLY <1>1, <1>3, <1>9, <1>11 DEF IsPath

NaturalReadings(query) == [i \in 1..Len(query) |-> NaturalReading(query, i)]
UnifiedReadings(query) == [i \in 1..Len(query) |-> UnifiedReading(query, i)]

LEMMA UnreadIs == Unread \in ParseStates
BY DEF Unread, ParseStates

LEMMA TakenFolds ==
  ASSUME NEW query, NEW r, NEW n \in Nat, \A i \in 1..n : WellRead(r[i], i, n) /\ query[i] \in AllTokens
  PROVE \E g \in [ParseStates \X (1..n) -> ParseStates] :
          \A p \in ParseStates : \A i \in 1..n : g[<<p, i>>] = Taken(p, i, r[i], query[i])
<1> DEFINE g == [pi \in ParseStates \X (1..n) |-> Taken(pi[1], pi[2], r[pi[2]], query[pi[2]])]
<1>1. ASSUME NEW pi \in ParseStates \X (1..n) PROVE Taken(pi[1], pi[2], r[pi[2]], query[pi[2]]) \in ParseStates
  <2>1. pi[1] \in ParseStates /\ pi[2] \in 1..n
    OBVIOUS
  <2>2. WellRead(r[pi[2]], pi[2], n) /\ query[pi[2]] \in AllTokens
    BY <2>1
  <2> QED
    BY ONLY <2>1, <2>2, TakenIs
<1>2. g \in [ParseStates \X (1..n) -> ParseStates]
  BY ONLY <1>1
<1>3. \A p \in ParseStates : \A i \in 1..n : g[<<p, i>>] = Taken(p, i, r[i], query[i])
  OBVIOUS
<1> QED
  BY ONLY <1>2, <1>3

NaturalFold(query) ==
  CHOOSE iter : iter = [s \in SUBSET DOMAIN [i \in DOMAIN query |-> i] |->
     IF s = {} THEN Unread
     ELSE LET x == Max(s) IN RecallStep(query, iter[s \ {x}], [i \in DOMAIN query |-> i][x])]

LEMMA NaturalFoldIs ==
  ASSUME NEW query
  PROVE ParseNatural(query) = Checked(NaturalFold(query)[DOMAIN [i \in DOMAIN query |-> i]])
BY DEF ParseNatural, FoldLeftDomain, FoldLeft, MapThenFoldSet, NaturalFold

LEMMA NaturalRuns ==
  ASSUME NEW query \in Seq(AllTokens)
  PROVE \E h : IsRun(h, query, NaturalReadings(query)) /\ ParseNatural(query) = Checked(h[Len(query)])
<1> DEFINE n == Len(query)
           r == NaturalReadings(query)
           run == NaturalFold(query)
<1>1. n \in Nat /\ DOMAIN query = 1..n /\ \A i \in 1..n : query[i] \in AllTokens
  OBVIOUS
<1>2. DOMAIN [i \in DOMAIN query |-> i] = 1..n /\ \A i \in 1..n : [j \in DOMAIN query |-> j][i] = i
  BY <1>1
<1>3. \A i \in 1..n : r[i] = NaturalReading(query, i)
  BY DEF NaturalReadings
<1>4. \A i \in 1..n : WellRead(r[i], i, n)
  BY <1>3, NaturalIsWellRead
<1> HIDE DEF n, r
<1>5. PICK g \in [ParseStates \X (1..n) -> ParseStates] : \A p \in ParseStates : \A i \in 1..n : g[<<p, i>>] = Taken(p, i, r[i], query[i])
  BY ONLY <1>1, <1>4, TakenFolds DEF n
<1>6. \A p : \A i \in 1..n : RecallStep(query, p, i) = Taken(p, i, r[i], query[i])
  BY ONLY <1>3, NaturalSteps
<1>7. \A s \in SUBSET (1..n) : s # {} => Max(s) \in 1..n
  BY ONLY <1>1, MaxOfIndices
<1>8. \E iter : iter = [s \in SUBSET DOMAIN [i \in DOMAIN query |-> i] |->
     IF s = {} THEN Unread
     ELSE LET x == Max(s) IN RecallStep(query, iter[s \ {x}], [i \in DOMAIN query |-> i][x])]
  <2>1. PICK it : IsChain(it, n, ParseStates, Unread, g)
    BY ONLY <1>1, UnreadIs, ChainExists
  <2>2. /\ it \in [SUBSET (1..n) -> ParseStates]
        /\ \A s \in SUBSET (1..n) : it[s] = IF s = {} THEN Unread ELSE g[<<it[s \ {Max(s)}], Max(s)>>]
    BY ONLY <2>1 DEF IsChain
  <2>3. ASSUME NEW s \in SUBSET (1..n)
        PROVE it[s] = IF s = {} THEN Unread ELSE RecallStep(query, it[s \ {Max(s)}], [i \in DOMAIN query |-> i][Max(s)])
    <3>1. CASE s = {}
      BY ONLY <2>2, <3>1
    <3>2. CASE s # {}
      <4>1. Max(s) \in 1..n /\ s \ {Max(s)} \in SUBSET (1..n)
        BY ONLY <1>7, <3>2
      <4>2. it[s \ {Max(s)}] \in ParseStates
        BY ONLY <2>2, <4>1
      <4>3. g[<<it[s \ {Max(s)}], Max(s)>>] = RecallStep(query, it[s \ {Max(s)}], Max(s))
        BY ONLY <1>5, <1>6, <4>1, <4>2
      <4>4. [i \in DOMAIN query |-> i][Max(s)] = Max(s)
        BY ONLY <1>2, <4>1
      <4> QED
        BY ONLY <2>2, <3>2, <4>3, <4>4
    <3> QED
      BY ONLY <3>1, <3>2
  <2>4. it = [s \in SUBSET (1..n) |->
              IF s = {} THEN Unread
              ELSE LET x == Max(s) IN RecallStep(query, it[s \ {x}], [i \in DOMAIN query |-> i][x])]
    BY ONLY <2>2, <2>3
  <2>5. it = [s \in SUBSET DOMAIN [i \in DOMAIN query |-> i] |->
              IF s = {} THEN Unread
              ELSE LET x == Max(s) IN RecallStep(query, it[s \ {x}], [i \in DOMAIN query |-> i][x])]
    <3>1. SUBSET DOMAIN [i \in DOMAIN query |-> i] = SUBSET (1..n)
      BY ONLY Zenon, <1>2
    <3> QED
      BY ONLY Zenon, <2>4, <3>1
  <2> QED
    BY ONLY Zenon, <2>5
<1>9. run = [s \in SUBSET DOMAIN [i \in DOMAIN query |-> i] |->
     IF s = {} THEN Unread
     ELSE LET x == Max(s) IN RecallStep(query, run[s \ {x}], [i \in DOMAIN query |-> i][x])]
  BY ONLY Zenon, <1>8 DEF NaturalFold, run
<1> HIDE DEF run
<1>10. run[{}] = Unread
  BY ONLY <1>9, <1>2
<1>11. ASSUME NEW s \in SUBSET (1..n), s # {}, run[s \ {Max(s)}] \in ParseStates
       PROVE run[s] = g[<<run[s \ {Max(s)}], Max(s)>>]
  <2>1. Max(s) \in 1..n
    BY ONLY <1>7, <1>11
  <2>2. run[s] = RecallStep(query, run[s \ {Max(s)}], Max(s))
    BY ONLY <1>9, <1>2, <1>11, <2>1
  <2> QED
    BY ONLY <1>5, <1>6, <1>11, <2>1, <2>2
<1>12. PICK h \in [0..n -> ParseStates] : /\ h[0] = Unread /\ h[n] = run[1..n]
                                     /\ \A i \in 1..n : h[i] = g[<<h[i - 1], i>>]
  <2>1. \A s \in SUBSET (1..n) : s # {} /\ run[s \ {Max(s)}] \in ParseStates => run[s] = g[<<run[s \ {Max(s)}], Max(s)>>]
    BY ONLY <1>11
  <2>2. FoldsBy(run, n, ParseStates, Unread, g)
    BY ONLY <1>10, <2>1 DEF FoldsBy
  <2>3. PICK h : IsPath(h, n, ParseStates, Unread, g, run)
    BY ONLY <1>1, <2>2, UnreadIs, FoldFollows
  <2> QED
    BY ONLY <2>3 DEF IsPath
<1>13. ASSUME NEW i \in 1..n PROVE h[i] = Taken(h[i - 1], i, r[i], query[i])
  <2>1. i - 1 \in 0..n
    BY <1>1
  <2>2. h[i - 1] \in ParseStates /\ h[i] = g[<<h[i - 1], i>>]
    BY ONLY <1>12, <2>1
  <2> QED
    BY ONLY <1>5, <2>2
<1>14. IsRun(h, query, r)
  BY ONLY <1>12, <1>13 DEF IsRun, n
<1>15. ParseNatural(query) = Checked(run[1..n])
  BY ONLY <1>2, NaturalFoldIs DEF run
<1> QED
  BY ONLY <1>12, <1>14, <1>15 DEF n, r

UnifiedFold(query) ==
  CHOOSE iter : iter = [s \in SUBSET DOMAIN [i \in DOMAIN query |-> i] |->
     IF s = {} THEN Unread
     ELSE LET x == Max(s) IN GrammarStep(query, iter[s \ {x}], [i \in DOMAIN query |-> i][x])]

LEMMA UnifiedFoldIs ==
  ASSUME NEW query
  PROVE ParseQuery(query) = Checked(UnifiedFold(query)[DOMAIN [i \in DOMAIN query |-> i]])
BY DEF ParseQuery, FoldLeftDomain, FoldLeft, MapThenFoldSet, UnifiedFold

LEMMA UnifiedRuns ==
  ASSUME NEW query \in Seq(AllTokens)
  PROVE \E h : IsRun(h, query, UnifiedReadings(query)) /\ ParseQuery(query) = Checked(h[Len(query)])
<1> DEFINE n == Len(query)
           r == UnifiedReadings(query)
           run == UnifiedFold(query)
<1>1. n \in Nat /\ DOMAIN query = 1..n /\ \A i \in 1..n : query[i] \in AllTokens
  OBVIOUS
<1>2. DOMAIN [i \in DOMAIN query |-> i] = 1..n /\ \A i \in 1..n : [j \in DOMAIN query |-> j][i] = i
  BY <1>1
<1>3. \A i \in 1..n : r[i] = UnifiedReading(query, i)
  BY DEF UnifiedReadings
<1>4. \A i \in 1..n : WellRead(r[i], i, n)
  BY <1>3, UnifiedIsWellRead
<1> HIDE DEF n, r
<1>5. PICK g \in [ParseStates \X (1..n) -> ParseStates] : \A p \in ParseStates : \A i \in 1..n : g[<<p, i>>] = Taken(p, i, r[i], query[i])
  BY ONLY <1>1, <1>4, TakenFolds DEF n
<1>6. \A p : \A i \in 1..n : GrammarStep(query, p, i) = Taken(p, i, r[i], query[i])
  BY ONLY <1>3, UnifiedSteps
<1>7. \A s \in SUBSET (1..n) : s # {} => Max(s) \in 1..n
  BY ONLY <1>1, MaxOfIndices
<1>8. \E iter : iter = [s \in SUBSET DOMAIN [i \in DOMAIN query |-> i] |->
     IF s = {} THEN Unread
     ELSE LET x == Max(s) IN GrammarStep(query, iter[s \ {x}], [i \in DOMAIN query |-> i][x])]
  <2>1. PICK it : IsChain(it, n, ParseStates, Unread, g)
    BY ONLY <1>1, UnreadIs, ChainExists
  <2>2. /\ it \in [SUBSET (1..n) -> ParseStates]
        /\ \A s \in SUBSET (1..n) : it[s] = IF s = {} THEN Unread ELSE g[<<it[s \ {Max(s)}], Max(s)>>]
    BY ONLY <2>1 DEF IsChain
  <2>3. ASSUME NEW s \in SUBSET (1..n)
        PROVE it[s] = IF s = {} THEN Unread ELSE GrammarStep(query, it[s \ {Max(s)}], [i \in DOMAIN query |-> i][Max(s)])
    <3>1. CASE s = {}
      BY ONLY <2>2, <3>1
    <3>2. CASE s # {}
      <4>1. Max(s) \in 1..n /\ s \ {Max(s)} \in SUBSET (1..n)
        BY ONLY <1>7, <3>2
      <4>2. it[s \ {Max(s)}] \in ParseStates
        BY ONLY <2>2, <4>1
      <4>3. g[<<it[s \ {Max(s)}], Max(s)>>] = GrammarStep(query, it[s \ {Max(s)}], Max(s))
        BY ONLY <1>5, <1>6, <4>1, <4>2
      <4>4. [i \in DOMAIN query |-> i][Max(s)] = Max(s)
        BY ONLY <1>2, <4>1
      <4> QED
        BY ONLY <2>2, <3>2, <4>3, <4>4
    <3> QED
      BY ONLY <3>1, <3>2
  <2>4. it = [s \in SUBSET (1..n) |->
              IF s = {} THEN Unread
              ELSE LET x == Max(s) IN GrammarStep(query, it[s \ {x}], [i \in DOMAIN query |-> i][x])]
    BY ONLY <2>2, <2>3
  <2>5. it = [s \in SUBSET DOMAIN [i \in DOMAIN query |-> i] |->
              IF s = {} THEN Unread
              ELSE LET x == Max(s) IN GrammarStep(query, it[s \ {x}], [i \in DOMAIN query |-> i][x])]
    <3>1. SUBSET DOMAIN [i \in DOMAIN query |-> i] = SUBSET (1..n)
      BY ONLY Zenon, <1>2
    <3> QED
      BY ONLY Zenon, <2>4, <3>1
  <2> QED
    BY ONLY Zenon, <2>5
<1>9. run = [s \in SUBSET DOMAIN [i \in DOMAIN query |-> i] |->
     IF s = {} THEN Unread
     ELSE LET x == Max(s) IN GrammarStep(query, run[s \ {x}], [i \in DOMAIN query |-> i][x])]
  BY ONLY Zenon, <1>8 DEF UnifiedFold, run
<1> HIDE DEF run
<1>10. run[{}] = Unread
  BY ONLY <1>9, <1>2
<1>11. ASSUME NEW s \in SUBSET (1..n), s # {}, run[s \ {Max(s)}] \in ParseStates
       PROVE run[s] = g[<<run[s \ {Max(s)}], Max(s)>>]
  <2>1. Max(s) \in 1..n
    BY ONLY <1>7, <1>11
  <2>2. run[s] = GrammarStep(query, run[s \ {Max(s)}], Max(s))
    BY ONLY <1>9, <1>2, <1>11, <2>1
  <2> QED
    BY ONLY <1>5, <1>6, <1>11, <2>1, <2>2
<1>12. PICK h \in [0..n -> ParseStates] : /\ h[0] = Unread /\ h[n] = run[1..n]
                                     /\ \A i \in 1..n : h[i] = g[<<h[i - 1], i>>]
  <2>1. \A s \in SUBSET (1..n) : s # {} /\ run[s \ {Max(s)}] \in ParseStates => run[s] = g[<<run[s \ {Max(s)}], Max(s)>>]
    BY ONLY <1>11
  <2>2. FoldsBy(run, n, ParseStates, Unread, g)
    BY ONLY <1>10, <2>1 DEF FoldsBy
  <2>3. PICK h : IsPath(h, n, ParseStates, Unread, g, run)
    BY ONLY <1>1, <2>2, UnreadIs, FoldFollows
  <2> QED
    BY ONLY <2>3 DEF IsPath
<1>13. ASSUME NEW i \in 1..n PROVE h[i] = Taken(h[i - 1], i, r[i], query[i])
  <2>1. i - 1 \in 0..n
    BY <1>1
  <2>2. h[i - 1] \in ParseStates /\ h[i] = g[<<h[i - 1], i>>]
    BY ONLY <1>12, <2>1
  <2> QED
    BY ONLY <1>5, <2>2
<1>14. IsRun(h, query, r)
  BY ONLY <1>12, <1>13 DEF IsRun, n
<1>15. ParseQuery(query) = Checked(run[1..n])
  BY ONLY <1>2, UnifiedFoldIs DEF run
<1> QED
  BY ONLY <1>12, <1>14, <1>15 DEF n, r

-----------------------------------------------------------------------------
(* What the spellings of a text have in common *)

LEMMA PlainIs ==
  ASSUME NEW t \in Spellings
  PROVE /\ t.form \subseteq {"capital"} => AsciiLower(t) = NormalizeLookup(t)
        /\ t.form = {} => NormalizeLookup(t) = t /\ AsciiLower(t) = t
        /\ "capital" \notin t.form => AsciiLower(t) = t
        /\ NormalizeLookup(NormalizeLookup(t)) = NormalizeLookup(t)
<1>1. t = [is |-> t.is, form |-> t.form]
  BY DEF Spellings
<1>2. /\ AsciiLower(t) = [is |-> t.is, form |-> t.form \ {"capital"}]
  <2> DEFINE is == t.is form == t.form
  <2>1. t = [is |-> is, form |-> form]
    BY <1>1
  <2> HIDE DEF is, form
  <2>2. \A f : [t EXCEPT !.form = f] = [is |-> is, form |-> f]
    BY ONLY <2>1
  <2>3. t.form = form /\ t.is = is
    BY ONLY <2>1
  <2>4. AsciiLower(t) = [t EXCEPT !.form = form \ {"capital"}]
    BY ONLY <2>3 DEF AsciiLower
  <2> QED
    BY ONLY <2>2, <2>3, <2>4
<1>3. /\ NormalizeLookup(t) = [is |-> t.is, form |-> {}] /\ NormalizeLookup(t) \in Spellings
      /\ NormalizeLookup(t).is = t.is
  BY TextsAre
<1>4. NormalizeLookup(NormalizeLookup(t)) = [is |-> NormalizeLookup(t).is, form |-> {}]
  BY <1>3, TextsAre
<1>5. t.form \subseteq {"capital"} => t.form \ {"capital"} = {}
  OBVIOUS
<1>6. t.form = {} => t.form \ {"capital"} = {}
  OBVIOUS
<1>7. "capital" \notin t.form => t.form \ {"capital"} = t.form
  OBVIOUS
<1> QED
  BY ONLY <1>1, <1>2, <1>3, <1>4, <1>5, <1>6, <1>7

LEMMA WordsAre ==
  ASSUME NEW t \in Spellings
  PROVE /\ Word(t) # NoWord => t.form = {} /\ Len(t.is) = 1 /\ Word(t) = Head(t.is)
        /\ Word(AsciiLower(t)) # NoWord => AsciiLower(t) = NormalizeLookup(t)
        /\ Word(NormalizeLookup(t)) # NoWord => Len(t.is) = 1 /\ Word(NormalizeLookup(t)) = Head(t.is)
        /\ Len(t.is) # 1 => Word(t) = NoWord /\ Word(AsciiLower(t)) = NoWord /\ Word(NormalizeLookup(t)) = NoWord
<1>1. /\ AsciiLower(t).is = t.is /\ AsciiLower(t).form = t.form \ {"capital"}
      /\ NormalizeLookup(t).is = t.is /\ NormalizeLookup(t).form = {}
  BY TextsAre
<1>2. \A s : Word(s) # NoWord => s.form = {} /\ Len(s.is) = 1 /\ Word(s) = Head(s.is)
  BY ONLY WordIs
<1>3. t.form \ {"capital"} = {} => t.form \subseteq {"capital"}
  OBVIOUS
<1>4. t.form \subseteq {"capital"} => AsciiLower(t) = NormalizeLookup(t)
  BY PlainIs
<1> QED
  BY ONLY <1>1, <1>2, <1>3, <1>4

\* A text without its first part.
Rest(t) == [t EXCEPT !.is = Tail(@)]

LEMMA SinceIs ==
  ASSUME NEW t \in Spellings, Since(t) # {}
  PROVE t.form = {}
<1>1. DurationOf(Word(Rest(t))) # {}
  BY DEF Since, Rest
<1>2. Word(Rest(t)) \in DOMAIN Durations
  BY <1>1 DEF DurationOf
<1>3. Word(Rest(t)) # NoWord
  BY <1>2, VocabularyIs
<1>4. Rest(t).form = {}
  BY ONLY <1>3, WordIs
<1>5. Rest(t).form = t.form
  BY DEF Rest, Spellings
<1> QED
  BY ONLY <1>4, <1>5

LEMMA RelativeIs ==
  ASSUME NEW t \in Spellings
  PROVE /\ IsRelative(NormalizeLookup(t)) <=> IsRelative(t)
        /\ IsRelative(t) => Len(t.is) = 2
<1>1. NormalizeLookup(t).is = t.is
  BY TextsAre
<1> QED
  BY ONLY <1>1 DEF IsRelative

LEMMA InstantsAgree ==
  ASSUME NEW t \in Spellings, DateOrRelative(t) # {}
  PROVE DateOrRelative(t) = ParseInstant(NormalizeLookup(t))
<1> DEFINE lower == AsciiLower(t) plain == NormalizeLookup(t)
<1>0. NoWord # "today" /\ NoWord # "yesterday"
  BY NoWordIs
<1>1. CASE Word(lower) = "today" \/ Word(lower) = "yesterday"
  <2>1. lower = plain
    BY ONLY <1>0, <1>1, t \in Spellings, WordsAre DEF lower, plain
  <2> QED
    BY ONLY <1>1, <2>1 DEF DateOrRelative, ParseInstant, lower, plain
<1>2. CASE /\ Word(lower) # "today" /\ Word(lower) # "yesterday"
           /\ IsRelative(t) /\ "capital" \notin t.form
  <2>1. DateOrRelative(t) = Since(lower)
    BY ONLY <1>2 DEF DateOrRelative, lower
  <2>2. lower = t
    BY ONLY <1>2, t \in Spellings, PlainIs DEF lower
  <2>3. t.form = {}
    BY ONLY <2>1, <2>2, t \in Spellings, DateOrRelative(t) # {}, SinceIs
  <2>4. plain = t
    BY ONLY <2>3, t \in Spellings, PlainIs DEF plain
  <2>5. Word(plain) = NoWord /\ IsRelative(plain)
    BY ONLY <1>2, t \in Spellings, WordsAre, RelativeIs DEF plain
  <2>6. ParseInstant(plain) = Since(plain)
    BY ONLY <1>0, <2>5 DEF ParseInstant
  <2> QED
    BY ONLY <2>1, <2>2, <2>4, <2>6 DEF plain
<1>3. CASE /\ Word(lower) # "today" /\ Word(lower) # "yesterday"
           /\ ~(IsRelative(t) /\ "capital" \notin t.form)
  <2>1. DateOrRelative(t) = DateOf(Word(t))
    BY ONLY <1>3 DEF DateOrRelative, lower
  <2>2. Word(t) \in DOMAIN Dates
    BY <2>1 DEF DateOf
  <2>3. Word(t) # NoWord
    BY <2>2, VocabularyIs
  <2>4. t.form = {} /\ Len(t.is) = 1
    BY ONLY <2>3, t \in Spellings, WordsAre
  <2>5. plain = t /\ lower = t
    BY ONLY <2>4, t \in Spellings, PlainIs DEF plain, lower
  <2>6. ~IsRelative(t)
    BY ONLY <2>4, t \in Spellings, RelativeIs
  <2>7. ParseInstant(t) = DateOf(Word(t))
    BY ONLY <1>3, <2>5, <2>6 DEF ParseInstant
  <2> QED
    BY ONLY <2>1, <2>5, <2>7 DEF plain
<1> QED
  BY ONLY <1>1, <1>2, <1>3

LEMMA InstantsAlike ==
  ASSUME NEW t \in Spellings, t.form \subseteq {"capital"}, "capital" \in t.form => ~IsRelative(t),
         "capital" \in t.form => \A date \in DOMAIN Dates : t.is # <<date>>
  PROVE DateOrRelative(t) = ParseInstant(NormalizeLookup(t))
<1> DEFINE lower == AsciiLower(t) plain == NormalizeLookup(t)
<1>1. lower = plain /\ (IsRelative(plain) <=> IsRelative(t))
  BY PlainIs, RelativeIs
<1>2. CASE "capital" \notin t.form
  <2>1. plain = t
    BY <1>1, <1>2, PlainIs
  <2> QED
    BY ONLY <1>1, <1>2, <2>1 DEF DateOrRelative, ParseInstant, lower, plain
<1>3. CASE "capital" \in t.form
  <2>1. ~IsRelative(t)
    BY <1>3
  <2>2. DateOf(Word(t)) = {}
    <3>1. Word(t) = NoWord
      BY <1>3, WordsAre
    <3> QED
      BY <3>1, VocabularyIs DEF DateOf
  <2>3. DateOf(Word(plain)) = {}
    <3>1. CASE Word(plain) = NoWord
      BY <3>1, VocabularyIs DEF DateOf
    <3>2. CASE Word(plain) # NoWord
      <4>1. Len(t.is) = 1 /\ Word(plain) = Head(t.is)
        BY <3>2, WordsAre
      <4>2. t.is = <<Head(t.is)>>
        BY <4>1 DEF Spellings
      <4>3. Word(plain) \notin DOMAIN Dates
        BY <1>3, <4>1, <4>2
      <4> QED
        BY <4>3 DEF DateOf
    <3> QED
      BY <3>1, <3>2
  <2> QED
    BY ONLY <1>1, <2>1, <2>2, <2>3 DEF DateOrRelative, ParseInstant, lower, plain
<1> QED
  BY <1>2, <1>3

LEMMA SyntaxIs ==
  /\ Registry["app"].syntax = "text" /\ Registry["tag"].syntax = "text" /\ Registry["device"].syntax = "text"
  /\ Registry["kind"].syntax = "kind"
  /\ Registry["before"].syntax = "instant" /\ Registry["after"].syntax = "instant"
  /\ \A field \in StoreKeys : Registry[field].syntax = "text"
<1>1. /\ Registry["app"].syntax = "text" /\ Registry["tag"].syntax = "text" /\ Registry["device"].syntax = "text"
  BY DEF Registry, RecallKeys, StoreKeys, Facet
<1>2. /\ Registry["kind"].syntax = "kind"
      /\ Registry["before"].syntax = "instant" /\ Registry["after"].syntax = "instant"
  BY DEF Registry, RecallKeys, StoreKeys, Facet
<1>3. \A field \in StoreKeys : Registry[field].syntax = "text"
  BY DEF Registry, RecallKeys, StoreKeys, Facet
<1> QED
  BY ONLY <1>1, <1>2, <1>3

LEMMA ValueIs ==
  ASSUME NEW field \in RecallKeys, NEW t \in Spellings
  PROVE /\ ParseFacetValue(field, t) = IF Blank(t) THEN {}
                                     ELSE IF field = "kind" THEN KindOf(Word(NormalizeLookup(t)))
                                     ELSE IF field \in {"before", "after"} THEN ParseInstant(NormalizeLookup(t))
                                     ELSE {NormalizeLookup(t)}
        /\ RecallValue(field, t) = IF Blank(t) THEN {}
                                 ELSE IF field = "kind" THEN KindOf(Word(AsciiLower(t)))
                                 ELSE IF field \in {"before", "after"} THEN DateOrRelative(t)
                                 ELSE {AsciiLower(t)}
BY SyntaxIs DEF ParseFacetValue, RecallValue, RecallKeys

\* The vocabulary, token by token.
LEMMA TokensAre ==
  ASSUME NEW token \in Tokens
  PROVE /\ token \in AllTokens /\ token.key \in Spellings /\ token.value \in Spellings
        /\ token.key # NoKey => token.key.is # <<>>
        /\ Blank(token.value) => token.value.form \subseteq {"padded"}
        /\ "capital" \in token.value.form => \A date \in DOMAIN Dates : token.value.is # <<date>>
<1>1. Texts \subseteq Spellings
  BY DEF Texts, Spellings
<1>2. token \in [key : Texts, value : Texts]
  BY VocabularyAssumption
<1>3. token \in AllTokens /\ token.key \in Spellings /\ token.value \in Spellings
  BY ONLY <1>1, <1>2 DEF AllTokens
<1>4. token.key.is = <<>> => token.key = NoKey
  <2>1. token.key.is = <<>> => token.key.form = {}
    BY VocabularyAssumption
  <2> QED
    BY ONLY <1>3, <2>1 DEF NoKey, Spellings
<1> QED
  BY <1>3, <1>4, VocabularyAssumption DEF Blank

-----------------------------------------------------------------------------
(* UnifiesBoth: what recall's grammar reads, the unified one reads alike *)

\* The readings, case by case.
NaturalCases(r, facet, value, word, follows, next, lastWord) ==
    r = IF facet # NoWord THEN ReadAs(1, facet, RecallValue(facet, value), {})
        ELSE IF word = "from" /\ follows THEN ReadAs(2, "app", RecallValue("app", next), {})
        ELSE IF word \in DOMAIN KindSynonyms THEN ReadAs(1, "kind", KindOf(word), {})
        ELSE IF word = "today" THEN ReadAs(1, "after", {Midnight}, {})
        ELSE IF word = "yesterday" THEN ReadAs(1, "after", {Midnight - 24}, {Midnight})
        ELSE IF word = "last" /\ follows THEN
            ReadAs(2, "after", {QueryNow - h : h \in DurationOf(lastWord)}, {})
        ELSE IF word = "before" /\ follows /\ lastWord = "lunch" THEN ReadAs(2, "after", {Midnight}, {Noon})
        ELSE LeftAlone

UnifiedCases(r, faceted, facet, value, word, follows, next, lastWord) ==
    r = IF faceted THEN ReadAs(1, facet, ParseFacetValue(facet, value), {})
        ELSE IF word = "from" /\ follows THEN ReadAs(2, "app", ParseFacetValue("app", next), {})
        ELSE IF word = "last" /\ follows THEN
            ReadAs(2, "after", {QueryNow - h : h \in DurationOf(lastWord)}, {})
        ELSE IF word = "today" THEN ReadAs(1, "after", {Midnight}, {})
        ELSE IF word = "yesterday" THEN ReadAs(1, "after", {Midnight - 24}, {Midnight})
        ELSE IF word = "before" /\ follows /\ lastWord = "lunch" THEN ReadAs(2, "after", {Midnight}, {Noon})
        ELSE IF word \in DOMAIN KindSynonyms THEN ReadAs(1, "kind", KindOf(word), {})
        ELSE LeftAlone

\* The text behind a token, if there is one.
TextBehind(query, i) == IF i < Len(query) THEN Whole(query[i + 1]) ELSE NoKey

LEMMA NaturalReadingIs ==
  ASSUME NEW query, NEW i
  PROVE NaturalCases(NaturalReading(query, i), RecallKey(query[i]), query[i].value,
                     Word(AsciiLower(Whole(query[i]))), i < Len(query), TextBehind(query, i),
                     Word(AsciiLower(TextBehind(query, i))))
BY DEF NaturalCases, NaturalReading, TextBehind

LEMMA UnifiedReadingIs ==
  ASSUME NEW query, NEW i
  PROVE UnifiedCases(UnifiedReading(query, i), IsFacet(query[i]), FacetKey(query[i]), query[i].value,
                     Word(NormalizeLookup(Whole(query[i]))), i < Len(query), TextBehind(query, i),
                     Word(NormalizeLookup(TextBehind(query, i))))
BY DEF UnifiedCases, UnifiedReading, TextBehind

\* A key is one word and not the text of a token alone.
LEMMA KeyedIs ==
  ASSUME NEW token \in AllTokens, FacetKey(token) # NoWord \/ RecallKey(token) # NoWord
  PROVE /\ Word(AsciiLower(Whole(token))) = NoWord /\ Word(NormalizeLookup(Whole(token))) = NoWord
        /\ Word(Whole(token)) = NoWord
<1>1. token.key \in Spellings /\ token.value \in Spellings
  BY DEF AllTokens
<1>2. Word(NormalizeLookup(token.key)) # NoWord \/ Word(AsciiLower(token.key)) # NoWord
  BY Zenon, KeysAre
<1>3. Len(token.key.is) = 1
  BY ONLY <1>1, <1>2, WordsAre
<1>4. token.key # NoKey
  <2> SUFFICES ASSUME token.key = NoKey PROVE FALSE
    OBVIOUS
  <2>1. token.key.is = <<>>
    BY DEF NoKey
  <2> QED
    BY ONLY <1>3, <2>1
<1>5. Whole(token) \in Spellings /\ Len(Whole(token).is) = Len(token.key.is) + 1 + Len(token.value.is)
  BY <1>4, WholeIs
<1>6. Len(token.value.is) \in Nat
  BY <1>1 DEF Spellings
<1>7. Len(Whole(token).is) # 1
  BY ONLY <1>3, <1>5, <1>6
<1> QED
  BY ONLY <1>5, <1>7, WordsAre

LEMMA TextBehindIs ==
  ASSUME NEW query \in Seq(AllTokens), NEW i \in 1..Len(query)
  PROVE TextBehind(query, i) \in Spellings /\ Whole(query[i]) \in Spellings
<1>1. Len(query) \in Nat /\ query[i] \in AllTokens /\ (i < Len(query) => query[i + 1] \in AllTokens)
  OBVIOUS
<1>2. NoKey \in Spellings
  BY DEF NoKey, Spellings
<1> QED
  BY <1>1, <1>2, WholeIs DEF TextBehind

LEMMA PlainForm ==
  ASSUME NEW token \in AllTokens, token.key.form \subseteq {"capital"}, token.value.form \subseteq {"capital"}
  PROVE Whole(token) \in Spellings /\ Whole(token).form \subseteq {"capital"}
BY WholeIs

LEMMA ValuesAlike ==
  ASSUME NEW field \in RecallKeys, NEW t \in Spellings, t.form \subseteq {"capital"},
         "capital" \in t.form => ~IsRelative(t),
         "capital" \in t.form => \A date \in DOMAIN Dates : t.is # <<date>>
  PROVE RecallValue(field, t) = ParseFacetValue(field, t)
<1>1. DateOrRelative(t) = ParseInstant(NormalizeLookup(t))
  BY InstantsAlike
<1>2. AsciiLower(t) = NormalizeLookup(t)
  BY PlainIs
<1> QED
  BY ONLY <1>1, <1>2, field \in RecallKeys, t \in Spellings, ValueIs

LEMMA TypedIs ==
  ASSUME typed \in Seq(Tokens)
  PROVE typed \in Seq(AllTokens) /\ \A i \in 1..Len(typed) : typed[i] \in Tokens
<1>1. Tokens \subseteq AllTokens
  BY TokensAre
<1> QED
  BY <1>1

LEMMA ReadAlike ==
  ASSUME typed \in Seq(Tokens), IsNatural, NEW i \in 1..Len(typed)
  PROVE NaturalReading(typed, i) = UnifiedReading(typed, i)
<1> DEFINE token == typed[i]
           facet == FacetKey(token)
           next == TextBehind(typed, i)
           word == Word(NormalizeLookup(Whole(token)))
           lastWord == Word(NormalizeLookup(next))
           rn == NaturalReading(typed, i)
           ru == UnifiedReading(typed, i)
           follows == i < Len(typed)
<1>1. token \in Tokens /\ token \in AllTokens /\ token.key \in Spellings /\ token.value \in Spellings
  BY TypedIs, TokensAre
<1>2. \A j \in 1..Len(typed) : typed[j].key.form \subseteq {"capital"} /\ typed[j].value.form \subseteq {"capital"}
  <2>1. DOMAIN typed = 1..Len(typed)
    OBVIOUS
  <2> QED
    BY <2>1 DEF IsNatural, Forms
<1>3. /\ token.key.form \subseteq {"capital"} /\ token.value.form \subseteq {"capital"}
      /\ IsFacet(token) => facet \in RecallKeys
      /\ "capital" \in token.value.form => ~IsRelative(token.value)
  <2>1. i \in DOMAIN typed
    OBVIOUS
  <2> QED
    BY <1>2, <2>1 DEF IsNatural
<1>4. next \in Spellings /\ next.form \subseteq {"capital"} /\ Whole(token) \in Spellings /\ Whole(token).form \subseteq {"capital"}
  <2>1. next \in Spellings /\ Whole(token) \in Spellings
    BY TypedIs, TextBehindIs
  <2>2. Whole(token).form \subseteq {"capital"}
    BY <1>1, <1>3, PlainForm
  <2>3. CASE follows
    <3>1. typed[i + 1] \in AllTokens /\ i + 1 \in 1..Len(typed)
      BY <2>3, TypedIs
    <3>2. Whole(typed[i + 1]).form \subseteq {"capital"}
      BY <1>2, <3>1, PlainForm
    <3> QED
      BY <2>1, <2>2, <2>3, <3>2 DEF TextBehind
  <2>4. CASE ~follows
    <3>1. NoKey.form = {}
      BY DEF NoKey
    <3> QED
      BY <2>1, <2>2, <2>4, <3>1 DEF TextBehind
  <2> QED
    BY <2>3, <2>4
<1>5. /\ Word(AsciiLower(Whole(token))) = word /\ Word(AsciiLower(next)) = lastWord
      /\ Word(AsciiLower(token.key)) = Word(NormalizeLookup(token.key)) /\ AsciiLower(next) = NormalizeLookup(next)
  BY ONLY <1>1, <1>3, <1>4, PlainIs
<1>6. RecallKey(token) = IF facet \in RecallKeys THEN facet ELSE NoWord
  BY ONLY <1>5, KeysAre, NoWordIs DEF AllKeys
<1>7. facet # NoWord => word = NoWord
  BY <1>1, KeyedIs
<1>8. /\ facet \in RecallKeys => facet # NoWord /\ facet \notin StoreKeys
      /\ IsFacet(token) <=> facet # NoWord /\ ~(Blank(token.value) /\ facet \in StoreKeys)
  BY KeysAre, NoWordIs, RepeatsIs
<1>9. facet \in RecallKeys => RecallValue(facet, token.value) = ParseFacetValue(facet, token.value)
  BY <1>1, <1>3, TokensAre, ValuesAlike
<1>10. RecallValue("app", next) = ParseFacetValue("app", next)
  <2>1. "app" \in RecallKeys
    BY DEF RecallKeys
  <2>2. /\ RecallValue("app", next) = IF Blank(next) THEN {} ELSE {AsciiLower(next)}
        /\ ParseFacetValue("app", next) = IF Blank(next) THEN {} ELSE {NormalizeLookup(next)}
    <3>1. Registry["app"].syntax = "text"
      BY SyntaxIs
    <3> QED
      BY ONLY <3>1 DEF RecallValue, ParseFacetValue
  <2> QED
    BY ONLY <2>2, <1>5
<1>11. /\ NaturalCases(rn, RecallKey(token), token.value, word, follows, next, lastWord)
       /\ UnifiedCases(ru, IsFacet(token), facet, token.value, word, follows, next, lastWord)
  <2>1. NaturalCases(rn, RecallKey(token), token.value, Word(AsciiLower(Whole(token))), follows, next, Word(AsciiLower(next)))
    BY NaturalReadingIs
  <2>2. UnifiedCases(ru, IsFacet(token), facet, token.value, word, follows, next, lastWord)
    BY UnifiedReadingIs
  <2> QED
    BY ONLY <1>5, <2>1, <2>2
<1>12. /\ NoWord \notin DOMAIN KindSynonyms /\ \A w \in Sugar : w \notin DOMAIN KindSynonyms
  BY VocabularyIs
<1> HIDE DEF token, facet, next, word, lastWord, rn, ru, follows
<1>13. CASE facet # NoWord
  <2>1. word = NoWord
    BY <1>7, <1>13
  <2>2. word # "from" /\ word # "last" /\ word # "today" /\ word # "yesterday" /\ word # "before"
        /\ word \notin DOMAIN KindSynonyms
    BY ONLY <2>1, <1>12, NoWordIs
  <2>3. CASE facet \in RecallKeys
    BY ONLY <1>6, <1>8, <1>9, <1>11, <2>3 DEF NaturalCases, UnifiedCases, rn, ru
  <2>4. CASE facet \notin RecallKeys
    <3>1. ~IsFacet(token) /\ RecallKey(token) = NoWord
      BY <1>3, <1>6, <2>4
    <3>2. rn = LeftAlone
      BY ONLY <1>11, <2>2, <3>1 DEF NaturalCases
    <3>3. ru = LeftAlone
      BY ONLY <1>11, <2>2, <3>1 DEF UnifiedCases
    <3> QED
      BY ONLY <3>2, <3>3 DEF rn, ru
  <2> QED
    BY ONLY <2>3, <2>4
<1>14. CASE facet = NoWord
  <2>1. ~IsFacet(token) /\ RecallKey(token) = NoWord
    BY <1>6, <1>8, <1>14
  <2>2. rn = ru
    BY ONLY <1>10, <1>11, <1>12, <2>1 DEF NaturalCases, UnifiedCases, Sugar
  <2> QED
    BY ONLY <2>2 DEF rn, ru
<1> QED
  BY ONLY <1>13, <1>14

LEMMA TakenStep ==
  ASSUME NEW query, NEW r, NEW h, IsRun(h, query, r), NEW i \in 1..Len(query)
  PROVE h[i] = Taken(h[i - 1], i, r[i], query[i])
BY DEF IsRun

LEMMA RunIsOne ==
  ASSUME NEW query \in Seq(AllTokens), NEW r, NEW h, NEW k, IsRun(h, query, r), IsRun(k, query, r)
  PROVE \A i \in 0..Len(query) : h[i] = k[i]
<1> DEFINE n == Len(query)
           T == {i \in 0..n : h[i] = k[i]}
<1>1. n \in Nat
  OBVIOUS
<1>2. 0 \in T
  BY <1>1 DEF IsRun
<1>3. ASSUME NEW i \in 1..n, i - 1 \in T PROVE i \in T
  <2>1. h[i - 1] = k[i - 1]
    BY <1>3
  <2>2. h[i] = Taken(h[i - 1], i, r[i], query[i]) /\ k[i] = Taken(k[i - 1], i, r[i], query[i])
    BY DEF IsRun
  <2> QED
    BY <2>1, <2>2
<1> HIDE DEF T, n
<1>4. \A i \in 0..n : i \in T
  BY ONLY <1>1, <1>2, <1>3, UpToAll
<1> QED
  BY <1>4 DEF T, n

LEMMA NaturalIsUnified ==
  ASSUME typed \in Seq(Tokens), IsNatural
  PROVE Natural = Unified
<1>1. typed \in Seq(AllTokens)
  BY TypedIs
<1>2. PICK h : IsRun(h, typed, NaturalReadings(typed)) /\ ParseNatural(typed) = Checked(h[Len(typed)])
  BY <1>1, NaturalRuns
<1>3. PICK k : IsRun(k, typed, UnifiedReadings(typed)) /\ ParseQuery(typed) = Checked(k[Len(typed)])
  BY <1>1, UnifiedRuns
<1>4. NaturalReadings(typed) = UnifiedReadings(typed)
  BY ReadAlike DEF NaturalReadings, UnifiedReadings
<1>5. h[Len(typed)] = k[Len(typed)]
  <2>1. Len(typed) \in 0..Len(typed)
    BY <1>1
  <2> QED
    BY ONLY <1>1, <1>2, <1>3, <1>4, <2>1, RunIsOne
<1> QED
  BY ONLY <1>2, <1>3, <1>5 DEF Natural, Unified

-----------------------------------------------------------------------------
(* Steps, field by field *)

\* What filing does to the constraints.
RefusedAfter(c, field, values) == values = {} \/ (field \notin StoreKeys /\ \E j \in DOMAIN c : c[j][1] = field)
PushedOnto(c, field, values) == IF RefusedAfter(c, field, values) THEN c ELSE Append(c, <<field, AnyOf(values)>>)
FiledBadly(c, r) ==
    \/ RefusedAfter(c, r.key, r.values)
    \/ r.also # {} /\ RefusedAfter(PushedOnto(c, r.key, r.values), "before", r.also)
FiledOnto(c, r) ==
    IF r.also = {} THEN PushedOnto(c, r.key, r.values)
    ELSE PushedOnto(PushedOnto(c, r.key, r.values), "before", r.also)

LEMMA PushedFields ==
  ASSUME NEW p \in ParseStates, NEW field \in AllKeys, NEW values \in SUBSET FacetValues
  PROVE /\ Pushes(p, field, values).bad <=> p.bad \/ RefusedAfter(p.constraints, field, values)
        /\ Pushes(p, field, values).constraints = PushedOnto(p.constraints, field, values)
<1>1. Refuses(p, field, values) <=> RefusedAfter(p.constraints, field, values)
  BY DEF Refuses, RefusedAfter, ConstraintsOn
<1>2. CASE Refuses(p, field, values)
  <2>1. Pushes(p, field, values).bad = TRUE /\ Pushes(p, field, values).constraints = p.constraints
    BY <1>2, PushedIs
  <2> QED
    BY ONLY <1>1, <1>2, <2>1 DEF PushedOnto
<1>3. CASE ~Refuses(p, field, values)
  <2>1. Pushes(p, field, values).bad = p.bad
        /\ Pushes(p, field, values).constraints = Append(p.constraints, <<field, AnyOf(values)>>)
    BY <1>3, PushedIs
  <2> QED
    BY ONLY <1>1, <1>3, <2>1 DEF PushedOnto
<1> QED
  BY ONLY <1>2, <1>3

LEMMA FiledFields ==
  ASSUME NEW p \in ParseStates, NEW r, NEW i, NEW n, WellRead(r, i, n)
  PROVE /\ Filed(p, r).bad <=> p.bad \/ FiledBadly(p.constraints, r)
        /\ Filed(p, r).constraints = FiledOnto(p.constraints, r)
<1>1. r.key \in AllKeys /\ r.values \in SUBSET FacetValues /\ r.also \in SUBSET FacetValues /\ "before" \in AllKeys
  BY DEF WellRead, Readings, FacetValues, AllKeys, RecallKeys
<1> DEFINE q == Pushes(p, r.key, r.values)
<1>2. /\ q \in ParseStates /\ (q.bad <=> p.bad \/ RefusedAfter(p.constraints, r.key, r.values))
      /\ q.constraints = PushedOnto(p.constraints, r.key, r.values)
  BY ONLY <1>1, p \in ParseStates, PushesInto, PushedFields
<1> HIDE DEF q
<1>3. /\ Pushes(q, "before", r.also).bad <=> q.bad \/ RefusedAfter(q.constraints, "before", r.also)
      /\ Pushes(q, "before", r.also).constraints = PushedOnto(q.constraints, "before", r.also)
  BY ONLY <1>1, <1>2, PushedFields
<1>4. Filed(p, r) = IF r.also = {} THEN q ELSE Pushes(q, "before", r.also)
  BY DEF Filed, q
<1> QED
  BY ONLY <1>2, <1>3, <1>4 DEF FiledBadly, FiledOnto

\* A step, field by field.
LEMMA StepFields ==
  ASSUME NEW p \in ParseStates, NEW r, NEW i, NEW n, WellRead(r, i, n), NEW token \in AllTokens
  PROVE /\ Taken(p, i, r, token) \in ParseStates
        /\ p.bad \/ p.read >= i => Taken(p, i, r, token) = p
        /\ ~(p.bad \/ p.read >= i) /\ r.takes = 0 =>
             /\ ~Taken(p, i, r, token).bad /\ Taken(p, i, r, token).read = p.read + 1
             /\ Taken(p, i, r, token).text = Append(p.text, token)
             /\ Taken(p, i, r, token).constraints = p.constraints
        /\ ~(p.bad \/ p.read >= i) /\ r.takes # 0 =>
             /\ Taken(p, i, r, token).bad <=> FiledBadly(p.constraints, r)
             /\ Taken(p, i, r, token).read = p.read + r.takes
             /\ Taken(p, i, r, token).text = p.text
             /\ Taken(p, i, r, token).constraints = FiledOnto(p.constraints, r)
<1>0. Taken(p, i, r, token) \in ParseStates
  BY TakenIs
<1>1. CASE p.bad \/ p.read >= i
  BY ONLY <1>0, <1>1 DEF Taken
<1>2. CASE ~(p.bad \/ p.read >= i) /\ r.takes = 0
  <2>1. Taken(p, i, r, token) = Keeps(p, token)
    BY ONLY <1>2 DEF Taken
  <2>2. /\ Keeps(p, token).bad = p.bad
        /\ Keeps(p, token).read = p.read + 1 /\ Keeps(p, token).text = Append(p.text, token)
        /\ Keeps(p, token).constraints = p.constraints
    BY ONLY p \in ParseStates, token \in AllTokens, KeepsIs
  <2> QED
    BY ONLY <1>0, <1>2, <2>1, <2>2
<1>3. CASE ~(p.bad \/ p.read >= i) /\ r.takes # 0
  <2>1. Taken(p, i, r, token) = Advanced(Filed(p, r), r.takes)
    BY ONLY <1>3 DEF Taken
  <2>2. Filed(p, r) \in ParseStates /\ Filed(p, r).read = p.read /\ Filed(p, r).text = p.text
    BY FiledIs
  <2>3. /\ Filed(p, r).bad <=> p.bad \/ FiledBadly(p.constraints, r)
        /\ Filed(p, r).constraints = FiledOnto(p.constraints, r)
    BY FiledFields
  <2>4. r.takes \in 0..2
    BY DEF WellRead, Readings
  <2> DEFINE f == Filed(p, r) c == r.takes
  <2> HIDE DEF f, c
  <2>5. f \in ParseStates /\ c \in 0..2 => /\ Advanced(f, c).bad = f.bad
        /\ Advanced(f, c).read = f.read + c /\ Advanced(f, c).text = f.text
        /\ Advanced(f, c).constraints = f.constraints
    BY ONLY AdvancedIs
  <2> QED
    BY ONLY <1>0, <1>3, <2>1, <2>2, <2>3, <2>4, <2>5 DEF f, c
<1> QED
  BY ONLY <1>1, <1>2, <1>3

-----------------------------------------------------------------------------
(* SpellingIsFree: the readings are those of the plain spelling *)

ParsedAlike(p, q) == /\ p.bad <=> q.bad
               /\ p.read = q.read /\ p.constraints = q.constraints /\ Len(p.text) = Len(q.text)

LEMMA TakenAlike ==
  ASSUME NEW p \in ParseStates, NEW q \in ParseStates, NEW r, NEW i, NEW n, WellRead(r, i, n),
         NEW s \in AllTokens, NEW t \in AllTokens, ParsedAlike(p, q)
  PROVE ParsedAlike(Taken(p, i, r, s), Taken(q, i, r, t))
<1> DEFINE a == Taken(p, i, r, s) b == Taken(q, i, r, t)
<1>1. p.text \in Seq(AllTokens) /\ q.text \in Seq(AllTokens)
  BY DEF ParseStates
<1>2. Len(Append(p.text, s)) = Len(p.text) + 1 /\ Len(Append(q.text, t)) = Len(q.text) + 1
  BY <1>1
<1>3. CASE p.bad \/ p.read >= i
  <2>1. a = p
    BY ONLY <1>3, p \in ParseStates, s \in AllTokens, WellRead(r, i, n), StepFields DEF a
  <2>2. b = q
    BY ONLY <1>3, q \in ParseStates, t \in AllTokens, ParsedAlike(p, q), WellRead(r, i, n), StepFields DEF b, ParsedAlike
  <2> QED
    BY ONLY <2>1, <2>2, ParsedAlike(p, q) DEF a, b
<1>4. CASE ~(p.bad \/ p.read >= i) /\ r.takes = 0
  <2>1. ~a.bad /\ a.read = p.read + 1 /\ a.text = Append(p.text, s) /\ a.constraints = p.constraints
    BY ONLY <1>4, p \in ParseStates, s \in AllTokens, WellRead(r, i, n), StepFields DEF a
  <2>2. ~b.bad /\ b.read = q.read + 1 /\ b.text = Append(q.text, t) /\ b.constraints = q.constraints
    BY ONLY <1>4, q \in ParseStates, t \in AllTokens, ParsedAlike(p, q), WellRead(r, i, n), StepFields DEF b, ParsedAlike
  <2> HIDE DEF a, b
  <2>3. ParsedAlike(a, b)
    BY ONLY <1>2, <2>1, <2>2, ParsedAlike(p, q) DEF ParsedAlike
  <2> QED
    BY ONLY <2>3 DEF a, b
<1>5. CASE ~(p.bad \/ p.read >= i) /\ r.takes # 0
  <2>1. (a.bad <=> FiledBadly(p.constraints, r)) /\ a.read = p.read + r.takes /\ a.text = p.text
        /\ a.constraints = FiledOnto(p.constraints, r)
    BY ONLY <1>5, p \in ParseStates, s \in AllTokens, WellRead(r, i, n), StepFields DEF a
  <2>2. (b.bad <=> FiledBadly(q.constraints, r)) /\ b.read = q.read + r.takes /\ b.text = q.text
        /\ b.constraints = FiledOnto(q.constraints, r)
    BY ONLY <1>5, q \in ParseStates, t \in AllTokens, ParsedAlike(p, q), WellRead(r, i, n), StepFields DEF b, ParsedAlike
  <2> HIDE DEF a, b
  <2>3. ParsedAlike(a, b)
    BY ONLY <2>1, <2>2, ParsedAlike(p, q) DEF ParsedAlike
  <2> QED
    BY ONLY <2>3 DEF a, b
<1> QED
  BY ONLY <1>3, <1>4, <1>5

LEMMA CheckedIs ==
  ASSUME NEW p \in ParseStates
  PROVE /\ Checked(p) \in ParseStates /\ (Checked(p).bad <=> p.bad \/ WindowIsEmpty(p))
        /\ Checked(p).text = p.text /\ Checked(p).constraints = p.constraints
<1>1. CASE ~p.bad /\ WindowIsEmpty(p)
  <2>1. Checked(p) = [p EXCEPT !.bad = TRUE]
    BY ONLY <1>1 DEF Checked
  <2> QED
    BY ONLY <1>1, <2>1, p \in ParseStates DEF ParseStates
<1>2. CASE ~(~p.bad /\ WindowIsEmpty(p))
  BY ONLY <1>2, p \in ParseStates DEF Checked
<1> QED
  BY ONLY <1>1, <1>2

LEMMA CheckedAlike ==
  ASSUME NEW p \in ParseStates, NEW q \in ParseStates, ParsedAlike(p, q)
  PROVE /\ Checked(p).bad = Checked(q).bad
        /\ Checked(p).constraints = Checked(q).constraints /\ Len(Checked(p).text) = Len(Checked(q).text)
<1>1. WindowIsEmpty(p) <=> WindowIsEmpty(q)
  BY DEF WindowIsEmpty, ConstraintsOn, ParsedAlike
<1>2. Checked(p).bad \in BOOLEAN /\ Checked(q).bad \in BOOLEAN
  BY CheckedIs DEF ParseStates
<1>3. Checked(p).bad <=> Checked(q).bad
  BY <1>1, CheckedIs DEF ParsedAlike
<1>4. Checked(p).bad = Checked(q).bad
  BY <1>2, <1>3
<1> QED
  BY <1>4, CheckedIs DEF ParsedAlike

LEMMA RunsAreAlike ==
  ASSUME NEW query \in Seq(AllTokens), NEW other \in Seq(AllTokens), Len(query) = Len(other), NEW r,
         \A i \in 1..Len(query) : WellRead(r[i], i, Len(query)),
         NEW h, NEW k, IsRun(h, query, r), IsRun(k, other, r)
  PROVE ParsedAlike(h[Len(query)], k[Len(query)])
<1> DEFINE n == Len(query)
           T == {i \in 0..n : ParsedAlike(h[i], k[i])}
<1>1. n \in Nat
  OBVIOUS
<1>2. 0 \in T
  BY <1>1 DEF IsRun, ParsedAlike
<1>3. ASSUME NEW i \in 1..n, i - 1 \in T PROVE i \in T
  <2>1. ParsedAlike(h[i - 1], k[i - 1]) /\ i - 1 \in 0..n
    BY <1>3
  <2>2. h[i - 1] \in ParseStates /\ k[i - 1] \in ParseStates
    BY <2>1 DEF IsRun
  <2>3. h[i] = Taken(h[i - 1], i, r[i], query[i]) /\ k[i] = Taken(k[i - 1], i, r[i], other[i])
    BY DEF IsRun
  <2>4. query[i] \in AllTokens /\ other[i] \in AllTokens /\ WellRead(r[i], i, n)
    OBVIOUS
  <2>5. ParsedAlike(h[i], k[i])
    BY ONLY <2>1, <2>2, <2>3, <2>4, TakenAlike
  <2> QED
    BY <2>5
<1> HIDE DEF T, n
<1>4. \A i \in 0..n : i \in T
  BY ONLY <1>1, <1>2, <1>3, UpToAll
<1>5. n \in T
  BY ONLY <1>1, <1>4
<1> QED
  BY ONLY <1>5 DEF T, n

LEMMA ParsesAre ==
  ASSUME NEW query \in Seq(AllTokens), NEW r, NEW h, IsRun(h, query, r), NEW i \in 0..Len(query)
  PROVE h[i] \in ParseStates
BY DEF IsRun

LEMMA WellReadings ==
  ASSUME NEW query \in Seq(AllTokens), NEW i \in 1..Len(query)
  PROVE /\ WellRead(UnifiedReadings(query)[i], i, Len(query)) /\ UnifiedReadings(query)[i] = UnifiedReading(query, i)
        /\ WellRead(NaturalReadings(query)[i], i, Len(query)) /\ NaturalReadings(query)[i] = NaturalReading(query, i)
BY UnifiedIsWellRead, NaturalIsWellRead DEF UnifiedReadings, NaturalReadings

LEMMA SameLookup ==
  ASSUME NEW s \in Spellings, NEW t \in Spellings, s.is = t.is
  PROVE NormalizeLookup(s) = NormalizeLookup(t)
<1>1. NormalizeLookup(s) = [is |-> s.is, form |-> {}]
  BY TextsAre
<1>2. NormalizeLookup(t) = [is |-> t.is, form |-> {}]
  BY TextsAre
<1> QED
  BY ONLY <1>1, <1>2, s.is = t.is

PlainToken(token) == [key |-> NormalizeLookup(token.key), value |-> NormalizeLookup(token.value)]

LEMMA PlainTokenIs ==
  ASSUME NEW token \in Tokens
  PROVE /\ PlainToken(token) \in AllTokens
        /\ FacetKey(PlainToken(token)) = FacetKey(token) /\ (IsFacet(PlainToken(token)) <=> IsFacet(token))
        /\ Whole(PlainToken(token)).is = Whole(token).is
        /\ NormalizeLookup(Whole(PlainToken(token))) = NormalizeLookup(Whole(token))
<1> DEFINE k == token.key v == token.value pk == NormalizeLookup(k) pv == NormalizeLookup(v)
           pt == PlainToken(token)
<1>1. k \in Spellings /\ v \in Spellings /\ (k # NoKey => k.is # <<>>)
  BY TokensAre
<1>2. /\ pk \in Spellings /\ pv \in Spellings /\ pk = [is |-> k.is, form |-> {}] /\ pv.is = v.is /\ pk.is = k.is
      /\ NormalizeLookup(pk) = pk
  BY ONLY <1>1, TextsAre, PlainIs DEF pk, pv
<1>3. pt.key = pk /\ pt.value = pv
  BY DEF PlainToken
<1>4. pt \in AllTokens
  BY <1>2 DEF PlainToken, AllTokens
<1>5. FacetKey(pt) = FacetKey(token)
  BY ONLY <1>2, <1>3, KeysAre DEF pk, k
<1>6. Blank(pt.value) <=> Blank(token.value)
  BY ONLY <1>2, <1>3 DEF Blank, v
<1>7. IsFacet(pt) <=> IsFacet(token)
  BY ONLY <1>5, <1>6, KeysAre
<1>8. pk = NoKey <=> k = NoKey
  <2>1. k = NoKey => pk = NoKey
    BY ONLY <1>2 DEF NoKey
  <2>2. pk = NoKey => pk.is = <<>>
    BY ONLY DEF NoKey
  <2> QED
    BY ONLY <1>1, <1>2, <2>1, <2>2
<1>9. Whole(pt).is = Whole(token).is
  <2>1. CASE k = NoKey
    <3>1. Whole(pt) = pv /\ Whole(token) = v
      BY ONLY <1>3, <1>8, <2>1 DEF Whole, k, v
    <3> QED
      BY ONLY <1>2, <3>1
  <2>2. CASE k # NoKey
    <3>1. /\ Whole(pt).is = pt.key.is \o <<":">> \o pt.value.is
          /\ Whole(token).is = token.key.is \o <<":">> \o token.value.is
      BY <1>3, <1>4, <1>8, <2>2, TokensAre, WholeIs
    <3> QED
      BY ONLY <1>2, <1>3, <3>1 DEF k, v
  <2> QED
    BY ONLY <2>1, <2>2
<1>10. Whole(pt) \in Spellings /\ Whole(token) \in Spellings
  BY <1>4, TokensAre, WholeIs
<1>11. NormalizeLookup(Whole(pt)) = NormalizeLookup(Whole(token))
  BY ONLY <1>9, <1>10, SameLookup
<1> QED
  BY ONLY <1>4, <1>5, <1>7, <1>9, <1>11 DEF pt

LEMMA SameValue ==
  ASSUME NEW field, NEW s \in Spellings, NEW t \in Spellings, s.is = t.is
  PROVE ParseFacetValue(field, s) = ParseFacetValue(field, t)
<1>1. NormalizeLookup(s) = NormalizeLookup(t)
  BY SameLookup
<1> QED
  BY ONLY <1>1, s.is = t.is DEF ParseFacetValue, Blank

LEMMA PlainReading ==
  ASSUME typed \in Seq(Tokens), NEW plain \in Seq(AllTokens), Len(plain) = Len(typed),
         \A j \in 1..Len(typed) : plain[j] = PlainToken(typed[j]),
         NEW i \in 1..Len(typed)
  PROVE UnifiedReading(plain, i) = UnifiedReading(typed, i)
<1>1. /\ typed[i] \in Tokens /\ (i < Len(typed) => i + 1 \in 1..Len(typed) /\ typed[i + 1] \in Tokens)
      /\ typed \in Seq(AllTokens) /\ Len(typed) \in Nat
  BY TypedIs
<1>2. plain[i] = PlainToken(typed[i])
  OBVIOUS
<1>3. /\ FacetKey(plain[i]) = FacetKey(typed[i]) /\ (IsFacet(plain[i]) <=> IsFacet(typed[i]))
      /\ NormalizeLookup(Whole(plain[i])) = NormalizeLookup(Whole(typed[i]))
  BY ONLY <1>1, <1>2, PlainTokenIs
<1>4. TextBehind(plain, i).is = TextBehind(typed, i).is
  <2>1. CASE i < Len(typed)
    <3>1. TextBehind(plain, i) = Whole(PlainToken(typed[i + 1])) /\ TextBehind(typed, i) = Whole(typed[i + 1])
      BY <1>1, <2>1 DEF TextBehind
    <3> QED
      BY ONLY <1>1, <2>1, <3>1, PlainTokenIs
  <2>2. CASE ~(i < Len(typed))
    BY <2>2 DEF TextBehind
  <2> QED
    BY <2>1, <2>2
<1>5. TextBehind(plain, i) \in Spellings /\ TextBehind(typed, i) \in Spellings
  BY <1>1, TextBehindIs
<1>6. /\ NormalizeLookup(TextBehind(plain, i)) = NormalizeLookup(TextBehind(typed, i))
      /\ ParseFacetValue("app", TextBehind(plain, i)) = ParseFacetValue("app", TextBehind(typed, i))
  BY ONLY <1>4, <1>5, SameLookup, SameValue
<1>7. \A field : ParseFacetValue(field, plain[i].value) = ParseFacetValue(field, typed[i].value)
  <2>1. plain[i].value = NormalizeLookup(typed[i].value) /\ typed[i].value \in Spellings
    BY <1>1, <1>2, TokensAre DEF PlainToken
  <2>2. plain[i].value \in Spellings /\ plain[i].value.is = typed[i].value.is
    BY ONLY <2>1, TextsAre
  <2> QED
    BY ONLY <2>1, <2>2, SameValue
<1>8. i < Len(plain) <=> i < Len(typed)
  OBVIOUS
<1>9. UnifiedCases(UnifiedReading(plain, i), IsFacet(plain[i]), FacetKey(plain[i]), plain[i].value,
                     Word(NormalizeLookup(Whole(plain[i]))), i < Len(plain), TextBehind(plain, i),
                     Word(NormalizeLookup(TextBehind(plain, i))))
  BY UnifiedReadingIs
<1>10. UnifiedCases(UnifiedReading(typed, i), IsFacet(typed[i]), FacetKey(typed[i]), typed[i].value,
                     Word(NormalizeLookup(Whole(typed[i]))), i < Len(typed), TextBehind(typed, i),
                     Word(NormalizeLookup(TextBehind(typed, i))))
  BY UnifiedReadingIs
<1> QED
  BY ONLY <1>3, <1>6, <1>7, <1>8, <1>9, <1>10 DEF UnifiedCases

LEMMA SpellingFree == typed \in Seq(Tokens) => SpellingIsFree
<1> SUFFICES ASSUME typed \in Seq(Tokens) PROVE SpellingIsFree
  OBVIOUS
<1> DEFINE plain == [i \in DOMAIN typed |-> [key |-> NormalizeLookup(typed[i].key),
                                             value |-> NormalizeLookup(typed[i].value)]]
           n == Len(typed)
<1>1. typed \in Seq(AllTokens) /\ n \in Nat /\ DOMAIN typed = 1..n /\ \A i \in 1..n : typed[i] \in Tokens
  BY TypedIs
<1>2. \A i \in 1..n : plain[i] = PlainToken(typed[i])
  BY <1>1 DEF PlainToken
<1>3. plain \in Seq(AllTokens) /\ Len(plain) = n
  <2>1. plain = [i \in 1..n |-> PlainToken(typed[i])]
    BY <1>1 DEF PlainToken
  <2>2. \A i \in 1..n : PlainToken(typed[i]) \in AllTokens
    BY <1>1, PlainTokenIs
  <2> QED
    BY ONLY <1>1, <2>1, <2>2
<1>4. SpellingIsFree <=> LET other == ParseQuery(plain) IN
          /\ Unified.bad = other.bad
          /\ Unified.constraints = other.constraints /\ Len(Unified.text) = Len(other.text)
  BY DEF SpellingIsFree
<1> HIDE DEF plain
<1>5. \A i \in 1..n : UnifiedReading(plain, i) = UnifiedReading(typed, i)
  BY ONLY <1>2, <1>3, typed \in Seq(Tokens), PlainReading DEF n
<1>6. UnifiedReadings(plain) = UnifiedReadings(typed)
  BY ONLY <1>3, <1>5 DEF UnifiedReadings, n
<1>7. PICK h : IsRun(h, typed, UnifiedReadings(typed)) /\ ParseQuery(typed) = Checked(h[n])
  BY <1>1, UnifiedRuns
<1>8. PICK k : IsRun(k, plain, UnifiedReadings(typed)) /\ ParseQuery(plain) = Checked(k[n])
  BY ONLY <1>3, <1>6, UnifiedRuns
<1>9. \A i \in 1..n : WellRead(UnifiedReadings(typed)[i], i, n)
  BY <1>1, WellReadings
<1>10. ParsedAlike(h[n], k[n])
  BY ONLY <1>1, <1>3, <1>7, <1>8, <1>9, RunsAreAlike DEF n
<1>11. h[n] \in ParseStates /\ k[n] \in ParseStates
  <2>1. n \in 0..n
    BY <1>1
  <2> QED
    BY ONLY <1>1, <1>3, <1>7, <1>8, <2>1, ParsesAre DEF n
<1> QED
  BY ONLY <1>4, <1>7, <1>8, <1>10, <1>11, CheckedAlike DEF Unified

-----------------------------------------------------------------------------
(* UnifiesBoth: what the store's grammar reads, the unified one reads alike *)

LEMMA StoreStepIs ==
  ASSUME NEW p \in ParseStates, NEW token \in AllTokens
  PROVE /\ StoreStep(p, token) \in ParseStates
        /\ Word(token.key) \in StoreKeys /\ ~(Blank(token.value) /\ token.value.form = {}) =>
             /\ StoreStep(p, token).bad = p.bad /\ StoreStep(p, token).text = p.text
             /\ StoreStep(p, token).constraints = Append(p.constraints, <<Word(token.key), UnicodeLower(token.value)>>)
        /\ ~(Word(token.key) \in StoreKeys /\ ~(Blank(token.value) /\ token.value.form = {})) =>
             /\ StoreStep(p, token).bad = p.bad /\ StoreStep(p, token).text = Append(p.text, token)
             /\ StoreStep(p, token).constraints = p.constraints
<1> DEFINE field == Word(token.key) value == UnicodeLower(token.value)
<1>1. CASE Word(token.key) \in StoreKeys /\ ~(Blank(token.value) /\ token.value.form = {})
  <2>1. field \in AllKeys /\ field \in StoreKeys /\ Registry[field].repeats = TRUE
    BY <1>1, RepeatsIs
  <2>2. value \in Spellings /\ Spellings \subseteq FacetValues
    BY TextsAre DEF AllTokens, FacetValues
  <2>3. StoreStep(p, token) = Pushes(p, field, {value})
    BY ONLY <1>1, <2>1 DEF StoreStep, Pushes, field, value
  <2>4. AnyOf({value}) = value
    BY DEF AnyOf
  <2> HIDE DEF field, value
  <2>5. {value} \in SUBSET FacetValues /\ {value} # {}
    BY <2>2
  <2>6. ~Refuses(p, field, {value})
    BY ONLY <2>1, <2>5 DEF Refuses
  <2>7. /\ Pushes(p, field, {value}) \in ParseStates
        /\ Pushes(p, field, {value}).bad = p.bad /\ Pushes(p, field, {value}).text = p.text
        /\ Pushes(p, field, {value}).constraints = Append(p.constraints, <<field, AnyOf({value})>>)
    BY ONLY <2>1, <2>5, <2>6, p \in ParseStates, PushedIs
  <2> QED
    BY ONLY <1>1, <2>3, <2>4, <2>7 DEF field, value
<1>2. CASE ~(Word(token.key) \in StoreKeys /\ ~(Blank(token.value) /\ token.value.form = {}))
  <2>1. StoreStep(p, token) = Keeps(p, token)
    BY ONLY <1>2 DEF StoreStep
  <2> QED
    BY ONLY <1>2, <2>1, p \in ParseStates, token \in AllTokens, KeepsIs
<1> QED
  BY ONLY <1>1, <1>2

StoreFold(query) ==
  CHOOSE iter : iter = [s \in SUBSET DOMAIN query |->
     IF s = {} THEN Unread ELSE LET x == Max(s) IN StoreStep(iter[s \ {x}], query[x])]

LEMMA StoreFoldIs ==
  ASSUME NEW query
  PROVE ParseStore(query) = StoreFold(query)[DOMAIN query]
BY DEF ParseStore, FoldLeft, MapThenFoldSet, StoreFold

LEMMA StoreRuns ==
  ASSUME NEW query \in Seq(AllTokens)
  PROVE \E h : /\ h \in [0..Len(query) -> ParseStates] /\ h[0] = Unread /\ h[Len(query)] = ParseStore(query)
               /\ \A i \in 1..Len(query) : h[i] = StoreStep(h[i - 1], query[i])
<1> DEFINE n == Len(query)
           run == StoreFold(query)
           g == [pi \in ParseStates \X (1..n) |-> StoreStep(pi[1], query[pi[2]])]
<1>1. n \in Nat /\ DOMAIN query = 1..n /\ \A i \in 1..n : query[i] \in AllTokens
  OBVIOUS
<1> HIDE DEF n
<1>2. ASSUME NEW pi \in ParseStates \X (1..n) PROVE StoreStep(pi[1], query[pi[2]]) \in ParseStates
  BY <1>1, StoreStepIs
<1>3. g \in [ParseStates \X (1..n) -> ParseStates]
  BY ONLY <1>2
<1>4. \A p \in ParseStates : \A i \in 1..n : g[<<p, i>>] = StoreStep(p, query[i])
  OBVIOUS
<1> HIDE DEF g
<1>7. \A s \in SUBSET (1..n) : s # {} => Max(s) \in 1..n
  BY ONLY <1>1, MaxOfIndices
<1>8. \E iter : iter = [s \in SUBSET DOMAIN query |->
     IF s = {} THEN Unread ELSE LET x == Max(s) IN StoreStep(iter[s \ {x}], query[x])]
  <2>1. PICK it : IsChain(it, n, ParseStates, Unread, g)
    BY ONLY <1>1, <1>3, UnreadIs, ChainExists
  <2>2. /\ it \in [SUBSET (1..n) -> ParseStates]
        /\ \A s \in SUBSET (1..n) : it[s] = IF s = {} THEN Unread ELSE g[<<it[s \ {Max(s)}], Max(s)>>]
    BY ONLY <2>1 DEF IsChain
  <2>3. ASSUME NEW s \in SUBSET (1..n)
        PROVE it[s] = IF s = {} THEN Unread ELSE StoreStep(it[s \ {Max(s)}], query[Max(s)])
    <3>1. CASE s = {}
      BY ONLY <2>2, <3>1
    <3>2. CASE s # {}
      <4>1. Max(s) \in 1..n /\ s \ {Max(s)} \in SUBSET (1..n)
        BY ONLY <1>7, <3>2
      <4>2. it[s \ {Max(s)}] \in ParseStates
        BY ONLY <2>2, <4>1
      <4>3. g[<<it[s \ {Max(s)}], Max(s)>>] = StoreStep(it[s \ {Max(s)}], query[Max(s)])
        BY ONLY <1>4, <4>1, <4>2
      <4> QED
        BY ONLY <2>2, <3>2, <4>3
    <3> QED
      BY ONLY <3>1, <3>2
  <2>4. it = [s \in SUBSET (1..n) |->
              IF s = {} THEN Unread ELSE LET x == Max(s) IN StoreStep(it[s \ {x}], query[x])]
    BY ONLY <2>2, <2>3
  <2>5. SUBSET DOMAIN query = SUBSET (1..n)
    BY ONLY Zenon, <1>1
  <2>6. it = [s \in SUBSET DOMAIN query |->
              IF s = {} THEN Unread ELSE LET x == Max(s) IN StoreStep(it[s \ {x}], query[x])]
    BY ONLY Zenon, <2>4, <2>5
  <2> QED
    BY ONLY Zenon, <2>6
<1>9. run = [s \in SUBSET DOMAIN query |->
     IF s = {} THEN Unread ELSE LET x == Max(s) IN StoreStep(run[s \ {x}], query[x])]
  BY ONLY Zenon, <1>8 DEF StoreFold, run
<1> HIDE DEF run
<1>10. run[{}] = Unread
  BY ONLY <1>9, <1>1
<1>11. ASSUME NEW s \in SUBSET (1..n), s # {}, run[s \ {Max(s)}] \in ParseStates
       PROVE run[s] = g[<<run[s \ {Max(s)}], Max(s)>>]
  <2>1. Max(s) \in 1..n
    BY ONLY <1>7, <1>11
  <2>2. run[s] = StoreStep(run[s \ {Max(s)}], query[Max(s)])
    BY ONLY <1>9, <1>1, <1>11, <2>1
  <2> QED
    BY ONLY <1>4, <1>11, <2>1, <2>2
<1>12. PICK h \in [0..n -> ParseStates] : /\ h[0] = Unread /\ h[n] = run[1..n]
                                     /\ \A i \in 1..n : h[i] = g[<<h[i - 1], i>>]
  <2>1. \A s \in SUBSET (1..n) : s # {} /\ run[s \ {Max(s)}] \in ParseStates => run[s] = g[<<run[s \ {Max(s)}], Max(s)>>]
    BY ONLY <1>11
  <2>2. FoldsBy(run, n, ParseStates, Unread, g)
    BY ONLY <1>10, <2>1 DEF FoldsBy
  <2>3. PICK h : IsPath(h, n, ParseStates, Unread, g, run)
    BY ONLY <1>1, <1>3, <2>2, UnreadIs, FoldFollows
  <2> QED
    BY ONLY <2>3 DEF IsPath
<1>13. ASSUME NEW i \in 1..n PROVE h[i] = StoreStep(h[i - 1], query[i])
  <2>1. i - 1 \in 0..n
    BY <1>1
  <2>2. h[i - 1] \in ParseStates /\ h[i] = g[<<h[i - 1], i>>]
    BY ONLY <1>12, <2>1
  <2> QED
    BY ONLY <1>4, <2>2
<1>14. ParseStore(query) = h[n]
  BY ONLY <1>1, <1>12, StoreFoldIs DEF run
<1> QED
  BY ONLY <1>12, <1>13, <1>14 DEF n

LEMMA StoreReading ==
  ASSUME typed \in Seq(Tokens), IsStoreQuery, NEW i \in 1..Len(typed)
  PROVE LET token == typed[i]
            filter == Word(token.key) \in StoreKeys /\ ~(Blank(token.value) /\ token.value.form = {})
            r == UnifiedReading(typed, i) IN
        /\ filter => r = ReadAs(1, Word(token.key), {UnicodeLower(token.value)}, {})
        /\ ~filter => r = LeftAlone
<1> DEFINE token == typed[i]
           filter == Word(token.key) \in StoreKeys /\ ~(Blank(token.value) /\ token.value.form = {})
           r == UnifiedReading(typed, i)
           word == Word(NormalizeLookup(Whole(token)))
<1>1. i \in DOMAIN typed /\ token \in Tokens /\ token.key \in Spellings /\ token.value \in Spellings
      /\ (Blank(token.value) => token.value.form \subseteq {"padded"})
  BY TypedIs, TokensAre
<1>2. /\ token.key.form = {} /\ FacetKey(token) \notin RecallKeys /\ ~IsSugar(token)
      /\ token.value.form \subseteq {"capital", "foreign"}
  <2>1. ~IsSugar(token) /\ FacetKey(token) \notin RecallKeys /\ token.key.form = {}
    BY <1>1 DEF IsStoreQuery
  <2>2. token.value.form \subseteq Forms
    BY <1>1 DEF Forms
  <2> QED
    BY <2>1, <2>2 DEF IsStoreQuery
<1>3. /\ word # "from" /\ word # "last" /\ word # "today" /\ word # "yesterday" /\ word # "before"
      /\ word \notin DOMAIN KindSynonyms
  BY <1>2 DEF IsSugar
<1>4. NormalizeLookup(token.key) = token.key
  BY <1>1, <1>2, PlainIs
<1>5. FacetKey(token) = IF Word(token.key) \in StoreKeys THEN Word(token.key) ELSE NoWord
  BY ONLY <1>2, <1>4, KeysAre, NoWordIs DEF AllKeys
<1>6. Blank(token.value) => token.value.form = {}
  BY <1>1, <1>2
<1>7. IsFacet(token) <=> filter
  BY ONLY <1>5, <1>6, KeysAre, NoWordIs
<1>8. UnicodeLower(token.value) = NormalizeLookup(token.value)
  <2>1. token.value.form \ {"capital", "foreign"} = {}
    BY <1>2
  <2>2. UnicodeLower(token.value) \in Spellings /\ UnicodeLower(token.value).is = token.value.is /\ UnicodeLower(token.value).form = {}
    BY <1>1, <2>1, TextsAre
  <2>3. UnicodeLower(token.value) = [is |-> token.value.is, form |-> {}]
    BY ONLY <2>2 DEF Spellings
  <2>4. NormalizeLookup(token.value) = [is |-> token.value.is, form |-> {}]
    BY <1>1, TextsAre
  <2> QED
    BY ONLY <2>3, <2>4
<1>9. filter => ParseFacetValue(Word(token.key), token.value) = {UnicodeLower(token.value)}
  <2>1. ASSUME filter PROVE ParseFacetValue(Word(token.key), token.value) = {NormalizeLookup(token.value)}
    <3>1. Word(token.key) \in StoreKeys /\ ~Blank(token.value)
      BY <1>6, <2>1
    <3>2. Registry[Word(token.key)].syntax = "text"
      BY <3>1, SyntaxIs
    <3> QED
      BY ONLY <3>1, <3>2 DEF ParseFacetValue
  <2> QED
    BY <1>8, <2>1
<1>10. UnifiedCases(r, IsFacet(token), FacetKey(token), token.value, word, i < Len(typed), TextBehind(typed, i),
                    Word(NormalizeLookup(TextBehind(typed, i))))
  BY UnifiedReadingIs
<1> HIDE DEF r, word, token
<1>11. CASE filter
  <2>1. r = ReadAs(1, Word(token.key), {UnicodeLower(token.value)}, {})
    BY ONLY <1>5, <1>7, <1>9, <1>10, <1>11 DEF UnifiedCases
  <2> QED
    BY ONLY <1>11, <2>1 DEF r, token
<1>12. CASE ~filter
  <2>1. r = LeftAlone
    BY ONLY <1>3, <1>7, <1>10, <1>12 DEF UnifiedCases
  <2> QED
    BY ONLY <1>12, <2>1 DEF r, token
<1> QED
  BY ONLY <1>11, <1>12

LEMMA StoreIsUnified ==
  ASSUME typed \in Seq(Tokens), IsStoreQuery
  PROVE LET store == ParseStore(typed) IN
        ~Unified.bad /\ Unified.text = store.text /\ Unified.constraints = store.constraints
<1> DEFINE n == Len(typed)
           filter(token) == Word(token.key) \in StoreKeys /\ ~(Blank(token.value) /\ token.value.form = {})
<1>1. typed \in Seq(AllTokens) /\ n \in Nat /\ \A i \in 1..n : typed[i] \in AllTokens
  BY TypedIs
<1>2. PICK h : IsRun(h, typed, UnifiedReadings(typed)) /\ ParseQuery(typed) = Checked(h[n])
  BY <1>1, UnifiedRuns
<1>3. PICK k : /\ k \in [0..n -> ParseStates] /\ k[0] = Unread /\ k[n] = ParseStore(typed)
               /\ \A i \in 1..n : k[i] = StoreStep(k[i - 1], typed[i])
  BY <1>1, StoreRuns
<1> DEFINE Goes(i) == /\ ~h[i].bad /\ h[i].read = i /\ h[i].text = k[i].text
                      /\ h[i].constraints = k[i].constraints
                      /\ \A j \in DOMAIN h[i].constraints : h[i].constraints[j][1] \in StoreKeys
           T == {i \in 0..n : Goes(i)}
<1>4. 0 \in T
  BY <1>1, <1>2, <1>3 DEF IsRun, Unread
<1>5. ASSUME NEW i \in 1..n, i - 1 \in T PROVE i \in T
  <2> DEFINE p == h[i - 1] q == k[i - 1] r == UnifiedReadings(typed)[i] token == typed[i]
             a == h[i] b == k[i]
  <2>1. /\ ~p.bad /\ p.read = i - 1 /\ p.text = q.text /\ p.constraints = q.constraints
        /\ \A j \in DOMAIN p.constraints : p.constraints[j][1] \in StoreKeys
    BY <1>5
  <2>2. p \in ParseStates /\ q \in ParseStates /\ token \in AllTokens /\ i - 1 \in Int
    <3>1. i - 1 \in 0..n
      BY <1>1
    <3> QED
      BY <1>1, <1>2, <1>3, <3>1 DEF IsRun
  <2>3. a = Taken(p, i, r, token) /\ b = StoreStep(q, token)
    BY <1>2, <1>3 DEF IsRun
  <2>4. WellRead(r, i, n) /\ r = UnifiedReading(typed, i)
    BY <1>1, WellReadings
  <2>5. /\ filter(token) => r = ReadAs(1, Word(token.key), {UnicodeLower(token.value)}, {})
        /\ ~filter(token) => r = LeftAlone
    BY ONLY <2>4, typed \in Seq(Tokens), IsStoreQuery, StoreReading DEF n
  <2>6. ~(p.bad \/ p.read >= i)
    BY ONLY <1>1, <2>1, <2>2
  <2>7. p.constraints \in Seq(AllKeys \X FacetValues)
    BY <2>2 DEF ParseStates
  <2> HIDE DEF p, q, r, token, a, b
  <2>8. CASE ~filter(token)
    <3>1. r.takes = 0
      BY <2>5, <2>8, ReadAsIs DEF LeftAlone
    <3>2. ~a.bad /\ a.read = p.read + 1 /\ a.text = Append(p.text, token) /\ a.constraints = p.constraints
      BY ONLY <2>2, <2>3, <2>4, <2>6, <3>1, StepFields
    <3>3. b.text = Append(q.text, token) /\ b.constraints = q.constraints
      BY ONLY <2>2, <2>3, <2>8, StoreStepIs DEF filter
    <3>4. /\ ~a.bad /\ a.read = i /\ a.text = b.text /\ a.constraints = b.constraints
          /\ \A j \in DOMAIN a.constraints : a.constraints[j][1] \in StoreKeys
      BY ONLY <2>1, <2>2, <3>2, <3>3
    <3> QED
      BY ONLY <3>4, i \in 1..n, <1>1 DEF T, Goes, a, b
  <2>9. CASE filter(token)
    <3> DEFINE field == Word(token.key) value == UnicodeLower(token.value)
    <3>1. r.takes = 1 /\ r.key = field /\ r.values = {value} /\ r.also = {}
      BY <2>5, <2>9, ReadAsIs
    <3>2. field \in StoreKeys
      BY <2>9
    <3>3. AnyOf({value}) = value
      BY DEF AnyOf
    <3>4. b.text = q.text /\ b.constraints = Append(q.constraints, <<field, value>>)
      BY ONLY <2>2, <2>3, <2>9, StoreStepIs DEF filter, field, value
    <3> HIDE DEF field, value
    <3>5. ~RefusedAfter(p.constraints, field, {value}) /\ ~FiledBadly(p.constraints, r)
      BY ONLY <3>1, <3>2 DEF RefusedAfter, FiledBadly
    <3>6. FiledOnto(p.constraints, r) = Append(p.constraints, <<field, value>>)
      BY ONLY <3>1, <3>3, <3>5 DEF FiledOnto, PushedOnto
    <3>7. /\ (a.bad <=> FiledBadly(p.constraints, r)) /\ a.read = p.read + r.takes /\ a.text = p.text
          /\ a.constraints = FiledOnto(p.constraints, r)
      <4>1. r.takes # 0
        BY ONLY <3>1
      <4> QED
        BY ONLY <2>2, <2>3, <2>4, <2>6, <4>1, StepFields
    <3>8. \A j \in DOMAIN a.constraints : a.constraints[j][1] \in StoreKeys
      BY ONLY <2>1, <2>7, <3>2, <3>6, <3>7
    <3>9. /\ ~a.bad /\ a.read = i /\ a.text = b.text /\ a.constraints = b.constraints
      BY ONLY <2>1, <2>2, <3>1, <3>4, <3>5, <3>6, <3>7
    <3> QED
      BY ONLY <3>8, <3>9, i \in 1..n, <1>1 DEF T, Goes, a, b
  <2> QED
    BY ONLY <2>8, <2>9
<1> HIDE DEF T, Goes, n
<1>6. \A i \in 0..n : i \in T
  BY ONLY <1>1, <1>4, <1>5, UpToAll
<1>7. n \in 0..n
  BY <1>1
<1>8. /\ ~h[n].bad /\ h[n].text = k[n].text /\ h[n].constraints = k[n].constraints
      /\ \A j \in DOMAIN h[n].constraints : h[n].constraints[j][1] \in StoreKeys
  BY ONLY <1>6, <1>7 DEF T, Goes
<1>9. h[n] \in ParseStates
  BY <1>2, <1>7 DEF IsRun, n
<1>10. ~WindowIsEmpty(h[n])
  <2>1. "before" \notin StoreKeys
    BY DEF StoreKeys
  <2> QED
    BY <1>8, <2>1 DEF WindowIsEmpty, ConstraintsOn
<1> QED
  BY ONLY <1>2, <1>3, <1>8, <1>9, <1>10, CheckedIs DEF Unified

LEMMA BothAreUnified == typed \in Seq(Tokens) => UnifiesBoth
<1> SUFFICES ASSUME typed \in Seq(Tokens) PROVE UnifiesBoth
  OBVIOUS
<1>1. IsNatural => Natural = Unified
  BY NaturalIsUnified
<1>2. IsStoreQuery => LET store == ParseStore(typed) IN
        ~Unified.bad /\ Unified.text = store.text /\ Unified.constraints = store.constraints
  BY StoreIsUnified
<1> QED
  BY ONLY <1>1, <1>2 DEF UnifiesBoth

-----------------------------------------------------------------------------
(* Runs *)

WellReads(r, n) == \A i \in 1..n : WellRead(r[i], i, n)
Stepped(h, query, r, i) ==
    /\ h[i - 1] \in ParseStates /\ h[i] \in ParseStates
    /\ h[i - 1].bad \/ h[i - 1].read >= i => h[i] = h[i - 1]
    /\ ~(h[i - 1].bad \/ h[i - 1].read >= i) /\ r[i].takes = 0 =>
         /\ ~h[i].bad /\ h[i].read = h[i - 1].read + 1
         /\ h[i].text = Append(h[i - 1].text, query[i])
         /\ h[i].constraints = h[i - 1].constraints
    /\ ~(h[i - 1].bad \/ h[i - 1].read >= i) /\ r[i].takes # 0 =>
         /\ h[i].bad <=> FiledBadly(h[i - 1].constraints, r[i])
         /\ h[i].read = h[i - 1].read + r[i].takes
         /\ h[i].text = h[i - 1].text
         /\ h[i].constraints = FiledOnto(h[i - 1].constraints, r[i])

LEMMA RunSteps ==
  ASSUME NEW query \in Seq(AllTokens), NEW r, WellReads(r, Len(query)), NEW h, IsRun(h, query, r)
  PROVE \A i \in 1..Len(query) : Stepped(h, query, r, i)
<1> TAKE i \in 1..Len(query)
<1>1. i - 1 \in 0..Len(query) /\ i \in 0..Len(query) /\ query[i] \in AllTokens
  OBVIOUS
<1>2. h[i - 1] \in ParseStates /\ h[i] \in ParseStates /\ h[i] = Taken(h[i - 1], i, r[i], query[i])
  BY <1>1 DEF IsRun
<1>3. WellRead(r[i], i, Len(query))
  BY DEF WellReads
<1> DEFINE p == h[i - 1] q == h[i] s == r[i] t == query[i] n == Len(query)
<1> HIDE DEF p, q, s, t, n
<1>4. /\ p.bad \/ p.read >= i => q = p
      /\ ~(p.bad \/ p.read >= i) /\ s.takes = 0 =>
           /\ ~q.bad /\ q.read = p.read + 1 /\ q.text = Append(p.text, t) /\ q.constraints = p.constraints
      /\ ~(p.bad \/ p.read >= i) /\ s.takes # 0 =>
           /\ q.bad <=> FiledBadly(p.constraints, s)
           /\ q.read = p.read + s.takes /\ q.text = p.text /\ q.constraints = FiledOnto(p.constraints, s)
  <2>1. p \in ParseStates /\ q = Taken(p, i, s, t) /\ WellRead(s, i, n) /\ t \in AllTokens
    BY ONLY <1>1, <1>2, <1>3 DEF p, q, s, t, n
  <2> QED
    BY ONLY <2>1, StepFields
<1> QED
  BY ONLY <1>2, <1>4 DEF Stepped, p, q, s, t

\* A run is never behind, and ahead by the one token that a word took with it.
LEMMA RunKeepsUp ==
  ASSUME NEW query \in Seq(AllTokens), NEW r, WellReads(r, Len(query)), NEW h, IsRun(h, query, r)
  PROVE \A i \in 0..Len(query) : ~h[i].bad =>
          h[i].read \in Nat /\ i <= h[i].read /\ h[i].read <= i + 1 /\ h[i].read <= Len(query)
<1> DEFINE n == Len(query)
           T == {i \in 0..n : ~h[i].bad => h[i].read \in Nat /\ i <= h[i].read /\ h[i].read <= i + 1 /\ h[i].read <= n}
<1>1. n \in Nat
  OBVIOUS
<1>2. 0 \in T
  BY <1>1 DEF IsRun, Unread
<1>3. ASSUME NEW i \in 1..n, i - 1 \in T PROVE i \in T
  <2>1. Stepped(h, query, r, i) /\ WellRead(r[i], i, n)
    BY RunSteps DEF WellReads
  <2>2. r[i].takes \in 0..2 /\ (r[i].takes = 2 => i < n)
    BY <2>1 DEF WellRead, Readings
  <2>3. ~h[i - 1].bad => h[i - 1].read \in Nat /\ i - 1 <= h[i - 1].read /\ h[i - 1].read <= i /\ h[i - 1].read <= n
    BY <1>3
  <2>4. ~h[i].bad => h[i].read \in Nat /\ i <= h[i].read /\ h[i].read <= i + 1 /\ h[i].read <= n
    <3> SUFFICES ASSUME ~h[i].bad PROVE h[i].read \in Nat /\ i <= h[i].read /\ h[i].read <= i + 1 /\ h[i].read <= n
      OBVIOUS
    <3>1. ~h[i - 1].bad
      BY ONLY <2>1, ~h[i].bad DEF Stepped
    <3> DEFINE a == h[i - 1].read b == h[i].read takes == r[i].takes
    <3>2. \/ a >= i /\ b = a
          \/ ~(a >= i) /\ takes = 0 /\ b = a + 1
          \/ ~(a >= i) /\ takes # 0 /\ b = a + takes
      BY ONLY <2>1, <3>1 DEF Stepped
    <3> HIDE DEF a, b, takes, n
    <3>3. a \in Nat /\ i - 1 <= a /\ a <= i /\ a <= n
      BY ONLY <2>3, <3>1 DEF a
    <3>4. takes \in 0..2 /\ (takes = 2 => i < n)
      BY ONLY <2>2 DEF takes
    <3>5. b \in Nat /\ i <= b /\ b <= i + 1 /\ b <= n
      BY ONLY <1>1, <3>2, <3>3, <3>4, i \in 1..n
    <3> QED
      BY ONLY <3>5 DEF b
  <2> QED
    BY ONLY <2>4, i \in 1..n, <1>1 DEF T
<1> HIDE DEF T, n
<1>4. \A i \in 0..n : i \in T
  BY ONLY <1>1, <1>2, <1>3, UpToAll
<1> QED
  BY <1>4 DEF T, n

\* What is refused stays so.
LEMMA RefusalsStay ==
  ASSUME NEW query \in Seq(AllTokens), NEW r, WellReads(r, Len(query)), NEW h, IsRun(h, query, r)
  PROVE ~h[Len(query)].bad => \A i \in 0..Len(query) : ~h[i].bad
<1> DEFINE n == Len(query)
           T == {i \in 0..n : \A j \in 0..i : h[j].bad => h[i].bad}
<1>1. n \in Nat
  OBVIOUS
<1>2. 0 \in T
  BY <1>1
<1>3. ASSUME NEW i \in 1..n, i - 1 \in T PROVE i \in T
  <2>1. Stepped(h, query, r, i)
    BY RunSteps
  <2>2. h[i - 1].bad => h[i].bad
    BY ONLY <2>1 DEF Stepped
  <2>3. \A j \in 0..i - 1 : h[j].bad => h[i - 1].bad
    BY <1>3
  <2>4. \A j \in 0..i : h[j].bad => h[i].bad
    BY ONLY <2>2, <2>3, i \in 1..n, <1>1
  <2> QED
    BY <2>4
<1> HIDE DEF T, n
<1>4. \A i \in 0..n : i \in T
  BY ONLY <1>1, <1>2, <1>3, UpToAll
<1>5. n \in T
  BY ONLY <1>1, <1>4
<1> QED
  BY <1>5 DEF T, n

-----------------------------------------------------------------------------
(* FiltersAreObeyed *)

\* Text is tokens that were left alone.
LEMMA TextIsLeftAlone ==
  ASSUME NEW query \in Seq(AllTokens), NEW r, WellReads(r, Len(query)), NEW h, IsRun(h, query, r)
  PROVE \A i \in 0..Len(query) : \A j \in DOMAIN h[i].text :
          \E m \in 1..Len(query) : h[i].text[j] = query[m] /\ r[m].takes = 0
<1> DEFINE n == Len(query)
           T == {i \in 0..n : \A j \in DOMAIN h[i].text :
                                \E m \in 1..n : h[i].text[j] = query[m] /\ r[m].takes = 0}
<1>1. n \in Nat
  OBVIOUS
<1>2. 0 \in T
  BY <1>1 DEF IsRun, Unread
<1>3. ASSUME NEW i \in 1..n, i - 1 \in T PROVE i \in T
  <2>1. Stepped(h, query, r, i)
    BY RunSteps
  <2>2. \A j \in DOMAIN h[i - 1].text : \E m \in 1..n : h[i - 1].text[j] = query[m] /\ r[m].takes = 0
    BY <1>3
  <2>3. h[i - 1].text \in Seq(AllTokens)
    BY ONLY <2>1 DEF Stepped, ParseStates
  <2>4. \/ h[i].text = h[i - 1].text
        \/ h[i].text = Append(h[i - 1].text, query[i]) /\ r[i].takes = 0
    BY ONLY <2>1 DEF Stepped
  <2> DEFINE u == h[i].text t == h[i - 1].text
  <2>5. CASE u = t
    BY <2>2, <2>5
  <2>6. CASE u = Append(t, query[i]) /\ r[i].takes = 0
    <3> HIDE DEF u, t, n
    <3>1. t \in Seq(AllTokens) /\ \A j \in DOMAIN t : \E m \in 1..n : t[j] = query[m] /\ r[m].takes = 0
      BY ONLY <2>2, <2>3 DEF t
    <3>2. DOMAIN u = 1..Len(t) + 1 /\ u[Len(t) + 1] = query[i] /\ (\A j \in 1..Len(t) : u[j] = t[j]) /\ DOMAIN t = 1..Len(t) /\ Len(t) \in Nat
      BY ONLY <2>6, <3>1
    <3>3. \A j \in DOMAIN u : \E m \in 1..n : u[j] = query[m] /\ r[m].takes = 0
      BY ONLY <2>6, <3>1, <3>2, i \in 1..n
    <3> QED
      BY ONLY <3>3, i \in 1..n, <1>1 DEF T, u
  <2> QED
    BY ONLY <2>4, <2>5, <2>6
<1> HIDE DEF T, n
<1>4. \A i \in 0..n : i \in T
  BY ONLY <1>1, <1>2, <1>3, UpToAll
<1> QED
  BY <1>4 DEF T, n

LEMMA FacetsAre ==
  /\ Registry["app"].sql = "missing" /\ Registry["tag"].sql = "missing" /\ Registry["device"].sql = "missing"
  /\ Registry["kind"].compare = "equals"
  /\ Registry["before"].compare = "before" /\ Registry["after"].compare = "at or after"
  /\ Registry["app"].compare = "contains"
  /\ Registry["tag"].compare = "equals" /\ Registry["device"].compare = "equals"
  /\ \A field \in StoreKeys : Registry[field].compare = "equals"
<1>1. /\ Registry["app"].sql = "missing" /\ Registry["tag"].sql = "missing" /\ Registry["device"].sql = "missing"
  BY DEF Registry, RecallKeys, StoreKeys, Facet
<1>2. /\ Registry["kind"].compare = "equals"
      /\ Registry["before"].compare = "before" /\ Registry["after"].compare = "at or after"
  BY DEF Registry, RecallKeys, StoreKeys, Facet
<1>3. /\ Registry["app"].compare = "contains"
      /\ Registry["tag"].compare = "equals" /\ Registry["device"].compare = "equals"
  BY DEF Registry, RecallKeys, StoreKeys, Facet
<1>4. \A field \in StoreKeys : Registry[field].compare = "equals"
  BY DEF Registry, RecallKeys, StoreKeys, Facet
<1> QED
  BY ONLY <1>1, <1>2, <1>3, <1>4

\* Hosts are ASCII: in small letters they are what normalize_lookup makes of them.
LEMMA HostsArePlain ==
  ASSUME NEW clip \in QueryClips, NEW host \in clip.host
  PROVE NormalizeLookup(UnicodeLower(host)) = UnicodeLower(host)
<1>1. host \in Texts /\ host.form \subseteq {"capital"}
  BY VocabularyAssumption
<1>2. host \in Spellings
  BY <1>1 DEF Texts, Spellings
<1>3. UnicodeLower(host) \in Spellings /\ UnicodeLower(host).form = host.form \ {"capital", "foreign"}
  BY <1>2, TextsAre
<1>4. UnicodeLower(host).form = {}
  BY <1>1, <1>3
<1> QED
  BY ONLY <1>3, <1>4, PlainIs

\* What a constraint means to the grammar, and to the SQL it is compiled to.
GrammarAsks(facet, value, clip) ==
    LET folded == {NormalizeLookup(v) : v \in ValuesOf(clip, facet)} IN
    CASE Registry[facet].compare = "before" -> clip.at < value
      [] Registry[facet].compare = "at or after" -> clip.at >= value
      [] Registry[facet].compare = "contains" -> \E v \in folded : Occurs(value, v)
      [] facet = "kind" -> clip.kind = value
      [] OTHER -> value \in folded
SqlAsks(facet, value, clip) ==
    CASE facet = "before" -> clip.at < value
      [] facet = "after" -> clip.at >= value
      [] facet = "kind" -> clip.kind = value
      [] OTHER -> value \in ValuesOf(clip, facet)

LEMMA FindsAre ==
  ASSUME NEW p, NEW clip
  PROVE /\ GrammarFinds(p, clip) <=> \A i \in DOMAIN p.constraints : GrammarAsks(p.constraints[i][1], p.constraints[i][2], clip)
        /\ SqlFinds(p, clip) <=> \A i \in DOMAIN p.constraints : SqlAsks(p.constraints[i][1], p.constraints[i][2], clip)
BY Zenon DEF GrammarFinds, SqlFinds, GrammarAsks, SqlAsks

LEMMA SqlIsGrammar ==
  ASSUME NEW facet \in AllKeys, Registry[facet].sql # "missing", NEW value, NEW clip \in QueryClips
  PROVE SqlAsks(facet, value, clip) <=> GrammarAsks(facet, value, clip)
<1>1. facet \in {"kind", "before", "after"} \cup StoreKeys
  BY FacetsAre DEF AllKeys, RecallKeys
<1>2. CASE facet = "before"
  <2>1. Registry[facet].compare = "before"
    BY <1>2, FacetsAre
  <2> QED
    BY ONLY <1>2, <2>1 DEF SqlAsks, GrammarAsks
<1>3. CASE facet = "after"
  <2>1. Registry[facet].compare = "at or after"
    BY <1>3, FacetsAre
  <2> QED
    BY ONLY <1>3, <2>1 DEF SqlAsks, GrammarAsks
<1>4. CASE facet = "kind"
  <2>1. Registry[facet].compare = "equals"
    BY <1>4, FacetsAre
  <2> QED
    BY ONLY <1>4, <2>1 DEF SqlAsks, GrammarAsks
<1>5. CASE facet \in StoreKeys
  <2>1. Registry[facet].compare = "equals" /\ facet # "before" /\ facet # "after" /\ facet # "kind"
        /\ facet # "app" /\ facet # "tag" /\ facet # "device"
    BY <1>5, FacetsAre DEF StoreKeys
  <2>2. ValuesOf(clip, facet) = IF facet = "host" THEN {UnicodeLower(host) : host \in clip.host} ELSE {}
    BY ONLY <2>1 DEF ValuesOf
  <2>3. \A v \in ValuesOf(clip, facet) : NormalizeLookup(v) = v
    BY <2>2, HostsArePlain
  <2>4. {NormalizeLookup(v) : v \in ValuesOf(clip, facet)} = ValuesOf(clip, facet)
    BY ONLY <2>3
  <2> QED
    BY ONLY <2>1, <2>4 DEF SqlAsks, GrammarAsks
<1> QED
  BY ONLY <1>1, <1>2, <1>3, <1>4, <1>5

LEMMA ObeyedIs == typed \in Seq(Tokens) => FiltersAreObeyed
<1> SUFFICES ASSUME typed \in Seq(Tokens) PROVE FiltersAreObeyed
  OBVIOUS
<1> DEFINE n == Len(typed)
<1>1. typed \in Seq(AllTokens) /\ n \in Nat /\ n \in 0..n
  BY TypedIs
<1>2. PICK h : IsRun(h, typed, UnifiedReadings(typed)) /\ ParseQuery(typed) = Checked(h[n])
  BY <1>1, UnifiedRuns
<1>3. PICK k : IsRun(k, typed, NaturalReadings(typed)) /\ ParseNatural(typed) = Checked(k[n])
  BY <1>1, NaturalRuns
<1>4. WellReads(UnifiedReadings(typed), n) /\ WellReads(NaturalReadings(typed), n)
  BY <1>1, WellReadings DEF WellReads
<1>5. h[n] \in ParseStates /\ k[n] \in ParseStates
  BY ONLY <1>1, <1>2, <1>3, ParsesAre DEF n
<1>6. /\ Unified.text = h[n].text /\ Unified.constraints = h[n].constraints /\ Natural.text = k[n].text
  BY ONLY <1>2, <1>3, <1>5, CheckedIs DEF Unified, Natural
<1>7. \A i \in DOMAIN Unified.text : ~IsFacet(Unified.text[i])
  <2>1. ASSUME NEW m \in 1..n, UnifiedReadings(typed)[m].takes = 0 PROVE ~IsFacet(typed[m])
    <3>1. UnifiedReadings(typed)[m] = UnifiedReading(typed, m)
      BY <1>1, WellReadings
    <3>2. UnifiedReading(typed, m).takes = 0
      BY ONLY <3>1, <2>1
    <3>3. UnifiedCases(UnifiedReading(typed, m), IsFacet(typed[m]), FacetKey(typed[m]), typed[m].value,
                     Word(NormalizeLookup(Whole(typed[m]))), m < Len(typed), TextBehind(typed, m),
                     Word(NormalizeLookup(TextBehind(typed, m))))
      BY UnifiedReadingIs
    <3>4. IsFacet(typed[m]) => UnifiedReading(typed, m) = ReadAs(1, FacetKey(typed[m]), ParseFacetValue(FacetKey(typed[m]), typed[m].value), {})
      BY ONLY <3>3 DEF UnifiedCases
    <3> QED
      BY ONLY <3>2, <3>4, ReadAsIs
  <2>2. \A j \in DOMAIN h[n].text : \E m \in 1..n : h[n].text[j] = typed[m] /\ UnifiedReadings(typed)[m].takes = 0
    BY ONLY <1>1, <1>2, <1>4, TextIsLeftAlone DEF n
  <2> QED
    BY ONLY <1>6, <2>1, <2>2
<1>8. \A i \in DOMAIN Natural.text : RecallKey(Natural.text[i]) = NoWord
  <2>1. ASSUME NEW m \in 1..n, NaturalReadings(typed)[m].takes = 0 PROVE RecallKey(typed[m]) = NoWord
    <3>1. NaturalReadings(typed)[m] = NaturalReading(typed, m)
      BY <1>1, WellReadings
    <3>2. NaturalReading(typed, m).takes = 0
      BY ONLY <3>1, <2>1
    <3>3. NaturalCases(NaturalReading(typed, m), RecallKey(typed[m]), typed[m].value,
                     Word(AsciiLower(Whole(typed[m]))), m < Len(typed), TextBehind(typed, m),
                     Word(AsciiLower(TextBehind(typed, m))))
      BY NaturalReadingIs
    <3>4. RecallKey(typed[m]) # NoWord => NaturalReading(typed, m) = ReadAs(1, RecallKey(typed[m]), RecallValue(RecallKey(typed[m]), typed[m].value), {})
      BY ONLY <3>3 DEF NaturalCases
    <3> QED
      BY ONLY <3>2, <3>4, ReadAsIs
  <2>2. \A j \in DOMAIN k[n].text : \E m \in 1..n : k[n].text[j] = typed[m] /\ NaturalReadings(typed)[m].takes = 0
    BY ONLY <1>1, <1>3, <1>4, TextIsLeftAlone DEF n
  <2> QED
    BY ONLY <1>6, <2>1, <2>2
<1>9. ASSUME HasSql(Unified), NEW clip \in QueryClips PROVE SqlFinds(Unified, clip) = GrammarFinds(Unified, clip)
  <2>1. \A i \in DOMAIN Unified.constraints : Unified.constraints[i][1] \in AllKeys
    <3>1. Unified.constraints \in Seq(AllKeys \X FacetValues)
      BY ONLY <1>5, <1>6 DEF ParseStates
    <3> QED
      BY ONLY <3>1
  <2>2. \A i \in DOMAIN Unified.constraints : Registry[Unified.constraints[i][1]].sql # "missing"
    BY <1>9 DEF HasSql
  <2>3. \A i \in DOMAIN Unified.constraints :
           SqlAsks(Unified.constraints[i][1], Unified.constraints[i][2], clip)
             <=> GrammarAsks(Unified.constraints[i][1], Unified.constraints[i][2], clip)
    BY ONLY <2>1, <2>2, clip \in QueryClips, SqlIsGrammar
  <2>4. SqlFinds(Unified, clip) <=> GrammarFinds(Unified, clip)
    BY ONLY <2>3, FindsAre
  <2>5. SqlFinds(Unified, clip) \in BOOLEAN /\ GrammarFinds(Unified, clip) \in BOOLEAN
    BY ONLY Zenon DEF SqlFinds, GrammarFinds
  <2> QED
    BY ONLY <2>4, <2>5
<1>10. \A i \in DOMAIN Natural.text : RecallKey(Natural.text[i]) = ""
  BY ONLY Zenon, <1>8 DEF NoWord
<1> QED
  BY ONLY Zenon, <1>7, <1>9, <1>10 DEF FiltersAreObeyed

-----------------------------------------------------------------------------
(* WindowsAreOpen *)

\* A facet that is not the store's is there once, and the bounds of a window are instants.
Tidy(c) ==
    /\ c \in Seq(AllKeys \X FacetValues)
    /\ \A j \in DOMAIN c : c[j][1] \in {"before", "after"} => c[j][2] \in Int
    /\ \A j \in DOMAIN c : \A m \in DOMAIN c : c[j][1] = c[m][1] /\ c[j][1] \notin StoreKeys => j = m

LEMMA PushedTidy ==
  ASSUME NEW c, Tidy(c), NEW field \in AllKeys, NEW values \in SUBSET FacetValues,
         field \in {"before", "after"} => values \in SUBSET Int
  PROVE Tidy(PushedOnto(c, field, values))
<1>1. CASE RefusedAfter(c, field, values)
  BY <1>1 DEF PushedOnto
<1>2. CASE ~RefusedAfter(c, field, values)
  <2> DEFINE v == AnyOf(values) d == Append(c, <<field, v>>)
  <2>1. values # {} /\ (field \notin StoreKeys => \A j \in DOMAIN c : c[j][1] # field)
    BY <1>2 DEF RefusedAfter
  <2>2. v \in values
    BY <2>1 DEF AnyOf
  <2> HIDE DEF v
  <2>3. v \in FacetValues /\ (field \in {"before", "after"} => v \in Int)
    BY <2>2
  <2>4. c \in Seq(AllKeys \X FacetValues) /\ Len(c) \in Nat /\ DOMAIN c = 1..Len(c)
    BY DEF Tidy
  <2>5. d \in Seq(AllKeys \X FacetValues) /\ DOMAIN d = 1..Len(c) + 1 /\ (\A j \in 1..Len(c) : d[j] = c[j])
        /\ d[Len(c) + 1] = <<field, v>>
    BY <2>3, <2>4
  <2>6. \A j \in DOMAIN c : c[j][1] \in {"before", "after"} => c[j][2] \in Int
    BY DEF Tidy
  <2>7. \A j \in DOMAIN c : \A m \in DOMAIN c : c[j][1] = c[m][1] /\ c[j][1] \notin StoreKeys => j = m
    BY DEF Tidy
  <2> HIDE DEF d
  <2>8. d[Len(c) + 1][1] = field /\ d[Len(c) + 1][2] = v
    BY <2>5
  <2>9. ASSUME NEW j \in DOMAIN d, d[j][1] \in {"before", "after"} PROVE d[j][2] \in Int
    <3>1. CASE j = Len(c) + 1
      BY ONLY <2>3, <2>8, <2>9, <3>1
    <3>2. CASE j # Len(c) + 1
      <4>1. j \in DOMAIN c /\ d[j] = c[j]
        BY ONLY <2>4, <2>5, <3>2, j \in DOMAIN d
      <4> QED
        BY ONLY <2>6, <2>9, <4>1
    <3> QED
      BY ONLY <3>1, <3>2
  <2>10. \A j \in DOMAIN d : j # Len(c) + 1 => j \in DOMAIN c /\ d[j] = c[j]
    BY ONLY <2>4, <2>5
  <2>11. ASSUME NEW j \in DOMAIN d, NEW m \in DOMAIN d, d[j][1] = d[m][1] /\ d[j][1] \notin StoreKeys PROVE j = m
    BY ONLY <2>1, <2>7, <2>8, <2>10, <2>11
  <2>12. Tidy(d)
    BY ONLY <2>5, <2>9, <2>11 DEF Tidy
  <2> QED
    BY <1>2, <2>12 DEF PushedOnto, d, v
<1> QED
  BY <1>1, <1>2

LEMMA FiledTidy ==
  ASSUME NEW c, Tidy(c), NEW r, NEW i, NEW n, WellRead(r, i, n)
  PROVE Tidy(FiledOnto(c, r))
<1>1. /\ r.key \in AllKeys /\ r.values \in SUBSET FacetValues /\ r.also \in SUBSET FacetValues
      /\ r.also \in SUBSET Int /\ "before" \in AllKeys
      /\ r.key \in {"before", "after"} => r.values \in SUBSET Int
  BY DEF WellRead, Readings, FacetValues, AllKeys, RecallKeys
<1> DEFINE d == PushedOnto(c, r.key, r.values)
<1>2. Tidy(d)
  BY ONLY <1>1, Tidy(c), PushedTidy
<1> HIDE DEF d
<1>3. Tidy(PushedOnto(d, "before", r.also))
  BY ONLY <1>1, <1>2, PushedTidy
<1> QED
  BY ONLY <1>2, <1>3 DEF FiledOnto, d

LEMMA RunsAreTidy ==
  ASSUME NEW query \in Seq(AllTokens), NEW r, WellReads(r, Len(query)), NEW h, IsRun(h, query, r)
  PROVE \A i \in 0..Len(query) : Tidy(h[i].constraints)
<1> DEFINE n == Len(query)
           T == {i \in 0..n : Tidy(h[i].constraints)}
<1>1. n \in Nat
  OBVIOUS
<1>2. 0 \in T
  <2>1. h[0].constraints = <<>>
    BY DEF IsRun, Unread
  <2>2. Tidy(<<>>)
    BY DEF Tidy
  <2> QED
    BY <1>1, <2>1, <2>2
<1>3. ASSUME NEW i \in 1..n, i - 1 \in T PROVE i \in T
  <2>1. Stepped(h, query, r, i)
    BY RunSteps
  <2>2. WellRead(r[i], i, n)
    BY DEF WellReads
  <2>3. Tidy(h[i - 1].constraints)
    BY <1>3
  <2>4. Tidy(FiledOnto(h[i - 1].constraints, r[i]))
    BY ONLY <2>2, <2>3, FiledTidy
  <2>5. \/ h[i].constraints = h[i - 1].constraints
        \/ h[i].constraints = FiledOnto(h[i - 1].constraints, r[i])
    BY ONLY <2>1 DEF Stepped
  <2>6. Tidy(h[i].constraints)
    BY ONLY <2>3, <2>4, <2>5
  <2> QED
    BY <2>6
<1> HIDE DEF T, n
<1>4. \A i \in 0..n : i \in T
  BY ONLY <1>1, <1>2, <1>3, UpToAll
<1> QED
  BY <1>4 DEF T, n

\* Instants that the bounds of a parse allow.
WindowOf(p) == {p.constraints[i][2] : i \in ConstraintsOn(p, "before") \cup ConstraintsOn(p, "after")}
Allows(p, at) ==
    \A i \in DOMAIN p.constraints :
        /\ p.constraints[i][1] = "before" => at < p.constraints[i][2]
        /\ p.constraints[i][1] = "after" => at >= p.constraints[i][2]

LEMMA WindowIsOpen ==
  ASSUME NEW p \in ParseStates, Tidy(p.constraints), ~WindowIsEmpty(p)
  PROVE \E at \in {0} \cup WindowOf(p) \cup {bound - 1 : bound \in WindowOf(p)} : Allows(p, at)
<1> DEFINE c == p.constraints
<1>0. "before" \notin StoreKeys /\ "after" \notin StoreKeys
  BY DEF StoreKeys
<1>1. /\ \A j \in DOMAIN c : c[j][1] \in {"before", "after"} => c[j][2] \in Int
      /\ \A j \in DOMAIN c : \A m \in DOMAIN c : c[j][1] = c[m][1] /\ c[j][1] \notin StoreKeys => j = m
  BY DEF Tidy
<1>2. \A i \in DOMAIN c : \A j \in DOMAIN c : c[i][1] = "before" /\ c[j][1] = "after" => ~(c[i][2] <= c[j][2])
  BY DEF WindowIsEmpty, ConstraintsOn
<1>3. CASE \E j \in DOMAIN c : c[j][1] = "after"
  <2>1. PICK j \in DOMAIN c : c[j][1] = "after"
    BY <1>3
  <2>2. c[j][2] \in WindowOf(p)
    BY <2>1 DEF WindowOf, ConstraintsOn
  <2>3. \A i \in DOMAIN c : c[i][1] = "after" => i = j
    BY ONLY <1>0, <1>1, <2>1
  <2>4. Allows(p, c[j][2])
    BY ONLY <1>1, <1>2, <2>1, <2>3 DEF Allows, c
  <2> QED
    BY <2>2, <2>4
<1>4. CASE ~(\E j \in DOMAIN c : c[j][1] = "after") /\ \E j \in DOMAIN c : c[j][1] = "before"
  <2>1. PICK j \in DOMAIN c : c[j][1] = "before"
    BY <1>4
  <2>2. c[j][2] - 1 \in {bound - 1 : bound \in WindowOf(p)}
    BY <2>1 DEF WindowOf, ConstraintsOn
  <2>3. \A i \in DOMAIN c : c[i][1] = "before" => i = j
    BY ONLY <1>0, <1>1, <2>1
  <2>4. Allows(p, c[j][2] - 1)
    BY ONLY <1>1, <1>4, <2>1, <2>3 DEF Allows, c
  <2> QED
    BY <2>2, <2>4
<1>5. CASE ~(\E j \in DOMAIN c : c[j][1] = "after") /\ ~(\E j \in DOMAIN c : c[j][1] = "before")
  BY <1>5 DEF Allows
<1> QED
  BY ONLY <1>3, <1>4, <1>5

LEMMA OpenIs == typed \in Seq(Tokens) => WindowsAreOpen
<1> SUFFICES ASSUME typed \in Seq(Tokens) PROVE WindowsAreOpen
  OBVIOUS
<1> DEFINE n == Len(typed)
<1>1. typed \in Seq(AllTokens) /\ n \in Nat /\ n \in 0..n
  BY TypedIs
<1>2. PICK h : IsRun(h, typed, UnifiedReadings(typed)) /\ ParseQuery(typed) = Checked(h[n])
  BY <1>1, UnifiedRuns
<1>3. PICK k : IsRun(k, typed, NaturalReadings(typed)) /\ ParseNatural(typed) = Checked(k[n])
  BY <1>1, NaturalRuns
<1>4. WellReads(UnifiedReadings(typed), n) /\ WellReads(NaturalReadings(typed), n)
  BY <1>1, WellReadings DEF WellReads
<1>5. h[n] \in ParseStates /\ k[n] \in ParseStates
  BY ONLY <1>1, <1>2, <1>3, ParsesAre DEF n
<1>6. Tidy(h[n].constraints) /\ Tidy(k[n].constraints)
  BY ONLY <1>1, <1>2, <1>3, <1>4, RunsAreTidy DEF n
<1>7. ASSUME NEW q \in ParseStates, Tidy(q.constraints), ~Checked(q).bad
      PROVE \E at \in {0} \cup WindowOf(Checked(q)) \cup {bound - 1 : bound \in WindowOf(Checked(q))} : Allows(Checked(q), at)
  <2>1. Checked(q) \in ParseStates /\ Checked(q).constraints = q.constraints /\ ~WindowIsEmpty(q)
    BY ONLY q \in ParseStates, <1>7, CheckedIs
  <2>2. Tidy(Checked(q).constraints)
    BY ONLY <1>7, <2>1
  <2>3. ~WindowIsEmpty(Checked(q))
    BY ONLY <2>1 DEF WindowIsEmpty, ConstraintsOn
  <2> QED
    BY ONLY <2>1, <2>2, <2>3, WindowIsOpen
<1>8. \A p \in {Natural, Unified} : ~p.bad =>
        \E at \in {0} \cup WindowOf(p) \cup {bound - 1 : bound \in WindowOf(p)} : Allows(p, at)
  BY ONLY <1>2, <1>3, <1>5, <1>6, <1>7 DEF Natural, Unified
<1> QED
  BY ONLY Zenon, <1>8 DEF WindowsAreOpen, WindowOf, Allows

-----------------------------------------------------------------------------
(* OrderIsFree: constraints that changed places *)

OtherOf(a, j) == IF j = a THEN a + 1 ELSE IF j = a + 1 THEN a ELSE j
IsSwapped(c, d, a) ==
    /\ c \in Seq(AllKeys \X FacetValues) /\ d \in Seq(AllKeys \X FacetValues) /\ Len(c) = Len(d)
    /\ a \in 1..Len(c) - 1
    /\ \A j \in 1..Len(c) : d[j] = c[OtherOf(a, j)]

LEMMA OtherIs ==
  ASSUME NEW n \in Nat, NEW a \in 1..n - 1
  PROVE \A j \in 1..n : OtherOf(a, j) \in 1..n /\ OtherOf(a, OtherOf(a, j)) = j
BY DEF OtherOf

LEMMA SwappedBack ==
  ASSUME NEW c, NEW d, NEW a, IsSwapped(c, d, a)
  PROVE IsSwapped(d, c, a)
<1>1. /\ c \in Seq(AllKeys \X FacetValues) /\ d \in Seq(AllKeys \X FacetValues) /\ Len(c) = Len(d)
      /\ a \in 1..Len(c) - 1 /\ Len(c) \in Nat
      /\ \A j \in 1..Len(c) : d[j] = c[OtherOf(a, j)]
  BY DEF IsSwapped
<1>2. \A j \in 1..Len(c) : OtherOf(a, j) \in 1..Len(c) /\ OtherOf(a, OtherOf(a, j)) = j
  BY ONLY <1>1, OtherIs
<1>3. \A j \in 1..Len(c) : c[j] = d[OtherOf(a, j)]
  BY ONLY <1>1, <1>2
<1> QED
  BY ONLY <1>1, <1>3 DEF IsSwapped

LEMMA SwappedHas ==
  ASSUME NEW c, NEW d, NEW a, IsSwapped(c, d, a)
  PROVE \A j \in DOMAIN c : \E m \in DOMAIN d : c[j] = d[m]
<1>1. /\ DOMAIN c = 1..Len(c) /\ DOMAIN d = 1..Len(c) /\ Len(c) \in Nat /\ a \in 1..Len(c) - 1
  BY DEF IsSwapped
<1>2. \A j \in 1..Len(c) : OtherOf(a, j) \in 1..Len(c)
  BY ONLY <1>1, OtherIs
<1>3. \A j \in 1..Len(c) : c[j] = d[OtherOf(a, j)]
  <2>1. IsSwapped(d, c, a)
    BY SwappedBack
  <2>2. Len(d) = Len(c)
    BY DEF IsSwapped
  <2> QED
    BY ONLY <2>1, <2>2 DEF IsSwapped
<1> QED
  BY ONLY <1>1, <1>2, <1>3

LEMMA SwappedAppend ==
  ASSUME NEW c, NEW d, NEW a, IsSwapped(c, d, a), NEW x \in AllKeys \X FacetValues
  PROVE IsSwapped(Append(c, x), Append(d, x), a)
<1> DEFINE e == Append(c, x) f == Append(d, x)
<1>1. /\ c \in Seq(AllKeys \X FacetValues) /\ d \in Seq(AllKeys \X FacetValues) /\ Len(c) = Len(d)
      /\ a \in 1..Len(c) - 1 /\ Len(c) \in Nat
      /\ \A j \in 1..Len(c) : d[j] = c[OtherOf(a, j)]
  BY DEF IsSwapped
<1>2. \A j \in 1..Len(c) : OtherOf(a, j) \in 1..Len(c)
  BY ONLY <1>1, OtherIs
<1> DEFINE Constraints == AllKeys \X FacetValues
<1>30. c \in Seq(Constraints) /\ d \in Seq(Constraints) /\ x \in Constraints
  BY <1>1
<1> HIDE DEF Constraints
<1>3. /\ e \in Seq(Constraints) /\ Len(e) = Len(c) + 1 /\ e[Len(c) + 1] = x
      /\ \A j \in 1..Len(c) : e[j] = c[j]
  BY ONLY <1>30
<1>4. /\ f \in Seq(Constraints) /\ Len(f) = Len(d) + 1 /\ f[Len(d) + 1] = x
      /\ \A j \in 1..Len(d) : f[j] = d[j]
  BY ONLY <1>30
<1> HIDE DEF e, f
<1>5. OtherOf(a, Len(c) + 1) = Len(c) + 1
  BY ONLY <1>1 DEF OtherOf
<1>6. \A j \in 1..Len(e) : f[j] = e[OtherOf(a, j)]
  <2> TAKE j \in 1..Len(e)
  <2>1. CASE j = Len(c) + 1
    <3>1. Len(c) = Len(d) /\ f[j] = x /\ OtherOf(a, j) = j /\ e[j] = x
      <4>1. Len(c) = Len(d)
        BY ONLY <1>1
      <4> QED
        BY ONLY <1>3, <1>4, <1>5, <2>1, <4>1
    <3> QED
      BY ONLY <3>1
  <2>2. CASE j # Len(c) + 1
    <3>1. j \in 1..Len(c)
      <4>1. Len(c) \in Nat /\ Len(e) = Len(c) + 1
        BY ONLY <1>1, <1>3
      <4> QED
        BY ONLY <4>1, <2>2, j \in 1..Len(e)
    <3> QED
      BY ONLY <1>1, <1>2, <1>3, <1>4, <3>1
  <2> QED
    BY ONLY <2>1, <2>2
<1>7. Len(e) = Len(f) /\ a \in 1..Len(e) - 1
  BY ONLY <1>1, <1>3, <1>4
<1>8. IsSwapped(e, f, a)
  BY ONLY <1>3, <1>4, <1>6, <1>7 DEF IsSwapped, Constraints
<1> QED
  BY ONLY <1>8 DEF e, f

LEMMA SwappedRefuses ==
  ASSUME NEW c, NEW d, NEW a, IsSwapped(c, d, a), NEW field, NEW values
  PROVE RefusedAfter(c, field, values) <=> RefusedAfter(d, field, values)
<1>1. \A j \in DOMAIN c : \E m \in DOMAIN d : c[j] = d[m]
  BY SwappedHas
<1>2. IsSwapped(d, c, a)
  BY SwappedBack
<1>3. \A j \in DOMAIN d : \E m \in DOMAIN c : d[j] = c[m]
  BY ONLY <1>2, SwappedHas
<1> QED
  BY ONLY <1>1, <1>3 DEF RefusedAfter

LEMMA SwappedPushed ==
  ASSUME NEW c, NEW d, NEW a, IsSwapped(c, d, a), NEW field \in AllKeys, NEW values \in SUBSET FacetValues
  PROVE IsSwapped(PushedOnto(c, field, values), PushedOnto(d, field, values), a)
<1>1. RefusedAfter(c, field, values) <=> RefusedAfter(d, field, values)
  BY SwappedRefuses
<1>2. CASE RefusedAfter(c, field, values)
  BY <1>1, <1>2 DEF PushedOnto
<1>3. CASE ~RefusedAfter(c, field, values)
  <2>1. values # {}
    BY <1>3 DEF RefusedAfter
  <2>2. <<field, AnyOf(values)>> \in AllKeys \X FacetValues
    BY <2>1 DEF AnyOf
  <2>3. IsSwapped(Append(c, <<field, AnyOf(values)>>), Append(d, <<field, AnyOf(values)>>), a)
    BY ONLY <2>2, IsSwapped(c, d, a), SwappedAppend
  <2> QED
    BY ONLY <1>1, <1>3, <2>3 DEF PushedOnto
<1> QED
  BY ONLY <1>2, <1>3

LEMMA SwappedFiled ==
  ASSUME NEW c, NEW d, NEW a, IsSwapped(c, d, a), NEW r, NEW i, NEW n, WellRead(r, i, n)
  PROVE /\ FiledBadly(c, r) <=> FiledBadly(d, r)
        /\ IsSwapped(FiledOnto(c, r), FiledOnto(d, r), a)
<1>1. r.key \in AllKeys /\ r.values \in SUBSET FacetValues /\ r.also \in SUBSET FacetValues /\ "before" \in AllKeys
  BY DEF WellRead, Readings, FacetValues, AllKeys, RecallKeys
<1> DEFINE e == PushedOnto(c, r.key, r.values) f == PushedOnto(d, r.key, r.values)
<1>2. IsSwapped(e, f, a)
  BY ONLY <1>1, IsSwapped(c, d, a), SwappedPushed
<1>3. RefusedAfter(c, r.key, r.values) <=> RefusedAfter(d, r.key, r.values)
  BY ONLY IsSwapped(c, d, a), SwappedRefuses
<1> HIDE DEF e, f
<1>4. RefusedAfter(e, "before", r.also) <=> RefusedAfter(f, "before", r.also)
  BY ONLY <1>2, SwappedRefuses
<1>5. IsSwapped(PushedOnto(e, "before", r.also), PushedOnto(f, "before", r.also), a)
  BY ONLY <1>1, <1>2, SwappedPushed
<1>6. FiledBadly(c, r) <=> FiledBadly(d, r)
  BY ONLY <1>3, <1>4 DEF FiledBadly, e, f
<1>7. IsSwapped(FiledOnto(c, r), FiledOnto(d, r), a)
  BY ONLY <1>2, <1>5 DEF FiledOnto, e, f
<1> QED
  BY ONLY <1>6, <1>7

\* ParseStates that went on alike from where two constraints changed places.
SwappedIn(p, q, a) ==
    /\ p.bad <=> q.bad
    /\ ~p.bad => p.read = q.read /\ p.text = q.text /\ IsSwapped(p.constraints, q.constraints, a)

LEMMA SwappedStep ==
  ASSUME NEW p \in ParseStates, NEW q \in ParseStates, NEW a, SwappedIn(p, q, a),
         NEW r, NEW i, NEW n, WellRead(r, i, n), NEW token \in AllTokens
  PROVE SwappedIn(Taken(p, i, r, token), Taken(q, i, r, token), a)
<1> DEFINE b == Taken(p, i, r, token) d == Taken(q, i, r, token)
<1>1. /\ p.bad \/ p.read >= i => b = p
      /\ ~(p.bad \/ p.read >= i) /\ r.takes = 0 =>
             /\ ~b.bad /\ b.read = p.read + 1 /\ b.text = Append(p.text, token) /\ b.constraints = p.constraints
      /\ ~(p.bad \/ p.read >= i) /\ r.takes # 0 =>
             /\ b.bad <=> FiledBadly(p.constraints, r)
             /\ b.read = p.read + r.takes /\ b.text = p.text /\ b.constraints = FiledOnto(p.constraints, r)
  BY ONLY p \in ParseStates, token \in AllTokens, WellRead(r, i, n), StepFields DEF b
<1>2. /\ q.bad \/ q.read >= i => d = q
      /\ ~(q.bad \/ q.read >= i) /\ r.takes = 0 =>
             /\ ~d.bad /\ d.read = q.read + 1 /\ d.text = Append(q.text, token) /\ d.constraints = q.constraints
      /\ ~(q.bad \/ q.read >= i) /\ r.takes # 0 =>
             /\ d.bad <=> FiledBadly(q.constraints, r)
             /\ d.read = q.read + r.takes /\ d.text = q.text /\ d.constraints = FiledOnto(q.constraints, r)
  BY ONLY q \in ParseStates, token \in AllTokens, WellRead(r, i, n), StepFields DEF d
<1> HIDE DEF b, d
<1>3. ~p.bad => /\ FiledBadly(p.constraints, r) <=> FiledBadly(q.constraints, r)
                /\ IsSwapped(FiledOnto(p.constraints, r), FiledOnto(q.constraints, r), a)
  BY ONLY SwappedIn(p, q, a), WellRead(r, i, n), SwappedFiled DEF SwappedIn
<1>4. CASE p.bad \/ p.read >= i
  <2>1. b = p /\ d = q
    BY ONLY <1>1, <1>2, <1>4, SwappedIn(p, q, a) DEF SwappedIn
  <2> QED
    BY ONLY <2>1, SwappedIn(p, q, a) DEF b, d
<1>5. CASE ~(p.bad \/ p.read >= i) /\ r.takes = 0
  <2>1. SwappedIn(b, d, a)
    BY ONLY <1>1, <1>2, <1>5, SwappedIn(p, q, a) DEF SwappedIn
  <2> QED
    BY ONLY <2>1 DEF b, d
<1>6. CASE ~(p.bad \/ p.read >= i) /\ r.takes # 0
  <2>1. SwappedIn(b, d, a)
    BY ONLY <1>1, <1>2, <1>3, <1>6, SwappedIn(p, q, a) DEF SwappedIn
  <2> QED
    BY ONLY <2>1 DEF b, d
<1> QED
  BY ONLY <1>4, <1>5, <1>6

\* Two filters next to each other are refused together, or pushed in either order.
RefusedTwice(c, field, values, next, others) ==
    RefusedAfter(c, field, values) \/ RefusedAfter(PushedOnto(c, field, values), next, others)
PushedTwice(c, field, values, next, others) == PushedOnto(PushedOnto(c, field, values), next, others)

EitherIsRefused(c, field, values, next, others) ==
    \/ values = {} \/ others = {}
    \/ field \notin StoreKeys /\ \E j \in DOMAIN c : c[j][1] = field
    \/ next \notin StoreKeys /\ \E j \in DOMAIN c : c[j][1] = next
    \/ next \notin StoreKeys /\ field = next

LEMMA RefusedTwiceIs ==
  ASSUME NEW c \in Seq(AllKeys \X FacetValues), NEW field \in AllKeys, NEW values \in SUBSET FacetValues, NEW next, NEW others
  PROVE /\ RefusedTwice(c, field, values, next, others) <=> EitherIsRefused(c, field, values, next, others)
        /\ ~RefusedTwice(c, field, values, next, others) =>
             PushedTwice(c, field, values, next, others) = Append(Append(c, <<field, AnyOf(values)>>), <<next, AnyOf(others)>>)
<1> DEFINE v == AnyOf(values) d == Append(c, <<field, v>>)
<1>1. CASE RefusedAfter(c, field, values)
  BY <1>1 DEF RefusedTwice, RefusedAfter, EitherIsRefused
<1>2. CASE ~RefusedAfter(c, field, values)
  <2>1. values # {} /\ PushedOnto(c, field, values) = d
    BY <1>2 DEF RefusedAfter, PushedOnto
  <2>2. <<field, v>> \in AllKeys \X FacetValues
    BY <2>1 DEF AnyOf
  <2> DEFINE Constraints == AllKeys \X FacetValues
  <2>3. c \in Seq(Constraints) /\ <<field, v>> \in Constraints
    BY <2>2
  <2> HIDE DEF Constraints, v
  <2>4. /\ Len(c) \in Nat /\ DOMAIN c = 1..Len(c) /\ DOMAIN d = 1..Len(c) + 1 /\ d[Len(c) + 1] = <<field, v>>
        /\ \A j \in 1..Len(c) : d[j] = c[j]
    BY ONLY <2>3
  <2> HIDE DEF d
  <2>5. d[Len(c) + 1][1] = field
    BY ONLY <2>4
  <2>6. (\E j \in DOMAIN d : d[j][1] = next) <=> field = next \/ \E j \in DOMAIN c : c[j][1] = next
    <3>1. Len(c) + 1 \in DOMAIN d /\ \A j \in DOMAIN c : j \in DOMAIN d /\ d[j] = c[j]
      BY ONLY <2>4
    <3>2. \A j \in DOMAIN d : j = Len(c) + 1 \/ j \in DOMAIN c
      BY ONLY <2>4
    <3> QED
      BY ONLY <2>5, <3>1, <3>2
  <2>7. ~RefusedAfter(d, next, others) => PushedOnto(d, next, others) = Append(d, <<next, AnyOf(others)>>)
    BY ONLY DEF PushedOnto
  <2> QED
    BY ONLY <1>2, <2>1, <2>6, <2>7 DEF RefusedTwice, PushedTwice, RefusedAfter, EitherIsRefused, d, v
<1> QED
  BY ONLY <1>1, <1>2

LEMMA FiltersCommute ==
  ASSUME NEW c \in Seq(AllKeys \X FacetValues), NEW field \in AllKeys, NEW values \in SUBSET FacetValues,
         NEW next \in AllKeys, NEW others \in SUBSET FacetValues
  PROVE /\ RefusedTwice(c, field, values, next, others) <=> RefusedTwice(c, next, others, field, values)
        /\ ~RefusedTwice(c, field, values, next, others) =>
             IsSwapped(PushedTwice(c, field, values, next, others), PushedTwice(c, next, others, field, values), Len(c) + 1)
<1>1. RefusedTwice(c, field, values, next, others) <=> RefusedTwice(c, next, others, field, values)
  <2>1. RefusedTwice(c, field, values, next, others) <=> EitherIsRefused(c, field, values, next, others)
    BY RefusedTwiceIs
  <2>2. RefusedTwice(c, next, others, field, values) <=> EitherIsRefused(c, next, others, field, values)
    BY RefusedTwiceIs
  <2> QED
    BY ONLY <2>1, <2>2 DEF EitherIsRefused
<1>2. ASSUME ~RefusedTwice(c, field, values, next, others)
      PROVE IsSwapped(PushedTwice(c, field, values, next, others), PushedTwice(c, next, others, field, values), Len(c) + 1)
  <2> DEFINE x == <<field, AnyOf(values)>> y == <<next, AnyOf(others)>> Constraints == AllKeys \X FacetValues
  <2>1. values # {} /\ others # {}
    BY <1>2, RefusedTwiceIs DEF EitherIsRefused
  <2>2. c \in Seq(Constraints) /\ x \in Constraints /\ y \in Constraints
    BY <2>1 DEF AnyOf
  <2> DEFINE e == Append(Append(c, x), y) f == Append(Append(c, y), x)
  <2>3. PushedTwice(c, field, values, next, others) = e /\ PushedTwice(c, next, others, field, values) = f
    BY <1>1, <1>2, RefusedTwiceIs
  <2> HIDE DEF x, y, Constraints
  <2>4. Len(c) \in Nat
    BY ONLY <2>2
  <2>5. /\ e \in Seq(Constraints) /\ Len(e) = Len(c) + 2 /\ e[Len(c) + 1] = x /\ e[Len(c) + 2] = y
        /\ \A j \in 1..Len(c) : e[j] = c[j]
    BY ONLY <2>2
  <2>6. /\ f \in Seq(Constraints) /\ Len(f) = Len(c) + 2 /\ f[Len(c) + 1] = y /\ f[Len(c) + 2] = x
        /\ \A j \in 1..Len(c) : f[j] = c[j]
    BY ONLY <2>2
  <2> HIDE DEF e, f
  <2> DEFINE a == Len(c) + 1
  <2>7. OtherOf(a, a) = a + 1 /\ OtherOf(a, a + 1) = a /\ \A j \in 1..Len(c) : OtherOf(a, j) = j
    BY ONLY <2>4 DEF OtherOf
  <2>8. ASSUME NEW j \in 1..Len(e) PROVE f[j] = e[OtherOf(a, j)]
    <3>1. j \in 1..Len(c) \/ j = a \/ j = a + 1
      BY ONLY <2>4, <2>5, <2>8
    <3>2. a + 1 = Len(c) + 2
      BY ONLY <2>4
    <3> QED
      BY ONLY <2>5, <2>6, <2>7, <3>1, <3>2
  <2>9. a \in 1..Len(e) - 1 /\ Len(e) = Len(f)
    BY ONLY <2>4, <2>5, <2>6
  <2>10. IsSwapped(e, f, a)
    BY ONLY <2>5, <2>6, <2>8, <2>9 DEF IsSwapped, Constraints
  <2> QED
    BY ONLY <2>3, <2>10
<1> QED
  BY ONLY <1>1, <1>2

\* What is pinned does not know the order of constraints.
LEMMA SwappedCounts ==
  ASSUME NEW c, NEW d, NEW a, IsSwapped(c, d, a)
  PROVE /\ ToSet(c) = ToSet(d)
        /\ \A x : Cardinality({j \in DOMAIN c : c[j] = x}) = Cardinality({j \in DOMAIN d : d[j] = x})
<1>1. /\ DOMAIN c = 1..Len(c) /\ DOMAIN d = 1..Len(c) /\ Len(c) \in Nat /\ a \in 1..Len(c) - 1
      /\ \A j \in 1..Len(c) : d[j] = c[OtherOf(a, j)]
  BY DEF IsSwapped
<1>2. \A j \in 1..Len(c) : OtherOf(a, j) \in 1..Len(c) /\ OtherOf(a, OtherOf(a, j)) = j
  BY ONLY <1>1, OtherIs
<1>3. \A j \in 1..Len(c) : c[j] = d[OtherOf(a, j)]
  BY ONLY <1>1, <1>2
<1>4. ToSet(c) = ToSet(d)
  BY ONLY <1>1, <1>2, <1>3 DEF ToSet
<1>5. ASSUME NEW x PROVE Cardinality({j \in DOMAIN c : c[j] = x}) = Cardinality({j \in DOMAIN d : d[j] = x})
  <2> DEFINE S == {j \in DOMAIN c : c[j] = x} U == {j \in DOMAIN d : d[j] = x}
             f == [j \in S |-> OtherOf(a, j)]
  <2>1. \A j \in S : OtherOf(a, j) \in U /\ OtherOf(a, OtherOf(a, j)) = j
    BY ONLY <1>1, <1>2, <1>3
  <2>2. \A j \in U : OtherOf(a, j) \in S /\ OtherOf(a, OtherOf(a, j)) = j
    BY ONLY <1>1, <1>2, <1>3
  <2>3. IsFiniteSet(S)
    <3>1. S \in SUBSET (1..Len(c)) /\ IsFiniteSet(1..Len(c))
      BY <1>1, FS_Interval
    <3> QED
      BY ONLY <3>1, FS_Subset
  <2> HIDE DEF S, U
  <2>4. f \in Bijection(S, U)
    BY ONLY <2>1, <2>2 DEF Bijection, Injection, IsInjective, Surjection
  <2>5. ExistsBijection(S, U)
    BY ONLY <2>4 DEF ExistsBijection
  <2>6. Cardinality(U) = Cardinality(S)
    BY ONLY <2>3, <2>5, FS_Bijection
  <2> QED
    BY ONLY <2>6 DEF S, U
<1> QED
  BY ONLY <1>4, <1>5

LEMMA SwappedChecked ==
  ASSUME NEW p \in ParseStates, NEW q \in ParseStates, NEW a, SwappedIn(p, q, a)
  PROVE /\ Checked(p).bad = Checked(q).bad
        /\ ~Checked(q).bad => Fingerprint(Checked(p)) = Fingerprint(Checked(q))
<1>1. /\ Checked(p) \in ParseStates /\ Checked(q) \in ParseStates
      /\ Checked(p).bad <=> p.bad \/ WindowIsEmpty(p)
      /\ Checked(q).bad <=> q.bad \/ WindowIsEmpty(q)
      /\ Checked(p).text = p.text /\ Checked(p).constraints = p.constraints
      /\ Checked(q).text = q.text /\ Checked(q).constraints = q.constraints
  BY CheckedIs
<1>2. Checked(p).bad \in BOOLEAN /\ Checked(q).bad \in BOOLEAN
  BY <1>1 DEF ParseStates
<1>3. CASE p.bad
  <2>1. q.bad
    BY <1>3 DEF SwappedIn
  <2> QED
    BY ONLY <1>1, <1>2, <1>3, <2>1
<1>4. CASE ~p.bad
  <2>1. ~q.bad /\ p.text = q.text /\ IsSwapped(p.constraints, q.constraints, a)
    BY <1>4 DEF SwappedIn
  <2>2. \A j \in DOMAIN p.constraints : \E m \in DOMAIN q.constraints : p.constraints[j] = q.constraints[m]
    BY ONLY <2>1, SwappedHas
  <2>3. \A j \in DOMAIN q.constraints : \E m \in DOMAIN p.constraints : q.constraints[j] = p.constraints[m]
    <3>1. IsSwapped(q.constraints, p.constraints, a)
      BY ONLY <2>1, SwappedBack
    <3> QED
      BY ONLY <3>1, SwappedHas
  <2>4. WindowIsEmpty(p) <=> WindowIsEmpty(q)
    BY ONLY <2>2, <2>3 DEF WindowIsEmpty, ConstraintsOn
  <2>5. Checked(p).bad = Checked(q).bad
    BY ONLY <1>1, <1>2, <1>4, <2>1, <2>4
  <2>6. /\ ToSet(p.constraints) = ToSet(q.constraints)
        /\ \A x : Cardinality({j \in DOMAIN p.constraints : p.constraints[j] = x})
                  = Cardinality({j \in DOMAIN q.constraints : q.constraints[j] = x})
    BY ONLY <2>1, SwappedCounts
  <2>7. Fingerprint(Checked(p)) = Fingerprint(Checked(q))
    <3> DEFINE cp == p.constraints cq == q.constraints
               S == ToSet(cp)
               F == [x \in S |-> Cardinality({j \in DOMAIN cp : cp[j] = x})]
               G == [x \in S |-> Cardinality({j \in DOMAIN cq : cq[j] = x})]
    <3>1. F = G
      <4> HIDE DEF S
      <4> QED
        BY ONLY <2>6
    <3>2. Fingerprint(Checked(p)) = <<p.text, F>>
      BY ONLY Zenon, <1>1 DEF Fingerprint
    <3>3. Fingerprint(Checked(q)) = <<p.text, G>>
      BY ONLY Zenon, <1>1, <2>1, <2>6 DEF Fingerprint
    <3> HIDE DEF F, G
    <3> QED
      BY ONLY <3>1, <3>2, <3>3
  <2> QED
    BY ONLY <2>5, <2>7
<1> QED
  BY ONLY <1>3, <1>4

\* Readings that do not depend on what comes behind.
LEMMA FacetReading ==
  ASSUME NEW query, NEW i, IsFacet(query[i])
  PROVE UnifiedReading(query, i) = ReadAs(1, FacetKey(query[i]), ParseFacetValue(FacetKey(query[i]), query[i].value), {})
BY UnifiedReadingIs DEF UnifiedCases

LEMMA WordReading ==
  ASSUME NEW query, NEW i, ~IsFacet(query[i]), ~IsSugar(query[i])
  PROVE UnifiedReading(query, i) = LeftAlone
<1> DEFINE word == Word(NormalizeLookup(Whole(query[i])))
<1>1. /\ word # "from" /\ word # "last" /\ word # "today" /\ word # "yesterday" /\ word # "before"
      /\ word \notin DOMAIN KindSynonyms
  BY DEF IsSugar
<1>2. UnifiedCases(UnifiedReading(query, i), IsFacet(query[i]), FacetKey(query[i]), query[i].value,
                   word, i < Len(query), TextBehind(query, i), Word(NormalizeLookup(TextBehind(query, i))))
  BY UnifiedReadingIs
<1> HIDE DEF word
<1> QED
  BY ONLY <1>1, <1>2, ~IsFacet(query[i]) DEF UnifiedCases

LEMMA SameReading ==
  ASSUME NEW query, NEW other, NEW i, query[i] = other[i], TextBehind(query, i) = TextBehind(other, i),
         Len(query) = Len(other)
  PROVE UnifiedReading(query, i) = UnifiedReading(other, i)
<1>1. UnifiedCases(UnifiedReading(query, i), IsFacet(query[i]), FacetKey(query[i]), query[i].value,
                   Word(NormalizeLookup(Whole(query[i]))), i < Len(query), TextBehind(query, i),
                   Word(NormalizeLookup(TextBehind(query, i))))
  BY UnifiedReadingIs
<1>2. UnifiedCases(UnifiedReading(other, i), IsFacet(other[i]), FacetKey(other[i]), other[i].value,
                   Word(NormalizeLookup(Whole(other[i]))), i < Len(other), TextBehind(other, i),
                   Word(NormalizeLookup(TextBehind(other, i))))
  BY UnifiedReadingIs
<1> QED
  BY ONLY <1>1, <1>2, query[i] = other[i], TextBehind(query, i) = TextBehind(other, i), Len(query) = Len(other) DEF UnifiedCases

\* The query with the tokens at i and behind it exchanged.
Exchanged(query, other, i) ==
    /\ Len(other) = Len(query) /\ other[i] = query[i + 1] /\ other[i + 1] = query[i]
    /\ \A j \in 1..Len(query) : j # i /\ j # i + 1 => other[j] = query[j]
    /\ IsFacet(query[i]) /\ IsFacet(query[i + 1])
    /\ i > 1 => ~IsSugar(query[i - 1])

LEMMA ExchangedReadings ==
  ASSUME NEW query \in Seq(AllTokens), NEW other \in Seq(AllTokens), NEW i \in 1..Len(query) - 1, Exchanged(query, other, i)
  PROVE /\ \A j \in 1..Len(query) : j # i /\ j # i + 1 => UnifiedReading(other, j) = UnifiedReading(query, j)
        /\ UnifiedReading(other, i) = UnifiedReading(query, i + 1)
        /\ UnifiedReading(other, i + 1) = UnifiedReading(query, i)
        /\ i > 1 => UnifiedReading(query, i - 1).takes # 2
<1> DEFINE n == Len(query)
<1>1. /\ n \in Nat /\ Len(other) = n /\ other[i] = query[i + 1] /\ other[i + 1] = query[i]
      /\ \A j \in 1..n : j # i /\ j # i + 1 => other[j] = query[j]
      /\ IsFacet(query[i]) /\ IsFacet(query[i + 1])
      /\ i > 1 => ~IsSugar(query[i - 1])
  BY DEF Exchanged
<1> HIDE DEF n
<1>2. UnifiedReading(other, i) = UnifiedReading(query, i + 1) /\ UnifiedReading(other, i + 1) = UnifiedReading(query, i)
  BY ONLY <1>1, FacetReading
<1>3. i > 1 => UnifiedReading(other, i - 1) = UnifiedReading(query, i - 1) /\ UnifiedReading(query, i - 1).takes # 2
  <2> SUFFICES ASSUME i > 1 PROVE UnifiedReading(other, i - 1) = UnifiedReading(query, i - 1) /\ UnifiedReading(query, i - 1).takes # 2
    OBVIOUS
  <2>1. i - 1 \in 1..n /\ i - 1 # i /\ i - 1 # i + 1
    BY <1>1 DEF n
  <2>2. other[i - 1] = query[i - 1] /\ ~IsSugar(query[i - 1])
    BY <1>1, <2>1
  <2>3. CASE IsFacet(query[i - 1])
    <3>1. UnifiedReading(other, i - 1) = UnifiedReading(query, i - 1)
      BY ONLY <2>2, <2>3, FacetReading
    <3>2. UnifiedReading(query, i - 1).takes = 1
      BY ONLY <2>3, FacetReading, ReadAsIs
    <3> QED
      BY ONLY <3>1, <3>2
  <2>4. CASE ~IsFacet(query[i - 1])
    <3>1. UnifiedReading(other, i - 1) = LeftAlone /\ UnifiedReading(query, i - 1) = LeftAlone
      BY ONLY <2>2, <2>4, WordReading
    <3>2. LeftAlone.takes = 0
      BY ReadAsIs DEF LeftAlone
    <3> QED
      BY ONLY <3>1, <3>2
  <2> QED
    BY ONLY <2>3, <2>4
<1>4. ASSUME NEW j \in 1..n, j # i - 1, j # i, j # i + 1 PROVE UnifiedReading(other, j) = UnifiedReading(query, j)
  <2>1. other[j] = query[j]
    BY <1>1, <1>4
  <2>2. TextBehind(other, j) = TextBehind(query, j)
    <3>1. CASE j < n
      <4>1. j + 1 \in 1..n /\ j + 1 # i /\ j + 1 # i + 1
        BY <1>1, <1>4, <3>1
      <4>2. other[j + 1] = query[j + 1]
        BY <1>1, <4>1
      <4> QED
        BY ONLY <1>1, <3>1, <4>2 DEF TextBehind, n
    <3>2. CASE ~(j < n)
      BY ONLY <1>1, <3>2 DEF TextBehind, n
    <3> QED
      BY ONLY <3>1, <3>2
  <2> QED
    BY ONLY <1>1, <2>1, <2>2, SameReading DEF n
<1>5. \A j \in 1..n : j # i /\ j # i + 1 => UnifiedReading(other, j) = UnifiedReading(query, j)
  <2> TAKE j \in 1..n
  <2>1. CASE j = i - 1
    <3>1. i > 1
      BY <2>1
    <3> QED
      BY ONLY <1>3, <2>1, <3>1
  <2>2. CASE j # i - 1
    BY ONLY <1>4, <2>2, j \in 1..n
  <2> QED
    BY ONLY <2>1, <2>2
<1> QED
  BY ONLY <1>2, <1>3, <1>5 DEF n

\* A run reads tokens that nothing took before them.
LEMMA ReadFromHere ==
  ASSUME NEW query \in Seq(AllTokens), NEW r, WellReads(r, Len(query)), NEW h, IsRun(h, query, r),
         NEW i \in 1..Len(query), i > 1 => r[i - 1].takes # 2, ~h[i - 1].bad
  PROVE h[i - 1].read = i - 1
<1> DEFINE n == Len(query)
<1>1. CASE i = 1
  BY <1>1 DEF IsRun, Unread
<1>2. CASE i > 1
  <2>1. i - 1 \in 1..n /\ i - 2 \in 0..n /\ (i - 1) - 1 = i - 2
    BY <1>2
  <2>2. Stepped(h, query, r, i - 1)
    BY ONLY <2>1, query \in Seq(AllTokens), WellReads(r, Len(query)), IsRun(h, query, r), RunSteps DEF n
  <2>3. WellRead(r[i - 1], i - 1, n)
    BY <2>1 DEF WellReads
  <2>4. r[i - 1].takes \in 0..1
    BY <1>2, <2>3 DEF WellRead, Readings
  <2>5. ~h[i - 2].bad
    BY ONLY <2>1, <2>2, ~h[i - 1].bad DEF Stepped
  <2>6. h[i - 2].read \in Nat /\ i - 2 <= h[i - 2].read /\ h[i - 2].read <= (i - 2) + 1
    BY ONLY <2>1, <2>5, query \in Seq(AllTokens), WellReads(r, Len(query)), IsRun(h, query, r), RunKeepsUp DEF n
  <2> DEFINE a == h[i - 2].read b == h[i - 1].read takes == r[i - 1].takes
  <2>7. \/ a >= i - 1 /\ b = a
        \/ ~(a >= i - 1) /\ takes = 0 /\ b = a + 1
        \/ ~(a >= i - 1) /\ takes # 0 /\ b = a + takes
    BY ONLY <2>1, <2>2, <2>5 DEF Stepped
  <2> HIDE DEF a, b, takes
  <2>8. a \in Nat /\ i - 2 <= a /\ a <= (i - 2) + 1 /\ takes \in 0..1 /\ i \in Nat
    BY <2>4, <2>6 DEF a, takes
  <2>9. b = i - 1
    BY ONLY <2>7, <2>8
  <2> QED
    BY ONLY <2>9 DEF b
<1> QED
  BY ONLY <1>1, <1>2, i \in 1..Len(query)

LEMMA ExchangedRuns ==
  ASSUME NEW query \in Seq(AllTokens), NEW other \in Seq(AllTokens), NEW i \in 1..Len(query) - 1, Exchanged(query, other, i),
         NEW h, NEW k, IsRun(h, query, UnifiedReadings(query)), IsRun(k, other, UnifiedReadings(other))
  PROVE \E a : SwappedIn(h[Len(query)], k[Len(query)], a)
<1> DEFINE n == Len(query) r == UnifiedReadings(query) s == UnifiedReadings(other)
<1>1. n \in Nat /\ Len(other) = n /\ i \in 1..n /\ i + 1 \in 1..n /\ i - 1 \in 0..n /\ (i + 1) - 1 = i
  BY DEF Exchanged
<1>2. WellReads(r, n) /\ WellReads(s, n)
  BY <1>1, WellReadings DEF WellReads
<1>3. /\ \A j \in 1..n : r[j] = UnifiedReading(query, j) /\ s[j] = UnifiedReading(other, j)
      /\ \A j \in 1..n : j # i /\ j # i + 1 => s[j] = r[j] /\ other[j] = query[j]
      /\ s[i] = r[i + 1] /\ s[i + 1] = r[i] /\ (i > 1 => r[i - 1].takes # 2)
  <2>1. \A j \in 1..n : r[j] = UnifiedReading(query, j) /\ s[j] = UnifiedReading(other, j)
    BY <1>1 DEF UnifiedReadings
  <2>2. /\ \A j \in 1..n : j # i /\ j # i + 1 => UnifiedReading(other, j) = UnifiedReading(query, j)
        /\ UnifiedReading(other, i) = UnifiedReading(query, i + 1)
        /\ UnifiedReading(other, i + 1) = UnifiedReading(query, i)
        /\ (i > 1 => UnifiedReading(query, i - 1).takes # 2)
    BY ExchangedReadings
  <2>3. \A j \in 1..n : j # i /\ j # i + 1 => other[j] = query[j]
    BY DEF Exchanged
  <2>4. i > 1 => i - 1 \in 1..n
    BY <1>1
  <2> HIDE DEF n, r, s
  <2> QED
    BY ONLY <1>1, <2>1, <2>2, <2>3, <2>4
<1>4. /\ h \in [0..n -> ParseStates] /\ k \in [0..n -> ParseStates] /\ h[0] = k[0]
      /\ \A j \in 1..n : h[j] = Taken(h[j - 1], j, r[j], query[j]) /\ k[j] = Taken(k[j - 1], j, s[j], other[j])
  BY <1>1 DEF IsRun
<1>5. h[i - 1] = k[i - 1]
  <2> DEFINE T == {j \in 0..n : j <= i - 1 => h[j] = k[j]}
  <2>1. 0 \in T
    BY <1>1, <1>4
  <2>2. ASSUME NEW j \in 1..n, j - 1 \in T PROVE j \in T
    <3> SUFFICES ASSUME j <= i - 1 PROVE h[j] = k[j]
      BY <1>1
    <3>1. h[j - 1] = k[j - 1]
      BY <2>2
    <3>2. j # i /\ j # i + 1
      BY <1>1
    <3>3. s[j] = r[j] /\ other[j] = query[j]
      BY ONLY <1>3, <3>2, j \in 1..n
    <3> QED
      BY ONLY <1>4, <3>1, <3>3, j \in 1..n
  <2> HIDE DEF T
  <2>3. i - 1 \in T
    BY ONLY <1>1, <2>1, <2>2, UpToAll
  <2> QED
    BY ONLY <1>1, <2>3 DEF T
<1>6. /\ Stepped(h, query, r, i) /\ Stepped(h, query, r, i + 1)
      /\ Stepped(k, other, s, i) /\ Stepped(k, other, s, i + 1)
  BY <1>1, <1>2, RunSteps
<1>7. ~h[i - 1].bad => h[i - 1].read = i - 1
  BY <1>1, <1>2, <1>3, ReadFromHere
<1> DEFINE K1 == FacetKey(query[i]) V1 == ParseFacetValue(K1, query[i].value)
           K2 == FacetKey(query[i + 1]) V2 == ParseFacetValue(K2, query[i + 1].value)
<1>8. r[i] = ReadAs(1, K1, V1, {}) /\ r[i + 1] = ReadAs(1, K2, V2, {})
  <2>1. UnifiedReading(query, i) = ReadAs(1, K1, V1, {}) /\ UnifiedReading(query, i + 1) = ReadAs(1, K2, V2, {})
    BY FacetReading DEF Exchanged
  <2> HIDE DEF K1, K2, V1, V2, r
  <2> QED
    BY ONLY <1>1, <1>3, <2>1
<1> HIDE DEF K1, K2, V1, V2, r, s
<1>9. /\ r[i].takes = 1 /\ r[i].key = K1 /\ r[i].values = V1 /\ r[i].also = {}
      /\ r[i + 1].takes = 1 /\ r[i + 1].key = K2 /\ r[i + 1].values = V2 /\ r[i + 1].also = {}
  BY ONLY <1>8, ReadAsIs
<1>10. /\ K1 \in AllKeys /\ V1 \in SUBSET FacetValues /\ K2 \in AllKeys /\ V2 \in SUBSET FacetValues
  BY <1>1, <1>2, <1>9 DEF WellReads, WellRead, Readings
<1> DEFINE p == h[i - 1] c == p.constraints a == Len(c) + 1
<1>11. p \in ParseStates /\ c \in Seq(AllKeys \X FacetValues)
  BY <1>1, <1>4 DEF ParseStates
<1>12. SwappedIn(h[i + 1], k[i + 1], a)
  <2>1. CASE p.bad
    <3>1. h[i] = p /\ k[i] = p
      BY ONLY <1>5, <1>6, <2>1 DEF Stepped, p
    <3>2. h[i + 1] = p /\ k[i + 1] = p
      BY ONLY <1>1, <1>6, <2>1, <3>1 DEF Stepped
    <3> QED
      BY ONLY <2>1, <3>2 DEF SwappedIn
  <2>2. CASE ~p.bad
    <3>0. p.read = i - 1 /\ k[i - 1] = p /\ i \in Nat
      BY <1>1, <1>5, <1>7, <2>2 DEF p
    <3>1. /\ h[i].bad <=> RefusedAfter(c, K1, V1)
          /\ h[i].read = i /\ h[i].text = p.text /\ h[i].constraints = PushedOnto(c, K1, V1)
      <4>1. /\ h[i].bad <=> FiledBadly(c, r[i])
            /\ h[i].read = p.read + 1 /\ h[i].text = p.text /\ h[i].constraints = FiledOnto(c, r[i])
        BY ONLY <1>6, <1>9, <2>2, <3>0 DEF Stepped, p, c
      <4> QED
        BY ONLY <1>9, <3>0, <4>1 DEF FiledBadly, FiledOnto
    <3>2. /\ k[i].bad <=> RefusedAfter(c, K2, V2)
          /\ k[i].read = i /\ k[i].text = p.text /\ k[i].constraints = PushedOnto(c, K2, V2)
      <4>0. s[i].takes = 1 /\ s[i].key = K2 /\ s[i].values = V2 /\ s[i].also = {}
        BY ONLY <1>3, <1>9
      <4>1. /\ k[i].bad <=> FiledBadly(c, s[i])
            /\ k[i].read = p.read + 1 /\ k[i].text = p.text /\ k[i].constraints = FiledOnto(c, s[i])
        BY ONLY <1>6, <2>2, <3>0, <4>0 DEF Stepped, c
      <4> QED
        BY ONLY <3>0, <4>0, <4>1 DEF FiledBadly, FiledOnto
    <3>3. /\ h[i + 1].bad <=> RefusedTwice(c, K1, V1, K2, V2)
          /\ ~h[i].bad => /\ h[i + 1].read = i + 1 /\ h[i + 1].text = p.text
                          /\ h[i + 1].constraints = PushedTwice(c, K1, V1, K2, V2)
      <4>1. CASE h[i].bad
        <5>1. h[i + 1] = h[i]
          BY ONLY <1>1, <1>6, <4>1 DEF Stepped
        <5> QED
          BY ONLY <3>1, <4>1, <5>1 DEF RefusedTwice
      <4>2. CASE ~h[i].bad
        <5>1. /\ h[i + 1].bad <=> FiledBadly(h[i].constraints, r[i + 1])
              /\ h[i + 1].read = h[i].read + 1 /\ h[i + 1].text = h[i].text
              /\ h[i + 1].constraints = FiledOnto(h[i].constraints, r[i + 1])
          BY ONLY <1>1, <1>6, <1>9, <3>0, <3>1, <4>2 DEF Stepped
        <5>2. ~RefusedAfter(c, K1, V1)
          BY ONLY <3>1, <4>2
        <5> QED
          BY ONLY <1>9, <3>1, <4>2, <5>1, <5>2 DEF FiledBadly, FiledOnto, RefusedTwice, PushedTwice
      <4> QED
        BY ONLY <4>1, <4>2
    <3>4. /\ k[i + 1].bad <=> RefusedTwice(c, K2, V2, K1, V1)
          /\ ~k[i].bad => /\ k[i + 1].read = i + 1 /\ k[i + 1].text = p.text
                          /\ k[i + 1].constraints = PushedTwice(c, K2, V2, K1, V1)
      <4>0. s[i + 1].takes = 1 /\ s[i + 1].key = K1 /\ s[i + 1].values = V1 /\ s[i + 1].also = {}
        BY ONLY <1>3, <1>9
      <4>1. CASE k[i].bad
        <5>1. k[i + 1] = k[i]
          BY ONLY <1>1, <1>6, <4>1 DEF Stepped
        <5> QED
          BY ONLY <3>2, <4>1, <5>1 DEF RefusedTwice
      <4>2. CASE ~k[i].bad
        <5>1. /\ k[i + 1].bad <=> FiledBadly(k[i].constraints, s[i + 1])
              /\ k[i + 1].read = k[i].read + 1 /\ k[i + 1].text = k[i].text
              /\ k[i + 1].constraints = FiledOnto(k[i].constraints, s[i + 1])
          BY ONLY <1>1, <1>6, <3>0, <3>2, <4>0, <4>2 DEF Stepped
        <5>2. ~RefusedAfter(c, K2, V2)
          BY ONLY <3>2, <4>2
        <5> QED
          BY ONLY <3>2, <4>0, <4>2, <5>1, <5>2 DEF FiledBadly, FiledOnto, RefusedTwice, PushedTwice
      <4> QED
        BY ONLY <4>1, <4>2
    <3> HIDE DEF p, c
    <3>5. /\ RefusedTwice(c, K1, V1, K2, V2) <=> RefusedTwice(c, K2, V2, K1, V1)
          /\ ~RefusedTwice(c, K1, V1, K2, V2) =>
               IsSwapped(PushedTwice(c, K1, V1, K2, V2), PushedTwice(c, K2, V2, K1, V1), a)
      BY ONLY <1>10, <1>11, FiltersCommute
    <3>6. /\ h[i].bad => RefusedTwice(c, K1, V1, K2, V2)
          /\ k[i].bad => RefusedTwice(c, K2, V2, K1, V1)
      BY ONLY <3>1, <3>2 DEF RefusedTwice
    <3> QED
      BY ONLY <3>3, <3>4, <3>5, <3>6 DEF SwappedIn
  <2> QED
    BY ONLY <2>1, <2>2
<1> HIDE DEF a, p, c, n
<1>13. SwappedIn(h[n], k[n], a)
  <2> DEFINE T == {j \in 0..n : j >= i + 1 => SwappedIn(h[j], k[j], a)}
  <2>1. 0 \in T
    BY <1>1
  <2>2. ASSUME NEW j \in 1..n, j - 1 \in T PROVE j \in T
    <3> SUFFICES ASSUME j >= i + 1 PROVE SwappedIn(h[j], k[j], a)
      BY <1>1
    <3>1. CASE j = i + 1
      BY <1>12, <3>1
    <3>2. CASE j # i + 1
      <4>1. j # i /\ j - 1 >= i + 1 /\ j - 1 \in 0..n
        BY <1>1, <3>2
      <4>2. SwappedIn(h[j - 1], k[j - 1], a)
        BY <2>2, <4>1
      <4>3. s[j] = r[j] /\ other[j] = query[j] /\ query[j] \in AllTokens /\ WellRead(r[j], j, n)
        <5>1. s[j] = r[j] /\ other[j] = query[j]
          BY ONLY <1>3, <3>2, <4>1, j \in 1..n
        <5>2. query[j] \in AllTokens /\ WellRead(r[j], j, n)
          BY <1>2 DEF WellReads, n
        <5> QED
          BY ONLY <5>1, <5>2
      <4>4. h[j - 1] \in ParseStates /\ k[j - 1] \in ParseStates
        BY ONLY <1>4, <4>1
      <4>5. h[j] = Taken(h[j - 1], j, r[j], query[j]) /\ k[j] = Taken(k[j - 1], j, r[j], query[j])
        BY ONLY <1>4, <4>3, j \in 1..n
      <4> QED
        BY ONLY <4>2, <4>3, <4>4, <4>5, SwappedStep
    <3> QED
      BY ONLY <3>1, <3>2
  <2> HIDE DEF T
  <2>3. n \in T
    <3>1. \A j \in 0..n : j \in T
      BY ONLY <1>1, <2>1, <2>2, UpToAll
    <3> QED
      BY ONLY <1>1, <3>1
  <2> QED
    BY ONLY <1>1, <2>3 DEF T
<1> QED
  BY ONLY <1>13 DEF n

LEMMA OrderIs == typed \in Seq(Tokens) => OrderIsFree
<1> SUFFICES ASSUME typed \in Seq(Tokens),
                    NEW i \in 1..(Len(typed) - 1),
                    IsFacet(typed[i]), IsFacet(typed[i + 1]), i > 1 => ~IsSugar(typed[i - 1])
             PROVE LET swapped == [typed EXCEPT ![i] = typed[i + 1], ![i + 1] = typed[i]]
                       other == ParseQuery(swapped) IN
                   /\ Unified.bad = other.bad
                   /\ ~other.bad => Fingerprint(Unified) = Fingerprint(other)
  BY DEF OrderIsFree
<1> DEFINE n == Len(typed)
           swapped == [typed EXCEPT ![i] = typed[i + 1], ![i + 1] = typed[i]]
<1>1. typed \in Seq(AllTokens) /\ n \in Nat /\ n \in 0..n /\ i \in 1..n /\ i + 1 \in 1..n
  BY TypedIs
<1>2. swapped \in Seq(AllTokens) /\ Exchanged(typed, swapped, i)
  <2>1. DOMAIN typed = 1..n /\ \A j \in 1..n : typed[j] \in AllTokens
    BY <1>1
  <2>2. swapped = [j \in 1..n |-> IF j = i + 1 THEN typed[i] ELSE IF j = i THEN typed[i + 1] ELSE typed[j]]
    BY ONLY <1>1, <2>1
  <2> HIDE DEF swapped, n
  <2>3. swapped \in Seq(AllTokens) /\ Len(swapped) = n
    BY ONLY <1>1, <2>1, <2>2
  <2>4. /\ swapped[i] = typed[i + 1] /\ swapped[i + 1] = typed[i]
        /\ \A j \in 1..n : j # i /\ j # i + 1 => swapped[j] = typed[j]
    BY ONLY <1>1, <2>2
  <2> QED
    BY <2>3, <2>4 DEF Exchanged, n
<1> HIDE DEF swapped
<1>3. Len(swapped) = n
  BY <1>2 DEF Exchanged
<1>4. PICK h : IsRun(h, typed, UnifiedReadings(typed)) /\ ParseQuery(typed) = Checked(h[n])
  BY <1>1, UnifiedRuns
<1>5. PICK k : IsRun(k, swapped, UnifiedReadings(swapped)) /\ ParseQuery(swapped) = Checked(k[n])
  BY <1>2, <1>3, UnifiedRuns
<1>6. PICK a : SwappedIn(h[n], k[n], a)
  BY ONLY <1>1, <1>2, <1>4, <1>5, i \in 1..(Len(typed) - 1), ExchangedRuns DEF n
<1>7. h[n] \in ParseStates /\ k[n] \in ParseStates
  BY ONLY <1>1, <1>2, <1>3, <1>4, <1>5, ParsesAre DEF n
<1> QED
  BY ONLY <1>4, <1>5, <1>6, <1>7, SwappedChecked DEF Unified, swapped

-----------------------------------------------------------------------------
(* Queries that are accepted, token by token *)

Accepts(h, query, r) == WellReads(r, Len(query)) /\ IsRun(h, query, r) /\ ~h[Len(query)].bad

\* The token at i is read for itself, and not with the one before it.
HeadAt(h, i) == h[i - 1].read = i - 1

StepOf(h, query, r, i) ==
    /\ h[i - 1] \in ParseStates /\ h[i] \in ParseStates
    /\ HeadAt(h, i) \/ h[i - 1].read = i
    /\ h[i - 1].read = i => h[i] = h[i - 1]
    /\ HeadAt(h, i) /\ r[i].takes = 0 =>
         /\ h[i].read = i /\ h[i].text = Append(h[i - 1].text, query[i])
         /\ h[i].constraints = h[i - 1].constraints
    /\ HeadAt(h, i) /\ r[i].takes # 0 =>
         /\ ~FiledBadly(h[i - 1].constraints, r[i])
         /\ h[i].read = i - 1 + r[i].takes /\ h[i].text = h[i - 1].text
         /\ h[i].constraints = FiledOnto(h[i - 1].constraints, r[i])

LEMMA AcceptedSteps ==
  ASSUME NEW query \in Seq(AllTokens), NEW r, NEW h, Accepts(h, query, r)
  PROVE \A i \in 1..Len(query) : StepOf(h, query, r, i)
<1> TAKE i \in 1..Len(query)
<1> DEFINE n == Len(query)
<1>1. WellReads(r, n) /\ IsRun(h, query, r) /\ ~h[n].bad
  BY DEF Accepts
<1>2. i \in 0..n /\ i - 1 \in 0..n /\ (i - 1) + 1 = i
  OBVIOUS
<1>3. ~h[i].bad /\ ~h[i - 1].bad
  BY ONLY <1>1, <1>2, query \in Seq(AllTokens), RefusalsStay DEF n
<1>4. Stepped(h, query, r, i)
  BY ONLY <1>1, query \in Seq(AllTokens), i \in 1..Len(query), RunSteps DEF n
<1>5. h[i - 1].read \in Nat /\ i - 1 <= h[i - 1].read /\ h[i - 1].read <= (i - 1) + 1
  BY ONLY <1>1, <1>2, <1>3, query \in Seq(AllTokens), RunKeepsUp DEF n
<1>6. HeadAt(h, i) \/ h[i - 1].read = i
  BY ONLY <1>5, i \in 1..Len(query) DEF HeadAt
<1>7. /\ h[i - 1].read = i => h[i - 1].read >= i
      /\ HeadAt(h, i) => ~(h[i - 1].read >= i) /\ h[i - 1].read + 1 = i
  BY ONLY i \in 1..Len(query) DEF HeadAt
<1> HIDE DEF n
<1>8. h[i - 1].read = i => h[i] = h[i - 1]
  BY ONLY <1>4, <1>7 DEF Stepped
<1>9. HeadAt(h, i) /\ r[i].takes = 0 =>
         /\ h[i].read = i /\ h[i].text = Append(h[i - 1].text, query[i])
         /\ h[i].constraints = h[i - 1].constraints
  BY ONLY <1>3, <1>4, <1>7 DEF Stepped
<1>10. HeadAt(h, i) /\ r[i].takes # 0 =>
         /\ ~FiledBadly(h[i - 1].constraints, r[i])
         /\ h[i].read = i - 1 + r[i].takes /\ h[i].text = h[i - 1].text
         /\ h[i].constraints = FiledOnto(h[i - 1].constraints, r[i])
  BY ONLY <1>3, <1>4, <1>7 DEF Stepped, HeadAt
<1>11. h[i - 1] \in ParseStates /\ h[i] \in ParseStates
  BY ONLY <1>4 DEF Stepped
<1> QED
  BY ONLY <1>6, <1>8, <1>9, <1>10, <1>11 DEF StepOf

LEMMA AcceptedEnds ==
  ASSUME NEW query \in Seq(AllTokens), NEW r, NEW h, Accepts(h, query, r)
  PROVE /\ \A i \in 0..Len(query) : h[i] \in ParseStates
        /\ h[0].read = 0 /\ h[0].text = <<>> /\ h[0].constraints = <<>> /\ h[Len(query)].read = Len(query)
<1>1. WellReads(r, Len(query)) /\ IsRun(h, query, r) /\ ~h[Len(query)].bad
  BY DEF Accepts
<1>2. \A i \in 0..Len(query) : h[i] \in ParseStates
  BY <1>1 DEF IsRun
<1>3. h[0].read = 0 /\ h[0].text = <<>> /\ h[0].constraints = <<>>
  BY <1>1 DEF IsRun, Unread
<1>4. Len(query) \in 0..Len(query) /\ Len(query) \in Nat
  OBVIOUS
<1> DEFINE n == Len(query)
<1>5. h[n].read \in Nat /\ n <= h[n].read /\ h[n].read <= n
  BY ONLY <1>1, <1>4, query \in Seq(AllTokens), RunKeepsUp DEF n
<1>6. h[n].read = n
  BY ONLY <1>4, <1>5
<1> QED
  BY <1>2, <1>3, <1>6

\* What is not read for itself was taken by the token before it.
LEMMA TakenBefore ==
  ASSUME NEW query \in Seq(AllTokens), NEW r, NEW h, Accepts(h, query, r), NEW i \in 1..Len(query), ~HeadAt(h, i)
  PROVE i > 1 /\ i - 1 \in 1..Len(query) /\ HeadAt(h, i - 1) /\ r[i - 1].takes = 2
<1> DEFINE n == Len(query)
<1>1. h[i - 1].read = i
  BY AcceptedSteps DEF StepOf
<1>2. i > 1
  BY <1>1, AcceptedEnds
<1>3. i - 1 \in 1..n /\ (i - 1) - 1 = i - 2
  BY <1>2
<1>4. StepOf(h, query, r, i - 1)
  BY <1>3, AcceptedSteps
<1>5. r[i - 1].takes \in 0..2
  BY <1>3 DEF Accepts, WellReads, WellRead, Readings
<1> DEFINE a == h[i - 2].read b == h[i - 1].read takes == r[i - 1].takes
<1>6. a = i - 2 \/ a = i - 1
  BY ONLY <1>3, <1>4 DEF StepOf, HeadAt
<1>7. /\ a = i - 1 => b = a
      /\ a = i - 2 /\ takes = 0 => b = i - 1
      /\ a = i - 2 /\ takes # 0 => b = i - 1 - 1 + takes
  BY ONLY <1>3, <1>4 DEF StepOf, HeadAt
<1>8. b = i
  BY <1>1
<1> HIDE DEF a, b, takes
<1>9. takes \in 0..2
  BY <1>5 DEF takes
<1>10. a = i - 2 /\ takes = 2
  BY ONLY <1>6, <1>7, <1>8, <1>9, i \in 1..Len(query)
<1> QED
  BY ONLY <1>2, <1>3, <1>10 DEF a, takes, HeadAt, n

\* Text is added to and never taken back.
TextStays(p, q) == Len(p.text) <= Len(q.text) /\ \A j \in 1..Len(p.text) : q.text[j] = p.text[j]

LEMMA TextGrows ==
  ASSUME NEW query \in Seq(AllTokens), NEW r, NEW h, Accepts(h, query, r), NEW a \in 0..Len(query)
  PROVE \A b \in 0..Len(query) : a <= b => TextStays(h[a], h[b])
<1> DEFINE n == Len(query)
           T == {b \in 0..n : a <= b => TextStays(h[a], h[b])}
<1>1. n \in Nat /\ \A b \in 0..n : h[b] \in ParseStates
  BY AcceptedEnds
<1>2. \A b \in 0..n : Len(h[b].text) \in Nat /\ h[b].text \in Seq(AllTokens)
  BY <1>1 DEF ParseStates
<1>3. TextStays(h[a], h[a])
  BY <1>2 DEF TextStays
<1>4. 0 \in T
  BY <1>1, <1>3
<1>5. ASSUME NEW b \in 1..n, b - 1 \in T PROVE b \in T
  <2> SUFFICES ASSUME a <= b PROVE TextStays(h[a], h[b])
    BY <1>1
  <2>1. CASE a = b
    BY <1>3, <2>1
  <2>2. CASE a # b
    <3>1. TextStays(h[a], h[b - 1]) /\ b - 1 \in 0..n
      BY <1>5, <2>2
    <3>2. StepOf(h, query, r, b)
      BY AcceptedSteps
    <3>3. h[b].text = h[b - 1].text \/ h[b].text = Append(h[b - 1].text, query[b])
      BY ONLY <3>2 DEF StepOf
    <3> DEFINE s == h[a].text t == h[b - 1].text u == h[b].text
    <3>4. s \in Seq(AllTokens) /\ t \in Seq(AllTokens) /\ Len(s) \in Nat /\ Len(t) \in Nat
      BY ONLY <1>2, <3>1, a \in 0..Len(query) DEF n
    <3>5. Len(s) <= Len(t) /\ \A j \in 1..Len(s) : t[j] = s[j]
      BY ONLY <3>1 DEF TextStays
    <3>6. u = t \/ u = Append(t, query[b])
      BY ONLY <3>3
    <3> HIDE DEF s, t, u
    <3>7. Len(s) <= Len(u) /\ \A j \in 1..Len(s) : u[j] = s[j]
      <4>1. Len(Append(t, query[b])) = Len(t) + 1 /\ \A j \in 1..Len(t) : Append(t, query[b])[j] = t[j]
        BY ONLY <3>4
      <4> QED
        BY ONLY <3>4, <3>5, <3>6, <4>1
    <3> QED
      BY ONLY <3>7 DEF TextStays, s, u
  <2> QED
    BY ONLY <2>1, <2>2
<1> HIDE DEF T, n
<1>6. \A b \in 0..n : b \in T
  BY ONLY <1>1, <1>4, <1>5, UpToAll
<1> QED
  BY <1>6 DEF T, n

\* Each piece of text was read for itself and left alone.
KeptFor(h, query, r, j, m) ==
    HeadAt(h, m) /\ r[m].takes = 0 /\ Len(h[m - 1].text) = j - 1 /\ query[m] = h[Len(query)].text[j]

LEMMA KeptAt ==
  ASSUME NEW query \in Seq(AllTokens), NEW r, NEW h, Accepts(h, query, r)
  PROVE \A j \in 1..Len(h[Len(query)].text) : \E m \in 1..Len(query) : KeptFor(h, query, r, j, m)
<1> DEFINE n == Len(query)
           T == {i \in 0..n : \A j \in 1..Len(h[i].text) : \E m \in 1..n : KeptFor(h, query, r, j, m)}
<1>1. n \in Nat /\ n \in 0..n /\ \A b \in 0..n : h[b] \in ParseStates
  BY AcceptedEnds
<1>2. \A b \in 0..n : Len(h[b].text) \in Nat /\ h[b].text \in Seq(AllTokens)
  BY <1>1 DEF ParseStates
<1>3. 0 \in T
  <2>1. Len(h[0].text) = 0
    BY AcceptedEnds
  <2> QED
    BY <1>1, <2>1
<1>4. ASSUME NEW i \in 1..n, i - 1 \in T PROVE i \in T
  <2>1. StepOf(h, query, r, i) /\ i - 1 \in 0..n /\ i \in 0..n
    BY AcceptedSteps
  <2>2. \A j \in 1..Len(h[i - 1].text) : \E m \in 1..n : KeptFor(h, query, r, j, m)
    BY <1>4
  <2>3. CASE h[i].text = h[i - 1].text
    BY <2>2, <2>3
  <2>4. CASE HeadAt(h, i) /\ r[i].takes = 0
    <3> DEFINE t == h[i - 1].text u == h[i].text
    <3>1. u = Append(t, query[i]) /\ t \in Seq(AllTokens) /\ Len(t) \in Nat
      BY ONLY <1>2, <2>1, <2>4 DEF StepOf
    <3>2. TextStays(h[i], h[n])
      <4>1. i <= n
        BY ONLY <1>1, <2>1
      <4> QED
        BY ONLY <1>1, <2>1, <4>1, query \in Seq(AllTokens), Accepts(h, query, r), TextGrows DEF n
    <3> HIDE DEF t
    <3>3. Len(u) = Len(t) + 1 /\ u[Len(t) + 1] = query[i]
      BY ONLY <3>1
    <3>4. Len(t) + 1 \in 1..Len(u)
      BY ONLY <3>1, <3>3
    <3>5. h[n].text[Len(t) + 1] = query[i]
      BY ONLY <3>2, <3>3, <3>4 DEF TextStays
    <3>6. Len(h[i - 1].text) = (Len(t) + 1) - 1
      BY ONLY <3>1 DEF t
    <3>7. KeptFor(h, query, r, Len(t) + 1, i)
      BY ONLY <2>4, <3>5, <3>6 DEF KeptFor, n
    <3>8. \A j \in 1..Len(u) : j = Len(t) + 1 \/ j \in 1..Len(t)
      BY ONLY <3>1, <3>3
    <3>9. \A j \in 1..Len(t) : \E m \in 1..n : KeptFor(h, query, r, j, m)
      BY ONLY <2>2 DEF t
    <3>10. \A j \in 1..Len(u) : \E m \in 1..n : KeptFor(h, query, r, j, m)
      BY ONLY <3>7, <3>8, <3>9, i \in 1..n
    <3> QED
      BY ONLY <2>1, <3>10 DEF T, u
  <2>5. h[i].text = h[i - 1].text \/ (HeadAt(h, i) /\ r[i].takes = 0)
    BY ONLY <2>1 DEF StepOf
  <2> QED
    BY ONLY <2>3, <2>4, <2>5
<1> HIDE DEF T, n
<1>5. \A i \in 0..n : i \in T
  BY ONLY <1>1, <1>3, <1>4, UpToAll
<1>6. n \in T
  BY ONLY <1>1, <1>5
<1> QED
  BY ONLY <1>6 DEF T, n

HasKey(c, field) == \E j \in DOMAIN c : c[j][1] = field

LEMMA PushedKeys ==
  ASSUME NEW c \in Seq(AllKeys \X FacetValues), NEW field \in AllKeys, NEW values \in SUBSET FacetValues
  PROVE /\ PushedOnto(c, field, values) \in Seq(AllKeys \X FacetValues)
        /\ \A k : HasKey(c, k) => HasKey(PushedOnto(c, field, values), k)
        /\ ~RefusedAfter(c, field, values) => HasKey(PushedOnto(c, field, values), field)
<1>1. CASE RefusedAfter(c, field, values)
  BY <1>1 DEF PushedOnto
<1>2. CASE ~RefusedAfter(c, field, values)
  <2> DEFINE x == <<field, AnyOf(values)>> d == Append(c, x) Constraints == AllKeys \X FacetValues
  <2>1. values # {}
    BY <1>2 DEF RefusedAfter
  <2>2. x \in Constraints /\ c \in Seq(Constraints) /\ x[1] = field
    BY <2>1 DEF AnyOf
  <2> HIDE DEF x, Constraints
  <2>3. d \in Seq(Constraints) /\ DOMAIN c = 1..Len(c) /\ DOMAIN d = 1..Len(c) + 1 /\ Len(c) \in Nat
        /\ d[Len(c) + 1] = x /\ \A j \in 1..Len(c) : d[j] = c[j]
    BY ONLY <2>2
  <2> HIDE DEF d
  <2>4. HasKey(d, field)
    <3>1. Len(c) + 1 \in DOMAIN d
      BY ONLY <2>3
    <3> QED
      BY ONLY <2>2, <2>3, <3>1 DEF HasKey
  <2>5. \A k : HasKey(c, k) => HasKey(d, k)
    <3>1. \A j \in DOMAIN c : j \in DOMAIN d /\ d[j] = c[j]
      BY ONLY <2>3
    <3> QED
      BY ONLY <3>1 DEF HasKey
  <2>6. PushedOnto(c, field, values) = d
    BY ONLY <1>2 DEF PushedOnto, d, x
  <2> QED
    BY ONLY <2>3, <2>4, <2>5, <2>6 DEF Constraints
<1> QED
  BY ONLY <1>1, <1>2

LEMMA FiledKeys ==
  ASSUME NEW c \in Seq(AllKeys \X FacetValues), NEW r, NEW i, NEW n, WellRead(r, i, n)
  PROVE /\ FiledOnto(c, r) \in Seq(AllKeys \X FacetValues)
        /\ \A k : HasKey(c, k) => HasKey(FiledOnto(c, r), k)
        /\ ~FiledBadly(c, r) => HasKey(FiledOnto(c, r), r.key)
        /\ r.key \notin StoreKeys /\ HasKey(c, r.key) => FiledBadly(c, r)
<1>1. r.key \in AllKeys /\ r.values \in SUBSET FacetValues /\ r.also \in SUBSET FacetValues /\ "before" \in AllKeys
  BY DEF WellRead, Readings, FacetValues, AllKeys, RecallKeys
<1> DEFINE d == PushedOnto(c, r.key, r.values)
<1>2. /\ d \in Seq(AllKeys \X FacetValues)
      /\ \A k : HasKey(c, k) => HasKey(d, k)
      /\ ~RefusedAfter(c, r.key, r.values) => HasKey(d, r.key)
  BY ONLY <1>1, c \in Seq(AllKeys \X FacetValues), PushedKeys
<1> HIDE DEF d
<1>3. /\ PushedOnto(d, "before", r.also) \in Seq(AllKeys \X FacetValues)
      /\ \A k : HasKey(d, k) => HasKey(PushedOnto(d, "before", r.also), k)
  BY ONLY <1>1, <1>2, PushedKeys
<1>4. FiledOnto(c, r) = IF r.also = {} THEN d ELSE PushedOnto(d, "before", r.also)
  BY DEF FiledOnto, d
<1>5. ~FiledBadly(c, r) => ~RefusedAfter(c, r.key, r.values)
  BY DEF FiledBadly
<1>6. r.key \notin StoreKeys /\ HasKey(c, r.key) => FiledBadly(c, r)
  BY DEF FiledBadly, RefusedAfter, HasKey
<1> QED
  BY ONLY <1>2, <1>3, <1>4, <1>5, <1>6

LEMMA KeysGrow ==
  ASSUME NEW query \in Seq(AllTokens), NEW r, NEW h, Accepts(h, query, r), NEW a \in 0..Len(query), NEW field,
         HasKey(h[a].constraints, field)
  PROVE \A b \in 0..Len(query) : a <= b => HasKey(h[b].constraints, field)
<1> DEFINE n == Len(query)
           T == {b \in 0..n : a <= b => HasKey(h[b].constraints, field)}
<1>1. n \in Nat /\ \A b \in 0..n : h[b] \in ParseStates
  BY AcceptedEnds
<1>2. 0 \in T
  BY <1>1
<1>3. ASSUME NEW b \in 1..n, b - 1 \in T PROVE b \in T
  <2> SUFFICES ASSUME a <= b PROVE HasKey(h[b].constraints, field)
    BY <1>1
  <2>1. CASE a = b
    BY <2>1
  <2>2. CASE a # b
    <3>1. HasKey(h[b - 1].constraints, field) /\ b - 1 \in 0..n
      BY <1>3, <2>2
    <3>2. StepOf(h, query, r, b) /\ WellRead(r[b], b, n)
      BY AcceptedSteps DEF Accepts, WellReads
    <3>3. h[b - 1].constraints \in Seq(AllKeys \X FacetValues)
      BY ONLY <3>2 DEF StepOf, ParseStates
    <3>4. HasKey(FiledOnto(h[b - 1].constraints, r[b]), field)
      BY ONLY <3>1, <3>2, <3>3, FiledKeys
    <3>5. h[b].constraints = h[b - 1].constraints \/ h[b].constraints = FiledOnto(h[b - 1].constraints, r[b])
      BY ONLY <3>2 DEF StepOf
    <3> QED
      BY ONLY <3>1, <3>4, <3>5
  <2> QED
    BY ONLY <2>1, <2>2
<1> HIDE DEF T, n
<1>4. \A b \in 0..n : b \in T
  BY ONLY <1>1, <1>2, <1>3, UpToAll
<1> QED
  BY <1>4 DEF T, n

\* A facet that does not repeat is read once.
LEMMA KeyOnce ==
  ASSUME NEW query \in Seq(AllTokens), NEW r, NEW h, Accepts(h, query, r),
         NEW i \in 1..Len(query), NEW j \in 1..Len(query), HeadAt(h, i), HeadAt(h, j),
         r[i].takes # 0, r[j].takes # 0, r[i].key = r[j].key, r[i].key \notin StoreKeys
  PROVE i = j
<1> DEFINE n == Len(query)
<1>1. ASSUME NEW a \in 1..n, NEW b \in 1..n, a < b, HeadAt(h, a), HeadAt(h, b), r[a].takes # 0, r[b].takes # 0,
             r[a].key = r[b].key, r[a].key \notin StoreKeys
      PROVE FALSE
  <2>1. StepOf(h, query, r, a) /\ StepOf(h, query, r, b) /\ WellRead(r[a], a, n) /\ WellRead(r[b], b, n)
    BY AcceptedSteps DEF Accepts, WellReads
  <2>2. h[a - 1].constraints \in Seq(AllKeys \X FacetValues) /\ h[b - 1].constraints \in Seq(AllKeys \X FacetValues)
    BY ONLY <2>1 DEF StepOf, ParseStates
  <2>3. ~FiledBadly(h[a - 1].constraints, r[a]) /\ h[a].constraints = FiledOnto(h[a - 1].constraints, r[a])
    BY ONLY <2>1, <1>1 DEF StepOf
  <2>4. HasKey(h[a].constraints, r[a].key)
    <3> DEFINE c == h[a - 1].constraints ra == r[a]
    <3>1. c \in Seq(AllKeys \X FacetValues) /\ WellRead(ra, a, n) /\ ~FiledBadly(c, ra) /\ h[a].constraints = FiledOnto(c, ra)
      BY ONLY <2>1, <2>2, <2>3
    <3> HIDE DEF c, ra, n
    <3>2. HasKey(FiledOnto(c, ra), ra.key)
      BY ONLY <3>1, FiledKeys
    <3> QED
      BY ONLY <3>1, <3>2 DEF ra
  <2>5. a \in 0..n /\ b - 1 \in 0..n /\ a <= b - 1
    BY <1>1
  <2>6. HasKey(h[b - 1].constraints, r[a].key)
    BY ONLY <2>4, <2>5, query \in Seq(AllTokens), Accepts(h, query, r), KeysGrow DEF n
  <2>7. FiledBadly(h[b - 1].constraints, r[b])
    BY ONLY <1>1, <2>1, <2>2, <2>6, FiledKeys
  <2>8. ~FiledBadly(h[b - 1].constraints, r[b])
    BY ONLY <2>1, <1>1 DEF StepOf
  <2> QED
    BY ONLY <2>7, <2>8
<1>2. i < j \/ j < i \/ i = j
  OBVIOUS
<1> QED
  BY <1>1, <1>2

-----------------------------------------------------------------------------
(* NoClipIsLost: what recall's grammar reads, the unified one reads as well *)

NaturalWord(token) == Word(AsciiLower(Whole(token)))
UnifiedWord(token) == Word(NormalizeLookup(Whole(token)))

\* A value of recall's, and the one that the unified grammar has for it.
Fits(field, v, u) ==
    /\ field \in RecallKeys
    /\ field \in {"kind", "before", "after"} => u = v
    /\ field \in {"app", "tag", "device"} => v \in Spellings /\ u = NormalizeLookup(v)
ReadFits(rn, ru) ==
    /\ rn.takes = ru.takes /\ rn.key = ru.key /\ rn.also = ru.also
    /\ rn.key \in RecallKeys
    /\ rn.values # {} => ru.values # {} /\ Fits(rn.key, AnyOf(rn.values), AnyOf(ru.values))

LEMMA WordsFit ==
  ASSUME NEW t \in Spellings
  PROVE Word(AsciiLower(t)) # NoWord => Word(NormalizeLookup(t)) = Word(AsciiLower(t))
BY WordsAre

LEMMA ValuesFit ==
  ASSUME NEW field \in RecallKeys, NEW t \in Spellings, RecallValue(field, t) # {}
  PROVE ParseFacetValue(field, t) # {} /\ Fits(field, AnyOf(RecallValue(field, t)), AnyOf(ParseFacetValue(field, t)))
<1>1. /\ ParseFacetValue(field, t) = IF Blank(t) THEN {}
                                     ELSE IF field = "kind" THEN KindOf(Word(NormalizeLookup(t)))
                                     ELSE IF field \in {"before", "after"} THEN ParseInstant(NormalizeLookup(t))
                                     ELSE {NormalizeLookup(t)}
      /\ RecallValue(field, t) = IF Blank(t) THEN {}
                                 ELSE IF field = "kind" THEN KindOf(Word(AsciiLower(t)))
                                 ELSE IF field \in {"before", "after"} THEN DateOrRelative(t)
                                 ELSE {AsciiLower(t)}
  BY ValueIs
<1>2. ~Blank(t)
  BY <1>1
<1>3. CASE field \in {"kind", "before", "after"}
  <2>1. ParseFacetValue(field, t) = RecallValue(field, t)
    <3>1. CASE field = "kind"
      <4>1. KindOf(Word(AsciiLower(t))) # {}
        BY <1>1, <1>2, <3>1
      <4>2. KindOf(NoWord) = {}
        BY VocabularyIs DEF KindOf
      <4>3. Word(AsciiLower(t)) # NoWord
        BY ONLY <4>1, <4>2
      <4>4. Word(NormalizeLookup(t)) = Word(AsciiLower(t))
        BY ONLY <4>3, t \in Spellings, WordsFit
      <4> QED
        BY ONLY <1>1, <1>2, <3>1, <4>4
    <3>2. CASE field \in {"before", "after"}
      <4>1. field # "kind"
        BY ONLY <3>2
      <4>2. RecallValue(field, t) = DateOrRelative(t) /\ ParseFacetValue(field, t) = ParseInstant(NormalizeLookup(t))
        BY ONLY <1>1, <1>2, <3>2, <4>1
      <4>3. DateOrRelative(t) = ParseInstant(NormalizeLookup(t))
        BY <4>2, InstantsAgree
      <4> QED
        BY ONLY <4>2, <4>3
    <3> QED
      BY ONLY <1>3, <3>1, <3>2
  <2>2. field \notin {"app", "tag", "device"}
    BY ONLY <1>3
  <2> QED
    BY ONLY <1>3, <2>1, <2>2, field \in RecallKeys, RecallValue(field, t) # {} DEF Fits
<1>4. CASE field \notin {"kind", "before", "after"}
  <2>1. RecallValue(field, t) = {AsciiLower(t)} /\ ParseFacetValue(field, t) = {NormalizeLookup(t)}
    BY ONLY <1>1, <1>2, <1>4
  <2>2. \A v : AnyOf({v}) = v
    BY DEF AnyOf
  <2>3. AsciiLower(t) \in Spellings /\ AsciiLower(t).is = t.is
    BY TextsAre
  <2>4. NormalizeLookup(AsciiLower(t)) = NormalizeLookup(t)
    BY ONLY <2>3, t \in Spellings, SameLookup
  <2> DEFINE v == AsciiLower(t) u == NormalizeLookup(t)
  <2>5. u = NormalizeLookup(v) /\ v \in Spellings /\ RecallValue(field, t) = {v} /\ ParseFacetValue(field, t) = {u}
    BY ONLY <2>1, <2>3, <2>4
  <2> HIDE DEF v, u
  <2>6. Fits(field, v, u)
    BY ONLY <1>4, <2>5, field \in RecallKeys DEF Fits
  <2> QED
    BY ONLY <2>2, <2>5, <2>6
<1> QED
  BY ONLY <1>3, <1>4

LEMMA SpansFit ==
  ASSUME NEW t \in Spellings, {QueryNow - h : h \in DurationOf(Word(AsciiLower(t)))} # {}
  PROVE /\ Word(AsciiLower(t)) \in DOMAIN Durations
        /\ {QueryNow - h : h \in DurationOf(Word(NormalizeLookup(t)))} = {QueryNow - h : h \in DurationOf(Word(AsciiLower(t)))}
<1>1. DurationOf(Word(AsciiLower(t))) # {}
  OBVIOUS
<1>2. Word(AsciiLower(t)) \in DOMAIN Durations
  BY ONLY <1>1 DEF DurationOf
<1>3. Word(AsciiLower(t)) # NoWord
  BY <1>2, VocabularyIs
<1>4. Word(NormalizeLookup(t)) = Word(AsciiLower(t))
  BY ONLY <1>3, t \in Spellings, WordsFit
<1> QED
  BY ONLY <1>2, <1>4

LEMMA ReadingsFit ==
  ASSUME NEW query \in Seq(AllTokens), NEW i \in 1..Len(query), NaturalReading(query, i).takes # 0
  PROVE ReadFits(NaturalReading(query, i), UnifiedReading(query, i))
<1> DEFINE token == query[i]
           next == TextBehind(query, i)
           nw == Word(AsciiLower(Whole(token)))
           uw == Word(NormalizeLookup(Whole(token)))
           nl == Word(AsciiLower(next))
           ul == Word(NormalizeLookup(next))
           rk == RecallKey(token)
           fk == FacetKey(token)
           rn == NaturalReading(query, i)
           ru == UnifiedReading(query, i)
           follows == i < Len(query)
           kn == KindOf(nw) ku == KindOf(uw)
           sn == {QueryNow - h : h \in DurationOf(nl)} su == {QueryNow - h : h \in DurationOf(ul)}
<1>1. token \in AllTokens /\ token.key \in Spellings /\ token.value \in Spellings
  <2>1. token \in AllTokens
    OBVIOUS
  <2> QED
    BY <2>1 DEF AllTokens
<1>2. next \in Spellings /\ Whole(token) \in Spellings
  BY TextBehindIs
<1>3. /\ nw # NoWord => uw = nw
      /\ nl # NoWord => ul = nl
      /\ Word(AsciiLower(token.key)) # NoWord => Word(NormalizeLookup(token.key)) = Word(AsciiLower(token.key))
  BY ONLY <1>1, <1>2, WordsFit
<1>4. rk # NoWord => fk = rk /\ IsFacet(token) /\ rk \in RecallKeys
  BY ONLY <1>3, KeysAre, NoWordIs, RepeatsIs DEF AllKeys
<1>5. fk # NoWord => uw = NoWord
  BY <1>1, KeyedIs
<1>6. IsFacet(token) => fk # NoWord
  BY KeysAre
<1>7. rk # NoWord => (RecallValue(rk, token.value) # {} =>
        ParseFacetValue(rk, token.value) # {} /\ Fits(rk, AnyOf(RecallValue(rk, token.value)), AnyOf(ParseFacetValue(rk, token.value))))
  BY ONLY <1>1, <1>4, ValuesFit
<1>8. "app" \in RecallKeys /\ "kind" \in RecallKeys /\ "after" \in RecallKeys
  BY DEF RecallKeys
<1>9. RecallValue("app", next) # {} =>
        ParseFacetValue("app", next) # {} /\ Fits("app", AnyOf(RecallValue("app", next)), AnyOf(ParseFacetValue("app", next)))
  BY ONLY <1>2, <1>8, ValuesFit
<1>10. sn # {} => su = sn
  BY ONLY <1>2, SpansFit
<1>11. nw # NoWord => ku = kn
  BY ONLY <1>3
<1>12. NaturalCases(rn, rk, token.value, nw, follows, next, nl)
  BY NaturalReadingIs
<1>13. UnifiedCases(ru, IsFacet(token), fk, token.value, uw, follows, next, ul)
  BY UnifiedReadingIs
<1>14. /\ NoWord \notin DOMAIN KindSynonyms /\ \A w \in Sugar : w \notin DOMAIN KindSynonyms
  BY VocabularyIs
<1>15. /\ "from" \notin DOMAIN KindSynonyms /\ "last" \notin DOMAIN KindSynonyms /\ "today" \notin DOMAIN KindSynonyms
       /\ "yesterday" \notin DOMAIN KindSynonyms /\ "before" \notin DOMAIN KindSynonyms
  BY ONLY <1>14 DEF Sugar
<1>16. \A v : AnyOf({v}) = v
  BY DEF AnyOf
<1>17. Fits("after", Midnight, Midnight) /\ Fits("after", Midnight - 24, Midnight - 24) /\ \A v : Fits("kind", v, v) /\ Fits("after", v, v)
  BY ONLY <1>8 DEF Fits
<1>18. rn.takes # 0
  OBVIOUS
<1>21. ASSUME NEW takes, NEW values, NEW also
       PROVE ReadFits(ReadAs(takes, "after", values, also), ReadAs(takes, "after", values, also))
  <2> DEFINE ra == ReadAs(takes, "after", values, also)
  <2>1. ra.key = "after" /\ ra.values = values
    BY ONLY ReadAsIs
  <2> HIDE DEF ra
  <2>2. ReadFits(ra, ra)
    BY ONLY <1>8, <1>17, <2>1 DEF ReadFits
  <2> QED
    BY ONLY <2>2 DEF ra
<1> DEFINE dawn == Midnight - 24
<1>19. /\ NaturalCases(rn, rk, token.value, nw, follows, next, nl) =>
        rn = IF rk # NoWord THEN ReadAs(1, rk, RecallValue(rk, token.value), {})
        ELSE IF nw = "from" /\ follows THEN ReadAs(2, "app", RecallValue("app", next), {})
        ELSE IF nw \in DOMAIN KindSynonyms THEN ReadAs(1, "kind", kn, {})
        ELSE IF nw = "today" THEN ReadAs(1, "after", {Midnight}, {})
        ELSE IF nw = "yesterday" THEN ReadAs(1, "after", {dawn}, {Midnight})
        ELSE IF nw = "last" /\ follows THEN ReadAs(2, "after", sn, {})
        ELSE IF nw = "before" /\ follows /\ nl = "lunch" THEN ReadAs(2, "after", {Midnight}, {Noon})
        ELSE LeftAlone
       /\ UnifiedCases(ru, IsFacet(token), fk, token.value, uw, follows, next, ul) =>
        ru = IF IsFacet(token) THEN ReadAs(1, fk, ParseFacetValue(fk, token.value), {})
        ELSE IF uw = "from" /\ follows THEN ReadAs(2, "app", ParseFacetValue("app", next), {})
        ELSE IF uw = "last" /\ follows THEN ReadAs(2, "after", su, {})
        ELSE IF uw = "today" THEN ReadAs(1, "after", {Midnight}, {})
        ELSE IF uw = "yesterday" THEN ReadAs(1, "after", {dawn}, {Midnight})
        ELSE IF uw = "before" /\ follows /\ ul = "lunch" THEN ReadAs(2, "after", {Midnight}, {Noon})
        ELSE IF uw \in DOMAIN KindSynonyms THEN ReadAs(1, "kind", ku, {})
        ELSE LeftAlone
  BY DEF NaturalCases, UnifiedCases
<1> HIDE DEF token, next, nw, uw, nl, ul, rk, fk, rn, ru, follows, kn, ku, sn, su, dawn
<1>20. ReadFits(rn, ru)
  <2>1. CASE rk # NoWord
    <3>1. rn = ReadAs(1, rk, RecallValue(rk, token.value), {}) /\ ru = ReadAs(1, rk, ParseFacetValue(rk, token.value), {})
      BY ONLY <1>4, <1>12, <1>13, <1>19, <2>1
    <3> QED
      BY ONLY <1>4, <1>7, <2>1, <3>1, ReadAsIs DEF ReadFits
  <2>2. CASE rk = NoWord
    <3>1. nw # NoWord
      <4>1. LeftAlone.takes = 0
        BY ReadAsIs DEF LeftAlone
      <4> QED
        BY ONLY <1>12, <1>14, <1>18, <1>19, <2>2, <4>1, NoWordIs
    <3>2. uw = nw /\ ~IsFacet(token) /\ ku = kn
      BY ONLY <1>3, <1>5, <1>6, <1>11, <3>1
    <3>3. CASE nw = "from" /\ follows
      <4>1. rn = ReadAs(2, "app", RecallValue("app", next), {}) /\ ru = ReadAs(2, "app", ParseFacetValue("app", next), {})
        BY ONLY <1>12, <1>13, <1>19, <2>2, <3>2, <3>3
      <4> QED
        BY ONLY <1>8, <1>9, <4>1, ReadAsIs DEF ReadFits
    <3>4. CASE nw \in DOMAIN KindSynonyms
      <4>1. rn = ReadAs(1, "kind", kn, {}) /\ ru = ReadAs(1, "kind", kn, {})
        BY ONLY <1>12, <1>13, <1>15, <1>19, <2>2, <3>2, <3>4
      <4> QED
        BY ONLY <1>8, <1>17, <4>1, ReadAsIs DEF ReadFits
    <3>5. CASE nw = "today"
      <4>1. rn = ReadAs(1, "after", {Midnight}, {}) /\ ru = ReadAs(1, "after", {Midnight}, {})
        BY ONLY <1>12, <1>13, <1>15, <1>19, <2>2, <3>2, <3>5
      <4> QED
        BY ONLY <1>21, <4>1
    <3>6. CASE nw = "yesterday"
      <4>1. rn = ReadAs(1, "after", {dawn}, {Midnight}) /\ ru = ReadAs(1, "after", {dawn}, {Midnight})
        BY ONLY <1>12, <1>13, <1>15, <1>19, <2>2, <3>2, <3>6
      <4> QED
        BY ONLY <1>21, <4>1
    <3>7. CASE nw = "last" /\ follows
      <4>1. rn = ReadAs(2, "after", sn, {}) /\ ru = ReadAs(2, "after", su, {})
        BY ONLY <1>12, <1>13, <1>15, <1>19, <2>2, <3>2, <3>7
      <4> QED
        <5>1. CASE sn # {}
          BY ONLY <1>10, <1>21, <4>1, <5>1
        <5>2. CASE sn = {}
          BY ONLY <1>8, <4>1, <5>2, ReadAsIs DEF ReadFits
        <5> QED
          BY ONLY <5>1, <5>2
    <3>8. CASE nw = "before" /\ follows /\ nl = "lunch"
      <4>1. ul = "lunch"
        BY ONLY <1>3, <3>8, NoWordIs
      <4>2. rn = ReadAs(2, "after", {Midnight}, {Noon}) /\ ru = ReadAs(2, "after", {Midnight}, {Noon})
        BY ONLY <1>12, <1>13, <1>15, <1>19, <2>2, <3>2, <3>8, <4>1
      <4> QED
        BY ONLY <1>21, <4>2
    <3>9. rn = LeftAlone \/ (nw = "from" /\ follows) \/ nw \in DOMAIN KindSynonyms \/ nw = "today" \/ nw = "yesterday"
          \/ (nw = "last" /\ follows) \/ (nw = "before" /\ follows /\ nl = "lunch")
      BY ONLY <1>12, <1>19, <2>2
    <3>10. rn # LeftAlone
      <4>1. LeftAlone.takes = 0
        BY ReadAsIs DEF LeftAlone
      <4> QED
        BY ONLY <1>18, <4>1
    <3> QED
      BY ONLY <3>3, <3>4, <3>5, <3>6, <3>7, <3>8, <3>9, <3>10
  <2> QED
    BY ONLY <2>1, <2>2
<1> QED
  BY ONLY <1>20 DEF rn, ru

\* What the unified grammar reads wherever it stands.
Always(token) ==
    IsFacet(token) \/ UnifiedWord(token) \in DOMAIN KindSynonyms \/ UnifiedWord(token) \in {"today", "yesterday"}

\* What either grammar reads together with the token behind.
PairOf(r, word, nextWord, values) ==
    \/ word = "from" /\ r.key = "app" /\ r.also = {} /\ r.values = values
    \/ word = "last" /\ r.key = "after" /\ r.also = {} /\ (r.values # {} => nextWord \in DOMAIN Durations)
    \/ word = "before" /\ r.key = "after" /\ nextWord = "lunch" /\ r.also = {Noon}

LEMMA UnifiedLeaves ==
  ASSUME NEW query, NEW i
  PROVE /\ UnifiedReading(query, i).takes = 0 <=>
             /\ ~Always(query[i])
             /\ ~(UnifiedWord(query[i]) \in {"from", "last"} /\ i < Len(query))
             /\ ~(UnifiedWord(query[i]) = "before" /\ i < Len(query) /\ Word(NormalizeLookup(TextBehind(query, i))) = "lunch")
        /\ UnifiedReading(query, i).takes = 2 =>
             /\ i < Len(query) /\ ~IsFacet(query[i])
             /\ PairOf(UnifiedReading(query, i), UnifiedWord(query[i]), Word(NormalizeLookup(TextBehind(query, i))),
                       ParseFacetValue("app", TextBehind(query, i)))
        /\ UnifiedReading(query, i).takes = 1 => UnifiedWord(query[i]) \notin {"from", "last", "before", "lunch"} \/ IsFacet(query[i])
<1> DEFINE token == query[i]
           next == TextBehind(query, i)
           uw == UnifiedWord(token)
           ul == Word(NormalizeLookup(next))
           fk == FacetKey(token)
           faceted == IsFacet(token)
           ru == UnifiedReading(query, i)
           follows == i < Len(query)
           su == {QueryNow - h : h \in DurationOf(ul)}
           dawn == Midnight - 24
           value == ParseFacetValue(fk, token.value)
           app == ParseFacetValue("app", next)
           ku == KindOf(uw)
<1>1. ru = IF faceted THEN ReadAs(1, fk, value, {})
        ELSE IF uw = "from" /\ follows THEN ReadAs(2, "app", app, {})
        ELSE IF uw = "last" /\ follows THEN ReadAs(2, "after", su, {})
        ELSE IF uw = "today" THEN ReadAs(1, "after", {Midnight}, {})
        ELSE IF uw = "yesterday" THEN ReadAs(1, "after", {dawn}, {Midnight})
        ELSE IF uw = "before" /\ follows /\ ul = "lunch" THEN ReadAs(2, "after", {Midnight}, {Noon})
        ELSE IF uw \in DOMAIN KindSynonyms THEN ReadAs(1, "kind", ku, {})
        ELSE ReadAs(0, "app", {}, {})
  BY UnifiedReadingIs DEF UnifiedCases, UnifiedWord, LeftAlone
<1>2. su # {} => ul \in DOMAIN Durations
  <2>1. su # {} => DurationOf(ul) # {}
    OBVIOUS
  <2> QED
    BY ONLY <2>1 DEF DurationOf
<1>3. "from" \notin DOMAIN KindSynonyms /\ "last" \notin DOMAIN KindSynonyms /\ "before" \notin DOMAIN KindSynonyms
      /\ "lunch" \notin DOMAIN KindSynonyms
  BY VocabularyIs DEF Sugar
<1>4. Always(token) <=> faceted \/ uw \in DOMAIN KindSynonyms \/ uw \in {"today", "yesterday"}
  BY DEF Always
<1> HIDE DEF token, next, uw, ul, fk, ru, follows, su, dawn, value, app, ku, faceted
<1>5. ru.takes = 0 <=> /\ ~Always(token) /\ ~(uw \in {"from", "last"} /\ follows)
                       /\ ~(uw = "before" /\ follows /\ ul = "lunch")
  BY ONLY <1>1, <1>4, ReadAsIs
<1>6. ru.takes = 2 => follows /\ ~faceted /\ PairOf(ru, uw, ul, app)
  <2> SUFFICES ASSUME ru.takes = 2 PROVE follows /\ ~faceted /\ PairOf(ru, uw, ul, app)
    OBVIOUS
  <2>1. /\ follows /\ ~faceted
        /\ \/ uw = "from" /\ ru = ReadAs(2, "app", app, {})
           \/ uw = "last" /\ ru = ReadAs(2, "after", su, {})
           \/ uw = "before" /\ ul = "lunch" /\ ru = ReadAs(2, "after", {Midnight}, {Noon})
    BY ONLY <1>1, ru.takes = 2, ReadAsIs
  <2> QED
    BY ONLY <1>2, <2>1, ReadAsIs DEF PairOf
<1>7. ru.takes = 1 => uw \notin {"from", "last", "before", "lunch"} \/ faceted
  BY ONLY <1>1, <1>3, ReadAsIs
<1> QED
  BY ONLY <1>5, <1>6, <1>7 DEF token, next, uw, ul, ru, follows, app, faceted

LEMMA NaturalLeaves ==
  ASSUME NEW query, NEW i
  PROVE /\ RecallKey(query[i]) = NoWord /\ NaturalWord(query[i]) = NoWord => NaturalReading(query, i).takes = 0
        /\ NaturalReading(query, i).takes = 0 =>
             /\ RecallKey(query[i]) = NoWord
             /\ ~(NaturalWord(query[i]) \in {"from", "last"} /\ i < Len(query))
        /\ NaturalReading(query, i).takes = 2 =>
             /\ i < Len(query) /\ RecallKey(query[i]) = NoWord
             /\ PairOf(NaturalReading(query, i), NaturalWord(query[i]), Word(AsciiLower(TextBehind(query, i))),
                       RecallValue("app", TextBehind(query, i)))
        /\ NaturalReading(query, i).takes = 1 =>
             NaturalWord(query[i]) \notin {"from", "last", "before", "lunch"} \/ RecallKey(query[i]) # NoWord
<1> DEFINE token == query[i]
           next == TextBehind(query, i)
           nw == NaturalWord(token)
           nl == Word(AsciiLower(next))
           rk == RecallKey(token)
           rn == NaturalReading(query, i)
           follows == i < Len(query)
           sn == {QueryNow - h : h \in DurationOf(nl)}
           dawn == Midnight - 24
           value == RecallValue(rk, token.value)
           app == RecallValue("app", next)
           kn == KindOf(nw)
<1>1. rn = IF rk # NoWord THEN ReadAs(1, rk, value, {})
        ELSE IF nw = "from" /\ follows THEN ReadAs(2, "app", app, {})
        ELSE IF nw \in DOMAIN KindSynonyms THEN ReadAs(1, "kind", kn, {})
        ELSE IF nw = "today" THEN ReadAs(1, "after", {Midnight}, {})
        ELSE IF nw = "yesterday" THEN ReadAs(1, "after", {dawn}, {Midnight})
        ELSE IF nw = "last" /\ follows THEN ReadAs(2, "after", sn, {})
        ELSE IF nw = "before" /\ follows /\ nl = "lunch" THEN ReadAs(2, "after", {Midnight}, {Noon})
        ELSE ReadAs(0, "app", {}, {})
  BY NaturalReadingIs DEF NaturalCases, NaturalWord, LeftAlone
<1>2. sn # {} => nl \in DOMAIN Durations
  <2>1. sn # {} => DurationOf(nl) # {}
    OBVIOUS
  <2> QED
    BY ONLY <2>1 DEF DurationOf
<1>3. "from" \notin DOMAIN KindSynonyms /\ "last" \notin DOMAIN KindSynonyms /\ "before" \notin DOMAIN KindSynonyms
      /\ "lunch" \notin DOMAIN KindSynonyms /\ NoWord \notin DOMAIN KindSynonyms
  BY VocabularyIs DEF Sugar
<1> HIDE DEF token, next, nw, nl, rk, rn, follows, sn, dawn, value, app, kn
<1>4. rk = NoWord /\ nw = NoWord => rn.takes = 0
  BY ONLY <1>1, <1>3, NoWordIs, ReadAsIs
<1>5. rn.takes = 0 => rk = NoWord /\ ~(nw \in {"from", "last"} /\ follows)
  BY ONLY <1>1, <1>3, ReadAsIs
<1>6. rn.takes = 2 => follows /\ rk = NoWord /\ PairOf(rn, nw, nl, app)
  <2> SUFFICES ASSUME rn.takes = 2 PROVE follows /\ rk = NoWord /\ PairOf(rn, nw, nl, app)
    OBVIOUS
  <2>1. /\ follows /\ rk = NoWord
        /\ \/ nw = "from" /\ rn = ReadAs(2, "app", app, {})
           \/ nw = "last" /\ rn = ReadAs(2, "after", sn, {})
           \/ nw = "before" /\ nl = "lunch" /\ rn = ReadAs(2, "after", {Midnight}, {Noon})
    BY ONLY <1>1, rn.takes = 2, ReadAsIs
  <2> QED
    BY ONLY <1>2, <2>1, ReadAsIs DEF PairOf
<1>7. rn.takes = 1 => nw \notin {"from", "last", "before", "lunch"} \/ rk # NoWord
  BY ONLY <1>1, <1>3, ReadAsIs
<1> QED
  BY ONLY <1>4, <1>5, <1>6, <1>7 DEF token, next, nw, nl, rk, rn, follows, app

-----------------------------------------------------------------------------
(* How many words of "before lunch" a query has lost to filters *)

Lunches == {token \in AllTokens : UnifiedWord(token) \in {"before", "lunch"}}
One(token) == IF token \in Lunches THEN 1 ELSE 0
CountUpTo(s, k) == Cardinality({j \in 1..k : s[j] \in Lunches})
Eaten(query, p) == CountUpTo(query, p.read) - CountUpTo(p.text, Len(p.text))

LEMMA CountSteps ==
  ASSUME NEW s
  PROVE /\ CountUpTo(s, 0) = 0
        /\ \A k \in Nat : CountUpTo(s, k) \in Nat /\ CountUpTo(s, k + 1) = CountUpTo(s, k) + One(s[k + 1])
<1>1. CountUpTo(s, 0) = 0
  <2>1. {j \in 1..0 : s[j] \in Lunches} = {}
    OBVIOUS
  <2> QED
    BY <2>1, FS_EmptySet DEF CountUpTo
<1>2. ASSUME NEW k \in Nat PROVE CountUpTo(s, k) \in Nat /\ CountUpTo(s, k + 1) = CountUpTo(s, k) + One(s[k + 1])
  <2> DEFINE S == {j \in 1..k : s[j] \in Lunches} U == {j \in 1..k + 1 : s[j] \in Lunches}
  <2>1. IsFiniteSet(S)
    <3>1. S \in SUBSET (1..k) /\ IsFiniteSet(1..k)
      BY FS_Interval
    <3> QED
      BY ONLY <3>1, FS_Subset
  <2>2. Cardinality(S) \in Nat
    BY <2>1, FS_CardinalityType
  <2>3. CASE s[k + 1] \in Lunches
    <3>1. U = S \cup {k + 1} /\ k + 1 \notin S
      BY <2>3
    <3>2. Cardinality(U) = Cardinality(S) + 1
      BY ONLY <2>1, <3>1, FS_AddElement
    <3> QED
      BY <2>2, <2>3, <3>2 DEF CountUpTo, One
  <2>4. CASE s[k + 1] \notin Lunches
    <3>1. U = S
      BY <2>4
    <3> QED
      BY <2>2, <2>4, <3>1 DEF CountUpTo, One
  <2> QED
    BY ONLY <2>3, <2>4
<1> QED
  BY ONLY <1>1, <1>2

LEMMA CountAppend ==
  ASSUME NEW t \in Seq(AllTokens), NEW token
  PROVE CountUpTo(Append(t, token), Len(Append(t, token))) = CountUpTo(t, Len(t)) + One(token)
<1> DEFINE u == Append(t, token) n == Len(t)
<1>1. n \in Nat /\ Len(u) = n + 1 /\ u[n + 1] = token /\ \A j \in 1..n : u[j] = t[j]
  OBVIOUS
<1> HIDE DEF u, n
<1>2. {j \in 1..n : u[j] \in Lunches} = {j \in 1..n : t[j] \in Lunches}
  BY ONLY <1>1
<1>3. CountUpTo(u, n) = CountUpTo(t, n)
  BY ONLY <1>2 DEF CountUpTo
<1>4. CountUpTo(u, n + 1) = CountUpTo(u, n) + One(u[n + 1])
  BY ONLY <1>1, CountSteps
<1> QED
  BY ONLY <1>1, <1>3, <1>4 DEF u, n

\* Readings that lose those words only to "before lunch" itself or to a "from" before them.
LunchWise(query, r) ==
    \A m \in 1..Len(query) :
        /\ r[m].takes = 1 => query[m] \notin Lunches
        /\ r[m].takes = 2 =>
             /\ m + 1 \in 1..Len(query)
             /\ \/ r[m].key = "app" /\ r[m].also = {} /\ query[m] \notin Lunches
                \/ r[m].key = "after" /\ r[m].also = {} /\ query[m] \notin Lunches
                   /\ (r[m].values # {} => query[m + 1] \notin Lunches)
                \/ r[m].key = "after" /\ r[m].also # {} /\ query[m] \in Lunches /\ query[m + 1] \in Lunches

FromAt(h, query, r, f) == HeadAt(h, f) /\ r[f].takes = 2 /\ r[f].key = "app" /\ query[f + 1] \in Lunches
LunchAt(h, r, f) == HeadAt(h, f) /\ r[f].takes = 2 /\ r[f].also # {}
AnyFrom(h, query, r, i, k) == \E f \in i + 1..k : FromAt(h, query, r, f)
AnyLunch(h, r, i, k) == \E f \in i + 1..k : LunchAt(h, r, f)

LEMMA EatenStep ==
  ASSUME NEW query \in Seq(AllTokens), NEW r, NEW h, Accepts(h, query, r), LunchWise(query, r), NEW m \in 1..Len(query)
  PROVE Eaten(query, h[m]) = Eaten(query, h[m - 1]) + (IF FromAt(h, query, r, m) THEN 1 ELSE 0)
                                                    + (IF LunchAt(h, r, m) THEN 2 ELSE 0)
        /\ Eaten(query, h[m - 1]) \in Int
<1> DEFINE p == h[m - 1] q == h[m] rm == r[m] n == Len(query)
<1>1. StepOf(h, query, r, m) /\ WellRead(rm, m, n)
  BY AcceptedSteps DEF Accepts, WellReads
<1>2. p \in ParseStates /\ q \in ParseStates /\ p.text \in Seq(AllTokens) /\ Len(p.text) \in Nat /\ p.read \in Nat
  BY ONLY <1>1 DEF StepOf, ParseStates
<1>3. Eaten(query, p) \in Int
  <2>1. CountUpTo(query, p.read) \in Nat /\ CountUpTo(p.text, Len(p.text)) \in Nat
    BY ONLY <1>2, CountSteps
  <2> QED
    BY ONLY <2>1 DEF Eaten
<1>4. CASE ~HeadAt(h, m)
  <2>1. q = p
    BY ONLY <1>1, <1>4 DEF StepOf
  <2>2. ~FromAt(h, query, r, m) /\ ~LunchAt(h, r, m)
    BY ONLY <1>4 DEF FromAt, LunchAt
  <2> HIDE DEF p, q
  <2>3. Eaten(query, q) = Eaten(query, p) + 0 + 0
    BY ONLY <1>3, <2>1
  <2> QED
    BY ONLY <1>3, <2>2, <2>3 DEF p, q
<1>5. CASE HeadAt(h, m)
  <2>0. p.read = m - 1 /\ (m - 1) + 1 = m /\ m - 1 \in Nat /\ m \in Nat
    BY <1>5 DEF HeadAt
  <2>1. CountUpTo(query, m) = CountUpTo(query, p.read) + One(query[m]) /\ CountUpTo(query, p.read) \in Nat
    BY ONLY <2>0, CountSteps
  <2>2. CountUpTo(query, m + 1) = CountUpTo(query, m) + One(query[m + 1])
    BY ONLY <2>0, CountSteps
  <2>3. CASE rm.takes = 0
    <3>1. q.read = m /\ q.text = Append(p.text, query[m])
      BY ONLY <1>1, <1>5, <2>3 DEF StepOf
    <3>2. ~FromAt(h, query, r, m) /\ ~LunchAt(h, r, m)
      BY ONLY <2>3 DEF FromAt, LunchAt
    <3>3. CountUpTo(q.text, Len(q.text)) = CountUpTo(p.text, Len(p.text)) + One(query[m])
      BY ONLY <1>2, <3>1, CountAppend
    <3>4. CountUpTo(p.text, Len(p.text)) \in Nat /\ One(query[m]) \in Nat
      BY ONLY <1>2, CountSteps DEF One
    <3> HIDE DEF p, q
    <3>5. Eaten(query, q) = Eaten(query, p) + 0 + 0
      BY ONLY <2>1, <3>1, <3>3, <3>4 DEF Eaten
    <3> QED
      BY ONLY <1>3, <3>2, <3>5 DEF p, q
  <2>4. CASE rm.takes # 0
    <3>1. q.read = m - 1 + rm.takes /\ q.text = p.text /\ ~FiledBadly(p.constraints, rm)
      BY ONLY <1>1, <1>5, <2>4 DEF StepOf
    <3>2. rm.takes = 1 \/ rm.takes = 2
      BY <1>1, <2>4 DEF WellRead, Readings
    <3>3. rm.values # {}
      BY ONLY <3>1 DEF FiledBadly, RefusedAfter
    <3>4. /\ rm.takes = 1 => query[m] \notin Lunches
          /\ rm.takes = 2 =>
             \/ rm.key = "app" /\ rm.also = {} /\ query[m] \notin Lunches
             \/ rm.key = "after" /\ rm.also = {} /\ query[m] \notin Lunches
                   /\ (rm.values # {} => query[m + 1] \notin Lunches)
             \/ rm.key = "after" /\ rm.also # {} /\ query[m] \in Lunches /\ query[m + 1] \in Lunches
      BY ONLY LunchWise(query, r), m \in 1..Len(query) DEF LunchWise
    <3>5. /\ FromAt(h, query, r, m) <=> rm.takes = 2 /\ rm.key = "app" /\ query[m + 1] \in Lunches
          /\ LunchAt(h, r, m) <=> rm.takes = 2 /\ rm.also # {}
      BY ONLY <1>5 DEF FromAt, LunchAt
    <3> DEFINE lost == CountUpTo(query, p.read) text == CountUpTo(p.text, Len(p.text))
    <3>6. lost \in Nat /\ text \in Nat
      BY ONLY <1>2, CountSteps
    <3>7. Eaten(query, q) = CountUpTo(query, q.read) - text /\ Eaten(query, p) = lost - text
      BY ONLY <3>1 DEF Eaten
    <3>8. CASE rm.takes = 1
      <4>1. One(query[m]) = 0 /\ q.read = m
        BY ONLY <2>0, <3>1, <3>4, <3>8 DEF One
      <4>2. ~FromAt(h, query, r, m) /\ ~LunchAt(h, r, m)
        BY ONLY <3>5, <3>8
      <4> HIDE DEF p, q, lost, text
      <4>3. CountUpTo(query, q.read) = lost
        BY ONLY <2>1, <4>1 DEF lost
      <4> QED
        BY ONLY <1>3, <3>6, <3>7, <4>2, <4>3 DEF p, q
    <3>9. CASE rm.takes = 2
      <4>1. q.read = m + 1
        BY ONLY <2>0, <3>1, <3>9
      <4> HIDE DEF p, q, lost, text
      <4>2. CountUpTo(query, q.read) = lost + One(query[m]) + One(query[m + 1])
        BY ONLY <2>1, <2>2, <4>1 DEF lost
      <4>3. CASE rm.key = "app" /\ rm.also = {} /\ query[m] \notin Lunches
        <5>1. One(query[m]) = 0 /\ One(query[m + 1]) = (IF FromAt(h, query, r, m) THEN 1 ELSE 0) /\ ~LunchAt(h, r, m)
          BY ONLY <3>5, <3>9, <4>3 DEF One
        <5> QED
          BY ONLY <1>3, <3>6, <3>7, <4>2, <5>1 DEF p, q
      <4>4. CASE rm.key = "after" /\ rm.also = {} /\ query[m] \notin Lunches /\ query[m + 1] \notin Lunches
        <5>1. One(query[m]) = 0 /\ One(query[m + 1]) = 0 /\ ~FromAt(h, query, r, m) /\ ~LunchAt(h, r, m)
          BY ONLY <3>5, <3>9, <4>4 DEF One
        <5> QED
          BY ONLY <1>3, <3>6, <3>7, <4>2, <5>1 DEF p, q
      <4>5. CASE rm.key = "after" /\ rm.also # {} /\ query[m] \in Lunches /\ query[m + 1] \in Lunches
        <5>1. One(query[m]) = 1 /\ One(query[m + 1]) = 1 /\ ~FromAt(h, query, r, m) /\ LunchAt(h, r, m)
          BY ONLY <3>5, <3>9, <4>5 DEF One
        <5> QED
          BY ONLY <1>3, <3>6, <3>7, <4>2, <5>1 DEF p, q
      <4> QED
        BY ONLY <3>3, <3>4, <3>9, <4>3, <4>4, <4>5
    <3> QED
      BY ONLY <3>2, <3>8, <3>9
  <2> QED
    BY ONLY <2>3, <2>4
<1> QED
  BY ONLY <1>4, <1>5

\* A query has one "from" and one window at most, so the sum is soon told.
LEMMA EatenIs ==
  ASSUME NEW query \in Seq(AllTokens), NEW r, NEW h, Accepts(h, query, r), LunchWise(query, r), NEW i \in 0..Len(query)
  PROVE \A k \in 0..Len(query) : i <= k =>
          /\ Eaten(query, h[k]) = Eaten(query, h[i]) + (IF AnyFrom(h, query, r, i, k) THEN 1 ELSE 0)
                                                     + (IF AnyLunch(h, r, i, k) THEN 2 ELSE 0)
          /\ Eaten(query, h[k]) \in Int
<1> DEFINE n == Len(query)
           Told(k) == /\ Eaten(query, h[k]) = Eaten(query, h[i]) + (IF AnyFrom(h, query, r, i, k) THEN 1 ELSE 0)
                                                                 + (IF AnyLunch(h, r, i, k) THEN 2 ELSE 0)
                      /\ Eaten(query, h[k]) \in Int
           T == {k \in 0..n : i <= k => Told(k)}
<1>1. n \in Nat
  OBVIOUS
<1>2. Told(i)
  <2>1. ~AnyFrom(h, query, r, i, i) /\ ~AnyLunch(h, r, i, i)
    BY DEF AnyFrom, AnyLunch
  <2>2. Eaten(query, h[i]) \in Int
    <3>1. h[i] \in ParseStates
      BY AcceptedEnds
    <3>2. CountUpTo(query, h[i].read) \in Nat /\ CountUpTo(h[i].text, Len(h[i].text)) \in Nat
      <4>1. h[i].read \in Nat /\ Len(h[i].text) \in Nat
        BY <3>1 DEF ParseStates
      <4> QED
        BY ONLY <4>1, CountSteps
    <3> QED
      BY ONLY <3>2 DEF Eaten
  <2> QED
    BY ONLY <2>1, <2>2
<1>3. 0 \in T
  <2>1. i <= 0 => i = 0
    OBVIOUS
  <2> HIDE DEF Told
  <2> QED
    BY <1>1, <1>2, <2>1
<1>4. ASSUME NEW k \in 1..n, k - 1 \in T PROVE k \in T
  <2> SUFFICES ASSUME i <= k PROVE Told(k)
    BY <1>1
  <2>1. CASE k = i
    BY ONLY <1>2, <2>1
  <2>2. CASE k # i
    <3>1. Told(k - 1)
      <4>1. i <= k - 1
        BY <2>2
      <4> HIDE DEF Told
      <4> QED
        BY <1>4, <4>1
    <3>2. /\ Eaten(query, h[k]) = Eaten(query, h[k - 1]) + (IF FromAt(h, query, r, k) THEN 1 ELSE 0)
                                                         + (IF LunchAt(h, r, k) THEN 2 ELSE 0)
      BY EatenStep
    <3>3. i + 1..k = (i + 1..k - 1) \cup {k} /\ k \in 1..n /\ \A f \in i + 1..k - 1 : f \in 1..n /\ f # k
      BY <2>2
    <3>4. /\ AnyFrom(h, query, r, i, k) <=> AnyFrom(h, query, r, i, k - 1) \/ FromAt(h, query, r, k)
          /\ AnyLunch(h, r, i, k) <=> AnyLunch(h, r, i, k - 1) \/ LunchAt(h, r, k)
      BY ONLY <3>3 DEF AnyFrom, AnyLunch
    <3>5. ~(AnyFrom(h, query, r, i, k - 1) /\ FromAt(h, query, r, k))
      <4> SUFFICES ASSUME NEW f \in i + 1..k - 1, FromAt(h, query, r, f), FromAt(h, query, r, k) PROVE FALSE
        BY DEF AnyFrom
      <4>1. HeadAt(h, f) /\ HeadAt(h, k) /\ r[f].takes # 0 /\ r[k].takes # 0 /\ r[f].key = r[k].key /\ r[f].key = "app"
        BY DEF FromAt
      <4>2. "app" \notin StoreKeys
        BY DEF StoreKeys
      <4> QED
        BY ONLY <3>3, <4>1, <4>2, query \in Seq(AllTokens), Accepts(h, query, r), f \in i + 1..k - 1, KeyOnce DEF n
    <3>6. ~(AnyLunch(h, r, i, k - 1) /\ LunchAt(h, r, k))
      <4> SUFFICES ASSUME NEW f \in i + 1..k - 1, LunchAt(h, r, f), LunchAt(h, r, k) PROVE FALSE
        BY DEF AnyLunch
      <4>1. HeadAt(h, f) /\ HeadAt(h, k) /\ r[f].takes # 0 /\ r[k].takes # 0 /\ r[f].also # {} /\ r[k].also # {}
        BY DEF LunchAt
      <4>2. r[f].key = "after" /\ r[k].key = "after"
        <5>1. WellRead(r[f], f, n) /\ WellRead(r[k], k, n)
          BY <3>3 DEF Accepts, WellReads
        <5> QED
          BY ONLY <4>1, <5>1 DEF WellRead
      <4>3. "after" \notin StoreKeys
        BY DEF StoreKeys
      <4> QED
        BY ONLY <3>3, <4>1, <4>2, <4>3, query \in Seq(AllTokens), Accepts(h, query, r), f \in i + 1..k - 1, KeyOnce DEF n
    <3> DEFINE a == AnyFrom(h, query, r, i, k - 1) b == AnyLunch(h, r, i, k - 1)
               c == FromAt(h, query, r, k) d == LunchAt(h, r, k)
               e == AnyFrom(h, query, r, i, k) g == AnyLunch(h, r, i, k)
               x == Eaten(query, h[i]) y == Eaten(query, h[k - 1]) z == Eaten(query, h[k])
    <3>7. x \in Int
      BY ONLY <1>2
    <3> HIDE DEF a, b, c, d, e, g, x, y, z
    <3>8. y = x + (IF a THEN 1 ELSE 0) + (IF b THEN 2 ELSE 0)
      BY ONLY <3>1 DEF a, b, x, y
    <3>9. z = y + (IF c THEN 1 ELSE 0) + (IF d THEN 2 ELSE 0)
      BY ONLY <3>2 DEF c, d, y, z
    <3>10. (e <=> a \/ c) /\ (g <=> b \/ d) /\ ~(a /\ c) /\ ~(b /\ d)
      BY ONLY <3>4, <3>5, <3>6 DEF a, b, c, d, e, g
    <3>11. z = x + (IF e THEN 1 ELSE 0) + (IF g THEN 2 ELSE 0) /\ z \in Int
      BY ONLY <3>7, <3>8, <3>9, <3>10
    <3> QED
      BY ONLY <3>11 DEF e, g, x, z
  <2> QED
    BY ONLY <2>1, <2>2
<1> HIDE DEF T, n, Told
<1>5. \A k \in 0..n : k \in T
  BY ONLY <1>1, <1>3, <1>4, UpToAll
<1> QED
  BY <1>5 DEF T, n, Told

\* Both grammars lose the words of "before lunch" in no other way.
LEMMA LunchPair ==
  ASSUME NEW query \in Seq(AllTokens), NEW m \in 1..Len(query), NEW r, NEW word, NEW nextWord, NEW values, m < Len(query),
         PairOf(r, word, nextWord, values), word # NoWord => UnifiedWord(query[m]) = word,
         nextWord # NoWord => UnifiedWord(query[m + 1]) = nextWord
  PROVE /\ m + 1 \in 1..Len(query)
        /\ \/ r.key = "app" /\ r.also = {} /\ query[m] \notin Lunches
           \/ r.key = "after" /\ r.also = {} /\ query[m] \notin Lunches
              /\ (r.values # {} => query[m + 1] \notin Lunches)
           \/ r.key = "after" /\ r.also # {} /\ query[m] \in Lunches /\ query[m + 1] \in Lunches
<1>1. m + 1 \in 1..Len(query) /\ query[m] \in AllTokens
  OBVIOUS
<1>2. query[m + 1] \in AllTokens
  BY ONLY <1>1, query \in Seq(AllTokens)
<1>3. \A i \in {m, m + 1} : query[i] \in Lunches <=> UnifiedWord(query[i]) \in {"before", "lunch"}
  BY ONLY <1>1, <1>2 DEF Lunches
<1>4. NoWord \notin DOMAIN Durations /\ \A w \in DOMAIN Durations : w \notin {"before", "lunch"}
  BY VocabularyIs DEF Sugar
<1>5. {Noon} # {}
  OBVIOUS
<1> DEFINE uw == UnifiedWord(query[m]) ul == UnifiedWord(query[m + 1])
<1>6. (query[m] \in Lunches <=> uw \in {"before", "lunch"}) /\ (query[m + 1] \in Lunches <=> ul \in {"before", "lunch"})
  BY ONLY <1>3
<1>7. (word # NoWord => uw = word) /\ (nextWord # NoWord => ul = nextWord)
  OBVIOUS
<1> HIDE DEF uw, ul
<1>8. CASE word = "from" /\ r.key = "app" /\ r.also = {} /\ r.values = values
  BY ONLY <1>1, <1>6, <1>7, <1>8, NoWordIs
<1>9. CASE word = "last" /\ r.key = "after" /\ r.also = {} /\ (r.values # {} => nextWord \in DOMAIN Durations)
  <2>1. r.values # {} => ul \notin {"before", "lunch"}
    BY ONLY <1>4, <1>7, <1>9
  <2> QED
    BY ONLY <1>1, <1>6, <1>7, <1>9, <2>1, NoWordIs
<1>10. CASE word = "before" /\ r.key = "after" /\ nextWord = "lunch" /\ r.also = {Noon}
  BY ONLY <1>1, <1>5, <1>6, <1>7, <1>10, NoWordIs
<1> QED
  BY ONLY <1>8, <1>9, <1>10, PairOf(r, word, nextWord, values) DEF PairOf

LEMMA NaturalLunches ==
  ASSUME NEW query \in Seq(AllTokens)
  PROVE LunchWise(query, NaturalReadings(query))
<1> SUFFICES ASSUME NEW m \in 1..Len(query)
             PROVE LET r == NaturalReadings(query) IN
                   /\ r[m].takes = 1 => query[m] \notin Lunches
                   /\ r[m].takes = 2 =>
                       /\ m + 1 \in 1..Len(query)
                       /\ \/ r[m].key = "app" /\ r[m].also = {} /\ query[m] \notin Lunches
                          \/ r[m].key = "after" /\ r[m].also = {} /\ query[m] \notin Lunches
                             /\ (r[m].values # {} => query[m + 1] \notin Lunches)
                          \/ r[m].key = "after" /\ r[m].also # {} /\ query[m] \in Lunches /\ query[m + 1] \in Lunches
  BY DEF LunchWise
<1> DEFINE token == query[m] nw == NaturalWord(token) uw == UnifiedWord(token) rk == RecallKey(token)
           rn == NaturalReading(query, m) nl == Word(AsciiLower(TextBehind(query, m)))
<1>1. NaturalReadings(query)[m] = rn /\ token \in AllTokens
  BY WellReadings
<1>2. Whole(token) \in Spellings /\ TextBehind(query, m) \in Spellings
  BY TextBehindIs
<1>3. nw # NoWord => uw = nw
  BY ONLY <1>2, WordsFit DEF NaturalWord, UnifiedWord
<1>4. m < Len(query) => UnifiedWord(query[m + 1]) = Word(NormalizeLookup(TextBehind(query, m)))
  BY DEF TextBehind, UnifiedWord
<1>5. nl # NoWord => Word(NormalizeLookup(TextBehind(query, m))) = nl
  BY ONLY <1>2, WordsFit
<1>6. rk # NoWord => uw = NoWord
  BY ONLY <1>1, KeyedIs DEF UnifiedWord
<1>7. /\ rk = NoWord /\ nw = NoWord => rn.takes = 0
      /\ rn.takes = 1 => nw \notin {"from", "last", "before", "lunch"} \/ rk # NoWord
      /\ rn.takes = 2 => m < Len(query) /\ rk = NoWord /\ PairOf(rn, nw, nl, RecallValue("app", TextBehind(query, m)))
  BY ONLY NaturalLeaves
<1>8. rn.takes = 1 => token \notin Lunches
  <2>1. token \in Lunches => uw \in {"before", "lunch"}
    BY ONLY <1>1 DEF Lunches
  <2> HIDE DEF token, nw, uw, rk, rn
  <2> QED
    BY ONLY <1>3, <1>6, <1>7, <2>1, NoWordIs
<1>9. rn.takes = 2 =>
        /\ m + 1 \in 1..Len(query)
        /\ \/ rn.key = "app" /\ rn.also = {} /\ query[m] \notin Lunches
           \/ rn.key = "after" /\ rn.also = {} /\ query[m] \notin Lunches
              /\ (rn.values # {} => query[m + 1] \notin Lunches)
           \/ rn.key = "after" /\ rn.also # {} /\ query[m] \in Lunches /\ query[m + 1] \in Lunches
  <2> SUFFICES ASSUME rn.takes = 2 PROVE
        /\ m + 1 \in 1..Len(query)
        /\ \/ rn.key = "app" /\ rn.also = {} /\ query[m] \notin Lunches
           \/ rn.key = "after" /\ rn.also = {} /\ query[m] \notin Lunches
              /\ (rn.values # {} => query[m + 1] \notin Lunches)
           \/ rn.key = "after" /\ rn.also # {} /\ query[m] \in Lunches /\ query[m + 1] \in Lunches
    OBVIOUS
  <2> DEFINE values == RecallValue("app", TextBehind(query, m))
  <2>1. m < Len(query) /\ PairOf(rn, nw, nl, values)
    BY ONLY <1>7, rn.takes = 2
  <2>2. nw # NoWord => UnifiedWord(query[m]) = nw
    BY ONLY <1>3
  <2>3. nl # NoWord => UnifiedWord(query[m + 1]) = nl
    BY ONLY <1>4, <1>5, <2>1
  <2> HIDE DEF nw, nl, rn, values
  <2> QED
    BY ONLY <2>1, <2>2, <2>3, query \in Seq(AllTokens), m \in 1..Len(query), LunchPair
<1> QED
  BY ONLY <1>1, <1>8, <1>9

LEMMA UnifiedLunches ==
  ASSUME NEW query \in Seq(AllTokens)
  PROVE LunchWise(query, UnifiedReadings(query))
<1> SUFFICES ASSUME NEW m \in 1..Len(query)
             PROVE LET r == UnifiedReadings(query) IN
                   /\ r[m].takes = 1 => query[m] \notin Lunches
                   /\ r[m].takes = 2 =>
                       /\ m + 1 \in 1..Len(query)
                       /\ \/ r[m].key = "app" /\ r[m].also = {} /\ query[m] \notin Lunches
                          \/ r[m].key = "after" /\ r[m].also = {} /\ query[m] \notin Lunches
                             /\ (r[m].values # {} => query[m + 1] \notin Lunches)
                          \/ r[m].key = "after" /\ r[m].also # {} /\ query[m] \in Lunches /\ query[m + 1] \in Lunches
  BY DEF LunchWise
<1> DEFINE token == query[m] uw == UnifiedWord(token) ru == UnifiedReading(query, m)
           ul == Word(NormalizeLookup(TextBehind(query, m)))
<1>1. UnifiedReadings(query)[m] = ru /\ token \in AllTokens
  BY WellReadings
<1>2. m < Len(query) => UnifiedWord(query[m + 1]) = ul
  BY DEF TextBehind, UnifiedWord
<1>3. IsFacet(token) => uw = NoWord
  <2>1. IsFacet(token) => FacetKey(token) # NoWord
    BY KeysAre
  <2> QED
    BY ONLY <1>1, <2>1, KeyedIs DEF UnifiedWord
<1>4. /\ ru.takes = 1 => uw \notin {"from", "last", "before", "lunch"} \/ IsFacet(token)
      /\ ru.takes = 2 => m < Len(query) /\ PairOf(ru, uw, ul, ParseFacetValue("app", TextBehind(query, m)))
  BY ONLY UnifiedLeaves
<1>5. ru.takes = 1 => token \notin Lunches
  <2>1. token \in Lunches => uw \in {"before", "lunch"}
    BY ONLY <1>1 DEF Lunches
  <2> HIDE DEF token, uw, ru
  <2> QED
    BY ONLY <1>3, <1>4, <2>1, NoWordIs
<1>6. ru.takes = 2 =>
        /\ m + 1 \in 1..Len(query)
        /\ \/ ru.key = "app" /\ ru.also = {} /\ query[m] \notin Lunches
           \/ ru.key = "after" /\ ru.also = {} /\ query[m] \notin Lunches
              /\ (ru.values # {} => query[m + 1] \notin Lunches)
           \/ ru.key = "after" /\ ru.also # {} /\ query[m] \in Lunches /\ query[m + 1] \in Lunches
  <2> SUFFICES ASSUME ru.takes = 2 PROVE
        /\ m + 1 \in 1..Len(query)
        /\ \/ ru.key = "app" /\ ru.also = {} /\ query[m] \notin Lunches
           \/ ru.key = "after" /\ ru.also = {} /\ query[m] \notin Lunches
              /\ (ru.values # {} => query[m + 1] \notin Lunches)
           \/ ru.key = "after" /\ ru.also # {} /\ query[m] \in Lunches /\ query[m + 1] \in Lunches
    OBVIOUS
  <2> DEFINE values == ParseFacetValue("app", TextBehind(query, m))
  <2>1. m < Len(query) /\ PairOf(ru, uw, ul, values)
    BY ONLY <1>4, ru.takes = 2
  <2>2. uw # NoWord => UnifiedWord(query[m]) = uw
    OBVIOUS
  <2>3. ul # NoWord => UnifiedWord(query[m + 1]) = ul
    BY ONLY <1>2, <2>1
  <2> HIDE DEF uw, ul, ru, values
  <2> QED
    BY ONLY <2>1, <2>2, <2>3, query \in Seq(AllTokens), m \in 1..Len(query), LunchPair
<1> QED
  BY ONLY <1>1, <1>5, <1>6

\* Constraints of recall's parser, and those the unified grammar has for them.
MatchingFilters(c, d) ==
    /\ Len(c) = Len(d)
    /\ \A j \in 1..Len(c) : c[j][1] = d[j][1] /\ Fits(c[j][1], c[j][2], d[j][2])

LEMMA MatchingAppend ==
  ASSUME NEW c \in Seq(AllKeys \X FacetValues), NEW d \in Seq(AllKeys \X FacetValues), MatchingFilters(c, d),
         NEW field, NEW v, NEW u, Fits(field, v, u)
  PROVE MatchingFilters(Append(c, <<field, v>>), Append(d, <<field, u>>))
<1> DEFINE Constraints == AllKeys \X FacetValues
           x == <<field, v>> y == <<field, u>>
<1>1. x[1] = field /\ x[2] = v /\ y[1] = field /\ y[2] = u
  OBVIOUS
<1>2. c \in Seq(Constraints) /\ d \in Seq(Constraints)
  OBVIOUS
<1> HIDE DEF Constraints, x, y
<1>3. Len(c) = Len(d) /\ Len(c) \in Nat /\ \A j \in 1..Len(c) : c[j][1] = d[j][1] /\ Fits(c[j][1], c[j][2], d[j][2])
  BY ONLY <1>2, MatchingFilters(c, d) DEF MatchingFilters
<1> DEFINE e == Append(c, x) f == Append(d, y) n == Len(c)
<1>4. Len(e) = n + 1 /\ Len(f) = n + 1 /\ e[n + 1] = x /\ f[n + 1] = y /\ \A j \in 1..n : e[j] = c[j] /\ f[j] = d[j]
  BY ONLY <1>2, <1>3
<1>5. n \in Nat /\ \A j \in 1..n : c[j][1] = d[j][1] /\ Fits(c[j][1], c[j][2], d[j][2])
  BY ONLY <1>3
<1> HIDE DEF e, f, n
<1>6. \A j \in 1..n + 1 : j = n + 1 \/ j \in 1..n
  BY ONLY <1>5
<1>7. \A j \in 1..n + 1 : e[j][1] = f[j][1] /\ Fits(e[j][1], e[j][2], f[j][2])
  BY ONLY <1>1, <1>4, <1>5, <1>6, Fits(field, v, u)
<1>8. MatchingFilters(e, f)
  BY ONLY <1>4, <1>7 DEF MatchingFilters
<1> QED
  BY ONLY <1>8 DEF e, f, x, y

LEMMA MatchingFiled ==
  ASSUME NEW c \in Seq(AllKeys \X FacetValues), NEW d \in Seq(AllKeys \X FacetValues), MatchingFilters(c, d),
         NEW rn, NEW ru, NEW i, NEW j, NEW n, WellRead(rn, i, n), WellRead(ru, j, n), ReadFits(rn, ru),
         ~FiledBadly(c, rn), ~FiledBadly(d, ru)
  PROVE MatchingFilters(FiledOnto(c, rn), FiledOnto(d, ru))
<1> DEFINE field == rn.key v == AnyOf(rn.values) u == AnyOf(ru.values) also == rn.also
           c1 == PushedOnto(c, field, rn.values) d1 == PushedOnto(d, field, ru.values)
<1>1. ru.key = field /\ ru.also = also /\ field \in RecallKeys
      /\ (rn.values # {} => ru.values # {} /\ Fits(field, v, u))
  BY ONLY ReadFits(rn, ru) DEF ReadFits
<1>2. ~RefusedAfter(c, field, rn.values) /\ ~RefusedAfter(d, field, ru.values)
      /\ (also # {} => ~RefusedAfter(c1, "before", also) /\ ~RefusedAfter(d1, "before", also))
  BY ONLY <1>1, ~FiledBadly(c, rn), ~FiledBadly(d, ru) DEF FiledBadly
<1>3. Fits(field, v, u)
  BY ONLY <1>1, <1>2 DEF RefusedAfter
<1>4. c1 = Append(c, <<field, v>>) /\ d1 = Append(d, <<field, u>>)
  BY ONLY <1>2 DEF PushedOnto
<1>5. MatchingFilters(Append(c, <<field, v>>), Append(d, <<field, u>>))
  <2> HIDE DEF field, v, u
  <2> QED
    BY ONLY <1>3, c \in Seq(AllKeys \X FacetValues), d \in Seq(AllKeys \X FacetValues), MatchingFilters(c, d), MatchingAppend
<1>6. MatchingFilters(c1, d1)
  BY ONLY <1>4, <1>5
<1>7. field \in AllKeys /\ rn.values \in SUBSET FacetValues /\ ru.values \in SUBSET FacetValues
  <2>1. rn.values \in SUBSET FacetValues /\ ru.values \in SUBSET FacetValues
    BY ONLY WellRead(rn, i, n), WellRead(ru, j, n) DEF WellRead, Readings
  <2> QED
    BY ONLY <1>1, <2>1 DEF AllKeys
<1>8. c1 \in Seq(AllKeys \X FacetValues) /\ d1 \in Seq(AllKeys \X FacetValues)
  <2> DEFINE vs == rn.values us == ru.values
  <2>1. field \in AllKeys /\ vs \in SUBSET FacetValues /\ us \in SUBSET FacetValues
    BY ONLY <1>7
  <2> HIDE DEF field, vs, us
  <2>2. PushedOnto(c, field, vs) \in Seq(AllKeys \X FacetValues)
    BY ONLY <2>1, c \in Seq(AllKeys \X FacetValues), PushedKeys
  <2>3. PushedOnto(d, field, us) \in Seq(AllKeys \X FacetValues)
    BY ONLY <2>1, d \in Seq(AllKeys \X FacetValues), PushedKeys
  <2> QED
    BY ONLY <2>2, <2>3 DEF vs, us
<1>9. FiledOnto(c, rn) = (IF also = {} THEN c1 ELSE PushedOnto(c1, "before", also))
      /\ FiledOnto(d, ru) = (IF also = {} THEN d1 ELSE PushedOnto(d1, "before", also))
  BY ONLY <1>1 DEF FiledOnto
<1>10. \A w : Fits("before", w, w)
  BY DEF Fits, RecallKeys
<1> HIDE DEF field, v, u, also, c1, d1
<1>11. CASE also = {}
  BY ONLY <1>6, <1>9, <1>11
<1>12. CASE also # {}
  <2> DEFINE w == AnyOf(also)
  <2>1. PushedOnto(c1, "before", also) = Append(c1, <<"before", w>>) /\ PushedOnto(d1, "before", also) = Append(d1, <<"before", w>>)
    BY ONLY <1>2, <1>12 DEF PushedOnto
  <2>2. Fits("before", w, w)
    BY ONLY <1>10
  <2> HIDE DEF w
  <2>3. MatchingFilters(Append(c1, <<"before", w>>), Append(d1, <<"before", w>>))
    BY ONLY <1>6, <1>8, <2>2, MatchingAppend
  <2> QED
    BY ONLY <1>9, <1>12, <2>1, <2>3
<1> QED
  BY ONLY <1>11, <1>12

\* What a constraint of recall's means.
RecallAsks(facet, value, clip) ==
    CASE facet = "app" -> \E app \in clip.app : Occurs(UnicodeLower(value), UnicodeLower(app))
      [] facet = "device" -> \E device \in clip.device : AsciiLower(device) = AsciiLower(value)
      [] facet = "tag" -> NormalizeLabel(value) \in clip.tags
      [] facet = "kind" -> clip.kind = value
      [] facet = "before" -> clip.at < value
      [] facet = "after" -> clip.at >= value

LEMMA RecallFindsIs ==
  ASSUME NEW p, NEW clip
  PROVE RecallFinds(p, clip) <=> \A i \in DOMAIN p.constraints : RecallAsks(p.constraints[i][1], p.constraints[i][2], clip)
BY Zenon DEF RecallFinds, RecallAsks

LEMMA OccursStill ==
  ASSUME NEW v \in Spellings, NEW t \in Spellings, Occurs(UnicodeLower(v), UnicodeLower(t))
  PROVE Occurs(NormalizeLookup(v), NormalizeLookup(t))
<1>1. UnicodeLower(v).is = v.is /\ NormalizeLookup(v).is = v.is /\ NormalizeLookup(v).form = {}
  BY TextsAre
<1>2. UnicodeLower(t).is = t.is /\ NormalizeLookup(t).is = t.is /\ NormalizeLookup(t).form = {}
  BY TextsAre
<1>3. \E i \in 0..(Len(t.is) - Len(v.is)) : SubSeq(t.is, i + 1, i + Len(v.is)) = v.is
  BY <1>1, <1>2 DEF Occurs
<1> QED
  BY ONLY <1>1, <1>2, <1>3 DEF Occurs

LEMMA AsksFit ==
  ASSUME NEW facet, NEW v, NEW u, Fits(facet, v, u), NEW clip \in QueryClips, RecallAsks(facet, v, clip)
  PROVE GrammarAsks(facet, u, clip)
<1>1. facet \in RecallKeys /\ (facet \in {"kind", "before", "after"} => u = v)
      /\ (facet \in {"app", "tag", "device"} => v \in Spellings /\ u = NormalizeLookup(v))
  BY DEF Fits
<1>2. clip.app \subseteq Spellings /\ clip.device \subseteq Spellings /\ clip.tags \subseteq Spellings
  <2>1. Texts \subseteq Spellings
    BY DEF Texts, Spellings
  <2>2. clip.app \subseteq Texts /\ clip.device \subseteq Texts /\ clip.tags \subseteq Texts
    BY VocabularyAssumption
  <2> QED
    BY ONLY <2>1, <2>2
<1>3. CASE facet = "before"
  <2>1. Registry[facet].compare = "before" /\ u = v
    BY <1>1, <1>3, FacetsAre
  <2> QED
    BY ONLY <1>3, <2>1, RecallAsks(facet, v, clip) DEF RecallAsks, GrammarAsks
<1>4. CASE facet = "after"
  <2>1. Registry[facet].compare = "at or after" /\ u = v
    BY <1>1, <1>4, FacetsAre
  <2> QED
    BY ONLY <1>4, <2>1, RecallAsks(facet, v, clip) DEF RecallAsks, GrammarAsks
<1>5. CASE facet = "kind"
  <2>1. Registry[facet].compare = "equals" /\ u = v
    BY <1>1, <1>5, FacetsAre
  <2> QED
    BY ONLY <1>5, <2>1, RecallAsks(facet, v, clip) DEF RecallAsks, GrammarAsks
<1>6. CASE facet = "app"
  <2>1. Registry[facet].compare = "contains" /\ v \in Spellings /\ u = NormalizeLookup(v) /\ ValuesOf(clip, facet) = clip.app
    BY <1>1, <1>6, FacetsAre DEF ValuesOf
  <2>2. PICK app \in clip.app : Occurs(UnicodeLower(v), UnicodeLower(app))
    BY ONLY <1>6, RecallAsks(facet, v, clip) DEF RecallAsks
  <2>3. app \in Spellings
    BY ONLY <1>2, <2>2
  <2>4. Occurs(NormalizeLookup(v), NormalizeLookup(app))
    BY ONLY <2>1, <2>2, <2>3, OccursStill
  <2>5. \E w \in {NormalizeLookup(t) : t \in ValuesOf(clip, facet)} : Occurs(u, w)
    BY ONLY <2>1, <2>2, <2>4
  <2> QED
    BY ONLY <1>6, <2>1, <2>5 DEF GrammarAsks
<1>7. CASE facet = "device"
  <2>1. Registry[facet].compare = "equals" /\ v \in Spellings /\ u = NormalizeLookup(v) /\ ValuesOf(clip, facet) = clip.device
    BY <1>1, <1>7, FacetsAre DEF ValuesOf
  <2>2. PICK device \in clip.device : AsciiLower(device) = AsciiLower(v)
    BY ONLY <1>7, RecallAsks(facet, v, clip) DEF RecallAsks
  <2>3. device \in Spellings
    BY ONLY <1>2, <2>2
  <2>4. AsciiLower(device).is = device.is /\ AsciiLower(v).is = v.is
    BY ONLY <2>1, <2>3, TextsAre
  <2>5. device.is = v.is
    BY ONLY <2>2, <2>4
  <2>6. NormalizeLookup(device) = u
    BY ONLY <2>1, <2>3, <2>5, SameLookup
  <2>7. u \in {NormalizeLookup(t) : t \in ValuesOf(clip, facet)}
    BY ONLY <2>1, <2>2, <2>6
  <2> QED
    BY ONLY <1>7, <2>1, <2>7 DEF GrammarAsks
<1>8. CASE facet = "tag"
  <2>1. Registry[facet].compare = "equals" /\ v \in Spellings /\ u = NormalizeLookup(v) /\ ValuesOf(clip, facet) = clip.tags
    BY <1>1, <1>8, FacetsAre DEF ValuesOf
  <2>2. NormalizeLabel(v) \in clip.tags
    BY ONLY <1>8, RecallAsks(facet, v, clip) DEF RecallAsks
  <2>3. NormalizeLabel(v) \in Spellings /\ NormalizeLabel(v).is = v.is
    BY ONLY <2>1, TextsAre
  <2>4. NormalizeLookup(NormalizeLabel(v)) = u
    BY ONLY <2>1, <2>3, SameLookup
  <2>5. u \in {NormalizeLookup(t) : t \in ValuesOf(clip, facet)}
    BY ONLY <2>1, <2>2, <2>4
  <2> QED
    BY ONLY <1>8, <2>1, <2>5 DEF GrammarAsks
<1> QED
  BY ONLY <1>1, <1>3, <1>4, <1>5, <1>6, <1>7, <1>8 DEF RecallKeys

LEMMA MatchingFinds ==
  ASSUME NEW p, NEW q, p.constraints \in Seq(AllKeys \X FacetValues), q.constraints \in Seq(AllKeys \X FacetValues),
         MatchingFilters(p.constraints, q.constraints), NEW clip \in QueryClips, RecallFinds(p, clip)
  PROVE GrammarFinds(q, clip)
<1> DEFINE c == p.constraints d == q.constraints
<1>1. DOMAIN c = 1..Len(c) /\ DOMAIN d = 1..Len(d)
  OBVIOUS
<1>2. \A i \in DOMAIN c : RecallAsks(c[i][1], c[i][2], clip)
  BY ONLY RecallFinds(p, clip), RecallFindsIs
<1>3. \A i \in DOMAIN d : i \in DOMAIN c /\ c[i][1] = d[i][1] /\ Fits(d[i][1], c[i][2], d[i][2])
  BY ONLY <1>1, MatchingFilters(p.constraints, q.constraints) DEF MatchingFilters
<1> HIDE DEF c, d
<1>4. ASSUME NEW i \in DOMAIN d PROVE GrammarAsks(d[i][1], d[i][2], clip)
  <2> DEFINE facet == d[i][1] v == c[i][2] u == d[i][2]
  <2>1. Fits(facet, v, u) /\ RecallAsks(facet, v, clip)
    BY ONLY <1>2, <1>3, i \in DOMAIN d
  <2> HIDE DEF facet, v, u
  <2>2. GrammarAsks(facet, u, clip)
    BY ONLY <2>1, clip \in QueryClips, AsksFit
  <2> QED
    BY ONLY <2>2 DEF facet, u
<1> QED
  BY ONLY <1>4, FindsAre DEF d

-----------------------------------------------------------------------------
(* Where the two grammars part *)

Both(query, h, k) == Accepts(h, query, UnifiedReadings(query)) /\ Accepts(k, query, NaturalReadings(query))
Aligned(h, k, j) ==
    h[j].read = k[j].read /\ h[j].text = k[j].text /\ MatchingFilters(k[j].constraints, h[j].constraints)

\* The unified grammar reads a token as a filter that recall's leaves in the text.
PartAt(query, h, k, i) ==
    /\ HeadAt(h, i) /\ HeadAt(k, i) /\ Aligned(h, k, i - 1)
    /\ NaturalReadings(query)[i].takes = 0 /\ UnifiedReadings(query)[i].takes # 0

LEMMA AlignedStep ==
  ASSUME NEW query \in Seq(AllTokens), NEW h, NEW k, Both(query, h, k), NEW i \in 1..Len(query), Aligned(h, k, i - 1)
  PROVE Aligned(h, k, i) \/ PartAt(query, h, k, i)
<1> DEFINE rn == NaturalReadings(query) ru == UnifiedReadings(query) n == Len(query)
           x == rn[i] y == ru[i]
<1>1. Accepts(h, query, ru) /\ Accepts(k, query, rn)
  BY ONLY Both(query, h, k) DEF Both
<1>2. StepOf(h, query, ru, i) /\ StepOf(k, query, rn, i)
  <2> HIDE DEF rn, ru
  <2> QED
    BY ONLY <1>1, query \in Seq(AllTokens), i \in 1..Len(query), AcceptedSteps
<1>3. WellRead(x, i, n) /\ WellRead(y, i, n) /\ x = NaturalReading(query, i) /\ y = UnifiedReading(query, i)
  BY ONLY query \in Seq(AllTokens), i \in 1..Len(query), WellReadings
<1>4. x.takes # 0 => ReadFits(x, y)
  BY ONLY <1>3, query \in Seq(AllTokens), i \in 1..Len(query), ReadingsFit
<1> DEFINE p == h[i - 1] q == h[i] s == k[i - 1] t == k[i]
<1>5. p.read = s.read /\ p.text = s.text /\ MatchingFilters(s.constraints, p.constraints)
  BY ONLY Aligned(h, k, i - 1) DEF Aligned
<1>6. p.constraints \in Seq(AllKeys \X FacetValues) /\ s.constraints \in Seq(AllKeys \X FacetValues)
  BY ONLY <1>2 DEF StepOf, ParseStates
<1>7. CASE ~HeadAt(h, i)
  <2>1. ~HeadAt(k, i)
    BY ONLY <1>5, <1>7 DEF HeadAt
  <2>2. q = p /\ t = s
    BY ONLY <1>2, <1>7, <2>1 DEF StepOf
  <2> QED
    BY ONLY <1>5, <2>2 DEF Aligned
<1>8. CASE HeadAt(h, i)
  <2>1. HeadAt(k, i)
    BY ONLY <1>5, <1>8 DEF HeadAt
  <2>2. /\ x.takes = 0 => t.read = i /\ t.text = Append(s.text, query[i]) /\ t.constraints = s.constraints
        /\ x.takes # 0 => ~FiledBadly(s.constraints, x) /\ t.read = i - 1 + x.takes /\ t.text = s.text
                          /\ t.constraints = FiledOnto(s.constraints, x)
    BY ONLY <1>2, <2>1 DEF StepOf
  <2>3. /\ y.takes = 0 => q.read = i /\ q.text = Append(p.text, query[i]) /\ q.constraints = p.constraints
        /\ y.takes # 0 => ~FiledBadly(p.constraints, y) /\ q.read = i - 1 + y.takes /\ q.text = p.text
                          /\ q.constraints = FiledOnto(p.constraints, y)
    BY ONLY <1>2, <1>8 DEF StepOf
  <2>4. CASE x.takes # 0
    <3>1. ReadFits(x, y) /\ y.takes = x.takes
      BY ONLY <1>4, <2>4 DEF ReadFits
    <3> DEFINE c == s.constraints d == p.constraints
    <3>2. c \in Seq(AllKeys \X FacetValues) /\ d \in Seq(AllKeys \X FacetValues) /\ MatchingFilters(c, d)
          /\ ~FiledBadly(c, x) /\ ~FiledBadly(d, y) /\ WellRead(x, i, n) /\ WellRead(y, i, n)
      BY ONLY <1>3, <1>5, <1>6, <2>2, <2>3, <2>4, <3>1
    <3> HIDE DEF c, d, x, y, n
    <3>3. MatchingFilters(FiledOnto(c, x), FiledOnto(d, y))
      BY ONLY <3>1, <3>2, MatchingFiled
    <3>4. q.read = t.read /\ q.text = t.text /\ MatchingFilters(t.constraints, q.constraints)
      BY ONLY <1>5, <2>2, <2>3, <2>4, <3>1, <3>3 DEF c, d
    <3> QED
      BY ONLY <3>4 DEF Aligned
  <2>5. CASE x.takes = 0 /\ y.takes = 0
    BY ONLY <1>5, <2>2, <2>3, <2>5 DEF Aligned
  <2>6. CASE x.takes = 0 /\ y.takes # 0
    BY ONLY <1>8, <2>1, <2>6, Aligned(h, k, i - 1) DEF PartAt
  <2> QED
    BY ONLY <2>4, <2>5, <2>6
<1> QED
  BY ONLY <1>7, <1>8

LEMMA AlignedOrParted ==
  ASSUME NEW query \in Seq(AllTokens), NEW h, NEW k, Both(query, h, k)
  PROVE Aligned(h, k, Len(query)) \/ \E i \in 1..Len(query) : PartAt(query, h, k, i)
<1> DEFINE n == Len(query)
           T == {j \in 0..n : Aligned(h, k, j) \/ \E i \in 1..n : PartAt(query, h, k, i)}
<1>1. n \in Nat /\ n \in 0..n
  OBVIOUS
<1>2. 0 \in T
  <2> DEFINE rn == NaturalReadings(query) ru == UnifiedReadings(query)
  <2>1. Accepts(h, query, ru) /\ Accepts(k, query, rn)
    BY ONLY Both(query, h, k) DEF Both
  <2> HIDE DEF rn, ru
  <2>2. h[0].read = 0 /\ h[0].text = <<>> /\ h[0].constraints = <<>>
    BY ONLY <2>1, query \in Seq(AllTokens), AcceptedEnds
  <2>3. k[0].read = 0 /\ k[0].text = <<>> /\ k[0].constraints = <<>>
    BY ONLY <2>1, query \in Seq(AllTokens), AcceptedEnds
  <2>4. MatchingFilters(<<>>, <<>>)
    BY DEF MatchingFilters
  <2>5. Aligned(h, k, 0)
    BY ONLY <2>2, <2>3, <2>4 DEF Aligned
  <2> QED
    BY ONLY <1>1, <2>5
<1>3. ASSUME NEW j \in 1..n, j - 1 \in T PROVE j \in T
  <2>1. Aligned(h, k, j - 1) => Aligned(h, k, j) \/ PartAt(query, h, k, j)
    BY ONLY query \in Seq(AllTokens), Both(query, h, k), j \in 1..n, AlignedStep
  <2> QED
    BY ONLY <1>1, <1>3, <2>1
<1> HIDE DEF T, n
<1>4. \A j \in 0..n : j \in T
  BY ONLY <1>1, <1>2, <1>3, UpToAll
<1>5. n \in T
  BY ONLY <1>1, <1>4
<1> QED
  BY ONLY <1>5 DEF T, n

\* The token at i is read with the one before it, a word of the grammar.
TakenBy(h, r, i, first, second, values) ==
    /\ i > 1 /\ HeadAt(h, i - 1) /\ r[i - 1].takes = 2
    /\ \/ first = "from" /\ r[i - 1].key = "app" /\ r[i - 1].also = {} /\ r[i - 1].values = values
       \/ first = "last" /\ r[i - 1].key = "after" /\ second \in DOMAIN Durations
       \/ first = "before" /\ r[i - 1].key = "after" /\ second = "lunch"

LEMMA UnifiedTakes ==
  ASSUME NEW query \in Seq(AllTokens), NEW h, Accepts(h, query, UnifiedReadings(query)),
         NEW i \in 1..Len(query), ~HeadAt(h, i)
  PROVE TakenBy(h, UnifiedReadings(query), i, UnifiedWord(query[i - 1]), UnifiedWord(query[i]),
                ParseFacetValue("app", Whole(query[i])))
<1> DEFINE r == UnifiedReadings(query) x == r[i - 1]
           first == UnifiedWord(query[i - 1]) second == UnifiedWord(query[i])
           values == ParseFacetValue("app", Whole(query[i]))
<1>1. i > 1 /\ i - 1 \in 1..Len(query) /\ HeadAt(h, i - 1) /\ x.takes = 2
  <2> HIDE DEF r
  <2>1. Accepts(h, query, r)
    BY DEF r
  <2> QED
    BY ONLY <2>1, query \in Seq(AllTokens), i \in 1..Len(query), ~HeadAt(h, i), TakenBefore
<1>2. x = UnifiedReading(query, i - 1)
  BY ONLY <1>1, query \in Seq(AllTokens), WellReadings
<1>3. x.values # {}
  <2>1. StepOf(h, query, r, i - 1)
    <3> HIDE DEF r
    <3>1. Accepts(h, query, r)
      BY DEF r
    <3> QED
      BY ONLY <1>1, <3>1, query \in Seq(AllTokens), AcceptedSteps
  <2>2. ~FiledBadly(h[(i - 1) - 1].constraints, x)
    BY ONLY <1>1, <2>1 DEF StepOf
  <2> QED
    BY ONLY <2>2 DEF FiledBadly, RefusedAfter
<1>4. TextBehind(query, i - 1) = Whole(query[i])
  BY <1>1 DEF TextBehind
<1>5. PairOf(x, first, second, values)
  <2>1. UnifiedReading(query, i - 1).takes = 2
    BY ONLY <1>1, <1>2
  <2>2. PairOf(UnifiedReading(query, i - 1), UnifiedWord(query[i - 1]), Word(NormalizeLookup(TextBehind(query, i - 1))),
               ParseFacetValue("app", TextBehind(query, i - 1)))
    BY ONLY <2>1, UnifiedLeaves
  <2> QED
    BY ONLY <1>2, <1>4, <2>2 DEF UnifiedWord
<1> HIDE DEF first, second, values, r
<1> QED
  BY ONLY <1>1, <1>3, <1>5 DEF PairOf, TakenBy, first, second, values, r

LEMMA NaturalTakes ==
  ASSUME NEW query \in Seq(AllTokens), NEW k, Accepts(k, query, NaturalReadings(query)),
         NEW i \in 1..Len(query), ~HeadAt(k, i)
  PROVE TakenBy(k, NaturalReadings(query), i, NaturalWord(query[i - 1]), NaturalWord(query[i]),
                RecallValue("app", Whole(query[i])))
<1> DEFINE r == NaturalReadings(query) x == r[i - 1]
           first == NaturalWord(query[i - 1]) second == NaturalWord(query[i])
           values == RecallValue("app", Whole(query[i]))
<1>1. i > 1 /\ i - 1 \in 1..Len(query) /\ HeadAt(k, i - 1) /\ x.takes = 2
  <2> HIDE DEF r
  <2>1. Accepts(k, query, r)
    BY DEF r
  <2> QED
    BY ONLY <2>1, query \in Seq(AllTokens), i \in 1..Len(query), ~HeadAt(k, i), TakenBefore
<1>2. x = NaturalReading(query, i - 1)
  BY ONLY <1>1, query \in Seq(AllTokens), WellReadings
<1>3. x.values # {}
  <2>1. StepOf(k, query, r, i - 1)
    <3> HIDE DEF r
    <3>1. Accepts(k, query, r)
      BY DEF r
    <3> QED
      BY ONLY <1>1, <3>1, query \in Seq(AllTokens), AcceptedSteps
  <2>2. ~FiledBadly(k[(i - 1) - 1].constraints, x)
    BY ONLY <1>1, <2>1 DEF StepOf
  <2> QED
    BY ONLY <2>2 DEF FiledBadly, RefusedAfter
<1>4. TextBehind(query, i - 1) = Whole(query[i])
  BY <1>1 DEF TextBehind
<1>5. PairOf(x, first, second, values)
  <2>1. NaturalReading(query, i - 1).takes = 2
    BY ONLY <1>1, <1>2
  <2>2. PairOf(NaturalReading(query, i - 1), NaturalWord(query[i - 1]), Word(AsciiLower(TextBehind(query, i - 1))),
               RecallValue("app", TextBehind(query, i - 1)))
    BY ONLY <2>1, NaturalLeaves
  <2> QED
    BY ONLY <1>2, <1>4, <2>2 DEF NaturalWord
<1> HIDE DEF first, second, values, r
<1> QED
  BY ONLY <1>1, <1>3, <1>5 DEF PairOf, TakenBy, first, second, values, r

LEMMA UnifiedToo ==
  ASSUME NEW query \in Seq(AllTokens), NEW i \in 1..Len(query)
  PROVE NaturalWord(query[i]) # NoWord => UnifiedWord(query[i]) = NaturalWord(query[i])
BY TextBehindIs, WordsFit DEF NaturalWord, UnifiedWord

\* What recall reads at a token that both are at, the unified grammar reads too.
LEMMA ReadTogether ==
  ASSUME NEW query \in Seq(AllTokens), NEW i \in 1..Len(query), NaturalReadings(query)[i].takes # 0
  PROVE /\ UnifiedReadings(query)[i].takes = NaturalReadings(query)[i].takes
        /\ UnifiedReadings(query)[i].key = NaturalReadings(query)[i].key
<1>1. NaturalReadings(query)[i] = NaturalReading(query, i) /\ UnifiedReadings(query)[i] = UnifiedReading(query, i)
  BY ONLY query \in Seq(AllTokens), i \in 1..Len(query), WellReadings
<1>2. NaturalReading(query, i).takes # 0
  BY <1>1
<1>3. ReadFits(NaturalReading(query, i), UnifiedReading(query, i))
  BY ONLY <1>2, query \in Seq(AllTokens), i \in 1..Len(query), ReadingsFit
<1> QED
  BY ONLY <1>1, <1>3 DEF ReadFits

\* Where they part, and the text is the same in the end, the unified grammar leaves
\* the same token in it further on.
LEMMA PartedText ==
  ASSUME NEW query \in Seq(AllTokens), NEW h, NEW k, Both(query, h, k), h[Len(query)].text = k[Len(query)].text,
         NEW i \in 1..Len(query), PartAt(query, h, k, i)
  PROVE \E m \in i + 1..Len(query) :
           /\ HeadAt(h, m) /\ UnifiedReadings(query)[m].takes = 0 /\ query[m] = query[i]
           /\ Len(h[m - 1].text) = Len(k[i - 1].text)
<1> DEFINE rn == NaturalReadings(query) ru == UnifiedReadings(query) n == Len(query)
           t == k[i - 1].text j == Len(t) + 1
<1>1. Accepts(h, query, ru) /\ Accepts(k, query, rn)
  BY ONLY Both(query, h, k) DEF Both
<1>2. HeadAt(k, i) /\ rn[i].takes = 0 /\ ru[i].takes # 0 /\ h[i - 1].text = t
  BY ONLY PartAt(query, h, k, i) DEF PartAt, Aligned
<1>3. i \in 0..n /\ n \in 0..n /\ i <= n /\ i - 1 \in 0..n /\ n \in Nat /\ i \in Nat
  OBVIOUS
<1> HIDE DEF rn, ru
<1>4. StepOf(k, query, rn, i)
  BY ONLY <1>1, query \in Seq(AllTokens), i \in 1..Len(query), AcceptedSteps
<1>5. k[i].text = Append(t, query[i]) /\ t \in Seq(AllTokens)
  BY ONLY <1>2, <1>4 DEF StepOf, ParseStates
<1>6. TextStays(k[i], k[n])
  <2> HIDE DEF n
  <2>1. \A b \in 0..n : i <= b => TextStays(k[i], k[b])
    BY ONLY <1>1, <1>3, query \in Seq(AllTokens), TextGrows DEF n
  <2> QED
    BY ONLY <1>3, <2>1
<1>7. Len(t) \in Nat /\ Len(k[i].text) = j /\ k[i].text[j] = query[i] /\ j \in 1..Len(k[i].text)
  <2> HIDE DEF t
  <2> QED
    BY ONLY <1>5
<1>8. j <= Len(k[n].text) /\ k[n].text[j] = query[i]
  BY ONLY <1>6, <1>7 DEF TextStays
<1>9. h[n].text = k[n].text
  OBVIOUS
<1>10. h[n] \in ParseStates /\ \A b \in 0..n : h[b] \in ParseStates
  BY ONLY <1>1, <1>3, query \in Seq(AllTokens), AcceptedEnds
<1>11. Len(h[n].text) \in Nat
  BY ONLY <1>10 DEF ParseStates
<1>12. j \in 1..Len(h[n].text)
  BY ONLY <1>7, <1>8, <1>9, <1>11
<1>13. PICK m \in 1..n : KeptFor(h, query, ru, j, m)
  <2> HIDE DEF j
  <2> QED
    BY ONLY <1>1, <1>12, query \in Seq(AllTokens), KeptAt DEF n
<1>14. HeadAt(h, m) /\ ru[m].takes = 0 /\ Len(h[m - 1].text) = Len(t) /\ query[m] = query[i]
  BY ONLY <1>7, <1>8, <1>9, <1>13 DEF KeptFor, n
<1>15. m # i
  BY ONLY <1>2, <1>14
<1>16. ~(m < i)
  <2> SUFFICES ASSUME m < i PROVE FALSE
    OBVIOUS
  <2>1. m \in 0..n /\ m <= i - 1
    BY ONLY <1>3, <1>13, m < i
  <2> HIDE DEF n
  <2>2. \A b \in 0..n : m <= b => TextStays(h[m], h[b])
    BY ONLY <1>1, <2>1, query \in Seq(AllTokens), TextGrows DEF n
  <2>3. TextStays(h[m], h[i - 1])
    BY ONLY <1>3, <2>1, <2>2
  <2>4. Len(h[m].text) <= Len(t)
    BY ONLY <1>2, <2>3 DEF TextStays
  <2>5. StepOf(h, query, ru, m)
    BY ONLY <1>1, <1>13, query \in Seq(AllTokens), AcceptedSteps DEF n
  <2>6. h[m].text = Append(h[m - 1].text, query[m]) /\ h[m - 1].text \in Seq(AllTokens)
    BY ONLY <1>14, <2>5 DEF StepOf, ParseStates
  <2>7. Len(h[m].text) = Len(h[m - 1].text) + 1
    BY ONLY <2>6
  <2> HIDE DEF t
  <2> QED
    BY ONLY <1>7, <1>14, <2>4, <2>7
<1>17. m \in i + 1..n
  BY ONLY <1>3, <1>13, <1>15, <1>16
<1> QED
  BY ONLY <1>14, <1>17 DEF ru, n, t

LEMMA SugarIsNoSpan == \A w \in {"from", "last", "before", "lunch"} : w \notin DOMAIN Durations /\ w # NoWord
BY VocabularyIs, NoWordIs DEF Sugar

LEMMA EatenAlike ==
  ASSUME NEW query, NEW p, NEW q, p.read = q.read, p.text = q.text
  PROVE Eaten(query, p) = Eaten(query, q)
BY DEF Eaten

\* They do not part at "before lunch": recall's grammar would have read the one that
\* it leaves here as well, and lost as many of those words as the other.
LEMMA NotAtLunch ==
  ASSUME NEW query \in Seq(AllTokens), NEW h, NEW k, Both(query, h, k), h[Len(query)].text = k[Len(query)].text,
         NEW i \in 1..Len(query), PartAt(query, h, k, i), i < Len(query),
         UnifiedWord(query[i]) = "before", UnifiedReadings(query)[i].takes = 2
  PROVE FALSE
<1> DEFINE rn == NaturalReadings(query) ru == UnifiedReadings(query) n == Len(query)
           uw(m) == UnifiedWord(query[m]) nw(m) == NaturalWord(query[m])
<1>1. Accepts(h, query, ru) /\ Accepts(k, query, rn)
  BY ONLY Both(query, h, k) DEF Both
<1>2. HeadAt(h, i) /\ HeadAt(k, i) /\ rn[i].takes = 0 /\ ru[i].takes = 2
      /\ h[i - 1].read = k[i - 1].read /\ h[i - 1].text = k[i - 1].text
  BY ONLY PartAt(query, h, k, i), UnifiedReadings(query)[i].takes = 2 DEF PartAt, Aligned
<1>3. i - 1 \in 0..n /\ n \in 0..n /\ i - 1 <= n /\ (i - 1) + 1 = i /\ n \in Nat /\ i \in Nat
  OBVIOUS
<1>4. \A m \in 1..n : rn[m] = NaturalReading(query, m) /\ ru[m] = UnifiedReading(query, m)
  BY ONLY query \in Seq(AllTokens), WellReadings
<1>5. \A m \in 1..n : nw(m) # NoWord => uw(m) = nw(m)
  BY ONLY query \in Seq(AllTokens), UnifiedToo
<1>6. \A m \in 1..n : rn[m].takes # 0 => ru[m].takes = rn[m].takes /\ ru[m].key = rn[m].key
  BY ONLY query \in Seq(AllTokens), ReadTogether
<1>7. \A m \in 1..n : ~HeadAt(h, m) => TakenBy(h, ru, m, uw(m - 1), uw(m), ParseFacetValue("app", Whole(query[m])))
  BY ONLY <1>1, query \in Seq(AllTokens), UnifiedTakes
<1>8. LunchWise(query, ru) /\ LunchWise(query, rn)
  BY ONLY query \in Seq(AllTokens), UnifiedLunches, NaturalLunches
<1>9. \A m \in 1..n : HeadAt(k, m) /\ rn[m].takes = 2 =>
         m < n /\ m + 1 \in 1..n /\
         (\/ nw(m) = "from" /\ rn[m].key = "app" /\ rn[m].also = {}
          \/ nw(m) = "last" /\ rn[m].key = "after" /\ rn[m].also = {}
          \/ nw(m) = "before" /\ rn[m].key = "after" /\ nw(m + 1) = "lunch")
  <2> SUFFICES ASSUME NEW m \in 1..n, HeadAt(k, m), rn[m].takes = 2
               PROVE m < n /\ m + 1 \in 1..n /\
         (\/ nw(m) = "from" /\ rn[m].key = "app" /\ rn[m].also = {}
          \/ nw(m) = "last" /\ rn[m].key = "after" /\ rn[m].also = {}
          \/ nw(m) = "before" /\ rn[m].key = "after" /\ nw(m + 1) = "lunch")
    OBVIOUS
  <2>1. NaturalReading(query, m).takes = 2
    BY ONLY <1>4, m \in 1..n, rn[m].takes = 2
  <2>2. m < n /\ PairOf(NaturalReading(query, m), NaturalWord(query[m]), Word(AsciiLower(TextBehind(query, m))),
                       RecallValue("app", TextBehind(query, m)))
    BY ONLY <2>1, NaturalLeaves
  <2>3. Word(AsciiLower(TextBehind(query, m))) = nw(m + 1)
    BY ONLY <2>2 DEF TextBehind, NaturalWord
  <2>4. m + 1 \in 1..n
    BY ONLY <2>2, <1>3, m \in 1..n
  <2> QED
    BY ONLY <1>4, <2>2, <2>3, <2>4, m \in 1..n DEF PairOf
<1>10. ru[i].key = "after" /\ ru[i].also # {}
  <2>1. UnifiedReading(query, i).takes = 2
    BY ONLY <1>2, <1>4, i \in 1..Len(query)
  <2>2. PairOf(UnifiedReading(query, i), UnifiedWord(query[i]), Word(NormalizeLookup(TextBehind(query, i))),
               ParseFacetValue("app", TextBehind(query, i)))
    BY ONLY <2>1, UnifiedLeaves
  <2>3. UnifiedReading(query, i).key = "after" /\ UnifiedReading(query, i).also = {Noon}
    BY ONLY <2>2, UnifiedWord(query[i]) = "before" DEF PairOf
  <2> QED
    BY ONLY <1>4, <2>3, i \in 1..Len(query)
<1> HIDE DEF rn, ru
<1>11. \A a \in 1..n, b \in 1..n : HeadAt(h, a) /\ HeadAt(h, b) /\ ru[a].takes # 0 /\ ru[b].takes # 0
          /\ ru[a].key = ru[b].key /\ ru[a].key \notin StoreKeys => a = b
  BY ONLY <1>1, query \in Seq(AllTokens), KeyOnce
<1>12. "app" \notin StoreKeys /\ "after" \notin StoreKeys
  BY DEF StoreKeys
<1> DEFINE fromU == AnyFrom(h, query, ru, i - 1, n) lunchU == AnyLunch(h, ru, i - 1, n)
           fromN == AnyFrom(k, query, rn, i - 1, n) lunchN == AnyLunch(k, rn, i - 1, n)
<1>13. lunchU
  <2>1. LunchAt(h, ru, i)
    BY ONLY <1>2, <1>10 DEF LunchAt
  <2>2. i \in (i - 1) + 1..n
    BY ONLY <1>3, i \in 1..Len(query)
  <2> QED
    BY ONLY <2>1, <2>2 DEF AnyLunch
<1>14. lunchN /\ (fromN => fromU) /\ (fromU => fromN)
  <2> DEFINE a == Eaten(query, h[i - 1]) b == Eaten(query, h[n]) c == Eaten(query, k[i - 1]) d == Eaten(query, k[n])
  <2>1. b = a + (IF fromU THEN 1 ELSE 0) + (IF lunchU THEN 2 ELSE 0) /\ b \in Int
    <3> HIDE DEF n
    <3>1. \A m \in 0..n : i - 1 <= m =>
            /\ Eaten(query, h[m]) = Eaten(query, h[i - 1]) + (IF AnyFrom(h, query, ru, i - 1, m) THEN 1 ELSE 0)
                                                           + (IF AnyLunch(h, ru, i - 1, m) THEN 2 ELSE 0)
            /\ Eaten(query, h[m]) \in Int
      BY ONLY <1>1, <1>3, <1>8, query \in Seq(AllTokens), EatenIs DEF n
    <3> QED
      BY ONLY <1>3, <3>1
  <2>2. d = c + (IF fromN THEN 1 ELSE 0) + (IF lunchN THEN 2 ELSE 0) /\ d \in Int
    <3> HIDE DEF n
    <3>1. \A m \in 0..n : i - 1 <= m =>
            /\ Eaten(query, k[m]) = Eaten(query, k[i - 1]) + (IF AnyFrom(k, query, rn, i - 1, m) THEN 1 ELSE 0)
                                                           + (IF AnyLunch(k, rn, i - 1, m) THEN 2 ELSE 0)
            /\ Eaten(query, k[m]) \in Int
      BY ONLY <1>1, <1>3, <1>8, query \in Seq(AllTokens), EatenIs DEF n
    <3> QED
      BY ONLY <1>3, <3>1
  <2>3. a = c
    BY ONLY <1>2, EatenAlike
  <2>4. b = d
    <3>1. h[n].read = n
      BY ONLY <1>1, query \in Seq(AllTokens), AcceptedEnds
    <3>2. k[n].read = n
      BY ONLY <1>1, query \in Seq(AllTokens), AcceptedEnds
    <3>3. h[n].read = k[n].read /\ h[n].text = k[n].text
      BY ONLY <3>1, <3>2, h[Len(query)].text = k[Len(query)].text
    <3> QED
      BY ONLY <3>3, EatenAlike
  <2>5. a \in Int
    <3>1. \A m \in 0..Len(query) : i - 1 <= m =>
            /\ Eaten(query, h[m]) = Eaten(query, h[i - 1]) + (IF AnyFrom(h, query, ru, i - 1, m) THEN 1 ELSE 0)
                                                           + (IF AnyLunch(h, ru, i - 1, m) THEN 2 ELSE 0)
            /\ Eaten(query, h[m]) \in Int
      BY ONLY <1>1, <1>3, <1>8, query \in Seq(AllTokens), EatenIs
    <3>2. i - 1 \in 0..Len(query) /\ i - 1 <= i - 1
      BY ONLY <1>3
    <3> QED
      BY ONLY <3>1, <3>2
  <2> HIDE DEF a, b, c, d, fromU, fromN, lunchU, lunchN
  <2> QED
    BY ONLY <1>13, <2>1, <2>2, <2>3, <2>4, <2>5
<1> HIDE DEF fromU, fromN, lunchU, lunchN
<1>15. PICK j \in i..n : LunchAt(k, rn, j)
  BY ONLY <1>3, <1>14 DEF lunchN, AnyLunch
<1>16. HeadAt(k, j) /\ rn[j].takes = 2 /\ rn[j].also # {} /\ j # i /\ j \in 1..n /\ j - 1 \in 1..n /\ j - 1 >= i /\ j \in Nat
  <2>1. HeadAt(k, j) /\ rn[j].takes = 2 /\ rn[j].also # {}
    BY ONLY <1>15 DEF LunchAt
  <2>2. j # i
    BY ONLY <1>2, <2>1
  <2> QED
    BY ONLY <1>3, <1>15, <2>1, <2>2, i \in 1..Len(query)
<1>17. nw(j) = "before" /\ rn[j].key = "after"
  BY ONLY <1>9, <1>16
<1>18. uw(j) = "before"
  BY ONLY <1>5, <1>16, <1>17, SugarIsNoSpan
<1>19. ~HeadAt(h, j)
  <2> SUFFICES ASSUME HeadAt(h, j) PROVE FALSE
    OBVIOUS
  <2>1. ru[j].takes = 2 /\ ru[j].key = "after"
    BY ONLY <1>6, <1>16, <1>17
  <2>2. j = i
    BY ONLY <1>2, <1>10, <1>11, <1>12, <1>16, <2>1, HeadAt(h, j), i \in 1..Len(query)
  <2> QED
    BY ONLY <1>16, <2>2
<1>20. HeadAt(h, j - 1) /\ ru[j - 1].takes = 2 /\ ru[j - 1].key = "app"
  <2>1. TakenBy(h, ru, j, uw(j - 1), uw(j), ParseFacetValue("app", Whole(query[j])))
    BY ONLY <1>7, <1>16, <1>19
  <2> HIDE DEF uw
  <2> QED
    BY ONLY <1>18, <2>1, SugarIsNoSpan DEF TakenBy
<1>21. fromU
  <2>1. query[j] \in AllTokens
    BY ONLY <1>16, query \in Seq(AllTokens)
  <2>2. query[(j - 1) + 1] \in Lunches
    <3>1. (j - 1) + 1 = j
      BY ONLY <1>16
    <3> QED
      BY ONLY <1>18, <2>1, <3>1 DEF Lunches
  <2>3. FromAt(h, query, ru, j - 1)
    BY ONLY <1>20, <2>2 DEF FromAt
  <2>4. j - 1 \in (i - 1) + 1..n
    BY ONLY <1>3, <1>16
  <2> QED
    BY ONLY <2>3, <2>4 DEF fromU, AnyFrom
<1>22. PICK f \in i..n : FromAt(k, query, rn, f)
  BY ONLY <1>3, <1>14, <1>21 DEF fromN, AnyFrom
<1>23. f \in 1..n /\ HeadAt(k, f) /\ rn[f].takes = 2 /\ rn[f].key = "app" /\ f \in Nat
  BY ONLY <1>3, <1>22, i \in 1..Len(query) DEF FromAt
<1>24. "app" # "after"
  OBVIOUS
<1>25. nw(f) = "from"
  BY ONLY <1>9, <1>23, <1>24
<1>26. uw(f) = "from"
  BY ONLY <1>5, <1>23, <1>25, SugarIsNoSpan
<1>27. CASE HeadAt(h, f)
  <2>1. ru[f].takes = 2 /\ ru[f].key = "app"
    BY ONLY <1>6, <1>23
  <2>2. f = j - 1
    BY ONLY <1>11, <1>12, <1>16, <1>20, <1>23, <1>27, <2>1
  <2>3. StepOf(k, query, rn, f)
    BY ONLY <1>1, <1>23, query \in Seq(AllTokens), AcceptedSteps
  <2>4. k[f].read = f - 1 + 2
    BY ONLY <1>23, <2>3 DEF StepOf
  <2>5. k[j - 1].read = j - 1
    BY ONLY <1>16 DEF HeadAt
  <2> QED
    BY ONLY <1>16, <1>23, <2>2, <2>4, <2>5
<1>28. CASE ~HeadAt(h, f)
  <2>1. TakenBy(h, ru, f, uw(f - 1), uw(f), ParseFacetValue("app", Whole(query[f])))
    BY ONLY <1>7, <1>23, <1>28
  <2>2. f > 1 /\ HeadAt(h, f - 1) /\ ru[f - 1].takes = 2 /\ ru[f - 1].key = "app"
    <3> HIDE DEF uw
    <3> QED
      BY ONLY <1>26, <2>1, SugarIsNoSpan DEF TakenBy
  <2>3. f - 1 \in 1..n
    BY ONLY <1>3, <1>23, <2>2
  <2>4. f - 1 = j - 1
    BY ONLY <1>11, <1>12, <1>16, <1>20, <2>2, <2>3
  <2>5. f = j
    BY ONLY <1>16, <1>23, <2>4
  <2> QED
    BY ONLY <1>17, <1>25, <2>5
<1> QED
  BY ONLY <1>27, <1>28

LEMMA OneWord ==
  ASSUME NEW s \in Spellings, NEW t \in Spellings, Word(NormalizeLookup(s)) # NoWord,
         Word(NormalizeLookup(t)) = Word(NormalizeLookup(s))
  PROVE NormalizeLookup(s) = NormalizeLookup(t)
<1>1. Len(s.is) = 1 /\ Len(t.is) = 1 /\ Head(s.is) = Head(t.is)
  BY WordsAre
<1>2. s.is \in Seq(STRING \cup {":"}) /\ t.is \in Seq(STRING \cup {":"})
  BY DEF Spellings
<1>3. s.is = t.is
  BY ONLY <1>1, <1>2
<1> QED
  BY <1>3, SameLookup

\* The app that recall takes the word "from" itself for, in other letters.
LEMMA FromFrom ==
  ASSUME NEW s \in Spellings, NEW t \in Spellings, Word(NormalizeLookup(s)) = "from", Word(NormalizeLookup(t)) = "from",
         RecallValue("app", s) # {}
  PROVE ParseFacetValue("app", t) # {} /\ Fits("app", AnyOf(RecallValue("app", s)), AnyOf(ParseFacetValue("app", t)))
<1>1. "from" # NoWord /\ "app" \in RecallKeys
  BY NoWordIs DEF RecallKeys
<1>2. NormalizeLookup(s) = NormalizeLookup(t)
  BY ONLY <1>1, s \in Spellings, t \in Spellings, Word(NormalizeLookup(s)) = "from", Word(NormalizeLookup(t)) = "from", OneWord
<1>3. ParseFacetValue("app", s) # {} /\ Fits("app", AnyOf(RecallValue("app", s)), AnyOf(ParseFacetValue("app", s)))
  BY ONLY <1>1, s \in Spellings, RecallValue("app", s) # {}, ValuesFit
<1>4. s.is = t.is
  <2>1. NormalizeLookup(s).is = s.is /\ NormalizeLookup(t).is = t.is
    BY ONLY s \in Spellings, t \in Spellings, TextsAre
  <2> QED
    BY ONLY <1>2, <2>1
<1>5. ParseFacetValue("app", t) = ParseFacetValue("app", s)
  <2>1. ParseFacetValue("app", s) = (IF Blank(s) THEN {} ELSE {NormalizeLookup(s)})
    BY ONLY <1>1, s \in Spellings, ValueIs
  <2>2. ParseFacetValue("app", t) = (IF Blank(t) THEN {} ELSE {NormalizeLookup(t)})
    BY ONLY <1>1, t \in Spellings, ValueIs
  <2> QED
    BY ONLY <1>2, <1>4, <2>1, <2>2 DEF Blank
<1> QED
  BY ONLY <1>3, <1>5

\* They part at a word of the grammar only where "from" names the app and the text
\* ends with the same word: then both have that app, one as it is spelt.
LEMMA PartedAtWord ==
  ASSUME NEW query \in Seq(AllTokens), NEW h, NEW k, Both(query, h, k), h[Len(query)].text = k[Len(query)].text,
         NEW i \in 1..Len(query), PartAt(query, h, k, i), i < Len(query), UnifiedWord(query[i]) \in {"from", "last"}
  PROVE MatchingFilters(k[Len(query)].constraints, h[Len(query)].constraints)
<1> DEFINE rn == NaturalReadings(query) ru == UnifiedReadings(query) n == Len(query)
           uw(m) == UnifiedWord(query[m]) nw(m) == NaturalWord(query[m])
           t == k[i - 1].text
<1>1. Accepts(h, query, ru) /\ Accepts(k, query, rn)
  BY ONLY Both(query, h, k) DEF Both
<1>2. HeadAt(h, i) /\ HeadAt(k, i) /\ rn[i].takes = 0 /\ h[i - 1].text = t
      /\ MatchingFilters(k[i - 1].constraints, h[i - 1].constraints)
  BY ONLY PartAt(query, h, k, i) DEF PartAt, Aligned
<1>3. i - 1 \in 0..n /\ n \in 0..n /\ n \in Nat /\ i \in Nat /\ i \in 0..n /\ n \in 1..n /\ i < n
  BY i < Len(query)
<1>4. \A m \in 1..n : rn[m] = NaturalReading(query, m) /\ ru[m] = UnifiedReading(query, m)
                      /\ WellRead(rn[m], m, n) /\ WellRead(ru[m], m, n)
  BY ONLY query \in Seq(AllTokens), WellReadings
<1>5. \A m \in 1..n : nw(m) # NoWord => uw(m) = nw(m)
  BY ONLY query \in Seq(AllTokens), UnifiedToo
<1>6. \A m \in 1..n : rn[m].takes # 0 => ru[m].takes = rn[m].takes /\ ru[m].key = rn[m].key
  BY ONLY query \in Seq(AllTokens), ReadTogether
<1>7. \A m \in 1..n : ~HeadAt(h, m) => TakenBy(h, ru, m, uw(m - 1), uw(m), ParseFacetValue("app", Whole(query[m])))
  BY ONLY <1>1, query \in Seq(AllTokens), UnifiedTakes
<1>8. \A m \in 1..n : ~HeadAt(k, m) => TakenBy(k, rn, m, nw(m - 1), nw(m), RecallValue("app", Whole(query[m])))
  BY ONLY <1>1, query \in Seq(AllTokens), NaturalTakes
<1>9. PICK m \in i + 1..n : HeadAt(h, m) /\ ru[m].takes = 0 /\ query[m] = query[i] /\ Len(h[m - 1].text) = Len(t)
  BY ONLY query \in Seq(AllTokens), Both(query, h, k), h[Len(query)].text = k[Len(query)].text,
     i \in 1..Len(query), PartAt(query, h, k, i), PartedText, SMTT(30)
<1>10. m = n
  <2>1. UnifiedReading(query, m).takes = 0 /\ m \in 1..n
    BY ONLY <1>3, <1>4, <1>9, i \in 1..Len(query)
  <2>2. ~(UnifiedWord(query[m]) \in {"from", "last"} /\ m < Len(query))
    BY ONLY <2>1, UnifiedLeaves
  <2>3. ~(m < n)
    BY ONLY <1>9, <2>2, UnifiedWord(query[i]) \in {"from", "last"}
  <2> QED
    BY ONLY <1>3, <1>9, <2>3
<1>11. HeadAt(h, n) /\ ru[n].takes = 0 /\ query[n] = query[i] /\ Len(h[n - 1].text) = Len(t)
  BY ONLY <1>9, <1>10
<1>12. RecallKey(query[n]) = NoWord /\ NaturalWord(query[n]) = NoWord
  <2>1. NaturalReading(query, i).takes = 0
    BY ONLY <1>2, <1>4, i \in 1..Len(query)
  <2>2. RecallKey(query[i]) = NoWord /\ ~(NaturalWord(query[i]) \in {"from", "last"} /\ i < Len(query))
    BY ONLY <2>1, NaturalLeaves
  <2>3. nw(i) \notin {"from", "last"}
    BY ONLY <1>3, <2>2
  <2>4. nw(i) = NoWord
    BY ONLY <1>5, <2>3, i \in 1..Len(query), UnifiedWord(query[i]) \in {"from", "last"}
  <2> QED
    BY ONLY <1>11, <2>2, <2>4
<1>13. rn[n].takes = 0
  <2>1. NaturalReading(query, n).takes = 0
    BY ONLY <1>12, NaturalLeaves
  <2> QED
    BY ONLY <1>3, <1>4, <2>1
<1> HIDE DEF rn, ru
<1>14. \A a \in 1..n : StepOf(h, query, ru, a) /\ StepOf(k, query, rn, a)
  <2>1. \A a \in 1..n : StepOf(h, query, ru, a)
    BY ONLY <1>1, query \in Seq(AllTokens), AcceptedSteps
  <2>2. \A a \in 1..n : StepOf(k, query, rn, a)
    BY ONLY <1>1, query \in Seq(AllTokens), AcceptedSteps
  <2> QED
    BY ONLY <2>1, <2>2
\* Recall leaves nothing more in the text.
<1>15. \A a \in i + 1..n : HeadAt(k, a) => rn[a].takes # 0
  <2> SUFFICES ASSUME NEW a \in i + 1..n, HeadAt(k, a), rn[a].takes = 0 PROVE FALSE
    OBVIOUS
  <2>1. a \in 1..n /\ a - 1 \in 0..n /\ a \in 0..n /\ i <= a - 1 /\ a <= n
    BY ONLY <1>3, a \in i + 1..n
  <2>2. StepOf(k, query, rn, a) /\ StepOf(k, query, rn, i) /\ StepOf(h, query, ru, n)
    BY ONLY <1>3, <1>14, <2>1, i \in 1..Len(query)
  <2>3. k[a].text = Append(k[a - 1].text, query[a]) /\ k[a - 1].text \in Seq(AllTokens)
    BY ONLY <2>2, HeadAt(k, a), rn[a].takes = 0 DEF StepOf, ParseStates
  <2>4. k[i].text = Append(t, query[i]) /\ t \in Seq(AllTokens)
    BY ONLY <1>2, <2>2 DEF StepOf, ParseStates
  <2>5. h[n].text = Append(h[n - 1].text, query[n]) /\ h[n - 1].text \in Seq(AllTokens)
    BY ONLY <1>11, <2>2 DEF StepOf, ParseStates
  <2>6. TextStays(k[i], k[a - 1]) /\ TextStays(k[a], k[n])
    <3>1. \A b \in 0..n : i <= b => TextStays(k[i], k[b])
      BY ONLY <1>1, <1>3, query \in Seq(AllTokens), TextGrows
    <3>2. \A b \in 0..n : a <= b => TextStays(k[a], k[b])
      BY ONLY <1>1, <2>1, query \in Seq(AllTokens), TextGrows
    <3> QED
      BY ONLY <1>3, <2>1, <3>1, <3>2
  <2>7. Len(k[i].text) = Len(t) + 1 /\ Len(k[a].text) = Len(k[a - 1].text) + 1 /\ Len(h[n].text) = Len(t) + 1
        /\ Len(t) \in Nat /\ Len(k[a - 1].text) \in Nat
    <3> DEFINE t1 == k[a - 1].text t2 == h[n - 1].text
    <3> HIDE DEF t, t1, t2
    <3>1. Len(Append(t1, query[a])) = Len(t1) + 1 /\ Len(t1) \in Nat
      BY ONLY <2>3 DEF t1
    <3>2. Len(Append(t, query[i])) = Len(t) + 1 /\ Len(t) \in Nat
      BY ONLY <2>4
    <3>3. Len(Append(t2, query[n])) = Len(t2) + 1
      BY ONLY <2>5 DEF t2
    <3>4. Len(t2) = Len(t)
      BY ONLY <1>11 DEF t2
    <3> QED
      BY ONLY <2>3, <2>4, <2>5, <3>1, <3>2, <3>3, <3>4 DEF t1, t2
  <2>8. Len(k[i].text) <= Len(k[a - 1].text) /\ Len(k[a].text) <= Len(k[n].text) /\ Len(h[n].text) = Len(k[n].text)
    BY ONLY <2>6, h[Len(query)].text = k[Len(query)].text DEF TextStays
  <2> HIDE DEF t
  <2> QED
    BY ONLY <2>7, <2>8
<1>16. ~HeadAt(k, n)
  BY ONLY <1>3, <1>13, <1>15
<1>17. n > 1 /\ HeadAt(k, n - 1) /\ rn[n - 1].takes = 2 /\ nw(n - 1) = "from" /\ rn[n - 1].key = "app" /\ rn[n - 1].also = {}
       /\ rn[n - 1].values = RecallValue("app", Whole(query[n]))
  <2>1. TakenBy(k, rn, n, nw(n - 1), nw(n), RecallValue("app", Whole(query[n])))
    BY ONLY <1>3, <1>8, <1>16
  <2>2. nw(n) = NoWord
    BY ONLY <1>12
  <2>3. NoWord \notin DOMAIN Durations /\ NoWord # "lunch"
    BY VocabularyIs, NoWordIs
  <2> HIDE DEF nw
  <2> QED
    BY ONLY <2>1, <2>2, <2>3 DEF TakenBy
<1>18. n - 1 \in 1..n /\ n - 1 # i /\ n - 1 \in i + 1..n /\ uw(n - 1) = "from" /\ n - 1 \in Nat /\ (n - 1) - 1 = n - 2
  <2>1. n - 1 \in 1..n /\ n - 1 # i
    BY ONLY <1>2, <1>3, <1>17
  <2>2. uw(n - 1) = "from"
    BY ONLY <1>5, <1>17, <2>1, SugarIsNoSpan
  <2> QED
    BY ONLY <1>3, <2>1, <2>2
<1>19. ~HeadAt(h, n - 1)
  <2> SUFFICES ASSUME HeadAt(h, n - 1) PROVE FALSE
    OBVIOUS
  <2> DEFINE a == n - 1 takes == rn[a].takes
  <2>0. takes = 2 /\ a \in 1..n
    BY ONLY <1>17, <1>18
  <2>1. ru[n - 1].takes = 2
    <3>1. rn[a].takes # 0 => ru[a].takes = rn[a].takes
      BY ONLY <1>6, <2>0
    <3> HIDE DEF a, takes
    <3>2. takes # 0 => ru[a].takes = takes
      BY ONLY <3>1 DEF takes
    <3>3. ru[a].takes = 2
      BY ONLY <2>0, <3>2
    <3> QED
      BY ONLY <3>3 DEF a
  <2>2. StepOf(h, query, ru, n - 1)
    BY ONLY <1>14, <1>18
  <2>3. h[n - 1].read = (n - 1) - 1 + 2
    BY ONLY <2>1, <2>2, HeadAt(h, n - 1) DEF StepOf
  <2>4. h[n - 1].read = n - 1
    BY ONLY <1>11 DEF HeadAt
  <2> QED
    BY ONLY <1>3, <2>3, <2>4
<1>20. n - 1 > 1 /\ HeadAt(h, n - 2) /\ ru[n - 2].takes = 2 /\ uw(n - 2) = "from" /\ ru[n - 2].key = "app" /\ ru[n - 2].also = {}
       /\ ru[n - 2].values = ParseFacetValue("app", Whole(query[n - 1]))
  <2>1. TakenBy(h, ru, n - 1, uw(n - 2), uw(n - 1), ParseFacetValue("app", Whole(query[n - 1])))
    BY ONLY <1>7, <1>18, <1>19
  <2> HIDE DEF uw
  <2> QED
    BY ONLY <1>18, <2>1, SugarIsNoSpan DEF TakenBy
<1>21. n - 2 \in 1..n /\ n - 2 \in i..n /\ (n - 2) - 1 = n - 3 /\ n - 2 \in Nat
  <2>1. n - 1 > 1 /\ n - 1 \in i + 1..n /\ n \in Nat /\ i \in Nat
    BY ONLY <1>3, <1>18, <1>20
  <2> HIDE DEF n
  <2> QED
    BY ONLY <2>1
<1>22. i = n - 2
  <2> SUFFICES ASSUME i # n - 2 PROVE FALSE
    OBVIOUS
  <2>1. n - 2 \in i + 1..n
    <3>1. n - 2 \in i..n /\ n \in Nat /\ i \in Nat
      BY ONLY <1>3, <1>21
    <3> HIDE DEF n
    <3> QED
      BY ONLY <3>1, i # n - 2
  <2>2. CASE HeadAt(k, n - 2)
    <3>1. rn[n - 2].takes # 0
      BY ONLY <1>15, <2>1, <2>2
    <3>2. rn[n - 2].takes = 2
      BY ONLY <1>6, <1>20, <1>21, <3>1
    <3>3. StepOf(k, query, rn, n - 2)
      BY ONLY <1>14, <1>21
    <3>4. k[n - 2].read = (n - 2) - 1 + 2
      BY ONLY <2>2, <3>2, <3>3 DEF StepOf
    <3>5. k[n - 2].read = n - 2
      BY ONLY <1>17, <1>18 DEF HeadAt
    <3> QED
      BY ONLY <1>3, <3>4, <3>5
  <2>3. CASE ~HeadAt(k, n - 2)
    <3>1. TakenBy(k, rn, n - 2, nw(n - 3), nw(n - 2), RecallValue("app", Whole(query[n - 2])))
      BY ONLY <1>8, <1>21, <2>3
    <3>2. nw(n - 2) # "lunch" /\ nw(n - 2) \notin DOMAIN Durations
      <4>1. nw(n - 2) # NoWord => nw(n - 2) = "from"
        BY ONLY <1>5, <1>20, <1>21
      <4>2. NoWord \notin DOMAIN Durations
        BY VocabularyIs
      <4> QED
        BY ONLY <4>1, <4>2, SugarIsNoSpan
    <3>3. n - 2 > 1 /\ HeadAt(k, n - 3) /\ rn[n - 3].takes = 2 /\ rn[n - 3].key = "app"
      <4> HIDE DEF nw
      <4> QED
        BY ONLY <1>21, <3>1, <3>2 DEF TakenBy
    <3>4. n - 3 \in 1..n
      BY ONLY <1>3, <3>3
    <3>5. "app" \notin StoreKeys
      BY DEF StoreKeys
    <3>6. \A a \in 1..n, b \in 1..n : HeadAt(k, a) /\ HeadAt(k, b) /\ rn[a].takes # 0 /\ rn[b].takes # 0
            /\ rn[a].key = rn[b].key /\ rn[a].key \notin StoreKeys => a = b
      BY ONLY <1>1, query \in Seq(AllTokens), KeyOnce
    <3>7. n - 3 = n - 1
      BY ONLY <1>17, <1>18, <3>3, <3>4, <3>5, <3>6
    <3> QED
      BY ONLY <1>3, <3>7
  <2> QED
    BY ONLY <2>2, <2>3
\* What each has in the end.
<1> DEFINE c == k[i - 1].constraints d == h[i - 1].constraints x == rn[n - 1] y == ru[i]
<1>23. StepOf(h, query, ru, i) /\ StepOf(h, query, ru, n - 1) /\ StepOf(h, query, ru, n)
       /\ StepOf(k, query, rn, i) /\ StepOf(k, query, rn, n - 1) /\ StepOf(k, query, rn, n)
  BY ONLY <1>3, <1>14, <1>18, i \in 1..Len(query)
<1>24. h[n].constraints = FiledOnto(d, y) /\ ~FiledBadly(d, y)
  <2>1. h[i].constraints = FiledOnto(d, y) /\ ~FiledBadly(d, y)
    BY ONLY <1>2, <1>20, <1>22, <1>23 DEF StepOf
  <2>2. h[n - 1] = h[(n - 1) - 1]
    BY ONLY <1>19, <1>23 DEF StepOf
  <2>3. (n - 1) - 1 = i
    BY ONLY <1>18, <1>22
  <2>4. h[n].constraints = h[n - 1].constraints
    BY ONLY <1>11, <1>23 DEF StepOf
  <2> QED
    BY ONLY <2>1, <2>2, <2>3, <2>4
<1>25. k[n].constraints = FiledOnto(c, x) /\ ~FiledBadly(c, x)
  <2>1. k[i].constraints = c
    BY ONLY <1>2, <1>23 DEF StepOf
  <2>2. k[n - 1].constraints = FiledOnto(k[(n - 1) - 1].constraints, x) /\ ~FiledBadly(k[(n - 1) - 1].constraints, x)
    BY ONLY <1>17, <1>23 DEF StepOf
  <2>3. (n - 1) - 1 = i
    BY ONLY <1>18, <1>22
  <2>4. k[n] = k[n - 1]
    BY ONLY <1>16, <1>23 DEF StepOf
  <2> QED
    BY ONLY <2>1, <2>2, <2>3, <2>4
<1>26. c \in Seq(AllKeys \X FacetValues) /\ d \in Seq(AllKeys \X FacetValues)
  BY ONLY <1>23 DEF StepOf, ParseStates
<1>27. ReadFits(x, y)
  <2>1. x.takes = y.takes /\ x.key = "app" /\ y.key = "app" /\ x.also = {} /\ y.also = {}
        /\ x.values = RecallValue("app", Whole(query[n])) /\ y.values = ParseFacetValue("app", Whole(query[n - 1]))
    BY ONLY <1>17, <1>20, <1>22
  <2>2. Whole(query[n]) \in Spellings /\ Whole(query[n - 1]) \in Spellings
    BY ONLY <1>3, <1>18, query \in Seq(AllTokens), TextBehindIs
  <2>3. Word(NormalizeLookup(Whole(query[n]))) = "from" /\ Word(NormalizeLookup(Whole(query[n - 1]))) = "from"
    <3>1. uw(n) = uw(i) /\ uw(i) = "from"
      BY ONLY <1>11, <1>20, <1>22
    <3> QED
      BY ONLY <1>18, <3>1 DEF UnifiedWord
  <2> DEFINE s == Whole(query[n]) u == Whole(query[n - 1])
  <2>4. s \in Spellings /\ u \in Spellings /\ Word(NormalizeLookup(s)) = "from" /\ Word(NormalizeLookup(u)) = "from"
        /\ x.values = RecallValue("app", s) /\ y.values = ParseFacetValue("app", u)
    BY ONLY <2>1, <2>2, <2>3
  <2> HIDE DEF s, u, x, y
  <2>5. RecallValue("app", s) # {} =>
          ParseFacetValue("app", u) # {} /\ Fits("app", AnyOf(RecallValue("app", s)), AnyOf(ParseFacetValue("app", u)))
    BY ONLY <2>4, FromFrom
  <2>6. "app" \in RecallKeys
    BY DEF RecallKeys
  <2> QED
    BY ONLY <2>1, <2>4, <2>5, <2>6 DEF ReadFits
<1>28. WellRead(x, n - 1, n) /\ WellRead(y, i, n)
  BY ONLY <1>4, <1>18, i \in 1..Len(query) DEF rn, ru
<1>29. MatchingFilters(c, d)
  BY ONLY <1>2
<1> HIDE DEF c, d, x, y, n
<1>30. MatchingFilters(FiledOnto(c, x), FiledOnto(d, y))
  BY ONLY <1>24, <1>25, <1>26, <1>27, <1>28, <1>29, MatchingFiled
<1> QED
  BY ONLY <1>24, <1>25, <1>30 DEF n

LEMMA PartedMatch ==
  ASSUME NEW query \in Seq(AllTokens), NEW h, NEW k, Both(query, h, k), h[Len(query)].text = k[Len(query)].text,
         NEW i \in 1..Len(query), PartAt(query, h, k, i)
  PROVE MatchingFilters(k[Len(query)].constraints, h[Len(query)].constraints)
<1> DEFINE n == Len(query) uw == UnifiedWord(query[i])
<1>1. UnifiedReadings(query)[i] = UnifiedReading(query, i) /\ WellRead(UnifiedReadings(query)[i], i, n)
  BY ONLY query \in Seq(AllTokens), i \in 1..Len(query), WellReadings
<1>2. UnifiedReading(query, i).takes # 0
  BY ONLY <1>1, PartAt(query, h, k, i) DEF PartAt
<1>3. ~(/\ ~Always(query[i])
        /\ ~(uw \in {"from", "last"} /\ i < n)
        /\ ~(uw = "before" /\ i < n /\ Word(NormalizeLookup(TextBehind(query, i))) = "lunch"))
  BY ONLY <1>2, UnifiedLeaves
<1>4. ~Always(query[i])
  <2>1. PICK m \in i + 1..Len(query) :
           /\ HeadAt(h, m) /\ UnifiedReadings(query)[m].takes = 0 /\ query[m] = query[i]
           /\ Len(h[m - 1].text) = Len(k[i - 1].text)
    BY ONLY query \in Seq(AllTokens), Both(query, h, k), h[Len(query)].text = k[Len(query)].text,
       i \in 1..Len(query), PartAt(query, h, k, i), PartedText, SMTT(30)
  <2>2. m \in 1..n
    BY <2>1
  <2>3. UnifiedReadings(query)[m] = UnifiedReading(query, m)
    BY ONLY <2>2, query \in Seq(AllTokens), WellReadings
  <2>4. UnifiedReading(query, m).takes = 0
    BY ONLY <2>1, <2>3
  <2>5. ~Always(query[m])
    BY ONLY <2>4, UnifiedLeaves
  <2> QED
    BY ONLY <2>1, <2>5
<1>5. CASE uw \in {"from", "last"} /\ i < n
  BY ONLY <1>5, query \in Seq(AllTokens), Both(query, h, k), h[Len(query)].text = k[Len(query)].text,
     i \in 1..Len(query), PartAt(query, h, k, i), PartedAtWord
<1>6. CASE uw = "before" /\ i < n
  <2>1. UnifiedReading(query, i).takes = 2
    <3>1. UnifiedReading(query, i).takes = 1 => uw \notin {"from", "last", "before", "lunch"} \/ IsFacet(query[i])
      BY ONLY UnifiedLeaves
    <3>2. UnifiedReading(query, i).takes \in 0..2
      BY ONLY <1>1 DEF WellRead, Readings
    <3>3. ~IsFacet(query[i])
      BY ONLY <1>4 DEF Always
    <3> DEFINE takes == UnifiedReading(query, i).takes
    <3> HIDE DEF takes, uw
    <3>4. takes # 0 /\ takes # 1 /\ takes \in 0..2
      BY ONLY <1>2, <1>6, <3>1, <3>2, <3>3 DEF takes
    <3> QED
      BY ONLY <3>4 DEF takes
  <2>2. UnifiedReadings(query)[i].takes = 2
    BY ONLY <1>1, <2>1
  <2> QED
    BY ONLY <1>6, <2>2, query \in Seq(AllTokens), Both(query, h, k), h[Len(query)].text = k[Len(query)].text,
       i \in 1..Len(query), PartAt(query, h, k, i), NotAtLunch
<1> QED
  BY ONLY <1>3, <1>4, <1>5, <1>6

LEMMA NoneIsLost == typed \in Seq(Tokens) => NoClipIsLost
<1> SUFFICES ASSUME typed \in Seq(Tokens), ~Unified.bad, ~Natural.bad, Unified.text = Natural.text,
                    NEW clip \in QueryClips, RecallFinds(Natural, clip)
             PROVE GrammarFinds(Unified, clip)
  BY DEF NoClipIsLost
<1> DEFINE n == Len(typed)
<1>1. typed \in Seq(AllTokens) /\ n \in Nat /\ n \in 0..n
  BY TypedIs
<1>2. PICK h : IsRun(h, typed, UnifiedReadings(typed)) /\ ParseQuery(typed) = Checked(h[n])
  BY <1>1, UnifiedRuns
<1>3. PICK k : IsRun(k, typed, NaturalReadings(typed)) /\ ParseNatural(typed) = Checked(k[n])
  BY <1>1, NaturalRuns
<1>4. WellReads(UnifiedReadings(typed), n) /\ WellReads(NaturalReadings(typed), n)
  BY <1>1, WellReadings DEF WellReads
<1>5. h[n] \in ParseStates /\ k[n] \in ParseStates
  BY ONLY <1>1, <1>2, <1>3, ParsesAre DEF n
<1>6. /\ Unified.text = h[n].text /\ Unified.constraints = h[n].constraints /\ ~h[n].bad
      /\ Natural.text = k[n].text /\ Natural.constraints = k[n].constraints /\ ~k[n].bad
  BY ONLY <1>2, <1>3, <1>5, ~Unified.bad, ~Natural.bad, CheckedIs DEF Unified, Natural
<1>7. Both(typed, h, k) /\ h[n].text = k[n].text
  BY ONLY <1>2, <1>3, <1>4, <1>6, Unified.text = Natural.text DEF Both, Accepts
<1>8. Aligned(h, k, n) \/ \E i \in 1..n : PartAt(typed, h, k, i)
  BY ONLY <1>1, <1>7, AlignedOrParted
<1>9. MatchingFilters(k[n].constraints, h[n].constraints)
  <2>1. CASE Aligned(h, k, n)
    BY ONLY <2>1 DEF Aligned
  <2>2. CASE \E i \in 1..n : PartAt(typed, h, k, i)
    BY ONLY <1>1, <1>7, <2>2, PartedMatch
  <2> QED
    BY ONLY <1>8, <2>1, <2>2
<1>10. Natural.constraints \in Seq(AllKeys \X FacetValues) /\ Unified.constraints \in Seq(AllKeys \X FacetValues)
       /\ MatchingFilters(Natural.constraints, Unified.constraints)
  BY ONLY <1>5, <1>6, <1>9 DEF ParseStates
<1> QED
  BY ONLY <1>10, clip \in QueryClips, RecallFinds(Natural, clip), MatchingFinds

\* What is typed, a token more or one less, is a query.
TypedInv == typed \in Seq(Tokens)

LEMMA TypingStarts == QueryInit => TypedInv
BY DEF QueryInit, TypedInv

LEMMA TypingStep == TypedInv /\ [QueryNext]_typed => TypedInv'
<1> SUFFICES ASSUME TypedInv, [QueryNext]_typed PROVE typed' \in Seq(Tokens)
  BY DEF TypedInv
<1>1. typed \in Seq(Tokens)
  BY DEF TypedInv
<1>2. CASE TypeToken
  BY <1>1, <1>2 DEF TypeToken
<1>3. CASE EraseToken
  <2>1. typed # <<>> /\ typed' = SubSeq(typed, 1, Len(typed) - 1)
    BY <1>3 DEF EraseToken, Front
  <2> QED
    BY <1>1, <2>1
<1> QED
  BY <1>1, <1>2, <1>3 DEF QueryNext

\* parse_natural_query, parse_query, Constraint::matches and sql_predicates: whatever
\* is typed, the two grammars agree where they should and obey what they read.
THEOREM QueriesAreHonest == TypedInv => QuerySafety
BY ONLY BothAreUnified, NoneIsLost, SpellingFree, ObeyedIs, OpenIs, OrderIs DEF QuerySafety, TypedInv
=============================================================================
