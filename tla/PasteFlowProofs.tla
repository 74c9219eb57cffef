--------------------------- MODULE PasteFlowProofs ---------------------------
(***************************************************************************)
(* Proofs about the popup for every value of the constants: what its list     *)
(* shows (HistoryWindow), what the starts of the application do to each other *)
(* (SingleInstance), and what a paste chosen in it delivers (PasteFlow).      *)
(***************************************************************************)
EXTENDS MCPasteFlow, FoldLemmas

-----------------------------------------------------------------------------
(* HistoryWindow: the list and its search. *)

\* A request is out: nobody has answered or withdrawn it.
Pending == mailbox # NoRequest \/ (worker.at # "idle" /\ worker.current)
\* The worker still collects for the list of now.
Current == worker.at # "idle" /\ worker.current /\ worker.request.revision = revision

\* The request for the query at revision r.
Asks(r) == [query |-> "text", revision |-> r]

WorkerType ==
    [at : {"idle", "collecting", "done", "failed"},
     request : [query : {"", "text"}, revision : Int], current : BOOLEAN,
     since : Nat, found : SUBSET WinClips, below : Nat]

\* Types, and of what revision a result or a request can be.
WinTyped ==
    /\ inStore \subseteq WinClips /\ listed \subseteq WinClips /\ revision \in Nat /\ clock \in Nat
    /\ query \in {"", "text"} /\ preview \in WinClips \cup {Nobody}
    /\ dirty \in BOOLEAN /\ visible \in BOOLEAN
    /\ searched = NoResult \/ /\ searched \in [query : {"text"}, revision : {revision},
                                               clips : SUBSET WinClips, failed : BOOLEAN]
                              /\ lastAsked = Asks(revision)
    /\ lastAsked = NoRequest \/ \E r \in 0 .. revision : lastAsked = Asks(r)
    /\ worker \in WorkerType

\* The one request that is out is the last that was asked, and it has no result yet.
OneRequest ==
    /\ Pending => searched = NoResult /\ lastAsked # NoRequest
    /\ mailbox \in {NoRequest, lastAsked}
    /\ worker.at # "idle" /\ worker.current => worker.request = lastAsked /\ mailbox = NoRequest

\* What the cache holds is what would be projected from the list S for the query q, and
\* no row of S expires before the horizon.
FreshFrom(S, q) ==
    clock < cache.horizon =>
        /\ cache.rows = Answers(Unexpired(S, clock), q)
        /\ \A c \in Unexpired(S, clock) : Dies[c] >= cache.horizon

CacheHolds ==
    /\ cache.horizon \in Nat
    /\ \E r \in (-1) .. revision, b \in BOOLEAN, q \in {"", "text"} : cache.key = <<r, b, q>>
    /\ \A q \in {"", "text"} : cache.key = <<revision, FALSE, q>> => FreshFrom(listed, q)
    /\ cache.key # <<revision, TRUE, "">>
    /\ cache.key = <<revision, TRUE, "text">> =>
         /\ searched # NoResult => FreshFrom(searched.clips, "text")
         /\ lastAsked = Asks(revision) \/ query = "" \/ ~visible
         /\ ~(Pending /\ lastAsked = Asks(revision))

\* Without an unpublished change the rows passed so far are all found, and no others.
WorkerIsWhole ==
    worker.at \in {"collecting", "done"} /\ Current /\ ~dirty =>
        /\ worker.found \subseteq inStore
        /\ \A c \in inStore : c \in Matching /\ Dies[c] > clock =>
             c \in worker.found \/ (worker.at = "collecting" /\ c < worker.below)

\* The worker judges expiry by a clock of the past.
WorkerInTime == worker.since <= clock

\* A result holds what the query finds in the store, unless a change is unpublished.
ResultHolds ==
    searched # NoResult /\ ~searched.failed /\ ~dirty =>
        /\ searched.clips \subseteq inStore
        /\ \A c \in inStore : c \in Matching /\ Dies[c] > clock => c \in searched.clips

WinInv ==
    WinTyped /\ OneRequest /\ CacheHolds /\ WorkerInTime /\ WorkerIsWhole /\ ResultHolds
    /\ shown.sel = preview

-----------------------------------------------------------------------------
\* No clip is nobody, no request of a query is none.
LEMMA WinNames ==
  /\ Nobody = 0 /\ NoResult # [query |-> "text", revision |-> revision, clips |-> {}, failed |-> FALSE]
  /\ WinClips \subseteq Nat /\ Nobody \notin WinClips
  /\ \A r : Asks(r) # NoRequest
  /\ NoResult.query = "" /\ NoResult.revision = -1 /\ NoRequest.query = ""
BY WindowAssumption DEF Nobody, NoResult, NoRequest, Asks

\* What StoreChanges leaves: nothing is claimed of a store with an unpublished change.
LEMMA StoreChangesStep == ASSUME WinInv, StoreChanges PROVE WinInv'
<1>1. dirty' = TRUE /\ inStore' \subseteq WinClips
  BY DEF StoreChanges, WinInv, WinTyped
<1>2. UNCHANGED <<listed, revision, clock, searched, popupVars, searchVars>>
  BY DEF StoreChanges
<1>3. UNCHANGED <<listed, revision, clock, searched, visible, query, preview, cache, shown, pasted,
                  afterFrame, lastAsked, mailbox, worker>>
  BY <1>2 DEF popupVars, searchVars
<1>4. WinTyped' /\ OneRequest' /\ WorkerInTime' /\ (shown.sel = preview)'
  BY <1>1, <1>3 DEF WinInv, WinTyped, OneRequest, Pending, WorkerInTime
<1>5. CacheHolds'
  BY <1>3 DEF WinInv, CacheHolds, FreshFrom, Pending
<1>6. WorkerIsWhole' /\ ResultHolds'
  BY <1>1 DEF WorkerIsWhole, ResultHolds
<1> QED
  BY <1>4, <1>5, <1>6 DEF WinInv

\* A new list: the cache, the result and the request of the old one are none of its.
LEMMA NewListStep ==
  ASSUME WinInv, revision' = revision + 1, searched' = NoResult, listed' \subseteq WinClips,
         dirty' \in BOOLEAN, UNCHANGED <<inStore, clock, popupVars, searchVars>>
  PROVE WinInv'
<1>1. UNCHANGED <<inStore, clock, visible, query, preview, cache, shown, pasted,
                  afterFrame, lastAsked, mailbox, worker>>
  BY DEF popupVars, searchVars
<1>a. revision \in Nat
  BY DEF WinInv, WinTyped
<1>b. revision' = revision + 1
  OBVIOUS
<1>2. revision \in Nat /\ revision' \in Nat /\ revision' = revision + 1
  BY ONLY <1>a, <1>b
<1>3. WinTyped'
  <2>1. (lastAsked = NoRequest \/ \E r \in 0 .. revision : lastAsked = Asks(r))'
    <3>1. CASE lastAsked = NoRequest
      BY <1>1, <3>1
    <3>2. CASE lastAsked # NoRequest
      <4>1. PICK r \in 0 .. revision : lastAsked = Asks(r)
        BY <3>2 DEF WinInv, WinTyped
      <4>2. r \in 0 .. revision'
        BY <1>2
      <4> QED
        BY <1>1, <4>1, <4>2
    <3> QED
      BY <3>1, <3>2
  <2> QED
    BY <1>1, <1>2, <2>1 DEF WinInv, WinTyped
<1>4. OneRequest' /\ WorkerInTime' /\ (shown.sel = preview)'
  BY <1>1 DEF WinInv, OneRequest, Pending, WorkerInTime
<1>5. CacheHolds'
  <2>1. PICK r, b, q : r \in (-1) .. revision /\ b \in BOOLEAN /\ q \in {"", "text"} /\ cache.key = <<r, b, q>>
    BY DEF WinInv, CacheHolds
  <2>2. r \in (-1) .. revision' /\ r # revision'
    <3>1. r \in (-1) .. revision
      BY ONLY <2>1
    <3>2. \A v \in Nat : \A x : x \in (-1) .. v => x \in (-1) .. (v + 1) /\ x # v + 1
      OBVIOUS
    <3> QED
      BY ONLY <1>2, <3>1, <3>2
  <2>3. cache'.key = <<r, b, q>>
    BY ONLY <1>1, <2>1
  <2>4. \A c, d : cache'.key # <<revision', c, d>>
    BY ONLY <2>2, <2>3
  <2>5. cache.horizon \in Nat
    BY DEF WinInv, CacheHolds
  <2> QED
    BY <1>1, <2>1, <2>2, <2>3, <2>4, <2>5 DEF CacheHolds
<1>6. WorkerIsWhole'
  <2>1. ~Current'
    <3>1. ASSUME worker.at # "idle", worker.current PROVE worker.request.revision # revision'
      <4>1. worker.request = lastAsked /\ lastAsked # NoRequest
        BY <3>1 DEF WinInv, OneRequest, Pending
      <4>2. PICK r \in 0 .. revision : lastAsked = Asks(r)
        BY <4>1 DEF WinInv, WinTyped
      <4> QED
        BY <1>2, <4>1, <4>2 DEF Asks
    <3> QED
      BY <1>1, <3>1 DEF Current
  <2> QED
    BY <2>1 DEF WorkerIsWhole
<1>7. ResultHolds'
  BY DEF ResultHolds
<1> QED
  BY <1>3, <1>4, <1>5, <1>6, <1>7 DEF WinInv

\* A new list: the cache, the result and the request of the old one are none of its.
LEMMA PublishStep == ASSUME WinInv, Publish \/ PruneExpired PROVE WinInv'
<1>1. /\ revision' = revision + 1 /\ searched' = NoResult
      /\ UNCHANGED <<inStore, clock, popupVars, searchVars>>
  BY DEF Publish, PruneExpired
<1>2. listed' \subseteq WinClips /\ dirty' \in BOOLEAN
  BY DEF Publish, PruneExpired, WinInv, WinTyped, Unexpired, Newest
<1> QED
  BY ONLY WinInv, <1>1, <1>2, NewListStep

\* The clock comes nearer to the horizon, and passes no row before it.
LEMMA FreshStays ==
  ASSUME NEW S, S \subseteq WinClips, NEW q, FreshFrom(S, q), clock \in Nat, clock' = clock + 1,
         cache' = cache, cache.horizon \in Nat
  PROVE FreshFrom(S, q)'
<1> SUFFICES ASSUME clock + 1 < cache.horizon
             PROVE /\ cache.rows = Answers(Unexpired(S, clock + 1), q)
                   /\ \A c \in Unexpired(S, clock + 1) : Dies[c] >= cache.horizon
  BY DEF FreshFrom
<1> DEFINE U == Unexpired(S, clock)
<1>1. clock < cache.horizon
  BY DEF FreshFrom
<1>2. cache.rows = Answers(U, q) /\ \A c \in U : Dies[c] >= cache.horizon
  BY <1>1 DEF FreshFrom
<1>3. Unexpired(S, clock + 1) = U
  <2>1. \A c \in S : Dies[c] \in Nat
    BY WindowAssumption
  <2>2. ASSUME NEW c \in S PROVE Dies[c] > clock + 1 <=> Dies[c] > clock
    BY <1>2, <2>1, <2>2 DEF Unexpired
  <2> QED
    BY ONLY <2>2 DEF Unexpired
<1> QED
  BY ONLY <1>2, <1>3

\* Time passes: a row may expire from the list, from the result and from the store alike.
LEMMA WinTickStep == ASSUME WinInv, WinTick PROVE WinInv'
<1>1. clock' = clock + 1
  BY DEF WinTick
<1>2. UNCHANGED <<inStore, dirty, listed, revision, searched, visible, query, preview, cache, shown,
                  pasted, afterFrame, lastAsked, mailbox, worker>>
  BY DEF WinTick, popupVars, searchVars
<1>3. WinTyped /\ OneRequest /\ CacheHolds /\ WorkerInTime /\ WorkerIsWhole /\ ResultHolds
      /\ shown.sel = preview
  BY DEF WinInv
<1>4. clock \in Nat
  BY <1>3 DEF WinTyped
<1>5. clock' \in Nat
  BY ONLY <1>1, <1>4
<1>6. WinTyped'
  BY ONLY <1>2, <1>3, <1>5 DEF WinTyped
<1>7. OneRequest' /\ (shown.sel = preview)'
  BY ONLY <1>2, <1>3 DEF OneRequest, Pending
<1>8. WorkerInTime'
  <2>1. worker.since \in Nat
    BY ONLY <1>3 DEF WinTyped, WorkerType
  <2> QED
    BY ONLY <1>1, <1>2, <1>3, <1>4, <2>1 DEF WorkerInTime
<1>9. \A c \in WinClips : Dies[c] > clock' => Dies[c] > clock
  BY ONLY <1>1, <1>4, WindowAssumption DEF WindowAssumption
<1>10. inStore \subseteq WinClips /\ listed \subseteq WinClips
       /\ (searched # NoResult => searched.clips \subseteq WinClips)
  BY ONLY <1>3, Zenon DEF WinTyped
<1>11. WorkerIsWhole' /\ ResultHolds'
  BY ONLY <1>2, <1>3, <1>9, <1>10 DEF WorkerIsWhole, ResultHolds, Current
<1>12. ASSUME NEW S, S \subseteq WinClips, NEW q, FreshFrom(S, q) PROVE FreshFrom(S, q)'
  <2>1. cache' = cache /\ cache.horizon \in Nat
    BY <1>2, <1>3 DEF CacheHolds
  <2> QED
    BY ONLY <1>1, <1>4, <1>12, <2>1, FreshStays
<1>13. CacheHolds'
  BY ONLY <1>2, <1>3, <1>10, <1>12 DEF CacheHolds, Pending
<1> QED
  BY <1>6, <1>7, <1>8, <1>11, <1>13 DEF WinInv

\* Showing and hiding the window: the query is empty or nothing is drawn.
LEMMA ShowStep == ASSUME WinInv, Show \/ Hide PROVE WinInv'
<1>1. UNCHANGED <<inStore, dirty, listed, revision, clock, searched, cache, lastAsked, mailbox, worker>>
  BY DEF Show, Hide, listVars, searchVars
<1>2. \/ visible' = TRUE /\ query' = "" /\ preview' = Nobody /\ shown' = NoView
      \/ visible' = FALSE /\ UNCHANGED <<query, preview, shown>>
  BY DEF Show, Hide
<1>3. WinTyped /\ OneRequest /\ CacheHolds /\ WorkerInTime /\ WorkerIsWhole /\ ResultHolds
      /\ shown.sel = preview
  BY DEF WinInv
<1>4. WinTyped'
  BY ONLY <1>1, <1>2, <1>3 DEF WinTyped
<1>5. (OneRequest /\ WorkerInTime /\ WorkerIsWhole /\ ResultHolds)'
  BY ONLY <1>1, <1>3 DEF OneRequest, Pending, WorkerInTime, WorkerIsWhole, Current, ResultHolds
<1>6. (shown.sel = preview)'
  <2>1. NoView.sel = Nobody
    BY DEF NoView
  <2> QED
    BY ONLY <1>2, <1>3, <2>1
<1>7. CacheHolds'
  BY ONLY <1>1, <1>2, <1>3 DEF CacheHolds, FreshFrom, Pending
<1> QED
  BY <1>4, <1>5, <1>6, <1>7 DEF WinInv

\* A new intent is the one request that is out, and there is no result for it yet.
LEMMA UpdateSearchStep == ASSUME WinInv, UpdateSearch PROVE WinInv'
<1> DEFINE next == IF Intent.query = "" THEN NoRequest ELSE Intent
<1>1. UNCHANGED <<inStore, dirty, listed, revision, clock, visible, query, preview, cache, shown>>
  BY DEF UpdateSearch, listVars
<1>2. /\ lastAsked' = next
      /\ IF lastAsked = next THEN UNCHANGED <<mailbox, worker>>
         ELSE mailbox' = next /\ worker' = [worker EXCEPT !.current = FALSE]
      /\ searched' = IF next = NoRequest THEN NoResult ELSE searched
  BY DEF UpdateSearch
<1>3. WinTyped /\ OneRequest /\ CacheHolds /\ WorkerInTime /\ WorkerIsWhole /\ ResultHolds
      /\ shown.sel = preview
  BY DEF WinInv
<1>4. \/ next = NoRequest /\ (query = "" \/ ~visible)
      \/ next = Asks(revision) /\ next # NoRequest /\ query # "" /\ visible
  BY <1>3, WinNames DEF WinTyped, Intent, Asks
<1> HIDE DEF next
<1>5. /\ worker'.at = worker.at /\ worker'.request = worker.request /\ worker'.since = worker.since
      /\ worker'.found = worker.found /\ worker'.below = worker.below
      /\ worker'.current \in {worker.current, FALSE}
  BY ONLY <1>2, <1>3 DEF WinTyped, WorkerType
<1>6. worker' \in WorkerType
  BY ONLY <1>2, <1>3 DEF WinTyped, WorkerType
<1>7. revision \in Nat
  BY ONLY <1>3 DEF WinTyped
<1>8. CASE next = lastAsked
  <2>1. lastAsked' = lastAsked /\ UNCHANGED <<mailbox, worker>>
    BY ONLY <1>2, <1>8
  <2>2. searched' = searched \/ searched' = NoResult
    BY ONLY <1>2
  <2>3. searched' = searched
    BY ONLY <1>2, <1>3, <1>8, WinNames DEF WinTyped
  <2>4. WinTyped'
    BY ONLY <1>1, <1>3, <2>1, <2>3 DEF WinTyped
  <2>5. (OneRequest /\ WorkerInTime /\ WorkerIsWhole /\ ResultHolds /\ shown.sel = preview)'
    BY ONLY <1>1, <1>3, <2>1, <2>3
       DEF OneRequest, Pending, WorkerInTime, WorkerIsWhole, Current, ResultHolds
  <2>6. CacheHolds'
    BY ONLY <1>1, <1>3, <2>1, <2>3 DEF CacheHolds, FreshFrom, Pending
  <2> QED
    BY <2>4, <2>5, <2>6 DEF WinInv
<1>9. CASE next # lastAsked
  <2>1. lastAsked' = next /\ mailbox' = next /\ worker'.current = FALSE
    BY ONLY <1>2, <1>3, <1>9 DEF WinTyped, WorkerType
  <2>2. searched' = NoResult
    BY ONLY <1>2, <1>3, <1>4, <1>9 DEF WinTyped
  <2>3. lastAsked' = NoRequest \/ lastAsked' = Asks(revision)
    BY ONLY <1>4, <2>1
  <2>4. WinTyped'
    <3>1. (lastAsked = NoRequest \/ \E r \in 0 .. revision : lastAsked = Asks(r))'
      <4>1. \A v \in Nat : v \in 0 .. v
        OBVIOUS
      <4>2. revision' = revision /\ revision \in 0 .. revision
        BY ONLY <1>1, <1>7, <4>1
      <4> QED
        BY ONLY <2>3, <4>2
    <3> QED
      BY ONLY <1>1, <1>3, <1>6, <2>2, <3>1 DEF WinTyped
  <2>5. OneRequest'
    <3>1. Pending' <=> mailbox' # NoRequest
      BY ONLY <2>1 DEF Pending
    <3> QED
      BY ONLY <2>1, <2>2, <3>1 DEF OneRequest
  <2>6. (WorkerInTime /\ WorkerIsWhole /\ ResultHolds /\ shown.sel = preview)'
    BY ONLY <1>1, <1>3, <1>5, <2>1, <2>2
       DEF WorkerInTime, WorkerIsWhole, Current, ResultHolds
  <2>7. CacheHolds'
    <3>1. cache.key = <<revision, TRUE, "text">> =>
             /\ lastAsked' = Asks(revision) \/ query = "" \/ ~visible
             /\ ~(Pending' /\ lastAsked' = Asks(revision))
      BY ONLY <1>3, <1>4, <1>9, <2>1, WinNames DEF CacheHolds, Pending
    <3>2. \A S, q : FreshFrom(S, q) => FreshFrom(S, q)'
      BY ONLY <1>1 DEF FreshFrom
    <3> QED
      BY ONLY <1>1, <1>3, <2>2, <3>1, <3>2 DEF CacheHolds
  <2> QED
    BY <2>4, <2>5, <2>6, <2>7 DEF WinInv
<1> QED
  BY <1>8, <1>9

\* What a step of the worker has to keep: the rest it leaves alone.
LEMMA WorkerStep ==
  ASSUME WinInv, UNCHANGED <<listVars, popupVars, lastAsked>>,
         worker' \in WorkerType, worker'.since <= clock,
         Pending' => Pending /\ searched' = NoResult,
         mailbox' \in {NoRequest, mailbox},
         worker'.at # "idle" /\ worker'.current => worker'.request = lastAsked /\ mailbox' = NoRequest,
         WorkerIsWhole', ResultHolds',
         \/ searched' = searched
         \/ /\ searched' \in [query : {"text"}, revision : {revision}, clips : SUBSET WinClips,
                              failed : BOOLEAN]
            /\ lastAsked = Asks(revision) /\ Pending
  PROVE WinInv'
<1>1. UNCHANGED <<inStore, dirty, listed, revision, clock, visible, query, preview, cache, shown,
                  lastAsked>>
  BY DEF listVars, popupVars
<1>2. WinTyped /\ OneRequest /\ CacheHolds /\ shown.sel = preview
  BY DEF WinInv
<1>3. WinTyped'
  BY <1>1, <1>2 DEF WinTyped, WorkerType
<1>4. OneRequest'
  BY <1>1, <1>2 DEF OneRequest
<1>5. WorkerInTime' /\ (shown.sel = preview)'
  BY <1>1, <1>2 DEF WorkerInTime
<1>6. CacheHolds'
  <2>1. \A S, q : FreshFrom(S, q) => FreshFrom(S, q)'
    BY ONLY <1>1 DEF FreshFrom
  <2>2. cache.key = <<revision, TRUE, "text">> => searched' = searched
    BY <1>2 DEF CacheHolds
  <2> QED
    BY <1>1, <1>2, <2>1, <2>2 DEF CacheHolds
<1> QED
  BY <1>3, <1>4, <1>5, <1>6 DEF WinInv

\* The collection starts above every clip.
LEMMA TopIs == \E t \in Nat : t = Top(WinClips) + 1 /\ \A c \in WinClips : c < t
<1>1. WinClips \in SUBSET Nat /\ IsFiniteSet(WinClips)
  BY WindowAssumption
<1>2. CASE WinClips = {}
  BY <1>2 DEF Top, Nobody
<1>3. CASE WinClips # {}
  <2>1. Max(WinClips) \in WinClips /\ \A y \in WinClips : Max(WinClips) >= y
    BY ONLY <1>1, <1>3, MaxOfFinite
  <2>2. Top(WinClips) = Max(WinClips)
    BY <1>3 DEF Top
  <2>3. WinClips \subseteq Nat
    BY <1>1
  <2> DEFINE m == Max(WinClips)
  <2> HIDE DEF m
  <2>4. m \in Nat /\ Top(WinClips) = m /\ \A y \in WinClips : y \in Nat /\ m >= y
    BY ONLY <2>1, <2>2, <2>3 DEF m
  <2>5. m + 1 \in Nat /\ \A y \in WinClips : y < m + 1
    BY ONLY <2>4
  <2> QED
    BY ONLY <2>4, <2>5
<1> QED
  BY <1>2, <1>3

\* The worker takes the request: nothing is passed yet.
LEMMA TakeRequestStep == ASSUME WinInv, TakeRequest PROVE WinInv'
<1>0. PICK t \in Nat : t = Top(WinClips) + 1 /\ \A c \in WinClips : c < t
  BY TopIs
<1>1. /\ worker.at = "idle" /\ mailbox # NoRequest
      /\ worker' = [at |-> "collecting", request |-> mailbox, current |-> TRUE,
                    since |-> clock, found |-> {}, below |-> Top(WinClips) + 1]
      /\ mailbox' = NoRequest
      /\ UNCHANGED <<listVars, searched, popupVars, lastAsked>>
  BY DEF TakeRequest
<1>2. WinTyped /\ OneRequest /\ ResultHolds
  BY DEF WinInv
<1>3. UNCHANGED <<inStore, dirty, clock, searched>>
  BY <1>1 DEF listVars
<1>4. Pending /\ searched = NoResult /\ mailbox = lastAsked /\ lastAsked # NoRequest
  BY <1>1, <1>2 DEF OneRequest, Pending
<1>5. mailbox \in [query : {"", "text"}, revision : Int]
  <2>1. PICK r \in 0 .. revision : lastAsked = Asks(r)
    BY <1>2, <1>4 DEF WinTyped
  <2> QED
    BY <1>4, <2>1 DEF Asks
<1>6. worker' \in WorkerType
  <2>1. worker' = [at |-> "collecting", request |-> mailbox, current |-> TRUE,
                   since |-> clock, found |-> {}, below |-> t]
    BY <1>0, <1>1
  <2>2. clock \in Nat /\ t \in Nat
    BY <1>2 DEF WinTyped
  <2> QED
    BY ONLY <1>5, <2>1, <2>2 DEF WorkerType
<1>7. worker'.since <= clock /\ worker'.request = lastAsked /\ worker'.at = "collecting"
      /\ worker'.found = {} /\ worker'.below = t
  <2>1. worker' = [at |-> "collecting", request |-> mailbox, current |-> TRUE,
                   since |-> clock, found |-> {}, below |-> t]
    BY <1>0, <1>1
  <2>2. clock \in Nat
    BY <1>2 DEF WinTyped
  <2> QED
    BY ONLY <1>4, <2>1, <2>2
<1>8. \A c \in inStore : c < t
  BY ONLY <1>0, <1>2 DEF WinTyped
<1>9. WorkerIsWhole'
  BY <1>3, <1>7, <1>8 DEF WorkerIsWhole
<1>10. ResultHolds'
  BY <1>2, <1>3 DEF ResultHolds
<1> QED
  BY ONLY WinInv, <1>1, <1>3, <1>4, <1>6, <1>7, <1>9, <1>10, WorkerStep

\* The collection fails: what it found counts for nothing.
LEMMA CollectFailsStep == ASSUME WinInv, CollectFails PROVE WinInv'
<1>1. /\ worker.at = "collecting" /\ worker' = [worker EXCEPT !.at = "failed"]
      /\ UNCHANGED <<listVars, searched, popupVars, lastAsked, mailbox>>
  BY DEF CollectFails
<1>2. WinTyped /\ OneRequest /\ WorkerInTime /\ ResultHolds
  BY DEF WinInv
<1>3. UNCHANGED <<inStore, dirty, clock, searched, mailbox, lastAsked>>
  BY <1>1 DEF listVars
<1>4. worker' \in WorkerType /\ worker'.at = "failed" /\ worker'.since = worker.since
      /\ worker'.current = worker.current /\ worker'.request = worker.request
  BY <1>1, <1>2 DEF WinTyped, WorkerType
<1>5. Pending' => Pending /\ searched' = NoResult
  BY <1>1, <1>2, <1>3, <1>4 DEF OneRequest, Pending
<1>6. WorkerIsWhole'
  BY <1>4 DEF WorkerIsWhole
<1>7. ResultHolds'
  BY <1>2, <1>3 DEF ResultHolds
<1>8. worker'.since <= clock
  BY <1>2, <1>4 DEF WorkerInTime
<1>9. worker'.current => worker'.request = lastAsked /\ mailbox' = NoRequest
  BY <1>1, <1>2, <1>3, <1>4 DEF OneRequest
<1> QED
  BY ONLY WinInv, <1>1, <1>3, <1>4, <1>5, <1>6, <1>7, <1>8, <1>9, WorkerStep

\* Row by row from the newest down: what is passed is found, what is found is stored.
LEMMA CollectBatchStep == ASSUME WinInv, CollectBatch PROVE WinInv'
<1> DEFINE next == {c \in inStore : c < worker.below}
<1>1. /\ worker.at = "collecting"
      /\ worker' = IF ~worker.current THEN Idle
                   ELSE IF next = {} THEN [worker EXCEPT !.at = "done"]
                   ELSE [worker EXCEPT !.below = Max(next),
                         !.found = @ \cup Answers(Unexpired({Max(next)}, worker.since), worker.request.query)]
      /\ UNCHANGED <<listVars, searched, popupVars, lastAsked, mailbox>>
  BY DEF CollectBatch
<1>2. WinTyped /\ OneRequest /\ WorkerInTime /\ WorkerIsWhole /\ ResultHolds
  BY DEF WinInv
<1>3. UNCHANGED <<inStore, dirty, clock, revision, searched, mailbox, lastAsked>>
  BY <1>1 DEF listVars
<1>4. inStore \subseteq WinClips /\ worker \in WorkerType /\ clock \in Nat /\ IsFiniteSet(inStore)
  BY <1>2, FS_Subset, WindowAssumption DEF WinTyped
<1>5. next \in SUBSET Nat /\ IsFiniteSet(next) /\ next \subseteq inStore
  BY <1>4, FS_Subset, WindowAssumption
<1>6. ResultHolds'
  BY ONLY <1>2, <1>3 DEF ResultHolds
<1> DEFINE Good == /\ worker' \in WorkerType /\ worker'.since <= clock
                   /\ \/ worker'.at = "idle"
                      \/ worker'.current = worker.current /\ worker'.request = worker.request
                   /\ WorkerIsWhole'
<1>7. ASSUME ~worker.current PROVE Good
  <2>1. worker' = Idle
    BY ONLY <1>1, <1>7
  <2>2. Idle \in WorkerType /\ Idle.at = "idle" /\ Idle.since = 0
    BY DEF Idle, WorkerType, NoRequest
  <2> QED
    BY ONLY <1>4, <2>1, <2>2 DEF WorkerIsWhole
<1>8. ASSUME worker.current /\ next = {} PROVE Good
  <2>1. worker' = [worker EXCEPT !.at = "done"]
    BY ONLY <1>1, <1>8
  <2>2. worker' \in WorkerType /\ worker'.at = "done" /\ worker'.since = worker.since
        /\ worker'.current = worker.current /\ worker'.request = worker.request
        /\ worker'.found = worker.found
    BY ONLY <1>4, <2>1 DEF WorkerType
  <2>3. WorkerIsWhole'
    BY ONLY <1>1, <1>2, <1>3, <1>8, <2>2 DEF WorkerIsWhole, Current
  <2> QED
    BY ONLY <1>2, <2>2, <2>3 DEF WorkerInTime
<1>9. ASSUME worker.current /\ next # {} PROVE Good
  <2> DEFINE m == Max(next)
             row == Answers(Unexpired({m}, worker.since), worker.request.query)
  <2>1. m \in next /\ \A y \in next : m >= y
    BY ONLY <1>5, <1>9, MaxOfFinite
  <2>2. worker' = [worker EXCEPT !.below = m, !.found = @ \cup row]
    BY ONLY <1>1, <1>9
  <2> HIDE DEF m
  <2>3. row \subseteq {m}
    BY DEF Answers, Unexpired
  <2>4. worker.request.query = "text" /\ m \in Matching /\ Dies[m] > worker.since => m \in row
    BY DEF Answers, Unexpired
  <2> HIDE DEF row
  <2>5. m \in Nat /\ m \in WinClips /\ m \in inStore
    BY ONLY <1>4, <1>5, <2>1
  <2>6. worker' \in WorkerType /\ worker'.at = worker.at /\ worker'.since = worker.since
        /\ worker'.current = worker.current /\ worker'.request = worker.request
        /\ worker'.below = m /\ worker'.found = worker.found \cup row
    BY ONLY <1>4, <2>2, <2>3, <2>5 DEF WorkerType
  <2>7. WorkerIsWhole'
    <3> SUFFICES ASSUME Current, ~dirty
                 PROVE /\ worker.found \cup row \subseteq inStore
                       /\ \A c \in inStore : c \in Matching /\ Dies[c] > clock =>
                            c \in worker.found \cup row \/ c < m
      BY <1>1, <1>3, <2>6 DEF WorkerIsWhole, Current
    <3>1. worker.request.query = "text"
      <4>1. PICK r \in 0 .. revision : lastAsked = Asks(r)
        BY <1>1, <1>2, <1>9 DEF WinTyped, OneRequest, Pending
      <4> QED
        BY <1>1, <1>2, <1>9, <4>1 DEF OneRequest, Asks
    <3>2. /\ worker.found \subseteq inStore
          /\ \A c \in inStore : c \in Matching /\ Dies[c] > clock =>
               c \in worker.found \/ c < worker.below
      BY <1>1, <1>2 DEF WorkerIsWhole
    <3>3. ASSUME NEW c \in inStore, c \in Matching, Dies[c] > clock, c \notin worker.found
          PROVE c \in row \/ c < m
      <4>1. c \in next /\ c \in Nat /\ m >= c
        BY <1>5, <2>1, <3>2, <3>3
      <4>2. CASE c = m
        <5>1. Dies[m] > worker.since
          <6>1. Dies[m] \in Nat /\ worker.since \in Nat /\ worker.since <= clock /\ Dies[m] > clock
            BY <1>2, <1>4, <2>5, <3>3, <4>2, WindowAssumption DEF WorkerInTime, WorkerType
          <6> QED
            BY ONLY <1>4, <6>1
        <5> QED
          BY ONLY <2>4, <3>1, <3>3, <4>2, <5>1
      <4>3. CASE c # m
        BY ONLY <2>5, <4>1, <4>3
      <4> QED
        BY <4>2, <4>3
    <3> QED
      BY <2>3, <2>5, <3>2, <3>3
  <2> QED
    BY ONLY <1>2, <2>6, <2>7 DEF WorkerInTime
<1>10. Good
  BY ONLY <1>7, <1>8, <1>9
<1> HIDE DEF next
<1>11. Pending' => Pending /\ searched' = NoResult
  BY ONLY <1>1, <1>2, <1>3, <1>10 DEF OneRequest, Pending
<1>12. worker'.at # "idle" /\ worker'.current => worker'.request = lastAsked /\ mailbox' = NoRequest
  BY ONLY <1>1, <1>2, <1>3, <1>10 DEF OneRequest
<1> QED
  BY ONLY WinInv, <1>1, <1>3, <1>6, <1>10, <1>11, <1>12, WorkerStep

\* The idle worker is a worker.
LEMMA IdleIs == Idle \in WorkerType /\ Idle.at = "idle" /\ Idle.since = 0
BY DEF Idle, WorkerType, NoRequest

\* The worker posts what it found, if the request and the list are still those of now.
LEMMA PostResultStep == ASSUME WinInv, PostResult PROVE WinInv'
<1> DEFINE result == [query |-> worker.request.query, revision |-> revision,
                      failed |-> worker.at = "failed",
                      clips |-> IF worker.at = "failed" THEN {} ELSE worker.found]
<1>1. /\ worker.at \in {"done", "failed"} /\ worker' = Idle
      /\ searched' = IF worker.current /\ revision = worker.request.revision THEN result
                     ELSE searched
      /\ UNCHANGED <<listVars, popupVars, lastAsked, mailbox>>
  BY DEF PostResult
<1>2. WinTyped /\ OneRequest /\ WorkerInTime /\ WorkerIsWhole /\ ResultHolds
  BY DEF WinInv
<1>3. UNCHANGED <<inStore, dirty, clock, revision, mailbox, lastAsked>>
  BY <1>1 DEF listVars
<1>4. worker' \in WorkerType /\ worker'.at = "idle" /\ worker'.since = 0
  BY ONLY <1>1, IdleIs
<1>5. worker'.since <= clock
  <2>1. clock \in Nat
    BY <1>2 DEF WinTyped
  <2> QED
    BY ONLY <1>4, <2>1
<1>6. WorkerIsWhole'
  BY <1>4 DEF WorkerIsWhole
<1>7. Pending' => mailbox # NoRequest /\ ~worker.current
  BY ONLY <1>1, <1>2, <1>3, <1>4 DEF OneRequest, Pending
<1>8. CASE worker.current /\ revision = worker.request.revision
  <2>1. searched' = result
    BY ONLY <1>1, <1>8
  <2>2. Pending /\ worker.request = lastAsked /\ lastAsked # NoRequest
    BY ONLY <1>1, <1>2, <1>8 DEF OneRequest, Pending
  <2>3. PICK r \in 0 .. revision : lastAsked = Asks(r)
    BY ONLY <1>2, <2>2 DEF WinTyped
  <2>4. lastAsked = Asks(revision) /\ worker.request.query = "text"
    BY ONLY <1>8, <2>2, <2>3 DEF Asks
  <2>5. worker.found \in SUBSET WinClips /\ worker.at \in {"done", "failed"}
    BY ONLY <1>1, <1>2 DEF WinTyped, WorkerType
  <2>6. result \in [query : {"text"}, revision : {revision}, clips : SUBSET WinClips, failed : BOOLEAN]
    BY ONLY <2>4, <2>5
  <2>7. ResultHolds'
    <3>1. ~searched'.failed => worker.at = "done" /\ searched'.clips = worker.found
      BY ONLY <2>1, <2>5
    <3>2. Current
      BY ONLY <1>1, <1>8 DEF Current
    <3> QED
      BY ONLY <1>2, <1>3, <2>5, <3>1, <3>2 DEF ResultHolds, WorkerIsWhole
  <2>8. Pending' => Pending /\ searched' = NoResult
    BY ONLY <1>7, <1>8
  <2> HIDE DEF result
  <2> QED
    BY ONLY WinInv, <1>1, <1>3, <1>4, <1>5, <1>6, <2>1, <2>2, <2>4, <2>6, <2>7, <2>8, WorkerStep
<1>9. CASE ~(worker.current /\ revision = worker.request.revision)
  <2>1. searched' = searched
    BY ONLY <1>1, <1>9
  <2>2. Pending' => Pending /\ searched' = NoResult
    BY ONLY <1>2, <1>7, <2>1 DEF OneRequest, Pending
  <2>3. ResultHolds'
    BY ONLY <1>2, <1>3, <2>1 DEF ResultHolds
  <2> QED
    BY ONLY WinInv, <1>1, <1>3, <1>4, <1>5, <1>6, <2>1, <2>2, <2>3, WorkerStep
<1> QED
  BY <1>8, <1>9

\* The window opens with nothing asked, nothing cached and nothing drawn.
LEMMA WinInitHolds == WinInit => WinInv
<1> SUFFICES ASSUME WinInit PROVE WinInv
  OBVIOUS
<1>1. /\ inStore \subseteq WinClips /\ listed \subseteq WinClips /\ revision = 0 /\ clock = 0
      /\ query = "" /\ preview = Nobody /\ dirty = FALSE /\ visible = FALSE
      /\ searched = NoResult /\ lastAsked = NoRequest /\ mailbox = NoRequest /\ worker = Idle
      /\ cache = NoEntry /\ shown = NoView
  BY DEF WinInit, Newest
<1>2. WinTyped
  BY ONLY <1>1, IdleIs DEF WinTyped
<1>3. OneRequest /\ WorkerInTime /\ WorkerIsWhole /\ ResultHolds
  <2>1. ~Pending /\ OneRequest
    BY ONLY <1>1, IdleIs DEF OneRequest, Pending
  <2>2. WorkerInTime
    <3>1. worker.since = 0 /\ clock = 0
      BY ONLY <1>1, IdleIs
    <3>2. \A x, y : x = 0 /\ y = 0 => x <= y
      OBVIOUS
    <3> QED
      BY ONLY <3>1, <3>2 DEF WorkerInTime
  <2>3. WorkerIsWhole
    BY ONLY <1>1, IdleIs DEF WorkerIsWhole
  <2>4. ResultHolds
    BY ONLY <1>1 DEF ResultHolds
  <2> QED
    BY ONLY <2>1, <2>2, <2>3, <2>4
<1>4. shown.sel = preview
  BY ONLY <1>1 DEF NoView
<1>5. CacheHolds
  <2>1. cache.horizon = 0 /\ cache.key = <<-1, FALSE, "">>
    BY ONLY <1>1 DEF NoEntry
  <2>2. -1 \in (-1) .. revision /\ -1 # revision
    <3>1. \A v \in Nat : -1 \in (-1) .. v /\ -1 # v
      OBVIOUS
    <3> QED
      BY ONLY <1>1, <3>1
  <2>3. \A c, d : cache.key # <<revision, c, d>>
    <3>1. \A x, y, c, d : x # y => <<x, FALSE, "">> # <<y, c, d>>
      OBVIOUS
    <3> QED
      BY ONLY <2>1, <2>2, <3>1
  <2>4. \E r \in (-1) .. revision, b \in BOOLEAN, q \in {"", "text"} : cache.key = <<r, b, q>>
    BY ONLY <2>1, <2>2, Zenon
  <2>5. cache.horizon \in Nat
    <3>1. cache.horizon = 0
      BY ONLY <2>1, Zenon
    <3> QED
      BY ONLY <3>1
  <2> QED
    BY ONLY <2>3, <2>4, <2>5 DEF CacheHolds
<1> QED
  BY <1>2, <1>3, <1>4, <1>5 DEF WinInv

\* A result that counts is one for the text, of the request that was asked last.
LEMMA CountsIs ==
  ASSUME WinInv
  PROVE /\ ResultCounts => /\ query = "text" /\ searched # NoResult /\ lastAsked = Asks(revision)
                           /\ ~Pending /\ SourceList = searched.clips
        /\ ~ResultCounts => SourceList = listed
        /\ SourceList \subseteq WinClips
<1>1. WinTyped /\ OneRequest
  BY DEF WinInv
<1>2. ASSUME ResultCounts
      PROVE /\ query = "text" /\ searched # NoResult /\ lastAsked = Asks(revision) /\ ~Pending
            /\ searched.clips \subseteq WinClips
  <2>1. searched.revision = revision /\ searched.query = query
    BY <1>2 DEF ResultCounts
  <2>2. revision \in Nat
    BY <1>1 DEF WinTyped
  <2>3. searched # NoResult
    <3>1. \A v \in Nat : -1 # v
      OBVIOUS
    <3>2. NoResult.revision = -1
      BY WinNames
    <3> QED
      BY ONLY <2>1, <2>2, <3>1, <3>2
  <2>4. searched \in [query : {"text"}, revision : {revision}, clips : SUBSET WinClips, failed : BOOLEAN]
        /\ lastAsked = Asks(revision)
    BY ONLY <1>1, <2>3 DEF WinTyped
  <2> QED
    BY ONLY <1>1, <2>1, <2>3, <2>4 DEF OneRequest
<1>3. ResultCounts => SourceList = searched.clips
  BY DEF SourceList
<1>4. ~ResultCounts => SourceList = listed
  BY DEF SourceList
<1>5. listed \subseteq WinClips
  BY <1>1 DEF WinTyped
<1> QED
  BY ONLY <1>2, <1>3, <1>4, <1>5

\* Nothing of a list expires before its horizon.
LEMMA HorizonIs ==
  ASSUME NEW S, S \subseteq WinClips, clock \in Nat
  PROVE Horizon(S) \in Nat /\ \A c \in Unexpired(S, clock) : Dies[c] >= Horizon(S)
<1> DEFINE ahead == {Dies[c] : c \in Unexpired(S, clock)}
<1>1. ahead \in SUBSET Nat
  BY WindowAssumption DEF Unexpired
<1>2. CASE ahead = {}
  <2>1. Horizon(S) = WinMaxNow + 1
    BY <1>2 DEF Horizon
  <2>2. Unexpired(S, clock) = {}
    BY ONLY <1>2
  <2>3. WinMaxNow \in Nat
    BY WindowAssumption
  <2> QED
    BY ONLY <2>1, <2>2, <2>3
<1>3. CASE ahead # {}
  <2>1. Horizon(S) = Min(ahead)
    BY <1>3 DEF Horizon
  <2>2. \E x \in ahead : \A y \in ahead : x <= y
    <3> HIDE DEF ahead
    <3> QED
      BY ONLY <1>1, <1>3, LeastExists
  <2>3. Min(ahead) \in ahead /\ \A y \in ahead : Min(ahead) <= y
    <3> HIDE DEF ahead
    <3> QED
      BY ONLY <2>2, Zenon DEF Min
  <2> DEFINE m == Min(ahead)
  <2>4. m \in ahead /\ \A y \in ahead : m <= y
    BY ONLY <2>3
  <2>5. \A c \in Unexpired(S, clock) : Dies[c] \in ahead
    BY ONLY Zenon
  <2> HIDE DEF m, ahead
  <2>6. m \in Nat /\ \A y \in ahead : y \in Nat /\ y >= m
    BY ONLY <1>1, <2>4
  <2>7. Horizon(S) = m
    BY ONLY <2>1 DEF m
  <2> QED
    BY ONLY <2>5, <2>6, <2>7
<1> QED
  BY ONLY <1>2, <1>3

\* The first row is one of the rows.
LEMMA TopOf ==
  ASSUME NEW S, S \subseteq WinClips
  PROVE Top(S) \in S \cup {Nobody} /\ (S # {} => Top(S) \in S)
<1>1. S \in SUBSET Nat /\ IsFiniteSet(S)
  BY FS_Subset, WindowAssumption
<1>2. S # {} => Max(S) \in S
  BY ONLY <1>1, MaxOfFinite
<1> QED
  BY ONLY <1>2, Zenon DEF Top

\* What a frame draws from the cache is what it would project.
LEMMA RowsAreFresh ==
  ASSUME WinInv, Reusable
  PROVE /\ cache.rows = Projection(SourceList)
        /\ \A c \in Unexpired(SourceList, clock) : Dies[c] >= cache.horizon
<1>1. CacheHolds /\ WinTyped /\ cache.key = <<revision, ResultCounts, query>> /\ clock < cache.horizon
  BY DEF WinInv, Reusable
<1>2. query \in {"", "text"}
  BY <1>1 DEF WinTyped
<1>3. FreshFrom(SourceList, query)
  <2>1. CASE ResultCounts
    <3>1. ResultCounts = TRUE /\ query = "text" /\ searched # NoResult /\ SourceList = searched.clips
      BY ONLY WinInv, <2>1, CountsIs DEF ResultCounts
    <3>2. cache.key = <<revision, TRUE, "text">>
      BY ONLY <1>1, <3>1, Zenon
    <3> QED
      BY ONLY <1>1, <3>1, <3>2 DEF CacheHolds
  <2>2. CASE ~ResultCounts
    <3>1. ResultCounts = FALSE /\ SourceList = listed
      BY ONLY WinInv, <2>2, CountsIs DEF ResultCounts
    <3>2. cache.key = <<revision, FALSE, query>>
      BY ONLY <1>1, <3>1, Zenon
    <3> QED
      BY ONLY <1>1, <1>2, <3>1, <3>2 DEF CacheHolds
  <2> QED
    BY ONLY <2>1, <2>2
<1> QED
  BY ONLY <1>1, <1>3 DEF FreshFrom, Projection

\* The rows a frame draws.
Drawn == IF Reusable THEN cache.rows ELSE Projection(SourceList)

\* What the memoized projection yields is what a fresh one would: the heart of the window.
LEMMA DrawnIs ==
  ASSUME WinInv PROVE Drawn = Projection(SourceList) /\ Drawn \subseteq WinClips
<1>1. Drawn = Projection(SourceList)
  BY ONLY WinInv, RowsAreFresh, Zenon DEF Drawn
<1>2. SourceList \subseteq WinClips
  BY ONLY WinInv, CountsIs
<1>3. Projection(SourceList) \subseteq SourceList
  BY DEF Projection, Answers, Unexpired
<1> QED
  BY ONLY <1>1, <1>2, <1>3

\* The entry the frame leaves is one for the list, the search and the text of now.
LEMMA KeysDiffer == \A r, b, q, c, d : <<r, b, q>> = <<r, c, d>> => b = c /\ q = d
OBVIOUS

\* A revision is among those up to it.
LEMMA AtMostItself == \A v \in Nat : v \in (-1) .. v
OBVIOUS

\* The cache a frame leaves, for whatever query the frame leaves.
LEMMA FrameCache ==
  ASSUME WinInv, visible, UNCHANGED <<listed, revision, searched, clock, visible, lastAsked, mailbox, worker>>,
         query' \in {"", "text"},
         cache' = IF Reusable THEN cache
                  ELSE [key |-> <<revision, ResultCounts, query>>,
                        horizon |-> Horizon(SourceList), rows |-> Drawn]
  PROVE CacheHolds'
<1>1. CacheHolds /\ WinTyped
  BY DEF WinInv
<1>2. revision \in Nat /\ clock \in Nat /\ query \in {"", "text"} /\ ResultCounts \in BOOLEAN
  BY <1>1 DEF WinTyped, ResultCounts
<1>3. cache'.key = <<revision, ResultCounts, query>>
  BY Zenon DEF Reusable
<1>4. cache'.horizon \in Nat
  <2>1. Horizon(SourceList) \in Nat
    BY ONLY WinInv, <1>2, CountsIs, HorizonIs
  <2>2. cache.horizon \in Nat
    BY ONLY <1>1 DEF CacheHolds
  <2> QED
    BY <2>1, <2>2
<1>5. \E r \in (-1) .. revision, b \in BOOLEAN, q \in {"", "text"} : cache'.key = <<r, b, q>>
  <2>2. revision \in (-1) .. revision
    BY ONLY <1>2, AtMostItself
  <2> QED
    BY ONLY <1>2, <1>3, <2>2, Zenon
<1>6. clock < cache'.horizon =>
        /\ cache'.rows = Answers(Unexpired(SourceList, clock), query)
        /\ \A c \in Unexpired(SourceList, clock) : Dies[c] >= cache'.horizon
  <2>1. CASE Reusable
    <3>1. cache' = cache
      BY <2>1
    <3>2. cache.rows = Projection(SourceList)
      BY ONLY WinInv, <2>1, RowsAreFresh
    <3>3. \A c \in Unexpired(SourceList, clock) : Dies[c] >= cache.horizon
      BY ONLY WinInv, <2>1, RowsAreFresh
    <3> QED
      BY ONLY <3>1, <3>2, <3>3 DEF Projection
  <2>2. CASE ~Reusable
    <3>1. cache'.horizon = Horizon(SourceList) /\ cache'.rows = Drawn
      BY <2>2
    <3>2. \A c \in Unexpired(SourceList, clock) : Dies[c] >= Horizon(SourceList)
      BY ONLY WinInv, <1>2, CountsIs, HorizonIs
    <3>3. Drawn = Projection(SourceList)
      BY ONLY WinInv, DrawnIs
    <3> QED
      BY ONLY <3>1, <3>2, <3>3 DEF Projection
  <2> QED
    BY ONLY <2>1, <2>2
<1>7. \A q \in {"", "text"} : cache'.key = <<revision, FALSE, q>> => FreshFrom(listed, q)'
  <2> SUFFICES ASSUME NEW q \in {"", "text"}, cache'.key = <<revision, FALSE, q>>
               PROVE FreshFrom(listed, q)'
    OBVIOUS
  <2>1. q = query /\ ~ResultCounts
    <3>a. cache'.key = <<revision, FALSE, q>>
      OBVIOUS
    <3>0. <<revision, ResultCounts, query>> = <<revision, FALSE, q>>
      BY ONLY <1>3, <3>a
    <3>1. ResultCounts = FALSE /\ query = q
      BY ONLY <3>0, KeysDiffer
    <3> QED
      BY ONLY <3>1, Zenon
  <2>2. SourceList = listed
    BY ONLY WinInv, <2>1, CountsIs
  <2> QED
    BY <1>6, <2>1, <2>2 DEF FreshFrom
<1>8. cache'.key # <<revision, TRUE, "">>
  <2>1. ResultCounts => query = "text"
    BY ONLY WinInv, CountsIs
  <2> QED
    <3>1. query = "" => ResultCounts = FALSE
      BY ONLY <1>2, <2>1
    <3>2. "" # "text" /\ TRUE # FALSE
      OBVIOUS
    <3>3. ASSUME cache'.key = <<revision, TRUE, "">> PROVE ResultCounts = TRUE /\ query = ""
      <4>1. <<revision, ResultCounts, query>> = <<revision, TRUE, "">>
        BY ONLY <1>3, <3>3
      <4> QED
        BY ONLY <4>1, KeysDiffer
    <3> QED
      BY ONLY <3>1, <3>2, <3>3
<1>9. ASSUME cache'.key = <<revision, TRUE, "text">>
      PROVE FreshFrom(searched.clips, "text")' /\ lastAsked = Asks(revision) /\ ~Pending
  <2>1. ResultCounts /\ query = "text"
    <3>1. <<revision, ResultCounts, query>> = <<revision, TRUE, "text">>
      BY ONLY <1>3, <1>9
    <3>2. ResultCounts = TRUE /\ query = "text"
      BY ONLY <3>1, KeysDiffer
    <3> QED
      BY ONLY <3>2
  <2>2. SourceList = searched.clips /\ lastAsked = Asks(revision) /\ ~Pending
    BY ONLY WinInv, <2>1, CountsIs
  <2> QED
    BY <1>6, <2>1, <2>2 DEF FreshFrom
<1>10. Pending' = Pending /\ Asks(revision)' = Asks(revision)
  BY DEF Pending, Asks
<1>11. UNCHANGED <<revision, searched, lastAsked, visible>>
  OBVIOUS
<1> QED
  BY ONLY <1>4, <1>5, <1>7, <1>8, <1>9, <1>10, <1>11 DEF CacheHolds

\* The selection and the row below it are rows, or nobody.
LEMMA SelectionIs ==
  ASSUME NEW rows, rows \subseteq WinClips
  PROVE Selection(rows) \in WinClips \cup {Nobody} /\ Below(rows, Selection(rows)) \in WinClips \cup {Nobody}
<1>1. Selection(rows) \in WinClips \cup {Nobody}
  <2>1. Top(rows) \in rows \cup {Nobody}
    BY ONLY rows \subseteq WinClips, TopOf
  <2> QED
    BY <2>1 DEF Selection
<1> DEFINE c == Selection(rows)
           older == {d \in rows : d < c}
<1>2. older # {} => Max(older) \in older
  <2>1. older \in SUBSET Nat /\ IsFiniteSet(older)
    BY FS_Subset, WindowAssumption
  <2> QED
    BY ONLY <2>1, MaxOfFinite
<1>3. Below(rows, c) \in {c} \cup older
  BY ONLY <1>2, Zenon DEF Below
<1>4. older \subseteq WinClips
  OBVIOUS
<1> QED
  BY ONLY <1>1, <1>3, <1>4

\* One frame, by its parts.
LEMMA FrameIs ==
  ASSUME Frame
  PROVE /\ visible /\ shown' = [rows |-> Drawn, sel |-> preview']
        /\ cache' = IF Reusable THEN cache
                    ELSE [key |-> <<revision, ResultCounts, query>>,
                          horizon |-> Horizon(SourceList), rows |-> Drawn]
        /\ query' \in {query, "", "text"}
        /\ preview' \in {Selection(Drawn), Below(Drawn, Selection(Drawn))}
        /\ pasted' = Nobody \/ (pasted' = Selection(Drawn) /\ preview' = Selection(Drawn))
        /\ UNCHANGED <<inStore, dirty, listed, revision, clock, changes, searched, visible,
                       lastAsked, mailbox, worker>>
<1>1. UNCHANGED <<inStore, dirty, listed, revision, clock, changes, searched, visible,
                  lastAsked, mailbox, worker>>
  BY DEF Frame, listVars, searchVars
<1>2. /\ visible /\ shown' = [rows |-> Drawn, sel |-> preview']
      /\ cache' = IF Reusable THEN cache
                  ELSE [key |-> <<revision, ResultCounts, query>>,
                        horizon |-> Horizon(SourceList), rows |-> Drawn]
  BY Zenon DEF Frame, Drawn
<1>3. /\ query' \in {query, "", "text"}
      /\ preview' \in {Selection(Drawn), Below(Drawn, Selection(Drawn))}
      /\ pasted' = Nobody \/ (pasted' = Selection(Drawn) /\ preview' = Selection(Drawn))
  BY Zenon DEF Frame, Drawn
<1> QED
  BY ONLY <1>1, <1>2, <1>3

\* A frame: the projection, the selection and one key.
LEMMA FrameStep == ASSUME WinInv, Frame PROVE WinInv'
<1>1. WinTyped /\ OneRequest /\ WorkerInTime /\ WorkerIsWhole /\ ResultHolds /\ query \in {"", "text"}
  BY DEF WinInv, WinTyped
<1>2. UNCHANGED <<inStore, dirty, listed, revision, clock, searched, visible, lastAsked, mailbox, worker>>
  BY FrameIs
<1>3. visible /\ query' \in {"", "text"}
  BY <1>1, FrameIs
<1>4. preview' \in WinClips \cup {Nobody}
  <2>1. Drawn \subseteq WinClips
    BY DrawnIs
  <2>2. preview' \in {Selection(Drawn), Below(Drawn, Selection(Drawn))}
    BY FrameIs
  <2> QED
    BY ONLY <2>1, <2>2, SelectionIs
<1>5. CacheHolds'
  <2>1. cache' = IF Reusable THEN cache
                 ELSE [key |-> <<revision, ResultCounts, query>>,
                       horizon |-> Horizon(SourceList), rows |-> Drawn]
    BY FrameIs
  <2> QED
    BY ONLY WinInv, <1>2, <1>3, <2>1, FrameCache
<1>6. (shown.sel = preview)'
  <2>1. shown' = [rows |-> Drawn, sel |-> preview']
    BY FrameIs
  <2> QED
    BY ONLY <2>1
<1>7. WinTyped'
  BY ONLY <1>1, <1>2, <1>3, <1>4 DEF WinTyped
<1>8. (OneRequest /\ WorkerInTime /\ WorkerIsWhole /\ ResultHolds)'
  BY ONLY <1>1, <1>2 DEF OneRequest, Pending, WorkerInTime, WorkerIsWhole, Current, ResultHolds
<1> QED
  BY <1>5, <1>6, <1>7, <1>8 DEF WinInv

\* A step of another part of the popup.
LEMMA WinStays == ASSUME WinInv, UNCHANGED winVars PROVE WinInv'
<1>1. UNCHANGED <<inStore, dirty, listed, revision, clock, searched, visible, query, preview, cache,
                  shown, lastAsked, mailbox, worker>>
  BY DEF winVars, listVars, popupVars, searchVars
<1>2. WinTyped' /\ OneRequest' /\ WorkerInTime' /\ (shown.sel = preview)'
  BY <1>1 DEF WinInv, WinTyped, OneRequest, Pending, WorkerInTime
<1>3. CacheHolds'
  BY <1>1 DEF WinInv, CacheHolds, FreshFrom, Pending
<1>4. WorkerIsWhole' /\ ResultHolds'
  BY <1>1 DEF WinInv, WorkerIsWhole, Current, ResultHolds
<1> QED
  BY <1>2, <1>3, <1>4 DEF WinInv

\* Every step of the window, the worker and the store keeps the invariant.
LEMMA WinStep == ASSUME WinInv, [WinNext]_winVars PROVE WinInv'
BY StoreChangesStep, PublishStep, WinTickStep, FrameStep, UpdateSearchStep, ShowStep,
   TakeRequestStep, CollectBatchStep, CollectFailsStep, PostResultStep, WinStays DEF WinNext

\* What the invariant says of types and of the result that is shown.
LEMMA WinParts == WinInv => WinTypeOK /\ ResultIsWhole
<1> SUFFICES ASSUME WinInv PROVE WinTypeOK /\ ResultIsWhole
  OBVIOUS
<1>1. WinTyped /\ ResultHolds
  BY DEF WinInv
<1>2. WinTypeOK
  BY ONLY <1>1 DEF WinTyped, WorkerType, WinTypeOK
<1>3. ASSUME ResultCounts, query # "", ~dirty
      PROVE Answers(Unexpired(inStore, clock), query) \subseteq searched.clips
            /\ searched.clips \subseteq inStore
  <2>1. query = "text" /\ searched # NoResult
    BY ONLY WinInv, <1>3, CountsIs
  <2>2. ~searched.failed
    BY ONLY <1>3 DEF ResultCounts
  <2> QED
    BY ONLY <1>1, <1>3, <2>1, <2>2 DEF ResultHolds, Answers, Unexpired
<1> QED
  BY ONLY <1>2, <1>3 DEF ResultIsWhole

\* What a frame draws and what its Enter delivers.
LEMMA FrameShows == ASSUME WinInv, [WinNext]_winVars PROVE FrameIsFresh /\ EnterServesSelection
<1> SUFFICES ASSUME ~afterFrame, afterFrame'
             PROVE /\ visible' => shown'.rows = Projection(SourceList)
                   /\ pasted' # Nobody /\ shown.sel \in shown'.rows => pasted' = shown.sel
  BY DEF FrameIsFresh, EnterServesSelection
<1>1. Frame \/ Hide
  BY DEF WinNext, StoreChanges, Publish, PruneExpired, WinTick, UpdateSearch, Show, TakeRequest,
         CollectBatch, CollectFails, PostResult, winVars, popupVars
<1>2. CASE Hide
  BY <1>2 DEF Hide
<1>3. CASE Frame
  <2>0. shown' = [rows |-> Drawn, sel |-> preview']
    BY <1>3, FrameIs
  <2>1. shown'.rows = Drawn
    BY ONLY <2>0
  <2>2. Drawn = Projection(SourceList)
    BY DrawnIs
  <2>3. shown.sel = preview
    BY DEF WinInv
  <2>4. pasted' # Nobody => pasted' = Selection(Drawn)
    BY <1>3, FrameIs
  <2> QED
    BY ONLY <2>1, <2>2, <2>3, <2>4 DEF Selection
<1> QED
  BY <1>1, <1>2, <1>3

-----------------------------------------------------------------------------
(* SingleInstance: who holds the lock, and what is asked of it. *)

\* Where a query waits.
Asking == {"w_asking", "w_asksAgain"}
\* Where a process is that may serve.
Served == {"starting", "running", "flushing", "querying", "closing"}
\* Where a process holds the lock.
Holding == {"binding", "publishing", "probing", "w_probing", "starting", "running", "flushing",
            "querying"} \cup Closing
\* Where a process that ever served can be.
Past == {"starting", "running", "flushing", "querying", "gone", "dead"} \cup Closing
Places == {"idle", "starting", "running", "flushing", "querying"}
          \cup Calling \cup Waiting \cup Acquiring \cup Closing \cup Ended

InstTyped ==
    /\ os \in {"unix", "windows"} /\ purpose \in [Processes -> {"show", "ping", "ask"}]
    /\ at \in [Processes -> Places]
    /\ lock \in Processes \cup {NoProcess}
    /\ endpoint \in [owner : Processes \cup {NoProcess}, whole : BOOLEAN]
    /\ serving \subseteq Processes /\ deaf \subseteq Processes /\ raised \subseteq Processes
    /\ backlog \in [Processes -> Seq(Requests)]
    /\ peer \in [Processes -> Processes \cup {NoProcess}]
    /\ reply \in [Processes -> {"none", "result", "ack", "pong", "rejected"}]
    /\ inbox \in [Processes -> SUBSET Processes]
    /\ faults \in 0..MaxFaults

\* Who holds the lock finds nobody behind the endpoint.
LockIsHeld == \A p \in Processes : (at[p] \in Holding => lock = p) /\ at[p] # "w_probing"

\* Who serves is behind the endpoint.
ServersAreFound ==
    \A p \in serving : at[p] \in Served /\ endpoint = [owner |-> p, whole |-> TRUE]

\* A process that was connected to did serve.
PeersArePast == \A p \in Processes : peer[p] \in Processes => at[peer[p]] \in Past

\* Who sent r to q and did not give up waits for its answer.
Awaits(q, r) ==
    /\ at[r.from] \in Waiting /\ reply[r.from] = "none" /\ peer[r.from] = q
    /\ r.what = "history" <=> at[r.from] \in Asking
    /\ r.what # "history" => (r.what = "show" <=> purpose[r.from] = "show")

\* An open request is awaited.
RequestsAreAwaited ==
    \A q \in Processes : \A i \in DOMAIN backlog[q] :
        backlog[q][i].open => Awaits(q, backlog[q][i])

\* A process has one open request at most.
OneOpen ==
    \A q \in Processes : \A i, j \in DOMAIN backlog[q] :
        backlog[q][i].open /\ backlog[q][j].open /\ backlog[q][i].from = backlog[q][j].from => i = j

\* A reply fits the call of its reader.
RepliesFit ==
    \A p \in Processes : reply[p] # "none" =>
        /\ at[p] \in Waiting
        /\ reply[p] = "result" => at[p] \in Asking
        /\ reply[p] = "ack" => at[p] \notin Asking /\ purpose[p] = "show"
        /\ reply[p] = "pong" => at[p] \notin Asking /\ purpose[p] # "show"

\* An intent that was acknowledged is with the event loop or was shown.
AcksAreKept ==
    \A p, q \in Processes :
        /\ purpose[p] = "show" /\ (reply[p] = "ack" \/ at[p] = "forwarded")
        /\ peer[p] = q /\ at[q] \in {"starting", "running"}
        => p \in inbox[q] \cup raised

\* How many requests a process has made, at most.
Sent(s, n) ==
    CASE s \in {"idle", "asking", "locking"} -> 0
      [] s = "w_asking" -> 1
      [] s = "forwarding" -> Attempts - n
      [] s = "w_forwarding" -> (Attempts - n) + 1
      [] s = "asksAgain" -> Attempts
      [] OTHER -> Attempts + 1

\* The requests of p in the backlog s.
OfSender(s, p) == {i \in DOMAIN s : s[i].from = p}

\* A process makes no more requests than its attempts and one query.
FewAreSent ==
    \A p \in Processes :
        /\ left[p] \in 0 .. Attempts
        /\ at[p] \in {"forwarding", "w_forwarding"} => left[p] >= 1
        /\ \A q \in Processes : Cardinality(OfSender(backlog[q], p)) <= Sent(at[p], left[p])

InstInv ==
    /\ InstTyped /\ left \in [Processes -> Nat]
    /\ LockIsHeld /\ ServersAreFound /\ PeersArePast
    /\ RequestsAreAwaited /\ OneOpen /\ RepliesFit /\ AcksAreKept /\ FewAreSent

-----------------------------------------------------------------------------
\* The assumptions about the constants, in the form the steps use.
LEMMA LaunchIs == NoProcess \notin Processes /\ Attempts \in Nat /\ Attempts >= 1 /\ IsFiniteSet(Processes)
BY LaunchAssumption

\* The bound on what a process has sent is a number.
LEMMA SentIs == \A s, n : n \in 0 .. Attempts => Sent(s, n) \in Nat
BY LaunchIs DEF Sent

\* The requests of one sender can be counted.
LEMMA CountIs ==
  ASSUME NEW s \in Seq(Requests), NEW p
  PROVE /\ DOMAIN s = 1 .. Len(s) /\ Len(s) \in Nat /\ \A i \in DOMAIN s : s[i] \in Requests /\ s[i].from \in Processes
        /\ IsFiniteSet(OfSender(s, p)) /\ Cardinality(OfSender(s, p)) \in Nat
<1>1. DOMAIN s = 1 .. Len(s) /\ Len(s) \in Nat
  BY LenProperties
<1>2. \A i \in 1 .. Len(s) : s[i] \in Requests
  BY ElementOfSeq
<1>3. \A r \in Requests : r.from \in Processes
  BY DEF Requests
<1>4. IsFiniteSet(1 .. Len(s))
  BY <1>1, FS_Interval
<1>5. OfSender(s, p) \subseteq 1 .. Len(s)
  BY <1>1 DEF OfSender
<1>6. IsFiniteSet(OfSender(s, p))
  BY ONLY <1>4, <1>5, FS_Subset
<1>7. Cardinality(OfSender(s, p)) \in Nat
  BY ONLY <1>6, FS_CardinalityType
<1> QED
  BY ONLY <1>1, <1>2, <1>3, <1>6, <1>7

\* A request more in a backlog: one more of its sender.
LEMMA AppendIs ==
  ASSUME NEW s \in Seq(Requests), NEW r \in Requests, NEW t, t = Append(s, r)
  PROVE /\ t \in Seq(Requests) /\ t # <<>>
        /\ \A i \in DOMAIN s : i \in DOMAIN t /\ t[i] = s[i]
        /\ Len(s) + 1 \in DOMAIN t /\ t[Len(s) + 1] = r /\ Len(s) + 1 \notin DOMAIN s
        /\ \A i \in DOMAIN t : i \in DOMAIN s \/ i = Len(s) + 1
        /\ Cardinality(OfSender(t, r.from)) = Cardinality(OfSender(s, r.from)) + 1
<1>1. /\ t \in Seq(Requests) /\ t # <<>> /\ Len(t) = Len(s) + 1 /\ t[Len(s) + 1] = r
      /\ \A i \in 1 .. Len(s) : t[i] = s[i]
  BY AppendProperties
<1>2. DOMAIN s = 1 .. Len(s) /\ Len(s) \in Nat /\ DOMAIN t = 1 .. Len(t)
  BY ONLY <1>1, s \in Seq(Requests), CountIs
<1>3. /\ \A i \in DOMAIN s : i \in DOMAIN t /\ t[i] = s[i]
      /\ Len(s) + 1 \in DOMAIN t /\ Len(s) + 1 \notin DOMAIN s
      /\ \A i \in DOMAIN t : i \in DOMAIN s \/ i = Len(s) + 1
  BY ONLY <1>1, <1>2
<1>5. OfSender(t, r.from) = OfSender(s, r.from) \cup {Len(s) + 1}
  BY ONLY <1>1, <1>3 DEF OfSender
<1>6. Len(s) + 1 \notin OfSender(s, r.from)
  BY ONLY <1>3 DEF OfSender
<1>7. IsFiniteSet(OfSender(s, r.from))
  BY CountIs
<1>8. Cardinality(OfSender(t, r.from)) = Cardinality(OfSender(s, r.from)) + 1
  BY ONLY <1>5, <1>6, <1>7, FS_AddElement
<1> QED
  BY ONLY <1>1, <1>3, <1>8

\* The first request of a backlog is taken out: no more of any sender than before.
LEMMA TailIs ==
  ASSUME NEW s \in Seq(Requests), s # <<>>, NEW t, t = Tail(s)
  PROVE /\ t \in Seq(Requests) /\ Head(s) \in Requests /\ Head(s) = s[1] /\ 1 \in DOMAIN s
        /\ \A i \in DOMAIN t : i \in Nat /\ i + 1 \in DOMAIN s /\ t[i] = s[i + 1] /\ i + 1 # 1
        /\ \A p : Cardinality(OfSender(t, p)) <= Cardinality(OfSender(s, p))
<1>1. /\ Head(s) \in Requests /\ t \in Seq(Requests) /\ Len(t) = Len(s) - 1
      /\ \A i \in 1 .. Len(t) : t[i] = s[i + 1]
  BY HeadTailProperties
<1>2. DOMAIN s = 1 .. Len(s) /\ Len(s) \in Nat /\ DOMAIN t = 1 .. Len(t) /\ Len(t) \in Nat
  BY ONLY <1>1, s \in Seq(Requests), CountIs
<1>3. \A i \in DOMAIN t : i \in Nat /\ i + 1 \in DOMAIN s /\ t[i] = s[i + 1] /\ i + 1 # 1
  BY ONLY <1>1, <1>2
<1>4. 1 \in DOMAIN s
  BY ONLY <1>1, <1>2
<1>5. Head(s) = s[1]
  OBVIOUS
<1>6. ASSUME NEW p PROVE Cardinality(OfSender(t, p)) <= Cardinality(OfSender(s, p))
  <2> DEFINE A == OfSender(t, p)
             B == OfSender(s, p)
             f == [i \in A |-> i + 1]
  <2>1. IsFiniteSet(B)
    BY CountIs
  <2>2. \A i \in A : i \in Nat /\ i + 1 \in B
    BY ONLY <1>3 DEF OfSender
  <2> HIDE DEF A, B
  <2>3. f \in [A -> B] /\ \A i, j \in A : f[i] = f[j] => i = j
    BY ONLY <2>2
  <2>4. f \in Injection(A, B)
    BY ONLY <2>3 DEF Injection, IsInjective
  <2> HIDE DEF f
  <2>5. Cardinality(A) <= Cardinality(B)
    BY ONLY <2>1, <2>4, FS_Injection
  <2> QED
    BY ONLY <2>5 DEF A, B
<1> QED
  BY ONLY <1>1, <1>3, <1>4, <1>5, <1>6

\* A step of p that sends nothing and answers nothing.
LEMMA MoveStep ==
  ASSUME InstInv, NEW p \in Processes, NEW s \in Places, Goes(p, s),
         at[p] \notin Waiting, s \notin Waiting \cup {"forwarded"},
         UNCHANGED <<outside, backlog, inbox, raised, peer, reply, serving>>,
         deaf' \subseteq Processes,
         lock' = lock \/ (lock \in {p, NoProcess} /\ lock' \in {p, NoProcess}),
         s \in Holding => lock' = p,
         \/ endpoint' = endpoint
         \/ serving = {} /\ endpoint' \in [owner : Processes \cup {NoProcess}, whole : BOOLEAN],
         p \in serving => s \in Served,
         at[p] \in Past => s \in Past /\ (s \in {"starting", "running"} => at[p] \in {"starting", "running"}),
         left' \in [Processes -> Nat], \A q \in Processes : q # p => left'[q] = left[q],
         left'[p] \in 0 .. Attempts, s \in {"forwarding", "w_forwarding"} => left'[p] >= 1,
         Sent(at[p], left[p]) <= Sent(s, left'[p])
  PROVE InstInv'
<1>1. InstTyped /\ LockIsHeld /\ ServersAreFound /\ PeersArePast
      /\ RequestsAreAwaited /\ OneOpen /\ RepliesFit /\ AcksAreKept /\ FewAreSent
  BY DEF InstInv
<1>2. /\ at'[p] = s /\ \A q \in Processes : q # p => at'[q] = at[q]
      /\ at' \in [Processes -> Places]
  BY <1>1 DEF Goes, InstTyped
<1>3. UNCHANGED <<os, purpose, faults, backlog, inbox, raised, peer, reply, serving>>
  BY DEF outside
<1>4. InstTyped'
  BY <1>1, <1>2, <1>3 DEF InstTyped
<1>5. LockIsHeld'
  BY <1>1, <1>2, LaunchIs DEF LockIsHeld, Waiting
<1>6. ServersAreFound'
  BY <1>1, <1>2, <1>3 DEF ServersAreFound, InstTyped
<1>7. PeersArePast'
  BY <1>1, <1>2, <1>3 DEF PeersArePast, InstTyped
<1>8. RequestsAreAwaited' /\ OneOpen'
  <2>1. ASSUME NEW q \in Processes, NEW i \in DOMAIN backlog[q], backlog[q][i].open
        PROVE at'[backlog[q][i].from] = at[backlog[q][i].from] /\ Awaits(q, backlog[q][i])
    <3>1. backlog[q] \in Seq(Requests)
      BY <1>1 DEF InstTyped
    <3>2. backlog[q][i].from \in Processes
      BY ONLY <2>1, <3>1, CountIs
    <3>3. Awaits(q, backlog[q][i])
      BY <1>1, <2>1 DEF RequestsAreAwaited
    <3> QED
      BY <1>2, <3>2, <3>3 DEF Awaits
  <2> QED
    BY <1>1, <1>3, <2>1 DEF RequestsAreAwaited, OneOpen, Awaits
<1>9. RepliesFit'
  BY <1>1, <1>2, <1>3 DEF RepliesFit
<1>10. AcksAreKept'
  BY <1>1, <1>2, <1>3 DEF AcksAreKept, PeersArePast
<1>11. FewAreSent'
  <2> SUFFICES ASSUME NEW r \in Processes, NEW q \in Processes
               PROVE /\ left'[r] \in 0 .. Attempts
                     /\ at'[r] \in {"forwarding", "w_forwarding"} => left'[r] >= 1
                     /\ Cardinality(OfSender(backlog'[q], r)) <= Sent(at'[r], left'[r])
    BY DEF FewAreSent
  <2>1. left[r] \in 0 .. Attempts /\ Cardinality(OfSender(backlog[q], r)) <= Sent(at[r], left[r])
        /\ (at[r] \in {"forwarding", "w_forwarding"} => left[r] >= 1)
    BY <1>1 DEF FewAreSent
  <2>2. CASE r # p
    BY <1>2, <1>3, <2>1, <2>2
  <2>3. CASE r = p
    <3>1. Cardinality(OfSender(backlog[q], r)) \in Nat
      <4>1. backlog[q] \in Seq(Requests)
        BY <1>1 DEF InstTyped
      <4> QED
        BY ONLY <4>1, CountIs
    <3>2. Sent(at[p], left[p]) \in Nat /\ Sent(s, left'[p]) \in Nat
      BY <2>1, <2>3, SentIs
    <3>3. Cardinality(OfSender(backlog[q], p)) <= Sent(s, left'[p])
      BY <2>1, <2>3, <3>1, <3>2
    <3> QED
      BY <1>2, <1>3, <2>3, <3>3
  <2> QED
    BY <2>2, <2>3
<1> QED
  BY <1>4, <1>5, <1>6, <1>7, <1>8, <1>9, <1>10, <1>11 DEF InstInv

\* What the invariant says of one process, one fact at a time.
LEMMA LeftIs ==
  ASSUME InstInv, NEW p \in Processes
  PROVE /\ left \in [Processes -> Nat] /\ left[p] \in 0 .. Attempts
        /\ at[p] \in {"forwarding", "w_forwarding"} => left[p] >= 1
        /\ deaf \subseteq Processes /\ at[p] \in Places
        /\ endpoint \in [owner : Processes \cup {NoProcess}, whole : BOOLEAN]
        /\ (p \in serving => at[p] \in Served) /\ (at[p] \in Holding => lock = p)
        /\ at[p] # "w_probing"
BY DEF InstInv, FewAreSent, InstTyped, ServersAreFound, LockIsHeld

\* Who holds the lock is the only one who can serve.
LEMMA HolderServes ==
  ASSUME InstInv, NEW p \in Processes, at[p] \in Holding, at[p] \notin Served
  PROVE serving = {}
<1>1. lock = p
  BY LeftIs
<1>2. ASSUME NEW q \in serving PROVE FALSE
  <2>1. q \in Processes /\ at[q] \in Served
    BY <1>2 DEF InstInv, InstTyped, ServersAreFound
  <2>2. at[q] \in Holding
    BY <2>1 DEF Served, Holding, Closing
  <2>3. lock = q
    BY <2>1, <2>2, LeftIs
  <2> QED
    BY <1>1, <2>1, <2>3
<1> QED
  BY <1>2

\* A process is started.
LEMMA LaunchStep == ASSUME InstInv, NEW p \in Processes, Launch(p) PROVE InstInv'
<1>1. PICK s \in {"asking", "locking"} : Goes(p, s)
  BY DEF Launch
<1>2. /\ at[p] = "idle"
      /\ UNCHANGED <<outside, lock, endpoint, serving, backlog, inbox, deaf, raised, peer, reply, left>>
  BY DEF Launch, service
<1>3. s \in Places /\ s \notin Waiting \cup {"forwarded"} /\ at[p] \notin Waiting
      /\ s \notin Holding /\ at[p] \notin Served /\ at[p] \notin Past
      /\ s \notin {"forwarding", "w_forwarding"}
  BY <1>1, <1>2 DEF Places, Waiting, Calling, Acquiring, Holding, Served, Past, Closing
<1>4. Sent(at[p], left[p]) = Sent(s, left[p])
  BY <1>1, <1>2 DEF Sent
<1>5. Sent(at[p], left[p]) \in Nat
  BY LeftIs, SentIs
<1>6. Sent(at[p], left[p]) <= Sent(s, left'[p])
  BY <1>2, <1>4, <1>5
<1>7. /\ left' \in [Processes -> Nat] /\ left'[p] \in 0 .. Attempts
      /\ deaf' \subseteq Processes /\ p \notin serving
      /\ \A q \in Processes : q # p => left'[q] = left[q]
  BY <1>2, <1>3, LeftIs
<1> QED
  BY ONLY InstInv, <1>1, <1>2, <1>3, <1>6, <1>7, MoveStep

\* A step of who holds the lock, or gives it back.
LEMMA HolderStep ==
  ASSUME InstInv, NEW p \in Processes, NEW s \in (Holding \cup {"gone"}) \ {"w_probing"}, Goes(p, s),
         at[p] \in Holding \ {"w_probing"},
         UNCHANGED <<outside, backlog, inbox, raised, peer, reply, serving, left>>,
         deaf' \in {deaf, deaf \cup {p}},
         lock' = IF s = "gone" THEN NoProcess ELSE lock,
         \/ endpoint' = endpoint
         \/ serving = {} /\ endpoint' \in [owner : Processes \cup {NoProcess}, whole : BOOLEAN],
         p \in serving => s \in Served,
         at[p] \in Past => s \in Past /\ (s \in {"starting", "running"} => at[p] \in {"starting", "running"})
  PROVE InstInv'
<1>1. /\ left' \in [Processes -> Nat] /\ left'[p] \in 0 .. Attempts
      /\ \A q \in Processes : q # p => left'[q] = left[q]
      /\ left'[p] = left[p]
  BY LeftIs
<1>2. lock = p /\ deaf' \subseteq Processes
  BY LeftIs
<1>3. lock' = lock \/ (lock \in {p, NoProcess} /\ lock' \in {p, NoProcess})
  BY <1>2
<1>4. s \in Holding => lock' = p
  BY <1>2 DEF Holding, Closing
<1>5. s \in Places /\ s \notin Waiting \cup {"forwarded"} /\ at[p] \notin Waiting
      /\ s \notin {"forwarding", "w_forwarding"}
  BY DEF Holding, Closing, Places, Waiting, Calling, Acquiring, Ended
<1>6. Sent(at[p], left[p]) = Attempts + 1 /\ Sent(s, left[p]) = Attempts + 1
  BY Zenon DEF Sent, Holding, Closing
<1>7. Sent(at[p], left[p]) <= Sent(s, left'[p])
  <2>1. Attempts + 1 <= Attempts + 1
    BY LaunchIs
  <2> QED
    BY ONLY <1>1, <1>6, <2>1
<1> QED
  BY <1>1, <1>2, <1>3, <1>4, <1>5, <1>7, MoveStep

\* The endpoint files.
Owners == [owner : Processes \cup {NoProcess}, whole : BOOLEAN]

\* The endpoint files that are written are endpoint files.
LEMMA FilesAre == NoFile \in Owners /\ \A p \in Processes, b \in BOOLEAN : [owner |-> p, whole |-> b] \in Owners
BY DEF NoFile, Owners

\* The places of a process, listed.
LEMMA PlacesAre ==
  /\ {"binding", "publishing", "probing", "starting", "running", "flushing", "querying", "closing",
      "unlinking", "unlocking"} = Holding \ {"w_probing"}
  /\ Served = {"starting", "running", "flushing", "querying", "closing"}
  /\ Past = {"starting", "running", "flushing", "querying", "gone", "dead", "closing", "unlinking", "unlocking"}
BY DEF Holding, Closing, Served, Past

\* The holder of the lock finds an endpoint, or creates its own file.
LEMMA MakeWayStep ==
  ASSUME InstInv, NEW p \in Processes, FindsEndpoint(p) \/ CreateWindows(p) PROVE InstInv'
<1>1. PICK s \in {"probing", "publishing"} : Goes(p, s)
  BY DEF FindsEndpoint, CreateWindows
<1>2. /\ at[p] = "binding"
      /\ UNCHANGED <<outside, lock, serving, backlog, inbox, deaf, raised, peer, reply, left>>
      /\ endpoint' = endpoint \/ endpoint' \in Owners
  BY FilesAre DEF FindsEndpoint, CreateWindows, service
<1>3. serving = {}
  BY <1>2, PlacesAre, HolderServes
<1> QED
  BY ONLY InstInv, <1>1, <1>2, <1>3, PlacesAre, HolderStep DEF Owners

\* The primary opens the store, answers its query, is told to quit or flushes.
LEMMA HostsStep ==
  ASSUME InstInv, NEW p \in Processes, Starts(p) \/ AskDone(p) \/ Quit(p) \/ Flushed(p) PROVE InstInv'
<1>1. PICK s \in {"running", "flushing", "closing"} :
        Goes(p, s) /\ (s = "running" => at[p] = "starting")
  BY DEF Starts, AskDone, Quit, Flushed
<1>2. /\ at[p] \in {"starting", "running", "flushing", "querying"} /\ deaf' \in {deaf, deaf \cup {p}}
      /\ UNCHANGED <<outside, lock, endpoint, serving, backlog, inbox, raised, peer, reply, left>>
  BY DEF Starts, AskDone, Quit, Flushed, service
<1> QED
  BY ONLY InstInv, <1>1, <1>2, PlacesAre, HolderStep

\* The drop of the guard removes the file: it still holds the lock, so that nobody serves.
LEMMA UnlinkStep ==
  ASSUME InstInv, NEW p \in Processes, Unlink(p) PROVE InstInv'
<1>1. Goes(p, "unlocking") /\ at[p] = "unlinking" /\ endpoint' \in Owners
      /\ UNCHANGED <<outside, lock, serving, backlog, inbox, deaf, raised, peer, reply, left>>
  BY FilesAre DEF Unlink, service
<1>2. serving = {}
  BY <1>1, PlacesAre, HolderServes
<1> QED
  BY ONLY InstInv, <1>1, <1>2, PlacesAre, HolderStep DEF Owners

\* The drop of the guard gives the lock back, when it no longer serves.
LEMMA UnlockStep ==
  ASSUME InstInv, NEW p \in Processes, Unlock(p) PROVE InstInv'
<1>1. Goes(p, "gone") /\ at[p] = "unlocking" /\ lock' = NoProcess
      /\ UNCHANGED <<outside, endpoint, serving, backlog, inbox, deaf, raised, peer, reply, left>>
  BY DEF Unlock, service
<1>2. serving = {}
  BY <1>1, PlacesAre, HolderServes
<1> QED
  BY ONLY InstInv, <1>1, <1>2, PlacesAre, HolderStep

\* The probe finds nobody: the file is stale and is removed under the lock.
LEMMA ProbeFailsStep ==
  ASSUME InstInv, NEW p \in Processes, at[p] = "probing", Goes(p, "binding"), endpoint' = NoFile,
         UNCHANGED <<outside, lock, serving, backlog, inbox, deaf, raised, peer, reply, left>>
  PROVE InstInv'
<1>1. serving = {}
  BY PlacesAre, HolderServes
<1>2. endpoint' \in Owners
  BY FilesAre
<1> QED
  BY <1>1, <1>2, PlacesAre, HolderStep DEF Owners

\* Where a call waits.
LEMMA WaitOfIs ==
  /\ WaitOf["asking"] = "w_asking" /\ WaitOf["asksAgain"] = "w_asksAgain"
  /\ WaitOf["forwarding"] = "w_forwarding" /\ WaitOf["probing"] = "w_probing"
BY DEF WaitOf, Calling

\* The call that waits there.
LEMMA CallOfIs ==
  /\ CallOf("w_asking") = "asking" /\ CallOf("w_asksAgain") = "asksAgain"
  /\ CallOf("w_forwarding") = "forwarding" /\ CallOf("w_probing") = "probing"
<1>1. \A w \in Waiting : \E s \in Calling : WaitOf[s] = w
  BY WaitOfIs DEF Waiting, Calling
<1>2. \A w \in Waiting : CallOf(w) \in Calling /\ WaitOf[CallOf(w)] = w
  BY <1>1 DEF CallOf
<1> QED
  BY <1>2, WaitOfIs DEF Waiting, Calling

\* What a failed call leads to.
LEMMA CallFailsIs ==
  ASSUME InstInv, NEW p \in Processes, NEW call \in Calling, NEW refused,
         at[p] = call \/ (at[p] = WaitOf[call] /\ ~refused), CallFails(p, call, refused)
  PROVE \E s \in {"forwarding", "failed", "binding", "locking"} :
          /\ Goes(p, s) /\ left' \in [Processes -> Nat] /\ left'[p] \in 0 .. Attempts
          /\ \A q \in Processes : q # p => left'[q] = left[q]
          /\ s = "forwarding" => left'[p] >= 1
          /\ Sent(at[p], left[p]) <= Sent(s, left'[p])
          /\ s = "binding" => call = "probing" /\ lock = p /\ serving = {} /\ endpoint' = NoFile
                              /\ left' = left
          /\ s # "binding" => endpoint' = endpoint
<1>1. left \in [Processes -> Nat] /\ left[p] \in 0 .. Attempts /\ Attempts \in Nat
      /\ (at[p] \in {"forwarding", "w_forwarding"} => left[p] >= 1)
  BY LeftIs, LaunchIs
<1>2. CASE call = "forwarding"
  <2>1. left' = [left EXCEPT ![p] = @ - 1] /\ endpoint' = endpoint
        /\ Goes(p, IF left[p] = 1 THEN "failed" ELSE "forwarding")
    BY <1>2 DEF CallFails
  <2>2. at[p] \in {"forwarding", "w_forwarding"}
    BY <1>2, WaitOfIs
  <2>3. left'[p] = left[p] - 1 /\ left[p] >= 1 /\ left' \in [Processes -> Nat]
        /\ \A q \in Processes : q # p => left'[q] = left[q]
    BY ONLY <1>1, <2>1, <2>2
  <2>4. CASE left[p] = 1
    <3>1. Goes(p, "failed")
      BY <2>1, <2>4
    <3>2. Sent(at[p], left[p]) <= Sent("failed", left'[p])
      BY ONLY <1>1, <2>2, <2>3, <2>4 DEF Sent
    <3> QED
      BY ONLY <1>1, <2>1, <2>3, <2>4, <3>1, <3>2
  <2>5. CASE left[p] # 1
    <3>1. Goes(p, "forwarding")
      BY <2>1, <2>5
    <3>2. Sent(at[p], left[p]) <= Sent("forwarding", left'[p])
      BY ONLY <1>1, <2>2, <2>3, <2>5 DEF Sent
    <3>3. left'[p] >= 1
      BY ONLY <1>1, <2>3, <2>5
    <3> QED
      BY ONLY <1>1, <2>1, <2>3, <3>1, <3>2, <3>3
  <2> QED
    BY <2>4, <2>5
<1>3. CASE call = "probing"
  <2>1. endpoint' = NoFile /\ Goes(p, "binding") /\ left' = left
    BY <1>3 DEF CallFails
  <2>2. at[p] \in {"probing", "w_probing"}
    BY <1>3, WaitOfIs
  <2>3. at[p] \in Holding /\ at[p] \notin Served
    BY <2>2 DEF Holding, Served
  <2>4. lock = p /\ serving = {}
    BY <2>3, LeftIs, HolderServes
  <2>5. Sent(at[p], left[p]) <= Sent("binding", left[p])
    BY ONLY <1>1, <2>2 DEF Sent
  <2> QED
    BY ONLY <1>1, <1>3, <2>1, <2>4, <2>5
<1>4. CASE call \in {"asking", "asksAgain"}
  <2>1. PICK s \in {"locking", "failed"} : Goes(p, s) /\ (s = "locking" => call = "asking" /\ refused)
    BY <1>4 DEF CallFails
  <2>2. endpoint' = endpoint /\ left' = left
    BY <1>4 DEF CallFails
  <2>3. at[p] \in {"asking", "w_asking", "asksAgain", "w_asksAgain"} /\ (s = "locking" => at[p] = "asking")
    BY <1>4, <2>1, WaitOfIs
  <2>4. Sent(at[p], left[p]) <= Sent(s, left[p])
    BY ONLY <1>1, <2>1, <2>3 DEF Sent
  <2> QED
    BY ONLY <1>1, <2>1, <2>2, <2>4
<1> QED
  BY <1>2, <1>3, <1>4 DEF Calling

\* A process takes the owner lock or forwards to who holds it.
LEMMA TryLockStep == ASSUME InstInv, NEW p \in Processes, TryLock(p) PROVE InstInv'
<1>1. PICK s \in {"binding", "forwarding"} :
        /\ Goes(p, s) /\ (s = "binding" => lock = NoProcess /\ lock' = p)
        /\ (s = "forwarding" => lock' = lock)
  BY DEF TryLock
<1>2. /\ at[p] = "locking" /\ left' = [left EXCEPT ![p] = Attempts]
      /\ UNCHANGED <<outside, endpoint, serving, backlog, inbox, deaf, raised, peer, reply>>
  BY DEF TryLock, service
<1>3. left \in [Processes -> Nat] /\ Attempts \in Nat /\ Attempts >= 1 /\ deaf \subseteq Processes
      /\ p \notin serving /\ left[p] \in 0 .. Attempts
  <2>1. at[p] \notin Served
    BY <1>2 DEF Served
  <2> QED
    BY ONLY InstInv, <2>1, LeftIs, LaunchIs
<1>4. left' \in [Processes -> Nat] /\ left'[p] = Attempts /\ \A q \in Processes : q # p => left'[q] = left[q]
  BY ONLY <1>2, <1>3
<1>5. Sent(at[p], left[p]) <= Sent(s, left'[p])
  BY ONLY <1>1, <1>2, <1>3, <1>4 DEF Sent
<1>6. s \in Places /\ s \notin Waiting \cup {"forwarded"} /\ at[p] \notin Waiting /\ at[p] \notin Past
      /\ (s \in Holding => s = "binding")
  BY ONLY <1>1, <1>2 DEF Places, Waiting, Calling, Acquiring, Holding, Past, Closing
<1>7. left'[p] \in 0 .. Attempts /\ left'[p] >= 1
  BY ONLY <1>3, <1>4
<1>8. deaf' \subseteq Processes /\ (s \in Holding => lock' = p)
      /\ (lock' = lock \/ (lock \in {p, NoProcess} /\ lock' \in {p, NoProcess}))
  BY ONLY <1>1, <1>2, <1>3, <1>6
<1> QED
  BY ONLY InstInv, <1>1, <1>2, <1>3, <1>4, <1>5, <1>6, <1>7, <1>8, MoveStep

\* A call finds nobody to connect to.
LEMMA ConnectFailsStep == ASSUME InstInv, NEW p \in Processes, ConnectFails(p) PROVE InstInv'
<1>1. at[p] \in Calling /\ CallFails(p, at[p], endpoint = NoFile \/ endpoint.whole)
      /\ UNCHANGED <<outside, lock, serving, backlog, inbox, deaf, raised, peer, reply>>
  BY DEF ConnectFails, service
<1>2. PICK s \in {"forwarding", "failed", "binding", "locking"} :
          /\ Goes(p, s) /\ left' \in [Processes -> Nat] /\ left'[p] \in 0 .. Attempts
          /\ \A q \in Processes : q # p => left'[q] = left[q]
          /\ s = "forwarding" => left'[p] >= 1
          /\ Sent(at[p], left[p]) <= Sent(s, left'[p])
          /\ s = "binding" => at[p] = "probing" /\ lock = p /\ serving = {} /\ endpoint' = NoFile
                              /\ left' = left
          /\ s # "binding" => endpoint' = endpoint
  BY ONLY InstInv, p \in Processes, <1>1, CallFailsIs
<1>3. CASE s = "binding"
  BY <1>1, <1>2, <1>3, ProbeFailsStep
<1>4. CASE s # "binding"
  <2>1. s \in Places /\ s \notin Waiting \cup {"forwarded"} /\ at[p] \notin Waiting /\ at[p] \notin Past
        /\ s \notin Holding /\ at[p] \notin Served /\ s # "w_forwarding"
    BY ONLY <1>1, <1>2, <1>4 DEF Places, Waiting, Calling, Acquiring, Holding, Past, Closing, Served, Ended
  <2>2. deaf' \subseteq Processes /\ p \notin serving
    BY <1>1, <2>1, LeftIs
  <2> QED
    BY ONLY InstInv, <1>1, <1>2, <1>4, <2>1, <2>2, MoveStep
<1> QED
  BY <1>3, <1>4

\* What is left of a server's requests s: none of p's is open.
Fewer(p, s, t) ==
    \/ t = <<>>
    \/ /\ DOMAIN t = DOMAIN s
       /\ \A i \in DOMAIN s : /\ t[i].from = s[i].from /\ t[i].what = s[i].what
                              /\ t[i].open => s[i].open /\ s[i].from # p

\* p stops waiting, closes or dies.
LEMMA LeaveStep ==
  ASSUME InstInv, NEW p \in Processes, NEW s \in Places \ Waiting, Goes(p, s),
         UNCHANGED <<os, purpose, peer, raised>>, faults' \in 0 .. MaxFaults, deaf' \subseteq Processes,
         serving' = serving \/ serving' = serving \ {p}, p \in serving' => s \in Served,
         at[p] \in Past => s \in Past /\ (s \in {"starting", "running"} => at[p] \in {"starting", "running"}),
         inbox' \in [Processes -> SUBSET Processes], \A q \in Processes : q # p => inbox'[q] = inbox[q],
         inbox'[p] = inbox[p] \/ s \notin {"starting", "running"},
         reply' \in [Processes -> {"none", "result", "ack", "pong", "rejected"}], reply'[p] = "none",
         \A q \in Processes : q # p => reply'[q] = reply[q],
         s = "forwarded" => at[p] = "forwarded" \/ reply[p] = "ack" \/ purpose[p] # "show",
         backlog' \in [Processes -> Seq(Requests)],
         \A q \in Processes : Fewer(p, backlog[q], backlog'[q]),
         lock' = lock \/ (lock \in {p, NoProcess} /\ lock' \in {p, NoProcess}),
         s \in Holding => lock' = p,
         endpoint' = endpoint \/ (serving = {} /\ endpoint' \in Owners),
         left' \in [Processes -> Nat], \A q \in Processes : q # p => left'[q] = left[q],
         left'[p] \in 0 .. Attempts, s \in {"forwarding", "w_forwarding"} => left'[p] >= 1,
         Sent(at[p], left[p]) <= Sent(s, left'[p])
  PROVE InstInv'
<1>1. InstTyped /\ LockIsHeld /\ ServersAreFound /\ PeersArePast
      /\ RequestsAreAwaited /\ OneOpen /\ RepliesFit /\ AcksAreKept /\ FewAreSent
  BY DEF InstInv
<1>2. /\ at'[p] = s /\ \A q \in Processes : q # p => at'[q] = at[q]
      /\ at' \in [Processes -> Places]
  BY <1>1 DEF Goes, InstTyped
<1>3. UNCHANGED <<os, purpose, peer, raised>>
  OBVIOUS
<1>4. InstTyped'
  BY <1>1, <1>2, <1>3 DEF InstTyped, Owners
<1>5. LockIsHeld'
  BY <1>1, <1>2, LaunchIs DEF LockIsHeld, Waiting
<1>6. ServersAreFound'
  BY <1>1, <1>2, <1>3 DEF ServersAreFound, InstTyped
<1>p. at[p] \in Past => s \in Past /\ (s \in {"starting", "running"} => at[p] \in {"starting", "running"})
  OBVIOUS
<1>7. PeersArePast'
  <2>1. ASSUME NEW r \in Processes, peer[r] \in Processes PROVE at'[peer[r]] \in Past
    <3>1. at[peer[r]] \in Past
      BY ONLY <1>1, <2>1, r \in Processes DEF PeersArePast
    <3> QED
      BY ONLY <1>2, <1>p, <2>1, <3>1
  <2> QED
    BY ONLY <1>3, <2>1 DEF PeersArePast
<1>8. \A q \in Processes : backlog[q] \in Seq(Requests) /\ backlog'[q] \in Seq(Requests)
  BY <1>1 DEF InstTyped
<1>9. ASSUME NEW q \in Processes, NEW i \in DOMAIN backlog'[q], backlog'[q][i].open
      PROVE /\ i \in DOMAIN backlog[q] /\ backlog[q][i].open /\ backlog[q][i].from # p
            /\ backlog'[q][i].from = backlog[q][i].from /\ backlog'[q][i].what = backlog[q][i].what
            /\ backlog[q][i].from \in Processes
  <2>1. Fewer(p, backlog[q], backlog'[q])
    OBVIOUS
  <2>2. backlog'[q] # <<>>
    BY <1>9
  <2>3. i \in DOMAIN backlog[q]
    BY ONLY <1>9, <2>1, <2>2 DEF Fewer
  <2>4. backlog[q][i].from \in Processes
    BY ONLY <1>8, <2>3, q \in Processes, CountIs
  <2> QED
    BY ONLY <1>9, <2>1, <2>2, <2>3, <2>4 DEF Fewer
<1>10. RequestsAreAwaited'
  <2>1. ASSUME NEW q \in Processes, NEW i \in DOMAIN backlog'[q], backlog'[q][i].open
        PROVE Awaits(q, backlog[q][i])
              /\ at'[backlog[q][i].from] = at[backlog[q][i].from]
              /\ reply'[backlog[q][i].from] = reply[backlog[q][i].from]
    BY <1>1, <1>2, <1>9, <2>1 DEF RequestsAreAwaited
  <2>2. ASSUME NEW q \in Processes, NEW i \in DOMAIN backlog'[q], backlog'[q][i].open
        PROVE Awaits(q, backlog[q][i])'
    BY ONLY <1>3, <1>9, <2>1, <2>2 DEF Awaits
  <2> QED
    BY ONLY <2>2 DEF RequestsAreAwaited
<1>11. OneOpen'
  BY ONLY <1>1, <1>9 DEF OneOpen
<1>12. RepliesFit'
  BY <1>1, <1>2, <1>3 DEF RepliesFit
<1>13. AcksAreKept'
  <2>1. ASSUME NEW r \in Processes, NEW q \in Processes, purpose[r] = "show",
               reply'[r] = "ack" \/ at'[r] = "forwarded", peer[r] = q, at'[q] \in {"starting", "running"}
        PROVE r \in inbox'[q] \cup raised
    <3>1. reply[r] = "ack" \/ at[r] = "forwarded"
      BY <1>2, <2>1
    <3>2. at[q] \in Past
      BY ONLY <1>1, <2>1, r \in Processes, q \in Processes DEF PeersArePast
    <3>3. at[q] \in {"starting", "running"}
      BY ONLY <1>2, <1>p, <2>1, <3>2, q \in Processes
    <3>4. r \in inbox[q] \cup raised
      BY ONLY <1>1, <2>1, <3>1, <3>3, r \in Processes, q \in Processes DEF AcksAreKept
    <3>5. inbox'[q] = inbox[q]
      BY <1>2, <2>1
    <3> QED
      BY ONLY <3>4, <3>5
  <2> QED
    BY ONLY <1>3, <2>1 DEF AcksAreKept
<1>14. FewAreSent'
  <2> SUFFICES ASSUME NEW r \in Processes, NEW q \in Processes
               PROVE /\ left'[r] \in 0 .. Attempts
                     /\ at'[r] \in {"forwarding", "w_forwarding"} => left'[r] >= 1
                     /\ Cardinality(OfSender(backlog'[q], r)) <= Sent(at'[r], left'[r])
    BY DEF FewAreSent
  <2>1. left[r] \in 0 .. Attempts /\ Cardinality(OfSender(backlog[q], r)) <= Sent(at[r], left[r])
        /\ (at[r] \in {"forwarding", "w_forwarding"} => left[r] >= 1)
    BY <1>1 DEF FewAreSent
  <2>2. left'[r] \in 0 .. Attempts /\ (at'[r] \in {"forwarding", "w_forwarding"} => left'[r] >= 1)
    BY <1>2, <2>1
  <2>3. Sent(at[r], left[r]) <= Sent(at'[r], left'[r])
    <3>1. Sent(at[r], left[r]) <= Sent(at[r], left[r])
      BY <2>1, SentIs
    <3> QED
      BY <1>2, <3>1
  <2>4. Sent(at[r], left[r]) \in Nat /\ Sent(at'[r], left'[r]) \in Nat
    BY ONLY <2>1, <2>2, SentIs
  <2>5. OfSender(backlog'[q], r) = {} \/ OfSender(backlog'[q], r) = OfSender(backlog[q], r)
    <3>1. Fewer(p, backlog[q], backlog'[q])
      OBVIOUS
    <3> QED
      BY ONLY <3>1 DEF Fewer, OfSender
  <2>6. Cardinality(OfSender(backlog[q], r)) \in Nat
    BY ONLY <1>8, q \in Processes, CountIs
  <2>7. Cardinality(OfSender(backlog'[q], r)) = 0
        \/ Cardinality(OfSender(backlog'[q], r)) = Cardinality(OfSender(backlog[q], r))
    BY ONLY <2>5, FS_EmptySet
  <2> QED
    BY ONLY <2>1, <2>2, <2>3, <2>4, <2>6, <2>7
<1> QED
  BY <1>4, <1>5, <1>6, <1>7, <1>10, <1>11, <1>12, <1>13, <1>14 DEF InstInv

\* The requests a process abandons stay in the backlog, closed.
LEMMA AbandonedIs ==
  ASSUME NEW s \in Seq(Requests), NEW p
  PROVE Abandoned(p, s) \in Seq(Requests) /\ Fewer(p, s, Abandoned(p, s))
<1> DEFINE t == Abandoned(p, s)
<1>1. DOMAIN s = 1 .. Len(s) /\ Len(s) \in Nat /\ \A i \in DOMAIN s : s[i] \in Requests
  BY CountIs
<1>2. t = [i \in DOMAIN s |-> IF s[i].from = p THEN [s[i] EXCEPT !.open = FALSE] ELSE s[i]]
  BY DEF Abandoned
<1>3. \A r \in Requests : /\ [r EXCEPT !.open = FALSE] \in Requests
                          /\ [r EXCEPT !.open = FALSE].from = r.from
                          /\ [r EXCEPT !.open = FALSE].what = r.what
                          /\ ~[r EXCEPT !.open = FALSE].open
  BY DEF Requests
<1> HIDE DEF t
<1>4. DOMAIN t = DOMAIN s
  BY ONLY <1>2
<1>5. \A i \in DOMAIN s : t[i] = IF s[i].from = p THEN [s[i] EXCEPT !.open = FALSE] ELSE s[i]
  BY ONLY <1>2
<1>6. \A i \in DOMAIN s :
        /\ t[i] \in Requests /\ t[i].from = s[i].from /\ t[i].what = s[i].what
        /\ t[i].open => s[i].open /\ s[i].from # p
  <2> SUFFICES ASSUME NEW i \in DOMAIN s
               PROVE /\ t[i] \in Requests /\ t[i].from = s[i].from /\ t[i].what = s[i].what
                     /\ t[i].open => s[i].open /\ s[i].from # p
    OBVIOUS
  <2>1. CASE s[i].from = p
    BY ONLY <1>1, <1>3, <1>5, <2>1, i \in DOMAIN s
  <2>2. CASE s[i].from # p
    BY ONLY <1>1, <1>5, <2>2, i \in DOMAIN s
  <2> QED
    BY <2>1, <2>2
<1>7. t \in [1 .. Len(s) -> Requests]
  <2>1. t = [i \in 1 .. Len(s) |-> t[i]]
    BY ONLY <1>1, <1>2
  <2> QED
    BY ONLY <1>1, <1>6, <2>1
<1>8. t \in Seq(Requests)
  BY ONLY <1>1, <1>7, SeqDef
<1> QED
  BY ONLY <1>4, <1>6, <1>8 DEF Fewer, t

\* A process that does not wait, or has its reply, has no open request.
LEMMA FewerStays ==
  ASSUME InstInv, NEW p \in Processes, reply[p] # "none" \/ at[p] \notin Waiting
  PROVE \A q \in Processes : Fewer(p, backlog[q], backlog[q])
<1> SUFFICES ASSUME NEW q \in Processes, NEW i \in DOMAIN backlog[q], backlog[q][i].open, backlog[q][i].from = p
             PROVE FALSE
  BY DEF Fewer
<1>1. Awaits(q, backlog[q][i])
  BY DEF InstInv, RequestsAreAwaited
<1> QED
  BY <1>1 DEF Awaits

\* A call times out or loses its connection: its request is abandoned.
LEMMA GivesUpStep == ASSUME InstInv, NEW p \in Processes, GivesUp(p) PROVE InstInv'
<1>1. /\ at[p] \in Waiting /\ reply[p] = "none" /\ CallFails(p, CallOf(at[p]), FALSE)
      /\ backlog' = [q \in Processes |-> Abandoned(p, backlog[q])]
      /\ UNCHANGED <<os, purpose, faults, lock, serving, inbox, deaf, raised, peer, reply>>
  BY DEF GivesUp, outside
<1>2. CallOf(at[p]) \in Calling /\ at[p] = WaitOf[CallOf(at[p])]
  BY ONLY <1>1, WaitOfIs, CallOfIs DEF Waiting, Calling
<1>2a. PICK call \in Calling : at[p] = WaitOf[call] /\ CallFails(p, call, FALSE)
  BY ONLY <1>1, <1>2
<1>2b. PICK refused : ~refused /\ CallFails(p, call, refused)
  BY <1>2a
<1>3. PICK s \in {"forwarding", "failed", "binding", "locking"} :
          /\ Goes(p, s) /\ left' \in [Processes -> Nat] /\ left'[p] \in 0 .. Attempts
          /\ \A q \in Processes : q # p => left'[q] = left[q]
          /\ s = "forwarding" => left'[p] >= 1
          /\ Sent(at[p], left[p]) <= Sent(s, left'[p])
          /\ s = "binding" => call = "probing" /\ lock = p /\ serving = {} /\ endpoint' = NoFile
                              /\ left' = left
          /\ s # "binding" => endpoint' = endpoint
  BY ONLY InstInv, p \in Processes, <1>2a, <1>2b, CallFailsIs
<1>4. InstTyped
  BY DEF InstInv
<1>5. \A q \in Processes : backlog[q] \in Seq(Requests)
  BY <1>4 DEF InstTyped
<1>6. backlog' \in [Processes -> Seq(Requests)] /\ \A q \in Processes : Fewer(p, backlog[q], backlog'[q])
  <2>1. \A q \in Processes : Abandoned(p, backlog[q]) \in Seq(Requests) /\ Fewer(p, backlog[q], Abandoned(p, backlog[q]))
    BY ONLY <1>5, AbandonedIs
  <2> QED
    BY ONLY <1>1, <2>1
<1>7. s \in Places \ Waiting /\ s # "forwarded" /\ at[p] \notin Past /\ at[p] \notin Served
      /\ s # "w_forwarding" /\ s \notin {"starting", "running"}
  BY ONLY <1>1, <1>3 DEF Places, Waiting, Calling, Acquiring, Past, Closing, Served, Ended
<1>8. p \notin serving
  BY <1>7, LeftIs
<1>9. s \in Holding => lock' = p
  <2>1. s \in Holding => s = "binding"
    BY ONLY <1>3 DEF Holding, Closing
  <2> QED
    BY ONLY <1>1, <1>3, <2>1
<1>10. endpoint' = endpoint \/ (serving = {} /\ endpoint' \in Owners)
  BY ONLY <1>3, FilesAre
<1>11. /\ faults' \in 0 .. MaxFaults /\ deaf' \subseteq Processes /\ inbox' \in [Processes -> SUBSET Processes]
       /\ reply' \in [Processes -> {"none", "result", "ack", "pong", "rejected"}] /\ reply'[p] = "none"
       /\ \A q \in Processes : reply'[q] = reply[q] /\ inbox'[q] = inbox[q]
  BY ONLY <1>1, <1>4 DEF InstTyped
<1> QED
  BY ONLY InstInv, p \in Processes, <1>1, <1>3, <1>6, <1>7, <1>8, <1>9, <1>10, <1>11, LeaveStep

\* A reply is to the call its reader is in.
LEMMA ReplyIs ==
  ASSUME InstInv, NEW p \in Processes
  PROVE /\ reply \in [Processes -> {"none", "result", "ack", "pong", "rejected"}]
        /\ reply[p] # "none" => at[p] \in Waiting
        /\ reply[p] = "result" => at[p] \in Asking
        /\ reply[p] = "ack" => at[p] \notin Asking /\ purpose[p] = "show"
        /\ reply[p] = "pong" => at[p] \notin Asking /\ purpose[p] # "show"
        /\ inbox \in [Processes -> SUBSET Processes] /\ faults \in 0 .. MaxFaults
        /\ backlog \in [Processes -> Seq(Requests)]
BY DEF InstInv, InstTyped, RepliesFit

\* The answer is read: there is no request of p any more.
LEMMA ReadStep ==
  ASSUME InstInv, NEW p \in Processes, NEW s \in {"answered", "forwarded", "asksAgain", "forwarding", "failed",
                                                  "binding", "locking"},
         Goes(p, s), at[p] \in Waiting, reply[p] # "none", reply' = [reply EXCEPT ![p] = "none"],
         UNCHANGED <<outside, serving, backlog, inbox, deaf, raised, peer>>,
         s = "forwarded" => reply[p] = "ack" \/ purpose[p] # "show",
         lock' = (IF lock = p /\ s # "binding" THEN lock' ELSE lock) /\ lock' \in {lock, NoProcess},
         s = "binding" => lock = p,
         endpoint' = endpoint \/ (serving = {} /\ endpoint' \in Owners),
         left' \in [Processes -> Nat], \A q \in Processes : q # p => left'[q] = left[q],
         left'[p] \in 0 .. Attempts, s = "forwarding" => left'[p] >= 1,
         Sent(at[p], left[p]) <= Sent(s, left'[p])
  PROVE InstInv'
<1>1. s \in Places \ Waiting /\ at[p] \notin Past /\ at[p] \notin Served
      /\ s # "w_forwarding" /\ s \notin {"starting", "running"} /\ (s \in Holding => s = "binding")
  BY DEF Places, Waiting, Calling, Acquiring, Past, Closing, Served, Ended, Holding
<1>2. p \notin serving
  BY <1>1, LeftIs
<1>3. \A q \in Processes : Fewer(p, backlog[q], backlog[q])
  BY ONLY InstInv, p \in Processes, reply[p] # "none", FewerStays
<1>4. /\ faults' \in 0 .. MaxFaults /\ deaf' \subseteq Processes /\ inbox' \in [Processes -> SUBSET Processes]
      /\ reply' \in [Processes -> {"none", "result", "ack", "pong", "rejected"}] /\ reply'[p] = "none"
      /\ \A q \in Processes : q # p => reply'[q] = reply[q]
      /\ backlog' \in [Processes -> Seq(Requests)] /\ backlog' = backlog /\ inbox' = inbox
      /\ UNCHANGED <<os, purpose, peer, raised>>
  BY ReplyIs, LeftIs DEF outside
<1>5. lock' = lock \/ (lock \in {p, NoProcess} /\ lock' \in {p, NoProcess})
  OBVIOUS
<1>6. s \in Holding => lock' = p
  BY <1>1
<1> QED
  BY <1>1, <1>2, <1>3, <1>4, <1>5, <1>6, LeaveStep

\* A process reads the reply to its call.
LEMMA ReadReplyStep == ASSUME InstInv, NEW p \in Processes, ReadReply(p) PROVE InstInv'
<1>1. /\ at[p] \in Waiting /\ reply[p] # "none" /\ reply' = [reply EXCEPT ![p] = "none"]
      /\ UNCHANGED <<outside, serving, backlog, inbox, deaf, raised, peer>>
  BY DEF ReadReply, service
<1>2. left \in [Processes -> Nat] /\ left[p] \in 0 .. Attempts /\ Attempts \in Nat
  BY LeftIs, LaunchIs
<1>3. CASE reply[p] = "rejected"
  <2>1. CallFails(p, CallOf(at[p]), FALSE) /\ lock' = lock
    BY <1>3 DEF ReadReply
  <2>2. CallOf(at[p]) \in Calling /\ at[p] = WaitOf[CallOf(at[p])]
    BY ONLY <1>1, WaitOfIs, CallOfIs DEF Waiting, Calling
  <2>3. PICK call \in Calling : at[p] = WaitOf[call] /\ CallFails(p, call, FALSE)
    BY ONLY <2>1, <2>2
  <2>4. PICK refused : ~refused /\ CallFails(p, call, refused)
    BY <2>3
  <2>5. PICK s \in {"forwarding", "failed", "binding", "locking"} :
          /\ Goes(p, s) /\ left' \in [Processes -> Nat] /\ left'[p] \in 0 .. Attempts
          /\ \A q \in Processes : q # p => left'[q] = left[q]
          /\ s = "forwarding" => left'[p] >= 1
          /\ Sent(at[p], left[p]) <= Sent(s, left'[p])
          /\ s = "binding" => call = "probing" /\ lock = p /\ serving = {} /\ endpoint' = NoFile
                              /\ left' = left
          /\ s # "binding" => endpoint' = endpoint
    BY ONLY InstInv, p \in Processes, <2>3, <2>4, CallFailsIs
  <2>6. endpoint' = endpoint \/ (serving = {} /\ endpoint' \in Owners)
    BY ONLY <2>5, FilesAre
  <2>7. lock' = (IF lock = p /\ s # "binding" THEN lock' ELSE lock) /\ lock' \in {lock, NoProcess}
    BY ONLY <2>1
  <2> QED
    BY ONLY InstInv, p \in Processes, <1>1, <2>5, <2>6, <2>7, ReadStep
<1>4. CASE reply[p] = "result"
  <2>1. Goes(p, "answered") /\ UNCHANGED <<lock, left, endpoint>>
    BY <1>4 DEF ReadReply
  <2>2. at[p] \in Asking
    BY <1>4, ReplyIs
  <2>3. Sent(at[p], left[p]) <= Sent("answered", left[p])
    BY ONLY <1>2, <2>2 DEF Sent, Asking
  <2> QED
    BY ONLY InstInv, p \in Processes, <1>1, <1>2, <2>1, <2>3, ReadStep
<1>5. CASE reply[p] \in {"ack", "pong"}
  <2>1. PICK s \in {"asksAgain", "forwarded"} : Goes(p, s) /\ (s = "asksAgain" <=> purpose[p] = "ask")
    BY <1>5 DEF ReadReply
  <2>2. lock' = (IF lock = p THEN NoProcess ELSE lock) /\ UNCHANGED <<left, endpoint>>
    BY <1>5 DEF ReadReply
  <2>3. at[p] \in Waiting \ Asking /\ (reply[p] = "pong" => purpose[p] # "show")
        /\ (reply[p] = "ack" => purpose[p] = "show")
    BY <1>1, <1>5, ReplyIs
  <2>4. Sent(at[p], left[p]) <= Sent(s, left[p])
    <3>1. at[p] = "w_forwarding" /\ left[p] >= 1
      <4>1. at[p] # "w_probing"
        BY LeftIs
      <4>2. at[p] = "w_forwarding"
        BY ONLY <2>3, <4>1 DEF Waiting, Asking
      <4> QED
        BY <4>2, LeftIs
    <3> QED
      BY ONLY <1>2, <2>1, <3>1 DEF Sent
  <2> QED
    BY ONLY InstInv, p \in Processes, <1>1, <1>2, <1>5, <2>1, <2>2, <2>3, <2>4, ReadStep
<1> QED
  BY <1>1, <1>3, <1>4, <1>5, ReplyIs

\* An empty backlog holds no request of anybody.
LEMMA EmptyIs == <<>> \in Seq(Requests) /\ \A p, s : Fewer(p, s, <<>>)
BY EmptySeq DEF Fewer

\* A server closes its connections: what was asked of it is gone.
LEMMA StopStep ==
  ASSUME InstInv, NEW p \in Processes, NEW s \in {"starting", "running", "flushing", "querying", "closing", "unlinking"},
         Goes(p, s), at[p] \in Served, s = at[p] \/ (at[p] = "closing" /\ s = "unlinking"),
         serving' = serving \ {p}, backlog' = [backlog EXCEPT ![p] = <<>>], faults' \in 0 .. MaxFaults,
         UNCHANGED <<os, purpose, lock, endpoint, inbox, deaf, raised, peer, reply, left>>
  PROVE InstInv'
<1>1. s \in Places \ Waiting /\ s # "forwarded" /\ at[p] \notin Waiting /\ at[p] \in Holding
      /\ s \in Past /\ s \notin {"forwarding", "w_forwarding"}
  BY DEF Places, Waiting, Calling, Acquiring, Past, Closing, Served, Holding, Ended
<1>2. \A q \in Processes : Fewer(p, backlog[q], backlog[q])
  BY ONLY InstInv, p \in Processes, <1>1, FewerStays
<1>3. backlog \in [Processes -> Seq(Requests)]
  BY ReplyIs
<1>4. backlog' \in [Processes -> Seq(Requests)] /\ \A q \in Processes : Fewer(p, backlog[q], backlog'[q])
  BY <1>2, <1>3, EmptyIs
<1>5. /\ left \in [Processes -> Nat] /\ left[p] \in 0 .. Attempts /\ lock = p
      /\ Sent(at[p], left[p]) <= Sent(s, left[p])
  <2>1. left[p] \in 0 .. Attempts /\ lock = p /\ left \in [Processes -> Nat] /\ Attempts \in Nat
    BY <1>1, LeftIs, LaunchIs
  <2>2. Sent(at[p], left[p]) <= Sent(s, left[p])
    BY ONLY <2>1, at[p] \in Served, s = at[p] \/ (at[p] = "closing" /\ s = "unlinking") DEF Sent, Served
  <2> QED
    BY ONLY <2>1, <2>2
<1>6. /\ deaf' \subseteq Processes /\ inbox' \in [Processes -> SUBSET Processes]
      /\ reply' \in [Processes -> {"none", "result", "ack", "pong", "rejected"}] /\ reply'[p] = "none"
      /\ \A q \in Processes : reply'[q] = reply[q] /\ inbox'[q] = inbox[q]
  BY <1>1, LeftIs, ReplyIs
<1> QED
  BY <1>1, <1>4, <1>5, <1>6, LeaveStep

\* The drop of the guard stops the server, and its backlog goes.
LEMMA StopServerStep == ASSUME InstInv, NEW p \in Processes, StopServer(p) PROVE InstInv'
<1>1. /\ at[p] = "closing" /\ Goes(p, "unlinking") /\ serving' = serving \ {p}
      /\ backlog' = [backlog EXCEPT ![p] = <<>>]
      /\ UNCHANGED <<os, purpose, faults, lock, endpoint, inbox, deaf, raised, peer, reply, left>>
  BY DEF StopServer, outside
<1>2. faults' \in 0 .. MaxFaults /\ at[p] \in Served
  BY <1>1, ReplyIs DEF Served
<1> QED
  BY ONLY InstInv, p \in Processes, <1>1, <1>2, StopStep

\* The listener stops by itself, its process goes on.
LEMMA ListenerStopsStep == ASSUME InstInv, NEW p \in Processes, ListenerStops(p) PROVE InstInv'
<1>1. /\ faults < MaxFaults /\ faults' = faults + 1 /\ p \in serving /\ serving' = serving \ {p}
      /\ backlog' = [backlog EXCEPT ![p] = <<>>]
      /\ UNCHANGED <<os, purpose, at, lock, endpoint, inbox, deaf, raised, peer, reply, left>>
  BY DEF ListenerStops, Fault
<1>2. faults' \in 0 .. MaxFaults
  <2>1. faults \in 0 .. MaxFaults /\ MaxFaults \in Nat
    BY ReplyIs, LaunchAssumption
  <2> QED
    BY ONLY <1>1, <2>1
<1>3. at[p] \in Served
  BY <1>1, LeftIs
<1>4. Goes(p, at[p])
  BY <1>1 DEF Goes, InstInv, InstTyped
<1>5. at[p] \in {"starting", "running", "flushing", "querying", "closing", "unlinking"}
  BY ONLY <1>3 DEF Served
<1> QED
  BY ONLY InstInv, p \in Processes, <1>1, <1>2, <1>3, <1>4, <1>5, StopStep

\* A process dies: its lock, its server and its requests go, its endpoint file stays.
LEMMA ProcessDiesStep == ASSUME InstInv, NEW p \in Processes, ProcessDies(p) PROVE InstInv'
<1>1. /\ faults < MaxFaults /\ faults' = faults + 1 /\ at[p] \notin {"idle"} \cup Ended /\ Goes(p, "dead")
      /\ lock' = (IF lock = p THEN NoProcess ELSE lock) /\ serving' = serving \ {p}
      /\ backlog' = [q \in Processes |-> IF q = p THEN <<>> ELSE Abandoned(p, backlog[q])]
      /\ inbox' = [inbox EXCEPT ![p] = {}] /\ reply' = [reply EXCEPT ![p] = "none"]
      /\ UNCHANGED <<os, purpose, endpoint, deaf, raised, peer, left>>
  BY DEF ProcessDies, Fault
<1>2. faults' \in 0 .. MaxFaults
  <2>1. faults \in 0 .. MaxFaults /\ MaxFaults \in Nat
    BY ReplyIs, LaunchAssumption
  <2> QED
    BY ONLY <1>1, <2>1
<1>3. backlog' \in [Processes -> Seq(Requests)] /\ \A q \in Processes : Fewer(p, backlog[q], backlog'[q])
  <2>1. backlog \in [Processes -> Seq(Requests)]
    BY ReplyIs
  <2>2. \A q \in Processes : Abandoned(p, backlog[q]) \in Seq(Requests) /\ Fewer(p, backlog[q], Abandoned(p, backlog[q]))
    BY ONLY <2>1, AbandonedIs
  <2>3. \A q \in Processes : backlog'[q] = IF q = p THEN <<>> ELSE Abandoned(p, backlog[q])
    BY ONLY <1>1
  <2>4. \A q \in Processes : backlog'[q] \in Seq(Requests) /\ Fewer(p, backlog[q], backlog'[q])
    BY ONLY <2>2, <2>3, EmptyIs, Zenon
  <2>5. backlog' = [q \in Processes |-> backlog'[q]]
    BY ONLY <1>1
  <2> QED
    BY ONLY <2>4, <2>5
<1>4. "dead" \in Places \ Waiting /\ "dead" \in Past /\ "dead" \notin Holding
  BY DEF Places, Waiting, Past, Holding, Closing, Ended, Calling, Acquiring
<1>5. left \in [Processes -> Nat] /\ left[p] \in 0 .. Attempts /\ Sent(at[p], left[p]) <= Sent("dead", left[p])
  <2>1. left[p] \in 0 .. Attempts /\ left \in [Processes -> Nat] /\ Attempts \in Nat
    BY LeftIs, LaunchIs
  <2>2. Sent(at[p], left[p]) <= Sent("dead", left[p])
    BY ONLY <2>1 DEF Sent
  <2> QED
    BY ONLY <2>1, <2>2
<1>6. /\ deaf' \subseteq Processes /\ inbox' \in [Processes -> SUBSET Processes]
      /\ reply' \in [Processes -> {"none", "result", "ack", "pong", "rejected"}] /\ reply'[p] = "none"
      /\ \A q \in Processes : q # p => reply'[q] = reply[q] /\ inbox'[q] = inbox[q]
  BY <1>1, LeftIs, ReplyIs
<1>7. p \notin serving' /\ (lock' = lock \/ (lock \in {p, NoProcess} /\ lock' \in {p, NoProcess}))
  BY ONLY <1>1
<1> QED
  BY ONLY InstInv, p \in Processes, <1>1, <1>2, <1>3, <1>4, <1>5, <1>6, <1>7, LeaveStep

\* The invariant, part by part.
LEMMA PartsAre ==
  ASSUME InstInv
  PROVE /\ InstTyped /\ left \in [Processes -> Nat] /\ LockIsHeld /\ ServersAreFound /\ PeersArePast
        /\ RequestsAreAwaited /\ OneOpen /\ RepliesFit /\ AcksAreKept /\ FewAreSent
BY DEF InstInv

\* Only the holder of the lock publishes, and nobody has asked it anything yet.
LEMMA ListeningStep ==
  ASSUME InstInv, NEW p \in Processes, BindUnix(p) \/ PublishWindows(p) PROVE InstInv'
<1>1. PICK s \in {"querying", "starting"} : Goes(p, s)
  BY DEF BindUnix, PublishWindows, Listening
<1>2. /\ at[p] \in {"binding", "publishing"} /\ endpoint' = [owner |-> p, whole |-> TRUE]
      /\ serving' = serving \cup {p}
      /\ UNCHANGED <<os, purpose, faults, lock, backlog, inbox, deaf, raised, peer, reply, left>>
  BY DEF BindUnix, PublishWindows, Listening, outside
<1>3. InstTyped /\ LockIsHeld /\ ServersAreFound /\ PeersArePast
      /\ RequestsAreAwaited /\ OneOpen /\ RepliesFit /\ AcksAreKept /\ FewAreSent
      /\ left \in [Processes -> Nat]
  BY PartsAre
<1>4. at[p] \in Holding /\ at[p] \notin Served /\ at[p] \notin Past /\ at[p] \notin Waiting /\ s \in Places
      /\ s \notin Waiting /\ s \in Served /\ s # "forwarded" /\ s \notin {"forwarding", "w_forwarding"}
  BY ONLY <1>1, <1>2 DEF Holding, Served, Past, Waiting, Places, Closing
<1>5. serving' = {p}
  BY <1>2, <1>4, HolderServes
<1>6. lock = p
  BY <1>4, LeftIs
<1>7. /\ at'[p] = s /\ \A q \in Processes : q # p => at'[q] = at[q]
      /\ at' \in [Processes -> Places]
  BY ONLY <1>1, <1>3, <1>4, p \in Processes DEF Goes, InstTyped
<1>8. InstTyped'
  <2>1. endpoint' \in Owners /\ serving' \subseteq Processes
    BY <1>2, <1>5, FilesAre
  <2> QED
    BY ONLY <1>2, <1>3, <1>7, <2>1 DEF InstTyped, Owners
<1>9. LockIsHeld'
  BY ONLY <1>2, <1>3, <1>4, <1>6, <1>7 DEF LockIsHeld, Waiting
<1>10. ServersAreFound'
  BY ONLY <1>2, <1>4, <1>5, <1>7 DEF ServersAreFound
<1>11. PeersArePast' /\ AcksAreKept'
  BY ONLY <1>2, <1>3, <1>4, <1>7, p \in Processes DEF PeersArePast, AcksAreKept
<1>12. RepliesFit' /\ OneOpen'
  BY ONLY <1>2, <1>3, <1>4, <1>7 DEF RepliesFit, OneOpen
<1>13. RequestsAreAwaited'
  <2>1. ASSUME NEW q \in Processes, NEW i \in DOMAIN backlog[q], backlog[q][i].open
        PROVE at'[backlog[q][i].from] = at[backlog[q][i].from] /\ Awaits(q, backlog[q][i])
    <3>1. backlog[q] \in Seq(Requests)
      BY ONLY <1>3, q \in Processes DEF InstTyped
    <3>2. backlog[q][i].from \in Processes
      BY ONLY <3>1, i \in DOMAIN backlog[q], CountIs
    <3>3. Awaits(q, backlog[q][i])
      BY <1>3, <2>1 DEF RequestsAreAwaited
    <3> QED
      BY <1>4, <1>7, <3>2, <3>3 DEF Awaits
  <2> QED
    BY ONLY <1>2, <2>1 DEF RequestsAreAwaited, Awaits
<1>14. FewAreSent'
  <2>1. Sent(at[p], left[p]) = Sent(s, left[p])
    BY ONLY <1>1, <1>2 DEF Sent
  <2> QED
    BY ONLY <1>2, <1>3, <1>4, <1>7, <2>1 DEF FewAreSent
<1>15. left' \in [Processes -> Nat]
  BY ONLY <1>2, <1>3
<1> QED
  BY ONLY <1>8, <1>9, <1>10, <1>11, <1>12, <1>13, <1>14, <1>15 DEF InstInv

\* Who connects waits for an answer from the one that serves, which holds the lock.
LEMMA ConnectStep == ASSUME InstInv, NEW p \in Processes, Connect(p) PROVE InstInv'
<1> DEFINE q == endpoint.owner
           r == [from |-> p, what |-> Sends(p), open |-> TRUE]
           w == WaitOf[at[p]]
<1>1. /\ at[p] \in Calling /\ q \in serving /\ peer' = [peer EXCEPT ![p] = q]
      /\ backlog' = [backlog EXCEPT ![q] = Append(@, r)] /\ Goes(p, w)
      /\ UNCHANGED <<os, purpose, faults, lock, endpoint, serving, inbox, deaf, raised, reply, left>>
  BY DEF Connect, Reachable, outside
<1>2. InstTyped /\ LockIsHeld /\ ServersAreFound /\ PeersArePast
      /\ RequestsAreAwaited /\ OneOpen /\ RepliesFit /\ AcksAreKept /\ FewAreSent
      /\ left \in [Processes -> Nat]
  BY PartsAre
<1>3. q \in Processes /\ at[q] \in Served /\ lock = q
  <2>1. q \in Processes /\ at[q] \in Served
    BY ONLY <1>1, <1>2 DEF InstTyped, ServersAreFound
  <2> QED
    BY ONLY <1>2, <2>1, PlacesAre DEF LockIsHeld
<1>4. at[p] \in {"asking", "asksAgain", "forwarding"}
  <2>1. at[p] # "probing"
    BY ONLY <1>2, <1>3, p \in Processes DEF LockIsHeld, Holding, Served
  <2> QED
    BY ONLY <1>1, <2>1 DEF Calling
<1>5. /\ w \in {"w_asking", "w_asksAgain", "w_forwarding"}
      /\ w \in Asking <=> at[p] \in {"asking", "asksAgain"}
      /\ w = "w_forwarding" <=> at[p] = "forwarding"
  BY ONLY <1>4, WaitOfIs DEF Asking
<1>6. r \in Requests /\ r.from = p /\ r.open
      /\ (r.what = "history" <=> w \in Asking)
      /\ (r.what # "history" => (r.what = "show" <=> purpose[p] = "show"))
  <2>1. Sends(p) \in {"history", "show", "ping"} /\ (Sends(p) = "history" <=> at[p] \in {"asking", "asksAgain"})
        /\ (Sends(p) # "history" => (Sends(p) = "show" <=> purpose[p] = "show"))
    BY DEF Sends
  <2> QED
    BY ONLY <1>5, <2>1, p \in Processes DEF Requests
<1>7. Sent(w, left[p]) = Sent(at[p], left[p]) + 1
  <2>1. Attempts \in Nat /\ left[p] \in 0 .. Attempts
    BY LeftIs, LaunchIs
  <2>2. CASE at[p] = "asking"
    BY ONLY <2>1, <2>2, WaitOfIs DEF Sent
  <2>3. CASE at[p] = "asksAgain"
    BY ONLY <2>1, <2>3, WaitOfIs DEF Sent
  <2>4. CASE at[p] = "forwarding"
    BY ONLY <2>1, <2>4, WaitOfIs DEF Sent
  <2> QED
    BY ONLY <1>4, <2>2, <2>3, <2>4
<1>8. at[p] \notin Waiting /\ at[p] \notin Holding /\ at[p] \notin Past /\ at[p] \notin Served /\ w \in Places /\ w \notin Holding
      /\ w \in Waiting /\ w # "w_probing" /\ w \notin {"forwarded", "starting", "running"}
  BY ONLY <1>4, <1>5 DEF Waiting, Holding, Past, Served, Places, Closing
<1>9. reply[p] = "none"
  BY ONLY <1>2, <1>8, p \in Processes DEF RepliesFit
<1> HIDE DEF q, r, w
<1>10. /\ at'[p] = w /\ \A x \in Processes : x # p => at'[x] = at[x]
       /\ at' \in [Processes -> Places]
  BY ONLY <1>1, <1>2, <1>8, p \in Processes DEF Goes, InstTyped
<1>11. /\ backlog \in [Processes -> Seq(Requests)] /\ backlog'[q] = Append(backlog[q], r)
       /\ \A x \in Processes : x # q => backlog'[x] = backlog[x]
       /\ backlog[q] \in Seq(Requests)
  BY ONLY <1>1, <1>2, <1>3 DEF InstTyped
<1>12. /\ backlog'[q] \in Seq(Requests)
       /\ \A i \in DOMAIN backlog[q] : backlog'[q][i] = backlog[q][i]
       /\ backlog'[q][Len(backlog[q]) + 1] = r
       /\ \A i \in DOMAIN backlog'[q] : i \in DOMAIN backlog[q] \/ i = Len(backlog[q]) + 1
       /\ \A x \in Processes : x # p => OfSender(backlog'[q], x) = OfSender(backlog[q], x)
       /\ Cardinality(OfSender(backlog'[q], p)) = Cardinality(OfSender(backlog[q], p)) + 1
  <2> DEFINE b == backlog[q]
             t == backlog'[q]
  <2>1. b \in Seq(Requests) /\ r \in Requests /\ t = Append(b, r)
    BY ONLY <1>6, <1>11
  <2> HIDE DEF b, t
  <2>2. /\ t \in Seq(Requests)
        /\ \A i \in DOMAIN b : t[i] = b[i]
        /\ t[Len(b) + 1] = r
        /\ \A i \in DOMAIN t : i \in DOMAIN b \/ i = Len(b) + 1
        /\ \A x \in Processes : x # r.from => OfSender(t, x) = OfSender(b, x)
        /\ Cardinality(OfSender(t, r.from)) = Cardinality(OfSender(b, r.from)) + 1
    <3>1. /\ t \in Seq(Requests)
          /\ \A i \in DOMAIN b : i \in DOMAIN t /\ t[i] = b[i]
          /\ t[Len(b) + 1] = r
      BY ONLY <2>1, AppendIs
    <3>2. \A i \in DOMAIN t : i \in DOMAIN b \/ i = Len(b) + 1
      BY ONLY <2>1, AppendIs
    <3>3. \A x \in Processes : x # r.from => OfSender(t, x) = OfSender(b, x)
      BY ONLY <3>1, <3>2 DEF OfSender
    <3>4. Cardinality(OfSender(t, r.from)) = Cardinality(OfSender(b, r.from)) + 1
      BY ONLY <2>1, AppendIs
    <3> QED
      BY ONLY <3>1, <3>2, <3>3, <3>4
  <2>3. r.from = p
    BY ONLY <1>6
  <2> QED
    BY ONLY <2>2, <2>3 DEF b, t
<1>13. /\ peer'[p] = q /\ \A x \in Processes : x # p => peer'[x] = peer[x]
       /\ peer' \in [Processes -> Processes \cup {NoProcess}]
  BY ONLY <1>1, <1>2, <1>3 DEF InstTyped
<1>14. InstTyped'
  <2>1. backlog' \in [Processes -> Seq(Requests)]
    BY ONLY <1>1, <1>3, <1>11, <1>12
  <2> QED
    BY ONLY <1>1, <1>2, <1>10, <1>13, <2>1 DEF InstTyped
<1>15. LockIsHeld' /\ ServersAreFound'
  BY ONLY <1>1, <1>2, <1>8, <1>10 DEF LockIsHeld, ServersAreFound, InstTyped
<1>16. PeersArePast'
  <2>1. at[q] \in Past
    BY ONLY <1>3, PlacesAre
  <2> QED
    BY ONLY <1>2, <1>3, <1>8, <1>10, <1>13, <2>1 DEF PeersArePast
<1>17. RepliesFit' /\ AcksAreKept'
  BY ONLY <1>1, <1>2, <1>8, <1>9, <1>10, <1>13 DEF RepliesFit, AcksAreKept
<1>18. ASSUME NEW x \in Processes, NEW i \in DOMAIN backlog[x], backlog[x][i].open
       PROVE /\ Awaits(x, backlog[x][i]) /\ backlog[x][i].from # p /\ backlog[x][i].from \in Processes
  <2>1. backlog[x][i].from \in Processes
    BY ONLY <1>11, CountIs, x \in Processes, i \in DOMAIN backlog[x]
  <2>2. Awaits(x, backlog[x][i])
    BY ONLY <1>2, <1>18 DEF RequestsAreAwaited
  <2> QED
    BY ONLY <1>8, <2>1, <2>2 DEF Awaits
<1>19. ASSUME NEW x \in Processes, NEW i \in DOMAIN backlog'[x], backlog'[x][i].open
       PROVE \/ i \in DOMAIN backlog[x] /\ backlog'[x][i] = backlog[x][i]
             \/ x = q /\ i = Len(backlog[q]) + 1 /\ backlog'[x][i] = r
  BY ONLY <1>11, <1>12, <1>19
<1>20. OneOpen'
  BY ONLY <1>2, <1>6, <1>18, <1>19 DEF OneOpen
<1>21. ASSUME NEW x \in Processes, NEW i \in DOMAIN backlog'[x], backlog'[x][i].open
       PROVE /\ at'[backlog'[x][i].from] \in Waiting /\ reply[backlog'[x][i].from] = "none"
             /\ peer'[backlog'[x][i].from] = x
             /\ backlog'[x][i].what = "history" <=> at'[backlog'[x][i].from] \in Asking
             /\ backlog'[x][i].what # "history" =>
                  (backlog'[x][i].what = "show" <=> purpose[backlog'[x][i].from] = "show")
  <2>1. CASE i \in DOMAIN backlog[x] /\ backlog'[x][i] = backlog[x][i]
    <3>1. Awaits(x, backlog[x][i]) /\ backlog[x][i].from # p /\ backlog[x][i].from \in Processes
      BY ONLY <1>18, <1>21, <2>1
    <3> QED
      BY ONLY <1>10, <1>13, <2>1, <3>1 DEF Awaits
  <2>2. CASE x = q /\ backlog'[x][i] = r
    BY ONLY <1>6, <1>8, <1>9, <1>10, <1>13, <2>2
  <2> QED
    BY ONLY <1>19, <1>21, <2>1, <2>2
<1>22. RequestsAreAwaited'
  BY ONLY <1>1, <1>21 DEF RequestsAreAwaited, Awaits
<1>23. FewAreSent'
  <2> SUFFICES ASSUME NEW x \in Processes, NEW y \in Processes
               PROVE /\ left[x] \in 0 .. Attempts
                     /\ at'[x] \in {"forwarding", "w_forwarding"} => left[x] >= 1
                     /\ Cardinality(OfSender(backlog'[y], x)) <= Sent(at'[x], left[x])
    BY <1>1 DEF FewAreSent
  <2>1. /\ left[x] \in 0 .. Attempts /\ (at[x] \in {"forwarding", "w_forwarding"} => left[x] >= 1)
        /\ Cardinality(OfSender(backlog[y], x)) <= Sent(at[x], left[x])
    BY ONLY <1>2, x \in Processes, y \in Processes DEF FewAreSent
  <2>2. Cardinality(OfSender(backlog[y], x)) \in Nat /\ Sent(at[x], left[x]) \in Nat
    BY ONLY <1>11, <2>1, y \in Processes, CountIs, SentIs
  <2>3. CASE x # p
    <3>1. OfSender(backlog'[y], x) = OfSender(backlog[y], x)
      BY ONLY <1>11, <1>12, <2>3, x \in Processes, y \in Processes
    <3> QED
      BY ONLY <1>10, <2>1, <2>3, <3>1, x \in Processes
  <2>4. CASE x = p
    <3>1. Cardinality(OfSender(backlog'[y], p)) \in {Cardinality(OfSender(backlog[y], p)),
                                                      Cardinality(OfSender(backlog[y], p)) + 1}
      BY ONLY <1>11, <1>12, y \in Processes
    <3>2. Cardinality(OfSender(backlog'[y], p)) <= Sent(w, left[p])
      BY ONLY <1>7, <2>1, <2>2, <2>4, <3>1
    <3>3. w = "w_forwarding" => left[p] >= 1
      BY ONLY <1>5, <2>1, <2>4
    <3>4. w # "forwarding"
      BY ONLY <1>5
    <3> QED
      BY ONLY <1>10, <2>1, <2>4, <3>2, <3>3, <3>4
  <2> QED
    BY <2>3, <2>4
<1> QED
  BY <1>1, <1>2, <1>14, <1>15, <1>16, <1>17, <1>20, <1>22, <1>23 DEF InstInv

\* The response handle_stream makes of a request.
LEMMA ResponseIs ==
  ASSUME NEW q, NEW what \in {"history", "show", "ping"}
  PROVE /\ Response(q, what) \in {"result", "ack", "pong", "rejected"}
        /\ Response(q, what) = "result" => what = "history"
        /\ Response(q, what) = "ack" => what = "show" /\ q \notin deaf
        /\ Response(q, what) = "pong" => what = "ping"
<1>1. CASE what = "history"
  BY <1>1 DEF Response
<1>2. CASE what = "show"
  BY <1>2 DEF Response
<1>3. CASE what = "ping"
  BY <1>3 DEF Response
<1> QED
  BY <1>1, <1>2, <1>3

\* The answer goes to who waits for it, and what it acknowledges is passed on.
LEMMA ServeStep == ASSUME InstInv, NEW q \in Processes, Serve(q) PROVE InstInv'
<1> DEFINE s == backlog[q]
           r == Head(s)
           f == r.from
<1>1. /\ s # <<>>
      /\ reply' = IF r.open THEN [reply EXCEPT ![f] = Response(q, r.what)] ELSE reply
      /\ inbox' = IF r.what = "show" /\ q \notin deaf THEN [inbox EXCEPT ![q] = @ \cup {f}] ELSE inbox
      /\ backlog' = [backlog EXCEPT ![q] = Tail(@)]
      /\ UNCHANGED <<os, purpose, faults, at, lock, endpoint, serving, deaf, raised, peer, left>>
  BY DEF Serve, outside
<1>2. InstTyped /\ LockIsHeld /\ ServersAreFound /\ PeersArePast
      /\ RequestsAreAwaited /\ OneOpen /\ RepliesFit /\ AcksAreKept /\ FewAreSent
      /\ left \in [Processes -> Nat]
  BY PartsAre
<1>3. /\ \A x \in Processes : backlog[x] \in Seq(Requests)
      /\ backlog'[q] = Tail(backlog[q]) /\ \A x \in Processes : x # q => backlog'[x] = backlog[x]
      /\ backlog' = [x \in Processes |-> backlog'[x]]
  BY ONLY <1>1, <1>2 DEF InstTyped
<1>4. /\ backlog'[q] \in Seq(Requests) /\ r \in Requests /\ r = backlog[q][1] /\ 1 \in DOMAIN backlog[q]
      /\ \A i \in DOMAIN backlog'[q] : i \in Nat /\ i + 1 \in DOMAIN backlog[q]
                                       /\ backlog'[q][i] = backlog[q][i + 1] /\ i + 1 # 1
      /\ \A p : Cardinality(OfSender(backlog'[q], p)) <= Cardinality(OfSender(backlog[q], p))
  <2> DEFINE t == backlog'[q]
  <2>1. s \in Seq(Requests) /\ s # <<>> /\ t = Tail(s)
    BY ONLY <1>1, <1>3
  <2> HIDE DEF s, t
  <2>2. /\ t \in Seq(Requests) /\ Head(s) \in Requests /\ Head(s) = s[1] /\ 1 \in DOMAIN s
        /\ \A i \in DOMAIN t : i \in Nat /\ i + 1 \in DOMAIN s /\ t[i] = s[i + 1] /\ i + 1 # 1
        /\ \A p : Cardinality(OfSender(t, p)) <= Cardinality(OfSender(s, p))
    BY ONLY <2>1, TailIs
  <2> QED
    BY ONLY <2>2 DEF s, t
<1>5. f \in Processes /\ r.what \in {"history", "show", "ping"}
  BY ONLY <1>4 DEF Requests
<1>6. r.open => /\ at[f] \in Waiting /\ reply[f] = "none" /\ peer[f] = q
                /\ r.what = "history" <=> at[f] \in Asking
                /\ r.what # "history" => (r.what = "show" <=> purpose[f] = "show")
  <2>1. r.open => Awaits(q, r)
    BY ONLY <1>2, <1>4, q \in Processes DEF RequestsAreAwaited
  <2> QED
    BY ONLY <2>1 DEF Awaits
<1>7. /\ Response(q, r.what) \in {"result", "ack", "pong", "rejected"}
      /\ Response(q, r.what) = "result" => r.what = "history"
      /\ Response(q, r.what) = "ack" => r.what = "show" /\ q \notin deaf
      /\ Response(q, r.what) = "pong" => r.what = "ping"
  BY ONLY <1>5, ResponseIs
<1> HIDE DEF s, r, f
<1>8. /\ reply' \in [Processes -> {"none", "result", "ack", "pong", "rejected"}]
      /\ r.open => reply'[f] = Response(q, r.what)
      /\ ~r.open => reply' = reply
      /\ \A x \in Processes : x # f => reply'[x] = reply[x]
  BY ONLY <1>1, <1>2, <1>5, <1>7 DEF InstTyped
<1>9. /\ inbox' \in [Processes -> SUBSET Processes]
      /\ \A x \in Processes : inbox[x] \subseteq inbox'[x]
      /\ r.what = "show" /\ q \notin deaf => f \in inbox'[q]
  BY ONLY <1>1, <1>2, <1>5, q \in Processes DEF InstTyped
<1>10. InstTyped'
  <2>1. backlog' \in [Processes -> Seq(Requests)]
    BY ONLY <1>3, <1>4
  <2> QED
    BY ONLY <1>1, <1>2, <1>8, <1>9, <2>1 DEF InstTyped
<1>11. LockIsHeld' /\ ServersAreFound' /\ PeersArePast'
  BY ONLY <1>1, <1>2 DEF LockIsHeld, ServersAreFound, PeersArePast
<1>12. RepliesFit'
  <2>1. ASSUME NEW x \in Processes, reply'[x] # "none"
        PROVE /\ at[x] \in Waiting
              /\ reply'[x] = "result" => at[x] \in Asking
              /\ reply'[x] = "ack" => at[x] \notin Asking /\ purpose[x] = "show"
              /\ reply'[x] = "pong" => at[x] \notin Asking /\ purpose[x] # "show"
    <3>1. CASE r.open /\ x = f
      BY ONLY <1>6, <1>7, <1>8, <2>1, <3>1
    <3>2. CASE ~(r.open /\ x = f)
      <4>1. reply'[x] = reply[x]
        BY ONLY <1>8, <3>2, x \in Processes
      <4> QED
        BY ONLY <1>2, <2>1, <4>1, x \in Processes DEF RepliesFit
    <3> QED
      BY <3>1, <3>2
  <2> QED
    BY ONLY <1>1, <2>1 DEF RepliesFit
<1>13. AcksAreKept'
  <2>1. ASSUME NEW x \in Processes, NEW y \in Processes, purpose[x] = "show",
               reply'[x] = "ack" \/ at[x] = "forwarded", peer[x] = y, at[y] \in {"starting", "running"}
        PROVE x \in inbox'[y] \cup raised
    <3>1. CASE reply[x] = "ack" \/ at[x] = "forwarded"
      BY ONLY <1>2, <1>9, <2>1, <3>1, x \in Processes, y \in Processes DEF AcksAreKept
    <3>2. CASE reply[x] # "ack" /\ at[x] # "forwarded"
      <4>1. r.open /\ x = f /\ Response(q, r.what) = "ack"
        BY ONLY <1>8, <2>1, <3>2, x \in Processes
      <4> QED
        BY ONLY <1>6, <1>7, <1>9, <2>1, <4>1
    <3> QED
      BY <3>1, <3>2
  <2> QED
    BY ONLY <1>1, <2>1 DEF AcksAreKept
<1>14. ASSUME NEW x \in Processes, NEW i \in DOMAIN backlog'[x], backlog'[x][i].open
       PROVE \E j \in DOMAIN backlog[x] :
               /\ backlog'[x][i] = backlog[x][j] /\ j = (IF x = q THEN i + 1 ELSE i)
               /\ Awaits(x, backlog[x][j]) /\ (r.open => backlog[x][j].from # f)
               /\ backlog[x][j].from \in Processes
  <2>1. PICK j \in DOMAIN backlog[x] :
          backlog'[x][i] = backlog[x][j] /\ j = (IF x = q THEN i + 1 ELSE i) /\ (x = q => j # 1)
    BY ONLY <1>3, <1>4, x \in Processes, i \in DOMAIN backlog'[x]
  <2>2. Awaits(x, backlog[x][j])
    BY ONLY <1>2, <1>14, <2>1 DEF RequestsAreAwaited
  <2>3. backlog[x][j].from \in Processes
    BY ONLY <1>3, <2>1, x \in Processes, CountIs
  <2>4. ASSUME r.open, backlog[x][j].from = f PROVE FALSE
    <3>1. CASE x = q
      BY ONLY <1>2, <1>4, <1>14, <2>1, <2>4, <3>1 DEF OneOpen, f
    <3>2. CASE x # q
      BY ONLY <1>6, <2>2, <2>4, <3>2 DEF Awaits
    <3> QED
      BY <3>1, <3>2
  <2> QED
    BY ONLY <2>1, <2>2, <2>3, <2>4
<1>15. RequestsAreAwaited'
  <2>1. ASSUME NEW x \in Processes, NEW i \in DOMAIN backlog'[x], backlog'[x][i].open
        PROVE /\ at[backlog'[x][i].from] \in Waiting /\ reply'[backlog'[x][i].from] = "none"
              /\ peer[backlog'[x][i].from] = x
              /\ backlog'[x][i].what = "history" <=> at[backlog'[x][i].from] \in Asking
              /\ backlog'[x][i].what # "history" =>
                   (backlog'[x][i].what = "show" <=> purpose[backlog'[x][i].from] = "show")
    <3>1. PICK j \in DOMAIN backlog[x] :
               /\ backlog'[x][i] = backlog[x][j]
               /\ Awaits(x, backlog[x][j]) /\ (r.open => backlog[x][j].from # f)
               /\ backlog[x][j].from \in Processes
      BY <1>14, <2>1
    <3> QED
      BY ONLY <1>8, <3>1 DEF Awaits
  <2> QED
    BY ONLY <1>1, <2>1 DEF RequestsAreAwaited, Awaits
<1>16. OneOpen'
  <2>1. ASSUME NEW x \in Processes, NEW i \in DOMAIN backlog'[x], NEW j \in DOMAIN backlog'[x],
               backlog'[x][i].open, backlog'[x][j].open, backlog'[x][i].from = backlog'[x][j].from
        PROVE i = j
    <3>1. CASE x = q
      <4>1. i + 1 = j + 1
        BY ONLY <1>2, <1>4, <2>1, <3>1, x \in Processes DEF OneOpen
      <4> QED
        BY ONLY <1>4, <2>1, <3>1, <4>1
    <3>2. CASE x # q
      BY ONLY <1>2, <1>3, <2>1, <3>2, x \in Processes DEF OneOpen
    <3> QED
      BY <3>1, <3>2
  <2> QED
    BY ONLY <2>1 DEF OneOpen
<1>17. FewAreSent'
  <2>1. ASSUME NEW x \in Processes, NEW y \in Processes
        PROVE Cardinality(OfSender(backlog'[y], x)) <= Sent(at[x], left[x])
    <3>1. left[x] \in 0 .. Attempts /\ Cardinality(OfSender(backlog[y], x)) <= Sent(at[x], left[x])
      BY ONLY <1>2, x \in Processes, y \in Processes DEF FewAreSent
    <3>2. Sent(at[x], left[x]) \in Nat /\ Cardinality(OfSender(backlog[y], x)) \in Nat
      BY ONLY <1>3, <3>1, y \in Processes, CountIs, SentIs
    <3>3. CASE y = q
      <4>1. Cardinality(OfSender(backlog'[y], x)) \in Nat
        BY ONLY <1>4, <3>3, CountIs
      <4> QED
        BY ONLY <1>4, <3>1, <3>2, <3>3, <4>1
    <3>4. CASE y # q
      BY ONLY <1>3, <3>1, <3>4, y \in Processes
    <3> QED
      BY <3>3, <3>4
  <2> QED
    BY ONLY <1>1, <1>2, <2>1 DEF FewAreSent
<1>18. left' \in [Processes -> Nat]
  BY ONLY <1>1, <1>2
<1> QED
  BY ONLY <1>10, <1>11, <1>12, <1>13, <1>15, <1>16, <1>17, <1>18 DEF InstInv

\* A step that moves no process, makes no request and answers none.
LEMMA InboxStep ==
  ASSUME InstInv, UNCHANGED <<os, purpose, faults, at, lock, endpoint, serving, backlog, peer, reply, left>>,
         inbox' \in [Processes -> SUBSET Processes], raised' \subseteq Processes, deaf' \subseteq Processes,
         raised \subseteq raised',
         \A q \in Processes : inbox[q] \subseteq inbox'[q] \cup raised' \/ at[q] \notin {"starting", "running"}
  PROVE InstInv'
<1>1. InstTyped /\ LockIsHeld /\ ServersAreFound /\ PeersArePast
      /\ RequestsAreAwaited /\ OneOpen /\ RepliesFit /\ AcksAreKept /\ FewAreSent
      /\ left \in [Processes -> Nat]
  BY PartsAre
<1>2. UNCHANGED <<os, purpose, faults, at, lock, endpoint, serving, backlog, peer, reply, left>>
  OBVIOUS
<1>3. InstTyped'
  BY <1>1 DEF InstTyped
<1>4. LockIsHeld' /\ ServersAreFound' /\ PeersArePast' /\ RepliesFit'
  BY ONLY <1>1, <1>2 DEF LockIsHeld, ServersAreFound, PeersArePast, RepliesFit
<1>5. RequestsAreAwaited' /\ OneOpen'
  BY ONLY <1>1, <1>2 DEF RequestsAreAwaited, OneOpen, Awaits
<1>6. FewAreSent' /\ left' \in [Processes -> Nat]
  BY ONLY <1>1, <1>2 DEF FewAreSent
<1>7. AcksAreKept'
  BY <1>1 DEF AcksAreKept
<1> QED
  BY ONLY <1>3, <1>4, <1>5, <1>6, <1>7 DEF InstInv

\* The event loop takes the intents, or the thread before it learns that it is gone.
LEMMA IntentsStep ==
  ASSUME InstInv, NEW q \in Processes, ShowPopup(q) \/ Deafened(q) PROVE InstInv'
<1>1. UNCHANGED <<os, purpose, faults, at, lock, endpoint, serving, backlog, peer, reply, left>>
  BY DEF ShowPopup, Deafened, outside
<1>2. inbox \in [Processes -> SUBSET Processes] /\ raised \subseteq Processes /\ deaf \subseteq Processes
  BY PartsAre DEF InstTyped
<1>3. inbox' = [inbox EXCEPT ![q] = {}]
      /\ \/ raised' = raised \cup inbox[q] /\ deaf' = deaf
         \/ raised' = raised /\ deaf' = deaf \cup {q} /\ at[q] \in {"flushing"} \cup Closing
  BY DEF ShowPopup, Deafened
<1>4. \A x \in Processes : inbox[x] \subseteq inbox'[x] \cup raised' \/ at[x] \notin {"starting", "running"}
  BY ONLY <1>2, <1>3 DEF Closing
<1>5. /\ inbox' \in [Processes -> SUBSET Processes] /\ raised' \subseteq Processes /\ deaf' \subseteq Processes
      /\ raised \subseteq raised'
  BY ONLY <1>2, <1>3
<1> QED
  BY ONLY InstInv, <1>1, <1>4, <1>5, InboxStep

\* A step of another part of the popup.
LEMMA InstStays == ASSUME InstInv, UNCHANGED instVars PROVE InstInv'
<1>1. UNCHANGED <<os, purpose, faults, at, lock, endpoint, serving, backlog, peer, reply, left, inbox, raised, deaf>>
  BY DEF instVars
<1>2. inbox \in [Processes -> SUBSET Processes] /\ raised \subseteq Processes /\ deaf \subseteq Processes
  BY PartsAre DEF InstTyped
<1> QED
  BY ONLY InstInv, <1>1, <1>2, InboxStep

\* Before any process is started nobody holds, serves or asks anything.
LEMMA InstInitHolds == InstInit => InstInv
<1> SUFFICES ASSUME InstInit PROVE InstInv
  OBVIOUS
<1>1. /\ os \in {"unix", "windows"} /\ purpose \in [Processes -> {"show", "ping", "ask"}]
      /\ at = [p \in Processes |-> "idle"] /\ lock = NoProcess /\ endpoint = NoFile /\ serving = {}
      /\ backlog = [p \in Processes |-> <<>>] /\ peer = [p \in Processes |-> NoProcess]
      /\ reply = [p \in Processes |-> "none"] /\ left = [p \in Processes |-> Attempts]
      /\ inbox = [p \in Processes |-> {}] /\ deaf = {} /\ raised = {} /\ faults = 0
  BY LaunchAssumption DEF InstInit
<1>2. Attempts \in Nat /\ MaxFaults \in Nat /\ NoProcess \notin Processes
  BY LaunchAssumption
<1>3. \A p \in Processes : /\ at[p] = "idle" /\ backlog[p] = <<>> /\ peer[p] = NoProcess /\ reply[p] = "none"
                           /\ left[p] = Attempts
  BY ONLY <1>1
<1>4. "idle" \in Places /\ "idle" \notin Holding /\ "idle" # "w_probing"
  BY DEF Places, Holding, Closing
<1>5. InstTyped
  <2>1. backlog \in [Processes -> Seq(Requests)]
    BY ONLY <1>1, EmptyIs
  <2>2. endpoint \in Owners
    BY ONLY <1>1, FilesAre
  <2> QED
    BY ONLY <1>1, <1>2, <1>4, <2>1, <2>2 DEF InstTyped, Owners
<1>6. LockIsHeld /\ ServersAreFound /\ PeersArePast /\ RepliesFit
  BY ONLY <1>1, <1>2, <1>3, <1>4 DEF LockIsHeld, ServersAreFound, PeersArePast, RepliesFit
<1>7. \A p \in Processes : DOMAIN backlog[p] = {}
  BY ONLY <1>3
<1>8. RequestsAreAwaited /\ OneOpen
  BY ONLY <1>7 DEF RequestsAreAwaited, OneOpen
<1>9. AcksAreKept
  BY ONLY <1>3 DEF AcksAreKept
<1>10. FewAreSent
  <2>1. \A p, q \in Processes : OfSender(backlog[q], p) = {}
    BY ONLY <1>7 DEF OfSender
  <2>2. \A p, q \in Processes : Cardinality(OfSender(backlog[q], p)) = 0
    BY ONLY <2>1, FS_EmptySet
  <2>3. \A p \in Processes : Sent(at[p], left[p]) = 0
    BY ONLY <1>3 DEF Sent
  <2>4. 0 <= 0 /\ Attempts \in 0 .. Attempts
    BY ONLY <1>2
  <2> QED
    BY ONLY <1>3, <2>2, <2>3, <2>4 DEF FewAreSent
<1>11. left \in [Processes -> Nat]
  BY ONLY <1>1, <1>2
<1> QED
  BY ONLY <1>5, <1>6, <1>8, <1>9, <1>10, <1>11 DEF InstInv

\* Every step of every process keeps the invariant.
LEMMA InstStep == ASSUME InstInv, [InstNext]_instVars PROVE InstInv'
<1>1. CASE AllEnded \/ UNCHANGED instVars
  BY <1>1, InstStays DEF AllEnded
<1>2. ASSUME NEW p \in Processes, Seeks(p) PROVE InstInv'
  BY <1>2, TryLockStep, ConnectStep, ConnectFailsStep, ReadReplyStep, GivesUpStep, ListeningStep, MakeWayStep
     DEF Seeks
<1>3. ASSUME NEW p \in Processes, Launch(p) \/ Hosts(p) \/ Quit(p) PROVE InstInv'
  BY <1>3, LaunchStep, HostsStep DEF Hosts
<1>4. ASSUME NEW p \in Processes, Closes(p) PROVE InstInv'
  BY <1>4, StopServerStep, UnlinkStep, UnlockStep DEF Closes
<1>5. ASSUME NEW p \in Processes, Serve(p) \/ ShowPopup(p) \/ Deafened(p) PROVE InstInv'
  <2>1. CASE Serve(p)
    <3>1. p \in Processes
      OBVIOUS
    <3> QED
      BY ONLY InstInv, <2>1, <3>1, ServeStep
  <2>2. CASE ShowPopup(p) \/ Deafened(p)
    BY <2>2, IntentsStep
  <2> QED
    BY <1>5, <2>1, <2>2
<1>6. ASSUME NEW p \in Processes, ProcessDies(p) \/ ListenerStops(p) PROVE InstInv'
  BY <1>6, ProcessDiesStep, ListenerStopsStep
<1> QED
  BY <1>1, <1>2, <1>3, <1>4, <1>5, <1>6 DEF InstNext

\* If nobody has made more than k requests, the backlog holds at most k of each process.
LEMMA FewAreQueued ==
  ASSUME NEW s \in Seq(Requests), NEW k \in Nat, \A p \in Processes : Cardinality(OfSender(s, p)) <= k
  PROVE Len(s) <= Cardinality(Processes) * k
<1> DEFINE upTo(i) == {j \in OfSender(s, s[i].from) : j <= i}
           rank == [i \in 1 .. Len(s) |-> <<s[i].from, Cardinality(upTo(i))>>]
<1>1. Len(s) \in Nat /\ DOMAIN s = 1 .. Len(s) /\ \A i \in 1 .. Len(s) : s[i].from \in Processes
  <2>1. Len(s) \in Nat /\ DOMAIN s = 1 .. Len(s) /\ \A i \in DOMAIN s : s[i].from \in Processes
    BY CountIs
  <2> QED
    BY ONLY <2>1
<1>2. \A p : IsFiniteSet(OfSender(s, p)) /\ Cardinality(OfSender(s, p)) \in Nat
  BY CountIs
<1>3. ASSUME NEW i \in 1 .. Len(s)
      PROVE IsFiniteSet(upTo(i)) /\ Cardinality(upTo(i)) \in 1 .. k /\ i \in upTo(i)
  <2>1. IsFiniteSet(OfSender(s, s[i].from)) /\ Cardinality(OfSender(s, s[i].from)) \in Nat
        /\ Cardinality(OfSender(s, s[i].from)) <= k
    BY <1>1, <1>2
  <2>2. upTo(i) \in SUBSET OfSender(s, s[i].from)
    OBVIOUS
  <2>3. i \in upTo(i)
    BY <1>1 DEF OfSender
  <2> HIDE DEF upTo
  <2>4. IsFiniteSet(upTo(i)) /\ Cardinality(upTo(i)) <= Cardinality(OfSender(s, s[i].from))
    BY ONLY <2>1, <2>2, FS_Subset
  <2>5. Cardinality(upTo(i)) \in Nat /\ Cardinality(upTo(i)) # 0
    BY ONLY <2>3, <2>4, FS_CardinalityType, FS_EmptySet
  <2> QED
    BY ONLY <2>1, <2>3, <2>4, <2>5, k \in Nat
<1>4. ASSUME NEW i \in 1 .. Len(s), NEW j \in 1 .. Len(s), s[i].from = s[j].from, i < j
      PROVE Cardinality(upTo(i)) # Cardinality(upTo(j))
  <2>1. upTo(i) \in SUBSET upTo(j)
    BY <1>1, <1>4 DEF OfSender
  <2>2. j \notin upTo(i)
    BY <1>1, <1>4
  <2>3. IsFiniteSet(upTo(j)) /\ j \in upTo(j)
    BY <1>3
  <2> HIDE DEF upTo
  <2>4. Cardinality(upTo(j)) = Cardinality(upTo(i)) => upTo(j) = upTo(i)
    BY ONLY <2>1, <2>3, FS_Subset
  <2> QED
    BY ONLY <2>2, <2>3, <2>4
<1>5. rank \in [1 .. Len(s) -> Processes \X (1 .. k)]
  BY ONLY <1>1, <1>3
<1>6. \A i, j \in 1 .. Len(s) : rank[i] = rank[j] => i = j
  <2> SUFFICES ASSUME NEW i \in 1 .. Len(s), NEW j \in 1 .. Len(s), rank[i] = rank[j], i # j PROVE FALSE
    OBVIOUS
  <2>1. s[i].from = s[j].from /\ Cardinality(upTo(i)) = Cardinality(upTo(j))
    <3> HIDE DEF upTo
    <3> QED
      OBVIOUS
  <2>2. i < j \/ j < i
    BY <1>1
  <2> HIDE DEF upTo
  <2> QED
    BY ONLY <1>4, <2>1, <2>2, i \in 1 .. Len(s), j \in 1 .. Len(s)
<1> HIDE DEF rank
<1>7. rank \in Injection(1 .. Len(s), Processes \X (1 .. k))
  BY ONLY <1>5, <1>6 DEF Injection, IsInjective
<1>8. IsFiniteSet(1 .. k) /\ Cardinality(1 .. k) = k
  <2>1. 1 \in Int /\ k \in Int
    OBVIOUS
  <2>2. IsFiniteSet(1 .. k) /\ Cardinality(1 .. k) = IF 1 > k THEN 0 ELSE k - 1 + 1
    BY ONLY <2>1, FS_Interval
  <2> QED
    BY ONLY <2>2, k \in Nat
<1>9. IsFiniteSet(Processes \X (1 .. k)) /\ Cardinality(Processes \X (1 .. k)) = Cardinality(Processes) * Cardinality(1 .. k)
  BY ONLY <1>8, LaunchIs, FS_Product
<1>10. Cardinality(1 .. Len(s)) <= Cardinality(Processes \X (1 .. k))
  BY ONLY <1>7, <1>9, FS_Injection
<1>11. Cardinality(1 .. Len(s)) = Len(s)
  <2>1. 1 \in Int /\ Len(s) \in Int
    BY ONLY <1>1
  <2>2. Cardinality(1 .. Len(s)) = IF 1 > Len(s) THEN 0 ELSE Len(s) - 1 + 1
    BY ONLY <2>1, FS_Interval
  <2> QED
    BY ONLY <1>1, <2>2
<1> QED
  BY ONLY <1>8, <1>9, <1>10, <1>11

\* The invariant implies what LaunchSafety promises.
LEMMA LaunchParts == ASSUME InstInv PROVE LaunchSafety
<1>1. InstTyped /\ LockIsHeld /\ ServersAreFound /\ PeersArePast
      /\ RequestsAreAwaited /\ OneOpen /\ RepliesFit /\ AcksAreKept /\ FewAreSent
  BY PartsAre
<1>2. InstTypeOK
  <2>1. ASSUME NEW p \in Processes
        PROVE /\ Len(backlog[p]) <= Cardinality(Processes) * (Attempts + 1)
              /\ \A i \in DOMAIN backlog[p] : backlog[p][i] \in Requests
    <3> DEFINE s == backlog[p]
    <3>1. s \in Seq(Requests)
      BY <1>1 DEF InstTyped
    <3>2. ASSUME NEW q \in Processes PROVE Cardinality(OfSender(s, q)) <= Attempts + 1
      <4>1. left[q] \in 0 .. Attempts /\ Cardinality(OfSender(s, q)) <= Sent(at[q], left[q])
        BY <1>1 DEF FewAreSent
      <4>2. Cardinality(OfSender(s, q)) \in Nat
        BY ONLY <3>1, CountIs
      <4>3. Sent(at[q], left[q]) <= Attempts + 1 /\ Sent(at[q], left[q]) \in Nat /\ Attempts \in Nat
        BY ONLY <4>1, LaunchIs, SentIs DEF Sent
      <4> QED
        BY ONLY <4>1, <4>2, <4>3
    <3>3. Attempts + 1 \in Nat
      BY LaunchIs
    <3> HIDE DEF s
    <3>4. Len(s) <= Cardinality(Processes) * (Attempts + 1)
      BY ONLY <3>1, <3>2, <3>3, FewAreQueued
    <3>5. \A i \in DOMAIN s : s[i] \in Requests
      BY ONLY <3>1, CountIs
    <3> QED
      BY ONLY <3>4, <3>5 DEF s
  <2>2. \A p \in Processes : inbox[p] \subseteq Processes
    BY <1>1 DEF InstTyped
  <2> QED
    BY ONLY <1>1, <2>1, <2>2 DEF InstTyped, InstTypeOK, Places
<1>3. OneWriter
  BY ONLY <1>1, PlacesAre DEF OneWriter, HasStore, LockIsHeld
<1>4. EndpointIsServed
  BY ONLY <1>1 DEF EndpointIsServed, ServersAreFound
<1>5. RepliesAreAwaited
  <2>1. ASSUME NEW p \in Processes, reply[p] = "result" PROVE CallOf(at[p]) \in {"asking", "asksAgain"}
    BY ONLY <1>1, <2>1, CallOfIs, p \in Processes DEF RepliesFit, Asking
  <2>2. ASSUME NEW p \in Processes, at[p] \notin Waiting, NEW q \in Processes, NEW i \in DOMAIN backlog[q],
               backlog[q][i].from = p
        PROVE ~backlog[q][i].open
    BY ONLY <1>1, <2>2 DEF RequestsAreAwaited, Awaits
  <2>3. \A p \in Processes : reply[p] # "none" => at[p] \in Waiting
    BY ONLY <1>1 DEF RepliesFit
  <2> QED
    BY ONLY <2>1, <2>2, <2>3 DEF RepliesAreAwaited
<1>6. AckedIsShown
  BY ONLY <1>1 DEF AckedIsShown, AcksAreKept
<1> QED
  BY ONLY <1>2, <1>3, <1>4, <1>5, <1>6 DEF LaunchSafety

-----------------------------------------------------------------------------
(* PasteFlow: what a paste delivers. *)

\* While a paste is armed or being polled and its target has not been
\* abandoned, what is armed is exactly what the user asked for.
ArmedIsIntended ==
    (stage # "none" \/ pc # "idle") /\ target # NoApp
        => intent = [clip |-> guard, app |-> target]

\* Past the foreground confirmation, poll holds its target and nothing else
\* is armed.
PollHoldsTarget == pc # "idle" => target # NoApp /\ stage = "none"

\* What poll has already verified still holds, unless the desktop raced it.
VerifiedOrRaced ==
    /\ pc \in {"inject", "send"} => clipboard = guard \/ "clipboard" \in raced
    /\ pc = "send" => foreground = target \/ "focus" \in raced

IInv ==
    /\ TypeOK
    /\ ArmedOnLatestWrite
    /\ UnexcludedIsNeverPasted
    /\ ArmedIsIntended
    /\ PollHoldsTarget
    /\ VerifiedOrRaced

-----------------------------------------------------------------------------
USE DEF Disarmed, TargetDropped, Writer, Paster, world, pending, ghosts,
        Contents, NoIntent

\* Every variable keeps its type, whatever the poll, the user and the desktop do.
LEMMA TypeStep == TypeOK /\ [Next]_vars => TypeOK'
<1> SUFFICES ASSUME TypeOK, [Next]_vars PROVE TypeOK'
  OBVIOUS
<1> USE ClipAssumption, AppAssumption, DelayAssumption DEF TypeOK
<1>1. ASSUME NEW c \in Contents, AppCopies(c) PROVE TypeOK'
  BY <1>1 DEF AppCopies
<1>2. ASSUME NEW a \in Apps \union {Picker}, FocusMoves(a) PROVE TypeOK'
  BY <1>2 DEF FocusMoves
<1>3. ASSUME NEW a \in Apps, AppExits(a) PROVE TypeOK'
  BY <1>3 DEF AppExits
<1>4. CASE Tick
  BY <1>4 DEF Tick
<1>5. CASE HotkeyShow
  BY <1>5 DEF HotkeyShow
<1>6. CASE UnverifiedShow
  BY <1>6 DEF UnverifiedShow
<1>6a. CASE Dismiss
  BY <1>6a DEF Dismiss
<1>7. ASSUME NEW c \in Clips, SelectArmed(c) PROVE TypeOK'
  BY <1>7 DEF SelectArmed, CopySucceeds
<1>8. ASSUME NEW c \in Clips, SelectCopied(c) PROVE TypeOK'
  BY <1>8 DEF SelectCopied, CopySucceeds
<1>9. ASSUME NEW c \in Clips, SelectFails(c) PROVE TypeOK'
  <2>1. CASE Paster /\ ready /\ c \in Unverifiable
    BY <1>9, <2>1 DEF SelectFails
  <2>2. CASE ~(Paster /\ ready /\ c \in Unverifiable)
    <3>1. /\ Disarmed /\ CopyFails(c) /\ TargetDropped
          /\ notice' = "copy_failed" /\ intent' = NoIntent
          /\ UNCHANGED <<foreground, running, backends, pc, popup, raced>>
      BY <1>9, <2>2 DEF SelectFails
    <3> QED
      BY <3>1 DEF CopyFails
  <2> QED
    BY <2>1, <2>2
<1>10. ASSUME NEW c \in Clips, CopyLatest(c) PROVE TypeOK'
  BY <1>10 DEF CopyLatest, CopySucceeds, CopyFails
<1>11. CASE Poll
  <2>1. CASE PollRestore /\ ~PollFails
    BY <2>1 DEF PollRestore
  <2>2. CASE PollConfirmed
    BY <2>2 DEF PollConfirmed
  <2>3. CASE PollWaits
    BY <2>3 DEF PollWaits
  <2>4. CASE PollFails
    BY <2>4 DEF PollFails
  <2>5. CASE GuardAllows
    BY <2>5 DEF GuardAllows
  <2>6. CASE Reconfirmed
    BY <2>6 DEF Reconfirmed
  <2>7. CASE SendKeys
    BY <2>7 DEF SendKeys
  <2> QED
    BY <1>11, <2>1, <2>2, <2>3, <2>4, <2>5, <2>6, <2>7
    DEF Poll, PollGivesUp, GuardBlocks, ReconfirmFails, SendFails
<1>12. CASE UNCHANGED vars
  BY <1>12 DEF vars
<1> QED
  BY <1>1, <1>2, <1>3, <1>4, <1>5, <1>6, <1>6a, <1>7, <1>8, <1>9, <1>10, <1>11, <1>12
  DEF Next, Desktop, User

\* The rest of the inductive invariant survives every step: a user action
\* either disarms the paste, drops its target or arms a new one, and poll only
\* moves on after the check its next state relies on.
LEMMA InvStep == IInv /\ [Next]_vars => IInv'
<1> SUFFICES ASSUME IInv, [Next]_vars PROVE IInv'
  OBVIOUS
<1>0. TypeOK'
  BY TypeStep DEF IInv
<1> DEFINE Rest == /\ ArmedOnLatestWrite /\ UnexcludedIsNeverPasted
                   /\ ArmedIsIntended /\ PollHoldsTarget /\ VerifiedOrRaced
<1> SUFFICES Rest'
  BY <1>0 DEF IInv
<1> USE ClipAssumption, AppAssumption
    DEF IInv, TypeOK, ArmedOnLatestWrite, UnexcludedIsNeverPasted, ArmedIsIntended,
        PollHoldsTarget, VerifiedOrRaced
<1>1. ASSUME NEW c \in Contents, AppCopies(c) PROVE Rest'
  BY <1>1 DEF AppCopies
<1>2. ASSUME NEW a \in Apps \union {Picker}, FocusMoves(a) PROVE Rest'
  BY <1>2 DEF FocusMoves
<1>3. ASSUME NEW a \in Apps, AppExits(a) PROVE Rest'
  BY <1>3 DEF AppExits
<1>4. CASE Tick
  BY <1>4 DEF Tick
<1>5. CASE HotkeyShow
  BY <1>5 DEF HotkeyShow
<1>6. CASE UnverifiedShow
  BY <1>6 DEF UnverifiedShow
<1>6a. CASE Dismiss
  BY <1>6a DEF Dismiss
<1>7. ASSUME NEW c \in Clips, SelectArmed(c) PROVE Rest'
  BY <1>7 DEF SelectArmed, CopySucceeds
<1>8. ASSUME NEW c \in Clips, SelectCopied(c) PROVE Rest'
  BY <1>8 DEF SelectCopied, CopySucceeds
<1>9. ASSUME NEW c \in Clips, SelectFails(c) PROVE Rest'
  BY <1>9 DEF SelectFails, CopyFails
<1>10. ASSUME NEW c \in Clips, CopyLatest(c) PROVE Rest'
  BY <1>10 DEF CopyLatest, CopySucceeds, CopyFails
<1>11. CASE Poll
  <2>1. CASE PollRestore
    BY <2>1 DEF PollRestore, PollFails
  <2>2. CASE PollConfirmed
    BY <2>2 DEF PollConfirmed, TargetInFront
  <2>3. CASE PollWaits
    BY <2>3 DEF PollWaits
  <2>4. CASE PollFails
    BY <2>4 DEF PollFails
  <2>5. CASE GuardAllows
    BY <2>5 DEF GuardAllows
  <2>6. CASE Reconfirmed
    BY <2>6 DEF Reconfirmed, TargetInFront
  <2>7. CASE SendKeys
    BY <2>7 DEF SendKeys
  <2> QED
    BY <1>11, <2>1, <2>2, <2>3, <2>4, <2>5, <2>6, <2>7
    DEF Poll, PollGivesUp, GuardBlocks, ReconfirmFails, SendFails
<1>12. CASE UNCHANGED vars
  BY <1>12 DEF vars
<1> QED
  BY <1>1, <1>2, <1>3, <1>4, <1>5, <1>6, <1>6a, <1>7, <1>8, <1>9, <1>10, <1>11, <1>12
  DEF Next, Desktop, User

\* IInv is an invariant of the paste path.
THEOREM Invariance == Spec => []IInv
<1>1. Init => TypeOK
  <2> SUFFICES ASSUME Init PROVE TypeOK
    OBVIOUS
  <2>1. ready \in BOOLEAN /\ popup \in BOOLEAN
    BY DEF Init
  <2>2. intent \in [clip : Clips \union {NoClip}, app : Apps \union {NoApp}]
    BY DEF Init
  <2>3. raced \in SUBSET {"clipboard", "focus"} /\ backends \in SUBSET {"writer", "paste"}
    BY DEF Init
  <2> QED
    BY <2>1, <2>2, <2>3 DEF Init, TypeOK
<1>2. Init => IInv
  BY <1>1 DEF Init, IInv, ArmedOnLatestWrite, UnexcludedIsNeverPasted,
      ArmedIsIntended, PollHoldsTarget, VerifiedOrRaced
<1> QED
  BY <1>2, InvStep, PTL DEF Spec

\* Type correctness of the paste path.
THEOREM TypeCorrect == Spec => []TypeOK
BY Invariance, PTL DEF IInv

\* poll never reaches the injector for a paste the user withdrew, for another
\* application, or over other clipboard contents, except through a race the
\* desktop wins after poll's own last check.
THEOREM KeystrokeSafety == Spec => []KeystrokeServesIntent
<1>1. IInv => KeystrokeServesIntent
  BY AppAssumption DEF IInv, ArmedIsIntended, PollHoldsTarget, VerifiedOrRaced,
     KeystrokeServesIntent
<1> QED
  BY <1>1, Invariance, PTL

\* copy() never leaves an older keystroke armed.
THEOREM ArmedSafety == Spec => []ArmedOnLatestWrite
BY Invariance, PTL DEF IInv

\* No keystroke is armed or polled over a sensitive clip that a failed copy()
\* left on the clipboard in reach of the OS clipboard history.
THEOREM SensitiveSafety == Spec => []UnexcludedIsNeverPasted
BY Invariance, PTL DEF IInv

-----------------------------------------------------------------------------
(* The popup: the parts stand side by side. *)

\* Each frame of the window draws what a fresh projection of the list would,
\* Enter delivers the clip that was selected on the screen, and a search result
\* that is shown is whole, whatever the store, the clock and the search worker
\* do between the frames.
THEOREM WindowIsTrue == PopupSpec => WindowShowsTheTruth
<1>1. PopupInit => WinInv
  BY WinInitHolds DEF PopupInit
<1>2. [PopupNext]_popupSpecVars => [WinNext]_winVars
  BY DEF PopupNext, popupSpecVars
<1>3. WinInv /\ [WinNext]_winVars => WinInv'
  BY WinStep
<1>4. WinInv => WinTypeOK /\ ResultIsWhole
  BY WinParts
<1>5. WinInv /\ [WinNext]_winVars => FrameIsFresh /\ EnterServesSelection
  BY FrameShows
<1> QED
  BY <1>1, <1>2, <1>3, <1>4, <1>5, PTL DEF PopupSpec, WindowShowsTheTruth

\* Two processes never have the store open, the endpoint of a process that
\* serves is neither removed nor replaced, every response is to the request its
\* reader waits for, and an acknowledged intent is shown or on its way, for any
\* number of processes, attempts and faults: starts that race, quits and deaths
\* at every step, stale endpoint files and listeners that stop.
THEOREM LaunchesAreSafe == PopupSpec => []LaunchSafety
<1>1. PopupInit => InstInv
  BY InstInitHolds DEF PopupInit
<1>2. [PopupNext]_popupSpecVars => [InstNext]_instVars
  BY DEF PopupNext, popupSpecVars
<1>3. InstInv /\ [InstNext]_instVars => InstInv'
  BY InstStep
<1>4. InstInv => LaunchSafety
  BY LaunchParts
<1> QED
  BY <1>1, <1>2, <1>3, <1>4, PTL DEF PopupSpec
=============================================================================
