---------------------------- MODULE HistoryWindow ----------------------------
(***************************************************************************)
(* The popup's history list: the frames of the window (PopupApp::ui), the    *)
(* memoized projection of the list (projection.rs), and the search worker    *)
(* with its one-place mailbox (history_search.rs), over a history that other *)
(* threads change and publish.                                               *)
(***************************************************************************)
EXTENDS Integers, FiniteSets, FiniteSetsExt

CONSTANTS
    WinClips,    \* clips, numbered by age: the greater the newer
    Dies,        \* [WinClips -> Nat]: when a clip expires
    Matching,    \* the clips the query matches
    ListLimit,   \* how many of the newest the published list holds
    WinMaxNow,   \* bound: the clock
    MaxChanges   \* bound: changes to the store

ASSUME WindowAssumption ==
    /\ WinClips \subseteq Nat \ {0} /\ IsFiniteSet(WinClips) /\ Dies \in [WinClips -> Nat] /\ Matching \subseteq WinClips
    /\ {ListLimit, WinMaxNow, MaxChanges} \subseteq Nat

VARIABLES
    inStore,     \* clips of the database
    dirty,       \* a change of it is not published yet
    listed,      \* AppState::clips
    revision,    \* AppState::revision
    searched,    \* AppState::history_search
    clock, changes,
    visible, query, preview,   \* PopupApp; query is the text and the scope
    cache,       \* ProjectionCache: its one entry
    shown,       \* what the last frame drew: [rows, sel]
    pasted,      \* the clip an Enter delivered in the last frame
    afterFrame,  \* the frame is drawn, update is still to run
    lastAsked,   \* HistorySearch::last
    mailbox,     \* the latest request
    worker       \* its request, whether it is of the current generation, how far it is

listVars == <<inStore, dirty, listed, revision, clock, changes>>
popupVars == <<visible, query, preview, cache, shown, pasted, afterFrame>>
searchVars == <<lastAsked, mailbox, worker>>
winVars == <<listVars, searched, popupVars, searchVars>>

Nobody == 0
NoResult == [query |-> "", revision |-> -1, clips |-> {}, failed |-> FALSE]
NoRequest == [query |-> "", revision |-> -1]
NoView == [rows |-> {}, sel |-> Nobody]
NoEntry == [key |-> <<-1, FALSE, "">>, horizon |-> 0, rows |-> {}]
Idle == [at |-> "idle", request |-> NoRequest, current |-> FALSE, since |-> 0, found |-> {},
         below |-> 0]

Unexpired(S, t) == {c \in S : Dies[c] > t}
Newest(S) == {c \in S : Cardinality({d \in S : d > c}) < ListLimit}
Answers(S, q) == IF q = "" THEN S ELSE S \cap Matching
Top(S) == IF S = {} THEN Nobody ELSE Max(S)

WinInit ==
    /\ inStore \in SUBSET WinClips /\ dirty = FALSE /\ listed = Newest(inStore)
    /\ revision = 0 /\ searched = NoResult /\ clock = 0 /\ changes = 0
    /\ visible = FALSE /\ query = "" /\ preview = Nobody /\ cache = NoEntry
    /\ shown = NoView /\ pasted = Nobody /\ afterFrame = FALSE
    /\ lastAsked = NoRequest /\ mailbox = NoRequest /\ worker = Idle

-----------------------------------------------------------------------------
(* Other threads *)

StoreChanges ==
    /\ changes < MaxChanges
    /\ \E c \in WinClips : inStore' \in {inStore \cup {c}, inStore \ {c}} \ {inStore}
    /\ dirty' = TRUE /\ changes' = changes + 1
    /\ UNCHANGED <<listed, revision, clock, searched, popupVars, searchVars>>

\* HistoryEvents, a snapshot: set_clips forgets the search and bumps the revision.
Publish ==
    /\ dirty /\ dirty' = FALSE
    /\ listed' = Unexpired(Newest(inStore), clock)
    /\ revision' = revision + 1 /\ searched' = NoResult
    /\ UNCHANGED <<inStore, clock, changes, popupVars, searchVars>>

\* HistoryEvents, PruneExpired
PruneExpired ==
    /\ Unexpired(listed, clock) # listed \/ Unexpired(searched.clips, clock) # searched.clips
    /\ listed' = Unexpired(listed, clock)
    /\ revision' = revision + 1 /\ searched' = NoResult
    /\ UNCHANGED <<inStore, dirty, clock, changes, popupVars, searchVars>>

WinTick ==
    /\ clock < WinMaxNow /\ clock' = clock + 1
    /\ UNCHANGED <<inStore, dirty, listed, revision, changes, searched, popupVars, searchVars>>

-----------------------------------------------------------------------------
(* The window *)

\* A result counts for the query and the revision it was made for.
ResultCounts == searched.query = query /\ searched.revision = revision /\ ~searched.failed
SourceList == IF ResultCounts THEN searched.clips ELSE listed

\* filter_clips
Projection(S) == Answers(Unexpired(S, clock), query)

\* next_expiry
Horizon(S) ==
    LET ahead == {Dies[c] : c \in Unexpired(S, clock)} IN
    IF ahead = {} THEN WinMaxNow + 1 ELSE Min(ahead)

\* Defective variant of Reusable: the revision alone is the key.
ReusableForever == cache.key = <<revision, ResultCounts, query>>

Reusable ==
    /\ cache.key = <<revision, ResultCounts, query>>
    /\ clock < cache.horizon

\* The selection follows the clip that was selected, else it is the first row.
Selection(rows) == IF preview \in rows THEN preview ELSE Top(rows)

Below(rows, c) == LET older == {d \in rows : d < c} IN IF older = {} THEN c ELSE Max(older)

\* One frame: the list, the selection, one key, the drawing.
Frame ==
    /\ visible /\ ~afterFrame
    /\ LET rows == IF Reusable THEN cache.rows ELSE Projection(SourceList) IN
       /\ cache' = IF Reusable THEN cache
                   ELSE [key |-> <<revision, ResultCounts, query>>,
                         horizon |-> Horizon(SourceList), rows |-> rows]
       /\ \/ \* no key, or a text typed into the search field
             /\ query' \in {"", "text"} /\ preview' = Selection(rows) /\ pasted' = Nobody
          \/ \* an arrow
             /\ preview' = Below(rows, Selection(rows)) /\ pasted' = Nobody
             /\ UNCHANGED query
          \/ \* Enter
             /\ pasted' = Selection(rows) /\ preview' = Selection(rows)
             /\ UNCHANGED query
       /\ shown' = [rows |-> rows, sel |-> preview']
    /\ afterFrame' = TRUE
    /\ UNCHANGED <<listVars, searched, visible, searchVars>>

\* Runtime::render after the frame: a new intent replaces the request, an
\* empty one withdraws it; the result goes when nothing is searched.
Intent == [query |-> IF visible THEN query ELSE "", revision |-> revision]

\* Defective variant of UpdateSearch: the intent is not compared with the last.
UpdateSearchEachFrame ==
    /\ afterFrame /\ afterFrame' = FALSE
    /\ LET next == IF Intent.query = "" THEN NoRequest ELSE Intent IN
       /\ lastAsked' = next
       /\ mailbox' = next /\ worker' = [worker EXCEPT !.current = FALSE]
       /\ searched' = IF next = NoRequest THEN NoResult ELSE searched
    /\ UNCHANGED <<listVars, visible, query, preview, cache, shown, pasted>>

UpdateSearch ==
    /\ afterFrame /\ afterFrame' = FALSE
    /\ LET next == IF Intent.query = "" THEN NoRequest ELSE Intent IN
       /\ lastAsked' = next
       /\ IF lastAsked = next THEN UNCHANGED <<mailbox, worker>>
          ELSE mailbox' = next /\ worker' = [worker EXCEPT !.current = FALSE]
       /\ searched' = IF next = NoRequest THEN NoResult ELSE searched
    /\ UNCHANGED <<listVars, visible, query, preview, cache, shown, pasted>>

Show ==
    /\ ~afterFrame
    /\ visible' = TRUE /\ query' = "" /\ preview' = Nobody
    /\ shown' = NoView /\ pasted' = Nobody
    /\ UNCHANGED <<listVars, searched, cache, afterFrame, searchVars>>

\* Hidden, the frame still ends with the update.
Hide ==
    /\ visible /\ ~afterFrame
    /\ visible' = FALSE /\ pasted' = Nobody /\ afterFrame' = TRUE
    /\ UNCHANGED <<listVars, searched, query, preview, cache, shown, searchVars>>

-----------------------------------------------------------------------------
(* The search worker *)

TakeRequest ==
    /\ worker.at = "idle" /\ mailbox # NoRequest
    /\ worker' = [at |-> "collecting", request |-> mailbox, current |-> TRUE,
                  since |-> clock, found |-> {},
                  below |-> Top(WinClips) + 1]
    /\ mailbox' = NoRequest
    /\ UNCHANGED <<listVars, searched, popupVars, lastAsked>>

\* recall_batch, one row at a time from the newest down; given up when the
\* request is no longer the current one.
CollectBatch ==
    /\ worker.at = "collecting"
    /\ LET next == {c \in inStore : c < worker.below} IN
       worker' = IF ~worker.current THEN Idle
                 ELSE IF next = {} THEN [worker EXCEPT !.at = "done"]
                 ELSE [worker EXCEPT !.below = Max(next),
                       !.found = @ \cup Answers(Unexpired({Max(next)}, worker.since), worker.request.query)]
    /\ UNCHANGED <<listVars, searched, popupVars, lastAsked, mailbox>>

CollectFails ==
    /\ worker.at = "collecting" /\ worker' = [worker EXCEPT !.at = "failed"]
    /\ UNCHANGED <<listVars, searched, popupVars, lastAsked, mailbox>>

\* Under the lock of the state: only for the revision it was asked at.
PostResult ==
    /\ worker.at \in {"done", "failed"}
    /\ searched' = IF worker.current /\ revision = worker.request.revision
                   THEN [query |-> worker.request.query, revision |-> revision,
                         failed |-> worker.at = "failed",
                         clips |-> IF worker.at = "failed" THEN {} ELSE worker.found]
                   ELSE searched
    /\ worker' = Idle
    /\ UNCHANGED <<listVars, popupVars, lastAsked, mailbox>>

WinNext ==
    \/ StoreChanges \/ Publish \/ PruneExpired \/ WinTick
    \/ Frame \/ UpdateSearch \/ Show \/ Hide
    \/ TakeRequest \/ CollectBatch \/ CollectFails \/ PostResult

\* A visible window repaints every second; the worker is a thread of its own.
WinFairness ==
    /\ WF_winVars(Frame) /\ WF_winVars(UpdateSearch) /\ WF_winVars(Publish)
    /\ WF_winVars(TakeRequest) /\ WF_winVars(CollectBatch) /\ WF_winVars(PostResult)

WinSpec == WinInit /\ [][WinNext]_winVars /\ WinFairness

-----------------------------------------------------------------------------
WinTypeOK ==
    /\ listed \subseteq WinClips /\ revision \in Nat
    /\ query \in {"", "text"} /\ preview \in WinClips \cup {Nobody}
    /\ worker.at \in {"idle", "collecting", "done", "failed"}

\* A result that is shown for a query misses no stored clip and shows no
\* deleted one, unless a change is still to be published: the worker reads the
\* store batch by batch while it changes.
ResultIsWhole ==
    ResultCounts /\ query # "" /\ ~dirty =>
        /\ Answers(Unexpired(inStore, clock), query) \subseteq searched.clips
        /\ searched.clips \subseteq inStore

\* Each frame draws what a fresh projection would: nothing that expired since,
\* nothing of another list or query (the comment on ProjectionCache).
FrameIsFresh == ~afterFrame /\ afterFrame' /\ visible' => shown'.rows = Projection(SourceList)

\* Enter delivers the clip that was selected on the screen, if it is still
\* there, however the list changed between the drawing and the key.
EnterServesSelection ==
    ~afterFrame /\ afterFrame' /\ pasted' # Nobody /\ shown.sel \in shown'.rows
        => pasted' = shown.sel

\* A search the user waits for is answered.
SearchIsAnswered ==
    <>[](visible /\ query = "text") =>
        []<>(searched.query = "text" /\ searched.revision = revision)

\* What the window shows is what there is: the three above and the types of
\* their state.
WindowShowsTheTruth ==
    []WinTypeOK /\ []ResultIsWhole /\ [][FrameIsFresh]_winVars /\ [][EnterServesSelection]_winVars
=============================================================================
