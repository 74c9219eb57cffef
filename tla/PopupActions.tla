---------------------------- MODULE PopupActions ----------------------------
(***************************************************************************)
(* What a user does to clips in the popup (vbuff-gui/src/app.rs), and what    *)
(* the resident makes of it (src/app.rs, history.rs): pin, peek, clone, delete,*)
(* clear and undo (PasteQueue has its queue).  The popup decides on a snapshot that lags behind  *)
(* the store; capture, expiry and audits go on meanwhile; any call may fail;  *)
(* some clips are kept in memory only.  A frame's actions are handled when it *)
(* is drawn, so one action of the popup and its handler are one step.         *)
(***************************************************************************)
EXTENDS Integers, FiniteSets

CONSTANTS
    PopClips,      \* clip ids
    Large,         \* those whose body the snapshot leaves out (Spilled)
    Masked,        \* those marked sensitive
    VolatileCap    \* MAX_VOLATILE_CLIPS

\* No undo lives long enough for its clip to fall out of the 256 origins that
\* are remembered: origins are a set here.
ASSUME PopupAssumption ==
    Large \cup Masked \subseteq PopClips /\ VolatileCap \in Nat \ {0}

VARIABLES
    rows,       \* the store: clip -> "whole" or "hollow" (its body is lost)
    pins,       \* pinned rows
    volatile,   \* the memory-only lane
    origins,    \* volatile_origins
    private,    \* ghost: ids that hold what was captured for memory only
    original,   \* deleted_original: a clip or Nothing
    view,       \* the clips of the snapshot
    popup,      \* "hidden", "focused" or "away": shown without focus
    dialog,     \* the clip whose deletion is to be confirmed, Clearing or Nothing
    undo,       \* undo_slot: [kind, clip, pinned]
    peek        \* peek_sensitive: a clip or Nothing

laneVars == <<rows, pins, volatile, origins>>
clipVars == <<laneVars, private, original>>
faceVars == <<popup, dialog, undo, peek>>
popVars == <<clipVars, view, faceVars>>

Nothing == 0
Clearing == -1
NoUndo == [kind |-> "none", clip |-> Nothing, pinned |-> FALSE]

PopInit ==
    /\ rows = <<>> /\ pins = {} /\ volatile = {} /\ origins = {} /\ private = {}
    /\ original = Nothing /\ view = {} /\ popup = "hidden" /\ dialog = Nothing
    /\ undo = NoUndo /\ peek = Nothing

-----------------------------------------------------------------------------
(* The resident: history.rs *)

Stored == DOMAIN rows
Known == Stored \cup volatile
WithClip(c, body) == [d \in Stored \cup {c} |-> IF d = c THEN body ELSE rows[d]]
WithoutClips(S) == [d \in Stored \ S |-> rows[d]]
Fresh(c) == c \notin Known \cup private \cup {undo.clip, original}

\* insert_volatile: the lane forgets the oldest beyond its cap.
InsertVolatile(c) ==
    /\ origins' = origins \cup {c}
    /\ volatile' \in {kept \cup {c} : kept \in SUBSET (volatile \ {c})}
    /\ volatile \subseteq volatile' \/ Cardinality(volatile') = VolatileCap
    /\ Cardinality(volatile') <= VolatileCap
    /\ UNCHANGED <<rows, pins>>

\* insert
Insert(c, body) == rows' = WithClip(c, body) /\ UNCHANGED <<pins, volatile, origins>>

IsMemoryOnly(c) == c \in origins

\* Capture stores a new clip, in memory only when the policy says so.
CaptureNew(c, memoryOnly) ==
    /\ Fresh(c)
    /\ IF memoryOnly THEN InsertVolatile(c) /\ private' = private \cup {c}
                     ELSE Insert(c, "whole") /\ UNCHANGED private
    /\ UNCHANGED <<original, view, faceVars>>

\* A clip expires or is evicted.
ClipLeaves(c) ==
    /\ c \in Known
    /\ rows' = WithoutClips({c}) /\ pins' = pins \ {c} /\ volatile' = volatile \ {c}
    /\ UNCHANGED <<origins, private, original, view, faceVars>>

\* The worker's snapshot reaches the popup some time later.
Refresh == view' = Known /\ UNCHANGED <<clipVars, faceVars>>

\* The process ends and starts again.
RestartPopup ==
    /\ volatile' = {} /\ origins' = {} /\ original' = Nothing /\ view' = Stored
    /\ popup' = "hidden" /\ dialog' = Nothing /\ undo' = NoUndo /\ peek' = Nothing
    /\ UNCHANGED <<rows, pins, private>>

-----------------------------------------------------------------------------
(* The window *)

Shown == popup = "focused" /\ dialog = Nothing
Slot(kind, c, pinned) == [kind |-> kind, clip |-> c, pinned |-> pinned]

\* show: a fresh start for everything but the undo slot.
ShowPopup ==
    /\ popup' = "focused" /\ dialog' = Nothing /\ peek' = Nothing
    /\ UNCHANGED <<clipVars, view, undo>>

\* hide
Hidden == popup' = "hidden" /\ peek' = Nothing

\* By Escape, a close request, a focus lost for 700 ms, or a paste.
HidePopup == popup # "hidden" /\ Hidden /\ UNCHANGED <<clipVars, view, dialog, undo>>

\* The first frame without focus ends the reveal.
FocusMoves ==
    /\ \/ popup = "focused" /\ popup' = "away" /\ peek' = Nothing
       \/ popup = "away" /\ popup' = "focused" /\ UNCHANGED peek
    /\ UNCHANGED <<clipVars, view, dialog, undo>>

\* Reveal a masked row, for two seconds.
PeekAt(c) ==
    /\ Shown /\ c \in view \cap Masked /\ peek' = c
    /\ UNCHANGED <<clipVars, view, popup, dialog, undo>>

\* The reveal ends after two seconds, the slot after five, and its original no
\* sooner than the slot.
PopTick ==
    /\ \/ peek' = Nothing /\ UNCHANGED <<undo, original>>
       \/ undo' = NoUndo /\ UNCHANGED <<peek, original>>
       \/ undo # Slot("delete", original, FALSE) /\ original' = Nothing /\ UNCHANGED <<peek, undo>>
    /\ UNCHANGED <<laneVars, private, view, popup, dialog>>

-----------------------------------------------------------------------------
(* Pin, clone, delete, clear and undo *)

\* set_pinned
SetPinned(c, value) ==
    pins' = IF IsMemoryOnly(c) \/ c \notin Stored THEN pins
            ELSE IF value THEN pins \cup {c} ELSE pins \ {c}

\* Each way to pin has checks of its own; the resident's is the one that counts.
TogglePin(c, value) ==
    /\ Shown /\ c \in view
    /\ SetPinned(c, value) /\ undo' = Slot("pin", c, ~value)
    /\ UNCHANGED <<rows, volatile, origins, private, original, view, popup, dialog, peek>>

\* plain_text_clone: what came from memory stays there.
CloneInto(c, d) == IF IsMemoryOnly(c) THEN InsertVolatile(d) ELSE Insert(d, "whole")

CreatePlainTextClone(c, d) ==
    /\ Shown /\ c \in view \cap Known /\ Fresh(d)
    /\ CloneInto(c, d)
    /\ private' = IF c \in private THEN private \cup {d} ELSE private
    /\ UNCHANGED <<original, view, faceVars>>

AskDelete(c) ==
    /\ Shown /\ c \in view /\ dialog' = c
    /\ UNCHANGED <<clipVars, view, popup, undo, peek>>

AskClear ==
    /\ Shown /\ dialog' = Clearing
    /\ UNCHANGED <<clipVars, view, popup, undo, peek>>

Cancel ==
    /\ popup = "focused" /\ dialog # Nothing /\ dialog' = Nothing
    /\ UNCHANGED <<clipVars, view, popup, undo, peek>>

\* delete: the refresh that follows the deletion may fail, and then the
\* original is not kept.
Deletion(c) ==
    IF c \in volatile THEN volatile' = volatile \ {c} /\ UNCHANGED <<rows, pins, original>>
    ELSE /\ UNCHANGED volatile
         /\ \/ UNCHANGED <<rows, pins, original>>
            \/ /\ rows' = WithoutClips({c}) /\ pins' = pins \ {c}
               /\ original' \in {original, IF c \in Stored THEN c ELSE Nothing}

ConfirmDelete ==
    /\ popup = "focused" /\ dialog \in PopClips /\ dialog' = Nothing
    /\ Deletion(dialog)
    /\ undo' = IF dialog \in view THEN Slot("delete", dialog, FALSE) ELSE undo
    /\ UNCHANGED <<origins, private, view, popup, peek>>

\* clear_history
ConfirmClear ==
    /\ popup = "focused" /\ dialog = Clearing /\ dialog' = Nothing
    /\ original' = Nothing /\ volatile' = {}
    /\ rows' = WithoutClips(Stored \ pins)
    /\ UNCHANGED <<pins, origins, private, view, popup, undo, peek>>

\* Defective variant of Body: the snapshot's copy is good enough.
BodyOfSnapshot(c) == IF original # c /\ c \in Large THEN "hollow" ELSE "whole"

\* What restore has to put back: the original, or the snapshot's own copy if
\* nothing was left out of it.
Body(c) == IF original # c /\ c \in Large THEN "refused" ELSE "whole"

\* restore, which takes the original before it knows whether the insert works.
Restore(c) ==
    /\ original' = IF original = c THEN Nothing ELSE original
    /\ \/ UNCHANGED <<rows, pins, volatile, origins>>
       \/ /\ Body(c) # "refused"
          /\ IF IsMemoryOnly(c) THEN InsertVolatile(c) ELSE Insert(c, Body(c))

ApplyUndo ==
    /\ Shown /\ undo.kind # "none" /\ undo' = NoUndo
    /\ \/ /\ undo.kind = "pin" /\ SetPinned(undo.clip, undo.pinned)
          /\ UNCHANGED <<rows, volatile, origins, original>>
       \/ undo.kind = "delete" /\ Restore(undo.clip)
    /\ UNCHANGED <<private, view, popup, dialog, peek>>

PopNext ==
    \/ \E c \in PopClips :
        \/ \E b \in BOOLEAN : CaptureNew(c, b) \/ TogglePin(c, b)
        \/ ClipLeaves(c) \/ PeekAt(c) \/ AskDelete(c)
        \/ \E d \in PopClips : CreatePlainTextClone(c, d)
    \/ Refresh \/ RestartPopup \/ ShowPopup \/ HidePopup \/ FocusMoves \/ PopTick
    \/ AskClear \/ Cancel \/ ConfirmDelete \/ ConfirmClear \/ ApplyUndo

PopSpec == PopInit /\ [][PopNext]_popVars

-----------------------------------------------------------------------------
PopTypeOK ==
    /\ Known \subseteq PopClips /\ pins \subseteq Stored
    /\ popup \in {"hidden", "focused", "away"}
    /\ dialog \in {Nothing, Clearing} \cup PopClips
    /\ volatile \subseteq origins /\ Cardinality(volatile) <= VolatileCap

\* What was captured for memory only never reaches the database: not by a pin, a
\* clone, or the undo of its deletion (History::restore, is_memory_only).
PrivateStaysInMemory == private \cap Stored = {}

\* An undo never puts a row back without its body (History::restore).
RowsAreWhole == \A c \in Stored : rows[c] = "whole"

\* What is revealed is seen by who asked: not after a hide or a lost focus.
PeekIsAttended == peek # Nothing => popup = "focused"

PopupSafety == PopTypeOK /\ PrivateStaysInMemory /\ RowsAreWhole /\ PeekIsAttended
=============================================================================
