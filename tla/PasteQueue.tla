------------------------------ MODULE PasteQueue ------------------------------
(***************************************************************************)
(* The popup's queue of texts to paste (vbuff-core/src/compose.rs, PasteStack)*)
(* and what the popup's keys and buttons do to it.  One undo slot is shared   *)
(* with every other action.  A text is not modelled, so an edit of one (edit) *)
(* changes nothing here.                                                      *)
(***************************************************************************)
EXTENDS Integers, Sequences, SequencesExt

CONSTANTS
    StackCap,   \* MAX_STACK_ITEMS
    MaxItems    \* bound: items ever added

ASSUME QueueAssumption == {StackCap, MaxItems} \subseteq Nat \ {0}

VARIABLES
    stack,      \* items: Seq of [id, added]
    lastItem,   \* next_id
    offered,    \* the item the undo slot would take back, or 0
    pasteOn     \* the popup is open

stackVars == <<stack, lastItem, offered, pasteOn>>

\* What is told of a text: whether the action that added it offers an undo.
Item(id, added) == [id |-> id, added |-> added]

QueueInit == stack = <<>> /\ lastItem = 0 /\ offered = 0 /\ pasteOn = TRUE

CanAdd == Len(stack) < StackCap /\ lastItem < MaxItems

NextId == lastItem + 1

Grown(items) == stack' = items /\ lastItem' = NextId /\ UNCHANGED pasteOn

\* add, from a row that is not masked.
AddToQueue ==
    /\ pasteOn /\ CanAdd /\ offered' = NextId
    /\ Grown(Append(stack, Item(NextId, TRUE)))

Duplicate(i) ==
    /\ pasteOn /\ CanAdd /\ i \in DOMAIN stack /\ UNCHANGED offered
    /\ Grown(InsertAt(stack, i + 1, Item(NextId, FALSE)))

AddMerged ==
    /\ pasteOn /\ CanAdd /\ stack # <<>> /\ UNCHANGED offered
    /\ Grown(Append(stack, Item(NextId, FALSE)))

\* remove, move_up and move_down, clear
EditStack ==
    /\ pasteOn
    /\ \E i \in DOMAIN stack :
        \/ stack' = RemoveAt(stack, i)
        \/ i > 1 /\ stack' = [stack EXCEPT ![i] = stack[i - 1], ![i - 1] = stack[i]]
        \/ stack' = <<>>
    /\ UNCHANGED <<lastItem, offered, pasteOn>>

\* start_paste_flavors: a write that fails leaves the popup open.
PasteText == pasteOn' \in BOOLEAN

\* paste_next_queued: the item is gone whether or not it could be written.
PasteNextQueued ==
    /\ pasteOn /\ stack # <<>>
    /\ stack' = Tail(stack) /\ PasteText
    /\ UNCHANGED <<lastItem, offered>>

\* An item of the stack's editor, the merged text, or a row or its transform:
\* what is queued stays queued.
PasteOther ==
    /\ pasteOn /\ PasteText
    /\ UNCHANGED <<stack, lastItem, offered>>

OpenAgain == ~pasteOn /\ pasteOn' = TRUE /\ UNCHANGED <<stack, lastItem, offered>>

\* The slot is used, runs out, or goes to another action.
UndoAdd ==
    /\ pasteOn /\ offered # 0 /\ offered' = 0
    /\ \/ \E i \in DOMAIN stack : stack[i].id = offered /\ stack' = RemoveAt(stack, i)
       \/ (\A i \in DOMAIN stack : stack[i].id # offered) /\ UNCHANGED stack
    /\ UNCHANGED <<lastItem, pasteOn>>

SlotLost ==
    offered # 0 /\ offered' = 0 /\ UNCHANGED <<stack, lastItem, pasteOn>>

QueueNext ==
    \/ \E i \in DOMAIN stack : Duplicate(i)
    \/ AddToQueue \/ AddMerged \/ EditStack \/ PasteNextQueued \/ PasteOther
    \/ OpenAgain \/ UndoAdd \/ SlotLost

QueueSpec == QueueInit /\ [][QueueNext]_stackVars

-----------------------------------------------------------------------------
\* An undo takes back the addition it was offered for and no other item,
\* whatever was added, merged or removed since (PasteStackItemId).
UndoIsExact ==
    /\ IsInjective([i \in DOMAIN stack |-> stack[i].id])
    /\ \A i \in DOMAIN stack : stack[i].id = offered => stack[i].added

\* The stack keeps its bound (MAX_STACK_ITEMS) and its undo is exact.
QueueSafety == Len(stack) <= StackCap /\ UndoIsExact
=============================================================================
