------------------------------ MODULE ClipBytes ------------------------------
(***************************************************************************)
(* What a reader of the clip table is promised about bytes kept outside it:  *)
(* a clip enters the table with its bytes, and once it has them only a disk  *)
(* fault takes them away.  Where the bytes are, who counts them and when a   *)
(* file is removed does not show here.                                       *)
(***************************************************************************)
EXTENDS Naturals

CONSTANT Clips

VARIABLES
    content,  \* [Clips -> {"absent", "whole", "broken"}]
    faults    \* disk faults so far

bytesVars == <<content, faults>>

BytesInit == content = [c \in Clips |-> "absent"] /\ faults = 0

\* A clip is added whole; publishing its bytes may mend clips that share them.
Added(c) ==
    /\ content[c] = "absent"
    /\ \E mended \in SUBSET {d \in Clips : content[d] = "broken"} :
         content' = [d \in Clips |-> IF d = c \/ d \in mended THEN "whole" ELSE content[d]]
    /\ UNCHANGED faults

Mended(S) ==
    /\ S # {} /\ \A c \in S : content[c] = "broken"
    /\ content' = [c \in Clips |-> IF c \in S THEN "whole" ELSE content[c]]
    /\ UNCHANGED faults

Dropped(S) ==
    /\ content' = [c \in Clips |-> IF c \in S THEN "absent" ELSE content[c]]
    /\ UNCHANGED faults

Damaged(S) ==
    /\ \A c \in S : content[c] = "whole"
    /\ content' = [c \in Clips |-> IF c \in S THEN "broken" ELSE content[c]]
    /\ faults' = faults + 1

BytesNext ==
    \/ \E c \in Clips : Added(c)
    \/ \E S \in SUBSET Clips : Mended(S) \/ Dropped(S) \/ Damaged(S)

BytesSpec == BytesInit /\ [][BytesNext]_bytesVars
=============================================================================
