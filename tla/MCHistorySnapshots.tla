------------------------ MODULE MCHistorySnapshots ------------------------
(* Instances of HistorySnapshots. *)
EXTENDS HistorySnapshots, TLC

CONSTANTS s1, s2, d1, d2

\* The first two secrets are the same password, copied twice.
TwinContent == [c \in Clips |-> IF c = s2 THEN s1 ELSE c]

\* The durable clips are alike.
Symmetry == Permutations({d1, d2})
=============================================================================
