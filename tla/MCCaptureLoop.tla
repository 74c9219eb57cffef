---------------------------- MODULE MCCaptureLoop ----------------------------
(***************************************************************************)
(* Model values for CaptureLoop: a clip vbuff writes, the same text as a    *)
(* starter-pack clip registers it, an image, a copy the gate skips           *)
(* recoverably and one a rule empties.  The image and the written clip are   *)
(* too large for a host under memory pressure; the clip has text to preview. *)
(***************************************************************************)
EXTENDS CaptureLoop, TLC

CONSTANTS clip, starter, photo, gated, husk, empty

MCVerdict == [c \in Contents |->
                CASE c = gated -> "skip_recoverable"
                  [] c = husk -> "lost"
                  [] OTHER -> "capture"]
MCHeavy == Contents \intersect {photo, clip}
MCHasText == Contents \ {photo}

\* A captured clip reads back under its own hash.  A starter-pack clip has
\* the MIME type text/plain, and arboard reads it as text/plain;charset=utf-8.
MCReadBack == [c \in OwnClips |-> IF c = starter THEN clip ELSE c]
=============================================================================
