---------------------------- MODULE MCCaptureGate ----------------------------
(***************************************************************************)
(* Model values for CaptureGate.  Lifetimes are in units of 30 s: 30 s for  *)
(* a private key, 60 s for a one-time password, 10 min for a payment card,  *)
(* with a secret_ttl that lies between them.                                 *)
(***************************************************************************)
EXTENDS CaptureGate

CONSTANTS key, otp, card

MCLifetime == [k \in Kinds |-> CASE k = key -> 1 [] k = otp -> 2 [] OTHER -> 20]
=============================================================================
