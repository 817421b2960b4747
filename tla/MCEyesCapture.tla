--------------------------- MODULE MCEyesCapture ---------------------------
(* Instances of EyesCapture for TLC. *)
EXTENDS EyesCapture
=============================================================================
