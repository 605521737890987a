------------------------- MODULE MCProfileCapture -------------------------
(* Model-checking instance of ProfileCapture. *)
EXTENDS ProfileCapture
=============================================================================
