--------------------------- MODULE MCRadioDriver ---------------------------
(* Model-checking instance of RadioDriver.                                 *)
EXTENDS RadioDriver
=============================================================================
