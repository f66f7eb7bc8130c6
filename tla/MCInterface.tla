----------------------------- MODULE MCInterface -----------------------------
(* Model-checking instance of Interface.                                   *)
EXTENDS Interface
=============================================================================
