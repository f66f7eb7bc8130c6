------------------------------ MODULE MCLocation ------------------------------
(* Model-checking instance of Location.                                    *)
EXTENDS Location

MCOffsets == {-2, 0, 2}
===============================================================================
