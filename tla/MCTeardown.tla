------------------------------ MODULE MCTeardown ------------------------------
(* Model-checking instance of Teardown.                                    *)
EXTENDS Teardown
===============================================================================
