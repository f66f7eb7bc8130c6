------------------------------ MODULE MCFraming ------------------------------
(* Model-checking instances of Framing.                                    *)
EXTENDS Framing, TLC

\* Sequences are only compared for equality, so their names do not matter.
SeqSymmetry == Permutations(Seqs)
=============================================================================
