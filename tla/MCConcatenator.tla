--------------------------- MODULE MCConcatenator ---------------------------
(* Small instances of Concatenator: model values for the name and digests. *)
EXTENDS Concatenator

Symmetry == Permutations(Digest)
=============================================================================
