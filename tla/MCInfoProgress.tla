--------------------------- MODULE MCInfoProgress ---------------------------
(* Small instances of InfoProgress: model values, a few bytes per layer.   *)
EXTENDS InfoProgress, TLC

Symmetry ==
  Permutations(Invocation) \union Permutations(Environment) \union Permutations(Layer)
=============================================================================
