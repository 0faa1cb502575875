--------------------------- MODULE MCLayerReader ---------------------------
(* Small instances of LayerReader: model values, a few bytes per layer.    *)
EXTENDS LayerReader, TLC

Symmetry ==
  Permutations(Invocation) \union Permutations(Environment) \union Permutations(Layer)
=============================================================================
