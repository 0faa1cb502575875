---------------------------- MODULE MCBuildIndex ----------------------------
(* Small instances of BuildIndex.                                          *)
EXTENDS BuildIndex
=============================================================================
