---------------------------- MODULE MCFileRange ----------------------------
(* Small instances of FileRange.                                           *)
EXTENDS FileRange
=============================================================================
