-------------------------- MODULE MCImagePipeline --------------------------
(* Small instances of ImagePipeline, for TLC.                              *)
EXTENDS ImagePipeline
=============================================================================
