---------------------------- MODULE MCS3Select ----------------------------
(* Small instances of S3Select.                                            *)
EXTENDS S3Select
=============================================================================
