---------------------------- MODULE ImageRecord ----------------------------
(***************************************************************************)
(* What the back end promises about one image, seen by a client that polls *)
(* /api/info and then browses: at any time there is at most one attempt to *)
(* index the image, its outcome is settled once, and every status but the  *)
(* provisional PENDING and RUNNING is that outcome. ImagePipeline          *)
(* implements this module (ImplementsRecord).                              *)
(***************************************************************************)
CONSTANTS
  Attempt,     \* attempts to index the image
  NoAttempt    \* the owner of a record that does not exist

VARIABLES
  status,   \* what /api/info reports, "ABSENT" when there is no record
  owner,    \* the attempt that the record belongs to
  outcome,  \* the owner's outcome, "NONE" until it is settled
  indexed   \* whether everything that browsing needs has been stored

vars == <<status, owner, outcome, indexed>>

Outcome == {"SUCCEEDED", "FAILED"}

Init ==
  /\ status = "ABSENT"
  /\ owner = NoAttempt
  /\ outcome = "NONE"
  /\ indexed = FALSE

(* The first attempt takes the record; the others find it taken.           *)
Create(a) ==
  /\ status = "ABSENT"
  /\ status' = "PENDING"
  /\ owner' = a
  /\ outcome' = "NONE"
  /\ UNCHANGED indexed

(* Provisional, and made by nobody but the owner, but not ordered before   *)
(* the outcome's report.                                                   *)
MarkRunning ==
  /\ status # "ABSENT"
  /\ status' = "RUNNING"
  /\ UNCHANGED <<owner, outcome, indexed>>

(* Everything is stored: by the attempt that will succeed, or as the late  *)
(* effect of one that has failed.                                          *)
Store ==
  /\ indexed' = TRUE
  /\ UNCHANGED <<status, owner, outcome>>

Succeed ==
  /\ status # "ABSENT"
  /\ outcome = "NONE"
  /\ outcome' = "SUCCEEDED"
  /\ indexed' = TRUE
  /\ UNCHANGED <<status, owner>>

Fail ==
  /\ status # "ABSENT"
  /\ outcome = "NONE"
  /\ outcome' = "FAILED"
  /\ UNCHANGED <<status, owner, indexed>>

Report ==
  /\ outcome \in Outcome
  /\ status' = outcome
  /\ UNCHANGED <<owner, outcome, indexed>>

(* The record is forgotten, what was stored is not.                        *)
Forget ==
  /\ status # "ABSENT"
  /\ status' = "ABSENT"
  /\ owner' = NoAttempt
  /\ outcome' = "NONE"
  /\ UNCHANGED indexed

Next ==
  \/ \E a \in Attempt : Create(a)
  \/ MarkRunning \/ Store \/ Succeed \/ Fail \/ Report \/ Forget

Spec == Init /\ [][Next]_vars
=============================================================================
