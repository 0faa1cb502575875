-------------------------- MODULE BuildIndexProofs --------------------------
(***************************************************************************)
(* Proofs about BuildIndex, for any archive, tail and capacity of a pipe.  *)
(***************************************************************************)
EXTENDS BuildIndex, TLAPS

-----------------------------------------------------------------------------
(* No block is lost or made up on its way.                                 *)
BlocksAreKept ==
  /\ fed = passed + stdin
  /\ stdout <= passed
  /\ blob = "ended" => fed = Size

(* The tar reader stops at the end of the archive, or before it at the end *)
(* of its input.                                                           *)
ReaderStops ==
  /\ Body \in seams => tail = 0
  /\ taken <= Body
  /\ main = "next" => taken < Body \/ Body \in seams
  /\ main = "wait" => taken = Body \/ (Exited /\ stdout = 0)

(* Status 0 and a copier without an error mean that nothing is left of the *)
(* blob.                                                                   *)
StatusIsTrue ==
  /\ gztool = "zero" => copier # "copying" /\ stdin = 0
  /\ copier = "done" => blob = "ended" \/ gztool = "nonzero"
  /\ main = "indexed" => gztool = "zero" /\ copier = "done" /\ taken = Body

IInv == TypeOK /\ BlocksAreKept /\ ReaderStops /\ StatusIsTrue

(* The invariant holds before the first block.                             *)
LEMMA IInvInit == Init => IInv
BY BodyAssumption, MaxTailAssumption, CapacityAssumption
DEF Init, Seams, IInv, TypeOK, BlocksAreKept, ReaderStops, StatusIsTrue, Size, taken,
    MainState, Returned

(* Every step keeps the invariant.                                         *)
LEMMA IInvStep == IInv /\ [Next]_vars => IInv'
<1> SUFFICES ASSUME IInv, [Next]_vars
             PROVE  IInv'
  OBVIOUS
<1> USE BodyAssumption, MaxTailAssumption, CapacityAssumption
<1> USE DEF IInv, TypeOK, BlocksAreKept, ReaderStops, StatusIsTrue, Size, taken, Exited
<1>1. CASE Blob
  BY <1>1 DEF Blob, BlobEnds, BlobBreaks
<1>2. CASE Copy
  BY <1>2 DEF Copy
<1>3. CASE CopyEnds \/ CopyAbandoned
  BY <1>3 DEF CopyEnds, CopyAbandoned
<1>4. CASE Pass
  BY <1>4 DEF Pass
<1>5. CASE GztoolEnds \/ GztoolFails
  BY <1>5 DEF GztoolEnds, GztoolFails
<1>6. CASE ReadTar
  BY <1>6 DEF ReadTar, MainState, Returned
<1>7. CASE EndOfOutput \/ TarError
  BY <1>7 DEF EndOfOutput, TarError, MainState, Returned
<1>8. CASE Wait
  BY <1>8 DEF Wait, MainState, Returned
<1>9. CASE UNCHANGED vars
  BY <1>9 DEF vars
<1> QED
  BY <1>1, <1>2, <1>3, <1>4, <1>5, <1>6, <1>7, <1>8, <1>9 DEF Next, Copier, Gztool, Main

(* IInv is an invariant of the specification.                              *)
THEOREM Inductive == Spec => []IInv
BY IInvInit, IInvStep, PTL DEF Spec

(* Every variable keeps its type, the pipes their capacity.                *)
THEOREM TypeCorrect == Spec => []TypeOK
<1>1. IInv => TypeOK
  BY DEF IInv
<1> QED
  BY <1>1, Inductive, PTL

(* What BuildIndex returns without an error is the index of the whole blob,*)
(* although the loop around tr.Next also ends (targzi.go:149) where the    *)
(* archive is cut: cmd.Wait (targzi.go:208) then returns an error.         *)
THEOREM WholeBlob == Spec => []IndexCoversBlob
<1>1. IInv => IndexCoversBlob
  BY DEF IInv, TypeOK, BlocksAreKept, StatusIsTrue, IndexCoversBlob, Size
<1> QED
  BY <1>1, Inductive, PTL

(* cmd.Wait and gztool wait for each other only behind a tail that is      *)
(* longer than a pipe holds.                                               *)
THEOREM OnlyLongTails == Spec => []StuckOnlyByTail
<1>1. IInv => StuckOnlyByTail
  BY CapacityAssumption, MaxTailAssumption, BodyAssumption
  DEF IInv, TypeOK, BlocksAreKept, ReaderStops, StuckOnlyByTail, Size, taken
<1> QED
  BY <1>1, Inductive, PTL

-----------------------------------------------------------------------------
(* What EndsUnlessLongTail and LeftBehindOnlyByLongRest owe to the code,   *)
(* and not to the scheduler: there is an end to the steps, and no deadlock *)
(* before it.                                                              *)

Left(b) == IF b THEN 1 ELSE 0

(* A block makes three steps: into gztool, through it and out of it.       *)
StepsLeft ==
  3 * (Size - fed) + 2 * stdin + stdout
    + Left(blob = "open") + Left(copier = "copying") + Left(~Exited)
    + Left(main = "next") + Left(main \in {"next", "wait"})

(* The conditions of Copier, Gztool and Main.                              *)
CopierCan ==
  copier = "copying" /\ (blob # "open" \/ (fed < Size /\ (Exited \/ stdin < Capacity)))

GztoolCan ==
  ~Exited /\ \/ stdin > 0 /\ stdout < Capacity
             \/ stdin = 0 /\ copier # "copying"

MainCan ==
  \/ main = "next" /\ (stdout > 0 \/ (Exited /\ (taken < Body \/ taken \in seams)))
  \/ main = "wait" /\ Exited /\ copier # "copying"

(* As long as BuildIndex has not returned, somebody can go on.             *)
NobodyWaitsForEver ==
  blob # "open" /\ tail <= Capacity =>
    main \in Returned \/ CopierCan \/ GztoolCan \/ MainCan

(* After the return that does not wait, what it leaves behind can go on.   *)
LeftoversGoOn ==
  main = "tarError" /\ blob # "open" /\ Size - taken <= Capacity =>
    (Exited /\ copier # "copying") \/ CopierCan \/ GztoolCan

LEMMA StepsLeftStep == IInv /\ [Next]_vars => StepsLeft' < StepsLeft \/ UNCHANGED vars
<1> SUFFICES ASSUME IInv, Next
             PROVE  StepsLeft' < StepsLeft
  OBVIOUS
<1> USE BodyAssumption, MaxTailAssumption, CapacityAssumption
<1> USE DEF IInv, TypeOK, BlocksAreKept, Size, Exited, StepsLeft, Left
<1>1. CASE BlobEnds \/ BlobBreaks
  BY <1>1 DEF BlobEnds, BlobBreaks
<1>2. CASE Copy
  BY <1>2 DEF Copy
<1>3. CASE CopyEnds \/ CopyAbandoned
  <2>1. /\ copier = "copying" /\ copier' # "copying"
        /\ UNCHANGED <<tail, seams, blob, fed, stdin, gztool, passed, stdout, main>>
    BY <1>3 DEF CopyEnds, CopyAbandoned
  <2> QED
    BY <2>1
<1>4. CASE Pass
  BY <1>4 DEF Pass
<1>5. CASE GztoolEnds \/ GztoolFails
  BY <1>5 DEF GztoolEnds, GztoolFails
<1>6. CASE ReadTar
  BY <1>6 DEF ReadTar
<1>7. CASE EndOfOutput \/ TarError \/ Wait
  BY <1>7 DEF EndOfOutput, TarError, Wait
<1> QED
  BY <1>1, <1>2, <1>3, <1>4, <1>5, <1>6, <1>7 DEF Next, Blob, Copier, Gztool, Main

(* BuildIndex, the copier and gztool together make a bounded number of     *)
(* steps: each uses up one of finitely many.                               *)
THEOREM StepsRunOut == Spec => [](StepsLeft \in Nat) /\ [][StepsLeft' < StepsLeft]_vars
<1>1. IInv => StepsLeft \in Nat
  BY BodyAssumption, MaxTailAssumption, CapacityAssumption
  DEF IInv, TypeOK, BlocksAreKept, Size, Exited, StepsLeft, Left
<1>2. IInv /\ [Next]_vars => [StepsLeft' < StepsLeft]_vars
  BY StepsLeftStep
<1> QED
  BY <1>1, <1>2, Inductive, PTL DEF Spec

(* No deadlock of cmd.Wait (targzi.go:208), gztool and the copier, for any *)
(* archive, unless more follows it than a pipe holds; and none of those    *)
(* that an early return (targzi.go:153) leaves to themselves, unless the   *)
(* tar reader has left more than a pipe holds.                             *)
THEOREM NoDeadlock == Spec => [](NobodyWaitsForEver /\ LeftoversGoOn)
<1>1. IInv => NobodyWaitsForEver
  BY BodyAssumption, MaxTailAssumption, CapacityAssumption
  DEF IInv, TypeOK, BlocksAreKept, ReaderStops, Size, taken, Exited, MainState, Returned,
      NobodyWaitsForEver, CopierCan, GztoolCan, MainCan
<1>2. IInv => LeftoversGoOn
  BY BodyAssumption, MaxTailAssumption, CapacityAssumption
  DEF IInv, TypeOK, BlocksAreKept, ReaderStops, Size, taken, Exited,
      LeftoversGoOn, CopierCan, GztoolCan
<1> QED
  BY <1>1, <1>2, Inductive, PTL
=============================================================================
