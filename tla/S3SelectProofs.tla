--------------------------- MODULE S3SelectProofs ---------------------------
(***************************************************************************)
(* Proofs about S3Select, for any number of lines.                         *)
(***************************************************************************)
EXTENDS S3Select, TLAPS

-----------------------------------------------------------------------------
(* Between two events the scanner has read all that was written.           *)
PipeIsDrained ==
  main \in {"select", "drain", "returned"} => read = taken

(* The scanner has decoded every line that it has read to the end.         *)
EntriesAreRead == entries = read \div 2

(* A stream that has ended has brought every line.                         *)
StreamIsWhole == stream = "ended" => taken = Pieces

(* The scanner stops at the end of the pipe, or in a line that is too long.*)
ScannerStops == scanner = "sent" => Line \in long \/ main \in {"drain", "returned"}

(* The pipe ends in half a line only if the stream has broken.             *)
HalfLineIsBroken ==
  /\ main \in {"drain", "returned", "crashed"} => stream # "open"
  /\ main = "crashed" => LineEnds /\ read = taken

IInv == TypeOK /\ PipeIsDrained /\ EntriesAreRead /\ StreamIsWhole /\ ScannerStops /\ HalfLineIsBroken

(* The invariant holds when the goroutine has been started.                *)
LEMMA IInvInit == Init => IInv
BY LinesAssumption
DEF Init, IInv, TypeOK, PipeIsDrained, EntriesAreRead, StreamIsWhole, ScannerStops,
    HalfLineIsBroken, MainState, Ended, ScannerState, Pieces

(* Every step keeps the invariant.                                         *)
LEMMA IInvStep == IInv /\ [Next]_vars => IInv'
<1> SUFFICES ASSUME IInv, [Next]_vars
             PROVE  IInv'
  OBVIOUS
<1> USE LinesAssumption
<1> USE DEF IInv, TypeOK, PipeIsDrained, EntriesAreRead, StreamIsWhole, ScannerStops,
            HalfLineIsBroken, LineEnds, MainState, Ended, ScannerState, Pieces, Line
<1>1. CASE StreamEnds \/ StreamBreaks \/ ContextDone
  BY <1>1 DEF StreamEnds, StreamBreaks, ContextDone
<1>2. CASE Records
  BY <1>2 DEF Records
<1>3. CASE Written \/ EventsClosed \/ Cancelled \/ Return
  BY <1>3 DEF Written, EventsClosed, Cancelled, Return
<1>4. CASE Scan
  BY <1>4 DEF Scan, Readable, LineEnds
<1>5. CASE TooLong
  BY <1>5 DEF TooLong, Readable, LineEnds
<1>6. CASE EndOfPipe
  BY <1>6 DEF EndOfPipe, LineEnds
<1>7. CASE UNCHANGED vars
  BY <1>7 DEF vars
<1> QED
  BY <1>1, <1>2, <1>3, <1>4, <1>5, <1>6, <1>7 DEF Next, Main, Scanner

(* IInv is an invariant of the specification.                              *)
THEOREM Inductive == Spec => []IInv
BY IInvInit, IInvStep, PTL DEF Spec

(* Every variable keeps its type.                                          *)
THEOREM TypeCorrect == Spec => []TypeOK
<1>1. IInv => TypeOK
  BY DEF IInv
<1> QED
  BY <1>1, Inductive, PTL

(* What Select returns is all that it has received.                        *)
THEOREM NothingDropped == Spec => []ReturnsWhatItReceived
<1>1. IInv => ReturnsWhatItReceived
  BY LinesAssumption
  DEF IInv, TypeOK, PipeIsDrained, EntriesAreRead, StreamIsWhole, Pieces,
      ReturnsWhatItReceived
<1> QED
  BY <1>1, Inductive, PTL

(* A write that cannot return is in a line that is too long.               *)
THEOREM OnlyLongLines == Spec => []StuckOnlyByLongLine
<1>1. IInv => StuckOnlyByLongLine
  BY DEF IInv, ScannerStops, StuckOnlyByLongLine
<1> QED
  BY <1>1, Inductive, PTL

(* Whatever events a stream is made of, and whenever the context is done,  *)
(* the goroutine panics only if the stream has broken.                     *)
THEOREM PanicNeedsBrokenStream == Spec => []PanicsOnlyWhenBroken
<1>1. IInv => PanicsOnlyWhenBroken
  BY LinesAssumption
  DEF IInv, TypeOK, StreamIsWhole, HalfLineIsBroken, LineEnds, Pieces, PanicsOnlyWhenBroken
<1> QED
  BY <1>1, Inductive, PTL

-----------------------------------------------------------------------------
(* What EndsWithStream and EndsWithContext owe to the code, and not to the *)
(* scheduler: there is an end to the steps, and no deadlock before it.     *)

Left(b) == IF b THEN 1 ELSE 0

(* A piece makes three steps: into an event, out of the write, to the      *)
(* scanner.                                                                *)
TurnsLeft ==
  Left(stream = "open") + Left(ctx = "live") + Left(scanner = "scanning")
    + Left(main = "write") + Left(main \in {"write", "select"}) + Left(main \notin Ended)

StepsLeft == 2 * (Pieces - taken) + (Pieces - read) + TurnsLeft

(* The conditions of Main and of Scanner.                                  *)
MainCan ==
  \/ main = "select" /\ (stream # "open" \/ taken < Pieces \/ ctx = "done")
  \/ main = "write" /\ read = taken
  \/ main = "drain" /\ scanner = "sent"

ScannerCan == scanner = "scanning" /\ (main = "drain" \/ (main = "write" /\ read < taken))

(* As long as Select has not returned, one of the two can go on.           *)
NobodyWaitsForEver ==
  (stream # "open" \/ ctx = "done") /\ long = {} => main \in Ended \/ MainCan \/ ScannerCan

LEMMA TwoForOne ==
  ASSUME NEW n \in Nat, NEW t \in 0..n, NEW u \in (t + 1)..n, NEW r \in 0..t, NEW k \in Nat
  PROVE  2 * (n - u) + (n - r) + (k + 1) < 2 * (n - t) + (n - r) + k
OBVIOUS

LEMMA StepsLeftStep == IInv /\ [Next]_vars => StepsLeft' < StepsLeft \/ UNCHANGED vars
<1> SUFFICES ASSUME IInv, Next
             PROVE  StepsLeft' < StepsLeft
  OBVIOUS
<1>1. Pieces \in Nat /\ taken \in 0..Pieces /\ read \in 0..taken
  BY LinesAssumption DEF IInv, TypeOK, Pieces
<1>2. TurnsLeft \in Nat /\ TurnsLeft' \in Nat
  BY DEF TurnsLeft, Left
<1>3. ASSUME taken' = taken, \/ read' = read /\ TurnsLeft' < TurnsLeft
                             \/ read' = read + 1 /\ TurnsLeft' <= TurnsLeft
      PROVE  StepsLeft' < StepsLeft
  BY <1>1, <1>2, <1>3 DEF StepsLeft
<1>4. CASE Records
  <2>1. taken' \in (taken + 1)..Pieces /\ read' = read
    BY <1>4 DEF Records
  <2>2. TurnsLeft' = TurnsLeft + 1
    BY <1>4 DEF Records, TurnsLeft, Left, Ended
  <2>3. 2 * (Pieces - taken') + (Pieces - read) + (TurnsLeft + 1)
          < 2 * (Pieces - taken) + (Pieces - read) + TurnsLeft
    BY <1>1, <1>2, <2>1, TwoForOne
  <2> QED
    BY <2>1, <2>2, <2>3 DEF StepsLeft
<1>5. CASE Scan
  BY <1>2, <1>3, <1>5 DEF Scan, TurnsLeft
<1>6. CASE TooLong
  <2>1. TurnsLeft' < TurnsLeft
    BY <1>6 DEF TooLong, Readable, TurnsLeft, Left
  <2> QED
    BY <1>2, <1>3, <1>6, <2>1 DEF TooLong
<1>7. CASE EndOfPipe
  <2>1. TurnsLeft' < TurnsLeft
    BY <1>7 DEF EndOfPipe, TurnsLeft, Left, Ended
  <2> QED
    BY <1>3, <1>7, <2>1 DEF EndOfPipe
<1>8. CASE Written \/ EventsClosed \/ Cancelled \/ Return
  <2>1. TurnsLeft' < TurnsLeft
    BY <1>8 DEF Written, EventsClosed, Cancelled, Return, TurnsLeft, Left, Ended
  <2> QED
    BY <1>3, <1>8, <2>1 DEF Written, EventsClosed, Cancelled, Return
<1>9. CASE StreamEnds \/ StreamBreaks \/ ContextDone
  <2>1. TurnsLeft' < TurnsLeft
    BY <1>9 DEF StreamEnds, StreamBreaks, ContextDone, TurnsLeft, Left
  <2> QED
    BY <1>3, <1>9, <2>1 DEF StreamEnds, StreamBreaks, ContextDone
<1> QED
  BY <1>4, <1>5, <1>6, <1>7, <1>8, <1>9 DEF Next, Main, Scanner

(* Select, its goroutine and the stream together make a bounded number of  *)
(* steps: each uses up one of finitely many.                               *)
THEOREM StepsRunOut == Spec => [](StepsLeft \in Nat) /\ [][StepsLeft' < StepsLeft]_vars
<1>1. IInv => StepsLeft \in Nat
  BY LinesAssumption DEF IInv, TypeOK, Pieces, StepsLeft, TurnsLeft, Left
<1>2. IInv /\ [Next]_vars => [StepsLeft' < StepsLeft]_vars
  BY StepsLeftStep
<1> QED
  BY <1>1, <1>2, Inductive, PTL DEF Spec

(* No deadlock of Select and its goroutine around the pipe, for any number *)
(* of lines, when the stream or the context has ended and no line is too   *)
(* long: neither the write nor the wait for the results is for ever.       *)
THEOREM NoDeadlock == Spec => []NobodyWaitsForEver
<1>1. IInv => NobodyWaitsForEver
  BY LinesAssumption
  DEF IInv, TypeOK, PipeIsDrained, ScannerStops, MainState, ScannerState, Ended, Line,
      NobodyWaitsForEver, MainCan, ScannerCan
<1> QED
  BY <1>1, Inductive, PTL
=============================================================================
