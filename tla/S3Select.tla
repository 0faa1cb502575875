------------------------------ MODULE S3Select ------------------------------
(***************************************************************************)
(* Select in s3select.go: the caller's goroutine takes events from the S3  *)
(* Select stream and writes their payloads to an io.Pipe, a second one     *)
(* scans the pipe line by line and sends all entries at once when it has   *)
(* seen the end.                                                           *)
(*                                                                         *)
(* A line is two pieces, the second of which ends in the delimiter: the    *)
(* boundaries of events and of lines have nothing to do with each other.   *)
(* Piece k belongs to line (k + 1) \div 2.                                 *)
(***************************************************************************)
EXTENDS Naturals

CONSTANT Lines    \* lines that the query selects

ASSUME LinesAssumption == Lines \in Nat

Pieces == 2 * Lines

VARIABLES
  long,     \* lines longer than bufio.MaxScanTokenSize
  stream,   \* the event stream: "open", "ended", or "broken" by an error
  ctx,      \* the caller's context: "live" or "done"
  main,     \* where Select stands
  scanner,  \* where its goroutine stands
  taken,    \* pieces in the events that Select has taken
  read,     \* pieces that the scanner has read from the pipe
  entries   \* lines that the scanner has decoded

vars == <<long, stream, ctx, main, scanner, taken, read, entries>>

-----------------------------------------------------------------------------
Ended == {"returned", "cancelled", "crashed"}
MainState == {"select", "write", "drain"} \union Ended
ScannerState == {"scanning", "sent"}

Init ==
  /\ long \in SUBSET (1..Lines)
  /\ stream = "open"
  /\ ctx = "live"
  /\ main = "select"
  /\ scanner = "scanning"
  /\ taken = 0
  /\ read = 0
  /\ entries = 0

-----------------------------------------------------------------------------
(* The stream and the context.                                             *)

StreamEnds ==
  /\ stream = "open"
  /\ taken = Pieces
  /\ stream' = "ended"
  /\ UNCHANGED <<long, ctx, main, scanner, taken, read, entries>>

(* The connection is lost. The events channel is closed all the same, and  *)
(* nobody asks stream.Err() why.                                           *)
StreamBreaks ==
  /\ stream = "open"
  /\ stream' = "broken"
  /\ UNCHANGED <<long, ctx, main, scanner, taken, read, entries>>

ContextDone ==
  /\ ctx = "live"
  /\ ctx' = "done"
  /\ UNCHANGED <<long, stream, main, scanner, taken, read, entries>>

-----------------------------------------------------------------------------
(* Select.                                                                 *)

(* Mutant: the last payload may be an event that is not Records.           *)
RecordsAndMore ==
  /\ main = "select"
  /\ stream = "open"
  /\ taken' \in (taken + 1)..(Pieces + 1)
  /\ main' = "write"
  /\ UNCHANGED <<long, stream, ctx, scanner, read, entries>>

(* A Records event: pw.Write. The other events change nothing.             *)
Records ==
  /\ main = "select"
  /\ stream = "open"
  /\ taken' \in (taken + 1)..Pieces
  /\ main' = "write"
  /\ UNCHANGED <<long, stream, ctx, scanner, read, entries>>

(* pw.Write returns when the reader has taken all of the payload; it does  *)
(* not look at ctx, and nobody closes pr.                                  *)
Written ==
  /\ main = "write"
  /\ read = taken
  /\ main' = "select"
  /\ UNCHANGED <<long, stream, ctx, scanner, taken, read, entries>>

(* The events channel is closed: pw.Close, then the wait for resultsch.    *)
EventsClosed ==
  /\ main = "select"
  /\ stream # "open"
  /\ main' = "drain"
  /\ UNCHANGED <<long, stream, ctx, scanner, taken, read, entries>>

(* Mutant: there is no case for ctx.Done().                                *)
CancelledUnseen ==
  /\ main = "select"
  /\ ctx = "done" /\ stream # "open"
  /\ main' = "cancelled"
  /\ UNCHANGED <<long, stream, ctx, scanner, taken, read, entries>>

(* pw stays open.                                                          *)
Cancelled ==
  /\ main = "select"
  /\ ctx = "done"
  /\ main' = "cancelled"
  /\ UNCHANGED <<long, stream, ctx, scanner, taken, read, entries>>

Return ==
  /\ main = "drain"
  /\ scanner = "sent"
  /\ main' = "returned"
  /\ UNCHANGED <<long, stream, ctx, scanner, taken, read, entries>>

-----------------------------------------------------------------------------
(* The goroutine.                                                          *)

Readable == scanner = "scanning" /\ main = "write" /\ read < taken
Line == read \div 2 + 1
LineEnds == read % 2 = 1

(* A piece of a line; a whole line is unmarshalled.                        *)
Scan ==
  /\ Readable
  /\ LineEnds => Line \notin long
  /\ read' = read + 1
  /\ entries' = IF LineEnds THEN entries + 1 ELSE entries
  /\ UNCHANGED <<long, stream, ctx, main, scanner, taken>>

(* Mutant: a line that two events share stops the scanner.                 *)
TooLongOrSplit ==
  /\ Readable
  /\ Line \in long \/ (~LineEnds /\ read + 1 = taken)
  /\ scanner' = "sent"
  /\ read' \in (IF LineEnds THEN {read} ELSE {read, read + 1})
  /\ UNCHANGED <<long, stream, ctx, main, taken, entries>>

(* Mutant: a line that is too long is read and dropped.                    *)
TooLongDropped ==
  /\ Readable
  /\ ~LineEnds /\ Line \in long
  /\ read + 2 <= taken
  /\ read' = read + 2
  /\ UNCHANGED <<long, stream, ctx, main, scanner, taken, entries>>

(* The buffer is full before the line ends, in either of its pieces: Scan  *)
(* returns false, and scan.Err() is not looked at. The payload may end at  *)
(* just that byte, but not if the delimiter is still to come in it.        *)
TooLong ==
  /\ Readable
  /\ Line \in long
  /\ scanner' = "sent"
  /\ read' \in (IF LineEnds THEN {read} ELSE {read, read + 1})
  /\ UNCHANGED <<long, stream, ctx, main, taken, entries>>

(* Mutant: pw.Close is deferred, so that a cancelled call closes the pipe. *)
EndOfPipeWhenCancelled ==
  /\ scanner = "scanning"
  /\ main \in {"drain", "cancelled"}
  /\ IF LineEnds THEN main' = "crashed" /\ UNCHANGED scanner
                 ELSE scanner' = "sent" /\ UNCHANGED main
  /\ UNCHANGED <<long, stream, ctx, taken, read, entries>>

(* Mutant: the pipe is not closed when the stream has broken.              *)
EndOfPipeUnlessBroken ==
  /\ scanner = "scanning"
  /\ main = "drain"
  /\ stream = "ended"
  /\ scanner' = "sent"
  /\ UNCHANGED <<long, stream, ctx, main, taken, read, entries>>

(* The end of the pipe. What is left of a line is a line to the scanner;   *)
(* it is no JSON document, and the goroutine's panic ends the process.     *)
EndOfPipe ==
  /\ scanner = "scanning"
  /\ main = "drain"
  /\ IF LineEnds THEN main' = "crashed" /\ UNCHANGED scanner
                 ELSE scanner' = "sent" /\ UNCHANGED main
  /\ UNCHANGED <<long, stream, ctx, taken, read, entries>>

-----------------------------------------------------------------------------
Main == Records \/ Written \/ EventsClosed \/ Cancelled \/ Return
Scanner == Scan \/ TooLong \/ EndOfPipe

Next == Main \/ Scanner \/ StreamEnds \/ StreamBreaks \/ ContextDone

Spec == Init /\ [][Next]_vars

(* The Go scheduler runs both goroutines. S3 may be silent for ever.       *)
FairSpec == Spec /\ WF_vars(Main) /\ WF_vars(Scanner)

-----------------------------------------------------------------------------
TypeOK ==
  /\ long \subseteq 1..Lines
  /\ stream \in {"open", "ended", "broken"}
  /\ ctx \in {"live", "done"}
  /\ main \in MainState
  /\ scanner \in ScannerState
  /\ taken \in 0..Pieces
  /\ read \in 0..taken
  /\ entries \in 0..Lines

(* Select never returns fewer lines than it has received, although it      *)
(* checks neither scan.Err() nor stream.Err(): what follows a line that is *)
(* too long blocks it, and half a line panics. Only a stream that breaks   *)
(* between two lines, or within one that is too long, is taken for whole.  *)
ReturnsWhatItReceived ==
  main = "returned" =>
    /\ entries = taken \div 2
    /\ stream = "ended" => entries = Lines

(* A write that can never return is the fault of a line that is too long.  *)
StuckOnlyByLongLine ==
  main = "write" /\ scanner = "sent" /\ read < taken => Line \in long

(* The goroutine's panic (s3select.go:47), which ends the process with all *)
(* that goes on in it, needs half a line at the end of the pipe: a stream  *)
(* that has broken. However events divide the lines, neither a stream that *)
(* has ended nor a call that takes ctx.Done() between two events causes it *)
(* (but a cancellation may break the stream, and the select see only that).*)
PanicsOnlyWhenBroken == main = "crashed" => stream = "broken"

(* Without such a line the call ends once the stream does.                 *)
EndsWithStream == stream # "open" /\ long = {} ~> main \in Ended

(* Without such a line the call ends once the context is done, even if the *)
(* stream is silent.                                                       *)
EndsWithContext == ctx = "done" /\ long = {} ~> main \in Ended
=============================================================================
