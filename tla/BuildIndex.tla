----------------------------- MODULE BuildIndex -----------------------------
(***************************************************************************)
(* BuildIndex in targzi.go: a goroutine of os/exec copies the blob to the  *)
(* standard input of gztool, gztool writes the gzip index and passes the   *)
(* decompressed blob on to its standard output, and BuildIndex reads the   *)
(* tar file from there, up to the end of the archive, before it waits for  *)
(* gztool.                                                                 *)
(*                                                                         *)
(* Compression does not matter here: the blob, its decompressed form and   *)
(* the contents of a pipe are counted in blocks. Body blocks hold the      *)
(* archive and its end marker, if it has one, tail blocks are what follows *)
(* the marker (padding of the tar file to its record size, or anything     *)
(* else). A tar reader that comes to the end of its input does not always  *)
(* complain: at a seam it takes it for the end of the archive.             *)
(***************************************************************************)
EXTENDS Naturals

CONSTANTS
  Body,       \* blocks of the archive
  MaxTail,    \* blocks after its end
  Capacity    \* blocks that a pipe of the operating system holds

ASSUME BodyAssumption == Body \in Nat \ {0}
ASSUME MaxTailAssumption == MaxTail \in Nat
ASSUME CapacityAssumption == Capacity \in Nat \ {0}

VARIABLES
  tail,     \* blocks of the blob after the archive
  seams,    \* blocks of the archive after which its input may end unnoticed
  blob,     \* the download: "open", "ended", or "broken" by an error
  fed,      \* blocks that the copier has taken from the blob
  stdin,    \* blocks in gztool's standard input
  copier,   \* the copier: "copying", "done", or "failed" with an error to report
  gztool,   \* the process: "running", or its exit status, "zero" or "nonzero"
  passed,   \* blocks that gztool has read, decompressed and passed on
  stdout,   \* blocks in gztool's standard output
  main      \* where BuildIndex stands

vars == <<tail, seams, blob, fed, stdin, copier, gztool, passed, stdout, main>>

-----------------------------------------------------------------------------
Size == Body + tail
Exited == gztool # "running"

(* What the tar reader has taken from the pipe.                            *)
taken == passed - stdout

(* Before a header, in the padding before it, between the two blocks of    *)
(* the end marker; and behind the archive, if it has no end marker.        *)
Seams == {ends \in SUBSET (0..Body) : 0 \in ends}

Returned == {"tarError", "waitError", "indexError", "indexed"}
MainState == {"next", "wait"} \union Returned

Init ==
  /\ tail \in 0..MaxTail
  /\ seams \in Seams
  /\ Body \in seams => tail = 0
  /\ blob = "open"
  /\ fed = 0
  /\ stdin = 0
  /\ copier = "copying"
  /\ gztool = "running"
  /\ passed = 0
  /\ stdout = 0
  /\ main = "next"

-----------------------------------------------------------------------------
(* The download. Whatever else ends it, the handler's context or the       *)
(* registry, is an error of Read.                                          *)

BlobEnds ==
  /\ blob = "open" /\ fed = Size
  /\ blob' = "ended"
  /\ UNCHANGED <<tail, seams, fed, stdin, copier, gztool, passed, stdout, main>>

BlobBreaks ==
  /\ blob = "open"
  /\ blob' = "broken"
  /\ UNCHANGED <<tail, seams, fed, stdin, copier, gztool, passed, stdout, main>>

-----------------------------------------------------------------------------
(* The copier: io.Copy from the blob to gztool's standard input, which it  *)
(* closes at the end.                                                      *)

Copy ==
  /\ copier = "copying" /\ ~Exited
  /\ blob = "open" /\ fed < Size
  /\ stdin < Capacity
  /\ fed' = fed + 1
  /\ stdin' = stdin + 1
  /\ UNCHANGED <<tail, seams, blob, copier, gztool, passed, stdout, main>>

(* Mutant: after an error of the download the input is not closed.         *)
CopyEndsUnlessBroken ==
  /\ copier = "copying"
  /\ blob = "ended"
  /\ copier' = "done"
  /\ UNCHANGED <<tail, seams, blob, fed, stdin, gztool, passed, stdout, main>>

CopyEnds ==
  /\ copier = "copying"
  /\ blob # "open"
  /\ copier' = IF blob = "broken" THEN "failed" ELSE "done"
  /\ UNCHANGED <<tail, seams, blob, fed, stdin, gztool, passed, stdout, main>>

(* The write fails because gztool is gone, which is no error to os/exec.   *)
CopyAbandoned ==
  /\ copier = "copying" /\ Exited
  /\ blob = "open" /\ fed < Size
  /\ copier' = "done"
  /\ UNCHANGED <<tail, seams, blob, fed, stdin, gztool, passed, stdout, main>>

-----------------------------------------------------------------------------
(* gztool.                                                                 *)

Pass ==
  /\ ~Exited
  /\ stdin > 0 /\ stdout < Capacity
  /\ stdin' = stdin - 1
  /\ passed' = passed + 1
  /\ stdout' = stdout + 1
  /\ UNCHANGED <<tail, seams, blob, fed, copier, gztool, main>>

(* The end of its input: status 0, or not if the blob is incomplete.       *)
GztoolEnds ==
  /\ ~Exited
  /\ stdin = 0 /\ copier # "copying"
  /\ gztool' \in (IF copier = "done" THEN {"zero"} ELSE {"zero", "nonzero"})
  /\ UNCHANGED <<tail, seams, blob, fed, stdin, copier, passed, stdout, main>>

(* The blob is not what it should be, or the process is killed.            *)
GztoolFails ==
  /\ ~Exited
  /\ gztool' = "nonzero"
  /\ UNCHANGED <<tail, seams, blob, fed, stdin, copier, passed, stdout, main>>

-----------------------------------------------------------------------------
(* BuildIndex.                                                             *)

(* Mutant: the first block of the end marker ends the archive.             *)
ReadTarButOne ==
  /\ main = "next"
  /\ stdout > 0
  /\ stdout' = stdout - 1
  /\ main' = IF taken + 2 >= Body /\ Body \notin seams THEN "wait" ELSE "next"
  /\ UNCHANGED <<tail, seams, blob, fed, stdin, copier, gztool, passed>>

(* tr.Next reads on, to the end marker and no further.                     *)
ReadTar ==
  /\ main = "next"
  /\ stdout > 0
  /\ stdout' = stdout - 1
  /\ main' = IF taken + 1 = Body /\ Body \notin seams THEN "wait" ELSE "next"
  /\ UNCHANGED <<tail, seams, blob, fed, stdin, copier, gztool, passed>>

(* gztool's output ends at a seam, even before anything came: tr.Next      *)
(* returns io.EOF as it does at the end marker, and the loop ends.         *)
EndOfOutput ==
  /\ main = "next"
  /\ stdout = 0 /\ Exited
  /\ taken \in seams
  /\ main' = "wait"
  /\ UNCHANGED <<tail, seams, blob, fed, stdin, copier, gztool, passed, stdout>>

(* A malformed header, or an output that ends elsewhere, within a block    *)
(* perhaps: BuildIndex returns without cmd.Wait.                           *)
TarError ==
  /\ main = "next"
  /\ taken < Body
  /\ stdout > 0 \/ Exited
  /\ main' = "tarError"
  /\ UNCHANGED <<tail, seams, blob, fed, stdin, copier, gztool, passed, stdout>>

(* Mutant: only the exit status is looked at.                              *)
WaitForStatusOnly ==
  /\ main = "wait"
  /\ Exited /\ copier # "copying"
  /\ main' \in (IF gztool = "zero" THEN {"indexed", "indexError"} ELSE {"waitError"})
  /\ UNCHANGED <<tail, seams, blob, fed, stdin, copier, gztool, passed, stdout>>

(* cmd.Wait waits for the process, then for the copier; an exit status     *)
(* other than 0, or else the copier's error, is its result. What follows   *)
(* it, Spans and the writing of the file index, may fail on its own.       *)
Wait ==
  /\ main = "wait"
  /\ Exited /\ copier # "copying"
  /\ main' \in (IF gztool = "zero" /\ copier = "done" THEN {"indexed", "indexError"}
                                                     ELSE {"waitError"})
  /\ UNCHANGED <<tail, seams, blob, fed, stdin, copier, gztool, passed, stdout>>

-----------------------------------------------------------------------------
Blob == BlobEnds \/ BlobBreaks
Copier == Copy \/ CopyEnds \/ CopyAbandoned
Gztool == Pass \/ GztoolEnds
Main == ReadTar \/ EndOfOutput \/ TarError \/ Wait

Next == Blob \/ Copier \/ Gztool \/ GztoolFails \/ Main

Spec == Init /\ [][Next]_vars

(* The goroutines and the process run. The registry may be silent for ever *)
(* (until the Lambda timeout, that is).                                    *)
FairSpec == Spec /\ WF_vars(Copier) /\ WF_vars(Gztool) /\ WF_vars(Main)

-----------------------------------------------------------------------------
TypeOK ==
  /\ tail \in 0..MaxTail
  /\ seams \in SUBSET (0..Body)
  /\ blob \in {"open", "ended", "broken"}
  /\ fed \in 0..Size
  /\ stdin \in 0..Capacity
  /\ copier \in {"copying", "done", "failed"}
  /\ gztool \in {"running", "zero", "nonzero"}
  /\ passed \in 0..fed
  /\ stdout \in 0..Capacity
  /\ main \in MainState

(* An index that is stored is the index of the whole blob: gztool has seen *)
(* every block of it, the download did not break, not even behind the end  *)
(* of the archive, and the tar reader has read all of the archive. The tar *)
(* reader does not see to this, since an archive that is cut at a seam     *)
(* looks whole to it: only what cmd.Wait says after the loop does.         *)
IndexCoversBlob ==
  main = "indexed" => blob = "ended" /\ passed = Size /\ taken = Body

(* cmd.Wait is called before gztool's output has been read to its end. It  *)
(* deadlocks with gztool, whose output nobody reads any more, but only if  *)
(* more follows the archive than the pipe holds.                           *)
StuckOnlyByTail ==
  main = "wait" /\ ~Exited /\ stdin > 0 /\ stdout = Capacity => tail > Capacity

(* Otherwise BuildIndex returns once the download has ended, in any way.   *)
EndsUnlessLongTail ==
  blob # "open" /\ tail <= Capacity ~> main \in Returned

(* The return that does not wait (targzi.go:153) leaves gztool and the     *)
(* copier to themselves. They end on their own once the download has       *)
(* ended, if what the tar reader has not taken fits in the pipe; otherwise *)
(* they may stay in the environment, each waiting for the next.            *)
LeftBehindOnlyByLongRest ==
  main = "tarError" /\ blob # "open" /\ Size - taken <= Capacity
    ~> Exited /\ copier # "copying"
=============================================================================
