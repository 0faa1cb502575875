----------------------------- MODULE FileRange -----------------------------
(***************************************************************************)
(* From an entry of a layer's tar file to the bytes of the blob that its   *)
(* contents are extracted from: BuildIndex attaches to the entry the spans *)
(* of the gzip index that it lies in, /api/file asks the registry for the  *)
(* range from the first span to the end of the last one.                   *)
(*                                                                         *)
(* The gzip index is a list of access points: decompression may start at   *)
(* byte Compressed of the blob (counted from 1, as gztool does) and yields *)
(* the bytes from Uncompressed on. The first one is the beginning of the   *)
(* data, after the gzip header. A span reaches to the next access point.   *)
(***************************************************************************)
EXTENDS Integers, FiniteSetsExt

CONSTANTS
  MaxSpans,    \* spans of a gzip index
  MaxOffset,   \* where the last entry ends at most, uncompressed
  MaxByte      \* where the last span begins at most, compressed

ASSUME MaxSpansAssumption == MaxSpans \in Nat \ {0}
ASSUME MaxOffsetAssumption == MaxOffset \in Nat
ASSUME MaxByteAssumption == MaxByte \in Nat

VARIABLES
  spans,    \* the index: spans[i] has Number i
  entry,    \* the entry: Offset and Size
  numbers,  \* the entry's Spans
  range,    \* the Range header: first and last byte, counted from 0
  pc        \* "build", "serve", "done" or "panicked"

vars == <<spans, entry, numbers, range, pc>>

-----------------------------------------------------------------------------
IndexSpan == [Uncompressed : 0..MaxOffset, Compressed : 1..MaxByte]

Ascending(ss) ==
  /\ ss[1].Uncompressed = 0
  /\ \A i, j \in DOMAIN ss : i < j =>
       /\ ss[i].Uncompressed < ss[j].Uncompressed
       /\ ss[i].Compressed < ss[j].Compressed

(* A range without a last byte goes to the end of the blob.                *)
ToTheEnd == -1
NoRange == [first |-> -1, last |-> -1]

Init ==
  /\ spans \in {ss \in UNION {[1..n -> IndexSpan] : n \in 1..MaxSpans} : Ascending(ss)}
  /\ entry \in {e \in [Offset : 0..MaxOffset, Size : 0..MaxOffset] :
                  e.Offset + e.Size <= MaxOffset}
  /\ numbers = {}
  /\ range = NoRange
  /\ pc = "build"

-----------------------------------------------------------------------------
Last == CHOOSE n \in 1..MaxSpans : DOMAIN spans = 1..n

(* The spans sorted by Uncompressed, the last one first.                   *)
Sorted(i) == spans[Last - i]

(* Mutant: > instead of >=.                                                *)
SearchAfter(offset) ==
  LET found == {i \in 0..Last - 1 : offset > Sorted(i).Uncompressed}
  IN IF found = {} THEN Last ELSE Min(found)

(* sort.Search: the least index for which an ascending test is true, here  *)
(* that of the last span that begins at or before the offset.              *)
Search(offset) ==
  LET found == {i \in 0..Last - 1 : offset >= Sorted(i).Uncompressed}
  IN IF found = {} THEN Last ELSE Min(found)

(* Mutant: the loop goes from the first span to the last one, as if the    *)
(* spans were not sorted the other way round.                              *)
AttachSpansForwards ==
  LET firstSpan == Search(entry.Offset)
      lastSpan == Search(entry.Offset + entry.Size)
  IN
  /\ pc = "build"
  /\ IF firstSpan = Last
       THEN pc' = "panicked" /\ UNCHANGED numbers
       ELSE pc' = "serve" /\ numbers' = {Last - i : i \in firstSpan..lastSpan}
  /\ UNCHANGED <<spans, entry, range>>

(* spans[idx] panics if nothing is found.                                  *)
AttachSpans ==
  LET firstSpan == Search(entry.Offset)
      lastSpan == Search(entry.Offset + entry.Size)
  IN
  /\ pc = "build"
  /\ IF firstSpan = Last
       THEN pc' = "panicked" /\ UNCHANGED numbers
       ELSE pc' = "serve" /\ numbers' = {Last - i : i \in lastSpan..firstSpan}
  /\ UNCHANGED <<spans, entry, range>>

(* Mutant: the range ends where its last span begins.                      *)
RangeOfLastSpan ==
  [first |-> spans[Min(numbers)].Compressed - 1,
   last |-> spans[Max(numbers)].Compressed]

RangeOf ==
  [first |-> spans[Min(numbers)].Compressed - 1,
   last |-> IF Max(numbers) < Last THEN spans[Max(numbers) + 1].Compressed ELSE ToTheEnd]

(* An entry without spans panics.                                          *)
HandleFileContents ==
  /\ pc = "serve"
  /\ IF numbers = {} THEN pc' = "panicked" /\ UNCHANGED range
                     ELSE pc' = "done" /\ range' = RangeOf
  /\ UNCHANGED <<spans, entry, numbers>>

Next == AttachSpans \/ HandleFileContents

Spec == Init /\ [][Next]_vars

-----------------------------------------------------------------------------
(* What gztool needs: decompression starts at the last access point at or  *)
(* before the entry (and the byte before, which it may share), and goes on *)
(* to the first access point at or behind the entry's end.                 *)
UncompressedEnd(i) == IF i < Last THEN spans[i + 1].Uncompressed ELSE MaxOffset + 1

Holds(i, offset) == spans[i].Uncompressed <= offset /\ offset < UncompressedEnd(i)

Needed == {i \in 1..Last : \E offset \in entry.Offset..(entry.Offset + entry.Size - 1) :
                            Holds(i, offset)}

TypeOK ==
  /\ numbers \subseteq 1..Last
  /\ range \in [first : 0..MaxByte, last : 0..MaxByte \union {ToTheEnd}] \union {NoRange}
  /\ pc \in {"build", "serve", "done", "panicked"}

(* In an index whose first access point is the beginning of the data, the  *)
(* search finds a span for any entry, empty or not, and a request for its  *)
(* contents has a span to begin with: neither of them panics.              *)
NeverPanics == pc # "panicked"

(* The entry's spans hold all of its bytes, and at most one span is read   *)
(* in vain, the one that begins where the entry ends.                      *)
SpansAreTight ==
  pc # "build" =>
    /\ Needed \subseteq numbers
    /\ \A i \in numbers \ Needed : Holds(i, entry.Offset + entry.Size)

(* The range that is asked for starts with the byte before the access      *)
(* point of the entry's first byte and has all compressed bytes of all     *)
(* spans that hold the entry.                                              *)
RangeCoversEntry ==
  pc = "done" =>
    \A i \in 1..Last :
      /\ Holds(i, entry.Offset) => range.first = spans[i].Compressed - 1
      /\ i \in Needed =>
           \/ range.last = ToTheEnd
           \/ i < Last /\ spans[i + 1].Compressed - 1 <= range.last
=============================================================================
