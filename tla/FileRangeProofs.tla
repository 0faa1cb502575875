-------------------------- MODULE FileRangeProofs --------------------------
(***************************************************************************)
(* Proofs about FileRange, for a gzip index with any number of spans, and  *)
(* files of any size.                                                      *)
(***************************************************************************)
EXTENDS FileRange, WellFoundedInduction, TLAPS

-----------------------------------------------------------------------------
(* The index and the entry never change.                                   *)
Inputs ==
  /\ spans \in UNION {[1..n -> IndexSpan] : n \in 1..MaxSpans}
  /\ Ascending(spans)
  /\ entry \in [Offset : 0..MaxOffset, Size : 0..MaxOffset]
  /\ entry.Offset + entry.Size <= MaxOffset

(* The number of the span that the search finds.                           *)
SpanOf(offset) == Last - Search(offset)

FirstSpan == SpanOf(entry.Offset)
LastSpan == SpanOf(entry.Offset + entry.Size)

IInv ==
  /\ Inputs
  /\ pc \in {"build", "serve", "done"}
  /\ pc = "build" => numbers = {}
  /\ pc # "build" => numbers = FirstSpan..LastSpan
  /\ range = IF pc = "done" THEN RangeOf ELSE NoRange

-----------------------------------------------------------------------------
(* A set of numbers that is not empty has a least one.                     *)
LEMMA MinFacts ==
  ASSUME NEW S, S \subseteq Nat, S # {}
  PROVE  Min(S) \in S /\ \A y \in S : Min(S) <= y
<1> DEFINE R == {ss \in Nat \X Nat : ss[1] < ss[2]}
<1>0. IsWellFoundedOn(R, Nat)
  BY NatLessThanWellFounded DEF OpToRel
<1> HIDE DEF R
<1>1. PICK x \in S : \A y \in S : ~(<<y, x>> \in R)
  BY <1>0, WFMin
<1>2. ASSUME NEW y \in S PROVE x <= y
  <2>1. x \in Nat /\ y \in Nat /\ <<y, x>> \notin R
    BY <1>1
  <2>2. <<y, x>> \in Nat \X Nat
    BY <2>1
  <2>3. ~(y < x)
    BY <2>1, <2>2 DEF R
  <2> QED
    BY <2>1, <2>3
<1> QED
  BY <1>2 DEF Min

(* The least and the greatest number of an interval are its ends.          *)
LEMMA IntervalEnds ==
  ASSUME NEW a \in Int, NEW b \in Int, a <= b
  PROVE  Min(a..b) = a /\ Max(a..b) = b
<1>1. a \in a..b /\ \A y \in a..b : a <= y
  OBVIOUS
<1>2. b \in a..b /\ \A y \in a..b : y <= b
  OBVIOUS
<1>3. \A x \in a..b : (\A y \in a..b : x <= y) => x = a
  BY <1>1
<1>4. \A x \in a..b : (\A y \in a..b : x >= y) => x = b
  BY <1>2
<1>5. Min(a..b) = a
  BY <1>1, <1>3 DEF Min
<1>6. Max(a..b) = b
  BY <1>2, <1>4 DEF Max
<1> QED
  BY <1>5, <1>6

(* The spans are numbered from 1 to Last, and ascend.                      *)
LEMMA SpansFacts ==
  ASSUME Inputs
  PROVE  /\ Last \in 1..MaxSpans /\ Last \in Nat
         /\ spans \in [1..Last -> IndexSpan]
         /\ \A i \in 1..Last : /\ spans[i].Uncompressed \in 0..MaxOffset
                               /\ spans[i].Compressed \in 1..MaxByte
         /\ spans[1].Uncompressed = 0
         /\ \A i, j \in 1..Last : i < j => /\ spans[i].Uncompressed < spans[j].Uncompressed
                                           /\ spans[i].Compressed < spans[j].Compressed
<1>1. PICK n \in 1..MaxSpans : spans \in [1..n -> IndexSpan]
  BY DEF Inputs
<1>2. \A m \in 1..MaxSpans : DOMAIN spans = 1..m => m = n
  BY <1>1, MaxSpansAssumption
<1>3. Last = n
  BY <1>1, <1>2 DEF Last
<1>4. n \in Nat
  BY MaxSpansAssumption
<1>5. \A i \in 1..n : spans[i] \in IndexSpan
  BY <1>1
<1> QED
  BY <1>1, <1>3, <1>4, <1>5 DEF Inputs, Ascending, IndexSpan

(* The search finds the span that holds the byte at the offset.            *)
LEMMA SearchFinds ==
  ASSUME Inputs, NEW offset \in 0..MaxOffset
  PROVE  /\ Search(offset) \in 0..(Last - 1)
         /\ SpanOf(offset) \in 1..Last
         /\ Holds(SpanOf(offset), offset)
<1> DEFINE found == {i \in 0..Last - 1 : offset >= Sorted(i).Uncompressed}
<1>1. Last \in Nat \ {0} /\ MaxOffset \in Nat
  BY SpansFacts, MaxOffsetAssumption
<1>2. Last - 1 \in found
  BY <1>1, SpansFacts DEF Sorted
<1>3. found \subseteq Nat /\ found # {}
  BY <1>1, <1>2
<1> DEFINE s == Min(found)
<1>4. s \in found /\ \A y \in found : s <= y
  BY <1>3, MinFacts
<1>5. Search(offset) = s
  BY <1>3 DEF Search
<1> HIDE DEF s
<1>6. s \in 0..(Last - 1) /\ Last - s \in 1..Last /\ spans[Last - s].Uncompressed <= offset
  <2>1. s \in 0..(Last - 1) /\ offset >= Sorted(s).Uncompressed
    BY <1>4
  <2>2. Last - s \in 1..Last
    BY <1>1, <2>1
  <2>3. spans[Last - s].Uncompressed \in Int
    BY <2>2, SpansFacts
  <2> QED
    BY <1>1, <2>1, <2>2, <2>3 DEF Sorted
<1>7. offset < UncompressedEnd(Last - s)
  <2>1. CASE Last - s < Last
    <3>1. s - 1 \in 0..(Last - 1) /\ s - 1 \notin found /\ Last - s + 1 \in 1..Last
      BY <1>1, <1>4, <1>6, <2>1
    <3>2. ~(offset >= spans[Last - (s - 1)].Uncompressed)
      BY <3>1 DEF Sorted
    <3>3. Last - (s - 1) = Last - s + 1
      BY <1>1, <1>6
    <3>4. spans[Last - s + 1].Uncompressed \in Int
      BY <3>1, SpansFacts
    <3> QED
      BY <2>1, <3>2, <3>3, <3>4 DEF UncompressedEnd
  <2>2. CASE ~(Last - s < Last)
    BY <1>1, <2>2 DEF UncompressedEnd
  <2> QED
    BY <2>1, <2>2
<1> QED
  BY <1>5, <1>6, <1>7 DEF SpanOf, Holds

(* Spans do not overlap.                                                   *)
LEMMA SpansApart ==
  ASSUME Inputs, NEW i \in 1..Last, NEW j \in 1..Last, NEW o \in Nat, NEW p \in Nat,
         Holds(i, o), Holds(j, p), o <= p
  PROVE  i <= j
<1> SUFFICES ASSUME j < i PROVE FALSE
  BY SpansFacts
<1>1. j + 1 \in 1..Last /\ j < Last /\ Last \in Nat
  BY SpansFacts
<1>2. p < spans[j + 1].Uncompressed
  BY <1>1 DEF Holds, UncompressedEnd
<1>3. spans[i].Uncompressed <= o
  BY DEF Holds
<1>4. spans[j + 1].Uncompressed <= spans[i].Uncompressed
  <2>1. CASE j + 1 = i
    BY <1>1, <2>1, SpansFacts
  <2>2. CASE j + 1 # i
    <3>1. j + 1 < i
      BY <1>1, <2>2
    <3> QED
      BY <1>1, <3>1, SpansFacts
  <2> QED
    BY <2>1, <2>2
<1>5. spans[j + 1].Uncompressed \in Int /\ spans[i].Uncompressed \in Int
  BY <1>1, SpansFacts
<1> QED
  BY <1>2, <1>3, <1>4, <1>5

(* The entry's spans are those from the one that holds its first byte to   *)
(* the one that holds the byte behind it.                                  *)
LEMMA EntrySpans ==
  ASSUME Inputs
  PROVE  /\ FirstSpan \in 1..Last /\ LastSpan \in 1..Last /\ FirstSpan <= LastSpan
         /\ Holds(FirstSpan, entry.Offset)
         /\ Holds(LastSpan, entry.Offset + entry.Size)
         /\ entry.Offset \in Nat /\ entry.Size \in Nat
<1>1. /\ entry.Offset \in 0..MaxOffset /\ entry.Offset + entry.Size \in 0..MaxOffset
      /\ entry.Offset \in Nat /\ entry.Size \in Nat
  BY MaxOffsetAssumption DEF Inputs
<1>2. /\ FirstSpan \in 1..Last /\ LastSpan \in 1..Last
      /\ Holds(FirstSpan, entry.Offset)
      /\ Holds(LastSpan, entry.Offset + entry.Size)
  BY <1>1, SearchFinds DEF FirstSpan, LastSpan
<1>3. FirstSpan <= LastSpan
  BY <1>1, <1>2, SpansApart
<1> QED
  BY <1>1, <1>2, <1>3

(* The numbers that AttachSpans collects.                                  *)
LEMMA AttachedSpans ==
  ASSUME Inputs
  PROVE  /\ Search(entry.Offset) # Last
         /\ {Last - i : i \in Search(entry.Offset + entry.Size)..Search(entry.Offset)}
              = FirstSpan..LastSpan
<1> DEFINE a == Search(entry.Offset)
           b == Search(entry.Offset + entry.Size)
<1>1. entry.Offset \in 0..MaxOffset /\ entry.Offset + entry.Size \in 0..MaxOffset
  BY MaxOffsetAssumption DEF Inputs
<1>2. a \in 0..(Last - 1) /\ b \in 0..(Last - 1) /\ Last \in Nat
  BY <1>1, SearchFinds, SpansFacts
<1>3. FirstSpan = Last - a /\ LastSpan = Last - b
  BY DEF FirstSpan, LastSpan, SpanOf
<1> HIDE DEF a, b
<1>4. {Last - i : i \in b..a} \subseteq FirstSpan..LastSpan
  BY <1>2, <1>3
<1>5. ASSUME NEW n \in FirstSpan..LastSpan PROVE n \in {Last - i : i \in b..a}
  <2>1. Last - n \in b..a /\ n = Last - (Last - n)
    BY <1>2, <1>3
  <2> QED
    BY <2>1
<1>6. {Last - i : i \in b..a} = FirstSpan..LastSpan
  BY <1>4, <1>5
<1>7. a # Last
  BY <1>2
<1> QED
  BY <1>6, <1>7 DEF a, b

-----------------------------------------------------------------------------
(* The invariant holds initially, and both steps keep it.                  *)
LEMMA IInvInit == Init => IInv
BY DEF Init, IInv, Inputs

LEMMA IInvStep == IInv /\ [Next]_vars => IInv'
<1> SUFFICES ASSUME IInv, [Next]_vars PROVE IInv'
  OBVIOUS
<1>1. Inputs
  BY DEF IInv
<1>2. CASE AttachSpans
  <2>1. /\ numbers' = FirstSpan..LastSpan /\ pc' = "serve"
        /\ UNCHANGED <<spans, entry, range>> /\ range = NoRange
    BY <1>1, <1>2, AttachedSpans DEF AttachSpans, IInv
  <2>2. Inputs' /\ FirstSpan' = FirstSpan /\ LastSpan' = LastSpan
    BY <1>1, <2>1 DEF Inputs, FirstSpan, LastSpan, SpanOf, Search, Sorted, Last
  <2> QED
    BY <2>1, <2>2 DEF IInv
<1>3. CASE HandleFileContents
  <2>1. numbers = FirstSpan..LastSpan /\ numbers # {}
    <3>1. numbers = FirstSpan..LastSpan
      BY <1>3 DEF HandleFileContents, IInv
    <3>2. FirstSpan \in FirstSpan..LastSpan
      BY <1>1, EntrySpans, SpansFacts
    <3> QED
      BY <3>1, <3>2
  <2>2. pc' = "done" /\ range' = RangeOf /\ UNCHANGED <<spans, entry, numbers>>
    BY <1>3, <2>1 DEF HandleFileContents
  <2>3. Inputs' /\ FirstSpan' = FirstSpan /\ LastSpan' = LastSpan /\ RangeOf' = RangeOf
    BY <1>1, <2>2 DEF Inputs, FirstSpan, LastSpan, SpanOf, Search, Sorted, Last, RangeOf
  <2> QED
    BY <2>1, <2>2, <2>3 DEF IInv
<1>4. CASE UNCHANGED vars
  BY <1>4 DEF vars, IInv, Inputs, FirstSpan, LastSpan, SpanOf, Search, Sorted, Last, RangeOf
<1> QED
  BY <1>2, <1>3, <1>4 DEF Next

(* The index and the entry stay, the entry's spans are those that the     *)
(* search finds, and the range is computed from them.                      *)
THEOREM Inductive == Spec => []IInv
BY IInvInit, IInvStep, PTL DEF Spec

-----------------------------------------------------------------------------
(* The least and the greatest of the entry's spans.                        *)
LEMMA NumbersEnds ==
  ASSUME IInv, pc # "build"
  PROVE  /\ Min(numbers) = FirstSpan /\ Max(numbers) = LastSpan
         /\ FirstSpan \in 1..Last /\ LastSpan \in 1..Last
         /\ numbers = FirstSpan..LastSpan
<1>1. numbers = FirstSpan..LastSpan /\ Inputs
  BY DEF IInv
<1>2. FirstSpan \in 1..Last /\ LastSpan \in 1..Last /\ FirstSpan <= LastSpan /\ Last \in Nat
  BY <1>1, EntrySpans, SpansFacts
<1>3. FirstSpan \in Int /\ LastSpan \in Int
  BY <1>2
<1>4. Min(FirstSpan..LastSpan) = FirstSpan /\ Max(FirstSpan..LastSpan) = LastSpan
  BY <1>2, <1>3, IntervalEnds
<1> QED
  BY <1>1, <1>2, <1>4

(* The byte behind a range, where it has one.                              *)
LEMMA RangeOfFacts ==
  ASSUME IInv, pc = "done"
  PROVE  /\ range = [first |-> spans[FirstSpan].Compressed - 1,
                     last |-> IF LastSpan < Last THEN spans[LastSpan + 1].Compressed
                                                 ELSE ToTheEnd]
         /\ spans[FirstSpan].Compressed \in 1..MaxByte
         /\ LastSpan < Last => /\ LastSpan + 1 \in 1..Last
                               /\ spans[LastSpan + 1].Compressed \in 1..MaxByte
<1>1. Inputs /\ range = RangeOf
  BY DEF IInv
<1>2. Min(numbers) = FirstSpan /\ Max(numbers) = LastSpan
      /\ FirstSpan \in 1..Last /\ LastSpan \in 1..Last
  BY NumbersEnds
<1>3. Last \in Nat
  BY <1>1, SpansFacts
<1>4. LastSpan < Last => LastSpan + 1 \in 1..Last
  BY <1>2, <1>3
<1>5. spans[FirstSpan].Compressed \in 1..MaxByte
  BY <1>1, <1>2, SpansFacts
<1>6. LastSpan < Last => spans[LastSpan + 1].Compressed \in 1..MaxByte
  BY <1>1, <1>4, SpansFacts
<1>7. range = [first |-> spans[FirstSpan].Compressed - 1,
               last |-> IF LastSpan < Last THEN spans[LastSpan + 1].Compressed
                                           ELSE ToTheEnd]
  BY <1>1, <1>2 DEF RangeOf
<1> QED
  BY <1>4, <1>5, <1>6, <1>7

LEMMA IInvTypeOK == IInv => TypeOK
<1> SUFFICES ASSUME IInv PROVE TypeOK
  OBVIOUS
<1>1. Inputs /\ Last \in Nat
  BY SpansFacts DEF IInv
<1>2. numbers \subseteq 1..Last
  <2>1. CASE pc = "build"
    BY <2>1 DEF IInv
  <2>2. CASE pc # "build"
    <3>1. numbers = FirstSpan..LastSpan /\ FirstSpan \in 1..Last /\ LastSpan \in 1..Last
      BY <2>2, NumbersEnds
    <3> QED
      BY <1>1, <3>1
  <2> QED
    BY <2>1, <2>2
<1>3. range \in [first : 0..MaxByte, last : 0..MaxByte \union {ToTheEnd}] \union {NoRange}
  <2>1. CASE pc = "done"
    <3>1. spans[FirstSpan].Compressed - 1 \in 0..MaxByte
      BY <2>1, RangeOfFacts, MaxByteAssumption
    <3>2. (IF LastSpan < Last THEN spans[LastSpan + 1].Compressed ELSE ToTheEnd)
            \in 0..MaxByte \union {ToTheEnd}
      <4>1. CASE LastSpan < Last
        BY <2>1, <4>1, RangeOfFacts, MaxByteAssumption
      <4>2. CASE ~(LastSpan < Last)
        BY <4>2
      <4> QED
        BY <4>1, <4>2
    <3> QED
      BY <2>1, <3>1, <3>2, RangeOfFacts
  <2>2. CASE pc # "done"
    BY <2>2 DEF IInv
  <2> QED
    BY <2>1, <2>2
<1>4. pc \in {"build", "serve", "done", "panicked"}
  BY DEF IInv
<1> QED
  BY <1>2, <1>3, <1>4 DEF TypeOK

(* An entry's spans are numbers of the index, and the range is one of      *)
(* bytes of the blob.                                                      *)
THEOREM TypeCorrect == Spec => []TypeOK
BY Inductive, IInvTypeOK, PTL

(* Whatever the entry and the index, if that has an access point for the   *)
(* beginning: the search finds a span, so that neither spans[idx] nor the  *)
(* entry's first span is out of range.                                     *)
THEOREM NoPanic == Spec => []NeverPanics
<1>1. IInv => NeverPanics
  BY DEF IInv, NeverPanics
<1> QED
  BY <1>1, Inductive, PTL

-----------------------------------------------------------------------------
(* Where the needed spans lie.                                             *)
LEMMA NeededInside ==
  ASSUME Inputs, NEW i \in Needed
  PROVE  i \in 1..Last /\ FirstSpan <= i /\ i <= LastSpan
<1>1. i \in 1..Last
  BY DEF Needed
<1>2. PICK o \in entry.Offset..(entry.Offset + entry.Size - 1) : Holds(i, o)
  BY DEF Needed
<1>3. /\ FirstSpan \in 1..Last /\ LastSpan \in 1..Last
      /\ Holds(FirstSpan, entry.Offset) /\ Holds(LastSpan, entry.Offset + entry.Size)
      /\ entry.Offset \in Nat /\ entry.Size \in Nat
  BY EntrySpans
<1>4. /\ o \in Nat /\ entry.Offset + entry.Size \in Nat
      /\ entry.Offset <= o /\ o <= entry.Offset + entry.Size
  BY <1>2, <1>3
<1>5. FirstSpan <= i
  BY <1>1, <1>2, <1>3, <1>4, SpansApart
<1>6. i <= LastSpan
  BY <1>1, <1>2, <1>3, <1>4, SpansApart
<1> QED
  BY <1>1, <1>5, <1>6

(* A span that holds a byte of the entry is needed.                        *)
LEMMA HoldingIsNeeded ==
  ASSUME NEW i \in 1..Last, NEW o \in Int,
         entry.Offset <= o, o <= entry.Offset + entry.Size - 1,
         entry.Offset \in Int, entry.Size \in Int, Holds(i, o)
  PROVE  i \in Needed
<1>1. o \in entry.Offset..(entry.Offset + entry.Size - 1)
  OBVIOUS
<1> QED
  BY <1>1 DEF Needed

(* Every attached span but the last one is needed.                         *)
LEMMA InnerSpansNeeded ==
  ASSUME Inputs, NEW i \in 1..Last, FirstSpan <= i, i < LastSpan
  PROVE  i \in Needed
<1> DEFINE low == entry.Offset
           high == entry.Offset + entry.Size
<1>1. /\ FirstSpan \in 1..Last /\ LastSpan \in 1..Last
      /\ Holds(FirstSpan, low) /\ Holds(LastSpan, high)
      /\ low \in Nat /\ high \in Nat /\ entry.Size \in Nat /\ Last \in Nat
  BY EntrySpans, SpansFacts
<1>2. /\ \A k \in 1..Last : spans[k].Uncompressed \in Nat
      /\ \A k, m \in 1..Last : k < m => spans[k].Uncompressed < spans[m].Uncompressed
  BY SpansFacts, MaxOffsetAssumption
<1>3. spans[LastSpan].Uncompressed <= high
  BY <1>1 DEF Holds
<1>4. i < Last /\ i + 1 \in 1..Last /\ i + 1 <= LastSpan
  BY <1>1
<1>5. spans[i + 1].Uncompressed <= high
  <2>1. spans[i + 1].Uncompressed <= spans[LastSpan].Uncompressed
    <3>1. CASE i + 1 = LastSpan
      BY <3>1, <1>1, <1>2
    <3>2. CASE i + 1 # LastSpan
      <4>1. i + 1 < LastSpan
        BY <1>1, <1>4, <3>2
      <4> QED
        BY <1>1, <1>2, <1>4, <4>1
    <3> QED
      BY <3>1, <3>2
  <2>2. spans[i + 1].Uncompressed \in Nat /\ spans[LastSpan].Uncompressed \in Nat
    BY <1>1, <1>2, <1>4
  <2> QED
    BY <1>1, <1>3, <2>1, <2>2
<1>6. spans[i].Uncompressed < spans[i + 1].Uncompressed
  BY <1>2, <1>4
<1>7. spans[i].Uncompressed \in Nat /\ spans[i + 1].Uncompressed \in Nat
  BY <1>2, <1>4
<1>8. CASE i = FirstSpan
  <2>1. low < spans[i + 1].Uncompressed /\ Holds(i, low)
    BY <1>1, <1>4, <1>8 DEF Holds, UncompressedEnd
  <2>2. low \in low..(high - 1)
    BY <1>1, <1>5, <1>7, <2>1
  <2> QED
    BY <1>1, <2>1, <2>2, HoldingIsNeeded
<1>9. CASE i # FirstSpan
  <2> DEFINE o == spans[i].Uncompressed
  <2>1. Holds(i, o)
    BY <1>4, <1>6, <1>7 DEF Holds, UncompressedEnd
  <2>2. low <= o
    <3>1. FirstSpan + 1 \in 1..Last /\ FirstSpan < Last /\ FirstSpan + 1 <= i
      BY <1>1, <1>9
    <3>2. low < spans[FirstSpan + 1].Uncompressed
      BY <1>1, <3>1 DEF Holds, UncompressedEnd
    <3>3. spans[FirstSpan + 1].Uncompressed <= o
      <4>1. CASE FirstSpan + 1 = i
        BY <1>7, <4>1
      <4>2. CASE FirstSpan + 1 # i
        <5>1. FirstSpan + 1 < i
          BY <1>1, <3>1, <4>2
        <5> QED
          BY <1>2, <3>1, <5>1
      <4> QED
        BY <4>1, <4>2
    <3>4. spans[FirstSpan + 1].Uncompressed \in Nat
      BY <1>2, <3>1
    <3> QED
      BY <1>1, <1>7, <3>2, <3>3, <3>4
  <2>3. o \in low..(high - 1)
    BY <1>1, <1>5, <1>6, <1>7, <2>2
  <2> QED
    BY <1>1, <2>1, <2>3, HoldingIsNeeded
<1> QED
  BY <1>8, <1>9

(* The spans attached to an entry hold all its bytes, and only the last    *)
(* one may hold none of them.                                              *)
THEOREM TightSpans == Spec => []SpansAreTight
<1>1. IInv => SpansAreTight
  <2> SUFFICES ASSUME IInv, pc # "build"
               PROVE  /\ Needed \subseteq numbers
                      /\ \A i \in numbers \ Needed : Holds(i, entry.Offset + entry.Size)
    BY DEF SpansAreTight
  <2>1. /\ numbers = FirstSpan..LastSpan
        /\ FirstSpan \in 1..Last /\ LastSpan \in 1..Last /\ Inputs /\ Last \in Nat
    BY NumbersEnds, SpansFacts DEF IInv
  <2>2. Needed \subseteq numbers
    BY <2>1, NeededInside
  <2>3. ASSUME NEW i \in numbers \ Needed PROVE Holds(i, entry.Offset + entry.Size)
    <3>1. i \in 1..Last /\ FirstSpan <= i /\ i <= LastSpan
      BY <2>1, <2>3
    <3>2. ~(i < LastSpan)
      BY <2>1, <2>3, <3>1, InnerSpansNeeded
    <3>3. i = LastSpan
      BY <2>1, <3>1, <3>2
    <3> QED
      BY <2>1, <3>3, EntrySpans
  <2> QED
    BY <2>2, <2>3
<1> QED
  BY <1>1, Inductive, PTL

(* The range starts with the byte before the access point of the entry's   *)
(* first byte and has all compressed bytes of all spans that hold the      *)
(* entry.                                                                  *)
THEOREM RangeIsEnough == Spec => []RangeCoversEntry
<1>1. IInv => RangeCoversEntry
  <2> SUFFICES ASSUME IInv, pc = "done", NEW i \in 1..Last
               PROVE  /\ Holds(i, entry.Offset) => range.first = spans[i].Compressed - 1
                      /\ i \in Needed =>
                           \/ range.last = ToTheEnd
                           \/ i < Last /\ spans[i + 1].Compressed - 1 <= range.last
    BY DEF RangeCoversEntry
  <2>1. Inputs /\ FirstSpan \in 1..Last /\ LastSpan \in 1..Last /\ Last \in Nat
        /\ Holds(FirstSpan, entry.Offset) /\ entry.Offset \in Nat
    BY EntrySpans, SpansFacts DEF IInv
  <2>2. ASSUME Holds(i, entry.Offset) PROVE range.first = spans[i].Compressed - 1
    <3>1. i <= FirstSpan /\ FirstSpan <= i
      BY <2>1, <2>2, SpansApart
    <3>2. i = FirstSpan
      BY <2>1, <3>1
    <3> QED
      BY <3>2, RangeOfFacts
  <2>3. ASSUME i \in Needed, LastSpan < Last
        PROVE  i < Last /\ spans[i + 1].Compressed - 1 <= range.last
    <3>1. i <= LastSpan
      BY <2>1, <2>3, NeededInside
    <3>2. i < Last /\ i + 1 \in 1..Last /\ LastSpan + 1 \in 1..Last /\ i + 1 <= LastSpan + 1
      BY <2>1, <2>3, <3>1
    <3>3. spans[i + 1].Compressed \in 1..MaxByte /\ spans[LastSpan + 1].Compressed \in 1..MaxByte
      BY <2>1, <3>2, SpansFacts
    <3>4. spans[i + 1].Compressed <= spans[LastSpan + 1].Compressed
      <4>1. CASE i = LastSpan
        BY <3>3, <4>1
      <4>2. CASE i # LastSpan
        <5>1. i + 1 < LastSpan + 1
          BY <2>1, <3>1, <4>2
        <5>2. spans[i + 1].Compressed < spans[LastSpan + 1].Compressed
          BY <2>1, <3>2, <5>1, SpansFacts
        <5> QED
          BY <3>3, <5>2
      <4> QED
        BY <4>1, <4>2
    <3>5. range.last = spans[LastSpan + 1].Compressed
      BY <2>3, RangeOfFacts
    <3> QED
      BY <3>2, <3>3, <3>4, <3>5
  <2>4. ASSUME ~(LastSpan < Last) PROVE range.last = ToTheEnd
    BY <2>4, RangeOfFacts
  <2> QED
    BY <2>2, <2>3, <2>4
<1> QED
  BY <1>1, Inductive, PTL
=============================================================================
