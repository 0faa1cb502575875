-------------------------- MODULE FileIndexProofs --------------------------
(***************************************************************************)
(* Proofs about FileIndex, for headers with names of any number of parts,  *)
(* spelt in any way, and any number of layers with any number of headers.  *)
(*                                                                         *)
(* What a recursive definition computes for a name of any length is proved *)
(* without an induction theorem: if it failed for some length, it would    *)
(* fail for a least one.                                                   *)
(***************************************************************************)
EXTENDS FileIndex, SequenceTheorems, WellFoundedInduction, TLAPS

-----------------------------------------------------------------------------
(* A line stands for a header of its layer; before the sort in its place.  *)
Entries == {EntryOf(h, n) : h \in Header, n \in 1..Layers}

Typed ==
  /\ tar \in [1..Layers -> Seq(Header)]
  /\ entries \in [1..Layers -> Seq(Entries)]
  /\ sorted \subseteq 1..Layers
  /\ status \in {"none", "published"}

LinesAreHeaders ==
  \A n \in 1..Layers : \A i \in DOMAIN entries[n] :
    \E k \in DOMAIN tar[n] : entries[n][i] = EntryOf(tar[n][k], n)

ReadInOrder ==
  \A n \in (1..Layers) \ sorted :
    /\ Len(entries[n]) <= Len(tar[n])
    /\ \A k \in DOMAIN entries[n] : entries[n][k] = EntryOf(tar[n][k], n)

HeadersAreLines ==
  \A n \in sorted : \A k \in DOMAIN tar[n] :
    \E i \in DOMAIN entries[n] : entries[n][i] = EntryOf(tar[n][k], n)

(* The image's index has the last lines; nothing is shown before.          *)
IndexIsLastLines ==
  IF status = "published"
    THEN sorted = 1..Layers /\ index = {Line(p) : p \in LastLines}
    ELSE listed = {} /\ shown = {} /\ opened = {}

(* What is shown is what was listed.                                       *)
ShownIsListed ==
  /\ \A s \in shown :
       s.path \in listed /\ s.entry \in index /\ s.entry.parent = Asked(s.path)
  /\ \A path \in listed : \A e \in index :
       e.parent = Asked(path) => [path |-> path, entry |-> e] \in shown
  /\ \A o \in opened :
       o.asked \in index /\ o.found = {e \in index : e.name = o.asked.name}

IInv ==
  /\ Typed
  /\ LinesAreHeaders
  /\ ReadInOrder
  /\ HeadersAreLines
  /\ IndexIsLastLines
  /\ ShownIsListed

-----------------------------------------------------------------------------
(* A set of numbers that is not empty has a least one.                     *)
LEMMA LeastNumber ==
  ASSUME NEW S, S \subseteq Nat, S # {}
  PROVE  \E x \in S : \A y \in S : x <= y
<1> DEFINE R == {ss \in Nat \X Nat : ss[1] < ss[2]}
<1>1. IsWellFoundedOn(R, Nat)
  BY NatLessThanWellFounded DEF OpToRel
<1> HIDE DEF R
<1>2. PICK x \in S : \A y \in S : ~(<<y, x>> \in R)
  BY <1>1, WFMin
<1>3. ASSUME NEW y \in S PROVE x <= y
  <2>1. x \in Nat /\ y \in Nat /\ <<y, x>> \notin R
    BY <1>2
  <2>2. <<y, x>> \in Nat \X Nat
    BY <2>1
  <2>3. ~(y < x)
    BY <2>1, <2>2 DEF R
  <2> QED
    BY <2>1, <2>3
<1> QED
  BY <1>3

(* A set that has 0, and with each number the next, has all numbers up to  *)
(* n: the least one it has not would follow one it has.                    *)
LEMMA UpTo ==
  ASSUME NEW n \in Nat, NEW S, 0 \in S, \A k \in 1..n : k - 1 \in S => k \in S
  PROVE  \A k \in 0..n : k \in S
<1> DEFINE Bad == {k \in 0..n : k \notin S}
<1> SUFFICES ASSUME Bad # {} PROVE FALSE
  OBVIOUS
<1>1. Bad \subseteq Nat
  OBVIOUS
<1>2. PICK m \in Bad : \A y \in Bad : m <= y
  BY <1>1, LeastNumber
<1>3. m \in 1..n /\ m \notin S
  OBVIOUS
<1>4. m - 1 \in 0..n /\ ~(m <= m - 1)
  BY <1>3
<1>5. m - 1 \in S
  BY <1>2, <1>4
<1> QED
  BY <1>3, <1>5

(* A computation that goes from part to part has a value after each.       *)
LEMMA StepByStep ==
  ASSUME NEW D, NEW base \in D, NEW n \in Nat, NEW Step \in [D \X (1..n) -> D]
  PROVE  \E f \in [0..n -> D] :
           f[0] = base /\ \A k \in 1..n : f[k] = Step[<<f[k - 1], k>>]
<1> DEFINE IsComputed(f, m) ==
      /\ f \in [0..m -> D]
      /\ f[0] = base
      /\ \A k \in 1..m : f[k] = Step[<<f[k - 1], k>>]
           Good == {m \in 0..n : \E f : IsComputed(f, m)}
<1>1. 0 \in Good
  <2>1. IsComputed([k \in 0..0 |-> base], 0)
    OBVIOUS
  <2> HIDE DEF IsComputed
  <2> QED
    BY <2>1
<1>2. ASSUME NEW m \in 1..n, m - 1 \in Good PROVE m \in Good
  <2>1. m - 1 \in 0..n /\ m \in 0..m /\ m - 1 \in 0..m /\ m - 1 # m /\ m # 0
    OBVIOUS
  <2>2. PICK f : IsComputed(f, m - 1)
    BY <1>2
  <2>3. Step[<<f[m - 1], m>>] \in D
    BY <2>1, <2>2
  <2> DEFINE g == [k \in 0..m |-> IF k = m THEN Step[<<f[m - 1], m>>] ELSE f[k]]
  <2>4. g \in [0..m -> D] /\ g[0] = base
    BY <2>1, <2>2, <2>3
  <2>5. ASSUME NEW k \in 1..m PROVE g[k] = Step[<<g[k - 1], k>>]
    <3>1. CASE k = m
      <4>1. g[m] = Step[<<f[m - 1], m>>] /\ g[m - 1] = f[m - 1]
        BY <2>1
      <4> QED
        BY <3>1, <4>1
    <3>2. CASE k # m
      <4>1. k \in 1..(m - 1) /\ k \in 0..m /\ k - 1 \in 0..m /\ k - 1 # m
        BY <3>2
      <4>2. f[k] = Step[<<f[k - 1], k>>]
        BY <2>2, <4>1
      <4> QED
        BY <3>2, <4>1, <4>2
    <3> QED
      BY <3>1, <3>2
  <2>6. IsComputed(g, m)
    BY <2>4, <2>5
  <2> HIDE DEF IsComputed
  <2> QED
    BY <2>6
<1>3. n \in Good
  <2> HIDE DEF Good
  <2>1. \A k \in 0..n : k \in Good
    BY <1>1, <1>2, UpTo
  <2> QED
    BY <2>1
<1> QED
  BY <1>3

-----------------------------------------------------------------------------
(* Names.                                                                  *)

LEMMA HeaderFacts ==
  ASSUME NEW h \in Header
  PROVE  /\ h.rooted \in BOOLEAN /\ h.dir \in BOOLEAN
         /\ h.parts \in Seq(Part) /\ Len(h.parts) \in Nat
         /\ \A k \in 1..Len(h.parts) : h.parts[k] \in Part
BY HeaderAssumption

(* What remains of a sequence without its last element.                    *)
LEMMA FrontFacts ==
  ASSUME NEW s \in Seq(Part), s # <<>>
  PROVE  /\ Len(s) \in Nat /\ Len(s) > 0
         /\ Last(s) \in Part
         /\ Front(s) \in Seq(Part) /\ Len(Front(s)) = Len(s) - 1
         /\ \A i \in 1..(Len(s) - 1) : Front(s)[i] = s[i]
<1>1. Len(s) \in Nat /\ Len(s) > 0 /\ \A i \in 1..Len(s) : s[i] \in Part
  BY EmptySeq, LenProperties, ElementOfSeq
<1>2. Front(s) = SubSeq(s, 1, Len(s) - 1)
  BY DEF Front
<1>3. \A i \in 1..(Len(s) - 1) : i \in 1..Len(s) /\ s[i] \in Part
  BY <1>1
<1> DEFINE n == Len(s) - 1
<1>4. 1 \in Int /\ n \in Int /\ n >= 0
  BY <1>1
<1>5. \A i \in 1..n : s[i] \in Part
  BY <1>3
<1> HIDE DEF n
<1>6. SubSeq(s, 1, n) \in Seq(Part)
  BY <1>4, <1>5, SubSeqProperties, Zenon
<1>7. Len(SubSeq(s, 1, n)) = n
  BY <1>4
<1>8. \A i \in 1..n : SubSeq(s, 1, n)[i] = s[i]
  BY <1>4
<1> QED
  BY <1>1, <1>2, <1>6, <1>7, <1>8 DEF Last, n

(* Clean and Location compute part by part.                                *)
LEMMA CleanSteps ==
  ASSUME NEW h \in Header
  PROVE  /\ CleanTo(h) \in [0..Len(h.parts) -> Seq(Part)]
         /\ CleanTo(h)[0] = <<>>
         /\ \A k \in 1..Len(h.parts) : CleanTo(h)[k] = Keep(h, CleanTo(h)[k - 1], h.parts[k])
<1> DEFINE n == Len(h.parts)
           D == Seq(Part)
           Step == [p \in D \X (1..n) |-> Keep(h, p[1], h.parts[p[2]])]
<1>1. n \in Nat /\ \A k \in 1..n : h.parts[k] \in Part
  BY HeaderFacts
<1>2. ASSUME NEW kept \in D, NEW part \in Part PROVE Keep(h, kept, part) \in D
  <2>1. Append(kept, part) \in D
    OBVIOUS
  <2>2. kept # <<>> => Front(kept) \in D
    BY FrontFacts
  <2> QED
    BY <2>1, <2>2 DEF Keep
<1>3. Step \in [D \X (1..n) -> D]
  BY <1>1, <1>2
<1> DEFINE none == <<>>
<1>4. none \in D
  OBVIOUS
<1>5. \A k \in 1..n : \A kept \in D : Step[<<kept, k>>] = Keep(h, kept, h.parts[k])
  OBVIOUS
<1> HIDE DEF n, D, Step, none
<1>6. PICK f \in [0..n -> D] : f[0] = none /\ \A k \in 1..n : f[k] = Step[<<f[k - 1], k>>]
  BY <1>1, <1>3, <1>4, StepByStep
<1>7. ASSUME NEW k \in 0..n
      PROVE  f[k] = IF k = 0 THEN none ELSE Keep(h, f[k - 1], h.parts[k])
  <2>1. CASE k # 0
    <3>1. k \in 1..n /\ k - 1 \in 0..n
      BY <1>1, <2>1
    <3>2. f[k - 1] \in D /\ f[k] = Step[<<f[k - 1], k>>]
      BY <1>6, <2>1, <3>1
    <3> QED
      BY <1>5, <2>1, <3>1, <3>2
  <2>2. CASE k = 0
    BY <1>6, <2>2
  <2> QED
    BY <2>1, <2>2
<1> DEFINE Is(to) == to = [k \in 0..n |-> IF k = 0 THEN none ELSE Keep(h, to[k - 1], h.parts[k])]
<1>8. Is(f)
  BY <1>7
<1>9. CleanTo(h) = CHOOSE to : Is(to)
  BY DEF CleanTo, n, none
<1>10. Is(CleanTo(h))
  <2> HIDE DEF Is
  <2> QED
    BY <1>8, <1>9
<1> DEFINE Good == {k \in 0..n : CleanTo(h)[k] \in D}
<1>11. /\ CleanTo(h)[0] = none
       /\ \A k \in 1..n : CleanTo(h)[k] = Keep(h, CleanTo(h)[k - 1], h.parts[k])
  BY <1>1, <1>10
<1>12. 0 \in Good
  BY <1>1, <1>4, <1>11
<1>13. ASSUME NEW k \in 1..n, k - 1 \in Good PROVE k \in Good
  BY <1>1, <1>2, <1>11, <1>13
<1>14. \A k \in 0..n : k \in Good
  <2> HIDE DEF Good
  <2> QED
    BY <1>1, <1>12, <1>13, UpTo
<1>15. CleanTo(h) \in [0..n -> D]
  BY <1>10, <1>14
<1> QED
  BY <1>11, <1>15 DEF n, D, none

LEMMA LocationSteps ==
  ASSUME NEW h \in Header
  PROVE  /\ LocationTo(h) \in [0..Len(h.parts) -> Seq(Part)]
         /\ LocationTo(h)[0] = <<>>
         /\ \A k \in 1..Len(h.parts) : LocationTo(h)[k] = At(LocationTo(h)[k - 1], h.parts[k])
<1> DEFINE n == Len(h.parts)
           D == Seq(Part)
           Step == [p \in D \X (1..n) |-> At(p[1], h.parts[p[2]])]
<1>1. n \in Nat /\ \A k \in 1..n : h.parts[k] \in Part
  BY HeaderFacts
<1>2. ASSUME NEW kept \in D, NEW part \in Part PROVE At(kept, part) \in D
  <2>1. Append(kept, part) \in D
    OBVIOUS
  <2>2. kept # <<>> => Front(kept) \in D
    BY FrontFacts
  <2> QED
    BY <2>1, <2>2 DEF At
<1>3. Step \in [D \X (1..n) -> D]
  BY <1>1, <1>2
<1> DEFINE none == <<>>
<1>4. none \in D
  OBVIOUS
<1>5. \A k \in 1..n : \A kept \in D : Step[<<kept, k>>] = At(kept, h.parts[k])
  OBVIOUS
<1> HIDE DEF n, D, Step, none
<1>6. PICK f \in [0..n -> D] : f[0] = none /\ \A k \in 1..n : f[k] = Step[<<f[k - 1], k>>]
  BY <1>1, <1>3, <1>4, StepByStep
<1>7. ASSUME NEW k \in 0..n
      PROVE  f[k] = IF k = 0 THEN none ELSE At(f[k - 1], h.parts[k])
  <2>1. CASE k # 0
    <3>1. k \in 1..n /\ k - 1 \in 0..n
      BY <1>1, <2>1
    <3>2. f[k - 1] \in D /\ f[k] = Step[<<f[k - 1], k>>]
      BY <1>6, <2>1, <3>1
    <3> QED
      BY <1>5, <2>1, <3>1, <3>2
  <2>2. CASE k = 0
    BY <1>6, <2>2
  <2> QED
    BY <2>1, <2>2
<1> DEFINE Is(to) == to = [k \in 0..n |-> IF k = 0 THEN none ELSE At(to[k - 1], h.parts[k])]
<1>8. Is(f)
  BY <1>7
<1>9. LocationTo(h) = CHOOSE to : Is(to)
  BY DEF LocationTo, n, none
<1>10. Is(LocationTo(h))
  <2> HIDE DEF Is
  <2> QED
    BY <1>8, <1>9
<1> DEFINE Good == {k \in 0..n : LocationTo(h)[k] \in D}
<1>11. /\ LocationTo(h)[0] = none
       /\ \A k \in 1..n : LocationTo(h)[k] = At(LocationTo(h)[k - 1], h.parts[k])
  BY <1>1, <1>10
<1>12. 0 \in Good
  BY <1>1, <1>4, <1>11
<1>13. ASSUME NEW k \in 1..n, k - 1 \in Good PROVE k \in Good
  BY <1>1, <1>2, <1>11, <1>13
<1>14. \A k \in 0..n : k \in Good
  <2> HIDE DEF Good
  <2> QED
    BY <1>1, <1>12, <1>13, UpTo
<1>15. LocationTo(h) \in [0..n -> D]
  BY <1>10, <1>14
<1> QED
  BY <1>11, <1>15 DEF n, D, none

-----------------------------------------------------------------------------
(* No part of a location is "..".                                          *)
NoDots(s) == \A i \in 1..Len(s) : s[i] # ".."

(* Where ".." does not climb, the two make the same step.                  *)
LEMMA SameStep ==
  ASSUME NEW h \in Header, NEW at \in Seq(Part), NoDots(at), NEW part \in Part
  PROVE  /\ At(at, part) \in Seq(Part)
         /\ NoDots(At(at, part))
         /\ h.rooted \/ part # ".." \/ at # <<>> => Keep(h, at, part) = At(at, part)
<1>1. CASE part \in {"", "."}
  BY <1>1 DEF At, Keep
<1>2. CASE part = ".." /\ at = <<>>
  BY <1>2 DEF At, Keep
<1>3. CASE part = ".." /\ at # <<>>
  <2>1. /\ Len(at) \in Nat /\ Len(at) > 0 /\ Last(at) = at[Len(at)]
        /\ Front(at) \in Seq(Part) /\ Len(Front(at)) = Len(at) - 1
        /\ \A i \in 1..(Len(at) - 1) : Front(at)[i] = at[i]
    BY <1>3, FrontFacts DEF Last
  <2>2. Last(at) # ".."
    BY <2>1 DEF NoDots
  <2>3. NoDots(Front(at))
    BY <2>1 DEF NoDots
  <2>4. At(at, part) = Front(at)
    BY <1>3 DEF At
  <2>5. Keep(h, at, part) = Front(at)
    BY <1>3, <2>2 DEF Keep
  <2> QED
    BY <2>1, <2>3, <2>4, <2>5
<1>4. CASE part # "" /\ part # "." /\ part # ".."
  <2>1. At(at, part) = Append(at, part) /\ Keep(h, at, part) = Append(at, part)
    <3>1. At(at, part) = Append(at, part)
      BY <1>4 DEF At
    <3>2. Keep(h, at, part) = Append(at, part)
      BY <1>4 DEF Keep
    <3> QED
      BY <3>1, <3>2
  <2>2. Append(at, part) \in Seq(Part) /\ NoDots(Append(at, part))
    <3> DEFINE longer == Append(at, part)
    <3>1. Len(at) \in Nat /\ longer \in Seq(Part) /\ Len(longer) = Len(at) + 1
      OBVIOUS
    <3>2. longer[Len(at) + 1] = part /\ \A i \in 1..Len(at) : longer[i] = at[i]
      OBVIOUS
    <3>3. part # ".."
      BY <1>4
    <3>4. \A i \in 1..Len(at) : at[i] # ".."
      BY DEF NoDots
    <3> HIDE DEF longer
    <3>5. ASSUME NEW i \in 1..Len(longer) PROVE longer[i] # ".."
      <4>1. CASE i = Len(at) + 1
        BY <4>1, <3>2, <3>3
      <4>2. CASE i \in 1..Len(at)
        BY <4>2, <3>2, <3>4
      <4> QED
        BY <3>1, <3>5, <4>1, <4>2
    <3>6. NoDots(longer)
      BY <3>5 DEF NoDots
    <3> QED
      BY <3>1, <3>6 DEF longer
  <2> QED
    BY <2>1, <2>2
<1> QED
  BY <1>1, <1>2, <1>3, <1>4

(* A cleaned name is the file's location, unless it is from above the root *)
(* of a container that does not say so with a slash.                       *)
LEMMA CleanIsLocation ==
  ASSUME NEW h \in Header
  PROVE  /\ Location(h) \in Seq(Part)
         /\ h.rooted \/ ~Climbs(h) => Clean(h) = Location(h)
<1> DEFINE n == Len(h.parts)
           Plain == h.rooted \/ ~Climbs(h)
           Good == {k \in 0..n : /\ LocationTo(h)[k] \in Seq(Part)
                                 /\ NoDots(LocationTo(h)[k])
                                 /\ Plain => CleanTo(h)[k] = LocationTo(h)[k]}
<1>1. n \in Nat /\ \A k \in 1..n : h.parts[k] \in Part
  BY HeaderFacts
<1>2. 0 \in Good
  BY <1>1, CleanSteps, LocationSteps DEF NoDots
<1>3. ASSUME NEW k \in 1..n, k - 1 \in Good PROVE k \in Good
  <2> DEFINE at == LocationTo(h)[k - 1]
             part == h.parts[k]
  <2>1. at \in Seq(Part) /\ NoDots(at) /\ part \in Part
    BY <1>1, <1>3
  <2>2. LocationTo(h)[k] = At(at, part)
    BY LocationSteps
  <2>3. Plain => CleanTo(h)[k] = Keep(h, at, part)
    BY <1>3, CleanSteps
  <2>4. Plain => h.rooted \/ part # ".." \/ at # <<>>
    <3>1. k \in DOMAIN h.parts
      BY HeaderFacts
    <3> QED
      BY <3>1 DEF Climbs
  <2> QED
    BY <2>1, <2>2, <2>3, <2>4, SameStep
<1>4. \A k \in 0..n : k \in Good
  <2> HIDE DEF Good
  <2> QED
    BY <1>1, <1>2, <1>3, UpTo
<1>5. n \in Good
  BY <1>1, <1>4
<1> QED
  BY <1>5 DEF Location, Clean

(* Without its last part, a location is shorter.                           *)
LEMMA ContainerFacts ==
  ASSUME NEW at \in Seq(Part)
  PROVE  /\ Container(at) \in Seq(Part)
         /\ Container(at) = <<>> <=> Len(at) <= 1
         /\ Len(at) > 1 => Container(at) = Front(at) /\ Len(Container(at)) = Len(at) - 1
<1>1. CASE at = <<>>
  BY <1>1 DEF Container
<1>2. CASE at # <<>>
  <2>1. /\ Container(at) = Front(at) /\ Front(at) \in Seq(Part)
        /\ Len(Front(at)) = Len(at) - 1 /\ Len(at) \in Nat /\ Len(at) > 0
    BY <1>2, FrontFacts DEF Container
  <2>2. Front(at) = <<>> <=> Len(Front(at)) = 0
    BY <2>1, EmptySeq
  <2> QED
    BY <2>1, <2>2
<1> QED
  BY <1>1, <1>2

(* What all layers agree on.                                               *)
Spelt(rooted, h) ==
  /\ h.rooted \/ ~Climbs(h)
  /\ h.rooted = rooted \/ Location(h) = <<>>

(* Of headers that are spelt alike, the location makes the name.           *)
LEMMA NameFacts ==
  ASSUME NEW rooted \in BOOLEAN, NEW h \in Header, Spelt(rooted, h)
  PROVE  /\ HeaderName(h) = IF Location(h) = <<>> THEN Root
                            ELSE Name(rooted, Location(h), h.dir)
         /\ Parent(h) = IF Container(Location(h)) = <<>> THEN Root
                        ELSE Name(rooted, Container(Location(h)), TRUE)
<1>1. Location(h) \in Seq(Part) /\ Clean(h) = Location(h)
  BY CleanIsLocation DEF Spelt
<1>2. /\ Container(Location(h)) = <<>> <=> Len(Location(h)) <= 1
      /\ Len(Location(h)) > 1 => Container(Location(h)) = Front(Location(h))
      /\ Len(Location(h)) \in Nat
      /\ Location(h) = <<>> <=> Len(Location(h)) = 0
  BY <1>1, ContainerFacts, EmptySeq
<1>3. Location(h) # <<>> => h.rooted = rooted
  BY DEF Spelt
<1>4. HeaderName(h) = IF Location(h) = <<>> THEN Root ELSE Name(rooted, Location(h), h.dir)
  BY <1>1, <1>3 DEF HeaderName
<1>5. CASE Container(Location(h)) = <<>>
  BY <1>1, <1>2, <1>4, <1>5 DEF Parent
<1>6. CASE Container(Location(h)) # <<>>
  <2>1. ~(Len(Location(h)) <= 1) /\ Len(Location(h)) > 1 /\ Location(h) # <<>>
    BY <1>2, <1>6
  <2>2. Parent(h) = Name(rooted, Container(Location(h)), TRUE)
    BY <1>1, <1>2, <1>3, <2>1 DEF Parent
  <2> QED
    BY <1>4, <1>6, <2>2
<1> QED
  BY <1>5, <1>6

(* A name is its three fields.                                             *)
LEMMA NameFields ==
  ASSUME NEW r1, NEW p1, NEW s1, NEW r2, NEW p2, NEW s2,
         Name(r1, p1, s1) = Name(r2, p2, s2)
  PROVE  r1 = r2 /\ p1 = p2 /\ s1 = s2
<1>1. /\ Name(r1, p1, s1).rooted = r1 /\ Name(r1, p1, s1).parts = p1
      /\ Name(r1, p1, s1).slash = s1
      /\ Name(r2, p2, s2).rooted = r2 /\ Name(r2, p2, s2).parts = p2
      /\ Name(r2, p2, s2).slash = s2
  BY DEF Name
<1> QED
  BY <1>1

(* Two names are equal just when their files are at one place; only of the *)
(* root the name does not tell whether it is a directory.                  *)
LEMMA NamesTellLocations ==
  ASSUME NEW rooted \in BOOLEAN, NEW g \in Header, NEW h \in Header,
         Spelt(rooted, g), Spelt(rooted, h)
  PROVE  /\ Location(g) = Location(h) /\ g.dir = h.dir => HeaderName(g) = HeaderName(h)
         /\ HeaderName(g) = HeaderName(h) =>
              Location(g) = Location(h) /\ (Location(h) = <<>> \/ g.dir = h.dir)
         /\ Location(g) = Location(h) => Parent(g) = Parent(h)
         /\ g.dir /\ Location(g) = Container(Location(h)) /\ Location(g) # <<>> =>
              Parent(h) = HeaderName(g) /\ HeaderName(g) # Empty
<1>1. /\ HeaderName(g) = IF Location(g) = <<>> THEN Root ELSE Name(rooted, Location(g), g.dir)
      /\ Parent(g) = IF Container(Location(g)) = <<>> THEN Root
                     ELSE Name(rooted, Container(Location(g)), TRUE)
  BY NameFacts
<1>2. /\ HeaderName(h) = IF Location(h) = <<>> THEN Root ELSE Name(rooted, Location(h), h.dir)
      /\ Parent(h) = IF Container(Location(h)) = <<>> THEN Root
                     ELSE Name(rooted, Container(Location(h)), TRUE)
  BY NameFacts
<1>0. \A at, dir : Name(rooted, at, dir).parts = at
  BY DEF Name
<1>3. \A at, dir : Name(rooted, at, dir) = Root => at = <<>>
  <2>1. Root.parts = <<>>
    BY DEF Root, Name
  <2> QED
    BY <1>0, <2>1
<1>4. \A at, dir : Name(rooted, at, dir) = Empty => at = <<>>
  <2>1. Empty.parts = <<>>
    BY DEF Empty, Name
  <2> QED
    BY <1>0, <2>1
<1>5. \A p1, s1, p2, s2 : Name(rooted, p1, s1) = Name(rooted, p2, s2) => p1 = p2 /\ s1 = s2
  BY NameFields
<1>6. Location(g) = Location(h) /\ g.dir = h.dir => HeaderName(g) = HeaderName(h)
  BY <1>1, <1>2
<1>7. HeaderName(g) = HeaderName(h) =>
        Location(g) = Location(h) /\ (Location(h) = <<>> \/ g.dir = h.dir)
  BY <1>1, <1>2, <1>3, <1>5
<1>8. Location(g) = Location(h) => Parent(g) = Parent(h)
  BY <1>1, <1>2
<1>9. g.dir /\ Location(g) = Container(Location(h)) /\ Location(g) # <<>> =>
        Parent(h) = HeaderName(g) /\ HeaderName(g) # Empty
  <2> SUFFICES ASSUME g.dir, Location(g) = Container(Location(h)), Location(g) # <<>>
               PROVE  Parent(h) = HeaderName(g) /\ HeaderName(g) # Empty
    OBVIOUS
  <2>1. g.dir = TRUE
    BY HeaderFacts
  <2>2. HeaderName(g) = Name(rooted, Location(g), TRUE) /\ Parent(h) = HeaderName(g)
    BY <1>1, <1>2, <2>1
  <2> QED
    BY <1>4, <2>2
<1> QED
  BY <1>6, <1>7, <1>8, <1>9

-----------------------------------------------------------------------------
(* The steps.                                                              *)

LEMMA LinesFacts ==
  ASSUME Typed, NEW n \in 1..Layers
  PROVE  /\ tar[n] \in Seq(Header) /\ Len(tar[n]) \in Nat /\ DOMAIN tar[n] = 1..Len(tar[n])
         /\ entries[n] \in Seq(Entries) /\ Len(entries[n]) \in Nat
         /\ DOMAIN entries[n] = 1..Len(entries[n])
BY DEF Typed

(* The invariant holds before the first header is read.                    *)
LEMMA InitInv == Init => IInv
<1> SUFFICES ASSUME Init PROVE IInv
  OBVIOUS
<1>1. SeqOf(Header, MaxHeaders) \subseteq Seq(Header)
  BY LayersAssumption DEF SeqOf
<1>2. Typed
  <2>1. <<>> \in Seq(Entries)
    OBVIOUS
  <2> QED
    BY <1>1, <2>1 DEF Init, Typed
<1>3. \A n \in 1..Layers : DOMAIN entries[n] = {} /\ Len(entries[n]) = 0 /\ Len(tar[n]) \in Nat
  BY <1>2, LinesFacts DEF Init
<1>4. LinesAreHeaders /\ ReadInOrder
  BY <1>3 DEF LinesAreHeaders, ReadInOrder
<1>5. HeadersAreLines /\ IndexIsLastLines /\ ShownIsListed
  BY DEF Init, HeadersAreLines, IndexIsLastLines, ShownIsListed
<1> QED
  BY <1>2, <1>4, <1>5 DEF IInv

(* The next header becomes the next line.                                  *)
LEMMA ReadStep ==
  ASSUME IInv, NEW n \in 1..Layers, ReadHeader(n)
  PROVE  IInv'
<1> DEFINE k == Len(entries[n]) + 1
           e == EntryOf(tar[n][k], n)
<1>1. /\ n \notin sorted /\ Len(entries[n]) < Len(tar[n])
      /\ entries' = [entries EXCEPT ![n] = Append(@, e)]
      /\ UNCHANGED <<tar, sorted, index, status, listed, shown, opened>>
  BY DEF ReadHeader
<1>2. /\ Typed /\ LinesAreHeaders /\ ReadInOrder /\ HeadersAreLines /\ IndexIsLastLines
      /\ ShownIsListed
  BY DEF IInv
<1>3. /\ k \in 1..Len(tar[n]) /\ tar[n][k] \in Header /\ e \in Entries
      /\ entries[n] \in Seq(Entries) /\ Len(entries[n]) \in Nat
      /\ DOMAIN tar[n] = 1..Len(tar[n]) /\ DOMAIN entries[n] = 1..Len(entries[n])
  <2>1. k \in 1..Len(tar[n]) /\ tar[n][k] \in Header
    BY <1>1, <1>2, LinesFacts
  <2>2. e \in Entries
    BY <2>1 DEF Entries
  <2> QED
    BY <1>2, <2>1, <2>2, LinesFacts
<1> HIDE DEF e
<1>4. /\ entries'[n] = Append(entries[n], e)
      /\ \A m \in 1..Layers : m # n => entries'[m] = entries[m]
  BY <1>1, <1>2 DEF Typed
<1>5. /\ Append(entries[n], e) \in Seq(Entries)
      /\ DOMAIN Append(entries[n], e) = 1..k /\ Len(Append(entries[n], e)) = k
      /\ Append(entries[n], e)[k] = e
      /\ \A i \in 1..Len(entries[n]) : Append(entries[n], e)[i] = entries[n][i]
  BY <1>3
<1>6. Typed'
  BY <1>1, <1>2, <1>5 DEF Typed
<1>7. \A i \in 1..k : i = k \/ i \in 1..Len(entries[n])
  BY <1>3
<1>8. LinesAreHeaders'
  <2> SUFFICES ASSUME NEW m \in 1..Layers, NEW i \in DOMAIN entries'[m]
               PROVE  \E j \in DOMAIN tar'[m] : entries'[m][i] = EntryOf(tar'[m][j], m)
    BY DEF LinesAreHeaders
  <2>1. CASE m # n
    BY <1>1, <1>2, <1>4, <2>1 DEF LinesAreHeaders
  <2>2. CASE m = n /\ i = k
    BY <1>1, <1>3, <1>4, <1>5, <2>2 DEF e
  <2>3. CASE m = n /\ i # k
    <3>1. i \in DOMAIN entries[n] /\ entries'[n][i] = entries[n][i]
      BY <1>3, <1>4, <1>5, <1>7, <2>3
    <3> QED
      BY <1>1, <1>2, <2>3, <3>1 DEF LinesAreHeaders
  <2> QED
    BY <2>1, <2>2, <2>3
<1>9. ReadInOrder'
  <2> SUFFICES ASSUME NEW m \in (1..Layers) \ sorted'
               PROVE  /\ Len(entries'[m]) <= Len(tar'[m])
                      /\ \A i \in DOMAIN entries'[m] : entries'[m][i] = EntryOf(tar'[m][i], m)
    BY DEF ReadInOrder
  <2>1. CASE m # n
    BY <1>1, <1>2, <1>4, <2>1 DEF ReadInOrder
  <2>2. CASE m = n
    <3>1. Len(entries'[n]) <= Len(tar'[n])
      BY <1>1, <1>3, <1>4, <1>5
    <3>2. ASSUME NEW i \in DOMAIN entries'[n] PROVE entries'[n][i] = EntryOf(tar'[n][i], n)
      <4>1. CASE i = k
        BY <1>1, <1>4, <1>5, <4>1 DEF e
      <4>2. CASE i # k
        <5>1. i \in DOMAIN entries[n] /\ entries'[n][i] = entries[n][i]
          BY <1>3, <1>4, <1>5, <1>7, <4>2
        <5> QED
          BY <1>1, <1>2, <5>1 DEF ReadInOrder
      <4> QED
        BY <4>1, <4>2
    <3> QED
      BY <2>2, <3>1, <3>2
  <2> QED
    BY <2>1, <2>2
<1>10. HeadersAreLines'
  <2>1. \A m \in sorted : m \in 1..Layers /\ m # n /\ entries'[m] = entries[m]
    BY <1>1, <1>2, <1>4 DEF Typed
  <2> QED
    BY <1>1, <1>2, <2>1 DEF HeadersAreLines
<1>11. IndexIsLastLines'
  BY <1>1, <1>2 DEF IndexIsLastLines
<1>12. ShownIsListed'
  BY <1>1, <1>2 DEF ShownIsListed
<1> QED
  BY <1>6, <1>8, <1>9, <1>10, <1>11, <1>12 DEF IInv

(* The sort only changes the order of the lines, when all headers are in.  *)
LEMMA SortStep ==
  ASSUME IInv, NEW n \in 1..Layers, Sort(n)
  PROVE  IInv'
<1> DEFINE D == DOMAIN entries[n]
<1>1. /\ n \notin sorted /\ Len(entries[n]) = Len(tar[n])
      /\ sorted' = sorted \union {n}
      /\ UNCHANGED <<tar, index, status, listed, shown, opened>>
  BY DEF Sort
<1>2. /\ Typed /\ LinesAreHeaders /\ ReadInOrder /\ HeadersAreLines /\ IndexIsLastLines
      /\ ShownIsListed
  BY DEF IInv
<1>3. PICK order \in Bijection(D, D) :
        entries' = [entries EXCEPT ![n] = [i \in D |-> entries[n][order[i]]]]
  BY DEF Sort
<1>4. /\ order \in [D -> D]
      /\ \A j \in D : \E i \in D : order[i] = j
  BY DEF Bijection, Injection, Surjection
<1>5. /\ entries'[n] = [i \in D |-> entries[n][order[i]]]
      /\ \A m \in 1..Layers : m # n => entries'[m] = entries[m]
  BY <1>2, <1>3 DEF Typed
<1>6. D = 1..Len(entries[n]) /\ Len(entries[n]) \in Nat /\ entries[n] \in Seq(Entries)
      /\ DOMAIN tar[n] = D
  BY <1>1, <1>2, LinesFacts
<1>7. [i \in D |-> entries[n][order[i]]] \in Seq(Entries)
  <2>1. \A i \in D : entries[n][order[i]] \in Entries
    BY <1>4, <1>6
  <2> QED
    BY <1>6, <2>1, IsASeq
<1>8. Typed'
  BY <1>1, <1>2, <1>3, <1>7 DEF Typed
<1>9. \A i \in D : order[i] \in D /\ entries'[n][i] = entries[n][order[i]]
  BY <1>4, <1>5
<1>10. DOMAIN entries'[n] = D
  BY <1>5
<1>11. LinesAreHeaders'
  <2> SUFFICES ASSUME NEW m \in 1..Layers, NEW i \in DOMAIN entries'[m]
               PROVE  \E j \in DOMAIN tar'[m] : entries'[m][i] = EntryOf(tar'[m][j], m)
    BY DEF LinesAreHeaders
  <2>1. CASE m # n
    BY <1>1, <1>2, <1>5, <2>1 DEF LinesAreHeaders
  <2>2. CASE m = n
    <3>1. i \in D /\ order[i] \in D /\ entries'[n][i] = entries[n][order[i]]
      BY <1>9, <1>10, <2>2
    <3>2. PICK j \in DOMAIN tar[n] : entries[n][order[i]] = EntryOf(tar[n][j], n)
      BY <1>2, <3>1 DEF LinesAreHeaders
    <3> QED
      BY <1>1, <2>2, <3>1, <3>2
  <2> QED
    BY <2>1, <2>2
<1>12. ReadInOrder'
  <2>1. \A m \in (1..Layers) \ sorted' : m \in (1..Layers) \ sorted /\ entries'[m] = entries[m]
    BY <1>1, <1>5
  <2> QED
    BY <1>1, <1>2, <2>1 DEF ReadInOrder
<1>13. HeadersAreLines'
  <2> SUFFICES ASSUME NEW m \in sorted', NEW k \in DOMAIN tar'[m]
               PROVE  \E i \in DOMAIN entries'[m] : entries'[m][i] = EntryOf(tar'[m][k], m)
    BY DEF HeadersAreLines
  <2>1. CASE m # n
    <3>1. m \in sorted /\ m \in 1..Layers /\ entries'[m] = entries[m]
      BY <1>1, <1>2, <1>5, <2>1 DEF Typed
    <3> QED
      BY <1>1, <1>2, <3>1 DEF HeadersAreLines
  <2>2. CASE m = n
    <3>1. k \in D /\ entries[n][k] = EntryOf(tar[n][k], n)
      BY <1>1, <1>2, <1>6, <2>2 DEF ReadInOrder
    <3>2. PICK i \in D : order[i] = k
      BY <1>4, <3>1
    <3> QED
      BY <1>1, <1>9, <1>10, <2>2, <3>1, <3>2
  <2> QED
    BY <2>1, <2>2
<1>14. IndexIsLastLines' /\ ShownIsListed'
  <2>1. status # "published"
    BY <1>1, <1>2 DEF IndexIsLastLines
  <2> QED
    BY <1>1, <1>2, <2>1 DEF IndexIsLastLines, ShownIsListed
<1> QED
  BY <1>8, <1>11, <1>12, <1>13, <1>14 DEF IInv

(* The index is made of the file indexes, which do not change any more.    *)
LEMMA ConcatenateStep ==
  ASSUME IInv, Concatenate
  PROVE  IInv'
<1>1. /\ sorted = 1..Layers /\ status = "none" /\ status' = "published"
      /\ index' = {Line(p) : p \in LastLines}
      /\ UNCHANGED <<tar, entries, sorted, listed, shown, opened>>
  BY DEF Concatenate
<1>2. Typed' /\ LinesAreHeaders' /\ ReadInOrder' /\ HeadersAreLines'
  BY <1>1 DEF IInv, Typed, LinesAreHeaders, ReadInOrder, HeadersAreLines
<1>3. LastLines' = LastLines /\ \A p : Line(p)' = Line(p)
  BY <1>1 DEF LastLines, Lines, Line
<1>4. IndexIsLastLines'
  BY <1>1, <1>3 DEF IndexIsLastLines, Line
<1>5. listed = {} /\ shown = {} /\ opened = {}
  BY <1>1 DEF IInv, IndexIsLastLines
<1>6. ShownIsListed'
  BY <1>1, <1>5 DEF ShownIsListed
<1> QED
  BY <1>2, <1>4, <1>6 DEF IInv

(* The client changes what it has seen.                                    *)
LEMMA ClientStep ==
  ASSUME IInv,
         \/ \E path \in Directories : HandleListDirectory(path)
         \/ \E s \in shown : HandleFileContents(s)
  PROVE  IInv'
<1>1. /\ status = "published"
      /\ UNCHANGED <<tar, entries, sorted, index, status>>
  BY DEF HandleListDirectory, HandleFileContents, IInv, IndexIsLastLines
<1>2. /\ Typed /\ LinesAreHeaders /\ ReadInOrder /\ HeadersAreLines /\ IndexIsLastLines
      /\ ShownIsListed
  BY DEF IInv
<1>3. Typed' /\ LinesAreHeaders' /\ ReadInOrder' /\ HeadersAreLines'
  BY <1>1, <1>2 DEF Typed, LinesAreHeaders, ReadInOrder, HeadersAreLines
<1>4. IndexIsLastLines'
  BY <1>1, <1>2 DEF IndexIsLastLines, LastLines, Lines, Line
<1>5. ASSUME NEW path \in Directories, HandleListDirectory(path) PROVE ShownIsListed'
  <2>1. /\ listed' = listed \union {path}
        /\ shown' = shown \union
             {[path |-> path, entry |-> e] : e \in {e \in index : e.parent = Asked(path)}}
        /\ UNCHANGED <<index, opened>>
    BY <1>5 DEF HandleListDirectory
  <2>2. ASSUME NEW s \in shown'
        PROVE  s.path \in listed' /\ s.entry \in index' /\ s.entry.parent = Asked(s.path)
    <3>1. CASE s \in shown
      BY <1>2, <2>1, <3>1 DEF ShownIsListed
    <3>2. CASE s \notin shown
      <4>1. PICK e \in index : e.parent = Asked(path) /\ s = [path |-> path, entry |-> e]
        BY <2>1, <3>2
      <4> QED
        BY <2>1, <4>1
    <3> QED
      BY <3>1, <3>2
  <2>3. ASSUME NEW p \in listed', NEW e \in index', e.parent = Asked(p)
        PROVE  [path |-> p, entry |-> e] \in shown'
    BY <1>2, <2>1, <2>3 DEF ShownIsListed
  <2>4. \A o \in opened' : o.asked \in index' /\ o.found = {e \in index' : e.name = o.asked.name}
    BY <1>2, <2>1 DEF ShownIsListed
  <2> QED
    BY <2>2, <2>3, <2>4 DEF ShownIsListed
<1>6. ASSUME NEW s \in shown, HandleFileContents(s) PROVE ShownIsListed'
  <2>1. /\ opened' = {[asked |-> s.entry, found |-> {e \in index : e.name = s.entry.name}]}
        /\ UNCHANGED <<index, listed, shown>>
    BY <1>6 DEF HandleFileContents
  <2>2. s.entry \in index
    BY <1>2 DEF ShownIsListed
  <2>3. \A o \in opened' : o.asked \in index' /\ o.found = {e \in index' : e.name = o.asked.name}
    BY <2>1, <2>2
  <2> QED
    BY <1>2, <2>1, <2>3 DEF ShownIsListed
<1>7. ShownIsListed'
  BY <1>5, <1>6
<1> QED
  BY <1>3, <1>4, <1>7 DEF IInv

(* Whatever is listed and opened when, the index is the last lines, and    *)
(* what is shown is what was listed.                                       *)
THEOREM FileIndexInvariant == Spec => []IInv
<1>1. IInv /\ [Next]_vars => IInv'
  <2> SUFFICES ASSUME IInv, [Next]_vars PROVE IInv'
    OBVIOUS
  <2>1. CASE UNCHANGED vars
    BY <2>1 DEF vars, IInv, Typed, LinesAreHeaders, ReadInOrder, HeadersAreLines,
       IndexIsLastLines, LastLines, Lines, Line, ShownIsListed
  <2> QED
    BY <2>1, ReadStep, SortStep, ConcatenateStep, ClientStep DEF Next
<1> QED
  BY <1>1, InitInv, PTL DEF Spec

-----------------------------------------------------------------------------
(* What the index has.                                                     *)

(* A line has a layer and a position, and is that of a header.             *)
LEMMA LineFacts ==
  ASSUME IInv, NEW p \in Lines
  PROVE  /\ p[1] \in 1..Layers /\ p[2] \in DOMAIN entries[p[1]] /\ p = <<p[1], p[2]>>
         /\ p[1] \in Nat /\ p[2] \in Nat
         /\ \E h \in ToSet(tar[p[1]]) : h \in Header /\ Line(p) = EntryOf(h, p[1])
<1>1. PICK n \in 1..Layers : p \in {n} \X DOMAIN entries[n]
  BY DEF Lines
<1>2. p[1] = n /\ p[2] \in DOMAIN entries[n] /\ p = <<p[1], p[2]>>
  BY <1>1
<1>3. /\ DOMAIN entries[n] = 1..Len(entries[n]) /\ Len(entries[n]) \in Nat
      /\ DOMAIN tar[n] = 1..Len(tar[n]) /\ tar[n] \in Seq(Header)
  BY LinesFacts DEF IInv
<1>4. p[1] \in Nat /\ p[2] \in Nat
  BY <1>2, <1>3
<1>5. PICK k \in DOMAIN tar[n] : entries[n][p[2]] = EntryOf(tar[n][k], n)
  BY <1>2 DEF IInv, LinesAreHeaders
<1>6. tar[n][k] \in Header /\ tar[n][k] \in ToSet(tar[n])
  BY <1>3 DEF ToSet
<1> QED
  BY <1>1, <1>2, <1>4, <1>5, <1>6 DEF Line

(* Of two lines one is the later.                                          *)
LEMMA LaterOrSame ==
  ASSUME IInv, NEW p \in Lines, NEW q \in Lines
  PROVE  p = q \/ Later(p, q) \/ Later(q, p)
<1>1. /\ p = <<p[1], p[2]>> /\ p[1] \in Nat /\ p[2] \in Nat
      /\ q = <<q[1], q[2]>> /\ q[1] \in Nat /\ q[2] \in Nat
  BY LineFacts
<1>2. p[1] = q[1] /\ p[2] = q[2] => p = q
  BY <1>1
<1> QED
  BY <1>1, <1>2 DEF Later

(* The index has one entry for a name.                                     *)
LEMMA OneEntryForAName ==
  ASSUME IInv, status = "published", NEW e \in index, NEW f \in index, e.name = f.name
  PROVE  e = f
<1>1. index = {Line(p) : p \in LastLines}
  BY DEF IInv, IndexIsLastLines
<1>2. PICK p \in LastLines : e = Line(p)
  BY <1>1
<1>3. PICK q \in LastLines : f = Line(q)
  BY <1>1
<1>4. p \in Lines /\ q \in Lines /\ ~Later(p, q) /\ ~Later(q, p)
  BY <1>2, <1>3 DEF LastLines
<1> QED
  BY <1>2, <1>3, <1>4, LaterOrSame

(* Every header of the image is a line when the index is there.            *)
LEMMA HeaderIsLine ==
  ASSUME IInv, status = "published", NEW n \in 1..Layers, NEW h \in ToSet(tar[n])
  PROVE  \E p \in Lines : p[1] = n /\ Line(p) = EntryOf(h, n)
<1>1. n \in sorted
  BY DEF IInv, IndexIsLastLines
<1>2. PICK k \in DOMAIN tar[n] : h = tar[n][k]
  BY LinesFacts DEF IInv, ToSet
<1>3. PICK i \in DOMAIN entries[n] : entries[n][i] = EntryOf(h, n)
  BY <1>1, <1>2 DEF IInv, HeadersAreLines
<1>4. <<n, i>> \in Lines
  BY <1>3 DEF Lines
<1> QED
  BY <1>3, <1>4 DEF Line

(* An entry of the index is that of a header of its layer, and no line     *)
(* above it has its name.                                                  *)
LEMMA IndexFacts ==
  ASSUME IInv, status = "published", NEW e \in index
  PROVE  /\ e.layer \in 1..Layers /\ e.header \in ToSet(tar[e.layer]) /\ e.header \in Header
         /\ e.name = HeaderName(e.header) /\ e.parent = Parent(e.header)
         /\ \A q \in Lines : q[1] > e.layer => Line(q).name # e.name
<1>1. PICK p \in LastLines : e = Line(p)
  BY DEF IInv, IndexIsLastLines
<1>2. p \in Lines /\ \A q \in Lines : Later(q, p) => Line(q).name # Line(p).name
  BY <1>1 DEF LastLines
<1>3. PICK h \in ToSet(tar[p[1]]) : h \in Header /\ Line(p) = EntryOf(h, p[1])
  BY <1>2, LineFacts
<1>4. e.header = h /\ e.name = HeaderName(h) /\ e.parent = Parent(h) /\ e.layer = p[1]
  BY <1>1, <1>3 DEF EntryOf
<1>5. \A q \in Lines : q[1] > p[1] => Line(q).name # e.name
  BY <1>1, <1>2 DEF Later
<1> QED
  BY <1>2, <1>3, <1>4, <1>5, LineFacts

LEMMA OpenedFacts == IInv => ListedFilesOpen
<1> SUFFICES ASSUME IInv, NEW o \in opened
             PROVE  /\ o.found = {o.asked}
                    /\ SpeltAlike =>
                         \A n \in (o.asked.layer + 1)..Layers, h \in Header :
                           Location(h) = Location(o.asked.header)
                           /\ h.dir = o.asked.header.dir => h \notin ToSet(tar[n])
  BY DEF ListedFilesOpen
<1>1. status = "published"
  BY DEF IInv, IndexIsLastLines
<1>2. o.asked \in index /\ o.found = {e \in index : e.name = o.asked.name}
  BY DEF IInv, ShownIsListed
<1>3. o.found = {o.asked}
  BY <1>1, <1>2, OneEntryForAName
<1> DEFINE a == o.asked
           g == o.asked.header
<1>4. /\ a.layer \in 1..Layers /\ g \in ToSet(tar[a.layer]) /\ g \in Header
      /\ a.name = HeaderName(g)
      /\ \A q \in Lines : q[1] > a.layer => Line(q).name # a.name
  BY <1>1, <1>2, IndexFacts
<1>5. ASSUME SpeltAlike, NEW n \in (a.layer + 1)..Layers, NEW h \in Header,
             Location(h) = Location(g), h.dir = g.dir, h \in ToSet(tar[n])
      PROVE  FALSE
  <2>1. n \in 1..Layers /\ n > a.layer /\ a.layer \in 1..Layers
    BY <1>4
  <2>2. g \in Headers /\ h \in Headers
    BY <1>4, <1>5, <2>1 DEF Headers
  <2>3. PICK rooted \in BOOLEAN : Spelt(rooted, g) /\ Spelt(rooted, h)
    BY <1>5, <2>2 DEF SpeltAlike, Spelt
  <2>4. HeaderName(h) = HeaderName(g)
    BY <1>4, <1>5, <2>3, NamesTellLocations
  <2>5. PICK q \in Lines : q[1] = n /\ Line(q) = EntryOf(h, n)
    BY <1>1, <1>5, <2>1, HeaderIsLine
  <2>6. Line(q).name = a.name
    BY <1>4, <2>4, <2>5 DEF EntryOf
  <2> QED
    BY <1>4, <2>1, <2>5, <2>6
<1> QED
  BY <1>3, <1>5

(* Opening what a listing showed finds that very entry, of the uppermost   *)
(* layer that has the file, for layers of any number and names spelt in    *)
(* any way: the map of the concatenator (concatenator.go:123) is keyed by  *)
(* the name that the normalisation (targzi.go:159-173) makes.              *)
THEOREM ListedFilesAlwaysOpen == Spec => []ListedFilesOpen
BY FileIndexInvariant, OpenedFacts, PTL

-----------------------------------------------------------------------------
(* What a client is shown that browses.                                    *)

(* Of the lines with a name one is the last.                               *)
LEMMA LastLineExists ==
  ASSUME IInv, NEW p \in Lines
  PROVE  \E q \in LastLines : Line(q).name = Line(p).name
<1> DEFINE Same == {q \in Lines : Line(q).name = Line(p).name}
           Below == {Layers - q[1] : q \in Same}
<1>1. \A q \in Same : /\ q \in Lines /\ Line(q).name = Line(p).name
                      /\ q[1] \in 1..Layers /\ q[2] \in 1..Len(entries[q[1]])
                      /\ Len(entries[q[1]]) \in Nat
  BY LineFacts, LinesFacts DEF IInv
<1>2. Below \subseteq Nat /\ Below # {} /\ p \in Same
  BY <1>1, LayersAssumption
<1>3. PICK top \in Same : \A q \in Same : Layers - top[1] <= Layers - q[1]
  <2>1. PICK l \in Below : \A y \in Below : l <= y
    BY <1>2, LeastNumber
  <2> QED
    BY <2>1
<1> DEFINE n == top[1]
           InTop == {q \in Same : q[1] = n}
           Behind == {Len(entries[n]) - q[2] : q \in InTop}
<1>4. Behind \subseteq Nat /\ Behind # {}
  BY <1>1, <1>3
<1>5. PICK last \in InTop : \A q \in InTop : Len(entries[n]) - last[2] <= Len(entries[n]) - q[2]
  <2>1. PICK l \in Behind : \A y \in Behind : l <= y
    BY <1>4, LeastNumber
  <2> QED
    BY <2>1
<1>6. last \in Same /\ last[1] = n
  BY <1>5
<1>7. ASSUME NEW q \in Lines, Later(q, last), Line(q).name = Line(last).name PROVE FALSE
  <2>1. q \in Same
    BY <1>1, <1>6, <1>7
  <2>2. q[1] > n \/ (q[1] = n /\ q[2] > last[2])
    BY <1>6, <1>7 DEF Later
  <2>3. CASE q[1] > n
    <3>1. Layers - n <= Layers - q[1] /\ n \in Nat /\ q[1] \in Nat
      BY <1>1, <1>3, <2>1
    <3> QED
      BY <2>3, <3>1, LayersAssumption
  <2>4. CASE q[1] = n /\ q[2] > last[2]
    <3>1. /\ Len(entries[n]) - last[2] <= Len(entries[n]) - q[2]
          /\ Len(entries[n]) \in Nat /\ q[2] \in Nat /\ last[2] \in Nat
      BY <1>1, <1>5, <1>6, <2>1, <2>4
    <3> QED
      BY <2>4, <3>1
  <2> QED
    BY <2>2, <2>3, <2>4
<1>8. last \in LastLines
  BY <1>1, <1>6, <1>7 DEF LastLines
<1> QED
  BY <1>1, <1>6, <1>8

(* What the property supposes: the client is through, the layers agree.    *)
Browsed(rooted) ==
  /\ status = "published" /\ Directories \subseteq listed
  /\ HasDirectories
  /\ \A h \in Headers : Spelt(rooted, h)

(* The header's file has been shown under the path of what contains it.    *)
IsShown(h) ==
  \E s \in shown :
    /\ s.path.parts = Container(Location(h))
    /\ Location(s.entry.header) = Location(h) /\ s.entry.header.dir = h.dir
    /\ s.entry.name = HeaderName(h)

LEMMA HeadersAreHeaders == IInv => Headers \subseteq Header
<1> SUFFICES ASSUME IInv, NEW n \in 1..Layers, NEW h \in ToSet(tar[n]) PROVE h \in Header
  BY DEF Headers
<1> QED
  BY LinesFacts DEF IInv, ToSet

(* It has been shown if the path of what contains it has been listed.      *)
LEMMA ShownUnder ==
  ASSUME IInv, NEW rooted \in BOOLEAN, Browsed(rooted), NEW h \in Headers,
         NEW path \in listed, Asked(path) = Parent(h), path.parts = Container(Location(h))
  PROVE  IsShown(h)
<1>1. PICK n \in 1..Layers : h \in ToSet(tar[n])
  BY DEF Headers
<1>2. PICK p \in Lines : Line(p) = EntryOf(h, n)
  BY <1>1, HeaderIsLine DEF Browsed
<1>3. PICK q \in LastLines : Line(q).name = Line(p).name
  BY <1>2, LastLineExists
<1> DEFINE e == Line(q)
           g == e.header
<1>4. e \in index /\ e.name = HeaderName(h)
  <2>1. Line(p).name = HeaderName(h)
    BY <1>2 DEF EntryOf
  <2> QED
    BY <1>3, <2>1 DEF IInv, IndexIsLastLines, Browsed
<1> HIDE DEF e
<1>5. /\ e.layer \in 1..Layers /\ g \in ToSet(tar[e.layer]) /\ g \in Header
      /\ e.name = HeaderName(g) /\ e.parent = Parent(g)
  BY <1>4, IndexFacts DEF Browsed
<1>6. g \in Headers /\ h \in Header /\ Spelt(rooted, g) /\ Spelt(rooted, h)
  BY <1>5, HeadersAreHeaders DEF Headers, Browsed
<1>7. Location(g) = Location(h) /\ (Location(h) = <<>> \/ g.dir = h.dir)
  <2>1. HeaderName(g) = HeaderName(h)
    BY <1>4, <1>5
  <2> HIDE DEF g
  <2> QED
    BY <1>5, <1>6, <2>1, NamesTellLocations
<1>8. g.dir = h.dir
  <2>1. (Location(g) = <<>> => g.dir) /\ (Location(h) = <<>> => h.dir)
    BY <1>6 DEF Browsed, HasDirectories
  <2>2. g.dir \in BOOLEAN /\ h.dir \in BOOLEAN
    BY <1>5, <1>6, HeaderFacts
  <2> QED
    BY <1>7, <2>1, <2>2
<1>9. e.parent = Asked(path)
  BY <1>5, <1>6, <1>7, NamesTellLocations
<1>10. [path |-> path, entry |-> e] \in shown
  BY <1>4, <1>9 DEF IInv, ShownIsListed
<1> QED
  BY <1>4, <1>7, <1>8, <1>10 DEF IsShown

(* By the depth: what contains it has been shown, and then listed.         *)
LEMMA AllIsShown ==
  ASSUME IInv, NEW rooted \in BOOLEAN, Browsed(rooted), NEW h \in Headers
  PROVE  IsShown(h)
<1> DEFINE S == {k \in Nat : \A g \in Headers : Len(Location(g)) <= k => IsShown(g)}
<1>1. \A g \in Headers : /\ g \in Header /\ Spelt(rooted, g)
                         /\ Location(g) \in Seq(Part) /\ Len(Location(g)) \in Nat
  BY HeadersAreHeaders, CleanIsLocation DEF Browsed
<1>2. ASSUME NEW g \in Headers, Container(Location(g)) = <<>> PROVE IsShown(g)
  <2>1. Parent(g) = Root
    BY <1>1, <1>2, NameFacts
  <2>2. Empty \in listed /\ Asked(Empty) = Root /\ Empty.parts = <<>>
    BY DEF Browsed, Directories, Asked, Empty, Name
  <2> QED
    BY <1>2, <2>1, <2>2, ShownUnder
<1>3. 0 \in S
  <2> SUFFICES ASSUME NEW g \in Headers, Len(Location(g)) <= 0 PROVE IsShown(g)
    OBVIOUS
  <2>1. Container(Location(g)) = <<>>
    BY <1>1, ContainerFacts
  <2> QED
    BY <1>2, <2>1
<1>4. ASSUME NEW k \in Nat \ {0}, k - 1 \in S PROVE k \in S
  <2> SUFFICES ASSUME NEW g \in Headers, Len(Location(g)) <= k PROVE IsShown(g)
    OBVIOUS
  <2>1. CASE Container(Location(g)) = <<>>
    BY <1>2, <2>1
  <2>2. CASE Container(Location(g)) # <<>>
    <3>1. PICK d \in Headers : d.dir /\ Location(d) = Container(Location(g))
      BY <2>2 DEF Browsed, HasDirectories
    <3>2. Len(Location(d)) = Len(Location(g)) - 1
      BY <1>1, <2>2, <3>1, ContainerFacts
    <3>3. Len(Location(d)) <= k - 1
      BY <1>1, <1>4, <3>2
    <3>4. IsShown(d)
      BY <1>4, <3>3
    <3>5. PICK s \in shown : s.entry.header.dir = d.dir /\ s.entry.name = HeaderName(d)
      BY <3>4 DEF IsShown
    <3>6. HeaderName(d) \in listed
      BY <3>1, <3>5 DEF Browsed, Directories
    <3>7. Parent(g) = HeaderName(d) /\ HeaderName(d) # Empty
      BY <1>1, <2>2, <3>1, NamesTellLocations
    <3>8. HeaderName(d).parts = Container(Location(g))
      <4>1. HeaderName(d) = Name(rooted, Location(d), d.dir)
        BY <1>1, <2>2, <3>1, NameFacts
      <4> QED
        BY <3>1, <4>1 DEF Name
    <3>9. Asked(HeaderName(d)) = Parent(g)
      BY <3>7 DEF Asked
    <3> QED
      BY <3>6, <3>8, <3>9, ShownUnder
  <2> QED
    BY <2>1, <2>2
<1> DEFINE n == Len(Location(h))
<1>5. n \in Nat
  BY <1>1
<1>6. \A k \in 1..n : k - 1 \in S => k \in S
  <2>1. \A k \in 1..n : k \in Nat \ {0}
    BY <1>5
  <2> HIDE DEF S
  <2> QED
    BY <1>4, <2>1
<1>7. n \in S
  <2> HIDE DEF S, n
  <2>1. \A k \in 0..n : k \in S
    BY <1>3, <1>5, <1>6, UpTo
  <2> QED
    BY <1>5, <2>1
<1> QED
  BY <1>5, <1>7

LEMMA BrowsingFacts == IInv => BrowsingShowsTheImage
<1> DEFINE Seen == {<<s.path.parts, Location(s.entry.header), s.entry.header.dir>> : s \in shown}
           There == {<<Container(Location(h)), Location(h), h.dir>> : h \in Headers}
<1> SUFFICES ASSUME IInv, status = "published", Directories \subseteq listed,
                    SpeltAlike, HasDirectories
             PROVE  Seen = There
  BY DEF BrowsingShowsTheImage
<1>1. PICK rooted \in BOOLEAN : \A h \in Headers : Spelt(rooted, h)
  BY DEF SpeltAlike, Spelt
<1>2. Browsed(rooted)
  BY <1>1 DEF Browsed
<1>3. ASSUME NEW h \in Headers
      PROVE  <<Container(Location(h)), Location(h), h.dir>> \in Seen
  BY <1>2, AllIsShown DEF IsShown
<1>4. ASSUME NEW s \in shown
      PROVE  <<s.path.parts, Location(s.entry.header), s.entry.header.dir>> \in There
  <2> DEFINE g == s.entry.header
  <2>1. s.path \in listed /\ s.entry \in index /\ s.entry.parent = Asked(s.path)
    BY DEF IInv, ShownIsListed
  <2>2. g \in Headers /\ g \in Header /\ s.entry.parent = Parent(g)
    BY <2>1, IndexFacts DEF Headers
  <2>3. Parent(g) = IF Container(Location(g)) = <<>> THEN Root
                    ELSE Name(rooted, Container(Location(g)), TRUE)
    BY <1>1, <2>2, NameFacts
  <2>4. Parent(g).parts = Container(Location(g))
    BY <2>3 DEF Root, Name
  <2>5. Asked(s.path).parts = s.path.parts
    BY DEF Asked, Empty, Root, Name
  <2>6. s.path.parts = Container(Location(g))
    BY <2>1, <2>2, <2>4, <2>5
  <2> QED
    BY <2>2, <2>6
<1> QED
  BY <1>3, <1>4

(* A client that has listed all directories it came to has been shown all  *)
(* there is in the image and nothing elsewhere, for directories of any     *)
(* depth and names spelt in any way: BuildIndex gives an entry the parent  *)
(* that is its directory's own name (targzi.go:159-173).                   *)
THEOREM BrowsingAlwaysShowsTheImage == Spec => []BrowsingShowsTheImage
BY FileIndexInvariant, BrowsingFacts, PTL
=============================================================================
