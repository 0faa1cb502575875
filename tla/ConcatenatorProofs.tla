------------------------- MODULE ConcatenatorProofs -------------------------
(***************************************************************************)
(* Proofs about Concatenator, for any tree of names, and any number of     *)
(* layers with any number of lines.                                        *)
(***************************************************************************)
EXTENDS Concatenator, SequenceTheorems, TLAPS

-----------------------------------------------------------------------------
(* What the scanner has read of a layer.                                   *)
Read(i) == IF i = pos THEN Lines(i) \ todo ELSE Lines(i)

HasRead(i, k) == \E l \in Read(i) : IsEntry(l) /\ KeyOf(l) = k

DeletesRead(i, k) == \E l \in Read(i) : DeletesKey(l, k)

(* The two loops.                                                          *)
LoopsInOrder ==
  /\ pos > 0 => todo \subseteq Lines(pos)
  /\ result = "published" => pos = Layers /\ todo = {}

(* What is in the map survives in what was read.                           *)
EntriesAreReal ==
  long = {} =>
    \A k \in Key :
      fileMap[k] # NoDigest =>
        \E i \in 1..pos :
          /\ manifest[i] = fileMap[k]
          /\ Has(i, k)
          /\ \A j \in (i + 1)..pos : ~HasRead(j, k) /\ ~DeletesRead(j, k)

(* What was read and survives in all of the layers above is in the map.    *)
EntriesAreKept ==
  \A k \in Key, i \in 1..pos :
    /\ HasRead(i, k)
    /\ manifest[i] \notin long
    /\ \A j \in (i + 1)..pos : ~Has(j, k) /\ ~Deletes(j, k)
    => fileMap[k] = manifest[i]

ParentKey(k) == [path |-> Front(k.path), dir |-> TRUE]

(* The directory of an entry is in the map, or about to be read.           *)
ParentsAreKept ==
  long = {} /\ (\A d \in Digest : NamesDirectories(content[d])) =>
    \A k \in Key :
      fileMap[k] # NoDigest /\ Len(k.path) > 1 =>
        \/ fileMap[ParentKey(k)] # NoDigest
        \/ [kind |-> "dir", path |-> Front(k.path)] \in todo

IInv == TypeOK /\ LoopsInOrder /\ EntriesAreReal /\ EntriesAreKept /\ ParentsAreKept

-----------------------------------------------------------------------------
(* A line has a key, and a path is a sequence.                             *)
LEMMA LineFacts ==
  ASSUME NEW l \in Line
  PROVE  /\ l.path \in Path /\ KeyOf(l) \in Key
         /\ l = [kind |-> l.kind, path |-> l.path]
         /\ l.kind \in {"file", "dir", "whiteout", "opaque"}
BY DEF Line, Key, KeyOf

LEMMA KeyFacts ==
  ASSUME NEW k \in Key
  PROVE  k.path \in Path /\ k.dir \in BOOLEAN /\ k = [path |-> k.path, dir |-> k.dir]
BY DEF Key

LEMMA PathFacts ==
  ASSUME NEW p \in Path
  PROVE  /\ p \in Seq(Name)
         /\ Len(p) \in 0..Depth
         /\ p \in [1..Len(p) -> Name]
<1>1. PICK n \in 0..Depth : p \in [1..n -> Name]
  BY DEF Path
<1> QED
  BY <1>1, BoundsAssumption

(* The directory a path lies in: what contains it contains the path.       *)
LEMMA FrontFacts ==
  ASSUME NEW p \in Path, NEW q \in Path, Len(p) > 1
  PROVE  /\ Front(p) \in Path /\ Front(p) # p /\ Front(p) # <<>>
         /\ IsPrefix(q, Front(p)) => IsPrefix(q, p) /\ q # p
<1> DEFINE f == Front(p)
<1>1. p \in Seq(Name) /\ q \in Seq(Name) /\ Len(p) \in 0..Depth /\ Len(q) \in Nat
  BY PathFacts, BoundsAssumption
<1>2. /\ f \in Seq(Name)
      /\ Len(f) = Len(p) - 1
      /\ \A i \in 1..(Len(p) - 1) : f[i] = p[i]
  BY <1>1, BoundsAssumption DEF Front
<1>3. f \in Path /\ f # p /\ f # <<>>
  <2>1. f \in [1..(Len(p) - 1) -> Name] /\ Len(p) - 1 \in 0..Depth
    BY <1>1, <1>2, BoundsAssumption
  <2> QED
    BY <2>1, <1>1, <1>2, BoundsAssumption DEF Path
<1>4. ASSUME IsPrefix(q, f) PROVE IsPrefix(q, p) /\ q # p
  <2>1. Len(q) <= Len(f) /\ SubSeq(q, 1, Len(q)) = SubSeq(f, 1, Len(q))
    BY <1>4 DEF IsPrefix
  <2>2. SubSeq(f, 1, Len(q)) = SubSeq(p, 1, Len(q))
    BY <1>1, <1>2, <2>1, BoundsAssumption
  <2> QED
    BY <1>1, <1>2, <2>1, <2>2, BoundsAssumption DEF IsPrefix
<1> QED
  BY <1>3, <1>4

(* A path is a prefix of itself.                                           *)
LEMMA PrefixReflexive ==
  ASSUME NEW p \in Path
  PROVE  IsPrefix(p, p)
BY PathFacts, BoundsAssumption DEF IsPrefix

-----------------------------------------------------------------------------
(* What a layer has, and deletes, depends on its digest only; what was     *)
(* read of it is part of it.                                               *)
LEMMA LayerFacts ==
  ASSUME NEW i, NEW j, NEW k, manifest[i] = manifest[j]
  PROVE  /\ Lines(i) = Lines(j)
         /\ Has(i, k) <=> Has(j, k)
         /\ Deletes(i, k) <=> Deletes(j, k)
         /\ HasRead(i, k) => Has(i, k)
         /\ DeletesRead(i, k) => Deletes(i, k)
BY DEF Lines, Has, Deletes, HasRead, DeletesRead, Read

(* The invariant holds when the handler is called.                         *)
LEMMA IInvInit == Init => IInv
<1> SUFFICES ASSUME Init PROVE IInv
  OBVIOUS
<1>1. TypeOK
  <2>1. content \in [Digest -> SUBSET Line]
    BY DEF Init, kSubset
  <2> QED
    BY <2>1, BoundsAssumption DEF Init, TypeOK
<1>2. LoopsInOrder
  BY DEF Init, LoopsInOrder
<1>3. \A k \in Key : fileMap[k] = NoDigest
  BY DEF Init
<1>4. EntriesAreReal /\ ParentsAreKept
  BY <1>3 DEF EntriesAreReal, ParentsAreKept
<1>5. EntriesAreKept
  BY DEF Init, EntriesAreKept
<1> QED
  BY <1>1, <1>2, <1>4, <1>5 DEF IInv

(* What reading a line does to the map, whichever kind it is of.           *)
ReadLine(l) == WhiteoutOpaqueDir(l) \/ Whiteout(l) \/ Entry(l)

LEMMA ReadLineEffect ==
  ASSUME TypeOK, LoopsInOrder, NEW l \in todo, ReadLine(l)
  PROVE  /\ pos \in 1..Layers /\ l \in Lines(pos) /\ l \in Line
         /\ result = "none"
         /\ todo' = todo \ {l}
         /\ UNCHANGED <<inputs, pos, result>>
         /\ fileMap' \in [Key -> Digest \union {NoDigest}]
         /\ \A k \in Key :
              fileMap'[k] =
                IF IsEntry(l) /\ KeyOf(l) = k THEN manifest[pos]
                ELSE IF DeletesKey(l, k) /\ fileMap[k] # manifest[pos] THEN NoDigest
                ELSE fileMap[k]
<1>1. pos \in 1..Layers /\ l \in Lines(pos) /\ l \in Line /\ manifest[pos] \in Digest
  BY BoundsAssumption DEF TypeOK, LoopsInOrder
<1>2. result = "none" /\ todo' = todo \ {l} /\ UNCHANGED <<inputs, pos, result>>
  BY DEF ReadLine, WhiteoutOpaqueDir, Whiteout, Entry, Scan
<1>3. /\ KeyOf(l) \in Key
      /\ fileMap \in [Key -> Digest \union {NoDigest}]
  BY <1>1, LineFacts DEF TypeOK
<1> DEFINE Effect ==
      /\ fileMap' \in [Key -> Digest \union {NoDigest}]
      /\ \A k \in Key :
           fileMap'[k] =
             IF IsEntry(l) /\ KeyOf(l) = k THEN manifest[pos]
             ELSE IF DeletesKey(l, k) /\ fileMap[k] # manifest[pos] THEN NoDigest
             ELSE fileMap[k]
<1>4. CASE WhiteoutOpaqueDir(l)
  BY <1>1, <1>2, <1>3, <1>4 DEF WhiteoutOpaqueDir, FromBelow, hash, IsEntry, DeletesKey
<1>5. CASE Whiteout(l)
  <2>1. KeyOf(l) = [path |-> l.path, dir |-> FALSE] /\ l.kind = "whiteout"
    BY <1>5 DEF Whiteout, KeyOf
  <2> QED
    BY <1>1, <1>2, <1>3, <1>5, <2>1 DEF Whiteout, FromBelow, hash, IsEntry, DeletesKey
<1>6. CASE Entry(l)
  BY <1>1, <1>2, <1>3, <1>6 DEF Entry, hash, IsEntry, DeletesKey, KeyOf
<1> QED
  BY <1>1, <1>2, <1>4, <1>5, <1>6 DEF ReadLine

(* The other steps.                                                        *)
Rest == TooLong \/ Upload \/ ReturnError \/ UNCHANGED vars

LEMMA NextCases ==
  ASSUME [Next]_vars
  PROVE  Download \/ (\E l \in todo : ReadLine(l)) \/ Rest
BY DEF Next, ReadLine, Rest

(* Every step keeps the types, and the loops in order.                     *)
LEMMA LoopStep ==
  ASSUME TypeOK, LoopsInOrder, [Next]_vars
  PROVE  TypeOK' /\ LoopsInOrder'
<1>1. CASE Download
  <2>1. pos + 1 \in 1..Layers /\ manifest[pos + 1] \in Digest
    BY <1>1, BoundsAssumption DEF Download, TypeOK
  <2> QED
    BY <1>1, <2>1, BoundsAssumption DEF Download, TypeOK, LoopsInOrder, inputs, Lines
<1>2. CASE \E l \in todo : ReadLine(l)
  <2>1. PICK l \in todo : ReadLine(l)
    BY <1>2
  <2> QED
    BY <2>1, ReadLineEffect, BoundsAssumption DEF TypeOK, LoopsInOrder, inputs, Lines
<1>3. CASE Rest
  BY <1>3, BoundsAssumption
  DEF Rest, TooLong, Upload, ReturnError, vars, TypeOK, LoopsInOrder, inputs, Lines
<1> QED
  BY <1>1, <1>2, <1>3, NextCases

-----------------------------------------------------------------------------
(* How the lines that were read grow.                                      *)
LEMMA InputsFixed ==
  ASSUME UNCHANGED inputs, NEW i, NEW k
  PROVE  /\ Lines(i)' = Lines(i)
         /\ Has(i, k)' <=> Has(i, k)
         /\ Deletes(i, k)' <=> Deletes(i, k)
BY DEF inputs, Lines, Has, Deletes

LEMMA ReadAfterDownload ==
  ASSUME Download, TypeOK, NEW j \in 1..pos', NEW k
  PROVE  /\ pos' = pos + 1 /\ pos \in Nat
         /\ j = pos' => ~HasRead(j, k)' /\ ~DeletesRead(j, k)'
         /\ j # pos' => /\ j \in 1..pos
                        /\ HasRead(j, k)' <=> HasRead(j, k)
                        /\ DeletesRead(j, k)' <=> DeletesRead(j, k)
<1>1. /\ pos' = pos + 1 /\ pos \in Nat /\ todo = {}
      /\ todo' = content[manifest[pos + 1]] /\ UNCHANGED inputs
  BY BoundsAssumption DEF Download, TypeOK
<1>2. CASE j = pos'
  <2>1. Read(j)' = {}
    BY <1>1, <1>2 DEF Read, Lines, inputs
  <2> QED
    BY <1>1, <1>2, <2>1 DEF HasRead, DeletesRead
<1>3. CASE j # pos'
  <2>1. j \in 1..pos /\ Read(j)' = Read(j)
    BY <1>1, <1>3 DEF Read, Lines, inputs
  <2> QED
    BY <1>1, <1>3, <2>1 DEF HasRead, DeletesRead
<1> QED
  BY <1>2, <1>3

LEMMA ReadAfterLine ==
  ASSUME TypeOK, LoopsInOrder, NEW l \in todo, ReadLine(l), NEW j, NEW k
  PROVE  /\ HasRead(j, k)' <=> HasRead(j, k) \/ (j = pos /\ IsEntry(l) /\ KeyOf(l) = k)
         /\ DeletesRead(j, k)' <=> DeletesRead(j, k) \/ (j = pos /\ DeletesKey(l, k))
<1>1. Read(j)' = IF j = pos THEN Read(j) \union {l} ELSE Read(j)
  BY ReadLineEffect DEF Read, Lines, inputs
<1> QED
  BY <1>1 DEF HasRead, DeletesRead

(* Nothing gets into the map, or stays in it, that does not survive.       *)
LEMMA RealStep ==
  ASSUME IInv, [Next]_vars
  PROVE  EntriesAreReal'
<1> SUFFICES ASSUME long' = {}, NEW k \in Key, fileMap'[k] # NoDigest
             PROVE  \E i \in 1..pos' :
                      /\ manifest'[i] = fileMap'[k]
                      /\ Has(i, k)'
                      /\ \A j \in (i + 1)..pos' : ~HasRead(j, k)' /\ ~DeletesRead(j, k)'
  BY DEF EntriesAreReal
<1>0. TypeOK /\ LoopsInOrder /\ pos \in Nat
  BY BoundsAssumption DEF IInv, TypeOK
<1>1. CASE Download
  <2>1. UNCHANGED <<inputs, fileMap>> /\ long = {}
    BY <1>1 DEF Download, inputs
  <2>2. PICK i \in 1..pos :
          /\ manifest[i] = fileMap[k]
          /\ Has(i, k)
          /\ \A j \in (i + 1)..pos : ~HasRead(j, k) /\ ~DeletesRead(j, k)
    BY <2>1 DEF IInv, EntriesAreReal
  <2>3. manifest'[i] = fileMap'[k] /\ Has(i, k)' /\ i \in 1..pos'
    <3>1. pos' = pos + 1
      BY <1>1 DEF Download
    <3> QED
      BY <1>0, <2>1, <2>2, <3>1, InputsFixed DEF inputs
  <2>4. ASSUME NEW j \in (i + 1)..pos' PROVE ~HasRead(j, k)' /\ ~DeletesRead(j, k)'
    <3>1. j \in 1..pos' /\ (j # pos' => j \in (i + 1)..pos)
      BY <1>0, <1>1, <2>4 DEF Download
    <3> QED
      BY <1>0, <1>1, <2>2, <3>1, ReadAfterDownload
  <2> QED
    BY <2>3, <2>4
<1>2. CASE \E l \in todo : ReadLine(l)
  <2>1. PICK l \in todo : ReadLine(l)
    BY <1>2
  <2>2. /\ pos \in 1..Layers /\ l \in Lines(pos) /\ UNCHANGED <<inputs, pos>>
        /\ fileMap'[k] =
             IF IsEntry(l) /\ KeyOf(l) = k THEN manifest[pos]
             ELSE IF DeletesKey(l, k) /\ fileMap[k] # manifest[pos] THEN NoDigest
             ELSE fileMap[k]
    BY <1>0, <2>1, ReadLineEffect
  <2> PICK p \in 1..Layers : p = pos
    BY <2>2
  <2>3. ASSUME Has(p, k), fileMap'[k] = manifest[p]
        PROVE  /\ p \in 1..pos' /\ manifest'[p] = fileMap'[k] /\ Has(p, k)'
               /\ (p + 1)..pos' = {}
    BY <1>0, <2>2, <2>3, InputsFixed, BoundsAssumption DEF inputs
  <2>4. CASE IsEntry(l) /\ KeyOf(l) = k
    <3>1. Has(p, k)
      BY <2>2, <2>4 DEF Has
    <3> QED
      BY <2>2, <2>3, <2>4, <3>1
  <2>5. CASE ~(IsEntry(l) /\ KeyOf(l) = k)
    <3>1. fileMap'[k] = fileMap[k] /\ long = {}
      BY <2>2, <2>5 DEF inputs
    <3>2. PICK i \in 1..pos :
            /\ manifest[i] = fileMap[k]
            /\ Has(i, k)
            /\ \A j \in (i + 1)..pos : ~HasRead(j, k) /\ ~DeletesRead(j, k)
      BY <3>1 DEF IInv, EntriesAreReal
    <3>3. CASE fileMap[k] = manifest[pos]
      <4>1. Has(p, k)
        BY <3>2, <3>3, LayerFacts
      <4> QED
        BY <2>3, <3>1, <3>3, <4>1
    <3>4. CASE fileMap[k] # manifest[pos]
      <4>1. ~DeletesKey(l, k)
        BY <2>2, <2>5, <3>4
      <4>2. \A j \in (i + 1)..pos : ~HasRead(j, k)' /\ ~DeletesRead(j, k)'
        BY <1>0, <2>1, <2>5, <3>2, <4>1, ReadAfterLine
      <4>3. i \in 1..pos' /\ manifest'[i] = fileMap'[k] /\ Has(i, k)' /\ pos' = pos
        BY <2>2, <3>1, <3>2, InputsFixed DEF inputs
      <4> QED
        BY <4>2, <4>3
    <3> QED
      BY <3>3, <3>4
  <2> QED
    BY <2>4, <2>5
<1>3. CASE Rest
  <2>1. UNCHANGED <<inputs, pos, todo, fileMap>>
    BY <1>3 DEF Rest, TooLong, Upload, ReturnError, vars, inputs
  <2> QED
    BY <2>1 DEF IInv, EntriesAreReal, HasRead, DeletesRead, Read, Has, Lines, inputs
<1> QED
  BY <1>1, <1>2, <1>3, NextCases

(* What has been read stays in the map until a layer replaces or deletes   *)
(* it.                                                                     *)
LEMMA KeptStep ==
  ASSUME IInv, [Next]_vars
  PROVE  EntriesAreKept'
<1> SUFFICES ASSUME NEW k \in Key, NEW i \in 1..pos',
                    HasRead(i, k)',
                    manifest'[i] \notin long',
                    \A j \in (i + 1)..pos' : ~Has(j, k)' /\ ~Deletes(j, k)'
             PROVE  fileMap'[k] = manifest'[i]
  BY DEF EntriesAreKept
<1>0. TypeOK /\ LoopsInOrder /\ pos \in Nat
  BY BoundsAssumption DEF IInv, TypeOK
<1>1. CASE Download
  <2>1. UNCHANGED <<inputs, fileMap>> /\ pos' = pos + 1
    BY <1>1 DEF Download, inputs
  <2>2. i \in 1..pos /\ HasRead(i, k)
    BY <1>0, <1>1, ReadAfterDownload
  <2>3. \A j \in (i + 1)..pos : j \in (i + 1)..pos' /\ ~Has(j, k) /\ ~Deletes(j, k)
    BY <1>0, <2>1, <2>2, InputsFixed
  <2> QED
    BY <2>1, <2>2, <2>3 DEF IInv, EntriesAreKept, inputs
<1>2. CASE \E l \in todo : ReadLine(l)
  <2>1. PICK l \in todo : ReadLine(l)
    BY <1>2
  <2>2. /\ pos \in 1..Layers /\ l \in Lines(pos) /\ UNCHANGED <<inputs, pos>>
        /\ fileMap'[k] =
             IF IsEntry(l) /\ KeyOf(l) = k THEN manifest[pos]
             ELSE IF DeletesKey(l, k) /\ fileMap[k] # manifest[pos] THEN NoDigest
             ELSE fileMap[k]
    BY <1>0, <2>1, ReadLineEffect
  <2>3. i \in 1..pos /\ \A j \in (i + 1)..pos : ~Has(j, k) /\ ~Deletes(j, k)
    BY <2>2, InputsFixed
  <2>4. CASE IsEntry(l) /\ KeyOf(l) = k
    <3>1. Has(pos, k)
      BY <2>2, <2>4 DEF Has
    <3>2. i = pos
      BY <1>0, <2>3, <3>1
    <3> QED
      BY <2>2, <2>4, <3>2 DEF inputs
  <2>5. CASE ~(IsEntry(l) /\ KeyOf(l) = k)
    <3>1. HasRead(i, k)
      BY <1>0, <2>1, <2>5, ReadAfterLine
    <3>2. fileMap[k] = manifest[i]
      BY <2>2, <2>3, <3>1 DEF IInv, EntriesAreKept, inputs
    <3>3. i = pos \/ ~DeletesKey(l, k)
      BY <1>0, <2>2, <2>3 DEF Deletes
    <3> QED
      BY <2>2, <2>5, <3>2, <3>3 DEF inputs
  <2> QED
    BY <2>4, <2>5
<1>3. CASE Rest
  <2>1. CASE TooLong
    <3>1. UNCHANGED <<inputs, pos, fileMap>> /\ manifest[pos] \in long
      BY <2>1 DEF TooLong, hash
    <3>2. i # pos
      BY <3>1 DEF inputs
    <3>3. HasRead(i, k)
      BY <3>1, <3>2 DEF HasRead, Read, Lines, inputs
    <3> QED
      BY <3>1, <3>3, InputsFixed DEF IInv, EntriesAreKept, inputs
  <2>2. CASE Upload \/ ReturnError \/ UNCHANGED vars
    <3>1. UNCHANGED <<inputs, pos, todo, fileMap>>
      BY <2>2 DEF Upload, ReturnError, vars, inputs
    <3> QED
      BY <3>1 DEF IInv, EntriesAreKept, HasRead, Read, Has, Deletes, Lines, inputs
  <2> QED
    BY <1>3, <2>1, <2>2 DEF Rest
<1> QED
  BY <1>1, <1>2, <1>3, NextCases

-----------------------------------------------------------------------------
(* What lies between an entry's directory and its deletion: a marker that  *)
(* deletes the directory's key deletes the entry's too.                    *)
LEMMA ParentFacts ==
  ASSUME NEW k \in Key, Len(k.path) > 1, NEW l \in Line
  PROVE  /\ ParentKey(k) \in Key
         /\ DeletesKey(l, ParentKey(k)) => DeletesKey(l, k)
         /\ IsEntry(l) /\ KeyOf(l) = ParentKey(k) =>
              l = [kind |-> "dir", path |-> Front(k.path)]
<1>1. /\ k.path \in Path /\ l.path \in Path /\ Front(k.path) \in Path
      /\ IsPrefix(l.path, Front(k.path)) => IsPrefix(l.path, k.path) /\ l.path # k.path
  BY LineFacts, KeyFacts, FrontFacts
<1>2. ParentKey(k) \in Key
  BY <1>1 DEF ParentKey, Key
<1>3. ASSUME DeletesKey(l, ParentKey(k)) PROVE DeletesKey(l, k)
  <2>1. l.kind = "opaque" /\ IsPrefix(l.path, Front(k.path))
    BY <1>3 DEF DeletesKey, ParentKey, KeyOf
  <2> QED
    BY <1>1, <2>1 DEF DeletesKey
<1>4. ASSUME IsEntry(l), KeyOf(l) = ParentKey(k)
      PROVE  l = [kind |-> "dir", path |-> Front(k.path)]
  <2>1. l.path = Front(k.path) /\ l.kind = "dir"
    BY <1>4 DEF KeyOf, ParentKey
  <2> QED
    BY <2>1, LineFacts
<1> QED
  BY <1>2, <1>3, <1>4

(* In a layer with headers for directories, an entry has its directory.    *)
LEMMA LayerHasParents ==
  ASSUME TypeOK, NEW i \in 1..Layers, NEW k \in Key, Len(k.path) > 1, Has(i, k),
         \A d \in Digest : NamesDirectories(content[d])
  PROVE  [kind |-> "dir", path |-> Front(k.path)] \in Lines(i)
<1>1. PICK l \in Lines(i) : IsEntry(l) /\ KeyOf(l) = k
  BY DEF Has
<1>2. manifest[i] \in Digest /\ NamesDirectories(Lines(i)) /\ l \in Line
  BY <1>1 DEF TypeOK, Lines
<1>3. l.path = k.path /\ l.kind # "opaque"
  BY <1>1 DEF KeyOf, IsEntry
<1>4. k.path # <<>> /\ Front(k.path) # <<>>
  <2>1. k.path \in Path
    BY KeyFacts
  <2> QED
    BY <2>1, FrontFacts
<1>5. Container(l) = Front(k.path)
  BY <1>3, <1>4 DEF Container
<1> QED
  BY <1>1, <1>2, <1>4, <1>5 DEF NamesDirectories

(* An entry of the layer that is being read has its directory there, which *)
(* is in the map, as this layer's, or not read yet.                        *)
LEMMA OwnParent ==
  ASSUME IInv, NEW k \in Key, Len(k.path) > 1, pos \in 1..Layers, Has(pos, k), long = {},
         \A d \in Digest : NamesDirectories(content[d])
  PROVE  \/ fileMap[ParentKey(k)] = manifest[pos]
         \/ [kind |-> "dir", path |-> Front(k.path)] \in todo
<1> DEFINE m == [kind |-> "dir", path |-> Front(k.path)]
<1>1. m \in Lines(pos)
  BY LayerHasParents DEF IInv
<1>2. CASE m \notin todo
  <2>1. m \in Read(pos)
    BY <1>1, <1>2 DEF Read
  <2>2. IsEntry(m) /\ KeyOf(m) = ParentKey(k)
    BY DEF IsEntry, KeyOf, ParentKey
  <2>3. HasRead(pos, ParentKey(k))
    BY <2>1, <2>2 DEF HasRead
  <2>4. ParentKey(k) \in Key
    <3>1. k.path \in Path /\ Front(k.path) \in Path
      BY KeyFacts, FrontFacts
    <3> QED
      BY <3>1 DEF ParentKey, Key
  <2>5. (pos + 1)..pos = {} /\ pos \in 1..pos
    BY BoundsAssumption
  <2> QED
    BY <2>3, <2>4, <2>5 DEF IInv, EntriesAreKept
<1> QED
  BY <1>2

(* No step separates an entry from its directory.                          *)
LEMMA ParentStep ==
  ASSUME IInv, [Next]_vars
  PROVE  ParentsAreKept'
<1> SUFFICES ASSUME long' = {}, \A d \in Digest : NamesDirectories(content'[d]),
                    NEW k \in Key, fileMap'[k] # NoDigest, Len(k.path) > 1
             PROVE  \/ fileMap'[ParentKey(k)] # NoDigest
                    \/ [kind |-> "dir", path |-> Front(k.path)] \in todo'
  BY DEF ParentsAreKept, ParentKey
<1>0. TypeOK /\ LoopsInOrder /\ ParentsAreKept
  BY DEF IInv
<1>1. CASE Download
  <2>1. UNCHANGED <<inputs, fileMap>> /\ todo = {}
    BY <1>1 DEF Download, inputs
  <2> QED
    BY <1>0, <2>1 DEF ParentsAreKept, inputs
<1>2. CASE \E l \in todo : ReadLine(l)
  <2>1. PICK l \in todo : ReadLine(l)
    BY <1>2
  <2> DEFINE m == [kind |-> "dir", path |-> Front(k.path)]
  <2>2. /\ pos \in 1..Layers /\ l \in Lines(pos) /\ l \in Line
        /\ UNCHANGED <<inputs, pos>> /\ todo' = todo \ {l}
        /\ \A q \in Key :
             fileMap'[q] =
               IF IsEntry(l) /\ KeyOf(l) = q THEN manifest[pos]
               ELSE IF DeletesKey(l, q) /\ fileMap[q] # manifest[pos] THEN NoDigest
               ELSE fileMap[q]
    BY <1>0, <2>1, ReadLineEffect
  <2>3. /\ long = {} /\ \A d \in Digest : NamesDirectories(content[d])
        /\ manifest[pos] \in Digest /\ manifest[pos] # NoDigest
    BY <1>0, <2>2, NoDigestAssumption DEF inputs, TypeOK
  <2>4. /\ ParentKey(k) \in Key
        /\ DeletesKey(l, ParentKey(k)) => DeletesKey(l, k)
    BY <2>2, ParentFacts
  <2>5. ASSUME l = m PROVE fileMap'[ParentKey(k)] # NoDigest
    <3>1. IsEntry(l) /\ KeyOf(l) = ParentKey(k)
      BY <2>5 DEF IsEntry, KeyOf, ParentKey
    <3> QED
      BY <2>2, <2>3, <2>4, <3>1
  <2>6. CASE Has(pos, k)
    <3>1. fileMap[ParentKey(k)] = manifest[pos] \/ m \in todo
      BY <2>2, <2>3, <2>6, OwnParent
    <3> QED
      BY <2>2, <2>3, <2>4, <2>5, <3>1
  <2>7. CASE ~Has(pos, k)
    <3>1. ~(IsEntry(l) /\ KeyOf(l) = k)
      BY <2>2, <2>7 DEF Has
    <3>2. fileMap'[k] = fileMap[k] /\ fileMap[k] # NoDigest
      BY <2>2, <3>1
    <3>3. fileMap[k] # manifest[pos]
      <4>1. PICK i \in 1..pos : manifest[i] = fileMap[k] /\ Has(i, k)
        BY <2>3, <3>2 DEF IInv, EntriesAreReal
      <4> QED
        BY <2>7, <4>1, LayerFacts
    <3>4. ~DeletesKey(l, k) /\ ~DeletesKey(l, ParentKey(k))
      BY <2>2, <2>4, <3>1, <3>2, <3>3
    <3>5. fileMap[ParentKey(k)] # NoDigest \/ m \in todo
      BY <1>0, <2>3, <3>2 DEF ParentsAreKept
    <3> QED
      BY <2>2, <2>3, <2>4, <2>5, <3>4, <3>5
  <2> QED
    BY <2>6, <2>7
<1>3. CASE Rest
  <2>1. UNCHANGED <<inputs, fileMap, todo>>
    BY <1>3 DEF Rest, TooLong, Upload, ReturnError, vars, inputs
  <2> QED
    BY <1>0, <2>1 DEF ParentsAreKept, inputs
<1> QED
  BY <1>1, <1>2, <1>3, NextCases

-----------------------------------------------------------------------------
(* The inductive invariant holds.                                          *)
THEOREM Inductive == Spec => []IInv
<1>1. IInv /\ [Next]_vars => IInv'
  BY LoopStep, RealStep, KeptStep, ParentStep DEF IInv
<1> QED
  BY <1>1, IInvInit, PTL DEF Spec

(* Every variable keeps its type.                                          *)
THEOREM TypeCorrect == Spec => []TypeOK
<1>1. IInv => TypeOK
  BY DEF IInv
<1> QED
  BY <1>1, Inductive, PTL

(* At the end all lines have been read.                                    *)
LEMMA AllRead ==
  ASSUME IInv, result = "published", NEW i, NEW k
  PROVE  /\ pos = Layers
         /\ HasRead(i, k) <=> Has(i, k)
         /\ DeletesRead(i, k) <=> Deletes(i, k)
<1>1. pos = Layers /\ todo = {}
  BY DEF IInv, LoopsInOrder
<1>2. Read(i) = Lines(i)
  BY <1>1 DEF Read
<1> QED
  BY <1>1, <1>2 DEF HasRead, DeletesRead, Has, Deletes

(* What is published is what survives the lines of each layer, applied all *)
(* at once.                                                                *)
LEMMA PublishedSurvives ==
  ASSUME IInv, result = "published", long = {}, NEW k \in Key, fileMap[k] # NoDigest
  PROVE  \E i \in 1..Layers : manifest[i] = fileMap[k] /\ SurvivesIn(i, k)
<1>1. PICK i \in 1..pos :
        /\ manifest[i] = fileMap[k]
        /\ Has(i, k)
        /\ \A j \in (i + 1)..pos : ~HasRead(j, k) /\ ~DeletesRead(j, k)
  BY DEF IInv, EntriesAreReal
<1> QED
  BY <1>1, AllRead DEF SurvivesIn

LEMMA SurvivorsPublished ==
  ASSUME IInv, result = "published", NEW k \in Key, NEW i \in 1..Layers,
         manifest[i] \notin long, SurvivesIn(i, k)
  PROVE  fileMap[k] = manifest[i]
BY AllRead DEF SurvivesIn, IInv, EntriesAreKept

LEMMA OrderHolds == IInv => OrderDoesNotMatter
<1> SUFFICES ASSUME IInv, result = "published", long = {}, NEW k \in Key, NEW d \in Digest
             PROVE  fileMap[k] = d <=>
                      \E i \in 1..Layers : manifest[i] = d /\ SurvivesIn(i, k)
  BY DEF OrderDoesNotMatter
<1>1. fileMap[k] = d => \E i \in 1..Layers : manifest[i] = d /\ SurvivesIn(i, k)
  BY PublishedSurvives, NoDigestAssumption
<1>2. ASSUME NEW i \in 1..Layers, manifest[i] = d, SurvivesIn(i, k) PROVE fileMap[k] = d
  BY <1>2, SurvivorsPublished
<1> QED
  BY <1>1, <1>2

(* What a container sees is deleted by no layer above, but for the key of  *)
(* a directory that becomes opaque.                                        *)
LEMMA NothingLostHolds == IInv => NothingIsLost
<1> SUFFICES ASSUME IInv, result = "published", NEW k \in Key, NEW i \in 1..Layers,
                    SeenIn(i, k), manifest[i] \notin long,
                    \A j \in (i + 1)..Layers :
                      k.dir => [kind |-> "opaque", path |-> k.path] \notin Lines(j)
             PROVE  fileMap[k] = manifest[i]
  BY DEF NothingIsLost
<1>1. ASSUME NEW j \in (i + 1)..Layers PROVE ~Has(j, k) /\ ~Deletes(j, k)
  <2>1. ~Shows(j, k.path) /\ ~Hides(j, k.path) /\ j \in 1..Layers
    BY BoundsAssumption DEF SeenIn
  <2>2. ~Has(j, k)
    BY <2>1 DEF Has, Shows, KeyOf
  <2>3. ASSUME NEW l \in Lines(j), DeletesKey(l, k) PROVE FALSE
    <3>1. l \in Line /\ k.path \in Path
      BY <2>1, KeyFacts DEF IInv, TypeOK, Lines
    <3>2. CASE l.kind = "whiteout" /\ KeyOf(l) = k
      <4>1. l.path = k.path
        BY <3>2 DEF KeyOf
      <4> QED
        BY <2>1, <3>1, <3>2, <4>1, PrefixReflexive DEF Hides
    <3>3. CASE l.kind = "opaque" /\ IsPrefix(l.path, k.path) /\ (k.path = l.path => k.dir)
      <4>1. l.path = k.path
        BY <2>1, <3>3 DEF Hides, IsStrictPrefix
      <4>2. l = [kind |-> "opaque", path |-> k.path]
        BY <3>1, <3>3, <4>1, LineFacts
      <4> QED
        BY <3>3, <4>1, <4>2
    <3> QED
      BY <2>3, <3>2, <3>3 DEF DeletesKey
  <2> QED
    BY <2>2, <2>3 DEF Deletes
<1> QED
  BY <1>1, SurvivorsPublished DEF SurvivesIn, SeenIn

(* What survives unseen has a directory's change above it.                 *)
LEMMA StaleHolds == IInv => StaleOnlyAroundDirectories
<1> SUFFICES ASSUME IInv, result = "published", long = {}, NEW k \in Key,
                    fileMap[k] # NoDigest,
                    ~\E i \in 1..Layers : manifest[i] = fileMap[k] /\ SeenIn(i, k)
             PROVE  \E i, j \in 1..Layers :
                      /\ manifest[i] = fileMap[k] /\ i < j
                      /\ \E l \in Lines(j) :
                           \/ /\ l.kind = "whiteout"
                              /\ IsPrefix(l.path, k.path)
                              /\ k.path = l.path => k.dir
                           \/ l.kind = "file" /\ IsPrefix(l.path, k.path) /\ KeyOf(l) # k
                           \/ l.kind = "dir" /\ l.path = k.path /\ ~k.dir
  BY DEF StaleOnlyAroundDirectories
<1>1. PICK i \in 1..Layers : manifest[i] = fileMap[k] /\ SurvivesIn(i, k)
  BY PublishedSurvives
<1>2. PICK j \in (i + 1)..Layers : Shows(j, k.path) \/ Hides(j, k.path)
  BY <1>1 DEF SurvivesIn, SeenIn
<1>3. j \in 1..Layers /\ i < j /\ ~Has(j, k) /\ ~Deletes(j, k)
  BY <1>1, <1>2, BoundsAssumption DEF SurvivesIn
<1>4. k.path \in Path /\ k.dir \in BOOLEAN /\ k = [path |-> k.path, dir |-> k.dir]
  BY KeyFacts
<1>5. \A l \in Lines(j) : l \in Line
  BY <1>3 DEF IInv, TypeOK, Lines
<1> DEFINE Leftover(l) ==
      \/ /\ l.kind = "whiteout"
         /\ IsPrefix(l.path, k.path)
         /\ k.path = l.path => k.dir
      \/ l.kind = "file" /\ IsPrefix(l.path, k.path) /\ KeyOf(l) # k
      \/ l.kind = "dir" /\ l.path = k.path /\ ~k.dir
<1>6. \E l \in Lines(j) : Leftover(l)
  <2>1. CASE Shows(j, k.path)
    <3>1. PICK l \in Lines(j) : IsEntry(l) /\ l.path = k.path
      BY <2>1 DEF Shows
    <3>2. KeyOf(l) # k
      BY <1>3, <3>1 DEF Has
    <3>3. IsPrefix(l.path, k.path)
      BY <1>4, <3>1, PrefixReflexive
    <3>4. l.kind = "dir" => ~k.dir
      BY <1>4, <3>1, <3>2 DEF KeyOf
    <3> QED
      BY <3>1, <3>2, <3>3, <3>4 DEF IsEntry
  <2>2. CASE Hides(j, k.path)
    <3>1. PICK l \in Lines(j) :
            \/ l.kind = "whiteout" /\ IsPrefix(l.path, k.path)
            \/ l.kind \in {"opaque", "file"} /\ IsStrictPrefix(l.path, k.path)
      BY <2>2 DEF Hides
    <3>2. ~DeletesKey(l, k)
      BY <1>3, <3>1 DEF Deletes
    <3>3. CASE l.kind = "whiteout"
      <4>1. k.path = l.path => k.dir
        BY <1>4, <3>2, <3>3 DEF DeletesKey, KeyOf
      <4> QED
        BY <3>1, <3>3, <4>1 DEF IsStrictPrefix
    <3>4. CASE l.kind = "opaque"
      BY <3>1, <3>2, <3>4 DEF DeletesKey, IsStrictPrefix
    <3>5. CASE l.kind = "file"
      <4>1. IsPrefix(l.path, k.path) /\ l.path # k.path
        BY <3>1, <3>5 DEF IsStrictPrefix
      <4>2. KeyOf(l) # k
        BY <4>1 DEF KeyOf
      <4> QED
        BY <3>5, <4>1, <4>2
    <3> QED
      BY <3>1, <3>3, <3>4, <3>5
  <2> QED
    BY <1>2, <2>1, <2>2
<1> QED
  BY <1>1, <1>3, <1>6

-----------------------------------------------------------------------------
(* However the lines of a layer are ordered, and however often a digest    *)
(* occurs, the published index is the same.                                *)
THEOREM Confluence == Spec => []OrderDoesNotMatter
BY Inductive, OrderHolds, PTL

(* Everything that a container sees is in the published index.             *)
THEOREM Completeness == Spec => []NothingIsLost
BY Inductive, NothingLostHolds, PTL

(* Files that a container does not see come back around directories only.  *)
THEOREM Leftovers == Spec => []StaleOnlyAroundDirectories
BY Inductive, StaleHolds, PTL

(* The published index can be browsed to each of its entries.              *)
THEOREM Reachability == Spec => []NothingIsOutOfReach
<1>1. IInv => NothingIsOutOfReach
  BY DEF IInv, LoopsInOrder, ParentsAreKept, NothingIsOutOfReach, ParentKey
<1> QED
  BY <1>1, Inductive, PTL
=============================================================================
