---------------------------- MODULE Concatenator ----------------------------
(***************************************************************************)
(* The concatenator's handler: it reads the file index of every layer of   *)
(* an image, line by line and bottom up, and merges them in one map, which *)
(* becomes the index that /api/dir and /api/file query.                    *)
(*                                                                         *)
(* A path is a sequence of names, <<>> the root. A line of a file index is *)
(* a file (anything that is not a directory), a directory, a whiteout      *)
(* (.wh.<name>) of a path, or the opaque marker (.wh..wh..opq) of a        *)
(* directory. The map's keys are names of tar headers, in which a          *)
(* directory ends with a slash (targzi.go:171): the file and the directory *)
(* of one path are two keys.                                               *)
(***************************************************************************)
EXTENDS Naturals, SequencesExt, FiniteSetsExt

CONSTANTS
  Name,       \* names of files and directories
  Depth,      \* length of the longest path
  MaxLines,   \* lines in a file index
  Digest,     \* digests of layers
  NoDigest,   \* what an absent key maps to
  Layers      \* layers in the manifest; one digest may occur twice

ASSUME NoDigestAssumption == NoDigest \notin Digest
ASSUME BoundsAssumption == Depth \in Nat /\ Layers \in Nat

VARIABLES
  manifest,   \* manifest[i]: the digest of the i-th layer from the bottom
  content,    \* content[d]: the lines of d's files.json.gz
  long,       \* digests whose lines the scanner cannot read to the end
  pos,        \* layers that have been downloaded
  todo,       \* lines of the current layer that have not been read
  fileMap,    \* fileMap[k]: the digest of the entry with key k
  result      \* "none", "published" or "error"

inputs == <<manifest, content, long>>
vars == <<inputs, pos, todo, fileMap, result>>

-----------------------------------------------------------------------------
Path == UNION {[1..n -> Name] : n \in 0..Depth}
Key == [path : Path, dir : BOOLEAN]
Line == {l \in [kind : {"file", "dir", "whiteout", "opaque"}, path : Path] :
           l.path = <<>> => l.kind \in {"dir", "opaque"}}

(* A tar file that unpacks: a file has nothing in it.                      *)
Unpacks(ls) ==
  \A l, m \in ls :
    l.kind = "file" /\ IsPrefix(l.path, m.path)
      => l = m \/ (m.kind = "whiteout" /\ m.path = l.path)

Init ==
  /\ manifest \in [1..Layers -> Digest]
  /\ content \in [Digest -> {ls \in UNION {kSubset(n, Line) : n \in 0..MaxLines} : Unpacks(ls)}]
  /\ long \in SUBSET {d \in Digest : content[d] # {}}
  /\ pos = 0
  /\ todo = {}
  /\ fileMap = [k \in Key |-> NoDigest]
  /\ result = "none"

-----------------------------------------------------------------------------
hash == manifest[pos]

(* Mutant: the loop skips every other layer.                               *)
DownloadEveryOther ==
  /\ result = "none" /\ todo = {} /\ pos < Layers
  /\ pos' = pos + 2
  /\ todo' = content[manifest[pos + 1]]
  /\ UNCHANGED <<inputs, fileMap, result>>

(* The next layer's file index is downloaded and decompressed.             *)
Download ==
  /\ result = "none" /\ todo = {} /\ pos < Layers
  /\ pos' = pos + 1
  /\ todo' = content[manifest[pos + 1]]
  /\ UNCHANGED <<inputs, fileMap, result>>

(* The scanner reads one more line. The lines come in the order in which   *)
(* BuildIndex has sorted them, which the handler does not rely on; one     *)
(* that is too long is not read, and none after it.                        *)
Scan(l) ==
  /\ result = "none" /\ l \in todo
  /\ hash \in long => todo # {l}
  /\ todo' = todo \ {l}
  /\ UNCHANGED <<inputs, pos, result>>

FromBelow(k) == fileMap[k] \notin {NoDigest, hash}

(* Mutant: the marker also deletes entries of its own layer.               *)
OpaqueAlsoOwn(l) ==
  /\ l.kind = "opaque"
  /\ Scan(l)
  /\ fileMap' = [k \in Key |->
       IF IsPrefix(l.path, k.path) /\ (k.path = l.path => k.dir)
         THEN NoDigest ELSE fileMap[k]]

(* Keys with the prefix "<dir>/", the directory's own among them.          *)
WhiteoutOpaqueDir(l) ==
  /\ l.kind = "opaque"
  /\ Scan(l)
  /\ fileMap' = [k \in Key |->
       IF IsPrefix(l.path, k.path) /\ (k.path = l.path => k.dir) /\ FromBelow(k)
         THEN NoDigest ELSE fileMap[k]]

(* Mutant: whiteouts are not applied.                                      *)
WhiteoutIgnored(l) ==
  /\ l.kind = "whiteout"
  /\ Scan(l)
  /\ UNCHANGED fileMap

(* Mutant: the key with a slash is deleted too, but not what is below it.  *)
WhiteoutDirectory(l) ==
  /\ l.kind = "whiteout"
  /\ Scan(l)
  /\ fileMap' = [k \in Key |-> IF k.path = l.path /\ FromBelow(k) THEN NoDigest ELSE fileMap[k]]

(* Mutant: whatever is below the path is deleted, from whichever layer.    *)
WhiteoutEverythingBelow(l) ==
  /\ l.kind = "whiteout"
  /\ Scan(l)
  /\ fileMap' = [k \in Key |-> IF IsPrefix(l.path, k.path) THEN NoDigest ELSE fileMap[k]]

(* The one key without a slash.                                            *)
Whiteout(l) ==
  /\ l.kind = "whiteout"
  /\ Scan(l)
  /\ fileMap' = [k \in Key |->
       IF k = [path |-> l.path, dir |-> FALSE] /\ FromBelow(k)
         THEN NoDigest ELSE fileMap[k]]

Entry(l) ==
  /\ l.kind \in {"file", "dir"}
  /\ Scan(l)
  /\ fileMap' = [fileMap EXCEPT ![[path |-> l.path, dir |-> l.kind = "dir"]] = hash]

(* Scan returns false at a line that does not fit its buffer (or where the *)
(* gzip data is damaged between two lines); scan.Err() is not looked at.   *)
TooLong ==
  /\ result = "none" /\ todo # {}
  /\ hash \in long
  /\ todo' = {}
  /\ UNCHANGED <<inputs, pos, fileMap, result>>

(* The map's entries are sorted, compressed and uploaded.                  *)
Upload ==
  /\ result = "none" /\ todo = {} /\ pos = Layers
  /\ result' = "published"
  /\ UNCHANGED <<inputs, pos, todo, fileMap>>

(* A download, the decompression or the upload fails. So would a line that *)
(* is no JSON document, which nothing writes; it returns as early.         *)
ReturnError ==
  /\ result = "none" /\ todo = {}
  /\ result' = "error"
  /\ UNCHANGED <<inputs, pos, todo, fileMap>>

Next ==
  \/ Download
  \/ \E l \in todo : WhiteoutOpaqueDir(l) \/ Whiteout(l) \/ Entry(l)
  \/ TooLong \/ Upload \/ ReturnError

Spec == Init /\ [][Next]_vars

-----------------------------------------------------------------------------
(* The reference: what a container that runs the image would see. A layer  *)
(* shows what it has; a whiteout hides its path and everything below, an   *)
(* opaque marker, or a file, everything below the path.                    *)

KeyOf(l) == [path |-> l.path, dir |-> l.kind = "dir"]

Lines(i) == content[manifest[i]]

IsEntry(l) == l.kind \in {"file", "dir"}

Has(i, k) == \E l \in Lines(i) : IsEntry(l) /\ KeyOf(l) = k

Shows(i, p) == \E l \in Lines(i) : IsEntry(l) /\ l.path = p

Hides(i, p) ==
  \E l \in Lines(i) :
    \/ l.kind = "whiteout" /\ IsPrefix(l.path, p)
    \/ l.kind \in {"opaque", "file"} /\ IsStrictPrefix(l.path, p)

(* The entry with key k is seen, and it is that of the i-th layer.         *)
SeenIn(i, k) ==
  /\ Has(i, k)
  /\ \A j \in (i + 1)..Layers : ~Shows(j, k.path) /\ ~Hides(j, k.path)

(* The handler's own rule, applied to the lines of a layer all at once:    *)
(* the i-th layer's entry is neither deleted nor replaced above.           *)
DeletesKey(l, k) ==
  \/ l.kind = "whiteout" /\ KeyOf(l) = k
  \/ l.kind = "opaque" /\ IsPrefix(l.path, k.path) /\ (k.path = l.path => k.dir)

Deletes(i, k) == \E l \in Lines(i) : DeletesKey(l, k)

SurvivesIn(i, k) ==
  /\ Has(i, k)
  /\ \A j \in (i + 1)..Layers : ~Has(j, k) /\ ~Deletes(j, k)

(* The directory that a line's file lies in; a marker lies in its own.     *)
Container(l) == IF l.kind = "opaque" \/ l.path = <<>> THEN l.path ELSE Front(l.path)

(* A tar file in which directories have headers of their own.              *)
NamesDirectories(ls) ==
  \A l \in ls : Container(l) = <<>> \/ [kind |-> "dir", path |-> Container(l)] \in ls

Listed(k) == result = "published" /\ fileMap[k] # NoDigest

-----------------------------------------------------------------------------
TypeOK ==
  /\ manifest \in [1..Layers -> Digest]
  /\ content \in [Digest -> SUBSET Line]
  /\ long \subseteq Digest
  /\ pos \in 0..Layers
  /\ todo \subseteq Line
  /\ pos = 0 => todo = {}
  /\ fileMap \in [Key -> Digest \union {NoDigest}]
  /\ result \in {"none", "published", "error"}

(* The order in which the lines of a layer come does not matter: a marker  *)
(* or a whiteout never deletes what its own layer has, whichever of the    *)
(* two is read first (concatenator.go:104, 117), and every digest in the   *)
(* map is that of the layer whose entry survives.                          *)
OrderDoesNotMatter ==
  result = "published" /\ long = {} =>
    \A k \in Key, d \in Digest :
      fileMap[k] = d <=> \E i \in 1..Layers : manifest[i] = d /\ SurvivesIn(i, k)

(* Whatever a container would see is listed, as the entry of the layer it  *)
(* would be read from. What is missing is the fault of a line that is too  *)
(* long, or it is a directory that a layer above makes opaque without      *)
(* having it.                                                              *)
NothingIsLost ==
  result = "published" =>
    \A k \in Key, i \in 1..Layers :
      SeenIn(i, k) =>
        \/ fileMap[k] = manifest[i]
        \/ manifest[i] \in long
        \/ /\ k.dir
           /\ \E j \in (i + 1)..Layers : [kind |-> "opaque", path |-> k.path] \in Lines(j)

(* What is listed although a container would not see it is left over from  *)
(* a directory: one that was removed by a whiteout, or that became a file, *)
(* or a file that became one. Files never come back otherwise.             *)
StaleOnlyAroundDirectories ==
  result = "published" /\ long = {} =>
    \A k \in Key :
      \/ fileMap[k] = NoDigest
      \/ \E i \in 1..Layers : manifest[i] = fileMap[k] /\ SeenIn(i, k)
      \/ \E i, j \in 1..Layers :
           /\ manifest[i] = fileMap[k] /\ i < j
           /\ \E l \in Lines(j) :
                \/ /\ l.kind = "whiteout"
                   /\ IsPrefix(l.path, k.path)
                   /\ k.path = l.path => k.dir
                \/ l.kind = "file" /\ IsPrefix(l.path, k.path) /\ KeyOf(l) # k
                \/ l.kind = "dir" /\ l.path = k.path /\ ~k.dir

(* Clients browse from directory to directory. No deletion takes away the  *)
(* directory of an entry and leaves the entry: if directories have headers *)
(* in every layer, they have entries in the index.                         *)
NothingIsOutOfReach ==
  /\ result = "published" /\ long = {}
  /\ \A d \in Digest : NamesDirectories(content[d])
  => \A k \in Key :
       fileMap[k] # NoDigest /\ Len(k.path) > 1
         => fileMap[[path |-> Front(k.path), dir |-> TRUE]] # NoDigest

(* A path that a layer has whited out is deleted "if it's from a previous  *)
(* layer" (concatenator.go:117), and so is what it contained.              *)
WhiteoutHides ==
  long = {} =>
    \A k \in Key, j \in 1..Layers, l \in Line :
      /\ Listed(k)
      /\ l \in Lines(j)
      /\ l.kind = "whiteout" /\ IsPrefix(l.path, k.path)
      => \E i \in j..Layers : manifest[i] = fileMap[k]
=============================================================================
