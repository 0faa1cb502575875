----------------------------- MODULE FileIndex -----------------------------
(***************************************************************************)
(* The names of files, from the headers of the layers' tar files to the    *)
(* answers of /api/dir and /api/file: BuildIndex normalises the name of    *)
(* each entry and adds that of its parent, by which the image's index is   *)
(* queried. The layers here have no whiteouts (those are in Concatenator,  *)
(* which takes it for granted that one path is one key).                   *)
(*                                                                         *)
(* A name is what its string is made of: whether it begins with a slash,   *)
(* the parts between the slashes, and whether a slash follows. A client    *)
(* browses: it begins with the empty path, and lists and opens what it has *)
(* been shown.                                                             *)
(***************************************************************************)
EXTENDS Naturals, SequencesExt

CONSTANTS
  Header,      \* names as headers have them, and whether it is a directory
  Layers,      \* layers of the image
  MaxHeaders   \* headers in a layer

(* What stands between two slashes; nothing, if they follow one another.   *)
Part == STRING

ASSUME HeaderAssumption ==
  Header \subseteq [rooted : BOOLEAN, dir : BOOLEAN, parts : Seq(Part)]

ASSUME LayersAssumption == Layers \in Nat /\ MaxHeaders \in Nat

VARIABLES
  tar,       \* tar[n]: the headers of the n-th layer from the bottom
  entries,   \* entries[n]: what has been read of it, then its file index
  sorted,    \* layers whose file index is finished
  index,     \* the image's index
  status,    \* "none" or "published"
  listed,    \* paths that the client has listed
  shown,     \* entries it has been shown, each with the path it had asked for
  opened     \* the file it has opened last: what was asked for, what was found

vars == <<tar, entries, sorted, index, status, listed, shown, opened>>

-----------------------------------------------------------------------------
Name(rooted, parts, slash) == [rooted |-> rooted, parts |-> parts, slash |-> slash]

Empty == Name(FALSE, <<>>, FALSE)
Root == Name(TRUE, <<>>, FALSE)

Init ==
  /\ tar \in [1..Layers -> SeqOf(Header, MaxHeaders)]
  /\ entries = [n \in 1..Layers |-> <<>>]
  /\ sorted = {}
  /\ index = {}
  /\ status = "none"
  /\ listed = {}
  /\ shown = {}
  /\ opened = {}

-----------------------------------------------------------------------------
(* BuildIndex.                                                             *)

(* filepath.Clean, part by part: ".." takes the part before it away, if    *)
(* there is one; at the root there is nothing above.                       *)
Keep(h, kept, part) ==
  CASE part \in {"", "."} -> kept
    [] part = ".." /\ kept # <<>> /\ Last(kept) # ".." -> Front(kept)
    [] part = ".." /\ kept = <<>> /\ h.rooted -> kept
    [] OTHER -> Append(kept, part)

CleanTo(h) ==
  LET to[k \in 0..Len(h.parts)] ==
        IF k = 0 THEN <<>> ELSE Keep(h, to[k - 1], h.parts[k])
  IN to

Clean(h) == CleanTo(h)[Len(h.parts)]

(* Both "." and "/" become "/"; other directories end with a slash.        *)
HeaderName(h) ==
  IF Clean(h) = <<>> THEN Root ELSE Name(h.rooted, Clean(h), h.dir)

(* Mutant: the parent's name has no slash at its end.                      *)
ParentWithoutSlash(h) ==
  IF Len(Clean(h)) <= 1 THEN Root ELSE Name(h.rooted, Front(Clean(h)), FALSE)

(* filepath.Dir of the cleaned name; for "a" it is ".", which becomes "/". *)
Parent(h) ==
  IF Len(Clean(h)) <= 1 THEN Root ELSE Name(h.rooted, Front(Clean(h)), TRUE)

EntryOf(h, n) ==
  [header |-> h, name |-> HeaderName(h), parent |-> Parent(h), layer |-> n]

ReadHeader(n) ==
  /\ n \notin sorted /\ Len(entries[n]) < Len(tar[n])
  /\ LET h == tar[n][Len(entries[n]) + 1]
     IN entries' = [entries EXCEPT ![n] = Append(@, EntryOf(h, n))]
  /\ UNCHANGED <<tar, sorted, index, status, listed, shown, opened>>

(* The elements of the name, split at its slashes, without that at its end.*)
Elements(name) == Len(name.parts) + IF name.rooted THEN 1 ELSE 0

(* By the number of elements; how names of one length compare is left      *)
(* open, and the sort is not stable.                                       *)
Sort(n) ==
  /\ n \notin sorted /\ Len(entries[n]) = Len(tar[n])
  /\ \E order \in Bijection(DOMAIN entries[n], DOMAIN entries[n]) :
       LET lines == [i \in DOMAIN entries[n] |-> entries[n][order[i]]]
       IN /\ \A i, j \in DOMAIN lines :
               i < j => Elements(lines[i].name) <= Elements(lines[j].name)
          /\ entries' = [entries EXCEPT ![n] = lines]
  /\ sorted' = sorted \union {n}
  /\ UNCHANGED <<tar, index, status, listed, shown, opened>>

(* Where the lines of the file indexes are: which layer, which line.       *)
Lines == UNION {{n} \X DOMAIN entries[n] : n \in 1..Layers}
Line(p) == entries[p[1]][p[2]]

(* Mutant: the layers come from the top.                                   *)
LaterFromTop(q, p) == q[1] < p[1] \/ (q[1] = p[1] /\ q[2] > p[2])

(* The concatenator reads the layers from the bottom, each from line 1.    *)
Later(q, p) == q[1] > p[1] \/ (q[1] = p[1] /\ q[2] > p[2])

(* The map of the concatenator: the last line with a name is kept.         *)
LastLines ==
  {p \in Lines : \A q \in Lines : Later(q, p) => Line(q).name # Line(p).name}

Concatenate ==
  /\ sorted = 1..Layers /\ status = "none"
  /\ index' = {Line(p) : p \in LastLines}
  /\ status' = "published"
  /\ UNCHANGED <<tar, entries, sorted, listed, shown, opened>>

-----------------------------------------------------------------------------
(* The client.                                                             *)

Directories == {Empty} \union {s.entry.name : s \in {s \in shown : s.entry.header.dir}}

(* The empty path stands for "/".                                          *)
Asked(path) == IF path = Empty THEN Root ELSE path

HandleListDirectory(path) ==
  /\ status = "published" /\ path \in Directories \ listed
  /\ shown' = shown \union
       {[path |-> path, entry |-> e] :
          e \in {e \in index : e.parent = Asked(path)}}
  /\ listed' = listed \union {path}
  /\ UNCHANGED <<tar, entries, sorted, index, status, opened>>

(* The handler panics unless it finds exactly one entry.                   *)
HandleFileContents(s) ==
  /\ s \in shown
  /\ opened' = {[asked |-> s.entry, found |-> {e \in index : e.name = s.entry.name}]}
  /\ UNCHANGED <<tar, entries, sorted, index, status, listed, shown>>

-----------------------------------------------------------------------------
Next ==
  \/ \E n \in 1..Layers : ReadHeader(n) \/ Sort(n)
  \/ Concatenate
  \/ \E path \in Directories : HandleListDirectory(path)
  \/ \E s \in shown : HandleFileContents(s)

Spec == Init /\ [][Next]_vars

-----------------------------------------------------------------------------
(* The reference: where a header's file is found in a container.           *)
At(at, part) ==
  IF part \in {"", "."} THEN at
  ELSE IF part # ".." THEN Append(at, part)
  ELSE IF at = <<>> THEN at ELSE Front(at)

LocationTo(h) ==
  LET to[k \in 0..Len(h.parts)] ==
        IF k = 0 THEN <<>> ELSE At(to[k - 1], h.parts[k])
  IN to

Location(h) == LocationTo(h)[Len(h.parts)]

Container(at) == IF at = <<>> THEN at ELSE Front(at)

Headers == UNION {ToSet(tar[n]) : n \in 1..Layers}

(* Some ".." is above the root.                                            *)
Climbs(h) ==
  \E k \in DOMAIN h.parts : h.parts[k] = ".." /\ LocationTo(h)[k - 1] = <<>>

(* The layers spell their names alike: with a slash at the beginning or    *)
(* without one, and then not from above the root.                          *)
SpeltAlike ==
  \E rooted \in BOOLEAN : \A h \in Headers :
    /\ h.rooted \/ ~Climbs(h)
    /\ h.rooted = rooted \/ Location(h) = <<>>

(* Whatever contains something is there, and is a directory.               *)
HasDirectories ==
  \A h \in Headers :
    /\ Location(h) = <<>> => h.dir
    /\ \/ Container(Location(h)) = <<>>
       \/ \E d \in Headers : d.dir /\ Location(d) = Container(Location(h))

(* A client that has listed all directories it came to has been shown all  *)
(* there is in the image, each where it is, however the headers spell the  *)
(* names ("./a", "b/../a"), and nothing elsewhere. The root lists itself.  *)
(* This is what normalisation and Parent (targzi.go:159-173) are for.      *)
BrowsingShowsTheImage ==
  /\ status = "published" /\ Directories \subseteq listed
  /\ SpeltAlike /\ HasDirectories
  => {<<s.path.parts, Location(s.entry.header), s.entry.header.dir>> : s \in shown}
       = {<<Container(Location(h)), Location(h), h.dir>> : h \in Headers}

(* Opening what a listing showed never panics, it finds that very entry,   *)
(* and this is the one of the uppermost layer that has the file, though    *)
(* the layers spell its name differently (concatenator.go:123).            *)
ListedFilesOpen ==
  \A o \in opened :
    /\ o.found = {o.asked}
    /\ SpeltAlike =>
         \A n \in (o.asked.layer + 1)..Layers, h \in Header :
           Location(h) = Location(o.asked.header) /\ h.dir = o.asked.header.dir
             => h \notin ToSet(tar[n])
=============================================================================
