---------------------------- MODULE MCFileIndex ----------------------------
(* Small instances of FileIndex, for TLC.                                  *)
EXTENDS FileIndex

Spelt(rooted, dir, parts) == [rooted |-> rooted, dir |-> dir, parts |-> parts]

(* "./", "a", "a/", "./b/../a/", "a/b", "a//./b", "a/b/", "a/b/c", "../a", *)
(* "/a", "/../a/", "/a/b"                                                  *)
MCHeader ==
  {Spelt(FALSE, TRUE, <<".">>),
   Spelt(FALSE, FALSE, <<"a">>),
   Spelt(FALSE, TRUE, <<"a">>),
   Spelt(FALSE, TRUE, <<".", "b", "..", "a">>),
   Spelt(FALSE, FALSE, <<"a", "b">>),
   Spelt(FALSE, FALSE, <<"a", "", ".", "b">>),
   Spelt(FALSE, TRUE, <<"a", "b">>),
   Spelt(FALSE, FALSE, <<"a", "b", "c">>),
   Spelt(FALSE, FALSE, <<"..", "a">>),
   Spelt(TRUE, FALSE, <<"a">>),
   Spelt(TRUE, TRUE, <<"..", "a">>),
   Spelt(TRUE, FALSE, <<"a", "b">>)}
=============================================================================
