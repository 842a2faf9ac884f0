------------------------- MODULE MCRepositoryCache -------------------------
(* Specs with one URL and different directories, and one that is not valid.  *)
EXTENDS RepositoryCache

CONSTANTS repo1, s1, s2, bad, k1, k2, dir

TwoKeys == [s \in Specs |-> CASE s = s1 -> k1 [] s = s2 -> k2 [] OTHER -> None]
OneDir  == [k \in Keys |-> dir]
=============================================================================
