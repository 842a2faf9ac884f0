------------------------- MODULE MCPackageVariants -------------------------
(* Instances of PackageVariants for TLC. *)
EXTENDS PackageVariants

CONSTANTS s1, s2, o1, pkgA, pkgB

(* The first spec deletes, the second orphans, in another package; what the  *)
(* user has made is in the way of the first.                                 *)
TwoPackages == [n \in {s1, s2, o1} |-> IF n = s2 THEN pkgB ELSE pkgA]
BothPolicies == [s \in {s1, s2} |-> IF s = s1 THEN "delete" ELSE "orphan"]
OneMove == {<<s1, s2>>}
=============================================================================
