-------------------------- MODULE MCGitRepository --------------------------
(* An instance of GitRepository for TLC: package revisions of one package.   *)
EXTENDS GitRepository, TLC

CONSTANT pkgA

OnePackage == [p \in PRs |-> pkgA]
Exact      == [p \in Packages |-> {p}]

(* The files are in one directory of the package.                            *)
InOne      == [f \in Files |-> "out"]

(* Package revisions of one package are alike.                               *)
Symmetry == Permutations(PRs)
============================================================================
