------------------------- MODULE MCPackageRevisions -------------------------
(* Instances of PackageRevisions for TLC. *)
EXTENDS PackageRevisions

CONSTANT pkgA

OnePackage == [p \in PRs |-> pkgA]
Exact      == [p \in Packages |-> {p}]

(* All files are in one directory of the package; or those that users write  *)
(* are beside it, in the package's own.                                      *)
InOne     == [f \in Files |-> "out"]
UsersInRoot == [f \in Files |-> IF f \in UNION UserFiles THEN Here ELSE "out"]

ProcessApprove == [p \in PRs |-> <<"process", "approve">>]
ApproveOnly    == [p \in PRs |-> <<"approve">>]
AllGates       == [p \in PRs |-> <<"process", "approve", "install">>]

RetireMoves == {<<"published", "deletionProposed">>}
NoMoves     == {}
NoFiles     == {}
=============================================================================
