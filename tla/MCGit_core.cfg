\* Two package revisions of one package, one fault, one foreign commit.
SPECIFICATION GitSpec
CONSTANTS
  pkgA = pkgA
  NoPR = NoPR
  PRs = {pr1, pr2}
  Packages = {pkgA}
  PkgOf <- OnePackage
  Contains <- Exact
  Files = {f1}
  Dir <- InOne
  MaxRev = 1
  InDirectory = FALSE
  MaxCommits = 3
  MaxFaults = 1
  MaxExternal = 1
SYMMETRY Symmetry
INVARIANTS GitTypeOK SeenMainKept TagsOnMain GitInv ContentInv
PROPERTIES TagsNeverMove PublishedBeforeBranchGone ImplementsStore
