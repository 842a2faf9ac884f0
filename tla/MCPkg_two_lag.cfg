\* Two package revisions of one package, and a cache that lags.
SPECIFICATION Spec
CONSTANTS
  pkgA = pkgA
  NoPR = NoPR
  PRs = {pr1, pr2}
  Packages = {pkgA}
  PkgOf <- OnePackage
  Contains <- Exact
  Files = {f1}
  Dir <- InOne
  MaxRev = 2
  InDirectory = FALSE
  MaxCommits = 0
  MaxFaults = 0
  MaxExternal = 0
  GatesOf <- ApproveOnly
  Deployment = FALSE
  CacheLag = TRUE
  Upstream = {f1}
  Generated = {f1}
  Strict = TRUE
  Tasked = {FALSE}
  UserMoves <- NoMoves
  UserFiles <- NoFiles
  UserCommits = 0
  MaxCreates = 2
INVARIANTS RevisionsUnique
CHECK_DEADLOCK FALSE
