\* The same, after the release, under fairness; nothing fails.
SPECIFICATION FairSpec
CONSTANTS
  pkgA = pkgA
  NoPR = NoPR
  PRs = {pr1}
  Packages = {pkgA}
  PkgOf <- OnePackage
  Contains <- Exact
  Files = {f1}
  Dir <- InOne
  MaxRev = 1
  InDirectory = FALSE
  MaxCommits = 6
  MaxFaults = 0
  MaxExternal = 0
  GatesOf <- ProcessApprove
  Deployment = TRUE
  CacheLag = FALSE
  Upstream = {f1}
  Generated = {f1}
  Strict = TRUE
  Tasked = {TRUE}
  UserMoves <- NoMoves
  UserFiles <- NoFiles
  UserCommits = 0
  MaxCreates = 1
PROPERTIES ReleasedIsReady
CHECK_DEADLOCK FALSE
