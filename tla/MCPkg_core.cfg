\* One package revision with all gates, a lagging cache, one fault.
SPECIFICATION Spec
CONSTANTS
  pkgA = pkgA
  NoPR = NoPR
  PRs = {pr1}
  Packages = {pkgA}
  PkgOf <- OnePackage
  Contains <- Exact
  Files = {f1}
  Dir <- InOne
  MaxRev = 1
  InDirectory = FALSE
  MaxCommits = 3
  MaxFaults = 1
  MaxExternal = 0
  GatesOf <- AllGates
  Deployment = TRUE
  CacheLag = TRUE
  Upstream = {f1}
  Generated = {f1}
  Strict = TRUE
  Tasked = {TRUE}
  UserMoves <- RetireMoves
  UserFiles <- NoFiles
  UserCommits = 0
  MaxCreates = 1
INVARIANTS PackagesInv GatesInOrder OthersLetGoFirst PublishedIsInGit
PROPERTIES ReleaseIsFinal GitCleanedFirst
CHECK_DEADLOCK FALSE
