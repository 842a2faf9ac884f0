\* A draft and a user who writes to it, the loose policy, under fairness; nothing fails.
SPECIFICATION FairSpec
CONSTANTS
  pkgA = pkgA
  NoPR = NoPR
  PRs = {pr1}
  Packages = {pkgA}
  PkgOf <- OnePackage
  Contains <- Exact
  Files = {f1, f2, f3}
  Dir <- UsersInRoot
  MaxRev = 1
  InDirectory = FALSE
  MaxCommits = 6
  MaxFaults = 0
  MaxExternal = 0
  GatesOf <- ProcessApprove
  Deployment = TRUE
  CacheLag = FALSE
  Upstream = {f1, f2}
  Generated = {f3}
  Strict = FALSE
  Tasked = {TRUE}
  UserMoves <- NoMoves
  UserFiles = {{f1}}
  UserCommits = 3
  MaxCreates = 1
INVARIANTS ReleasedIsComplete
CHECK_DEADLOCK FALSE
PROPERTIES DraftIsReleased
