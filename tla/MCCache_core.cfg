\* A Repository that is made, changed, deleted and made again, with specs of one URL.
SPECIFICATION FairSpec
CONSTANTS
  repo1 = repo1
  s1 = s1
  s2 = s2
  bad = bad
  k1 = k1
  k2 = k2
  dir = dir
  Repos = {repo1}
  Specs = {s1, s2, bad}
  Keys = {k1, k2}
  KeyOf <- TwoKeys
  Dirs = {dir}
  DirOf <- OneDir
  Deployments = {s2}
  Controller = Controller
  Requests = {q1}
  None = None
  Published = {k1}
  MaxRequests = 1
  MaxEdits = 3
  MaxFaults = 1
INVARIANTS CacheInv OneRepository ScannerStops
PROPERTIES ClonesAreKept Settles Discovered
CHECK_DEADLOCK FALSE
