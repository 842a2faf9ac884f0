\* One watch, one change.
SPECIFICATION FairSpec
CONSTANTS
  Watches = {w1}
  Changes = {c1}
  NoChange = NoChange
  MaxWatchers = 1
  Listing = {}
  Selected <- OneSelected
PROPERTIES StopCloses
CHECK_DEADLOCK FALSE
