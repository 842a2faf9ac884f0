\* Two watches, one that lists, for one place; two changes.
SPECIFICATION FairSpec
CONSTANTS
  Watches = {w1, w2}
  Changes = {c1, c2}
  NoChange = NoChange
  MaxWatchers = 1
  Listing = {w1}
  Selected <- OneSelected
INVARIANTS DeliveryInv NeverSentOnClosed NoPlaceLost InOrder NothingMissed
PROPERTIES RequestsReturn
CHECK_DEADLOCK FALSE
