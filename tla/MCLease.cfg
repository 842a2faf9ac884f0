\* Three controllers; a lease lasts one tick; the clock stops at four.
SPECIFICATION Spec
CONSTANTS
  Holders = {revision, processor, approver}
  NoHolder = NoHolder
  Duration = 1
  MaxClock = 4
  MaxVersion = 4
SYMMETRY Symmetry
INVARIANTS Exclusion LeaseInv
PROPERTIES TakenWhenRunOut
