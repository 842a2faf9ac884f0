\* A chain of three packages, the last of which is asked for.
SPECIFICATION FairSpec
CONSTANTS
  a = a
  b = b
  c = c
  a1 = a1
  b1 = b1
  c1 = c1
  A = A
  B = B
  T = T
  V = V
  S = S
  Pkgs = {a, b, c}
  Revs = {a1, b1, c1}
  PkgOf <- Packages
  RevNo <- Numbers
  APIs = {A, B, T, V}
  Services = {S}
  ServiceOf <- Groups
  Core = {V}
  Provides <- Bring
  Uses <- Resources
  Rules <- Policies
  Names <- Nothing
  Drafted = {b1}
  None = None
  Roots = {c1}
  Local = TRUE
  MaxFaults = 3
INVARIANTS SchedulerInv InstallOrder NothingLeft
PROPERTIES  GetsReady
CHECK_DEADLOCK FALSE
