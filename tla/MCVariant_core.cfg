\* One variant, whose spec may change once; a package revision of a user.
SPECIFICATION FairSpec
CONSTANTS
  s1 = s1
  s2 = s2
  o1 = o1
  pkgA = pkgA
  pkgB = pkgB
  Variants = {v1}
  NoVariant = NoVariant
  Specs = {s1, s2}
  NoSpec = NoSpec
  Others = {o1}
  Packages = {pkgA, pkgB}
  PackageOf <- TwoPackages
  PolicyOf <- BothPolicies
  SpecMoves <- OneMove
  MaxUid = 1
  MaxEvents = 2
INVARIANTS VariantInv
PROPERTIES CreatedForLiving Ensured VariantGoes
CHECK_DEADLOCK FALSE
