SPECIFICATION Spec
CONSTANTS
  Influencers = {a}
  Sessions = {s1, s2, s3}
  Policies = {p}
  NoPolicy = NoPolicy
  Nobody = Nobody
  Kinds = {"create_version", "change_status"}
  MaxVersions = 3
SYMMETRY SessionSymmetry
INVARIANTS
  GaplessNumbers
  CurrentIsNewest
  InsertNeverConflicts
PROPERTIES
  VersionsAreImmutable
  NoVersionOnceArchived
  VersionsAreAudited
  ImplementsVersionLog
