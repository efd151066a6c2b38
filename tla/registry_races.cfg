SPECIFICATION Spec
CONSTANTS
  Influencers = {a}
  Sessions = {s1, s2}
  Policies = {p}
  NoPolicy = NoPolicy
  Nobody = Nobody
  Kinds = {"create_version", "change_status", "update"}
  MaxVersions = 2
SYMMETRY SessionSymmetry
INVARIANTS
  TypeOK
  LiveHasBible
  ArchivalIsMarked
PROPERTIES
  ChangesAreAudited
  UndisturbedCommitsAreLegal
  UndisturbedImagesAreTrue
