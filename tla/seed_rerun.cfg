SPECIFICATION Spec
CONSTANTS
  ola = ola
  vic = vic
  ned = ned
  Viewer = Viewer
  Owner = Owner
  Users = {ola, vic}
  Roles = {Owner, Viewer}
  SEED_USERS <- MCSeedUsers
  Sessions = {s1}
  Nobody = Nobody
  System = System
  NoRow = NoRow
INVARIANTS
  SeedIsIdempotent
