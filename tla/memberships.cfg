SPECIFICATION Spec
CONSTANTS
  ola = ola
  vic = vic
  ned = ned
  Viewer = Viewer
  Owner = Owner
  Users = {ola, vic, ned}
  Roles = {Owner, Viewer}
  SEED_USERS <- MCSeedUsers
  Sessions = {s1, s2}
  Nobody = Nobody
  System = System
  NoRow = NoRow
SYMMETRY Symmetry
INVARIANTS
  TypeOK
PROPERTIES
  ImplementsAccessList
  AccessIsExplained
  LastOwnerLeavesByOwnHand
