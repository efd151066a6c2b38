SPECIFICATION Spec
CONSTANTS
  Ids = {1, 2, 3}
  MaxId = 3
  Codes = {c1, c2, c3}
  Texts = {x, y}
  Sessions = {s1, s2}
  Nobody = Nobody
  NoRow = NoRow
SYMMETRY Symmetry
INVARIANTS
  TypeOK
  NoCircularWait
PROPERTIES
  ImplementsCodebook
  NamedChangesAreAudited
  UndisturbedDefaultIsHandedOver
