SPECIFICATION Spec
CONSTANTS
  Ids = {1, 2}
  MaxId = 3
  Codes = {c1, c2}
  Texts = {x}
  Sessions = {s1, s2}
  Nobody = Nobody
  NoRow = NoRow
INVARIANTS
  AtMostOneDefault
