SPECIFICATION Spec
CONSTANTS
  Influencers = {1, 2, 3}
  Codes = {c1, c2, c3}
  Writers = {w1, w2}
  Readers = {r1}
  Nobody = Nobody
  PageSize = 1
  MaxEntries = 3
SYMMETRY Symmetry
INVARIANTS
  TypeOK
  TrailIsComplete
  NothingSkipped
PROPERTIES
  ImplementsCodebook
  TotalCoversPage
