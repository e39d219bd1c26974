SPECIFICATION Spec
CONSTANTS
  c = c
  d = d
  n1 = n1
  n2 = n2
  s = s
  Cadets = {c, d}
  MaxId = 5
  Names = {n1, n2}
  Requests = {r1, r2, r3}
  Seeds = {s}
  First <- MCFirst
  Conditions <- MCConditions
  None = None
INVARIANTS TypeOK OneOfEach
SYMMETRY MCSymmetry
PROPERTIES NewcomersFresh UpgradeWhole
