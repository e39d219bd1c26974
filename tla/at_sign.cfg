SPECIFICATION Spec
CONSTANTS
  x = x
  y = y
  e = e
  f = f
  l = l
  m1 = m1
  m2 = m2
  n1 = n1
  n2 = n2
  Keys = {e, f, l}
  Links = {l}
  Target <- MCTarget
  Refs = {x, y}
  NoRef = NoRef
  NoDetail = NoDetail
  Events <- MCEvents
  Shifts <- MCShifts
  Notes = {n1, n2}
  Members = {m1, m2}
  Requests = {r1, r2}
  Menu <- MCSigning
  Goings <- MCAll
  Serial <- MCSignUps
  Failing <- MCMailing
  Undef = Undef
INVARIANTS TypeOK OneRecord EveryoneSignedUp
SYMMETRY MCSymmetry
