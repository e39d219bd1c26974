SPECIFICATION FairSpec
CONSTANTS
  x = x
  y = y
  e = e
  f = f
  l = l
  m1 = m1
  m2 = m2
  n1 = n1
  n2 = n2
  Keys = {e, l}
  Links = {l}
  Target <- MCTarget
  Refs = {x, y}
  NoRef = NoRef
  NoDetail = NoDetail
  Events <- MCOneEvent
  Shifts <- MCShifts
  Notes = {n1, n2}
  Members = {m1, m2}
  Requests = {r1, r2, r3}
  Menu <- MCChanging
  Goings <- MCLeaving
  Serial <- MCSignUpsAndChanges
  Failing <- MCNotStreamed
  Undef = Undef
INVARIANTS ChangesKept
PROPERTIES RequestsAnswered
