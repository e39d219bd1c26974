SPECIFICATION FairSpec
CONSTANTS
  a = a
  b = b
  c = c
  x = x
  y = y
  u = u
  v = v
  w = w
  z = z
  Members = {a, b, c}
  Jobs = {x, y}
  Slots = {u, v, w, z}
  MaxId = 4
  Staff <- MCStaff
  First <- MCFirst
  Requests = {1, 2, 3}
  Conditions <- MCConditions
  Undef = Undef
INVARIANTS TypeOK RolesFollowTeams
PROPERTIES ImplementsTeamBook Handled
