SPECIFICATION Spec
CONSTANTS
  Accounts = {A, B}
  A = A
  B = B
  e1 = e1
  e2 = e2
  l1 = l1
  t1 = t1
  t2 = t2
  p1 = p1
  p2 = p2
  Requests = {r1, r2, r3}
  SeedKeys = {e1, l1}
  Seeds <- MCLinked
  SeedEntries <- MCLinkedEntries
  Conditions <- MCCreate
  MaxId = 5
  Times = {t1, t2}
  Contacts = {p1, p2}
  Undef = Undef
  NoEntry = NoEntry
  Cleared = Cleared
  NoDoc = NoDoc
INVARIANTS TypeOK UniqueRefs
SYMMETRY MCSymmetry
PROPERTIES ImplementsEventRefs
