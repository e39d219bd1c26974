SPECIFICATION Spec
CONSTANTS
  u = u
  s1 = s1
  s2 = s2
  p1 = p1
  p2 = p2
  p3 = p3
  f1 = f1
  f2 = f2
  f3 = f3
  x = x
  y = y
  t = t
  Users = {u}
  Passwords = {p1, p2, p3}
  HistoryLength = 2
  Histories <- MCHistories
  Standing <- MCStanding
  Ids = {s1, s2, s3}
  Secrets = {x, y}
  Forms = {f1, f2, f3}
  Fitted <- MCFitted
  Issued = {f1, f2}
  Resets = {t}
  Requests = {r1, r2}
  Menu <- MCTwice
  Apart <- MCNone
  Failing <- MCAnywhere
  Undef = Undef
INVARIANTS FormsUsedOnce
