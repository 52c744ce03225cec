SPECIFICATION AdministrationSpec
CONSTANTS
  Actors = {a1, a2}
  Colls = {c1, c2}
  Vals = {0, 1}
  MaxFiles = 3
  MaxFaults = 1
  Absent = Absent
  NoOne = NoOne
  Supers = {s1, s2}
  Pws = {p1, p2}
  Keys = {k1, k2, k3, k4}
  Accounts = {u1, u2, u3}
  Identities = {g1, g2}
  Emails = {e1, e2}
  HookFiles = {h1}
  MaxBindings = 3
  NoRow = NoRow
  Idle = Idle
SYMMETRY Sym
CHECK_DEADLOCK FALSE
INVARIANTS   AccountsAreSound 
