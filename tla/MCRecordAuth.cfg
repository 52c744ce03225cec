SPECIFICATION Spec
CONSTANTS
  Users = {u1}
  Emails = {e1, e2}
  Pws = {p1, p2}
  Keys = {k1, k2, k3}
  Requests = {r1, r2}
  MaxTokens = 1
  MaxOtps = 1
  NoRow = NoRow
  Idle = Idle
SYMMETRY Sym
CHECK_DEADLOCK FALSE
INVARIANTS SessionsFollowPassword SpentStaysSpent
 
