SPECIFICATION Spec
CONSTANTS
  Tasks = {t1, t2}
  Users = {u1, u2}
  Posts = {p1}
  Admin = Admin
  Guest = Guest
  Gone = Gone
  Callers = {u1, u2, Admin}
  MaxServed = 3
  MaxOps = 2
  RuleSets <- Sets
SYMMETRY Sym
 
PROPERTIES RefusedLeavesNothing PermittedDuringRequest CascadeComplete
CHECK_DEADLOCK FALSE
