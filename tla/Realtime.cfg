SPECIFICATION Spec
CONSTANTS
  Clients = {c1}
  Users = {u1, u2}
  Admin = u2
  Records = {x}
  MaxChanges = 2
  MaxSubscribes = 2
  NoRow = NoRow
CHECK_DEADLOCK FALSE
INVARIANTS OneIdentity NotOlderThanChange
 
