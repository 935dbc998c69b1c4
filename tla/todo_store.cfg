SPECIFICATION Spec
CONSTANTS
  i1 = i1
  i2 = i2
  u1 = u1
  u2 = u2
  q1 = q1
  p1 = p1
  p2 = p2
  p3 = p3
  Ids = {i1, i2}
  Users = {u1, u2}
  Queries = {q1}
  Procs = {p1, p2}
  Owner <- TwoOwners
  Registered = {u1}
  KeyPrefix <- NoPrefix
  Ops = {"create", "findAll", "findOne", "remove", "update"}
  MaxMutations = 2
  MaxOutages = 1
  DbMayFail = TRUE
PROPERTY ImplementsStore
SYMMETRY ProcSymmetry
INVARIANTS TypeOK CommittedOnly StaleHasCause OneRemover
