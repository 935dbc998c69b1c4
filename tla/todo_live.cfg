SPECIFICATION FairSpec
CONSTANTS
  i1 = i1
  i2 = i2
  u1 = u1
  u2 = u2
  q1 = q1
  p1 = p1
  p2 = p2
  p3 = p3
  Ids = {i1}
  Users = {u1}
  Queries = {q1}
  Procs = {p1, p2}
  Owner <- OneOwner
  Registered = {u1}
  KeyPrefix <- PrefixOfModule
  Ops = {"create", "findAll", "findOne", "remove", "update"}
  MaxMutations = 2
  MaxOutages = 1
  DbMayFail = TRUE
PROPERTY HangsOnlyAtRedis
PROPERTY EventuallyConsistent
