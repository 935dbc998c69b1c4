SPECIFICATION Spec
CONSTANTS
  MaxTodos = 1
  c1 = c1
  Clients = {c1}
  Titles = {1, 2}
  Descriptions = {2}
  Unset = Unset
  Queries <- SomeQueries
  DefaultLimit = 2
  MaxMutations = 1
  MaxWalks = 1
CHECK_DEADLOCK FALSE
INVARIANT UnsentFieldsKept
