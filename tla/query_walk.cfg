SPECIFICATION FairSpec
CONSTANTS
  MaxTodos = 2
  c1 = c1
  Clients = {c1}
  Titles = {1, 2}
  Descriptions = {2}
  Unset = Unset
  Queries <- SomeQueries
  DefaultLimit = 2
  MaxMutations = 1
  MaxWalks = 2
CHECK_DEADLOCK FALSE
INVARIANTS TypeOK MetaMatchesItems WalkIsComplete
PROPERTIES WalkEnds
