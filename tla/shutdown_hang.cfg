SPECIFICATION HealthFairSpec
CONSTANTS
  cacheRedis = cacheRedis
  throttlerRedis = throttlerRedis
  r1 = r1
  r2 = r2
  r3 = r3
  Clients = {cacheRedis}
  Reqs = {r1, r2}
  MaxRetries = 1
CHECK_DEADLOCK FALSE
PROPERTY RemainingTerminated
