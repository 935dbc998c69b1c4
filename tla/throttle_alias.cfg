SPECIFICATION Spec
CONSTANTS
  k1 = k1
  s1 = s1
  s2 = s2
  c1 = c1
  c2 = c2
  c3 = c3
  Clients = {k1}
  Instances = {s1}
  Calls = {c1, c2}
  Ttl = 2
  Limit = 1
  BlockDuration = 2
  MaxTime = 4
  MaxArrivals = 2
INVARIANT WithinLimitIsAdmitted
