SPECIFICATION Spec
CONSTANTS
  None = None
  k1 = k1
  d1 = d1
  d2 = d2
  t1 = t1
  t2 = t2
  Keys = {k1}
  Sensitive = {k1}
  Procs = {d1, d2}
  Threads = {t1, t2}
  Ttl = 1
  MaxStall = 1
  MaxChanges = 1
  MaxKeys = 3
SYMMETRY Interchangeable
INVARIANTS
  BoundedStaleness
  SecretsRecoverable
PROPERTIES
  RewriteKeepsValues
CHECK_DEADLOCK FALSE
