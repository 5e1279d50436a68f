SPECIFICATION Spec
CONSTANTS
  a = a
  b = b
  c = c
  t1 = t1
  t2 = t2
  s1 = s1
  NoTask = NoTask
  Requests = {a, b, c}
  Threads = {t1, t2}
  ThreadOf <- TwoThreads
  Files = {a}
  Keyed = {b, c}
  Optional = {b}
  NextPrefixed = {}
  Early = {}
  Ageing = {t1}
  Closable = {t1}
  Stops = {}
  MaxBoots = 1
INVARIANTS
  ExpiredNeverRuns
  Accounted
PROPERTIES
  ReopenedOnlyInFlight
\* Every message may have been handled and every task may have ended.
CHECK_DEADLOCK FALSE
