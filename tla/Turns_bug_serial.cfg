SPECIFICATION Spec
CONSTANTS
  a = a
  b = b
  c = c
  t1 = t1
  t2 = t2
  s1 = s1
  NoTask = NoTask
  Requests = {a, b, c}
  Threads = {t1}
  ThreadOf <- OneThread
  Files = {}
  Keyed = {}
  Optional = {}
  NextPrefixed = {}
  Early = {}
  Ageing = {}
  Closable = {}
  Stops = {}
  MaxBoots = 1
INVARIANTS
  SerialTurns
SYMMETRY Symmetry
\* Every message may have been handled and every task may have ended.
CHECK_DEADLOCK FALSE
