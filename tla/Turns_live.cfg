SPECIFICATION FairSpec
CONSTANTS
  a = a
  b = b
  c = c
  t1 = t1
  t2 = t2
  s1 = s1
  NoTask = NoTask
  Requests = {a}
  Threads = {t1}
  ThreadOf <- OneThread
  Files = {a}
  Keyed = {}
  Optional = {}
  NextPrefixed = {}
  Early = {a}
  Ageing = {}
  Closable = {}
  Stops = {s1}
  MaxBoots = 2
INVARIANTS
  OneAnswerPerLife
  OneTaskPerRequest
PROPERTIES
  RunsSettle
  StopsReturn
\* Every message may have been handled and every task may have ended.
CHECK_DEADLOCK FALSE
