SPECIFICATION Spec
CONSTANTS
  a = a
  b = b
  c = c
  t1 = t1
  t2 = t2
  s1 = s1
  NoTask = NoTask
  Requests = {a, b}
  Threads = {t1}
  ThreadOf <- OneThread
  Files = {b}
  Keyed = {}
  Optional = {}
  NextPrefixed = {}
  Early = {}
  Ageing = {}
  Closable = {}
  Stops = {s1}
  MaxBoots = 2
INVARIANTS
  TypeOK
  AnsweredTurnHasNoControl
  SettledForAReason
  ManualIsOwned
  Accounted
  SteeredIsNeverRun
\* Every message may have been handled and every task may have ended.
CHECK_DEADLOCK FALSE
