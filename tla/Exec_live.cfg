SPECIFICATION FairSpec
CONSTANTS
  a = a
  b = b
  g1 = g1
  g2 = g2
  Turns = {a, b}
  Codex = {b}
  Fresh = {a, b}
  Automated = {b}
  Guarded = {}
  Guidance = {g1}
  MaxRetries = 1
  Permits = 1
  Failures = {"transient", "quota", "timeout"}
  Stoppable = {}
PROPERTIES
  TurnsEnd
\* Every turn may have ended.
CHECK_DEADLOCK FALSE
