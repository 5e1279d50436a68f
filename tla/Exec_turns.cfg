SPECIFICATION Spec
CONSTANTS
  a = a
  b = b
  g1 = g1
  g2 = g2
  Turns = {a, b}
  Codex = {b}
  Fresh = {b}
  Automated = {a, b}
  Guarded = {a}
  Guidance = {g1}
  MaxRetries = 1
  Permits = 1
  Failures = {"auth", "infra", "launch", "budget", "transient", "quota", "timeout"}
  Stoppable = {a}
INVARIANTS
  PlacesAccounted
  AnswersKnowAll
PROPERTIES
  IsGuided
\* Every turn may have ended.
CHECK_DEADLOCK FALSE
