SPECIFICATION Spec
CONSTANTS
  n1 = n1
  n2 = n2
  ios = ios
  web = web
  Top = Top
  Natures = {n1, n2}
  Components = {ios, web}
  ComponentOf <- TwoComponents
  MaxAlerts = 1
  MaxReplies = 2
  MaxBoots = 2
  BackfillLimit = 2
  AuthFails = TRUE
  MaxSwitches = 2
INVARIANTS
  TypeOK
  StoredIsAccounted
  EveryOpeningIsInvestigated
\* The monitor posts a bounded number of messages.
CHECK_DEADLOCK FALSE
