SPECIFICATION FairSpec
CONSTANTS
  n1 = n1
  n2 = n2
  ios = ios
  web = web
  Top = Top
  Natures = {n1}
  Components = {ios}
  ComponentOf <- OneComponent
  MaxAlerts = 2
  MaxReplies = 1
  MaxBoots = 1
  BackfillLimit = 2
  AuthFails = FALSE
  MaxSwitches = 2
INVARIANTS
  OneLaunchPerOpening
PROPERTIES
  OneInvestigationPerAlert
  MissedAlertIsHandled
\* The monitor posts a bounded number of messages.
CHECK_DEADLOCK FALSE
