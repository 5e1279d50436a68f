\* Alerts, deliveries, messages to a chat and faults are bounded: when they are used
\* up and every handler and run is over, nothing is left to do.
SPECIFICATION Spec
CONSTANTS
    Keys = {k1, k2}
    Alerts = 4
    Redeliveries = 1
    AlertCrashes = 1
    AlertFaults = 1
    Chats = {c1}
    ChatRuns = 3
    ChatFaults = 1
INVARIANTS
    OneLaunchPerKey
    OneAnswerPerAlert
    OneRebuildPerRun
    
CHECK_DEADLOCK FALSE
