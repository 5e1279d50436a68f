\* The service may stop for good when the losses of the process, the stops and
\* the faults are used up and the schedule has fired: every behaviour ends.
SPECIFICATION Spec
CONSTANTS
    Chains <- AllChains
    Crashes = 2
    Stops = 1
    Faults = 2
INVARIANTS
    HandedOverOnce
    PublishedOnce
    DigestOnce
    NoneLeftRecovered
CHECK_DEADLOCK FALSE
