\* A task may be closed for good when people, the process and the providers have
\* used up their bounds: nothing is left to do.
SPECIFICATION FairSpec
CONSTANTS
    Edits = 2
    Crashes = 1
    Faults = 1
INVARIANTS
    CommentsStayAhead
PROPERTIES
    CommentsAreTaken
CHECK_DEADLOCK FALSE
