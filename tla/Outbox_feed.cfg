SPECIFICATION FairSpec
CONSTANTS
    Crons = {r1}
    Records = 3
    Noise <- SomeNoise
    Lines = 2
    Slots = 2
    Emits = 1
    Edits = 1
    Crashes = 1
    Mixes <- SomeMixes
    BatchLimit = 2
INVARIANTS
    NothingSkipped
    NoLossAfterResult
    TornIsRewritten
PROPERTIES
    IsFeed
    RunsAreConcluded
CHECK_DEADLOCK FALSE
\* The sources, the slots and the losses of a process are bounded: everything may
\* have been collected and delivered.
