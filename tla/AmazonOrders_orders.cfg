SPECIFICATION Spec
CONSTANTS
    a = a
    b = b
    scheduler = scheduler
    cli = cli
    Lines = {a, b}
    Workers = {scheduler, cli}
    Days = 3
    ChunkDays = 2
    BatchSize = 1
    MaxVersion = 2
    MaxRuns = 3
    MaxFaults = 1
    MaxCrashes = 1
    MaxSpent = 1
    Disciplines = {"FREE", "TIMELY"}
INVARIANTS
    RunRecordsAreTrue
PROPERTIES
    MirrorSpec
    JobsLeaveNothingOut
SYMMETRY Symmetry
CHECK_DEADLOCK FALSE
