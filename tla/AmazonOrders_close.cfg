SPECIFICATION FairSpec
CONSTANTS
    a = a
    b = b
    scheduler = scheduler
    cli = cli
    Lines = {a}
    Workers = {scheduler, cli}
    Days = 3
    ChunkDays = 2
    BatchSize = 1
    MaxVersion = 1
    MaxRuns = 3
    MaxFaults = 1
    MaxCrashes = 1
    MaxSpent = 2
    Disciplines = {"FREE", "TIMELY"}
PROPERTIES
    RunsClose
CHECK_DEADLOCK FALSE
