SPECIFICATION MailedSpec
CONSTANTS
    Vendors = {v1}
    Contents = {"long", "dirty"}
    Sheets = {}
    None = None
    MaxJobs = 2
    Requests = {r1}
    Intakes = {m1}
    ProcessOnUpload = TRUE
    ChunksOf <- MCChunksOf
    BadChunkOf <- MCBadChunkOf
    Workbooks = {}
    Readable <- MCReadable
    MaxCrashes = 2
    MaxCloses = 1
    MaxLosses = 0
    MaxAttempts = 2
    MaxRetries = 1
    MaxTroubles = 2
    MaxFiles = 1
INVARIANTS
    JobsTellTheTruth
PROPERTIES
    PipelineSpec
    WorkersReturn
    InterruptedStagesRecover
CHECK_DEADLOCK FALSE
