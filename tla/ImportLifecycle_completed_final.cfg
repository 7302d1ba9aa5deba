SPECIFICATION FairSpec
CONSTANTS
    Vendors = {v1}
    Contents = {"long"}
    Sheets = {}
    None = None
    MaxJobs = 2
    Requests = {r1}
    Intakes = {m1}
    ProcessOnUpload = TRUE
    ChunksOf <- MCChunksOf
    BadChunkOf <- MCBadChunkOf
    Workbooks <- MCWorkbooks
    Readable <- MCReadable
    MaxCrashes = 0
    MaxCloses = 0
    MaxLosses = 0
PROPERTIES
    CompletedIsFinal
CHECK_DEADLOCK FALSE
