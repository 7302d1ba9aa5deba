SPECIFICATION Spec
CONSTANTS
    Vendors = {v1, v2}
    Contents = {"book", "dirty"}
    Sheets = {s1}
    None = None
    MaxJobs = 3
    Requests = {r1, r2}
    Intakes = {}
    ProcessOnUpload = TRUE
    ChunksOf <- MCChunksOf
    BadChunkOf <- MCBadChunkOf
    Workbooks <- MCWorkbooks
    Readable <- MCReadable
    MaxCrashes = 1
    MaxCloses = 1
    MaxLosses = 1
INVARIANTS
    OneImportPerSelection
    RecordedIsRetained
PROPERTIES
    CompletedIsFinal
SYMMETRY RequestSymmetry
CHECK_DEADLOCK FALSE
