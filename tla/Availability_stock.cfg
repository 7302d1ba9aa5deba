SPECIFICATION Spec
CONSTANTS
    a = a
    b = b
    c = c
    v = v
    w = w
    p = p
    q = q
    Lines = {a, b, c}
    Vendors = {v, w}
    VendorOf <- VendorsOfLines
    Products = {p}
    None = None
    Files <- ThreeLines
    ChunkRows = 2
    MaxJobs = 2
    MaxEntries = 2
    Workers = {w1, w2}
    Buyers = {b1}
    MaxCrashes = 1
    Disciplines = {"IMPORTS", "VENDOR", "SERIAL"}
INVARIANTS
    EventsTellTheirSnapshots
    FinishedImportsAreObserved
    EventsMatchTransitions
    NoMissedStock
    HistoryIsAChain
SYMMETRY Symmetry
CHECK_DEADLOCK FALSE
