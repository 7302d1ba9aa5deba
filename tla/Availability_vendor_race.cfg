SPECIFICATION Spec
CONSTANTS
    a = a
    b = b
    c = c
    v = v
    w = w
    p = p
    q = q
    Lines = {a, c}
    Vendors = {v, w}
    VendorOf <- VendorsOfLines
    Products = {p}
    None = None
    Files <- TwoVendors
    ChunkRows = 1
    MaxJobs = 3
    MaxEntries = 1
    Workers = {w1, w2}
    Buyers = {b1}
    MaxCrashes = 0
    Disciplines = {"VENDOR"}
INVARIANTS
    WatchesHearOfStock
CHECK_DEADLOCK FALSE
