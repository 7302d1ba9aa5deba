SPECIFICATION Spec
CONSTANTS
    s1 = s1
    s2 = s2
    f1 = f1
    f2 = f2
    v1 = v1
    v2 = v2
    c1 = c1
    c2 = c2
    bad = bad
    p1 = p1
    p2 = p2
    Sources = {s1, s2}
    FeedOf <- FeedsOfSources
    VendorOf <- VendorsOfFeeds
    Contents = {c1, c2}
    Invalid = {bad}
    Mailboxes <- Mixed
    MaxMails = 3
    MaxJobs = 3
    MaxAttempts = 2
    MaxPages = 2
    PageSize = 1
    MaxDeliveries = 2
    Pollers = {p1, p2}
    MaxFaults = 1
    MaxCrashes = 1
    MaxRetries = 1
    MaxPauses = 1
    MaxUploads = 1
    MaxSpent = 2
INVARIANTS
    AppliedInOrder
    OneImportPerContent
    AmbiguityIsNeverRouted
PROPERTIES
    InterruptedImportsBlock
    FreshnessIsEarned
SYMMETRY Symmetry
CHECK_DEADLOCK FALSE
