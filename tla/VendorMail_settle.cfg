SPECIFICATION FairSpec
CONSTANTS
    s1 = s1
    s2 = s2
    f1 = f1
    f2 = f2
    v1 = v1
    v2 = v2
    c1 = c1
    c2 = c2
    bad = bad
    Sources = {s1}
    FeedOf <- FeedsOfSources
    VendorOf <- VendorsOfFeeds
    Contents = {c1, bad}
    Invalid = {bad}
    Mailboxes <- AnyFiles
    MaxMails = 2
    MaxJobs = 2
    MaxAttempts = 2
    MaxPages = 2
    PageSize = 1
    MaxDeliveries = 1
    Pollers = {p1}
    MaxFaults = 1
    MaxCrashes = 1
    MaxRetries = 0
    MaxPauses = 0
    MaxUploads = 0
    MaxSpent = 2
PROPERTIES
    MailSettles
CHECK_DEADLOCK FALSE
