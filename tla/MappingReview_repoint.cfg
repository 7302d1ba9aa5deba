SPECIFICATION Spec
CONSTANTS
    p = p
    q = q
    s1 = s1
    Skus = {s1}
    Products = {p, q}
    None = None
    Files <- EvidenceFiles
    MaxJobs = 2
    MaxItems = 2
    Matchers = {m1}
    Reviewers = {r1}
    MaxCrashes = 0
    Disciplines = {"FREE"}
INVARIANTS
    EveryMappingIsAttributed
SYMMETRY Symmetry
CHECK_DEADLOCK FALSE
