SPECIFICATION Spec
CONSTANTS
    p = p
    q = q
    s1 = s1
    Skus = {s1}
    Products = {p, q}
    None = None
    Files <- ReviewFiles
    MaxJobs = 2
    MaxItems = 2
    Matchers = {m1, m2}
    Reviewers = {r1}
    MaxCrashes = 1
    Disciplines = {"FREE", "ATOMIC", "SERIAL"}
INVARIANTS
    MappingsComeFromPeople
    CountersReconcile
    ApprovedLinesStayQuiet
PROPERTIES
    DecisionsAreFinal
    EveryVerdictIsQueued
SYMMETRY Symmetry
CHECK_DEADLOCK FALSE
