SPECIFICATION Spec
CONSTANTS
    s1 = s1
    s2 = s2
    p1 = p1
    p2 = p2
    None = None
    Skus = {s1, s2}
    Products = {p1, p2}
    Shape <- MCShape
    MaxRuns <- OneAndTwo
    MaxLooks = 4
    MaxItems = 2
    MaxChanges = 1
    MaxFaults = 0
    Reviewers = {rev}
    Disciplines = {"FREE"}
SYMMETRY Symmetry
INVARIANTS
    DeclinedStaysDeclined
CHECK_DEADLOCK FALSE
