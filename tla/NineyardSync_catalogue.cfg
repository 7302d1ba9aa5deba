SPECIFICATION Spec
CONSTANTS
    i1 = i1
    i2 = i2
    legacy = legacy
    n1 = n1
    n2 = n2
    b1 = b1
    s1 = s1
    s2 = s2
    None = None
    Items = {i1, i2}
    Position <- MCPosition
    Legacy = {legacy}
    LegacyNumbers = {i1, n1, n2}
    Names = {n1, n2}
    Barcodes = {b1}
    Skus = {s1, s2}
    Payloads <- MCPayloads
    Mappings <- MCMappings
    Exports <- MCExports
    PerPage = 1
    Syncs = {scheduler, cli}
    Operators = {operator1}
    MaxRuns = 2
    MaxChanges = 1
SYMMETRY Symmetry
INVARIANTS
    NumbersAreOwn
    RunsAreWhole
PROPERTIES
    IdentitiesSurviveSyncs
    QuietRunsCatchUp
    SerialSpec
CHECK_DEADLOCK FALSE
