SPECIFICATION Spec
CONSTANTS
    RowKinds = {"product_a", "sku_known_first"}
INVARIANTS
    CommandsNeverFail
CHECK_DEADLOCK FALSE
