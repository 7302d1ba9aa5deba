SPECIFICATION Spec
CONSTANTS
    RowKinds = {"product_a", "product_b", "record_a", "record_b", "barcode_a", "barcode_b", "sku_known_first",
                "listing_unmapped", "listing_item", "job_sheet_one", "job_sheet_two", "delivery"}
INVARIANTS
    SchemaIsTheRevisions
    OnlyUnlinkedSkusBlock
PROPERTIES
    OnlyUnholdableRowsGo
    RollbacksKeepTheTrail
CHECK_DEADLOCK FALSE
