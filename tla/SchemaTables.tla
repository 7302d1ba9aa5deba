---------------------------- MODULE SchemaTables ----------------------------
(***************************************************************************)
(* The database schema as the Alembic revisions build it and take it down: *)
(* every table of the first revision, and the statements of the ten later  *)
(* ones, in the order their upgrade() and downgrade() issue them           *)
(* (backend/alembic/versions).  A statement is a record; SchemaMigrations  *)
(* executes them.  Plain columns, format checks ("not blank", "not         *)
(* negative") and indexes that are only there for speed are left out: no   *)
(* later statement depends on them.  Kept are what one statement may find  *)
(* missing or in its way: tables, enum types, foreign keys, NOT NULL,      *)
(* unique indexes, the checks that relate columns, triggers.               *)
(***************************************************************************)
EXTENDS Naturals, Sequences, FiniteSets

NULL == "NULL"

(***************************************************************************)
(* Foreign keys, [col, to, rule, required]; unique indexes, which treat    *)
(* NULLs as distinct unless nullsEqual (the coalesce() of the worksheet    *)
(* index) and cover only the rows their "where" names.                     *)
(***************************************************************************)
Needs(col, to, rule) == [col |-> col, to |-> to, rule |-> rule, required |-> TRUE]
Refers(col, to, rule) == [col |-> col, to |-> to, rule |-> rule, required |-> FALSE]
Unique(name, cols) == [name |-> name, cols |-> cols, where |-> "all", nullsEqual |-> FALSE]
UniqueWhere(name, cols, where) == [Unique(name, cols) EXCEPT !.where = where]

\* mixins.OrganizationScopedMixin: every table but organizations is owned.
TheOrganization == Needs("organization_id", "organizations", "RESTRICT")

CreateTable(name, types, fks, uniques, checks) ==
    [op |-> "create_table", table |-> name, types |-> types, reused |-> {},
     fks |-> fks, uniques |-> uniques, checks |-> checks]
Owned(name, types, fks, uniques, checks) ==
    CreateTable(name, types, fks \cup {TheOrganization}, uniques, checks)
DropTable(name)                == [op |-> "drop_table", table |-> name]
CreateType(name)               == [op |-> "create_type", type |-> name]
DropType(name)                 == [op |-> "drop_type", type |-> name]
AddColumn(table, col)          == [op |-> "add_column", table |-> table, col |-> col, reused |-> {}]
AddTyped(table, col, type)     == [AddColumn(table, col) EXCEPT !.reused = {type}]
DropColumn(table, col)         == [op |-> "drop_column", table |-> table, col |-> col]
SetNotNull(table, col)         == [op |-> "set_not_null", table |-> table, col |-> col]
DropNotNull(table, col)        == [op |-> "drop_not_null", table |-> table, col |-> col]
CreateUnique(table, u)         == [op |-> "create_unique", table |-> table, index |-> u]
DropIndex(name)                == [op |-> "drop_index", name |-> name]
CreateCheck(table, name, holds) == [op |-> "create_check", table |-> table, name |-> name, holds |-> holds]
DropCheck(name)                == [op |-> "drop_check", name |-> name]
AddForeignKey(table, fk)       == [op |-> "add_fk", table |-> table, fk |-> fk]
DropForeignKey(table, col)     == [op |-> "drop_fk", table |-> table, col |-> col]
CreateObject(name)             == [op |-> "create_object", name |-> name]
DropObject(name)               == [op |-> "drop_object", name |-> name]
DeleteWhere(table, which)      == [op |-> "delete", table |-> table, which |-> which]
RefuseIf(which)                == [op |-> "refuse_if", which |-> which]
Backfill(which)                == [op |-> "backfill", which |-> which]

-----------------------------------------------------------------------------
(***************************************************************************)
(* 506fd0ecc33a, the tables in the order they are created.                 *)
(***************************************************************************)
organizations == CreateTable("organizations", {}, {}, {Unique("uq_organizations_slug", {"slug"})}, {})

products ==
    Owned("products", {"product_status"}, {},
          {Unique("uq_products_organization_id_catalog_item_number", {"catalog_item_number"})}, {})

roles == Owned("roles", {}, {}, {Unique("uq_roles_organization_id_code", {"code"})}, {})

users == Owned("users", {}, {}, {Unique("uq_users_organization_id_email", {"email"})}, {})

vendors ==
    Owned("vendors", {"vendor_status"}, {}, {Unique("uq_vendors_organization_id_code", {"code"})}, {})

audit_events ==
    Owned("audit_events", {"actor_type"}, {Refers("actor_user_id", "users", "RESTRICT")}, {},
          {"ck_audit_events_actor_matches_actor_type"})

import_files ==
    Owned("import_files", {},
          {Refers("uploaded_by_user_id", "users", "SET NULL"), Needs("vendor_id", "vendors", "RESTRICT")},
          {Unique("uq_import_files_organization_id_sha256", {"sha256"})}, {})

marketplace_listings ==
    Owned("marketplace_listings", {"marketplace", "listing_status", "mapping_status"},
          {Refers("approved_by_user_id", "users", "SET NULL"), Needs("product_id", "products", "CASCADE")},
          {Unique("uq_marketplace_listings_marketplace_id_seller_sku",
                  {"marketplace", "marketplace_id", "seller_sku"})},
          {"ck_marketplace_listings_approved_requires_approver"})

nineyard_sync_runs ==
    Owned("nineyard_sync_runs", {"sync_status", "trigger_type"},
          {Refers("triggered_by_user_id", "users", "SET NULL")}, {}, {})

oos_watchlist ==
    Owned("oos_watchlist", {"watchlist_priority", "oos_status"},
          {Refers("added_by_user_id", "users", "SET NULL"), Refers("deactivated_by_user_id", "users", "SET NULL"),
           Needs("product_id", "products", "CASCADE"), Refers("vendor_id", "vendors", "CASCADE")},
          {UniqueWhere("uq_oos_watchlist_active_product_all_vendors", {"product_id"}, "active, all vendors"),
           UniqueWhere("uq_oos_watchlist_active_product_vendor", {"product_id", "vendor_id"}, "active, one vendor")}, {})

user_roles ==
    Owned("user_roles", {},
          {Refers("granted_by_user_id", "users", "SET NULL"), Needs("role_id", "roles", "RESTRICT"),
           Needs("user_id", "users", "CASCADE")},
          {Unique("uq_user_roles_user_id_role_id", {"user_id", "role_id"})}, {})

vendor_import_profiles ==
    Owned("vendor_import_profiles", {"file_format"},
          {Refers("created_by_user_id", "users", "SET NULL"), Needs("vendor_id", "vendors", "CASCADE")},
          {UniqueWhere("uq_vendor_import_profiles_active_name", {"vendor_id", "name"}, "active"),
           Unique("uq_vendor_import_profiles_vendor_id_name_version", {"vendor_id", "name", "version"})}, {})

vendor_products ==
    Owned("vendor_products", {"mapping_status", "match_method"},
          {Refers("mapping_approved_by_user_id", "users", "SET NULL"), Refers("product_id", "products", "RESTRICT"),
           Needs("vendor_id", "vendors", "CASCADE")},
          {Unique("uq_vendor_products_vendor_id_vendor_sku", {"vendor_id", "vendor_sku"})},
          {"ck_vendor_products_approved_mapping_requires_product", "ck_vendor_products_mapped_row_is_not_unmapped"})

import_jobs ==
    Owned("import_jobs", {"import_job_status"},
          {Needs("import_file_id", "import_files", "RESTRICT"), Refers("triggered_by_user_id", "users", "SET NULL"),
           Needs("vendor_id", "vendors", "RESTRICT"),
           Refers("vendor_import_profile_id", "vendor_import_profiles", "RESTRICT")},
          {UniqueWhere("uq_import_jobs_active_import_file", {"import_file_id"}, "not failed or cancelled")}, {})

product_identifiers ==
    Owned("product_identifiers", {"identifier_type", "source_system"},
          {Refers("marketplace_listing_id", "marketplace_listings", "CASCADE"),
           Needs("product_id", "products", "CASCADE"), Refers("vendor_id", "vendors", "CASCADE")},
          {UniqueWhere("uq_product_identifiers_global_value", {"identifier_type", "normalized_value"}, "global"),
           UniqueWhere("uq_product_identifiers_listing_value",
                       {"marketplace_listing_id", "identifier_type", "normalized_value"}, "of a listing"),
           UniqueWhere("uq_product_identifiers_vendor_value",
                       {"vendor_id", "identifier_type", "normalized_value"}, "of a vendor")},
          {"ck_product_identifiers_context_matches_identifier_type"})

import_job_rows ==
    Owned("import_job_rows", {"availability_status", "import_row_status", "match_result", "match_method"},
          {Needs("import_job_id", "import_jobs", "CASCADE"), Refers("product_id", "products", "SET NULL"),
           Refers("vendor_product_id", "vendor_products", "SET NULL")},
          {Unique("uq_import_job_rows_import_job_id_row_number", {"import_job_id", "row_number"})},
          {"ck_import_job_rows_matched_row_records_deciding_rule"})

source_records ==
    Owned("source_records", {"source_system"},
          {Refers("import_job_id", "import_jobs", "SET NULL"),
           Refers("nineyard_sync_run_id", "nineyard_sync_runs", "SET NULL")},
          {Unique("uq_source_records_identity_payload",
                  {"source_system", "source_entity_type", "source_record_id", "payload_sha256"})},
          {"ck_source_records_local_reference_is_complete"})

vendor_inventory_snapshots ==
    Owned("vendor_inventory_snapshots", {"availability_status"},
          {Needs("import_job_id", "import_jobs", "RESTRICT"), Refers("product_id", "products", "RESTRICT"),
           Needs("vendor_id", "vendors", "RESTRICT"), Needs("vendor_product_id", "vendor_products", "RESTRICT")},
          {Unique("uq_vendor_inventory_snapshots_job_vendor_product", {"import_job_id", "vendor_product_id"})}, {})

availability_events ==
    Owned("availability_events", {"availability_event_type", "availability_status"},
          {Refers("acknowledged_by_user_id", "users", "SET NULL"),
           Needs("current_snapshot_id", "vendor_inventory_snapshots", "RESTRICT"),
           Refers("oos_watchlist_id", "oos_watchlist", "SET NULL"),
           Refers("previous_snapshot_id", "vendor_inventory_snapshots", "RESTRICT"),
           Refers("product_id", "products", "RESTRICT"), Needs("vendor_id", "vendors", "RESTRICT"),
           Needs("vendor_product_id", "vendor_products", "RESTRICT")},
          {Unique("uq_availability_events_snapshot_event_type", {"current_snapshot_id", "event_type"})},
          {"ck_availability_events_acknowledgement_names_a_user"})

oos_status_history ==
    Owned("oos_status_history", {"oos_status"},
          {Needs("oos_watchlist_id", "oos_watchlist", "CASCADE"), Needs("product_id", "products", "RESTRICT"),
           Refers("vendor_id", "vendors", "SET NULL"),
           Refers("vendor_inventory_snapshot_id", "vendor_inventory_snapshots", "RESTRICT")}, {}, {})

product_mapping_exceptions ==
    Owned("product_mapping_exceptions", {"exception_reason", "exception_status"},
          {Refers("assigned_to_user_id", "users", "SET NULL"), Refers("import_job_id", "import_jobs", "RESTRICT"),
           Refers("import_job_row_id", "import_job_rows", "SET NULL"),
           Refers("resolved_by_user_id", "users", "SET NULL"), Refers("resolved_product_id", "products", "RESTRICT"),
           Refers("suggested_product_id", "products", "SET NULL"), Needs("vendor_id", "vendors", "RESTRICT"),
           Refers("vendor_product_id", "vendor_products", "CASCADE")},
          {UniqueWhere("uq_product_mapping_exceptions_pending_vendor_product", {"vendor_product_id"}, "pending")},
          {"ck_product_mapping_exceptions_approved_requires_product_and_approver",
           "ck_product_mapping_exceptions_pending_is_unresolved",
           "ck_product_mapping_exceptions_rejected_requires_approver"})

InitialTables ==
    << organizations, products, roles, users, vendors, audit_events, import_files, marketplace_listings,
       nineyard_sync_runs, oos_watchlist, user_roles, vendor_import_profiles, vendor_products, import_jobs,
       product_identifiers, import_job_rows, source_records, vendor_inventory_snapshots, availability_events,
       oos_status_history, product_mapping_exceptions >>

\* The types downgrade() must drop itself: DROP TABLE leaves them behind.
ENUM_TYPES ==
    << "actor_type", "availability_event_type", "availability_status", "exception_reason", "exception_status",
       "file_format", "identifier_type", "import_job_status", "import_row_status", "listing_status",
       "mapping_status", "marketplace", "match_method", "match_result", "oos_status", "product_status",
       "source_system", "sync_status", "trigger_type", "vendor_status", "watchlist_priority" >>

create_search_indexes == << CreateObject("ix_products_name_trgm"), CreateObject("ix_vendors_name_trgm") >>
drop_search_indexes   == << DropObject("ix_vendors_name_trgm"), DropObject("ix_products_name_trgm") >>

create_audit_append_only_guard ==
    << CreateObject("audit_events_reject_mutation"), CreateObject("audit_events_append_only") >>
drop_audit_append_only_guard ==
    << DropObject("audit_events_append_only"), DropObject("audit_events_reject_mutation") >>

\* Mutant: the list forgets an enum type.
DropEnumTypesButOne == [i \in 1..20 |-> DropType(ENUM_TYPES[i])]

drop_enum_types == [i \in DOMAIN ENUM_TYPES |-> DropType(ENUM_TYPES[i])]

Initial_upgrade == InitialTables \o create_search_indexes \o create_audit_append_only_guard

\* downgrade() drops the tables in the reverse order; their indexes go with them.
Initial_downgrade ==
    drop_audit_append_only_guard \o drop_search_indexes
    \o [i \in DOMAIN InitialTables |-> DropTable(InitialTables[Len(InitialTables) + 1 - i].table)]
    \o drop_enum_types

-----------------------------------------------------------------------------
(***************************************************************************)
(* 3767ee979011: the Amazon tables, which reuse sync_status and            *)
(* trigger_type (create_type=False).                                       *)
(***************************************************************************)
amazon_sync_runs ==
    [Owned("amazon_sync_runs", {"amazon_sync_job_type"}, {Refers("triggered_by_user_id", "users", "RESTRICT")},
           {UniqueWhere("uq_amazon_sync_runs_running_job", {"job_type"}, "running")},
           {"ck_amazon_sync_runs_running_has_no_completed_at"})
     EXCEPT !.reused = {"sync_status", "trigger_type"}]

amazon_inventory_snapshots ==
    Owned("amazon_inventory_snapshots", {}, {Needs("sync_run_id", "amazon_sync_runs", "RESTRICT")},
          {Unique("uq_amazon_inventory_snapshots_run_sku", {"sync_run_id", "seller_sku"})}, {})

amazon_order_lines ==
    Owned("amazon_order_lines", {},
          {Needs("first_seen_sync_run_id", "amazon_sync_runs", "RESTRICT"),
           Needs("last_seen_sync_run_id", "amazon_sync_runs", "RESTRICT")},
          {Unique("uq_amazon_order_lines_order_sku", {"amazon_order_id", "seller_sku"})}, {})

Amazon_upgrade == << amazon_sync_runs, amazon_inventory_snapshots, amazon_order_lines >>

Amazon_downgrade ==
    << DropTable("amazon_order_lines"), DropTable("amazon_inventory_snapshots"),
       DropTable("amazon_sync_runs"), DropType("amazon_sync_job_type") >>

(***************************************************************************)
(* 3de5c4e5def0: a listing without a product, an exception about a listing *)
(* instead of a vendor line, an AMAZON_SKU that is known before its        *)
(* listing.                                                                *)
(***************************************************************************)
create_checks ==
    << CreateCheck("marketplace_listings", "ck_marketplace_listings_approved_requires_product",
                   "approved_requires_product"),
       CreateCheck("marketplace_listings", "ck_marketplace_listings_mapped_row_is_not_unmapped",
                   "mapped_row_is_not_unmapped"),
       CreateCheck("product_mapping_exceptions", "ck_product_mapping_exceptions_has_a_subject", "has_a_subject"),
       CreateCheck("product_mapping_exceptions", "ck_product_mapping_exceptions_vendor_product_requires_vendor",
                   "vendor_product_requires_vendor"),
       DropCheck("ck_product_identifiers_context_matches_identifier_type"),
       CreateCheck("product_identifiers", "ck_product_identifiers_context_matches_identifier_type",
                   "context_after") >>

drop_checks ==
    << DropCheck("ck_product_identifiers_context_matches_identifier_type"),
       CreateCheck("product_identifiers", "ck_product_identifiers_context_matches_identifier_type",
                   "context_before"),
       DropCheck("ck_product_mapping_exceptions_vendor_product_requires_vendor"),
       DropCheck("ck_product_mapping_exceptions_has_a_subject"),
       DropCheck("ck_marketplace_listings_mapped_row_is_not_unmapped"),
       DropCheck("ck_marketplace_listings_approved_requires_product") >>

\* Mutant: every identifier goes, not only the Amazon SKUs without a listing.
RemovesEveryIdentifier ==
    << DeleteWhere("product_mapping_exceptions", "without a vendor"),
       DeleteWhere("product_identifiers", "any"), DeleteWhere("marketplace_listings", "without a product") >>

remove_rows_the_old_schema_cannot_hold ==
    << DeleteWhere("product_mapping_exceptions", "without a vendor"),
       DeleteWhere("product_identifiers", "AMAZON_SKU without a listing"),
       DeleteWhere("marketplace_listings", "without a product") >>

Listing_upgrade ==
    << AddTyped("marketplace_listings", "mapping_method", "match_method"),
       AddColumn("marketplace_listings", "raw"),
       DropNotNull("marketplace_listings", "product_id"),
       AddColumn("product_mapping_exceptions", "marketplace_listing_id"),
       DropNotNull("product_mapping_exceptions", "vendor_id"),
       CreateUnique("product_mapping_exceptions",
                    UniqueWhere("uq_product_mapping_exceptions_pending_listing", {"marketplace_listing_id"},
                                "pending")),
       AddForeignKey("product_mapping_exceptions",
                     Refers("marketplace_listing_id", "marketplace_listings", "CASCADE")) >>
    \o create_checks

Listing_downgrade ==
    drop_checks \o remove_rows_the_old_schema_cannot_hold \o
    << DropForeignKey("product_mapping_exceptions", "marketplace_listing_id"),
       DropIndex("uq_product_mapping_exceptions_pending_listing"),
       SetNotNull("product_mapping_exceptions", "vendor_id"),
       DropColumn("product_mapping_exceptions", "marketplace_listing_id"),
       SetNotNull("marketplace_listings", "product_id"),
       DropColumn("marketplace_listings", "raw"),
       DropColumn("marketplace_listings", "mapping_method") >>

(***************************************************************************)
(* 44c932e601b0, fadb756b1b85, fab7311199fc, 52e787f49770, e71a20261007:   *)
(* vendor contacts, the import stage, deferral, the cost flag, the Entra   *)
(* identity.                                                               *)
(***************************************************************************)
Contacts_upgrade ==
    << Owned("vendor_contacts", {}, {Needs("vendor_id", "vendors", "RESTRICT")},
             {UniqueWhere("uq_vendor_contacts_primary", {"vendor_id"}, "primary and active"),
              Unique("uq_vendor_contacts_vendor_id_lower_email", {"vendor_id", "email"})}, {}),
       AddColumn("vendors", "minimum_order_quantity"), AddColumn("vendors", "minimum_order_value"),
       AddColumn("vendors", "purchasing_terms"),
       CreateCheck("vendors", "ck_vendors_minimum_order_quantity_not_negative", "format"),
       CreateCheck("vendors", "ck_vendors_minimum_order_value_not_negative", "format") >>

Contacts_downgrade ==
    << DropCheck("ck_vendors_minimum_order_value_not_negative"),
       DropCheck("ck_vendors_minimum_order_quantity_not_negative"),
       DropColumn("vendors", "purchasing_terms"), DropColumn("vendors", "minimum_order_value"),
       DropColumn("vendors", "minimum_order_quantity"),
       DropIndex("uq_vendor_contacts_vendor_id_lower_email"), DropIndex("uq_vendor_contacts_primary"),
       DropTable("vendor_contacts") >>

\* IMPORT_JOB_STAGE.create(checkfirst=True): add_column does not create the type.
Stage_upgrade   == << CreateType("import_job_stage"), AddTyped("import_jobs", "current_stage", "import_job_stage") >>
Stage_downgrade == << DropColumn("import_jobs", "current_stage"), DropType("import_job_stage") >>

Deferral_upgrade   == << AddColumn("product_mapping_exceptions", "deferred_until"),
                         CreateObject("ix_product_mapping_exceptions_deferred_until") >>
Deferral_downgrade == << DropObject("ix_product_mapping_exceptions_deferred_until"),
                         DropColumn("product_mapping_exceptions", "deferred_until") >>

Ceiling_upgrade   == << AddColumn("availability_events", "over_max_unit_cost") >>
Ceiling_downgrade == << DropColumn("availability_events", "over_max_unit_cost") >>

Entra_upgrade ==
    << AddColumn("users", "entra_tenant_id"), AddColumn("users", "entra_object_id"),
       CreateUnique("users", Unique("uq_users_entra_identity", {"entra_tenant_id", "entra_object_id"})),
       CreateCheck("users", "entra_identity_complete", "entra_identity_complete") >>
Entra_downgrade ==
    << DropCheck("entra_identity_complete"), DropIndex("uq_users_entra_identity"),
       DropColumn("users", "entra_object_id"), DropColumn("users", "entra_tenant_id") >>

(***************************************************************************)
(* 9c1520261015: products get their NineYard identity from the retained    *)
(* API records, and a barcode may have several owners.                     *)
(***************************************************************************)
Catalogue_upgrade ==
    << AddColumn("products", "nineyard_item_id"), Backfill("nineyard_item_id"),
       CreateUnique("products", Unique("uq_products_organization_id_nineyard_item_id", {"nineyard_item_id"})),
       DropIndex("uq_product_identifiers_global_value"),
       CreateUnique("product_identifiers",
                    UniqueWhere("uq_product_identifiers_global_value", {"identifier_type", "normalized_value"},
                                "global, not a barcode")),
       CreateUnique("product_identifiers",
                    UniqueWhere("uq_product_identifiers_barcode_value",
                                {"product_id", "identifier_type", "normalized_value"}, "barcode")) >>

Catalogue_downgrade ==
    << RefuseIf("shared active barcodes"),
       DropIndex("uq_product_identifiers_barcode_value"), DropIndex("uq_product_identifiers_global_value"),
       CreateUnique("product_identifiers",
                    UniqueWhere("uq_product_identifiers_global_value", {"identifier_type", "normalized_value"},
                                "global")),
       DropIndex("uq_products_organization_id_nineyard_item_id"), DropColumn("products", "nineyard_item_id") >>

(***************************************************************************)
(* a61105202601: one job per worksheet; a61106202601: the mail intake.     *)
(***************************************************************************)
Worksheet_upgrade ==
    << AddColumn("import_jobs", "source_sheet"), DropIndex("uq_import_jobs_active_import_file"),
       CreateUnique("import_jobs",
                    [UniqueWhere("uq_import_jobs_active_import_file", {"import_file_id", "source_sheet"},
                                 "not failed or cancelled") EXCEPT !.nullsEqual = TRUE]) >>

Worksheet_downgrade ==
    << RefuseIf("several live jobs of a file"), DropIndex("uq_import_jobs_active_import_file"),
       CreateUnique("import_jobs",
                    UniqueWhere("uq_import_jobs_active_import_file", {"import_file_id"}, "not failed or cancelled")),
       DropColumn("import_jobs", "source_sheet") >>

Mail_upgrade ==
    << Owned("vendor_mail_sources", {},
             {Needs("vendor_id", "vendors", "RESTRICT"), Needs("profile_id", "vendor_import_profiles", "RESTRICT")},
             {Unique("uq_vendor_mail_sources_org_name", {"name"})}, {}),
       Owned("vendor_mail_states", {}, {}, {Unique("uq_vendor_mail_states_org_account", {"account_key"})}, {}),
       Owned("vendor_mail_deliveries", {},
             {Needs("state_id", "vendor_mail_states", "RESTRICT"), Needs("source_id", "vendor_mail_sources", "RESTRICT"),
              Needs("profile_id", "vendor_import_profiles", "RESTRICT"),
              Refers("import_job_id", "import_jobs", "RESTRICT")},
             {Unique("uq_vendor_mail_deliveries_identity", {"state_id", "source_id", "message_id", "item_key"})}, {}) >>

\* Mutant: a rollback without its guard.
MailDowngradeUnguarded ==
    << DropTable("vendor_mail_deliveries"), DropTable("vendor_mail_states"), DropTable("vendor_mail_sources") >>

Mail_downgrade ==
    << RefuseIf("mail deliveries"), DropTable("vendor_mail_deliveries"), DropTable("vendor_mail_states"),
       DropTable("vendor_mail_sources") >>

-----------------------------------------------------------------------------
\* The chain of revisions, as down_revision links them.
Revisions ==
    << [id |-> "506fd0ecc33a", upgrade |-> Initial_upgrade,   downgrade |-> Initial_downgrade],
       [id |-> "3767ee979011", upgrade |-> Amazon_upgrade,    downgrade |-> Amazon_downgrade],
       [id |-> "3de5c4e5def0", upgrade |-> Listing_upgrade,   downgrade |-> Listing_downgrade],
       [id |-> "44c932e601b0", upgrade |-> Contacts_upgrade,  downgrade |-> Contacts_downgrade],
       [id |-> "fadb756b1b85", upgrade |-> Stage_upgrade,     downgrade |-> Stage_downgrade],
       [id |-> "fab7311199fc", upgrade |-> Deferral_upgrade,  downgrade |-> Deferral_downgrade],
       [id |-> "52e787f49770", upgrade |-> Ceiling_upgrade,   downgrade |-> Ceiling_downgrade],
       [id |-> "e71a20261007", upgrade |-> Entra_upgrade,     downgrade |-> Entra_downgrade],
       [id |-> "9c1520261015", upgrade |-> Catalogue_upgrade, downgrade |-> Catalogue_downgrade],
       [id |-> "a61105202601", upgrade |-> Worksheet_upgrade, downgrade |-> Worksheet_downgrade],
       [id |-> "a61106202601", upgrade |-> Mail_upgrade,      downgrade |-> Mail_downgrade] >>
=============================================================================
