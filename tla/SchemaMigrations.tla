-------------------------- MODULE SchemaMigrations --------------------------
(***************************************************************************)
(* `alembic upgrade` and `alembic downgrade` over a database that is in    *)
(* use: between two commands the application writes rows wherever the      *)
(* schema of the day lets it.  A command is ONE transaction                *)
(* (alembic/env.py: context.begin_transaction() around run_migrations()):  *)
(* it executes the statements of every revision on its way, and the first  *)
(* statement PostgreSQL or a guard refuses takes all of them back.         *)
(*                                                                         *)
(* A row is [table, at], at giving the columns the schema's rules look at. *)
(***************************************************************************)
EXTENDS SchemaTables, SequencesExt

CONSTANTS RowKinds      \* the rows of SampleRows that this instance may hold

VARIABLES revision,     \* how many revisions are applied (0 = base)
          schema,       \* what the catalogue of the database holds
          rows,         \* id -> [table, at]
          outcome       \* of the last command: "ok", "refused" or "failed"

vars == <<revision, schema, rows, outcome>>

Latest == Len(Revisions)

-----------------------------------------------------------------------------
(***************************************************************************)
(* The rows the application writes that some revision cares about.         *)
(***************************************************************************)
Row(table, at) == [table |-> table, at |-> at]
Identifier(product, type, listing, value) ==
    Row("product_identifiers", [product_id |-> product, identifier_type |-> type, vendor_id |-> NULL,
                                marketplace_listing_id |-> listing, normalized_value |-> value])
SampleRows ==
    [product_a         |-> Row("products", [catalog_item_number |-> "A"]),
     product_b         |-> Row("products", [catalog_item_number |-> "B"]),
     \* the NineYard API's record of a product, twice the same item
     record_a          |-> Row("source_records", [source_record_id |-> "77", local_entity_id |-> "product_a"]),
     record_b          |-> Row("source_records", [source_record_id |-> "77", local_entity_id |-> "product_b"]),
     barcode_a         |-> Identifier("product_a", "UPC", NULL, "0123"),
     barcode_b         |-> Identifier("product_b", "UPC", NULL, "0123"),
     sku_known_first   |-> Identifier("product_a", "AMAZON_SKU", NULL, "SKU-1"),
     listing_unmapped  |-> Row("marketplace_listings",
                               [product_id |-> NULL, mapping_status |-> "UNMAPPED", seller_sku |-> "SKU-2",
                                marketplace |-> "AMAZON", marketplace_id |-> "US"]),
     listing_item      |-> Row("product_mapping_exceptions",
                               [vendor_id |-> NULL, marketplace_listing_id |-> "listing_unmapped"]),
     job_sheet_one     |-> Row("import_jobs", [import_file_id |-> "f1", source_sheet |-> "one"]),
     job_sheet_two     |-> Row("import_jobs", [import_file_id |-> "f1", source_sheet |-> "two"]),
     delivery          |-> Row("vendor_mail_deliveries", [message_id |-> "m1"]),
     person            |-> Row("users", [email |-> "p@x", entra_tenant_id |-> "t", entra_object_id |-> "o"])]

ASSUME RowKindsAssumption == RowKinds \subseteq DOMAIN SampleRows

-----------------------------------------------------------------------------
(***************************************************************************)
(* What PostgreSQL demands of rows.                                        *)
(***************************************************************************)
Has(row, col) == col \in DOMAIN row.at /\ row.at[col] # NULL
Barcode(row) == row.at.identifier_type \in {"UPC", "EAN", "GTIN"}

\* The CHECK constraints, by what they say.
Satisfies(row, check) ==
    CASE check = "approved_requires_product"  -> row.at.mapping_status = "APPROVED" => Has(row, "product_id")
      [] check = "mapped_row_is_not_unmapped" -> Has(row, "product_id") => row.at.mapping_status # "UNMAPPED"
      [] check = "has_a_subject" -> Has(row, "vendor_id") \/ Has(row, "marketplace_listing_id")
      [] check = "vendor_product_requires_vendor" -> Has(row, "vendor_product_id") => Has(row, "vendor_id")
      [] check = "entra_identity_complete" -> Has(row, "entra_tenant_id") <=> Has(row, "entra_object_id")
      [] check = "context_before" ->
            /\ row.at.identifier_type = "VENDOR_SKU" <=> Has(row, "vendor_id")
            /\ row.at.identifier_type = "AMAZON_SKU" <=> Has(row, "marketplace_listing_id")
      [] check = "context_after" ->
            /\ row.at.identifier_type = "VENDOR_SKU" <=> Has(row, "vendor_id")
            /\ Has(row, "marketplace_listing_id") => row.at.identifier_type = "AMAZON_SKU"
      [] OTHER -> TRUE

\* The predicates of the partial unique indexes; the rows here are active.
Covered(row, where) ==
    CASE where = "global" -> ~Has(row, "vendor_id") /\ ~Has(row, "marketplace_listing_id")
      [] where = "global, not a barcode" ->
            ~Has(row, "vendor_id") /\ ~Has(row, "marketplace_listing_id") /\ ~Barcode(row)
      [] where = "barcode" -> Barcode(row)
      [] OTHER -> TRUE

\* Two rows an index does not let stand beside each other.  Only columns both
\* rows have are looked at: a key with an unmodelled column never clashes.
Clash(r1, r2, u) ==
    /\ Covered(r1, u.where) /\ Covered(r2, u.where)
    /\ u.cols \subseteq DOMAIN r1.at \cap DOMAIN r2.at
    /\ \A col \in u.cols : r1.at[col] = r2.at[col] /\ (u.nullsEqual \/ r1.at[col] # NULL)

RowsOf(rs, table) == {i \in DOMAIN rs : rs[i].table = table}
UniqueHolds(rs, table, u) == \A i, j \in RowsOf(rs, table) : i = j \/ ~Clash(rs[i], rs[j], u)

EmptySchema == [tables |-> {}, types |-> {}, typed |-> {}, fks |-> {}, required |-> {}, uniques |-> {},
                checks |-> {}, columns |-> {}, objects |-> {}]

(***************************************************************************)
(* One statement.  A session is [schema, rows, memo, outcome]; memo holds  *)
(* the enum types this command has created, which SQLAlchemy does not      *)
(* create twice (two tables of one revision share mapping_status).         *)
(***************************************************************************)
Fails(s)   == [s EXCEPT !.outcome = "failed"]
Refuses(s) == [s EXCEPT !.outcome = "refused"]

\* The one check of the first revision that a later one rewrites.
Meaning(name) ==
    IF name = "ck_product_identifiers_context_matches_identifier_type" THEN "context_before" ELSE name

ExecCreateTable(s, o) ==
    LET d == s.schema
        new == o.types \ s.memo
    IN  IF \/ o.table \in d.tables
           \/ \E fk \in o.fks : fk.to \notin d.tables \cup {o.table}
           \/ new \cap d.types # {}                 \* "type already exists"
           \/ ~(o.reused \subseteq d.types)
        THEN Fails(s)
        ELSE [s EXCEPT
              !.memo = @ \cup o.types,
              !.schema =
                [d EXCEPT
                  !.tables   = @ \cup {o.table},
                  !.types    = @ \cup new,
                  !.typed    = @ \cup {[table |-> o.table, col |-> "", type |-> t] : t \in o.types \cup o.reused},
                  !.fks      = @ \cup {[table |-> o.table, col |-> fk.col, to |-> fk.to, rule |-> fk.rule] : fk \in o.fks},
                  !.required = @ \cup {<<o.table, fk.col>> : fk \in {f \in o.fks : f.required}},
                  !.uniques  = @ \cup {[table |-> o.table, index |-> u] : u \in o.uniques},
                  !.checks   = @ \cup {[table |-> o.table, name |-> c, holds |-> Meaning(c)] : c \in o.checks}]]

ExecDropTable(s, o) ==
    LET d == s.schema
        Others(S) == {x \in S : x.table # o.table}
    IN  IF o.table \notin d.tables \/ \E fk \in Others(d.fks) : fk.to = o.table
        THEN Fails(s)
        ELSE [s EXCEPT
              !.rows = Restrict(@, DOMAIN @ \ RowsOf(@, o.table)),
              !.schema =
                [d EXCEPT
                  !.tables = @ \ {o.table}, !.typed = Others(@), !.fks = Others(@), !.uniques = Others(@),
                  !.checks = Others(@), !.required = {r \in @ : r[1] # o.table},
                  !.columns = {c \in @ : c[1] # o.table}]]

\* DROP TYPE without CASCADE: PostgreSQL refuses while a column has the type.
ExecDropType(s, o) ==
    IF \E x \in s.schema.typed : x.type = o.type THEN Fails(s)
    ELSE [s EXCEPT !.schema.types = @ \ {o.type}]

ExecAddColumn(s, o) ==
    IF o.table \notin s.schema.tables \/ <<o.table, o.col>> \in s.schema.columns \/ ~(o.reused \subseteq s.schema.types)
    THEN Fails(s)
    ELSE [s EXCEPT !.schema.columns = @ \cup {<<o.table, o.col>>},
                   !.schema.typed = @ \cup {[table |-> o.table, col |-> o.col, type |-> t] : t \in o.reused},
                   !.rows = [i \in DOMAIN @ |-> IF @[i].table = o.table
                                                THEN Row(o.table, @[i].at @@ (o.col :> NULL)) ELSE @[i]]]

ExecDropColumn(s, o) ==
    IF <<o.table, o.col>> \notin s.schema.columns THEN Fails(s)
    ELSE [s EXCEPT !.schema.columns = @ \ {<<o.table, o.col>>},
                   !.schema.typed = {x \in @ : x.table # o.table \/ x.col # o.col},
                   !.schema.uniques = {x \in @ : x.table # o.table \/ o.col \notin x.index.cols},
                   !.rows = [i \in DOMAIN @ |-> IF @[i].table = o.table
                                                THEN Row(o.table, Restrict(@[i].at, DOMAIN @[i].at \ {o.col}))
                                                ELSE @[i]]]

ExecSetNotNull(s, o) ==
    IF \E i \in RowsOf(s.rows, o.table) : ~Has(s.rows[i], o.col) THEN Fails(s)
    ELSE [s EXCEPT !.schema.required = @ \cup {<<o.table, o.col>>}]

ExecCreateUnique(s, o) ==
    IF \/ \E x \in s.schema.uniques : x.index.name = o.index.name
       \/ ~UniqueHolds(s.rows, o.table, o.index)
    THEN Fails(s)
    ELSE [s EXCEPT !.schema.uniques = @ \cup {[table |-> o.table, index |-> o.index]}]

ExecDropIndex(s, o) ==
    IF \A x \in s.schema.uniques : x.index.name # o.name THEN Fails(s)
    ELSE [s EXCEPT !.schema.uniques = {x \in @ : x.index.name # o.name}]

ExecCreateCheck(s, o) ==
    IF \/ \E c \in s.schema.checks : c.table = o.table /\ c.name = o.name
       \/ \E i \in RowsOf(s.rows, o.table) : ~Satisfies(s.rows[i], o.holds)
    THEN Fails(s)
    ELSE [s EXCEPT !.schema.checks = @ \cup {[table |-> o.table, name |-> o.name, holds |-> o.holds]}]

ExecDropCheck(s, o) ==
    IF \A c \in s.schema.checks : c.name # o.name THEN Fails(s)
    ELSE [s EXCEPT !.schema.checks = {c \in @ : c.name # o.name}]

(***************************************************************************)
(* DELETE ... WHERE, with what hangs on the deleted rows: a RESTRICT       *)
(* reference fails the statement, CASCADE takes the referring row along    *)
(* (nothing refers to those), SET NULL clears its column.                  *)
(***************************************************************************)
Chosen(rs, o) ==
    {i \in RowsOf(rs, o.table) :
        CASE o.which = "without a vendor"             -> ~Has(rs[i], "vendor_id")
          [] o.which = "AMAZON_SKU without a listing" ->
                rs[i].at.identifier_type = "AMAZON_SKU" /\ ~Has(rs[i], "marketplace_listing_id")
          [] o.which = "without a product"            -> ~Has(rs[i], "product_id")
          [] OTHER                                    -> TRUE}

ExecDelete(s, o) ==
    LET gone == Chosen(s.rows, o)
        Hang(rule) == {i \in DOMAIN s.rows :
                         \E fk \in s.schema.fks : /\ fk.rule = rule /\ fk.table = s.rows[i].table
                                                  /\ Has(s.rows[i], fk.col) /\ s.rows[i].at[fk.col] \in gone}
    IN  IF Hang("RESTRICT") \ gone # {} THEN Fails(s)
        ELSE [s EXCEPT !.rows = Restrict(@, DOMAIN @ \ (gone \cup Hang("CASCADE")))]

\* The guards of the three downgrades that refuse to lose something.
MustRefuse(rs, which) ==
    CASE which = "shared active barcodes" ->
            \E i, j \in RowsOf(rs, "product_identifiers") :
                /\ i # j /\ Barcode(rs[i]) /\ Barcode(rs[j])
                /\ rs[i].at.identifier_type = rs[j].at.identifier_type
                /\ rs[i].at.normalized_value = rs[j].at.normalized_value
      [] which = "several live jobs of a file" ->
            \E i, j \in RowsOf(rs, "import_jobs") : i # j /\ rs[i].at.import_file_id = rs[j].at.import_file_id
      [] which = "mail deliveries" -> RowsOf(rs, "vendor_mail_deliveries") # {}

\* Only products whose API records name one item, which no other such product names.
Records(rs) == {[item |-> rs[i].at.source_record_id, product |-> rs[i].at.local_entity_id] :
                  i \in RowsOf(rs, "source_records")}
Links(rs) == {l \in Records(rs) : \A k \in Records(rs) : k.product = l.product => k = l}
\* Mutant: items that two products claim are not left out.
ItemOfAny(rs, p) == {l.item : l \in {x \in Links(rs) : x.product = p}}

ItemOf(rs, p) == {l.item : l \in {x \in Links(rs) : x.product = p /\ \A y \in Links(rs) : y.item = x.item => y = x}}
ExecBackfill(s, o) ==
    [s EXCEPT !.rows = [i \in DOMAIN @ |->
        IF @[i].table = "products" /\ ItemOf(@, i) # {}
        THEN [@[i] EXCEPT !.at.nineyard_item_id = CHOOSE x \in ItemOf(s.rows, i) : TRUE] ELSE @[i]]]

Execute(s, o) ==
    CASE o.op = "create_table"   -> ExecCreateTable(s, o)
      [] o.op = "drop_table"     -> ExecDropTable(s, o)
      [] o.op = "create_type"    -> [s EXCEPT !.schema.types = @ \cup {o.type}]      \* checkfirst
      [] o.op = "drop_type"      -> ExecDropType(s, o)
      [] o.op = "add_column"     -> ExecAddColumn(s, o)
      [] o.op = "drop_column"    -> ExecDropColumn(s, o)
      [] o.op = "set_not_null"   -> ExecSetNotNull(s, o)
      [] o.op = "drop_not_null"  -> [s EXCEPT !.schema.required = @ \ {<<o.table, o.col>>}]
      [] o.op = "create_unique"  -> ExecCreateUnique(s, o)
      [] o.op = "drop_index"     -> ExecDropIndex(s, o)
      [] o.op = "create_check"   -> ExecCreateCheck(s, o)
      [] o.op = "drop_check"     -> ExecDropCheck(s, o)
      [] o.op = "add_fk"         -> [s EXCEPT !.schema.fks = @ \cup {[table |-> o.table, col |-> o.fk.col, to |-> o.fk.to,
                                                                     rule |-> o.fk.rule]}]
      [] o.op = "drop_fk"        -> [s EXCEPT !.schema.fks = {f \in @ : f.table # o.table \/ f.col # o.col}]
      [] o.op = "create_object"  -> [s EXCEPT !.schema.objects = @ \cup {o.name}]
      [] o.op = "drop_object"    -> [s EXCEPT !.schema.objects = @ \ {o.name}]
      [] o.op = "delete"         -> ExecDelete(s, o)
      [] o.op = "refuse_if"      -> IF MustRefuse(s.rows, o.which) THEN Refuses(s) ELSE s
      [] o.op = "backfill"       -> ExecBackfill(s, o)

-----------------------------------------------------------------------------
Init ==
    /\ revision = 0
    /\ schema = EmptySchema
    /\ rows = << >>
    /\ outcome = "ok"

\* A session after one upgrade() or downgrade(), and after those on the way to a
\* target: the first statement that fails ends it.
Session(d, rs) == [schema |-> d, rows |-> rs, memo |-> {}, outcome |-> "ok"]
After(s, statements) ==
    LET run[i \in 0..Len(statements)] ==
            IF i = 0 THEN s
            ELSE LET before == run[i - 1]
                 IN  IF before.outcome = "ok" THEN Execute(before, statements[i]) ELSE before
    IN  run[Len(statements)]
Along(s, scripts) ==
    LET run[n \in 0..Len(scripts)] ==
            IF n = 0 THEN s
            ELSE LET before == run[n - 1]
                 IN  IF before.outcome = "ok" THEN After(before, scripts[n]) ELSE before
    IN  run[Len(scripts)]
Upgraded(s, from, target) == Along(s, [k \in 1..target - from |-> Revisions[from + k].upgrade])
Downgraded(s, from, target) == Along(s, [k \in 1..from - target |-> Revisions[from + 1 - k].downgrade])

\* run_migrations_online: the whole way is one transaction.
Commit(s, target) ==
    /\ outcome' = s.outcome
    /\ IF s.outcome = "ok"
       THEN revision' = target /\ schema' = s.schema /\ rows' = s.rows
       ELSE UNCHANGED <<revision, schema, rows>>

\* alembic upgrade +1 / head, alembic downgrade -1 / base.
Upgrade ==
    \E target \in {revision + 1, Latest} :
        /\ revision < Latest
        /\ Commit(Upgraded(Session(schema, rows), revision, target), target)

Downgrade ==
    \E target \in {revision - 1, 0} :
        /\ revision > 0
        /\ Commit(Downgraded(Session(schema, rows), revision, target), target)

\* The columns a row has under the current schema.
LaterColumns == {<<o.table, o.col>> : o \in {x \in UNION {Range(Revisions[i].upgrade) : i \in 1..Latest} : x.op = "add_column"}}
Fit(row) == Row(row.table, Restrict(row.at, {c \in DOMAIN row.at : <<row.table, c>> \in LaterColumns => <<row.table, c>> \in schema.columns}))

Acceptable(row, d, rs) ==
    /\ row.table \in d.tables
    /\ \A r \in d.required : r[1] = row.table /\ r[2] \in DOMAIN row.at => row.at[r[2]] # NULL
    /\ \A c \in d.checks : c.table = row.table => Satisfies(row, c.holds)
    /\ \A c \in DOMAIN row.at : row.at[c] \in DOMAIN SampleRows => row.at[c] \in DOMAIN rs

\* The application of the day writes a row its schema accepts.
Write(i) ==
    LET row == Fit(SampleRows[i]) IN
    /\ i \notin DOMAIN rows
    /\ Acceptable(row, schema, rows)
    /\ \A u \in schema.uniques : u.table = row.table => \A j \in RowsOf(rows, row.table) : ~Clash(row, rows[j], u.index)
    /\ rows' = rows @@ (i :> row)
    /\ outcome' = "ok"
    /\ UNCHANGED <<revision, schema>>

Next ==
    \/ Upgrade
    \/ Downgrade
    \/ \E i \in RowKinds : Write(i)

Spec == Init /\ [][Next]_vars

-----------------------------------------------------------------------------
\* The schema at a revision is the one a fresh upgrade builds, whatever way led
\* there and whatever was in the tables: a downgrade forgets nothing
\* (test_migrations.py:7, "a downgrade that forgets them leaves the database in
\* a state where the next upgrade fails").
SchemaAt == [n \in 0..Latest |-> Upgraded(Session(EmptySchema, << >>), 0, n).schema]
SchemaIsTheRevisions == schema = SchemaAt[revision]

\* No command fails in the middle: what a downgrade cannot keep it deletes or
\* refuses itself (3de5c4e5def0:33, "those rows are deleted first, deliberately
\* and loudly"), and no row the application wrote blocks an upgrade.
CommandsNeverFail == outcome # "failed"

\* What does hold: only an Amazon SKU known before its listing makes a command fail.
OnlyUnlinkedSkusBlock == outcome = "failed" => "sku_known_first" \in DOMAIN rows

\* A row goes only with its table, or because the new schema cannot hold it.
OnlyUnholdableRowsGo ==
    [][\A i \in DOMAIN rows \ DOMAIN rows' :
         rows[i].table \in schema'.tables => ~Acceptable(rows[i], schema', rows')]_vars

\* No rollback takes the trail of the mail intake, nor one of two jobs of a file
\* (a61106202601:143, a61105202601:31) or a product's share of a barcode, as long
\* as their tables' own revision stays applied.
RollbacksKeepTheTrail ==
    [][\A i \in DOMAIN rows :
         \/ rows[i].table = "vendor_mail_deliveries"
         \/ revision' > 0 /\ (rows[i].table = "import_jobs" \/ i \in {"barcode_a", "barcode_b"})
         => i \in DOMAIN rows']_vars
=============================================================================
