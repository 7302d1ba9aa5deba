------------------------- MODULE MCSchemaMigrations -------------------------
EXTENDS SchemaMigrations
=============================================================================
