----------------------------- MODULE MCCatalog -----------------------------
EXTENDS Catalog

=============================================================================
