--------------------------- MODULE MCCatalogCache ---------------------------
(* An instance of CatalogCache for TLC. *)
EXTENDS CatalogCache

CONSTANTS t1, t2
=============================================================================
