-------------------------- MODULE MCCatalogImport --------------------------
(* Instances of CatalogImport for TLC. *)
EXTENDS CatalogImport

CONSTANTS s1, s2, e1, e2, B1, B2, v1, v2, v3

Brands == [v \in Variant |-> IF v = v3 THEN B2 ELSE B1]
Providers == [s \in Sync |-> IF s = s1 THEN B1 ELSE B2]
Ids == Variant \X (1..5)
Directories == <<B1, B2>>
=============================================================================
