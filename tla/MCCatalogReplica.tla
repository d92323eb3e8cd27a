-------------------------- MODULE MCCatalogReplica --------------------------
(* A small instance of CatalogReplica; its constants are interchangeable.  *)
EXTENDS CatalogReplica, TLC

Interchangeable == Permutations(Apps) \cup Permutations(Ids) \cup Permutations(Checkouts)
=============================================================================
