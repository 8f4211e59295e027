---------------------------- MODULE MCCatalogue ----------------------------
(***************************************************************************)
(* A small instance of Catalogue: one product with two names, two writers  *)
(* against one reader and one reindex, three requests at most.             *)
(***************************************************************************)
EXTENDS Catalogue
=============================================================================
