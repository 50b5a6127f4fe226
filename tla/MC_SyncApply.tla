--------------------------- MODULE MC_SyncApply ----------------------------
(* Model-checking instance of SyncApply: two keys, so that two concurrent  *)
(* transactions can both conflict on a row and be independent.            *)
EXTENDS SyncApply

MC_Keys == {"k1", "k2"}
=============================================================================
