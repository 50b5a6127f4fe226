--------------------------- MODULE MC_SlonStartup ---------------------------
(* Model-checking instance of SlonStartup: two administrative sessions     *)
(* changing sl_node and sl_subscribe (the first and the last table slon    *)
(* reads), SYNCs, and a database that may be uninitialized or hold an      *)
(* older schema or module.                                                  *)
EXTENDS SlonStartup

MC_Admin == {"a1", "a2"}
MC_ChangedTables == {"sl_node", "sl_subscribe"}
MC_NodeIds == {-1, 1}
MC_Versions == {"1.1.0", "1.0.5"}
=============================================================================
