--------------------------- MODULE MC_SlonyFuncs ---------------------------
(* Model-checking instance of SlonyFuncs: two sessions, one of them a      *)
(* superuser, a SYNC and one administrative event type.                    *)
EXTENDS SlonyFuncs

MC_Backend == {"b1", "b2"}
MC_SuperUser == {"b1"}
MC_EvType == {"SYNC", "STORE_NODE"}
=============================================================================
