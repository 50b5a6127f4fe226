--------------------------- MODULE MC_QueryFormat ---------------------------
EXTENDS QueryFormat

\* One keyword of the lower-case alphabet: "as".
MC_Keywords == {<<"a", "s">>}
=============================================================================
