---------------------------- MODULE MC_LogPayload ----------------------------
EXTENDS LogPayload

\* The table (a, s, "A", "as") with s dropped: a plain data column, a
\* dropped column, a data column that must be quoted for its upper case,
\* and the key column, after the dropped one, quoted as a keyword.
MC_Attrs == << [name |-> <<"a">>, dropped |-> FALSE], [name |-> <<"s">>, dropped |-> TRUE],
               [name |-> <<"A">>, dropped |-> FALSE], [name |-> <<"a", "s">>, dropped |-> FALSE] >>
MC_Attkind == <<"v", "v", "k">>
MC_Keywords == {<<"a", "s">>}
MC_KeyVals == {<<"1">>, <<"'">>}
MC_DataVals == {<<"1">>, <<"\\">>}

\* No column has a DEFAULT.
MC_NoDefault == [x \in {<<"a">>, <<"A">>, <<"a", "s">>} |-> NULL]

\* The data column "A" has DEFAULT '1'.
MC_DefaultA == [MC_NoDefault EXCEPT ![<<"A">>] = <<"1">>]
=============================================================================
