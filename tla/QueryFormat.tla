---------------------------- MODULE QueryFormat ----------------------------
(***************************************************************************)
(* The harness for the text conversions of SqlText: each step is one call  *)
(* of a conversion with an argument the callers can pass, and records the  *)
(* text it returned; the properties read that text back with the scanner.  *)
(* Column values and names are any strings of at most MaxLen characters;   *)
(* cluster names and identifiers are never empty.                          *)
(***************************************************************************)
EXTENDS SqlText

CONSTANTS
  MaxLen      \* longest argument string

Str == BoundedSeq(Char, MaxLen)

Call == {"none", "quote_literal", "quote_identifier", "namespace",
         "slonik_nspname", "slon_origin", "killBackend"}

VARIABLES call, arg, out, kill

vars == <<call, arg, out, kill>>

NonEmptyStr == Str \ {<<>>}
NodeId == -1..12

NoKill == [name |-> <<>>, superuser |-> FALSE, outcome |-> "none", signo |-> 0]

TypeOK ==
  /\ call \in Call
  /\ IF call = "slon_origin" THEN arg \in NodeId ELSE arg \in Str
  /\ out \in Seq(Char \cup {"-", "0", "2", "3", "4", "5", "6", "7", "8", "9"})
  /\ kill \in [name : SigName \cup {<<>>}, superuser : BOOLEAN,
               outcome : {"sent", "unsupported", "denied", "none"},
               signo : {0, SIGTERM}]

\* strlen: a multibyte character is two bytes of the server encoding.
ByteLen(s) == Len(s) + Len(SelectSeq(s, LAMBDA c : c = "mb"))

\* Mutant: the allocation leaves out the byte of the terminating NUL.
NamespaceAllocNoTerminator(name) == ByteLen(name) * 2 + 3

\* main: malloc(strlen(rtcfg_cluster_name) * 2 + 4) for rtcfg_namespace.
NamespaceAlloc(name) == ByteLen(name) * 2 + 4

Init == call = "none" /\ arg = <<>> /\ out = <<>> /\ kill = NoKill

\* logTrigger: col_value = slon_quote_literal(SPI_getvalue(...))
QuoteLiteral ==
  /\ call = "none"
  /\ \E s \in Str :
       call' = "quote_literal" /\ arg' = s /\ out' = slon_quote_literal(s)
  /\ UNCHANGED kill

\* logTrigger: col_ident = slon_quote_identifier(SPI_fname(...)), and _slon_quote_ident
QuoteIdentifier ==
  /\ call = "none"
  /\ \E s \in NonEmptyStr :
       call' = "quote_identifier" /\ arg' = s /\ out' = slon_quote_identifier(s)
  /\ UNCHANGED kill

\* main: rtcfg_namespace from the cluster name on the command line
BuildNamespace ==
  /\ call = "none"
  /\ \E s \in NonEmptyStr :
       call' = "namespace" /\ arg' = s /\ out' = slon_namespace(s)
  /\ UNCHANGED kill

\* slonik db_check_namespace: slon_mkquery(&query, "... '_%q';", clustername)
SlonikNspnameQuery ==
  /\ call = "none"
  /\ \E s \in NonEmptyStr :
       call' = "slonik_nspname" /\ arg' = s /\ out' = slonik_mkquery(FmtNspname, <<s>>)
  /\ UNCHANGED kill

\* slon main: slon_mkquery(&query, "... ev_origin = '%d'", rtcfg_nodeid)
SlonOriginQuery ==
  /\ call = "none"
  /\ \E n \in NodeId :
       call' = "slon_origin" /\ arg' = n /\ out' = slon_mkquery(FmtOrigin, <<n>>)
  /\ UNCHANGED kill

\* _Slony_I_killBackend(pid, signame): superuser check, then the name.
killBackend ==
  /\ call = "none"
  /\ \E name \in SigName, su \in BOOLEAN :
       kill' = [name |-> name, superuser |-> su,
                outcome |-> CASE ~su -> "denied"
                              [] killBackendAccepts(name) -> "sent"
                              [] OTHER -> "unsupported",
                signo |-> IF su /\ killBackendAccepts(name)
                          THEN killBackendSigno(name) ELSE 0]
  /\ call' = "killBackend" /\ UNCHANGED <<arg, out>>

\* The caller takes the result and makes its next call.
Consume ==
  /\ call # "none"
  /\ call' = "none" /\ arg' = <<>> /\ out' = <<>> /\ kill' = NoKill

Next ==
  \/ QuoteLiteral \/ QuoteIdentifier \/ BuildNamespace
  \/ SlonikNspnameQuery \/ SlonOriginQuery \/ killBackend \/ Consume

Spec == Init /\ [][Next]_vars

-----------------------------------------------------------------------------
(* Properties.                                                            *)

\* Spec section 8, item 4: the literal slon_quote_literal writes into the
\* log row's cmddata reads back, through the SQL scanner, as the value.
QuoteLiteralRoundTrip ==
  call = "quote_literal" => ReadLiteral(out) = arg

\* Spec section 8, item 5, and the reason for it: slon_quote_identifier
\* returns a column name unchanged exactly when it is a lower-case
\* [a-z_][a-z0-9_]* word and no keyword, and what it returns names that
\* column when the apply reads it back.
QuoteIdentifierNamesColumn ==
  call = "quote_identifier" =>
    /\ ReadIdentifier(out) = arg
    /\ (out = arg) <=> (/\ arg[1] \in Lower \cup {"_"}
                        /\ \A i \in 1..Len(arg) : arg[i] \in Lower \cup Digit \cup {"_"}
                        /\ arg \notin Keywords)

\* The namespace slon builds from its cluster-name argument names the schema
\* "_<cluster name>", whatever characters the name holds.
NamespaceNamesClusterSchema ==
  call = "namespace" => ReadIdentifier(out) = <<"_">> \o arg

\* The queries built with slon_mkquery quote their arguments so that the
\* literal reads back as what was passed: slonik's '_%q' of the cluster name
\* and slon's '%d' of the node id.
MkqueryLiteralsReadBack ==
  /\ call = "slonik_nspname" => ReadLiteral(out) = <<"_">> \o arg
  /\ call = "slon_origin" => ReadInt(ReadLiteral(out)) = arg

\* The bytes main copies into rtcfg_namespace (the two opening bytes, the
\* cluster name with each double quote doubled, the closing quote and the
\* terminating NUL) fit in the strlen * 2 + 4 bytes it mallocs, even for a
\* name made of double quotes only, where they fill it exactly.
NamespaceFitsAllocation ==
  call = "namespace" => ByteLen(out) + 1 <= NamespaceAlloc(arg)
=============================================================================
