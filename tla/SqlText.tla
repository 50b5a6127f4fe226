------------------------------ MODULE SqlText ------------------------------
(***************************************************************************)
(* The text conversions of Slony-I that build SQL, as pure operators, and  *)
(* the SQL scanner that reads their text back:                             *)
(*                                                                         *)
(*  - slon_quote_literal and slon_quote_identifier (slony1_funcs.c), used  *)
(*    by logTrigger to write the cmddata of sl_log_1;                      *)
(*  - the quoted namespace "_<cluster>" that slon builds in main (slon.c); *)
(*  - slon_mkquery / slon_appendquery_int, of which slon (dbutils.c) and   *)
(*    slonik (dbutil.c) each keep a copy;                                   *)
(*  - _Slony_I_killBackend's signal-name comparison.                       *)
(*                                                                         *)
(* A string is a sequence of characters.  "mb" is one multibyte character *)
(* of the server encoding (pg_mblen > 1, every byte >= 0x80).  The SQL     *)
(* scanner is the reference: string literals with '' and backslash escapes *)
(* (standard_conforming_strings off, as in the PostgreSQL releases this    *)
(* code is built for), identifiers delimited by " with "" inside, or       *)
(* unquoted and folded to lower case.  QueryFormat and LogPayload use it.  *)
(***************************************************************************)
EXTENDS Integers, Sequences, SequencesExt

CONSTANTS
  Keywords    \* the lower-case words ScanKeywordLookup knows

Lower == {"a", "s"}
Upper == {"A"}
Digit == {"1"}
Char  == Lower \cup Upper \cup Digit \cup {"_", "'", "\\", "\"", "mb"}

\* What the scanner returns for text it does not accept as one token.
Bad == <<"<error>">>

DropN(s, n) == SubSeq(s, n + 1, Len(s))

\* Every occurrence of character c written twice.
Doubled(c, s) ==
  FlattenSeq([i \in 1..Len(s) |-> IF s[i] = c THEN <<c, c>> ELSE <<s[i]>>])

-----------------------------------------------------------------------------
(* slon_quote_literal: a multibyte character is copied whole; a single     *)
(* byte ' or \ is written twice.  The NULL argument is not enumerated: the *)
(* callers test for NULL values first.                                     *)

\* Mutant: only the quote doubled, as standard SQL would.
QuoteOnlyChar(c) == IF c = "'" THEN <<c, c>> ELSE <<c>>

LiteralChar(c) == IF c \in {"'", "\\"} THEN <<c, c>> ELSE <<c>>

slon_quote_literal(s) ==
  <<"'">> \o FlattenSeq([i \in 1..Len(s) |-> LiteralChar(s[i])]) \o <<"'">>

(* slon_quote_identifier: unchanged when it starts with a lower-case       *)
(* letter or '_', has only lower-case letters, digits and '_', and is no   *)
(* keyword; otherwise in double quotes with " doubled.                     *)

\* Mutant: the keyword lookup left out.
NoKeyword(s) == FALSE

IsKeyword(s) == s \in Keywords

SafeIdent(s) ==
  /\ s # <<>>
  /\ s[1] \in Lower \cup {"_"}
  /\ \A i \in 1..Len(s) : s[i] \in Lower \cup Digit \cup {"_"}
  /\ ~IsKeyword(s)

slon_quote_identifier(s) ==
  IF SafeIdent(s) THEN s ELSE <<"\"">> \o Doubled("\"", s) \o <<"\"">>

(* main, slon.c: rtcfg_namespace = " _ <cluster name, " doubled> ".        *)

\* Mutant: the cluster name copied without doubling ".
NamespaceUnescaped(name) == <<"\"", "_">> \o name \o <<"\"">>

slon_namespace(name) == <<"\"", "_">> \o Doubled("\"", name) \o <<"\"">>

-----------------------------------------------------------------------------
(* slon_appendquery_int.  %s appends the argument, %q appends it with ' and *)
(* \ doubled byte by byte, %d appends sprintf("%d"), '%' before any other  *)
(* character appends both, and '\' appends the next format character.     *)
(* Formats are string literals of the callers; none ends in '%' or '\'.    *)

RECURSIVE DecimalDigits(_)
DecimalDigits(n) ==
  IF n < 10 THEN <<ToString(n)>> ELSE DecimalDigits(n \div 10) \o <<ToString(n % 10)>>

\* Mutant: a digit loop without the sign branch.
IntTextNoSign(n) == DecimalDigits(n)

\* sprintf(buf, "%d", n)
IntText(n) == IF n < 0 THEN <<"-">> \o DecimalDigits(-n) ELSE DecimalDigits(n)

\* Mutant: the %q loop doubles the quote only.
QEscapeQuoteOnly(s) == FlattenSeq([i \in 1..Len(s) |-> QuoteOnlyChar(s[i])])

\* The %q loop; a multibyte character's bytes are all >= 0x80 and copied.
QEscape(s) == FlattenSeq([i \in 1..Len(s) |-> LiteralChar(s[i])])

RECURSIVE slon_appendquery_int(_, _)
slon_appendquery_int(fmt, args) ==
  IF fmt = <<>> THEN <<>>
  ELSE IF fmt[1] = "%"
    THEN CASE fmt[2] = "s" -> args[1] \o slon_appendquery_int(DropN(fmt, 2), Tail(args))
           [] fmt[2] = "q" -> QEscape(args[1]) \o slon_appendquery_int(DropN(fmt, 2), Tail(args))
           [] fmt[2] = "d" -> IntText(args[1]) \o slon_appendquery_int(DropN(fmt, 2), Tail(args))
           [] OTHER        -> <<"%", fmt[2]>> \o slon_appendquery_int(DropN(fmt, 2), args)
  ELSE IF fmt[1] = "\\"
    THEN <<fmt[2]>> \o slon_appendquery_int(DropN(fmt, 2), args)
  ELSE <<fmt[1]>> \o slon_appendquery_int(Tail(fmt), args)

\* slon_mkquery: dstring_reset, then the formatted text.
slon_mkquery(fmt, args) == slon_appendquery_int(fmt, args)

(* The format literals of the callers that quote an argument, abstracted  *)
(* to their quoting: slonik db_check_namespace "... nspname = '_%q';" and *)
(* slon's startup queries "... ev_origin = '%d'".                          *)
FmtNspname == <<"'", "_", "%", "q", "'">>
FmtOrigin  == <<"'", "%", "d", "'">>

\* slonik's copy of the routine (dbutil.c).  It differs only in its %q,
\* which dereferences the argument without slon's NULL test; no NULL
\* argument is enumerated, so the text is that of slon's copy.
slonik_appendquery_int(fmt, args) == slon_appendquery_int(fmt, args)

slonik_mkquery(fmt, args) == slonik_appendquery_int(fmt, args)

-----------------------------------------------------------------------------
(* _Slony_I_killBackend.  The name is accepted when its length is 4 and    *)
(* memcmp(VARDATA(signame), "NULL", 0) == 0, which compares no bytes.      *)

SIGTERM == 15
SigName == {<<"N","U","L","L">>, <<"T","E","R","M">>, <<"K","I","L","L">>,
            <<"H","U","P">>}

MemEq(a, b, n) == SubSeq(a, 1, n) = SubSeq(b, 1, n)

\* The two elog(ERROR)-free branches: the name is taken for a known signal.
killBackendAccepts(name) ==
  /\ Len(name) = 4
  /\ MemEq(name, <<"N","U","L","L">>, 0) \/ MemEq(name, <<"T","E","R","M">>, 0)

killBackendSigno(name) == IF MemEq(name, <<"N","U","L","L">>, 0) THEN 0 ELSE SIGTERM

-----------------------------------------------------------------------------
(* The reference: how the SQL scanner reads the text back.                *)

\* The body of a string literal after its opening quote: '' is a quote, a
\* backslash escapes the next character, a lone ' ends it.
RECURSIVE ScanLiteral(_, _)
ScanLiteral(q, acc) ==
  CASE q = <<>> -> [ok |-> FALSE, val |-> acc, rest |-> q]
    [] q[1] = "'" /\ Len(q) >= 2 /\ q[2] = "'" -> ScanLiteral(DropN(q, 2), Append(acc, "'"))
    [] q[1] = "'" -> [ok |-> TRUE, val |-> acc, rest |-> Tail(q)]
    [] q[1] = "\\" /\ Len(q) >= 2 -> ScanLiteral(DropN(q, 2), Append(acc, q[2]))
    [] q[1] = "\\" -> [ok |-> FALSE, val |-> acc, rest |-> q]
    [] OTHER -> ScanLiteral(Tail(q), Append(acc, q[1]))

\* The value of text that is exactly one string literal.
ReadLiteral(q) ==
  IF q # <<>> /\ q[1] = "'"
  THEN LET r == ScanLiteral(Tail(q), <<>>)
       IN IF r.ok /\ r.rest = <<>> THEN r.val ELSE Bad
  ELSE Bad

RECURSIVE ScanDelimited(_, _)
ScanDelimited(q, acc) ==
  CASE q = <<>> -> [ok |-> FALSE, val |-> acc, rest |-> q]
    [] q[1] = "\"" /\ Len(q) >= 2 /\ q[2] = "\"" -> ScanDelimited(DropN(q, 2), Append(acc, "\""))
    [] q[1] = "\"" -> [ok |-> TRUE, val |-> acc, rest |-> Tail(q)]
    [] OTHER -> ScanDelimited(Tail(q), Append(acc, q[1]))

Fold(c) == IF c = "A" THEN "a" ELSE c

\* The name that text which is exactly one identifier stands for: a
\* delimited identifier must not be empty; an unquoted one starts with a
\* letter, '_' or a high-bit byte, continues with those or digits, is folded
\* to lower case and must not be a keyword.
ReadIdentifier(q) ==
  IF q # <<>> /\ q[1] = "\""
  THEN LET r == ScanDelimited(Tail(q), <<>>)
       IN IF r.ok /\ r.rest = <<>> /\ r.val # <<>> THEN r.val ELSE Bad
  ELSE LET f == [i \in 1..Len(q) |-> Fold(q[i])]
       IN IF /\ q # <<>>
             /\ q[1] \in Lower \cup Upper \cup {"_", "mb"}
             /\ \A i \in 1..Len(q) : q[i] \in Lower \cup Upper \cup Digit \cup {"_", "mb"}
             /\ f \notin Keywords
          THEN f ELSE Bad

\* sprintf's digits read back as a number.
RECURSIVE ReadDecimal(_)
ReadDecimal(d) ==
  IF d = <<>> THEN 0
  ELSE 10 * ReadDecimal(Front(d)) + CHOOSE k \in 0..9 : ToString(k) = Last(d)

ReadInt(d) == IF d # <<>> /\ d[1] = "-" THEN -ReadDecimal(Tail(d)) ELSE ReadDecimal(d)


=============================================================================
