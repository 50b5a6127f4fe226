----------------------------- MODULE LogPayload -----------------------------
(***************************************************************************)
(* The cmddata text _Slony_I_logTrigger (slony1_funcs.c) writes into the   *)
(* log row for an INSERT, UPDATE or DELETE on one replicated table, the    *)
(* per-backend buffer it assembles that text in, and the subscriber's      *)
(* apply of the text.                                                      *)
(*                                                                         *)
(* The table has a physical column list with dropped columns (Attrs) and   *)
(* the trigger argument attkind, one "k" or "v" per column not dropped.    *)
(* Each step is one row change on the origin followed by the whole trigger *)
(* for it: the column walk, the quoting of SqlText, the buffer checks and  *)
(* growth, and the log insert.  The session role and transaction handling  *)
(* of the trigger are in SlonyFuncs; the grouping of log rows into SYNCs   *)
(* is in SyncApply.                                                        *)
(*                                                                         *)
(* cmddata is kept as its quoted pieces, in the order the code writes      *)
(* them; the separators (",", "=", " and ", " where ", ") values (") are   *)
(* counted in the buffer accounting.  The subscriber's apply (the remote   *)
(* worker, not in the sources) executes "insert into t <cmddata>",         *)
(* "update t set <cmddata>" and "delete from t where <cmddata>": it reads  *)
(* each piece back with the SQL scanner of SqlText.                        *)
(***************************************************************************)
EXTENDS SqlText, FiniteSets

CONSTANTS
  Attrs,            \* tupdesc->attrs: <<[name, dropped]>> in column order
  Attkind,          \* tgargs[2]: "k" or "v" per column not dropped
  KeyVals,          \* values a key column takes (never NULL)
  DataVals,         \* non-NULL values a data column takes
  Default,          \* column name -> DEFAULT of the table, or NULL
  MaxOps,           \* row changes on the origin
  CmddataInitSize   \* cs->cmddata_size when getClusterStatus creates it

\* A SQL NULL: SPI_getvalue returns NULL, so no text at all.
NULL == <<"<null>">>

VARHDRSZ == 4
NullWord == <<"N", "U", "L", "L">>

\* The positions of the columns that are not dropped, in order; the k-th
\* of them is attkind[attkind_idx] with attkind_idx = k - 1.
LivePos   == SelectSeq([i \in 1..Len(Attrs) |-> i], LAMBDA i : ~Attrs[i].dropped)
Name(i)   == Attrs[i].name
LiveNames == {Name(LivePos[k]) : k \in 1..Len(LivePos)}
KeyIdx    == SelectSeq([k \in 1..Len(LivePos) |-> k], LAMBDA k : Attkind[k] = "k")
\* The table's primary key as attkind declares it (setAddTable).
TableKeyPos == [j \in DOMAIN KeyIdx |-> LivePos[KeyIdx[j]]]
KeyNames  == {Name(TableKeyPos[j]) : j \in DOMAIN TableKeyPos}

\* attkind[attkind_idx]; past the last live column the C string's NUL.
AttkindAt(k) == IF k \in DOMAIN Attkind THEN Attkind[k] ELSE "NUL"

\* Mutant: attkind_idx also counts the dropped columns.
RECURSIVE AttkindWalkCountsDropped(_, _)
AttkindWalkCountsDropped(i, idx) ==
  IF i > Len(Attrs) THEN <<>>
  ELSE IF Attrs[i].dropped THEN AttkindWalkCountsDropped(i + 1, idx + 1)
  ELSE (IF AttkindAt(idx + 1) = "k" THEN <<i>> ELSE <<>>) \o AttkindWalkCountsDropped(i + 1, idx + 1)

\* The key loops of logTrigger: for i over the physical columns, skip the
\* dropped ones, attkind_idx++, and take column i when attkind says 'k'.
RECURSIVE AttkindWalk(_, _)
AttkindWalk(i, idx) ==
  IF i > Len(Attrs) THEN <<>>
  ELSE IF Attrs[i].dropped THEN AttkindWalk(i + 1, idx)
  ELSE (IF AttkindAt(idx + 1) = "k" THEN <<i>> ELSE <<>>) \o AttkindWalk(i + 1, idx + 1)

KeyPos == AttkindWalk(1, 0)

\* A row: a value for every column not dropped; key columns are not null.
Rows == {r \in [LiveNames -> KeyVals \cup DataVals \cup {NULL}] :
           \A x \in LiveNames : (x \in KeyNames) = (r[x] \in KeyVals)}
KeyOf(r) == [x \in KeyNames |-> r[x]]

Ident(i) == slon_quote_identifier(Name(i))

NoCmd == [type |-> "none", cols |-> <<>>, vals |-> <<>>, set |-> <<>>, where |-> <<>>]

-----------------------------------------------------------------------------
(* The cmddata of each event, as logTrigger builds it.                      *)

\* INSERT: the columns whose SPI_getvalue is not NULL, then their literals.
InsertCmd(new) ==
  LET cols == SelectSeq(LivePos, LAMBDA i : new[Name(i)] # NULL)
  IN [NoCmd EXCEPT !.type = "I",
        !.cols = [j \in 1..Len(cols) |-> Ident(cols[j])],
        !.vals = [j \in 1..Len(cols) |-> slon_quote_literal(new[Name(cols[j])])]]

\* The type's equality operator (texteq, or strcmp of the text form).
TypeEq(a, b) == a = b

\* Mutant: a column set from NULL to a value is taken as unchanged.
ChangedBothSet(old, new, x) ==
  old[x] # NULL /\ new[x] # NULL /\ ~TypeEq(old[x], new[x])

\* A column goes into the SET list unless both values are NULL or both are
\* not NULL and equal.
Changed(old, new, x) ==
  /\ ~(old[x] = NULL /\ new[x] = NULL)
  /\ ~(old[x] # NULL /\ new[x] # NULL /\ TypeEq(old[x], new[x]))

\* The key columns with their old values, for WHERE.
KeyWhere(old) == [j \in DOMAIN KeyPos |->
                    <<Ident(KeyPos[j]), slon_quote_literal(old[Name(KeyPos[j])])>>]

\* UPDATE: the changed columns with their new value or NULL; when none
\* changed, the first key column set to its old value.
UpdateCmd(old, new) ==
  LET sp == SelectSeq(LivePos, LAMBDA i : Changed(old, new, Name(i)))
      set == [j \in 1..Len(sp) |->
                <<Ident(sp[j]), IF new[Name(sp[j])] = NULL THEN NullWord
                                ELSE slon_quote_literal(new[Name(sp[j])])>>]
      noop == << <<Ident(KeyPos[1]), slon_quote_literal(old[Name(KeyPos[1])])>> >>
  IN [NoCmd EXCEPT !.type = "U", !.set = IF sp # <<>> THEN set ELSE noop,
                   !.where = KeyWhere(old)]

DeleteCmd(old) == [NoCmd EXCEPT !.type = "D", !.where = KeyWhere(old)]

-----------------------------------------------------------------------------
(* The buffer.  cp starts VARHDRSZ bytes into cmddata_buf.  Before a piece *)
(* is copied the code checks cmddata_need = used + 16 + the piece's length *)
(* and doubles cmddata_size until it is enough; the separators and the     *)
(* closing bytes are written without a check.  A write is a step           *)
(* [check, need, len]: when check, the buffer grows to used+Slack+need.    *)

\* Mutant: a slack one byte short of the " where " written unchecked.
SlackTooSmall == 7

Slack == 16

RECURSIVE Grow(_, _)
Grow(size, need) == IF size >= need THEN size ELSE Grow(2 * size, need)

W(n)    == [check |-> FALSE, need |-> 0, len |-> n]
C(k, n) == [check |-> TRUE, need |-> k, len |-> n]
Sep(j, n) == IF j > 1 THEN n ELSE 0

KeySteps(where) ==
  [j \in DOMAIN where |-> LET li == Len(where[j][1]) lv == Len(where[j][2])
                          IN C(li + lv, Sep(j, 5) + li + 1 + lv)]

\* The writes of each branch of logTrigger, in the order of the code.
Steps(c) ==
  CASE c.type = "I" ->
         <<W(1)>> \o [j \in DOMAIN c.cols |-> C(Len(c.cols[j]), Sep(j, 1) + Len(c.cols[j]))]
         \o <<W(10)>> \o [j \in DOMAIN c.vals |-> C(Len(c.vals[j]), Sep(j, 1) + Len(c.vals[j]))]
         \o <<W(2)>>
    [] c.type = "U" ->
         FlattenSeq([j \in DOMAIN c.set |->
            LET li == Len(c.set[j][1]) lv == Len(c.set[j][2])
            IN <<W(Sep(j, 1)), C(li + lv, li + 1 + lv)>>])
         \o <<W(7)>> \o KeySteps(c.where) \o <<W(1)>>
    [] c.type = "D" -> KeySteps(c.where) \o <<W(1)>>

\* One write: grow when checked, then copy len bytes at cp.
Write(acc, s) ==
  LET size == IF s.check THEN Grow(acc.size, acc.used + Slack + s.need) ELSE acc.size
  IN [used |-> acc.used + s.len, size |-> size, ok |-> acc.ok /\ acc.used + s.len <= size]

Assemble(c, size) == FoldLeft(Write, [used |-> VARHDRSZ, size |-> size, ok |-> TRUE], Steps(c))

-----------------------------------------------------------------------------
VARIABLES
  origin,       \* the rows of the table on the origin
  log,          \* the cmddata of the log rows, in log_actionseq order
  cmddataSize,  \* cs->cmddata_size of the backend
  overrun       \* some write went past the end of cmddata_buf

vars == <<origin, log, cmddataSize, overrun>>

Init == origin = {} /\ log = <<>> /\ cmddataSize = CmddataInitSize /\ overrun = FALSE

\* The trigger's tail for command c: assemble it, SPI_execp the log insert.
Logged(c) ==
  LET a == Assemble(c, cmddataSize)
  IN /\ log' = Append(log, c)
     /\ cmddataSize' = a.size
     /\ overrun' = (overrun \/ ~a.ok)

KeyFree(r, tbl) == \A o \in tbl : KeyOf(o) # KeyOf(r)

\* INSERT of a row whose key is not taken (the primary key), then the trigger.
LogInsert ==
  /\ Len(log) < MaxOps
  /\ \E new \in Rows :
       /\ KeyFree(new, origin)
       /\ origin' = origin \cup {new}
       /\ Logged(InsertCmd(new))

\* UPDATE of a row to any row whose key is not another row's, then the trigger.
LogUpdate ==
  /\ Len(log) < MaxOps
  /\ \E old \in origin, new \in Rows :
       /\ KeyFree(new, origin \ {old})
       /\ origin' = (origin \ {old}) \cup {new}
       /\ Logged(UpdateCmd(old, new))

LogDelete ==
  /\ Len(log) < MaxOps
  /\ \E old \in origin :
       /\ origin' = origin \ {old}
       /\ Logged(DeleteCmd(old))

Next == LogInsert \/ LogUpdate \/ LogDelete

Spec == Init /\ [][Next]_vars

-----------------------------------------------------------------------------
(* The subscriber's apply.  A piece names the column ReadIdentifier gives  *)
(* and the value ReadLiteral gives; NULL in a SET list is the keyword.     *)
(* An INSERT fills the columns it does not list with their DEFAULT.        *)

ColOf(t) == ReadIdentifier(t)
ValOf(t) == IF t = NullWord THEN NULL ELSE ReadLiteral(t)

Matches(r, where) ==
  \A j \in DOMAIN where : ColOf(where[j][1]) \in LiveNames /\ r[ColOf(where[j][1])] = ValOf(where[j][2])

\* The value the list assigns to column x, or d when it names no such column.
Assigned(names, vals, x, d) ==
  IF \E j \in DOMAIN names : ColOf(names[j]) = x
  THEN ValOf(vals[CHOOSE j \in DOMAIN names : ColOf(names[j]) = x]) ELSE d

ApplyCmd(tbl, c) ==
  CASE c.type = "I" -> tbl \cup {[x \in LiveNames |-> Assigned(c.cols, c.vals, x, Default[x])]}
    [] c.type = "U" ->
         LET names == [j \in DOMAIN c.set |-> c.set[j][1]]
             vals  == [j \in DOMAIN c.set |-> c.set[j][2]]
         IN {IF Matches(r, c.where) THEN [x \in LiveNames |-> Assigned(names, vals, x, r[x])] ELSE r
             : r \in tbl}
    [] c.type = "D" -> {r \in tbl : ~Matches(r, c.where)}

Replay(l) == FoldLeft(ApplyCmd, {}, l)

-----------------------------------------------------------------------------
(* Properties.                                                            *)

\* Spec section 8, item 3: applying the log rows logTrigger wrote, in order,
\* to the subscriber's copy of the table gives exactly the origin's rows:
\* the column walk over dropped columns and attkind, the SET list of changed
\* columns, the first-key SET of a no-op UPDATE and the WHERE of the old key
\* together say what the origin did.
ReplayReproducesOrigin == Replay(log) = origin

\* Every byte logTrigger writes into cmddata_buf, the separators written
\* before or without a size check included, lies inside the cmddata_size
\* bytes allocated, across the buffer growths of successive calls.
NoBufferOverrun == ~overrun

=============================================================================
