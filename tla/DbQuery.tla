------------------------------ MODULE DbQuery -------------------------------
(***************************************************************************)
(* The statements the two backends of the enforcer's database make of an   *)
(* operation on a table (db_backend_sqlite.c, db_backend_mysql.c): a text  *)
(* with a question mark for every value, and the values bound to the marks *)
(* one after the other.  The same operations are carried out by both       *)
(* backends and by a table that is just a table.                           *)
(*                                                                         *)
(* The table has a column of each kind that is treated in its own way: the *)
(* primary key id, perhaps a revision rev, and an unsigned number n of     *)
(* QWidth bits instead of 32.  A list of clauses is a sequence; no list    *)
(* (NULL) is the empty one.  Nested clauses, and joins, cannot be made     *)
(* with the functions of db_clause.c and db_join.c.                        *)
(***************************************************************************)
EXTENDS Integers, Sequences, SequencesExt, FiniteSets, Functions

CONSTANTS
  QWidth,    \* bits of an unsigned int
  QValues,   \* numbers that are stored and asked for
  QLists,    \* the lists of clauses
  QSteps     \* bound: operations

QBackends == {"sqlite", "mysql"}

VARIABLES
  qrev,      \* the object has a revision field
  qstore,    \* for each backend the rows of its table, by id
  qplain,    \* the rows of the plain table
  qresult,   \* for each backend the outcome of the last operation
  qanswer,   \* the outcome on the plain table
  qids,      \* the last id given out
  qordered,  \* large numbers were compared by order
  qsteps

queryvars == <<qrev, qstore, qplain, qresult, qanswer, qids, qordered, qsteps>>

DB_ERROR_UNKNOWN == [ok |-> FALSE, rows |-> {}, count |-> 0]
Success(rows, count) == [ok |-> TRUE, rows |-> rows, count |-> count]

QClause(field, type, op, value) ==
  [field |-> field, type |-> type, op |-> op, value |-> value]

(***************************************************************************)
(* The text of a statement                                                 *)
(***************************************************************************)
\* A WHERE: tests of a field against the next mark, and words between them.
Word(op) == [word |-> op, field |-> ""]
Test(clause) == [word |-> clause.type, field |-> clause.field]

build_clause(list) ==
  FlattenSeq([i \in 1..Len(list) |->
    IF i = 1 THEN <<Test(list[i])>> ELSE <<Word(list[i].op), Test(list[i])>>])

sqlite_build_clause(list) == build_clause(list)
mysql_build_clause(list) == build_clause(list)

Statement(verb, columns, where) ==
  [verb |-> verb, columns |-> columns, where |-> where]

WithRevision(columns) == IF qrev THEN Append(columns, "rev") ELSE columns

(***************************************************************************)
(* Values                                                                  *)
(***************************************************************************)
QSigned(v) == IF v >= 2^(QWidth - 1) THEN v - 2^QWidth ELSE v

\* SQLite is given the value as an int, MySQL as what it is.
sqlite_bind_value(v) == QSigned(v)

sqlite_bind_clause(list) == [i \in 1..Len(list) |-> sqlite_bind_value(list[i].value)]

\* The bindings of a MySQL statement are a list with one member for every
\* mark; taking more than there are is an error.
mysql_bind_clause(list) == [i \in 1..Len(list) |-> list[i].value]

\* A column as it is read back.
column_value(backend, v) == IF backend = "sqlite" /\ v < 0 THEN v + 2^QWidth ELSE v

(***************************************************************************)
(* The database: what a statement does with what is bound to it            *)
(***************************************************************************)
QMarks(where) == SelectSeq(where, LAMBDA t : t.field # "")

Compare(type, a, b) ==
  CASE type = "EQUAL" -> a = b
    [] type = "NOT_EQUAL" -> a # b
    [] type = "LESS_THEN" -> a < b
    [] type = "LESS_OR_EQUAL" -> a <= b
    [] type = "GREATER_OR_EQUAL" -> a >= b
    [] type = "GREATER_THEN" -> a > b

\* AND binds more tightly than OR: one of the groups between two ORs holds.
InWhere(where, bound, row) ==
  LET tests == QMarks(where)
      Before(i) == where[2 * i - 2].word
      Group(i) == Cardinality({j \in 2..i : Before(j) = "OR"})
  IN tests = <<>> \/
     \E g \in {Group(i) : i \in 1..Len(tests)} :
       \A i \in 1..Len(tests) : Group(i) = g =>
         Compare(tests[i].word, row[tests[i].field], bound[i])

Chosen(rows, where, bound) == {id \in DOMAIN rows : InWhere(where, bound, rows[id])}

ColumnOf(columns, name) == CHOOSE i \in 1..Len(columns) : columns[i] = name
Assign(row, columns, bound) ==
  [name \in DOMAIN row |->
     IF name \in ToSet(columns) THEN bound[ColumnOf(columns, name)] ELSE row[name]]

EmptyRow(id) == IF qrev THEN [id |-> id, rev |-> 0, n |-> 0] ELSE [id |-> id, n |-> 0]

Execute(rows, statement, bound) ==
  LET columns == Len(statement.columns)
      rest == SubSeq(bound, columns + 1, Len(bound))
      chosen == Chosen(rows, statement.where, rest)
  IN CASE statement.verb = "INSERT" ->
            [rows |-> [id \in DOMAIN rows \cup {qids + 1} |->
                         IF id \in DOMAIN rows THEN rows[id]
                         ELSE Assign(EmptyRow(id), statement.columns, bound)],
             changed |-> 1, found |-> {}]
       [] statement.verb = "UPDATE" ->
            [rows |-> [id \in DOMAIN rows |->
                         IF id \in chosen THEN Assign(rows[id], statement.columns, bound)
                         ELSE rows[id]],
             changed |-> Cardinality(chosen), found |-> {}]
       [] statement.verb = "DELETE" ->
            [rows |-> Restrict(rows, DOMAIN rows \ chosen),
             changed |-> Cardinality(chosen), found |-> {}]
       [] OTHER -> [rows |-> rows, changed |-> 0, found |-> chosen]

(***************************************************************************)
(* The operations of the backends: what they ask of the database (the      *)
(* statement and what is bound), or nothing after an error, and what they  *)
(* make of its answer.                                                     *)
(***************************************************************************)
Ask(statement, bound) == [fails |-> FALSE, statement |-> statement, bound |-> bound]
Fails == [fails |-> TRUE, statement |-> Statement("", <<>>, <<>>), bound |-> <<>>]

\* The revision of the row is expected among the clauses.
RevisionClauses(list) == SelectSeq(list, LAMBDA c : c.field = "rev")
Unrevised(list) == qrev /\ RevisionClauses(list) = <<>>

sqlite_create(v) ==
  Ask(Statement("INSERT", WithRevision(<<"n">>), <<>>),
      <<sqlite_bind_value(v)>> \o (IF qrev THEN <<1>> ELSE <<>>))

\* db_value_reset comes before the INSERT is executed: the revision is 0.
mysql_create(v) ==
  Ask(Statement("INSERT", WithRevision(<<"n">>), <<>>),
      <<v>> \o (IF qrev THEN <<0>> ELSE <<>>))

NewRevision(list) == IF qrev THEN <<RevisionClauses(list)[1].value + 1>> ELSE <<>>

\* Mutant: the revision is bound after the clauses.
sqlite_update_late(v, list) ==
  IF Unrevised(list) THEN Fails
  ELSE Ask(Statement("UPDATE", WithRevision(<<"n">>), sqlite_build_clause(list)),
           <<sqlite_bind_value(v)>> \o sqlite_bind_clause(list) \o NewRevision(list))

sqlite_update(v, list) ==
  IF Unrevised(list) THEN Fails
  ELSE Ask(Statement("UPDATE", WithRevision(<<"n">>), sqlite_build_clause(list)),
           <<sqlite_bind_value(v)>> \o NewRevision(list) \o sqlite_bind_clause(list))

mysql_update(v, list) ==
  IF Unrevised(list) THEN Fails
  ELSE Ask(Statement("UPDATE", WithRevision(<<"n">>), mysql_build_clause(list)),
           <<v>> \o NewRevision(list) \o mysql_bind_clause(list))

sqlite_delete(list) ==
  IF Unrevised(list) THEN Fails
  ELSE Ask(Statement("DELETE", <<>>, sqlite_build_clause(list)), sqlite_bind_clause(list))

mysql_delete(list) ==
  IF Unrevised(list) THEN Fails
  ELSE Ask(Statement("DELETE", <<>>, mysql_build_clause(list)), mysql_bind_clause(list))

sqlite_read(list) ==
  Ask(Statement("SELECT", <<>>, sqlite_build_clause(list)), sqlite_bind_clause(list))

mysql_read(list) ==
  Ask(Statement("SELECT", <<>>, mysql_build_clause(list)), mysql_bind_clause(list))

sqlite_count(list) ==
  Ask(Statement("COUNT", <<>>, sqlite_build_clause(list)), sqlite_bind_clause(list))

mysql_count(list) ==
  Ask(Statement("COUNT", <<>>, mysql_build_clause(list)), mysql_bind_clause(list))

\* With a revision a change that met no row is an error.
Outcome(backend, rows, ask, got) ==
  CASE ask.fails -> DB_ERROR_UNKNOWN
    [] ask.statement.verb \in {"UPDATE", "DELETE"} ->
         IF qrev /\ got.changed < 1 THEN DB_ERROR_UNKNOWN ELSE Success({}, 0)
    [] ask.statement.verb = "SELECT" ->
         Success({<<id, column_value(backend, rows[id].n)>> : id \in got.found}, 0)
    [] ask.statement.verb = "COUNT" -> Success({}, Cardinality(got.found))
    [] OTHER -> Success({}, 0)

(***************************************************************************)
(* The plain table                                                         *)
(***************************************************************************)
\* A test of a revision speaks of the revision the row has in that backend;
\* it was read there.  The plain table has no revisions: the row is named by
\* its id, and "rev" = r holds of the rows that were changed r times.
Holds(clause, row) == Compare(clause.type, row[clause.field], clause.value)

Meant(list, rows) ==
  {id \in DOMAIN rows :
     list = <<>> \/
     \E from \in 1..Len(list), to \in 1..Len(list) :
       /\ from <= to
       /\ from = 1 \/ list[from].op = "OR"
       /\ \A i \in (from + 1)..to : list[i].op = "AND"
       /\ to = Len(list) \/ list[to + 1].op = "OR"
       /\ \A i \in from..to : Holds(list[i], rows[id])}

Plainly(verb, v, list) ==
  LET meant == Meant(list, qplain)
      refused == qrev /\ ((\A i \in 1..Len(list) : list[i].field # "rev") \/ meant = {})
  IN CASE verb = "create" ->
            [rows |-> [id \in DOMAIN qplain \cup {qids + 1} |->
                         IF id \in DOMAIN qplain THEN qplain[id]
                         ELSE [id |-> id, rev |-> 0, n |-> v]],
             answer |-> Success({}, 0)]
       [] verb = "update" ->
            [rows |-> [id \in DOMAIN qplain |->
                         IF id \in meant /\ ~refused
                         THEN [qplain[id] EXCEPT !.n = v, !.rev = @ + 1] ELSE qplain[id]],
             answer |-> IF refused THEN DB_ERROR_UNKNOWN ELSE Success({}, 0)]
       [] verb = "delete" ->
            [rows |-> IF refused THEN qplain ELSE Restrict(qplain, DOMAIN qplain \ meant),
             answer |-> IF refused THEN DB_ERROR_UNKNOWN ELSE Success({}, 0)]
       [] verb = "read" ->
            [rows |-> qplain, answer |-> Success({<<id, qplain[id].n>> : id \in meant}, 0)]
       [] verb = "count" -> [rows |-> qplain, answer |-> Success({}, Cardinality(meant))]

(***************************************************************************)
(* Steps                                                                   *)
(***************************************************************************)
\* The clauses as the backend gets them: a revision counts from the one a
\* new row has there.
FirstRevision(backend) == IF backend = "sqlite" THEN 1 ELSE 0
Given(backend, list) ==
  [i \in 1..Len(list) |->
     IF list[i].field = "rev" THEN [list[i] EXCEPT !.value = @ + FirstRevision(backend)]
     ELSE list[i]]

Asked(backend, verb, v, list) ==
  IF backend = "sqlite"
  THEN CASE verb = "create" -> sqlite_create(v)
         [] verb = "update" -> sqlite_update(v, list)
         [] verb = "delete" -> sqlite_delete(list)
         [] verb = "read" -> sqlite_read(list)
         [] verb = "count" -> sqlite_count(list)
  ELSE CASE verb = "create" -> mysql_create(v)
         [] verb = "update" -> mysql_update(v, list)
         [] verb = "delete" -> mysql_delete(list)
         [] verb = "read" -> mysql_read(list)
         [] verb = "count" -> mysql_count(list)

Large(v) == v >= 2^(QWidth - 1)
OrderedLarge(list) ==
  \E i \in 1..Len(list) :
    /\ list[i].field = "n" /\ list[i].type \notin {"EQUAL", "NOT_EQUAL"}
    /\ Large(list[i].value) \/ \E id \in DOMAIN qplain : Large(qplain[id].n)

Operation(verb, v, list) ==
  /\ qsteps < QSteps
  /\ \E done \in {[b \in QBackends |->
                     LET ask == Asked(b, verb, v, Given(b, list))
                         got == IF ask.fails THEN [rows |-> qstore[b], changed |-> 0, found |-> {}]
                                ELSE Execute(qstore[b], ask.statement, ask.bound)
                     IN [rows |-> got.rows, outcome |-> Outcome(b, got.rows, ask, got)]]} :
       /\ qstore' = [b \in QBackends |-> done[b].rows]
       /\ qresult' = [b \in QBackends |-> done[b].outcome]
  /\ \E plain \in {Plainly(verb, v, list)} :
       qplain' = plain.rows /\ qanswer' = plain.answer
  /\ qids' = IF verb = "create" THEN qids + 1 ELSE qids
  /\ qordered' = (qordered \/ OrderedLarge(list))
  /\ qsteps' = qsteps + 1
  /\ UNCHANGED qrev

QueryInit ==
  /\ qrev \in BOOLEAN
  /\ qstore = [b \in QBackends |-> <<>>] /\ qplain = <<>>
  /\ qresult = [b \in QBackends |-> Success({}, 0)] /\ qanswer = Success({}, 0)
  /\ qids = 0 /\ qordered = FALSE /\ qsteps = 0

Answerable(list) == \A i \in 1..Len(list) : list[i].field = "rev" => qrev

QueryNext ==
  \/ \E v \in QValues : Operation("create", v, <<>>)
  \/ \E list \in QLists : Answerable(list) /\
       \/ \E v \in QValues : Operation("update", v, list)
       \/ Operation("delete", 0, list)
       \/ Operation("read", 0, list)
       \/ Operation("count", 0, list)

QuerySpec == QueryInit /\ [][QueryNext]_queryvars

(***************************************************************************)
(* Properties                                                              *)
(***************************************************************************)
\* Whatever operations were carried out, both backends have the rows of the
\* plain table and gave its answers: every value reaches the mark it was meant
\* for, in INSERT, UPDATE, DELETE, SELECT and SELECT COUNT, the revision moves
\* with every change, and a change without or with a stale revision is
\* refused.  Excepted are comparisons by order with numbers of 2^31 and more,
\* which SQLite stores as negative numbers.
BackendsAgree ==
  qsteps > 0 /\ ~qordered =>
    \A b \in QBackends :
      /\ qresult[b] = qanswer
      /\ DOMAIN qstore[b] = DOMAIN qplain
      /\ \A id \in DOMAIN qplain :
           /\ column_value(b, qstore[b][id].n) = qplain[id].n
           /\ qrev => qstore[b][id].rev = qplain[id].rev + FirstRevision(b)

=============================================================================
