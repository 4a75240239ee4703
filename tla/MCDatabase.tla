----------------------------- MODULE MCDatabase -----------------------------
(***************************************************************************)
(* The database on several scales, each on its own: a single row on its    *)
(* way through conversions and backends, the statements made of an         *)
(* operation, the connections that carry them out, the lists of rows, and  *)
(* threads that read, work on and commit the tables.                       *)
(***************************************************************************)
EXTENDS DbRows, DbLists, DbQuery, DbWait, MCSessions

VARIABLE part \* which of them this behaviour is about

databaseVars == <<part, rowVars, listVars, sessionVars, queryvars, waitvars>>

(* Clauses on the number, on id and revision as X_update and X_delete have *)
(* them, and three in a row with AND and OR.                               *)
MCClauses ==
  {<<>>}
  \cup {<<QClause("n", type, "AND", v)>> :
          type \in {"EQUAL", "NOT_EQUAL", "LESS_THEN", "LESS_OR_EQUAL",
                    "GREATER_OR_EQUAL", "GREATER_THEN"}, v \in {1, 6}}
  \cup {<<QClause("id", "EQUAL", "AND", i), QClause("rev", "EQUAL", "AND", r)>> :
          i \in 1..2, r \in 0..1}
  \cup {<<QClause("id", "EQUAL", "AND", 1), QClause("n", type, o, 1),
          QClause("id", "EQUAL", p, 2)>> :
          type \in {"EQUAL", "LESS_THEN"}, o \in {"AND", "OR"}, p \in {"AND", "OR"}}

NoScenario == Scenario([t \in TableNames |-> <<>>], {}, 0, 0, FALSE)

MCDatabaseScenarios == MCScenarios \union {NoScenario}

RowsIdle == backend = "sqlite" /\ table = "zone" /\ probe = NumHolders

DatabaseInit ==
  /\ RowsInit /\ ListsInit /\ SessionsInit /\ QueryInit /\ WaitInit
  /\ part \in {"rows", "lists", "sessions", "query", "sqlite", "mysql"}
  /\ part # "rows" => RowsIdle
  /\ part # "lists" => ltable = "zone"
  /\ (part = "sessions") = (story # NoScenario)
  /\ part # "query" => qrev

DatabaseNext ==
  \/ /\ part = "rows" /\ RowsNext
     /\ UNCHANGED <<part, listVars, sessionVars, queryvars, waitvars>>
  \/ /\ part = "lists" /\ ListsNext
     /\ UNCHANGED <<part, rowVars, sessionVars, queryvars, waitvars>>
  \/ /\ part = "sessions" /\ SessionsNext
     /\ UNCHANGED <<part, rowVars, listVars, queryvars, waitvars>>
  \/ /\ part = "query" /\ QueryNext
     /\ UNCHANGED <<part, rowVars, listVars, sessionVars, waitvars>>
  \/ /\ part = "sqlite" /\ SqliteNext
     /\ UNCHANGED <<part, rowVars, listVars, sessionVars, queryvars>>
  \/ /\ part = "mysql" /\ MysqlNext
     /\ UNCHANGED <<part, rowVars, listVars, sessionVars, queryvars>>

DatabaseSpec == DatabaseInit /\ [][DatabaseNext]_databaseVars
=============================================================================
