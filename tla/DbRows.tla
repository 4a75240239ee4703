------------------------------- MODULE DbRows -------------------------------
(***************************************************************************)
(* What a row of the enforcer's database goes through: the structure the   *)
(* enforcer works with (dbw.h) is copied member by member to a row object, *)
(* its members become typed values, the backend (SQLite or MySQL) binds    *)
(* the values to columns, and reading takes the same way back.  Two        *)
(* threads hold a copy of the row, change it and commit it; dbw_commit     *)
(* compares revisions first, under the write lock, and is one step here.   *)
(*                                                                         *)
(* Integers have Width bits instead of 32.  A text is a number as well: it *)
(* is only stored and read back.  saved is what was last committed, in the *)
(* enforcer's own terms; touched is what a thread changed since it read.   *)
(***************************************************************************)
EXTENDS FiniteSetsExt, TLC, DbTables

CONSTANTS
  Width,      \* bits of an int, 32 in the code
  NumHolders, \* the threads working on the row
  MaxCommits  \* bound on the number of successful commits

ASSUME DbRowsAssumption ==
  /\ Width \in Nat /\ 2^(Width - 1) > 40
  /\ NumHolders \in Nat \ {0}
  /\ MaxCommits \in Nat

VARIABLES
  backend,   \* "sqlite" or "mysql"
  table,     \* the table of the row
  store,     \* the row in the database: NoRow, or its id, rev and data
  copy,      \* the copy each thread holds: NoRow, or a dbw structure
  saved,     \* the members as the last commit meant them, NoRow without a row
  ids,       \* the last id the database gave out
  probe      \* which members the threads change

rowVars == <<backend, table, store, copy, saved, ids, probe>>

Holders == 1..NumHolders

NoRow == [id |-> 0]

Tables ==
  [policy |->
     [new |-> policy_new_object, result |-> policy_from_result,
      get |-> policy_get_by_id, create |-> policy_create,
      update |-> policy_update, delete |-> policy_delete,
      out |-> dbw_policy_update, in |-> policy_dbx_to_dbw],
   policykey |->
     [new |-> policy_key_new_object, result |-> policy_key_from_result,
      get |-> policy_key_get_by_id, create |-> policy_key_create,
      update |-> NotImplemented, delete |-> policy_key_delete,
      out |-> dbw_policykey_update, in |-> policykey_dbx_to_dbw],
   zone |->
     [new |-> zone_db_new_object, result |-> zone_db_from_result,
      get |-> zone_db_get_by_id, create |-> zone_db_create,
      update |-> zone_db_update, delete |-> zone_db_delete,
      out |-> dbw_zone_update, in |-> zone_dbx_to_dbw],
   hsmkey |->
     [new |-> hsm_key_new_object, result |-> hsm_key_from_result,
      get |-> hsm_key_get_by_id, create |-> hsm_key_create,
      update |-> hsm_key_update, delete |-> hsm_key_delete,
      out |-> dbw_hsmkey_update, in |-> hsmkey_dbx_to_dbw],
   key |->
     [new |-> key_data_new_object, result |-> key_data_from_result,
      get |-> key_data_get_by_id, create |-> key_data_create,
      update |-> key_data_update, delete |-> key_data_delete,
      out |-> dbw_key_update, in |-> key_dbx_to_dbw],
   keystate |->
     [new |-> key_state_new_object, result |-> key_state_from_result,
      get |-> key_state_get_by_id, create |-> key_state_create,
      update |-> key_state_update, delete |-> key_state_delete,
      out |-> dbw_keystate_update, in |-> keystate_dbx_to_dbw],
   keydependency |->
     [new |-> key_dependency_new_object, result |-> key_dependency_from_result,
      get |-> key_dependency_get_by_id, create |-> key_dependency_create,
      update |-> NotImplemented, delete |-> key_dependency_delete,
      out |-> dbw_keydependency_update, in |-> keydependency_dbx_to_dbw]]

T == Tables[table]

(* Where a list has the column or member of a name.                        *)
Positions(list) ==
  [n \in Names(list) |-> CHOOSE i \in DOMAIN list : list[i].name = n]

At == [t \in DOMAIN Tables |->
         [result |-> Positions(Tables[t].result),
          create |-> Positions(Tables[t].create.fields),
          update |-> Positions(Tables[t].update.fields)]]

MembersOf == [t \in DOMAIN Tables |-> Names(Data(Tables[t].result))]

Members == MembersOf[table]

(* The type of a member of the row's C structure.                          *)
KindOf(m) == T.result[At[table].result[m]].type

-----------------------------------------------------------------------------
(* Conversions.                                                            *)

Unsigned(v) == v % 2^Width

Signed(v) ==
  LET u == Unsigned(v) IN IF u >= 2^(Width - 1) THEN u - 2^Width ELSE u

(* Assigning a member of the dbw structure, possibly a 64 bit time_t, to   *)
(* the unsigned int or int of the row object.                              *)
Assigned(type, v) ==
  CASE type.kind = "UINT32" -> Unsigned(v)
    [] type.kind = "INT32" -> Signed(v)
    [] OTHER -> v

(* A db_value: its type and its content.  NoValue is a failed conversion.  *)
NoValue == [type |-> "EMPTY", v |-> 0]

(* db_value_from_X: the value X_create and X_update make of a member; the  *)
(* foreign keys are set up as INT32 by dbw.c.                              *)
db_value_from(type, v) ==
  CASE type.kind = "ENUM" ->
         IF v \in type.values THEN [type |-> "ENUM", v |-> v] ELSE NoValue
    [] type.kind = "ANY" -> [type |-> "INT32", v |-> v]
    [] OTHER -> [type |-> type.kind, v |-> v]

(* db_value_to_X: the member X_from_result makes of a value.  The value    *)
(* must be of the very type, except for an enumeration, which comes as an  *)
(* INT32 that must be in the enum_set, and for copied values.              *)
db_value_to(type, value) ==
  CASE type.kind \in {"PRIMARY_KEY", "REVISION", "ANY"} -> value
    [] type.kind = "ENUM" ->
         IF value.type = "INT32" /\ value.v \in type.values THEN value ELSE NoValue
    [] OTHER -> IF value.type = type.kind THEN value ELSE NoValue

(* What SQLite is given for a value and what it gives back for a column:   *)
(* an unsigned int travels as an int.                                      *)
sqlite_bind(value) == IF value.type = "UINT32" THEN Signed(value.v) ELSE value.v

db_backend_sqlite_next(type, stored) ==
  CASE type.kind \in {"PRIMARY_KEY", "ENUM", "INT32"} ->
         [type |-> "INT32", v |-> Signed(stored)]
    [] type.kind = "UINT32" -> [type |-> "UINT32", v |-> Unsigned(stored)]
    [] type.kind = "TEXT" -> [type |-> "TEXT", v |-> stored]
    [] OTHER -> [type |-> "INT64", v |-> stored]

(* MySQL binds a value with its own signedness.                            *)
mysql_bind_value(value) == value.v

(* The buffer a column is read into: its size and signedness follow from   *)
(* the type of the field, for ids, foreign keys and revisions from the     *)
(* column: BIGINT UNSIGNED, and INT UNSIGNED for a revision.               *)
Buffer(as, unsigned) == [as |-> as, unsigned |-> unsigned]

mysql_column(kind) == Buffer(IF kind = "REVISION" THEN "LONG" ELSE "LONGLONG", TRUE)

output_primary_key == Buffer(mysql_column("PRIMARY_KEY").as, TRUE)

output_any(kind) == mysql_column(kind)

output_typed(kind) ==
  CASE kind = "UINT32" -> Buffer("LONG", TRUE)
    [] kind = "TEXT" -> Buffer("STRING", FALSE)
    [] OTHER -> Buffer("LONG", FALSE)

bind_output(kind) ==
  CASE kind = "PRIMARY_KEY" -> output_primary_key
    [] kind \in {"ANY", "REVISION"} -> output_any(kind)
    [] OTHER -> output_typed(kind)

db_backend_mysql_next(type, stored) ==
  LET buffer == bind_output(type.kind)
  IN CASE buffer.as = "STRING" -> [type |-> "TEXT", v |-> stored]
       [] buffer.as = "LONGLONG" -> [type |-> "UINT64", v |-> stored]
       [] buffer.unsigned -> [type |-> "UINT32", v |-> Unsigned(stored)]
       [] OTHER -> [type |-> "INT32", v |-> Signed(stored)]

Bound(value) ==
  IF backend = "sqlite" THEN sqlite_bind(value) ELSE mysql_bind_value(value)

Fetched(type, stored) ==
  IF backend = "sqlite" THEN db_backend_sqlite_next(type, stored)
  ELSE db_backend_mysql_next(type, stored)

-----------------------------------------------------------------------------
(* The backend.  An operation writes the i-th value to the i-th column.    *)

Values(lists, object) ==
  [i \in DOMAIN lists.values |->
     db_value_from(lists.values[i].type, object[lists.values[i].name])]

AllValid(values) == \A i \in DOMAIN values : values[i] # NoValue

WrittenRow(at, values) == [c \in DOMAIN at |-> Bound(values[at[c]])]

(* A new row has revision 1, but MySQL executes the INSERT after           *)
(* db_value_reset cleared the value bound for it.                          *)
db_backend_sqlite_create(values) ==
  [id |-> ids + 1, rev |-> 1, data |-> WrittenRow(At[table].create, values)]

db_backend_mysql_create(values) ==
  [id |-> ids + 1, rev |-> 0, data |-> WrittenRow(At[table].create, values)]

Matches(clauses, object) ==
  /\ store # NoRow
  /\ "id" \in clauses => store.id = object.id
  /\ "rev" \in clauses => store.rev = object.rev

(* UPDATE ... SET columns, rev = rev + 1 WHERE clauses.                    *)
db_backend_sqlite_update(values, object) ==
  [store EXCEPT !.rev = object.rev + 1, !.data = WrittenRow(At[table].update, values) @@ @]

db_backend_mysql_update(values, object) == db_backend_sqlite_update(values, object)

(* X_get_by_id: the row object read from the database, the i-th value of   *)
(* the result going to the i-th member.                                    *)
Result(i) ==
  LET c == T.new[i]
      stored == CASE c.name = "id" -> store.id
                  [] c.name = "rev" -> store.rev
                  [] OTHER -> store.data[c.name]
  IN db_value_to(T.result[i].type, Fetched(c.type, stored))

Object == [m \in DOMAIN At[table].result |-> Result(At[table].result[m]).v]

Readable == \A i \in DOMAIN T.result : Result(i) # NoValue

GetById(id) == Matches(T.get, [id |-> id, rev |-> 0]) /\ Readable

-----------------------------------------------------------------------------
(* dbw.c                                                                   *)

(* The values a member is changed to: the ends of its range, for a time_t  *)
(* and for next_change also values beyond it, for an enumeration also the  *)
(* -1 that dbw_txt2enum gives for an unknown text.                         *)
TimeMembers ==
  {"next_change", "ttl_end_ds", "ttl_end_dk", "ttl_end_rs", "next_ksk_roll",
   "next_zsk_roll", "next_csk_roll", "inception", "last_change"}

NewValues(m) ==
  CASE KindOf(m).kind = "ENUM" -> {Max(KindOf(m).values), 0 - 1}
    [] KindOf(m).kind = "UINT32" ->
         {2^Width - 1, IF m \in TimeMembers THEN 2^Width ELSE 2^(Width - 1)}
    [] KindOf(m).kind = "INT32" -> {-1, 2^(Width - 1)}
    [] OTHER -> {0}

InRange(m, v) ==
  CASE KindOf(m).kind = "UINT32" -> v \in 0..(2^Width - 1)
    [] KindOf(m).kind = "INT32" -> v \in (-2^(Width - 1))..(2^(Width - 1) - 1)
    [] OTHER -> TRUE

(* A structure from dbw_new_X: distinct values, so that no two members can *)
(* be mistaken for each other, unless their type has fewer.                *)
Fresh ==
  [m \in Members |->
     IF KindOf(m).kind = "ENUM"
     THEN Min(KindOf(m).values)
     ELSE At[table].result[m]]

NewRow(p, m, v) ==
  /\ \A q \in Holders : copy[q] # NoRow => copy[q].dirty # "INSERT"
  /\ copy[p] = NoRow /\ store = NoRow /\ ids < MaxCommits
  /\ copy' = [copy EXCEPT ![p] = [id |-> 0 - 1, rev |-> 0, dirty |-> "INSERT",
                                  fields |-> [Fresh EXCEPT ![m] = v],
                                  touched |-> Members]]
  /\ UNCHANGED <<backend, table, store, saved, ids, probe>>

(* X_dbx_to_dbw, while fetching the lists.                                 *)
FetchRow(p) ==
  /\ copy[p] = NoRow /\ store # NoRow /\ Readable
  /\ copy' = [copy EXCEPT ![p] =
       [id |-> Object.id, rev |-> Object.rev, dirty |-> "CLEAN",
        fields |-> [m \in Members |-> IF m \in T.in THEN Object[m] ELSE 0],
        touched |-> {}]]
  /\ UNCHANGED <<backend, table, store, saved, ids, probe>>

(* The enforcer or a command assigns a member of a row it fetched, and     *)
(* calls dbw_mark_dirty.                                                   *)
ChangeMember(p, m, v) ==
  /\ copy[p] # NoRow /\ copy[p].dirty = "CLEAN" /\ copy[p].fields[m] # v
  /\ T.update # NotImplemented /\ copy[p].rev < MaxCommits
  /\ copy' = [copy EXCEPT ![p].fields[m] = v, ![p].touched = {m}, ![p].dirty = "UPDATE"]
  /\ UNCHANGED <<backend, table, store, saved, ids, probe>>

MarkDelete(p) ==
  /\ copy[p] # NoRow /\ copy[p].dirty \in {"CLEAN", "UPDATE"} /\ ids < MaxCommits
  /\ copy' = [copy EXCEPT ![p].dirty = "DELETE"]
  /\ UNCHANGED <<backend, table, store, saved, ids, probe>>

(* dbw_X_revision: the revision in the database, or -1.                    *)
Revision(id) == IF GetById(id) THEN Object.rev ELSE 0 - 1

\* Mutant: the revision is not compared.
row_verify_unchecked(row) == TRUE

row_verify_revisions(row) == row.dirty = "UPDATE" => Revision(row.id) = row.rev

(* dbw_X_update copies the members to a new row object, or to the one just *)
(* read.                                                                   *)
CopiedOut(row, old) ==
  [m \in DOMAIN At[table].result |->
     IF m \in T.out THEN Assigned(KindOf(m), row.fields[m]) ELSE old[m]]

Blank == [m \in DOMAIN At[table].result |-> 0]

Inserted(p) ==
  \E object \in {CopiedOut(copy[p], Blank)} :
  \E values \in {Values(T.create, object)} :
    IF AllValid(values)
    THEN /\ store' = IF backend = "sqlite" THEN db_backend_sqlite_create(values)
                     ELSE db_backend_mysql_create(values)
         /\ ids' = ids + 1
         /\ saved' = copy[p].fields
    ELSE UNCHANGED <<store, ids, saved>>

Updated(p) ==
  \E object \in {CopiedOut(copy[p], Object)} :
  \E values \in {Values(T.update, object)} :
    IF AllValid(values) /\ Matches(T.update.clauses, object)
    THEN /\ store' = IF backend = "sqlite" THEN db_backend_sqlite_update(values, object)
                     ELSE db_backend_mysql_update(values, object)
         /\ saved' = copy[p].fields
         /\ UNCHANGED ids
    ELSE UNCHANGED <<store, ids, saved>>

Deleted ==
  IF Matches(T.delete, Object)
  THEN store' = NoRow /\ saved' = NoRow /\ UNCHANGED ids
  ELSE UNCHANGED <<store, ids, saved>>

(* dbw_commit, and dbw_free.                                               *)
CommitRow(p) ==
  /\ copy[p] # NoRow
  /\ IF ~row_verify_revisions(copy[p])
     THEN UNCHANGED <<store, ids, saved>>
     ELSE CASE copy[p].dirty = "INSERT" -> Inserted(p)
            [] copy[p].dirty = "UPDATE" /\ GetById(copy[p].id) -> Updated(p)
            [] copy[p].dirty = "DELETE" /\ GetById(copy[p].id) -> Deleted
            [] OTHER -> UNCHANGED <<store, ids, saved>>
  /\ copy' = [copy EXCEPT ![p] = NoRow]
  /\ UNCHANGED <<backend, table, probe>>

-----------------------------------------------------------------------------

(* The member thread p changes: neighbouring positions of the table.       *)
Probed(p) == T.result[3 + ((probe + p) % Cardinality(Members))].name

RowsInit ==
  /\ backend \in {"sqlite", "mysql"}
  /\ table \in DOMAIN Tables
  /\ probe \in {k \in 1..Cardinality(Members) : k % NumHolders = 0}
  /\ store = NoRow /\ saved = NoRow /\ ids = 0
  /\ copy = [p \in Holders |-> NoRow]

(* A bound: the row after a deleted one is the first thread's.             *)
RowsNext ==
  \E p \in Holders :
    \/ \E v \in NewValues(Probed(p)) : (ids > 0 => p = 1) /\ NewRow(p, Probed(p), v)
    \/ FetchRow(p)
    \/ \E v \in NewValues(Probed(p)) : ChangeMember(p, Probed(p), v)
    \/ MarkDelete(p)
    \/ CommitRow(p)

RowsSpec == RowsInit /\ [][RowsNext]_rowVars

-----------------------------------------------------------------------------
(* Properties                                                              *)

(* Every value is of its column's width, and a row keeps its id.           *)
RowsTypeOK ==
  /\ ids \in 0..MaxCommits
  /\ store # NoRow =>
       /\ store.id \in 1..ids /\ store.rev \in 0..MaxCommits
       /\ DOMAIN store.data = Names(Data(T.new))
       /\ \A c \in DOMAIN store.data : store.data[c] \in (-2^(Width - 1))..(2^Width - 1)
  /\ \A p \in Holders : copy[p] # NoRow =>
       /\ copy[p].dirty \in {"CLEAN", "INSERT", "UPDATE", "DELETE"}
       /\ DOMAIN copy[p].fields = Members
  /\ (saved = NoRow) = (store = NoRow)

(* What was committed is what is read: in a copy of the current row that   *)
(* nobody changed, every member has the value it had in the structure that *)
(* was committed, through both copies, both conversions, the binding and   *)
(* the four column lists of the table; only a value beyond the width of    *)
(* its column (a time after 2106, a next_change after 2038) may differ.    *)
ReadBack ==
  \A p \in Holders :
    /\ copy[p] # NoRow /\ copy[p].dirty = "CLEAN"
    /\ store # NoRow /\ copy[p].id = store.id /\ copy[p].rev = store.rev
    => \A m \in Members : InRange(m, saved[m]) => copy[p].fields[m] = saved[m]

(* A row that was committed can be read again: no commit stores a value    *)
(* that X_from_result refuses, which would hide the row from every list.   *)
StaysReadable == store # NoRow => Readable

(* No lost update: a commit that updates the row changes no member but     *)
(* those its own thread assigned since reading, although it writes all of  *)
(* them; a commit from an older copy is refused by row_verify_revisions.   *)
ChangesOnlyItsOwn ==
  [][store # NoRow /\ store' # NoRow /\ store' # store =>
       \E p \in Holders :
         /\ copy[p] # NoRow /\ copy'[p] = NoRow
         /\ \A m \in Members \ copy[p].touched : Object'[m] = Object[m]]_rowVars

\* A row survives its way through the structures, the conversions and the
\* columns: values of their widths, read as committed, and never refused.
RowsSound == RowsTypeOK /\ ReadBack /\ StaysReadable

=============================================================================
