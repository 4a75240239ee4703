------------------------------ MODULE DbLists ------------------------------
(***************************************************************************)
(* The lists of row objects that every table of enforcer/src/db has:       *)
(* X_list_get reads the rows of a table at once, X_list_begin and          *)
(* X_list_next go through them, X_list_get_next gives copies away.  A list *)
(* that stores its objects keeps those it has made, and makes the missing  *)
(* ones from the result list, which has a cursor of its own; the two       *)
(* cursors have to stay together whatever was called before.               *)
(*                                                                         *)
(* gen.pl is the template of these functions, and the seven files are      *)
(* seven copies of it that have been edited since; the operators below     *)
(* follow the template, and each table's functions refer to them.  A row   *)
(* is its number; 0 is NULL.                                               *)
(***************************************************************************)
EXTENDS Integers, Sequences, DbTables

CONSTANTS MaxRows,  \* bound: rows of the table
          MaxCalls  \* bound: calls on the lists

ASSUME DbListsAssumption == MaxRows \in Nat \ {0} /\ MaxCalls \in Nat

VARIABLES
  ltable, \* the table
  lrows,  \* the rows in the database
  lists,  \* the lists: a list, and one that copies are made into
  walk,   \* the rows each list gave since its walk began
  calls   \* calls so far

listVars == <<ltable, lrows, lists, walk, calls>>

NULL == 0

\* X_list_new: calloc.
list_new == [store |-> FALSE, objects |-> <<>>, position |-> 0,
             first |-> FALSE, result |-> <<>>, current |-> 0,
             begun |-> FALSE, fetched |-> FALSE, copied |-> FALSE]

(***************************************************************************)
(* db_result.c: the cursor of a result list, 0 before the first row and    *)
(* Len + 1 after the last.                                                 *)
(***************************************************************************)
db_result_list_begin(l) ==
  [l EXCEPT !.current = IF l.result = <<>> THEN 0 ELSE 1, !.begun = TRUE]

db_result_list_next(l) ==
  IF ~l.begun THEN db_result_list_begin(l)
  ELSE [l EXCEPT !.current =
          IF l.current \in DOMAIN l.result THEN @ + 1 ELSE @]

CurrentRow(l) ==
  IF l.current \in DOMAIN l.result THEN l.result[l.current] ELSE NULL

db_result_list_size(l) == Len(l.result)

\* db_result_list_copy leaves out whether the list has begun.
db_result_list_copy(from) == [from EXCEPT !.begun = FALSE]

(***************************************************************************)
(* The template.  What a call gives is the list afterwards and a row.      *)
(***************************************************************************)
Gives(l, row) == [list |-> l, row |-> row]

list_object_store(l) == [l EXCEPT !.store = TRUE]

\* Selected rows, for a clause on a foreign key: every other row.
Selected(found) ==
  [i \in 1 .. (Len(found) + 1) \div 2 |-> found[2 * i - 1]]

list_get(l, found) ==
  [l EXCEPT !.result = found, !.current = 0, !.begun = FALSE,
            !.first = IF l.objects # <<>> THEN FALSE ELSE @,
            !.objects = <<>>, !.fetched = TRUE, !.copied = FALSE]

\* With clauses, the rows they select.
list_get_by_clauses(l, found) == list_get(l, Selected(found))

\* Room for the objects of a list that stores them.
Allocated(l) ==
  IF l.objects = <<>>
  THEN [l EXCEPT !.objects = [i \in 1 .. db_result_list_size(l) |-> NULL]]
  ELSE l

\* The object at position i, made from row r of the result if need be.
Stored(l, i, r) == [l EXCEPT !.objects[i + 1] = IF @ = NULL THEN r ELSE @]

\* Mutant: the result list is begun again also when objects were made.
list_begin_again(l) ==
  LET a == Allocated(l)
      b == db_result_list_begin(a)
  IN IF ~l.store \/ a.objects = <<>> THEN Gives(b, CurrentRow(b))
     ELSE LET c == Stored(b, 0, CurrentRow(b))
          IN Gives([c EXCEPT !.position = 0], c.objects[1])

list_begin(l) ==
  LET a == Allocated(l)
      b == IF l.store /\ a.objects # <<>> /\ a.objects[1] # NULL THEN a
           ELSE db_result_list_begin(a)
  IN IF ~l.store
     THEN LET d == db_result_list_begin(l) IN Gives(d, CurrentRow(d))
     ELSE IF a.objects = <<>> THEN Gives(l, NULL)
     ELSE LET c == Stored(b, 0, CurrentRow(b))
          IN Gives([c EXCEPT !.position = 0], c.objects[1])

\* The position a list that stores its objects goes on to.
NextPosition(l) == IF l.objects = <<>> \/ l.first THEN 0 ELSE l.position + 1

list_next(l) ==
  LET p == NextPosition(l)
      a == [Allocated(l) EXCEPT !.position = p,
              !.first = IF l.objects # <<>> THEN FALSE ELSE @]
      b == IF p < Len(a.objects) /\ a.objects[p + 1] # NULL THEN a
           ELSE db_result_list_next(a)
      c == Stored(b, p, CurrentRow(b))
  IN IF ~l.store
     THEN LET d == db_result_list_next(l) IN Gives(d, CurrentRow(d))
     ELSE IF a.objects = <<>> THEN Gives(l, NULL)
     ELSE IF p >= Len(a.objects) THEN Gives(a, NULL)
     ELSE Gives(c, c.objects[p + 1])

\* A copy of the next row; of a list that does not store its objects the row
\* itself.  copy is what X_copy copies of the members.
list_get_next(l, copy, members) ==
  LET n == list_next(l)
  IN Gives(n.list, IF l.store /\ copy # members THEN NULL ELSE n.row)

list_get_begin(l, copy, members) ==
  LET n == list_begin(l)
  IN Gives(n.list, IF l.store /\ copy # members THEN NULL ELSE n.row)

list_size(l) ==
  IF l.store /\ l.objects # <<>> THEN Len(l.objects)
  ELSE db_result_list_size(l)

list_copy(from) ==
  [db_result_list_copy(from) EXCEPT !.position = 0, !.first = TRUE,
                                    !.copied = TRUE]

(***************************************************************************)
(* The functions of the tables.                                            *)
(***************************************************************************)
zone_db_copy == Names(zone_db_from_result)

zone_list_db_get(l, found) == list_get(l, found)

zone_list_db_get_by_clauses(l, found) == list_get_by_clauses(l, found)

zone_list_db_get_by_policy_id(l, found) == list_get_by_clauses(l, found)

zone_list_db_begin(l) == list_begin(l)

zone_list_db_next(l) == list_next(l)

zone_list_db_get_next(l) ==
  list_get_next(l, zone_db_copy, Names(zone_db_from_result))

zone_list_db_size(l) == list_size(l)

zone_list_db_copy(from) == list_copy(from)

policy_copy == Names(policy_from_result)

policy_list_get(l, found) == list_get(l, found)

policy_list_get_by_clauses(l, found) == list_get_by_clauses(l, found)

policy_list_begin(l) == list_begin(l)

policy_list_next(l) == list_next(l)

policy_list_get_next(l) ==
  list_get_next(l, policy_copy, Names(policy_from_result))

policy_list_size(l) == list_size(l)

policy_list_copy(from) == list_copy(from)

policy_key_copy == Names(policy_key_from_result)

policy_key_list_get(l, found) == list_get(l, found)

policy_key_list_get_by_clauses(l, found) == list_get_by_clauses(l, found)

policy_key_list_get_by_policy_id(l, found) == list_get_by_clauses(l, found)

policy_key_list_begin(l) == list_begin(l)

policy_key_list_next(l) == list_next(l)

policy_key_list_get_next(l) ==
  list_get_next(l, policy_key_copy, Names(policy_key_from_result))

policy_key_list_size(l) == list_size(l)

policy_key_list_copy(from) == list_copy(from)

hsm_key_copy == Names(hsm_key_from_result)

hsm_key_list_get(l, found) == list_get(l, found)

hsm_key_list_get_by_clauses(l, found) == list_get_by_clauses(l, found)

hsm_key_list_get_by_policy_id(l, found) == list_get_by_clauses(l, found)

hsm_key_list_begin(l) == list_begin(l)

hsm_key_list_get_begin(l) ==
  list_get_begin(l, hsm_key_copy, Names(hsm_key_from_result))

hsm_key_list_next(l) == list_next(l)

hsm_key_list_get_next(l) ==
  list_get_next(l, hsm_key_copy, Names(hsm_key_from_result))

hsm_key_list_size(l) == list_size(l)

hsm_key_list_copy(from) == list_copy(from)

key_data_copy == Names(key_data_from_result)

key_data_list_get(l, found) == list_get(l, found)

key_data_list_get_by_clauses(l, found) == list_get_by_clauses(l, found)

key_data_list_get_by_zone_id(l, found) == list_get_by_clauses(l, found)

key_data_list_begin(l) == list_begin(l)

key_data_list_get_begin(l) ==
  list_get_begin(l, key_data_copy, Names(key_data_from_result))

key_data_list_next(l) == list_next(l)

key_data_list_get_next(l) ==
  list_get_next(l, key_data_copy, Names(key_data_from_result))

key_data_list_size(l) == list_size(l)

key_data_list_copy(from) == list_copy(from)

key_state_copy == Names(key_state_from_result)

key_state_list_get(l, found) == list_get(l, found)

key_state_list_get_by_clauses(l, found) == list_get_by_clauses(l, found)

key_state_list_get_by_key_data_id(l, found) == list_get_by_clauses(l, found)

key_state_list_begin(l) == list_begin(l)

key_state_list_get_begin(l) ==
  list_get_begin(l, key_state_copy, Names(key_state_from_result))

key_state_list_next(l) == list_next(l)

key_state_list_get_next(l) ==
  list_get_next(l, key_state_copy, Names(key_state_from_result))

key_state_list_size(l) == list_size(l)

key_state_list_copy(from) == list_copy(from)

key_dependency_copy == Names(key_dependency_from_result)

key_dependency_list_get(l, found) == list_get(l, found)

key_dependency_list_get_by_clauses(l, found) == list_get_by_clauses(l, found)

key_dependency_list_get_by_zone_id(l, found) == list_get_by_clauses(l, found)

key_dependency_list_begin(l) == list_begin(l)

key_dependency_list_get_begin(l) ==
  list_get_begin(l, key_dependency_copy, Names(key_dependency_from_result))

key_dependency_list_next(l) == list_next(l)

key_dependency_list_get_next(l) ==
  list_get_next(l, key_dependency_copy, Names(key_dependency_from_result))

key_dependency_list_size(l) == list_size(l)

key_dependency_list_copy(from) == list_copy(from)

\* The functions of the table this behaviour is about.
DoGet(l, found) ==
  CASE ltable = "zone" -> zone_list_db_get(l, found)
    [] ltable = "policy" -> policy_list_get(l, found)
    [] ltable = "policykey" -> policy_key_list_get(l, found)
    [] ltable = "hsmkey" -> hsm_key_list_get(l, found)
    [] ltable = "key" -> key_data_list_get(l, found)
    [] ltable = "keystate" -> key_state_list_get(l, found)
    [] ltable = "keydependency" -> key_dependency_list_get(l, found)

DoGetByClauses(l, found) ==
  CASE ltable = "zone" -> zone_list_db_get_by_clauses(l, found)
    [] ltable = "policy" -> policy_list_get_by_clauses(l, found)
    [] ltable = "policykey" -> policy_key_list_get_by_clauses(l, found)
    [] ltable = "hsmkey" -> hsm_key_list_get_by_clauses(l, found)
    [] ltable = "key" -> key_data_list_get_by_clauses(l, found)
    [] ltable = "keystate" -> key_state_list_get_by_clauses(l, found)
    [] ltable = "keydependency" -> key_dependency_list_get_by_clauses(l, found)

DoGetByParent(l, found) ==
  CASE ltable = "zone" -> zone_list_db_get_by_policy_id(l, found)
    [] ltable = "policykey" -> policy_key_list_get_by_policy_id(l, found)
    [] ltable = "hsmkey" -> hsm_key_list_get_by_policy_id(l, found)
    [] ltable = "key" -> key_data_list_get_by_zone_id(l, found)
    [] ltable = "keystate" -> key_state_list_get_by_key_data_id(l, found)
    [] ltable = "keydependency" -> key_dependency_list_get_by_zone_id(l, found)
    [] OTHER -> policy_list_get_by_clauses(l, found)

DoBegin(l) ==
  CASE ltable = "zone" -> zone_list_db_begin(l)
    [] ltable = "policy" -> policy_list_begin(l)
    [] ltable = "policykey" -> policy_key_list_begin(l)
    [] ltable = "hsmkey" -> hsm_key_list_begin(l)
    [] ltable = "key" -> key_data_list_begin(l)
    [] ltable = "keystate" -> key_state_list_begin(l)
    [] ltable = "keydependency" -> key_dependency_list_begin(l)

DoGetBegin(l) ==
  CASE ltable = "hsmkey" -> hsm_key_list_get_begin(l)
    [] ltable = "key" -> key_data_list_get_begin(l)
    [] ltable = "keystate" -> key_state_list_get_begin(l)
    [] ltable = "keydependency" -> key_dependency_list_get_begin(l)
    [] OTHER -> DoBegin(l)

DoNext(l) ==
  CASE ltable = "zone" -> zone_list_db_next(l)
    [] ltable = "policy" -> policy_list_next(l)
    [] ltable = "policykey" -> policy_key_list_next(l)
    [] ltable = "hsmkey" -> hsm_key_list_next(l)
    [] ltable = "key" -> key_data_list_next(l)
    [] ltable = "keystate" -> key_state_list_next(l)
    [] ltable = "keydependency" -> key_dependency_list_next(l)

DoGetNext(l) ==
  CASE ltable = "zone" -> zone_list_db_get_next(l)
    [] ltable = "policy" -> policy_list_get_next(l)
    [] ltable = "policykey" -> policy_key_list_get_next(l)
    [] ltable = "hsmkey" -> hsm_key_list_get_next(l)
    [] ltable = "key" -> key_data_list_get_next(l)
    [] ltable = "keystate" -> key_state_list_get_next(l)
    [] ltable = "keydependency" -> key_dependency_list_get_next(l)

DoSize(l) ==
  CASE ltable = "zone" -> zone_list_db_size(l)
    [] ltable = "policy" -> policy_list_size(l)
    [] ltable = "policykey" -> policy_key_list_size(l)
    [] ltable = "hsmkey" -> hsm_key_list_size(l)
    [] ltable = "key" -> key_data_list_size(l)
    [] ltable = "keystate" -> key_state_list_size(l)
    [] ltable = "keydependency" -> key_dependency_list_size(l)

DoCopy(l) ==
  CASE ltable = "zone" -> zone_list_db_copy(l)
    [] ltable = "policy" -> policy_list_copy(l)
    [] ltable = "policykey" -> policy_key_list_copy(l)
    [] ltable = "hsmkey" -> hsm_key_list_copy(l)
    [] ltable = "key" -> key_data_list_copy(l)
    [] ltable = "keystate" -> key_state_list_copy(l)
    [] ltable = "keydependency" -> key_dependency_list_copy(l)

-----------------------------------------------------------------------------
(* What is done with the lists. *)

Both == {"list", "copy"}

ListTables == {"zone", "policy", "policykey", "hsmkey", "key", "keystate",
               "keydependency"}

ListsInit ==
  /\ ltable \in ListTables
  /\ lrows = <<1, 2, 3>>
  /\ lists = [n \in Both |-> list_new]
  /\ walk = [n \in Both |-> <<>>]
  /\ calls = 0

Calls(n, l, w) ==
  /\ calls < MaxCalls /\ calls' = calls + 1
  /\ lists' = [lists EXCEPT ![n] = l]
  /\ walk' = [walk EXCEPT ![n] = w]

\* Somebody else adds a row, with a number that no row had, or removes one.
ChangeRows ==
  /\ calls < MaxCalls /\ calls' = calls + 1
  /\ lrows' = IF Len(lrows) < MaxRows THEN Append(lrows, calls + 4)
              ELSE Tail(lrows)
  /\ UNCHANGED <<ltable, lists, walk>>

CallObjectStore ==
  /\ ~lists["list"].store /\ ~lists["list"].fetched
  /\ Calls("list", list_object_store(lists["list"]), <<>>)
  /\ UNCHANGED <<ltable, lrows>>

CallGet ==
  /\ \/ Calls("list", DoGet(lists["list"], lrows), <<>>)
     \/ Calls("list", DoGetByClauses(lists["list"], lrows), <<>>)
     \/ Calls("list", DoGetByParent(lists["list"], lrows), <<>>)
  /\ UNCHANGED <<ltable, lrows>>

CallBegin(n) ==
  /\ lists[n].fetched
  /\ \E g \in {DoBegin(lists[n]), DoGetBegin(lists[n])} :
       Calls(n, g.list, <<g.row>>)
  /\ UNCHANGED <<ltable, lrows>>

\* A walk that has come to its end does not go on.
CallNext(n) ==
  /\ lists[n].fetched /\ (walk[n] # <<>> => walk[n][Len(walk[n])] # NULL)
  /\ \E g \in {DoNext(lists[n]), DoGetNext(lists[n])} :
       Calls(n, g.list, Append(walk[n], g.row))
  /\ UNCHANGED <<ltable, lrows>>

CallCopy ==
  /\ lists["list"].fetched
  /\ Calls("copy", DoCopy(lists["list"]), <<>>)
  /\ UNCHANGED <<ltable, lrows>>

ListsNext ==
  \/ ChangeRows \/ CallObjectStore \/ CallGet \/ CallCopy
  \/ \E n \in Both : CallBegin(n) \/ CallNext(n)

ListsSpec == ListsInit /\ [][ListsNext]_listVars

-----------------------------------------------------------------------------
(* Properties *)

\* A walk through a list, begun with X_list_begin or by X_list_next after the
\* rows were read, gives the rows that were read, each once and in their
\* order, up to the end, whichever walks there were before and whether or
\* not the list stores its objects.  Not the copy of a list that stores its
\* objects: list_copy sets object_list_first, which makes X_list_next repeat
\* the row of X_list_begin, and the cursor of the copied result starts over.
WalkComplete ==
  \A n \in Both :
    lists[n].fetched /\ ~(lists[n].store /\ lists[n].copied) =>
      /\ LET rows == Append(lists[n].result, NULL)
         IN /\ Len(walk[n]) <= Len(rows)
            /\ \A i \in DOMAIN walk[n] : walk[n][i] = rows[i]
      /\ DoSize(lists[n]) = Len(lists[n].result)

=============================================================================
