-------------------------------- MODULE Dbw --------------------------------
(***************************************************************************)
(* The database as the enforcer's threads see it (enforcer/src/db/dbw.c).  *)
(* dbw_fetch reads all tables under the read lock and links every row to   *)
(* its parents; the thread then changes its copy, marking rows INSERT,     *)
(* UPDATE or DELETE; dbw_commit takes the write lock, compares the         *)
(* revision of every UPDATE row and writes row by row, in the order of the *)
(* tables.  There is no transaction: every write is final at once, a write *)
(* that fails ends its list and not the commit, and a crash leaves the     *)
(* rows written so far.                                                    *)
(*                                                                         *)
(* A row is its revision, its parents (a sequence of <<table, id>>) and    *)
(* the members the operations tell apart.  The four states of a key are    *)
(* one row.  A row that a thread adds has a negative id until it is        *)
(* written.  KeyFactory and Sessions say what the threads do.              *)
(***************************************************************************)
EXTENDS Integers, SequencesExt, TLC

CONSTANTS
  NumThreads, \* worker and command threads
  Revisions   \* how many revisions a row can have, 2^32 in the code

ASSUME DbwAssumption == NumThreads \in Nat \ {0} /\ Revisions \in Nat \ {0, 1}

VARIABLES
  db,     \* the tables: table -> id -> row
  lastId, \* table -> the last id given out (AUTOINCREMENT never reuses one)
  sess,   \* what every thread is doing
  writer, \* the thread that holds db_lock for writing, 0 for none
  faults  \* how many more times a write may fail or the process may crash

dbVars == <<db, lastId, sess, writer, faults>>

Threads == 1..NumThreads

\* Mutant: the keys are written before the HSM keys they name.
CommitOrder_keysfirst == <<"policy", "policykey", "zone", "key", "hsmkey",
                           "keystate", "keydependency">>

(* The order in which dbw_commit writes the lists.                         *)
CommitOrder == <<"policy", "policykey", "zone", "hsmkey", "key", "keystate",
                 "keydependency">>

TableNames == ToSet(CommitOrder)

Rank == [t \in TableNames |-> CHOOSE i \in DOMAIN CommitOrder : CommitOrder[i] = t]

Idle == [step |-> "idle"]

-----------------------------------------------------------------------------
(* Reading                                                                 *)

Exists(d, ref) == ref[2] \in DOMAIN d[ref[1]]

(* The rows of table t linked to a parent by merge().                      *)
Children(d, t, ref) == {i \in DOMAIN d[t] : ref \in ToSet(d[t][i].up)}

Orphans(d, t) == {i \in DOMAIN d[t] : \E r \in ToSet(d[t][i].up) : ~Exists(d, r)}

(* merge() walks the parents and the children in the order of the parents' *)
(* ids.  A child whose parent is missing is noticed when a parent with a   *)
(* larger id comes, and asserted not to exist; after the last parent the   *)
(* remaining children just stay unlinked.                                  *)
merge(d, t) ==
  \A i \in DOMAIN d[t] : \A r \in ToSet(d[t][i].up) :
    ~Exists(d, r) => \A j \in DOMAIN d[r[1]] : j < r[2]

dbw_fetch(d) == \A t \in TableNames : merge(d, t)

-----------------------------------------------------------------------------
(* Writing                                                                 *)

(* A row marked dirty: what happens to it and its members.                 *)
Dirty(kind, t, id, up, val) ==
  [kind |-> kind, table |-> t, id |-> id, up |-> up, val |-> val]

Update(s, t, id, val) == Dirty("UPDATE", t, id, s[t][id].up, val)

Delete(s, t, id) == Dirty("DELETE", t, id, s[t][id].up, s[t][id].val)

(* The order of the lists: rows that were read by id, new rows at the end  *)
(* in the order they were added.                                           *)
Before(v, w) ==
  IF Rank[v.table] # Rank[w.table] THEN Rank[v.table] < Rank[w.table]
  ELSE IF (v.id < 0) # (w.id < 0) THEN w.id < 0
  ELSE IF v.id < 0 THEN v.id > w.id ELSE v.id < w.id

\* Mutant: revisions are not compared.
dbw_verify_unchecked(p) == TRUE

(* dbw_verify_revisions: the row of every UPDATE has the revision it had   *)
(* when the thread read it; a row that is gone has revision -1.            *)
dbw_verify_revisions(p) ==
  \A w \in DOMAIN sess[p].revs :
    Exists(db, <<w.table, w.id>>) /\ db[w.table][w.id].rev = sess[p].revs[w]

(* The members are written from the linked parents, whose ids are known by *)
(* now if they were just inserted.                                         *)
Resolved(p, up) ==
  [i \in DOMAIN up |->
     IF up[i][2] > 0 THEN up[i]
     ELSE <<up[i][1], IF up[i] \in DOMAIN sess[p].new THEN sess[p].new[up[i]] ELSE 0>>]

(* dbw_X_update asserts that the parents are no longer dirty, for a        *)
(* dependency only its zone.                                               *)
Asserted(p, w) ==
  w.kind # "DELETE" =>
    \A r \in ToSet(w.up) :
      (w.table = "keydependency" => r[1] = "zone") =>
        ~\E v \in sess[p].failed : v.table = r[1] /\ v.id = r[2]

Row(rev, up, val) == [rev |-> rev, up |-> up, val |-> val]

WithoutRow(f, id) == [i \in DOMAIN f \ {id} |-> f[i]]

(* What X_create, X_update and X_delete do to the database.                *)
Written(p, w) ==
  LET up == Resolved(p, w.up) IN
  CASE w.kind = "INSERT" ->
         [db EXCEPT ![w.table] = @ @@ (lastId[w.table] + 1 :> Row(1, up, w.val))]
    [] w.kind = "UPDATE" ->
         [db EXCEPT ![w.table][w.id] = Row((@.rev + 1) % Revisions, up, w.val)]
    [] OTHER -> [db EXCEPT ![w.table] = WithoutRow(@, w.id)]

(* The row to write next, and what remains of its list.                    *)
NextRow(todo) == CHOOSE w \in todo : \A v \in todo \ {w} : Before(w, v)

ListOf(w, todo) == {v \in todo : v.table = w.table}

VerifyDb(p) ==
  /\ sess[p].step = "ready"
  /\ IF dbw_verify_revisions(p)
     THEN /\ writer' = p
          /\ sess' = [sess EXCEPT ![p] =
               [step |-> "commit", op |-> @.op, arg |-> @.arg, failed |-> {},
                new |-> <<>>, todo |-> @.writes]]
     ELSE sess' = [sess EXCEPT ![p] = Idle] /\ UNCHANGED writer
  /\ UNCHANGED <<db, lastId, faults>>

(* dbw_commit takes the lock and verifies, or gives up.                    *)
LockDb(p) == writer = 0 /\ VerifyDb(p)

(* dbw_commit_list writes the next row.                                    *)
WriteRow(p, w) ==
  /\ Asserted(p, w)
  /\ w.kind # "INSERT" => Exists(db, <<w.table, w.id>>)
  /\ db' = Written(p, w)
  /\ lastId' = IF w.kind = "INSERT" THEN [lastId EXCEPT ![w.table] = @ + 1] ELSE lastId
  /\ sess' = [sess EXCEPT ![p].todo = @ \ {w},
                          ![p].new = IF w.kind = "INSERT"
                                     THEN @ @@ (<<w.table, w.id>> :> lastId'[w.table]) ELSE @]
  /\ UNCHANGED <<writer, faults>>

(* Its write fails, because the row is gone or the database gives an       *)
(* error, and the rest of the list stays dirty.                            *)
WriteFails(p, w) ==
  /\ Asserted(p, w)
  /\ \/ w.kind # "INSERT" /\ ~Exists(db, <<w.table, w.id>>) /\ UNCHANGED faults
     \/ faults > 0 /\ faults' = faults - 1
  /\ sess' = [sess EXCEPT ![p].todo = @ \ ListOf(w, @),
                          ![p].failed = @ \union ListOf(w, sess[p].todo)]
  /\ UNCHANGED <<db, lastId, writer>>

UnlockDb(p) ==
  /\ writer' = 0
  /\ sess' = [sess EXCEPT ![p] = Idle]
  /\ UNCHANGED <<db, lastId, faults>>

(* The process is gone, and with it all copies; the rows are what they are. *)
Stopped ==
  /\ writer' = 0
  /\ sess' = [p \in Threads |-> Idle]
  /\ UNCHANGED <<db, lastId>>

=============================================================================
