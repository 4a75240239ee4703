----------------------------- MODULE CommitLog ------------------------------
(***************************************************************************)
(* The commit log of a zone (signer/src/views/commitlog.c) and the way the *)
(* views of the zone use it: updateview(), names_viewcommit(),             *)
(* names_viewreset(), names_viewpersist() and names_viewrestore() of       *)
(* signer/src/views/views.c.                                               *)
(*                                                                         *)
(* Committed change tables are a linked list.  Log l is the l-th commit.   *)
(* Every view has a pointer to the place that holds the next table it has  *)
(* to process: Head is &firstchangelog, l is &l->next.  Each call of       *)
(* names_commitlogpoppush() is one critical section of the list's mutex;   *)
(* the table it returns is processed after the mutex is released.          *)
(***************************************************************************)
EXTENDS Integers, FiniteSets

CONSTANTS
  Views,       \* the views of the zone
  Base,        \* zone->baseview, which writes the state file
  Input,       \* the view into which zones are read
  Records,     \* the records of the zone
  KeyOf,       \* KeyOf[v][r]: the key of record r in the primary index of v
  MaxCommits   \* bound: commits in a behaviour

ASSUME CommitLogAssumption ==
  /\ Base \in Views
  /\ Input \in Views
  /\ \E v \in Views : v # Base

Null == 0
Head == 0
NoFile == [exists |-> FALSE, snapshot |-> 0, journal |-> {}]

VARIABLES
  discipline,       \* "reset": views are used under the zone lock, after a
                    \* reset; "read": the input view is used without one;
                    \* "overlap": HTTP, DNS and worker threads overlap
  holder,           \* the view, if any, of the task that has the zone lock
  daemon,           \* "up", or "aborted" by an assertion or a wild read
  firstchangelog, lastchangelog, next, freed,
  nextchangelogptr,
  commits, table,   \* how many tables were committed, and their records
  unsaved,          \* the records of a table without a new content to write:
                    \* amended in place, or removed (settled when the view
                    \* was changed, and chosen here by the commit)
  pc, op, current,  \* where a view is, for what, and its local changelog
  changelog, conflict, applied, since,
  file, tmp, store  \* the state file, its successor, the open handle

list == <<firstchangelog, lastchangelog, next, freed, nextchangelogptr>>
history == <<commits, table, unsaved>>
local == <<pc, op, current, changelog, conflict, applied, since>>
disk == <<file, tmp, store>>
vars == <<discipline, holder, daemon, list, history, local, disk>>

Init ==
  /\ discipline \in {"reset", "read", "overlap"}
  /\ holder = {}
  /\ daemon = "up"
  /\ commits = 0 /\ table = [l \in 1..0 |-> {}] /\ unsaved = [l \in 1..0 |-> {}]
  /\ firstchangelog = Null /\ lastchangelog = Null
  /\ next = [l \in 1..0 |-> Null] /\ freed = 1..0
  /\ nextchangelogptr = [v \in Views |-> Head]
  /\ pc = [v \in Views |-> "idle"]
  /\ op = [v \in Views |-> "none"]
  /\ current = [v \in Views |-> Null]
  /\ changelog = [v \in Views |-> {}]
  /\ conflict = [v \in Views |-> FALSE]
  /\ applied = [v \in Views |-> 0]
  /\ since = [v \in Views |-> 0]
  /\ file = NoFile /\ tmp = NoFile /\ store = "none"

-----------------------------------------------------------------------------
(* The users of the views                                                  *)

\* a task has the zone lock; threads without one do not care who has it
MayUse(v) == discipline = "overlap" \/ holder \subseteq {v}
Holds(v) == discipline = "overlap" \/ holder = {v}

Idle(v) == daemon = "up" /\ pc[v] = "idle"

\* the task ends, with or without a commit
Leave(v) ==
  /\ Idle(v) /\ holder = {v}
  /\ holder' = {}
  /\ UNCHANGED <<discipline, daemon, list, history, local, disk>>

Enter(v, what) ==
  /\ Idle(v)
  /\ pc' = [pc EXCEPT ![v] = "update"]
  /\ op' = [op EXCEPT ![v] = what]
  /\ current' = [current EXCEPT ![v] = Null]
  /\ conflict' = [conflict EXCEPT ![v] = FALSE]
  /\ holder' = IF discipline = "overlap" THEN holder ELSE {v}
  /\ UNCHANGED <<discipline, daemon, list, history, applied, disk>>

\* names_viewreset(), or the reset that do_outputstatefile() starts with
Reset(v, what) ==
  /\ MayUse(v)
  /\ what = "statefile" => v = Base
  /\ Enter(v, what)
  /\ UNCHANGED <<changelog, since>>

committing == {u \in Views : op[u] = "commit" /\ pc[u] \in {"update", "apply"}}

\* a reset goes before the changes, but tools_input() makes none
synchronised(v) == Holds(v) \/ (discipline = "read" /\ v = Input /\ MayUse(v))

\* the user has called names_place(), names_remove(), names_amend()... for
\* some records, which nobody sees, and now names_viewcommit()
Commit(v) ==
  /\ synchronised(v)
  /\ commits + Cardinality(committing) < MaxCommits
  /\ Enter(v, "commit")
  /\ \E changes \in SUBSET Records :
       changelog' = [changelog EXCEPT ![v] = changes]
  /\ since' = [since EXCEPT ![v] = applied[v]]

-----------------------------------------------------------------------------
(* names_commitlogpoppush(viewid, &changelog, mychangelog)                 *)

Deref(p) == IF p = Head THEN firstchangelog ELSE next[p]

poppedlog(v) == Deref(nextchangelogptr[v])

moved(v) == [nextchangelogptr EXCEPT ![v] =
               IF poppedlog(v) # Null THEN poppedlog(v) ELSE @]

\* the release looks at the caller's own pointer only
release_own(v) ==
  /\ current[v] # Null /\ current[v] = firstchangelog
  /\ moved(v)[v] # Head

\* a table is released only when there is no other to take
release_idle(v) ==
  /\ current[v] # Null /\ current[v] = firstchangelog
  /\ \A u \in Views : moved(v)[u] # Head
  /\ poppedlog(v) = Null

\* the table the caller processed is the first, and no view has yet to see it
releases(v) ==
  /\ current[v] # Null /\ current[v] = firstchangelog
  /\ \A u \in Views : moved(v)[u] # Head

\* the pointers into the released table are left alone
stale_ptrs(v) == moved(v)

ptrs(v) ==
  IF releases(v)
  THEN [u \in Views |-> IF moved(v)[u] = firstchangelog THEN Head
                        ELSE moved(v)[u]]
  ELSE moved(v)

first(v) == IF releases(v) THEN next[firstchangelog] ELSE firstchangelog

last(v) ==
  IF releases(v) /\ lastchangelog = firstchangelog
  THEN next[firstchangelog] ELSE lastchangelog

Release(v) ==
  freed' = IF releases(v) THEN freed \cup {firstchangelog} ELSE freed

\* mychangelog is NULL in a reset and after a conflict
submits(v) == op[v] = "commit" /\ ~ conflict[v]

Call(v) == daemon = "up" /\ pc[v] = "update"

Pop(v) ==
  /\ Call(v)
  /\ poppedlog(v) # Null
  /\ current' = [current EXCEPT ![v] = poppedlog(v)]
  /\ pc' = [pc EXCEPT ![v] = "apply"]
  /\ nextchangelogptr' = ptrs(v)
  /\ firstchangelog' = first(v) /\ lastchangelog' = last(v)
  /\ Release(v)
  /\ UNCHANGED <<discipline, holder, daemon, next, history, op, changelog,
                 conflict, applied, since, disk>>

\* names_commitlogpersistincr() with persistfn(), which leaves out what was
\* amended and writes an end mark for what was removed
journal_add(l, records) ==
  /\ file' = IF store = "file"
             THEN [file EXCEPT !.journal = @ \cup ({l} \X records)] ELSE file
  /\ tmp' = IF store = "tmp"
            THEN [tmp EXCEPT !.journal = @ \cup ({l} \X records)] ELSE tmp

\* the changes join the list behind its last table
linked(v) ==
  [l \in 1..(commits + 1) |->
     IF l = commits + 1 THEN Null
     ELSE IF first(v) # Null /\ l = last(v) THEN commits + 1
     ELSE next[l]]

may_push(v) == submits(v) /\ poppedlog(v) = Null

Push(v) ==
  /\ Call(v)
  /\ may_push(v)
  /\ firstchangelog' = IF first(v) = Null THEN commits + 1 ELSE first(v)
  /\ lastchangelog' = commits + 1
  /\ next' = linked(v)
  /\ nextchangelogptr' = [ptrs(v) EXCEPT ![v] = commits + 1]
  /\ Release(v)
  /\ commits' = commits + 1
  /\ table' = [l \in 1..(commits + 1) |->
                 IF l = commits + 1 THEN changelog[v] ELSE table[l]]
  /\ \E quiet \in SUBSET changelog[v] :
       /\ unsaved' = [l \in 1..(commits + 1) |->
                        IF l = commits + 1 THEN quiet ELSE unsaved[l]]
       /\ journal_add(commits + 1, changelog[v] \ quiet)
  /\ changelog' = [changelog EXCEPT ![v] = {}]
  /\ current' = [current EXCEPT ![v] = commits + 1]
  /\ applied' = [applied EXCEPT ![v] = commits + 1]
  /\ pc' = [pc EXCEPT ![v] = "submit"]
  /\ since' = [since EXCEPT ![v] = 0]
  /\ UNCHANGED <<discipline, holder, daemon, op, conflict, store>>

Return(v) ==
  /\ pc' = [pc EXCEPT ![v] = "idle"]
  /\ op' = [op EXCEPT ![v] = "none"]

\* nothing left to process: updateview() returns, and names_viewcommit()
\* asserts that there was no conflict
Done(v) ==
  /\ Call(v)
  /\ poppedlog(v) = Null /\ ~ submits(v)
  /\ current' = [current EXCEPT ![v] = Null]
  /\ nextchangelogptr' = ptrs(v)
  /\ firstchangelog' = first(v) /\ lastchangelog' = last(v)
  /\ Release(v)
  /\ \/ /\ op[v] = "commit"
        /\ daemon' = "aborted"
        /\ UNCHANGED <<pc, op>>
     \/ /\ op[v] \in {"reset", "statefile"}
        /\ op[v] = "statefile" => file.exists
        /\ Return(v)
        /\ UNCHANGED daemon
     \/ /\ op[v] = "statefile" /\ ~ file.exists
        /\ op' = [op EXCEPT ![v] = "persist"]
        /\ UNCHANGED <<pc, daemon>>
     \/ /\ op[v] = "persist"
        /\ pc' = [pc EXCEPT ![v] = "snapshot"]
        /\ UNCHANGED <<op, daemon>>
  /\ UNCHANGED <<discipline, holder, next, history, changelog, conflict,
                 applied, since, disk>>

-----------------------------------------------------------------------------
(* updateview(): the table is iterated without the mutex                   *)

\* it has been destroyed, or its author still rewrites its entries
Unstable(l) ==
  l \in freed \/ \E u \in Views : pc[u] = "submit" /\ current[u] = l

\* only the same record is a conflict
same_record(v, l) == changelog[v] \cap table[l] # {}

\* names_tableget(view->changelog, change->record) for some change of l
Clash(v, l) ==
  \E r \in changelog[v], s \in table[l] : KeyOf[v][r] = KeyOf[v][s]

forget_changes(v) ==
  /\ conflict' = [conflict EXCEPT ![v] = TRUE]
  /\ changelog' = [changelog EXCEPT ![v] = {}]

Apply(v) ==
  /\ daemon = "up" /\ pc[v] = "apply"
  /\ IF Clash(v, current[v]) THEN forget_changes(v)
     ELSE UNCHANGED <<conflict, changelog>>
  /\ applied' = [applied EXCEPT ![v] = current[v]]
  /\ pc' = [pc EXCEPT ![v] = "update"]
  /\ UNCHANGED <<discipline, holder, daemon, list, history, op, current,
                 since, disk>>

\* the view's own table: its other indices, and the records it removed
Submit(v) ==
  /\ daemon = "up" /\ pc[v] = "submit"
  /\ Return(v)
  /\ current' = [current EXCEPT ![v] = Null]
  /\ UNCHANGED <<discipline, holder, daemon, list, history, changelog,
                 conflict, applied, since, disk>>

\* a table that changes or is gone while it is iterated may kill the daemon
ReadFails(v) ==
  /\ daemon = "up"
  /\ \/ pc[v] = "apply" /\ Unstable(current[v])
     \/ pc[v] = "submit" /\ current[v] \in freed
  /\ daemon' = "aborted"
  /\ UNCHANGED <<discipline, holder, list, history, local, disk>>

-----------------------------------------------------------------------------
(* names_viewpersist(), a crash, and zone_start() with names_viewrestore() *)

\* the primary index of the base view is written to a temporary file
Snapshot ==
  /\ daemon = "up" /\ pc[Base] = "snapshot"
  /\ tmp' = [exists |-> TRUE, snapshot |-> applied[Base], journal |-> {}]
  /\ pc' = [pc EXCEPT ![Base] = "full"]
  /\ UNCHANGED <<discipline, holder, daemon, list, history, op, current,
                 changelog, conflict, applied, since, file, store>>

\* the table and those behind it: what is in every set of tables that the
\* walk along the links does not leave
tables_from(first_table) ==
  {l \in 1..commits :
     \A walked \in SUBSET (0..commits) :
       /\ first_table \in walked
       /\ \A k \in walked : k # Null => next[k] \in walked
       => l \in walked}

\* only the handle is exchanged
no_backlog == {}

backlog == tables_from(poppedlog(Base))

\* what is written for a set of tables: the new records, and of the removed ones
\* those that the author's submit has put back into the table by then
journals(tables) ==
  {written \in SUBSET {e \in tables \X Records : e[2] \in table[e[1]]} :
     \A l \in tables : \A r \in table[l] \ unsaved[l] : <<l, r>> \in written}

\* names_commitlogpersistfull(): what was committed since, under the mutex
PersistFull ==
  /\ daemon = "up" /\ pc[Base] = "full"
  /\ tmp' \in {[tmp EXCEPT !.journal = written] : written \in journals(backlog)}
  /\ store' = "tmp"
  /\ pc' = [pc EXCEPT ![Base] = "rename"]
  /\ UNCHANGED <<discipline, holder, daemon, list, history, op, current,
                 changelog, conflict, applied, since, file>>

Rename ==
  /\ daemon = "up" /\ pc[Base] = "rename"
  /\ file' = tmp /\ tmp' = NoFile
  /\ store' = "file"
  /\ Return(Base)
  /\ UNCHANGED <<discipline, holder, daemon, list, history, current,
                 changelog, conflict, applied, since>>

\* names_viewrestore() stops at the end of the snapshot; what is appended
\* from now on takes the place of the journal
restored == IF file.exists THEN file.snapshot ELSE 0

\* names_viewcreate() of every view: a copy of the base view, subscribed
Recreate(n) ==
  /\ firstchangelog' = Null /\ lastchangelog' = Null
  /\ next' = [l \in 1..n |-> Null] /\ freed' = 1..n
  /\ nextchangelogptr' = [v \in Views |-> Head]
  /\ pc' = [v \in Views |-> "idle"]
  /\ op' = [v \in Views |-> "none"]
  /\ current' = [v \in Views |-> Null]
  /\ changelog' = [v \in Views |-> {}]
  /\ conflict' = [v \in Views |-> FALSE]
  /\ applied' = [v \in Views |-> n]
  /\ since' = [v \in Views |-> 0]

\* the daemon dies at any moment, or has aborted, and is started again; nobody
\* reads a temporary file that was left behind, and the next one replaces it
Restart ==
  /\ daemon' = "up" /\ holder' = {}
  /\ \E n \in {restored} :
       /\ commits' = n
       /\ table' = [l \in 1..n |-> table[l]]
       /\ unsaved' = [l \in 1..n |-> unsaved[l]]
       /\ Recreate(n)
  /\ file' = [file EXCEPT !.journal = {}] /\ tmp' = NoFile
  /\ store' = IF file.exists THEN "file" ELSE "none"
  /\ UNCHANGED discipline

Use(v) ==
  \/ \E what \in {"reset", "statefile"} : Reset(v, what)
  \/ Commit(v)
  \/ Leave(v)

Update(v) == Pop(v) \/ Push(v) \/ Done(v) \/ Apply(v) \/ Submit(v) \/ ReadFails(v)

Next ==
  \/ \E v \in Views : Use(v) \/ Update(v)
  \/ Snapshot \/ PersistFull \/ Rename
  \/ Restart

Spec == Init /\ [][Next]_vars

-----------------------------------------------------------------------------
(* Properties                                                              *)

Logs == 1..commits
States == {"idle", "update", "apply", "submit", "snapshot", "full", "rename"}
Ops == {"none", "reset", "statefile", "persist", "commit"}

Files == [exists : BOOLEAN, snapshot : Nat, journal : SUBSET (Nat \X Records)]

\* The variables have their types; a log is known by its number.
TypeOK ==
  /\ discipline \in {"reset", "read", "overlap"}
  /\ holder \in SUBSET Views
  /\ daemon \in {"up", "aborted"}
  /\ commits \in Nat
  /\ firstchangelog \in 0..commits /\ lastchangelog \in 0..commits
  /\ next \in [Logs -> 0..commits]
  /\ freed \in SUBSET Logs
  /\ nextchangelogptr \in [Views -> 0..commits]
  /\ table \in [Logs -> SUBSET Records]
  /\ unsaved \in [Logs -> SUBSET Records]
  /\ pc \in [Views -> States]
  /\ op \in [Views -> Ops]
  /\ current \in [Views -> 0..commits]
  /\ changelog \in [Views -> SUBSET Records]
  /\ conflict \in [Views -> BOOLEAN]
  /\ applied \in [Views -> 0..commits]
  /\ since \in [Views -> 0..commits]
  /\ file \in Files /\ tmp \in Files
  /\ store \in {"none", "tmp", "file"}

\* The list holds exactly the tables that are not destroyed, in the order of
\* their commits, and firstchangelog and lastchangelog are its ends: what the
\* two assertions of names_commitlogpoppush() rely on.
ChainOK ==
  /\ firstchangelog = Null => lastchangelog = Null /\ freed = Logs
  /\ firstchangelog # Null =>
       lastchangelog = commits /\ freed = 1..(firstchangelog - 1)
  /\ \A l \in Logs \ freed : next[l] = IF l = commits THEN Null ELSE l + 1

\* the last table the view has taken from the list
Taken(v) == IF pc[v] = "apply" THEN current[v] ELSE applied[v]

\* No view keeps a pointer into a destroyed table, and its pointer leads to
\* the table that follows the last one it took, if there is one.
PointersAlive ==
  \A v \in Views :
    /\ nextchangelogptr[v] # Head => nextchangelogptr[v] \notin freed
    /\ poppedlog(v) = IF Taken(v) = commits THEN Null ELSE Taken(v) + 1

\* A table that every view has passed does not stay behind: the first table
\* of the list is still ahead of some view, or one that processes it will
\* release it by its next call.
Reclaimed ==
  firstchangelog # Null =>
    \E v \in Views :
      \/ nextchangelogptr[v] = Head
      \/ current[v] = firstchangelog /\ pc[v] \in {"apply", "update"}

\* A commit never silently overwrites one its author had not seen when it
\* made its changes: the two have no key of the author's index in common.
NoLostUpdate ==
  [][\A v \in Views : Push(v) =>
       \A m \in (since[v] + 1)..commits :
         \A r \in changelog[v], s \in table[m] : KeyOf[v][r] # KeyOf[v][s]]_vars

\* While tasks use the views one after the other under the zone lock, and each
\* resets its view before it changes it, no commit meets a conflict, so the
\* assertion of names_viewcommit() never ends the daemon, and no table is
\* destroyed or rewritten while it is iterated.
TasksSucceed == discipline = "reset" => daemon # "aborted"

\* A thread that incorporates a changelog in its view works on one that
\* exists.
TablesAlive ==
  \A v \in Views : pc[v] \in {"apply", "submit"} => current[v] \notin freed

\* the journal of f has every new record of the tables behind the snapshot,
\* under its table, and nothing that the snapshot has
Journalled(f) ==
  /\ f.snapshot \in 0..commits
  /\ \A l \in (f.snapshot + 1)..commits :
       \A r \in table[l] \ unsaved[l] : <<l, r>> \in f.journal
  /\ \A e \in f.journal : e[1] \in (f.snapshot + 1)..commits /\ e[2] \in table[e[1]]

\* Once the state file is in place the snapshot and the journal in it hold
\* every new record of every commit, also of those made between the snapshot
\* and the rename, and none twice.  What a task amends in place, such as the
\* signatures, is only in the next snapshot (persistfn(), views.c:577), and
\* names_viewrestore() reads no journal back.
JournalComplete ==
  /\ store = "file" => Journalled(file)
  /\ store = "tmp" => Journalled(tmp)

\* Every view learns the same sequence of commits in order and without gaps,
\* a commit is appended only by a view that has learned all others, and a
\* restart goes back to a prefix of the sequence.
Log == INSTANCE SharedLog WITH Views <- Views, Records <- Records,
         commits <- commits, table <- table, applied <- applied
SharedLogSpec == Log!Spec
=============================================================================
