------------------------------ MODULE SharedLog ------------------------------
(***************************************************************************)
(* What the commit log of a zone promises to the views that share it: one  *)
(* sequence of committed change tables, numbered from 1, that every view   *)
(* learns in the same order without a gap; a view appends a table only     *)
(* when it has learned all the others; and a daemon that is started again  *)
(* goes on from a prefix of what was committed.                            *)
(*                                                                         *)
(* The pointer structure of commitlog.c and the loop of updateview() are   *)
(* in CommitLog, which implements this specification.                      *)
(***************************************************************************)
EXTENDS Integers

CONSTANTS Views, Records

VARIABLES
  commits,   \* how many tables have been committed
  table,     \* table[n]: the records the n-th commit changes
  applied    \* applied[v]: view v has learned the commits 1..applied[v]

vars == <<commits, table, applied>>

Init ==
  /\ commits = 0
  /\ table = [n \in 1..0 |-> {}]
  /\ applied = [v \in Views |-> 0]

\* a view takes over the next commit it has not seen
Learn(v) ==
  /\ applied[v] < commits
  /\ applied' = [applied EXCEPT ![v] = @ + 1]
  /\ UNCHANGED <<commits, table>>

\* an up-to-date view commits its changes, which itself has applied already
Append(v) ==
  /\ applied[v] = commits
  /\ commits' = commits + 1
  /\ \E changes \in SUBSET Records :
       table' = [n \in 1..(commits + 1) |->
                   IF n = commits + 1 THEN changes ELSE table[n]]
  /\ applied' = [applied EXCEPT ![v] = commits + 1]

\* the views are created anew from what was saved
Restart ==
  \E kept \in 0..commits :
    /\ commits' = kept
    /\ table' = [n \in 1..kept |-> table[n]]
    /\ applied' = [v \in Views |-> kept]

Next == (\E v \in Views : Learn(v) \/ Append(v)) \/ Restart

Spec == Init /\ [][Next]_vars
==============================================================================
