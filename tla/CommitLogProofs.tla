-------------------------- MODULE CommitLogProofs ---------------------------
(***************************************************************************)
(* For any set of views, any records and any number of commits: the commit *)
(* log keeps its list in order, no view points into a destroyed table, and *)
(* CommitLog implements SharedLog.  From the order of the list follows     *)
(* what the views rely on: no update is lost, every table is reclaimed,    *)
(* tasks that take turns never abort, and the state file has every commit. *)
(***************************************************************************)
EXTENDS CommitLog, WellFoundedInduction, TLAPS

USE DEF Null, Head

\* where each view is relative to the list
Position ==
  \A v \in Views :
    /\ pc[v] = "apply" => current[v] = applied[v] + 1
    /\ pc[v] = "update" => current[v] = Null \/ current[v] = applied[v]
    /\ nextchangelogptr[v] = Head =>
         Taken(v) = (IF firstchangelog = Null THEN commits
                     ELSE firstchangelog - 1)
    /\ nextchangelogptr[v] # Head =>
         nextchangelogptr[v] = Taken(v) /\ nextchangelogptr[v] \notin freed

\* only the base view writes files, and what it wrote has been committed
Saved ==
  /\ file.exists => file.snapshot <= commits
  /\ pc[Base] \in {"full", "rename"} => tmp.snapshot <= commits

ListInv == TypeOK /\ ChainOK /\ Position

LEMMA ListInit == Init => ListInv
<1>1. Init => TypeOK
  BY CommitLogAssumption DEF Init, TypeOK, Logs, States, Ops, Files, NoFile
<1>2. Init => ChainOK
  BY Zenon DEF Init, ChainOK, Logs
<1>3. Init => Position
  BY Zenon DEF Init, Position, Taken
<1> QED BY <1>1, <1>2, <1>3, Zenon DEF ListInv

\* The pointer of a view leads to the table behind the last one it took.
LEMMA Popped ==
  ASSUME ListInv, NEW v \in Views
  PROVE  /\ poppedlog(v) = IF Taken(v) = commits THEN Null ELSE Taken(v) + 1
         /\ poppedlog(v) # Null => poppedlog(v) \in Logs \ freed
         /\ Taken(v) \in 0..commits
<1>1. Taken(v) \in 0..commits
  BY Zenon DEF ListInv, TypeOK, Taken
<1>2. CASE nextchangelogptr[v] = Head
  BY <1>1, <1>2 DEF ListInv, TypeOK, ChainOK, Position, poppedlog, Deref, Logs
<1>3. CASE nextchangelogptr[v] # Head
  <2>1. /\ nextchangelogptr[v] = Taken(v) /\ Taken(v) \in Logs \ freed
    BY <1>1, <1>3 DEF ListInv, TypeOK, Position, Logs
  <2>2. poppedlog(v) = IF Taken(v) = commits THEN Null ELSE Taken(v) + 1
    BY <1>3, <2>1, Zenon DEF poppedlog, Deref, ListInv, ChainOK
  <2>3. Taken(v) # commits => Taken(v) + 1 \in Logs \ freed
    BY <2>1 DEF ListInv, TypeOK, ChainOK, Logs
  <2> QED BY <1>1, <2>2, <2>3, Zenon DEF TypeOK, ListInv
<1> QED BY <1>2, <1>3, Zenon

freed_after(v) == IF releases(v) THEN freed \cup {firstchangelog} ELSE freed
taken_after(v, u) ==
  IF u = v /\ poppedlog(v) # Null THEN poppedlog(v) ELSE Taken(u)

\* The list and the pointers as a call of names_commitlogpoppush() leaves
\* them, before a table is added.
LEMMA Called ==
  ASSUME ListInv, NEW v \in Views, pc[v] = "update"
  PROVE  /\ ptrs(v) \in [Views -> 0..commits]
         /\ first(v) \in 0..commits /\ last(v) \in 0..commits
         /\ first(v) = Null => last(v) = Null /\ freed_after(v) = Logs
         /\ first(v) # Null =>
              last(v) = commits /\ freed_after(v) = 1..(first(v) - 1)
         /\ freed \subseteq freed_after(v) /\ freed_after(v) \subseteq Logs
         /\ \A u \in Views :
              /\ taken_after(v, u) \in 0..commits
              /\ ptrs(v)[u] = Head =>
                   taken_after(v, u) = IF first(v) = Null THEN commits
                                       ELSE first(v) - 1
              /\ ptrs(v)[u] # Head =>
                   /\ ptrs(v)[u] = taken_after(v, u)
                   /\ ptrs(v)[u] \notin freed_after(v)
<1>1. poppedlog(v) \in 0..commits
  BY Popped DEF ListInv, TypeOK, Logs
<1>2. /\ moved(v) \in [Views -> 0..commits]
      /\ \A u \in Views :
           /\ u # v => moved(v)[u] = nextchangelogptr[u]
           /\ moved(v)[v] = IF poppedlog(v) # Null THEN poppedlog(v)
                            ELSE nextchangelogptr[v]
  BY <1>1, Zenon DEF moved, ListInv, TypeOK
<1>3. \A u \in Views : Taken(u) \in 0..commits
  BY Popped, Zenon
<1>4. \A u \in Views :
        /\ taken_after(v, u) \in 0..commits
        /\ moved(v)[u] = Head =>
             taken_after(v, u) = IF firstchangelog = Null THEN commits
                                 ELSE firstchangelog - 1
        /\ moved(v)[u] # Head =>
             moved(v)[u] = taken_after(v, u) /\ moved(v)[u] \notin freed
  BY <1>1, <1>2, <1>3, Popped DEF taken_after, ListInv, Position
<1>5. CASE ~ releases(v)
  <2>1. /\ ptrs(v) = moved(v) /\ first(v) = firstchangelog
        /\ last(v) = lastchangelog /\ freed_after(v) = freed
    BY <1>5, Zenon DEF ptrs, first, last, freed_after
  <2> QED BY <2>1, <1>2, <1>4, Zenon DEF ListInv, TypeOK, ChainOK
<1>6. CASE releases(v)
  <2>1. /\ firstchangelog \in Logs /\ firstchangelog \notin freed
        /\ freed = 1..(firstchangelog - 1) /\ lastchangelog = commits
        /\ commits \in Nat /\ freed \subseteq Logs
    BY <1>6 DEF releases, ListInv, TypeOK, ChainOK, Logs
  <2>2. /\ first(v) = IF firstchangelog = commits THEN Null
                     ELSE firstchangelog + 1
        /\ last(v) = IF firstchangelog = commits THEN Null ELSE commits
        /\ freed_after(v) = 1..firstchangelog
    BY <1>6, <2>1 DEF first, last, freed_after, ListInv, ChainOK, Logs
  <2>3. \A u \in Views : ptrs(v)[u] = IF moved(v)[u] = firstchangelog
                                      THEN Head ELSE moved(v)[u]
    BY <1>6, Zenon DEF ptrs
  <2>4. \A u \in Views : moved(v)[u] # Head
    BY <1>6, Zenon DEF releases
  <2>5. \A u \in Views :
          /\ ptrs(v)[u] = Head =>
               taken_after(v, u) = IF first(v) = Null THEN commits
                                   ELSE first(v) - 1
          /\ ptrs(v)[u] # Head =>
               /\ ptrs(v)[u] = taken_after(v, u)
               /\ ptrs(v)[u] \notin freed_after(v)
    BY <1>2, <1>4, <2>1, <2>2, <2>3, <2>4 DEF Logs
  <2>6. ptrs(v) \in [Views -> 0..commits]
    BY <1>2, <1>6, <2>1 DEF ptrs
  <2> QED BY <1>4, <2>1, <2>2, <2>5, <2>6 DEF Logs
<1> QED BY <1>5, <1>6, Zenon

\* A view that pushes has processed every table.
LEMMA UpToDate ==
  ASSUME ListInv, NEW v \in Views, Push(v)
  PROVE  applied[v] = commits
<1>1. pc[v] = "update" /\ poppedlog(v) = Null /\ commits \in Nat
  BY Zenon DEF Push, Call, may_push, ListInv, TypeOK
<1> QED BY <1>1, Popped DEF Taken

\* A restart goes back to commits that were made.
LEMMA Restored ==
  ASSUME ListInv, Saved
  PROVE  restored \in 0..commits
BY DEF ListInv, TypeOK, Files, Saved, restored

\* Every step keeps the list in order and the pointers in place.
LEMMA ListStep ==
  ASSUME ListInv, Saved, [Next]_vars
  PROVE  ListInv'
<1> USE DEF ListInv
<1>1. ASSUME NEW v \in Views, NEW what \in Ops,
             Enter(v, what), since' \in [Views -> 0..commits],
             changelog' \in [Views -> SUBSET Records]
      PROVE  ListInv'
  <2>1. TypeOK'
    <3>1. holder' \in SUBSET Views
      BY <1>1, Zenon DEF Enter, TypeOK
    <3>2. /\ pc' \in [Views -> States] /\ op' \in [Views -> Ops]
          /\ current' \in [Views -> 0..commits]
          /\ conflict' \in [Views -> BOOLEAN]
      BY <1>1 DEF Enter, TypeOK, States
    <3> QED BY <1>1, <3>1, <3>2, Zenon DEF Enter, list, history, disk, TypeOK, Logs
  <2>2. ChainOK'
    BY <1>1, Zenon DEF Enter, list, history, ChainOK, Logs
  <2>3. Position'
    BY <1>1, Zenon DEF Enter, Idle, list, history, TypeOK, Position, Taken
  <2> QED BY <2>1, <2>2, <2>3, Zenon
<1>2. ASSUME NEW v \in Views, NEW what \in {"reset", "statefile"},
             Reset(v, what)
      PROVE  ListInv'
  <2>1. what \in Ops
    BY <1>2, Zenon DEF Ops
  <2>2. Enter(v, what) /\ UNCHANGED <<changelog, since>>
    BY <1>2, Zenon DEF Reset
  <2> QED BY <1>1, <2>1, <2>2, Zenon DEF TypeOK
<1>3. ASSUME NEW v \in Views, Commit(v)
      PROVE  ListInv'
  <2>1. Enter(v, "commit") /\ "commit" \in Ops
    BY <1>3, Zenon DEF Commit, Ops
  <2>2. since' \in [Views -> 0..commits]
    BY <1>3, Zenon DEF Commit, TypeOK
  <2>3. changelog' \in [Views -> SUBSET Records]
    BY <1>3, Zenon DEF Commit, TypeOK
  <2> QED BY <1>1, <2>1, <2>2, <2>3, Zenon
<1>4. ASSUME NEW v \in Views, Leave(v)
      PROVE  ListInv'
  BY <1>4, Zenon DEF Leave, list, history, local, disk, TypeOK, ChainOK, Position,
              Taken, Logs
<1>5. ASSUME NEW v \in Views, Pop(v)
      PROVE  ListInv'
  <2>1. pc[v] = "update" /\ poppedlog(v) # Null
    BY <1>5, Zenon DEF Pop, Call
  <2>2. /\ poppedlog(v) = Taken(v) + 1 /\ Taken(v) = applied[v]
        /\ poppedlog(v) \in Logs /\ applied[v] \in 0..commits
    BY <2>1, Popped, Zenon DEF Taken, TypeOK
  <2>3. /\ freed' = freed_after(v) /\ nextchangelogptr' = ptrs(v)
        /\ firstchangelog' = first(v) /\ lastchangelog' = last(v)
        /\ UNCHANGED <<next, commits, table, unsaved, applied>>
    BY <1>5, Zenon DEF Pop, Release, freed_after, history
  <2>4. /\ current' = [current EXCEPT ![v] = poppedlog(v)]
        /\ pc' = [pc EXCEPT ![v] = "apply"]
        /\ current' \in [Views -> 0..commits] /\ pc' \in [Views -> States]
    BY <1>5, <2>2 DEF Pop, TypeOK, States, Logs
  <2>5. \A u \in Views : Taken(u)' = taken_after(v, u)
    BY <2>1, <2>3, <2>4, Zenon DEF Taken, taken_after, TypeOK
  <2>6. TypeOK'
    <3>1. /\ ptrs(v) \in [Views -> 0..commits] /\ freed_after(v) \in SUBSET Logs
          /\ first(v) \in 0..commits /\ last(v) \in 0..commits
      BY <2>1, Called, Zenon
    <3> QED BY <1>5, <2>3, <2>4, <3>1, Zenon DEF Pop, disk, TypeOK, Logs
  <2>7. ChainOK'
    BY <2>1, <2>3, Called, Zenon DEF ChainOK, Logs
  <2>8. Position'
    <3> SUFFICES ASSUME NEW u \in Views
                 PROVE
          /\ pc'[u] = "apply" => current'[u] = applied'[u] + 1
          /\ pc'[u] = "update" => current'[u] = Null \/ current'[u] = applied'[u]
          /\ nextchangelogptr'[u] = Head =>
               Taken(u)' = (IF firstchangelog' = Null THEN commits'
                            ELSE firstchangelog' - 1)
          /\ nextchangelogptr'[u] # Head =>
               /\ nextchangelogptr'[u] = Taken(u)'
               /\ nextchangelogptr'[u] \notin freed'
      BY Zenon DEF Position
    <3>1. /\ pc'[u] = "apply" => current'[u] = applied'[u] + 1
          /\ pc'[u] = "update" => current'[u] = Null \/ current'[u] = applied'[u]
      BY <2>2, <2>3, <2>4, Zenon DEF Position, TypeOK
    <3> QED BY <2>1, <2>3, <2>5, <3>1, Called, Zenon
  <2> QED BY <2>6, <2>7, <2>8, Zenon
<1>6. ASSUME NEW v \in Views, Done(v)
      PROVE  ListInv'
  <2>1. pc[v] = "update" /\ poppedlog(v) = Null
    BY <1>6, Zenon DEF Done, Call
  <2>3. /\ freed' = freed_after(v) /\ nextchangelogptr' = ptrs(v)
        /\ firstchangelog' = first(v) /\ lastchangelog' = last(v)
        /\ UNCHANGED <<next, commits, table, unsaved, applied>>
    BY <1>6, Zenon DEF Done, Release, freed_after, history
  <2>4. /\ current' = [current EXCEPT ![v] = Null]
        /\ current' \in [Views -> 0..commits]
    BY <1>6 DEF Done, TypeOK
  <2>5. /\ pc' \in [Views -> States] /\ pc'[v] # "apply"
        /\ \A u \in Views : u # v => pc'[u] = pc[u]
        /\ op' \in [Views -> Ops]
        /\ daemon' \in {"up", "aborted"}
    BY <1>6, <2>1, Zenon DEF Done, Return, TypeOK, States, Ops
  <2>6. \A u \in Views : Taken(u)' = taken_after(v, u)
    BY <2>1, <2>3, <2>4, <2>5, Zenon DEF Taken, taken_after, TypeOK
  <2>7. TypeOK'
    <3>1. /\ ptrs(v) \in [Views -> 0..commits] /\ freed_after(v) \in SUBSET Logs
          /\ first(v) \in 0..commits /\ last(v) \in 0..commits
      BY <2>1, Called, Zenon
    <3> QED BY <1>6, <2>3, <2>4, <2>5, <3>1, Zenon DEF Done, disk, TypeOK, Logs
  <2>8. ChainOK'
    BY <2>1, <2>3, Called, Zenon DEF ChainOK, Logs
  <2>9. Position'
    <3> SUFFICES ASSUME NEW u \in Views
                 PROVE
          /\ pc'[u] = "apply" => current'[u] = applied'[u] + 1
          /\ pc'[u] = "update" => current'[u] = Null \/ current'[u] = applied'[u]
          /\ nextchangelogptr'[u] = Head =>
               Taken(u)' = (IF firstchangelog' = Null THEN commits'
                            ELSE firstchangelog' - 1)
          /\ nextchangelogptr'[u] # Head =>
               /\ nextchangelogptr'[u] = Taken(u)'
               /\ nextchangelogptr'[u] \notin freed'
      BY Zenon DEF Position
    <3>1. /\ pc'[u] = "apply" => current'[u] = applied'[u] + 1
          /\ pc'[u] = "update" => current'[u] = Null \/ current'[u] = applied'[u]
      BY <2>3, <2>4, <2>5, Zenon DEF Position, TypeOK
    <3> QED BY <2>1, <2>3, <2>6, <3>1, Called
  <2> QED BY <2>7, <2>8, <2>9, Zenon
<1>7. ASSUME NEW v \in Views, Push(v)
      PROVE  ListInv'
  <2>1. pc[v] = "update" /\ poppedlog(v) = Null /\ commits \in Nat
    BY <1>7, Zenon DEF Push, Call, may_push, TypeOK
  <2>2. Taken(v) = commits /\ applied[v] = commits
    BY <2>1, Popped DEF Taken
  <2>3. /\ freed' = freed_after(v)
        /\ nextchangelogptr' = [ptrs(v) EXCEPT ![v] = commits + 1]
        /\ firstchangelog' = IF first(v) = Null THEN commits + 1 ELSE first(v)
        /\ lastchangelog' = commits + 1 /\ commits' = commits + 1
        /\ next' = linked(v)
    BY <1>7, Zenon DEF Push, Release, freed_after
  <2>4. /\ current' = [current EXCEPT ![v] = commits + 1]
        /\ applied' = [applied EXCEPT ![v] = commits + 1]
        /\ pc' = [pc EXCEPT ![v] = "submit"]
    BY <1>7, Zenon DEF Push
  <2>5. \A u \in Views : Taken(u)' = IF u = v THEN commits + 1
                                    ELSE taken_after(v, u)
    BY <2>1, <2>4, Zenon DEF Taken, taken_after, TypeOK
  <2>6. TypeOK'
    <3>0. unsaved' \in [1..(commits + 1) -> SUBSET Records]
      <4>1. PICK quiet \in SUBSET changelog[v] :
              unsaved' = [l \in 1..(commits + 1) |->
                            IF l = commits + 1 THEN quiet ELSE unsaved[l]]
        BY <1>7, Zenon DEF Push
      <4>2. changelog[v] \in SUBSET Records /\ unsaved \in [1..commits -> SUBSET Records]
        BY Zenon DEF TypeOK, Logs
      <4> QED BY <2>1, <4>1, <4>2
    <3>1. /\ table' \in [1..(commits + 1) -> SUBSET Records]
          /\ changelog' \in [Views -> SUBSET Records]
          /\ since' \in [Views -> 0..(commits + 1)]
          /\ pc' \in [Views -> States]
          /\ current' \in [Views -> 0..(commits + 1)]
          /\ applied' \in [Views -> 0..(commits + 1)]
      BY <1>7, <2>1, <2>4 DEF Push, TypeOK, States, Logs
    <3>2. /\ nextchangelogptr' \in [Views -> 0..(commits + 1)]
          /\ freed' \in SUBSET (1..(commits + 1))
          /\ firstchangelog' \in 0..(commits + 1)
      BY <2>1, <2>3, Called DEF Logs
    <3>3. next' \in [1..(commits + 1) -> 0..(commits + 1)]
      BY <2>1, <2>3 DEF linked, TypeOK, Logs
    <3>4. file' \in Files /\ tmp' \in Files
      <4>1. PICK quiet \in SUBSET changelog[v] :
              journal_add(commits + 1, changelog[v] \ quiet)
        BY <1>7, Zenon DEF Push
      <4> DEFINE new == {commits + 1} \X (changelog[v] \ quiet)
      <4>2. commits + 1 \in Nat /\ changelog[v] \in SUBSET Records
        BY <2>1 DEF TypeOK
      <4>3. new \in SUBSET (Nat \X Records)
        BY <4>2, Zenon
      <4> HIDE DEF new
      <4>4. /\ [file EXCEPT !.journal = @ \cup new] \in Files
            /\ [tmp EXCEPT !.journal = @ \cup new] \in Files
        BY <4>3, Zenon DEF TypeOK, Files
      <4> QED BY <4>1, <4>4, Zenon DEF new, journal_add, TypeOK
    <3>5. /\ commits' = commits + 1 /\ lastchangelog' = commits + 1
          /\ UNCHANGED <<discipline, holder, daemon, op, conflict, store>>
      BY <1>7, Zenon DEF Push
    <3>6. /\ discipline' \in {"reset", "read", "overlap"} /\ holder' \in SUBSET Views
          /\ daemon' \in {"up", "aborted"} /\ op' \in [Views -> Ops]
          /\ conflict' \in [Views -> BOOLEAN] /\ store' \in {"none", "tmp", "file"}
      BY <2>1, <3>5, Zenon DEF TypeOK
    <3>7. commits' \in Nat /\ lastchangelog' \in 0..(commits + 1)
      BY <2>1, <3>5 DEF TypeOK
    <3> QED BY <3>0, <3>1, <3>2, <3>3, <3>4, <3>5, <3>6, <3>7, Zenon DEF TypeOK, Logs
  <2>7. ChainOK'
    <3>1. /\ firstchangelog' # Null /\ lastchangelog' = commits'
          /\ freed' = 1..(firstchangelog' - 1)
      BY <2>1, <2>3, Called DEF Logs
    <3>2. ASSUME NEW l \in (Logs \ freed)'
          PROVE  next'[l] = IF l = commits' THEN Null ELSE l + 1
      <4>1. l \in 1..(commits + 1) /\ l \notin freed_after(v)
        BY <2>3, Zenon DEF Logs
      <4>2. CASE l = commits + 1
        BY <2>1, <2>3, <4>1, <4>2, Zenon DEF linked
      <4>3. CASE l # commits + 1
        <5>1. l \in Logs \ freed /\ first(v) # Null /\ last(v) = commits
          BY <2>1, <4>1, <4>3, Called DEF Logs
        <5> QED BY <2>1, <2>3, <4>1, <4>3, <5>1, Zenon DEF linked, ChainOK
      <4> QED BY <4>2, <4>3, Zenon
    <3> QED BY <3>1, <3>2, Zenon DEF ChainOK
  <2>8. Position'
    <3> SUFFICES ASSUME NEW u \in Views
                 PROVE
          /\ pc'[u] = "apply" => current'[u] = applied'[u] + 1
          /\ pc'[u] = "update" => current'[u] = Null \/ current'[u] = applied'[u]
          /\ nextchangelogptr'[u] = Head =>
               Taken(u)' = (IF firstchangelog' = Null THEN commits'
                            ELSE firstchangelog' - 1)
          /\ nextchangelogptr'[u] # Head =>
               /\ nextchangelogptr'[u] = Taken(u)'
               /\ nextchangelogptr'[u] \notin freed'
      BY Zenon DEF Position
    <3>1. CASE u = v
      <4>1. /\ nextchangelogptr'[v] = commits + 1 /\ Taken(v)' = commits + 1
            /\ pc'[v] = "submit"
        BY <2>1, <2>3, <2>4, <2>5, Called DEF TypeOK
      <4>2. commits + 1 \notin freed'
        BY <2>1, <2>3, Called DEF Logs
      <4> QED BY <2>1, <3>1, <4>1, <4>2
    <3>2. CASE u # v
      <4>1. /\ nextchangelogptr'[u] = ptrs(v)[u] /\ Taken(u)' = taken_after(v, u)
            /\ pc'[u] = pc[u] /\ current'[u] = current[u]
            /\ applied'[u] = applied[u]
        BY <2>1, <2>3, <2>4, <2>5, <3>2, Called DEF TypeOK
      <4>2. /\ pc'[u] = "apply" => current'[u] = applied'[u] + 1
            /\ pc'[u] = "update" => current'[u] = Null \/ current'[u] = applied'[u]
        BY <4>1, Zenon DEF Position
      <4>3. /\ commits \in Nat /\ taken_after(v, u) \in 0..commits
            /\ first(v) \in 0..commits /\ ptrs(v)[u] \in 0..commits
            /\ commits + 1 # Null
        BY <2>1, Called, SMTT(20) DEF TypeOK
      <4>4. ptrs(v)[u] = Head =>
              taken_after(v, u) = IF first(v) = Null THEN commits ELSE first(v) - 1
        BY <2>1, Called, Zenon
      <4>5. ptrs(v)[u] # Head =>
              ptrs(v)[u] = taken_after(v, u) /\ ptrs(v)[u] \notin freed_after(v)
        BY <2>1, Called, Zenon
      <4>6. firstchangelog' = (IF first(v) = Null THEN commits + 1 ELSE first(v))
            /\ freed' = freed_after(v)
        BY <2>3, Zenon
      <4>7. nextchangelogptr'[u] = Head =>
              Taken(u)' = (IF firstchangelog' = Null THEN commits'
                           ELSE firstchangelog' - 1)
        BY <4>1, <4>3, <4>4, <4>6
      <4>8. nextchangelogptr'[u] # Head =>
              nextchangelogptr'[u] = Taken(u)' /\ nextchangelogptr'[u] \notin freed'
        BY <4>1, <4>5, <4>6, Zenon
      <4> QED BY <4>2, <4>7, <4>8, Zenon
    <3> QED BY <3>1, <3>2, Zenon
  <2> QED BY <2>6, <2>7, <2>8, Zenon
<1>8. ASSUME NEW v \in Views, Apply(v)
      PROVE  ListInv'
  <2>1. /\ pc[v] = "apply" /\ UNCHANGED <<list, history, current>>
        /\ applied' = [applied EXCEPT ![v] = current[v]]
        /\ pc' = [pc EXCEPT ![v] = "update"]
    BY <1>8, Zenon DEF Apply
  <2>2. TypeOK'
    <3>1. /\ conflict' \in [Views -> BOOLEAN]
          /\ changelog' \in [Views -> SUBSET Records]
      BY <1>8, Zenon DEF Apply, forget_changes, TypeOK
    <3>2. pc' \in [Views -> States] /\ applied' \in [Views -> 0..commits]
      BY <2>1, Zenon DEF TypeOK, States
    <3> QED BY <1>8, <2>1, <3>1, <3>2, Zenon DEF Apply, list, history, disk, TypeOK, Logs
  <2>3. ChainOK'
    BY <2>1, Zenon DEF list, history, ChainOK, Logs
  <2>4. \A u \in Views : Taken(u)' = Taken(u)
    BY <2>1, Zenon DEF Taken, TypeOK
  <2>5. Position'
    BY <2>1, <2>4, Zenon DEF Position, TypeOK, list, history
  <2> QED BY <2>2, <2>3, <2>5, Zenon
<1>9. ASSUME NEW v \in Views, Submit(v)
      PROVE  ListInv'
  <2>1. TypeOK'
    <3>1. /\ pc' \in [Views -> States] /\ op' \in [Views -> Ops]
          /\ current' \in [Views -> 0..commits]
      BY <1>9 DEF Submit, Return, TypeOK, States, Ops
    <3>2. UNCHANGED <<discipline, holder, daemon, list, history, changelog,
                      conflict, applied, since, disk>>
      BY <1>9, Zenon DEF Submit
    <3> QED BY <3>1, <3>2, Zenon DEF list, history, disk, TypeOK, Logs
  <2>2. ChainOK' /\ Position'
    BY <1>9, Zenon DEF Submit, Return, list, history, ChainOK, Position, Taken, TypeOK, Logs
  <2> QED BY <2>1, <2>2, Zenon
<1>10. ASSUME NEW v \in Views, ReadFails(v)
       PROVE  ListInv'
  BY <1>10, SMTT(20) DEF ReadFails, list, history, local, disk, TypeOK, ChainOK, Position,
              Taken, Logs
<1>11. ASSUME Snapshot \/ PersistFull \/ Rename
       PROVE  ListInv'
  <2>1. Base \in Views
    BY CommitLogAssumption, Zenon
  <2>2. /\ UNCHANGED <<discipline, holder, daemon, list, history, current,
                       changelog, conflict, applied, since>>
        /\ pc[Base] \in {"snapshot", "full", "rename"}
        /\ pc' \in [Views -> States] /\ op' \in [Views -> Ops]
        /\ pc'[Base] \in {"full", "rename", "idle"}
        /\ \A u \in Views : u # Base => pc'[u] = pc[u]
    BY <1>11, <2>1, Zenon DEF Snapshot, PersistFull, Rename, Return, TypeOK, States, Ops
  <2>3. TypeOK'
    <3>1. CASE Snapshot
      <4>1. tmp' \in Files
        <5>1. applied[Base] \in Nat
          BY <2>1 DEF TypeOK
        <5> QED BY <3>1, <5>1, Zenon DEF Snapshot, Files
      <4>2. UNCHANGED <<file, store>>
        BY <3>1, Zenon DEF Snapshot
      <4> QED BY <2>2, <4>1, <4>2, Zenon DEF list, history, TypeOK, Logs
    <3>2. CASE PersistFull
      <4>1. backlog \in SUBSET Nat
        BY DEF backlog, tables_from
      <4>2. journals(backlog) \subseteq SUBSET (Nat \X Records)
        <5>1. ASSUME NEW written \in journals(backlog)
              PROVE  written \subseteq backlog \X Records
          BY <5>1, Zenon DEF journals
        <5>2. backlog \X Records \subseteq Nat \X Records
          BY <4>1
        <5> QED BY <5>1, <5>2, Zenon
      <4>3. tmp' \in Files
        <5>1. PICK written \in journals(backlog) : tmp' = [tmp EXCEPT !.journal = written]
          BY <3>2, Zenon DEF PersistFull
        <5>2. written \in SUBSET (Nat \X Records)
          BY <4>2, <5>1, Zenon
        <5>3. tmp \in Files
          BY Zenon DEF TypeOK
        <5> QED BY <5>1, <5>2, <5>3, Zenon DEF Files
      <4>4. file' = file /\ store' = "tmp"
        BY <3>2, Zenon DEF PersistFull
      <4> QED BY <2>2, <4>3, <4>4, Zenon DEF list, history, TypeOK, Logs
    <3>3. CASE Rename
      BY <2>1, <2>2, <3>3, Zenon DEF Rename, list, history, TypeOK, Logs, Files, NoFile
    <3> QED BY <1>11, <3>1, <3>2, <3>3, Zenon
  <2>4. ChainOK' /\ Position'
    BY <2>1, <2>2 DEF list, history, ChainOK, Position, Taken, TypeOK, Logs
  <2> QED BY <2>3, <2>4, Zenon
<1>12. ASSUME Restart
       PROVE  ListInv'
  <2>1. PICK n \in {restored} :
          /\ commits' = n /\ table' = [l \in 1..n |-> table[l]]
          /\ unsaved' = [l \in 1..n |-> unsaved[l]]
          /\ Recreate(n)
    BY <1>12, Zenon DEF Restart
  <2>2. n \in 0..commits /\ commits \in Nat
    BY <2>1, Restored, Zenon DEF TypeOK
  <2>3. TypeOK'
    <3>1. table' \in [1..n -> SUBSET Records] /\ unsaved' \in [1..n -> SUBSET Records]
      BY <2>1, <2>2 DEF TypeOK, Logs
    <3>2. file' \in Files
      BY <1>12, Zenon DEF Restart, TypeOK, Files
    <3>3. tmp' \in Files
      BY <1>12, Zenon DEF Restart, NoFile, Files
    <3> QED BY <1>12, <2>1, <2>2, <3>1, <3>2, <3>3
            DEF Restart, Recreate, TypeOK, Logs, States, Ops
  <2>4. ChainOK' /\ Position'
    BY <2>1, <2>2, Zenon DEF Recreate, ChainOK, Position, Taken, Logs
  <2> QED BY <2>3, <2>4, Zenon
<1>13. ASSUME UNCHANGED vars
       PROVE  ListInv'
  BY <1>13 DEF vars, list, history, local, disk, TypeOK, ChainOK, Position,
               Taken, Logs
<1> QED
  BY <1>2, <1>3, <1>4, <1>5, <1>6, <1>7, <1>8, <1>9, <1>10, <1>11, <1>12, <1>13, Zenon
     DEF Next, Use, Update

\* Every step keeps the snapshots within the commits.
LEMMA SavedStep ==
  ASSUME ListInv, Saved, [Next]_vars
  PROVE  Saved'
<1> USE DEF ListInv
<1>b. Base \in Views /\ commits \in Nat
  BY CommitLogAssumption, Zenon DEF TypeOK
<1>1. ASSUME NEW v \in Views, Use(v)
      PROVE  Saved'
  <2>1. UNCHANGED <<commits, file, tmp>>
    BY <1>1, Zenon DEF Use, Reset, Commit, Leave, Enter, history, disk
  <2>2. pc'[Base] \in {"full", "rename"} => pc[Base] \in {"full", "rename"}
    BY <1>b, <1>1, Zenon DEF Use, Reset, Commit, Leave, Enter, local, TypeOK
  <2> QED BY <2>1, <2>2, Zenon DEF Saved
<1>2. ASSUME NEW v \in Views, Update(v)
      PROVE  Saved'
  <2>1. /\ commits' \in Nat /\ commits' >= commits
        /\ file'.exists = file.exists /\ file'.snapshot = file.snapshot
        /\ tmp'.snapshot = tmp.snapshot
    <3>1. CASE Push(v)
      BY <1>b, <3>1, SMTT(20) DEF Push, journal_add, TypeOK, Files
    <3>2. CASE ~ Push(v)
      BY <1>b, <1>2, <3>2
         DEF Update, Pop, Done, Apply, Submit, ReadFails, history, disk
    <3> QED BY <3>1, <3>2, Zenon
  <2>2. pc'[Base] \in {"full", "rename"} => pc[Base] \in {"full", "rename"}
    BY <1>b, <1>2 DEF Update, Pop, Push, Done, Apply, Submit, ReadFails, Return,
                      local, TypeOK
  <2> QED BY <1>b, <2>1, <2>2 DEF Saved, TypeOK, Files
<1>3. CASE Snapshot
  BY <1>b, <1>3 DEF Snapshot, history, Saved, TypeOK
<1>4. CASE PersistFull
  BY <1>b, <1>4, Zenon DEF PersistFull, history, Saved, TypeOK, Files
<1>5. CASE Rename
  BY <1>b, <1>5, Zenon DEF Rename, Return, history, Saved, TypeOK
<1>6. CASE Restart
  <2>1. PICK n \in {restored} : commits' = n /\ Recreate(n)
    BY <1>6, Zenon DEF Restart
  <2>2. file'.exists = file.exists /\ file'.snapshot = file.snapshot
    BY <1>6, Zenon DEF Restart, TypeOK, Files
  <2> QED BY <1>b, <2>1, <2>2 DEF Recreate, restored, Saved, TypeOK, Files
<1>7. CASE UNCHANGED vars
  BY <1>7, Zenon DEF vars, history, local, disk, Saved
<1> QED BY <1>1, <1>2, <1>3, <1>4, <1>5, <1>6, <1>7, Zenon DEF Next

\* the invariant the theorems below rest on
IInv == ListInv /\ Saved

LEMMA Invariant == Spec => []IInv
<1>1. Init => IInv
  BY ListInit DEF IInv, Saved, Init, NoFile
<1>2. IInv /\ [Next]_vars => IInv'
  BY ListStep, SavedStep, Zenon DEF IInv
<1> QED BY <1>1, <1>2, PTL DEF Spec

\* The variables of the commit log have their types.
THEOREM Typing == Spec => []TypeOK
BY Invariant, PTL DEF IInv, ListInv

\* firstchangelog, lastchangelog and the links always describe exactly the
\* tables not destroyed, in commit order: the assertions of
\* names_commitlogpoppush() hold.
THEOREM ListInOrder == Spec => []ChainOK
BY Invariant, PTL DEF IInv, ListInv

\* No view's nextchangelogptr dangles, and it always leads to the table the
\* view has to process next.
THEOREM NoDanglingPointer == Spec => []PointersAlive
<1>1. IInv => PointersAlive
  BY Popped, Zenon DEF IInv, ListInv, Position, PointersAlive
<1> QED BY <1>1, Invariant, PTL

-----------------------------------------------------------------------------
(* Refinement                                                              *)

LEMMA Refines == IInv /\ [Next]_vars => [Log!Next]_Log!vars
<1> SUFFICES ASSUME IInv, [Next]_vars
             PROVE  Log!Next \/ UNCHANGED Log!vars
  BY Zenon
<1>i. ListInv /\ TypeOK /\ Position /\ Saved
  BY Zenon DEF IInv, ListInv
<1>1. ASSUME NEW v \in Views, Push(v)
      PROVE  Log!Append(v)
  <2>1. applied[v] = commits
    BY <1>i, <1>1, UpToDate, Zenon
  <2>2. changelog[v] \in SUBSET Records
    BY <1>i, Zenon DEF TypeOK
  <2> QED BY <1>1, <2>1, <2>2, Zenon DEF Push, Log!Append
<1>2. ASSUME NEW v \in Views, Apply(v)
      PROVE  Log!Learn(v)
  <2>1. /\ pc[v] = "apply" /\ applied' = [applied EXCEPT ![v] = current[v]]
        /\ UNCHANGED <<commits, table>>
    BY <1>2, Zenon DEF Apply, history
  <2>2. current[v] = applied[v] + 1 /\ applied[v] < commits
    BY <1>i, <2>1 DEF Position, TypeOK
  <2> QED BY <2>1, <2>2, Zenon DEF Log!Learn
<1>3. CASE Restart
  <2>1. restored \in 0..commits
    BY <1>i, Restored, Zenon
  <2>2. /\ commits' = restored /\ table' = [l \in 1..restored |-> table[l]]
        /\ applied' = [v \in Views |-> restored]
    BY <1>3, Zenon DEF Restart, Recreate
  <2> QED BY <2>1, <2>2, Zenon DEF Log!Restart, Log!Next
<1>4. ASSUME NEW v \in Views, Use(v) \/ Pop(v) \/ Done(v) \/ Submit(v) \/ ReadFails(v)
      PROVE  UNCHANGED Log!vars
  BY <1>4, Zenon DEF Use, Reset, Commit, Leave, Enter, Pop, Done, Submit, ReadFails,
              history, local, Log!vars
<1>5. CASE Snapshot \/ PersistFull \/ Rename
  BY <1>5, Zenon DEF Snapshot, PersistFull, Rename, history, Log!vars
<1>6. CASE UNCHANGED vars
  BY <1>6, Zenon DEF vars, history, local, Log!vars
<1> QED BY <1>1, <1>2, <1>3, <1>4, <1>5, <1>6, Zenon DEF Next, Update, Log!Next

\* The pointers, the release of tables and the loop of updateview() implement
\* one sequence of commits that every view learns in order without gaps.
THEOREM ImplementsSharedLog == Spec => SharedLogSpec
<1>1. Init => Log!Init
  BY Zenon DEF Init, Log!Init
<1> QED BY <1>1, Refines, Invariant, PTL DEF Spec, SharedLogSpec, Log!Spec

-----------------------------------------------------------------------------
(* What the order of the list gives the views. *)

\* what is left of a pending commit has no key in common with what the view
\* has taken over since it made its changes
Unseen ==
  \A v \in Views :
    /\ since[v] <= applied[v]
    /\ op[v] = "commit" /\ pc[v] \in {"update", "apply"} /\ ~ conflict[v] =>
         \A m \in (since[v] + 1)..applied[v] : ~ Clash(v, m)

\* under the zone lock one view is in use, and it is up to date when it commits
Turns ==
  discipline = "reset" =>
    /\ daemon = "up"
    /\ \A v \in Views : pc[v] # "idle" => holder = {v}
    /\ \A v \in Views :
         holder = {v} /\ (op[v] = "commit" \/ pc[v] \notin {"update", "apply"}) =>
           applied[v] = commits /\ pc[v] # "apply"
    /\ \A v \in Views : op[v] = "commit" => ~ conflict[v]
    /\ TablesAlive

-----------------------------------------------------------------------------
(* No lost update                                                          *)

LEMMA UnseenStep ==
  ASSUME IInv, Unseen, [Next]_vars
  PROVE  Unseen'
<1> USE DEF IInv, ListInv
<1> SUFFICES ASSUME NEW u \in Views
             PROVE
      /\ since'[u] <= applied'[u]
      /\ op'[u] = "commit" /\ pc'[u] \in {"update", "apply"} /\ ~ conflict'[u] =>
           \A m \in (since'[u] + 1)..applied'[u] : ~ Clash(u, m)'
  BY Zenon DEF Unseen
<1>t. /\ commits \in Nat /\ applied[u] \in 0..commits /\ since[u] \in 0..commits
      /\ since[u] <= applied[u]
  BY Zenon DEF TypeOK, Unseen
<1>s. ASSUME UNCHANGED <<op[u], conflict[u], since[u], applied[u], changelog[u]>>,
             pc'[u] \in {"update", "apply"} => pc[u] \in {"update", "apply"},
             \A m \in 1..commits : table'[m] = table[m]
      PROVE  /\ since'[u] <= applied'[u]
             /\ op'[u] = "commit" /\ pc'[u] \in {"update", "apply"} /\ ~ conflict'[u] =>
                  \A m \in (since'[u] + 1)..applied'[u] : ~ Clash(u, m)'
  BY <1>s, <1>t DEF Unseen, Clash
<1>1. ASSUME NEW v \in Views, Use(v)
      PROVE  /\ since'[u] <= applied'[u]
             /\ op'[u] = "commit" /\ pc'[u] \in {"update", "apply"} /\ ~ conflict'[u] =>
                  \A m \in (since'[u] + 1)..applied'[u] : ~ Clash(u, m)'
  <2>1. CASE Leave(v)
    BY <1>s, <2>1, Zenon DEF Leave, history, local
  <2>2. CASE u # v /\ ~ Leave(v)
    BY <1>1, <1>s, <2>2 DEF Use, Reset, Commit, Enter, history, TypeOK
  <2>3. ASSUME u = v, Commit(v)
        PROVE  since'[u] = applied'[u]
    BY <2>3, Zenon DEF Commit, Enter, TypeOK
  <2>4. ASSUME u = v, NEW what \in {"reset", "statefile"}, Reset(v, what)
        PROVE  op'[u] # "commit" /\ since'[u] <= applied'[u]
    BY <1>t, <2>4, Zenon DEF Reset, Enter, TypeOK
  <2>5. since'[u] = applied'[u] =>
          /\ since'[u] <= applied'[u]
          /\ \A m \in (since'[u] + 1)..applied'[u] : ~ Clash(u, m)'
    BY <1>1, <1>t DEF Use, Commit, Reset, Leave, Enter, local
  <2> QED BY <1>1, <2>1, <2>2, <2>3, <2>4, <2>5, Zenon DEF Use
<1>2. ASSUME NEW v \in Views, Pop(v) \/ Done(v) \/ Submit(v) \/ ReadFails(v)
      PROVE  /\ since'[u] <= applied'[u]
             /\ op'[u] = "commit" /\ pc'[u] \in {"update", "apply"} /\ ~ conflict'[u] =>
                  \A m \in (since'[u] + 1)..applied'[u] : ~ Clash(u, m)'
  <2>1. /\ UNCHANGED <<conflict, since, applied, changelog, table>>
    BY <1>2, Zenon DEF Pop, Done, Submit, ReadFails, history, local
  <2>2. /\ op'[u] = "commit" => op[u] = "commit"
        /\ pc'[u] \in {"update", "apply"} => pc[u] \in {"update", "apply"}
    BY <1>2 DEF Pop, Done, Submit, ReadFails, Return, Call, local, TypeOK
  <2>3. \A m \in 1..commits : Clash(u, m)' = Clash(u, m)
    BY <2>1, Zenon DEF Clash
  <2>4. op[u] = "commit" /\ pc[u] \in {"update", "apply"} /\ ~ conflict[u] =>
          \A m \in (since[u] + 1)..applied[u] : ~ Clash(u, m)
    BY Zenon DEF Unseen
  <2>5. \A m \in (since[u] + 1)..applied[u] : m \in 1..commits
    BY <1>t
  <2> QED BY <1>t, <2>1, <2>2, <2>3, <2>4, <2>5, Zenon
<1>3. ASSUME NEW v \in Views, Push(v)
      PROVE  /\ since'[u] <= applied'[u]
             /\ op'[u] = "commit" /\ pc'[u] \in {"update", "apply"} /\ ~ conflict'[u] =>
                  \A m \in (since'[u] + 1)..applied'[u] : ~ Clash(u, m)'
  <2>1. \A m \in 1..commits : table'[m] = table[m]
    <3>1. table' = [l \in 1..(commits + 1) |->
                      IF l = commits + 1 THEN changelog[v] ELSE table[l]]
      BY <1>3, Zenon DEF Push
    <3> QED BY <1>t, <3>1
  <2>2. CASE u = v
    BY <1>3, <1>t, <2>2 DEF Push, TypeOK
  <2>3. CASE u # v
    BY <1>3, <1>s, <2>1, <2>3, Zenon DEF Push, TypeOK
  <2> QED BY <2>2, <2>3, Zenon
<1>4. ASSUME NEW v \in Views, Apply(v)
      PROVE  /\ since'[u] <= applied'[u]
             /\ op'[u] = "commit" /\ pc'[u] \in {"update", "apply"} /\ ~ conflict'[u] =>
                  \A m \in (since'[u] + 1)..applied'[u] : ~ Clash(u, m)'
  <2>1. CASE u # v
    BY <1>4, <1>s, <2>1, Zenon DEF Apply, forget_changes, history, TypeOK
  <2>2. CASE u = v
    <3>1. /\ pc[u] = "apply" /\ applied'[u] = applied[u] + 1
          /\ current[u] = applied[u] + 1 /\ UNCHANGED <<op, since, table>>
      BY <1>4, <2>2, Zenon DEF Apply, Position, TypeOK, history
    <3>2. CASE Clash(u, current[u])
      BY <1>4, <1>t, <2>2, <3>1, <3>2 DEF Apply, forget_changes, TypeOK
    <3>3. CASE ~ Clash(u, current[u])
      <4>1. UNCHANGED <<conflict, changelog>>
        BY <1>4, <2>2, <3>3, Zenon DEF Apply
      <4>2. ASSUME op[u] = "commit", ~ conflict[u],
                   NEW m \in (since[u] + 1)..(applied[u] + 1)
            PROVE  ~ Clash(u, m)
        <5>1. CASE m = applied[u] + 1
          BY <3>1, <3>3, <5>1, Zenon
        <5>2. CASE m \in (since[u] + 1)..applied[u]
          BY <3>1, <4>2, <5>2, Zenon DEF Unseen
        <5> QED BY <1>t, <5>1, <5>2
      <4>3. \A m : Clash(u, m)' = Clash(u, m)
        BY <3>1, <4>1, Zenon DEF Clash
      <4>4. since'[u] <= applied'[u]
        BY <1>t, <3>1
      <4> QED BY <3>1, <4>1, <4>2, <4>3, <4>4, Zenon
    <3> QED BY <3>2, <3>3, Zenon
  <2> QED BY <2>1, <2>2, Zenon
<1>5. CASE Snapshot \/ PersistFull \/ Rename
  <2>1. Base \in Views
    BY CommitLogAssumption, Zenon
  <2>2. UNCHANGED <<conflict, since, applied, changelog, table>>
    BY <1>5, Zenon DEF Snapshot, PersistFull, Rename, history
  <2>3. /\ op'[u] = "commit" => op[u] = "commit"
        /\ pc'[u] \in {"update", "apply"} => pc[u] \in {"update", "apply"}
    BY <1>5, <2>1, Zenon DEF Snapshot, PersistFull, Rename, Return, TypeOK
  <2> QED BY <1>t, <2>2, <2>3 DEF Unseen, Clash
<1>6. CASE Restart
  <2>1. PICK n \in {restored} : Recreate(n)
    BY <1>6, Zenon DEF Restart
  <2>2. n \in Nat
    BY <2>1, Restored DEF TypeOK
  <2> QED BY <2>1, <2>2 DEF Recreate
<1>7. CASE UNCHANGED vars
  BY <1>7, <1>s, Zenon DEF vars, history, local
<1> QED BY <1>1, <1>2, <1>3, <1>4, <1>5, <1>6, <1>7, Zenon DEF Next, Update

\* names_viewcommit() never pushes a table that has a key in common with one
\* its view had not seen when it made the changes.
THEOREM NoUpdateLost == Spec => NoLostUpdate
<1>1. Init => Unseen
  BY DEF Init, Unseen
<1>2. IInv /\ Unseen =>
        \A v \in Views : Push(v) =>
          \A m \in (since[v] + 1)..commits :
            \A r \in changelog[v], s \in table[m] : KeyOf[v][r] # KeyOf[v][s]
  <2> SUFFICES ASSUME IInv, Unseen, NEW v \in Views, Push(v)
               PROVE  \A m \in (since[v] + 1)..commits :
                        \A r \in changelog[v], s \in table[m] :
                          KeyOf[v][r] # KeyOf[v][s]
    BY Zenon
  <2>1. applied[v] = commits
    BY UpToDate, Zenon DEF IInv
  <2>2. op[v] = "commit" /\ pc[v] = "update" /\ ~ conflict[v]
    BY Zenon DEF Push, Call, may_push, submits
  <2> QED BY <2>1, <2>2 DEF Unseen, Clash
<1>3. IInv /\ Unseen /\ [Next]_vars => Unseen'
  BY UnseenStep, Zenon
<1> QED BY <1>1, <1>2, <1>3, Invariant, PTL DEF Spec, NoLostUpdate

-----------------------------------------------------------------------------
(* Every table is reclaimed                                                *)

\* A call leaves a first table only to a view that has still to take it, to
\* the caller, or to one that works on it.
LEMMA CallReclaims ==
  ASSUME ListInv, Reclaimed, NEW v \in Views, pc[v] = "update",
         first(v) # Null
  PROVE  \/ poppedlog(v) = first(v)
         \/ \E u \in Views : ptrs(v)[u] = Head
         \/ \E u \in Views : /\ u # v /\ current[u] = first(v)
                            /\ pc[u] \in {"apply", "update"}
<1>1. CASE releases(v)
  <2>1. /\ firstchangelog \in Logs /\ current[v] = firstchangelog
        /\ firstchangelog \notin freed /\ commits \in Nat
    BY <1>1 DEF releases, ListInv, TypeOK, ChainOK, Logs
  <2>2. Taken(v) = firstchangelog
    BY <2>1 DEF ListInv, Position, Taken, Logs
  <2>3. first(v) = IF firstchangelog = commits THEN Null ELSE firstchangelog + 1
    BY <1>1, <2>1, Zenon DEF first, ListInv, ChainOK
  <2> QED BY <2>1, <2>2, <2>3, Popped, Zenon DEF ListInv, TypeOK
<1>2. CASE ~ releases(v)
  <2>1. first(v) = firstchangelog /\ ptrs(v) = moved(v)
    BY <1>2, Zenon DEF first, ptrs
  <2>2. PICK w \in Views : \/ nextchangelogptr[w] = Head
                           \/ current[w] = firstchangelog /\ pc[w] \in {"apply", "update"}
    BY <2>1, Zenon DEF Reclaimed
  <2>3. \A u \in Views : u # v => moved(v)[u] = nextchangelogptr[u]
    BY Zenon DEF moved, ListInv, TypeOK
  <2>4. nextchangelogptr[v] = Head => poppedlog(v) = firstchangelog
    BY Zenon DEF poppedlog, Deref
  <2>5. CASE w = v /\ nextchangelogptr[w] # Head
    BY <1>2, <2>1, <2>2, <2>5, Zenon DEF releases
  <2> QED BY <2>1, <2>2, <2>3, <2>4, <2>5, Zenon
<1> QED BY <1>1, <1>2, Zenon

LEMMA ReclaimedStep ==
  ASSUME IInv, Reclaimed, [Next]_vars
  PROVE  Reclaimed'
<1>i. ListInv /\ TypeOK /\ ChainOK /\ commits \in Nat
  BY Zenon DEF IInv, ListInv, TypeOK
<1>1. ASSUME NEW v \in Views, Use(v)
      PROVE  Reclaimed'
  BY <1>1, <1>i DEF Use, Reset, Commit, Leave, Enter, Idle, list, local, Reclaimed, TypeOK
<1>2. ASSUME NEW v \in Views, Pop(v)
      PROVE  Reclaimed'
  <2>1. /\ pc[v] = "update" /\ firstchangelog' = first(v)
        /\ nextchangelogptr' = ptrs(v)
        /\ current' = [current EXCEPT ![v] = poppedlog(v)]
        /\ pc' = [pc EXCEPT ![v] = "apply"]
    BY <1>2, Zenon DEF Pop, Call
  <2> QED BY <1>i, <2>1, CallReclaims, Zenon DEF Reclaimed, TypeOK
<1>3. ASSUME NEW v \in Views, Done(v)
      PROVE  Reclaimed'
  <2>1. /\ pc[v] = "update" /\ firstchangelog' = first(v)
        /\ nextchangelogptr' = ptrs(v) /\ poppedlog(v) = Null
        /\ \A u \in Views : u # v => pc'[u] = pc[u] /\ current'[u] = current[u]
    BY <1>3, <1>i, Zenon DEF Done, Call, Return, TypeOK
  <2> QED BY <1>i, <2>1, CallReclaims DEF Reclaimed
<1>4. ASSUME NEW v \in Views, Push(v)
      PROVE  Reclaimed'
  <2>1. /\ pc[v] = "update" /\ poppedlog(v) = Null
        /\ firstchangelog' = IF first(v) = Null THEN commits + 1 ELSE first(v)
        /\ nextchangelogptr' = [ptrs(v) EXCEPT ![v] = commits + 1]
        /\ current' = [current EXCEPT ![v] = commits + 1]
        /\ pc' = [pc EXCEPT ![v] = "submit"]
    BY <1>4, Zenon DEF Push, Call, may_push
  <2>2. /\ ptrs(v) \in [Views -> 0..commits]
        /\ first(v) = Null => freed_after(v) = Logs
        /\ \A u \in Views : /\ ptrs(v)[u] # Head => ptrs(v)[u] \notin freed_after(v)
                            /\ ptrs(v)[u] = Head =>
                                 taken_after(v, u) = IF first(v) = Null THEN commits
                                                     ELSE first(v) - 1
    BY <1>i, <2>1, Called, Zenon
  <2>3. CASE first(v) = Null
    <3>1. PICK u \in Views : u # v
      BY CommitLogAssumption, Zenon
    <3>2. ptrs(v)[u] = Head
      BY <1>i, <2>2, <2>3 DEF Logs
    <3> QED BY <2>1, <2>2, <3>1, <3>2, Zenon DEF Reclaimed
  <2>4. CASE first(v) # Null
    <3>1. ptrs(v)[v] # Head
      <4>1. taken_after(v, v) = commits
        BY <1>i, <2>1, Popped DEF taken_after
      <4>2. first(v) \in 0..commits
        BY <1>i, <2>1, Called, Zenon
      <4> QED BY <1>i, <2>2, <2>4, <4>1, <4>2
    <3>2. \/ \E u \in Views : ptrs(v)[u] = Head
          \/ \E u \in Views : /\ u # v /\ current[u] = first(v)
                             /\ pc[u] \in {"apply", "update"}
      BY <1>i, <2>1, <2>4, CallReclaims, Zenon
    <3> QED BY <1>i, <2>1, <2>2, <2>4, <3>1, <3>2, Zenon DEF Reclaimed, TypeOK
  <2> QED BY <2>3, <2>4, Zenon
<1>5. ASSUME NEW v \in Views, Apply(v) \/ Submit(v) \/ ReadFails(v)
      PROVE  Reclaimed'
  BY <1>5, <1>i, Zenon DEF Apply, Submit, ReadFails, Return, list, local, Reclaimed, TypeOK
<1>6. CASE Snapshot \/ PersistFull \/ Rename
  BY <1>6, <1>i, CommitLogAssumption, Zenon
     DEF Snapshot, PersistFull, Rename, Return, list, Reclaimed, TypeOK
<1>7. CASE Restart
  BY <1>7, Zenon DEF Restart, Recreate, Reclaimed
<1>8. CASE UNCHANGED vars
  BY <1>8, Zenon DEF vars, list, local, Reclaimed
<1> QED BY <1>1, <1>2, <1>3, <1>4, <1>5, <1>6, <1>7, <1>8, Zenon DEF Next, Update

\* A table every view has passed is released by the view that works on it:
\* with two views or more the list does not keep tables nobody needs.
THEOREM TablesReclaimed == Spec => []Reclaimed
<1>1. Init => Reclaimed
  BY Zenon DEF Init, Reclaimed
<1>2. IInv /\ Reclaimed /\ [Next]_vars => Reclaimed'
  BY ReclaimedStep, Zenon
<1> QED BY <1>1, <1>2, Invariant, PTL DEF Spec

-----------------------------------------------------------------------------
(* Tasks that take turns                                                   *)

LEMMA TurnsStep ==
  ASSUME IInv, Turns, [Next]_vars
  PROVE  Turns'
<1>i. ListInv /\ TypeOK /\ ChainOK /\ Position /\ commits \in Nat
  BY Zenon DEF IInv, ListInv, TypeOK
<1>d. discipline' = discipline
  BY DEF Next, Use, Update, Reset, Commit, Leave, Enter, Pop, Push, Done, Apply,
         Submit, ReadFails, Snapshot, PersistFull, Rename, Restart, vars
<1> SUFFICES ASSUME discipline = "reset"
             PROVE  Turns'
  BY <1>d, Zenon DEF Turns
<1>t. /\ daemon = "up"
      /\ \A u \in Views : pc[u] # "idle" => holder = {u}
      /\ \A u \in Views :
           holder = {u} /\ (op[u] = "commit" \/ pc[u] \notin {"update", "apply"}) =>
             applied[u] = commits /\ pc[u] # "apply"
      /\ \A u \in Views : op[u] = "commit" => ~ conflict[u]
      /\ \A u \in Views : pc[u] \in {"apply", "submit"} => current[u] \notin freed
  BY Zenon DEF Turns, TablesAlive
<1>o. ASSUME NEW v \in Views, pc[v] # "idle"
      PROVE  holder = {v} /\ \A u \in Views : u # v => pc[u] = "idle" /\ holder # {u}
  BY <1>o, <1>t, Zenon
<1>1. ASSUME NEW v \in Views, NEW what \in Ops, Enter(v, what), MayUse(v),
             what = "commit" => Holds(v)
      PROVE  Turns'
  <2>1. /\ holder' = {v} /\ UNCHANGED <<daemon, freed, commits, applied>>
        /\ pc' = [pc EXCEPT ![v] = "update"] /\ op' = [op EXCEPT ![v] = what]
        /\ current' = [current EXCEPT ![v] = Null]
        /\ conflict' = [conflict EXCEPT ![v] = FALSE] /\ pc[v] = "idle"
    BY <1>1, Zenon DEF Enter, Idle, list, history
  <2>2. \A u \in Views : u # v => pc[u] = "idle"
    BY <1>1, <1>t, Zenon DEF MayUse
  <2>3. what = "commit" => applied[v] = commits
    BY <1>1, <1>t, <2>1, Zenon DEF Holds
  <2> QED BY <1>i, <1>t, <2>1, <2>2, <2>3, Zenon DEF Turns, TablesAlive, TypeOK
<1>2. ASSUME NEW v \in Views, Use(v)
      PROVE  Turns'
  <2>1. CASE Leave(v)
    BY <1>t, <2>1, Zenon DEF Leave, Idle, list, history, local, Turns, TablesAlive
  <2>2. ASSUME NEW what \in {"reset", "statefile"}, Reset(v, what)
        PROVE  Turns'
    BY <1>1, <2>2, Zenon DEF Reset, Ops
  <2>3. CASE Commit(v)
    BY <1>1, <2>3, Zenon DEF Commit, Ops, synchronised, Holds, MayUse
  <2> QED BY <1>2, <2>1, <2>2, <2>3, Zenon DEF Use
<1>3. ASSUME NEW v \in Views, Pop(v)
      PROVE  Turns'
  <2>1. /\ pc[v] = "update" /\ poppedlog(v) # Null
        /\ pc' = [pc EXCEPT ![v] = "apply"] /\ freed' = freed_after(v)
        /\ current' = [current EXCEPT ![v] = poppedlog(v)]
        /\ UNCHANGED <<holder, daemon, commits, op, conflict, applied>>
    BY <1>3, Zenon DEF Pop, Call, Release, freed_after, history
  <2>2. poppedlog(v) = applied[v] + 1 /\ applied[v] \in 0..commits
        /\ applied[v] # commits /\ poppedlog(v) \notin freed
    BY <1>i, <2>1, Popped, Zenon DEF Taken
  <2>3. op[v] # "commit"
    BY <1>o, <1>t, <2>1, <2>2, Zenon
  <2>4. poppedlog(v) \notin freed_after(v)
    BY <1>i, <2>1, <2>2 DEF freed_after, releases, Position
  <2> QED BY <1>i, <1>o, <1>t, <2>1, <2>3, <2>4 DEF Turns, TablesAlive, TypeOK
<1>4. ASSUME NEW v \in Views, Push(v)
      PROVE  Turns'
  <2>1. /\ pc[v] = "update" /\ freed' = freed_after(v)
        /\ pc' = [pc EXCEPT ![v] = "submit"] /\ commits' = commits + 1
        /\ current' = [current EXCEPT ![v] = commits + 1]
        /\ applied' = [applied EXCEPT ![v] = commits + 1]
        /\ UNCHANGED <<holder, daemon, op, conflict>>
    BY <1>4, Zenon DEF Push, Call, Release, freed_after
  <2>2. commits + 1 \notin freed_after(v)
    BY <1>i, <2>1, Called DEF Logs
  <2> QED BY <1>i, <1>o, <1>t, <2>1, <2>2 DEF Turns, TablesAlive, TypeOK
<1>5. ASSUME NEW v \in Views, Done(v)
      PROVE  Turns'
  <2>1. /\ pc[v] = "update" /\ poppedlog(v) = Null /\ op[v] # "commit"
        /\ UNCHANGED <<holder, commits, conflict, applied>>
    BY <1>5, <1>t, Zenon DEF Done, Call, submits, history
  <2>2. applied[v] = commits
    <3>1. Taken(v) = applied[v]
      BY <2>1, Zenon DEF Taken
    <3>2. /\ poppedlog(v) = IF Taken(v) = commits THEN Null ELSE Taken(v) + 1
          /\ Taken(v) \in 0..commits
      BY <1>i, Popped, Zenon
    <3> QED BY <1>i, <2>1, <3>1, <3>2
  <2>3. /\ daemon' = daemon
        /\ pc'[v] \notin {"apply", "submit"} /\ op'[v] # "commit"
        /\ \A u \in Views : u # v => pc'[u] = pc[u] /\ op'[u] = op[u]
    BY <1>5, <1>i, <2>1, Zenon DEF Done, Return, TypeOK
  <2> QED BY <1>i, <1>o, <1>t, <2>1, <2>2, <2>3, Zenon DEF Turns, TablesAlive
<1>6. ASSUME NEW v \in Views, Apply(v)
      PROVE  Turns'
  <2>1. /\ pc[v] = "apply" /\ pc' = [pc EXCEPT ![v] = "update"]
        /\ UNCHANGED <<holder, daemon, freed, commits, op, current>>
        /\ \A u \in Views : u # v => applied'[u] = applied[u] /\ conflict'[u] = conflict[u]
    BY <1>6, <1>i, Zenon DEF Apply, forget_changes, list, history, TypeOK
  <2>2. op[v] # "commit"
    BY <1>o, <1>t, <2>1, Zenon
  <2> QED BY <1>i, <1>o, <1>t, <2>1, <2>2, Zenon DEF Turns, TablesAlive, TypeOK
<1>7. ASSUME NEW v \in Views, Submit(v)
      PROVE  Turns'
  <2>1. /\ pc[v] = "submit" /\ pc' = [pc EXCEPT ![v] = "idle"]
        /\ op' = [op EXCEPT ![v] = "none"]
        /\ current' = [current EXCEPT ![v] = Null]
        /\ UNCHANGED <<holder, daemon, freed, commits, applied, conflict>>
    BY <1>7, Zenon DEF Submit, Return, list, history
  <2> QED BY <1>i, <1>o, <1>t, <2>1, Zenon DEF Turns, TablesAlive, TypeOK
<1>8. ASSUME NEW v \in Views, ReadFails(v)
      PROVE  FALSE
  BY <1>8, <1>o, <1>t, Zenon DEF ReadFails, Unstable
<1>9. ASSUME Snapshot \/ PersistFull \/ Rename
      PROVE  Turns'
  <2>1. /\ Base \in Views /\ pc[Base] \in {"snapshot", "full", "rename"}
        /\ UNCHANGED <<holder, daemon, freed, commits, applied, conflict, current>>
        /\ pc'[Base] \in {"full", "rename", "idle"}
        /\ op'[Base] = "commit" => op[Base] = "commit"
        /\ \A u \in Views : u # Base => pc'[u] = pc[u] /\ op'[u] = op[u]
    BY <1>9, <1>i, CommitLogAssumption, Zenon
       DEF Snapshot, PersistFull, Rename, Return, list, history, TypeOK
  <2> QED BY <1>o, <1>t, <2>1, Zenon DEF Turns, TablesAlive
<1>10. CASE Restart
  BY <1>10, Zenon DEF Restart, Recreate, Turns, TablesAlive
<1>11. CASE UNCHANGED vars
  BY <1>11, <1>t, Zenon DEF vars, list, history, local, Turns, TablesAlive
<1> QED BY <1>2, <1>3, <1>4, <1>5, <1>6, <1>7, <1>8, <1>9, <1>10, <1>11, Zenon
        DEF Next, Update

\* Tasks that use their views one after the other under the zone lock, each
\* after a reset, never meet a conflict: assert(!conflict) of
\* names_viewcommit() holds and no table is read after its release.
THEOREM TasksNeverAbort == Spec => []TasksSucceed
<1>1. Init => Turns
  BY Zenon DEF Init, Turns, TablesAlive
<1>2. IInv /\ Turns /\ [Next]_vars => Turns'
  BY TurnsStep, Zenon
<1>3. Turns => TasksSucceed
  BY Zenon DEF Turns, TasksSucceed
<1> QED BY <1>1, <1>2, <1>3, Invariant, PTL DEF Spec

-----------------------------------------------------------------------------
(* The state file                                                          *)

Less == {ss \in Nat \X Nat : ss[1] < ss[2]}

LEMMA LessThan == \A k, m \in Nat : <<k, m>> \in Less <=> k < m
BY Zenon DEF Less

\* The least-number principle, for sets.
LEMMA Least ==
  ASSUME NEW S \in SUBSET Nat, S # {}
  PROVE  \E m \in S : \A k \in S : m <= k
<1>1. IsWellFoundedOn(Less, Nat)
  BY NatLessThanWellFounded, Zenon DEF OpToRel, Less
<1>2. PICK m \in S : \A k \in S : <<k, m>> \notin Less
  BY <1>1, WFMin, Zenon
<1>3. \A k \in S : <<k, m>> \in Less <=> k < m
  BY LessThan, m \in S, S \subseteq Nat, Zenon
<1>4. \A k \in S : ~(k < m)
  BY <1>2, <1>3, Zenon
<1> QED BY <1>4

\* names_commitlogpersistfull() writes exactly the tables the base view has not
\* taken: the walk along the links does not miss one or enter a destroyed one.
LEMMA Backlog ==
  ASSUME ListInv
  PROVE  backlog = (Taken(Base) + 1)..commits
<1> DEFINE p == poppedlog(Base)
           Closed(W) == p \in W /\ \A k \in W : k # Null => next[k] \in W
<1>1. /\ commits \in Nat /\ Taken(Base) \in 0..commits
      /\ p = IF Taken(Base) = commits THEN Null ELSE Taken(Base) + 1
      /\ p # Null => p \notin freed
  BY Popped, CommitLogAssumption, Zenon DEF ListInv, TypeOK
<1>2. p # Null => \A l \in p..commits : next[l] = IF l = commits THEN Null ELSE l + 1
  <2>1. ASSUME p # Null, NEW l \in p..commits
        PROVE  l \in Logs \ freed
    <3>1. /\ firstchangelog \in Nat /\ p \in 1..commits
          /\ firstchangelog = Null => freed = 1..commits
          /\ firstchangelog # Null => freed = 1..(firstchangelog - 1)
      BY <1>1, <2>1 DEF ListInv, ChainOK, TypeOK, Logs
    <3> QED BY <1>1, <2>1, <3>1 DEF Logs
  <2> QED BY <2>1, Zenon DEF ListInv, ChainOK
<1> HIDE DEF p
<1>3. backlog = {l \in 1..commits : \A W \in SUBSET (0..commits) : Closed(W) => l \in W}
  BY Zenon DEF backlog, tables_from, p
<1>4. CASE p = Null
  <2>1. Closed({Null}) /\ {Null} \in SUBSET (0..commits)
    BY <1>1, <1>4
  <2>2. \A l \in backlog : l \in 1..commits /\ l \in {Null}
    BY <1>3, <2>1, Zenon
  <2>3. backlog = {}
    BY <1>1, <2>2
  <2> QED BY <1>1, <1>4, <2>3
<1>5. CASE p # Null
  <2>1. p \in 1..commits /\ p = Taken(Base) + 1
    BY <1>1, <1>5
  <2>2. Closed({Null} \cup (p..commits)) /\ {Null} \cup (p..commits) \in SUBSET (0..commits)
    BY <1>1, <1>2, <1>5, <2>1
  <2>3. backlog \subseteq p..commits
    <3>1. \A l \in backlog : l \in 1..commits /\ l \in {Null} \cup (p..commits)
      BY <1>3, <2>2, Zenon
    <3> QED BY <1>1, <3>1
  <2>4. ASSUME NEW W \in SUBSET (0..commits), Closed(W)
        PROVE  p..commits \subseteq W
    <3> DEFINE Left == (p..commits) \ W
    <3>1. SUFFICES ASSUME Left # {} PROVE FALSE
      BY Zenon
    <3>2. Left \in SUBSET Nat
      BY <1>1, <2>1
    <3>3. PICK m \in Left : \A k \in Left : m <= k
      BY <3>1, <3>2, Least, Zenon
    <3>4. m # p /\ m \in p..commits /\ m - 1 \in p..commits
      BY <1>1, <2>1, <2>4, <3>3
    <3>5. m - 1 \in W
      BY <1>1, <2>1, <3>3, <3>4
    <3>6. next[m - 1] = m
      BY <1>1, <1>2, <1>5, <2>1, <3>4
    <3>7. m \in W
      BY <1>1, <2>1, <2>4, <3>4, <3>5, <3>6
    <3> QED BY <3>3, <3>7, Zenon
  <2>5. p..commits \subseteq backlog
    BY <1>1, <1>3, <2>1, <2>4
  <2> QED BY <2>1, <2>3, <2>5, Zenon
<1> QED BY <1>4, <1>5, Zenon

\* what the files hold while the base view writes one
Journal ==
  /\ JournalComplete
  /\ store = "tmp" <=> pc[Base] = "rename"
  /\ pc[Base] = "full" => tmp.snapshot = applied[Base]

LEMMA JournalStep ==
  ASSUME IInv, Journal, [Next]_vars
  PROVE  Journal'
<1>i. ListInv /\ TypeOK /\ Saved /\ commits \in Nat /\ Base \in Views
  BY CommitLogAssumption, Zenon DEF IInv, ListInv, TypeOK
<1>j. /\ store = "file" => Journalled(file)
      /\ store = "tmp" => Journalled(tmp)
      /\ store = "tmp" <=> pc[Base] = "rename"
      /\ pc[Base] = "full" => tmp.snapshot = applied[Base]
  BY Zenon DEF Journal, JournalComplete
<1>1. ASSUME UNCHANGED <<commits, table, unsaved, file, tmp, store>>,
             pc'[Base] \in {"full", "rename"} \/ pc[Base] \in {"full", "rename"} =>
               pc'[Base] = pc[Base] /\ applied'[Base] = applied[Base]
      PROVE  Journal'
  BY <1>1, <1>j, Zenon DEF Journal, JournalComplete, Journalled
<1>2. ASSUME NEW v \in Views, Use(v)
      PROVE  Journal'
  <2>1. /\ UNCHANGED <<commits, table, unsaved, file, tmp, store, applied>>
        /\ \A u \in Views : pc'[u] = pc[u] \/ (pc[u] = "idle" /\ pc'[u] = "update")
    BY <1>i, <1>2, Zenon DEF Use, Reset, Commit, Leave, Enter, Idle, history, local, disk, TypeOK
  <2> QED BY <1>1, <1>i, <2>1, Zenon
<1>3. ASSUME NEW v \in Views, Update(v), ~ Push(v)
      PROVE  Journal'
  <2>1. UNCHANGED <<commits, table, unsaved, file, tmp, store>>
    BY <1>3, Zenon DEF Update, Pop, Done, Apply, Submit, ReadFails, history, disk
  <2>2. /\ \A u \in Views : u # v => pc'[u] = pc[u] /\ applied'[u] = applied[u]
        /\ pc[v] \in {"update", "apply", "submit"}
        /\ pc'[v] \notin {"full", "rename"}
    BY <1>i, <1>3, Zenon DEF Update, Pop, Done, Apply, Submit, ReadFails, Return, Call, local, TypeOK
  <2> QED BY <1>1, <1>i, <2>1, <2>2, Zenon
<1>4. ASSUME NEW v \in Views, Push(v)
      PROVE  Journal'
  <2>1. /\ commits' = commits + 1 /\ store' = store
        /\ pc[v] = "update" /\ pc' = [pc EXCEPT ![v] = "submit"]
        /\ applied' = [applied EXCEPT ![v] = commits + 1]
    BY <1>4, Zenon DEF Push, Call
  <2>2. PICK quiet \in SUBSET changelog[v] :
          /\ unsaved' = [l \in 1..(commits + 1) |->
                           IF l = commits + 1 THEN quiet ELSE unsaved[l]]
          /\ journal_add(commits + 1, changelog[v] \ quiet)
    BY <1>4, Zenon DEF Push
  <2> DEFINE new == {commits + 1} \X (changelog[v] \ quiet)
  <2>3. /\ file'.snapshot = file.snapshot /\ tmp'.snapshot = tmp.snapshot
        /\ store = "file" => file'.journal = file.journal \cup new
        /\ store = "tmp" => tmp'.journal = tmp.journal \cup new
    BY <2>2, <1>i, Zenon DEF journal_add, TypeOK, Files
  <2>4. /\ \A l \in 1..commits : table'[l] = table[l] /\ unsaved'[l] = unsaved[l]
        /\ table'[commits + 1] = changelog[v] /\ unsaved'[commits + 1] = quiet
    <3>1. table' = [l \in 1..(commits + 1) |->
                      IF l = commits + 1 THEN changelog[v] ELSE table[l]]
      BY <1>4, Zenon DEF Push
    <3> QED BY <1>i, <2>2, <3>1
  <2>5. ASSUME NEW f, NEW g, Journalled(f), g.snapshot = f.snapshot,
               g.journal = f.journal \cup new
        PROVE  /\ g.snapshot \in 0..(commits + 1)
               /\ \A l \in (g.snapshot + 1)..(commits + 1) :
                    \A r \in table'[l] \ unsaved'[l] : <<l, r>> \in g.journal
               /\ \A e \in g.journal :
                    e[1] \in (g.snapshot + 1)..(commits + 1) /\ e[2] \in table'[e[1]]
    <3>1. f.snapshot \in 0..commits /\ commits + 1 \in (f.snapshot + 1)..(commits + 1)
      BY <1>i, <2>5 DEF Journalled
    <3>2. ASSUME NEW l \in (g.snapshot + 1)..(commits + 1),
                 NEW r \in table'[l] \ unsaved'[l]
          PROVE  <<l, r>> \in g.journal
      <4>1. CASE l = commits + 1
        BY <2>4, <2>5, <3>2, <4>1, Zenon
      <4>2. CASE l # commits + 1
        <5>1. l \in (f.snapshot + 1)..commits /\ l \in 1..commits
          BY <1>i, <2>5, <3>1, <3>2, <4>2
        <5> QED BY <2>4, <2>5, <3>2, <5>1, Zenon DEF Journalled
      <4> QED BY <4>1, <4>2, Zenon
    <3>3. ASSUME NEW e \in g.journal
          PROVE  e[1] \in (g.snapshot + 1)..(commits + 1) /\ e[2] \in table'[e[1]]
      <4>1. CASE e \in f.journal
        <5>1. e[1] \in (f.snapshot + 1)..commits /\ e[2] \in table[e[1]]
          BY <2>5, <4>1, Zenon DEF Journalled
        <5>2. e[1] \in 1..commits /\ e[1] \in (f.snapshot + 1)..(commits + 1)
          BY <1>i, <3>1, <5>1
        <5> QED BY <2>4, <2>5, <5>1, <5>2, Zenon
      <4>2. CASE e \in new
        <5>1. e[1] = commits + 1 /\ e[2] \in changelog[v]
          BY <4>2, Zenon
        <5> QED BY <2>4, <2>5, <3>1, <5>1, Zenon
      <4> QED BY <2>5, <3>3, <4>1, <4>2, Zenon
    <3>4. g.snapshot \in 0..(commits + 1)
      BY <1>i, <2>5, <3>1
    <3> QED BY <3>2, <3>3, <3>4, Zenon
  <2> HIDE DEF new
  <2>6. store = "file" => Journalled(file)'
    BY <1>j, <2>1, <2>3, <2>5, Zenon DEF Journalled
  <2>7. store = "tmp" => Journalled(tmp)'
    BY <1>j, <2>1, <2>3, <2>5, Zenon DEF Journalled
  <2> QED BY <1>i, <1>j, <2>1, <2>3, <2>6, <2>7, Zenon DEF Journal, JournalComplete, TypeOK
<1>5. CASE Snapshot
  <2>1. /\ UNCHANGED <<commits, table, unsaved, applied, file, store>> /\ store # "tmp"
        /\ pc'[Base] = "full" /\ tmp'.snapshot = applied[Base]
    BY <1>5, <1>i, <1>j, Zenon DEF Snapshot, history, TypeOK
  <2> QED BY <1>j, <2>1, Zenon DEF Journal, JournalComplete, Journalled
<1>6. CASE PersistFull
  <2>1. /\ UNCHANGED <<commits, table, unsaved, applied, file>> /\ store' = "tmp"
        /\ pc[Base] = "full" /\ pc'[Base] = "rename"
        /\ tmp'.snapshot = tmp.snapshot /\ tmp'.journal \in journals(backlog)
    BY <1>6, <1>i, Zenon DEF PersistFull, history, TypeOK, Files
  <2>2. backlog = (applied[Base] + 1)..commits /\ applied[Base] \in 0..commits
    BY <1>i, <2>1, Backlog, Zenon DEF Taken, TypeOK
  <2>3. /\ \A l \in backlog : \A r \in table[l] \ unsaved[l] : <<l, r>> \in tmp'.journal
        /\ \A e \in tmp'.journal : e[1] \in backlog /\ e[2] \in table[e[1]]
    BY <2>1, Zenon DEF journals
  <2>4. Journalled(tmp)'
    BY <1>j, <2>1, <2>2, <2>3, Zenon DEF Journalled
  <2> QED BY <1>j, <2>1, <2>4, Zenon DEF Journal, JournalComplete
<1>7. CASE Rename
  <2>1. /\ UNCHANGED <<commits, table, unsaved, applied>> /\ store' = "file" /\ file' = tmp
        /\ pc[Base] = "rename" /\ pc'[Base] = "idle"
    BY <1>7, <1>i, Zenon DEF Rename, Return, history, TypeOK
  <2> QED BY <1>j, <2>1, Zenon DEF Journal, JournalComplete, Journalled
<1>8. CASE Restart
  <2>1. /\ commits' = restored /\ pc'[Base] = "idle"
        /\ store' = IF file.exists THEN "file" ELSE "none"
        /\ file'.snapshot = file.snapshot /\ file'.journal = {}
    BY <1>8, <1>i, Zenon DEF Restart, Recreate, TypeOK, Files
  <2>2. file.snapshot \in Nat
    BY <1>i, Zenon DEF TypeOK, Files
  <2>3. file.exists => commits' = file.snapshot
    BY <2>1, Zenon DEF restored
  <2>4. file.exists => Journalled(file)'
    BY <2>1, <2>2, <2>3 DEF Journalled
  <2> QED BY <2>1, <2>4, Zenon DEF Journal, JournalComplete
<1>9. CASE UNCHANGED vars
  BY <1>1, <1>9, Zenon DEF vars, history, local, disk
<1> QED BY <1>2, <1>3, <1>4, <1>5, <1>6, <1>7, <1>8, <1>9, Zenon DEF Next, Update

\* The state file, and the temporary one from the moment the journal goes
\* there, hold every new record of every commit, whenever the other views commit between the
\* snapshot, the switch of the journal and the rename.
THEOREM StateFileComplete == Spec => []JournalComplete
<1>1. Init => Journal
  BY CommitLogAssumption, Zenon DEF Init, Journal, JournalComplete
<1>2. IInv /\ Journal /\ [Next]_vars => Journal'
  BY JournalStep, Zenon
<1>3. Journal => JournalComplete
  BY Zenon DEF Journal
<1> QED BY <1>1, <1>2, <1>3, Invariant, PTL DEF Spec

=============================================================================
