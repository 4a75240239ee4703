------------------------ MODULE SignQueueInvariant -------------------------
(***************************************************************************)
(* The inductive invariant of the signing queue, for any number of workers *)
(* and drudgers, any size of queue and batch, and any number of reloads,   *)
(* and the steps of the workers, which keep it.                            *)
(*                                                                         *)
(* The argument is a count.  The records of a worker that are queued or    *)
(* being signed (Pending) are all different, and tasksOutstanding together *)
(* with what the worker has yet to add to it is never smaller than their   *)
(* number, although it goes below zero while the worker still pushes.  So  *)
(* when the wait of fifoq_waitfor() ends by itself, nothing is pending.    *)
(***************************************************************************)
EXTENDS SignQueue, FiniteSetTheorems, TLAPS

\* The records of worker w that are queued or being signed.
Pending(w) ==
  {r \in 1..MaxBatch :
     \/ \E i \in 1..Len(queue) : queue[i].owner = w /\ queue[i].record = r
     \/ \E d \in Drudgers : \E x \in held[d] : x.owner = w /\ x.record = r}

\* tasksOutstanding with the batch that fifoq_waitfor() has yet to add.
Owed(w) ==
  outstanding[w] + (IF pc[w] \in {"queue", "full"} THEN nsubtasks[w] ELSE 0)

\* A drudger holds one record, and only while it signs.
HeldWhileSigning ==
  \A d \in Drudgers :
    /\ held[d] # {} => pc[d] = "signing"
    /\ \A x, y \in held[d] : x = y

\* A record is in one place only.
QueuedOnce ==
  \A i, j \in 1..Len(queue) :
    queue[i].owner = queue[j].owner /\ queue[i].record = queue[j].record => i = j
QueuedOrHeld ==
  \A i \in 1..Len(queue), d \in Drudgers : \A x \in held[d] :
    ~ (queue[i].owner = x.owner /\ queue[i].record = x.record)
HeldOnce ==
  \A d, e \in Drudgers : \A x \in held[d], y \in held[e] :
    x.owner = y.owner /\ x.record = y.record => d = e

\* A worker and its batch: what is to be pushed is not pending; the count is
\* not below what is pending; between batches nothing is pending, unless the
\* worker has to exit; nothing is left to push once it waits; and as long as
\* nothing failed, every record is to be pushed, pending or signed.
Work(w) ==
  /\ todo[w] \cap Pending(w) = {}
  /\ Cardinality(Pending(w)) <= Owed(w)
  /\ pc[w] \in {"idle", "check"} /\ ~ need_to_exit[w] => Pending(w) = {}
  /\ pc[w] \in {"wait", "blocked", "check"} => todo[w] = {}
  /\ nsubtasks[w] + Cardinality(todo[w]) <= MaxBatch
  /\ /\ ~ need_to_exit[w]
     /\ \/ pc[w] \in {"queue", "full", "wait", "blocked"} /\ failed[w] = 0
        \/ pc[w] = "check" /\ nfailed[w] = 0
     => signed[w] \cup Pending(w) \cup todo[w] = 1..(nsubtasks[w] + Cardinality(todo[w]))

\* Contexts are freed when all drudgers and the worker are gone.
JoinedLast ==
  \A w \in Workers : ~ context[w] =>
    phase = "joining" /\ pc[w] = "exited" /\ \A d \in Drudgers : pc[d] = "exited"

\* What is queued was queued in this run of the engine.
ThisEra ==
  /\ \A i \in 1..Len(queue) : queue[i].era = era
  /\ \A d \in Drudgers : \A x \in held[d] : x.era = era

\* Threads are stopped only for a reload, and a reload is bounded.
StopsForReload ==
  /\ need_to_reload => era < MaxReloads
  /\ phase = "joining" => need_to_reload
  /\ \A t \in Threads : need_to_exit[t] => need_to_reload

IInv ==
  /\ TypeOK /\ StopsForReload /\ JoinedLast
  /\ HeldWhileSigning /\ QueuedOnce /\ QueuedOrHeld /\ HeldOnce /\ ThisEra
  /\ \A w \in Workers : Work(w)

-----------------------------------------------------------------------------
(* Pending, and what steps of the queue do to it.                          *)

\* The variables that are functions, for the steps that change one value.
LEMMA Functions ==
  ASSUME TypeOK
  PROVE  /\ pc \in [Threads -> WorkerAt \cup DrudgerAt]
         /\ todo \in [Workers -> SUBSET (1..MaxBatch)]
         /\ nsubtasks \in [Workers -> 0..MaxBatch]
         /\ outstanding \in [Workers -> Int]
         /\ failed \in [Workers -> Nat] /\ nfailed \in [Workers -> Nat]
         /\ signed \in [Workers -> SUBSET (1..MaxBatch)]
         /\ Workers \subseteq Threads /\ Drudgers \subseteq Threads
         /\ \A w \in Workers : w \notin Drudgers
BY SignQueueAssumption, Zenon DEF TypeOK, Threads

\* The records of a worker that are pending can be counted.
LEMMA PendingFinite ==
  \A w : IsFiniteSet(Pending(w)) /\ Cardinality(Pending(w)) \in Nat
<1> TAKE w
<1>1. IsFiniteSet(1..MaxBatch)
  BY FS_Interval, SignQueueAssumption
<1>2. Pending(w) \in SUBSET (1..MaxBatch)
  BY Zenon DEF Pending
<1>3. IsFiniteSet(Pending(w))
  BY <1>1, <1>2, FS_Subset, Zenon
<1> QED
  BY <1>3, FS_CardinalityType, Zenon

\* So can those it has still to push.
LEMMA TodoFinite ==
  ASSUME TypeOK, NEW w \in Workers
  PROVE  IsFiniteSet(todo[w]) /\ Cardinality(todo[w]) \in Nat
<1>1. IsFiniteSet(1..MaxBatch)
  BY FS_Interval, SignQueueAssumption
<1>2. todo[w] \in SUBSET (1..MaxBatch)
  BY Zenon DEF TypeOK
<1>3. IsFiniteSet(todo[w])
  BY <1>1, <1>2, FS_Subset, Zenon
<1> QED
  BY <1>3, FS_CardinalityType, Zenon

\* Steps that leave the queue and the drudgers' records alone.
LEMMA PendingKept ==
  UNCHANGED <<queue, held>> => \A w : Pending(w)' = Pending(w)
BY Zenon DEF Pending

\* fifoq_push() makes one record pending.
LEMMA PendingPush ==
  ASSUME TypeOK, NEW w \in Workers, NEW r \in 1..MaxBatch, Push(w, r)
  PROVE  /\ Pending(w)' = Pending(w) \cup {r}
         /\ \A v \in Workers \ {w} : Pending(v)' = Pending(v)
<1> DEFINE new == [owner |-> w, record |-> r, era |-> era]
<1>1. queue \in Seq(Items) /\ queue' = Append(queue, new) /\ held' = held
  BY Zenon DEF Push, TypeOK
<1>2. Len(queue) \in Nat /\ Len(queue') = Len(queue) + 1
  BY <1>1
<1>3. queue'[Len(queue) + 1] = new /\ \A i \in 1..Len(queue) : queue'[i] = queue[i]
  BY <1>1
<1>4. \A i \in 1..Len(queue') : i \in 1..Len(queue) \/ i = Len(queue) + 1
  BY <1>2
<1>5. 1..Len(queue) \subseteq 1..Len(queue') /\ Len(queue) + 1 \in 1..Len(queue')
  BY <1>2
<1> QED
  BY <1>1, <1>3, <1>4, <1>5 DEF Pending

\* fifoq_pop() moves a record from the queue to the drudger: it stays pending.
LEMMA PendingPop ==
  ASSUME TypeOK, HeldWhileSigning, NEW d \in Drudgers, Pop(d)
  PROVE  \A w : Pending(w)' = Pending(w)
<1>1. queue \in Seq(Items) /\ queue # <<>> /\ queue' = Tail(queue)
  BY Zenon DEF Pop, TypeOK
<1>2. Len(queue) \in Nat /\ Len(queue) >= 1 /\ Len(queue') = Len(queue) - 1
  BY <1>1
<1>3. \A i \in 1..Len(queue') : i + 1 \in 1..Len(queue) /\ queue'[i] = queue[i + 1]
  BY <1>1, <1>2
<1>4. \A i \in 1..Len(queue) : i = 1 \/ (i - 1 \in 1..Len(queue') /\ queue'[i - 1] = queue[i])
  <2> SUFFICES ASSUME NEW i \in 1..Len(queue), i # 1
               PROVE  i - 1 \in 1..Len(queue') /\ queue'[i - 1] = queue[i]
    BY Zenon
  <2>1. i - 1 \in 1..Len(queue') /\ (i - 1) + 1 = i
    BY <1>2
  <2> QED
    BY <2>1, <1>3, Zenon
<1>5. held[d] = {} /\ held'[d] = {queue[1]} /\ \A e \in Drudgers \ {d} : held'[e] = held[e]
  <2>1. pc[d] # "signing" /\ held' = [held EXCEPT ![d] = {Head(queue)}]
    BY Zenon DEF Pop
  <2>2. Head(queue) = queue[1] /\ held \in [Drudgers -> SUBSET Items]
    BY <1>1 DEF TypeOK
  <2> QED
    BY <2>1, <2>2, Zenon DEF HeldWhileSigning
<1>6. 1 \in 1..Len(queue)
  BY <1>2
<1> TAKE w
<1>7. ASSUME NEW r \in Pending(w) PROVE r \in Pending(w)'
  BY <1>7, <1>4, <1>5 DEF Pending
<1>8. ASSUME NEW r \in Pending(w)' PROVE r \in Pending(w)
  BY <1>8, <1>3, <1>5, <1>6 DEF Pending
<1> QED
  BY <1>7, <1>8, Zenon

\* fifoq_report() ends the pending of the record that was signed.
LEMMA PendingReport ==
  ASSUME IInv, NEW d \in Drudgers, NEW item \in held[d],
         NEW status \in {"ok", "error", "hsm"}, SignAndReport(d, item, status)
  PROVE  /\ item.owner \in Workers /\ item.record \in Pending(item.owner)
         /\ Pending(item.owner)' = Pending(item.owner) \ {item.record}
         /\ \A w \in Workers \ {item.owner} : Pending(w)' = Pending(w)
<1>1. item \in Items /\ held \in [Drudgers -> SUBSET Items]
  BY Zenon DEF IInv, TypeOK
<1>2. item.owner \in Workers /\ item.record \in 1..MaxBatch
  BY <1>1, Zenon DEF Items
<1>3. queue' = queue /\ held'[d] = {} /\ \A e \in Drudgers \ {d} : held'[e] = held[e]
  BY <1>1, Zenon DEF SignAndReport
<1>4. held[d] = {item}
  BY Zenon DEF IInv, HeldWhileSigning
<1>5. \A i \in 1..Len(queue) : ~ (queue[i].owner = item.owner /\ queue[i].record = item.record)
  BY Zenon DEF IInv, QueuedOrHeld
<1>6. \A e \in Drudgers \ {d} : \A x \in held[e] :
        ~ (x.owner = item.owner /\ x.record = item.record)
  BY Zenon DEF IInv, HeldOnce
<1> QED
  BY <1>2, <1>3, <1>4, <1>5, <1>6 DEF Pending

-----------------------------------------------------------------------------
(* Types.                                                                  *)

\* The types, which need the count of a batch: nsubtasks stays within it.
LEMMA TypesKept == IInv /\ [Next]_vars => TypeOK'
<1> SUFFICES ASSUME IInv, [Next]_vars PROVE TypeOK'
  BY Zenon
<1>a. TypeOK
  BY Zenon DEF IInv
<1> USE SignQueueAssumption DEF Threads
<1>1. ASSUME NEW w \in Workers, NEW n \in 0..MaxBatch, BeginSign(w, n) PROVE TypeOK'
  BY <1>a, <1>1 DEF TypeOK, BeginSign, engineVars, countVars, WorkerAt
<1>2. ASSUME NEW w \in Workers, NEW r \in todo[w], Push(w, r) PROVE TypeOK'
  <2>1. nsubtasks[w] + 1 \in 0..MaxBatch
    <3>1. Cardinality(todo[w]) \in Nat /\ IsFiniteSet(todo[w])
      BY <1>a, TodoFinite, Zenon
    <3>2. Cardinality(todo[w]) # 0
      BY <3>1, FS_EmptySet, Zenon
    <3>3. nsubtasks[w] + Cardinality(todo[w]) <= MaxBatch /\ nsubtasks[w] \in Nat
      BY <1>a DEF IInv, Work, TypeOK
    <3> QED
      BY <3>1, <3>2, <3>3
  <2>2. queue' \in Seq(Items) /\ Len(queue') <= MaxCount
    <3>1. [owner |-> w, record |-> r, era |-> era] \in Items
      BY <1>a, Zenon DEF TypeOK, Items
    <3> QED
      BY <1>a, <1>2, <3>1 DEF TypeOK, Push, is_full
  <2>3. /\ pc' \in [Threads -> WorkerAt \cup DrudgerAt]
        /\ \A v \in Workers : pc'[v] \in WorkerAt
        /\ \A d \in Drudgers : pc'[d] \in DrudgerAt
    BY <1>a, <1>2, Zenon DEF TypeOK, Push, push_notify, q_threshold, Broadcast, DrudgerAt
  <2>4. /\ todo' \in [Workers -> SUBSET (1..MaxBatch)]
        /\ nsubtasks' \in [Workers -> 0..MaxBatch]
        /\ tries' \in [Workers -> 0..(MaxTries + 2)]
    <3>1. /\ todo \in [Workers -> SUBSET (1..MaxBatch)]
          /\ nsubtasks \in [Workers -> 0..MaxBatch]
          /\ tries \in [Workers -> 0..(MaxTries + 2)] /\ 0 \in 0..(MaxTries + 2)
      BY <1>a DEF TypeOK
    <3>2. /\ todo' = [todo EXCEPT ![w] = todo[w] \ {r}]
          /\ nsubtasks' = [nsubtasks EXCEPT ![w] = nsubtasks[w] + 1]
          /\ tries' = [tries EXCEPT ![w] = 0]
      BY <1>2, Zenon DEF Push
    <3>3. todo' \in [Workers -> SUBSET (1..MaxBatch)]
      BY <3>1, <3>2, Zenon
    <3>4. nsubtasks' \in [Workers -> 0..MaxBatch]
      BY <2>1, <3>1, <3>2, Zenon
    <3>5. tries' \in [Workers -> 0..(MaxTries + 2)]
      BY <3>1, <3>2, Zenon
    <3> QED
      BY <3>3, <3>4, <3>5, Zenon
  <2>5. UNCHANGED <<nfailed, countVars, held, engineVars, signed>>
    BY <1>2, Zenon DEF Push
  <2> QED
    BY <1>a, <2>2, <2>3, <2>4, <2>5, Zenon DEF TypeOK, engineVars, countVars
<1>3. ASSUME NEW w \in Workers, NEW r \in todo[w], PushFull(w, r) PROVE TypeOK'
  <2> DEFINE woken == IF tries[w] > MaxTries THEN q_threshold(pc) ELSE pc
  <2>1. /\ woken \in [Threads -> WorkerAt \cup DrudgerAt]
        /\ \A v \in Workers : woken[v] \in WorkerAt
        /\ \A d \in Drudgers : woken[d] \in DrudgerAt
    BY <1>a, Zenon DEF TypeOK, q_threshold, Broadcast, DrudgerAt
  <2>2. pc' = woken \/ pc' = [woken EXCEPT ![w] = "full"]
    BY <1>3, Zenon DEF PushFull
  <2>3. /\ pc' \in [Threads -> WorkerAt \cup DrudgerAt]
        /\ \A v \in Workers : pc'[v] \in WorkerAt
        /\ \A d \in Drudgers : pc'[d] \in DrudgerAt
    <3> HIDE DEF woken
    <3> QED
      BY <2>1, <2>2, Zenon DEF WorkerAt
  <2>4. tries' \in [Workers -> 0..(MaxTries + 2)]
    <3>1. tries[w] \in 0..(MaxTries + 2)
      BY <1>a, Zenon DEF TypeOK
    <3>2. \/ tries' = [tries EXCEPT ![w] = 0]
          \/ tries' = [tries EXCEPT ![w] = IF tries[w] > MaxTries THEN 1 ELSE tries[w] + 1]
      BY <1>3, Zenon DEF PushFull
    <3>3. (IF tries[w] > MaxTries THEN 1 ELSE tries[w] + 1) \in 0..(MaxTries + 2)
      BY <3>1
    <3>4. tries \in [Workers -> 0..(MaxTries + 2)] /\ 0 \in 0..(MaxTries + 2)
      BY <1>a DEF TypeOK
    <3>5. CASE tries' = [tries EXCEPT ![w] = 0]
      BY <3>4, <3>5, Zenon
    <3>6. CASE tries' = [tries EXCEPT ![w] = IF tries[w] > MaxTries THEN 1 ELSE tries[w] + 1]
      BY <3>3, <3>4, <3>6, Zenon
    <3> QED
      BY <3>2, <3>5, <3>6, Zenon
  <2>5. todo' \in [Workers -> SUBSET (1..MaxBatch)]
    <3>1. todo' = todo \/ todo' = [todo EXCEPT ![w] = todo[w] \ {r}]
      BY <1>3, Zenon DEF PushFull
    <3>2. todo \in [Workers -> SUBSET (1..MaxBatch)]
      BY <1>a, Zenon DEF TypeOK
    <3>3. CASE todo' = todo
      BY <3>2, <3>3, Zenon
    <3>4. CASE todo' = [todo EXCEPT ![w] = todo[w] \ {r}]
      BY <3>2, <3>4, Zenon
    <3> QED
      BY <3>1, <3>3, <3>4, Zenon
  <2> QED
    BY <1>a, <1>3, <2>3, <2>4, <2>5, Zenon DEF TypeOK, PushFull, engineVars, countVars
<1>4. ASSUME NEW w \in Workers, FullTimeout(w) PROVE TypeOK'
  BY <1>a, <1>4 DEF TypeOK, FullTimeout, engineVars, countVars, workVars, WorkerAt
<1>5. ASSUME NEW w \in Workers, WaitFor(w) PROVE TypeOK'
  <2>1. outstanding' \in [Workers -> Int]
    BY <1>a, <1>5 DEF TypeOK, WaitFor
  <2>2. failed' \in [Workers -> Nat] /\ nfailed' \in [Workers -> Nat]
    <3>1. \/ failed' = failed /\ nfailed' = nfailed
          \/ failed' = [failed EXCEPT ![w] = 0] /\ nfailed' = [nfailed EXCEPT ![w] = failed[w]]
      BY <1>5, Zenon DEF WaitFor
    <3>2. failed \in [Workers -> Nat] /\ nfailed \in [Workers -> Nat]
      BY <1>a, Zenon DEF TypeOK
    <3>3. CASE failed' = failed /\ nfailed' = nfailed
      BY <3>2, <3>3, Zenon
    <3>4. CASE /\ failed' = [failed EXCEPT ![w] = 0]
               /\ nfailed' = [nfailed EXCEPT ![w] = failed[w]]
      BY <3>2, <3>4, Zenon
    <3> QED
      BY <3>1, <3>3, <3>4, Zenon
  <2>3. /\ pc' \in [Threads -> WorkerAt \cup DrudgerAt]
        /\ \A v \in Workers : pc'[v] \in WorkerAt
        /\ \A d \in Drudgers : pc'[d] \in DrudgerAt
    <3>1. pc' = [pc EXCEPT ![w] = "blocked"] \/ pc' = [pc EXCEPT ![w] = "check"]
      BY <1>5, Zenon DEF WaitFor
    <3>2. /\ pc \in [Threads -> WorkerAt \cup DrudgerAt] /\ w \in Threads /\ w \notin Drudgers
          /\ \A v \in Workers : pc[v] \in WorkerAt
          /\ \A d \in Drudgers : pc[d] \in DrudgerAt
          /\ "blocked" \in WorkerAt /\ "check" \in WorkerAt
      BY <1>a, Zenon DEF TypeOK, WorkerAt
    <3>3. CASE pc' = [pc EXCEPT ![w] = "blocked"]
      BY <3>2, <3>3, Zenon
    <3>4. CASE pc' = [pc EXCEPT ![w] = "check"]
      BY <3>2, <3>4, Zenon
    <3> QED
      BY <3>1, <3>3, <3>4, Zenon
  <2> QED
    BY <1>a, <1>5, <2>1, <2>2, <2>3, Zenon DEF TypeOK, WaitFor, engineVars
<1>6. ASSUME NEW w \in Workers, CommitSign(w) PROVE TypeOK'
  BY <1>a, <1>6 DEF TypeOK, CommitSign, engineVars, countVars, workVars, WorkerAt
<1>7. ASSUME NEW w \in Workers, WorkerExit(w) PROVE TypeOK'
  BY <1>a, <1>7 DEF TypeOK, WorkerExit, engineVars, countVars, workVars, WorkerAt
<1>8. ASSUME NEW d \in Drudgers, Pop(d) PROVE TypeOK'
  <2>1. queue' \in Seq(Items) /\ Len(queue') <= MaxCount /\ Head(queue) \in Items
    BY <1>a, <1>8 DEF TypeOK, Pop
  <2>2. held' \in [Drudgers -> SUBSET Items]
    BY <1>a, <1>8, <2>1, Zenon DEF TypeOK, Pop
  <2>3. /\ pc' \in [Threads -> WorkerAt \cup DrudgerAt]
        /\ \A v \in Workers : pc'[v] \in WorkerAt
        /\ \A e \in Drudgers : pc'[e] \in DrudgerAt
    BY <1>a, <1>8 DEF TypeOK, Pop, q_nonfull, Broadcast, DrudgerAt, WorkerAt
  <2> QED
    BY <1>a, <1>8, <2>1, <2>2, <2>3, Zenon DEF TypeOK, Pop, engineVars, countVars, workVars
<1>9. ASSUME NEW d \in Drudgers, PopNothing(d) PROVE TypeOK'
  BY <1>a, <1>9 DEF TypeOK, PopNothing, engineVars, countVars, workVars, DrudgerAt
<1>10. ASSUME NEW d \in Drudgers, DrudgerExit(d) PROVE TypeOK'
  BY <1>a, <1>10 DEF TypeOK, DrudgerExit, engineVars, countVars, workVars, DrudgerAt
<1>11. ASSUME NEW d \in Drudgers, NEW item \in held[d],
              NEW status \in {"ok", "error", "hsm"}, SignAndReport(d, item, status)
       PROVE  TypeOK'
  <2>1. item.owner \in Workers /\ item.record \in 1..MaxBatch
    BY <1>a DEF TypeOK, Items
  <2>2. signed' \in [Workers -> SUBSET (1..MaxBatch)]
    <3>1. signed \in [Workers -> SUBSET (1..MaxBatch)]
      BY <1>a, Zenon DEF TypeOK
    <3>2. \/ signed' = signed
          \/ signed' = [signed EXCEPT ![item.owner] = signed[item.owner] \cup {item.record}]
      BY <1>11, Zenon DEF SignAndReport
    <3>3. CASE signed' = signed
      BY <3>1, <3>3, Zenon
    <3>4. CASE signed' = [signed EXCEPT ![item.owner] = signed[item.owner] \cup {item.record}]
      BY <2>1, <3>1, <3>4, Zenon
    <3> QED
      BY <3>2, <3>3, <3>4, Zenon
  <2>3. /\ pc' \in [Threads -> WorkerAt \cup DrudgerAt]
        /\ \A v \in Workers : pc'[v] \in WorkerAt
        /\ \A e \in Drudgers : pc'[e] \in DrudgerAt
    <3> DEFINE p == [pc EXCEPT ![d] = "idle"]
    <3>1. /\ p \in [Threads -> WorkerAt \cup DrudgerAt]
          /\ \A v \in Workers : p[v] \in WorkerAt
          /\ \A e \in Drudgers : p[e] \in DrudgerAt
      BY <1>a, Zenon DEF TypeOK, DrudgerAt
    <3>2. pc' = p \/ pc' = [p EXCEPT ![item.owner] = "wait"]
      BY <1>11, Zenon DEF SignAndReport, report_signal
    <3> HIDE DEF p
    <3>3. CASE pc' = p
      BY <3>1, <3>3, Zenon
    <3>4. CASE pc' = [p EXCEPT ![item.owner] = "wait"]
      <4>1. item.owner \in Threads /\ item.owner \notin Drudgers
        BY <2>1, Zenon
      <4> QED
        BY <2>1, <3>1, <3>4, <4>1, Zenon DEF WorkerAt
    <3> QED
      BY <3>2, <3>3, <3>4, Zenon
  <2>4. failed' \in [Workers -> Nat] /\ outstanding' \in [Workers -> Int]
    <3>1. failed \in [Workers -> Nat] /\ outstanding \in [Workers -> Int]
      BY <1>a, Zenon DEF TypeOK
    <3>2. failed' = failed \/ failed' = [failed EXCEPT ![item.owner] = failed[item.owner] + 1]
      BY <1>11, Zenon DEF SignAndReport, report_failed
    <3>3. failed' \in [Workers -> Nat]
      BY <2>1, <3>1, <3>2
    <3> QED
      BY <1>11, <2>1, <3>1, <3>3 DEF SignAndReport
  <2>5. held' \in [Drudgers -> SUBSET Items]
    BY <1>a, <1>11, Zenon DEF TypeOK, SignAndReport
  <2>6. need_to_reload' \in BOOLEAN
    BY <1>11, Zenon DEF SignAndReport
  <2> QED
    BY <1>a, <1>11, <2>2, <2>3, <2>4, <2>5, <2>6, Zenon DEF TypeOK, SignAndReport, workVars
<1>12. CASE ReloadCommand
  BY <1>a, <1>12, Zenon DEF TypeOK, ReloadCommand, countVars, workVars
<1>13. ASSUME NEW t \in Threads, StopThread(t) PROVE TypeOK'
  BY <1>a, <1>13, Zenon DEF TypeOK, StopThread, countVars, workVars
<1>14. CASE NotifyAll
  BY <1>a, <1>14, Zenon DEF TypeOK, NotifyAll, countVars, workVars, q_nonfull, q_threshold,
                     Broadcast, DrudgerAt, WorkerAt
<1>15. ASSUME NEW w \in Workers, JoinWorker(w) PROVE TypeOK'
  BY <1>a, <1>15, Zenon DEF TypeOK, JoinWorker, countVars, workVars
<1>16. CASE Reload
  <2>1. era' \in 0..MaxReloads
    BY <1>a, <1>16 DEF TypeOK, Reload, IInv, StopsForReload
  <2>2. queue' \in Seq(Items) /\ Len(queue') <= MaxCount
    BY <1>16 DEF Reload
  <2> QED
    BY <1>a, <1>16, <2>1, <2>2, Zenon DEF TypeOK, Reload, countVars, workVars, DrudgerAt, WorkerAt
<1>17. CASE UNCHANGED vars
  BY <1>a, <1>17, Zenon DEF TypeOK, vars, countVars, workVars, engineVars
<1> QED
  BY <1>1, <1>2, <1>3, <1>4, <1>5, <1>6, <1>7, <1>8, <1>9, <1>10, <1>11, <1>12, <1>13,
     <1>14, <1>15, <1>16, <1>17, Zenon DEF Next, WorkerStep, DrudgerStep, EngineStep

-----------------------------------------------------------------------------
(* Steps that change little.                                               *)

\* A worker's part of the invariant stays when none of its counts changes.
LEMMA WorkKept ==
  ASSUME TypeOK, NEW w \in Workers, Work(w), Pending(w)' = Pending(w),
         todo'[w] = todo[w], nsubtasks'[w] = nsubtasks[w],
         outstanding'[w] = outstanding[w], failed'[w] = failed[w],
         nfailed'[w] = nfailed[w], signed'[w] = signed[w],
         need_to_exit[w] => need_to_exit'[w],
         \/ pc'[w] = pc[w]
         \/ pc[w] \in {"queue", "full"} /\ pc'[w] \in {"queue", "full"}
         \/ pc[w] = "check" /\ pc'[w] = "idle"
         \/ pc[w] = "idle" /\ pc'[w] = "exited"
  PROVE  Work(w)'
<1>1. CASE pc'[w] = pc[w]
  BY <1>1, Zenon DEF Work, Owed
<1>2. CASE pc[w] \in {"queue", "full"} /\ pc'[w] \in {"queue", "full"}
  BY <1>2, Zenon DEF Work, Owed
<1>3. CASE pc[w] = "check" /\ pc'[w] = "idle"
  BY <1>3, Zenon DEF Work, Owed
<1>4. CASE pc[w] = "idle" /\ pc'[w] = "exited"
  BY <1>4, Zenon DEF Work, Owed
<1> QED
  BY <1>1, <1>2, <1>3, <1>4, Zenon

\* A step that leaves the queue and the records held alone.
LEMMA QuietStep ==
  ASSUME IInv, TypeOK', StopsForReload', UNCHANGED <<queue, held, context, era>>,
         phase = "joining" => phase' = "joining",
         \A t \in Threads : pc[t] \in {"exited", "signing"} => pc'[t] = pc[t],
         \A w \in Workers : Work(w)'
  PROVE  IInv'
<1>1. JoinedLast'
  BY Zenon DEF IInv, JoinedLast, Threads
<1>2. HeldWhileSigning'
  BY Zenon DEF IInv, HeldWhileSigning, Threads
<1>3. QueuedOnce' /\ QueuedOrHeld' /\ HeldOnce' /\ ThisEra'
  BY DEF IInv, QueuedOnce, QueuedOrHeld, HeldOnce, ThisEra
<1> QED
  BY <1>1, <1>2, <1>3, Zenon DEF IInv

\* What the broadcasts do to the threads.
LEMMA Woken ==
  ASSUME NEW p, NEW t \in Threads
  PROVE  /\ q_threshold(p)[t] = IF t \in Drudgers /\ p[t] = "waiting" THEN "woken" ELSE p[t]
         /\ q_nonfull(p)[t] = IF t \in Workers /\ p[t] = "full" THEN "queue" ELSE p[t]
BY Zenon DEF q_threshold, q_nonfull, Broadcast

-----------------------------------------------------------------------------
(* One lemma per step that changes a batch, the queue or the records held. *)

\* worker_queue_zone() starts with nothing pending.
LEMMA BeginSignKept ==
  ASSUME IInv, TypeOK', NEW w \in Workers, NEW n \in 0..MaxBatch, BeginSign(w, n)
  PROVE  IInv'
<1>a. TypeOK /\ SignQueueAssumption
  BY SignQueueAssumption, Zenon DEF IInv
<1>1. UNCHANGED <<queue, held>> /\ \A v : Pending(v)' = Pending(v)
  BY PendingKept, Zenon DEF BeginSign
<1>2. ASSUME NEW v \in Workers PROVE Work(v)'
  <2>1. CASE v # w
    <3>1. /\ pc'[v] = pc[v] /\ todo'[v] = todo[v] /\ nsubtasks'[v] = nsubtasks[v]
          /\ signed'[v] = signed[v] /\ UNCHANGED <<countVars, nfailed, need_to_exit>>
      BY <1>a, <2>1, Functions, Zenon DEF BeginSign, engineVars
    <3> QED
      BY <1>a, <1>1, <3>1, WorkKept, Zenon DEF IInv, countVars
  <2>2. CASE v = w
    <3>1. /\ pc'[w] = "queue" /\ todo'[w] = 1..n /\ nsubtasks'[w] = 0 /\ signed'[w] = {}
          /\ UNCHANGED <<countVars, nfailed, need_to_exit>>
      BY <1>a, Functions, Zenon DEF BeginSign, engineVars
    <3>2. Pending(w) = {} /\ Cardinality(Pending(w)) <= Owed(w) /\ Owed(w) = outstanding[w]
      <4>1. outstanding[w] \in Int /\ Work(w)
        BY <1>a, Functions, Zenon DEF IInv
      <4> QED
        BY <4>1 DEF Work, BeginSign, Owed
    <3>3. Cardinality(Pending(w)) = 0 /\ outstanding[w] \in Int
      BY <1>a, <3>2, FS_EmptySet, Functions, Zenon
    <3>4. Cardinality(1..n) = n
      BY <1>a, FS_Interval
    <3>5. Pending(w)' = {} /\ Cardinality(Pending(w)') = 0
      BY <1>1, <3>2, <3>3, Zenon
    <3>6. Owed(w)' = outstanding[w] /\ 0 <= outstanding[w]
      BY <3>1, <3>2, <3>3 DEF Owed, countVars
    <3>7. /\ nsubtasks'[w] + Cardinality(todo'[w]) = n /\ n <= MaxBatch
          /\ signed'[w] \cup Pending(w)' \cup todo'[w] = 1..n
      BY <1>a, <3>1, <3>4, <3>5
    <3> QED
      BY <2>2, <3>1, <3>5, <3>6, <3>7, Zenon DEF Work
  <2> QED
    BY <2>1, <2>2, Zenon
<1>3. StopsForReload'
  BY Zenon DEF IInv, StopsForReload, BeginSign, engineVars
<1>4. \A t \in Threads : pc[t] \in {"exited", "signing"} => pc'[t] = pc[t]
  BY <1>a, Zenon DEF BeginSign, TypeOK
<1> QED
  BY <1>1, <1>2, <1>3, <1>4, QuietStep, Zenon DEF BeginSign, engineVars

\* fifoq_push() adds one to what is pending and one to what is owed.
LEMMA PushKept ==
  ASSUME IInv, TypeOK', NEW w \in Workers, NEW r \in todo[w], Push(w, r)
  PROVE  IInv'
<1>a. TypeOK /\ SignQueueAssumption
  BY SignQueueAssumption, Zenon DEF IInv
<1>b. r \in 1..MaxBatch
  BY <1>a, Zenon DEF TypeOK
<1> DEFINE new == [owner |-> w, record |-> r, era |-> era]
<1>1. queue \in Seq(Items) /\ queue' = Append(queue, new) /\ held' = held /\ era' = era
  BY <1>a, Zenon DEF Push, TypeOK, engineVars
<1>2. Len(queue) \in Nat /\ Len(queue') = Len(queue) + 1
  BY <1>1
<1>3. queue'[Len(queue) + 1] = new /\ \A i \in 1..Len(queue) : queue'[i] = queue[i]
  BY <1>1
<1>4. \A i \in 1..Len(queue') : i \in 1..Len(queue) \/ i = Len(queue) + 1
  BY <1>2
<1>5. r \notin Pending(w)
  BY Zenon DEF IInv, Work
<1>6. \A i \in 1..Len(queue) : ~ (queue[i].owner = w /\ queue[i].record = r)
  BY <1>b, <1>5, Zenon DEF Pending
<1>7. \A d \in Drudgers : \A x \in held[d] : ~ (x.owner = w /\ x.record = r)
  BY <1>b, <1>5, Zenon DEF Pending
<1>8. QueuedOnce'
  BY <1>3, <1>4, <1>6 DEF IInv, QueuedOnce
<1>9. QueuedOrHeld' /\ HeldOnce' /\ ThisEra'
  BY <1>1, <1>3, <1>4, <1>7 DEF IInv, QueuedOrHeld, HeldOnce, ThisEra
<1>10. /\ \A t \in Workers : pc'[t] = pc[t]
       /\ \A t \in Drudgers : pc'[t] = pc[t] \/ (pc[t] = "waiting" /\ pc'[t] = "woken")
  BY <1>a, Woken, Zenon DEF Push, push_notify, Threads
<1>11. HeldWhileSigning' /\ JoinedLast' /\ StopsForReload'
  <2>1. UNCHANGED engineVars
    BY Zenon DEF Push
  <2>2. HeldWhileSigning'
    BY <1>1, <1>10 DEF IInv, HeldWhileSigning
  <2>3. JoinedLast'
    BY <1>10, <2>1, Zenon DEF IInv, JoinedLast, engineVars
  <2>4. StopsForReload'
    BY <2>1, Zenon DEF IInv, StopsForReload, engineVars
  <2> QED
    BY <2>2, <2>3, <2>4, Zenon
<1>12. ASSUME NEW v \in Workers PROVE Work(v)'
  <2>1. CASE v # w
    <3>1. /\ pc'[v] = pc[v] /\ todo'[v] = todo[v] /\ nsubtasks'[v] = nsubtasks[v]
          /\ UNCHANGED <<countVars, nfailed, need_to_exit, signed>>
      BY <1>a, <1>10, <2>1, Functions, Zenon DEF Push, engineVars
    <3>2. Pending(v)' = Pending(v)
      BY <1>a, <1>b, <2>1, PendingPush, Zenon
    <3> QED
      BY <1>a, <3>1, <3>2, WorkKept, Zenon DEF IInv, countVars
  <2>2. CASE v = w
    <3>1. /\ pc'[w] = "queue" /\ pc[w] = "queue" /\ todo'[w] = todo[w] \ {r}
          /\ nsubtasks'[w] = nsubtasks[w] + 1
          /\ UNCHANGED <<countVars, nfailed, need_to_exit, signed>>
      BY <1>a, <1>10, Functions, Zenon DEF Push, engineVars
    <3>2. Pending(w)' = Pending(w) \cup {r}
      BY <1>a, <1>b, PendingPush, Zenon
    <3>3. Cardinality(Pending(w)') = Cardinality(Pending(w)) + 1
      BY <1>5, <3>2, PendingFinite, FS_AddElement, Zenon
    <3>4. Cardinality(todo'[w]) = Cardinality(todo[w]) - 1
      <4>1. IsFiniteSet(todo[w]) /\ todo'[w] = todo[w] \ {r}
        BY <1>a, <3>1, TodoFinite, Zenon
      <4> QED
        BY <4>1, FS_RemoveElement, Zenon
    <3>5. Cardinality(todo[w]) \in Nat /\ Cardinality(Pending(w)) \in Nat
      BY <1>a, TodoFinite, PendingFinite, Zenon
    <3>6. nsubtasks[w] \in Nat /\ outstanding[w] \in Int
      BY <1>a DEF TypeOK
    <3>7. Work(w)
      BY Zenon DEF IInv
    <3>8. todo'[w] \cap Pending(w)' = {}
      BY <3>1, <3>2, <3>7, Zenon DEF Work
    <3>9. Cardinality(Pending(w)') <= Owed(w)'
      <4>1. Owed(w) = outstanding[w] + nsubtasks[w]
        BY <3>1, Zenon DEF Owed
      <4>2. Owed(w)' = outstanding[w] + (nsubtasks[w] + 1)
        BY <3>1, Zenon DEF Owed, countVars
      <4>3. Cardinality(Pending(w)) <= Owed(w)
        BY <3>7, Zenon DEF Work
      <4> QED
        BY <3>3, <3>5, <3>6, <4>1, <4>2, <4>3
    <3>10. nsubtasks'[w] + Cardinality(todo'[w]) = nsubtasks[w] + Cardinality(todo[w])
      <4>1. \A a, b \in Nat : (a + 1) + (b - 1) = a + b
        OBVIOUS
      <4> QED
        BY <3>1, <3>4, <3>5, <3>6, <4>1
    <3>11. signed'[w] \cup Pending(w)' \cup todo'[w] = signed[w] \cup Pending(w) \cup todo[w]
      BY <3>1, <3>2, Zenon
    <3> QED
      BY <2>2, <3>1, <3>7, <3>8, <3>9, <3>10, <3>11, Zenon DEF Work, countVars
  <2> QED
    BY <2>1, <2>2, Zenon
<1> QED
  BY <1>8, <1>9, <1>11, <1>12, Zenon DEF IInv

\* A full queue lets the worker sleep, or drop the record when it has to exit.
LEMMA PushFullKept ==
  ASSUME IInv, TypeOK', NEW w \in Workers, NEW r \in todo[w], PushFull(w, r)
  PROVE  IInv'
<1>a. TypeOK /\ SignQueueAssumption
  BY SignQueueAssumption, Zenon DEF IInv
<1>1. /\ UNCHANGED <<queue, held, nsubtasks, nfailed, countVars, engineVars, signed>>
      /\ \A v : Pending(v)' = Pending(v)
  BY PendingKept, Zenon DEF PushFull
<1>2. /\ pc[w] = "queue"
      /\ \/ need_to_exit[w] /\ todo' = [todo EXCEPT ![w] = todo[w] \ {r}]
         \/ todo' = todo
  BY Zenon DEF PushFull
<1>3. pc \in [Threads -> WorkerAt \cup DrudgerAt]
  BY <1>a, Zenon DEF TypeOK
<1>4. \A t \in Threads :
        \/ pc'[t] = pc[t]
        \/ t = w /\ pc'[t] = "full"
        \/ pc[t] = "waiting" /\ pc'[t] = "woken" /\ t \in Drudgers
  <2> DEFINE woken == IF tries[w] > MaxTries THEN q_threshold(pc) ELSE pc
  <2>1. \A t \in Threads :
          \/ woken[t] = pc[t]
          \/ pc[t] = "waiting" /\ woken[t] = "woken" /\ t \in Drudgers
    BY Woken, Zenon
  <2>2. woken \in [Threads -> {woken[t] : t \in Threads}]
    BY <1>3, Zenon DEF q_threshold, Broadcast
  <2>3. pc' = woken \/ pc' = [woken EXCEPT ![w] = "full"]
    BY Zenon DEF PushFull
  <2> HIDE DEF woken
  <2>4. CASE pc' = woken
    BY <2>1, <2>4, Zenon
  <2>5. CASE pc' = [woken EXCEPT ![w] = "full"]
    BY <2>1, <2>2, <2>5, Zenon
  <2> QED
    BY <2>3, <2>4, <2>5, Zenon
<1>5. w \in Threads /\ \A v \in Workers : v \in Threads /\ v \notin Drudgers
  BY <1>a, SignQueueAssumption, Zenon DEF Threads
<1>6. ASSUME NEW v \in Workers PROVE Work(v)'
  <2>1. CASE todo'[v] = todo[v]
    <3>1. pc'[v] = pc[v] \/ (pc[v] = "queue" /\ pc'[v] = "full")
      BY <1>2, <1>4, <1>5, Zenon
    <3> QED
      BY <1>a, <1>1, <2>1, <3>1, WorkKept, Zenon DEF IInv, countVars, engineVars
  <2>2. CASE todo'[v] # todo[v]
    <3>1. v = w /\ need_to_exit[w] /\ todo'[w] = todo[w] \ {r}
      BY <1>a, <1>2, <2>2, Zenon DEF TypeOK
    <3>2. Cardinality(todo'[w]) = Cardinality(todo[w]) - 1 /\ Cardinality(todo[w]) \in Nat
      <4>1. IsFiniteSet(todo[w]) /\ Cardinality(todo[w]) \in Nat
        BY <1>a, TodoFinite, Zenon
      <4>2. Cardinality(todo[w] \ {r}) = Cardinality(todo[w]) - 1
        BY <4>1, FS_RemoveElement, Zenon
      <4> QED
        BY <3>1, <4>1, <4>2, Zenon
    <3>3. pc'[w] \in {"queue", "full"}
      BY <1>2, <1>4, <1>5, Zenon
    <3>4. nsubtasks[w] \in Nat
      BY <1>a DEF TypeOK
    <3>5. Work(w)
      BY Zenon DEF IInv
    <3> QED
      <4>1. /\ Pending(w)' = Pending(w) /\ nsubtasks'[w] = nsubtasks[w]
            /\ outstanding'[w] = outstanding[w] /\ need_to_exit'[w]
        BY <1>1, <3>1, Zenon DEF countVars, engineVars
      <4>2. Owed(w)' = Owed(w)
        BY <1>2, <3>3, <4>1, Zenon DEF Owed
      <4>3. nsubtasks[w] + (Cardinality(todo[w]) - 1) <= MaxBatch
        BY <3>2, <3>4, <3>5, SignQueueAssumption DEF Work
      <4>4. todo'[w] \cap Pending(w)' = {}
        BY <3>1, <3>5, <4>1, Zenon DEF Work
      <4> QED
        BY <3>1, <3>2, <3>3, <3>5, <4>1, <4>2, <4>3, <4>4, Zenon DEF Work
  <2> QED
    BY <2>1, <2>2, Zenon
<1>7. StopsForReload'
  BY <1>1, Zenon DEF IInv, StopsForReload, engineVars
<1>8. \A t \in Threads : pc[t] \in {"exited", "signing"} => pc'[t] = pc[t]
  BY <1>2, <1>4, Zenon
<1> QED
  BY <1>1, <1>6, <1>7, <1>8, QuietStep, Zenon DEF engineVars

\* fifoq_waitfor() ends by itself only when nothing is pending.
LEMMA WaitForKept ==
  ASSUME IInv, TypeOK', NEW w \in Workers, WaitFor(w)
  PROVE  IInv'
<1>a. TypeOK
  BY Zenon DEF IInv
<1>1. /\ UNCHANGED <<queue, held, todo, nsubtasks, engineVars, signed>>
      /\ \A v : Pending(v)' = Pending(v)
  BY PendingKept, Zenon DEF WaitFor
<1>2. /\ pc[w] = "wait" \/ (pc[w] = "queue" /\ todo[w] = {})
      /\ Work(w)
  BY Zenon DEF WaitFor, IInv
<1>3. /\ outstanding[w] \in Int /\ nsubtasks[w] \in Nat /\ failed[w] \in Nat
      /\ outstanding' = [outstanding EXCEPT ![w] = Owed(w)]
  <2>1. outstanding[w] \in Int /\ nsubtasks[w] \in Nat /\ failed[w] \in Nat
    BY <1>a, Functions
  <2> QED
    BY <1>2, <2>1, Zenon DEF WaitFor, Owed
<1>4. outstanding'[w] = Owed(w) /\ \A v \in Workers \ {w} : outstanding'[v] = outstanding[v]
  BY <1>a, <1>3, Functions, Zenon
<1>5. Owed(w) \in Int
  BY <1>3 DEF Owed
<1>6. \/ /\ pc' = [pc EXCEPT ![w] = "blocked"]
         /\ UNCHANGED <<failed, nfailed>>
      \/ /\ Owed(w) > 0 => need_to_exit[w]
         /\ nfailed' = [nfailed EXCEPT ![w] = failed[w]]
         /\ failed' = [failed EXCEPT ![w] = 0]
         /\ pc' = [pc EXCEPT ![w] = "check"]
  <2>1. outstanding[w] + (IF pc[w] = "queue" THEN nsubtasks[w] ELSE 0) = Owed(w)
    BY <1>2, <1>3, Zenon DEF Owed
  <2> QED
    BY <2>1, Zenon DEF WaitFor, waitfor
<1>7. \A t \in Threads \ {w} : pc'[t] = pc[t]
  BY <1>a, <1>6, Functions, Zenon
<1>8. ASSUME NEW v \in Workers PROVE Work(v)'
  <2>1. CASE v # w
    <3>1. failed'[v] = failed[v] /\ nfailed'[v] = nfailed[v] /\ pc'[v] = pc[v]
      BY <1>a, <1>6, <1>7, <2>1, Functions, Zenon
    <3> QED
      BY <1>a, <1>1, <1>4, <2>1, <3>1, WorkKept, Zenon DEF IInv, engineVars
  <2>2. CASE v = w /\ pc' = [pc EXCEPT ![w] = "blocked"] /\ UNCHANGED <<failed, nfailed>>
    <3>1. pc'[w] = "blocked"
      BY <1>a, <2>2, Functions, Zenon
    <3>2. Owed(w)' = Owed(w)
      BY <1>3, <1>4, <1>5, <3>1 DEF Owed
    <3> QED
      BY <1>1, <1>2, <2>2, <3>1, <3>2, Zenon DEF Work, engineVars
  <2>3. CASE /\ v = w /\ (Owed(w) > 0 => need_to_exit[w])
             /\ nfailed' = [nfailed EXCEPT ![w] = failed[w]]
             /\ pc' = [pc EXCEPT ![w] = "check"]
    <3>1. pc'[w] = "check" /\ nfailed'[w] = failed[w]
      BY <1>a, <2>3, Functions, Zenon
    <3>2. Owed(w)' = Owed(w)
      BY <1>3, <1>4, <1>5, <3>1 DEF Owed
    <3>3. ~ need_to_exit[w] => Pending(w) = {}
      <4> SUFFICES ASSUME ~ need_to_exit[w] PROVE Pending(w) = {}
        BY Zenon
      <4>1. Cardinality(Pending(w)) <= Owed(w) /\ ~ (Owed(w) > 0)
        BY <1>2, <2>3, Zenon DEF Work
      <4>2. IsFiniteSet(Pending(w)) /\ Cardinality(Pending(w)) \in Nat
        BY PendingFinite, Zenon
      <4>3. Cardinality(Pending(w)) = 0
        BY <1>5, <4>1, <4>2
      <4> QED
        BY <4>2, <4>3, FS_EmptySet, Zenon
    <3> QED
      BY <1>1, <1>2, <2>3, <3>1, <3>2, <3>3, Zenon DEF Work, engineVars
  <2> QED
    BY <1>6, <2>1, <2>2, <2>3, Zenon
<1>9. StopsForReload'
  BY <1>1, Zenon DEF IInv, StopsForReload, engineVars
<1>10. \A t \in Threads : pc[t] \in {"exited", "signing"} => pc'[t] = pc[t]
  BY <1>2, <1>7, Zenon
<1> QED
  BY <1>1, <1>8, <1>9, <1>10, QuietStep, Zenon DEF engineVars
=============================================================================
