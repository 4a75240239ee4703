-------------------------- MODULE SignQueueProofs --------------------------
(***************************************************************************)
(* The drudgers and the engine keep the invariant of the signing queue     *)
(* too, and what follows from it: a batch that is reported as done is      *)
(* signed, and no drudger uses the context of a worker that is gone.       *)
(***************************************************************************)
EXTENDS SignQueueInvariant

\* A drudger takes the first record of the queue.
LEMMA PopKept ==
  ASSUME IInv, TypeOK', NEW d \in Drudgers, Pop(d)
  PROVE  IInv'
<1>a. TypeOK
  BY Zenon DEF IInv
<1>1. queue \in Seq(Items) /\ queue # <<>> /\ queue' = Tail(queue)
  BY <1>a, Zenon DEF Pop, TypeOK
<1>2. Len(queue) \in Nat /\ Len(queue) >= 1 /\ Len(queue') = Len(queue) - 1
  BY <1>1
<1>3. \A i \in 1..Len(queue') : i + 1 \in 1..Len(queue) /\ queue'[i] = queue[i + 1] /\ i + 1 # 1
  BY <1>1, <1>2
<1>4. /\ 1 \in 1..Len(queue) /\ held'[d] = {queue[1]}
      /\ \A e \in Drudgers \ {d} : held'[e] = held[e]
  <2>1. held' = [held EXCEPT ![d] = {Head(queue)}]
    BY Zenon DEF Pop
  <2>2. Head(queue) = queue[1] /\ held \in [Drudgers -> SUBSET Items]
    BY <1>1, <1>a DEF TypeOK
  <2> QED
    BY <1>2, <2>1, <2>2
<1>5. pc'[d] = "signing" /\ \A t \in Threads \ {d} :
        pc'[t] = pc[t] \/ (t \in Workers /\ pc[t] = "full" /\ pc'[t] = "queue")
  <2> DEFINE p == [pc EXCEPT ![d] = "signing"]
  <2>1. p[d] = "signing" /\ \A t \in Threads \ {d} : p[t] = pc[t]
    BY <1>a, Functions, Zenon
  <2>2. pc' = q_nonfull(p) \/ pc' = p
    BY Zenon DEF Pop
  <2>3. d \in Threads /\ d \notin Workers
    BY <1>a, Functions, Zenon
  <2> HIDE DEF p
  <2> QED
    BY <2>1, <2>2, <2>3, Woken
<1>6. QueuedOnce'
  <2> SUFFICES ASSUME NEW i \in 1..Len(queue'), NEW j \in 1..Len(queue'),
                      queue'[i].owner = queue'[j].owner, queue'[i].record = queue'[j].record
               PROVE  i = j
    BY Zenon DEF QueuedOnce
  <2>1. i + 1 = j + 1
    <3>1. /\ i + 1 \in 1..Len(queue) /\ queue'[i] = queue[i + 1]
          /\ j + 1 \in 1..Len(queue) /\ queue'[j] = queue[j + 1]
      BY <1>3, Zenon
    <3>2. \A k, l \in 1..Len(queue) :
            queue[k].owner = queue[l].owner /\ queue[k].record = queue[l].record => k = l
      BY Zenon DEF IInv, QueuedOnce
    <3> QED
      BY <3>1, <3>2, Zenon
  <2>2. i \in Int /\ j \in Int
    BY <1>2
  <2> QED
    BY <2>1, <2>2
<1>7. QueuedOrHeld'
  <2> SUFFICES ASSUME NEW i \in 1..Len(queue'), NEW e \in Drudgers, NEW x \in held'[e],
                      queue'[i].owner = x.owner, queue'[i].record = x.record
               PROVE  FALSE
    BY Zenon DEF QueuedOrHeld
  <2>1. CASE e = d
    <3>1. x = queue[1] /\ queue'[i] = queue[i + 1] /\ i + 1 \in 1..Len(queue) /\ i + 1 # 1
      BY <1>3, <1>4, <2>1, Zenon
    <3>2. QueuedOnce
      BY Zenon DEF IInv
    <3> QED
      BY <1>4, <3>1, <3>2 DEF QueuedOnce
  <2>2. CASE e # d
    <3>1. x \in held[e] /\ queue'[i] = queue[i + 1] /\ i + 1 \in 1..Len(queue)
      BY <1>3, <1>4, <2>2, Zenon
    <3>2. QueuedOrHeld
      BY Zenon DEF IInv
    <3> QED
      BY <3>1, <3>2, Zenon DEF QueuedOrHeld
  <2> QED
    BY <2>1, <2>2, Zenon
<1>8. HeldOnce'
  <2> SUFFICES ASSUME NEW e \in Drudgers, NEW f \in Drudgers, NEW x \in held'[e],
                      NEW y \in held'[f], x.owner = y.owner, x.record = y.record, e # f
               PROVE  FALSE
    BY Zenon DEF HeldOnce
  <2>1. CASE e = d
    BY <1>4, <2>1 DEF IInv, QueuedOrHeld
  <2>2. CASE f = d
    BY <1>4, <2>2 DEF IInv, QueuedOrHeld
  <2>3. CASE e # d /\ f # d
    BY <1>4, <2>3, Zenon DEF IInv, HeldOnce
  <2> QED
    BY <2>1, <2>2, <2>3, Zenon
<1>9. ThisEra'
  BY <1>3, <1>4 DEF IInv, ThisEra, Pop, engineVars
<1>10. HeldWhileSigning'
  BY <1>4, <1>5 DEF IInv, HeldWhileSigning, Threads
<1>11. JoinedLast' /\ StopsForReload'
  <2>1. UNCHANGED engineVars
    BY Zenon DEF Pop
  <2>0. pc[d] # "exited"
    BY Zenon DEF Pop
  <2>2. \A w \in Workers : context[w]
    BY <2>0, Zenon DEF IInv, JoinedLast
  <2> QED
    BY <2>1, <2>2, Zenon DEF IInv, JoinedLast, StopsForReload, engineVars
<1>12. ASSUME NEW w \in Workers PROVE Work(w)'
  <2>1. Pending(w)' = Pending(w)
    BY <1>a, PendingPop, Zenon DEF IInv
  <2>2. pc'[w] = pc[w] \/ (pc[w] = "full" /\ pc'[w] = "queue")
    BY <1>a, <1>5, Functions, Zenon
  <2> QED
    BY <1>a, <2>1, <2>2, WorkKept, Zenon DEF IInv, Pop, workVars, countVars, engineVars
<1> QED
  BY <1>6, <1>7, <1>8, <1>9, <1>10, <1>11, <1>12, Zenon DEF IInv

\* fifoq_report() takes one from what is pending and one from what is owed.
LEMMA ReportKept ==
  ASSUME IInv, TypeOK', NEW d \in Drudgers, NEW item \in held[d],
         NEW status \in {"ok", "error", "hsm"}, SignAndReport(d, item, status)
  PROVE  IInv'
<1>a. TypeOK
  BY Zenon DEF IInv
<1> DEFINE o == item.owner
<1>1. /\ o \in Workers /\ item.record \in Pending(o)
      /\ Pending(o)' = Pending(o) \ {item.record}
      /\ \A w \in Workers \ {o} : Pending(w)' = Pending(w)
  BY PendingReport, Zenon
<1>2. queue' = queue /\ held'[d] = {} /\ \A e \in Drudgers \ {d} : held'[e] = held[e]
  BY <1>a, Zenon DEF SignAndReport, TypeOK
<1>3. /\ pc[d] = "signing" /\ pc'[d] = "idle"
      /\ \A t \in Threads \ {d} :
           pc'[t] = pc[t] \/ (t = o /\ pc[t] = "blocked" /\ pc'[t] = "wait")
  <2> DEFINE p == [pc EXCEPT ![d] = "idle"]
  <2>1. /\ p[d] = "idle" /\ \A t \in Threads \ {d} : p[t] = pc[t]
        /\ p \in [Threads -> WorkerAt \cup DrudgerAt \cup {"idle"}]
    BY <1>a, Functions, Zenon
  <2>2. \/ pc' = p
        \/ p[o] = "blocked" /\ pc' = [p EXCEPT ![o] = "wait"]
    BY Zenon DEF SignAndReport, report_signal
  <2>3. o \in Threads /\ o # d
    BY <1>a, <1>1, Functions, Zenon
  <2>4. pc[d] = "signing"
    BY Zenon DEF SignAndReport
  <2> HIDE DEF p, o
  <2>5. CASE pc' = p
    BY <2>1, <2>4, <2>5, Zenon
  <2>6. CASE p[o] = "blocked" /\ pc' = [p EXCEPT ![o] = "wait"]
    BY <2>1, <2>3, <2>4, <2>6
  <2> QED
    BY <2>2, <2>5, <2>6, Zenon
<1>4. /\ outstanding'[o] = outstanding[o] - 1
      /\ \A w \in Workers \ {o} : outstanding'[w] = outstanding[w]
  BY <1>a, <1>1, Functions, Zenon DEF SignAndReport
<1>5. /\ \A w \in Workers \ {o} : failed'[w] = failed[w] /\ signed'[w] = signed[w]
      /\ \/ failed'[o] = failed[o] /\ signed'[o] = signed[o] \cup {item.record}
         \/ failed'[o] = failed[o] + 1 /\ signed'[o] = signed[o]
  <2>1. failed \in [Workers -> Nat] /\ signed \in [Workers -> SUBSET (1..MaxBatch)]
    BY <1>a, Functions, Zenon
  <2>2. CASE status = "ok"
    <3>1. failed' = failed /\ signed' = [signed EXCEPT ![o] = signed[o] \cup {item.record}]
      BY <2>2, Zenon DEF SignAndReport, report_failed
    <3> HIDE DEF o
    <3> QED
      BY <1>1, <2>1, <3>1, Zenon
  <2>3. CASE status # "ok"
    <3>1. signed' = signed /\ failed' = [failed EXCEPT ![o] = failed[o] + 1]
      BY <2>3, Zenon DEF SignAndReport, report_failed
    <3> HIDE DEF o
    <3> QED
      BY <1>1, <2>1, <3>1, Zenon
  <2> QED
    BY <2>2, <2>3, Zenon
<1>6. UNCHANGED <<todo, nsubtasks, nfailed, need_to_exit, phase, context, era>>
  BY Zenon DEF SignAndReport, workVars
<1>7. QueuedOnce' /\ QueuedOrHeld' /\ HeldOnce' /\ ThisEra'
  <2>1. \A e \in Drudgers : \A x \in held'[e] : x \in held[e]
    BY <1>2, Zenon
  <2>2. QueuedOnce /\ QueuedOrHeld /\ HeldOnce /\ ThisEra
    BY Zenon DEF IInv
  <2>3. QueuedOnce'
    BY <1>2, <2>2, Zenon DEF QueuedOnce
  <2>4. QueuedOrHeld'
    BY <1>2, <2>1, <2>2, Zenon DEF QueuedOrHeld
  <2>5. HeldOnce'
    BY <2>1, <2>2 DEF HeldOnce
  <2>6. ThisEra'
    BY <1>2, <1>6, <2>1, <2>2, Zenon DEF ThisEra
  <2> QED
    BY <2>3, <2>4, <2>5, <2>6, Zenon
<1>8. HeldWhileSigning'
  <2> SUFFICES ASSUME NEW e \in Drudgers
               PROVE  /\ held'[e] # {} => pc'[e] = "signing"
                      /\ \A x, y \in held'[e] : x = y
    BY Zenon DEF HeldWhileSigning
  <2>1. CASE e = d
    BY <1>2, <2>1, Zenon
  <2>2. CASE e # d
    <3>1. held'[e] = held[e] /\ e \in Threads \ {d} /\ e # o
      BY <1>a, <1>1, <1>2, <2>2, Functions, Zenon
    <3>2. pc'[e] = pc[e]
      BY <1>3, <3>1, Zenon
    <3>3. (held[e] # {} => pc[e] = "signing") /\ \A x, y \in held[e] : x = y
      BY Zenon DEF IInv, HeldWhileSigning
    <3> QED
      BY <3>1, <3>2, <3>3, Zenon
  <2> QED
    BY <2>1, <2>2, Zenon
<1>9. JoinedLast'
  <2>1. \A w \in Workers : context[w]
    BY <1>3, Zenon DEF IInv, JoinedLast
  <2> QED
    BY <1>6, <2>1, Zenon DEF JoinedLast
<1>10. StopsForReload'
  BY <1>6, Zenon DEF IInv, StopsForReload, SignAndReport
<1>11. ASSUME NEW w \in Workers PROVE Work(w)'
  <2>1. CASE w # o
    <3>1. pc'[w] = pc[w]
      BY <1>a, <1>3, <2>1, Functions, Zenon
    <3> QED
      BY <1>a, <1>1, <1>4, <1>5, <1>6, <2>1, <3>1, WorkKept, Zenon DEF IInv
  <2>2. CASE w = o
    <3>1. Work(o) /\ outstanding[o] \in Int /\ failed[o] \in Nat /\ nsubtasks[o] \in Nat
      <4>1. Work(o)
        BY <1>1, Zenon DEF IInv
      <4>2. /\ outstanding \in [Workers -> Int] /\ failed \in [Workers -> Nat]
            /\ nsubtasks \in [Workers -> 0..MaxBatch]
        BY <1>a, Functions, Zenon
      <4>3. o \in Workers
        BY <1>1, Zenon
      <4> HIDE DEF o
      <4> QED
        BY <4>1, <4>2, <4>3
    <3>2. Cardinality(Pending(o)') = Cardinality(Pending(o)) - 1
      <4>1. IsFiniteSet(Pending(o)) /\ item.record \in Pending(o)
        BY <1>1, PendingFinite, Zenon
      <4>2. Cardinality(Pending(o) \ {item.record}) = Cardinality(Pending(o)) - 1
        BY <4>1, FS_RemoveElement, Zenon
      <4> QED
        BY <1>1, <4>2, Zenon
    <3>3. Cardinality(Pending(o)) \in Nat
      BY PendingFinite, Zenon
    <3>4. pc'[o] = pc[o] \/ (pc[o] = "blocked" /\ pc'[o] = "wait")
      BY <1>a, <1>1, <1>3, Functions, Zenon
    <3>5. Owed(o)' = Owed(o) - 1 /\ Owed(o) \in Int
      <4> DEFINE extra == IF pc[o] \in {"queue", "full"} THEN nsubtasks[o] ELSE 0
      <4>1. Owed(o) = outstanding[o] + extra
        BY Zenon DEF Owed
      <4>2. Owed(o)' = outstanding'[o] + extra
        BY <1>6, <3>4, Zenon DEF Owed
      <4>3. extra \in Int
        BY <3>1
      <4> HIDE DEF extra
      <4> QED
        BY <1>4, <3>1, <4>1, <4>2, <4>3
    <3>6. ~ (pc[o] \in {"idle", "check"} /\ ~ need_to_exit[o])
      BY <1>1, <3>1, Zenon DEF Work
    <3> HIDE DEF o
    <3>7. todo'[o] \cap Pending(o)' = {}
      BY <1>1, <1>6, <3>1, Zenon DEF Work
    <3>8. Cardinality(Pending(o)') <= Owed(o)'
      <4>1. Cardinality(Pending(o)) <= Owed(o)
        BY <3>1, Zenon DEF Work
      <4> QED
        BY <3>2, <3>3, <3>5, <4>1
    <3>9. \/ failed'[o] # 0
          \/ /\ failed'[o] = failed[o]
             /\ signed'[o] \cup Pending(o)' \cup todo'[o]
                  = signed[o] \cup Pending(o) \cup todo[o]
      <4>1. CASE failed'[o] = failed[o] + 1
        BY <3>1, <4>1
      <4>2. CASE failed'[o] = failed[o] /\ signed'[o] = signed[o] \cup {item.record}
        <5>1. signed'[o] \cup Pending(o)' = signed[o] \cup Pending(o)
          BY <1>1, <4>2, Zenon
        <5> QED
          BY <1>6, <4>2, <5>1, Zenon
      <4> QED
        BY <1>5, <4>1, <4>2, Zenon
    <3>10. /\ ~ need_to_exit'[o]
           /\ \/ pc'[o] \in {"queue", "full", "wait", "blocked"} /\ failed'[o] = 0
              \/ pc'[o] = "check" /\ nfailed'[o] = 0
           => signed'[o] \cup Pending(o)' \cup todo'[o]
                = 1..(nsubtasks'[o] + Cardinality(todo'[o]))
      BY <1>6, <3>1, <3>4, <3>6, <3>9, Zenon DEF Work
    <3> QED
      BY <1>6, <2>2, <3>1, <3>4, <3>6, <3>7, <3>8, <3>10, Zenon DEF Work
  <2> QED
    BY <2>1, <2>2, Zenon
<1> QED
  BY <1>7, <1>8, <1>9, <1>10, <1>11, Zenon DEF IInv

\* When the engine starts anew no drudger holds a record.
LEMMA ReloadKept ==
  ASSUME IInv, TypeOK', Reload
  PROVE  IInv'
<1>a. TypeOK
  BY Zenon DEF IInv
<1>1. \A d \in Drudgers : held[d] = {}
  <2>1. CASE Workers = {}
    BY <1>a, <2>1 DEF TypeOK, Items
  <2>2. CASE Workers # {}
    <3>1. \A d \in Drudgers : pc[d] = "exited"
      BY <2>2, Zenon DEF Reload, IInv, JoinedLast
    <3> QED
      BY <3>1, Zenon DEF IInv, HeldWhileSigning
  <2> QED
    BY <2>1, <2>2, Zenon
<1>2. queue' = <<>> /\ held' = held /\ Len(queue') = 0
  BY Zenon DEF Reload
<1>3. \A i : i \notin 1..Len(queue')
  BY <1>2
<1>4. HeldWhileSigning' /\ QueuedOnce' /\ QueuedOrHeld' /\ HeldOnce' /\ ThisEra'
  BY <1>1, <1>2, <1>3, Zenon DEF HeldWhileSigning, QueuedOnce, QueuedOrHeld, HeldOnce, ThisEra
<1>5. JoinedLast' /\ StopsForReload'
  BY Zenon DEF Reload, JoinedLast, StopsForReload
<1>6. ASSUME NEW w \in Workers PROVE Work(w)'
  <2>1. Pending(w)' = {}
    BY <1>1, <1>2, <1>3, Zenon DEF Pending
  <2>2. Cardinality(Pending(w)') = 0
    BY <2>1, FS_EmptySet, Zenon
  <2>3. outstanding[w] \in Int /\ pc[w] = "exited" /\ Work(w) /\ Cardinality(Pending(w)) \in Nat
    BY <1>a, Functions, PendingFinite, Zenon DEF Reload, IInv, JoinedLast
  <2>4. outstanding[w] >= 0
    BY <2>3 DEF Work, Owed
  <2>5. pc'[w] = "idle" /\ UNCHANGED <<todo, nsubtasks, outstanding>>
    BY <1>a, Functions, Zenon DEF Reload, workVars, countVars
  <2>6. Owed(w)' = outstanding[w] /\ todo'[w] = todo[w]
    BY <2>3, <2>5 DEF Owed
  <2>7. nsubtasks'[w] + Cardinality(todo'[w]) <= MaxBatch
    BY <2>3, <2>5, Zenon DEF Work
  <2> QED
    BY <2>1, <2>2, <2>4, <2>5, <2>6, <2>7, Zenon DEF Work
<1> QED
  BY <1>4, <1>5, <1>6, Zenon DEF IInv

\* Steps of a thread that neither touch the queue nor a batch.
LEMMA ThreadKept ==
  ASSUME IInv, TypeOK', NEW t \in Threads,
         UNCHANGED <<queue, workVars, countVars, held, engineVars, signed>>,
         pc' = [pc EXCEPT ![t] = pc'[t]],
         \/ t \in Drudgers /\ pc[t] \notin {"exited", "signing"}
         \/ t \in Workers /\ \/ pc[t] = "full" /\ pc'[t] = "queue"
                             \/ pc[t] = "check" /\ pc'[t] = "idle"
                             \/ pc[t] = "idle" /\ pc'[t] = "exited"
  PROVE  IInv'
<1>a. TypeOK
  BY Zenon DEF IInv
<1>1. \A u \in Threads \ {t} : pc'[u] = pc[u]
  BY <1>a, Functions, Zenon
<1>2. \A v : Pending(v)' = Pending(v)
  BY PendingKept, Zenon
<1>3. ASSUME NEW v \in Workers PROVE Work(v)'
  BY <1>a, <1>1, <1>2, WorkKept, Functions, Zenon DEF IInv, workVars, countVars, engineVars
<1>4. StopsForReload'
  BY Zenon DEF IInv, StopsForReload, engineVars
<1>5. \A u \in Threads : pc[u] \in {"exited", "signing"} => pc'[u] = pc[u]
  BY <1>1, Zenon
<1> QED
  BY <1>3, <1>4, <1>5, QuietStep, Zenon DEF engineVars

\* Steps of the engine other than Reload.
LEMMA EngineKept ==
  ASSUME IInv, TypeOK',
         ReloadCommand \/ (\E t \in Threads : StopThread(t)) \/ NotifyAll
         \/ (\E w \in Workers : JoinWorker(w))
  PROVE  IInv'
<1>a. TypeOK
  BY Zenon DEF IInv
<1>1. UNCHANGED <<queue, workVars, countVars, held, era, signed>>
  BY Zenon DEF ReloadCommand, StopThread, NotifyAll, JoinWorker
<1>2. \A v : Pending(v)' = Pending(v)
  BY <1>1, PendingKept, Zenon
<1>3. \A t \in Threads : need_to_exit[t] => need_to_exit'[t]
  BY <1>a, Zenon DEF ReloadCommand, StopThread, NotifyAll, JoinWorker, TypeOK
<1>4. \A t \in Threads : \/ pc'[t] = pc[t]
                         \/ t \in Workers /\ pc[t] = "full" /\ pc'[t] = "queue"
                         \/ t \in Drudgers /\ pc[t] = "waiting" /\ pc'[t] = "woken"
  <2>1. pc' = pc \/ pc' = q_nonfull(q_threshold(pc))
    BY Zenon DEF ReloadCommand, StopThread, NotifyAll, JoinWorker
  <2> QED
    BY <1>a, <2>1, Woken, Functions
<1>5. ASSUME NEW v \in Workers PROVE Work(v)'
  <2>1. pc'[v] = pc[v] \/ (pc[v] = "full" /\ pc'[v] = "queue")
    BY <1>a, <1>4, Functions, Zenon
  <2>2. need_to_exit[v] => need_to_exit'[v]
    BY <1>a, <1>3, Functions, Zenon
  <2> QED
    BY <1>a, <1>1, <1>2, <2>1, <2>2, WorkKept, Zenon DEF IInv, workVars, countVars
<1>6. StopsForReload'
  <2>1. CASE ReloadCommand
    BY <2>1, Zenon DEF IInv, StopsForReload, ReloadCommand
  <2>2. ASSUME NEW t \in Threads, StopThread(t) PROVE StopsForReload'
    BY <2>2, Zenon DEF IInv, StopsForReload, StopThread
  <2>3. CASE NotifyAll
    BY <2>3, Zenon DEF IInv, StopsForReload, NotifyAll
  <2>4. ASSUME NEW w \in Workers, JoinWorker(w) PROVE StopsForReload'
    BY <2>4, Zenon DEF IInv, StopsForReload, JoinWorker
  <2> QED
    BY <2>1, <2>2, <2>3, <2>4, Zenon
<1>7. \A u \in Threads : pc[u] \in {"exited", "signing"} => pc'[u] = pc[u]
  BY <1>4, Zenon
<1>8. CASE ReloadCommand \/ (\E t \in Threads : StopThread(t)) \/ NotifyAll
  <2>1. UNCHANGED context /\ (phase = "joining" => phase' = "joining")
    BY <1>8, Zenon DEF ReloadCommand, StopThread, NotifyAll
  <2> QED
    BY <1>1, <1>5, <1>6, <1>7, <2>1, QuietStep, Zenon
<1>9. ASSUME NEW w \in Workers, JoinWorker(w) PROVE IInv'
  <2>1. JoinedLast'
    BY <1>a, <1>9, Zenon DEF IInv, JoinedLast, JoinWorker, join_order, TypeOK
  <2>2. HeldWhileSigning'
    <3>1. UNCHANGED <<pc, held>>
      BY <1>9, Zenon DEF JoinWorker
    <3> QED
      BY <3>1, Zenon DEF IInv, HeldWhileSigning
  <2>3. QueuedOnce' /\ QueuedOrHeld' /\ HeldOnce' /\ ThisEra'
    BY <1>1 DEF IInv, QueuedOnce, QueuedOrHeld, HeldOnce, ThisEra
  <2> QED
    BY <1>5, <1>6, <2>1, <2>2, <2>3, Zenon DEF IInv
<1> QED
  BY <1>8, <1>9, Zenon

-----------------------------------------------------------------------------
(* The invariant.                                                          *)

\* The engine starts with an empty queue.
LEMMA InitiallyIInv == Init => IInv
<1> SUFFICES ASSUME Init PROVE IInv
  BY Zenon
<1>1. TypeOK
  <2>1. queue \in Seq(Items) /\ Len(queue) <= MaxCount /\ held \in [Drudgers -> SUBSET Items]
    BY SignQueueAssumption DEF Init
  <2>2. /\ pc \in [Threads -> WorkerAt \cup DrudgerAt]
        /\ \A w \in Workers : pc[w] \in WorkerAt
        /\ \A d \in Drudgers : pc[d] \in DrudgerAt
    BY Zenon DEF Init, Threads, WorkerAt, DrudgerAt
  <2>3. /\ todo \in [Workers -> SUBSET (1..MaxBatch)]
        /\ signed \in [Workers -> SUBSET (1..MaxBatch)]
        /\ tries \in [Workers -> 0..(MaxTries + 2)] /\ nsubtasks \in [Workers -> 0..MaxBatch]
        /\ outstanding \in [Workers -> Int] /\ era \in 0..MaxReloads
    BY SignQueueAssumption DEF Init
  <2> QED
    BY <2>1, <2>2, <2>3, Zenon DEF Init, TypeOK
<1>2. \A i : i \notin 1..Len(queue)
  BY DEF Init
<1>3. HeldWhileSigning /\ QueuedOnce /\ QueuedOrHeld /\ HeldOnce /\ ThisEra
  BY <1>2, Zenon DEF Init, HeldWhileSigning, QueuedOnce, QueuedOrHeld, HeldOnce, ThisEra
<1>4. StopsForReload /\ JoinedLast
  BY Zenon DEF Init, StopsForReload, JoinedLast
<1>5. ASSUME NEW w \in Workers PROVE Work(w)
  <2>1. Pending(w) = {}
    BY <1>2, Zenon DEF Init, Pending
  <2>2. Cardinality(Pending(w)) = 0 /\ Cardinality(todo[w]) = 0
    BY <2>1, FS_EmptySet, Zenon DEF Init
  <2>3. pc[w] = "idle"
    BY <1>1, Functions, Zenon DEF Init
  <2>4. outstanding[w] = 0 /\ nsubtasks[w] = 0 /\ todo[w] = {}
    BY Zenon DEF Init
  <2>5. Owed(w) = 0
    BY <2>3, <2>4 DEF Owed
  <2>6. nsubtasks[w] + Cardinality(todo[w]) <= MaxBatch
    BY <2>2, <2>4, SignQueueAssumption
  <2> QED
    BY <2>1, <2>2, <2>3, <2>4, <2>5, <2>6 DEF Work
<1> QED
  BY <1>1, <1>3, <1>4, <1>5, Zenon DEF IInv

\* The invariant is inductive.
LEMMA IInvKept == IInv /\ [Next]_vars => IInv'
<1> SUFFICES ASSUME IInv, [Next]_vars PROVE IInv'
  BY Zenon
<1>a. TypeOK' /\ TypeOK
  BY TypesKept, Zenon DEF IInv
<1>1. ASSUME NEW w \in Workers, NEW n \in 0..MaxBatch, BeginSign(w, n) PROVE IInv'
  BY <1>a, <1>1, BeginSignKept, Zenon
<1>2. ASSUME NEW w \in Workers, NEW r \in todo[w], Push(w, r) PROVE IInv'
  BY <1>a, <1>2, PushKept, Zenon
<1>3. ASSUME NEW w \in Workers, NEW r \in todo[w], PushFull(w, r) PROVE IInv'
  BY <1>a, <1>3, PushFullKept, Zenon
<1>4. ASSUME NEW w \in Workers, WaitFor(w) PROVE IInv'
  BY <1>a, <1>4, WaitForKept, Zenon
<1>5. ASSUME NEW w \in Workers, FullTimeout(w) \/ CommitSign(w) \/ WorkerExit(w) PROVE IInv'
  <2>1. w \in Threads /\ pc \in [Threads -> WorkerAt \cup DrudgerAt]
    BY <1>a, Functions, Zenon
  <2>2. /\ UNCHANGED <<queue, workVars, countVars, held, engineVars, signed>>
        /\ pc' = [pc EXCEPT ![w] = pc'[w]]
        /\ \/ pc[w] = "full" /\ pc'[w] = "queue"
           \/ pc[w] = "check" /\ pc'[w] = "idle"
           \/ pc[w] = "idle" /\ pc'[w] = "exited"
    BY <1>5, <2>1, Zenon DEF FullTimeout, CommitSign, WorkerExit
  <2> QED
    BY <1>a, <2>1, <2>2, ThreadKept, Zenon
<1>6. ASSUME NEW d \in Drudgers, Pop(d) PROVE IInv'
  BY <1>a, <1>6, PopKept, Zenon
<1>7. ASSUME NEW d \in Drudgers, PopNothing(d) \/ DrudgerExit(d) PROVE IInv'
  <2>1. d \in Threads /\ pc \in [Threads -> WorkerAt \cup DrudgerAt]
    BY <1>a, Functions, Zenon
  <2>2. /\ UNCHANGED <<queue, workVars, countVars, held, engineVars, signed>>
        /\ pc' = [pc EXCEPT ![d] = pc'[d]] /\ pc[d] \in {"idle", "woken"}
    BY <1>7, <2>1, Zenon DEF PopNothing, DrudgerExit
  <2> QED
    BY <1>a, <2>1, <2>2, ThreadKept, Zenon
<1>8. ASSUME NEW d \in Drudgers, NEW item \in held[d],
             NEW status \in {"ok", "error", "hsm"}, SignAndReport(d, item, status)
      PROVE  IInv'
  BY <1>a, <1>8, ReportKept, Zenon
<1>9. CASE ReloadCommand \/ (\E t \in Threads : StopThread(t)) \/ NotifyAll
           \/ (\E w \in Workers : JoinWorker(w))
  BY <1>a, <1>9, EngineKept, Zenon
<1>10. CASE Reload
  BY <1>a, <1>10, ReloadKept, Zenon
<1>11. CASE UNCHANGED vars
  <2>1. \A w : Pending(w)' = Pending(w)
    BY <1>11, PendingKept, Zenon DEF vars
  <2>2. \A w \in Workers : Work(w)'
    BY <1>a, <1>11, <2>1, WorkKept, Zenon DEF IInv, vars, workVars, countVars, engineVars
  <2>3. StopsForReload'
    BY <1>11, Zenon DEF IInv, StopsForReload, vars, engineVars
  <2> QED
    BY <1>a, <1>11, <2>2, <2>3, QuietStep, Zenon DEF vars, engineVars
<1> QED
  BY <1>1, <1>2, <1>3, <1>4, <1>5, <1>6, <1>7, <1>8, <1>9, <1>10, <1>11, Zenon
     DEF Next, WorkerStep, DrudgerStep, EngineStep

-----------------------------------------------------------------------------
(* What the code relies on.                                                *)

\* The counters, flags and places of the queue and its threads keep their
\* ranges; the queue never exceeds FIFOQ_MAX_COUNT.
THEOREM Typing == Spec => []TypeOK
<1>1. IInv => TypeOK
  BY Zenon DEF IInv
<1> QED
  BY <1>1, InitiallyIInv, IInvKept, PTL DEF Spec

\* worker_check_jobs() reports success only for a batch of which every record
\* has been signed and none is queued or held, however pushes, reports, the
\* late addition of the batch to tasksOutstanding and reloads interleave.
THEOREM BatchSigned == Spec => []JobsDone
<1>1. IInv => JobsDone
  <2> SUFFICES ASSUME IInv, NEW w \in Workers, pc[w] = "check", check_jobs(w)
               PROVE  signed[w] = 1..nsubtasks[w] /\ queued(w) = {} /\ signing(w) = {}
    BY Zenon DEF JobsDone
  <2>a. TypeOK /\ Work(w) /\ ~ need_to_exit[w] /\ nfailed[w] = 0
    BY Zenon DEF IInv, check_jobs
  <2>1. Pending(w) = {} /\ todo[w] = {}
    BY <2>a, Zenon DEF Work
  <2>2. Cardinality(todo[w]) = 0 /\ nsubtasks[w] \in Nat
    BY <2>a, <2>1, FS_EmptySet, Functions
  <2>3. signed[w] = 1..nsubtasks[w]
    <3>1. signed[w] \cup Pending(w) \cup todo[w] = 1..(nsubtasks[w] + Cardinality(todo[w]))
      BY <2>a, Zenon DEF Work
    <3>2. nsubtasks[w] + Cardinality(todo[w]) = nsubtasks[w]
      BY <2>2
    <3>3. signed[w] \cup Pending(w) \cup todo[w] = signed[w]
      BY <2>1, Zenon
    <3> QED
      BY <3>1, <3>2, <3>3, Zenon
  <2>4. queued(w) = {}
    <3> SUFFICES ASSUME NEW i \in queued(w) PROVE FALSE
      BY Zenon
    <3>1. i \in 1..Len(queue) /\ queue[i].owner = w /\ queue[i] \in Items
      BY <2>a DEF queued, TypeOK
    <3>2. queue[i].record \in 1..MaxBatch
      BY <3>1, Zenon DEF Items
    <3> QED
      BY <2>1, <3>1, <3>2, Zenon DEF Pending
  <2>5. signing(w) = {}
    <3> SUFFICES ASSUME NEW d \in signing(w) PROVE FALSE
      BY Zenon
    <3>1. PICK x \in held[d] : x.owner = w
      BY Zenon DEF signing
    <3>2. d \in Drudgers /\ x.record \in 1..MaxBatch
      BY <2>a, <3>1 DEF signing, TypeOK, Items
    <3> QED
      BY <2>1, <3>1, <3>2, Zenon DEF Pending
  <2> QED
    BY <2>3, <2>4, <2>5, Zenon
<1> QED
  BY <1>1, InitiallyIInv, IInvKept, PTL DEF Spec

\* The worker a drudger reports to has its context, and it is the one the
\* record was queued with: engine_stop_threads() joins the drudgers first and
\* fifoq_wipe() leaves nothing of an earlier run.
THEOREM ContextsOutlive == Spec => []ContextsAlive
<1>1. IInv => ContextsAlive
  <2> SUFFICES ASSUME IInv, NEW d \in Drudgers, NEW item \in held[d]
               PROVE  context[item.owner] /\ item.era = era
    BY Zenon DEF ContextsAlive
  <2>1. item.owner \in Workers
    BY DEF IInv, TypeOK, Items
  <2>2. pc[d] = "signing"
    BY Zenon DEF IInv, HeldWhileSigning
  <2>3. context[item.owner]
    BY <2>1, <2>2, Zenon DEF IInv, JoinedLast
  <2> QED
    BY <2>3, Zenon DEF IInv, ThisEra
<1> QED
  BY <1>1, InitiallyIInv, IInvKept, PTL DEF Spec
=============================================================================
