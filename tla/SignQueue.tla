----------------------------- MODULE SignQueue -----------------------------
(***************************************************************************)
(* The signing queue of the signer: common/scheduler/fifoq.c, the workers  *)
(* and drudgers of signer/src/daemon/signertasks.c that use it, and the    *)
(* start, stop and reload of these threads in signer/src/daemon/engine.c.  *)
(*                                                                         *)
(* A worker that signs a zone pushes the expiring records of its view onto *)
(* one bounded queue and waits until the drudgers have signed and reported *)
(* all of them.  It then commits the view.                                 *)
(*                                                                         *)
(* Every critical section of q_lock is one action; a thread woken from a   *)
(* condition variable goes on when it next gets the lock.  There are no    *)
(* spurious wake-ups.                                                      *)
(***************************************************************************)
EXTENDS Integers, Sequences

CONSTANTS
  Workers,      \* the threads running worker_start()
  Drudgers,     \* the threads running drudge()
  MaxBatch,     \* bound: records of one zone that need a signature
  MaxCount,     \* FIFOQ_MAX_COUNT
  MaxTries,     \* FIFOQ_TRIES_COUNT
  MaxReloads    \* bound: "reload" commands and HSM resets in one behaviour

ASSUME SignQueueAssumption ==
  /\ Workers \cap Drudgers = {}
  /\ MaxBatch \in Nat \ {0}
  /\ MaxCount \in Nat \ {0}
  /\ MaxTries \in Nat
  /\ MaxReloads \in Nat

VARIABLES
  queue,          \* blob[] and owner[]: what to sign and for which worker
  pc,             \* where each thread is
  todo,           \* the records the worker has still to push
  tries,          \* attempts to push the current record
  nsubtasks,      \* records pushed
  outstanding,    \* worker->tasksOutstanding
  failed,         \* worker->tasksFailed
  nfailed,        \* what fifoq_waitfor() returned in nsubtasksfailed
  held,           \* the record a drudger is signing, if any
  need_to_exit,   \* the flag of each thread
  need_to_reload, \* the flag of the engine
  phase,          \* engine_start() and engine_run()
  context,        \* is the worker_context of a worker allocated?
  era,            \* how often the engine has been run
  signed          \* history: the records of the batch signed successfully

workVars == <<todo, tries, nsubtasks, nfailed>>
countVars == <<outstanding, failed>>
engineVars == <<need_to_exit, need_to_reload, phase, context, era>>
vars == <<queue, pc, workVars, countVars, held, engineVars, signed>>

Threads == Workers \cup Drudgers
Items == [owner : Workers, record : 1..MaxBatch, era : 0..MaxReloads]

WorkerAt == {"idle", "queue", "full", "wait", "blocked", "check", "exited"}
DrudgerAt == {"idle", "waiting", "woken", "signing", "exited"}

\* pthread_cond_broadcast(): the threads of T that wait at a go on at b
Broadcast(p, T, a, b) == [t \in Threads |-> IF t \in T /\ p[t] = a THEN b ELSE p[t]]

q_threshold(p) == Broadcast(p, Drudgers, "waiting", "woken")
q_nonfull(p) == Broadcast(p, Workers, "full", "queue")

Init ==
  /\ queue = <<>>
  /\ pc = [t \in Threads |-> "idle"]
  /\ todo = [w \in Workers |-> {}]
  /\ tries = [w \in Workers |-> 0]
  /\ nsubtasks = [w \in Workers |-> 0]
  /\ outstanding = [w \in Workers |-> 0]
  /\ failed = [w \in Workers |-> 0]
  /\ nfailed = [w \in Workers |-> 0]
  /\ held = [d \in Drudgers |-> {}]
  /\ need_to_exit = [t \in Threads |-> FALSE]
  /\ need_to_reload = FALSE
  /\ phase = "running"
  /\ context = [w \in Workers |-> TRUE]
  /\ era = 0
  /\ signed = [w \in Workers |-> {}]

(***************************************************************************)
(* A worker in do_signzone().                                              *)
(***************************************************************************)
\* worker_queue_zone(): the records of the view that are about to expire
BeginSign(w, n) ==
  /\ pc[w] = "idle"
  /\ ~ need_to_exit[w]
  /\ todo' = [todo EXCEPT ![w] = 1..n]
  /\ nsubtasks' = [nsubtasks EXCEPT ![w] = 0]
  /\ signed' = [signed EXCEPT ![w] = {}]
  /\ pc' = [pc EXCEPT ![w] = "queue"]
  /\ UNCHANGED <<queue, tries, nfailed, countVars, held, engineVars>>

\* a test for room for the whole batch
is_full_for_batch(q) == Len(q) + MaxBatch > MaxCount

is_full(q) == Len(q) >= MaxCount

\* fifoq_push() wakes the drudgers for the first item
push_notify(p, count) == IF count = 1 THEN q_threshold(p) ELSE p

Push(w, r) ==
  /\ pc[w] = "queue" /\ r \in todo[w]
  /\ ~ is_full(queue)
  /\ queue' = Append(queue, [owner |-> w, record |-> r, era |-> era])
  /\ todo' = [todo EXCEPT ![w] = @ \ {r}]
  /\ nsubtasks' = [nsubtasks EXCEPT ![w] = @ + 1]
  /\ tries' = [tries EXCEPT ![w] = 0]
  /\ pc' = push_notify(pc, Len(queue) + 1)
  /\ UNCHANGED <<nfailed, countVars, held, engineVars, signed>>

\* the queue is full: sleep on q_nonfull, or give the record up on exit
PushFull(w, r) ==
  LET again == tries[w] > MaxTries
      woken == IF again THEN q_threshold(pc) ELSE pc
  IN
  /\ pc[w] = "queue" /\ r \in todo[w]
  /\ is_full(queue)
  /\ \/ /\ need_to_exit[w]
        /\ todo' = [todo EXCEPT ![w] = @ \ {r}]
        /\ tries' = [tries EXCEPT ![w] = 0]
        /\ pc' = woken
     \/ /\ ~ need_to_exit[w]
        /\ tries' = [tries EXCEPT ![w] = IF again THEN 1 ELSE @ + 1]
        /\ pc' = [woken EXCEPT ![w] = "full"]
        /\ UNCHANGED todo
  /\ UNCHANGED <<queue, nsubtasks, nfailed, countVars, held, engineVars, signed>>

\* ods_thread_wait() returns after 5 seconds
FullTimeout(w) ==
  /\ pc[w] = "full"
  /\ pc' = [pc EXCEPT ![w] = "queue"]
  /\ UNCHANGED <<queue, workVars, countVars, held, engineVars, signed>>

waitfor(w, count) == count > 0 /\ ~ need_to_exit[w]

\* fifoq_waitfor(): adds the batch to the count on entry, then loops
WaitFor(w) ==
  LET count == outstanding[w] + (IF pc[w] = "queue" THEN nsubtasks[w] ELSE 0) IN
  /\ \/ pc[w] = "queue" /\ todo[w] = {}
     \/ pc[w] = "wait"
  /\ outstanding' = [outstanding EXCEPT ![w] = count]
  /\ \/ /\ waitfor(w, count)
        /\ pc' = [pc EXCEPT ![w] = "blocked"]
        /\ UNCHANGED <<failed, nfailed>>
     \/ /\ ~ waitfor(w, count)
        /\ nfailed' = [nfailed EXCEPT ![w] = failed[w]]
        /\ failed' = [failed EXCEPT ![w] = 0]
        /\ pc' = [pc EXCEPT ![w] = "check"]
  /\ UNCHANGED <<queue, todo, tries, nsubtasks, held, engineVars, signed>>

\* a check that forgets that the wait may have been cut short
check_failures(w) == nfailed[w] = 0

\* worker_check_jobs(): ODS_STATUS_OK, and so the zone is written
check_jobs(w) == nfailed[w] = 0 /\ ~ need_to_exit[w]

\* the view is committed whatever worker_check_jobs() said
CommitSign(w) ==
  /\ pc[w] = "check"
  /\ pc' = [pc EXCEPT ![w] = "idle"]
  /\ UNCHANGED <<queue, workVars, countVars, held, engineVars, signed>>

WorkerExit(w) ==
  /\ pc[w] = "idle"
  /\ need_to_exit[w]
  /\ pc' = [pc EXCEPT ![w] = "exited"]
  /\ UNCHANGED <<queue, workVars, countVars, held, engineVars, signed>>

(***************************************************************************)
(* A drudger.                                                              *)
(***************************************************************************)
\* fifoq_pop(), also after the wait in which the drudger is not told what for
Pop(d) ==
  /\ pc[d] \in {"idle", "woken"}
  /\ ~ need_to_exit[d]
  /\ queue # <<>>
  /\ held' = [held EXCEPT ![d] = {Head(queue)}]
  /\ queue' = Tail(queue)
  /\ LET p == [pc EXCEPT ![d] = "signing"]
     IN  pc' = IF 10 * (Len(queue) - 1) <= MaxCount THEN q_nonfull(p) ELSE p
  /\ UNCHANGED <<workVars, countVars, engineVars, signed>>

PopNothing(d) ==
  /\ pc[d] \in {"idle", "woken"}
  /\ ~ need_to_exit[d]
  /\ queue = <<>>
  /\ pc' = [pc EXCEPT ![d] = IF pc[d] = "idle" THEN "waiting" ELSE "idle"]
  /\ UNCHANGED <<queue, workVars, countVars, held, engineVars, signed>>

report_failed(w, ok) == IF ok THEN failed ELSE [failed EXCEPT ![w] = @ + 1]

\* the last report wakes the worker
report_signal(p, w, count) ==
  IF count = 0 /\ p[w] = "blocked" THEN [p EXCEPT ![w] = "wait"] ELSE p

\* signdomain() and fifoq_report(); without an HSM context a reload is asked for
SignAndReport(d, item, status) ==
  LET w == item.owner
      ok == status = "ok"
  IN
  /\ pc[d] = "signing" /\ item \in held[d]
  /\ signed' = IF ok THEN [signed EXCEPT ![w] = @ \cup {item.record}] ELSE signed
  /\ failed' = report_failed(w, ok)
  /\ outstanding' = [outstanding EXCEPT ![w] = @ - 1]
  /\ held' = [held EXCEPT ![d] = {}]
  /\ pc' = report_signal([pc EXCEPT ![d] = "idle"], w, outstanding[w] - 1)
  /\ need_to_reload' = (need_to_reload \/ status = "hsm")
  /\ status = "hsm" => era < MaxReloads
  /\ UNCHANGED <<queue, workVars, need_to_exit, phase, context, era>>

DrudgerExit(d) ==
  /\ pc[d] \in {"idle", "woken"}
  /\ need_to_exit[d]
  /\ pc' = [pc EXCEPT ![d] = "exited"]
  /\ UNCHANGED <<queue, workVars, countVars, held, engineVars, signed>>

(***************************************************************************)
(* The main thread.                                                        *)
(***************************************************************************)
\* the "reload" command or SIGHUP
ReloadCommand ==
  /\ era < MaxReloads /\ phase = "running"
  /\ need_to_reload' = TRUE
  /\ UNCHANGED <<queue, pc, workVars, countVars, held, need_to_exit, phase, context, era, signed>>

\* engine_stop_threads(): the flags, workers before drudgers, without a lock
StopThread(t) ==
  /\ need_to_reload /\ phase = "running"
  /\ ~ need_to_exit[t]
  /\ t \in Drudgers => \A w \in Workers : need_to_exit[w]
  /\ need_to_exit' = [need_to_exit EXCEPT ![t] = TRUE]
  /\ UNCHANGED <<queue, pc, workVars, countVars, held, need_to_reload, phase, context, era, signed>>

\* schedule_release_all() and fifoq_notifyall()
NotifyAll ==
  /\ need_to_reload /\ phase = "running"
  /\ \A t \in Threads : need_to_exit[t]
  /\ phase' = "joining"
  /\ pc' = q_nonfull(q_threshold(pc))
  /\ UNCHANGED <<queue, workVars, countVars, held, need_to_exit, need_to_reload, context, era, signed>>

\* threads joined in any order
join_any(w) == TRUE

\* the drudgers are joined before the workers
join_order(w) == \A d \in Drudgers : pc[d] = "exited"

\* a worker is joined and its worker_context freed
JoinWorker(w) ==
  /\ phase = "joining"
  /\ context[w] /\ pc[w] = "exited"
  /\ join_order(w)
  /\ context' = [context EXCEPT ![w] = FALSE]
  /\ UNCHANGED <<queue, pc, workVars, countVars, held, need_to_exit, need_to_reload, phase, era, signed>>

\* the next round of engine_start(): same worker objects, new contexts
Reload ==
  /\ phase = "joining"
  /\ \A w \in Workers : ~ context[w]
  /\ queue' = <<>>                   \* fifoq_wipe()
  /\ need_to_reload' = FALSE
  /\ need_to_exit' = [t \in Threads |-> FALSE]
  /\ context' = [w \in Workers |-> TRUE]
  /\ pc' = [t \in Threads |-> "idle"]
  /\ phase' = "running"
  /\ era' = era + 1
  /\ UNCHANGED <<workVars, countVars, held, signed>>

WorkerStep(w) ==
  \/ \E r \in todo[w] : Push(w, r) \/ PushFull(w, r)
  \/ FullTimeout(w) \/ WaitFor(w) \/ CommitSign(w) \/ WorkerExit(w)

DrudgerStep(d) ==
  \/ Pop(d) \/ PopNothing(d) \/ DrudgerExit(d)
  \/ \E item \in held[d], status \in {"ok", "error", "hsm"} : SignAndReport(d, item, status)

EngineStep ==
  \/ \E t \in Threads : StopThread(t)
  \/ NotifyAll
  \/ \E w \in Workers : JoinWorker(w)
  \/ Reload

Next ==
  \/ \E w \in Workers, n \in 0..MaxBatch : BeginSign(w, n)
  \/ \E w \in Workers : WorkerStep(w)
  \/ \E d \in Drudgers : DrudgerStep(d)
  \/ ReloadCommand
  \/ EngineStep

Spec == Init /\ [][Next]_vars

\* The operating system runs every thread; nobody has to sign or to reload.
FairSpec ==
  /\ Spec
  /\ \A w \in Workers : WF_vars(WorkerStep(w))
  /\ \A d \in Drudgers : WF_vars(DrudgerStep(d))
  /\ WF_vars(EngineStep)

(***************************************************************************)
(* Properties.                                                             *)
(***************************************************************************)
TypeOK ==
  /\ queue \in Seq(Items) /\ Len(queue) <= MaxCount
  /\ pc \in [Threads -> WorkerAt \cup DrudgerAt]
  /\ \A w \in Workers : pc[w] \in WorkerAt
  /\ \A d \in Drudgers : pc[d] \in DrudgerAt
  /\ todo \in [Workers -> SUBSET (1..MaxBatch)]
  /\ tries \in [Workers -> 0..(MaxTries + 2)]
  /\ nsubtasks \in [Workers -> 0..MaxBatch]
  /\ outstanding \in [Workers -> Int]
  /\ failed \in [Workers -> Nat] /\ nfailed \in [Workers -> Nat]
  /\ held \in [Drudgers -> SUBSET Items]
  /\ need_to_exit \in [Threads -> BOOLEAN] /\ need_to_reload \in BOOLEAN
  /\ phase \in {"running", "joining"}
  /\ context \in [Workers -> BOOLEAN]
  /\ era \in 0..MaxReloads
  /\ signed \in [Workers -> SUBSET (1..MaxBatch)]

queued(w) == {i \in 1..Len(queue) : queue[i].owner = w}
signing(w) == {d \in Drudgers : \E item \in held[d] : item.owner = w}

\* When worker_check_jobs() tells do_signzone() that the batch went well, every
\* record pushed has been signed, and none is queued or being signed: the zone
\* that is then written has no missing signature.
JobsDone ==
  \A w \in Workers : pc[w] = "check" /\ check_jobs(w) =>
    /\ signed[w] = 1..nsubtasks[w]
    /\ queued(w) = {} /\ signing(w) = {}

\* A drudger only works for a worker whose worker_context is still allocated
\* and is the one it was queued with, across stops and reloads.
ContextsAlive ==
  \A d \in Drudgers : \A item \in held[d] : context[item.owner] /\ item.era = era

\* Every batch a worker starts to queue, with no other worker to keep the
\* queue full, is signed and committed, unless a reload is asked for
\* (fifoq_waitfor is then not woken, and may wait on).  After a reload this
\* fails: what was left of an interrupted batch stays in tasksOutstanding,
\* and the next batch of the worker waits for reports that never come.
BatchFinishes ==
  \A w \in Workers :
    era = 0 /\ pc[w] = "queue" ~> (pc[w] = "idle" \/ need_to_reload)

=============================================================================
