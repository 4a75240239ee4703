----------------------------- MODULE Scheduler -----------------------------
(***************************************************************************)
(* The task scheduler that both daemons are built on:                      *)
(* common/scheduler/{schedule,task,worker}.c, with the start and stop of   *)
(* the worker threads in enforcer/src/daemon/engine.c.                     *)
(*                                                                         *)
(* A task is identified by its ttuple (owner, type, class).  The schedule  *)
(* keeps every waiting task in two trees: "tasks", ordered by due date,    *)
(* and "tasks_by_name", ordered by ttuple.  Worker threads pop the first   *)
(* task that is due, take the mutex that all tasks of one owner share, run *)
(* the callback and put the task back according to what it returned.       *)
(* Client commands and callbacks ask for tasks concurrently.               *)
(*                                                                         *)
(* Every critical section of schedule_lock is one action.                  *)
(***************************************************************************)
EXTENDS Integers

CONSTANTS
  Workers,     \* the worker threads
  Tasks,       \* the ttuples that may be scheduled
  Locks,       \* the mutexes of locks_by_name: one per owner and class
  LockOf,      \* the mutex schedule_task() gives to a task
  Enforcer,    \* the tasks of class "enforcer", scheduled with SCHEDULE_REPLACE
  Delays,      \* how far ahead callers and callbacks schedule
  MinBackoff,  \* 60 in the code
  MaxBackoff,  \* ODS_SE_MAX_BACKOFF
  AllowLeap,   \* is the "time leap" debugging command used?
  MaxTime,     \* bound: the clock saturates here
  MaxAsks      \* bound: requests and prompt reschedules in one behaviour

Free == "free"      \* nobody holds the mutex
NoTask == "none"    \* the worker has no task

ASSUME SchedulerAssumption ==
  /\ Free \notin Workers
  /\ LockOf \in [Tasks -> Locks]
  /\ Enforcer \subseteq Tasks
  /\ Delays \subseteq Nat
  /\ MinBackoff \in Nat \ {0}
  /\ MaxBackoff \in Nat
  /\ MinBackoff <= MaxBackoff
  /\ AllowLeap \in BOOLEAN
  /\ MaxTime \in Nat
  /\ MaxAsks \in Nat

VARIABLES
  clock,         \* what time() returns
  time_now_set,  \* the overridden time, 0 when time is not overridden
  tasks,         \* tree by due date: its keys <<due date, ttuple>>
  tasks_by_name, \* tree by ttuple: the task object filed under each ttuple
  lock,          \* who holds each mutex
  pc,            \* where each worker is
  now,           \* the time a worker read before it took schedule_lock
  wait,          \* seconds left in the worker's condition wait
  cur,           \* the ttuple a worker has popped
  backoff,       \* the backoff field of that popped task
  result,        \* what its callback returned
  phase,         \* engine_run()/engine_stop_workers()
  asks,          \* requests so far (bounded by MaxAsks)
  asked          \* history: the earliest due date asked for and not yet honoured

treeVars == <<tasks, tasks_by_name>>
workVars == <<lock, now, wait, cur, backoff, result>>
timeVars == <<clock, time_now_set>>
vars == <<timeVars, treeVars, workVars, pc, phase, asks, asked>>

SUCCESS == -1       \* schedule_SUCCESS: do not reschedule
DEFER == -2         \* schedule_DEFER: retry with backoff
PROMPTLY == 1       \* schedule_PROMPTLY: at time_now()
IMMEDIATELY == 0    \* schedule_IMMEDIATELY: before everything else
Forever == -1       \* pthread_cond_wait() without a timeout
NoTime == -1

Locations == {"idle", "pop", "waiting", "popped", "running", "reschedule", "exited"}
Phases == {"running", "stopping", "woken", "stopped"}

(***************************************************************************)
(* Time.                                                                   *)
(***************************************************************************)
time_leaped == time_now_set # 0

time_now == IF time_leaped THEN time_now_set ELSE clock

clamp(value, lbnd, ubnd) ==
  IF value < lbnd THEN lbnd ELSE IF value > ubnd THEN ubnd ELSE value

(***************************************************************************)
(* The condition variable schedule_cond.  A woken worker returns NULL from *)
(* schedule_pop_task() and starts its loop again.                          *)
(***************************************************************************)
WakeOne(p) ==
  LET sleepers == {w \in Workers : p[w] = "waiting"}
  IN  IF sleepers = {} THEN {p} ELSE {[p EXCEPT ![w] = "idle"] : w \in sleepers}

WakeAll(p) == [w \in Workers |-> IF p[w] = "waiting" THEN "idle" ELSE p[w]]

(***************************************************************************)
(* The two trees.                                                          *)
(***************************************************************************)
scheduled == DOMAIN tasks_by_name

earlier(new, existing) == IF new < existing THEN new ELSE existing

\* a merge that takes the date of the last caller
latest_request(new, existing) == new

\* schedule_task() when no task with this ttuple is in the schedule
insert(t, due, bo) ==
  /\ tasks' = tasks \cup {<<due, t>>}
  /\ tasks_by_name' = [x \in scheduled \cup {t} |->
                         IF x = t THEN [due_date |-> due, backoff |-> bo]
                                  ELSE tasks_by_name[x]]

\* schedule_task() when there is one and the class replaces it: the existing
\* object is taken out of both trees, gets the earlier date and is put back
merge_due(due, existing) == earlier(due, existing)

merge(t, due) ==
  LET existing == tasks_by_name[t]
      d == merge_due(due, existing.due_date)
  IN  /\ tasks' = (tasks \ {<<existing.due_date, t>>}) \cup {<<d, t>>}
      /\ tasks_by_name' = [tasks_by_name EXCEPT ![t].due_date = d]

\* SCHEDULE_ADD for every class
schedule_task_add(t, due, bo) ==
  \/ t \notin scheduled /\ insert(t, due, bo)
  \/ t \in scheduled /\ UNCHANGED treeVars

schedule_task(t, due, bo) ==
  \/ t \notin scheduled /\ insert(t, due, bo)
  \/ t \in scheduled /\ t \in Enforcer /\ merge(t, due)
  \/ t \in scheduled /\ t \notin Enforcer /\ UNCHANGED treeVars  \* "already present"

remove(T) ==
  /\ tasks' = {e \in tasks : e[2] \notin T}
  /\ tasks_by_name' = [x \in scheduled \ T |-> tasks_by_name[x]]

\* the smallest key of the tree by due date, ties in any order
is_first(e) == e \in tasks /\ \A f \in tasks : e[1] <= f[1]

\* history: what has been asked of the class that promises to honour requests
note_ask(t, due) ==
  IF t \in Enforcer /\ (asked[t] = NoTime \/ due < asked[t]) THEN due ELSE asked[t]

Init ==
  /\ clock = 2 /\ time_now_set = 0
  /\ tasks = {} /\ tasks_by_name = [t \in {} |-> [due_date |-> 0, backoff |-> 0]]
  /\ lock = [l \in Locks |-> Free]
  /\ pc = [w \in Workers |-> "idle"]
  /\ now = [w \in Workers |-> 0]
  /\ wait = [w \in Workers |-> Forever]
  /\ cur = [w \in Workers |-> NoTask]
  /\ backoff = [w \in Workers |-> 0]
  /\ result = [w \in Workers |-> SUCCESS]
  /\ phase = "running"
  /\ asks = 0
  /\ asked = [t \in Tasks |-> NoTime]

(***************************************************************************)
(* The outside: time, client commands, other callbacks.                    *)
(***************************************************************************)
Tick ==
  /\ \/ clock < MaxTime
     \/ \E w \in Workers : pc[w] = "waiting" /\ wait[w] > 0
  /\ clock' = IF clock < MaxTime THEN clock + 1 ELSE clock
  /\ wait' = [w \in Workers |-> IF pc[w] = "waiting" /\ wait[w] > 0 THEN wait[w] - 1 ELSE wait[w]]
  /\ UNCHANGED <<time_now_set, treeVars, lock, now, cur, backoff, result, pc, phase, asks, asked>>

\* the due dates callers pass: time_now(), a later moment, 0 or PROMPTLY (1)
when == {IMMEDIATELY, PROMPTLY, time_now} \cup {time_now + d : d \in Delays}

RequestTask(t, due) ==
  /\ phase # "stopped"
  /\ asks < MaxAsks
  /\ due \in when
  /\ asks' = asks + 1
  /\ schedule_task(t, due, 0)
  /\ asked' = [asked EXCEPT ![t] = note_ask(t, due)]
  /\ pc' \in WakeOne(pc)
  /\ UNCHANGED <<timeVars, workVars, phase>>

\* schedule_purge_owner(): the zone of these tasks is deleted
PurgeOwner(l) ==
  LET T == {t \in Tasks : LockOf[t] = l} IN
  /\ phase # "stopped"
  /\ T \cap scheduled # {}
  /\ T \subseteq Enforcer
  /\ remove(T)
  /\ asked' = [t \in Tasks |-> IF t \in T THEN NoTime ELSE asked[t]]
  /\ UNCHANGED <<timeVars, workVars, pc, phase, asks>>

\* schedule_unscheduletask(): signer tasks withdraw the ones they supersede
UnscheduleTask(t) ==
  /\ phase # "stopped"
  /\ t \in scheduled \ Enforcer
  /\ remove({t})
  /\ UNCHANGED <<timeVars, workVars, pc, phase, asks, asked>>

\* "flush": schedule_flush() signals one worker; the signer's command then
\* calls engine_wakeup_workers() as well
Flush ==
  /\ phase # "stopped"
  /\ asks < MaxAsks
  /\ asks' = asks + 1
  /\ tasks' = {<<earlier(time_now, e[1]), e[2]>> : e \in tasks}
  /\ tasks_by_name' = [t \in scheduled |->
        [tasks_by_name[t] EXCEPT !.due_date = earlier(time_now, tasks_by_name[t].due_date)]]
  /\ pc' \in IF Enforcer = {} THEN {WakeAll(pc)} ELSE WakeOne(pc)
  /\ UNCHANGED <<timeVars, workVars, phase, asked>>

\* "time leap" without --attach: schedule_info() is called whether or not there
\* is a --time argument and overwrites it with the first due date
TimeLeap ==
  /\ AllowLeap /\ phase # "stopped"
  /\ \E e \in tasks : is_first(e) /\ e[1] <= MaxTime /\ time_now_set' = e[1]
  /\ pc' = WakeAll(pc)
  /\ UNCHANGED <<clock, treeVars, workVars, phase, asks, asked>>

(***************************************************************************)
(* A worker: worker_start(), schedule_pop_task(), task_perform().          *)
(***************************************************************************)
\* the loop condition, then the clock is read before schedule_lock is taken
BeginPop(w) ==
  /\ pc[w] = "idle"
  /\ phase = "running"
  /\ now' = [now EXCEPT ![w] = time_now]
  /\ pc' = [pc EXCEPT ![w] = "pop"]
  /\ UNCHANGED <<timeVars, treeVars, lock, wait, cur, backoff, result, phase, asks, asked>>

Exit(w) ==
  /\ pc[w] = "idle"
  /\ phase \in {"stopping", "woken"}
  /\ pc' = [pc EXCEPT ![w] = "exited"]
  /\ UNCHANGED <<timeVars, treeVars, workVars, phase, asks, asked>>

PopDue(w) ==
  /\ pc[w] = "pop"
  /\ \E e \in tasks :
       /\ is_first(e)
       /\ e[1] <= now[w]
       /\ cur' = [cur EXCEPT ![w] = e[2]]
       /\ backoff' = [backoff EXCEPT ![w] = tasks_by_name[e[2]].backoff]
       /\ remove({e[2]})
  /\ pc' = [pc EXCEPT ![w] = "popped"]
  /\ now' = [now EXCEPT ![w] = 0]
  /\ UNCHANGED <<timeVars, lock, wait, result, phase, asks, asked>>

\* a wait without a timeout, as in time-leap mode
pop_forever(w) == {Forever}

pop_timeout(w) ==
  IF time_leaped THEN {Forever}
  ELSE IF tasks = {} THEN {clamp(0, MinBackoff, MaxBackoff)}
  ELSE {clamp(e[1] - now[w], IF e[2] \in Enforcer THEN 0 ELSE MinBackoff, MaxBackoff) :
          e \in {f \in tasks : is_first(f)}}

\* ods_thread_wait(): zero or less is no timeout at all
thread_wait(s) == IF s <= 0 THEN Forever ELSE s

PopSleep(w) ==
  /\ pc[w] = "pop"
  /\ \A e \in tasks : e[1] > now[w]
  /\ \E s \in pop_timeout(w) : wait' = [wait EXCEPT ![w] = thread_wait(s)]
  /\ pc' = [pc EXCEPT ![w] = "waiting"]
  /\ now' = [now EXCEPT ![w] = 0]
  /\ UNCHANGED <<timeVars, treeVars, lock, cur, backoff, result, phase, asks, asked>>

WaitTimeout(w) ==
  /\ pc[w] = "waiting"
  /\ wait[w] = 0
  /\ pc' = [pc EXCEPT ![w] = "idle"]
  /\ UNCHANGED <<timeVars, treeVars, workVars, phase, asks, asked>>

\* a callback started without waiting for the mutex
any_lock(l) == TRUE

free_lock(l) == lock[l] = Free

TakeLock(w) ==
  LET t == cur[w] IN
  /\ pc[w] = "popped"
  /\ free_lock(LockOf[t])
  /\ lock' = [lock EXCEPT ![LockOf[t]] = w]
  /\ asked' = [asked EXCEPT ![t] = NoTime]
  /\ pc' = [pc EXCEPT ![w] = "running"]
  /\ UNCHANGED <<timeVars, treeVars, now, wait, cur, backoff, result, phase, asks>>

\* the callback returns r and the mutex is released
CallbackReturns(w, r) ==
  /\ pc[w] = "running"
  /\ r \in {SUCCESS, DEFER, PROMPTLY, IMMEDIATELY} \cup {time_now + d : d \in Delays \ {0}}
  /\ r \in {PROMPTLY, IMMEDIATELY} => asks < MaxAsks
  /\ asks' = IF r \in {PROMPTLY, IMMEDIATELY} THEN asks + 1 ELSE asks
  /\ result' = [result EXCEPT ![w] = r]
  /\ lock' = [lock EXCEPT ![LockOf[cur[w]]] = Free]
  /\ pc' = [pc EXCEPT ![w] = "reschedule"]
  /\ UNCHANGED <<timeVars, treeVars, now, wait, cur, backoff, phase, asked>>

next_backoff(b) == clamp(b * 2, MinBackoff, MaxBackoff)

\* rescheduleTime at the end of task_perform()
reschedule_time(r, bo) ==
  IF r = PROMPTLY THEN time_now ELSE IF r = DEFER THEN time_now + bo ELSE r

Reschedule(w) ==
  LET t  == cur[w]
      bo == IF result[w] = DEFER THEN next_backoff(backoff[w]) ELSE backoff[w]
      due == reschedule_time(result[w], bo)
      released == [pc EXCEPT ![w] = "idle"]
  IN
  /\ pc[w] = "reschedule"
  /\ \/ /\ due >= 0
        /\ schedule_task(t, due, bo)
        /\ asked' = [asked EXCEPT ![t] = note_ask(t, due)]
        /\ pc' \in WakeOne(released)
     \/ /\ due < 0                     \* task_destroy()
        /\ pc' = released
        /\ UNCHANGED <<treeVars, asked>>
  /\ cur' = [cur EXCEPT ![w] = NoTask]
  /\ backoff' = [backoff EXCEPT ![w] = 0]
  /\ result' = [result EXCEPT ![w] = SUCCESS]
  /\ UNCHANGED <<timeVars, lock, now, wait, phase, asks>>

(***************************************************************************)
(* engine_stop_workers() and engine_run().                                 *)
(***************************************************************************)
\* need_to_exit is set without any lock ...
StopWorkers ==
  /\ phase = "running"
  /\ phase' = "stopping"
  /\ UNCHANGED <<timeVars, treeVars, workVars, pc, asks, asked>>

wakeup_workers(p) == WakeAll(p)

\* ... and then schedule_release_all() broadcasts
WakeupWorkers ==
  /\ phase = "stopping"
  /\ phase' = "woken"
  /\ pc' = wakeup_workers(pc)
  /\ UNCHANGED <<timeVars, treeVars, workVars, asks, asked>>

\* the workers are joined, the command handler stopped, the schedule purged
JoinAndPurge ==
  /\ phase = "woken"
  /\ \A w \in Workers : pc[w] = "exited"
  /\ phase' = "stopped"
  /\ remove(Tasks)
  /\ asked' = [t \in Tasks |-> NoTime]
  /\ UNCHANGED <<timeVars, workVars, pc, asks>>

\* a reload runs the engine again
StartWorkers ==
  /\ phase = "stopped"
  /\ phase' = "running"
  /\ pc' = [w \in Workers |-> "idle"]
  /\ UNCHANGED <<timeVars, treeVars, workVars, asks, asked>>

WorkerStep(w) ==
  \/ BeginPop(w) \/ Exit(w) \/ PopDue(w) \/ PopSleep(w) \/ WaitTimeout(w)
  \/ TakeLock(w) \/ Reschedule(w)
  \/ \E r \in {SUCCESS, DEFER, PROMPTLY, IMMEDIATELY} \cup {time_now + d : d \in Delays} :
        CallbackReturns(w, r)

Next ==
  \/ Tick
  \/ \E t \in Tasks, due \in when : RequestTask(t, due)
  \/ \E l \in Locks : PurgeOwner(l)
  \/ \E t \in Tasks : UnscheduleTask(t)
  \/ Flush
  \/ TimeLeap
  \/ \E w \in Workers : WorkerStep(w)
  \/ StopWorkers \/ WakeupWorkers \/ JoinAndPurge \/ StartWorkers

Spec == Init /\ [][Next]_vars

(***************************************************************************)
(* Fairness: the operating system schedules every thread, callbacks return *)
(* and time goes on.  Nothing forces anybody to stop or restart the daemon *)
(* but a stop that was begun is carried through by the main thread.        *)
(***************************************************************************)
FairSpec ==
  /\ Spec
  /\ WF_vars(Tick)
  /\ \A w \in Workers : WF_vars(WorkerStep(w))
  /\ WF_vars(WakeupWorkers) /\ WF_vars(JoinAndPurge)

(***************************************************************************)
(* Properties.                                                             *)
(***************************************************************************)
\* Every variable has its type; a task in somebody's hands has a known ttuple.
TypeOK ==
  /\ clock \in Nat /\ time_now_set \in Nat
  /\ tasks \subseteq (Nat \X Tasks)
  /\ scheduled \subseteq Tasks
  /\ tasks_by_name \in [scheduled -> [due_date : Nat, backoff : 0..MaxBackoff]]
  /\ lock \in [Locks -> Workers \cup {Free}]
  /\ pc \in [Workers -> Locations]
  /\ now \in [Workers -> Nat]
  /\ wait \in [Workers -> Nat \cup {Forever}]
  /\ cur \in [Workers -> Tasks \cup {NoTask}]
  /\ \A w \in Workers : pc[w] \in {"popped", "running", "reschedule"} => cur[w] \in Tasks
  /\ backoff \in [Workers -> 0..MaxBackoff]
  /\ result \in [Workers -> Nat \cup {SUCCESS, DEFER}]
  /\ phase \in Phases
  /\ asks \in Nat
  /\ asked \in [Tasks -> Nat \cup {NoTime}]

\* The two trees hold the same objects under the same dates, so that the
\* assertions of fetch_node_pair() and schedule_task() (node1->key ==
\* node2->key, the insertions succeed) hold whatever merges, flushes, pops and
\* purges came before.
TreesAgree == tasks = {<<tasks_by_name[t].due_date, t>> : t \in scheduled}

\* No two workers run callbacks of the same owner: the mutex schedule_task()
\* files under owner and class covers enforce, signconf, ds-submit and
\* ds-retract of one zone, also for a task that was asked for again while it
\* runs.
MutualExclusion ==
  \A v, w \in Workers :
    /\ pc[v] = "running" /\ pc[w] = "running"
    /\ LockOf[cur[v]] = LockOf[cur[w]]
    => v = w

\* A request is not lost: until the callback of an enforcer task has started
\* after the request, the task is either in the schedule with a date no later
\* than any date asked for, or in the hands of a worker that has yet to start
\* it.  Merging with a waiting task, being asked while it runs and its own
\* reschedule all keep this.
RequestsKept ==
  \A t \in Enforcer :
    asked[t] # NoTime =>
      \/ t \in scheduled /\ tasks_by_name[t].due_date <= asked[t]
      \/ \E w \in Workers : pc[w] = "popped" /\ cur[w] = t

\* No step moves a waiting task to a later date.
NeverPostponed ==
  [][\A t \in Tasks :
       (t \in scheduled /\ t \in scheduled') =>
         tasks_by_name'[t].due_date <= tasks_by_name[t].due_date]_vars

\* Every request for an enforcer task that falls due before the horizon is
\* followed by a start of its callback (or by the purge of its owner or of the
\* schedule): no wake-up is lost between schedule_task() and a sleeping worker.
RequestsServed ==
  \A t \in Enforcer : asked[t] \in 0..MaxTime ~> asked[t] = NoTime

\* engine_stop_workers() gets every worker to exit, although need_to_exit is
\* set outside schedule_lock and a worker may miss the broadcast.
StopCompletes == phase = "stopping" ~> phase = "stopped"

============================================================================
