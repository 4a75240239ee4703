-------------------------- MODULE SchedulerProofs --------------------------
(***************************************************************************)
(* Safety of the scheduler for any number of workers, tasks, owners and    *)
(* any clock: proofs of TypeOK, TreesAgree, MutualExclusion, RequestsKept  *)
(* and NeverPostponed.                                                     *)
(***************************************************************************)
EXTENDS Scheduler, TLAPS

\* The strengthening MutualExclusion needs: a worker inside a callback is
\* recorded as the holder of the mutex of its task.
LockHeld == \A w \in Workers : pc[w] = "running" => lock[LockOf[cur[w]]] = w

\* The strengthening RequestsKept needs: engine_run() starts workers only after
\* all the old ones were joined, so no popped task is in anybody's hands.
StoppedExited == phase = "stopped" => \A w \in Workers : pc[w] = "exited"

\* pthread_cond_signal() and pthread_cond_broadcast() only move sleepers to the
\* top of their loop.
LEMMA WakeLemma ==
  ASSUME NEW p \in [Workers -> Locations], NEW q, q \in WakeOne(p) \/ q = WakeAll(p)
  PROVE  /\ q \in [Workers -> Locations]
         /\ \A w \in Workers : q[w] = p[w] \/ (p[w] = "waiting" /\ q[w] = "idle")
<1>1. CASE q = WakeAll(p)
  BY <1>1, Zenon DEF WakeAll, Locations
<1>2. CASE q \in WakeOne(p)
  BY <1>2, Zenon DEF WakeOne, Locations
<1> QED BY <1>1, <1>2, Zenon

\* clamp() stays within its bounds.
LEMMA ClampLemma ==
  ASSUME NEW v \in Int, NEW l \in Nat, NEW u \in Nat, l <= u
  PROVE  clamp(v, l, u) \in l..u
BY DEF clamp

\* schedule_task() keeps the trees well-typed.
LEMMA ScheduleTaskType ==
  ASSUME TypeOK, NEW t \in Tasks, NEW due \in Nat, NEW bo \in 0..MaxBackoff,
         schedule_task(t, due, bo)
  PROVE  /\ tasks' \subseteq (Nat \X Tasks)
         /\ scheduled' \subseteq Tasks
         /\ tasks_by_name' \in [scheduled' -> [due_date : Nat, backoff : 0..MaxBackoff]]
<1>1. CASE t \notin scheduled /\ insert(t, due, bo)
  BY <1>1 DEF TypeOK, insert, scheduled
<1>2. CASE t \in scheduled /\ t \in Enforcer /\ merge(t, due)
  <2>1. tasks_by_name[t].due_date \in Nat
    BY <1>2, Zenon DEF TypeOK, scheduled
  <2>2. merge_due(due, tasks_by_name[t].due_date) \in Nat
    BY <2>1, Zenon DEF merge_due, earlier
  <2> QED BY <1>2, <2>1, <2>2 DEF TypeOK, merge, scheduled
<1>3. CASE UNCHANGED treeVars
  BY <1>3, Zenon DEF TypeOK, treeVars, scheduled
<1> QED BY <1>1, <1>2, <1>3, Zenon DEF schedule_task

\* Removing tasks from both trees keeps them well-typed.
LEMMA RemoveType ==
  ASSUME TypeOK, NEW T, remove(T)
  PROVE  /\ tasks' \subseteq (Nat \X Tasks)
         /\ scheduled' \subseteq Tasks
         /\ tasks_by_name' \in [scheduled' -> [due_date : Nat, backoff : 0..MaxBackoff]]
BY Zenon DEF TypeOK, remove, scheduled

\* Whatever time is read is a natural number.
LEMMA TimeType == TypeOK => time_now \in Nat
BY Zenon DEF TypeOK, time_now, time_leaped

\* The backoff stays within ODS_SE_MAX_BACKOFF, whatever the callback returns.
LEMMA BackoffType ==
  ASSUME TypeOK, NEW w \in Workers
  PROVE  (IF result[w] = DEFER THEN next_backoff(backoff[w]) ELSE backoff[w]) \in 0..MaxBackoff
<1> USE SchedulerAssumption
<1>1. backoff[w] \in 0..MaxBackoff
  BY Zenon DEF TypeOK
<1>2. backoff[w] * 2 \in Int
  BY <1>1
<1>3. clamp(backoff[w] * 2, MinBackoff, MaxBackoff) \in MinBackoff..MaxBackoff
  BY <1>2, ClampLemma, Zenon
<1>4. next_backoff(backoff[w]) \in 0..MaxBackoff
  BY <1>3 DEF next_backoff
<1> QED BY <1>1, <1>4, Zenon

\* Every step keeps TypeOK.
LEMMA NextType == TypeOK /\ TreesAgree /\ [Next]_vars => TypeOK'
<1> SUFFICES ASSUME TypeOK, TreesAgree, [Next]_vars PROVE TypeOK'
  BY Zenon
<1> USE SchedulerAssumption
<1>t. time_now \in Nat
  BY TimeType, Zenon
<1>w. when \subseteq Nat
  BY <1>t DEF when, IMMEDIATELY, PROMPTLY
<1>1. CASE Tick
  BY <1>1 DEF Tick, TypeOK, treeVars, scheduled, Locations, Forever
<1>2. ASSUME NEW t \in Tasks, NEW due \in when, RequestTask(t, due) PROVE TypeOK'
  <2>1. note_ask(t, due) \in Nat \cup {NoTime}
    BY <1>w, Zenon DEF note_ask, TypeOK
  <2>2. pc' \in [Workers -> Locations] /\ \A w \in Workers : pc'[w] = pc[w] \/ pc'[w] = "idle"
    BY <1>2, WakeLemma, Zenon DEF RequestTask, TypeOK
  <2>3. 0 \in 0..MaxBackoff
    OBVIOUS
  <2>4. /\ tasks' \subseteq (Nat \X Tasks)
        /\ scheduled' \subseteq Tasks
        /\ tasks_by_name' \in [scheduled' -> [due_date : Nat, backoff : 0..MaxBackoff]]
    BY <1>2, <1>w, <2>3, ScheduleTaskType, Zenon DEF RequestTask
  <2> QED BY <1>2, <2>1, <2>2, <2>4 DEF RequestTask, TypeOK, timeVars, workVars
<1>3. ASSUME NEW l \in Locks, PurgeOwner(l) PROVE TypeOK'
  BY <1>3, RemoveType, Zenon DEF PurgeOwner, TypeOK, timeVars, workVars
<1>4. ASSUME NEW t \in Tasks, UnscheduleTask(t) PROVE TypeOK'
  BY <1>4, RemoveType, Zenon DEF UnscheduleTask, TypeOK, timeVars, workVars
<1>5. CASE Flush
  <2>1. \A d \in Nat : earlier(time_now, d) \in Nat
    BY <1>t, Zenon DEF earlier
  <2>2. pc' \in [Workers -> Locations] /\ \A w \in Workers : pc'[w] = pc[w] \/ pc'[w] = "idle"
    BY <1>5, WakeLemma, Zenon DEF Flush, TypeOK
  <2>3. tasks' \subseteq (Nat \X Tasks)
    BY <1>5, <2>1 DEF Flush, TypeOK
  <2>4. scheduled' = scheduled /\ tasks_by_name' \in [scheduled' -> [due_date : Nat, backoff : 0..MaxBackoff]]
    BY <1>5, <2>1 DEF Flush, TypeOK, scheduled
  <2> QED BY <1>5, <2>2, <2>3, <2>4 DEF Flush, TypeOK, timeVars, workVars
<1>6. ASSUME TimeLeap PROVE TypeOK'
  <2>1. pc' \in [Workers -> Locations] /\ \A w \in Workers : pc'[w] = pc[w] \/ pc'[w] = "idle"
    BY <1>6, WakeLemma, Zenon DEF TimeLeap, TypeOK
  <2>2. time_now_set' \in Nat
    BY <1>6, Zenon DEF TimeLeap, is_first, TypeOK
  <2> QED BY <1>6, <2>1, <2>2, Zenon DEF TimeLeap, TypeOK, treeVars, workVars, scheduled
<1>7. ASSUME NEW w \in Workers, WorkerStep(w) PROVE TypeOK'
  <2>1. CASE BeginPop(w)
    BY <2>1, <1>t, Zenon DEF BeginPop, TypeOK, timeVars, treeVars, scheduled, Locations
  <2>2. CASE Exit(w)
    BY <2>2, Zenon DEF Exit, TypeOK, timeVars, treeVars, workVars, scheduled, Locations
  <2>3. CASE PopDue(w)
    <3>1. PICK e \in tasks : /\ is_first(e)
                             /\ cur' = [cur EXCEPT ![w] = e[2]]
                             /\ backoff' = [backoff EXCEPT ![w] = tasks_by_name[e[2]].backoff]
                             /\ remove({e[2]})
      BY <2>3, Zenon DEF PopDue
    <3>2. e[2] \in Tasks
      BY Zenon DEF TypeOK
    <3>3. tasks_by_name[e[2]].backoff \in 0..MaxBackoff
      BY <3>1 DEF TypeOK, TreesAgree
    <3> QED BY <2>3, <3>1, <3>2, <3>3, RemoveType, Zenon DEF PopDue, TypeOK, timeVars, Locations
  <2>4. CASE PopSleep(w)
    <3>1. \A d \in Int : clamp(d, 0, MaxBackoff) \in Nat /\ clamp(d, MinBackoff, MaxBackoff) \in Nat
      BY ClampLemma
    <3>2. now[w] \in Int /\ \A e \in tasks : e[1] - now[w] \in Int
      BY DEF TypeOK
    <3>3. \A s \in pop_timeout(w) : s \in Nat \cup {Forever}
      BY <3>1, <3>2 DEF pop_timeout
    <3>4. \A s \in pop_timeout(w) : thread_wait(s) \in Nat \cup {Forever}
      BY <3>3, Zenon DEF thread_wait, Forever
    <3> QED BY <2>4, <3>4 DEF PopSleep, TypeOK, timeVars, treeVars, scheduled, Locations
  <2>5. CASE WaitTimeout(w)
    BY <2>5, Zenon DEF WaitTimeout, TypeOK, timeVars, treeVars, workVars, scheduled, Locations
  <2>6. CASE TakeLock(w)
    BY <2>6, Zenon DEF TakeLock, TypeOK, timeVars, treeVars, scheduled, Locations
  <2>7. CASE Reschedule(w)
    <3> DEFINE bo == IF result[w] = DEFER THEN next_backoff(backoff[w]) ELSE backoff[w]
               due == reschedule_time(result[w], bo)
    <3>1. cur[w] \in Tasks
      BY <2>7, Zenon DEF Reschedule, TypeOK
    <3>2. bo \in 0..MaxBackoff
      BY BackoffType, Zenon
    <3>3. due \in Int
      BY <1>t, <3>2 DEF TypeOK, reschedule_time, PROMPTLY, DEFER, SUCCESS
    <3>4. /\ scheduled' \subseteq Tasks
          /\ tasks' \subseteq (Nat \X Tasks)
          /\ tasks_by_name' \in [scheduled' -> [due_date : Nat, backoff : 0..MaxBackoff]]
          /\ asked' \in [Tasks -> Nat \cup {NoTime}]
          /\ pc' \in [Workers -> Locations]
          /\ \A v \in Workers : pc'[v] = pc[v] \/ pc'[v] = "idle"
          /\ pc'[w] = "idle"
      <4> DEFINE released == [pc EXCEPT ![w] = "idle"]
      <4>0. released \in [Workers -> Locations] /\ released[w] = "idle"
            /\ \A v \in Workers : released[v] = pc[v] \/ released[v] = "idle"
        BY Zenon DEF TypeOK, Locations
      <4>1. CASE /\ due >= 0
                 /\ schedule_task(cur[w], due, bo)
                 /\ asked' = [asked EXCEPT ![cur[w]] = note_ask(cur[w], due)]
                 /\ pc' \in WakeOne(released)
        <5>1. due \in Nat
          BY <3>3, <4>1
        <5>2. note_ask(cur[w], due) \in Nat \cup {NoTime}
          BY <5>1, <3>1, Zenon DEF note_ask, TypeOK
        <5> HIDE DEF released, due, bo
        <5>3. pc' \in [Workers -> Locations]
              /\ \A v \in Workers : pc'[v] = released[v] \/ (released[v] = "waiting" /\ pc'[v] = "idle")
          BY <4>0, <4>1, WakeLemma, Zenon
        <5>4. /\ scheduled' \subseteq Tasks
              /\ tasks' \subseteq (Nat \X Tasks)
              /\ tasks_by_name' \in [scheduled' -> [due_date : Nat, backoff : 0..MaxBackoff]]
          BY <3>1, <3>2, <4>1, <5>1, ScheduleTaskType, Zenon
        <5>5. asked' \in [Tasks -> Nat \cup {NoTime}]
          BY <4>1, <5>2, Zenon DEF TypeOK
        <5> QED BY <4>0, <5>3, <5>4, <5>5, Zenon
      <4>2. CASE pc' = released /\ UNCHANGED <<treeVars, asked>>
        BY <4>0, <4>2, Zenon DEF TypeOK, treeVars, scheduled
      <4> QED BY <2>7, <4>1, <4>2, Zenon DEF Reschedule
    <3>5. /\ cur' = [cur EXCEPT ![w] = NoTask] /\ backoff' = [backoff EXCEPT ![w] = 0]
          /\ result' = [result EXCEPT ![w] = SUCCESS]
          /\ UNCHANGED <<timeVars, lock, now, wait, phase, asks>>
      BY <2>7, Zenon DEF Reschedule
    <3>6. \A v \in Workers : pc'[v] \in {"popped", "running", "reschedule"} => cur'[v] \in Tasks
      BY <3>4, <3>5, Zenon DEF TypeOK
    <3> HIDE DEF bo, due
    <3> QED BY <3>4, <3>5, <3>6 DEF TypeOK, timeVars
  <2>8. ASSUME NEW r, CallbackReturns(w, r) PROVE TypeOK'
    BY <1>t, <2>8 DEF CallbackReturns, TypeOK, timeVars, treeVars, scheduled, Locations, PROMPTLY, IMMEDIATELY
  <2> QED BY <1>7, <2>1, <2>2, <2>3, <2>4, <2>5, <2>6, <2>7, <2>8, Zenon DEF WorkerStep
<1>8. CASE StopWorkers
  BY <1>8, Zenon DEF StopWorkers, TypeOK, timeVars, treeVars, workVars, scheduled, Phases
<1>9. CASE WakeupWorkers
  BY <1>9, WakeLemma, Zenon DEF WakeupWorkers, wakeup_workers, TypeOK, timeVars, treeVars, workVars, scheduled, Phases
<1>10. CASE JoinAndPurge
  BY <1>10, RemoveType, Zenon DEF JoinAndPurge, TypeOK, timeVars, workVars, Phases
<1>11. CASE StartWorkers
  BY <1>11, Zenon DEF StartWorkers, TypeOK, timeVars, treeVars, workVars, scheduled, Phases, Locations
<1>12. CASE UNCHANGED vars
  BY <1>12, Zenon DEF vars, TypeOK, timeVars, treeVars, workVars, scheduled
<1> QED BY <1>1, <1>2, <1>3, <1>4, <1>5, <1>6, <1>7, <1>8, <1>9, <1>10, <1>11, <1>12, Zenon DEF Next

\* What a step that calls schedule_task() does: RequestTask, and Reschedule when
\* the callback asks to be run again.
ScheduleStep ==
  \E t \in Tasks, due \in Nat, bo \in 0..MaxBackoff :
    /\ schedule_task(t, due, bo)
    /\ asked' = [asked EXCEPT ![t] = note_ask(t, due)]
    /\ \A v \in Workers : pc[v] = "popped" => pc'[v] = "popped" /\ cur'[v] = cur[v]

\* A request from outside is such a step.
LEMMA RequestSchedules ==
  ASSUME TypeOK, NEW t \in Tasks, NEW due \in when, RequestTask(t, due)
  PROVE  ScheduleStep
<1> USE SchedulerAssumption
<1>1. due \in Nat
  <2>1. time_now \in Nat
    BY TimeType, Zenon
  <2>2. \A d \in Delays : time_now + d \in Nat
    BY <2>1
  <2>3. 0 \in Nat /\ 1 \in Nat
    OBVIOUS
  <2> QED BY <2>1, <2>2, <2>3, Zenon DEF when, IMMEDIATELY, PROMPTLY
<1>2. \A v \in Workers : pc[v] = "popped" => pc'[v] = "popped" /\ cur'[v] = cur[v]
  BY WakeLemma, Zenon DEF RequestTask, TypeOK, workVars
<1>3. 0 \in 0..MaxBackoff
  OBVIOUS
<1> QED BY <1>1, <1>2, <1>3, Zenon DEF RequestTask, ScheduleStep

\* The end of task_perform() is such a step, or destroys the task.
LEMMA RescheduleSchedules ==
  ASSUME TypeOK, NEW w \in Workers, Reschedule(w)
  PROVE  ScheduleStep \/ UNCHANGED <<treeVars, asked>>
<1> DEFINE bo == IF result[w] = DEFER THEN next_backoff(backoff[w]) ELSE backoff[w]
           due == reschedule_time(result[w], bo)
           released == [pc EXCEPT ![w] = "idle"]
<1>1. SUFFICES ASSUME ~ UNCHANGED <<treeVars, asked>> PROVE ScheduleStep
  BY Zenon
<1>2. bo \in 0..MaxBackoff
  BY BackoffType, Zenon
<1>3. due \in Int
  BY <1>2, TimeType DEF TypeOK, reschedule_time, PROMPTLY, DEFER, SUCCESS
<1>4. /\ due >= 0
      /\ schedule_task(cur[w], due, bo)
      /\ asked' = [asked EXCEPT ![cur[w]] = note_ask(cur[w], due)]
      /\ pc' \in WakeOne(released)
  BY <1>1, Zenon DEF Reschedule
<1>5. cur[w] \in Tasks
  BY Zenon DEF Reschedule, TypeOK
<1>6. cur' = [cur EXCEPT ![w] = NoTask] /\ pc[w] = "reschedule"
  BY Zenon DEF Reschedule
<1>7. released \in [Workers -> Locations]
  BY Zenon DEF TypeOK, Locations
<1>8. \A v \in Workers : pc'[v] = released[v] \/ (released[v] = "waiting" /\ pc'[v] = "idle")
  BY <1>4, <1>7, WakeLemma, Zenon
<1>9. \A v \in Workers : pc[v] = "popped" => pc'[v] = "popped" /\ cur'[v] = cur[v]
  BY <1>6, <1>8, Zenon DEF TypeOK
<1>10. due \in Nat
  BY <1>3, <1>4
<1> HIDE DEF bo, due, released
<1> QED BY <1>2, <1>4, <1>5, <1>9, <1>10, Zenon DEF ScheduleStep

\* How the two trees may change in one step.
LEMMA TreeSteps ==
  ASSUME TypeOK, [Next]_vars
  PROVE  ScheduleStep \/ (\E T : remove(T)) \/ Flush \/ UNCHANGED treeVars
<1>1. CASE \E t \in Tasks, due \in when : RequestTask(t, due)
  BY <1>1, RequestSchedules, Zenon
<1>2. CASE \E w \in Workers : Reschedule(w)
  BY <1>2, RescheduleSchedules, Zenon
<1>3. CASE (\E l \in Locks : PurgeOwner(l)) \/ (\E t \in Tasks : UnscheduleTask(t)) \/ JoinAndPurge
  BY <1>3, Zenon DEF PurgeOwner, UnscheduleTask, JoinAndPurge
<1>4. ASSUME NEW w \in Workers, WorkerStep(w), ~ UNCHANGED treeVars, ~ Reschedule(w)
      PROVE  \E T : remove(T)
  BY <1>4, Zenon DEF WorkerStep, BeginPop, Exit, PopDue, PopSleep, WaitTimeout, TakeLock, CallbackReturns
<1>5. CASE \/ Tick \/ StopWorkers \/ WakeupWorkers \/ StartWorkers \/ TimeLeap
           \/ UNCHANGED vars
  BY <1>5, Zenon DEF Tick, StopWorkers, WakeupWorkers, StartWorkers, TimeLeap, vars
<1> QED BY <1>1, <1>2, <1>3, <1>4, <1>5, Zenon DEF Next

\* schedule_task() files the object under one date in both trees.
LEMMA ScheduleKeepsTrees ==
  ASSUME TypeOK, TreesAgree, NEW t \in Tasks, NEW due \in Nat, NEW bo \in 0..MaxBackoff,
         schedule_task(t, due, bo)
  PROVE  TreesAgree'
<1>1. CASE t \notin scheduled /\ insert(t, due, bo)
  <2>1. scheduled' = scheduled \cup {t}
    BY <1>1, Zenon DEF insert, scheduled
  <2>2. /\ tasks_by_name'[t].due_date = due
        /\ \A x \in scheduled : tasks_by_name'[x] = tasks_by_name[x]
    BY <1>1, Zenon DEF insert, scheduled
  <2> QED BY <1>1, <2>1, <2>2, Zenon DEF TreesAgree, insert
<1>2. CASE t \in scheduled /\ t \in Enforcer /\ merge(t, due)
  <2> DEFINE d == merge_due(due, tasks_by_name[t].due_date)
  <2>1. scheduled' = scheduled
    BY <1>2, Zenon DEF merge, scheduled
  <2>2. /\ tasks_by_name'[t].due_date = d
        /\ \A x \in scheduled \ {t} : tasks_by_name'[x] = tasks_by_name[x]
    BY <1>2, Zenon DEF merge, scheduled, TypeOK
  <2>3. tasks' = (tasks \ {<<tasks_by_name[t].due_date, t>>}) \cup {<<d, t>>}
    BY <1>2, Zenon DEF merge
  <2> HIDE DEF d
  <2> QED BY <1>2, <2>1, <2>2, <2>3 DEF TreesAgree
<1>3. CASE UNCHANGED treeVars
  BY <1>3, Zenon DEF TreesAgree, treeVars, scheduled
<1> QED BY <1>1, <1>2, <1>3, Zenon DEF schedule_task

\* Every step keeps the trees in agreement.
LEMMA NextTrees == TypeOK /\ TreesAgree /\ [Next]_vars => TreesAgree'
<1> SUFFICES ASSUME TypeOK, TreesAgree, [Next]_vars PROVE TreesAgree'
  BY Zenon
<1>1. CASE ScheduleStep
  BY <1>1, ScheduleKeepsTrees, Zenon DEF ScheduleStep
<1>2. ASSUME NEW T, remove(T) PROVE TreesAgree'
  <2>1. scheduled' = scheduled \ T /\ \A x \in scheduled' : tasks_by_name'[x] = tasks_by_name[x]
    BY <1>2, Zenon DEF remove, scheduled
  <2> QED BY <1>2, <2>1 DEF remove, TreesAgree
<1>3. CASE Flush
  <2>1. scheduled' = scheduled
    BY <1>3, Zenon DEF Flush, scheduled
  <2>2. \A x \in scheduled : tasks_by_name'[x].due_date = earlier(time_now, tasks_by_name[x].due_date)
    BY <1>3, Zenon DEF Flush, TypeOK, scheduled
  <2>3. tasks' = {<<earlier(time_now, e[1]), e[2]>> : e \in tasks}
    BY <1>3, Zenon DEF Flush
  <2>4. \A e : e \in tasks <=> \E t \in scheduled : e = <<tasks_by_name[t].due_date, t>>
    BY Zenon DEF TreesAgree
  <2>5. \A e : e \in tasks' <=> \E t \in scheduled : e = <<earlier(time_now, tasks_by_name[t].due_date), t>>
    <3>1. ASSUME NEW e \in tasks'
          PROVE  \E t \in scheduled : e = <<earlier(time_now, tasks_by_name[t].due_date), t>>
      <4>1. PICK f \in tasks : e = <<earlier(time_now, f[1]), f[2]>>
        BY <2>3, Zenon
      <4>2. PICK t \in scheduled : f = <<tasks_by_name[t].due_date, t>>
        BY <2>4, Zenon
      <4> QED BY <4>1, <4>2, Zenon
    <3>2. ASSUME NEW t \in scheduled
          PROVE  <<earlier(time_now, tasks_by_name[t].due_date), t>> \in tasks'
      <4> DEFINE f == <<tasks_by_name[t].due_date, t>>
      <4>1. f \in tasks /\ f[1] = tasks_by_name[t].due_date /\ f[2] = t
        BY <2>4, Zenon
      <4> HIDE DEF f
      <4> QED BY <2>3, <4>1, Zenon
    <3> QED BY <3>1, <3>2, Zenon
  <2>6. \A e : e \in tasks' <=> \E t \in scheduled' : e = <<tasks_by_name'[t].due_date, t>>
    BY <2>1, <2>2, <2>5, Zenon
  <2> QED BY <2>6, Zenon DEF TreesAgree
<1>4. CASE UNCHANGED treeVars
  BY <1>4, Zenon DEF TreesAgree, treeVars, scheduled
<1> QED BY <1>1, <1>2, <1>3, <1>4, TreeSteps, Zenon

\* The mutex of a running callback is held by its worker: nobody takes a held
\* mutex, and only the holder gives it back.
LEMMA NextLocks == TypeOK /\ TypeOK' /\ LockHeld /\ [Next]_vars => LockHeld'
<1> SUFFICES ASSUME TypeOK, TypeOK', LockHeld, [Next]_vars PROVE LockHeld'
  BY Zenon
<1> USE SchedulerAssumption
<1>1. ASSUME lock' = lock, cur' = cur, \A v \in Workers : pc'[v] = "running" => pc[v] = "running"
      PROVE  LockHeld'
  BY <1>1, Zenon DEF LockHeld
<1>2. ASSUME NEW t \in Tasks, NEW due \in when, RequestTask(t, due) PROVE LockHeld'
  BY <1>1, <1>2, WakeLemma, Zenon DEF RequestTask, workVars, TypeOK
<1>3. CASE Flush
  BY <1>1, <1>3, WakeLemma, Zenon DEF Flush, workVars, TypeOK
<1>4. ASSUME TimeLeap PROVE LockHeld'
  BY <1>1, <1>4, WakeLemma, Zenon DEF TimeLeap, workVars, TypeOK
<1>5. CASE WakeupWorkers
  BY <1>1, <1>5, WakeLemma, Zenon DEF WakeupWorkers, wakeup_workers, workVars, TypeOK
<1>6. CASE \/ Tick \/ StopWorkers \/ JoinAndPurge \/ StartWorkers \/ UNCHANGED vars
           \/ (\E l \in Locks : PurgeOwner(l)) \/ (\E t \in Tasks : UnscheduleTask(t))
  BY <1>1, <1>6, Zenon DEF Tick, StopWorkers, JoinAndPurge, StartWorkers, vars, workVars, PurgeOwner, UnscheduleTask
<1>7. ASSUME NEW w \in Workers, WorkerStep(w) PROVE LockHeld'
  <2>1. CASE BeginPop(w) \/ Exit(w) \/ PopSleep(w) \/ WaitTimeout(w)
    BY <1>1, <2>1, Zenon DEF BeginPop, Exit, PopSleep, WaitTimeout, workVars, TypeOK
  <2>2. CASE PopDue(w)
    <3>1. lock' = lock /\ pc' = [pc EXCEPT ![w] = "popped"] /\ \A v \in Workers \ {w} : cur'[v] = cur[v]
      BY <2>2 DEF PopDue, TypeOK
    <3> QED BY <3>1, Zenon DEF LockHeld, TypeOK
  <2>3. CASE TakeLock(w)
    <3>1. \A v \in Workers : pc[v] = "running" => LockOf[cur[v]] # LockOf[cur[w]]
      BY <2>3, Zenon DEF TakeLock, free_lock, LockHeld, Free
    <3>2. /\ lock' = [lock EXCEPT ![LockOf[cur[w]]] = w] /\ cur' = cur
          /\ pc' = [pc EXCEPT ![w] = "running"] /\ LockOf[cur[w]] \in Locks
      BY <2>3, Zenon DEF TakeLock, TypeOK
    <3> QED BY <3>1, <3>2, Zenon DEF LockHeld, TypeOK
  <2>4. ASSUME NEW r, CallbackReturns(w, r) PROVE LockHeld'
    <3>1. \A v \in Workers \ {w} : pc[v] = "running" => LockOf[cur[v]] # LockOf[cur[w]]
      BY <2>4, Zenon DEF CallbackReturns, LockHeld
    <3>2. /\ lock' = [lock EXCEPT ![LockOf[cur[w]]] = Free] /\ cur' = cur
          /\ pc' = [pc EXCEPT ![w] = "reschedule"]
      BY <2>4, Zenon DEF CallbackReturns
    <3> QED BY <3>1, <3>2, Zenon DEF LockHeld, TypeOK
  <2>5. CASE Reschedule(w)
    <3> DEFINE released == [pc EXCEPT ![w] = "idle"]
    <3>1. lock' = lock /\ cur' = [cur EXCEPT ![w] = NoTask] /\ (pc' \in WakeOne(released) \/ pc' = released)
      BY <2>5, Zenon DEF Reschedule
    <3>2. released \in [Workers -> Locations] /\ released[w] = "idle"
          /\ \A v \in Workers : released[v] = pc[v] \/ released[v] = "idle"
      BY Zenon DEF TypeOK, Locations
    <3>3. \A v \in Workers : pc'[v] = released[v] \/ pc'[v] = "idle"
      BY <3>1, <3>2, WakeLemma, Zenon
    <3>4. \A v \in Workers : pc'[v] = "running" => pc[v] = "running" /\ v # w
      BY <3>2, <3>3, Zenon
    <3> QED BY <3>1, <3>4, Zenon DEF LockHeld, TypeOK
  <2> QED BY <1>7, <2>1, <2>2, <2>3, <2>4, <2>5, Zenon DEF WorkerStep
<1> QED BY <1>2, <1>3, <1>4, <1>5, <1>6, <1>7, Zenon DEF Next

\* Two running callbacks of one owner would both be the recorded holder.
LEMMA LocksExclude == LockHeld => MutualExclusion
BY Zenon DEF LockHeld, MutualExclusion

\* schedule_task() honours the new request and forgets no older one.
LEMMA ScheduleKeepsRequests ==
  ASSUME TypeOK, RequestsKept, ScheduleStep
  PROVE  RequestsKept'
<1> USE SchedulerAssumption
<1>0. PICK t \in Tasks, due \in Nat, bo \in 0..MaxBackoff :
        /\ schedule_task(t, due, bo)
        /\ asked' = [asked EXCEPT ![t] = note_ask(t, due)]
        /\ \A v \in Workers : pc[v] = "popped" => pc'[v] = "popped" /\ cur'[v] = cur[v]
  BY Zenon DEF ScheduleStep
<1>1. \A x \in scheduled \ {t} : x \in scheduled' /\ tasks_by_name'[x] = tasks_by_name[x]
  BY <1>0 DEF schedule_task, insert, merge, treeVars, scheduled, TypeOK
<1>2. ASSUME t \in Enforcer
      PROVE  /\ t \in scheduled'
             /\ tasks_by_name'[t].due_date \in Nat
             /\ tasks_by_name'[t].due_date <= due
             /\ t \in scheduled => tasks_by_name'[t].due_date <= tasks_by_name[t].due_date
  <2>1. CASE t \notin scheduled /\ insert(t, due, bo)
    BY <2>1 DEF insert, scheduled
  <2>2. CASE t \in scheduled /\ t \in Enforcer /\ merge(t, due)
    <3>1. tasks_by_name[t].due_date \in Nat
      BY <2>2, Zenon DEF TypeOK
    <3>2. tasks_by_name'[t].due_date = earlier(due, tasks_by_name[t].due_date) /\ t \in scheduled'
      BY <2>2 DEF merge, merge_due, scheduled, TypeOK
    <3> QED BY <3>1, <3>2 DEF earlier
  <2> QED BY <1>0, <1>2, <2>1, <2>2, Zenon DEF schedule_task
<1>3. SUFFICES ASSUME NEW x \in Enforcer, asked'[x] # NoTime
               PROVE  \/ x \in scheduled' /\ tasks_by_name'[x].due_date <= asked'[x]
                      \/ \E w \in Workers : pc'[w] = "popped" /\ cur'[w] = x
  BY Zenon DEF RequestsKept
<1>4. CASE x # t
  <2>1. asked'[x] = asked[x] /\ x \in Tasks
    BY <1>0, <1>4, Zenon DEF TypeOK
  <2> QED BY <1>0, <1>1, <1>3, <1>4, <2>1, Zenon DEF RequestsKept
<1>5. CASE x = t
  <2>1. asked'[x] = note_ask(x, due) /\ asked[x] \in Nat \cup {NoTime}
    BY <1>0, <1>5, Zenon DEF TypeOK
  <2>2. CASE asked'[x] = due
    BY <1>2, <1>5, <2>2, Zenon
  <2>3. CASE asked'[x] = asked[x] /\ asked[x] # NoTime /\ ~ (due < asked[x])
    <3>1. CASE x \in scheduled /\ tasks_by_name[x].due_date <= asked[x]
      <4>1. tasks_by_name[x].due_date \in Nat
        BY <3>1, Zenon DEF TypeOK
      <4>2. tasks_by_name'[x].due_date <= asked[x] /\ x \in scheduled'
        BY <1>2, <1>5, <2>1, <2>3, <3>1, <4>1
      <4> QED BY <2>3, <4>2, Zenon
    <3>2. CASE \E w \in Workers : pc[w] = "popped" /\ cur[w] = x
      BY <1>0, <3>2, Zenon
    <3> QED BY <2>3, <3>1, <3>2, Zenon DEF RequestsKept
  <2> QED BY <1>3, <1>5, <2>1, <2>2, <2>3, Zenon DEF note_ask
<1> QED BY <1>4, <1>5, Zenon

\* Every step keeps the requests.
LEMMA NextRequests == TypeOK /\ StoppedExited /\ RequestsKept /\ [Next]_vars => RequestsKept'
<1> SUFFICES ASSUME TypeOK, StoppedExited, RequestsKept, [Next]_vars PROVE RequestsKept'
  BY Zenon
<1> USE SchedulerAssumption
<1>1. ASSUME UNCHANGED <<treeVars, asked>>,
             \A v \in Workers : pc[v] = "popped" => pc'[v] = "popped" /\ cur'[v] = cur[v]
      PROVE  RequestsKept'
  BY <1>1 DEF RequestsKept, treeVars, scheduled
<1>2. ASSUME NEW t \in Tasks, NEW due \in when, RequestTask(t, due) PROVE RequestsKept'
  BY <1>2, RequestSchedules, ScheduleKeepsRequests, Zenon
<1>3. ASSUME NEW l \in Locks, PurgeOwner(l) PROVE RequestsKept'
  <2> DEFINE T == {t \in Tasks : LockOf[t] = l}
  <2>1. remove(T) /\ asked' = [t \in Tasks |-> IF t \in T THEN NoTime ELSE asked[t]] /\ UNCHANGED <<pc, cur>>
    BY <1>3, Zenon DEF PurgeOwner, workVars
  <2> HIDE DEF T
  <2>2. \A x \in scheduled \ T : x \in scheduled' /\ tasks_by_name'[x] = tasks_by_name[x]
    BY <2>1, Zenon DEF remove, scheduled
  <2>3. \A x \in Enforcer : asked'[x] # NoTime => x \notin T /\ asked'[x] = asked[x]
    BY <2>1, Zenon
  <2> QED BY <2>1, <2>2, <2>3, Zenon DEF RequestsKept
<1>4. ASSUME NEW t \in Tasks, UnscheduleTask(t) PROVE RequestsKept'
  <2>1. remove({t}) /\ t \notin Enforcer /\ UNCHANGED <<pc, cur, asked>>
    BY <1>4, Zenon DEF UnscheduleTask, workVars
  <2>2. \A x \in scheduled \ {t} : x \in scheduled' /\ tasks_by_name'[x] = tasks_by_name[x]
    BY <2>1, Zenon DEF remove, scheduled
  <2> QED BY <2>1, <2>2, Zenon DEF RequestsKept
<1>5. CASE Flush
  <2>1. scheduled' = scheduled
    BY <1>5, Zenon DEF Flush, scheduled
  <2>2. \A x \in scheduled : tasks_by_name'[x].due_date = earlier(time_now, tasks_by_name[x].due_date)
    BY <1>5 DEF Flush, TypeOK, scheduled
  <2>3. \A x \in scheduled : tasks_by_name[x].due_date \in Nat
    BY Zenon DEF TypeOK
  <2>4. \A x \in scheduled : tasks_by_name'[x].due_date <= tasks_by_name[x].due_date /\ tasks_by_name'[x].due_date \in Nat
    BY <2>2, <2>3, TimeType DEF earlier
  <2>5. \A v \in Workers : pc[v] = "popped" => pc'[v] = "popped" /\ cur'[v] = cur[v]
    BY <1>5, WakeLemma DEF Flush, workVars, TypeOK
  <2>6. asked' = asked /\ \A x \in Enforcer : asked[x] \in Nat \cup {NoTime}
    BY <1>5, Zenon DEF Flush, TypeOK
  <2> QED BY <2>1, <2>3, <2>4, <2>5, <2>6 DEF RequestsKept
<1>6. ASSUME TimeLeap PROVE RequestsKept'
  BY <1>1, <1>6, WakeLemma, Zenon DEF TimeLeap, workVars, TypeOK
<1>7. ASSUME NEW w \in Workers, WorkerStep(w) PROVE RequestsKept'
  <2>1. CASE BeginPop(w) \/ Exit(w) \/ PopSleep(w) \/ WaitTimeout(w)
    BY <1>1, <2>1, Zenon DEF BeginPop, Exit, PopSleep, WaitTimeout, workVars, TypeOK
  <2>2. CASE PopDue(w)
    <3>1. PICK e \in tasks : /\ cur' = [cur EXCEPT ![w] = e[2]]
                             /\ remove({e[2]})
      BY <2>2, Zenon DEF PopDue
    <3>2. pc' = [pc EXCEPT ![w] = "popped"] /\ pc[w] = "pop" /\ asked' = asked
      BY <2>2, Zenon DEF PopDue
    <3>3. pc'[w] = "popped" /\ cur'[w] = e[2]
      BY <3>1, <3>2, Zenon DEF TypeOK
    <3>4. \A v \in Workers : pc[v] = "popped" => pc'[v] = "popped" /\ cur'[v] = cur[v]
      BY <3>1, <3>2, Zenon DEF TypeOK
    <3>5. \A x \in scheduled \ {e[2]} : x \in scheduled' /\ tasks_by_name'[x] = tasks_by_name[x]
      BY <3>1, Zenon DEF remove, scheduled
    <3> QED BY <3>2, <3>3, <3>4, <3>5 DEF RequestsKept
  <2>3. CASE TakeLock(w)
    <3>1. /\ UNCHANGED <<treeVars, cur>>
          /\ asked' = [asked EXCEPT ![cur[w]] = NoTime]
          /\ pc' = [pc EXCEPT ![w] = "running"]
      BY <2>3, Zenon DEF TakeLock
    <3>2. \A x \in Enforcer : asked'[x] # NoTime => x # cur[w] /\ asked'[x] = asked[x]
      BY <3>1, Zenon DEF TypeOK
    <3>3. \A v \in Workers : pc[v] = "popped" /\ v # w => pc'[v] = "popped"
      BY <3>1, Zenon DEF TypeOK
    <3> QED BY <3>1, <3>2, <3>3, Zenon DEF RequestsKept, treeVars, scheduled
  <2>4. ASSUME NEW r, CallbackReturns(w, r) PROVE RequestsKept'
    BY <1>1, <2>4, Zenon DEF CallbackReturns, TypeOK
  <2>5. CASE Reschedule(w)
    <3>1. CASE ScheduleStep
      BY <3>1, ScheduleKeepsRequests, Zenon
    <3>2. CASE UNCHANGED <<treeVars, asked>>
      <4> DEFINE released == [pc EXCEPT ![w] = "idle"]
      <4>1. cur' = [cur EXCEPT ![w] = NoTask] /\ pc[w] = "reschedule" /\ (pc' \in WakeOne(released) \/ pc' = released)
        BY <2>5, Zenon DEF Reschedule
      <4>2. released \in [Workers -> Locations] /\ \A v \in Workers \ {w} : released[v] = pc[v]
        BY Zenon DEF TypeOK, Locations
      <4>3. \A v \in Workers : pc'[v] = released[v] \/ (released[v] = "waiting" /\ pc'[v] = "idle")
        BY <4>1, <4>2, WakeLemma, Zenon
      <4>4. \A v \in Workers : pc[v] = "popped" => pc'[v] = "popped" /\ cur'[v] = cur[v]
        BY <4>1, <4>2, <4>3, Zenon DEF TypeOK
      <4> QED BY <1>1, <3>2, <4>4, Zenon
    <3> QED BY <2>5, <3>1, <3>2, RescheduleSchedules, Zenon
  <2> QED BY <1>7, <2>1, <2>2, <2>3, <2>4, <2>5, Zenon DEF WorkerStep
<1>8. CASE WakeupWorkers
  BY <1>1, <1>8, WakeLemma, Zenon DEF WakeupWorkers, wakeup_workers, workVars, TypeOK
<1>9. CASE JoinAndPurge
  BY <1>9, Zenon DEF JoinAndPurge, RequestsKept, NoTime
<1>10. CASE StartWorkers
  BY <1>1, <1>10, Zenon DEF StartWorkers, StoppedExited, workVars
<1>11. CASE Tick \/ StopWorkers \/ UNCHANGED vars
  BY <1>1, <1>11, Zenon DEF Tick, StopWorkers, vars, workVars
<1> QED BY <1>2, <1>3, <1>4, <1>5, <1>6, <1>7, <1>8, <1>9, <1>10, <1>11, Zenon DEF Next

\* Nobody leaves "exited" before engine_run() starts the workers again.
LEMMA NextStopped == TypeOK /\ StoppedExited /\ [Next]_vars => StoppedExited'
<1> SUFFICES ASSUME TypeOK, StoppedExited, [Next]_vars PROVE StoppedExited'
  BY Zenon
<1>1. CASE phase # "stopped" /\ phase' = "stopped"
  BY <1>1, Zenon DEF Next, Tick, RequestTask, PurgeOwner, UnscheduleTask, Flush, TimeLeap, WorkerStep, BeginPop,
              Exit, PopDue, PopSleep, WaitTimeout, TakeLock, CallbackReturns, Reschedule, StopWorkers,
              WakeupWorkers, JoinAndPurge, StartWorkers, vars, StoppedExited
<1>2. CASE phase = "stopped" /\ phase' = "stopped"
  <2>1. \A w \in Workers : ~ WorkerStep(w)
    BY <1>2, Zenon DEF StoppedExited, WorkerStep, BeginPop, Exit, PopDue, PopSleep, WaitTimeout, TakeLock,
                CallbackReturns, Reschedule
  <2> QED BY <1>2, <2>1, Zenon DEF Next, Tick, RequestTask, PurgeOwner, UnscheduleTask, Flush, TimeLeap,
                StopWorkers, WakeupWorkers, JoinAndPurge, StartWorkers, vars, StoppedExited
<1>3. CASE phase' # "stopped"
  BY <1>3, Zenon DEF StoppedExited
<1> QED BY <1>1, <1>2, <1>3, Zenon

\* TypeOK holds initially.
LEMMA InitType == Init => TypeOK
BY SchedulerAssumption DEF Init, TypeOK, scheduled, Locations, Phases, NoTime, SUCCESS, DEFER, Forever

\* The inductive invariant of the scheduler.
IInv == TypeOK /\ TreesAgree /\ LockHeld /\ StoppedExited /\ RequestsKept

\* IInv holds in every reachable state.
LEMMA Inductive == Spec => []IInv
<1>1. Init => IInv
  <2> SUFFICES ASSUME Init PROVE IInv
    BY Zenon
  <2>1. scheduled = {} /\ tasks = {}
    BY Zenon DEF Init, scheduled
  <2>2. TreesAgree
    BY <2>1, Zenon DEF TreesAgree
  <2>3. LockHeld /\ StoppedExited /\ RequestsKept
    BY SchedulerAssumption, Zenon DEF Init, LockHeld, StoppedExited, RequestsKept
  <2> QED BY <2>2, <2>3, InitType, Zenon DEF IInv
<1>2. IInv /\ [Next]_vars => IInv'
  BY NextType, NextTrees, NextLocks, NextStopped, NextRequests, Zenon DEF IInv
<1> QED BY <1>1, <1>2, PTL DEF Spec

\* Every variable keeps its type: in particular every due date put into the tree
\* is a time, and the backoff never exceeds ODS_SE_MAX_BACKOFF.
THEOREM Typing == Spec => []TypeOK
BY Inductive, PTL DEF IInv

\* The two trees of schedule_type hold the same tasks under the same dates.
THEOREM TreeAgreement == Spec => []TreesAgree
BY Inductive, PTL DEF IInv

\* No two callbacks of one owner run at the same time, for any number of
\* workers.
THEOREM OwnerExclusion == Spec => []MutualExclusion
BY Inductive, LocksExclude, PTL DEF IInv

\* No request for an enforcer task is lost or postponed before its callback has
\* started.
THEOREM NoLostRequest == Spec => []RequestsKept
BY Inductive, PTL DEF IInv

\* No step moves a waiting task to a later date.
THEOREM NoPostponement == Spec => NeverPostponed
<1> DEFINE P == \A t \in Tasks : (t \in scheduled /\ t \in scheduled') =>
                  tasks_by_name'[t].due_date <= tasks_by_name[t].due_date
<1>1. TypeOK /\ [Next]_vars => P
  <2> SUFFICES ASSUME TypeOK, [Next]_vars, NEW x \in Tasks, x \in scheduled, x \in scheduled'
               PROVE  tasks_by_name'[x].due_date <= tasks_by_name[x].due_date
    BY Zenon
  <2>0. tasks_by_name[x].due_date \in Nat
    BY Zenon DEF TypeOK
  <2>1. CASE ScheduleStep
    <3>1. PICK t \in Tasks, due \in Nat, bo \in 0..MaxBackoff : schedule_task(t, due, bo)
      BY <2>1, Zenon DEF ScheduleStep
    <3>2. CASE x # t
      BY <2>0, <3>1, <3>2 DEF schedule_task, insert, merge, treeVars, scheduled, TypeOK
    <3>3. CASE x = t /\ merge(t, due)
      <4>1. tasks_by_name'[x].due_date = earlier(due, tasks_by_name[x].due_date)
        BY <3>3, Zenon DEF merge, merge_due, scheduled, TypeOK
      <4> QED BY <2>0, <4>1 DEF earlier
    <3>4. CASE UNCHANGED treeVars
      BY <2>0, <3>4 DEF treeVars
    <3> QED BY <3>1, <3>2, <3>3, <3>4, Zenon DEF schedule_task
  <2>2. CASE \E T : remove(T)
    BY <2>0, <2>2 DEF remove, scheduled
  <2>3. CASE Flush
    <3>1. tasks_by_name'[x].due_date = earlier(time_now, tasks_by_name[x].due_date)
      BY <2>3, Zenon DEF Flush, TypeOK, scheduled
    <3> QED BY <2>0, <3>1, TimeType DEF earlier
  <2>4. CASE UNCHANGED treeVars
    BY <2>0, <2>4 DEF treeVars
  <2> QED BY <2>1, <2>2, <2>3, <2>4, TreeSteps, Zenon
<1>2. TypeOK /\ [Next]_vars => [P]_vars
  BY <1>1, Zenon
<1>3. Spec => [][P]_vars
  BY <1>2, Typing, PTL DEF Spec
<1> QED BY <1>3, Zenon DEF NeverPostponed
=============================================================================
