---------------------------- MODULE SignerProofs ----------------------------
(***************************************************************************)
(* Proofs about the tasks of a zone in the signer, for any number of       *)
(* workers and clients, any size of the serial numbers, any bound on the   *)
(* clock, the commands and the failures.                                   *)
(*                                                                         *)
(* What the tasks promise is not inductive.  The invariant that is says    *)
(* which tasks lead on: once a configuration was read successfully one of  *)
(* READ, SIGN and WRITE is always there; a zone that was given its first   *)
(* task has one of these or SIGNCONF; and while what was read is not what  *)
(* was signed, it is READ, or a SIGN that is not the periodic one.         *)
(*                                                                         *)
(* The second part is about the signatures of an RRset.  The lists that    *)
(* rrset_sign goes through are recursive functions, so what they hold is   *)
(* shown by induction: a least place where it fails leads to a smaller.    *)
(***************************************************************************)
EXTENDS SignerTasks, RrsetSign, WellFoundedInduction, TLAPS

SerialsOrNone == 0 .. TaskSerials

Contents == [conf : Nat, keys : Nat, input : SerialsOrNone,
             serial : SerialsOrNone]

Whens == {"no", "now", "backoff", "resign"}

ZoneRecord == [conf : Nat, mtime : 0 .. TaskClock, valid : BOOLEAN,
               next : SerialsOrNone, inb : SerialsOrNone,
               outb : SerialsOrNone, keys : Nat, input : SerialsOrNone,
               signed : Contents]

\* The types of the surroundings of the zone.
AroundOK ==
  /\ topt \in TaskOptions /\ tclock \in 1 .. TaskClock
  /\ budget \in 0 .. topt.cmds
  /\ cfile \in [ver : Nat, mtime : 0 .. TaskClock, good : BOOLEAN]
  /\ cfile.mtime <= tclock
  /\ ifile \in 0 .. TaskSerials - 1
  /\ zlist \in [seen : Nat, planned : BOOLEAN,
                 status : {"absent", "added", "updated", "ok"}]
  /\ lfile \in Nat
  /\ client \in [Clients -> {"idle", "merged"}]

\* The types of the zone and its tasks; only a signing is planned for later.
ZoneOK ==
  /\ tz \in ZoneRecord
  /\ tout \in [file : Contents, state : Contents, restarted : BOOLEAN]
  /\ tasks \in [TaskTypes -> Whens]
  /\ \A t \in TaskTypes : tasks[t] = "resign" => t = "SIGN"

\* What a worker has taken, and what it may have found.
WorkersOK ==
  /\ tworker \in [TaskWorkers -> [task : TaskTypes \cup {"none"},
       at : {"idle", "popped", "read"}, st : 0 .. TaskClock]]
  /\ \A w \in TaskWorkers :
       /\ tworker[w].at = "idle" => tworker[w].task = "none"
       /\ tworker[w].at = "read" => /\ tworker[w].task \in SignconfTask
                                    /\ tworker[w].st <= cfile.mtime

\* The configuration in use is the one in the file, or the file is newer.
ConfOK ==
  /\ tz.mtime <= cfile.mtime
  /\ tz.mtime # 0 => tz.conf = cfile.ver \/ cfile.mtime > tz.mtime

\* A serial is forced by a command only.
NextOK == ~topt.forced => tz.next = NoSerial

\* A task is scheduled or taken, and not only for the periodic signing.
Due(t) == tasks[t] # "no" \/ Taken(t)

Soon(t) == tasks[t] \in {"now", "backoff"} \/ Taken(t)

\* The tasks after SIGNCONF, of which each schedules another.
Circle == {"READ", "SIGN", "WRITE"}

\* Whoever merges the zone list is the only client, unless there may be more,
\* and so gives the zone its first task before the list is merged again.
ClientOK ==
  ~topt.clients =>
    /\ \A c \in Clients : client[c] # "idle" => c = 1
    /\ zlist.status # "absent"
       /\ ~(zlist.status = "added" /\ \E c \in Clients : client[c] = "merged") =>
         zlist.planned

\* Once a configuration was read a task beyond SIGNCONF is there.
ValidLeads == tz.valid => \E t \in Circle : Due(t)

\* Once the zone has had its first task, or a configuration, a task is there.
ZoneLeads ==
  zlist.planned \/ tz.mtime # 0 =>
    \E t \in Circle \cup {"SIGNCONF"} : Due(t)

\* While there is something to be signed, it is going to be read or signed.
StaleLeads ==
  ~topt.fails /\ tz.mtime # 0
  /\ (tz.signed.conf # tz.conf \/ tz.signed.input # tz.input) =>
    Soon("READ") \/ Soon("SIGN")

Leads == ValidLeads /\ ZoneLeads /\ StaleLeads

TasksInv ==
  AroundOK /\ ZoneOK /\ WorkersOK /\ ConfOK /\ NextOK /\ ClientOK /\ Leads

---------------------------------------------------------------------------
(* The constants, and the operators on the schedule. *)

LEMMA Sizes ==
  /\ TaskSerials \in Nat /\ TaskSerials > 3 /\ TaskSerials \div 2 > 1
  /\ TaskClock \in Nat /\ TaskClock > 0
BY SignerTasksAssumption

LEMMA Options ==
  ASSUME NEW o \in TaskOptions
  PROVE  /\ o.format \in {"unixtime", "datecounter", "keep", "counter"}
         /\ o.forced \in BOOLEAN /\ o.clients \in BOOLEAN
         /\ o.fails \in BOOLEAN /\ o.cmds \in Nat
BY SignerTasksAssumption, Zenon

\* What schedule_scheduletask and schedule_unscheduletask leave.
LEMMA Schedules ==
  ASSUME NEW q \in [TaskTypes -> Whens], NEW t \in TaskTypes,
         NEW x \in Whens
  PROVE  /\ Scheduled(q, t, x) \in [TaskTypes -> Whens]
         /\ \A u \in TaskTypes : Scheduled(q, t, x)[u] =
              IF u = t /\ q[u] = "no" THEN x ELSE q[u]
BY Zenon DEF Scheduled

LEMMA Unschedules ==
  ASSUME NEW q \in [TaskTypes -> Whens], NEW ts
  PROVE  /\ Unscheduled(q, ts) \in [TaskTypes -> Whens]
         /\ \A u \in TaskTypes : Unscheduled(q, ts)[u] =
              IF u \in ts THEN "no" ELSE q[u]
BY Zenon DEF Unscheduled, Whens

LEMMA Prompt ==
  ASSUME NEW q \in [TaskTypes -> Whens], NEW t \in TaskTypes
  PROVE  /\ Promptly(q, t) \in [TaskTypes -> Whens]
         /\ \A u \in TaskTypes : Promptly(q, t)[u] =
              IF u = t THEN "now" ELSE q[u]
<1> DEFINE r == Unscheduled(q, {t})
<1>1. "now" \in Whens
  BY Zenon DEF Whens
<1>2. r \in [TaskTypes -> Whens]
      /\ \A u \in TaskTypes : r[u] = IF u = t THEN "no" ELSE q[u]
  BY Unschedules
<1>3. Promptly(q, t) = Scheduled(r, t, "now")
  BY Zenon DEF Promptly
<1> HIDE DEF r
<1>4. /\ Scheduled(r, t, "now") \in [TaskTypes -> Whens]
      /\ \A u \in TaskTypes : Scheduled(r, t, "now")[u] =
           IF u = t /\ r[u] = "no" THEN "now" ELSE r[u]
  BY <1>1, <1>2, Schedules, Zenon
<1> QED
  BY <1>2, <1>3, <1>4, Zenon

LEMMA Defers ==
  ASSUME NEW q \in [TaskTypes -> Whens], NEW t \in TaskTypes
  PROVE  /\ Deferred(q, t) \in [TaskTypes -> Whens]
         /\ \A u \in TaskTypes : Deferred(q, t)[u] =
              IF u = t /\ q[u] = "no" THEN "backoff" ELSE q[u]
<1>1. "backoff" \in Whens
  BY Zenon DEF Whens
<1> QED
  BY <1>1, Schedules, Zenon DEF Deferred

---------------------------------------------------------------------------
(* What leads on. *)

\* A worker that ends its task gives up no other.
LEMMA TakenKept ==
  ASSUME WorkersOK, NEW w \in TaskWorkers, Ends(w), NEW t \in TaskTypes,
         t # tworker[w].task, Taken(t)
  PROVE  Taken(t)'
<1>1. PICK v \in TaskWorkers : tworker[v].task = t
  BY Zenon DEF Taken
<1>2. tworker'[v] = tworker[v]
  BY <1>1, Zenon DEF Ends, WorkersOK
<1> QED
  BY <1>1, <1>2, Zenon DEF Taken

\* A reading or a signing that is due soon is all that is needed.
LEMMA SoonLeads ==
  ASSUME Soon("READ")' \/ Soon("SIGN")'
  PROVE  Leads'
<1>1. Due("READ")' \/ Due("SIGN")'
  BY Zenon DEF Soon, Due
<1> QED
  BY <1>1, Zenon DEF Leads, ValidLeads, ZoneLeads, StaleLeads, Circle

\* A step that takes no task away and leaves the zone as it is.
LEMMA LeadsKept ==
  ASSUME Leads, topt' = topt,
         tz'.valid => tz.valid, tz'.mtime = tz.mtime,
         tz'.conf = tz.conf, tz'.input = tz.input, tz'.signed = tz.signed,
         \A t \in Circle \cup {"SIGNCONF"} : Due(t) => Due(t)',
         \A t \in {"READ", "SIGN"} : Soon(t) => Soon(t)'
  PROVE  /\ ValidLeads' /\ StaleLeads'
         /\ (zlist'.planned => zlist.planned) => ZoneLeads'
<1>1. ValidLeads'
  BY Zenon DEF Leads, ValidLeads, Circle
<1>2. StaleLeads'
  BY Zenon DEF Leads, StaleLeads
<1>3. ASSUME zlist'.planned => zlist.planned PROVE ZoneLeads'
  BY <1>3, Zenon DEF Leads, ZoneLeads
<1> QED
  BY <1>1, <1>2, <1>3, Zenon

---------------------------------------------------------------------------
(* Steps around the zone. *)

\* A step of the workers' surroundings leaves what was taken as it is.
LEMMA WorkersLeft ==
  ASSUME WorkersOK, tworker' = tworker, cfile' = cfile
  PROVE  WorkersOK'
BY Zenon DEF WorkersOK

\* What every step of this section leaves alone.
LEMMA TakenLeft ==
  ASSUME tworker' = tworker,
         \A t \in TaskTypes : (tasks[t] # "no" => tasks'[t] # "no")
           /\ (tasks[t] \in {"now", "backoff"} =>
                 tasks'[t] \in {"now", "backoff"})
  PROVE  /\ \A t \in Circle \cup {"SIGNCONF"} : Due(t) => Due(t)'
         /\ \A t \in {"READ", "SIGN"} : Soon(t) => Soon(t)'
<1>1. \A t : Taken(t) => Taken(t)'
  BY Zenon DEF Taken
<1> QED
  BY <1>1, Zenon DEF Due, Soon, Circle, TaskTypes

\* A new configuration is newer than what the zone has seen.
LEMMA NewSignconfKeeps ==
  ASSUME TasksInv, NewSignconf
  PROVE  TasksInv'
<1>1. AroundOK /\ ZoneOK /\ WorkersOK /\ ConfOK /\ NextOK /\ ClientOK /\ Leads
  BY Zenon DEF TasksInv
<1>2. UNCHANGED <<topt, tclock, ifile, lfile, zlist, client, tasks, tworker,
                  tz, tout>>
  BY Zenon DEF NewSignconf
<1>3. topt.cmds \in Nat
  BY <1>1, Options, Zenon DEF AroundOK
<1>4. AroundOK'
  BY <1>1, <1>2, <1>3 DEF AroundOK, NewSignconf, Spend
<1>5. cfile'.mtime > cfile.mtime
  BY <1>1 DEF AroundOK, NewSignconf
<1>6. tz.mtime \in Nat /\ cfile.mtime \in Nat /\ cfile'.mtime \in Nat
      /\ \A w \in TaskWorkers : tworker[w].st \in Nat
  BY <1>1, <1>4 DEF AroundOK, ZoneOK, ZoneRecord, WorkersOK
<1>7. WorkersOK' /\ ConfOK'
  BY <1>1, <1>2, <1>5, <1>6 DEF WorkersOK, ConfOK
<1>8. ZoneOK' /\ NextOK' /\ ClientOK'
  BY <1>1, <1>2, Zenon DEF ZoneOK, NextOK, ClientOK
<1>9. Leads'
  BY <1>1, <1>2, TakenLeft, LeadsKept, Zenon DEF Leads
<1> QED
  BY <1>4, <1>7, <1>8, <1>9, Zenon DEF TasksInv

\* The unsigned zone, or the zone list, is replaced.
LEMMA NewFilesKeep ==
  ASSUME TasksInv, NewInput \/ NewZonelist
  PROVE  TasksInv'
<1>1. AroundOK /\ ZoneOK /\ WorkersOK /\ ConfOK /\ NextOK /\ ClientOK /\ Leads
  BY Zenon DEF TasksInv
<1>2. UNCHANGED <<topt, tclock, cfile, zlist, client, tasks, tworker, tz,
                  tout>>
  BY Zenon DEF NewInput, NewZonelist
<1>3. topt.cmds \in Nat
  BY <1>1, Options, Zenon DEF AroundOK
<1>4. budget' \in 0 .. topt.cmds /\ lfile' \in Nat
  BY <1>1, <1>3 DEF AroundOK, NewInput, NewZonelist, Spend
<1>5. ifile' \in 0 .. TaskSerials - 1
  BY Sizes, <1>1 DEF AroundOK, NewInput, NewZonelist
<1>6. AroundOK'
  BY <1>1, <1>2, <1>4, <1>5, Zenon DEF AroundOK
<1>7. WorkersOK' /\ ZoneOK' /\ ConfOK' /\ NextOK' /\ ClientOK'
  BY <1>1, <1>2, Zenon DEF WorkersOK, ZoneOK, ConfOK, NextOK, ClientOK
<1>8. Leads'
  BY <1>1, <1>2, TakenLeft, LeadsKept, Zenon DEF Leads
<1> QED
  BY <1>6, <1>7, <1>8, Zenon DEF TasksInv

\* Time passes, or the schedule is flushed.
LEMMA TimeKeeps ==
  ASSUME TasksInv, TaskTick \/ schedule_flush
  PROVE  TasksInv'
<1>1. AroundOK /\ ZoneOK /\ WorkersOK /\ ConfOK /\ NextOK /\ ClientOK /\ Leads
  BY Zenon DEF TasksInv
<1>2. UNCHANGED <<topt, cfile, ifile, lfile, zlist, client, tworker, tz,
                  tout>>
  BY Zenon DEF TaskTick, schedule_flush
<1>3. topt.cmds \in Nat
  BY <1>1, Options, Zenon DEF AroundOK
<1>4. budget' \in 0 .. topt.cmds /\ tclock' \in 1 .. TaskClock
      /\ tclock' >= tclock
  BY Sizes, <1>1, <1>3 DEF AroundOK, TaskTick, schedule_flush, Spend
<1>5. AroundOK'
  BY <1>1, <1>2, <1>4 DEF AroundOK
<1>6. /\ tasks' \in [TaskTypes -> Whens]
      /\ \A t \in TaskTypes : \/ tasks'[t] = tasks[t]
                              \/ tasks[t] # "no" /\ tasks'[t] = "now"
  BY <1>1 DEF ZoneOK, TaskTick, schedule_flush, Whens
<1>7. ZoneOK'
  BY <1>1, <1>2, <1>6, Zenon DEF ZoneOK
<1>8. WorkersOK' /\ ConfOK' /\ NextOK' /\ ClientOK'
  BY <1>1, <1>2, Zenon DEF WorkersOK, ConfOK, NextOK, ClientOK
<1>9. Leads'
  BY <1>1, <1>2, <1>6, TakenLeft, LeadsKept, Zenon DEF Leads
<1> QED
  BY <1>5, <1>7, <1>8, <1>9, Zenon DEF TasksInv

\* The commands that schedule a task.
LEMMA CommandsKeep ==
  ASSUME TasksInv, cmd_update \/ cmd_sign_zone
  PROVE  TasksInv'
<1>1. AroundOK /\ ZoneOK /\ WorkersOK /\ ConfOK /\ NextOK /\ ClientOK /\ Leads
  BY Zenon DEF TasksInv
<1>2. UNCHANGED <<topt, tclock, cfile, ifile, lfile, zlist, client, tworker,
                  tout>>
  BY Zenon DEF cmd_update, cmd_sign_zone
<1>3. topt.cmds \in Nat /\ budget' \in 0 .. topt.cmds
  BY <1>1, Options DEF AroundOK, cmd_update, cmd_sign_zone, Spend
<1>4. AroundOK' /\ ClientOK'
  BY <1>1, <1>2, <1>3, Zenon DEF AroundOK, ClientOK
<1>5. \E n \in SerialsOrNone : /\ tz' = [tz EXCEPT !.next = n]
                               /\ n = tz.next \/ topt.forced
  <2>1. tz.next \in SerialsOrNone /\ tz = [tz EXCEPT !.next = tz.next]
    BY <1>1, Zenon DEF ZoneOK, ZoneRecord
  <2>2. CASE cmd_update
    BY <2>1, <2>2, Zenon DEF cmd_update
  <2>3. CASE cmd_sign_zone
    <3>1. PICK n \in IF topt.forced /\ Known THEN {NoSerial, 0, 3}
                     ELSE {NoSerial} :
            tz' = [tz EXCEPT !.next = IF n = NoSerial THEN @ ELSE n]
      BY <2>3, Zenon DEF cmd_sign_zone
    <3>2. CASE n = NoSerial
      BY <2>1, <3>1, <3>2, Zenon
    <3>3. CASE n # NoSerial
      BY Sizes, <3>1, <3>3 DEF NoSerial, SerialsOrNone
    <3> QED
      BY <3>2, <3>3, Zenon
  <2> QED
    BY <2>2, <2>3, Zenon
<1>6. /\ tasks' \in [TaskTypes -> Whens]
      /\ \A t \in TaskTypes : \/ tasks'[t] = tasks[t]
                              \/ tasks[t] = "no" /\ tasks'[t] = "now"
  <2>1. PICK t \in TaskTypes : tasks' = Scheduled(tasks, t, "now")
    BY Zenon DEF cmd_update, cmd_sign_zone, TaskTypes
  <2>2. tasks \in [TaskTypes -> Whens] /\ "now" \in Whens
    BY <1>1, Zenon DEF ZoneOK, Whens
  <2>3. /\ tasks' \in [TaskTypes -> Whens]
        /\ \A u \in TaskTypes :
             tasks'[u] = IF u = t /\ tasks[u] = "no" THEN "now" ELSE tasks[u]
    BY <2>1, <2>2, Schedules, Zenon
  <2> QED
    BY <2>3, Zenon
<1>7. tz \in ZoneRecord
  BY <1>1, Zenon DEF ZoneOK
<1>8. /\ tz' \in ZoneRecord
      /\ tz'.valid = tz.valid /\ tz'.mtime = tz.mtime /\ tz'.conf = tz.conf
      /\ tz'.input = tz.input /\ tz'.signed = tz.signed
      /\ tz'.next = tz.next \/ topt.forced
  <2>1. PICK n \in SerialsOrNone : /\ tz' = [tz EXCEPT !.next = n]
                                   /\ n = tz.next \/ topt.forced
    BY <1>5, Zenon
  <2>2. tz' \in ZoneRecord
    BY <1>7, <2>1, Zenon DEF ZoneRecord
  <2>3. /\ tz'.valid = tz.valid /\ tz'.mtime = tz.mtime /\ tz'.conf = tz.conf
        /\ tz'.input = tz.input /\ tz'.signed = tz.signed /\ tz'.next = n
    BY <1>7, <2>1, Zenon DEF ZoneRecord
  <2> QED
    BY <2>1, <2>2, <2>3, Zenon
<1>9. ZoneOK'
  BY <1>1, <1>2, <1>6, <1>8 DEF ZoneOK
<1>10. WorkersOK' /\ ConfOK' /\ NextOK'
  BY <1>1, <1>2, <1>8, Zenon DEF WorkersOK, ConfOK, NextOK
<1>11. Leads'
  BY <1>1, <1>2, <1>6, <1>8, TakenLeft, LeadsKept, Zenon DEF Leads
<1> QED
  BY <1>4, <1>9, <1>10, <1>11, Zenon DEF TasksInv

\* A client merges the zone list, and then gives the zone its task.
LEMMA ClientsKeep ==
  ASSUME TasksInv, NEW c \in Clients,
         zonelist_update(c) \/ engine_update_zones(c)
  PROVE  TasksInv'
<1>1. AroundOK /\ ZoneOK /\ WorkersOK /\ ConfOK /\ NextOK /\ ClientOK /\ Leads
  BY Zenon DEF TasksInv
<1>2. UNCHANGED <<topt, tclock, cfile, ifile, lfile, tworker, tz, tout>>
  BY Zenon DEF zonelist_update, engine_update_zones
<1>3. topt.cmds \in Nat /\ budget' \in 0 .. topt.cmds
  <2>1. Spend \/ budget' = budget
    BY Zenon DEF zonelist_update, engine_update_zones, Outcome
  <2>2. topt.cmds \in Nat /\ budget \in 0 .. topt.cmds
    BY <1>1, Options, Zenon DEF AroundOK
  <2> QED
    BY <2>1, <2>2 DEF Spend
<1>4. zlist' \in [seen : Nat, planned : BOOLEAN,
                   status : {"absent", "added", "updated", "ok"}]
  <2>1. CASE zonelist_update(c)
    <3>1. lfile \in Nat /\ zonelist_merge(zlist.status) \in {"added", "updated"}
      BY <1>1, Zenon DEF AroundOK, zonelist_merge
    <3>2. zlist' = zlist
          \/ zlist' = [zlist EXCEPT !.seen = lfile,
                                    !.status = zonelist_merge(zlist.status)]
      BY <1>1, <2>1, Zenon DEF zonelist_update, AroundOK
    <3> QED
      BY <1>1, <3>1, <3>2, Zenon DEF AroundOK
  <2>2. CASE engine_update_zones(c)
    <3>1. PICK s \in {zlist.status, "ok"}, b \in BOOLEAN :
            zlist' = [zlist EXCEPT !.status = s, !.planned = b]
      BY <1>1, <2>2, Zenon DEF engine_update_zones, AroundOK
    <3> QED
      BY <1>1, <3>1, Zenon DEF AroundOK
  <2> QED
    BY <2>1, <2>2, Zenon
<1>5. client' \in [Clients -> {"idle", "merged"}]
  BY <1>1, Zenon DEF AroundOK, zonelist_update, engine_update_zones
<1>6. AroundOK'
  BY <1>1, <1>2, <1>3, <1>4, <1>5, Zenon DEF AroundOK
<1>7. ClientOK'
  <2>1. SUFFICES ASSUME ~topt.clients PROVE ClientOK'
    BY <1>2, Zenon DEF ClientOK
  <2>2. \A d \in Clients : client'[d] # "idle" => d = 1
    <3>1. (c = 1 \/ client'[c] = "idle")
          /\ \A d \in Clients : d # c => client'[d] = client[d]
      BY <1>1, <2>1, Zenon DEF AroundOK, zonelist_update, engine_update_zones
    <3> QED
      BY <1>1, <2>1, <3>1, Zenon DEF ClientOK
  <2>3. ASSUME zlist'.status # "absent",
               ~(zlist'.status = "added" /\ \E d \in Clients : client'[d] = "merged")
        PROVE  zlist'.planned
    <3>1. CASE zonelist_update(c)
      <4>1. client[c] = "idle" /\ client'[c] = "merged" /\ c = 1
        BY <1>1, <2>1, <3>1, Zenon DEF zonelist_update, AroundOK
      <4>2. \A d \in Clients : client[d] # "merged"
        BY <1>1, <2>1, <4>1, Zenon DEF ClientOK
      <4>3. zlist.status # "absent" /\ zlist'.planned = zlist.planned
        BY <1>1, <2>3, <3>1, <4>1, Zenon DEF zonelist_update, zonelist_merge, AroundOK
      <4> QED
        BY <1>1, <2>1, <4>2, <4>3, Zenon DEF ClientOK
    <3>2. CASE engine_update_zones(c)
      <4>1. zlist'.planned = (zlist.planned \/ zlist.status = "added")
            /\ zlist.status # "absent"
        BY <1>1, <3>2, Zenon DEF engine_update_zones, AroundOK
      <4> QED
        BY <1>1, <2>1, <4>1, Zenon DEF ClientOK
    <3> QED
      BY <3>1, <3>2, Zenon
  <2> QED
    BY <2>2, <2>3, Zenon DEF ClientOK
<1>8. /\ tasks' \in [TaskTypes -> Whens]
      /\ \A t \in TaskTypes : \/ tasks'[t] = tasks[t]
                              \/ tasks[t] = "no" /\ tasks'[t] = "now"
      /\ engine_update_zones(c) /\ zlist.status = "added" =>
           tasks'["SIGNCONF"] # "no"
  <2>1. tasks \in [TaskTypes -> Whens] /\ "now" \in Whens
    BY <1>1, Zenon DEF ZoneOK, Whens
  <2>2. CASE zonelist_update(c) /\ tasks' = tasks
    <3>1. ~engine_update_zones(c)
      BY <2>2, Zenon DEF zonelist_update, engine_update_zones
    <3> QED
      BY <2>1, <2>2, <3>1, Zenon
  <2>3. CASE engine_update_zones(c)
    <3>1. PICK t \in TaskTypes : /\ tasks' = Scheduled(tasks, t, "now")
                                 /\ zlist.status = "added" => t = "SIGNCONF"
      BY <2>3, Zenon DEF engine_update_zones, TaskTypes
    <3> QED
      BY <2>1, <3>1, Schedules DEF TaskTypes
  <2> QED
    BY <2>2, <2>3, Zenon DEF zonelist_update
<1>9. ZoneOK'
  BY <1>1, <1>2, <1>8, Zenon DEF ZoneOK
<1>10. WorkersOK' /\ ConfOK' /\ NextOK'
  BY <1>1, <1>2, Zenon DEF WorkersOK, ConfOK, NextOK
<1>11. ValidLeads' /\ StaleLeads'
       /\ \A t \in Circle \cup {"SIGNCONF"} : Due(t) => Due(t)'
  BY <1>1, <1>2, <1>8, TakenLeft, LeadsKept, Zenon
<1>12. ZoneLeads'
  <2>1. CASE zlist'.planned => zlist.planned
    BY <1>1, <1>2, <1>8, <2>1, TakenLeft, LeadsKept, Zenon
  <2>2. CASE engine_update_zones(c) /\ zlist.status = "added"
    BY <1>8, <2>2, Zenon DEF ZoneLeads, Due
  <2> QED
    BY <1>1, <2>1, <2>2, Zenon DEF zonelist_update, engine_update_zones, AroundOK
<1> QED
  BY <1>6, <1>7, <1>9, <1>10, <1>11, <1>12, Zenon DEF TasksInv, Leads

---------------------------------------------------------------------------
(* Steps of the workers. *)

\* A worker takes a task off the schedule.
LEMMA PopKeeps ==
  ASSUME TasksInv, NEW w \in TaskWorkers, PopTask(w)
  PROVE  TasksInv'
<1>1. AroundOK /\ ZoneOK /\ WorkersOK /\ ConfOK /\ NextOK /\ ClientOK /\ Leads
  BY Zenon DEF TasksInv
<1>2. UNCHANGED <<topt, tclock, budget, cfile, ifile, lfile, zlist, client,
                  tz, tout>>
  BY Zenon DEF PopTask
<1>3. PICK t \in TaskTypes :
        /\ tasks[t] = "now"
        /\ tasks' = [tasks EXCEPT ![t] = "no"]
        /\ tworker' = [tworker EXCEPT
                         ![w] = [task |-> t, at |-> "popped", st |-> 0]]
  BY Zenon DEF PopTask
<1>4. tworker[w].task = "none"
  BY <1>1, Zenon DEF PopTask, WorkersOK
<1>5. AroundOK' /\ ConfOK' /\ NextOK' /\ ClientOK'
  BY <1>1, <1>2, Zenon DEF AroundOK, ConfOK, NextOK, ClientOK
<1>6. ZoneOK'
  BY <1>1, <1>2, <1>3, Zenon DEF ZoneOK, Whens
<1>7. WorkersOK'
  BY Sizes, <1>1, <1>2, <1>3 DEF WorkersOK
<1>8. Taken(t)'
  BY <1>1, <1>3, Zenon DEF Taken, WorkersOK
<1>9. \A u \in TaskTypes : Taken(u) => Taken(u)'
  BY <1>1, <1>3, <1>4, Zenon DEF Taken, WorkersOK, TaskTypes
<1>10. \A u \in TaskTypes : u # t => tasks'[u] = tasks[u]
  BY <1>1, <1>3, Zenon DEF ZoneOK
<1>11. \A u \in TaskTypes : (Due(u) => Due(u)') /\ (Soon(u) => Soon(u)')
  BY <1>8, <1>9, <1>10, Zenon DEF Due, Soon
<1>12. Leads'
  BY <1>1, <1>2, <1>11, LeadsKept, Zenon DEF Leads, Circle, TaskTypes
<1> QED
  BY <1>5, <1>6, <1>7, <1>12, Zenon DEF TasksInv

\* A worker that is done is idle, and the others are as they were.
LEMMA EndsKeeps ==
  ASSUME WorkersOK, cfile' = cfile, NEW w \in TaskWorkers, Ends(w)
  PROVE  WorkersOK'
<1>1. TaskClock \in Nat
  BY SignerTasksAssumption, Zenon
<1> QED
  BY <1>1 DEF WorkersOK, Ends, IdleWorker

\* What a worker leaves alone that ends its task: everything that leads on,
\* but for the task itself and for tasks that are unscheduled.
LEMMA EndsLeads ==
  ASSUME WorkersOK, NEW w \in TaskWorkers, Ends(w), NEW t \in TaskTypes,
         t # tworker[w].task, tasks[t] # "no" => tasks'[t] = tasks[t]
  PROVE  (Due(t) => Due(t)') /\ (Soon(t) => Soon(t)')
<1>1. Taken(t) => Taken(t)'
  BY TakenKept, Zenon
<1> QED
  BY <1>1, Zenon DEF Due, Soon

\* signconf_update and the first half of a reading: the file is not newer, or
\* its time is taken.
LEMMA UpdateKeeps ==
  ASSUME TasksInv, NEW w \in TaskWorkers, signconf_update(w)
  PROVE  TasksInv'
<1>1. AroundOK /\ ZoneOK /\ WorkersOK /\ ConfOK /\ NextOK /\ ClientOK /\ Leads
  BY Zenon DEF TasksInv
<1>2. UNCHANGED <<topt, tclock, budget, cfile, ifile, lfile, zlist, client,
                  tout>>
  BY Zenon DEF signconf_update
<1>3. AroundOK' /\ ClientOK'
  BY <1>1, <1>2, Zenon DEF AroundOK, ClientOK
<1>4. tworker[w].at = "popped" /\ tworker[w].task \in SignconfTask
  BY Zenon DEF signconf_update, Performs
<1>5. tz \in ZoneRecord /\ tasks \in [TaskTypes -> Whens]
  BY <1>1, Zenon DEF ZoneOK
<1>6. CASE cfile.mtime > tz.mtime
  <2>1. cfile.mtime \in 0 .. TaskClock /\ tz.mtime \in 0 .. TaskClock
    BY <1>1, <1>5, Zenon DEF AroundOK, ZoneRecord
  <2>2. /\ tworker' = [tworker EXCEPT
             ![w] = [task |-> @.task, at |-> "read", st |-> cfile.mtime]]
        /\ UNCHANGED <<tz, tasks>>
    BY <1>6, <2>1, Sizes DEF signconf_update
  <2>3. WorkersOK'
    BY <1>1, <1>2, <1>4, <2>1, <2>2, Sizes DEF WorkersOK
  <2>4. ZoneOK' /\ ConfOK' /\ NextOK'
    BY <1>1, <1>2, <2>2, Zenon DEF ZoneOK, ConfOK, NextOK
  <2>5. \A t \in TaskTypes : Taken(t) => Taken(t)'
    BY <1>1, <2>2, Zenon DEF Taken, WorkersOK
  <2>6. Leads'
    BY <1>1, <1>2, <2>2, <2>5, LeadsKept, Zenon
       DEF Leads, Due, Soon, Circle, TaskTypes
  <2> QED
    BY <1>3, <2>3, <2>4, <2>6, Zenon DEF TasksInv
<1>7. CASE ~(cfile.mtime > tz.mtime)
  <2>1. cfile.mtime \in 0 .. TaskClock /\ tz.mtime \in 0 .. TaskClock
    BY <1>1, <1>5, Zenon DEF AroundOK, ZoneRecord
  <2>2. SignconfDone(w, tz, "UNCHANGED")
    BY <1>7, <2>1, Sizes DEF signconf_update
  <2>3. Ends(w)
    BY <2>2, Zenon DEF SignconfDone
  <2>4. \E b \in BOOLEAN : tz' = [tz EXCEPT !.valid = b]
    BY <2>2, Zenon DEF SignconfDone, do_readsignconf, do_forcereadsignconf
  <2>5. /\ tz' \in ZoneRecord /\ tz'.mtime = tz.mtime /\ tz'.conf = tz.conf
        /\ tz'.input = tz.input /\ tz'.signed = tz.signed
        /\ tz'.next = tz.next
    BY <1>5, <2>4, Zenon DEF ZoneRecord
  <2>6. WorkersOK' /\ ConfOK' /\ NextOK'
    BY <1>1, <1>2, <2>3, <2>5, EndsKeeps, Zenon DEF ConfOK, NextOK
  <2>7. CASE tworker[w].task = "SIGNCONF"
    <3>1. do_readsignconf(tz, "UNCHANGED")
      BY <2>2, <2>7, Zenon DEF SignconfDone
    <3>2. CASE tz.mtime # 0
      <4>1. tasks' = Promptly(tasks, "READ")
        BY <3>1, <3>2, Zenon DEF do_readsignconf
      <4>2. /\ tasks' \in [TaskTypes -> Whens]
            /\ \A u \in TaskTypes :
                 tasks'[u] = IF u = "READ" THEN "now" ELSE tasks[u]
        BY <1>5, <4>1, Prompt DEF TaskTypes
      <4>3. ZoneOK'
        BY <1>1, <1>2, <2>5, <4>2, Zenon DEF ZoneOK
      <4>4. Leads'
        BY <4>2, SoonLeads, Zenon DEF Soon, TaskTypes
      <4> QED
        BY <1>3, <2>6, <4>3, <4>4, Zenon DEF TasksInv
    <3>3. CASE tz.mtime = 0
      <4>1. tasks' = Deferred(tasks, "SIGNCONF")
            /\ tz' = [tz EXCEPT !.valid = FALSE]
        BY <3>1, <3>3, Zenon DEF do_readsignconf
      <4>2. /\ tasks' \in [TaskTypes -> Whens]
            /\ \A u \in TaskTypes : tasks'[u] =
                 IF u = "SIGNCONF" /\ tasks[u] = "no" THEN "backoff"
                 ELSE tasks[u]
        BY <1>5, <4>1, Defers, Zenon DEF TaskTypes
      <4>3. ZoneOK'
        BY <1>1, <1>2, <2>5, <4>2, Zenon DEF ZoneOK
      <4>4. ~tz'.valid /\ tz'.mtime = 0 /\ Due("SIGNCONF")'
        BY <1>5, <2>5, <3>3, <4>1, <4>2, Zenon DEF ZoneRecord, Due, TaskTypes
      <4>5. Leads'
        BY <4>4, Zenon DEF Leads, ValidLeads, ZoneLeads, StaleLeads
      <4> QED
        BY <1>3, <2>6, <4>3, <4>5, Zenon DEF TasksInv
    <3> QED
      BY <3>2, <3>3, Zenon
  <2>8. CASE tworker[w].task = "FORCESIGNCONF"
    <3>1. do_forcereadsignconf(tz, "UNCHANGED")
      BY <2>2, <2>8, Zenon DEF SignconfDone
    <3> DEFINE q == Unscheduled(tasks, {"SIGNCONF"})
    <3>2. q \in [TaskTypes -> Whens]
          /\ \A u \in TaskTypes : q[u] = IF u = "SIGNCONF" THEN "no" ELSE tasks[u]
      BY <1>5, Unschedules
    <3>3. tasks' = IF tz.valid THEN q ELSE Promptly(q, "READ")
      BY <3>1, Zenon DEF do_forcereadsignconf
    <3> HIDE DEF q
    <3>4. CASE tz.valid
      <4>1. tasks' = q
        BY <3>3, <3>4, Zenon
      <4>2. ZoneOK'
        BY <1>1, <1>2, <2>5, <3>2, <4>1, Zenon DEF ZoneOK
      <4>3. \A u \in Circle : (Due(u) => Due(u)') /\ (Soon(u) => Soon(u)')
        BY <1>1, <2>3, <2>8, <3>2, <4>1, EndsLeads, Zenon DEF Circle, TaskTypes
      <4>4. \E u \in Circle : Due(u)'
        BY <1>1, <3>4, <4>3, Zenon DEF Leads, ValidLeads
      <4>5. ValidLeads' /\ ZoneLeads'
        BY <4>4, Zenon DEF ValidLeads, ZoneLeads
      <4>6. StaleLeads'
        BY <1>1, <1>2, <2>5, <4>3, Zenon DEF Leads, StaleLeads, Circle
      <4> QED
        BY <1>3, <2>6, <4>2, <4>5, <4>6, Zenon DEF TasksInv, Leads
    <3>5. CASE ~tz.valid
      <4>1. tasks' = Promptly(q, "READ")
        BY <3>3, <3>5, Zenon
      <4>2. /\ tasks' \in [TaskTypes -> Whens]
            /\ \A u \in TaskTypes :
                 tasks'[u] = IF u = "READ" THEN "now" ELSE q[u]
        BY <3>2, <4>1, Prompt DEF TaskTypes
      <4>3. ZoneOK'
        BY <1>1, <1>2, <2>5, <3>2, <4>2, Zenon DEF ZoneOK
      <4>4. Leads'
        BY <4>2, SoonLeads, Zenon DEF Soon, TaskTypes
      <4> QED
        BY <1>3, <2>6, <4>3, <4>4, Zenon DEF TasksInv
    <3> QED
      BY <3>4, <3>5, Zenon
  <2> QED
    BY <1>4, <2>7, <2>8, Zenon DEF SignconfTask
<1> QED
  BY <1>6, <1>7, Zenon

\* A worker ends its task: what is left to show of the invariant.
LEMMA EndKeeps ==
  ASSUME TasksInv, NEW w \in TaskWorkers, Ends(w),
         UNCHANGED <<topt, tclock, cfile, ifile, lfile, zlist, client>>,
         budget' \in 0 .. topt.cmds, ZoneOK', ConfOK', NextOK', Leads'
  PROVE  TasksInv'
<1>1. AroundOK' /\ ClientOK'
  BY Zenon DEF TasksInv, AroundOK, ClientOK
<1>2. WorkersOK'
  BY EndsKeeps, Zenon DEF TasksInv
<1> QED
  BY <1>1, <1>2, Zenon DEF TasksInv

\* A step that may fail stays within the bound.
LEMMA OutcomeKeeps ==
  ASSUME TasksInv, NEW ok \in BOOLEAN, Outcome(ok), topt' = topt
  PROVE  budget' \in 0 .. topt.cmds
<1>1. topt.cmds \in Nat /\ budget \in 0 .. topt.cmds
  BY Options, Zenon DEF TasksInv, AroundOK
<1> QED
  BY <1>1 DEF Outcome, Spend

\* signconf_read: the configuration is switched to, or is no good.
LEMMA ReadKeeps ==
  ASSUME TasksInv, NEW w \in TaskWorkers, signconf_read(w)
  PROVE  TasksInv'
<1>1. AroundOK /\ ZoneOK /\ WorkersOK /\ ConfOK /\ NextOK /\ ClientOK /\ Leads
  BY Zenon DEF TasksInv
<1>2. UNCHANGED <<topt, tclock, budget, cfile, ifile, lfile, zlist, client,
                  tout>>
  BY Zenon DEF signconf_read
<1>3. /\ tworker[w].task \in SignconfTask /\ tworker[w].st <= cfile.mtime
      /\ tworker[w].st \in 0 .. TaskClock
  BY <1>1, Zenon DEF signconf_read, WorkersOK
<1>4. tz \in ZoneRecord /\ tasks \in [TaskTypes -> Whens]
      /\ budget' \in 0 .. topt.cmds
  BY <1>1, <1>2, Zenon DEF ZoneOK, AroundOK
<1>5. Ends(w)
  BY Zenon DEF signconf_read, SignconfDone
<1>6. CASE cfile.good
  <2> DEFINE z == [tz EXCEPT !.conf = cfile.ver, !.mtime = tworker[w].st]
  <2>1. SignconfDone(w, z, "OK")
    BY <1>6, Zenon DEF signconf_read, signconf_check, zone_load_signconf
  <2>2. z \in ZoneRecord /\ z.conf = cfile.ver /\ z.mtime = tworker[w].st
        /\ z.next = tz.next
    BY <1>1, <1>3, <1>4, Zenon DEF ZoneRecord, AroundOK
  <2> HIDE DEF z
  <2>3. \E q \in [TaskTypes -> Whens] :
          /\ tasks' = Promptly(q, "READ")
          /\ \A u \in TaskTypes : q[u] = "resign" => tasks[u] = "resign"
    <3>1. CASE tworker[w].task = "SIGNCONF"
      BY <1>4, <2>1, <3>1, Zenon DEF SignconfDone, do_readsignconf
    <3>2. CASE tworker[w].task = "FORCESIGNCONF"
      <4> DEFINE r == Unscheduled(tasks, {"SIGNCONF"})
                 q == Unscheduled(r, {"SIGN", "WRITE"})
      <4>1. r \in [TaskTypes -> Whens]
            /\ \A u \in TaskTypes : r[u] = IF u \in {"SIGNCONF"} THEN "no" ELSE tasks[u]
        BY <1>4, Unschedules
      <4>2. tasks' = Promptly(q, "READ")
        BY <2>1, <3>2, Zenon DEF SignconfDone, do_forcereadsignconf
      <4> HIDE DEF r
      <4>3. q \in [TaskTypes -> Whens]
            /\ \A u \in TaskTypes : q[u] = IF u \in {"SIGN", "WRITE"} THEN "no" ELSE r[u]
        BY <4>1, Unschedules
      <4> HIDE DEF q
      <4> QED
        BY <4>1, <4>2, <4>3, Zenon
    <3> QED
      BY <1>3, <3>1, <3>2, Zenon DEF SignconfTask
  <2>4. PICK q \in [TaskTypes -> Whens] :
          /\ tasks' = Promptly(q, "READ")
          /\ \A u \in TaskTypes : q[u] = "resign" => tasks[u] = "resign"
    BY <2>3, Zenon
  <2>5. /\ tasks' \in [TaskTypes -> Whens]
        /\ \A u \in TaskTypes : tasks'[u] = IF u = "READ" THEN "now" ELSE q[u]
    BY <2>4, Prompt DEF TaskTypes
  <2>6. tz' = z \/ tz' = [z EXCEPT !.valid = TRUE]
    BY <2>1, Zenon DEF SignconfDone, do_readsignconf, do_forcereadsignconf
  <2>7. /\ tz' \in ZoneRecord /\ tz'.conf = cfile.ver
        /\ tz'.mtime = tworker[w].st /\ tz'.next = tz.next
    BY <2>2, <2>6, Zenon DEF ZoneRecord
  <2>8. ZoneOK'
    BY <1>1, <1>2, <2>4, <2>5, <2>7 DEF ZoneOK
  <2>9. ConfOK' /\ NextOK'
    BY <1>1, <1>2, <1>3, <2>7, Zenon DEF ConfOK, NextOK
  <2>10. Leads'
    BY <2>5, SoonLeads, Zenon DEF Soon, TaskTypes
  <2> QED
    BY <1>2, <1>4, <1>5, <2>8, <2>9, <2>10, EndKeeps, Zenon
<1>7. CASE ~cfile.good
  <2>1. SignconfDone(w, tz, "ERR")
    BY <1>7, Zenon DEF signconf_read, signconf_check
  <2>2. CASE tworker[w].task = "SIGNCONF"
    <3>1. tz' = [tz EXCEPT !.valid = FALSE]
          /\ tasks' = Deferred(tasks, "SIGNCONF")
      BY <2>1, <2>2, Zenon DEF SignconfDone, do_readsignconf
    <3>2. /\ tasks' \in [TaskTypes -> Whens]
          /\ \A u \in TaskTypes : tasks'[u] =
               IF u = "SIGNCONF" /\ tasks[u] = "no" THEN "backoff"
               ELSE tasks[u]
      BY <1>4, <3>1, Defers DEF TaskTypes
    <3>3. /\ tz' \in ZoneRecord /\ tz'.mtime = tz.mtime /\ tz'.conf = tz.conf
          /\ tz'.input = tz.input /\ tz'.signed = tz.signed
          /\ tz'.next = tz.next /\ ~tz'.valid
      BY <1>4, <3>1, Zenon DEF ZoneRecord
    <3>4. ZoneOK'
      BY <1>1, <1>2, <3>2, <3>3, Zenon DEF ZoneOK
    <3>5. ConfOK' /\ NextOK'
      BY <1>1, <1>2, <3>3, Zenon DEF ConfOK, NextOK
    <3>6. \A u \in {"READ", "SIGN"} : Soon(u) => Soon(u)'
      BY <1>1, <1>5, <2>2, <3>2, EndsLeads, Zenon DEF TaskTypes
    <3>7. Due("SIGNCONF")'
      BY <3>2, Zenon DEF Due, TaskTypes
    <3>8. Leads'
      BY <1>1, <1>2, <3>3, <3>6, <3>7, Zenon
         DEF Leads, ValidLeads, ZoneLeads, StaleLeads
    <3> QED
      BY <1>2, <1>4, <1>5, <3>4, <3>5, <3>8, EndKeeps, Zenon
  <2>3. CASE tworker[w].task = "FORCESIGNCONF"
    <3>1. tz' = tz /\ tasks' = tasks
      BY <2>1, <2>3, Zenon DEF SignconfDone, do_forcereadsignconf
    <3>2. ZoneOK' /\ ConfOK' /\ NextOK'
      BY <1>1, <1>2, <3>1, Zenon DEF ZoneOK, ConfOK, NextOK
    <3>3. \A u \in Circle \cup {"SIGNCONF"} :
            (Due(u) => Due(u)') /\ (Soon(u) => Soon(u)')
      BY <1>1, <1>5, <2>3, <3>1, EndsLeads, Zenon DEF TaskTypes, Circle
    <3>4. Leads'
      BY <1>1, <1>2, <3>1, <3>3, LeadsKept, Zenon DEF Leads, Circle
    <3> QED
      BY <1>2, <1>4, <1>5, <3>2, <3>4, EndKeeps, Zenon
  <2> QED
    BY <1>3, <2>2, <2>3, Zenon DEF SignconfTask
<1> QED
  BY <1>6, <1>7, Zenon

\* do_readzone and do_forcereadzone: what was read is to be signed at once;
\* a reading that fails changes nothing, and READ comes back.
LEMMA ReadzoneKeeps ==
  ASSUME TasksInv, NEW w \in TaskWorkers, do_readzone(w) \/ do_forcereadzone(w)
  PROVE  TasksInv'
<1>1. AroundOK /\ ZoneOK /\ WorkersOK /\ ConfOK /\ NextOK /\ ClientOK /\ Leads
  BY Zenon DEF TasksInv
<1>2. UNCHANGED <<topt, tclock, cfile, ifile, lfile, zlist, client, tout>>
      /\ Ends(w)
  BY Zenon DEF do_readzone, do_forcereadzone
<1>3. budget' \in 0 .. topt.cmds
  BY <1>2, OutcomeKeeps, Zenon DEF do_readzone, do_forcereadzone
<1>4. tz \in ZoneRecord /\ tasks \in [TaskTypes -> Whens]
  BY <1>1, Zenon DEF ZoneOK
<1>5. CASE /\ tz' = tools_input
           /\ \E q \in [TaskTypes -> Whens] :
                /\ tasks' = Promptly(q, "SIGN")
                /\ \A u \in TaskTypes : q[u] = "resign" => tasks[u] = "resign"
  <2>1. PICK q \in [TaskTypes -> Whens] :
          /\ tasks' = Promptly(q, "SIGN")
          /\ \A u \in TaskTypes : q[u] = "resign" => tasks[u] = "resign"
    BY <1>5, Zenon
  <2>2. /\ tasks' \in [TaskTypes -> Whens]
        /\ \A u \in TaskTypes : tasks'[u] = IF u = "SIGN" THEN "now" ELSE q[u]
    BY <2>1, Prompt DEF TaskTypes
  <2>3. ifile \in SerialsOrNone
    BY <1>1, Sizes DEF AroundOK, SerialsOrNone
  <2>4. /\ tz' \in ZoneRecord /\ tz'.mtime = tz.mtime /\ tz'.conf = tz.conf
        /\ tz'.next = tz.next
    BY <1>4, <1>5, <2>3, Zenon DEF tools_input, ZoneRecord
  <2>5. ZoneOK'
    BY <1>1, <1>2, <2>1, <2>2, <2>4, Zenon DEF ZoneOK
  <2>6. ConfOK' /\ NextOK'
    BY <1>1, <1>2, <2>4, Zenon DEF ConfOK, NextOK
  <2>7. Leads'
    BY <2>2, SoonLeads, Zenon DEF Soon, TaskTypes
  <2> QED
    BY <1>2, <1>3, <2>5, <2>6, <2>7, EndKeeps, Zenon
<1>6. CASE /\ tworker[w].task = "READ"
           /\ tz' = tz /\ tasks' = Deferred(tasks, "READ")
  <2>1. /\ tasks' \in [TaskTypes -> Whens]
        /\ \A u \in TaskTypes : tasks'[u] =
             IF u = "READ" /\ tasks[u] = "no" THEN "backoff" ELSE tasks[u]
    BY <1>4, <1>6, Defers DEF TaskTypes
  <2>2. ZoneOK' /\ ConfOK' /\ NextOK'
    BY <1>1, <1>2, <1>6, <2>1, Zenon DEF ZoneOK, ConfOK, NextOK
  <2>3. tasks'["READ"] \in Whens \ {"no", "resign"}
    BY <1>1, <2>1, Zenon DEF ZoneOK, TaskTypes
  <2>4. Leads'
    BY <2>3, SoonLeads, Zenon DEF Soon, Whens
  <2> QED
    BY <1>2, <1>3, <2>2, <2>4, EndKeeps, Zenon
<1>7. CASE tworker[w].task = "FORCEREAD" /\ tz' = tz /\ tasks' = tasks
  <2>1. ZoneOK' /\ ConfOK' /\ NextOK'
    BY <1>1, <1>2, <1>7, Zenon DEF ZoneOK, ConfOK, NextOK
  <2>2. \A u \in Circle \cup {"SIGNCONF"} :
          (Due(u) => Due(u)') /\ (Soon(u) => Soon(u)')
    BY <1>1, <1>2, <1>7, EndsLeads, Zenon DEF TaskTypes, Circle
  <2>3. Leads'
    BY <1>1, <1>2, <1>7, <2>2, LeadsKept, Zenon DEF Leads, Circle
  <2> QED
    BY <1>2, <1>3, <2>1, <2>3, EndKeeps, Zenon
<1>8. CASE do_readzone(w)
  BY <1>4, <1>5, <1>6, <1>8, Zenon DEF do_readzone, Performs
<1>9. CASE do_forcereadzone(w)
  <2> DEFINE q == Unscheduled(tasks, TaskTypes \ {"FORCESIGNCONF"})
  <2>1. q \in [TaskTypes -> Whens]
        /\ \A u \in TaskTypes : q[u] =
             IF u \in TaskTypes \ {"FORCESIGNCONF"} THEN "no" ELSE tasks[u]
    BY <1>4, Unschedules
  <2>2. \/ tz' = tools_input /\ tasks' = Promptly(q, "SIGN")
        \/ tworker[w].task = "FORCEREAD" /\ tz' = tz /\ tasks' = tasks
    BY <1>9, Zenon DEF do_forcereadzone, Performs
  <2> HIDE DEF q
  <2>3. \A u \in TaskTypes : q[u] = "resign" => tasks[u] = "resign"
    BY <2>1, Zenon
  <2> QED
    BY <1>5, <1>7, <2>1, <2>2, <2>3, Zenon
<1> QED
  BY <1>8, <1>9, Zenon

\* namedb_update_serial gives a serial.
LEMMA NextSerial ==
  ASSUME AroundOK, NEW z \in ZoneRecord
  PROVE  namedb_update_serial(z) \in SerialsOrNone
<1>1. /\ TaskSerials \in Nat \ {0} /\ z.inb \in 0 .. TaskSerials
      /\ z.outb \in 0 .. TaskSerials /\ tclock \in Nat
  BY Sizes DEF AroundOK, ZoneRecord, SerialsOrNone
<1>2. topt.format \in {"unixtime", "datecounter", "keep", "counter"}
  BY Options, Zenon DEF AroundOK
<1>3. tclock \div 2 \in Nat
  BY <1>1
<1>4. \A n \in Nat : n % TaskSerials \in SerialsOrNone
  BY <1>1 DEF SerialsOrNone
<1>5. (tclock \div 2) * 2 \in Nat /\ z.inb + 1 \in Nat /\ z.outb + 1 \in Nat
  BY <1>1, <1>3
<1> QED
  BY <1>1, <1>2, <1>4, <1>5, Zenon DEF namedb_update_serial, SerialsOrNone

\* zone_update_serial.
LEMMA UpdatedSerial ==
  ASSUME tz \in ZoneRecord, NEW s \in SerialsOrNone
  PROVE  /\ zone_update_serial(s) \in ZoneRecord
         /\ zone_update_serial(s).conf = tz.conf
         /\ zone_update_serial(s).input = tz.input
         /\ zone_update_serial(s).mtime = tz.mtime
         /\ zone_update_serial(s).next = NoSerial
         /\ zone_update_serial(s).outb = s
         /\ zone_update_serial(s).signed = tz.signed
<1>1. NoSerial \in SerialsOrNone
  BY Sizes DEF NoSerial, SerialsOrNone
<1>2. zone_update_serial(s) \in ZoneRecord
  BY <1>1, Zenon DEF zone_update_serial, ZoneRecord
<1> QED
  BY <1>2, Zenon DEF zone_update_serial, ZoneRecord

\* do_signzone: what is in use is signed, or the signing comes back.
LEMMA SignKeeps ==
  ASSUME TasksInv, NEW w \in TaskWorkers, do_signzone(w)
  PROVE  TasksInv'
<1>1. AroundOK /\ ZoneOK /\ WorkersOK /\ ConfOK /\ NextOK /\ ClientOK /\ Leads
  BY Zenon DEF TasksInv
<1>2. UNCHANGED <<topt, tclock, cfile, ifile, lfile, zlist, client, tout>>
      /\ Ends(w)
  BY Zenon DEF do_signzone
<1>3. tz \in ZoneRecord /\ tasks \in [TaskTypes -> Whens]
  BY <1>1, Zenon DEF ZoneOK
<1> DEFINE s == IF tz.next = NoSerial THEN namedb_update_serial(tz) ELSE tz.next
           c == [conf |-> tz.conf, keys |-> tz.keys, input |-> tz.input,
                 serial |-> s]
<1>4. PICK ok \in BOOLEAN :
        /\ ok \/ topt.fails
        /\ Outcome(ok)
        /\ tz' = IF ok THEN [zone_update_serial(s) EXCEPT !.signed = c]
                 ELSE [zone_update_serial(s) EXCEPT !.signed.serial = s]
        /\ tasks' = IF ok THEN Scheduled(tasks, "WRITE", "now")
                    ELSE Deferred(tasks, "SIGN")
  BY Zenon DEF do_signzone
<1>5. s \in SerialsOrNone
  BY <1>1, <1>3, NextSerial, Zenon DEF ZoneRecord
<1>6. c \in Contents /\ c.conf = tz.conf /\ c.input = tz.input
  BY <1>3, <1>5, Zenon DEF Contents, ZoneRecord
<1>7. budget' \in 0 .. topt.cmds
  BY <1>2, <1>4, OutcomeKeeps, Zenon
<1> HIDE DEF s, c
<1>8. /\ zone_update_serial(s) \in ZoneRecord
      /\ zone_update_serial(s).conf = tz.conf
      /\ zone_update_serial(s).input = tz.input
      /\ zone_update_serial(s).mtime = tz.mtime
      /\ zone_update_serial(s).next = NoSerial
      /\ zone_update_serial(s).signed = tz.signed
  BY <1>3, <1>5, UpdatedSerial, Zenon
<1>9. CASE ok
  <2>1. tz' = [zone_update_serial(s) EXCEPT !.signed = c]
        /\ tasks' = Scheduled(tasks, "WRITE", "now")
    BY <1>4, <1>9, Zenon
  <2>2. /\ tz' \in ZoneRecord /\ tz'.conf = tz.conf /\ tz'.input = tz.input
        /\ tz'.mtime = tz.mtime /\ tz'.next = NoSerial /\ tz'.signed = c
    BY <1>6, <1>8, <2>1, Zenon DEF ZoneRecord
  <2>3. /\ tasks' \in [TaskTypes -> Whens]
        /\ \A u \in TaskTypes : tasks'[u] =
             IF u = "WRITE" /\ tasks[u] = "no" THEN "now" ELSE tasks[u]
    BY <1>3, <2>1, Schedules DEF TaskTypes, Whens
  <2>4. ZoneOK' /\ ConfOK' /\ NextOK'
    BY <1>1, <1>2, <2>2, <2>3, Zenon DEF ZoneOK, ConfOK, NextOK
  <2>5. Due("WRITE")'
    BY <2>3, Zenon DEF Due, TaskTypes
  <2>6. Leads'
    BY <1>6, <2>2, <2>5, Zenon DEF Leads, ValidLeads, ZoneLeads, StaleLeads, Circle
  <2> QED
    BY <1>2, <1>7, <2>4, <2>6, EndKeeps, Zenon
<1>10. CASE ~ok
  <2>1. tz' = [zone_update_serial(s) EXCEPT !.signed.serial = s]
        /\ tasks' = Deferred(tasks, "SIGN") /\ topt.fails
    BY <1>4, <1>10, Zenon
  <2>2. [tz.signed EXCEPT !.serial = s] \in Contents
    BY <1>3, <1>5, Zenon DEF ZoneRecord, Contents
  <2>3. /\ tz' \in ZoneRecord /\ tz'.conf = tz.conf /\ tz'.mtime = tz.mtime
        /\ tz'.next = NoSerial
    BY <1>8, <2>1, <2>2, Zenon DEF ZoneRecord
  <2>4. /\ tasks' \in [TaskTypes -> Whens]
        /\ \A u \in TaskTypes : tasks'[u] =
             IF u = "SIGN" /\ tasks[u] = "no" THEN "backoff" ELSE tasks[u]
    BY <1>3, <2>1, Defers, Zenon DEF TaskTypes
  <2>5. ZoneOK' /\ ConfOK' /\ NextOK'
    BY <1>1, <1>2, <2>3, <2>4, Zenon DEF ZoneOK, ConfOK, NextOK
  <2>6. Due("SIGN")'
    BY <2>4, Zenon DEF Due, TaskTypes
  <2>7. Leads'
    BY <1>2, <2>1, <2>6, Zenon DEF Leads, ValidLeads, ZoneLeads, StaleLeads, Circle
  <2> QED
    BY <1>2, <1>7, <2>5, <2>7, EndKeeps, Zenon
<1> QED
  BY <1>9, <1>10, Zenon

\* do_writezone: the periodic signing is planned, unless there is a signing.
LEMMA WriteKeeps ==
  ASSUME TasksInv, NEW w \in TaskWorkers, do_writezone(w)
  PROVE  TasksInv'
<1>1. AroundOK /\ ZoneOK /\ WorkersOK /\ ConfOK /\ NextOK /\ ClientOK /\ Leads
  BY Zenon DEF TasksInv
<1>2. UNCHANGED <<topt, tclock, budget, cfile, ifile, lfile, zlist, client, tz>>
      /\ Ends(w) /\ tworker[w].task = "WRITE"
      /\ tasks' = Scheduled(tasks, "SIGN", "resign")
  BY Zenon DEF do_writezone, Performs
<1>3. /\ tasks' \in [TaskTypes -> Whens]
      /\ \A u \in TaskTypes : tasks'[u] =
           IF u = "SIGN" /\ tasks[u] = "no" THEN "resign" ELSE tasks[u]
  BY <1>1, <1>2, Schedules DEF ZoneOK, TaskTypes, Whens
<1>4. tout' \in [file : Contents, state : Contents, restarted : BOOLEAN]
  BY <1>1, Zenon DEF do_writezone, do_outputzonefile, do_outputstatefile, ZoneOK,
              ZoneRecord
<1>5. ZoneOK' /\ ConfOK' /\ NextOK' /\ budget' \in 0 .. topt.cmds
  BY <1>1, <1>2, <1>3, <1>4 DEF ZoneOK, ConfOK, NextOK, AroundOK
<1>6. Due("SIGN")'
  BY <1>3, Zenon DEF Due, TaskTypes
<1>7. \A u \in {"READ", "SIGN"} : Soon(u) => Soon(u)'
  BY <1>1, <1>2, <1>3, EndsLeads, Zenon DEF TaskTypes
<1>8. Leads'
  BY <1>1, <1>2, <1>6, <1>7, Zenon DEF Leads, ValidLeads, ZoneLeads, StaleLeads, Circle
<1> QED
  BY <1>2, <1>5, <1>8, EndKeeps, Zenon

\* A zone that is started knows no configuration.
LEMMA StartedZone ==
  ASSUME NEW c \in Contents
  PROVE  /\ zone_start(c) \in ZoneRecord
         /\ ~zone_start(c).valid /\ zone_start(c).mtime = 0
         /\ zone_start(c).next = NoSerial /\ zone_start(c).outb = NoSerial
BY Sizes DEF zone_start, Contents, ZoneRecord, NoSerial, SerialsOrNone

\* The signer is started again: nothing is scheduled or taken, and the zone is
\* not known.
LEMMA RestartKeeps ==
  ASSUME TasksInv, TaskRestart
  PROVE  TasksInv'
<1>1. AroundOK /\ ZoneOK
  BY Zenon DEF TasksInv
<1>2. topt.cmds \in Nat /\ budget' \in 0 .. topt.cmds
  BY <1>1, Options DEF AroundOK, TaskRestart, Spend
<1>3. AroundOK'
  BY <1>1, <1>2, Zenon DEF AroundOK, TaskRestart
<1>4. tz' \in ZoneRecord /\ ~tz'.valid /\ tz'.mtime = 0 /\ tz'.next = NoSerial
  BY <1>1, StartedZone, Zenon DEF TaskRestart, ZoneOK
<1>5. tout' \in [file : Contents, state : Contents, restarted : BOOLEAN]
  BY <1>1, Zenon DEF TaskRestart, ZoneOK
<1>6. ZoneOK'
  BY <1>4, <1>5, Zenon DEF ZoneOK, TaskRestart, Whens
<1>7. WorkersOK'
  BY Sizes DEF WorkersOK, IdleWorker, TaskRestart
<1>8. ConfOK' /\ NextOK' /\ ClientOK'
  BY <1>3, <1>4 DEF ConfOK, NextOK, ClientOK, AroundOK, TaskRestart
<1>9. Leads'
  BY <1>4, Zenon DEF Leads, ValidLeads, ZoneLeads, StaleLeads, TaskRestart
<1> QED
  BY <1>3, <1>6, <1>7, <1>8, <1>9, Zenon DEF TasksInv

LEMMA InitiallyTasks ==
  TasksInit => TasksInv
<1> SUFFICES ASSUME TasksInit PROVE TasksInv
  BY Zenon
<1>1. topt \in TaskOptions /\ topt.cmds \in Nat
  BY Options, Zenon DEF TasksInit
<1>2. AroundOK
  BY <1>1, Sizes DEF AroundOK, TasksInit
<1>3. NoZone \in Contents
  BY Sizes DEF NoZone, NoSerial, Contents, SerialsOrNone
<1>4. tz \in ZoneRecord /\ ~tz.valid /\ tz.mtime = 0 /\ tz.next = NoSerial
  BY <1>3, StartedZone, Zenon DEF TasksInit
<1>5. ZoneOK
  BY <1>3, <1>4, Zenon DEF ZoneOK, TasksInit, Whens
<1>6. WorkersOK
  BY Sizes DEF WorkersOK, IdleWorker, TasksInit
<1>7. ConfOK /\ NextOK /\ ClientOK
  BY <1>4 DEF ConfOK, NextOK, ClientOK, TasksInit
<1>8. Leads
  BY <1>4, Zenon DEF Leads, ValidLeads, ZoneLeads, StaleLeads, TasksInit
<1> QED
  BY <1>2, <1>5, <1>6, <1>7, <1>8, Zenon DEF TasksInv

LEMMA TasksKept ==
  TasksInv /\ [TasksNext]_taskvars => TasksInv'
<1> SUFFICES ASSUME TasksInv, [TasksNext]_taskvars PROVE TasksInv'
  BY Zenon
<1>1. CASE NewSignconf
  BY <1>1, NewSignconfKeeps, Zenon
<1>2. CASE NewInput \/ NewZonelist
  BY <1>2, NewFilesKeep, Zenon
<1>3. CASE TaskTick \/ schedule_flush
  BY <1>3, TimeKeeps, Zenon
<1>4. CASE \E c \in Clients : zonelist_update(c) \/ engine_update_zones(c)
  BY <1>4, ClientsKeep, Zenon
<1>5. CASE cmd_update \/ cmd_sign_zone
  BY <1>5, CommandsKeep, Zenon
<1>6. ASSUME NEW w \in TaskWorkers, WorkerTask(w) PROVE TasksInv'
  BY <1>6, PopKeeps, UpdateKeeps, ReadKeeps, ReadzoneKeeps, SignKeeps,
     WriteKeeps, Zenon DEF WorkerTask
<1>7. CASE TaskRestart
  BY <1>7, RestartKeeps, Zenon
<1>8. CASE UNCHANGED taskvars
  <2>1. AroundOK' /\ ClientOK'
    BY <1>8, Zenon DEF taskvars, TasksInv, AroundOK, ClientOK
  <2>2. ZoneOK' /\ ConfOK' /\ NextOK'
    BY <1>8, Zenon DEF taskvars, TasksInv, ZoneOK, ConfOK, NextOK
  <2>3. WorkersOK'
    BY <1>8, WorkersLeft, Zenon DEF taskvars, TasksInv
  <2>4. Leads'
    BY <1>8, TakenLeft, LeadsKept, Zenon DEF taskvars, TasksInv, Leads
  <2> QED
    BY <2>1, <2>2, <2>3, <2>4, Zenon DEF TasksInv
<1> QED
  BY <1>1, <1>2, <1>3, <1>4, <1>5, <1>6, <1>7, <1>8, Zenon DEF TasksNext

---------------------------------------------------------------------------
(* The theorems. *)

\* The tasks of a zone that had its first one lead to its next signing, with
\* what was read last, and no configuration is missed: whatever commands,
\* failures and restarts interfere, however the workers interleave
\* (signertasks.c).  With one client a zone always has its first task; with
\* more the addition may be overtaken by another merge of the zone list, and
\* a zone without a task waits for a good configuration to be forced on it.
THEOREM TasksLeadOn == TasksSpec => []TasksSound
<1>1. TasksInv => TasksSound
  <2> SUFFICES ASSUME TasksInv PROVE TasksSound
    BY Zenon
  <2>1. AroundOK /\ ZoneOK /\ WorkersOK /\ ConfOK /\ ClientOK /\ Leads
    BY Zenon DEF TasksInv
  <2>2. TasksTypeOK
    BY <2>1, Zenon DEF TasksTypeOK, AroundOK, ZoneOK, WorkersOK, ZoneRecord, Contents,
                SerialsOrNone, Whens
  <2>3. ZoneScheduled
    BY <2>1, Zenon DEF ZoneScheduled, Leads, ZoneLeads, ClientOK, Circle, Due, TaskTypes
  <2>4. UpdatesNotDelayed
    BY <2>1, Zenon DEF UpdatesNotDelayed, Leads, StaleLeads, Soon, TaskTypes
  <2>5. ConfigNotMissed
    BY <2>1, Zenon DEF ConfigNotMissed, ConfOK
  <2> QED
    BY <2>2, <2>3, <2>4, <2>5, Zenon DEF TasksSound
<1> QED
  BY <1>1, InitiallyTasks, TasksKept, PTL DEF TasksSpec

\* The serial after one that was given out is greater, around the end of the
\* numbers, too.
LEMMA SuccessorGreater ==
  ASSUME NEW n \in 0 .. TaskSerials - 1
  PROVE  SerialGt((n + 1) % TaskSerials, n)
<1>1. TaskSerials \in Nat /\ TaskSerials > 3 /\ TaskSerials \div 2 > 1
  BY Sizes, Zenon
<1>2. (((n + 1) % TaskSerials) + TaskSerials - n) % TaskSerials = 1
  <2>1. CASE n + 1 < TaskSerials
    BY <1>1, <2>1
  <2>2. CASE n + 1 = TaskSerials
    BY <1>1, <2>2
  <2> QED
    BY <1>1, <2>1, <2>2
<1> QED
  BY <1>1, <1>2 DEF SerialGt

\* With the counter format no signing of a running signer goes back to an
\* earlier serial (namedb_update_serial).
THEOREM SerialsGoUp == TasksSpec => SerialIncreases
<1> DEFINE Up(w) ==
      topt.format = "counter" /\ ~topt.forced
      /\ tworker[w].task = "SIGN" /\ tworker'[w] # tworker[w]
      /\ tz.outb # NoSerial /\ tz'.outb # NoSerial =>
        SerialGt(tz'.outb, tz.outb)
<1>1. TasksInv /\ [TasksNext]_taskvars => [\A w \in TaskWorkers : Up(w)]_taskvars
  <2> SUFFICES ASSUME TasksInv, TasksNext, NEW w \in TaskWorkers,
                      topt.format = "counter", ~topt.forced,
                      tworker[w].task = "SIGN", tworker'[w] # tworker[w],
                      tz.outb # NoSerial, tz'.outb # NoSerial
               PROVE  SerialGt(tz'.outb, tz.outb)
    BY Zenon
  <2>1. AroundOK /\ ZoneOK /\ WorkersOK /\ NextOK
    BY Zenon DEF TasksInv
  <2>2. do_signzone(w)
    <3>1. tworker' # tworker
      BY Zenon
    <3>2. ~TaskRestart
      BY <2>1, StartedZone, Zenon DEF TaskRestart, ZoneOK
    <3>3. PICK v \in TaskWorkers : WorkerTask(v)
      BY <3>1, <3>2, Zenon DEF TasksNext, NewSignconf, NewInput, NewZonelist, TaskTick,
         zonelist_update, engine_update_zones, cmd_update, cmd_sign_zone,
         schedule_flush
    <3>4. v = w
      BY <2>1, <3>3, Zenon DEF WorkerTask, PopTask, signconf_update, SignconfDone,
         signconf_read, do_readzone, do_forcereadzone, do_signzone,
         do_writezone, Ends, WorkersOK
    <3> QED
      BY <2>1, <3>3, <3>4, Zenon DEF WorkerTask, PopTask, signconf_update,
         signconf_read, do_readzone, do_forcereadzone, do_writezone, Performs,
         SignconfTask, WorkersOK
  <2>3. tz.next = NoSerial /\ tz \in ZoneRecord
    BY <2>1, Zenon DEF NextOK, ZoneOK
  <2>4. tz'.outb = namedb_update_serial(tz)
    <3> DEFINE s == namedb_update_serial(tz)
    <3>1. s \in SerialsOrNone
      BY <2>1, <2>3, NextSerial, Zenon
    <3>2. \E c : \/ tz' = [zone_update_serial(s) EXCEPT !.signed = c]
                 \/ tz' = [zone_update_serial(s) EXCEPT !.signed.serial = c]
      BY <2>2, <2>3, Zenon DEF do_signzone
    <3> HIDE DEF s
    <3>3. zone_update_serial(s) \in ZoneRecord /\ zone_update_serial(s).outb = s
      BY <2>3, <3>1, UpdatedSerial, Zenon
    <3>4. tz'.outb = s
      BY <3>2, <3>3, Zenon DEF ZoneRecord
    <3> QED
      BY <3>4, Zenon DEF s
  <2>5. tz.outb \in 0 .. TaskSerials - 1
    BY <2>3, Sizes DEF ZoneRecord, SerialsOrNone, NoSerial
  <2> QED
    BY <2>4, <2>5, SuccessorGreater, Zenon DEF namedb_update_serial
<1> QED
  BY <1>1, InitiallyTasks, TasksKept, PTL DEF TasksSpec, SerialIncreases

---------------------------------------------------------------------------
(* The signatures of an RRset (rrset_sign), for any keys and signatures.   *)

Less == {ss \in Nat \X Nat : ss[1] < ss[2]}

LEMMA LessThan == \A k, m \in Nat : <<k, m>> \in Less <=> k < m
BY Zenon DEF Less

\* A set of numbers that is not empty has a least element.
LEMMA Least ==
  ASSUME NEW S \in SUBSET Nat, S # {}
  PROVE  \E m \in S : \A k \in S : m <= k
<1>1. IsWellFoundedOn(Less, Nat)
  BY NatLessThanWellFounded, Zenon DEF OpToRel, Less
<1>2. PICK m \in S : \A k \in S : <<k, m>> \notin Less
  BY <1>1, WFMin, Zenon
<1>3. \A k \in S : <<k, m>> \in Less <=> k < m
  BY LessThan, m \in S, S \subseteq Nat, Zenon
<1>4. \A k \in S : ~(k < m)
  BY <1>2, <1>3, Zenon
<1> QED BY <1>4

\* Induction up to a bound, for sets.
LEMMA UpTo ==
  ASSUME NEW n \in Nat, NEW S, 0 \in S,
         \A m \in 1..n : m - 1 \in S => m \in S
  PROVE  0..n \subseteq S
<1> DEFINE B == (0..n) \ S
<1>1. SUFFICES ASSUME B # {} PROVE FALSE
  BY Zenon
<1>2. B \in SUBSET Nat
  OBVIOUS
<1>3. PICK m \in B : \A k \in B : m <= k
  BY <1>1, <1>2, Least, Zenon
<1>4. m \in 1..n /\ m - 1 \in 0..n /\ ~(m <= m - 1)
  BY <1>3
<1>5. m - 1 \notin B
  BY <1>3, <1>4, Zenon
<1> QED BY <1>3, <1>4, <1>5, Zenon

\* What Picked goes through, element by element.
Picking(s, K, f) ==
  f = [n \in 0..Len(s) |->
         IF n = 0 THEN <<>>
         ELSE IF n \in K THEN Append(f[n-1], s[n]) ELSE f[n-1]]

\* The same, up to n.
PickingTo(s, K, n, f) ==
  \A m \in 0..n :
    f[m] = IF m = 0 THEN <<>>
           ELSE IF m \in K THEN Append(f[m-1], s[m]) ELSE f[m-1]

\* The recursion that Picked is defined by has a solution.
LEMMA PickingExists ==
  ASSUME NEW S, NEW s \in Seq(S), NEW K
  PROVE  \E f : Picking(s, K, f)
<1> DEFINE G == {n \in Nat : \E f \in [0..n -> Seq(S)] : PickingTo(s, K, n, f)}
<1>1. 0 \in G
  <2> DEFINE f == [n \in 0..0 |-> <<>>]
  <2>1. f \in [0..0 -> Seq(S)]
    OBVIOUS
  <2>2. PickingTo(s, K, 0, f)
    BY DEF PickingTo
  <2> HIDE DEF f
  <2> QED BY <2>1, <2>2, Zenon
<1>2. \A m \in 1..Len(s) : m - 1 \in G => m \in G
  <2> SUFFICES ASSUME NEW m \in 1..Len(s), m - 1 \in G
               PROVE  m \in G
    BY Zenon
  <2>1. PICK f \in [0..(m - 1) -> Seq(S)] : PickingTo(s, K, m - 1, f)
    BY Zenon
  <2> DEFINE e == IF m \in K THEN Append(f[m-1], s[m]) ELSE f[m-1]
             g == [n \in 0..m |-> IF n = m THEN e ELSE f[n]]
  <2>2. s[m] \in S /\ f[m-1] \in Seq(S)
    OBVIOUS
  <2>3. e \in Seq(S)
    BY <2>2
  <2> HIDE DEF e
  <2>4. g \in [0..m -> Seq(S)]
    BY <2>1, <2>3
  <2>5. \A n \in 0..m : n # m => g[n] = f[n] /\ n \in 0..(m-1) /\ (n # 0 => n-1 \in 0..(m-1) /\ g[n-1] = f[n-1])
    OBVIOUS
  <2>6. g[m] = e /\ g[m-1] = f[m-1] /\ m # 0
    OBVIOUS
  <2> HIDE DEF g
  <2>7. ASSUME NEW n \in 0..m
        PROVE  g[n] = IF n = 0 THEN <<>>
                      ELSE IF n \in K THEN Append(g[n-1], s[n]) ELSE g[n-1]
    <3>1. CASE n = m
      BY <3>1, <2>6, Zenon DEF e
    <3>2. CASE n # m
      <4>1. f[n] = IF n = 0 THEN <<>>
                   ELSE IF n \in K THEN Append(f[n-1], s[n]) ELSE f[n-1]
        BY <3>2, <2>1, <2>5, Zenon DEF PickingTo
      <4> QED BY <3>2, <4>1, <2>5, Zenon
    <3> QED BY <3>1, <3>2, Zenon
  <2>8. PickingTo(s, K, m, g)
    BY <2>7, Zenon DEF PickingTo
  <2> QED BY <2>4, <2>8
<1>3. Len(s) \in G
  <2> HIDE DEF G
  <2>1. Len(s) \in Nat
    OBVIOUS
  <2>2. 0..Len(s) \subseteq G
    BY <1>1, <1>2, <2>1, UpTo, Zenon
  <2> QED BY <2>1, <2>2
<1>4. PICK f \in [0..Len(s) -> Seq(S)] : PickingTo(s, K, Len(s), f)
  BY <1>3, Zenon
<1>5. Picking(s, K, f)
  <2>1. f = [n \in 0..Len(s) |-> f[n]]
    BY Zenon
  <2> QED BY <2>1, <1>4, Zenon DEF PickingTo, Picking
<1> QED BY <1>5, Zenon

\* Picked takes the elements at the places K and no other.
LEMMA PickedElements ==
  ASSUME NEW S, NEW s \in Seq(S), NEW K \in SUBSET (1..Len(s))
  PROVE  /\ Picked(s, K) \in Seq(S)
         /\ \A i \in K : \E j \in 1..Len(Picked(s, K)) : Picked(s, K)[j] = s[i]
         /\ \A j \in 1..Len(Picked(s, K)) : \E i \in K : Picked(s, K)[j] = s[i]
<1> DEFINE F == CHOOSE f : Picking(s, K, f)
<1>1. Picking(s, K, F)
  BY PickingExists, Zenon
<1>2. Picked(s, K) = F[Len(s)]
  BY Zenon DEF Picked, Picking
<1>3. \A n \in 0..Len(s) :
        F[n] = IF n = 0 THEN <<>>
               ELSE IF n \in K THEN Append(F[n-1], s[n]) ELSE F[n-1]
  BY <1>1, Zenon DEF Picking
<1> HIDE DEF F
<1> DEFINE Good(n, t) ==
             /\ t \in Seq(S)
             /\ \A i \in K : i <= n => \E j \in 1..Len(t) : t[j] = s[i]
             /\ \A j \in 1..Len(t) : \E i \in K : i <= n /\ t[j] = s[i]
           G == {n \in Nat : Good(n, F[n])}
<1>4. 0 \in G
  <2>1. 0 \in 0..Len(s)
    OBVIOUS
  <2>2. F[0] = <<>>
    BY <1>3, <2>1, Zenon
  <2>3. Good(0, <<>>)
    <3>1. <<>> \in Seq(S) /\ 1..Len(<<>>) = {}
      OBVIOUS
    <3>2. \A i \in K : ~(i <= 0)
      OBVIOUS
    <3> QED BY <3>1, <3>2, Zenon
  <2> HIDE DEF Good
  <2> QED BY <2>2, <2>3, Zenon
<1>5. ASSUME NEW m \in 1..Len(s), m - 1 \in G
      PROVE  m \in G
  <2> DEFINE t == F[m-1]
             u == F[m]
  <2>1. Good(m - 1, t)
    BY <1>5, Zenon
  <2>2. u = IF m \in K THEN Append(t, s[m]) ELSE t
    BY <1>3
  <2> HIDE DEF t, u
  <2>3. s[m] \in S /\ t \in Seq(S)
    BY <2>1
  <2>4. Good(m, u)
    <3>1. CASE m \in K
      <4>1. /\ u \in Seq(S) /\ Len(u) = Len(t) + 1 /\ u[Len(t) + 1] = s[m]
            /\ \A j \in 1..Len(t) : u[j] = t[j]
        BY <2>2, <2>3, <3>1
      <4>2. ASSUME NEW i \in K, i <= m PROVE \E j \in 1..Len(u) : u[j] = s[i]
        <5>1. CASE i = m
          BY <5>1, <4>1, <2>3
        <5>2. CASE i # m
          <6>1. PICK j \in 1..Len(t) : t[j] = s[i]
            BY <5>2, <4>2, <2>1
          <6> QED BY <6>1, <4>1, <2>3
        <5> QED BY <5>1, <5>2, Zenon
      <4>3. ASSUME NEW j \in 1..Len(u) PROVE \E i \in K : i <= m /\ u[j] = s[i]
        <5>1. CASE j = Len(t) + 1
          BY <5>1, <4>1, <3>1
        <5>2. CASE j # Len(t) + 1
          <6>1. j \in 1..Len(t)
            BY <5>2, <4>1, <2>3
          <6>2. PICK i \in K : i <= m - 1 /\ t[j] = s[i]
            BY <6>1, <2>1, Zenon
          <6> QED BY <6>1, <6>2, <4>1
        <5> QED BY <5>1, <5>2, Zenon
      <4> QED BY <4>1, <4>2, <4>3, Zenon
    <3>2. CASE m \notin K
      <4>1. u = t
        BY <2>2, <3>2, Zenon
      <4>2. \A i \in K : i <= m => i <= m - 1
        BY <3>2
      <4>3. \A i \in K : i <= m - 1 => i <= m
        OBVIOUS
      <4> QED BY <4>1, <4>2, <4>3, <2>1, Zenon
    <3> QED BY <3>1, <3>2, Zenon
  <2> QED BY <2>4 DEF u
<1>6. Len(s) \in G
  <2> HIDE DEF G
  <2>1. Len(s) \in Nat
    OBVIOUS
  <2>2. 0..Len(s) \subseteq G
    BY <1>4, <1>5, <2>1, UpTo, Zenon
  <2> QED BY <2>1, <2>2
<1>7. \A i \in K : i <= Len(s)
  OBVIOUS
<1> QED BY <1>2, <1>6, <1>7, Zenon

\* The signature that a key makes.
NewBy(key) == [loc |-> key.loc, fresh |-> TRUE, begun |-> TRUE]

Signatures == SgSignatures \cup {NewBy(key) : key \in SgKeys}

\* What rrset_sign is given: keys that differ, and signatures.
Job(keys, sigs) ==
  /\ keys \in Seq(SgKeys) /\ sigs \in Seq(Signatures)
  /\ \A i, j \in DOMAIN keys : keys[i].loc = keys[j].loc => i = j

Signs(dnskey, key) == IF dnskey THEN key.ksk ELSE key.zsk

LEMMA Named ==
  /\ \A k \in SgKeys : k # NoKey
  /\ \A s \in Signatures : s # NoSig /\ s.fresh \in BOOLEAN /\ s.begun \in BOOLEAN
  /\ ~NoKey.publish /\ ~NoSig.fresh
<1>1. (\A k \in SgKeys : k # NoKey) /\ ~NoKey.publish /\ ~NoSig.fresh
  BY SgAssumption DEF NoKey, NoSig
<1>2. ASSUME NEW s \in SgSignatures
      PROVE  s # NoSig /\ s.fresh \in BOOLEAN /\ s.begun \in BOOLEAN
  BY SgAssumption DEF NoSig
<1>3. ASSUME NEW key \in SgKeys
      PROVE  /\ NewBy(key) # NoSig
             /\ NewBy(key).fresh \in BOOLEAN /\ NewBy(key).begun \in BOOLEAN
  BY Zenon DEF NoSig, NewBy
<1> QED BY <1>1, <1>2, <1>3, Zenon DEF Signatures

\* The key of a signature is the one key that matches it, if it is the first
\* signature that the key matches.
LEMMA KeyOfFirst ==
  ASSUME NEW keys, NEW sigs, Job(keys, sigs),
         NEW i \in DOMAIN sigs, NEW k \in DOMAIN keys,
         i \in FirstMatch(sigs, keys[k])
  PROVE  KeyFor(keys, sigs, i) = keys[k]
<1> DEFINE K == {l \in DOMAIN keys : i \in FirstMatch(sigs, keys[l])}
<1>1. \A l \in K : keys[l].loc = sigs[i].loc
  BY Zenon DEF FirstMatch, rrsigkeyismatching
<1>2. K = {k}
  BY <1>1, Zenon DEF Job
<1>3. DOMAIN keys = 1..Len(keys)
  BY DEF Job
<1>4. (CHOOSE l \in K : \A m \in K : m <= l) = k
  BY <1>2, <1>3
<1> QED BY <1>2, <1>4, Zenon DEF KeyFor

\* Otherwise it is some key that matches it, or none.
LEMMA KeyOfAny ==
  ASSUME NEW keys, NEW sigs, Job(keys, sigs), NEW i \in DOMAIN sigs
  PROVE  \/ KeyFor(keys, sigs, i) = NoKey
         \/ \E k \in DOMAIN keys : /\ KeyFor(keys, sigs, i) = keys[k]
                                   /\ keys[k].loc = sigs[i].loc
<1> DEFINE K == {l \in DOMAIN keys : i \in FirstMatch(sigs, keys[l])}
<1>1. CASE K = {}
  BY <1>1, Zenon DEF KeyFor
<1>2. CASE K # {}
  <2>1. PICK k \in K : TRUE
    BY <1>2, Zenon
  <2>2. KeyFor(keys, sigs, i) = keys[k]
    BY <2>1, KeyOfFirst, Zenon
  <2> QED BY <2>1, <2>2, Zenon DEF FirstMatch, rrsigkeyismatching
<1> QED BY <1>1, <1>2, Zenon

\* The keys without a signature are those with which none matches.
UnmatchedAs(keys, sigs, un) ==
  /\ un \in Seq(SgKeys)
  /\ \A k \in DOMAIN keys : FirstMatch(sigs, keys[k]) = {} =>
       \E n \in 1..Len(un) : un[n] = keys[k]
  /\ \A n \in 1..Len(un) :
       \E k \in DOMAIN keys : FirstMatch(sigs, keys[k]) = {} /\ un[n] = keys[k]

LEMMA UnmatchedKeys ==
  ASSUME NEW keys, NEW sigs, Job(keys, sigs)
  PROVE  UnmatchedAs(keys, sigs, Unmatched(keys, sigs))
<1> DEFINE K == {k \in DOMAIN keys : FirstMatch(sigs, keys[k]) = {}}
<1>1. keys \in Seq(SgKeys) /\ K \in SUBSET (1..Len(keys))
  BY DEF Job
<1>2. /\ Picked(keys, K) \in Seq(SgKeys)
      /\ \A i \in K : \E j \in 1..Len(Picked(keys, K)) : Picked(keys, K)[j] = keys[i]
      /\ \A j \in 1..Len(Picked(keys, K)) : \E i \in K : Picked(keys, K)[j] = keys[i]
  <2> HIDE DEF K
  <2> QED BY <1>1, PickedElements, Zenon
<1>3. Unmatched(keys, sigs) = Picked(keys, K)
  BY Zenon DEF Unmatched
<1> QED BY <1>2, <1>3, Zenon DEF UnmatchedAs

\* The pairs that rrset_sign goes through: the signatures with their keys, and
\* the keys that match no signature.
MatchedAs(keys, sigs, all) ==
  /\ DOMAIN all = 1..(Len(sigs) + Len(Unmatched(keys, sigs)))
  /\ \A i \in DOMAIN sigs :
       /\ i \in DOMAIN all
       /\ all[i] = [sig |-> sigs[i], key |-> KeyFor(keys, sigs, i)]
  /\ \A k \in DOMAIN keys : FirstMatch(sigs, keys[k]) = {} =>
       \E i \in DOMAIN all : all[i] = [sig |-> NoSig, key |-> keys[k]]
  /\ \A i \in DOMAIN all : i \notin DOMAIN sigs =>
       \E k \in DOMAIN keys : /\ FirstMatch(sigs, keys[k]) = {}
                              /\ all[i] = [sig |-> NoSig, key |-> keys[k]]

LEMMA Matching ==
  ASSUME NEW keys, NEW sigs, Job(keys, sigs)
  PROVE  MatchedAs(keys, sigs, rrsigkeymatching(keys, sigs))
<1> DEFINE all == rrsigkeymatching(keys, sigs)
           un  == Unmatched(keys, sigs)
           M == Len(sigs)
           N == Len(un)
<1>0. UnmatchedAs(keys, sigs, un)
  BY UnmatchedKeys, Zenon
<1>1. /\ M \in Nat /\ N \in Nat /\ DOMAIN sigs = 1..M
      /\ \A k \in DOMAIN keys : FirstMatch(sigs, keys[k]) = {} =>
           \E n \in 1..N : un[n] = keys[k]
      /\ \A n \in 1..N :
           \E k \in DOMAIN keys : FirstMatch(sigs, keys[k]) = {} /\ un[n] = keys[k]
  <2> HIDE DEF un
  <2>1. M \in Nat /\ DOMAIN sigs = 1..M
    BY DEF Job
  <2>2. N \in Nat
    BY <1>0 DEF UnmatchedAs
  <2> QED BY <1>0, <2>1, <2>2, Zenon DEF UnmatchedAs
<1>2. all = [i \in 1..(M + N) |->
               IF i <= M THEN [sig |-> sigs[i], key |-> KeyFor(keys, sigs, i)]
               ELSE [sig |-> NoSig, key |-> un[i - M]]]
  BY Zenon DEF rrsigkeymatching
<1> HIDE DEF all, un, M, N
<1>3. \A i \in 1..M : /\ i \in 1..(M + N)
                      /\ all[i] = [sig |-> sigs[i], key |-> KeyFor(keys, sigs, i)]
  BY <1>1, <1>2
<1>4. \A n \in 1..N : M + n \in 1..(M + N) /\ all[M + n] = [sig |-> NoSig, key |-> un[n]]
  BY <1>1, <1>2
<1>5. \A i \in 1..(M + N) : i \notin 1..M => i - M \in 1..N /\ all[i] = [sig |-> NoSig, key |-> un[i - M]]
  BY <1>1, <1>2
<1>6. DOMAIN all = 1..(M + N)
  BY <1>2, Zenon
<1>7. ASSUME NEW k \in DOMAIN keys, FirstMatch(sigs, keys[k]) = {}
      PROVE  \E i \in DOMAIN all : all[i] = [sig |-> NoSig, key |-> keys[k]]
  <2>1. PICK n \in 1..N : un[n] = keys[k]
    BY <1>1, <1>7, Zenon
  <2> QED BY <2>1, <1>4, <1>6, Zenon
<1>8. ASSUME NEW i \in DOMAIN all, i \notin DOMAIN sigs
      PROVE  \E k \in DOMAIN keys : /\ FirstMatch(sigs, keys[k]) = {}
                                    /\ all[i] = [sig |-> NoSig, key |-> keys[k]]
  <2>1. i - M \in 1..N /\ all[i] = [sig |-> NoSig, key |-> un[i - M]]
    BY <1>1, <1>5, <1>6, <1>8, Zenon
  <2>2. PICK k \in DOMAIN keys : FirstMatch(sigs, keys[k]) = {} /\ un[i - M] = keys[k]
    BY <2>1, <1>1, Zenon
  <2> QED BY <2>1, <2>2, Zenon
<1>9. \A i \in DOMAIN sigs : /\ i \in DOMAIN all
                             /\ all[i] = [sig |-> sigs[i], key |-> KeyFor(keys, sigs, i)]
  BY <1>1, <1>3, <1>6, Zenon
<1>10. MatchedAs(keys, sigs, all)
  BY <1>6, <1>7, <1>8, <1>9, Zenon DEF MatchedAs, M, N, un
<1> QED BY <1>10, Zenon DEF all

\* A signature is kept with its key, and only if it stays valid.
LEMMA KeptSignature ==
  ASSUME NEW dnskey \in BOOLEAN, NEW refresh \in BOOLEAN,
         NEW sig \in Signatures \cup {NoSig}, NEW key \in SgKeys \cup {NoKey},
         Kept(dnskey, refresh, [sig |-> sig, key |-> key]).sig # NoSig
  PROVE  /\ Kept(dnskey, refresh, [sig |-> sig, key |-> key]) =
              [sig |-> sig, key |-> key]
         /\ sig \in Signatures /\ sig.fresh /\ sig.begun
<1> QED BY Named, SgAssumption, Zenon DEF Kept

\* A key whose task it is to sign is kept, and with it the signature or none.
LEMMA KeptSigner ==
  ASSUME NEW dnskey \in BOOLEAN, NEW refresh \in BOOLEAN,
         NEW sig \in Signatures \cup {NoSig}, NEW key \in SgKeys,
         Signs(dnskey, key)
  PROVE  \/ Kept(dnskey, refresh, [sig |-> sig, key |-> key]) =
              [sig |-> sig, key |-> key]
         \/ Kept(dnskey, refresh, [sig |-> sig, key |-> key]) =
              [sig |-> NoSig, key |-> key]
<1> QED BY Named, SgAssumption, Zenon DEF Kept, Signs

\* The pairs, when it is settled what they keep.
KeptAs(dnskey, refresh, all, ps) ==
  /\ DOMAIN ps = DOMAIN all
  /\ \A i \in DOMAIN ps : ps[i] = Kept(dnskey, refresh, all[i])
  /\ \E n \in Nat : DOMAIN ps = 1..n

LEMMA PairsKept ==
  ASSUME NEW dnskey, NEW refresh, NEW keys, NEW sigs, Job(keys, sigs)
  PROVE  KeptAs(dnskey, refresh, rrsigkeymatching(keys, sigs),
                Pairs(dnskey, refresh, keys, sigs))
<1>1. DOMAIN rrsigkeymatching(keys, sigs) =
        1..(Len(sigs) + Len(Unmatched(keys, sigs)))
  BY Matching, Zenon DEF MatchedAs
<1>2. Len(sigs) \in Nat /\ Len(Unmatched(keys, sigs)) \in Nat
  <2>1. sigs \in Seq(Signatures) /\ Unmatched(keys, sigs) \in Seq(SgKeys)
    BY UnmatchedKeys, Zenon DEF Job, UnmatchedAs
  <2> QED BY <2>1
<1>3. \E n \in Nat : DOMAIN rrsigkeymatching(keys, sigs) = 1..n
  BY <1>1, <1>2
<1> QED BY <1>3, Zenon DEF Pairs, KeptAs

\* A pair with a signature and a key: the signature was there, is the key's
\* and stays valid.
LEMMA Holding ==
  ASSUME NEW dnskey \in BOOLEAN, NEW refresh \in BOOLEAN,
         NEW keys, NEW sigs, Job(keys, sigs),
         NEW i \in DOMAIN Pairs(dnskey, refresh, keys, sigs),
         Pairs(dnskey, refresh, keys, sigs)[i].sig # NoSig,
         Pairs(dnskey, refresh, keys, sigs)[i].key # NoKey
  PROVE  /\ i \in DOMAIN sigs /\ sigs[i].fresh /\ sigs[i].begun
         /\ \E l \in DOMAIN keys :
              /\ keys[l] = Pairs(dnskey, refresh, keys, sigs)[i].key
              /\ keys[l].loc = sigs[i].loc
<1> DEFINE all == rrsigkeymatching(keys, sigs)
           ps  == Pairs(dnskey, refresh, keys, sigs)
<1>1. i \in DOMAIN all /\ ps[i] = Kept(dnskey, refresh, all[i])
  BY PairsKept DEF KeptAs
<1>2. /\ \A j \in DOMAIN sigs : sigs[j] \in Signatures
      /\ \A k \in DOMAIN keys : keys[k] \in SgKeys
  BY DEF Job
<1>3. i \in DOMAIN sigs
  <2>1. SUFFICES ASSUME i \notin DOMAIN sigs PROVE FALSE
    BY Zenon
  <2>2. PICK k \in DOMAIN keys : all[i] = [sig |-> NoSig, key |-> keys[k]]
    BY <1>1, <2>1, Matching DEF MatchedAs
  <2>3. NoSig \in Signatures
    BY <1>1, <1>2, <2>2, KeptSignature
  <2> QED BY <2>3, Named, Zenon
<1>4. all[i] = [sig |-> sigs[i], key |-> KeyFor(keys, sigs, i)]
  BY <1>3, Matching DEF MatchedAs
<1>5. \/ KeyFor(keys, sigs, i) = NoKey
      \/ \E k \in DOMAIN keys : /\ KeyFor(keys, sigs, i) = keys[k]
                                /\ keys[k].loc = sigs[i].loc
  BY <1>3, KeyOfAny
<1>6. KeyFor(keys, sigs, i) \in SgKeys \cup {NoKey}
  BY <1>2, <1>5, Zenon
<1>7. /\ ps[i] = [sig |-> sigs[i], key |-> KeyFor(keys, sigs, i)]
      /\ sigs[i].fresh /\ sigs[i].begun
  BY <1>1, <1>2, <1>3, <1>4, <1>6, KeptSignature
<1> QED BY <1>3, <1>5, <1>7

\* What the keys make: a signature for each key that is needed, and no other.
LEMMA MadeSignatures ==
  ASSUME NEW ps, NEW n \in Nat, DOMAIN ps = 1..n
  PROVE  /\ \E m \in Nat : DOMAIN Made(ps) = 1..m
         /\ \A S : (\A i \in 1..n : Needed(ps, i) => NewBy(ps[i].key) \in S) =>
                     Made(ps) \in Seq(S)
         /\ \A i \in 1..n : Needed(ps, i) =>
              \E j \in DOMAIN Made(ps) : Made(ps)[j] = NewBy(ps[i].key)
         /\ \A j \in DOMAIN Made(ps) :
              \E i \in 1..n : Needed(ps, i) /\ Made(ps)[j] = NewBy(ps[i].key)
<1> DEFINE s == [i \in 1..n |-> NewBy(ps[i].key)]
           K == {i \in 1..n : Needed(ps, i)}
           T == {NewBy(ps[i].key) : i \in 1..n}
           M == Picked(s, K)
<1>1. Made(ps) = M
  BY Zenon DEF Made, NewBy
<1>2. s \in Seq(T) /\ K \in SUBSET (1..Len(s)) /\ Len(s) = n
  OBVIOUS
<1>3. /\ M \in Seq(T)
      /\ \A i \in K : \E j \in 1..Len(M) : M[j] = s[i]
      /\ \A j \in 1..Len(M) : \E i \in K : M[j] = s[i]
  <2> HIDE DEF s, K, T
  <2> QED BY <1>2, PickedElements, Zenon
<1>4. \A i \in 1..n : s[i] = NewBy(ps[i].key)
  BY Zenon
<1> HIDE DEF s, M, T
<1>5. Len(M) \in Nat /\ DOMAIN M = 1..Len(M)
  BY <1>3
<1>6. ASSUME NEW S, \A i \in 1..n : Needed(ps, i) => NewBy(ps[i].key) \in S
      PROVE  M \in Seq(S)
  <2>1. \A j \in 1..Len(M) : M[j] \in S
    BY <1>3, <1>4, <1>6, Zenon
  <2>2. M = [j \in 1..Len(M) |-> M[j]]
    BY <1>3
  <2> QED BY <2>1, <2>2, <1>5
<1>7. ASSUME NEW i \in 1..n, Needed(ps, i)
      PROVE  \E j \in DOMAIN M : M[j] = NewBy(ps[i].key)
  <2>1. PICK j \in 1..Len(M) : M[j] = s[i]
    BY <1>3, <1>7, Zenon
  <2> QED BY <1>4, <1>5, <2>1, Zenon
<1>8. ASSUME NEW j \in DOMAIN M
      PROVE  \E i \in 1..n : Needed(ps, i) /\ M[j] = NewBy(ps[i].key)
  <2>1. PICK i \in K : M[j] = s[i]
    BY <1>3, <1>5, Zenon
  <2> QED BY <1>4, <2>1, Zenon
<1> QED BY <1>1, <1>5, <1>6, <1>7, <1>8, Zenon

\* A key whose task it is to sign has its pair.
LEMMA SignerPaired ==
  ASSUME NEW dnskey \in BOOLEAN, NEW refresh \in BOOLEAN,
         NEW keys, NEW sigs, Job(keys, sigs),
         NEW k \in DOMAIN keys, Signs(dnskey, keys[k])
  PROVE  \E i \in DOMAIN Pairs(dnskey, refresh, keys, sigs) :
           Pairs(dnskey, refresh, keys, sigs)[i].key = keys[k]
<1> DEFINE all == rrsigkeymatching(keys, sigs)
           ps  == Pairs(dnskey, refresh, keys, sigs)
<1>1. /\ \A j \in DOMAIN sigs : sigs[j] \in Signatures
      /\ keys[k] \in SgKeys
  BY DEF Job
<1>2. \E i \in DOMAIN all, sig \in Signatures \cup {NoSig} :
        all[i] = [sig |-> sig, key |-> keys[k]]
  <2>1. CASE FirstMatch(sigs, keys[k]) = {}
    BY <2>1, Matching DEF MatchedAs
  <2>2. CASE FirstMatch(sigs, keys[k]) # {}
    <3>1. PICK i \in FirstMatch(sigs, keys[k]) : TRUE
      BY <2>2, Zenon
    <3>2. i \in DOMAIN sigs
      BY <3>1, Zenon DEF FirstMatch
    <3>3. KeyFor(keys, sigs, i) = keys[k]
      BY <3>1, <3>2, KeyOfFirst, Zenon
    <3>4. i \in DOMAIN all /\ all[i] = [sig |-> sigs[i], key |-> keys[k]]
      BY <3>2, <3>3, Matching DEF MatchedAs
    <3> QED BY <1>1, <3>2, <3>4, Zenon
  <2> QED BY <2>1, <2>2, Zenon
<1>3. PICK i \in DOMAIN all, sig \in Signatures \cup {NoSig} :
        all[i] = [sig |-> sig, key |-> keys[k]]
  BY <1>2, Zenon
<1>4. i \in DOMAIN ps /\ ps[i] = Kept(dnskey, refresh, [sig |-> sig, key |-> keys[k]])
  BY <1>3, PairsKept DEF KeptAs
<1>5. ps[i].key = keys[k]
  <2>1. \/ ps[i] = [sig |-> sig, key |-> keys[k]]
        \/ ps[i] = [sig |-> NoSig, key |-> keys[k]]
    BY <1>1, <1>3, <1>4, KeptSigner
  <2> HIDE DEF ps
  <2> QED BY <2>1
<1> QED BY <1>4, <1>5, Zenon

\* The result: the signatures there were, and after them those the keys make.
LEMMA SignedAs ==
  ASSUME NEW dnskey, NEW refresh, NEW keys, NEW sigs, Job(keys, sigs)
  PROVE  /\ \A i \in DOMAIN sigs :
              \E n \in DOMAIN rrset_sign(dnskey, refresh, keys, sigs) :
                rrset_sign(dnskey, refresh, keys, sigs)[n] = sigs[i]
         /\ LET ps == Pairs(dnskey, refresh, keys, sigs)
            IN \A i \in DOMAIN ps : Needed(ps, i) =>
                 \E n \in DOMAIN rrset_sign(dnskey, refresh, keys, sigs) :
                   rrset_sign(dnskey, refresh, keys, sigs)[n] = NewBy(ps[i].key)
<1> DEFINE ps == Pairs(dnskey, refresh, keys, sigs)
           M == Made(ps)
           r == rrset_sign(dnskey, refresh, keys, sigs)
<1>1. PICK n \in Nat : DOMAIN ps = 1..n
  BY PairsKept DEF KeptAs
<1> HIDE DEF ps
<1> DEFINE T == {NewBy(ps[i].key) : i \in 1..n}
<1>2. M \in Seq(T)
  BY <1>1, MadeSignatures, Zenon
<1>3. \A i \in DOMAIN ps : Needed(ps, i) => \E j \in DOMAIN M : M[j] = NewBy(ps[i].key)
  BY <1>1, MadeSignatures, Zenon
<1>4. r = sigs \o M
  BY Zenon DEF rrset_sign, ps
<1>5. sigs \in Seq(Signatures)
  BY Zenon DEF Job
<1> HIDE DEF M, r, T
<1>6. /\ DOMAIN sigs = 1..Len(sigs) /\ DOMAIN M = 1..Len(M)
      /\ Len(sigs) \in Nat /\ Len(M) \in Nat
      /\ DOMAIN r = 1..(Len(sigs) + Len(M))
      /\ \A i \in 1..(Len(sigs) + Len(M)) :
           r[i] = IF i <= Len(sigs) THEN sigs[i] ELSE M[i - Len(sigs)]
  <2> DEFINE U == Signatures \cup T
  <2>1. sigs \in Seq(U) /\ M \in Seq(U)
    BY <1>2, <1>5
  <2> HIDE DEF U
  <2> QED BY <2>1, <1>4
<1>7. ASSUME NEW i \in DOMAIN sigs PROVE \E l \in DOMAIN r : r[l] = sigs[i]
  BY <1>6
<1>8. ASSUME NEW j \in DOMAIN M PROVE \E l \in DOMAIN r : r[l] = M[j]
  <2>1. Len(sigs) + j \in DOMAIN r /\ r[Len(sigs) + j] = M[j]
    BY <1>6
  <2> QED BY <2>1, Zenon
<1>9. \A i \in DOMAIN ps : Needed(ps, i) => \E l \in DOMAIN r : r[l] = NewBy(ps[i].key)
  BY <1>3, <1>8, Zenon
<1> QED BY <1>7, <1>9, Zenon DEF r, ps

\* After rrset_sign the algorithm of a key whose task it is to sign is covered.
LEMMA Covered ==
  ASSUME NEW dnskey \in BOOLEAN, NEW refresh \in BOOLEAN,
         NEW keys, NEW sigs, Job(keys, sigs),
         NEW k \in DOMAIN keys, Signs(dnskey, keys[k])
  PROVE  \E n \in DOMAIN rrset_sign(dnskey, refresh, keys, sigs) :
           /\ rrset_sign(dnskey, refresh, keys, sigs)[n].fresh
           /\ rrset_sign(dnskey, refresh, keys, sigs)[n].begun
           /\ \E l \in DOMAIN keys :
                /\ keys[l].loc = rrset_sign(dnskey, refresh, keys, sigs)[n].loc
                /\ keys[l].alg = keys[k].alg
<1> DEFINE ps == Pairs(dnskey, refresh, keys, sigs)
           r == rrset_sign(dnskey, refresh, keys, sigs)
<1>1. PICK i \in DOMAIN ps : ps[i].key = keys[k]
  BY SignerPaired
<1>2. keys[k] # NoKey
  BY Named DEF Job
<1>3. ASSUME NEW j \in DOMAIN ps, ps[j].sig # NoSig, ps[j].key # NoKey,
             ps[j].key.alg = keys[k].alg
      PROVE  \E n \in DOMAIN r :
               /\ r[n].fresh /\ r[n].begun
               /\ \E l \in DOMAIN keys : /\ keys[l].loc = r[n].loc
                                         /\ keys[l].alg = keys[k].alg
  <2>1. /\ j \in DOMAIN sigs /\ sigs[j].fresh /\ sigs[j].begun
        /\ \E l \in DOMAIN keys : keys[l] = ps[j].key /\ keys[l].loc = sigs[j].loc
    BY <1>3, Holding
  <2>2. PICK n \in DOMAIN r : r[n] = sigs[j]
    BY <2>1, SignedAs
  <2> HIDE DEF r, ps
  <2> QED BY <1>3, <2>1, <2>2, Zenon
<1>4. CASE Needed(ps, i)
  <2>1. PICK n \in DOMAIN r : r[n] = NewBy(ps[i].key)
    BY <1>4, SignedAs
  <2>2. r[n].fresh /\ r[n].begun /\ r[n].loc = keys[k].loc
    <3> HIDE DEF r, ps
    <3> QED BY <1>1, <2>1 DEF NewBy
  <2>3. \E l \in DOMAIN keys : /\ keys[l].loc = r[n].loc
                              /\ keys[l].alg = keys[k].alg
    BY <2>2, Zenon
  <2> QED BY <2>1, <2>2, <2>3, Zenon
<1>5. CASE ~Needed(ps, i)
  <2>1. CASE ps[i].sig # NoSig
    BY <1>1, <1>2, <1>3, <2>1, Zenon
  <2>2. CASE ps[i].sig = NoSig
    <3> HIDE DEF ps
    <3>1. PICK j \in DOMAIN ps : /\ ps[j].key.publish /\ ps[j].sig # NoSig
                                 /\ ps[j].key.alg = ps[i].key.alg
      BY <1>1, <1>2, <1>5, <2>2, Zenon DEF Needed
    <3>2. ps[j].key # NoKey
      BY <3>1, Named, Zenon
    <3>3. ps[j].key.alg = keys[k].alg
      BY <1>1, <3>1, Zenon
    <3> QED BY <1>3, <3>1, <3>2, <3>3, Zenon
  <2> QED BY <2>1, <2>2, Zenon
<1> QED BY <1>4, <1>5, Zenon

\* The keys that sign an RRset without signatures.
Stays(dnskey, key) ==
  Kept(dnskey, TRUE, [sig |-> NoSig, key |-> key]).key # NoKey

\* What Kept makes of a key alone, of its own new signature, and of a
\* signature alone.
LEMMA KeptAgain ==
  ASSUME NEW dnskey \in BOOLEAN, NEW key \in SgKeys
  PROVE  /\ Kept(dnskey, TRUE, [sig |-> NoSig, key |-> key]).sig = NoSig
         /\ Stays(dnskey, key) =>
              /\ Kept(dnskey, TRUE, [sig |-> NoSig, key |-> key]).key = key
              /\ Kept(dnskey, TRUE, [sig |-> NewBy(key), key |-> key]).sig # NoSig
         /\ \A sig : Kept(dnskey, TRUE, [sig |-> sig, key |-> NoKey]).key = NoKey
<1>1. NewBy(key) # NoSig /\ NewBy(key).fresh /\ NewBy(key).begun
  BY Zenon DEF NewBy, NoSig
<1>2. Kept(dnskey, TRUE, [sig |-> NoSig, key |-> key]).sig = NoSig
  BY Named, SgAssumption, Zenon DEF Kept
<1>3. ASSUME Stays(dnskey, key)
      PROVE  /\ Kept(dnskey, TRUE, [sig |-> NoSig, key |-> key]).key = key
             /\ Kept(dnskey, TRUE, [sig |-> NewBy(key), key |-> key]).sig # NoSig
  BY <1>1, <1>3, Named, SgAssumption, Zenon DEF Kept, Stays
<1>4. ASSUME NEW sig
      PROVE  Kept(dnskey, TRUE, [sig |-> sig, key |-> NoKey]).key = NoKey
  BY Named, Zenon DEF Kept
<1> QED BY <1>2, <1>3, <1>4, Zenon

\* What the keys that stay make of an RRset without signatures: a signature
\* each.
SignedAnew(dnskey, keys, R) ==
  /\ R \in Seq(Signatures)
  /\ \A j \in DOMAIN R : \E k \in DOMAIN keys :
       Stays(dnskey, keys[k]) /\ R[j] = NewBy(keys[k])
  /\ \A k \in DOMAIN keys : Stays(dnskey, keys[k]) =>
       \E j \in DOMAIN R : R[j] = NewBy(keys[k])

LEMMA FirstSigning ==
  ASSUME NEW dnskey \in BOOLEAN, NEW keys, Job(keys, <<>>)
  PROVE  SignedAnew(dnskey, keys, rrset_sign(dnskey, TRUE, keys, <<>>))
<1> DEFINE all == rrsigkeymatching(keys, <<>>)
           ps  == Pairs(dnskey, TRUE, keys, <<>>)
           M   == Made(ps)
<1>1. \A k \in DOMAIN keys : keys[k] \in SgKeys
  BY DEF Job
<1>2. /\ \A i \in DOMAIN all : \E k \in DOMAIN keys :
           all[i] = [sig |-> NoSig, key |-> keys[k]]
      /\ \A k \in DOMAIN keys : \E i \in DOMAIN all :
           all[i] = [sig |-> NoSig, key |-> keys[k]]
  <2>1. MatchedAs(keys, <<>>, all)
    BY Matching, Zenon
  <2>2. DOMAIN <<>> = {}
    OBVIOUS
  <2>3. \A k \in DOMAIN keys : FirstMatch(<<>>, keys[k]) = {}
    BY <2>2, Zenon DEF FirstMatch
  <2> HIDE DEF all
  <2> QED BY <2>1, <2>2, <2>3, Zenon DEF MatchedAs
<1>13. KeptAs(dnskey, TRUE, all, ps)
  BY PairsKept, Zenon
<1> HIDE DEF all, ps
<1>3. /\ DOMAIN ps = DOMAIN all
      /\ \A i \in DOMAIN ps : ps[i] = Kept(dnskey, TRUE, all[i])
  BY <1>13, Zenon DEF KeptAs
<1>4. PICK n \in Nat : DOMAIN ps = 1..n
  BY <1>13, Zenon DEF KeptAs
<1>5. ASSUME NEW i \in DOMAIN ps
      PROVE  /\ ps[i].sig = NoSig
             /\ ps[i].key # NoKey => \E k \in DOMAIN keys :
                  Stays(dnskey, keys[k]) /\ ps[i].key = keys[k]
  <2>1. PICK k \in DOMAIN keys : all[i] = [sig |-> NoSig, key |-> keys[k]]
    BY <1>2, <1>3, Zenon
  <2>2. ps[i] = Kept(dnskey, TRUE, [sig |-> NoSig, key |-> keys[k]])
    BY <1>3, <2>1, Zenon
  <2>3. ps[i].sig = NoSig /\ (Stays(dnskey, keys[k]) => ps[i].key = keys[k])
    <3>1. keys[k] \in SgKeys
      BY <1>1, <2>1, Zenon
    <3>2. /\ Kept(dnskey, TRUE, [sig |-> NoSig, key |-> keys[k]]).sig = NoSig
          /\ Stays(dnskey, keys[k]) =>
               Kept(dnskey, TRUE, [sig |-> NoSig, key |-> keys[k]]).key = keys[k]
      BY <3>1, KeptAgain, Zenon
    <3> QED BY <2>2, <3>2, Zenon
  <2>4. ps[i].key # NoKey => Stays(dnskey, keys[k])
    BY <2>2, Zenon DEF Stays
  <2> QED BY <2>3, <2>4, Zenon
<1>6. \A i \in DOMAIN ps : Needed(ps, i) <=> ps[i].key # NoKey
  BY <1>5, Zenon DEF Needed
<1>7. ASSUME NEW k \in DOMAIN keys, Stays(dnskey, keys[k])
      PROVE  \E i \in DOMAIN ps : ps[i].key = keys[k] /\ ps[i].key # NoKey
  <2>1. PICK i \in DOMAIN all : all[i] = [sig |-> NoSig, key |-> keys[k]]
    BY <1>2, Zenon
  <2>2. i \in DOMAIN ps /\ ps[i] = Kept(dnskey, TRUE, [sig |-> NoSig, key |-> keys[k]])
    BY <1>3, <2>1, Zenon
  <2>3. ps[i].key = keys[k]
    <3>1. Kept(dnskey, TRUE, [sig |-> NoSig, key |-> keys[k]]).key = keys[k]
      BY <1>1, <1>7, KeptAgain, Zenon
    <3> QED BY <2>2, <3>1, Zenon
  <2> QED BY <1>1, <2>2, <2>3, Named, Zenon
<1>8. rrset_sign(dnskey, TRUE, keys, <<>>) = M
  <2>1. rrset_sign(dnskey, TRUE, keys, <<>>) = <<>> \o M
    BY Zenon DEF rrset_sign, ps
  <2>2. M \in Seq({NewBy(ps[i].key) : i \in 1..n})
    BY <1>4, MadeSignatures, Zenon
  <2> DEFINE T == {NewBy(ps[i].key) : i \in 1..n}
  <2> HIDE DEF M, T
  <2>3. \A m \in Seq(T) : <<>> \o m = m
    OBVIOUS
  <2> QED BY <2>1, <2>2, <2>3, Zenon DEF T
<1>9. M \in Seq(Signatures)
  <2>1. \A i \in 1..n : Needed(ps, i) => NewBy(ps[i].key) \in Signatures
    BY <1>1, <1>4, <1>5, <1>6 DEF Signatures
  <2> QED BY <1>4, <2>1, MadeSignatures, Zenon
<1>10. ASSUME NEW j \in DOMAIN M
       PROVE  \E k \in DOMAIN keys : Stays(dnskey, keys[k]) /\ M[j] = NewBy(keys[k])
  <2>1. PICK i \in 1..n : Needed(ps, i) /\ M[j] = NewBy(ps[i].key)
    BY <1>4, MadeSignatures, Zenon
  <2> HIDE DEF M
  <2> QED BY <1>4, <1>5, <1>6, <2>1, Zenon
<1>11. ASSUME NEW k \in DOMAIN keys, Stays(dnskey, keys[k])
       PROVE  \E j \in DOMAIN M : M[j] = NewBy(keys[k])
  <2>1. PICK i \in DOMAIN ps : ps[i].key = keys[k] /\ ps[i].key # NoKey
    BY <1>7, <1>11, Zenon
  <2>2. i \in 1..n /\ Needed(ps, i)
    BY <1>4, <1>6, <2>1, Zenon
  <2>3. \E j \in DOMAIN M : M[j] = NewBy(ps[i].key)
    BY <1>4, <2>2, MadeSignatures, Zenon
  <2> QED BY <2>1, <2>3, Zenon
<1> QED BY <1>8, <1>9, <1>10, <1>11, Zenon DEF SignedAnew

\* A key that matches a signature matches a first one.
LEMMA FirstOfSome ==
  ASSUME NEW keys, NEW sigs, Job(keys, sigs), NEW key,
         NEW i \in DOMAIN sigs, sigs[i].loc = key.loc
  PROVE  FirstMatch(sigs, key) # {}
<1> DEFINE S == {j \in DOMAIN sigs : rrsigkeyismatching(sigs[j], key)}
<1>1. DOMAIN sigs = 1..Len(sigs) /\ Len(sigs) \in Nat
  BY DEF Job
<1>2. S \in SUBSET Nat /\ S # {}
  BY <1>1 DEF rrsigkeyismatching
<1>3. PICK m \in S : \A j \in S : m <= j
  <2> HIDE DEF S
  <2> QED BY <1>2, Least, Zenon
<1>4. ASSUME NEW j \in 1..(m-1) PROVE ~rrsigkeyismatching(sigs[j], key)
  <2>1. j \in DOMAIN sigs /\ ~(m <= j)
    BY <1>1, <1>3
  <2> QED BY <1>3, <2>1, Zenon
<1> QED BY <1>3, <1>4, Zenon DEF FirstMatch

\* A second signing, of what the first has signed, makes no signature.
LEMMA SecondSigning ==
  ASSUME NEW dnskey \in BOOLEAN, NEW keys, Job(keys, <<>>), NEW R,
         SignedAnew(dnskey, keys, R)
  PROVE  rrset_sign(dnskey, TRUE, keys, R) = R
<1>0. /\ R \in Seq(Signatures)
      /\ \A j \in DOMAIN R : \E k \in DOMAIN keys :
           Stays(dnskey, keys[k]) /\ R[j] = NewBy(keys[k])
      /\ \A k \in DOMAIN keys : Stays(dnskey, keys[k]) =>
           \E j \in DOMAIN R : R[j] = NewBy(keys[k])
  BY Zenon DEF SignedAnew
<1> DEFINE all == rrsigkeymatching(keys, R)
           ps  == Pairs(dnskey, TRUE, keys, R)
           M   == Made(ps)
<1>1. Job(keys, R) /\ \A k \in DOMAIN keys : keys[k] \in SgKeys
  BY <1>0 DEF Job
<1>2. MatchedAs(keys, R, all)
  BY <1>1, Matching, Zenon
<1>3. KeptAs(dnskey, TRUE, all, ps)
  BY <1>1, PairsKept, Zenon
<1>4. rrset_sign(dnskey, TRUE, keys, R) = R \o M
  BY Zenon DEF rrset_sign
<1> HIDE DEF all, ps
<1>5. ASSUME NEW i \in DOMAIN ps
      PROVE  ps[i].sig # NoSig \/ ps[i].key = NoKey
  <2>1. i \in DOMAIN all /\ ps[i] = Kept(dnskey, TRUE, all[i])
    BY <1>3, Zenon DEF KeptAs
  <2>2. CASE i \in DOMAIN R
    <3>1. all[i] = [sig |-> R[i], key |-> KeyFor(keys, R, i)]
      BY <1>2, <2>2, Zenon DEF MatchedAs
    <3>2. PICK k \in DOMAIN keys : Stays(dnskey, keys[k]) /\ R[i] = NewBy(keys[k])
      BY <1>0, <2>2, Zenon
    <3>3. \/ KeyFor(keys, R, i) = NoKey
          \/ \E l \in DOMAIN keys : /\ KeyFor(keys, R, i) = keys[l]
                                    /\ keys[l].loc = R[i].loc
      BY <1>1, <2>2, KeyOfAny
    <3>4. CASE KeyFor(keys, R, i) = NoKey
      <4>1. Kept(dnskey, TRUE, [sig |-> R[i], key |-> NoKey]).key = NoKey
        BY <1>1, <3>2, KeptAgain, Zenon
      <4> QED BY <2>1, <3>1, <3>4, <4>1, Zenon
    <3>5. CASE KeyFor(keys, R, i) # NoKey
      <4>1. PICK l \in DOMAIN keys : /\ KeyFor(keys, R, i) = keys[l]
                                     /\ keys[l].loc = R[i].loc
        BY <3>3, <3>5, Zenon
      <4>2. R[i].loc = keys[k].loc
        BY <3>2 DEF NewBy
      <4>3. l = k
        BY <3>2, <4>1, <4>2, Zenon DEF Job
      <4>4. Kept(dnskey, TRUE, [sig |-> NewBy(keys[k]), key |-> keys[k]]).sig # NoSig
        BY <1>1, <3>2, KeptAgain, Zenon
      <4>5. all[i] = [sig |-> NewBy(keys[k]), key |-> keys[k]]
        BY <3>1, <3>2, <4>1, <4>3, Zenon
      <4> QED BY <2>1, <4>4, <4>5, Zenon
    <3> QED BY <3>4, <3>5, Zenon
  <2>3. CASE i \notin DOMAIN R
    <3>1. PICK k \in DOMAIN keys : /\ FirstMatch(R, keys[k]) = {}
                                   /\ all[i] = [sig |-> NoSig, key |-> keys[k]]
      BY <1>2, <2>1, <2>3, Zenon DEF MatchedAs
    <3>2. ~Stays(dnskey, keys[k])
      <4>1. SUFFICES ASSUME Stays(dnskey, keys[k]) PROVE FALSE
        BY Zenon
      <4>2. PICK j \in DOMAIN R : R[j] = NewBy(keys[k])
        BY <1>0, <3>1, <4>1, Zenon
      <4>3. R[j].loc = keys[k].loc
        BY <4>2 DEF NewBy
      <4> QED BY <1>1, <3>1, <4>2, <4>3, FirstOfSome, Zenon
    <3> QED BY <2>1, <3>1, <3>2, Zenon DEF Stays
  <2> QED BY <2>2, <2>3, Zenon
<1>6. PICK n \in Nat : DOMAIN ps = 1..n
  BY <1>3, Zenon DEF KeptAs
<1>7. \A i \in 1..n : ~Needed(ps, i)
  BY <1>5, <1>6, Zenon DEF Needed
<1>8. M \in Seq({})
  BY <1>6, <1>7, MadeSignatures, Zenon
<1> HIDE DEF M
<1>9. M = <<>>
  BY <1>8
<1>10. \A r \in Seq(Signatures) : r \o <<>> = r
  OBVIOUS
<1> QED BY <1>0, <1>4, <1>9, <1>10, Zenon

\* An RRset that had no signatures is left alone when it is signed again.
LEMMA SignedTwice ==
  ASSUME NEW dnskey \in BOOLEAN, NEW keys, Job(keys, <<>>)
  PROVE  rrset_sign(dnskey, TRUE, keys, rrset_sign(dnskey, TRUE, keys, <<>>)) =
           rrset_sign(dnskey, TRUE, keys, <<>>)
BY FirstSigning, SecondSigning, Zenon

\* What the theorem rests on: the job is one that rrset_sign is given, and
\* the result is what it computes when it succeeds.
SgInv ==
  /\ sgjob.dnskey \in BOOLEAN /\ sgjob.refresh \in BOOLEAN
  /\ Job(sgjob.keys, sgjob.sigs)
  /\ sgstatus = "OK" /\ ~sgjob.skip =>
       sgnew = <<rrset_sign(sgjob.dnskey, sgjob.refresh, sgjob.keys, sgjob.sigs)>>

LEMMA SgInvInit == SgInit => SgInv
<1> SUFFICES ASSUME SgInit PROVE SgInv
  BY Zenon
<1>1. sgjob.dnskey \in BOOLEAN /\ sgjob.refresh \in BOOLEAN /\ sgstatus = "none"
  BY Zenon DEF SgInit
<1>2. PICK n \in 1..SgMaxKeys :
        sgjob.keys \in {ks \in [1..n -> SgKeys] :
                          \A i, j \in 1..n : ks[i].loc = ks[j].loc => i = j}
  BY Zenon DEF SgInit
<1>3. PICK m \in 0..SgMaxSigs : sgjob.sigs \in [1..m -> SgSignatures]
  BY Zenon DEF SgInit
<1>4. n \in Nat /\ m \in Nat
  BY SgAssumption, <1>2, <1>3
<1>5. /\ sgjob.keys \in Seq(SgKeys) /\ DOMAIN sgjob.keys = 1..n
  BY <1>2, <1>4
<1>6. sgjob.sigs \in Seq(Signatures)
  BY <1>3, <1>4 DEF Signatures
<1> QED BY <1>1, <1>2, <1>5, <1>6, Zenon DEF SgInv, Job

LEMMA SgInvNext == SgInv /\ [SgNext]_sgvars => SgInv'
<1> SUFFICES ASSUME SgInv, [SgNext]_sgvars PROVE SgInv'
  BY Zenon
<1>1. CASE SgSkip
  BY <1>1, Zenon DEF SgInv, SgSkip
<1>2. CASE SgCompute
  BY <1>2, Zenon DEF SgInv, SgCompute
<1>3. CASE SgFails
  BY <1>3, Zenon DEF SgInv, SgFails
<1>4. CASE UNCHANGED sgvars
  BY <1>4, Zenon DEF SgInv, sgvars
<1> QED BY <1>1, <1>2, <1>3, <1>4, Zenon DEF SgNext

LEMMA SgInvSound == SgInv => RrsetSound
<1> SUFFICES ASSUME SgInv PROVE RrsetSound
  BY Zenon
<1> DEFINE r == rrset_sign(sgjob.dnskey, sgjob.refresh, sgjob.keys, sgjob.sigs)
<1>1. /\ sgjob.dnskey \in BOOLEAN /\ sgjob.refresh \in BOOLEAN
      /\ Job(sgjob.keys, sgjob.sigs)
      /\ sgstatus = "OK" /\ ~sgjob.skip => sgnew = <<r>>
  BY Zenon DEF SgInv
<1>2. sgstatus = "OK" /\ ~sgjob.skip => sgnew[1] = r
  <2> HIDE DEF r
  <2> QED BY <1>1
<1>3. AlgorithmsCovered
  <2> SUFFICES ASSUME sgstatus = "OK", ~sgjob.skip, NEW key \in Signers(sgjob)
               PROVE  \E i \in DOMAIN sgnew[1] :
                        /\ sgnew[1][i].fresh /\ sgnew[1][i].begun
                        /\ \E k \in ByKey(sgjob, sgnew[1][i]) : k.alg = key.alg
    BY Zenon DEF AlgorithmsCovered
  <2>1. PICK k \in DOMAIN sgjob.keys :
          key = sgjob.keys[k] /\ Signs(sgjob.dnskey, sgjob.keys[k])
    BY Zenon DEF Signers, Signs
  <2>2. PICK i \in DOMAIN r :
          /\ r[i].fresh /\ r[i].begun
          /\ \E l \in DOMAIN sgjob.keys : /\ sgjob.keys[l].loc = r[i].loc
                                          /\ sgjob.keys[l].alg = sgjob.keys[k].alg
    BY <1>1, <2>1, Covered
  <2> HIDE DEF r
  <2> QED BY <1>2, <2>1, <2>2, Zenon DEF ByKey
<1>4. Settled
  <2> SUFFICES ASSUME sgstatus = "OK", ~sgjob.skip, sgjob.sigs = <<>>, sgjob.refresh
               PROVE  rrset_sign(sgjob.dnskey, TRUE, sgjob.keys, sgnew[1]) = sgnew[1]
    BY Zenon DEF Settled
  <2>1. sgjob.refresh = TRUE /\ Job(sgjob.keys, <<>>)
    BY <1>1, Zenon
  <2>2. sgnew[1] = rrset_sign(sgjob.dnskey, TRUE, sgjob.keys, <<>>)
    BY <1>2, <2>1, Zenon
  <2> QED BY <1>1, <2>1, <2>2, SignedTwice, Zenon
<1> QED BY <1>3, <1>4, Zenon DEF RrsetSound

\* Whatever keys and signatures there are, also those a failed attempt has left,
\* after a rrset_sign that succeeds every algorithm with a key to sign the RRset
\* has a signature that stays valid, and an RRset that had no signature before is
\* not signed again the next time (RrsetSound).
THEOREM RrsetsSigned == SgSpec => []RrsetSound
BY SgInvInit, SgInvNext, SgInvSound, PTL DEF SgSpec

=============================================================================
