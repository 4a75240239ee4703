---------------------------- MODULE SignerTasks ----------------------------
(***************************************************************************)
(* The life of one zone in the signer: how the tasks of the zone follow    *)
(* one another (signer/src/daemon/signertasks.c), how commands and changes *)
(* of the zone list interfere with them (signercommands.c, engine.c,       *)
(* zonelist.c), how changes of the signer configuration are noticed        *)
(* (signconf.c), and which serial a signing gets (signeroperation.c).      *)
(*                                                                         *)
(* A worker takes a task off the schedule before it has the zone_lock, so  *)
(* the tasks of a zone may be performed in another order than they were    *)
(* taken, and a task that has been taken can no longer be unscheduled.     *)
(* The enforcer replaces the configuration at any time.                    *)
(*                                                                         *)
(* The contents of a configuration and of the unsigned zone are version    *)
(* numbers; the unsigned zone's is its serial.                             *)
(***************************************************************************)
EXTENDS Naturals, FiniteSets

CONSTANTS TaskWorkers,  \* the workers of the signer
          Clients,      \* the threads that may run an update command
          TaskSerials,  \* serial numbers are 0 .. TaskSerials-1
          TaskClock,    \* bound: the clock
          TaskOptions   \* scenarios: [format, forced, restart, clients,
                        \* fails, cmds], cmds being the bound on commands,
                        \* changes of files and failures

ASSUME SignerTasksAssumption ==
  /\ IsFiniteSet(TaskWorkers) /\ IsFiniteSet(Clients)
  /\ TaskSerials \in Nat /\ TaskSerials % 2 = 0 /\ TaskSerials > 2
  /\ TaskClock \in Nat \ {0}
  /\ TaskOptions \subseteq
       [format : {"unixtime", "datecounter", "keep", "counter"},
        forced : BOOLEAN, restart : BOOLEAN, clients : BOOLEAN,
        fails : BOOLEAN, cmds : Nat]

TaskTypes == {"SIGNCONF", "FORCESIGNCONF", "READ", "FORCEREAD", "SIGN",
              "WRITE"}

VARIABLES
  topt,    \* the scenario
  tclock,  \* time_now()
  budget,  \* commands, changes and failures so far
  cfile,   \* the signconf file: [ver, mtime, good]; mtime 0: there is none
  ifile,   \* the serial of the unsigned zone file
  lfile,   \* the zone list file: how often it was changed
  zlist,   \* [seen, status, planned]: last_modified, the zl_status of the
           \* zone, and whether the zone got its first task
  client,  \* what the clients are at: "idle" or "merged"
  tasks,   \* when each task of the zone is due, or "no"
  tworker, \* what the workers are at: [task, at, st]
  tz,      \* the zone
  tout     \* the output file, and the state file

taskvars == <<topt, tclock, budget, cfile, ifile, lfile, zlist, client,
              tasks, tworker, tz, tout>>

NoSerial == TaskSerials

NoZone == [conf |-> 0, keys |-> 0, input |-> 0, serial |-> NoSerial]

IdleWorker == [task |-> "none", at |-> "idle", st |-> 0]

\* util_serial_gt.
SerialGt(a, b) ==
  LET d == (a + TaskSerials - b) % TaskSerials
  IN d > 0 /\ d < TaskSerials \div 2

\* zone_create and zone_start.  The serials that metastorageput stored are
\* not found again: they are stored under the name without, and looked up
\* under the name with its final dot.  What the state file has becomes the
\* base view, and its SOA the inbound serial.
zone_start(state) ==
  [conf |-> 0, mtime |-> 0, valid |-> FALSE, next |-> NoSerial,
   inb |-> state.serial, outb |-> NoSerial, keys |-> state.keys,
   input |-> state.input, signed |-> state]

TasksInit ==
  /\ topt \in TaskOptions
  /\ tclock = 1 /\ budget = 0
  /\ cfile = [ver |-> 0, mtime |-> 0, good |-> TRUE]
  /\ ifile = 1
  /\ lfile = 1
  /\ zlist = [seen |-> 0, status |-> "absent", planned |-> FALSE]
  /\ client = [c \in Clients |-> "idle"]
  /\ tasks = [t \in TaskTypes |-> "no"]
  /\ tworker = [w \in TaskWorkers |-> IdleWorker]
  /\ tz = zone_start(NoZone)
  /\ tout = [file |-> NoZone, state |-> NoZone, restarted |-> FALSE]

\* schedule_scheduletask leaves a task that is there as it is.
Scheduled(q, t, when) == IF q[t] = "no" THEN [q EXCEPT ![t] = when] ELSE q

Unscheduled(q, ts) == [t \in TaskTypes |-> IF t \in ts THEN "no" ELSE q[t]]

\* A task that goes on from here takes the place of one that may be there.
Promptly(q, t) == Scheduled(Unscheduled(q, {t}), t, "now")

Deferred(q, t) == Scheduled(q, t, "backoff")

Spend == budget < topt.cmds /\ budget' = budget + 1

\* A step that may fail does so at the cost of the bound.
Outcome(ok) == IF ok THEN UNCHANGED budget ELSE Spend

LockFree == \A w \in TaskWorkers : tworker[w].at # "read"

---------------------------------------------------------------------------
(* The surroundings: the enforcer, the operator, time. *)

\* A new configuration, usable or not; files are compared by the second, and
\* the enforcer is taken not to write two in one ("changes happening within
\* one second will not be seen").
NewSignconf ==
  /\ Spend /\ cfile.mtime < tclock
  /\ \E good \in BOOLEAN :
       cfile' = [ver |-> cfile.ver + 1, mtime |-> tclock, good |-> good]
  /\ UNCHANGED <<topt, tclock, ifile, lfile, zlist, client, tasks, tworker,
                 tz, tout>>

NewInput ==
  /\ Spend
  /\ ifile' = (ifile + 1) % TaskSerials
  /\ UNCHANGED <<topt, tclock, cfile, lfile, zlist, client, tasks, tworker,
                 tz, tout>>

\* The list changes because of some other zone.
NewZonelist ==
  /\ Spend /\ lfile < 2
  /\ lfile' = lfile + 1
  /\ UNCHANGED <<topt, tclock, cfile, ifile, zlist, client, tasks, tworker,
                 tz, tout>>

\* Time passes, and what was put off is due.
TaskTick ==
  /\ tclock < TaskClock
  /\ tclock' = tclock + 1
  /\ \E t \in TaskTypes :
       tasks' = [tasks EXCEPT ![t] = IF @ = "no" THEN @ ELSE "now"]
  /\ UNCHANGED <<topt, budget, cfile, ifile, lfile, zlist, client, tworker,
                 tz, tout>>

---------------------------------------------------------------------------
(* Commands. *)

\* zonelist_merge for the zone, of a list that has it.
zonelist_merge(status) == IF status = "absent" THEN "added" ELSE "updated"

\* command_update, engine_start: the zone list is merged under the zl_lock ...
zonelist_update(c) ==
  /\ c = 1 \/ topt.clients
  /\ client[c] = "idle" /\ Spend
  /\ zlist' = IF lfile <= zlist.seen THEN zlist
              ELSE [zlist EXCEPT !.seen = lfile, !.status = zonelist_merge(@)]
  /\ client' = [client EXCEPT ![c] = "merged"]
  /\ UNCHANGED <<topt, tclock, cfile, ifile, lfile, tasks, tworker, tz, tout>>

\* ... and then, after the lock was given up, the zones get their tasks, also
\* those whose outbound adapter cannot be configured.  Another client may have
\* merged a newer list in between: the zone is no longer a new one then, and
\* does not get the task SIGNCONF.
engine_update_zones(c) ==
  /\ client[c] = "merged" /\ zlist.status # "absent"
  /\ tasks' = Scheduled(tasks, IF zlist.status = "added" THEN "SIGNCONF"
                               ELSE "FORCESIGNCONF", "now")
  /\ \E ok \in BOOLEAN :
       /\ Outcome(ok)
       /\ zlist' = [zlist EXCEPT !.status = IF ok THEN "ok" ELSE @,
                                 !.planned = @ \/ zlist.status = "added"]
  /\ client' = [client EXCEPT ![c] = "idle"]
  /\ UNCHANGED <<topt, tclock, cfile, ifile, lfile, tworker, tz, tout>>

Known == zlist.status \in {"ok", "updated"}

\* update <zone>.
cmd_update ==
  /\ Known /\ LockFree /\ Spend
  /\ tasks' = Scheduled(tasks, "FORCESIGNCONF", "now")
  /\ UNCHANGED <<topt, tclock, cfile, ifile, lfile, zlist, client, tworker,
                 tz, tout>>

\* sign <zone> [--serial <nr>], and sign --all, which does not pass over a
\* zone that was just added.
cmd_sign_zone ==
  /\ zlist.status # "absent" /\ LockFree /\ Spend
  /\ \E s \in IF topt.forced /\ Known THEN {NoSerial, 0, 3} ELSE {NoSerial} :
       tz' = [tz EXCEPT !.next = IF s = NoSerial THEN @ ELSE s]
  /\ tasks' = Scheduled(tasks, "FORCEREAD", "now")
  /\ UNCHANGED <<topt, tclock, cfile, ifile, lfile, zlist, client, tworker,
                 tout>>

\* flush.
schedule_flush ==
  /\ Spend
  /\ tasks' = [t \in TaskTypes |-> IF tasks[t] = "no" THEN "no" ELSE "now"]
  /\ UNCHANGED <<topt, tclock, cfile, ifile, lfile, zlist, client, tworker,
                 tz, tout>>

---------------------------------------------------------------------------
(* Workers. *)

PopTask(w) ==
  /\ tworker[w].at = "idle"
  /\ \E t \in TaskTypes :
       /\ tasks[t] = "now"
       /\ tasks' = [tasks EXCEPT ![t] = "no"]
       /\ tworker' = [tworker EXCEPT
            ![w] = [task |-> t, at |-> "popped", st |-> 0]]
  /\ UNCHANGED <<topt, tclock, budget, cfile, ifile, lfile, zlist, client,
                 tz, tout>>

\* Worker w gets the zone_lock for its task t.
Performs(w, t) ==
  tworker[w].at = "popped" /\ tworker[w].task = t /\ LockFree

Ends(w) == tworker' = [tworker EXCEPT ![w] = IdleWorker]

SignconfTask == {"SIGNCONF", "FORCESIGNCONF"}

\* The end of do_readsignconf and of do_forcereadsignconf, by the status of
\* tools_signconf, in a zone z.
do_readsignconf(z, status) ==
  IF status = "OK" \/ (status = "UNCHANGED" /\ z.mtime # 0)
  THEN /\ tz' = [z EXCEPT !.valid = TRUE]
       /\ tasks' = Promptly(tasks, "READ")
  ELSE /\ tz' = [z EXCEPT !.valid = FALSE]
       /\ tasks' = Deferred(tasks, "SIGNCONF")

do_forcereadsignconf(z, status) ==
  LET q == Unscheduled(tasks, {"SIGNCONF"}) IN
  CASE status = "UNCHANGED" ->
         /\ tz' = [z EXCEPT !.valid = TRUE]
         /\ tasks' = IF z.valid THEN q ELSE Promptly(q, "READ")
    [] status = "OK" ->
         /\ tz' = z
         /\ tasks' = Promptly(Unscheduled(q, {"SIGN", "WRITE"}), "READ")
    [] status = "ERR" -> tz' = z /\ tasks' = tasks

SignconfDone(w, z, status) ==
  /\ IF tworker[w].task = "SIGNCONF" THEN do_readsignconf(z, status)
     ELSE do_forcereadsignconf(z, status)
  /\ Ends(w)

\* signconf_update: the time of the file is taken first ...
signconf_update(w) ==
  /\ \E t \in SignconfTask : Performs(w, t)
  /\ IF cfile.mtime <= tz.mtime
     THEN SignconfDone(w, tz, "UNCHANGED")
     ELSE /\ tworker' = [tworker EXCEPT
                ![w] = [task |-> @.task, at |-> "read", st |-> cfile.mtime]]
          /\ UNCHANGED <<tz, tasks>>
  /\ UNCHANGED <<topt, tclock, budget, cfile, ifile, lfile, zlist, client,
                 tout>>

signconf_check == cfile.good

zone_load_signconf(st) == [tz EXCEPT !.conf = cfile.ver, !.mtime = st]

\* ... and then it is read, checked and switched to.
signconf_read(w) ==
  /\ tworker[w].at = "read"
  /\ IF signconf_check
     THEN SignconfDone(w, zone_load_signconf(tworker[w].st), "OK")
     ELSE SignconfDone(w, tz, "ERR")
  /\ UNCHANGED <<topt, tclock, budget, cfile, ifile, lfile, zlist, client,
                 tout>>

\* tools_input with a file adapter: the DNSKEYs of the configuration and the
\* unsigned zone are committed to the views, and adfile_read sets the inbound
\* serial.
tools_input == [tz EXCEPT !.keys = tz.conf, !.input = ifile, !.inb = ifile]

do_readzone(w) ==
  /\ Performs(w, "READ")
  /\ \E ok \in BOOLEAN :
       /\ Outcome(ok)
       /\ IF ok /\ tz.mtime # 0
          THEN tz' = tools_input /\ tasks' = Promptly(tasks, "SIGN")
          ELSE tz' = tz /\ tasks' = Deferred(tasks, "READ")
  /\ Ends(w)
  /\ UNCHANGED <<topt, tclock, cfile, ifile, lfile, zlist, client, tout>>

\* Mutant: a configuration that is asked for is unscheduled, too.
do_forcereadzone_early(w) ==
  /\ Performs(w, "FORCEREAD")
  /\ \E ok \in BOOLEAN :
       /\ Outcome(ok)
       /\ IF ok /\ tz.mtime # 0
          THEN /\ tz' = tools_input
               /\ tasks' = Promptly(Unscheduled(tasks, TaskTypes), "SIGN")
          ELSE tz' = tz /\ tasks' = Unscheduled(tasks, {"READ"})
  /\ Ends(w)
  /\ UNCHANGED <<topt, tclock, cfile, ifile, lfile, zlist, client, tout>>

do_forcereadzone(w) ==
  /\ Performs(w, "FORCEREAD")
  /\ \E ok \in BOOLEAN :
       /\ Outcome(ok)
       /\ IF ok /\ tz.mtime # 0
          THEN /\ tz' = tools_input
               /\ tasks' = Promptly(Unscheduled(tasks,
                             TaskTypes \ {"FORCESIGNCONF"}), "SIGN")
          ELSE tz' = tz /\ tasks' = tasks
  /\ Ends(w)
  /\ UNCHANGED <<topt, tclock, cfile, ifile, lfile, zlist, client, tout>>

\* Mutant: the serial given out before is not looked at.
namedb_update_serial_wide(z) ==
  CASE topt.format = "unixtime" -> tclock
    [] topt.format = "datecounter" -> (tclock \div 2) * 100
    [] topt.format \in {"keep", "counter"} -> (z.inb + 1) % TaskSerials

\* The next serial of a zone without a forced one.
namedb_update_serial(z) ==
  CASE topt.format = "unixtime" -> tclock % TaskSerials
    [] topt.format = "datecounter" -> ((tclock \div 2) * 2) % TaskSerials
    [] topt.format = "keep" -> z.inb
    [] topt.format = "counter" ->
         LET s == (z.inb + 1) % TaskSerials
         IN IF z.outb # NoSerial /\ ~SerialGt(s, z.outb)
            THEN (z.outb + 1) % TaskSerials ELSE s

zone_update_serial(s) == [tz EXCEPT !.next = NoSerial, !.outb = s]

\* The serial is used up before anything that can fail.  A signing that fails
\* is tried again.
do_signzone(w) ==
  /\ Performs(w, "SIGN")
  /\ \E ok \in BOOLEAN :
       LET s == IF tz.next = NoSerial THEN namedb_update_serial(tz)
                ELSE tz.next
           z == zone_update_serial(s)
       IN /\ ok \/ topt.fails
          /\ Outcome(ok)
          /\ tz' = IF ok
                   THEN [z EXCEPT !.signed = [conf |-> tz.conf,
                           keys |-> tz.keys, input |-> tz.input,
                           serial |-> s]]
                   ELSE [z EXCEPT !.signed.serial = s]
          /\ tasks' = IF ok THEN Scheduled(tasks, "WRITE", "now")
                      ELSE Deferred(tasks, "SIGN")
  /\ Ends(w)
  /\ UNCHANGED <<topt, tclock, cfile, ifile, lfile, zlist, client, tout>>

\* A state file is only made when there is none.
do_outputstatefile(out) ==
  IF out.state = NoZone THEN [out EXCEPT !.state = tz.signed] ELSE out

do_outputzonefile(out) == [out EXCEPT !.file = tz.signed]

\* The zone is written and the next signing planned.
do_writezone(w) ==
  /\ Performs(w, "WRITE")
  /\ tout' = do_outputzonefile(do_outputstatefile(tout))
  /\ tasks' = Scheduled(tasks, "SIGN", "resign")
  /\ Ends(w)
  /\ UNCHANGED <<topt, tclock, budget, cfile, ifile, lfile, zlist, client,
                 tz>>

\* The signer stops or crashes, and is started again; once, as what becomes
\* of the state file afterwards is the commit log's (CommitLog).
TaskRestart ==
  /\ topt.restart /\ ~tout.restarted /\ Spend
  /\ zlist' = [seen |-> 0, status |-> "absent", planned |-> FALSE]
  /\ client' = [c \in Clients |-> "idle"]
  /\ tasks' = [t \in TaskTypes |-> "no"]
  /\ tworker' = [w \in TaskWorkers |-> IdleWorker]
  /\ tz' = zone_start(tout.state)
  /\ tout' = [tout EXCEPT !.restarted = TRUE]
  /\ UNCHANGED <<topt, tclock, cfile, ifile, lfile>>

---------------------------------------------------------------------------
WorkerTask(w) ==
  \/ PopTask(w) \/ signconf_update(w) \/ signconf_read(w) \/ do_readzone(w)
  \/ do_forcereadzone(w) \/ do_signzone(w) \/ do_writezone(w)

TasksNext ==
  \/ NewSignconf \/ NewInput \/ NewZonelist \/ TaskTick
  \/ \E c \in Clients : zonelist_update(c) \/ engine_update_zones(c)
  \/ cmd_update \/ cmd_sign_zone \/ schedule_flush
  \/ \E w \in TaskWorkers : WorkerTask(w)
  \/ TaskRestart

TasksSpec == TasksInit /\ [][TasksNext]_taskvars

---------------------------------------------------------------------------
(* Properties. *)

\* Whether a worker has taken task t.
Taken(t) == \E w \in TaskWorkers : tworker[w].task = t

\* The type invariant of the module.
TasksTypeOK ==
  LET S == 0 .. TaskSerials
      Z == [conf : Nat, keys : Nat, input : S, serial : S]
  IN /\ topt \in TaskOptions /\ tclock \in 1 .. TaskClock
     /\ budget \in 0 .. topt.cmds
     /\ cfile \in [ver : Nat, mtime : 0 .. TaskClock, good : BOOLEAN]
     /\ zlist \in [seen : Nat, planned : BOOLEAN,
                    status : {"absent", "added", "updated", "ok"}]
     /\ tasks \in [TaskTypes -> {"no", "now", "backoff", "resign"}]
     /\ tworker \in [TaskWorkers -> [task : TaskTypes \cup {"none"},
          at : {"idle", "popped", "read"}, st : 0 .. TaskClock]]
     /\ tz \in [conf : Nat, mtime : 0 .. TaskClock, valid : BOOLEAN,
                next : S, inb : S, outb : S, keys : Nat, input : S,
                signed : Z]
     /\ tout \in [file : Z, state : Z, restarted : BOOLEAN]

\* A zone never falls out of the schedule: however the tasks were taken,
\* unscheduled and deferred, one of those that lead to the next signing is
\* there or being performed (signertasks.c: every handler unschedules tasks
\* of the zone and has to schedule the one that goes on).  This needs a first
\* task.  A zone gets one unless a second client merges a newer zone list
\* between the merge that added the zone and engine_update_zones
\* (signercommands.c:175-183): then the zone counts as updated (zonelist.c:479),
\* only FORCESIGNCONF is scheduled (engine.c:689-693), and as long as that
\* task finds no good configuration the zone has no task at all.
ZoneScheduled ==
  zlist.status = "ok" /\ (topt.clients => zlist.planned \/ tz.mtime # 0) =>
    \E t \in TaskTypes \ {"FORCESIGNCONF", "FORCEREAD"} :
      tasks[t] # "no" \/ Taken(t)

\* What was read is not left waiting for the next periodic signing: as long
\* as the configuration or the input in use is not the one last signed, a
\* task that leads to a signing is due, taken or backing off
\* (schedule_scheduletask does not move a task that is there forward, so the
\* handlers have to unschedule first).  Not where a signing may fail: the task
\* WRITE of an earlier signing, performed late, schedules the periodic signing
\* before the signing under way fails, and the retry of that is then taken to
\* be scheduled already.
UpdatesNotDelayed ==
  zlist.status = "ok" /\ tz.mtime # 0 /\ ~topt.fails
  /\ (tz.signed.conf # tz.conf \/ tz.signed.input # tz.input) =>
    \E t \in TaskTypes \ {"FORCESIGNCONF", "FORCEREAD"} :
      tasks[t] \in {"now", "backoff"} \/ Taken(t)

\* A configuration is not missed: one that the zone does not use yet is newer
\* than the modification time the zone remembers, so that the next check will
\* see it, even when the enforcer replaced the file between the check and the
\* read (signconf_update takes the time before it reads).
ConfigNotMissed ==
  LockFree /\ tz.mtime # 0 => tz.conf = cfile.ver \/ cfile.mtime > tz.mtime

\* With the counter format every signing of a running signer gets a serial
\* greater than the one before, whatever the unsigned zone's serial does and
\* whichever signings failed (namedb_update_serial).
SerialIncreases ==
  [][\A w \in TaskWorkers :
       topt.format = "counter" /\ ~topt.forced
       /\ tworker[w].task = "SIGN" /\ tworker'[w] # tworker[w]
       /\ tz.outb # NoSerial /\ tz'.outb # NoSerial =>
         SerialGt(tz'.outb, tz.outb)]_taskvars

\* The tasks of a zone always lead to its next signing, with what was read
\* last.
TasksSound == TasksTypeOK /\ ZoneScheduled /\ UpdatesNotDelayed /\ ConfigNotMissed

=============================================================================
