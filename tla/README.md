# OpenDNSSEC in TLA+

A model of OpenDNSSEC's two daemons, kept beside the code: TLA+ modules, TLC
configurations that check them on small instances, and TLAPS proofs that hold for
every value of the constants. Paths below are relative to `src/`.

## 1. The system

OpenDNSSEC signs DNS zones and rolls their keys without making them invalid.

* **The enforcer** (`enforcer/`) decides which keys a zone has and in which state
  every record of every key is (DS, DNSKEY, its signature, the zone's signatures:
  hidden, rumoured, omnipresent, unretentive). It works on rows of a database,
  takes key material from an HSM, asks the operator to publish a DS at the parent,
  and writes a *signconf* file for the signer. Policies come from `kasp.xml`, zones
  from `zonelist.xml` or commands.
* **The signer** (`signer/`) reads zones (files or transfers) and signconfs, signs,
  and serves or writes the result. A zone is a base of records with several *views*;
  views are kept in pools and synchronised through a commit log.
* **Both** run tasks from a scheduler with worker threads (`common/scheduler/`) and
  take commands over a socket. The signer's workers also share one queue of records
  that *drudgers* sign.

| part | state | hard behaviour | modules |
|---|---|---|---|
| scheduler, workers (`common/scheduler/{schedule,task,worker}.c`) | two trees of tasks, a mutex per owner and class, backoff | concurrent requests, missed wake-ups, the clock read outside the lock | `Scheduler` |
| key states and rules (`enforcer.c`), enforce and signconf tasks, operator commands | states, dependencies, flags, what resolvers cached | sequences of legal moves, failing HSM, order of rows | `KeyStates`, `Enforcer` |
| database wrapper, key factory, commands (`dbw.c`, `hsm_key_factory.c`, `keystate/`) | rows with revisions, recent keys, generation requests | two sessions on one row, a commit in seven parts, crashes | `Dbw`, `KeyFactory`, `Sessions` |
| database objects and backends (`enforcer/src/db/`) | columns, values, result lists, statements, locks | positions that must agree in five places, broken walks, busy files, cut connections | `DbTables`, `DbRows`, `DbLists`, `DbQuery`, `DbWait` |
| policies (`policy/`, `kc_helper.c`, `policy_ext.c`, `duration.c`) | `kasp.xml`, rows, salt | two readers and a writer of the same elements | `KaspCheck`, `PolicyXml` |
| zone lists (`zonelist_*.c`, `zonelistparser.c`) | operator's list, database, internal list, signer's list | overlapping commands, a crash between file and rename | `ZoneLists` |
| command channel (`clientpipe.c`, `cmdhandler.c`, `ods-enforcer.c`, `ods-signer.c`) | streams and buffers | messages cut anywhere, stop while a command runs | `CmdChannel` |
| signing queue (`fifoq.c`, `signertasks.c`, signer `engine.c`) | bounded queue, counters per worker, contexts | reports before the count, full queue, reload in the middle | `SignQueue` |
| view pools (`signer/zonelist.c`) | slots, view of each thread | contention, early returns | `ViewPool` |
| commit log (`views/commitlog.c`, `views.c`) | change tables, pointers, journal | release of tables, a crash while the journal is rewritten | `SharedLog`, `CommitLog` |
| records and signing (`recordset.c`, `index.c`, `views.c`, `signertasks.c`, `signeroperation.c`, `httpd.c`) | revisions of names in indices of views | requests between the steps of a signing | `ZoneRecords`, `RrsetSign` |
| tasks of a zone, serials (`signertasks.c`, `zone.c`, `signconf.c`) | tasks, serials, modification times | commands and failures between tasks | `SignerTasks` |
| transfers (`xfrd.c`, `addns.c`, `tcpset.c`), NOTIFY (`notify.c`) | transfer files, sockets, waiting lists, rounds | cut transfers, late answers, full sets | `XfrInput`, `XfrSlots`, `Notify` |
| DNS service (`query.c`, `axfr.c`, `acl.c`, `tsig.c`, `edns.c`, `sock.c`) | the answer being made, the file it is read from | transfers of many packets while new versions are written | `DnsService` |
| keys in tokens (`libhsm.c`, signer `hsm.c`, `hsmutil.c`) | contexts, sessions, logins, the shared cache of keys | two threads miss the same key, calls fail, tokens are reset | `Hsm` |
| PINs (`pin.c`, `hsm_open2()`) | semaphore, shared memory, buffers of processes | deaths, interrupted waits, logouts in the middle | `HsmPin` |

What is left (generated accessors, XML and wire formats, cryptography, listings) is
named in `PROJECT.json` with the reason why it is not modelled.

## 2. The modules

Definitions have the name of the C function or field they stand for; `map` in
`PROJECT.json` gives the lines. Operators whose comment calls them a mutant, or
that are commented as a faulty variant ("a merge that takes the date of the last
caller"), are not used by any specification: they are plausible bugs that show that
a property can fail. `MC*` modules give the constants their values. `MCDatabase`,
`MCConfig`, `MCSigner`, `MCZone`, `MCShared` and `MCLive` put several modules side by side:
`Init` chooses the `part` a behaviour is about and the variables of the others stay
as they are, so one run asks one family of questions.

**Scheduler.** `tasks` is the tree by date as a set of pairs, `tasks_by_name` the
tree by name as a function. Each critical section of `schedule_lock` is an action.
Between them a worker is at a location `pc`: it reads the clock (`BeginPop`), pops or
sleeps (`PopDue`, `PopSleep`), waits for the owner's mutex (`TakeLock`), runs the
callback (`CallbackReturns`) and puts the task back (`Reschedule`). `need_to_exit` is
the phase of the main thread, set outside the lock as in the code, so a worker can
miss the broadcast. `asked` is a history variable: the earliest date asked for since
the callback last started.

**KeyStates, Enforcer.** `zone` holds the rows; a fetch gives them in an order chosen
by the database (`scans`), because the sort that attaches children is not stable.
`update()` is a composition of the same functions as in the code and ends in the
commit condition of `perform_enforce()`. Outside the code the model has what gives it
a meaning: the DS set at the parent, the served DNSKEY set, and everything a resolver
may still have cached (`old_ds`, `old_dnskey`, `signers`). Times are relative to now,
so that the state space is finite without a horizon. A *scenario*, chosen by `Init`,
fixes what one behaviour may do: keys, policies, commands, outcomes of the HSM.
Assumptions about the world: tasks that are due run, and the signer follows a new
signconf, before the next unit of time; the operator reports ds-seen and ds-gone
truthfully; a commit succeeds as a whole; keys are not shared between zones; policies
that replace each other differ in their keys only.

**Dbw, KeyFactory, Sessions.** A session fetches all tables, marks rows to insert,
update and delete, verifies the revisions of the rows it updates and writes the seven
lists one after the other. Any write may fail and the process may die between two.
`KeyFactory` has the list of recently taken keys (`RU_COUNT` places), the queue of
generation requests and the HSM. `Sessions` has one action per task and command on
rows. What a command does to a row is abstracted to the columns the properties read.

**DbTables, DbRows, DbLists, DbQuery, DbWait.** `DbTables` has the column lists of the
seven tables in every place that names them by position. `DbRows` moves a row through
structure, values, columns (with their widths on SQLite and MySQL) and back, with two
holders and revisions. `DbLists` models the list objects: storing or not, walks broken
off and begun again, copies. `DbQuery` builds statements from clauses and binds by
position on both backends and compares them with what the clauses mean. `DbWait` is
the busy handler of SQLite with its condition variable and whole seconds, and the
reconnecting of MySQL.

**KaspCheck, PolicyXml.** A policy is a function from element paths to
texts; the two readers (`policy_import.c`, `policy_ext.c`), the comparison, the export
and the checks of `kaspcheck` are tables over the same paths. Durations are read,
summed and printed as in `duration.c`. Reads and commits of the import and of the resalt
task may fail; `pxskipped` remembers that a resalt was lost in one of the ways
observation 15 names.

**ZoneLists.** The operator's file, the database, the internal list with its temporary
files and the signer's copy; one action per read, save, rename and commit of a command.
The internal list has a modification time in seconds, by which the signer decides
whether to read it; what is written again within the second is `Overlooked`.

**CmdChannel.** Octets of both directions as sequences, both `extract_msg()` with
buffers of `ChMaxLine`, the thread of a client and the stop of the handler. Commands may
be longer than the buffer: the daemon then aborts at an assertion, or hears only the end.

**SignQueue.** Each critical section of `q_lock` is an action. A worker pushes its
records, sleeps when the queue is full (with the 5 s timeout), adds the batch to its
counter on entry to `fifoq_waitfor()` - the counter may be negative by then - and
waits. `StopThread`, `NotifyAll`, `JoinWorker`, `Reload` are the steps of the main
thread. There are no spurious wake-ups.

**ViewPool.** Views are numbered in the order of their creation. `mincount` and
whether callers may `Abandon` a view (the early returns of `do_signzone()`) are chosen
by `Init`. `aborted` is the failed assertion.

**SharedLog, CommitLog.** `SharedLog` is the promise: one sequence of commits, every
view has seen a prefix. `CommitLog` has the linked tables, the pointers of the views,
the release of a table by the view that processes it last, conflicts, the state file
with its journal, crash and restart; threads take turns or overlap (`discipline`).
`unsaved` are the records of a table that were only amended: `persistfn()` journals new
records and the ends of removed ones. A restart reads the snapshot only.

**ZoneRecords, RrsetSign.** Revisions of names (data, dates, span, signatures) in a heap
shared by the views; each view has its indices with the comparison functions of
`recordset.c`. `preparesign`, `processoccluded`, `processneighbours` and the signing
are actions with requests (`httpd_dispatch`), writing and transfers in between.
`RrsetSign` is `rrset_sign()`: which keys sign, over all small sets of keys and old
signatures, with a failing HSM at any of them. Beside the records `ZoneRecords` keeps what
file and requests ask for (`rwanted`) and what they should have removed and did not
(`rstays`).

**SignerTasks.** The six kinds of tasks of a zone, the commands and the zone list that unschedule
and schedule them, modification times of signconf and input, and the serial formats in
modular serial arithmetic (`TaskSerials` for 2^32).

**XfrInput, XfrSlots, Notify.** `XfrInput` follows one zone's transfers from the answer
to the file, the rename and the reader, with cut transfers, retransfers and files that
cannot be opened or written; `mishap` records the three ways in which the protocol loses
data without noticing (observation 14), and the properties say what holds until then.
The expiry of a zone is not modelled.
`XfrSlots` has the sockets and waiting lists zones share, with every outcome of the
system calls. `Notify` has the rounds over the secondaries.

**DnsService.** One client asks over UDP or over a TCP connection. A request passes
the access list, TSIG and EDNS as in `query_process()`; an answer is filled record by
record up to the limit of the packet, signed every n-th packet, and continued from the
place in the file where the packet before it ended, while `dver` moves on. Lengths are
counted in units. The file for an IXFR is made as `getxfr()` and the indices of changes
make it (`IxfrFiles`), which need not lead from one version to the other (observation
18). Left out: read errors of the file, an IXFR before the first change (`getxfr()`
asserts that there was one) or of a zone that does not come by transfer, records that do
not fit an empty packet, other query types.

**Hsm, HsmPin.** In `Hsm` a step of a thread is one call into a token, and any of them
may fail. `hobjs` are the objects ever made, and a handle is never used again. Threads
that only find, make and remove keys stand for other processes too. The identifiers of
new keys are drawn at random and may collide as the code lets them. Encodings of keys
and signatures, hexadecimal conversion and key tags are left out. In `HsmPin` a process
is in the loop of `hsm_open2()` over one token; semaphore and memory carry a number, so
that a process can hold one that was removed. Creating and setting the semaphore are
separate calls that may fail, and a process may find it before it is set. `lost` and `odd`
count the units that died with a process or were lost to a logout between the two calls
of `semget()`, and those given back after an interrupted wait. Copies of a PIN are atomic.

## 3. Runs

| run | properties | what it shows |
|---|---|---|
| `scheduler_safe` | `MutualExclusion RequestsKept NeverPostponed` | one callback per owner at a time, no request is lost or moved to a later date |
| `scheduler_live` | `RequestsServed StopCompletes` | every due request is started; every stop completes |
| `enforcer_safe` | `NeverBogus NothingMissed KeysSound RollRequestKept` | eight scenarios: no resolver can find the zone bogus, no possible move is missed, dependencies stay acyclic and keys are backed up before use, requests survive a failing HSM |
| `enforcer_two_rolls` | `NeverBogus` (violated) | `unsignedOk()` with two keys whose DS is to be retracted |
| `live` | `Retired RollServed` | a key on its way out gets out; a rollover gets its new key although commits are refused |
| `queues` | `JobsDone ContextsAlive InitialExclusive NoSleepOnFree BatchFinishes Woken` | a batch reported as done is signed, across reloads; batches larger than the queue finish; initial views are exclusive; no lost wake-up |
| `commitlog` | `PointersAlive Reclaimed JournalComplete NoLostUpdate SharedLogSpec` | tables are released exactly when nobody needs them, every new record is in the snapshot or the journal, no update is lost, the log implements `SharedLog` |
| `database` | `RowsSound WalkComplete BackendsAgree WaitSound SessionsSound ChangesOnlyItsOwn` | rows survive their way through every layer, walks are complete, both backends do what the clauses mean, waiting and reconnecting lose nothing, sessions keep keys and rows consistent |
| `config` | `PoliciesAgree ZonesAgree ChannelSound` | what is written in `kasp.xml` and in the zone lists is what the database and the signer use, where nothing failed or came within one second; a command that fits the buffer is answered whole |
| `signer` | `XfrdSound NotifySound TasksSound SerialIncreases PinSound` | the files keep committed transfers in order up to the named mishaps, sockets are counted, a round passes over no secondary, tasks lead to the next signing, serials go up; a saved PIN was accepted, the semaphore keeps its unit |
| `zone` | `RecordsSound RrsetSound DnsSound HsmSound` | what goes out is signed, of one version and has what was asked for; every algorithm has a signature; a transfer delivers one whole file, to those who may have it; nobody gets a wrong key, what is not found is explained by the cache, lists are complete |
| `zone_requests` | `RequestsReplace` (violated) | a request of the web service does not remove what `httpd.h` says it removes |

Properties whose name ends in `Sound` or `Agree` are conjunctions; their parts are
defined and explained just above them in the module. The two violated runs are the
findings of `PROJECT.json`, with the lines of the repository that say otherwise.

### Bounds

* Scheduler: two workers, two tasks with two mutexes, two requests, times up to 3.
  Two requests let one merge with a waiting task, meet a running one, or follow
  its reschedule. In the safety run one task is of the enforcer's class (replaced on
  merge) and one of the signer's (withdrawn with `schedule_unscheduletask()`).
  The workers are symmetric. The proofs cover every other size.
* Enforcer: two or three keys (four in the change of algorithm), delays of 0 and 1.
  Every key can be rolled once with its predecessor still on its way out; three
  generations exist in the scenario without a DS. Ages saturate at the longest
  delay of the scenario.
* SignQueue: a queue of 2 and batches of up to 3, more than the queue holds, one
  reload. The 10 % threshold of `fifoq_pop()` is then an empty queue. One worker,
  because `fifoq_push()` does not keep a second one from starving; the proofs cover
  any number.
* ViewPool: four threads and up to three views, so that a thread can sleep in every
  pool.
* CommitLog: three views, two commits, two revisions of one name: one commit to be
  released while another is taken.
* Database: integers of 7 values instead of 2^32 so that every width can overflow; four
  rows and seven calls on a list; two sessions and one place for recent keys (`RU_COUNT`
  is 8 in the code; with one, the list is full at the first collision); two threads and
  five seconds of half-second steps for the busy handler.
* Policies: documents that differ from a complete one in one element each, and pairs
  for the checks that relate two. Zone lists: two zones, two policies, two clients; two
  commands with a fault, or three.
* Command channel: a line buffer of 6, commands of 0, 2, 3, 5 and 7 octets, output of 1, 3,
  4 and 7: below, at and beyond the buffer with its header, at both ends.
* Transfers: serials modulo 8 starting at 7 (the first change wraps around), two packets
  to an answer, and one or two changes with a cut, with a retransfer, with both, or with
  two failing system calls. Slots: three zones for one TCP and one UDP slot, two masters. NOTIFY:
  three zones for two rounds, two secondaries. Tasks: two workers, two clients, serials
  modulo 6, four commands, changes or failures in each of five scenarios.
* Tokens: two repositories of one library, two threads, four identifiers; per scenario
  one kind of fault. PINs: two processes that ask and one that looks, two PINs, three
  attempts, and two opens with a logout and a change, a logout and a death, or an
  interruption. DNS service: three versions of a zone of a few names in packets that
  hold two or three records.
* Records: an apex, a delegation with a name below it and a plain name; a zone file
  and two requests; two signings. RRset: two keys, two old signatures.

Deadlock is checked where the system cannot stop: `scheduler_live`, the enforcer's
runs and `commitlog`. The others stop at their bounds, in the hang described under
Observations, or after an abort.

### Fairness

* Threads: weak fairness per worker, drudger and user of a view. The operating
  system runs every thread, callbacks return. Mutexes are not assumed to be fair.
* Main thread: weak fairness; a stop that was begun goes on. Nobody has to stop.
* Clock: weak fairness in the scheduler; strong in the enforcer, where a tick waits
  for the tasks that are due.
* Enforcer: tasks that are due are run (`[]<>(task # 0)`, `[]<>(~ signconf)`; a run
  of the enforce task never asks for another one at once), and the operator and the
  parent do what they were asked to (weak fairness). `Retired` needs all of it: an
  operator who never reports ds-gone keeps a key for ever, by design.
* Sessions: a thread at work goes on (weak fairness); the lock of the database, the
  enforce task of every zone and the generate task are not passed over for ever
  (strong fairness), as the scheduler runs a task that returns a time again and again.

## 4. Proofs

Assumptions are the named `ASSUME`s of the modules (types of the constants, a lock for
every task, `MinBackoff <= MaxBackoff`, positive bounds). Sets of workers, tasks, locks,
threads, views and records are arbitrary.

**Scheduler** (`SchedulerProofs`), for `Spec`:

* `Typing`, `TreeAgreement`: typing needs the trees to agree, since a date popped
  from one tree is looked up in the other; they are proved together. One lemma,
  `ScheduleKeepsTrees`, covers insertion and merge; the actions that schedule cite it.
* `OwnerExclusion`: `MutualExclusion` is not inductive. `LockHeld` is: a worker in a
  callback is the one its task's mutex names. Two of them are then the same.
* `NoLostRequest`: needs `StoppedExited` (no worker holds a task when the schedule
  is purged) beside the typing; `ScheduleKeepsRequests` is the case of a merge.
* `NoPostponement`: an action property, from the typing alone.

The inductive invariant `IInv` is the conjunction of the five.

**Signing queue** (`SignQueueInvariant`, `SignQueueProofs`), for `Spec`, any number of
workers, drudgers and reloads, any size of queue and batch:

* `BatchSigned`: a count. The records of a worker that are queued or being signed are
  all different, and `tasksOutstanding` with what the worker has yet to add is never
  smaller than their number, although it may be negative meanwhile. So when the wait
  ends by itself nothing is pending. The first module has the invariant and the steps
  of the workers, the second those of the drudgers and the engine.
* `ContextsOutlive`: drudgers are joined before workers, and a worker's context lives
  as long as something of it is pending.

**View pool** (`SharedProofs`), for `PoolSpec`, any number of threads and views:

* `Typing`, `InitialViews` (initial views are exclusive, also in a pool that grows),
  `NoLostWakeup` (strengthened by: sleepers found a pool of full size).
* `FixedPoolExclusive`: with mincount = maxcount all views are initial ones.
* `FixedPoolRelease`: the releasing thread's view is in no slot, so by the pigeonhole
  principle the exclusive views cannot fill all slots (`SlotLeft`), and the search
  finds the first empty one (`FirstEmptySlot`, by well-foundedness of `<`).

**PINs** (`SharedProofs`), for `PinSpec`, any number of processes, PINs and attempts:

* `PinHandedOn` is `PinSound`. Two arguments: `BuffersSound` (a buffer that is to be
  saved has a PIN the token accepted, and who asks is not saving) gives what is in the
  memory. `UnitMoves` counts where the unit of the semaphore is when one process
  takes a step; it needs `CreatorFirst`, that nobody passes a semaphore its creator has
  not set yet, since setting it to 1 would otherwise make a second unit, and
  `SemaphoresKnown`, that nobody has a semaphore that is still to be created.

**Commit log** (`CommitLogProofs`), any number of views, records and commits:

* `ListInOrder`, `NoDanglingPointer`, `TablesReclaimed`: the tables that are allocated
  are an interval of the commits, and every pointer is into it or past its end.
* `NoUpdateLost`, `TasksNeverAbort`: a view that commits has seen every commit that
  touches the same names, or reports a conflict; threads that take turns never do.
* `StateFileComplete` (`JournalComplete`): the state file, and the temporary one while it
  is written, has every new record of every commit, in its snapshot or under the number
  of the commit in its journal. The invariant relates the
  journal to the list from the view's pointer on; that the tables reachable from a
  pointer are the commits after it is proved by taking the least number that is not.
* `ImplementsSharedLog`: the mapping (`INSTANCE SharedLog WITH`) keeps the commits and what
  every view has applied of them, and hides the list, its pointers, the threads and the
  files. Initial states map to initial states, and every step maps to a step of
  `SharedLog` or leaves its variables alone, because what a pointer leads to is the next
  commit its view has not applied.

**Waiting and retrying** (`RetryProofs`):

* `WaitsAreSound`, for `WaitSpec`: any number of threads, any timeout, sleep and clock
  resolution. While a statement tries, sleeps or is refused, the recorded time is the
  second in which it was stepped; a refusal has seen the timeout's seconds begin since.
  An open MySQL connection has autocommit.
* `SecondariesTold`, for `NotifySpec`: any zones, secondaries, slots and retries.
  `NotifyInv` says how many messages each secondary of a round was sent (`retry` for the
  one it is at, none after it), keeps the waiting list without repetitions and
  `notify_udp_num` at least, or exactly, the number of rounds.

**Lists of rows** (`DbListProofs`), for `ListsSpec`, any number of rows and calls, each of
the seven tables:

* `WalksComplete` (`WalkComplete`): the property speaks of the rows that were given, not of
  the two cursors, and is not inductive. `ListsInv` says where the cursors are: without
  stored objects the result list is at the row given last; with them the objects made
  are those up to the cursor of the result list, and the position is never past it. So
  the object that is missing is always the one the result list gives next.
  `TablesFollowTheTemplate` reduces the functions of the tables to the template.

**Tasks of a zone** (`SignerProofs`), for `TasksSpec`, any workers, clients, serials and
bounds:

* `TasksLeadOn`: `TasksSound` is not inductive. `TasksInv` says which tasks lead on: once
  a configuration was read one of READ, SIGN and WRITE is always there, before that
  SIGNCONF is once the zone got its first task; while what was read is not what was signed,
  and signings do not fail, it is READ or a SIGN that is not the periodic one.
* `SerialsGoUp`: an action property, from the range of the serials: the counter format
  adds a number between 1 and half the space.

**RRsets** (`SignerProofs`), for `SgSpec`, any keys with different locators, any old
signatures:

* `RrsetsSigned` (`RrsetSound`): `Covered` follows a key that has to sign to its pair: the
  key makes a signature, or another pair of its algorithm holds one, which was matched
  with its key and is fresh. `SignedTwice`: after a signing from nothing every key that
  stays holds its own new signature and every other key is dropped again. Both rest on
  which elements the lists hold; these are recursive functions (`Picked`), so
  `PickingExists` and `PickedElements` are by induction, written as the least place where
  they fail (`Least`), since the library's induction rules cannot be used.

**Only model-checked.** Liveness (`RequestsServed`, `StopCompletes`, `Retired`,
`RollServed`, `BatchFinishes`, `Woken`) is out of the prover's reach. The rest computes
with folds or searches that would each need an induction of their own, as `Picked` has,
and TLC checks every small instance instead: the enforcer's `update()` is made of folds
over the rows (`NeverBogus`, `NothingMissed`, `KeysSound`, `RollRequestKept`);
`CmdChannel`, `DnsService`, `PolicyXml`, `ZoneLists`, `DbRows` and `DbQuery` compute with
recursive or folded functions over sequences; `XfrInput` and `XfrSlots` select from
sequences; `ZoneRecords`, `Sessions` and `Hsm` search sets and sequences of rows or
handles.

## 5. Observations

Met while modelling; the ones with a run are checked, the others are what the models
were built around.

1. `time leap --time` sets the clock to the first due date instead of its argument
   (`enforcer/src/daemon/time_leap_cmd.c:144`). After a time leap workers wait without
   a timeout, so one that misses the broadcast of a stop is never joined
   (`schedule.c:461`).
2. `key purge` deletes the dependencies from a key and not those to it
   (`key_purge.c:55`); `key rollover` writes all three flags and so drops a pending
   request for another role (`keystate_rollover_cmd.c:148`).
3. Run `enforcer_two_rolls`: `unsignedOk()` (`enforcer.c:360`). Besides, a lowered
   DNSKEY TTL is counted from the past (`enforcer.c:703`), so answers with the longer
   TTL may outlive it.
4. A purge of dead keys that is the only change is not committed before the signconf
   is written (`enforcer.c:1475`, `enforce_task.c:108`), and the HSM key is gone.
5. `fifoq_waitfor()` is not woken by a stop (`fifoq.c:160`): a reload never completes
   while a worker waits for records the drudgers left. `tasksOutstanding` of an
   interrupted batch survives a reload, and the next batch of that worker then waits
   for reports that never come. A stop also lets `do_signzone()` commit its view while
   drudgers sign.
6. A pool of views grows only with `views[0] == NULL`, so the new view has no base
   (`zonelist.c:187`). It is returned and also stored in its slot, so a second thread gets
   it, too; there are then more releases than empty slots, and the release asserts. For a
   zone that is not in the list `zonelist_obtainresource()` asserts (`httpd.c:174`).
7. `tools_input()` changes the input view without a reset, so reading a zone again
   after it was signed runs into the assertion of `names_viewcommit()` (`views.c:566`).
8. `names_viewrestore()` reads the snapshot and not the journal; later appends
   overwrite the journal. The state file is only made when there is none. Records that are
   amended in place, as by a signing, are not journalled, and removals only as end marks
   (`views.c:577`).
9. A table of the commit log can be destroyed while another thread still processes it
   outside of the mutex (`commitlog.c:175`).
10. Only updated rows are verified (`dbw.c:1347`): `zone delete` racing the enforce task
    leaves a key without a zone; `zonelist import` and policy import with removal leave
    children behind. `generate_cb()` ignores the result of its commit.
11. Records: an NSEC still points to a deleted name until the name before it changes; a
    change that meets a failing HSM between linking and signing is not signed later;
    signing a record that is already signed runs into an assertion (`recordset.c:619`);
    `names_recorddeldata()` with a record deletes the first one that does not match.
    Run `zone_requests`: RPC_CHANGE_DELEGATION looks for names that begin with the owner
    and so leaves those below it (`index.c:291`), RPC_CHANGE_NAME leaves the types that
    the new records do not have (`httpd.c:82`).
12. RRsets: a key that is neither KSK nor ZSK signs the DNSKEY RRset; a key matched
    with a stale signature first signs again every time.
13. Tasks: a zone whose addition is overtaken by a second update of the zone list counts
    as updated, gets FORCESIGNCONF only, and has no task at all as long as there is no
    good signconf (`zonelist.c:479`, `engine.c:689`); `do_forcereadsignconf` without a
    signconf makes READ retry for ever; a WRITE performed late makes the retry of a failed
    SIGN wait for the resign interval; after a restart the counter serial can go back
    (`conf/kasp.rnc:155`); `datecounter` is always the date times 100 (`kasp.rnc:158`); a
    signconf written twice within a second is read once.
14. Transfers: a reading that meets an unfinished packet behind complete ones resets the
    view and drops them, with serial_xfr past them (`tools.c:157`); a cut transfer at the
    front of the file stops every reading until a retransfer, which empties the file of
    what was committed (`xfrd.c:530`) and, when it is cut in turn, is continued as IXFR; a
    write or an open that fails leaves a file with a gap; a whole zone that is read again
    adds records and removes none; a zone at serial 0 is not read. The waiting list for
    TCP is last in, first out (the comment says "wait, at end of line"); a failing
    `bind()` leaks a slot and forgets the waiting zone; a zone enabled for NOTIFY before
    its first message is counted twice; `.xfrd-state` is written and never read.
15. Policies: the export drops Passthrough and omits a Resalt of zero; duplicate keys in
    `kasp.xml` hide a stale policy key; checker and importer differ on MaxZoneTTL. A new
    salt length gets no new salt when it changed under Passthrough, when the import cannot
    read the database again, or when the commit of the salt fails
    (`policy_resalt_task.c:145`).
16. Zone lists: overlapping commands share temporary names and can lose or resurrect a
    zone; an import that removes every zone does not export; an adapter type "file" is
    accepted by the enforcer and makes the signer refuse the whole list; a list written
    again in the second in which the signer read it is not read (OPENDNSSEC-686).
17. Commands: an idle client blocks the stop of a daemon, which joins its thread; output
    that fills the buffer exactly is too big for the client. A command longer than the
    buffer ends the daemon at an assertion (`cmdhandler.c:182`) or is performed as its end
    only; the comment at line 159 says it "will be truncated".
18. DNS service: a query for the SOA opens a file that was already unlinked and is always
    answered SERVFAIL; an IXFR from the present serial is answered with two SOA records.
    `getxfr()` counts changes from a time read through `zone->xfrd`, which is NULL with a
    file adapter, and its list of deletions has records that are still there.
19. Tokens: of two threads that miss the same key in the cache one is told that there is
    none (`libhsm.c:3552`); a public key that could not be found once stays unknown in the
    cache; `ods-hsmutil test` leaves its ECDSA keys in the token. PINs: a process that dies
    with the semaphore makes all others wait until `ods-hsmutil logout`, and so does a
    logout between the two calls of `semget()` (`pin.c:104`); after an
    interrupted wait `hsm_prompt_pin()` gives back a unit it does not have.
20. Database: copies of lists return the first row twice; an SQLite error ends a list like
    its end (`db_result.c:358`); a failed MySQL reconnect leaves the connection unusable.

## 6. Not modelled

The list with reasons is in `PROJECT.json`: the text of DNS messages and queries that
are not for SOA or a transfer, encodings in libhsm, marshalling and backup files,
configuration parsers, listings and reports. In the modelled parts: shared keys and
passthrough policies in `Enforcer`, purging and IXFR in `ZoneRecords`, NSEC3.
