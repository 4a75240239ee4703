------------------------------- MODULE DbWait -------------------------------
(***************************************************************************)
(* The connections of the enforcer's threads to their database.            *)
(*                                                                         *)
(* SQLite locks the file for one writer, a thread of the enforcer or       *)
(* another process.  Who finds it locked is in the busy handler            *)
(* (db_backend_sqlite.c), which sleeps until a statement is finalized or a *)
(* short time has passed, and refuses once the statement's own time is     *)
(* over.  Clocks tick WPerSecond times a second; time(NULL) is in seconds. *)
(*                                                                         *)
(* A MySQL connection may be cut at any time; before each statement it is  *)
(* tried and made anew (db_backend_mysql.c).  The server gives a new       *)
(* connection no autocommit, and drops what a cut connection left open.    *)
(***************************************************************************)
EXTENDS Integers, FiniteSets

CONSTANTS
  WThreads,    \* the threads, each with a connection of its own
  WTimeout,    \* seconds a statement may wait
  WUsleep,     \* ticks the busy handler sleeps
  WPerSecond,  \* ticks per second
  WMaxTime,    \* bound on the clock
  WMaxWrites   \* bound on the statements of a MySQL connection

ASSUME DbWaitAssumption ==
  /\ WTimeout \in Nat \ {0} /\ WUsleep \in Nat \ {0}
  /\ WPerSecond \in Nat \ {0} /\ WMaxTime \in Nat /\ WMaxWrites \in Nat

VARIABLES
  wnow,      \* the clock, in ticks
  wlocked,   \* who has the file locked: a thread, "other" or "nobody"
  wstate,    \* of each thread
  wtime,     \* backend_sqlite->time
  wsleep,    \* until when a thread sleeps in the busy handler
  wbegan,    \* when the statement a thread waits with was stepped
  mserver,   \* the MySQL server is up
  mconn,     \* a MySQL connection: "none" (db is NULL), "cut" or "open"
  mauto,     \* it has autocommit
  mstep,     \* where the statement is: "idle" or "prepared"
  mopen,     \* rows written and not committed
  mstored,   \* rows committed
  mdone      \* rows whose writing was reported as done

sqlitevars == <<wnow, wlocked, wstate, wtime, wsleep, wbegan>>
mysqlvars == <<mserver, mconn, mauto, mstep, mopen, mstored, mdone>>
waitvars == <<sqlitevars, mysqlvars>>

WTime == wnow \div WPerSecond

(***************************************************************************)
(* SQLite                                                                  *)
(***************************************************************************)
\* __db_backend_sqlite_prepare: here too the time is taken.
sqlite_prepare(t) ==
  /\ wstate[t] = "idle"
  /\ wstate' = [wstate EXCEPT ![t] = "prepared"]
  /\ wtime' = [wtime EXCEPT ![t] = WTime]
  /\ UNCHANGED <<wnow, wlocked, wsleep, wbegan, mysqlvars>>

\* Mutant: the time of the step is not set.
sqlite_step_stale(t) ==
  /\ wstate[t] = "prepared"
  /\ wstate' = [wstate EXCEPT ![t] = "trying"]
  /\ wbegan' = [wbegan EXCEPT ![t] = wnow]
  /\ UNCHANGED <<wnow, wlocked, wtime, wsleep, mysqlvars>>

sqlite_step(t) ==
  /\ wstate[t] = "prepared"
  /\ wstate' = [wstate EXCEPT ![t] = "trying"]
  /\ wtime' = [wtime EXCEPT ![t] = WTime]
  /\ wbegan' = [wbegan EXCEPT ![t] = wnow]
  /\ UNCHANGED <<wnow, wlocked, wsleep, mysqlvars>>

\* Inside sqlite3_step: the lock is taken, or the busy handler called.
Locked(t) ==
  /\ wstate[t] = "trying" /\ wlocked = "nobody"
  /\ wlocked' = t
  /\ wstate' = [wstate EXCEPT ![t] = "writing"]
  /\ UNCHANGED <<wnow, wtime, wsleep, wbegan, mysqlvars>>

\* The lock is seen before the mutex is taken and the sleep begins.
Busy(t) ==
  /\ wstate[t] = "trying" /\ wlocked \notin {"nobody", t}
  /\ wstate' = [wstate EXCEPT ![t] = "busy"]
  /\ UNCHANGED <<wnow, wlocked, wtime, wsleep, wbegan, mysqlvars>>

busy_handler(t) ==
  /\ wstate[t] = "busy"
  /\ wstate' = [wstate EXCEPT ![t] = "asleep"]
  /\ wsleep' = [wsleep EXCEPT ![t] = wnow + WUsleep]
  /\ UNCHANGED <<wnow, wlocked, wtime, wbegan, mysqlvars>>

\* pthread_cond_timedwait gave ETIMEDOUT.
busy_handler_timed_out(t) ==
  /\ wstate[t] = "asleep" /\ wnow >= wsleep[t]
  /\ wstate' = [wstate EXCEPT ![t] =
       IF WTime < wtime[t] + WTimeout THEN "trying" ELSE "refused"]
  /\ UNCHANGED <<wnow, wlocked, wtime, wsleep, wbegan, mysqlvars>>

\* The statement is done and its lock released; then it is finalized, which
\* wakes all who sleep.
Unlocked(t) ==
  /\ wstate[t] = "writing"
  /\ wlocked' = "nobody"
  /\ wstate' = [wstate EXCEPT ![t] = "written"]
  /\ UNCHANGED <<wnow, wtime, wsleep, wbegan, mysqlvars>>

sqlite_finalize(t) ==
  /\ wstate[t] \in {"written", "refused"}
  /\ wstate' = [u \in WThreads |-> IF u = t THEN "idle"
                                   ELSE IF wstate[u] = "asleep" THEN "trying" ELSE wstate[u]]
  /\ UNCHANGED <<wnow, wlocked, wtime, wsleep, wbegan, mysqlvars>>

\* Another process locks the file, and tells nobody when it is done.
OtherProcess ==
  /\ wlocked \in {"nobody", "other"}
  /\ wlocked' = IF wlocked = "other" THEN "nobody" ELSE "other"
  /\ UNCHANGED <<wnow, wstate, wtime, wsleep, wbegan, mysqlvars>>

Tick ==
  /\ wnow < WMaxTime
  /\ \A t \in WThreads : wstate[t] = "asleep" => wnow < wsleep[t]
  /\ wnow' = wnow + 1
  /\ UNCHANGED <<wlocked, wstate, wtime, wsleep, wbegan, mysqlvars>>

(***************************************************************************)
(* MySQL                                                                   *)
(***************************************************************************)
\* The server goes down or comes back, or only the connection is cut; what
\* was not committed is gone.
Cut ==
  /\ mserver' \in BOOLEAN
  /\ mconn' = IF mconn = "open" THEN "cut" ELSE mconn
  /\ mopen' = IF mconn = "open" THEN 0 ELSE mopen
  /\ UNCHANGED <<mauto, mstep, mstored, mdone, sqlitevars>>

\* mysql_real_connect and mysql_autocommit.
mysql_connect ==
  /\ mconn = "none" /\ mstep = "idle" /\ mdone < WMaxWrites
  /\ mserver
  /\ mconn' = "open" /\ mauto' = TRUE
  /\ UNCHANGED <<mserver, mstep, mopen, mstored, mdone, sqlitevars>>

mysql_disconnect ==
  /\ mconn # "none" /\ mstep = "idle"
  /\ mconn' = "none" /\ mopen' = 0
  /\ UNCHANGED <<mserver, mauto, mstep, mstored, mdone, sqlitevars>>

\* The state and the autocommit of the connection after it was tried.
checkconnection ==
  CASE mconn = "open" -> <<"open", mauto>>
    [] mserver -> <<"open", TRUE>>
    [] OTHER -> <<"none", FALSE>>

\* __db_backend_mysql_prepare: after a failed reconnect db is NULL, and this
\* and every later statement fails.
mysql_prepare ==
  /\ mstep = "idle" /\ mconn # "none" /\ mdone < WMaxWrites /\ mstored < WMaxWrites
  /\ mconn' = checkconnection[1] /\ mauto' = checkconnection[2]
  /\ mstep' = IF mconn' = "open" THEN "prepared" ELSE "idle"
  /\ UNCHANGED <<mserver, mopen, mstored, mdone, sqlitevars>>

\* __db_backend_mysql_execute, and __db_backend_mysql_finish.  When the
\* connection is cut the statement may have reached the server.
mysql_execute ==
  /\ mstep = "prepared"
  /\ mstep' = "idle"
  /\ IF mconn # "open"
     THEN /\ mstored' \in {mstored} \cup (IF mauto THEN {mstored + 1} ELSE {})
          /\ UNCHANGED <<mopen, mdone>>
     ELSE /\ mdone' = mdone + 1
          /\ IF mauto THEN mstored' = mstored + 1 /\ UNCHANGED mopen
             ELSE mopen' = mopen + 1 /\ UNCHANGED mstored
  /\ UNCHANGED <<mserver, mconn, mauto, sqlitevars>>

WaitInit ==
  /\ wnow = 0 /\ wlocked = "nobody"
  /\ wstate = [t \in WThreads |-> "idle"]
  /\ wtime = [t \in WThreads |-> 0]
  /\ wsleep = [t \in WThreads |-> 0] /\ wbegan = [t \in WThreads |-> 0]
  /\ mserver = TRUE /\ mconn = "none" /\ mauto = FALSE /\ mstep = "idle"
  /\ mopen = 0 /\ mstored = 0 /\ mdone = 0

SqliteNext ==
  \/ \E t \in WThreads :
       \/ sqlite_prepare(t) \/ sqlite_step(t) \/ Locked(t) \/ Busy(t)
       \/ busy_handler(t) \/ busy_handler_timed_out(t) \/ Unlocked(t) \/ sqlite_finalize(t)
  \/ OtherProcess \/ Tick

MysqlNext == Cut \/ mysql_connect \/ mysql_disconnect \/ mysql_prepare \/ mysql_execute

WaitSpec == WaitInit /\ [][SqliteNext \/ MysqlNext]_waitvars

-----------------------------------------------------------------------------
\* A statement is refused as busy only after it could not get the lock for
\* its timeout, less the second time(NULL) rounds away, counted from its own
\* step and not from an earlier statement of the connection, however the
\* sleeps, the wakings of other threads and other processes fall.
NotRefusedEarly ==
  \A t \in WThreads : wstate[t] = "refused" =>
    wnow - wbegan[t] > (WTimeout - 1) * WPerSecond

\* What a statement reported as written is in the database for good, on the
\* first connection and after every reconnect: a cut connection takes nothing
\* with it that a thread believes stored.
ReportedIsStored == mstored >= mdone

\* A locked or cut connection neither refuses a statement too early
\* (sqlite) nor loses one that was reported as written (MySQL).
WaitSound == NotRefusedEarly /\ ReportedIsStored

=============================================================================
