----------------------------- MODULE RetryProofs -----------------------------
(***************************************************************************)
(* Proofs about the two places where the daemons try again for a bounded   *)
(* number of times: a statement that finds the database locked (DbWait)    *)
(* and a NOTIFY message that is not answered (Notify).                     *)
(*                                                                         *)
(* The database, for any number of threads, any timeout, sleep and         *)
(* resolution of the clock.  While a statement tries, sleeps or is         *)
(* refused, backend_sqlite->time is the second in which it was stepped; a  *)
(* refusal has seen the timeout's number of seconds begin since, so that   *)
(* all but one of them have passed in full.  A MySQL connection that is    *)
(* open always has autocommit.                                             *)
(*                                                                         *)
(* The messages, for any number of zones, secondaries, slots and retries.  *)
(* NotifyInv says of a zone in its round how many messages each secondary  *)
(* was sent: retry, the one it is at; none, the ones after it; and the     *)
(* ones before have replied or were sent all.  It keeps the waiting list   *)
(* without repetitions and notify_udp_num no smaller than the number of    *)
(* rounds, and equal to it when no zone is enabled during its round.       *)
(***************************************************************************)
EXTENDS DbWait, Notify, FiniteSetTheorems, TLAPS

---------------------------------------------------------------------------
(* The connections to the database. *)

\* The clocks, which the busy handler compares.
ClocksOK ==
  /\ wnow \in Nat
  /\ wstate \in [WThreads -> {"idle", "prepared", "trying", "busy", "asleep",
                              "writing", "written", "refused"}]
  /\ wtime \in [WThreads -> Nat] /\ wsleep \in [WThreads -> Nat]
  /\ wbegan \in [WThreads -> Nat]

\* The time of the connection is that of the statement it waits with.
OwnTime ==
  \A t \in WThreads : wstate[t] \in {"trying", "busy", "asleep", "refused"} =>
    /\ wtime[t] = wbegan[t] \div WPerSecond
    /\ wstate[t] = "refused" => WTime >= wtime[t] + WTimeout

\* What a MySQL connection has stored.
AutoCommitted ==
  /\ mstored \in Nat /\ mdone \in Nat /\ mauto \in BOOLEAN
  /\ mconn = "open" => mauto
  /\ mstored >= mdone

WInv == ClocksOK /\ OwnTime /\ AutoCommitted

\* Division, as time(NULL) makes seconds of ticks.
LEMMA Seconds ==
  ASSUME NEW n \in Nat, NEW p \in Nat \ {0}
  PROVE  n \div p \in Nat /\ p * (n \div p) <= n /\ n < p * (n \div p) + p
OBVIOUS

\* The seconds of a later time are no fewer.
LEMMA LaterSeconds ==
  ASSUME NEW n \in Nat, NEW p \in Nat \ {0}
  PROVE  (n + 1) \div p >= n \div p
OBVIOUS

\* Begun seconds and full seconds.
LEMMA FullSeconds ==
  ASSUME NEW a \in Nat, NEW b \in Nat, NEW p \in Nat \ {0}, NEW T \in Nat \ {0},
         b \div p >= a \div p + T
  PROVE  b - a > (T - 1) * p
<1> DEFINE x == a \div p
           y == b \div p
<1>1. x \in Nat /\ y \in Nat /\ a < p * x + p /\ p * y <= b
  BY Seconds, Zenon
<1>2. y >= x + T
  BY Zenon
<1> HIDE DEF x, y
<1>3. p * y >= p * (x + T)
  BY <1>1, <1>2
<1>4. p * (x + T) = p * x + p * T /\ (T - 1) * p = p * T - p
  BY <1>1
<1>5. p * x \in Nat /\ p * T \in Nat /\ p * y \in Nat /\ p * (x + T) \in Nat
  BY <1>1
<1> QED
  BY <1>1, <1>3, <1>4, <1>5

-----------------------------------------------------------------------------

\* Nothing is stepped or written yet.
LEMMA InitiallyWInv == WaitInit => WInv
<1> SUFFICES ASSUME WaitInit PROVE WInv
  BY Zenon
<1>1. ClocksOK
  BY Zenon DEF WaitInit, ClocksOK
<1>2. OwnTime
  BY Zenon DEF WaitInit, OwnTime
<1>3. AutoCommitted
  <2>1. mauto \in BOOLEAN /\ (mconn = "open" => mauto)
    BY Zenon DEF WaitInit
  <2>2. mstored \in Nat /\ mdone \in Nat /\ mstored >= mdone
    BY DEF WaitInit
  <2> QED
    BY <2>1, <2>2, Zenon DEF AutoCommitted
<1> QED
  BY <1>1, <1>2, <1>3, Zenon DEF WInv

\* The steps of SQLite.
LEMMA SqliteKept == WInv /\ SqliteNext => WInv'
<1> SUFFICES ASSUME WInv, SqliteNext PROVE WInv'
  BY Zenon
<1>a. ClocksOK /\ OwnTime /\ AutoCommitted
  BY Zenon DEF WInv
<1>b. WTime \in Nat
  BY <1>a, DbWaitAssumption, Seconds, Zenon DEF WTime, ClocksOK
<1>c. AutoCommitted'
  <2>1. UNCHANGED mysqlvars
    BY Zenon DEF SqliteNext, sqlite_prepare, sqlite_step, Locked, Busy, busy_handler,
           busy_handler_timed_out, Unlocked, sqlite_finalize, OtherProcess, Tick
  <2> QED
    BY <1>a, <2>1, Zenon DEF AutoCommitted, mysqlvars
<1>1. ASSUME NEW t \in WThreads, sqlite_prepare(t) PROVE WInv'
  <2>1. ClocksOK'
    BY <1>a, <1>b, <1>1, Zenon DEF ClocksOK, sqlite_prepare
  <2>2. OwnTime'
    BY <1>a, <1>1, Zenon DEF ClocksOK, OwnTime, sqlite_prepare, WTime
  <2> QED
    BY <1>c, <2>1, <2>2, Zenon DEF WInv
<1>2. ASSUME NEW t \in WThreads, sqlite_step(t) PROVE WInv'
  <2>1. ClocksOK'
    BY <1>a, <1>b, <1>2, Zenon DEF ClocksOK, sqlite_step
  <2>2. OwnTime'
    BY <1>a, <1>2, Zenon DEF ClocksOK, OwnTime, sqlite_step, WTime
  <2> QED
    BY <1>c, <2>1, <2>2, Zenon DEF WInv
<1>3. ASSUME NEW t \in WThreads, Locked(t) \/ Busy(t) \/ Unlocked(t) PROVE WInv'
  <2>1. ClocksOK'
    BY <1>a, <1>3, Zenon DEF ClocksOK, Locked, Busy, Unlocked
  <2>2. OwnTime'
    BY <1>a, <1>3, Zenon DEF ClocksOK, OwnTime, Locked, Busy, Unlocked, WTime
  <2> QED
    BY <1>c, <2>1, <2>2, Zenon DEF WInv
<1>4. ASSUME NEW t \in WThreads, busy_handler(t) PROVE WInv'
  <2>0. wnow + WUsleep \in Nat
    BY <1>a, DbWaitAssumption DEF ClocksOK
  <2>1. ClocksOK'
    BY <1>a, <1>4, <2>0, Zenon DEF ClocksOK, busy_handler
  <2>2. OwnTime'
    BY <1>a, <1>4, Zenon DEF ClocksOK, OwnTime, busy_handler, WTime
  <2> QED
    BY <1>c, <2>1, <2>2, Zenon DEF WInv
<1>5. ASSUME NEW t \in WThreads, busy_handler_timed_out(t) PROVE WInv'
  <2>1. ClocksOK'
    BY <1>a, <1>5, Zenon DEF ClocksOK, busy_handler_timed_out
  <2>2. wtime[t] \in Nat /\ wtime[t] = wbegan[t] \div WPerSecond
    BY <1>a, <1>5, Zenon DEF ClocksOK, OwnTime, busy_handler_timed_out
  <2>3. wstate'[t] = "refused" => WTime >= wtime[t] + WTimeout
    BY <1>a, <1>b, <1>5, <2>2, DbWaitAssumption DEF ClocksOK, busy_handler_timed_out
  <2>4. /\ UNCHANGED <<wnow, wtime, wbegan>>
        /\ \A u \in WThreads \ {t} : wstate'[u] = wstate[u]
    BY <1>a, <1>5, Zenon DEF ClocksOK, busy_handler_timed_out
  <2>5. OwnTime'
    BY <1>a, <2>2, <2>3, <2>4, Zenon DEF OwnTime, WTime
  <2> QED
    BY <1>c, <2>1, <2>5, Zenon DEF WInv
<1>6. ASSUME NEW t \in WThreads, sqlite_finalize(t) PROVE WInv'
  <2>1. ClocksOK'
    BY <1>a, <1>6, Zenon DEF ClocksOK, sqlite_finalize
  <2>2. OwnTime'
    BY <1>a, <1>6, Zenon DEF ClocksOK, OwnTime, sqlite_finalize, WTime
  <2> QED
    BY <1>c, <2>1, <2>2, Zenon DEF WInv
<1>7. CASE OtherProcess
  <2>1. ClocksOK' /\ OwnTime'
    BY <1>a, <1>7, Zenon DEF ClocksOK, OwnTime, OtherProcess, WTime
  <2> QED
    BY <1>c, <2>1, Zenon DEF WInv
<1>8. CASE Tick
  <2>1. ClocksOK' /\ UNCHANGED <<wstate, wtime, wbegan>>
    BY <1>a, <1>8 DEF ClocksOK, Tick
  <2>2. WTime' >= WTime /\ WTime' \in Nat
    BY <1>a, <1>8, DbWaitAssumption, LaterSeconds, Seconds DEF ClocksOK, Tick, WTime
  <2>3. \A t \in WThreads : wtime[t] + WTimeout \in Nat
    BY <1>a, DbWaitAssumption DEF ClocksOK
  <2>4. OwnTime'
    BY <1>a, <1>b, <2>1, <2>2, <2>3 DEF OwnTime
  <2> QED
    BY <1>c, <2>1, <2>4, Zenon DEF WInv
<1> QED
  BY <1>1, <1>2, <1>3, <1>4, <1>5, <1>6, <1>7, <1>8, Zenon DEF SqliteNext

\* The steps of MySQL.
LEMMA MysqlKept == WInv /\ MysqlNext => WInv'
<1> SUFFICES ASSUME WInv, MysqlNext PROVE WInv'
  BY Zenon
<1>1. UNCHANGED sqlitevars
  BY Zenon DEF MysqlNext, Cut, mysql_connect, mysql_disconnect, mysql_prepare, mysql_execute
<1>2. ClocksOK' /\ OwnTime'
  BY <1>1, Zenon DEF WInv, ClocksOK, OwnTime, WTime, sqlitevars
<1>3. AutoCommitted
  BY Zenon DEF WInv
<1>4. AutoCommitted'
  <2>1. CASE Cut \/ mysql_connect \/ mysql_disconnect
    BY <1>3, <2>1, Zenon DEF AutoCommitted, Cut, mysql_connect, mysql_disconnect
  <2>2. CASE mysql_prepare
    BY <1>3, <2>2, Zenon DEF AutoCommitted, mysql_prepare, checkconnection
  <2>3. CASE mysql_execute
    BY <1>3, <2>3 DEF AutoCommitted, mysql_execute
  <2> QED
    BY <2>1, <2>2, <2>3, Zenon DEF MysqlNext
<1> QED
  BY <1>2, <1>4, Zenon DEF WInv

\* The invariant is inductive.
LEMMA WInvKept == WInv /\ [SqliteNext \/ MysqlNext]_waitvars => WInv'
<1> SUFFICES ASSUME WInv, [SqliteNext \/ MysqlNext]_waitvars PROVE WInv'
  BY Zenon
<1>1. CASE UNCHANGED waitvars
  BY <1>1, Zenon DEF WInv, ClocksOK, OwnTime, AutoCommitted, WTime, waitvars, sqlitevars, mysqlvars
<1> QED
  BY <1>1, SqliteKept, MysqlKept, Zenon

\* No statement is refused as busy before its own timeout, less the second
\* that time(NULL) rounds away, and no row whose writing was reported is lost
\* with a connection: __db_backend_sqlite_busy_handler and the reconnect of
\* db_backend_mysql.c, for any number of threads and any timeout.
THEOREM WaitsAreSound == WaitSpec => []WaitSound
<1>1. WInv => WaitSound
  <2> SUFFICES ASSUME WInv PROVE NotRefusedEarly /\ ReportedIsStored
    BY Zenon DEF WaitSound
  <2>1. ReportedIsStored
    BY Zenon DEF WInv, AutoCommitted, ReportedIsStored
  <2>2. ASSUME NEW t \in WThreads, wstate[t] = "refused"
        PROVE  wnow - wbegan[t] > (WTimeout - 1) * WPerSecond
    <3>1. /\ wnow \in Nat /\ wbegan[t] \in Nat
          /\ wnow \div WPerSecond >= wbegan[t] \div WPerSecond + WTimeout
      BY <2>2, Zenon DEF WInv, ClocksOK, OwnTime, WTime
    <3> QED
      BY <3>1, DbWaitAssumption, FullSeconds, Zenon
  <2> QED
    BY <2>1, <2>2, Zenon DEF NotRefusedEarly
<1> QED
  BY <1>1, InitiallyWInv, WInvKept, PTL DEF WaitSpec

---------------------------------------------------------------------------
(* The rounds of NOTIFY messages. *)

NotifyFields == {"sec", "retry", "fd", "waiting", "timer", "num", "q", "acked",
                 "sent", "round"}

\* The states that the operators of notify.c work on.
StateOK(s) ==
  /\ DOMAIN s = NotifyFields
  /\ s.sec \in [NotifyZones -> 0 .. Secondaries]
  /\ s.retry \in [NotifyZones -> Nat]
  /\ s.fd \in [NotifyZones -> BOOLEAN]
  /\ s.waiting \in [NotifyZones -> BOOLEAN]
  /\ s.timer \in [NotifyZones -> BOOLEAN]
  /\ s.num \in Int /\ s.q \in Seq(NotifyZones)
  /\ s.acked \in [NotifyZones -> SUBSET (1 .. Secondaries)]
  /\ s.sent \in [NotifyZones -> [1 .. Secondaries -> Nat]]
  /\ s.round \in [NotifyZones -> BOOLEAN]

InRound(s, z) == s.sec[z] # 0 /\ ~s.waiting[z]

Rounds(s) == {z \in NotifyZones : InRound(s, z)}

\* Secondary k of zone z has replied or was sent all the messages.
Told(s, z, k) == k \in s.acked[z] \/ s.sent[z][k] = NotifyRetry

\* The round of a zone: the messages to the present secondary are counted by
\* retry, those before have been told, those after have not been sent any.
RoundOK(s, z) ==
  /\ s.timer[z] /\ s.round[z]
  /\ s.sent[z][s.sec[z]] = s.retry[z]
  /\ \A k \in 1 .. Secondaries :
       /\ k > s.sec[z] => s.sent[z][k] = 0
       /\ k < s.sec[z] => Told(s, z, k)

ZoneGood(s, z) ==
  /\ s.retry[z] <= NotifyRetry
  /\ \A k \in 1 .. Secondaries : s.sent[z][k] <= NotifyRetry
  /\ s.waiting[z] => s.sec[z] # 0
  /\ s.fd[z] => InRound(s, z)
  /\ s.timer[z] => InRound(s, z)
  /\ InRound(s, z) => RoundOK(s, z)
  /\ s.sec[z] = 0 /\ s.round[z] => \A k \in 1 .. Secondaries : Told(s, z, k)

Distinct(q) == \A i, j \in 1 .. Len(q) : q[i] = q[j] => i = j

OnList(q, z) == \E i \in 1 .. Len(q) : q[i] = z

\* The waiting list has the waiting zones, each once.
QueueOK(s) ==
  /\ Distinct(s.q)
  /\ \A z \in NotifyZones : s.waiting[z] <=> OnList(s.q, z)

\* notify_udp_num counts the rounds under way, or more when zones are enabled
\* again; it is at its limit when zones wait.
CountOK(r, s) ==
  /\ s.num <= NotifyMax
  /\ s.num >= Cardinality(Rounds(s))
  /\ ~r => s.num = Cardinality(Rounds(s))
  /\ \A z \in NotifyZones : s.waiting[z] => s.num = NotifyMax

NotifyGood(r, s) ==
  /\ StateOK(s)
  /\ \A z \in NotifyZones : ZoneGood(s, z)
  /\ QueueOK(s) /\ CountOK(r, s)

NotifyInv == reenable \in Reenables /\ NotifyGood(reenable, ns)

---------------------------------------------------------------------------
(* What the operators change. *)

\* Zone u has the same in states s and t.
SameZone(s, t, u) ==
  /\ t.sec[u] = s.sec[u] /\ t.retry[u] = s.retry[u] /\ t.fd[u] = s.fd[u]
  /\ t.waiting[u] = s.waiting[u] /\ t.timer[u] = s.timer[u]
  /\ t.acked[u] = s.acked[u] /\ t.sent[u] = s.sent[u]
  /\ t.round[u] = s.round[u]

LEMMA SameGood ==
  ASSUME NEW s, NEW t, NEW u, SameZone(s, t, u)
  PROVE  /\ InRound(t, u) <=> InRound(s, u)
         /\ ZoneGood(s, u) => ZoneGood(t, u)
<1>1. InRound(t, u) <=> InRound(s, u)
  BY Zenon DEF SameZone, InRound
<1>2. \A k : Told(s, u, k) => Told(t, u, k)
  BY Zenon DEF SameZone, Told
<1>3. RoundOK(s, u) => RoundOK(t, u)
  BY <1>2, Zenon DEF RoundOK, SameZone
<1> QED
  BY <1>1, <1>2, <1>3, Zenon DEF ZoneGood, SameZone

\* A step of zone z that keeps it busy leaves the other zones, the waiting
\* list and the count as they are.
LEMMA FrameGood ==
  ASSUME NEW r, NEW s, NotifyGood(r, s), NEW t, StateOK(t),
         NEW z \in NotifyZones, InRound(s, z), InRound(t, z), ZoneGood(t, z),
         t.num = s.num, t.q = s.q,
         \A u \in NotifyZones \ {z} : SameZone(s, t, u)
  PROVE  NotifyGood(r, t)
<1>1. StateOK(s) /\ QueueOK(s) /\ CountOK(r, s)
      /\ \A u \in NotifyZones : ZoneGood(s, u)
  BY Zenon DEF NotifyGood
<1>2. \A u \in NotifyZones : ZoneGood(t, u) /\ (InRound(t, u) <=> InRound(s, u))
  BY <1>1, SameGood, Zenon
<1>3. \A u \in NotifyZones : t.waiting[u] <=> s.waiting[u]
  BY Zenon DEF InRound, SameZone
<1>4. Rounds(t) = Rounds(s)
  BY <1>2, Zenon DEF Rounds
<1>5. QueueOK(t)
  BY <1>1, <1>3, Zenon DEF QueueOK
<1>6. CountOK(r, t)
  BY <1>1, <1>3, <1>4, Zenon DEF CountOK
<1> QED
  BY <1>2, <1>5, <1>6, Zenon DEF NotifyGood

\* A reply is counted.
LEMMA AckGood ==
  ASSUME NEW r, NEW s, NotifyGood(r, s), NEW z \in NotifyZones, InRound(s, z),
         NEW t, t = [s EXCEPT !.acked[z] = @ \cup {s.sec[z]}]
  PROVE  NotifyGood(r, t) /\ InRound(t, z) /\ Told(t, z, t.sec[z])
<1>1. StateOK(s) /\ ZoneGood(s, z)
  BY Zenon DEF NotifyGood
<1>2. s.sec[z] \in 1 .. Secondaries
  BY <1>1, NotifyAssumption DEF StateOK, InRound
<1>3. StateOK(t)
  BY <1>1, <1>2, Zenon DEF StateOK, NotifyFields
<1>4. /\ t.sec = s.sec /\ t.retry = s.retry /\ t.fd = s.fd
      /\ t.waiting = s.waiting /\ t.timer = s.timer /\ t.num = s.num
      /\ t.q = s.q /\ t.sent = s.sent /\ t.round = s.round
      /\ t.acked = [s.acked EXCEPT ![z] = @ \cup {s.sec[z]}]
  BY <1>1, Zenon DEF StateOK, NotifyFields
<1>5. /\ t.acked[z] = s.acked[z] \cup {s.sec[z]}
      /\ \A u \in NotifyZones \ {z} : t.acked[u] = s.acked[u]
  BY <1>1, <1>4 DEF StateOK
<1>6. InRound(t, z) /\ Told(t, z, t.sec[z])
  BY <1>4, <1>5, Zenon DEF InRound, Told
<1>7. \A k : Told(s, z, k) => Told(t, z, k)
  BY <1>4, <1>5, Zenon DEF Told
<1>8. ZoneGood(t, z)
  BY <1>1, <1>4, <1>6, <1>7 DEF ZoneGood, InRound, RoundOK
<1>9. NotifyGood(r, t)
  BY <1>3, <1>4, <1>5, <1>6, <1>8, FrameGood, Zenon DEF SameZone
<1> QED
  BY <1>6, <1>9, Zenon

\* notify_send, when the present secondary can be sent another message.
LEMMA SendGood ==
  ASSUME NEW r, NEW s, NotifyGood(r, s), NEW z \in NotifyZones, InRound(s, z),
         s.retry[z] < NotifyRetry, NEW g \in BOOLEAN, NEW t,
         t = notify_send([s EXCEPT !.retry[z] = @ + 1], z, g)
  PROVE  NotifyGood(r, t)
<1>1. StateOK(s) /\ ZoneGood(s, z)
  BY Zenon DEF NotifyGood
<1>2. /\ s.sec[z] \in 1 .. Secondaries /\ s.retry[z] \in Nat
      /\ s.sent[z] \in [1 .. Secondaries -> Nat] /\ NotifyRetry \in Nat
      /\ Secondaries \in Nat
  BY <1>1, NotifyAssumption DEF StateOK, InRound
<1>3. StateOK(t)
  BY <1>1, <1>2 DEF StateOK, NotifyFields, notify_send
<1>4. /\ t.sec = s.sec /\ t.waiting = s.waiting /\ t.timer = s.timer
      /\ t.num = s.num /\ t.q = s.q /\ t.acked = s.acked /\ t.round = s.round
      /\ t.retry = [s.retry EXCEPT ![z] = @ + 1]
      /\ t.fd = [s.fd EXCEPT ![z] = g]
      /\ t.sent = [s.sent EXCEPT ![z] = [s.sent[z] EXCEPT ![s.sec[z]] = @ + 1]]
  BY <1>1, Zenon DEF StateOK, NotifyFields, notify_send
<1>5. /\ t.retry[z] = s.retry[z] + 1
      /\ t.sent[z] = [s.sent[z] EXCEPT ![s.sec[z]] = @ + 1]
  BY <1>1, <1>4, Zenon DEF StateOK
<1>6. \A u \in NotifyZones \ {z} : SameZone(s, t, u)
  BY <1>1, <1>4, Zenon DEF StateOK, SameZone
<1>7. InRound(t, z)
  BY <1>4, Zenon DEF InRound
<1> DEFINE j == s.sec[z]
           a == s.sent[z]
           b == t.sent[z]
<1>8. /\ j \in 1 .. Secondaries /\ a \in [1 .. Secondaries -> Nat]
      /\ b = [a EXCEPT ![j] = @ + 1] /\ t.sec[z] = j /\ t.acked[z] = s.acked[z]
  BY <1>2, <1>4, <1>5, Zenon
<1>9. /\ a[j] = s.retry[z]
      /\ \A k \in 1 .. Secondaries : /\ a[k] <= NotifyRetry
                                     /\ k > j => a[k] = 0
                                     /\ k < j => Told(s, z, k)
  BY <1>1, Zenon DEF ZoneGood, RoundOK
<1> HIDE DEF j, a
<1>10. /\ b[j] = t.retry[z]
       /\ \A k \in 1 .. Secondaries : b[k] <= NotifyRetry /\ (k > j => b[k] = 0)
  <2>1. b[j] = t.retry[z] /\ b[j] <= NotifyRetry
    BY <1>2, <1>5, <1>8, <1>9, SMTT(30)
  <2>2. ASSUME NEW k \in 1 .. Secondaries, k # j
        PROVE  b[k] = a[k]
    BY <1>8, <2>2, Zenon
  <2> HIDE DEF b
  <2> QED
    BY <1>2, <1>8, <1>9, <2>1, <2>2
<1>11. ASSUME NEW k \in 1 .. Secondaries, k < j PROVE Told(t, z, k)
  <2>1. k # j /\ Told(s, z, k)
    BY <1>2, <1>8, <1>9, <1>11
  <2>2. t.sent[z][k] = s.sent[z][k]
    BY <1>8, <2>1, Zenon DEF a
  <2> QED
    BY <1>8, <2>1, <2>2, Zenon DEF Told
<1>12. RoundOK(t, z)
  BY <1>1, <1>4, <1>8, <1>10, <1>11, Zenon DEF RoundOK, ZoneGood
<1>13. t.retry[z] <= NotifyRetry
  BY <1>2, <1>5
<1>14. ZoneGood(t, z)
  BY <1>7, <1>10, <1>12, <1>13, Zenon DEF ZoneGood, InRound
<1> QED
  BY <1>3, <1>4, <1>6, <1>7, <1>14, FrameGood, Zenon

\* State p is s, but for the count of messages of zone z.
ButRetry(s, p, z) ==
  /\ StateOK(p)
  /\ p.sec = s.sec /\ p.fd = s.fd /\ p.waiting = s.waiting
  /\ p.timer = s.timer /\ p.num = s.num /\ p.q = s.q /\ p.acked = s.acked
  /\ p.sent = s.sent /\ p.round = s.round
  /\ \A u \in NotifyZones \ {z} : p.retry[u] = s.retry[u]

\* notify_next, when the present secondary was told and there is another.
LEMMA NextGood ==
  ASSUME NEW r, NEW s, NotifyGood(r, s), NEW z \in NotifyZones, InRound(s, z),
         Told(s, z, s.sec[z]), s.sec[z] # Secondaries,
         NEW p, ButRetry(s, p, z), NEW t, t = notify_next(p, z)
  PROVE  NotifyGood(r, t) /\ InRound(t, z) /\ t.retry[z] = 0
<1>1. StateOK(s) /\ ZoneGood(s, z) /\ StateOK(p)
  BY Zenon DEF NotifyGood, ButRetry
<1>2. /\ s.sec[z] \in 1 .. Secondaries - 1 /\ NotifyRetry \in Nat
      /\ s.sent[z] \in [1 .. Secondaries -> Nat] /\ Secondaries \in Nat
  BY <1>1, NotifyAssumption, SMTT(30) DEF StateOK, InRound
<1>3. t = [p EXCEPT !.sec[z] = @ + 1, !.retry[z] = 0]
  BY Zenon DEF notify_next, ButRetry
<1>4. /\ t.sec = [s.sec EXCEPT ![z] = @ + 1]
      /\ t.retry = [p.retry EXCEPT ![z] = 0]
      /\ t.fd = s.fd /\ t.waiting = s.waiting /\ t.timer = s.timer
      /\ t.num = s.num /\ t.q = s.q /\ t.acked = s.acked /\ t.sent = s.sent
      /\ t.round = s.round
  BY <1>1, <1>3 DEF StateOK, NotifyFields, ButRetry
<1>5. StateOK(t)
  <2>1. DOMAIN t = NotifyFields
    BY <1>1, <1>3, Zenon DEF StateOK
  <2>2. s.sec[z] + 1 \in 0 .. Secondaries
    BY <1>2, SMTT(20)
  <2>3. t.sec \in [NotifyZones -> 0 .. Secondaries]
    BY <1>1, <1>4, <2>2 DEF StateOK
  <2>4. t.retry \in [NotifyZones -> Nat]
    BY <1>1, <1>4 DEF StateOK
  <2> QED
    BY <1>1, <1>4, <2>1, <2>3, <2>4, Zenon DEF StateOK
<1>6. t.sec[z] = s.sec[z] + 1 /\ t.retry[z] = 0
  BY <1>1, <1>4, Zenon DEF StateOK
<1>7. InRound(t, z)
  BY <1>2, <1>4, <1>6 DEF InRound
<1>8. \A u \in NotifyZones \ {z} : SameZone(s, t, u)
  BY <1>1, <1>4 DEF StateOK, SameZone, ButRetry
<1>9. RoundOK(s, z) /\ \A k : Told(s, z, k) => Told(t, z, k)
  BY <1>1, <1>4, Zenon DEF ZoneGood, Told
<1>10. RoundOK(t, z)
  <2> DEFINE j == s.sec[z]
             a == s.sent[z]
  <2>1. /\ \A k \in 1 .. Secondaries : k > j => a[k] = 0
        /\ \A k \in 1 .. Secondaries : k < j => Told(s, z, k)
        /\ Told(s, z, j) /\ t.sec[z] = j + 1 /\ t.sent[z] = a
        /\ j \in 1 .. Secondaries - 1
    BY <1>2, <1>4, <1>6, <1>9, Zenon DEF RoundOK
  <2> HIDE DEF j, a
  <2>2. \A k \in 1 .. Secondaries : k < j + 1 => Told(t, z, k)
    <3>1. \A k \in 1 .. Secondaries : k < j + 1 => k < j \/ k = j
      BY <1>2, <2>1
    <3> QED
      BY <1>9, <2>1, <3>1, Zenon
  <2>3. a[j + 1] = 0 /\ \A k \in 1 .. Secondaries : k > j + 1 => a[k] = 0
    BY <1>2, <2>1, SMTT(30)
  <2> QED
    BY <1>4, <1>6, <1>9, <2>1, <2>2, <2>3 DEF RoundOK
<1>11. ZoneGood(t, z)
  BY <1>1, <1>2, <1>4, <1>6, <1>7, <1>10 DEF ZoneGood, InRound
<1> QED
  BY <1>4, <1>5, <1>6, <1>7, <1>8, <1>11, FrameGood, Zenon

\* There are finitely many rounds under way.
LEMMA RoundsFinite ==
  ASSUME NEW s
  PROVE  IsFiniteSet(Rounds(s)) /\ Cardinality(Rounds(s)) \in Nat
<1>1. IsFiniteSet(Rounds(s))
  BY NotifyAssumption, FS_Subset, Zenon DEF Rounds
<1> QED
  BY <1>1, FS_CardinalityType, Zenon

\* State e is s with the round of zone z ended.
Ended(s, e, z) ==
  /\ StateOK(e) /\ e.sec[z] = 0 /\ e.retry[z] = 0 /\ ~e.timer[z] /\ ~e.fd[z]
  /\ e.waiting = s.waiting /\ e.num = s.num /\ e.q = s.q /\ e.acked = s.acked
  /\ e.sent = s.sent /\ e.round = s.round
  /\ \A u \in NotifyZones \ {z} : SameZone(s, e, u)

\* What notify_disable then does: the first zone that waits begins, or the
\* count comes down.
Pending(e) == e.num = NotifyMax /\ e.q # <<>>

Wake(e) ==
  notify_setup([e EXCEPT !.waiting[Head(e.q)] = FALSE, !.q = Tail(@)],
               Head(e.q))

Lower(e) == [e EXCEPT !.num = @ - 1]

LEMMA NextEnds ==
  ASSUME NEW r, NEW s, NotifyGood(r, s), NEW z \in NotifyZones, InRound(s, z),
         s.sec[z] = Secondaries, NEW p, ButRetry(s, p, z)
  PROVE  \E e : /\ Ended(s, e, z)
                /\ notify_next(p, z) = IF Pending(e) THEN Wake(e) ELSE Lower(e)
<1>1. StateOK(s) /\ StateOK(p) /\ Secondaries \in Nat
  BY NotifyAssumption, Zenon DEF NotifyGood, ButRetry
<1> DEFINE a == [p EXCEPT !.sec[z] = 0, !.retry[z] = 0]
           e == [a EXCEPT !.sec[z] = 0, !.timer[z] = FALSE, !.fd[z] = FALSE]
<1>2. notify_next(p, z) = notify_disable(a, z)
  BY Zenon DEF notify_next, ButRetry
<1>3. /\ DOMAIN a = NotifyFields /\ a.sec = [s.sec EXCEPT ![z] = 0]
      /\ a.retry = [p.retry EXCEPT ![z] = 0] /\ a.fd = s.fd
      /\ a.waiting = s.waiting /\ a.timer = s.timer /\ a.num = s.num
      /\ a.q = s.q /\ a.acked = s.acked /\ a.sent = s.sent
      /\ a.round = s.round
  BY <1>1, Zenon DEF StateOK, NotifyFields, ButRetry
<1>4. notify_disable(a, z) = IF Pending(e) THEN Wake(e) ELSE Lower(e)
  BY Zenon DEF notify_disable, Pending, Wake, Lower
<1> HIDE DEF a
<1>5. /\ DOMAIN e = NotifyFields /\ e.sec = [a.sec EXCEPT ![z] = 0]
      /\ e.retry = a.retry /\ e.fd = [a.fd EXCEPT ![z] = FALSE]
      /\ e.waiting = a.waiting /\ e.timer = [a.timer EXCEPT ![z] = FALSE]
      /\ e.num = a.num /\ e.q = a.q /\ e.acked = a.acked
      /\ e.sent = a.sent /\ e.round = a.round
  BY <1>3, Zenon DEF NotifyFields
<1> HIDE DEF e
<1>6. StateOK(e)
  <2>1. /\ s.sec \in [NotifyZones -> 0 .. Secondaries]
        /\ p.retry \in [NotifyZones -> Nat] /\ s.fd \in [NotifyZones -> BOOLEAN]
        /\ s.timer \in [NotifyZones -> BOOLEAN]
    BY <1>1, Zenon DEF StateOK
  <2>2. e.sec \in [NotifyZones -> 0 .. Secondaries]
    BY <1>1, <1>3, <1>5, <2>1
  <2>3. /\ e.retry \in [NotifyZones -> Nat] /\ e.fd \in [NotifyZones -> BOOLEAN]
        /\ e.timer \in [NotifyZones -> BOOLEAN]
    BY <1>3, <1>5, <2>1
  <2> QED
    BY <1>1, <1>3, <1>5, <2>2, <2>3, Zenon DEF StateOK
<1>7. Ended(s, e, z)
  BY <1>1, <1>3, <1>5, <1>6, SMTT(20) DEF StateOK, Ended, SameZone, ButRetry
<1> QED
  BY <1>2, <1>4, <1>7, Zenon

\* A zone that is told of the end of its round.
LEMMA EndedGood ==
  ASSUME NEW r, NEW s, NotifyGood(r, s), NEW z \in NotifyZones, InRound(s, z),
         \A k \in 1 .. Secondaries : Told(s, z, k), NEW e, Ended(s, e, z)
  PROVE  /\ \A u \in NotifyZones : ZoneGood(e, u)
         /\ QueueOK(e) /\ Rounds(e) = Rounds(s) \ {z}
         /\ Cardinality(Rounds(e)) = Cardinality(Rounds(s)) - 1
<1>1. StateOK(s) /\ QueueOK(s) /\ \A u \in NotifyZones : ZoneGood(s, u)
  BY Zenon DEF NotifyGood
<1>2. NotifyRetry \in Nat
  BY NotifyAssumption, Zenon
<1>3. \A u \in NotifyZones \ {z} : ZoneGood(e, u) /\ (InRound(e, u) <=> InRound(s, u))
  BY <1>1, SameGood, Zenon DEF Ended
<1>4. ~InRound(e, z) /\ \A k : Told(s, z, k) => Told(e, z, k)
  BY Zenon DEF Ended, InRound, Told
<1>5. ~e.waiting[z]
  BY Zenon DEF Ended, InRound
<1>6. ZoneGood(e, z)
  <2>1. ZoneGood(s, z)
    BY <1>1, Zenon
  <2>2. \A k \in 1 .. Secondaries : e.sent[z][k] <= NotifyRetry /\ Told(e, z, k)
    BY <1>4, <2>1, Zenon DEF Ended, ZoneGood
  <2>3. e.retry[z] <= NotifyRetry
    BY <1>2 DEF Ended
  <2> QED
    BY <1>4, <1>5, <2>2, <2>3, Zenon DEF Ended, ZoneGood
<1>7. QueueOK(e)
  BY <1>1, Zenon DEF QueueOK, Ended
<1>8. Rounds(e) = Rounds(s) \ {z}
  BY <1>3, <1>4, Zenon DEF Rounds
<1>9. IsFiniteSet(Rounds(s)) /\ z \in Rounds(s)
  BY RoundsFinite, Zenon DEF Rounds
<1>10. Cardinality(Rounds(s) \ {z}) = Cardinality(Rounds(s)) - 1
  BY <1>9, FS_RemoveElement, Zenon
<1> QED
  BY <1>3, <1>6, <1>7, <1>8, <1>10, Zenon

\* No zone waits: the count comes down.
LEMMA LastGood ==
  ASSUME NEW r, NEW s, NotifyGood(r, s), NEW z \in NotifyZones, InRound(s, z),
         \A k \in 1 .. Secondaries : Told(s, z, k), NEW e, Ended(s, e, z),
         ~Pending(e), NEW t, t = Lower(e)
  PROVE  NotifyGood(r, t) /\ t.sec[z] = 0
<1>1. /\ \A u \in NotifyZones : ZoneGood(e, u)
      /\ QueueOK(e) /\ StateOK(e) /\ StateOK(s) /\ CountOK(r, s)
      /\ Cardinality(Rounds(e)) = Cardinality(Rounds(s)) - 1
  BY EndedGood, Zenon DEF Ended, NotifyGood
<1>2. /\ t.num = s.num - 1 /\ t.sec = e.sec /\ t.retry = e.retry /\ t.fd = e.fd
      /\ t.waiting = e.waiting /\ t.timer = e.timer /\ t.q = e.q
      /\ t.acked = e.acked /\ t.sent = e.sent /\ t.round = e.round
      /\ DOMAIN t = NotifyFields
  <2>1. DOMAIN e = NotifyFields /\ e.num = s.num
    BY <1>1, Zenon DEF Ended, StateOK
  <2> QED
    BY <2>1, Zenon DEF NotifyFields, Lower
<1>3. StateOK(t)
  <2>1. t.num \in Int
    BY <1>1, <1>2 DEF StateOK
  <2> QED
    BY <1>1, <1>2, <2>1, Zenon DEF StateOK
<1>4. \A u \in NotifyZones : SameZone(e, t, u)
  BY <1>2, Zenon DEF SameZone
<1>5. \A u \in NotifyZones : ZoneGood(t, u) /\ (InRound(t, u) <=> InRound(e, u))
  BY <1>1, <1>4, SameGood, Zenon
<1>6. Rounds(t) = Rounds(e)
  BY <1>5, Zenon DEF Rounds
<1>7. QueueOK(t)
  BY <1>1, <1>2, Zenon DEF QueueOK
<1>8. \A u \in NotifyZones : ~e.waiting[u]
  <2> SUFFICES ASSUME NEW u \in NotifyZones, e.waiting[u] PROVE FALSE
    BY Zenon
  <2>1. s.num = NotifyMax
    BY <1>1, Zenon DEF CountOK, Ended
  <2>2. e.q # <<>>
    BY <1>1 DEF QueueOK, OnList
  <2> QED
    BY <2>1, <2>2, Zenon DEF Ended, Pending
<1>9. CountOK(r, t)
  <2>1. Cardinality(Rounds(s)) \in Nat /\ s.num \in Int /\ NotifyMax \in Nat
    BY <1>1, RoundsFinite, NotifyAssumption, Zenon DEF StateOK
  <2> QED
    BY <1>1, <1>2, <1>6, <1>8, <2>1 DEF CountOK
<1> QED
  BY <1>2, <1>3, <1>5, <1>7, <1>9, Zenon DEF NotifyGood, Ended

\* The waiting list without its first zone.
LEMMA TailFacts ==
  ASSUME NEW S, NEW q \in Seq(S), q # <<>>
  PROVE  /\ Len(q) \in Nat /\ Len(q) >= 1 /\ Head(q) = q[1] /\ Head(q) \in S
         /\ Tail(q) \in Seq(S) /\ Len(Tail(q)) = Len(q) - 1
         /\ \A i \in 1 .. Len(Tail(q)) : Tail(q)[i] = q[i + 1]
OBVIOUS

LEMMA TailDistinct ==
  ASSUME NEW S, NEW q \in Seq(S), q # <<>>, Distinct(q)
  PROVE  /\ Distinct(Tail(q))
         /\ \A u \in S : OnList(Tail(q), u) <=> u # Head(q) /\ OnList(q, u)
<1> DEFINE t == Tail(q)
<1>1. /\ Len(q) \in Nat /\ Len(q) >= 1 /\ Head(q) = q[1]
      /\ Len(t) = Len(q) - 1 /\ \A i \in 1 .. Len(t) : t[i] = q[i + 1]
  BY TailFacts, Zenon
<1>8. \A i, j \in 1 .. Len(q) : q[i] = q[j] => i = j
  BY Zenon DEF Distinct
<1> HIDE DEF t
<1>2. ASSUME NEW i \in 1 .. Len(t), NEW j \in 1 .. Len(t), t[i] = t[j]
      PROVE  i = j
  <2>1. i + 1 \in 1 .. Len(q) /\ j + 1 \in 1 .. Len(q) /\ q[i + 1] = q[j + 1]
    BY <1>1, <1>2
  <2>2. i + 1 = j + 1
    BY <1>8, <2>1, Zenon
  <2> QED
    BY <1>1, <2>2
<1>3. ASSUME NEW i \in 1 .. Len(t)
      PROVE  t[i] # Head(q) /\ i + 1 \in 1 .. Len(q) /\ t[i] = q[i + 1]
  <2>1. i + 1 \in 1 .. Len(q) /\ 1 \in 1 .. Len(q) /\ i + 1 # 1
        /\ t[i] = q[i + 1]
    BY <1>1
  <2> QED
    BY <1>1, <1>8, <2>1, Zenon
<1>4. ASSUME NEW i \in 1 .. Len(q), q[i] # Head(q)
      PROVE  i - 1 \in 1 .. Len(t) /\ t[i - 1] = q[i]
  <2>1. i # 1 /\ i - 1 \in 1 .. Len(t) /\ (i - 1) + 1 = i
    BY <1>1, <1>4
  <2> QED
    BY <1>1, <2>1, Zenon
<1>5. ASSUME NEW u \in S
      PROVE  (\E i \in 1 .. Len(t) : t[i] = u)
             <=> u # Head(q) /\ \E i \in 1 .. Len(q) : q[i] = u
  <2>1. ASSUME NEW i \in 1 .. Len(t), t[i] = u
        PROVE  u # Head(q) /\ \E k \in 1 .. Len(q) : q[k] = u
    BY <1>3, <2>1, Zenon
  <2>2. ASSUME NEW i \in 1 .. Len(q), q[i] = u, u # Head(q)
        PROVE  \E k \in 1 .. Len(t) : t[k] = u
    BY <1>4, <2>2, Zenon
  <2> QED
    BY <2>1, <2>2, Zenon
<1>6. \A i, j \in 1 .. Len(t) : t[i] = t[j] => i = j
  BY <1>2, Zenon
<1>7. \A u \in S : (\E i \in 1 .. Len(t) : t[i] = u)
           <=> u # Head(q) /\ \E i \in 1 .. Len(q) : q[i] = u
  BY <1>5, Zenon
<1> QED
  BY <1>6, <1>7, Zenon DEF Distinct, OnList, t

\* State t is f with the round of zone h begun.
Begun(f, t, h) ==
  /\ StateOK(t) /\ t.num = f.num /\ t.q = f.q /\ t.waiting = f.waiting
  /\ InRound(t, h) /\ ZoneGood(t, h)
  /\ \A u \in NotifyZones \ {h} : SameZone(f, t, u)

LEMMA SetupZone ==
  ASSUME NEW f, StateOK(f), NEW h \in NotifyZones, ~f.waiting[h], NEW t,
         t = notify_setup(f, h)
  PROVE  Begun(f, t, h)
<1>1. NotifyRetry \in Nat /\ Secondaries \in Nat \ {0}
  BY NotifyAssumption, Zenon
<1>2. /\ t.retry = [f.retry EXCEPT ![h] = 0] /\ t.sec = [f.sec EXCEPT ![h] = 1]
      /\ t.timer = [f.timer EXCEPT ![h] = TRUE] /\ t.fd = f.fd
      /\ t.waiting = f.waiting /\ t.num = f.num /\ t.q = f.q
      /\ t.acked = [f.acked EXCEPT ![h] = {}]
      /\ t.sent = [f.sent EXCEPT ![h] = [k \in 1 .. Secondaries |-> 0]]
      /\ t.round = [f.round EXCEPT ![h] = TRUE] /\ DOMAIN t = NotifyFields
  BY Zenon DEF notify_setup, StateOK, NotifyFields
<1>3. StateOK(t)
  BY <1>1, <1>2, SMTT(20) DEF StateOK
<1>4. \A u \in NotifyZones \ {h} : SameZone(f, t, u)
  BY <1>2 DEF StateOK, SameZone
<1>5. /\ t.retry[h] = 0 /\ t.sec[h] = 1 /\ t.timer[h] /\ t.round[h]
      /\ \A k \in 1 .. Secondaries : t.sent[h][k] = 0
  BY <1>2 DEF StateOK
<1>6. InRound(t, h)
  BY <1>2, <1>5 DEF InRound
<1>7. RoundOK(t, h)
  BY <1>1, <1>5 DEF RoundOK
<1>8. ZoneGood(t, h)
  BY <1>1, <1>5, <1>6, <1>7 DEF ZoneGood, InRound
<1> QED
  BY <1>2, <1>3, <1>4, <1>6, <1>8, Zenon DEF Begun

\* The first zone that waits begins its round.
LEMMA WokenGood ==
  ASSUME NEW r, NEW s, NotifyGood(r, s), NEW z \in NotifyZones, InRound(s, z),
         \A k \in 1 .. Secondaries : Told(s, z, k), NEW e, Ended(s, e, z),
         Pending(e), NEW t, t = Wake(e)
  PROVE  NotifyGood(r, t) /\ t.sec[z] = 0
<1>1. /\ \A u \in NotifyZones : ZoneGood(e, u)
      /\ QueueOK(e) /\ StateOK(e) /\ StateOK(s) /\ CountOK(r, s)
      /\ Cardinality(Rounds(e)) = Cardinality(Rounds(s)) - 1
  BY EndedGood, Zenon DEF Ended, NotifyGood
<1> DEFINE h == Head(e.q)
           f == [e EXCEPT !.waiting[h] = FALSE, !.q = Tail(@)]
<1>2. e.q \in Seq(NotifyZones) /\ Len(e.q) \in Nat /\ Len(e.q) >= 1
      /\ h = e.q[1] /\ h \in NotifyZones
  <2>1. e.q \in Seq(NotifyZones) /\ e.q # <<>>
    BY <1>1, Zenon DEF StateOK, Pending
  <2> QED
    BY <2>1, TailFacts, Zenon
<1>3. e.waiting[h] /\ h # z
  BY <1>1, <1>2, SMTT(30) DEF QueueOK, OnList, Ended, InRound
<1>4. t = notify_setup(f, h)
  BY Zenon DEF Wake
<1> HIDE DEF h
<1>5. /\ f.sec = e.sec /\ f.retry = e.retry /\ f.fd = e.fd /\ f.timer = e.timer
      /\ f.num = e.num /\ f.acked = e.acked /\ f.sent = e.sent
      /\ f.round = e.round /\ f.waiting = [e.waiting EXCEPT ![h] = FALSE]
      /\ f.q = Tail(e.q) /\ DOMAIN f = NotifyFields
  BY <1>1, Zenon DEF StateOK, NotifyFields
<1> HIDE DEF f
<1>6. StateOK(f) /\ ~f.waiting[h]
  <2>1. Tail(e.q) \in Seq(NotifyZones)
    BY <1>2, TailFacts, Zenon DEF Pending
  <2>3. e.waiting \in [NotifyZones -> BOOLEAN]
    BY <1>1, Zenon DEF StateOK
  <2>2. f.waiting \in [NotifyZones -> BOOLEAN] /\ ~f.waiting[h]
    BY <1>2, <1>5, <2>3, Zenon
  <2> QED
    BY <1>1, <1>5, <2>1, <2>2, Zenon DEF StateOK
<1>7. /\ StateOK(t) /\ t.num = f.num /\ t.q = f.q /\ t.waiting = f.waiting
      /\ InRound(t, h) /\ ZoneGood(t, h)
      /\ \A u \in NotifyZones \ {h} : SameZone(f, t, u)
  <2>1. Begun(f, t, h)
    BY <1>2, <1>4, <1>6, SetupZone
  <2> QED
    BY <2>1, Zenon DEF Begun
<1>8. \A u \in NotifyZones \ {h} : SameZone(e, t, u)
  <2>1. e.waiting \in [NotifyZones -> BOOLEAN]
    BY <1>1, Zenon DEF StateOK
  <2>2. \A u \in NotifyZones \ {h} : f.waiting[u] = e.waiting[u]
    BY <1>5, <2>1, Zenon
  <2> QED
    BY <1>5, <1>7, <2>2, SMTT(30) DEF SameZone
<1>9. /\ \A u \in NotifyZones : ZoneGood(t, u)
      /\ \A u \in NotifyZones \ {h} : InRound(t, u) <=> InRound(e, u)
  BY <1>1, <1>7, <1>8, SameGood, Zenon
<1>10. Rounds(t) = Rounds(e) \cup {h} /\ h \notin Rounds(e)
  BY <1>2, <1>3, <1>7, <1>9, Zenon DEF Rounds, InRound
<1>11. IsFiniteSet(Rounds(e))
  BY RoundsFinite, Zenon
<1>12. Cardinality(Rounds(t)) = Cardinality(Rounds(e)) + 1
  BY <1>10, <1>11, FS_AddElement, Zenon
<1>13. Cardinality(Rounds(s)) \in Nat /\ Cardinality(Rounds(e)) \in Nat
  BY RoundsFinite, Zenon
<1>14. QueueOK(t)
  <2>1. t.q = Tail(e.q) /\ ~t.waiting[h]
    BY <1>5, <1>6, <1>7, Zenon
  <2>2. Distinct(e.q)
    BY <1>1, Zenon DEF QueueOK
  <2>3. /\ Distinct(t.q)
        /\ \A u \in NotifyZones : OnList(t.q, u) <=> u # h /\ OnList(e.q, u)
    BY <1>2, <2>1, <2>2, TailDistinct DEF h, Pending
  <2>4. \A u \in NotifyZones \ {h} : t.waiting[u] <=> e.waiting[u]
    BY <1>8, Zenon DEF SameZone
  <2> QED
    BY <1>1, <2>1, <2>3, <2>4, Zenon DEF QueueOK
<1>15. CountOK(r, t)
  <2>1. t.num = s.num /\ t.num = NotifyMax /\ NotifyMax \in Nat
    BY <1>5, <1>7, NotifyAssumption, Zenon DEF Ended, Pending
  <2> QED
    BY <1>1, <1>12, <1>13, <2>1 DEF CountOK
<1>16. t.sec[z] = 0
  BY <1>3, <1>8, Zenon DEF SameZone, Ended
<1> QED
  BY <1>7, <1>9, <1>14, <1>15, <1>16, Zenon DEF NotifyGood

\* notify_next, when the present secondary was told.
LEMMA NextDone ==
  ASSUME NEW r, NEW s, NotifyGood(r, s), NEW z \in NotifyZones, InRound(s, z),
         Told(s, z, s.sec[z]), NEW p, ButRetry(s, p, z), NEW t,
         t = notify_next(p, z)
  PROVE  /\ NotifyGood(r, t)
         /\ t.sec[z] = 0 \/ (InRound(t, z) /\ t.retry[z] = 0)
<1>1. CASE s.sec[z] # Secondaries
  BY <1>1, NextGood, Zenon
<1>2. CASE s.sec[z] = Secondaries
  <2>1. RoundOK(s, z) /\ Secondaries \in Nat
    BY NotifyAssumption, Zenon DEF NotifyGood, ZoneGood
  <2>2. \A k \in 1 .. Secondaries : Told(s, z, k)
    BY <1>2, <2>1 DEF RoundOK
  <2>3. PICK e : /\ Ended(s, e, z)
                 /\ notify_next(p, z) = IF Pending(e) THEN Wake(e) ELSE Lower(e)
    BY <1>2, NextEnds, Zenon
  <2>4. CASE Pending(e)
    <3>1. t = Wake(e)
      BY <2>3, <2>4, Zenon
    <3> QED
      BY <2>2, <2>3, <2>4, <3>1, WokenGood, Zenon
  <2>5. CASE ~Pending(e)
    <3>1. t = Lower(e)
      BY <2>3, <2>5, Zenon
    <3> QED
      BY <2>2, <2>3, <2>5, <3>1, LastGood, Zenon
  <2> QED
    BY <2>4, <2>5, Zenon
<1> QED
  BY <1>1, <1>2, Zenon

\* The end of notify_handle_zone.
LEMMA TryAgainGood ==
  ASSUME NEW r, NEW s, NotifyGood(r, s), NEW z \in NotifyZones,
         s.sec[z] = 0 \/ InRound(s, z), NEW g \in BOOLEAN, NEW t,
         t = TryAgain(s, z, g)
  PROVE  NotifyGood(r, t)
<1>1. CASE s.sec[z] = 0
  BY <1>1, Zenon DEF TryAgain
<1>2. CASE s.sec[z] # 0
  <2> DEFINE p == [s EXCEPT !.retry[z] = @ + 1]
  <2>1. InRound(s, z) /\ StateOK(s) /\ ZoneGood(s, z)
    BY <1>2, Zenon DEF NotifyGood
  <2>2. /\ s.retry \in [NotifyZones -> Nat] /\ s.retry[z] \in Nat
        /\ s.retry[z] <= NotifyRetry /\ NotifyRetry \in Nat
    BY <2>1, NotifyAssumption, Zenon DEF StateOK, ZoneGood
  <2>3. /\ p.retry = [s.retry EXCEPT ![z] = @ + 1] /\ DOMAIN p = NotifyFields
        /\ p.sec = s.sec /\ p.fd = s.fd /\ p.waiting = s.waiting
        /\ p.timer = s.timer /\ p.num = s.num /\ p.q = s.q
        /\ p.acked = s.acked /\ p.sent = s.sent /\ p.round = s.round
    BY <2>1, Zenon DEF StateOK, NotifyFields
  <2>4. t = IF p.retry[z] > NotifyRetry THEN notify_next(p, z)
            ELSE notify_send(p, z, g)
    BY <1>2, Zenon DEF TryAgain
  <2>5. p.retry[z] = s.retry[z] + 1
    BY <2>2, <2>3
  <2>6. CASE s.retry[z] < NotifyRetry
    <3>1. t = notify_send(p, z, g)
      <4> HIDE DEF p
      <4> QED
        BY <2>2, <2>4, <2>5, <2>6
    <3> QED
      BY <2>1, <2>6, <3>1, SendGood, Zenon
  <2>7. CASE s.retry[z] = NotifyRetry
    <3> HIDE DEF p
    <3>1. t = notify_next(p, z)
      BY <2>2, <2>4, <2>5, <2>7
    <3>2. Told(s, z, s.sec[z])
      BY <2>1, <2>7, Zenon DEF ZoneGood, RoundOK, Told
    <3>3. /\ p.retry \in [NotifyZones -> Nat]
          /\ \A u \in NotifyZones \ {z} : p.retry[u] = s.retry[u]
      BY <2>2, <2>3
    <3>4. StateOK(p)
      BY <2>1, <2>3, <3>3, Zenon DEF StateOK
    <3>5. ButRetry(s, p, z)
      BY <2>3, <3>3, <3>4, Zenon DEF ButRetry
    <3> QED
      BY <2>1, <3>1, <3>2, <3>5, NextDone, Zenon
  <2> QED
    BY <2>2, <2>6, <2>7
<1> QED
  BY <1>1, <1>2, Zenon

\* The waiting list with another zone.
LEMMA AppendDistinct ==
  ASSUME NEW S, NEW q \in Seq(S), NEW z \in S, Distinct(q), ~OnList(q, z)
  PROVE  /\ Append(q, z) \in Seq(S) /\ Distinct(Append(q, z))
         /\ \A u \in S : OnList(Append(q, z), u) <=> u = z \/ OnList(q, u)
<1> DEFINE t == Append(q, z)
           n == Len(q)
<1>1. /\ t \in Seq(S) /\ n \in Nat /\ Len(t) = n + 1 /\ t[n + 1] = z
      /\ \A i \in 1 .. n : t[i] = q[i]
  OBVIOUS
<1>2. /\ \A i, j \in 1 .. n : q[i] = q[j] => i = j
      /\ \A i \in 1 .. n : q[i] # z
  BY Zenon DEF Distinct, OnList
<1>3. /\ Distinct(t) <=> \A i, j \in 1 .. Len(t) : t[i] = t[j] => i = j
      /\ \A u \in S : /\ OnList(t, u) <=> \E i \in 1 .. Len(t) : t[i] = u
                      /\ OnList(q, u) <=> \E i \in 1 .. n : q[i] = u
  BY Zenon DEF Distinct, OnList
<1> HIDE DEF t, n
<1>4. \A i \in 1 .. Len(t) : i = n + 1 \/ i \in 1 .. n
  BY <1>1
<1>5. 1 .. n \subseteq 1 .. Len(t) /\ n + 1 \in 1 .. Len(t)
  BY <1>1
<1>6. Distinct(t)
  <2> SUFFICES ASSUME NEW i \in 1 .. Len(t), NEW j \in 1 .. Len(t), t[i] = t[j]
               PROVE  i = j
    BY <1>3, Zenon
  <2>1. i \in 1 .. n => t[i] = q[i] /\ t[i] # z
    BY <1>1, <1>2, Zenon
  <2>2. j \in 1 .. n => t[j] = q[j] /\ t[j] # z
    BY <1>1, <1>2, Zenon
  <2> QED
    BY <1>1, <1>2, <1>4, <2>1, <2>2, Zenon
<1>7. ASSUME NEW u \in S PROVE OnList(t, u) <=> u = z \/ OnList(q, u)
  <2>1. ASSUME NEW i \in 1 .. Len(t), t[i] = u
        PROVE  u = z \/ \E k \in 1 .. n : q[k] = u
    BY <1>1, <1>4, <2>1, Zenon
  <2>2. ASSUME NEW i \in 1 .. n, q[i] = u PROVE \E k \in 1 .. Len(t) : t[k] = u
    BY <1>1, <1>5, <2>2, Zenon
  <2>3. u = z => \E k \in 1 .. Len(t) : t[k] = u
    BY <1>1, <1>5, Zenon
  <2> QED
    BY <1>3, <2>1, <2>2, <2>3, Zenon
<1> QED
  BY <1>1, <1>6, <1>7, Zenon DEF t

\* notify_enable with a slot free.
LEMMA BeginGood ==
  ASSUME NEW r, NEW s, NotifyGood(r, s), NEW z \in NotifyZones,
         ~s.waiting[z], r \/ s.sec[z] = 0, s.num < NotifyMax, NEW t,
         t = [notify_setup(s, z) EXCEPT !.num = @ + 1]
  PROVE  NotifyGood(r, t)
<1> DEFINE f == notify_setup(s, z)
<1>1. /\ StateOK(s) /\ QueueOK(s) /\ CountOK(r, s)
      /\ \A u \in NotifyZones : ZoneGood(s, u)
  BY Zenon DEF NotifyGood
<1>2. /\ StateOK(f) /\ f.num = s.num /\ f.q = s.q /\ f.waiting = s.waiting
      /\ InRound(f, z) /\ ZoneGood(f, z)
      /\ \A u \in NotifyZones \ {z} : SameZone(s, f, u)
  <2>1. Begun(s, f, z)
    BY <1>1, SetupZone, Zenon
  <2> QED
    BY <2>1, Zenon DEF Begun
<1>3. t = [f EXCEPT !.num = @ + 1]
  BY Zenon
<1> HIDE DEF f
<1>4. /\ t.num = s.num + 1 /\ t.sec = f.sec /\ t.retry = f.retry /\ t.fd = f.fd
      /\ t.waiting = f.waiting /\ t.timer = f.timer /\ t.q = f.q
      /\ t.acked = f.acked /\ t.sent = f.sent /\ t.round = f.round
      /\ DOMAIN t = NotifyFields
  <2>1. DOMAIN f = NotifyFields
    BY <1>2, Zenon DEF StateOK
  <2> QED
    BY <1>2, <1>3, <2>1 DEF NotifyFields
<1>5. StateOK(t)
  <2>1. t.num \in Int
    BY <1>1, <1>4 DEF StateOK
  <2> QED
    BY <1>2, <1>4, <2>1, Zenon DEF StateOK
<1>6. \A u \in NotifyZones : SameZone(f, t, u)
  BY <1>4, Zenon DEF SameZone
<1>7. \A u \in NotifyZones : (ZoneGood(f, u) => ZoneGood(t, u))
                             /\ (InRound(t, u) <=> InRound(f, u))
  BY <1>6, SameGood, Zenon
<1>8. \A u \in NotifyZones \ {z} : ZoneGood(f, u) /\ (InRound(f, u) <=> InRound(s, u))
  BY <1>1, <1>2, SameGood, Zenon
<1>9. \A u \in NotifyZones : ZoneGood(t, u)
  BY <1>2, <1>7, <1>8, Zenon
<1>10. Rounds(t) = Rounds(s) \cup {z}
  BY <1>2, <1>7, <1>8, Zenon DEF Rounds
<1>11. QueueOK(t)
  BY <1>1, <1>2, <1>4, Zenon DEF QueueOK
<1>12. CountOK(r, t)
  <2> DEFINE b == Cardinality(Rounds(s))
             c == Cardinality(Rounds(t))
  <2>1. b \in Nat /\ IsFiniteSet(Rounds(s))
    BY RoundsFinite, Zenon
  <2>2. c = IF InRound(s, z) THEN b ELSE b + 1
    <3>1. CASE InRound(s, z)
      <4>1. Rounds(t) = Rounds(s)
        BY <1>10, <3>1, Zenon DEF Rounds
      <4> QED
        BY <3>1, <4>1, Zenon
    <3>2. CASE ~InRound(s, z)
      <4>1. z \notin Rounds(s)
        BY <3>2, Zenon DEF Rounds
      <4> QED
        BY <1>10, <2>1, <3>2, <4>1, FS_AddElement, Zenon
    <3> QED
      BY <3>1, <3>2, Zenon
  <2>3. ~r => ~InRound(s, z)
    BY Zenon DEF InRound
  <2>4. s.num \in Int /\ NotifyMax \in Nat
    BY <1>1, NotifyAssumption, Zenon DEF StateOK
  <2>5. \A u \in NotifyZones : ~t.waiting[u]
    BY <1>1, <1>2, <1>4, <2>4 DEF CountOK
  <2>6. s.num >= b /\ (~r => s.num = b)
    BY <1>1, Zenon DEF CountOK
  <2>7. t.num <= NotifyMax /\ t.num >= c /\ (~r => t.num = c)
    <3> HIDE DEF b, c
    <3> QED
      BY <1>4, <2>1, <2>2, <2>3, <2>4, <2>6
  <2> QED
    BY <2>5, <2>7, Zenon DEF CountOK
<1> QED
  BY <1>5, <1>9, <1>11, <1>12, Zenon DEF NotifyGood

\* notify_enable with all the slots taken.
LEMMA WaitGood ==
  ASSUME NEW r, NEW s, NotifyGood(r, s), NEW z \in NotifyZones,
         ~s.waiting[z], ~s.fd[z], r \/ s.sec[z] = 0, ~(s.num < NotifyMax),
         NEW t, t = [s EXCEPT !.sec[z] = 1, !.waiting[z] = TRUE,
                              !.timer[z] = FALSE, !.q = Append(@, z)]
  PROVE  NotifyGood(r, t)
<1>1. /\ StateOK(s) /\ QueueOK(s) /\ CountOK(r, s)
      /\ \A u \in NotifyZones : ZoneGood(s, u)
  BY Zenon DEF NotifyGood
<1>2. /\ t.sec = [s.sec EXCEPT ![z] = 1] /\ t.retry = s.retry /\ t.fd = s.fd
      /\ t.waiting = [s.waiting EXCEPT ![z] = TRUE]
      /\ t.timer = [s.timer EXCEPT ![z] = FALSE] /\ t.num = s.num
      /\ t.q = Append(s.q, z) /\ t.acked = s.acked /\ t.sent = s.sent
      /\ t.round = s.round /\ DOMAIN t = NotifyFields
  <2>1. DOMAIN s = NotifyFields
    BY <1>1, Zenon DEF StateOK
  <2> QED
    BY <2>1, Zenon DEF NotifyFields
<1>3. s.q \in Seq(NotifyZones) /\ Distinct(s.q) /\ ~OnList(s.q, z)
  BY <1>1, Zenon DEF StateOK, QueueOK
<1>4. /\ t.q \in Seq(NotifyZones) /\ Distinct(t.q)
      /\ \A u \in NotifyZones : OnList(t.q, u) <=> u = z \/ OnList(s.q, u)
  BY <1>2, <1>3, AppendDistinct
<1>5. Secondaries \in Nat \ {0} /\ NotifyMax \in Nat /\ s.num \in Int
  BY <1>1, NotifyAssumption, Zenon DEF StateOK
<1>6. StateOK(t)
  <2>1. t.sec \in [NotifyZones -> 0 .. Secondaries]
    BY <1>1, <1>2, <1>5 DEF StateOK
  <2>2. /\ t.waiting \in [NotifyZones -> BOOLEAN]
        /\ t.timer \in [NotifyZones -> BOOLEAN]
    BY <1>1, <1>2 DEF StateOK
  <2> QED
    BY <1>1, <1>2, <1>4, <2>1, <2>2, Zenon DEF StateOK
<1>7. t.sec[z] = 1 /\ t.waiting[z] /\ ~t.timer[z] /\ ~t.fd[z]
  BY <1>1, <1>2 DEF StateOK
<1>8. \A u \in NotifyZones \ {z} : SameZone(s, t, u)
  BY <1>1, <1>2 DEF StateOK, SameZone
<1>9. \A u \in NotifyZones \ {z} : ZoneGood(t, u) /\ (InRound(t, u) <=> InRound(s, u))
  BY <1>1, <1>8, SameGood, Zenon
<1>10. ~InRound(t, z)
  BY <1>7, Zenon DEF InRound
<1>11. ZoneGood(t, z)
  <2>1. ZoneGood(s, z)
    BY <1>1, Zenon
  <2> QED
    BY <1>2, <1>7, <1>10, <2>1 DEF ZoneGood
<1>12. QueueOK(t)
  <2>1. \A u \in NotifyZones \ {z} : t.waiting[u] <=> OnList(s.q, u)
    BY <1>1, <1>8, Zenon DEF QueueOK, SameZone
  <2> QED
    BY <1>4, <1>7, <2>1, Zenon DEF QueueOK
<1>13. CountOK(r, t)
  <2>1. Rounds(t) \subseteq Rounds(s)
    BY <1>9, <1>10, Zenon DEF Rounds
  <2>2. Cardinality(Rounds(t)) <= Cardinality(Rounds(s))
    BY <2>1, RoundsFinite, FS_Subset, Zenon
  <2>3. ASSUME ~r PROVE Rounds(t) = Rounds(s)
    BY <1>9, <1>10, <2>3, Zenon DEF Rounds, InRound
  <2>4. /\ Cardinality(Rounds(s)) \in Nat
        /\ Cardinality(Rounds(t)) \in Nat
    BY RoundsFinite, Zenon
  <2>5. t.num = NotifyMax /\ t.num = s.num
    BY <1>1, <1>2, <1>5 DEF CountOK
  <2> QED
    BY <1>1, <1>5, <2>2, <2>3, <2>4, <2>5 DEF CountOK
<1> QED
  BY <1>6, <1>9, <1>11, <1>12, <1>13, Zenon DEF NotifyGood

---------------------------------------------------------------------------
(* The theorem. *)

LEMMA NotifyStart == NotifyInit => NotifyInv
<1> SUFFICES ASSUME NotifyInit PROVE NotifyInv
  BY Zenon
<1>1. Secondaries \in Nat \ {0} /\ NotifyMax \in Nat /\ NotifyRetry \in Nat
  BY NotifyAssumption, Zenon
<1>2. /\ \A z \in NotifyZones :
           /\ ns.sec[z] = 0 /\ ns.retry[z] = 0 /\ ~ns.fd[z] /\ ~ns.waiting[z]
           /\ ~ns.timer[z] /\ ~ns.round[z]
           /\ \A k \in 1 .. Secondaries : ns.sent[z][k] = 0
      /\ ns.num = 0 /\ ns.q = <<>> /\ reenable \in Reenables
  BY Zenon DEF NotifyInit
<1>3. StateOK(ns)
  BY <1>1 DEF NotifyInit, StateOK, NotifyFields
<1>4. \A z \in NotifyZones : ~InRound(ns, z) /\ ZoneGood(ns, z)
  BY <1>1, <1>2 DEF InRound, ZoneGood
<1>5. Cardinality(Rounds(ns)) = 0
  <2>1. Rounds(ns) = {}
    BY <1>4, Zenon DEF Rounds
  <2> QED
    BY <2>1, FS_EmptySet, Zenon
<1>6. QueueOK(ns)
  BY <1>2 DEF QueueOK, Distinct, OnList
<1>7. CountOK(reenable, ns)
  BY <1>1, <1>2, <1>5 DEF CountOK
<1> QED
  BY <1>2, <1>3, <1>4, <1>6, <1>7, Zenon DEF NotifyInv, NotifyGood

LEMMA NotifyStep == NotifyInv /\ [NotifyNext]_notifyvars => NotifyInv'
<1> SUFFICES ASSUME NotifyInv, [NotifyNext]_notifyvars
             PROVE  reenable' \in Reenables /\ NotifyGood(reenable', ns')
  BY Zenon DEF NotifyInv, NotifyGood, StateOK, ZoneGood, QueueOK, CountOK, InRound,
         Rounds, Told, RoundOK, Distinct, OnList
<1>1. /\ reenable \in Reenables /\ NotifyGood(reenable, ns)
      /\ \A z \in NotifyZones : ZoneGood(ns, z)
  BY Zenon DEF NotifyInv, NotifyGood
<1>2. CASE NotifyReadable
  <2>1. PICK z \in NotifyZones, accepted \in BOOLEAN, goesout \in BOOLEAN :
          /\ ns.fd[z] /\ ~ns.waiting[z]
          /\ ns' = TryAgain(IF accepted
                            THEN notify_next([ns EXCEPT !.acked[z] =
                                                @ \cup {ns.sec[z]}], z)
                            ELSE ns, z, goesout)
          /\ UNCHANGED reenable
    BY <1>2, Zenon DEF NotifyReadable
  <2>2. InRound(ns, z)
    BY <1>1, <2>1, Zenon DEF ZoneGood
  <2>3. CASE accepted
    <3> DEFINE a == [ns EXCEPT !.acked[z] = @ \cup {ns.sec[z]}]
               t == notify_next(a, z)
    <3>1. ns' = TryAgain(t, z, goesout)
      BY <2>1, <2>3, Zenon
    <3>2. NotifyGood(reenable, a) /\ InRound(a, z) /\ Told(a, z, a.sec[z])
      BY <1>1, <2>2, AckGood, Zenon
    <3> HIDE DEF a
    <3>3. ButRetry(a, a, z)
      BY <3>2, Zenon DEF ButRetry, NotifyGood
    <3>4. NotifyGood(reenable, t) /\ (t.sec[z] = 0 \/ InRound(t, z))
      BY <3>2, <3>3, NextDone, Zenon
    <3> HIDE DEF t
    <3>5. NotifyGood(reenable, ns')
      BY <3>1, <3>4, TryAgainGood
    <3> QED
      BY <1>1, <2>1, <3>5, Zenon
  <2>4. CASE ~accepted
    <3>1. ns' = TryAgain(ns, z, goesout)
      BY <2>1, <2>4, Zenon
    <3>2. NotifyGood(reenable, ns')
      BY <1>1, <2>2, <3>1, TryAgainGood, Zenon
    <3> QED
      BY <1>1, <2>1, <3>2, Zenon
  <2> QED
    BY <2>3, <2>4, Zenon
<1>3. CASE NotifyTimeout
  <2>1. PICK z \in NotifyZones, goesout \in BOOLEAN :
          /\ ns.timer[z] /\ ~ns.waiting[z]
          /\ ns' = TryAgain(ns, z, goesout)
          /\ UNCHANGED reenable
    BY <1>3, Zenon DEF NotifyTimeout
  <2>2. InRound(ns, z)
    BY <1>1, <2>1, Zenon DEF ZoneGood
  <2>3. NotifyGood(reenable, ns')
    BY <1>1, <2>1, <2>2, TryAgainGood, Zenon
  <2> QED
    BY <1>1, <2>1, <2>3, Zenon
<1>4. CASE notify_enable
  <2>1. PICK z \in NotifyZones :
          /\ ~ns.waiting[z] /\ ~ns.fd[z]
          /\ reenable \/ ns.sec[z] = 0
          /\ ns' = IF ns.num < NotifyMax
                   THEN [notify_setup(ns, z) EXCEPT !.num = @ + 1]
                   ELSE [ns EXCEPT !.sec[z] = 1, !.waiting[z] = TRUE,
                                   !.timer[z] = FALSE, !.q = Append(@, z)]
          /\ UNCHANGED reenable
    BY <1>4, Zenon DEF notify_enable
  <2>2. CASE ns.num < NotifyMax
    <3>1. ns' = [notify_setup(ns, z) EXCEPT !.num = @ + 1]
      BY <2>1, <2>2, Zenon
    <3>2. NotifyGood(reenable, ns')
      BY <1>1, <2>1, <2>2, <3>1, BeginGood
    <3> QED
      BY <1>1, <2>1, <3>2, Zenon
  <2>3. CASE ~(ns.num < NotifyMax)
    <3>1. ns' = [ns EXCEPT !.sec[z] = 1, !.waiting[z] = TRUE,
                           !.timer[z] = FALSE, !.q = Append(@, z)]
      BY <2>1, <2>3, Zenon
    <3>2. NotifyGood(reenable, ns')
      BY <1>1, <2>1, <2>3, <3>1, WaitGood, Zenon
    <3> QED
      BY <1>1, <2>1, <3>2, Zenon
  <2> QED
    BY <2>2, <2>3, Zenon
<1>5. CASE UNCHANGED notifyvars
  BY <1>1, <1>5, Zenon DEF notifyvars
<1> QED
  BY <1>2, <1>3, <1>4, <1>5, Zenon DEF NotifyNext

\* A list without repetitions is as long as the set of what is on it.
LEMMA ListCount ==
  ASSUME NEW S, NEW q \in Seq(S), Distinct(q)
  PROVE  /\ Range(q) = {z \in S : OnList(q, z)}
         /\ Cardinality({z \in S : OnList(q, z)}) = Len(q)
<1> DEFINE W == {z \in S : OnList(q, z)}
           n == Len(q)
<1>1. n \in Nat /\ q \in [1 .. n -> S] /\ DOMAIN q = 1 .. n
  OBVIOUS
<1>2. Range(q) = W
  BY <1>1, Zenon DEF Range, OnList
<1>3. q \in Bijection(1 .. n, W)
  <2>1. q \in [1 .. n -> W]
    BY <1>1, Zenon DEF OnList
  <2>2. \A a, b \in 1 .. n : q[a] = q[b] => a = b
    BY Zenon DEF Distinct
  <2>3. \A w \in W : \E a \in 1 .. n : q[a] = w
    BY Zenon DEF OnList
  <2> QED
    BY <2>1, <2>2, <2>3, Zenon DEF Bijection, Injection, Surjection, IsInjective
<1>4. Cardinality(W) = n
  <2>1. ExistsBijection(1 .. n, W)
    BY <1>3, Zenon DEF ExistsBijection
  <2> QED
    BY <1>1, <2>1, FS_CountingElements, Zenon
<1> QED
  BY <1>2, <1>4, Zenon

LEMMA NotifyEnough == NotifyInv => NotifySound
<1> SUFFICES ASSUME NotifyInv PROVE NotifySound
  BY Zenon
<1>1. /\ reenable \in Reenables /\ StateOK(ns) /\ QueueOK(ns)
      /\ CountOK(reenable, ns) /\ \A z \in NotifyZones : ZoneGood(ns, z)
  BY Zenon DEF NotifyInv, NotifyGood
<1>2. Secondaries \in Nat \ {0} /\ NotifyMax \in Nat /\ NotifyRetry \in Nat
  BY NotifyAssumption, Zenon
<1>3. Cardinality(Rounds(ns)) \in Nat
  BY RoundsFinite, Zenon
<1>4. NotifyTypeOK
  <2>1. ns.num \in 0 .. NotifyMax
    BY <1>1, <1>2, <1>3 DEF StateOK, CountOK
  <2>2. ns.retry \in [NotifyZones -> 0 .. NotifyRetry]
    BY <1>1, <1>2, SMTT(30) DEF StateOK, ZoneGood
  <2>3. ns.sent \in [NotifyZones -> [1 .. Secondaries -> 0 .. NotifyRetry]]
    <3>1. ns.sent \in [NotifyZones -> [1 .. Secondaries -> Nat]]
      BY <1>1, Zenon DEF StateOK
    <3>2. \A z \in NotifyZones :
            ns.sent[z] \in [1 .. Secondaries -> 0 .. NotifyRetry]
      BY <1>1, <1>2, <3>1 DEF ZoneGood
    <3> QED
      BY <3>1, <3>2, Zenon
  <2> QED
    BY <1>1, <2>1, <2>2, <2>3, Zenon DEF NotifyTypeOK, StateOK
<1>5. NoSecondaryPassedOver
  <2> SUFFICES ASSUME NEW z \in NotifyZones, NEW k \in 1 .. Secondaries,
                      ns.round[z], ~ns.waiting[z], ns.sec[z] = 0 \/ k < ns.sec[z]
               PROVE  Told(ns, z, k)
    BY Zenon DEF NoSecondaryPassedOver, Told
  <2>1. CASE ns.sec[z] = 0
    BY <1>1, <2>1, Zenon DEF ZoneGood
  <2>2. CASE ns.sec[z] # 0
    BY <1>1, <2>2, Zenon DEF ZoneGood, InRound, RoundOK
  <2> QED
    BY <2>1, <2>2, Zenon
<1>6. NotifySlotsCounted
  <2> SUFFICES ASSUME ~reenable
               PROVE  LET waits == {z \in NotifyZones : ns.waiting[z]}
                          busy == {z \in NotifyZones : ns.sec[z] # 0} \ waits
                      IN /\ ns.num = Cardinality(busy)
                         /\ waits # {} => ns.num = NotifyMax
                         /\ Range(ns.q) = waits /\ Len(ns.q) = Cardinality(waits)
                         /\ \A z \in busy : ns.timer[z]
    BY Zenon DEF NotifySlotsCounted
  <2> DEFINE waits == {z \in NotifyZones : ns.waiting[z]}
             busy == {z \in NotifyZones : ns.sec[z] # 0} \ waits
  <2>1. busy = Rounds(ns)
    BY Zenon DEF Rounds, InRound
  <2>2. waits = {z \in NotifyZones : OnList(ns.q, z)}
    BY <1>1, Zenon DEF QueueOK
  <2>3. Range(ns.q) = waits /\ Len(ns.q) = Cardinality(waits)
    <3>1. ns.q \in Seq(NotifyZones) /\ Distinct(ns.q)
      BY <1>1, Zenon DEF StateOK, QueueOK
    <3> QED
      BY <2>2, <3>1, ListCount, Zenon
  <2>4. \A z \in busy : ns.timer[z]
    BY <1>1, <2>1, Zenon DEF Rounds, ZoneGood, RoundOK
  <2>5. ns.num = Cardinality(busy) /\ (waits # {} => ns.num = NotifyMax)
    BY <1>1, <2>1, Zenon DEF CountOK
  <2> QED
    BY <2>3, <2>4, <2>5, Zenon
<1> QED
  BY <1>4, <1>5, <1>6, Zenon DEF NotifySound

\* In every number of zones, secondaries, slots and retries: a round of NOTIFY
\* messages passes over no secondary, and notify_udp_num and the waiting list
\* count the zones that share the slots (notify_handle_zone, notify_disable,
\* notify_enable).
THEOREM SecondariesTold == NotifySpec => []NotifySound
<1>1. NotifyInit => NotifyInv
  BY NotifyStart, Zenon
<1>2. NotifyInv /\ [NotifyNext]_notifyvars => NotifyInv'
  BY NotifyStep, Zenon
<1>3. NotifyInv => NotifySound
  BY NotifyEnough, Zenon
<1> QED
  BY <1>1, <1>2, <1>3, PTL DEF NotifySpec

=============================================================================
