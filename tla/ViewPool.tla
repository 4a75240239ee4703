------------------------------ MODULE ViewPool ------------------------------
(***************************************************************************)
(* The pools of views of a zone: names_viewfactory_struct and              *)
(* zonelist_{create,obtain,release}resource() of                           *)
(* signer/src/signer/zonelist.c, with the threads that use them: the tasks *)
(* of signertasks.c and tools.c, the query handlers and the HTTP handler.  *)
(*                                                                         *)
(* A factory has slots for views.  Obtaining a view empties its slot;      *)
(* with all slots empty a new view is made up to maxviews, and then the    *)
(* caller waits for a release.  Every call is one critical section of the  *)
(* factory's mutex.  View number i is the i-th that was created.           *)
(*                                                                         *)
(* The zone of the factory exists throughout.  The HTTP handler gives its  *)
(* name only (httpd.c:174), and assert(zone) ends the daemon for a name    *)
(* that is not in the list; that is no step here.                          *)
(***************************************************************************)
EXTENDS Integers

CONSTANTS
  PoolThreads,     \* the threads that use views of this factory
  MaxViews     \* maxcount of zonelist_createresource()

ASSUME ViewPoolAssumption == MaxViews \in Nat \ {0}

Null == 0
Slots == 1..MaxViews
Views == 1..MaxViews

VARIABLES
  mincount,  \* of zonelist_createresource(): 1 in zone_start(), any here
  failing,   \* may a caller fail and return early without a release?
  curviews,  \* how many slots are in use
  slots,     \* views[]
  vheld,      \* the view a thread works with
  vpc,        \* where each thread is
  aborted    \* has assert(view == NULL) in the release failed?

factory == <<mincount, failing>>

poolvars == <<factory, curviews, slots, vheld, vpc, aborted>>

\* zonelist_createresource()
PoolInit ==
  /\ mincount \in 1..MaxViews
  /\ failing \in BOOLEAN
  /\ curviews = mincount
  /\ slots = [i \in Slots |-> IF i <= mincount THEN i ELSE Null]
  /\ vheld = [t \in PoolThreads |-> Null]
  /\ vpc = [t \in PoolThreads |-> "idle"]
  /\ aborted = FALSE

none_free == \A i \in 1..curviews : slots[i] = Null

\* a thread starts a task or query that needs a view
Want(t) ==
  /\ ~ aborted
  /\ vpc[t] = "idle"
  /\ vpc' = [vpc EXCEPT ![t] = "obtain"]
  /\ UNCHANGED <<factory, curviews, slots, vheld, aborted>>

\* a search that leaves the view in its slot
take_copy(i) == slots

take(i) == [slots EXCEPT ![i] = Null]

\* zonelist_obtainresource(): the first slot that has a view
Obtain(t, i) ==
  /\ ~ aborted
  /\ vpc[t] = "obtain"
  /\ i <= curviews /\ slots[i] # Null
  /\ \A j \in 1..(i - 1) : slots[j] = Null
  /\ vheld' = [vheld EXCEPT ![t] = slots[i]]
  /\ slots' = take(i)
  /\ vpc' = [vpc EXCEPT ![t] = "use"]
  /\ UNCHANGED <<factory, curviews, aborted>>

may_grow == curviews < MaxViews

\* a new view, which is also stored in the new slot
Grow(t) ==
  LET new == curviews + 1 IN
  /\ ~ aborted
  /\ vpc[t] = "obtain"
  /\ none_free
  /\ may_grow
  /\ curviews' = new
  /\ slots' = [slots EXCEPT ![new] = new]
  /\ vheld' = [vheld EXCEPT ![t] = new]
  /\ vpc' = [vpc EXCEPT ![t] = "use"]
  /\ UNCHANGED <<factory, aborted>>

\* pthread_cond_wait()
Sleep(t) ==
  /\ ~ aborted
  /\ vpc[t] = "obtain"
  /\ none_free
  /\ ~ may_grow
  /\ vpc' = [vpc EXCEPT ![t] = "wait"]
  /\ UNCHANGED <<factory, curviews, slots, vheld, aborted>>

\* a release that wakes nobody
quiet_release(t) == [vpc EXCEPT ![t] = "idle"]

\* the broadcast wakes every thread that waits
wake_all(t) ==
  [u \in PoolThreads |-> IF u = t THEN "idle" ELSE IF vpc[u] = "wait" THEN "obtain" ELSE vpc[u]]

first_empty(i) == slots[i] = Null /\ \A j \in 1..(i - 1) : slots[j] # Null

\* a release that drops the view
put_nothing(t, i) == slots

put(t, i) == [slots EXCEPT ![i] = vheld[t]]

\* zonelist_releaseresource(): the first empty slot
Release(t, i) ==
  /\ ~ aborted
  /\ vpc[t] = "use"
  /\ i <= curviews /\ first_empty(i)
  /\ slots' = put(t, i)
  /\ vheld' = [vheld EXCEPT ![t] = Null]
  /\ vpc' = wake_all(t)
  /\ UNCHANGED <<factory, curviews, aborted>>

\* ... and without one the daemon aborts
ReleaseFails(t) ==
  /\ ~ aborted
  /\ vpc[t] = "use"
  /\ \A i \in 1..curviews : ~ first_empty(i)
  /\ aborted' = TRUE
  /\ UNCHANGED <<factory, curviews, slots, vheld, vpc>>

\* the early returns of do_signzone() and tools_input()
Abandon(t) ==
  /\ ~ aborted /\ failing
  /\ vpc[t] = "use"
  /\ vheld' = [vheld EXCEPT ![t] = Null]
  /\ vpc' = [vpc EXCEPT ![t] = "idle"]
  /\ UNCHANGED <<factory, curviews, slots, aborted>>

Step(t) ==
  \/ \E i \in Slots : Obtain(t, i) \/ Release(t, i)
  \/ Grow(t) \/ Sleep(t) \/ ReleaseFails(t) \/ Abandon(t)

PoolNext == \E t \in PoolThreads : Want(t) \/ Step(t)

PoolSpec == PoolInit /\ [][PoolNext]_poolvars

\* every thread that is in a call or works with a view goes on
PoolFairSpec == PoolSpec /\ \A t \in PoolThreads : WF_poolvars(Step(t))

(***************************************************************************)
(* Properties.                                                             *)
(***************************************************************************)
PoolTypeOK ==
  /\ mincount \in 1..MaxViews /\ failing \in BOOLEAN
  /\ curviews \in mincount..MaxViews
  /\ slots \in [Slots -> Views \cup {Null}]
  /\ vheld \in [PoolThreads -> Views \cup {Null}]
  /\ vpc \in [PoolThreads -> {"idle", "obtain", "wait", "use"}]
  /\ aborted \in BOOLEAN

\* zonelist_obtainresource() gives a view to one thread at a time, and a view
\* somebody works with is not offered to others.
Exclusive ==
  \A v \in Views :
    /\ \A t, u \in PoolThreads : vheld[t] = v /\ vheld[u] = v => t = u
    /\ \A i, j \in Slots : slots[i] = v /\ slots[j] = v => i = j
    /\ \A t \in PoolThreads, i \in Slots : ~ (vheld[t] = v /\ slots[i] = v)

\* The views zonelist_createresource() makes stay exclusive in every pool, also
\* in one that grows or whose users return early without a release.
InitialExclusive ==
  \A v \in 1..mincount :
    /\ \A t, u \in PoolThreads : vheld[t] = v /\ vheld[u] = v => t = u
    /\ \A i, j \in Slots : slots[i] = v /\ slots[j] = v => i = j
    /\ \A t \in PoolThreads, i \in Slots : ~ (vheld[t] = v /\ slots[i] = v)

\* No thread sleeps in zonelist_obtainresource() while a slot has a view: the
\* broadcast of the release reaches everybody who found the pool empty.
NoSleepOnFree == \A t \in PoolThreads : vpc[t] = "wait" => \A i \in Slots : slots[i] = Null

\* A pool that cannot grow (mincount = maxcount): zonelist_releaseresource()
\* always finds an empty slot, so its assertion assert(view == NULL) holds.
ReleaseFits == mincount = MaxViews => ~ aborted

\* A thread that sleeps in zonelist_obtainresource() gets to look at the pool
\* again, in a pool that cannot grow and whose users all release their views.
Woken ==
  \A t \in PoolThreads :
    (vpc[t] = "wait" /\ mincount = MaxViews /\ ~ failing) ~> vpc[t] = "obtain"

=============================================================================
