---------------------------- MODULE SharedProofs ----------------------------
(***************************************************************************)
(* Proofs about two things that threads and processes share: the pools of  *)
(* views and the PIN of a token, for any set of threads and any bounds.    *)
(*                                                                         *)
(* What holds of every pool: its types, that the views it starts with are  *)
(* used by one thread at a time, and that nobody sleeps while a view is    *)
(* free.  For a pool that cannot grow (mincount = maxcount, as prepareview,*)
(* neighview, signview and changesview) all its views are exclusive, and   *)
(* then a release always finds an empty slot by a counting argument.       *)
(*                                                                         *)
(* The PIN needs two arguments that do not meet: of what is in the buffers *)
(* and the memory (BuffersSound), and of where the unit of the semaphore   *)
(* is (UnitConserved), which a process can take only after the one that    *)
(* created the semaphore has set it (CreatorFirst).                        *)
(***************************************************************************)
EXTENDS ViewPool, HsmPin, FiniteSetTheorems, WellFoundedInduction, TLAPS

\* zonelist_createresource() leaves a factory with the right types.
LEMMA InitialTypes == PoolInit => PoolTypeOK
<1> SUFFICES ASSUME PoolInit PROVE PoolTypeOK
  BY Zenon
<1> USE ViewPoolAssumption DEF PoolInit, Slots, Views, Null
<1>1. curviews \in mincount..MaxViews
  OBVIOUS
<1>2. slots \in [Slots -> Views \cup {Null}]
  BY Zenon
<1> QED
  BY <1>1, <1>2, Zenon DEF PoolTypeOK

\* Types: slots, threads and counters of a factory stay within their sets.
THEOREM Typing == PoolSpec => []PoolTypeOK
<1>1. PoolInit => PoolTypeOK
  BY InitialTypes, Zenon
<1>2. PoolTypeOK /\ [PoolNext]_poolvars => PoolTypeOK'
  <2> SUFFICES ASSUME PoolTypeOK, [PoolNext]_poolvars PROVE PoolTypeOK'
    BY Zenon
  <2> USE ViewPoolAssumption DEF PoolTypeOK, Slots, Views, Null, factory
  <2>1. ASSUME NEW t \in PoolThreads, Want(t) PROVE PoolTypeOK'
    BY <2>1, Zenon DEF Want
  <2>2. ASSUME NEW t \in PoolThreads, NEW i \in Slots, Obtain(t, i) PROVE PoolTypeOK'
    BY <2>2, Zenon DEF Obtain, take
  <2>3. ASSUME NEW t \in PoolThreads, Grow(t) PROVE PoolTypeOK'
    BY <2>3 DEF Grow, may_grow
  <2>4. ASSUME NEW t \in PoolThreads, Sleep(t) PROVE PoolTypeOK'
    BY <2>4, Zenon DEF Sleep
  <2>5. ASSUME NEW t \in PoolThreads, NEW i \in Slots, Release(t, i) PROVE PoolTypeOK'
    BY <2>5, Zenon DEF Release, put, wake_all
  <2>6. ASSUME NEW t \in PoolThreads, ReleaseFails(t) PROVE PoolTypeOK'
    BY <2>6, Zenon DEF ReleaseFails
  <2>7. ASSUME NEW t \in PoolThreads, Abandon(t) PROVE PoolTypeOK'
    BY <2>7, Zenon DEF Abandon
  <2>8. CASE UNCHANGED poolvars
    BY <2>8, Zenon DEF poolvars
  <2> QED
    BY <2>1, <2>2, <2>3, <2>4, <2>5, <2>6, <2>7, <2>8, Zenon DEF PoolNext, Step
<1> QED
  BY <1>1, <1>2, PTL DEF PoolSpec

\* Only a thread that works with a view holds one: what Obtain and Release
\* need to know of the thread they change.
HolderUses == \A t \in PoolThreads : vheld[t] # Null <=> vpc[t] = "use"

\* The initial views are exclusive in every pool, whatever it grows to.
THEOREM InitialViews == PoolSpec => []InitialExclusive
<1> DEFINE Inv == PoolTypeOK /\ HolderUses /\ InitialExclusive
<1>1. PoolInit => Inv
  BY InitialTypes, ViewPoolAssumption DEF PoolInit, HolderUses, InitialExclusive, Slots, Null
<1>2. PoolTypeOK /\ PoolTypeOK' /\ Inv /\ [PoolNext]_poolvars => Inv'
  <2> SUFFICES ASSUME PoolTypeOK, PoolTypeOK', Inv, [PoolNext]_poolvars
               PROVE  HolderUses' /\ InitialExclusive'
    BY Zenon
  <2> USE ViewPoolAssumption DEF PoolTypeOK, HolderUses, InitialExclusive, Slots, Views, Null, factory
  <2>1. ASSUME NEW t \in PoolThreads, Want(t) PROVE HolderUses' /\ InitialExclusive'
    BY <2>1 DEF Want
  <2>2. ASSUME NEW t \in PoolThreads, NEW i \in Slots, Obtain(t, i)
        PROVE HolderUses' /\ InitialExclusive'
    BY <2>2 DEF Obtain, take
  <2>3. ASSUME NEW t \in PoolThreads, Grow(t) PROVE HolderUses' /\ InitialExclusive'
    <3>1. curviews + 1 \notin 1..mincount /\ curviews + 1 \in Slots
      BY <2>3 DEF Grow, may_grow
    <3> QED
      BY <2>3, <3>1 DEF Grow, may_grow
  <2>4. ASSUME NEW t \in PoolThreads, Sleep(t) PROVE HolderUses' /\ InitialExclusive'
    BY <2>4 DEF Sleep
  <2>5. ASSUME NEW t \in PoolThreads, NEW i \in Slots, Release(t, i)
        PROVE HolderUses' /\ InitialExclusive'
    BY <2>5 DEF Release, put, wake_all
  <2>6. ASSUME NEW t \in PoolThreads, ReleaseFails(t) PROVE HolderUses' /\ InitialExclusive'
    BY <2>6 DEF ReleaseFails
  <2>7. ASSUME NEW t \in PoolThreads, Abandon(t) PROVE HolderUses' /\ InitialExclusive'
    BY <2>7 DEF Abandon
  <2>8. CASE UNCHANGED poolvars
    BY <2>8 DEF poolvars
  <2> QED
    BY <2>1, <2>2, <2>3, <2>4, <2>5, <2>6, <2>7, <2>8, Zenon DEF PoolNext, Step
<1>3. Inv => InitialExclusive
  BY Zenon
<1> QED
  BY <1>1, <1>2, <1>3, Typing, PTL DEF PoolSpec

\* A sleeper found the whole pool in use and at its limit.
SleepersFoundItFull == \A t \in PoolThreads : vpc[t] = "wait" => curviews = MaxViews

\* No thread sleeps while a view is free, in every pool: a pool stops growing
\* before the first thread sleeps, and each release wakes all of them.
THEOREM NoLostWakeup == PoolSpec => []NoSleepOnFree
<1> DEFINE Inv == PoolTypeOK /\ SleepersFoundItFull /\ NoSleepOnFree
<1>1. PoolInit => Inv
  BY InitialTypes, Zenon DEF PoolInit, SleepersFoundItFull, NoSleepOnFree
<1>2. PoolTypeOK /\ PoolTypeOK' /\ Inv /\ [PoolNext]_poolvars => Inv'
  <2> SUFFICES ASSUME PoolTypeOK, PoolTypeOK', Inv, [PoolNext]_poolvars
               PROVE  SleepersFoundItFull' /\ NoSleepOnFree'
    BY Zenon
  <2> USE ViewPoolAssumption DEF PoolTypeOK, SleepersFoundItFull, NoSleepOnFree, Slots, Views, Null, factory
  <2>1. ASSUME NEW t \in PoolThreads, Want(t) PROVE SleepersFoundItFull' /\ NoSleepOnFree'
    BY <2>1, Zenon DEF Want
  <2>2. ASSUME NEW t \in PoolThreads, NEW i \in Slots, Obtain(t, i)
        PROVE SleepersFoundItFull' /\ NoSleepOnFree'
    BY <2>2, Zenon DEF Obtain, take
  <2>3. ASSUME NEW t \in PoolThreads, Grow(t) PROVE SleepersFoundItFull' /\ NoSleepOnFree'
    BY <2>3 DEF Grow, may_grow
  <2>4. ASSUME NEW t \in PoolThreads, Sleep(t) PROVE SleepersFoundItFull' /\ NoSleepOnFree'
    BY <2>4 DEF Sleep, may_grow, none_free
  <2>5. ASSUME NEW t \in PoolThreads, NEW i \in Slots, Release(t, i)
        PROVE SleepersFoundItFull' /\ NoSleepOnFree'
    BY <2>5, Zenon DEF Release, put, wake_all
  <2>6. ASSUME NEW t \in PoolThreads, ReleaseFails(t) PROVE SleepersFoundItFull' /\ NoSleepOnFree'
    BY <2>6, Zenon DEF ReleaseFails
  <2>7. ASSUME NEW t \in PoolThreads, Abandon(t) PROVE SleepersFoundItFull' /\ NoSleepOnFree'
    BY <2>7, Zenon DEF Abandon
  <2>8. CASE UNCHANGED poolvars
    BY <2>8, Zenon DEF poolvars
  <2> QED
    BY <2>1, <2>2, <2>3, <2>4, <2>5, <2>6, <2>7, <2>8, Zenon DEF PoolNext, Step
<1>3. Inv => NoSleepOnFree
  BY Zenon
<1> QED
  BY <1>1, <1>2, <1>3, Typing, PTL DEF PoolSpec

\* In a pool that cannot grow every view is an initial one, so zonelist_obtain-
\* resource() gives each to one thread at a time.
THEOREM FixedPoolExclusive == PoolSpec => [](mincount = MaxViews => Exclusive)
<1>1. InitialExclusive => (mincount = MaxViews => Exclusive)
  BY Zenon DEF InitialExclusive, Exclusive, Views
<1> QED
  BY <1>1, InitialViews, PTL

\* Counting: with one view in use, exclusive views cannot fill all the slots.
LEMMA SlotLeft ==
  ASSUME PoolTypeOK, Exclusive, NEW t \in PoolThreads, vheld[t] # Null
  PROVE  \E i \in Slots : slots[i] = Null
<1> SUFFICES ASSUME \A i \in Slots : slots[i] # Null PROVE FALSE
  BY Zenon
<1> DEFINE Rest == Views \ {vheld[t]}
<1>1. vheld[t] \in Views
  BY Zenon DEF PoolTypeOK
<1>2. IsFiniteSet(Views) /\ Cardinality(Views) = MaxViews
  BY FS_Interval, ViewPoolAssumption DEF Views
<1>3. IsFiniteSet(Rest) /\ Cardinality(Rest) = MaxViews - 1
  BY <1>1, <1>2, FS_RemoveElement, Zenon
<1>4. slots \in [Slots -> Rest]
  BY Zenon DEF PoolTypeOK, Exclusive
<1>5. IsFiniteSet(Slots) /\ Cardinality(Slots) = MaxViews
  BY <1>2, Zenon DEF Slots, Views
<1>6. Cardinality(Rest) < Cardinality(Slots)
  BY <1>3, <1>5, ViewPoolAssumption
<1> HIDE DEF Rest
<1>7. \E i, j \in Slots : i # j /\ slots[i] = slots[j]
  BY <1>3, <1>4, <1>5, <1>6, FS_PigeonHole, Zenon
<1>8. \A i \in Slots : slots[i] \in Views
  BY Zenon DEF PoolTypeOK
<1> QED
  BY <1>7, <1>8, Zenon DEF Exclusive

\* The search of zonelist_releaseresource() succeeds when some slot is empty.
LEMMA FirstEmptySlot ==
  ASSUME \E i \in Slots : slots[i] = Null
  PROVE  \E i \in Slots : first_empty(i)
<1> DEFINE Empty == {i \in Slots : slots[i] = Null}
           Less == {p \in Nat \X Nat : p[1] < p[2]}
<1>1. Empty # {} /\ Empty \subseteq Nat
  BY ViewPoolAssumption DEF Slots
<1>2. IsWellFoundedOn(Less, Nat)
  BY NatLessThanWellFounded, Zenon, Zenon DEF OpToRel
<1>3. PICK i \in Empty : \A j \in Empty : <<j, i>> \notin Less
  <2> HIDE DEF Empty, Less
  <2> QED
    BY <1>1, <1>2, WFMin, Zenon, Zenon
<1>4. \A j \in Empty : ~ (j < i)
  BY <1>1, <1>3, Zenon
<1>5. \A j \in 1..(i - 1) : slots[j] # Null
  BY <1>4, ViewPoolAssumption DEF Slots
<1> QED
  BY <1>3, <1>5, Zenon DEF first_empty

\* In a pool that cannot grow the assertion of zonelist_releaseresource()
\* never fails: the releasing thread's own view left a slot empty.
THEOREM FixedPoolRelease == PoolSpec => []ReleaseFits
<1> DEFINE Inv == PoolTypeOK /\ HolderUses /\ ReleaseFits
<1>1. PoolInit => Inv
  BY InitialTypes, Zenon DEF PoolInit, HolderUses, ReleaseFits
<1>2. PoolTypeOK' /\ (mincount = MaxViews => Exclusive) /\ Inv /\ [PoolNext]_poolvars => Inv'
  <2> SUFFICES ASSUME PoolTypeOK', mincount = MaxViews => Exclusive, Inv, [PoolNext]_poolvars
               PROVE  HolderUses' /\ ReleaseFits'
    BY Zenon
  <2> USE DEF HolderUses, ReleaseFits, factory
  <2>1. ASSUME NEW t \in PoolThreads, Want(t) PROVE HolderUses' /\ ReleaseFits'
    BY <2>1, Zenon DEF Want, PoolTypeOK
  <2>2. ASSUME NEW t \in PoolThreads, NEW i \in Slots, Obtain(t, i)
        PROVE HolderUses' /\ ReleaseFits'
    BY <2>2, Zenon DEF Obtain, PoolTypeOK
  <2>3. ASSUME NEW t \in PoolThreads, Grow(t) PROVE HolderUses' /\ ReleaseFits'
    BY <2>3, ViewPoolAssumption DEF Grow, may_grow, PoolTypeOK, Null
  <2>4. ASSUME NEW t \in PoolThreads, Sleep(t) PROVE HolderUses' /\ ReleaseFits'
    BY <2>4, Zenon DEF Sleep, PoolTypeOK
  <2>5. ASSUME NEW t \in PoolThreads, NEW i \in Slots, Release(t, i)
        PROVE HolderUses' /\ ReleaseFits'
    BY <2>5, Zenon DEF Release, put, wake_all, PoolTypeOK
  <2>6. ASSUME NEW t \in PoolThreads, ReleaseFails(t) PROVE HolderUses' /\ ReleaseFits'
    <3> SUFFICES ASSUME mincount = MaxViews PROVE FALSE
      BY <2>6, Zenon DEF ReleaseFails
    <3>1. \E i \in Slots : slots[i] = Null
      BY <2>6, SlotLeft, Zenon DEF ReleaseFails
    <3>2. 1..curviews = Slots
      BY ViewPoolAssumption DEF PoolTypeOK, Slots
    <3>3. \E i \in Slots : first_empty(i)
      BY <3>1, FirstEmptySlot, Zenon
    <3> QED
      BY <2>6, <3>2, <3>3, Zenon DEF ReleaseFails
  <2>7. ASSUME NEW t \in PoolThreads, Abandon(t) PROVE HolderUses' /\ ReleaseFits'
    BY <2>7, Zenon DEF Abandon, PoolTypeOK
  <2>8. CASE UNCHANGED poolvars
    BY <2>8, Zenon DEF poolvars
  <2> QED
    BY <2>1, <2>2, <2>3, <2>4, <2>5, <2>6, <2>7, <2>8, Zenon DEF PoolNext, Step
<1>3. Inv => ReleaseFits
  BY Zenon
<1> QED
  BY <1>1, <1>2, <1>3, FixedPoolExclusive, Typing, PTL DEF PoolSpec

-----------------------------------------------------------------------------
(* The PIN of a token. *)

\* The processes that have the unit of the semaphore there is now.
PinUsers == {p \in PinProcs : InUse(pp[p])}

\* No process has a semaphore that is still to come.
SemaphoresKnown == \A p \in PinProcs : pp[p].sem <= psem.n

\* What a process is about to save was accepted by the token, and it does not ask
\* for more; a process that does not log in has no PIN.
BufferSound(r, accepted) ==
  /\ r.mode = "save" /\ r.pin # 0 => r.pin \in accepted
  /\ r.pc \in {"askpost", "ask", "rewait"} => r.mode # "save"
  /\ r.pc \in {"idle", "done"} => r.pin = 0
  /\ r.pc \in {"semopen", "semget"} /\ r.mode # "save" => r.pin = 0

BuffersSound == \A p \in PinProcs : BufferSound(pp[p], ptok.accepted)

\* A logout takes the lost units with it.
NothingLostWithout == ~psem.there => pleft.lost = 0 /\ pleft.odd = 0

\* As long as the semaphore was not set nobody else has come past it.
CreatorFirst ==
  \A p \in PinProcs :
    Current(pp[p]) /\ pp[p].pc = "setval" =>
      /\ psem.val = 0
      /\ \A q \in PinProcs \ {p} :
           Current(pp[q]) => pp[q].pc \in {"idle", "semopen", "semget", "wait", "done"}

PinInv ==
  /\ PinTypeOK /\ SavedPinAccepted /\ BuffersSound
  /\ UnitConserved /\ SemaphoresKnown /\ NothingLostWithout /\ CreatorFirst

\* When one process changes, the number of those that have the unit follows.
LEMMA UsersAfter ==
  ASSUME PinTypeOK, NEW p \in PinProcs, NEW r, pp' = [pp EXCEPT ![p] = r],
         psem'.n = psem.n, psem'.there = psem.there
  PROVE  /\ Cardinality(PinUsers) \in Nat
         /\ (InUse(r) <=> InUse(pp[p])) => Cardinality(PinUsers') = Cardinality(PinUsers)
         /\ InUse(pp[p]) /\ ~InUse(r) => Cardinality(PinUsers') = Cardinality(PinUsers) - 1
         /\ ~InUse(pp[p]) /\ InUse(r) => Cardinality(PinUsers') = Cardinality(PinUsers) + 1
<1>1. IsFiniteSet(PinProcs)
  BY PinAssumption, FS_Union, Zenon DEF PinProcs
<1>2. IsFiniteSet(PinUsers)
  BY <1>1, FS_Subset, Zenon DEF PinUsers
<1>3. pp \in [PinProcs -> PinState]
  BY Zenon DEF PinTypeOK
<1>4. \A q \in PinProcs : pp'[q] = IF q = p THEN r ELSE pp[q]
  BY <1>3, Zenon
<1>5. \A q \in PinProcs : q \in PinUsers' <=> InUse(IF q = p THEN r ELSE pp[q])
  BY <1>4, Zenon DEF PinUsers, InUse, Current
<1>6. PinUsers' \subseteq PinProcs /\ PinUsers \subseteq PinProcs
  BY Zenon DEF PinUsers
<1>7. CASE InUse(r) <=> InUse(pp[p])
  <2>1. PinUsers' = PinUsers
    BY <1>5, <1>6, <1>7, Zenon DEF PinUsers
  <2> QED
    BY <1>2, <1>7, <2>1, FS_CardinalityType, Zenon
<1>8. CASE InUse(pp[p]) /\ ~InUse(r)
  <2>1. PinUsers' = PinUsers \ {p} /\ p \in PinUsers
    BY <1>5, <1>6, <1>8, Zenon DEF PinUsers
  <2> QED
    BY <1>2, <1>8, <2>1, FS_CardinalityType, FS_RemoveElement, Zenon
<1>9. CASE ~InUse(pp[p]) /\ InUse(r)
  <2>1. PinUsers' = PinUsers \cup {p} /\ p \notin PinUsers
    BY <1>5, <1>6, <1>9, Zenon DEF PinUsers
  <2> QED
    BY <1>2, <1>9, <2>1, FS_CardinalityType, FS_AddElement, Zenon
<1> QED
  BY <1>7, <1>8, <1>9, Zenon

\* Before any process has come to the token there is no semaphore and no PIN.
LEMMA PinInitial == PinInit => PinInv
<1> SUFFICES ASSUME PinInit PROVE PinInv
  BY Zenon
<1> USE DEF PinInit, PinIdle
<1>1. PICK b \in PinBounds :
        pleft = [opens |-> b.opens, logouts |-> b.logouts, changes |-> b.changes,
                 deaths |-> b.deaths, breaks |-> b.breaks, lost |-> 0, odd |-> 0]
  BY Zenon
<1>2. pleft \in PinLeft
  BY <1>1, PinAssumption, Zenon DEF PinLeft
<1>3. ptok \in [now : Pins, accepted : SUBSET Pins]
  BY PinAssumption, Zenon
<1>4. PinTypeOK
  BY <1>2, <1>3, Zenon DEF PinTypeOK, PinAt, PinState, PinSemaphore, PinMemory
<1>5. SavedPinAccepted /\ UnitConserved
  BY Zenon DEF SavedPinAccepted, UnitConserved
<1>6. BuffersSound /\ SemaphoresKnown
  BY DEF BuffersSound, BufferSound, SemaphoresKnown
<1>7. NothingLostWithout /\ CreatorFirst
  BY <1>1, Zenon DEF NothingLostWithout, CreatorFirst, Current
<1> QED
  BY <1>4, <1>5, <1>6, <1>7, Zenon DEF PinInv

\* What the actions make of the semaphore has its type.
LEMMA PinSemaphores ==
  ASSUME NEW s \in PinSemaphore
  PROVE  /\ s.n \in Nat /\ s.val \in Nat /\ s.there \in BOOLEAN
         /\ \A v \in Nat : [s EXCEPT !.val = v] \in PinSemaphore
         /\ [s EXCEPT !.there = FALSE, !.val = 0] \in PinSemaphore
         /\ [n |-> s.n + 1, there |-> TRUE, val |-> 0] \in PinSemaphore
<1>1. s.n \in Nat /\ s.val \in Nat /\ s.there \in BOOLEAN
  BY Zenon DEF PinSemaphore
<1>2. ASSUME NEW v \in Nat PROVE [s EXCEPT !.val = v] \in PinSemaphore
  BY Zenon DEF PinSemaphore
<1>3. [s EXCEPT !.there = FALSE, !.val = 0] \in PinSemaphore
  BY Zenon DEF PinSemaphore
<1>4. [n |-> s.n + 1, there |-> TRUE, val |-> 0] \in PinSemaphore
  BY <1>1 DEF PinSemaphore
<1> QED
  BY <1>1, <1>2, <1>3, <1>4, Zenon

\* The same of the shared memory.
LEMMA PinMemories ==
  ASSUME NEW m \in PinMemory
  PROVE  /\ m.pin \in Pins \cup {0}
         /\ \A x \in Pins \cup {0} : [m EXCEPT !.pin = x] \in PinMemory
         /\ [m EXCEPT !.there = FALSE, !.pin = 0] \in PinMemory
         /\ [n |-> m.n + 1, there |-> TRUE, pin |-> 0] \in PinMemory
<1>1. m.n \in Nat /\ m.pin \in Pins \cup {0}
  BY Zenon DEF PinMemory
<1>2. ASSUME NEW x \in Pins \cup {0} PROVE [m EXCEPT !.pin = x] \in PinMemory
  BY <1>2, Zenon DEF PinMemory
<1>3. [m EXCEPT !.there = FALSE, !.pin = 0] \in PinMemory
  BY Zenon DEF PinMemory
<1>4. [n |-> m.n + 1, there |-> TRUE, pin |-> 0] \in PinMemory
  <2>1. m.n + 1 \in Nat
    BY <1>1
  <2> QED
    BY <2>1, Zenon DEF PinMemory
<1> QED
  BY <1>1, <1>2, <1>3, <1>4, Zenon

\* The same of what is left of the bounds.
LEMMA PinsLeft ==
  ASSUME NEW l \in PinLeft
  PROVE  /\ l.lost \in Nat /\ l.odd \in Nat
         /\ l.opens > 0 => [l EXCEPT !.opens = @ - 1] \in PinLeft
         /\ l.changes > 0 => [l EXCEPT !.changes = @ - 1] \in PinLeft
         /\ l.logouts > 0 =>
              [l EXCEPT !.logouts = @ - 1, !.lost = 0, !.odd = 0] \in PinLeft
         /\ \A dead \in BOOLEAN : l.deaths > 0 =>
              [l EXCEPT !.deaths = @ - 1, !.lost = IF dead THEN @ + 1 ELSE @] \in PinLeft
         /\ \A break \in BOOLEAN, again \in BOOLEAN : (break => l.breaks > 0) =>
              [l EXCEPT !.breaks = IF break THEN @ - 1 ELSE @,
                        !.odd = IF break /\ again THEN @ + 1 ELSE @] \in PinLeft
         /\ [l EXCEPT !.lost = @ + 1] \in PinLeft
<1>1. /\ l.opens \in Nat /\ l.changes \in Nat /\ l.logouts \in Nat /\ l.deaths \in Nat
      /\ l.breaks \in Nat /\ l.lost \in Nat /\ l.odd \in Nat
  BY Zenon DEF PinLeft
<1>2. ASSUME NEW x \in Nat, NEW y \in Nat
      PROVE  /\ [l EXCEPT !.deaths = x, !.lost = y] \in PinLeft
             /\ [l EXCEPT !.breaks = x, !.odd = y] \in PinLeft
             /\ [l EXCEPT !.logouts = x, !.lost = 0, !.odd = 0] \in PinLeft
  BY Zenon DEF PinLeft
<1>3. l.opens > 0 => [l EXCEPT !.opens = @ - 1] \in PinLeft
  BY DEF PinLeft
<1>4. l.changes > 0 => [l EXCEPT !.changes = @ - 1] \in PinLeft
  BY DEF PinLeft
<1>5. l.logouts > 0 => [l EXCEPT !.logouts = @ - 1, !.lost = 0, !.odd = 0] \in PinLeft
  <2>1. l.logouts > 0 => l.logouts - 1 \in Nat
    BY <1>1
  <2> QED
    BY <1>2, <2>1, Zenon
<1>6. ASSUME NEW dead \in BOOLEAN, l.deaths > 0
      PROVE  [l EXCEPT !.deaths = @ - 1, !.lost = IF dead THEN @ + 1 ELSE @] \in PinLeft
  <2>1. l.deaths - 1 \in Nat /\ (IF dead THEN l.lost + 1 ELSE l.lost) \in Nat
    BY <1>1, <1>6
  <2> QED
    BY <1>2, <2>1, Zenon
<1>7. ASSUME NEW break \in BOOLEAN, NEW again \in BOOLEAN, break => l.breaks > 0
      PROVE  [l EXCEPT !.breaks = IF break THEN @ - 1 ELSE @,
                       !.odd = IF break /\ again THEN @ + 1 ELSE @] \in PinLeft
  <2>1. /\ (IF break THEN l.breaks - 1 ELSE l.breaks) \in Nat
        /\ (IF break /\ again THEN l.odd + 1 ELSE l.odd) \in Nat
    BY <1>1, <1>7
  <2> QED
    BY <1>2, <2>1, Zenon
<1>8. [l EXCEPT !.lost = @ + 1] \in PinLeft
  BY DEF PinLeft
<1> QED
  BY <1>1, <1>3, <1>4, <1>5, <1>6, <1>7, <1>8, Zenon

\* The same of a process.
LEMMA PinStates ==
  ASSUME NEW r \in PinState
  PROVE  /\ \A c \in PinAt :
              /\ [r EXCEPT !.pc = c] \in PinState
              /\ \A n \in Nat : [r EXCEPT !.sem = n, !.pc = c] \in PinState
              /\ \A t \in Pins \cup {0} : [r EXCEPT !.typed = t, !.pc = c] \in PinState
              /\ \A x \in Pins \cup {0} : [r EXCEPT !.pin = x, !.pc = c] \in PinState
              /\ [r EXCEPT !.pc = c, !.pin = r.typed, !.typed = 0] \in PinState
         /\ \A got \in BOOLEAN : CallbackEnds(r, got) \in PinState
         /\ \A p \in PinProcs : PinLogin(p, r) \in PinState
<1>1. {"semopen", "login", "done"} \subseteq PinAt
  BY Zenon DEF PinAt
<1>2. ASSUME NEW c \in PinAt
      PROVE  /\ [r EXCEPT !.pc = c] \in PinState
             /\ \A n \in Nat : [r EXCEPT !.sem = n, !.pc = c] \in PinState
             /\ \A t \in Pins \cup {0} : [r EXCEPT !.typed = t, !.pc = c] \in PinState
             /\ \A x \in Pins \cup {0} : [r EXCEPT !.pin = x, !.pc = c] \in PinState
             /\ [r EXCEPT !.pc = c, !.pin = r.typed, !.typed = 0] \in PinState
  BY Zenon DEF PinState
<1>3. ASSUME NEW c \in PinAt
      PROVE  /\ [r EXCEPT !.mode = "save", !.pc = c] \in PinState
             /\ [r EXCEPT !.pc = c, !.pin = 0] \in PinState
  BY Zenon DEF PinState
<1>4. ASSUME NEW c \in PinAt, NEW n \in Nat
      PROVE  /\ [r EXCEPT !.pin = 0, !.tries = n, !.mode = "retry", !.pc = c] \in PinState
             /\ [r EXCEPT !.pin = 0, !.tries = n, !.pc = c] \in PinState
  BY Zenon DEF PinState
<1>5. r.tries + 1 \in Nat
  BY DEF PinState
<1>6. ASSUME NEW got \in BOOLEAN PROVE CallbackEnds(r, got) \in PinState
  BY <1>1, <1>2, <1>3, Zenon DEF CallbackEnds
<1>7. ASSUME NEW p \in PinProcs PROVE PinLogin(p, r) \in PinState
  BY <1>1, <1>2, <1>3, <1>4, <1>5, Zenon DEF PinLogin
<1> QED
  BY <1>2, <1>6, <1>7, Zenon

\* The types are kept by every action.
LEMMA PinTypes == ASSUME PinTypeOK, [PinNext]_pinvars PROVE PinTypeOK'
<1>1. ASSUME NEW p \in PinProcs, NEW r \in PinState, Put(p, r)
      PROVE  pp' \in [PinProcs -> PinState]
  BY <1>1, Zenon DEF PinTypeOK, Put
<1>2. /\ {"semopen", "semget", "setval", "wait", "crit", "askpost", "ask", "rewait"} \subseteq PinAt
      /\ {"post", "endpost", "login", "done", "idle"} \subseteq PinAt
  BY Zenon DEF PinAt
<1>3. PinIdle \in PinState
  BY <1>2, Zenon DEF PinIdle, PinState
<1>4. /\ psem \in PinSemaphore /\ pshm \in PinMemory /\ pleft \in PinLeft
      /\ \A p \in PinProcs : pp[p] \in PinState
      /\ psem.val \in Nat
  BY PinSemaphores, Zenon DEF PinTypeOK
<1>5. CASE PinOpen
  <2>1. PICK p \in PinProcs : /\ pleft.opens > 0
                              /\ Put(p, [PinIdle EXCEPT !.pc = "semopen"])
                              /\ pleft' = [pleft EXCEPT !.opens = @ - 1]
                              /\ UNCHANGED <<psem, pshm, ptok, plog>>
    BY <1>5, Zenon DEF PinOpen
  <2>2. pp' \in [PinProcs -> PinState]
    BY <1>1, <1>2, <1>3, <2>1, PinStates, Zenon
  <2>3. pleft' \in PinLeft
    BY <1>4, <2>1, PinsLeft, Zenon
  <2> QED
    BY <2>1, <2>2, <2>3, Zenon DEF PinTypeOK
<1>6. CASE hsm_sem_open
  <2>1. PICK p \in PinProcs :
          /\ IF psem.there
             THEN Put(p, [pp[p] EXCEPT !.pc = "semget"]) /\ UNCHANGED psem
             ELSE /\ psem' = [n |-> psem.n + 1, there |-> TRUE, val |-> 0]
                  /\ Put(p, [pp[p] EXCEPT !.sem = psem.n + 1, !.pc = "setval"])
          /\ UNCHANGED <<pshm, ptok, plog, pleft>>
    BY <1>6, Zenon DEF hsm_sem_open
  <2>2. psem.n \in Nat /\ psem.n + 1 \in Nat
    BY <1>4, PinSemaphores, Zenon
  <2>3. /\ [pp[p] EXCEPT !.pc = "semget"] \in PinState
        /\ [pp[p] EXCEPT !.sem = psem.n + 1, !.pc = "setval"] \in PinState
    BY <1>2, <1>4, <2>2, PinStates, Zenon
  <2>4. pp' \in [PinProcs -> PinState]
    BY <1>1, <2>1, <2>3, Zenon
  <2>5. psem' \in PinSemaphore
    BY <1>4, <2>1, PinSemaphores, Zenon
  <2> QED
    BY <2>1, <2>4, <2>5, Zenon DEF PinTypeOK
<1>7. CASE SetSemaphore
  <2>1. PICK p \in PinProcs :
          /\ IF Current(pp[p])
             THEN psem' = [psem EXCEPT !.val = 1] /\ Put(p, [pp[p] EXCEPT !.pc = "wait"])
             ELSE Put(p, CallbackEnds(pp[p], FALSE)) /\ UNCHANGED psem
          /\ UNCHANGED <<pshm, ptok, plog, pleft>>
    BY <1>7, Zenon DEF SetSemaphore
  <2>2. [pp[p] EXCEPT !.pc = "wait"] \in PinState /\ CallbackEnds(pp[p], FALSE) \in PinState
    BY <1>2, <1>4, PinStates, Zenon
  <2>3. pp' \in [PinProcs -> PinState]
    BY <1>1, <2>1, <2>2, Zenon
  <2>4. psem' \in PinSemaphore
    <3>1. [psem EXCEPT !.val = 1] \in PinSemaphore
      BY <1>4, PinSemaphores, Zenon
    <3>2. psem' = [psem EXCEPT !.val = 1] \/ psem' = psem
      BY <2>1, Zenon
    <3> QED
      BY <1>4, <3>1, <3>2, Zenon
  <2> QED
    BY <2>1, <2>3, <2>4, Zenon DEF PinTypeOK
<1>8. CASE hsm_sem_wait
  <2>1. PICK p \in PinProcs, break \in BOOLEAN :
          LET r == pp[p]
              again == r.pc = "rewait"
              fails == break \/ ~Current(r)
          IN /\ break => pleft.breaks > 0
             /\ ~fails => psem.val > 0
             /\ psem' = IF fails THEN psem ELSE [psem EXCEPT !.val = @ - 1]
             /\ pleft' = [pleft EXCEPT !.breaks = IF break THEN @ - 1 ELSE @,
                                       !.odd = IF break /\ again THEN @ + 1 ELSE @]
             /\ Put(p, IF again THEN [r EXCEPT !.pc = "post", !.pin = r.typed, !.typed = 0]
                       ELSE IF fails THEN CallbackEnds(r, FALSE)
                       ELSE [r EXCEPT !.pc = "crit"])
             /\ UNCHANGED <<pshm, ptok, plog>>
    BY <1>8, Zenon DEF hsm_sem_wait
  <2>2. /\ [pp[p] EXCEPT !.pc = "post", !.pin = pp[p].typed, !.typed = 0] \in PinState
        /\ CallbackEnds(pp[p], FALSE) \in PinState
        /\ [pp[p] EXCEPT !.pc = "crit"] \in PinState
    BY <1>2, <1>4, PinStates, Zenon
  <2>3. pp' \in [PinProcs -> PinState]
    BY <1>1, <2>1, <2>2, Zenon
  <2>4. pleft' \in PinLeft
    <3>1. (pp[p].pc = "rewait") \in BOOLEAN
      BY Zenon
    <3> QED
      BY <1>4, <2>1, <3>1, PinsLeft, Zenon
  <2>5. psem' \in PinSemaphore
    <3>1. psem.val \in Nat /\ (psem.val > 0 => psem.val - 1 \in Nat)
      BY <1>4
    <3> QED
      BY <1>4, <2>1, <3>1, PinSemaphores, Zenon
  <2> QED
    BY <2>1, <2>3, <2>4, <2>5, Zenon DEF PinTypeOK
<1>9. CASE UsePins
  <2>1. PICK p \in PinProcs :
          LET out == IF p \in PinAskers THEN hsm_prompt_pin(pp[p], hsm_shm_open)
                     ELSE hsm_check_pin(pp[p], hsm_shm_open)
          IN /\ pshm' = out.shm /\ Put(p, out.r)
             /\ UNCHANGED <<psem, ptok, plog, pleft>>
    BY <1>9, Zenon DEF UsePins
  <2>2. hsm_shm_open \in PinMemory
    BY <1>4, PinMemories, Zenon DEF hsm_shm_open
  <2>3. ASSUME NEW m \in PinMemory, NEW r \in PinState
        PROVE  /\ hsm_prompt_pin(r, m).shm \in PinMemory
               /\ hsm_prompt_pin(r, m).r \in PinState
               /\ hsm_check_pin(r, m).shm \in PinMemory
               /\ hsm_check_pin(r, m).r \in PinState
    <3>1. m.pin \in Pins \cup {0} /\ r.pin \in Pins \cup {0}
          /\ r.mode \in {"first", "retry", "save"}
      BY <2>3, PinMemories, Zenon DEF PinState
    <3>2. /\ [r EXCEPT !.pc = "askpost"] \in PinState
          /\ [r EXCEPT !.pin = m.pin, !.pc = "post"] \in PinState
          /\ [r EXCEPT !.pin = 0, !.pc = "post"] \in PinState
          /\ [r EXCEPT !.pin = 0, !.pc = "endpost"] \in PinState
      BY <1>2, <2>3, <3>1, PinStates, Zenon
    <3>3. [m EXCEPT !.pin = 0] \in PinMemory /\ [m EXCEPT !.pin = r.pin] \in PinMemory
      BY <2>3, <3>1, PinMemories, Zenon
    <3>4. hsm_check_pin(r, m).shm \in PinMemory /\ hsm_check_pin(r, m).r \in PinState
      BY <2>3, <3>2, <3>3, Zenon DEF hsm_check_pin
    <3>5. hsm_prompt_pin(r, m).shm \in PinMemory /\ hsm_prompt_pin(r, m).r \in PinState
      BY <2>3, <3>1, <3>2, <3>3, Zenon DEF hsm_prompt_pin
    <3> QED
      BY <3>4, <3>5, Zenon
  <2>4. pshm' \in PinMemory /\ pp' \in [PinProcs -> PinState]
    BY <1>1, <1>4, <2>1, <2>2, <2>3
  <2> QED
    BY <2>1, <2>4, Zenon DEF PinTypeOK
<1>10. CASE hsm_sem_post
  <2>1. PICK p \in PinProcs :
          LET r == pp[p]
          IN /\ r.pc \in {"askpost", "post", "endpost"}
             /\ psem' = IF Current(r) THEN [psem EXCEPT !.val = @ + 1] ELSE psem
             /\ Put(p, CASE r.pc = "askpost" -> [r EXCEPT !.pc = "ask"]
                         [] r.pc = "post" -> CallbackEnds(r, TRUE)
                         [] r.pc = "endpost" -> CallbackEnds(r, FALSE))
             /\ UNCHANGED <<pshm, ptok, plog, pleft>>
    BY <1>10, Zenon DEF hsm_sem_post
  <2>2. /\ [pp[p] EXCEPT !.pc = "ask"] \in PinState
        /\ CallbackEnds(pp[p], TRUE) \in PinState /\ CallbackEnds(pp[p], FALSE) \in PinState
    BY <1>2, <1>4, PinStates, Zenon
  <2>3. pp' \in [PinProcs -> PinState]
    BY <1>1, <2>1, <2>2, Zenon
  <2>4. psem' \in PinSemaphore
    <3>1. psem.val + 1 \in Nat
      BY <1>4
    <3> QED
      BY <1>4, <2>1, <3>1, PinSemaphores, Zenon
  <2> QED
    BY <2>1, <2>3, <2>4, Zenon DEF PinTypeOK
<1>11. CASE prompt_pass
  <2>1. PICK p \in PinProcs, typed \in Pins \cup {0}, tty \in BOOLEAN :
          /\ Put(p, IF tty THEN [pp[p] EXCEPT !.typed = typed, !.pc = "rewait"]
                    ELSE CallbackEnds(pp[p], FALSE))
          /\ UNCHANGED <<psem, pshm, ptok, plog, pleft>>
    BY <1>11, Zenon DEF prompt_pass
  <2>2. /\ [pp[p] EXCEPT !.typed = typed, !.pc = "rewait"] \in PinState
        /\ CallbackEnds(pp[p], FALSE) \in PinState
    BY <1>2, <1>4, PinStates, Zenon
  <2>3. pp' \in [PinProcs -> PinState]
    BY <1>1, <2>1, <2>2, Zenon
  <2> QED
    BY <2>1, <2>3, Zenon DEF PinTypeOK
<1>12. CASE PinAttach
  <2>1. PICK p \in PinProcs :
          /\ Put(p, PinLogin(p, pp[p]))
          /\ ptok' = IF pp[p].pin = ptok.now
                     THEN [ptok EXCEPT !.accepted = @ \cup {ptok.now}] ELSE ptok
          /\ UNCHANGED <<psem, pshm, plog, pleft>>
    BY <1>12, Zenon DEF PinAttach
  <2>2. pp' \in [PinProcs -> PinState]
    BY <1>1, <1>4, <2>1, PinStates, Zenon
  <2>3. ptok' \in [now : Pins, accepted : SUBSET Pins]
    BY <2>1, Zenon DEF PinTypeOK
  <2> QED
    BY <2>1, <2>2, <2>3, Zenon DEF PinTypeOK
<1>13. CASE hsm_logout_pin
  <2>1. psem' \in PinSemaphore /\ pshm' \in PinMemory /\ pleft' \in PinLeft
    BY <1>4, <1>13, PinSemaphores, PinMemories, PinsLeft, Zenon DEF hsm_logout_pin
  <2> QED
    BY <1>13, <2>1, Zenon DEF hsm_logout_pin, PinTypeOK
<1>14. CASE PinChanged
  <2>1. pleft' \in PinLeft
    BY <1>4, <1>14, PinsLeft, Zenon DEF PinChanged
  <2>2. ptok' \in [now : Pins, accepted : SUBSET Pins]
    BY <1>14, Zenon DEF PinChanged, PinTypeOK
  <2> QED
    BY <1>14, <2>1, <2>2, Zenon DEF PinChanged, PinTypeOK
<1>15. CASE PinDeath
  <2>1. PICK p \in PinProcs :
          /\ pleft.deaths > 0 /\ Put(p, PinIdle)
          /\ pleft' = [pleft EXCEPT !.deaths = @ - 1,
                                    !.lost = IF InUse(pp[p]) THEN @ + 1 ELSE @]
          /\ UNCHANGED <<psem, pshm, ptok, plog>>
    BY <1>15, Zenon DEF PinDeath
  <2>2. pp' \in [PinProcs -> PinState]
    BY <1>1, <1>3, <2>1, Zenon
  <2>3. InUse(pp[p]) \in BOOLEAN
    BY <1>4, PinSemaphores, Zenon DEF InUse, Current
  <2>4. pleft' \in PinLeft
    BY <1>4, <2>1, <2>3, PinsLeft, Zenon
  <2> QED
    BY <2>1, <2>2, <2>4, Zenon DEF PinTypeOK
<1>16. CASE PinExit
  <2>1. PICK p \in PinProcs : Put(p, PinIdle) /\ UNCHANGED <<psem, pshm, ptok, plog, pleft>>
    BY <1>16, Zenon DEF PinExit
  <2>2. pp' \in [PinProcs -> PinState]
    BY <1>1, <1>3, <2>1, Zenon
  <2> QED
    BY <2>1, <2>2, Zenon DEF PinTypeOK
<1>17. CASE UNCHANGED pinvars
  BY <1>17, Zenon DEF pinvars, PinTypeOK
<1>18. CASE GetSemaphore
  <2>1. PICK p \in PinProcs :
          /\ \/ /\ Put(p, [pp[p] EXCEPT !.sem = psem.n, !.pc = "wait"])
                /\ UNCHANGED <<psem, pleft>>
             \/ /\ psem' = [n |-> psem.n + 1, there |-> TRUE, val |-> 0]
                /\ Put(p, [pp[p] EXCEPT !.sem = psem.n + 1, !.pc = "wait"])
                /\ pleft' = [pleft EXCEPT !.lost = @ + 1]
          /\ UNCHANGED <<pshm, ptok, plog>>
    BY <1>18, Zenon DEF GetSemaphore
  <2>2. psem.n \in Nat /\ psem.n + 1 \in Nat
    BY <1>4, PinSemaphores, Zenon
  <2>3. /\ [pp[p] EXCEPT !.sem = psem.n, !.pc = "wait"] \in PinState
        /\ [pp[p] EXCEPT !.sem = psem.n + 1, !.pc = "wait"] \in PinState
    BY <1>2, <1>4, <2>2, PinStates, Zenon
  <2>4. pp' \in [PinProcs -> PinState]
    BY <1>1, <2>1, <2>3, Zenon
  <2>5. psem' \in PinSemaphore /\ pleft' \in PinLeft
    BY <1>4, <2>1, PinSemaphores, PinsLeft, Zenon
  <2> QED
    BY <2>1, <2>4, <2>5, Zenon DEF PinTypeOK
<1>19. CASE BadSemaphore
  <2>1. PICK p \in PinProcs : /\ Put(p, CallbackEnds(pp[p], FALSE))
                              /\ UNCHANGED <<psem, pshm, ptok, plog, pleft>>
    BY <1>19, Zenon DEF BadSemaphore
  <2>2. pp' \in [PinProcs -> PinState]
    BY <1>1, <1>4, <2>1, PinStates, Zenon
  <2> QED
    BY <2>1, <2>2, Zenon DEF PinTypeOK
<1>20. CASE BadMemory
  <2>1. PICK p \in PinProcs :
          /\ pshm' \in {pshm, hsm_shm_open} /\ Put(p, [pp[p] EXCEPT !.pc = "endpost"])
          /\ UNCHANGED <<psem, ptok, plog, pleft>>
    BY <1>20, Zenon DEF BadMemory
  <2>2. pshm' \in PinMemory
    BY <1>4, <2>1, PinMemories, Zenon DEF hsm_shm_open
  <2>3. pp' \in [PinProcs -> PinState]
    BY <1>1, <1>2, <1>4, <2>1, PinStates, Zenon
  <2> QED
    BY <2>1, <2>2, <2>3, Zenon DEF PinTypeOK
<1> QED
  BY <1>5, <1>6, <1>7, <1>8, <1>9, <1>10, <1>11, <1>12, <1>13, <1>14, <1>15, <1>16, <1>17,
     <1>18, <1>19, <1>20, Zenon
     DEF PinNext

\* The PINs: the token has accepted what is in the memory and in a buffer that is
\* to be saved.
LEMMA BuffersKept ==
  ASSUME NEW A, NEW r \in PinState, BufferSound(r, A)
  PROVE  /\ \A got \in BOOLEAN : r.pc = "post" \/ ~got => BufferSound(CallbackEnds(r, got), A)
         /\ r.pc \in {"setval", "wait", "semopen", "semget", "crit"} =>
              \A n \in Nat, c \in {"setval", "wait", "crit", "endpost"} :
                BufferSound([r EXCEPT !.sem = n, !.pc = c], A) /\ BufferSound([r EXCEPT !.pc = c], A)
         /\ r.pc = "semopen" => BufferSound([r EXCEPT !.pc = "semget"], A)
         /\ r.pc = "rewait" =>
              BufferSound([r EXCEPT !.pc = "post", !.pin = r.typed, !.typed = 0], A)
         /\ r.pc = "askpost" => BufferSound([r EXCEPT !.pc = "ask"], A)
         /\ r.pc = "ask" => \A t \in Pins \cup {0} :
              BufferSound([r EXCEPT !.typed = t, !.pc = "rewait"], A)
<1>1. ASSUME NEW got \in BOOLEAN, r.pc = "post" \/ ~got
      PROVE  BufferSound(CallbackEnds(r, got), A)
  BY <1>1, Zenon DEF BufferSound, CallbackEnds, PinState
<1>2. ASSUME r.pc \in {"setval", "wait", "semopen", "semget", "crit"}, NEW n \in Nat,
             NEW c \in {"setval", "wait", "crit", "endpost"}
      PROVE  BufferSound([r EXCEPT !.sem = n, !.pc = c], A) /\ BufferSound([r EXCEPT !.pc = c], A)
  BY <1>2, Zenon DEF BufferSound, PinState
<1>3. r.pc = "rewait" =>
        BufferSound([r EXCEPT !.pc = "post", !.pin = r.typed, !.typed = 0], A)
  BY Zenon DEF BufferSound, PinState
<1>4. r.pc = "askpost" => BufferSound([r EXCEPT !.pc = "ask"], A)
  BY Zenon DEF BufferSound, PinState
<1>5. ASSUME r.pc = "ask", NEW t \in Pins \cup {0}
      PROVE  BufferSound([r EXCEPT !.typed = t, !.pc = "rewait"], A)
  BY <1>5, Zenon DEF BufferSound, PinState
<1>6. r.pc = "semopen" => BufferSound([r EXCEPT !.pc = "semget"], A)
  BY Zenon DEF BufferSound, PinState
<1> QED
  BY <1>1, <1>2, <1>3, <1>4, <1>5, <1>6, Zenon

\* What is in the memory and in the buffers stays as it should be: a PIN is saved
\* only after the login with it.
LEMMA PinsAccepted ==
  ASSUME PinTypeOK, SavedPinAccepted, BuffersSound, [PinNext]_pinvars
  PROVE  SavedPinAccepted' /\ BuffersSound'
<1> DEFINE A == ptok.accepted
<1>1. ASSUME NEW p \in PinProcs, NEW r, BufferSound(r, A), Put(p, r), UNCHANGED ptok
      PROVE  BuffersSound'
  <2>1. \A q \in PinProcs : pp'[q] = IF q = p THEN r ELSE pp[q]
    BY <1>1, Zenon DEF PinTypeOK, Put
  <2>2. \A q \in PinProcs : BufferSound(pp'[q], A)
    BY <1>1, <2>1, Zenon DEF BuffersSound
  <2> QED
    BY <1>1, <2>2, Zenon DEF BuffersSound, BufferSound
<1>2. \A p \in PinProcs : pp[p] \in PinState /\ BufferSound(pp[p], A)
  BY Zenon DEF PinTypeOK, BuffersSound
<1>3. BufferSound(PinIdle, A) /\ BufferSound([PinIdle EXCEPT !.pc = "semopen"], A)
  BY Zenon DEF PinIdle, BufferSound
<1>4. psem.n \in Nat /\ psem.n + 1 \in Nat
  BY DEF PinTypeOK, PinSemaphore
<1>5. CASE PinOpen
  BY <1>1, <1>3, <1>5, Zenon DEF PinOpen, SavedPinAccepted
<1>6. CASE hsm_sem_open
  <2>1. PICK p \in PinProcs :
          /\ pp[p].pc = "semopen"
          /\ \/ Put(p, [pp[p] EXCEPT !.pc = "semget"])
             \/ Put(p, [pp[p] EXCEPT !.sem = psem.n + 1, !.pc = "setval"])
          /\ UNCHANGED <<pshm, ptok>>
    BY <1>6, Zenon DEF hsm_sem_open
  <2>2. BuffersSound'
    BY <1>1, <1>2, <1>4, <2>1, BuffersKept, Zenon
  <2> QED
    BY <2>1, <2>2, Zenon DEF SavedPinAccepted
<1>7. CASE SetSemaphore
  <2>1. PICK p \in PinProcs :
          /\ pp[p].pc = "setval"
          /\ Put(p, [pp[p] EXCEPT !.pc = "wait"]) \/ Put(p, CallbackEnds(pp[p], FALSE))
          /\ UNCHANGED <<pshm, ptok>>
    BY <1>7, Zenon DEF SetSemaphore
  <2>2. BuffersSound'
    BY <1>1, <1>2, <1>4, <2>1, BuffersKept, Zenon
  <2> QED
    BY <2>1, <2>2, Zenon DEF SavedPinAccepted
<1>8. CASE hsm_sem_wait
  <2>1. PICK p \in PinProcs :
          /\ \/ /\ pp[p].pc = "rewait"
                /\ Put(p, [pp[p] EXCEPT !.pc = "post", !.pin = pp[p].typed, !.typed = 0])
             \/ Put(p, CallbackEnds(pp[p], FALSE))
             \/ pp[p].pc = "wait" /\ Put(p, [pp[p] EXCEPT !.pc = "crit"])
          /\ UNCHANGED <<pshm, ptok>>
    BY <1>8, Zenon DEF hsm_sem_wait
  <2>2. BuffersSound'
    BY <1>1, <1>2, <1>4, <2>1, BuffersKept, Zenon
  <2> QED
    BY <2>1, <2>2, Zenon DEF SavedPinAccepted
<1>9. CASE UsePins
  <2>1. PICK p \in PinProcs :
          LET out == IF p \in PinAskers THEN hsm_prompt_pin(pp[p], hsm_shm_open)
                     ELSE hsm_check_pin(pp[p], hsm_shm_open)
          IN /\ pshm' = out.shm /\ Put(p, out.r)
             /\ UNCHANGED ptok
    BY <1>9, Zenon DEF UsePins
  <2>2. hsm_shm_open \in PinMemory
    BY PinMemories, Zenon DEF hsm_shm_open, PinTypeOK
  <2>3. hsm_shm_open.pin # 0 => hsm_shm_open.pin \in A
    BY Zenon DEF hsm_shm_open, SavedPinAccepted
  <2>4. ASSUME NEW m \in PinMemory, m.pin # 0 => m.pin \in A,
               NEW r \in PinState, BufferSound(r, A)
        PROVE  /\ hsm_check_pin(r, m).shm.pin # 0 => hsm_check_pin(r, m).shm.pin \in A
               /\ BufferSound(hsm_check_pin(r, m).r, A)
    BY <2>4, Zenon DEF hsm_check_pin, BufferSound, PinState, PinMemory
  <2>5. ASSUME NEW m \in PinMemory, m.pin # 0 => m.pin \in A,
               NEW r \in PinState, BufferSound(r, A)
        PROVE  /\ hsm_prompt_pin(r, m).shm.pin # 0 => hsm_prompt_pin(r, m).shm.pin \in A
               /\ BufferSound(hsm_prompt_pin(r, m).r, A)
    <3>1. CASE r.mode = "first" /\ m.pin # 0
      <4>1. hsm_prompt_pin(r, m) = [shm |-> m, r |-> [r EXCEPT !.pin = m.pin, !.pc = "post"]]
        BY <3>1, Zenon DEF hsm_prompt_pin
      <4>2. BufferSound([r EXCEPT !.pin = m.pin, !.pc = "post"], A)
        BY <3>1, Zenon DEF BufferSound, PinState
      <4> QED
        BY <2>5, <4>1, <4>2
    <3>2. CASE r.mode = "first" /\ m.pin = 0
      <4>1. hsm_prompt_pin(r, m) = [shm |-> m, r |-> [r EXCEPT !.pc = "askpost"]]
        BY <3>2, Zenon DEF hsm_prompt_pin
      <4> QED
        BY <2>5, <3>2, <4>1 DEF BufferSound, PinState
    <3>3. CASE r.mode = "retry"
      <4>1. hsm_prompt_pin(r, m) =
              [shm |-> [m EXCEPT !.pin = 0], r |-> [r EXCEPT !.pc = "askpost"]]
        BY <3>3, Zenon DEF hsm_prompt_pin
      <4> QED
        BY <2>5, <3>3, <4>1 DEF BufferSound, PinState, PinMemory
    <3>4. CASE r.mode = "save"
      <4>1. hsm_prompt_pin(r, m) =
              [shm |-> [m EXCEPT !.pin = r.pin], r |-> [r EXCEPT !.pin = 0, !.pc = "post"]]
        BY <3>4, Zenon DEF hsm_prompt_pin
      <4>2. BufferSound([r EXCEPT !.pin = 0, !.pc = "post"], A)
        BY Zenon DEF BufferSound, PinState
      <4>3. [m EXCEPT !.pin = r.pin].pin = r.pin /\ (r.pin # 0 => r.pin \in A)
        BY <2>5, <3>4, Zenon DEF BufferSound, PinMemory
      <4>4. /\ hsm_prompt_pin(r, m).shm = [m EXCEPT !.pin = r.pin]
            /\ hsm_prompt_pin(r, m).r = [r EXCEPT !.pin = 0, !.pc = "post"]
        BY <4>1
      <4> QED
        BY <4>2, <4>3, <4>4, Zenon
    <3> QED
      BY <2>5, <3>1, <3>2, <3>3, <3>4, Zenon DEF PinState
  <2>6. BuffersSound'
    BY <1>1, <1>2, <2>1, <2>2, <2>3, <2>4, <2>5, Zenon
  <2>7. SavedPinAccepted'
    BY <1>2, <2>1, <2>2, <2>3, <2>4, <2>5, Zenon DEF SavedPinAccepted
  <2> QED
    BY <2>6, <2>7, Zenon
<1>10. CASE hsm_sem_post
  <2>1. PICK p \in PinProcs :
          /\ \/ pp[p].pc = "askpost" /\ Put(p, [pp[p] EXCEPT !.pc = "ask"])
             \/ pp[p].pc = "post" /\ Put(p, CallbackEnds(pp[p], TRUE))
             \/ Put(p, CallbackEnds(pp[p], FALSE))
          /\ UNCHANGED <<pshm, ptok>>
    BY <1>10, Zenon DEF hsm_sem_post
  <2>2. BuffersSound'
    BY <1>1, <1>2, <2>1, BuffersKept, Zenon
  <2> QED
    BY <2>1, <2>2, Zenon DEF SavedPinAccepted
<1>11. CASE prompt_pass
  <2>1. PICK p \in PinProcs, typed \in Pins \cup {0} :
          /\ pp[p].pc = "ask"
          /\ \/ Put(p, [pp[p] EXCEPT !.typed = typed, !.pc = "rewait"])
             \/ Put(p, CallbackEnds(pp[p], FALSE))
          /\ UNCHANGED <<pshm, ptok>>
    BY <1>11, Zenon DEF prompt_pass
  <2>2. BuffersSound'
    BY <1>1, <1>2, <2>1, BuffersKept, Zenon
  <2> QED
    BY <2>1, <2>2, Zenon DEF SavedPinAccepted
<1>12. CASE PinAttach
  <2>1. PICK p \in PinProcs :
          /\ pp[p].pc = "login" /\ Put(p, PinLogin(p, pp[p]))
          /\ ptok' = IF pp[p].pin = ptok.now
                     THEN [ptok EXCEPT !.accepted = @ \cup {ptok.now}] ELSE ptok
          /\ UNCHANGED pshm
    BY <1>12, Zenon DEF PinAttach
  <2>2. A \subseteq ptok'.accepted /\ (pp[p].pin = ptok.now => pp[p].pin \in ptok'.accepted)
    BY <2>1, Zenon DEF PinTypeOK
  <2>3. BufferSound(PinLogin(p, pp[p]), ptok'.accepted)
    BY <1>2, <2>2, Zenon DEF PinLogin, BufferSound, PinState
  <2>4. \A q \in PinProcs : pp'[q] = IF q = p THEN PinLogin(p, pp[p]) ELSE pp[q]
    BY <2>1, Zenon DEF PinTypeOK, Put
  <2>5. \A q \in PinProcs : BufferSound(pp[q], ptok'.accepted)
    BY <1>2, <2>2, Zenon DEF BufferSound
  <2>6. \A q \in PinProcs : BufferSound(pp'[q], ptok'.accepted)
    BY <2>3, <2>4, <2>5, Zenon
  <2> QED
    BY <2>1, <2>2, <2>6, Zenon DEF BuffersSound, BufferSound, SavedPinAccepted
<1>13. CASE hsm_logout_pin
  BY <1>13, Zenon DEF hsm_logout_pin, SavedPinAccepted, BuffersSound, BufferSound, PinTypeOK, PinMemory
<1>14. CASE PinChanged
  <2>1. ptok'.accepted = ptok.accepted
    BY <1>14, Zenon DEF PinChanged, PinTypeOK
  <2> QED
    BY <1>14, <2>1, Zenon DEF PinChanged, SavedPinAccepted, BuffersSound, BufferSound
<1>15. CASE PinDeath
  BY <1>1, <1>3, <1>15, Zenon DEF PinDeath, SavedPinAccepted
<1>16. CASE PinExit
  BY <1>1, <1>3, <1>16, Zenon DEF PinExit, SavedPinAccepted
<1>17. CASE UNCHANGED pinvars
  BY <1>17, Zenon DEF pinvars, SavedPinAccepted, BuffersSound, BufferSound
<1>18. CASE GetSemaphore
  <2>1. PICK p \in PinProcs :
          /\ pp[p].pc = "semget"
          /\ \/ Put(p, [pp[p] EXCEPT !.sem = psem.n, !.pc = "wait"])
             \/ Put(p, [pp[p] EXCEPT !.sem = psem.n + 1, !.pc = "wait"])
          /\ UNCHANGED <<pshm, ptok>>
    BY <1>18, Zenon DEF GetSemaphore
  <2>2. BuffersSound'
    BY <1>1, <1>2, <1>4, <2>1, BuffersKept, Zenon
  <2> QED
    BY <2>1, <2>2, Zenon DEF SavedPinAccepted
<1>19. CASE BadSemaphore
  <2>1. PICK p \in PinProcs : /\ Put(p, CallbackEnds(pp[p], FALSE))
                              /\ UNCHANGED <<pshm, ptok>>
    BY <1>19, Zenon DEF BadSemaphore
  <2>2. BuffersSound'
    BY <1>1, <1>2, <2>1, BuffersKept, Zenon
  <2> QED
    BY <2>1, <2>2, Zenon DEF SavedPinAccepted
<1>20. CASE BadMemory
  <2>1. PICK p \in PinProcs :
          /\ pp[p].pc = "crit" /\ Put(p, [pp[p] EXCEPT !.pc = "endpost"])
          /\ pshm' \in {pshm, hsm_shm_open} /\ UNCHANGED ptok
    BY <1>20, Zenon DEF BadMemory
  <2>2. BuffersSound'
    BY <1>1, <1>2, <1>4, <2>1, BuffersKept, Zenon
  <2>3. hsm_shm_open.pin # 0 => hsm_shm_open.pin \in A
    BY Zenon DEF hsm_shm_open, SavedPinAccepted
  <2> QED
    BY <2>1, <2>2, <2>3, Zenon DEF SavedPinAccepted
<1> QED
  BY <1>5, <1>6, <1>7, <1>8, <1>9, <1>10, <1>11, <1>12, <1>13, <1>14, <1>15, <1>16, <1>17,
     <1>18, <1>19, <1>20 DEF PinNext

\* No process but p is about to set the semaphore there is now.
NoOtherCreator(p) ==
  \A q \in PinProcs \ {p} : ~(Current(pp[q]) /\ pp[q].pc = "setval")

\* When a unit is there to take, or a process has come past the semaphore, nobody
\* else is about to set it.
LEMMA CreatorAlone ==
  ASSUME PinTypeOK, CreatorFirst, NEW p \in PinProcs,
         \/ psem.val > 0
         \/ Current(pp[p]) /\ pp[p].pc \notin {"idle", "semopen", "semget", "wait", "done"}
  PROVE  NoOtherCreator(p)
<1> SUFFICES ASSUME NEW q \in PinProcs \ {p}, Current(pp[q]), pp[q].pc = "setval"
             PROVE  FALSE
  BY Zenon DEF NoOtherCreator
<1> QED
  BY DEF CreatorFirst

\* One process takes a step on a semaphore that stays: what the process takes and
\* gives is what the others miss and get, and nobody passes the process that is to
\* set the semaphore.
LEMMA UnitMoves ==
  ASSUME PinTypeOK, UnitConserved, SemaphoresKnown, CreatorFirst,
         NEW p \in PinProcs, NEW r \in PinState, Put(p, r),
         psem'.n = psem.n, psem'.there = psem.there, psem'.val \in Nat,
         pleft'.lost \in Nat, pleft'.odd \in Nat,
         r.sem <= psem.n,
         psem.there =>
           (psem'.val - psem.val) + (pleft'.lost - pleft.lost) - (pleft'.odd - pleft.odd)
             = (IF InUse(pp[p]) THEN 1 ELSE 0) - (IF InUse(r) THEN 1 ELSE 0),
         r.pc # "setval",
         \/ NoOtherCreator(p)
         \/ /\ psem'.val = psem.val
            /\ Current(r) => r.pc \in {"idle", "semopen", "semget", "wait", "done"}
  PROVE  UnitConserved' /\ SemaphoresKnown' /\ CreatorFirst'
<1>1. \A q \in PinProcs : pp'[q] = IF q = p THEN r ELSE pp[q]
  BY Zenon DEF PinTypeOK, Put
<1>2. /\ psem.n \in Nat /\ psem.val \in Nat /\ pleft.lost \in Nat /\ pleft.odd \in Nat
      /\ psem.there \in BOOLEAN
  BY PinSemaphores, PinsLeft, Zenon DEF PinTypeOK
<1>3. SemaphoresKnown'
  BY <1>1, Zenon DEF SemaphoresKnown
<1>4. CreatorFirst'
  <2>1. \A q \in PinProcs : Current(pp[q])' <=> Current(IF q = p THEN r ELSE pp[q])
    BY <1>1, Zenon DEF Current
  <2> SUFFICES ASSUME NEW q \in PinProcs, Current(pp[q])', pp'[q].pc = "setval"
               PROVE  /\ psem'.val = 0
                      /\ \A o \in PinProcs \ {q} : Current(pp[o])' =>
                           pp'[o].pc \in {"idle", "semopen", "semget", "wait", "done"}
    BY Zenon DEF CreatorFirst
  <2>2. q # p /\ Current(pp[q]) /\ pp[q].pc = "setval"
    BY <1>1, <2>1, Zenon
  <2>3. /\ psem'.val = psem.val
        /\ Current(r) => r.pc \in {"idle", "semopen", "semget", "wait", "done"}
    BY <2>2, Zenon DEF NoOtherCreator
  <2>4. /\ psem.val = 0
        /\ \A o \in PinProcs \ {q} : Current(pp[o]) =>
             pp[o].pc \in {"idle", "semopen", "semget", "wait", "done"}
    BY <2>2, Zenon DEF CreatorFirst
  <2> QED
    BY <1>1, <2>1, <2>3, <2>4, Zenon
<1>5. UnitConserved'
  <2>1. /\ Cardinality(PinUsers) \in Nat
        /\ (InUse(r) <=> InUse(pp[p])) => Cardinality(PinUsers') = Cardinality(PinUsers)
        /\ InUse(pp[p]) /\ ~InUse(r) => Cardinality(PinUsers') = Cardinality(PinUsers) - 1
        /\ ~InUse(pp[p]) /\ InUse(r) => Cardinality(PinUsers') = Cardinality(PinUsers) + 1
    BY UsersAfter, Zenon DEF Put
  <2>2. psem.there => psem.val + Cardinality(PinUsers) + pleft.lost = 1 + pleft.odd
    BY Zenon DEF UnitConserved, PinUsers
  <2>3. psem.there => psem'.val + Cardinality(PinUsers') + pleft'.lost = 1 + pleft'.odd
    <3> DEFINE a == psem'.val  b == pleft'.lost  c == pleft'.odd
               u == Cardinality(PinUsers)  v == Cardinality(PinUsers')
               i == IF InUse(r) THEN 1 ELSE 0  j == IF InUse(pp[p]) THEN 1 ELSE 0
    <3>1. a \in Nat /\ b \in Nat /\ c \in Nat /\ u \in Nat /\ i \in Nat /\ j \in Nat
      BY <2>1, Zenon
    <3>2. v = u + i - j
      <4>1. CASE InUse(r) /\ InUse(pp[p])
        BY <2>1, <4>1
      <4>2. CASE InUse(r) /\ ~InUse(pp[p])
        BY <2>1, <4>2
      <4>3. CASE ~InUse(r) /\ InUse(pp[p])
        BY <2>1, <4>3
      <4>4. CASE ~InUse(r) /\ ~InUse(pp[p])
        BY <2>1, <4>4
      <4> QED
        BY <4>1, <4>2, <4>3, <4>4, Zenon
    <3>3. psem.there => (a - psem.val) + (b - pleft.lost) - (c - pleft.odd) = j - i
      BY Zenon
    <3>4. psem.there => psem.val + u + pleft.lost = 1 + pleft.odd
      BY <2>2, Zenon
    <3>5. ASSUME psem.there PROVE a + v + b = 1 + c
      <4> DEFINE x == psem.val  y == pleft.lost  z == pleft.odd
      <4>1. x \in Nat /\ y \in Nat /\ z \in Nat
        BY <1>2, Zenon
      <4>2. (a - x) + (b - y) - (c - z) = j - i /\ x + u + y = 1 + z
        BY <3>3, <3>4, <3>5, Zenon
      <4> HIDE DEF a, b, c, u, v, i, j, x, y, z
      <4> QED
        BY <3>1, <3>2, <4>1, <4>2
    <3> QED
      BY <3>5, Zenon
  <2> QED
    BY <2>3, Zenon DEF UnitConserved, PinUsers
<1> QED
  BY <1>3, <1>4, <1>5, Zenon

\* The unit is in one place after every action, and with a new semaphore nothing is
\* lost or odd.
LEMMA UnitKept ==
  ASSUME PinTypeOK, PinTypeOK', UnitConserved, SemaphoresKnown, NothingLostWithout,
         CreatorFirst, [PinNext]_pinvars
  PROVE  UnitConserved' /\ SemaphoresKnown' /\ NothingLostWithout' /\ CreatorFirst'
<1> DEFINE Quiet == {"idle", "semopen", "semget", "wait", "done"}
<1> DEFINE Goal == UnitConserved' /\ SemaphoresKnown' /\ NothingLostWithout' /\ CreatorFirst'
<1>1. /\ psem.n \in Nat /\ psem.val \in Nat /\ pleft.lost \in Nat /\ pleft.odd \in Nat
      /\ psem'.n \in Nat /\ psem'.val \in Nat /\ pleft'.lost \in Nat /\ pleft'.odd \in Nat
      /\ psem.there \in BOOLEAN
  BY PinSemaphores, PinsLeft, Zenon DEF PinTypeOK
<1>2. \A p \in PinProcs : /\ pp[p] \in PinState /\ pp'[p] \in PinState
                           /\ pp[p].sem \in Nat /\ pp[p].sem <= psem.n
  BY Zenon DEF PinTypeOK, PinState, SemaphoresKnown
<1>3. ASSUME NEW p \in PinProcs, NEW r, Put(p, r) PROVE r \in PinState
  BY <1>2, <1>3, Zenon DEF PinTypeOK, Put
\* A step that leaves the semaphore alone, of a process that has no unit.
<1>4. ASSUME NEW p \in PinProcs, NEW r, Put(p, r), UNCHANGED psem,
             pleft'.lost = pleft.lost, pleft'.odd = pleft.odd,
             r.sem <= psem.n, ~InUse(pp[p]), ~InUse(r), r.pc # "setval",
             (Current(r) => r.pc \in Quiet) \/ NoOtherCreator(p)
      PROVE  Goal
  <2>1. r \in PinState
    BY <1>3, <1>4, Zenon
  <2>2. UnitConserved' /\ SemaphoresKnown' /\ CreatorFirst'
    BY <1>1, <1>4, <2>1, UnitMoves
  <2> QED
    BY <1>4, <2>2, Zenon DEF NothingLostWithout
<1>5. ASSUME NEW p \in PinProcs, NEW got \in BOOLEAN
      PROVE  /\ CallbackEnds(pp[p], got).sem = pp[p].sem
             /\ CallbackEnds(pp[p], got).pc = IF got /\ pp[p].mode # "save" THEN "login"
                                              ELSE "done"
  BY <1>2, <1>5, Zenon DEF CallbackEnds, PinState
<1>6. PinIdle.pc = "idle" /\ PinIdle.sem = 0 /\ 0 <= psem.n
  BY <1>1 DEF PinIdle
<1>7. CASE PinOpen
  <2>1. PICK p \in PinProcs :
          /\ pp[p].pc = "idle" /\ Put(p, [PinIdle EXCEPT !.pc = "semopen"])
          /\ pleft' = [pleft EXCEPT !.opens = @ - 1] /\ UNCHANGED psem
    BY <1>7, Zenon DEF PinOpen
  <2>2. pleft'.lost = pleft.lost /\ pleft'.odd = pleft.odd
    BY <2>1, Zenon DEF PinTypeOK, PinLeft
  <2>3. /\ [PinIdle EXCEPT !.pc = "semopen"].pc = "semopen"
        /\ [PinIdle EXCEPT !.pc = "semopen"].sem = 0
    BY Zenon DEF PinIdle
  <2> QED
    BY <1>4, <1>6, <2>1, <2>2, <2>3, Zenon DEF InUse
<1>8. CASE hsm_sem_open
  <2>1. PICK p \in PinProcs :
          /\ pp[p].pc = "semopen"
          /\ IF psem.there
             THEN Put(p, [pp[p] EXCEPT !.pc = "semget"]) /\ UNCHANGED psem
             ELSE /\ psem' = [n |-> psem.n + 1, there |-> TRUE, val |-> 0]
                  /\ Put(p, [pp[p] EXCEPT !.sem = psem.n + 1, !.pc = "setval"])
          /\ UNCHANGED pleft
    BY <1>8, Zenon DEF hsm_sem_open
  <2>2. CASE psem.there
    <3>1. /\ [pp[p] EXCEPT !.pc = "semget"].pc = "semget"
          /\ [pp[p] EXCEPT !.pc = "semget"].sem = pp[p].sem
      BY <1>2, Zenon DEF PinState
    <3> QED
      BY <1>2, <1>4, <2>1, <2>2, <3>1, Zenon DEF InUse
  <2>3. CASE ~psem.there
    <3> DEFINE r == [pp[p] EXCEPT !.sem = psem.n + 1, !.pc = "setval"]
    <3>1. r.pc = "setval" /\ r.sem = psem.n + 1
      BY <1>2, Zenon DEF PinState
    <3>2. \A q \in PinProcs : pp'[q] = IF q = p THEN r ELSE pp[q]
      BY <2>1, <2>3, Zenon DEF PinTypeOK, Put
    <3>3. psem'.n = psem.n + 1 /\ psem'.there /\ psem'.val = 0
      BY <2>1, <2>3
    <3>4. \A q \in PinProcs : Current(pp[q])' <=> q = p
      <4>1. \A q \in PinProcs \ {p} : pp'[q].sem # psem.n + 1
        BY <1>1, <1>2, <3>2
      <4> QED
        BY <3>1, <3>2, <3>3, <4>1, Zenon DEF Current
    <3>5. PinUsers' = {p}
      BY <3>1, <3>2, <3>4, Zenon DEF PinUsers, InUse
    <3>6. Cardinality({p}) = 1
      BY FS_Singleton, Zenon
    <3>7. UnitConserved'
      <4>1. psem'.val + Cardinality(PinUsers') + pleft'.lost = 1 + pleft'.odd
        BY <1>1, <2>1, <2>3, <3>3, <3>5, <3>6 DEF NothingLostWithout
      <4> QED
        BY <4>1, Zenon DEF UnitConserved, PinUsers
    <3>8. SemaphoresKnown'
      <4>1. \A q \in PinProcs : pp[q].sem <= psem.n + 1
        BY <1>1, <1>2
      <4>2. psem.n + 1 <= psem.n + 1
        BY <1>1
      <4> QED
        BY <3>1, <3>2, <3>3, <4>1, <4>2, Zenon DEF SemaphoresKnown
    <3>9. CreatorFirst' /\ NothingLostWithout'
      BY <3>3, <3>4, Zenon DEF CreatorFirst, NothingLostWithout
    <3> QED
      BY <3>7, <3>8, <3>9, Zenon
  <2> QED
    BY <2>2, <2>3, Zenon
<1>9. CASE SetSemaphore
  <2>1. PICK p \in PinProcs :
          /\ pp[p].pc = "setval"
          /\ IF Current(pp[p])
             THEN psem' = [psem EXCEPT !.val = 1] /\ Put(p, [pp[p] EXCEPT !.pc = "wait"])
             ELSE Put(p, CallbackEnds(pp[p], FALSE)) /\ UNCHANGED psem
          /\ UNCHANGED pleft
    BY <1>9, Zenon DEF SetSemaphore
  <2>2. CASE Current(pp[p])
    <3> DEFINE r == [pp[p] EXCEPT !.pc = "wait"]
    <3>1. r.pc = "wait" /\ r.sem = pp[p].sem /\ r \in PinState
      BY <1>2 DEF PinState, PinAt
    <3>2. psem'.n = psem.n /\ psem'.there = psem.there /\ psem'.val = 1
      BY <2>1, <2>2, Zenon DEF PinTypeOK, PinSemaphore
    <3>3. psem.val = 0 /\ NoOtherCreator(p)
      BY <2>1, <2>2, CreatorAlone, Zenon DEF CreatorFirst
    <3>4. InUse(pp[p]) /\ ~InUse(r)
      BY <2>1, <2>2, <3>1, Zenon DEF InUse
    <3>5. UnitConserved' /\ SemaphoresKnown' /\ CreatorFirst'
      <4> HIDE DEF r
      <4>1. r.sem <= psem.n /\ Put(p, r)
        BY <1>2, <2>1, <2>2, <3>1, Zenon DEF r
      <4>2. (psem'.val - psem.val) + (pleft'.lost - pleft.lost) - (pleft'.odd - pleft.odd)
              = (IF InUse(pp[p]) THEN 1 ELSE 0) - (IF InUse(r) THEN 1 ELSE 0)
        BY <1>1, <2>1, <3>2, <3>3, <3>4
      <4> QED
        BY <1>1, <3>1, <3>2, <3>3, <4>1, <4>2, UnitMoves, Zenon
    <3> QED
      BY <2>1, <3>2, <3>5, Zenon DEF NothingLostWithout
  <2>3. CASE ~Current(pp[p])
    BY <1>2, <1>4, <1>5, <2>1, <2>3, Zenon DEF InUse, Current
  <2> QED
    BY <2>2, <2>3, Zenon
<1>10. CASE hsm_sem_wait
  <2>1. PICK p \in PinProcs, break \in BOOLEAN :
          LET r == pp[p]
              again == r.pc = "rewait"
              fails == break \/ ~Current(r)
          IN /\ r.pc \in {"wait", "rewait"}
             /\ break => Current(r) /\ psem.val = 0
             /\ ~fails => psem.val > 0
             /\ psem' = IF fails THEN psem ELSE [psem EXCEPT !.val = @ - 1]
             /\ pleft' = [pleft EXCEPT !.breaks = IF break THEN @ - 1 ELSE @,
                                       !.odd = IF break /\ again THEN @ + 1 ELSE @]
             /\ Put(p, IF again THEN [r EXCEPT !.pc = "post", !.pin = r.typed, !.typed = 0]
                       ELSE IF fails THEN CallbackEnds(r, FALSE)
                       ELSE [r EXCEPT !.pc = "crit"])
    BY <1>10, Zenon DEF hsm_sem_wait
  <2>2. /\ pleft'.lost = pleft.lost
        /\ pleft'.odd = IF break /\ pp[p].pc = "rewait" THEN pleft.odd + 1 ELSE pleft.odd
    BY <2>1, Zenon DEF PinTypeOK, PinLeft
  <2> DEFINE r == IF pp[p].pc = "rewait"
                  THEN [pp[p] EXCEPT !.pc = "post", !.pin = pp[p].typed, !.typed = 0]
                  ELSE IF break \/ ~Current(pp[p]) THEN CallbackEnds(pp[p], FALSE)
                  ELSE [pp[p] EXCEPT !.pc = "crit"]
  <2>3. /\ r.sem = pp[p].sem
        /\ r.pc = IF pp[p].pc = "rewait" THEN "post"
                  ELSE IF break \/ ~Current(pp[p]) THEN "done" ELSE "crit"
    BY <1>2, <1>5, Zenon DEF PinState
  <2>4. Put(p, r)
    BY <2>1, Zenon
  <2> HIDE DEF r
  <2>5. r \in PinState /\ r.sem <= psem.n /\ r.pc # "setval"
    BY <1>2, <1>3, <2>3, <2>4, Zenon
  <2>6. (Current(r) <=> Current(pp[p])) /\ ~InUse(pp[p])
    BY <2>1, <2>3, Zenon DEF Current, InUse
  <2>7. CASE break \/ ~Current(pp[p])
    <3>1. UNCHANGED psem
      BY <2>1, <2>7, Zenon
    <3>2. InUse(r) <=> Current(pp[p]) /\ pp[p].pc = "rewait"
      BY <2>3, <2>6, <2>7, Zenon DEF InUse
    <3>3. NoOtherCreator(p) \/ (Current(r) => r.pc \in Quiet)
      BY <2>1, <2>3, <2>6, <2>7, CreatorAlone, Zenon
    <3>4. (psem'.val - psem.val) + (pleft'.lost - pleft.lost) - (pleft'.odd - pleft.odd)
            = (IF InUse(pp[p]) THEN 1 ELSE 0) - (IF InUse(r) THEN 1 ELSE 0)
      <4>1. (break /\ pp[p].pc = "rewait") <=> InUse(r)
        BY <2>1, <2>7, <3>2, Zenon
      <4>2. psem'.val = psem.val
        BY <3>1, Zenon
      <4> QED
        BY <1>1, <2>2, <2>6, <4>1, <4>2
    <3>5. UnitConserved' /\ SemaphoresKnown' /\ CreatorFirst'
      BY <1>1, <2>4, <2>5, <3>1, <3>3, <3>4, UnitMoves, Zenon
    <3>6. NothingLostWithout'
      BY <2>1, <2>2, <3>1, Zenon DEF NothingLostWithout, Current
    <3> QED
      BY <3>5, <3>6, Zenon
  <2>8. CASE ~break /\ Current(pp[p])
    <3>1. psem.val > 0 /\ psem' = [psem EXCEPT !.val = @ - 1]
      BY <2>1, <2>8, Zenon
    <3>2. psem'.n = psem.n /\ psem'.there = psem.there /\ psem'.val = psem.val - 1
      BY <3>1, Zenon DEF PinTypeOK, PinSemaphore
    <3>3. InUse(r)
      BY <2>3, <2>6, <2>8, Zenon DEF InUse
    <3>4. (psem'.val - psem.val) + (pleft'.lost - pleft.lost) - (pleft'.odd - pleft.odd)
            = (IF InUse(pp[p]) THEN 1 ELSE 0) - (IF InUse(r) THEN 1 ELSE 0)
      BY <1>1, <2>2, <2>6, <2>8, <3>2, <3>3
    <3>5. NoOtherCreator(p)
      BY <3>1, CreatorAlone, Zenon
    <3>6. UnitConserved' /\ SemaphoresKnown' /\ CreatorFirst'
      BY <1>1, <2>4, <2>5, <3>2, <3>4, <3>5, UnitMoves, Zenon
    <3> QED
      BY <2>2, <2>8, <3>2, <3>6, Zenon DEF NothingLostWithout
  <2> QED
    BY <2>7, <2>8, Zenon
<1>11. CASE UsePins
  <2>1. PICK p \in PinProcs :
          LET out == IF p \in PinAskers THEN hsm_prompt_pin(pp[p], hsm_shm_open)
                     ELSE hsm_check_pin(pp[p], hsm_shm_open)
          IN pp[p].pc = "crit" /\ Put(p, out.r) /\ UNCHANGED <<psem, pleft>>
    BY <1>11, Zenon DEF UsePins
  <2>2. ASSUME NEW m
        PROVE  LET r == hsm_prompt_pin(pp[p], m).r
               IN r.sem = pp[p].sem /\ r.pc \in {"post", "askpost"}
    BY <1>2, Zenon DEF hsm_prompt_pin, PinState
  <2>3. ASSUME NEW m
        PROVE  LET r == hsm_check_pin(pp[p], m).r
               IN r.sem = pp[p].sem /\ r.pc \in {"post", "endpost"}
    BY <1>2, Zenon DEF hsm_check_pin, PinState
  <2>4. PICK r : Put(p, r) /\ r.sem = pp[p].sem /\ r.pc \in {"post", "askpost", "endpost"}
    BY <2>1, <2>2, <2>3, Zenon
  <2>5. r \in PinState /\ r.sem <= psem.n
    BY <1>2, <1>3, <2>4, Zenon
  <2>6. InUse(r) <=> InUse(pp[p])
    BY <2>1, <2>4, Zenon DEF InUse, Current
  <2>7. NoOtherCreator(p) \/ (Current(r) => r.pc \in Quiet)
    BY <2>1, <2>4, CreatorAlone, Zenon DEF Current
  <2>8. (psem'.val - psem.val) + (pleft'.lost - pleft.lost) - (pleft'.odd - pleft.odd)
          = (IF InUse(pp[p]) THEN 1 ELSE 0) - (IF InUse(r) THEN 1 ELSE 0)
    BY <1>1, <2>1, <2>6
  <2>9. UnitConserved' /\ SemaphoresKnown' /\ CreatorFirst'
    BY <1>1, <2>1, <2>4, <2>5, <2>7, <2>8, UnitMoves, Zenon
  <2> QED
    BY <2>1, <2>9, Zenon DEF NothingLostWithout
<1>12. CASE hsm_sem_post
  <2>1. PICK p \in PinProcs :
          LET r == pp[p]
          IN /\ r.pc \in {"askpost", "post", "endpost"}
             /\ psem' = IF Current(r) THEN [psem EXCEPT !.val = @ + 1] ELSE psem
             /\ Put(p, CASE r.pc = "askpost" -> [r EXCEPT !.pc = "ask"]
                         [] r.pc = "post" -> CallbackEnds(r, TRUE)
                         [] r.pc = "endpost" -> CallbackEnds(r, FALSE))
             /\ UNCHANGED pleft
    BY <1>12, Zenon DEF hsm_sem_post
  <2>2. [pp[p] EXCEPT !.pc = "ask"].pc = "ask" /\ [pp[p] EXCEPT !.pc = "ask"].sem = pp[p].sem
    BY <1>2, Zenon DEF PinState
  <2>3. PICK r : Put(p, r) /\ r.sem = pp[p].sem /\ r.pc \in {"ask", "login", "done"}
    BY <1>5, <2>1, <2>2, Zenon
  <2>4. r \in PinState /\ r.sem <= psem.n /\ ~InUse(r)
    BY <1>2, <1>3, <2>3, Zenon DEF InUse
  <2>5. CASE Current(pp[p])
    <3>1. psem'.n = psem.n /\ psem'.there = psem.there /\ psem'.val = psem.val + 1
      BY <2>1, <2>5, Zenon DEF PinTypeOK, PinSemaphore
    <3>2. InUse(pp[p]) /\ NoOtherCreator(p)
      BY <2>1, <2>5, CreatorAlone, Zenon DEF InUse
    <3>3. (psem'.val - psem.val) + (pleft'.lost - pleft.lost) - (pleft'.odd - pleft.odd)
            = (IF InUse(pp[p]) THEN 1 ELSE 0) - (IF InUse(r) THEN 1 ELSE 0)
      BY <1>1, <2>1, <2>4, <3>1, <3>2
    <3>4. UnitConserved' /\ SemaphoresKnown' /\ CreatorFirst'
      BY <1>1, <2>3, <2>4, <3>1, <3>2, <3>3, UnitMoves, Zenon
    <3> QED
      BY <2>1, <3>1, <3>4, Zenon DEF NothingLostWithout
  <2>6. CASE ~Current(pp[p])
    BY <1>4, <2>1, <2>3, <2>4, <2>6, Zenon DEF InUse, Current
  <2> QED
    BY <2>5, <2>6, Zenon
<1>13. CASE prompt_pass
  <2>1. PICK p \in PinProcs, typed \in Pins \cup {0}, tty \in BOOLEAN :
          /\ pp[p].pc = "ask"
          /\ Put(p, IF tty THEN [pp[p] EXCEPT !.typed = typed, !.pc = "rewait"]
                    ELSE CallbackEnds(pp[p], FALSE))
          /\ UNCHANGED <<psem, pleft>>
    BY <1>13, Zenon DEF prompt_pass
  <2>2. /\ [pp[p] EXCEPT !.typed = typed, !.pc = "rewait"].pc = "rewait"
        /\ [pp[p] EXCEPT !.typed = typed, !.pc = "rewait"].sem = pp[p].sem
    BY <1>2, Zenon DEF PinState
  <2>3. PICK r : Put(p, r) /\ r.sem = pp[p].sem /\ r.pc \in {"rewait", "done"}
    BY <1>5, <2>1, <2>2, Zenon
  <2>4. NoOtherCreator(p) \/ (Current(r) => r.pc \in Quiet)
    BY <2>1, <2>3, CreatorAlone, Zenon DEF Current
  <2> QED
    BY <1>2, <1>4, <2>1, <2>3, <2>4, Zenon DEF InUse
<1>14. CASE PinAttach
  <2>1. PICK p \in PinProcs :
          pp[p].pc = "login" /\ Put(p, PinLogin(p, pp[p])) /\ UNCHANGED <<psem, pleft>>
    BY <1>14, Zenon DEF PinAttach
  <2>2. PinLogin(p, pp[p]).sem = pp[p].sem /\ PinLogin(p, pp[p]).pc \in {"semopen", "done"}
    BY <1>2, Zenon DEF PinLogin, PinState
  <2> QED
    BY <1>2, <1>4, <2>1, <2>2, Zenon DEF InUse
<1>15. CASE hsm_logout_pin
  <2>1. CASE UNCHANGED <<psem, pp, pleft>>
    BY <2>1, Zenon DEF UnitConserved, SemaphoresKnown, NothingLostWithout, CreatorFirst, InUse, Current
  <2>2. CASE /\ psem' = [psem EXCEPT !.there = FALSE, !.val = 0]
             /\ pleft' = [pleft EXCEPT !.logouts = @ - 1, !.lost = 0, !.odd = 0]
             /\ UNCHANGED pp
    <3>1. psem'.n = psem.n /\ ~psem'.there
      BY <2>2, Zenon DEF PinTypeOK, PinSemaphore
    <3>2. pleft'.lost = 0 /\ pleft'.odd = 0
      BY <2>2, Zenon DEF PinTypeOK, PinLeft
    <3> QED
      BY <2>2, <3>1, <3>2, Zenon
         DEF UnitConserved, SemaphoresKnown, NothingLostWithout, CreatorFirst, Current
  <2> QED
    BY <1>15, <2>1, <2>2, Zenon DEF hsm_logout_pin
<1>16. CASE PinChanged
  <2>1. pleft'.lost = pleft.lost /\ pleft'.odd = pleft.odd
    BY <1>16, Zenon DEF PinChanged, PinTypeOK, PinLeft
  <2> QED
    BY <1>16, <2>1 DEF PinChanged, UnitConserved, SemaphoresKnown, NothingLostWithout,
                       CreatorFirst, InUse, Current
<1>17. CASE PinDeath
  <2>1. PICK p \in PinProcs :
          /\ Put(p, PinIdle)
          /\ pleft' = [pleft EXCEPT !.deaths = @ - 1,
                                    !.lost = IF InUse(pp[p]) THEN @ + 1 ELSE @]
          /\ UNCHANGED psem
    BY <1>17, Zenon DEF PinDeath
  <2>2. /\ pleft'.odd = pleft.odd
        /\ pleft'.lost = IF InUse(pp[p]) THEN pleft.lost + 1 ELSE pleft.lost
    BY <2>1, Zenon DEF PinTypeOK, PinLeft
  <2>3. ~InUse(PinIdle) /\ PinIdle \in PinState
    BY <1>3, <1>6, <2>1, Zenon DEF InUse
  <2>4. (psem'.val - psem.val) + (pleft'.lost - pleft.lost) - (pleft'.odd - pleft.odd)
          = (IF InUse(pp[p]) THEN 1 ELSE 0) - (IF InUse(PinIdle) THEN 1 ELSE 0)
    BY <1>1, <2>1, <2>2, <2>3
  <2>5. UnitConserved' /\ SemaphoresKnown' /\ CreatorFirst'
    BY <1>1, <1>6, <2>1, <2>3, <2>4, UnitMoves, Zenon
  <2>6. NothingLostWithout'
    BY <2>1, <2>2, Zenon DEF NothingLostWithout, InUse, Current
  <2> QED
    BY <2>5, <2>6, Zenon
<1>18. CASE PinExit
  <2>1. PICK p \in PinProcs :
          pp[p].pc = "done" /\ Put(p, PinIdle) /\ UNCHANGED <<psem, pleft>>
    BY <1>18, Zenon DEF PinExit
  <2> QED
    BY <1>4, <1>6, <2>1, Zenon DEF InUse
<1>19. CASE UNCHANGED pinvars
  BY <1>19, Zenon DEF pinvars, UnitConserved, SemaphoresKnown, NothingLostWithout, CreatorFirst,
               InUse, Current
<1>20. CASE GetSemaphore
  <2>1. PICK p \in PinProcs :
          /\ pp[p].pc = "semget"
          /\ \/ /\ psem.there
                /\ Put(p, [pp[p] EXCEPT !.sem = psem.n, !.pc = "wait"])
                /\ UNCHANGED <<psem, pleft>>
             \/ /\ ~psem.there
                /\ psem' = [n |-> psem.n + 1, there |-> TRUE, val |-> 0]
                /\ Put(p, [pp[p] EXCEPT !.sem = psem.n + 1, !.pc = "wait"])
                /\ pleft' = [pleft EXCEPT !.lost = @ + 1]
    BY <1>20, Zenon DEF GetSemaphore
  <2>2. CASE psem.there
    <3>1. /\ [pp[p] EXCEPT !.sem = psem.n, !.pc = "wait"].pc = "wait"
          /\ [pp[p] EXCEPT !.sem = psem.n, !.pc = "wait"].sem = psem.n
      BY <1>2, Zenon DEF PinState
    <3>2. psem.n <= psem.n
      BY <1>1
    <3> QED
      BY <1>4, <2>1, <2>2, <3>1, <3>2, Zenon DEF InUse
  <2>3. CASE ~psem.there
    <3> DEFINE r == [pp[p] EXCEPT !.sem = psem.n + 1, !.pc = "wait"]
    <3>1. r.pc = "wait" /\ r.sem = psem.n + 1
      BY <1>2, Zenon DEF PinState
    <3>2. \A q \in PinProcs : pp'[q] = IF q = p THEN r ELSE pp[q]
      BY <2>1, <2>3, Zenon DEF PinTypeOK, Put
    <3>3. psem'.n = psem.n + 1 /\ psem'.there /\ psem'.val = 0
      BY <2>1, <2>3
    <3>4. \A q \in PinProcs : Current(pp[q])' <=> q = p
      <4>1. \A q \in PinProcs \ {p} : pp'[q].sem # psem.n + 1
        BY <1>1, <1>2, <3>2
      <4> QED
        BY <3>1, <3>2, <3>3, <4>1, Zenon DEF Current
    <3>5. PinUsers' = {}
      BY <3>1, <3>2, <3>4, Zenon DEF PinUsers, InUse
    <3>6. pleft'.odd = pleft.odd /\ pleft'.lost = pleft.lost + 1
      BY <2>1, <2>3, Zenon DEF PinTypeOK, PinLeft
    <3>7. UnitConserved'
      <4>1. Cardinality({}) = 0
        BY FS_EmptySet, Zenon
      <4>2. psem'.val + Cardinality(PinUsers') + pleft'.lost = 1 + pleft'.odd
        BY <2>3, <3>3, <3>5, <3>6, <4>1 DEF NothingLostWithout
      <4> QED
        BY <4>2, Zenon DEF UnitConserved, PinUsers
    <3>8. SemaphoresKnown'
      <4>1. \A q \in PinProcs : pp[q].sem <= psem.n + 1
        BY <1>1, <1>2
      <4>2. psem.n + 1 <= psem.n + 1
        BY <1>1
      <4> QED
        BY <3>1, <3>2, <3>3, <4>1, <4>2, Zenon DEF SemaphoresKnown
    <3>9. CreatorFirst' /\ NothingLostWithout'
      BY <3>1, <3>2, <3>3, <3>4, Zenon DEF CreatorFirst, NothingLostWithout
    <3> QED
      BY <3>7, <3>8, <3>9, Zenon
  <2> QED
    BY <2>2, <2>3, Zenon
<1>21. CASE BadSemaphore
  <2>1. PICK p \in PinProcs :
          pp[p].pc = "wait" /\ Put(p, CallbackEnds(pp[p], FALSE)) /\ UNCHANGED <<psem, pleft>>
    BY <1>21, Zenon DEF BadSemaphore
  <2> QED
    BY <1>2, <1>4, <1>5, <2>1, Zenon DEF InUse
<1>22. CASE BadMemory
  <2> DEFINE r(p) == [pp[p] EXCEPT !.pc = "endpost"]
  <2>1. PICK p \in PinProcs : pp[p].pc = "crit" /\ Put(p, r(p)) /\ UNCHANGED <<psem, pleft>>
    BY <1>22, Zenon DEF BadMemory
  <2>2. r(p).sem = pp[p].sem /\ r(p).pc = "endpost"
    BY <1>2, Zenon DEF PinState
  <2> HIDE DEF r
  <2>3. r(p) \in PinState /\ r(p).sem <= psem.n
    BY <1>2, <1>3, <2>1, <2>2, Zenon
  <2>4. InUse(r(p)) <=> InUse(pp[p])
    BY <2>1, <2>2, Zenon DEF InUse, Current
  <2>5. NoOtherCreator(p) \/ (Current(r(p)) => r(p).pc \in Quiet)
    BY <2>1, <2>2, CreatorAlone, Zenon DEF Current
  <2>6. (psem'.val - psem.val) + (pleft'.lost - pleft.lost) - (pleft'.odd - pleft.odd)
          = (IF InUse(pp[p]) THEN 1 ELSE 0) - (IF InUse(r(p)) THEN 1 ELSE 0)
    BY <1>1, <2>1, <2>4
  <2>7. UnitConserved' /\ SemaphoresKnown' /\ CreatorFirst'
    BY <1>1, <2>1, <2>2, <2>3, <2>5, <2>6, UnitMoves, Zenon
  <2> QED
    BY <2>1, <2>7, Zenon DEF NothingLostWithout
<1> QED
  BY <1>7, <1>8, <1>9, <1>10, <1>11, <1>12, <1>13, <1>14, <1>15, <1>16, <1>17, <1>18, <1>19,
     <1>20, <1>21, <1>22 DEF PinNext

\* The PIN is handed on as it should be, for any number of processes, PINs and
\* attempts, and however often they die, are interrupted or are logged out: a PIN
\* in the shared memory was accepted by the token, the unit of the semaphore is in
\* one place or known to be lost, and no buffer keeps a PIN that is not in use
\* (hsm_sem_open, hsm_prompt_pin, hsm_check_pin, hsm_open2).
THEOREM PinHandedOn == PinSpec => []PinSound
<1>1. PinInit => PinInv
  BY PinInitial, Zenon
<1>2. PinInv /\ [PinNext]_pinvars => PinInv'
  BY PinTypes, PinsAccepted, UnitKept, Zenon DEF PinInv
<1>3. PinInv => PinSound
  BY Zenon DEF PinInv, PinSound, BufferCleared, BuffersSound, BufferSound
<1> QED
  BY <1>1, <1>2, <1>3, PTL DEF PinSpec

=============================================================================
