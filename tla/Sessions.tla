------------------------------ MODULE Sessions ------------------------------
(***************************************************************************)
(* The enforcer's tasks and commands as threads that work on the database: *)
(* read it (BeginSession), change the copy (Work), commit (Lock, Write, Unlock).  *)
(* What the copy is changed to is the writes an operation makes of it.     *)
(* Enforcing and generating are tasks that run again and again; the others *)
(* are commands and tasks that an operator or the clock starts.            *)
(*                                                                         *)
(* Time is left out: which keys are hidden by now and which of them are    *)
(* old enough to be purged is a choice.  "zone set-policy" does not use    *)
(* dbw.c: it reads and updates the zone row without the lock.              *)
(***************************************************************************)
EXTENDS KeyFactory

CONSTANT
  SessionScenarios \* what is in the database, what is run, and how often

VARIABLES
  story, \* the scenario of this behaviour
  started,  \* how many operations were started
  owed      \* zones with an accepted rollover and no new key since

sessionVars == <<dbVars, factoryVars, story, started, owed>>

(* The writes of a thread that deletes the keys ks of its copy: their      *)
(* states, the keys, the dependencies deps and what hsm_key_factory_       *)
(* release_key marks.                                                      *)
KeysDeleted(s, ks, deps) ==
  {Delete(s, "key", k) : k \in ks}
  \union {Delete(s, "keystate", i) :
            i \in UNION {Children(s, "keystate", <<"key", k>>) : k \in ks}}
  \union {Delete(s, "keydependency", d) : d \in deps}
  \union {Delete(s, "hsmkey", h) : h \in Released(s, ks)}

DepsFrom(s, ks) == {d \in DOMAIN s["keydependency"] :
                      \E k \in ks : s["keydependency"][d].up[2] = <<"key", k>>}

DepsTo(s, ks) == {d \in DOMAIN s["keydependency"] :
                    \E k \in ks : s["keydependency"][d].up[3] = <<"key", k>>}

KeysOf(s, z) == Children(s, "key", <<"zone", z>>)

HiddenKey(s, k) ==
  \A i \in Children(s, "keystate", <<"key", k>>) : s["keystate"][i].val.hidden

(* The keys removeDeadKeys may delete.                                     *)
Purgable(s, z) ==
  {k \in KeysOf(s, z) : ~s["key"][k].val.introducing /\ HiddenKey(s, k)}

ZoneUpdate(s, z, roll) == Update(s, "zone", z, [s["zone"][z].val EXCEPT !.roll = roll])

(* updatePolicy with a key h: the key joins the zone, the keys before it   *)
(* are decommissioned, a roll that was asked for is done.                  *)
KeyAdded(s, z, h, pol) ==
  {ZoneUpdate(s, z, FALSE),
   Dirty("INSERT", "key", 0 - 1, <<<<"zone", z>>, <<"hsmkey", h>>>>, [introducing |-> TRUE]),
   Dirty("INSERT", "keystate", 0 - 1, <<<<"key", 0 - 1>>>>, [hidden |-> FALSE])}
  \union {Update(s, "key", k, [introducing |-> FALSE]) :
            k \in {k \in KeysOf(s, z) : s["key"][k].val.introducing}}
  \union IF s["hsmkey"][h].val.state = "UNUSED"
         THEN {Update(s, "hsmkey", h,
                 [s["hsmkey"][h].val EXCEPT !.state = IF Shared(s, pol) THEN "SHARED" ELSE "PRIVATE"])}
         ELSE {}

(* updateZone: keys of the zone become hidden; a key on its way out is     *)
(* made to depend on its successor.                                        *)
KeysHidden(s, ks) ==
  {Update(s, "keystate", i, [hidden |-> TRUE]) :
     i \in UNION {Children(s, "keystate", <<"key", k>>) : k \in ks}}

MarkSuccessors(s, z, ks) ==
  LET to == {k \in KeysOf(s, z) : s["key"][k].val.introducing}
      from == {k \in ks : DepsFrom(s, {k}) = {}}
  IN IF from = {} \/ to = {} THEN {}
     ELSE {Dirty("INSERT", "keydependency", 0 - 1,
             <<<<"zone", z>>, <<"key", Min(from)>>, <<"key", Min(to)>>>>, [on |-> TRUE])}

-----------------------------------------------------------------------------
(* Operations.  Each says what the work of thread p on its copy s is; the  *)
(* copy is dropped and the writes are kept.                                *)

Ready(p, writes) ==
  sess' = [sess EXCEPT ![p] =
             [step |-> "ready", op |-> @.op, arg |-> @.arg, writes |-> writes,
              revs |-> [w \in {v \in writes : v.kind = "UPDATE"} |->
                          @.snap[w.table][w.id].rev]]]

(* perform_enforce.  The key h is 0 when none is needed or none is there.  *)
Enforce(p, s, z) ==
  \E dead \in SUBSET Purgable(s, z) :
  \E old \in SUBSET {k \in KeysOf(s, z) \ dead :
                     ~s["key"][k].val.introducing /\ ~HiddenKey(s, k)} :
  \E settled \in SUBSET DepsTo(s, {k \in KeysOf(s, z) : s["key"][k].val.introducing}) :
    LET pol == PolicyOf(s, "zone", z)
        need == s["zone"][z].val.roll \/ KeysOf(s, z) = {}
        reuse == getLastReusableKey(s, pol, z)
        free == available(s, pol)
        h == IF reuse # 0 THEN reuse ELSE IF free = {} THEN 0 ELSE Min(free)
        rest == KeysDeleted(s, dead, DepsFrom(s, dead) \union DepsTo(s, dead))
                \union KeysHidden(s, old) \union MarkSuccessors(s, z, old)
                \union {Delete(s, "keydependency", d) : d \in settled}
        writes == rest \union IF need /\ h # 0 THEN KeyAdded(s, z, h, pol)
                              ELSE {ZoneUpdate(s, z, s["zone"][z].val.roll)}
    IN /\ Ready(p, writes)
       /\ IF need /\ reuse = 0 THEN hsm_key_factory_get_key(s, pol, z, h)
          ELSE UNCHANGED <<ru_nonshared_keys, ru_index, genq>>
       /\ hsmKeys' = hsmKeys \ Locators(s, Released(s, dead))
       /\ UNCHANGED made

(* generate_cb, committing what it made.                                   *)
Generate(p, s) ==
  \E todo \in {generate_cb(s)} :
  \E n \in {Min({Len(todo), Capacity - made})} :
    /\ Ready(p, {Dirty("INSERT", "hsmkey", 0 - i, <<<<"policy", todo[i]>>>>,
                       [state |-> "UNUSED", locator |-> made + i]) : i \in 1..n})
    /\ genq' = <<>>
    /\ made' = made + n /\ hsmKeys' = hsmKeys \union (made + 1)..(made + n)
    /\ UNCHANGED <<ru_nonshared_keys, ru_index>>

(* Commands and tasks that only mark rows.                                 *)
Marks(p, writes) == Ready(p, writes) /\ UNCHANGED factoryVars

Deletes(p, s, ks, writes) ==
  /\ Ready(p, writes)
  /\ hsmKeys' = hsmKeys \ Locators(s, Released(s, ks))
  /\ UNCHANGED <<ru_nonshared_keys, ru_index, genq, made>>

(* key rollover                                                            *)
RolloverCmd(p, s, z) == Marks(p, {ZoneUpdate(s, z, TRUE)})

(* signconf_export                                                         *)
WriteSignconf(p, s, z) == Marks(p, {ZoneUpdate(s, z, s["zone"][z].val.roll)})

(* key ds-submit, ds-seen, ds-retract, ds-gone: the DS of the zone's keys. *)
ChangeDs(p, s, z) ==
  Marks(p, {Update(s, "key", k, s["key"][k].val) : k \in KeysOf(s, z)}
           \union {Update(s, "keystate", i, s["keystate"][i].val) :
                     i \in UNION {Children(s, "keystate", <<"key", k>>) : k \in KeysOf(s, z)}})

(* backup prepare, commit and rollback                                     *)
Backup(p, s) ==
  Marks(p, {Update(s, "hsmkey", h, s["hsmkey"][h].val) : h \in DOMAIN s["hsmkey"]})

(* The resalt task.                                                        *)
Resalt(p, s, pol) == Marks(p, {Update(s, "policy", pol, s["policy"][pol].val)})

(* policy import of a changed policy: its keys are deleted and added.      *)
PolicyImport(p, s, pol) ==
  Marks(p, {Update(s, "policy", pol, s["policy"][pol].val),
            Dirty("INSERT", "policykey", 0 - 1, <<<<"policy", pol>>>>, [on |-> TRUE])}
           \union {Delete(s, "policykey", i) : i \in Children(s, "policykey", <<"policy", pol>>)})

(* policy purge: the policies without zones.                               *)
PolicyPurge(p, s) ==
  Marks(p, UNION {{Delete(s, "policy", pol)}
                  \union {Delete(s, t, i) : t \in {"policykey"}, i \in Children(s, "policykey", <<"policy", pol>>)}
                  \union {Delete(s, t, i) : t \in {"hsmkey"}, i \in Children(s, "hsmkey", <<"policy", pol>>)} :
                  pol \in {q \in DOMAIN s["policy"] : Children(s, "zone", <<"policy", q>>) = {}}})

(* zone add                                                                *)
ZoneAdd(p, s, pol) ==
  Marks(p, {Dirty("INSERT", "zone", 0 - 1, <<<<"policy", pol>>>>, [roll |-> FALSE])})

(* key import: an HSM key the enforcer does not know, for one zone.        *)
KeyImport(p, s, z) ==
  /\ Ready(p, {Dirty("INSERT", "hsmkey", 0 - 1, <<<<"policy", PolicyOf(s, "zone", z)>>>>,
                     [state |-> "PRIVATE", locator |-> made + 1]),
               Dirty("INSERT", "key", 0 - 1, <<<<"zone", z>>, <<"hsmkey", 0 - 1>>>>,
                     [introducing |-> TRUE]),
               Dirty("INSERT", "keystate", 0 - 1, <<<<"key", 0 - 1>>>>, [hidden |-> FALSE])})
  /\ made' = made + 1 /\ hsmKeys' = hsmKeys \union {made + 1}
  /\ UNCHANGED <<ru_nonshared_keys, ru_index, genq>>

(* zone delete                                                             *)
delete_zone(p, s, z) ==
  LET ks == KeysOf(s, z)
  IN Deletes(p, s, ks, {Delete(s, "zone", z)}
                       \union KeysDeleted(s, ks, DepsFrom(s, ks) \union DepsTo(s, ks)))

(* zonelist import that removes a zone.                                    *)
zonelist_import(p, s, z) ==
  LET ks == KeysOf(s, z)
  IN Deletes(p, s, ks, {Delete(s, "zone", z)} \union KeysDeleted(s, ks, {}))

(* key purge                                                               *)
removeDeadKeysNow(p, s, z) ==
  LET ks == Purgable(s, z) IN Deletes(p, s, ks, KeysDeleted(s, ks, DepsFrom(s, ks)))

-----------------------------------------------------------------------------

(* What an operation is about: a zone, a policy, or nothing.               *)
ZoneOps == {"enforce", "rollover", "signconf", "ds", "import", "delete", "zonelist", "purge"}

PolicyOps == {"resalt", "policyimport", "add"}

Args(d, op) ==
  CASE op \in ZoneOps -> DOMAIN d["zone"]
    [] op \in PolicyOps -> DOMAIN d["policy"]
    [] OTHER -> {0}

(* A copy the operations can work on: merge() passed, and no row but a     *)
(* dependency was left without its parent, which would be a null pointer.  *)
Usable(d) ==
  dbw_fetch(d) /\ \A t \in TableNames \ {"keydependency"} : Orphans(d, t) = {}

(* Tasks that come back by themselves, without a limit if it is live.      *)
Endless(op) == story.live /\ op \in {"enforce", "generate"}

(* task_perform: the tasks of a zone take turns.                           *)
OwnerFree(op, a) ==
  LET zoneTasks == {"enforce", "signconf"}
  IN op \in zoneTasks =>
       \A q \in Threads : sess[q] # Idle => ~(sess[q].op \in zoneTasks /\ sess[q].arg = a)

(* An operation starts: it reads the database.                             *)
BeginSession(p, op) ==
  /\ sess[p] = Idle /\ writer = 0 /\ Usable(db)
  /\ Endless(op) \/ started < story.limit
  /\ started' = IF Endless(op) THEN started ELSE started + 1
  /\ \E a \in Args(db, op) :
       /\ OwnerFree(op, a)
       /\ sess' = [sess EXCEPT ![p] = [step |-> "work", op |-> op, arg |-> a, snap |-> db]]
  /\ UNCHANGED <<db, lastId, writer, faults, factoryVars, story, owed>>

Work(p) ==
  /\ sess[p].step = "work"
  /\ LET s == sess[p].snap
         a == sess[p].arg
     IN CASE sess[p].op = "enforce" -> Enforce(p, s, a)
          [] sess[p].op = "generate" -> Generate(p, s)
          [] sess[p].op = "rollover" -> RolloverCmd(p, s, a)
          [] sess[p].op = "signconf" -> WriteSignconf(p, s, a)
          [] sess[p].op = "ds" -> ChangeDs(p, s, a)
          [] sess[p].op = "backup" -> Backup(p, s)
          [] sess[p].op = "resalt" -> Resalt(p, s, a)
          [] sess[p].op = "policyimport" -> PolicyImport(p, s, a)
          [] sess[p].op = "policypurge" -> PolicyPurge(p, s)
          [] sess[p].op = "add" -> ZoneAdd(p, s, a)
          [] sess[p].op = "import" -> KeyImport(p, s, a)
          [] sess[p].op = "delete" -> delete_zone(p, s, a)
          [] sess[p].op = "zonelist" -> zonelist_import(p, s, a)
          [] OTHER -> removeDeadKeysNow(p, s, a)
  /\ UNCHANGED <<db, lastId, writer, faults, story, started, owed>>

Lock(p) == LockDb(p) /\ UNCHANGED <<factoryVars, story, started, owed>>

KeyInserted(w, z) == w.kind = "INSERT" /\ w.table = "key" /\ w.up[1] = <<"zone", z>>

Write(p) ==
  /\ sess[p].step = "commit" /\ sess[p].todo # {}
  /\ \/ WriteRow(p, NextRow(sess[p].todo))
        /\ owed' = {z \in owed : ~KeyInserted(NextRow(sess[p].todo), z)}
     \/ WriteFails(p, NextRow(sess[p].todo)) /\ UNCHANGED owed
  /\ UNCHANGED <<factoryVars, story, started>>

(* The commit is done; a successful "key rollover" tells the operator so.  *)
Unlock(p) ==
  /\ sess[p].step = "commit" /\ sess[p].todo = {}
  /\ UnlockDb(p)
  /\ owed' = IF sess[p].op = "rollover" /\ sess[p].failed = {}
             THEN owed \union {sess[p].arg} ELSE owed
  /\ UNCHANGED <<factoryVars, story, started>>

(* zone set-policy: the rows are read, without a lock, and the zone is     *)
(* updated if its revision is still the same.                              *)
SetPolicyRead(p) ==
  /\ "setpolicy" \in story.ops /\ sess[p] = Idle /\ started < story.limit
  /\ started' = started + 1
  /\ \E z \in DOMAIN db["zone"] : \E pol \in DOMAIN db["policy"] :
       /\ PolicyOf(db, "zone", z) # pol
       /\ sess' = [sess EXCEPT ![p] = [step |-> "set", op |-> "setpolicy", arg |-> z, policy |-> pol,
                                       row |-> db["zone"][z]]]
  /\ UNCHANGED <<db, lastId, writer, faults, factoryVars, story, owed>>

SetPolicy(p) ==
  /\ sess[p].step = "set"
  /\ LET z == sess[p].arg IN
     IF Exists(db, <<"zone", z>>) /\ db["zone"][z].rev = sess[p].row.rev
     THEN db' = [db EXCEPT !["zone"][z] = Row((@.rev + 1) % Revisions,
                   <<<<"policy", sess[p].policy>>>>, sess[p].row.val)]
     ELSE UNCHANGED db
  /\ sess' = [sess EXCEPT ![p] = Idle]
  /\ UNCHANGED <<lastId, writer, faults, factoryVars, story, started, owed>>

(* An assertion fails, or the process is killed.                           *)
Abort(p) ==
  /\ \/ sess[p] = Idle /\ writer = 0 /\ ~Usable(db)
     \/ sess[p].step = "commit" /\ sess[p].todo # {} /\ ~Asserted(p, NextRow(sess[p].todo))
  /\ Stopped /\ factoryReset
  /\ UNCHANGED <<faults, story, started, owed>>

Crash ==
  /\ faults > 0 /\ faults' = faults - 1
  /\ Stopped /\ factoryReset
  /\ UNCHANGED <<story, started, owed>>

SessionsInit ==
  /\ story \in SessionScenarios
  /\ db = story.db /\ faults = story.faults
  /\ lastId = [t \in TableNames |-> Max({0} \union DOMAIN db[t])]
  /\ sess = [p \in Threads |-> Idle] /\ writer = 0
  /\ hsm_key_factory_init
  /\ hsmKeys = Locators(db, DOMAIN db["hsmkey"]) /\ made = Max({0} \union hsmKeys)
  /\ started = 0 /\ owed = {}

SessionsNext ==
  \/ \E p \in Threads :
       \/ \E op \in story.ops \ {"setpolicy"} : BeginSession(p, op)
       \/ Work(p) \/ Lock(p) \/ Write(p) \/ Unlock(p)
       \/ SetPolicyRead(p) \/ SetPolicy(p) \/ Abort(p)
  \/ Crash

ZoneIds == UNION {DOMAIN sc.db["zone"] : sc \in SessionScenarios}

(* Tasks are run by turns and come back after a failure: every zone is     *)
(* enforced and the queue of requests worked off again and again, and a    *)
(* thread finishes what it began.                                          *)
Enforcing(p, z) == BeginSession(p, "enforce") /\ sess'[p].arg = z

SessionsFairness ==
  /\ \A p \in Threads : WF_sessionVars(Work(p) \/ Write(p) \/ Unlock(p))
  /\ \A p \in Threads : SF_sessionVars(Lock(p))
  /\ \A z \in ZoneIds : SF_sessionVars(\E p \in Threads : Enforcing(p, z))
  /\ SF_sessionVars(\E p \in Threads : BeginSession(p, "generate"))

SessionsSpec == SessionsInit /\ [][SessionsNext]_sessionVars

SessionsFair == SessionsSpec /\ SessionsFairness

-----------------------------------------------------------------------------
(* Properties                                                              *)

(* A thread that commits holds the lock, and no other thread does.         *)
SessionsTypeOK ==
  /\ \A t \in TableNames : DOMAIN db[t] \subseteq 1..lastId[t]
  /\ \A t \in TableNames : \A i \in DOMAIN db[t] : db[t][i].rev \in 0..(Revisions - 1)
  /\ \A p \in Threads : sess[p].step \in {"idle", "work", "ready", "commit", "set"}
  /\ \A p \in Threads : (sess[p].step = "commit") = (writer = p)
  /\ faults \in 0..story.faults
  /\ hsmKeys \subseteq 1..made

(* Two zones never have the same private HSM key, whatever fails: where    *)
(* the list of recently used keys is too short or was lost in a crash, the *)
(* revision of the hsmkey row stops the second zone.                       *)
NoDoubleUse ==
  \A h \in DOMAIN db["hsmkey"] : db["hsmkey"][h].val.state = "PRIVATE" =>
    \A k, l \in Children(db, "key", <<"hsmkey", h>>) : db["key"][k].up[1] = db["key"][l].up[1]

(* A key that is given to a zone is not given out again: no row says       *)
(* UNUSED of an HSM key that a zone's key refers to.                       *)
UsedIsNotUnused ==
  \A k \in DOMAIN db["key"] :
    LET h == db["key"][k].up[2][2]
    IN h \in DOMAIN db["hsmkey"] => db["hsmkey"][h].val.state # "UNUSED"

(* Every row has its parents between two commits, as merge() expects.      *)
(* Sessions that only add and update rows keep this also when writes fail  *)
(* and the process crashes, because parents are written before children;   *)
(* enforcing, which also deletes keys, keeps it when every write succeeds. *)
(* Deleting zones and policies does not: the revision of a row to delete   *)
(* is not compared, so that a zone can be deleted after another thread     *)
(* added a key to it.                                                      *)
Attached ==
  writer = 0 /\ story.attached => \A t \in TableNames : Orphans(db, t) = {}

(* A rollover the operator was told is under way stays recorded in the     *)
(* zone until a key was added for it; no thread with an older copy of the  *)
(* zone writes it over.                                                    *)
RollHonoured ==
  writer = 0 /\ story.faults = 0 =>
    \A z \in owed \intersect DOMAIN db["zone"] : db["zone"][z].val.roll

(* A key that is still published or signs is in the HSM: keys are removed  *)
(* from the HSM before the commit, even before a commit that is refused,   *)
(* and the key of the refused commit is then hidden and stays so.          *)
InHsm ==
  story.attached =>
    \A k \in DOMAIN db["key"] :
      LET h == db["key"][k].up[2][2]
          shown == \E i \in Children(db, "keystate", <<"key", k>>) :
                     ~db["keystate"][i].val.hidden
      IN h \in DOMAIN db["hsmkey"] /\ shown => db["hsmkey"][h].val.locator \in hsmKeys

(* A rollover that was accepted is carried out.                            *)
RollServed == \A z \in ZoneIds : (story.live /\ z \in owed) ~> z \notin owed

(* What the sessions leave in the database fits together, whichever ran at *)
(* the same time: no HSM key of two zones, none handed out that is in use, *)
(* none missing in the HSM, every row with its parents, and no rollover    *)
(* forgotten.                                                              *)
SessionsSound ==
  SessionsTypeOK /\ NoDoubleUse /\ UsedIsNotUnused /\ InHsm /\ Attached /\ RollHonoured

=============================================================================
