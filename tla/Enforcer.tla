------------------------------ MODULE Enforcer ------------------------------
(***************************************************************************)
(* The enforcer's life of one zone: the enforce task (update() in          *)
(* enforcer.c and perform_enforce() in enforce_task.c), the signconf task, *)
(* the commands of the operator (key rollover, ds-submit, ds-seen,         *)
(* ds-retract, ds-gone, policy import) and the time that passes.  Around   *)
(* it, what the DNS sees of all this: the DS set at the parent, the zone   *)
(* the signer serves, and the answers that resolvers may still have in     *)
(* their caches.                                                           *)
(*                                                                         *)
(* Times are relative to now: an age counts up to max_age, a time left      *)
(* counts down to 0.                                                       *)
(***************************************************************************)
EXTENDS KeyStates, TLC

CONSTANTS KeyIds,       \* the keys there can be: a finite set of positive numbers
          AlgorithmOf,  \* the algorithm each of them is generated for
          Scenarios     \* what the operator, the HSM and the database may be like

(***************************************************************************)
(* A scenario has                                                          *)
(*   keys      the keys the HSM has room for,                              *)
(*   first     the policy of the zone when it was added,                   *)
(*   policies  the policies the operator may import,                       *)
(*   rolls     the sets of roles the operator may ask to roll,             *)
(*   commands  which of "enforce", "ds", "purge" and "backup" are used,    *)
(*   answers   what the key factory may answer: "key", "none", "error",    *)
(*   one_zone  no other zone is in the database,                           *)
(*   max_age   no delay of its policies is longer.                         *)
(***************************************************************************)
VARIABLES scenario,     \* fixed by Init
          zone,         \* the zone's rows in the database
          policy,       \* the policy's row
          hsm,          \* the keys whose key material is in the HSM
          task,         \* time left until the enforce task runs; NoTime: not scheduled
          signconf,     \* a signconf task is scheduled
          parent,       \* the DS set at the parent
          served,       \* what the signer serves: DNSKEY set, its signers, its TTL
          old_ds,       \* earlier DS sets, with the time they may still be seen
          old_dnskey,   \* earlier DNSKEY sets, likewise
          signers       \* time for which a signature by a key alone may be seen

vars == <<scenario, zone, policy, hsm, task, signconf, parent, served, old_ds, old_dnskey, signers>>

NoTime == -1
Always == 1000000        \* longer than any time left
Retry == 1              \* the 60 seconds of NOKEY_TIMEOUT and of the other retries

KSK == {"KSK"}
ZSK == {"ZSK"}
CSK == {"KSK", "ZSK"}
Roles == {KSK, ZSK, CSK}

ASSUME EnforcerAssumption ==
  /\ KeyIds \subseteq Nat \ {0}
  /\ \A s \in Scenarios :
       /\ s.keys \subseteq KeyIds
       /\ s.first \in s.policies
       /\ s.rolls \subseteq SUBSET Roles
       /\ s.commands \subseteq {"enforce", "ds", "purge", "backup"}
       /\ s.answers \subseteq {"key", "none", "error"}
       /\ s.one_zone \in BOOLEAN
       /\ s.max_age \in Nat
  /\ \A s \in Scenarios : \A p \in s.policies :
       /\ p.ds_ttl + p.parent_registration_delay + p.parent_propagation_delay <= s.max_age
       /\ p.keys_ttl + p.zone_propagation_delay + p.publish_safety <= s.max_age
       /\ p.keys_ttl + p.zone_propagation_delay + p.retire_safety <= s.max_age
       /\ p.negative_ttl + p.zone_propagation_delay + p.sig_lifetime <= s.max_age
       /\ p.max_zone_ttl + p.zone_propagation_delay + p.sig_lifetime <= s.max_age
       /\ \A n \in DOMAIN p.pkeys : p.pkeys[n].manual_rollover \/ p.pkeys[n].lifetime <= s.max_age

larger(a, b) == IF a > b THEN a ELSE b

(***************************************************************************)
(* The rows of the zone, and the zone in memory: the rows plus the local   *)
(* variables of update().                                                  *)
(***************************************************************************)
Key == [id: KeyIds, fresh: BOOLEAN, role: Roles, algorithm: Range(AlgorithmOf), bits: Nat,
        minimize: SUBSET Types, introducing: BOOLEAN, dead: BOOLEAN,
        ds_at_parent: UNSUBMITTED..GONE, inception: 0..scenario.max_age,
        backup: {"NO", "REQUIRED", "REQUESTED", "DONE"},
        state: [Types -> States], age: [Types -> 0..scenario.max_age]]

Dependency == [from: KeyIds, to: KeyIds, type: Types, deleted: BOOLEAN]

Rows == [key: Seq(Key), dep: SUBSET Dependency, roll: SUBSET Roles, next_roll: [Roles -> Nat],
         ttl_end: [{"DS", "DNSKEY", "RRSIG"} -> Nat], next_change: Nat \cup {NoTime},
         signconf_needs_writing: BOOLEAN]

Memory == [key: Seq(Key), dep: SUBSET Dependency, roll: SUBSET Roles, next_roll: [Roles -> Nat],
           ttl_end: [{"DS", "DNSKEY", "RRSIG"} -> Nat], next_change: Nat \cup {NoTime},
           signconf_needs_writing: BOOLEAN, scan: Seq(Nat),
           updated: BOOLEAN, stable: BOOLEAN, failed: BOOLEAN, ret: Nat \cup {NoTime}]

\* the orders in which merge() may leave the keys of a zone: its quicksort is not
\* stable.  It moves the first of all equal rows to the end; with the keys of
\* other zones between them any order is possible
scans(z) ==
  LET n == Len(z.key)
  IN  IF scenario.one_zone THEN {[i \in 1..n |-> IF i < n THEN i + 1 ELSE 1]} ELSE SetToSeqs(1..n)

\* dbw_fetch(): the rows, and the order in which their keys are visited
Fetch(z, scan) ==
  z @@ [scan |-> scan, updated |-> FALSE, stable |-> FALSE, failed |-> FALSE, ret |-> NoTime]

\* mutant: the last of the times
maxTime(z, t) == [z EXCEPT !.ret = IF t >= 0 /\ t > @ THEN t ELSE @]

\* minTime()
minTime(z, t) == [z EXCEPT !.ret = IF t >= 0 /\ (t < @ \/ @ < 0) THEN t ELSE @]

\* mutant: and the request to roll is done with
setnextroll_done(z, role, t) ==
  [z EXCEPT !.next_roll[role] = t, !.roll = @ \ {role}, !.updated = TRUE]

setnextroll(z, role, t) == [z EXCEPT !.next_roll[role] = t, !.updated = TRUE]

needs_signconf(z) == [z EXCEPT !.signconf_needs_writing = TRUE]

(***************************************************************************)
(* updatePolicy()                                                          *)
(***************************************************************************)
key_matches_pkey(k, pkey) ==
  k.role = pkey.role /\ k.algorithm = pkey.algorithm /\ k.bits = pkey.bits

existsPolicyForKey(p, k) == \E pkey \in Range(p.pkeys) : key_matches_pkey(k, pkey)

decommission(z, p) ==
  [z EXCEPT !.key = [i \in DOMAIN z.key |->
     [z.key[i] EXCEPT !.introducing = @ /\ existsPolicyForKey(p, z.key[i])]]]

no_keys_configured(z, p) ==
  IF p.pkeys = <<>> /\ ~ z.signconf_needs_writing
  THEN [needs_signconf(z) EXCEPT !.updated = TRUE] ELSE z

key_for_conf(z, pkey) ==
  \E k \in Keys(z) : k.algorithm = pkey.algorithm /\ k.role = pkey.role

\* the ages of the keys last_inception_policy() looks at
inceptions(z, pkey) == {k.inception : k \in {l \in Keys(z) : key_matches_pkey(l, pkey)}}

lifetime_too_short(p, pkey) ==
  \/ "KSK" \in pkey.role /\ p.ds_ttl + p.keys_ttl >= pkey.lifetime
  \/ "ZSK" \in pkey.role /\ p.max_zone_ttl + p.keys_ttl >= pkey.lifetime

new_key(id, pkey) ==
  [id |-> id, fresh |-> TRUE, role |-> pkey.role, algorithm |-> pkey.algorithm,
   bits |-> pkey.bits, minimize |-> pkey.minimize, introducing |-> TRUE, dead |-> FALSE,
   ds_at_parent |-> UNSUBMITTED, inception |-> 0, backup |-> pkey.backup,
   state |-> [type \in Types |-> initial_state(type, pkey.role)],
   age |-> [type \in Types |-> 0]]

\* the ids no row, no HSM and no resolver remembers
FreeIds(z, algorithm) ==
  {id \in scenario.keys :
                   /\ AlgorithmOf[id] = algorithm
                   /\ \A k \in Keys(z) : k.id # id
                   /\ id \notin hsm \cup parent \cup served.keys
                   /\ \A v \in old_ds : id \notin v.ds
                   /\ \A v \in old_dnskey : id \notin v.keys
                   /\ signers[id] = 0}

\* (only called when there is a free id: a full HSM has no key to give)
introduce(z, pkey) ==
  LET id == Min(FreeIds(z, pkey.algorithm))
      old == [i \in DOMAIN z.key |->
               [z.key[i] EXCEPT !.introducing = @ /\ ~ key_matches_pkey(z.key[i], pkey)]]
  IN  minTime(setnextroll([z EXCEPT !.key = Append(old, new_key(id, pkey)),
                                     !.scan = Append(@, Len(old) + 1),
                                     !.roll = @ \ {pkey.role}],
                          pkey.role, pkey.lifetime),
              pkey.lifetime)

policy_key(z, pkey, p, answer) ==
  LET force_roll == pkey.role \in z.roll \/ ~ key_for_conf(z, pkey)
      ages == inceptions(z, pkey)
      left == pkey.lifetime - Min(ages)
  IN
  IF z.failed \/ (pkey.manual_rollover /\ ~ force_roll) THEN z
  ELSE IF ~ force_roll /\ ages # {} /\ left > 0
       THEN minTime(setnextroll(z, pkey.role, left), left)
  ELSE IF lifetime_too_short(p, pkey) THEN setnextroll(z, pkey.role, 0)
  ELSE CASE answer = "key" /\ FreeIds(z, pkey.algorithm) # {} -> introduce(z, pkey)
         [] answer = "none" \/ (answer = "key" /\ FreeIds(z, pkey.algorithm) = {}) ->
              minTime(setnextroll(z, pkey.role, 0), Retry)
         [] answer = "error" -> [z EXCEPT !.failed = TRUE, !.ret = Retry]

updatePolicy(z, p, answer) ==
  LET step(y, pkey) == policy_key(y, pkey, p, answer)
  IN  FoldLeft(step, no_keys_configured(decommission(z, p), p), p.pkeys)

(***************************************************************************)
(* updateZone()                                                            *)
(***************************************************************************)
policy_ttl(p, type) ==
  CASE type = "DS" -> p.ds_ttl
    [] type \in {"DNSKEY", "RRSIGDNSKEY"} -> p.keys_ttl
    [] type = "RRSIG" -> larger(p.negative_ttl, p.max_zone_ttl)

ttl_of(type) == IF type = "RRSIGDNSKEY" THEN "DNSKEY" ELSE type

getZoneTTL(z, p, type) == larger(z.ttl_end[ttl_of(type)], policy_ttl(p, type))

has_omnipresent_dnskey(z) == \E k \in Keys(z) : k.state.DNSKEY = O

track_ttls(z, p) ==
  [z EXCEPT !.ttl_end = [type \in DOMAIN @ |->
     IF @[type] > 0 THEN @[type]
     ELSE IF type = "DNSKEY" /\ ~ has_omnipresent_dnskey(z) THEN larger(p.keys_ttl, p.negative_ttl)
     ELSE policy_ttl(p, type)]]

\* mutant: all signatures are replaced at once
sudden_rollover(z, k, type, next_state) == FALSE

\* an RRset is signed anew only when its old signature nears its expiry: while
\* one key takes over from another the signatures are replaced one by one
smooth_rollover(z, k, type, next_state) ==
  /\ type = "RRSIG"
  /\ k.state.DNSKEY = O
  /\ \/ next_state = O /\ exists(z, k.algorithm, Mask(X, U, O, X))
     \/ next_state = H /\ exists(z, k.algorithm, Mask(X, R, O, X))

\* how long a record stays in its state before it moves to next_state
minTransitionTime(z, p, k, type, next_state) ==
  IF next_state \in {R, U} THEN 0
  ELSE getZoneTTL(z, p, type)
       + (CASE type = "DS" -> p.parent_registration_delay + p.parent_propagation_delay
            [] type = "RRSIG" -> p.zone_propagation_delay
            [] type \in {"DNSKEY", "RRSIGDNSKEY"} ->
                 p.zone_propagation_delay + (IF next_state = O THEN p.publish_safety ELSE p.retire_safety))
       + (IF smooth_rollover(z, k, type, next_state) THEN p.sig_lifetime ELSE 0)

transition(z, i, type, next_state) ==
  LET moved == [z EXCEPT
        !.key[i].state[type] = next_state,
        !.key[i].age[type] = 0,
        !.key[i].ds_at_parent = IF type = "DS" THEN handle_ds_at_parent(@, next_state) ELSE @,
        !.updated = TRUE,
        !.stable = FALSE]
  IN  markSuccessors(needs_signconf(moved), i, type, next_state)

\* the key material must be backed up before anybody relies on it
backup_missing(k) == k.backup \in {"REQUIRED", "REQUESTED"}

\* the body of updateZone()'s inner loop, for one record of one key
consider(z0, p, i, type) ==
  LET z == [z0 EXCEPT !.key[i].ds_at_parent = IF never_submitted(z0.key[i], type) THEN UNSUBMITTED ELSE @]
      k == z.key[i]
      next_state == getDesiredState(k, type)
      wait == minTransitionTime(z, p, k, type, next_state) - k.age[type]
  IN
  IF \/ next_state = k.state[type]
     \/ is_ds_waiting_for_user(k, type, next_state)
     \/ ~ policyApproval(z, i, type, next_state)
     \/ ~ dnssecApproval(z, i, type, next_state, p.pkeys = <<>>)
  THEN z
  ELSE IF wait > 0 THEN minTime(z, wait)
  ELSE IF next_state = O /\ backup_missing(k) THEN minTime(z, Retry)
  ELSE transition(z, i, type, next_state)

\* the order of key->keystate: as generated, and after a fetch as merge() leaves it
keystates(k) ==
  IF k.fresh THEN <<"DS", "RRSIG", "DNSKEY", "RRSIGDNSKEY">>
  ELSE <<"RRSIG", "DNSKEY", "RRSIGDNSKEY", "DS">>

\* one pass over all records of all keys
one_pass(z, p) ==
  LET visit(y, n) ==
        LET i == z.scan[(n \div 4) + 1]
        IN  consider(y, p, i, keystates(z.key[i])[(n % 4) + 1])
      pass[n \in 0..4 * Len(z.key)] ==
        IF n = 0 THEN [z EXCEPT !.stable = TRUE] ELSE visit(pass[n - 1], n - 1)
  IN  pass[4 * Len(z.key)]

\* the loop of updateZone(): passes over all records until one moves nothing
updateZone(z, p) ==
  LET settle[y \in Memory] ==
        LET next == one_pass(y, p) IN IF next.stable THEN next ELSE settle[next]
  IN  settle[track_ttls(z, p)]

(***************************************************************************)
(* removeDeadKeys() and the rest of update()                               *)
(***************************************************************************)
Present(k) == {type \in Types : k.state[type] # X}

purgeable(k) == ~ k.introducing /\ \A type \in Present(k) : k.state[type] = H

hidden_for(k) == Min({k.age[type] : type \in Present(k)})

\* the keys that can be forgotten now
dead_keys(z, p) == {k \in Keys(z) : purgeable(k) /\ hidden_for(k) >= p.keys_purge_after}

\* mutant: the dependencies from them stay
orphaned(d, gone) == d.to \in gone

\* the dependencies that go with them
dependency_of(d, gone) == d.from \in gone \/ d.to \in gone

removeDeadKeys(z, p) ==
  LET dead == dead_keys(z, p)
      gone == {k.id : k \in dead}
      waits == {p.keys_purge_after - hidden_for(k) : k \in {l \in Keys(z) \ dead : purgeable(l)}}
      y == IF waits = {} THEN z ELSE minTime(z, Min(waits))
  IN  [y EXCEPT
        !.key = [i \in DOMAIN z.key |-> [z.key[i] EXCEPT !.dead = z.key[i].id \in gone]],
        !.dep = {[d EXCEPT !.deleted = @ \/ dependency_of(d, gone)] : d \in z.dep},
        !.signconf_needs_writing = @ \/ dead # {}]

Flags(k) == <<publish(k), active_ksk(k), active_zsk(k)>>

\* set_key_flags(): did the flags of a key change since the last commit?
set_key_flags(z, before) ==
  [z EXCEPT !.updated = \/ @
                        \/ \E k \in Keys(z) : \/ /\ k.fresh
                                                 /\ Flags(k) # <<FALSE, FALSE, FALSE>>
                                              \/ /\ ~ k.fresh
                                                 /\ Flags(k) # Flags(KeyOf(before, k.id))]

notify_roll(z) ==
  IF z.next_roll[KSK] > 0 THEN minTime(z, z.next_roll[KSK])
  ELSE IF z.next_roll[CSK] > 0 THEN minTime(z, z.next_roll[CSK]) ELSE z

update(z, p, answer, scan) ==
  LET z1 == updateZone(updatePolicy(Fetch(z, scan), p, answer), p)
      z2 == IF p.keys_purge_after # 0 THEN removeDeadKeys(z1, p) ELSE z1
  IN  notify_roll(set_key_flags(z2, z))

\* the rows that dbw_commit() does not delete
surviving(z) ==
  LET alive(k) == ~ k.dead
  IN  SelectSeq(z.key, alive)

\* what the rows are after dbw_commit()
Commit(z) ==
  [key |-> [i \in DOMAIN surviving(z) |-> [surviving(z)[i] EXCEPT !.fresh = FALSE]],
   dep |-> {d \in z.dep : ~ d.deleted},
   roll |-> z.roll, next_roll |-> z.next_roll, ttl_end |-> z.ttl_end,
   next_change |-> z.ret, signconf_needs_writing |-> z.signconf_needs_writing]

(***************************************************************************)
(* The zone as it is added: no keys, and an enforce task.                  *)
(***************************************************************************)
Unsigned == 0           \* in signers: the records that carry no signature

Init ==
  /\ zone = [key |-> <<>>, dep |-> {}, roll |-> {}, next_roll |-> [role \in Roles |-> 0],
             ttl_end |-> [type \in {"DS", "DNSKEY", "RRSIG"} |-> 0],
             next_change |-> 0, signconf_needs_writing |-> FALSE]
  /\ scenario \in Scenarios
  /\ policy = scenario.first
  /\ hsm = {}
  /\ task = 0
  /\ signconf = FALSE
  /\ parent = {}
  /\ served = [keys |-> {}, sigs |-> {}, ttl |-> policy.negative_ttl]
  /\ old_ds = {}
  /\ old_dnskey = {}
  /\ signers = [id \in KeyIds \cup {Unsigned} |-> IF id = Unsigned THEN Always ELSE 0]

(***************************************************************************)
(* The enforce task: perform_enforce().                                    *)
(***************************************************************************)
EnforceTask ==
  /\ task = 0
  /\ \E answer \in scenario.answers, scan \in scans(zone) : \E z \in {update(zone, policy, answer, scan)} :
    LET commit == z.updated \/ (z.ret # zone.next_change /\ z.ret >= 0)
        created == {k.id : k \in {l \in Keys(z) : l.fresh}}
        released == {k.id : k \in {l \in Keys(z) : l.dead}}
    IN
    /\ zone' = IF commit THEN Commit(z) ELSE zone
    /\ hsm' = (hsm \cup created) \ released
    /\ signconf' = (signconf \/ z.signconf_needs_writing)
    /\ task' = z.ret
    /\ UNCHANGED <<scenario, policy, parent, served, old_ds, old_dnskey, signers>>

(***************************************************************************)
(* The signconf task writes the flags of all keys, and the signer serves   *)
(* the zone they ask for.                                                  *)
(***************************************************************************)
\* the keys that are published, that sign the DNSKEY set and that sign the zone
signconf_keys ==
  [all |-> {k.id : k \in {l \in Keys(zone) : publish(l)}},
   ksk |-> {k.id : k \in {l \in Keys(zone) : active_ksk(l)}},
   zsk |-> {k.id : k \in {l \in Keys(zone) : active_zsk(l)}}]

\* a view that may be in caches for view.left from now, or longer if it already was
remember(views, view) ==
  LET same(v) == [v EXCEPT !.left = 0] = [view EXCEPT !.left = 0]
      lefts == {v.left : v \in {w \in views : same(w)}} \cup {view.left}
  IN  {v \in views : ~ same(v)} \cup {[view EXCEPT !.left = Max(lefts)]}

\* for how long a signature by this key alone may be seen after the signer got
\* its configuration: an active key signs, a published key's signatures stay
\* until they near their expiry, the signatures of other keys are removed
signer_time(id, zsks, published) ==
  LET spread == policy.zone_propagation_delay + policy_ttl(policy, "RRSIG")
      alone == {j \in zsks : AlgorithmOf[j] = AlgorithmOf[id]} = {}
      smaller(a, b) == IF a < b THEN a ELSE b
  IN
  CASE id = Unsigned /\ zsks = {} -> Always
    [] id = Unsigned /\ zsks # {} -> smaller(signers[id], spread)
    [] id # Unsigned /\ id \in zsks -> Always
    [] id # Unsigned /\ id \notin zsks /\ id \in published /\ ~ alone -> smaller(signers[id], policy.sig_lifetime + spread)
    [] OTHER -> smaller(signers[id], spread)

SignconfTask ==
  LET keys == signconf_keys.all
      new == [keys |-> keys, sigs |-> signconf_keys.ksk,
              ttl |-> IF keys = {} THEN policy.negative_ttl ELSE policy.keys_ttl]
  IN
  /\ signconf
  /\ signconf' = FALSE
  /\ zone' = [zone EXCEPT !.signconf_needs_writing = FALSE]
  /\ served' = new
  /\ old_dnskey' = IF new = served THEN old_dnskey
                   ELSE remember(old_dnskey, [keys |-> served.keys, sigs |-> served.sigs,
                                              left |-> policy.zone_propagation_delay + served.ttl])
  /\ signers' = [id \in DOMAIN signers |-> signer_time(id, signconf_keys.zsk, keys)]
  /\ UNCHANGED <<scenario, policy, hsm, task, parent, old_ds>>

(***************************************************************************)
(* The operator's commands; most of them flush the enforce task.           *)
(***************************************************************************)
\* "key rollover": writes all three flags, so the request for another role is gone
Rollover(roles) ==
  /\ zone.roll # roles
  /\ zone' = [zone EXCEPT !.roll = roles]
  /\ task' = 0
  /\ UNCHANGED <<scenario, policy, hsm, signconf, parent, served, old_ds, old_dnskey, signers>>

\* change_keys_from_to(): the moment of the last change of the DS is now
change_key_from_to(i, from, to) ==
  /\ "ds" \in scenario.commands
  /\ "KSK" \in zone.key[i].role
  /\ zone.key[i].ds_at_parent = from
  /\ zone' = [zone EXCEPT !.key[i].ds_at_parent = to, !.key[i].age.DS = 0]
  /\ task' = 0
  /\ UNCHANGED <<scenario, policy, hsm, signconf, parent, served, old_ds, old_dnskey, signers>>

DsSubmit(i) == change_key_from_to(i, SUBMIT, SUBMITTED)

DsRetract(i) == change_key_from_to(i, RETRACT, RETRACTED)

\* the operator reports what is true at the parent
DsSeen(i) == zone.key[i].id \in parent /\ change_key_from_to(i, SUBMITTED, SEEN)

DsGone(i) == zone.key[i].id \notin parent /\ change_key_from_to(i, RETRACTED, GONE)

\* "enforce" runs the task at any time
EnforceCommand ==
  /\ "enforce" \in scenario.commands
  /\ task # 0
  /\ task' = 0
  /\ UNCHANGED <<scenario, zone, policy, hsm, signconf, parent, served, old_ds, old_dnskey, signers>>

\* "key purge": removeDeadKeysNow_zone()
PurgeCommand ==
  LET gone == {k.id : k \in {l \in Keys(zone) : purgeable(l)}}
      stays(k) == k.id \notin gone
  IN
  /\ "purge" \in scenario.commands
  /\ gone # {}
  /\ zone' = [zone EXCEPT !.key = SelectSeq(@, stays), !.dep = {d \in @ : d.from \notin gone}]
  /\ hsm' = hsm \ gone
  /\ UNCHANGED <<scenario, policy, task, signconf, parent, served, old_ds, old_dnskey, signers>>

\* "backup prepare", "backup commit" and "backup rollback": hsmkeys_from_to_state()
BackupCommand(from_state, to_state) ==
  /\ "backup" \in scenario.commands
  /\ \E k \in Keys(zone) : k.backup = from_state
  /\ zone' = [zone EXCEPT !.key = [i \in DOMAIN @ |->
                 [@[i] EXCEPT !.backup = IF @ = from_state THEN to_state ELSE @]]]
  /\ UNCHANGED <<scenario, policy, hsm, task, signconf, parent, served, old_ds, old_dnskey, signers>>

\* "policy import": the enforce and the signconf task of every zone are flushed
ImportPolicy(p) ==
  /\ p # policy
  /\ policy' = p
  /\ task' = 0
  /\ signconf' = TRUE
  /\ UNCHANGED <<scenario, zone, hsm, parent, served, old_ds, old_dnskey, signers>>

(***************************************************************************)
(* The parent follows the requests that were sent to it, when it likes.    *)
(***************************************************************************)
ParentTakes(ds) ==
  /\ parent' = ds
  /\ old_ds' = remember(old_ds, [ds |-> parent, left |-> policy.parent_propagation_delay + policy.ds_ttl])
  /\ UNCHANGED <<scenario, zone, policy, hsm, task, signconf, served, old_dnskey, signers>>

ParentAdds(i) ==
  /\ zone.key[i].ds_at_parent \in {SUBMITTED, RETRACT}
  /\ zone.key[i].id \notin parent
  /\ ParentTakes(parent \cup {zone.key[i].id})

ParentRemoves(i) ==
  /\ zone.key[i].ds_at_parent = RETRACTED
  /\ zone.key[i].id \in parent
  /\ ParentTakes(parent \ {zone.key[i].id})

(***************************************************************************)
(* Time passes once the tasks that are due have run.                       *)
(***************************************************************************)
older(age) == IF age < scenario.max_age THEN age + 1 ELSE scenario.max_age

less(left) == IF left > 0 THEN left - 1 ELSE left

aged(views) == {v \in {[w EXCEPT !.left = @ - 1] : w \in views} : v.left > 0}

Tick ==
  /\ task # 0 /\ ~ signconf
  /\ zone' = [zone EXCEPT
       !.key = [i \in DOMAIN @ |-> [@[i] EXCEPT !.inception = older(@),
                                                !.age = [type \in Types |-> older(@[type])]]],
       !.next_roll = [role \in Roles |-> less(@[role])],
       !.ttl_end = [type \in DOMAIN @ |-> less(@[type])],
       !.next_change = less(@)]
  /\ task' = less(task)
  /\ old_ds' = aged(old_ds)
  /\ old_dnskey' = aged(old_dnskey)
  /\ signers' = [id \in DOMAIN signers |-> IF signers[id] = Always THEN Always ELSE less(signers[id])]
  /\ UNCHANGED <<scenario, policy, hsm, signconf, parent, served>>

Operator == \E i \in DOMAIN zone.key : DsSubmit(i) \/ DsSeen(i) \/ DsRetract(i) \/ DsGone(i)

Parent == \E i \in DOMAIN zone.key : ParentAdds(i) \/ ParentRemoves(i)

Next ==
  \/ EnforceTask
  \/ EnforceCommand
  \/ SignconfTask
  \/ \E roles \in scenario.rolls : Rollover(roles)
  \/ PurgeCommand
  \/ BackupCommand("REQUIRED", "REQUESTED")
  \/ BackupCommand("REQUESTED", "DONE")
  \/ BackupCommand("REQUESTED", "REQUIRED")
  \/ Operator
  \/ Parent
  \/ \E p \in scenario.policies : ImportPolicy(p)
  \/ Tick

Spec == Init /\ [][Next]_vars

\* The workers run the tasks that are due, time passes, the operator does what
\* the enforcer asks for and the parent what the operator asks for.  (The enforce
\* task can run exactly when task = 0, the signconf task exactly when signconf.)
FairSpec == Spec /\ []<>(task # 0) /\ []<>(~ signconf) /\ SF_vars(Tick)
                 /\ WF_vars(Operator) /\ WF_vars(Parent)

-----------------------------------------------------------------------------
DsViews == {parent} \cup {v.ds : v \in old_ds}

DnskeyViews == {[keys |-> v.keys, sigs |-> v.sigs] : v \in {served} \cup old_dnskey}

Algorithms(ids) == {AlgorithmOf[id] : id \in ids}

Signers(algorithm) == {id \in KeyIds : AlgorithmOf[id] = algorithm /\ signers[id] > 0}

\* A resolver that has any of the DS sets, any of the DNSKEY sets and any of the
\* signatures that may be in its caches at this moment finds the zone valid: for
\* every algorithm of the DS set, the DNSKEY set is signed by one of its keys,
\* and every signature that some record may carry alone is by a key in the
\* DNSKEY set.  This is what the rules and the delays of the enforcer are for.
NeverBogus ==
  \A ds \in DsViews, dnskey \in DnskeyViews :
    ds # {} =>
      /\ \A a \in Algorithms(ds) : \E id \in ds \cap dnskey.keys \cap dnskey.sigs : AlgorithmOf[id] = a
      /\ \A a \in Algorithms(ds) : Signers(a) # {} /\ Signers(a) \subseteq dnskey.keys
      /\ signers[Unsigned] = 0

TypeOK ==
  /\ zone \in Rows
  /\ policy \in scenario.policies
  /\ hsm \subseteq KeyIds /\ parent \subseteq KeyIds
  /\ task \in Nat \cup {NoTime}
  /\ signconf \in BOOLEAN
  /\ served.keys \subseteq KeyIds /\ served.sigs \subseteq served.keys
  /\ signers \in [KeyIds \cup {Unsigned} -> Nat]

\* Every key dependency in the database has both its keys: merge() asserts that
\* the parent of every row is there each time the database is read.  ("key purge"
\* deletes rows by itself and is not held to it here.)
NoDanglingDependencies ==
  LET ids == {k.id : k \in Keys(zone)}
  IN  "purge" \notin scenario.commands => \A d \in zone.dep : d.from \in ids /\ d.to \in ids

\* No key waits, through other keys, for itself: the recursion of find_succ()
\* along the dependencies ends.
DependenciesAcyclic ==
  \A type \in Types, S \in SUBSET scenario.keys :
    S # {} => \E id \in S : \A d \in zone.dep : d.type = type /\ d.from = id => d.to \notin S

\* Between two runs of the enforce task no record could move: whatever becomes
\* possible, the task is scheduled for it, or was flushed by a command.  (Only
\* "backup commit" flushes nothing: a key that waits for it is tried again after
\* the retry time.)
NothingMissed ==
  task # 0 /\ ~ (task = Retry /\ \E k \in Keys(zone) : k.backup # "NO") =>
    \A scan \in scans(zone) : \A z \in {update(zone, policy, "none", scan)} :
      \A i \in DOMAIN zone.key : z.key[i].state = zone.key[i].state

\* A record becomes omnipresent only when the key is backed up, where the policy
\* asks for a backup; a backup that is rolled back does not count.
BackedUpBeforeOmnipresent ==
  \A k \in Keys(zone), type \in Types : k.state[type] = O => k.backup \in {"NO", "DONE"}

\* Nothing the enforcer does forgets a request to roll (roll_ksk_now, roll_zsk_now
\* and roll_csk_now), whatever the HSM answers, except for a new key of that role.
\* An operator's request does get lost, and not only their own: "key rollover" for
\* one role writes the flags of all three (keystate_rollover_cmd.c:148-150).
RollRequestKept ==
  [][\A role \in zone.roll \ zone'.roll :
       \/ \E k \in Keys(zone') : k.role = role /\ k.introducing /\ k.id \notin {l.id : l \in Keys(zone)}
       \/ \E roles \in scenario.rolls : Rollover(roles)]_vars

\* All records of a key that is on its way out are hidden in the end: no rule
\* and no missed wake-up keeps one of them for ever.
Retired ==
  \A id \in KeyIds :
    (\E k \in Keys(zone) : k.id = id /\ ~ k.introducing)
      ~> (\A k \in Keys(zone) : k.id = id => k.introducing \/ purgeable(k))

\* The keys, their records and their dependencies stay a well-formed database:
\* typed, without a dependency on a key that is gone and without a cycle, and
\* with nothing omnipresent that is not backed up.
KeysSound ==
  /\ TypeOK /\ NoDanglingDependencies /\ DependenciesAcyclic
  /\ BackedUpBeforeOmnipresent

=============================================================================
