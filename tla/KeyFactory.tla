----------------------------- MODULE KeyFactory -----------------------------
(***************************************************************************)
(* Keys for zones (enforcer/src/hsmkey/hsm_key_factory.c).  An enforcing   *)
(* thread takes an unused key of its policy; a list of recently taken keys *)
(* keeps another thread, whose copy of the database is as old, from taking *)
(* the same one.  Without a key it queues a request, and the generate task *)
(* works the queue off.  A key is removed from the HSM when the last       *)
(* reference to it is marked for deletion, before anything is committed.   *)
(*                                                                         *)
(* There is one policy key per policy.  s is a thread's copy of the        *)
(* database.  The HSM holds the keys 1, 2, ... up to its capacity.         *)
(***************************************************************************)
EXTENDS Dbw

CONSTANTS
  RU_COUNT, \* length of the list of recently used keys, 8 in the code
  Capacity, \* keys the HSM can hold
  Ahead     \* keys per zone that cover AutomaticKeyGenerationPeriod, or 0

ASSUME KeyFactoryAssumption ==
  RU_COUNT \in Nat \ {0} /\ Capacity \in Nat /\ Ahead \in Nat

VARIABLES
  ru_nonshared_keys, \* ids of recently taken keys, -1 for none
  ru_index,          \* where the last one is
  genq,              \* the requests, newest first
  hsmKeys,               \* the keys in the HSM
  made               \* how many keys the HSM ever made

factoryVars == <<ru_nonshared_keys, ru_index, genq, hsmKeys, made>>

hsm_key_factory_init ==
  /\ ru_nonshared_keys = [i \in 0..(RU_COUNT - 1) |-> 0 - 1]
  /\ ru_index = 0
  /\ genq = <<>>

(* A new process: the list and the queue were only in memory.              *)
factoryReset ==
  /\ ru_nonshared_keys' = [i \in 0..(RU_COUNT - 1) |-> 0 - 1]
  /\ ru_index' = 0
  /\ genq' = <<>>
  /\ UNCHANGED <<hsmKeys, made>>

-----------------------------------------------------------------------------
(* Taking a key                                                            *)

PolicyOf(s, t, id) ==
  LET up == s[t][id].up
      i == CHOOSE j \in DOMAIN up : up[j][1] = "policy"
  IN up[i][2]

Shared(s, pol) == s["policy"][pol].val.shared

in_lru(h) == \E i \in DOMAIN ru_nonshared_keys : ru_nonshared_keys[i] = h

hsmkey_in_use_by_zone(s, h, z) ==
  \E k \in Children(s, "key", <<"hsmkey", h>>) : <<"zone", z>> \in ToSet(s["key"][k].up)

(* The newest key of a shared policy that is in use, but not by the zone.  *)
Reusable(s, pol, z) ==
  {h \in Children(s, "hsmkey", <<"policy", pol>>) :
     /\ s["hsmkey"][h].val.state # "UNUSED"
     /\ ~hsmkey_in_use_by_zone(s, h, z)}

getLastReusableKey(s, pol, z) ==
  IF Shared(s, pol) /\ Reusable(s, pol, z) # {} THEN Max(Reusable(s, pol, z)) ELSE 0

(* The keys the factory may give out.                                      *)
available(s, pol) ==
  {h \in Children(s, "hsmkey", <<"policy", pol>>) :
     s["hsmkey"][h].val.state = "UNUSED" /\ (Shared(s, pol) \/ ~in_lru(h))}

(* genq_push drops a request if one for the same zone, or as general, is   *)
(* queued.                                                                 *)
genq_push(q, pkey, z, count) ==
  IF \E i \in DOMAIN q : q[i].pkey = pkey /\ q[i].zone = z THEN q
  ELSE <<[pkey |-> pkey, zone |-> z, count |-> count]>> \o q

(* The requests of hsm_key_factory_get_key: one key if there was none, and *)
(* whatever the policy needs ahead.                                        *)
Requested(s, pol, z, found) ==
  LET pk == Children(s, "policykey", <<"policy", pol>>)
      push(q, i) == genq_push(IF found THEN q
                              ELSE genq_push(q, i, IF Shared(s, pol) THEN 0 ELSE z, 1),
                              i, 0, 0 - 1)
  IN IF pk = {} THEN genq ELSE push(genq, CHOOSE i \in pk : TRUE)

(* The list remembers the key taken; without one it forgets its oldest.    *)
hsm_key_factory_get_key(s, pol, z, h) ==
  /\ ru_index' = (ru_index + 1) % RU_COUNT
  /\ ru_nonshared_keys' = [ru_nonshared_keys EXCEPT ![(ru_index + 1) % RU_COUNT] =
                             IF h = 0 THEN 0 - 1 ELSE h]
  /\ genq' = Requested(s, pol, z, h # 0)

-----------------------------------------------------------------------------
(* Releasing keys: the hsmkey rows to delete with the keys ks, and their   *)
(* HSM keys.  A row is kept while another key is linked to it.             *)
Released(s, ks) ==
  {h \in DOMAIN s["hsmkey"] :
     \E k \in ks : Children(s, "key", <<"hsmkey", h>>) = {k}}

Locators(s, hs) == {s["hsmkey"][h].val.locator : h \in hs}

-----------------------------------------------------------------------------
(* Generating keys                                                         *)

unassigned_key_count(s, pol) ==
  Cardinality({h \in Children(s, "hsmkey", <<"policy", pol>>) :
                 s["hsmkey"][h].val.state = "UNUSED"})

(* How many keys a request stands for, sofar being those generated for the *)
(* policy before in the same task.                                         *)
Wanted(s, req, sofar) ==
  LET pol == PolicyOf(s, "policykey", req.pkey)
      zones == IF Shared(s, pol) THEN 1
               ELSE Cardinality(Children(s, "zone", <<"policy", pol>>))
  IN IF req.count = 0 - 1 /\ Ahead > 0
     THEN Max({0, Ahead * zones - unassigned_key_count(s, pol) - sofar})
     ELSE Max({0, req.count})

(* generate_cb: all requests of the queue, of which those for a policy key *)
(* it does not know are dropped; the result is the sequence of policies to *)
(* make a key for.                                                         *)
generate_cb(s) ==
  LET known == SelectSeq(genq, LAMBDA r : r.pkey \in DOMAIN s["policykey"])
      step(r, acc) ==
        LET pol == PolicyOf(s, "policykey", r.pkey)
            sofar == Cardinality({i \in DOMAIN acc : acc[i] = pol})
        IN acc \o [i \in 1..Wanted(s, r, sofar) |-> pol]
  IN FoldLeft(LAMBDA acc, r : step(r, acc), <<>>, known)

=============================================================================
