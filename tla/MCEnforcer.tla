----------------------------- MODULE MCEnforcer -----------------------------
(***************************************************************************)
(* Policies and key sets for model checking Enforcer.                      *)
(***************************************************************************)
EXTENDS Enforcer

PolicyKey(role, algorithm, minimize) ==
  [role |-> role, algorithm |-> algorithm, bits |-> 1, minimize |-> minimize,
   lifetime |-> 3, manual_rollover |-> TRUE, backup |-> "NO"]

Delays ==
  [ds_ttl |-> 1, keys_ttl |-> 1, negative_ttl |-> 1, max_zone_ttl |-> 1, sig_lifetime |-> 1,
   parent_registration_delay |-> 0, parent_propagation_delay |-> 0, zone_propagation_delay |-> 0,
   publish_safety |-> 0, retire_safety |-> 0, keys_purge_after |-> 1]

WithKeys(pkeys) == Delays @@ [pkeys |-> pkeys]

Split == WithKeys(<<PolicyKey(KSK, 8, {"DS"}), PolicyKey(ZSK, 8, {"RRSIG"})>>)
Single == WithKeys(<<PolicyKey(CSK, 8, {"DS", "RRSIG"})>>)
Single13 == WithKeys(<<PolicyKey(CSK, 13, {"DS", "RRSIG"})>>)
NoKeys == WithKeys(<<>>)

\* the keys roll by themselves when they are 3 old
Automatic ==
  WithKeys(<<[PolicyKey(CSK, 8, {"DS", "RRSIG"}) EXCEPT !.manual_rollover = FALSE]>>)

\* the repository of the keys has <RequireBackup/>
Backed == WithKeys(<<[PolicyKey(CSK, 8, {"DS", "RRSIG"}) EXCEPT !.backup = "REQUIRED"]>>)

OneAndOther == [id \in KeyIds |-> IF id <= 3 THEN 8 ELSE 13]

\* one zone, one policy, an HSM that always has a key, and an operator who only
\* does what the enforcer asks for
Calm(keys, p) ==
  [keys |-> keys, first |-> p, policies |-> {p}, rolls |-> {}, commands |-> {"ds"},
   answers |-> {"key"}, one_zone |-> TRUE, max_age |-> 2]

RollsKSK == [Calm(1..3, Split) EXCEPT !.rolls = {{KSK}}]

RollsZSK ==
  [Calm(1..3, Split) EXCEPT !.rolls = {{ZSK}}, !.commands = {"ds", "purge"},
                            !.answers = {"key", "none", "error"}]

RollsCSK == [Calm(1..2, Single) EXCEPT !.rolls = {{CSK}}, !.commands = {"ds", "enforce"}]

\* the requests of two roles, for which there is no key
RollsEither == [Calm(1..2, Split) EXCEPT !.rolls = {{KSK}, {ZSK}}]

\* the same zone next to others: the keys are visited in any order
RollsAmongZones == [RollsCSK EXCEPT !.one_zone = FALSE]

\* three generations of keys, none of which ever gets a DS
Island == [Calm(1..3, Single) EXCEPT !.rolls = {{CSK}}, !.commands = {}]

ChangesAlgorithm == [Calm({1, 2, 4, 5}, Single) EXCEPT !.policies = {Single, Single13}]

GoesUnsigned == [Calm(1..2, Single) EXCEPT !.policies = {Single, NoKeys}]

RollsByItself ==
  [Calm(1..2, Automatic) EXCEPT !.answers = {"key", "none", "error"}, !.max_age = 3]

BacksUp == [Calm(1..2, Backed) EXCEPT !.rolls = {{CSK}}, !.commands = {"ds", "backup"}]

\* the key is rolled again before its DS was seen
RollsTwice == [Calm(1..3, Single) EXCEPT !.rolls = {{CSK}}]

All ==
  {RollsKSK, RollsZSK, RollsEither, RollsAmongZones, Island, ChangesAlgorithm, GoesUnsigned,
   RollsByItself, BacksUp}
Keeping == {RollsKSK}
Twice == {RollsTwice}
=============================================================================
