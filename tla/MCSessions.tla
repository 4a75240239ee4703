----------------------------- MODULE MCSessions -----------------------------
EXTENDS Sessions

Policy(shared) == Row(1, <<>>, [shared |-> shared])

Hsmkey(pol, state, n) == Row(1, <<<<"policy", pol>>>>, [state |-> state, locator |-> n])

(* Zones 1 and 2 of one policy, with n unused HSM keys, and for zone 1, if *)
(* keyed, a key of its own that is used and an older one on its way out.   *)
Database(shared, keyed, n) ==
  LET used == IF keyed THEN 2 ELSE 0
      own == IF shared THEN "SHARED" ELSE "PRIVATE"
  IN [policy |-> 1 :> Policy(shared),
      policykey |-> 1 :> Row(1, <<<<"policy", 1>>>>, [on |-> TRUE]),
      zone |-> [z \in 1..2 |-> Row(1, <<<<"policy", 1>>>>, [roll |-> FALSE])],
      hsmkey |-> [h \in 1..(used + n) |-> Hsmkey(1, IF h <= used THEN own ELSE "UNUSED", h)],
      key |-> [k \in 1..used |-> Row(1, <<<<"zone", 1>>, <<"hsmkey", k>>>>, [introducing |-> k = 2])],
      keystate |-> [k \in 1..used |-> Row(1, <<<<"key", k>>>>, [hidden |-> FALSE])],
      keydependency |-> [k \in 1..(used \div 2) |->
                           Row(1, <<<<"zone", 1>>, <<"key", 1>>, <<"key", 2>>>>, [on |-> TRUE])]]

Scenario(d, ops, limit, n, attached) ==
  [db |-> d, ops |-> ops, limit |-> limit, faults |-> n, attached |-> attached,
   live |-> FALSE]

(* The same with a second policy, which has no zone.                       *)
TwoPolicies(d) ==
  [d EXCEPT !.policy = @ @@ (2 :> Policy(FALSE)),
            !.policykey = @ @@ (2 :> Row(1, <<<<"policy", 2>>>>, [on |-> TRUE])),
            !.hsmkey = @ @@ (9 :> Hsmkey(2, "UNUSED", 9))]

MCScenarios ==
  {Scenario(Database(FALSE, FALSE, 1), {"enforce", "backup", "import"}, 3, 1, TRUE),
   Scenario(Database(FALSE, TRUE, 1), {"enforce", "rollover", "signconf", "ds"}, 3, 0, TRUE),
   Scenario(Database(FALSE, TRUE, 0), {"enforce", "generate"}, 3, 0, TRUE),
   Scenario(TwoPolicies(Database(FALSE, FALSE, 1)), {"enforce", "rollover", "setpolicy"}, 3, 0, TRUE),
   Scenario(TwoPolicies(Database(FALSE, TRUE, 1)),
            {"delete", "zonelist", "purge", "policypurge", "add", "import", "resalt",
             "policyimport", "enforce"}, 2, 1, FALSE),
   Scenario(Database(TRUE, TRUE, 1), {"enforce", "delete", "rollover"}, 3, 0, FALSE)}

OneZone(d) == [d EXCEPT !.zone = 1 :> @[1]]

LiveSessions ==
  {[Scenario(OneZone(Database(FALSE, FALSE, 0)), {"enforce", "generate", "rollover"}, 1, 0, TRUE)
      EXCEPT !.live = live] : live \in BOOLEAN}
=============================================================================
