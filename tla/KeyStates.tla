----------------------------- MODULE KeyStates -----------------------------
(***************************************************************************)
(* The rules of enforcer/src/enforcer/enforcer.c that decide which record  *)
(* of which key may move to its next state.  A zone z is a record with     *)
(*   z.key   the keys, in the order of zone->key;                          *)
(*   z.dep   the key dependencies.                                         *)
(* A key has four records (DS, RRSIG, DNSKEY and RRSIGDNSKEY), each in one *)
(* of the states below.                                                    *)
(***************************************************************************)
EXTENDS Integers, SequencesExt

Types == {"DS", "RRSIG", "DNSKEY", "RRSIGDNSKEY"}
States == {"HIDDEN", "RUMOURED", "OMNIPRESENT", "UNRETENTIVE", "NA"}

\* enum dbw_ds_at_parent: the code compares these numbers
UNSUBMITTED == 0
SUBMIT == 1
SUBMITTED == 2
SEEN == 3
RETRACT == 4
RETRACTED == 5
GONE == 6

\* a mask: "NA" matches every state
Mask(ds, rrsig, dnskey, rrsigdnskey) ==
  [DS |-> ds, RRSIG |-> rrsig, DNSKEY |-> dnskey, RRSIGDNSKEY |-> rrsigdnskey]

Keys(z) == Range(z.key)

KeyOf(z, id) == z.key[CHOOSE i \in DOMAIN z.key : z.key[i].id = id]

\* a key that was not committed yet has database id 0
db_id(k) == IF k.fresh THEN 0 ELSE k.id

(***************************************************************************)
(* getDesiredState()                                                       *)
(***************************************************************************)
Outroduced == [HIDDEN |-> "HIDDEN", RUMOURED |-> "UNRETENTIVE", OMNIPRESENT |-> "UNRETENTIVE",
               UNRETENTIVE |-> "HIDDEN", NA |-> "NA"]

Introduced == [HIDDEN |-> "RUMOURED", RUMOURED |-> "OMNIPRESENT", OMNIPRESENT |-> "OMNIPRESENT",
               UNRETENTIVE |-> "RUMOURED", NA |-> "NA"]

getDesiredState(k, type) ==
  IF k.introducing THEN Introduced[k.state[type]] ELSE Outroduced[k.state[type]]

\* its side effect: a DS that was never sent to the parent need not be retracted
never_submitted(k, type) ==
  ~ k.introducing /\ type = "DS" /\ k.state.DS = "RUMOURED" /\ k.ds_at_parent < SUBMITTED

(***************************************************************************)
(* Searching keys by the states of their records.                          *)
(***************************************************************************)
match(k, algorithm, mask) ==
  /\ k.algorithm = algorithm
  /\ \A type \in Types : mask[type] \in {"NA", k.state[type]}

exists(z, algorithm, mask) == \E i \in DOMAIN z.key : match(z.key[i], algorithm, mask)

exists_any_algorithm(z, mask) == \E i \in DOMAIN z.key : match(z.key[i], z.key[i].algorithm, mask)

exists_with_ds_state(z, algorithm, mask, ds_state) ==
  \E k \in Keys(z) :
    /\ match(k, algorithm, mask)
    /\ \/ k.ds_at_parent = ds_state
       \/ k.ds_at_parent > ds_state /\ k.ds_at_parent <= SEEN

(***************************************************************************)
(* Dependencies: d.from waits for its successor d.to.  A dependency marked *)
(* for deletion still counts until the commit.                             *)
(***************************************************************************)
from_deps(z, k, type) == {d \in z.dep : d.from = k.id /\ d.type = type}

to_deps(z, k, type) == {d \in z.dep : d.to = k.id /\ d.type = type}

\* the keys find_succ() visits from P: the ids reached through keys that match
\* pmask, in at most as many steps as there are keys
visited(z, P, pmask, algorithm, type) ==
  LET reach[n \in 0..Len(z.key)] ==
        IF n = 0 THEN {P.id}
        ELSE reach[n - 1] \cup {d.to : d \in {e \in z.dep : /\ e.from \in reach[n - 1]
                                                            /\ e.type = type
                                                            /\ match(KeyOf(z, e.to), algorithm, pmask)}}
  IN  {KeyOf(z, id) : id \in reach[Len(z.key)]}

find_succ(z, P, pmask, smask, algorithm, type) ==
  \E Q \in visited(z, P, pmask, algorithm, type) :
    \/ \E d \in from_deps(z, Q, type) : match(KeyOf(z, d.to), algorithm, smask)
    \/ /\ from_deps(z, Q, type) = {}
       /\ \E S \in Keys(z) : /\ match(S, algorithm, smask)
                             /\ to_deps(z, S, type) = {}
                             /\ from_deps(z, S, type) = {}

first_of_dependency_chain(z, P, type) ==
  \/ to_deps(z, P, type) = {}
  \/ \E d \in to_deps(z, P, type) :
       /\ KeyOf(z, d.from).state[type] = "HIDDEN"
       /\ \A e \in z.dep : e.to # d.from

exists_with_successor(z, algorithm, pmask, smask, type) ==
  \E i \in DOMAIN z.key :
    /\ first_of_dependency_chain(z, z.key[i], type)
    /\ match(z.key[i], algorithm, pmask)
    /\ find_succ(z, z.key[i], pmask, smask, algorithm, type)

unsignedOk(z, algorithm, mask, type) ==
  \A k \in Keys(z) :
    k.algorithm = algorithm /\ k.state[type] \notin {"HIDDEN", "NA"} =>
      exists_with_ds_state(z, algorithm, [mask EXCEPT ![type] = k.state[type], !.DS = "NA"], k.ds_at_parent)

all_DS_hidden(z, algorithm) ==
  \A k \in Keys(z) : k.algorithm = algorithm => k.state.DS \in {"HIDDEN", "NA"}

(***************************************************************************)
(* The three rules of a valid zone.                                        *)
(***************************************************************************)
H == "HIDDEN"
R == "RUMOURED"
O == "OMNIPRESENT"
U == "UNRETENTIVE"
X == "NA"

\* there is a DS
rule1(z) ==
  exists_any_algorithm(z, Mask(O, X, X, X)) \/ exists_any_algorithm(z, Mask(R, X, X, X))

\* every DS leads to a DNSKEY set it can validate
rule2(z, algorithm) ==
  \/ exists(z, algorithm, Mask(O, X, O, O))
  \/ exists_with_successor(z, algorithm, Mask(U, X, O, O), Mask(R, X, O, O), "DS")
  \/ \E p \in {Mask(O, X, U, U), Mask(O, X, U, O)}, s \in {Mask(O, X, R, R), Mask(O, X, O, R)} :
       exists_with_successor(z, algorithm, p, s, "DNSKEY")
  \/ unsignedOk(z, algorithm, Mask(H, X, O, O), "DS")

\* every DNSKEY set can validate the signatures
rule3(z, algorithm) ==
  \/ exists(z, algorithm, Mask(X, O, O, X))
  \/ exists_with_successor(z, algorithm, Mask(X, O, U, X), Mask(X, O, R, X), "DNSKEY")
  \/ exists_with_successor(z, algorithm, Mask(X, U, O, X), Mask(X, R, O, X), "RRSIG")
  \/ unsignedOk(z, algorithm, Mask(X, O, H, X), "DNSKEY")
  \/ all_DS_hidden(z, algorithm)

\* a rule that is kept before the transition is kept after it
dnssecApproval(z, i, type, next_state, allow_unsigned) ==
  LET algorithm == z.key[i].algorithm
      after == [z EXCEPT !.key[i].state[type] = next_state]
  IN  /\ allow_unsigned \/ (rule1(z) => rule1(after))
      /\ rule2(z, algorithm) => rule2(after, algorithm)
      /\ rule3(z, algorithm) => rule3(after, algorithm)

\* records are introduced in the order the policy wants
policyApproval(z, i, type, next_state) ==
  LET k == z.key[i]
      a == k.algorithm
  IN
  \/ next_state # R
  \/ type = "DS" /\ ("DS" \in k.minimize => k.state.DNSKEY = O)
  \/ /\ type = "DNSKEY"
     /\ \/ "DNSKEY" \notin k.minimize
        \/ "ZSK" \in k.role /\ k.state.RRSIG \in {O, X}
        \/ "KSK" \in k.role /\ k.state.DS \in {O, X}
        \/ /\ ~ exists(z, a, Mask(O, X, O, O))
           /\ ~ exists_with_successor(z, a, Mask(U, X, O, O), Mask(R, X, O, O), "DS")
           /\ ~ exists_with_successor(z, a, Mask(O, X, U, U), Mask(O, X, R, R), "DNSKEY")
  \/ type = "RRSIGDNSKEY" /\ k.state.DNSKEY # H
  \/ /\ type = "RRSIG"
     /\ \/ "RRSIG" \notin k.minimize
        \/ k.state.DNSKEY = O
        \/ /\ ~ exists(z, a, Mask(X, O, O, X))
           /\ ~ exists_with_successor(z, a, Mask(X, O, U, X), Mask(X, O, R, X), "DNSKEY")
           /\ ~ exists_with_successor(z, a, Mask(X, U, O, X), Mask(X, R, O, X), "RRSIG")

(***************************************************************************)
(* Successors.                                                             *)
(***************************************************************************)
isPotentialSuccessor(succ, pred, type) ==
  /\ db_id(succ) # db_id(pred)
  /\ succ.state[type] = R
  /\ succ.algorithm = pred.algorithm
  /\ \/ type \in {"DS", "RRSIG"} /\ succ.state.DNSKEY = O
     \/ /\ type = "DNSKEY"
        /\ \/ pred.state.DS = O /\ succ.state.DS = O
           \/ pred.state.RRSIG = O /\ succ.state.RRSIG = O

isSuccessable(k, type, next_state) ==
  /\ next_state = U
  /\ \/ type \in {"DS", "RRSIG"} /\ k.state.DNSKEY = O
     \/ type = "DNSKEY" /\ (k.state.DS = O \/ k.state.RRSIG = O)

markSuccessors(z, i, type, next_state) ==
  LET k == z.key[i]
      kept == {[d EXCEPT !.deleted = @ \/ (next_state = O /\ d.to = k.id /\ d.type = type)] : d \in z.dep}
      known(s) == \E d \in kept : d.from = k.id /\ d.type = type /\ db_id(KeyOf(z, d.to)) = db_id(s)
      new == {s \in Keys(z) : /\ isSuccessable(k, type, next_state)
                              /\ isPotentialSuccessor(s, k, type)
                              /\ ~ known(s)}
  IN  [z EXCEPT !.dep = kept \cup {[from |-> k.id, to |-> s.id, type |-> type, deleted |-> FALSE] : s \in new}]

(***************************************************************************)
(* The user and the parent.                                                *)
(***************************************************************************)
\* mutant: every DS must be reported gone, also one that was never submitted
is_waiting_for_gone(k, type, next_state) ==
  /\ type = "DS"
  /\ \/ next_state = O /\ k.ds_at_parent # SEEN
     \/ next_state = H /\ k.ds_at_parent # GONE

is_ds_waiting_for_user(k, type, next_state) ==
  /\ type = "DS"
  /\ \/ next_state = O /\ k.ds_at_parent # SEEN
     \/ next_state = H /\ k.ds_at_parent \notin {UNSUBMITTED, GONE}

handle_ds_at_parent(ds, next_state) ==
  CASE next_state = R /\ ds \in {SEEN, SUBMIT, SUBMITTED} -> ds
    [] next_state = R /\ ds = RETRACT -> SUBMITTED
    [] next_state = R /\ ds \notin {SEEN, SUBMIT, SUBMITTED, RETRACT} -> SUBMIT
    [] next_state = U /\ ds = SUBMIT -> UNSUBMITTED
    [] next_state = U /\ ds \in {SUBMITTED, SEEN} -> RETRACT
    [] OTHER -> ds

initial_state(type, role) ==
  IF \/ type = "DNSKEY"
     \/ type \in {"DS", "RRSIGDNSKEY"} /\ "KSK" \in role
     \/ type = "RRSIG" /\ "ZSK" \in role
  THEN H ELSE X

\* the flags the signer configuration gets (set_key_flags)
publish(k) == k.state.DNSKEY \in {O, R}
active_ksk(k) == k.state.RRSIGDNSKEY \in {O, R}
active_zsk(k) == k.state.RRSIG \in {O, R}
============================================================================
