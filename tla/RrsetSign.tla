------------------------------ MODULE RrsetSign ------------------------------
(***************************************************************************)
(* Which keys sign an RRset (daemon/signeroperation.c, rrset_sign): the    *)
(* signatures it has are matched with the keys of the signing              *)
(* configuration, signatures that can not stay and keys that need not sign *)
(* are dropped from the pairs, and the keys that are left sign, until the  *)
(* HSM fails.  The signatures themselves stay on the record.               *)
(*                                                                         *)
(* A new signature has begun and expires after the refresh time: that the  *)
(* validity is longer than the refresh interval is KaspCheck's.  What a    *)
(* configuration has literally, keys without a locator and signatures of   *)
(* the DNSKEY RRset that were made elsewhere, is left out.                 *)
(***************************************************************************)
EXTENDS Naturals, Sequences, FiniteSets

CONSTANTS SgKeys,       \* keys: [loc, alg, ksk, zsk, publish]
          SgSignatures, \* signatures: [loc, fresh, begun]
          SgMaxKeys, SgMaxSigs

\* Keys and signatures have a locator.
ASSUME SgAssumption ==
  /\ \A k \in SgKeys : /\ k.loc # "none" /\ k.ksk \in BOOLEAN
                        /\ k.zsk \in BOOLEAN /\ k.publish \in BOOLEAN
  /\ \A s \in SgSignatures : /\ s.loc # "none" /\ s.fresh \in BOOLEAN
                              /\ s.begun \in BOOLEAN
  /\ SgMaxKeys \in Nat /\ SgMaxSigs \in Nat

VARIABLES sgjob,   \* [dnskey, refresh, skip, keys, sigs]; skip: the RRset is
                   \* empty, occluded, or of a delegation and no DS
          sgnew,   \* the signatures after it, or <<>> before
          sgstatus \* what rrset_sign returned

sgvars == <<sgjob, sgnew, sgstatus>>

\* Without a key, and without a signature.
NoKey == [loc |-> "none", alg |-> 0, ksk |-> FALSE, zsk |-> FALSE,
          publish |-> FALSE]

NoSig == [loc |-> "none", fresh |-> FALSE, begun |-> FALSE]

rrsigkeyismatching(sig, key) == sig.loc = key.loc

\* The first of the signatures that matches the key, if one does.
FirstMatch(sigs, key) ==
  {i \in DOMAIN sigs :
     /\ rrsigkeyismatching(sigs[i], key)
     /\ \A j \in 1..(i-1) : ~rrsigkeyismatching(sigs[j], key)}

\* The elements of s at the places in K, in their order.
Picked(s, K) ==
  LET upto[n \in 0..Len(s)] ==
        IF n = 0 THEN <<>>
        ELSE IF n \in K THEN Append(upto[n-1], s[n]) ELSE upto[n-1]
  IN upto[Len(s)]

\* The keys that are matched with no signature.
Unmatched(keys, sigs) ==
  Picked(keys, {k \in DOMAIN keys : FirstMatch(sigs, keys[k]) = {}})

\* The key that a signature is left with: the last that took it for its own.
KeyFor(keys, sigs, i) ==
  LET K == {k \in DOMAIN keys : i \in FirstMatch(sigs, keys[k])}
  IN IF K = {} THEN NoKey ELSE keys[CHOOSE k \in K : \A l \in K : l <= k]

\* Each signature with the key that is matched with it, and then the keys
\* that are matched with none.  A key goes with the first that matches.
rrsigkeymatching(keys, sigs) ==
  LET alone == Unmatched(keys, sigs)
  IN [i \in 1..Len(sigs) + Len(alone) |->
        IF i <= Len(sigs)
        THEN [sig |-> sigs[i], key |-> KeyFor(keys, sigs, i)]
        ELSE [sig |-> NoSig, key |-> alone[i - Len(sigs)]]]

\* The first condition that holds says what a pair keeps.
Kept(dnskey, refresh, p) ==
  LET key == p.key # NoKey
      sig == p.sig # NoSig
      ksk == key /\ p.key.ksk
      zsk == key /\ p.key.zsk
      nothing == [key |-> NoKey, sig |-> NoSig]
      nokey   == [p EXCEPT !.key = NoKey]
      nosig   == [p EXCEPT !.sig = NoSig]
  IN CASE ksk /\ ~zsk /\ ~dnskey -> nothing
       [] key /\ ~ksk /\ ~zsk /\ ~dnskey /\ ~sig -> nokey
       [] key /\ ~ksk /\ ~zsk /\ ~dnskey /\ sig /\ ~p.key.publish -> nothing
       [] key /\ ~ksk /\ zsk /\ dnskey -> nothing
       [] OTHER -> IF ~refresh \/ ~p.sig.fresh \/ ~p.sig.begun \/ ~key
                   THEN nosig ELSE p

\* Mutant: another key of the algorithm will do, with or without signature.
Needed_either(ps, i) ==
  /\ ps[i].sig = NoSig /\ ps[i].key # NoKey
  /\ \A j \in DOMAIN ps \ {i} :
       ~ (ps[j].key.publish /\ ps[j].key.alg = ps[i].key.alg)

\* A key need not sign when a published key of its algorithm has a signature.
Needed(ps, i) ==
  /\ ps[i].sig = NoSig /\ ps[i].key # NoKey
  /\ \A j \in DOMAIN ps \ {i} :
       ~ (/\ ps[j].key.publish /\ ps[j].sig # NoSig
          /\ ps[j].key.alg = ps[i].key.alg)

\* The pairs of signatures and keys, when it is settled what they keep.
Pairs(dnskey, refresh, keys, sigs) ==
  LET all == rrsigkeymatching(keys, sigs)
  IN [i \in DOMAIN all |-> Kept(dnskey, refresh, all[i])]

\* The signatures that the keys make.
Made(ps) ==
  Picked([i \in DOMAIN ps |->
            [loc |-> ps[i].key.loc, fresh |-> TRUE, begun |-> TRUE]],
         {i \in DOMAIN ps : Needed(ps, i)})

\* The signatures of the RRset after it: the new ones come last.
rrset_sign(dnskey, refresh, keys, sigs) ==
  sigs \o Made(Pairs(dnskey, refresh, keys, sigs))

SgInit ==
  /\ sgjob \in [dnskey : BOOLEAN, refresh : BOOLEAN, skip : BOOLEAN,
                keys : UNION {{ks \in [1..n -> SgKeys] :
                                 \A i, j \in 1..n :
                                   ks[i].loc = ks[j].loc => i = j} :
                              n \in 1..SgMaxKeys},
                sigs : UNION {[1..n -> SgSignatures] : n \in 0..SgMaxSigs}]
  /\ sgnew = <<>> /\ sgstatus = "none"

\* rrset_sign returns early.
SgSkip ==
  /\ sgnew = <<>> /\ sgjob.skip
  /\ sgnew' = <<sgjob.sigs>> /\ sgstatus' = "OK"
  /\ UNCHANGED sgjob

SgCompute ==
  /\ sgnew = <<>> /\ ~sgjob.skip
  /\ sgnew' = <<rrset_sign(sgjob.dnskey, sgjob.refresh, sgjob.keys, sgjob.sigs)>>
  /\ sgstatus' = "OK"
  /\ UNCHANGED sgjob

\* lhsm_sign fails for one of the keys: the signatures of those before it are
\* on the record.
SgFails ==
  LET made == Made(Pairs(sgjob.dnskey, sgjob.refresh, sgjob.keys, sgjob.sigs))
  IN /\ sgnew = <<>> /\ ~sgjob.skip
     /\ \E n \in 0..(Len(made) - 1) : sgnew' = <<sgjob.sigs \o SubSeq(made, 1, n)>>
     /\ sgstatus' = "HSM_ERR"
     /\ UNCHANGED sgjob

SgNext == SgSkip \/ SgCompute \/ SgFails

SgSpec == SgInit /\ [][SgNext]_sgvars

\* The keys whose task it is to sign the RRset.
Signers(job) == {job.keys[i] : i \in {k \in DOMAIN job.keys :
                   IF job.dnskey THEN job.keys[k].ksk ELSE job.keys[k].zsk}}

ByKey(job, sig) == {job.keys[k] : k \in {l \in DOMAIN job.keys :
                                          job.keys[l].loc = sig.loc}}

\* After a successful rrset_sign, every algorithm that has a key to sign the
\* RRset has a signature on it that stays valid beyond the refresh time,
\* whatever signatures, of these keys, of others or of an earlier attempt that
\* failed, were there before.
AlgorithmsCovered ==
  sgstatus = "OK" /\ ~sgjob.skip =>
    \A key \in Signers(sgjob) : \E i \in DOMAIN sgnew[1] :
      /\ sgnew[1][i].fresh /\ sgnew[1][i].begun
      /\ \E k \in ByKey(sgjob, sgnew[1][i]) : k.alg = key.alg

\* An RRset that had no signature when rrset_sign signed it is not signed
\* again.  (One that had a stale signature is signed every time: the key is
\* matched with that one, the first of its signatures.)
Settled ==
  sgstatus = "OK" /\ ~sgjob.skip /\ sgjob.sigs = <<>> /\ sgjob.refresh =>
    rrset_sign(sgjob.dnskey, TRUE, sgjob.keys, sgnew[1]) = sgnew[1]

\* The keys that have to sign an RRset have signed it, and an RRset signed from
\* nothing is not signed again.
RrsetSound == AlgorithmsCovered /\ Settled

=============================================================================
