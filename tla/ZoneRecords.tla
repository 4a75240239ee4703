---------------------------- MODULE ZoneRecords ----------------------------
(***************************************************************************)
(* What happens to the records of a zone in the signer: from the zone file *)
(* and the requests of the web service (views/httpd.c) through the views   *)
(* of a signing (daemon/signertasks.c, signeroperation.c) to the zone      *)
(* file and the transfers that go out (views/zoneoutput.c).                *)
(*                                                                         *)
(* A record holds all the data of one owner name in one revision.  The     *)
(* views share the records and differ in their indices (views/index.c):    *)
(* an index holds the records its accept function takes                    *)
(* (views/recordset.c), one per key.  A view changes its own first index   *)
(* and collects the changes; a commit puts them in its other indices and   *)
(* in the log, from which the other views take them when they are reset    *)
(* (views/views.c).  A record is changed in place in all views at once,    *)
(* whether they have seen the change or not.                               *)
(*                                                                         *)
(* Each step takes a view from its reset to its commit; a commit of        *)
(* another view in between is a subject of CommitLog.  Purging, the state  *)
(* file and the view of the changes are left out.                          *)
(***************************************************************************)
EXTENDS Naturals, Sequences, FiniteSets

LOCAL INSTANCE FiniteSetsExt

CONSTANTS
  RNames,      \* the owner names, in the order of the denial chain
  RAncestors,  \* [name -> its ancestors in the zone, nearest first]
  RFile,       \* [name -> its data in the zone file]
  RRequests,   \* requests to the web service: [opc, owner, rrs]
  RScenarios,  \* [overlap, failures, requests, runs]: may requests come while
               \* the zone is being signed, may signing fail, and how many
               \* requests and signings there are at most
  RMaxClock,   \* bound of the clock
  RValidity, RRefresh \* of signatures, in units of the clock

Names == {RNames[k] : k \in DOMAIN RNames}

Apex == RNames[1]

Views == {"input", "prepare", "neighb", "sign", "output"}

\* The indices of a view.
ViewIndices ==
  [input   |-> {"nameupcoming", "namehierarchy"},
   prepare |-> {"namerevision", "incomingset", "currentset", "relevantset"},
   neighb  |-> {"namerevision", "nameready", "denialname"},
   sign    |-> {"nameready", "expiry", "denialname"},
   output  |-> {"validnow"}]

\* The first of them.
FirstIndex == [input |-> "nameupcoming", prepare |-> "namerevision",
               neighb |-> "namerevision", sign |-> "nameready",
               output |-> "validnow"]

VARIABLES
  rheap,   \* the records
  rview,   \* [view -> [index -> the records in it]]
  rlog,    \* the committed changes: sets of records
  rpos,    \* how many of them each view has seen
  rphase,  \* how far the signing is
  rserial, \* the serial of the signing
  rclock,
  rruns,   \* signings so far
  rleft,   \* requests that may still come
  rwanted, \* [name -> what the zone file and the requests ask for]
  rstays,  \* [name -> what the requests ask to delete, and the code leaves]
  rout,    \* the last output: its records, and what it is
  rabort,  \* the assertion that has failed
  ropt     \* the scenario

recordvars == <<rheap, rview, rlog, rpos, rphase, rserial, rclock, rruns,
                rleft, rwanted, rstays, rout, rabort, ropt>>

NoDenial == <<>>

Forever == RMaxClock + RValidity + RRefresh + 1

\* A new record.  Serials and times are 0 when not set.
names_recordcreate(name) ==
  [name |-> name, rev |-> 1, data |-> {}, from |-> 0, upto |-> 0,
   expiry |-> 0, span |-> TRUE, denial |-> NoDenial, sigs |-> {},
   spansigs |-> {}]

NoRecord == [names_recordcreate("") EXCEPT !.rev = 0]

names_recordcopy(r, clear) ==
  LET keep(x) == IF clear THEN 0 ELSE x
  IN [r EXCEPT !.rev = @ + 1, !.sigs = {}, !.spansigs = {},
               !.from = keep(@), !.upto = keep(@), !.expiry = keep(@)]

TypesOf(r) == {x[1] : x \in r.data}

Values(r, type) == {x[2] : x \in {y \in r.data : y[1] = type}}

names_recordhasdata(r, type) == type \in TypesOf(r)

names_recorddelall(r, type) == [r EXCEPT !.data = {x \in @ : x[1] # type}]

----------------------------------------------------------------------------

Older(new, cur) == new.name = cur.name /\ new.rev <= cur.rev

compareupcomingset(new, cur) == IF Older(new, cur) THEN 0 ELSE 1

compareincomingset(new, cur) ==
  IF new.from # 0 THEN (IF new.name = cur.name THEN 2 ELSE 0)
  ELSE IF Older(new, cur) THEN 0 ELSE 1

compareready(new, cur) ==
  IF Older(new, cur) \/ new.upto # 0 \/ new.from = 0 THEN 0 ELSE 1

comparecurrentset(new, cur) == IF new.upto # 0 \/ new.from = 0 THEN 0 ELSE 1

comparerelevantset(new, cur) ==
  IF Older(new, cur) \/ new.upto # 0 THEN 0 ELSE 1

\* Mutant: without the test of the last serial.
comparesignedset_deleted(new, cur) ==
  IF new.from = 0 \/ new.expiry = 0 THEN 0 ELSE 1

comparesignedset(new, cur) ==
  IF new.upto # 0 \/ new.from = 0 \/ new.expiry = 0 THEN 0 ELSE 1

compareexpiry(new, cur) ==
  CASE new.name # cur.name \/ new.expiry # cur.expiry -> 1
    [] new.rev >= cur.rev -> 2
    [] OTHER -> 0

comparedenialname(new, cur) == IF new.span THEN 1 ELSE 0

\* 1: in the index, instead of cur if that has the same key; 0: not; 2: cur
\* must leave.
acceptfunc(ix, new, cur) ==
  CASE ix = "nameupcoming" -> compareupcomingset(new, cur)
    [] ix = "incomingset"  -> compareincomingset(new, cur)
    [] ix = "nameready"    -> compareready(new, cur)
    [] ix = "currentset"   -> comparecurrentset(new, cur)
    [] ix = "relevantset"  -> comparerelevantset(new, cur)
    [] ix = "validnow"     -> comparesignedset(new, cur)
    [] ix = "expiry"       -> compareexpiry(new, cur)
    [] ix = "denialname"   -> comparedenialname(new, cur)
    [] OTHER -> 1

\* The compare functions of the indices say 0.
SameKey(ix, a, b) ==
  /\ a.name = b.name
  /\ ix \in {"namerevision", "namehierarchy"} => a.rev = b.rev
  /\ ix = "expiry" => a.expiry = b.expiry
  /\ ix = "denialname" => a.span /\ b.span

InIndex(h, ix, S, id) == {x \in S : SameKey(ix, h[x], h[id])}

LookUp(h, S, name) == {x \in S : h[x].name = name}

names_indexinsert(h, ix, S, id, existing) ==
  LET S1    == IF existing = 0 THEN S ELSE S \ InIndex(h, ix, S, existing)
      found == InIndex(h, ix, S1, id)
      cur   == CHOOSE x \in found : TRUE
      res(set, ok, ex) == [set |-> set, accepted |-> ok, existing |-> ex]
  IN IF id = 0 THEN res(S1, FALSE, existing)
     ELSE IF acceptfunc(ix, h[id], NoRecord) = 0
       THEN res(IF id \in found /\ acceptfunc(ix, h[id], h[id]) = 0
                THEN S1 \ {id} ELSE S1, FALSE, existing)
     ELSE IF found = {} THEN res(S1 \cup {id}, TRUE, existing)
     ELSE CASE acceptfunc(ix, h[id], h[cur]) = 0 -> res(S1, FALSE, 0)
            [] acceptfunc(ix, h[id], h[cur]) = 1 ->
                 res((S1 \ {cur}) \cup {id}, TRUE,
                     IF existing = 0 THEN cur ELSE existing)
            [] OTHER -> res(S1 \ {cur}, FALSE,
                            IF existing = 0 THEN cur ELSE existing)

\* A view takes a record from the log.
TakeRecord(h, v, ixs, id) ==
  LET first == FirstIndex[v]
      res   == names_indexinsert(h, first, ixs[first], id, 0)
  IN [ix \in ViewIndices[v] |->
        IF ix = first THEN res.set
        ELSE names_indexinsert(h, ix, ixs[ix],
                               IF res.accepted THEN id ELSE 0,
                               res.existing).set]

TakeAll(h, v, ixs, ids) ==
  FoldSet(LAMBDA id, acc : TakeRecord(h, v, acc, id), ixs, ids)

\* names_viewreset, when the view has no changes of its own.
names_viewreset(h, v) ==
  LET upto[k \in 0..Len(rlog)] ==
        IF k <= rpos[v] THEN rview[v]
        ELSE TakeAll(h, v, upto[k-1], rlog[k])
  IN upto[Len(rlog)]

----------------------------------------------------------------------------
(* A view at work: [v, h, ix, chg, failed]; chg has the changes, each      *)
(* with the record it is found by, and failed the assertion that failed.  *)

Begin(v) == [v |-> v, h |-> rheap, ix |-> names_viewreset(rheap, v),
             chg |-> {}, failed |-> "none"]

Check(w, what, cond) ==
  [w EXCEPT !.failed = IF @ = "none" /\ ~cond THEN what ELSE @]

Update(w, id, r) == [w EXCEPT !.h[id] = r]

Entry(w, id) == {c \in w.chg : SameKey(FirstIndex[w.v], w.h[c.key], w.h[id])}

names_amend(w, id) ==
  IF Entry(w, id) # {} THEN w
  ELSE [w EXCEPT !.chg = @ \cup {[key |-> id, rec |-> id, old |-> id]}]

names_remove(w, id) ==
  LET ix == FirstIndex[w.v]
  IN [w EXCEPT !.ix[ix] = @ \ InIndex(w.h, ix, @, id),
               !.chg = (@ \ Entry(w, id)) \cup
                       (IF Entry(w, id) = {}
                        THEN {[key |-> id, rec |-> 0, old |-> id]}
                        ELSE {[c EXCEPT !.rec = 0] : c \in Entry(w, id)})]

\* The last record of the heap is new, and replaces old in the first index.
Added(w, r, old, key) ==
  LET ix == FirstIndex[w.v]
      h  == Append(w.h, r)
      S  == IF old = 0 THEN w.ix[ix]
            ELSE w.ix[ix] \ InIndex(h, ix, w.ix[ix], old)
  IN [w EXCEPT !.h = h,
               !.ix[ix] = names_indexinsert(h, ix, S, Len(h), 0).set,
               !.chg = {c \in @ : c.key # key} \cup
                       {[key |-> IF key = 0 THEN Len(h) ELSE key,
                         rec |-> Len(h), old |-> old]}]

names_place(w, name) ==
  IF LookUp(w.h, w.ix[FirstIndex[w.v]], name) # {} THEN w
  ELSE Added(w, names_recordcreate(name), 0, 0)

\* names_underwrite and names_overwrite: a copy for the view to change,
\* unless it has one.
names_underwrite(w, id) ==
  IF Entry(w, id) # {} /\ \A c \in Entry(w, id) : c.rec # c.old
  THEN [w EXCEPT !.chg = {[c EXCEPT !.rec = IF c \in Entry(w, id) THEN id
                                            ELSE @] : c \in w.chg}]
  ELSE Added(w, names_recordcopy(w.h[id], TRUE), id,
             IF Entry(w, id) = {} THEN id
             ELSE (CHOOSE c \in Entry(w, id) : TRUE).key)

\* Where the copy is.
Own(w, id) == IF Entry(w, id) # {} /\ \A c \in Entry(w, id) : c.rec # c.old
              THEN id ELSE Len(w.h) + 1

\* names_update of a record the view has not changed.
names_update(w, id) == Added(w, names_recordcopy(w.h[id], FALSE), id, id)

names_recordsetvalidfrom(w, id, serial) ==
  Check(Update(w, id, [w.h[id] EXCEPT !.from = serial]), "validfrom",
        w.h[id].from = 0)

names_recordsetvalidupto(w, id, serial) ==
  Check(Update(w, id, [w.h[id] EXCEPT !.upto = serial]), "validupto",
        w.h[id].upto = 0)

\* The changes of a view, in the order in which they are taken: of a name,
\* the older revision first.
Waves(w) ==
  LET rev(c) == w.h[c.key].rev
      revs   == {rev(c) : c \in w.chg}
  IN [k \in 1..Cardinality(revs) |->
        {c \in w.chg : Cardinality({r \in revs : r < rev(c)}) = k - 1}]

\* names_viewcommit: the changes go in the other indices of the view, and
\* their records in the log.
Submitted(w) ==
  LET put(c, ixs) ==
        [ix \in ViewIndices[w.v] |->
           IF ix = FirstIndex[w.v] THEN ixs[ix]
           ELSE names_indexinsert(w.h, ix, ixs[ix], c.rec, c.old).set]
      order[k \in 0..Len(Waves(w))] ==
        IF k = 0 THEN w.ix ELSE FoldSet(put, order[k-1], Waves(w)[k])
  IN [w EXCEPT !.ix = order[Len(Waves(w))], !.chg = {}]

LogOf(w) ==
  [k \in DOMAIN Waves(w) |->
     {IF c.rec = 0 THEN c.old ELSE c.rec : c \in Waves(w)[k]}]

\* The view has done its work w.
Commit(w) ==
  /\ rheap' = w.h
  /\ rview' = [rview EXCEPT ![w.v] = Submitted(w).ix]
  /\ rlog' = rlog \o LogOf(w)
  /\ rpos' = [rpos EXCEPT ![w.v] = Len(rlog')]
  /\ rabort' = w.failed

----------------------------------------------------------------------------
(* The steps of a signing.                                                 *)

\* Go over the names in S in the order of the denial chain.
Along(w, S, Step(_, _)) ==
  LET upto[k \in 0..Len(RNames)] ==
        IF k = 0 THEN w
        ELSE FoldSet(LAMBDA id, acc : Step(acc, id), upto[k-1],
                     {id \in S : w.h[id].name = RNames[k]})
  IN upto[Len(RNames)]

ReadyAt(w, name) ==
  LET S == LookUp(w.h, w.ix["nameready"], name)
  IN IF S = {} THEN NoRecord ELSE w.h[CHOOSE x \in S : TRUE]

\* The record is below a delegation or a DNAME.
domain_is_occluded(w, r) ==
  LET anc == RAncestors[r.name]
      has(k, type) == names_recordhasdata(ReadyAt(w, anc[k]), type)
  IN /\ ~names_recordhasdata(r, "SOA")
     /\ \E k \in DOMAIN anc :
          /\ has(k, "NS") \/ has(k, "DNAME")
          /\ \A j \in 1..k : ~has(j, "SOA")

domain_is_delegpt(r) ==
  names_recordhasdata(r, "NS") /\ ~names_recordhasdata(r, "SOA")

\* The types in the NSEC of a record; RRSIG and NSEC are always there.
denial_create_bitmap(w, r) ==
  IF domain_is_occluded(w, r) THEN {}
  ELSE IF domain_is_delegpt(r) THEN TypesOf(r) \cap {"NS", "DS"}
  ELSE TypesOf(r)

\* The next name of the chain.
names_indexlookupnext(w, id) ==
  LET here  == CHOOSE k \in DOMAIN RNames : RNames[k] = w.h[id].name
      in(k) == LookUp(w.h, w.ix["denialname"], RNames[k]) # {}
      n     == Len(RNames)
      at(d) == ((here + d - 1) % n) + 1
      d     == CHOOSE d \in 1..n : in(at(d)) /\ \A e \in 1..(d-1) : ~in(at(e))
  IN RNames[at(d)]

InChain(w) == {id \in w.ix["nameready"] : w.h[id].span}

\* names_iteratordenialchainupdates asserts that the record is in the chain.
Linked(w) ==
  Check(w, "chain", \A id \in InChain(w) :
             InIndex(w.h, "denialname", w.ix["denialname"], id) # {})

preparesign(w0, serial) ==
  LET step(w, id) ==
        LET dst == LookUp(w.h, w0.ix["currentset"], w.h[id].name)
            w1  == FoldSet(LAMBDA d, acc :
                     IF acc.h[d].upto # 0 THEN acc
                     ELSE names_recordsetvalidupto(names_amend(acc, d), d,
                                                   serial),
                     w, dst)
            r   == w1.h[id]
        IN CASE r.from # 0 -> w1
             [] r.from = 0 /\ (r.data # {} \/ r.expiry # 0) ->
                  names_recordsetvalidfrom(names_amend(w1, id), id, serial)
             [] OTHER -> names_remove(w1, id)
  IN Along(w0, w0.ix["incomingset"], step)

\* zone_update_serial: the apex with the serial of this signing.
zone_update_apex(w, serial) ==
  LET apex == LookUp(w.h, w.ix["relevantset"], Apex)
      d    == CHOOSE x \in apex : TRUE
      w1   == IF w.h[d].expiry = 0 THEN w
              ELSE names_recordsetvalidupto(names_amend(w, d), d, serial)
      own  == Own(w1, d)
      w2   == names_recordsetvalidfrom(names_underwrite(w1, d), own, serial)
      soa(r) == [names_recorddelall(r, "SOA") EXCEPT
                   !.data = @ \cup {<<"SOA", serial>>}]
  IN IF apex = {} THEN Check(w, "apex", FALSE) ELSE Update(w2, own, soa(w2.h[own]))

processoccluded(w0) ==
  LET step(w, id) ==
        IF domain_is_occluded(w0, w0.h[id])
        THEN LET w1 == names_update(w, id)
             IN Update(w1, Len(w1.h), [w1.h[Len(w1.h)] EXCEPT
                                         !.span = FALSE, !.denial = NoDenial])
        ELSE w
  IN Along(Linked(w0), InChain(w0), step)

processneighbours(w0, serial) ==
  LET step(w, id) ==
        LET r    == w.h[id]
            nsec == <<names_indexlookupnext(w0, id),
                      denial_create_bitmap(w, r)>>
            w1   == names_amend(w, id)
            w2   == names_underwrite(names_recordsetvalidupto(w1, id, serial),
                                     id)
            new  == Len(w2.h)
            set(x, i) == Update(x, i, [x.h[i] EXCEPT !.denial = nsec])
        IN CASE r.denial = nsec -> w
             [] r.denial # nsec /\ r.expiry = 0 -> set(w1, id)
             [] OTHER -> set(names_recordsetvalidfrom(w2, new, serial), new)
  IN Along(Linked(w0), InChain(w0), step)

\* The RRsets of a record that are signed.
SignedTypes(occluded, r) ==
  IF occluded THEN {}
  ELSE IF domain_is_delegpt(r) THEN TypesOf(r) \cap {"DS"}
  ELSE TypesOf(r)

signdomain(w, id, now) ==
  LET r     == w.h[id]
      types == SignedTypes(domain_is_occluded(w, r), r)
      sigs  == {<<t, Values(r, t)>> : t \in types}
      span  == IF r.span THEN {r.denial} ELSE {}
  IN Check(Update(w, id,
       [r EXCEPT !.sigs = @ \cup sigs, !.spansigs = @ \cup span,
                 !.expiry = IF sigs \cup span = {} THEN Forever
                            ELSE now + RValidity]), "expiry", r.expiry = 0)

----------------------------------------------------------------------------

\* The records names_iteratordescendants finds: it takes names of which the
\* owner is a prefix, as text, so the owner and no name below it.
deletedelegation(w, owner) ==
  LET S == LookUp(w.h, w.ix["namehierarchy"], owner)
  IN FoldSet(LAMBDA id, acc :
               Update(names_underwrite(acc, id), Own(acc, id),
                      [names_underwrite(acc, id).h[Own(acc, id)] EXCEPT
                         !.data = {}]), w, S)

deleterecordsets(w, owner, rrs) ==
  LET S == LookUp(w.h, w.ix["nameupcoming"], owner)
  IN FoldSet(LAMBDA id, acc :
               Update(acc, id, [acc.h[id] EXCEPT
                 !.data = {x \in @ : \A rr \in rrs : rr[1] # x[1]}]), w, S)

insertrecords(w, owner, rrs) ==
  LET w1 == names_place(w, owner)
      id == CHOOSE x \in LookUp(w1.h, w1.ix["nameupcoming"], owner) : TRUE
      w2 == names_underwrite(w1, id)
      o  == Own(w1, id)
  IN IF rrs = {} THEN w
     ELSE Update(w2, o, [w2.h[o] EXCEPT !.data = @ \cup rrs])

BelowDelegation(q, n) ==
  /\ q.opc = "delegation"
  /\ \E k \in DOMAIN RAncestors[n] : RAncestors[n][k] = q.owner

Live == rabort = "none"

\* rwanted follows what httpd.h says of the opcodes: all records of the owner
\* are removed, for a delegation those below it too, and the new ones inserted.
httpd_dispatch ==
  /\ Live /\ rleft > 0 /\ rlog # <<>>
  /\ ropt.overlap \/ rphase = "idle"
  /\ \E q \in RRequests :
       LET w == Begin("input")
       IN /\ Commit(insertrecords(
                      CASE q.opc = "delegation" -> deletedelegation(w, q.owner)
                        [] OTHER -> deleterecordsets(w, q.owner, q.rrs),
                      q.owner, q.rrs))
          /\ rwanted' = [n \in Names |->
               CASE n = q.owner -> q.rrs
                 [] BelowDelegation(q, n) -> {}
                 [] OTHER -> rwanted[n]]
          /\ rstays' = [n \in Names |->
               CASE n = q.owner -> {x \in rwanted[n] \cup rstays[n] :
                                      /\ q.opc = "name"
                                      /\ \A rr \in q.rrs : rr[1] # x[1]}
                 [] BelowDelegation(q, n) -> rwanted[n] \cup rstays[n]
                 [] OTHER -> rstays[n]]
  /\ rleft' = rleft - 1
  /\ UNCHANGED <<rphase, rserial, rclock, rruns, rout, ropt>>

\* The zone file is read.
ReadZone ==
  /\ Live /\ rlog = <<>> /\ rphase = "idle"
  /\ Commit(FoldSet(LAMBDA n, w : IF RFile[n] = {} THEN w
                                  ELSE Update(names_place(w, n), Len(w.h) + 1,
                                         [names_recordcreate(n) EXCEPT
                                            !.data = RFile[n]]),
                    Begin("input"), Names))
  /\ rwanted' = RFile
  /\ UNCHANGED <<rphase, rserial, rclock, rruns, rleft, rstays, rout, ropt>>

\* preparesign commits, and zone_update_apex changes the view after that.
Prepare ==
  /\ Live /\ rphase = "idle" /\ rlog # <<>> /\ rruns < ropt.runs
  /\ LET serial == rserial + 1
         w1     == preparesign(Begin("prepare"), serial)
         w2     == zone_update_apex(Submitted(w1), serial)
     IN /\ rheap' = w2.h
        /\ rview' = [rview EXCEPT !["prepare"] = Submitted(w2).ix]
        /\ rlog' = rlog \o LogOf(w1) \o LogOf(w2)
        /\ rpos' = [rpos EXCEPT !["prepare"] = Len(rlog')]
        /\ rabort' = w2.failed
        /\ rserial' = serial
  /\ rphase' = "prepared"
  /\ rruns' = rruns + 1
  /\ UNCHANGED <<rclock, rleft, rwanted, rstays, rout, ropt>>

Occlude ==
  /\ Live /\ rphase = "prepared"
  /\ Commit(processoccluded(Begin("neighb")))
  /\ rphase' = "occluded"
  /\ UNCHANGED <<rserial, rclock, rruns, rleft, rwanted, rstays, rout, ropt>>

Neighbours ==
  /\ Live /\ rphase = "occluded"
  /\ Commit(processneighbours(Begin("sign"), rserial))
  /\ rphase' = "linked"
  /\ UNCHANGED <<rserial, rclock, rruns, rleft, rwanted, rstays, rout, ropt>>

\* The HSM can not be reached, or not all keys can be used.
HsmDown ==
  /\ Live /\ rphase = "linked" /\ ropt.failures
  /\ rphase' = "idle"
  /\ UNCHANGED <<rheap, rview, rlog, rpos, rserial, rclock, rruns, rleft,
                 rwanted, rstays, rout, rabort, ropt>>

\* The signatures in S fail.
Sign ==
  /\ Live /\ rphase = "linked"
  /\ LET w     == Begin("sign")
         index == w.ix["expiry"]
         new   == {id \in index : w.h[id].expiry = 0}
         late  == {id \in index \ new : w.h[id].expiry < rclock + RRefresh}
     IN \E some \in SUBSET late :
        /\ index = new \cup late => some = late
        /\ \E failed \in IF ropt.failures THEN SUBSET (new \cup some)
                          ELSE {{}} :
           /\ Commit(FoldSet(LAMBDA id, acc :
                      IF id \in failed THEN names_amend(acc, id)
                      ELSE signdomain(names_amend(acc, id), id, rclock),
                      w, new \cup some))
           /\ rphase' = IF failed = {} THEN "signed" ELSE "idle"
  /\ UNCHANGED <<rserial, rclock, rruns, rleft, rwanted, rstays, rout, ropt>>

Output(what) ==
  LET ixs == names_viewreset(rheap, "output")
  IN /\ rview' = [rview EXCEPT !["output"] = ixs]
     /\ rpos' = [rpos EXCEPT !["output"] = Len(rlog)]
     /\ rout' = [what |-> what, recs |-> {rheap[id] : id \in ixs["validnow"]},
                 wanted |-> rwanted, stays |-> rstays]

Write ==
  /\ Live /\ rphase = "signed"
  /\ Output("file")
  /\ rphase' = "idle"
  /\ UNCHANGED <<rheap, rlog, rserial, rclock, rruns, rleft, rwanted,
                 rstays, rabort, ropt>>

Transfer ==
  /\ Live /\ rlog # <<>>
  /\ Output("transfer")
  /\ UNCHANGED <<rheap, rlog, rphase, rserial, rclock, rruns, rleft, rwanted,
                 rstays, rabort, ropt>>

RTick ==
  /\ Live /\ rphase = "idle" /\ rclock < RMaxClock
  /\ rclock' = rclock + 1
  /\ UNCHANGED <<rheap, rview, rlog, rpos, rphase, rserial, rruns, rleft,
                 rwanted, rstays, rout, rabort, ropt>>

RecordsInit ==
  /\ ropt \in RScenarios
  /\ rheap = <<>>
  /\ rview = [v \in Views |-> [ix \in ViewIndices[v] |-> {}]]
  /\ rlog = <<>>
  /\ rpos = [v \in Views |-> 0]
  /\ rphase = "idle"
  /\ rserial = 0
  /\ rclock = 1
  /\ rruns = 0
  /\ rleft = ropt.requests
  /\ rwanted = [n \in Names |-> {}]
  /\ rstays = [n \in Names |-> {}]
  /\ rout = [what |-> "none", recs |-> {}, wanted |-> rwanted,
             stays |-> rstays]
  /\ rabort = "none"

RecordsNext ==
  \/ ReadZone
  \/ httpd_dispatch
  \/ Prepare
  \/ Occlude
  \/ Neighbours
  \/ HsmDown
  \/ Sign
  \/ Write
  \/ Transfer
  \/ RTick

RecordsSpec == RecordsInit /\ [][RecordsNext]_recordvars

----------------------------------------------------------------------------

OutAt(name) == {r \in rout.recs : r.name = name}

\* Whatever goes out is signed as it goes out: every RRset of a record of the
\* denial chain that must be signed has a signature over just its present
\* data, and so has its NSEC, whether the zone is written or transferred, and
\* also when requests change shared records (recordset.c, names_recorddelall
\* from httpd.c) during a signing, or when the HSM fails for some of them.
NothingUnsigned ==
  \A r \in rout.recs :
    r.span => /\ \A t \in SignedTypes(FALSE, r) :
                   <<t, Values(r, t)>> \in r.sigs
              /\ r.denial \in r.spansigs

\* The zone is written in full, with all requests before it.
InOrder == rout.what = "file" /\ ~ropt.overlap /\ ~ropt.failures

DataOut(n) == UNION {r.data : r \in OutAt(n)}

\* When signing does not fail and requests do not come in between, a zone
\* that is written (zoneoutput.c) has the data that the zone file and all
\* requests before ask for: nothing is missing or stale.  Data that a request
\* should have removed and does not is the only excess: names below a
\* delegation, and other types of a name (httpd.c, deletedelegation and
\* deleterecordsets).
Published ==
  InOrder => \A n \in Names \ {Apex} :
               /\ rout.wanted[n] \subseteq DataOut(n)
               /\ DataOut(n) \subseteq rout.wanted[n] \cup rout.stays[n]

\* What httpd.h says of RPC_CHANGE_DELEGATION and RPC_CHANGE_NAME, "Remove all
\* records with the same owner name and below and insert new" and "Remove all
\* records with the same owner name and insert new": a zone that is written
\* has the data that is asked for and no more.  The code does not do this.
RequestsReplace ==
  InOrder => \A n \in Names \ {Apex} : DataOut(n) = rout.wanted[n]

\* Of two signed revisions of a name, one ends before the other begins: no
\* serial has two of them (names_recordsetvalidfrom and -upto in
\* signertasks.c and signeroperation.c, over all the views that set them).
VersionsApart ==
  \A i, j \in DOMAIN rheap :
    /\ i # j /\ rheap[i].name = rheap[j].name
    /\ rheap[i].expiry # 0 /\ rheap[j].expiry # 0
    /\ rheap[i].from <= rheap[j].from
    => rheap[i].upto # 0 /\ rheap[i].upto <= rheap[j].from

\* The assertions on the serials of a record, on the apex and on the denial
\* chain (recordset.c, signeroperation.c, views.c) do not fail.  The one on
\* the expiry does, when a signature is to be refreshed.
SerialsAsserted == rabort \in {"none", "expiry"}

\* What is signed and handed out is one version of the zone, as requested.
RecordsSound == NothingUnsigned /\ Published /\ VersionsApart /\ SerialsAsserted

=============================================================================
