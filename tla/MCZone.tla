------------------------------- MODULE MCZone -------------------------------
(***************************************************************************)
(* The records of a zone, their signatures, the tokens with the keys that  *)
(* make them and the service that hands them out, side by side: a          *)
(* behaviour is one of one part, chosen at the start, and the other parts  *)
(* stay as they began.                                                     *)
(***************************************************************************)
EXTENDS ZoneRecords, RrsetSign, DnsService, Hsm

VARIABLE part

Parts == {"records", "rrset", "dns", "hsm"}

MCNames == <<"z", "d", "g", "n">>

MCAncestors == [z |-> <<>>, d |-> <<"z">>, g |-> <<"d", "z">>, n |-> <<"z">>]

MCFile == [z |-> {<<"SOA", 0>>, <<"NS", 1>>}, d |-> {<<"NS", 1>>},
           g |-> {<<"A", 1>>}, n |-> {}]

MCRequests ==
  {[opc |-> "delegation", owner |-> "n", rrs |-> rrs] :
     rrs \in {{}, {<<"NS", 1>>}, {<<"NS", 2>>, <<"DS", 2>>}}} \cup
  {[opc |-> "delegation", owner |-> "d", rrs |-> {<<"NS", 2>>}],
   [opc |-> "name", owner |-> "n", rrs |-> {<<"A", 2>>}]}

MCScenarios ==
  {[overlap |-> FALSE, failures |-> FALSE, requests |-> 2, runs |-> 3],
   [overlap |-> TRUE, failures |-> FALSE, requests |-> 2, runs |-> 2],
   [overlap |-> TRUE, failures |-> TRUE, requests |-> 1, runs |-> 2]}

MCKeys ==
  {k \in [loc : {"a", "b"}, alg : {8, 13}, ksk : BOOLEAN, zsk : BOOLEAN,
          publish : BOOLEAN] : k.loc = "a" => k.alg = 8}

MCSignatures == [loc : {"a", "b", "c"}, fresh : BOOLEAN, begun : {TRUE}] \cup
                {[loc |-> "a", fresh |-> TRUE, begun |-> FALSE]}

MCDNames == <<"a", "b", "c", "d">>

MCDContent == <<[a |-> <<"x", "q">>, b |-> <<"p">>, c |-> <<"l", "m">>, d |-> <<"y">>],
                [a |-> <<"x", "q">>, b |-> <<"p">>, c |-> <<"l", "m">>, d |-> <<"r">>],
                [a |-> <<"q">>, b |-> <<>>, c |-> <<"y">>, d |-> <<"r">>]>>

MCDSize == [x |-> 4, y |-> 1, p |-> 5, q |-> 1, l |-> 4, m |-> 5, r |-> 1]

DBase == [form |-> "query", counts |-> "good", qtype |-> "AXFR", serial |-> 0,
          tsig |-> "none", key |-> "none", edns |-> "none", maxlen |-> 0,
          addr |-> <<0, 2>>]

MCDRequests ==
  {[DBase EXCEPT !.qtype = t, !.serial = n, !.tsig = g[1], !.key = g[2],
                 !.edns = e[1], !.maxlen = e[2], !.addr = a] :
     t \in {"IXFR"}, n \in 0 .. 3, a \in {<<0, 2>>},
     g \in {<<"none", "none">>, <<"ok", "k">>},
     e \in {<<"none", 0>>, <<"ok", 6>>, <<"ok", 8>>, <<"ok", 12>>}} \cup
  {[DBase EXCEPT !.tsig = g[1], !.key = g[2], !.edns = "ok", !.maxlen = n] :
     n \in {6, 8, 12},
     g \in {<<"none", "none">>, <<"ok", "k">>}} \cup
  {[DBase EXCEPT !.addr = <<i, j>>, !.tsig = g[1], !.key = g[2]] :
     i \in 0 .. 3, j \in 0 .. 3,
     g \in {<<"none", "none">>, <<"ok", "k">>, <<"ok", "l">>}} \cup
  {[DBase EXCEPT !.tsig = g, !.edns = e] :
     g \in {"badkey", "badsig", "malformed"}, e \in {"none", "error"}} \cup
  {[DBase EXCEPT !.form = f] : f \in {"ignored", "unparsable", "nozone", "update"}}
   \cup
  {[DBase EXCEPT !.qtype = t, !.counts = c] :
     t \in {"SOA", "AXFR", "IXFR"}, c \in {"good", "bad", "tc"}} \cup
  {[DBase EXCEPT !.edns = "error"],
   [DBase EXCEPT !.qtype = "IXFR", !.serial = BadSoa]}

MCDAcl == <<[range |-> "minmax", addr |-> <<0, 2>>, mask |-> <<2, 1>>, key |-> "none"],
           [range |-> "subnet", addr |-> <<2, 0>>, mask |-> 1, key |-> "k"],
           [range |-> "mask", addr |-> <<0, 2>>, mask |-> <<1, 2>>, key |-> "k"],
           [range |-> "single", addr |-> <<3, 3>>, mask |-> 0, key |-> "none"],
           [range |-> "any", addr |-> <<>>, mask |-> 0, key |-> "l"]>>

MCDMax == [tcp |-> 12, axfr |-> 9, udp |-> 7, edns |-> 9]

MCHsmRepos ==
  << [lib |-> "softhsm", token |-> "A", pubkey |-> TRUE, asks |-> TRUE],
     [lib |-> "softhsm", token |-> "B", pubkey |-> FALSE, asks |-> FALSE] >>

HsmObject(token, id, class, kind) ==
  [token |-> token, id |-> id, class |-> class, kind |-> kind, live |-> TRUE]

MCHsmTokens ==
  { << HsmObject("B", 1, "priv", "ECDSA"), HsmObject("B", 1, "pub", "ECDSA"),
       HsmObject("A", 2, "priv", "RSA") >> }

HsmScenario(jobs, ids, kinds, fails, bad, count, opens) ==
  [jobs |-> jobs, ids |-> ids, kinds |-> kinds, fails |-> fails,
   faults |-> bad, count |-> count, opens |-> opens]

MCHsmScenarios ==
  { HsmScenario({"getkey", "sign", "dnskey"}, {1, 2}, {"ECDSA"}, {"call"}, 1, 2, 1),
    HsmScenario({"getkey", "remove"}, {1}, {"ECDSA"}, {"call"}, 0, 3, 1),
    HsmScenario({"generate"}, {}, {"RSA"}, {"call"}, 2, 2, 1),
    HsmScenario({"list", "purge", "remove"}, {1}, {}, {"call"}, 1, 2, 1),
    HsmScenario({"test"}, {}, {"RSA", "ECDSA", "EDDSA", "DSA", "GOST"}, {"call"}, 1, 1, 1),
    HsmScenario({"sign", "list"}, {1, 3}, {"ECDSA"}, {"open", "reset"}, 1, 1, 2) }

zonevars == <<part, recordvars, sgvars, dnsvars, hsmvars>>

NoJob == [dnskey |-> TRUE, refresh |-> TRUE, skip |-> FALSE, keys |-> <<>>, sigs |-> <<>>]

ZoneInit ==
  /\ part \in Parts
  /\ RecordsInit
  /\ DnsInit /\ (part # "dns" => dphase = "udp")
  /\ IF part = "rrset" THEN SgInit ELSE sgjob = NoJob /\ sgnew = <<>> /\ sgstatus = "none"
  /\ HsmInit /\ (part # "hsm" => hscen = CHOOSE s \in HsmScenarios : TRUE)
  /\ part # "records" => ropt = CHOOSE o \in RScenarios : TRUE

ZoneNext ==
  \/ /\ part = "records" /\ RecordsNext
     /\ UNCHANGED <<part, sgvars, dnsvars, hsmvars>>
  \/ /\ part = "rrset" /\ SgNext
     /\ UNCHANGED <<part, recordvars, dnsvars, hsmvars>>
  \/ /\ part = "dns" /\ DnsNext
     /\ UNCHANGED <<part, recordvars, sgvars, hsmvars>>
  \/ /\ part = "hsm" /\ HsmNext
     /\ UNCHANGED <<part, recordvars, sgvars, dnsvars>>

ZoneSpec == ZoneInit /\ [][ZoneNext]_zonevars

=============================================================================
