----------------------------- MODULE KaspCheck ------------------------------
(***************************************************************************)
(* kasp.xml as a document and what the enforcer checks of it before it     *)
(* uses it (enforcer/src/utils/kc_helper.c).  A document is the sequence   *)
(* of its elements, each the path from Policy and its text, and the        *)
(* sequence of its keys, each with its role and its own elements.  A text  *)
(* is a sequence of tokens, a number and the letter after it; a word or a  *)
(* number is one.                                                          *)
(***************************************************************************)
EXTENDS Integers, Sequences, FiniteSets, SequencesExt

CONSTANT Repositories \* the repositories conf.xml lists

-----------------------------------------------------------------------------
(* The durations of the configuration files (common/duration.c): "P1DT12H" *)
(* is P, 1 D, T, 12 H.  A position of the C code is the token whose letter *)
(* the pointer is at, so the number after it is that of the next token,    *)
(* and what atoi() makes of a letter is 0.                                 *)
Token(n, u) == [n |-> n, u |-> u]

duration_create == [years |-> 0, months |-> 0, weeks |-> 0, days |-> 0,
                    hours |-> 0, minutes |-> 0, seconds |-> 0]

(* What the code returns as a NULL pointer.                                *)
no_duration == [duration_create EXCEPT !.years = 0 - 1]

strchr(s, i, u) ==
  LET at == {j \in i..Len(s) : s[j].u = u}
  IN IF at = {} THEN 0 ELSE CHOOSE j \in at : \A k \in at : j <= k

strrchr(s, i, u) ==
  LET at == {j \in i..Len(s) : s[j].u = u}
  IN IF at = {} THEN 0 ELSE CHOOSE j \in at : \A k \in at : j >= k

number_after(s, i) == IF i < Len(s) THEN s[i + 1].n ELSE 0

(* The units in the order in which they are looked for.                    *)
Unit(u, member, after_t) == [u |-> u, member |-> member, after_t |-> after_t]

units ==
  << Unit("Y", "years", FALSE), Unit("M", "months", FALSE), Unit("D", "days", FALSE),
     Unit("H", "hours", TRUE), Unit("M", "minutes", TRUE), Unit("S", "seconds", TRUE),
     Unit("W", "weeks", FALSE) >>

(* Year, month and day are looked for from where the last one was found,   *)
(* hour, minute and second after the T; an M is a month before the T and a *)
(* minute after it.  Weeks go with nothing else.                           *)
duration_create_from_string(s) ==
  LET T == strchr(s, 1, "T")
      read(r, e) ==
        LET from == IF e.u = "H" /\ T # 0 THEN T ELSE r.at
            i == IF e.member = "minutes" THEN strrchr(s, from, "M") ELSE strchr(s, from, e.u)
        IN IF /\ i # 0 /\ (e.after_t => T # 0)
              /\ e.member = "months" => T = 0 \/ i < T
              /\ e.member = "minutes" => i > T
           THEN [at |-> i, found |-> r.found \cup {e.member},
                 d |-> [r.d EXCEPT ![e.member] = number_after(s, from)]]
           ELSE [r EXCEPT !.at = from]
      end == FoldLeft(read, [at |-> 1, found |-> {}, d |-> duration_create], units)
  IN IF \/ strchr(s, 1, "P") = 0
        \/ "weeks" \in end.found /\ (T # 0 \/ end.found # {"weeks"})
     THEN no_duration ELSE end.d

duration2string(d) ==
  LET part(n, u) == IF n > 0 THEN <<Token(n, u)>> ELSE <<>>
      D == d.years > 0 \/ d.months > 0 \/ d.weeks > 0 \/ d.days > 0
      second == d.seconds > 0 \/ (~D /\ d.hours = 0 /\ d.minutes = 0)
      T == d.hours > 0 \/ d.minutes > 0 \/ second
  IN <<Token(0, "P")>> \o part(d.years, "Y") \o part(d.months, "M")
     \o part(d.weeks, "W") \o part(d.days, "D")
     \o (IF T THEN <<Token(0, "T")>> ELSE <<>>)
     \o part(d.hours, "H") \o part(d.minutes, "M")
     \o (IF second THEN <<Token(d.seconds, "S")>> ELSE <<>>)

duration2time(d) ==
  d.seconds + d.minutes * 60 + d.hours * 3600 + d.days * 86400
  + d.weeks * 86400 * 7 + d.months * 86400 * 31 + d.years * 86400 * 365

(* duration_set_time                                                       *)
duration_set_time(time) ==
  LET years == time \div (86400 * 365)
      t1 == time - years * 86400 * 365
      months == t1 \div (86400 * 31)
      t2 == t1 - months * 86400 * 31
      days == t2 \div 86400
      t3 == t2 - days * 86400
      hours == t3 \div 3600
      t4 == t3 - hours * 3600
      minutes == t4 \div 60
  IN [years |-> years, months |-> months, weeks |-> 0, days |-> days,
      hours |-> hours, minutes |-> minutes, seconds |-> t4 - minutes * 60]

-----------------------------------------------------------------------------
(* Documents.                                                              *)
El(path, text) == [path |-> path, text |-> text]

Word(w) == <<Token(0, w)>>

Number(n) == <<Token(n, "")>>

(* xml_find_node: the node of that path, if there is one; the schema       *)
(* allows no second one.                                                   *)
Has(els, path) == \E i \in DOMAIN els : els[i].path = path

Content(els, path) == els[CHOOSE i \in DOMAIN els : els[i].path = path].text

-----------------------------------------------------------------------------
(* The schema, conf/kasp.rnc: which elements there are, in this order, and *)
(* which may be missing.                                                   *)
Must(path, type) == [path |-> path, type |-> type, must |-> TRUE]

May(path, type) == [path |-> path, type |-> type, must |-> FALSE]

signatures_rnc ==
  << Must("Signatures/Resign", "duration"), Must("Signatures/Refresh", "duration"),
     Must("Signatures/Validity/Default", "duration"),
     Must("Signatures/Validity/Denial", "duration"),
     May("Signatures/Validity/Keyset", "duration"),
     Must("Signatures/Jitter", "duration"),
     Must("Signatures/InceptionOffset", "duration"),
     May("Signatures/MaxZoneTTL", "duration") >>

nsec_rnc == << Must("Denial/NSEC", "empty") >>

nsec3_rnc ==
  << Must("Denial/NSEC3", "empty"), May("Denial/NSEC3/TTL", "duration"),
     May("Denial/NSEC3/OptOut", "empty"), Must("Denial/NSEC3/Resalt", "duration"),
     Must("Denial/NSEC3/Hash/Algorithm", "number"),
     Must("Denial/NSEC3/Hash/Iterations", "number"),
     Must("Denial/NSEC3/Hash/Salt@length", "octet") >>

keys_rnc ==
  << Must("Keys/TTL", "duration"), Must("Keys/RetireSafety", "duration"),
     Must("Keys/PublishSafety", "duration"), May("Keys/ShareKeys", "empty"),
     May("Keys/Purge", "duration") >>

zone_rnc ==
  << Must("Zone/PropagationDelay", "duration"), Must("Zone/SOA/TTL", "duration"),
     Must("Zone/SOA/Minimum", "duration"), Must("Zone/SOA/Serial", "serial") >>

parent_rnc ==
  << Must("Parent/PropagationDelay", "duration"), Must("Parent/DS/TTL", "duration"),
     Must("Parent/SOA/TTL", "duration"), Must("Parent/SOA/Minimum", "duration"),
     May("Parent/RegistrationDelay", "duration") >>

policy_rnc(denial) ==
  << May("Passthrough", "empty"), Must("Description", "string") >>
  \o signatures_rnc \o denial \o keys_rnc \o zone_rnc \o parent_rnc

anykey_rnc ==
  << Must("Algorithm", "number"), Must("Algorithm@length", "number"),
     Must("Lifetime", "duration"), Must("Repository", "string"),
     May("Standby", "number"), May("ManualRollover", "empty") >>

key_rnc(role) ==
  anykey_rnc
  \o (CASE role = "KSK" -> << May("KskRollType", "string"), May("RFC5011", "empty") >>
        [] role = "ZSK" -> << May("ZskRollType", "string") >>
        [] role = "CSK" -> << May("CskRollType", "string"), May("RFC5011", "empty") >>)

(* xsd:duration has no weeks, a T only before hours, minutes or seconds,   *)
(* and it may be negative.                                                 *)
Ordered(s, letters) ==
  LET at(u) == SelectInSeq(letters, LAMBDA l : l = u)
  IN /\ \A i \in DOMAIN s : at(s[i].u) # 0
     /\ \A i, j \in DOMAIN s : i < j => at(s[i].u) < at(s[j].u)

xsd_duration(t) ==
  LET s == IF t # <<>> /\ t[1].u = "-" THEN Tail(t) ELSE t
      T == strchr(s, 1, "T")
      date == SubSeq(s, 2, IF T = 0 THEN Len(s) ELSE T - 1)
      time == IF T = 0 THEN <<>> ELSE SubSeq(s, T + 1, Len(s))
  IN /\ s # <<>> /\ s[1].u = "P" /\ date \o time # <<>>
     /\ Ordered(date, <<"Y", "M", "D">>) /\ Ordered(time, <<"H", "M", "S">>)
     /\ (T = 0) = (time = <<>>)

Valid(type, text) ==
  CASE type = "duration" -> xsd_duration(text)
    [] type = "octet" -> text[1].n \in 0..255
    [] type = "serial" -> text[1].u \in {"counter", "datecounter", "unixtime", "keep"}
    [] OTHER -> TRUE

FitsSchema(els, rnc) ==
  /\ \A i \in DOMAIN rnc : rnc[i].must => Has(els, rnc[i].path)
  /\ LET there == SelectSeq(rnc, LAMBDA r : Has(els, r.path))
     IN /\ Len(there) = Len(els)
        /\ \A i \in DOMAIN els : /\ els[i].path = there[i].path
                                 /\ Valid(there[i].type, els[i].text)

(* check_rng                                                               *)
check_rng(doc) ==
  /\ FitsSchema(doc.els, policy_rnc(nsec_rnc)) \/ FitsSchema(doc.els, policy_rnc(nsec3_rnc))
  /\ \A i \in DOMAIN doc.keys : FitsSchema(doc.keys[i].els, key_rnc(doc.keys[i].role))
  /\ LET rank == [KSK |-> 1, ZSK |-> 2, CSK |-> 3]
     IN \A i, j \in DOMAIN doc.keys :
          i < j => rank[doc.keys[i].role] <= rank[doc.keys[j].role]

-----------------------------------------------------------------------------
(* DtXMLIntervalSeconds: the second reader of durations, which adds up as  *)
(* it goes and knows a sign; -1 is an error.                               *)
DtXMLIntervalSeconds(text) ==
  LET neg == text[1].u = "-"
      unit(u, is_time) ==
        CASE u = "S" /\ is_time -> 1
          [] u = "M" -> IF is_time THEN 60 ELSE 31 * 86400
          [] u = "H" /\ is_time -> 3600
          [] u = "D" /\ ~is_time -> 86400
          [] u = "W" /\ ~is_time -> 7 * 86400
          [] u = "Y" /\ ~is_time -> 365 * 86400
          [] OTHER -> 0
      read(r, t) ==
        CASE t.u \in {"P", "-"} -> r
          [] t.u = "T" -> [r EXCEPT !.time = TRUE]
          [] unit(t.u, r.time) = 0 -> [r EXCEPT !.bad = TRUE]
          [] OTHER -> [r EXCEPT !.sum = @ + t.n * unit(t.u, r.time)]
      end == FoldLeft(read, [time |-> FALSE, sum |-> 0, bad |-> FALSE], text)
  IN [bad |-> end.bad, seconds |-> IF neg THEN 0 - end.sum ELSE end.sum]

check_time_def(text) ==
  LET d == DtXMLIntervalSeconds(text) IN IF d.bad THEN 0 ELSE d.seconds

(* What check_policy knows of an element that is not there is 0.           *)
Seconds(els, path) == IF Has(els, path) THEN check_time_def(Content(els, path)) ELSE 0

StrStrtoi(text) == text[1].n

AsKsk(k) == k.role \in {"KSK", "CSK"}

AsZsk(k) == k.role \in {"ZSK", "CSK"}

Life(k) == Seconds(k.els, "Lifetime")

Algo(k) == StrStrtoi(Content(k.els, "Algorithm"))

RSA == {5, 7, 8, 10}

(* The lifetimes, the periods of the signatures and the keys.  Warnings    *)
(* are left out: they change nothing.                                      *)
check_lifetimes(doc) ==
  LET ttl == Seconds(doc.els, "Keys/TTL")
      ds_ttl == Seconds(doc.els, "Parent/DS/TTL")
      maxzone_ttl == Seconds(doc.els, "Signatures/MaxZoneTTL")
  IN \A i \in DOMAIN doc.keys :
       /\ AsKsk(doc.keys[i]) => ds_ttl + ttl < Life(doc.keys[i])
       /\ AsZsk(doc.keys[i]) => maxzone_ttl + ttl < Life(doc.keys[i])

check_periods(doc) ==
  LET resign == Seconds(doc.els, "Signatures/Resign")
      refresh == Seconds(doc.els, "Signatures/Refresh")
  IN /\ refresh > resign
     /\ Seconds(doc.els, "Signatures/Validity/Default") > refresh
     /\ Seconds(doc.els, "Signatures/Validity/Denial") > refresh

check_serial(doc) ==
  LET resign == Seconds(doc.els, "Signatures/Resign")
  IN Content(doc.els, "Zone/SOA/Serial") = Word("datecounter") /\ resign # 0
     => 86400 \div resign <= 99

check_jitter(doc) ==
  LET jitter == Seconds(doc.els, "Signatures/Jitter")
  IN /\ jitter <= Seconds(doc.els, "Signatures/Validity/Default")
     /\ jitter <= Seconds(doc.els, "Signatures/Validity/Denial")

check_keys(doc) ==
  /\ Has(doc.els, "Denial/NSEC3")
     => /\ Content(doc.els, "Denial/NSEC3/Hash/Algorithm")[1].n = 1
        /\ \A i \in DOMAIN doc.keys : Algo(doc.keys[i]) > 5
  /\ \A i \in DOMAIN doc.keys :
       /\ Algo(doc.keys[i]) \in RSA
          => StrStrtoi(Content(doc.keys[i].els, "Algorithm@length")) <= 4096
       /\ Content(doc.keys[i].els, "Repository")[1].u \in Repositories
       /\ AsKsk(doc.keys[i])
          => \E j \in DOMAIN doc.keys : /\ AsZsk(doc.keys[j])
                                        /\ Algo(doc.keys[j]) = Algo(doc.keys[i])

check_policy(doc) ==
  /\ check_lifetimes(doc) /\ check_periods(doc) /\ check_serial(doc)
  /\ check_keys(doc) /\ check_jitter(doc)

check_kasp(doc) == check_rng(doc) /\ check_policy(doc)
=============================================================================
