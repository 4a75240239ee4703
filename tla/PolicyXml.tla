----------------------------- MODULE PolicyXml ------------------------------
(***************************************************************************)
(* A policy between kasp.xml and the database: the import, the export, the *)
(* readers of the database objects, and the task that keeps the salt.      *)
(* There is one policy.  A value of a policy is a number: a flag is 0 or   *)
(* 1, a description is a number, and names differ in more than case.       *)
(***************************************************************************)
EXTENDS KaspCheck

CONSTANT KaspDocs \* what the administrator writes into kasp.xml

VARIABLES
  pxkasp,    \* kasp.xml
  pxpolicy,  \* the row of the policy
  pxkeys,    \* its policy keys, in the order of their ids
  pxknown,   \* the policy is in the database
  pxread,    \* what became of kasp.xml: "no", "imported" or "refused"
  pxplain,   \* the last import had a MaxZoneTTL and no negative duration
  pxsalt,    \* octets of the current salt, and whether there ever was one
  pxdue,     \* when the resalt task runs: "none", "later" or "now"
  pxskipped  \* a salt is overdue that no task is about to make: the length
             \* changed and no task was started, or the new salt could not
             \* be stored

policyVars == <<pxkasp, pxpolicy, pxkeys, pxknown, pxread, pxplain, pxsalt,
                pxdue, pxskipped>>

Entry(path, member, as) == [path |-> path, member |-> member, as |-> as]

(* The elements xml_read_policy looks for.                                 *)
read_signatures ==
  << Entry("Passthrough", "passthrough", "flag"),
     Entry("Description", "description", "number"),
     Entry("Signatures/Resign", "signatures_resign", "duration"),
     Entry("Signatures/Refresh", "signatures_refresh", "duration"),
     Entry("Signatures/Validity/Default", "signatures_validity_default", "duration"),
     Entry("Signatures/Validity/Denial", "signatures_validity_denial", "duration"),
     Entry("Signatures/Validity/Keyset", "signatures_validity_keyset", "duration"),
     Entry("Signatures/Jitter", "signatures_jitter", "duration"),
     Entry("Signatures/InceptionOffset", "signatures_inception_offset", "duration"),
     Entry("Signatures/MaxZoneTTL", "signatures_max_zone_ttl", "duration") >>

read_denial ==
  << Entry("Denial/NSEC3", "denial_type", "flag"),
     Entry("Denial/NSEC3/TTL", "denial_ttl", "duration"),
     Entry("Denial/NSEC3/OptOut", "denial_optout", "flag"),
     Entry("Denial/NSEC3/Resalt", "denial_resalt", "duration"),
     Entry("Denial/NSEC3/Hash/Algorithm", "denial_algorithm", "number"),
     Entry("Denial/NSEC3/Hash/Iterations", "denial_iterations", "number"),
     Entry("Denial/NSEC3/Hash/Salt@length", "denial_salt_length", "number") >>

read_keys ==
  << Entry("Keys/TTL", "keys_ttl", "duration"),
     Entry("Keys/RetireSafety", "keys_retire_safety", "duration"),
     Entry("Keys/PublishSafety", "keys_publish_safety", "duration"),
     Entry("Keys/ShareKeys", "keys_shared", "flag"),
     Entry("Keys/Purge", "keys_purge_after", "duration") >>

read_zone ==
  << Entry("Zone/PropagationDelay", "zone_propagation_delay", "duration"),
     Entry("Zone/SOA/TTL", "zone_soa_ttl", "duration"),
     Entry("Zone/SOA/Minimum", "zone_soa_minimum", "duration"),
     Entry("Zone/SOA/Serial", "zone_soa_serial", "serial") >>

read_parent ==
  << Entry("Parent/PropagationDelay", "parent_propagation_delay", "duration"),
     Entry("Parent/DS/TTL", "parent_ds_ttl", "duration"),
     Entry("Parent/SOA/TTL", "parent_soa_ttl", "duration"),
     Entry("Parent/SOA/Minimum", "parent_soa_minimum", "duration"),
     Entry("Parent/RegistrationDelay", "parent_registration_delay", "duration") >>

read_table == read_signatures \o read_denial \o read_keys \o read_zone \o read_parent

PolicyMembers == {read_table[i].member : i \in DOMAIN read_table}

dbw_soa_serial_txt == <<"counter", "datecounter", "unixtime", "keep">>

xml_try_read_duration(text, old) ==
  LET d == duration_create_from_string(text)
  IN IF d = no_duration THEN old ELSE duration2time(d)

xml_try_read_int(text) == text[1].n

dbw_txt2enum(text) == SelectInSeq(dbw_soa_serial_txt, LAMBDA w : w = text[1].u) - 1

ReadText(as, text, old) ==
  CASE as = "duration" -> xml_try_read_duration(text, old)
    [] as = "number" -> xml_try_read_int(text)
    [] as = "serial" -> dbw_txt2enum(text)
    [] as = "flag" -> 1
    [] as = "unflag" -> 0

(* Every entry whose element is there overwrites its member.               *)
ReadAll(els, table, base) ==
  [m \in DOMAIN base |->
     LET i == SelectInSeq(table, LAMBDA e : e.member = m /\ Has(els, e.path))
     IN IF i = 0 THEN base[m]
        ELSE ReadText(table[i].as, Content(els, table[i].path), base[m])]

xml_policy_set_defaults ==
  [[m \in PolicyMembers |-> 0] EXCEPT !["signatures_max_zone_ttl"] = 86400]

xml_read_policy(doc) == ReadAll(doc.els, read_table, xml_policy_set_defaults)

-----------------------------------------------------------------------------
Roll(role, text, minimize) == [role |-> role, text |-> text, minimize |-> minimize]

RollTypes ==
  { Roll("KSK", "KskDoubleRRset", "NONE"), Roll("KSK", "KskDoubleDS", "DNSKEY"),
    Roll("KSK", "KskDoubleSignature", "DS"), Roll("ZSK", "ZskDoubleSignature", "NONE"),
    Roll("ZSK", "ZskPrePublication", "RRSIG"), Roll("ZSK", "ZskDoubleRRsig", "DNSKEY"),
    Roll("CSK", "CskDoubleRRset", "NONE"), Roll("CSK", "CskSingleSignature", "RRSIG"),
    Roll("CSK", "CskDoubleDS", "DNSKEY"), Roll("CSK", "CskDoubleSignature", "DS"),
    Roll("CSK", "CskPrePublication", "DS_RRSIG") }

RollElement == [KSK |-> "KskRollType", ZSK |-> "ZskRollType", CSK |-> "CskRollType"]

DefaultMinimize == [KSK |-> "DS", ZSK |-> "RRSIG", CSK |-> "DS_RRSIG"]

Minimize(role, els) ==
  LET texts == {Content(els, RollElement[r])[1].u :
                  r \in {r \in DOMAIN RollElement : Has(els, RollElement[r])}}
  IN IF texts = {} THEN DefaultMinimize[role]
     ELSE LET found == {t \in RollTypes : t.text \in texts}
          IN IF found = {} THEN "NONE" ELSE (CHOOSE t \in found : TRUE).minimize

xml_read_key(key) ==
  LET number(path) == IF Has(key.els, path) THEN xml_try_read_int(Content(key.els, path)) ELSE 0
      flag(path) == IF Has(key.els, path) THEN 1 ELSE 0
  IN [role |-> key.role, algorithm |-> number("Algorithm"),
      bits |-> number("Algorithm@length"),
      lifetime |-> xml_try_read_duration(Content(key.els, "Lifetime"), 0),
      repository |-> Content(key.els, "Repository")[1].u,
      standby |-> number("Standby"), manual_rollover |-> flag("ManualRollover"),
      rfc5011 |-> flag("RFC5011"), minimize |-> Minimize(key.role, key.els)]

(* First the KSKs, then the ZSKs, then the CSKs.                           *)
xml_read_keys(doc) ==
  LET of(role) == SelectSeq(doc.keys, LAMBDA k : k.role = role)
      all == of("KSK") \o of("ZSK") \o of("CSK")
  IN [i \in DOMAIN all |-> xml_read_key(all[i])]

\* Mutant: one member is not compared.
policy_xml_cmp_short(p, keys, xp, xkeys) ==
  \/ \E m \in PolicyMembers \ {"parent_soa_minimum"} : p[m] # xp[m]
  \/ Len(keys) # Len(xkeys)
  \/ \E i \in DOMAIN xkeys : \A j \in DOMAIN keys : keys[j] # xkeys[i]

(* TRUE when they differ.  Of two equal keys in kasp.xml both may match    *)
(* the same policy key.                                                    *)
policy_xml_cmp(p, keys, xp, xkeys) ==
  \/ \E m \in PolicyMembers : p[m] # xp[m]
  \/ Len(keys) # Len(xkeys)
  \/ \E i \in DOMAIN xkeys : \A j \in DOMAIN keys : keys[j] # xkeys[i]

-----------------------------------------------------------------------------
(* The export.  An entry is written always, or only when it is set.        *)
Always(path, member, as) == [path |-> path, member |-> member, as |-> as, set |-> FALSE]

WhenSet(path, member, as) == [path |-> path, member |-> member, as |-> as, set |-> TRUE]

WriteText(as, v) ==
  CASE as = "duration" -> duration2string(duration_set_time(v))
    [] as = "number" -> Number(v)
    [] as = "serial" -> Word(dbw_soa_serial_txt[v + 1])
    [] as = "flag" -> <<>>

WriteAll(table, p) ==
  LET there == SelectSeq(table, LAMBDA e : e.set => p[e.member] # 0)
  IN [i \in DOMAIN there |-> El(there[i].path, WriteText(there[i].as, p[there[i].member]))]

export_signatures ==
  << Always("Description", "description", "number"),
     Always("Signatures/Resign", "signatures_resign", "duration"),
     Always("Signatures/Refresh", "signatures_refresh", "duration"),
     Always("Signatures/Validity/Default", "signatures_validity_default", "duration"),
     Always("Signatures/Validity/Denial", "signatures_validity_denial", "duration"),
     WhenSet("Signatures/Validity/Keyset", "signatures_validity_keyset", "duration"),
     Always("Signatures/Jitter", "signatures_jitter", "duration"),
     Always("Signatures/InceptionOffset", "signatures_inception_offset", "duration"),
     Always("Signatures/MaxZoneTTL", "signatures_max_zone_ttl", "duration") >>

export_nsec3 ==
  << Always("Denial/NSEC3", "denial_type", "flag"),
     WhenSet("Denial/NSEC3/TTL", "denial_ttl", "duration"),
     WhenSet("Denial/NSEC3/OptOut", "denial_optout", "flag"),
     WhenSet("Denial/NSEC3/Resalt", "denial_resalt", "duration"),
     Always("Denial/NSEC3/Hash/Algorithm", "denial_algorithm", "number"),
     Always("Denial/NSEC3/Hash/Iterations", "denial_iterations", "number"),
     Always("Denial/NSEC3/Hash/Salt@length", "denial_salt_length", "number") >>

export_denial(p) ==
  IF p["denial_type"] = 0 THEN << El("Denial/NSEC", <<>>) >> ELSE WriteAll(export_nsec3, p)

export_keys ==
  << Always("Keys/TTL", "keys_ttl", "duration"),
     Always("Keys/RetireSafety", "keys_retire_safety", "duration"),
     Always("Keys/PublishSafety", "keys_publish_safety", "duration"),
     WhenSet("Keys/ShareKeys", "keys_shared", "flag"),
     WhenSet("Keys/Purge", "keys_purge_after", "duration") >>

export_zone ==
  << Always("Zone/PropagationDelay", "zone_propagation_delay", "duration"),
     Always("Zone/SOA/TTL", "zone_soa_ttl", "duration"),
     Always("Zone/SOA/Minimum", "zone_soa_minimum", "duration"),
     Always("Zone/SOA/Serial", "zone_soa_serial", "serial") >>

export_parent ==
  << WhenSet("Parent/RegistrationDelay", "parent_registration_delay", "duration"),
     Always("Parent/PropagationDelay", "parent_propagation_delay", "duration"),
     Always("Parent/DS/TTL", "parent_ds_ttl", "duration"),
     Always("Parent/SOA/TTL", "parent_soa_ttl", "duration"),
     Always("Parent/SOA/Minimum", "parent_soa_minimum", "duration") >>

export_anykey(k, standby) ==
  << El("Algorithm", Number(k.algorithm)), El("Algorithm@length", Number(k.bits)),
     El("Lifetime", WriteText("duration", k.lifetime)), El("Repository", Word(k.repository)) >>
  \o (IF standby THEN << El("Standby", Number(k.standby)) >> ELSE <<>>)
  \o (IF k.manual_rollover # 0 THEN << El("ManualRollover", <<>>) >> ELSE <<>>)

export_rolltype(k) ==
  LET found == {t \in RollTypes : t.role = k.role /\ t.minimize = k.minimize}
  IN IF found = {} THEN <<>>
     ELSE << El(RollElement[k.role], Word((CHOOSE t \in found : TRUE).text)) >>

export_rfc5011(k) == IF k.rfc5011 # 0 THEN << El("RFC5011", <<>>) >> ELSE <<>>

(* The standby count is unsigned and never -1.                             *)
export_zsk(k) == export_anykey(k, TRUE) \o export_rolltype(k)

export_ksk(k) == export_anykey(k, TRUE) \o export_rolltype(k) \o export_rfc5011(k)

export_csk(k) == export_anykey(k, k.standby # 0) \o export_rolltype(k) \o export_rfc5011(k)

export_key(k) ==
  [role |-> k.role, els |-> CASE k.role = "ZSK" -> export_zsk(k)
                              [] k.role = "KSK" -> export_ksk(k)
                              [] k.role = "CSK" -> export_csk(k)]

policy_export(p, keys) ==
  [els |-> WriteAll(export_signatures, p) \o export_denial(p) \o WriteAll(export_keys, p)
           \o WriteAll(export_zone, p) \o WriteAll(export_parent, p),
   keys |-> [i \in DOMAIN keys |-> export_key(keys[i])]]

-----------------------------------------------------------------------------
(* The second reader, that of the database objects: it walks through the   *)
(* elements, changes only what differs, and resets some of the members     *)
(* whose element is missing.  Nothing calls it.                            *)
ext_signatures ==
  << Entry("Description", "description", "number"),
     Entry("Signatures/Resign", "signatures_resign", "duration"),
     Entry("Signatures/Refresh", "signatures_refresh", "duration") >>

ext_validity ==
  << Entry("Signatures/Validity/Default", "signatures_validity_default", "duration"),
     Entry("Signatures/Validity/Denial", "signatures_validity_denial", "duration"),
     Entry("Signatures/Validity/Keyset", "signatures_validity_keyset", "duration") >>

ext_jitter ==
  << Entry("Signatures/Jitter", "signatures_jitter", "duration"),
     Entry("Signatures/InceptionOffset", "signatures_inception_offset", "duration"),
     Entry("Signatures/MaxZoneTTL", "signatures_max_zone_ttl", "duration") >>

ext_denial ==
  << Entry("Denial/NSEC", "denial_type", "unflag"),
     Entry("Denial/NSEC3", "denial_type", "flag"),
     Entry("Denial/NSEC3/TTL", "denial_ttl", "duration"),
     Entry("Denial/NSEC3/OptOut", "denial_optout", "flag"),
     Entry("Denial/NSEC3/Resalt", "denial_resalt", "duration") >>

ext_hash ==
  << Entry("Denial/NSEC3/Hash/Algorithm", "denial_algorithm", "number"),
     Entry("Denial/NSEC3/Hash/Iterations", "denial_iterations", "number"),
     Entry("Denial/NSEC3/Hash/Salt@length", "denial_salt_length", "number") >>

ext_keys ==
  << Entry("Keys/TTL", "keys_ttl", "duration"),
     Entry("Keys/RetireSafety", "keys_retire_safety", "duration"),
     Entry("Keys/PublishSafety", "keys_publish_safety", "duration"),
     Entry("Keys/ShareKeys", "keys_shared", "flag"),
     Entry("Keys/Purge", "keys_purge_after", "duration") >>

ext_zone ==
  << Entry("Zone/PropagationDelay", "zone_propagation_delay", "duration"),
     Entry("Zone/SOA/TTL", "zone_soa_ttl", "duration"),
     Entry("Zone/SOA/Minimum", "zone_soa_minimum", "duration"),
     Entry("Zone/SOA/Serial", "zone_soa_serial", "serial") >>

ext_parent ==
  << Entry("Parent/RegistrationDelay", "parent_registration_delay", "duration"),
     Entry("Parent/PropagationDelay", "parent_propagation_delay", "duration") >>

ext_parent_records ==
  << Entry("Parent/SOA/TTL", "parent_soa_ttl", "duration"),
     Entry("Parent/SOA/Minimum", "parent_soa_minimum", "duration"),
     Entry("Parent/DS/TTL", "parent_ds_ttl", "duration") >>

(* "If we did not find these XML elements we need to disable them"         *)
ext_missing(els, p) ==
  [p EXCEPT
     !["denial_optout"] = IF Has(els, "Denial/NSEC3/OptOut") THEN @ ELSE 0,
     !["keys_shared"] = IF Has(els, "Keys/ShareKeys") THEN @ ELSE 0,
     !["signatures_max_zone_ttl"] = IF Has(els, "Signatures/MaxZoneTTL") THEN @ ELSE 86400,
     !["keys_purge_after"] = IF Has(els, "Keys/Purge") THEN @ ELSE 0,
     !["denial_ttl"] = IF Has(els, "Denial/NSEC3/TTL") THEN @ ELSE 0,
     !["passthrough"] = IF Has(els, "Passthrough") THEN 1 ELSE 0]

ext_table ==
  ext_signatures \o ext_validity \o ext_jitter \o ext_denial \o ext_hash \o ext_keys
  \o ext_zone \o ext_parent \o ext_parent_records

policy_update_from_xml(p, doc) == ext_missing(doc.els, ReadAll(doc.els, ext_table, p))

ext_algorithm(els) ==
  [algorithm |-> xml_try_read_int(Content(els, "Algorithm")),
   bits |-> IF Has(els, "Algorithm@length")
            THEN xml_try_read_int(Content(els, "Algorithm@length")) ELSE 0,
   lifetime |-> xml_try_read_duration(Content(els, "Lifetime"), 0),
   repository |-> Content(els, "Repository")[1].u,
   standby |-> IF Has(els, "Standby") THEN xml_try_read_int(Content(els, "Standby")) ELSE 0,
   manual_rollover |-> IF Has(els, "ManualRollover") THEN 1 ELSE 0]

(* Only the roll type of its own role, and an unknown one is refused.      *)
ext_rolltype(role, els) ==
  IF Has(els, RollElement[role])
  THEN LET found == {t \in RollTypes : /\ t.role = role
                                       /\ Content(els, RollElement[role]) = Word(t.text)}
       IN IF found = {} THEN "refused" ELSE (CHOOSE t \in found : TRUE).minimize
  ELSE DefaultMinimize[role]

policy_key_create_from_xml(key) ==
  ext_algorithm(key.els)
  @@ [role |-> key.role, minimize |-> ext_rolltype(key.role, key.els),
      rfc5011 |-> IF key.role # "ZSK" /\ Has(key.els, "RFC5011") THEN 1 ELSE 0]

-----------------------------------------------------------------------------
NoFile == [els |-> <<>>, keys |-> <<>>]

PolicyInit ==
  /\ pxkasp = NoFile
  /\ pxpolicy = <<>>
  /\ pxkeys = <<>>
  /\ pxknown = FALSE /\ pxread = "no" /\ pxplain = FALSE
  /\ pxsalt = [octets |-> 0, made |-> FALSE]
  /\ pxdue = "none"
  /\ pxskipped = FALSE

(* The administrator writes another kasp.xml, or puts there what "policy   *)
(* export" printed.  An edit of a file nobody has read is none.            *)
EditKasp ==
  /\ pxread = "no" => pxkasp = NoFile
  /\ pxkasp' \in KaspDocs \ {pxkasp}
  /\ pxread' = "no"
  /\ UNCHANGED <<pxpolicy, pxkeys, pxknown, pxplain, pxsalt, pxdue, pxskipped>>

UseExport ==
  /\ pxread = "imported"
  /\ pxkasp' = policy_export(pxpolicy, pxkeys)
  /\ pxread' = "no"
  /\ UNCHANGED <<pxpolicy, pxkeys, pxknown, pxplain, pxsalt, pxdue, pxskipped>>

Salted(p) == p["denial_type"] = 1 /\ p["passthrough"] = 0

(* resalt_task_flush: the task of this policy is to run now.               *)
resalt_task_flush(p, due) == IF Salted(p) THEN "now" ELSE due

(* resalt_task_schedule: for the time after the last change; the schedule  *)
(* keeps the earlier of two times.                                         *)
resalt_task_schedule(p, due) ==
  IF ~Salted(p) \/ due = "now" THEN due
  ELSE IF ~pxsalt.made \/ p["denial_resalt"] = 0 THEN "now"
  ELSE "later"

Plain(doc) ==
  /\ Has(doc.els, "Signatures/MaxZoneTTL")
  /\ \A i \in DOMAIN doc.els : doc.els[i].text # <<>> => doc.els[i].text[1].u # "-"
  /\ \A i \in DOMAIN doc.keys :
       \A j \in DOMAIN doc.keys[i].els :
         doc.keys[i].els[j].text # <<>> => doc.keys[i].els[j].text[1].u # "-"

(* policy_import and, when it went well, the rest of the command.  The     *)
(* tasks are found by reading the database again; what cannot be read then *)
(* gets no task, and nobody looks at that result.                          *)
StorePolicy(xp, xkeys, flushed, scheduled) ==
  LET store == ~pxknown \/ policy_xml_cmp(pxpolicy, pxkeys, xp, xkeys)
      p == IF store THEN xp ELSE pxpolicy
      resalt == pxknown /\ store
                /\ pxpolicy["denial_salt_length"] # xp["denial_salt_length"]
      due == IF resalt /\ flushed THEN resalt_task_flush(p, pxdue) ELSE pxdue
  IN /\ flushed \/ resalt
     /\ pxpolicy' = p
     /\ pxkeys' = IF store THEN xkeys ELSE pxkeys
     /\ pxplain' = IF store THEN Plain(pxkasp) ELSE pxplain
     /\ pxdue' = IF scheduled THEN resalt_task_schedule(p, due) ELSE due
     /\ pxskipped' = (pxdue' # "now" /\ (pxskipped \/ resalt \/ ~(scheduled \/ pxsalt.made)))
     /\ pxknown' = TRUE /\ pxread' = "imported"
     /\ UNCHANGED <<pxkasp, pxsalt>>

(* A file that fails the check is refused and nothing happens, as when the *)
(* database cannot be read at first or written.                            *)
policy_import ==
  IF check_kasp(pxkasp)
  THEN \E xp \in {xml_read_policy(pxkasp)}, xkeys \in {xml_read_keys(pxkasp)},
          flushed, scheduled \in BOOLEAN :
         StorePolicy(xp, xkeys, flushed, scheduled)
  ELSE /\ pxread' = "refused"
       /\ UNCHANGED <<pxkasp, pxpolicy, pxkeys, pxknown, pxplain, pxsalt, pxdue, pxskipped>>

(* perform_policy_resalt: no salt of length 0 is ever made.  The time of a *)
(* task for later may have come.  A policy that cannot be read defers the  *)
(* task; a salt that cannot be stored is only logged, and the task is due  *)
(* again when it would be after a success.                                 *)
ResaltDeferred == pxdue' = "now" /\ UNCHANGED <<pxsalt, pxskipped>>

ResaltRefused ==
  /\ pxpolicy["denial_salt_length"] \notin 1..255
  /\ pxdue' = "none"
  /\ UNCHANGED <<pxsalt, pxskipped>>

Resalted(stored) ==
  /\ pxpolicy["denial_salt_length"] \in 1..255
  /\ pxdue' = IF pxpolicy["denial_resalt"] = 0 THEN "none" ELSE "later"
  /\ pxsalt' = IF stored THEN [octets |-> pxpolicy["denial_salt_length"], made |-> TRUE]
               ELSE pxsalt
  /\ pxskipped' = ~stored

perform_policy_resalt ==
  /\ pxdue # "none"
  /\ ResaltDeferred \/ ResaltRefused \/ \E stored \in BOOLEAN : Resalted(stored)
  /\ UNCHANGED <<pxkasp, pxpolicy, pxkeys, pxknown, pxread, pxplain>>

(* "policy resalt"                                                         *)
ResaltCmd ==
  /\ pxknown
  /\ pxdue' = resalt_task_flush(pxpolicy, pxdue)
  /\ UNCHANGED <<pxkasp, pxpolicy, pxkeys, pxknown, pxread, pxplain, pxsalt, pxskipped>>

PolicyNext ==
  ResaltCmd \/ EditKasp \/ UseExport \/ policy_import \/ perform_policy_resalt

PolicySpec == PolicyInit /\ [][PolicyNext]_policyVars

-----------------------------------------------------------------------------
DistinctKeys(keys) == \A i, j \in DOMAIN keys : i # j => keys[i] # keys[j]

(* After an import the database holds what an import into an empty one     *)
(* would have left there, whatever was there before: the comparison        *)
(* overlooks no difference and nothing of the old policy stays.  Files     *)
(* with the same key twice are exempt (policy_import).                     *)
ImportedAsWritten ==
  pxread = "imported"
  => LET xkeys == xml_read_keys(pxkasp)
     IN /\ pxpolicy = xml_read_policy(pxkasp)
        /\ DistinctKeys(xkeys) => pxkeys = xkeys

(* What "policy export" prints is a valid kasp.xml, and an import of it    *)
(* finds the policy up to date, unless the policy has one of the three     *)
(* members the export loses: Passthrough, RegistrationDelay (written where *)
(* the schema does not have it) and a Resalt of zero.                      *)
ExportRestores ==
  /\ pxread = "imported"
  /\ pxpolicy["passthrough"] = 0
  /\ pxpolicy["parent_registration_delay"] = 0
  /\ pxpolicy["denial_type"] = 1 => pxpolicy["denial_resalt"] # 0
  => LET out == policy_export(pxpolicy, pxkeys)
     IN /\ check_rng(out)
        /\ ~policy_xml_cmp(pxpolicy, pxkeys, xml_read_policy(out), xml_read_keys(out))

(* What check_policy has made sure of holds for the policy the enforcer    *)
(* works with, though the file is read again by another parser: the keys   *)
(* live long enough to become ready and signatures are refreshed before    *)
(* they expire.  The checker takes a missing MaxZoneTTL for 0 (the         *)
(* importer for a day) and knows negative durations (the importer does     *)
(* not), so such files are exempt.                                         *)
CheckedLimitsHold ==
  pxknown /\ pxplain
  => /\ \A i \in DOMAIN pxkeys :
          /\ AsKsk(pxkeys[i])
             => pxkeys[i].lifetime > pxpolicy["parent_ds_ttl"] + pxpolicy["keys_ttl"]
          /\ AsZsk(pxkeys[i])
             => pxkeys[i].lifetime > pxpolicy["signatures_max_zone_ttl"] + pxpolicy["keys_ttl"]
     /\ pxpolicy["signatures_resign"] < pxpolicy["signatures_refresh"]
     /\ pxpolicy["signatures_refresh"] < pxpolicy["signatures_validity_default"]
     /\ pxpolicy["signatures_refresh"] < pxpolicy["signatures_validity_denial"]

(* Members policy_update_from_xml leaves alone when their element is       *)
(* missing, though the importer resets them.                               *)
NotReset(els) ==
  {e.member : e \in {e \in {Entry("Signatures/Validity/Keyset", "signatures_validity_keyset", ""),
                            Entry("Parent/RegistrationDelay", "parent_registration_delay", "")}
                           \union {[ext_hash[i] EXCEPT !.as = ""] : i \in DOMAIN ext_hash}
                           \union {Entry("Denial/NSEC3/Resalt", "denial_resalt", "")} :
                       ~Has(els, e.path)}}

(* The reader of the database objects and the importer, written apart,     *)
(* make the same of a valid kasp.xml, over whatever policy was there.      *)
ReadersAgree ==
  pxknown /\ check_rng(pxkasp)
  => /\ LET u == policy_update_from_xml(pxpolicy, pxkasp)
            x == xml_read_policy(pxkasp)
        IN \A m \in PolicyMembers \ NotReset(pxkasp.els) : u[m] = x[m]
     /\ \A i \in DOMAIN pxkasp.keys :
          policy_key_create_from_xml(pxkasp.keys[i]) = xml_read_key(pxkasp.keys[i])

(* A zone signed with NSEC3 has a salt of the length its policy asks for,  *)
(* or the resalt task is about to make one, also when the task could not   *)
(* read the policy in between.  Exempt are lengths of 0, which the task    *)
(* refuses, and three ways the code loses the resalt (pxskipped): a length *)
(* changed while Passthrough was on, an import that could not read the     *)
(* database again to start the task, and a salt whose commit failed, where *)
(* the task waits for the next resalt, or ends, with nothing written       *)
(* (policy_resalt_task.c:145).                                             *)
SaltFits ==
  pxknown /\ Salted(pxpolicy) /\ pxpolicy["denial_salt_length"] > 0 /\ ~pxskipped
  => pxdue = "now" \/ pxsalt.octets = pxpolicy["denial_salt_length"]

(* The policy in the database is the one that was written, checked and     *)
(* exported: importer, checker, exporter, second reader and resalt task    *)
(* agree on it.                                                            *)
PoliciesAgree ==
  /\ ImportedAsWritten /\ ExportRestores /\ CheckedLimitsHold
  /\ ReadersAgree /\ SaltFits

=============================================================================
