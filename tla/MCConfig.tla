------------------------------ MODULE MCConfig ------------------------------
(***************************************************************************)
(* What the enforcer is told and what it hands on, side by side: policies, *)
(* lists of zones and the channel of its commands.  A behaviour is one of  *)
(* one part, chosen at the start, and the other parts stay as they began.  *)
(***************************************************************************)
EXTENDS PolicyXml, ZoneLists, CmdChannel

VARIABLE part

Parts == {"policy", "zonelist", "channel"}

---------------------------------------------------------------------------
(* Small kasp.xml files: a policy with NSEC, a policy with NSEC3, and files *)
(* that differ from one of them in one element.                             *)

P(s) == <<Token(0, "P")>> \o s

PT(s) == <<Token(0, "P"), Token(0, "T")>> \o s

Hours(n) == PT(<<Token(n, "H")>>)

Days(n) == P(<<Token(n, "D")>>)

Signatures ==
  << El("Signatures/Resign", Hours(2)), El("Signatures/Refresh", Days(3)),
     El("Signatures/Validity/Default", Days(14)), El("Signatures/Validity/Denial", Days(14)),
     El("Signatures/Validity/Keyset", Days(15)), El("Signatures/Jitter", Hours(12)),
     El("Signatures/InceptionOffset", PT(<<Token(3600, "S")>>)),
     El("Signatures/MaxZoneTTL", Days(1)) >>

Nsec == << El("Denial/NSEC", <<>>) >>

Nsec3 ==
  << El("Denial/NSEC3", <<>>), El("Denial/NSEC3/TTL", Hours(1)), El("Denial/NSEC3/OptOut", <<>>),
     El("Denial/NSEC3/Resalt", Days(100)), El("Denial/NSEC3/Hash/Algorithm", Number(1)),
     El("Denial/NSEC3/Hash/Iterations", Number(5)), El("Denial/NSEC3/Hash/Salt@length", Number(8)) >>

KeysZoneParent ==
  << El("Keys/TTL", Hours(1)), El("Keys/RetireSafety", Hours(1)),
     El("Keys/PublishSafety", Hours(1)), El("Keys/ShareKeys", <<>>), El("Keys/Purge", Days(14)),
     El("Zone/PropagationDelay", Hours(12)), El("Zone/SOA/TTL", Hours(1)),
     El("Zone/SOA/Minimum", Hours(1)), El("Zone/SOA/Serial", Word("unixtime")),
     El("Parent/PropagationDelay", Hours(10)), El("Parent/DS/TTL", Hours(1)),
     El("Parent/SOA/TTL", Days(2)), El("Parent/SOA/Minimum", Hours(3)),
     El("Parent/RegistrationDelay", Days(1)) >>

Key(role, lifetime, rest) ==
  [role |-> role,
   els |-> << El("Algorithm", Number(8)), El("Algorithm@length", Number(2048)),
              El("Lifetime", lifetime), El("Repository", Word("SoftHSM")) >> \o rest]

Ksk == Key("KSK", P(<<Token(1, "Y")>>), <<>>)

Zsk == Key("ZSK", Days(90), <<>>)

Without(doc, paths) == [doc EXCEPT !.els = SelectSeq(@, LAMBDA e : e.path \notin paths)]

With(doc, path, text) ==
  [doc EXCEPT !.els = [i \in DOMAIN @ |-> IF @[i].path = path THEN El(path, text) ELSE @[i]]]

Losses == {"Passthrough", "Parent/RegistrationDelay"}

FullDoc(denial) ==
  [els |-> << El("Passthrough", <<>>), El("Description", Number(1)) >>
           \o Signatures \o denial \o KeysZoneParent,
   keys |-> <<Ksk, Zsk>>]

(* A duration with months and with minutes, and numbers of two digits.     *)
Other == P(<<Token(1, "M"), Token(2, "D"), Token(0, "T"), Token(30, "M")>>)

DurationPaths ==
  {"Signatures/Validity/Keyset", "Signatures/InceptionOffset", "Denial/NSEC3/Resalt",
   "Keys/Purge", "Zone/SOA/Minimum", "Parent/PropagationDelay", "Parent/SOA/Minimum"}

OptionalPaths ==
  {"Signatures/Validity/Keyset", "Signatures/MaxZoneTTL", "Denial/NSEC3/TTL",
   "Denial/NSEC3/OptOut", "Keys/ShareKeys", "Keys/Purge"}

Limits(doc) ==
  { With(doc, "Signatures/Refresh", Hours(2)),
    With(doc, "Signatures/Refresh", PT(<<Token(121, "M")>>)),
    With(doc, "Signatures/Validity/Default", P(<<Token(3, "D"), Token(0, "T"), Token(1, "S")>>)),
    With(doc, "Keys/TTL", P(<<Token(3, "M")>>)),
    With(doc, "Keys/TTL", P(<<Token(2, "M")>>)),
    With(doc, "Keys/TTL", <<Token(0, "-")>> \o Hours(1)),
    With(doc, "Zone/SOA/Serial", Word("datecounter")),
    With(doc, "Description", Number(2)) }

Salts(doc) ==
  { With(doc, "Denial/NSEC3/Hash/Salt@length", Number(n)) : n \in {0, 9} }
  \union { Without(With(FullDoc(Nsec3), "Denial/NSEC3/Hash/Salt@length", Number(9)),
                   {"Parent/RegistrationDelay"}),
           With(doc, "Denial/NSEC3/Resalt", PT(<<Token(0, "S")>>)) }

KeySets(doc) ==
  { [doc EXCEPT !.keys = k] :
      k \in { <<Ksk, Zsk, Zsk>>,
              <<Ksk, Zsk, Key("ZSK", Days(30), << El("ZskRollType", Word("ZskDoubleRRsig")) >>)>>,
              <<Key("KSK", Days(365), << El("Standby", Number(1)), El("ManualRollover", <<>>),
                    El("KskRollType", Word("KskDoubleDS")), El("RFC5011", <<>>) >>), Zsk>>,
              <<Key("CSK", Days(90), << El("CskRollType", Word("CskSingleSignature")) >>)>>,
              <<Key("CSK", PT(<<Token(90001, "S")>>), <<>>)>>, <<Key("CSK", PT(<<Token(90000, "S")>>), <<>>)>>,
              <<Ksk>> } }

MCKaspDocs ==
  LET nsec == Without(FullDoc(Nsec), Losses)
      nsec3 == Without(FullDoc(Nsec3), Losses)
  IN {nsec, Without(FullDoc(Nsec), {"Passthrough"}), nsec3, FullDoc(Nsec3)}
     \union {Without(nsec3, {p}) : p \in OptionalPaths}
     \union {With(nsec3, p, Other) : p \in DurationPaths}
     \union Limits(nsec) \union KeySets(nsec3) \union Salts(nsec3)

---------------------------------------------------------------------------
(* Small lists of zones. *)

MCZlLists ==
  { <<>>,
    <<ZlZone("a", "p", "File")>>,
    <<ZlZone("b", "q", "file"), ZlZone("a", "q", "File")>>,
    <<ZlZone("b", "q", "DNS"), ZlZone("b", "q", "DNS")>>,
    <<ZlZone("a", "p", "DNS"), ZlZone("a", "q", "DNS")>> }

MCZlBound(commands, edits, faults, many) ==
  [commands |-> commands, edits |-> edits, faults |-> faults, many |-> many]

MCZlBounds ==
  {MCZlBound(2, 2, 1, FALSE), MCZlBound(3, 1, 0, FALSE), MCZlBound(3, 0, 0, TRUE)}

---------------------------------------------------------------------------
configvars == <<part, policyVars, zlvars, channelvars>>

ConfigInit ==
  /\ part \in Parts
  /\ PolicyInit /\ ZoneListsInit /\ ChannelInit
  /\ part # "zonelist" => zlmany
  /\ part # "channel" => chprompt

ConfigNext ==
  \/ part = "policy" /\ PolicyNext /\ UNCHANGED <<part, zlvars, channelvars>>
  \/ part = "zonelist" /\ ZoneListsNext /\ UNCHANGED <<part, policyVars, channelvars>>
  \/ part = "channel" /\ ChannelNext /\ UNCHANGED <<part, policyVars, zlvars>>

ConfigSpec == ConfigInit /\ [][ConfigNext]_configvars

=============================================================================
