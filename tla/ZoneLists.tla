----------------------------- MODULE ZoneLists -----------------------------
(***************************************************************************)
(* How the list of zones travels: from zonelist.xml into the enforcer's    *)
(* database (zonelist_import.c), by the zone commands (zone_add_cmd.c,     *)
(* zone_del_cmd.c, zone_set_policy_cmd.c) into the database, and from      *)
(* there into zonelist.xml and the internal zones.xml (zonelist_export.c,  *)
(* zonelist_update.c), which the signer reads (zonelistparser.c,           *)
(* zonelist.c).                                                            *)
(*                                                                         *)
(* Every file is written beside itself, as .new by an export and as        *)
(* .update by an addition, validated and renamed.  A command runs in the   *)
(* thread of its client; nothing locks the files.  The database part of a  *)
(* command is one step here: its races are the subject of Sessions.        *)
(*                                                                         *)
(* A zone is its name, its policy and the type of its adapters; paths are  *)
(* left out.  Types come with the spellings that matter: the commands and  *)
(* the importer compare without case, the signer does not.  The internal   *)
(* list has a modification time, in seconds: the signer reads it only when *)
(* that is later than the time of the list it has (OPENDNSSEC-686).        *)
(***************************************************************************)
EXTENDS Integers, Sequences, SequencesExt, FiniteSetsExt, FiniteSets, TLC

CONSTANTS
  ZlNames,     \* zone names
  ZlPolicies,  \* policies in the database
  ZlLists,     \* what the operator writes into zonelist.xml, sequences of zones
  ZlClients,   \* threads of the command handler
  ZlBounds     \* bounds: commands, edits, failed writes and crashes in a
               \* behaviour, and how many commands may overlap

VARIABLES
  zldb,      \* the zones of the database
  zlfile,    \* the files: "list", "internal"
  zltemp,    \* the files being written, by file and suffix
  zlses,     \* what each client's command still has to write
  zlsigner,  \* the zones the signer knows
  zlseen,    \* the internal list they are from, and last_modified
  zlread,    \* the signer was told to read the list since the last command
  zlsure,    \* nobody was told that the internal list is out of date
  zlimport,  \* the last import, while nothing else has happened since
  zlleft,    \* commands, edits and faults left
  zlmany     \* commands overlap

zlvars == <<zldb, zlfile, zltemp, zlses, zlsigner, zlseen, zlread, zlsure, zlimport,
            zlleft, zlmany>>

ZlZone(name, policy, type) == [name |-> name, policy |-> policy, type |-> type]

Missing == [there |-> FALSE, zones |-> <<>>, time |-> 0]
Holding(zones, time) == [there |-> TRUE, zones |-> zones, time |-> time]

\* The latest second of a file somebody could still look at.
Latest ==
  Max({zlseen.time, zlfile["internal"].time} \cup {zltemp[t].time : t \in DOMAIN zltemp})

\* The second in which a file is written: the one of the last write, or a later
\* one.  Nobody looks at the time of zonelist.xml.
WriteTimes(file) == IF file = "internal" THEN {Latest, Latest + 1} \ {0} ELSE {0}

NamesOf(zones) == {z.name : z \in zones}
Distinct(seq) == Cardinality(NamesOf(Range(seq))) = Len(seq)

\* strcasecmp on the types.
Caseless(type) == IF type = "file" THEN "File" ELSE type

(***************************************************************************)
(* Import                                                                  *)
(***************************************************************************)
\* The rows as fetched, each with what commit has to do and the mark of the
\* importer.
FetchedRows ==
  [n \in NamesOf(zldb) |->
    [zone |-> CHOOSE z \in zldb : z.name = n, dirty |-> "clean", scratch |-> 0]]

zone_xml_cmp(zone, xml) ==
  zone.policy = xml.policy /\ Caseless(zone.type) = Caseless(xml.type)

\* The body of process_xml's loop, for a zone whose policy is known.
VisitZone(rows, xml) ==
  IF xml.name \notin DOMAIN rows
    THEN rows @@ (xml.name :> [zone |-> xml, dirty |-> "insert", scratch |-> 2])
    ELSE IF zone_xml_cmp(rows[xml.name].zone, xml)
           THEN [rows EXCEPT ![xml.name].dirty = "clean", ![xml.name].scratch = 1]
           ELSE [rows EXCEPT ![xml.name] =
                   [zone |-> xml, dirty |-> "update", scratch |-> 3]]

process_xml(list) == FoldLeft(VisitZone, FetchedRows, list)

\* The deletions, for a zone the list does not have.
RemoveMissing(rows, remove) ==
  [n \in DOMAIN rows |->
    IF remove /\ rows[n].scratch = 0 /\ rows[n].dirty = "clean"
      THEN [rows[n] EXCEPT !.dirty = "delete"] ELSE rows[n]]

\* dbw_commit refuses everything when a row to update is not there: a new zone
\* that the list has twice, with differences.
CommitRefused(rows) ==
  \E n \in DOMAIN rows : rows[n].dirty = "update" /\ n \notin NamesOf(zldb)

\* The database after the commit.  A new zone that is marked clean, because
\* the list has it twice, is not written.
CommittedRows(rows) ==
  {rows[n].zone : n \in {m \in DOMAIN rows : rows[m].dirty \in {"insert", "update"}}}
  \cup {z \in zldb : rows[z.name].dirty = "clean"}

(***************************************************************************)
(* Writing files                                                           *)
(***************************************************************************)
WriteJob(op, file, zone) == [op |-> op, file |-> file, zone |-> zone]
ExportJob(file) == WriteJob("export", file, ZlZone("", "", ""))
Suffix(job) == IF job.op = "export" THEN "new" ELSE "update"

IdleSession == [jobs |-> <<>>, at |-> "idle", doc |-> <<>>]
Quiet == \A c \in ZlClients : zlses[c] = IdleSession
Job(c) == Head(zlses[c].jobs)
Temp(c) == <<Job(c).file, Suffix(Job(c))>>
NextJob(c) ==
  IF Len(zlses[c].jobs) = 1 THEN IdleSession
  ELSE [jobs |-> Tail(zlses[c].jobs), at |-> "read", doc |-> <<>>]

\* The job ends without the file being replaced: "updates will not reach the
\* Signer!".
JobFails(c) ==
  /\ zlses' = [zlses EXCEPT ![c] = NextJob(c)]
  /\ zlsure' = (zlsure /\ Job(c).file # "internal")

\* Mutant: the zone is added without a look.
AddedTwice(zones, zone) == Append(zones, zone)

\* The list with the new zone, unless it is there.
zonelist_update_add(zones, zone) ==
  IF zone.name \in NamesOf(Range(zones)) THEN <<>> ELSE Append(zones, zone)

\* zonelist_update and zonelist_export up to the document in memory: the one
\* reads the file, the other the database.
ReadForWrite(c) ==
  /\ zlses[c].at = "read"
  /\ \E doc \in {IF Job(c).op = "export" THEN SetToSeq(zldb)
                 ELSE zonelist_update_add(zlfile[Job(c).file].zones, Job(c).zone)} :
       IF Job(c).op = "add" /\ doc = <<>>
         THEN JobFails(c)
         ELSE /\ zlses' = [zlses EXCEPT ![c].at = "save", ![c].doc = doc]
              /\ UNCHANGED zlsure
  /\ UNCHANGED <<zldb, zlfile, zltemp, zlsigner, zlseen, zlread, zlimport, zlleft, zlmany>>

SaveTemp(c) ==
  /\ zlses[c].at = "save"
  /\ \E time \in WriteTimes(Job(c).file) :
       zltemp' = [zltemp EXCEPT ![Temp(c)] = Holding(zlses[c].doc, time)]
  /\ zlses' = [zlses EXCEPT ![c].at = "validate"]
  /\ UNCHANGED <<zldb, zlfile, zlsigner, zlseen, zlread, zlsure, zlimport, zlleft, zlmany>>

\* Nothing could be written: an addition removes the rest, an export leaves an
\* empty file behind.
SaveFails(c) ==
  /\ zlses[c].at = "save"
  /\ zlleft.faults > 0
  /\ zlleft' = [zlleft EXCEPT !.faults = @ - 1]
  /\ \E time \in WriteTimes(Job(c).file) :
       zltemp' = [zltemp EXCEPT ![Temp(c)] =
                    IF Job(c).op = "export" THEN Holding(<<>>, time) ELSE Missing]
  /\ JobFails(c)
  /\ UNCHANGED <<zldb, zlfile, zlsigner, zlseen, zlread, zlimport, zlmany>>

\* check_zonelist: what was saved fits the schema; it fails when another
\* command has renamed the file away.
check_zonelist(c) ==
  /\ zlses[c].at = "validate"
  /\ IF zltemp[Temp(c)].there
       THEN zlses' = [zlses EXCEPT ![c].at = "rename"] /\ UNCHANGED zlsure
       ELSE JobFails(c)
  /\ UNCHANGED <<zldb, zlfile, zltemp, zlsigner, zlseen, zlread, zlimport, zlleft, zlmany>>

Renamed(c) ==
  /\ zlses[c].at = "rename"
  /\ IF zltemp[Temp(c)].there
       THEN /\ zlfile' = [zlfile EXCEPT ![Job(c).file] = zltemp[Temp(c)]]
            /\ zltemp' = [zltemp EXCEPT ![Temp(c)] = Missing]
            /\ zlses' = [zlses EXCEPT ![c] = NextJob(c)]
            /\ zlsure' = (zlsure \/ (Job(c).file = "internal" /\ Job(c).op = "export"))
       ELSE JobFails(c) /\ UNCHANGED <<zlfile, zltemp>>
  /\ UNCHANGED <<zldb, zlsigner, zlseen, zlread, zlimport, zlleft, zlmany>>

(***************************************************************************)
(* Commands                                                                *)
(***************************************************************************)
NoImport == [done |-> FALSE, list |-> <<>>, remove |-> FALSE]

MayCommand(c) ==
  /\ zlses[c] = IdleSession
  /\ zlleft.commands > 0
  /\ IF zlmany THEN \A d \in ZlClients : d < c => zlses[d] # IdleSession
               ELSE Quiet /\ c = 1

\* The command has changed the database; the files are still to be written.
Goes(c, jobs, import) ==
  /\ zlses' = [zlses EXCEPT ![c] =
                 IF jobs = <<>> THEN IdleSession
                 ELSE [jobs |-> jobs, at |-> "read", doc |-> <<>>]]
  /\ zlleft' = [zlleft EXCEPT !.commands = @ - 1]
  /\ zlread' = FALSE
  /\ zlimport' = import
  /\ UNCHANGED <<zlfile, zltemp, zlsigner, zlseen, zlmany>>

WhenXml(xml, job) == IF xml THEN <<job>> ELSE <<>>

\* The type an option of zone add stands for.
AdapterOption(type) == Caseless(type)

ZoneAddFiles(c, name, policy, type, xml) ==
  /\ MayCommand(c)
  /\ name \notin NamesOf(zldb)
  /\ policy \in ZlPolicies
  /\ \E zone \in {ZlZone(name, policy, AdapterOption(type))} :
       /\ zldb' = zldb \cup {zone}
       /\ Goes(c, WhenXml(xml, WriteJob("add", "list", zone))
                  \o <<WriteJob("add", "internal", zone)>>, NoImport)
  /\ UNCHANGED zlsure

\* The exports that end zone delete and zone set-policy.
export_lists(xml) == WhenXml(xml, ExportJob("list")) \o <<ExportJob("internal")>>

ZoneDeleteFiles(c, names, xml) ==
  /\ MayCommand(c)
  /\ names \cap NamesOf(zldb) # {}
  /\ zldb' = {z \in zldb : z.name \notin names}
  /\ Goes(c, export_lists(xml), NoImport)
  /\ UNCHANGED zlsure

SetPolicyFiles(c, name, policy, xml) ==
  /\ MayCommand(c)
  /\ name \in NamesOf(zldb)
  /\ policy \in ZlPolicies
  /\ zldb' = {IF z.name = name THEN [z EXCEPT !.policy = policy] ELSE z : z \in zldb}
  /\ Goes(c, export_lists(xml), NoImport)
  /\ UNCHANGED zlsure

\* What zonelist import writes: the list it was given, and the internal one,
\* when some zone was visited.
import_jobs(rows) ==
  IF \E n \in DOMAIN rows : rows[n].scratch # 0
    THEN <<ExportJob("list"), ExportJob("internal")>> ELSE <<>>

\* zonelist import.  An import that only removes writes no file and says
\* nothing of it (ZONELIST_IMPORT_NO_CHANGE).
ZonelistImport(c, remove) ==
  /\ MayCommand(c)
  /\ zlfile["list"].there
  /\ \A z \in Range(zlfile["list"].zones) : z.policy \in ZlPolicies
  /\ \E rows \in {RemoveMissing(process_xml(zlfile["list"].zones), remove)} :
       /\ ~CommitRefused(rows)
       /\ zldb' = CommittedRows(rows)
       /\ Goes(c, import_jobs(rows),
               [done |-> TRUE, list |-> zlfile["list"].zones, remove |-> remove])
       /\ zlsure' = (zlsure /\ (import_jobs(rows) # <<>> \/ zldb' = zldb))

ZonelistExport(c) ==
  /\ MayCommand(c)
  /\ UNCHANGED <<zldb, zlsure>>
  /\ Goes(c, <<ExportJob("list")>>, NoImport)

\* The operator writes a new zonelist.xml.
EditList(list) ==
  /\ Quiet
  /\ zlleft.edits > 0
  /\ zlleft' = [zlleft EXCEPT !.edits = @ - 1]
  /\ zlfile["list"] # Holding(list, 0)
  /\ zlfile' = [zlfile EXCEPT !["list"] = Holding(list, 0)]
  /\ zlimport' = NoImport
  /\ UNCHANGED <<zldb, zltemp, zlses, zlsigner, zlseen, zlread, zlsure, zlmany>>

\* The enforcer dies: commands are gone, files stay as they are.
EnforcerDies ==
  /\ ~Quiet
  /\ zlleft.faults > 0
  /\ zlleft' = [zlleft EXCEPT !.faults = @ - 1]
  /\ zlsure' = (zlsure /\ \A c \in ZlClients : \A i \in 1..Len(zlses[c].jobs) :
                              zlses[c].jobs[i].file # "internal")
  /\ zlses' = [c \in ZlClients |-> IdleSession]
  /\ UNCHANGED <<zldb, zlfile, zltemp, zlsigner, zlseen, zlread, zlimport, zlmany>>

(***************************************************************************)
(* The signer                                                              *)
(***************************************************************************)
\* An adapter of the list; NULL for a type it does not know.
parse_zonelist_adapter(type) == type \in {"File", "DNS"}

\* zonelist_add_zone refuses a zone that is there; either ends the reading.
parse_zonelist_zones(seq) ==
  Distinct(seq) /\ \A i \in 1..Len(seq) : parse_zonelist_adapter(seq[i].type)

\* zone_merge takes policy, signer configuration and adapters over.
MergedZones(zones) ==
  {z \in zlsigner : z \in zones} \cup {z \in zones : z \notin zlsigner}

\* zonelist_update, for ods-signer update --all: a list that is not newer than
\* the one read last is taken for unchanged, and one that cannot be read is
\* looked at again the next time.
ReadZoneList ==
  /\ zlfile["internal"].there
  /\ ~zlread
  /\ zlread' = Quiet
  /\ IF /\ zlfile["internal"].time > zlseen.time
        /\ parse_zonelist_zones(zlfile["internal"].zones)
       THEN /\ zlsigner' = MergedZones(Range(zlfile["internal"].zones))
            /\ zlseen' = zlfile["internal"]
       ELSE UNCHANGED <<zlsigner, zlseen>>
  /\ UNCHANGED <<zldb, zlfile, zltemp, zlses, zlsure, zlimport, zlleft, zlmany>>

ZoneListsInit ==
  /\ zldb = {}
  /\ zlfile = [f \in {"list", "internal"} |-> Missing]
  /\ zltemp = [t \in {"list", "internal"} \X {"new", "update"} |-> Missing]
  /\ zlses = [c \in ZlClients |-> IdleSession]
  /\ zlsigner = {} /\ zlseen = Missing /\ zlread = FALSE /\ zlsure = TRUE /\ zlimport = NoImport
  /\ \E b \in ZlBounds :
       /\ zlleft = [commands |-> b.commands, edits |-> b.edits, faults |-> b.faults]
       /\ zlmany = b.many

\* Bound: overlapping commands are given without --xml.
XmlOptions == IF zlmany THEN {FALSE} ELSE BOOLEAN

ZoneListsNext ==
  \/ \E c \in ZlClients :
       \/ \E n \in ZlNames, p \in ZlPolicies, t \in {"file", "DNS"}, x \in XmlOptions :
            ZoneAddFiles(c, n, p, t, x)
       \/ \E ns \in {{n} : n \in ZlNames} \cup {ZlNames}, x \in XmlOptions :
            ZoneDeleteFiles(c, ns, x)
       \/ \E n \in ZlNames, p \in ZlPolicies, x \in XmlOptions : SetPolicyFiles(c, n, p, x)
       \/ \E r \in BOOLEAN : ZonelistImport(c, r)
       \/ ZonelistExport(c)
       \/ ReadForWrite(c)
       \/ SaveTemp(c)
       \/ SaveFails(c)
       \/ check_zonelist(c)
       \/ Renamed(c)
  \/ \E list \in ZlLists : EditList(list)
  \/ EnforcerDies
  \/ ReadZoneList

ZoneListsSpec == ZoneListsInit /\ [][ZoneListsNext]_zlvars

(***************************************************************************)
(* Properties                                                              *)
(***************************************************************************)
\* The list was written again within the second of the one the signer has read,
\* with other zones (OPENDNSSEC-686).
Overlooked ==
  zlfile["internal"].time <= zlseen.time /\ zlfile["internal"].zones # zlseen.zones

\* When commands come one at a time and none of them said that the internal
\* list could not be written, a signer that was told to read the list since
\* knows exactly the zones of the database, with their policies and adapters:
\* what zone add appends to the file (zonelist_update.c) and what the exports
\* write anew (zonelist_export.c) stay in step, also after a crash or a failed
\* write has been mended by an export.  Only a list written within the second
\* of the one before it may be overlooked, and the next one is not.
SignerFollows ==
  /\ ~zlmany /\ Quiet /\ zlsure /\ zlread /\ ~Overlooked
  /\ \A z \in zldb : parse_zonelist_adapter(z.type)
  => zlsigner = zldb

\* However commands overlap, and whatever they leave behind when they fail, the
\* internal list never has a zone twice: the signer, which gives up the whole
\* list at a second entry (zonelist_add_zone), can read it.
NeverTwice == Distinct(zlfile["internal"].zones)

\* After zonelist import the database has every zone of the list as the list
\* has it, up to the case of the adapter type, and after
\* --remove-missing-zones no others; a list that names a zone twice is left out
\* (zonelist_import.c, process_xml).
ImportAdopts ==
  zlimport.done /\ ~zlmany /\ Distinct(zlimport.list) =>
    /\ \A z \in Range(zlimport.list) :
         \E d \in zldb : /\ d.name = z.name /\ d.policy = z.policy
                        /\ Caseless(d.type) = Caseless(z.type)
    /\ zlimport.remove => NamesOf(zldb) = NamesOf(Range(zlimport.list))

\* The four places that know the zones (the list of the operator, the
\* database, the internal list and the signer) agree on them.
ZonesAgree == SignerFollows /\ NeverTwice /\ ImportAdopts

=============================================================================
