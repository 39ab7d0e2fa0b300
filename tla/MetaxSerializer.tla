--------------------------- MODULE MetaxSerializer ---------------------------
(***************************************************************************)
(* serialize_to_metax (b2share/modules/metax/serializer.py): the mapping   *)
(* of a B2Share record to the JSON posted to Metax by metax_publish and    *)
(* metax_update_metadata, which turn any exception it raises into a       *)
(* False return (api.py 56-59, 87-90).                                    *)
(*                                                                         *)
(* A record is abstracted to the fields whose values decide the shape of  *)
(* the output or whether the mapping raises: its persistent identifiers, *)
(* the kinds of its alternate identifiers, the types of its descriptions, *)
(* its contributors (role, person or organisation, kind of name, kind of *)
(* first affiliation), its creators and publisher, its related            *)
(* identifiers, its community-specific block, and whether its next and    *)
(* previous versions (PIDVersioning) exist and have a DOI or ePIC PID.    *)
(* Strings become the kind of string they are (the FMI name, another      *)
(* name, empty).                                                          *)
(***************************************************************************)
EXTENDS Integers, Sequences, FiniteSets, SequencesExt

CONSTANTS
    MaxAlts,        \* bound on alternate identifiers of a record
    MaxDescs,       \* bound on descriptions of a record
    MaxAgents,      \* bound on contributors of a record
    MaxCreators,    \* bound on creators of a record
    MaxRelated,     \* bound on related_identifiers of a record
    MaxFiles,       \* bound on files of a record
    MaxDisciplines  \* bound on disciplines of a record

PidTypes == {"DOI", "ePIC_PID"}

(* alternate_identifiers: Metax's own https://etsin... URL, another URL,  *)
(* and a Handle (a type in _get_id_type_identifier's list).               *)
AltKinds == {"etsin", "url", "handle"}

DescTypes == {"Abstract", "Other"}

Roles == {"DataCurator", "RightsHolder", "ContactPerson"}

(* A name: "Finnish Meteorological Institute", another name, or empty.    *)
NameKinds == {"FMI", "other", "empty"}

(* The first affiliation: none at all, FMI, another name, or one with no  *)
(* affiliation_name.                                                      *)
AffilKinds == {"none", "FMI", "other", "unnamed"}

Agents ==
    [role: Roles, org: {FALSE}, name: {"other"}, affil: AffilKinds]
    \cup [role: Roles, org: {TRUE}, name: NameKinds, affil: {"none"}]

(* A creator: the fields of a contributor that get_creator reads.         *)
Creators ==
    [org: {FALSE}, name: {"other"}, affil: AffilKinds]
    \cup [org: {TRUE}, name: NameKinds, affil: {"none"}]

(* A related_identifier: one containing ETSIN_URL, or any other.          *)
RelatedKinds == {"etsinDemo", "other"}

(* The next or previous version of a record: none, one with a DOI or      *)
(* ePIC PID, or one with neither.                                         *)
Neighbours == {"none", "pid", "nopid"}

(* community_specific: absent, a block without 'topic', a block with it.  *)
CommunityKinds == {"absent", "noTopic", "topic"}

(* license.license_uri: none, one of the eight URIs of licenses.py, or   *)
(* another.                                                               *)
LicenseKinds == {"none", "mapped", "other"}

(* A file of _files: with or without its ePIC_PID key.                    *)
FileKinds == {"pid", "nopid"}

(* A discipline: a plain string (the older schema), the dictionary of    *)
(* "3.3.2 -> Earth sciences -> Environmental science", or another one.    *)
DisciplineKinds == {"str", "envsci", "other"}

(* Records varying every field read by the identifier, description,      *)
(* agent, relation and topic functions; they are closed access, without  *)
(* embargo or licence.                                                    *)
CoreRecords ==
    [pids: SUBSET PidTypes, alts: BoundedSeq(AltKinds, MaxAlts),
     descs: BoundedSeq(DescTypes, MaxDescs),
     contributors: BoundedSeq(Agents, MaxAgents),
     creators: BoundedSeq(Creators, MaxCreators),
     publisher: NameKinds,
     related: BoundedSeq(RelatedKinds, MaxRelated),
     next: Neighbours, prev: Neighbours,
     community: CommunityKinds,
     open: {FALSE}, embargo: {FALSE}, license: {"none"},
     files: {<<>>}, externalUrl: {FALSE}, disciplines: {<<>>},
     funding: {FALSE}]

(* Records varying the fields only get_access_rights, get_license,       *)
(* get_embargo_date, get_remote_resources, get_field_of_science and       *)
(* get_project read (open_access, embargo_date, license, _files,          *)
(* community_specific.external_url, disciplines, funding_references), on *)
(* a record whose other fields are serializable: no serializer function  *)
(* reads fields of both kinds, so the two families together reach every  *)
(* behaviour of each.                                                     *)
AccessRecords ==
    {[pids |-> {"DOI"}, alts |-> <<>>, descs |-> <<"Abstract">>,
      contributors |-> <<>>, creators |-> <<>>, publisher |-> "FMI",
      related |-> <<>>, next |-> "none", prev |-> "none", community |-> "topic",
      open |-> o, embargo |-> e, license |-> l, files |-> f, externalUrl |-> x,
      disciplines |-> d, funding |-> fr] :
        o \in BOOLEAN, e \in BOOLEAN, l \in LicenseKinds,
        f \in BoundedSeq(FileKinds, MaxFiles), x \in BOOLEAN,
        d \in BoundedSeq(DisciplineKinds, MaxDisciplines), fr \in BOOLEAN}

Records == CoreRecords \cup AccessRecords

Raise == "raise"        \* an exception escapes serialize_to_metax

(* get_org_id: the FMI organisation code for the FMI name and for any     *)
(* missing or empty name, None otherwise.                                 *)
OrgId(n) == n \in {"FMI", "empty"}

(* Mutant: get_member_of without its bare except, so a person without    *)
(* affiliations makes [0] raise IndexError out of the serializer.         *)
MemberOfUnguarded(affil) ==
    CASE affil = "none" -> Raise
      [] affil \in {"FMI", "unnamed"} -> "FMI"
      [] OTHER -> "named"

(* get_member_of: the first affiliation as an organisation identified by  *)
(* the FMI code or by name; an IndexError (no affiliations) is swallowed  *)
(* by the bare except and gives None.                                     *)
MemberOf(affil) ==
    CASE affil = "none" -> "none"
      [] affil \in {"FMI", "unnamed"} -> "FMI"
      [] OTHER -> "named"

(* The agent dictionary built by get_creator, get_contributor, get_curator *)
(* and get_rights_holder.  nameShape is what the Person "name" value is:  *)
(* get_rights_holder's `contributor["name"] = c["contributor_name"],`     *)
(* (line 274) makes it a one-element tuple, the others a string.          *)
AgentJson(c, nameShape) ==
    IF c.org
    THEN [type |-> "Organization", ident |-> OrgId(c.name),
          name |-> IF OrgId(c.name) THEN "none" ELSE "en", member |-> "none"]
    ELSE [type |-> "Person", ident |-> FALSE, name |-> nameShape,
          member |-> MemberOf(c.affil)]

(* Mutant: get_contributor excludes only DataCurator, so rights holders  *)
(* are listed both as contributors and as rights holders.                 *)
AgentListCuratorOnly(rec, R, nameShape) ==
    LET keep(c) == IF "ContactPerson" \in R THEN c.role # "DataCurator"
                   ELSE c.role \in R
        sel == SelectSeq(rec.contributors, keep)
    IN [i \in 1..Len(sel) |-> AgentJson(sel[i], nameShape)]

(* The loop shared by get_contributor (role not DataCurator nor           *)
(* RightsHolder), get_curator and get_rights_holder: the record's         *)
(* contributors whose role is in R, in record order, as agents.           *)
AgentList(rec, R, nameShape) ==
    LET sel == SelectSeq(rec.contributors, LAMBDA c : c.role \in R)
    IN [i \in 1..Len(sel) |-> AgentJson(sel[i], nameShape)]

(* Mutant: a record with neither DOI nor ePIC PID falls back to its      *)
(* b2rec id instead of raising.                                            *)
PreferredIdentifierB2rec(rec) ==
    CASE "DOI" \in rec.pids -> "DOI"
      [] "ePIC_PID" \in rec.pids -> "ePIC_PID"
      [] OTHER -> "b2rec"

(* get_preferred_identifier: the DOI if there is one, else the ePIC PID;  *)
(* with neither, None['value'] raises TypeError.                          *)
PreferredIdentifier(rec) ==
    CASE "DOI" \in rec.pids -> "DOI"
      [] "ePIC_PID" \in rec.pids -> "ePIC_PID"
      [] OTHER -> Raise

(* get_other_identifier: the ePIC PID, then every alternate identifier    *)
(* that is not an https://etsin URL, in record order.                     *)
OtherIdentifier(rec) ==
    (IF "ePIC_PID" \in rec.pids THEN <<"ePIC_PID">> ELSE <<>>)
        \o SelectSeq(rec.alts, LAMBDA a : a # "etsin")

(* get_description: the first Abstract, else the first description; an   *)
(* empty list raises IndexError.  The type of the description sent.       *)
Description(rec) ==
    CASE rec.descs = <<>> -> Raise
      [] \E i \in DOMAIN rec.descs : rec.descs[i] = "Abstract" -> "Abstract"
      [] OTHER -> Head(rec.descs)

(* get_keyword and get_remote_resources read                             *)
(* list(record.get('community_specific').values())[0]['topic']: a record  *)
(* without the block raises AttributeError, one without topic KeyError.   *)
CommunityTopic(rec) == IF rec.community = "topic" THEN "topic" ELSE Raise

(* get_license: no licence, a Metax licence identifier (licenses.py maps  *)
(* the URI), or the URI itself as "license".                              *)
License(rec) ==
    CASE rec.license = "none" -> <<>>
      [] rec.license = "mapped" -> <<"identifier">>
      [] OTHER -> <<"license">>

(* get_access_rights: open access first, then an embargo date, else       *)
(* restricted use; only the embargo form carries the "available" date.    *)
AccessRights(rec) ==
    [type |-> IF rec.open THEN "open" ELSE IF rec.embargo THEN "embargo"
              ELSE "restricted",
     license |-> License(rec),
     available |-> ~rec.open /\ rec.embargo]

(* get_creator: every creator as an agent, the person name a string.      *)
Creator(rec) == [i \in 1..Len(rec.creators) |-> AgentJson(rec.creators[i], "str")]

(* get_publisher: the FMI organisation code for the FMI name and for a    *)
(* missing or empty publisher, the name otherwise.                        *)
Publisher(rec) == IF OrgId(rec.publisher) THEN "ident" ELSE "name"

(* The preferred identifier of a neighbouring version, as                 *)
(* get_preferred_identifier(Record.get_record(...)) computes it: raises   *)
(* when that version has neither DOI nor ePIC PID.                        *)
NeighbourIdentifier(n) == IF n = "pid" THEN "pid" ELSE Raise

(* get_relation: the related identifiers not containing ETSIN_URL, in     *)
(* order, then "next" when a next version exists and "previous" when a    *)
(* previous one does, each naming that version's preferred identifier.    *)
Relation(rec) ==
    [i \in 1..Len(SelectSeq(rec.related, LAMBDA k : k # "etsinDemo")) |-> "relation"]
        \o (IF rec.next # "none"
            THEN <<NeighbourIdentifier(rec.next)>> ELSE <<>>)
        \o (IF rec.prev # "none"
            THEN <<NeighbourIdentifier(rec.prev)>> ELSE <<>>)

(* get_remote_resources: one entry per file, whose download_url is its   *)
(* ePIC_PID (a file without one raises KeyError), then one per            *)
(* external_url of the community-specific block.                          *)
RemoteResources(rec) ==
    IF \E i \in DOMAIN rec.files : rec.files[i] = "nopid" THEN Raise
    ELSE [i \in DOMAIN rec.files |-> "file"]
             \o (IF rec.externalUrl THEN <<"external">> ELSE <<>>)

(* get_field_of_science: the disciplines in order; the first plain       *)
(* string ends the loop with no field, the Environmental science          *)
(* dictionary gives its okm-tieteenala concept, anything else is skipped. *)
RECURSIVE FieldOfScience(_)
FieldOfScience(ds) ==
    CASE ds = <<>> -> <<>>
      [] Head(ds) = "str" -> <<>>
      [] Head(ds) = "envsci" -> <<"ta1171">>
      [] OTHER -> FieldOfScience(Tail(ds))

(* get_project: one project, funded by the funders, when the record has  *)
(* funding references.                                                     *)
Project(rec) == IF rec.funding THEN <<"project">> ELSE <<>>

(* serialize_to_metax: the research_dataset fields modelled here, or      *)
(* Raise when any of its field functions raises; `present` is the final   *)
(* filter, which drops the fields whose value is empty.                   *)
SerializeToMetax(rec) ==
    LET others == Roles \ {"DataCurator", "RightsHolder"}
        contributor == AgentList(rec, others, "str")
        curator == AgentList(rec, {"DataCurator"}, "str")
        rightsHolder == AgentList(rec, {"RightsHolder"}, "tuple")
        agents == Creator(rec) \o contributor \o curator \o rightsHolder
        lists == [other |-> OtherIdentifier(rec), creator |-> Creator(rec),
                  contributor |-> contributor, relation |-> Relation(rec),
                  curator |-> curator, rights_holder |-> rightsHolder,
                  remote_resources |-> RemoteResources(rec),
                  field_of_science |-> FieldOfScience(rec.disciplines),
                  is_output_of |-> Project(rec)]
    IN IF \/ PreferredIdentifier(rec) = Raise
          \/ Description(rec) = Raise
          \/ CommunityTopic(rec) = Raise
          \/ \E i \in DOMAIN agents : agents[i].member = Raise
          \/ \E i \in DOMAIN Relation(rec) : Relation(rec)[i] = Raise
          \/ RemoteResources(rec) = Raise
       THEN [kind |-> "raise"]
       ELSE [kind |-> "ok",
             preferred |-> PreferredIdentifier(rec),
             other |-> OtherIdentifier(rec),
             description |-> Description(rec),
             creator |-> Creator(rec),
             publisher |-> Publisher(rec),
             contributor |-> contributor,
             relation |-> Relation(rec),
             curator |-> curator,
             rights_holder |-> rightsHolder,
             remote_resources |-> RemoteResources(rec),
             field_of_science |-> FieldOfScience(rec.disciplines),
             access_rights |-> AccessRights(rec),
             available |-> rec.embargo,
             present |-> {"preferred_identifier", "description", "publisher",
                          "keyword", "access_rights"}
                         \cup {f \in DOMAIN lists : lists[f] # <<>>}]

NotSerialized == [kind |-> "unserialized"]

VARIABLES
    rec,        \* the record being harvested
    out         \* what serialize_to_metax returned for it

vars == <<rec, out>>

Init ==
    /\ rec \in Records
    /\ out = NotSerialized

(* metax_publish / metax_update_metadata call serialize_to_metax.         *)
Serialize ==
    /\ out = NotSerialized
    /\ out' = SerializeToMetax(rec)
    /\ UNCHANGED rec

Spec == Init /\ [][Serialize]_vars

-----------------------------------------------------------------------------
(* Properties                                                               *)

AgentJsons ==
    [type: {"Organization", "Person"}, ident: BOOLEAN,
     name: {"none", "en", "str", "tuple"}, member: {"none", "FMI", "named"}]

Serialized == out.kind = "ok"

(* The serializer either raises or returns the fields modelled here, each *)
(* of the shape the code builds.                                          *)
TypeOK ==
    /\ rec \in Records
    /\ out \in {NotSerialized, [kind |-> "raise"]}
              \cup [kind: {"ok"}, preferred: PidTypes, other: Seq(AltKinds \cup {"ePIC_PID"}),
                   description: DescTypes,
                   creator: Seq(AgentJsons), publisher: {"ident", "name"},
                   contributor: Seq(AgentJsons), relation: Seq({"relation", "pid"}),
                   curator: Seq(AgentJsons), rights_holder: Seq(AgentJsons),
                   remote_resources: Seq({"file", "external"}),
                   field_of_science: Seq({"ta1171"}),
                   access_rights: [type: {"open", "embargo", "restricted"},
                                   license: Seq({"identifier", "license"}),
                                   available: BOOLEAN],
                   available: BOOLEAN,
                   present: SUBSET {"preferred_identifier", "other", "description",
                                    "access_rights",
                                    "creator", "publisher", "keyword",
                                    "contributor", "relation", "curator",
                                    "rights_holder", "remote_resources",
                                    "field_of_science", "is_output_of"}]

(* Which records can never reach Metax: serialization raises (and         *)
(* metax_publish returns False on every publish_to_metax run) exactly for *)
(* a record without DOI and ePIC PID, without descriptions, or without a  *)
(* community-specific topic, or with a next or previous version that has  *)
(* neither DOI nor ePIC PID (get_relation looks up its identifier), so a  *)
(* new version published without PIDs makes its predecessor unserializable; *)
(* or with a file that has no ePIC_PID (get_remote_resources reads it);   *)
(* creators and contributors never make it raise, whatever their          *)
(* affiliations.                                                          *)
SerializableIff ==
    out # NotSerialized =>
        (out.kind = "raise" <=> \/ rec.pids = {}
                        \/ rec.descs = <<>>
                        \/ rec.community # "topic"
                        \/ "nopid" \in {rec.next, rec.prev}
                        \/ "nopid" \in ToSet(rec.files))

(* The contributor, curator and rights_holder lists partition the         *)
(* record's contributors by contributor_type: every contributor is sent   *)
(* to Metax exactly once, in the list its role selects.                   *)
RolesPartitioned ==
    Serialized =>
        LET count(R) == Cardinality({i \in DOMAIN rec.contributors :
                                        rec.contributors[i].role \in R})
        IN /\ Len(out.contributor) = count({"ContactPerson"})
           /\ Len(out.curator) = count({"DataCurator"})
           /\ Len(out.rights_holder) = count({"RightsHolder"})

=============
