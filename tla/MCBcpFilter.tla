---------------------------- MODULE MCBcpFilter ----------------------------
(***************************************************************************)
(* Checks the acceptance filter of BcpFilter over every filter             *)
(* configuration of up to MaxRules rules on small name sets.  The inputs   *)
(* are chosen in Init and never change: each state is one question         *)
(* (rules, service, org unit) put to DecidersFilter.Accept.                *)
(* The group resolver, the builder, the parser and the sharing compiler    *)
(* (MCBcpSharing) are asked their own questions in the same run, each an   *)
(* initial state that fixes the other questions' variables.                *)
(***************************************************************************)
EXTENDS BcpFilter, BcpOrg, BcpCfg, FiniteSets

CONSTANTS FilterTable,     \* the group table the filter questions start from
          FilterConfigs,   \* configurations of those questions
          MaxRules,        \* bound on the length of the configured filter
          CandidateGroups, \* groups an org question's table is made of
          OrgConfigs,      \* configurations of the org questions
          MaxGroups,       \* bound on the length of an org question's table
          ParserConfigs,   \* configurations put to the parser alone
          MaxExports       \* bound on the exports of a sharing question

\* The Organizations MustLoadGroups builds for the filter questions.
\* bcpfs-perms: MustLoadConfig (bcpcfg.Load, then the defaults) and
\* MustLoadGroups; the raw configurations used are ones Parse accepts.
Loaded(raw) == MustLoadConfig(Parse(raw).cfg)
FilterOrgs == {MustLoadGroups(FilterTable, Loaded(c)) : c \in FilterConfigs}
ServiceNames == UNION {{s.name : s \in o.services} : o \in FilterOrgs}
OrgUnitNames == UNION {{u.name : u \in o.orgUnits} : o \in FilterOrgs}

Rules == [action : {"accept", "reject"},
          services : SUBSET ServiceNames,
          orgUnits : SUBSET OrgUnitNames]

G(name, gid) == [name |-> name, gid |-> gid]
Fac(name, services, access) == [name |-> name, services |-> services, access |-> access]
Raw(super, ops, facilities, orgUnits, rootdir, filter, symlinks, sharingBlocks) ==
    [ouPrefix |-> "org", srvPrefix |-> "srv", opsSuffix |-> ops,
     facilitySuffix |-> "", superGroup |-> super,
     facilities |-> facilities, orgUnits |-> orgUnits, rootdir |-> rootdir,
     filter |-> filter, symlinks |-> symlinks, sharingBlocks |-> sharingBlocks,
     sharing |-> [namingPolicies |-> <<>>, exports |-> <<>>, imports |-> <<>>]]
Cfg(super, ops, facilities, orgUnits) ==
    Raw(super, ops, facilities, orgUnits, <<"/", "fs">>, <<>>, <<>>, 1)

\* Facilities "e" and "l", none a prefix of the other, two plain org units;
\* service "mic1" belongs to "e" in one configuration and to "l" in the other.
DisjointTable ==
    <<G(<<"org_", "o">>, 1), G(<<"org_", "p">>, 2),
      G(<<"org_", "e", FacilitySuffix>>, 3), G(<<"org_", "l", FacilitySuffix>>, 4),
      G(<<"srv_", "mic1">>, 5), G(<<"srv_", "e", "-ops">>, 6), G(<<"srv_", "l", "-ops">>, 7)>>
DisjointConfigs ==
    {Cfg(<<>>, "", <<Fac(<<f>>, <<<<"mic1">>>>, "")>>, <<>>) : f \in {"e", "l"}}

\* Facility "e" is a prefix of facility "em" (think "em" and "emx").
PrefixTable ==
    <<G(<<"org_", "o">>, 1), G(<<"org_", "e", FacilitySuffix>>, 2),
      G(<<"org_", "e", "m", FacilitySuffix>>, 3), G(<<"srv_", "mic1">>, 4),
      G(<<"srv_", "e", "-ops">>, 5), G(<<"srv_", "e", "m", "-ops">>, 6)>>
PrefixConfigs ==
    {Cfg(<<>>, "", <<Fac(f, <<<<"mic1">>>>, "")>>, <<>>) : f \in {<<"e">>, <<"e", "m">>}}

\* Org questions: org unit alice, facilities em and lm, service mic1, the
\* ops group of em only, the super group "all", and a group that shares
\* alice's name and the em ops group's gid.
OrgCandidates ==
    {G(<<"org_", "alice">>, 1), G(<<"org_", "em", FacilitySuffix>>, 2),
     G(<<"org_", "lm", FacilitySuffix>>, 3), G(<<"srv_", "mic1">>, 4),
     G(<<"srv_", "em", "-ops">>, 5), G(<<"all">>, 6), G(<<"org_", "alice">>, 5)}
Mic1 == <<<<"mic1">>>>
OrgFacilities ==
    {<<>>, <<Fac(<<"em">>, Mic1, "")>>, <<Fac(<<"em">>, Mic1, "allOrgUnits")>>,
     <<Fac(<<"em">>, Mic1, "perService"), Fac(<<"lm">>, Mic1, "")>>,
     <<Fac(<<"lm">>, Mic1, "allOrgUnits")>>}
Alice(extra) ==
    <<[name |-> <<"alice">>, subdirs |-> <<[name |-> "shared", policy |-> "owner"]>>,
       extraDirs |-> <<extra>>]>>
\* With the super group the ops suffix is given; without, it is defaulted.
OrgConfigSet ==
    {Cfg(<<"all">>, "ops", fs, Alice(x)) : fs \in OrgFacilities, x \in {"data", "shared"}}
    \cup {Cfg(<<>>, "", fs, Alice(x)) : fs \in OrgFacilities, x \in {"data", "shared"}}

\* Parser questions: one defect of each kind the parser checks, next to a
\* configuration with a rule in singular and one in list form, a symlink
\* and no sharing block.  Alice's subdir "shared" has policy `p`.
AliceWith(p) ==
    <<[name |-> <<"alice">>, subdirs |-> <<[name |-> "shared", policy |-> p]>>,
       extraDirs |-> <<>>]>>
Rule(a, s, ss, o, os) == [action |-> a, service |-> s, services |-> ss, orgUnit |-> o, orgUnits |-> os]
GoodRules ==
    <<Rule("reject", <<"mic1">>, <<>>, <<>>, <<<<"alice">>>>),
      Rule("accept", <<>>, Mic1, <<"alice">>, <<>>)>>
Link(p, t) == [path |-> p, target |-> t]
EmFac(access) == <<Fac(<<"em">>, Mic1, access)>>
Parsing(facs, ous, root, filter, links, blocks) ==
    Raw(<<"all">>, "ops", facs, ous, root, filter, links, blocks)
\* A sharing block with one naming policy, one export of the given ACL
\* entries and one import.  `group:bob:r-x` is <<"group", <<"a-z">>, <<"r", "-", "x">>>>.
Ace(tag, name, mode) == <<tag, name, mode>>
Block(naming, acl, import) ==
    [namingPolicies |-> <<[action |-> naming]>>, exports |-> <<[acl |-> acl]>>,
     imports |-> <<[action |-> import]>>]
GoodAce == Ace("group", <<"a-z", "-", "0-9">>, <<"r", "-", "x">>)
WithSharing(b) ==
    [Parsing(EmFac(""), AliceWith("owner"), <<"/", "fs">>, <<>>, <<>>, 1) EXCEPT !.sharing = b]
ParserConfigSet ==
    {WithSharing(Block("allow", <<GoodAce>>, "accept")),
     WithSharing(Block("permit", <<GoodAce>>, "accept")),
     WithSharing(Block("deny", <<GoodAce>>, "import")),
     WithSharing(Block("deny", <<GoodAce, Ace("user", <<"a-z">>, <<"r", "w", "x">>)>>, "reject")),
     WithSharing(Block("allow", <<GoodAce, Ace("group", <<"A-Z", "a-z">>, <<"r", "-", "x">>)>>, "accept")),
     WithSharing(Block("allow", <<GoodAce, Ace("group", <<>>, <<"r", "-", "x">>)>>, "accept")),
     WithSharing(Block("allow", <<GoodAce, Ace("group", <<"a-z">>, <<"x", "-", "r">>)>>, "accept")),
     WithSharing(Block("allow", <<GoodAce, <<"group", <<"a-z">>, <<"a-z">>, <<"r", "-", "x">>>>>>, "accept"))}
    \cup
    {Parsing(EmFac(""), AliceWith(p), <<"/", "fs">>, GoodRules, <<Link("a", "b")>>, 0)
        : p \in {"owner", "group", "manager", "public"}}
    \cup {Parsing(EmFac("world"), AliceWith("owner"), <<"/", "fs">>, <<>>, <<>>, 0),
          Parsing(EmFac(""), AliceWith("owner"), <<>>, <<>>, <<>>, 0),
          Parsing(EmFac(""), AliceWith("owner"), <<"fs">>, <<>>, <<>>, 0),
          Parsing(EmFac(""), AliceWith("owner"), <<"/", "fs">>, <<>>, <<Link("a", "")>>, 0),
          Parsing(EmFac(""), AliceWith("owner"), <<"/", "fs">>, <<>>, <<Link("", "b")>>, 0),
          Parsing(EmFac(""), AliceWith("owner"), <<"/", "fs">>, <<>>, <<>>, 2)}
    \cup {Parsing(EmFac(""), AliceWith("owner"), <<"/", "fs">>, <<r>>, <<>>, 1)
        : r \in {Rule("allow", <<"mic1">>, <<>>, <<"alice">>, <<>>),
                 Rule("accept", <<"mic1">>, Mic1, <<"alice">>, <<>>),
                 Rule("accept", <<>>, <<>>, <<"alice">>, <<>>),
                 Rule("accept", <<"mic1">>, <<>>, <<"alice">>, <<<<"alice">>>>),
                 Rule("accept", <<"mic1">>, <<>>, <<>>, <<>>)}}

\* The groups a parser configuration names: org unit alice, facility em,
\* service mic1, em's ops group and the super group, so that loading gets
\* past the group lookups to MustDirPolicy and the access check.
ParserTable ==
    <<G(<<"org_", "alice">>, 1), G(<<"org_", "em", FacilitySuffix>>, 2),
      G(<<"srv_", "mic1">>, 4), G(<<"srv_", "em", "-ops">>, 5), G(<<"all">>, 6)>>

NoService == [name |-> <<>>, facility |-> <<>>]

VARIABLES rules, srv, ou, groups, raw, conf, exports, imports, naming

vars == <<rules, srv, ou, groups, raw, conf, exports, imports, naming>>

\* The sharing compiler's questions of MCBcpSharing, on its organization.
Names == INSTANCE MCSharingNames
Sharing == INSTANCE MCBcpSharing WITH
    ServiceDir <- Names!SrvName, OrgUnitDir <- Names!OrgName,
    Facilities <- Names!FacilityNames, FacilityOf <- Names!ServiceFacility,
    ExportPaths <- Names!OwnPaths, FilterRules <- Names!OrdinaryOusFilter

\* A filter question: a filter, and a service and an org unit of an
\* Organization built from FilterTable.
FilterQuestion ==
    /\ groups = FilterTable
    /\ raw \in FilterConfigs
    /\ conf = Loaded(raw)
    /\ LET org == MustLoadGroups(groups, conf)
       IN  /\ org.ok
           /\ srv \in org.services
           /\ ou \in {u.name : u \in org.orgUnits}
    /\ rules \in BoundedSeq(Rules, MaxRules)

\* An org question: a group table and a configuration; a parser question:
\* a configuration with the empty table or the table it names.
OrgQuestion ==
    /\ \/ raw \in OrgConfigs /\ groups \in BoundedSeq(CandidateGroups, MaxGroups)
       \/ raw \in ParserConfigs /\ groups \in {<<>>, ParserTable}
    /\ conf = IF Parse(raw).ok THEN Loaded(raw) ELSE raw
    /\ rules = <<>> /\ srv = NoService /\ ou = <<>>

NoSharing == exports = <<>> /\ imports = <<>> /\ naming = <<>>

\* A sharing question: a sharing configuration, with the org question of
\* the empty table for the other variables.
SharingQuestion ==
    /\ Sharing!Init
    /\ raw = CHOOSE c \in OrgConfigs : TRUE
    /\ conf = Loaded(raw)
    /\ groups = <<>> /\ rules = <<>> /\ srv = NoService /\ ou = <<>>

Init == (FilterQuestion /\ NoSharing) \/ (OrgQuestion /\ NoSharing) \/ SharingQuestion

Next == UNCHANGED vars

Spec == Init /\ [][Next]_vars

(***************************************************************************)
(* Reference definition (spec 4.3): the first decider whose answer is not  *)
(* PASS decides, and a combination no decider decides is rejected.         *)
(***************************************************************************)
FirstDecision(r, s, o) ==
    LET ds == [i \in 1..Len(Deciders(r)) |-> Decide(Deciders(r)[i], s, o)]
        i == SelectInSeq(ds, LAMBDA a : a # "pass")
    IN  IF i = 0 THEN "reject" ELSE ds[i]

\* DecidersFilter.Accept, with its double call of Decide per rule, agrees
\* with "first non-PASS answer wins, default reject" for every filter.
AcceptIsFirstDecision ==
    Accept(rules, srv, ou) <=> FirstDecision(rules, srv, ou) = "accept"

\* SameFacilityDecider (the rule appended after the configured rules) lets
\* a facility org unit in only for services its own facility operates: when
\* no configured rule decides, a facility org unit is accepted exactly when
\* its facility (the name without "-<facilitySuffix>") is the service's.
SameFacilityOwnsService ==
    (IsFacility(ou) /\ \A i \in 1..Len(rules) : RegexpDecide(rules[i], srv, ou) = "pass")
        => (Accept(rules, srv, ou) <=> OuFacility(ou) = srv.facility)

(***************************************************************************)
(* Reference definitions for the group resolver and the builder (spec 3,   *)
(* 4.1 and 4.2), stated over sets.                                         *)
(***************************************************************************)
Conflicting(S) == \E g, h \in S : (g.name = h.name) # (g.gid = h.gid)

FirstIndex(s, x) == SelectInSeq(s, LAMBDA y : y = x)

\* DedupGroups fails exactly when two groups agree on name but not gid or
\* on gid but not name; otherwise it returns every group once, in the
\* order of first occurrence; and dedup(gs ++ gs) = dedup(gs) (spec 8.1).
\* A conflict with a group that was itself skipped as a duplicate, or a
\* gid clash hidden behind a name that was seen, takes several entries.
DedupGroupsIsReference ==
    LET d == DedupGroups(groups)
    IN  /\ d.ok = ~Conflicting(Range(groups))
        /\ d.ok => /\ Range(d.groups) = Range(groups)
                   /\ \A i, j \in DOMAIN d.groups :
                        i < j => FirstIndex(groups, d.groups[i]) < FirstIndex(groups, d.groups[j])
        /\ DedupGroups(groups \o groups) = d

\* The groups MustLoadGroups keeps: prefix "org_" or "srv_", or the super
\* group's name.
Selected == {g \in Range(groups) : g.name = conf.superGroup
                                   \/ (g.name # <<>> /\ g.name[1] \in {"org_", "srv_"})}
Named(n) == {g \in Selected : g.name = n}
RefOrgUnits == {Tail(g.name) : g \in {g \in Selected : g.name[1] = "org_"}}
RefServices == {Tail(g.name) : g \in {g \in Selected : g.name[1] = "srv_" /\ Last(g.name) # "-ops"}}
RefFacilityNames == {Front(o) : o \in {o \in RefOrgUnits : o # <<>> /\ Last(o) = FacilitySuffix}}
Listed(s) == {i \in DOMAIN conf.facilities : s \in Range(conf.facilities[i].services)}
Configured == {s \in RefServices : Listed(s) # {}}
\* The facility a service is assigned to: the last entry that lists it.
RefFacility(s) == conf.facilities[Max(Listed(s))]
UniqueDirs(cou) ==
    Len(cou.subdirs) + Len(cou.extraDirs)
        = Cardinality({d.name : d \in Range(cou.subdirs)} \cup Range(cou.extraDirs))

\* When the group table can be loaded: no conflicting groups (inv. 4),
\* unique dirs per configured org unit (inv. 5), a facility group for every
\* configured facility (4.2), and for every service with a group and a
\* facility: all_org_units only with a super group (inv. 3), the super group
\* present when set, and the facility's ops group (inv. 2).
RefLoadOk ==
    /\ ~Conflicting(Selected)
    /\ \A cou \in Range(conf.orgUnits) : UniqueDirs(cou)
    /\ \A f \in Range(conf.facilities) : f.name \in RefFacilityNames
    /\ \A s \in Configured :
         /\ RefFacility(s).access = "allOrgUnits" => conf.superGroup # <<>>
         /\ conf.superGroup # <<>> => Named(conf.superGroup) # {}
         /\ Named(<<"srv_">> \o RefFacility(s).name \o <<"-ops">>) # {}

\* For a configuration Parse accepts, MustLoadGroups (select, dedup,
\* bcp.New) succeeds exactly under RefLoadOk, and then its Organization
\* has one org unit per "org_" group
\* (a facility one when it ends in the facility suffix), one service per
\* configured service group with the facility of the last facility entry
\* listing it and the access that entry gives (empty is perService), the
\* services no facility lists as unconfigured, and the right groups.
LoadGroupsIsReference ==
    LET org == MustLoadGroups(groups, conf)
    IN  Parse(raw).ok =>
        /\ org.ok = RefLoadOk
        /\ org.ok =>
             /\ {[n |-> u.name, f |-> u.isFacility, g |-> u.group] : u \in org.orgUnits}
                  = {[n |-> o, f |-> o \in {x \o <<FacilitySuffix>> : x \in RefFacilityNames},
                      g |-> TheGroup(Named(<<"org_">> \o o))] : o \in RefOrgUnits}
             /\ {[n |-> v.name, f |-> v.facility, a |-> v.access, g |-> v.group,
                  o |-> v.opsGroup] : v \in org.services}
                  = {[n |-> s, f |-> RefFacility(s).name,
                      a |-> IF RefFacility(s).access = "allOrgUnits" THEN "allOrgUnits" ELSE "perService",
                      g |-> TheGroup(Named(<<"srv_">> \o s)),
                      o |-> TheGroup(Named(<<"srv_">> \o RefFacility(s).name \o <<"-ops">>))]
                     : s \in Configured}
             /\ org.unconf = RefServices \ Configured

(***************************************************************************)
(* Reference definitions for the parser (spec 3, Configuration).           *)
(***************************************************************************)
\* Exactly one of the singular and the list form is given.
OneForm(single, list) == (single = <<>>) # (list = <<>>)
RuleValid(r) ==
    r.action \in {"accept", "reject"}
        /\ OneForm(r.service, r.services) /\ OneForm(r.orgUnit, r.orgUnits)
\* An export entry names a group of lowercase letters, digits and dashes
\* and gives it a mode in `rwx` format (spec 3, ACE).
GroupAce(a) ==
    /\ a[1] = "group" /\ Len(a) = 3
    /\ a[2] # <<>> /\ Range(a[2]) \subseteq {"a-z", "0-9", "-"}
    /\ a[3] \in {"r", "-"} \X {"w", "-"} \X {"x", "-"}
RawValid ==
    /\ raw.rootdir # <<>> /\ raw.rootdir[1] = "/"
    /\ \A f \in Range(raw.facilities) : f.access \in {"perService", "allOrgUnits", ""}
    /\ \A cou \in Range(raw.orgUnits) :
         \A d \in Range(cou.subdirs) : d.policy \in {"group", "owner", "manager"}
    /\ \A r \in Range(raw.filter) : RuleValid(r)
    /\ \A l \in Range(raw.symlinks) : l.path # "" /\ l.target # ""
    /\ raw.sharingBlocks <= 1
    /\ raw.sharingBlocks = 1 =>
         /\ \A n \in Range(raw.sharing.namingPolicies) : n.action \in {"allow", "deny"}
         /\ \A m \in Range(raw.sharing.imports) : m.action \in {"accept", "reject"}
         /\ \A e \in Range(raw.sharing.exports) : \A a \in Range(e.acl) : GroupAce(a)

\* bcpcfg.Parse accepts exactly the configurations spec section 3 allows,
\* and then each filter rule names exactly the services and org units of
\* the form the rule used.
ParseIsReference ==
    /\ Parse(raw).ok = RawValid
    /\ Parse(raw).ok =>
         \A i \in DOMAIN raw.filter :
           LET r == raw.filter[i]
               v == Parse(raw).cfg.filter[i]
           IN  /\ Range(v.services) = Range(r.services) \cup (IF r.service = <<>> THEN {} ELSE {r.service})
               /\ Range(v.orgUnits) = Range(r.orgUnits) \cup (IF r.orgUnit = <<>> THEN {} ELSE {r.orgUnit})

\* The builder relies on the parser: MustDirPolicy panics on an invalid
\* subdir policy and parseServices fails on an invalid access.  For every
\* configuration Parse accepts and every group table, MustLoadGroups
\* neither panics nor fails on an access policy; it fails only for the
\* groups or the duplicate dirs.
ParsedConfigLoadsWithoutPanic ==
    LET org == MustLoadGroups(groups, conf)
    IN  Parse(raw).ok /\ ~org.ok => org.err \notin {"panic", "invalidAccess"}

(***************************************************************************)
(* The sharing compiler's properties, stated in MCBcpSharing.              *)
(***************************************************************************)
\* checkNoNesting and checkNoRealpathNesting accept exactly the exports of
\* which no logical path is a prefix of another and no realpath a proper
\* prefix of another.
NestingChecksMatchReference == Sharing!NestingChecksMatchReference

\* compileRealShares: each realpath once, with the union of the modes the
\* logical shares on it give.
RealShareIsUnion == Sharing!RealShareIsUnion

\* Every grant is reachable through its share tree link, the service links
\* of fsapply and the traversal entries, with at least the granted mode.
GrantReachable == Sharing!GrantReachable

=============================================================================
