------------------------------- MODULE BcpOrg -------------------------------
(***************************************************************************)
(* The group resolver and the organization builder of bcpfs-perms:         *)
(* SelectGroups and DedupGroups (cmd/bcpfs-perms/grp/grp.go), the defaults *)
(* of MustLoadConfig and the pipeline of MustLoadGroups (main.go), and     *)
(* bcp.New with its parse functions (bcp/bcp.go, bcp/groups.go).          *)
(*                                                                         *)
(* A group is a record [name, gid].  A group name is a sequence of name    *)
(* symbols, so that strings.HasPrefix, HasSuffix and slicing are modelled  *)
(* by what they do: "org_em-facility" is <<"org_", "em", "-facility">>.    *)
(* The symbols "org_" and "-facility" are built from the configuration     *)
(* words as the code's fmt.Sprintf("%s_") and ("-%s") build them.          *)
(*                                                                         *)
(* A configuration is a record: the words ouPrefix, srvPrefix, opsSuffix,  *)
(* facilitySuffix, superGroup (a group name, <<>> when empty), facilities  *)
(* (a sequence of [name, services, access]) and orgUnits (a sequence of    *)
(* [name, subdirs, extraDirs]).  The builder's lists are sets here: the    *)
(* code sorts the groups by name and nothing downstream depends on order.  *)
(* An error is a record [ok |-> FALSE, err |-> kind]; its message is not   *)
(* modelled.                                                               *)
(***************************************************************************)
EXTENDS Naturals, Sequences, SequencesExt, FiniteSets

\* fmt.Sprintf("%s_", prefix) and fmt.Sprintf("-%s", suffix)
Pfx(word) == <<word \o "_">>
Sfx(word) == "-" \o word

\* strings.HasPrefix(name, pfx) for a one-symbol prefix, and HasSuffix.
HasPrefix(name, pfx) == IsPrefix(pfx, name)
HasSuffix(name, suf) == Len(name) > 0 /\ Last(name) = suf

NoGroup == [name |-> <<>>, gid |-> 0]
Fail(kind) == [ok |-> FALSE, err |-> kind]

\* MustLoadConfig: an empty opsSuffix or facilitySuffix gets its default.
\* Its logger.Fatal on an empty prefix or dir is left out: every
\* configuration of the models sets both prefixes and both dirs.
MustLoadConfig(cfg) ==
    [cfg EXCEPT !.opsSuffix = IF @ = "" THEN "ops" ELSE @,
                !.facilitySuffix = IF @ = "" THEN "facility" ELSE @]

(***************************************************************************)
(* grp.go: the group resolver.                                             *)
(***************************************************************************)

\* SelectGroups: the groups, in order, whose name equals one of `equals`
\* or begins with one of `prefixes`.
SelectGroups(groups, prefixes, equals) ==
    SelectSeq(groups, LAMBDA g : g.name \in Range(equals)
                                 \/ \E p \in Range(prefixes) : HasPrefix(g.name, p))

\* Defect variant: only the name is looked up.
IsDuplicateByNameOnly(g, res) ==
    LET byName == {k \in Range(res) : k.name = g.name}
    IN  IF byName = {} THEN "new"
        ELSE IF g \in byName THEN "dup" ELSE "conflict"

\* DedupGroups.isDuplicate, against the kept groups `res` (byName and byGid
\* hold exactly them): a seen name is checked first, then a seen gid; a
\* seen group that is not identical is a conflict.
IsDuplicate(g, res) ==
    LET byName == {k \in Range(res) : k.name = g.name}
        byGid == {k \in Range(res) : k.gid = g.gid}
    IN  CASE byName # {} -> IF g \in byName THEN "dup" ELSE "conflict"
          [] byGid # {} -> IF g \in byGid THEN "dup" ELSE "conflict"
          [] OTHER -> "new"

\* DedupGroups: keep the first of identical groups, stop at a conflict.
RECURSIVE DedupFrom(_, _)
DedupFrom(gs, res) ==
    IF gs = <<>> THEN [ok |-> TRUE, groups |-> res]
    ELSE CASE IsDuplicate(Head(gs), res) = "conflict" -> Fail("conflict")
           [] IsDuplicate(Head(gs), res) = "dup" -> DedupFrom(Tail(gs), res)
           [] OTHER -> DedupFrom(Tail(gs), Append(res, Head(gs)))

DedupGroups(gs) == DedupFrom(gs, <<>>)

(***************************************************************************)
(* bcp/groups.go: the GroupMap over the selected groups.                   *)
(***************************************************************************)

\* GetByName: the group of that name, or none.
GetByName(gs, name) == {g \in Range(gs) : g.name = name}

FindOrgUnitGroup(gs, cfg, ou) == GetByName(gs, Pfx(cfg.ouPrefix) \o ou)
FindServiceGroup(gs, cfg, s) == GetByName(gs, Pfx(cfg.srvPrefix) \o s)
FindServiceOpsGroup(gs, cfg, fac) ==
    GetByName(gs, Pfx(cfg.srvPrefix) \o fac \o <<Sfx(cfg.opsSuffix)>>)

TheGroup(found) == CHOOSE g \in found : TRUE

(***************************************************************************)
(* bcp/bcp.go: parseGroupNames.                                            *)
(***************************************************************************)

\* `org_<x>` -> `<x>`
parseOrgUnitNames(gs, cfg) ==
    {Tail(g.name) : g \in {g \in Range(gs) : HasPrefix(g.name, Pfx(cfg.ouPrefix))}}

\* `srv_<x>` -> `<x>` unless it ends with `-<opsSuffix>`
parseServiceNames(gs, cfg) ==
    {Tail(g.name) : g \in {g \in Range(gs) : HasPrefix(g.name, Pfx(cfg.srvPrefix))
                                             /\ ~HasSuffix(g.name, Sfx(cfg.opsSuffix))}}

\* `org_<x>-<facilitySuffix>` -> `<x>`
parseFacilityNames(gs, cfg) ==
    {Front(n) : n \in {n \in parseOrgUnitNames(gs, cfg) :
                           HasSuffix(n, Sfx(cfg.facilitySuffix))}}

(***************************************************************************)
(* bcp/bcp.go: parseOrgUnits.                                              *)
(***************************************************************************)

\* MustDirPolicy: the policy, or a panic for an invalid one.
MustDirPolicy(p) == IF p \in {"owner", "group", "manager"} THEN p ELSE "panic"

\* The dirs of one configured org unit: Subdirs with their policy, then
\* ExtraDirs with policy group; checkName rejects a name used twice.
OuDirs(cou) ==
    [i \in 1..Len(cou.subdirs) |-> [name |-> cou.subdirs[i].name,
                                    policy |-> MustDirPolicy(cou.subdirs[i].policy)]]
        \o [i \in 1..Len(cou.extraDirs) |-> [name |-> cou.extraDirs[i], policy |-> "group"]]

PanicsOnPolicy(cou) == \E i \in DOMAIN OuDirs(cou) : OuDirs(cou)[i].policy = "panic"

HasDuplicateDir(cou) ==
    \E i, j \in DOMAIN OuDirs(cou) : i < j /\ OuDirs(cou)[i].name = OuDirs(cou)[j].name

\* subdirsByOu[o]: the map entry of the last configured org unit named o.
SubdirsByOu(cfg, o) ==
    LET is == {i \in DOMAIN cfg.orgUnits : cfg.orgUnits[i].name = o}
    IN  IF is = {} THEN <<>> ELSE OuDirs(cfg.orgUnits[Max(is)])

parseOrgUnits(gs, cfg) ==
    LET fsuf == Sfx(cfg.facilitySuffix)
        ous == parseOrgUnitNames(gs, cfg)
        \* the configured org units are walked in order; a bad policy panics
        \* inside the walk of one, a duplicate dir fails after it
        bad == {i \in DOMAIN cfg.orgUnits : PanicsOnPolicy(cfg.orgUnits[i])
                                            \/ HasDuplicateDir(cfg.orgUnits[i])}
    IN  CASE bad # {} ->
                 IF PanicsOnPolicy(cfg.orgUnits[Min(bad)]) THEN Fail("panic")
                 ELSE Fail("duplicateDir")
          [] \E o \in ous : FindOrgUnitGroup(gs, cfg, o) = {} ->
                 Fail("missingOrgUnitGroup")
          [] OTHER ->
                 [ok |-> TRUE,
                  orgUnits |->
                    {[name |-> o, subdirs |-> SubdirsByOu(cfg, o),
                      isFacility |-> HasSuffix(o, fsuf),
                      facility |-> IF HasSuffix(o, fsuf) THEN Front(o) ELSE <<>>,
                      group |-> TheGroup(FindOrgUnitGroup(gs, cfg, o))] : o \in ous}]

(***************************************************************************)
(* bcp/bcp.go: parseServices.                                              *)
(***************************************************************************)

\* AccessPolicyFromString: "" is perService; another word is an error.
AccessPolicyFromString(name) ==
    CASE name \in {"perService", ""} -> "perService"
      [] name = "allOrgUnits" -> "allOrgUnits"
      [] OTHER -> "unspecified"

\* Defect variant: the first facility to list a service wins.
FacilityBySrvFirstWins(cfg) ==
    FoldLeft(LAMBDA m, f : m @@ [s \in Range(f.services) |-> [name |-> f.name, access |-> f.access]],
             <<>>, cfg.facilities)

\* facilityBySrv: for each service some configured facility lists, the
\* facility and access of the last one to list it (later writes win).
FacilityBySrv(cfg) ==
    FoldLeft(LAMBDA m, f : [s \in Range(f.services) |-> [name |-> f.name, access |-> f.access]] @@ m,
             <<>>, cfg.facilities)

\* The checks of the loop body for a service s the configuration assigns to
\* a facility, in the code's order; "none" when s is a valid service.
ServiceError(gs, cfg, s, fa) ==
    CASE AccessPolicyFromString(fa.access) = "unspecified" -> "invalidAccess"
      [] AccessPolicyFromString(fa.access) = "allOrgUnits" /\ cfg.superGroup = <<>> ->
             "allOrgUnitsWithoutSuperGroup"
      [] FindServiceGroup(gs, cfg, s) = {} -> "missingServiceGroup"
      [] cfg.superGroup # <<>> /\ GetByName(gs, cfg.superGroup) = {} ->
             "missingSuperGroup"
      [] FindServiceOpsGroup(gs, cfg, fa.name) = {} -> "missingOpsGroup"
      [] OTHER -> "none"

\* Every configured facility needs its facility group; a service group
\* whose service no facility lists is reported as unconfigured; the first
\* failing service stops the loop (which one fails first is not modelled:
\* only that one does).
parseServices(gs, cfg) ==
    LET fbs == FacilityBySrv(cfg)
        names == parseServiceNames(gs, cfg)
        confd == names \cap DOMAIN fbs
        bad == {s \in confd : ServiceError(gs, cfg, s, fbs[s]) # "none"}
        super == IF cfg.superGroup = <<>> THEN NoGroup
                 ELSE TheGroup(GetByName(gs, cfg.superGroup))
    IN  CASE \E i \in DOMAIN cfg.facilities :
                    cfg.facilities[i].name \notin parseFacilityNames(gs, cfg) ->
                 Fail("missingFacilityGroup")
          [] bad # {} ->
                 LET s == CHOOSE s \in bad : TRUE
                 IN  Fail(ServiceError(gs, cfg, s, fbs[s]))
          [] OTHER ->
                 [ok |-> TRUE,
                  unconf |-> names \ DOMAIN fbs,
                  services |->
                    {[name |-> s, facility |-> fbs[s].name,
                      access |-> AccessPolicyFromString(fbs[s].access),
                      group |-> TheGroup(FindServiceGroup(gs, cfg, s)),
                      superGroup |-> super,
                      opsGroup |-> TheGroup(FindServiceOpsGroup(gs, cfg, fbs[s].name))]
                     : s \in confd}]

(***************************************************************************)
(* bcp.New and MustLoadGroups.                                             *)
(***************************************************************************)

\* New: parse the org units, then the services, then the facilities; the
\* first error is returned.
New(gs, cfg) ==
    LET ous == parseOrgUnits(gs, cfg)
        srvs == parseServices(gs, cfg)
    IN  CASE ~ous.ok -> ous
          [] ~srvs.ok -> srvs
          [] OTHER -> [ok |-> TRUE, orgUnits |-> ous.orgUnits,
                       services |-> srvs.services, unconf |-> srvs.unconf,
                       facilities |-> parseFacilityNames(gs, cfg)]

\* MustLoadGroups: select the groups of the org unit and service prefixes
\* and the super group, dedup them, sort them by name and build the
\* Organization; any error is fatal.  cfg has the MustLoadConfig defaults.
MustLoadGroups(table, cfg) ==
    LET sel == SelectGroups(table, <<Pfx(cfg.ouPrefix), Pfx(cfg.srvPrefix)>>,
                            <<cfg.superGroup>>)
        d == DedupGroups(sel)
    IN  IF ~d.ok THEN d ELSE New(d.groups, cfg)

====
