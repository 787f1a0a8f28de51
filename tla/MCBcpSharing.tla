---------------------------- MODULE MCBcpSharing ----------------------------
(***************************************************************************)
(* Checks the sharing compiler of BcpSharing over every sharing            *)
(* configuration of up to MaxExports exports on a small organization:      *)
(* facilities em (service mic1) and lm (service lm1), org units alice and  *)
(* bob and the facility org units.  The inputs are chosen in Init and      *)
(* never change: each state is one configuration put to Compile.           *)
(*                                                                         *)
(* The compiled sharing is read against the org unit tree of BcpfsApply:   *)
(* a link of a share tree resolves through `<orgdir>/<ou>/<srv>`, the      *)
(* service links that EnsureOrgUnitServiceLinks makes for the pairs the    *)
(* acceptance filter of BcpFilter accepts.                                 *)
(***************************************************************************)
EXTENDS BcpSharing, MCSharingNames, FiniteSets

CONSTANTS ExportPaths,   \* the logical paths an export may name
          FilterRules,   \* the configured acceptance filter (cfg.Filter)
          MaxExports     \* bound on the length of cfg.Sharing.Exports

Filter == INSTANCE BcpFilter WITH FacilitySuffix <- "-facility"

Services == DOMAIN FacilityOf

VARIABLES exports, imports, naming

vars == <<exports, imports, naming>>

Init ==
    /\ exports \in BoundedSeq([path : ExportPaths, acl : Acls], MaxExports)
    /\ imports \in ImportFilters
    /\ naming \in NamingPolicies

Next == UNCHANGED vars

Spec == Init /\ [][Next]_vars

SharingCfg == [exports |-> exports, imports |-> imports, naming |-> naming]

(***************************************************************************)
(* The org unit tree, from fsapply.                                        *)
(***************************************************************************)
\* ensureOUSLn: the link `<orgdir>/<ou>/<srv>` of an accepted pair points
\* to `<srvdir>/<srv>` if the ou is the facility of the service, else to
\* `<srvdir>/<srv>/<ou>`.
OrgLinkDest(ou, srv) ==
    IF Filter!IsFacility(ou) /\ FacilityOf[srv] = Filter!OuFacility(ou)
    THEN <<ServiceDir, srv>>
    ELSE <<ServiceDir, srv, ou>>

\* Where `<orgdir>/<p>` leads: through the service link `<ou>/<srv>` when
\* the filter accepts the pair, else to the plain directory.
OrgView(p) ==
    IF /\ Len(p) >= 2 /\ p[2] \in Services
       /\ Filter!Accept(FilterRules, [name |-> p[2], facility |-> FacilityOf[p[2]]], p[1])
    THEN OrgLinkDest(p[1], p[2]) \o SubSeq(p, 3, Len(p))
    ELSE <<OrgUnitDir>> \o p

\* A relative symlink target resolved against the link's directory.
RECURSIVE Resolve(_, _)
Resolve(dir, t) ==
    IF t = <<>> THEN dir
    ELSE Resolve(IF Head(t) = Up THEN Front(dir) ELSE Append(dir, Head(t)), Tail(t))

\* The mode an ACL gives a group: the entries of the group together.
EffMode(acl, g) == UNION {acl[i].mode : i \in {j \in DOMAIN acl : acl[j].group = g}}

(***************************************************************************)
(* Properties.                                                             *)
(***************************************************************************)
\* checkNoNesting and checkNoRealpathNesting, whose walks stop at the first
\* prefix already marked, accept exactly the exports of which no logical
\* path is a prefix of another or equal to it, and no realpath a proper
\* prefix of another (spec 4.5 steps 5 and 6).
NestingChecksMatchReference ==
    LET exps == CompiledExports(SharingCfg)
        ps == [i \in DOMAIN exps |-> exps[i].path]
    IN  /\ (CheckNoNesting(exps) = "none")
               <=> \A i, j \in DOMAIN ps : i # j => ~IsPrefix(ps[i], ps[j])
        /\ (CheckNoRealpathNesting(exps) = "none")
               <=> \A i, j \in DOMAIN ps : ~IsStrictPrefix(Realpath(ps[i]), Realpath(ps[j]))

\* compileRealShares: the real shares are the realpaths of the selected
\* shares, each once, and a group's mode on a real share is the union of
\* its modes on the logical shares with that realpath, no more and no less
\* (spec 8 invariant 5, scenario S5).
RealShareIsUnion ==
    LET sh == Compile(SharingCfg) IN
    sh.err = "none" =>
        /\ Len(sh.realShares) = Cardinality({r.path : r \in Range(sh.realShares)})
        /\ {r.path : r \in Range(sh.realShares)} = {Realpath(s.path) : s \in Range(sh.shares)}
        /\ \A r \in Range(sh.realShares), g \in OrgUnits :
               EffMode(r.acl, g) =
                   UNION {EffMode(s.acl, g) : s \in {t \in Range(sh.shares) : Realpath(t.path) = r.path}}

\* A grant is usable: for every selected share and grantee, the grantee's
\* share tree has a symlink at `<orgdir>/<g>/shared/<path>` that, resolved
\* relative to its directory and through the org unit's service link,
\* reaches a real share that gives the grantee at least the share's mode,
\* with `--x` for the grantee on the ancestors that compileTraversal
\* covers and on `<orgdir>/<ou>`.  This ties compileShareTrees and
\* compileTraversal to Realpath and to the links of fsapply.
GrantReachable ==
    LET sh == Compile(SharingCfg) IN
    sh.err = "none" =>
        \A s \in Range(sh.shares) : \A g \in AclGroups(s.acl) :
            LET link == <<OrgUnitDir, g, Shared>> \o s.path
            IN  \E f \in sh.shareTrees :
                    /\ f.ou = g /\ f.path = link /\ f.target # <<>>
                    /\ LET dest == OrgView(Tail(Resolve(Front(link), f.target)))
                       IN  /\ \E r \in Range(sh.realShares) :
                                  r.path = dest /\ EffMode(s.acl, g) \subseteq EffMode(r.acl, g)
                           /\ \A i \in TraversalBegin(dest)..Len(dest) - 1 :
                                  [path |-> SubSeq(dest, 1, i), group |-> g] \in sh.traversal
                           /\ [path |-> <<OrgUnitDir, s.path[1]>>, group |-> g] \in sh.traversal

=============================================================================
