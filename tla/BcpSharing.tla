----------------------------- MODULE BcpSharing -----------------------------
(***************************************************************************)
(* The NOE-9 sharing compiler of bcpfs-perms:                              *)
(* cmd/bcpfs-perms/bcpsharing/bcpsharing.go, as pure operators.            *)
(*                                                                         *)
(* As in BcpFilter, a name (org unit, service, facility, path component)   *)
(* is a sequence of name symbols, so that "<fac>-facility" is the name     *)
(* fac \o <<"-facility">>.  A path is a sequence of names: the logical     *)
(* paths of the configuration (strings.Trim(path, "/") split at "/"), and  *)
(* the realpaths relative to the rootdir.  An ACL is a sequence of entries *)
(* [group, mode], a mode the set of the letters of its "rwx" string that   *)
(* are not "-".  A regexp (naming policy, import rule) is abstracted to    *)
(* the set of logical paths it matches.                                    *)
(***************************************************************************)
EXTENDS Sequences, SequencesExt, FiniteSets

CONSTANTS ServiceDir,   \* the name of the service toplevel dir (cfg.ServiceDir)
          OrgUnitDir,   \* the name of the org unit toplevel dir (cfg.OrgUnitDir)
          Facilities,   \* the names of cfg.Facilities
          FacilityOf    \* service name -> facility name, from cfg.Facilities

Shared == <<"shared">>
Up == <<"..">>

(***************************************************************************)
(* Bcpfs: logical paths and groups.                                        *)
(***************************************************************************)
\* NewBcpfs: facilityDirs[fac.Name+"-facility"], whatever cfg.FacilitySuffix.
FacilityDirs == {f \o <<"-facility">> : f \in Facilities}

\* facilityOfServicePath: the second component names a configured service.
IsServicePath(p) == Len(p) >= 2 /\ p[2] \in DOMAIN FacilityOf

FacilityGroupOfServicePath(p) == FacilityOf[p[2]] \o <<"-facility">>

IsServiceRealpath(rp) == rp[1] = ServiceDir

IsFacilityPath(p) == Len(p) >= 1 /\ p[1] \in FacilityDirs

OuGroup(o) == [type |-> "ou", name |-> o]
OpsGroup(f) == [type |-> "ops", name |-> f]

\* ManagingGroupsOfPath: the ou, and for a service path the facility's ops
\* group; `<fac>/<srv>/<ou>` names the ou third.
ManagingGroupsOfPath(p) ==
    CASE ~IsServicePath(p) -> [ok |-> TRUE, groups |-> {OuGroup(p[1])}]
      [] IsFacilityPath(p) /\ Len(p) < 3 -> [ok |-> FALSE, groups |-> {}]
      [] OTHER ->
            [ok |-> TRUE,
             groups |-> {OuGroup(IF IsFacilityPath(p) THEN p[3] ELSE p[1]),
                         OpsGroup(FacilityOf[p[2]])}]

\* Realpath: `<ou>/...` -> `<orgdir>/<ou>/...`;
\* `<fac>-facility/<srv>/...` -> `<srvdir>/<srv>/...`;
\* `<ou>/<srv>/...` -> `<srvdir>/<srv>/<ou>/...`.
Realpath(p) ==
    CASE ~IsServicePath(p) -> <<OrgUnitDir>> \o p
      [] IsFacilityPath(p) -> <<ServiceDir>> \o Tail(p)
      [] OTHER -> <<ServiceDir, p[2], p[1]>> \o SubSeq(p, 3, Len(p))

(***************************************************************************)
(* ACLs.                                                                   *)
(***************************************************************************)
AclGroups(acl) == {acl[i].group : i \in DOMAIN acl}

\* Defect variant of Acl.Union: b's mode replaces a's.
MergeAceReplace(u, ace) ==
    LET i == SelectLastInSeq(u, LAMBDA a : a.group = ace.group)
    IN  IF i = 0 THEN Append(u, ace) ELSE [u EXCEPT ![i].mode = ace.mode]

\* Acl.Union: copy a; merge each entry of b into the entry that uByGroup
\* records for its group (the last one), or append it.  UnionMode ORs the
\* r, w and x bits.
MergeAce(u, ace) ==
    LET i == SelectLastInSeq(u, LAMBDA a : a.group = ace.group)
    IN  IF i = 0 THEN Append(u, ace)
        ELSE [u EXCEPT ![i].mode = @ \cup ace.mode]

AclUnion(a, b) == FoldLeft(MergeAce, a, b)

(***************************************************************************)
(* Compile: checks.                                                        *)
(***************************************************************************)
\* checkExportPath: the first naming rule that matches decides; default deny.
ExportPathAllowed(pol, p) ==
    LET i == SelectInSeq(pol, LAMBDA r : p \in r.paths)
    IN  i # 0 /\ pol[i].action = "allow"

\* checkExportEntryAclScopes: no ACL entry for the path's own ou, nor for
\* the facility that owns the service of a service path.
AclScopesOk(e) ==
    /\ e.path[1] \notin AclGroups(e.acl)
    /\ IsServicePath(e.path) => FacilityGroupOfServicePath(e.path) \notin AclGroups(e.acl)

\* checkNoNesting and checkNoRealpathNesting: a tree of "leaf" and "inner"
\* nodes.  The prefixes of p are marked longest first, and the walk stops
\* at the first one already marked inner.
\*
\* Defect variant: a leaf met among the prefixes is not an error.
RECURSIVE MarkPrefixesNoSuffixCheck(_, _, _)
MarkPrefixesNoSuffixCheck(tree, p, i) ==
    IF i = 0 THEN [err |-> "none", tree |-> tree]
    ELSE LET q == SubSeq(p, 1, i) IN
         IF q \in DOMAIN tree
         THEN [err |-> "none", tree |-> tree]
         ELSE MarkPrefixesNoSuffixCheck((q :> "inner") @@ tree, p, i - 1)

RECURSIVE MarkPrefixes(_, _, _)
MarkPrefixes(tree, p, i) ==
    IF i = 0 THEN [err |-> "none", tree |-> tree]
    ELSE LET q == SubSeq(p, 1, i) IN
         IF q \in DOMAIN tree /\ tree[q] = "leaf"
         THEN [err |-> "nestedSuffix", tree |-> tree]
         ELSE IF q \in DOMAIN tree
         THEN [err |-> "none", tree |-> tree]
         ELSE MarkPrefixes((q :> "inner") @@ tree, p, i - 1)

\* checkPath: dupOk is TRUE for realpaths ("Duplicate realpath is allowed").
CheckPath(st, p, dupOk) ==
    IF st.err # "none" THEN st
    ELSE IF p \in DOMAIN st.tree /\ st.tree[p] = "leaf"
    THEN IF dupOk THEN st ELSE [st EXCEPT !.err = "duplicate"]
    ELSE IF p \in DOMAIN st.tree THEN [st EXCEPT !.err = "nestedPrefix"]
    ELSE MarkPrefixes((p :> "leaf") @@ st.tree, p, Len(p) - 1)

EmptyTree == [err |-> "none", tree |-> <<>>]

CheckNoNesting(exps) ==
    FoldLeft(LAMBDA st, e : CheckPath(st, e.path, FALSE), EmptyTree, exps).err

CheckNoRealpathNesting(exps) ==
    FoldLeft(LAMBDA st, e : CheckPath(st, Realpath(e.path), TRUE), EmptyTree, exps).err

(***************************************************************************)
(* Compile: the sharing specification.                                     *)
(***************************************************************************)
\* ImportFilter.FilterPathAce: the first rule for the entry's group whose
\* match accepts the logical path decides; default reject.
FilterPathAce(imps, p, ace) ==
    LET i == SelectInSeq(imps, LAMBDA r : r.group = ace.group /\ p \in r.paths)
    IN  IF i = 0 THEN "reject" ELSE imps[i].action

ImportedAcl(imps, e) ==
    SelectSeq(e.acl, LAMBDA a : FilterPathAce(imps, e.path, a) = "accept")

\* selectImportedExports: an export with an empty ACL is kept as an
\* unexport; an export whose entries are all rejected is dropped.
SelectImportedExports(exps, imps) ==
    LET kept == SelectSeq(exps, LAMBDA e : e.acl = <<>> \/ ImportedAcl(imps, e) # <<>>)
    IN  [i \in 1..Len(kept) |-> [kept[i] EXCEPT !.acl = ImportedAcl(imps, kept[i])]]

\* compileRealShares: logical shares with the same realpath become one real
\* share with the union of their ACLs and the managing groups of the first.
AddRealShare(reals, shr) ==
    LET rp == Realpath(shr.path)
        i == SelectInSeq(reals, LAMBDA r : r.path = rp)
    IN  IF i = 0
        THEN Append(reals, [path |-> rp, acl |-> shr.acl, managing |-> shr.managing])
        ELSE [reals EXCEPT ![i].acl = AclUnion(@, shr.acl)]

CompileRealShares(shares) == FoldLeft(AddRealShare, <<>>, shares)

\* compileTraversal: `--x` for the grantees of a real share on its ancestors
\* from depth 2, from depth 3 below the service dir; and on
\* `<orgdir>/<ou>` of every logical share.  The result is the set of
\* [path, group] entries, which is what EnsureTraversal reads of it.
TraversalBegin(rp) == IF IsServiceRealpath(rp) THEN 3 ELSE 2

CompileTraversal(shares, reals) ==
    UNION {{[path |-> SubSeq(r.path, 1, i), group |-> g] :
                i \in TraversalBegin(r.path)..Len(r.path) - 1, g \in AclGroups(r.acl)} :
           r \in Range(reals)}
    \cup UNION {{[path |-> <<OrgUnitDir, s.path[1]>>, group |-> g] : g \in AclGroups(s.acl)} :
                s \in Range(shares)}

\* Defect variant of addLink: one "../" too few.
LinkTargetShort(parts) == [i \in 1..Len(parts) |-> Up] \o parts

\* compileShareTrees, addLink: "../" once per component and once more,
\* then the logical path.
LinkTarget(parts) == [i \in 1..Len(parts) + 1 |-> Up] \o parts

\* addShare: directories for the proper prefixes, a symlink for the path.
ShareFiles(ou, parts) ==
    {[ou |-> ou, path |-> <<OrgUnitDir, ou, Shared>> \o SubSeq(parts, 1, i), target |-> <<>>] :
        i \in 1..Len(parts) - 1}
    \cup {[ou |-> ou, path |-> <<OrgUnitDir, ou, Shared>> \o parts, target |-> LinkTarget(parts)]}

\* compileShareTrees: every share in the tree of its own ou and in the
\* trees of its grantees; a file is [ou, path, target], target <<>> for a
\* directory.
CompileShareTrees(shares) ==
    UNION {ShareFiles(s.path[1], s.path)
           \cup UNION {ShareFiles(g, s.path) : g \in AclGroups(s.acl)} : s \in Range(shares)}

\* Compile with cfg = [exports: Seq([path, acl]), imports, naming]: the
\* first failing check names the error.
CompiledExports(cfg) ==
    [i \in 1..Len(cfg.exports) |->
        [path |-> cfg.exports[i].path, acl |-> cfg.exports[i].acl,
         managing |-> ManagingGroupsOfPath(cfg.exports[i].path).groups]]

CompileError(cfg) ==
    LET exps == CompiledExports(cfg) IN
    CASE \E i \in DOMAIN exps : ~ManagingGroupsOfPath(exps[i].path).ok -> "exports"
      [] \E i \in DOMAIN exps : ~ExportPathAllowed(cfg.naming, exps[i].path) -> "naming"
      [] \E i \in DOMAIN exps : ~AclScopesOk(exps[i]) -> "scope"
      [] CheckNoNesting(exps) # "none" -> "nesting"
      [] CheckNoRealpathNesting(exps) # "none" -> "realpathNesting"
      [] OTHER -> "none"

Compile(cfg) ==
    LET shares == SelectImportedExports(CompiledExports(cfg), cfg.imports)
        reals == CompileRealShares(shares)
    IN  [err |-> CompileError(cfg), shares |-> shares, realShares |-> reals,
         traversal |-> CompileTraversal(shares, reals),
         shareTrees |-> CompileShareTrees(shares)]

=============================================================================
