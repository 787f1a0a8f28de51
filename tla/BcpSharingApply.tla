-------------------------- MODULE BcpSharingApply --------------------------
(***************************************************************************)
(* `bcpfs-perms apply --sharing`, the sharing part: cmdApply compiles the  *)
(* sharing (BcpSharing) and runs EnsureRealShares, EnsureTraversal and     *)
(* EnsureShareTrees of cmd/bcpfs-perms/bcpsharingapply; the first error    *)
(* is fatal.                                                               *)
(*                                                                         *)
(* State: the named group entries of the directories the sharing touches,  *)
(* normal (acl) and default (dacl), as functions from filesystem group to  *)
(* mode; which of the user directories that are real shares exist; and     *)
(* the files below `<orgdir>/<ou>/shared`.  A directory stands for the     *)
(* tree below it that the recursive `find | xargs setfacl` scripts treat   *)
(* alike.  The core entries (the ou and the ops group) are those that      *)
(* bcpfs-perms sets on `<srvdir>/<srv>/<ou>` and `<orgdir>/<ou>` and that  *)
(* a new subdirectory inherits from their default ACL.                     *)
(*                                                                         *)
(* A run is a plan of steps, one per script, os.Remove, os.Mkdir or        *)
(* os.Symlink; a snapshot step (getfacl, filepath.Walk) replaces itself by *)
(* the steps that the code derives from what it read.                      *)
(***************************************************************************)
EXTENDS BcpSharing, Integers, FiniteSets, Functions

CONSTANTS Configs,     \* the sharing configurations the operator deploys
          OpsSuffix,   \* cfg.OpsSuffix: ops groups are <srvprefix>_<fac>-<suffix>
          MaxRuns,     \* bound on the apply runs
          MaxFaults    \* bound on the failing scripts or crashes

RX == {"r", "x"}
RWX == {"r", "w", "x"}
NoAcl == [g \in {} |-> {}]

Compiled == {Compile(c) : c \in Configs}

\* Filesystem groups.  FsGroupOrgUnit is `<ouprefix>_<ou>`; the core ops
\* group is `<srvprefix>_<fac>-<OpsSuffix>`.
FsGroupOrgUnit(ou) == <<"ou", ou>>
CoreOpsGroup(fac) == <<"ops", fac, OpsSuffix>>

\* Bcpfs.FsGroups: the ops group is `<srvprefix>_<fac>-ops`, whatever the
\* configured suffix.
FsGroup(g) == IF g.type = "ou" THEN FsGroupOrgUnit(g.name) ELSE <<"ops", g.name, "ops">>
FsGroups(gs) == {FsGroup(g) : g \in gs}

\* Defect variant: the logical group names are used unmapped.
AsFaclLogicalNames(acl) == FoldLeft(LAMBDA f, a : (a.group :> a.mode) @@ f, NoAcl, acl)

\* Acl.AsFacl with setfacl -m semantics: a later entry for a group
\* replaces an earlier one.
AsFacl(acl) == FoldLeft(LAMBDA f, a : (FsGroupOrgUnit(a.group) :> a.mode) @@ f, NoAcl, acl)

RealPaths == UNION {{r.path : r \in Range(s.realShares)} : s \in Compiled}
TraversalPaths == UNION {{t.path : t \in s.traversal} : s \in Compiled}
AclPaths == RealPaths \cup TraversalPaths
TreeOrgUnits == UNION {{f.ou : f \in s.shareTrees} : s \in Compiled}

\* `<srvdir>/<srv>/<ou>` and `<orgdir>/<ou>` are made by bcpfs-perms; a
\* real share below them is a directory of the users.
IsCoreDir(p) == IF IsServiceRealpath(p) THEN Len(p) <= 3 ELSE Len(p) <= 2
UserDirs == {p \in RealPaths : ~IsCoreDir(p)}

\* The named entries bcpfs-perms gives `<srvdir>/<srv>/<ou>` (ou and ops
\* rwx) and `<orgdir>/<ou>` (the ou), normal and default, so that a
\* directory below them starts with the same.
CoreAcl(p) ==
    IF IsServiceRealpath(p)
    THEN (FsGroupOrgUnit(p[3]) :> RWX) @@ (CoreOpsGroup(FacilityOf[p[2]]) :> RWX)
    ELSE FsGroupOrgUnit(p[2]) :> RX

\* The mask, normal and default, that bcpfs-perms sets: `mask::rwx` on
\* `<srvdir>/<srv>/<ou>` (ensureSOUSh), `mask::r-x` on `<orgdir>/<ou>`
\* (ensureOrgUnitSh); a directory below them inherits it.  The sharing
\* scripts use `setfacl -n`, which never recalculates it.
CoreMask(p) == IF IsServiceRealpath(p) THEN RWX ELSE RX

VARIABLES acl,        \* path -> named group normal entries
          dacl,       \* path -> named group default entries
          exists,     \* the user directories that exist
          tree,       \* ou -> files below <orgdir>/<ou>/shared: [ou, path, target]
          cfg,        \* the deployed sharing configuration
          sh,         \* Compile(cfg) of the current run
          plan,       \* the remaining steps of the current run
          running,    \* a run is in progress
          lastOk,     \* the last run returned without error
          disturbed,  \* a user created or removed a share dir during the run
          failed,     \* a step of the run failed for a reason other than a fault
          runs, faults

vars == <<acl, dacl, exists, tree, cfg, sh, plan, running, lastOk, disturbed,
          failed, runs, faults>>

Exists(p) == IsCoreDir(p) \/ p \in exists

(***************************************************************************)
(* getfaclDirPaths runs plain `getfacl`, which follows an entry whose mode *)
(* the mask restricts with `\t#effective:<mode>`; parseGetfaclAceLine     *)
(* rejects such a line (`[r-][w-][x-]$`), and ParseGetfaclText fails.      *)
(***************************************************************************)
\* getfacl prints an effective-rights comment on a line of p.
EffectiveComment(p) ==
    \/ \E g \in DOMAIN acl[p] : ~(acl[p][g] \subseteq CoreMask(p))
    \/ \E g \in DOMAIN dacl[p] : ~(dacl[p][g] \subseteq CoreMask(p))

\* ParseGetfaclText of the getfacl output for the existing directories of
\* paths parses.
ParseGetfaclText(paths) == \A p \in paths : Exists(p) => ~EffectiveComment(p)

(***************************************************************************)
(* EnsureRealShares: one getfacl of the existing real shares, then per     *)
(* share ensureFacl.                                                       *)
(***************************************************************************)
\* faclNeedModify: a desired normal or default entry string is missing.
NeedModify(actual, dactual, desired) ==
    \E g \in DOMAIN desired :
        \/ g \notin DOMAIN actual \/ actual[g] # desired[g]
        \/ g \notin DOMAIN dactual \/ dactual[g] # desired[g]

\* Defect variant: the managing groups are not spared.
GroupsToRemoveIgnoringManaging(actual, dactual, desired, additional) ==
    (DOMAIN actual \cup DOMAIN dactual) \ DOMAIN desired

\* faclGroupsToRemove: the actual named groups, normal or default, minus
\* the desired groups minus the managing groups (FsGroups).
GroupsToRemove(actual, dactual, desired, additional) ==
    ((DOMAIN actual \cup DOMAIN dactual) \ DOMAIN desired) \ additional

\* Defect variant: the removal is skipped when a modify was needed.
EnsureFaclStepsModifyOrRemove(rs) ==
    LET p == rs.path
        desired == AsFacl(rs.acl)
        rm == GroupsToRemove(acl[p], dacl[p], desired, FsGroups(rs.managing))
    IN  IF NeedModify(acl[p], dacl[p], desired)
        THEN <<[kind |-> "modify", path |-> p, facl |-> desired]>>
        ELSE IF rm # {} THEN <<[kind |-> "remove", path |-> p, groups |-> rm]>> ELSE <<>>

\* ensureFacl: setfaclDirSubdirModify if needed, then
\* setfaclDirSubdirRemove if there is something to remove.
EnsureFaclSteps(rs) ==
    LET p == rs.path
        desired == AsFacl(rs.acl)
        rm == GroupsToRemove(acl[p], dacl[p], desired, FsGroups(rs.managing))
    IN  (IF NeedModify(acl[p], dacl[p], desired)
         THEN <<[kind |-> "modify", path |-> p, facl |-> desired]>> ELSE <<>>)
        \o (IF rm # {} THEN <<[kind |-> "remove", path |-> p, groups |-> rm]>> ELSE <<>>)

\* EnsureRealShares after getfaclDirPaths: shares that do not exist are
\* skipped (and none existing is the early return).
RealShareSteps ==
    FoldLeft(LAMBDA st, rs : st \o (IF Exists(rs.path) THEN EnsureFaclSteps(rs) ELSE <<>>),
             <<>>, sh.realShares)

(***************************************************************************)
(* EnsureTraversal: one getfacl of the traversal paths, then one           *)
(* `xargs setfacl -nm group:<g>:--x` per group, in the iteration order of  *)
(* the map pathsByGroup, which Go leaves unspecified.                      *)
(***************************************************************************)
\* A path needs the group unless its normal entries contain exactly
\* `group:<g>:--x`.
TraversalPathsOf(g) ==
    {t.path : t \in {u \in sh.traversal :
        /\ FsGroupOrgUnit(u.group) = g /\ Exists(u.path)
        /\ ~(g \in DOMAIN acl[u.path] /\ acl[u.path][g] = {"x"})}}

TraversalGroups == {g \in {FsGroupOrgUnit(t.group) : t \in sh.traversal} : TraversalPathsOf(g) # {}}

TraversalStepOrders ==
    {[i \in DOMAIN ord |-> [kind |-> "traverse", group |-> ord[i], paths |-> TraversalPathsOf(ord[i])]] :
        ord \in SetToSeqs(TraversalGroups)}

(***************************************************************************)
(* EnsureShareTrees: per tree, filepath.Walk, then os.Remove of the        *)
(* unexpected files in reverse sorted order, then os.Mkdir and os.Symlink  *)
(* of the missing ones in sorted order.  Of the string order the model     *)
(* keeps what it implies, a path sorts after its proper prefixes, and      *)
(* sorts by depth.                                                         *)
(***************************************************************************)
ExpectedFiles(ou) == {f \in sh.shareTrees : f.ou = ou}

\* Walk: a file is unexpected unless a file of the tree has its path, its
\* type and its target; those are "existing" and the rest are created.
Unexpected(ou) == tree[ou] \ ExpectedFiles(ou)
Missing(ou) == ExpectedFiles(ou) \ tree[ou]

\* The files of fs ordered by depth, the deepest first if deeperFirst.
RECURSIVE SortFiles(_, _)
SortFiles(fs, deeperFirst) ==
    IF fs = {} THEN <<>>
    ELSE LET Key(x) == IF deeperFirst THEN -Len(x.path) ELSE Len(x.path)
             f == CHOOSE x \in fs : \A y \in fs : Key(x) <= Key(y)
         IN  <<f>> \o SortFiles(fs \ {f}, deeperFirst)

\* Defect variant: plain sorted order for the removals.
RmOrderAscending(fs) == SortFiles(fs, FALSE)

\* sort.Reverse(sort.StringSlice(rm)): deeper paths first.
RmOrder(fs) == SortFiles(fs, TRUE)

\* tree.Files, sorted by path in compileShareTrees: parents first.
CreateOrder(fs) == SortFiles(fs, FALSE)

TreeSteps(ou) ==
    LET r == RmOrder(Unexpected(ou))
        c == CreateOrder(Missing(ou))
    IN  [i \in DOMAIN r |-> [kind |-> "rm", ou |-> ou, file |-> r[i]]]
        \o [i \in DOMAIN c |-> [kind |-> "create", ou |-> ou, file |-> c[i]]]

\* The parent of a file below `<orgdir>/<ou>/shared`, and whether it is
\* there: the shared dir itself exists (it is an ou subdir of the core).
ParentThere(ou, f) ==
    Len(f.path) = 4 \/ \E d \in tree[ou] : d.path = Front(f.path) /\ d.target = <<>>

(***************************************************************************)
(* Actions.                                                                *)
(***************************************************************************)
Init ==
    /\ acl = [p \in AclPaths |-> CoreAcl(p)]
    /\ dacl = [p \in AclPaths |-> CoreAcl(p)]
    /\ exists = UserDirs
    /\ tree = [ou \in TreeOrgUnits |-> {}]
    /\ cfg \in Configs
    /\ sh = Compile(cfg)
    /\ plan = <<>>
    /\ running = FALSE
    /\ lastOk = FALSE
    /\ disturbed = FALSE
    /\ failed = FALSE
    /\ runs = 0
    /\ faults = 0

\* cmdApply --sharing: Compile, then EnsureRealShares, EnsureTraversal and
\* EnsureShareTrees (one ensureShareTree per ou, sorted by ou).
StartRun ==
    /\ ~running /\ runs < MaxRuns
    /\ LET c == Compile(cfg) IN
       /\ sh' = c
       /\ plan' = <<[kind |-> "getfaclReal"], [kind |-> "getfaclTraversal"]>>
                  \o [i \in 1..Cardinality({f.ou : f \in c.shareTrees}) |->
                        [kind |-> "walk", ou |-> SetToSeq({f.ou : f \in c.shareTrees})[i]]]
    /\ running' = TRUE /\ disturbed' = FALSE /\ failed' = FALSE
    /\ runs' = runs + 1
    /\ UNCHANGED <<acl, dacl, exists, tree, cfg, lastOk, faults>>

Step == Head(plan)

\* The run ends with the error of a step (logger.Fatal).
FailRun ==
    /\ failed' = TRUE /\ running' = FALSE /\ lastOk' = FALSE /\ plan' = <<>>

\* getfaclDirPaths of the real shares, then ensureFacl's scripts.
GetfaclReal ==
    /\ running /\ plan # <<>> /\ Step.kind = "getfaclReal"
    /\ IF ParseGetfaclText({r.path : r \in Range(sh.realShares)})
       THEN plan' = RealShareSteps \o Tail(plan) /\ UNCHANGED <<running, lastOk, failed>>
       ELSE FailRun
    /\ UNCHANGED <<acl, dacl, exists, tree, cfg, sh, disturbed, runs, faults>>

\* setfaclDirSubdirModify: `find -type d | xargs setfacl -nm <ace>,default:<ace>`;
\* find fails on a directory that is gone.
Modify ==
    /\ running /\ plan # <<>> /\ Step.kind = "modify"
    /\ IF Exists(Step.path)
       THEN /\ acl' = [acl EXCEPT ![Step.path] = Step.facl @@ @]
            /\ dacl' = [dacl EXCEPT ![Step.path] = Step.facl @@ @]
            /\ plan' = Tail(plan)
            /\ UNCHANGED <<running, lastOk, failed>>
       ELSE FailRun /\ UNCHANGED <<acl, dacl>>
    /\ UNCHANGED <<exists, tree, cfg, sh, disturbed, runs, faults>>

\* setfaclDirSubdirRemove: `setfacl -nx group:<g>,default:group:<g>`.
RemoveGroups ==
    /\ running /\ plan # <<>> /\ Step.kind = "remove"
    /\ IF Exists(Step.path)
       THEN /\ acl' = [acl EXCEPT ![Step.path] = Restrict(@, DOMAIN @ \ Step.groups)]
            /\ dacl' = [dacl EXCEPT ![Step.path] = Restrict(@, DOMAIN @ \ Step.groups)]
            /\ plan' = Tail(plan)
            /\ UNCHANGED <<running, lastOk, failed>>
       ELSE FailRun /\ UNCHANGED <<acl, dacl>>
    /\ UNCHANGED <<exists, tree, cfg, sh, disturbed, runs, faults>>

\* getfaclDirPaths of the traversal paths, then the per-group scripts.
GetfaclTraversal ==
    /\ running /\ plan # <<>> /\ Step.kind = "getfaclTraversal"
    /\ IF ParseGetfaclText({t.path : t \in sh.traversal})
       THEN /\ \E ord \in TraversalStepOrders : plan' = ord \o Tail(plan)
            /\ UNCHANGED <<running, lastOk, failed>>
       ELSE FailRun
    /\ UNCHANGED <<acl, dacl, exists, tree, cfg, sh, disturbed, runs, faults>>

\* setfaclDirPathsTraversal: `xargs setfacl -nm group:<g>:--x` on the
\* paths, which replaces the mode of an entry the group has.
Traverse ==
    /\ running /\ plan # <<>> /\ Step.kind = "traverse"
    /\ acl' = [p \in DOMAIN acl |->
                 IF p \in Step.paths THEN (Step.group :> {"x"}) @@ acl[p] ELSE acl[p]]
    /\ plan' = Tail(plan)
    /\ UNCHANGED <<dacl, exists, tree, cfg, sh, running, lastOk, disturbed, failed, runs, faults>>

\* ensureShareTree: filepath.Walk of `<orgdir>/<ou>/shared`.
Walk ==
    /\ running /\ plan # <<>> /\ Step.kind = "walk"
    /\ plan' = TreeSteps(Step.ou) \o Tail(plan)
    /\ UNCHANGED <<acl, dacl, exists, tree, cfg, sh, running, lastOk, disturbed, failed, runs, faults>>

\* os.Remove: ENOTEMPTY for a directory that still has files.
RmFile ==
    /\ running /\ plan # <<>> /\ Step.kind = "rm"
    /\ LET ou == Step.ou
           f == Step.file
       IN  IF \E g \in tree[ou] : IsStrictPrefix(f.path, g.path)
           THEN FailRun /\ UNCHANGED tree
           ELSE /\ tree' = [tree EXCEPT ![ou] = @ \ {f}]
                /\ plan' = Tail(plan)
                /\ UNCHANGED <<running, lastOk, failed>>
    /\ UNCHANGED <<acl, dacl, exists, cfg, sh, disturbed, runs, faults>>

\* os.Mkdir or os.Symlink: EEXIST if the path is taken, ENOENT if the
\* parent directory is missing.
CreateFile ==
    /\ running /\ plan # <<>> /\ Step.kind = "create"
    /\ LET ou == Step.ou
           f == Step.file
       IN  IF (\E g \in tree[ou] : g.path = f.path) \/ ~ParentThere(ou, f)
           THEN FailRun /\ UNCHANGED tree
           ELSE /\ tree' = [tree EXCEPT ![ou] = @ \cup {f}]
                /\ plan' = Tail(plan)
                /\ UNCHANGED <<running, lastOk, failed>>
    /\ UNCHANGED <<acl, dacl, exists, cfg, sh, disturbed, runs, faults>>

\* All three Ensure functions returned nil.
Finish ==
    /\ running /\ plan = <<>>
    /\ running' = FALSE /\ lastOk' = TRUE
    /\ UNCHANGED <<acl, dacl, exists, tree, cfg, sh, plan, disturbed, failed, runs, faults>>

\* A script or call fails (I/O error, setfacl error) or the process is
\* killed before the next step; the run ends.
Fault ==
    /\ running /\ faults < MaxFaults
    /\ running' = FALSE /\ lastOk' = FALSE /\ plan' = <<>>
    /\ faults' = faults + 1
    /\ UNCHANGED <<acl, dacl, exists, tree, cfg, sh, disturbed, failed, runs>>

\* The operator deploys another sharing configuration between runs.
ChangeConfig ==
    /\ ~running
    /\ cfg' \in Configs \ {cfg}
    /\ UNCHANGED <<acl, dacl, exists, tree, sh, plan, running, lastOk, disturbed, failed, runs, faults>>

\* Users create a shared directory, which starts with the default ACL of
\* its parent, or remove it, at any time.
UserMkdir ==
    /\ \E p \in UserDirs \ exists :
        /\ exists' = exists \cup {p}
        /\ acl' = [acl EXCEPT ![p] = CoreAcl(p)]
        /\ dacl' = [dacl EXCEPT ![p] = CoreAcl(p)]
    /\ disturbed' = TRUE
    /\ UNCHANGED <<tree, cfg, sh, plan, running, lastOk, failed, runs, faults>>

UserRmdir ==
    /\ \E p \in exists :
        /\ exists' = exists \ {p}
        /\ acl' = [acl EXCEPT ![p] = NoAcl]
        /\ dacl' = [dacl EXCEPT ![p] = NoAcl]
    /\ disturbed' = TRUE
    /\ UNCHANGED <<tree, cfg, sh, plan, running, lastOk, failed, runs, faults>>

Next ==
    \/ StartRun \/ GetfaclReal \/ Modify \/ RemoveGroups \/ GetfaclTraversal \/ Traverse
    \/ Walk \/ RmFile \/ CreateFile \/ Finish \/ Fault \/ ChangeConfig
    \/ UserMkdir \/ UserRmdir

Spec == Init /\ [][Next]_vars

(***************************************************************************)
(* Properties.                                                             *)
(***************************************************************************)
Modes == SUBSET {"r", "w", "x"}

\* The filesystem groups: the grantees' and the core ones.
FsGroupNames ==
    {FsGroupOrgUnit(g) : g \in UNION {UNION {AclGroups(r.acl) : r \in Range(s.realShares)} : s \in Compiled}}
    \cup UNION {DOMAIN CoreAcl(p) : p \in AclPaths}

TypeOK ==
    /\ DOMAIN acl = AclPaths /\ DOMAIN dacl = AclPaths
    /\ \A p \in AclPaths :
           /\ DOMAIN acl[p] \cup DOMAIN dacl[p] \subseteq FsGroupNames
           /\ \A g \in DOMAIN acl[p] : acl[p][g] \in Modes
           /\ \A g \in DOMAIN dacl[p] : dacl[p][g] \in Modes
    /\ exists \subseteq UserDirs
    /\ DOMAIN tree = TreeOrgUnits
    /\ cfg \in Configs /\ sh \in Compiled
    /\ running \in BOOLEAN /\ lastOk \in BOOLEAN /\ disturbed \in BOOLEAN
    /\ failed \in BOOLEAN
    /\ runs \in 0..MaxRuns /\ faults \in 0..MaxFaults

\* What the compiled sharing asks of the filesystem: every existing real
\* share gives each grantee exactly its mode, normal and default, and no
\* named group besides the grantees and the managing groups; every
\* traversal path lets its grantee pass; every share tree has exactly the
\* compiled files.
Established(s) ==
    /\ \A r \in Range(s.realShares) : Exists(r.path) =>
           LET d == AsFacl(r.acl) IN
           /\ \A g \in DOMAIN d :
                  /\ g \in DOMAIN acl[r.path] /\ acl[r.path][g] = d[g]
                  /\ g \in DOMAIN dacl[r.path] /\ dacl[r.path][g] = d[g]
           /\ DOMAIN acl[r.path] \cup DOMAIN dacl[r.path] \subseteq DOMAIN d \cup FsGroups(r.managing)
    /\ \A t \in s.traversal : Exists(t.path) =>
           FsGroupOrgUnit(t.group) \in DOMAIN acl[t.path] /\ "x" \in acl[t.path][FsGroupOrgUnit(t.group)]
    /\ \A ou \in {f.ou : f \in s.shareTrees} : tree[ou] = {f \in s.shareTrees : f.ou = ou}

\* A run of cmdApply --sharing that returns without error leaves the
\* sharing established, whatever earlier runs, faults and configurations
\* left behind, until users next create or remove a shared directory.
SuccessfulRunEstablishesSharing ==
    (~running /\ lastOk /\ ~disturbed) => Established(sh)

\* The sharing never takes away an entry of the groups that bcpfs-perms
\* manages on a directory (its ou and the ops group of its service):
\* faclGroupsToRemove spares the managing groups of each real share.
ManagingEntriesKept ==
    [][\A p \in AclPaths :
          Exists(p)' =>
              \A g \in DOMAIN CoreAcl(p) :
                  /\ g \in DOMAIN acl[p] => g \in DOMAIN acl'[p]
                  /\ g \in DOMAIN dacl[p] => g \in DOMAIN dacl'[p]]_vars

\* A run fails only by a fault or because users removed a shared
\* directory under it: the share tree steps, in their order, never meet
\* ENOTEMPTY, EEXIST or ENOENT.
FaultFreeRunSucceeds == failed => disturbed

====
