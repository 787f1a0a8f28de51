----------------------------- MODULE BcpfsApply -----------------------------
(***************************************************************************)
(* The filesystem reconciler of `bcpfs-perms apply` without sharing        *)
(* (cmd/bcpfs-perms/fsapply) and the verifier of `bcpfs-perms check`        *)
(* (cmd/bcpfs-perms/fsck), over an abstract filesystem.                    *)
(*                                                                         *)
(* A path is a tuple of names below the rootdir: <<"srv">>, <<"srv", s>>,  *)
(* <<"srv", s, ou>>, <<"org">>, <<"org", ou>>, <<"org", ou, n>> and the   *)
(* explicit symlink <<"link">>.  An entry is absent, a directory or a      *)
(* symlink.  A directory has an owning group, the setgid bit, and the      *)
(* named group entries of its access ACL and of its default ACL, as        *)
(* functions from groups to modes; user::, group::, mask:: and other::     *)
(* entries are written by the same command as the named entries and are   *)
(* not tracked.  A directory of <<"srv", s, ou>> holds user data or not.   *)
(*                                                                         *)
(* A run executes a plan computed from the configuration read at its      *)
(* start, step by step in the order of EnsurePermissions.  A bash script   *)
(* of apply-sh.go is a sequence of commands that run under errexit; a      *)
(* failure or a crash in the middle of a script leaves a prefix of its     *)
(* commands applied and ends the run.                                      *)
(***************************************************************************)
EXTENDS Naturals, Sequences, FiniteSets, TLC, BcpFilter

CONSTANTS Services,     \* service names, model values
          OrgUnits,     \* org unit names, sequences of name symbols
          Subdirs,      \* the subdirs every org unit's configuration lists
          LinkTargets,  \* targets an explicit symlink may be configured to
          Configs,      \* configurations the operator may deploy over time
          MaxRuns,      \* bound on the number of apply runs
          MaxFaults     \* bound on injected I/O failures and crashes

ASSUME Subdirs \cap Services = {}

(***************************************************************************)
(* Groups, named as bcp.GroupMap finds them.  RootGroup is gid 0.         *)
(***************************************************************************)
RootGroup == <<"root">>
SrvGroup(s) == <<"srv", s>>
OpsGroup(f) == <<"ops", f>>
OuGroup(o) == <<"ou", o>>
SuperGroup == <<"super">>

Facilities == UNION {Range(c.facility) : c \in Configs}
Groups == {SrvGroup(s) : s \in Services} \cup {OpsGroup(f) : f \in Facilities}
            \cup {OuGroup(o) : o \in OrgUnits} \cup {SuperGroup}
Modes == {"r-x", "rwx"}

(***************************************************************************)
(* Paths.                                                                  *)
(***************************************************************************)
RootDir == <<>>
SrvRoot == <<"srv">>
OrgRoot == <<"org">>
SrvDir(s) == <<"srv", s>>
SouDir(s, o) == <<"srv", s, o>>
OuDir(o) == <<"org", o>>
OuEntry(o, n) == <<"org", o, n>>
ExplicitLink == <<"link">>

Paths == {RootDir, SrvRoot, OrgRoot, ExplicitLink} \cup {SrvDir(s) : s \in Services}
          \cup {SouDir(s, o) : s \in Services, o \in OrgUnits}
          \cup {OuDir(o) : o \in OrgUnits}
          \cup {OuEntry(o, n) : o \in OrgUnits, n \in Services \cup Subdirs}

\* filepath.Join(parent, name) read backwards: a path's parent.
Parent(p) == SubSeq(p, 1, Len(p) - 1)

\* Entries share one record shape; fields that do not apply keep the values
\* of Absent.  A symlink target is the path its relative target denotes.
Absent == [type |-> "none", group |-> RootGroup, sgid |-> FALSE, acl |-> <<>>,
           dacl |-> <<>>, data |-> FALSE, target |-> <<>>]
Link(dest) == [Absent EXCEPT !.type = "link", !.target = dest]

\* The service a configuration gives a service name.
Service(c, s) == [name |-> s, facility |-> c.facility[s]]

Accepts(c, s, o) == Accept(c.filter, Service(c, s), o)

(***************************************************************************)
(* Commands of the bash scripts, applied to one path.  Exec returns the    *)
(* filesystem and whether the command succeeded.                           *)
(***************************************************************************)
\* `[ -d p ] || mkdir p`: a new directory takes its parent's default ACL as
\* both of its ACLs, and the parent's group and setgid bit if it is setgid.
MkdirIfMissing(fs, p) ==
    LET par == fs[Parent(p)] IN
    IF fs[p].type = "dir" THEN [fs |-> fs, ok |-> TRUE]
    ELSE IF fs[p].type # "none" \/ par.type # "dir" THEN [fs |-> fs, ok |-> FALSE]
    ELSE [fs |-> [fs EXCEPT ![p] =
              [Absent EXCEPT !.type = "dir",
                             !.group = IF par.sgid THEN par.group ELSE RootGroup,
                             !.sgid = par.sgid, !.acl = par.dacl,
                             !.dacl = par.dacl]],
          ok |-> TRUE]

\* setfacl -M: add or replace named entries, keep the others.
Modify(acl, m) == m @@ acl

\* setfacl -X: remove named entries.
RemoveEntries(acl, gs) == [g \in DOMAIN acl \ gs |-> acl[g]]

ExecOn(fs, p, cmd) ==
    CASE cmd.op = "mkdir" -> MkdirIfMissing(fs, p)
      [] cmd.op = "chown" ->
            [fs |-> [fs EXCEPT ![p].group = cmd.group], ok |-> TRUE]
      [] cmd.op = "chmodgs" ->
            [fs |-> [fs EXCEPT ![p].sgid = TRUE], ok |-> TRUE]
      [] cmd.op = "modify" ->
            [fs |-> [fs EXCEPT ![p].acl = Modify(@, cmd.acl),
                               ![p].dacl = Modify(@, cmd.dacl)], ok |-> TRUE]
      [] cmd.op = "remove" ->
            [fs |-> [fs EXCEPT ![p].acl = RemoveEntries(@, cmd.groups),
                               ![p].dacl = RemoveEntries(@, cmd.groups)],
             ok |-> TRUE]

\* errexit: run the commands in order and stop at the first failing one.
ExecScript(fs, p, cmds) ==
    LET step(st, cmd) == IF st.ok THEN ExecOn(st.fs, p, cmd) ELSE st
    IN  FoldLeft(step, [fs |-> fs, ok |-> TRUE], cmds)

(***************************************************************************)
(* The scripts of apply-sh.go as command sequences.                        *)
(***************************************************************************)
Mkdir == [op |-> "mkdir"]
Chown(g) == [op |-> "chown", group |-> g]
ChmodGs == [op |-> "chmodgs"]
SetM(n, d) == [op |-> "modify", acl |-> n, dacl |-> d]
SetX(gs) == [op |-> "remove", groups |-> gs]

\* ensureToplevelSh: root:root and u/g/o entries only.
ToplevelCmds == <<Mkdir, Chown(RootGroup), SetM(<<>>, <<>>)>>

\* ensureServiceDir: ensureServiceSh for perService, ensureServiceAllOrgUnitsSh
\* for allOrgUnits.
ServiceCmds(c, s) ==
    LET srv == SrvGroup(s)
        ops == OpsGroup(c.facility[s])
        perSrv == (srv :> "r-x") @@ (ops :> "r-x")
        allOus == SuperGroup :> "r-x"
    IN  IF c.access[s] = "allOrgUnits"
        THEN <<Mkdir, Chown(srv), SetM(allOus, allOus), SetX({srv, ops})>>
        ELSE <<Mkdir, Chown(srv), SetM(perSrv, perSrv), SetX({SuperGroup})>>

\* Defect variant: the inherited srv/<s> entries are not removed.
SouCmdsNoRemove(c, s, o) ==
    LET acl == (OuGroup(o) :> "rwx") @@ (OpsGroup(c.facility[s]) :> "rwx")
    IN  <<Mkdir, Chown(OuGroup(o)), ChmodGs, SetM(acl, acl)>>

\* ensureSOUSh: the ou and the service's ops group get rwx; the entries
\* inherited from srv/<s> by mkdir are removed.
SouCmds(c, s, o) ==
    LET acl == (OuGroup(o) :> "rwx") @@ (OpsGroup(c.facility[s]) :> "rwx")
    IN  <<Mkdir, Chown(OuGroup(o)), ChmodGs, SetM(acl, acl),
          SetX({SrvGroup(s), SuperGroup})>>

\* ensureOrgUnitSh
OuCmds(o) ==
    <<Mkdir, Chown(OuGroup(o)), ChmodGs,
      SetM(OuGroup(o) :> "r-x", OuGroup(o) :> "r-x")>>

\* Defect variant: the owner and manager default entries take the mode of
\* the file ACL of the recursive scripts, r--.
SubdirCmdsFileMode(policy, o) ==
    LET g == OuGroup(o)
        n == IF policy = "manager" THEN "r--" ELSE "rwx"
        d == IF policy = "group" THEN "rwx" ELSE "r--"
    IN  <<Mkdir, Chown(g), ChmodGs, SetM(g :> n, g :> d)>>

\* ensureOrgUnitSubdir: ensureOrgUnit{Group,Owner,Manager}SubdirSh, which
\* differ only in the named entry's mode and default mode.
SubdirCmds(policy, o) ==
    LET g == OuGroup(o)
        n == IF policy = "manager" THEN "r-x" ELSE "rwx"
        d == IF policy = "group" THEN "rwx" ELSE "r-x"
    IN  <<Mkdir, Chown(g), ChmodGs, SetM(g :> n, g :> d)>>

(***************************************************************************)
(* The plan of one run: the steps of EnsurePermissions in code order.      *)
(***************************************************************************)
SvcSeq == SetToSeq(Services)
OuSeq == SetToSeq(OrgUnits)
SubdirSeq == SetToSeq(Subdirs)

Script(p, cmds) == [kind |-> "script", path |-> p, cmds |-> cmds]

\* ensureOUSLn: the facility's own services link to srv/<s>, all other
\* accepted services to srv/<s>/<ou>.
LinkDest(c, o, s) ==
    IF IsFacility(o) /\ c.facility[s] = OuFacility(o) THEN SrvDir(s)
    ELSE SouDir(s, o)

\* ensureSrvSubdirs: ensureSOU for every accepted ou, then rmUnexpectedSubdirs.
SrvSubdirSteps(c, s) ==
    LET ous == SelectSeq(OuSeq, LAMBDA o : Accepts(c, s, o))
    IN  [i \in 1..Len(ous) |-> Script(SouDir(s, ous[i]), SouCmds(c, s, ous[i]))]
        \o <<[kind |-> "rmSubdirs", path |-> SrvDir(s),
              expected |-> Range(ous)]>>

\* ensureOULinks: ensureOUSLn for every accepted service, then rmUnexpectedLinks.
OuLinkSteps(c, o) ==
    LET ss == SelectSeq(SvcSeq, LAMBDA s : Accepts(c, s, o))
    IN  [i \in 1..Len(ss) |-> [kind |-> "link", path |-> OuEntry(o, ss[i]),
                               dest |-> LinkDest(c, o, ss[i])]]
        \o <<[kind |-> "rmLinks", path |-> OuDir(o), expected |-> Range(ss)]>>

\* EnsurePermissions: srv root, service dirs, service-ou dirs, org root,
\* ou dirs, ou service links, ou subdirs, explicit symlinks.
Plan(c) ==
    <<Script(SrvRoot, ToplevelCmds)>>
    \o [i \in 1..Len(SvcSeq) |-> Script(SrvDir(SvcSeq[i]), ServiceCmds(c, SvcSeq[i]))]
    \o FlattenSeq([i \in 1..Len(SvcSeq) |-> SrvSubdirSteps(c, SvcSeq[i])])
    \o <<Script(OrgRoot, ToplevelCmds)>>
    \o [i \in 1..Len(OuSeq) |-> Script(OuDir(OuSeq[i]), OuCmds(OuSeq[i]))]
    \o FlattenSeq([i \in 1..Len(OuSeq) |-> OuLinkSteps(c, OuSeq[i])])
    \o FlattenSeq([i \in 1..Len(OuSeq) |->
          [j \in 1..Len(SubdirSeq) |->
              Script(OuEntry(OuSeq[i], SubdirSeq[j]),
                     SubdirCmds(c.policy[SubdirSeq[j]], OuSeq[i]))]])
    \o <<[kind |-> "link", path |-> ExplicitLink, dest |-> c.symlink]>>

(***************************************************************************)
(* The verifier: fsck.CheckPermissions for a configuration.                *)
(***************************************************************************)
\* ServiceDirsList, ServiceOrgUnitDirsList, OrgUnitDirsList,
\* OrgUnitSubdirsList and the toplevel entries: the directories expected.
ExpectedDirs(c) ==
    {RootDir, SrvRoot, OrgRoot} \cup {SrvDir(s) : s \in Services}
    \cup {SouDir(x[1], x[2]) :
            x \in {y \in Services \X OrgUnits : Accepts(c, y[1], y[2])}}
    \cup {OuDir(o) : o \in OrgUnits} \cup {OuEntry(o, d) : o \in OrgUnits, d \in Subdirs}

\* OrgUnitServiceLinksList: the ou service links expected.
ExpectedLinks(c) ==
    {OuEntry(x[2], x[1]) :
        x \in {y \in Services \X OrgUnits : Accepts(c, y[1], y[2])}}

\* OrgUnitServiceLinksList computes the target with its own
\* serviceIsOfFacility, equal to the one of ensureOUSLn.
ExpectedDest(c, p) ==
    LET o == p[2]
        s == p[3]
    IN  IF IsFacility(o) /\ c.facility[s] = OuFacility(o) THEN SrvDir(s)
        ELSE SouDir(s, o)

\* The ACL types of acl.go: owning group, setgid flag, the named entries of
\* FACLString, and NamedGids, the groups whose entries are compared.
FsckAcl(grp, sgid, acl, dacl, named) ==
    [group |-> grp, sgid |-> sgid, acl |-> acl, dacl |-> dacl, named |-> named]

ExpectedAcl(c, p) ==
    CASE p \in {RootDir, SrvRoot, OrgRoot} ->                       \* SimpleACL
            FsckAcl(RootGroup, FALSE, <<>>, <<>>, {})
      [] p[1] = "srv" /\ Len(p) = 2 ->                     \* ServiceACL
            LET s == p[2]
                srv == SrvGroup(s)
                ops == OpsGroup(c.facility[s])
                per == (srv :> "r-x") @@ (ops :> "r-x")
                all == SuperGroup :> "r-x"
                a == IF c.access[s] = "perService" THEN per ELSE all
            IN  FsckAcl(srv, FALSE, a, a, {srv, ops, SuperGroup})
      [] p[1] = "srv" ->                                   \* ServiceOrgUnitACL
            LET s == p[2]
                ou == OuGroup(p[3])
                ops == OpsGroup(c.facility[s])
                a == (ou :> "rwx") @@ (ops :> "rwx")
            IN  FsckAcl(ou, TRUE, a, a, {ou, SrvGroup(s), ops, SuperGroup})
      [] Len(p) = 2 ->                                     \* OrgUnitACL
            LET ou == OuGroup(p[2])
            IN  FsckAcl(ou, TRUE, ou :> "r-x", ou :> "r-x", {ou})
      [] OTHER ->                                  \* Subdir{Group,Owner,Manager}ACL
            LET ou == OuGroup(p[2])
                pol == c.policy[p[3]]
                n == IF pol = "manager" THEN "r-x" ELSE "rwx"
                d == IF pol = "group" THEN "rwx" ELSE "r-x"
            IN  FsckAcl(ou, TRUE, ou :> n, ou :> d, {ou})

\* rejectOtherNamedGroupEntries: keep only the entries of the NamedGids.
OnlyNamed(acl, named) == [g \in DOMAIN acl \cap named |-> acl[g]]

\* CheckACLs for one entry: getfacl fails on a missing path.
AclOk(c, fs, p) ==
    LET e == ExpectedAcl(c, p) IN
    /\ fs[p].type = "dir"
    /\ fs[p].group = e.group
    /\ fs[p].sgid = e.sgid
    /\ OnlyNamed(fs[p].acl, e.named) = e.acl
    /\ OnlyNamed(fs[p].dacl, e.named) = e.dacl

\* CheckNoUnexpected: `find <root> -maxdepth 2` paths that are not expected.
Unexpected(c, fs, root) ==
    {p \in Paths \ {RootDir, ExplicitLink} :
        /\ p[1] = root
        /\ fs[p].type # "none"
        /\ p \notin ExpectedDirs(c) \cup ExpectedLinks(c)}

\* CheckPermissions: the names of the failed checks.
FsckFailures(c, fs) ==
    {f \in {"no-unexpected-srv", "no-unexpected-ou", "symlinks",
            "explicit-symlinks", "acls"} :
        CASE f = "no-unexpected-srv" -> Unexpected(c, fs, "srv") # {}
          [] f = "no-unexpected-ou" -> Unexpected(c, fs, "org") # {}
          [] f = "symlinks" ->
                \E p \in ExpectedLinks(c) : fs[p] # Link(ExpectedDest(c, p))
          [] f = "explicit-symlinks" -> fs[ExplicitLink] # Link(c.symlink)
          [] f = "acls" -> \E p \in ExpectedDirs(c) : ~AclOk(c, fs, p)}

(***************************************************************************)
(* The state machine: apply runs, the operator and the users.              *)
(***************************************************************************)
VARIABLES
    fs,          \* the filesystem below the rootdir
    cfg,         \* the deployed configuration
    status,      \* "idle", "running", "done" or "failed": the last run
    runCfg,      \* the configuration the current run read at its start
    plan,        \* Plan(runCfg)
    pc,          \* index of the current step in Plan(runCfg)
    listed,      \* rm steps: ReadDir has listed the directory
    pending,     \* rm steps: listed children still to be removed
    faulted,     \* an I/O failure or crash was injected into this run
    kept,        \* directories this run logged as "Kept unexpected"
    runs,        \* number of runs started
    faults,      \* number of failures injected
    startClean   \* check passed on the filesystem this run started on

vars == <<fs, cfg, status, runCfg, plan, pc, listed, pending, faulted, kept, runs, faults, startClean>>

Step == plan[pc]

Running == status = "running" /\ pc <= Len(plan)

\* cmdApply loads one of Configs.  The filesystem is the environment's:
\* the rootdir exists (the scripts create only one directory level, so a
\* missing rootdir fails), as root:root with u/g/o entries only.
Init ==
    /\ fs = [p \in Paths |-> IF p = RootDir THEN [Absent EXCEPT !.type = "dir"]
                                            ELSE Absent]
    /\ cfg \in Configs
    /\ status = "idle"
    /\ runCfg = cfg
    /\ plan = <<>>
    /\ pc = 1
    /\ listed = FALSE
    /\ pending = {}
    /\ faulted = FALSE
    /\ kept = {}
    /\ runs = 0
    /\ faults = 0
    /\ startClean = FALSE

\* cmdApply: MustLoadConfig and MustLoadGroups read the configuration once.
StartRun ==
    /\ status # "running"
    /\ runs < MaxRuns
    /\ status' = "running"
    /\ runCfg' = cfg
    /\ plan' = Plan(cfg)
    /\ pc' = 1
    /\ listed' = FALSE
    /\ pending' = {}
    /\ faulted' = FALSE
    /\ kept' = {}
    /\ runs' = runs + 1
    /\ startClean' = (FsckFailures(cfg, fs) = {})
    /\ UNCHANGED <<fs, cfg, faults>>

\* runBash of a script: st.err or ot.err set on failure ends the run.
RunScript ==
    /\ Running
    /\ Step.kind = "script"
    /\ LET r == ExecScript(fs, Step.path, Step.cmds) IN
       /\ fs' = r.fs
       /\ IF r.ok THEN pc' = pc + 1 /\ UNCHANGED status
          ELSE status' = "failed" /\ UNCHANGED pc
    /\ UNCHANGED <<cfg, runCfg, plan, listed, pending, faulted, kept, runs, faults, startClean>>

\* Defect variant: the `expected[name]` test is missing.
ReadDirAll ==
    /\ Running
    /\ Step.kind \in {"rmSubdirs", "rmLinks"}
    /\ ~listed
    /\ fs[Step.path].type = "dir"
    /\ listed' = TRUE
    /\ pending' = {q \in Paths :
                     /\ Len(q) = Len(Step.path) + 1
                     /\ Parent(q) = Step.path
                     /\ fs[q].type = IF Step.kind = "rmSubdirs" THEN "dir" ELSE "link"}
    /\ UNCHANGED <<fs, cfg, status, runCfg, plan, pc, faulted, kept, runs, faults,
                   startClean>>

\* rmUnexpectedSubdirs and rmUnexpectedLinks: ioutil.ReadDir lists the
\* children; only directories, resp. only symlinks, not expected are kept
\* for removal.
ReadDir ==
    /\ Running
    /\ Step.kind \in {"rmSubdirs", "rmLinks"}
    /\ ~listed
    /\ fs[Step.path].type = "dir"
    /\ listed' = TRUE
    /\ pending' = {q \in Paths :
                     /\ Len(q) = Len(Step.path) + 1
                     /\ Parent(q) = Step.path
                     /\ fs[q].type = IF Step.kind = "rmSubdirs" THEN "dir" ELSE "link"
                     /\ q[Len(q)] \notin Step.expected}
    /\ UNCHANGED <<fs, cfg, status, runCfg, plan, pc, faulted, kept, runs, faults, startClean>>

\* os.Remove of one listed child; ReadDir returns the children sorted, any
\* fixed order is one of the code's.
NextChild == CHOOSE q \in pending : TRUE

RemoveChild ==
    /\ Running
    /\ listed /\ pending # {}
    /\ ~fs[NextChild].data
    /\ fs' = [fs EXCEPT ![NextChild] = Absent]
    /\ pending' = pending \ {NextChild}
    /\ UNCHANGED <<cfg, status, runCfg, plan, pc, listed, faulted, kept, runs, faults, startClean>>

\* rmUnexpectedSubdirs: os.Remove fails with ENOTEMPTY on a directory with
\* data, which is logged and kept.
KeepNonEmpty ==
    /\ Running
    /\ Step.kind = "rmSubdirs"
    /\ listed /\ pending # {}
    /\ fs[NextChild].data
    /\ kept' = kept \cup {NextChild}
    /\ pending' = pending \ {NextChild}
    /\ UNCHANGED <<fs, cfg, status, runCfg, plan, pc, listed, faulted, runs, faults, startClean>>

EndRm ==
    /\ Running
    /\ listed /\ pending = {}
    /\ pc' = pc + 1
    /\ listed' = FALSE
    /\ UNCHANGED <<fs, cfg, status, runCfg, plan, pending, faulted, kept, runs, faults, startClean>>

\* ensureOUSLn and ensureSymlink: nothing to do if isDestSymlink; else
\* os.Symlink, which fails with EEXIST if anything is at the path.
EnsureLink ==
    /\ Running
    /\ Step.kind = "link"
    /\ \/ /\ fs[Step.path] = Link(Step.dest)
          /\ pc' = pc + 1
          /\ UNCHANGED <<fs, status>>
       \/ /\ fs[Step.path].type = "none"
          /\ fs' = [fs EXCEPT ![Step.path] = Link(Step.dest)]
          /\ pc' = pc + 1
          /\ UNCHANGED status
       \/ /\ fs[Step.path].type # "none"
          /\ fs[Step.path] # Link(Step.dest)
          /\ status' = "failed"
          /\ UNCHANGED <<fs, pc>>
    /\ UNCHANGED <<cfg, runCfg, plan, listed, pending, faulted, kept, runs, faults, startClean>>

\* An I/O error of a command, of ReadDir, os.Remove or os.Symlink, or a
\* crash of the process: a script stops after a prefix of its commands;
\* any other step does nothing.  The run ends.
Fault ==
    /\ Running
    /\ faults < MaxFaults
    /\ \/ /\ Step.kind = "script"
          /\ \E k \in 0..Len(Step.cmds) - 1 :
                fs' = ExecScript(fs, Step.path, SubSeq(Step.cmds, 1, k)).fs
       \/ /\ Step.kind # "script"
          /\ UNCHANGED fs
    /\ status' = "failed"
    /\ faulted' = TRUE
    /\ faults' = faults + 1
    /\ UNCHANGED <<cfg, runCfg, plan, pc, listed, pending, kept, runs, startClean>>

\* EnsurePermissions returns nil.
Finish ==
    /\ status = "running"
    /\ pc > Len(plan)
    /\ status' = "done"
    /\ UNCHANGED <<fs, cfg, runCfg, plan, pc, listed, pending, faulted, kept, runs, faults, startClean>>

\* The operator deploys another configuration between runs.
ChangeConfig ==
    /\ status # "running"
    /\ \E c \in Configs \ {cfg} : cfg' = c
    /\ UNCHANGED <<fs, status, runCfg, plan, pc, listed, pending, faulted, kept, runs,
                   faults, startClean>>

\* Members of an ou write data into, or delete all data from, one of their
\* srv/<s>/<ou> directories, at any time.
UserWrite ==
    /\ \E s \in Services, o \in OrgUnits :
          /\ fs[SouDir(s, o)].type = "dir"
          /\ fs' = [fs EXCEPT ![SouDir(s, o)].data = ~@]
    /\ UNCHANGED <<cfg, status, runCfg, plan, pc, listed, pending, faulted, kept, runs,
                   faults, startClean>>

Next ==
    \/ StartRun \/ RunScript \/ ReadDir \/ RemoveChild \/ KeepNonEmpty
    \/ EndRm \/ EnsureLink \/ Fault \/ Finish
    \/ ChangeConfig \/ UserWrite

Spec == Init /\ [][Next]_vars

(***************************************************************************)
(* Properties.                                                             *)
(***************************************************************************)
IsAcl(a) == DOMAIN a \subseteq Groups /\ \A g \in DOMAIN a : a[g] \in Modes

IsEntry(e) ==
    /\ e.type \in {"none", "dir", "link"}
    /\ e.group \in Groups \cup {RootGroup}
    /\ e.sgid \in BOOLEAN /\ e.data \in BOOLEAN
    /\ IsAcl(e.acl) /\ IsAcl(e.dacl)
    /\ e.target \in Paths \cup LinkTargets

TypeOK ==
    /\ DOMAIN fs = Paths /\ \A p \in Paths : IsEntry(fs[p])
    /\ cfg \in Configs /\ runCfg \in Configs
    /\ status \in {"idle", "running", "done", "failed"}
    /\ pc \in 1..Len(plan) + 1
    /\ listed \in BOOLEAN /\ pending \subseteq Paths
    /\ kept \subseteq Paths
    /\ runs \in 0..MaxRuns /\ faults \in 0..MaxFaults

SouPaths == {SouDir(s, o) : s \in Services, o \in OrgUnits}

\* A successful `bcpfs-perms apply` leaves a filesystem that
\* `bcpfs-perms check` of the same configuration passes, except for the
\* non-empty srv/<s>/<ou> directories rmUnexpectedSubdirs logged as kept.
SuccessfulRunVerifies ==
    status = "done" =>
        /\ FsckFailures(runCfg, fs) \subseteq {"no-unexpected-srv"}
        /\ Unexpected(runCfg, fs, "srv") \subseteq kept

\* A run that starts on a filesystem `check` passes changes nothing, not
\* even when it fails midway: the verifier is clean only if the reconciler
\* has nothing to do (spec 8).  Users' data is not the reconciler's.
CleanRunChangesNothing ==
    [][status = "running" /\ startClean =>
         \A p \in Paths : [fs'[p] EXCEPT !.data = FALSE]
                             = [fs[p] EXCEPT !.data = FALSE]]_vars

\* A run in which no I/O operation fails and the process does not crash
\* completes: repeated runs converge (spec 5).
FaultFreeRunSucceeds ==
    status = "failed" => faulted

\* After a successful run, the only ops group with an ACL entry on the
\* directories of a service is the ops group of the service's facility.
NoStaleOpsAccess ==
    status = "done" =>
        \A s \in Services, p \in Paths, f \in Facilities :
            /\ p \in {SrvDir(s)} \cup {SouDir(s, o) : o \in OrgUnits}
            /\ fs[p].type = "dir"
            /\ OpsGroup(f) \in DOMAIN fs[p].acl \cup DOMAIN fs[p].dacl
            => f = runCfg.facility[s]

=============================================================================
