# TLA+ models of bcpfs

These modules model `bcpfs-perms`, the program in
`src/cmd/bcpfs-perms`. It turns an organization into a directory tree on a
shared filesystem. The organization is a set of services, the facilities that
operate them and the org units that use them, read from the Unix groups and a
HCL configuration. The tree has POSIX ACLs. `bcpfs-perms check` verifies the
tree.

## The system's parts and how they interact

- **Configuration parser**: `bcpcfg/bcpcfg.go`. `Parse` decodes the HCL
  file and rejects invalid facility access policies, subdir policies,
  filter rules, symlinks, several sharing blocks and a relative rootdir.
- **Group resolver**: `grp/grp.go`, called by `MustLoadGroups` in `main.go`.
  It reads the group table with `getent`, keeps the groups of the org unit
  and service prefixes and the super group (`SelectGroups`), and removes
  exact duplicates, failing on two groups that share a name or a gid but not
  both (`DedupGroups`).
- **Organization builder**: `bcp/bcp.go` and `bcp/groups.go`. These build the
  services and org units from the selected groups and the configuration.
  A service is a `srv_` group that a configured facility lists; its facility
  group, ops group and (if configured) super group must exist. An org unit whose name ends in
  `-<facilitySuffix>` is a *facility*. Each service is assigned to a facility,
  whose ops group is `srv_<facility>-ops`.
- **Acceptance filter**: `bcpfilter/bcpfilter.go` and `MustCompileFilter` in
  `main.go`. These decide which (service, org unit) pairs get directories.
  The deciders are the configured regexp rules followed by
  `SameFacilityDecider`. The first ACCEPT or REJECT wins, and the default is
  to reject.
- **Tree reconciler**: `fsapply/`. `EnsurePermissions` creates and repairs
  the following, in a fixed order:
  - `<srv>` and `<srv>/<s>`;
  - `<srv>/<s>/<ou>` for every accepted pair, then removes the unexpected
    empty `<srv>/<s>/<ou>`;
  - `<org>` and `<org>/<ou>`;
  - the service links `<org>/<ou>/<s>`, then removes the unexpected links;
  - the subdirs `<org>/<ou>/<d>`;
  - the explicit symlinks.

  Every directory is handled by a bash script (`apply-sh.go`) that runs under
  `errexit`: mkdir if missing, chown, chmod g+s, `setfacl -M`, `setfacl -X`.
  The first error stops the run.
- **Verifier**: `fsck/`. `CheckPermissions` computes the expected entries
  with the same filter and compares them with the tree. The checks are
  unexpected paths, service links, explicit links, and ACLs. An ACL is
  compared only on the named groups of its type.
- **Sharing compiler**: `bcpsharing/bcpsharing.go`. `Compile` turns the
  `sharing` block (exports, imports, naming policies) into the following:
  - logical *shares*;
  - *real shares*, the realpaths with the union of the ACLs that map to them;
  - *traversal* entries, `--x` for each grantee on the ancestors of a real
    share and on `<org>/<ou>`;
  - *share trees*, the directories and relative links under
    `<org>/<ou>/shared` of the owner and of every grantee.
- **Sharing apply**: `bcpsharingapply/`. `cmdApply --sharing` runs three
  steps in order:
  - `EnsureRealShares`: one `getfacl`, then per share a recursive
    `setfacl -m` and `setfacl -x`;
  - `EnsureTraversal`: one `setfacl -m group:G:--x` per group, in Go map
    order;
  - `EnsureShareTrees`: a walk, then removals deepest first, then creations.
- **Root daemon**: `cmd/bcpsucd` and `internal/suc/grpcd`. A gRPC server on
  a Unix socket that runs `setquota` and reports status for `bcpctl`. On
  SIGTERM it stops gracefully, with a 20 s grace timer. Every connection
  passes a peer-credential handshake (`pkg/grpc/ucred`) against the conn
  allowlist. `Status` (`internal/suc/statusd`) and `SetQuota`
  (`internal/suc/quotad`) then check the caller against their own
  allowlists. `Ping` has no check of its own.
- **Client**: `cmd/bcpctl` and `pkg/suc`. It dials the socket, makes one
  `Status` or `SetQuota` call and waits for the answer under a deadline
  (100 ms or 10 s). The server never sees that deadline.

The reconciler and the verifier interact only through the filesystem and the
configuration. The sharing compiler reads the same configuration. Its links
resolve through the service links `<org>/<ou>/<s>` that the reconciler
makes for the pairs the filter accepts, so `MCBcpSharing` composes it with
`BcpFilter`. Both use the same filter. The properties of `BcpfsApply` are
about that contract: apply followed by check passes, and check passing means
apply has nothing to do.

## Modules

| Module | Models | Code |
|---|---|---|
| `BcpFilter` | the filter as pure operators | `bcpfilter.go`, `MustCompileFilter`, facility parsing in `parseOrgUnits` |
| `BcpCfg` | the checks of the configuration parser as pure operators | `bcpcfg.go` `Parse`, `parseFacilityConfigs`, `parseOrgUnitConfigs`, `ValidateFilterRule`, `parseFilter`, `parseSymlinks` |
| `BcpOrg` | the group resolver and the organization builder as pure operators | `grp.go` `SelectGroups`, `DedupGroups`; `MustLoadConfig` defaults, `MustLoadGroups`; `bcp.New` and its parse functions, `GroupMap` |
| `MCBcpFilter` | all filters of up to `MaxRules` rules over Organizations built by `BcpOrg`, all group tables of up to `MaxGroups` candidate groups, the parser's configurations and (through an instance of `MCBcpSharing`) all sharing configurations of up to `MaxExports` exports, with reference definitions | |
| `BcpfsApply` | the filesystem, apply runs, the verifier, the operator and the users | `fsapply/*`, `fsck/*`, `cmdApply` |
| `MCBcpfsApply` | three sets of configurations the operator switches between | |
| `BcpSharing` | the sharing compiler as pure operators | `bcpsharing.go`, `Acl.AsFacl` |
| `MCBcpSharing` | every configuration of up to 3 exports on two facilities, composed with `BcpFilter` and the service links of `ensureOUSLn`; its questions are asked inside `MCBcpFilter` | `ensureOULinks`, `ensureOUSLn` |
| `MCSharingNames` | the organization, paths, ACLs, import filters and naming policies the sharing questions use | |
| `BcpSharingApply` | the ACLs and share trees on disk, sharing apply runs, faults, the operator and the users | `bcpsharingapply/*`, `cmdApply` |
| `MCBcpSharingApply` | the configurations the operator switches between | |
| `BcpSucd` | `bcpsucd`: main, the serve goroutine, the handshake and the Ping, Status and SetQuota handlers, the timer; the `bcpctl` clients and their deadlines | `bcpsucd.go` `main`, `grpcd.go`, `pingd.go`, `ucred/authz.go`, `ucred/sopeer.go`, `statusd.go`, `quotad.go`, `bcpctl.go`, `pkg/suc/quota`, `pkg/suc/status` |
| `MCBcpSucd` | three peers, the two filesystems and the requests that reach every early return | |
| `SucdDaemon` | what the daemon promises, with no threads: serve, drain, exit | (abstract) |

### BcpFilter

Names are sequences of symbols, so that `HasSuffix`, `TrimSuffix` and
`HasPrefix` are modelled by what they do. A regexp rule is abstracted to the
set of service names and the set of org unit names its anchored patterns
match. `AcceptFrom` is the loop of `DecidersFilter.Accept`, written as a
RECURSIVE operator. `MCBcpFilter` compares it with `FirstDecision`, a
reference definition of the spec's rule written with `SelectInSeq`. The
services and org units the filter questions use are not given by hand: they
are those of the Organization that `BcpOrg`'s `MustLoadGroups` builds from a
group table and a configuration, the data flow of `bcpfs-perms apply`.

### BcpOrg

Group names are sequences of symbols as in `BcpFilter`, and the symbols
`org_`, `srv_`, `-ops` and `-facility` are built from the configuration
words as the code's `fmt.Sprintf` builds them. `SelectGroups` is a
`SelectSeq`; `DedupGroups` is a RECURSIVE walk whose step `IsDuplicate`
looks up the name, then the gid, among the kept groups, as the code's
`byName` and `byGid` maps do. `parseOrgUnits` and `parseServices` return
either the parsed records or an error record; every error return of the
code is a case (duplicate dir, missing facility group, `allOrgUnits` without
super group, missing service, super or ops group). `facilityBySrv` is a
`FoldLeft` in which later facility entries overwrite earlier ones. The
builder's lists are sets: the code sorts groups by name, and no later step
depends on the order. Which of several failing services is reported first is
not modelled, only that loading fails.

### BcpCfg

A raw configuration is the record the HCL decoder fills, so decoding is not
modelled. `Parse` is a CASE over the checks in the code's order, and its
accepted configurations are the ones `BcpOrg` and the filter questions use.
`MustDirPolicy` in `BcpOrg` panics (an error kind `panic`) on a policy the
parser should have rejected.

`MCBcpFilter` asks three kinds of question, each an initial state. A filter
question is a filter and a (service, org unit) pair of a built Organization.
An org question is a group table and a configuration, checked against
reference definitions written from spec sections 3, 4.1 and 4.2 over sets:
`Conflicting`, `Selected`, `RefLoadOk` (the group invariants 2 to 5 and the
facility-group rule) and the expected org units and services. A parser
question is a raw configuration with the empty table or `ParserTable`
(the groups the configuration names, so that loading reaches
`MustDirPolicy` and the access check), checked against
`RawValid`, the configuration rules of spec section 3.
The sharing block is checked as `parseSharing` does: naming policy actions
must be `allow` or `deny`, import actions `accept` or `reject`, and every
export entry must match `^group:[a-z0-9-]+:[r-][w-][x-]$`
(`MatchesSharingAce`, over an entry abstracted to its fields, a name to its
character classes and a mode to its three characters). The naming and
import regexps themselves are not validated by `Parse`, as in the code.

### BcpfsApply

- **State.** `fs` maps each path to a record:
  - its type (none, dir or link);
  - its owning group and setgid flag;
  - its access ACL and its default ACL, each a function from named group to
    mode;
  - a `data` flag, which says whether users have files in it;
  - the link target.

  The paths are the rootdir, `srv`, `org`, `srv/<s>`, `srv/<s>/<ou>`,
  `org/<ou>`, `org/<ou>/<s|d>` and one explicit link. These are exactly the
  paths `find -maxdepth 2` and the two `ReadDir` calls see.
- **Scripts.** A script is a sequence of command records. `ExecScript` folds
  them under errexit.
  - `MkdirIfMissing` gives a new directory its parent's default ACL as both
    ACLs. If the parent is setgid, it also takes the parent's group and the
    setgid bit.
  - `Modify` is `setfacl -M`: it replaces the listed entries and keeps the
    others.
  - `RemoveEntries` is `setfacl -X`.
- **Plan.** `Plan(c)` is the list of steps `EnsurePermissions` takes for
  configuration `c`, in code order. The services, org units and subdirs are
  taken in the fixed order of `SetToSeq`; the code uses the order of the
  group database. The plan is computed once per run (`StartRun`), just as
  `cmdApply` loads the configuration once.
- **Actions.**
  - `StartRun`: `cmdApply` starts.
  - `RunScript`: one `runBash`. On failure it sets `st.err`/`ot.err`, which
    ends the run.
  - `ReadDir`, `RemoveChild`, `KeepNonEmpty` and `EndRm`: the loop of
    `rmUnexpectedSubdirs` and `rmUnexpectedLinks`. It lists first, then does
    one `os.Remove` per child, keeping a directory on ENOTEMPTY.
  - `EnsureLink`: `ensureOUSLn` and `ensureSymlink`. If the link is right it
    does nothing. If nothing is there it creates the link. Anything else is
    EEXIST.
  - `Fault`: an I/O error or a crash. A script stops after any prefix of its
    commands, and the run ends.
  - `Finish`: `EnsurePermissions` returns nil.
  - `ChangeConfig`: the operator deploys another configuration between runs.
  - `UserWrite`: users add or delete data in a `srv/<s>/<ou>` at any time,
    including during a run.
- **Verifier.** `FsckFailures(c, fs)` is `CheckPermissions`, returning the
  set of failed checks. The ACL types of `acl.go` become `ExpectedAcl`, which
  gives the owning group, the setgid flag, the entries and `NamedGids`.
  `OnlyNamed` is `rejectOtherNamedGroupEntries`.

Groups are tuples: `<<"srv", s>>`, `<<"ops", f>>`, `<<"ou", o>>`,
`<<"super">>` and `<<"root">>`. The u/g/o and mask entries of the scripts are
the same in every script of a kind, and fsck compares them together with the
named entries, so they are left out. The owner and manager policies differ
from each other, and from the group policy, only in the named entries' modes,
which the model keeps.

### BcpSharing

- **Data.** A path is a sequence of names, and a name is a sequence of
  symbols, as in `BcpFilter`. An ACL is a sequence of `[group, mode]`
  entries, where a mode is a set of letters. Each regexp (a naming rule or
  an import rule) is abstracted to the set of logical paths it matches.
- **Operators.** There is one operator per function of `bcpsharing.go`.
  - The checks `checkNoNesting` and `checkNoRealpathNesting` keep their
    tree of leaf and inner nodes and their early return (`MarkPrefixes`).
  - `CompileError` tries the checks in the order `Compile` does.
  - `Acl.Union` merges into the last entry of a group (`MergeAce`).
- **Composition.** `MCBcpSharing` follows a link of a share tree the way
  the kernel does (`Resolve`). It then goes through `OrgView`, the service
  link that `ensureOUSLn` makes when the filter accepts the pair. This
  checks that the compiler, the reconciler's links and the filter agree.

### BcpSharingApply

- **State.**
  - `acl` and `dacl` map each real-share and traversal path to its named
    group entries, normal and default.
  - `exists` is the set of user directories below the core ones.
  - `tree` gives, per org unit, the files under `shared`.
  - `cfg`, `sh` and `plan` are the deployed configuration, the compiled
    sharing of the run and the run's remaining steps.
  - `failed` and `disturbed` record why a run ended. `disturbed` means a
    user created or removed a share dir during the run.
- **Plan.** As in `BcpfsApply`, a run is a list of steps. A step that reads
  the filesystem replaces itself with the steps the code derives from what
  it read:
  - `GetfaclReal` becomes the modify and remove steps of `ensureFacl`, in
    code order. Shares that do not exist are skipped.
  - `GetfaclTraversal` becomes one `traverse` step per group, in any order,
    because Go's map order is unspecified.
  - `Walk` becomes the removals, deepest first, and then the creations,
    parents first. Of the string order of `sort`, the model keeps only what
    it implies: a path sorts after its proper prefixes.
- **Steps and errors.** The steps fail as the code does:
  - `find` fails on a missing directory;
  - `os.Remove` fails with ENOTEMPTY;
  - `os.Mkdir` and `os.Symlink` fail with EEXIST or ENOENT.

  - `ParseGetfaclText` fails when `getfacl` prints an effective-rights
    comment, which it does for an entry, normal or default, wider than
    the mask (`EffectiveComment`).

  Any failure ends the run.
- **Masks.** `CoreMask` is the mask `fsapply` gives a directory: `rwx`
  below `<srvdir>/<srv>/<ou>` (`ensureSOUSh`) and `r-x` below
  `<orgdir>/<ou>` (`ensureOrgUnitSh`, and the `manager` subdir policy; the
  `owner` policy's default mask is also `r-x`). The sharing scripts use
  `setfacl -n`, so no step changes a mask.
- **Environment.** `Fault` kills a run before any step. `ChangeConfig`
  deploys another configuration. `UserMkdir` and `UserRmdir` act at any
  time. A new directory starts with the core entries of its parent's
  default ACL (`CoreAcl`).

### BcpSucd

- **Threads.** There are four: main (`mainPc`), the serve goroutine
  (`servePc`), one handler per RPC (`rpc`) and the grace timer.
- **Serve goroutine.** `Serve` returns nil after `GracefulStop` closed
  the listener (`ServeReturn`), or an error while serving (`ServeError`,
  which sets `serveErr`; no call is accepted after it). The goroutine then
  reads `isShutdown` (`ServeCheck`): if set, it sends on `done`; if not, it
  calls `logger.FatalS` in a later step (`ServeFatal`). Main can handle
  SIGTERM and begin `GracefulStop` between those two steps, so after an
  `Accept` error the fatal exit can come while the server drains.
  `isShutdown` is written without a lock. The read after a nil return sees
  the write, because the write comes before `GracefulStop`. The read after
  an error races with it, and the interleavings give both values.
- **`GracefulStop`.** The gRPC library is not in the repository, so
  `GracefulStop` is modelled by its documented contract, in two steps: it
  closes the listener (`srv = "draining"`, and `Serve` may return), then it
  returns once no RPC is pending. `Server.Stop` in `grpcd.go` calls
  `GracefulStop`, so `Stop` waits in the same way.
- **Handlers.** `ClientCall` picks a request `[method, uid, fs, scope]`
  from `Requests`. `Handle` is the handshake (`HandshakeOk`, connAllow's
  `AuthorizeInfo`) followed by `Ping`, `Status` or `SetQuota`, each with its
  early returns in the code's order. `SetQuota` checks the quota allowlist,
  then the filesystem, then the command switch (`QuotaCommand`). That
  switch tests `dryRun` first, so a dry run always runs `cat`. A started
  command then does one of three things:
  - `Answer`: it succeeds, and `setquota` applies every line;
  - `Fail`: it fails after applying any subset of the lines, and the
    answer is `Unknown`;
  - `Hang`: it blocks for good, as on a hung filesystem.

  `setquotaLog` records each `setquota` batch with the caller, the
  request's filesystem and scope, and the lines it applied. `dryRun` is
  chosen in `Init`, so both modes are checked. The quota table itself and
  the text of the answers are left out.
- **Clients.** `client[r]` is what the client of RPC `r` saw: `"waiting"`
  from `ClientCall` on, then either the answer's code (`ClientReceive`) or
  `DeadlineExceeded` (`ClientDeadline`, enabled while no answer has come).
  The deadline races the answer. After the deadline the handler runs on,
  and `setquotaLog` can still grow. The `Dial` Ping probe is folded into
  the call, because its handshake is the call's handshake. The failures
  before any call (bad stdin, `Dial` errors) end `bcpctl` without a call
  and are left out.
- **Refinement.** `SucdDaemon` is the abstract specification. A daemon
  serves calls, drains, and exits; serving can fail (`ServeFail`), and a
  failed daemon accepts no call. It exits `ok` only when no call is
  pending, and `fatal` only after serving failed while it served; the
  fatal exit itself may come after draining began. Weak fairness on
  `ExitOk` means a drained daemon does exit. `BcpSucd` instantiates it
  with this mapping:
  - the phase is `draining` once `GracefulStop` closed the listener;
  - an active, running or hung handler is a pending call;
  - `exited` is the status;
  - `serveErr` (a non-nil `err` from `Serve`) is the serve failure.

  `DaemonSpec` checks `Daemon!Spec` as a property. The mutant that never
  sets `isShutdown` breaks it: after `GracefulStop` makes `Serve` return
  nil, the serve goroutine exits fatally with no serve failure.

## Runs

| Run | Expect | What it shows |
|---|---|---|
| `filter_reference` | pass | `Accept` equals "first non-PASS answer wins, default reject" for all 2-rule filters (`AcceptIsFirstDecision`). When no rule decides, a facility org unit is accepted exactly for its own facility's services, as long as no facility name is a prefix of another (`SameFacilityOwnsService`). |
| `filter_reference` (groups) | | The same run checks the group resolver and the builder. `DedupGroupsIsReference`: `DedupGroups` fails exactly when two groups agree on name but not gid or on gid but not name, otherwise returns each group once in first-occurrence order, and `dedup(gs ++ gs) = dedup(gs)`. `LoadGroupsIsReference`: `MustLoadGroups` succeeds exactly when the reference conditions hold, and then builds the org units, services (with the facility of the last entry listing them), groups and unconfigured services they describe. `ParseIsReference`: `Parse` accepts exactly the configurations of spec section 3 and keeps each rule's names. `ParsedConfigLoadsWithoutPanic`: no configuration `Parse` accepts makes `MustLoadGroups` panic in `MustDirPolicy` or fail on an access policy. |
| `filter_prefix` | violation | With facilities `e` and `em`, `SameFacilityDecider` accepts `em-facility` for a service of `e`. The cause is `strings.HasPrefix` at `bcpfilter.go:113`. |
| `apply` | pass | `SuccessfulRunVerifies`: a successful apply is followed by a passing check, apart from the non-empty directories it kept. `CleanRunChangesNothing`: a run on a tree check accepts changes nothing, even when it faults midway. Plus `TypeOK`. |
| `apply_stuck` | violation | A service moves to another facility. The facility org unit's link must change target, but `os.Symlink` fails with EEXIST on every later fault-free run (`apply-ou.go:114`). |
| `apply_stale_ops` | violation | A service moves to another facility. After a successful run, the old ops group still has ACL entries on `srv/<s>` and `srv/<s>/<ou>`, and check does not see them. |
| `filter_reference` (sharing) | | The same run asks the sharing compiler's questions. It checks every configuration of up to 3 exports over 5 paths, 5 ACLs, 2 import filters and 2 naming policies. `NestingChecksMatchReference`: the two nesting checks accept exactly the exports whose paths, and whose realpaths, do not nest. `RealShareIsUnion`: each realpath appears once, and a group's mode on it is the union of its modes on the logical shares. `GrantReachable`: every accepted grant is reachable through the grantee's link, the org unit's service link and the traversal entries. |
| `sharing_foreign_facility` | violation | The export `em-facility/lm1/alice` names a service that `em` does not operate. It is accepted and mapped to `srv/lm1/alice`, but the grantee's link leads through `org/em-facility/lm1` to `srv/lm1/em-facility`. The cause is `IsFacilityPath` at `bcpsharing.go:354`. |
| `sharing_apply` | pass | The bounds are 3 runs, 1 fault, 2 configurations and users creating and removing share dirs at any time. `SuccessfulRunEstablishesSharing`: a run that returns nil leaves the exact modes, no foreign named groups, the traversal entries and the exact share trees. `FaultFreeRunSucceeds`: a run fails only by a fault or a user's change. `ManagingEntriesKept`: no step removes an ou or ops entry of a path that bcpfs-perms manages. Plus `TypeOK`. |
| `sharing_apply_whole_ou` | violation | The export is a whole org unit. `EnsureTraversal`'s `setfacl -m group:bob:--x` replaces the `r-x` that `EnsureRealShares` gave bob on `org/alice` (`exec.go:165`). |
| `sharing_apply_masked` | violation | Alice gives bob `rwx` on `org/alice/d`, whose mask is `r-x`. The first run succeeds. Its `setfacl -nm` leaves bob's entries wider than the mask, so the next `getfacl` (run without `-E`, `exec.go:67`) prints `#effective:r-x`, `parseGetfaclAceLine` rejects the line (`facl.go:149`), and every later run fails in `EnsureRealShares`. fsck passes `-E` (`fsck/acl.go:109`). |
| `sharing_apply_ops_suffix` | violation | With `ops_suffix = "operators"`, `FsGroups` still names the ops group `..-ops` (`bcpsharing.go:311`). `faclGroupsToRemove` then strips the real ops group from the service real shares. |
| `sucd_shutdown` | pass | The bounds are 2 RPCs whose commands may fail part-way or hang, dry-run on and off, and `Serve` errors at any time. `QuotaWrittenOnlyAsAllowed`: `setquota` runs only for a peer in both the conn and quota allowlists, for the quota filesystem and a user or group scope, and never in dry-run mode. `OkOnlyAsAllowed`: an OK answer means the conn allowlist and the service's allowlist admitted the caller, and, outside dry-run, that every line of the batch was applied. `DaemonSpec` is the refinement: `BcpSucd` implements `SucdDaemon`, so a shutdown never ends in "failed to serve" unless `Serve` really failed, although the goroutine reads `isShutdown` and exits in separate steps. `ShutdownExitsUnlessHung`: in every behaviour in which no handler hangs, SIGTERM leads to the process exiting. |
| `sucd_hang` | violation | One `SetQuota` command hangs. `GracefulStop` never returns, the grace timer is never created, and the daemon never exits (`bcpsucd.go:191`). `Stop` would not help, because it calls `GracefulStop` (`grpcd.go:72`). |

Each property of a passing run has a mutant in `PROJECT.json`. The mutant is
a variant of the code operator, defined next to it, that TLC shows breaks the
property. The mutants of the newer runs are the following:
- `filter_reference` (sharing):
  - the nesting walk without its leaf test;
  - `Union` replacing modes instead of merging them;
  - a link with one `..` too few.
- `sharing_apply`:
  - logical group names in `AsFacl`;
  - a removal skipped after a modify;
  - `faclGroupsToRemove` without the managing groups;
  - removals in ascending order.
- `filter_reference` (groups):
  - `isDuplicate` looking up only the name, which misses a gid conflict
    and breaks `DedupGroupsIsReference`;
  - the first facility listing a service winning, which breaks
    `LoadGroupsIsReference`;
  - `ValidateFilterRule` without the checks against both forms, which
    breaks `ParseIsReference`;
  - `parseFacilityConfigs` accepting any access, which breaks
    `ParsedConfigLoadsWithoutPanic` (the `world` configuration then loads
    against the parser table and fails with an invalid access).
- `sucd_shutdown`:
  - `isShutdown` never set, which breaks `DaemonSpec`;
  - main waiting for `done` before it stops the server, which breaks `ShutdownExitsUnlessHung`;
  - a handshake that admits every peer, which breaks `OkOnlyAsAllowed`;
  - the scope cases of `SetQuota`'s switch ahead of the dry-run case, which
    breaks `QuotaWrittenOnlyAsAllowed`;

The three mutants of `apply` are:
- the file-ACL mode `r--` used for the directory ACL;
- the missing `setfacl -X` in `ensureSOUSh`;
- `ReadDir` without the `expected` test.

## Bounds

- **Filter.**
  - One service name and four org units: two plain ones and two facility
    ones.
  - Two facilities, and every filter of up to two rules. The rule sets range
    over all subsets of the names, with both actions.

  Two rules are enough to give the order of rules a meaning, for example a
  reject shadowing an accept. The names come from a seven-group table and
  two configurations (service `mic1` in facility `e` or `l`).
- **Groups.** Every table of up to four entries drawn from seven groups:
  org unit `alice`, facility org units `em` and `lm`, service `mic1`, the
  ops group of `em` only, the super group `all`, and a second `org_alice`
  whose gid is that of the ops group. Four entries are enough for a
  table that loads with a super group (org unit, service, ops and super
  groups) and for a conflict hidden behind an exact duplicate. The twenty
  configurations combine super group set or empty (ops suffix given or
  defaulted), five facility lists (none; `em` with empty, `allOrgUnits` or
  `perService` access followed by `lm` listing `mic1` again; `lm` alone)
  and `alice`'s dirs with or without a duplicate. Together with the filter
  questions, these have 89,000 distinct states. With the 65,000 sharing
  questions the run has 154,000 distinct states and takes about 55 s.
- **Parser.** Twenty-three raw configurations: four subdir policies (one
  invalid) with a valid singular-form and list-form rule and a symlink, and
  one configuration for each other defect the parser checks (access,
  missing and relative rootdir, empty symlink path and target, two sharing
  blocks, and five rules: a bad action, both forms for services, neither,
  both forms for org units, neither). Eight carry one sharing block: a
  valid one, a naming action `permit`, an import action `import`, and five
  export entries the ACE regexp rejects (a `user` tag, an uppercase name,
  an empty name, the mode `x-r`, four fields).
- **Apply.**
  - One service (`mic`), three org units (`o`, `a-facility`,
    `b-facility`), one subdir and two explicit link targets.
  - In `MCBcpfsApply.cfg`: three configurations, up to 4 runs and 1 fault.
    The configurations change the filter, the facility, the access policy
    and the subdir policy.

  The cases that matter all happen within these bounds:
  - an ou losing access while its directory holds data or is being written;
  - a service switching between `perService` and `allOrgUnits`;
  - a facility taking over a service;
  - a fault inside any script.

  The run reaches about 170,000 distinct states in under a minute. A second
  service would only repeat the per-service steps.

- **Sharing.** `MCBcpSharing` ranges over every sequence of up to three
  exports. This is enough for nesting in both orders, for two logical
  paths on one realpath (the ou path and the facility path, spec S5), and
  for a filtered and an unfiltered grant side by side. It reaches 65,000
  distinct states, asked in the `filter_reference` run. `MCBcpSharingApply` uses one service, org units
  `alice`, `bob` and `em-facility`, and two configurations. One moves bob's
  grant and gives a share to `em-facility`. The other changes modes and
  unexports a path. With 3 runs and 1 fault the run reaches 34,000 distinct
  states in about 2.5 minutes. The masked run needs one `rwx` grant on an
  org path and two runs.
- **Daemon.** Two RPCs are enough for one to hang while the other answers,
  and for two `SetQuota` batches to overlap. There are three peers:
  - `u1` is in every allowlist;
  - `u2` may connect and nothing more;
  - `u3` is in the status and quota allowlists but not in the conn
    allowlist.

  With the ten requests of `MCBcpSucd`, every early return is reached:
  - the handshake refusing a peer;
  - each authorizer refusing a caller;
  - the wrong filesystem;
  - the invalid scope;
  - both scopes.

  The pass run reaches 468,000 distinct states in about 55 s. The violation
  run needs only one RPC.

Only `BcpSucd` has liveness properties. Its fairness is weak fairness of:
- main's steps;
- the serve goroutine's steps;
- the timer's firing;
- each handler's `Handle`;
- each handler's command returning (`Answer` or `Fail`);
- each waiting client's call returning (`ClientReceive` or
  `ClientDeadline`).

The Go scheduler runs a runnable goroutine, and the runtime fires an armed
timer. A handler runs once its request arrived, and a command that has
not blocked returns, either successfully or with an error. A waiting
client is woken by the answer or by its context's deadline timer. SIGTERM,
clients, `Serve` errors and hangs get no fairness. The other modules have
no liveness property and assume no fairness. "Repeated runs
converge" is stated as a safety property: `FaultFreeRunSucceeds` says a run
without a fault does not fail. Deadlock is checked in the filesystem models. `BcpSucd` sets
`CHECK_DEADLOCK FALSE` because the process exits. Once `MaxRuns` runs are
done, the users can still write, so the model never stops.

## What is not modelled, and the plan

- **`--recursive`.** These are the `find | xargs setfacl` variants of the
  scripts. They touch files below the model's depth.
- **Extra dirs.**
- **String and regexp details.** This covers `strings2Pattern`, whose single
  unparenthesised pattern is a hazard listed in `PROJECT.json`, the parsing
  of `getent` output in `grp.Groups()`, the HCL decoding and the sharing
  block checks of `bcpcfg.Parse`, and the name sort of
  `MustLoadGroups`.
- **Spec invariant 1 for configured services.** spec.md section 3 requires
  a group `<service_prefix>_<service>` for every service a facility lists.
  The code takes services from the groups and silently drops a configured
  service without a group. `LoadGroupsIsReference` states what the code
  does; this divergence is a hazard in `PROJECT.json` and has no run of its
  own.
- **Sharing details.**
  - Files below a real share. The modify and remove scripts `find` them
    recursively, and the model keeps only the top directory.
  - The string order of `sort`, except the depth order it implies.
  - `parseAcl`'s syntax check and the getfacl text parser.
  - `EnsureTraversal` never removes an entry, so a revoked grantee keeps
    `--x` on the ancestors. This is listed as a hazard.
  - Trees of org units that no longer have a share are never walked.
    Their stale links are a hazard, not a run, because the spec says
    nothing of them.
- **`bcpsucd` before SIGTERM.** The socket setup and the signal arriving
  before `signal.Notify`.
- **Refinement of the filesystem models.** An abstract "desired tree"
  specification, with
  `BcpfsApply` shown to implement it where runs are fault-free and
  configurations stable.
- **The rest of `bcpctl`.** Its stdin quota parser (`internal/quota`) and
  the failures before the call are left out. The model has the race
  between the deadline and a late `setquota`: a batch can be applied after
  the client reported `DeadlineExceeded`. No property asks for once-only
  application, because `bcpctl` does not retry by itself. This is listed
  as a hazard.
- **SO_PEERCRED and `FromContext`.** The handshake is taken to read the
  peer's uid. Its errors for a non-Unix connection, a missing fd and a nil
  authorizer cannot happen with the server that main builds. The handlers'
  "authorized context without auth info" panics are unreachable, because
  the handshake always stores the `AuthInfo`.
