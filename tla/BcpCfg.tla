------------------------------- MODULE BcpCfg -------------------------------
(***************************************************************************)
(* The configuration parser of bcpfs-perms, bcpcfg.Parse in                *)
(* cmd/bcpfs-perms/bcpcfg/bcpcfg.go: the checks it makes after the HCL     *)
(* decoder has filled the structs.  The decoder itself is not modelled: a  *)
(* raw configuration is the record the decoder produces, with the fields   *)
(* of BcpOrg's configurations and                                          *)
(*   rootdir        a path as a sequence of symbols, <<"/", "fs">>;        *)
(*   filter         a sequence of FilterRuleCfg [service, services,        *)
(*                  orgUnit, orgUnits, action], <<>> for unset;        *)
(*   symlinks       a sequence of [path, target], "" for unset;            *)
(*   sharingBlocks  the number of `sharing` blocks;                        *)
(*   sharing        the block's namingPolicies [action], exports [acl] and *)
(*                  imports [action]; an ACL entry is its ':'-separated    *)
(*                  fields, a name field the sequence of the character     *)
(*                  classes of its characters ("a-z", "0-9", "-", "A-Z",   *)
(*                  "_"), a mode field its three characters.               *)
(* The regexps of naming policies and imports are not checked by Parse.    *)
(***************************************************************************)
EXTENDS Naturals, Sequences, SequencesExt

Invalid(kind) == [ok |-> FALSE, err |-> kind]

\* filepath.IsAbs
IsAbs(path) == path # <<>> /\ Head(path) = "/"

isValidDirPolicy(p) == p \in {"owner", "group", "manager"}

\* validateSubdirs: every subdir has a valid policy.
validateSubdirs(dirs) == \A i \in DOMAIN dirs : isValidDirPolicy(dirs[i].policy)

\* Defect variant: the access is not checked.
parseFacilityConfigsAny(fs) == TRUE

\* parseFacilityConfigs: the access is perService, allOrgUnits or empty.
parseFacilityConfigs(fs) ==
    \A i \in DOMAIN fs : fs[i].access \in {"perService", "allOrgUnits", ""}

\* parseOrgUnitConfigs: the subdirs of every org unit are valid.
parseOrgUnitConfigs(ous) == \A i \in DOMAIN ous : validateSubdirs(ous[i].subdirs)

\* Defect variant: the checks against giving both the singular and the
\* list form are missing; the singular form then wins.
ValidateFilterRuleBothForms(r) ==
    CASE r.action \notin {"accept", "reject"} -> Invalid("action")
      [] r.service = <<>> /\ r.services = <<>> -> Invalid("noService")
      [] r.orgUnit = <<>> /\ r.orgUnits = <<>> -> Invalid("noOrgUnit")
      [] OTHER ->
           [ok |-> TRUE,
            rule |-> [action |-> r.action,
                      services |-> IF r.service = <<>> THEN r.services ELSE <<r.service>>,
                      orgUnits |-> IF r.orgUnit = <<>> THEN r.orgUnits ELSE <<r.orgUnit>>]]

\* ValidateFilterRule: a valid action, and for services and for org units
\* either the singular or the list form, not both and not neither.
ValidateFilterRule(r) ==
    CASE r.action \notin {"accept", "reject"} -> Invalid("action")
      [] r.service # <<>> /\ r.services # <<>> -> Invalid("bothServiceForms")
      [] r.service = <<>> /\ r.services = <<>> -> Invalid("noService")
      [] r.orgUnit # <<>> /\ r.orgUnits # <<>> -> Invalid("bothOrgUnitForms")
      [] r.orgUnit = <<>> /\ r.orgUnits = <<>> -> Invalid("noOrgUnit")
      [] OTHER ->
           [ok |-> TRUE,
            rule |-> [action |-> r.action,
                      services |-> IF r.service = <<>> THEN r.services ELSE <<r.service>>,
                      orgUnits |-> IF r.orgUnit = <<>> THEN r.orgUnits ELSE <<r.orgUnit>>]]

\* parseFilter: every rule validates; the validated rules in order.
parseFilter(list) ==
    IF \A i \in DOMAIN list : ValidateFilterRule(list[i]).ok
    THEN [ok |-> TRUE, rules |-> [i \in DOMAIN list |-> ValidateFilterRule(list[i]).rule]]
    ELSE Invalid("filter")

\* parseSymlinks: neither path nor target is empty.
parseSymlinks(links) ==
    \A i \in DOMAIN links : links[i].path # "" /\ links[i].target # ""

isValidNamingPolicyAction(a) == a \in {"allow", "deny"}

isValidImportAction(a) == a \in {"accept", "reject"}

\* rgxSharingAce `^group:[a-z0-9-]+:[r-][w-][x-]$` on the fields of an entry.
MatchesSharingAce(f) ==
    /\ Len(f) = 3 /\ f[1] = "group"
    /\ Len(f[2]) > 0 /\ \A i \in DOMAIN f[2] : f[2][i] \in {"a-z", "0-9", "-"}
    /\ Len(f[3]) = 3 /\ f[3][1] \in {"r", "-"} /\ f[3][2] \in {"w", "-"} /\ f[3][3] \in {"x", "-"}

parseSharingNamingPolicies(pols) ==
    \A i \in DOMAIN pols : isValidNamingPolicyAction(pols[i].action)

parseSharingExports(exps) ==
    \A i \in DOMAIN exps : \A j \in DOMAIN exps[i].acl : MatchesSharingAce(exps[i].acl[j])

parseSharingImports(imps) == \A i \in DOMAIN imps : isValidImportAction(imps[i].action)

\* parseSharing: the naming policies, the exports, the imports.
parseSharing(sh) ==
    /\ parseSharingNamingPolicies(sh.namingPolicies)
    /\ parseSharingExports(sh.exports)
    /\ parseSharingImports(sh.imports)

\* Parse: the blocks in the code's order, then the rootdir.
Parse(raw) ==
    CASE ~parseFacilityConfigs(raw.facilities) -> Invalid("facilities")
      [] ~parseOrgUnitConfigs(raw.orgUnits) -> Invalid("orgUnits")
      [] ~parseFilter(raw.filter).ok -> Invalid("filter")
      [] ~parseSymlinks(raw.symlinks) -> Invalid("symlink")
      [] raw.sharingBlocks = 1 /\ ~parseSharing(raw.sharing) -> Invalid("sharing")
      [] raw.sharingBlocks > 1 -> Invalid("sharingBlocks")
      [] raw.rootdir = <<>> -> Invalid("rootdir")
      [] ~IsAbs(raw.rootdir) -> Invalid("rootdirNotAbsolute")
      [] OTHER -> [ok |-> TRUE,
                   cfg |-> [raw EXCEPT !.filter = parseFilter(raw.filter).rules]]

====
