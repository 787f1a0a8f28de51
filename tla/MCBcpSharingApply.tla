------------------------- MODULE MCBcpSharingApply -------------------------
(***************************************************************************)
(* Sharing configurations for BcpSharingApply on the organization of       *)
(* MCBcpSharing: facility em operates mic1, org units alice, bob and       *)
(* em-facility.                                                            *)
(***************************************************************************)
EXTENDS BcpSharingApply

Alice == <<"alice">>
Bob == <<"bob">>
Em == <<"em">>
EmFacility == <<"em", "-facility">>
Mic1 == <<"mic1">>
Data == <<"d">>
SrvName == <<"srv">>
OrgName == <<"org">>
FacilityNames == {Em}
ServiceFacility == Mic1 :> Em

WX == {"w", "x"}

\* Logical paths (see MCBcpSharing).
WholeOu == <<Alice>>
OuSubdir == <<Alice, Data>>
OuServiceSubdir == <<Alice, Mic1, Data>>
FacilityServiceSubdir == <<EmFacility, Mic1, Alice, Data>>
AllPaths == {WholeOu, OuSubdir, OuServiceSubdir, FacilityServiceSubdir}

Grant(g, m) == [group |-> g, mode |-> m]
Export(p, a) == [path |-> p, acl |-> a]

Imports == <<[group |-> Bob, paths |-> AllPaths, action |-> "accept"],
             [group |-> EmFacility, paths |-> AllPaths, action |-> "accept"]>>
Naming == <<[paths |-> AllPaths, action |-> "allow"]>>
Sharing(exps) == [exports |-> exps, imports |-> Imports, naming |-> Naming]

\* Bob gets alice's mic1 subdir through two logical paths (spec S5) and
\* her ou subdir.
GrantBob ==
    Sharing(<<Export(OuServiceSubdir, <<Grant(Bob, RX)>>),
              Export(FacilityServiceSubdir, <<Grant(Bob, WX)>>),
              Export(OuSubdir, <<Grant(Bob, RX)>>)>>)

\* Bob's mode on the mic1 subdir changes, the facility path is unexported,
\* and the ou subdir goes to em-facility instead of bob.
RegrantEm ==
    Sharing(<<Export(OuServiceSubdir, <<Grant(Bob, WX)>>),
              Export(FacilityServiceSubdir, <<>>),
              Export(OuSubdir, <<Grant(EmFacility, RX)>>)>>)

\* Alice shares her whole org unit directory with bob.
WholeOuToBob ==
    Sharing(<<Export(WholeOu, <<Grant(Bob, RX)>>)>>)

\* Alice gives bob write access to her ou subdir, below `<orgdir>/alice`
\* and its `mask::r-x`.
WriteOuSubdirToBob ==
    Sharing(<<Export(OuSubdir, <<Grant(Bob, RWX)>>)>>)

PassConfigs == {GrantBob, RegrantEm}
WholeOuConfigs == {WholeOuToBob}
GrantConfigs == {GrantBob}
MaskedConfigs == {WriteOuSubdirToBob}

ASSUME \A c \in PassConfigs \cup WholeOuConfigs \cup MaskedConfigs : Compile(c).err = "none"

====
