--------------------------- MODULE MCSharingNames ---------------------------
(***************************************************************************)
(* The small organization and the sharing inputs the sharing compiler is   *)
(* checked on (MCBcpSharing): facilities em (service mic1) and lm (service *)
(* lm1), org units alice and bob and the facility org units.               *)
(***************************************************************************)
EXTENDS TLC

\* Names: sequences of name symbols, as in BcpFilter.
Alice == <<"alice">>
Bob == <<"bob">>
Em == <<"em">>
Lm == <<"lm">>
EmFacility == <<"em", "-facility">>
LmFacility == <<"lm", "-facility">>
Mic1 == <<"mic1">>
Lm1 == <<"lm1">>
Data == <<"d">>
SrvName == <<"srv">>
OrgName == <<"org">>
FacilityNames == {Em, Lm}
ServiceFacility == (Mic1 :> Em) @@ (Lm1 :> Lm)

OrgUnits == {Alice, Bob, EmFacility, LmFacility}

\* Logical paths: a whole ou, an ou subdir, an ou's service dir and a
\* subdir of it, the same subdir named through the facility (spec S5), and
\* an ou's dir of a service named through a facility that does not
\* operate it.
WholeOu == <<Alice>>
OuSubdir == <<Alice, Data>>
OuService == <<Alice, Mic1>>
OuServiceSubdir == <<Alice, Mic1, Data>>
FacilityServiceSubdir == <<EmFacility, Mic1, Alice, Data>>
ForeignFacilityPath == <<EmFacility, Lm1, Alice>>
OwnPaths == {WholeOu, OuSubdir, OuService, OuServiceSubdir, FacilityServiceSubdir}
AllPaths == OwnPaths \cup {ForeignFacilityPath}

\* ACLs as parseAcl returns them; the modes are the letters set.
RX == {"r", "x"}
WX == {"w", "x"}
Acls == {<<>>,
         <<[group |-> Bob, mode |-> RX]>>,
         <<[group |-> Bob, mode |-> WX]>>,
         <<[group |-> Bob, mode |-> RX], [group |-> EmFacility, mode |-> RX]>>,
         <<[group |-> Alice, mode |-> RX]>>}

\* Import filters: accept every export to bob and em-facility; or reject
\* bob on the ou service subdir before accepting him, em-facility by the
\* default reject.
ImportFilters ==
    {<<[group |-> Bob, paths |-> AllPaths, action |-> "accept"],
       [group |-> EmFacility, paths |-> AllPaths, action |-> "accept"]>>,
     <<[group |-> Bob, paths |-> {OuServiceSubdir}, action |-> "reject"],
       [group |-> Bob, paths |-> AllPaths, action |-> "accept"]>>}

\* Naming policies: allow all; or deny the ou subdir first.
NamingPolicies ==
    {<<[paths |-> AllPaths, action |-> "allow"]>>,
     <<[paths |-> {OuSubdir}, action |-> "deny"], [paths |-> AllPaths, action |-> "allow"]>>}

\* Acceptance filters: alice and bob get every service (the facility org
\* units are left to SameFacilityDecider); or every org unit gets every
\* service.
OrdinaryOusFilter ==
    <<[action |-> "accept", services |-> {Mic1, Lm1}, orgUnits |-> {Alice, Bob}]>>
AcceptAllFilter ==
    <<[action |-> "accept", services |-> {Mic1, Lm1}, orgUnits |-> OrgUnits]>>

====
