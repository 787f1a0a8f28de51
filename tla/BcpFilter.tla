----------------------------- MODULE BcpFilter -----------------------------
(***************************************************************************)
(* The (service, org unit) acceptance filter of bcpfs-perms:               *)
(* cmd/bcpfs-perms/bcpfilter/bcpfilter.go and MustCompileFilter in         *)
(* cmd/bcpfs-perms/main.go.                                                *)
(*                                                                         *)
(* Names of org units and facilities are sequences of name symbols, so     *)
(* that the string tests of the code (strings.HasPrefix, strings.HasSuffix *)
(* and strings.TrimSuffix) are modelled by what they do.  The symbol       *)
(* FacilitySuffix stands for the string "-<facilitySuffix>" that ends the  *)
(* name of a facility org unit.  A service is a record with its name and   *)
(* the name of the facility the configuration assigns it to.               *)
(*                                                                         *)
(* A regexp rule of the configuration is abstracted to the sets of service *)
(* and org unit names its two anchored patterns match.                     *)
(***************************************************************************)
EXTENDS Sequences, SequencesExt

CONSTANT FacilitySuffix

\* bcp.parseOrgUnits: IsFacility is strings.HasSuffix(o, "-"+FacilitySuffix)
IsFacility(ou) == Len(ou) > 0 /\ Last(ou) = FacilitySuffix

\* bcp.parseOrgUnits: Facility is strings.TrimSuffix(o, "-"+FacilitySuffix)
OuFacility(ou) == IF IsFacility(ou) THEN Front(ou) ELSE <<>>

\* RegexpDecider.Decide: PASS unless both patterns match, then the action.
RegexpDecide(rule, srv, ou) ==
    IF srv.name \notin rule.services \/ ou \notin rule.orgUnits
    THEN "pass"
    ELSE rule.action

\* Defect variant: a facility org unit is accepted for every service.
SameFacilityDecideAnyFacility(srv, ou) ==
    IF ~IsFacility(ou) THEN "pass" ELSE "accept"

\* SameFacilityDecider.Decide: PASS for a non-facility org unit; otherwise
\* ACCEPT if the org unit name starts with the service's facility name.
SameFacilityDecide(srv, ou) ==
    IF ~IsFacility(ou) THEN "pass"
    ELSE IF IsPrefix(srv.facility, ou) THEN "accept"
    ELSE "reject"

\* MustCompileFilter: the configured regexp rules, then SameFacilityDecider.
Deciders(rules) ==
    [i \in 1..Len(rules) |-> [kind |-> "regexp", rule |-> rules[i]]]
        \o <<[kind |-> "sameFacility"]>>

Decide(d, srv, ou) ==
    IF d.kind = "sameFacility" THEN SameFacilityDecide(srv, ou)
    ELSE RegexpDecide(d.rule, srv, ou)

\* DecidersFilter.Accept: walk the deciders; ACCEPT returns true, REJECT
\* returns false, PASS continues; reject when no decider decides.  The loop
\* calls Decide twice per decider, which is the same as once: the deciders
\* are pure functions of (service, org unit).
\* Defect variant: accept when no decider decides.
RECURSIVE AcceptFromDefaultAccept(_, _, _)
AcceptFromDefaultAccept(ds, srv, ou) ==
    IF ds = <<>> THEN TRUE
    ELSE IF Decide(Head(ds), srv, ou) = "accept" THEN TRUE
    ELSE IF Decide(Head(ds), srv, ou) = "reject" THEN FALSE
    ELSE AcceptFromDefaultAccept(Tail(ds), srv, ou)

RECURSIVE AcceptFrom(_, _, _)
AcceptFrom(ds, srv, ou) ==
    IF ds = <<>> THEN FALSE
    ELSE IF Decide(Head(ds), srv, ou) = "accept" THEN TRUE
    ELSE IF Decide(Head(ds), srv, ou) = "reject" THEN FALSE
    ELSE AcceptFrom(Tail(ds), srv, ou)

Accept(rules, srv, ou) == AcceptFrom(Deciders(rules), srv, ou)

=============================================================================
