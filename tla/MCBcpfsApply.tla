--------------------------- MODULE MCBcpfsApply ---------------------------
(***************************************************************************)
(* Model-checking instance of BcpfsApply: one service "mic", a plain org   *)
(* unit "o", the facility org units "a-facility" and "b-facility", one     *)
(* org unit subdir, and the configurations an operator may switch between. *)
(***************************************************************************)
EXTENDS BcpfsApply

O == <<"o">>
FA == <<"a", FacilitySuffix>>
FB == <<"b", FacilitySuffix>>
MCOrgUnits == {O, FA, FB}
MCLinkTargets == {<<"..", "t1">>, <<"..", "t2">>}

\* A filter rule `{services: [mic], orgUnits: [ou], action: accept}`.
AcceptRule(ous) == [action |-> "accept", services |-> {"mic"}, orgUnits |-> ous]

Config(fac, access, filter, policy, target) ==
    [facility |-> "mic" :> fac, access |-> "mic" :> access, filter |-> filter,
     policy |-> "data" :> policy, symlink |-> target]

\* The operator stops giving "o" access to "mic" (rmUnexpectedSubdirs then
\* meets srv/mic/o, with or without data), moves "mic" from facility a to
\* facility b, switches the access policy and the subdir policy; the third
\* configuration lets facility b use "mic" while facility a operates it.
ConfigsChurn ==
    { Config(<<"a">>, "perService", <<AcceptRule({O})>>, "owner", <<"..", "t1">>),
      Config(<<"b">>, "allOrgUnits", <<>>, "manager", <<"..", "t1">>),
      Config(<<"a">>, "perService", <<AcceptRule({FB})>>, "owner", <<"..", "t1">>) }

\* "mic" moves from facility a to facility b, which already used it
\* through a filter rule.
ConfigsFacilityMove ==
    { Config(<<"a">>, "perService", <<AcceptRule({FB})>>, "group", <<"..", "t1">>),
      Config(<<"b">>, "perService", <<AcceptRule({FB})>>, "group", <<"..", "t1">>) }

\* "mic" moves from facility a to facility b.
ConfigsReassign ==
    { Config(<<"a">>, "perService", <<>>, "group", <<"..", "t1">>),
      Config(<<"b">>, "perService", <<>>, "group", <<"..", "t1">>) }

=============================================================================
