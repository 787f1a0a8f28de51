----------------------------- MODULE MCBcpSucd -----------------------------
(***************************************************************************)
(* Checks BcpSucd with three peers: u1 is in every allowlist, u2 may       *)
(* connect but call nothing, and u3 is in the status and quota allowlists  *)
(* but not in the conn allowlist.  The requests cover every early return   *)
(* of the handshake and of Ping, Status and SetQuota: a wrong filesystem,  *)
(* an invalid scope and both scopes on the quota filesystem.               *)
(***************************************************************************)
EXTENDS BcpSucd

CONSTANTS u1, u2, u3, fsQuota, fsOther, l1, l2

MCConnAllow == {u1, u2}
MCStatusAllow == {u1, u3}
MCQuotaAllow == {u1, u3}
MCLimits == {l1, l2}

Req(m, u, f, s) == [method |-> m, uid |-> u, fs |-> f, scope |-> s]

MCRequests ==
    {Req("ping", u, fsQuota, "user") : u \in {u1, u3}}
    \cup {Req("status", u, fsQuota, "user") : u \in {u1, u2}}
    \cup {Req("quota", u1, fsQuota, s) : s \in {"user", "group", "bad"}}
    \cup {Req("quota", u1, fsOther, "user"),
          Req("quota", u2, fsQuota, "user"),
          Req("quota", u3, fsQuota, "user")}

====
