\* The shutdown, with one RPC whose command may block for good.
CONSTANTS
    RpcIds = {r1}
    u1 = u1  u2 = u2  u3 = u3
    fsQuota = fsQuota  fsOther = fsOther  l1 = l1  l2 = l2
    ConnAllow <- MCConnAllow
    StatusAllow <- MCStatusAllow
    QuotaAllow <- MCQuotaAllow
    QuotaFilesystem = fsQuota
    Limits <- MCLimits
    Requests <- MCRequests
SPECIFICATION Spec
PROPERTY ShutdownExits
\* The process exits, and then no step is enabled.
CHECK_DEADLOCK FALSE
