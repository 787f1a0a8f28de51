\* The shutdown and the handlers, with two RPCs whose commands may block.
CONSTANTS
    RpcIds = {r1, r2}
    u1 = u1  u2 = u2  u3 = u3
    fsQuota = fsQuota  fsOther = fsOther  l1 = l1  l2 = l2
    ConnAllow <- MCConnAllow
    StatusAllow <- MCStatusAllow
    QuotaAllow <- MCQuotaAllow
    QuotaFilesystem = fsQuota
    Limits <- MCLimits
    Requests <- MCRequests
SPECIFICATION Spec
INVARIANTS QuotaWrittenOnlyAsAllowed OkOnlyAsAllowed
PROPERTIES ShutdownExitsUnlessHung DaemonSpec
\* The process exits, and then no step is enabled.
CHECK_DEADLOCK FALSE
