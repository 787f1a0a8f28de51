----------------------------- MODULE SucdDaemon -----------------------------
(***************************************************************************)
(* What bcpsucd promises its clients and its supervisor, without threads:  *)
(* it serves calls until SIGTERM makes it drain; a draining daemon, or one *)
(* whose serving failed, accepts no call; it exits cleanly only when no    *)
(* call is pending, and once nothing is pending a draining daemon does     *)
(* exit.  A fatal exit follows a failure of Serve while the daemon served; *)
(* the exit itself may come after draining began.  BcpSucd implements it  *)
(* (DaemonSpec there).                                                     *)
(***************************************************************************)
CONSTANT RpcIds

VARIABLES phase,    \* "serving", "draining", "exited"
          calls,    \* RPC -> "idle", "pending", "done"
          status,   \* the exit: "none", "ok", "fatal"
          failed    \* serving failed (the listener broke)

avars == <<phase, calls, status, failed>>

Init ==
    /\ phase = "serving"
    /\ calls = [r \in RpcIds |-> "idle"]
    /\ status = "none"
    /\ failed = FALSE

Call(r) ==
    /\ phase = "serving" /\ ~failed /\ calls[r] = "idle"
    /\ calls' = [calls EXCEPT ![r] = "pending"]
    /\ UNCHANGED <<phase, status, failed>>

Answer(r) ==
    /\ phase # "exited" /\ calls[r] = "pending"
    /\ calls' = [calls EXCEPT ![r] = "done"]
    /\ UNCHANGED <<phase, status, failed>>

Drain ==
    /\ phase = "serving"
    /\ phase' = "draining"
    /\ UNCHANGED <<calls, status, failed>>

ExitOk ==
    /\ phase = "draining" /\ \A r \in RpcIds : calls[r] # "pending"
    /\ phase' = "exited" /\ status' = "ok"
    /\ UNCHANGED <<calls, failed>>

ServeFail ==
    /\ phase = "serving" /\ ~failed
    /\ failed' = TRUE
    /\ UNCHANGED <<phase, calls, status>>

Crash ==
    /\ phase # "exited" /\ failed
    /\ phase' = "exited" /\ status' = "fatal"
    /\ UNCHANGED <<calls, failed>>

Next == Drain \/ ExitOk \/ ServeFail \/ Crash \/ \E r \in RpcIds : Call(r) \/ Answer(r)

Spec == Init /\ [][Next]_avars /\ WF_avars(ExitOk)

====
