------------------------------ MODULE BcpSucd ------------------------------
(***************************************************************************)
(* The shutdown of the root daemon bcpsucd (cmd/bcpsucd/bcpsucd.go, main)  *)
(* and its gRPC server (internal/suc/grpcd).                               *)
(*                                                                         *)
(* Three threads: main, which waits for SIGTERM, stops the server and      *)
(* waits for the serve goroutine or a grace timer; the goroutine that runs *)
(* Serve and then reads isShutdown; and the gRPC handlers, one per RPC in  *)
(* RpcIds.  A handler may block for good (a setquota on a hung            *)
(* filesystem).  GracefulStop, as gRPC documents it, stops                *)
(* accepting and then blocks until no RPC is pending.                      *)
(*                                                                         *)
(* A handler runs the peer-credential handshake (pkg/grpc/ucred) against   *)
(* the conn allowlist, then Ping (no check), Status (internal/suc/statusd) *)
(* or SetQuota (internal/suc/quotad), each with its own allowlist.         *)
(* SetQuota runs `setquota --batch` or, in dry-run mode, `cat`.            *)
(*                                                                         *)
(* Each RPC is made by a bcpctl client (pkg/suc) that waits for the answer *)
(* under a deadline (10s for SetQuota, 100ms for Status).  The server does *)
(* not watch the deadline: exec.Command, not CommandContext, runs on.      *)
(***************************************************************************)
EXTENDS FiniteSets

CONSTANTS RpcIds,          \* the RPCs clients make
          Requests,        \* requests [method, uid, fs, scope]
          ConnAllow,       \* -conn-allow-uids
          StatusAllow,     \* -status-allow-uids
          QuotaAllow,      \* -quota-allow-uids
          QuotaFilesystem, \* -quota-filesystem
          Limits           \* the limit lines of a SetQuota request

VARIABLES sig,          \* SIGTERM was delivered to the sigs channel
          isShutdown,   \* main's isShutdown flag
          done,         \* the done channel holds a value
          mainPc,       \* where main is
          servePc,      \* where the serve goroutine is
          serveErr,     \* Serve returned a non-nil err (Accept failed)
          srv,          \* the gRPC server: "serving", "draining", "stopped"
          rpc,          \* RPC -> "idle", "active", "hung", "answered"
          timer,        \* the grace timer: "off", "armed", "fired"
          exited,       \* the process: "none", "ok", "fatal"
          dryRun,       \* -quota-dry-run
          req,          \* RPC -> its request, once called
          cmd,          \* RPC -> the command its handler runs
          resp,         \* RPC -> the status code it was answered with
          setquotaLog,  \* the setquota batches run: [rpc, uid, fs, scope, lines]
          client        \* RPC -> what its client saw: "none", "waiting", a code

vars == <<sig, isShutdown, done, mainPc, servePc, serveErr, srv, rpc, timer, exited,
          dryRun, req, cmd, resp, setquotaLog, client>>

\* The handler threads' and the clients' variables, untouched by main and
\* the goroutine.
hvars == <<dryRun, req, cmd, resp, setquotaLog, client>>

Pending == {r \in RpcIds : rpc[r] \in {"active", "running", "hung"}}

Running == exited = "none"

Init ==
    /\ sig = FALSE /\ isShutdown = FALSE /\ done = FALSE
    /\ mainPc = "wait" /\ servePc = "serving" /\ serveErr = FALSE
    /\ srv = "serving"
    /\ rpc = [r \in RpcIds |-> "idle"]
    /\ timer = "off" /\ exited = "none"
    /\ dryRun \in BOOLEAN
    /\ req = [r \in RpcIds |-> "none"]
    /\ cmd = [r \in RpcIds |-> "none"]
    /\ resp = [r \in RpcIds |-> "none"]
    /\ setquotaLog = {}
    /\ client = [r \in RpcIds |-> "none"]

(***************************************************************************)
(* main                                                                    *)
(***************************************************************************)
\* Defect variant: isShutdown is not set.
RecvSigNoFlag ==
    /\ Running /\ mainPc = "wait" /\ sig
    /\ mainPc' = "graceful"
    /\ UNCHANGED <<sig, isShutdown, done, servePc, serveErr, srv, rpc, timer, exited, hvars>>

\* `<-sigs; isShutdown = true`
RecvSig ==
    /\ Running /\ mainPc = "wait" /\ sig
    /\ isShutdown' = TRUE /\ mainPc' = "graceful"
    /\ UNCHANGED <<sig, done, servePc, serveErr, srv, rpc, timer, exited, hvars>>

\* Defect variant: main waits for the serve goroutine before stopping it.
GracefulStopBeginAfterDone ==
    /\ Running /\ mainPc = "graceful" /\ done
    /\ srv' = "draining" /\ mainPc' = "gracefulWait"
    /\ UNCHANGED <<sig, isShutdown, done, servePc, serveErr, rpc, timer, exited, hvars>>

\* sucd.GracefulStop(): the listener is closed, no new RPC is accepted ...
GracefulStopBegin ==
    /\ Running /\ mainPc = "graceful"
    /\ srv' = "draining" /\ mainPc' = "gracefulWait"
    /\ UNCHANGED <<sig, isShutdown, done, servePc, serveErr, rpc, timer, exited, hvars>>

\* ... and it returns when no RPC is pending.
GracefulStopEnd ==
    /\ Running /\ mainPc = "gracefulWait" /\ Pending = {}
    /\ srv' = "stopped" /\ mainPc' = "timer"
    /\ UNCHANGED <<sig, isShutdown, done, servePc, serveErr, rpc, timer, exited, hvars>>

\* `timeout := time.NewTimer(gracePeriod)`, after GracefulStop returned.
NewTimer ==
    /\ Running /\ mainPc = "timer"
    /\ timer' = "armed" /\ mainPc' = "select"
    /\ UNCHANGED <<sig, isShutdown, done, servePc, serveErr, srv, rpc, exited, hvars>>

\* `case <-timeout.C: sucd.Stop()`
SelectTimeout ==
    /\ Running /\ mainPc = "select" /\ timer = "fired"
    /\ mainPc' = "stop"
    /\ UNCHANGED <<sig, isShutdown, done, servePc, serveErr, srv, rpc, timer, exited, hvars>>

\* `case <-done:`
SelectDone ==
    /\ Running /\ mainPc = "select" /\ done
    /\ done' = FALSE /\ mainPc' = "exit"
    /\ UNCHANGED <<sig, isShutdown, servePc, serveErr, srv, rpc, timer, exited, hvars>>

\* Server.Stop calls gServer.GracefulStop: it too waits for the pending RPCs.
Stop ==
    /\ Running /\ mainPc = "stop" /\ Pending = {}
    /\ srv' = "stopped" /\ mainPc' = "exit"
    /\ UNCHANGED <<sig, isShutdown, done, servePc, serveErr, rpc, timer, exited, hvars>>

\* main returns: the process exits.
Exit ==
    /\ Running /\ mainPc = "exit"
    /\ exited' = "ok"
    /\ UNCHANGED <<sig, isShutdown, done, mainPc, servePc, serveErr, srv, rpc, timer, hvars>>

(***************************************************************************)
(* The serve goroutine                                                     *)
(***************************************************************************)
\* `err = sucd.Serve()` returns nil once GracefulStop closed the listener ...
ServeReturn ==
    /\ Running /\ servePc = "serving" /\ srv # "serving"
    /\ servePc' = "check"
    /\ UNCHANGED <<sig, isShutdown, done, mainPc, serveErr, srv, rpc, timer, exited, hvars>>

\* ... or with an error of its own (Accept failing), while still serving.
ServeError ==
    /\ Running /\ servePc = "serving" /\ srv = "serving"
    /\ servePc' = "check" /\ serveErr' = TRUE
    /\ UNCHANGED <<sig, isShutdown, done, mainPc, srv, rpc, timer, exited, hvars>>

\* `if isShutdown { done <- true; return }`: the read of isShutdown, which
\* main writes without a lock.  After a nil return the write happened
\* before GracefulStop; after an error the read races with it, and the
\* interleavings of this step with RecvSig give both outcomes.
ServeCheck ==
    /\ Running /\ servePc = "check"
    /\ IF isShutdown
       THEN done' = TRUE /\ servePc' = "end"
       ELSE servePc' = "fatal" /\ UNCHANGED done
    /\ UNCHANGED <<sig, isShutdown, mainPc, serveErr, srv, rpc, timer, exited, hvars>>

\* `logger.FatalS("failed to serve")`, a step after the read: main may have
\* handled SIGTERM and begun GracefulStop in between.
ServeFatal ==
    /\ Running /\ servePc = "fatal"
    /\ exited' = "fatal"
    /\ UNCHANGED <<sig, isShutdown, done, mainPc, servePc, serveErr, srv, rpc, timer, hvars>>

(***************************************************************************)
(* The environment: the signal, the timer, the clients and the handlers.   *)
(***************************************************************************)
Sigterm ==
    /\ Running /\ ~sig
    /\ sig' = TRUE
    /\ UNCHANGED <<isShutdown, done, mainPc, servePc, serveErr, srv, rpc, timer, exited, hvars>>

TimerFire ==
    /\ Running /\ timer = "armed"
    /\ timer' = "fired"
    /\ UNCHANGED <<sig, isShutdown, done, mainPc, servePc, serveErr, srv, rpc, exited, hvars>>

\* A client connects and sends a request.
ClientCall(r) ==
    /\ Running /\ srv = "serving" /\ servePc = "serving" /\ rpc[r] = "idle"
    /\ \E q \in Requests : req' = [req EXCEPT ![r] = q]
    /\ rpc' = [rpc EXCEPT ![r] = "active"]
    /\ client' = [client EXCEPT ![r] = "waiting"]
    /\ UNCHANGED <<sig, isShutdown, done, mainPc, servePc, serveErr, srv, timer, exited,
                   dryRun, cmd, resp, setquotaLog>>

\* The client gets the answer: `c.rpc.SetQuota(ctx, req)` (pkg/suc/quota)
\* or `c.rpc.Status(ctx, req)` (pkg/suc/status) returns.
ClientReceive(r) ==
    /\ client[r] = "waiting" /\ rpc[r] = "answered"
    /\ client' = [client EXCEPT ![r] = resp[r]]
    /\ UNCHANGED <<sig, isShutdown, done, mainPc, servePc, serveErr, srv, timer, exited,
                   rpc, dryRun, req, cmd, resp, setquotaLog>>

\* `context.WithDeadline`: the deadline passes before the answer; the call
\* returns DeadlineExceeded and bcpctl exits, whatever the handler does.
ClientDeadline(r) ==
    /\ client[r] = "waiting" /\ rpc[r] # "answered"
    /\ client' = [client EXCEPT ![r] = "DeadlineExceeded"]
    /\ UNCHANGED <<sig, isShutdown, done, mainPc, servePc, serveErr, srv, timer, exited,
                   rpc, dryRun, req, cmd, resp, setquotaLog>>

(***************************************************************************)
(* The handlers.                                                           *)
(***************************************************************************)
\* Main's variables, which no handler step changes.
mvars == <<sig, isShutdown, done, mainPc, servePc, serveErr, srv, timer, exited>>

\* UidAuthorizer.AuthorizeInfo: the uid is in the authorizer's map.
Authorized(uid, allow) == uid \in allow

\* Defect variant: the handshake admits every peer (an AnyAuthorizer).
HandshakeOkAny(q) == TRUE

\* SoPeerCred.ServerHandshake: SO_PEERCRED, then connAllow.AuthorizeInfo.
HandshakeOk(q) == Authorized(q.uid, ConnAllow)

\* Defect variant: the scope switch ahead of the dry-run case.
QuotaCommandScopeFirst(q) ==
    CASE q.scope \in {"user", "group"} -> "setquota"
      [] dryRun -> "cat"
      [] OTHER -> "none"

\* SetQuota's switch: `cat` in dry-run mode, else setquota for a user or
\* group scope, else "invalid quota scope".
QuotaCommand(q) ==
    CASE dryRun -> "cat"
      [] q.scope \in {"user", "group"} -> "setquota"
      [] OTHER -> "none"

\* The handler answers r with code c.
Reply(r, c) ==
    /\ rpc' = [rpc EXCEPT ![r] = "answered"]
    /\ resp' = [resp EXCEPT ![r] = c]

\* pingServer.Ping: no authorization, a valid transport is enough.
Ping(r) == Reply(r, "OK") /\ UNCHANGED cmd

\* StatusServer.Status: statusAllow.Authorize, then the status text.
Status(r) ==
    /\ IF Authorized(req[r].uid, StatusAllow)
       THEN Reply(r, "OK") ELSE Reply(r, "PermissionDenied")
    /\ UNCHANGED cmd

\* quotaServer.SetQuota up to the command: quotaAllow.Authorize, the
\* filesystem check and the command switch, each an early return.
SetQuota(r) ==
    LET q == req[r] IN
    \/ ~Authorized(q.uid, QuotaAllow)
         /\ Reply(r, "PermissionDenied") /\ UNCHANGED cmd
    \/ /\ Authorized(q.uid, QuotaAllow)
       /\ \/ q.fs # QuotaFilesystem
          \/ q.fs = QuotaFilesystem /\ QuotaCommand(q) = "none"
       /\ Reply(r, "InvalidArgument") /\ UNCHANGED cmd
    \/ /\ Authorized(q.uid, QuotaAllow)
       /\ q.fs = QuotaFilesystem /\ QuotaCommand(q) # "none"
       /\ cmd' = [cmd EXCEPT ![r] = QuotaCommand(q)]
       /\ rpc' = [rpc EXCEPT ![r] = "running"]
       /\ UNCHANGED resp

\* gRPC serves a connection: the handshake of the server's SoPeerCred
\* (a denied peer's connection is closed, the client sees Unavailable),
\* then the handler of the service the request names.
Handle(r) ==
    /\ Running /\ rpc[r] = "active"
    /\ \/ ~HandshakeOk(req[r]) /\ Reply(r, "Unavailable") /\ UNCHANGED cmd
       \/ /\ HandshakeOk(req[r])
          /\ CASE req[r].method = "ping"   -> Ping(r)
               [] req[r].method = "status" -> Status(r)
               [] req[r].method = "quota"  -> SetQuota(r)
    /\ UNCHANGED <<mvars, dryRun, req, setquotaLog, client>>

\* The batch lines the command applied: setquota writes them, cat does not.
Applied(r, lines) ==
    IF cmd[r] = "setquota"
    THEN setquotaLog' = setquotaLog \cup
             {[rpc |-> r, uid |-> req[r].uid, fs |-> req[r].fs,
               scope |-> req[r].scope, lines |-> lines]}
    ELSE UNCHANGED setquotaLog

\* `cmd.CombinedOutput()` succeeds: every line is applied, the answer is OK.
Answer(r) ==
    /\ Running /\ rpc[r] = "running"
    /\ Applied(r, Limits) /\ Reply(r, "OK")
    /\ UNCHANGED <<mvars, dryRun, req, cmd, client>>

\* The command fails (codes.Unknown); setquota may have applied some lines.
Fail(r) ==
    /\ Running /\ rpc[r] = "running"
    /\ \E lines \in SUBSET Limits : Applied(r, lines)
    /\ Reply(r, "Unknown")
    /\ UNCHANGED <<mvars, dryRun, req, cmd, client>>

\* The command blocks for good (a hung filesystem).
Hang(r) ==
    /\ Running /\ rpc[r] = "running"
    /\ rpc' = [rpc EXCEPT ![r] = "hung"]
    /\ UNCHANGED <<mvars, hvars>>

MainStep ==
    \/ RecvSig \/ GracefulStopBegin \/ GracefulStopEnd \/ NewTimer
    \/ SelectTimeout \/ SelectDone \/ Stop \/ Exit

ServeStep == ServeReturn \/ ServeCheck \/ ServeFatal

Next ==
    \/ MainStep \/ ServeStep \/ ServeError \/ Sigterm \/ TimerFire
    \/ \E r \in RpcIds : \/ ClientCall(r) \/ Handle(r)
                        \/ Answer(r) \/ Fail(r) \/ Hang(r)
                        \/ ClientReceive(r) \/ ClientDeadline(r)

\* The Go scheduler runs main, the goroutine and the handlers while they can
\* run, the runtime fires an armed timer, and a command that does not block
\* returns; a waiting client reads its answer, and its deadline passes.
\* Signals, new calls, Serve errors and hangs get no fairness.
Fairness ==
    /\ WF_vars(MainStep) /\ WF_vars(ServeStep) /\ WF_vars(TimerFire)
    /\ \A r \in RpcIds : /\ WF_vars(Handle(r)) /\ WF_vars(Answer(r) \/ Fail(r))
                        /\ WF_vars(ClientReceive(r) \/ ClientDeadline(r))

Spec == Init /\ [][Next]_vars /\ Fairness

(***************************************************************************)
(* Properties.                                                             *)
(***************************************************************************)
\* After SIGTERM the daemon exits: the graceful shutdown ends by itself or
\* the 20s timer forces it ("Timeout, forced shutdown.").
ShutdownExits == sig ~> (exited # "none")

\* The same, in the behaviours in which no handler blocks for good: the
\* shutdown path of main and the serve goroutine never waits on anything
\* but the pending RPCs.
ShutdownExitsUnlessHung ==
    ([](\A r \in RpcIds : rpc[r] # "hung")) => ShutdownExits

\* The daemon implements SucdDaemon: the server drains from the moment
\* GracefulStop closes the listener, an active or hung handler is a pending
\* call, a non-nil err of Serve is the daemon's serve failure, and the
\* process exit is the daemon's.  So no call is accepted while draining,
\* the exit is clean only with no call pending, a fatal exit ("failed to
\* serve") happens only after Serve failed while serving (never because
\* GracefulStop made Serve return), and a drained daemon exits.
Daemon == INSTANCE SucdDaemon WITH
    phase <- IF exited # "none" THEN "exited"
             ELSE IF srv = "serving" THEN "serving" ELSE "draining",
    calls <- [r \in RpcIds |->
                CASE rpc[r] = "idle" -> "idle"
                  [] rpc[r] = "answered" -> "done"
                  [] OTHER -> "pending"],
    status <- exited,
    failed <- serveErr

DaemonSpec == Daemon!Spec

\* The handshake and the per-service authorizers compose: a SetQuota
\* handler runs `setquota --batch` only for a peer whose uid is in both the
\* conn and the quota allowlist, for a request that names the quota
\* filesystem and a user or group scope, and never in dry-run mode, where
\* the batch goes to `cat`.
QuotaWrittenOnlyAsAllowed ==
    \A e \in setquotaLog :
        /\ ~dryRun
        /\ e.uid \in ConnAllow \cap QuotaAllow
        /\ e.fs = QuotaFilesystem
        /\ e.scope \in {"user", "group"}

\* A client answered OK was admitted by the conn allowlist and by the
\* allowlist of the service it called, and an OK to a SetQuota outside
\* dry-run mode means setquota applied every line of its batch (the error
\* of CombinedOutput is not lost).
OkOnlyAsAllowed ==
    \A r \in RpcIds : resp[r] = "OK" =>
        LET q == req[r] IN
        /\ q.uid \in ConnAllow
        /\ q.method = "status" => q.uid \in StatusAllow
        /\ q.method = "quota" =>
              /\ q.uid \in QuotaAllow
              /\ ~dryRun => \E e \in setquotaLog : e.rpc = r /\ e.lines = Limits

====
