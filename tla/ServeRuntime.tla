---------------------------- MODULE ServeRuntime ----------------------------
(***************************************************************************)
(* One serve process (ServeBootstrap.Run in internal/cli/serve_runtime.go) *)
(* from RegisterNode to its return: the main goroutine with its deferred   *)
(* cleanup, the supervisor of the node lease and the maintenance loop      *)
(* below it, the HTTP server, and the workers.  They meet in a cancellable *)
(* context (runCtx) and in three channels.                                 *)
(*                                                                         *)
(* Any call to the store, the listener or a driver may fail.  What the     *)
(* calls do to the database is the business of NodeLease and SessionStore: *)
(* the node's row is only registered, ready, withdrawn, or lost to the     *)
(* next incarnation here.  What a worker is given to do, and the loading   *)
(* of files and keys before RegisterNode, are left out.                    *)
(***************************************************************************)
EXTENDS Naturals, FiniteSets

CONSTANTS
    Workers,    \* worker goroutines (--worker-concurrency)
    NumDrivers  \* devices of the inventory

ASSUME ServeRuntimeAssumption ==
    /\ IsFiniteSet(Workers) /\ Workers # {}
    /\ NumDrivers \in Nat

VARIABLES
    main,        \* where Run is
    nodeReady,   \* what the readiness probe reads
    count,       \* runtimeCount
    opened,      \* number of drivers open, in the order of the inventory
    closed,      \* number of drivers whose Close was called
    cancelled,   \* runCtx is done
    row,         \* the node's row
    results,     \* number of values in runtimeResults
    supervisor,  \* the supervisor goroutine
    failed,      \* superviseServeNode returns an error
    ready,       \* the value in supervisorReady
    joinable,    \* supervisorResult holds a value
    maintenance, \* the maintenance goroutine
    server,      \* the HTTP server goroutine
    started,     \* serverStarted holds a value
    worker       \* the worker goroutines

mainVars == <<main, nodeReady, count, opened, closed>>
supervisorVars == <<supervisor, failed, ready, joinable, maintenance>>
serverVars == <<server, started>>
vars == <<main, nodeReady, count, opened, closed, cancelled, row, results, supervisor, failed,
          ready, joinable, maintenance, server, started, worker>>

Running == {"idle", "calling", "reporting"}

\* The places of the main goroutine before the workers are started.
Before == {"register", "await", "abort"}
Boot == {"expire", "devices", "quiesce", "listen", "starting", "open", "activate"}

ServeTypeOK ==
    /\ main \in Before \cup Boot \cup {"serve", "stop", "drain", "join", "deactivate", "close",
                                       "done"}
    /\ nodeReady \in BOOLEAN /\ cancelled \in BOOLEAN /\ failed \in BOOLEAN
    /\ joinable \in BOOLEAN /\ started \in BOOLEAN
    /\ count \in Nat /\ results \in Nat
    /\ opened \in 0 .. NumDrivers /\ closed \in 0 .. NumDrivers
    /\ row \in {"none", "registered", "ready", "withdrawn", "lost"}
    /\ supervisor \in {"off", "first", "loop", "joining", "returning", "ended"}
    /\ ready \in {"empty", "ok", "error"}
    /\ maintenance \in {"off", "loop", "ended"}
    /\ server \in {"off", "starting", "serving", "ended"}
    /\ worker \in [Workers -> Running \cup {"off", "ended"}]

Init ==
    /\ main = "register" /\ nodeReady = FALSE
    /\ count = 0 /\ opened = 0 /\ closed = 0
    /\ cancelled = FALSE /\ row = "none" /\ results = 0
    /\ supervisor = "off" /\ failed = FALSE /\ ready = "empty" /\ joinable = FALSE
    /\ maintenance = "off"
    /\ server = "off" /\ started = FALSE
    /\ worker = [w \in Workers |-> "off"]

-----------------------------------------------------------------------------
\* The world: a signal cancels the context Run was given, and another process
\* takes the node over once this one's lease has lapsed.
Signal ==
    /\ main \notin {"register", "done"}
    /\ cancelled' = TRUE
    /\ UNCHANGED <<mainVars, row, results, supervisorVars, serverVars, worker>>

LoseLease ==
    /\ row \in {"registered", "ready"}
    /\ row' = "lost"
    /\ UNCHANGED <<mainVars, cancelled, results, supervisorVars, serverVars, worker>>

-----------------------------------------------------------------------------
\* The main goroutine.
Goto(place) ==
    /\ main' = place
    /\ UNCHANGED <<nodeReady, count, opened, closed, cancelled, row, results,
                   supervisorVars, serverVars, worker>>

RegisterNode ==
    /\ main = "register"
    /\ main' = "await" /\ row' = "registered" /\ supervisor' = "first"
    /\ UNCHANGED <<nodeReady, count, opened, closed, cancelled, results, failed, ready,
                   joinable, maintenance, serverVars, worker>>

\* The first heartbeat has been answered.  If it failed, the cleanup is not
\* installed yet, and Run waits for the supervisor here.
Await ==
    /\ main = "await" /\ ready # "empty"
    /\ main' = IF ready = "ok" THEN "expire" ELSE "abort"
    /\ cancelled' = (cancelled \/ ready = "error")
    /\ UNCHANGED <<nodeReady, count, opened, closed, row, results, supervisorVars,
                   serverVars, worker>>

\* DeactivateNode, which may fail, and is refused under a lost lease.
Withdraw(next) ==
    /\ main' = next
    /\ row' \in IF row \in {"registered", "ready"} THEN {row, "withdrawn"} ELSE {row}
    /\ UNCHANGED <<nodeReady, count, opened, closed, cancelled, results, supervisorVars,
                   serverVars, worker>>

Abort == main = "abort" /\ joinable /\ Withdraw("done")

\* An error of the bootstrap goes to the cleanup.
BootstrapFails ==
    /\ main \in {"register", "expire", "devices", "quiesce", "open", "activate"}
    /\ Goto(IF main = "register" THEN "done" ELSE "stop")

\* The steps of the bootstrap.  A call under a cancelled context fails, and so
\* does one that names the lease after it was lost.
MayGoOn == ~cancelled /\ row = "registered"

ExpireFirst == main = "expire" /\ ~cancelled /\ Goto("devices")
RegisterDevices == main = "devices" /\ MayGoOn /\ Goto("quiesce")
WaitForExecutionQuiescence == main = "quiesce" /\ MayGoOn /\ Goto("listen")

Listen ==
    /\ main = "listen"
    /\ main' = "starting" /\ server' = "starting" /\ count' = count + 1
    /\ UNCHANGED <<nodeReady, opened, closed, cancelled, row, results, supervisorVars,
                   started, worker>>

\* What Run takes from runtimeResults does not count as running any longer.
Uncounted == count - 1

TakeResult(next) ==
    /\ results > 0
    /\ results' = results - 1 /\ count' = Uncounted /\ main' = next
    /\ UNCHANGED <<nodeReady, opened, closed, row, supervisorVars, serverVars, worker>>

ServerFailed == main = "starting" /\ TakeResult("stop") /\ UNCHANGED cancelled
ServerStarted == main = "starting" /\ started /\ results = 0 /\ Goto("open")

OpenDriver ==
    /\ main = "open" /\ opened < NumDrivers /\ ~cancelled
    /\ opened' = opened + 1
    /\ UNCHANGED <<main, nodeReady, count, closed, cancelled, row, results, supervisorVars,
                   serverVars, worker>>

AllOpen == main = "open" /\ opened = NumDrivers /\ Goto("activate")

\* ActivateNode; then the node is ready and the workers start.
ActivateNode ==
    /\ main = "activate" /\ MayGoOn
    /\ main' = "serve" /\ row' = "ready" /\ nodeReady' = TRUE
    /\ worker' = [w \in Workers |-> "idle"]
    /\ count' = count + Cardinality(Workers)
    /\ UNCHANGED <<opened, closed, cancelled, results, supervisorVars, serverVars>>

\* The first of the server and the workers has ended.
Serve == main = "serve" /\ TakeResult("stop") /\ cancelled' = TRUE

\* The deferred cleanup: collect the server and the workers, join the supervisor,
\* withdraw the node, close the drivers.  Mutant: the context is not cancelled.
NotCancelled == cancelled
StopCancels == TRUE
ProbeStops == FALSE

Stop ==
    /\ main = "stop"
    /\ main' = "drain" /\ nodeReady' = ProbeStops /\ cancelled' = StopCancels
    /\ UNCHANGED <<count, opened, closed, row, results, supervisorVars, serverVars, worker>>

\* Mutant: what has ended by now is enough.
NothingToTake == results = 0
AllTaken == count = 0

Drain == main = "drain" /\ ~AllTaken /\ TakeResult("drain") /\ UNCHANGED cancelled
Drained == main = "drain" /\ AllTaken /\ Goto("join")
Join == main = "join" /\ joinable /\ Goto("deactivate")
DeactivateNode == main = "deactivate" /\ Withdraw("close")

CloseDriver ==
    /\ main = "close" /\ closed < opened
    /\ closed' = closed + 1
    /\ UNCHANGED <<main, nodeReady, count, opened, cancelled, row, results, supervisorVars,
                   serverVars, worker>>

Return == main = "close" /\ closed = opened /\ Goto("done")

MainStep ==
    \/ RegisterNode \/ Await \/ Abort \/ BootstrapFails
    \/ ExpireFirst \/ RegisterDevices \/ WaitForExecutionQuiescence
    \/ Listen \/ ServerFailed \/ ServerStarted \/ OpenDriver \/ AllOpen \/ ActivateNode \/ Serve
    \/ Stop \/ Drain \/ Drained \/ Join \/ DeactivateNode \/ CloseDriver \/ Return

-----------------------------------------------------------------------------
\* superviseServeNode.  A heartbeat under a lost lease or a cancelled context
\* fails, and any other may.
Supervise == UNCHANGED <<mainVars, row, results, serverVars, worker>>

FirstHeartbeat ==
    /\ supervisor = "first" /\ row # "lost" /\ ~cancelled
    /\ supervisor' = "loop" /\ ready' = "ok" /\ maintenance' = "loop"
    /\ UNCHANGED <<cancelled, failed, joinable>> /\ Supervise

FirstHeartbeatFails ==
    /\ supervisor = "first"
    /\ supervisor' = "returning" /\ ready' = "error" /\ failed' = TRUE
    /\ UNCHANGED <<cancelled, joinable, maintenance>> /\ Supervise

\* The loop ends; it joins the maintenance goroutine, whose context it cancels.
LeaveLoop(error) ==
    /\ supervisor = "loop"
    /\ supervisor' = "joining" /\ failed' = (failed \/ error)
    /\ UNCHANGED <<cancelled, ready, joinable, maintenance>> /\ Supervise

SeeContextDone == cancelled /\ LeaveLoop(FALSE)
SeeMaintenanceEnd == maintenance = "ended" /\ LeaveLoop(FALSE)
HeartbeatFails == LeaveLoop(TRUE)

JoinMaintenance ==
    /\ supervisor = "joining" /\ maintenance = "ended"
    /\ supervisor' = "returning"
    /\ UNCHANGED <<cancelled, failed, ready, joinable, maintenance>> /\ Supervise

\* Mutant: the process goes on without its lease.
NotTold == cancelled
ToldOnError == cancelled \/ failed

SupervisorReturns ==
    /\ supervisor = "returning"
    /\ supervisor' = "ended" /\ joinable' = TRUE /\ cancelled' = ToldOnError
    /\ UNCHANGED <<failed, ready, maintenance>> /\ Supervise

\* superviseServeMaintenance ends with its context, or with a call that failed,
\* which the supervisor's loop passes on.
MaintenanceStops ==
    /\ maintenance = "loop"
    /\ cancelled \/ supervisor = "joining"
    /\ maintenance' = "ended"
    /\ UNCHANGED <<cancelled, supervisor, failed, ready, joinable>> /\ Supervise

MaintenanceFails ==
    /\ maintenance = "loop"
    /\ maintenance' = "ended"
    /\ failed' = (failed \/ supervisor = "loop")
    /\ UNCHANGED <<cancelled, supervisor, ready, joinable>> /\ Supervise

SupervisorStep ==
    \/ FirstHeartbeat \/ FirstHeartbeatFails \/ SeeContextDone \/ SeeMaintenanceEnd
    \/ JoinMaintenance \/ SupervisorReturns \/ MaintenanceStops

-----------------------------------------------------------------------------
\* The server goroutine.  It ends with its context; an error, or an end that
\* nobody asked for, cancels it.
Serving == UNCHANGED <<mainVars, row, supervisorVars, worker>>

ServerListens ==
    /\ server = "starting"
    /\ server' = "serving" /\ started' = TRUE
    /\ UNCHANGED <<cancelled, results>> /\ Serving

ServerEnds ==
    /\ server \in {"starting", "serving"}
    /\ server' = "ended" /\ results' = results + 1 /\ cancelled' = TRUE
    /\ UNCHANGED started /\ Serving

\* Worker.Run, until the context is done or a call fails.
Working == UNCHANGED <<mainVars, cancelled, row, supervisorVars, serverVars>>

ContextDone == cancelled

TakeWork(w) ==
    /\ worker[w] = "idle" /\ ~ContextDone /\ row = "ready"
    /\ worker' = [worker EXCEPT ![w] = "calling"]
    /\ UNCHANGED results /\ Working

\* The call on the device ends by itself, by its timeout or by its context.
CallEnds(w) ==
    /\ worker[w] = "calling"
    /\ worker' = [worker EXCEPT ![w] = "reporting"]
    /\ UNCHANGED results /\ Working

Reported(w) ==
    /\ worker[w] = "reporting"
    /\ worker' = [worker EXCEPT ![w] = "idle"]
    /\ UNCHANGED results /\ Working

WorkerEnds(w) ==
    /\ worker' = [worker EXCEPT ![w] = "ended"]
    /\ results' = results + 1
    /\ Working

WorkerStops(w) == worker[w] = "idle" /\ ContextDone /\ WorkerEnds(w)
WorkerFails(w) == worker[w] \in {"idle", "reporting"} /\ WorkerEnds(w)

-----------------------------------------------------------------------------
\* The process is gone.
Done == main = "done" /\ UNCHANGED vars

Next ==
    \/ Signal \/ LoseLease \/ MainStep \/ SupervisorStep \/ HeartbeatFails \/ MaintenanceFails
    \/ ServerListens \/ ServerEnds
    \/ \E w \in Workers : \/ TakeWork(w) \/ CallEnds(w) \/ Reported(w)
                          \/ WorkerStops(w) \/ WorkerFails(w)
    \/ Done

Spec == Init /\ [][Next]_vars

\* Every goroutine that can go on does.  A heartbeat is refused once the lease is
\* lost; a server, and an idle worker, end when the context is done; a call on a
\* device and a report end because they are bounded.  Nothing else has to fail.
Fairness ==
    /\ WF_vars(MainStep)
    /\ WF_vars(SupervisorStep)
    /\ WF_vars(row = "lost" /\ HeartbeatFails)
    /\ WF_vars(ServerListens)
    /\ WF_vars(cancelled /\ ServerEnds)
    /\ \A w \in Workers :
          WF_vars(CallEnds(w)) /\ WF_vars(Reported(w)) /\ WF_vars(WorkerStops(w))

FairSpec == Spec /\ Fairness

-----------------------------------------------------------------------------
\* runtimeCount is what Run still has to receive: the server and the workers that
\* run, and the results they have left.  One too many and the cleanup waits
\* forever, one too few and it closes drivers under a worker.
RunningWorkers == {w \in Workers : worker[w] \in Running}
RunningServer == IF server \in {"starting", "serving"} THEN 1 ELSE 0

Counted == count = results + Cardinality(RunningWorkers) + RunningServer

\* A driver is closed only when nothing of the process can use it any more: the
\* workers, the server and the supervisor with its maintenance have ended.
ClosedAfterUse ==
    closed > 0 =>
        /\ RunningWorkers = {}
        /\ server = "ended" /\ supervisor = "ended" /\ maintenance = "ended"

\* Run returns with nothing left behind: no goroutine, no open driver.
LeavesNothing ==
    main = "done" =>
        /\ supervisor \in {"off", "ended"} /\ maintenance \in {"off", "ended"}
        /\ server \in {"off", "ended"} /\ RunningWorkers = {}
        /\ closed = opened

\* Once the context is done, the cleanup has begun or the node is lost to another
\* process, Run returns: no goroutine waits for another that waits for it.
ShutdownCompletes == cancelled \/ main = "stop" \/ row = "lost" ~> main = "done"
=============================================================================
