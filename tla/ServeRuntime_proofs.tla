-------------------------- MODULE ServeRuntime_proofs --------------------------
(***************************************************************************)
(* Proofs about ServeRuntime, for any number of workers and drivers.  The  *)
(* strengthening says, place by place of the main goroutine, which other   *)
(* goroutines can exist, and keeps the two counts: runtimeCount is what is *)
(* left to receive, and it is 0 when the cleanup is past its receive loop. *)
(***************************************************************************)
EXTENDS ServeRuntime, FiniteSetTheorems, TLAPS

\* The supervisor: what its channels and its maintenance goroutine tell of it.
SupervisorStates ==
    /\ main = "register" => supervisor = "off"
    /\ supervisor = "off" => main \in {"register", "done"}
    /\ joinable => supervisor = "ended"
    /\ supervisor \in {"off", "first"} => ready = "empty" /\ maintenance = "off"
    /\ ready = "ok" => maintenance # "off"
    /\ maintenance = "loop" => supervisor \in {"loop", "joining"}

\* The main goroutine: what exists at its places.
MainStates ==
    /\ main \in Before => server = "off" /\ count = 0
    /\ main \in Before \cup (Boot \ {"open", "activate"}) => opened = 0
    /\ main \in Before \cup Boot => worker = [w \in Workers |-> "off"]
    /\ main \notin Before \cup {"done"} => ready = "ok"
    /\ main \in {"expire", "devices", "quiesce", "listen"} => server = "off" /\ count = 0
    /\ main \in {"starting", "open", "activate", "serve"} => server # "off"
    /\ server = "off" => opened = 0
    /\ main \in {"join", "deactivate", "close", "done"} => count = 0
    /\ main \in {"deactivate", "close"} => joinable
    /\ closed > 0 => main \in {"close", "done"} /\ ready = "ok" /\ joinable
    /\ closed <= opened
    /\ main = "done" => closed = opened /\ supervisor \in {"off", "ended"}

ServeInv == ServeTypeOK /\ Counted /\ SupervisorStates /\ MainStates

-----------------------------------------------------------------------------
\* A worker that ends leaves one running worker fewer.
LEMMA OneFewer ==
    ASSUME ServeRuntimeAssumption, NEW w \in Workers,
           worker \in [Workers -> Running \cup {"off", "ended"}], worker[w] \in Running, worker' = [worker EXCEPT ![w] = "ended"]
    PROVE  /\ Cardinality(RunningWorkers) \in Nat
           /\ Cardinality(RunningWorkers') = Cardinality(RunningWorkers) - 1
<1>1. IsFiniteSet(RunningWorkers)
  BY FS_Subset, RunningWorkers \subseteq Workers DEF ServeRuntimeAssumption, RunningWorkers
<1>2. RunningWorkers' = RunningWorkers \ {w}
  BY DEF RunningWorkers, Running
<1>3. w \in RunningWorkers
  BY DEF RunningWorkers
<1> QED
  BY <1>1, <1>2, <1>3, FS_RemoveElement, FS_CardinalityType

\* Their number is a number.
LEMMA RunningCount ==
    ASSUME ServeRuntimeAssumption
    PROVE  /\ IsFiniteSet(RunningWorkers) /\ Cardinality(RunningWorkers) \in Nat
           /\ Cardinality(RunningWorkers) = 0 => RunningWorkers = {}
<1>1. IsFiniteSet(RunningWorkers)
  BY FS_Subset, RunningWorkers \subseteq Workers DEF ServeRuntimeAssumption, RunningWorkers
<1> QED
  BY <1>1, FS_CardinalityType, FS_EmptySet

LEMMA ServeInit == ServeRuntimeAssumption /\ Init => ServeInv
<1> SUFFICES ASSUME ServeRuntimeAssumption, Init PROVE ServeInv
  OBVIOUS
<1>1. RunningWorkers = {}
  BY DEF Init, RunningWorkers, Running
<1>2. Counted
  BY <1>1, FS_EmptySet DEF Init, Counted, RunningServer
<1>3. ServeTypeOK
  <2>1. worker \in [Workers -> Running \cup {"off", "ended"}]
    BY DEF Init
  <2>2. /\ nodeReady \in BOOLEAN /\ cancelled \in BOOLEAN /\ failed \in BOOLEAN
        /\ joinable \in BOOLEAN /\ started \in BOOLEAN
    BY Zenon DEF Init
  <2> QED
    BY <2>1, <2>2 DEF Init, ServeTypeOK, Before, Boot, ServeRuntimeAssumption
<1>4. SupervisorStates /\ MainStates
  BY DEF Init, SupervisorStates, MainStates, Before, Boot
<1> QED
  BY <1>2, <1>3, <1>4 DEF ServeInv

\* A step that changes none of what is counted keeps the count.
LEMMA CountKept ==
    ASSUME Counted, UNCHANGED <<count, results, RunningWorkers, RunningServer>>
    PROVE  Counted'
BY DEF Counted

-----------------------------------------------------------------------------
\* The steps of the main goroutine.
LEMMA MainStepInv ==
    ASSUME ServeRuntimeAssumption, ServeInv, MainStep
    PROVE  ServeInv'
<1> USE DEF ServeInv, serverVars, supervisorVars
<1>0. UNCHANGED <<failed, ready, joinable, maintenance, started>>
  BY
     DEF MainStep, RegisterNode, Await, Abort, BootstrapFails, ExpireFirst,
         RegisterDevices, WaitForExecutionQuiescence, Listen, ServerFailed, ServerStarted,
         OpenDriver, AllOpen, ActivateNode, Serve, Stop, Drain, Drained, Join,
         DeactivateNode, CloseDriver, Return, Goto, Withdraw, TakeResult
<1>1. CASE RegisterNode
  <2>1. Counted'
    BY <1>1, CountKept DEF RegisterNode, RunningWorkers, RunningServer
  <2>2. ServeTypeOK'
    BY <1>1 DEF RegisterNode, ServeTypeOK, Before, Boot
  <2>3. SupervisorStates'
    BY <1>0, <1>1 DEF RegisterNode, SupervisorStates, Before, Boot
  <2>4. MainStates'
    BY <1>0, <1>1 DEF RegisterNode, SupervisorStates, MainStates, ServeTypeOK, Before, Boot
  <2> QED
    BY <2>1, <2>2, <2>3, <2>4
<1>2. CASE Await
  <2>1. Counted'
    BY <1>2, CountKept DEF Await, RunningWorkers, RunningServer
  <2>2. ServeTypeOK'
    BY <1>2 DEF Await, ServeTypeOK, Before, Boot
  <2>3. SupervisorStates'
    BY <1>0, <1>2 DEF Await, SupervisorStates, Before, Boot
  <2>4. MainStates'
    BY <1>0, <1>2 DEF Await, SupervisorStates, MainStates, ServeTypeOK, Before, Boot
  <2> QED
    BY <2>1, <2>2, <2>3, <2>4
<1>3. CASE Abort
  <2>1. Counted'
    BY <1>3, CountKept DEF Abort, Withdraw, RunningWorkers, RunningServer
  <2>2. ServeTypeOK'
    BY <1>3 DEF Abort, Withdraw, ServeTypeOK, Before, Boot
  <2>3. SupervisorStates'
    BY <1>0, <1>3 DEF Abort, Withdraw, SupervisorStates, Before, Boot
  <2>4. MainStates'
    BY <1>0, <1>3 DEF Abort, Withdraw, SupervisorStates, MainStates, ServeTypeOK, Before, Boot
  <2> QED
    BY <2>1, <2>2, <2>3, <2>4
<1>4. CASE BootstrapFails
  <2>1. Counted'
    BY <1>4, CountKept DEF BootstrapFails, Goto, RunningWorkers, RunningServer
  <2>2. ServeTypeOK'
    BY <1>4 DEF BootstrapFails, Goto, ServeTypeOK, Before, Boot
  <2>3. SupervisorStates'
    BY <1>0, <1>4 DEF BootstrapFails, Goto, SupervisorStates, Before, Boot
  <2>4. MainStates'
    BY <1>0, <1>4 DEF BootstrapFails, Goto, SupervisorStates, MainStates, ServeTypeOK, Before, Boot
  <2> QED
    BY <2>1, <2>2, <2>3, <2>4
<1>5. CASE ExpireFirst
  <2>1. Counted'
    BY <1>5, CountKept DEF ExpireFirst, Goto, RunningWorkers, RunningServer
  <2>2. ServeTypeOK'
    BY <1>5 DEF ExpireFirst, Goto, ServeTypeOK, Before, Boot
  <2>3. SupervisorStates'
    BY <1>0, <1>5 DEF ExpireFirst, Goto, SupervisorStates, Before, Boot
  <2>4. MainStates'
    BY <1>0, <1>5 DEF ExpireFirst, Goto, SupervisorStates, MainStates, ServeTypeOK, Before, Boot
  <2> QED
    BY <2>1, <2>2, <2>3, <2>4
<1>6. CASE RegisterDevices
  <2>1. Counted'
    BY <1>6, CountKept DEF RegisterDevices, Goto, RunningWorkers, RunningServer
  <2>2. ServeTypeOK'
    BY <1>6 DEF RegisterDevices, Goto, ServeTypeOK, Before, Boot
  <2>3. SupervisorStates'
    BY <1>0, <1>6 DEF RegisterDevices, Goto, SupervisorStates, Before, Boot
  <2>4. MainStates'
    BY <1>0, <1>6 DEF RegisterDevices, Goto, SupervisorStates, MainStates, ServeTypeOK, Before, Boot
  <2> QED
    BY <2>1, <2>2, <2>3, <2>4
<1>7. CASE WaitForExecutionQuiescence
  <2>1. Counted'
    BY <1>7, CountKept DEF WaitForExecutionQuiescence, Goto, RunningWorkers, RunningServer
  <2>2. ServeTypeOK'
    BY <1>7 DEF WaitForExecutionQuiescence, Goto, ServeTypeOK, Before, Boot
  <2>3. SupervisorStates'
    BY <1>0, <1>7 DEF WaitForExecutionQuiescence, Goto, SupervisorStates, Before, Boot
  <2>4. MainStates'
    BY <1>0, <1>7
       DEF WaitForExecutionQuiescence, Goto, SupervisorStates, MainStates, ServeTypeOK,
           Before, Boot
  <2> QED
    BY <2>1, <2>2, <2>3, <2>4
<1>8. CASE Listen
  <2>1. Counted'
    BY <1>8, RunningCount
       DEF Listen, Counted, RunningWorkers, RunningServer, ServeTypeOK, MainStates
  <2>2. ServeTypeOK'
    BY <1>8 DEF Listen, ServeTypeOK, Before, Boot
  <2>3. SupervisorStates'
    BY <1>0, <1>8 DEF Listen, SupervisorStates, Before, Boot
  <2>4. MainStates'
    BY <1>0, <1>8 DEF Listen, SupervisorStates, MainStates, ServeTypeOK, Before, Boot
  <2> QED
    BY <2>1, <2>2, <2>3, <2>4
<1>9. CASE ServerFailed
  <2>1. Counted'
    BY <1>9, RunningCount
       DEF ServerFailed, TakeResult, Uncounted, Counted, RunningWorkers, RunningServer,
           ServeTypeOK
  <2>2. ServeTypeOK'
    BY <1>9, RunningCount
       DEF ServerFailed, TakeResult, Uncounted, Counted, RunningServer, ServeTypeOK,
           Before, Boot
  <2>3. SupervisorStates'
    BY <1>0, <1>9 DEF ServerFailed, TakeResult, Uncounted, SupervisorStates, Before, Boot
  <2>4. MainStates'
    BY <1>0, <1>9
       DEF ServerFailed, TakeResult, Uncounted, SupervisorStates, MainStates,
           ServeTypeOK, Before, Boot
  <2> QED
    BY <2>1, <2>2, <2>3, <2>4
<1>10. CASE ServerStarted
  <2>1. Counted'
    BY <1>10, CountKept DEF ServerStarted, Goto, RunningWorkers, RunningServer
  <2>2. ServeTypeOK'
    BY <1>10 DEF ServerStarted, Goto, ServeTypeOK, Before, Boot
  <2>3. SupervisorStates'
    BY <1>0, <1>10 DEF ServerStarted, Goto, SupervisorStates, Before, Boot
  <2>4. MainStates'
    BY <1>0, <1>10 DEF ServerStarted, Goto, SupervisorStates, MainStates, ServeTypeOK, Before, Boot
  <2> QED
    BY <2>1, <2>2, <2>3, <2>4
<1>11. CASE OpenDriver
  <2>1. Counted'
    BY <1>11, CountKept DEF OpenDriver, RunningWorkers, RunningServer
  <2>2. ServeTypeOK'
    BY <1>11 DEF OpenDriver, ServeTypeOK, Before, Boot, ServeRuntimeAssumption
  <2>3. SupervisorStates'
    BY <1>0, <1>11 DEF OpenDriver, SupervisorStates, Before, Boot
  <2>4. MainStates'
    BY <1>0, <1>11 DEF OpenDriver, SupervisorStates, MainStates, ServeTypeOK, Before, Boot
  <2> QED
    BY <2>1, <2>2, <2>3, <2>4
<1>12. CASE AllOpen
  <2>1. Counted'
    BY <1>12, CountKept DEF AllOpen, Goto, RunningWorkers, RunningServer
  <2>2. ServeTypeOK'
    BY <1>12 DEF AllOpen, Goto, ServeTypeOK, Before, Boot
  <2>3. SupervisorStates'
    BY <1>0, <1>12 DEF AllOpen, Goto, SupervisorStates, Before, Boot
  <2>4. MainStates'
    BY <1>0, <1>12 DEF AllOpen, Goto, SupervisorStates, MainStates, ServeTypeOK, Before, Boot
  <2> QED
    BY <2>1, <2>2, <2>3, <2>4
<1>13. CASE ActivateNode
  <2>1. Counted'
    <3>1. RunningWorkers = {} /\ RunningWorkers' = Workers
      BY <1>13 DEF ActivateNode, RunningWorkers, Running, MainStates, Boot
    <3>2. RunningServer' = RunningServer
      BY <1>13 DEF ActivateNode, RunningServer
    <3> QED
      BY <1>13, <3>1, <3>2, FS_EmptySet, FS_CardinalityType
         DEF ActivateNode, Counted, RunningServer, ServeTypeOK, ServeRuntimeAssumption
  <2>2. ServeTypeOK'
    <3>1. worker' \in [Workers -> Running \cup {"off", "ended"}]
      BY <1>13 DEF ActivateNode, Running
    <3>2. count' \in Nat
      BY <1>13, FS_CardinalityType DEF ActivateNode, ServeTypeOK, ServeRuntimeAssumption
    <3> QED
      BY <1>13, <3>1, <3>2 DEF ActivateNode, ServeTypeOK, Before, Boot
  <2>3. SupervisorStates'
    BY <1>0, <1>13 DEF ActivateNode, SupervisorStates, Before, Boot
  <2>4. MainStates'
    BY <1>0, <1>13 DEF ActivateNode, SupervisorStates, MainStates, ServeTypeOK, Before, Boot
  <2> QED
    BY <2>1, <2>2, <2>3, <2>4
<1>14. CASE Serve
  <2>1. Counted'
    BY <1>14, RunningCount
       DEF Serve, TakeResult, Uncounted, Counted, RunningWorkers, RunningServer,
           ServeTypeOK
  <2>2. ServeTypeOK'
    BY <1>14, RunningCount
       DEF Serve, TakeResult, Uncounted, Counted, RunningServer, ServeTypeOK, Before,
           Boot
  <2>3. SupervisorStates'
    BY <1>0, <1>14 DEF Serve, TakeResult, Uncounted, SupervisorStates, Before, Boot
  <2>4. MainStates'
    BY <1>0, <1>14
       DEF Serve, TakeResult, Uncounted, SupervisorStates, MainStates, ServeTypeOK,
           Before, Boot
  <2> QED
    BY <2>1, <2>2, <2>3, <2>4
<1>15. CASE Stop
  <2>1. Counted'
    BY <1>15, CountKept DEF Stop, RunningWorkers, RunningServer
  <2>2. ServeTypeOK'
    <3>1. main' = "drain" /\ nodeReady' = FALSE /\ cancelled' = TRUE
      BY <1>15 DEF Stop, StopCancels, ProbeStops
    <3>2. /\ UNCHANGED <<count, opened, closed, row, results>>
          /\ UNCHANGED <<supervisor, failed, ready, joinable, maintenance>>
          /\ UNCHANGED <<server, started, worker>>
      BY <1>15 DEF Stop, supervisorVars, serverVars
    <3>3. ServeTypeOK
      BY DEF ServeInv
    <3> HIDE DEF ServeInv, MainStep
    <3>4. main' \in Before \cup Boot \cup {"serve", "stop", "drain", "join", "deactivate",
                                          "close", "done"}
      BY <3>1
    <3>5. nodeReady' \in BOOLEAN /\ cancelled' \in BOOLEAN
      BY <3>1
    <3>6. /\ failed' \in BOOLEAN /\ joinable' \in BOOLEAN /\ started' \in BOOLEAN
          /\ count' \in Nat /\ results' \in Nat
          /\ opened' \in 0 .. NumDrivers /\ closed' \in 0 .. NumDrivers
      BY <3>2, <3>3 DEF ServeTypeOK
    <3>7. /\ row' \in {"none", "registered", "ready", "withdrawn", "lost"}
          /\ supervisor' \in {"off", "first", "loop", "joining", "returning", "ended"}
          /\ ready' \in {"empty", "ok", "error"}
          /\ maintenance' \in {"off", "loop", "ended"}
          /\ server' \in {"off", "starting", "serving", "ended"}
          /\ worker' \in [Workers -> Running \cup {"off", "ended"}]
      BY <3>2, <3>3 DEF ServeTypeOK
    <3> QED
      BY <3>4, <3>5, <3>6, <3>7 DEF ServeTypeOK
  <2>3. SupervisorStates'
    BY <1>0, <1>15 DEF Stop, SupervisorStates, Before, Boot
  <2>4. MainStates'
    BY <1>0, <1>15 DEF Stop, SupervisorStates, MainStates, ServeTypeOK, Before, Boot
  <2> QED
    BY <2>1, <2>2, <2>3, <2>4
<1>16. CASE Drain
  <2>1. Counted'
    BY <1>16, RunningCount
       DEF Drain, TakeResult, Uncounted, Counted, RunningWorkers, RunningServer,
           ServeTypeOK
  <2>2. ServeTypeOK'
    BY <1>16, RunningCount
       DEF Drain, TakeResult, Uncounted, Counted, RunningServer, ServeTypeOK, Before,
           Boot
  <2>3. SupervisorStates'
    BY <1>0, <1>16 DEF Drain, TakeResult, Uncounted, AllTaken, SupervisorStates, Before, Boot
  <2>4. MainStates'
    BY <1>0, <1>16
       DEF Drain, TakeResult, Uncounted, AllTaken, SupervisorStates, MainStates,
           ServeTypeOK, Before, Boot
  <2> QED
    BY <2>1, <2>2, <2>3, <2>4
<1>17. CASE Drained
  <2>1. Counted'
    BY <1>17, CountKept DEF Drained, Goto, RunningWorkers, RunningServer
  <2>2. ServeTypeOK'
    BY <1>17 DEF Drained, Goto, ServeTypeOK, Before, Boot
  <2>3. SupervisorStates'
    BY <1>0, <1>17 DEF Drained, Goto, AllTaken, SupervisorStates, Before, Boot
  <2>4. MainStates'
    BY <1>0, <1>17
       DEF Drained, Goto, AllTaken, SupervisorStates, MainStates, ServeTypeOK, Before,
           Boot
  <2> QED
    BY <2>1, <2>2, <2>3, <2>4
<1>18. CASE Join
  <2>1. Counted'
    BY <1>18, CountKept DEF Join, Goto, RunningWorkers, RunningServer
  <2>2. ServeTypeOK'
    BY <1>18 DEF Join, Goto, ServeTypeOK, Before, Boot
  <2>3. SupervisorStates'
    BY <1>0, <1>18 DEF Join, Goto, SupervisorStates, Before, Boot
  <2>4. MainStates'
    BY <1>0, <1>18 DEF Join, Goto, SupervisorStates, MainStates, ServeTypeOK, Before, Boot
  <2> QED
    BY <2>1, <2>2, <2>3, <2>4
<1>19. CASE DeactivateNode
  <2>1. Counted'
    BY <1>19, CountKept DEF DeactivateNode, Withdraw, RunningWorkers, RunningServer
  <2>2. ServeTypeOK'
    BY <1>19 DEF DeactivateNode, Withdraw, ServeTypeOK, Before, Boot
  <2>3. SupervisorStates'
    BY <1>0, <1>19 DEF DeactivateNode, Withdraw, SupervisorStates, Before, Boot
  <2>4. MainStates'
    BY <1>0, <1>19
       DEF DeactivateNode, Withdraw, SupervisorStates, MainStates, ServeTypeOK, Before,
           Boot
  <2> QED
    BY <2>1, <2>2, <2>3, <2>4
<1>20. CASE CloseDriver
  <2>1. Counted'
    BY <1>20, CountKept DEF CloseDriver, RunningWorkers, RunningServer
  <2>2. ServeTypeOK'
    BY <1>20 DEF CloseDriver, ServeTypeOK, Before, Boot, ServeRuntimeAssumption
  <2>3. SupervisorStates'
    BY <1>0, <1>20 DEF CloseDriver, SupervisorStates, Before, Boot
  <2>4. MainStates'
    BY <1>0, <1>20 DEF CloseDriver, SupervisorStates, MainStates, ServeTypeOK, Before, Boot
  <2> QED
    BY <2>1, <2>2, <2>3, <2>4
<1>21. CASE Return
  <2>1. Counted'
    BY <1>21, CountKept DEF Return, Goto, RunningWorkers, RunningServer
  <2>2. ServeTypeOK'
    BY <1>21 DEF Return, Goto, ServeTypeOK, Before, Boot
  <2>3. SupervisorStates'
    BY <1>0, <1>21 DEF Return, Goto, SupervisorStates, Before, Boot
  <2>4. MainStates'
    BY <1>0, <1>21 DEF Return, Goto, SupervisorStates, MainStates, ServeTypeOK, Before, Boot
  <2> QED
    BY <2>1, <2>2, <2>3, <2>4
<1> QED
  BY <1>1, <1>2, <1>3, <1>4, <1>5, <1>6, <1>7, <1>8, <1>9, <1>10,
     <1>11, <1>12, <1>13, <1>14, <1>15, <1>16, <1>17, <1>18, <1>19, <1>20, <1>21
     DEF MainStep

\* The steps of the supervisor and of the maintenance loop.
LEMMA SupervisorStepInv ==
    ASSUME ServeInv, SupervisorStep \/ HeartbeatFails \/ MaintenanceFails
    PROVE  ServeInv'
<1> USE DEF ServeInv
<1>1. UNCHANGED <<mainVars, row, results, serverVars, worker>>
  BY
     DEF SupervisorStep, FirstHeartbeat, FirstHeartbeatFails, SeeContextDone,
         SeeMaintenanceEnd, JoinMaintenance, SupervisorReturns, MaintenanceStops,
         HeartbeatFails, MaintenanceFails, LeaveLoop, Supervise
<1>2. Counted'
  BY <1>1, CountKept DEF mainVars, serverVars, RunningWorkers, RunningServer
<1>3. ServeTypeOK'
  <2>1. /\ nodeReady' \in BOOLEAN /\ cancelled' \in BOOLEAN /\ failed' \in BOOLEAN
        /\ joinable' \in BOOLEAN /\ started' \in BOOLEAN
    BY <1>1, Zenon
       DEF mainVars, serverVars, ServeTypeOK, SupervisorStep, FirstHeartbeat,
           FirstHeartbeatFails, SeeContextDone, SeeMaintenanceEnd, JoinMaintenance,
           SupervisorReturns, MaintenanceStops, HeartbeatFails, MaintenanceFails,
           LeaveLoop, ToldOnError
  <2> QED
    BY <1>1, <2>1
       DEF mainVars, serverVars, ServeTypeOK, SupervisorStep, FirstHeartbeat,
           FirstHeartbeatFails, SeeContextDone, SeeMaintenanceEnd, JoinMaintenance,
           SupervisorReturns, MaintenanceStops, HeartbeatFails, MaintenanceFails,
           LeaveLoop, ToldOnError, Before, Boot, Running
<1>4. SupervisorStates' /\ MainStates'
  BY <1>1
     DEF mainVars, serverVars, ServeTypeOK, SupervisorStates, MainStates, SupervisorStep,
         FirstHeartbeat, FirstHeartbeatFails, SeeContextDone, SeeMaintenanceEnd,
         JoinMaintenance, SupervisorReturns, MaintenanceStops, HeartbeatFails,
         MaintenanceFails, LeaveLoop, Before, Boot
<1> QED
  BY <1>2, <1>3, <1>4

\* The steps of the server.
LEMMA ServerStepInv ==
    ASSUME ServeRuntimeAssumption, ServeInv, ServerListens \/ ServerEnds
    PROVE  ServeInv'
<1> USE DEF ServeInv
<1>1. UNCHANGED <<mainVars, row, supervisorVars, worker>>
  BY DEF ServerListens, ServerEnds, Serving
<1>2. Counted'
  BY <1>1, RunningCount
     DEF mainVars, Counted, RunningWorkers, RunningServer, ServerListens, ServerEnds,
         ServeTypeOK
<1>3. ServeTypeOK'
  <2>1. /\ nodeReady' \in BOOLEAN /\ cancelled' \in BOOLEAN /\ failed' \in BOOLEAN
        /\ joinable' \in BOOLEAN /\ started' \in BOOLEAN
    BY <1>1, Zenon DEF mainVars, supervisorVars, ServeTypeOK, ServerListens, ServerEnds
  <2> QED
    BY <1>1, <2>1
       DEF mainVars, supervisorVars, ServeTypeOK, ServerListens, ServerEnds, Before,
           Boot, Running
<1>4. SupervisorStates'
  BY <1>1 DEF mainVars, supervisorVars, SupervisorStates
<1>5. MainStates'
  BY <1>1 DEF mainVars, supervisorVars, MainStates, ServerListens, ServerEnds, Before, Boot
<1> QED
  BY <1>2, <1>3, <1>4, <1>5

\* The steps of a worker.
LEMMA WorkerStepInv ==
    ASSUME ServeRuntimeAssumption, ServeInv, NEW w \in Workers,
           TakeWork(w) \/ CallEnds(w) \/ Reported(w) \/ WorkerStops(w) \/ WorkerFails(w)
    PROVE  ServeInv'
<1> USE DEF ServeInv
<1>1. UNCHANGED <<mainVars, cancelled, row, supervisorVars, serverVars>>
  BY DEF TakeWork, CallEnds, Reported, WorkerStops, WorkerFails, WorkerEnds, Working
<1>2. worker[w] \in Running
  BY DEF TakeWork, CallEnds, Reported, WorkerStops, WorkerFails, Running
<1>3. Counted' /\ ServeTypeOK'
  <2>1. CASE TakeWork(w) \/ CallEnds(w) \/ Reported(w)
    <3>1. worker' \in [Workers -> Running \cup {"off", "ended"}] /\ results' = results
      BY <2>1 DEF TakeWork, CallEnds, Reported, ServeTypeOK, Running
    <3>2. RunningWorkers' = RunningWorkers
      BY <2>1 DEF TakeWork, CallEnds, Reported, ServeTypeOK, Running, RunningWorkers
    <3> QED
      BY <1>1, <3>1, <3>2, CountKept
         DEF mainVars, supervisorVars, serverVars, ServeTypeOK, RunningServer
  <2>2. CASE WorkerStops(w) \/ WorkerFails(w)
    <3>1. worker' = [worker EXCEPT ![w] = "ended"] /\ results' = results + 1
      BY <2>2 DEF WorkerStops, WorkerFails, WorkerEnds
    <3>2. /\ Cardinality(RunningWorkers) \in Nat
          /\ Cardinality(RunningWorkers') = Cardinality(RunningWorkers) - 1
      BY <1>2, <3>1, OneFewer DEF ServeTypeOK
    <3>3. Counted'
      BY <1>1, <3>1, <3>2 DEF mainVars, serverVars, ServeTypeOK, Counted, RunningServer
    <3>4. worker' \in [Workers -> Running \cup {"off", "ended"}]
      BY <3>1 DEF ServeTypeOK
    <3> QED
      BY <1>1, <3>1, <3>3, <3>4 DEF mainVars, supervisorVars, serverVars, ServeTypeOK
  <2> QED
    BY <2>1, <2>2
<1>4. SupervisorStates'
  BY <1>1 DEF mainVars, supervisorVars, SupervisorStates
<1>5. MainStates'
  <2>1. main \notin Before \cup Boot
    BY <1>2 DEF MainStates, Running
  <2> QED
    BY <1>1, <2>1 DEF mainVars, supervisorVars, serverVars, MainStates
<1> QED
  BY <1>3, <1>4, <1>5

\* Every step keeps the invariant.
LEMMA ServeNext ==
    ASSUME ServeRuntimeAssumption, ServeInv, [Next]_vars
    PROVE  ServeInv'
<1>1. CASE Signal \/ LoseLease \/ UNCHANGED vars
  <2>1. UNCHANGED <<mainVars, results, supervisorVars, serverVars, worker>>
    BY <1>1 DEF Signal, LoseLease, vars, mainVars, supervisorVars, serverVars
  <2>2. Counted'
    BY <2>1, CountKept DEF ServeInv, mainVars, serverVars, RunningWorkers, RunningServer
  <2>3. ServeTypeOK'
    <3>1. cancelled' \in BOOLEAN
      BY <1>1, <2>1, Zenon DEF ServeInv, Signal, LoseLease, vars, ServeTypeOK
    <3> QED
      BY <1>1, <2>1, <3>1
         DEF ServeInv, Signal, LoseLease, vars, mainVars, supervisorVars, serverVars,
             ServeTypeOK, Before, Boot, Running
  <2> QED
    BY <2>1, <2>2, <2>3
       DEF ServeInv, mainVars, supervisorVars, serverVars, SupervisorStates, MainStates
<1> QED
  BY <1>1, MainStepInv, SupervisorStepInv, ServerStepInv, WorkerStepInv DEF Next, Done

\* The invariant of every process.
LEMMA ServeInvariant == Spec => []ServeInv
<1>1. Init => ServeInv
  BY ServeInit, ServeRuntimeAssumption
<1>2. ServeInv /\ [Next]_vars => ServeInv'
  BY ServeNext, ServeRuntimeAssumption
<1> QED
  BY <1>1, <1>2, PTL DEF Spec

-----------------------------------------------------------------------------
\* Every variable of the process has its type; no receive takes runtimeCount below
\* zero (ServeBootstrap.Run).
THEOREM ServeTypeCorrect == Spec => []ServeTypeOK
<1>1. ServeInv => ServeTypeOK
  BY DEF ServeInv
<1> QED
  BY <1>1, ServeInvariant, PTL

\* runtimeCount is what is left to receive of the server and the workers, so the
\* receive loop of the cleanup ends exactly when they have all ended.
THEOREM RuntimeCounted == Spec => []Counted
<1>1. ServeInv => Counted
  BY DEF ServeInv
<1> QED
  BY <1>1, ServeInvariant, PTL

\* The cleanup closes a driver only when the workers, the server, the supervisor
\* and its maintenance loop have ended.
THEOREM ClosesLast == Spec => []ClosedAfterUse
<1>1. ServeInv => ClosedAfterUse
  <2> SUFFICES ASSUME ServeInv, closed > 0 PROVE ClosedAfterUse
    BY DEF ClosedAfterUse
  <2>1. count = 0 /\ ready = "ok" /\ joinable /\ opened > 0
    BY DEF ServeInv, MainStates, ServeTypeOK
  <2>2. Cardinality(RunningWorkers) = 0 /\ RunningServer = 0
    BY <2>1, RunningCount, ServeRuntimeAssumption DEF ServeInv, Counted, ServeTypeOK, RunningServer
  <2>3. RunningWorkers = {}
    BY <2>2, RunningCount, ServeRuntimeAssumption
  <2>4. server = "ended"
    BY <2>1, <2>2 DEF ServeInv, MainStates, ServeTypeOK, RunningServer
  <2>5. supervisor = "ended" /\ maintenance = "ended"
    BY <2>1 DEF ServeInv, SupervisorStates, ServeTypeOK
  <2> QED
    BY <2>3, <2>4, <2>5 DEF ClosedAfterUse
<1> QED
  BY <1>1, ServeInvariant, PTL

\* Run returns with every goroutine ended and every driver it opened closed.
THEOREM ReturnsClean == Spec => []LeavesNothing
<1>1. ServeInv => LeavesNothing
  <2> SUFFICES ASSUME ServeInv, main = "done" PROVE LeavesNothing
    BY DEF LeavesNothing
  <2>1. count = 0 /\ supervisor \in {"off", "ended"} /\ closed = opened
    BY DEF ServeInv, MainStates
  <2>2. Cardinality(RunningWorkers) = 0 /\ RunningServer = 0
    BY <2>1, RunningCount, ServeRuntimeAssumption DEF ServeInv, Counted, ServeTypeOK, RunningServer
  <2>3. RunningWorkers = {}
    BY <2>2, RunningCount, ServeRuntimeAssumption
  <2>4. server \in {"off", "ended"} /\ maintenance \in {"off", "ended"}
    BY <2>1, <2>2 DEF ServeInv, SupervisorStates, ServeTypeOK, RunningServer
  <2> QED
    BY <2>1, <2>3, <2>4 DEF LeavesNothing
<1> QED
  BY <1>1, ServeInvariant, PTL
=============================================================================
