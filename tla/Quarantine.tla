------------------------------ MODULE Quarantine ------------------------------
(***************************************************************************)
(* The boundary between an older process and new physical device work: a   *)
(* process opens the drivers of its devices only after                     *)
(* WaitForExecutionQuiescence, when no input of an earlier epoch of its    *)
(* node executes any longer, and RecoverAmbiguousInputs settles such an    *)
(* input only when a full operation window (--worker-timeout) has passed   *)
(* since it started, so that the call of the older process is over.        *)
(*                                                                         *)
(* The module adds to SessionStore what happens outside the database: the  *)
(* calls on the devices, and which drivers are open.  A call ends within   *)
(* the operation window; a worker reports when its call has ended.         *)
(***************************************************************************)
EXTENDS SessionStore

VARIABLES
    calling,    \* the calls on devices that run: whose they are, and for which work
    openDriver  \* the devices whose driver a process has opened

quarantineVars == <<node, lease, owner, session, device, job, frame, content, events, idem,
                    inputWork, frameWork, calling, openDriver>>

QuarantineInit ==
    /\ Init
    /\ calling = {}
    /\ openDriver = [p \in Procs |-> {}]

Call == [by : Lease, work : InputWork]
Calls(w) == {c \in calling : c.work = w}
DeviceOf(w) == session[job[w.input].session].device

\* A worker works only for a device its process has opened.
StartCall(p, w) ==
    /\ lease[p] # NoLease /\ lease[p].epoch = w.epoch
    /\ StartInput(w)
    /\ DeviceOf(w) \in openDriver[p]
    /\ session[job[w.input].session].node = lease[p].node
    /\ calling' = calling \cup {[by |-> lease[p], work |-> w]}
    /\ UNCHANGED openDriver

EndCall(c) ==
    /\ calling' = calling \ {c}
    /\ UNCHANGED <<vars, openDriver>>

Report(w) ==
    /\ Calls(w) = {}
    /\ CompleteInputExpired(w) \/ \E type \in Outcomes : CompleteInput(w, type)
    /\ UNCHANGED <<calling, openDriver>>

\* started_at < clock_timestamp() - olderThan: the window is over.  Mutant: the
\* recovery does not wait for it.
AtOnce(i) == TRUE
WindowOver(i) == \A c \in calling : c.work.input # i

Recover(p, i) ==
    /\ WindowOver(i)
    /\ RecoverAmbiguousInput(p, i)
    /\ UNCHANGED <<calling, openDriver>>

\* WaitForExecutionQuiescence: no input an earlier epoch started still executes.
Quiescent(l) ==
    \A i \in Inputs :
        job[i].state = "executing" /\ job[i].epoch = l.epoch => job[i].claimedEpoch = l.epoch

OpenDriver(p, d) ==
    /\ LeaseLive(lease[p]) /\ owner[d] = lease[p]
    /\ Quiescent(lease[p])
    /\ openDriver' = [openDriver EXCEPT ![p] = @ \cup {d}]
    /\ UNCHANGED <<vars, calling>>

\* The drivers of a process are closed before it is gone.
QuarantineNext ==
    \/ /\ SessionStep
       /\ openDriver' = [p \in Procs |-> IF lease'[p] = NoLease THEN {} ELSE openDriver[p]]
       /\ UNCHANGED calling
    \/ \E p \in Procs, w \in inputWork : StartCall(p, w)
    \/ \E w \in inputWork : Report(w)
    \/ \E c \in calling : EndCall(c)
    \/ \E p \in Procs, i \in Inputs : Recover(p, i)
    \/ \E p \in Procs, d \in Devices : OpenDriver(p, d)

QuarantineSpec == QuarantineInit /\ [][QuarantineNext]_quarantineVars

\* A call ends within the operation window; a worker that has started an input then
\* reports it, whatever became of the request that asked for it (finishInput in
\* internal/server/worker.go runs under a context without cancel); the maintenance
\* loop of a live process expires sessions, for which any process that stays up is
\* enough, and recovers inputs; time passes.
WorkerSpec ==
    /\ QuarantineSpec
    /\ \A s \in Sessions : WF_vars(ExpireSession(s))
    /\ \A n \in Nodes : WF_vars(Tick(n) /\ UNCHANGED sessionVars)
    /\ \A i \in Inputs :
          /\ WF_quarantineVars(\E c \in calling : c.work.input = i /\ EndCall(c))
          /\ WF_quarantineVars(\E w \in inputWork : w.input = i /\ Report(w))
          /\ WF_quarantineVars(\E p \in Procs : Recover(p, i))

-----------------------------------------------------------------------------
\* The calls of other processes on a device.
OlderCalls(p, d) == {c \in calling : DeviceOf(c.work) = d /\ c.by # lease[p]}

\* When a process opens the driver of a device, no call of an older process runs on
\* it whose session is still open (WaitForExecutionQuiescence).
OpensAfterOlderCalls ==
    [][\A p \in Procs : \A d \in openDriver'[p] \ openDriver[p] :
          \A c \in OlderCalls(p, d) : session[job[c.work.input].session].status = "released"
      ]_quarantineVars

=============================================================================
