----------------------------- MODULE SessionStore -----------------------------
(***************************************************************************)
(* The fenced DeviceSession state machine that internal/sessionstore keeps *)
(* in PostgreSQL: sessions, the device rows that point at them, the queue  *)
(* of device inputs, the frame jobs, the event log and the idempotency     *)
(* rows.  It extends NodeLease, whose node and device ownership rows the   *)
(* same transactions read.                                                 *)
(*                                                                         *)
(* One committed transaction is one action: the store runs them at         *)
(* SERIALIZABLE under row locks.  A transaction that ends in an error is   *)
(* rolled back and is no step.  ClaimFrame and ClaimInput are single       *)
(* statements at READ COMMITTED and atomic here; module ConcurrentClaim    *)
(* takes ClaimInput apart.                                                 *)
(*                                                                         *)
(* Abstractions.  One tenant and one principal.  A request presents the    *)
(* session's current token binding, generation and fence (any other is     *)
(* refused without effect).  Of time only the session's expiry is kept: a  *)
(* claim may have lapsed, and an executing input may be old enough to be   *)
(* recovered, whenever a call asks.  owner_node_id of the jobs and         *)
(* claimed_by always equal the session's node and are not kept apart from  *)
(* it.  The log is a set of numbered events; a new event takes             *)
(* MAX(sequence)+1, as in the code.                                        *)
(***************************************************************************)
EXTENDS NodeLease, FiniteSets, FiniteSetsExt

CONSTANTS
    Sessions,          \* session identities, drawn by Acquire
    NumInputs,         \* bound on the input requests of all sessions
    NoSession,         \* current_session_id IS NULL
    KeyOf(_, _),       \* the idempotency key the client gave a request
    MaxPendingInputs,  \* maxPendingInputs (64 in the code)
    MaxFrameAttempts,  \* maxFrameAttempts (3 in the code)
    MaxStream,         \* bound on stream epochs
    MaxClaims,         \* bound on claim generations
    MaxEvents          \* heartbeats stop when a log has this length

ASSUME SessionStoreAssumption ==
    /\ NumInputs \in Nat
    /\ MaxPendingInputs \in Nat
    /\ MaxFrameAttempts \in Nat
    /\ MaxStream \in Nat \ {0}
    /\ MaxClaims \in Nat
    /\ MaxEvents \in Nat
    /\ NoSession \notin Sessions

VARIABLES
    session,    \* flowbaton_sessions
    device,     \* lease_generation and current_session_id of flowbaton_devices
    job,        \* flowbaton_input_jobs, numbered in the order of the requests
    frame,      \* flowbaton_frame_jobs, at most one per session
    content,    \* flowbaton_frame_content, at most one row per session
    events,     \* flowbaton_events
    idem,       \* flowbaton_idempotency
    inputWork,  \* the InputWork values ClaimInput has handed out
    frameWork   \* the FrameWork values handed out and not yet reported on

work == <<inputWork, frameWork>>
sessionVars == <<session, device, job, frame, content, events, idem, inputWork, frameWork>>
vars == <<node, lease, owner, session, device, job, frame, content, events, idem,
          inputWork, frameWork>>

Inputs == 1 .. NumInputs
AnySession == Sessions \cup {NoSession}
OpenStatus == {"active", "disconnected", "cancelled"}
Outcomes == {"input_ack", "error"}

SessionRow == [status : OpenStatus \cup {"none", "released"}, device : Devices \cup {NoLease},
               node : Nodes \cup {NoLease}, epoch : Nat, gen : Nat, stream : Nat,
               expired : BOOLEAN]
DeviceRow == [gen : Nat, current : AnySession]
JobRow == [state : {"none", "pending", "claimed", "executing", "done"},
           session : AnySession, epoch : Nat, claimedEpoch : Nat, claimGen : Nat,
           stream : Nat, frame : Nat, event : Nat]
FrameRow == [state : {"none", "pending", "claimed", "blocked"}, epoch : Nat,
             claimedEpoch : Nat, claimGen : Nat]
\* The field since is not in the code: the length of the log when the claim
\* that captured the frame was handed out.
FrameRef == [stream : Nat, frame : Nat, since : Nat]
EventTypes == Outcomes \cup {"acquired", "frame", "heartbeat", "disconnected",
                             "reconnected", "cancelled", "released"}
Event == [session : Sessions, seq : Nat, type : EventTypes, input : Nat,
          stream : Nat, frame : Nat, outcome : {"", "completed", "cancelled", "error"}]
InputWork == [input : Inputs, epoch : Nat, claimGen : Nat]
FrameWork == [session : Sessions, epoch : Nat, claimGen : Nat, stream : Nat, since : Nat]

NoRow == [status |-> "none", device |-> NoLease, node |-> NoLease, epoch |-> 0,
          gen |-> 0, stream |-> 0, expired |-> FALSE]
NoJob == [state |-> "none", session |-> NoSession, epoch |-> 0, claimedEpoch |-> 0,
          claimGen |-> 0, stream |-> 0, frame |-> 0, event |-> 0]
NoFrame == [state |-> "none", epoch |-> 0, claimedEpoch |-> 0, claimGen |-> 0]
NoContent == [stream |-> 0, frame |-> 0, since |-> 0]

Init ==
    /\ NodeInit
    /\ session = [s \in Sessions |-> NoRow]
    /\ device = [d \in Devices |-> [gen |-> 0, current |-> NoSession]]
    /\ job = [i \in Inputs |-> NoJob]
    /\ frame = [s \in Sessions |-> NoFrame]
    /\ content = [s \in Sessions |-> NoContent]
    /\ events = {}
    /\ idem = {}
    /\ inputWork = {}
    /\ frameWork = {}

-----------------------------------------------------------------------------
\* What the transactions read.
Open(s) == session[s].status \in OpenStatus
EventsOf(s) == {e \in events : e.session = s}
FramesOf(s) == {e \in EventsOf(s) : e.type = "frame"}
LastSeq(s) == Max({e.seq : e \in EventsOf(s)} \cup {0})
FrameSeq(s, stream) == Max({e.frame : e \in {f \in FramesOf(s) : f.stream = stream}} \cup {0})
LatestFrame(s, e) == e \in FramesOf(s) /\ \A f \in FramesOf(s) : f.seq <= e.seq

InState(s, states) == {i \in Inputs : job[i].session = s /\ job[i].state \in states}
Queued(s) == InState(s, {"pending", "claimed"})
Executing(s) == InState(s, {"executing"})
Unfinished(s) == InState(s, {"pending", "claimed", "executing"})
KeyTaken(k) == \E r \in idem : r.key = k

\* requireCurrentDeviceTx: the device still points at the session and its owner.
OnCurrentDevice(s) ==
    \E d \in Devices :
        /\ d = session[s].device
        /\ device[d].current = s
        /\ owner[d] = [node |-> session[s].node, epoch |-> session[s].epoch]

\* What the transactions write.
EventRow(s, n, type) == [session |-> s, seq |-> n, type |-> type, input |-> 0,
                         stream |-> 0, frame |-> 0, outcome |-> ""]
IdemRow(key, s, n) == [key |-> key, session |-> s, seq |-> n]
PendingFrame(epoch, gen) == [state |-> "pending", epoch |-> epoch, claimedEpoch |-> 0,
                             claimGen |-> gen]

\* INSERT ... ON CONFLICT DO UPDATE of a frame job: the claim is cleared, the
\* claim generation of an existing row stays.
FrameRequested(s) == [frame EXCEPT ![s] = PendingFrame(session[s].epoch, @.claimGen)]

-----------------------------------------------------------------------------
\* Finishing inputs.  Queued inputs get an error outcome that says they never
\* ran (cancelQueuedInputsTx), executing ones an error outcome that says it is
\* unknown (abandonExecutingInputsTx).  D is the set one transaction finishes:
\* first those of First, then the queued, then the executing ones, each group in
\* the order of the requests.
Phase(i, First) ==
    IF i \in First THEN 0 ELSE IF job[i].state = "executing" THEN 2 ELSE 1
Place(D, First, i) ==
    Cardinality({j \in D : \/ Phase(j, First) < Phase(i, First)
                           \/ Phase(j, First) = Phase(i, First) /\ j <= i})

OutcomeSeq(s, D, First, i) == LastSeq(s) + Place(D, First, i)
OutcomeEvent(s, n, type, i) == [EventRow(s, n, type) EXCEPT !.input = i]
OutcomeEvents(s, D, First) ==
    {OutcomeEvent(s, OutcomeSeq(s, D, First, i), "error", i) : i \in D}
OutcomeRows(s, D, First) ==
    {IdemRow(KeyOf("input", i), s, OutcomeSeq(s, D, First, i)) : i \in D}

\* Mutant: the job does not say which event is its outcome.
FinishedUnrecorded(i, n) == [job[i] EXCEPT !.state = "done"]
FinishedJob(i, n) ==
    [job[i] EXCEPT !.state = "done", !.event = n,
                   !.claimedEpoch = IF job[i].state = "executing" THEN @ ELSE 0]
FinishedJobs(s, D, First) ==
    [i \in Inputs |-> IF i \in D THEN FinishedJob(i, OutcomeSeq(s, D, First, i)) ELSE job[i]]

\* The rows of flowbaton_idempotency go in under its primary key.
Insertable(R) ==
    /\ \A r \in R : ~KeyTaken(r.key)
    /\ \A q, r \in R : q.key = r.key => q = r

-----------------------------------------------------------------------------
\* The end of a session: what a release and expireSessionTx have in common.
\* D is what the same transaction finishes before it writes the released event.
\* Mutant: the number of the released event is read before the inputs are
\* cancelled.
EarlyReleasedSeq(s, D) == LastSeq(s) + 1
ReleasedSeq(s, D) == LastSeq(s) + Cardinality(D) + 1

ReleasedEvent(s, D, outcome) ==
    [EventRow(s, ReleasedSeq(s, D), "released") EXCEPT !.outcome = outcome]
EndRows(s, D, First) ==
    OutcomeRows(s, D, First) \cup {IdemRow(KeyOf("release", s), s, ReleasedSeq(s, D))}
EndEvents(s, D, First, outcome) ==
    OutcomeEvents(s, D, First) \cup {ReleasedEvent(s, D, outcome)}
EndedSessions(s) == [session EXCEPT ![s].status = "released"]

EndedDevices(s) ==
    [d \in Devices |->
        IF d = session[s].device /\ device[d].current = s
        THEN [device[d] EXCEPT !.current = NoSession] ELSE device[d]]

End(s, D, First, outcome) ==
    /\ Insertable(EndRows(s, D, First))
    /\ session' = EndedSessions(s)
    /\ device' = EndedDevices(s)
    /\ job' = FinishedJobs(s, D, First)
    /\ events' = events \cup EndEvents(s, D, First, outcome)
    /\ idem' = idem \cup EndRows(s, D, First)
    /\ frame' = [frame EXCEPT ![s] = NoFrame]
    /\ content' = [content EXCEPT ![s] = NoContent]

\* expireSessionTx as a transaction of its own: ExpireSessions, and every call of
\* the session that finds it expired, answers ErrExpired and commits just this
\* (Apply, MarkDisconnected, StartInput, CompleteFrame, FailFrame).  Mutants: the
\* executing inputs are forgotten; only active sessions are looked for.
QueuedOnly(s) == Queued(s)
Abandoned(s) == Unfinished(s)
ActiveOnly(s) == session[s].status = "active"
Expirable(s) == Open(s)

ExpireSession(s) ==
    /\ Expirable(s)
    /\ session[s].expired
    /\ End(s, Abandoned(s), {}, "error")
    /\ UNCHANGED <<nodeVars, work>>

\* Time: the session's lease or its binding runs out.
SessionLapse(s) ==
    /\ Open(s)
    /\ ~session[s].expired
    /\ session' = [session EXCEPT ![s].expired = TRUE]
    /\ UNCHANGED <<nodeVars, device, job, frame, content, events, idem, work>>

-----------------------------------------------------------------------------
\* Acquire.  The device must be registered by a ready node whose lease is live.
Acquirable(d) == owner[d] # NoLease /\ LeaseLive(owner[d]) /\ node[owner[d].node].ready

NextGeneration(d) == device[d].gen + 1

AcquiredRow(d) == [status |-> "active", device |-> d, node |-> owner[d].node,
                   epoch |-> owner[d].epoch, gen |-> NextGeneration(d), stream |-> 1,
                   expired |-> FALSE]
AcquiredDevice(s, d) == [gen |-> NextGeneration(d), current |-> s]
AcquireRow(s) == IdemRow(KeyOf("acquire", s), s, 1)

Acquire(s, d) ==
    /\ session[s].status = "none"
    /\ Acquirable(d)
    /\ device[d].current = NoSession
    /\ Insertable({AcquireRow(s)})
    /\ session' = [session EXCEPT ![s] = AcquiredRow(d)]
    /\ device' = [device EXCEPT ![d] = AcquiredDevice(s, d)]
    /\ frame' = [frame EXCEPT ![s] = PendingFrame(owner[d].epoch, 0)]
    /\ events' = events \cup {EventRow(s, 1, "acquired")}
    /\ idem' = idem \cup {AcquireRow(s)}
    /\ UNCHANGED <<nodeVars, job, content, work>>

\* The device's session has expired and nobody has released it yet: it ends in
\* the same transaction.  (ErrBusy while it has not expired.)
Replaceable(o) == session[o].expired

AcquireExpired(s, d) ==
    \E o \in Sessions :
        LET D == Abandoned(o)
            R == EndRows(o, D, {}) \cup {AcquireRow(s)}
        IN  /\ session[s].status = "none"
            /\ Acquirable(d)
            /\ device[d].current = o /\ Open(o) /\ Replaceable(o)
            /\ Insertable(R)
            /\ session' = [EndedSessions(o) EXCEPT ![s] = AcquiredRow(d)]
            /\ device' = [EndedDevices(o) EXCEPT ![d] = AcquiredDevice(s, d)]
            /\ job' = FinishedJobs(o, D, {})
            /\ frame' = [frame EXCEPT ![o] = NoFrame, ![s] = PendingFrame(owner[d].epoch, 0)]
            /\ content' = [content EXCEPT ![o] = NoContent]
            /\ events' = events \cup EndEvents(o, D, {}, "error")
                                \cup {EventRow(s, 1, "acquired")}
            /\ idem' = idem \cup R
            /\ UNCHANGED <<nodeVars, work>>

-----------------------------------------------------------------------------
\* Apply: the client's requests.  Each needs the session on its current device
\* and not expired; a request whose key has a recorded outcome is answered from
\* it, without effect (replay).
Applicable(s, status) ==
    /\ session[s].status \in status
    /\ OnCurrentDevice(s)
    /\ ~session[s].expired

\* A control request with one event.
Control(s, key, type) ==
    LET n == LastSeq(s) + 1
    IN  /\ Insertable({IdemRow(key, s, n)})
        /\ events' = events \cup {EventRow(s, n, type)}
        /\ idem' = idem \cup {IdemRow(key, s, n)}

\* The next request is an input, based on the latest frame of the current stream.
QueueLength(s) == Cardinality(Unfinished(s))

EnqueueInput(s) ==
    /\ Applicable(s, {"active"})
    /\ \E i \in Inputs, e \in FramesOf(s) :
           /\ job[i].state = "none" /\ \A j \in Inputs : j < i => job[j].state # "none"
           /\ LatestFrame(s, e) /\ e.stream = session[s].stream
           /\ ~KeyTaken(KeyOf("input", i))
           /\ \A j \in 1 .. i - 1 : KeyOf("input", j) # KeyOf("input", i)
           /\ QueueLength(s) < MaxPendingInputs
           /\ job' = [job EXCEPT ![i] = [NoJob EXCEPT !.state = "pending", !.session = s,
                                             !.epoch = session[s].epoch,
                                             !.stream = e.stream, !.frame = e.frame]]
    /\ UNCHANGED <<nodeVars, session, device, frame, content, events, idem, work>>

Heartbeat(s) ==
    /\ Applicable(s, {"active"})
    /\ LastSeq(s) < MaxEvents
    /\ Control(s, KeyOf("heartbeat", <<s, LastSeq(s)>>), "heartbeat")
    /\ UNCHANGED <<nodeVars, session, device, job, frame, content, work>>

Cancel(s) ==
    LET D == Queued(s)
        n == LastSeq(s) + Cardinality(D) + 1
        R == OutcomeRows(s, D, {}) \cup {IdemRow(KeyOf("cancel", s), s, n)}
    IN  /\ Applicable(s, {"active", "disconnected"})
        /\ Insertable(R)
        /\ session' = [session EXCEPT ![s].status = "cancelled"]
        /\ job' = FinishedJobs(s, D, {})
        /\ events' = events \cup OutcomeEvents(s, D, {}) \cup {EventRow(s, n, "cancelled")}
        /\ idem' = idem \cup R
        /\ UNCHANGED <<nodeVars, device, frame, content, work>>

Reconnect(s) ==
    /\ Applicable(s, {"disconnected"})
    /\ session[s].stream < MaxStream
    /\ Control(s, KeyOf("reconnect", <<s, session[s].stream>>), "reconnected")
    /\ session' = [session EXCEPT ![s].status = "active", ![s].stream = @ + 1]
    /\ frame' = FrameRequested(s)
    /\ UNCHANGED <<nodeVars, device, job, content, work>>

\* A release is refused while an input executes.
ReleaseOutcome(s) == IF session[s].status = "cancelled" THEN "cancelled" ELSE "completed"

Release(s) ==
    /\ Applicable(s, OpenStatus)
    /\ Executing(s) = {}
    /\ End(s, Queued(s), {}, ReleaseOutcome(s))
    /\ UNCHANGED <<nodeVars, work>>

\* The transport reports that the client is gone.
Disconnectable == {"active"}

MarkDisconnected(s) ==
    /\ session[s].status \in Disconnectable
    /\ ~session[s].expired
    /\ session' = [session EXCEPT ![s].status = "disconnected"]
    /\ events' = events \cup {EventRow(s, LastSeq(s) + 1, "disconnected")}
    /\ UNCHANGED <<nodeVars, device, job, frame, content, idem, work>>

-----------------------------------------------------------------------------
\* RegisterDevice, on a device without a session and on one whose session the
\* node takes over from its own earlier incarnation: the session and its jobs
\* move to the new epoch and the claims of the old one are void.  An executing
\* input stays executing under its old claim, for RecoverAmbiguousInputs.
Unheld(d) == device[d].current = NoSession

RegisterIdleDevice(p, d) ==
    /\ Unheld(d)
    /\ TakeDevice(p, d)
    /\ UNCHANGED sessionVars

\* Mutants: the executing inputs go back to the queue; they keep the old epoch.
ReadoptedAll(i, epoch) == [job[i] EXCEPT !.epoch = epoch, !.state = "pending", !.claimedEpoch = 0]
ReadoptedQueued(i, epoch) ==
    IF job[i].state = "executing" THEN job[i]
    ELSE [job[i] EXCEPT !.epoch = epoch, !.state = "pending", !.claimedEpoch = 0]
ReadoptedJob(i, epoch) ==
    IF job[i].state = "executing" THEN [job[i] EXCEPT !.epoch = epoch]
    ELSE [job[i] EXCEPT !.epoch = epoch, !.state = "pending", !.claimedEpoch = 0]

ReadoptedFrame(s, epoch) ==
    IF frame[s].state = "none" THEN NoFrame
    ELSE [PendingFrame(epoch, frame[s].claimGen) EXCEPT
             !.state = IF frame[s].state = "blocked" THEN "blocked" ELSE "pending"]

RegisterHeldDevice(p, d) ==
    \E s \in Sessions :
        /\ device[d].current = s
        /\ TakeDevice(p, d)
        /\ owner[d] # NoLease /\ owner[d].node = lease[p].node
        /\ Open(s) /\ session[s].node = lease[p].node
        /\ session' = [session EXCEPT ![s].epoch = lease[p].epoch]
        /\ job' = [i \in Inputs |-> IF i \in Unfinished(s)
                                    THEN ReadoptedJob(i, lease[p].epoch) ELSE job[i]]
        /\ frame' = [frame EXCEPT ![s] = ReadoptedFrame(s, lease[p].epoch)]
        /\ UNCHANGED <<device, content, events, idem, work>>

-----------------------------------------------------------------------------
\* The claims.  A claim that has lapsed may be taken over.
Serving(l, s) ==
    /\ LeaseLive(l) /\ node[l.node].ready
    /\ session[s].status = "active" /\ ~session[s].expired
    /\ session[s].node = l.node /\ session[s].epoch = l.epoch

ClaimFrame(p, s) ==
    LET l == lease[p]
        gen == frame[s].claimGen + 1
    IN  /\ Serving(l, s)
        /\ frame[s].state \in {"pending", "claimed"} /\ frame[s].epoch = l.epoch
        /\ gen <= MaxClaims
        /\ frame' = [frame EXCEPT ![s].state = "claimed", ![s].claimedEpoch = l.epoch,
                                  ![s].claimGen = gen]
        /\ frameWork' = frameWork \cup
               {[session |-> s, epoch |-> l.epoch, claimGen |-> gen,
                 stream |-> session[s].stream, since |-> LastSeq(s)]}
        /\ UNCHANGED <<nodeVars, session, device, job, content, events, idem, inputWork>>

\* The oldest queued input of the session, when no frame is owed and no other
\* input of the session is claimed or executing.  (Between sessions the order is
\* left open: locked rows are skipped.)  Mutant: the others are not looked at.
EligibleQueued(s, i) == i \in Queued(s)
Eligible(s, i) == i \in Queued(s) /\ InState(s, {"claimed", "executing"}) \subseteq {i}
Claimable(s, i) == Eligible(s, i) /\ \A j \in Inputs : Eligible(s, j) => i <= j

ClaimInput(p, i) ==
    \E s \in Sessions :
        LET l == lease[p]
            gen == job[i].claimGen + 1
        IN  /\ job[i].session = s
            /\ Serving(l, s)
            /\ frame[s].state = "none"
            /\ Claimable(s, i) /\ job[i].epoch = l.epoch
            /\ gen <= MaxClaims
            /\ job' = [job EXCEPT ![i].state = "claimed", ![i].claimedEpoch = l.epoch,
                                  ![i].claimGen = gen]
            /\ inputWork' = inputWork \cup {[input |-> i, epoch |-> l.epoch, claimGen |-> gen]}
            /\ UNCHANGED <<nodeVars, session, device, frame, content, events, idem, frameWork>>

-----------------------------------------------------------------------------
\* The worker's reports on its work.  A worker reports once, but its call may
\* arrive late, when its claim has lapsed and another worker has taken it over.
WorkLeaseLive(s, w) ==
    session[s].node # NoLease /\ LeaseLive([node |-> session[s].node, epoch |-> w.epoch])

SameStreamAs(s, stream) == session[s].stream = stream

FrameReportable(w) ==
    LET s == w.session
    IN  /\ WorkLeaseLive(s, w)
        /\ session[s].status = "active" /\ ~session[s].expired
        /\ session[s].epoch = w.epoch /\ SameStreamAs(s, w.stream)
        /\ frame[s].state = "claimed"
        /\ frame[s].claimedEpoch = w.epoch /\ frame[s].claimGen = w.claimGen

CompleteFrame(w) ==
    LET s == w.session
        n == FrameSeq(s, w.stream) + 1
    IN  /\ FrameReportable(w)
        /\ OnCurrentDevice(s)
        /\ content' = [content EXCEPT ![s] = [stream |-> w.stream, frame |-> n,
                                              since |-> w.since]]
        /\ events' = events \cup {[EventRow(s, LastSeq(s) + 1, "frame")
                                       EXCEPT !.stream = w.stream, !.frame = n]}
        /\ frame' = [frame EXCEPT ![s] = NoFrame]
        /\ frameWork' = frameWork \ {w}
        /\ UNCHANGED <<nodeVars, session, device, job, idem, inputWork>>

AfterFailure(w, retryable) ==
    IF retryable /\ w.claimGen < MaxFrameAttempts THEN "pending" ELSE "blocked"

FailFrame(w, retryable) ==
    LET s == w.session
    IN  /\ FrameReportable(w)
        /\ events' = events \cup {EventRow(s, LastSeq(s) + 1, "error")}
        /\ frame' = [frame EXCEPT ![s].state = AfterFailure(w, retryable),
                                  ![s].claimedEpoch = 0]
        /\ frameWork' = frameWork \ {w}
        /\ UNCHANGED <<nodeVars, session, device, job, content, idem, inputWork>>

\* The claim the input's row carries is the one of this work.
Holds(w) == job[w.input].claimedEpoch = w.epoch /\ job[w.input].claimGen = w.claimGen

\* The no-return point: from here on the device may have been touched.
StarterLive(s, w) == WorkLeaseLive(s, w)
OnLatestFrame(s, i) ==
    \E e \in FramesOf(s) :
        LatestFrame(s, e) /\ e.stream = job[i].stream /\ e.frame = job[i].frame

StartInput(w) ==
    \E s \in Sessions :
        LET i == w.input
        IN  /\ job[i].session = s
            /\ StarterLive(s, w)
            /\ session[s].status = "active" /\ ~session[s].expired
            /\ session[s].epoch = w.epoch /\ session[s].stream = job[i].stream
            /\ OnCurrentDevice(s)
            /\ OnLatestFrame(s, i)
            /\ job[i].state = "claimed" /\ Holds(w)
            /\ job' = [job EXCEPT ![i].state = "executing"]
            /\ UNCHANGED <<nodeVars, session, device, frame, content, events, idem, work>>

\* The outcome of one executing input: its event, its idempotency row, its job.
Outcome(s, i, type) ==
    LET n == LastSeq(s) + 1
    IN  /\ Insertable({IdemRow(KeyOf("input", i), s, n)})
        /\ events' = events \cup {OutcomeEvent(s, n, type, i)}
        /\ idem' = idem \cup {IdemRow(KeyOf("input", i), s, n)}
        /\ job' = [job EXCEPT ![i] = FinishedJob(i, n)]

\* An active session owes a frame after each outcome.  Mutant: it does not.
NoFrameOwed(s) == frame
FrameOwed(s) == IF session[s].status = "active" THEN FrameRequested(s) ELSE frame

Completable(s, w) ==
    /\ WorkLeaseLive(s, w)
    /\ session[s].epoch = w.epoch /\ session[s].stream = job[w.input].stream
    /\ Holds(w) /\ job[w.input].state = "executing"

\* The status of the session is not asked: a cancelled session gets an error
\* instead of what the worker reports.
CompleteInput(w, type) ==
    \E s \in Sessions :
        /\ job[w.input].session = s
        /\ Completable(s, w)
        /\ ~session[s].expired
        /\ session[s].status = "cancelled" => type = "error"
        /\ Outcome(s, w.input, type)
        /\ frame' = FrameOwed(s)
        /\ UNCHANGED <<nodeVars, session, device, content, work>>

\* The report finds the session expired: the input's outcome is written first,
\* then the session ends.
CompleteInputExpired(w) ==
    \E s \in Sessions :
        /\ job[w.input].session = s
        /\ Completable(s, w)
        /\ Open(s) /\ session[s].expired
        /\ End(s, Unfinished(s), {w.input}, "error")
        /\ UNCHANGED <<nodeVars, work>>

\* An input that an earlier incarnation of the node left executing: its outcome
\* is unknown and it is not run again.
RecoverAmbiguousInput(p, i) ==
    \E s \in Sessions :
        LET l == lease[p]
        IN  /\ job[i].session = s
            /\ LeaseLive(l)
            /\ Open(s) /\ session[s].node = l.node /\ session[s].epoch = l.epoch
            /\ job[i].state = "executing" /\ job[i].epoch = l.epoch
            /\ job[i].claimedEpoch < l.epoch
            /\ Outcome(s, i, "error")
            /\ frame' = FrameOwed(s)
            /\ UNCHANGED <<nodeVars, session, device, content, work>>

-----------------------------------------------------------------------------
\* The registry, the clients, time and the frames.
SessionStep ==
    \/ RegistryStep /\ UNCHANGED sessionVars
    \/ \E p \in Procs, d \in Devices : RegisterIdleDevice(p, d)
    \/ \E p \in Procs, d \in Devices : RegisterHeldDevice(p, d)
    \/ \E s \in Sessions, d \in Devices : Acquire(s, d)
    \/ \E s \in Sessions, d \in Devices : AcquireExpired(s, d)
    \/ \E s \in Sessions : EnqueueInput(s)
    \/ \E s \in Sessions : Heartbeat(s)
    \/ \E s \in Sessions : Cancel(s)
    \/ \E s \in Sessions : Reconnect(s)
    \/ \E s \in Sessions : Release(s)
    \/ \E s \in Sessions : MarkDisconnected(s)
    \/ \E s \in Sessions : ExpireSession(s)
    \/ \E s \in Sessions : SessionLapse(s)
    \/ \E p \in Procs, s \in Sessions : ClaimFrame(p, s)
    \/ \E w \in frameWork : CompleteFrame(w)
    \/ \E w \in frameWork, retryable \in BOOLEAN : FailFrame(w, retryable)
    \/ \E p \in Procs, i \in Inputs : ClaimInput(p, i)

\* The executing inputs.
ExecutionStep ==
    \/ \E w \in inputWork : StartInput(w)
    \/ \E w \in inputWork, type \in Outcomes : CompleteInput(w, type)
    \/ \E w \in inputWork : CompleteInputExpired(w)
    \/ \E p \in Procs, i \in Inputs : RecoverAmbiguousInput(p, i)

Next == SessionStep \/ ExecutionStep

Spec == Init /\ [][Next]_vars

-----------------------------------------------------------------------------
\* Types of the rows.
StoreTypeOK ==
    /\ NodeTypeOK
    /\ session \in [Sessions -> SessionRow]
    /\ device \in [Devices -> DeviceRow]
    /\ job \in [Inputs -> JobRow]
    /\ frame \in [Sessions -> FrameRow]
    /\ content \in [Sessions -> FrameRef]
    /\ events \subseteq Event
    /\ \A r \in idem : r.session \in Sessions /\ r.seq \in Nat
    /\ inputWork \subseteq InputWork
    /\ frameWork \subseteq FrameWork

\* A device points at a session exactly when that session is open and its own: no
\* path that ends a session (release, expiry found by any call, replacement by
\* Acquire) leaves the device held, and no device is held twice.
DeviceHoldsItsSession ==
    \A s \in Sessions, d \in Devices :
        device[d].current = s <=> Open(s) /\ session[s].device = d

\* Fencing by generation: the sessions of a device have different generations, and
\* the device row carries the highest (lease_generation in Acquire).
GenerationsUnique ==
    \A s, t \in Sessions :
        /\ session[s].status # "none"
        /\ session[t].status # "none"
        /\ session[s].device = session[t].device
        => /\ session[s].gen <= device[session[s].device].gen
           /\ session[s].gen = session[t].gen => s = t

\* The epochs agree: an open session carries the epoch its device's owner took it
\* over with, its unfinished jobs and its frame job carry the session's, a claim is
\* of the current epoch, and only an executing input may be of an earlier one
\* (RegisterDevice moves all of them in one transaction).
RowsFollowOwner ==
    \A s \in Sessions : Open(s) =>
        /\ owner[session[s].device] = [node |-> session[s].node, epoch |-> session[s].epoch]
        /\ \A i \in Unfinished(s) : job[i].epoch = session[s].epoch
        /\ \A i \in InState(s, {"claimed"}) : job[i].claimedEpoch = session[s].epoch
        /\ \A i \in Executing(s) : job[i].claimedEpoch \in 1 .. session[s].epoch
        /\ frame[s].state # "none" => frame[s].epoch = session[s].epoch
        /\ frame[s].state = "claimed" => frame[s].claimedEpoch = session[s].epoch

\* A released session owes nothing: every input has its outcome, and neither a
\* frame job nor a frame's bytes remain (release and expireSessionTx).
ReleaseDrains ==
    \A s \in Sessions : session[s].status = "released" =>
        Unfinished(s) = {} /\ frame[s] = NoFrame /\ content[s] = NoContent

\* Each input gets exactly one outcome, whoever writes it (the worker, a cancel, a
\* release, an expiry, the recovery after a restart): the job's completed event,
\* the event that names the input and the idempotency row are the same one.
OutcomeOnce ==
    \A i \in Inputs :
        LET O == {e \in events : e.input = i}
        IN  /\ job[i].state # "done" => O = {}
            /\ job[i].state = "done" =>
                  \E e \in O : /\ O = {e}
                               /\ e.session = job[i].session /\ e.seq = job[i].event
                               /\ IdemRow(KeyOf("input", i), e.session, e.seq) \in idem

\* Once an input executes it is never queued or claimed again, and once it has its
\* outcome nothing about it changes ("a stale executing job is never re-executed",
\* comment of StartInput).
NoRerun ==
    [][\A i \in Inputs :
          /\ job[i].state = "executing" =>
                /\ job'[i].state \in {"executing", "done"}
                /\ job'[i].claimGen = job[i].claimGen
          /\ job[i].state = "done" => job'[i] = job[i]]_vars

\* One input of a session at a time is in the hands of a worker.
SerialInputs == \A s \in Sessions : Cardinality(InState(s, {"claimed", "executing"})) <= 1

\* An input starts only for the session that holds the device, while it is active
\* and not expired, by the node that owns the device under a live lease.
StartedByLiveOwner ==
    [][\A i \in Inputs : job[i].state # "executing" /\ job'[i].state = "executing" =>
          LET s == job[i].session
          IN  /\ session[s].status = "active" /\ ~session[s].expired
              /\ OnCurrentDevice(s)
              /\ LeaseLive(owner[session[s].device])]_vars

\* The outcomes written to a session's log so far.
InputOutcomes(s) == {e \in EventsOf(s) : e.input # 0}

\* An input starts only on the latest frame, and that frame was recorded after the
\* outcome of every earlier input.
StartsOnFreshFrame ==
    [][\A i \in Inputs : job[i].state # "executing" /\ job'[i].state = "executing" =>
          \E e \in FramesOf(job[i].session) :
              /\ LatestFrame(job[i].session, e)
              /\ e.stream = job[i].stream /\ e.frame = job[i].frame
              /\ \A o \in InputOutcomes(job[i].session) : o.seq < e.seq]_vars

\* An active session is shown the device, or will be: it has a frame job, or its
\* latest frame is of the current stream and later than every outcome.
FrameOwedOrShown ==
    \A s \in Sessions : session[s].status = "active" /\ frame[s].state = "none" =>
        \E e \in FramesOf(s) :
            /\ LatestFrame(s, e) /\ e.stream = session[s].stream
            /\ \A o \in InputOutcomes(s) : o.seq < e.seq

\* Nothing happens to a released session any more: its row, its jobs and its log
\* stay as they are, whatever late call arrives.
ReleasedIsFinal ==
    [][\A s \in Sessions : session[s].status = "released" =>
          /\ session'[s] = session[s]
          /\ \A e \in events' \ events : e.session # s
          /\ \A i \in Inputs : job[i].session = s => job'[i] = job[i]]_vars

\* Every started input gets its outcome as long as the owner of its device lives:
\* from the worker that started it, from the recovery after a restart, or at the
\* end of the session.
ExecutingFinishes ==
    \A i \in Inputs, d \in Devices :
        job[i].state = "executing" /\ device[d].current = job[i].session ~>
            job[i].state = "done" \/ ~LeaseLive(owner[d])

\* A session whose lease has run out is released in the end, whatever its inputs
\* and frames are doing (the maintenance loop of any serving process).
ExpiryReleases ==
    \A s \in Sessions : Open(s) /\ session[s].expired ~> session[s].status = "released"

=============================================================================
