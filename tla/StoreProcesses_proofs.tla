------------------------- MODULE StoreProcesses_proofs -------------------------
(***************************************************************************)
(* Proofs about the processes around the store.  The claims at READ        *)
(* COMMITTED leave intact all that SessionStore_proofs shows of the store, *)
(* except that one input at a time is in the hands of a worker, for any    *)
(* number of statements in progress; then the validator of the contract    *)
(* is followed along the log of a session, event by event, and accepts it. *)
(* The calls on devices keep to the store's transactions, and a process    *)
(* that waits for quiescence opens a driver after every call of an older   *)
(* process whose session still lives.                                      *)
(***************************************************************************)
EXTENDS ConcurrentClaim, SessionContract, Quarantine, SessionStore_proofs

-----------------------------------------------------------------------------
(* Claims at READ COMMITTED                                                *)

\* A statement in progress is made under a lease, and has seen jobs only.
SnapshotsTyped ==
    \A c \in Claimers : snapshot[c] # NoSnapshot =>
        /\ snapshot[c].by \in Lease
        /\ DOMAIN snapshot[c].seen \subseteq Inputs

ConcurrentInv == StoreCore /\ snapshot \in [Claimers -> {snapshot[c] : c \in Claimers}]
                           /\ SnapshotsTyped

-----------------------------------------------------------------------------
\* A finished claim is of an input that waits, and takes the epoch the input has.
ClaimedJob(i, epoch) ==
    [job EXCEPT ![i].state = "claimed", ![i].claimGen = job[i].claimGen + 1,
                ![i].claimedEpoch = epoch]

LEMMA FinishedClaim ==
    ASSUME ConcurrentInv, NEW c \in Claimers, NEW i \in Inputs, FinishClaim(c, i)
    PROVE  /\ job[i].state \in {"pending", "claimed"}
           /\ job' = ClaimedJob(i, job[i].epoch)
           /\ inputWork' = inputWork \cup
                  {[input |-> i, epoch |-> job[i].epoch, claimGen |-> job[i].claimGen + 1]}
           /\ UNCHANGED <<nodeVars, session, device, frame, content, events, idem, frameWork>>
  BY DEF FinishClaim, Candidate, StillQueued, ClaimedJob

LEMMA FinishedClaimKeepsCore ==
    ASSUME ConcurrentInv, NEW c \in Claimers, NEW i \in Inputs, FinishClaim(c, i)
    PROVE  StoreCore'
<1> USE DEF ConcurrentInv, StoreCore
<1>1. /\ job[i].state \in {"pending", "claimed"}
      /\ job' = ClaimedJob(i, job[i].epoch)
      /\ inputWork' = inputWork \cup
             {[input |-> i, epoch |-> job[i].epoch, claimGen |-> job[i].claimGen + 1]}
      /\ UNCHANGED <<nodeVars, session, device, frame, content, events, idem, frameWork>>
  BY FinishedClaim
<1>2. job \in [Inputs -> JobRow] /\ job[i].epoch \in Nat /\ job[i].claimGen + 1 \in Nat
  BY DEF TypeInv, StoreTypeOK, JobRow
<1>3. job' \in [Inputs -> JobRow]
  BY <1>1, <1>2 DEF ClaimedJob, JobRow
<1>4. /\ job'[i].state = "claimed" /\ job'[i].claimedEpoch = job[i].epoch
      /\ job'[i].session = job[i].session /\ job'[i].epoch = job[i].epoch
      /\ \A j \in Inputs \ {i} : job'[j] = job[j]
  BY <1>1, <1>2 DEF ClaimedJob, JobRow
<1>5. TypeInv'
  <2>1. inputWork' \subseteq InputWork
    BY <1>1, <1>2 DEF InputWork, TypeInv, StoreTypeOK
  <2> QED
    BY <1>1, <1>3, <2>1 DEF TypeInv, StoreTypeOK, LogBounded, NodeTypeOK, nodeVars
<1>6. NodeInv'
  BY <1>1, NodeInvStep DEF nodeVars
<1>7. SessionsPlaced' /\ DeviceHoldsItsSession' /\ GenerationsUnique'
  BY <1>1 DEF SessionsPlaced, DeviceHoldsItsSession, GenerationsUnique, Open
<1>8. JobsPlaced'
  BY <1>1, <1>4 DEF JobsPlaced
<1>9. ReleaseDrains'
  BY <1>1, <1>4 DEF ReleaseDrains, Unfinished, InState
<1>10. RowsFit'
  <2> SUFFICES ASSUME NEW s \in Sessions, Open(s)', NEW j \in Inputs
               PROVE  OwnerFits(s)' /\ FrameFits(s)' /\ JobFits(s, j)'
    BY DEF RowsFit
  <2>1. Open(s) /\ OwnerFits(s) /\ FrameFits(s) /\ JobFits(s, j)
    BY <1>1 DEF Open, RowsFit
  <2>2. OwnerFits(s)' /\ FrameFits(s)'
    BY <1>1, <2>1 DEF OwnerFits, FrameFits, nodeVars
  <2>3. JobFits(s, j)'
    BY <1>1, <1>4, <2>1 DEF JobFits
  <2> QED
    BY <2>2, <2>3
<1> QED
  BY <1>5, <1>6, <1>7, <1>8, <1>9, <1>10

\* The functions a claim writes keep their domain.
LEMMA SnapshotWritten ==
    ASSUME ConcurrentInv, StoreCore', NEW c \in Claimers, NEW value,
           snapshot' = [snapshot EXCEPT ![c] = value],
           value = NoSnapshot \/ (value.by \in Lease /\ DOMAIN value.seen \subseteq Inputs)
    PROVE  ConcurrentInv'
<1>1. \A d \in Claimers : snapshot'[d] = IF d = c THEN value ELSE snapshot[d]
  BY DEF ConcurrentInv
<1>2. snapshot' \in [Claimers -> {snapshot'[d] : d \in Claimers}]
  BY DEF ConcurrentInv
<1>3. SnapshotsTyped'
  BY <1>1 DEF SnapshotsTyped, ConcurrentInv
<1> QED
  BY <1>2, <1>3 DEF ConcurrentInv

LEMMA ConcurrentInvInit == ConcurrentInit => ConcurrentInv
<1> SUFFICES ASSUME ConcurrentInit PROVE ConcurrentInv
  OBVIOUS
<1>1. StoreCore
  BY StoreInvInit DEF ConcurrentInit, StoreInv
<1> QED
  BY <1>1 DEF ConcurrentInit, ConcurrentInv, SnapshotsTyped

LEMMA ConcurrentInvStep == ConcurrentInv /\ [ConcurrentNext]_concurrentVars => ConcurrentInv'
<1> SUFFICES ASSUME ConcurrentInv, [ConcurrentNext]_concurrentVars PROVE ConcurrentInv'
  OBVIOUS
<1>1. CASE [Next]_vars /\ UNCHANGED snapshot
  <2>1. StoreCore'
    BY <1>1, StoreCoreStep DEF ConcurrentInv
  <2> QED
    BY <1>1, <2>1 DEF ConcurrentInv, SnapshotsTyped
<1>2. ASSUME NEW p \in Procs, NEW c \in Claimers, StartClaim(p, c) PROVE ConcurrentInv'
  <2> DEFINE value == [by |-> lease[p], seen |-> [i \in Selected(lease[p]) |-> job[i].claimGen]]
  <2>1. StoreCore'
    BY <1>2, StoreCoreStep DEF StartClaim, ConcurrentInv
  <2>2. lease[p] \in Lease
    BY <1>2 DEF StartClaim, LeaseLive, Current, ConcurrentInv, StoreCore, TypeInv, StoreTypeOK,
       NodeTypeOK
  <2>3. value.by \in Lease /\ DOMAIN value.seen \subseteq Inputs
    BY <2>2 DEF Selected
  <2>4. snapshot' = [snapshot EXCEPT ![c] = value]
    BY <1>2 DEF StartClaim
  <2> HIDE DEF value
  <2> QED
    BY <2>1, <2>3, <2>4, SnapshotWritten
<1>3. ASSUME NEW c \in Claimers, NEW i \in Inputs, FinishClaim(c, i) PROVE ConcurrentInv'
  <2>1. snapshot' = [snapshot EXCEPT ![c] = NoSnapshot]
    BY <1>3 DEF FinishClaim
  <2>2. StoreCore'
    BY <1>3, FinishedClaimKeepsCore
  <2> QED
    BY <2>1, <2>2, SnapshotWritten
<1>4. ASSUME NEW c \in Claimers, ClaimNothing(c) PROVE ConcurrentInv'
  <2>1. StoreCore'
    BY <1>4, StoreCoreStep DEF ClaimNothing, ConcurrentInv
  <2>2. snapshot' = [snapshot EXCEPT ![c] = NoSnapshot]
    BY <1>4 DEF ClaimNothing
  <2> QED
    BY <2>1, <2>2, SnapshotWritten
<1> QED
  BY <1>1, <1>2, <1>3, <1>4 DEF ConcurrentNext, concurrentVars, vars

LEMMA ConcurrentInvariant == ConcurrentSpec => []ConcurrentInv
  BY ConcurrentInvInit, ConcurrentInvStep, PTL DEF ConcurrentSpec

-----------------------------------------------------------------------------
\* A released session has no unfinished input, frame job or stored frame, however the
\* claim statements overlap with its release.
THEOREM OverlapLeavesNothing == ConcurrentSpec => []ReleaseDrains
<1>1. ConcurrentInv => ReleaseDrains
  BY DEF ConcurrentInv, StoreCore
<1> QED
  BY <1>1, ConcurrentInvariant, PTL

\* A session, its jobs and its claims carry the epoch of the device's owner, also when
\* a takeover falls between the snapshot of a claim statement and its write.
THEOREM OverlapKeepsEpochs == ConcurrentSpec => []RowsFollowOwner
<1>1. ConcurrentInv => RowsFollowOwner
  BY RowsFitFollowOwner DEF ConcurrentInv, StoreCore
<1> QED
  BY <1>1, ConcurrentInvariant, PTL

\* A claim statement asks for no frame and takes none away: an active session still has
\* its frame job, or shows the device as every outcome so far has left it.
THEOREM OverlapKeepsFrames == ConcurrentSpec => []FrameOwedOrShown
<1>1. ConcurrentInit => FrameOwedOrShown
  BY FrameOwedInit DEF ConcurrentInit
<1>2. ConcurrentInv /\ FrameOwedOrShown /\ [ConcurrentNext]_concurrentVars => FrameOwedOrShown'
  <2> SUFFICES ASSUME ConcurrentInv, FrameOwedOrShown, [ConcurrentNext]_concurrentVars
               PROVE  FrameOwedOrShown'
    OBVIOUS
  <2>1. CASE [Next]_vars
    BY <2>1, FrameOwedStep DEF ConcurrentInv, StoreCore
  <2>2. CASE UNCHANGED <<session, frame, events>>
    BY <2>2 DEF FrameOwedOrShown, LatestFrame, FramesOf, InputOutcomes, EventsOf
  <2> QED
    BY <2>1, <2>2 DEF ConcurrentNext, concurrentVars, StartClaim, FinishClaim, ClaimNothing, vars
<1> QED
  BY <1>1, <1>2, ConcurrentInvariant, PTL DEF ConcurrentSpec

\* An input that executes, or is done, is never claimed again, whatever an older
\* snapshot shows of it.
THEOREM StartedOnceForAll == ConcurrentSpec => OverlapNeverReruns
<1> DEFINE A == \A i \in Inputs :
                   job[i].state \in {"executing", "done"} =>
                       job'[i].state \in {"executing", "done"} /\ job'[i].claimGen = job[i].claimGen
<1>1. ConcurrentInv /\ [ConcurrentNext]_concurrentVars => A
  <2> SUFFICES ASSUME ConcurrentInv, [ConcurrentNext]_concurrentVars, NEW i \in Inputs,
                      job[i].state \in {"executing", "done"}
               PROVE  /\ job'[i].state \in {"executing", "done"}
                      /\ job'[i].claimGen = job[i].claimGen
    OBVIOUS
  <2>1. CASE [Next]_vars
    <3>1. JobStep(i)
      BY <2>1, JobCases DEF ConcurrentInv, StoreCore
    <3>2. CASE Readopted(i)
      BY <3>2 DEF Readopted, ReadoptedJob, ConcurrentInv, StoreCore, TypeInv, StoreTypeOK, JobRow
    <3> QED
      BY <3>1, <3>2 DEF JobStep, SameJob, Enqueued, Claimed, Started, Finished
  <2>2. CASE UNCHANGED job
    BY <2>2
  <2>3. ASSUME NEW c \in Claimers, NEW j \in Inputs, FinishClaim(c, j)
        PROVE  job'[i] = job[i]
    <3>1. job[j].state \in {"pending", "claimed"} /\ job' = ClaimedJob(j, job[j].epoch)
      BY <2>3, FinishedClaim
    <3>2. i # j
      BY <3>1
    <3> QED
      BY <3>1, <3>2 DEF ClaimedJob, ConcurrentInv, StoreCore, TypeInv, StoreTypeOK
  <2> QED
    BY <2>1, <2>2, <2>3 DEF ConcurrentNext, concurrentVars, StartClaim, ClaimNothing, vars
<1>2. ConcurrentInv /\ [ConcurrentNext]_concurrentVars => [A]_concurrentVars
  BY <1>1
<1>3. ConcurrentSpec => [][A]_concurrentVars
  BY <1>2, ConcurrentInvariant, PTL DEF ConcurrentSpec
<1> QED
  BY <1>3 DEF OverlapNeverReruns

-----------------------------------------------------------------------------
\* The outcomes in the log.  A step that gives no input its outcome leaves alone the
\* inputs that have one, and writes events of no input.
QuietLog ==
    /\ events \subseteq events' /\ idem \subseteq idem'
    /\ \A e \in events' : e \in events \/ e.input = 0
QuietJobs ==
    \A i \in Inputs : job[i].state = "done" \/ job'[i].state = "done" => job'[i] = job[i]

LEMMA QuietKeepsOutcomes ==
    ASSUME OutcomeOnce, QuietLog, QuietJobs
    PROVE  OutcomeOnce'
<1> SUFFICES ASSUME NEW i \in Inputs
             PROVE  LET O == {e \in events' : e.input = i}
                    IN  /\ job'[i].state # "done" => O = {}
                        /\ job'[i].state = "done" =>
                              \E e \in O :
                                 /\ O = {e}
                                 /\ e.session = job'[i].session /\ e.seq = job'[i].event
                                 /\ IdemRow(KeyOf("input", i), e.session, e.seq) \in idem'
  BY DEF OutcomeOnce
<1>1. {e \in events' : e.input = i} = {e \in events : e.input = i}
  BY DEF QuietLog, Inputs
<1>2. job'[i].state = "done" <=> job[i].state = "done"
  BY DEF QuietJobs
<1>3. job[i].state = "done" => job'[i] = job[i]
  BY DEF QuietJobs
<1> QED
  BY <1>1, <1>2, <1>3 DEF OutcomeOnce, QuietLog

\* The fields of the events a step writes.
LEMMA EventFields ==
    ASSUME NEW s, NEW n, NEW type, NEW i
    PROVE  /\ EventRow(s, n, type).input = 0
           /\ OutcomeEvent(s, n, type, i).input = i
           /\ OutcomeEvent(s, n, type, i).session = s
           /\ OutcomeEvent(s, n, type, i).seq = n
  BY DEF EventRow, OutcomeEvent

\* One input gets its outcome.
LEMMA OutcomeWritten ==
    ASSUME TypeInv, OutcomeOnce, NEW s \in Sessions, NEW j \in Inputs, NEW type,
           Outcome(s, j, type), job[j].state = "executing", job[j].session = s
    PROVE  OutcomeOnce'
<1> DEFINE n == LastSeq(s) + 1
<1>1. /\ events' = events \cup {OutcomeEvent(s, n, type, j)}
      /\ idem' = idem \cup {IdemRow(KeyOf("input", j), s, n)}
      /\ job' = [job EXCEPT ![j] = FinishedJob(j, n)]
  BY DEF Outcome
<1>2. /\ FinishedJob(j, n).state = "done" /\ FinishedJob(j, n).session = s
      /\ FinishedJob(j, n).event = n
  BY DEF FinishedJob, TypeInv, StoreTypeOK, JobRow
<1> HIDE DEF n
<1>3. job'[j] = FinishedJob(j, n) /\ \A i \in Inputs \ {j} : job'[i] = job[i]
  BY <1>1 DEF TypeInv, StoreTypeOK
<1>4. {e \in events : e.input = j} = {}
  BY DEF OutcomeOnce
<1>5. {e \in events' : e.input = j} = {OutcomeEvent(s, n, type, j)}
  BY <1>1, <1>4, EventFields
<1>6. \A i \in Inputs \ {j} : {e \in events' : e.input = i} = {e \in events : e.input = i}
  BY <1>1, EventFields
<1> SUFFICES ASSUME NEW i \in Inputs
             PROVE  LET O == {e \in events' : e.input = i}
                    IN  /\ job'[i].state # "done" => O = {}
                        /\ job'[i].state = "done" =>
                              \E e \in O :
                                 /\ O = {e}
                                 /\ e.session = job'[i].session /\ e.seq = job'[i].event
                                 /\ IdemRow(KeyOf("input", i), e.session, e.seq) \in idem'
  BY DEF OutcomeOnce
<1>7. CASE i = j
  BY <1>1, <1>2, <1>3, <1>5, <1>7, EventFields
<1>8. CASE i # j
  BY <1>1, <1>3, <1>6, <1>8 DEF OutcomeOnce
<1> QED
  BY <1>7, <1>8

\* A set of inputs of one session gets its outcomes.
LEMMA OutcomesWritten ==
    ASSUME TypeInv, OutcomeOnce, NEW s \in Sessions, NEW D \in SUBSET Inputs, NEW First, NEW X,
           \A i \in D : job[i].state # "done" /\ job[i].session = s,
           job' = FinishedJobs(s, D, First),
           events' = (events \cup OutcomeEvents(s, D, First)) \cup X,
           \A e \in X : e.input = 0,
           idem \cup OutcomeRows(s, D, First) \subseteq idem'
    PROVE  OutcomeOnce'
<1> DEFINE n(i) == OutcomeSeq(s, D, First, i)
<1>1. \A i \in D : /\ job'[i].state = "done" /\ job'[i].session = s
                   /\ job'[i].event = n(i)
  BY DEF FinishedJobs, FinishedJob, TypeInv, StoreTypeOK, JobRow
<1>2. \A i \in Inputs \ D : job'[i] = job[i]
  BY DEF FinishedJobs
<1>3. \A e \in OutcomeEvents(s, D, First) : \E i \in D : e = OutcomeEvent(s, n(i), "error", i)
  BY DEF OutcomeEvents
<1>4. \A i \in D : /\ OutcomeEvent(s, n(i), "error", i) \in events'
                   /\ IdemRow(KeyOf("input", i), s, n(i)) \in idem'
  BY DEF OutcomeEvents, OutcomeRows
<1> HIDE DEF n
<1>5. \A i \in D : {e \in events : e.input = i} = {}
  BY DEF OutcomeOnce
<1>6. ASSUME NEW i \in D
      PROVE  {e \in events' : e.input = i} = {OutcomeEvent(s, n(i), "error", i)}
  <2>1. \A e \in events' : e.input = i => e = OutcomeEvent(s, n(i), "error", i)
    BY <1>3, <1>5, EventFields DEF Inputs
  <2> QED
    BY <1>4, <2>1, EventFields
<1>7. ASSUME NEW i \in Inputs \ D
      PROVE  {e \in events' : e.input = i} = {e \in events : e.input = i}
  BY <1>3, EventFields DEF Inputs
<1> SUFFICES ASSUME NEW i \in Inputs
             PROVE  LET O == {e \in events' : e.input = i}
                    IN  /\ job'[i].state # "done" => O = {}
                        /\ job'[i].state = "done" =>
                              \E e \in O :
                                 /\ O = {e}
                                 /\ e.session = job'[i].session /\ e.seq = job'[i].event
                                 /\ IdemRow(KeyOf("input", i), e.session, e.seq) \in idem'
  BY DEF OutcomeOnce
<1>8. CASE i \in D
  BY <1>1, <1>4, <1>6, <1>8, EventFields
<1>9. CASE i \notin D
  BY <1>2, <1>7, <1>9 DEF OutcomeOnce
<1> QED
  BY <1>8, <1>9

LEMMA OutcomeOnceStep ==
    ASSUME StoreCore, OutcomeOnce, [Next]_vars
    PROVE  OutcomeOnce'
<1> USE DEF StoreCore
<1>0. job \in [Inputs -> JobRow]
  BY DEF TypeInv, StoreTypeOK
<1>1. ASSUME UNCHANGED <<job, events, idem>> PROVE OutcomeOnce'
  BY <1>1, QuietKeepsOutcomes DEF QuietLog, QuietJobs
<1>2. ASSUME NEW s \in Sessions, EnqueueInput(s) PROVE OutcomeOnce'
  <2>1. \E j \in Inputs : \E row : /\ job[j].state = "none" /\ row.state = "pending"
                                  /\ job' = [job EXCEPT ![j] = row]
    <3>1. PICK j \in Inputs, e \in FramesOf(s) :
             /\ job[j].state = "none"
             /\ job' = [job EXCEPT ![j] = [NoJob EXCEPT !.state = "pending", !.session = s,
                                               !.epoch = session[s].epoch,
                                               !.stream = e.stream, !.frame = e.frame]]
      BY <1>2 DEF EnqueueInput
    <3> DEFINE row == [NoJob EXCEPT !.state = "pending", !.session = s,
                                    !.epoch = session[s].epoch,
                                    !.stream = e.stream, !.frame = e.frame]
    <3>2. row.state = "pending"
      BY DEF NoJob
    <3> HIDE DEF row
    <3> QED
      BY <3>1, <3>2 DEF row
  <2>2. QuietJobs
    BY <1>0, <2>1 DEF QuietJobs
  <2>3. QuietLog
    BY <1>2 DEF QuietLog, EnqueueInput
  <2> QED
    BY <2>2, <2>3, QuietKeepsOutcomes
<1>3. ASSUME NEW s \in Sessions, Heartbeat(s) \/ Reconnect(s) \/ MarkDisconnected(s)
                                 \/ (\E d \in Devices : Acquire(s, d))
      PROVE  OutcomeOnce'
  <2>1. QuietLog
    BY <1>3, EventFields DEF QuietLog, Heartbeat, Reconnect, MarkDisconnected, Acquire, Control
  <2>2. QuietJobs
    BY <1>3 DEF QuietJobs, Heartbeat, Reconnect, MarkDisconnected, Acquire
  <2> QED
    BY <2>1, <2>2, QuietKeepsOutcomes
<1>4. ASSUME NEW w \in frameWork, NEW retryable \in BOOLEAN,
             CompleteFrame(w) \/ FailFrame(w, retryable)
      PROVE  OutcomeOnce'
  <2>1. \E e : /\ e.input = 0 /\ events' = events \cup {e} /\ idem' = idem
    <3>1. CASE CompleteFrame(w)
      <4> DEFINE e == [EventRow(w.session, LastSeq(w.session) + 1, "frame") EXCEPT
                          !.stream = w.stream, !.frame = FrameSeq(w.session, w.stream) + 1]
      <4>1. e.input = 0
        BY DEF EventRow
      <4>2. events' = events \cup {e} /\ idem' = idem
        BY <3>1 DEF CompleteFrame
      <4> HIDE DEF e
      <4> QED
        BY <4>1, <4>2
    <3>2. CASE FailFrame(w, retryable)
      <4>1. /\ events' = events \cup {EventRow(w.session, LastSeq(w.session) + 1, "error")}
            /\ idem' = idem
        BY <3>2 DEF FailFrame
      <4> QED
        BY <4>1, EventFields
    <3> QED
      BY <1>4, <3>1, <3>2
  <2>2. QuietLog
    BY <2>1 DEF QuietLog
  <2>3. QuietJobs
    BY <1>4 DEF QuietJobs, CompleteFrame, FailFrame
  <2> QED
    BY <2>2, <2>3, QuietKeepsOutcomes
<1>5. ASSUME NEW p \in Procs, NEW d \in Devices, RegisterHeldDevice(p, d) PROVE OutcomeOnce'
  <2>1. PICK s \in Sessions :
           job' = [j \in Inputs |-> IF j \in Unfinished(s)
                                    THEN ReadoptedJob(j, lease[p].epoch) ELSE job[j]]
    BY <1>5 DEF RegisterHeldDevice
  <2>2. \A j \in Unfinished(s) : /\ job[j].state # "done"
                                 /\ ReadoptedJob(j, lease[p].epoch).state # "done"
    BY <1>0 DEF Unfinished, InState, ReadoptedJob, JobRow
  <2>3. QuietJobs
    BY <2>1, <2>2 DEF QuietJobs
  <2>4. QuietLog
    BY <1>5 DEF QuietLog, RegisterHeldDevice
  <2> QED
    BY <2>3, <2>4, QuietKeepsOutcomes
<1>6. ASSUME NEW p \in Procs, NEW j \in Inputs, ClaimInput(p, j) PROVE OutcomeOnce'
  <2>1. /\ job[j].state \in {"pending", "claimed"}
        /\ job' = [job EXCEPT ![j].state = "claimed", ![j].claimedEpoch = lease[p].epoch,
                              ![j].claimGen = job[j].claimGen + 1]
    BY <1>6 DEF ClaimInput, Claimable, Eligible, Queued, InState
  <2>2. job'[j].state = "claimed" /\ \A i \in Inputs \ {j} : job'[i] = job[i]
    BY <1>0, <2>1 DEF JobRow
  <2>3. QuietJobs
    BY <2>1, <2>2 DEF QuietJobs
  <2>4. QuietLog
    BY <1>6 DEF QuietLog, ClaimInput
  <2> QED
    BY <2>3, <2>4, QuietKeepsOutcomes
<1>7. ASSUME NEW w \in inputWork, StartInput(w) PROVE OutcomeOnce'
  <2>1. /\ w.input \in Inputs /\ job[w.input].state = "claimed"
        /\ job' = [job EXCEPT ![w.input].state = "executing"]
    BY <1>7 DEF StartInput, TypeInv, StoreTypeOK, InputWork
  <2>2. job'[w.input].state = "executing" /\ \A i \in Inputs \ {w.input} : job'[i] = job[i]
    BY <1>0, <2>1 DEF JobRow
  <2>3. QuietJobs
    BY <2>1, <2>2 DEF QuietJobs
  <2>4. QuietLog
    BY <1>7 DEF QuietLog, StartInput
  <2> QED
    BY <2>3, <2>4, QuietKeepsOutcomes
<1>8. ASSUME NEW w \in inputWork, NEW type \in Outcomes, CompleteInput(w, type)
      PROVE  OutcomeOnce'
  <2>1. PICK s \in Sessions : /\ Outcome(s, w.input, type) /\ job[w.input].state = "executing"
                              /\ job[w.input].session = s
    BY <1>8 DEF CompleteInput, Completable
  <2>2. w.input \in Inputs
    BY DEF TypeInv, StoreTypeOK, InputWork
  <2> QED
    BY <2>1, <2>2, OutcomeWritten
<1>9. ASSUME NEW p \in Procs, NEW j \in Inputs, RecoverAmbiguousInput(p, j) PROVE OutcomeOnce'
  <2>1. PICK s \in Sessions : /\ Outcome(s, j, "error") /\ job[j].state = "executing"
                              /\ job[j].session = s
    BY <1>9 DEF RecoverAmbiguousInput
  <2> QED
    BY <2>1, OutcomeWritten
<1>10. ASSUME NEW s \in Sessions, Cancel(s) PROVE OutcomeOnce'
  <2> DEFINE n == LastSeq(s) + Cardinality(Queued(s)) + 1
             X == {EventRow(s, n, "cancelled")}
  <2>1. /\ job' = FinishedJobs(s, Queued(s), {})
        /\ events' = (events \cup OutcomeEvents(s, Queued(s), {})) \cup X
        /\ idem \cup OutcomeRows(s, Queued(s), {}) \subseteq idem'
    BY <1>10 DEF Cancel
  <2>2. /\ Queued(s) \in SUBSET Inputs
        /\ \A i \in Queued(s) : job[i].state # "done" /\ job[i].session = s
    BY DEF Queued, InState
  <2>3. \A e \in X : e.input = 0
    BY EventFields
  <2> HIDE DEF X
  <2> QED
    BY <2>1, <2>2, <2>3, OutcomesWritten
<1>11. ASSUME NEW s \in Sessions, Ending(s) PROVE OutcomeOnce'
  <2>1. PICK First \in SUBSET Inputs, outcome \in {"completed", "cancelled", "error"} :
           End(s, Unfinished(s), First, outcome)
    BY <1>11 DEF Ending
  <2> DEFINE X == {ReleasedEvent(s, Unfinished(s), outcome)}
  <2>2. /\ job' = FinishedJobs(s, Unfinished(s), First)
        /\ events' = (events \cup OutcomeEvents(s, Unfinished(s), First)) \cup X
        /\ idem \cup OutcomeRows(s, Unfinished(s), First) \subseteq idem'
    BY <2>1 DEF End, EndEvents, EndRows
  <2>3. /\ Unfinished(s) \in SUBSET Inputs
        /\ \A i \in Unfinished(s) : job[i].state # "done" /\ job[i].session = s
    BY DEF Unfinished, InState
  <2>4. \A e \in X : e.input = 0
    BY DEF ReleasedEvent, EventRow
  <2> HIDE DEF X
  <2> QED
    BY <2>2, <2>3, <2>4, OutcomesWritten
<1>12. ASSUME NEW s \in Sessions, NEW d \in Devices, AcquireExpired(s, d) PROVE OutcomeOnce'
  <2>1. PICK o \in Sessions :
           /\ job' = FinishedJobs(o, Unfinished(o), {})
           /\ events' = (events \cup EndEvents(o, Unfinished(o), {}, "error"))
                           \cup {EventRow(s, 1, "acquired")}
           /\ idem' = idem \cup (EndRows(o, Unfinished(o), {}) \cup {AcquireRow(s)})
    BY <1>12 DEF AcquireExpired, Abandoned
  <2> DEFINE X == {ReleasedEvent(o, Unfinished(o), "error"), EventRow(s, 1, "acquired")}
  <2>2. /\ events' = (events \cup OutcomeEvents(o, Unfinished(o), {})) \cup X
        /\ idem \cup OutcomeRows(o, Unfinished(o), {}) \subseteq idem'
    BY <2>1 DEF EndEvents, EndRows
  <2>3. /\ Unfinished(o) \in SUBSET Inputs
        /\ \A i \in Unfinished(o) : job[i].state # "done" /\ job[i].session = o
    BY DEF Unfinished, InState
  <2>4. \A e \in X : e.input = 0
    <3>1. ReleasedEvent(o, Unfinished(o), "error").input = 0
      BY DEF ReleasedEvent, EventRow
    <3>2. EventRow(s, 1, "acquired").input = 0
      BY EventFields
    <3> QED
      BY <3>1, <3>2
  <2> HIDE DEF X
  <2> QED
    BY <2>1, <2>2, <2>3, <2>4, OutcomesWritten
<1>13. ASSUME NEW s \in Sessions, SessionLapse(s) \/ (\E p \in Procs : ClaimFrame(p, s))
       PROVE  OutcomeOnce'
  BY <1>1, <1>13 DEF SessionLapse, ClaimFrame
<1>14. ASSUME NEW p \in Procs, NEW d \in Devices, RegisterIdleDevice(p, d) PROVE OutcomeOnce'
  BY <1>1, <1>14 DEF RegisterIdleDevice, sessionVars
<1>15. (RegistryStep /\ UNCHANGED sessionVars) \/ UNCHANGED vars => OutcomeOnce'
  BY <1>1 DEF sessionVars, vars
<1>16. ASSUME \/ \E s \in Sessions : Release(s) \/ ExpireSession(s)
              \/ \E w \in inputWork : CompleteInputExpired(w)
       PROVE  OutcomeOnce'
  BY <1>11, <1>16, EndingCalls
<1> QED
  BY <1>2, <1>3, <1>4, <1>5, <1>6, <1>7, <1>8, <1>9, <1>10, <1>12, <1>13, <1>14, <1>15, <1>16
  DEF Next, SessionStep, ExecutionStep

\* Each input gets exactly one outcome, whoever writes it and however claims overlap.
THEOREM OneOutcomeEach == ConcurrentSpec => []OutcomeOnce
<1>1. ConcurrentInit => OutcomeOnce
  BY DEF ConcurrentInit, Init, OutcomeOnce, NoJob
<1>2. ConcurrentInv /\ OutcomeOnce /\ [ConcurrentNext]_concurrentVars => OutcomeOnce'
  <2> SUFFICES ASSUME ConcurrentInv, OutcomeOnce, [ConcurrentNext]_concurrentVars
               PROVE  OutcomeOnce'
    OBVIOUS
  <2>1. CASE [Next]_vars
    BY <2>1, OutcomeOnceStep DEF ConcurrentInv
  <2>2. ASSUME NEW c \in Claimers, NEW i \in Inputs, FinishClaim(c, i) PROVE OutcomeOnce'
    <3>1. /\ job[i].state \in {"pending", "claimed"} /\ job' = ClaimedJob(i, job[i].epoch)
          /\ UNCHANGED <<events, idem>>
      BY <2>2, FinishedClaim
    <3>2. job'[i].state = "claimed" /\ \A j \in Inputs \ {i} : job'[j] = job[j]
      BY <3>1 DEF ClaimedJob, ConcurrentInv, StoreCore, TypeInv, StoreTypeOK, JobRow
    <3>3. QuietJobs /\ QuietLog
      BY <3>1, <3>2 DEF QuietJobs, QuietLog
    <3> QED
      BY <3>3, QuietKeepsOutcomes
  <2> QED
    BY <2>1, <2>2 DEF ConcurrentNext, concurrentVars, StartClaim, ClaimNothing, vars
<1> QED
  BY <1>1, <1>2, ConcurrentInvariant, PTL DEF ConcurrentSpec

-----------------------------------------------------------------------------
(***************************************************************************)
(* Numbers.  A log is numbered when its events carry 1 .. n, each once.    *)
(***************************************************************************)
Carries(X, S) ==
    /\ \A e \in X : e.seq \in S
    /\ \A e, f \in X : e.seq = f.seq => e = f
    /\ \A k \in S : \E e \in X : e.seq = k
Numbered(log, n) == Carries(log, 1 .. n)

LEMMA NumberedLog ==
    ASSUME NEW log, NEW n \in Nat, Numbered(log, n)
    PROVE  Cardinality(log) = n /\ Contiguous(log)
<1> DEFINE f == [k \in 1 .. n |-> CHOOSE e \in log : e.seq = k]
<1>1. \A k \in 1 .. n : f[k] \in log /\ f[k].seq = k
  BY DEF Numbered, Carries
<1>2. f \in [1 .. n -> log]
  BY <1>1
<1> HIDE DEF f
<1>3. f \in Injection(1 .. n, log)
  BY <1>1, <1>2 DEF Injection, IsInjective
<1>4. f \in Surjection(1 .. n, log)
  BY <1>1, <1>2 DEF Surjection, Numbered, Carries
<1>5. ExistsBijection(1 .. n, log)
  BY <1>3, <1>4 DEF ExistsBijection, Bijection
<1>6. IsFiniteSet(1 .. n) /\ Cardinality(1 .. n) = n
  BY FS_Interval
<1>7. Cardinality(log) = n
  BY <1>5, <1>6, FS_Bijection
<1>8. {e.seq : e \in log} = 1 .. n
  BY DEF Numbered, Carries
<1> QED
  BY <1>7, <1>8 DEF Contiguous

LEMMA LastOfNumbered ==
    ASSUME TypeInv, NEW s \in Sessions, NEW n \in Nat, Numbered(EventsOf(s), n)
    PROVE  LastSeq(s) = n
<1>1. LastSeq(s) <= n
  BY SeqIsNat DEF Numbered, Carries
<1>2. n <= LastSeq(s)
  <2>1. CASE n = 0
    BY <2>1, SeqIsNat
  <2>2. CASE n # 0
    <3>1. n \in 1 .. n
      BY <2>2
    <3> QED
      BY <3>1, SeqIsNat DEF Numbered, Carries
  <2> QED
    BY <2>1, <2>2
<1> QED
  BY <1>1, <1>2, SeqIsNat

\* The places of the inputs that one transaction finishes are 1 .. Cardinality(D).
LEMMA PlacesFill ==
    ASSUME NEW D \in SUBSET Inputs, NEW First
    PROVE  /\ \A i \in D : Place(D, First, i) \in 1 .. Cardinality(D)
           /\ \A i, j \in D : Place(D, First, i) = Place(D, First, j) => i = j
           /\ \A k \in 1 .. Cardinality(D) : \E i \in D : Place(D, First, i) = k
<1> DEFINE Upto(i) == {j \in D : \/ Phase(j, First) < Phase(i, First)
                                 \/ Phase(j, First) = Phase(i, First) /\ j <= i}
           n == Cardinality(D)
<1>0. IsFiniteSet(D) /\ n \in Nat /\ D \subseteq Nat
  BY InputsFinite, SessionStoreAssumption DEF Inputs
<1>1. \A i \in D : Place(D, First, i) = Cardinality(Upto(i))
  BY DEF Place
<1>2. \A i \in D : Phase(i, First) \in Nat
  BY DEF Phase
<1>3. ASSUME NEW i \in D PROVE Cardinality(Upto(i)) \in 1 .. n
  <2>1. Upto(i) \in SUBSET D /\ i \in Upto(i)
    BY <1>0, <1>2
  <2> HIDE DEF Upto
  <2>2. IsFiniteSet(Upto(i)) /\ Cardinality(Upto(i)) \in Nat /\ Cardinality(Upto(i)) <= n
    BY <1>0, <2>1, FS_Subset, FS_CardinalityType
  <2>3. Cardinality(Upto(i)) # 0
    BY <2>1, <2>2, FS_EmptySet
  <2> QED
    BY <1>0, <2>2, <2>3
<1>4. ASSUME NEW i \in D, NEW j \in D, i # j, Cardinality(Upto(i)) = Cardinality(Upto(j))
      PROVE  FALSE
  <2>1. ASSUME NEW a \in D, NEW b \in D, a # b, b \notin Upto(a)
        PROVE  Cardinality(Upto(a)) # Cardinality(Upto(b))
    <3>0. /\ Phase(a, First) \in Nat /\ Phase(b, First) \in Nat /\ a \in Nat /\ b \in Nat
          /\ ~(Phase(b, First) < Phase(a, First))
          /\ Phase(b, First) = Phase(a, First) => ~(b <= a)
      BY <1>0, <1>2, <2>1
    <3>1. Upto(a) \in SUBSET Upto(b) /\ b \in Upto(b) /\ Upto(b) \in SUBSET D
      <4>1. ASSUME NEW x \in Upto(a) PROVE x \in Upto(b)
        <5>1. x \in D /\ x \in Nat /\ Phase(x, First) \in Nat
          BY <1>0, <1>2
        <5> QED
          BY <3>0, <4>1, <5>1
      <4>2. b \in Upto(b) /\ Upto(b) \in SUBSET D
        BY <3>0
      <4> HIDE DEF Upto
      <4> QED
        BY <4>1, <4>2
    <3> HIDE DEF Upto
    <3>2. IsFiniteSet(Upto(b))
      BY <1>0, <3>1, FS_Subset
    <3> QED
      BY <2>1, <3>1, <3>2, FS_Subset
  <2>2. i \notin Upto(j) \/ j \notin Upto(i)
    BY <1>0, <1>2, <1>4
  <2> HIDE DEF Upto
  <2> QED
    BY <1>4, <2>1, <2>2
<1>5. \A k \in 1 .. n : \E i \in D : Cardinality(Upto(i)) = k
  <2> DEFINE f == [i \in D |-> Cardinality(Upto(i))]
  <2> HIDE DEF Upto, n
  <2>1. f \in [D -> 1 .. n] /\ \A i \in D : f[i] = Cardinality(Upto(i))
    BY <1>3
  <2> HIDE DEF f
  <2>2. f \in Injection(D, 1 .. n)
    BY <1>4, <2>1 DEF Injection, IsInjective
  <2>3. IsFiniteSet(1 .. n) /\ Cardinality(1 .. n) = n
    BY <1>0, FS_Interval
  <2>4. f \in Surjection(D, 1 .. n)
    BY <2>2, <2>3, FS_Injection DEF n
  <2> QED
    BY <2>1, <2>4 DEF Surjection
<1> QED
  BY <1>1, <1>3, <1>4, <1>5

LEMMA OutcomesNumbered ==
    ASSUME TypeInv, NEW s \in Sessions, NEW D \in SUBSET Inputs, NEW First,
           NEW n \in Nat, LastSeq(s) = n
    PROVE  Carries(OutcomeEvents(s, D, First), n + 1 .. n + Cardinality(D))
<1>1. \A i \in D : /\ OutcomeEvent(s, OutcomeSeq(s, D, First, i), "error", i).seq
                         = n + Place(D, First, i)
                   /\ Place(D, First, i) \in Nat
  BY PlaceIsNat DEF OutcomeEvent, EventRow, OutcomeSeq
<1>2. PICK d \in Nat : d = Cardinality(D)
  BY InputsFinite
<1>3. /\ \A i \in D : Place(D, First, i) \in 1 .. d
      /\ \A i, j \in D : Place(D, First, i) = Place(D, First, j) => i = j
      /\ \A k \in 1 .. d : \E i \in D : Place(D, First, i) = k
  BY <1>2, PlacesFill
<1> DEFINE X == OutcomeEvents(s, D, First)
<1>4. \A e \in X : \E i \in D : /\ e = OutcomeEvent(s, OutcomeSeq(s, D, First, i), "error", i)
                                /\ e.seq = n + Place(D, First, i)
  BY <1>1 DEF OutcomeEvents
<1>5. \A e \in X : e.seq \in n + 1 .. n + d
  BY <1>3, <1>4
<1>6. \A e, f \in X : e.seq = f.seq => e = f
  BY <1>1, <1>3, <1>4
<1>7. ASSUME NEW k \in n + 1 .. n + d PROVE \E e \in X : e.seq = k
  <2>1. PICK i \in D : Place(D, First, i) = k - n
    BY <1>3
  <2> QED
    BY <1>1, <2>1 DEF OutcomeEvents
<1> QED
  BY <1>2, <1>5, <1>6, <1>7 DEF Carries

LEMMA NumberedOn ==
    ASSUME NEW log, NEW n \in Nat, Numbered(log, n), NEW d \in Nat, NEW X,
           Carries(X, n + 1 .. n + d), NEW e, e.seq = n + d + 1
    PROVE  Numbered(log \cup X \cup {e}, n + d + 1)
  BY DEF Numbered, Carries

-----------------------------------------------------------------------------
(***************************************************************************)
(* The validator, followed along the log.                                  *)
(***************************************************************************)
Acks == {"active", "disconnected"}

Fact == [state : {"new", "active", "disconnected", "cancelled", "released"}, stream : Nat,
         opened : Nat, lastFrame : Nat, frames : SUBSET (Nat \X Nat), valid : BOOLEAN]

\* F is what the validator knows after each event.
Trace(F, log, n) ==
    /\ F \in [0 .. n -> Fact]
    /\ F[0] = Fresh
    /\ \A e \in log : F[e.seq] = Follow(F[e.seq - 1], e, Acks)

\* A trace decides what the validator says.
LEMMA TraceValidates ==
    ASSUME NEW log, NEW n \in Nat, Numbered(log, n), NEW F, Trace(F, log, n)
    PROVE  validateEvents(log, Acks) <=> F[n].valid /\ F[n].state # "new"
<1> DEFINE At(k) == CHOOSE e \in log : e.seq = k
           facts[k \in 0 .. Cardinality(log)] ==
              IF k = 0 THEN Fresh ELSE Follow(facts[k - 1], At(k), Acks)
           IsFacts(g) == g = [k \in 0 .. Cardinality(log) |->
                                 IF k = 0 THEN Fresh ELSE Follow(g[k - 1], At(k), Acks)]
<1>0. Cardinality(log) = n /\ Contiguous(log)
  BY NumberedLog
<1>1. validateEvents(log, Acks) =
         (Contiguous(log) /\ LET f == facts[Cardinality(log)] IN f.valid /\ f.state # "new")
  BY Zenon DEF validateEvents
<1>2. facts = CHOOSE g : IsFacts(g)
  OBVIOUS
<1> HIDE DEF facts
<1>3. \A k \in 1 .. n : At(k) \in log /\ At(k).seq = k
  BY DEF Numbered, Carries
<1> HIDE DEF At
<1>4. \A k \in 0 .. n : F[k] = IF k = 0 THEN Fresh ELSE Follow(F[k - 1], At(k), Acks)
  <2> SUFFICES ASSUME NEW k \in 0 .. n, k # 0 PROVE F[k] = Follow(F[k - 1], At(k), Acks)
    BY DEF Trace
  <2>1. k \in 1 .. n
    OBVIOUS
  <2> QED
    BY <1>3, <2>1 DEF Trace
<1>5. IsFacts(F)
  BY <1>0, <1>4 DEF Trace
<1>6. IsFacts(facts)
  <2> HIDE DEF IsFacts
  <2> QED
    BY <1>2, <1>5, Zenon
<1>7. \A k \in 0 .. n : facts[k] = IF k = 0 THEN Fresh ELSE Follow(facts[k - 1], At(k), Acks)
  BY <1>0, <1>6
<1> HIDE DEF IsFacts
<1>8. \A k \in 0 .. n : facts[k] = F[k]
  <2> DEFINE Wrong == {k \in 0 .. n : facts[k] # F[k]}
  <2> SUFFICES ASSUME Wrong # {} PROVE FALSE
    OBVIOUS
  <2>1. Wrong \in SUBSET Nat
    OBVIOUS
  <2> HIDE DEF Wrong
  <2>2. PICK m \in Wrong : \A k \in Wrong : m <= k
    BY <2>1, LeastNatural
  <2> USE DEF Wrong
  <2>3. CASE m = 0
    BY <1>4, <1>7, <2>2, <2>3
  <2>4. CASE m # 0
    <3>1. m - 1 \in 0 .. n /\ m - 1 \notin Wrong
      BY <2>2, <2>4
    <3>2. facts[m - 1] = F[m - 1]
      BY <3>1
    <3> QED
      BY <1>4, <1>7, <2>2, <2>4, <3>2
  <2> QED
    BY <2>3, <2>4
<1>9. facts[Cardinality(log)] = F[n]
  BY <1>0, <1>8
<1> QED
  BY <1>0, <1>1, <1>9

\* What the validator knows of a session, and what the store does.
StateOf(s) == IF session[s].status = "none" THEN "new" ELSE session[s].status
Shown(s) == {<<e.stream, e.frame>> : e \in FramesOf(s)}
Knows(f, s) ==
    /\ f \in Fact /\ f.valid
    /\ f.state = StateOf(s)
    /\ f.opened = IF session[s].status = "none" THEN 1 ELSE session[s].stream
    /\ f.stream <= f.opened
    /\ f.frames = Shown(s)
    /\ f.lastFrame = 0 \/ <<f.stream, f.lastFrame>> \in f.frames

Followed(s) ==
    \E n \in Nat : /\ Numbered(EventsOf(s), n)
                   /\ \E F : Trace(F, EventsOf(s), n) /\ Knows(F[n], s)

\* An input acknowledged exists, and an input that exists is based on a frame shown.
AcksKnown ==
    \A e \in events : e.type = "input_ack" => e.input \in Inputs /\ job[e.input].state # "none"
JobsShown ==
    \A i \in Inputs : job[i].state # "none" =>
        \E e \in FramesOf(job[i].session) : e.stream = job[i].stream /\ e.frame = job[i].frame
JobsStay ==
    \A i \in Inputs : job[i].state # "none" =>
        job'[i].state # "none" /\ job'[i].session = job[i].session /\ KeepsFrame(i)

\* What is known of the jobs of the log's inputs does not change.
LEMMA OldEventsFollow ==
    ASSUME TypeInv, AcksKnown, JobsStay, NEW f \in Fact, NEW e \in events
    PROVE  Follow(f, e, Acks)' = Follow(f, e, Acks)
<1>1. e.type = "input_ack" => InputAcked(f, e, Acks)' = InputAcked(f, e, Acks)
  <2> SUFFICES ASSUME e.type = "input_ack"
               PROVE  InputAcked(f, e, Acks)' = InputAcked(f, e, Acks)
    OBVIOUS
  <2>1. job'[e.input].stream = job[e.input].stream /\ job'[e.input].frame = job[e.input].frame
    BY DEF AcksKnown, JobsStay, KeepsFrame
  <2> QED
    BY <2>1 DEF InputAcked
<1> QED
  BY <1>1 DEF Follow

-----------------------------------------------------------------------------
(***************************************************************************)
(* The steps of the store, as the validator sees them.                     *)
(***************************************************************************)
LEMMA MaxOfTwo ==
    ASSUME NEW a \in Nat, NEW b \in Nat, a <= b
    PROVE  Max({a, b}) = b
<1>1. {a, b} \in SUBSET Nat /\ {a, b} # {} /\ \A x \in {a, b} : x <= b
  OBVIOUS
<1>2. Max({a, b}) \in {a, b} /\ \A x \in {a, b} : x <= Max({a, b})
  BY <1>1, MaxOfNaturals
<1> QED
  BY <1>2

\* The frames a step shows.
LEMMA ShownStep ==
    ASSUME TypeInv, NEW s \in Sessions, NEW D, NEW First, NEW e, Appended(s, D, First, e)
    PROVE  Shown(s)' = IF e.type = "frame" THEN Shown(s) \cup {<<e.stream, e.frame>>} ELSE Shown(s)
<1>1. \A x \in OutcomeEvents(s, D, First) : x.type = "error"
  BY DEF OutcomeEvents, OutcomeEvent, EventRow
<1>2. EventsOf(s)' = EventsOf(s) \cup OutcomeEvents(s, D, First) \cup {e}
  BY DEF Appended
<1>3. FramesOf(s)' = IF e.type = "frame" THEN FramesOf(s) \cup {e} ELSE FramesOf(s)
  BY <1>1, <1>2 DEF FramesOf
<1> QED
  BY <1>3 DEF Shown

\* What is known next, its fields named.
NextFact(f, state, stream, opened, lastFrame, frames) ==
    [f EXCEPT !.valid = TRUE, !.state = state, !.stream = stream, !.opened = opened,
              !.lastFrame = lastFrame, !.frames = frames]

LEMMA FactsMove ==
    ASSUME NEW f \in Fact, NEW state \in {"active", "disconnected", "cancelled", "released"},
           NEW stream \in Nat, NEW opened \in Nat, NEW lastFrame \in Nat,
           NEW frames \in SUBSET (Nat \X Nat)
    PROVE  LET g == NextFact(f, state, stream, opened, lastFrame, frames)
           IN  /\ g \in Fact /\ g.valid /\ g.state = state /\ g.opened = opened
               /\ g.stream = stream /\ g.lastFrame = lastFrame /\ g.frames = frames
  BY DEF Fact, NextFact

\* The rule of the contract for the last event of a step holds of what the validator
\* knows of the session.
LEMMA FrameFollows ==
    ASSUME TypeInv, NEW s \in Sessions, NEW D, NEW First, NEW e \in Event, NEW f, Knows(f, s),
           Appended(s, D, First, e), e.type = "frame", NEW g, g = Follow(f, e, Acks)'
    PROVE  Knows(g, s)'
<1>1. /\ session[s].status = "active" /\ RowStays(s) /\ e.stream = session[s].stream
      /\ e.frame = FrameSeq(s, e.stream) + 1
  BY DEF Appended, Fits
<1>2. e.stream \in Nat /\ e.frame \in Nat
  BY DEF Event
<1>3. /\ f \in Fact /\ f.valid /\ f.state = "active" /\ f.opened = e.stream /\ f.stream <= e.stream
      /\ f.stream \in Nat /\ f.frames = Shown(s)
      /\ f.lastFrame = 0 \/ <<f.stream, f.lastFrame>> \in f.frames
  BY <1>1 DEF Knows, StateOf, Fact
<1>4. /\ FrameSeq(s, e.stream) \in Nat
      /\ \A x \in FramesOf(s) : x.stream = e.stream => x.frame <= FrameSeq(s, e.stream)
  BY <1>2, FrameSeqIsNat
<1>5. \A m \in Nat : <<e.stream, m>> \in f.frames => m < e.frame
  <2>1. \A x \in FramesOf(s) : x.frame \in Nat
    BY DEF FramesOf, EventsOf, TypeInv, StoreTypeOK, Event
  <2> QED
    BY <1>1, <1>3, <1>4, <2>1 DEF Shown
<1>6. <<e.stream, e.frame>> \notin f.frames
  BY <1>2, <1>5
<1>7. e.stream > f.stream \/ (e.stream = f.stream /\ e.frame > f.lastFrame)
  <2>1. f.lastFrame \in Nat
    BY <1>3 DEF Fact
  <2>2. e.frame > 0
    BY <1>1, <1>4
  <2> QED
    BY <1>2, <1>3, <1>5, <2>1, <2>2
<1>8. Max({f.stream, e.stream}) = e.stream
  BY <1>2, <1>3, MaxOfTwo
<1> DEFINE next == NextFact(f, "active", e.stream, e.stream, e.frame,
                         f.frames \cup {<<e.stream, e.frame>>})
<1>9. g = next
  <2>1. Follow(f, e, Acks)' = FrameShown(f, e)
    BY <1>3 DEF Follow
  <2>2. f.state = "active" /\ f.valid = TRUE
    BY <1>3 DEF Fact
  <2>3. FrameShown(f, e) = next
    BY <1>3, <1>6, <1>7, <1>8, <2>2 DEF FrameShown, Checked, Fact, NextFact
  <2> QED
    BY <2>1, <2>3
<1>10. /\ next \in Fact /\ next.valid /\ next.state = "active" /\ next.opened = e.stream
       /\ next.stream = e.stream /\ next.lastFrame = e.frame
       /\ next.frames = f.frames \cup {<<e.stream, e.frame>>}
  <2>1. f.frames \cup {<<e.stream, e.frame>>} \in SUBSET (Nat \X Nat)
    BY <1>2, <1>3 DEF Fact
  <2> QED
    BY <1>2, <1>3, <2>1, FactsMove
<1> HIDE DEF next
<1>11. Shown(s)' = g.frames
  BY <1>3, <1>9, <1>10, ShownStep
<1>12. <<g.stream, g.lastFrame>> \in g.frames
  BY <1>9, <1>10
<1>13. Knows(g, s)'
  BY <1>1, <1>2, <1>9, <1>10, <1>11, <1>12 DEF Knows, StateOf, RowStays
<1> QED
  BY <1>13

\* The events that leave the row alone and show no frame.
LEMMA PlainFollows ==
    ASSUME TypeInv, JobsShown, NEW s \in Sessions, NEW D, NEW First, NEW e \in Event, NEW f,
           Knows(f, s), Appended(s, D, First, e), e.type \in {"input_ack", "heartbeat", "error"},
           JobsStay, NEW g, g = Follow(f, e, Acks)'
    PROVE  Knows(g, s)'
<1>1. RowStays(s) /\ Shown(s)' = Shown(s)
  BY ShownStep DEF Appended, Fits
<1>2. f \in Fact /\ f.valid = TRUE /\ f.state = StateOf(s) /\ f.frames = Shown(s)
  BY DEF Knows, Fact
<1>3. Knows(f, s)'
  BY <1>1 DEF Knows, StateOf, RowStays
<1>4. [f EXCEPT !.valid = TRUE] = f
  BY <1>2 DEF Fact
<1>5. CASE e.type = "heartbeat"
  <2>1. session[s].status = "active"
    BY <1>5 DEF Appended, Fits
  <2>2. f.state = "active"
    BY <1>2, <2>1 DEF StateOf
  <2>3. g = [f EXCEPT !.valid = f.valid /\ TRUE]
    BY <1>5, <2>2 DEF Follow, Heartbeaten, Checked
  <2> QED
    BY <1>2, <1>3, <1>4, <2>3
<1>6. CASE e.type = "error"
  <2>1. Open(s)
    BY <1>6 DEF Appended, Fits
  <2>2. f.state \in OpenStatus
    BY <1>2, <2>1 DEF StateOf, Open, OpenStatus
  <2>3. g = [f EXCEPT !.valid = f.valid /\ TRUE]
    BY <1>6, <2>2 DEF Follow, Failed, Checked, OpenStatus
  <2> QED
    BY <1>2, <1>3, <1>4, <2>3
<1>7. CASE e.type = "input_ack"
  <2>1. /\ session[s].status \in Acks /\ e.input \in Inputs /\ job[e.input].session = s
        /\ job[e.input].state = "executing"
    BY <1>7 DEF Appended, Fits, Acks
  <2>2. f.state \in Acks /\ e.input # 0
    BY <1>2, <2>1 DEF StateOf, Acks, Inputs
  <2>3. PICK x \in FramesOf(s) : x.stream = job[e.input].stream /\ x.frame = job[e.input].frame
    BY <2>1 DEF JobsShown
  <2>4. <<job'[e.input].stream, job'[e.input].frame>> \in f.frames
    BY <1>2, <2>1, <2>3 DEF JobsStay, KeepsFrame, Shown
  <2>5. g = [f EXCEPT !.valid = f.valid /\ TRUE]
    <3>1. g = InputAcked(f, e, Acks)'
      BY <1>7, <2>2 DEF Follow, Acks
    <3>2. InputAcked(f, e, Acks)' = [f EXCEPT !.valid = f.valid /\ TRUE]
      BY <2>2, <2>4 DEF InputAcked, Checked
    <3> QED
      BY <3>1, <3>2
  <2> QED
    BY <1>2, <1>3, <1>4, <2>5
<1> QED
  BY <1>5, <1>6, <1>7

\* The events that change the row.
LEMMA TurnFollows ==
    ASSUME TypeInv, NEW s \in Sessions, NEW D, NEW First, NEW e \in Event, NEW f,
           Knows(f, s), Appended(s, D, First, e),
           e.type \in {"acquired", "disconnected", "reconnected", "cancelled", "released"},
           NEW g, g = Follow(f, e, Acks)'
    PROVE  Knows(g, s)'
<1>1. Shown(s)' = Shown(s) /\ Fits(s, e)
  BY ShownStep DEF Appended
<1>2. /\ f \in Fact /\ f.valid = TRUE /\ f.state = StateOf(s) /\ f.frames = Shown(s)
      /\ f.opened = IF session[s].status = "none" THEN 1 ELSE session[s].stream
      /\ f.stream <= f.opened /\ f.stream \in Nat /\ f.opened \in Nat
      /\ f.lastFrame = 0 \/ <<f.stream, f.lastFrame>> \in f.frames
  BY DEF Knows, Fact
<1>3. ASSUME NEW state \in {"active", "disconnected", "cancelled", "released"},
             g = [[f EXCEPT !.valid = f.valid /\ TRUE] EXCEPT !.state = state],
             session'[s].status = state, session'[s].stream = f.opened
      PROVE  Knows(g, s)'
  <2>1. /\ g \in Fact /\ g.valid /\ g.state = state /\ g.opened = f.opened /\ g.stream = f.stream
        /\ g.frames = f.frames /\ g.lastFrame = f.lastFrame
    BY <1>2, <1>3 DEF Fact
  <2> QED
    BY <1>1, <1>2, <1>3, <2>1 DEF Knows, StateOf
<1>4. CASE e.type = "acquired"
  BY <1>1, <1>2, <1>3, <1>4 DEF Fits, StateOf, Follow, Acquired, Checked
<1>5. CASE e.type = "disconnected"
  BY <1>1, <1>2, <1>3, <1>5 DEF Fits, StateOf, Follow, Disconnected, Checked
<1>6. CASE e.type = "cancelled"
  BY <1>1, <1>2, <1>3, <1>6 DEF Fits, StateOf, Follow, Cancelled, Checked
<1>7. CASE e.type = "released"
  <2>1. /\ Open(s) /\ e.outcome \in {"error", ReleaseOutcome(s)}
        /\ session'[s].status = "released" /\ session'[s].stream = session[s].stream
    BY <1>1, <1>7 DEF Fits
  <2>2. f.state = session[s].status /\ f.state \in OpenStatus
    BY <1>2, <2>1 DEF StateOf, Open, OpenStatus
  <2>3. e.outcome = "error" \/ ((f.state = "cancelled") <=> (e.outcome = "cancelled"))
    BY <2>1, <2>2 DEF ReleaseOutcome
  <2>4. g = Released(f, e)
    BY <1>7, <2>2 DEF Follow, OpenStatus, Released, Checked
  <2>5. Released(f, e) = [[f EXCEPT !.valid = f.valid /\ TRUE] EXCEPT !.state = "released"]
    BY <2>2, <2>3 DEF Released, Checked, OpenStatus
  <2>6. session'[s].stream = f.opened
    BY <1>2, <2>1, <2>2 DEF OpenStatus
  <2> QED
    BY <1>3, <2>1, <2>4, <2>5, <2>6
<1>8. CASE e.type = "reconnected"
  <2>1. /\ session[s].status = "disconnected" /\ session'[s].status = "active"
        /\ session'[s].stream = session[s].stream + 1
    BY <1>1, <1>8 DEF Fits
  <2>2. f.state = "disconnected" /\ f.opened + 1 > f.stream /\ session'[s].stream = f.opened + 1
    BY <1>2, <2>1 DEF StateOf
  <2> DEFINE next == NextFact(f, "active", f.opened + 1, f.opened + 1, 0, f.frames)
  <2>3. g = next
    BY <1>2, <1>8, <2>2 DEF Follow, Reconnected, Checked, Fact, NextFact
  <2>4. /\ next \in Fact /\ next.valid /\ next.state = "active" /\ next.opened = f.opened + 1
        /\ next.stream = f.opened + 1 /\ next.lastFrame = 0 /\ next.frames = f.frames
    <3>1. f.opened + 1 \in Nat /\ 0 \in Nat /\ f.frames \in SUBSET (Nat \X Nat)
      BY <1>2 DEF Fact
    <3> QED
      BY <1>2, <3>1, FactsMove
  <2> HIDE DEF next
  <2> QED
    BY <1>1, <1>2, <2>1, <2>2, <2>3, <2>4 DEF Knows, StateOf
<1> QED
  BY <1>4, <1>5, <1>6, <1>7, <1>8

\* Whatever event a step of a session ends with, it follows.
LEMMA LastFollows ==
    ASSUME TypeInv, JobsShown, JobsStay, NEW s \in Sessions, NEW D, NEW First, NEW e \in Event,
           NEW f, Knows(f, s), Appended(s, D, First, e), NEW g, g = Follow(f, e, Acks)'
    PROVE  Knows(g, s)'
<1>1. e.type \in {"frame", "input_ack", "heartbeat", "error", "acquired", "disconnected",
                  "reconnected", "cancelled", "released"}
  BY DEF Appended, Fits
<1>2. CASE e.type = "frame"
  BY <1>2, FrameFollows
<1>3. CASE e.type \in {"input_ack", "heartbeat", "error"}
  BY <1>3, PlainFollows
<1>4. CASE e.type \in {"acquired", "disconnected", "reconnected", "cancelled", "released"}
  BY <1>4, TurnFollows
<1> QED
  BY <1>1, <1>2, <1>3, <1>4

\* A session about which nothing is written is followed as far as before.
LEMMA UnloggedFollows ==
    ASSUME TypeInv, AcksKnown, JobsStay, NEW s \in Sessions, Followed(s), Unlogged(s)
    PROVE  Followed(s)'
<1>1. PICK n \in Nat : /\ Numbered(EventsOf(s), n)
                       /\ \E F : Trace(F, EventsOf(s), n) /\ Knows(F[n], s)
  BY DEF Followed
<1>2. PICK F : Trace(F, EventsOf(s), n) /\ Knows(F[n], s)
  BY <1>1
<1>3. EventsOf(s)' = EventsOf(s) /\ RowStays(s) /\ Shown(s)' = Shown(s)
  BY DEF Unlogged, Shown, FramesOf
<1>4. Knows(F[n], s)'
  BY <1>2, <1>3 DEF Knows, StateOf, RowStays
<1>5. Trace(F, EventsOf(s), n)'
  <2>1. ASSUME NEW e \in EventsOf(s) PROVE F[e.seq] = Follow(F[e.seq - 1], e, Acks)'
    <3>1. e \in events /\ e.seq \in 1 .. n
      BY <1>1 DEF EventsOf, Numbered, Carries
    <3>2. F[e.seq - 1] \in Fact
      BY <1>2, <3>1 DEF Trace
    <3>3. Follow(F[e.seq - 1], e, Acks)' = Follow(F[e.seq - 1], e, Acks)
      BY <3>1, <3>2, OldEventsFollow
    <3> QED
      BY <1>2, <3>3 DEF Trace
  <2> QED
    BY <1>2, <1>3, <2>1 DEF Trace
<1> QED
  BY <1>1, <1>3, <1>4, <1>5 DEF Followed

\* A session whose log grows is followed to the new end.
LEMMA AppendedFollows ==
    ASSUME TypeInv, AcksKnown, JobsShown, JobsStay, NEW s \in Sessions, Followed(s),
           NEW D \in SUBSET Inputs, NEW First \in SUBSET Inputs, NEW e \in Event,
           Appended(s, D, First, e)
    PROVE  Followed(s)'
<1>1. PICK n \in Nat : /\ Numbered(EventsOf(s), n)
                       /\ \E F : Trace(F, EventsOf(s), n) /\ Knows(F[n], s)
  BY DEF Followed
<1>2. PICK F : Trace(F, EventsOf(s), n) /\ Knows(F[n], s)
  BY <1>1
<1>3. PICK d \in Nat : d = Cardinality(D)
  <2>1. Cardinality(D) \in Nat
    <3>1. IsFiniteSet(D)
      BY InputsFinite, SessionStoreAssumption DEF Inputs
    <3> QED
      BY <3>1, FS_CardinalityType
  <2> QED
    BY <2>1
<1>4. LastSeq(s) = n
  BY <1>1, LastOfNumbered
<1>5. PICK X : X = OutcomeEvents(s, D, First)
  OBVIOUS
<1>6. Carries(X, n + 1 .. n + d)
  BY <1>3, <1>4, <1>5, OutcomesNumbered
<1>7. EventsOf(s)' = EventsOf(s) \cup X \cup {e} /\ e.seq = n + d + 1
  BY <1>3, <1>4, <1>5 DEF Appended
<1>8. Numbered(EventsOf(s), n + d + 1)'
  <2>1. Numbered(EventsOf(s) \cup X \cup {e}, n + d + 1)
    BY <1>1, <1>6, <1>7, NumberedOn
  <2> QED
    BY <1>7, <2>1 DEF Numbered, Carries
<1>9. F[n] \in Fact /\ F[n].valid = TRUE
  BY <1>2 DEF Trace, Knows, Fact
<1>10. PICK g : g = Follow(F[n], e, Acks)'
  OBVIOUS
<1>11. Knows(g, s)'
  BY <1>2, <1>10, LastFollows
<1>12. g \in Fact
  BY <1>11 DEF Knows
<1>13. \A x \in X : Follow(F[n], x, Acks)' = F[n]
  <2> SUFFICES ASSUME NEW x \in X PROVE Follow(F[n], x, Acks)' = F[n]
    OBVIOUS
  <2>1. x.type = "error" /\ D # {}
    BY <1>5 DEF OutcomeEvents, OutcomeEvent, EventRow
  <2>2. F[n].state \in OpenStatus
    BY <1>2, <2>1 DEF Appended, Knows, StateOf, Open, OpenStatus
  <2>3. [F[n] EXCEPT !.valid = TRUE] = F[n]
    BY <1>9 DEF Fact
  <2> QED
    BY <1>9, <2>1, <2>2, <2>3 DEF Follow, Failed, Checked, OpenStatus
<1> DEFINE G == [k \in 0 .. n + d + 1 |->
                    IF k <= n THEN F[k] ELSE IF k <= n + d THEN F[n] ELSE g]
<1>14. /\ G \in [0 .. n + d + 1 -> Fact]
       /\ \A k \in 0 .. n : G[k] = F[k]
       /\ \A k \in n .. n + d : G[k] = F[n]
       /\ G[n + d + 1] = g
  <2>1. F \in [0 .. n -> Fact]
    BY <1>2 DEF Trace
  <2> QED
    BY <1>9, <1>12, <2>1
<1> HIDE DEF G
<1>15. Trace(G, EventsOf(s), n + d + 1)'
  <2>1. ASSUME NEW x \in EventsOf(s) PROVE G[x.seq] = Follow(G[x.seq - 1], x, Acks)'
    <3>1. x \in events /\ x.seq \in 1 .. n
      BY <1>1 DEF EventsOf, Numbered, Carries
    <3>2. G[x.seq] = F[x.seq] /\ G[x.seq - 1] = F[x.seq - 1]
      BY <1>14, <3>1
    <3>3. F[x.seq - 1] \in Fact
      BY <1>2, <3>1 DEF Trace
    <3>4. Follow(F[x.seq - 1], x, Acks)' = Follow(F[x.seq - 1], x, Acks)
      BY <3>1, <3>3, OldEventsFollow
    <3>5. F[x.seq] = Follow(F[x.seq - 1], x, Acks)
      BY <1>2 DEF Trace
    <3> QED
      BY <3>2, <3>4, <3>5
  <2>2. ASSUME NEW x \in X PROVE G[x.seq] = Follow(G[x.seq - 1], x, Acks)'
    <3>1. x.seq \in n + 1 .. n + d
      BY <1>6 DEF Carries
    <3>2. G[x.seq] = F[n] /\ G[x.seq - 1] = F[n]
      BY <1>14, <3>1
    <3> QED
      BY <1>13, <3>2
  <2>3. G[e.seq] = Follow(G[e.seq - 1], e, Acks)'
    BY <1>7, <1>10, <1>14
  <2>4. G[0] = Fresh
    BY <1>2, <1>14 DEF Trace
  <2>5. \A x \in EventsOf(s)' : G[x.seq] = Follow(G[x.seq - 1], x, Acks)'
    BY <1>7, <2>1, <2>2, <2>3
  <2> QED
    BY <1>14, <2>4, <2>5 DEF Trace
<1>16. Knows(G[n + d + 1], s)'
  BY <1>11, <1>14
<1>17. n + d + 1 \in Nat
  OBVIOUS
<1> QED
  BY <1>8, <1>15, <1>16, <1>17 DEF Followed

LEMMA FollowedStep ==
    ASSUME TypeInv, TypeInv', AcksKnown, JobsShown, JobsStay, NEW s \in Sessions, Followed(s),
           LogStep(s)
    PROVE  Followed(s)'
<1>1. CASE Unlogged(s)
  BY <1>1, UnloggedFollows
<1>2. ASSUME NEW D \in SUBSET Inputs, NEW First \in SUBSET Inputs, NEW e \in events',
             Appended(s, D, First, e)
      PROVE  Followed(s)'
  <2>1. e \in Event
    BY DEF TypeInv, StoreTypeOK
  <2> QED
    BY <1>2, <2>1, AppendedFollows
<1> QED
  BY <1>1, <1>2 DEF LogStep

\* What the proof knows beside the trace holds after every step.
LEMMA AcksStay ==
    ASSUME TypeInv, TypeInv', AcksKnown, JobsStay, \A s \in Sessions : LogStep(s)
    PROVE  AcksKnown'
<1> SUFFICES ASSUME NEW e \in events', e.type = "input_ack"
             PROVE  e.input \in Inputs /\ job'[e.input].state # "none"
  BY DEF AcksKnown
<1>1. CASE e \in events
  BY <1>1 DEF AcksKnown, JobsStay
<1>2. CASE e \notin events
  <2>1. PICK s \in Sessions : s = e.session
    BY DEF TypeInv, StoreTypeOK, Event
  <2>2. e \in EventsOf(s)' /\ e \notin EventsOf(s)
    BY <1>2, <2>1 DEF EventsOf
  <2>3. PICK D \in SUBSET Inputs, First \in SUBSET Inputs, x \in events' :
           Appended(s, D, First, x)
    BY <2>2 DEF LogStep, Unlogged
  <2>4. \A y \in OutcomeEvents(s, D, First) : y.type = "error"
    BY DEF OutcomeEvents, OutcomeEvent, EventRow
  <2>5. e = x
    BY <2>2, <2>3, <2>4 DEF Appended
  <2>6. e.input \in Inputs /\ job[e.input].state = "executing"
    BY <2>3, <2>5 DEF Appended, Fits
  <2> QED
    BY <2>6 DEF JobsStay
<1> QED
  BY <1>1, <1>2

\* The log loses nothing.
LEMMA FramesStay ==
    ASSUME NEW s, LogStep(s)
    PROVE  EventsOf(s) \subseteq EventsOf(s)' /\ FramesOf(s) \subseteq FramesOf(s)'
<1>1. EventsOf(s) \subseteq EventsOf(s)'
  BY DEF LogStep, Unlogged, Appended
<1> QED
  BY <1>1 DEF FramesOf

LEMMA JobsShownStep ==
    ASSUME TypeInv, JobsShown, JobsStay, \A s \in Sessions : LogStep(s),
           \A i \in Inputs : job[i].state # "none" => job[i].session \in Sessions,
           \A i \in Inputs : job[i].state = "none" =>
              \/ job'[i].state = "none"
              \/ \E s \in Sessions : \E e \in FramesOf(s) :
                    /\ job'[i].session = s
                    /\ job'[i].stream = e.stream /\ job'[i].frame = e.frame
    PROVE  JobsShown'
<1> SUFFICES ASSUME NEW i \in Inputs, job'[i].state # "none"
             PROVE  \E e \in events' : /\ e.session = job'[i].session /\ e.type = "frame"
                                       /\ e.stream = job'[i].stream /\ e.frame = job'[i].frame
  BY DEF JobsShown, FramesOf, EventsOf
<1>1. CASE job[i].state # "none"
  <2>1. PICK s \in Sessions : s = job[i].session
    BY <1>1
  <2>2. PICK e \in FramesOf(s) : e.stream = job[i].stream /\ e.frame = job[i].frame
    BY <1>1, <2>1 DEF JobsShown
  <2>3. e \in FramesOf(s)'
    BY <2>2, FramesStay
  <2>4. /\ job'[i].session = s /\ job'[i].stream = job[i].stream
        /\ job'[i].frame = job[i].frame
    BY <1>1, <2>1 DEF JobsStay, KeepsFrame
  <2> QED
    BY <2>2, <2>3, <2>4 DEF FramesOf, EventsOf
<1>2. CASE job[i].state = "none"
  <2>1. PICK s \in Sessions : \E e \in FramesOf(s) :
           /\ job'[i].session = s /\ job'[i].stream = e.stream /\ job'[i].frame = e.frame
    BY <1>2
  <2>2. PICK e \in FramesOf(s) :
           /\ job'[i].session = s /\ job'[i].stream = e.stream /\ job'[i].frame = e.frame
    BY <2>1
  <2>3. e \in FramesOf(s)'
    BY <2>2, FramesStay
  <2> QED
    BY <2>2, <2>3 DEF FramesOf, EventsOf
<1> QED
  BY <1>1, <1>2

LEMMA UnbornStep ==
    ASSUME TypeInv, Unborn, \A s \in Sessions : LogStep(s),
           \A s \in Sessions : session[s].status # "none" => session'[s].status # "none"
    PROVE  Unborn'
<1> SUFFICES ASSUME NEW s \in Sessions, session'[s].status = "none" PROVE EventsOf(s)' = {}
  BY DEF Unborn
<1>1. session[s].status = "none" /\ EventsOf(s) = {}
  BY DEF Unborn
<1>2. Unlogged(s)
  BY <1>1 DEF LogStep, Appended, Fits, Open, OpenStatus
<1> QED
  BY <1>1, <1>2 DEF Unlogged

-----------------------------------------------------------------------------
(***************************************************************************)
(* The log of every session is followed from its first event.              *)
(***************************************************************************)
LogInv == Unborn /\ AcksKnown /\ JobsShown /\ \A s \in Sessions : Followed(s)

LEMMA LogInvInit == Init => LogInv
<1> SUFFICES ASSUME Init PROVE LogInv
  OBVIOUS
<1>1. events = {} /\ \A s \in Sessions : session[s].status = "none"
  BY DEF Init, NoRow
<1>2. \A i \in Inputs : job[i].state = "none"
  BY DEF Init, NoJob
<1>3. \A s \in Sessions : EventsOf(s) = {} /\ Shown(s) = {}
  BY <1>1 DEF EventsOf, FramesOf, Shown
<1>4. ASSUME NEW s \in Sessions PROVE Followed(s)
  <2> DEFINE F == [k \in 0 .. 0 |-> Fresh]
  <2>1. Fresh \in Fact
    BY DEF Fresh, Fact
  <2>2. F \in [0 .. 0 -> Fact] /\ F[0] = Fresh
    BY <2>1
  <2> HIDE DEF F
  <2>3. Trace(F, EventsOf(s), 0)
    BY <1>3, <2>2 DEF Trace
  <2>4. Knows(F[0], s)
    BY <1>1, <1>3, <2>1, <2>2 DEF Knows, StateOf, Fresh
  <2>5. Numbered(EventsOf(s), 0)
    BY <1>3 DEF Numbered, Carries
  <2>6. 0 \in Nat
    OBVIOUS
  <2> QED
    BY <2>3, <2>4, <2>5, <2>6 DEF Followed
<1> QED
  BY <1>1, <1>2, <1>3, <1>4 DEF LogInv, Unborn, AcksKnown, JobsShown

\* Every transaction of the store that no other statement overlaps.
LEMMA LogInvStep ==
    ASSUME StoreCore, StoreCore', LogInv, [Next]_vars
    PROVE  LogInv'
<1> USE DEF StoreCore, LogInv
<1>1. \A s \in Sessions : LogStep(s)
  BY LogCases
<1>2. JobsStay
  BY JobsKept DEF JobsStay
<1>3. Unborn'
  BY <1>1, StatusPersists, UnbornStep
<1>4. AcksKnown'
  BY <1>1, <1>2, AcksStay
<1>5. JobsShown'
  <2>1. \A i \in Inputs : job[i].state # "none" => job[i].session \in Sessions
    BY DEF JobsPlaced
  <2>2. ASSUME NEW i \in Inputs, job[i].state = "none"
        PROVE  \/ job'[i].state = "none"
               \/ \E s \in Sessions : \E e \in FramesOf(s) :
                     /\ job'[i].session = s
                     /\ job'[i].stream = e.stream /\ job'[i].frame = e.frame
    <3>1. JobStep(i)
      BY JobCases
    <3>2. CASE Readopted(i)
      BY <2>2, <3>2 DEF Readopted
    <3> QED
      BY <2>2, <3>1, <3>2 DEF JobStep, SameJob, Enqueued, Claimed, Started, Finished
  <2> QED
    BY <1>1, <1>2, <2>1, <2>2, JobsShownStep
<1>6. ASSUME NEW s \in Sessions PROVE Followed(s)'
  BY <1>1, <1>2, FollowedStep
<1> QED
  BY <1>3, <1>4, <1>5, <1>6

\* A claim that ends after others took their part writes nothing to the log.
LEMMA FinishedClaimFollows ==
    ASSUME ConcurrentInv, LogInv, StoreCore', NEW c \in Claimers, NEW j \in Inputs,
           FinishClaim(c, j)
    PROVE  LogInv'
<1> USE DEF ConcurrentInv, StoreCore, LogInv
<1>1. /\ job[j].state \in {"pending", "claimed"} /\ job' = ClaimedJob(j, job[j].epoch)
      /\ UNCHANGED <<session, events>>
  BY FinishedClaim
<1>2. /\ job'[j].state = "claimed" /\ job'[j].session = job[j].session /\ KeepsFrame(j)
      /\ \A i \in Inputs \ {j} : job'[i] = job[i]
  BY <1>1 DEF ClaimedJob, KeepsFrame, TypeInv, StoreTypeOK, JobRow
<1>3. JobsStay
  BY <1>2 DEF JobsStay, KeepsFrame
<1>4. \A s \in Sessions : LogStep(s)
  BY <1>1 DEF LogStep, Unlogged, RowStays, EventsOf
<1>5. Unborn'
  BY <1>1 DEF Unborn, EventsOf
<1>6. AcksKnown'
  BY <1>3, <1>4, AcksStay
<1>7. JobsShown'
  <2>1. \A i \in Inputs : job[i].state # "none" => job[i].session \in Sessions
    BY DEF JobsPlaced
  <2>2. \A i \in Inputs : job[i].state = "none" => job'[i].state = "none"
    BY <1>1, <1>2
  <2> QED
    BY <1>3, <1>4, <2>1, <2>2, JobsShownStep
<1>8. ASSUME NEW s \in Sessions PROVE Followed(s)'
  BY <1>3, <1>4, FollowedStep
<1> QED
  BY <1>5, <1>6, <1>7, <1>8

LEMMA LogInvariant == ConcurrentSpec => []LogInv
<1>1. ConcurrentInit => LogInv
  BY LogInvInit DEF ConcurrentInit
<1>2. ConcurrentInv /\ ConcurrentInv' /\ LogInv /\ [ConcurrentNext]_concurrentVars => LogInv'
  <2> SUFFICES ASSUME ConcurrentInv, ConcurrentInv', LogInv, [ConcurrentNext]_concurrentVars
               PROVE  LogInv'
    OBVIOUS
  <2>1. CASE [Next]_vars
    BY <2>1, LogInvStep DEF ConcurrentInv
  <2>2. ASSUME NEW c \in Claimers, NEW j \in Inputs, FinishClaim(c, j) PROVE LogInv'
    BY <2>2, FinishedClaimFollows DEF ConcurrentInv
  <2> QED
    BY <2>1, <2>2 DEF ConcurrentNext, concurrentVars, StartClaim, ClaimNothing, vars
<1> QED
  BY <1>1, <1>2, ConcurrentInvariant, PTL DEF ConcurrentSpec

\* Whatever clients, workers, restarts and late reports do, and however claims
\* overlap, the log of a session is a transcript the contract's validator accepts, but
\* for the acknowledgements while the client is away.
THEOREM LogsAreTranscripts == ConcurrentSpec => []LogMeetsContract
<1>1. ConcurrentInv /\ LogInv => LogMeetsContract
  <2> SUFFICES ASSUME ConcurrentInv, LogInv, NEW s \in Sessions, EventsOf(s) # {}
               PROVE  validateEvents(EventsOf(s), Acks)
    BY DEF LogMeetsContract, Logged, Acks
  <2>1. PICK n \in Nat : /\ Numbered(EventsOf(s), n)
                         /\ \E F : Trace(F, EventsOf(s), n) /\ Knows(F[n], s)
    BY DEF LogInv, Followed
  <2>2. PICK F : Trace(F, EventsOf(s), n) /\ Knows(F[n], s)
    BY <2>1
  <2>3. session[s].status # "none"
    BY DEF LogInv, Unborn
  <2>4. F[n].valid /\ F[n].state # "new"
    <3>1. session[s].status # "new"
      BY DEF ConcurrentInv, StoreCore, TypeInv, StoreTypeOK, SessionRow, OpenStatus
    <3> QED
      BY <2>2, <2>3, <3>1 DEF Knows, StateOf
  <2>5. PICK log : log = EventsOf(s)
    OBVIOUS
  <2> QED
    BY <2>1, <2>2, <2>4, <2>5, TraceValidates
<1> QED
  BY <1>1, ConcurrentInvariant, LogInvariant, PTL

-----------------------------------------------------------------------------
(* Calls on devices                                                        *)

\* A call in progress is of the lease that claimed its input.  Until the session has
\* been released the input executes under the claim the call was started with.
UnderItsClaim(c) ==
    LET i == c.work.input
    IN  /\ job[i].state = "executing"
        /\ job[i].claimedEpoch = c.work.epoch /\ job[i].claimGen = c.work.claimGen
        /\ session[job[i].session].node = c.by.node

CallFits(c) ==
    LET s == job[c.work.input].session
    IN  /\ c \in Call /\ c.by.epoch = c.work.epoch
        /\ s \in Sessions
        /\ session[s].status = "released" \/ UnderItsClaim(c)

QuarantineInv ==
    /\ StoreCore
    /\ openDriver \in [Procs -> SUBSET Devices]
    /\ \A c \in calling : CallFits(c)

-----------------------------------------------------------------------------
\* What happens around the store is no step of it.
LEMMA QuarantineStepIsStoreStep == [QuarantineNext]_quarantineVars => [Next]_vars
<1> SUFFICES ASSUME [QuarantineNext]_quarantineVars PROVE [Next]_vars
  OBVIOUS
<1>1. ASSUME NEW p \in Procs, NEW w \in inputWork, StartCall(p, w) PROVE Next
  BY <1>1 DEF StartCall, Next, ExecutionStep
<1>2. ASSUME NEW w \in inputWork, Report(w) PROVE Next
  BY <1>2 DEF Report, Next, ExecutionStep
<1>3. ASSUME NEW p \in Procs, NEW i \in Inputs, Recover(p, i) PROVE Next
  BY <1>3 DEF Recover, Next, ExecutionStep
<1>4. ASSUME NEW c \in calling, EndCall(c) PROVE UNCHANGED vars
  BY <1>4 DEF EndCall
<1>5. ASSUME NEW p \in Procs, NEW d \in Devices, OpenDriver(p, d) PROVE UNCHANGED vars
  BY <1>5 DEF OpenDriver
<1> QED
  BY <1>1, <1>2, <1>3, <1>4, <1>5 DEF QuarantineNext, Next, quarantineVars, vars

\* The store is the same whatever calls run: every theorem about Spec holds of it.
THEOREM CallsKeepStore == QuarantineSpec => Spec
<1>1. QuarantineInit => Init
  BY DEF QuarantineInit
<1> QED
  BY <1>1, QuarantineStepIsStoreStep, PTL DEF QuarantineSpec, Spec

-----------------------------------------------------------------------------
\* What a step of the store does to an executing input.
KeptExecuting(i) ==
    /\ job'[i].session = job[i].session
    /\ \/ session'[job[i].session].status = "released"
       \/ /\ job'[i].state = "executing"
          /\ job'[i].claimedEpoch = job[i].claimedEpoch /\ job'[i].claimGen = job[i].claimGen

\* A session stays on its node.
LEMMA NodeStays ==
    ASSUME StoreCore, [Next]_vars, NEW s \in Sessions, session[s].status # "none"
    PROVE  session'[s].node = session[s].node
<1> USE DEF StoreCore
<1>1. CASE SessionsKept
  BY <1>1 DEF SessionsKept
<1>2. ASSUME NEW o \in Sessions, Ending(o) PROVE session'[s].node = session[s].node
  <2>1. /\ session'[o] = [session[o] EXCEPT !.status = "released"]
        /\ \A t \in Sessions : t # o => session'[t] = session[t]
    BY <1>2, EndingEffect
  <2> QED
    BY <2>1 DEF TypeInv, StoreTypeOK, SessionRow
<1>3. ASSUME NEW t \in Sessions, NEW d \in Devices, Acquire(t, d)
      PROVE  session'[s].node = session[s].node
  BY <1>3 DEF Acquire, TypeInv, StoreTypeOK
<1>4. ASSUME NEW t \in Sessions, NEW d \in Devices, AcquireExpired(t, d)
      PROVE  session'[s].node = session[s].node
  <2>1. PICK o \in Sessions : Replaced(o, t, d)
    BY <1>4, ReplacementEffect
  <2>2. s # t /\ session'[o].node = session[o].node
    BY <2>1 DEF Replaced, TypeInv, StoreTypeOK, SessionRow
  <2> QED
    BY <2>1, <2>2 DEF Replaced
<1> QED
  BY <1>1, <1>2, <1>3, <1>4, SessionCases

\* The registry, the clients and time only take an input from a call by ending its
\* session: a cancel leaves it executing, a release is refused meanwhile.
LEMMA SessionStepKeepsExecuting ==
    ASSUME StoreCore, SessionStep, NEW i \in Inputs, job[i].state = "executing"
    PROVE  KeptExecuting(i)
<1> USE DEF StoreCore
<1>0. job[i] \in JobRow /\ job[i].session \in Sessions
  BY DEF TypeInv, StoreTypeOK, JobsPlaced
<1>1. CASE job'[i] = job[i]
  BY <1>1 DEF KeptExecuting
<1>2. ASSUME NEW s \in Sessions, EnqueueInput(s) PROVE job'[i] = job[i]
  BY <1>2 DEF EnqueueInput, TypeInv, StoreTypeOK
<1>3. ASSUME NEW s \in Sessions, Cancel(s) PROVE job'[i] = job[i]
  BY <1>3 DEF Cancel, FinishedJobs, Queued, InState
<1>4. ASSUME NEW s \in Sessions, Ending(s) PROVE KeptExecuting(i)
  <2>1. /\ session'[s] = [session[s] EXCEPT !.status = "released"]
        /\ i \notin Unfinished(s) => job'[i] = job[i]
        /\ i \in Unfinished(s) => job'[i].session = job[i].session
    BY <1>4, EndingEffect
  <2>2. session'[s].status = "released"
    BY <2>1 DEF TypeInv, StoreTypeOK, SessionRow
  <2>3. i \in Unfinished(s) => job[i].session = s
    BY DEF Unfinished, InState
  <2> QED
    BY <2>1, <2>2, <2>3 DEF KeptExecuting
<1>5. ASSUME NEW s \in Sessions, NEW d \in Devices, AcquireExpired(s, d)
      PROVE  KeptExecuting(i)
  <2>1. PICK o \in Sessions : Replaced(o, s, d)
    BY <1>5, ReplacementEffect
  <2>2. session'[o].status = "released"
    BY <2>1 DEF Replaced, TypeInv, StoreTypeOK, SessionRow
  <2>3. i \in Unfinished(o) => job[i].session = o
    BY DEF Unfinished, InState
  <2> QED
    BY <2>1, <2>2, <2>3 DEF Replaced, KeptExecuting
<1>6. ASSUME NEW p \in Procs, NEW d \in Devices, RegisterHeldDevice(p, d)
      PROVE  KeptExecuting(i)
  <2>1. PICK s \in Sessions :
           job' = [j \in Inputs |-> IF j \in Unfinished(s)
                                    THEN ReadoptedJob(j, lease[p].epoch) ELSE job[j]]
    BY <1>6 DEF RegisterHeldDevice
  <2>2. ReadoptedJob(i, lease[p].epoch) = [job[i] EXCEPT !.epoch = lease[p].epoch]
    BY DEF ReadoptedJob
  <2> QED
    BY <1>0, <2>1, <2>2 DEF KeptExecuting, JobRow
<1>7. ASSUME NEW p \in Procs, NEW j \in Inputs, ClaimInput(p, j) PROVE job'[i] = job[i]
  <2>1. /\ job[j].state \in {"pending", "claimed"}
        /\ job' = [job EXCEPT ![j].state = "claimed", ![j].claimedEpoch = lease[p].epoch,
                              ![j].claimGen = job[j].claimGen + 1]
    BY <1>7 DEF ClaimInput, Claimable, Eligible, Queued, InState
  <2> QED
    BY <2>1 DEF TypeInv, StoreTypeOK
<1>8. ASSUME NEW s \in Sessions,
             \/ Heartbeat(s) \/ Reconnect(s) \/ MarkDisconnected(s) \/ SessionLapse(s)
             \/ (\E p \in Procs : ClaimFrame(p, s))
             \/ (\E d \in Devices : Acquire(s, d))
      PROVE  job' = job
  BY <1>8 DEF Heartbeat, Reconnect, MarkDisconnected, SessionLapse, ClaimFrame, Acquire
<1>9. ASSUME NEW w \in frameWork, NEW retryable \in BOOLEAN,
             CompleteFrame(w) \/ FailFrame(w, retryable)
      PROVE  job' = job
  BY <1>9 DEF CompleteFrame, FailFrame
<1>10. ASSUME NEW p \in Procs, NEW d \in Devices, RegisterIdleDevice(p, d) PROVE job' = job
  BY <1>10 DEF RegisterIdleDevice, sessionVars
<1>11. RegistryStep /\ UNCHANGED sessionVars => job' = job
  BY DEF sessionVars
<1>12. ASSUME NEW s \in Sessions, Release(s) \/ ExpireSession(s)
       PROVE  \E t \in Sessions : Ending(t)
  BY <1>12, EndingCalls
<1> QED
  BY <1>1, <1>2, <1>3, <1>4, <1>5, <1>6, <1>7, <1>8, <1>9, <1>10, <1>11, <1>12 DEF SessionStep

\* A call fits after a step that leaves its input to it.
LEMMA CallStillFits ==
    ASSUME StoreCore, [Next]_vars, NEW c, CallFits(c),
           job[c.work.input].state = "executing" => KeptExecuting(c.work.input)
    PROVE  CallFits(c)'
<1> DEFINE i == c.work.input
           s == job[i].session
<1>0. c \in Call /\ i \in Inputs /\ s \in Sessions /\ c.by.epoch = c.work.epoch
  BY DEF CallFits, Call, InputWork
<1>1. CASE session[s].status = "released"
  <2>1. session'[s].status = "released"
    BY <1>0, <1>1, ReleasedStep DEF Untouched
  <2>2. JobStep(i) /\ job[i].state \notin {"none", "pending", "claimed", "executing"}
    <3>1. JobStep(i)
      BY <1>0, JobCases DEF StoreCore
    <3>2. job[i].state # "none"
      BY <1>0, SessionStoreAssumption DEF StoreCore, JobsPlaced
    <3>3. job[i].state \notin {"pending", "claimed", "executing"}
      BY <1>0, <1>1 DEF StoreCore, ReleaseDrains, Unfinished, InState
    <3> QED
      BY <3>1, <3>2, <3>3
  <2>3. job'[i] = job[i]
    BY <2>2 DEF JobStep, SameJob, Enqueued, Claimed, Started, Finished, Readopted
  <2> QED
    BY <1>0, <2>1, <2>3 DEF CallFits
<1>2. CASE session[s].status # "released"
  <2>1. UnderItsClaim(c)
    BY <1>2 DEF CallFits
  <2>2. KeptExecuting(i)
    BY <2>1 DEF UnderItsClaim
  <2>3. session[s].status # "none"
    BY <1>0, <2>1 DEF UnderItsClaim, StoreCore, JobsPlaced
  <2>4. session'[s].node = session[s].node
    BY <1>0, <2>3, NodeStays
  <2> QED
    BY <1>0, <2>1, <2>2, <2>4 DEF KeptExecuting, UnderItsClaim, CallFits
<1> QED
  BY <1>1, <1>2

-----------------------------------------------------------------------------
LEMMA QuarantineInvInit == QuarantineInit => QuarantineInv
  BY StoreInvInit DEF QuarantineInit, QuarantineInv, StoreInv

\* A call starts on a claimed input, which no other call holds.
LEMMA StartCallKeepsCalls ==
    ASSUME QuarantineInv, NEW p \in Procs, NEW w \in inputWork, StartCall(p, w)
    PROVE  \A c \in calling' : CallFits(c)'
<1>0. StoreCore /\ [Next]_vars
  BY DEF QuarantineInv, StartCall, Next, ExecutionStep
<1>1. PICK s \in Sessions :
         /\ job[w.input].session = s /\ job[w.input].state = "claimed" /\ Holds(w)
         /\ session[s].status = "active"
         /\ job' = [job EXCEPT ![w.input].state = "executing"]
         /\ session' = session
  BY DEF StartCall, StartInput
<1>2. w \in InputWork /\ w.input \in Inputs /\ lease[p] \in Lease /\ lease[p].epoch = w.epoch
  BY <1>0 DEF StartCall, StoreCore, TypeInv, StoreTypeOK, NodeTypeOK, InputWork
<1>3. job[w.input] \in JobRow
  BY <1>0, <1>2 DEF StoreCore, TypeInv, StoreTypeOK
<1>4. /\ job'[w.input].session = s /\ job'[w.input].state = "executing"
      /\ job'[w.input].claimedEpoch = w.epoch /\ job'[w.input].claimGen = w.claimGen
  BY <1>0, <1>1, <1>2, <1>3 DEF Holds, JobRow, StoreCore, TypeInv, StoreTypeOK
<1>5. session'[s].node = lease[p].node
  BY <1>1 DEF StartCall
<1>6. ASSUME NEW c, c = [by |-> lease[p], work |-> w] PROVE CallFits(c)'
  <2>1. c \in Call /\ c.by.epoch = c.work.epoch /\ c.work = w /\ c.by = lease[p]
    BY <1>2, <1>6 DEF Call
  <2> QED
    BY <1>1, <1>4, <1>5, <2>1 DEF CallFits, UnderItsClaim
<1>7. ASSUME NEW c \in calling PROVE CallFits(c)'
  <2>1. CallFits(c)
    BY DEF QuarantineInv
  <2>2. job[c.work.input].state = "executing" => job'[c.work.input] = job[c.work.input]
    BY <1>0, <1>1, <2>1 DEF CallFits, Call, InputWork, StoreCore, TypeInv, StoreTypeOK
  <2>3. job[c.work.input].state = "executing" => KeptExecuting(c.work.input)
    BY <2>2 DEF KeptExecuting
  <2> QED
    BY <1>0, <2>1, <2>3, CallStillFits
<1>8. calling' = calling \cup {[by |-> lease[p], work |-> w]}
  BY DEF StartCall
<1> QED
  BY <1>6, <1>7, <1>8

\* A report is of an input on which no call runs any more.
LEMMA ReportKeepsCalls ==
    ASSUME QuarantineInv, NEW w \in inputWork, Report(w)
    PROVE  \A c \in calling' : CallFits(c)'
<1>0. StoreCore /\ [Next]_vars /\ calling' = calling /\ w \in InputWork
  BY DEF QuarantineInv, Report, Next, ExecutionStep, StoreCore, TypeInv, StoreTypeOK
<1> SUFFICES ASSUME NEW c \in calling PROVE CallFits(c)'
  BY <1>0
<1>1. CallFits(c) /\ c.work # w
  BY DEF QuarantineInv, Report, Calls
<1> DEFINE i == c.work.input
<1>2. i \in Inputs /\ c.work \in InputWork
  BY <1>1 DEF CallFits, Call, InputWork
<1>3. CASE session[job[i].session].status = "released"
  <2>1. job[i].state # "executing"
    BY <1>0, <1>1, <1>2, <1>3 DEF CallFits, StoreCore, ReleaseDrains, Unfinished, InState
  <2> QED
    BY <1>0, <1>1, <2>1, CallStillFits
<1>4. CASE CompleteInputExpired(w)
  <2>1. PICK s \in Sessions : Ending(s)
    BY <1>0, <1>4, EndingCalls DEF StoreCore
  <2>2. /\ session'[s] = [session[s] EXCEPT !.status = "released"]
        /\ i \notin Unfinished(s) => job'[i] = job[i]
        /\ i \in Unfinished(s) => job'[i].session = job[i].session
    BY <1>0, <1>2, <2>1, EndingEffect DEF StoreCore
  <2>3. session'[s].status = "released"
    BY <1>0, <2>2 DEF StoreCore, TypeInv, StoreTypeOK, SessionRow
  <2>4. i \in Unfinished(s) => job[i].session = s
    BY DEF Unfinished, InState
  <2>5. job[i].state = "executing" => KeptExecuting(i)
    BY <2>2, <2>3, <2>4 DEF KeptExecuting
  <2> QED
    BY <1>0, <1>1, <2>5, CallStillFits
<1>5. ASSUME NEW type \in Outcomes, CompleteInput(w, type),
             session[job[i].session].status # "released"
      PROVE  CallFits(c)'
  <2>1. /\ Holds(w) /\ \E n : job' = [job EXCEPT ![w.input] = FinishedJob(w.input, n)]
    BY <1>5 DEF CompleteInput, Completable, Outcome
  <2>2. UnderItsClaim(c)
    BY <1>1, <1>5 DEF CallFits
  <2>3. i # w.input
    BY <1>0, <1>1, <1>2, <2>1, <2>2 DEF UnderItsClaim, Holds, InputWork
  <2>4. job'[i] = job[i]
    BY <1>0, <1>2, <2>1, <2>3 DEF StoreCore, TypeInv, StoreTypeOK
  <2>5. job[i].state = "executing" => KeptExecuting(i)
    BY <2>4 DEF KeptExecuting
  <2> QED
    BY <1>0, <1>1, <2>5, CallStillFits
<1> QED
  BY <1>3, <1>4, <1>5 DEF Report

\* The recovery of an input waits until the calls for it are over.
LEMMA RecoverKeepsCalls ==
    ASSUME QuarantineInv, NEW p \in Procs, NEW j \in Inputs, Recover(p, j)
    PROVE  \A c \in calling' : CallFits(c)'
<1>0. StoreCore /\ [Next]_vars /\ calling' = calling
  BY DEF QuarantineInv, Recover, Next, ExecutionStep
<1> SUFFICES ASSUME NEW c \in calling PROVE CallFits(c)'
  BY <1>0
<1>1. CallFits(c) /\ c.work.input # j /\ c.work.input \in Inputs
  BY DEF QuarantineInv, Recover, WindowOver, CallFits, Call, InputWork
<1>2. \E n : job' = [job EXCEPT ![j] = FinishedJob(j, n)]
  BY DEF Recover, RecoverAmbiguousInput, Outcome
<1>3. job'[c.work.input] = job[c.work.input]
  BY <1>0, <1>1, <1>2 DEF StoreCore, TypeInv, StoreTypeOK
<1>4. job[c.work.input].state = "executing" => KeptExecuting(c.work.input)
  BY <1>3 DEF KeptExecuting
<1> QED
  BY <1>0, <1>1, <1>4, CallStillFits

\* Where nothing happens in the store, or only in the sessions, the calls fit still.
LEMMA SessionStepKeepsCalls ==
    ASSUME QuarantineInv, SessionStep \/ UNCHANGED vars, calling' \subseteq calling
    PROVE  \A c \in calling' : CallFits(c)'
<1>0. StoreCore /\ [Next]_vars
  BY DEF QuarantineInv, Next
<1> SUFFICES ASSUME NEW c \in calling PROVE CallFits(c)'
  OBVIOUS
<1>1. CallFits(c) /\ c.work.input \in Inputs
  BY DEF QuarantineInv, CallFits, Call, InputWork
<1>2. job[c.work.input].state = "executing" => KeptExecuting(c.work.input)
  <2>1. CASE SessionStep
    BY <1>0, <1>1, <2>1, SessionStepKeepsExecuting
  <2>2. CASE UNCHANGED vars
    BY <2>2 DEF vars, KeptExecuting
  <2> QED
    BY <2>1, <2>2
<1> QED
  BY <1>0, <1>1, <1>2, CallStillFits

LEMMA QuarantineInvStep ==
    QuarantineInv /\ [QuarantineNext]_quarantineVars => QuarantineInv'
<1> SUFFICES ASSUME QuarantineInv, [QuarantineNext]_quarantineVars PROVE QuarantineInv'
  OBVIOUS
<1>1. StoreCore'
  BY QuarantineStepIsStoreStep, StoreCoreStep DEF QuarantineInv
<1>2. openDriver' \in [Procs -> SUBSET Devices]
  <2>1. ASSUME NEW p \in Procs, NEW d \in Devices, OpenDriver(p, d)
        PROVE  openDriver' \in [Procs -> SUBSET Devices]
    BY <2>1 DEF OpenDriver, QuarantineInv
  <2>2. CASE openDriver' = [p \in Procs |-> IF lease'[p] = NoLease THEN {} ELSE openDriver[p]]
    BY <2>2 DEF QuarantineInv
  <2> QED
    BY <2>1, <2>2 DEF QuarantineNext, StartCall, Report, EndCall, Recover, quarantineVars,
                      QuarantineInv
<1>3. \A c \in calling' : CallFits(c)'
  <2>1. CASE SessionStep /\ UNCHANGED calling
    BY <2>1, SessionStepKeepsCalls
  <2>2. ASSUME NEW c \in calling, EndCall(c) PROVE \A b \in calling' : CallFits(b)'
    BY <2>2, SessionStepKeepsCalls DEF EndCall
  <2>3. ASSUME NEW p \in Procs, NEW d \in Devices, OpenDriver(p, d)
        PROVE  \A c \in calling' : CallFits(c)'
    BY <2>3, SessionStepKeepsCalls DEF OpenDriver
  <2>4. CASE UNCHANGED quarantineVars
    BY <2>4, SessionStepKeepsCalls DEF quarantineVars, vars
  <2> QED
    BY <2>1, <2>2, <2>3, <2>4, StartCallKeepsCalls, ReportKeepsCalls, RecoverKeepsCalls
    DEF QuarantineNext
<1> QED
  BY <1>1, <1>2, <1>3 DEF QuarantineInv

LEMMA QuarantineInvariant == QuarantineSpec => []QuarantineInv
  BY QuarantineInvInit, QuarantineInvStep, PTL DEF QuarantineSpec

-----------------------------------------------------------------------------
\* A process that finds its node quiescent owns the device under the epoch that every
\* executing input was claimed in: a call on it of a living session is its own.
LEMMA QuiescentOwner ==
    ASSUME QuarantineInv, NEW p \in Procs, NEW d \in Devices,
           owner[d] = lease[p], lease[p] # NoLease, Quiescent(lease[p]),
           NEW c \in calling, DeviceOf(c.work) = d,
           session[job[c.work.input].session].status # "released"
    PROVE  c.by = lease[p]
<1> DEFINE i == c.work.input
           s == job[i].session
<1>1. CallFits(c) /\ UnderItsClaim(c) /\ StoreCore
  BY DEF QuarantineInv, CallFits
<1>2. c \in Call /\ i \in Inputs /\ s \in Sessions /\ c.by.epoch = c.work.epoch
  BY <1>1 DEF CallFits, Call, InputWork
<1>3. Open(s) /\ session[s].device = d
  BY <1>1, <1>2 DEF UnderItsClaim, StoreCore, JobsPlaced, TypeInv, StoreTypeOK, SessionRow,
                    Open, OpenStatus, DeviceOf
<1>4. OwnerFits(s) /\ JobFits(s, i)
  BY <1>1, <1>2, <1>3 DEF StoreCore, RowsFit
<1>5. lease[p].node = session[s].node /\ lease[p].epoch = session[s].epoch
  BY <1>3, <1>4 DEF OwnerFits
<1>6. job[i].epoch = lease[p].epoch /\ job[i].state = "executing"
  BY <1>1, <1>4, <1>5 DEF JobFits, UnderItsClaim
<1>7. job[i].claimedEpoch = lease[p].epoch
  BY <1>2, <1>6 DEF Quiescent
<1>8. c.by.node = lease[p].node /\ c.by.epoch = lease[p].epoch
  BY <1>1, <1>2, <1>5, <1>7 DEF UnderItsClaim
<1>9. c.by \in Lease /\ lease[p] \in Lease
  BY <1>1, <1>2 DEF Call, StoreCore, TypeInv, StoreTypeOK, NodeTypeOK
<1> QED
  BY <1>8, <1>9 DEF Lease

\* The quarantine of a restarted node holds for any number of processes, nodes,
\* devices and inputs: when a driver is opened, no call of an older process runs on
\* the device, unless its session has been released meanwhile.
THEOREM OpensAfterOlder == QuarantineSpec => OpensAfterOlderCalls
<1> DEFINE A == \A p \in Procs : \A d \in openDriver'[p] \ openDriver[p] :
                   \A c \in OlderCalls(p, d) :
                      session[job[c.work.input].session].status = "released"
<1>1. QuarantineInv /\ [QuarantineNext]_quarantineVars => A
  <2> SUFFICES ASSUME QuarantineInv, [QuarantineNext]_quarantineVars,
                      NEW p \in Procs, NEW d \in openDriver'[p] \ openDriver[p],
                      NEW c \in OlderCalls(p, d),
                      session[job[c.work.input].session].status # "released"
               PROVE  FALSE
    OBVIOUS
  <2>1. openDriver \in [Procs -> SUBSET Devices]
    BY DEF QuarantineInv
  <2>2. ASSUME NEW q \in Procs, NEW e \in Devices, OpenDriver(q, e) PROVE q = p /\ e = d
    BY <2>1, <2>2 DEF OpenDriver
  <2>3. \E q \in Procs, e \in Devices : OpenDriver(q, e)
    BY <2>1 DEF QuarantineNext, StartCall, Report, EndCall, Recover, quarantineVars
  <2>4. d \in Devices /\ OpenDriver(p, d)
    BY <2>2, <2>3
  <2>5. c \in calling /\ DeviceOf(c.work) = d /\ c.by # lease[p]
    BY DEF OlderCalls
  <2>6. owner[d] = lease[p] /\ lease[p] # NoLease /\ Quiescent(lease[p])
    BY <2>4 DEF OpenDriver, LeaseLive, Current
  <2> QED
    BY <2>4, <2>5, <2>6, QuiescentOwner
<1>2. QuarantineInv /\ [QuarantineNext]_quarantineVars => [A]_quarantineVars
  BY <1>1
<1>3. QuarantineSpec => [][A]_quarantineVars
  BY <1>2, QuarantineInvariant, PTL DEF QuarantineSpec
<1> QED
  BY <1>3 DEF OpensAfterOlderCalls
================================================================================
