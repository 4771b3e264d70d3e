-------------------------- MODULE SessionStore_proofs --------------------------
(***************************************************************************)
(* Proofs about SessionStore, and about the node registry it stands on,    *)
(* for every set of nodes, processes, devices and sessions, every length   *)
(* of the lease and every value of the bounds; last, that the store        *)
(* implements FencedDevice: its initial states map to initial states, and  *)
(* every step maps to a step of the fenced device or leaves it as it is.   *)
(***************************************************************************)
EXTENDS SessionRefinement, FiniteSetTheorems, WellFoundedInduction, TLAPS

-----------------------------------------------------------------------------
(* The node registry                                                       *)

\* The strengthening that makes EpochHeldOnce inductive: a fresh epoch differs
\* from every epoch a process may still remember.
NodeInv == NodeTypeOK /\ EpochsIssued /\ EpochHeldOnce

\* The empty registry has the types.
LEMMA NodeTypeInit == NodeInit => NodeTypeOK
  BY NodeLeaseAssumption DEF NodeInit, NodeTypeOK, NodeRow

\* Every step of the registry keeps the types.
LEMMA NodeTypeStep == NodeTypeOK /\ [NodeNext]_nodeVars => NodeTypeOK'
<1> SUFFICES ASSUME NodeTypeOK, [NodeNext]_nodeVars PROVE NodeTypeOK'
  OBVIOUS
<1> USE NodeLeaseAssumption DEF NodeTypeOK, NodeRow, Lease
<1>1. ASSUME NEW p \in Procs, NEW n \in Nodes, RegisterNode(p, n) PROVE NodeTypeOK'
  BY <1>1 DEF RegisterNode, RegisteredRow, NextEpoch
<1>2. ASSUME NEW p \in Procs, ActivateNode(p) PROVE NodeTypeOK'
  BY <1>2 DEF ActivateNode, LeaseLive, Current
<1>3. ASSUME NEW p \in Procs, HeartbeatNode(p) PROVE NodeTypeOK'
  BY <1>3 DEF HeartbeatNode, LeaseLive, Current
<1>4. ASSUME NEW p \in Procs, DeactivateNode(p) PROVE NodeTypeOK'
  BY <1>4 DEF DeactivateNode, MayDeactivate, Current
<1>5. ASSUME NEW p \in Procs, Exit(p) PROVE NodeTypeOK'
  BY <1>5 DEF Exit
<1>6. ASSUME NEW n \in Nodes, Tick(n) PROVE NodeTypeOK'
  BY <1>6 DEF Tick, Running
<1>7. ASSUME NEW p \in Procs, NEW d \in Devices, TakeDevice(p, d) PROVE NodeTypeOK'
  BY <1>7 DEF TakeDevice, Takeable, LeaseLive, Current
<1>8. CASE UNCHANGED nodeVars
  BY <1>8 DEF nodeVars
<1> QED
  BY <1>1, <1>2, <1>3, <1>4, <1>5, <1>6, <1>7, <1>8 DEF NodeNext, RegistryStep

\* A step never lowers a node's epoch.
LEMMA EpochGrows ==
    NodeTypeOK /\ [NodeNext]_nodeVars => \A n \in Nodes : node[n].epoch <= node'[n].epoch
<1> SUFFICES ASSUME NodeTypeOK, [NodeNext]_nodeVars, NEW n \in Nodes
             PROVE  node[n].epoch <= node'[n].epoch
  OBVIOUS
<1> USE NodeLeaseAssumption DEF NodeTypeOK, NodeRow, Lease
<1>1. ASSUME NEW p \in Procs, NEW m \in Nodes, RegisterNode(p, m)
      PROVE  node[n].epoch <= node'[n].epoch
  BY <1>1 DEF RegisterNode, RegisteredRow, NextEpoch
<1>2. ASSUME NEW p \in Procs, ActivateNode(p) PROVE node[n].epoch <= node'[n].epoch
  BY <1>2 DEF ActivateNode, LeaseLive, Current
<1>3. ASSUME NEW p \in Procs, HeartbeatNode(p) PROVE node[n].epoch <= node'[n].epoch
  BY <1>3 DEF HeartbeatNode, LeaseLive, Current
<1>4. ASSUME NEW p \in Procs, DeactivateNode(p) PROVE node[n].epoch <= node'[n].epoch
  BY <1>4 DEF DeactivateNode, MayDeactivate, Current
<1>5. ASSUME NEW m \in Nodes, Tick(m) PROVE node[n].epoch <= node'[n].epoch
  BY <1>5 DEF Tick, Running
<1>6. CASE UNCHANGED node
  BY <1>6
<1> QED
  BY <1>1, <1>2, <1>3, <1>4, <1>5, <1>6
  DEF NodeNext, RegistryStep, Exit, TakeDevice, nodeVars

\* The invariant survives every step.
LEMMA NodeInvStep == NodeInv /\ [NodeNext]_nodeVars => NodeInv'
<1> SUFFICES ASSUME NodeInv, [NodeNext]_nodeVars PROVE NodeInv'
  OBVIOUS
<1> USE NodeLeaseAssumption
<1>1. NodeTypeOK /\ NodeTypeOK'
  BY NodeTypeStep DEF NodeInv
<1>2. \A n \in Nodes : node[n].epoch <= node'[n].epoch
  BY EpochGrows, <1>1
<1>3. EpochsIssued' /\ EpochHeldOnce'
  <2>1. ASSUME NEW p \in Procs, NEW n \in Nodes, RegisterNode(p, n)
        PROVE  EpochsIssued' /\ EpochHeldOnce'
    <3>1. lease'[p] = [node |-> n, epoch |-> node[n].epoch + 1]
          /\ node'[n].epoch = node[n].epoch + 1
      BY <1>1, <2>1 DEF RegisterNode, RegisteredRow, NextEpoch, NodeTypeOK
    <3>2. \A q \in Procs : q # p => lease'[q] = lease[q]
      BY <1>1, <2>1 DEF RegisterNode, RegisteredRow, NextEpoch, NodeTypeOK
    <3>3. \A q \in Procs : q # p => lease'[q] # lease'[p]
      BY <1>1, <3>1, <3>2 DEF NodeInv, EpochsIssued, NodeTypeOK, NodeRow, Lease
    <3>4. EpochHeldOnce'
      BY <3>2, <3>3 DEF NodeInv, EpochHeldOnce
    <3>5. EpochsIssued'
      BY <1>1, <1>2, <2>1, <3>1, <3>2
      DEF NodeInv, EpochsIssued, NodeTypeOK, NodeRow, Lease, RegisterNode, RegisteredRow, NextEpoch
    <3> QED BY <3>4, <3>5
  <2>2. ASSUME NEW p \in Procs, Exit(p) PROVE EpochsIssued' /\ EpochHeldOnce'
    BY <1>1, <2>2 DEF Exit, NodeInv, EpochsIssued, EpochHeldOnce, NodeTypeOK
  <2>3. ASSUME NEW p \in Procs, NEW d \in Devices, TakeDevice(p, d)
        PROVE  EpochsIssued' /\ EpochHeldOnce'
    BY <1>1, <2>3
    DEF TakeDevice, Takeable, LeaseLive, Current, NodeInv, EpochsIssued, EpochHeldOnce, NodeTypeOK
  <2>4. CASE UNCHANGED <<lease, owner>>
    BY <1>1, <1>2, <2>4
    DEF NodeInv, EpochsIssued, EpochHeldOnce, NodeTypeOK, NodeRow, Lease
  <2> QED
    BY <2>1, <2>2, <2>3, <2>4
    DEF NodeNext, RegistryStep, ActivateNode, HeartbeatNode, DeactivateNode, Tick, nodeVars
<1> QED
  BY <1>1, <1>3 DEF NodeInv

LEMMA NodeInvInit == NodeInit => NodeInv
  BY NodeTypeInit DEF NodeInit, NodeInv, EpochsIssued, EpochHeldOnce

LEMMA NodeInvHolds == NodeSpec => []NodeInv
  BY NodeInvInit, NodeInvStep, PTL DEF NodeSpec

\* Type correctness of the registry.
THEOREM NodeTypeCorrect == NodeSpec => []NodeTypeOK
BY NodeInvHolds, PTL DEF NodeInv

\* No two processes ever hold the same epoch of a node, and no lease or device
\* row runs ahead of its node: the ground every fence of the store stands on.
THEOREM FencingEpochs == NodeSpec => [](EpochsIssued /\ EpochHeldOnce)
BY NodeInvHolds, PTL DEF NodeInv

\* A device whose owner's lease is live keeps its owner.
THEOREM LiveOwner == NodeSpec => LiveOwnerKept
<1>1. NodeInv /\ [NodeNext]_nodeVars
        => [\A d \in Devices : LeaseLive(owner[d]) => owner'[d] = owner[d]]_nodeVars
  <2> SUFFICES ASSUME NodeInv, NodeNext, NEW d \in Devices, LeaseLive(owner[d])
               PROVE  owner'[d] = owner[d]
    OBVIOUS
  <2>1. ASSUME NEW p \in Procs, NEW e \in Devices, TakeDevice(p, e)
        PROVE  owner'[d] = owner[d]
    BY <2>1, NodeLeaseAssumption
    DEF TakeDevice, Takeable, LeaseLive, Current, NodeInv, NodeTypeOK, Lease
  <2>2. CASE UNCHANGED owner
    BY <2>2
  <2> QED
    BY <2>1, <2>2
    DEF NodeNext, RegistryStep, RegisterNode, ActivateNode, HeartbeatNode,
        DeactivateNode, Exit, Tick
<1> QED
  BY <1>1, NodeInvHolds, PTL DEF NodeSpec, LiveOwnerKept

\* While nobody holds the current epoch of a node, only time and the next
\* registration touch its row.
THEOREM HolderWithdraws == NodeSpec => OnlyHolderWithdraws
<1> DEFINE Withdrawn(n) == \A p \in Procs : ~(Current(lease[p]) /\ lease[p].node = n)
           Allowed(n) == \/ node'[n] = node[n]
                         \/ node'[n] = [node[n] EXCEPT !.ttl = @ - 1]
                         \/ node[n].ttl = 0 /\ node'[n].epoch = node[n].epoch + 1
<1>1. NodeInv /\ [NodeNext]_nodeVars => [\A n \in Nodes : Withdrawn(n) => Allowed(n)]_nodeVars
  <2> SUFFICES ASSUME NodeInv, NodeNext, NEW n \in Nodes, Withdrawn(n) PROVE Allowed(n)
    OBVIOUS
  <2> USE DEF NodeInv, NodeTypeOK, NodeRow, Lease
  <2>1. ASSUME NEW p \in Procs, NEW m \in Nodes, RegisterNode(p, m) PROVE Allowed(n)
    BY <2>1 DEF RegisterNode, RegisteredRow, NextEpoch
  <2>2. ASSUME NEW p \in Procs, ActivateNode(p) \/ HeartbeatNode(p) \/ DeactivateNode(p)
        PROVE  Allowed(n)
    BY <2>2 DEF ActivateNode, HeartbeatNode, DeactivateNode, MayDeactivate, LeaseLive, Current
  <2>3. ASSUME NEW m \in Nodes, Tick(m) PROVE Allowed(n)
    BY <2>3 DEF Tick, Running
  <2>4. CASE UNCHANGED node
    BY <2>4
  <2> HIDE DEF Withdrawn, Allowed
  <2> QED
    BY <2>1, <2>2, <2>3, <2>4 DEF NodeNext, RegistryStep, Exit, TakeDevice
<1> QED
  BY <1>1, NodeInvHolds, PTL DEF NodeSpec, OnlyHolderWithdraws

-----------------------------------------------------------------------------
(* The log                                                                 *)

\* The log is finite in the sense the numbering needs: its numbers are bounded.
LogBounded == \E n \in Nat : \A e \in events : e.seq <= n /\ e.frame <= n

TypeInv == StoreTypeOK /\ LogBounded

\* Max is what its name says on every nonempty bounded set of naturals.
LEMMA MaxOfNaturals ==
    ASSUME NEW S \in SUBSET Nat, S # {}, NEW b \in Nat, \A x \in S : x <= b
    PROVE  Max(S) \in S /\ \A x \in S : x <= Max(S)
<1> DEFINE U == {n \in Nat : \A x \in S : x <= n}
           T == {1 .. n : n \in U}
           R == StrictSubsetOrdering(Nat)
<1>1. IsWellFoundedOn(R, FiniteSubsetsOf(Nat))
  BY FS_StrictSubsetOrderingWellFounded
<1>2. T \subseteq FiniteSubsetsOf(Nat) /\ T # {}
  <2>1. b \in U
    OBVIOUS
  <2>2. ASSUME NEW n \in Nat PROVE 1 .. n \in FiniteSubsetsOf(Nat)
    BY FS_Interval, 1 .. n \in SUBSET Nat, 0 \in Int, 1 \in Int, n \in Int DEF FiniteSubsetsOf
  <2> QED
    BY <2>1, <2>2
<1> HIDE DEF T, R
<1>3. PICK I \in T : \A J \in T : ~(<<J, I>> \in R)
  BY <1>1, <1>2, WFMin
<1>4. PICK m \in U : I = 1 .. m
  BY <1>3 DEF T
<1>5. \A n \in U : m <= n
  <2> SUFFICES ASSUME NEW n \in U, n < m PROVE FALSE
    OBVIOUS
  <2>1. 1 .. n \in T
    BY DEF T
  <2>2. 1 .. n \subseteq 1 .. m /\ m \in 1 .. m /\ m \notin 1 .. n
    OBVIOUS
  <2>3. <<1 .. n, 1 .. m>> \in R
    BY <2>2 DEF R, StrictSubsetOrdering
  <2> QED
    BY <1>3, <1>4, <2>1, <2>3
<1>6. m \in S
  <2>1. CASE m = 0
    <3>1. PICK x \in S : TRUE
      OBVIOUS
    <3>2. x = 0
      BY <2>1, <3>1, <1>4
    <3> QED
      BY <2>1, <3>1, <3>2
  <2>2. CASE m > 0
    <3> SUFFICES ASSUME m \notin S PROVE FALSE
      OBVIOUS
    <3>1. m - 1 \in U
      BY <2>2, <1>4
    <3> QED
      BY <3>1, <1>5
  <2> QED
    BY <2>1, <2>2
<1>7. \E x \in S : \A y \in S : x >= y
  BY <1>6, <1>4
<1> QED
  BY <1>7 DEF Max

LEMMA LeastNatural ==
    ASSUME NEW S \in SUBSET Nat, S # {}
    PROVE  \E m \in S : \A k \in S : m <= k
<1> DEFINE T == {n \in Nat : \A x \in S : n <= x}
<1>1. PICK b \in S : TRUE
  OBVIOUS
<1>2. T \in SUBSET Nat /\ 0 \in T /\ \A x \in T : x <= b
  OBVIOUS
<1>3. PICK m \in T : \A x \in T : x <= m
  BY <1>1, <1>2, MaxOfNaturals
<1>4. m + 1 \notin T
  BY <1>3
<1>5. PICK x \in S : ~(m + 1 <= x)
  BY <1>4
<1>6. x = m
  BY <1>3, <1>5
<1> QED
  BY <1>3, <1>5, <1>6

-----------------------------------------------------------------------------
\* Numbers that the transactions compute.

LEMMA SeqIsNat ==
    ASSUME TypeInv, NEW s \in Sessions
    PROVE  /\ LastSeq(s) \in Nat
           /\ \A e \in EventsOf(s) : e.seq <= LastSeq(s)
           /\ LastSeq(s) = 0 \/ \E e \in EventsOf(s) : e.seq = LastSeq(s)
<1> DEFINE S == {e.seq : e \in EventsOf(s)} \cup {0}
<1>1. S \in SUBSET Nat /\ S # {}
  <2>1. \A e \in EventsOf(s) : e.seq \in Nat
    BY DEF TypeInv, StoreTypeOK, Event, EventsOf
  <2> QED
    BY <2>1
<1>2. PICK n \in Nat : \A x \in S : x <= n
  BY DEF TypeInv, LogBounded, EventsOf
<1>3. Max(S) \in S /\ \A x \in S : x <= Max(S)
  BY <1>1, <1>2, MaxOfNaturals
<1> QED
  BY <1>1, <1>3 DEF LastSeq

LEMMA FrameSeqIsNat ==
    ASSUME TypeInv, NEW s \in Sessions, NEW stream \in Nat
    PROVE  /\ FrameSeq(s, stream) \in Nat
           /\ \A e \in FramesOf(s) : e.stream = stream => e.frame <= FrameSeq(s, stream)
<1> DEFINE S == {e.frame : e \in {f \in FramesOf(s) : f.stream = stream}} \cup {0}
<1>1. S \in SUBSET Nat /\ S # {}
  <2>1. \A e \in FramesOf(s) : e.frame \in Nat
    BY DEF TypeInv, StoreTypeOK, Event, EventsOf, FramesOf
  <2> QED
    BY <2>1
<1>2. PICK n \in Nat : \A x \in S : x <= n
  BY DEF TypeInv, LogBounded, EventsOf, FramesOf
<1>3. Max(S) \in S /\ \A x \in S : x <= Max(S)
  BY <1>1, <1>2, MaxOfNaturals
<1> QED
  BY <1>1, <1>3 DEF FrameSeq

LEMMA InputsFinite ==
    ASSUME NEW D \in SUBSET Inputs
    PROVE  IsFiniteSet(D) /\ Cardinality(D) \in Nat /\ Cardinality(D) <= NumInputs
<1>1. IsFiniteSet(Inputs) /\ Cardinality(Inputs) = NumInputs
  BY FS_Interval, SessionStoreAssumption DEF Inputs
<1> QED
  BY <1>1, FS_Subset, FS_CardinalityType

LEMMA PlaceIsNat ==
    ASSUME NEW D \in SUBSET Inputs, NEW First, NEW i
    PROVE  Place(D, First, i) \in Nat /\ Place(D, First, i) <= NumInputs
  BY InputsFinite DEF Place

LEMMA OutcomeSeqIsNat ==
    ASSUME TypeInv, NEW s \in Sessions, NEW D \in SUBSET Inputs, NEW First, NEW i
    PROVE  /\ OutcomeSeq(s, D, First, i) \in Nat
           /\ OutcomeSeq(s, D, First, i) <= LastSeq(s) + NumInputs
  BY SeqIsNat, PlaceIsNat, SessionStoreAssumption DEF OutcomeSeq

LEMMA ReleasedSeqIsNat ==
    ASSUME TypeInv, NEW s \in Sessions, NEW D \in SUBSET Inputs
    PROVE  /\ ReleasedSeq(s, D) \in Nat
           /\ ReleasedSeq(s, D) <= LastSeq(s) + NumInputs + 1
  BY SeqIsNat, InputsFinite, SessionStoreAssumption DEF ReleasedSeq

-----------------------------------------------------------------------------
\* Every step of the store is a step of the registry, or none.

LEMMA StoreStepIsRegistryStep == Next => [NodeNext]_nodeVars
<1> SUFFICES ASSUME Next PROVE [NodeNext]_nodeVars
  OBVIOUS
<1>1. CASE RegistryStep
  BY <1>1 DEF NodeNext
<1>2. ASSUME NEW p \in Procs, NEW d \in Devices,
             RegisterIdleDevice(p, d) \/ RegisterHeldDevice(p, d)
      PROVE  NodeNext
  BY <1>2 DEF RegisterIdleDevice, RegisterHeldDevice, NodeNext
<1>3. ASSUME NEW s \in Sessions, NEW d \in Devices, Acquire(s, d) \/ AcquireExpired(s, d)
      PROVE  UNCHANGED nodeVars
  BY <1>3 DEF Acquire, AcquireExpired
<1>4. ASSUME NEW s \in Sessions,
             \/ EnqueueInput(s) \/ Heartbeat(s) \/ Cancel(s) \/ Reconnect(s) \/ Release(s)
             \/ MarkDisconnected(s) \/ ExpireSession(s) \/ SessionLapse(s)
      PROVE  UNCHANGED nodeVars
  BY <1>4 DEF EnqueueInput, Heartbeat, Cancel, Reconnect, Release, MarkDisconnected,
              ExpireSession, SessionLapse
<1>5. ASSUME NEW p \in Procs, NEW s \in Sessions, ClaimFrame(p, s)
      PROVE  UNCHANGED nodeVars
  BY <1>5 DEF ClaimFrame
<1>6. ASSUME NEW p \in Procs, NEW i \in Inputs,
             ClaimInput(p, i) \/ RecoverAmbiguousInput(p, i)
      PROVE  UNCHANGED nodeVars
  BY <1>6 DEF ClaimInput, RecoverAmbiguousInput
<1>7. ASSUME NEW w \in frameWork, NEW retryable \in BOOLEAN,
             CompleteFrame(w) \/ FailFrame(w, retryable)
      PROVE  UNCHANGED nodeVars
  BY <1>7 DEF CompleteFrame, FailFrame
<1>8. ASSUME NEW w \in inputWork, NEW type \in Outcomes,
             StartInput(w) \/ CompleteInput(w, type) \/ CompleteInputExpired(w)
      PROVE  UNCHANGED nodeVars
  BY <1>8 DEF StartInput, CompleteInput, CompleteInputExpired
<1> QED
  BY <1>1, <1>2, <1>3, <1>4, <1>5, <1>6, <1>7, <1>8 DEF Next, SessionStep, ExecutionStep, Outcomes

\* The session store runs on the registry: it keeps all that is proved of it.
THEOREM StoreKeepsRegistry == Spec => NodeSpec
<1>1. Init => NodeInit
  BY DEF Init
<1>2. [Next]_vars => [NodeNext]_nodeVars
  BY StoreStepIsRegistryStep DEF vars, nodeVars
<1> QED
  BY <1>1, <1>2, PTL DEF Spec, NodeSpec

-----------------------------------------------------------------------------
\* Types.

LEMMA LogGrows ==
    ASSUME TypeInv, NEW E \in SUBSET Event, NEW n \in Nat,
           \A e \in E : e.seq <= n /\ e.frame <= n,
           events' = events \cup E
    PROVE  events' \subseteq Event /\ LogBounded'
<1>1. PICK b \in Nat : \A e \in events : e.seq <= b /\ e.frame <= b
  BY DEF TypeInv, LogBounded
<1>2. \A e \in events \cup E : e.seq \in Nat /\ e.frame \in Nat
  BY DEF TypeInv, StoreTypeOK, Event
<1>3. \A e \in events \cup E : e.seq <= b + n /\ e.frame <= b + n
  BY <1>1, <1>2
<1>4. b + n \in Nat
  OBVIOUS
<1> QED
  BY <1>3, <1>4 DEF TypeInv, StoreTypeOK, LogBounded

LEMMA OneEvent ==
    ASSUME TypeInv, NEW e \in Event, events' = events \cup {e}
    PROVE  events' \subseteq Event /\ LogBounded'
<1>1. e.seq \in Nat /\ e.frame \in Nat
  BY DEF Event
<1>2. e.seq + e.frame \in Nat /\ e.seq <= e.seq + e.frame /\ e.frame <= e.seq + e.frame
  BY <1>1
<1>3. \A x \in {e} : x.seq <= e.seq + e.frame /\ x.frame <= e.seq + e.frame
  BY <1>2
<1>4. {e} \in SUBSET Event
  OBVIOUS
<1> QED
  BY <1>2, <1>3, <1>4, LogGrows

LEMMA EventRowType ==
    ASSUME NEW s \in Sessions, NEW n \in Nat, NEW type \in EventTypes
    PROVE  EventRow(s, n, type) \in Event
  BY DEF EventRow, Event

LEMMA OutcomeEventType ==
    ASSUME NEW s \in Sessions, NEW n \in Nat, NEW type \in Outcomes, NEW i \in Inputs
    PROVE  /\ OutcomeEvent(s, n, type, i) \in Event
           /\ OutcomeEvent(s, n, type, i).seq = n
           /\ OutcomeEvent(s, n, type, i).frame = 0
<1>1. i \in Nat
  BY SessionStoreAssumption DEF Inputs
<1>2. EventRow(s, n, type) \in Event
  BY EventRowType DEF EventTypes
<1>3. OutcomeEvent(s, n, type, i) \in Event
  BY <1>1, <1>2 DEF OutcomeEvent, Event
<1>4. OutcomeEvent(s, n, type, i).seq = n /\ OutcomeEvent(s, n, type, i).frame = 0
  BY DEF OutcomeEvent, EventRow
<1> QED
  BY <1>3, <1>4

LEMMA OutcomeEventsType ==
    ASSUME TypeInv, NEW s \in Sessions, NEW D \in SUBSET Inputs, NEW First
    PROVE  /\ OutcomeEvents(s, D, First) \subseteq Event
           /\ \A e \in OutcomeEvents(s, D, First) :
                 e.seq <= LastSeq(s) + NumInputs /\ e.frame <= LastSeq(s) + NumInputs
<1>1. LastSeq(s) \in Nat
  BY SeqIsNat
<1>2. ASSUME NEW i \in D
      PROVE  LET e == OutcomeEvent(s, OutcomeSeq(s, D, First, i), "error", i)
             IN  /\ e \in Event
                 /\ e.seq <= LastSeq(s) + NumInputs
                 /\ e.frame <= LastSeq(s) + NumInputs
  BY <1>1, OutcomeSeqIsNat, OutcomeEventType, SessionStoreAssumption DEF Outcomes
<1> QED
  BY <1>2 DEF OutcomeEvents

LEMMA FinishedJobType ==
    ASSUME TypeInv, NEW i \in Inputs, NEW n \in Nat
    PROVE  FinishedJob(i, n) \in JobRow
  BY DEF FinishedJob, TypeInv, StoreTypeOK, JobRow

LEMMA FinishedJobsType ==
    ASSUME TypeInv, NEW s \in Sessions, NEW D \in SUBSET Inputs, NEW First
    PROVE  FinishedJobs(s, D, First) \in [Inputs -> JobRow]
  BY OutcomeSeqIsNat, FinishedJobType DEF FinishedJobs, TypeInv, StoreTypeOK

LEMMA EmptyRowTypes == NoFrame \in FrameRow /\ NoContent \in FrameRef /\ NoJob \in JobRow
  BY DEF NoFrame, NoContent, NoJob, FrameRow, FrameRef, JobRow, AnySession

LEMMA EndedTypes ==
    ASSUME TypeInv, NEW s \in Sessions
    PROVE  EndedSessions(s) \in [Sessions -> SessionRow]
           /\ EndedDevices(s) \in [Devices -> DeviceRow]
  BY DEF EndedSessions, EndedDevices, TypeInv, StoreTypeOK, SessionRow, DeviceRow, AnySession

LEMMA EndEventsType ==
    ASSUME TypeInv, NEW s \in Sessions, NEW D \in SUBSET Inputs, NEW First,
           NEW outcome \in {"completed", "cancelled", "error"}
    PROVE  /\ EndEvents(s, D, First, outcome) \subseteq Event
           /\ \A e \in EndEvents(s, D, First, outcome) :
                 e.seq <= LastSeq(s) + NumInputs + 1 /\ e.frame <= LastSeq(s) + NumInputs + 1
<1>1. ReleasedSeq(s, D) \in Nat /\ LastSeq(s) \in Nat
      /\ ReleasedSeq(s, D) <= LastSeq(s) + NumInputs + 1
  BY ReleasedSeqIsNat, SeqIsNat
<1>2. ReleasedEvent(s, D, outcome) \in Event
      /\ ReleasedEvent(s, D, outcome).seq = ReleasedSeq(s, D)
      /\ ReleasedEvent(s, D, outcome).frame = 0
  BY <1>1 DEF ReleasedEvent, EventRow, Event, EventTypes
<1>3. EndEvents(s, D, First, outcome) \subseteq Event
  BY <1>2, OutcomeEventsType DEF EndEvents
<1>4. ASSUME NEW e \in EndEvents(s, D, First, outcome)
      PROVE  e.seq <= LastSeq(s) + NumInputs + 1 /\ e.frame <= LastSeq(s) + NumInputs + 1
  <2>1. CASE e = ReleasedEvent(s, D, outcome)
    BY <2>1, <1>1, <1>2, SessionStoreAssumption
  <2>2. CASE e \in OutcomeEvents(s, D, First)
    <3>1. e.seq \in Nat /\ e.frame \in Nat
      BY <1>3 DEF Event
    <3>2. e.seq <= LastSeq(s) + NumInputs /\ e.frame <= LastSeq(s) + NumInputs
      BY <2>2, OutcomeEventsType
    <3> QED
      BY <3>1, <3>2, <1>1, SessionStoreAssumption
  <2> QED
    BY <1>4, <2>1, <2>2 DEF EndEvents
<1> QED
  BY <1>3, <1>4

LEMMA EndTypes ==
    ASSUME TypeInv, NEW s \in Sessions, NEW D \in SUBSET Inputs, NEW First,
           NEW outcome \in {"completed", "cancelled", "error"},
           End(s, D, First, outcome), UNCHANGED nodeVars, UNCHANGED work
    PROVE  TypeInv'
<1>1. session' \in [Sessions -> SessionRow] /\ device' \in [Devices -> DeviceRow]
  BY EndedTypes DEF End
<1>2. job' \in [Inputs -> JobRow]
  BY FinishedJobsType DEF End
<1>3. frame' \in [Sessions -> FrameRow] /\ content' \in [Sessions -> FrameRef]
  BY EmptyRowTypes DEF End, TypeInv, StoreTypeOK
<1>4. events' \subseteq Event /\ LogBounded'
  <2> DEFINE E == EndEvents(s, D, First, outcome)
             n == LastSeq(s) + NumInputs + 1
  <2>1. E \in SUBSET Event /\ \A e \in E : e.seq <= n /\ e.frame <= n
    BY EndEventsType
  <2>2. n \in Nat
    BY SeqIsNat, SessionStoreAssumption
  <2>3. events' = events \cup E
    BY DEF End
  <2> HIDE DEF E, n
  <2> QED
    BY <2>1, <2>2, <2>3, LogGrows
<1>5. \A r \in idem' : r.session \in Sessions /\ r.seq \in Nat
  BY OutcomeSeqIsNat, ReleasedSeqIsNat
  DEF End, EndRows, OutcomeRows, IdemRow, TypeInv, StoreTypeOK
<1> QED
  BY <1>1, <1>2, <1>3, <1>4, <1>5
  DEF TypeInv, StoreTypeOK, NodeTypeOK, nodeVars, work, LeaseLive, Current

\* The types after one outcome of an executing input.
LEMMA OutcomeTypes ==
    ASSUME TypeInv, NEW s \in Sessions, NEW i \in Inputs, NEW type \in Outcomes,
           Outcome(s, i, type)
    PROVE  /\ job' \in [Inputs -> JobRow]
           /\ events' \subseteq Event /\ LogBounded'
           /\ \A r \in idem' : r.session \in Sessions /\ r.seq \in Nat
<1>1. LastSeq(s) \in Nat
  BY SeqIsNat
<1>2. job' \in [Inputs -> JobRow]
  BY <1>1, FinishedJobType DEF Outcome, TypeInv, StoreTypeOK
<1>3. OutcomeEvent(s, LastSeq(s) + 1, type, i) \in Event
  BY <1>1, OutcomeEventType
<1>4. events' \subseteq Event /\ LogBounded'
  BY <1>3, OneEvent DEF Outcome
<1>5. \A r \in idem' : r.session \in Sessions /\ r.seq \in Nat
  BY <1>1 DEF Outcome, IdemRow, TypeInv, StoreTypeOK
<1> QED
  BY <1>2, <1>4, <1>5

\* The types after one event that names nothing but its kind.
LEMMA PlainEventTypes ==
    ASSUME TypeInv, NEW s \in Sessions, NEW type \in EventTypes,
           events' = events \cup {EventRow(s, LastSeq(s) + 1, type)}
    PROVE  events' \subseteq Event /\ LogBounded'
<1>1. EventRow(s, LastSeq(s) + 1, type) \in Event
  BY SeqIsNat, EventRowType
<1> QED
  BY <1>1, OneEvent

LEMMA ControlTypes ==
    ASSUME TypeInv, NEW s \in Sessions, NEW key, NEW type \in EventTypes,
           Control(s, key, type)
    PROVE  /\ events' \subseteq Event /\ LogBounded'
           /\ \A r \in idem' : r.session \in Sessions /\ r.seq \in Nat
<1>1. events' \subseteq Event /\ LogBounded'
  BY PlainEventTypes DEF Control
<1>2. \A r \in idem' : r.session \in Sessions /\ r.seq \in Nat
  BY SeqIsNat DEF Control, IdemRow, TypeInv, StoreTypeOK
<1> QED
  BY <1>1, <1>2

LEMMA FrameRequestedType ==
    ASSUME TypeInv, NEW s \in Sessions
    PROVE  FrameRequested(s) \in [Sessions -> FrameRow]
  BY DEF FrameRequested, PendingFrame, TypeInv, StoreTypeOK, FrameRow, SessionRow

LEMMA AcquiredTypes ==
    ASSUME TypeInv, NEW d \in Devices, Acquirable(d), NEW s \in Sessions
    PROVE  /\ AcquiredRow(d) \in SessionRow
           /\ AcquiredDevice(s, d) \in DeviceRow
           /\ PendingFrame(owner[d].epoch, 0) \in FrameRow
           /\ EventRow(s, 1, "acquired") \in Event
<1>1. owner[d] \in Lease /\ device[d].gen \in Nat
  BY DEF Acquirable, TypeInv, StoreTypeOK, NodeTypeOK, DeviceRow
<1>2. AcquiredRow(d) \in SessionRow
  BY <1>1 DEF AcquiredRow, NextGeneration, SessionRow, OpenStatus, Lease
<1>3. AcquiredDevice(s, d) \in DeviceRow
  BY <1>1 DEF AcquiredDevice, NextGeneration, DeviceRow, AnySession
<1>4. PendingFrame(owner[d].epoch, 0) \in FrameRow
  BY <1>1 DEF PendingFrame, FrameRow, Lease
<1>5. EventRow(s, 1, "acquired") \in Event
  BY EventRowType DEF EventTypes
<1> QED
  BY <1>2, <1>3, <1>4, <1>5

LEMMA TypeStep == TypeInv /\ [Next]_vars => TypeInv'
<1> SUFFICES ASSUME TypeInv, [Next]_vars PROVE TypeInv'
  OBVIOUS
<1>0. NodeTypeOK'
  BY StoreStepIsRegistryStep, NodeTypeStep DEF TypeInv, StoreTypeOK, vars, nodeVars
<1> HIDE DEF NodeTypeOK
<1> USE DEF TypeInv, StoreTypeOK
<1>1. CASE UNCHANGED sessionVars
  BY <1>0, <1>1 DEF sessionVars, LogBounded
<1>2. ASSUME NEW p \in Procs, NEW d \in Devices, RegisterHeldDevice(p, d)
      PROVE  TypeInv'
  <2>1. PICK s \in Sessions :
           /\ LeaseLive(lease[p])
           /\ session' = [session EXCEPT ![s].epoch = lease[p].epoch]
           /\ job' = [i \in Inputs |-> IF i \in Unfinished(s)
                                       THEN ReadoptedJob(i, lease[p].epoch) ELSE job[i]]
           /\ frame' = [frame EXCEPT ![s] = ReadoptedFrame(s, lease[p].epoch)]
           /\ UNCHANGED <<device, content, events, idem, work>>
    BY <1>2 DEF RegisterHeldDevice, TakeDevice
  <2>2. lease[p].epoch \in Nat
    BY <2>1 DEF NodeTypeOK, Lease, LeaseLive, Current
  <2>3. session' \in [Sessions -> SessionRow]
    BY <2>1, <2>2 DEF SessionRow
  <2>4. \A i \in Inputs : ReadoptedJob(i, lease[p].epoch) \in JobRow
    BY <2>2 DEF ReadoptedJob, JobRow
  <2>5. ReadoptedFrame(s, lease[p].epoch) \in FrameRow
    BY <2>2 DEF ReadoptedFrame, PendingFrame, NoFrame, FrameRow
  <2> QED
    BY <1>0, <2>1, <2>3, <2>4, <2>5 DEF work, LogBounded
<1>3. ASSUME NEW s \in Sessions, NEW d \in Devices, Acquire(s, d)
      PROVE  TypeInv'
  <2>1. events' \subseteq Event /\ LogBounded'
    BY <1>3, AcquiredTypes, OneEvent DEF Acquire
  <2>2. \A r \in idem' : r.session \in Sessions /\ r.seq \in Nat
    BY <1>3 DEF Acquire, AcquireRow, IdemRow
  <2> QED
    BY <1>0, <1>3, <2>1, <2>2, AcquiredTypes DEF Acquire, work
<1>4. ASSUME NEW s \in Sessions, NEW d \in Devices, AcquireExpired(s, d)
      PROVE  TypeInv'
  <2>1. PICK o \in Sessions :
           /\ Acquirable(d)
           /\ session' = [EndedSessions(o) EXCEPT ![s] = AcquiredRow(d)]
           /\ device' = [EndedDevices(o) EXCEPT ![d] = AcquiredDevice(s, d)]
           /\ job' = FinishedJobs(o, Abandoned(o), {})
           /\ frame' = [frame EXCEPT ![o] = NoFrame, ![s] = PendingFrame(owner[d].epoch, 0)]
           /\ content' = [content EXCEPT ![o] = NoContent]
           /\ events' = events \cup EndEvents(o, Abandoned(o), {}, "error")
                               \cup {EventRow(s, 1, "acquired")}
           /\ idem' = idem \cup EndRows(o, Abandoned(o), {}) \cup {AcquireRow(s)}
           /\ UNCHANGED work
    BY <1>4, Zenon DEF AcquireExpired
  <2> DEFINE D == Abandoned(o)
  <2>2. D \in SUBSET Inputs
    BY DEF Abandoned, Unfinished, InState
  <2>3. session' \in [Sessions -> SessionRow] /\ device' \in [Devices -> DeviceRow]
    BY <2>1, AcquiredTypes, EndedTypes
  <2>4. job' \in [Inputs -> JobRow]
    BY <2>1, <2>2, FinishedJobsType
  <2>5. frame' \in [Sessions -> FrameRow] /\ content' \in [Sessions -> FrameRef]
    BY <2>1, AcquiredTypes, EmptyRowTypes
  <2>6. events' \subseteq Event /\ LogBounded'
    <3> DEFINE E == EndEvents(o, D, {}, "error") \cup {EventRow(s, 1, "acquired")}
    <3>1. E \in SUBSET Event
      BY <2>1, <2>2, EndEventsType, AcquiredTypes
    <3>2. LastSeq(o) + NumInputs + 1 \in Nat
      BY SeqIsNat, SessionStoreAssumption
    <3>3. \A e \in E : e.seq <= LastSeq(o) + NumInputs + 1
                       /\ e.frame <= LastSeq(o) + NumInputs + 1
      <4>1. EventRow(s, 1, "acquired").seq = 1 /\ EventRow(s, 1, "acquired").frame = 0
        BY DEF EventRow
      <4>2. 1 <= LastSeq(o) + NumInputs + 1 /\ 0 <= LastSeq(o) + NumInputs + 1
        BY SeqIsNat, SessionStoreAssumption
      <4>3. \A e \in EndEvents(o, D, {}, "error") :
               e.seq <= LastSeq(o) + NumInputs + 1 /\ e.frame <= LastSeq(o) + NumInputs + 1
        BY <2>2, EndEventsType
      <4> HIDE DEF D
      <4> QED
        BY <4>1, <4>2, <4>3
    <3>4. events' = events \cup E
      BY <2>1
    <3> HIDE DEF E
    <3> QED
      BY <3>1, <3>2, <3>3, <3>4, LogGrows
  <2>7. \A r \in idem' : r.session \in Sessions /\ r.seq \in Nat
    <3>1. \A r \in EndRows(o, D, {}) : r.session \in Sessions /\ r.seq \in Nat
      BY <2>2, OutcomeSeqIsNat, ReleasedSeqIsNat DEF EndRows, OutcomeRows, IdemRow
    <3>2. AcquireRow(s).session \in Sessions /\ AcquireRow(s).seq \in Nat
      BY DEF AcquireRow, IdemRow
    <3> QED
      BY <2>1, <3>1, <3>2
  <2> QED
    BY <1>0, <2>1, <2>3, <2>4, <2>5, <2>6, <2>7 DEF work
<1>5. ASSUME NEW s \in Sessions, EnqueueInput(s)
      PROVE  TypeInv'
  <2>1. PICK i \in Inputs, e \in FramesOf(s) :
           job' = [job EXCEPT ![i] = [NoJob EXCEPT !.state = "pending", !.session = s,
                                             !.epoch = session[s].epoch,
                                             !.stream = e.stream, !.frame = e.frame]]
    BY <1>5 DEF EnqueueInput
  <2>2. e.stream \in Nat /\ e.frame \in Nat /\ session[s].epoch \in Nat
    BY DEF FramesOf, EventsOf, Event, SessionRow
  <2>3. [NoJob EXCEPT !.state = "pending", !.session = s, !.epoch = session[s].epoch,
                      !.stream = e.stream, !.frame = e.frame] \in JobRow
    BY <2>2 DEF NoJob, JobRow, AnySession
  <2> QED
    BY <1>0, <1>5, <2>1, <2>3 DEF EnqueueInput, work, LogBounded
<1>6. ASSUME NEW s \in Sessions, Heartbeat(s)
      PROVE  TypeInv'
  BY <1>0, <1>6, ControlTypes DEF Heartbeat, work, EventTypes
<1>7. ASSUME NEW s \in Sessions, Cancel(s)
      PROVE  TypeInv'
  <2> DEFINE D == Queued(s)
             n == LastSeq(s) + Cardinality(D) + 1
  <2>1. D \in SUBSET Inputs
    BY DEF Queued, InState
  <2>2. LastSeq(s) \in Nat /\ Cardinality(D) \in Nat /\ Cardinality(D) <= NumInputs
    BY <2>1, SeqIsNat, InputsFinite
  <2>3. n \in Nat /\ n <= LastSeq(s) + NumInputs + 1
    BY <2>2, SessionStoreAssumption
  <2>4. session' \in [Sessions -> SessionRow]
    BY <1>7 DEF Cancel, SessionRow, OpenStatus
  <2>5. job' \in [Inputs -> JobRow]
    BY <1>7, <2>1, FinishedJobsType DEF Cancel
  <2>6. events' \subseteq Event /\ LogBounded'
    <3> DEFINE E == OutcomeEvents(s, D, {}) \cup {EventRow(s, n, "cancelled")}
    <3> HIDE DEF n
    <3>1. E \in SUBSET Event
      BY <2>1, <2>3, OutcomeEventsType, EventRowType DEF EventTypes
    <3>2. \A e \in E : e.seq <= LastSeq(s) + NumInputs + 1
                       /\ e.frame <= LastSeq(s) + NumInputs + 1
      <4>1. EventRow(s, n, "cancelled").seq = n /\ EventRow(s, n, "cancelled").frame = 0
        BY DEF EventRow
      <4>2. \A e \in OutcomeEvents(s, D, {}) :
               /\ e.seq \in Nat /\ e.frame \in Nat
               /\ e.seq <= LastSeq(s) + NumInputs /\ e.frame <= LastSeq(s) + NumInputs
        <5>1. \A e \in OutcomeEvents(s, D, {}) : e \in Event
          BY <2>1, OutcomeEventsType
        <5>2. \A e \in Event : e.seq \in Nat /\ e.frame \in Nat
          BY DEF Event
        <5>3. \A e \in OutcomeEvents(s, D, {}) :
                 e.seq <= LastSeq(s) + NumInputs /\ e.frame <= LastSeq(s) + NumInputs
          BY <2>1, OutcomeEventsType
        <5> HIDE DEF D
        <5> QED
          BY <5>1, <5>2, <5>3
      <4>3. \A e \in OutcomeEvents(s, D, {}) :
               e.seq <= LastSeq(s) + NumInputs + 1 /\ e.frame <= LastSeq(s) + NumInputs + 1
        BY <4>2, <2>2, SessionStoreAssumption
      <4>4. 0 <= LastSeq(s) + NumInputs + 1
        BY <2>2, SessionStoreAssumption
      <4> HIDE DEF D
      <4> QED
        BY <2>3, <4>1, <4>3, <4>4
    <3>3. LastSeq(s) + NumInputs + 1 \in Nat
      BY <2>2, SessionStoreAssumption
    <3>4. events' = events \cup E
      BY <1>7 DEF Cancel, n
    <3> HIDE DEF E
    <3> QED
      BY <3>1, <3>2, <3>3, <3>4, LogGrows
  <2>7. \A r \in idem' : r.session \in Sessions /\ r.seq \in Nat
    BY <1>7, <2>1, <2>3, OutcomeSeqIsNat DEF Cancel, OutcomeRows, IdemRow
  <2> QED
    BY <1>0, <1>7, <2>4, <2>5, <2>6, <2>7 DEF Cancel, work
<1>8. ASSUME NEW s \in Sessions, Reconnect(s)
      PROVE  TypeInv'
  <2>1. session' \in [Sessions -> SessionRow]
    BY <1>8 DEF Reconnect, SessionRow, OpenStatus
  <2> QED
    BY <1>0, <1>8, <2>1, ControlTypes, FrameRequestedType DEF Reconnect, work, EventTypes
<1>9. ASSUME NEW s \in Sessions, Release(s)
      PROVE  TypeInv'
  BY <1>9, EndTypes DEF Release, Queued, InState, ReleaseOutcome
<1>10. ASSUME NEW s \in Sessions, MarkDisconnected(s)
       PROVE  TypeInv'
  <2>1. session' \in [Sessions -> SessionRow]
    BY <1>10 DEF MarkDisconnected, SessionRow, OpenStatus
  <2> QED
    BY <1>0, <1>10, <2>1, PlainEventTypes DEF MarkDisconnected, work, EventTypes
<1>11. ASSUME NEW s \in Sessions, ExpireSession(s)
       PROVE  TypeInv'
  BY <1>11, EndTypes DEF ExpireSession, Abandoned, Unfinished, InState
<1>12. ASSUME NEW s \in Sessions, SessionLapse(s)
       PROVE  TypeInv'
  BY <1>0, <1>12 DEF SessionLapse, SessionRow, work, LogBounded
<1>13. ASSUME NEW p \in Procs, NEW s \in Sessions, ClaimFrame(p, s)
       PROVE  TypeInv'
  <2>1. lease[p].epoch \in Nat
    BY <1>13 DEF ClaimFrame, Serving, LeaseLive, Current, NodeTypeOK, Lease
  <2>2. frame[s].claimGen + 1 \in Nat /\ session[s].stream \in Nat /\ LastSeq(s) \in Nat
    BY SeqIsNat DEF FrameRow, SessionRow
  <2>3. frame' \in [Sessions -> FrameRow]
    BY <1>13, <2>1, <2>2 DEF ClaimFrame, FrameRow
  <2>4. frameWork' \subseteq FrameWork
    BY <1>13, <2>1, <2>2 DEF ClaimFrame, FrameWork
  <2> QED
    BY <1>0, <1>13, <2>3, <2>4 DEF ClaimFrame, LogBounded
<1>14. ASSUME NEW p \in Procs, NEW i \in Inputs, ClaimInput(p, i)
       PROVE  TypeInv'
  <2>1. lease[p].epoch \in Nat
    BY <1>14 DEF ClaimInput, Serving, LeaseLive, Current, NodeTypeOK, Lease
  <2>2. job[i].claimGen + 1 \in Nat
    BY DEF JobRow
  <2>3. job' \in [Inputs -> JobRow]
    BY <1>14, <2>1, <2>2 DEF ClaimInput, JobRow
  <2>4. inputWork' \subseteq InputWork
    BY <1>14, <2>1, <2>2 DEF ClaimInput, InputWork
  <2> QED
    BY <1>0, <1>14, <2>3, <2>4 DEF ClaimInput, LogBounded
<1>15. ASSUME NEW w \in frameWork, CompleteFrame(w)
       PROVE  TypeInv'
  <2> DEFINE s == w.session
             n == FrameSeq(s, w.stream) + 1
             e == [EventRow(s, LastSeq(s) + 1, "frame") EXCEPT !.stream = w.stream, !.frame = n]
  <2>1. s \in Sessions /\ w.stream \in Nat /\ w.since \in Nat
    BY DEF FrameWork
  <2>2. n \in Nat /\ LastSeq(s) + 1 \in Nat
    BY <2>1, FrameSeqIsNat, SeqIsNat
  <2> HIDE DEF n, s
  <2>3. EventRow(s, LastSeq(s) + 1, "frame") \in Event
    BY <2>1, <2>2, EventRowType DEF EventTypes
  <2>4. e \in Event
    BY <2>1, <2>2, <2>3 DEF Event
  <2>5. events' = events \cup {e}
    BY <1>15 DEF CompleteFrame, n, s
  <2> HIDE DEF e
  <2>6. events' \subseteq Event /\ LogBounded'
    BY <2>4, <2>5, OneEvent
  <2>7. content' \in [Sessions -> FrameRef] /\ frame' \in [Sessions -> FrameRow]
    BY <1>15, <2>1, <2>2, EmptyRowTypes DEF CompleteFrame, FrameRef, s, n
  <2> QED
    BY <1>0, <1>15, <2>6, <2>7 DEF CompleteFrame, work
<1>16. ASSUME NEW w \in frameWork, NEW retryable \in BOOLEAN, FailFrame(w, retryable)
       PROVE  TypeInv'
  <2>1. w.session \in Sessions
    BY DEF FrameWork
  <2>2. frame' \in [Sessions -> FrameRow]
    BY <1>16, <2>1 DEF FailFrame, AfterFailure, FrameRow
  <2>3. events' \subseteq Event /\ LogBounded'
    BY <1>16, <2>1, PlainEventTypes DEF FailFrame, EventTypes, Outcomes
  <2> QED
    BY <1>0, <1>16, <2>2, <2>3 DEF FailFrame, work
<1>17. ASSUME NEW w \in inputWork, StartInput(w)
       PROVE  TypeInv'
  <2>1. w.input \in Inputs
    BY DEF InputWork
  <2>2. job' = [job EXCEPT ![w.input].state = "executing"]
        /\ UNCHANGED <<nodeVars, session, device, frame, content, events, idem, work>>
    BY <1>17 DEF StartInput
  <2>3. job' \in [Inputs -> JobRow]
    BY <2>1, <2>2 DEF JobRow
  <2> QED
    BY <1>0, <2>2, <2>3 DEF work, LogBounded
<1>18. ASSUME NEW w \in inputWork, NEW type \in Outcomes, CompleteInput(w, type)
       PROVE  TypeInv'
  BY <1>0, <1>18, OutcomeTypes, FrameRequestedType
  DEF CompleteInput, FrameOwed, InputWork, work
<1>19. ASSUME NEW w \in inputWork, CompleteInputExpired(w)
       PROVE  TypeInv'
  BY <1>19, EndTypes DEF CompleteInputExpired, Unfinished, InState
<1>20. ASSUME NEW p \in Procs, NEW i \in Inputs, RecoverAmbiguousInput(p, i)
       PROVE  TypeInv'
  BY <1>0, <1>20, OutcomeTypes, FrameRequestedType
  DEF RecoverAmbiguousInput, FrameOwed, Outcomes, work
<1> QED
  BY <1>1, <1>2, <1>3, <1>4, <1>5, <1>6, <1>7, <1>8, <1>9, <1>10, <1>11, <1>12, <1>13,
     <1>14, <1>15, <1>16, <1>17, <1>18, <1>19, <1>20
  DEF Next, SessionStep, ExecutionStep, vars, sessionVars, RegisterIdleDevice

LEMMA TypeInit == Init => TypeInv
<1> SUFFICES ASSUME Init PROVE TypeInv
  OBVIOUS
<1>1. NodeTypeOK
  BY NodeTypeInit DEF Init
<1>2. NoRow \in SessionRow /\ [gen |-> 0, current |-> NoSession] \in DeviceRow
  BY DEF NoRow, SessionRow, DeviceRow, AnySession
<1>3. LogBounded
  BY DEF Init, LogBounded
<1> QED
  BY <1>1, <1>2, <1>3, EmptyRowTypes DEF Init, TypeInv, StoreTypeOK

LEMMA TypeInvariant == Spec => []TypeInv
  BY TypeInit, TypeStep, PTL DEF Spec

\* The rows of the store keep their types and the log stays finite, for any number
\* of nodes, processes, devices, sessions and inputs (the schema's columns).
THEOREM StoreTypeCorrect == Spec => []StoreTypeOK
<1>1. TypeInv => StoreTypeOK
  BY DEF TypeInv
<1> QED
  BY <1>1, TypeInvariant, PTL

-----------------------------------------------------------------------------
(***************************************************************************)
(* The fences: a device and its session point at each other, the rows of a *)
(* session follow its owner's epoch, and what has started or ended stays   *)
(* so.                                                                     *)
(***************************************************************************)
\* A session that exists is on a device, and a job that exists is a session's.
SessionsPlaced ==
    \A s \in Sessions : session[s].status # "none" => session[s].device \in Devices
JobsPlaced ==
    \A i \in Inputs :
        IF job[i].state = "none" THEN job[i].session = NoSession
        ELSE job[i].session \in Sessions /\ session[job[i].session].status # "none"

\* SerialInputs without a cardinality.
InHand == {"claimed", "executing"}
OneInHand == \A s \in Sessions : \A i, j \in InState(s, InHand) : i = j

\* RowsFollowOwner, table by table.
OwnerFits(s) ==
    /\ owner[session[s].device] \in Lease
    /\ owner[session[s].device] = [node |-> session[s].node, epoch |-> session[s].epoch]
JobFits(s, i) ==
    job[i].session = s =>
        /\ job[i].state \in {"pending", "claimed", "executing"} => job[i].epoch = session[s].epoch
        /\ job[i].state = "claimed" => job[i].claimedEpoch = session[s].epoch
        /\ job[i].state = "executing" => job[i].claimedEpoch \in 1 .. session[s].epoch
FrameFits(s) ==
    /\ frame[s].state # "none" => frame[s].epoch = session[s].epoch
    /\ frame[s].state = "claimed" => frame[s].claimedEpoch = session[s].epoch
RowsFit ==
    \A s \in Sessions : Open(s) =>
        OwnerFits(s) /\ FrameFits(s) /\ \A i \in Inputs : JobFits(s, i)

LEMMA RowsFitFollowOwner == RowsFit => RowsFollowOwner
  BY DEF RowsFit, RowsFollowOwner, OwnerFits, JobFits, FrameFits, Unfinished, Executing, InState

\* The inductive invariant.  What does not depend on how an input is claimed is StoreCore.
StoreCore ==
    /\ TypeInv
    /\ NodeInv
    /\ SessionsPlaced
    /\ JobsPlaced
    /\ DeviceHoldsItsSession
    /\ GenerationsUnique
    /\ RowsFit
    /\ ReleaseDrains

StoreInv == StoreCore /\ OneInHand

-----------------------------------------------------------------------------
\* The end of a session as every call writes it: all its unfinished inputs get
\* their outcome.
Ending(s) ==
    /\ Open(s)
    /\ UNCHANGED <<nodeVars, work>>
    /\ \E First \in SUBSET Inputs, outcome \in {"completed", "cancelled", "error"} :
          /\ outcome \in {"error", ReleaseOutcome(s)}
          /\ End(s, Unfinished(s), First, outcome)

LEMMA EndingCalls ==
    ASSUME TypeInv,
           \/ \E s \in Sessions : Release(s) \/ ExpireSession(s)
           \/ \E w \in inputWork : CompleteInputExpired(w)
    PROVE  \E s \in Sessions : Ending(s)
<1>1. ASSUME NEW s \in Sessions, Release(s) PROVE Ending(s)
  <2>1. Queued(s) = Unfinished(s)
    BY <1>1 DEF Release, Executing, Queued, Unfinished, InState
  <2>2. {} \in SUBSET Inputs /\ ReleaseOutcome(s) \in {"completed", "cancelled", "error"}
    BY DEF ReleaseOutcome
  <2>3. Open(s) /\ End(s, Unfinished(s), {}, ReleaseOutcome(s)) /\ UNCHANGED <<nodeVars, work>>
    BY <1>1, <2>1 DEF Release, Applicable, Open
  <2> QED
    BY <2>2, <2>3 DEF Ending
<1>2. ASSUME NEW s \in Sessions, ExpireSession(s) PROVE Ending(s)
  <2>1. {} \in SUBSET Inputs /\ "error" \in {"completed", "cancelled", "error"}
    OBVIOUS
  <2>2. Open(s) /\ End(s, Unfinished(s), {}, "error") /\ UNCHANGED <<nodeVars, work>>
    BY <1>2 DEF ExpireSession, Abandoned, Expirable
  <2> QED
    BY <2>1, <2>2 DEF Ending
<1>3. ASSUME NEW w \in inputWork, CompleteInputExpired(w)
      PROVE  \E s \in Sessions : Ending(s)
  <2>1. {w.input} \in SUBSET Inputs /\ "error" \in {"completed", "cancelled", "error"}
    BY DEF TypeInv, StoreTypeOK, InputWork
  <2>2. PICK s \in Sessions : /\ Open(s) /\ End(s, Unfinished(s), {w.input}, "error")
                              /\ UNCHANGED <<nodeVars, work>>
    BY <1>3 DEF CompleteInputExpired
  <2> QED
    BY <2>1, <2>2 DEF Ending
<1> QED
  BY <1>1, <1>2, <1>3

\* The frame an input is based on, once written, stays.
KeepsFrame(i) == job'[i].stream = job[i].stream /\ job'[i].frame = job[i].frame

\* What an ending does to each row.
LEMMA EndEffect ==
    ASSUME TypeInv, NEW s \in Sessions, NEW D, NEW First, NEW outcome,
           End(s, D, First, outcome)
    PROVE  /\ \A t \in Sessions : t # s => /\ session'[t] = session[t]
                                           /\ frame'[t] = frame[t]
                                           /\ content'[t] = content[t]
           /\ session'[s] = [session[s] EXCEPT !.status = "released"]
           /\ frame'[s] = NoFrame /\ content'[s] = NoContent
           /\ device' = EndedDevices(s)
           /\ \A i \in Inputs : i \notin D => job'[i] = job[i]
           /\ \A i \in Inputs : i \in D => /\ job'[i].state = "done"
                                           /\ job'[i].session = job[i].session
                                           /\ job'[i].claimGen = job[i].claimGen
                                           /\ KeepsFrame(i)
  BY DEF End, EndedSessions, FinishedJobs, FinishedJob, KeepsFrame, TypeInv, StoreTypeOK,
     SessionRow,
         JobRow

LEMMA EndingEffect ==
    ASSUME TypeInv, NEW s \in Sessions, Ending(s)
    PROVE  /\ Open(s) /\ UNCHANGED nodeVars
           /\ \A t \in Sessions : t # s => /\ session'[t] = session[t]
                                           /\ frame'[t] = frame[t]
                                           /\ content'[t] = content[t]
           /\ session'[s] = [session[s] EXCEPT !.status = "released"]
           /\ frame'[s] = NoFrame /\ content'[s] = NoContent
           /\ device' = EndedDevices(s)
           /\ \A i \in Inputs : i \notin Unfinished(s) => job'[i] = job[i]
           /\ \A i \in Unfinished(s) : /\ job'[i].state = "done"
                                       /\ job'[i].session = job[i].session
                                       /\ job'[i].claimGen = job[i].claimGen
                                       /\ KeepsFrame(i)
<1>1. PICK First \in SUBSET Inputs, outcome \in {"completed", "cancelled", "error"} :
         End(s, Unfinished(s), First, outcome)
  BY DEF Ending
<1>2. Unfinished(s) \in SUBSET Inputs
  BY DEF Unfinished, InState
<1> QED
  BY <1>1, <1>2, EndEffect DEF Ending

\* The same, for the sessions and the devices alone.
EndedRow(s) ==
    /\ session'[s].status = "released"
    /\ session'[s].device = session[s].device
    /\ session'[s].gen = session[s].gen

LEMMA EndedSessionEffect ==
    ASSUME TypeInv, NEW s \in Sessions, Ending(s)
    PROVE  EndedRow(s) /\ \A t \in Sessions \ {s} : session'[t] = session[t]
<1>1. /\ session'[s] = [session[s] EXCEPT !.status = "released"]
      /\ \A t \in Sessions \ {s} : session'[t] = session[t]
  BY EndingEffect
<1>2. session[s] \in SessionRow
  BY DEF TypeInv, StoreTypeOK
<1> QED
  BY <1>1, <1>2 DEF EndedRow, SessionRow

LEMMA EndedDevicesEffect ==
    ASSUME TypeInv, NEW s \in Sessions, NEW d \in Devices
    PROVE  /\ EndedDevices(s)[d].gen = device[d].gen
           /\ EndedDevices(s)[d].current =
                 IF d = session[s].device /\ device[d].current = s
                 THEN NoSession ELSE device[d].current
  BY DEF EndedDevices, TypeInv, StoreTypeOK, DeviceRow

\* An acquisition that replaces an expired session is an ending and an acquisition
\* in one step.
Replaced(o, s, d) ==
    /\ o # s /\ Open(o) /\ device[d].current = o
    /\ session[s].status = "none" /\ Acquirable(d)
    /\ UNCHANGED nodeVars
    /\ \A t \in Sessions \ {o, s} : /\ session'[t] = session[t]
                                    /\ frame'[t] = frame[t]
    /\ \A t \in Sessions \ {o} : content'[t] = content[t]
    /\ session'[o] = [session[o] EXCEPT !.status = "released"]
    /\ frame'[o] = NoFrame /\ content'[o] = NoContent
    /\ session'[s] = AcquiredRow(d)
    /\ frame'[s] = PendingFrame(owner[d].epoch, 0)
    /\ device' = [EndedDevices(o) EXCEPT ![d] = AcquiredDevice(s, d)]
    /\ \A i \in Inputs : i \notin Unfinished(o) => job'[i] = job[i]
    /\ \A i \in Unfinished(o) : /\ job'[i].state = "done"
                                /\ job'[i].session = job[i].session
                                /\ job'[i].claimGen = job[i].claimGen
                                /\ KeepsFrame(i)

LEMMA ReplacementEffect ==
    ASSUME TypeInv, NEW s \in Sessions, NEW d \in Devices, AcquireExpired(s, d)
    PROVE  \E o \in Sessions : Replaced(o, s, d)
<1>1. PICK o \in Sessions :
         /\ session[s].status = "none" /\ Acquirable(d)
         /\ device[d].current = o /\ Open(o)
         /\ session' = [EndedSessions(o) EXCEPT ![s] = AcquiredRow(d)]
         /\ device' = [EndedDevices(o) EXCEPT ![d] = AcquiredDevice(s, d)]
         /\ job' = FinishedJobs(o, Abandoned(o), {})
         /\ frame' = [frame EXCEPT ![o] = NoFrame, ![s] = PendingFrame(owner[d].epoch, 0)]
         /\ content' = [content EXCEPT ![o] = NoContent]
         /\ UNCHANGED nodeVars
  BY Zenon DEF AcquireExpired
<1>2. o # s
  BY <1>1 DEF Open, OpenStatus
<1>3. \A i \in Inputs : i \notin Unfinished(o) => job'[i] = job[i]
  BY <1>1 DEF FinishedJobs, Abandoned
<1>4. \A i \in Unfinished(o) : /\ job'[i].state = "done"
                               /\ job'[i].session = job[i].session
                               /\ job'[i].claimGen = job[i].claimGen
                               /\ KeepsFrame(i)
  BY <1>1 DEF FinishedJobs, FinishedJob, KeepsFrame, Abandoned, Unfinished, InState, TypeInv,
              StoreTypeOK, JobRow
<1>5. \A t \in Sessions \ {o, s} : session'[t] = session[t] /\ frame'[t] = frame[t]
  BY <1>1 DEF EndedSessions, TypeInv, StoreTypeOK
<1>6. /\ session'[o] = [session[o] EXCEPT !.status = "released"]
      /\ session'[s] = AcquiredRow(d)
  BY <1>1, <1>2 DEF EndedSessions, TypeInv, StoreTypeOK, SessionRow
<1>7. frame'[o] = NoFrame /\ frame'[s] = PendingFrame(owner[d].epoch, 0)
  BY <1>1, <1>2 DEF TypeInv, StoreTypeOK
<1>8. content'[o] = NoContent /\ \A t \in Sessions \ {o} : content'[t] = content[t]
  BY <1>1 DEF TypeInv, StoreTypeOK
<1> QED
  BY <1>1, <1>2, <1>3, <1>4, <1>5, <1>6, <1>7, <1>8 DEF Replaced

-----------------------------------------------------------------------------
\* Sessions and devices.  Only an ending and an acquisition change who holds what.
\* RegisterDevice moves the session to the epoch of its node's new incarnation.
Moved(s) == \E p \in Procs, d \in Devices : RegisterHeldDevice(p, d) /\ device[d].current = s

SessionsKept ==
    /\ device' = device
    /\ \A s \in Sessions : /\ session'[s].device = session[s].device
                           /\ session'[s].node = session[s].node
                           /\ session'[s].gen = session[s].gen
                           /\ \/ session'[s].status = session[s].status
                              \/ Open(s) /\ Open(s)'
                           /\ ~Moved(s) => session'[s].epoch = session[s].epoch

LEMMA SessionCases ==
    ASSUME TypeInv, [Next]_vars
    PROVE  \/ SessionsKept
           \/ \E s \in Sessions : Ending(s)
           \/ \E s \in Sessions, d \in Devices : Acquire(s, d) \/ AcquireExpired(s, d)
<1>1. CASE UNCHANGED <<session, device>>
  BY <1>1 DEF SessionsKept
<1>2. ASSUME NEW p \in Procs, NEW d \in Devices, RegisterHeldDevice(p, d) PROVE SessionsKept
  <2>1. PICK s \in Sessions : /\ device[d].current = s /\ device' = device
                              /\ session' = [session EXCEPT ![s].epoch = lease[p].epoch]
    BY <1>2 DEF RegisterHeldDevice
  <2>2. Moved(s)
    BY <1>2, <2>1 DEF Moved
  <2> QED
    BY <2>1, <2>2 DEF SessionsKept, TypeInv, StoreTypeOK, SessionRow
<1>3. ASSUME NEW s \in Sessions,
             Cancel(s) \/ Reconnect(s) \/ MarkDisconnected(s) \/ SessionLapse(s)
      PROVE  SessionsKept
  <2> USE DEF SessionsKept, Open, OpenStatus, TypeInv, StoreTypeOK, SessionRow
  <2>1. CASE Cancel(s)
    BY <2>1 DEF Cancel, Applicable
  <2>2. CASE Reconnect(s)
    BY <2>2 DEF Reconnect, Applicable
  <2>3. CASE MarkDisconnected(s)
    BY <2>3 DEF MarkDisconnected, Disconnectable
  <2>4. CASE SessionLapse(s)
    BY <2>4 DEF SessionLapse
  <2> QED
    BY <1>3, <2>1, <2>2, <2>3, <2>4
<1>4. ASSUME NEW s \in Sessions, EnqueueInput(s) \/ Heartbeat(s)
      PROVE  UNCHANGED <<session, device>>
  BY <1>4 DEF EnqueueInput, Heartbeat
<1>5. ASSUME NEW p \in Procs, NEW s \in Sessions, ClaimFrame(p, s)
      PROVE  UNCHANGED <<session, device>>
  BY <1>5 DEF ClaimFrame
<1>6. ASSUME NEW p \in Procs, NEW i \in Inputs, ClaimInput(p, i) \/ RecoverAmbiguousInput(p, i)
      PROVE  UNCHANGED <<session, device>>
  BY <1>6 DEF ClaimInput, RecoverAmbiguousInput
<1>7. ASSUME NEW w \in frameWork, NEW retryable \in BOOLEAN,
             CompleteFrame(w) \/ FailFrame(w, retryable)
      PROVE  UNCHANGED <<session, device>>
  BY <1>7 DEF CompleteFrame, FailFrame
<1>8. ASSUME NEW w \in inputWork, NEW type \in Outcomes, StartInput(w) \/ CompleteInput(w, type)
      PROVE  UNCHANGED <<session, device>>
  BY <1>8 DEF StartInput, CompleteInput
<1>9. ASSUME NEW p \in Procs, NEW d \in Devices, RegisterIdleDevice(p, d)
      PROVE  UNCHANGED <<session, device>>
  BY <1>9 DEF RegisterIdleDevice, sessionVars
<1>10. (RegistryStep /\ UNCHANGED sessionVars) \/ UNCHANGED vars => UNCHANGED <<session, device>>
  BY DEF sessionVars, vars
<1>11. ASSUME \/ \E s \in Sessions : Release(s) \/ ExpireSession(s)
              \/ \E w \in inputWork : CompleteInputExpired(w)
       PROVE  \E s \in Sessions : Ending(s)
  BY <1>11, EndingCalls
<1> QED
  BY <1>1, <1>2, <1>3, <1>4, <1>5, <1>6, <1>7, <1>8, <1>9, <1>10, <1>11 DEF Next, SessionStep,
     ExecutionStep, Outcomes

LEMMA AcquiredRowFields ==
    ASSUME NEW d \in Devices
    PROVE  /\ AcquiredRow(d).status = "active" /\ AcquiredRow(d).device = d
           /\ AcquiredRow(d).gen = device[d].gen + 1
           /\ AcquiredRow(d).node = owner[d].node /\ AcquiredRow(d).epoch = owner[d].epoch
  BY DEF AcquiredRow, NextGeneration

LEMMA PlacedStep ==
    ASSUME StoreCore, [Next]_vars
    PROVE  SessionsPlaced'
<1> USE DEF StoreCore
<1>1. CASE SessionsKept
  BY <1>1 DEF SessionsKept, SessionsPlaced, Open, OpenStatus
<1>2. ASSUME NEW s \in Sessions, Ending(s) PROVE SessionsPlaced'
  <2>1. Open(s) /\ EndedRow(s) /\ \A t \in Sessions \ {s} : session'[t] = session[t]
    BY <1>2, EndedSessionEffect DEF Ending
  <2> QED
    BY <2>1 DEF SessionsPlaced, EndedRow, Open, OpenStatus
<1>3. ASSUME NEW s \in Sessions, NEW d \in Devices, Acquire(s, d) PROVE SessionsPlaced'
  BY <1>3, AcquiredRowFields DEF Acquire, SessionsPlaced, TypeInv, StoreTypeOK
<1>4. ASSUME NEW s \in Sessions, NEW d \in Devices, AcquireExpired(s, d) PROVE SessionsPlaced'
  <2>1. PICK o \in Sessions : Replaced(o, s, d)
    BY <1>4, ReplacementEffect
  <2>2. session'[o].device = session[o].device /\ session[o].status # "none"
    BY <2>1 DEF Replaced, TypeInv, StoreTypeOK, SessionRow, Open, OpenStatus
  <2>3. ASSUME NEW t \in Sessions, session'[t].status # "none"
        PROVE  session'[t].device \in Devices
    <3>1. CASE t = s
      BY <3>1, <2>1, AcquiredRowFields DEF Replaced
    <3>2. CASE t = o
      BY <3>2, <2>2 DEF SessionsPlaced
    <3>3. CASE t # s /\ t # o
      BY <3>3, <2>1, <2>3 DEF Replaced, SessionsPlaced
    <3> QED
      BY <3>1, <3>2, <3>3
  <2> QED
    BY <2>3 DEF SessionsPlaced
<1> QED
  BY <1>1, <1>2, <1>3, <1>4, SessionCases

LEMMA DeviceHoldsStep ==
    ASSUME StoreCore, [Next]_vars
    PROVE  DeviceHoldsItsSession'
<1> USE DEF StoreCore
<1>1. CASE SessionsKept
  BY <1>1 DEF SessionsKept, DeviceHoldsItsSession, Open
<1>2. ASSUME NEW s \in Sessions, Ending(s) PROVE DeviceHoldsItsSession'
  <2>1. \A d \in Devices : device'[d].current =
           IF d = session[s].device /\ device[d].current = s THEN NoSession ELSE device[d].current
    <3>1. device' = EndedDevices(s)
      BY <1>2, EndingEffect
    <3> QED
      BY <3>1, EndedDevicesEffect
  <2>2. EndedRow(s) /\ \A t \in Sessions \ {s} : session'[t] = session[t]
    BY <1>2, EndedSessionEffect
  <2> QED
    BY <2>1, <2>2, SessionStoreAssumption DEF EndedRow, DeviceHoldsItsSession, Open, OpenStatus
<1>3. ASSUME NEW s \in Sessions, NEW d \in Devices, Acquire(s, d) PROVE DeviceHoldsItsSession'
  <2>1. /\ session[s].status = "none" /\ device[d].current = NoSession
        /\ session'[s] = AcquiredRow(d)
        /\ \A t \in Sessions \ {s} : session'[t] = session[t]
        /\ device' = [device EXCEPT ![d] = AcquiredDevice(s, d)]
    BY <1>3 DEF Acquire, TypeInv, StoreTypeOK
  <2>2. \A e \in Devices : device'[e].current = IF e = d THEN s ELSE device[e].current
    BY <2>1 DEF AcquiredDevice, TypeInv, StoreTypeOK
  <2> QED
    BY <2>1, <2>2, AcquiredRowFields, SessionStoreAssumption
    DEF DeviceHoldsItsSession, Open, OpenStatus
<1>4. ASSUME NEW s \in Sessions, NEW d \in Devices, AcquireExpired(s, d)
      PROVE  DeviceHoldsItsSession'
  <2>1. PICK o \in Sessions : Replaced(o, s, d)
    BY <1>4, ReplacementEffect
  <2>2. session'[o].status = "released"
    BY <2>1 DEF Replaced, TypeInv, StoreTypeOK, SessionRow
  <2>3. session[o].device = d
    BY <2>1 DEF Replaced, DeviceHoldsItsSession
  <2>4. \A e \in Devices : device'[e].current = IF e = d THEN s ELSE device[e].current
    BY <2>1, <2>3, EndedDevicesEffect, EndedTypes DEF Replaced, AcquiredDevice
  <2>5. ASSUME NEW t \in Sessions, NEW e \in Devices
        PROVE  device'[e].current = t <=> Open(t)' /\ session'[t].device = e
    <3>1. CASE t = s
      BY <3>1, <2>1, <2>4, AcquiredRowFields DEF Replaced, DeviceHoldsItsSession, Open, OpenStatus
    <3>2. CASE t = o
      BY <3>2, <2>1, <2>2, <2>3, <2>4 DEF Replaced, DeviceHoldsItsSession, Open, OpenStatus
    <3>3. CASE t # s /\ t # o
      BY <3>3, <2>1, <2>4 DEF Replaced, DeviceHoldsItsSession, Open
    <3> QED
      BY <3>1, <3>2, <3>3
  <2> QED
    BY <2>5 DEF DeviceHoldsItsSession
<1> QED
  BY <1>1, <1>2, <1>3, <1>4, SessionCases

LEMMA GenerationsStep ==
    ASSUME StoreCore, [Next]_vars
    PROVE  GenerationsUnique'
<1> USE DEF StoreCore
<1>0. /\ \A s \in Sessions : session[s].gen \in Nat
      /\ \A d \in Devices : device[d].gen \in Nat
  BY DEF TypeInv, StoreTypeOK, SessionRow, DeviceRow
<1>1. CASE SessionsKept
  BY <1>1 DEF SessionsKept, GenerationsUnique, Open, OpenStatus
<1>2. ASSUME NEW s \in Sessions, Ending(s) PROVE GenerationsUnique'
  <2>1. device' = EndedDevices(s)
    BY <1>2, EndingEffect
  <2>2. \A d \in Devices : device'[d].gen = device[d].gen
    BY <2>1, EndedDevicesEffect
  <2>3. Open(s) /\ EndedRow(s) /\ \A t \in Sessions \ {s} : session'[t] = session[t]
    BY <1>2, EndedSessionEffect DEF Ending
  <2>4. \A t \in Sessions : /\ session'[t].device = session[t].device
                            /\ session'[t].gen = session[t].gen
                            /\ session'[t].status # "none" => session[t].status # "none"
    BY <2>3 DEF EndedRow, Open, OpenStatus
  <2> QED
    BY <2>2, <2>4 DEF GenerationsUnique, SessionsPlaced
<1>3. ASSUME NEW s \in Sessions, NEW d \in Devices, Acquire(s, d) PROVE GenerationsUnique'
  <2>1. \A e \in Devices : device'[e].gen = IF e = d THEN device[d].gen + 1 ELSE device[e].gen
    BY <1>3 DEF Acquire, AcquiredDevice, NextGeneration, TypeInv, StoreTypeOK
  <2>2. /\ session'[s] = AcquiredRow(d) /\ session[s].status = "none"
        /\ \A t \in Sessions : t # s => session'[t] = session[t]
    BY <1>3 DEF Acquire, TypeInv, StoreTypeOK
  <2> QED
    BY <1>0, <2>1, <2>2, AcquiredRowFields DEF GenerationsUnique, SessionsPlaced
<1>4. ASSUME NEW s \in Sessions, NEW d \in Devices, AcquireExpired(s, d)
      PROVE  GenerationsUnique'
  <2>1. PICK o \in Sessions : Replaced(o, s, d)
    BY <1>4, ReplacementEffect
  <2>2. \A e \in Devices : device'[e].gen = IF e = d THEN device[d].gen + 1 ELSE device[e].gen
    BY <2>1, EndedDevicesEffect, EndedTypes DEF Replaced, AcquiredDevice, NextGeneration
  <2>3. \A t \in Sessions : t # s =>
           /\ session'[t].device = session[t].device /\ session'[t].gen = session[t].gen
           /\ session'[t].status # "none" => session[t].status # "none"
    BY <2>1 DEF Replaced, TypeInv, StoreTypeOK, SessionRow, Open, OpenStatus
  <2> QED
    BY <1>0, <2>1, <2>2, <2>3, AcquiredRowFields DEF Replaced, GenerationsUnique, SessionsPlaced
<1> QED
  BY <1>1, <1>2, <1>3, <1>4, SessionCases

\* A session that has been acquired stays so.
LEMMA StatusPersists ==
    ASSUME StoreCore, [Next]_vars, NEW s \in Sessions, session[s].status # "none"
    PROVE  session'[s].status # "none"
<1> USE DEF StoreCore
<1>1. CASE SessionsKept
  BY <1>1 DEF SessionsKept, Open, OpenStatus
<1>2. ASSUME NEW o \in Sessions, Ending(o) PROVE session'[s].status # "none"
  <2>1. EndedRow(o) /\ \A t \in Sessions \ {o} : session'[t] = session[t]
    BY <1>2, EndedSessionEffect
  <2> QED
    BY <2>1 DEF EndedRow
<1>3. ASSUME NEW t \in Sessions, NEW d \in Devices, Acquire(t, d)
      PROVE  session'[s].status # "none"
  BY <1>3, AcquiredRowFields DEF Acquire, TypeInv, StoreTypeOK
<1>4. ASSUME NEW t \in Sessions, NEW d \in Devices, AcquireExpired(t, d)
      PROVE  session'[s].status # "none"
  <2>1. PICK o \in Sessions : Replaced(o, t, d)
    BY <1>4, ReplacementEffect
  <2>2. session'[o].status = "released"
    BY <2>1 DEF Replaced, TypeInv, StoreTypeOK, SessionRow
  <2> QED
    BY <2>1, <2>2 DEF Replaced
<1> QED
  BY <1>1, <1>2, <1>3, <1>4, SessionCases

-----------------------------------------------------------------------------
\* What a step may do to a job.
SameJob(i) == job'[i] = job[i]
Enqueued(i) ==
    /\ job[i].state = "none"
    /\ \E s \in Sessions :
          /\ session[s].status = "active" /\ session' = session
          /\ job'[i].state = "pending" /\ job'[i].session = s
          /\ job'[i].epoch = session[s].epoch /\ job'[i].stream = session[s].stream
          /\ \E e \in FramesOf(s) : job'[i].stream = e.stream /\ job'[i].frame = e.frame
Claimed(i) ==
    LET s == job[i].session
    IN  /\ job[i].state \in {"pending", "claimed"} /\ session' = session
        /\ s \in Sessions /\ session[s].status = "active"
        /\ job'[i].state = "claimed" /\ job'[i].session = s
        /\ job'[i].epoch = job[i].epoch /\ job'[i].claimedEpoch = session[s].epoch
        /\ KeepsFrame(i) /\ frame[s].state = "none" /\ frame' = frame
        /\ InState(s, InHand) \subseteq {i}
        /\ \A j \in Inputs \ {i} : job'[j] = job[j]
Started(i) ==
    /\ \E w \in inputWork : w.input = i /\ StartInput(w)
    /\ job[i].state = "claimed" /\ session' = session
    /\ job'[i].state = "executing" /\ job'[i].session = job[i].session
    /\ job'[i].epoch = job[i].epoch /\ job'[i].claimedEpoch = job[i].claimedEpoch
    /\ job'[i].claimGen = job[i].claimGen
    /\ KeepsFrame(i)
Finished(i) ==
    /\ job[i].state \in {"pending", "claimed", "executing"}
    /\ job'[i].state = "done" /\ job'[i].session = job[i].session
    /\ job'[i].claimGen = job[i].claimGen
    /\ KeepsFrame(i)
Readopted(i) ==
    \E p \in Procs, d \in Devices :
        /\ RegisterHeldDevice(p, d)
        /\ job[i].session \in Sessions /\ device[d].current = job[i].session
        /\ job[i].state \in {"pending", "claimed", "executing"}
        /\ job'[i] = ReadoptedJob(i, lease[p].epoch)

JobStep(i) ==
    SameJob(i) \/ Enqueued(i) \/ Claimed(i) \/ Started(i) \/ Finished(i) \/ Readopted(i)

LEMMA OutcomeFinishes ==
    ASSUME TypeInv, NEW s \in Sessions, NEW j \in Inputs, NEW type \in Outcomes,
           Outcome(s, j, type), job[j].state = "executing", NEW i \in Inputs
    PROVE  SameJob(i) \/ Finished(i)
<1>1. job' = [job EXCEPT ![j] = FinishedJob(j, LastSeq(s) + 1)]
  BY DEF Outcome
<1>2. /\ FinishedJob(j, LastSeq(s) + 1).state = "done"
      /\ FinishedJob(j, LastSeq(s) + 1).session = job[j].session
      /\ FinishedJob(j, LastSeq(s) + 1).claimGen = job[j].claimGen
      /\ FinishedJob(j, LastSeq(s) + 1).stream = job[j].stream
      /\ FinishedJob(j, LastSeq(s) + 1).frame = job[j].frame
  BY DEF FinishedJob, TypeInv, StoreTypeOK, JobRow
<1> QED
  BY <1>1, <1>2 DEF SameJob, Finished, KeepsFrame, TypeInv, StoreTypeOK

LEMMA JobCases ==
    ASSUME TypeInv, [Next]_vars, NEW i \in Inputs
    PROVE  JobStep(i)
<1> USE DEF JobStep
<1>1. CASE UNCHANGED job
  BY <1>1 DEF SameJob
<1>2. ASSUME NEW s \in Sessions, EnqueueInput(s) PROVE JobStep(i)
  <2>1. PICK j \in Inputs, e \in FramesOf(s) :
           /\ job[j].state = "none" /\ e.stream = session[s].stream
           /\ job' = [job EXCEPT ![j] = [NoJob EXCEPT !.state = "pending", !.session = s,
                                             !.epoch = session[s].epoch,
                                             !.stream = e.stream, !.frame = e.frame]]
    BY <1>2 DEF EnqueueInput
  <2>2. session[s].status = "active" /\ session' = session
    BY <1>2 DEF EnqueueInput, Applicable
  <2> QED
    BY <2>1, <2>2 DEF NoJob, SameJob, Enqueued, TypeInv, StoreTypeOK
<1>3. ASSUME NEW s \in Sessions, Cancel(s) PROVE JobStep(i)
  BY <1>3 DEF Cancel, FinishedJobs, FinishedJob, Queued, InState, SameJob, Finished, KeepsFrame,
              TypeInv, StoreTypeOK, JobRow
<1>4. ASSUME NEW s \in Sessions, Ending(s) PROVE JobStep(i)
  <2>1. /\ i \notin Unfinished(s) => job'[i] = job[i]
        /\ i \in Unfinished(s) => /\ job'[i].state = "done"
                                  /\ job'[i].session = job[i].session
                                  /\ job'[i].claimGen = job[i].claimGen
                                  /\ KeepsFrame(i)
    BY <1>4, EndingEffect
  <2> QED
    BY <2>1 DEF SameJob, Finished, Unfinished, InState
<1>5. ASSUME NEW s \in Sessions, NEW d \in Devices, AcquireExpired(s, d) PROVE JobStep(i)
  <2>1. PICK o \in Sessions : Replaced(o, s, d)
    BY <1>5, ReplacementEffect
  <2> QED
    BY <2>1 DEF Replaced, SameJob, Finished, Unfinished, InState
<1>6. ASSUME NEW p \in Procs, NEW d \in Devices, RegisterHeldDevice(p, d) PROVE JobStep(i)
  <2>1. PICK s \in Sessions :
           /\ device[d].current = s
           /\ job' = [j \in Inputs |-> IF j \in Unfinished(s)
                                       THEN ReadoptedJob(j, lease[p].epoch) ELSE job[j]]
    BY <1>6 DEF RegisterHeldDevice
  <2>2. CASE i \in Unfinished(s)
    BY <1>6, <2>1, <2>2 DEF Readopted, Unfinished, InState
  <2>3. CASE i \notin Unfinished(s)
    BY <2>1, <2>3 DEF SameJob
  <2> QED
    BY <2>2, <2>3
<1>7. ASSUME NEW p \in Procs, NEW j \in Inputs, ClaimInput(p, j) PROVE JobStep(i)
  <2>1. PICK s \in Sessions :
           /\ job[j].session = s /\ Serving(lease[p], s) /\ Claimable(s, j)
           /\ job' = [job EXCEPT ![j].state = "claimed", ![j].claimedEpoch = lease[p].epoch,
                                 ![j].claimGen = job[j].claimGen + 1]
           /\ frame[s].state = "none" /\ frame' = frame /\ session' = session
    BY <1>7 DEF ClaimInput
  <2>2. job[j].state \in {"pending", "claimed"} /\ InState(s, InHand) \subseteq {j}
    BY <2>1 DEF Claimable, Eligible, Queued, InState, InHand
  <2>3. session[s].status = "active" /\ session[s].epoch = lease[p].epoch
    BY <2>1 DEF Serving
  <2>4. /\ job'[j].state = "claimed" /\ job'[j].session = s
        /\ job'[j].epoch = job[j].epoch /\ job'[j].claimedEpoch = lease[p].epoch
        /\ KeepsFrame(j)
        /\ \A k \in Inputs \ {j} : job'[k] = job[k]
    BY <2>1 DEF KeepsFrame, TypeInv, StoreTypeOK, JobRow
  <2>5. CASE i = j
    BY <2>1, <2>2, <2>3, <2>4, <2>5 DEF Claimed
  <2>6. CASE i # j
    BY <2>4, <2>6 DEF SameJob
  <2> QED
    BY <2>5, <2>6
<1>8. ASSUME NEW w \in inputWork, StartInput(w) PROVE JobStep(i)
  <2>1. /\ w.input \in Inputs /\ job[w.input].state = "claimed" /\ session' = session
        /\ job' = [job EXCEPT ![w.input].state = "executing"]
    BY <1>8 DEF StartInput, TypeInv, StoreTypeOK, InputWork
  <2>2. CASE i = w.input
    BY <1>8, <2>1, <2>2 DEF Started, KeepsFrame, TypeInv, StoreTypeOK, JobRow
  <2>3. CASE i # w.input
    BY <2>1, <2>3 DEF SameJob, TypeInv, StoreTypeOK
  <2> QED
    BY <2>2, <2>3
<1>9. ASSUME NEW w \in inputWork, NEW type \in Outcomes, CompleteInput(w, type)
      PROVE  JobStep(i)
  <2>1. PICK s \in Sessions : Outcome(s, w.input, type) /\ job[w.input].state = "executing"
    BY <1>9 DEF CompleteInput, Completable
  <2>2. w.input \in Inputs
    BY DEF TypeInv, StoreTypeOK, InputWork
  <2> QED
    BY <2>1, <2>2, OutcomeFinishes
<1>10. ASSUME NEW p \in Procs, NEW j \in Inputs, RecoverAmbiguousInput(p, j)
       PROVE  JobStep(i)
  <2>1. PICK s \in Sessions : Outcome(s, j, "error") /\ job[j].state = "executing"
    BY <1>10 DEF RecoverAmbiguousInput
  <2>2. "error" \in Outcomes
    BY DEF Outcomes
  <2> QED
    BY <2>1, <2>2, OutcomeFinishes
<1>11. ASSUME NEW s \in Sessions,
              \/ Heartbeat(s) \/ Reconnect(s) \/ MarkDisconnected(s) \/ SessionLapse(s)
              \/ (\E p \in Procs : ClaimFrame(p, s))
              \/ (\E d \in Devices : Acquire(s, d))
       PROVE  UNCHANGED job
  BY <1>11 DEF Heartbeat, Reconnect, MarkDisconnected, SessionLapse, ClaimFrame, Acquire
<1>12. ASSUME NEW w \in frameWork, NEW retryable \in BOOLEAN,
              CompleteFrame(w) \/ FailFrame(w, retryable)
       PROVE  UNCHANGED job
  BY <1>12 DEF CompleteFrame, FailFrame
<1>13. ASSUME NEW p \in Procs, NEW d \in Devices, RegisterIdleDevice(p, d)
       PROVE  UNCHANGED job
  BY <1>13 DEF RegisterIdleDevice, sessionVars
<1>14. (RegistryStep /\ UNCHANGED sessionVars) \/ UNCHANGED vars => UNCHANGED job
  BY DEF sessionVars, vars
<1>15. ASSUME \/ \E s \in Sessions : Release(s) \/ ExpireSession(s)
              \/ \E w \in inputWork : CompleteInputExpired(w)
       PROVE  \E s \in Sessions : Ending(s)
  BY <1>15, EndingCalls
<1> HIDE DEF JobStep
<1> QED
  BY <1>1, <1>2, <1>3, <1>4, <1>5, <1>6, <1>7, <1>8, <1>9, <1>10, <1>11, <1>12, <1>13, <1>14,
     <1>15
  DEF Next, SessionStep, ExecutionStep, Outcomes

\* A job stays its session's, on the frame it was enqueued with.
LEMMA JobsKept ==
    ASSUME TypeInv, [Next]_vars, NEW i \in Inputs, job[i].state # "none"
    PROVE  job'[i].state # "none" /\ job'[i].session = job[i].session /\ KeepsFrame(i)
<1>1. CASE SameJob(i)
  BY <1>1 DEF SameJob, KeepsFrame
<1>2. CASE Claimed(i) \/ Started(i) \/ Finished(i)
  BY <1>2 DEF Claimed, Started, Finished
<1>3. CASE Readopted(i)
  BY <1>3 DEF Readopted, ReadoptedJob, KeepsFrame, TypeInv, StoreTypeOK, JobRow
<1> QED
  BY <1>1, <1>2, <1>3, JobCases DEF JobStep, Enqueued

LEMMA JobsPlacedStep ==
    ASSUME StoreCore, [Next]_vars
    PROVE  JobsPlaced'
<1> USE DEF StoreCore
<1> SUFFICES ASSUME NEW i \in Inputs
             PROVE  IF job'[i].state = "none" THEN job'[i].session = NoSession
                    ELSE /\ job'[i].session \in Sessions
                         /\ session'[job'[i].session].status # "none"
  BY DEF JobsPlaced
<1>1. \A s \in Sessions : session[s].status # "none" => session'[s].status # "none"
  BY StatusPersists
<1>2. CASE SameJob(i) \/ Claimed(i) \/ Started(i) \/ Finished(i)
  BY <1>1, <1>2 DEF SameJob, Claimed, Started, Finished, JobsPlaced
<1>3. CASE Enqueued(i)
  BY <1>1, <1>3 DEF Enqueued
<1>4. CASE Readopted(i)
  <2>1. job'[i].session = job[i].session /\ job[i].state # "none" /\ job'[i].state # "none"
    BY <1>4 DEF Readopted, ReadoptedJob, TypeInv, StoreTypeOK, JobRow
  <2> QED
    BY <1>1, <2>1 DEF JobsPlaced
<1> QED
  BY <1>2, <1>3, <1>4, JobCases DEF JobStep

LEMMA OneInHandStep ==
    ASSUME StoreInv, [Next]_vars
    PROVE  OneInHand'
<1> USE DEF StoreInv, StoreCore
<1>1. CASE \E i \in Inputs : Claimed(i)
  <2>1. PICK i \in Inputs : Claimed(i)
    BY <1>1
  <2>2. ASSUME NEW s \in Sessions, NEW j \in InState(s, InHand)', j # i
        PROVE  j \in InState(s, InHand) /\ s # job[i].session
    BY <2>1, <2>2 DEF Claimed, InState
  <2>3. ASSUME NEW s \in Sessions, i \in InState(s, InHand)'
        PROVE  s = job[i].session
    BY <2>1, <2>3 DEF Claimed, InState
  <2> QED
    BY <2>2, <2>3 DEF OneInHand
<1>2. ASSUME \A i \in Inputs : ~Claimed(i)
      PROVE  \A s \in Sessions : InState(s, InHand)' \subseteq InState(s, InHand)
  <2> SUFFICES ASSUME NEW s \in Sessions, NEW i \in Inputs,
                      job'[i].session = s, job'[i].state \in InHand
               PROVE  job[i].session = s /\ job[i].state \in InHand
    BY DEF InState
  <2>1. SameJob(i) \/ Enqueued(i) \/ Started(i) \/ Finished(i) \/ Readopted(i)
    BY <1>2, JobCases DEF JobStep
  <2>2. CASE Readopted(i)
    BY <2>2 DEF Readopted, ReadoptedJob, InHand, TypeInv, StoreTypeOK, JobRow
  <2> QED
    BY <2>1, <2>2 DEF SameJob, Enqueued, Started, Finished, InHand
<1> QED
  BY <1>1, <1>2 DEF OneInHand

-----------------------------------------------------------------------------
\* The end is final: no call has an effect on a released session.
Untouched(s) ==
    /\ session'[s] = session[s]
    /\ frame'[s] = frame[s]
    /\ content'[s] = content[s]
    /\ \A e \in events' \ events : e.session # s

\* The events that an ending of t, or an outcome, writes are t's.
LEMMA EndEventsSession ==
    ASSUME NEW t, NEW D, NEW First, NEW outcome, NEW e \in EndEvents(t, D, First, outcome)
    PROVE  e.session = t
<1>1. \A n, i : OutcomeEvent(t, n, "error", i).session = t
  BY DEF OutcomeEvent, EventRow
<1>2. ReleasedEvent(t, D, outcome).session = t
  BY DEF ReleasedEvent, EventRow
<1> QED
  BY <1>1, <1>2 DEF EndEvents, OutcomeEvents

LEMMA ReleasedStep ==
    ASSUME StoreCore, [Next]_vars, NEW s \in Sessions, session[s].status = "released"
    PROVE  Untouched(s)
<1> USE DEF StoreCore
<1>0. ~Open(s) /\ session[s].status # "active" /\ Unfinished(s) = {}
  BY DEF Open, OpenStatus, ReleaseDrains
<1>1. CASE UNCHANGED <<session, frame, content, events>>
  BY <1>1 DEF Untouched
<1>2. ASSUME NEW t \in Sessions, Ending(t) PROVE Untouched(s)
  <2>1. t # s /\ session'[s] = session[s] /\ frame'[s] = frame[s] /\ content'[s] = content[s]
    BY <1>0, <1>2, EndingEffect
  <2>2. \A e \in events' \ events : e.session = t
    BY <1>2, EndEventsSession DEF Ending, End
  <2> QED
    BY <2>1, <2>2 DEF Untouched
<1>3. ASSUME NEW t \in Sessions, NEW d \in Devices, Acquire(t, d) PROVE Untouched(s)
  <2>1. t # s
    BY <1>3 DEF Acquire
  <2>2. session'[s] = session[s] /\ frame'[s] = frame[s] /\ content'[s] = content[s]
    BY <1>3, <2>1 DEF Acquire, TypeInv, StoreTypeOK
  <2>3. EventRow(t, 1, "acquired").session = t
    BY DEF EventRow
  <2>4. \A e \in events' \ events : e.session = t
    BY <1>3, <2>3 DEF Acquire
  <2> QED
    BY <2>1, <2>2, <2>4 DEF Untouched
<1>4. ASSUME NEW t \in Sessions, NEW d \in Devices, AcquireExpired(t, d) PROVE Untouched(s)
  <2>1. PICK o \in Sessions :
           /\ Open(o) /\ session[t].status = "none"
           /\ session' = [EndedSessions(o) EXCEPT ![t] = AcquiredRow(d)]
           /\ frame' = [frame EXCEPT ![o] = NoFrame, ![t] = PendingFrame(owner[d].epoch, 0)]
           /\ content' = [content EXCEPT ![o] = NoContent]
           /\ events' = events \cup EndEvents(o, Abandoned(o), {}, "error")
                               \cup {EventRow(t, 1, "acquired")}
    BY <1>4, Zenon DEF AcquireExpired
  <2>2. o # s /\ t # s
    BY <1>0, <2>1
  <2>3. session'[s] = session[s] /\ frame'[s] = frame[s] /\ content'[s] = content[s]
    BY <2>1, <2>2 DEF EndedSessions, TypeInv, StoreTypeOK
  <2>4. EventRow(t, 1, "acquired").session = t
    BY DEF EventRow
  <2>5. \A e \in events' \ events : e.session \in {o, t}
    BY <2>1, <2>4, EndEventsSession
  <2> QED
    BY <2>2, <2>3, <2>5 DEF Untouched
<1>5. ASSUME NEW t \in Sessions,
             \/ MarkDisconnected(t) \/ SessionLapse(t) \/ Heartbeat(t) \/ Cancel(t)
             \/ Reconnect(t) \/ EnqueueInput(t) \/ \E p \in Procs : ClaimFrame(p, t)
      PROVE  Untouched(s)
  <2>1. t # s
    BY <1>0, <1>5 DEF MarkDisconnected, Disconnectable, SessionLapse, Heartbeat, Cancel, Reconnect,
                      EnqueueInput, ClaimFrame, Serving, Applicable
  <2>2. session'[s] = session[s] /\ frame'[s] = frame[s] /\ content'[s] = content[s]
    BY <1>5, <2>1 DEF MarkDisconnected, SessionLapse, Heartbeat, Cancel, Reconnect,
                      EnqueueInput, ClaimFrame, FrameRequested, TypeInv, StoreTypeOK
  <2>3. \A n, type : EventRow(t, n, type).session = t
    BY DEF EventRow
  <2>4. \A e \in OutcomeEvents(t, Queued(t), {}) : e.session = t
    BY DEF OutcomeEvents, OutcomeEvent, EventRow
  <2>5. \A e \in events' \ events : e.session = t
    <3>1. CASE Cancel(t)
      BY <3>1, <2>3, <2>4 DEF Cancel
    <3>2. CASE MarkDisconnected(t) \/ Heartbeat(t) \/ Reconnect(t)
      BY <3>2, <2>3 DEF MarkDisconnected, Heartbeat, Reconnect, Control
    <3>3. CASE SessionLapse(t) \/ EnqueueInput(t) \/ \E p \in Procs : ClaimFrame(p, t)
      BY <3>3 DEF SessionLapse, EnqueueInput, ClaimFrame
    <3> QED
      BY <1>5, <3>1, <3>2, <3>3
  <2> QED
    BY <2>1, <2>2, <2>5 DEF Untouched
<1>6. ASSUME NEW p \in Procs, NEW d \in Devices, RegisterHeldDevice(p, d) PROVE Untouched(s)
  BY <1>0, <1>6 DEF RegisterHeldDevice, Untouched, TypeInv, StoreTypeOK
<1>7. ASSUME NEW w \in frameWork, NEW retryable \in BOOLEAN,
             CompleteFrame(w) \/ FailFrame(w, retryable)
      PROVE  Untouched(s)
  <2>1. w.session # s /\ w.session \in Sessions /\ session' = session
    BY <1>0, <1>7
    DEF CompleteFrame, FailFrame, FrameReportable, TypeInv, StoreTypeOK, FrameWork
  <2>2. frame'[s] = frame[s] /\ content'[s] = content[s]
    BY <1>7, <2>1 DEF CompleteFrame, FailFrame, TypeInv, StoreTypeOK
  <2>3. \A e \in events' \ events : e.session = w.session
    <3>1. \A n, stream, m : [EventRow(w.session, n, "frame") EXCEPT
                                !.stream = stream, !.frame = m].session = w.session
      BY DEF EventRow
    <3>2. \A n : EventRow(w.session, n, "error").session = w.session
      BY DEF EventRow
    <3>3. CASE CompleteFrame(w)
      <4> DEFINE row == [EventRow(w.session, LastSeq(w.session) + 1, "frame") EXCEPT
                            !.stream = w.stream, !.frame = FrameSeq(w.session, w.stream) + 1]
      <4>1. events' = events \cup {row}
        BY <3>3 DEF CompleteFrame
      <4>2. row.session = w.session
        BY <3>1
      <4> HIDE DEF row
      <4> QED
        BY <4>1, <4>2
    <3>4. CASE FailFrame(w, retryable)
      BY <3>2, <3>4 DEF FailFrame
    <3> QED
      BY <1>7, <3>3, <3>4
  <2> QED
    BY <2>1, <2>2, <2>3 DEF Untouched
<1>8. ASSUME NEW t \in Sessions, NEW i \in Inputs, NEW type \in Outcomes,
             Outcome(t, i, type), job[i].session = t, job[i].state = "executing",
             frame' = FrameOwed(t), UNCHANGED <<session, content>>
      PROVE  Untouched(s)
  <2>1. t # s
    BY <1>0, <1>8 DEF Unfinished, InState
  <2>2. frame'[s] = frame[s]
    BY <1>8, <2>1 DEF FrameOwed, FrameRequested, TypeInv, StoreTypeOK
  <2>3. \A e \in events' \ events : e.session = t
    BY <1>8 DEF Outcome, OutcomeEvent, EventRow
  <2> QED
    BY <1>8, <2>1, <2>2, <2>3 DEF Untouched
<1>9. ASSUME NEW w \in inputWork, NEW type \in Outcomes, CompleteInput(w, type)
      PROVE  Untouched(s)
  <2>1. w.input \in Inputs
    BY DEF TypeInv, StoreTypeOK, InputWork
  <2> QED
    BY <1>8, <1>9, <2>1 DEF CompleteInput, Completable
<1>10. ASSUME NEW p \in Procs, NEW i \in Inputs, RecoverAmbiguousInput(p, i)
       PROVE  Untouched(s)
  BY <1>8, <1>10 DEF RecoverAmbiguousInput, Outcomes
<1>11. ASSUME \/ \E p \in Procs, i \in Inputs : ClaimInput(p, i)
              \/ \E p \in Procs, d \in Devices : RegisterIdleDevice(p, d)
              \/ \E w \in inputWork : StartInput(w)
              \/ (RegistryStep /\ UNCHANGED sessionVars) \/ UNCHANGED vars
       PROVE  UNCHANGED <<session, frame, content, events>>
  BY <1>11 DEF ClaimInput, RegisterIdleDevice, StartInput, sessionVars, vars
<1>12. ASSUME \/ \E t \in Sessions : Release(t) \/ ExpireSession(t)
              \/ \E w \in inputWork : CompleteInputExpired(w)
       PROVE  \E t \in Sessions : Ending(t)
  BY <1>12, EndingCalls
<1> QED
  BY <1>1, <1>2, <1>3, <1>4, <1>5, <1>6, <1>7, <1>9, <1>10, <1>11, <1>12 DEF Next, SessionStep,
     ExecutionStep

LEMMA ReleaseDrainsStep ==
    ASSUME StoreCore, [Next]_vars
    PROVE  ReleaseDrains'
<1> USE DEF StoreCore
<1> SUFFICES ASSUME NEW s \in Sessions, session'[s].status = "released"
             PROVE  Unfinished(s)' = {} /\ frame'[s] = NoFrame /\ content'[s] = NoContent
  BY DEF ReleaseDrains, NoFrame, NoContent
<1>1. CASE session[s].status = "released"
  <2>1. frame'[s] = NoFrame /\ content'[s] = NoContent
    BY <1>1, ReleasedStep DEF Untouched, ReleaseDrains
  <2>2. ASSUME NEW i \in Inputs, job'[i].session = s,
               job'[i].state \in {"pending", "claimed", "executing"}
        PROVE  FALSE
    <3>1. job[i].session # s \/ job[i].state \notin {"pending", "claimed", "executing"}
      BY <1>1 DEF ReleaseDrains, Unfinished, InState
    <3>2. CASE Readopted(i)
      BY <2>2, <3>1, <3>2 DEF Readopted, ReadoptedJob, TypeInv, StoreTypeOK, JobRow
    <3>3. ~Readopted(i) => FALSE
      BY <1>1, <2>2, <3>1, JobCases
      DEF JobStep, SameJob, Enqueued, Claimed, Started, Finished
    <3> QED
      BY <3>2, <3>3
  <2> QED
    BY <2>1, <2>2 DEF Unfinished, InState
<1>2. CASE session[s].status # "released"
  <2>1. CASE SessionsKept
    BY <1>2, <2>1 DEF SessionsKept, Open, OpenStatus
  <2>2. ASSUME NEW t \in Sessions, Ending(t)
        PROVE  Unfinished(s)' = {} /\ frame'[s] = NoFrame /\ content'[s] = NoContent
    <3>1. t = s
      BY <1>2, <2>2, EndedSessionEffect
    <3>2. /\ frame'[s] = NoFrame /\ content'[s] = NoContent
          /\ \A i \in Inputs : i \notin Unfinished(s) => job'[i] = job[i]
          /\ \A i \in Unfinished(s) : job'[i].state = "done"
      BY <2>2, <3>1, EndingEffect
    <3> QED
      BY <3>2 DEF Unfinished, InState
  <2>3. ASSUME NEW t \in Sessions, NEW d \in Devices, Acquire(t, d)
        PROVE  FALSE
    BY <1>2, <2>3, AcquiredRowFields DEF Acquire, TypeInv, StoreTypeOK
  <2>4. ASSUME NEW t \in Sessions, NEW d \in Devices, AcquireExpired(t, d)
        PROVE  Unfinished(s)' = {} /\ frame'[s] = NoFrame /\ content'[s] = NoContent
    <3>1. PICK o \in Sessions : Replaced(o, t, d)
      BY <2>4, ReplacementEffect
    <3>2. o = s
      BY <1>2, <3>1, AcquiredRowFields DEF Replaced
    <3> QED
      BY <3>1, <3>2 DEF Replaced, Unfinished, InState
  <2> QED
    BY <2>1, <2>2, <2>3, <2>4, SessionCases
<1> QED
  BY <1>1, <1>2

-----------------------------------------------------------------------------
\* The rows follow the owner.

\* Only RegisterDevice changes who owns a device.
LEMMA OwnerCases ==
    ASSUME [Next]_vars
    PROVE  \/ UNCHANGED owner
           \/ \E p \in Procs, d \in Devices :
                 TakeDevice(p, d) /\ (RegisterIdleDevice(p, d) \/ RegisterHeldDevice(p, d))
<1>1. CASE RegistryStep
  BY <1>1 DEF RegistryStep, RegisterNode, ActivateNode, HeartbeatNode, DeactivateNode, Exit, Tick
<1>2. ASSUME NEW p \in Procs, NEW d \in Devices,
             RegisterIdleDevice(p, d) \/ RegisterHeldDevice(p, d)
      PROVE  TakeDevice(p, d)
  BY <1>2 DEF RegisterIdleDevice, RegisterHeldDevice
<1>3. ASSUME NEW s \in Sessions, NEW d \in Devices, Acquire(s, d) \/ AcquireExpired(s, d)
      PROVE  UNCHANGED nodeVars
  BY <1>3 DEF Acquire, AcquireExpired
<1>4. ASSUME NEW s \in Sessions,
             \/ EnqueueInput(s) \/ Heartbeat(s) \/ Cancel(s) \/ Reconnect(s) \/ Release(s)
             \/ MarkDisconnected(s) \/ ExpireSession(s) \/ SessionLapse(s)
      PROVE  UNCHANGED nodeVars
  BY <1>4 DEF EnqueueInput, Heartbeat, Cancel, Reconnect, Release, MarkDisconnected,
              ExpireSession, SessionLapse
<1>5. ASSUME NEW p \in Procs, NEW s \in Sessions, ClaimFrame(p, s)
      PROVE  UNCHANGED nodeVars
  BY <1>5 DEF ClaimFrame
<1>6. ASSUME NEW p \in Procs, NEW i \in Inputs,
             ClaimInput(p, i) \/ RecoverAmbiguousInput(p, i)
      PROVE  UNCHANGED nodeVars
  BY <1>6 DEF ClaimInput, RecoverAmbiguousInput
<1>7. ASSUME NEW w \in frameWork, NEW retryable \in BOOLEAN,
             CompleteFrame(w) \/ FailFrame(w, retryable)
      PROVE  UNCHANGED nodeVars
  BY <1>7 DEF CompleteFrame, FailFrame
<1>8. ASSUME NEW w \in inputWork, NEW type \in Outcomes,
             StartInput(w) \/ CompleteInput(w, type) \/ CompleteInputExpired(w)
      PROVE  UNCHANGED nodeVars
  BY <1>8 DEF StartInput, CompleteInput, CompleteInputExpired
<1>9. UNCHANGED vars => UNCHANGED nodeVars
  BY DEF vars, nodeVars
<1>10. UNCHANGED nodeVars => UNCHANGED owner
  BY DEF nodeVars
<1> QED
  BY <1>1, <1>2, <1>3, <1>4, <1>5, <1>6, <1>7, <1>8, <1>9, <1>10 DEF Next, SessionStep,
     ExecutionStep, Outcomes

LEMMA JobFitsStep ==
    ASSUME StoreCore, [Next]_vars, NEW s \in Sessions, NEW i \in Inputs, Open(s),
           ~Moved(s), session'[s].epoch = session[s].epoch
    PROVE  JobFits(s, i)'
<1> USE DEF StoreCore
<1>1. JobFits(s, i) /\ session[s].epoch \in Nat \ {0}
  <2>1. JobFits(s, i) /\ OwnerFits(s)
    BY DEF RowsFit
  <2>2. [node |-> session[s].node, epoch |-> session[s].epoch] \in Lease
    BY <2>1 DEF OwnerFits
  <2> QED
    BY <2>1, <2>2 DEF Lease
<1>2. CASE SameJob(i)
  BY <1>1, <1>2 DEF SameJob, JobFits
<1>3. CASE Enqueued(i)
  BY <1>3 DEF Enqueued, JobFits
<1>4. CASE Claimed(i)
  BY <1>1, <1>4 DEF Claimed, JobFits
<1>5. CASE Started(i) \/ Finished(i)
  BY <1>1, <1>5 DEF Started, Finished, JobFits
<1>6. CASE Readopted(i)
  <2>1. job[i].session # s /\ job'[i].session = job[i].session
    BY <1>6 DEF Readopted, Moved, ReadoptedJob, TypeInv, StoreTypeOK, JobRow
  <2> QED
    BY <2>1 DEF JobFits
<1> QED
  BY <1>2, <1>3, <1>4, <1>5, <1>6, JobCases DEF JobStep

LEMMA FrameFitsStep ==
    ASSUME StoreCore, [Next]_vars, NEW s \in Sessions, Open(s),
           ~Moved(s), session'[s].epoch = session[s].epoch
    PROVE  FrameFits(s)'
<1> USE DEF StoreCore
<1>0. FrameFits(s)
  BY DEF RowsFit
<1>1. ASSUME frame'[s] = frame[s] \/ frame'[s] = NoFrame \/ frame'[s] = FrameRequested(s)[s]
      PROVE  FrameFits(s)'
  BY <1>0, <1>1 DEF FrameFits, NoFrame, FrameRequested, PendingFrame, TypeInv, StoreTypeOK
<1>2. CASE UNCHANGED frame
  BY <1>1, <1>2
<1>3. ASSUME NEW t \in Sessions, frame' = FrameOwed(t) \/ frame' = FrameRequested(t)
      PROVE  FrameFits(s)'
  BY <1>1, <1>3 DEF FrameOwed, FrameRequested, TypeInv, StoreTypeOK
<1>4. ASSUME NEW t \in Sessions, Ending(t) PROVE FrameFits(s)'
  BY <1>1, <1>4, EndingEffect
<1>5. ASSUME NEW t \in Sessions, NEW d \in Devices, Acquire(t, d) PROVE FrameFits(s)'
  BY <1>1, <1>5 DEF Acquire, Open, OpenStatus, TypeInv, StoreTypeOK
<1>6. ASSUME NEW t \in Sessions, NEW d \in Devices, AcquireExpired(t, d) PROVE FrameFits(s)'
  <2>1. PICK o \in Sessions : Replaced(o, t, d)
    BY <1>6, ReplacementEffect
  <2>2. s # t
    BY <2>1 DEF Replaced, Open, OpenStatus
  <2> QED
    BY <1>1, <2>1, <2>2 DEF Replaced
<1>7. ASSUME NEW p \in Procs, NEW d \in Devices, RegisterHeldDevice(p, d) PROVE FrameFits(s)'
  BY <1>1, <1>7 DEF RegisterHeldDevice, Moved, TypeInv, StoreTypeOK
<1>8. ASSUME NEW p \in Procs, NEW t \in Sessions, ClaimFrame(p, t) PROVE FrameFits(s)'
  <2>1. /\ session[t].epoch = lease[p].epoch /\ frame[t].epoch = lease[p].epoch
        /\ frame' = [frame EXCEPT ![t].state = "claimed", ![t].claimedEpoch = lease[p].epoch,
                                  ![t].claimGen = frame[t].claimGen + 1]
    BY <1>8 DEF ClaimFrame, Serving
  <2> QED
    BY <1>1, <2>1 DEF FrameFits, TypeInv, StoreTypeOK, FrameRow
<1>9. ASSUME NEW w \in frameWork, CompleteFrame(w) PROVE FrameFits(s)'
  BY <1>1, <1>9 DEF CompleteFrame, TypeInv, StoreTypeOK
<1>10. ASSUME NEW w \in frameWork, NEW retryable \in BOOLEAN, FailFrame(w, retryable)
       PROVE  FrameFits(s)'
  <2>1. /\ frame[w.session].state = "claimed"
        /\ frame' = [frame EXCEPT ![w.session].state = AfterFailure(w, retryable),
                                  ![w.session].claimedEpoch = 0]
    BY <1>10 DEF FailFrame, FrameReportable
  <2>2. AfterFailure(w, retryable) \in {"pending", "blocked"}
    BY DEF AfterFailure
  <2> QED
    BY <1>0, <1>1, <2>1, <2>2 DEF FrameFits, TypeInv, StoreTypeOK, FrameRow
<1>11. ASSUME NEW t \in Sessions, Reconnect(t) PROVE frame' = FrameRequested(t)
  BY <1>11 DEF Reconnect
<1>12. ASSUME NEW w \in inputWork, NEW type \in Outcomes, CompleteInput(w, type)
       PROVE  \E t \in Sessions : frame' = FrameOwed(t)
  BY <1>12 DEF CompleteInput
<1>13. ASSUME NEW p \in Procs, NEW i \in Inputs, RecoverAmbiguousInput(p, i)
       PROVE  \E t \in Sessions : frame' = FrameOwed(t)
  BY <1>13 DEF RecoverAmbiguousInput
<1>14. ASSUME NEW t \in Sessions,
              \/ EnqueueInput(t) \/ Heartbeat(t) \/ Cancel(t) \/ MarkDisconnected(t)
              \/ SessionLapse(t)
       PROVE  UNCHANGED frame
  BY <1>14 DEF EnqueueInput, Heartbeat, Cancel, MarkDisconnected, SessionLapse
<1>15. ASSUME \/ \E p \in Procs, i \in Inputs : ClaimInput(p, i)
              \/ \E p \in Procs, d \in Devices : RegisterIdleDevice(p, d)
              \/ \E w \in inputWork : StartInput(w)
              \/ (RegistryStep /\ UNCHANGED sessionVars) \/ UNCHANGED vars
       PROVE  UNCHANGED frame
  BY <1>15 DEF ClaimInput, RegisterIdleDevice, StartInput, sessionVars, vars
<1>16. ASSUME \/ \E t \in Sessions : Release(t) \/ ExpireSession(t)
              \/ \E w \in inputWork : CompleteInputExpired(w)
       PROVE  \E t \in Sessions : Ending(t)
  BY <1>16, EndingCalls
<1> QED
  BY <1>2, <1>3, <1>4, <1>5, <1>6, <1>7, <1>8, <1>9, <1>10, <1>11, <1>12, <1>13, <1>14, <1>15,
     <1>16
  DEF Next, SessionStep, ExecutionStep

\* A session whose row the step leaves in place.
LEMMA KeptRowFits ==
    ASSUME StoreCore, [Next]_vars, NEW s \in Sessions, Open(s), ~Moved(s),
           session'[s].device = session[s].device, session'[s].node = session[s].node,
           session'[s].epoch = session[s].epoch
    PROVE  OwnerFits(s)' /\ FrameFits(s)' /\ \A i \in Inputs : JobFits(s, i)'
<1> USE DEF StoreCore
<1>1. OwnerFits(s) /\ session[s].device \in Devices
  BY DEF RowsFit, SessionsPlaced, Open, OpenStatus
<1>2. owner'[session[s].device] = owner[session[s].device]
  <2>1. CASE UNCHANGED owner
    BY <2>1
  <2>2. ASSUME NEW p \in Procs, NEW d \in Devices, TakeDevice(p, d),
               RegisterIdleDevice(p, d) \/ RegisterHeldDevice(p, d)
        PROVE  d # session[s].device
    <3>1. device[session[s].device].current = s
      BY <1>1 DEF DeviceHoldsItsSession
    <3>2. CASE RegisterIdleDevice(p, d)
      BY <3>1, <3>2, SessionStoreAssumption DEF RegisterIdleDevice, Unheld
    <3>3. CASE RegisterHeldDevice(p, d)
      BY <3>1, <3>3 DEF Moved
    <3> QED
      BY <2>2, <3>2, <3>3
  <2>3. ASSUME NEW p \in Procs, NEW d \in Devices, TakeDevice(p, d), d # session[s].device
        PROVE  owner'[session[s].device] = owner[session[s].device]
    BY <1>1, <2>3 DEF TakeDevice, TypeInv, StoreTypeOK, NodeTypeOK
  <2> QED
    BY <2>1, <2>2, <2>3, OwnerCases
<1>3. OwnerFits(s)'
  BY <1>1, <1>2 DEF OwnerFits
<1> QED
  BY <1>3, JobFitsStep, FrameFitsStep

\* A session that RegisterDevice moves to a new incarnation of its node.
LEMMA MovedRowFits ==
    ASSUME StoreCore, [Next]_vars, NEW s \in Sessions, Open(s), Moved(s)
    PROVE  OwnerFits(s)' /\ FrameFits(s)' /\ \A i \in Inputs : JobFits(s, i)'
<1> USE DEF StoreCore
<1>1. PICK p \in Procs, d \in Devices : RegisterHeldDevice(p, d) /\ device[d].current = s
  BY DEF Moved
<1>2. /\ LeaseLive(lease[p]) /\ owner' = [owner EXCEPT ![d] = lease[p]]
      /\ owner[d] # NoLease /\ owner[d].node = lease[p].node /\ session[s].node = lease[p].node
      /\ session' = [session EXCEPT ![s].epoch = lease[p].epoch]
      /\ job' = [i \in Inputs |-> IF i \in Unfinished(s)
                                  THEN ReadoptedJob(i, lease[p].epoch) ELSE job[i]]
      /\ frame' = [frame EXCEPT ![s] = ReadoptedFrame(s, lease[p].epoch)]
  BY <1>1 DEF RegisterHeldDevice, TakeDevice
<1>3. session[s].device = d
  BY <1>1 DEF DeviceHoldsItsSession
<1>4. lease[p] \in Lease
  BY <1>2 DEF LeaseLive, Current, TypeInv, StoreTypeOK, NodeTypeOK
<1>5. /\ session'[s].epoch = lease[p].epoch /\ session'[s].node = lease[p].node
      /\ session'[s].device = d
  BY <1>2, <1>3 DEF TypeInv, StoreTypeOK, SessionRow
<1>6. OwnerFits(s)'
  <2>1. owner'[d] = lease[p]
    BY <1>2 DEF TypeInv, StoreTypeOK, NodeTypeOK
  <2>2. lease[p] = [node |-> lease[p].node, epoch |-> lease[p].epoch]
    BY <1>4 DEF Lease
  <2> QED
    BY <1>4, <1>5, <2>1, <2>2 DEF OwnerFits
<1>7. FrameFits(s)'
  <2>1. frame'[s] = ReadoptedFrame(s, lease[p].epoch)
    BY <1>2 DEF TypeInv, StoreTypeOK
  <2>2. /\ ReadoptedFrame(s, lease[p].epoch).state # "claimed"
        /\ ReadoptedFrame(s, lease[p].epoch).state # "none" =>
              ReadoptedFrame(s, lease[p].epoch).epoch = lease[p].epoch
    BY DEF ReadoptedFrame, PendingFrame, NoFrame
  <2> QED
    BY <1>5, <2>1, <2>2 DEF FrameFits
<1>8. session[s].epoch \in Nat \ {0} /\ session[s].epoch <= lease[p].epoch
  <2>1. OwnerFits(s)
    BY DEF RowsFit
  <2>2. owner[d] = [node |-> session[s].node, epoch |-> session[s].epoch] /\ owner[d] \in Lease
    BY <1>3, <2>1 DEF OwnerFits
  <2>3. owner[d].epoch = session[s].epoch /\ session[s].epoch \in Nat \ {0}
    BY <2>2 DEF Lease
  <2>4. owner[d].epoch <= node[lease[p].node].epoch
    BY <1>2 DEF NodeInv, EpochsIssued
  <2>5. node[lease[p].node].epoch = lease[p].epoch
    BY <1>2 DEF LeaseLive, Current
  <2> QED
    BY <2>3, <2>4, <2>5
<1>9. ASSUME NEW i \in Inputs PROVE JobFits(s, i)'
  <2>1. JobFits(s, i)
    BY DEF RowsFit
  <2>2. CASE i \notin Unfinished(s)
    <3>1. job'[i] = job[i]
      BY <1>2, <2>2
    <3> QED
      BY <2>2, <3>1 DEF JobFits, Unfinished, InState
  <2>3. CASE i \in Unfinished(s) /\ job[i].state = "executing"
    <3>1. /\ job'[i].epoch = lease[p].epoch /\ job'[i].claimedEpoch = job[i].claimedEpoch
          /\ job'[i].state = "executing"
      BY <1>2, <2>3 DEF ReadoptedJob, TypeInv, StoreTypeOK, JobRow
    <3>2. job[i].claimedEpoch \in 1 .. session[s].epoch
      BY <2>1, <2>3 DEF JobFits, Unfinished, InState
    <3>3. lease[p].epoch \in Nat
      BY <1>4 DEF Lease
    <3> QED
      BY <1>5, <1>8, <3>1, <3>2, <3>3 DEF JobFits
  <2>4. CASE i \in Unfinished(s) /\ job[i].state # "executing"
    <3>1. job'[i].epoch = lease[p].epoch /\ job'[i].state = "pending"
      BY <1>2, <2>4 DEF ReadoptedJob, TypeInv, StoreTypeOK, JobRow
    <3> QED
      BY <1>5, <3>1 DEF JobFits
  <2> QED
    BY <2>2, <2>3, <2>4
<1> QED
  BY <1>6, <1>7, <1>9

\* A new session.
LEMMA AcquiredRowFits ==
    ASSUME StoreCore, [Next]_vars, NEW s \in Sessions, NEW d \in Devices,
           session[s].status = "none", Acquirable(d), UNCHANGED nodeVars,
           session'[s] = AcquiredRow(d), frame'[s] = PendingFrame(owner[d].epoch, 0)
    PROVE  OwnerFits(s)' /\ FrameFits(s)' /\ \A i \in Inputs : JobFits(s, i)'
<1> USE DEF StoreCore
<1>1. OwnerFits(s)'
  <2>1. owner[d] \in Lease
    BY DEF Acquirable, TypeInv, StoreTypeOK, NodeTypeOK
  <2>2. owner[d] = [node |-> owner[d].node, epoch |-> owner[d].epoch]
    BY <2>1 DEF Lease
  <2> QED
    BY <2>1, <2>2, AcquiredRowFields DEF OwnerFits, nodeVars
<1>2. FrameFits(s)'
  BY AcquiredRowFields DEF FrameFits, PendingFrame
<1>3. ASSUME NEW i \in Inputs PROVE JobFits(s, i)'
  <2>1. job[i].session # s
    BY SessionStoreAssumption DEF JobsPlaced
  <2>2. CASE Readopted(i)
    BY <2>1, <2>2 DEF Readopted, ReadoptedJob, JobFits, TypeInv, StoreTypeOK, JobRow
  <2>3. CASE ~Readopted(i)
    BY <2>1, <2>3, JobCases
    DEF JobStep, SameJob, Enqueued, Claimed, Started, Finished, JobFits
  <2> QED
    BY <2>2, <2>3
<1> QED
  BY <1>1, <1>2, <1>3

LEMMA RowsFitStep ==
    ASSUME StoreCore, [Next]_vars
    PROVE  RowsFit'
<1> USE DEF StoreCore
<1> SUFFICES ASSUME NEW s \in Sessions, Open(s)'
             PROVE  OwnerFits(s)' /\ FrameFits(s)' /\ \A i \in Inputs : JobFits(s, i)'
  BY DEF RowsFit
<1>1. CASE SessionsKept
  <2>1. Open(s)
    BY <1>1 DEF SessionsKept, Open
  <2>2. CASE Moved(s)
    BY <2>1, <2>2, MovedRowFits
  <2>3. CASE ~Moved(s)
    BY <1>1, <2>1, <2>3, KeptRowFits DEF SessionsKept
  <2> QED
    BY <2>2, <2>3
<1>2. ASSUME session'[s] = session[s], UNCHANGED nodeVars
      PROVE  OwnerFits(s)' /\ FrameFits(s)' /\ \A i \in Inputs : JobFits(s, i)'
  <2>1. Open(s)
    BY <1>2 DEF Open
  <2>2. CASE Moved(s)
    BY <2>1, <2>2, MovedRowFits
  <2>3. CASE ~Moved(s)
    BY <1>2, <2>1, <2>3, KeptRowFits
  <2> QED
    BY <2>2, <2>3
<1>3. ASSUME NEW t \in Sessions, Ending(t)
      PROVE  session'[s] = session[s] /\ UNCHANGED nodeVars
  <2>1. EndedRow(t) /\ \A u \in Sessions \ {t} : session'[u] = session[u]
    BY <1>3, EndedSessionEffect
  <2> QED
    BY <1>3, <2>1 DEF EndedRow, Open, OpenStatus, Ending
<1>4. ASSUME NEW t \in Sessions, NEW d \in Devices, Acquire(t, d)
      PROVE  OwnerFits(s)' /\ FrameFits(s)' /\ \A i \in Inputs : JobFits(s, i)'
  <2>1. /\ session[t].status = "none" /\ Acquirable(d) /\ UNCHANGED nodeVars
        /\ session'[t] = AcquiredRow(d) /\ frame'[t] = PendingFrame(owner[d].epoch, 0)
        /\ \A u \in Sessions \ {t} : session'[u] = session[u]
    BY <1>4 DEF Acquire, TypeInv, StoreTypeOK
  <2>2. CASE s = t
    BY <2>1, <2>2, AcquiredRowFits
  <2>3. CASE s # t
    BY <1>2, <2>1, <2>3
  <2> QED
    BY <2>2, <2>3
<1>5. ASSUME NEW t \in Sessions, NEW d \in Devices, AcquireExpired(t, d)
      PROVE  OwnerFits(s)' /\ FrameFits(s)' /\ \A i \in Inputs : JobFits(s, i)'
  <2>1. PICK o \in Sessions : Replaced(o, t, d)
    BY <1>5, ReplacementEffect
  <2>2. CASE s = t
    BY <2>1, <2>2, AcquiredRowFits DEF Replaced
  <2>3. CASE s # t
    <3>1. session'[o].status = "released"
      BY <2>1 DEF Replaced, TypeInv, StoreTypeOK, SessionRow
    <3>2. s # o
      BY <3>1 DEF Open, OpenStatus
    <3> QED
      BY <1>2, <2>1, <2>3, <3>2 DEF Replaced
  <2> QED
    BY <2>2, <2>3
<1> QED
  BY <1>1, <1>2, <1>3, <1>4, <1>5, SessionCases

-----------------------------------------------------------------------------
LEMMA StoreInvInit == Init => StoreInv
<1> SUFFICES ASSUME Init PROVE StoreInv
  OBVIOUS
<1>1. TypeInv
  BY TypeInit
<1>2. NodeInv
  BY NodeInvInit DEF Init
<1>3. \A s \in Sessions : session[s].status = "none"
  BY DEF Init, NoRow
<1>4. \A i \in Inputs : job[i].state = "none" /\ job[i].session = NoSession
  BY DEF Init, NoJob
<1>5. \A d \in Devices : device[d].current = NoSession
  BY DEF Init
<1>6. SessionsPlaced /\ JobsPlaced /\ GenerationsUnique /\ RowsFit /\ ReleaseDrains
  BY <1>3, <1>4
  DEF SessionsPlaced, JobsPlaced, GenerationsUnique, RowsFit, ReleaseDrains, Open, OpenStatus
<1>7. DeviceHoldsItsSession
  BY <1>3, <1>5, SessionStoreAssumption DEF DeviceHoldsItsSession, Open, OpenStatus
<1>8. OneInHand
  BY <1>4 DEF OneInHand, InState, InHand
<1> QED
  BY <1>1, <1>2, <1>6, <1>7, <1>8 DEF StoreInv, StoreCore

LEMMA StoreCoreStep == StoreCore /\ [Next]_vars => StoreCore'
<1> SUFFICES ASSUME StoreCore, [Next]_vars PROVE StoreCore'
  OBVIOUS
<1>1. TypeInv'
  BY TypeStep DEF StoreCore
<1>2. NodeInv'
  <2>1. [NodeNext]_nodeVars
    BY StoreStepIsRegistryStep DEF vars, nodeVars
  <2> QED
    BY <2>1, NodeInvStep DEF StoreCore
<1> QED
  BY <1>1, <1>2, PlacedStep, JobsPlacedStep, DeviceHoldsStep, GenerationsStep, RowsFitStep,
     ReleaseDrainsStep
  DEF StoreCore

LEMMA StoreInvStep == StoreInv /\ [Next]_vars => StoreInv'
  BY StoreCoreStep, OneInHandStep DEF StoreInv

LEMMA StoreInvariant == Spec => []StoreInv
  BY StoreInvInit, StoreInvStep, PTL DEF Spec

\* A device and its open session point at each other, whichever path a session ends
\* by: no device is held twice or left held.
THEOREM DeviceAndSession == Spec => []DeviceHoldsItsSession
<1>1. StoreInv => DeviceHoldsItsSession
  BY DEF StoreInv, StoreCore
<1> QED
  BY <1>1, StoreInvariant, PTL

\* No two sessions of a device share a lease generation.
THEOREM Generations == Spec => []GenerationsUnique
<1>1. StoreInv => GenerationsUnique
  BY DEF StoreInv, StoreCore
<1> QED
  BY <1>1, StoreInvariant, PTL

\* A session, its jobs and its claims carry the epoch of the device's owner, however
\* often nodes and devices change hands.
THEOREM EpochsAgree == Spec => []RowsFollowOwner
<1>1. StoreInv => RowsFollowOwner
  BY RowsFitFollowOwner DEF StoreInv, StoreCore
<1> QED
  BY <1>1, StoreInvariant, PTL

\* A released session has no unfinished input, frame job or stored frame.
THEOREM NothingLeftBehind == Spec => []ReleaseDrains
<1>1. StoreInv => ReleaseDrains
  BY DEF StoreInv, StoreCore
<1> QED
  BY <1>1, StoreInvariant, PTL

\* At most one input of a session is claimed or executing.
THEOREM OneInputAtATime == Spec => []SerialInputs
<1>1. StoreInv => SerialInputs
  <2> SUFFICES ASSUME StoreInv, NEW s \in Sessions
               PROVE  Cardinality(InState(s, {"claimed", "executing"})) <= 1
    BY DEF SerialInputs
  <2> DEFINE S == InState(s, {"claimed", "executing"})
  <2>1. \A i, j \in S : i = j
    BY DEF StoreInv, StoreCore, OneInHand, InHand
  <2>2. CASE S = {}
    BY <2>2, FS_EmptySet
  <2>3. CASE S # {}
    <3>1. PICK i \in S : TRUE
      BY <2>3
    <3>2. S = {i}
      BY <2>1, <3>1
    <3> QED
      BY <3>2, FS_Singleton
  <2> QED
    BY <2>2, <2>3
<1> QED
  BY <1>1, StoreInvariant, PTL

\* An input that has started is never queued or claimed again, and one that has its
\* outcome never changes.
THEOREM StartedOnce == Spec => NoRerun
<1> DEFINE A == \A i \in Inputs :
                   /\ job[i].state = "executing" => /\ job'[i].state \in {"executing", "done"}
                                                    /\ job'[i].claimGen = job[i].claimGen
                   /\ job[i].state = "done" => job'[i] = job[i]
<1>1. StoreInv /\ [Next]_vars => A
  <2> SUFFICES ASSUME StoreInv, [Next]_vars, NEW i \in Inputs
               PROVE  /\ job[i].state = "executing" =>
                            /\ job'[i].state \in {"executing", "done"}
                            /\ job'[i].claimGen = job[i].claimGen
                      /\ job[i].state = "done" => job'[i] = job[i]
    OBVIOUS
  <2>1. JobStep(i)
    BY JobCases DEF StoreInv, StoreCore
  <2>2. CASE Readopted(i)
    BY <2>2 DEF Readopted, ReadoptedJob, StoreInv, StoreCore, TypeInv, StoreTypeOK, JobRow
  <2> QED
    BY <2>1, <2>2 DEF JobStep, SameJob, Enqueued, Claimed, Started, Finished
<1>2. StoreInv /\ [Next]_vars => [A]_vars
  BY <1>1
<1>3. Spec => [][A]_vars
  BY <1>2, StoreInvariant, PTL DEF Spec
<1> QED
  BY <1>3 DEF NoRerun

\* An input starts only for the active, unexpired session that holds the device, by
\* the node that owns the device under a live lease.
THEOREM StartsUnderTheFence == Spec => StartedByLiveOwner
<1> DEFINE A == \A i \in Inputs : job[i].state # "executing" /\ job'[i].state = "executing" =>
                   LET s == job[i].session
                   IN  /\ session[s].status = "active" /\ ~session[s].expired
                       /\ OnCurrentDevice(s)
                       /\ LeaseLive(owner[session[s].device])
<1>1. StoreInv /\ [Next]_vars => A
  <2> SUFFICES ASSUME StoreInv, [Next]_vars, NEW i \in Inputs,
                      job[i].state # "executing", job'[i].state = "executing"
               PROVE  LET s == job[i].session
                      IN  /\ session[s].status = "active" /\ ~session[s].expired
                          /\ OnCurrentDevice(s)
                          /\ LeaseLive(owner[session[s].device])
    OBVIOUS
  <2>1. JobStep(i)
    BY JobCases DEF StoreInv, StoreCore
  <2>2. CASE Readopted(i)
    BY <2>2 DEF Readopted, ReadoptedJob, StoreInv, StoreCore, TypeInv, StoreTypeOK, JobRow
  <2>3. CASE Started(i)
    <3>1. PICK w \in inputWork : w.input = i /\ StartInput(w)
      BY <2>3 DEF Started
    <3> DEFINE s == job[i].session
    <3>2. /\ session[s].status = "active" /\ ~session[s].expired
          /\ OnCurrentDevice(s) /\ WorkLeaseLive(s, w) /\ session[s].epoch = w.epoch
      BY <3>1 DEF StartInput, StarterLive
    <3>3. owner[session[s].device] = [node |-> session[s].node, epoch |-> w.epoch]
      BY <3>2 DEF OnCurrentDevice
    <3>4. LeaseLive(owner[session[s].device])
      BY <3>2, <3>3 DEF WorkLeaseLive
    <3> QED
      BY <3>2, <3>4
  <2> QED
    BY <2>1, <2>2, <2>3 DEF JobStep, SameJob, Enqueued, Claimed, Finished
<1>2. StoreInv /\ [Next]_vars => [A]_vars
  BY <1>1
<1>3. Spec => [][A]_vars
  BY <1>2, StoreInvariant, PTL DEF Spec
<1> QED
  BY <1>3 DEF StartedByLiveOwner

\* No late call has an effect on a session that has been released.
THEOREM EndIsFinal == Spec => ReleasedIsFinal
<1> DEFINE A == \A s \in Sessions : session[s].status = "released" =>
                   /\ session'[s] = session[s]
                   /\ \A e \in events' \ events : e.session # s
                   /\ \A i \in Inputs : job[i].session = s => job'[i] = job[i]
<1>1. StoreInv /\ [Next]_vars => A
  <2> SUFFICES ASSUME StoreInv, [Next]_vars, NEW s \in Sessions, session[s].status = "released"
               PROVE  /\ session'[s] = session[s]
                      /\ \A e \in events' \ events : e.session # s
                      /\ \A i \in Inputs : job[i].session = s => job'[i] = job[i]
    OBVIOUS
  <2>1. Untouched(s)
    BY ReleasedStep DEF StoreInv
  <2>2. ASSUME NEW i \in Inputs, job[i].session = s PROVE job'[i] = job[i]
    <3>1. job[i].state = "done"
      <4>1. job[i].state # "none"
        BY <2>2, SessionStoreAssumption DEF StoreInv, StoreCore, JobsPlaced
      <4>2. job[i].state \notin {"pending", "claimed", "executing"}
        BY <2>2 DEF StoreInv, StoreCore, ReleaseDrains, Unfinished, InState
      <4> QED
        BY <4>1, <4>2 DEF StoreInv, StoreCore, TypeInv, StoreTypeOK, JobRow
    <3>2. JobStep(i)
      BY JobCases DEF StoreInv, StoreCore
    <3> QED
      BY <3>1, <3>2 DEF JobStep, SameJob, Enqueued, Claimed, Started, Finished, Readopted
  <2> QED
    BY <2>1, <2>2 DEF Untouched
<1>2. StoreInv /\ [Next]_vars => [A]_vars
  BY <1>1
<1>3. Spec => [][A]_vars
  BY <1>2, StoreInvariant, PTL DEF Spec
<1> QED
  BY <1>3 DEF ReleasedIsFinal

-----------------------------------------------------------------------------
(***************************************************************************)
(* The frames: what a step does to what a client is shown of the device.   *)
(***************************************************************************)
\* The step writes neither a frame nor an outcome to the log of s.
LogKept(s) == FramesOf(s)' = FramesOf(s) /\ InputOutcomes(s)' = InputOutcomes(s)

\* Nothing about s changes that FrameOwedOrShown asks about.
Quiet(s) ==
    /\ LogKept(s)
    /\ session'[s].status = "active" =>
          session[s].status = "active" /\ session'[s].stream = session[s].stream
    /\ frame'[s].state = "none" => frame[s].state = "none"

\* After the step s is not active, or has a frame job.
Owed(s) == session'[s].status # "active" \/ frame'[s].state # "none"

LEMMA PlainEventsKeepLog ==
    ASSUME NEW s, events \subseteq events',
           \A e \in events' \ events : e.session = s => e.type # "frame" /\ e.input = 0
    PROVE  LogKept(s)
  BY DEF LogKept, FramesOf, InputOutcomes, EventsOf

\* What a step does elsewhere is quiet here.
LEMMA ElsewhereIsQuiet ==
    ASSUME NEW s, events \subseteq events', \A e \in events' \ events : e.session # s,
           session'[s] = session[s], frame'[s] = frame[s]
    PROVE  Quiet(s)
<1>1. LogKept(s)
  BY PlainEventsKeepLog
<1> QED
  BY <1>1 DEF Quiet

LEMMA EndingIsOwed ==
    ASSUME TypeInv, NEW s \in Sessions, NEW t \in Sessions, Ending(t)
    PROVE  Quiet(s) \/ Owed(s)
<1>1. CASE s = t
  BY <1>1, EndedSessionEffect DEF EndedRow, Owed
<1>2. CASE s # t
  <2>1. session'[s] = session[s] /\ frame'[s] = frame[s]
    BY <1>2, EndingEffect
  <2>2. PICK First \in SUBSET Inputs, outcome \in {"completed", "cancelled", "error"} :
           events' = events \cup EndEvents(t, Unfinished(t), First, outcome)
    BY DEF Ending, End
  <2>3. \A e \in EndEvents(t, Unfinished(t), First, outcome) : e.session # s
    BY <1>2, EndEventsSession
  <2> QED
    BY <2>1, <2>2, <2>3, ElsewhereIsQuiet
<1> QED
  BY <1>1, <1>2

LEMMA AcquiredIsOwed ==
    ASSUME TypeInv, NEW s \in Sessions, NEW t \in Sessions, NEW d \in Devices,
           Acquire(t, d) \/ AcquireExpired(t, d)
    PROVE  Quiet(s) \/ Owed(s)
<1>1. PendingFrame(owner[d].epoch, 0).state # "none"
  BY DEF PendingFrame
<1>2. EventRow(t, 1, "acquired").session = t
  BY DEF EventRow
<1>3. CASE Acquire(t, d)
  <2>1. CASE s = t
    BY <1>1, <1>3, <2>1 DEF Acquire, Owed, TypeInv, StoreTypeOK
  <2>2. CASE s # t
    <3>1. session'[s] = session[s] /\ frame'[s] = frame[s]
      BY <1>3, <2>2 DEF Acquire, TypeInv, StoreTypeOK
    <3>2. events' = events \cup {EventRow(t, 1, "acquired")}
      BY <1>3 DEF Acquire
    <3> QED
      BY <1>2, <2>2, <3>1, <3>2, ElsewhereIsQuiet
  <2> QED
    BY <2>1, <2>2
<1>4. CASE AcquireExpired(t, d)
  <2>1. PICK o \in Sessions :
           /\ session[t].status = "none" /\ Open(o)
           /\ session' = [EndedSessions(o) EXCEPT ![t] = AcquiredRow(d)]
           /\ frame' = [frame EXCEPT ![o] = NoFrame, ![t] = PendingFrame(owner[d].epoch, 0)]
           /\ events' = events \cup EndEvents(o, Abandoned(o), {}, "error")
                               \cup {EventRow(t, 1, "acquired")}
    BY <1>4, Zenon DEF AcquireExpired
  <2>2. CASE s = t
    BY <1>1, <2>1, <2>2 DEF Owed, TypeInv, StoreTypeOK
  <2>3. CASE s = o /\ s # t
    <3>1. session'[s] = EndedSessions(s)[s]
      BY <2>1, <2>3 DEF EndedSessions, TypeInv, StoreTypeOK
    <3>2. EndedSessions(s)[s].status = "released"
      BY DEF EndedSessions, TypeInv, StoreTypeOK, SessionRow
    <3> QED
      BY <3>1, <3>2 DEF Owed
  <2>4. CASE s # o /\ s # t
    <3> DEFINE X == EndEvents(o, Abandoned(o), {}, "error") \cup {EventRow(t, 1, "acquired")}
    <3>1. session'[s] = session[s] /\ frame'[s] = frame[s]
      BY <2>1, <2>4 DEF EndedSessions, TypeInv, StoreTypeOK
    <3>2. \A e \in X : e.session # s
      BY <1>2, <2>4, EndEventsSession
    <3>3. events' = events \cup X
      BY <2>1
    <3> HIDE DEF X
    <3> QED
      BY <3>1, <3>2, <3>3, ElsewhereIsQuiet
  <2> QED
    BY <2>2, <2>3, <2>4
<1> QED
  BY <1>3, <1>4

\* Only FrameRequested, FrameOwed and the frame calls write a frame job of an open
\* session, and each leaves one, except CompleteFrame.
LEMMA OutcomeIsOwed ==
    ASSUME TypeInv, NEW s \in Sessions, NEW t \in Sessions, NEW i, NEW type, Outcome(t, i, type),
           frame' = FrameOwed(t), session' = session
    PROVE  Quiet(s) \/ Owed(s)
<1>1. CASE s = t
  <2>1. session[s].status = "active" => frame'[s] = PendingFrame(session[s].epoch, frame[s].claimGen)
    BY <1>1 DEF FrameOwed, FrameRequested, TypeInv, StoreTypeOK
  <2> QED
    BY <2>1 DEF PendingFrame, Owed
<1>2. CASE s # t
  <2>1. frame'[s] = frame[s]
    BY <1>2 DEF FrameOwed, FrameRequested, TypeInv, StoreTypeOK
  <2>2. events' = events \cup {OutcomeEvent(t, LastSeq(t) + 1, type, i)}
    BY DEF Outcome
  <2>3. OutcomeEvent(t, LastSeq(t) + 1, type, i).session = t
    BY DEF OutcomeEvent, EventRow
  <2> QED
    BY <1>2, <2>1, <2>2, <2>3, ElsewhereIsQuiet
<1> QED
  BY <1>1, <1>2

\* The calls of the clients and of the transport.
LEMMA ControlIsOwed ==
    ASSUME TypeInv, NEW s \in Sessions, NEW t \in Sessions,
           Heartbeat(t) \/ Cancel(t) \/ Reconnect(t) \/ MarkDisconnected(t)
    PROVE  Quiet(s) \/ Owed(s)
<1>1. \A n, type : EventRow(t, n, type).session = t /\ EventRow(t, n, type).type = type
                   /\ EventRow(t, n, type).input = 0
  BY DEF EventRow
<1>2. CASE Heartbeat(t)
  <2>1. events' = events \cup {EventRow(t, LastSeq(t) + 1, "heartbeat")}
        /\ session' = session /\ frame' = frame
    BY <1>2 DEF Heartbeat, Control
  <2>2. LogKept(s)
    BY <1>1, <2>1, PlainEventsKeepLog
  <2> QED
    BY <2>1, <2>2 DEF Quiet
<1>3. CASE (Cancel(t) \/ MarkDisconnected(t)) /\ s = t
  BY <1>3 DEF Cancel, MarkDisconnected, Owed, TypeInv, StoreTypeOK, SessionRow
<1>4. CASE Reconnect(t) /\ s = t
  BY <1>4 DEF Reconnect, FrameRequested, PendingFrame, Owed, TypeInv, StoreTypeOK
<1>5. CASE s # t /\ ~Heartbeat(t)
  <2>1. session'[s] = session[s] /\ frame'[s] = frame[s]
    BY <1>5 DEF Cancel, Reconnect, MarkDisconnected, FrameRequested, TypeInv, StoreTypeOK
  <2>2. events \subseteq events' /\ \A e \in events' \ events : e.session = t
    <3>1. CASE Cancel(t)
      <4>1. \A e \in OutcomeEvents(t, Queued(t), {}) : e.session = t
        BY DEF OutcomeEvents, OutcomeEvent, EventRow
      <4>2. events' = events \cup (OutcomeEvents(t, Queued(t), {}) \cup
               {EventRow(t, LastSeq(t) + Cardinality(Queued(t)) + 1, "cancelled")})
        BY <3>1 DEF Cancel
      <4> QED
        BY <1>1, <4>1, <4>2
    <3>2. CASE Reconnect(t) \/ MarkDisconnected(t)
      BY <1>1, <3>2 DEF Reconnect, MarkDisconnected, Control
    <3> QED
      BY <1>5, <3>1, <3>2
  <2> QED
    BY <1>5, <2>1, <2>2, ElsewhereIsQuiet
<1> QED
  BY <1>2, <1>3, <1>4, <1>5

\* Every step is quiet for a session, owes it a frame, or shows it one.
LEMMA FrameCases ==
    ASSUME TypeInv, [Next]_vars, NEW s \in Sessions
    PROVE  \/ Quiet(s) \/ Owed(s)
           \/ \E w \in frameWork : CompleteFrame(w) /\ w.session = s
<1>1. ASSUME UNCHANGED <<session, frame, events>> PROVE Quiet(s)
  BY <1>1 DEF Quiet, LogKept, FramesOf, InputOutcomes, EventsOf
<1>2. ASSUME NEW t \in Sessions, SessionLapse(t) PROVE Quiet(s)
  <2>1. LogKept(s) /\ frame' = frame
    BY <1>2 DEF SessionLapse, LogKept, FramesOf, InputOutcomes, EventsOf
  <2>2. session'[s].status = session[s].status /\ session'[s].stream = session[s].stream
    BY <1>2 DEF SessionLapse, TypeInv, StoreTypeOK, SessionRow
  <2> QED
    BY <2>1, <2>2 DEF Quiet
<1>3. ASSUME NEW p \in Procs, NEW d \in Devices, RegisterHeldDevice(p, d) PROVE Quiet(s)
  <2>1. PICK t \in Sessions : /\ session' = [session EXCEPT ![t].epoch = lease[p].epoch]
                              /\ frame' = [frame EXCEPT ![t] = ReadoptedFrame(t, lease[p].epoch)]
                              /\ events' = events
    BY <1>3 DEF RegisterHeldDevice
  <2>2. LogKept(s)
    BY <2>1 DEF LogKept, FramesOf, InputOutcomes, EventsOf
  <2>3. session'[s].status = session[s].status /\ session'[s].stream = session[s].stream
    BY <2>1 DEF TypeInv, StoreTypeOK, SessionRow
  <2>4. ReadoptedFrame(t, lease[p].epoch).state = "none" => frame[t].state = "none"
    BY DEF ReadoptedFrame, PendingFrame
  <2>5. frame'[s].state = "none" => frame[s].state = "none"
    BY <2>1, <2>4 DEF TypeInv, StoreTypeOK
  <2> QED
    BY <2>2, <2>3, <2>5 DEF Quiet
<1>4. ASSUME NEW p \in Procs, NEW t \in Sessions, ClaimFrame(p, t) PROVE Quiet(s) \/ Owed(s)
  <2>1. CASE s = t
    BY <1>4, <2>1 DEF ClaimFrame, Owed, TypeInv, StoreTypeOK, FrameRow
  <2>2. CASE s # t
    <3>1. session' = session /\ frame'[s] = frame[s] /\ events' = events
      BY <1>4, <2>2 DEF ClaimFrame, TypeInv, StoreTypeOK
    <3> QED
      BY <3>1 DEF Quiet, LogKept, FramesOf, InputOutcomes, EventsOf
  <2> QED
    BY <2>1, <2>2
<1>5. ASSUME NEW w \in frameWork, NEW retryable \in BOOLEAN, FailFrame(w, retryable)
      PROVE  Quiet(s) \/ Owed(s)
  <2>1. /\ events' = events \cup {EventRow(w.session, LastSeq(w.session) + 1, "error")}
        /\ frame' = [frame EXCEPT ![w.session].state = AfterFailure(w, retryable),
                                  ![w.session].claimedEpoch = 0]
        /\ session' = session
    BY <1>5 DEF FailFrame
  <2>2. CASE s = w.session
    BY <2>1, <2>2 DEF AfterFailure, Owed, TypeInv, StoreTypeOK, FrameRow
  <2>3. CASE s # w.session
    <3>1. EventRow(w.session, LastSeq(w.session) + 1, "error").session = w.session
      BY DEF EventRow
    <3>2. frame'[s] = frame[s]
      BY <2>1, <2>3 DEF TypeInv, StoreTypeOK
    <3> QED
      BY <2>1, <2>3, <3>1, <3>2, ElsewhereIsQuiet
  <2> QED
    BY <2>2, <2>3
<1>6. ASSUME NEW w \in frameWork, CompleteFrame(w), w.session # s PROVE Quiet(s)
  <2> DEFINE row == [EventRow(w.session, LastSeq(w.session) + 1, "frame") EXCEPT
                        !.stream = w.stream, !.frame = FrameSeq(w.session, w.stream) + 1]
  <2>1. events' = events \cup {row} /\ frame' = [frame EXCEPT ![w.session] = NoFrame]
        /\ session' = session
    BY <1>6 DEF CompleteFrame
  <2>2. row.session = w.session
    BY DEF EventRow
  <2> HIDE DEF row
  <2>3. frame'[s] = frame[s]
    BY <1>6, <2>1 DEF TypeInv, StoreTypeOK
  <2> QED
    BY <1>6, <2>1, <2>2, <2>3, ElsewhereIsQuiet
<1>7. ASSUME NEW w \in inputWork, NEW type \in Outcomes, CompleteInput(w, type)
      PROVE  Quiet(s) \/ Owed(s)
  BY <1>7, OutcomeIsOwed DEF CompleteInput
<1>8. ASSUME NEW p \in Procs, NEW i \in Inputs, RecoverAmbiguousInput(p, i)
      PROVE  Quiet(s) \/ Owed(s)
  BY <1>8, OutcomeIsOwed DEF RecoverAmbiguousInput
<1>9. ASSUME \/ \E p \in Procs, i \in Inputs : ClaimInput(p, i)
             \/ \E p \in Procs, d \in Devices : RegisterIdleDevice(p, d)
             \/ \E t \in Sessions : EnqueueInput(t)
             \/ \E w \in inputWork : StartInput(w)
             \/ (RegistryStep /\ UNCHANGED sessionVars) \/ UNCHANGED vars
      PROVE  UNCHANGED <<session, frame, events>>
  BY <1>9 DEF ClaimInput, RegisterIdleDevice, EnqueueInput, StartInput, sessionVars, vars
<1>10. ASSUME \/ \E t \in Sessions : Release(t) \/ ExpireSession(t)
              \/ \E w \in inputWork : CompleteInputExpired(w)
       PROVE  \E t \in Sessions : Ending(t)
  BY <1>10, EndingCalls
<1> QED
  BY <1>1, <1>2, <1>3, <1>4, <1>5, <1>6, <1>7, <1>8, <1>9, <1>10, EndingIsOwed, AcquiredIsOwed,
     ControlIsOwed
  DEF Next, SessionStep, ExecutionStep

\* A completed frame is the latest event of its session.
LEMMA CompletedFrameShows ==
    ASSUME TypeInv, NEW w \in frameWork, CompleteFrame(w), NEW s \in Sessions, w.session = s
    PROVE  \E e \in FramesOf(s)' : /\ \A f \in FramesOf(s)' : f.seq <= e.seq
                                   /\ e.stream = session'[s].stream
                                   /\ \A o \in InputOutcomes(s)' : o.seq < e.seq
<1> DEFINE row == [EventRow(s, LastSeq(s) + 1, "frame") EXCEPT
                      !.stream = w.stream, !.frame = FrameSeq(s, w.stream) + 1]
<1>1. events' = events \cup {row} /\ session' = session /\ session[s].stream = w.stream
  BY DEF CompleteFrame, FrameReportable, SameStreamAs
<1>2. PICK n \in Nat : n = LastSeq(s)
  BY SeqIsNat
<1>3. /\ row.session = s /\ row.seq = n + 1 /\ row.type = "frame" /\ row.input = 0
      /\ row.stream = w.stream
  BY <1>2 DEF EventRow
<1> HIDE DEF row
<1>4. \A e \in EventsOf(s) : e.seq \in Nat /\ e.seq <= n
  BY <1>2, SeqIsNat DEF EventsOf, TypeInv, StoreTypeOK, Event
<1>5. FramesOf(s)' = FramesOf(s) \cup {row}
  BY <1>1, <1>3 DEF FramesOf, EventsOf
<1>6. InputOutcomes(s)' = InputOutcomes(s)
  BY <1>1, <1>3 DEF InputOutcomes, EventsOf
<1>7. \A f \in FramesOf(s)' : f.seq <= row.seq
  BY <1>3, <1>4, <1>5 DEF FramesOf
<1>8. \A o \in InputOutcomes(s)' : o.seq < row.seq
  BY <1>3, <1>4, <1>6 DEF InputOutcomes
<1> QED
  BY <1>1, <1>3, <1>5, <1>7, <1>8

LEMMA FrameOwedStep ==
    ASSUME TypeInv, FrameOwedOrShown, [Next]_vars
    PROVE  FrameOwedOrShown'
<1> SUFFICES ASSUME NEW s \in Sessions, session'[s].status = "active", frame'[s].state = "none"
             PROVE  \E e \in FramesOf(s)' : /\ \A f \in FramesOf(s)' : f.seq <= e.seq
                                            /\ e.stream = session'[s].stream
                                            /\ \A o \in InputOutcomes(s)' : o.seq < e.seq
  BY DEF FrameOwedOrShown, LatestFrame
<1>1. CASE Quiet(s)
  <2>1. session[s].status = "active" /\ frame[s].state = "none"
    BY <1>1 DEF Quiet
  <2>2. PICK e \in FramesOf(s) : /\ \A f \in FramesOf(s) : f.seq <= e.seq
                                 /\ e.stream = session[s].stream
                                 /\ \A o \in InputOutcomes(s) : o.seq < e.seq
    BY <2>1 DEF FrameOwedOrShown, LatestFrame
  <2>3. FramesOf(s)' = FramesOf(s) /\ InputOutcomes(s)' = InputOutcomes(s)
        /\ session'[s].stream = session[s].stream
    BY <1>1 DEF Quiet, LogKept
  <2> QED
    BY <2>2, <2>3
<1>2. CASE Owed(s)
  BY <1>2 DEF Owed
<1> QED
  BY <1>1, <1>2, FrameCases, CompletedFrameShows

LEMMA FrameOwedInit == Init => FrameOwedOrShown
  BY DEF Init, FrameOwedOrShown, NoRow

\* Between two frames an active session owes the next one: its client is never left
\* with the picture of before an outcome, or of an earlier stream, and nothing to follow.
THEOREM FramesOwed == Spec => []FrameOwedOrShown
<1>1. StoreInv /\ FrameOwedOrShown /\ [Next]_vars => FrameOwedOrShown'
  BY FrameOwedStep DEF StoreInv, StoreCore
<1> QED
  BY <1>1, FrameOwedInit, StoreInvariant, PTL DEF Spec

-----------------------------------------------------------------------------
(***************************************************************************)
(* Inputs on fresh frames.  A claim asks for a session that owes no frame, *)
(* and while the claim stands none is asked for: that would take the       *)
(* outcome of another input of the session, or a new stream.               *)
(***************************************************************************)
Waiting == {"pending", "claimed"}
ClaimedWhenShown ==
    \A i \in Inputs, s \in Sessions : job[i].session = s /\ job[i].state \in Waiting =>
        /\ job[i].stream <= session[s].stream
        /\ job[i].state = "claimed" /\ job[i].stream = session[s].stream => frame[s].state = "none"

\* What can make a session owe a frame that owed none.
Asked(s) ==
    \/ session[s].status = "none"
    \/ session'[s].stream = session[s].stream + 1
    \/ InState(s, {"executing"}) # {}

LEMMA AskedCases ==
    ASSUME TypeInv, [Next]_vars, NEW s \in Sessions,
           frame[s].state = "none", frame'[s].state # "none"
    PROVE  Asked(s)
<1>1. frame'[s] # frame[s]
  OBVIOUS
<1>2. ASSUME NEW t \in Sessions, Ending(t) PROVE FALSE
  <2>1. frame'[t] = NoFrame /\ (s # t => frame'[s] = frame[s])
    BY <1>2, EndingEffect
  <2> QED
    BY <1>1, <2>1 DEF NoFrame
<1>3. ASSUME NEW t \in Sessions, NEW d \in Devices, Acquire(t, d) PROVE Asked(s)
  BY <1>1, <1>3 DEF Acquire, Asked, TypeInv, StoreTypeOK
<1>4. ASSUME NEW t \in Sessions, NEW d \in Devices, AcquireExpired(t, d) PROVE Asked(s)
  <2>1. PICK o \in Sessions : Replaced(o, t, d)
    BY <1>4, ReplacementEffect
  <2>2. s = t
    BY <1>1, <2>1 DEF Replaced, NoFrame
  <2> QED
    BY <2>1, <2>2 DEF Replaced, Asked
<1>5. ASSUME NEW p \in Procs, NEW d \in Devices, RegisterHeldDevice(p, d) PROVE FALSE
  <2>1. PICK t \in Sessions : frame' = [frame EXCEPT ![t] = ReadoptedFrame(t, lease[p].epoch)]
    BY <1>5 DEF RegisterHeldDevice
  <2>2. s = t /\ ReadoptedFrame(s, lease[p].epoch) = NoFrame
    BY <1>1, <2>1 DEF ReadoptedFrame, TypeInv, StoreTypeOK
  <2> QED
    BY <2>1, <2>2 DEF NoFrame, TypeInv, StoreTypeOK
<1>6. ASSUME NEW t \in Sessions, Reconnect(t) PROVE Asked(s)
  <2>1. s = t
    BY <1>1, <1>6 DEF Reconnect, FrameRequested, TypeInv, StoreTypeOK
  <2> QED
    BY <1>6, <2>1 DEF Reconnect, Asked, TypeInv, StoreTypeOK, SessionRow
<1>7. ASSUME NEW t \in Sessions, NEW i \in Inputs, frame' = FrameOwed(t), job[i].session = t,
             job[i].state = "executing"
      PROVE  Asked(s)
  <2>1. s = t
    BY <1>1, <1>7 DEF FrameOwed, FrameRequested, TypeInv, StoreTypeOK
  <2> QED
    BY <1>7, <2>1 DEF Asked, InState
<1>8. ASSUME NEW w \in inputWork, NEW type \in Outcomes, CompleteInput(w, type) PROVE Asked(s)
  <2>1. w.input \in Inputs
    BY DEF TypeInv, StoreTypeOK, InputWork
  <2> QED
    BY <1>7, <1>8, <2>1 DEF CompleteInput, Completable
<1>9. ASSUME NEW p \in Procs, NEW i \in Inputs, RecoverAmbiguousInput(p, i) PROVE Asked(s)
  BY <1>7, <1>9 DEF RecoverAmbiguousInput
<1>10. ASSUME NEW p \in Procs, NEW t \in Sessions, ClaimFrame(p, t) PROVE FALSE
  BY <1>1, <1>10 DEF ClaimFrame, TypeInv, StoreTypeOK
<1>11. ASSUME NEW w \in frameWork, NEW retryable \in BOOLEAN,
              CompleteFrame(w) \/ FailFrame(w, retryable)
       PROVE  FALSE
  BY <1>1, <1>11 DEF CompleteFrame, FailFrame, FrameReportable, TypeInv, StoreTypeOK
<1>12. ASSUME NEW t \in Sessions,
              \/ EnqueueInput(t) \/ Heartbeat(t) \/ Cancel(t) \/ MarkDisconnected(t)
              \/ SessionLapse(t)
       PROVE  UNCHANGED frame
  BY <1>12 DEF EnqueueInput, Heartbeat, Cancel, MarkDisconnected, SessionLapse
<1>13. ASSUME \/ \E p \in Procs, i \in Inputs : ClaimInput(p, i)
              \/ \E p \in Procs, d \in Devices : RegisterIdleDevice(p, d)
              \/ \E w \in inputWork : StartInput(w)
              \/ (RegistryStep /\ UNCHANGED sessionVars) \/ UNCHANGED vars
       PROVE  UNCHANGED frame
  BY <1>13 DEF ClaimInput, RegisterIdleDevice, StartInput, sessionVars, vars
<1>14. ASSUME \/ \E t \in Sessions : Release(t) \/ ExpireSession(t)
              \/ \E w \in inputWork : CompleteInputExpired(w)
       PROVE  \E t \in Sessions : Ending(t)
  BY <1>14, EndingCalls
<1> QED
  BY <1>1, <1>2, <1>3, <1>4, <1>5, <1>6, <1>8, <1>9, <1>10, <1>11, <1>12, <1>13, <1>14
  DEF Next, SessionStep, ExecutionStep

\* Streams only count up.
LEMMA StreamsCountUp ==
    ASSUME TypeInv, [Next]_vars, NEW s \in Sessions, session[s].status # "none"
    PROVE  session[s].stream \in Nat /\ session'[s].stream \in {session[s].stream, session[s].stream + 1}
<1>0. session[s].stream \in Nat
  BY DEF TypeInv, StoreTypeOK, SessionRow
<1>1. ASSUME NEW t \in Sessions, Ending(t) PROVE session'[s].stream = session[s].stream
  <2>1. session'[t] = [session[t] EXCEPT !.status = "released"]
        /\ \A r \in Sessions : r # t => session'[r] = session[r]
    BY <1>1, EndingEffect
  <2>2. session[t] \in SessionRow
    BY DEF TypeInv, StoreTypeOK
  <2> QED
    BY <2>1, <2>2 DEF SessionRow
<1>2. ASSUME NEW t \in Sessions, NEW d \in Devices, Acquire(t, d)
      PROVE  session'[s].stream = session[s].stream
  BY <1>2 DEF Acquire, TypeInv, StoreTypeOK
<1>3. ASSUME NEW t \in Sessions, NEW d \in Devices, AcquireExpired(t, d)
      PROVE  session'[s].stream = session[s].stream
  <2>1. PICK o \in Sessions : Replaced(o, t, d)
    BY <1>3, ReplacementEffect
  <2>2. session[o] \in SessionRow
    BY DEF TypeInv, StoreTypeOK
  <2>3. session'[o].stream = session[o].stream
    BY <2>1, <2>2 DEF Replaced, SessionRow
  <2> QED
    BY <2>1, <2>3 DEF Replaced
<1>4. ASSUME NEW p \in Procs, NEW d \in Devices, RegisterHeldDevice(p, d)
      PROVE  session'[s].stream = session[s].stream
  <2>1. PICK t \in Sessions : session' = [session EXCEPT ![t].epoch = lease[p].epoch]
    BY <1>4 DEF RegisterHeldDevice
  <2> QED
    BY <2>1 DEF TypeInv, StoreTypeOK, SessionRow
<1>5. ASSUME NEW t \in Sessions, Cancel(t) \/ MarkDisconnected(t) \/ SessionLapse(t)
      PROVE  session'[s].stream = session[s].stream
  BY <1>5 DEF Cancel, MarkDisconnected, SessionLapse, TypeInv, StoreTypeOK, SessionRow
<1>6. ASSUME NEW t \in Sessions, Reconnect(t)
      PROVE  session'[s].stream \in {session[s].stream, session[s].stream + 1}
  BY <1>6 DEF Reconnect, TypeInv, StoreTypeOK, SessionRow
<1>7. ASSUME \/ \E t \in Sessions : EnqueueInput(t) \/ Heartbeat(t)
             \/ \E p \in Procs, t \in Sessions : ClaimFrame(p, t)
             \/ \E p \in Procs, i \in Inputs : ClaimInput(p, i) \/ RecoverAmbiguousInput(p, i)
             \/ \E w \in frameWork : CompleteFrame(w)
             \/ \E w \in frameWork, retryable \in BOOLEAN : FailFrame(w, retryable)
             \/ \E w \in inputWork : StartInput(w)
             \/ \E w \in inputWork, type \in Outcomes : CompleteInput(w, type)
             \/ \E p \in Procs, d \in Devices : RegisterIdleDevice(p, d)
             \/ (RegistryStep /\ UNCHANGED sessionVars) \/ UNCHANGED vars
      PROVE  UNCHANGED session
  BY <1>7 DEF EnqueueInput, Heartbeat, ClaimFrame, ClaimInput, RecoverAmbiguousInput, CompleteFrame,
              FailFrame, StartInput, CompleteInput, RegisterIdleDevice, sessionVars, vars
<1>8. ASSUME \/ \E t \in Sessions : Release(t) \/ ExpireSession(t)
             \/ \E w \in inputWork : CompleteInputExpired(w)
      PROVE  \E t \in Sessions : Ending(t)
  BY <1>8, EndingCalls
<1> QED
  BY <1>0, <1>1, <1>2, <1>3, <1>4, <1>5, <1>6, <1>7, <1>8 DEF Next, SessionStep, ExecutionStep

LEMMA ClaimedWhenShownStep ==
    ASSUME StoreInv, ClaimedWhenShown, [Next]_vars
    PROVE  ClaimedWhenShown'
<1> USE DEF StoreInv, StoreCore
<1> SUFFICES ASSUME NEW i \in Inputs, NEW s \in Sessions, job'[i].session = s,
                    job'[i].state \in Waiting
             PROVE  /\ job'[i].stream <= session'[s].stream
                    /\ job'[i].state = "claimed" /\ job'[i].stream = session'[s].stream =>
                          frame'[s].state = "none"
  BY DEF ClaimedWhenShown
<1>1. JobStep(i)
  BY JobCases
<1>2. CASE SameJob(i)
  <2>1. /\ job[i].session = s /\ job[i].state \in Waiting /\ job[i].stream \in Nat
        /\ job[i].stream <= session[s].stream
        /\ job[i].state = "claimed" /\ job[i].stream = session[s].stream => frame[s].state = "none"
    BY <1>2 DEF SameJob, ClaimedWhenShown, TypeInv, StoreTypeOK, JobRow
  <2>2. session[s].status # "none"
    BY <2>1 DEF Waiting, JobsPlaced
  <2>3. /\ session[s].stream \in Nat
        /\ session'[s].stream \in {session[s].stream, session[s].stream + 1}
    BY <2>2, StreamsCountUp
  <2>4. ASSUME job'[i].state = "claimed", job'[i].stream = session'[s].stream,
               frame'[s].state # "none"
        PROVE  FALSE
    <3>1. job[i].state = "claimed" /\ session'[s].stream = session[s].stream
          /\ job[i].stream = session[s].stream
      BY <1>2, <2>1, <2>3, <2>4 DEF SameJob
    <3>2. Asked(s)
      BY <2>1, <2>4, <3>1, AskedCases
    <3>3. InState(s, {"executing"}) # {}
      BY <2>2, <2>3, <3>1, <3>2 DEF Asked
    <3>4. PICK j \in Inputs : job[j].session = s /\ job[j].state = "executing"
      BY <3>3 DEF InState
    <3>5. i = j
      BY <2>1, <3>1, <3>4 DEF OneInHand, InState, InHand
    <3> QED
      BY <3>1, <3>4, <3>5
  <2> QED
    BY <1>2, <2>1, <2>3, <2>4 DEF SameJob
<1>3. CASE Enqueued(i)
  <2>1. job'[i].stream = session[s].stream /\ session' = session /\ job'[i].state = "pending"
    BY <1>3 DEF Enqueued
  <2> QED
    BY <2>1 DEF TypeInv, StoreTypeOK, SessionRow
<1>4. CASE Claimed(i)
  <2>1. /\ job[i].session = s /\ job[i].state \in Waiting /\ session' = session
        /\ job'[i].stream = job[i].stream /\ frame'[s].state = "none"
    BY <1>4 DEF Claimed, KeepsFrame, Waiting
  <2> QED
    BY <2>1 DEF ClaimedWhenShown
<1>5. CASE Started(i) \/ Finished(i)
  BY <1>5 DEF Started, Finished, Waiting
<1>6. CASE Readopted(i)
  <2>1. PICK p \in Procs, d \in Devices :
           /\ job[i].session \in Sessions /\ job[i].state \in {"pending", "claimed", "executing"}
           /\ job'[i] = ReadoptedJob(i, lease[p].epoch)
    BY <1>6 DEF Readopted
  <2>2. job[i] \in JobRow
    BY DEF TypeInv, StoreTypeOK
  <2>3. /\ job[i].session = s /\ job[i].state \in Waiting /\ job'[i].state = "pending"
        /\ job'[i].stream = job[i].stream /\ job[i].stream \in Nat
    BY <2>1, <2>2 DEF ReadoptedJob, JobRow, Waiting
  <2>4. job[i].stream <= session[s].stream
    BY <2>3 DEF ClaimedWhenShown
  <2>5. session[s].status # "none"
    BY <2>3 DEF Waiting, JobsPlaced
  <2> QED
    BY <2>3, <2>4, <2>5, StreamsCountUp
<1> QED
  BY <1>1, <1>2, <1>3, <1>4, <1>5, <1>6 DEF JobStep

FreshInv == StoreInv /\ FrameOwedOrShown /\ ClaimedWhenShown

LEMMA FreshInvariant == Spec => []FreshInv
<1>1. Init => FreshInv
  BY StoreInvInit, FrameOwedInit DEF FreshInv, Init, NoJob, ClaimedWhenShown, Waiting
<1>2. FreshInv /\ [Next]_vars => FreshInv'
  BY StoreInvStep, FrameOwedStep, ClaimedWhenShownStep DEF FreshInv, StoreInv, StoreCore
<1> QED
  BY <1>1, <1>2, PTL DEF Spec

\* With atomic claims an input starts only on the latest frame, recorded after the
\* outcome of every earlier input of its session: nothing is done to a screen the client
\* has not seen.  (Claim statements that overlap break this: the run claim_race.)
THEOREM StartsFresh == Spec => StartsOnFreshFrame
<1> DEFINE A == \A i \in Inputs : job[i].state # "executing" /\ job'[i].state = "executing" =>
                   \E e \in FramesOf(job[i].session) :
                      /\ LatestFrame(job[i].session, e)
                      /\ e.stream = job[i].stream /\ e.frame = job[i].frame
                      /\ \A o \in InputOutcomes(job[i].session) : o.seq < e.seq
<1>1. FreshInv /\ [Next]_vars => A
  <2> SUFFICES ASSUME FreshInv, [Next]_vars, NEW i \in Inputs,
                      job[i].state # "executing", job'[i].state = "executing"
               PROVE  \E e \in FramesOf(job[i].session) :
                         /\ LatestFrame(job[i].session, e)
                         /\ e.stream = job[i].stream /\ e.frame = job[i].frame
                         /\ \A o \in InputOutcomes(job[i].session) : o.seq < e.seq
    OBVIOUS
  <2>0. TypeInv
    BY DEF FreshInv, StoreInv, StoreCore
  <2>1. Started(i)
    <3>1. ~Readopted(i)
      BY <2>0 DEF Readopted, ReadoptedJob, TypeInv, StoreTypeOK, JobRow
    <3> QED
      BY <2>0, <3>1, JobCases DEF JobStep, SameJob, Enqueued, Claimed, Finished
  <2>2. PICK s \in Sessions : /\ job[i].session = s /\ session[s].status = "active"
                              /\ session[s].stream = job[i].stream /\ OnLatestFrame(s, i)
                              /\ job[i].state = "claimed"
    BY <2>1 DEF Started, StartInput
  <2>3. frame[s].state = "none"
    BY <2>2 DEF FreshInv, ClaimedWhenShown, Waiting
  <2>4. PICK e \in FramesOf(s) : LatestFrame(s, e) /\ \A o \in InputOutcomes(s) : o.seq < e.seq
    BY <2>2, <2>3 DEF FreshInv, FrameOwedOrShown
  <2>5. PICK g \in FramesOf(s) : LatestFrame(s, g) /\ g.stream = job[i].stream
                                 /\ g.frame = job[i].frame
    BY <2>2 DEF OnLatestFrame
  <2>6. e.seq \in Nat /\ g.seq \in Nat
    BY <2>0, <2>4, <2>5 DEF FramesOf, EventsOf, TypeInv, StoreTypeOK, Event
  <2>7. e.seq = g.seq
    BY <2>4, <2>5, <2>6 DEF LatestFrame
  <2> QED
    BY <2>2, <2>4, <2>5, <2>7
<1>2. FreshInv /\ [Next]_vars => [A]_vars
  BY <1>1
<1>3. Spec => [][A]_vars
  BY <1>2, FreshInvariant, PTL DEF Spec
<1> QED
  BY <1>3 DEF StartsOnFreshFrame

-----------------------------------------------------------------------------
(***************************************************************************)
(* The log: what a step appends to the log of one session.                 *)
(***************************************************************************)
RowStays(s) == session'[s].status = session[s].status /\ session'[s].stream = session[s].stream

\* The step writes nothing about s.
Unlogged(s) == EventsOf(s)' = EventsOf(s) /\ RowStays(s)

\* The last event a step writes, and the row it leaves.
Fits(s, e) ==
    \/ /\ e.type = "acquired" /\ session[s].status = "none"
       /\ session'[s].status = "active" /\ session'[s].stream = 1
    \/ /\ e.type = "frame" /\ session[s].status = "active" /\ RowStays(s)
       /\ e.stream = session[s].stream /\ e.frame = FrameSeq(s, e.stream) + 1
    \/ /\ e.type = "input_ack" /\ session[s].status \in {"active", "disconnected"} /\ RowStays(s)
       /\ e.input \in Inputs /\ job[e.input].session = s /\ job[e.input].state = "executing"
    \/ e.type = "heartbeat" /\ session[s].status = "active" /\ RowStays(s)
    \/ /\ e.type = "disconnected" /\ session[s].status = "active"
       /\ session'[s].status = "disconnected" /\ session'[s].stream = session[s].stream
    \/ /\ e.type = "reconnected" /\ session[s].status = "disconnected"
       /\ session'[s].status = "active" /\ session'[s].stream = session[s].stream + 1
    \/ /\ e.type = "cancelled" /\ session[s].status \in {"active", "disconnected"}
       /\ session'[s].status = "cancelled" /\ session'[s].stream = session[s].stream
    \/ /\ e.type = "released" /\ Open(s) /\ e.outcome \in {"error", ReleaseOutcome(s)}
       /\ session'[s].status = "released" /\ session'[s].stream = session[s].stream
    \/ e.type = "error" /\ Open(s) /\ RowStays(s)

\* It appends the outcomes of D, in their places, and e after them.
Appended(s, D, First, e) ==
    /\ EventsOf(s)' = EventsOf(s) \cup OutcomeEvents(s, D, First) \cup {e}
    /\ e.session = s /\ e.seq = LastSeq(s) + Cardinality(D) + 1
    /\ D # {} => Open(s)
    /\ Fits(s, e)

LogStep(s) ==
    \/ Unlogged(s)
    \/ \E D, First \in SUBSET Inputs, e \in events' : Appended(s, D, First, e)

LEMMA AppendedLogged ==
    ASSUME NEW s, NEW D \in SUBSET Inputs, NEW First \in SUBSET Inputs, NEW e \in events',
           Appended(s, D, First, e)
    PROVE  LogStep(s)
  BY DEF LogStep

LEMMA OneAppended ==
    ASSUME TypeInv, NEW s \in Sessions, NEW e, events' = events \cup {e}, e.session = s,
           e.seq = LastSeq(s) + 1, Fits(s, e)
    PROVE  LogStep(s)
<1>1. OutcomeEvents(s, {}, {}) = {} /\ Cardinality({}) = 0
  BY FS_EmptySet DEF OutcomeEvents
<1>2. EventsOf(s)' = EventsOf(s) \cup {e}
  BY DEF EventsOf
<1>3. e.seq = LastSeq(s) + Cardinality({}) + 1
  BY <1>1, SeqIsNat
<1>4. Appended(s, {}, {}, e)
  BY <1>1, <1>2, <1>3 DEF Appended
<1>5. {} \in SUBSET Inputs /\ e \in events'
  OBVIOUS
<1> QED
  BY <1>4, <1>5 DEF LogStep

LEMMA NothingAppended ==
    ASSUME NEW s, events \subseteq events', \A e \in events' \ events : e.session # s, RowStays(s)
    PROVE  LogStep(s)
<1>1. EventsOf(s)' = EventsOf(s)
  BY DEF EventsOf
<1> QED
  BY <1>1 DEF LogStep, Unlogged

\* The end of s, whoever ends it.
LEMMA EndAppended ==
    ASSUME TypeInv, NEW s \in Sessions, Open(s), NEW D \in SUBSET Inputs,
           NEW First \in SUBSET Inputs, NEW outcome \in {"error", ReleaseOutcome(s)},
           events \cup EndEvents(s, D, First, outcome) \subseteq events',
           \A e \in events' : \/ e \in events \cup EndEvents(s, D, First, outcome)
                             \/ e.session # s,
           session'[s] = [session[s] EXCEPT !.status = "released"]
    PROVE  LogStep(s)
<1> DEFINE e == ReleasedEvent(s, D, outcome)
<1>1. /\ e.session = s /\ e.type = "released" /\ e.outcome = outcome
      /\ e.seq = LastSeq(s) + Cardinality(D) + 1
  BY DEF ReleasedEvent, ReleasedSeq, EventRow
<1>2. \A x \in OutcomeEvents(s, D, First) : x.session = s
  BY DEF OutcomeEvents, OutcomeEvent, EventRow
<1>3. /\ events \cup OutcomeEvents(s, D, First) \cup {e} \subseteq events'
      /\ \A x \in events' : \/ x \in events \cup OutcomeEvents(s, D, First) \cup {e}
                            \/ x.session # s
  BY DEF EndEvents
<1> HIDE DEF e
<1>4. EventsOf(s)' = EventsOf(s) \cup OutcomeEvents(s, D, First) \cup {e}
  BY <1>1, <1>2, <1>3 DEF EventsOf
<1>5. session'[s].status = "released" /\ session'[s].stream = session[s].stream
  BY DEF TypeInv, StoreTypeOK, SessionRow
<1>6. Appended(s, D, First, e)
  BY <1>1, <1>4, <1>5 DEF Appended, Fits
<1>7. e \in events'
  BY <1>3
<1> QED
  BY <1>6, <1>7, AppendedLogged

LEMMA EndingLogged ==
    ASSUME TypeInv, NEW s \in Sessions, NEW t \in Sessions, Ending(t)
    PROVE  LogStep(s)
<1>1. PICK First \in SUBSET Inputs, outcome \in {"error", ReleaseOutcome(t)} :
         events' = events \cup EndEvents(t, Unfinished(t), First, outcome)
  BY DEF Ending, End
<1>2. Open(t) /\ session'[t] = [session[t] EXCEPT !.status = "released"]
      /\ (s # t => session'[s] = session[s])
  BY EndingEffect
<1>3. CASE s = t
  <2>1. Unfinished(t) \in SUBSET Inputs
    BY DEF Unfinished, InState
  <2>2. LogStep(t)
    BY <1>1, <1>2, <2>1, EndAppended
  <2> QED
    BY <1>3, <2>2
<1>4. CASE s # t
  <2>1. \A e \in EndEvents(t, Unfinished(t), First, outcome) : e.session # s
    BY <1>4, EndEventsSession
  <2> QED
    BY <1>1, <1>2, <1>4, <2>1, NothingAppended DEF RowStays
<1> QED
  BY <1>3, <1>4

\* A session that has not been acquired has no log.
Unborn == \A s \in Sessions : session[s].status = "none" => EventsOf(s) = {}

LEMMA EmptyLog ==
    ASSUME NEW s, EventsOf(s) = {}
    PROVE  LastSeq(s) = 0
<1>1. {e.seq : e \in EventsOf(s)} \cup {0} = {0}
  OBVIOUS
<1>2. Max({0}) \in {0}
  <2>1. {0} \in SUBSET Nat /\ {0} # {} /\ 0 \in Nat /\ \A x \in {0} : x <= 0
    OBVIOUS
  <2> QED
    BY <2>1, MaxOfNaturals
<1> QED
  BY <1>1, <1>2 DEF LastSeq

LEMMA AcquiredLogged ==
    ASSUME TypeInv, Unborn, NEW s \in Sessions, NEW t \in Sessions, NEW d \in Devices,
           Acquire(t, d) \/ AcquireExpired(t, d)
    PROVE  LogStep(s)
<1> DEFINE first == EventRow(t, 1, "acquired")
<1>1. /\ first.session = t /\ first.seq = 1 /\ first.type = "acquired"
      /\ AcquiredRow(d).status = "active" /\ AcquiredRow(d).stream = 1
  BY DEF EventRow, AcquiredRow
<1> HIDE DEF first
<1>2. session[t].status = "none" => LastSeq(t) = 0
  BY EmptyLog DEF Unborn
<1>3. CASE Acquire(t, d)
  <2>1. /\ events' = events \cup {first} /\ session' = [session EXCEPT ![t] = AcquiredRow(d)]
        /\ session[t].status = "none"
    BY <1>3 DEF Acquire, first
  <2>2. CASE s # t
    BY <1>1, <2>1, <2>2, NothingAppended DEF RowStays, TypeInv, StoreTypeOK
  <2>3. CASE s = t
    <3>1. session'[s] = AcquiredRow(d)
      BY <2>1, <2>3 DEF TypeInv, StoreTypeOK
    <3>2. Fits(s, first)
      BY <1>1, <2>1, <2>3, <3>1 DEF Fits
    <3>3. first.seq = LastSeq(s) + 1
      BY <1>1, <1>2, <2>1, <2>3
    <3> QED
      BY <1>1, <2>1, <2>3, <3>2, <3>3, OneAppended
  <2> QED
    BY <2>2, <2>3
<1>4. CASE AcquireExpired(t, d)
  <2>1. PICK o \in Sessions :
           /\ session[t].status = "none" /\ Open(o)
           /\ session' = [EndedSessions(o) EXCEPT ![t] = AcquiredRow(d)]
           /\ events' = (events \cup EndEvents(o, Abandoned(o), {}, "error")) \cup {first}
    BY <1>4, Zenon DEF AcquireExpired, first
  <2>2. o # t
    BY <2>1 DEF Open, OpenStatus
  <2>3. \A e \in EndEvents(o, Abandoned(o), {}, "error") : e.session = o
    BY EndEventsSession
  <2>4. CASE s = t
    <3>1. session'[s] = AcquiredRow(d)
      BY <2>1, <2>4 DEF EndedSessions, TypeInv, StoreTypeOK
    <3>2. Fits(s, first)
      BY <1>1, <2>1, <2>4, <3>1 DEF Fits
    <3>3. EventsOf(s)' = EventsOf(s) \cup OutcomeEvents(s, {}, {}) \cup {first}
      <4>1. OutcomeEvents(s, {}, {}) = {}
        BY DEF OutcomeEvents
      <4> QED
        BY <1>1, <2>1, <2>2, <2>3, <2>4, <4>1 DEF EventsOf
    <3>4. first.session = s /\ first.seq = LastSeq(s) + Cardinality({}) + 1
      BY <1>1, <1>2, <2>1, <2>4, FS_EmptySet
    <3>5. Appended(s, {}, {}, first)
      BY <3>2, <3>3, <3>4 DEF Appended
    <3>6. {} \in SUBSET Inputs /\ first \in events'
      BY <2>1
    <3> QED
      BY <3>5, <3>6, AppendedLogged
  <2>5. CASE s = o
    <3>1. session'[s] = [session[s] EXCEPT !.status = "released"]
      BY <2>1, <2>2, <2>5 DEF EndedSessions, TypeInv, StoreTypeOK, SessionRow
    <3>2. Abandoned(s) \in SUBSET Inputs /\ {} \in SUBSET Inputs
      BY DEF Abandoned, Unfinished, InState
    <3>3. first.session # s
      BY <1>1, <2>2, <2>5
    <3>4. /\ Open(s) /\ "error" \in {"error", ReleaseOutcome(s)}
          /\ events' = (events \cup EndEvents(s, Abandoned(s), {}, "error")) \cup {first}
      BY <2>1, <2>5
    <3> QED
      BY <3>1, <3>2, <3>3, <3>4, EndAppended
  <2>6. CASE s # o /\ s # t
    <3>1. session'[s] = session[s]
      BY <2>1, <2>6 DEF EndedSessions, TypeInv, StoreTypeOK
    <3>2. events \subseteq events' /\ \A e \in events' \ events : e.session \in {o, t}
      BY <1>1, <2>1, <2>3
    <3> QED
      BY <2>6, <3>1, <3>2, NothingAppended DEF RowStays
  <2> QED
    BY <2>4, <2>5, <2>6
<1> QED
  BY <1>3, <1>4

\* The calls that write one event of t, and leave the other sessions alone.
LEMMA OneEventLogged ==
    ASSUME TypeInv, NEW s \in Sessions, NEW t \in Sessions, NEW e, events' = events \cup {e},
           e.session = t, e.seq = LastSeq(t) + 1, Fits(t, e), s # t => session'[s] = session[s]
    PROVE  LogStep(s)
<1>1. CASE s = t
  BY <1>1, OneAppended
<1>2. CASE s # t
  BY <1>2, NothingAppended DEF RowStays
<1> QED
  BY <1>1, <1>2

LEMMA CancelLogged ==
    ASSUME TypeInv, NEW s \in Sessions, NEW t \in Sessions, Cancel(t)
    PROVE  LogStep(s)
<1> DEFINE last == EventRow(t, LastSeq(t) + Cardinality(Queued(t)) + 1, "cancelled")
<1>1. /\ last.session = t /\ last.type = "cancelled"
      /\ last.seq = LastSeq(t) + Cardinality(Queued(t)) + 1
  BY DEF EventRow
<1>2. \A x \in OutcomeEvents(t, Queued(t), {}) : x.session = t
  BY DEF OutcomeEvents, OutcomeEvent, EventRow
<1>3. events' = (events \cup OutcomeEvents(t, Queued(t), {})) \cup {last}
  BY DEF Cancel
<1> HIDE DEF last
<1>4. /\ session' = [session EXCEPT ![t].status = "cancelled"]
      /\ session[t].status \in {"active", "disconnected"}
  BY DEF Cancel, Applicable
<1>5. CASE s = t
  <2>1. EventsOf(s)' = EventsOf(s) \cup OutcomeEvents(s, Queued(s), {}) \cup {last}
    BY <1>1, <1>2, <1>3, <1>5 DEF EventsOf
  <2>2. session'[s].status = "cancelled" /\ session'[s].stream = session[s].stream
    BY <1>4, <1>5 DEF TypeInv, StoreTypeOK, SessionRow
  <2>3. Appended(s, Queued(s), {}, last)
    BY <1>1, <1>4, <1>5, <2>1, <2>2 DEF Appended, Fits, Open, OpenStatus
  <2>4. Queued(s) \in SUBSET Inputs /\ {} \in SUBSET Inputs /\ last \in events'
    BY <1>3 DEF Queued, InState
  <2> QED
    BY <2>3, <2>4 DEF LogStep
<1>6. CASE s # t
  BY <1>1, <1>2, <1>3, <1>4, <1>6, NothingAppended DEF RowStays, TypeInv, StoreTypeOK
<1> QED
  BY <1>5, <1>6

LEMMA LogCases ==
    ASSUME StoreCore, Unborn, [Next]_vars, NEW s \in Sessions
    PROVE  LogStep(s)
<1> USE DEF StoreCore
<1>1. ASSUME UNCHANGED <<session, events>> PROVE LogStep(s)
  BY <1>1, NothingAppended DEF RowStays
<1>2. \A t, n, type : /\ EventRow(t, n, type).session = t /\ EventRow(t, n, type).seq = n
                      /\ EventRow(t, n, type).type = type
  BY DEF EventRow
<1>3. ASSUME NEW t \in Sessions, Heartbeat(t) PROVE LogStep(s)
  <2>1. /\ events' = events \cup {EventRow(t, LastSeq(t) + 1, "heartbeat")}
        /\ session[t].status = "active" /\ session' = session
    BY <1>3 DEF Heartbeat, Control, Applicable
  <2>2. Fits(t, EventRow(t, LastSeq(t) + 1, "heartbeat"))
    BY <1>2, <2>1 DEF Fits, RowStays
  <2> QED
    BY <1>2, <2>1, <2>2, OneEventLogged
<1>4. ASSUME NEW t \in Sessions, Reconnect(t) PROVE LogStep(s)
  <2> DEFINE e == EventRow(t, LastSeq(t) + 1, "reconnected")
  <2>0. e.session = t /\ e.seq = LastSeq(t) + 1 /\ e.type = "reconnected"
    BY <1>2
  <2>1. /\ events' = events \cup {e}
        /\ session[t].status = "disconnected"
        /\ session' = [session EXCEPT ![t].status = "active", ![t].stream = session[t].stream + 1]
    BY <1>4 DEF Reconnect, Control, Applicable
  <2>2. /\ session'[t].status = "active" /\ session'[t].stream = session[t].stream + 1
        /\ (s # t => session'[s] = session[s])
    BY <2>1 DEF TypeInv, StoreTypeOK, SessionRow
  <2> HIDE DEF e
  <2>3. Fits(t, e)
    BY <2>0, <2>1, <2>2 DEF Fits
  <2> QED
    BY <2>0, <2>1, <2>2, <2>3, OneEventLogged
<1>5. ASSUME NEW t \in Sessions, MarkDisconnected(t) PROVE LogStep(s)
  <2>1. /\ events' = events \cup {EventRow(t, LastSeq(t) + 1, "disconnected")}
        /\ session[t].status = "active"
        /\ session' = [session EXCEPT ![t].status = "disconnected"]
    BY <1>5 DEF MarkDisconnected, Disconnectable
  <2>2. /\ session'[t].status = "disconnected" /\ session'[t].stream = session[t].stream
        /\ (s # t => session'[s] = session[s])
    BY <2>1 DEF TypeInv, StoreTypeOK, SessionRow
  <2>3. Fits(t, EventRow(t, LastSeq(t) + 1, "disconnected"))
    BY <1>2, <2>1, <2>2 DEF Fits
  <2> QED
    BY <1>2, <2>1, <2>2, <2>3, OneEventLogged
<1>6. ASSUME NEW w \in frameWork, CompleteFrame(w) PROVE LogStep(s)
  <2> DEFINE t == w.session
             row == [EventRow(t, LastSeq(t) + 1, "frame") EXCEPT
                        !.stream = w.stream, !.frame = FrameSeq(t, w.stream) + 1]
  <2>1. /\ events' = events \cup {row} /\ session' = session
        /\ session[t].status = "active" /\ session[t].stream = w.stream
    BY <1>6 DEF CompleteFrame, FrameReportable, SameStreamAs
  <2>2. /\ row.session = t /\ row.seq = LastSeq(t) + 1 /\ row.type = "frame"
        /\ row.stream = w.stream /\ row.frame = FrameSeq(t, w.stream) + 1
    BY DEF EventRow
  <2>3. t \in Sessions
    BY DEF TypeInv, StoreTypeOK, FrameWork
  <2> HIDE DEF row, t
  <2>4. Fits(t, row)
    BY <2>1, <2>2 DEF Fits, RowStays
  <2> QED
    BY <2>1, <2>2, <2>3, <2>4, OneEventLogged
<1>7. ASSUME NEW w \in frameWork, NEW retryable \in BOOLEAN, FailFrame(w, retryable)
      PROVE  LogStep(s)
  <2> DEFINE t == w.session
  <2>1. /\ events' = events \cup {EventRow(t, LastSeq(t) + 1, "error")} /\ session' = session
        /\ session[t].status = "active"
    BY <1>7 DEF FailFrame, FrameReportable
  <2>2. t \in Sessions
    BY DEF TypeInv, StoreTypeOK, FrameWork
  <2> HIDE DEF t
  <2>3. Fits(t, EventRow(t, LastSeq(t) + 1, "error"))
    BY <1>2, <2>1 DEF Fits, RowStays, Open, OpenStatus
  <2> QED
    BY <1>2, <2>1, <2>2, <2>3, OneEventLogged
<1>8. ASSUME NEW t \in Sessions, NEW i \in Inputs, NEW type \in Outcomes, Outcome(t, i, type),
             job[i].session = t, job[i].state = "executing", session' = session,
             session[t].status = "cancelled" => type = "error"
      PROVE  LogStep(s)
  <2> DEFINE e == OutcomeEvent(t, LastSeq(t) + 1, type, i)
  <2>1. events' = events \cup {e}
    BY <1>8 DEF Outcome
  <2>2. e.session = t /\ e.seq = LastSeq(t) + 1 /\ e.type = type /\ e.input = i
    BY DEF OutcomeEvent, EventRow
  <2> HIDE DEF e
  <2>3. session[t].status # "none"
    BY <1>8 DEF JobsPlaced
  <2>4. session[t].status # "released"
    BY <1>8 DEF ReleaseDrains, Unfinished, InState
  <2>5. Open(t) /\ (type = "input_ack" => session[t].status \in {"active", "disconnected"})
    BY <1>8, <2>3, <2>4 DEF Open, OpenStatus, TypeInv, StoreTypeOK, SessionRow
  <2>6. Fits(t, e)
    BY <1>8, <2>2, <2>5 DEF Fits, RowStays, Outcomes
  <2> QED
    BY <1>8, <2>1, <2>2, <2>6, OneEventLogged
<1>9. ASSUME NEW w \in inputWork, NEW type \in Outcomes, CompleteInput(w, type) PROVE LogStep(s)
  <2>1. w.input \in Inputs
    BY DEF TypeInv, StoreTypeOK, InputWork
  <2> QED
    BY <1>8, <1>9, <2>1 DEF CompleteInput, Completable
<1>10. ASSUME NEW p \in Procs, NEW i \in Inputs, RecoverAmbiguousInput(p, i) PROVE LogStep(s)
  <2>1. "error" \in Outcomes
    BY DEF Outcomes
  <2> QED
    BY <1>8, <1>10, <2>1 DEF RecoverAmbiguousInput
<1>11. ASSUME NEW p \in Procs, NEW d \in Devices, RegisterHeldDevice(p, d) PROVE LogStep(s)
  <2>1. PICK t \in Sessions : /\ session' = [session EXCEPT ![t].epoch = lease[p].epoch]
                              /\ events' = events
    BY <1>11 DEF RegisterHeldDevice
  <2>2. RowStays(s)
    BY <2>1 DEF RowStays, TypeInv, StoreTypeOK, SessionRow
  <2> QED
    BY <2>1, <2>2, NothingAppended
<1>12. ASSUME NEW t \in Sessions, SessionLapse(t) PROVE LogStep(s)
  <2>1. RowStays(s) /\ events' = events
    BY <1>12 DEF SessionLapse, RowStays, TypeInv, StoreTypeOK, SessionRow
  <2> QED
    BY <2>1, NothingAppended
<1>13. ASSUME \/ \E p \in Procs, i \in Inputs : ClaimInput(p, i)
              \/ \E p \in Procs, t \in Sessions : ClaimFrame(p, t)
              \/ \E p \in Procs, d \in Devices : RegisterIdleDevice(p, d)
              \/ \E t \in Sessions : EnqueueInput(t)
              \/ \E w \in inputWork : StartInput(w)
              \/ (RegistryStep /\ UNCHANGED sessionVars) \/ UNCHANGED vars
       PROVE  UNCHANGED <<session, events>>
  BY <1>13 DEF ClaimInput, ClaimFrame, RegisterIdleDevice, EnqueueInput, StartInput, sessionVars,
     vars
<1>14. ASSUME \/ \E t \in Sessions : Release(t) \/ ExpireSession(t)
              \/ \E w \in inputWork : CompleteInputExpired(w)
       PROVE  \E t \in Sessions : Ending(t)
  BY <1>14, EndingCalls
<1> QED
  BY <1>1, <1>3, <1>4, <1>5, <1>6, <1>7, <1>9, <1>10, <1>11, <1>12, <1>13, <1>14, EndingLogged,
     AcquiredLogged, CancelLogged
  DEF Next, SessionStep, ExecutionStep


-----------------------------------------------------------------------------
(* The store is a fenced device                                            *)

LEMMA RefinementInit == Init => Fenced!FencedInit
  BY DEF Init, Fenced!FencedInit, JobsIn, NoRow, NoJob

\* A step that leaves the holders alone and every input where it stands.
Stands(i) ==
    /\ job'[i].session = job[i].session
    /\ job'[i].state \in Waiting <=> job[i].state \in Waiting
    /\ job'[i].state = "executing" <=> job[i].state = "executing"
    /\ job'[i].state = "done" <=> job[i].state = "done"

LEMMA HoldersKept ==
    ASSUME SessionsKept
    PROVE  /\ [d \in Devices |-> device'[d].current] = [d \in Devices |-> device[d].current]
           /\ {s \in Sessions : session'[s].status # "none"}
                 = {s \in Sessions : session[s].status # "none"}
<1>1. \A s \in Sessions : session'[s].status = "none" <=> session[s].status = "none"
  BY DEF SessionsKept, Open, OpenStatus
<1> QED
  BY <1>1 DEF SessionsKept

LEMMA StandingKept ==
    ASSUME SessionsKept, \A i \in Inputs : Stands(i)
    PROVE  UNCHANGED Fenced!fencedVars
  BY HoldersKept DEF Fenced!fencedVars, JobsIn, Stands, Waiting

\* Jobs that are finished, all of one session, while the holders stay.
LEMMA SettleStep ==
    ASSUME SessionsKept, NEW s \in Sessions, NEW I \in SUBSET Inputs,
           \A i \in I : Finished(i) /\ job[i].session = s,
           \A i \in Inputs \ I : job'[i] = job[i]
    PROVE  Fenced!FencedNext
<1>1. I \subseteq Fenced!Unsettled(s)
  BY DEF Fenced!Unsettled, JobsIn, Finished
<1>2. /\ JobsIn(Waiting)' = JobsIn(Waiting) \ I
      /\ JobsIn({"executing"})' = JobsIn({"executing"}) \ I
      /\ JobsIn({"done"})' = JobsIn({"done"}) \cup I
  BY DEF JobsIn, Finished, Waiting
<1>3. [i \in Inputs |-> job'[i].session] = [i \in Inputs |-> job[i].session]
  BY DEF Finished
<1>4. Fenced!Settle(s, I)
  BY <1>1, <1>2, <1>3, HoldersKept DEF Fenced!Settle, Waiting
<1> QED
  BY <1>4 DEF Fenced!FencedNext

\* What happens to the jobs when a session ends.
LEMMA EndedJobs ==
    ASSUME NEW o \in Sessions,
           \A i \in Inputs : i \notin Unfinished(o) => job'[i] = job[i],
           \A i \in Unfinished(o) : /\ job'[i].state = "done"
                                    /\ job'[i].session = job[i].session
    PROVE  /\ Fenced!Unsettled(o) = Unfinished(o)
           /\ JobsIn(Waiting)' = JobsIn(Waiting) \ Unfinished(o)
           /\ JobsIn({"executing"})' = JobsIn({"executing"}) \ Unfinished(o)
           /\ JobsIn({"done"})' = JobsIn({"done"}) \cup Unfinished(o)
           /\ [i \in Inputs |-> job'[i].session] = [i \in Inputs |-> job[i].session]
<1>1. Fenced!Unsettled(o) = Unfinished(o)
  BY DEF Fenced!Unsettled, JobsIn, Unfinished, InState
<1>2. Unfinished(o) \subseteq Inputs
  BY DEF Unfinished, InState
<1> QED
  BY <1>1, <1>2 DEF JobsIn, Waiting

LEMMA WithdrawStep ==
    ASSUME StoreInv, NEW s \in Sessions, Ending(s)
    PROVE  Fenced!FencedNext
<1>1. /\ Open(s) /\ EndedRow(s) /\ \A t \in Sessions \ {s} : session'[t] = session[t]
      /\ device' = EndedDevices(s)
  BY EndedSessionEffect, EndingEffect DEF StoreInv, StoreCore
<1>2. PICK d \in Devices : d = session[s].device /\ device[d].current = s
  BY <1>1 DEF StoreInv, StoreCore, SessionsPlaced, DeviceHoldsItsSession, Open, OpenStatus
<1>3. [e \in Devices |-> device'[e].current]
         = [[e \in Devices |-> device[e].current] EXCEPT ![d] = NoSession]
  <2>1. \A e \in Devices : device'[e].current =
           IF e = d THEN NoSession ELSE device[e].current
    BY <1>1, <1>2, EndedDevicesEffect DEF StoreInv, StoreCore
  <2> QED
    BY <2>1
<1>4. {t \in Sessions : session'[t].status # "none"} = {t \in Sessions : session[t].status # "none"}
  BY <1>1 DEF EndedRow, Open, OpenStatus
<1>5. /\ \A i \in Inputs : i \notin Unfinished(s) => job'[i] = job[i]
      /\ \A i \in Unfinished(s) : job'[i].state = "done" /\ job'[i].session = job[i].session
  BY EndingEffect DEF StoreInv, StoreCore
<1>6. Fenced!Withdraw(d)
  BY <1>2, <1>3, <1>4, <1>5, EndedJobs, SessionStoreAssumption DEF Fenced!Withdraw, Waiting
<1> QED
  BY <1>2, <1>6 DEF Fenced!FencedNext

LEMMA GrantStep ==
    ASSUME StoreInv, NEW s \in Sessions, NEW d \in Devices, Acquire(s, d) \/ AcquireExpired(s, d)
    PROVE  Fenced!FencedNext
<1>1. CASE Acquire(s, d)
  <2>1. Fenced!Unsettled(NoSession) = {}
    BY SessionStoreAssumption DEF Fenced!Unsettled, JobsIn, StoreInv, StoreCore, JobsPlaced
  <2>2. /\ session[s].status = "none" /\ device[d].current = NoSession /\ UNCHANGED job
        /\ session' = [session EXCEPT ![s] = AcquiredRow(d)]
        /\ device' = [device EXCEPT ![d] = AcquiredDevice(s, d)]
    BY <1>1 DEF Acquire
  <2>3. [e \in Devices |-> device'[e].current]
           = [[e \in Devices |-> device[e].current] EXCEPT ![d] = s]
    BY <2>2 DEF AcquiredDevice, StoreInv, StoreCore, TypeInv, StoreTypeOK
  <2>4. {t \in Sessions : session'[t].status # "none"}
           = {t \in Sessions : session[t].status # "none"} \cup {s}
    BY <2>2, AcquiredRowFields DEF StoreInv, StoreCore, TypeInv, StoreTypeOK
  <2>5. Fenced!Grant(d, s)
    BY <2>1, <2>2, <2>3, <2>4 DEF Fenced!Grant, JobsIn
  <2> QED
    BY <2>5 DEF Fenced!FencedNext
<1>2. CASE AcquireExpired(s, d)
  <2>1. PICK o \in Sessions : Replaced(o, s, d)
    BY <1>2, ReplacementEffect DEF StoreInv, StoreCore
  <2>2. /\ o # s /\ Open(o) /\ device[d].current = o /\ session[s].status = "none"
        /\ \A t \in Sessions \ {o, s} : session'[t] = session[t]
        /\ session'[o] = [session[o] EXCEPT !.status = "released"]
        /\ session'[s] = AcquiredRow(d)
        /\ device' = [EndedDevices(o) EXCEPT ![d] = AcquiredDevice(s, d)]
    BY <2>1 DEF Replaced
  <2>3. d = session[o].device
    BY <2>2 DEF StoreInv, StoreCore, DeviceHoldsItsSession
  <2>4. \A e \in Devices \ {d} : device'[e].current = device[e].current
    BY <2>2, <2>3, EndedDevicesEffect DEF StoreInv, StoreCore
  <2>5. device'[d].current = s
    BY <2>2 DEF AcquiredDevice, EndedDevices
  <2>6. [e \in Devices |-> device'[e].current]
           = [[e \in Devices |-> device[e].current] EXCEPT ![d] = s]
    BY <2>4, <2>5
  <2>7. session'[o].status = "released" /\ session'[s].status = "active"
    BY <2>2, AcquiredRowFields DEF StoreInv, StoreCore, TypeInv, StoreTypeOK, SessionRow
  <2>8. {t \in Sessions : session'[t].status # "none"}
           = {t \in Sessions : session[t].status # "none"} \cup {s}
    <3>1. \A t \in Sessions : session'[t].status # "none" <=> session[t].status # "none" \/ t = s
      BY <2>2, <2>7 DEF Open, OpenStatus
    <3> QED
      BY <3>1
  <2>9. /\ \A i \in Inputs : i \notin Unfinished(o) => job'[i] = job[i]
        /\ \A i \in Unfinished(o) : job'[i].state = "done" /\ job'[i].session = job[i].session
    BY <2>1 DEF Replaced
  <2>10. Fenced!Grant(d, s)
    BY <2>2, <2>6, <2>8, <2>9, EndedJobs DEF Fenced!Grant, Waiting
  <2> QED
    BY <2>10 DEF Fenced!FencedNext
<1> QED
  BY <1>1, <1>2

LEMMA RefinementStep == StoreInv /\ [Next]_vars => [Fenced!FencedNext]_Fenced!fencedVars
<1> SUFFICES ASSUME StoreInv, [Next]_vars
             PROVE  Fenced!FencedNext \/ UNCHANGED Fenced!fencedVars
  OBVIOUS
<1> USE DEF StoreInv, StoreCore
<1>1. CASE \E s \in Sessions : Ending(s)
  BY <1>1, WithdrawStep
<1>2. CASE \E s \in Sessions, d \in Devices : Acquire(s, d) \/ AcquireExpired(s, d)
  BY <1>2, GrantStep
<1>3. CASE SessionsKept
  <2> USE <1>3
  <2>1. CASE UNCHANGED job
    BY <2>1, StandingKept DEF Stands
  <2>2. ASSUME NEW s \in Sessions, EnqueueInput(s) PROVE Fenced!FencedNext
    <3>1. PICK i \in Inputs, e \in FramesOf(s) :
             /\ job[i].state = "none"
             /\ job' = [job EXCEPT ![i] = [NoJob EXCEPT !.state = "pending", !.session = s,
                                               !.epoch = session[s].epoch,
                                               !.stream = e.stream, !.frame = e.frame]]
      BY <2>2 DEF EnqueueInput
    <3>2. Fenced!Holding(s)
      BY <2>2 DEF EnqueueInput, Applicable, OnCurrentDevice, Fenced!Holding
    <3>3. /\ job'[i].state = "pending" /\ job'[i].session = s
          /\ \A j \in Inputs \ {i} : job'[j] = job[j]
      BY <3>1 DEF NoJob, TypeInv, StoreTypeOK
    <3>4. /\ JobsIn(Waiting)' = JobsIn(Waiting) \cup {i}
          /\ JobsIn({"executing"})' = JobsIn({"executing"})
          /\ JobsIn({"done"})' = JobsIn({"done"})
          /\ i \notin JobsIn(Waiting) \cup JobsIn({"executing"}) \cup JobsIn({"done"})
      BY <3>1, <3>3 DEF JobsIn, Waiting
    <3>5. [j \in Inputs |-> job'[j].session] = [[j \in Inputs |-> job[j].session] EXCEPT ![i] = s]
      BY <3>3
    <3>6. Fenced!Submit(i, s)
      BY <3>2, <3>4, <3>5, HoldersKept DEF Fenced!Submit, Waiting
    <3> QED
      BY <3>6 DEF Fenced!FencedNext
  <2>3. ASSUME NEW w \in inputWork, StartInput(w) PROVE Fenced!FencedNext
    <3>1. PICK s \in Sessions, i \in Inputs :
             /\ i = w.input /\ job[i].session = s /\ OnCurrentDevice(s)
             /\ job[i].state = "claimed"
             /\ job' = [job EXCEPT ![i].state = "executing"]
      BY <2>3 DEF StartInput, TypeInv, StoreTypeOK, InputWork
    <3>2. Fenced!Holding(s)
      BY <3>1 DEF OnCurrentDevice, Fenced!Holding
    <3>3. \A j \in JobsIn({"executing"}) : job[j].session # s
      BY <3>1 DEF JobsIn, OneInHand, InState, InHand
    <3>4. /\ job'[i].state = "executing" /\ job'[i].session = s
          /\ \A j \in Inputs \ {i} : job'[j] = job[j]
      BY <3>1 DEF TypeInv, StoreTypeOK, JobRow
    <3>5. /\ JobsIn(Waiting)' = JobsIn(Waiting) \ {i}
          /\ JobsIn({"executing"})' = JobsIn({"executing"}) \cup {i}
          /\ JobsIn({"done"})' = JobsIn({"done"})
          /\ i \in JobsIn(Waiting) /\ JobsIn({"executing"}) \subseteq Inputs
      BY <3>1, <3>4 DEF JobsIn, Waiting
    <3>6. [j \in Inputs |-> job'[j].session] = [j \in Inputs |-> job[j].session]
      BY <3>1, <3>4
    <3>7. Fenced!Start(i)
      BY <3>1, <3>2, <3>3, <3>5, <3>6, HoldersKept DEF Fenced!Start, Waiting
    <3> QED
      BY <3>7 DEF Fenced!FencedNext
  <2>4. ASSUME NEW s \in Sessions, NEW i \in Inputs, NEW type \in Outcomes,
               job[i].session = s, job[i].state = "executing", Outcome(s, i, type)
        PROVE  Fenced!FencedNext
    <3>1. /\ FinishedJob(i, LastSeq(s) + 1).state = "done"
          /\ FinishedJob(i, LastSeq(s) + 1).session = job[i].session
          /\ FinishedJob(i, LastSeq(s) + 1).claimGen = job[i].claimGen
          /\ FinishedJob(i, LastSeq(s) + 1).stream = job[i].stream
          /\ FinishedJob(i, LastSeq(s) + 1).frame = job[i].frame
      BY DEF FinishedJob, TypeInv, StoreTypeOK, JobRow
    <3>2. Finished(i) /\ \A j \in Inputs \ {i} : job'[j] = job[j]
      BY <2>4, <3>1 DEF Outcome, Finished, KeepsFrame, TypeInv, StoreTypeOK
    <3> QED
      BY <2>4, <3>2, SettleStep, {i} \in SUBSET Inputs
  <2>5. ASSUME NEW w \in inputWork, NEW type \in Outcomes, CompleteInput(w, type)
        PROVE  Fenced!FencedNext
    <3>1. \E s \in Sessions : /\ job[w.input].session = s /\ job[w.input].state = "executing"
                              /\ Outcome(s, w.input, type)
      BY <2>5 DEF CompleteInput, Completable
    <3>2. w.input \in Inputs
      BY DEF TypeInv, StoreTypeOK, InputWork
    <3> QED
      BY <3>1, <3>2, <2>4
  <2>6. ASSUME NEW p \in Procs, NEW i \in Inputs, RecoverAmbiguousInput(p, i)
        PROVE  Fenced!FencedNext
    <3>1. \E s \in Sessions : /\ job[i].session = s /\ job[i].state = "executing"
                              /\ Outcome(s, i, "error")
      BY <2>6 DEF RecoverAmbiguousInput
    <3> QED
      BY <3>1, <2>4 DEF Outcomes
  <2>7. ASSUME NEW s \in Sessions, Cancel(s) PROVE Fenced!FencedNext
    <3>1. job' = FinishedJobs(s, Queued(s), {})
      BY <2>7 DEF Cancel
    <3>2. \A i \in Queued(s) : Finished(i) /\ job[i].session = s
      <4>1. \A i \in Queued(s) : /\ job[i].state \in {"pending", "claimed"}
                                 /\ job[i].session = s /\ i \in Inputs
        BY DEF Queued, InState
      <4> QED
        BY <3>1, <4>1 DEF FinishedJobs, FinishedJob, Finished, KeepsFrame, TypeInv, StoreTypeOK,
                          JobRow
    <3>3. \A i \in Inputs \ Queued(s) : job'[i] = job[i]
      BY <3>1 DEF FinishedJobs
    <3>4. Queued(s) \in SUBSET Inputs
      BY DEF Queued, InState
    <3> QED
      BY <3>2, <3>3, <3>4, SettleStep
  <2>8. ASSUME NEW p \in Procs, NEW i \in Inputs, ClaimInput(p, i) PROVE UNCHANGED Fenced!fencedVars
    <3>1. /\ job[i].state \in Waiting
          /\ job' = [job EXCEPT ![i].state = "claimed", ![i].claimedEpoch = lease[p].epoch,
                                ![i].claimGen = job[i].claimGen + 1]
      BY <2>8 DEF ClaimInput, Claimable, Eligible, Queued, InState, Waiting
    <3>2. \A j \in Inputs : Stands(j)
      BY <3>1 DEF Stands, Waiting, TypeInv, StoreTypeOK, JobRow
    <3> QED
      BY <3>2, StandingKept
  <2>9. ASSUME NEW p \in Procs, NEW d \in Devices, RegisterHeldDevice(p, d)
        PROVE  UNCHANGED Fenced!fencedVars
    <3>1. PICK s \in Sessions : job' = [i \in Inputs |-> IF i \in Unfinished(s)
                                     THEN ReadoptedJob(i, lease[p].epoch) ELSE job[i]]
      BY <2>9 DEF RegisterHeldDevice
    <3>2. \A i \in Unfinished(s) :
             /\ ReadoptedJob(i, lease[p].epoch).session = job[i].session
             /\ ReadoptedJob(i, lease[p].epoch).state =
                    IF job[i].state = "executing" THEN "executing" ELSE "pending"
      BY DEF ReadoptedJob, Unfinished, InState, TypeInv, StoreTypeOK, JobRow
    <3>3. \A i \in Inputs : Stands(i)
      BY <3>1, <3>2 DEF Stands, Waiting, Unfinished, InState
    <3> QED
      BY <3>3, StandingKept
  <2>10. (\E s \in Sessions : Heartbeat(s) \/ Reconnect(s) \/ MarkDisconnected(s) \/ SessionLapse(s))
            => UNCHANGED job
    BY DEF Heartbeat, Reconnect, MarkDisconnected, SessionLapse
  <2>11. /\ (\E p \in Procs, s \in Sessions : ClaimFrame(p, s)) => UNCHANGED job
         /\ (\E p \in Procs, d \in Devices : RegisterIdleDevice(p, d)) => UNCHANGED job
         /\ (\E w \in frameWork : CompleteFrame(w)) => UNCHANGED job
         /\ (\E w \in frameWork, retryable \in BOOLEAN : FailFrame(w, retryable)) => UNCHANGED job
         /\ UNCHANGED sessionVars \/ UNCHANGED vars => UNCHANGED job
    BY DEF ClaimFrame, RegisterIdleDevice, CompleteFrame, FailFrame, sessionVars, vars
  <2>12. (\E s \in Sessions : Release(s) \/ ExpireSession(s)) \/ (\E w \in inputWork : CompleteInputExpired(w))
            => Fenced!FencedNext
    BY EndingCalls, WithdrawStep
  <2>13. (\E s \in Sessions, d \in Devices : Acquire(s, d) \/ AcquireExpired(s, d)) => Fenced!FencedNext
    BY GrantStep
  <2> QED
    BY <2>1, <2>2, <2>3, <2>5, <2>6, <2>7, <2>8, <2>9, <2>10, <2>11, <2>12, <2>13 DEF Next,
       SessionStep, ExecutionStep
<1> QED
  BY <1>1, <1>2, <1>3, SessionCases

\* The session store implements the fenced device: what the store's leases, epochs,
\* generations and claims add up to, for any number of nodes, processes, devices,
\* sessions and inputs.
THEOREM StoreFencesDevices == Spec => ImplementsFencedDevice
<1>1. Spec => Fenced!FencedInit /\ [][Fenced!FencedNext]_Fenced!fencedVars
  BY RefinementInit, RefinementStep, StoreInvariant, PTL DEF Spec
<1> QED
  BY <1>1 DEF ImplementsFencedDevice, Fenced!FencedSpec

\* What is unsettled belongs to the holder of a device, and one input at a time
\* touches it.
THEOREM DevicesExclusive == Spec => []DeviceExclusive
<1>1. StoreInv => DeviceExclusive
  <2> SUFFICES ASSUME StoreInv PROVE Fenced!Exclusive
    BY DEF DeviceExclusive
  <2> USE DEF StoreInv, StoreCore
  <2>1. ASSUME NEW i \in JobsIn(Waiting) \cup JobsIn({"executing"})
        PROVE  \E d \in Devices : device[d].current = job[i].session
    <3>1. /\ job[i].session \in Sessions /\ session[job[i].session].status # "none"
          /\ i \in Unfinished(job[i].session)
      BY <2>1 DEF JobsIn, Waiting, JobsPlaced, Unfinished, InState
    <3>2. Open(job[i].session)
      BY <3>1 DEF ReleaseDrains, Open, TypeInv, StoreTypeOK, SessionRow
    <3> QED
      BY <3>1, <3>2 DEF DeviceHoldsItsSession, SessionsPlaced
  <2>2. ASSUME NEW d \in Devices, NEW e \in Devices,
               device[d].current = device[e].current, device[d].current # NoSession
        PROVE  d = e
    BY <2>2 DEF DeviceHoldsItsSession, TypeInv, StoreTypeOK, DeviceRow, AnySession
  <2>3. ASSUME NEW i \in JobsIn({"executing"}), NEW j \in JobsIn({"executing"}),
               job[i].session = job[j].session
        PROVE  i = j
    BY <2>3 DEF JobsIn, JobsPlaced, OneInHand, InState, InHand
  <2> QED
    BY <2>1, <2>2, <2>3 DEF Fenced!Exclusive, Fenced!Holding, Waiting, JobsIn
<1> QED
  BY <1>1, StoreInvariant, PTL
=============================================================================
