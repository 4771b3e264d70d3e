------------------------------- MODULE NodeLease -------------------------------
(***************************************************************************)
(* The node registry of the remote runtime: the rows of flowbaton_nodes,   *)
(* the ownership columns of flowbaton_devices, and the leases the serve    *)
(* processes hold in memory.                                               *)
(*                                                                         *)
(* A process that starts under a node identity takes the node's next       *)
(* worker epoch; the store refuses the calls of every process whose epoch  *)
(* is not the current one or whose lease has run out.  A process that was  *)
(* suspended or cut off from the database keeps its old lease in memory    *)
(* and may issue any call with it, at any time.                            *)
(*                                                                         *)
(* Each transaction of the store is one action.  Database time is a        *)
(* countdown in heartbeat intervals.                                       *)
(***************************************************************************)
EXTENDS Naturals

CONSTANTS
    Nodes,      \* node identities
    Procs,      \* serve processes
    Devices,    \* devices, by resource ID (one tenant)
    NoLease,    \* "no lease", "no owner"
    LeaseTerm,  \* length of a node lease in heartbeat intervals (3 in the code)
    MaxEpoch    \* bound on the worker epochs of a node

ASSUME NodeLeaseAssumption ==
    /\ LeaseTerm \in Nat \ {0}
    /\ MaxEpoch \in Nat
    /\ NoLease \notin [node : Nodes, epoch : Nat \ {0}]

VARIABLES
    node,   \* node[n]: the row of flowbaton_nodes; epoch 0 is "no row"
    lease,  \* lease[p]: the NodeLease process p holds in memory
    owner   \* owner[d]: owner_node_id and owner_worker_epoch of device d

nodeVars == <<node, lease, owner>>

NodeRow == [epoch : Nat, ttl : 0 .. LeaseTerm, ready : BOOLEAN]
Lease == [node : Nodes, epoch : Nat \ {0}]

NodeInit ==
    /\ node = [n \in Nodes |-> [epoch |-> 0, ttl |-> 0, ready |-> FALSE]]
    /\ lease = [p \in Procs |-> NoLease]
    /\ owner = [d \in Devices |-> NoLease]

-----------------------------------------------------------------------------
\* The epoch is the node's current one.
Current(l) == l # NoLease /\ node[l.node].epoch = l.epoch

\* The test of every store call made under a lease (ErrFenced otherwise).
LeaseLive(l) == Current(l) /\ node[l.node].ttl > 0

-----------------------------------------------------------------------------
\* The epoch of the next registration under identity n.  Mutant: a takeover
\* keeps the epoch of the row it finds.
KeptEpoch(n) == IF node[n].epoch = 0 THEN 1 ELSE node[n].epoch
NextEpoch(n) == node[n].epoch + 1

\* The row a registration writes.
RegisteredRow(n) == [epoch |-> NextEpoch(n), ttl |-> LeaseTerm, ready |-> FALSE]

\* A process starts under identity n; a live lease refuses it (ErrBusy).
RegisterNode(p, n) ==
    /\ lease[p] = NoLease
    /\ node[n].ttl = 0
    /\ node[n].epoch < MaxEpoch
    /\ node' = [node EXCEPT ![n] = RegisteredRow(n)]
    /\ lease' = [lease EXCEPT ![p] = [node |-> n, epoch |-> NextEpoch(n)]]
    /\ UNCHANGED owner

ActivateNode(p) ==
    /\ LeaseLive(lease[p])
    /\ node' = [node EXCEPT ![lease[p].node].ready = TRUE]
    /\ UNCHANGED <<lease, owner>>

HeartbeatNode(p) ==
    /\ LeaseLive(lease[p])
    /\ node' = [node EXCEPT ![lease[p].node].ttl = LeaseTerm]
    /\ UNCHANGED <<lease, owner>>

\* Shutdown fences the epoch at once; unlike the other calls it does not ask
\* for a lease that is still live.
MayDeactivate(p) == Current(lease[p])

DeactivateNode(p) ==
    /\ MayDeactivate(p)
    /\ node' = [node EXCEPT ![lease[p].node].ttl = 0,
                            ![lease[p].node].ready = FALSE]
    /\ UNCHANGED <<lease, owner>>

\* A process ends, orderly or not, and forgets its lease.
Exit(p) ==
    /\ lease[p] # NoLease
    /\ lease' = [lease EXCEPT ![p] = NoLease]
    /\ UNCHANGED <<node, owner>>

\* A heartbeat interval of database time passes for node n.
Running(n) == node[n].ttl > 0

Tick(n) ==
    /\ Running(n)
    /\ node' = [node EXCEPT ![n].ttl = @ - 1]
    /\ UNCHANGED <<lease, owner>>

\* RegisterDevice takes a device of another node over only when that node's
\* lease at the recorded epoch is gone.
Takeable(p, d) ==
    owner[d] # NoLease /\ owner[d].node # lease[p].node => ~LeaseLive(owner[d])

TakeDevice(p, d) ==
    /\ LeaseLive(lease[p])
    /\ Takeable(p, d)
    /\ owner' = [owner EXCEPT ![d] = lease[p]]
    /\ UNCHANGED <<node, lease>>

-----------------------------------------------------------------------------
RegistryStep ==
    \/ \E p \in Procs, n \in Nodes : RegisterNode(p, n)
    \/ \E p \in Procs : ActivateNode(p)
    \/ \E p \in Procs : HeartbeatNode(p)
    \/ \E p \in Procs : DeactivateNode(p)
    \/ \E p \in Procs : Exit(p)
    \/ \E n \in Nodes : Tick(n)

NodeNext == RegistryStep \/ \E p \in Procs, d \in Devices : TakeDevice(p, d)

NodeSpec == NodeInit /\ [][NodeNext]_nodeVars

-----------------------------------------------------------------------------
\* Types of the registry's rows and of the leases in memory.
NodeTypeOK ==
    /\ node \in [Nodes -> NodeRow]
    /\ lease \in [Procs -> Lease \cup {NoLease}]
    /\ owner \in [Devices -> Lease \cup {NoLease}]

\* No lease in memory and no device row is ahead of its node's epoch: an epoch
\* reaches the world only through RegisterNode.
EpochsIssued ==
    /\ \A p \in Procs : lease[p] # NoLease => lease[p].epoch <= node[lease[p].node].epoch
    /\ \A d \in Devices : owner[d] # NoLease => owner[d].epoch <= node[owner[d].node].epoch

\* Fencing works because an epoch has one holder: two processes never hold the
\* same epoch of a node, however often processes start, stall and end.  Hence at
\* most one process passes requireNodeLease for a node (RegisterNode's FOR UPDATE
\* and the increment of worker_epoch).
EpochHeldOnce ==
    \A p, q \in Procs :
        lease[p] # NoLease /\ lease[p] = lease[q] => p = q

\* A live owner keeps its device: no RegisterDevice of another node and no stale
\* process of the same node changes the ownership of a device whose owner's
\* lease is live.
LiveOwnerKept ==
    [][\A d \in Devices : LeaseLive(owner[d]) => owner'[d] = owner[d]]_nodeVars

\* A stale process cannot take a node out of service: while nobody holds the
\* node's current epoch only time ends its lease, one interval at a time, and
\* nothing withdraws its readiness but the next registration, which needs a
\* lapsed lease (the worker_epoch condition of DeactivateNode).
OnlyHolderWithdraws ==
    [][\A n \in Nodes :
          (\A p \in Procs : ~(Current(lease[p]) /\ lease[p].node = n)) =>
              \/ node'[n] = node[n]
              \/ node'[n] = [node[n] EXCEPT !.ttl = @ - 1]
              \/ node[n].ttl = 0 /\ node'[n].epoch = node[n].epoch + 1]_nodeVars

=============================================================================
