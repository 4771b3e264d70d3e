-------------------------- MODULE SessionRefinement --------------------------
(***************************************************************************)
(* The session store implements FencedDevice: the holder of a device is    *)
(* its current_session_id, an input is queued while its job is pending or  *)
(* claimed, started while it executes and settled when it is done.         *)
(***************************************************************************)
EXTENDS SessionStore

JobsIn(states) == {i \in Inputs : job[i].state \in states}

Fenced == INSTANCE FencedDevice WITH
    Nobody  <- NoSession,
    holder  <- [d \in Devices |-> device[d].current],
    past    <- {s \in Sessions : session[s].status # "none"},
    of      <- [i \in Inputs |-> job[i].session],
    queued  <- JobsIn({"pending", "claimed"}),
    started <- JobsIn({"executing"}),
    settled <- JobsIn({"done"})

\* Every step of the store, however many rows it writes, is one step of the fenced
\* device or none: whatever claims, leases and restarts do, an input starts once
\* and for the device's holder, and a device changes hands with nothing unsettled.
ImplementsFencedDevice == Fenced!FencedSpec

\* Nothing unsettled belongs to a session without a device, no session holds two
\* devices, and one input at a time touches a device.
DeviceExclusive == Fenced!Exclusive
=============================================================================
