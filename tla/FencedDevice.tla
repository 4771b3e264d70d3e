----------------------------- MODULE FencedDevice -----------------------------
(***************************************************************************)
(* What the remote runtime promises about its devices, without leases,     *)
(* epochs, claims, frames or events: a device has at most one holder, a    *)
(* holder never comes back, an input starts at most once, for the holder   *)
(* of the device and for no other input of it at the same time, and when   *)
(* the device changes hands everything its holder asked for is settled.    *)
(* Module SessionRefinement maps the session store to it.                  *)
(***************************************************************************)
CONSTANTS
    Devices,   \* the devices
    Sessions,  \* who may hold one
    Inputs,    \* what a holder may ask for
    Nobody     \* no holder; not a session

VARIABLES
    holder,   \* holder[d]: the session that holds device d, or Nobody
    past,     \* the sessions that hold, or have held, a device
    of,       \* of[i]: the session that asked for input i
    queued,   \* inputs that have not touched the device yet
    started,  \* inputs that may have touched it
    settled   \* inputs that have their one outcome

fencedVars == <<holder, past, of, queued, started, settled>>

FencedInit ==
    /\ holder = [d \in Devices |-> Nobody]
    /\ past = {}
    /\ of = [i \in Inputs |-> Nobody]
    /\ queued = {} /\ started = {} /\ settled = {}

Holding(s) == \E d \in Devices : holder[d] = s
Unsettled(s) == {i \in queued \cup started : of[i] = s}

-----------------------------------------------------------------------------
Submit(i, s) ==
    /\ Holding(s)
    /\ i \notin queued \cup started \cup settled
    /\ of' = [of EXCEPT ![i] = s]
    /\ queued' = queued \cup {i}
    /\ UNCHANGED <<holder, past, started, settled>>

Start(i) ==
    /\ i \in queued
    /\ Holding(of[i])
    /\ \A j \in started : of[j] # of[i]
    /\ queued' = queued \ {i}
    /\ started' = started \cup {i}
    /\ UNCHANGED <<holder, past, of, settled>>

\* Some of what a session asked for gets its outcome, started or not.
Settle(s, I) ==
    /\ I \subseteq Unsettled(s)
    /\ queued' = queued \ I
    /\ started' = started \ I
    /\ settled' = settled \cup I
    /\ UNCHANGED <<holder, past, of>>

\* The device changes hands: to nobody, to a session that never held one, or from
\* one session to the next at once.
Withdraw(d) ==
    LET I == Unsettled(holder[d])
    IN  /\ holder[d] # Nobody
        /\ holder' = [holder EXCEPT ![d] = Nobody]
        /\ queued' = queued \ I
        /\ started' = started \ I
        /\ settled' = settled \cup I
        /\ UNCHANGED <<past, of>>

Grant(d, s) ==
    LET I == Unsettled(holder[d])
    IN  /\ s \notin past
        /\ holder' = [holder EXCEPT ![d] = s]
        /\ past' = past \cup {s}
        /\ queued' = queued \ I
        /\ started' = started \ I
        /\ settled' = settled \cup I
        /\ UNCHANGED of

FencedNext ==
    \/ \E i \in Inputs, s \in Sessions : Submit(i, s)
    \/ \E i \in Inputs : Start(i)
    \/ \E s \in Sessions, I \in SUBSET Inputs : Settle(s, I)
    \/ \E d \in Devices : Withdraw(d)
    \/ \E d \in Devices, s \in Sessions : Grant(d, s)

FencedSpec == FencedInit /\ [][FencedNext]_fencedVars

-----------------------------------------------------------------------------
\* The promise as an invariant: nothing unsettled belongs to a session that does
\* not hold a device, no session holds two, and one input at a time touches a
\* device.
Exclusive ==
    /\ \A i \in queued \cup started : Holding(of[i])
    /\ \A d, e \in Devices : holder[d] = holder[e] /\ holder[d] # Nobody => d = e
    /\ \A i, j \in started : of[i] = of[j] => i = j
=============================================================================
