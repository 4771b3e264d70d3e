---------------------------- MODULE CdpConnection ----------------------------
(***************************************************************************)
(* The DevTools connection of an attached page (internal/web/cdp.go):      *)
(* callers register a slot for their id under the mutex, send, and wait    *)
(* for the reply or for their context; a reader routes replies by id; when *)
(* reading fails every registered caller is told.                          *)
(*                                                                         *)
(* A caller makes one call here; two calls of one driver are two callers.  *)
(***************************************************************************)
CONSTANT Callers  \* the calls, named by the ids they get

VARIABLES
    call,     \* each call: idle, registered, sent, or how it ended
    waiting,  \* the ids the connection routes replies to
    slot,     \* each call's channel: empty, reply, closed
    routing,  \* the ids the reader took off waiting and has not served yet
    wire,     \* the replies the browser has sent and the reader has not read
    asked,    \* the calls the browser has received and not answered
    reader,   \* reading, ended
    failure,  \* the reading error is recorded
    closed    \* close was called

cdpVars == <<call, waiting, slot, routing, wire, asked, reader, failure, closed>>

CdpInit ==
    /\ call = [c \in Callers |-> "idle"] /\ waiting = {} /\ slot = [c \in Callers |-> "empty"]
    /\ routing = {} /\ wire = {} /\ asked = {}
    /\ reader = "reading" /\ failure = FALSE /\ closed = FALSE

-----------------------------------------------------------------------------
\* A closed connection refuses a call, and so does one whose reader failed.
Refuses == closed \/ failure

Register(c) ==
    /\ call[c] = "idle"
    /\ IF Refuses
       THEN call' = [call EXCEPT ![c] = "refused"] /\ UNCHANGED waiting
       ELSE call' = [call EXCEPT ![c] = "registered"] /\ waiting' = waiting \cup {c}
    /\ UNCHANGED <<slot, routing, wire, asked, reader, failure, closed>>

\* The slot of a call that will not wait is given up.
Abandon(c, how) ==
    call' = [call EXCEPT ![c] = how] /\ waiting' = waiting \ {c}

Send(c) ==
    /\ call[c] = "registered"
    /\ \/ /\ ~closed /\ call' = [call EXCEPT ![c] = "sent"]
          /\ asked' = IF reader = "reading" THEN asked \cup {c} ELSE asked
          /\ UNCHANGED waiting
       \/ Abandon(c, "unsent") /\ UNCHANGED asked
    /\ UNCHANGED <<slot, routing, wire, reader, failure, closed>>

\* The call's context ends before it has looked at its channel.
Cancel(c) ==
    /\ call[c] = "sent" /\ Abandon(c, "cancelled")
    /\ UNCHANGED <<slot, routing, wire, asked, reader, failure, closed>>

TakeReply(c) ==
    /\ call[c] = "sent" /\ slot[c] = "reply"
    /\ call' = [call EXCEPT ![c] = "answered"] /\ slot' = [slot EXCEPT ![c] = "empty"]
    /\ UNCHANGED <<waiting, routing, wire, asked, reader, failure, closed>>

TakeFailure(c) ==
    /\ call[c] = "sent" /\ slot[c] = "closed" /\ call' = [call EXCEPT ![c] = "failed"]
    /\ UNCHANGED <<waiting, slot, routing, wire, asked, reader, failure, closed>>

-----------------------------------------------------------------------------
\* The browser answers what it received, or drops it.
Answer(c) ==
    /\ c \in asked /\ asked' = asked \ {c} /\ wire' = wire \cup {c}
    /\ UNCHANGED <<call, waiting, slot, routing, reader, failure, closed>>

\* read: the caller is looked up and taken off under the mutex, and served
\* after it; a reply nobody waits for is dropped.
Route(c) ==
    /\ reader = "reading" /\ routing = {} /\ c \in wire /\ wire' = wire \ {c}
    /\ routing' = waiting \cap {c} /\ waiting' = waiting \ {c}
    /\ UNCHANGED <<call, slot, asked, reader, failure, closed>>

Deliver(c) ==
    /\ c \in routing /\ slot[c] = "empty"
    /\ slot' = [slot EXCEPT ![c] = "reply"] /\ routing' = {}
    /\ UNCHANGED <<call, waiting, wire, asked, reader, failure, closed>>

\* failAll, when the browser goes away or the socket was closed.
FailAll ==
    /\ reader = "reading" /\ routing = {} /\ reader' = "ended" /\ failure' = TRUE
    /\ slot' = [c \in Callers |-> IF c \in waiting THEN "closed" ELSE slot[c]]
    /\ waiting' = {} /\ asked' = {} /\ wire' = {}
    /\ UNCHANGED <<call, routing, closed>>

Shut ==
    /\ ~closed /\ closed' = TRUE
    /\ UNCHANGED <<call, waiting, slot, routing, wire, asked, reader, failure>>

CdpNext ==
    \/ \E c \in Callers :
        \/ Register(c) \/ Send(c) \/ Cancel(c) \/ TakeReply(c) \/ TakeFailure(c)
        \/ Answer(c) \/ Route(c) \/ Deliver(c)
    \/ FailAll \/ Shut
=============================================================================
