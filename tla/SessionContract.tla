---------------------------- MODULE SessionContract ----------------------------
(***************************************************************************)
(* What contracts/device-session/v1 demands of a session's event log: the  *)
(* part of ValidateJSON (validateEvents in semantics.go) that reads the    *)
(* events in order and follows the session through them.  The store writes *)
(* the log, a client validates the transcript it was sent; nothing in the  *)
(* store calls the validator.                                              *)
(*                                                                         *)
(* Left out, because SessionStore does not keep it: the timestamps and the *)
(* expiries they are compared with, the requests the events answer, the    *)
(* tokens and the cursors of a reconnect.  A release with outcome "error"  *)
(* is the one whose request says lease_expired.                            *)
(***************************************************************************)
EXTENDS SessionStore

\* What the validator knows of the session after a prefix of its log.  The field
\* opened is not in the code: the stream the store has opened last.
Fresh == [state |-> "new", stream |-> 0, opened |-> 1, lastFrame |-> 0, frames |-> {},
          valid |-> TRUE]

\* The next fact: the rule of the event held, or an error was noted.
Checked(f, rule) == [f EXCEPT !.valid = @ /\ rule]

Acquired(f, e) == [Checked(f, f.state = "new") EXCEPT !.state = "active"]

\* Frames are numbered within a stream, and streams only grow.
FrameShown(f, e) ==
    LET later == e.stream > f.stream \/ (e.stream = f.stream /\ e.frame > f.lastFrame)
        ref == <<e.stream, e.frame>>
    IN  [Checked(f, f.state = "active" /\ later /\ ref \notin f.frames) EXCEPT
            !.stream = Max({@, e.stream}), !.lastFrame = e.frame, !.frames = @ \cup {ref}]

\* An acknowledgement names the frame its input was based on, and that frame was
\* in the log.  The code accepts it in the state "active" only.
InputAcked(f, e, ackStates) ==
    Checked(f, /\ f.state \in ackStates
               /\ e.input # 0
               /\ <<job[e.input].stream, job[e.input].frame>> \in f.frames)

Heartbeaten(f, e) == Checked(f, f.state = "active")

Disconnected(f, e) == [Checked(f, f.state = "active") EXCEPT !.state = "disconnected"]

\* A reconnect opens a stream of its own.  Its event carries the number, which the
\* log of SessionStore leaves out: sessions start with stream 1, every reconnect
\* takes the next.
Reconnected(f, e) ==
    LET opened == f.opened + 1
    IN  [Checked(f, f.state = "disconnected" /\ opened > f.stream) EXCEPT
            !.state = "active", !.stream = opened, !.opened = opened, !.lastFrame = 0]

Cancelled(f, e) ==
    [Checked(f, f.state \in {"active", "disconnected"}) EXCEPT !.state = "cancelled"]

Released(f, e) ==
    LET outcome == e.outcome = "error" \/ ((f.state = "cancelled") <=> (e.outcome = "cancelled"))
    IN  [Checked(f, f.state \in {"active", "disconnected", "cancelled"} /\ outcome) EXCEPT
            !.state = "released"]

Failed(f, e) == Checked(f, f.state # "new")

\* One event.  Nothing may follow a terminal release.
Follow(f, e, ackStates) ==
    IF f.state = "released" THEN Checked(f, FALSE)
    ELSE CASE e.type = "acquired" -> Acquired(f, e)
           [] e.type = "frame" -> FrameShown(f, e)
           [] e.type = "input_ack" -> InputAcked(f, e, ackStates)
           [] e.type = "heartbeat" -> Heartbeaten(f, e)
           [] e.type = "disconnected" -> Disconnected(f, e)
           [] e.type = "reconnected" -> Reconnected(f, e)
           [] e.type = "cancelled" -> Cancelled(f, e)
           [] e.type = "released" -> Released(f, e)
           [] e.type = "error" -> Failed(f, e)

Contiguous(log) == {e.seq : e \in log} = 1 .. Cardinality(log)

\* The log in the order of its numbers.
validateEvents(log, ackStates) ==
    LET At(n) == CHOOSE e \in log : e.seq = n
        facts[n \in 0 .. Cardinality(log)] ==
            IF n = 0 THEN Fresh ELSE Follow(facts[n - 1], At(n), ackStates)
    IN  Contiguous(log) /\ LET f == facts[Cardinality(log)] IN f.valid /\ f.state # "new"

-----------------------------------------------------------------------------
Logged == {s \in Sessions : EventsOf(s) # {}}

\* Whatever the clients, the workers, expiries, restarts and late reports do to a
\* session, the log the store has written is one the contract's validator accepts:
\* numbered without a gap although one transaction may write several events, in the
\* order of the session's life, frames in the order of their streams, nothing after
\* the release.  Acknowledgements are also let through while the client is away
\* (AcksWhileActive says where store and contract differ).
LogMeetsContract ==
    \A s \in Logged : validateEvents(EventsOf(s), {"active", "disconnected"})

\* The contract to the letter: "cross-document equalities, [...] lifecycle ordering,
\* frame links, [...] are normative semantic rules implemented by ValidateJSON"
\* (contracts/device-session/v1/README.md), and ValidateJSON has an input
\* acknowledged in an active session only.  A worker that ends its input while the
\* client is disconnected has it acknowledged all the same (CompleteInput asks for
\* a cancelled session only).
AcksWhileActive ==
    \A s \in Logged : validateEvents(EventsOf(s), {"active"})

=============================================================================
