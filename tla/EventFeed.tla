------------------------------ MODULE EventFeed ------------------------------
(***************************************************************************)
(* The event streams of the HTTP API (handler.events) over one session.    *)
(* A stream asks for the events after its cursor, waits when there are     *)
(* none, asks whether its token is still the session's, and writes them.   *)
(* The client whose transport was lost reconnects over another TLS channel *)
(* with another token, while streams of the old channel may still be on    *)
(* their way.  Each statement the handler has the database run is a step.  *)
(*                                                                         *)
(* Of the session its status, its token binding and its log are kept       *)
(* (module SessionStore has the rest); bindings are numbered, and a TLS    *)
(* channel has the number of the token issued over it.  A notification     *)
(* that a stream misses costs it at most the five seconds after which it   *)
(* asks again, so waiting is asking again at any time.                     *)
(***************************************************************************)
EXTENDS Naturals, Sequences, FiniteSets

CONSTANTS
    Streams,        \* the requests for events
    MaxBatch,       \* maxEventBatch
    MaxLog,         \* bound on the events of the session
    MaxBindings     \* bound on reconnects

VARIABLES
    row,            \* status and token binding of the session
    log,            \* its events; "binding" is the one they were written under
    feed            \* the streams

feedVars == <<row, log, feed>>

Unopened == [at |-> "none", channel |-> 0, token |-> 0, from |-> 0, after |-> 0, batch |-> <<>>,
             terminal |-> FALSE, gone |-> FALSE, got |-> <<>>]

FeedInit ==
    /\ row = [status |-> "active", binding |-> 1]
    /\ log = <<[type |-> "acquired", binding |-> 1, by |-> 0]>>
    /\ feed = [s \in Streams |-> Unopened]

-----------------------------------------------------------------------------
\* What is done to the session.
Entry(type, by) == [type |-> type, binding |-> row.binding, by |-> by]
Logs(entry) == Len(log) < MaxLog /\ log' = Append(log, entry)
Ends == row.status # "released" /\ row' = [row EXCEPT !.status = "released"]
        /\ Logs(Entry("released", 0))
Untouched == UNCHANGED <<row, log>>

\* Any event of an open session.
Happens == /\ row.status = "active"
           /\ Logs(Entry("frame", 0)) /\ UNCHANGED <<row, feed>>
Release == Ends /\ UNCHANGED feed

\* The client, over a new channel and with a new token.
Reconnect ==
    /\ row.status = "disconnected" /\ row.binding < MaxBindings
    /\ row' = [status |-> "active", binding |-> row.binding + 1]
    /\ Logs([Entry("reconnected", 0) EXCEPT !.binding = @ + 1])
    /\ UNCHANGED feed

\* matchesSessionBinding.  Mutants: any token will do for a disconnect; a stream is
\* asked for its token when it is opened only.
AnyBinding(token) == TRUE
matchesSessionBinding(token) == row.binding = token

\* MarkDisconnected, in a context of its own that may end first.
MarkDisconnected(token) ==
    IF matchesSessionBinding(token) /\ row.status = "active"
    THEN row' = [row EXCEPT !.status = "disconnected"] /\ Logs(Entry("disconnected", token))
    ELSE Untouched

-----------------------------------------------------------------------------
\* One stream.
Moves(s, next) == feed' = [feed EXCEPT ![s] = next]
At(s, place) == Moves(s, [feed[s] EXCEPT !.at = place])

\* withToken: a token is good on the channel it was issued over.
Authorized(channel, token) == channel = token

\* ValidateSessionAccess ends a session whose time is over, and goes on.
OpensStream(s) ==
    /\ feed[s].at = "none"
    /\ \E channel, token \in 1 .. row.binding, from \in 0 .. Len(log) :
          Moves(s, [Unopened EXCEPT !.channel = channel, !.token = token, !.from = from, !.after = from,
                       !.at = IF Authorized(channel, token) /\ matchesSessionBinding(token)
                              THEN "query" ELSE "ended"])
    /\ Untouched \/ Ends

\* eventBatch, its first statement.
Batch(after) == SubSeq(log, after + 1, IF Len(log) - after > MaxBatch THEN after + MaxBatch ELSE Len(log))
QueryEvents(s) ==
    /\ feed[s].at = "query"
    /\ LET batch == Batch(feed[s].after)
       IN  IF batch = <<>> THEN At(s, "status")
           ELSE Moves(s, [feed[s] EXCEPT !.at = "access", !.batch = batch,
                             !.terminal = /\ row.status = "released"
                                          /\ batch[Len(batch)].type = "released"])
    /\ Untouched

\* Its second one, when there was no event.  WaitEvents then waits and asks again,
\* or has waited for as long as it was told to.
QueryStatus(s) ==
    /\ feed[s].at = "status"
    /\ IF row.status = "released" THEN Moves(s, [feed[s] EXCEPT !.at = "access", !.terminal = TRUE])
       ELSE At(s, "query") \/ At(s, "access")
    /\ Untouched

\* The database fails, or the client is gone while its stream waits.  (A first query
\* that fails in a context that goes on records nothing, as recordDisconnect may.)
QueryFails(s) ==
    /\ feed[s].at \in {"query", "status"}
    /\ At(s, "mark") /\ Untouched

\* The token is looked at after the events were read.  Mutant: when the stream was
\* opened, and not again.
AskedOnce(s) == TRUE
AccessHolds(s) == matchesSessionBinding(feed[s].token)

CheckAccess(s) ==
    /\ feed[s].at = "access"
    /\ IF AccessHolds(s) THEN At(s, "write") /\ (Untouched \/ Ends) ELSE At(s, "ended") /\ Untouched

\* What is written to a client that has gone may be lost without an error.
Write(s) ==
    /\ feed[s].at = "write" /\ feed[s].batch # <<>>
    /\ \/ Moves(s, [feed[s] EXCEPT !.batch = Tail(@), !.after = @ + 1, !.got = Append(@, Head(feed[s].batch))])
       \/ At(s, "mark")
    /\ Untouched

\* The deadline is that of the stream (StreamDuration).
Flush(s) ==
    /\ feed[s].at = "write" /\ feed[s].batch = <<>>
    /\ \/ At(s, "mark")
       \/ feed[s].gone /\ ~feed[s].terminal /\ At(s, "mark")
       \/ feed[s].terminal /\ At(s, "ended")
       \/ ~feed[s].gone /\ ~feed[s].terminal /\ (At(s, "query") \/ At(s, "ended"))
    /\ Untouched

recordDisconnect(s) ==
    /\ feed[s].at = "mark"
    /\ At(s, "ended")
    /\ MarkDisconnected(feed[s].token) \/ Untouched

StreamStep(s) ==
    \/ QueryEvents(s) \/ QueryStatus(s) \/ QueryFails(s)
    \/ CheckAccess(s) \/ Write(s) \/ Flush(s) \/ recordDisconnect(s)

\* The transport is lost.
Drop(s) ==
    /\ feed[s].at \notin {"none", "ended"} /\ ~feed[s].gone
    /\ Moves(s, [feed[s] EXCEPT !.gone = TRUE])
    /\ Untouched

FeedNext ==
    \/ Happens \/ Release \/ Reconnect
    \/ \E s \in Streams : OpensStream(s) \/ StreamStep(s) \/ Drop(s)

-----------------------------------------------------------------------------
\* A stream keeps to the token it was opened with: what it delivers is the log from
\* its cursor on, without a gap, over the channel of that token, and nothing that
\* happened after the client had reconnected over another channel; and however late
\* it finds out that its own transport is lost, it does not disconnect a session that
\* has reconnected meanwhile.
StreamKeepsToItsToken ==
    /\ \A s \in Streams :
          LET f == feed[s]
          IN  /\ f.got = SubSeq(log, f.from + 1, f.after)
              /\ \A i \in DOMAIN f.got : f.got[i].binding <= f.channel
    /\ \A i \in DOMAIN log : log[i].type = "disconnected" => log[i].by = log[i].binding
=============================================================================
