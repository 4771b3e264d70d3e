-------------------------- MODULE MCConcurrentClaim --------------------------
\* Instance of ConcurrentClaim for TLC: one process, two inputs of one session,
\* and one claim statement in progress while the other claims are made.
EXTENDS ConcurrentClaim, SessionContract

\* Clients that give every request a key of its own.
OwnKeys(type, id) == <<type, id>>

\* What turns the session's course: a later incarnation of its node, a later stream, a
\* heartbeat.  A behaviour is followed while it has seen few of them.
Turns ==
    Cardinality({n \in Nodes : node[n].epoch > 1})
    + Cardinality({s \in Sessions : session[s].stream > 1})
    + Cardinality({e \in events : e.type = "heartbeat"})

MaxTurns == 1
FewTurns == Turns <= MaxTurns
=============================================================================
