------------------------- MODULE MCSessionRefinement -------------------------
\* Instance of SessionRefinement for TLC.
EXTENDS SessionRefinement

\* Clients that give every request a key of its own.
OwnKeys(type, id) == <<type, id>>

\* What turns a session's course: a later session, a later incarnation of its node, a
\* later stream, a heartbeat.  A behaviour is followed while it has seen few of them.
Sessioned == {s \in Sessions : session[s].status # "none"}
Turns ==
    Cardinality(Sessioned)
    + Cardinality({n \in Nodes : node[n].epoch > 1})
    + Cardinality({s \in Sessions : session[s].stream > 1})
    + Cardinality({e \in events : e.type = "heartbeat"})

MaxTurns == 2
FewTurns == Turns <= MaxTurns
=============================================================================
