---------------------------- MODULE MCQuarantine ----------------------------
\* Instance of Quarantine for TLC: two incarnations of a node.
EXTENDS Quarantine

\* Clients that give every request a key of its own.
OwnKeys(type, id) == <<type, id>>
=============================================================================
