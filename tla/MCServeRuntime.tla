--------------------------- MODULE MCServeRuntime ---------------------------
\* Instance of ServeRuntime for TLC: two workers and two drivers.
EXTENDS ServeRuntime
=============================================================================
