--------------------------- MODULE DriverContract ---------------------------
(***************************************************************************)
(* What a device session (DeviceSession.Execute, internal/cli/session.go)  *)
(* relies on when it opens and closes a driver.  A session whose Open      *)
(* failed never calls Close, so an Open that fails has to undo what it     *)
(* did; and Close has to undo all of it.  A driver may only leave behind   *)
(* what it called the removal of and could not remove.                     *)
(***************************************************************************)
CONSTANT Resources  \* what a driver makes on the host and on the device

VARIABLES
    phase,  \* new, opening, open, closing; failed or closed at the end
    held,   \* the resources that exist
    tried   \* the resources whose removal was called and not made up for since

vars == <<phase, held, tried>>

Init == phase = "new" /\ held = {} /\ tried = {}

\* Open was called, and makes resources or takes them back.
Opening ==
    /\ phase \in {"new", "opening"} /\ phase' = "opening"
    /\ held' \subseteq Resources /\ tried' \subseteq Resources

Opened ==
    /\ phase = "opening" /\ phase' = "open"
    /\ held \subseteq held' /\ tried' \subseteq tried

\* An open driver makes and removes resources on request.
Use ==
    /\ phase = "open" /\ phase' = "open"
    /\ held' \subseteq Resources /\ tried' \subseteq Resources

\* Close only ever removes.
Closing ==
    /\ phase \in {"open", "closing"} /\ phase' = "closing"
    /\ held' \subseteq held /\ tried \subseteq tried'

Fail ==
    /\ phase \in {"new", "opening"} /\ phase' = "failed"
    /\ held' \subseteq tried' /\ tried' \subseteq Resources

Closed ==
    /\ phase \in {"open", "closing"} /\ phase' = "closed"
    /\ held' \subseteq held \cap tried' /\ tried \subseteq tried'

\* A resource that was left behind may still go away by itself.
Outlived ==
    /\ phase \in {"failed", "closed"} /\ phase' = phase
    /\ held' \subseteq held /\ tried' = tried

Next ==
    \/ Opening \/ Opened \/ Use \/ Closing
    \/ Fail \/ Closed \/ Outlived

Spec == Init /\ [][Next]_vars
=============================================================================
