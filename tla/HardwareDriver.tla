---------------------------- MODULE HardwareDriver ----------------------------
(***************************************************************************)
(* Opening and closing the driver of a physical iOS device (internal/      *)
(* iosdevice: session.go, runner.go, driver.go): a tunnel on iOS 17 and    *)
(* later, a forwarded port, the runner served by a goroutine of its own,   *)
(* and the location session an open driver may hold.                       *)
(***************************************************************************)
VARIABLES
    at,       \* the step Open or Close is at; new, open, closed, failed
    held,     \* what the driver has made and what is left of it
    tried,    \* the resources whose removal was called since they were made
    ctx,      \* the context of the call: live or done
    managed,  \* the driver delivers the runner itself
    child,    \* the serving goroutine: off, running, ended (finished is closed)
    failing,  \* Open is undoing itself
    tunnelled \* the device runs iOS 17 or later

vars == <<at, held, tried, ctx, managed, child, failing, tunnelled>>

Resources == {"tunnel", "forward", "runner", "location"}

Init ==
    /\ at = "new" /\ held = {} /\ tried = {} /\ ctx = "live"
    /\ managed \in BOOLEAN /\ child = "off" /\ failing = FALSE /\ tunnelled \in BOOLEAN

Goes(from, to) == at = from /\ at' = to

\* Made, or nothing was made and Open goes where it undoes the rest.
Make(step, r, next, fail) ==
    /\ at = step
    /\ \/ at' = next /\ held' = held \cup {r} /\ tried' = tried \ {r} /\ UNCHANGED failing
       \/ at' = fail /\ failing' = TRUE /\ UNCHANGED <<held, tried>>
    /\ UNCHANGED <<ctx, managed, child, tunnelled>>

\* Closed, unless closing it failed: then it is forgotten all the same.
Drop(step, r, next) ==
    /\ Goes(step, next)
    /\ held' \in {held, held \ {r}} /\ tried' = tried \cup {r}
    /\ UNCHANGED <<ctx, managed, child, failing, tunnelled>>

-----------------------------------------------------------------------------
\* session.start and Open.

\* Not reachable, not paired, no version, or the call was over before.
Resolve ==
    /\ at = "new"
    /\ at' \in {"failed", IF tunnelled THEN "tunnel" ELSE "forward"}
    /\ ctx = "done" => at' = "failed"
    /\ UNCHANGED <<held, tried, ctx, managed, child, failing, tunnelled>>

StartTunnel == Make("tunnel", "tunnel", "enrich", "failed")

Enrich ==
    /\ at = "enrich"
    /\ \/ at' = "forward" /\ UNCHANGED failing
       \/ at' = "closeTunnel" /\ failing' = TRUE
    /\ UNCHANGED <<held, tried, ctx, managed, child, tunnelled>>

Forward == Make("forward", "forward", IF managed THEN "deliver" ELSE "ask", "closeTunnel")

\* The operator's runner answers, or session.stop.
AskOperator ==
    /\ at = "ask"
    /\ \/ at' = "open" /\ ctx = "live" /\ UNCHANGED failing
       \/ at' = "closeForward" /\ failing' = TRUE
    /\ UNCHANGED <<held, tried, ctx, managed, child, tunnelled>>

\* runner.start: the plan, the installation and the context come before the
\* goroutine, so what fails here is undone by session.stop alone.
Deliver ==
    /\ at = "deliver"
    /\ \/ /\ at' = "await" /\ ctx = "live" /\ child' = "running"
          /\ held' = held \cup {"runner"} /\ UNCHANGED failing
       \/ at' = "closeForward" /\ failing' = TRUE /\ UNCHANGED <<held, child>>
    /\ UNCHANGED <<tried, ctx, managed, tunnelled>>

\* Any answer on the forwarded port is the runner's.
Await ==
    /\ at = "await"
    /\ \/ at' = "open" /\ ctx = "live" /\ child = "running" /\ UNCHANGED failing
       \/ at' = "stopRunner" /\ failing' = TRUE  \* it ended, the context ended, or the budget
    /\ UNCHANGED <<held, tried, ctx, managed, child, tunnelled>>

-----------------------------------------------------------------------------
\* An open driver, and Close.

\* The new location session is open before the old one is closed.
SetLocation ==
    /\ Goes("open", "open") /\ ctx = "live"
    /\ held' = held \cup {"location"} /\ tried' = tried \ {"location"}
    /\ UNCHANGED <<ctx, managed, child, failing, tunnelled>>

\* Recordings and log captures, which Close stops first, are in Captures.
Close ==
    /\ Goes("open", IF managed THEN "stopRunner" ELSE "closeTools")
    /\ UNCHANGED <<held, tried, ctx, managed, child, failing, tunnelled>>

\* runner.stop: cancel, then wait for the goroutine.
CancelRunner ==
    /\ Goes("stopRunner", "joinRunner") /\ tried' = tried \cup {"runner"}
    /\ UNCHANGED <<held, ctx, managed, child, failing, tunnelled>>

JoinRunner ==
    /\ Goes("joinRunner", IF failing THEN "closeForward" ELSE "closeTools") /\ child = "ended"
    /\ UNCHANGED <<held, tried, ctx, managed, child, failing, tunnelled>>

CloseTools == Drop("closeTools", "location", "closeForward")

\* session.stop.
CloseForward == Drop("closeForward", "forward", "closeTunnel")

CloseTunnel == Drop("closeTunnel", "tunnel", IF failing THEN "failed" ELSE "closed")

-----------------------------------------------------------------------------
\* By itself, or cancelled.
RunnerEnds ==
    /\ child = "running" /\ child' = "ended" /\ held' = held \ {"runner"}
    /\ UNCHANGED <<at, tried, ctx, managed, failing, tunnelled>>

ContextEnds ==
    /\ at \notin {"open", "failed", "closed"} /\ ctx = "live" /\ ctx' = "done"
    /\ UNCHANGED <<at, held, tried, managed, child, failing, tunnelled>>

Step ==
    \/ Resolve \/ StartTunnel \/ Enrich \/ Forward \/ AskOperator \/ Deliver \/ Await
    \/ CancelRunner \/ JoinRunner \/ CloseTools \/ CloseForward \/ CloseTunnel

Next == Step \/ SetLocation \/ Close \/ RunnerEnds \/ ContextEnds

Phase ==
    IF at \in {"new", "open", "failed", "closed"} THEN at
    ELSE IF at \in {"stopRunner", "joinRunner", "closeTools", "closeForward", "closeTunnel"} /\ ~failing
    THEN "closing" ELSE "opening"

Spec == Init /\ [][Next]_vars
=============================================================================
