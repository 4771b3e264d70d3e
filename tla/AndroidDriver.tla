--------------------------- MODULE AndroidDriver ---------------------------
(***************************************************************************)
(* Opening and closing the Android driver (internal/android/driver.go) and *)
(* the Chrome DevTools attachment an open driver may add                   *)
(* (webview_devtools.go).  A managed driver installs its agent, starts     *)
(* the instrumentation and waits for it; one without APKs only forwards    *)
(* the port and asks.                                                      *)
(*                                                                         *)
(* A call of adb that fails may have had its effect or not, and one whose  *)
(* context has ended has none.  Recordings and logs are in Captures.       *)
(***************************************************************************)
CONSTANT AdbFails  \* a call of adb may fail although its context is live

VARIABLES
    at,       \* the step Open or Close is at; new, open, closed, failed
    held,     \* what the driver has made and what is left of it
    tried,    \* the resources whose removal was called since they were made
    ctx,      \* the context of the call: live or done
    managed,  \* the driver has the agent's APKs
    child,    \* the am instrument child
    doubt     \* forwards that adb made although it reported an error

vars == <<at, held, tried, ctx, managed, child, doubt>>

Resources == {"app", "test", "forward", "agent", "conn", "page", "pageForward"}

Init ==
    /\ at = "new" /\ held = {} /\ tried = {} /\ ctx = "live"
    /\ managed \in BOOLEAN /\ child = "off" /\ doubt = {}

\* What a call of adb that errs may leave of the effect it was meant to have.
ErrsTo(after) ==
    IF ctx = "done" THEN {held} ELSE IF AdbFails THEN {held, after} ELSE {}

\* A call of adb that makes r, on to next, or to fail when it errs.
Make(step, r, next, fail) ==
    /\ at = step /\ tried' = tried \ {r}
    /\ \/ ctx = "live" /\ held' = held \cup {r} /\ at' = next
       \/ held' \in ErrsTo(held \cup {r}) /\ at' = fail
    /\ UNCHANGED <<managed, child>>

\* A call of adb that removes r; its error is kept for later or dropped.
Drop(step, r, next) ==
    /\ at = step /\ at' = next
    /\ held' \in ErrsTo(held \ {r}) \cup (IF ctx = "live" THEN {held \ {r}} ELSE {})
    /\ tried' = tried \cup {r}
    /\ UNCHANGED <<ctx, managed, child, doubt>>

-----------------------------------------------------------------------------
\* openManagedAgent, step by step.

\* The startup budget may be unreadable, before anything was done.
OpenManaged ==
    /\ at = "new" /\ managed
    /\ at' \in {"uninstallApp", "failed"}
    /\ UNCHANGED <<held, tried, ctx, managed, child, doubt>>

UninstallFirst ==
    \/ Drop("uninstallApp", "app", "uninstallTest")
    \/ Drop("uninstallTest", "test", "installApp")

\* fail: the rollback has a context of its own, and undoes a forward only
\* when one was attempted.
InstallAgent ==
    \/ Make("installApp", "app", "installTest", "undoApp")
    \/ Make("installTest", "test", "allowMock", "undoApp")

Install ==
    /\ InstallAgent
    /\ ctx' = IF at' = "undoApp" THEN "live" ELSE ctx
    /\ UNCHANGED doubt

AllowMock ==
    /\ at = "allowMock"
    /\ \/ ctx = "live" /\ at' = "forward" /\ UNCHANGED ctx
       \/ ErrsTo(held) # {} /\ at' = "undoApp" /\ ctx' = "live"
    /\ UNCHANGED <<held, tried, managed, child, doubt>>

\* Mutant: the forward counts as attempted only once it was made.
ForwardMadeOnly == "undoApp"
ForwardFailsTo == "undoForward"

ForwardAdd ==
    /\ managed /\ Make("forward", "forward", "instrument", ForwardFailsTo)
    /\ ctx' = IF at' = ForwardFailsTo THEN "live" ELSE ctx
    /\ UNCHANGED doubt

\* The instrumentation runs under a context detached from the caller's.
Instrument ==
    /\ at = "instrument" /\ at' = "await"
    /\ child' = "running" /\ held' = held \cup {"agent"} /\ tried' = tried \ {"agent"}
    /\ UNCHANGED <<ctx, managed, doubt>>

\* The child ends by itself: cleanly, with a refusal in its output, or killed.
InstrumentExits ==
    /\ \/ child = "running" /\ child' \in {"exitedUnread", "refusedUnread"}
       \/ child = "stopping" /\ child' = "stopped"
    /\ held' = held \ {"agent"}
    /\ UNCHANGED <<at, tried, ctx, managed, doubt>>

\* awaitAgent: an agent that answers through the forward ends the wait.
AgentAnswers ==
    /\ at = "await" /\ ctx = "live" /\ "forward" \in held
    /\ child \in {"running", "exitedUnread", "exited"}
    /\ at' = "open" /\ held' = held \cup {"conn"} /\ tried' = tried \ {"conn"}
    /\ UNCHANGED <<ctx, managed, child, doubt>>

\* A clean exit is read once and the poll goes on.
SeeCleanExit ==
    /\ at = "await" /\ child = "exitedUnread" /\ child' = "exited"
    /\ UNCHANGED <<at, held, tried, ctx, managed, doubt>>

\* Refused, cancelled, or out of time.  rollbackManagedOpen cancels the
\* instrumentation first; no connection is left of the last probe.
AwaitFails ==
    /\ at = "await"
    /\ at' = "undoForward" /\ ctx' = "live"
    /\ child' = IF child = "running" THEN "stopping" ELSE child
    /\ tried' = tried \cup {"agent"}
    /\ UNCHANGED <<held, managed, doubt>>

Undo ==
    \/ Drop("undoForward", "forward", "undoApp")
    \/ Drop("undoApp", "app", "undoTest")
    \/ Drop("undoTest", "test", "undoWait")

\* The rollback waits for the instrumentation within its own time.
UndoWait ==
    /\ at = "undoWait" /\ at' = "failed"
    /\ child # "stopping" \/ ctx = "done"
    /\ UNCHANGED <<held, tried, ctx, managed, child, doubt>>

-----------------------------------------------------------------------------
\* Open without APKs.

OpenOperator ==
    /\ at = "new" /\ ~managed /\ at' = "forwardOnly"
    /\ UNCHANGED <<held, tried, ctx, managed, child, doubt>>

\* ForwardAdd, whose error is returned as it is.
ForwardOnly ==
    /\ Make("forwardOnly", "forward", "dial", "failed")
    /\ doubt' = IF at' = "failed" THEN held' ELSE {}
    /\ UNCHANGED ctx

\* Dial and the first question to the agent.
DialAgent ==
    /\ at = "dial"
    /\ \/ /\ ctx = "live" /\ at' = "open" /\ held' = held \cup {"conn"}
          /\ UNCHANGED ctx
       \/ at' = "undialled" /\ UNCHANGED <<held, ctx>>                \* Dial failed
       \/ at' = "undialled" /\ ctx' = "live" /\ UNCHANGED held         \* the agent did not answer
    /\ UNCHANGED <<tried, managed, child, doubt>>

Undial == Drop("undialled", "forward", "failed")

-----------------------------------------------------------------------------
\* SetAndroidChromeDevToolsEnabled on an open driver.

\* One attempt per socket the device publishes; at most one is left of each.
EnableDevTools ==
    /\ at = "open" /\ "page" \notin held /\ at' = "attach"
    /\ UNCHANGED <<held, tried, ctx, managed, child, doubt>>

\* ForwardAbstract; a failed one is not followed by a removal.
AttachDevTools ==
    /\ at = "attach"
    /\ \/ ctx = "live" /\ held' = held \cup {"pageForward"} /\ tried' = tried \ {"pageForward"}
          /\ at' = "dialPage"
          /\ UNCHANGED doubt
       \/ /\ at' \in {"attach", "open"} /\ UNCHANGED tried
          /\ held' \in ErrsTo(held \cup {"pageForward"})
          /\ doubt' = doubt \cup (held' \ held)
    /\ UNCHANGED <<ctx, managed, child>>

DialWebView ==
    /\ at = "dialPage"
    /\ \/ ctx = "live" /\ at' = "open" /\ held' = held \cup {"page"} /\ tried' = tried \ {"page"}
       \/ at' = "undialPage" /\ UNCHANGED <<held, tried>>
    /\ UNCHANGED <<ctx, managed, child, doubt>>

\* The forward of a failed attempt is removed under the caller's context.
UndialPage == \E next \in {"attach", "open"} : Drop("undialPage", "pageForward", next)

DisableDevTools ==
    /\ at = "open" /\ "page" \in held
    /\ at' = "unforwardPage" /\ held' = held \ {"page"} /\ tried' = tried \cup {"page"}
    /\ UNCHANGED <<ctx, managed, child, doubt>>

UnforwardPage == Drop("unforwardPage", "pageForward", "open")

-----------------------------------------------------------------------------
\* Close, under a context of its own.  The connections are closed at once.
CloseDriver ==
    /\ at = "open" /\ ctx' = "live"
    /\ held' = held \ {"conn", "page"} /\ tried' = tried \cup {"conn", "page"}
    /\ at' = IF "page" \in held THEN "closePage" ELSE "closeAgent"
    /\ UNCHANGED <<managed, child, doubt>>

ClosePage == Drop("closePage", "pageForward", "closeAgent")

\* The instrumentation is cancelled and not waited for.
CloseInstrumentation ==
    /\ at = "closeAgent" /\ at' = "closeForward"
    /\ IF managed
       THEN /\ tried' = tried \cup {"agent"}
            /\ child' = IF child = "running" THEN "stopping" ELSE child
       ELSE UNCHANGED <<tried, child>>
    /\ UNCHANGED <<held, ctx, managed, doubt>>

CloseForward == Drop("closeForward", "forward", IF managed THEN "closeApp" ELSE "closed")

CloseAgent ==
    \/ Drop("closeApp", "app", "closeTest")
    \/ Drop("closeTest", "test", "closed")

-----------------------------------------------------------------------------
\* The run is interrupted, or a call runs out of its time.
ContextEnds ==
    /\ at \notin {"new", "failed", "closed"} /\ ctx = "live" /\ ctx' = "done"
    /\ UNCHANGED <<at, held, tried, managed, child, doubt>>

Step ==
    \/ OpenManaged \/ UninstallFirst \/ Install \/ AllowMock \/ ForwardAdd \/ Instrument
    \/ AgentAnswers \/ SeeCleanExit \/ AwaitFails \/ Undo \/ UndoWait
    \/ OpenOperator \/ ForwardOnly \/ DialAgent \/ Undial
    \/ AttachDevTools \/ DialWebView \/ UndialPage \/ UnforwardPage
    \/ ClosePage \/ CloseInstrumentation \/ CloseForward \/ CloseAgent

Next ==
    \/ Step \/ EnableDevTools \/ DisableDevTools \/ CloseDriver
    \/ InstrumentExits \/ ContextEnds

Phase ==
    IF at \in {"new", "open", "failed", "closed"} THEN at
    ELSE IF at \in {"attach", "dialPage", "undialPage", "unforwardPage"} THEN "open"
    ELSE IF at \in {"closePage", "closeAgent", "closeForward", "closeApp", "closeTest"} THEN "closing"
    ELSE "opening"

\* What the driver does not answer for: what it tried to remove, and a forward
\* that adb made although it reported an error.
Answered == tried \cup doubt

Spec == Init /\ [][Next]_vars
=============================================================================
