------------------------------ MODULE WebDriver ------------------------------
(***************************************************************************)
(* Opening and closing the web driver (internal/web: driver.go, chrome.go) *)
(* that starts its own browser, or attaches to one that is not its own.    *)
(* The browser is a child of the context Open was called with.  How the    *)
(* calls of an attached page end is in CdpConnection.                      *)
(***************************************************************************)
VARIABLES
    at,       \* the step Open or Close is at; new, open, closed, failed
    held,     \* profile, chrome and conn, as far as they exist
    tried,    \* those whose removal was called
    ctx,      \* the context of Open: live or done
    managed,  \* the driver starts the browser
    child,    \* the browser: off, running, killed, gone
    done,     \* Chrome.done: nil, empty, full
    failing   \* Open is undoing itself

vars == <<at, held, tried, ctx, managed, child, done, failing>>

Resources == {"profile", "chrome", "conn"}

Init ==
    /\ at = "new" /\ held = {} /\ tried = {} /\ ctx = "live"
    /\ managed \in BOOLEAN /\ child = "off" /\ done = "nil" /\ failing = FALSE

-----------------------------------------------------------------------------
\* LaunchChrome.

\* A profile of its own unless one was configured, and no browser without it.
MakeProfile ==
    /\ at = "new" /\ managed
    /\ \/ at' = "start" /\ held' \in {held, held \cup {"profile"}}
       \/ at' = "failed" /\ UNCHANGED held
    /\ UNCHANGED <<tried, ctx, managed, child, done, failing>>

StartChrome ==
    /\ at = "start"
    /\ \/ /\ ctx = "live" /\ at' = "devtools" /\ child' = "running" /\ done' = "empty"
          /\ held' = held \cup {"chrome"} /\ UNCHANGED tried
       \/ /\ at' = "failed" /\ held' \in {held, held \ {"profile"}} /\ tried' = tried \cup {"profile"}
          /\ UNCHANGED <<child, done>>
    /\ UNCHANGED <<ctx, managed, failing>>

DevToolsAnswer ==
    /\ at = "devtools" /\ ctx = "live" /\ at' = "attach"
    /\ UNCHANGED <<held, tried, ctx, managed, child, done, failing>>

\* waitForDevTools: the browser's exit, received and forgotten so that Stop
\* does not wait for it again; the context; or twenty seconds.  Mutant: the
\* channel is kept.
ReceivedKept == "empty"
Received == "nil"

DevToolsFail ==
    /\ at = "devtools" /\ at' = "kill" /\ failing' = TRUE
    /\ done' = IF done = "full" THEN Received ELSE done
    /\ UNCHANGED <<held, tried, ctx, managed, child>>

-----------------------------------------------------------------------------
\* attach.

Attach ==
    /\ (at = "attach" \/ (at = "new" /\ ~managed))
    /\ \/ at' = "enable" /\ ctx = "live" /\ held' = held \cup {"conn"} /\ UNCHANGED failing
       \/ at' = "kill" /\ failing' = TRUE /\ UNCHANGED held
    /\ UNCHANGED <<tried, ctx, managed, child, done>>

Enable ==
    /\ at = "enable"
    /\ \/ at' = "open" /\ ctx = "live" /\ UNCHANGED <<held, tried, failing>>
       \/ /\ at' = "kill" /\ failing' = TRUE
          /\ held' = held \ {"conn"} /\ tried' = tried \cup {"conn"}
    /\ UNCHANGED <<ctx, managed, child, done>>

-----------------------------------------------------------------------------
\* Close, and Chrome.Stop after it or after a failed Open.

Close ==
    /\ at = "open" /\ at' = "kill"
    /\ held' = held \ {"conn"} /\ tried' = tried \cup {"conn"}
    /\ UNCHANGED <<ctx, managed, child, done, failing>>

Ended == IF failing THEN "failed" ELSE "closed"

\* No browser of its own: nothing to stop.
Kill ==
    /\ at = "kill"
    /\ IF managed
       THEN /\ at' = "join" /\ tried' = tried \cup {"chrome"}
            /\ child' = IF child = "running" THEN "killed" ELSE child
       ELSE at' = Ended /\ UNCHANGED <<tried, child>>
    /\ UNCHANGED <<held, ctx, managed, done, failing>>

Join ==
    /\ at = "join" /\ at' = "profile"
    /\ done # "empty" /\ done' = "nil"
    /\ UNCHANGED <<held, tried, ctx, managed, child, failing>>

RemoveProfile ==
    /\ at = "profile" /\ at' = Ended
    /\ held' \in {held, held \ {"profile"}} /\ tried' = tried \cup {"profile"}
    /\ UNCHANGED <<ctx, managed, child, done, failing>>

-----------------------------------------------------------------------------
\* By itself, killed, or because its context ended; Wait returns within
\* WaitDelay of that.
ChromeExits ==
    /\ child \in {"running", "killed"} /\ child' = "gone"
    /\ held' = held \ {"chrome"} /\ done' = "full"
    /\ UNCHANGED <<at, tried, ctx, managed, failing>>

ContextEnds ==
    /\ at \notin {"new", "failed", "closed"} /\ ctx = "live" /\ ctx' = "done"
    /\ child' = IF child = "running" THEN "killed" ELSE child
    /\ UNCHANGED <<at, held, tried, managed, done, failing>>

Step ==
    \/ MakeProfile \/ StartChrome \/ DevToolsAnswer \/ DevToolsFail \/ Attach \/ Enable
    \/ Kill \/ Join \/ RemoveProfile

Next == Step \/ Close \/ ChromeExits \/ ContextEnds

Phase ==
    IF at \in {"new", "open", "failed", "closed"} THEN at
    ELSE IF at \in {"kill", "join", "profile"} /\ ~failing THEN "closing" ELSE "opening"

Spec == Init /\ [][Next]_vars
=============================================================================
