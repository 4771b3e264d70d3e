---------------------------- MODULE ManagedRunner ----------------------------
(***************************************************************************)
(* Opening and closing the iOS simulator driver (internal/ios/driver.go,   *)
(* managed_runner.go): a driver with a runner bundle starts xcodebuild on  *)
(* its port, waits until its own runner answers there, starts it again     *)
(* while the simulator is busy installing it, and stops it in the end.     *)
(*                                                                         *)
(* Another process may take the port whenever it is free.  The child's     *)
(* exit reaches the driver twice, through a latch that is read and through *)
(* a channel whose one value is consumed.                                  *)
(***************************************************************************)
EXTENDS Naturals

CONSTANT Attempts  \* runnerInstallBusyAttempts

VARIABLES
    at,       \* the step Open or Close is at; new, open, closed, failed
    held,     \* child and logs, as far as they exist
    tried,    \* those whose removal was called
    ctx,      \* the start-up budget and the caller's context: live or done
    managed,  \* the driver has a runner bundle
    child,    \* off, running, gone, latched (exit.set), reported (done <- reason)
    attempt,  \* which start this is
    busy,     \* the error of the last start has the install-busy signature
    done,     \* the exit channel: empty, full, taken
    port      \* who answers on the port: none, ours, stranger

runnerVars == <<attempt, busy, done, port>>
vars == <<at, held, tried, ctx, managed, child, runnerVars>>

Resources == {"child", "logs"}

Init ==
    /\ at = "new" /\ held = {} /\ tried = {} /\ ctx = "live"
    /\ managed \in BOOLEAN /\ child = "off"
    /\ attempt = 1 /\ busy = FALSE /\ done = "empty" /\ port = "none"

-----------------------------------------------------------------------------
\* Open.

\* The keyboard introduction cannot be marked shown, or the budget is unreadable.
Prepare ==
    /\ at = "new" /\ at' \in {IF managed THEN "probe" ELSE "status", "failed"}
    /\ UNCHANGED <<held, tried, ctx, managed, child, runnerVars>>

\* Without a bundle the operator's runner answers or Open fails.
AskOperator ==
    /\ at = "status"
    /\ at' \in (IF port # "none" /\ ctx = "live" THEN {"open", "failed"} ELSE {"failed"})
    /\ UNCHANGED <<held, tried, ctx, managed, child, runnerVars>>

\* A runner that already answers cannot be the one about to be started.
Probe ==
    /\ at = "probe"
    /\ \/ at' = "failed"
       \/ ctx = "live" /\ at' = "attempt"   \* nothing, or nothing usable, answered
    /\ at' = "failed" => ctx = "done" \/ port # "none"
    /\ UNCHANGED <<held, tried, ctx, managed, child, runnerVars>>

\* startManagedRunnerAttempt: no context left, no id, no directory, or no
\* child; a directory without a child is removed at once.
StartFails ==
    /\ at = "attempt" /\ at' = "failed"
    /\ UNCHANGED <<held, tried, ctx, managed, child, runnerVars>>

Start ==
    /\ at = "attempt" /\ ctx = "live"
    /\ at' = "await" /\ child' = "running" /\ done' = "empty"
    /\ held' = held \cup Resources /\ tried' = tried \ Resources
    /\ UNCHANGED <<ctx, managed, attempt, busy, port>>

\* awaitRunner: whoever holds the port answers, and only the id tells the
\* driver's own runner from another.
Accepts == port = "ours"

RunnerAnswers ==
    /\ at = "await" /\ ctx = "live" /\ Accepts
    /\ at' = "open"
    /\ UNCHANGED <<held, tried, ctx, managed, child, runnerVars>>

\* The exit of the child that lost the port is part of the error, if it is in.
\* Otherwise the error of awaitRunner is the exit of the child, or the end of
\* the context together with what the child has printed so far.
AwaitFails ==
    /\ at = "await" /\ at' = "stop"
    /\ \/ port = "stranger" /\ done # "full" /\ busy' = FALSE /\ UNCHANGED done
       \/ done = "full" /\ done' = "taken" /\ busy' \in BOOLEAN
       \/ ctx = "done" /\ busy' \in BOOLEAN /\ UNCHANGED done
    /\ UNCHANGED <<held, tried, ctx, managed, child, attempt, port>>

\* Busy, with an attempt and a context left: again after the delay.
Retry ==
    /\ at = "retry"
    /\ IF busy /\ attempt < Attempts /\ ctx = "live"
       THEN at' = "attempt" /\ attempt' = attempt + 1
       ELSE at' = "failed" /\ UNCHANGED attempt
    /\ UNCHANGED <<held, tried, ctx, managed, child, busy, done, port>>

-----------------------------------------------------------------------------
\* stopRunnerProcess, after a failed start and in Close.

Closing == at \in {"closeStop", "closeWait", "closeLogs"}

CloseDriver ==
    /\ at = "open" /\ at' = IF managed THEN "closeStop" ELSE "closed"
    /\ UNCHANGED <<held, tried, ctx, managed, child, runnerVars>>

\* A child whose exit is latched is not signalled; any other is.
SignalChild ==
    /\ at \in {"stop", "closeStop"}
    /\ at' = IF child \in {"latched", "reported"}
             THEN IF at = "stop" THEN "stopLogs" ELSE "closeLogs"
             ELSE IF at = "stop" THEN "stopWait" ELSE "closeWait"
    /\ tried' = tried \cup {"child"}
    /\ UNCHANGED <<held, ctx, managed, child, runnerVars>>

\* Its exit arrives, or it is killed after ten seconds.
WaitForChild ==
    /\ at \in {"stopWait", "closeWait"}
    /\ at' = IF at = "stopWait" THEN "stopLogs" ELSE "closeLogs"
    /\ \/ done = "full" /\ done' = "taken" /\ UNCHANGED <<held, child, port>>
       \/ /\ done # "full" /\ held' = held \ {"child"}
          /\ child' = IF child = "running" THEN "gone" ELSE child
          /\ port' = IF port = "ours" THEN "none" ELSE port
          /\ UNCHANGED done
    /\ UNCHANGED <<tried, ctx, managed, attempt, busy>>

\* removeDerivedData, whose error nobody sees.
RemoveLogs ==
    /\ at \in {"stopLogs", "closeLogs"}
    /\ at' = IF at = "stopLogs" THEN "retry" ELSE "closed"
    /\ held' \in {held, held \ {"logs"}} /\ tried' = tried \cup {"logs"}
    /\ UNCHANGED <<ctx, managed, child, runnerVars>>

-----------------------------------------------------------------------------
\* The child and the goroutine that waits for it.

ChildServes ==
    /\ child = "running" /\ port = "none" /\ port' = "ours"
    /\ UNCHANGED <<at, held, tried, ctx, managed, child, attempt, busy, done>>

\* By itself, or because it was signalled.
ChildExits ==
    /\ child = "running" /\ child' = "gone" /\ held' = held \ {"child"}
    /\ port' = IF port = "ours" THEN "none" ELSE port
    /\ UNCHANGED <<at, tried, ctx, managed, attempt, busy, done>>

\* The exit is latched before it is sent: whoever has received it finds it
\* latched.  Mutant: it is sent first.
SendFirst ==
    \/ child = "gone" /\ child' = "sent" /\ done' = "full"
    \/ child = "sent" /\ child' = "reported" /\ UNCHANGED done
LatchFirst ==
    \/ child = "gone" /\ child' = "latched" /\ UNCHANGED done
    \/ child = "latched" /\ child' = "reported" /\ done' = "full"

ChildReported ==
    /\ LatchFirst
    /\ UNCHANGED <<at, held, tried, ctx, managed, attempt, busy, port>>

\* Another process takes the port, or leaves it.
Stranger ==
    /\ \/ port = "none" /\ port' = "stranger"
       \/ port = "stranger" /\ port' = "none"
    /\ UNCHANGED <<at, held, tried, ctx, managed, child, attempt, busy, done>>

ContextEnds ==
    /\ at \notin {"new", "open", "failed", "closed"} /\ ctx = "live" /\ ctx' = "done"
    /\ UNCHANGED <<at, held, tried, managed, child, runnerVars>>

Step ==
    \/ Prepare \/ AskOperator \/ Probe \/ StartFails \/ Start \/ RunnerAnswers \/ AwaitFails
    \/ Retry \/ SignalChild \/ WaitForChild \/ RemoveLogs

Next ==
    \/ Step \/ CloseDriver \/ ChildServes \/ ChildExits \/ ChildReported
    \/ Stranger \/ ContextEnds

Phase ==
    IF at \in {"new", "open", "failed", "closed"} THEN at
    ELSE IF Closing THEN "closing" ELSE "opening"

Spec == Init /\ [][Next]_vars
=============================================================================
