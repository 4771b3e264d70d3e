---------------------------- MODULE ScriptRuntime ----------------------------
(***************************************************************************)
(* The JavaScript runtime of one root flow: one interpreter, used by one   *)
(* evaluation at a time.  Environment names are laid over the globals of   *)
(* the scripts for one evaluation; the end of a context interrupts the     *)
(* interpreter from another goroutine.                                     *)
(***************************************************************************)
EXTENDS Integers, Sequences, SequencesExt

CONSTANTS
    Names,           \* names a script or an environment may use
    Values,          \* what they may hold
    Absent,          \* no such variable
    MaxEvaluations,  \* bound: evaluations
    MaxScopes        \* bound: scopes pushed and not popped

VARIABLES
    globals,    \* the interpreter's globals
    own,        \* what the scripts themselves left in them
    env, envStack,
    transient, shadowedValues, \* names laid over by the environment, and what they hide
    restoreTo,  \* the environment to go back to after a sub-scope
    evaluation, \* "idle", "running", "http" or "leaving"
    fresh,      \* the script of the evaluation has not written yet
    cancelled,  \* the evaluation's context has ended
    alarms,     \* goroutines about to interrupt the interpreter
    interrupt,  \* the interpreter's flag
    outcome,    \* of the last evaluation
    ended, count

scopeVars == <<globals, own, env, envStack, transient, shadowedValues, restoreTo>>
callVars == <<evaluation, fresh, cancelled, alarms, interrupt, outcome>>
jsVars == <<scopeVars, callVars, ended, count>>

Empty == [n \in Names |-> Absent]
NoRestore == [n \in {} |-> Absent]

JSInit ==
    /\ globals = Empty /\ own = Empty /\ env = Empty /\ envStack = <<>>
    /\ transient = {} /\ shadowedValues = Empty /\ restoreTo = NoRestore
    /\ evaluation = "idle" /\ fresh = FALSE /\ cancelled = FALSE /\ alarms = 0 /\ interrupt = FALSE
    /\ outcome = "none" /\ ended = FALSE /\ count = 0

-----------------------------------------------------------------------------
\* What lies under the names of the last environment.
ClearTransients == [n \in Names |-> IF n \in transient THEN Absent ELSE globals[n]]
Uncovered == [n \in Names |-> IF n \in transient THEN shadowedValues[n] ELSE globals[n]]

Overlay(under, effective) == [n \in Names |-> IF effective[n] # Absent THEN effective[n] ELSE under[n]]

\* A request that is refused, because the runtime is closed, its context has ended
\* or an environment value is missing, changes nothing.
Evaluate ==
    /\ evaluation = "idle" /\ ~ended /\ count < MaxEvaluations /\ count' = count + 1
    /\ \E request \in [Names -> Values \cup {Absent}], sub \in BOOLEAN :
        LET effective == Overlay(env, request) IN
        /\ env' = effective /\ restoreTo' = IF sub THEN env ELSE NoRestore
        /\ globals' = Overlay(Uncovered, effective)
        /\ shadowedValues' = Uncovered
        /\ transient' = {n \in Names : effective[n] # Absent}
    /\ evaluation' = "running" /\ fresh' = TRUE /\ cancelled' = FALSE /\ outcome' = "none"
    /\ UNCHANGED <<own, envStack, alarms, interrupt, ended>>

\* The script assigns a global; one laid over by the environment is the overlay's.
Assign ==
    /\ evaluation = "running" /\ ~interrupt
    /\ \E n \in Names, v \in Values :
        /\ globals' = [globals EXCEPT ![n] = v]
        /\ own' = IF n \in transient THEN own ELSE [own EXCEPT ![n] = v]
    /\ fresh' = FALSE
    /\ UNCHANGED <<env, envStack, transient, shadowedValues, restoreTo, evaluation, cancelled, alarms,
                   interrupt, outcome, ended, count>>

\* A request runs under the evaluation's context; one that cannot be built, fails or
\* is cut off is an exception of the script, which it may catch.
executeHTTPRequest ==
    /\ evaluation = "running" /\ ~interrupt /\ evaluation' = "http"
    /\ UNCHANGED <<scopeVars, fresh, cancelled, alarms, interrupt, outcome, ended, count>>

Respond ==
    /\ evaluation = "http" /\ evaluation' = "running"
    /\ UNCHANGED <<scopeVars, fresh, cancelled, alarms, interrupt, outcome, ended, count>>

\* The script ends, or the interpreter finds its flag set.
RunScript ==
    /\ evaluation = "running"
    /\ outcome' \in IF interrupt THEN {"interrupted"} ELSE {"value", "thrown"}
    /\ evaluation' = "leaving"
    /\ UNCHANGED <<scopeVars, fresh, cancelled, alarms, interrupt, ended, count>>

\* The context ends while the evaluation has its function registered with it.
Cancel ==
    /\ evaluation \in {"running", "http"} /\ ~cancelled
    /\ cancelled' = TRUE /\ alarms' = alarms + 1
    /\ UNCHANGED <<scopeVars, evaluation, fresh, interrupt, outcome, ended, count>>

Interrupt ==
    /\ alarms > 0 /\ alarms' = alarms - 1 /\ interrupt' = TRUE
    /\ UNCHANGED <<scopeVars, evaluation, fresh, cancelled, outcome, ended, count>>

\* A function that was started is waited for before the flag is cleared.
AlarmIsStopped == TRUE
AlarmIsOver == cancelled => alarms = 0

Leave ==
    /\ evaluation = "leaving" /\ AlarmIsOver
    /\ interrupt' = FALSE /\ evaluation' = "idle"
    /\ env' = IF restoreTo = NoRestore THEN env ELSE restoreTo
    /\ restoreTo' = NoRestore
    /\ UNCHANGED <<globals, own, envStack, transient, shadowedValues, fresh, cancelled, alarms, outcome,
                   ended, count>>

-----------------------------------------------------------------------------
\* The other calls wait for the evaluation as well: one lock serves them all.
KeepGlobals == UNCHANGED <<globals, own, transient, shadowedValues, restoreTo, callVars, ended, count>>

PushEnv ==
    /\ evaluation = "idle" /\ Len(envStack) < MaxScopes
    /\ envStack' = Append(envStack, env) /\ UNCHANGED env /\ KeepGlobals

PopEnv ==
    /\ evaluation = "idle" /\ envStack # <<>>
    /\ env' = Last(envStack) /\ envStack' = Front(envStack) /\ KeepGlobals

PutEnv ==
    /\ evaluation = "idle"
    /\ \E n \in Names, v \in Values : env' = [env EXCEPT ![n] = v]
    /\ UNCHANGED envStack /\ KeepGlobals

Close ==
    /\ evaluation = "idle" /\ ended' = TRUE
    /\ UNCHANGED <<scopeVars, callVars, count>>

JSStep == Respond \/ RunScript \/ Interrupt \/ Leave

JSNext ==
    \/ Evaluate \/ Assign \/ executeHTTPRequest \/ Cancel \/ JSStep
    \/ PushEnv \/ PopEnv \/ PutEnv \/ Close

-----------------------------------------------------------------------------
\* A script sees the environment of its scope, and under every other name what the
\* scripts before it left there, however often the name was laid over since
\* (runtime.go, Evaluate).
ScriptSeesItsScope ==
    evaluation = "running" /\ fresh => globals = Overlay(own, env)

\* The end of one evaluation's context never interrupts another evaluation.
InterruptHitsOwnEvaluation == outcome = "interrupted" => cancelled
=============================================================================
