----------------------------- MODULE ScenarioRun -----------------------------
(***************************************************************************)
(* One scenario of an exploration, run by the tester: a model answers turn *)
(* by turn with calls of device tools, a second model may supervise, and   *)
(* the expected outcomes are judged on the last screen the tools observed. *)
(* A tool call is one step: the driver acts, the screen is observed again  *)
(* and the step is recorded, whatever the models asked for.  The           *)
(* application moves while a tool acts or waits, not between the calls.    *)
(***************************************************************************)
EXTENDS Integers, Sequences, SequencesExt

CONSTANTS
    Screens,          \* what the application can show
    Shows,            \* the elements on each screen
    Expected,         \* the outcomes of the scenario: elements it should show
    MaxStepsPerTest,  \* replies the model may send
    MaxCalls,         \* bound: tool calls of one reply
    PilotCadence      \* executed steps between two reviews of the supervisor

ASSUME ScenarioAssumption ==
    /\ Screens # {} /\ DOMAIN Shows = Screens
    /\ {MaxStepsPerTest, MaxCalls, PilotCadence} \subseteq Nat \ {0}

VARIABLES
    shown,       \* the screen the device shows
    current,     \* the newest observation
    stale,       \* the last step could not be observed
    epoch,       \* counts what may have changed the screen
    steps,       \* how every executed step ended
    checks,      \* what check_visible measured, when and on which screen
    finish,      \* the closing call of the model
    turn, left,  \* the reply, and the tool calls of it that are left
    reviewed,    \* steps the supervisor has seen
    pilot,       \* there is a supervisor
    astray,      \* the run was handed an observation of another screen
    phase,       \* "turn", "tools", "review", "judge", "closing" or "ended"
    cause,       \* why the run ended early
    verdict      \* the status reported, with the outcomes it rests on

toolVars == <<shown, current, stale, epoch, steps, checks, finish>>
loopVars == <<turn, left, reviewed, pilot, astray, phase, cause, verdict>>
runVars == <<toolVars, loopVars>>

Unfinished == [status |-> "none", denied |-> {}]
NoVerdict == [status |-> "none", met |-> {}]

\* The crew hands over the observation it holds.  When it could not reach the start
\* screen that is an older one, and the device shows whatever the walk left.
RunInit ==
    /\ shown \in Screens /\ current \in Screens /\ stale = FALSE /\ epoch = 0
    /\ astray = (current # shown)
    /\ steps = <<>> /\ checks = <<>> /\ finish = Unfinished
    /\ turn = 1 /\ left = 0 /\ reviewed = 0 /\ pilot \in BOOLEAN
    /\ phase = "turn" /\ cause = "none" /\ verdict = NoVerdict

-----------------------------------------------------------------------------
\* How a call of the driver ends, and how an observation does: it may fail in a
\* way that can pass, find nobody listening, be refused for good, or meet the
\* end of the context.
Faults == {"none", "failed", "refused"}
Sights == {"seen", "failed", "refused", "lost", "cancelled"}

\* An error that ends the run; every other becomes a reply to the model.
Ends(sight, fault) ==
    IF sight = "cancelled" THEN "cancelled"
    ELSE IF sight = "lost" THEN "unobservable"
    ELSE IF "refused" \in {sight, fault} THEN "unreachable"
    ELSE "none"

StepStatus(sight, fault, after) ==
    IF fault # "none" \/ sight # "seen" THEN "failed"
    ELSE IF after = current THEN "noChange" ELSE "ok"

replaceCurrent(sight, screen, n) ==
    /\ current' = IF sight = "seen" THEN screen ELSE current
    /\ epoch' = epoch + n + (IF sight = "seen" THEN 1 ELSE 0)

\* The epoch moves on whatever the driver and the observation answer.
afterMutation(fault, moved) == \E sight \in Sights :
    /\ shown' = moved
    /\ replaceCurrent(sight, moved, 1)
    /\ stale' = (sight = "failed" \/ (stale /\ sight # "seen"))
    /\ steps' = IF sight = "cancelled" THEN steps ELSE Append(steps, StepStatus(sight, fault, moved))
    /\ cause' = Ends(sight, fault)
    /\ UNCHANGED <<checks, finish>>

\* A target that the newest table does not list is a failed step without a call.
resolvePoint(element) == element \in Shows[current]

handleTap == \E element \in UNION {Shows[s] : s \in Screens} :
    IF resolvePoint(element) THEN \E fault \in Faults, moved \in Screens : afterMutation(fault, moved)
    ELSE afterMutation("failed", shown)

handleScreenTool == \E fault \in Faults, moved \in Screens : afterMutation(fault, moved)

handleWait == \E moved \in Screens : afterMutation("none", moved)

\* An observation that fails here tells the model so, and marks nothing.
handleObserve == \E sight \in Sights :
    /\ replaceCurrent(sight, shown, 0)
    /\ stale' = (stale /\ sight # "seen")
    /\ cause' = Ends(sight, "none")
    /\ UNCHANGED <<shown, steps, checks, finish>>

recordedEpochTaken == epoch
recordedEpoch == IF stale THEN -1 ELSE epoch

handleCheckVisible == \E element \in Expected :
    /\ checks' = Append(checks, [epoch |-> recordedEpoch, of |-> current, met |-> element \in Shows[current]])
    /\ UNCHANGED <<shown, current, stale, epoch, steps, finish, cause>>

handleFinish == \E status \in {"passed", "failed"}, denied \in SUBSET Expected :
    /\ finish' = [status |-> status, denied |-> denied]
    /\ UNCHANGED <<shown, current, stale, epoch, steps, checks, cause>>

\* A call with arguments nobody accepts, an unknown tool and a note change nothing here.
handleRefused == UNCHANGED <<toolVars, cause>>

-----------------------------------------------------------------------------
checksOnFinalScreen == {c \in ToSet(checks) : c.epoch = epoch}

\* The next reply, unless the budget is spent.
NextTurn == IF turn = MaxStepsPerTest THEN phase' = "judge" /\ UNCHANGED turn
            ELSE phase' = "turn" /\ turn' = turn + 1

\* One reply of the model: an error ends the run, a reply without calls is a turn lost.
Reply ==
    /\ phase = "turn"
    /\ \/ \E failure \in {"cancelled", "model"} :
            cause' = failure /\ phase' = "ended" /\ UNCHANGED <<turn, left>>
       \/ phase' = "review" /\ UNCHANGED <<turn, left, cause>>
       \/ \E calls \in 1..MaxCalls : left' = calls /\ phase' = "tools" /\ UNCHANGED <<turn, cause>>
    /\ UNCHANGED <<toolVars, reviewed, pilot, astray, verdict>>

\* The calls of a reply run in order; finish and a fatal error skip the rest.
runToolCall ==
    /\ phase = "tools"
    /\ \/ handleTap \/ handleScreenTool \/ handleWait \/ handleObserve
       \/ handleCheckVisible \/ handleFinish \/ handleRefused
    /\ left' = left - 1
    /\ phase' = IF cause' # "none" THEN "ended"
                ELSE IF finish' # finish THEN "judge"
                ELSE IF left = 1 THEN "review" ELSE "tools"
    /\ UNCHANGED <<turn, reviewed, pilot, astray, verdict>>

\* The supervisor sees the log every few steps; its failure ends the run.
Review ==
    /\ phase = "review"
    /\ IF pilot /\ Len(steps) - reviewed >= PilotCadence
       THEN /\ reviewed' = Len(steps)
            /\ \/ cause' = "pilot" /\ phase' = "ended" /\ UNCHANGED turn
               \/ cause' = "stopped" /\ phase' = "judge" /\ UNCHANGED turn
               \/ NextTurn /\ UNCHANGED cause
       ELSE NextTurn /\ UNCHANGED <<cause, reviewed>>
    /\ UNCHANGED <<toolVars, left, pilot, astray, verdict>>

nothingRan == \A k \in DOMAIN steps : steps[k] = "failed"

\* An outcome whose text is on the screen is met; else the judge says; and what
\* the model itself denies is never met.
evaluateOutcomes(judged) == ((Expected \cap Shows[current]) \cup judged) \ finish.denied

statusOf(met) ==
    IF cause = "stopped" \/ finish = Unfinished THEN "stopped"
    ELSE IF finish.status = "passed" /\ met = Expected
         THEN IF nothingRan THEN "stopped" ELSE "passed"
    ELSE "failed"

Judge ==
    /\ phase = "judge"
    /\ \E judged \in SUBSET Expected :
        LET met == evaluateOutcomes(judged)
        IN  verdict' = [status |-> statusOf(met), met |-> met]
    /\ phase' = IF pilot /\ cause # "stopped" THEN "closing" ELSE "ended"
    /\ UNCHANGED <<toolVars, turn, left, reviewed, pilot, astray, cause>>

\* The closing review may fail too: the result is returned with its error.
CloseReview ==
    /\ phase = "closing" /\ phase' = "ended" /\ cause' \in {"none", "pilot"}
    /\ UNCHANGED <<toolVars, turn, left, reviewed, pilot, astray, verdict>>

RunNext == Reply \/ runToolCall \/ Review \/ Judge \/ CloseReview

-----------------------------------------------------------------------------
\* What the judge is told the driver measured is true of the screen the device
\* shows then: a check taken before the last thing that may have moved the
\* screen, or on a table that could not be refreshed, is not handed over, unless
\* the run was handed an older screen and nothing was done or observed since
\* (toolbox.go, recordCheck and checksOnFinalScreen).
ChecksAreOfThisRun ==
    phase = "judge" =>
        \A c \in checksOnFinalScreen : c.of = shown \/ (astray /\ c.epoch = 0)

\* What the judge is told was measured on the final screen was measured there,
\* whatever the run was handed (verdict.go, the words before the checks).
ChecksDescribeFinalScreen ==
    phase = "judge" => \A c \in checksOnFinalScreen : c.of = shown
=============================================================================
