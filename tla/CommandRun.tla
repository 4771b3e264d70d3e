----------------------------- MODULE CommandRun -----------------------------
(***************************************************************************)
(* One leaf command after the other on one device: executorCore.runHandler *)
(* evaluates a command, carries out the stages of its handler and reports  *)
(* its result.  In between the screen changes by itself, the application   *)
(* may die or turn the screen, driver calls fail, take time, and the run   *)
(* may be cancelled.                                                       *)
(***************************************************************************)
EXTENDS CommandForms

CONSTANTS
    Spots,      \* places a target may stand at
    Flows,      \* sets of commands a run is made of
    Required,   \* LookupTimeout, in units of the clock
    Optional    \* OptionalLookupTimeout

ASSUME TimeAssumption == Required \in Nat /\ Optional \in 0..Required
ASSUME FlowsAssumption == \A commands \in Flows : commands \subseteq Leaves

VARIABLES
    flow,       \* the commands of this run
    view,       \* the screen: where the target stands, whether it is covered, the orientation
    app,        \* the process of the flow's application: running; half, when a launch that failed
                \* may have started it; down; or stopped, when the flow wanted it down
    cancelled,  \* ctx.Err()
    marked,     \* the application is in executionState.stoppedApps
    grid,       \* ElementLookup.deviceInfo: the orientation it was read in
    quiet,      \* time since ElementLookup.latestInteraction, as far as it matters, or Never
    cmd,        \* the command in progress
    todo,       \* stages left of its handler
    call,       \* local variables of the handler
    result      \* how the last command ended, and the last state of its handler

cmdVars == <<flow, view, app, cancelled, marked, grid, quiet, cmd, todo, call, result>>
world == <<flow, view, app, cancelled>>

Gone == "gone"
NoCommand == Plain("none")
Never == Required + 1    \* no interaction yet: ~hasInteraction
Idle == cmd = NoCommand
Unread == "unread"
NoError == "none"

ASSUME SpotsAssumption == Gone \notin Spots /\ Unread \notin Spots

Raw == {"operation", "cancelled"}   \* what a failed driver call may be, as in FlowExecution

Orientations == {"portrait", "landscape"}
Views == [at: Spots \cup {Gone}, covered: BOOLEAN, turned: Orientations]
\* The hierarchy tells where the target stands, a picture also what covers it.
Tree(v) == v.at

Nowhere == [at |-> Unread, covered |-> FALSE, turned |-> Unread]

\* left: until the deadline; polls: so far; seen, aim: of the target; tree, shot: before a
\* tap that may be repeated; prior, latest: samples of a settle; runs: numberOfRuns.
\* For the properties: last, shown: what the looks of this command found, since it last
\* acted and ever.
Fresh == [left |-> 0, polls |-> 0, seen |-> Gone, aim |-> Gone, tree |-> Unread, shot |-> Nowhere,
          prior |-> Unread, latest |-> Unread, runs |-> 0,
          last |-> Unread, shown |-> FALSE]

NoResult == [of |-> NoCommand, outcome |-> "none", runs |-> 0, shown |-> FALSE, last |-> Unread]

Smaller(a, b) == IF a < b THEN a ELSE b
Less(a, b) == IF a > b THEN a - b ELSE 0
Stage == Head(todo)
At(stages) == todo # <<>> /\ Stage \in stages
Then(stages) == todo' = stages \o Tail(todo)

-----------------------------------------------------------------------------
(* Results                                                                 *)

\* runHandler: the end of the context covers the handler's own error.
Covered(e) == IF cancelled THEN "cancelled" ELSE e

Outcome(e, optional) ==
    CASE e = NoError -> "Completed"
      [] e = "cancelled" -> "Cancelled"
      [] e = "skipped" -> "Skipped"
      [] e \in {"operation", "assertion"} /\ optional -> "Warned"
      [] OTHER -> "Failed"

\* runCommandSpan, after the handler.
FinishAs(e, last) ==
    /\ result' = [of |-> cmd, outcome |-> Outcome(Covered(e), cmd.optional), runs |-> last.runs,
                  shown |-> last.shown, last |-> last.last]
    /\ cmd' = NoCommand /\ todo' = <<>> /\ call' = Fresh
Finish(e) == FinishAs(e, call)

Kept == UNCHANGED <<world, marked, grid, quiet>>
Ends(e) == Finish(e) /\ Kept

\* The next stage, with what it needs of the local variables.
Go(c) == todo' = Tail(todo) /\ call' = c /\ UNCHANGED <<cmd, result>>
Stay(c) == call' = c /\ UNCHANGED <<cmd, todo, result>>

-----------------------------------------------------------------------------
(* The world                                                               *)

ScreenChanges ==
    /\ view' \in {v \in Views : v.turned = view.turned} \ {view}
    /\ UNCHANGED <<flow, app, cancelled, marked, grid, quiet, cmd, todo, call, result>>

\* Only some commands look at the process or at the orientation; a run without
\* them is spared the changes.
Uses(kinds) == \E c \in flow : c.kind \in kinds

AppDies ==
    /\ app = "running" /\ Uses({"takeScreenshot"})
    /\ app' = "down"
    /\ UNCHANGED <<flow, view, cancelled, marked, grid, quiet, cmd, todo, call, result>>

Cancel ==
    /\ ~cancelled /\ cancelled' = TRUE
    /\ UNCHANGED <<flow, view, app, marked, grid, quiet, cmd, todo, call, result>>

\* Time in which nothing happens.
TimePasses ==
    /\ Idle /\ quiet < Required /\ quiet' = quiet + 1
    /\ UNCHANGED <<world, marked, grid, cmd, todo, call, result>>

-----------------------------------------------------------------------------
(* From one command to the next                                            *)

\* A command that begins under an ended context is finished without its handler.
Begin ==
    /\ Idle /\ ~cancelled
    /\ \E c \in flow : cmd' = c
    /\ todo' = <<"evaluate">> /\ call' = Fresh /\ result' = NoResult
    /\ UNCHANGED <<world, marked, grid, quiet>>

\* Interpolation may fail, and what it yields may be unfit for the command.
Evaluate ==
    /\ At({"evaluate"})
    /\ \/ \E e \in {"operation", "configuration"} : Ends(e)
       \/ cancelled /\ Ends(NoError)
       \/ ~cancelled /\ Then(Plan(cmd)) /\ UNCHANGED <<call, cmd, result>> /\ Kept

Completes == ~Idle /\ todo = <<>> /\ Ends(NoError)

\* Every stage of these looks at the context before it calls the driver.
Unchecked == {"wipe", "endApp", "launch", "whether", "judge"}

Interrupted == todo # <<>> /\ Stage \notin Unchecked \cup {"evaluate"} /\ cancelled /\ Ends("cancelled")

Ready(stages) == At(stages) /\ (Stage \in Unchecked \/ ~cancelled)
DriverFails(stages) == Ready(stages) /\ \E e \in Raw : Ends(e)

-----------------------------------------------------------------------------
(* Lookups (lookup.go, wait.go, stability.go)                              *)

\* adjustedDeadline: the default counts from the latest interaction.
Budget(c) ==
    LET base == IF c.optional /\ c.kind # "extendedWaitUntil" THEN Optional ELSE Required
    IN CASE c.timeout # Adjusted -> c.timeout
         [] quiet = Never -> base
         [] OTHER -> Less(base, quiet)

SetDeadline ==
    /\ Ready({"deadline"})
    /\ Go([call EXCEPT !.left = Budget(cmd)])
    /\ UNCHANGED <<world, marked, grid, quiet>>

\* cachedDeviceInfo: read once, and kept until ForgetDeviceInfo.
ReadGrid == grid' = IF grid = Unread THEN view.turned ELSE grid

\* findOnce: a target that stands outside the grid it is measured with is pruned.
Seen(s) ==
    \/ s = view.at
    \/ s = Gone /\ grid' # view.turned

\* Time goes by in a driver call and in a wait.
Spend(d) == quiet' = IF quiet = Never THEN Never ELSE Smaller(Required, quiet + d)

Waits == {"find", "mustSee", "whenSeen", "mustGo", "whenGone"}
Wants(s) == IF Stage \in {"find", "mustSee", "whenSeen"} THEN s # Gone ELSE s = Gone
Missed == CASE Stage = "find" -> "operation" [] Stage \in {"mustSee", "mustGo"} -> "assertion"
            [] OTHER -> "skipped"
Poll == IF Stage \in {"mustGo", "whenGone"} THEN 2 ELSE 1

\* findUntil and conditionNotVisibleUntil: one look, which itself takes time; the
\* deadline is looked at after it, and the pause never reaches beyond it.
Look ==
    /\ Ready(Waits) /\ ReadGrid
    /\ \E s \in Spots \cup {Gone}, slow \in 0..1 :
        LET left == Less(call.left, slow)
            pause == Smaller(Poll, left)
            looked == [call EXCEPT !.left = left, !.seen = s, !.last = s, !.shown = @ \/ s # Gone]
        IN /\ Seen(s)
           /\ \/ Wants(s) /\ Go(looked) /\ Spend(slow)
              \/ ~Wants(s) /\ left = 0 /\ FinishAs(Missed, looked) /\ Spend(slow)
              \/ ~Wants(s) /\ left > 0 /\ Stay([looked EXCEPT !.left = left - pause])
                 /\ Spend(slow + pause)
    /\ UNCHANGED <<world, marked>>

LookFails == DriverFails(Waits)

\* WaitForElementStability: until two looks agree; a look that does not find the
\* element keeps the last known one, as does the end of the time.
Steady ==
    /\ Ready({"steady"}) /\ ReadGrid
    /\ \E s \in Spots \cup {Gone} :
        /\ Seen(s)
        /\ IF s = call.seen \/ call.polls = 1
           THEN Go([call EXCEPT !.seen = IF s = Gone THEN @ ELSE s, !.polls = 0])
           ELSE Stay([call EXCEPT !.seen = IF s = Gone THEN @ ELSE s, !.polls = @ + 1])
    /\ Spend(1) /\ UNCHANGED <<world, marked>>

\* tapCenter: a driver that can tell refuses a target that is covered.
Aim ==
    /\ Ready({"aim"}) /\ ReadGrid
    /\ \E decided \in BOOLEAN :
        IF decided /\ (view.covered \/ view.at # call.seen) THEN Finish("operation")
        ELSE Go([call EXCEPT !.aim = call.seen])
    /\ UNCHANGED <<world, marked, quiet>>

\* onScreen: an authored point of the element may be off the display.
AimInside ==
    /\ Ready({"inside"}) /\ ReadGrid
    /\ \E on \in BOOLEAN :
        IF on THEN Go([call EXCEPT !.aim = call.seen]) ELSE Finish("operation")
    /\ UNCHANGED <<world, marked, quiet>>

\* visibleCenter
AimAtCentre ==
    /\ Ready({"centre"}) /\ ReadGrid
    /\ Go([call EXCEPT !.aim = call.seen])
    /\ UNCHANGED <<world, marked, quiet>>

Grid == Ready({"grid"}) /\ ReadGrid /\ Go(call) /\ UNCHANGED <<world, marked, quiet>>

LookupFails == DriverFails({"steady", "aim", "inside", "centre", "grid"})

-----------------------------------------------------------------------------
(* Acting on the screen                                                    *)

\* An accepted interaction, and what the application makes of it at once: RecordInteraction.
Touch ==
    /\ Ready({"touch", "act"})
    /\ quiet' = 0
    /\ view' \in {v \in Views : v.turned = view.turned}
    /\ Go(call)
    /\ UNCHANGED <<flow, app, cancelled, marked, grid>>

TouchFails == DriverFails({"touch", "act"})

Delay == Ready({"delay"}) /\ Go(call) /\ Spend(1) /\ UNCHANGED <<world, marked, grid>>

\* numberOfRuns counts a batch before its first touch.
StartBatch ==
    /\ Ready({"batch"})
    /\ Go([call EXCEPT !.runs = @ + 1])
    /\ UNCHANGED <<world, marked, grid, quiet>>

\* captureTapRetryHierarchy, captureTapRetryScreenshot.  The hierarchy is also the
\* first sample of the settle that follows.
TreeBefore ==
    /\ Ready({"treeBefore"})
    /\ Go([call EXCEPT !.tree = Tree(view), !.prior = Tree(view), !.latest = Tree(view)])
    /\ UNCHANGED <<world, marked, grid, quiet>>

ShotBefore ==
    /\ Ready({"shotBefore"})
    /\ Go([call EXCEPT !.shot = view])
    /\ UNCHANGED <<world, marked, grid, quiet>>

Untouched == call.latest = call.tree /\ view = call.shot

\* The tap is repeated, at a target looked for again, when neither the hierarchy
\* after the settle nor a picture taken now differs from before.
Compare ==
    /\ Ready({"compare"})
    /\ IF Untouched THEN Then(TapAgain(cmd)) /\ UNCHANGED <<call, cmd, result>> ELSE Go(call)
    /\ UNCHANGED <<world, marked, grid, quiet>>

CaptureFails == DriverFails({"treeBefore", "shotBefore", "compare"})

\* Mutant: a screen that changed is given its polls anew.
PollsAnew(sample) == IF sample = call.prior THEN call.polls + 1 ELSE 1
Polls(sample) == call.polls + 1

\* WaitForHierarchySettle: two equal samples in a row, neither loading.  No
\* sample at all decides nothing, and the last one that came is kept.  Only
\* launchApp fails when the screen does not come to rest.
Settle ==
    /\ Ready({"settle", "settleOrFail"})
    /\ \E sample \in {Unread, Tree(view)}, loading \in BOOLEAN, allowed \in Samples :
        LET n == Polls(sample)
            settled == sample # Unread /\ sample = call.prior /\ ~loading
            latest == IF sample = Unread THEN call.latest ELSE sample
            over == [call EXCEPT !.prior = Unread, !.latest = latest, !.polls = 0, !.last = Unread]
        IN \/ settled /\ Go(over)
           \/ ~settled /\ n >= allowed /\ IF Stage = "settle" THEN Go(over) ELSE Finish("operation")
           \/ ~settled /\ n < allowed
              /\ Stay([call EXCEPT !.prior = sample, !.latest = latest, !.polls = n])
    /\ Spend(1) /\ UNCHANGED <<world, marked, grid>>

\* An error of the driver does not undo an accepted gesture; a deadline of its own does.
SettleFails ==
    /\ Ready({"settle", "settleOrFail"})
    /\ \/ Ends("cancelled")
       \/ Stage = "settle" /\ Go([call EXCEPT !.prior = Unread, !.polls = 0, !.last = Unread]) /\ Kept
       \/ Stage = "settleOrFail" /\ Ends("operation")

\* waitForTapTargetVisible: a fixed number of looks, the first at once.
Appear ==
    /\ Ready({"appear"}) /\ ReadGrid
    /\ \E s \in Spots \cup {Gone}, allowed \in Samples :
        LET looked == [call EXCEPT !.last = s, !.shown = @ \/ s # Gone, !.polls = @ + 1]
        IN /\ Seen(s)
           /\ \/ s # Gone /\ Go([looked EXCEPT !.polls = 0])
              \/ s = Gone /\ looked.polls >= allowed /\ FinishAs("assertion", looked)
              \/ s = Gone /\ looked.polls < allowed /\ Stay(looked)
    /\ Spend(1) /\ UNCHANGED <<world, marked>>

AppearFails == DriverFails({"appear"})

-----------------------------------------------------------------------------
(* The application, the device and the services                            *)

\* What the flow has stopped once stays stopped by the flow.
Down == CASE app = "running" -> "down"
          [] app = "half" -> IF marked THEN "stopped" ELSE "down"
          [] OTHER -> app

\* StopApp, KillApp and ClearAppState: an error says nothing of the process.
EndApp ==
    /\ Ready({"endApp", "endAppForGood"})
    /\ \/ Stage = "endApp" /\ app' = Down /\ UNCHANGED marked /\ Go(call)
       \/ Stage = "endAppForGood" /\ app' = "stopped" /\ marked' = TRUE /\ Go(call)
       \/ /\ app' \in {app, Down} /\ UNCHANGED marked
          /\ \E e \in Raw : Finish(e)
    /\ UNCHANGED <<flow, view, cancelled, grid, quiet>>

\* LaunchApp, after which the application is expected to be alive; the settle that
\* follows is the executor's, and begins with RecordInteraction.
Launch ==
    /\ Ready({"launch"})
    /\ \/ app' = "running" /\ marked' = FALSE /\ quiet' = 0 /\ Go(call)
       \/ app' \in {app, "half"} /\ UNCHANGED <<marked, quiet>> /\ \E e \in Raw : Finish(e)
    /\ UNCHANGED <<flow, view, cancelled, grid>>

\* requireFlowAppAlive: a probe that fails leaves the command alone.
Alive ==
    /\ Ready({"alive"})
    /\ \/ Go(call)
       \/ ~marked /\ app \notin {"running", "half"} /\ Finish("operation")
       \/ ~marked /\ Finish("cancelled")
    /\ Kept

\* A rotation drops the grid; one that fails may have turned the screen all the same.
Rotate ==
    /\ Ready({"rotate"})
    /\ \/ \E t \in Orientations : view' = [view EXCEPT !.turned = t]
          /\ grid' = Unread /\ Go(call)
       \/ \E t \in Orientations : view' = [view EXCEPT !.turned = t]
          /\ UNCHANGED grid /\ \E e \in Raw : Finish(e)
    /\ UNCHANGED <<flow, app, cancelled, marked, quiet>>

\* waitForAnimationToEnd: a screen that never comes to rest completes the command.
Still ==
    /\ Ready({"still"})
    /\ LET pause == Smaller(1, call.left) IN
       \/ Go(call) /\ UNCHANGED quiet
       \/ call.left > 0 /\ Stay([call EXCEPT !.left = @ - pause]) /\ Spend(pause)
    /\ UNCHANGED <<world, marked, grid>>

\* A call of the driver, of a controller, of the interpreter or of a store, whose
\* effect no command of the model reads.
Plainly == {"call", "wipe", "shot", "write", "copy", "generate"}
Call == Ready(Plainly) /\ Go(call) /\ Kept
CallFails == Ready(Plainly) /\ \E e \in Raw \cup {"configuration"} : Ends(e)
StillFails == DriverFails({"still"})

\* A comparison, an answer or a condition that holds or does not.
Decide ==
    /\ Ready({"judge", "whether"})
    /\ \/ Go(call)
       \/ Finish(IF Stage = "judge" THEN "assertion" ELSE "skipped")
    /\ Kept

-----------------------------------------------------------------------------
CmdInit ==
    /\ flow \in Flows
    /\ view \in {v \in Views : v.turned = "portrait"}
    /\ app = "down" /\ cancelled = FALSE
    /\ marked = FALSE /\ grid = Unread /\ quiet = Never
    /\ cmd = NoCommand /\ todo = <<>> /\ call = Fresh
    /\ result = NoResult

Handler ==
    \/ Evaluate \/ Completes \/ Interrupted
    \/ SetDeadline \/ Look \/ LookFails \/ Steady
    \/ Aim \/ AimInside \/ AimAtCentre \/ Grid \/ LookupFails
    \/ StartBatch \/ Touch \/ TouchFails \/ Delay
    \/ TreeBefore \/ ShotBefore \/ Compare \/ CaptureFails
    \/ Settle \/ SettleFails \/ Appear \/ AppearFails
    \/ EndApp \/ Launch \/ Alive \/ Rotate
    \/ Still \/ StillFails \/ Call \/ CallFails \/ Decide

CmdNext == ScreenChanges \/ AppDies \/ Cancel \/ TimePasses \/ Begin \/ Handler

CmdSpec == CmdInit /\ [][CmdNext]_cmdVars

-----------------------------------------------------------------------------
\* A tap, at first and again, goes where the target was found after whatever the
\* command did before: no batch is aimed with what was found for an earlier one.
EveryBatchIsAimedAnew ==
    At({"touch"}) /\ cmd.target \in {"selector", "selectorPoint", "element"}
        => call.last # Unread /\ call.aim = call.seen

\* What a command asserts of the screen: that the target is there, or that it is not.
Sought(c) ==
    \/ c.kind \in {"tapOn", "doubleTapOn", "longPressOn"} /\ c.target # "screenPoint"
    \/ c.kind \in {"copyTextFrom", "assertVisible"} \/ c.target = "element"
    \/ c.kind = "assertScreenshot" /\ c.target = "selector"
    \/ "visible" \in c.parts
Banned(c) == c.kind = "assertNotVisible" \/ "notVisible" \in c.parts

\* A command that passes has seen what it asserts: the target, or the screen
\* without it, in this command and, where it waits for it, after it acted.
PassIsObserved ==
    result.outcome = "Completed" =>
        /\ Sought(result.of) => result.shown
        /\ Banned(result.of) => result.last = Gone
        /\ result.of.waitUntilVisible => result.last \in Spots
=============================================================================
