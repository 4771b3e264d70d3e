--------------------------- MODULE Commands_proofs ---------------------------
(***************************************************************************)
(* Proofs about the commands: that every batch of touches is aimed anew,   *)
(* that a pass was observed (CommandRun), and that a measured scroll keeps *)
(* its target in sight (ScrollSearch), for every place, time and bound.    *)
(***************************************************************************)
EXTENDS CommandRun, ScrollSearch, SequenceTheorems, TLAPS

-----------------------------------------------------------------------------
(* What a step does to the plan and the locals                             *)

\* The state, and the commands that compile.
Sights == Spots \cup {Gone, Unread}
Locals ==
    [left: Int, polls: Int, seen: Sights, aim: Sights, tree: Sights,
     shot: [at: Sights, covered: BOOLEAN, turned: Orientations \cup {Unread}],
     prior: Sights, latest: Sights, runs: Int, last: Sights, shown: BOOLEAN]

Tapped == {"tapOn", "doubleTapOn", "longPressOn"}
Keywords == Tapped \cup
    {"swipe", "inputText", "eraseText", "inputRandom", "pasteText", "back", "hideKeyboard", "scroll",
     "pressKey", "copyTextFrom", "setClipboard", "assertVisible", "assertNotVisible", "assertTrue",
     "extendedWaitUntil", "launchApp", "stopApp", "killApp", "clearState", "clearKeychain", "openLink",
     "waitForAnimationToEnd", "takeScreenshot", "startRecording", "stopRecording", "addMedia",
     "startLogCapture", "stopLogCapture", "setLocation", "setOrientation", "setAirplaneMode",
     "toggleAirplaneMode", "setPermissions", "travel", "assertScreenshot", "assertWithAI",
     "assertNoDefectsWithAI", "extractTextWithAI", "evalScript", "runScript"}
Options ==
    {"visible", "notVisible", "clearKeychain", "clearState", "permissions", "stopApp", "platform",
     "scriptCondition"}
CommandType ==
    [kind: Keywords \cup {"none"}, target: Targets \cup {"none", "element"}, repeat: Nat, retry: BOOLEAN,
     waitUntilVisible: BOOLEAN, optional: BOOLEAN, timeout: Nat, parts: SUBSET Options]

\* The stages by what they do: find the target, find it gone, aim at it, wait for the screen.
Looking == {"find", "mustSee", "whenSeen"}
Vanishing == {"mustGo", "whenGone"}
Aiming == {"aim", "inside", "centre"}
Settling == {"settle", "settleOrFail"}

\* What a stage that is over has made of the local variables.
Passed(stage, before, after) ==
    /\ stage # "evaluate"
    /\ before.shown => after.shown
    /\ stage \in Looking \cup {"appear"} => after.shown /\ after.last \in Spots
    /\ stage \in Vanishing => after.last = Gone
    /\ stage = "steady" => after.last = before.last
    /\ stage \in Aiming => after.last = before.last /\ after.aim = after.seen
    /\ stage \notin Looking \cup Vanishing \cup Aiming \cup Settling \cup {"appear", "steady"} =>
          after.last = before.last /\ after.seen = before.seen /\ after.aim = before.aim

\* What a stage that goes on may do to them.
Stayed(stage, before, after) ==
    /\ before.shown => after.shown
    /\ stage \in Waits \cup Settling \cup {"appear", "steady", "still"}
    /\ stage \in {"steady", "still"} => after.last = before.last
    /\ stage = "still" => after.seen = before.seen /\ after.aim = before.aim

\* The kinds of step: past the command, its beginning, its plan, its two ends, a stage that
\* is over or goes on, and the tap that is repeated.
Aside == UNCHANGED <<cmd, todo, call, result>>
Began ==
    /\ cmd' \in flow /\ todo' = <<"evaluate">> /\ call' = Fresh /\ result' = NoResult
Expanded ==
    /\ todo # <<>> /\ Stage = "evaluate" /\ todo' = Plan(cmd) \o Tail(todo) /\ UNCHANGED <<cmd, call, result>>
Failed ==
    /\ cmd' = NoCommand /\ todo' = <<>> /\ call' = Fresh /\ result'.outcome # "Completed"
Passes ==
    /\ todo = <<>> /\ cmd' = NoCommand /\ todo' = <<>> /\ call' = Fresh
    /\ result'.of = cmd /\ result'.shown = call.shown /\ result'.last = call.last
Popped ==
    /\ todo # <<>> /\ todo' = Tail(todo) /\ UNCHANGED <<cmd, result>>
    /\ Passed(Stage, call, call')
Remains ==
    /\ todo # <<>> /\ UNCHANGED <<cmd, todo, result>> /\ Stayed(Stage, call, call')
Repeats ==
    /\ todo # <<>> /\ Stage = "compare" /\ todo' = TapAgain(cmd) \o Tail(todo)
    /\ UNCHANGED <<cmd, call, result>>

CmdStep == Aside \/ Began \/ Expanded \/ Failed \/ Passes \/ Popped \/ Remains \/ Repeats

\* Types of everything but the clock.
CmdTypes ==
    /\ flow \in Flows /\ view \in Views /\ call \in Locals
    /\ cancelled \in BOOLEAN
    /\ cmd \in Leaves \cup {NoCommand}

\* The locals a command begins with.
LEMMA FreshTypes == Fresh \in Locals
  BY DEF Fresh, Locals, Sights, Nowhere, Orientations

\* A failed stage ends the command with a result that is no pass.
LEMMA FailedEnds ==
    ASSUME NEW e, e # NoError, NEW last, FinishAs(e, last)
    PROVE  Failed
<1>1. Covered(e) # NoError
  BY DEF Covered, NoError
<1>2. Outcome(Covered(e), cmd.optional) # "Completed"
  BY <1>1 DEF Outcome, NoError
<1> QED
  BY <1>2 DEF FinishAs, Failed

\* So does one that leaves everything else as it was,
LEMMA EndsFails ==
    ASSUME NEW e, e # NoError, Ends(e)
    PROVE  Failed
  BY FailedEnds DEF Ends, Finish

\* and a driver call that fails.
LEMMA DriverFailsFails ==
    ASSUME NEW stages, DriverFails(stages)
    PROVE  Failed
  BY EndsFails DEF DriverFails, Raw, NoError

\* Every step of a run is one of eight kinds; the actions are not looked at again.
LEMMA StepKinds ==
    ASSUME CmdTypes, [CmdNext]_cmdVars
    PROVE  CmdStep
<1> USE DEF CmdTypes, CmdStep
<1>1. CASE ScreenChanges \/ AppDies \/ Cancel \/ TimePasses \/ UNCHANGED cmdVars
  BY <1>1 DEF ScreenChanges, AppDies, Cancel, TimePasses, cmdVars, Aside, world
<1>2. CASE Begin
  BY <1>2 DEF Begin, Began
<1>3. CASE Evaluate
  <2>1. CASE \E e \in {"operation", "configuration"} : Ends(e)
    BY <2>1, EndsFails DEF NoError
  <2>2. CASE cancelled /\ Ends(NoError)
    BY <2>2 DEF Ends, Finish, FinishAs, Covered, Outcome, Failed, NoError
  <2>3. CASE ~cancelled /\ Then(Plan(cmd)) /\ UNCHANGED <<call, cmd, result>> /\ Kept
    BY <2>3, <1>3 DEF Evaluate, At, Then, Expanded, Stage
  <2> QED
    BY <1>3, <2>1, <2>2, <2>3 DEF Evaluate
<1>4. CASE Completes
  BY <1>4 DEF Completes, Ends, Finish, FinishAs, Passes
<1>5. CASE Interrupted
  BY <1>5, EndsFails DEF Interrupted, NoError
<1>6. CASE SetDeadline
  BY <1>6 DEF SetDeadline, Ready, At, Go, Popped, Passed, Looking, Vanishing, Aiming, Settling, Locals
<1>7. CASE Look
  <2>1. PICK s \in Spots \cup {Gone}, slow \in 0..1 :
          LET spare == Less(call.left, slow)
              pause == Smaller(Poll, spare)
              looked == [call EXCEPT !.left = spare, !.seen = s, !.last = s, !.shown = @ \/ s # Gone]
          IN  \/ Wants(s) /\ Go(looked)
              \/ ~Wants(s) /\ FinishAs(Missed, looked)
              \/ ~Wants(s) /\ Stay([looked EXCEPT !.left = spare - pause])
    BY <1>7 DEF Look
  <2> DEFINE spare == Less(call.left, slow)
             pause == Smaller(Poll, spare)
             looked == [call EXCEPT !.left = spare, !.seen = s, !.last = s, !.shown = @ \/ s # Gone]
  <2>2. todo # <<>> /\ Stage \in Waits
    BY <1>7 DEF Look, Ready, At
  <2>3. looked.last = s /\ (call.shown \/ s # Gone => looked.shown) /\ looked.aim = call.aim
    BY DEF Locals
  <2>4. CASE Wants(s) /\ Go(looked)
    <3> HIDE DEF looked
    <3>1. \/ s \in Spots /\ looked.shown
          \/ s = Gone /\ Stage \in Vanishing
      <4>1. CASE Stage \in {"find", "mustSee", "whenSeen"}
        BY <4>1, <2>4, <2>3 DEF Wants
      <4>2. CASE Stage \notin {"find", "mustSee", "whenSeen"}
        BY <4>2, <2>4, <2>2 DEF Wants, Waits, Vanishing
      <4> QED
        BY <4>1, <4>2
    <3>2. Stage \in Vanishing => s = Gone
      BY <2>4 DEF Wants, Vanishing
    <3>3. Passed(Stage, call, looked)
      BY <3>1, <3>2, <2>2, <2>3, SpotsAssumption
         DEF Passed, Looking, Vanishing, Waits, Aiming, Settling, Gone
    <3> QED
      BY <3>3, <2>4, <2>2 DEF Popped, Go
  <2>5. CASE FinishAs(Missed, looked)
    <3>1. Missed # NoError
      BY DEF Missed, NoError
    <3> QED
      BY <2>5, <3>1, FailedEnds
  <2>6. CASE Stay([looked EXCEPT !.left = spare - pause])
    <3>1. [looked EXCEPT !.left = spare - pause].shown = looked.shown
      BY DEF Locals
    <3> HIDE DEF looked
    <3> QED
      BY <3>1, <2>6, <2>2, <2>3 DEF Remains, Stay, Stayed, Waits
  <2> QED
    BY <2>1, <2>4, <2>5, <2>6
<1>8. CASE Steady
  <2>1. PICK s \in Spots \cup {Gone} :
          \/ Go([call EXCEPT !.seen = IF s = Gone THEN @ ELSE s, !.polls = 0])
          \/ Stay([call EXCEPT !.seen = IF s = Gone THEN @ ELSE s, !.polls = @ + 1])
    BY <1>8 DEF Steady
  <2>2. todo # <<>> /\ Stage = "steady"
    BY <1>8 DEF Steady, Ready, At
  <2> QED
    BY <2>1, <2>2 DEF Locals, Go, Stay, Popped, Remains, Passed, Stayed, Looking, Vanishing,
         Aiming, Settling
<1>9. CASE Aim
  <2>1. todo # <<>> /\ Stage = "aim"
    BY <1>9 DEF Aim, Ready, At
  <2>2. Finish("operation") \/ Go([call EXCEPT !.aim = call.seen])
    BY <1>9 DEF Aim
  <2> QED
    BY <2>1, <2>2, FailedEnds DEF Locals, Go, Popped, Passed, Looking, Vanishing, Aiming, Settling,
         Finish, NoError
<1>10. CASE AimInside
  <2>1. todo # <<>> /\ Stage = "inside"
    BY <1>10 DEF AimInside, Ready, At
  <2>2. Finish("operation") \/ Go([call EXCEPT !.aim = call.seen])
    BY <1>10 DEF AimInside
  <2> QED
    BY <2>1, <2>2, FailedEnds DEF Locals, Go, Popped, Passed, Looking, Vanishing, Aiming, Settling,
         Finish, NoError
<1>11. CASE AimAtCentre
  BY <1>11 DEF AimAtCentre, Ready, At, Locals, Go, Popped, Passed, Looking, Vanishing, Aiming, Settling
<1>12. CASE Grid \/ Delay \/ Call \/ Touch
  BY <1>12 DEF Grid, Delay, Call, Touch, Plainly, Ready, At, Go, Popped, Passed, Looking,
       Vanishing, Aiming, Settling
<1>13. CASE StartBatch \/ TreeBefore \/ ShotBefore
  BY <1>13 DEF StartBatch, TreeBefore, ShotBefore, Ready, At, Locals, Go, Popped, Passed, Looking,
       Vanishing, Aiming, Settling
<1>14. CASE LookFails \/ LookupFails \/ TouchFails \/ CaptureFails \/ AppearFails \/ StillFails
  BY <1>14, DriverFailsFails DEF LookFails, LookupFails, TouchFails, CaptureFails, AppearFails,
       StillFails
<1>15. CASE Compare
  <2>1. todo # <<>> /\ Stage = "compare"
    BY <1>15 DEF Compare, Ready, At
  <2>2. (Then(TapAgain(cmd)) /\ UNCHANGED <<call, cmd, result>>) \/ Go(call)
    BY <1>15 DEF Compare
  <2> QED
    BY <2>1, <2>2 DEF Then, Repeats, Go, Popped, Passed, Looking, Vanishing, Aiming, Settling
<1>16. CASE Settle
  <2>1. todo # <<>> /\ Stage \in Settling
    BY <1>16 DEF Settle, Ready, At, Settling
  <2>2. PICK sample \in {Unread, Tree(view)}, loading \in BOOLEAN, allowed \in Samples :
        LET n == Polls(sample)
            settled == sample # Unread /\ sample = call.prior /\ ~loading
            latest == IF sample = Unread THEN call.latest ELSE sample
            over == [call EXCEPT !.prior = Unread, !.latest = latest, !.polls = 0, !.last = Unread]
        IN \/ Go(over)
           \/ Finish("operation")
           \/ Stay([call EXCEPT !.prior = sample, !.latest = latest, !.polls = n])
    BY <1>16 DEF Settle
  <2> QED
    BY <2>1, <2>2, FailedEnds DEF Locals, Go, Stay, Popped, Remains, Passed, Stayed, Looking,
         Vanishing, Aiming, Settling,
       Finish, NoError
<1>17. CASE SettleFails
  <2>1. todo # <<>> /\ Stage \in Settling
    BY <1>17 DEF SettleFails, Ready, At, Settling
  <2>2. \/ Ends("cancelled") \/ Ends("operation")
        \/ Go([call EXCEPT !.prior = Unread, !.polls = 0, !.last = Unread])
    BY <1>17 DEF SettleFails
  <2> QED
    BY <2>1, <2>2, EndsFails DEF Locals, Go, Popped, Passed, Looking, Vanishing, Aiming, Settling,
         NoError
<1>18. CASE Appear
  <2>1. todo # <<>> /\ Stage = "appear"
    BY <1>18 DEF Appear, Ready, At
  <2>2. PICK s \in Spots \cup {Gone}, allowed \in Samples :
        LET looked == [call EXCEPT !.last = s, !.shown = @ \/ s # Gone, !.polls = @ + 1]
        IN \/ s # Gone /\ Go([looked EXCEPT !.polls = 0])
           \/ FinishAs("assertion", looked)
           \/ Stay(looked)
    BY <1>18 DEF Appear
  <2> QED
    BY <2>1, <2>2, FailedEnds DEF Locals, Go, Stay, Popped, Remains, Passed, Stayed, Looking,
         Vanishing, Aiming, Settling,
       NoError
<1>19. CASE EndApp
  BY <1>19, FailedEnds DEF EndApp, Ready, At, Go, Popped, Passed, Looking, Vanishing, Aiming,
       Settling, Finish, NoError, Raw
<1>20. CASE Launch
  BY <1>20, FailedEnds DEF Launch, Ready, At, Go, Popped, Passed, Looking, Vanishing, Aiming,
       Settling, Finish, NoError, Raw
<1>21. CASE Alive
  BY <1>21, FailedEnds DEF Alive, Ready, At, Go, Popped, Passed, Looking, Vanishing, Aiming,
       Settling, Finish, NoError
<1>22. CASE Rotate
  BY <1>22, FailedEnds DEF Rotate, Ready, At, Go, Popped, Passed, Looking, Vanishing, Aiming,
       Settling, Finish, NoError, Raw
<1>23. CASE Still
  <2>1. todo # <<>> /\ Stage = "still"
    BY <1>23 DEF Still, Ready, At
  <2>2. \/ Go(call) \/ Stay([call EXCEPT !.left = @ - Smaller(1, call.left)])
    BY <1>23 DEF Still
  <2> QED
    BY <2>1, <2>2 DEF Locals, Go, Stay, Popped, Remains, Passed, Stayed, Looking, Vanishing,
         Aiming, Settling
<1>24. CASE CallFails
  BY <1>24, EndsFails DEF CallFails, NoError, Raw
<1>25. CASE Decide
  BY <1>25, FailedEnds DEF Decide, Ready, At, Go, Popped, Passed, Looking, Vanishing, Aiming,
       Settling, Finish, NoError
<1> QED
  BY <1>1, <1>2, <1>3, <1>4, <1>5, <1>6, <1>7, <1>8, <1>9, <1>10, <1>11, <1>12, <1>13, <1>14, <1>15,
     <1>16, <1>17, <1>18, <1>19, <1>20, <1>21, <1>22, <1>23, <1>24, <1>25
     DEF CmdNext, Handler

-----------------------------------------------------------------------------
(* Types                                                                   *)

\* What compiles, before it is marked optional.
Forms ==
    TapOn \cup Gesture \cup Swipe \cup Typing \cup ActionAlias \cup PressKey \cup CopyTextFrom
        \cup SetClipboard \cup AssertVisible \cup AssertNotVisible \cup AssertTrue \cup ExtendedWaitUntil
        \cup LaunchApp \cup Lifecycle \cup OpenLink \cup AnimationWait \cup Media \cup LogCapture
        \cup DeviceState \cup Travel \cup AssertScreenshot \cup AICommand \cup EvalScript \cup RunScript

\* What the compiler lets through, kind by kind, as far as the looks of a handler go.
WellFormed(c) ==
    /\ c.kind \in Tapped => c.target \in Targets
    /\ c.kind \in {"tapOn", "travel"} => c.repeat > 0
    /\ c.kind = "swipe" => c.target \in {"none", "screenPoint", "element"}
    /\ c.kind \in {"copyTextFrom", "assertVisible", "assertNotVisible",
                   "extendedWaitUntil"} => c.target = "selector"
    /\ c.kind \notin Tapped \cup {"swipe", "copyTextFrom", "assertVisible", "assertNotVisible",
                                  "extendedWaitUntil", "assertScreenshot"}
          => c.target = "none"
    /\ c.target = "element" => c.kind = "swipe"
    /\ c.waitUntilVisible => c.kind = "tapOn" /\ c.target # "screenPoint"
    /\ {"visible", "notVisible"} \cap c.parts # {} => c.kind \in {"extendedWaitUntil", "runScript"}

\* A plain command has no option.
IsPlain(c, k) ==
    /\ c \in CommandType /\ c.kind = k /\ c.target = "none" /\ c.parts = {}
    /\ c.repeat = 1 /\ ~c.waitUntilVisible

\* A keyword without options.
LEMMA PlainTypes == ASSUME NEW k \in Keywords \cup {"none"} PROVE IsPlain(Plain(k), k)
  BY DEF Plain, CommandType, Adjusted, IsPlain

\* A plain command that looks for nothing is well formed.
LEMMA PlainForms ==
    ASSUME NEW k \in Keywords \ (Tapped \cup {"copyTextFrom", "assertVisible", "assertNotVisible",
                                              "extendedWaitUntil"}),
           NEW c, IsPlain(c, k)
    PROVE  c \in CommandType /\ WellFormed(c)
  BY DEF IsPlain, WellFormed, Keywords, Tapped

\* What the compiler accepts is well formed, kind by kind,
LEMMA FormTypes == \A c \in Forms : c \in CommandType /\ WellFormed(c)
<1> TAKE c \in Forms
<1>1. CASE c \in TapOn
  <2>1. PICK t \in Targets, n \in 1..MaxRepeat, r \in BOOLEAN, v \in BOOLEAN :
          /\ c = Tap(t, n, r, v)
          /\ ~Unsearchable(c)
    BY <1>1 DEF TapOn
  <2>2. IsPlain(Plain("tapOn"), "tapOn") /\ n \in Nat \ {0}
    BY PlainTypes, FormsAssumption DEF Keywords, Tapped
  <2>3. /\ c \in CommandType /\ c.kind = "tapOn" /\ c.target = t /\ c.repeat = n /\ c.parts = {}
        /\ c.waitUntilVisible = v
    BY <2>1, <2>2 DEF CommandType, IsPlain, Tap
  <2> QED
    BY <2>1, <2>2, <2>3 DEF WellFormed, Unsearchable, Tapped, Targets
<1>2. CASE c \in Gesture
  <2>1. PICK k \in {"doubleTapOn", "longPressOn"}, t \in Targets : c = [Plain(k) EXCEPT !.target = t]
    BY <1>2 DEF Gesture
  <2>2. IsPlain(Plain(k), k)
    BY PlainTypes DEF Keywords, Tapped
  <2>3. c \in CommandType /\ c.kind = k /\ c.target = t /\ c.parts = {} /\ ~c.waitUntilVisible
    BY <2>1, <2>2 DEF CommandType, IsPlain
  <2> QED
    BY <2>1, <2>3 DEF WellFormed, Tapped, Targets
<1>3. CASE c \in Swipe
  <2>1. PICK t \in {"none", "screenPoint", "element"} : c = [Plain("swipe") EXCEPT !.target = t]
    BY <1>3 DEF Swipe
  <2>2. IsPlain(Plain("swipe"), "swipe")
    BY PlainTypes DEF Keywords
  <2>3. c \in CommandType /\ c.kind = "swipe" /\ c.target = t /\ c.parts = {} /\ ~c.waitUntilVisible
    BY <2>1, <2>2 DEF CommandType, IsPlain, Targets
  <2> QED
    BY <2>1, <2>3 DEF WellFormed, Tapped
<1>4. CASE c \in Typing \cup ActionAlias \cup PressKey \cup SetClipboard \cup AssertTrue \cup Lifecycle \cup OpenLink
            \cup Media \cup LogCapture \cup DeviceState \cup EvalScript
  <2>1. PICK k \in Keywords \ (Tapped \cup {"copyTextFrom", "assertVisible", "assertNotVisible",
                                            "extendedWaitUntil"}) :
           c = Plain(k)
    BY <1>4 DEF Typing, ActionAlias, PressKey, SetClipboard, AssertTrue, Lifecycle, OpenLink,
         Media, LogCapture,
         DeviceState, EvalScript, InputText, EraseText, InputRandom, PasteText, DirectAction, SetLocation, Keywords, Tapped
  <2> QED
    BY <2>1, PlainTypes, PlainForms
<1>5. CASE c \in CopyTextFrom \cup AssertVisible \cup AssertNotVisible
  <2>1. PICK k \in {"copyTextFrom", "assertVisible",
                    "assertNotVisible"} : c = [Plain(k) EXCEPT !.target = "selector"]
    BY <1>5 DEF CopyTextFrom, AssertVisible, AssertNotVisible, OnSelector
  <2>2. IsPlain(Plain(k), k)
    BY PlainTypes DEF Keywords
  <2>3. c \in CommandType /\ c.kind = k /\ c.target = "selector" /\ c.parts = {} /\ ~c.waitUntilVisible
    BY <2>1, <2>2 DEF CommandType, IsPlain, Targets
  <2> QED
    BY <2>1, <2>3 DEF WellFormed, Tapped
<1>6. CASE c \in ExtendedWaitUntil
  <2>1. PICK t \in Timeouts \cup {Adjusted}, p \in (SUBSET {"visible", "notVisible"}) \ {{}} :
          c = WaitFor(t, p)
    BY <1>6 DEF ExtendedWaitUntil
  <2>2. IsPlain(Plain("extendedWaitUntil"), "extendedWaitUntil") /\ t \in Nat
    BY PlainTypes, FormsAssumption DEF Keywords, Adjusted
  <2>3. c \in CommandType /\ c.kind = "extendedWaitUntil" /\ c.target = "selector" /\ ~c.waitUntilVisible
    BY <2>1, <2>2 DEF CommandType, IsPlain, WaitFor, Targets, Options
  <2> QED
    BY <2>1, <2>3 DEF WellFormed, Tapped
<1>7. CASE c \in LaunchApp
  <2>1. PICK p \in SUBSET {"clearKeychain", "clearState", "permissions", "stopApp"} :
          c = [Plain("launchApp") EXCEPT !.parts = p]
    BY <1>7 DEF LaunchApp
  <2>2. IsPlain(Plain("launchApp"), "launchApp")
    BY PlainTypes DEF Keywords
  <2>3. c \in CommandType /\ c.kind = "launchApp" /\ c.target = "none" /\ ~c.waitUntilVisible /\ c.parts = p
    BY <2>1, <2>2 DEF CommandType, IsPlain, Options
  <2> QED
    BY <2>1, <2>3 DEF WellFormed, Tapped
<1>8. CASE c \in AnimationWait
  <2>1. PICK t \in Timeouts : c = [Plain("waitForAnimationToEnd") EXCEPT !.timeout = t]
    BY <1>8 DEF AnimationWait
  <2>2. IsPlain(Plain("waitForAnimationToEnd"), "waitForAnimationToEnd") /\ t \in Nat
    BY PlainTypes, FormsAssumption DEF Keywords
  <2>3. IsPlain(c, "waitForAnimationToEnd")
    BY <2>1, <2>2 DEF CommandType, IsPlain
  <2> QED
    BY <2>3, PlainForms DEF Keywords, Tapped
<1>9. CASE c \in Travel
  <2>1. PICK n \in 2..(MaxRepeat + 1) : c = [Plain("travel") EXCEPT !.repeat = n]
    BY <1>9 DEF Travel
  <2>2. IsPlain(Plain("travel"), "travel") /\ n \in Nat
    BY PlainTypes, FormsAssumption DEF Keywords
  <2>3. /\ c \in CommandType /\ c.kind = "travel" /\ c.target = "none" /\ c.parts = {} /\ ~c.waitUntilVisible
        /\ c.repeat > 0
    BY <2>1, <2>2 DEF CommandType, IsPlain
  <2> QED
    BY <2>3 DEF WellFormed, Tapped
<1>10. CASE c \in AssertScreenshot
  <2>1. PICK t \in {"none", "selector"} : c = [Plain("assertScreenshot") EXCEPT !.target = t]
    BY <1>10 DEF AssertScreenshot
  <2>2. IsPlain(Plain("assertScreenshot"), "assertScreenshot")
    BY PlainTypes DEF Keywords
  <2>3. c \in CommandType /\ c.kind = "assertScreenshot" /\ c.target = t /\ c.parts = {} /\ ~c.waitUntilVisible
    BY <2>1, <2>2 DEF CommandType, IsPlain, Targets
  <2> QED
    BY <2>1, <2>3 DEF WellFormed, Tapped
<1>11. CASE c \in AICommand
  <2>1. PICK k \in {"assertWithAI", "assertNoDefectsWithAI",
                    "extractTextWithAI"} : c = [Plain(k) EXCEPT !.optional = TRUE]
    BY <1>11 DEF AICommand
  <2>2. IsPlain(Plain(k), k)
    BY PlainTypes DEF Keywords
  <2>3. IsPlain(c, k)
    BY <2>1, <2>2 DEF CommandType, IsPlain
  <2> QED
    BY <2>3, PlainForms DEF Keywords, Tapped
<1>12. CASE c \in RunScript
  <2>1. PICK p \in SUBSET {"platform", "scriptCondition", "visible", "notVisible"} :
          c = [Plain("runScript") EXCEPT !.parts = p]
    BY <1>12 DEF RunScript
  <2>2. IsPlain(Plain("runScript"), "runScript")
    BY PlainTypes DEF Keywords
  <2>3. c \in CommandType /\ c.kind = "runScript" /\ c.target = "none" /\ ~c.waitUntilVisible
    BY <2>1, <2>2 DEF CommandType, IsPlain, Options
  <2> QED
    BY <2>1, <2>3 DEF WellFormed, Tapped
<1> QED
  BY <1>1, <1>2, <1>3, <1>4, <1>5, <1>6, <1>7, <1>8, <1>9, <1>10, <1>11, <1>12 DEF Forms

\* also where it is marked optional.
LEMMA LeafTypes == \A c \in Leaves : c \in CommandType /\ WellFormed(c)
<1> TAKE c \in Leaves
<1>1. PICK d \in Forms : c = d \/ c = [d EXCEPT !.optional = ~@]
  BY DEF Leaves, MayBeOptional, Forms
<1>2. d \in CommandType /\ WellFormed(d)
  BY FormTypes
<1> QED
  BY <1>1, <1>2 DEF CommandType, WellFormed

\* With it.
CommandTypes == CmdTypes /\ quiet \in Int

\* An authored timeout is a number.
LEMMA CommandTyped ==
    ASSUME CommandTypes
    PROVE  cmd.timeout \in Nat
  BY LeafTypes, PlainTypes DEF CommandTypes, CmdTypes, CommandType, NoCommand, IsPlain

\* The helpers of the clock yield integers.
LEMMA Arithmetic ==
    \A a, b \in Int : Smaller(a, b) \in Int /\ Less(a, b) \in Int
  BY DEF Smaller, Less

\* Time that is spent keeps the clock an integer.
LEMMA SpendTypes ==
    ASSUME quiet \in Int, NEW d \in Int, Spend(d)
    PROVE  quiet' \in Int
<1>1. Required \in Int /\ Never \in Int /\ quiet + d \in Int
  BY TimeAssumption DEF Never
<1>2. Smaller(Required, quiet + d) \in Int
  BY <1>1, Arithmetic
<1> QED
  BY <1>1, <1>2 DEF Spend

\* What goes on around the command stays within its types.
\* What a step leaves of the world.
WorldKept == flow' = flow /\ view' \in Views /\ cancelled' \in BOOLEAN /\ quiet' \in Int

\* No step takes the world out of its types.
LEMMA WorldTypes ==
    ASSUME CommandTypes, [CmdNext]_cmdVars
    PROVE  WorldKept
<1> USE TimeAssumption DEF CommandTypes, CmdTypes, WorldKept, world, Kept
<1>1. CASE ScreenChanges \/ AppDies \/ Cancel \/ TimePasses \/ UNCHANGED cmdVars
  <2>1. CASE ScreenChanges
    BY <2>1 DEF ScreenChanges
  <2>2. CASE AppDies
    BY <2>2 DEF AppDies
  <2>3. CASE Cancel
    BY <2>3 DEF Cancel
  <2>4. CASE TimePasses
    BY <2>4 DEF TimePasses
  <2>5. CASE UNCHANGED cmdVars
    BY <2>5 DEF cmdVars
  <2> QED
    BY <1>1, <2>1, <2>2, <2>3, <2>4, <2>5
<1>2. CASE Begin \/ Evaluate \/ Completes \/ Interrupted
  BY <1>2 DEF Begin, Evaluate, Completes, Interrupted, Ends
<1>3. CASE SetDeadline \/ Aim \/ AimInside \/ AimAtCentre \/ Grid \/ StartBatch \/ TreeBefore \/ ShotBefore \/ Compare
  BY <1>3 DEF SetDeadline, Aim, AimInside, AimAtCentre, Grid, StartBatch, TreeBefore, ShotBefore,
       Compare
<1>4. CASE LookFails \/ LookupFails \/ TouchFails \/ CaptureFails \/ AppearFails \/ StillFails \/ CallFails
  BY <1>4 DEF LookFails, LookupFails, TouchFails, CaptureFails, AppearFails, StillFails, CallFails,
       DriverFails, Ends
<1>5. CASE Look
  <2>1. UNCHANGED world
    BY <1>5 DEF Look
  <2>2. PICK slow \in 0..1 : Spend(slow) \/ Spend(slow + Smaller(Poll, Less(call.left, slow)))
    BY <1>5 DEF Look
  <2>3. call.left \in Int /\ Poll \in Int /\ slow \in Int
    BY DEF Locals, Poll
  <2>4. Less(call.left, slow) \in Int
    BY <2>3, Arithmetic
  <2>5. Smaller(Poll, Less(call.left, slow)) \in Int
    BY <2>3, <2>4, Arithmetic
  <2>6. slow + Smaller(Poll, Less(call.left, slow)) \in Int
    BY <2>3, <2>5
  <2>7. quiet' \in Int
    BY <2>2, <2>3, <2>6, SpendTypes
  <2> QED
    BY <2>1, <2>7
<1>6. CASE Steady \/ Delay \/ Settle \/ Appear
  <2>1. Spend(1) /\ UNCHANGED world
    BY <1>6 DEF Steady, Delay, Settle, Appear
  <2> QED
    BY <2>1, SpendTypes
<1>7. CASE Touch
  BY <1>7 DEF Touch
<1>8. CASE SettleFails
  BY <1>8 DEF SettleFails, Ends
<1>9. CASE EndApp \/ Launch \/ Alive
  BY <1>9 DEF EndApp, Launch, Alive
<1>10. CASE Rotate
  BY <1>10 DEF Rotate, Views
<1>11. CASE Still
  <2>1. UNCHANGED world /\ (quiet' = quiet \/ Spend(Smaller(1, call.left)))
    BY <1>11 DEF Still
  <2>2. call.left \in Int
    BY DEF Locals
  <2>3. Smaller(1, call.left) \in Int
    BY <2>2 DEF Smaller
  <2> QED
    BY <2>1, <2>3, SpendTypes
<1>12. CASE Call \/ Decide
  BY <1>12 DEF Call, Decide
<1> QED
  BY <1>1, <1>2, <1>3, <1>4, <1>5, <1>6, <1>7, <1>8, <1>9, <1>10, <1>11, <1>12 DEF CmdNext, Handler

\* Changes of the locals, one after the other, keep their types.
LEMMA Updates ==
    ASSUME NEW n \in Int, NEW s \in Sights, NEW t \in Sights, NEW u \in Sights, NEW b \in BOOLEAN, NEW c \in Locals
    PROVE  /\ [c EXCEPT !.seen = s, !.polls = n] \in Locals
           /\ [c EXCEPT !.prior = u, !.latest = s, !.polls = n, !.last = t] \in Locals
           /\ [c EXCEPT !.prior = u, !.polls = n, !.last = t] \in Locals
           /\ [c EXCEPT !.last = u, !.shown = b, !.polls = n] \in Locals
<1>1. [c EXCEPT !.seen = s, !.polls = n] \in Locals
  BY Zenon DEF Locals
<1>2. [c EXCEPT !.prior = u, !.latest = s, !.polls = n, !.last = t] \in Locals
  BY Zenon DEF Locals
<1>3. [c EXCEPT !.prior = u, !.polls = n, !.last = t] \in Locals
  BY Zenon DEF Locals
<1>4. [c EXCEPT !.last = u, !.shown = b, !.polls = n] \in Locals
  BY Zenon DEF Locals
<1> QED
  BY <1>1, <1>2, <1>3, <1>4

\* The deadline of a command is a number.
LEMMA BudgetTypes ==
    ASSUME CommandTypes
    PROVE  Budget(cmd) \in Int
<1>1. cmd.timeout \in Int /\ quiet \in Int /\ Required \in Int /\ Optional \in Int
  BY CommandTyped, TimeAssumption DEF CommandTypes
<1>2. Less(Required, quiet) \in Int /\ Less(Optional, quiet) \in Int
  BY <1>1, Arithmetic
<1> QED
  BY <1>1, <1>2 DEF Budget

\* No step takes the locals out of their types.
LEMMA LocalTypes ==
    ASSUME CommandTypes, [CmdNext]_cmdVars
    PROVE  call' \in Locals
<1> USE DEF CommandTypes, CmdTypes
<1>1. CASE ScreenChanges \/ AppDies \/ Cancel \/ TimePasses \/ UNCHANGED cmdVars
  BY <1>1 DEF ScreenChanges, AppDies, Cancel, TimePasses, cmdVars
<1>2. ASSUME NEW e, NEW last, FinishAs(e, last)
      PROVE  call' \in Locals
  BY <1>2, FreshTypes DEF FinishAs
<1>3. CASE Begin \/ Completes \/ Interrupted
  BY <1>3, <1>2, FreshTypes DEF Begin, Completes, Interrupted, Ends, Finish
<1>4. CASE Evaluate
  BY <1>4, <1>2 DEF Evaluate, Ends, Finish
<1>5. CASE LookFails \/ LookupFails \/ TouchFails \/ CaptureFails \/ AppearFails \/ StillFails \/ CallFails
  BY <1>5, <1>2 DEF LookFails, LookupFails, TouchFails, CaptureFails, AppearFails, StillFails,
       CallFails, DriverFails,
     Ends, Finish
<1>6. CASE SetDeadline
  BY <1>6, BudgetTypes DEF SetDeadline, Go, Locals
<1>7. CASE Look
  <2>1. PICK s \in Spots \cup {Gone}, slow \in 0..1 :
          LET spare == Less(call.left, slow)
              pause == Smaller(Poll, spare)
              looked == [call EXCEPT !.left = spare, !.seen = s, !.last = s, !.shown = @ \/ s # Gone]
          IN  \/ Go(looked)
              \/ FinishAs(Missed, looked)
              \/ Stay([looked EXCEPT !.left = spare - pause])
    BY <1>7 DEF Look
  <2> DEFINE spare == Less(call.left, slow)
             pause == Smaller(Poll, spare)
             looked == [call EXCEPT !.left = spare, !.seen = s, !.last = s, !.shown = @ \/ s # Gone]
  <2>2. spare \in Int /\ pause \in Int
    <3>1. call.left \in Int /\ Poll \in Int /\ slow \in Int
      BY DEF Locals, Poll
    <3> QED
      BY <3>1, Arithmetic
  <2> HIDE DEF spare, pause
  <2>3. looked \in Locals
    BY <2>2 DEF Locals, Sights
  <2>4. [looked EXCEPT !.left = spare - pause] \in Locals
    <3> HIDE DEF looked
    <3> QED
      BY <2>2, <2>3 DEF Locals
  <2> QED
    BY <1>2, <2>1, <2>3, <2>4 DEF spare, pause, Go, Stay
<1>8. CASE Steady
  <2>1. PICK s \in Spots \cup {Gone} :
          \/ Go([call EXCEPT !.seen = IF s = Gone THEN @ ELSE s, !.polls = 0])
          \/ Stay([call EXCEPT !.seen = IF s = Gone THEN @ ELSE s, !.polls = @ + 1])
    BY <1>8 DEF Steady
  <2>2. /\ [call EXCEPT !.seen = IF s = Gone THEN @ ELSE s, !.polls = 0] \in Locals
        /\ [call EXCEPT !.seen = IF s = Gone THEN @ ELSE s, !.polls = @ + 1] \in Locals
    <3>1. (IF s = Gone THEN call.seen ELSE s) \in Sights /\ 0 \in Int /\ call.polls + 1 \in Int
      BY DEF Locals, Sights
    <3> QED
      BY <3>1, Updates
  <2> QED
    BY <2>1, <2>2 DEF Go, Stay
<1>9. CASE Aim \/ AimInside \/ AimAtCentre
  <2>1. Finish("operation") \/ Go([call EXCEPT !.aim = call.seen])
    BY <1>9 DEF Aim, AimInside, AimAtCentre
  <2> QED
    BY <1>2, <2>1 DEF Finish, Go, Locals
<1>10. CASE Grid \/ Delay \/ Call \/ Touch
  BY <1>10 DEF Grid, Delay, Call, Touch, Go
<1>11. CASE StartBatch
  BY <1>11 DEF StartBatch, Go, Locals
<1>12. CASE TreeBefore \/ ShotBefore
  <2>1. /\ Tree(view) \in Sights
        /\ view \in [at: Sights, covered: BOOLEAN, turned: Orientations \cup {Unread}]
    BY DEF Views, Tree, Sights
  <2>2. CASE TreeBefore
    BY <2>1, <2>2 DEF TreeBefore, Go, Locals
  <2>3. CASE ShotBefore
    BY <2>1, <2>3 DEF ShotBefore, Go, Locals
  <2> QED
    BY <1>12, <2>2, <2>3
<1>13. CASE Compare
  BY <1>13 DEF Compare, Go
<1>14. CASE Settle
  <2>1. PICK sample \in {Unread, Tree(view)}, loading \in BOOLEAN, allowed \in Samples :
        LET n == Polls(sample)
            settled == sample # Unread /\ sample = call.prior /\ ~loading
            latest == IF sample = Unread THEN call.latest ELSE sample
            over == [call EXCEPT !.prior = Unread, !.latest = latest, !.polls = 0, !.last = Unread]
        IN \/ Go(over)
           \/ Finish("operation")
           \/ Stay([call EXCEPT !.prior = sample, !.latest = latest, !.polls = n])
    BY <1>14 DEF Settle
  <2>2. sample \in Sights /\ call.latest \in Sights /\ Unread \in Sights /\ Polls(sample) \in Int
    BY DEF Views, Tree, Sights, Locals, Polls
  <2> DEFINE latest == IF sample = Unread THEN call.latest ELSE sample
  <2>3. latest \in Sights
    BY <2>2
  <2> HIDE DEF latest
  <2>4. [call EXCEPT !.prior = Unread, !.latest = latest, !.polls = 0, !.last = Unread] \in Locals
    <3>1. Unread \in Sights /\ 0 \in Int
      BY <2>2
    <3> QED
      BY <2>3, <3>1, Updates
  <2>5. [call EXCEPT !.prior = sample, !.latest = latest, !.polls = Polls(sample)] \in Locals
    BY <2>2, <2>3 DEF Locals
  <2> QED
    BY <1>2, <2>1, <2>4, <2>5 DEF latest, Go, Stay, Finish
<1>15. CASE SettleFails
  <2>1. \/ Ends("cancelled") \/ Ends("operation")
        \/ Go([call EXCEPT !.prior = Unread, !.polls = 0, !.last = Unread])
    BY <1>15 DEF SettleFails
  <2>2. [call EXCEPT !.prior = Unread, !.polls = 0, !.last = Unread] \in Locals
    <3>1. Unread \in Sights /\ 0 \in Int
      BY DEF Sights
    <3> QED
      BY <3>1, Updates
  <2> QED
    BY <1>2, <2>1, <2>2 DEF Ends, Finish, Go
<1>16. CASE Appear
  <2>1. PICK s \in Spots \cup {Gone}, allowed \in Samples :
        LET looked == [call EXCEPT !.last = s, !.shown = @ \/ s # Gone, !.polls = @ + 1]
        IN \/ s # Gone /\ Go([looked EXCEPT !.polls = 0])
           \/ FinishAs("assertion", looked)
           \/ Stay(looked)
    BY <1>16 DEF Appear
  <2> DEFINE looked == [call EXCEPT !.last = s, !.shown = @ \/ s # Gone, !.polls = @ + 1]
  <2>2. looked \in Locals
    <3>1. s \in Sights /\ (call.shown \/ s # Gone) \in BOOLEAN /\ call.polls + 1 \in Int
      BY DEF Locals, Sights
    <3> QED
      BY <3>1, Updates
  <2>3. [looked EXCEPT !.polls = 0] \in Locals
    <3> HIDE DEF looked
    <3> QED
      BY <2>2 DEF Locals
  <2> QED
    BY <1>2, <2>1, <2>2, <2>3 DEF Go, Stay
<1>17. CASE EndApp \/ Launch \/ Alive \/ Rotate \/ Decide
  BY <1>17, <1>2 DEF EndApp, Launch, Alive, Rotate, Decide, Go, Finish
<1>18. CASE Still
  <2>1. Go(call) \/ Stay([call EXCEPT !.left = @ - Smaller(1, call.left)])
    BY <1>18 DEF Still
  <2>2. call.left \in Int /\ Smaller(1, call.left) \in Int
    BY DEF Locals, Smaller
  <2> QED
    BY <2>1, <2>2 DEF Go, Stay, Locals
<1> QED
  BY <1>1, <1>3, <1>4, <1>5, <1>6, <1>7, <1>8, <1>9, <1>10, <1>11, <1>12, <1>13, <1>14, <1>15,
       <1>16, <1>17, <1>18
     DEF CmdNext, Handler

\* A step keeps the types, and is of one of the eight kinds.
LEMMA TypesKept ==
    ASSUME CommandTypes, [CmdNext]_cmdVars
    PROVE  CommandTypes' /\ CmdStep
<1>1. WorldKept /\ call' \in Locals /\ CmdStep
  BY WorldTypes, LocalTypes, StepKinds DEF CommandTypes
<1>2. cmd' \in Leaves \cup {NoCommand}
  BY <1>1, FlowsAssumption DEF CmdStep, CommandTypes, CmdTypes, Aside, Began, Expanded, Failed,
       Passes, Popped, Remains,
     Repeats
<1> QED
  BY <1>1, <1>2 DEF WorldKept, CommandTypes, CmdTypes

\* The types hold at first.
LEMMA TypesInit == CmdInit => CommandTypes
<1> SUFFICES ASSUME CmdInit PROVE CommandTypes
  OBVIOUS
<1>1. call \in Locals
  BY FreshTypes DEF CmdInit
<1>2. quiet \in Int
  BY TimeAssumption DEF CmdInit, Never
<1> QED
  BY <1>1, <1>2 DEF CmdInit, CommandTypes, CmdTypes

-----------------------------------------------------------------------------
(* Properties of plans, and of two plans joined                            *)

\* The stages of a plan; only a tap that may be repeated compares.
Lean ==
    {"deadline", "find", "mustSee", "whenSeen", "mustGo", "whenGone", "steady", "aim", "inside",
     "centre",
     "grid", "batch", "touch", "act", "delay", "treeBefore", "shotBefore", "settle", "settleOrFail", "appear",
     "endApp", "endAppForGood", "launch", "alive", "rotate", "still", "judge", "whether", "call", "wipe",
     "shot", "write", "copy", "generate"}
Stages == Lean \cup {"compare"}
\* A touch stays aimed over these; after those the target may stand elsewhere.
Calm == {"treeBefore", "shotBefore", "batch", "touch", "delay"}
Disturbing == Waits \cup Settling \cup {"appear", "compare"}

\* A search that ends with the k-th stage, and nothing but calm stages between k and j.
Found(s, k) == s[k - 2] = "find" /\ s[k - 1] = "steady" /\ s[k] \in Aiming
Clear(s, k, j) == \A i \in (k + 1)..(j - 1) : s[i] \in Calm

\* Every touch follows a search of its own.
Aimed(s) ==
    \A j \in 1..Len(s) : s[j] = "touch" => \E k \in 3..(j - 1) : Found(s, k) /\ Clear(s, k, j)
\* A search after which nothing happened yet.
Open(s) == Aimed(s) /\ \E k \in 3..Len(s) : Found(s, k) /\ Clear(s, k, Len(s) + 1)
\* Plans that touch at once, not at all, or do nothing else; what is looked for in a plan,
\* whether it leaves the screen alone, and whether its last look is one of X.
Prompt(s) == \A j \in 1..Len(s) : s[j] = "touch" => Clear(s, 0, j)
AllCalm(s) == \A j \in 1..Len(s) : s[j] \in Calm
NoTouch(s) == \A j \in 1..Len(s) : s[j] # "touch"
Seeks(s) == \E i \in 1..Len(s) : s[i] \in Looking \cup {"appear"}
Undisturbed(s) == \A j \in 1..Len(s) : s[j] \notin Disturbing
Shows(s, X) == \E i \in 1..Len(s) : s[i] \in X /\ \A j \in (i + 1)..Len(s) : s[j] \notin Disturbing

\* Such a plan is a plan.
LEMMA LeanStages == \A s \in Seq(Lean) : s \in Seq(Stages)
<1> SUFFICES ASSUME NEW s \in Seq(Lean) PROVE s \in Seq(Stages)
  OBVIOUS
<1>1. \A i \in 1..Len(s) : s[i] \in Stages
  BY ElementOfSeq DEF Stages
<1> QED
  BY <1>1, SeqDef, LenProperties

\* Two that compare nothing make one that compares nothing.
LEMMA JoinLean ==
    ASSUME NEW s \in Seq(Lean), NEW t \in Seq(Lean)
    PROVE  s \o t \in Seq(Lean)
  BY ConcatProperties

\* What stands where in two plans joined.
LEMMA Joined ==
    ASSUME NEW s \in Seq(Stages), NEW t \in Seq(Stages), NEW u, u = s \o t
    PROVE  /\ u \in Seq(Stages) /\ Len(u) = Len(s) + Len(t) /\ Len(s) \in Nat /\ Len(t) \in Nat
           /\ \A i \in 1..Len(s) : u[i] = s[i]
           /\ \A i \in 1..Len(t) : u[i + Len(s)] = t[i]
           /\ \A i \in (Len(s) + 1)..Len(u) : i - Len(s) \in 1..Len(t) /\ u[i] = t[i - Len(s)]
<1>1. /\ u \in Seq(Stages) /\ Len(u) = Len(s) + Len(t) /\ Len(s) \in Nat /\ Len(t) \in Nat
      /\ \A i \in 1..(Len(s) + Len(t)) : u[i] = IF i <= Len(s) THEN s[i] ELSE t[i - Len(s)]
  BY ConcatProperties, LenProperties
<1>2. \A i \in 1..Len(s) : u[i] = s[i]
  BY <1>1
<1>3. \A i \in 1..Len(t) : u[i + Len(s)] = t[i]
  <2> SUFFICES ASSUME NEW i \in 1..Len(t) PROVE u[i + Len(s)] = t[i]
    OBVIOUS
  <2>1. i + Len(s) \in 1..(Len(s) + Len(t)) /\ ~(i + Len(s) <= Len(s)) /\ i + Len(s) - Len(s) = i
    BY <1>1
  <2> QED
    BY <1>1, <2>1
<1>4. \A i \in (Len(s) + 1)..Len(u) : i - Len(s) \in 1..Len(t) /\ u[i] = t[i - Len(s)]
  <2> SUFFICES ASSUME NEW i \in (Len(s) + 1)..Len(u) PROVE i - Len(s) \in 1..Len(t) /\ u[i] = t[i - Len(s)]
    OBVIOUS
  <2>1. i \in 1..(Len(s) + Len(t)) /\ ~(i <= Len(s)) /\ i - Len(s) \in 1..Len(t)
    BY <1>1
  <2> QED
    BY <1>1, <2>1
<1> QED
  BY <1>1, <1>2, <1>3, <1>4

\* A touch of the second part keeps the search that precedes it.
LEMMA JoinAimed ==
    ASSUME NEW s \in Seq(Stages), NEW t \in Seq(Stages), Aimed(s), Aimed(t)
    PROVE  Aimed(s \o t)
<1> DEFINE u == s \o t
<1>1. /\ Len(u) = Len(s) + Len(t) /\ Len(s) \in Nat /\ Len(t) \in Nat
      /\ \A i \in 1..Len(s) : u[i] = s[i]
      /\ \A i \in 1..Len(t) : u[i + Len(s)] = t[i]
      /\ \A i \in (Len(s) + 1)..Len(u) : i - Len(s) \in 1..Len(t) /\ u[i] = t[i - Len(s)]
  BY Joined
<1> HIDE DEF u
<1>2. ASSUME NEW j \in 1..Len(u), u[j] = "touch", j <= Len(s)
      PROVE  \E k \in 3..(j - 1) : Found(u, k) /\ Clear(u, k, j)
  <2>1. j \in 1..Len(s) /\ s[j] = "touch"
    BY <1>1, <1>2
  <2>2. PICK k \in 3..(j - 1) : Found(s, k) /\ Clear(s, k, j)
    BY <2>1 DEF Aimed
  <2>3. k - 2 \in 1..Len(s) /\ k - 1 \in 1..Len(s) /\ k \in 1..Len(s)
        /\ \A i \in (k + 1)..(j - 1) : i \in 1..Len(s)
    BY <1>1, <2>1, <2>2
  <2>4. Found(u, k)
    BY <1>1, <2>2, <2>3 DEF Found
  <2>5. Clear(u, k, j)
    BY <1>1, <2>2, <2>3 DEF Clear
  <2> QED
    BY <2>2, <2>4, <2>5
<1>3. ASSUME NEW j \in 1..Len(u), u[j] = "touch", j > Len(s)
      PROVE  \E k \in 3..(j - 1) : Found(u, k) /\ Clear(u, k, j)
  <2>1. j - Len(s) \in 1..Len(t) /\ t[j - Len(s)] = "touch"
    BY <1>1, <1>3
  <2>2. PICK k \in 3..(j - Len(s) - 1) : Found(t, k) /\ Clear(t, k, j - Len(s))
    BY <2>1 DEF Aimed
  <2>3. Found(u, k + Len(s))
    <3>1. /\ k - 2 \in 1..Len(t) /\ k - 1 \in 1..Len(t) /\ k \in 1..Len(t)
          /\ (k - 2) + Len(s) = (k + Len(s)) - 2 /\ (k - 1) + Len(s) = (k + Len(s)) - 1
      BY <1>1, <2>1, <2>2
    <3>2. u[(k - 2) + Len(s)] = t[k - 2] /\ u[(k - 1) + Len(s)] = t[k - 1] /\ u[k + Len(s)] = t[k]
      BY <1>1, <3>1
    <3> QED
      BY <2>2, <3>1, <3>2 DEF Found
  <2>4. Clear(u, k + Len(s), j)
    <3> SUFFICES ASSUME NEW i \in (k + Len(s) + 1)..(j - 1) PROVE u[i] \in Calm
      BY DEF Clear
    <3>1. i \in (Len(s) + 1)..Len(u) /\ i - Len(s) \in (k + 1)..(j - Len(s) - 1)
      BY <1>1, <2>1, <2>2
    <3> QED
      BY <1>1, <2>2, <3>1 DEF Clear
  <2>5. k + Len(s) \in 3..(j - 1)
    BY <1>1, <2>1, <2>2
  <2> QED
    BY <2>3, <2>4, <2>5
<1>4. \A j \in 1..Len(u) : j <= Len(s) \/ j > Len(s)
  BY <1>1
<1> QED
  BY <1>2, <1>3, <1>4 DEF Aimed, u

\* What follows a search at once is aimed with it.
LEMMA JoinOpen ==
    ASSUME NEW s \in Seq(Stages), NEW t \in Seq(Stages), Open(s), Prompt(t)
    PROVE  Aimed(s \o t) /\ (AllCalm(t) => Open(s \o t))
<1> DEFINE u == s \o t
<1>1. /\ Len(u) = Len(s) + Len(t) /\ Len(s) \in Nat /\ Len(t) \in Nat
      /\ \A i \in 1..Len(s) : u[i] = s[i]
      /\ \A i \in (Len(s) + 1)..Len(u) : i - Len(s) \in 1..Len(t) /\ u[i] = t[i - Len(s)]
  BY Joined
<1> HIDE DEF u
<1>2. PICK k \in 3..Len(s) : Found(s, k) /\ Clear(s, k, Len(s) + 1)
  BY DEF Open
<1>3. \A h \in 3..Len(s) : Found(s, h) => Found(u, h)
  <2> TAKE h \in 3..Len(s)
  <2>1. h \in 1..Len(s) /\ h - 1 \in 1..Len(s) /\ h - 2 \in 1..Len(s)
    BY <1>1
  <2>2. u[h] = s[h] /\ u[h - 1] = s[h - 1] /\ u[h - 2] = s[h - 2]
    BY <1>1, <2>1
  <2> QED
    BY <2>2 DEF Found
<1>4. ASSUME NEW j \in 1..Len(u), u[j] = "touch", j <= Len(s)
      PROVE  \E h \in 3..(j - 1) : Found(u, h) /\ Clear(u, h, j)
  <2>1. j \in 1..Len(s) /\ s[j] = "touch"
    BY <1>1, <1>4
  <2>2. PICK h \in 3..(j - 1) : Found(s, h) /\ Clear(s, h, j)
    BY <2>1 DEF Open, Aimed
  <2>3. h \in 3..Len(s) /\ \A i \in (h + 1)..(j - 1) : i \in 1..Len(s)
    BY <1>1, <2>1, <2>2
  <2>4. Found(u, h)
    BY <1>3, <2>2, <2>3
  <2>5. Clear(u, h, j)
    BY <1>1, <2>2, <2>3 DEF Clear
  <2> QED
    BY <2>2, <2>4, <2>5
<1>5. ASSUME NEW j \in (Len(s) + 1)..(Len(u) + 1), \A i \in 1..(j - Len(s) - 1) : t[i] \in Calm
      PROVE  Clear(u, k, j)
  <2> SUFFICES ASSUME NEW i \in (k + 1)..(j - 1) PROVE u[i] \in Calm
    BY DEF Clear
  <2>1. CASE i <= Len(s)
    <3>1. i \in 1..Len(s) /\ i \in (k + 1)..((Len(s) + 1) - 1)
      BY <1>1, <1>2, <2>1
    <3> QED
      BY <1>1, <1>2, <3>1 DEF Clear
  <2>2. CASE i > Len(s)
    <3>1. i \in (Len(s) + 1)..Len(u) /\ i - Len(s) \in 1..(j - Len(s) - 1)
      BY <1>1, <1>2, <1>5, <2>2
    <3> QED
      BY <1>1, <1>5, <3>1
  <2>3. i \in Int /\ Len(s) \in Int
    BY <1>1, <1>2
  <2> QED
    BY <2>1, <2>2, <2>3
<1>6. ASSUME NEW j \in 1..Len(u), u[j] = "touch", j > Len(s)
      PROVE  k \in 3..(j - 1) /\ Clear(u, k, j)
  <2>1. j \in (Len(s) + 1)..(Len(u) + 1) /\ j - Len(s) \in 1..Len(t) /\ t[j - Len(s)] = "touch" /\ k \in 3..(j - 1)
    BY <1>1, <1>2, <1>6
  <2>2. \A i \in 1..(j - Len(s) - 1) : t[i] \in Calm
    <3>1. Clear(t, 0, j - Len(s))
      BY <2>1 DEF Prompt
    <3> QED
      BY <3>1 DEF Clear
  <2> QED
    BY <1>5, <2>1, <2>2
<1>7. Aimed(u)
  <2>1. \A j \in 1..Len(u) : j <= Len(s) \/ j > Len(s)
    BY <1>1
  <2> QED
    BY <1>2, <1>3, <1>4, <1>6, <2>1 DEF Aimed
<1>8. ASSUME AllCalm(t) PROVE Open(u)
  <2>1. Len(u) + 1 \in (Len(s) + 1)..(Len(u) + 1) /\ (Len(u) + 1) - Len(s) - 1 = Len(t) /\ k \in 3..Len(u)
    BY <1>1, <1>2
  <2>2. Clear(u, k, Len(u) + 1)
    BY <1>5, <1>8, <2>1 DEF AllCalm
  <2> QED
    BY <1>2, <1>3, <1>7, <2>1, <2>2 DEF Open
<1> QED
  BY <1>7, <1>8 DEF u

\* Looks of either part are looks of the whole, the last ones those of the second.
LEMMA JoinShows ==
    ASSUME NEW s \in Seq(Stages), NEW t \in Seq(Stages), NEW X
    PROVE  /\ Seeks(s) \/ Seeks(t) => Seeks(s \o t)
           /\ Shows(t, X) => Shows(s \o t, X)
           /\ Shows(s, X) /\ Undisturbed(t) => Shows(s \o t, X)
           /\ NoTouch(s) /\ NoTouch(t) => NoTouch(s \o t)
           /\ AllCalm(s) /\ AllCalm(t) => AllCalm(s \o t)
           /\ Undisturbed(s) /\ Undisturbed(t) => Undisturbed(s \o t)
<1> DEFINE u == s \o t
<1>1. /\ Len(u) = Len(s) + Len(t) /\ Len(s) \in Nat /\ Len(t) \in Nat
      /\ \A i \in 1..Len(s) : u[i] = s[i]
      /\ \A i \in 1..Len(t) : u[i + Len(s)] = t[i]
      /\ \A i \in (Len(s) + 1)..Len(u) : i - Len(s) \in 1..Len(t) /\ u[i] = t[i - Len(s)]
  BY Joined
<1> HIDE DEF u
<1>2. Seeks(s) => Seeks(u)
  BY <1>1 DEF Seeks
<1>3. Seeks(t) => Seeks(u)
  <2> SUFFICES ASSUME NEW i \in 1..Len(t), t[i] \in Looking \cup {"appear"} PROVE Seeks(u)
    BY DEF Seeks
  <2>1. i + Len(s) \in 1..Len(u) /\ u[i + Len(s)] = t[i]
    BY <1>1
  <2> QED
    BY <2>1 DEF Seeks
<1>4. Shows(t, X) => Shows(u, X)
  <2> SUFFICES ASSUME NEW i \in 1..Len(t), t[i] \in X, \A j \in (i + 1)..Len(t) : t[j] \notin Disturbing
               PROVE  Shows(u, X)
    BY DEF Shows
  <2>1. i + Len(s) \in 1..Len(u) /\ u[i + Len(s)] = t[i]
    BY <1>1
  <2>2. \A j \in (i + Len(s) + 1)..Len(u) : j \in (Len(s) + 1)..Len(u) /\ j - Len(s) \in (i + 1)..Len(t)
    BY <1>1
  <2> QED
    BY <1>1, <2>1, <2>2 DEF Shows
<1>5. Shows(s, X) /\ Undisturbed(t) => Shows(u, X)
  <2> SUFFICES ASSUME NEW i \in 1..Len(s), s[i] \in X, \A j \in (i + 1)..Len(s) : s[j] \notin Disturbing,
                      Undisturbed(t)
               PROVE  Shows(u, X)
    BY DEF Shows
  <2>1. i \in 1..Len(u) /\ u[i] = s[i]
    BY <1>1
  <2>2. \A j \in (i + 1)..Len(u) : (j \in 1..Len(s) /\ j \in (i + 1)..Len(s)) \/ j \in (Len(s) + 1)..Len(u)
    BY <1>1
  <2> QED
    BY <1>1, <2>1, <2>2 DEF Shows, Undisturbed
<1>6. \A j \in 1..Len(u) : j \in 1..Len(s) \/ j \in (Len(s) + 1)..Len(u)
  BY <1>1
<1>7. NoTouch(s) /\ NoTouch(t) => NoTouch(u)
  BY <1>1, <1>6 DEF NoTouch
<1>8. AllCalm(s) /\ AllCalm(t) => AllCalm(u)
  BY <1>1, <1>6 DEF AllCalm
<1>9. Undisturbed(s) /\ Undisturbed(t) => Undisturbed(u)
  BY <1>1, <1>6 DEF Undisturbed
<1> QED
  BY <1>2, <1>3, <1>4, <1>5, <1>7, <1>8, <1>9 DEF u

-----------------------------------------------------------------------------
(* Taps                                                                    *)

\* A plan without a touch asks for no search.
LEMMA Untouching ==
    ASSUME NEW s, NoTouch(s)
    PROVE  Aimed(s) /\ Prompt(s)
  BY DEF NoTouch, Aimed, Prompt

\* A batch of touches, as it stands, waits for nothing before its last touch.
LEMMA Batches ==
    ASSUME NEW n \in Nat \ {0}
    PROVE  Batch(n) \in Seq(Lean) /\ Prompt(Batch(n)) /\ Undisturbed(<<>>)
<1> DEFINE s == [i \in 1..(2 * n - 1) |-> IF i % 2 = 1 THEN "touch" ELSE "delay"]
           z == <<"settle">>
<1>1. 2 * n - 1 \in Nat
  OBVIOUS
<1>2. s \in Seq(Lean) /\ Len(s) = 2 * n - 1 /\ \A i \in 1..Len(s) : s[i] \in Calm
  BY <1>1 DEF Lean, Calm
<1>3. z \in Seq(Lean) /\ Len(z) = 1 /\ z[1] = "settle"
  BY DEF Lean
<1>4. Batch(n) = s \o z
  BY DEF Batch
<1> HIDE DEF s, z
<1>5. Prompt(Batch(n))
  <2> DEFINE u == s \o z
  <2>1. /\ Len(u) = Len(s) + 1
        /\ \A i \in 1..Len(s) : u[i] \in Calm
        /\ u[Len(u)] = "settle"
    <3>1. /\ Len(u) = Len(s) + Len(z) /\ Len(s) \in Nat
          /\ \A i \in 1..Len(s) : u[i] = s[i]
          /\ \A i \in 1..Len(z) : u[i + Len(s)] = z[i]
      <4>1. s \in Seq(Lean) /\ z \in Seq(Lean)
        BY <1>2, <1>3
      <4> QED
        BY <4>1, Joined, LeanStages, JoinLean
    <3> HIDE DEF u
    <3>2. u[1 + Len(s)] = "settle"
      BY <1>3, <3>1
    <3> QED
      BY <1>2, <1>3, <3>1, <3>2
  <2>2. Len(s) \in Nat
    BY <1>1, <1>2
  <2> HIDE DEF u
  <2> SUFFICES ASSUME NEW j \in 1..Len(u), u[j] = "touch" PROVE Clear(u, 0, j)
    BY <1>4 DEF u, Prompt
  <2>3. j \in 1..Len(s)
    BY <2>1, <2>2
  <2> QED
    BY <2>1, <2>2, <2>3 DEF Clear
<1>6. Undisturbed(<<>>)
  BY DEF Undisturbed
<1> QED
  BY <1>2, <1>3, <1>4, <1>5, <1>6, Joined, LeanStages, JoinLean

\* Targets that are looked for.
Aimable == {"selector", "selectorPoint", "element"}

\* What a plan has to be for the handler to do what the command asserts.
Fits(c, stages) ==
    /\ stages \in Seq(Stages)
    /\ c.kind # "tapOn" => stages \in Seq(Lean)
    /\ c.target \in Aimable => Aimed(stages)
    /\ Sought(c) => Seeks(stages)
    /\ Banned(c) => Shows(stages, Vanishing)
    /\ c.waitUntilVisible => Shows(stages, {"appear"})

\* A search for a target, as the first stages of a handler.
LEMMA Searches ==
    ASSUME NEW a \in Aiming
    PROVE  LET s == <<"deadline", "find", "steady", a>>
           IN  s \in Seq(Lean) /\ Open(s) /\ Seeks(s)
<1> DEFINE s == <<"deadline", "find", "steady", a>>
<1>1. /\ s \in Seq(Lean) /\ Len(s) = 4
      /\ s[1] = "deadline" /\ s[2] = "find" /\ s[3] = "steady" /\ s[4] = a
  BY DEF Aiming, Lean
<1>2. a # "touch"
  BY DEF Aiming
<1> HIDE DEF s
<1>3. Aimed(s)
  <2>1. \A j \in 1..Len(s) : s[j] # "touch"
    BY <1>1, <1>2
  <2> QED
    BY <2>1 DEF Aimed
<1>4. Found(s, 4) /\ Clear(s, 4, Len(s) + 1)
  BY <1>1 DEF Found, Clear
<1>5. Open(s)
  <2>1. 4 \in 3..Len(s)
    BY <1>1
  <2> QED
    BY <1>3, <1>4, <2>1 DEF Open
<1>6. Seeks(s)
  <2>1. 2 \in 1..Len(s)
    BY <1>1
  <2> QED
    BY <1>1, <2>1 DEF Seeks, Looking
<1> QED
  BY <1>1, <1>5, <1>6 DEF s

\* A target that is looked for is found, steady and aimed at the end of the search.
LEMMA Resolved ==
    ASSUME NEW c, c.target \in Targets
    PROVE  LET s == ResolveTarget(c)
           IN  /\ s \in Seq(Lean)
               /\ c.target # "screenPoint" => Open(s) /\ Seeks(s)
<1>1. CASE c.target = "screenPoint"
  BY <1>1 DEF ResolveTarget, Lean
<1>2. CASE c.target = "selector"
  <2>1. ResolveTarget(c) = <<"deadline", "find", "steady", "aim">> /\ "aim" \in Aiming
    BY <1>2 DEF ResolveTarget, Aiming
  <2> QED
    BY <2>1, Searches
<1>3. CASE c.target = "selectorPoint"
  <2>1. ResolveTarget(c) = <<"deadline", "find", "steady", "inside">> /\ "inside" \in Aiming
    BY <1>3 DEF ResolveTarget, Aiming
  <2> QED
    BY <2>1, Searches
<1> QED
  BY <1>1, <1>2, <1>3 DEF Targets

\* The stages before the first touch of a batch leave the screen alone.
LEMMA Preparing ==
    ASSUME NEW c
    PROVE  /\ LookBefore(c) \in Seq(Lean) /\ AllCalm(LookBefore(c)) /\ Prompt(LookBefore(c))
           /\ <<"batch">> \in Seq(Lean) /\ AllCalm(<<"batch">>) /\ Prompt(<<"batch">>)
<1>1. <<"batch">> \in Seq(Lean) /\ AllCalm(<<"batch">>) /\ Prompt(<<"batch">>)
  BY DEF Lean, AllCalm, Prompt, Calm
<1>2. CASE LookBefore(c) = <<>>
  BY <1>1, <1>2 DEF AllCalm, Prompt
<1>3. CASE LookBefore(c) = <<"treeBefore", "shotBefore">>
  <2> DEFINE s == <<"treeBefore", "shotBefore">>
  <2>1. s \in Seq(Lean) /\ Len(s) = 2 /\ s[1] = "treeBefore" /\ s[2] = "shotBefore"
    BY DEF Lean
  <2> HIDE DEF s
  <2>2. AllCalm(s) /\ Prompt(s)
    BY <2>1 DEF AllCalm, Prompt, Calm
  <2> QED
    BY <1>1, <1>3, <2>1, <2>2 DEF s
<1> QED
  BY <1>2, <1>3 DEF LookBefore

\* The second batch of a tap that is repeated is aimed by a search of its own.
LEMMA SecondBatch ==
    ASSUME NEW c \in Leaves, c.kind = "tapOn"
    PROVE  TapAgain(c) \in Seq(Lean) /\ (c.target \in Aimable => Aimed(TapAgain(c)))
<1> DEFINE search == ResolveTarget(c)
           start == <<"batch">>
           batch == Batch(c.repeat)
<1>1. c.target \in Targets /\ c.repeat \in Nat \ {0}
  BY LeafTypes DEF WellFormed, Tapped, CommandType
<1>2. search \in Seq(Lean) /\ (c.target # "screenPoint" => Open(search))
  BY <1>1, Resolved
<1>3. start \in Seq(Lean) /\ AllCalm(start) /\ Prompt(start)
  BY Preparing
<1>4. batch \in Seq(Lean) /\ Prompt(batch)
  BY <1>1, Batches
<1>5. TapAgain(c) = (search \o start) \o batch
  BY DEF TapAgain
<1> HIDE DEF search, start, batch
<1>6. search \o start \in Seq(Lean) /\ TapAgain(c) \in Seq(Lean)
  BY <1>2, <1>3, <1>4, <1>5, Joined, LeanStages, JoinLean
<1>7. ASSUME c.target \in Aimable
      PROVE  Aimed(TapAgain(c))
  <2>1. Open(search \o start)
    BY <1>2, <1>3, <1>7, JoinOpen, LeanStages, JoinLean DEF Aimable
  <2> QED
    BY <1>4, <1>5, <1>6, <2>1, JoinOpen, LeanStages, JoinLean
<1> QED
  BY <1>6, <1>7

\* The closing stages of a tap.
LEMMA OneStage ==
    /\ <<>> \in Seq(Lean) /\ Aimed(<<>>)
    /\ <<"compare">> \in Seq(Stages) /\ Aimed(<<"compare">>)
    /\ <<"appear">> \in Seq(Lean) /\ Aimed(<<"appear">>) /\ Shows(<<"appear">>, {"appear"})
<1>1. <<>> \in Seq(Lean) /\ NoTouch(<<>>)
  BY DEF NoTouch
<1>2. <<"compare">> \in Seq(Stages) /\ NoTouch(<<"compare">>)
  BY DEF NoTouch, Stages
<1>3. <<"appear">> \in Seq(Lean) /\ NoTouch(<<"appear">>) /\ Shows(<<"appear">>, {"appear"})
  BY DEF NoTouch, Lean, Shows
<1> QED
  BY <1>1, <1>2, <1>3, Untouching

\* tapOn, with everything that may follow its batch.
LEMMA FitsTapOn ==
    ASSUME NEW c \in Leaves, c.kind = "tapOn"
    PROVE  Fits(c, RunTapOn(c))
<1> DEFINE search == ResolveTarget(c)
           look == LookBefore(c)
           start == <<"batch">>
           batch == Batch(c.repeat)
           check == IF c.retry THEN <<"compare">> ELSE <<>>
           appear == IF c.waitUntilVisible THEN <<"appear">> ELSE <<>>
           first == ((search \o look) \o start) \o batch
<1>1. c.target \in Targets /\ c.repeat \in Nat \ {0}
  BY LeafTypes DEF WellFormed, Tapped, CommandType
<1>2. /\ search \in Seq(Stages)
      /\ c.target # "screenPoint" => Open(search) /\ Seeks(search)
  BY <1>1, Resolved, LeanStages
<1>3. /\ look \in Seq(Stages) /\ AllCalm(look) /\ Prompt(look)
      /\ start \in Seq(Stages) /\ AllCalm(start) /\ Prompt(start)
  BY Preparing, LeanStages
<1>4. batch \in Seq(Stages) /\ Prompt(batch)
  BY <1>1, Batches, LeanStages
<1>5. check \in Seq(Stages) /\ Aimed(check)
  BY OneStage, LeanStages
<1>6. /\ appear \in Seq(Stages) /\ Aimed(appear)
      /\ c.waitUntilVisible => Shows(appear, {"appear"})
  BY OneStage, LeanStages
<1>7. RunTapOn(c) = (first \o check) \o appear
  BY DEF RunTapOn
<1>8. ~Banned(c) /\ (Sought(c) => c.target # "screenPoint")
  BY LeafTypes DEF WellFormed, Banned, Sought, Tapped
<1> HIDE DEF search, look, start, batch, check, appear
<1>9. /\ search \o look \in Seq(Stages) /\ (search \o look) \o start \in Seq(Stages)
      /\ first \in Seq(Stages) /\ first \o check \in Seq(Stages) /\ RunTapOn(c) \in Seq(Stages)
  BY <1>2, <1>3, <1>4, <1>5, <1>6, <1>7, Joined
<1>10. ASSUME c.target # "screenPoint"
       PROVE  Aimed(RunTapOn(c)) /\ Seeks(RunTapOn(c))
  <2>1. Open(search \o look) /\ Seeks(search \o look)
    BY <1>2, <1>3, <1>10, JoinOpen, JoinShows
  <2>2. Open((search \o look) \o start) /\ Seeks((search \o look) \o start)
    BY <1>3, <1>9, <2>1, JoinOpen, JoinShows
  <2>3. Aimed(first) /\ Seeks(first)
    BY <1>4, <1>9, <2>2, JoinOpen, JoinShows
  <2> HIDE DEF first
  <2>4. Aimed(first \o check) /\ Seeks(first \o check)
    BY <1>5, <1>9, <2>3, JoinAimed, JoinShows
  <2>5. first \o check \in Seq(Stages) /\ appear \in Seq(Stages)
    BY <1>6, <1>9
  <2>6. Aimed((first \o check) \o appear)
    BY <1>6, <2>4, <2>5, JoinAimed
  <2>7. Seeks((first \o check) \o appear)
    BY <2>4, <2>5, JoinShows
  <2> QED
    BY <1>7, <2>6, <2>7
<1>11. c.waitUntilVisible => Shows(RunTapOn(c), {"appear"})
  <2> HIDE DEF first
  <2>1. first \o check \in Seq(Stages) /\ appear \in Seq(Stages)
    BY <1>6, <1>9
  <2>2. Shows(appear, {"appear"}) => Shows((first \o check) \o appear, {"appear"})
    BY <2>1, JoinShows
  <2> QED
    BY <1>6, <1>7, <2>2
<1> QED
  BY <1>8, <1>9, <1>10, <1>11 DEF Fits, Aimable

-----------------------------------------------------------------------------
(* The other commands that look for their target                           *)

\* Commands that look for nothing.
Blind(c) == c.target \notin Aimable /\ ~Sought(c) /\ ~Banned(c) /\ ~c.waitUntilVisible

\* They fit whatever they do.
LEMMA FitsBlind ==
    ASSUME NEW c, Blind(c), NEW stages \in Seq(Lean)
    PROVE  Fits(c, stages)
  BY LeanStages DEF Fits, Blind

\* doubleTapOn and longPressOn.
LEMMA FitsGesture ==
    ASSUME NEW c \in Leaves, c.kind \in {"doubleTapOn", "longPressOn"}, NEW n \in Nat \ {0}
    PROVE  Fits(c, Gestured(c, n))
<1> DEFINE search == ResolveTarget(c)
           batch == Batch(n)
<1>1. c.target \in Targets /\ ~Banned(c) /\ ~c.waitUntilVisible /\ (Sought(c) => c.target # "screenPoint")
  BY LeafTypes DEF WellFormed, Tapped, Banned, Sought
<1>2. search \in Seq(Lean) /\ (c.target # "screenPoint" => Open(search) /\ Seeks(search))
  BY <1>1, Resolved
<1>3. batch \in Seq(Lean) /\ Prompt(batch)
  BY Batches
<1>4. Gestured(c, n) = search \o batch
  BY DEF Gestured
<1> HIDE DEF search, batch
<1>5. Gestured(c, n) \in Seq(Lean)
  BY <1>2, <1>3, <1>4, Joined, LeanStages, JoinLean
<1>6. c.target # "screenPoint" => Aimed(Gestured(c, n)) /\ Seeks(Gestured(c, n))
  BY <1>2, <1>3, <1>4, JoinOpen, JoinShows, LeanStages, JoinLean
<1> QED
  BY <1>1, <1>5, <1>6, LeanStages DEF Fits, Aimable

\* A swipe, on an element or without one.
LEMMA FitsSwipe ==
    ASSUME NEW c \in Leaves, c.kind = "swipe"
    PROVE  Fits(c, RunSwipe(c))
<1> DEFINE search == ResolveSwipe(c)
           batch == Batch(1)
<1>1. /\ c.target \in {"none", "screenPoint", "element"} /\ ~Banned(c) /\ ~c.waitUntilVisible
      /\ Sought(c) => c.target = "element"
  BY LeafTypes DEF WellFormed, Tapped, Banned, Sought
<1>2. batch \in Seq(Lean) /\ Prompt(batch)
  BY Batches
<1>3. search \in Seq(Lean) /\ (c.target = "element" => Open(search) /\ Seeks(search))
  <2>1. CASE c.target = "none"
    BY <2>1 DEF ResolveSwipe
  <2>2. CASE c.target = "screenPoint"
    BY <2>2 DEF ResolveSwipe, Lean
  <2>3. CASE c.target = "element"
    <3>1. search = <<"deadline", "find", "steady", "centre">> /\ "centre" \in Aiming
      BY <2>3 DEF ResolveSwipe, Aiming
    <3> QED
      BY <3>1, Searches
  <2> QED
    BY <1>1, <2>1, <2>2, <2>3
<1>4. RunSwipe(c) = search \o batch
  BY DEF RunSwipe
<1> HIDE DEF search, batch
<1>5. RunSwipe(c) \in Seq(Lean)
  BY <1>2, <1>3, <1>4, Joined, LeanStages, JoinLean
<1>6. c.target = "element" => Aimed(RunSwipe(c)) /\ Seeks(RunSwipe(c))
  BY <1>2, <1>3, <1>4, JoinOpen, JoinShows, LeanStages, JoinLean
<1> QED
  BY <1>1, <1>5, <1>6, LeanStages DEF Fits, Aimable

\* Looks that a handler begins with, or ends with.
LEMMA Lookers ==
    /\ <<"deadline">> \in Seq(Lean) /\ NoTouch(<<"deadline">>)
    /\ \A a \in {"mustSee", "mustGo", "whenSeen", "whenGone"} :
          /\ <<a>> \in Seq(Lean) /\ NoTouch(<<a>>)
          /\ <<"deadline", a>> \in Seq(Lean) /\ NoTouch(<<"deadline", a>>)
          /\ a \in Looking => Seeks(<<a>>) /\ Seeks(<<"deadline", a>>)
          /\ a \in Vanishing => Shows(<<a>>, Vanishing) /\ Shows(<<"deadline", a>>, Vanishing)
    /\ <<>> \in Seq(Lean) /\ NoTouch(<<>>) /\ Undisturbed(<<>>)
<1>1. <<"deadline">> \in Seq(Lean) /\ NoTouch(<<"deadline">>)
  BY DEF Lean, NoTouch
<1>2. ASSUME NEW a \in {"mustSee", "mustGo", "whenSeen", "whenGone"}
      PROVE  /\ <<a>> \in Seq(Lean) /\ NoTouch(<<a>>)
             /\ a \in Looking => Seeks(<<a>>)
             /\ a \in Vanishing => Shows(<<a>>, Vanishing)
  BY DEF Lean, NoTouch, Seeks, Shows
<1>3. ASSUME NEW a \in {"mustSee", "mustGo", "whenSeen", "whenGone"}
      PROVE  /\ <<"deadline", a>> \in Seq(Lean) /\ NoTouch(<<"deadline", a>>)
             /\ a \in Looking => Seeks(<<"deadline", a>>)
             /\ a \in Vanishing => Shows(<<"deadline", a>>, Vanishing)
  <2> DEFINE s == <<"deadline", a>>
  <2>1. s \in Seq(Lean) /\ Len(s) = 2 /\ s[1] = "deadline" /\ s[2] = a
    BY DEF Lean
  <2> HIDE DEF s
  <2>2. NoTouch(s)
    BY <2>1 DEF NoTouch
  <2>3. 2 \in 1..Len(s) /\ (2 + 1)..Len(s) = {}
    BY <2>1
  <2>4. (a \in Looking => Seeks(s)) /\ (a \in Vanishing => Shows(s, Vanishing))
    BY <2>1, <2>3 DEF Seeks, Shows
  <2> QED
    BY <2>1, <2>2, <2>4 DEF s
<1>4. <<>> \in Seq(Lean) /\ NoTouch(<<>>) /\ Undisturbed(<<>>)
  BY DEF NoTouch, Undisturbed
<1> QED
  BY <1>1, <1>2, <1>3, <1>4

\* assertVisible and assertNotVisible.
LEMMA FitsAsserts ==
    ASSUME NEW c \in Leaves
    PROVE  /\ c.kind = "assertVisible" => Fits(c, RunAssertVisible)
           /\ c.kind = "assertNotVisible" => Fits(c, RunAssertNotVisible)
<1>1. /\ c.kind \in {"assertVisible", "assertNotVisible"} => ~c.waitUntilVisible
      /\ c.kind = "assertVisible" => ~Banned(c)
      /\ c.kind = "assertNotVisible" => ~Sought(c)
  BY LeafTypes DEF WellFormed, Tapped, Banned, Sought
<1>2. /\ RunAssertVisible \in Seq(Lean) /\ NoTouch(RunAssertVisible) /\ Seeks(RunAssertVisible)
      /\ RunAssertNotVisible \in Seq(Lean) /\ NoTouch(RunAssertNotVisible)
      /\ Shows(RunAssertNotVisible, Vanishing)
  BY Lookers DEF RunAssertVisible, RunAssertNotVisible, Looking, Vanishing
<1>3. Aimed(RunAssertVisible) /\ Aimed(RunAssertNotVisible)
  BY <1>2, Untouching
<1> QED
  BY <1>1, <1>2, <1>3, LeanStages DEF Fits

\* The looks of two plans that compare nothing.
LEMMA JoinLooks ==
    ASSUME NEW s \in Seq(Lean), NEW t \in Seq(Lean)
    PROVE  /\ s \o t \in Seq(Lean)
           /\ Seeks(s) \/ Seeks(t) => Seeks(s \o t)
           /\ NoTouch(s) /\ NoTouch(t) => NoTouch(s \o t)
           /\ Shows(t, Vanishing) => Shows(s \o t, Vanishing)
           /\ Shows(s, Vanishing) /\ Undisturbed(t) => Shows(s \o t, Vanishing)
<1>1. s \o t \in Seq(Lean)
  BY Joined, LeanStages, JoinLean
<1> QED
  BY <1>1, JoinShows, LeanStages, JoinLean

\* extendedWaitUntil: the screen without the target is looked for last.
LEMMA FitsWait ==
    ASSUME NEW c \in Leaves, c.kind = "extendedWaitUntil"
    PROVE  Fits(c, RunExtendedWait(c))
<1> DEFINE start == <<"deadline">>
           see == IF "visible" \in c.parts THEN <<"mustSee">> ELSE <<>>
           go == IF "notVisible" \in c.parts THEN <<"mustGo">> ELSE <<>>
<1>1. /\ ~c.waitUntilVisible /\ (Banned(c) => "notVisible" \in c.parts)
      /\ Sought(c) => "visible" \in c.parts
  BY LeafTypes DEF WellFormed, Tapped, Banned, Sought
<1>2. start \in Seq(Lean) /\ NoTouch(start)
  BY Lookers
<1>3. see \in Seq(Lean) /\ NoTouch(see) /\ (Sought(c) => Seeks(see))
  BY <1>1, Lookers DEF Looking
<1>4. go \in Seq(Lean) /\ NoTouch(go) /\ (Banned(c) => Shows(go, Vanishing))
  BY <1>1, Lookers DEF Vanishing
<1>5. RunExtendedWait(c) = (start \o see) \o go
  BY DEF RunExtendedWait
<1> HIDE DEF start, see, go
<1> DEFINE first == start \o see
<1>6. first \in Seq(Lean) /\ NoTouch(first) /\ (Sought(c) => Seeks(first))
  BY <1>2, <1>3, JoinLooks
<1> HIDE DEF first
<1>7. /\ first \o go \in Seq(Lean) /\ NoTouch(first \o go)
      /\ Sought(c) => Seeks(first \o go)
      /\ Banned(c) => Shows(first \o go, Vanishing)
  BY <1>4, <1>6, JoinLooks
<1>8. Aimed(first \o go)
  BY <1>7, Untouching
<1> QED
  BY <1>1, <1>5, <1>7, <1>8, LeanStages DEF Fits, first

\* copyTextFrom.
LEMMA FitsCopy ==
    ASSUME NEW c \in Leaves, c.kind = "copyTextFrom"
    PROVE  Fits(c, RunCopyText)
<1>1. ~c.waitUntilVisible /\ ~Banned(c)
  BY LeafTypes DEF WellFormed, Tapped, Banned
<1>2. /\ RunCopyText \in Seq(Lean) /\ Len(RunCopyText) = 4
      /\ RunCopyText[1] = "deadline" /\ RunCopyText[2] = "find" /\ RunCopyText[3] = "steady"
      /\ RunCopyText[4] = "copy"
  BY DEF RunCopyText, Lean
<1>3. NoTouch(RunCopyText)
  BY <1>2 DEF NoTouch
<1>4. Seeks(RunCopyText)
  <2>1. 2 \in 1..Len(RunCopyText)
    BY <1>2
  <2> QED
    BY <1>2, <2>1 DEF Seeks, Looking
<1> QED
  BY <1>1, <1>2, <1>3, <1>4, Untouching, LeanStages DEF Fits

\* assertScreenshot finds its crop before it takes a picture.
LEMMA FitsScreenshot ==
    ASSUME NEW c \in Leaves, c.kind = "assertScreenshot"
    PROVE  Fits(c, RunAssertScreenshot(c))
<1> DEFINE crop == IF c.target = "selector" THEN <<"deadline", "mustSee", "grid">> ELSE <<>>
           shot == <<"call", "shot", "call", "judge">>
<1>1. ~c.waitUntilVisible /\ ~Banned(c) /\ (Sought(c) => c.target = "selector")
  BY LeafTypes DEF WellFormed, Tapped, Banned, Sought
<1>2. crop \in Seq(Lean) /\ NoTouch(crop) /\ (c.target = "selector" => Seeks(crop))
  <2>1. CASE c.target = "selector"
    <3> DEFINE s == <<"deadline", "mustSee", "grid">>
    <3>1. s \in Seq(Lean) /\ Len(s) = 3 /\ s[1] = "deadline" /\ s[2] = "mustSee" /\ s[3] = "grid"
      BY DEF Lean
    <3>2. crop = s
      BY <2>1
    <3> HIDE DEF s, crop
    <3>3. NoTouch(s) /\ 2 \in 1..Len(s)
      BY <3>1 DEF NoTouch
    <3>4. Seeks(s)
      BY <3>1, <3>3 DEF Seeks, Looking
    <3> QED
      BY <3>1, <3>2, <3>3, <3>4
  <2>2. CASE c.target # "selector"
    BY <2>2, Lookers
  <2> QED
    BY <2>1, <2>2
<1>3. shot \in Seq(Lean) /\ NoTouch(shot)
  BY DEF Lean, NoTouch
<1>4. RunAssertScreenshot(c) = crop \o shot
  BY DEF RunAssertScreenshot
<1> HIDE DEF crop, shot
<1>5. /\ RunAssertScreenshot(c) \in Seq(Lean) /\ NoTouch(RunAssertScreenshot(c))
      /\ c.target = "selector" => Seeks(RunAssertScreenshot(c))
  BY <1>2, <1>3, <1>4, JoinLooks
<1> QED
  BY <1>1, <1>5, Untouching, LeanStages DEF Fits

\* The condition of a runScript; what follows it acts on nothing.
LEMMA FitsRunScript ==
    ASSUME NEW c \in Leaves, c.kind = "runScript"
    PROVE  Fits(c, RunRunScript(c))
<1> DEFINE platform == IF "platform" \in c.parts THEN <<"grid", "whether">> ELSE <<>>
           condition == IF "scriptCondition" \in c.parts THEN <<"call", "whether">> ELSE <<>>
           see == IF "visible" \in c.parts THEN <<"deadline", "whenSeen">> ELSE <<>>
           go == IF "notVisible" \in c.parts THEN <<"deadline", "whenGone">> ELSE <<>>
           run == <<"call", "call", "call">>
<1>1. /\ ~c.waitUntilVisible /\ (Banned(c) => "notVisible" \in c.parts) /\ c.target = "none"
      /\ Sought(c) => "visible" \in c.parts
  BY LeafTypes DEF WellFormed, Tapped, Banned, Sought
<1>2. platform \in Seq(Lean) /\ condition \in Seq(Lean)
  <2>1. /\ <<"grid", "whether">> \in Seq(Lean) /\ <<"call", "whether">> \in Seq(Lean)
        /\ <<>> \in Seq(Lean)
    BY DEF Lean
  <2> QED
    BY <2>1
<1>3. see \in Seq(Lean) /\ (Sought(c) => Seeks(see))
  BY <1>1, Lookers DEF Looking
<1>4. go \in Seq(Lean) /\ (Banned(c) => Shows(go, Vanishing))
  BY <1>1, Lookers DEF Vanishing
<1>5. run \in Seq(Lean) /\ Undisturbed(run)
  BY DEF Lean, Undisturbed, Disturbing, Waits, Settling
<1>6. RunRunScript(c) = (((platform \o condition) \o see) \o go) \o run
  BY DEF RunRunScript, RunCondition
<1> HIDE DEF platform, condition, see, go, run
<1>7. /\ platform \o condition \in Seq(Lean) /\ (platform \o condition) \o see \in Seq(Lean)
      /\ ((platform \o condition) \o see) \o go \in Seq(Lean) /\ RunRunScript(c) \in Seq(Lean)
  BY <1>2, <1>3, <1>4, <1>5, <1>6, Joined, LeanStages, JoinLean
<1>8. ASSUME Sought(c) PROVE Seeks(RunRunScript(c))
  <2>1. Seeks((platform \o condition) \o see)
    BY <1>3, <1>7, <1>8, JoinShows, LeanStages, JoinLean
  <2>2. Seeks(((platform \o condition) \o see) \o go)
    BY <1>4, <1>7, <2>1, JoinShows, LeanStages, JoinLean
  <2> QED
    BY <1>5, <1>6, <1>7, <2>2, JoinShows, LeanStages, JoinLean
<1>9. ASSUME Banned(c) PROVE Shows(RunRunScript(c), Vanishing)
  <2>1. Shows(((platform \o condition) \o see) \o go, Vanishing)
    BY <1>4, <1>7, <1>9, JoinShows, LeanStages, JoinLean
  <2> QED
    BY <1>5, <1>6, <1>7, <2>1, JoinShows, LeanStages, JoinLean
<1> QED
  BY <1>1, <1>7, <1>8, <1>9, LeanStages DEF Fits, Aimable

-----------------------------------------------------------------------------
(* The plan of every command                                               *)

\* The kinds the dispatcher names by their group.
LEMMA KindSets ==
    /\ Kinds(DirectAction) = {"back", "hideKeyboard", "scroll"}
    /\ Kinds(Lifecycle) = {"stopApp", "killApp", "clearState", "clearKeychain"}
    /\ Kinds(Media) = {"takeScreenshot", "startRecording", "stopRecording", "addMedia"}
    /\ Kinds(DeviceState) =
          {"setLocation", "setOrientation", "setAirplaneMode", "toggleAirplaneMode", "setPermissions"}
    /\ Kinds(AICommand) = {"assertWithAI", "assertNoDefectsWithAI", "extractTextWithAI"}
<1>1. \A k : Plain(k).kind = k /\ [Plain(k) EXCEPT !.optional = TRUE].kind = k
  BY DEF Plain
<1>2. Kinds(DirectAction) = {"back", "hideKeyboard", "scroll"}
  BY <1>1 DEF Kinds, DirectAction
<1>3. Kinds(Lifecycle) = {"stopApp", "killApp", "clearState", "clearKeychain"}
  BY <1>1 DEF Kinds, Lifecycle
<1>4. Kinds(Media) = {"takeScreenshot", "startRecording", "stopRecording", "addMedia"}
  BY <1>1 DEF Kinds, Media
<1>5. Kinds(DeviceState) =
          {"setLocation", "setOrientation", "setAirplaneMode", "toggleAirplaneMode", "setPermissions"}
  BY <1>1 DEF Kinds, DeviceState, SetLocation
<1>6. Kinds(AICommand) = {"assertWithAI", "assertNoDefectsWithAI", "extractTextWithAI"}
  BY <1>1 DEF Kinds, AICommand
<1> QED
  BY <1>2, <1>3, <1>4, <1>5, <1>6

\* The handler of every command that looks for its target.
LEMMA Dispatched ==
    ASSUME NEW c
    PROVE  /\ c.kind = "tapOn" => Plan(c) = RunTapOn(c)
           /\ c.kind = "doubleTapOn" => Plan(c) = RunDoubleTap(c)
           /\ c.kind = "longPressOn" => Plan(c) = RunLongPress(c)
           /\ c.kind = "swipe" => Plan(c) = RunSwipe(c)
           /\ c.kind = "copyTextFrom" => Plan(c) = RunCopyText
           /\ c.kind = "assertVisible" => Plan(c) = RunAssertVisible
           /\ c.kind = "assertNotVisible" => Plan(c) = RunAssertNotVisible
           /\ c.kind = "extendedWaitUntil" => Plan(c) = RunExtendedWait(c)
           /\ c.kind = "assertScreenshot" => Plan(c) = RunAssertScreenshot(c)
           /\ c.kind = "runScript" => Plan(c) = RunRunScript(c)
  BY KindSets DEF Plan

\* Commands that look for their target.
Seeing ==
    Tapped \cup {"swipe", "copyTextFrom", "assertVisible", "assertNotVisible", "extendedWaitUntil",
                 "assertScreenshot", "runScript"}

\* Plans of commands that never look for the target.
LEMMA BlindPlans ==
    ASSUME NEW c \in Leaves, c.kind \notin Seeing
    PROVE  Plan(c) \in Seq(Lean)
<1>1. c.kind \in Keywords \cup {"none"} /\ c.repeat \in Nat
  BY LeafTypes DEF CommandType
<1>2. ASSUME c.kind \in {"inputText", "eraseText", "inputRandom", "pasteText", "pressKey", "back",
                         "hideKeyboard", "scroll"}
      PROVE  Plan(c) \in Seq(Lean)
  <2>1. Acting \in Seq(Lean) /\ <<"generate">> \in Seq(Lean) /\ <<"grid">> \in Seq(Lean) /\ <<>> \in Seq(Lean)
    BY DEF Acting, Lean
  <2>2. \/ Plan(c) = Acting \/ Plan(c) = <<"generate">> \o Acting
        \/ Plan(c) = <<>> \o Acting \/ Plan(c) = <<"grid">> \o Acting
    BY <1>2, KindSets DEF Plan, RunInputText, RunEraseText, RunInputRandom, RunPasteText,
         RunPressKey, RunDirectAction
  <2> QED
    BY <2>1, <2>2, JoinLooks
<1>3. ASSUME c.kind \in {"assertTrue", "stopApp", "killApp", "clearState", "clearKeychain",
                         "waitForAnimationToEnd",
                         "startRecording", "stopRecording", "addMedia", "takeScreenshot", "setLocation", "setOrientation",
                         "setAirplaneMode", "toggleAirplaneMode", "setPermissions", "extractTextWithAI"}
      PROVE  Plan(c) \in Seq(Lean)
  <2>1. /\ <<"judge">> \in Seq(Lean) /\ <<"call">> \in Seq(Lean) /\ <<"endAppForGood">> \in Seq(Lean)
        /\ <<"rotate">> \in Seq(Lean) /\ <<"deadline", "still">> \in Seq(Lean)
        /\ <<"call", "call">> \in Seq(Lean) /\ <<"shot", "call">> \in Seq(Lean)
        /\ <<"alive", "shot", "write">> \in Seq(Lean)
    BY DEF Lean
  <2>2. CASE c.kind \in {"assertTrue", "waitForAnimationToEnd", "extractTextWithAI"}
    <3>1. c.kind = "assertTrue" => Plan(c) = RunAssertTrue
      BY KindSets DEF Plan
    <3>2. c.kind = "waitForAnimationToEnd" => Plan(c) = RunAnimationWait
      BY KindSets DEF Plan
    <3>3. c.kind = "extractTextWithAI" => Plan(c) = RunExtractText
      BY KindSets DEF Plan
    <3> QED
      BY <2>1, <2>2, <3>1, <3>2, <3>3 DEF RunAssertTrue, RunAnimationWait, RunExtractText, AskModel
  <2>3. CASE c.kind \in {"stopApp", "killApp", "clearState", "clearKeychain"}
    <3>1. Plan(c) = RunLifecycle(c)
      BY <2>3, KindSets DEF Plan
    <3>2. RunLifecycle(c) \in {<<"call">>, <<"endAppForGood">>}
      BY DEF RunLifecycle
    <3> QED
      BY <2>1, <3>1, <3>2
  <2>4. CASE c.kind \in {"startRecording", "stopRecording", "addMedia", "takeScreenshot"}
    <3>1. Plan(c) = RunMedia(c)
      BY <2>4, KindSets DEF Plan
    <3>2. RunMedia(c) \in {<<"call">>, <<"alive", "shot", "write">>}
      BY DEF RunMedia
    <3> QED
      BY <2>1, <3>1, <3>2
  <2>5. CASE c.kind \in {"setLocation", "setOrientation", "setAirplaneMode", "toggleAirplaneMode",
                         "setPermissions"}
    <3>1. Plan(c) = RunDeviceState(c)
      BY <2>5, KindSets DEF Plan
    <3>2. RunDeviceState(c) \in {<<"call">>, <<"rotate">>, <<"call", "call">>}
      BY DEF RunDeviceState
    <3> QED
      BY <2>1, <3>1, <3>2
  <2> QED
    BY <1>3, <2>2, <2>3, <2>4, <2>5
<1>4. ASSUME c.kind \in {"assertWithAI", "assertNoDefectsWithAI"}
      PROVE  Plan(c) \in Seq(Lean)
  <2>1. Plan(c) = <<"shot", "call">> \o <<"judge">>
    BY <1>4, KindSets DEF Plan, RunAssertWithAI, AskModel
  <2>2. <<"shot", "call">> \in Seq(Lean) /\ <<"judge">> \in Seq(Lean)
    BY DEF Lean
  <2> QED
    BY <2>1, <2>2, JoinLooks
<1>5. ASSUME c.kind = "travel"
      PROVE  Plan(c) \in Seq(Lean)
  <2> DEFINE rest == [i \in 1..(2 * (c.repeat - 1)) |-> IF i % 2 = 1 THEN "call" ELSE "delay"]
  <2>1. Plan(c) = <<"call">> \o rest
    BY <1>5, KindSets DEF Plan, RunTravel
  <2>2. rest \in Seq(Lean) /\ <<"call">> \in Seq(Lean)
    <3>1. c.repeat > 0
      BY <1>5, LeafTypes DEF WellFormed
    <3>2. 2 * (c.repeat - 1) \in Nat
      BY <1>1, <3>1
    <3> QED
      BY <3>2 DEF Lean
  <2> HIDE DEF rest
  <2> QED
    BY <2>1, <2>2, JoinLooks
<1>6. ASSUME c.kind = "launchApp"
      PROVE  Plan(c) \in Seq(Lean)
  <2> DEFINE wipe == IF "clearKeychain" \in c.parts THEN <<"wipe">> ELSE <<>>
             clear == IF "clearState" \in c.parts THEN <<"endApp">> ELSE <<>>
             grant == IF "permissions" \in c.parts THEN <<"wipe">> ELSE <<>>
             stop == IF "stopApp" \in c.parts THEN <<"endApp">> ELSE <<>>
             launch == <<"launch", "settleOrFail">>
  <2>1. <<"wipe">> \in Seq(Lean) /\ <<"endApp">> \in Seq(Lean) /\ <<>> \in Seq(Lean) /\ launch \in Seq(Lean)
    BY DEF Lean
  <2>2. wipe \in Seq(Lean) /\ clear \in Seq(Lean) /\ grant \in Seq(Lean) /\ stop \in Seq(Lean)
    BY <2>1
  <2>3. Plan(c) = (((wipe \o clear) \o grant) \o stop) \o launch
    BY <1>6, KindSets DEF Plan, RunLaunchApp
  <2> HIDE DEF wipe, clear, grant, stop, launch
  <2>4. wipe \o clear \in Seq(Lean)
    BY <2>2, JoinLooks
  <2>5. (wipe \o clear) \o grant \in Seq(Lean)
    BY <2>2, <2>4, JoinLooks
  <2>6. ((wipe \o clear) \o grant) \o stop \in Seq(Lean)
    BY <2>2, <2>5, JoinLooks
  <2> QED
    BY <2>1, <2>3, <2>6, JoinLooks
<1>7. ASSUME c.kind \in {"none", "setClipboard", "openLink", "startLogCapture", "stopLogCapture",
                         "evalScript"}
      PROVE  Plan(c) \in Seq(Lean)
  <2>1. Plan(c) = <<"call">>
    BY <1>7, KindSets DEF Plan
  <2> QED
    BY <2>1 DEF Lean
<1> QED
  BY <1>1, <1>2, <1>3, <1>4, <1>5, <1>6, <1>7 DEF Keywords, Seeing, Tapped

\* The plan of every compiled command does what the command asserts.
LEMMA PlansFit ==
    ASSUME NEW c \in Leaves
    PROVE  Fits(c, Plan(c))
<1>1. WellFormed(c) /\ c.repeat \in Nat
  BY LeafTypes DEF CommandType
<1>2. CASE c.kind = "tapOn"
  BY <1>2, FitsTapOn, Dispatched
<1>3. CASE c.kind = "doubleTapOn"
  BY <1>3, FitsGesture, Dispatched DEF RunDoubleTap
<1>4. CASE c.kind = "longPressOn"
  BY <1>4, FitsGesture, Dispatched DEF RunLongPress
<1>5. CASE c.kind = "swipe"
  BY <1>5, FitsSwipe, Dispatched
<1>6. CASE c.kind \in {"assertVisible", "assertNotVisible"}
  BY <1>6, FitsAsserts, Dispatched
<1>7. CASE c.kind = "extendedWaitUntil"
  BY <1>7, FitsWait, Dispatched
<1>8. CASE c.kind = "copyTextFrom"
  BY <1>8, FitsCopy, Dispatched
<1>9. CASE c.kind = "assertScreenshot"
  BY <1>9, FitsScreenshot, Dispatched
<1>10. CASE c.kind = "runScript"
  BY <1>10, FitsRunScript, Dispatched
<1>11. CASE c.kind \notin Seeing
  <2>1. Blind(c)
    BY <1>1, <1>11 DEF Blind, WellFormed, Seeing, Tapped, Aimable, Sought, Banned
  <2> QED
    BY <1>11, <2>1, BlindPlans, FitsBlind
<1> QED
  BY <1>2, <1>3, <1>4, <1>5, <1>6, <1>7, <1>8, <1>9, <1>10, <1>11 DEF Seeing, Tapped

-----------------------------------------------------------------------------
(* The commands                                                            *)

\* The command is not evaluated yet.
Starting == todo = <<"evaluate">>

\* What a touch at the j-th stage left is aimed with: a search that is still to come,
\* one that has found the target and is being aimed, or one that is aimed.
Owed(s, l, j) ==
    \/ \E k \in 3..(j - 1) : Found(s, k) /\ Clear(s, k, j)
    \/ /\ l.last # Unread
       /\ \E k \in 1..(j - 1) :
            /\ s[k] \in Aiming
            /\ \A i \in 1..(k - 1) : s[i] = "steady"
            /\ Clear(s, k, j)
    \/ /\ l.last # Unread
       /\ l.aim = l.seen
       /\ Clear(s, 0, j)
AllOwed(s, l) == \A j \in 1..Len(s) : s[j] = "touch" => Owed(s, l, j)

\* The parts of the invariant: aims, what was asserted, and what plans are made of.
AimInv == cmd.target \in Aimable => AllOwed(todo, call)

SoughtInv == Sought(cmd) => call.shown \/ Seeks(todo) \/ Starting
BannedInv == Banned(cmd) => Shows(todo, Vanishing) \/ Starting \/ (call.last = Gone /\ Undisturbed(todo))
AwaitedInv ==
    cmd.waitUntilVisible =>
        Shows(todo, {"appear"}) \/ Starting \/ (call.last \in Spots /\ Undisturbed(todo))

PlanInv ==
    /\ Starting \/ (todo \in Seq(Stages) /\ (cmd.kind # "tapOn" => todo \in Seq(Lean)))
    /\ todo # <<>> => cmd \in Leaves

CommandInv == CommandTypes /\ PlanInv /\ AimInv /\ SoughtInv /\ BannedInv /\ AwaitedInv /\ PassIsObserved

\* What is left of a plan once its first stage is over.
LEMMA Shorter ==
    ASSUME NEW S, NEW s \in Seq(S), s # <<>>
    PROVE  /\ Tail(s) \in Seq(S) /\ Head(s) = s[1] /\ Head(s) \in S /\ Len(s) \in Nat \ {0}
           /\ Len(Tail(s)) = Len(s) - 1
           /\ \A i \in 1..Len(Tail(s)) : i + 1 \in 1..Len(s) /\ Tail(s)[i] = s[i + 1]
           /\ \A i \in 2..Len(s) : i - 1 \in 1..Len(Tail(s)) /\ Tail(s)[i - 1] = s[i]
<1>1. Len(s) \in Nat \ {0} /\ Head(s) = s[1] /\ Head(s) \in S
  BY EmptySeq, LenProperties, HeadTailProperties, ElementOfSeq
<1>2. Tail(s) \in Seq(S) /\ Len(Tail(s)) = Len(s) - 1 /\ \A i \in 1..Len(Tail(s)) : Tail(s)[i] = s[i + 1]
  BY HeadTailProperties
<1>3. \A i \in 1..Len(Tail(s)) : i + 1 \in 1..Len(s)
  BY <1>1, <1>2
<1>4. \A i \in 2..Len(s) : i - 1 \in 1..Len(Tail(s)) /\ (i - 1) + 1 = i
  BY <1>1, <1>2
<1> QED
  BY <1>1, <1>2, <1>3, <1>4

\* A stage that is over leaves every touch owed its aim.
LEMMA OwedAfterPop ==
    ASSUME NEW s \in Seq(Stages), s # <<>>, NEW l \in Locals, NEW m \in Locals,
           Passed(Head(s), l, m), AllOwed(s, l)
    PROVE  AllOwed(Tail(s), m)
<1> DEFINE t == Tail(s)
<1>1. /\ Head(s) = s[1] /\ Len(s) \in Nat \ {0} /\ Len(t) = Len(s) - 1
      /\ \A i \in 1..Len(t) : i + 1 \in 1..Len(s) /\ t[i] = s[i + 1]
      /\ \A i \in 2..Len(s) : i - 1 \in 1..Len(t) /\ t[i - 1] = s[i]
  BY Shorter
<1> HIDE DEF t
<1> SUFFICES ASSUME NEW j \in 1..Len(t), t[j] = "touch" PROVE Owed(t, m, j)
  BY DEF AllOwed, t
<1>2. j + 1 \in 1..Len(s) /\ s[j + 1] = "touch" /\ Owed(s, l, j + 1)
  BY <1>1 DEF AllOwed
<1>3. ASSUME NEW k \in 1..j, Clear(s, k, j + 1)
      PROVE  Clear(t, k - 1, j)
  <2> SUFFICES ASSUME NEW i \in k..(j - 1) PROVE t[i] \in Calm
    BY DEF Clear
  <2>1. i \in 1..Len(t) /\ i + 1 \in (k + 1)..((j + 1) - 1)
    BY <1>1
  <2> QED
    BY <1>1, <1>3, <2>1 DEF Clear
<1>4. ASSUME NEW k \in 3..j, Found(s, k), Clear(s, k, j + 1)
      PROVE  Owed(t, m, j)
  <2>1. k \in 1..j /\ k - 1 \in 1..(j - 1) /\ k \in 2..Len(s) /\ k - 1 \in 2..Len(s)
    BY <1>1, <1>4
  <2>2. Clear(t, k - 1, j) /\ t[k - 1] = s[k] /\ t[(k - 1) - 1] = s[k - 1]
    BY <1>1, <1>3, <1>4, <2>1
  <2>3. CASE k = 3
    <3>1. s[1] = "find" /\ s[2] = "steady" /\ s[3] \in Aiming
      BY <1>4, <2>3 DEF Found
    <3>2. m.last # Unread
      BY <1>1, <3>1, SpotsAssumption DEF Passed, Looking
    <3>3. \A i \in 1..((k - 1) - 1) : t[i] = "steady"
      BY <2>2, <2>3, <3>1
    <3> QED
      BY <2>1, <2>2, <2>3, <3>1, <3>2, <3>3 DEF Owed
  <2>4. CASE k # 3
    <3>1. k - 1 \in 3..(j - 1) /\ k - 2 \in 2..Len(s)
      BY <1>1, <1>4, <2>4
    <3>2. t[(k - 2) - 1] = s[k - 2]
      BY <1>1, <3>1
    <3> (k - 2) - 1 = (k - 1) - 2
      OBVIOUS
    <3>3. Found(t, k - 1)
      BY <1>4, <2>2, <3>2 DEF Found
    <3> QED
      BY <2>2, <3>1, <3>3 DEF Owed
  <2> QED
    BY <2>3, <2>4
<1>5. ASSUME l.last # Unread, NEW k \in 1..j, s[k] \in Aiming, \A i \in 1..(k - 1) : s[i] = "steady",
             Clear(s, k, j + 1)
      PROVE  Owed(t, m, j)
  <2>1. Clear(t, k - 1, j)
    BY <1>3, <1>5
  <2>2. CASE k = 1
    <3>1. m.last = l.last /\ m.aim = m.seen
      BY <1>1, <1>5, <2>2 DEF Passed
    <3>2. Clear(t, 0, j)
      BY <2>1, <2>2
    <3> QED
      BY <1>5, <3>1, <3>2 DEF Owed
  <2>3. CASE k # 1
    <3>1. k - 1 \in 1..(j - 1) /\ 1 \in 1..(k - 1) /\ k \in 2..Len(s)
      BY <1>1, <1>5, <2>3
    <3>2. m.last = l.last
      BY <1>1, <1>5, <3>1 DEF Passed
    <3>3. t[k - 1] \in Aiming
      BY <1>1, <1>5, <3>1
    <3>4. \A i \in 1..((k - 1) - 1) : t[i] = "steady"
      <4> SUFFICES ASSUME NEW i \in 1..((k - 1) - 1) PROVE t[i] = "steady"
        OBVIOUS
      <4>1. i \in 1..Len(t) /\ i + 1 \in 1..(k - 1)
        BY <1>1, <3>1
      <4> QED
        BY <1>1, <1>5, <4>1
    <3> QED
      BY <1>5, <2>1, <3>1, <3>2, <3>3, <3>4 DEF Owed
  <2> QED
    BY <2>2, <2>3
<1>6. ASSUME l.last # Unread, l.aim = l.seen, Clear(s, 0, j + 1)
      PROVE  Owed(t, m, j)
  <2>1. s[1] \in Calm
    <3>1. 1 \in (0 + 1)..((j + 1) - 1)
      BY <1>1
    <3> QED
      BY <1>6, <3>1 DEF Clear
  <2>2. m.last = l.last /\ m.seen = l.seen /\ m.aim = l.aim
    BY <1>1, <2>1 DEF Passed, Calm, Looking, Vanishing, Aiming, Settling
  <2>3. Clear(t, 0, j)
    <3> SUFFICES ASSUME NEW i \in 1..(j - 1) PROVE t[i] \in Calm
      BY DEF Clear
    <3>1. i \in 1..Len(t) /\ i + 1 \in (0 + 1)..((j + 1) - 1)
      BY <1>1
    <3> QED
      BY <1>1, <1>6, <3>1 DEF Clear
  <2> QED
    BY <1>6, <2>2, <2>3 DEF Owed
<1>7. (j + 1) - 1 = j
  BY <1>1
<1> QED
  BY <1>2, <1>4, <1>5, <1>6, <1>7 DEF Owed

\* So does a stage that goes on.
LEMMA OwedWhileStaying ==
    ASSUME NEW s \in Seq(Stages), s # <<>>, NEW l \in Locals, NEW m \in Locals,
           Stayed(Head(s), l, m), AllOwed(s, l)
    PROVE  AllOwed(s, m)
<1>1. Head(s) = s[1] /\ Len(s) \in Nat \ {0}
  BY Shorter
<1>2. s[1] \notin Aiming /\ s[1] \notin Calm /\ (s[1] = "steady" => m.last = l.last)
  BY <1>1 DEF Stayed, Waits, Settling, Aiming, Calm
<1> SUFFICES ASSUME NEW j \in 1..Len(s), s[j] = "touch" PROVE Owed(s, m, j)
  BY DEF AllOwed
<1>3. Owed(s, l, j)
  BY DEF AllOwed
<1>4. ASSUME l.last # Unread, NEW k \in 1..(j - 1), s[k] \in Aiming, \A i \in 1..(k - 1) : s[i] = "steady",
             Clear(s, k, j)
      PROVE  Owed(s, m, j)
  <2>1. k # 1
    BY <1>2, <1>4
  <2>2. 1 \in 1..(k - 1)
    BY <1>4, <2>1
  <2>3. m.last # Unread
    BY <1>2, <1>4, <2>2
  <2> QED
    BY <1>4, <2>3 DEF Owed
<1>5. ASSUME Clear(s, 0, j)
      PROVE  FALSE
  <2>1. j # 1
    BY <1>2 DEF Calm
  <2>2. 1 \in (0 + 1)..(j - 1)
    BY <1>1, <2>1
  <2> QED
    BY <1>2, <1>5, <2>2 DEF Clear
<1> QED
  BY <1>3, <1>4, <1>5 DEF Owed

\* After a comparison every touch that is left has a search of its own before it.
LEMMA OwedAfterCompare ==
    ASSUME NEW s \in Seq(Stages), s # <<>>, Head(s) = "compare", NEW l, AllOwed(s, l)
    PROVE  Aimed(Tail(s))
<1> DEFINE t == Tail(s)
<1>1. /\ Head(s) = s[1] /\ Len(s) \in Nat \ {0} /\ Len(t) = Len(s) - 1
      /\ \A i \in 1..Len(t) : i + 1 \in 1..Len(s) /\ t[i] = s[i + 1]
      /\ \A i \in 2..Len(s) : i - 1 \in 1..Len(t) /\ t[i - 1] = s[i]
  BY Shorter
<1> HIDE DEF t
<1>2. s[1] \notin Aiming /\ s[1] \notin Calm /\ s[1] # "steady" /\ s[1] # "find"
  BY <1>1 DEF Aiming, Calm
<1> SUFFICES ASSUME NEW j \in 1..Len(t), t[j] = "touch"
             PROVE  \E k \in 3..(j - 1) : Found(t, k) /\ Clear(t, k, j)
  BY DEF Aimed, t
<1>3. Owed(s, l, j + 1) /\ (j + 1) - 1 = j
  BY <1>1 DEF AllOwed
<1>4. ASSUME NEW k \in 3..j, Found(s, k), Clear(s, k, j + 1)
      PROVE  \E h \in 3..(j - 1) : Found(t, h) /\ Clear(t, h, j)
  <2>1. k # 3
    BY <1>2, <1>4 DEF Found
  <2>2. k - 1 \in 3..(j - 1) /\ k \in 2..Len(s) /\ k - 1 \in 2..Len(s) /\ k - 2 \in 2..Len(s)
    BY <1>1, <1>4, <2>1
  <2>3. t[k - 1] = s[k] /\ t[(k - 1) - 1] = s[k - 1] /\ t[(k - 2) - 1] = s[k - 2]
    BY <1>1, <2>2
  <2>6. (k - 2) - 1 = (k - 1) - 2
    BY <1>4
  <2>4. Found(t, k - 1)
    BY <1>4, <2>3, <2>6 DEF Found
  <2>5. Clear(t, k - 1, j)
    <3> SUFFICES ASSUME NEW i \in k..(j - 1) PROVE t[i] \in Calm
      BY DEF Clear
    <3>1. i \in 1..Len(t) /\ i + 1 \in (k + 1)..((j + 1) - 1)
      BY <1>1, <1>4
    <3> QED
      BY <1>1, <1>4, <3>1 DEF Clear
  <2> QED
    BY <2>2, <2>4, <2>5
<1>5. ASSUME NEW k \in 1..j, s[k] \in Aiming, \A i \in 1..(k - 1) : s[i] = "steady"
      PROVE  FALSE
  <2>1. k # 1
    BY <1>2, <1>5
  <2>2. 1 \in 1..(k - 1)
    BY <1>5, <2>1
  <2> QED
    BY <1>2, <1>5, <2>2
<1>6. ~Clear(s, 0, j + 1)
  <2>1. 1 \in (0 + 1)..((j + 1) - 1)
    BY <1>1
  <2> QED
    BY <1>2, <2>1 DEF Clear
<1> QED
  BY <1>3, <1>4, <1>5, <1>6 DEF Owed

\* A plan whose touches have searches of their own owes nothing to the locals.
LEMMA AimedOwed == ASSUME NEW s, NEW l, Aimed(s) PROVE AllOwed(s, l)
  BY DEF Aimed, AllOwed, Owed

\* What is left to see once the first stage is over.
LEMMA LooksLeft ==
    ASSUME NEW s \in Seq(Stages), s # <<>>, NEW X
    PROVE  /\ Seeks(s) => Head(s) \in Looking \cup {"appear"} \/ Seeks(Tail(s))
           /\ Shows(s, X) => (Head(s) \in X /\ Undisturbed(Tail(s))) \/ Shows(Tail(s), X)
           /\ Undisturbed(s) => Head(s) \notin Disturbing /\ Undisturbed(Tail(s))
<1> DEFINE t == Tail(s)
<1>1. /\ Head(s) = s[1] /\ Len(s) \in Nat \ {0} /\ Len(t) = Len(s) - 1
      /\ \A i \in 1..Len(t) : i + 1 \in 1..Len(s) /\ t[i] = s[i + 1]
      /\ \A i \in 2..Len(s) : i - 1 \in 1..Len(t) /\ t[i - 1] = s[i]
  BY Shorter
<1> HIDE DEF t
<1>2. ASSUME Seeks(s) PROVE s[1] \in Looking \cup {"appear"} \/ Seeks(t)
  <2>1. PICK i \in 1..Len(s) : s[i] \in Looking \cup {"appear"}
    BY <1>2 DEF Seeks
  <2>2. i = 1 \/ i \in 2..Len(s)
    BY <1>1
  <2> QED
    BY <1>1, <2>1, <2>2 DEF Seeks
<1>3. ASSUME Shows(s, X) PROVE (s[1] \in X /\ Undisturbed(t)) \/ Shows(t, X)
  <2>1. PICK i \in 1..Len(s) : s[i] \in X /\ \A j \in (i + 1)..Len(s) : s[j] \notin Disturbing
    BY <1>3 DEF Shows
  <2>2. ASSUME NEW j \in i..Len(t) PROVE t[j] \notin Disturbing
    <3>1. j \in 1..Len(t) /\ j + 1 \in (i + 1)..Len(s)
      BY <1>1, <2>2
    <3> QED
      BY <1>1, <2>1, <3>1
  <2>3. CASE i = 1
    BY <2>1, <2>2, <2>3 DEF Undisturbed
  <2>4. CASE i \in 2..Len(s)
    <3>1. i - 1 \in 1..Len(t) /\ t[i - 1] = s[i] /\ (i - 1) + 1 = i
      BY <1>1, <2>4
    <3> QED
      BY <2>1, <2>2, <3>1 DEF Shows
  <2>5. i = 1 \/ i \in 2..Len(s)
    BY <1>1
  <2> QED
    BY <2>3, <2>4, <2>5
<1>4. ASSUME Undisturbed(s) PROVE s[1] \notin Disturbing /\ Undisturbed(t)
  <2>1. 1 \in 1..Len(s)
    BY <1>1
  <2> QED
    BY <1>1, <1>4, <2>1 DEF Undisturbed
<1> QED
  BY <1>1, <1>2, <1>3, <1>4 DEF t

\* Nothing is owed and nothing is seen by a plan that is done.
LEMMA NothingLeft ==
    /\ <<>> \in Seq(Lean) /\ ~Seeks(<<>>) /\ \A X : ~Shows(<<>>, X)
    /\ \A l : AllOwed(<<>>, l)
    /\ <<>> # <<"evaluate">>
  BY DEF Seeks, Shows, AllOwed

\* The plan of a command that is not evaluated yet.
LEMMA Beginning ==
    /\ <<"evaluate">> # <<>> /\ Head(<<"evaluate">>) = "evaluate" /\ Tail(<<"evaluate">>) = <<>>
    /\ \A l : AllOwed(<<"evaluate">>, l)
  BY DEF AllOwed

\* No command asserts nothing.
LEMMA NoneAsks == ~Sought(NoCommand) /\ ~Banned(NoCommand) /\ ~NoCommand.waitUntilVisible /\ NoCommand.target \notin Aimable
                  /\ NoCommand.kind # "tapOn"
  BY DEF NoCommand, Plain, Sought, Banned, Aimable

\* A plan under way begins with no evaluation.
LEMMA UnderWay ==
    ASSUME PlanInv, todo # <<>>, Stage # "evaluate"
    PROVE  todo \in Seq(Stages) /\ (cmd.kind # "tapOn" => todo \in Seq(Lean)) /\ cmd \in Leaves
  BY Beginning DEF PlanInv, Starting, Stage

\* A plan under way is not the beginning.
LEMMA StagesAreNoStart ==
    ASSUME NEW s \in Seq(Stages)
    PROVE  s # <<"evaluate">>
<1>1. <<"evaluate">> \notin Seq(Stages)
  <2> SUFFICES ASSUME <<"evaluate">> \in Seq(Stages) PROVE FALSE
    OBVIOUS
  <2>1. Head(<<"evaluate">>) \in Stages
    BY Shorter, Beginning
  <2> QED
    BY <2>1, Beginning DEF Stages, Lean
<1> QED
  BY <1>1

\* Every kind of step keeps the invariant.
LEMMA CommandStep ==
    ASSUME CommandInv, CommandTypes', CmdStep
    PROVE  CommandInv'
<1> USE DEF CommandInv
<1> SUFFICES PlanInv' /\ AimInv' /\ SoughtInv' /\ BannedInv' /\ AwaitedInv' /\ PassIsObserved'
  OBVIOUS
<1>1. CASE Aside
  BY <1>1 DEF Aside, PlanInv, AimInv, SoughtInv, BannedInv, AwaitedInv, PassIsObserved, Starting
<1>2. CASE Began
  <2>1. cmd' \in Leaves
    BY <1>2, FlowsAssumption DEF Began, CommandTypes, CmdTypes
  <2>2. Starting' /\ todo' = <<"evaluate">> /\ result'.outcome # "Completed"
    BY <1>2 DEF Began, Starting, NoResult
  <2> QED
    BY <2>1, <2>2, Beginning DEF PlanInv, AimInv, SoughtInv, BannedInv, AwaitedInv, PassIsObserved
<1>3. CASE Expanded
  <2>1. todo = <<"evaluate">> /\ cmd \in Leaves
    <3>1. Stage = "evaluate" /\ todo # <<>>
      BY <1>3 DEF Expanded
    <3>2. todo \notin Seq(Stages)
      <4> SUFFICES ASSUME todo \in Seq(Stages) PROVE FALSE
        OBVIOUS
      <4>1. Head(todo) \in Stages
        BY <3>1, Shorter
      <4> QED
        BY <3>1, <4>1 DEF Stage, Stages, Lean
    <3> QED
      BY <3>1, <3>2 DEF PlanInv, Starting
  <2>2. Fits(cmd, Plan(cmd))
    BY <2>1, PlansFit
  <2>3. todo' = Plan(cmd) /\ UNCHANGED <<cmd, call, result>>
    <3>1. todo' = Plan(cmd) \o Tail(todo) /\ UNCHANGED <<cmd, call, result>>
      BY <1>3 DEF Expanded
    <3>2. Plan(cmd) \in Seq(Stages) /\ Tail(todo) = <<>>
      BY <2>1, <2>2, Beginning DEF Fits
    <3> QED
      BY <3>1, <3>2, ConcatEmptySeq
  <2>4. cmd.target \in Aimable => AllOwed(Plan(cmd), call)
    BY <2>2, AimedOwed DEF Fits
  <2> QED
    BY <2>1, <2>2, <2>3, <2>4 DEF Fits, PlanInv, AimInv, SoughtInv, BannedInv, AwaitedInv,
         PassIsObserved
<1>4. CASE Failed
  <2>1. cmd' = NoCommand /\ todo' = <<>> /\ result'.outcome # "Completed"
    BY <1>4 DEF Failed
  <2>2. <<>> \in Seq(Stages)
    BY NothingLeft, LeanStages
  <2> QED
    BY <2>1, <2>2, NothingLeft, NoneAsks DEF PlanInv, AimInv, SoughtInv, BannedInv, AwaitedInv,
         PassIsObserved
<1>5. CASE Passes
  <2>1. cmd' = NoCommand /\ todo' = <<>>
    BY <1>5 DEF Passes
  <2>2. todo = <<>> /\ result'.of = cmd /\ result'.shown = call.shown /\ result'.last = call.last
    BY <1>5 DEF Passes
  <2>3. <<>> \in Seq(Stages)
    BY NothingLeft, LeanStages
  <2>4. /\ Sought(cmd) => call.shown
        /\ Banned(cmd) => call.last = Gone
        /\ cmd.waitUntilVisible => call.last \in Spots
    BY <2>2, NothingLeft DEF SoughtInv, BannedInv, AwaitedInv, Starting
  <2>5. PassIsObserved'
    BY <2>2, <2>4 DEF PassIsObserved
  <2> QED
    BY <2>1, <2>3, <2>5, NothingLeft, NoneAsks DEF PlanInv, AimInv, SoughtInv, BannedInv, AwaitedInv
<1>6. CASE Popped
  <2>1. /\ todo # <<>> /\ todo' = Tail(todo) /\ UNCHANGED <<cmd, result>> /\ Passed(Stage, call, call')
        /\ Stage # "evaluate" /\ call \in Locals /\ call' \in Locals
    BY <1>6 DEF Popped, Passed, CommandTypes, CmdTypes
  <2>2. todo \in Seq(Stages) /\ (cmd.kind # "tapOn" => todo \in Seq(Lean)) /\ cmd \in Leaves
    BY <2>1, UnderWay
  <2>3. /\ Tail(todo) \in Seq(Stages) /\ (cmd.kind # "tapOn" => Tail(todo) \in Seq(Lean))
        /\ Tail(todo) # <<"evaluate">> /\ ~Starting
    BY <2>1, <2>2, Shorter, StagesAreNoStart DEF Starting
  <2>4. AimInv'
    <3>1. AllOwed(todo, call) => AllOwed(Tail(todo), call')
      BY <2>1, <2>2, OwedAfterPop DEF Stage
    <3> QED
      BY <2>1, <3>1 DEF AimInv
  <2>5. SoughtInv'
    <3>1. Seeks(todo) => Stage \in Looking \cup {"appear"} \/ Seeks(Tail(todo))
      BY <2>1, <2>2, LooksLeft DEF Stage
    <3>2. (call.shown => call'.shown) /\ (Stage \in Looking \cup {"appear"} => call'.shown)
      BY <2>1 DEF Passed
    <3> QED
      BY <2>1, <2>3, <3>1, <3>2 DEF SoughtInv
  <2>6. /\ Undisturbed(todo) => Stage \notin Disturbing /\ Undisturbed(Tail(todo))
        /\ \A X : Shows(todo, X) => (Stage \in X /\ Undisturbed(Tail(todo))) \/ Shows(Tail(todo), X)
    BY <2>1, <2>2, LooksLeft DEF Stage
  <2>7. /\ Stage \in Vanishing => call'.last = Gone
        /\ Stage \in {"appear"} => call'.last \in Spots
        /\ Stage \notin Disturbing => call'.last = call.last
    BY <2>1 DEF Passed, Disturbing, Waits, Looking, Vanishing, Settling
  <2>8. BannedInv' /\ AwaitedInv'
    BY <2>1, <2>3, <2>6, <2>7 DEF BannedInv, AwaitedInv
  <2> QED
    BY <2>1, <2>2, <2>3, <2>4, <2>5, <2>8 DEF PlanInv, PassIsObserved
<1>7. CASE Remains
  <2>1. /\ todo # <<>> /\ UNCHANGED <<cmd, todo, result>> /\ Stayed(Stage, call, call')
        /\ call \in Locals /\ call' \in Locals
    BY <1>7 DEF Remains, CommandTypes, CmdTypes
  <2>2. Stage # "evaluate"
    BY <2>1 DEF Stayed, Waits, Settling
  <2>3. todo \in Seq(Stages)
    BY <2>1, <2>2, UnderWay
  <2>4. AimInv'
    <3>1. AllOwed(todo, call) => AllOwed(todo, call')
      BY <2>1, <2>3, OwedWhileStaying DEF Stage
    <3> QED
      BY <2>1, <3>1 DEF AimInv
  <2>5. Undisturbed(todo) => Stage \notin Disturbing
    BY <2>1, <2>3, LooksLeft DEF Stage
  <2>6. (call.shown => call'.shown) /\ (Stage \notin Disturbing => call'.last = call.last)
    BY <2>1 DEF Stayed, Disturbing
  <2> QED
    BY <2>1, <2>4, <2>5, <2>6 DEF PlanInv, SoughtInv, BannedInv, AwaitedInv, PassIsObserved, Starting
<1>8. CASE Repeats
  <2>1. /\ todo # <<>> /\ Stage = "compare" /\ UNCHANGED <<cmd, call, result>>
        /\ todo' = TapAgain(cmd) \o Tail(todo)
    BY <1>8 DEF Repeats
  <2>2. todo \in Seq(Stages) /\ (cmd.kind # "tapOn" => todo \in Seq(Lean)) /\ cmd \in Leaves
    BY <2>1, UnderWay
  <2>3. cmd.kind = "tapOn"
    <3> SUFFICES ASSUME todo \in Seq(Lean) PROVE FALSE
      BY <2>2
    <3>1. Head(todo) \in Lean
      BY <2>1, Shorter
    <3> QED
      BY <2>1, <3>1 DEF Stage, Lean
  <2>4. TapAgain(cmd) \in Seq(Stages) /\ (cmd.target \in Aimable => Aimed(TapAgain(cmd)))
    BY <2>2, <2>3, SecondBatch, LeanStages
  <2>5. Tail(todo) \in Seq(Stages)
    BY <2>1, <2>2, Shorter
  <2>6. todo' \in Seq(Stages) /\ todo' # <<"evaluate">> /\ todo # <<"evaluate">>
    BY <2>1, <2>2, <2>4, <2>5, Joined, StagesAreNoStart
  <2>7. AimInv'
    <3>1. AllOwed(todo, call) => Aimed(Tail(todo))
      BY <2>1, <2>2, OwedAfterCompare DEF Stage
    <3>2. cmd.target \in Aimable => Aimed(TapAgain(cmd) \o Tail(todo))
      BY <2>4, <2>5, <3>1, JoinAimed DEF AimInv
    <3> QED
      BY <2>1, <3>2, AimedOwed DEF AimInv
  <2>8. SoughtInv'
    <3>1. Seeks(todo) => Seeks(Tail(todo))
      BY <2>1, <2>2, LooksLeft DEF Stage, Looking
    <3>2. Seeks(Tail(todo)) => Seeks(TapAgain(cmd) \o Tail(todo))
      BY <2>4, <2>5, JoinShows
    <3> QED
      BY <2>1, <2>6, <3>1, <3>2 DEF SoughtInv, Starting
  <2>9. BannedInv' /\ AwaitedInv'
    <3>1. ~Undisturbed(todo)
      BY <2>1, <2>2, LooksLeft DEF Stage, Disturbing
    <3>2. \A X \in {Vanishing, {"appear"}} : Shows(todo, X) => Shows(Tail(todo), X)
      BY <2>1, <2>2, LooksLeft DEF Stage, Vanishing
    <3>3. \A X : Shows(Tail(todo), X) => Shows(TapAgain(cmd) \o Tail(todo), X)
      BY <2>4, <2>5, JoinShows
    <3> QED
      BY <2>1, <2>6, <3>1, <3>2, <3>3 DEF BannedInv, AwaitedInv, Starting
  <2> QED
    BY <2>1, <2>2, <2>3, <2>6, <2>7, <2>8, <2>9 DEF PlanInv, PassIsObserved
<1> QED
  BY <1>1, <1>2, <1>3, <1>4, <1>5, <1>6, <1>7, <1>8 DEF CmdStep

\* The invariant holds at first,
LEMMA CommandInit == CmdInit => CommandInv
<1> SUFFICES ASSUME CmdInit PROVE CommandInv
  OBVIOUS
<1>1. CommandTypes
  BY TypesInit
<1>2. todo = <<>> /\ cmd = NoCommand /\ result.outcome # "Completed"
  BY DEF CmdInit, NoResult
<1>3. <<>> \in Seq(Stages)
  BY NothingLeft, LeanStages
<1> QED
  BY <1>1, <1>2, <1>3, NothingLeft, NoneAsks
     DEF CommandInv, PlanInv, AimInv, SoughtInv, BannedInv, AwaitedInv, PassIsObserved

\* and always.
LEMMA CommandInductive == CmdSpec => []CommandInv
<1>1. CmdInit => CommandInv
  BY CommandInit
<1>2. CommandInv /\ [CmdNext]_cmdVars => CommandInv'
  <2> SUFFICES ASSUME CommandInv, [CmdNext]_cmdVars PROVE CommandInv'
    OBVIOUS
  <2>1. CommandTypes' /\ CmdStep
    BY TypesKept DEF CommandInv
  <2> QED
    BY <2>1, CommandStep
<1> QED
  BY <1>1, <1>2, PTL DEF CmdSpec

\* Every touch of a command with a target, the second batch of a repeated tap
\* included, goes where a look since the last interaction found the target.
THEOREM BatchesAimedAnew == CmdSpec => []EveryBatchIsAimedAnew
<1>1. CommandInv => EveryBatchIsAimedAnew
  <2> SUFFICES ASSUME CommandInv, At({"touch"}), cmd.target \in {"selector", "selectorPoint", "element"}
               PROVE  call.last # Unread /\ call.aim = call.seen
    BY DEF EveryBatchIsAimedAnew
  <2>1. todo # <<>> /\ Stage = "touch"
    BY DEF At
  <2>2. todo \in Seq(Stages)
    BY <2>1, UnderWay DEF CommandInv
  <2>3. todo[1] = "touch" /\ 1 \in 1..Len(todo)
    BY <2>1, <2>2, Shorter DEF Stage
  <2>4. Owed(todo, call, 1)
    BY <2>3 DEF CommandInv, AimInv, AllOwed, Aimable
  <2> QED
    BY <2>4 DEF Owed
<1> QED
  BY <1>1, CommandInductive, PTL

\* A command that passes has seen what it asserts, and last where it waits for it.
THEOREM PassesObserved == CmdSpec => []PassIsObserved
<1>1. CommandInv => PassIsObserved
  BY DEF CommandInv
<1> QED
  BY <1>1, CommandInductive, PTL

-----------------------------------------------------------------------------
(* The course of a scroll                                                  *)

\* The course of a search.
CourseType == [seen: BOOLEAN, scrolled: BOOLEAN, passes: Int, covered: BOOLEAN, asked: Int]

\* What an observation finds is in sight, and a scroll that follows it is measured by it.
SightInv ==
    /\ plan \in Compiled /\ place \in Int /\ element \in Int /\ course \in CourseType
    /\ element # Missing => Shown(element) > 0
    /\ step = "scroll" /\ element # Missing => course.asked = TowardViewport(element)

\* The constants of the search are integers.
LEMMA ScrollConstants ==
    /\ Height \in Nat \ {0} /\ Size \in Nat \ {0} /\ Reach \in Nat \ {0} /\ MinStep \in Nat \ {0}
    /\ CoveredStep \in Nat \ {0} /\ MinStep <= Height /\ Slips \subseteq Int /\ Missing \in Int
  BY ScrollAssumption DEF Missing

\* The lesser and the greater of two integers.
LEMMA LeastMost ==
    ASSUME NEW a \in Int, NEW b \in Int
    PROVE  /\ Least(a, b) \in Int /\ Least(a, b) <= a /\ Least(a, b) <= b /\ Least(a, b) \in {a, b}
           /\ Most(a, b) \in Int /\ Most(a, b) >= a /\ Most(a, b) >= b /\ Most(a, b) \in {a, b}
  BY DEF Least, Most

\* A target is in sight when it reaches into the viewport.
LEMMA InSight ==
    ASSUME NEW p \in Int, p # Missing
    PROVE  Shown(p) > 0 <=> p + Size > 0 /\ p < Height
  BY ScrollConstants DEF Shown, Least, Most

\* A place that is moved is a place.
LEMMA MovedTypes ==
    ASSUME NEW p \in Int, NEW d \in Int
    PROVE  Moved(p, d) \in Int
<1>1. Least(Reach, p - d) \in Int /\ -Reach \in Int
  BY ScrollConstants, LeastMost
<1>2. Most(-Reach, Least(Reach, p - d)) \in Int
  BY <1>1, LeastMost
<1> QED
  BY <1>2, ScrollConstants DEF Moved

\* Cut off at the bound, a place in sight stays in sight.
LEMMA MovedInSight ==
    ASSUME NEW p \in Int, p # Missing, NEW d \in Int, (p - d) + Size > 0, p - d < Height
    PROVE  Shown(Moved(p, d)) > 0
<1> DEFINE q == p - d
           r == Most(-Reach, Least(Reach, q))
<1>1. q \in Int /\ q + Size > 0 /\ q < Height
  OBVIOUS
<1>2. r = (IF q > Reach THEN Reach ELSE IF q < -Reach THEN -Reach ELSE q)
  BY <1>1, ScrollConstants DEF Most, Least
<1> HIDE DEF q, r
<1>3. r \in Int /\ r <= Reach /\ r # Missing
  BY <1>1, <1>2, ScrollConstants DEF Missing
<1>4. r + Size > 0 /\ r < Height
  BY <1>1, <1>2, ScrollConstants
<1>5. Moved(p, d) = r
  BY DEF Moved, r, q
<1> QED
  BY <1>3, <1>4, <1>5, InSight

\* The step that is measured by a target does not take it out of sight.
LEMMA Measured ==
    ASSUME plan \in Compiled, NEW p \in Int, p # Missing, Shown(p) > 0,
           CoveredStep < Size \/ p \notin 0..(Height - Size)
    PROVE  /\ TowardViewport(p) \in Int
           /\ (p - TowardViewport(p)) + Size > 0 /\ p - TowardViewport(p) < Height
<1> DEFINE before == Most(-p, 0)
           after == Most(p + Size - Height, 0)
           speed == plan.speed
           way == plan.way
           near == -Least(speed, Most(before, MinStep))
           far == Least(speed, Most(after, MinStep))
           inside == way * Least(speed, CoveredStep)
<1>1. p + Size > 0 /\ p < Height
  BY InSight
<1>2. speed \in Nat \ {0} /\ way \in {-1, 1}
  BY DEF Compiled
<1>3. /\ before = (IF p < 0 THEN -p ELSE 0)
      /\ after = (IF p + Size > Height THEN p + Size - Height ELSE 0)
  BY ScrollConstants DEF Most
<1>4. TowardViewport(p) =
        CASE before = 0 /\ after = 0 -> inside
          [] before > after -> near
          [] OTHER -> far
  BY DEF TowardViewport
<1>5. /\ Least(speed, CoveredStep) = (IF speed < CoveredStep THEN speed ELSE CoveredStep)
      /\ near = -(IF speed < (IF before > MinStep THEN before ELSE MinStep) THEN speed
                  ELSE IF before > MinStep THEN before ELSE MinStep)
      /\ far = (IF speed < (IF after > MinStep THEN after ELSE MinStep) THEN speed
                ELSE IF after > MinStep THEN after ELSE MinStep)
  BY DEF Least, Most
<1> HIDE DEF near, far, speed, way, before, after
<1>6. before \in Int /\ after \in Int /\ before >= 0 /\ after >= 0
  BY <1>3, ScrollConstants
<1>7. CASE before = 0 /\ after = 0
  <2> DEFINE m == Least(speed, CoveredStep)
  <2>1. m \in Int /\ m > 0 /\ m <= CoveredStep
    BY <1>2, <1>5, ScrollConstants
  <2> HIDE DEF m
  <2>2. p >= 0 /\ p <= Height - Size /\ CoveredStep < Size
    BY <1>3, <1>7, ScrollConstants
  <2>3. inside = m \/ inside = -m
    BY <1>2, <2>1 DEF m
  <2>4. TowardViewport(p) = inside
    BY <1>4, <1>7
  <2> HIDE DEF inside
  <2> QED
    BY <2>1, <2>2, <2>3, <2>4, ScrollConstants
<1>8. CASE ~(before = 0 /\ after = 0) /\ before > after
  <2>1. TowardViewport(p) = near
    BY <1>4, <1>8
  <2>2. p < 0 /\ before = -p
    BY <1>3, <1>6, <1>8
  <2>3. near \in Int /\ near <= 0 /\ (-near <= -p \/ -near <= MinStep)
    BY <1>2, <1>5, <1>6, <2>2, ScrollConstants
  <2> QED
    BY <1>1, <2>1, <2>2, <2>3, ScrollConstants
<1>9. CASE ~(before = 0 /\ after = 0) /\ ~(before > after)
  <2>1. TowardViewport(p) = far
    BY <1>4, <1>9
  <2>2. p + Size > Height /\ after = p + Size - Height
    BY <1>3, <1>6, <1>9, ScrollConstants
  <2>3. far \in Int /\ far >= 0 /\ (far <= p + Size - Height \/ far <= MinStep)
    BY <1>2, <1>5, <1>6, <2>2, ScrollConstants
  <2> QED
    BY <1>1, <2>1, <2>2, <2>3, ScrollConstants
<1> QED
  BY <1>7, <1>8, <1>9

\* The measured step is an integer.
LEMMA MeasureTypes ==
    ASSUME plan \in Compiled, NEW p \in Int
    PROVE  TowardViewport(p) \in Int
<1>1. plan.speed \in Int /\ plan.way \in {-1, 1}
  BY DEF Compiled
<1>2. /\ Most(-p, 0) \in Int /\ Most(p + Size - Height, 0) \in Int
  BY ScrollConstants DEF Most
<1>3. /\ Most(Most(-p, 0), MinStep) \in Int /\ Most(Most(p + Size - Height, 0), MinStep) \in Int
      /\ Least(plan.speed, CoveredStep) \in Int
  <2>1. \A a, b \in Int : Most(a, b) \in Int /\ Least(a, b) \in Int
    BY LeastMost
  <2>2. MinStep \in Int /\ CoveredStep \in Int
    BY ScrollConstants
  <2> QED
    BY <1>1, <1>2, <2>1, <2>2
<1>4. /\ Least(plan.speed, Most(Most(-p, 0), MinStep)) \in Int
      /\ Least(plan.speed, Most(Most(p + Size - Height, 0), MinStep)) \in Int
  BY <1>1, <1>3, LeastMost
<1>5. plan.way * Least(plan.speed, CoveredStep) \in Int
  BY <1>1, <1>3
<1> QED
  BY <1>4, <1>5 DEF TowardViewport

\* A step of the course keeps its types, and is measured by a target that is found.
LEMMA CourseTypes ==
    ASSUME plan \in Compiled, element \in Int, course \in CourseType
    PROVE  /\ NextStep(element) \in CourseType
           /\ element # Missing => NextStep(element).asked = TowardViewport(element)
<1>1. TowardViewport(element) \in Int
  BY MeasureTypes
<1>2. plan.way * plan.speed \in Int
  BY DEF Compiled
<1>3. ASSUME NEW d \in Int PROVE Reversed(d) \in Int
  <2>1. Distance(d) \in Int
    BY DEF Distance
  <2>2. Distance(d) \div 2 \in Int
    BY <2>1
  <2>3. Most(Distance(d) \div 2, MinStep) \in Int
    BY <2>2, ScrollConstants, LeastMost
  <2> QED
    BY <2>3 DEF Reversed
<1>4. course.asked \in Int /\ Least(2, course.passes + 1) \in Int
  BY LeastMost DEF CourseType
<1>5. Reversed(course.asked) \in Int
  BY <1>3, <1>4
<1> HIDE DEF Missing
<1> QED
  BY <1>1, <1>2, <1>4, <1>5 DEF NextStep, CourseType

\* An observation finds only what is in sight.
LEMMA ObservedTypes ==
    ASSUME place \in Int, NEW e \in Observed
    PROVE  e \in Int /\ (e # Missing => Shown(e) > 0)
<1>1. CASE plan.css
  BY <1>1, ScrollConstants DEF Observed
<1>2. CASE ~plan.css
  BY <1>2, ScrollConstants DEF Observed
<1> QED
  BY <1>1, <1>2

\* Every step keeps the invariant.
LEMMA SightStep ==
    ASSUME SightInv, [ScrollNext]_scrollVars
    PROVE  SightInv'
<1> USE DEF SightInv
<1>1. CASE AppActs \/ EndContext \/ UNCHANGED scrollVars
  <2>1. UNCHANGED <<plan, element, course, step>> /\ place' \in Int
    BY <1>1, ScrollConstants DEF AppActs, EndContext, scrollVars
  <2> QED
    BY <2>1 DEF TowardViewport, Shown
<1>2. CASE StartSearch \/ Stopped \/ DriverFailed \/ Pause
  <2>1. UNCHANGED <<plan, place, element, course>> /\ step' # "scroll"
    BY <1>2 DEF StartSearch, Stopped, DriverFailed, Pause, ToStep, EndAs, World
  <2> QED
    BY <2>1 DEF TowardViewport, Shown
<1>3. CASE Observe \/ Recheck
  <2>1. UNCHANGED <<plan, place, course>> /\ step' # "scroll" /\ element' \in Observed
    BY <1>3 DEF Observe, Recheck, ToStep, EndAs, World
  <2>2. element' \in Int /\ (element' # Missing => Shown(element') > 0)
    BY <2>1, ObservedTypes
  <2> QED
    BY <2>1, <2>2 DEF Shown
<1>4. CASE HitTest
  <2>1. UNCHANGED <<plan, place, element>> /\ step' # "scroll"
        /\ (course' = course \/ course' = [course EXCEPT !.covered = TRUE])
    BY <1>4 DEF HitTest, Accept, ToStep, EndAs, World
  <2>2. course' \in CourseType
    BY <2>1 DEF CourseType
  <2> QED
    BY <2>1, <2>2 DEF Shown
<1>5. CASE Judge
  <2>1. UNCHANGED <<plan, place, element>>
        /\ ((course' = course /\ step' # "scroll") \/ course' = NextStep(element))
    BY <1>5 DEF Judge, ToStep, EndAs, World
  <2>2. course' \in CourseType /\ (step' = "scroll" /\ element # Missing => course'.asked = TowardViewport(element))
    BY <2>1, CourseTypes
  <2> QED
    BY <2>1, <2>2 DEF TowardViewport, Shown
<1>6. CASE Scroll \/ Centre
  <2>1. UNCHANGED <<plan, element, course>> /\ step' # "scroll"
    BY <1>6 DEF Scroll, Centre, ToStep
  <2>2. PICK slip \in Slips :
           place' = Moved(place, course.asked + slip) \/ place' = Moved(place, CentreStep(element) + slip)
    BY <1>6 DEF Scroll, Centre
  <2>3. CentreStep(element) \in Int /\ course.asked \in Int
    <3>1. (2 * element + Size - Height) \div 2 \in Int /\ Height \div 2 \in Int
      BY ScrollConstants
    <3>2. Least(Height \div 2, -((2 * element + Size - Height) \div 2)) \in Int
          /\ Least(Height \div 2, (2 * element + Size - Height) \div 2) \in Int
      BY <3>1, LeastMost
    <3>3. CentreStep(element) \in Int
      BY <3>2 DEF CentreStep
    <3> QED
      BY <3>3 DEF CourseType
  <2>4. course.asked + slip \in Int /\ CentreStep(element) + slip \in Int
    BY <2>2, <2>3, ScrollConstants
  <2>5. place' \in Int
    BY <2>2, <2>4, MovedTypes
  <2> QED
    BY <2>1, <2>5 DEF Shown
<1> QED
  BY <1>1, <1>2, <1>3, <1>4, <1>5, <1>6 DEF ScrollNext, Search

\* The invariant holds at first.
LEMMA SightInit == ScrollInit => SightInv
  BY ScrollConstants, PlansAssumption DEF ScrollInit, SightInv, Places, NewCourse, CourseType

\* A scroll that is measured by a target in sight does not take it out of sight.
THEOREM ScrollsKeepSight == ScrollSpec => ScrollKeepsSight
<1> DEFINE StaysInSight ==
        step = "scroll" /\ step' = "pause" /\ element = place /\ place # Missing
        /\ place' = Moved(place, course.asked)
        /\ (CoveredStep < Size \/ place \notin 0..(Height - Size))
        => Shown(place') > 0
<1>1. SightInv /\ [ScrollNext]_scrollVars => SightInv'
  BY SightStep
<1>2. SightInv /\ [ScrollNext]_scrollVars => [StaysInSight]_scrollVars
  <2> SUFFICES ASSUME SightInv, step = "scroll", element = place, place # Missing,
                      place' = Moved(place, course.asked),
                      CoveredStep < Size \/ place \notin 0..(Height - Size)
               PROVE  Shown(place') > 0
    OBVIOUS
  <2>1. course.asked = TowardViewport(place) /\ place \in Int /\ plan \in Compiled /\ Shown(place) > 0
    BY DEF SightInv
  <2>2. /\ course.asked \in Int
        /\ (place - course.asked) + Size > 0 /\ place - course.asked < Height
    BY <2>1, Measured
  <2> QED
    BY <2>1, <2>2, MovedInSight
<1> QED
  BY SightInit, <1>1, <1>2, PTL DEF ScrollSpec, ScrollKeepsSight
=============================================================================
