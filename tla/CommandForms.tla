---------------------------- MODULE CommandForms ----------------------------
(***************************************************************************)
(* The leaf commands of a flow (internal/engine, one handler per keyword): *)
(* which authored commands compile, and what the handler of each does, as  *)
(* a sequence of stages that CommandRun executes.  Of an authored command  *)
(* only what steers its handler is kept; texts, names, points and paths    *)
(* are not.                                                                *)
(***************************************************************************)
EXTENDS Naturals, Sequences

CONSTANTS
    MaxRepeat,  \* bound: taps of one tapOn, points of a travel
    Timeouts,   \* bound: authored timeouts, in units of the clock
    Samples     \* bound: samples a settle may take; one when its authored timeout is zero

ASSUME FormsAssumption ==
    /\ MaxRepeat \in Nat \ {0} /\ Samples \subseteq Nat \ {0} /\ Samples # {}
    /\ Timeouts \subseteq 0..99

Adjusted == 100     \* no authored timeout: the default, less the time since the last interaction

Plain(kind) ==
    [kind |-> kind, target |-> "none", repeat |-> 1, retry |-> FALSE, waitUntilVisible |-> FALSE,
     optional |-> FALSE, timeout |-> Adjusted, parts |-> {}]

Targets == {"selector", "screenPoint", "selectorPoint"}

\* commandIsOptional: any of these may be marked; an AI command is unless told otherwise.
MayBeOptional(forms) == forms \cup {[c EXCEPT !.optional = ~@] : c \in forms}

-----------------------------------------------------------------------------
(* What compiles                                                           *)

\* A selector with something to look for, and nothing the matcher does not implement.
OnSelector(kind) == {[Plain(kind) EXCEPT !.target = "selector"]}

\* A tap on a bare point can neither be observed afterwards nor searched for.
Unsearchable(c) == c.target = "screenPoint" /\ c.waitUntilVisible
Tap(t, n, r, v) == [Plain("tapOn") EXCEPT !.target = t, !.repeat = n, !.retry = r, !.waitUntilVisible = v]
TapOn ==
    {c \in {Tap(t, n, r, v) : t \in Targets, n \in 1..MaxRepeat, r \in BOOLEAN, v \in BOOLEAN} :
        ~Unsearchable(c)}

Gesture == {[Plain(k) EXCEPT !.target = t] : k \in {"doubleTapOn", "longPressOn"}, t \in Targets}

\* A direction, two points, or an element and a direction: exactly one of the three.
Swipe == {[Plain("swipe") EXCEPT !.target = t] : t \in {"none", "screenPoint", "element"}}

InputText == {Plain("inputText")}
EraseText == {Plain("eraseText")}
InputRandom == {Plain("inputRandom")}
PasteText == {Plain("pasteText")}
Typing == InputText \cup EraseText \cup InputRandom \cup PasteText
DirectAction == {Plain(k) : k \in {"back", "hideKeyboard", "scroll"}}
PressKey == {Plain("pressKey")}
\* action: an alias of one of these, and executed as it; without any option.
ActionAlias == DirectAction \cup PasteText
CopyTextFrom == OnSelector("copyTextFrom")
SetClipboard == {Plain("setClipboard")}

AssertVisible == OnSelector("assertVisible")
AssertNotVisible == OnSelector("assertNotVisible")
AssertTrue == {Plain("assertTrue")}
WaitFor(t, p) == [Plain("extendedWaitUntil") EXCEPT !.target = "selector", !.timeout = t, !.parts = p]
ExtendedWaitUntil ==
    {WaitFor(t, p) : t \in Timeouts \cup {Adjusted}, p \in (SUBSET {"visible", "notVisible"}) \ {{}}}

LaunchApp ==
    {[Plain("launchApp") EXCEPT !.parts = p] :
        p \in SUBSET {"clearKeychain", "clearState", "permissions", "stopApp"}}
Lifecycle == {Plain(k) : k \in {"stopApp", "killApp", "clearState", "clearKeychain"}}

OpenLink == {Plain("openLink")}
AnimationWait == {[Plain("waitForAnimationToEnd") EXCEPT !.timeout = t] : t \in Timeouts}
Media == {Plain(k) : k \in {"takeScreenshot", "startRecording", "stopRecording", "addMedia"}}
LogCapture == {Plain(k) : k \in {"startLogCapture", "stopLogCapture"}}
SetLocation == {Plain("setLocation")}
DeviceState ==
    {Plain(k) : k \in {"setOrientation", "setAirplaneMode", "toggleAirplaneMode", "setPermissions"}}
    \cup SetLocation
Travel == {[Plain("travel") EXCEPT !.repeat = n] : n \in 2..(MaxRepeat + 1)}
AssertScreenshot ==
    {[Plain("assertScreenshot") EXCEPT !.target = t] : t \in {"none", "selector"}}
AICommand ==
    {[Plain(k) EXCEPT !.optional = TRUE] :
        k \in {"assertWithAI", "assertNoDefectsWithAI", "extractTextWithAI"}}
EvalScript == {Plain("evalScript")}
RunScript ==
    {[Plain("runScript") EXCEPT !.parts = p] :
        p \in SUBSET {"platform", "scriptCondition", "visible", "notVisible"}}

Leaves ==
    MayBeOptional(
        TapOn \cup Gesture \cup Swipe \cup Typing \cup ActionAlias \cup PressKey \cup CopyTextFrom
        \cup SetClipboard \cup AssertVisible \cup AssertNotVisible \cup AssertTrue \cup ExtendedWaitUntil
        \cup LaunchApp \cup Lifecycle \cup OpenLink \cup AnimationWait \cup Media \cup LogCapture
        \cup DeviceState \cup Travel \cup AssertScreenshot \cup AICommand \cup EvalScript \cup RunScript)

-----------------------------------------------------------------------------
(* What a handler does                                                     *)

\* n touches with a delay between each two, and the settle that closes them.
Batch(n) ==
    [i \in 1..(2 * n - 1) |-> IF i % 2 = 1 THEN "touch" ELSE "delay"] \o <<"settle">>

\* resolveTapPoint, resolveInteractionGestureTarget
ResolveTarget(c) ==
    CASE c.target = "screenPoint" -> <<"grid">>
      [] c.target = "selector" -> <<"deadline", "find", "steady", "aim">>
      [] c.target = "selectorPoint" -> <<"deadline", "find", "steady", "inside">>

\* What a tap that may be repeated is compared with.
LookBefore(c) == IF c.retry THEN <<"treeBefore", "shotBefore">> ELSE <<>>

RunTapOn(c) ==
    ResolveTarget(c)
    \o LookBefore(c)
    \o <<"batch">> \o Batch(c.repeat)
    \o (IF c.retry THEN <<"compare">> ELSE <<>>)
    \o (IF c.waitUntilVisible THEN <<"appear">> ELSE <<>>)

\* Mutant: the second batch goes where the first one went.
TapSameSpot(c) == <<"batch">> \o Batch(c.repeat)

\* The second batch of a retried tap, after which nothing is compared again.
TapAgain(c) == ResolveTarget(c) \o <<"batch">> \o Batch(c.repeat)

Gestured(c, n) == ResolveTarget(c) \o Batch(n)
RunDoubleTap(c) == Gestured(c, 2)
RunLongPress(c) == Gestured(c, 1)

\* An element swipe aims at the visible centre without asking whether it is covered.
ResolveSwipe(c) ==
    CASE c.target = "none" -> <<>>
      [] c.target = "screenPoint" -> <<"grid">>
      [] OTHER -> <<"deadline", "find", "steady", "centre">>
RunSwipe(c) == ResolveSwipe(c) \o Batch(1)

\* finishBatch2APhysicalAction: what follows a driver call that acts on the screen.
Acting == <<"act", "settle">>
RunInputText == Acting
RunEraseText == Acting
RunInputRandom == <<"generate">> \o Acting
RunPasteText == Acting
RunPressKey == Acting
RunDirectAction(c) == (IF c.kind = "scroll" THEN <<>> ELSE <<"grid">>) \o Acting

RunCopyText == <<"deadline", "find", "steady", "copy">>

RunAssertVisible == <<"deadline", "mustSee">>
RunAssertNotVisible == <<"deadline", "mustGo">>
RunAssertTrue == <<"judge">>

\* Mutant: one half will do.
WaitForEither(c) == <<"deadline", IF "visible" \in c.parts THEN "mustSee" ELSE "mustGo">>

\* One deadline for both halves.
RunExtendedWait(c) ==
    <<"deadline">>
    \o (IF "visible" \in c.parts THEN <<"mustSee">> ELSE <<>>)
    \o (IF "notVisible" \in c.parts THEN <<"mustGo">> ELSE <<>>)

\* specs/06-launch-app-semantics.md: keychain, state, permissions, then launch.
RunLaunchApp(c) ==
    (IF "clearKeychain" \in c.parts THEN <<"wipe">> ELSE <<>>)
    \o (IF "clearState" \in c.parts THEN <<"endApp">> ELSE <<>>)
    \o (IF "permissions" \in c.parts THEN <<"wipe">> ELSE <<>>)
    \o (IF "stopApp" \in c.parts THEN <<"endApp">> ELSE <<>>)
    \o <<"launch", "settleOrFail">>

RunLifecycle(c) == IF c.kind = "clearKeychain" THEN <<"call">> ELSE <<"endAppForGood">>

RunAnimationWait == <<"deadline", "still">>
RunMedia(c) ==
    IF c.kind = "takeScreenshot" THEN <<"alive", "shot", "write">> ELSE <<"call">>
RunDeviceState(c) ==
    CASE c.kind = "setOrientation" -> <<"rotate">>
      [] c.kind = "toggleAirplaneMode" -> <<"call", "call">>
      [] OTHER -> <<"call">>
\* The first point, then the steps of each segment with a pause after each.
RunTravel(c) ==
    <<"call">> \o [i \in 1..(2 * (c.repeat - 1)) |-> IF i % 2 = 1 THEN "call" ELSE "delay"]
\* The crop is found before a picture or a file is read.
RunAssertScreenshot(c) ==
    (IF c.target = "selector" THEN <<"deadline", "mustSee", "grid">> ELSE <<>>)
    \o <<"call", "shot", "call", "judge">>
AskModel == <<"shot", "call">>
RunAssertWithAI == AskModel \o <<"judge">>
RunExtractText == AskModel

\* evaluateCondition: the cheap predicates first, each with its own deadline.
RunCondition(p) ==
    (IF "platform" \in p THEN <<"grid", "whether">> ELSE <<>>)
    \o (IF "scriptCondition" \in p THEN <<"call", "whether">> ELSE <<>>)
    \o (IF "visible" \in p THEN <<"deadline", "whenSeen">> ELSE <<>>)
    \o (IF "notVisible" \in p THEN <<"deadline", "whenGone">> ELSE <<>>)
RunRunScript(c) == RunCondition(c.parts) \o <<"call", "call", "call">>

Kinds(forms) == {c.kind : c \in forms}

\* dispatcher.execute: the plan of the handler registered for the keyword.
Plan(c) ==
    CASE c.kind = "tapOn" -> RunTapOn(c)
      [] c.kind = "doubleTapOn" -> RunDoubleTap(c)
      [] c.kind = "longPressOn" -> RunLongPress(c)
      [] c.kind = "swipe" -> RunSwipe(c)
      [] c.kind = "inputRandom" -> RunInputRandom
      [] c.kind = "pasteText" -> RunPasteText
      [] c.kind = "pressKey" -> RunPressKey
      [] c.kind = "inputText" -> RunInputText
      [] c.kind = "eraseText" -> RunEraseText
      [] c.kind \in Kinds(DirectAction) -> RunDirectAction(c)
      [] c.kind = "copyTextFrom" -> RunCopyText
      [] c.kind = "assertVisible" -> RunAssertVisible
      [] c.kind = "assertNotVisible" -> RunAssertNotVisible
      [] c.kind = "assertTrue" -> RunAssertTrue
      [] c.kind = "extendedWaitUntil" -> RunExtendedWait(c)
      [] c.kind = "launchApp" -> RunLaunchApp(c)
      [] c.kind = "waitForAnimationToEnd" -> RunAnimationWait
      [] c.kind = "travel" -> RunTravel(c)
      [] c.kind = "assertScreenshot" -> RunAssertScreenshot(c)
      [] c.kind \in Kinds(Lifecycle) -> RunLifecycle(c)
      [] c.kind \in Kinds(Media) -> RunMedia(c)
      [] c.kind \in Kinds(DeviceState) -> RunDeviceState(c)
      [] c.kind = "extractTextWithAI" -> RunExtractText
      [] c.kind \in Kinds(AICommand) \ {"extractTextWithAI"} -> RunAssertWithAI
      [] c.kind = "runScript" -> RunRunScript(c)
      [] OTHER -> <<"call">>
=============================================================================
