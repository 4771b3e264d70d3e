----------------------------- MODULE MCCommands -----------------------------
(***************************************************************************)
(* The engine below the flow: leaf commands, one scrollUntilVisible, the   *)
(* preflight and compilation of flow files, and the reading of errors.     *)
(* Every behaviour is of the one that "which" names; the variables of the  *)
(* others keep their first values.                                         *)
(***************************************************************************)
EXTENDS CommandRun, ScrollSearch, ProgramClosure, ErrorClass

\* Few commands to a run, so that each run varies only in what they look at; being
\* optional steers the deadline and the outcome, which the simple forms show.
Tapping == {c \in TapOn : c.repeat = 1 \/ c.retry}
Touching == MayBeOptional({c \in TapOn : c.repeat = 1 /\ ~c.retry} \cup Gesture \cup Swipe \cup CopyTextFrom)
Asserting ==
    MayBeOptional(AssertVisible \cup AssertNotVisible \cup ExtendedWaitUntil) \cup AnimationWait \cup AssertScreenshot
Deciding == RunScript \cup AssertTrue \cup AICommand \cup EvalScript
Managing == MayBeOptional(LaunchApp) \cup Lifecycle \cup {Plain("takeScreenshot")}
Others ==
    Typing \cup PressKey \cup ActionAlias \cup SetClipboard \cup OpenLink \cup Media \cup LogCapture
    \cup (DeviceState \ {Plain("setOrientation")}) \cup Travel

Turning == {Plain("setOrientation")} \cup AssertVisible \cup Swipe

Families == {Tapping, Touching, Asserting, Deciding, Turning, Managing, Others}

Searching(way, speed, need, css, centre, settle, timeout) ==
    [way |-> way, speed |-> speed, need |-> need, css |-> css, centre |-> centre, settle |-> settle,
     timeout |-> timeout]
Searches ==
    {Searching(way, speed, need, FALSE, FALSE, FALSE, 3) : way \in {-1, 1}, speed \in {2, 5}, need \in {1, Size}}
    \cup {Searching(1, 3, Size, css, centre, settle, 2) : css \in BOOLEAN, centre \in BOOLEAN, settle \in BOOLEAN}
    \cup {Searching(1, 3, Size, FALSE, FALSE, FALSE, 0)}
Slipping == {0, 2}

-----------------------------------------------------------------------------
\* The files of the preflight.
Link(kind, to) == [kind |-> kind, to |-> to]
Command(feature) ==
    [feature |-> feature, authored |-> {"android", "web"}, when |-> "any", sees |-> <<>>, finds |-> <<>>,
     links |-> <<>>, within |-> {}]
Linking(tos) == [Command("runFlow") EXCEPT !.links = [i \in DOMAIN tos |-> Link("flow", tos[i])]]
Empty == [url |-> FALSE, ext |-> <<>>, onStart |-> <<>>, body |-> <<>>, onComplete |-> <<>>]
File(f) == [is |-> "flow", flow |-> f]
Is(what) == [is |-> what]
SymlinkTo(p) == [is |-> "symlink", to |-> p]
RunsFlows(tos) == File([Empty EXCEPT !.body = [i \in DOMAIN tos |-> Linking(<<tos[i]>>)]])

Support ==
    [f \in {"runFlow", "back", "web", "url", "css", "cloud"} |->
       [served |-> f # "cloud",
        platforms |-> IF f \in {"back"} THEN {"android"} ELSE IF f \in {"web", "url", "css"} THEN {"web"} ELSE {"android", "web"}]]

\* Every way three files, one of them also known by a symbolic link, can link each other.
Workspace(a, b, c) ==
    [p \in {"a", "b", "c", "s", "m"} |->
        CASE p = "a" -> a [] p = "b" -> b [] p = "c" -> c [] p = "s" -> SymlinkTo("b") [] p = "m" -> Is("resource")]
Linkings == {<<>>, <<"a">>, <<"s">>, <<"c">>, <<"b", "c">>, <<"c", "s">>}
LinkedTrees == {Workspace(RunsFlows(x), RunsFlows(y), RunsFlows(z)) : x, y \in Linkings, z \in {<<>>, <<"a">>, <<"s", "c">>}}
\* Flows that differ in what they ask of a platform.
Back == Command("back")
Bodies ==
    {<<Back>>, <<[Linking(<<"b">>) EXCEPT !.when = "android"], [Back EXCEPT !.within = {"android"}]>>,
     <<[Command("runFlow") EXCEPT !.sees = <<"css">>], [Back EXCEPT !.within = {"any"}]>>,
     <<[Command("runFlow") EXCEPT !.authored = {}]>>,
     <<[Command("runFlow") EXCEPT !.finds = <<"css">>, !.when = "web"]>>,
     <<[Command("cloud") EXCEPT !.when = "android"]>>, <<Command("unheard")>>,
     <<[Command("runFlow") EXCEPT !.links = <<Link("media", "m"), Link("media", "a")>>]>>}
Placed(body) ==
    {[Empty EXCEPT !.onStart = body], [Empty EXCEPT !.body = body], [Empty EXCEPT !.onComplete = body],
     [Empty EXCEPT !.url = TRUE, !.body = body], [Empty EXCEPT !.ext = <<"url">>, !.body = body]}
PlatformTrees == {Workspace(File(f), b, RunsFlows(<<>>)) : f \in UNION {Placed(body) : body \in Bodies},
                        b \in {RunsFlows(<<"c">>), Is("broken"), Is("directory"), Is("device"), Is("missing")}}
Trees == LinkedTrees \cup PlatformTrees
SomeTree == CHOOSE t \in LinkedTrees : TRUE

Selecting(paths, platform) == [roots |-> paths, platform |-> platform]
Callers == {Selecting(<<"a">>, "web"), Selecting(<<"a">>, "any"), Selecting(<<"s", "a", "b">>, "android")}
SomeCaller == Selecting(<<"a">>, "any")
Saving(path, holds) == [path |-> path, holds |-> holds]
Saved == {Saving("b", RunsFlows(<<"c">>)), Saving("b", Is("missing")), Saving("s", SymlinkTo("c")), Saving("a", RunsFlows(<<"s">>))}

-----------------------------------------------------------------------------
VARIABLE which

vars == <<which, cmdVars, scrollVars, progVars, errs>>

Init ==
    /\ which \in {"command", "search", "preflight", "errors"}
    /\ CmdInit /\ (which # "command" => flow = Deciding /\ view = [at |-> Gone, covered |-> FALSE, turned |-> "portrait"])
    /\ ScrollInit /\ (which # "search" => plan = (CHOOSE p \in Plans : TRUE) /\ place = Missing)
    /\ ProgInit
    /\ which # "preflight" => files = SomeTree /\ selection = SomeCaller
    /\ ErrInit

KeepCommand == UNCHANGED <<which, scrollVars, progVars, errs>>
KeepSearch == UNCHANGED <<which, cmdVars, progVars, errs>>
KeepProgram == UNCHANGED <<which, cmdVars, scrollVars, errs>>
KeepErrors == UNCHANGED <<which, cmdVars, scrollVars, progVars>>

Next ==
    \/ which = "command" /\ CmdNext /\ KeepCommand
    \/ which = "search" /\ ScrollNext /\ KeepSearch
    \/ which = "preflight" /\ ProgNext /\ KeepProgram
    \/ which = "errors" /\ ErrNext /\ KeepErrors

\* The handler of a command that was begun goes on, and so does a preflight; which of
\* them a behaviour is of never changes, so one condition covers them all.
GoesOn ==
    \/ which = "command" /\ Handler /\ KeepCommand
    \/ which = "search" /\ Search /\ KeepSearch
    \/ which = "preflight" /\ ProgStep /\ KeepProgram

Spec == Init /\ [][Next]_vars /\ WF_vars(GoesOn)

-----------------------------------------------------------------------------
\* Every command ends, on a screen that never comes to rest as well, and a search whose
\* settle takes no time; and every preflight, whatever the links of the files are.
CommandsEnd ==
    []<>(CASE which = "command" -> Idle
           [] which = "search" -> step = "ended"
           [] which = "preflight" -> task \in {"ready", "refused"}
           [] which = "errors" -> TRUE)
=============================================================================
