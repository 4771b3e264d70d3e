-------------------------------- MODULE MCHost --------------------------------
(***************************************************************************)
(* The machines of flowbaton that share no state with one another: a       *)
(* scenario of an exploration and the session around it, a pass of         *)
(* flowbaton test and the watch loop around it, the asset cache, the       *)
(* JavaScript runtime, the drivers with their captures, start-device, and  *)
(* the event streams of a serving process.  Every behaviour is of the one  *)
(* machine that "who" names; the variables of the others keep their first  *)
(* values.                                                                 *)
(***************************************************************************)
EXTENDS ScenarioRun, ExploreSession, TestRun, TLC

CONSTANTS
    UnderRoots, MaxSaves,
    Users, Setups, Content, NoDir,
    Names, Values, Absent, MaxEvaluations, MaxScopes,
    Attempts, AdbFails, Callers, Recordings, NoCapture, MaxStarts,
    Emulators, NoName, Locales, NoLocale, Boots,
    Streams, MaxBatch, MaxLog, MaxBindings

VARIABLES
    who,
    aliased, disk, broken, pass, watched, snapshot, selectedAt, ranAt, refused,
    doing, holder, final, temp, manifest,
    globals, own, env, envStack, transient, shadowedValues, restoreTo, evaluation, fresh, cancelled,
    alarms, interrupt, outcome, ended, count,
    platform, at, held, tried, ctx, managed, child, failing, done, doubt, attempt, busy, port, tunnelled,
    call, waiting, slot, routing, wire, asked, reader, failure, closed,
    target, progress, runCtx, whole, capturing, table, children, told, file, starts, logs, stdio,
    args, place, avd, serial, seen, late, power, locale, wasReady, boots,
    row, log, feed

-----------------------------------------------------------------------------
\* The small world of the run.
Shown == [s \in Screens |-> IF s = "list" THEN {"row"} ELSE {"button"}]

Scenario(name, rank, expected) == [name |-> name, rank |-> rank, start |-> "none", expected |-> expected]
Scenarios ==
    {Scenario("add", 1, {"row"}), Scenario(FreshName, 2, {"row"}), Scenario("open", 2, {"row", "button"}),
     Scenario("look", 1, {})}

Flow(path, name, tags) == [path |-> path, name |-> name, tags |-> tags, explicit |-> FALSE]
Plain == [found |-> <<Flow("f", "a", {"smoke"}), Flow("g", "b", {"smoke"}), Flow("h", "c", {})>>,
          order |-> <<>>, goOn |-> FALSE, include |-> {"smoke"}, exclude |-> {}]
Layouts ==
    {Plain,
     [Plain EXCEPT !.order = <<"b">>, !.include = {}],
     [Plain EXCEPT !.order = <<"b">>, !.goOn = TRUE, !.exclude = {"smoke"}, !.include = {},
                   !.found = [@ EXCEPT ![2].explicit = TRUE]],
     [Plain EXCEPT !.order = <<"a">>, !.found = [@ EXCEPT ![2].name = "a"]]}

One == [split |-> 0, all |-> 0, devices |-> <<>>, operator |-> <<>>, record |-> TRUE, report |-> TRUE]
CommandLines ==
    {One,
     [One EXCEPT !.split = 2, !.devices = <<"d1", "d2">>],
     [One EXCEPT !.all = 2, !.devices = <<"d1", "d2">>, !.operator = <<1, 2>>],
     [One EXCEPT !.split = 3, !.devices = <<"d1", "d2">>, !.record = FALSE]}

Nothing == [platform |-> "none", device |-> NoName, create |-> FALSE, locale |-> NoLocale, image |-> FALSE]
Off == [n \in Emulators |-> "off"]
First == CHOOSE l \in Locales : TRUE

ASSUME ListsAssumption == InputsListed
W == INSTANCE WatchLoop
C == INSTANCE AssetCache
J == INSTANCE ScriptRuntime
D == INSTANCE Drivers WITH Names <- Recordings
S == INSTANCE StartDevice WITH Names <- Emulators
F == INSTANCE EventFeed

-----------------------------------------------------------------------------
watchVars == <<aliased, disk, broken, pass, watched, snapshot, selectedAt, ranAt, refused>>
cacheVars == <<doing, holder, final, temp, manifest>>
jsVars == <<globals, own, env, envStack, transient, shadowedValues, restoreTo, evaluation, fresh, cancelled,
            alarms, interrupt, outcome, ended, count>>
driverVars == <<platform, at, held, tried, ctx, managed, child, failing, done, doubt, attempt, busy, port,
                tunnelled, call, waiting, slot, routing, wire, asked, reader, failure, closed,
                target, progress, runCtx, whole, capturing, table, children, told, file, starts, logs, stdio>>
startVars == <<args, place, avd, serial, seen, late, power, locale, wasReady, boots>>
feedVars == <<row, log, feed>>
vars == <<who, runVars, sessionVars, testVars, watchVars, cacheVars, jsVars, driverVars, startVars, feedVars>>

Init ==
    /\ who \in {"tester", "session", "test", "watch", "cache", "script", "drivers",
             "start", "feed"}
    /\ RunInit /\ (who # "tester" => shown = "list" /\ current = "list" /\ ~pilot)
    /\ SessionInit /\ (who # "session" => app = "list")
    /\ TestInit /\ (who # "test" => ws = Plain /\ request = One)
    /\ W!WatchInit /\ (who # "watch" => aliased = {})
    /\ C!CacheInit /\ (who # "cache" => ~manifest)
    /\ J!JSInit
    /\ D!DriversInit /\ (who # "drivers" => platform = "android" /\ ~managed)
    /\ S!StartInit /\ (who # "start" => args = Nothing /\ power = Off /\ \A n \in Emulators : locale[n] = First)
    /\ F!FeedInit

KeepRun == UNCHANGED <<who, sessionVars, testVars, watchVars, cacheVars, jsVars, driverVars, startVars, feedVars>>
KeepSession == UNCHANGED <<who, runVars, testVars, watchVars, cacheVars, jsVars, driverVars, startVars, feedVars>>
KeepTest == UNCHANGED <<who, runVars, sessionVars, watchVars, cacheVars, jsVars, driverVars, startVars, feedVars>>
KeepWatch == UNCHANGED <<who, runVars, sessionVars, testVars, cacheVars, jsVars, driverVars, startVars, feedVars>>
KeepCache == UNCHANGED <<who, runVars, sessionVars, testVars, watchVars, jsVars, driverVars, startVars, feedVars>>
KeepScript == UNCHANGED <<who, runVars, sessionVars, testVars, watchVars, cacheVars, driverVars, startVars, feedVars>>
KeepDrivers == UNCHANGED <<who, runVars, sessionVars, testVars, watchVars, cacheVars, jsVars, startVars, feedVars>>
KeepStart == UNCHANGED <<who, runVars, sessionVars, testVars, watchVars, cacheVars, jsVars, driverVars, feedVars>>
KeepFeed == UNCHANGED <<who, runVars, sessionVars, testVars, watchVars, cacheVars, jsVars, driverVars, startVars>>

Next ==
    \/ who = "tester" /\ RunNext /\ KeepRun
    \/ who = "session" /\ SessionNext /\ KeepSession
    \/ who = "test" /\ TestNext /\ KeepTest
    \/ who = "watch" /\ W!WatchNext /\ KeepWatch
    \/ who = "cache" /\ C!CacheNext /\ KeepCache
    \/ who = "script" /\ J!JSNext /\ KeepScript
    \/ who = "drivers" /\ D!DriversNext /\ KeepDrivers
    \/ who = "start" /\ S!StartNext /\ KeepStart
    \/ who = "feed" /\ F!FeedNext /\ KeepFeed

\* Goroutines and processes go on with their own code, and what they wait for,
\* a model, a driver or a server, answers or fails within the time it is given.
\* The operator, the editor, the scripts and the end of a context are not fair.
\* The machine of a behaviour is the same in all of it, so one condition covers
\* the steps of all machines.
GoesOn ==
    \/ who = "tester" /\ RunNext /\ KeepRun
    \/ who = "session" /\ SessionNext /\ KeepSession
    \/ who = "test" /\ TestStep /\ KeepTest
    \/ who = "watch" /\ W!WatchStep /\ KeepWatch
    \/ who = "cache" /\ C!CacheStep /\ KeepCache
    \/ who = "script" /\ J!JSStep /\ KeepScript
    \/ who = "drivers" /\ D!DriversGoOn /\ KeepDrivers
    \/ who = "start" /\ S!StartStep /\ KeepStart
InTime ==
    \/ who = "script" /\ J!Interrupt /\ KeepScript
    \/ who = "start" /\ S!DeadlinePasses /\ KeepStart
    \/ who = "drivers" /\ D!OthersEnd /\ KeepDrivers

Fairness ==
    /\ WF_vars(GoesOn)
    /\ WF_vars(InTime)
    /\ \A c \in Callers :
          /\ WF_vars(who = "drivers" /\ D!Answered(c) /\ KeepDrivers)
          /\ WF_vars(who = "drivers" /\ D!Delivered(c) /\ KeepDrivers)
    /\ \A s \in Streams : WF_vars(who = "feed" /\ F!StreamStep(s) /\ KeepFeed)

Spec == Init /\ [][Next]_vars /\ Fairness

-----------------------------------------------------------------------------
\* Properties of the machines that are stated in their own modules.
LastEditIsRun == W!LastEditIsRun
StopNeverWaitsForTheDead == D!StopNeverWaitsForTheDead
CapturesAccounted == D!CapturesAccounted
ImplementsDriverContract == D!ImplementsDriverContract
StartedIsReady == S!StartedIsReady
StreamKeepsToItsToken == F!StreamKeepsToItsToken
AcquiredIsWhole == C!AcquiredIsWhole
ScriptSeesItsScope == J!ScriptSeesItsScope
InterruptHitsOwnEvaluation == J!InterruptHitsOwnEvaluation

\* What an exploration reports rests on evidence that stands: the checks the judge is
\* told of are true of the screen shown then, those aside that were made on an older
\* screen the run was handed, and what is written of a test is kept.
EvidenceStands == ChecksAreOfThisRun /\ EvidenceKept

Rested ==
    CASE who = "tester" -> phase = "ended"
      [] who = "session" -> stage = "closed"
      [] who = "test" -> job = "ended"
      [] who = "watch" -> pass = "wait"
      [] who = "cache" -> \A u \in Users : doing[u] \in C!Ends /\ (doing[u] = "acquired" => u \notin Setups)
      [] who = "script" -> cancelled => evaluation = "idle"
      [] who = "drivers" -> D!DriversRest
      [] who = "start" -> place \in S!Ends
      [] who = "feed" -> row.status = "released" => \A s \in Streams : feed[s].at \in {"none", "ended"}

\* A scenario, a session, a test run, an acquisition of an asset and start-device come
\* to an end, whatever fails in them, unless the planner of a session goes on for ever
\* inventing names for what was missed already (crew.go, RunSession); the watcher waits
\* for the editor whenever it has stopped saving; an evaluation whose context ended
\* gives the runtime back, even if its script never would; Open and Close of a driver
\* end, and so do the calls of a closed connection and the streams of a released session.
HostEnds == []<>Rested \/ []<>PlanIsFutile
=============================================================================
