---------------------------- MODULE ExploreSession ----------------------------
(***************************************************************************)
(* flowbaton explore: one session on one device.  The crew observes a      *)
(* screen, maps it, plans scenarios, walks to the start screen of each,    *)
(* runs it (ScenarioRun; here one step with the results it can return),    *)
(* relaunches the application, and reports.  Models answer as they like;   *)
(* the driver, the observer and the files may fail anywhere.               *)
(***************************************************************************)
EXTENDS Integers, SequencesExt

CONSTANTS
    Views,       \* screens of the application
    Catalog,     \* scenarios a planner may propose: [name, rank, start, expected]
    FreshName,   \* stands for a name that no scenario had before: there is always one more
    MaxTests,    \* scenarios the session may run
    StyleCount   \* planning styles: as many dry rounds end the session

ASSUME SessionAssumption ==
    /\ Views # {} /\ IsFiniteSet(Catalog) /\ {MaxTests, StyleCount} \subseteq Nat \ {0}
    /\ \A s \in Catalog : DOMAIN s = {"name", "rank", "start", "expected"}

VARIABLES
    stage,        \* what the session does next
    app,          \* the screen the device shows
    state,        \* the observation the session works from
    launched,     \* the screen the last relaunch left the application on
    executed, dry, planned, unmet, plan, results, failed,
    unreachable,  \* routes the worker did not find in this session
    recipes,      \* routes the experience store holds
    cached,       \* screens with a stored map
    evidence,     \* the scenarios the tester returned a result for, in order
    opened, recording,
    logged        \* the scenarios with a file

sessionVars == <<stage, app, state, launched, executed, dry, planned, unmet, plan, results, failed,
                 unreachable, recipes, cached, evidence, opened, recording, logged>>

NoView == "none"

SessionInit ==
    /\ stage = "prepare" /\ app \in Views /\ state = NoView /\ launched = NoView
    /\ executed = 0 /\ dry = 0 /\ planned = {} /\ unmet = {} /\ plan = <<>> /\ results = <<>>
    /\ failed = FALSE /\ unreachable = {} /\ recipes = {} /\ cached = {} /\ evidence = <<>>
    /\ opened = FALSE /\ recording = FALSE /\ logged = <<>>

files == <<opened, recording, logged>>
stores == <<unreachable, recipes, cached>>
course == <<executed, dry, planned, unmet, plan, results, evidence>>

Fails == failed' = TRUE /\ stage' = "finalize"

-----------------------------------------------------------------------------
\* The output directory is tried with an empty step log before anything starts.
executeSession ==
    /\ stage = "prepare"
    /\ \/ stage' = "closed" /\ failed' = TRUE /\ UNCHANGED <<opened, recording>>
       \/ \E record \in BOOLEAN, starts \in BOOLEAN :
            /\ opened' = TRUE /\ recording' = (record /\ starts)
            /\ stage' = IF record /\ ~starts THEN "close" ELSE "launch"
            /\ failed' = (record /\ ~starts)
    /\ UNCHANGED <<app, state, launched, course, stores, logged>>

\* Two launches and two observations at most; a launch may land on any screen.
EnsureReady(next) ==
    \/ \E view \in Views :
        /\ app' = view /\ launched' = view /\ state' = view
        /\ stage' = next /\ UNCHANGED failed
    \/ /\ \E view \in Views : app' = view /\ launched' = view
       /\ Fails /\ UNCHANGED state

FirstLaunch ==
    /\ stage = "launch" /\ EnsureReady("round")
    /\ UNCHANGED <<course, stores, files>>

\* The head of the loop: budget and dry rounds, then a screen to plan from.
Round ==
    /\ stage = "round"
    /\ \/ /\ executed >= MaxTests \/ dry >= StyleCount
          /\ stage' = "analyse" /\ UNCHANGED <<state, failed>>
       \/ executed < MaxTests /\ dry < StyleCount /\ Fails /\ UNCHANGED state
       \/ /\ executed < MaxTests /\ dry < StyleCount
          /\ state' = IF state = NoView THEN app ELSE state
          /\ stage' = "research" /\ UNCHANGED failed
    /\ UNCHANGED <<app, launched, course, stores, files>>

\* A map that is stored and fresh costs no model call; a stored one may have expired.
Research ==
    /\ stage = "research"
    /\ \/ stage' = "plan" /\ cached' = cached \cup {state} /\ UNCHANGED failed
       \/ Fails /\ UNCHANGED cached
    /\ UNCHANGED <<app, state, launched, course, unreachable, recipes, files>>

\* Known names are dropped, and scenarios that expect nothing; the budget is a bound,
\* and every scenario is given the screen of the map as its start.
filterScenarios ==
    {[s EXCEPT !.start = state] : s \in {t \in Catalog : t.name \notin planned /\ t.expected # {}}}

\* Pending scenarios run by priority, in the order of the reply within one.
Pending(order) == \A i, j \in DOMAIN order : i < j => order[i].rank <= order[j].rank

DryForgotten == dry
DryAfter == dry + 1

PlanNext ==
    /\ stage = "plan"
    /\ \/ Fails /\ UNCHANGED <<state, dry, plan>>
       \/ /\ stage' = "round" /\ dry' = DryAfter /\ state' = NoView
          /\ UNCHANGED <<plan, failed>>
       \/ \E order \in SetToAllKPermutations(filterScenarios) :
            /\ order # <<>> /\ Len(order) <= MaxTests - executed /\ Pending(order)
            /\ plan' = order /\ dry' = 0 /\ stage' = "pick" /\ UNCHANGED <<state, failed>>
    /\ UNCHANGED <<app, launched, executed, planned, unmet, results, evidence, stores, files>>

missesForgotten(expected) == FALSE
allAlreadyMissed(expected) == expected # {} /\ expected \subseteq unmet

\* A scenario is named as planned whether or not it runs; a fresh name does not return.
Pick ==
    /\ stage = "pick"
    /\ IF plan = <<>> \/ executed >= MaxTests
       THEN stage' = "round" /\ UNCHANGED <<planned, plan>>
       ELSE LET next == Head(plan) IN
            /\ planned' = planned \cup ({next.name} \ {FreshName})
            /\ IF allAlreadyMissed(next.expected) THEN plan' = Tail(plan) /\ UNCHANGED stage
               ELSE /\ stage' = IF state \notin {NoView, next.start} THEN "reach" ELSE "run"
                    /\ UNCHANGED plan
    /\ UNCHANGED <<app, state, launched, executed, dry, unmet, results, failed, evidence, stores, files>>

\* A recipe kept for this screen leads to the one named; one that fails on its way, or
\* holds a masked text, is left for the worker.
Replay(origin, key) ==
    /\ <<origin, key>> \in recipes
    /\ app' = key /\ state' = key /\ stage' = "run"

\* Reach relaunches, then replays a stored recipe, then lets the worker try, once
\* per route.  The screen the worker was last shown decides; a call after it that
\* could not be observed may have moved the application on.  When Reach gives up the
\* application is wherever the walk left it and the session keeps the observation
\* it had.
Reach ==
    /\ stage = "reach"
    /\ LET key == Head(plan).start IN \E origin, view \in Views :
        /\ launched' = origin
        /\ \/ origin = key /\ app' = key /\ state' = key /\ stage' = "run"
              /\ UNCHANGED <<failed, recipes, unreachable>>
           \/ origin # key /\ Replay(origin, key) /\ UNCHANGED <<failed, recipes, unreachable>>
           \/ /\ origin # key /\ <<origin, key>> \notin unreachable
              /\ app' = view /\ state' = key /\ stage' = "run"
              /\ recipes' \in {recipes, recipes \cup {<<origin, key>>}} /\ UNCHANGED <<failed, unreachable>>
           \/ /\ app' = view /\ stage' = "run" /\ UNCHANGED <<state, failed, recipes>>
              /\ unreachable' \in {unreachable, unreachable \cup {<<origin, key>>}}
           \/ app' = view /\ Fails /\ UNCHANGED <<state, recipes, unreachable>>
    /\ UNCHANGED <<course, cached, files>>

-----------------------------------------------------------------------------
\* What RunScenario returns: nothing but an error, or a result, with an error or
\* without.  Only a run that came to its verdict judged its outcomes.
Results(expected) ==
    {[status |-> "stopped", missed |-> m, error |-> e] :
        m \in SUBSET expected, e \in {"none", "other"}}
    \cup {[status |-> "stopped", missed |-> {}, error |-> "unobservable"]}
    \cup {[status |-> "failed", missed |-> m, error |-> e] : m \in SUBSET expected, e \in {"none", "other"}}
    \cup {[status |-> "passed", missed |-> {}, error |-> e] : e \in {"none", "other"}}

collectUnmet(result) == IF result.status = "stopped" THEN unmet ELSE unmet \cup result.missed

Named(next, r) ==
    [name |-> next.name, expected |-> next.expected, status |-> r.status, missed |-> r.missed, error |-> r.error]
keptWhenClean(next, result) == IF result.error = "none" THEN Append(results, Named(next, result)) ELSE results
kept(next, result) == Append(results, Named(next, result))

\* The result is stored before the error is looked at.  A screen that was lost
\* costs one scenario, anything else the session.
RunScenario ==
    /\ stage = "run"
    /\ LET next == Head(plan) IN \E view \in Views :
        /\ app' = view /\ plan' = Tail(plan)
        /\ \/ Fails /\ UNCHANGED <<executed, unmet, results, evidence>>
           \/ \E result \in Results(next.expected) :
                /\ evidence' = Append(evidence, next.name)
                /\ results' = kept(next, result) /\ unmet' = collectUnmet(result)
                /\ IF result.error = "other" THEN Fails /\ UNCHANGED executed
                   ELSE /\ executed' = executed + 1 /\ UNCHANGED failed
                        /\ stage' = IF executed' >= MaxTests THEN "round" ELSE "relaunch"
    /\ UNCHANGED <<state, launched, dry, planned, stores, files>>

Relaunch ==
    /\ stage = "relaunch" /\ EnsureReady("pick")
    /\ UNCHANGED <<course, stores, files>>

Analyse ==
    /\ stage = "analyse"
    /\ \/ stage' = "finalize" /\ UNCHANGED failed
       \/ Fails
    /\ UNCHANGED <<app, state, launched, course, stores, files>>

-----------------------------------------------------------------------------
\* The recording is finalized and the driver closed whatever the session
\* returned, under contexts that the interrupt of the session does not end.
Finalize ==
    /\ stage = "finalize" /\ stage' = "close"
    /\ recording' = FALSE /\ failed' \in {failed} \cup (IF recording THEN {TRUE} ELSE {})
    /\ UNCHANGED <<app, state, launched, course, stores, opened, logged>>

CloseDriver ==
    /\ stage = "close" /\ stage' = "write"
    /\ opened' = FALSE /\ failed' \in {failed, TRUE}
    /\ UNCHANGED <<app, state, launched, course, stores, recording, logged>>

Unwritten == <<"unwritten">>

\* The artifacts of a failed session are written too; a write may fail.
writeExploreArtifacts ==
    /\ stage = "write" /\ stage' = "closed"
    /\ \/ logged' = [k \in DOMAIN results |-> results[k].name] /\ UNCHANGED failed
       \/ failed' = TRUE /\ logged' = Unwritten
    /\ UNCHANGED <<app, state, launched, course, stores, opened, recording>>

SessionNext ==
    \/ executeSession \/ FirstLaunch \/ Round \/ Research \/ PlanNext \/ Pick \/ Reach
    \/ RunScenario \/ Relaunch \/ Analyse \/ Finalize \/ CloseDriver \/ writeExploreArtifacts

-----------------------------------------------------------------------------
\* Partial evidence is never lost: every run that returned a result is in the
\* files of a session that could write them, also when that run, a later step or
\* the closing of the driver failed; and the device is released (tester.go,
\* RunScenario; explore.go, executeSession).
EvidenceKept ==
    stage = "closed" =>
        /\ logged # Unwritten => logged = evidence
        /\ ~opened /\ ~recording

\* No run spends the device on outcomes that finished runs have all looked for
\* and missed (crew.go, allAlreadyMissed and collectUnmet).
NoMissIsChasedAgain ==
    \A k \in DOMAIN results :
        LET expected == results[k].expected
            before == UNION {results[i].missed : i \in {j \in 1..(k - 1) : results[j].status # "stopped"}}
        IN  expected = {} \/ ~(expected \subseteq before)

\* A plan nothing of which will run: its outcomes have all been missed already.  It is
\* worth no more than an empty one, and yet it is no dry round.
PlanIsFutile ==
    stage = "pick" /\ plan # <<>> /\ \A k \in DOMAIN plan : allAlreadyMissed(plan[k].expected)
=============================================================================
