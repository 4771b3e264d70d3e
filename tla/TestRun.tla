------------------------------- MODULE TestRun -------------------------------
(***************************************************************************)
(* flowbaton test, one pass: flows are discovered, filtered and ordered,   *)
(* split over shards, and every shard runs its share on a device of its    *)
(* own, at the same time as the others.  A shard's flows are the roots of  *)
(* FlowExecution; here one is a step that passes, fails or, when the run   *)
(* was interrupted, fails.  Parsing the command line, the files' contents  *)
(* and the wording of reports are left out.                                *)
(***************************************************************************)
EXTENDS Integers, Sequences, SequencesExt

CONSTANTS
    Workspaces,  \* [found, order, goOn, include, exclude]: flow files, and the workspace config
    Requests     \* [split, all, devices, operator, record, report]: what the command line asks for

\* What is found and ordered are lists, and a number of shards is no less than none.
InputsListed ==
    /\ \A w \in Workspaces : w.found \in Seq(ToSet(w.found)) /\ w.order \in Seq(ToSet(w.order))
    /\ \A r \in Requests : r.all \in Nat /\ r.split \in Nat

VARIABLES
    ws, request,
    job,          \* "discover", "prepare", "shards", "report" or "ended"
    chosen,       \* the flows the filters select
    roots,        \* the plan: what is to be run, in order
    fixed,        \* flows of the plan with a configured order
    shards,       \* [device, port, roots] of every shard
    position,           \* what each shard does next
    next,         \* the root each shard runs next
    got,          \* the results of each shard
    troubles,     \* shards with an error
    driving, taping,  \* shards whose driver is open, whose recording runs
    finalized,    \* shards whose recording was finalized
    interrupted,
    merged, runError, exit

shardVars == <<position, next, got, troubles, driving, taping, finalized>>
planVars == <<ws, request, chosen, roots, fixed, shards>>
testVars == <<planVars, job, shardVars, interrupted, merged, runError, exit>>

Shards == DOMAIN shards

TestInit ==
    /\ ws \in Workspaces /\ request \in Requests
    /\ job = "discover" /\ chosen = <<>> /\ roots = <<>> /\ fixed = 0 /\ shards = <<>>
    /\ position = <<>> /\ next = <<>> /\ got = <<>>
    /\ troubles = {} /\ driving = {} /\ taping = {} /\ finalized = {}
    /\ interrupted = FALSE /\ merged = <<>> /\ runError = FALSE /\ exit = "none"

-----------------------------------------------------------------------------
\* The flows at the places "which", in their order: how the lists of a plan are made,
\* one append after the other.
Picked(flows, which) ==
    LET picked[k \in 0..Len(flows)] ==
            IF k = 0 THEN <<>>
            ELSE IF k \in which THEN Append(picked[k - 1], flows[k]) ELSE picked[k - 1]
    IN  picked[Len(flows)]

\* A flow named on the command line is not filtered, one found in a directory is.
Selects(f) == f.explicit \/ ((ws.include = {} \/ f.tags \cap ws.include # {}) /\ f.tags \cap ws.exclude = {})
filterByTags == Picked(ws.found, {k \in DOMAIN ws.found : Selects(ws.found[k])})

\* The flow a name of the configured order stands for: the last one of that name.
ByName(selected, name) == Last(Picked(selected, {k \in DOMAIN selected : selected[k].name = name}))

OrderRefused(selected) ==
    \/ \E name \in ToSet(ws.order) : \A f \in ToSet(selected) : f.name # name
    \/ ~IsInjective(ws.order)

applyOrder(selected) ==
    [k \in DOMAIN ws.order |-> ByName(selected, ws.order[k])]
        \o Picked(selected, {k \in DOMAIN selected : selected[k].name \notin ToSet(ws.order)})

Count == IF request.all > 0 THEN request.all ELSE IF request.split > 0 THEN request.split ELSE 1

\* Why a plan is refused: an order cannot be kept by shards, and every shard needs
\* a device, and a split something to run.
PlanRefused ==
    \/ Count > 1 /\ (fixed > 0 \/ Len(request.devices) < Count)
    \/ Count > 1 /\ request.split > 0 /\ Len(roots) < Count
    \/ Count = 1 /\ Len(request.devices) > 1

RootsOf(shard) ==
    IF request.all > 0 THEN roots
    ELSE Picked(roots, {k \in DOMAIN roots : (k - 1) % Count = shard - 1})

\* The first shard takes the base port, another one the operator's or an ephemeral
\* one, which may be the base port again; a clash is refused.
BasePort == 1
PortsOf == {ports \in [1..Count -> 1..3] :
    /\ request.operator = <<>> => ports[1] = BasePort
    /\ request.operator # <<>> => ports = request.operator}
Clash(ports) == ~IsInjective(ports)

Refuse == exit' = "failure" /\ job' = "ended"
KeepPlan == UNCHANGED <<ws, request, fixed, chosen, roots>>

\* Files that cannot be read or parsed, an unknown name in the order, nothing to run.
Discover ==
    /\ job = "discover"
    /\ \/ Refuse /\ UNCHANGED <<chosen, roots, fixed>>
       \/ /\ chosen' = filterByTags /\ chosen' # <<>> /\ ~OrderRefused(chosen')
          /\ roots' = applyOrder(chosen') /\ fixed' = Len(ws.order)
          /\ job' = "prepare" /\ UNCHANGED exit
    /\ UNCHANGED <<ws, request, shards, shardVars, interrupted, merged, runError>>

\* Every selected flow is compiled before any device is touched; then the shards
\* are planned and given ports.
Prepare ==
    /\ job = "prepare"
    /\ \/ Refuse /\ UNCHANGED <<shards, position, next, got>>
       \/ \E ports \in PortsOf :
            /\ ~PlanRefused /\ ~Clash(ports) /\ Len(request.operator) \in {0, Count}
            /\ shards' = [i \in 1..Count |-> [roots |-> RootsOf(i), port |-> ports[i],
                 device |-> IF i <= Len(request.devices) THEN request.devices[i] ELSE "any"]]
            /\ position' = [i \in 1..Count |-> "open"]
            /\ next' = [i \in 1..Count |-> 1] /\ got' = [i \in 1..Count |-> <<>>]
            /\ job' = "shards" /\ UNCHANGED exit
    /\ KeepPlan /\ UNCHANGED <<troubles, driving, taping, finalized, interrupted, merged, runError>>

-----------------------------------------------------------------------------
\* The shards.  A shard's own error is that of anything that went wrong in it.
Trouble(i) == troubles' = troubles \cup {i}
Goto(i, place) == position' = [position EXCEPT ![i] = place]
Running(i, place) == job = "shards" /\ position[i] = place
KeepJob == UNCHANGED <<planVars, job, interrupted, merged, runError, exit>>

\* The share is compiled again, a driver chosen and opened: Open leaves nothing
\* behind when it fails (DriverContract).
OpenSession(i) ==
    /\ Running(i, "open")
    /\ \/ Trouble(i) /\ Goto(i, "done") /\ UNCHANGED driving
       \/ ~interrupted /\ driving' = driving \cup {i} /\ Goto(i, "record") /\ UNCHANGED troubles
    /\ KeepJob /\ UNCHANGED <<next, got, taping, finalized>>

StartRecording(i) ==
    /\ Running(i, "record")
    /\ \/ Trouble(i) /\ Goto(i, "finalize") /\ UNCHANGED taping
       \/ /\ taping' = IF request.record THEN taping \cup {i} ELSE taping
          /\ Goto(i, "run") /\ UNCHANGED troubles
    /\ KeepJob /\ UNCHANGED <<next, got, driving, finalized>>

Over(i) == next[i] > Len(shards[i].roots)

\* A failing flow stops the rest where the order is fixed, unless the config says
\* to go on, and everywhere once the run was interrupted.
RunRoot(i) ==
    /\ Running(i, "run") /\ ~Over(i)
    /\ LET root == shards[i].roots[next[i]].path
       IN  \/ /\ ~interrupted
              /\ got' = [got EXCEPT ![i] = Append(@, [path |-> root, passed |-> TRUE])]
              /\ UNCHANGED <<troubles, position>>
           \/ /\ got' \in {got, [got EXCEPT ![i] = Append(@, [path |-> root, passed |-> FALSE])]}
              /\ Trouble(i)
              /\ IF (next[i] <= fixed /\ ~ws.goOn) \/ interrupted THEN Goto(i, "finalize")
                 ELSE UNCHANGED position
    /\ next' = [next EXCEPT ![i] = @ + 1]
    /\ KeepJob /\ UNCHANGED <<driving, taping, finalized>>

FlowsEnd(i) ==
    /\ Running(i, "run") /\ Over(i) /\ Goto(i, "finalize")
    /\ KeepJob /\ UNCHANGED <<next, got, troubles, driving, taping, finalized>>

\* Recordings and the driver are ended under contexts of their own, which the
\* interrupt of the run does not end.
CleanupOfTheRun == ~interrupted
CleanupRuns == TRUE

FinalizeRecording(i) ==
    /\ Running(i, "finalize") /\ Goto(i, "close")
    /\ IF i \notin taping THEN UNCHANGED <<taping, finalized, troubles>>
       ELSE /\ taping' = IF CleanupRuns THEN taping \ {i} ELSE taping
            /\ \/ finalized' = finalized \cup {i} /\ UNCHANGED troubles
               \/ Trouble(i) /\ UNCHANGED finalized
    /\ KeepJob /\ UNCHANGED <<next, got, driving>>

CloseShard(i) ==
    /\ Running(i, "close") /\ Goto(i, "done")
    /\ driving' = IF CleanupRuns THEN driving \ {i} ELSE driving
    /\ (Trouble(i) \/ UNCHANGED troubles)
    /\ KeepJob /\ UNCHANGED <<next, got, taping, finalized>>

Interrupt ==
    /\ job = "shards" /\ ~interrupted /\ interrupted' = TRUE
    /\ UNCHANGED <<planVars, job, shardVars, merged, runError, exit>>

-----------------------------------------------------------------------------
\* Merged in the order of the shards, a failing shard's results too.
MergedShards == Shards
LastError(i) == i = Len(shards) /\ i \in troubles
FirstError(i) == i \in troubles

executeShards ==
    /\ job = "shards" /\ \A i \in Shards : position[i] = "done"
    /\ merged' = FlattenSeq([i \in Shards |-> IF i \in MergedShards THEN got[i] ELSE <<>>])
    /\ runError' = (\E i \in Shards : FirstError(i))
    /\ job' = "report"
    /\ UNCHANGED <<planVars, shardVars, interrupted, exit>>

AllPassed == merged # <<>> /\ \A k \in DOMAIN merged : merged[k].passed

\* No result at all is a failure, and so is a report that could not be written.
Report ==
    /\ job = "report" /\ job' = "ended"
    /\ \/ exit' = IF AllPassed /\ ~runError THEN "ok" ELSE "failure"
       \/ request.report /\ merged # <<>> /\ exit' = "failure"
    /\ UNCHANGED <<planVars, shardVars, interrupted, merged, runError>>

ShardStep(i) ==
    \/ OpenSession(i) \/ StartRecording(i) \/ RunRoot(i) \/ FlowsEnd(i)
    \/ FinalizeRecording(i) \/ CloseShard(i)

\* What goes on by itself; the interrupt is the operator's.
TestStep == Discover \/ Prepare \/ executeShards \/ Report \/ \E i \in Shards : ShardStep(i)

TestNext == TestStep \/ Interrupt

TestSpec == TestInit /\ [][TestNext]_testVars

-----------------------------------------------------------------------------
PathsOf(flows) == {flows[k].path : k \in DOMAIN flows}
Passing(results) == {results[k].path : k \in {j \in DOMAIN results : results[j].passed}}

\* Exit code 0 means that everything planned ran and passed, on every shard that
\* was to run it, and that every recording asked for was finalized: no error of a
\* shard, no missing result and no interrupt is lost between the shards and the
\* exit code (test_runner.go, executeShards and runOnce).  What the filters selected
\* is what is planned, unless two flows share a name that the order mentions.  Every
\* result a shard produced is merged, whatever failed in it or beside it, and no driver
\* and no recording outlives the run, not even one that was interrupted.
VerdictCoversRun ==
    /\ exit = "ok" =>
          /\ \A i \in Shards : Passing(got[i]) = PathsOf(shards[i].roots) /\ (request.record => i \in finalized)
          /\ UNION {Passing(got[i]) : i \in Shards} = PathsOf(roots)
          /\ request.all > 0 => \A i \in Shards : Passing(got[i]) = PathsOf(roots)
          /\ IsInjective([k \in DOMAIN chosen |-> chosen[k].name]) => PathsOf(roots) = PathsOf(chosen)
    /\ job \in {"report", "ended"} =>
          /\ LET produced[i \in 0..Len(shards)] ==
                     IF i = 0 THEN 0 ELSE produced[i - 1] + Len(got[i])
             IN  Len(merged) = produced[Len(shards)]
          /\ driving = {} /\ taping = {}
=============================================================================
