# TLA+ verification of FlowBaton

FlowBaton runs UI flows written in YAML against Android, iOS and web devices.
It is two programs in one binary: an **engine** that executes compiled flows
against a driver on the same machine, and a **remote runtime** (`flowbaton
serve`) that leases devices to clients over HTTP, keeps every decision in
PostgreSQL and survives the loss of any of its processes.  The modules here
model the parts of both that decide *what happens in which order*, and check
and prove that those decisions are right.

All paths below are relative to `src/`.

1. [Inventory](#1-inventory)
2. [Modules](#2-modules)
3. [Runs](#3-runs)
4. [Bounds](#4-bounds)
5. [Fairness](#5-fairness)
6. [Proofs](#6-proofs)
7. [Disagreements found](#7-disagreements-found)
8. [Only model-checked, and not modelled](#8-only-model-checked-and-not-modelled)
9. [Plan](#9-plan)

## 1. Inventory

`PROJECT.json` lists every component with its sources and its status, and every
hazard at its line with the properties that look for it.

### 1.1 The remote runtime

| component | state it keeps | operations | talks to |
|---|---|---|---|
| node registry (`internal/sessionstore/postgres.go`) | `flowbaton_nodes`: epoch, lease, readiness; owner columns of `flowbaton_devices`; the `NodeLease` in each process's memory | RegisterNode, ActivateNode, HeartbeatNode, DeactivateNode, RegisterDevice | PostgreSQL only |
| session store (`postgres.go`, `execution.go`, `schema/`) | sessions, input jobs, frame jobs, stored frames, events, idempotency rows, token nonces | Acquire, Apply (input, heartbeat, cancel, release, reconnect), MarkDisconnected, ClaimFrame, CompleteFrame, ClaimInput, StartInput, CompleteInput, ExpireSessions, RecoverAmbiguousInputs, WaitForExecutionQuiescence, event reads | node registry (fences every write) |
| serve process (`internal/cli/serve_runtime.go`, `internal/server/run.go`) | a cancellable context, the result channels, counters, readiness flag, open drivers | bootstrap, supervisor of the lease, maintenance loop, HTTP server, workers, shutdown | all of the above |
| worker (`internal/server/worker.go`) | the claim in hand | poll, claim, start, call the driver, report | store, device executor |
| device executor (`internal/server/executor.go`) | none | one driver call for one input | driver |
| HTTP and event API (`internal/server/handler.go`) | open connections | commands, event stream, frames | store, authentication |
| authentication (`internal/auth`) | key set | token signing and verification | store (nonces) |
| device-session contract (`contracts/device-session/v1`) | none | validator of event logs and messages | tests, clients |

Hard here: every process may stall between any two calls and go on with what it
remembered; transactions of several workers interleave at READ COMMITTED; a
claim lapses while its holder is merely slow; a request, an expiry, a
cancellation and a report compete for the same row; a process dies inside a
physical call.  What makes it correct: one holder per device, fenced by epoch
and generation; at most one start and exactly one outcome per input; no input
starts on pixels older than the last outcome; nothing survives a released
session and nothing follows its `released` event; a device rests until no older
call can be running; a process that lost its node stops, and one that stops
leaves no goroutine, no open driver and no early close behind.

### 1.2 The engine

| component | state it keeps | operations |
|---|---|---|
| flow execution (`internal/engine/flow_executor.go`, `executor_core.go`, `session.go`, `retry_handler.go`, `repeat_handler.go`, `run_flow_handler.go`, `failure_policy.go`, `errors.go`, `results.go`, `result_ledger.go`) | call stack, scope frames, active application, poison error, timeline, ledger of results | run a root: hooks, sequences, retry, repeat, runFlow, scopes, cancellation |
| commands (`tap_handlers.go`, `lookup.go`, `assertion_wait_handlers.go`, `settle.go`, `wait.go`, ...) | none between commands | element lookup, waits, gestures, assertions |
| compiler (`compiled_program.go`, `program.go`, `decoder.go`) | the program, immutable once built | links flows, refuses cycles |
| parser and model (`internal/flow`, `internal/model`) | none | YAML with positions |
| JavaScript runtime (`internal/js`) | environment scopes, interrupts | evaluate, set, HTTP |
| matching, hierarchy, image and JSON checks | none | pure functions |

Hard here: an error can come from a command, its arguments, a condition, a
scope, a hook or the session itself, in any order and at any depth, while the
context may end at any point; each layer keeps, replaces or swallows it.  What
makes it correct: scopes and the active application nest whatever happened
inside; completion hooks run unless the session is poisoned; the root reports
its worst failure; cancellation is reported as such; the results a reader keeps
are those of the last attempt; every run ends.

### 1.3 Runner, drivers, tools

| component | state | hard because of |
|---|---|---|
| test runner, sharding, ports, continuous mode (`internal/cli`) | plans, ports, results of shards, file stamps | shards at once, an interrupt, recordings that fail, edits during a run |
| start-device (`internal/cli/start_device.go`) | the device being created and booted | emulators of one name come and go while one is waited for |
| other command line and MCP (`cmd/flowbaton`, `internal/cli`) | options, cached sessions | wiring |
| Android driver (`internal/android`) | adb processes, forwards, installed packages | half-open rollback, recordings |
| iOS simulator driver (`internal/ios`) | managed runner process | start-up budget, exits read twice |
| iOS hardware driver (`internal/iosdevice`) | tunnel, runner, recordings | restart of a recording |
| web driver (`internal/web`) | Chrome, a multiplexed DevTools connection | replies racing cancellation and failure |
| driver assets (`internal/assets`) | archives under a file lock | two processes acquiring at once, a kill in between |
| explore (`internal/explore`) | scenario memory, observations, budgets | checks on a screen that has changed since; plans that were tried before |
| AI engine, reports, workspace discovery, capability tables, build facts | none | formatting and pure selection |

What makes them correct: a driver that is opened is closed once and leaves
nothing behind that it did not try to remove; nothing waits for a child that is
gone; a verdict covers everything that was planned; an edit leads to a run; an
asset that is used is whole; what is reported rests on evidence that stands.

## 2. Modules

### 2.1 How they fit together

```
the remote runtime
  NodeLease ──► SessionStore ─┬─► ConcurrentClaim ─┐  (claims at READ COMMITTED)
   registry      transactions ├─► SessionContract ─┴─► MCConcurrentClaim
                              ├─► Quarantine           (driver calls that outlive a process)
                              └─► SessionRefinement ──INSTANCE──► FencedDevice
  ServeRuntime    one serve process, its goroutines and channels
  EventFeed       the event streams of one session                       ┐
the engine                                                               │
  FlowExecution   one root run                                           │
  CommandForms ─► CommandRun     the leaf commands of a flow  ┐          │
  ScrollSearch    scrollUntilVisible                          ├► MCCommands
  ProgramClosure  preflight and compilation                   │          │
  ErrorClass      how an error is read                        ┘          │
runner, drivers, tools                                                   ├► MCHost
  TestRun, WatchLoop, StartDevice, AssetCache, ScriptRuntime,            │
  ScenarioRun, ExploreSession                                            │
  Drivers = AndroidDriver | ManagedRunner | HardwareDriver | WebDriver   │
            + CdpConnection + Captures ──INSTANCE──► DriverContract      ┘
```

An arrow is EXTENDS unless it says INSTANCE.  `MC*` modules hold the instances
for TLC, `*_proofs` modules the proofs.  Two of them compose machines that share
no state in the program: a behaviour of MCCommands is a behaviour of the machine
that `which` names, one of MCHost of the machine that `who` names (and, for
`"drivers"`, that `platform` names).  The variable never changes, the other
machines keep their first values, and so each run is the disjoint union of the
runs of its machines.

Definitions marked *Mutant* in a comment are plausible bugs of the definition
that follows them; nothing uses them.  They are there so that each property can
be tried against a broken model.

### 2.2 NodeLease

`node[n]` is the row of `flowbaton_nodes` (epoch 0: no row; `ttl` counts down
database time in heartbeat intervals), `lease[p]` what process `p` holds in
memory, `owner[d]` the owner columns of a device.  RegisterNode, ActivateNode,
HeartbeatNode and DeactivateNode are the transactions of that name; TakeDevice
is RegisterDevice as far as ownership goes; Exit is a process that is gone;
Tick is time.  A process that slept through a takeover simply still has its
`lease[p]`, and every action may be taken with it.

### 2.3 SessionStore

One action per transaction.  `session`, `device`, `job`, `frame`, `content`,
`events` and `idem` are the tables; `inputWork` and `frameWork` are all claims
that were ever handed to a worker, so that a report may come late, twice, or
never.  Inputs are numbered in the order they are enqueued.  Time reaches a session by
SessionLapse, which may happen at any moment (lease or token binding over), and
a claim lapses likewise: the clock of the database is not related to the speed
of workers.

| action | code |
|---|---|
| RegisterIdleDevice, RegisterHeldDevice | RegisterDevice without and with an open session to re-adopt |
| Acquire, AcquireExpired | Acquire of a free device, and of one whose session ran out (it is ended in the same transaction) |
| EnqueueInput, Heartbeat, Cancel, Release, Reconnect | Apply, one action per command kind |
| MarkDisconnected | the same |
| ExpireSession | expireSessionTx, as ExpireSessions and every call that finds a lapsed session run it |
| ClaimFrame, CompleteFrame, FailFrame | ClaimFrame, CompleteFrame, finishFrameWithError |
| ClaimInput, StartInput | the same (atomic here, see ConcurrentClaim) |
| CompleteInput, CompleteInputExpired | CompleteInput, on a live and on a lapsed session |
| RecoverAmbiguousInput | RecoverAmbiguousInputs, one input at a time |

Left out: payloads, tenants (one), token nonces, and the reads (frame bytes,
event batches).  A request that is repeated with its idempotency key finds the
row of `idem` and changes nothing; the keys of different requests are given by
`KeyOf`, so that a clash of keys can be modelled by a different constant.

### 2.4 ConcurrentClaim

ClaimInput is one UPDATE whose choice of row is answered by the snapshot of the
statement and rechecked only on the row it locks.  StartClaim takes the
snapshot of a claimer; FinishClaim locks a row that is still as the recheck
wants it and writes; ClaimNothing ends without one.  All other transactions are
those of SessionStore, interleaved between the two.

### 2.5 Quarantine

Adds `calling`, the driver calls in progress, and `openDriver`, the drivers a
process has open.  A call outlives the process that made it: EndCall is only
bound by the operation window, which WaitForExecutionQuiescence and
RecoverAmbiguousInputs measure from the start of the input and which the model
turns into "the calls for this input are over" (WindowOver).

### 2.6 FencedDevice and SessionRefinement

FencedDevice is what the runtime promises, in six variables and five actions and
with no word of leases, claims, frames or epochs: a device has one holder, a
holder never comes back, an input starts at most once and alone, and a device
that changes hands has nothing unsettled.  SessionRefinement maps the tables to
it (`holder` from `device[d].current`, `past` from the sessions that exist,
`queued`, `started`, `settled` from the state of the jobs).

### 2.7 ServeRuntime

The main goroutine of `Run` is the program counter `main`; the supervisor, the
maintenance loop, the HTTP server and the workers are goroutines with a place
of their own; `results`, `ready`, `joinable` and `started` are the channels,
`cancelled` is `runCtx`.  Every call may fail at every point.  The node's row
is reduced to what the process can notice of it: registered, ready, withdrawn,
or lost to another incarnation.

### 2.8 FlowExecution

`stack` is the Go call stack: a flow frame is a call of executeFlowLifecycle, a
command frame one of runCommandSpan.  The program is a constant (`Command`,
`Flow`), since it is compiled before the session exists, and so are the errors
each command can produce: a run is every choice among them.  Errors are the
classes of `errors.go`.  Finish is normalizeTerminalError followed by
ClassifyOutcome and the row; Return hands the surfaced error to the caller,
which keeps the first one (nested flows) or the weightiest (the root).

Abstractions, each because nothing else in the code depends on what is left out:
an inline runFlow is a flow with a body and no hooks; `Row.parent` is the
composite that a row belongs to, which the code has only in its call stack;
the failure resolver is a free choice (the command line leaves it nil, where
every failure halts); the controller, which the command line wires to a no-op,
artifacts, metadata, listeners and the environment stack are left out, and so
is DeviceConnectionError, which only tests construct.  A session is poisoned
when a setter of the script runtime fails, which a script that freezes the
`flowbaton` object can bring about.  A driver that meets its own deadline
returns a context error and counts as "cancelled", as it does in the code.

### 2.9 SessionContract

validateEvents of `contracts/device-session/v1/semantics.go` as a fold over the
log in the order of its numbers: what the validator knows of the session after a
prefix (`Fresh`, and one operator per event type), and whether a rule was broken.
It EXTENDS SessionStore and is run on the logs the store writes, which nothing
in the repository does.

### 2.10 EventFeed

`handler.events` for two streams over one session: a stream reads its batch,
asks for the status in a second statement when there was none, waits, checks its
token again, writes, and, when its transport is gone, records the disconnect
late.  Meanwhile the session writes events, disconnects, reconnects with a new
token binding, and is released.

### 2.11 CommandForms and CommandRun

CommandForms says which authored commands compile and what the handler of each
does, as a sequence of stages (look up, aim, touch, settle, wait, evaluate, call
the driver, ...).  CommandRun executes one command after the other: `Begin`
takes one of the flow, `Evaluate` interpolates it, each stage of its handler is an
action, and `Ends` is what runHandler makes of the error.  The screen is where the
target stands, or nowhere; it changes by itself,
driver calls fail or take time, the context may end, the application may die and
the device may be turned between a look and a touch.

### 2.12 ScrollSearch

scrollUntilVisible with the course of `interaction_scroll_course.go`: distances
along one axis as integers, a drag that may slip, the halved step when the course
turns back, the centring, the recheck and the hit test.

### 2.13 ProgramClosure

capability.Check walks the files of the roots depth first through a loader that
records what it reads (`canonical`, `documents`), inspects each flow against the
registry of supported features, and refuses active cycles; compileProgram then
compiles flows after those they link, from the recorded documents only.  An
editor may save a file at any moment of it.  A flow's commands are one list, in
the order in which a walk of the tree meets them; instead of its parents a
command carries the platforms that the conditions around it name (`within`),
which is all the walks of `inspectFlow` and `collectLinks` make of the tree.

### 2.14 ErrorClass

A graph of errors is built one error at a time (plain, wrapped, joined, tied into
a cycle, with methods that panic); the traversal of `inspectTerminalError` with
its bound on depth says what it is read as: `Level` is one level of it, for every
error and every set of errors on the way to it, and `Inspect` is the levels one
below the other.

### 2.15 TestRun and WatchLoop

TestRun is one pass of `flowbaton test`: discovery, filters and order, the plan
of shards with their ports, one machine per shard (open, record, run flows,
finalize, close), an interrupt at any point, the merge, the exit code.  WatchLoop
is the loop of `--continuous` around the reads such a pass makes: the stamps
taken before, the selection, the compilation, the widened watch set, and the
editor.  A file has two paths there, the one a root gives it and the one the
loader resolves: they are the same unless the root is relative or leads through a
symbolic link (`aliased`), and stamps are kept by path, as in the code.  Once it
has compiled, a pass may still be refused, by its plan or its ports, and run
nothing.

### 2.16 ScriptRuntime

Evaluate, with the environment laid over the interpreter's globals for the
length of one evaluation, and the context whose end interrupts from a goroutine
of its own; PushEnv, PopEnv, PutEnv, HTTP requests and Close in between.

### 2.17 AssetCache

Manager.Acquire by two processes: lock, look at the manifest, verify, remove
left-overs, download or extract into a sibling, verify, rename, write the
manifest.  A process may be killed at each of these, and the published tree may
be damaged from outside.

### 2.18 ScenarioRun and ExploreSession

ScenarioRun is one scenario of an exploration: replies of a model with tool
calls, the observation after each, the supervisor's reviews, and the judge on
the last screen.  ExploreSession is the session around it: mapping, planning,
walking to a start screen, running (a scenario is one step with any result),
relaunching, reporting.

A scenario starts from the observation the crew holds.  After a walk that did not
reach the start screen that is an older one, and ScenarioRun begins with any pair
of screens (`astray` where they differ).  The application moves while a tool acts
or waits, and not between the calls: an observation says what was shown when it was
taken, and a property of the screen shown needs it to stay.
Names of scenarios have no end: FreshName is a name that is always new, as the
planner's filter knows scenarios by their names only.

### 2.19 StartDevice

Creation, launch and waiting of `start-device`, for simulators and emulators,
with other emulators of the host going up and down.

### 2.20 Drivers and DriverContract

Four drivers, each with its Open and Close as a program counter `at`, the
resources that exist (`held`) and those whose removal was called (`tried`); each
call of adb, xcodebuild, the tunnel or Chrome may fail, and the context may end
between any two.  CdpConnection is the multiplexed connection of the web driver
with its waiting map and slots, Captures the recordings and logs of a run on the
three drivers that have them.  The segments of a stdio capture are merged when it
ends; a merge that fails leaves them and the part that was written on the host
(`unmerged`), with the capture already forgotten.  DriverContract is what DeviceSession.Execute
relies on: an Open that fails, and Close, undo everything, except what they
called the removal of in vain.  Drivers maps `at` to its phases.

## 3. Runs

| run | config | states | what it asks |
|---|---|---|---|
| `concurrent_claim` | MCConcurrentClaim | 1.0 M | A session with two inputs that may be queued together, overlapping claim statements, and one turn in its course (a reconnect, a heartbeat, or a takeover with its recovery): what holds even while two inputs are claimed at once. |
| `refinement` | MCSessionRefinement | 1.1 M | Two sessions one after the other, or one with turns in its course, atomic claims: the store implements FencedDevice, step by step. |
| `restart` | MCQuarantine | 0.43 M | Two incarnations of a node, the first of which stalls or dies inside a call: takeover, recovery, when the drivers open, and the liveness of inputs and sessions. |
| `serve` | MCServeRuntime | 3.3 k | One process with two workers and two drivers, any call failing: no deadlock (checked), order of the teardown, shutdown and lost lease lead to a return. |
| `flow_execution` | MCFlowExecution | 0.13 M | Two programs with every kind of composite, any command failing, the context ending anywhere: scopes, hooks, root failure, cancellation, ledger, termination. |
| `commands` | MCCommands | 0.70 M | The machines of the engine below the flow (2.11 to 2.14). |
| `host` | MCHost | 0.90 M | The machines of the host side (2.10, 2.15 to 2.20). |
| `stranded`, `claim_race`, `watch_gap`, `blind_start`, `contract_ack` | | small | Each refutes one sentence of the repository; see section 7. |

What the properties say, by run:

- `concurrent_claim`: **OutcomeOnce** (an input has one outcome, whoever writes it,
  and job, log and idempotency row agree on it), **FrameOwedOrShown** (an active session shows a
  frame later than every outcome, or has a job that will bring one or is
  blocked), **ReleaseDrains** (a released session has no unfinished input, frame
  job or stored frame), **LogMeetsContract** (the validator of the contract accepts
  every log: no gap, life cycle in order, frames upwards stream by stream,
  nothing after the release), **OverlapNeverReruns**.
- `refinement`: **SerialInputs** (with atomic claims one input of a session is in
  hand), **ImplementsFencedDevice**.
- `restart`: **EpochHeldOnce** (no two processes hold one epoch of a node),
  **RowsFollowOwner** (session, inputs and frame job carry their owner's epoch),
  **NoRerun**, **OpensAfterOlderCalls**, **ExecutingFinishes**, **ExpiryReleases**.
- `serve`: **ClosedAfterUse** (a driver is closed after everything that uses it
  has ended), **ShutdownCompletes**.
- `flow_execution`: **ScopesNested**, **CompletionHooksRun**, **RootReportsWorst**,
  **ResultsStandOnce**, **CancellationReported**, **RunEnds**.
- `commands`: **EveryBatchIsAimedAnew** (a tap, also a repeated one, goes where the
  target was found after whatever the command did before), **PassIsObserved** (a
  command passes on what it saw itself), **ScrollKeepsSight** (a search follows a
  target in sight), **ProgramIsWhole** (a compiled program is closed under links and
  from one reading of each file, whatever is saved meanwhile), **WorstCauseWins**
  (no wrapping and no joining hides a cancellation, a lost device or a
  misconfiguration within the bound on depth), **CommandsEnd**.
- `host`: **EvidenceStands** (the judge is told of what was measured on the screen
  shown, unless the run was handed an older one and has not looked since; every
  result is written) and **NoMissIsChasedAgain** (explore), **VerdictCoversRun**
  (test runner), **LastEditIsRun** (no save is missed by what a pass compiles, nor by
  what it selects where the roots give the loader's paths), **ScriptSeesItsScope** and
  **InterruptHitsOwnEvaluation** (script runtime), **StopNeverWaitsForTheDead**
  (managed runner), **CapturesAccounted** (recordings and logs: nothing runs on unknown, and each log is
  whole, removed or kept unmerged),
  **ImplementsDriverContract** (the four drivers), **StartedIsReady**,
  **StreamKeepsToItsToken** (event streams), **AcquiredIsWhole** (assets), **HostEnds**
  (each of these machines comes to rest, or a planner goes on for ever proposing what
  was missed already).

Each property is stated in words above its definition.  `PROJECT.json` pairs
each property of each passing run with a mutant, and TLC finds every one of
those violated under the run's own configuration, so none of the runs is blind
to the property it checks.

## 4. Bounds

| bound | in the code | in the runs | why it is enough |
|---|---|---|---|
| processes, nodes | any | 1 node; 2 processes in `restart`, 1 elsewhere, which may be its own successor | who owns a device is decided in NodeLease alone (theorem StoreKeepsRegistry), and the proofs of section 6 cover any number |
| devices | any | 1 | transactions lock one device and its session |
| sessions | any | 1, or 2 in `refinement` | sessions meet only in their device, one after the other |
| NumInputs | any | 2 where order, claims or frames between inputs matter (`concurrent_claim`, `refinement`, `claim_race`), else 1 | a hazard of two inputs needs two; the proofs cover any number |
| MaxEpoch | any | 2; 1 in `stranded`, `claim_race` | one takeover, with calls of the former epoch still under way |
| LeaseTerm | 3 heartbeats | 2 in `restart`, `stranded`; else 1 | with 2, a process can stay alive by heartbeats; with 1 it may be overtaken at any time |
| MaxStream | any | 2 where sessions reconnect, else 1 | one reconnect makes a call of the former stream late |
| MaxClaims | any | 2 in `restart`, else 1 | one lapse; the reports of both claims are then under way |
| MaxFrameAttempts | 3 | 1 or 2 | 2 shows a retry and then a block |
| MaxPendingInputs | 64 | 1, or 2 | as many as there are inputs: the limit refuses a request without effect, and no property is about it |
| MaxEvents | no limit | 2, or 0 | bounds heartbeat events only |
| MaxTurns (CONSTRAINT FewTurns) | no limit | 2 in `refinement` (a later session, a later incarnation, a later stream, a heartbeat; the first session counts), 1 in `concurrent_claim` | every pair of a session's life with one such turn, and not all of them together, which no property distinguishes and which would multiply the states by twenty |
| Workers, NumDrivers | 1 to 32, any | 2, 2 | one worker inside a call while the other has ended; one driver open while the other fails |
| MaxSpans | no limit | 17 | exactly what the two programs need at most: with 16 a run cannot finish and RunEnds fails |
| Spots, Timeouts, Samples, Required, Optional, MaxRepeat | coordinates, milliseconds | one place and none, {0, 2}, {1, 2}, 2, 1, 2 | a clock counts the looks a deadline admits; a deadline of no time, of one look and of more; a first and a repeated tap |
| Height, Size, Reach, MinStep, CoveredStep, MaxLooks | pixels | 5, 3, 5, 1, 1, 3 (1201 in the code) | a target above, in, below and across the viewport, further away than a step and nearer than one; MaxLooks allows one turn of the course |
| FileTrees, MaxEdits | any | webs of three flows with every choice of links for two of them, a symbolic link among the targets, and flows that differ in what they ask of a platform; 1 save | one save between any two reads; spellings, cycles, diamonds and a missing file |
| MaxErrors, MaxTraversalDepth | any, 128 | 4, 3 | a graph may be deeper than the bound |
| MaxStepsPerTest, MaxCalls, PilotCadence, MaxTests | options of the caller; any | 2 each | a call after a call, a review between replies, a second test after a miss |
| Catalog, FreshName | any | three named scenarios and one under a name that never repeats | repeated names, a plan of nothing new, and a planner that does not run out of names |
| UnderRoots, `aliased` | any | both files, or "main" alone in `watch_gap`; named by either path | a file in and out of the roots, under one and under two names |
| MaxSaves | any | 2 | a broken save and its repair |
| Users | any | 2 | one at the lock, one inside |
| MaxEvaluations, MaxScopes | any | 3, 1 | a late alarm meets the next evaluation, and a third sees what it left |
| Attempts (of the runner) | a start-up budget | 3 | start, busy, started again, out of budget |
| Callers of a connection | any | 2 | a reply for one and a failure for the other |
| MaxStarts | any | 3 | a capture started again, and a launch in between |
| Emulators, Boots | any | 2, 2 | the one asked for and another; one goes down and up again |
| Streams, MaxBatch, MaxLog, MaxBindings | any, 64, any, any | 2, 2, 4, 2 | an old and a new stream; a batch that does not end the log |

Apart from these the models are unbounded.  Deadlock is checked in `serve`,
whose only halt is the process's return.  The other systems may really stop: a
run, an acquisition or a preflight ends, and under the bounds everything is
settled or nobody is left to act.

## 5. Fairness

- `restart` and `stranded` (WorkerSpec): ExpireSession, since the maintenance loop of any
  live process sweeps (`serve_runtime.go`); Tick, since time passes; EndCall,
  since a driver call has an operation deadline; Report, since finishInput runs
  under a context without cancellation; Recover, since the maintenance loop also
  recovers.  Nothing is assumed of clients, of heartbeats (a process may stall
  for ever), or of claims.
- `serve` (FairSpec): every goroutine that can move does, calls return, and a
  heartbeat on a lost row fails.  Interrupts and lost leases are not fair: they
  may never come.
- `flow_execution` (FairSpec): weak fairness of Step, because every handler,
  wait and driver call returns at a deadline of its own or with the context.
  Cancel is not fair.
- `commands`: one weak fairness condition on the step of the machine that
  `which` names (`GoesOn`): stages return, looks and sleeps take time until a
  deadline.  The screen, the application, the editor and the end of the context
  are not fair.
- `host` (`Fairness`): the machine that `who` names goes on with its own code
  (`GoesOn`), its deadlines pass and what it killed dies (`InTime`), each call of
  the connection is answered or told of its failure, each stream of the event feed goes on.  The editor, the
  operator who interrupts, a script that loops, a process that is killed and
  the end of the caller's context are not fair (that of a start-up or clean-up
  budget is a deadline): an evaluation ends because its interrupt is delivered,
  never because its script ends.  HostEnds does not promise the end of a session
  whose planner fills plan after plan with what was missed already (PlanIsFutile):
  nothing in RunSession counts those (section 7).

All other runs check safety and assume nothing.

## 6. Proofs

52 theorems, in seven modules, for every value of the constants; an eighth,
Recursion, holds lemmas only.

| module | theorems | argument |
|---|---|---|
| SessionStore_proofs, registry | NodeTypeCorrect, FencingEpochs, LiveOwner, HolderWithdraws | `NodeInv`: types, EpochHeldOnce, and EpochsIssued (a lease or an owner carries an epoch that the node has given out). Without the last, a next epoch could collide with one that somebody still remembers. |
| SessionStore_proofs, store | StoreTypeCorrect, StoreKeepsRegistry, DeviceAndSession, Generations, EpochsAgree, NothingLeftBehind, OneInputAtATime, StartedOnce, StartsUnderTheFence, EndIsFinal | `TypeInv`: types and LogBounded (the numbers in the log are below some bound, so that a highest one exists). `StoreInv` = `StoreCore` and OneInHand. StoreCore: SessionsPlaced and JobsPlaced (every row points at rows that exist), DeviceHoldsItsSession, GenerationsUnique, RowsFit (epochs agree), ReleaseDrains. They depend on each other: that a late report finds a foreign claim follows from the epochs, the epochs from who holds the device. StoreCore is inductive by itself and does not depend on how an input is claimed. |
| SessionStore_proofs, frames | FramesOwed, StartsFresh | FrameOwedOrShown is inductive under StoreInv: every step leaves what it asks about alone (Quiet), leaves a session that is not active or has a frame job (Owed), or stores a frame with the highest number of the log. StartsFresh needs ClaimedWhenShown (a claimed input of the current stream belongs to a session that owes no frame) and OneInHand: between a claim and its start no other input of the session can finish. |
| SessionStore_proofs, refinement | StoreFencesDevices, DevicesExclusive | each action of the store maps to one action of FencedDevice or to a stutter, under StoreInv |
| StoreProcesses_proofs, claims | OverlapLeavesNothing, OverlapKeepsEpochs, StartedOnceForAll, OneOutcomeEach, OverlapKeepsFrames, LogsAreTranscripts | `ConcurrentInv` is StoreCore and the types of the snapshots: an overlapping claim breaks OneInHand and nothing else. OutcomeOnce is then inductive: a step either writes no outcome and finishes no input, or writes one event for each input it finishes, and none of these had one. For the contract the validator is followed beside the rows (`LogInv`): what it knows after the log of a session is the session's row, its stream and its inputs; every event a transaction appends is one it accepts in that state. The fold over the log is opened only at its end, one appended event at a time, so logs may have any length. |
| StoreProcesses_proofs, calls | CallsKeepStore, OpensAfterOlder | `QuarantineInv`: a call in progress executes under the claim it was started with, on its session's node, or its session has been released. The epochs of StoreCore and the wait for quiescence then leave no call but the process's own. Every theorem about Spec holds of the store with its processes, since they take its transactions only. |
| ServeRuntime_proofs | ServeTypeCorrect, RuntimeCounted, ClosesLast, ReturnsClean | `ServeInv`: types, Counted (`runtimeCount` is the number of results still to come), and where the supervisor and the main goroutine can be at the same time. The counter is what lets Drain wait for exactly the right number of goroutines, and the close of the drivers comes after Drain. |
| FlowExecution_proofs | RootWorst, CancellationLasts, FramesNest, HooksRun, ResultsStand | `FlowInv`: the stack is a call stack (the root is its last call and only it, a command has the depth of the sequence that runs it), and at every moment the root's failure outweighs every failure recorded at depth 0. `CallsInv` adds where each kind of call can be. CancellationLasts: once the context has ended, a call on the stack is still executing, and will hand on an error that lasts, or the root already has one (Reported). FramesNest: the open scopes are the flows on the stack that have opened one, in call order, and each remembers the application of the next (ScopeInv). HooksRun: while a flow completes, its hooks are all still to come, or the first is being executed, or it has a row of this entry (HookInv). ResultsStand: beside the calls go the rows of the ledger that belong to each of them (LedgerInv). Rows of earlier runs are reset; the commands of a run still to come, in hand and passed are different commands of the call's own and, unless one failed, all of them; numbers grow along the stack, and a called flow shares the number and the mark of the command that called it. For any program, any depth and any bound. |
| Commands_proofs | BatchesAimedAnew, PassesObserved, ScrollsKeepSight | `CommandInv` for the commands. StepKinds reduces each of the machine's actions to one of eight kinds of step (aside, begin, expand, fail, pass, pop, remain, repeat), so that an invariant is proved kind by kind. AimInv: every touch to come is owed an aim, either by a search earlier in the plan with nothing in between that touches, or by the look just taken; SoughtInv, BannedInv and AwaitedInv say what a command has still to see, or has seen. They hold at the start of a command because of PlansFit: the plan of every command that compiles does what the command asserts, for any number of repetitions. For the scroll, SightInv (a course chosen with the target in sight is the measured one) and Measured (the measured distance leaves part of the target in the viewport). |
| Host_proofs | NoEditMissed, WholeAssets, OwnInterruptsOnly, ScopeSeen, ReadyWhenStarted, NoWaitForTheDead, DriversImplementContract, CapturesEnd, StreamsKeepTheirToken, EvidenceThatStands, MissesAreNotChased | One invariant for each machine of the host side, over that machine's own specification: which edits the stamps of a watcher have and have not, file by file and under either path; who may sweep a directory of the cache (the holder of its lock, and only those of processes that were killed); that nothing interrupts but an evaluation whose context ended, and what lies under the environment of a script; that the last two answers of a look at a device come from one that is ready; where an exit that was received is remembered; what each driver holds, and for whom its removal is still owed, from which its steps map to steps of DriverContract; that what runs and was not told to end is in the table, and what a log is once nobody writes it; how a stream's cursor and channel stand to the log; that a check is of the screen it is filed under, unless that is the one the run was handed; which plans have been tried and what they missed. |
| TestPass_proofs, programs | CompiledProgramIsWhole | `ProgInv`: each flow was read once and was not refused (ReadInv); a flow the walk has left has all its links followed, to flows left before it, so that no set of such flows is without one that links none of the set (BlackInv); the frames of the stack are a path of links, what was read is left or on the stack, and of a frame each link is still to be followed or was (StackInv); every flow read is reached from a root that was walked (RootsInv); a compiled flow stands after its children (CompileInv). The cycle that is refused is closed by the path on the stack. While flows are left to compile, BlackInv for just these gives one whose turn has come, so that `graph_has_cycle` is never met; its links were followed, so neither are the other three. What is saved meanwhile changes `files` only, and of that the invariant says nothing but that it holds files. |
| TestPass_proofs, errors | EngineSeesWorstCause | `Graph`: every error points at errors that were made. Level by level of the traversal (`Reading`): what is found of an error is invalid just if one below it panics or a way of so many errors leads down from it, and is otherwise the worst of the fatal classes below it. A cycle is a way of any length (CycleDescends). That a wrapped failure is read as before needs `Settled`: one level more finds the same where the level before found something. |
| TestPass_proofs, test run | ExitCodeCoversRun | `TestInv`: the plan has the paths of the selected flows, unless two share a name, and each shard the roots its number gives it (PlanInv); a shard without a trouble has passed every root it has come to, is past the last one where it finalizes or closes, and has the recording that was asked for, and whatever went wrong its driver is open and its recording runs only where it still ends them (ShardsInv); once the shards are done the merge holds all their results, and any trouble is the error of the run. That the roots of the shards are together those of the plan is arithmetic on the numbers of the shards. |
| Recursion | | A set of numbers has a least one, from which induction; and a loop over a counter has a history: its values before the first turn and after each. |

Theorems whose hypotheses say more than the assumptions below: NoEditMissed holds
where the named roots contain every file the flows use (what it excludes is
`watch_gap`, section 7), and says of the selection only where the roots give the
loader's paths; EvidenceThatStands leaves out a run that was handed an older screen
(`blind_start`) until it acts or looks; CapturesEnd asks that the value for "no capture" is none of
the captures, and both it and StreamsKeepTheirToken that their bound is a number.
ExitCodeCoversRun asks for InputsListed: what discovery finds and a configuration
orders are lists, and the numbers of shards asked for are no less than none.  MCHost
assumes it of its values (ListsAssumption).

Some theorems (LiveOwner, HolderWithdraws, DeviceAndSession, Generations,
StartsUnderTheFence, EndIsFinal, DevicesExclusive, ReturnsClean) state what no
run checks any more: they were checked first, and are proved for all instances
now.  StartsFresh states what a run checks only where it fails (`claim_race`).

Assumptions, each beside the constants it is about:

- NodeLeaseAssumption, SessionStoreAssumption, ServeRuntimeAssumption,
  FormsAssumption, TimeAssumption, ScenarioAssumption: bounds are numbers, "none"
  values are no members of what they stand beside, workers are finitely many and
  at least one, there is something to show;
- ProgramAssumption, FlowsAssumption, PlansAssumption: programs, flows and scrolls
  have the types of what compiles;
- PositionsAssumption of FlowExecution: a command's position is one place of the
  program, so no sequence has one twice and the three sequences of a flow share
  none; without it two rows of one run could be of the same command;
- SessionAssumption of FlowExecution: only leaves that set something in the script
  runtime can poison the session, as setCopiedText and putEnv do; without it a
  completion hook could be lost to an evaluation;
- SpotsAssumption: "nowhere" and "not looked yet" are no places;
- WorkspacesAssumption of ProgramClosure: what is selected, linked and saved are
  paths of the workspace, "missing" where nothing is there, and what flows and
  commands list are lists;
- DepthAssumption of ErrorClass: the traversal goes at least one level down (128 in
  the code);
- ScrollAssumption: the smallest step is no longer than the viewport, of which it
  is a fraction in the code; without it ScrollsKeepSight is false.

TLC evaluates all of them on each run.

The proofs of SerialInputs and StartsFresh hold for SessionStore, where a claim is
one step; for the interleaved claims both fail (`claim_race`).  What
StoreProcesses_proofs shows of claims holds for both.

Two of the proofs changed the model.  PlansFit failed at first because two cases
of `Plan` overlapped (the AI commands and extractTextWithAI), and a CASE
whose arms overlap means either; TLC had always taken the first.  ScrollKeepsSight
was false where a covered target is smaller than the step taken to uncover it,
which no configuration had; the property now says so, and section 7 names the
place in the code.

What a loop computes for every input is proved by the history of the loop:
Recursion shows once that one exists, from which a function defined by recursion
over a counter has the value the definition gives it, and an induction over its
turns is an appeal to the least number without the property.  Closures are stated
with sets instead (Below, Reaches: what every set that keeps to the links has
with the first), so that nothing in a module with proofs is RECURSIVE.

## 7. Disagreements found

Each of the first five has a run in which TLC finds a behaviour of the code that a
sentence of the repository excludes; the next three were met while modelling.

1. **`stranded`**: a client that reconnects while an input executes changes the
   stream epoch; CompleteInput then answers ErrFenced, the worker drops that
   answer (`internal/server/worker.go:159`), and recovery looks only at earlier
   worker epochs.  The input stays `executing`, without an outcome, for as long
   as the session lives.  `contracts/device-session/v1/README.md:61` promises an
   unknown outcome.
2. **`claim_race`**: two claim statements that overlap hand out two inputs of one
   session, and the second starts on the frame of the first.
   `docs/remote-runtime.md:165`.
3. **`watch_gap`**: a pass that cannot compile returns the stamps of the files
   under the named roots only (`internal/cli/test_runner.go:181`).  A subflow
   outside them that is saved broken is no longer watched, and its repair starts
   no pass.  `internal/cli/continuous.go:22` and `:28`.
4. **`blind_start`**: after a failed walk a scenario is handed the observation from
   before it (`internal/explore/crew.go:179`), not marked stale.  A check and the
   closing call of its first reply reach the judge as "measured on this final screen
   (facts, not model claims)" (`internal/explore/run/verdict.go:364`;
   `internal/explore/run/toolbox.go:106`).  EvidenceStands leaves these checks out.
5. **`contract_ack`**: a worker that ends its input while the client is
   disconnected has it acknowledged in the log at once
   (`internal/sessionstore/execution.go:351`), where the validator has an
   acknowledgement in the state `active` only
   (`contracts/device-session/v1/semantics.go:491`).
6. A file under a relative or symlinked root is stamped by the walk under another
   path than the closure has for it (`internal/cli/continuous.go:151`), so once a
   pass has compiled, the walk's stamp is compared with nothing.  A flow saved after
   discovery has read its name and tags, and before it is stamped again, keeps the
   old selection, and no pass follows.  Line 153 says that two names cost nothing,
   line 198 that the earlier observation is kept.  LastEditIsRun has the condition
   `"main" \in Stamped` for this: without it, TLC finds the behaviour.
7. A plan that is not empty resets the dry rounds (`internal/explore/crew.go:111`),
   and what was missed already is skipped without being counted.  A planner that
   gives the missed expectation new names is asked until the context ends;
   `README.md:148` says that the limits cap a session, and crew.go:51 that it stops
   when planning dries up.  HostEnds has `[]<>PlanIsFutile` for this.
8. inspectFlow returns after the feature `url` (`internal/capability/checker.go:292`),
   so nothing else of a flow that names a URL is inspected, against `README.md:31`.
   ProgramIsWhole says what it does of flows without one.

Seen while reading or modelling, without a run: claim numbers of frames restart at 0
with each frame job, so a capture of the former job that is reported late can
pass for a fresh one (`execution.go:135`); an expiry before the quarantine settles
the executing input, so a new process may open the driver inside the older call,
which is why OpensAfterOlderCalls speaks of sessions that are still open
(`docs/remote-runtime.md:150`); two inputs queued on one frame leave the second
refused and reclaimed until the session ends (`execution.go:299`); no code outside the
tests makes a DeviceConnectionError, so a lost device is an ordinary operation
error (`internal/engine/errors.go:445`); a serialization failure ends the process;
the frame retry budget survives a reconnect; scrollUntilVisible moves a covered
target by a fixed quarter of the viewport (`internal/engine/interaction_scroll_course.go:17`),
which takes a target smaller than that out of sight again; `internal/iosdevice/recording.go:67`
truncates the artifact before it looks for a running recording; a nested flow
keeps its first, retryable error over the loss of integrity in its hooks; a
driver's own deadline is reported as a cancellation; a
stdio capture that cannot be merged is forgotten first, so its segments and a part of
its log stay on the host (`internal/ios/stdio_capture.go:160`).

## 8. Only model-checked, and not modelled

Only model-checked:

- all liveness (ExpiryReleases, ExecutingFinishes, ShutdownCompletes, RunEnds,
  CommandsEnd, HostEnds): it needs fairness and ENABLED, which the proof system
  does not handle.  Their state spaces are complete within the bounds.

Every safety property that a passing run checks is also the statement of a
theorem.

Not modelled:

- the flow parser and model, reports, matching, hierarchies, image and JSON
  checks, the tables of the capability registry, contracts/integration and the
  contracts of v0: data without control;
- the device executor, which turns an input into one driver call and is one step
  of a worker here;
- the verification of tokens (pure), and their nonces;
- the AI engine: requests to a language model and the decoding of its answers,
  which explore's modules take as any answer;
- single calls of a driver to its agent, and what a selector matches: a driver
  call is a step that succeeds, fails or takes time;
- options, wiring, the MCP tools and the one-shot commands of the command line;
- the agents under `drivers/`, which are programs of their own in other
  languages.

`PROJECT.json` says for every component marked *partly* what is left out of it.

## 9. Plan

Done: everything in section 2, and the proofs of section 6.  What would add most
next:

1. **Polling and back-off of a worker** (WaitForWork) added to ServeRuntime, and with
   it the head-of-line input of `execution.go:299` as a question of liveness.
2. **The history of captures** in SessionStore, bounded enough to be run again
   beside the reconnects: whether a stored frame is younger than every outcome
   in the log (`execution.go:135`).
3. **The root loop**: Execute over the selected roots with sessions closed between
   them, composed from FlowExecution and ScriptRuntime.
4. **TokenNonces**: the reservation of nonces and their limit.
