---------------------------- MODULE FlowExecution ----------------------------
(***************************************************************************)
(* One root run of the engine (internal/engine): a session executes the    *)
(* flow of a selected root, its hooks, and the flows and composite         *)
(* commands nested in it.  The Go call stack is the variable stack, its    *)
(* innermost call first: a flow frame is a call of executeFlowLifecycle, a *)
(* command frame one of runCommandSpan.  The program is a constant: it is  *)
(* compiled before the session exists.                                     *)
(*                                                                         *)
(* Errors are the classes of errors.go.  "failure" is a raw error of a     *)
(* service, which a command turns into an operation error; "lost" is the   *)
(* operation error that wraps the transport error of a driver whose device *)
(* is gone; "cancelled" is also what a driver call that meets a deadline of  *)
(* its own returns; "integrity" is the marker of a poisoned session.  The   *)
(* class DeviceConnectionError is left out: only tests make one.           *)
(***************************************************************************)
EXTENDS Naturals, Sequences, FiniteSets

CONSTANTS
    Commands,       \* positions in the compiled program
    Flows,          \* compiled flows
    Apps,           \* application ids
    Command,        \* what is written at each position
    Flow,           \* hooks, body and application of each flow
    Roots,          \* flows a run may be started for
    NoFlow, NoApp,
    MaxSpans        \* bound: command spans of a run

Operational == {"retryable", "lost"}
Errors == Operational \cup {"skipped", "failure", "configuration", "cancelled", "integrity"}
NoError == "none"
Kinds == {"leaf", "retry", "repeat", "runFlow"}

CommandType == [kind: Kinds, children: Seq(Commands), linked: Flows \cup {NoFlow},
                optional: BOOLEAN, limit: Nat, conditional: BOOLEAN, session: BOOLEAN,
                evaluation: SUBSET Errors, outcomes: SUBSET (Errors \cup {NoError})]
FlowType == [onStart: Seq(Commands), body: Seq(Commands), onComplete: Seq(Commands),
             app: Apps, refusable: BOOLEAN]

\* What compiles and evaluates.  A number that is not written is one retry, or as many
\* runs as an Int32 can count.
Attempts == 1..4
Times == 0..2147483647

\* The inline commands of a retry, or one prepared flow; a repeat has inline commands.
CompiledRetry(c) == c.limit \in Attempts /\ ~c.conditional /\ (c.linked = NoFlow \/ c.children = <<>>)
CompiledRepeat(c) == c.limit \in Times /\ c.linked = NoFlow
CompiledRunFlow(c) == c.limit = 1 /\ c.linked # NoFlow /\ c.children = <<>>

ASSUME ProgramAssumption ==
    /\ Command \in [Commands -> CommandType]
    /\ Flow \in [Flows -> FlowType]
    /\ Roots \subseteq Flows
    /\ NoFlow \notin Flows /\ NoApp \notin Apps
    /\ \A c \in Commands :
          /\ Command[c].kind = "retry" => CompiledRetry(Command[c])
          /\ Command[c].kind = "repeat" => CompiledRepeat(Command[c])
          /\ Command[c].kind = "runFlow" => CompiledRunFlow(Command[c])
    /\ MaxSpans \in Nat

\* Only the setters of the runtime leave a session poisoned, and they are leaves that
\* use it; an evaluation finds it poisoned (SessionRefuses), and never makes it so.  (An
\* inline runFlow is a flow of its own, with a body and no hooks.)
ASSUME SessionAssumption ==
    \A c \in Commands :
        /\ "integrity" \in Command[c].outcomes => Command[c].session /\ Command[c].kind = "leaf"
        /\ "integrity" \notin Command[c].evaluation

\* A position is one place of the program: a sequence has no command twice, and the
\* sequences of a flow have none in common.
Once(s) == \A i, j \in 1..Len(s) : s[i] = s[j] => i = j
Members(s) == {s[i] : i \in 1..Len(s)}
Apart(s, t) == Members(s) \cap Members(t) = {}

ASSUME PositionsAssumption ==
    /\ \A c \in Commands : Once(Command[c].children)
    /\ \A f \in Flows :
          LET flow == Flow[f]
          IN  /\ Once(flow.onStart) /\ Once(flow.body) /\ Once(flow.onComplete)
              /\ Apart(flow.onStart, flow.body) /\ Apart(flow.onStart, flow.onComplete)
              /\ Apart(flow.body, flow.onComplete)

VARIABLES
    stack,          \* calls in progress, innermost first
    scopes,         \* session.frames: the flows whose scope is open, innermost first
    app,            \* the application hierarchy lookups are about
    poisoned,       \* session.poisonErr
    closed,         \* session.closed
    cancelled,      \* ctx.Err()
    next,           \* Timeline.next
    ledger,         \* terminal results of commands
    reset,          \* sequence numbers announced as reset
    result          \* "running", or the error of the root

vars == <<stack, scopes, app, poisoned, closed, cancelled, next, ledger, reset, result>>

FlowFrame == [kind: {"flow"}, flow: Flows, seq: Nat, depth: Nat,
              phase: {"enter", "onStart", "body", "onComplete", "leave"},
              todo: Seq(Commands), failure: Errors \cup {NoError}, halted: BOOLEAN,
              opened: BOOLEAN, outerApp: Apps \cup {NoApp}, mark: Nat]
CommandFrame == [kind: Kinds, cmd: Commands, seq: Nat, depth: Nat,
                 phase: {"evaluate", "act", "attempt", "condition", "wait", "running", "reset"},
                 todo: Seq(Commands), failure: Errors \cup {NoError}, runs: Nat, mark: Nat]

EnterFrame(f, seq, depth) ==
    [kind |-> "flow", flow |-> f, seq |-> seq, depth |-> depth, phase |-> "enter",
     todo |-> <<>>, failure |-> NoError, halted |-> FALSE, opened |-> FALSE,
     outerApp |-> NoApp, mark |-> next]

Top == Head(stack)
TopIs(kind, phase) == stack # <<>> /\ Top.kind = kind /\ Top.phase = phase
Quiet == UNCHANGED <<scopes, app, poisoned, closed, cancelled, reset, result>>

-----------------------------------------------------------------------------
(* Outcomes, and how a call hands its error to its caller                  *)

\* Mutant: an error under an ended context stays what it is.
RawError(e) == IF e = "failure" THEN "retryable" ELSE e

\* normalizeTerminalError: a raw failure becomes an operation error.
Normalized(e) == IF e = "failure" THEN "retryable" ELSE e

\* What the error of a handler counts as once runHandler has seen it: the end of
\* the context covers every error but the integrity marker.
ProductError(e) == IF cancelled /\ e # "integrity" THEN "cancelled" ELSE Normalized(e)

ClassifyOutcome(e, optional) ==
    CASE e = NoError -> "Completed"
      [] e = "skipped" -> "Skipped"
      [] e = "cancelled" -> "Cancelled"
      [] e \in Operational /\ optional -> "Warned"
      [] OTHER -> "Failed"

Surfaced(outcome, e) == IF outcome \in {"Failed", "Cancelled"} THEN e ELSE NoError

Precedence(e) == CASE e = "cancelled" -> 6 [] e = "integrity" -> 4 [] OTHER -> 0

FirstError(primary, later) == IF primary # NoError THEN primary ELSE later

\* Mutant: the root, too, keeps its first failure.
AccumulateFirst(failure, e) == FirstError(failure, e)

\* rootFailureAccumulator.add
Accumulate(failure, e) ==
    IF e # NoError /\ (failure = NoError \/ Precedence(e) > Precedence(failure))
    THEN e ELSE failure

\* The lifecycle of the selected root weighs its failures, that of a nested
\* flow keeps the first one.
AddFailure(f, e) == IF f.depth = 0 THEN Accumulate(f.failure, e) ELSE FirstError(f.failure, e)


\* A sequence stops at an error, unless it is the root's and the failure
\* resolver, which is not asked about the errors of failureResolverBypassed,
\* says to continue.
MayContinue(f, e) ==
    IF f.kind = "flow" /\ f.depth = 0 /\ e \notin {"cancelled", "integrity"}
    THEN BOOLEAN ELSE {FALSE}

Receive(f, e, continues) ==
    IF e = NoError THEN f
    ELSE IF f.kind = "flow"
    THEN [f EXCEPT !.failure = AddFailure(f, e), !.halted = ~continues,
                   !.todo = IF continues THEN @ ELSE <<>>]
    ELSE [f EXCEPT !.failure = e, !.todo = <<>>]

\* The calls below hand error e to the innermost of them.
Return(below, e) ==
    \E continues \in IF e = NoError THEN {FALSE} ELSE MayContinue(Head(below), e) :
        stack' = <<Receive(Head(below), e, continues)>> \o Tail(below)

\* The command row that runCommandSpan records when span seq of c ends with e.
Recorded(c, seq, depth, parent, e) ==
    [seq |-> seq, cmd |-> c, depth |-> depth, parent |-> parent,
     outcome |-> ClassifyOutcome(e, Command[c].optional), error |-> e]

\* The sequence number of the command whose call is the innermost of calls.
Owner(calls) == IF calls = <<>> THEN 0 ELSE Head(calls).seq

\* runCommandSpan ends with error e for the command on top.
Settle(e) ==
    LET below == Tail(stack)
        row == Recorded(Top.cmd, Top.seq, Top.depth, Owner(below), e)
    IN  /\ ledger' = ledger \cup {row}
        /\ Return(below, Surfaced(row.outcome, row.error))

\* The execution of the command on top returns e.
Finish(e) == Settle(ProductError(e))

SetTop(f) == stack' = <<f>> \o Tail(stack)

-----------------------------------------------------------------------------
(* Commands                                                                *)

FirstPhase(kind) ==
    CASE kind = "leaf" -> "evaluate" [] kind = "retry" -> "attempt" [] OTHER -> "condition"

CallFrame(c, seq, depth) ==
    [kind |-> Command[c].kind, cmd |-> c, seq |-> seq, depth |-> depth,
     phase |-> FirstPhase(Command[c].kind), todo |-> <<>>, failure |-> NoError,
     runs |-> 0, mark |-> seq]

\* The depth of the commands of the sequence that f runs.
SequenceDepth(f) == IF f.kind = "flow" THEN f.depth ELSE f.depth + 1

\* executeCompiled begins the span of the next command of the sequence on top:
\* under an ended context it finishes at once, without its handler.
StartCommand ==
    /\ stack # <<>> /\ Top.todo # <<>> /\ next < MaxSpans
    /\ next' = next + 1
    /\ LET c == Head(Top.todo)
           depth == SequenceDepth(Top)
           caller == [Top EXCEPT !.todo = Tail(@)]
       IN  IF cancelled
           THEN /\ ledger' = ledger \cup {Recorded(c, next + 1, depth, Top.seq, "cancelled")}
                /\ Return(<<caller>> \o Tail(stack), "cancelled")
           ELSE /\ stack' = <<CallFrame(c, next + 1, depth), caller>> \o Tail(stack)
                /\ UNCHANGED ledger
    /\ Quiet

\* A handler that needs the runtime, the lookup or the active configuration of
\* a poisoned session is given the integrity marker instead, while it evaluates
\* its arguments or later.
RefusedBySession == poisoned /\ Command[Top.cmd].session

SessionRefuses ==
    /\ stack # <<>> /\ Top.kind # "flow" /\ RefusedBySession
    /\ Top.phase \in {"evaluate", "act", "attempt", "condition"}
    /\ Finish("integrity")
    /\ UNCHANGED next /\ Quiet

\* The arguments of a leaf are evaluated.  An error of theirs stays what it is,
\* whatever becomes of the context; without one the context is asked next.
Evaluate ==
    /\ TopIs("leaf", "evaluate")
    /\ \/ /\ \E e \in Command[Top.cmd].evaluation : Settle(Normalized(e))
       \/ cancelled /\ Finish("cancelled")
       \/ ~cancelled /\ SetTop([Top EXCEPT !.phase = "act"]) /\ UNCHANGED ledger
    /\ UNCHANGED next /\ Quiet

\* The handler of a leaf returns.  A setter of the runtime that fails poisons
\* the session and closes it (setCopiedText, putEnv).
LeafReturns ==
    /\ TopIs("leaf", "act") /\ ~RefusedBySession
    /\ \E e \in Command[Top.cmd].outcomes :
        /\ Finish(e)
        /\ poisoned' = (poisoned \/ e = "integrity")
        /\ closed' = (closed \/ e = "integrity")
    /\ UNCHANGED <<scopes, app, cancelled, next, reset, result>>

\* One run of a composite: its inline children, or a call of the linked flow.
BeginRun ==
    LET c == Command[Top.cmd]
        f == [Top EXCEPT !.phase = "running", !.runs = @ + 1, !.mark = next,
                         !.failure = NoError,
                         !.todo = IF c.linked = NoFlow THEN c.children ELSE <<>>]
    IN  stack' = (IF c.linked = NoFlow THEN <<f>>
                  ELSE <<EnterFrame(c.linked, Top.seq, Top.depth + 1), f>>) \o Tail(stack)

RunEnded == Top.phase = "running" /\ Top.todo = <<>>

\* Mutant: the first result of a run is left out.
ImmediateAfterFirst(f) == {r \in ledger : r.depth = f.depth + 1 /\ r.seq > f.mark + 1}

\* Results of the run that began at f.mark which belong to f itself.
Immediate(f) == {r \in ledger : r.depth = f.depth + 1 /\ r.seq > f.mark}

-----------------------------------------------------------------------------
(* retry                                                                   *)

\* A number of attempts that is written as an expression may not evaluate.
CounterFails ==
    /\ TopIs("retry", "attempt") /\ ~RefusedBySession
    /\ \E e \in Command[Top.cmd].outcomes : Finish(e)
    /\ UNCHANGED next /\ Quiet

\* A failed attempt whose results are all reset is followed by the next one.
RetryAttempt ==
    /\ \/ TopIs("retry", "attempt") /\ (RefusedBySession => cancelled)
       \/ TopIs("retry", "reset") /\ Immediate(Top) \subseteq {r \in ledger : r.seq \in reset}
    /\ IF cancelled THEN Finish("cancelled") ELSE BeginRun /\ UNCHANGED ledger
    /\ UNCHANGED next /\ Quiet

AttemptSkipped(f) == \E r \in Immediate(f) : r.error = "skipped"

AttemptError(f) ==
    IF cancelled THEN "cancelled"
    ELSE FirstError(f.failure, IF AttemptSkipped(f) THEN "skipped" ELSE NoError)

\* Mutant: one attempt too many.
RetriedOnceMore(f) ==
    /\ AttemptError(f) \in Operational
    /\ ~AttemptSkipped(f)
    /\ f.runs <= Command[f.cmd].limit

\* Only an attempt that failed with an operation error, skipped none of its own
\* commands and is not the last is followed by another.
Retried(f) ==
    /\ AttemptError(f) \in Operational
    /\ ~AttemptSkipped(f)
    /\ f.runs < Command[f.cmd].limit

RetryAttemptEnds ==
    /\ stack # <<>> /\ Top.kind = "retry" /\ RunEnded
    /\ IF Retried(Top) THEN SetTop([Top EXCEPT !.phase = "reset"]) /\ UNCHANGED ledger
       ELSE Finish(AttemptError(Top))
    /\ UNCHANGED next /\ Quiet

\* The results of the failed attempt are announced as reset one by one, until
\* the context ends.
ResetChild ==
    /\ TopIs("retry", "reset")
    /\ \E r \in Immediate(Top) :
        /\ r.seq \notin reset
        /\ \A q \in Immediate(Top) : q.seq < r.seq => q.seq \in reset
        /\ reset' = reset \cup {r.seq}
    /\ IF cancelled THEN Finish("cancelled") ELSE UNCHANGED <<stack, ledger>>
    /\ UNCHANGED <<scopes, app, poisoned, closed, cancelled, next, result>>

-----------------------------------------------------------------------------
(* repeat and runFlow                                                      *)

Conditional == stack # <<>> /\ Top.kind # "flow" /\ Top.phase = "condition"

\* evaluateCondition, which looks at the context first, fails.  A repeat of no
\* times ends before it asks.
ConditionFails ==
    /\ Conditional /\ Command[Top.cmd].limit > 0
    /\ cancelled \/ ~RefusedBySession
    /\ \E e \in IF cancelled THEN {"cancelled"} ELSE Command[Top.cmd].outcomes : Finish(e)
    /\ UNCHANGED next /\ Quiet

ConditionFalse ==
    /\ Conditional
    /\ ~RefusedBySession
    /\ Command[Top.cmd].limit = 0 \/ (~cancelled /\ Command[Top.cmd].conditional)
    /\ Finish(IF Top.kind = "runFlow" THEN "skipped" ELSE NoError)
    /\ UNCHANGED next /\ Quiet

ConditionTrue ==
    /\ Conditional /\ Command[Top.cmd].limit > 0 /\ ~cancelled /\ ~RefusedBySession
    /\ IF Top.runs = 0 THEN BeginRun ELSE SetTop([Top EXCEPT !.phase = "wait"])
    /\ UNCHANGED <<next, ledger>> /\ Quiet

\* The delay between two runs of a repeat; then the results of the last run are
\* reset, whatever becomes of the context meanwhile.
RepeatWait ==
    /\ TopIs("repeat", "wait")
    /\ IF cancelled THEN Finish("cancelled") /\ UNCHANGED reset
       ELSE /\ reset' = reset \cup {r.seq : r \in Immediate(Top)}
            /\ BeginRun /\ UNCHANGED ledger
    /\ UNCHANGED <<scopes, app, poisoned, closed, cancelled, next, result>>

RepeatRunEnds ==
    /\ stack # <<>> /\ Top.kind = "repeat" /\ RunEnded
    /\ IF Top.failure # NoError \/ Top.runs >= Command[Top.cmd].limit
       THEN Finish(Top.failure)
       ELSE SetTop([Top EXCEPT !.phase = "condition"]) /\ UNCHANGED ledger
    /\ UNCHANGED next /\ Quiet

RunFlowEnds ==
    /\ stack # <<>> /\ Top.kind = "runFlow" /\ RunEnded
    /\ Finish(Top.failure)
    /\ UNCHANGED next /\ Quiet

-----------------------------------------------------------------------------
(* Flows                                                                   *)

\* executeFlowLifecycle opens a scope; what it cannot open it leaves at once.
\* An environment or a driver that refuses is rolled back, with no frame.
EnterFlow ==
    /\ TopIs("flow", "enter")
    /\ LET f == Flow[Top.flow]
           refusals == IF cancelled THEN {"cancelled"}
                       ELSE IF poisoned THEN {"integrity"}
                       ELSE IF f.refusable THEN {"failure"} ELSE {}
       IN  \/ /\ ~cancelled /\ ~poisoned
              /\ SetTop([Top EXCEPT !.phase = "onStart", !.todo = f.onStart,
                                    !.opened = TRUE, !.outerApp = app])
              /\ scopes' = <<Top.flow>> \o scopes
              /\ app' = f.app
           \/ \E e \in refusals :
                 /\ SetTop([Top EXCEPT !.phase = "leave", !.failure = e])
                 /\ UNCHANGED <<scopes, app>>
    /\ UNCHANGED <<poisoned, closed, cancelled, next, ledger, reset, result>>

BodyDone(f) == f.phase = "body" \/ (f.phase = "onStart" /\ f.halted)

\* Mutant: only a flow without a failure runs its completion hooks.
CompletesCleanly(f) == f.failure = NoError

Completes(f) == f.failure # "integrity"

\* The body runs unless the start hooks halted; the completion hooks run
\* whatever failed, but not in a session whose integrity is lost.
NextPhase ==
    /\ stack # <<>> /\ Top.kind = "flow" /\ Top.todo = <<>>
    /\ LET f == Flow[Top.flow] IN
       \/ /\ Top.phase = "onStart" /\ ~Top.halted
          /\ SetTop([Top EXCEPT !.phase = "body", !.todo = f.body])
       \/ /\ BodyDone(Top) /\ Completes(Top)
          /\ SetTop([Top EXCEPT !.phase = "onComplete", !.todo = f.onComplete])
       \/ /\ Top.phase = "onComplete" \/ (BodyDone(Top) /\ ~Completes(Top))
          /\ SetTop([Top EXCEPT !.phase = "leave"])
    /\ UNCHANGED <<next, ledger>> /\ Quiet

\* Mutant: only a flow that succeeded gives the application back.
RestoredAfterSuccess(f) == IF f.opened /\ f.failure = NoError THEN f.outerApp ELSE app

RestoredApp(f) == IF f.opened /\ ~poisoned THEN f.outerApp ELSE app

PoisonError == IF poisoned THEN "integrity" ELSE NoError

\* flowScope.Close gives the outer application back, which a poisoned session
\* no longer can, and reports the poison; the root also closes the session.
LeaveFlow ==
    /\ TopIs("flow", "leave")
    /\ LET scope == IF Top.opened THEN AddFailure(Top, PoisonError) ELSE Top.failure
           root == Accumulate(scope, PoisonError)
       IN  /\ scopes' = IF Top.opened THEN Tail(scopes) ELSE scopes
           /\ app' = RestoredApp(Top)
           /\ IF Top.depth = 0
              THEN stack' = <<>> /\ result' = root /\ closed' = TRUE
              ELSE Return(Tail(stack), scope) /\ UNCHANGED <<result, closed>>
    /\ UNCHANGED <<poisoned, cancelled, next, ledger, reset>>

\* The context of the run ends: an interrupt, or the timeout of the caller.
Cancel ==
    /\ result = "running" /\ ~cancelled
    /\ cancelled' = TRUE
    /\ UNCHANGED <<stack, scopes, app, poisoned, closed, next, ledger, reset, result>>

-----------------------------------------------------------------------------

Init ==
    /\ next = 0
    /\ \E root \in Roots : stack = <<EnterFrame(root, 0, 0)>>
    /\ scopes = <<>> /\ app = NoApp
    /\ poisoned = FALSE /\ closed = FALSE /\ cancelled = FALSE
    /\ ledger = {} /\ reset = {} /\ result = "running"

Step ==
    \/ StartCommand \/ SessionRefuses \/ Evaluate \/ LeafReturns
    \/ CounterFails \/ RetryAttempt \/ RetryAttemptEnds \/ ResetChild
    \/ ConditionFails \/ ConditionFalse \/ ConditionTrue
    \/ RepeatWait \/ RepeatRunEnds \/ RunFlowEnds
    \/ EnterFlow \/ NextPhase \/ LeaveFlow

Next == Step \/ Cancel

Spec == Init /\ [][Next]_vars

\* Every handler, wait and driver call returns: each ends with the context or
\* at a deadline of its own.
FairSpec == Spec /\ WF_vars(Step)

-----------------------------------------------------------------------------
(* Properties                                                              *)

\* The calls of flows whose scope is open.
OpenCalls == {i \in DOMAIN stack : stack[i].kind = "flow" /\ stack[i].opened}

\* The session's frames are the open flows in call order, and lookups are about
\* the application of the innermost one, however the calls inside it ended: a
\* nested flow never leaves its caller looking at the application it declared
\* (enterFlow, flowScope.Close).
ScopesNested ==
    /\ \E call \in [DOMAIN scopes -> OpenCalls] :
          /\ \A i, j \in DOMAIN scopes : i < j => call[i] < call[j]
          /\ \A c \in OpenCalls : \E i \in DOMAIN scopes : call[i] = c
          /\ \A i \in DOMAIN scopes : scopes[i] = stack[call[i]].flow
    /\ ~poisoned => app = IF scopes = <<>> THEN NoApp ELSE Flow[Head(scopes)].app

\* A flow that was entered ran its completion hooks before it is left, whatever
\* failed or was cancelled in it, unless the session was poisoned
\* (executeFlowLifecycle).
CompletionHooksRun ==
    [][\A f \in Flows :
        /\ TopIs("flow", "leave") /\ Top.flow = f /\ Top.opened
        /\ ~poisoned /\ Flow[f].onComplete # <<>>
        /\ stack' # stack
        => \E r \in ledger : r.cmd = Head(Flow[f].onComplete) /\ r.seq > Top.mark]_vars

Failures == {r.error : r \in {q \in ledger : q.depth = 0 /\ q.outcome \in {"Failed", "Cancelled"}}}

\* The root reports an error no weaker than any failure of its own commands,
\* and at least the loss of integrity when the session was poisoned, even where
\* a nested flow kept an earlier error (rootFailureAccumulator, session.Close).
RootReportsWorst ==
    result # "running" =>
        /\ \A e \in Failures : result # NoError /\ Precedence(result) >= Precedence(e)
        /\ poisoned => Precedence(result) >= Precedence("integrity")

\* Among the results of one command in one composite the older ones are reset
\* once there is a newer one, and a composite that completed has not reset the
\* results of its last run: a reader of the events sees exactly that run (resetCommand in executeRetry and executeRepeat).
ResultsStandOnce ==
    /\ \A q, r \in ledger :
        q.cmd = r.cmd /\ q.parent = r.parent /\ q.seq < r.seq => q.seq \in reset
    /\ \A p, q \in ledger :
        q.parent = p.seq /\ q.seq \in reset /\ p.outcome = "Completed"
            => \E r \in ledger : r.parent = p.seq /\ r.seq > q.seq /\ r.seq \notin reset

Executing(f) == f.kind # "flow" /\ f.phase # "evaluate"

\* A run cancelled while a command is executing reports the cancellation, or the
\* loss of integrity, and not the failure of a command, however deep the command
\* is and whatever optional, retry or hook stands above it (runHandler,
\* rootTerminalPrecedence).
CancellationReported ==
    [](cancelled /\ (\E i \in DOMAIN stack : Executing(stack[i]))
        => [](result \in {"running", "cancelled", "integrity"}))

\* A run ends: retries and repeats are bounded, whatever fails.
RunEnds == <>(result # "running")
=============================================================================
