------------------------------ MODULE ErrorClass ------------------------------
(***************************************************************************)
(* How the engine reads an error (internal/engine/errors.go): drivers,     *)
(* handlers and listeners wrap and join errors as they like, and the       *)
(* engine finds out whether what came back is a cancellation, a lost       *)
(* device, a misconfiguration, a skipped command, a failure a retry may    *)
(* repeat, or none of these.  A graph of errors is built one error at a    *)
(* time; the last one is what a command returned.                          *)
(*                                                                         *)
(* Of an error its own kind is kept, what it unwraps to and whether its    *)
(* methods panic.  The reflection by which the code asks for these, and    *)
(* recovers, is left out.                                                  *)
(***************************************************************************)
EXTENDS Naturals, SequencesExt

CONSTANTS
    MaxErrors,                  \* bound on the errors of a graph
    MaxTraversalDepth           \* maxTerminalErrorTraversalDepth (128 in the code)

ASSUME DepthAssumption == MaxTraversalDepth \in Nat \ {0}

VARIABLE errs                   \* the errors made so far

ErrInit == errs = <<>>

\* terminalClassPrecedence, the least first.
Precedence == <<"none", "skipped", "retryable", "failure", "configuration", "device", "cancelled">>
Rank(class) == CHOOSE i \in DOMAIN Precedence : Precedence[i] = class
Fatal == {"cancelled", "device", "configuration"}
Own == {"none", "skipped", "retryable"} \cup Fatal

-----------------------------------------------------------------------------
\* What product code does.  Only a type of its own can be tied into a cycle, or panic.
Error(own, shape, to) == [own |-> own, shape |-> shape, to |-> to]
Make(e) == Len(errs) < MaxErrors /\ errs' = Append(errs, e)

New(own) == Make(Error(own, "leaf", <<>>))
Wrap(own, i) == Make(Error(own, "causal", <<i>>))
Join(i, j) == Make(Error("none", "aggregate", <<i, j>>))
Panicking == Make(Error("none", "panics", <<>>))
Tie(i) ==
    /\ errs[i].own = "none" /\ errs[i].shape \in {"causal", "aggregate"} /\ Len(errs) \notin ToSet(errs[i].to)
    /\ errs' = [errs EXCEPT ![i].to = Append(Front(@), Len(errs))]

-----------------------------------------------------------------------------
Classified(class, aggregate) == [class |-> class, aggregate |-> aggregate, invalid |-> FALSE]
Invalid == [class |-> "failure", aggregate |-> FALSE, invalid |-> TRUE]

Worse(left, right) == IF Rank(right) > Rank(left) THEN right ELSE left
OrFailure(class) == IF class = "none" THEN "failure" ELSE class

\* mergeCausalTerminalClass: what a wrapper makes of its cause.  Mutant: a wrapper
\* that says the operation may be retried is believed.
Believed(own, cause) == IF own = "none" THEN cause.class ELSE own
Causal(own, cause) ==
    LET counts == cause.class \in Fatal \/ (cause.class = "failure" /\ cause.aggregate)
    IN  CASE own = "none" -> cause.class
          [] own = "retryable" -> IF counts \/ cause.class = "skipped" THEN cause.class ELSE own
          [] own = "skipped" -> IF counts THEN cause.class ELSE own
          [] OTHER -> Worse(own, cause.class)

\* mergeAggregateTerminalClasses, one branch after the other.
Merged(own, classes) ==
    LET merged[k \in 0..Len(classes)] ==
            IF k = 0 THEN own ELSE Worse(merged[k - 1], classes[k])
    IN  merged[Len(classes)]

\* inspect: what is found of an error, by the errors on the way to it ("active"), when
\* "below" says what is found one level further down.
Judged(e, parts) ==
    IF \E k \in DOMAIN parts : parts[k].invalid THEN Invalid
    ELSE CASE e.shape = "aggregate" ->
                Classified(OrFailure(Merged(e.own, [k \in DOMAIN parts |-> parts[k].class])), TRUE)
           [] e.shape = "causal" -> Classified(Causal(e.own, parts[1]), parts[1].aggregate)
           [] OTHER -> Classified(OrFailure(e.own), FALSE)
Level(graph, below) ==
    [i \in DOMAIN graph |-> [active \in SUBSET DOMAIN graph |->
        IF i \in active \/ graph[i].shape = "panics" THEN Invalid
        ELSE LET to == graph[i].to
             IN  Judged(graph[i], [k \in DOMAIN to |-> below[to[k]][active \cup {i}]])]]
TooDeep(graph) == [i \in DOMAIN graph |-> [active \in SUBSET DOMAIN graph |-> Invalid]]

\* The traversal goes down until maxTerminalErrorTraversalDepth; "left" levels are left.
Inspect(graph) ==
    LET inspect[left \in 0..MaxTraversalDepth] ==
            IF left = 0 THEN TooDeep(graph) ELSE Level(graph, inspect[left - 1])
    IN  inspect
InspectError(graph) == Inspect(graph)[MaxTraversalDepth][Len(graph)][{}]

\* normalizeTerminalError: a failure nobody named is one of the operation; a graph
\* that cannot be read is replaced.  Mutant: joined failures are wrapped as well.
NormalizedAll(graph) ==
    LET c == InspectError(graph)
    IN  CASE c.invalid -> Append(graph, Error("configuration", "leaf", <<>>))
          [] ~c.invalid /\ c.class = "failure" -> Append(graph, Error("retryable", "causal", <<Len(graph)>>))
          [] OTHER -> graph
Normalized(graph) ==
    LET c == InspectError(graph)
    IN  CASE c.invalid -> Append(graph, Error("configuration", "leaf", <<>>))
          [] ~c.invalid /\ c.class = "failure" /\ ~c.aggregate ->
                Append(graph, Error("retryable", "causal", <<Len(graph)>>))
          [] OTHER -> graph

ErrNext ==
    \/ \E own \in Own : New(own)
    \/ \E own \in Own, i \in DOMAIN errs : Wrap(own, i)
    \/ \E i, j \in DOMAIN errs : Join(i, j)
    \/ Panicking
    \/ \E i \in DOMAIN errs : Tie(i)
    \/ errs # <<>> /\ errs' = Normalized(errs)

ErrSpec == ErrInit /\ [][ErrNext]_errs

-----------------------------------------------------------------------------
\* The errors below an error, itself included: the least set that unwrapping keeps to.
Closed(graph, S) == \A i \in S : ToSet(graph[i].to) \subseteq S
Below(graph, i) ==
    {j \in DOMAIN graph : \A S \in SUBSET DOMAIN graph : i \in S /\ Closed(graph, S) => j \in S}

\* An error that can be unwrapped so many times, one error after the other.
Descends(graph, i, times) ==
    \E way \in [0..times -> DOMAIN graph] :
        way[0] = i /\ \A k \in 1..times : way[k] \in ToSet(graph[way[k - 1]].to)

\* However errors were wrapped and joined, the engine sees the worst of them: a
\* cancellation, a lost device or a misconfiguration below the error it was given is
\* what it reports, and nothing else is one; so no retry repeats it and no optional
\* command turns it into a warning.  Only a graph with a cycle, a panic or too many
\* levels is refused, and it becomes a misconfiguration.  Normalizing keeps what was
\* fatal, skipped or joined, leaves no unnamed failure, and is done once (a graph that
\* is as deep as can be read is deeper than that once it is wrapped).
WorstCauseWins ==
    errs # <<>> =>
        LET c == InspectError(errs)
            below == Below(errs, Len(errs))
            fatal == {errs[i].own : i \in below} \cap Fatal
            n == Normalized(errs)
            cn == InspectError(n)
        IN  /\ c.invalid <=> \/ \E i \in below : errs[i].shape = "panics"
                             \/ Descends(errs, Len(errs), MaxTraversalDepth)
            /\ ~c.invalid =>
                  IF fatal = {} THEN c.class \notin Fatal
                  ELSE c.class \in fatal /\ \A f \in fatal : Rank(f) <= Rank(c.class)
            /\ c.invalid \/ ~Descends(errs, Len(errs), MaxTraversalDepth - 1) =>
                  /\ cn.class = CASE c.invalid -> "configuration"
                                  [] ~c.invalid /\ c.class = "failure" /\ ~c.aggregate -> "retryable"
                                  [] OTHER -> c.class
                  /\ ~cn.invalid /\ Normalized(n) = n
=============================================================================
