------------------------- MODULE FlowExecution_proofs -------------------------
(***************************************************************************)
(* Proofs about FlowExecution, for every program, however deep its flows   *)
(* and composites nest and whatever bound the spans have.                  *)
(***************************************************************************)
EXTENDS FlowExecution, SequenceTheorems, TLAPS

Frame == FlowFrame \cup CommandFrame
AnyError == Errors \cup {NoError}

\* A call stack: the root is its last call and no other, a command has the depth
\* of the sequence that runs it, and its number was given out.
RootLast(s) ==
    \A i \in 1..Len(s) : (s[i].kind = "flow" /\ s[i].depth = 0) <=> i = Len(s)
DepthsFit(s) ==
    \A i \in 1..(Len(s) - 1) : s[i].kind # "flow" => s[i].depth = SequenceDepth(s[i + 1])
Numbered(s, n) == \A i \in 1..Len(s) : s[i].kind # "flow" => s[i].seq \in 1..n
Stacked(s, n) == s \in Seq(Frame) /\ s # <<>> /\ RootLast(s) /\ DepthsFit(s) /\ Numbered(s, n)

Root(s) == s[Len(s)]

\* The two kinds of frames are told apart by their kind.
LEMMA FrameKinds ==
    ASSUME NEW f \in Frame
    PROVE  /\ f.kind = "flow" => f \in FlowFrame
           /\ f.kind # "flow" => f \in CommandFrame
           /\ f.depth \in Nat /\ f.seq \in Nat /\ f.failure \in AnyError
           /\ f.todo \in Seq(Commands)
  BY DEF Frame, FlowFrame, CommandFrame, Kinds, AnyError

\* The calls below the innermost one are a call stack too.
LEMMA BelowStacked ==
    ASSUME NEW s, NEW n \in Nat, Stacked(s, n), Len(s) # 1
    PROVE  Stacked(Tail(s), n) /\ Root(Tail(s)) = Root(s) /\ Head(Tail(s)) = s[2]
<1>1. /\ Tail(s) \in Seq(Frame) /\ Len(Tail(s)) = Len(s) - 1
      /\ \A i \in 1..Len(Tail(s)) : Tail(s)[i] = s[i + 1]
  BY HeadTailProperties DEF Stacked
<1>2. Len(s) \in Nat /\ Len(s) > 1
  <2> DEFINE k == Len(s)
  <2>1. k \in Nat \ {0} /\ k # 1
    BY EmptySeq DEF Stacked
  <2> HIDE DEF k
  <2>2. k \in Nat /\ k > 1
    BY <2>1
  <2> QED
    BY <2>2 DEF k
<1>3. \A i \in 1..Len(Tail(s)) : i + 1 \in 1..Len(s) /\ (i = Len(Tail(s)) <=> i + 1 = Len(s))
  BY <1>1, <1>2
<1>4. RootLast(Tail(s)) /\ Numbered(Tail(s), n)
  <2>1. RootLast(s) /\ Numbered(s, n)
    BY DEF Stacked
  <2>2. RootLast(Tail(s))
    BY <1>1, <1>3, <2>1 DEF RootLast
  <2>3. Numbered(Tail(s), n)
    BY <1>1, <1>3, <2>1 DEF Numbered
  <2> QED
    BY <2>2, <2>3
<1>5. DepthsFit(Tail(s))
  <2> SUFFICES ASSUME NEW i \in 1..(Len(Tail(s)) - 1), Tail(s)[i].kind # "flow"
               PROVE  Tail(s)[i].depth = SequenceDepth(Tail(s)[i + 1])
    BY DEF DepthsFit
  <2>1. /\ Tail(s)[i] = s[i + 1] /\ Tail(s)[i + 1] = s[(i + 1) + 1]
        /\ i + 1 \in 1..(Len(s) - 1)
    BY <1>1, <1>2
  <2> QED
    BY <2>1 DEF Stacked, DepthsFit
<1>6. Tail(s) # <<>> /\ Head(Tail(s)) = Tail(s)[1]
  <2>1. Len(<<>>) = 0
    OBVIOUS
  <2>2. Len(Tail(s)) # 0
    BY <1>1, <1>2
  <2>3. Tail(s) # <<>>
    BY <2>1, <2>2
  <2> QED
    BY <1>1, <2>3
<1>7. Tail(s)[1] = s[2] /\ Root(Tail(s)) = Root(s)
  BY <1>1, <1>2 DEF Root
<1> QED
  BY <1>1, <1>4, <1>5, <1>6, <1>7 DEF Stacked

\* The innermost call, changed in its progress only.
LEMMA TopReplaced ==
    ASSUME NEW s, NEW n \in Nat, Stacked(s, n), NEW f \in Frame,
           f.kind = Head(s).kind, f.depth = Head(s).depth, f.seq = Head(s).seq
    PROVE  /\ Stacked(<<f>> \o Tail(s), n)
           /\ Len(<<f>> \o Tail(s)) = Len(s)
           /\ Root(<<f>> \o Tail(s)) = IF Len(s) = 1 THEN f ELSE Root(s)
<1> DEFINE t == <<f>> \o Tail(s)
<1>1. /\ Head(s) = s[1] /\ Tail(s) \in Seq(Frame) /\ Len(Tail(s)) = Len(s) - 1
      /\ \A i \in 1..Len(Tail(s)) : Tail(s)[i] = s[i + 1]
      /\ Len(s) \in Nat \ {0}
  BY HeadTailProperties, EmptySeq DEF Stacked
<1>2. /\ t \in Seq(Frame) /\ Len(t) = Len(s)
      /\ \A i \in 1..Len(s) : t[i] = IF i = 1 THEN f ELSE s[i]
  <2>1. <<f>> \in Seq(Frame) /\ Len(<<f>>) = 1 /\ <<f>>[1] = f
    OBVIOUS
  <2> QED
    BY <1>1, <2>1, ConcatProperties
<1> HIDE DEF t
<1>3. RootLast(t) /\ Numbered(t, n)
  <2>1. \A i \in 1..Len(s) : /\ t[i].kind = s[i].kind /\ t[i].depth = s[i].depth
                             /\ t[i].seq = s[i].seq
    BY <1>1, <1>2
  <2>2. RootLast(t)
    <3>1. RootLast(s)
      BY DEF Stacked
    <3> QED
      BY <1>2, <2>1, <3>1 DEF RootLast
  <2>3. Numbered(t, n)
    <3>1. Numbered(s, n)
      BY DEF Stacked
    <3> QED
      BY <1>2, <2>1, <3>1 DEF Numbered
  <2> QED
    BY <2>2, <2>3
<1>4. DepthsFit(t)
  <2> SUFFICES ASSUME NEW i \in 1..(Len(t) - 1), t[i].kind # "flow"
               PROVE  t[i].depth = SequenceDepth(t[i + 1])
    BY DEF DepthsFit
  <2>1. t[i + 1] = s[i + 1] /\ t[i].kind = s[i].kind /\ t[i].depth = s[i].depth
    BY <1>1, <1>2
  <2> QED
    BY <1>2, <2>1 DEF Stacked, DepthsFit
<1>5. t # <<>>
  BY <1>1, <1>2, EmptySeq
<1> QED
  BY <1>1, <1>2, <1>3, <1>4, <1>5 DEF Stacked, Root, t

\* A call that is made.
LEMMA Pushed ==
    ASSUME NEW s, NEW n \in Nat, Stacked(s, n), NEW f \in Frame,
           f.kind = "flow" => f.depth # 0,
           f.kind # "flow" => f.depth = SequenceDepth(Head(s)) /\ f.seq \in 1..n
    PROVE  Stacked(<<f>> \o s, n) /\ Root(<<f>> \o s) = Root(s) /\ Len(<<f>> \o s) = Len(s) + 1
<1> DEFINE t == <<f>> \o s
<1>1. Head(s) = s[1] /\ Len(s) \in Nat \ {0}
  BY EmptySeq DEF Stacked
<1>2. /\ t \in Seq(Frame) /\ Len(t) = Len(s) + 1
      /\ t[1] = f /\ \A i \in 1..Len(s) : t[i + 1] = s[i]
  <2>1. <<f>> \in Seq(Frame) /\ Len(<<f>>) = 1 /\ <<f>>[1] = f
    OBVIOUS
  <2>2. /\ t \in Seq(Frame) /\ Len(t) = 1 + Len(s)
        /\ \A i \in 1..(1 + Len(s)) : t[i] = IF i <= 1 THEN <<f>>[i] ELSE s[i - 1]
    BY <2>1, ConcatProperties DEF Stacked
  <2> QED
    BY <1>1, <2>1, <2>2
<1> HIDE DEF t
<1>3. \A i \in 1..Len(t) : i = 1 \/ (i - 1 \in 1..Len(s) /\ t[i] = s[i - 1])
  BY <1>1, <1>2
<1>4. RootLast(t)
  <2> SUFFICES ASSUME NEW i \in 1..Len(t)
               PROVE  (t[i].kind = "flow" /\ t[i].depth = 0) <=> i = Len(t)
    BY DEF RootLast
  <2>1. CASE i = 1
    BY <1>1, <1>2, <2>1
  <2>2. CASE i # 1
    <3>1. i - 1 \in 1..Len(s) /\ t[i] = s[i - 1]
      BY <1>3, <2>2
    <3>2. (s[i - 1].kind = "flow" /\ s[i - 1].depth = 0) <=> i - 1 = Len(s)
      BY <3>1 DEF Stacked, RootLast
    <3> QED
      BY <1>1, <1>2, <3>1, <3>2
  <2> QED
    BY <2>1, <2>2
<1>7. Numbered(t, n)
  <2>1. Numbered(s, n)
    BY DEF Stacked
  <2> QED
    BY <1>2, <1>3, <2>1 DEF Numbered
<1>5. DepthsFit(t)
  <2> SUFFICES ASSUME NEW i \in 1..(Len(t) - 1), t[i].kind # "flow"
               PROVE  t[i].depth = SequenceDepth(t[i + 1])
    BY DEF DepthsFit
  <2>1. t[i + 1] = s[i] /\ i \in 1..Len(s)
    BY <1>1, <1>2
  <2>2. CASE i = 1
    BY <1>1, <1>2, <2>1, <2>2
  <2>3. CASE i # 1
    BY <1>1, <1>2, <1>3, <2>1, <2>3 DEF Stacked, DepthsFit
  <2> QED
    BY <2>2, <2>3
<1>6. t # <<>>
  BY <1>1, <1>2, EmptySeq
<1> QED
  BY <1>1, <1>2, <1>4, <1>5, <1>6, <1>7 DEF Stacked, Root, t

-----------------------------------------------------------------------------
(* What the calls hand to each other                                       *)

Outweighs(failure, e) == failure # NoError /\ Precedence(failure) >= Precedence(e)

\* A failure that is accumulated outweighs what it outweighed, and what came.
LEMMA AccumulateOutweighs ==
    ASSUME NEW failure \in AnyError, NEW e \in AnyError
    PROVE  /\ Accumulate(failure, e) \in AnyError
           /\ e # NoError => Outweighs(Accumulate(failure, e), e)
           /\ \A d \in AnyError : Outweighs(failure, d) => Outweighs(Accumulate(failure, e), d)
  BY DEF Accumulate, Outweighs, Precedence, AnyError, Errors, Operational, NoError

\* A frame that receives an error is the frame it was, in its progress only.
LEMMA ReceiveKeeps ==
    ASSUME NEW f \in Frame, NEW e \in AnyError, NEW c \in BOOLEAN
    PROVE  /\ Receive(f, e, c) \in Frame
           /\ Receive(f, e, c).kind = f.kind /\ Receive(f, e, c).depth = f.depth
           /\ Receive(f, e, c).seq = f.seq /\ Receive(f, e, c).phase = f.phase
           /\ f.kind = "flow" /\ f.depth = 0
                => Receive(f, e, c).failure = Accumulate(f.failure, e)
<1>1. CASE e = NoError
  BY <1>1 DEF Receive, Accumulate
<1>2. CASE e # NoError /\ f.kind = "flow"
  <2>1. f \in FlowFrame
    BY <1>2, FrameKinds
  <2>2. AddFailure(f, e) \in AnyError
    BY <2>1, AccumulateOutweighs DEF AddFailure, FirstError, FlowFrame, AnyError
  <2>3. Receive(f, e, c) \in FlowFrame
    <3> DEFINE a == AddFailure(f, e)
               h == ~c
               t == IF c THEN f.todo ELSE <<>>
    <3>1. a \in Errors \cup {NoError} /\ h \in BOOLEAN /\ t \in Seq(Commands)
      BY <2>1, <2>2 DEF FlowFrame, AnyError
    <3>2. Receive(f, e, c) = [f EXCEPT !.failure = a, !.halted = h, !.todo = t]
      BY <1>2, <2>1 DEF Receive, FlowFrame
    <3> HIDE DEF a, h, t
    <3> QED
      BY <2>1, <3>1, <3>2 DEF FlowFrame
  <2> QED
    BY <1>2, <2>1, <2>3 DEF Receive, FlowFrame, Frame, AddFailure
<1>3. CASE e # NoError /\ f.kind # "flow"
  <2>1. f \in CommandFrame
    BY <1>3, FrameKinds
  <2>2. Receive(f, e, c) \in CommandFrame
    <3> DEFINE t == <<>>
    <3>1. t \in Seq(Commands) /\ e \in Errors \cup {NoError}
      BY DEF AnyError
    <3>2. Receive(f, e, c) = [f EXCEPT !.failure = e, !.todo = t]
      BY <1>3 DEF Receive
    <3> HIDE DEF t
    <3> QED
      BY <2>1, <3>1, <3>2 DEF CommandFrame
  <2> QED
    BY <1>3, <2>1, <2>2 DEF Receive, CommandFrame, Frame
<1> QED
  BY <1>1, <1>2, <1>3

\* A call that returns an error to the root makes it accumulate the error; any
\* other call leaves the root as it is.
LEMMA ReturnStep ==
    ASSUME NEW below, NEW n \in Nat, Stacked(below, n), NEW e \in AnyError, Return(below, e)
    PROVE  /\ Stacked(stack', n) /\ Root(stack').phase = Root(below).phase
           /\ Root(stack').failure = IF Len(below) = 1
                                     THEN Accumulate(Root(below).failure, e)
                                     ELSE Root(below).failure
<1>1. /\ Head(below) \in Frame /\ Head(below) = below[1]
      /\ Len(below) = 1 => /\ Root(below) = Head(below)
                           /\ Head(below).kind = "flow" /\ Head(below).depth = 0
  BY EmptySeq DEF Stacked, Root, RootLast
<1>2. PICK c \in BOOLEAN : stack' = <<Receive(Head(below), e, c)>> \o Tail(below)
  BY DEF Return, MayContinue
<1> DEFINE f == Receive(Head(below), e, c)
<1>3. /\ f \in Frame /\ f.kind = Head(below).kind /\ f.depth = Head(below).depth
      /\ f.seq = Head(below).seq /\ f.phase = Head(below).phase
      /\ Len(below) = 1 => f.failure = Accumulate(Head(below).failure, e)
  BY <1>1, ReceiveKeeps
<1> HIDE DEF f
<1>4. stack' = <<f>> \o Tail(below)
  BY <1>2 DEF f
<1>5. /\ Stacked(stack', n)
      /\ Root(stack') = IF Len(below) = 1 THEN f ELSE Root(below)
  BY <1>3, <1>4, TopReplaced
<1> QED
  BY <1>1, <1>3, <1>5

Covers(s) == \A e \in Failures : Outweighs(Root(s).failure, e)

LEMMA RootFrame ==
    ASSUME NEW s, NEW n \in Nat, Stacked(s, n)
    PROVE  Root(s) \in Frame /\ Root(s).failure \in AnyError /\ Len(s) \in Nat \ {0}
<1>1. Len(s) \in Nat \ {0} /\ Root(s) \in Frame
  BY EmptySeq DEF Stacked, Root
<1> QED
  BY <1>1, FrameKinds

\* A result of the root's own commands is recorded when the root is given its
\* error: the root outweighs every failure of its own.
LEMMA RecordAndReturn ==
    ASSUME NEW below, NEW n \in Nat, Stacked(below, n), Covers(below),
           Failures \subseteq AnyError,
           NEW row, row.error \in AnyError, row.depth = SequenceDepth(Head(below)),
           row.outcome \in {"Failed", "Cancelled"} => row.error # NoError,
           ledger' = ledger \cup {row},
           Return(below, Surfaced(row.outcome, row.error))
    PROVE  /\ Stacked(stack', n) /\ Root(stack').phase = Root(below).phase
           /\ Covers(stack)' /\ Failures' \subseteq AnyError
<1> DEFINE e == Surfaced(row.outcome, row.error)
<1>1. e \in AnyError /\ (row.outcome \in {"Failed", "Cancelled"} => e = row.error /\ e # NoError)
  BY DEF Surfaced, AnyError
<1>2. /\ Stacked(stack', n) /\ Root(stack').phase = Root(below).phase
      /\ Root(stack').failure = IF Len(below) = 1
                                THEN Accumulate(Root(below).failure, e)
                                ELSE Root(below).failure
  BY <1>1, ReturnStep
<1>3. Root(below).failure \in AnyError
  BY RootFrame
<1>4. /\ \A d \in AnyError : Outweighs(Root(below).failure, d) => Outweighs(Root(stack').failure, d)
      /\ Len(below) = 1 /\ e # NoError => Outweighs(Root(stack').failure, e)
  BY <1>1, <1>2, <1>3, AccumulateOutweighs
<1>5. row.depth = 0 => Len(below) = 1
  <2>1. Head(below) = below[1] /\ Head(below) \in Frame /\ 1 \in 1..Len(below)
    BY EmptySeq DEF Stacked
  <2>2. row.depth = 0 => Head(below).kind = "flow" /\ Head(below).depth = 0
    BY <2>1, FrameKinds DEF SequenceDepth
  <2> QED
    BY <2>1, <2>2 DEF Stacked, RootLast
<1>6. \A d \in Failures' : d \in Failures
                           \/ (d = e /\ row.depth = 0 /\ e # NoError /\ e \in AnyError)
  BY <1>1 DEF Failures
<1>7. \A d \in Failures' : Outweighs(Root(stack').failure, d) /\ d \in AnyError
  BY <1>4, <1>5, <1>6 DEF Covers
<1> QED
  BY <1>2, <1>7 DEF Covers

-----------------------------------------------------------------------------
(* The invariant                                                           *)

\* The root has just been called: nothing ran yet.
Fresh == Len(stack) = 1 /\ Top.todo = <<>> /\ ledger = {}

\* The root outweighs what its commands recorded, as long as it runs.
FlowInv ==
    /\ next \in Nat /\ Failures \subseteq AnyError /\ app \in Apps \cup {NoApp}
    /\ result = "running" <=> stack # <<>>
    /\ stack # <<>> =>
        /\ Stacked(stack, next) /\ Covers(stack)
        /\ Root(stack).phase = "enter" => Fresh
    /\ RootReportsWorst

\* What a step that returns, or that goes on in the innermost call, preserves.
Goes(n) ==
    /\ Stacked(stack', n) /\ Covers(stack)' /\ Failures' \subseteq AnyError
    /\ Root(stack').phase # "enter"

\* The innermost call of a running flow.
LEMMA TopFrame ==
    ASSUME FlowInv, stack # <<>>
    PROVE  /\ Stacked(stack, next) /\ next \in Nat /\ Covers(stack)
           /\ Failures \subseteq AnyError /\ result = "running"
           /\ Top \in Frame /\ Top = stack[1] /\ Len(stack) \in Nat \ {0}
           /\ Len(stack) = 1 <=> (Top.kind = "flow" /\ Top.depth = 0)
           /\ Len(stack) = 1 => Root(stack) = Top
           /\ Root(stack).phase = "enter" => Top.kind = "flow" /\ Top.phase = "enter" /\ Fresh
<1>1. Top \in Frame /\ Top = stack[1] /\ Len(stack) \in Nat \ {0}
  BY EmptySeq DEF FlowInv, Stacked, Top
<1>2. /\ Len(stack) = 1 <=> (Top.kind = "flow" /\ Top.depth = 0)
      /\ Len(stack) = 1 => Root(stack) = Top
  <2>1. RootLast(stack) /\ 1 \in 1..Len(stack)
    BY <1>1 DEF FlowInv, Stacked
  <2> QED
    BY <1>1, <2>1 DEF RootLast, Root
<1> QED
  BY <1>1, <1>2 DEF FlowInv, Fresh

\* The errors of a command are errors.
LEMMA CommandErrors ==
    ASSUME FlowInv, stack # <<>>, Top.kind # "flow"
    PROVE  /\ Top.cmd \in Commands /\ Command[Top.cmd] \in CommandType
           /\ Command[Top.cmd].outcomes \subseteq AnyError
           /\ Command[Top.cmd].evaluation \subseteq AnyError
           /\ Top.failure \in AnyError
  BY TopFrame, FrameKinds, ProgramAssumption DEF CommandFrame, CommandType, AnyError

\* A row that was recorded with an error, or without one.
LEMMA Failing ==
    ASSUME NEW c, NEW e \in AnyError
    PROVE  /\ ClassifyOutcome(e, c) \in {"Failed", "Cancelled"} => e # NoError
           /\ Normalized(e) \in AnyError /\ ProductError(e) \in AnyError
  BY DEF ClassifyOutcome, Normalized, ProductError, AnyError, Errors, Operational, NoError

\* A command that ends.
LEMMA SettleGoes ==
    ASSUME FlowInv, stack # <<>>, Top.kind # "flow", NEW e \in AnyError, Settle(e)
    PROVE  Goes(next)
<1> DEFINE below == Tail(stack)
           row == Recorded(Top.cmd, Top.seq, Top.depth, Owner(below), e)
<1>1. Len(stack) # 1 /\ Stacked(stack, next) /\ next \in Nat
  BY TopFrame
<1>2. Stacked(below, next) /\ Root(below) = Root(stack) /\ Head(below) = stack[2]
  BY <1>1, BelowStacked
<1>3. Covers(below) /\ Failures \subseteq AnyError /\ Root(below).phase # "enter"
  BY <1>2, TopFrame DEF Covers
<1>4. Top.depth = SequenceDepth(Head(below))
  BY <1>1, <1>2, TopFrame DEF Stacked, DepthsFit
<1>5. /\ row.error \in AnyError /\ row.depth = SequenceDepth(Head(below))
      /\ row.outcome \in {"Failed", "Cancelled"} => row.error # NoError
      /\ ledger' = ledger \cup {row} /\ Return(below, Surfaced(row.outcome, row.error))
  BY <1>4, Failing DEF Recorded, Settle
<1> HIDE DEF below, row
<1> QED
  BY <1>1, <1>2, <1>3, <1>5, RecordAndReturn DEF Goes

LEMMA FinishGoes ==
    ASSUME FlowInv, stack # <<>>, Top.kind # "flow", NEW e \in AnyError, Finish(e)
    PROVE  Goes(next)
  BY Failing, SettleGoes DEF Finish

\* The innermost call goes on: it keeps its place, and what it failed with.
LEMMA SetTopGoes ==
    ASSUME FlowInv, stack # <<>>, NEW f \in Frame, SetTop(f), UNCHANGED ledger,
           f.kind = Top.kind, f.depth = Top.depth, f.seq = Top.seq,
           Len(stack) = 1 => f.phase # "enter"
                             /\ \A e \in Failures : Outweighs(f.failure, e),
           Len(stack) # 1 => Root(stack).phase # "enter"
    PROVE  Goes(next)
<1>1. /\ Stacked(stack', next)
      /\ Root(stack') = IF Len(stack) = 1 THEN f ELSE Root(stack)
  BY TopFrame, TopReplaced DEF SetTop, Top
<1>2. Failures' = Failures
  BY DEF Failures
<1> QED
  BY <1>1, <1>2, TopFrame DEF Goes, Covers

\* Numbers that were given out stay given out.
LEMMA StackedLater ==
    ASSUME NEW s, NEW n \in Nat, Stacked(s, n)
    PROVE  Stacked(s, n + 1)
<1>1. \A k : k \in 1..n => k \in 1..(n + 1)
  OBVIOUS
<1> QED
  BY <1>1 DEF Stacked, Numbered

\* A composite that begins a run.
LEMMA BeginRunGoes ==
    ASSUME FlowInv, stack # <<>>, Top.kind # "flow", BeginRun, UNCHANGED ledger
    PROVE  Goes(next)
<1> DEFINE c == Command[Top.cmd]
           f == [Top EXCEPT !.phase = "running", !.runs = @ + 1, !.mark = next,
                            !.failure = NoError,
                            !.todo = IF c.linked = NoFlow THEN c.children ELSE <<>>]
           call == EnterFrame(c.linked, Top.seq, Top.depth + 1)
           s == <<f>> \o Tail(stack)
<1>1. /\ Top \in CommandFrame /\ Top.seq \in Nat /\ Top.depth \in Nat /\ next \in Nat
      /\ Stacked(stack, next) /\ Len(stack) # 1 /\ Root(stack).phase # "enter"
      /\ c \in CommandType
  BY TopFrame, FrameKinds, CommandErrors
<1>2. f \in CommandFrame /\ f.kind = Top.kind /\ f.depth = Top.depth /\ f.seq = Top.seq
  <2> DEFINE t == IF c.linked = NoFlow THEN c.children ELSE <<>>
             r == Top.runs + 1
  <2>1. t \in Seq(Commands) /\ r \in Nat
    BY <1>1 DEF CommandType, CommandFrame
  <2>2. f = [Top EXCEPT !.phase = "running", !.runs = r, !.mark = next,
                        !.failure = NoError, !.todo = t]
    BY <1>1 DEF CommandFrame
  <2> HIDE DEF t, r, f
  <2> QED
    BY <1>1, <2>1, <2>2 DEF CommandFrame
<1> HIDE DEF f
<1>3. Stacked(s, next) /\ Root(s) = Root(stack) /\ Tail(stack) \in Seq(Frame)
  BY <1>1, <1>2, TopReplaced, HeadTailProperties DEF Frame, Top, Stacked
<1>4. Failures' = Failures
  BY DEF Failures
<1>5. CASE c.linked = NoFlow
  <2>1. stack' = s
    BY <1>5 DEF BeginRun, f
  <2> QED
    BY <1>1, <1>3, <1>4, <2>1, TopFrame DEF Goes, Covers
<1>6. CASE c.linked # NoFlow
  <2>1. call \in Frame /\ call.kind = "flow" /\ call.depth # 0
    BY <1>1, <1>6 DEF EnterFrame, FlowFrame, Frame, CommandType
  <2> HIDE DEF call
  <2>2. stack' = <<call>> \o s
    <3>1. stack' = <<call, f>> \o Tail(stack)
      BY <1>6 DEF BeginRun, f, call
    <3> QED
      BY <1>2, <1>3, <2>1, <3>1 DEF Frame
  <2> HIDE DEF s
  <2>3. Stacked(stack', next) /\ Root(stack') = Root(stack)
    BY <1>1, <1>3, <2>1, <2>2, Pushed
  <2> QED
    BY <1>1, <1>4, <2>3, TopFrame DEF Goes, Covers
<1> QED
  BY <1>5, <1>6

\* A step that goes on preserves the invariant.
LEMMA GoesKeeps ==
    ASSUME result = "running", next' \in Nat, Goes(next'), UNCHANGED result,
           app' \in Apps \cup {NoApp}
    PROVE  FlowInv'
  BY DEF Goes, FlowInv, RootReportsWorst, Stacked

\* A command that is started, or refused under an ended context.
LEMMA StartCommandGoes ==
    ASSUME FlowInv, StartCommand
    PROVE  next' \in Nat /\ Goes(next')
<1> DEFINE c == Head(Top.todo)
           n == next + 1
           depth == SequenceDepth(Top)
           caller == [Top EXCEPT !.todo = Tail(@)]
           below == <<caller>> \o Tail(stack)
<1>1. /\ stack # <<>> /\ next \in Nat /\ next' = n /\ n \in Nat /\ n \in 1..n
      /\ Top \in Frame /\ Root(stack).phase # "enter"
      /\ Top.todo \in Seq(Commands) /\ Top.todo # <<>>
  BY TopFrame, FrameKinds DEF StartCommand, Fresh
<1>2. /\ caller \in Frame /\ caller.kind = Top.kind /\ caller.depth = Top.depth
      /\ caller.seq = Top.seq /\ caller.failure = Top.failure /\ caller.phase = Top.phase
      /\ SequenceDepth(caller) = depth /\ depth \in Nat
  <2> DEFINE t == Tail(Top.todo)
  <2>1. t \in Seq(Commands) /\ caller = [Top EXCEPT !.todo = t]
    BY <1>1
  <2> HIDE DEF t, caller
  <2>2. CASE Top.kind = "flow"
    <3>1. Top \in FlowFrame /\ Top.depth \in Nat
      BY <1>1, <2>2, FrameKinds
    <3>2. caller \in FlowFrame
      BY <2>1, <3>1 DEF FlowFrame
    <3> QED
      BY <2>1, <2>2, <3>1, <3>2 DEF Frame, FlowFrame, SequenceDepth
  <2>3. CASE Top.kind # "flow"
    <3>1. Top \in CommandFrame /\ Top.depth \in Nat
      BY <1>1, <2>3, FrameKinds
    <3>2. caller \in CommandFrame
      BY <2>1, <3>1 DEF CommandFrame
    <3> QED
      BY <2>1, <2>3, <3>1, <3>2 DEF Frame, CommandFrame, SequenceDepth
  <2> QED
    BY <2>2, <2>3
<1>3. c \in Commands
  BY <1>1
<1> HIDE DEF c, n, depth, caller
<1>4. /\ Stacked(below, n) /\ Root(below).phase = Root(stack).phase
      /\ Root(below).failure = Root(stack).failure /\ Head(below) = caller
  <2>1. Stacked(stack, n)
    BY <1>1, TopFrame, StackedLater DEF n
  <2>2. /\ Stacked(below, n)
        /\ Root(below) = IF Len(stack) = 1 THEN caller ELSE Root(stack)
    BY <1>1, <1>2, <2>1, TopReplaced DEF Top
  <2>3. Tail(stack) \in Seq(Frame)
    BY <1>1, <2>1, HeadTailProperties DEF Stacked
  <2>4. Head(below) = caller
    BY <1>2, <2>3
  <2> QED
    BY <1>1, <1>2, <2>2, <2>4, TopFrame
<1> HIDE DEF below
<1>5. Covers(below) /\ Failures \subseteq AnyError
  BY <1>1, <1>4, TopFrame DEF Covers
<1>6. CASE cancelled
  <2> DEFINE row == Recorded(c, n, depth, Top.seq, "cancelled")
  <2>1. ledger' = ledger \cup {row} /\ Return(below, "cancelled")
    BY <1>6 DEF StartCommand, c, n, depth, caller, below
  <2>2. /\ row.error = "cancelled" /\ row.depth = SequenceDepth(Head(below))
        /\ Surfaced(row.outcome, row.error) = "cancelled"
    <3>1. \A o : ClassifyOutcome("cancelled", o) = "Cancelled"
      BY DEF ClassifyOutcome, NoError, Operational
    <3>2. row.error = "cancelled" /\ row.depth = depth /\ row.outcome = "Cancelled"
      BY <3>1 DEF Recorded
    <3> QED
      BY <1>2, <1>4, <3>2 DEF Surfaced
  <2>3. "cancelled" \in AnyError /\ "cancelled" # NoError
    BY DEF AnyError, Errors, NoError
  <2> HIDE DEF row
  <2> QED
    BY <1>1, <1>4, <1>5, <2>1, <2>2, <2>3, RecordAndReturn DEF Goes
<1>7. CASE ~cancelled
  <2> DEFINE call == CallFrame(c, n, depth)
  <2>1. stack' = <<call, caller>> \o Tail(stack) /\ ledger' = ledger
    BY <1>7 DEF StartCommand, c, n, depth, caller
  <2>2. /\ call \in Frame /\ call.kind # "flow" /\ call.depth = SequenceDepth(Head(below))
        /\ call.seq \in 1..n
    BY <1>1, <1>2, <1>3, <1>4, ProgramAssumption
    DEF CallFrame, FirstPhase, CommandFrame, Frame, CommandType, Kinds
  <2> HIDE DEF call
  <2>3. stack' = <<call>> \o below
    <3>1. Tail(stack) \in Seq(Frame)
      BY <1>1, TopFrame, HeadTailProperties DEF Stacked
    <3> QED
      BY <1>2, <2>1, <2>2, <3>1 DEF below
  <2>4. Stacked(stack', n) /\ Root(stack') = Root(below)
    BY <1>1, <1>4, <2>2, <2>3, Pushed
  <2>5. Failures' = Failures
    BY <2>1 DEF Failures
  <2> QED
    BY <1>1, <1>4, <1>5, <2>4, <2>5 DEF Goes, Covers
<1> QED
  BY <1>6, <1>7

\* A flow that is entered, or refused.
LEMMA EnterFlowGoes ==
    ASSUME FlowInv, EnterFlow
    PROVE  Goes(next)
<1>1. /\ stack # <<>> /\ Top.kind = "flow" /\ Top.phase = "enter"
      /\ Top \in FlowFrame /\ Top.flow \in Flows
  BY TopFrame, FrameKinds DEF EnterFlow, TopIs, FlowFrame
<1>2. Len(stack) = 1 => Failures = {}
  BY <1>1, TopFrame DEF FlowInv, Fresh, Failures
<1>3. Len(stack) # 1 => Root(stack).phase # "enter"
  BY <1>1, TopFrame DEF Fresh
<1>4. UNCHANGED ledger
  BY DEF EnterFlow
<1> DEFINE opened == [Top EXCEPT !.phase = "onStart", !.todo = Flow[Top.flow].onStart,
                                 !.opened = TRUE, !.outerApp = app]
           left(e) == [Top EXCEPT !.phase = "leave", !.failure = e]
<1>5. CASE SetTop(opened)
  <2> DEFINE t == Flow[Top.flow].onStart
  <2>1. t \in Seq(Commands)
    BY <1>1, ProgramAssumption DEF FlowType
  <2>2. opened = [Top EXCEPT !.phase = "onStart", !.todo = t, !.opened = TRUE, !.outerApp = app]
    OBVIOUS
  <2> HIDE DEF t, opened
  <2>3. /\ opened \in FlowFrame /\ opened.kind = Top.kind /\ opened.depth = Top.depth
        /\ opened.seq = Top.seq /\ opened.phase = "onStart"
    BY <1>1, <1>5, <2>1, <2>2 DEF FlowFrame, FlowInv
  <2> QED
    BY <1>1, <1>2, <1>3, <1>4, <1>5, <2>3, SetTopGoes DEF Frame
<1>6. ASSUME NEW e \in Errors, SetTop(left(e))
      PROVE  Goes(next)
  <2>1. /\ left(e) \in FlowFrame /\ left(e).kind = Top.kind /\ left(e).depth = Top.depth
        /\ left(e).seq = Top.seq /\ left(e).phase = "leave"
    BY <1>1 DEF FlowFrame
  <2> HIDE DEF left
  <2> QED
    BY <1>1, <1>2, <1>3, <1>4, <1>6, <2>1, SetTopGoes DEF Frame
<1>7. {"cancelled", "integrity", "failure"} \subseteq Errors
  BY DEF Errors
<1> HIDE DEF opened, left
<1> QED
  BY <1>5, <1>6, <1>7 DEF EnterFlow, opened, left

\* A flow that turns to its body, its completion hooks or its end.
LEMMA NextPhaseGoes ==
    ASSUME FlowInv, NextPhase
    PROVE  Goes(next)
<1>1. /\ stack # <<>> /\ Top.kind = "flow" /\ Top \in FlowFrame /\ UNCHANGED ledger
      /\ Flow[Top.flow] \in FlowType
  BY TopFrame, FrameKinds, ProgramAssumption DEF NextPhase, FlowFrame
<1>2. PICK ph \in {"body", "onComplete", "leave"}, t \in Seq(Commands) :
        Top.phase # "enter" /\ SetTop([Top EXCEPT !.phase = ph, !.todo = t])
  <2>1. Top.phase # "enter"
    BY DEF NextPhase, BodyDone
  <2>2. CASE SetTop([Top EXCEPT !.phase = "body", !.todo = Flow[Top.flow].body])
    BY <1>1, <2>1, <2>2 DEF FlowType
  <2>3. CASE SetTop([Top EXCEPT !.phase = "onComplete", !.todo = Flow[Top.flow].onComplete])
    BY <1>1, <2>1, <2>3 DEF FlowType
  <2>4. CASE SetTop([Top EXCEPT !.phase = "leave"])
    <3>1. [Top EXCEPT !.phase = "leave"] = [Top EXCEPT !.phase = "leave", !.todo = Top.todo]
      BY <1>1 DEF FlowFrame
    <3> QED
      BY <1>1, <2>1, <2>4, <3>1 DEF FlowFrame
  <2> QED
    BY <2>2, <2>3, <2>4 DEF NextPhase
<1> DEFINE f == [Top EXCEPT !.phase = ph, !.todo = t]
<1>3. /\ f \in FlowFrame /\ f.kind = Top.kind /\ f.depth = Top.depth /\ f.seq = Top.seq
      /\ f.failure = Top.failure /\ f.phase # "enter"
  BY <1>1, <1>2 DEF FlowFrame
<1>4. Root(stack).phase # "enter"
  BY <1>1, <1>2, TopFrame
<1>5. Len(stack) = 1 => \A e \in Failures : Outweighs(f.failure, e)
  BY <1>1, <1>3, TopFrame DEF Covers
<1> HIDE DEF f
<1> QED
  BY <1>1, <1>2, <1>3, <1>4, <1>5, SetTopGoes DEF Frame, f

\* A flow that is left: it hands its error over, or ends the run.
LEMMA LeaveFlowKeeps ==
    ASSUME FlowInv, LeaveFlow
    PROVE  FlowInv'
<1> DEFINE scope == IF Top.opened THEN AddFailure(Top, PoisonError) ELSE Top.failure
           root == Accumulate(scope, PoisonError)
<1>1. /\ stack # <<>> /\ Top.kind = "flow" /\ Top.phase = "leave" /\ Top \in FlowFrame
      /\ Top.failure \in AnyError /\ UNCHANGED <<ledger, poisoned, next>>
      /\ Root(stack).phase # "enter"
  BY TopFrame, FrameKinds DEF LeaveFlow, TopIs
<1>2. app' \in Apps \cup {NoApp}
  BY <1>1 DEF LeaveFlow, RestoredApp, FlowFrame, FlowInv
<1>3. PoisonError \in AnyError
  BY DEF PoisonError, AnyError, Errors
<1>4. scope \in AnyError
  BY <1>1, <1>3, AccumulateOutweighs DEF AddFailure, FirstError
<1>5. Failures' = Failures /\ Failures \subseteq AnyError /\ PoisonError' = PoisonError
  BY <1>1, TopFrame DEF Failures, PoisonError
<1>6. CASE Top.depth = 0
  <2>1. stack' = <<>> /\ result' = root
    BY <1>6 DEF LeaveFlow
  <2>2. \A e \in Failures : Outweighs(Top.failure, e)
    BY <1>1, <1>6, TopFrame DEF Covers
  <2>3. \A e \in AnyError : Outweighs(Top.failure, e) => Outweighs(scope, e)
    BY <1>1, <1>3, <1>6, AccumulateOutweighs DEF AddFailure
  <2> HIDE DEF scope
  <2>4. \A e \in Failures : Outweighs(root, e)
    BY <1>3, <1>4, <1>5, <2>2, <2>3, AccumulateOutweighs
  <2>5. poisoned => Outweighs(root, "integrity")
    BY <1>3, <1>4, AccumulateOutweighs DEF PoisonError, NoError
  <2>6. root \in AnyError
    BY <1>3, <1>4, AccumulateOutweighs
  <2> HIDE DEF root
  <2>7. RootReportsWorst'
    BY <1>1, <1>5, <2>1, <2>4, <2>5 DEF RootReportsWorst, Outweighs
  <2>8. result' # "running"
    BY <2>1, <2>6 DEF AnyError, Errors, Operational, NoError
  <2> QED
    BY <1>1, <1>2, <1>5, <2>1, <2>7, <2>8, TopFrame DEF FlowInv
<1>7. CASE Top.depth # 0
  <2>1. Return(Tail(stack), scope) /\ UNCHANGED result
    BY <1>7 DEF LeaveFlow
  <2>2. Len(stack) # 1 /\ Stacked(stack, next) /\ next \in Nat
    BY <1>1, <1>7, TopFrame
  <2>3. Stacked(Tail(stack), next) /\ Root(Tail(stack)) = Root(stack)
    BY <2>2, BelowStacked
  <2> HIDE DEF scope
  <2>4. /\ Stacked(stack', next) /\ Root(stack').phase = Root(stack).phase
        /\ Root(stack').failure = IF Len(Tail(stack)) = 1
                                  THEN Accumulate(Root(stack).failure, scope)
                                  ELSE Root(stack).failure
    BY <1>4, <2>1, <2>2, <2>3, ReturnStep
  <2>5. Root(stack).failure \in AnyError
    BY <2>2, RootFrame
  <2>6. Covers(stack)'
    <3>1. \A e \in AnyError :
            Outweighs(Root(stack).failure, e) => Outweighs(Root(stack').failure, e)
      BY <1>4, <2>4, <2>5, AccumulateOutweighs
    <3>2. \A e \in Failures : Outweighs(Root(stack).failure, e) /\ e \in AnyError
      BY <1>1, TopFrame DEF Covers
    <3> QED
      BY <1>5, <3>1, <3>2 DEF Covers
  <2>7. Goes(next')
    BY <1>1, <1>5, <2>4, <2>6 DEF Goes
  <2> QED
    BY <1>1, <1>2, <2>1, <2>2, <2>7, TopFrame, GoesKeeps
<1> QED
  BY <1>6, <1>7

\* Every other step of a command hands its result over or goes on.
LEMMA CommandGoes ==
    ASSUME FlowInv,
           \/ SessionRefuses \/ Evaluate \/ LeafReturns
           \/ CounterFails \/ RetryAttempt \/ RetryAttemptEnds \/ ResetChild
           \/ ConditionFails \/ ConditionFalse \/ ConditionTrue
           \/ RepeatWait \/ RepeatRunEnds \/ RunFlowEnds
    PROVE  Goes(next)
<1>1. stack # <<>> /\ Top.kind # "flow"
  BY DEF SessionRefuses, Evaluate, LeafReturns, CounterFails, RetryAttempt, RetryAttemptEnds,
         ResetChild, ConditionFails, ConditionFalse, ConditionTrue, RepeatWait, RepeatRunEnds,
         RunFlowEnds, TopIs, Conditional
<1>2. /\ Top \in CommandFrame /\ Len(stack) # 1 /\ Root(stack).phase # "enter"
      /\ Stacked(stack, next) /\ Covers(stack) /\ Failures \subseteq AnyError
  BY <1>1, TopFrame, FrameKinds
<1>3. {"cancelled", "integrity", "skipped", NoError} \subseteq AnyError
  BY DEF AnyError, Errors
<1>4. ASSUME NEW ph \in {"act", "reset", "wait", "condition"},
             SetTop([Top EXCEPT !.phase = ph]), UNCHANGED ledger
      PROVE  Goes(next)
  <2> DEFINE f == [Top EXCEPT !.phase = ph]
  <2>1. /\ f \in CommandFrame /\ f.kind = Top.kind /\ f.depth = Top.depth
        /\ f.seq = Top.seq
    BY <1>2 DEF CommandFrame
  <2> HIDE DEF f
  <2> QED
    BY <1>1, <1>2, <1>4, <2>1, SetTopGoes DEF f, Frame
<1>5. CASE SessionRefuses
  BY <1>1, <1>3, <1>5, FinishGoes DEF SessionRefuses
<1>6. CASE Evaluate
  <2>1. ASSUME NEW e \in Command[Top.cmd].evaluation, Settle(Normalized(e))
        PROVE  Goes(next)
    BY <1>1, <2>1, CommandErrors, Failing, SettleGoes
  <2>2. CASE Finish("cancelled")
    BY <1>1, <1>3, <2>2, FinishGoes
  <2>3. CASE SetTop([Top EXCEPT !.phase = "act"]) /\ UNCHANGED ledger
    BY <1>4, <2>3
  <2> QED
    BY <1>6, <2>1, <2>2, <2>3 DEF Evaluate
<1>7. CASE LeafReturns
  <2>1. PICK e \in Command[Top.cmd].outcomes : Finish(e)
    BY <1>7 DEF LeafReturns
  <2> QED
    BY <1>1, <2>1, CommandErrors, FinishGoes
<1>8. CASE CounterFails
  <2>1. PICK e \in Command[Top.cmd].outcomes : Finish(e)
    BY <1>8 DEF CounterFails
  <2> QED
    BY <1>1, <2>1, CommandErrors, FinishGoes
<1>9. CASE RetryAttempt
  <2>1. CASE Finish("cancelled")
    BY <1>1, <1>3, <2>1, FinishGoes
  <2>2. CASE BeginRun /\ UNCHANGED ledger
    BY <1>1, <2>2, BeginRunGoes
  <2> QED
    BY <1>9, <2>1, <2>2 DEF RetryAttempt
<1>10. CASE RetryAttemptEnds
  <2>1. AttemptError(Top) \in AnyError
    BY <1>1, <1>3, CommandErrors DEF AttemptError, FirstError
  <2>2. CASE Finish(AttemptError(Top))
    BY <1>1, <2>1, <2>2, FinishGoes
  <2>3. CASE SetTop([Top EXCEPT !.phase = "reset"]) /\ UNCHANGED ledger
    BY <1>4, <2>3
  <2> QED
    BY <1>10, <2>2, <2>3 DEF RetryAttemptEnds
<1>11. CASE ResetChild
  <2>1. CASE Finish("cancelled")
    BY <1>1, <1>3, <2>1, FinishGoes
  <2>2. CASE UNCHANGED <<stack, ledger>>
    BY <1>2, <2>2 DEF Goes, Covers, Failures
  <2> QED
    BY <1>11, <2>1, <2>2 DEF ResetChild
<1>12. CASE ConditionFails
  <2>1. PICK e \in (IF cancelled THEN {"cancelled"} ELSE Command[Top.cmd].outcomes) : Finish(e)
    BY <1>12 DEF ConditionFails
  <2>2. e \in AnyError
    BY <1>1, <1>3, <2>1, CommandErrors
  <2> QED
    BY <1>1, <2>1, <2>2, FinishGoes
<1>13. CASE ConditionFalse
  <2>1. PICK e \in {"skipped", NoError} : Finish(e)
    BY <1>13 DEF ConditionFalse
  <2> QED
    BY <1>1, <1>3, <2>1, FinishGoes
<1>14. CASE ConditionTrue
  <2>1. CASE BeginRun /\ UNCHANGED ledger
    BY <1>1, <2>1, BeginRunGoes
  <2>2. CASE SetTop([Top EXCEPT !.phase = "wait"]) /\ UNCHANGED ledger
    BY <1>4, <2>2
  <2> QED
    BY <1>14, <2>1, <2>2 DEF ConditionTrue
<1>15. CASE RepeatWait
  <2>1. CASE Finish("cancelled")
    BY <1>1, <1>3, <2>1, FinishGoes
  <2>2. CASE BeginRun /\ UNCHANGED ledger
    BY <1>1, <2>2, BeginRunGoes
  <2> QED
    BY <1>15, <2>1, <2>2 DEF RepeatWait
<1>16. CASE RepeatRunEnds
  <2>1. CASE Finish(Top.failure)
    BY <1>1, <2>1, CommandErrors, FinishGoes
  <2>2. CASE SetTop([Top EXCEPT !.phase = "condition"]) /\ UNCHANGED ledger
    BY <1>4, <2>2
  <2> QED
    BY <1>16, <2>1, <2>2 DEF RepeatRunEnds
<1>17. CASE RunFlowEnds
  BY <1>1, <1>17, CommandErrors, FinishGoes DEF RunFlowEnds
<1> QED
  BY <1>5, <1>6, <1>7, <1>8, <1>9, <1>10, <1>11, <1>12, <1>13, <1>14, <1>15, <1>16, <1>17

-----------------------------------------------------------------------------
(* The theorem                                                             *)

\* A run begins with the invariant.
LEMMA FlowInit == Init => FlowInv
<1> SUFFICES ASSUME Init
             PROVE  FlowInv
  OBVIOUS
<1>1. PICK root \in Roots : stack = <<EnterFrame(root, 0, 0)>>
  BY DEF Init
<1> DEFINE f == EnterFrame(root, 0, 0)
<1>2. f \in Frame /\ f.kind = "flow" /\ f.depth = 0 /\ f.todo = <<>>
  BY ProgramAssumption DEF Init, EnterFrame, Frame, FlowFrame
<1> HIDE DEF f
<1>3. /\ stack = <<f>> /\ stack \in Seq(Frame) /\ Len(stack) = 1 /\ stack[1] = f
      /\ stack # <<>> /\ Top = f
  BY <1>1, <1>2 DEF f, Top
<1>4. Stacked(stack, next)
  BY <1>2, <1>3 DEF Stacked, RootLast, DepthsFit, Numbered, Init
<1>5. Failures = {}
  BY DEF Init, Failures
<1> QED
  BY <1>2, <1>3, <1>4, <1>5 DEF Init, FlowInv, Covers, Fresh, RootReportsWorst

\* Every step of the engine, and the end of the context, keeps it.
LEMMA FlowNext == FlowInv /\ [Next]_vars => FlowInv'
<1> SUFFICES ASSUME FlowInv, [Next]_vars
             PROVE  FlowInv'
  OBVIOUS
<1>1. ASSUME Goes(next), UNCHANGED <<next, result>>, stack # <<>>, app' \in Apps \cup {NoApp}
      PROVE  FlowInv'
  BY <1>1, TopFrame, GoesKeeps
<1>2. app \in Apps \cup {NoApp}
  BY DEF FlowInv
<1>3. CASE StartCommand
  BY <1>2, <1>3, TopFrame, StartCommandGoes, GoesKeeps DEF StartCommand, Quiet
<1>4. CASE EnterFlow
  <2>1. stack # <<>> /\ UNCHANGED <<next, result>>
    BY <1>4 DEF EnterFlow, TopIs
  <2>2. app' \in Apps \cup {NoApp}
    <3>1. Flow[Top.flow] \in FlowType
      BY <1>4, <2>1, TopFrame, FrameKinds, ProgramAssumption DEF EnterFlow, TopIs, FlowFrame
    <3> QED
      BY <1>2, <1>4, <3>1 DEF EnterFlow, FlowType
  <2> QED
    BY <1>1, <1>4, <2>1, <2>2, EnterFlowGoes
<1>5. CASE NextPhase
  BY <1>1, <1>2, <1>5, NextPhaseGoes DEF NextPhase, Quiet
<1>6. CASE LeaveFlow
  BY <1>6, LeaveFlowKeeps
<1>7. CASE \/ SessionRefuses \/ Evaluate \/ LeafReturns
           \/ CounterFails \/ RetryAttempt \/ RetryAttemptEnds \/ ResetChild
           \/ ConditionFails \/ ConditionFalse \/ ConditionTrue
           \/ RepeatWait \/ RepeatRunEnds \/ RunFlowEnds
  <2>1. stack # <<>> /\ UNCHANGED <<next, result, app>>
    BY <1>7 DEF SessionRefuses, Evaluate, LeafReturns, CounterFails, RetryAttempt,
      RetryAttemptEnds, ResetChild, ConditionFails, ConditionFalse, ConditionTrue, RepeatWait,
      RepeatRunEnds, RunFlowEnds, TopIs, Conditional, Quiet
  <2>2. Goes(next)
    BY <1>7, CommandGoes
  <2> QED
    BY <1>1, <1>2, <2>1, <2>2
<1>8. CASE Cancel \/ UNCHANGED vars
  <2>1. UNCHANGED <<stack, app, poisoned, next, ledger, result>>
    BY <1>8 DEF Cancel, vars
  <2>2. /\ UNCHANGED <<Failures, Fresh, RootReportsWorst>>
        /\ Covers(stack)' <=> Covers(stack)
    BY <2>1 DEF Failures, Fresh, Top, RootReportsWorst, Covers
  <2> QED
    BY <2>1, <2>2 DEF FlowInv
<1> QED
  BY <1>3, <1>4, <1>5, <1>6, <1>7, <1>8 DEF Next, Step

\* The run of a root reports an error no weaker than any failure of its own
\* commands, and at least the loss of integrity of a poisoned session, for every
\* program, whatever the failure resolver says (rootFailureAccumulator).
THEOREM RootWorst == Spec => []RootReportsWorst
<1>1. FlowInv => RootReportsWorst
  BY DEF FlowInv
<1> QED
  BY FlowInit, FlowNext, <1>1, PTL DEF Spec

-----------------------------------------------------------------------------
(***************************************************************************)
(* How a step moves the call stack.                                        *)
(***************************************************************************)

\* The innermost call goes on as f; it makes call g; it returns to f.
Turned(f) ==
    /\ Len(stack') = Len(stack) /\ stack' \in Seq(Frame)
    /\ \A i \in 1..Len(stack) : stack'[i] = IF i = 1 THEN f ELSE stack[i]
Grown(g, f) ==
    /\ Len(stack') = Len(stack) + 1 /\ stack' \in Seq(Frame)
    /\ \A i \in 1..Len(stack') : stack'[i] = IF i = 1 THEN g
                                             ELSE IF i = 2 THEN f ELSE stack[i - 1]
Shrunk(f) ==
    /\ Len(stack) > 1 /\ Len(stack') = Len(stack) - 1 /\ stack' \in Seq(Frame)
    /\ \A i \in 1..Len(stack') : stack'[i] = IF i = 1 THEN f ELSE stack[i + 1]

LEMMA TurnedTop ==
    ASSUME NEW s \in Seq(Frame), s # <<>>, s = stack, NEW f \in Frame, stack' = <<f>> \o Tail(s)
    PROVE  Turned(f)
<1>1. /\ Tail(s) \in Seq(Frame) /\ Len(Tail(s)) = Len(s) - 1 /\ Len(s) \in Nat \ {0}
      /\ \A i \in 1..Len(Tail(s)) : Tail(s)[i] = s[i + 1]
  BY HeadTailProperties, EmptySeq
<1>2. <<f>> \in Seq(Frame) /\ Len(<<f>>) = 1 /\ <<f>>[1] = f
  OBVIOUS
<1> QED
  BY <1>1, <1>2, ConcatProperties DEF Turned

LEMMA GrownTop ==
    ASSUME NEW s \in Seq(Frame), s # <<>>, s = stack, NEW f \in Frame, NEW g \in Frame,
           stack' = <<g, f>> \o Tail(s)
    PROVE  Grown(g, f)
<1>1. /\ Tail(s) \in Seq(Frame) /\ Len(Tail(s)) = Len(s) - 1 /\ Len(s) \in Nat \ {0}
      /\ \A i \in 1..Len(Tail(s)) : Tail(s)[i] = s[i + 1]
  BY HeadTailProperties, EmptySeq
<1>2. <<g, f>> \in Seq(Frame) /\ Len(<<g, f>>) = 2 /\ <<g, f>>[1] = g /\ <<g, f>>[2] = f
  OBVIOUS
<1>3. /\ stack' \in Seq(Frame) /\ Len(stack') = 2 + (Len(s) - 1)
      /\ \A i \in 1..(2 + (Len(s) - 1)) :
            stack'[i] = IF i <= 2 THEN <<g, f>>[i] ELSE Tail(s)[i - 2]
  BY <1>1, <1>2, ConcatProperties
<1>4. ASSUME NEW i \in 1..Len(stack'), i # 1, i # 2 PROVE stack'[i] = s[i - 1]
  <2>1. i - 2 \in 1..Len(Tail(s)) /\ (i - 2) + 1 = i - 1 /\ ~(i <= 2)
    BY <1>1, <1>3, <1>4
  <2> QED
    BY <1>1, <1>3, <2>1
<1> QED
  BY <1>1, <1>2, <1>3, <1>4 DEF Grown

LEMMA ShrunkTop ==
    ASSUME NEW s \in Seq(Frame), Len(s) > 1, s = stack, NEW f \in Frame,
           stack' = <<f>> \o Tail(Tail(s))
    PROVE  Shrunk(f)
<1>0. s # <<>>
  BY EmptySeq
<1>1. /\ Tail(s) \in Seq(Frame) /\ Len(Tail(s)) = Len(s) - 1 /\ Len(s) \in Nat
      /\ \A i \in 1..Len(Tail(s)) : Tail(s)[i] = s[i + 1]
  BY <1>0, HeadTailProperties
<1>2. Tail(s) # <<>>
  <2>1. Len(Tail(s)) # 0
    <3>1. \A k \in Nat : k > 1 => k - 1 # 0
      OBVIOUS
    <3> QED
      BY <1>1, <3>1
  <2> QED
    BY <1>1, <2>1, EmptySeq
<1>3. /\ Tail(Tail(s)) \in Seq(Frame) /\ Len(Tail(Tail(s))) = Len(s) - 2
      /\ \A i \in 1..Len(Tail(Tail(s))) : Tail(Tail(s))[i] = s[i + 2]
  <2> DEFINE t == Tail(s)
  <2>1. /\ Tail(t) \in Seq(Frame) /\ Len(Tail(t)) = Len(t) - 1
        /\ \A i \in 1..Len(Tail(t)) : Tail(t)[i] = t[i + 1]
    BY <1>1, <1>2, HeadTailProperties
  <2>2. \A i \in 1..Len(Tail(t)) : i + 1 \in 1..Len(t) /\ (i + 1) + 1 = i + 2
    BY <1>1, <2>1
  <2> QED
    BY <1>1, <2>1, <2>2
<1>4. <<f>> \in Seq(Frame) /\ Len(<<f>>) = 1 /\ <<f>>[1] = f
  OBVIOUS
<1>5. /\ stack' \in Seq(Frame) /\ Len(stack') = 1 + (Len(s) - 2)
      /\ \A i \in 1..(1 + (Len(s) - 2)) :
            stack'[i] = IF i <= 1 THEN <<f>>[i] ELSE Tail(Tail(s))[i - 1]
  BY <1>3, <1>4, ConcatProperties
<1>6. ASSUME NEW i \in 1..Len(stack'), i # 1 PROVE stack'[i] = s[i + 1]
  <2>1. i - 1 \in 1..Len(Tail(Tail(s))) /\ (i - 1) + 2 = i + 1 /\ ~(i <= 1)
    BY <1>1, <1>3, <1>5, <1>6
  <2> QED
    BY <1>3, <1>5, <2>1
<1> QED
  BY <1>1, <1>4, <1>5, <1>6 DEF Shrunk

\* Progress: what a call is about does not change while it goes on or is returned to.
Same(f, g) ==
    /\ g.kind = f.kind /\ g.seq = f.seq /\ g.depth = f.depth
    /\ f.kind = "flow" => /\ g.flow = f.flow /\ g.opened = f.opened
                          /\ g.outerApp = f.outerApp /\ g.mark = f.mark
    /\ f.kind # "flow" => g.cmd = f.cmd

LEMMA Received ==
    ASSUME NEW f \in Frame, NEW e \in AnyError, NEW c \in BOOLEAN, NEW g, g = Receive(f, e, c)
    PROVE  /\ g \in Frame /\ Same(f, g) /\ g.phase = f.phase
           /\ g.failure \in {f.failure, e} /\ g.todo \in {f.todo, <<>>}
           /\ e = NoError => g = f
<1>1. g \in Frame
  BY ReceiveKeeps
<1>2. CASE e = NoError
  BY <1>1, <1>2 DEF Receive, Same
<1>3. CASE e # NoError /\ f.kind = "flow"
  <2> DEFINE a == AddFailure(f, e)
             h == ~c
             t == IF c THEN f.todo ELSE <<>>
  <2>1. a \in {f.failure, e} /\ t \in {f.todo, <<>>}
    BY DEF AddFailure, Accumulate, FirstError
  <2>2. g = [f EXCEPT !.failure = a, !.halted = h, !.todo = t]
    <3>1. f \in FlowFrame
      BY <1>3, FrameKinds
    <3> QED
      BY <1>3, <3>1 DEF Receive, FlowFrame
  <2>3. f \in FlowFrame
    BY <1>3, FrameKinds
  <2> HIDE DEF a, h, t
  <2> QED
    BY <1>1, <1>3, <2>1, <2>2, <2>3 DEF FlowFrame, Same
<1>4. CASE e # NoError /\ f.kind # "flow"
  <2> DEFINE t == <<>>
  <2>1. g = [f EXCEPT !.failure = e, !.todo = t] /\ f \in CommandFrame
    BY <1>4, FrameKinds DEF Receive
  <2>2. t \in {f.todo, <<>>}
    OBVIOUS
  <2> HIDE DEF t
  <2> QED
    BY <1>1, <1>4, <2>1, <2>2 DEF CommandFrame, Same
<1> QED
  BY <1>2, <1>3, <1>4

-----------------------------------------------------------------------------
(***************************************************************************)
(* What every step does, said of the stack, the ledger and the session.    *)
(***************************************************************************)
Lasting == {"cancelled", "integrity"}
SessionKept == scopes' = scopes /\ app' = app /\ cancelled' = cancelled

\* A command goes on, or begins a run.
WentOn(f) ==
    /\ Same(Top, f) /\ f \in CommandFrame /\ f.phase # "evaluate"
    /\ f.failure \in {Top.failure, NoError}
    /\ f.todo # <<>> => f.phase = "running"
    /\ f.kind = "leaf" => f.phase = "act"
CommandTurned == \E f \in Frame : WentOn(f) /\ Turned(f) /\ ledger' = ledger /\ poisoned' = poisoned

CalledFlow(g) ==
    /\ g \in FlowFrame /\ g.kind = "flow" /\ g.phase = "enter" /\ g.depth # 0 /\ ~g.opened
    /\ g.failure = NoError /\ g.todo = <<>> /\ g.mark = next
FlowCalled ==
    \E f \in Frame, g \in Frame :
        /\ WentOn(f) /\ f.phase = "running" /\ CalledFlow(g) /\ Grown(g, f)
        /\ ledger' = ledger /\ poisoned' = poisoned

\* A command ends with e, and hands on what surfaces of it.
EndedWith(e, c, row) ==
    /\ row = Recorded(Top.cmd, Top.seq, Top.depth, stack[2].seq, e)
    /\ ledger' = ledger \cup {row}
    /\ Shrunk(Receive(stack[2], Surfaced(row.outcome, e), c))
    /\ cancelled /\ Executing(Top) => e \in Lasting
    /\ e = "integrity" => poisoned'
    /\ poisoned => poisoned'
CommandEnded == \E e \in AnyError, c \in BOOLEAN : \E row : EndedWith(e, c, row)

\* The sequence on top starts its next command, or has it refused.
Caller == [Top EXCEPT !.todo = Tail(Top.todo)]
CommandStarted ==
    \E g \in CommandFrame :
        /\ g.cmd = Head(Top.todo) /\ g.seq = next + 1 /\ g.phase # "running"
        /\ g.failure = NoError /\ g.todo = <<>>
        /\ g.kind # "flow" /\ g.kind = Command[g.cmd].kind
        /\ g.kind = "leaf" => g.phase = "evaluate"
        /\ Grown(g, Caller) /\ ledger' = ledger
CommandRefused ==
    \E c \in BOOLEAN :
        /\ ledger' = ledger \cup
              {Recorded(Head(Top.todo), next + 1, SequenceDepth(Top), Top.seq, "cancelled")}
        /\ Turned(Receive(Caller, "cancelled", c))

-----------------------------------------------------------------------------
(***************************************************************************)
(* What every call in progress satisfies.                                  *)
(***************************************************************************)
Sound(f, p, n) ==
    /\ f.failure = "integrity" => p
    /\ f.kind # "flow" => /\ f.kind = Command[f.cmd].kind
                          /\ f.todo # <<>> => f.phase = "running"
                          /\ f.kind = "leaf" => f.phase \in {"evaluate", "act"}
    /\ f.kind = "flow" => /\ f.mark <= n
                          /\ f.phase = "enter" => ~f.opened /\ f.todo = <<>>
                          /\ f.phase = "leave" => f.todo = <<>>

\* A call above another one is made by a command that runs, or by a flow that starts a
\* command.
Calling(inner, outer) ==
    /\ outer.kind # "flow" => outer.phase = "running"
    /\ inner.kind = "flow" => outer.kind # "flow"

CallsInv ==
    /\ FlowInv
    /\ \A i \in 1..Len(stack) : Sound(stack[i], poisoned, next)
    /\ \A i \in 1..Len(stack) - 1 : Calling(stack[i], stack[i + 1])

\* A command that ends returns to the call below it.
LEMMA SettleReturns ==
    ASSUME FlowInv, stack # <<>>, Top.kind # "flow", NEW e \in AnyError, Settle(e)
    PROVE  /\ Len(stack) > 1
           /\ ledger' = ledger \cup {Recorded(Top.cmd, Top.seq, Top.depth, stack[2].seq, e)}
           /\ \E c \in BOOLEAN :
                 Shrunk(Receive(stack[2], Surfaced(ClassifyOutcome(e, Command[Top.cmd].optional), e), c))
<1> DEFINE below == Tail(stack)
<1>1. Len(stack) # 1 /\ Stacked(stack, next) /\ next \in Nat /\ Len(stack) \in Nat \ {0}
  BY TopFrame
<1>2. Stacked(below, next) /\ Head(below) = stack[2] /\ below # <<>>
  BY <1>1, BelowStacked DEF Stacked
<1> DEFINE row == Recorded(Top.cmd, Top.seq, Top.depth, stack[2].seq, e)
           out == Surfaced(ClassifyOutcome(e, Command[Top.cmd].optional), e)
<1>3. row.error = e /\ row.outcome = ClassifyOutcome(e, Command[Top.cmd].optional)
  BY DEF Recorded
<1>4. ledger' = ledger \cup {row} /\ Return(below, out)
  BY <1>2, <1>3 DEF Settle, Owner
<1>5. out \in AnyError
  BY DEF Surfaced, AnyError
<1> HIDE DEF out
<1>6. PICK c \in BOOLEAN : stack' = <<Receive(Head(below), out, c)>> \o Tail(below)
  BY <1>4 DEF Return, MayContinue
<1>7. stack \in Seq(Frame) /\ stack[2] \in Frame /\ Len(stack) > 1
  <2>1. Len(stack) > 1
    <3>1. PICK k \in Nat \ {0} : k = Len(stack) /\ k # 1
      BY <1>1
    <3> QED
      BY <3>1
  <2> QED
    BY <1>1, <2>1 DEF Stacked
<1>8. Receive(stack[2], out, c) \in Frame
  BY <1>5, <1>7, Received
<1>9. Shrunk(Receive(stack[2], out, c))
  BY <1>2, <1>6, <1>7, <1>8, ShrunkTop
<1> QED
  BY <1>4, <1>7, <1>9 DEF out

LEMMA SettleEnds ==
    ASSUME FlowInv, stack # <<>>, Top.kind # "flow", NEW e \in AnyError, Settle(e),
           cancelled /\ Executing(Top) => e \in Lasting,
           e = "integrity" => poisoned', poisoned => poisoned'
    PROVE  CommandEnded
<1> DEFINE row == Recorded(Top.cmd, Top.seq, Top.depth, stack[2].seq, e)
<1>1. PICK c \in BOOLEAN :
          Shrunk(Receive(stack[2], Surfaced(ClassifyOutcome(e, Command[Top.cmd].optional), e), c))
  BY SettleReturns
<1>2. ledger' = ledger \cup {row}
  BY SettleReturns
<1>3. row.outcome = ClassifyOutcome(e, Command[Top.cmd].optional)
  BY DEF Recorded
<1> HIDE DEF row
<1>4. Shrunk(Receive(stack[2], Surfaced(row.outcome, e), c))
  BY <1>1, <1>3
<1>5. EndedWith(e, c, row)
  BY <1>2, <1>4 DEF EndedWith, row
<1> QED
  BY <1>5 DEF CommandEnded

LEMMA FinishEnds ==
    ASSUME FlowInv, stack # <<>>, Top.kind # "flow", NEW e \in AnyError, Finish(e),
           e = "integrity" => poisoned', poisoned => poisoned'
    PROVE  CommandEnded
<1>1. ProductError(e) \in AnyError
  BY Failing
<1>2. cancelled => ProductError(e) \in Lasting
  BY DEF ProductError, Normalized, Lasting
<1>3. ProductError(e) = "integrity" => e = "integrity"
  BY DEF ProductError, Normalized
<1> QED
  BY <1>1, <1>2, <1>3, SettleEnds DEF Finish

\* A command that only turns to another phase.
LEMMA PhaseTurns ==
    ASSUME FlowInv, stack # <<>>, Top.kind # "flow", Top.todo = <<>>,
           NEW ph \in {"act", "reset", "wait", "condition"}, Top.kind = "leaf" => ph = "act",
           SetTop([Top EXCEPT !.phase = ph]), UNCHANGED <<ledger, poisoned>>
    PROVE  CommandTurned
<1> DEFINE f == [Top EXCEPT !.phase = ph]
<1>1. Top \in CommandFrame /\ Stacked(stack, next)
  BY TopFrame, FrameKinds
<1>2. f \in CommandFrame /\ Same(Top, f) /\ f.phase = ph /\ f.failure = Top.failure /\ f.todo = <<>>
  BY <1>1 DEF CommandFrame, Same
<1>3. stack' = <<f>> \o Tail(stack)
  BY DEF SetTop
<1> HIDE DEF f
<1>4. Turned(f)
  BY <1>1, <1>2, <1>3, TurnedTop DEF Stacked, Frame
<1>5. WentOn(f)
  BY <1>2 DEF WentOn, Same
<1> QED
  BY <1>2, <1>4, <1>5 DEF CommandTurned, Frame

LEMMA RunBegins ==
    ASSUME FlowInv, stack # <<>>, Top.kind \notin {"flow", "leaf"}, BeginRun,
           UNCHANGED <<ledger, poisoned>>
    PROVE  CommandTurned \/ FlowCalled
<1> DEFINE c == Command[Top.cmd]
           t == IF c.linked = NoFlow THEN c.children ELSE <<>>
           r == Top.runs + 1
           f == [Top EXCEPT !.phase = "running", !.runs = r, !.mark = next,
                            !.failure = NoError, !.todo = t]
           call == EnterFrame(c.linked, Top.seq, Top.depth + 1)
<1>1. /\ Top \in CommandFrame /\ Top.seq \in Nat /\ Top.depth \in Nat /\ next \in Nat
      /\ Stacked(stack, next) /\ c \in CommandType
  BY TopFrame, FrameKinds, CommandErrors
<1>2. f \in CommandFrame /\ Same(Top, f) /\ f.phase = "running" /\ f.failure = NoError /\ f.todo = t
  <2>1. t \in Seq(Commands) /\ r \in Nat
    BY <1>1 DEF CommandType, CommandFrame
  <2> HIDE DEF t, r
  <2> QED
    BY <1>1, <2>1 DEF CommandFrame, Same
<1>3. f = [Top EXCEPT !.phase = "running", !.runs = @ + 1, !.mark = next, !.failure = NoError,
                      !.todo = IF c.linked = NoFlow THEN c.children ELSE <<>>]
  BY <1>1 DEF CommandFrame
<1>4. stack' = (IF c.linked = NoFlow THEN <<f>> ELSE <<call, f>>) \o Tail(stack)
  BY <1>3, Zenon DEF BeginRun
<1> HIDE DEF f, t
<1>5. WentOn(f) /\ f \in Frame
  BY <1>2 DEF WentOn, Frame, Same
<1>6. CASE c.linked = NoFlow
  <2>1. Turned(f)
    BY <1>1, <1>4, <1>5, <1>6, TurnedTop DEF Stacked
  <2> QED
    BY <1>5, <2>1 DEF CommandTurned
<1>7. CASE c.linked # NoFlow
  <2>1. CalledFlow(call) /\ call \in Frame
    BY <1>1, <1>7 DEF EnterFrame, FlowFrame, Frame, CommandType, CalledFlow
  <2> HIDE DEF call
  <2>2. Grown(call, f)
    BY <1>1, <1>4, <1>5, <1>7, <2>1, GrownTop DEF Stacked
  <2> QED
    BY <1>2, <1>5, <2>1, <2>2 DEF FlowCalled
<1> QED
  BY <1>6, <1>7

\* The steps of a command that is under way.
CommandStep ==
    \/ SessionRefuses \/ Evaluate \/ LeafReturns
    \/ CounterFails \/ RetryAttempt \/ RetryAttemptEnds \/ ResetChild
    \/ ConditionFails \/ ConditionFalse \/ ConditionTrue
    \/ RepeatWait \/ RepeatRunEnds \/ RunFlowEnds

CommandDone ==
    \/ CommandTurned \/ FlowCalled \/ CommandEnded
    \/ stack' = stack /\ ledger' = ledger /\ poisoned' = poisoned

LEMMA FinishDone ==
    ASSUME FlowInv, stack # <<>>, Top.kind # "flow", NEW e \in AnyError, Finish(e),
           poisoned' = poisoned, e = "integrity" => poisoned
    PROVE  CommandDone
  BY FinishEnds DEF CommandDone

LEMMA PhaseDone ==
    ASSUME FlowInv, stack # <<>>, Top.kind # "flow", Top.todo = <<>>,
           NEW ph \in {"act", "reset", "wait", "condition"}, Top.kind = "leaf" => ph = "act",
           SetTop([Top EXCEPT !.phase = ph]), ledger' = ledger, poisoned' = poisoned
    PROVE  CommandDone
  BY PhaseTurns DEF CommandDone

LEMMA RunDone ==
    ASSUME FlowInv, stack # <<>>, Top.kind \notin {"flow", "leaf"}, BeginRun,
           ledger' = ledger, poisoned' = poisoned
    PROVE  CommandDone
  BY RunBegins DEF CommandDone

LEMMA CommandCases ==
    ASSUME CallsInv, CommandStep
    PROVE  /\ stack # <<>> /\ Top.kind # "flow" /\ SessionKept /\ next' = next
           /\ CommandDone
<1>1. stack # <<>> /\ Top.kind # "flow" /\ SessionKept /\ next' = next
  BY DEF CommandStep, SessionRefuses, Evaluate, LeafReturns, CounterFails, RetryAttempt,
         RetryAttemptEnds, ResetChild, ConditionFails, ConditionFalse, ConditionTrue, RepeatWait,
         RepeatRunEnds, RunFlowEnds, TopIs, Conditional, Quiet, SessionKept
<1>2. FlowInv /\ Sound(Top, poisoned, next) /\ Top \in CommandFrame
  BY <1>1, TopFrame, FrameKinds DEF CallsInv
<1>3. Top.phase # "running" => Top.todo = <<>>
  BY <1>1, <1>2 DEF Sound
<1>4. /\ Top.cmd \in Commands /\ Command[Top.cmd].outcomes \subseteq AnyError
      /\ Command[Top.cmd].evaluation \subseteq AnyError /\ Top.failure \in AnyError
      /\ "integrity" \in Command[Top.cmd].outcomes => Top.kind = "leaf"
      /\ "integrity" \notin Command[Top.cmd].evaluation
  BY <1>1, <1>2, CommandErrors, SessionAssumption DEF Sound
<1>5. {"cancelled", "integrity", "skipped", NoError} \subseteq AnyError /\ NoError # "integrity"
  BY DEF AnyError, Errors, NoError
<1>6. Top.failure = "integrity" => poisoned
  BY <1>2 DEF Sound
<1>10. CASE SessionRefuses
  BY <1>1, <1>2, <1>5, FinishDone, <1>10 DEF SessionRefuses, RefusedBySession, Quiet
<1>11. CASE Evaluate
  <2>0. Top.phase = "evaluate" /\ UNCHANGED poisoned
    BY <1>11 DEF Evaluate, TopIs, Quiet
  <2>1. CASE \E e \in Command[Top.cmd].evaluation : Settle(Normalized(e))
    <3>0. PICK e \in Command[Top.cmd].evaluation : Settle(Normalized(e))
      BY <2>1
    <3>1. Normalized(e) \in AnyError /\ Normalized(e) # "integrity"
      BY <1>4, Failing DEF Normalized
    <3>2. ~Executing(Top)
      BY <2>0 DEF Executing
    <3> QED
      BY <1>1, <1>2, <2>0, <3>0, <3>1, <3>2, SettleEnds DEF CommandDone
  <2>2. CASE Finish("cancelled")
    BY <1>1, <1>2, <1>5, FinishDone, <2>0, <2>2
  <2>3. CASE SetTop([Top EXCEPT !.phase = "act"]) /\ UNCHANGED ledger
    BY <1>3, <1>1, <1>2, PhaseDone, <2>0, <2>3
  <2> QED
    BY <1>11, <2>1, <2>2, <2>3 DEF Evaluate
<1>12. CASE LeafReturns
  <2>1. PICK e \in Command[Top.cmd].outcomes : Finish(e) /\ poisoned' = (poisoned \/ e = "integrity")
    BY <1>12 DEF LeafReturns
  <2> QED
    BY <1>1, <1>2, <1>4, <2>1, FinishEnds DEF CommandDone
<1>13. CASE CounterFails
  <2>1. PICK e \in Command[Top.cmd].outcomes : Finish(e)
    BY <1>13 DEF CounterFails
  <2>2. Top.kind # "leaf" /\ UNCHANGED poisoned
    BY <1>13 DEF CounterFails, TopIs, Quiet
  <2> QED
    BY <1>1, <1>2, <1>4, FinishDone, <2>1, <2>2
<1>14. CASE RetryAttempt
  <2>1. UNCHANGED poisoned /\ Top.kind = "retry"
    BY <1>14 DEF RetryAttempt, TopIs, Quiet
  <2>2. CASE Finish("cancelled")
    BY <1>1, <1>2, <1>5, FinishDone, <2>1, <2>2
  <2>3. CASE BeginRun /\ UNCHANGED ledger
    BY <1>1, <1>2, RunDone, <2>1, <2>3
  <2> QED
    BY <1>14, <2>2, <2>3 DEF RetryAttempt
<1>15. CASE RetryAttemptEnds
  <2>1. UNCHANGED poisoned /\ Top.todo = <<>> /\ Top.kind = "retry"
    BY <1>15 DEF RetryAttemptEnds, Quiet, RunEnded
  <2>2. AttemptError(Top) \in AnyError /\ (AttemptError(Top) = "integrity" => poisoned)
    BY <1>4, <1>5, <1>6 DEF AttemptError, FirstError
  <2>3. CASE Finish(AttemptError(Top))
    BY <1>1, <1>2, FinishDone, <2>1, <2>2, <2>3
  <2>4. CASE SetTop([Top EXCEPT !.phase = "reset"]) /\ UNCHANGED ledger
    BY <1>1, <1>2, PhaseDone, <2>1, <2>4
  <2> QED
    BY <1>15, <2>3, <2>4 DEF RetryAttemptEnds
<1>16. CASE ResetChild
  <2>1. UNCHANGED poisoned
    BY <1>16 DEF ResetChild
  <2>2. CASE Finish("cancelled")
    BY <1>1, <1>2, <1>5, FinishDone, <2>1, <2>2
  <2>3. CASE UNCHANGED <<stack, ledger>>
    <3>1. stack' = stack /\ ledger' = ledger /\ poisoned' = poisoned
      BY <2>1, <2>3
    <3> QED
      BY <1>1, <3>1 DEF CommandDone
  <2> QED
    BY <1>16, <2>2, <2>3 DEF ResetChild
<1>17. CASE ConditionFails
  <2>1. PICK e \in (IF cancelled THEN {"cancelled"} ELSE Command[Top.cmd].outcomes) : Finish(e)
    BY <1>17 DEF ConditionFails
  <2>2. UNCHANGED poisoned /\ Top.phase = "condition"
    BY <1>17 DEF ConditionFails, Conditional, Quiet
  <2>3. Top.kind # "leaf"
    BY <1>1, <1>2, <2>2 DEF Sound
  <2> QED
    BY <1>1, <1>2, <1>4, <1>5, FinishDone, <2>1, <2>2, <2>3
<1>18. CASE ConditionFalse
  <2>1. PICK e \in {"skipped", NoError} : Finish(e)
    BY <1>18 DEF ConditionFalse
  <2>2. UNCHANGED poisoned
    BY <1>18 DEF ConditionFalse, Quiet
  <2> QED
    BY <1>1, <1>2, <1>5, FinishDone, <2>1, <2>2
<1>19. CASE ConditionTrue
  <2>1. UNCHANGED poisoned /\ Top.todo = <<>> /\ Top.kind # "leaf"
    BY <1>1, <1>2, <1>3, <1>19 DEF ConditionTrue, Conditional, Quiet, Sound
  <2>2. CASE BeginRun /\ UNCHANGED ledger
    BY <1>1, <1>2, RunDone, <2>1, <2>2
  <2>3. CASE SetTop([Top EXCEPT !.phase = "wait"]) /\ UNCHANGED ledger
    BY <1>1, <1>2, PhaseDone, <2>1, <2>3
  <2> QED
    BY <1>19, <2>2, <2>3 DEF ConditionTrue
<1>20. CASE RepeatWait
  <2>1. UNCHANGED poisoned /\ Top.kind = "repeat"
    BY <1>20 DEF RepeatWait, TopIs
  <2>2. CASE Finish("cancelled")
    BY <1>1, <1>2, <1>5, FinishDone, <2>1, <2>2
  <2>3. CASE BeginRun /\ UNCHANGED ledger
    BY <1>1, <1>2, RunDone, <2>1, <2>3
  <2> QED
    BY <1>20, <2>2, <2>3 DEF RepeatWait
<1>21. CASE RepeatRunEnds
  <2>1. UNCHANGED poisoned /\ Top.todo = <<>> /\ Top.kind = "repeat"
    BY <1>21 DEF RepeatRunEnds, Quiet, RunEnded
  <2>2. CASE Finish(Top.failure)
    BY <1>1, <1>2, <1>4, <1>6, FinishDone, <2>1, <2>2
  <2>3. CASE SetTop([Top EXCEPT !.phase = "condition"]) /\ UNCHANGED ledger
    BY <1>1, <1>2, PhaseDone, <2>1, <2>3
  <2> QED
    BY <1>21, <2>2, <2>3 DEF RepeatRunEnds
<1>22. CASE RunFlowEnds
  <2>1. UNCHANGED poisoned /\ Finish(Top.failure)
    BY <1>22 DEF RunFlowEnds, Quiet
  <2> QED
    BY <1>1, <1>2, <1>4, <1>6, FinishDone, <2>1
<1>23. CommandDone
  BY <1>10, <1>11, <1>12, <1>13, <1>14, <1>15, <1>16, <1>17, <1>18, <1>19, <1>20, <1>21, <1>22
  DEF CommandStep
<1> QED
  BY <1>1, <1>23

LEMMA TopMoves ==
    ASSUME FlowInv, stack # <<>>
    PROVE  /\ Top \in Frame /\ Top = stack[1] /\ stack \in Seq(Frame) /\ next \in Nat
           /\ Len(stack) \in Nat \ {0}
           /\ \A i \in 1..Len(stack) : stack[i] \in Frame
  BY TopFrame DEF Stacked

\* The next command of the sequence on top.
LEMMA StartCases ==
    ASSUME CallsInv, StartCommand
    PROVE  /\ stack # <<>> /\ Top.todo # <<>> /\ SessionKept
           /\ poisoned' = poisoned /\ next' = next + 1
           /\ Caller \in Frame /\ Same(Top, Caller) /\ Caller.phase = Top.phase
           /\ Caller.failure = Top.failure /\ Caller.todo = Tail(Top.todo)
           /\ IF cancelled THEN CommandRefused ELSE CommandStarted
<1>1. FlowInv /\ stack # <<>> /\ Top.todo # <<>>
  BY DEF CallsInv, StartCommand
<1>2. /\ SessionKept /\ poisoned' = poisoned /\ next' = next + 1
  BY DEF StartCommand, Quiet, SessionKept
<1>3. Top \in Frame /\ stack \in Seq(Frame) /\ next \in Nat /\ Top.todo \in Seq(Commands)
  BY <1>1, TopMoves, FrameKinds
<1>4. /\ Caller \in Frame /\ Same(Top, Caller) /\ Caller.phase = Top.phase
      /\ Caller.failure = Top.failure /\ Caller.todo = Tail(Top.todo)
  <2> DEFINE t == Tail(Top.todo)
  <2>1. t \in Seq(Commands) /\ Caller = [Top EXCEPT !.todo = t]
    BY <1>1, <1>3 DEF Caller
  <2> HIDE DEF t
  <2>2. CASE Top.kind = "flow"
    <3>1. Top \in FlowFrame
      BY <1>3, <2>2, FrameKinds
    <3>2. /\ Caller \in FlowFrame /\ Same(Top, Caller) /\ Caller.phase = Top.phase
          /\ Caller.failure = Top.failure /\ Caller.todo = t
      BY <2>1, <3>1 DEF FlowFrame, Same
    <3> QED
      BY <3>2 DEF Frame, t
  <2>3. CASE Top.kind # "flow"
    <3>1. Top \in CommandFrame
      BY <1>3, <2>3, FrameKinds
    <3>2. /\ Caller \in CommandFrame /\ Same(Top, Caller) /\ Caller.phase = Top.phase
          /\ Caller.failure = Top.failure /\ Caller.todo = t
      BY <2>1, <3>1 DEF CommandFrame, Same
    <3> QED
      BY <3>2 DEF Frame, t
  <2> QED
    BY <2>2, <2>3
<1> DEFINE c == Head(Top.todo)
           n == next + 1
           depth == SequenceDepth(Top)
           call == CallFrame(c, n, depth)
           row == Recorded(c, n, depth, Top.seq, "cancelled")
<1>5. /\ cancelled => ledger' = ledger \cup {row} /\ Return(<<Caller>> \o Tail(stack), "cancelled")
      /\ ~cancelled => stack' = <<call, Caller>> \o Tail(stack) /\ ledger' = ledger
  BY <1>1, <1>3 DEF StartCommand, Caller
<1>6. CASE cancelled
  <2> DEFINE below == <<Caller>> \o Tail(stack)
  <2>1. Tail(stack) \in Seq(Frame)
    BY <1>1, <1>3, HeadTailProperties
  <2>2. below # <<>> /\ Head(below) = Caller /\ Tail(below) = Tail(stack)
    <3> DEFINE s == Tail(stack)
    <3> HIDE DEF s
    <3>1. s \in Seq(Frame)
      BY <2>1 DEF s
    <3>2. Head(<<Caller>> \o s) = Caller /\ Tail(<<Caller>> \o s) = s /\ <<Caller>> \o s # <<>>
      BY <1>4, <3>1
    <3> QED
      BY <3>2 DEF s
  <2> HIDE DEF below
  <2>3. Return(below, "cancelled")
    BY <1>5, <1>6 DEF below
  <2>4. PICK d \in BOOLEAN : stack' = <<Receive(Caller, "cancelled", d)>> \o Tail(stack)
    BY <2>2, <2>3 DEF Return, MayContinue
  <2>5. "cancelled" \in AnyError
    BY DEF AnyError, Errors
  <2>6. Receive(Caller, "cancelled", d) \in Frame
    BY <1>4, <2>5, Received
  <2>7. Turned(Receive(Caller, "cancelled", d))
    BY <1>1, <1>3, <2>4, <2>6, TurnedTop
  <2>8. ledger' = ledger \cup {row}
    BY <1>5, <1>6
  <2> HIDE DEF row
  <2>9. CommandRefused
    BY <2>7, <2>8 DEF CommandRefused, row
  <2> QED
    BY <1>1, <1>2, <1>4, <1>6, <2>9
<1>7. CASE ~cancelled
  <2>1. c \in Commands /\ n \in Nat /\ depth \in Nat
    <3>1. Top.depth \in Nat
      BY <1>3, FrameKinds
    <3> QED
      BY <1>1, <1>3, <3>1 DEF SequenceDepth
  <2> HIDE DEF c, depth
  <2>2. /\ call \in CommandFrame /\ call.cmd = c /\ call.seq = n /\ call.phase # "running"
        /\ call.failure = NoError /\ call.todo = <<>> /\ call.kind # "flow"
        /\ call.kind = Command[call.cmd].kind /\ (call.kind = "leaf" => call.phase = "evaluate")
    BY <1>3, <2>1, ProgramAssumption DEF CallFrame, FirstPhase, CommandFrame, CommandType, Kinds
  <2> HIDE DEF call
  <2>3. Grown(call, Caller)
    BY <1>1, <1>3, <1>4, <1>5, <1>7, <2>2, GrownTop DEF Frame
  <2>4. CommandStarted
    BY <1>5, <1>7, <2>2, <2>3 DEF CommandStarted, c
  <2> QED
    BY <1>1, <1>2, <1>4, <1>7, <2>4
<1> QED
  BY <1>6, <1>7

\* What changes of a flow that is entered, or cannot be.
Opened(f) ==
    /\ f.phase = "onStart" /\ f.opened /\ f.outerApp = app /\ f.failure = Top.failure
    /\ ~poisoned /\ scopes' = <<Top.flow>> \o scopes /\ app' = Flow[Top.flow].app
Refused(f) ==
    /\ f.phase = "leave" /\ f.todo = <<>> /\ ~f.opened
    /\ f.failure = "integrity" => poisoned
    /\ cancelled => f.failure = "cancelled"
    /\ scopes' = scopes /\ app' = app

LEMMA EnterCases ==
    ASSUME CallsInv, EnterFlow
    PROVE  /\ stack # <<>> /\ Top.kind = "flow" /\ Top \in FlowFrame /\ Top.phase = "enter"
           /\ ~Top.opened /\ Top.todo = <<>> /\ cancelled' = cancelled /\ poisoned' = poisoned
           /\ next' = next /\ ledger' = ledger /\ result' = result
           /\ \E f \in FlowFrame :
                /\ Turned(f) /\ f.kind = "flow" /\ f.flow = Top.flow /\ f.seq = Top.seq
                /\ f.depth = Top.depth /\ f.mark = Top.mark
                /\ Opened(f) \/ Refused(f)
<1>1. FlowInv /\ stack # <<>> /\ Top.kind = "flow" /\ Top.phase = "enter"
  BY DEF CallsInv, EnterFlow, TopIs
<1>2. Top \in FlowFrame /\ Top = stack[1] /\ stack \in Seq(Frame) /\ 1 \in 1..Len(stack)
  BY <1>1, TopMoves, FrameKinds
<1>3. ~Top.opened /\ Top.todo = <<>>
  BY <1>1, <1>2 DEF CallsInv, Sound
<1>4. /\ cancelled' = cancelled /\ poisoned' = poisoned /\ next' = next /\ ledger' = ledger
      /\ result' = result
  BY DEF EnterFlow
<1>5. app \in Apps \cup {NoApp}
  BY <1>1 DEF FlowInv
<1>6. CASE /\ ~poisoned
           /\ SetTop([Top EXCEPT !.phase = "onStart", !.todo = Flow[Top.flow].onStart,
                                 !.opened = TRUE, !.outerApp = app])
           /\ scopes' = <<Top.flow>> \o scopes
           /\ app' = Flow[Top.flow].app
  <2> DEFINE t == Flow[Top.flow].onStart
             f == [Top EXCEPT !.phase = "onStart", !.todo = t, !.opened = TRUE, !.outerApp = app]
  <2>1. t \in Seq(Commands)
    BY <1>2, ProgramAssumption DEF FlowType, FlowFrame
  <2>2. stack' = <<f>> \o Tail(stack)
    BY <1>6 DEF SetTop
  <2> HIDE DEF t
  <2>3. /\ f \in FlowFrame /\ f.kind = "flow" /\ f.flow = Top.flow /\ f.seq = Top.seq
        /\ f.depth = Top.depth /\ f.mark = Top.mark /\ f.phase = "onStart" /\ f.opened
        /\ f.outerApp = app /\ f.failure = Top.failure
    BY <1>1, <1>2, <1>5, <2>1 DEF FlowFrame
  <2> HIDE DEF f
  <2>4. Turned(f)
    BY <1>1, <1>2, <2>2, <2>3, TurnedTop DEF Frame
  <2>5. Opened(f)
    BY <1>6, <2>3 DEF Opened
  <2> QED
    BY <1>1, <1>2, <1>3, <1>4, <2>3, <2>4, <2>5
<1>7. ASSUME NEW e \in {"cancelled", "integrity", "failure"}, e = "integrity" => poisoned,
             cancelled => e = "cancelled",
             SetTop([Top EXCEPT !.phase = "leave", !.failure = e]), scopes' = scopes, app' = app
      PROVE  \E f \in FlowFrame :
                /\ Turned(f) /\ f.kind = "flow" /\ f.flow = Top.flow /\ f.seq = Top.seq
                /\ f.depth = Top.depth /\ f.mark = Top.mark
                /\ Opened(f) \/ Refused(f)
  <2> DEFINE f == [Top EXCEPT !.phase = "leave", !.failure = e]
  <2>1. e \in Errors
    BY DEF Errors
  <2>2. stack' = <<f>> \o Tail(stack)
    BY <1>7 DEF SetTop
  <2>3. /\ f \in FlowFrame /\ f.kind = "flow" /\ f.flow = Top.flow /\ f.seq = Top.seq
        /\ f.depth = Top.depth /\ f.mark = Top.mark /\ f.phase = "leave" /\ ~f.opened
        /\ f.failure = e /\ f.todo = <<>>
    BY <1>1, <1>2, <1>3, <2>1 DEF FlowFrame
  <2> HIDE DEF f
  <2>4. Turned(f)
    BY <1>1, <1>2, <2>2, <2>3, TurnedTop DEF Frame
  <2>5. Refused(f)
    BY <1>7, <2>3 DEF Refused
  <2> QED
    BY <2>3, <2>4, <2>5
<1>8. \/ /\ ~poisoned
         /\ SetTop([Top EXCEPT !.phase = "onStart", !.todo = Flow[Top.flow].onStart,
                               !.opened = TRUE, !.outerApp = app])
         /\ scopes' = <<Top.flow>> \o scopes
         /\ app' = Flow[Top.flow].app
      \/ \E e \in {"cancelled", "integrity", "failure"} :
            /\ e = "integrity" => poisoned
            /\ cancelled => e = "cancelled"
            /\ SetTop([Top EXCEPT !.phase = "leave", !.failure = e]) /\ scopes' = scopes /\ app' = app
  BY DEF EnterFlow
<1> QED
  BY <1>1, <1>2, <1>3, <1>4, <1>6, <1>7, <1>8

\* A flow that turns to its body, its completion hooks or its end.
FlowTurned(f) ==
    /\ Same(Top, f) /\ f.kind = "flow" /\ f.failure = Top.failure /\ Turned(f)
    /\ \/ f.phase = "body"
       \/ f.phase = "onComplete" /\ f.todo = Flow[Top.flow].onComplete
       \/ /\ f.phase = "leave" /\ f.todo = <<>>
          /\ Top.phase = "onComplete" \/ Top.failure = "integrity"

LEMMA PhaseCases ==
    ASSUME CallsInv, NextPhase
    PROVE  /\ stack # <<>> /\ Top.kind = "flow" /\ Top \in FlowFrame /\ Top.todo = <<>>
           /\ Top.phase \in {"onStart", "body", "onComplete"}
           /\ SessionKept /\ poisoned' = poisoned /\ next' = next /\ ledger' = ledger
           /\ result' = result /\ \E f \in FlowFrame : FlowTurned(f)
<1>1. /\ FlowInv /\ stack # <<>> /\ Top.kind = "flow" /\ Top.todo = <<>>
      /\ Top.phase \in {"onStart", "body", "onComplete"}
      /\ SessionKept /\ poisoned' = poisoned /\ next' = next /\ ledger' = ledger
      /\ result' = result
  BY DEF CallsInv, NextPhase, BodyDone, Quiet, SessionKept
<1>2. Top \in FlowFrame /\ stack \in Seq(Frame) /\ Flow[Top.flow] \in FlowType
  BY <1>1, TopMoves, FrameKinds, ProgramAssumption DEF FlowFrame
<1>3. ASSUME NEW ph \in {"body", "onComplete", "leave"}, NEW t \in Seq(Commands),
             SetTop([Top EXCEPT !.phase = ph, !.todo = t]),
             ph = "onComplete" => t = Flow[Top.flow].onComplete,
             ph = "leave" => t = <<>> /\ (Top.phase = "onComplete" \/ Top.failure = "integrity")
      PROVE  \E f \in FlowFrame : FlowTurned(f)
  <2> DEFINE f == [Top EXCEPT !.phase = ph, !.todo = t]
  <2>1. /\ f \in FlowFrame /\ Same(Top, f) /\ f.kind = "flow" /\ f.failure = Top.failure
        /\ f.phase = ph /\ f.todo = t
    BY <1>1, <1>2, <1>3 DEF FlowFrame, Same
  <2>2. stack' = <<f>> \o Tail(stack)
    BY <1>3 DEF SetTop
  <2> HIDE DEF f
  <2>3. Turned(f)
    BY <1>1, <1>2, <2>1, <2>2, TurnedTop DEF Frame
  <2> QED
    BY <1>3, <2>1, <2>3 DEF FlowTurned
<1>4. \E f \in FlowFrame : FlowTurned(f)
  <2>1. CASE SetTop([Top EXCEPT !.phase = "body", !.todo = Flow[Top.flow].body])
    BY <1>2, <1>3, <2>1 DEF FlowType
  <2>2. CASE SetTop([Top EXCEPT !.phase = "onComplete", !.todo = Flow[Top.flow].onComplete])
    BY <1>2, <1>3, <2>2 DEF FlowType
  <2>3. CASE /\ SetTop([Top EXCEPT !.phase = "leave"])
             /\ Top.phase = "onComplete" \/ Top.failure = "integrity"
    <3>1. [Top EXCEPT !.phase = "leave"] = [Top EXCEPT !.phase = "leave", !.todo = <<>>]
      BY <1>1, <1>2 DEF FlowFrame
    <3>2. <<>> \in Seq(Commands)
      OBVIOUS
    <3> QED
      BY <1>3, <2>3, <3>1, <3>2
  <2> QED
    BY <2>1, <2>2, <2>3 DEF NextPhase, Completes
<1> QED
  BY <1>1, <1>2, <1>4

\* A flow that is left.
ScopeError == IF Top.opened THEN AddFailure(Top, PoisonError) ELSE Top.failure

LEMMA LeaveCases ==
    ASSUME CallsInv, LeaveFlow
    PROVE  /\ stack # <<>> /\ Top.kind = "flow" /\ Top \in FlowFrame /\ Top.phase = "leave"
           /\ cancelled' = cancelled /\ poisoned' = poisoned /\ next' = next /\ ledger' = ledger
           /\ scopes' = (IF Top.opened THEN Tail(scopes) ELSE scopes)
           /\ app' = RestoredApp(Top) /\ ScopeError \in AnyError
           /\ ScopeError = "integrity" => poisoned
           /\ \/ Len(stack) = 1 /\ Top.depth = 0 /\ stack' = <<>>
                 /\ result' = Accumulate(ScopeError, PoisonError)
              \/ Len(stack) > 1 /\ result' = result
                 /\ \E c \in BOOLEAN : Shrunk(Receive(stack[2], ScopeError, c))
<1>1. FlowInv /\ stack # <<>> /\ Top.kind = "flow" /\ Top.phase = "leave"
  BY DEF CallsInv, LeaveFlow, TopIs
<1>2. /\ Top \in FlowFrame /\ Top = stack[1] /\ stack \in Seq(Frame) /\ 1 \in 1..Len(stack)
      /\ Stacked(stack, next) /\ next \in Nat /\ Len(stack) \in Nat \ {0}
  BY <1>1, TopMoves, TopFrame, FrameKinds
<1>3. /\ cancelled' = cancelled /\ poisoned' = poisoned /\ next' = next /\ ledger' = ledger
      /\ scopes' = (IF Top.opened THEN Tail(scopes) ELSE scopes) /\ app' = RestoredApp(Top)
  BY DEF LeaveFlow
<1>4. ScopeError \in AnyError /\ (ScopeError = "integrity" => poisoned)
  <2>1. Top.failure \in AnyError /\ (Top.failure = "integrity" => poisoned)
    BY <1>2, FrameKinds DEF CallsInv, Sound, Frame
  <2>2. PoisonError \in AnyError /\ (PoisonError = "integrity" => poisoned)
    BY DEF PoisonError, AnyError, Errors, NoError
  <2>3. ScopeError \in {Top.failure, PoisonError}
    BY DEF ScopeError, AddFailure, Accumulate, FirstError
  <2> QED
    BY <2>1, <2>2, <2>3
<1>5. CASE Top.depth = 0
  <2>1. Len(stack) = 1
    BY <1>1, <1>5, TopFrame
  <2>2. stack' = <<>> /\ result' = Accumulate(ScopeError, PoisonError)
    BY <1>5 DEF LeaveFlow, ScopeError
  <2> QED
    BY <1>1, <1>2, <1>3, <1>4, <1>5, <2>1, <2>2
<1>6. CASE Top.depth # 0
  <2>1. Len(stack) # 1
    BY <1>1, <1>6, TopFrame
  <2>2. Len(stack) > 1
    <3>1. PICK k \in Nat \ {0} : k = Len(stack) /\ k # 1
      BY <1>2, <2>1
    <3> QED
      BY <3>1
  <2>3. Return(Tail(stack), ScopeError) /\ result' = result
    BY <1>6 DEF LeaveFlow, ScopeError
  <2> DEFINE below == Tail(stack)
  <2>4. Head(below) = stack[2] /\ stack[2] \in Frame
    BY <1>2, <2>1, <2>2, BelowStacked
  <2>5. PICK c \in BOOLEAN : stack' = <<Receive(Head(below), ScopeError, c)>> \o Tail(below)
    BY <2>3 DEF Return, MayContinue
  <2>6. Receive(stack[2], ScopeError, c) \in Frame
    BY <1>4, <2>4, Received
  <2>7. Shrunk(Receive(stack[2], ScopeError, c))
    BY <1>2, <2>2, <2>4, <2>5, <2>6, ShrunkTop
  <2> QED
    BY <1>1, <1>2, <1>3, <1>4, <2>2, <2>3, <2>7
<1> QED
  BY <1>5, <1>6

Frames(s, p, n) ==
    /\ \A i \in 1..Len(s) : Sound(s[i], p, n)
    /\ \A i \in 1..Len(s) - 1 : Calling(s[i], s[i + 1])

\* What holds of a call goes on to hold.
LEMMA SoundLater ==
    ASSUME NEW f, NEW p, NEW q, p => q, NEW m \in Nat, NEW n \in Nat, m <= n, Sound(f, p, m),
           f \in Frame
    PROVE  Sound(f, q, n)
<1>1. f.kind = "flow" => f.mark \in Nat
  BY FrameKinds DEF FlowFrame
<1> QED
  BY <1>1 DEF Sound

LEMMA TurnKeeps ==
    ASSUME CallsInv, stack # <<>>, poisoned => poisoned', next' \in Nat, next <= next',
           NEW f, Turned(f), f.kind = Top.kind, Sound(f, poisoned', next')
    PROVE  Frames(stack', poisoned', next')
<1>1. /\ Top = stack[1] /\ Len(stack) \in Nat \ {0} /\ next \in Nat
      /\ \A i \in 1..Len(stack) : stack[i] \in Frame
  BY TopMoves DEF CallsInv
<1>2. ASSUME NEW i \in 1..Len(stack')
      PROVE  Sound(stack'[i], poisoned', next')
  <2>1. CASE i = 1
    BY <2>1, <1>1 DEF Turned
  <2>2. CASE i # 1
    <3>1. i \in 1..Len(stack) /\ stack'[i] = stack[i] /\ Sound(stack[i], poisoned, next)
      BY <2>2 DEF Turned, CallsInv
    <3> QED
      BY <1>1, <3>1, SoundLater
  <2> QED
    BY <2>1, <2>2
<1>3. ASSUME NEW i \in 1..Len(stack') - 1
      PROVE  Calling(stack'[i], stack'[i + 1])
  <2>1. /\ i \in 1..Len(stack) - 1 /\ stack'[i + 1] = stack[i + 1]
        /\ stack'[i].kind = stack[i].kind /\ Calling(stack[i], stack[i + 1])
    BY <1>1 DEF Turned, CallsInv
  <2> QED
    BY <2>1 DEF Calling
<1> QED
  BY <1>2, <1>3 DEF Frames

LEMMA GrowKeeps ==
    ASSUME CallsInv, stack # <<>>, poisoned => poisoned', next' \in Nat, next <= next',
           NEW f, NEW g, Grown(g, f), f.kind = Top.kind, Sound(f, poisoned', next'),
           Sound(g, poisoned', next'), Calling(g, f)
    PROVE  Frames(stack', poisoned', next')
<1>1. /\ Top = stack[1] /\ Len(stack) \in Nat \ {0} /\ next \in Nat
      /\ \A i \in 1..Len(stack) : stack[i] \in Frame
  BY TopMoves DEF CallsInv
<1>2. ASSUME NEW i \in 1..Len(stack')
      PROVE  Sound(stack'[i], poisoned', next')
  <2>1. CASE i = 1 \/ i = 2
    BY <2>1, <1>1 DEF Grown
  <2>2. CASE i # 1 /\ i # 2
    <3>1. i - 1 \in 1..Len(stack) /\ stack'[i] = stack[i - 1]
      BY <1>1, <2>2 DEF Grown
    <3>2. Sound(stack[i - 1], poisoned, next)
      BY <3>1 DEF CallsInv
    <3> QED
      BY <1>1, <3>1, <3>2, SoundLater
  <2> QED
    BY <2>1, <2>2
<1>3. ASSUME NEW i \in 1..Len(stack') - 1
      PROVE  Calling(stack'[i], stack'[i + 1])
  <2>1. CASE i = 1
    BY <1>1, <2>1 DEF Grown
  <2>2. CASE i # 1
    <3> DEFINE j == i - 1
    <3>1. /\ j \in 1..Len(stack) - 1 /\ stack'[i + 1] = stack[j + 1]
          /\ stack'[i].kind = stack[j].kind
      BY <1>1, <2>2 DEF Grown
    <3>2. Calling(stack[j], stack[j + 1])
      BY <3>1 DEF CallsInv
    <3> QED
      BY <3>1, <3>2 DEF Calling
  <2> QED
    BY <2>1, <2>2
<1> QED
  BY <1>2, <1>3 DEF Frames

LEMMA ShrinkKeeps ==
    ASSUME CallsInv, stack # <<>>, poisoned => poisoned', next' = next,
           NEW e \in AnyError, e = "integrity" => poisoned', NEW c \in BOOLEAN,
           Shrunk(Receive(stack[2], e, c))
    PROVE  Frames(stack', poisoned', next')
<1>1. /\ Len(stack) \in Nat \ {0} /\ next \in Nat /\ Len(stack) > 1
      /\ \A i \in 1..Len(stack) : stack[i] \in Frame
      /\ next' \in Nat /\ next <= next'
  BY TopMoves DEF CallsInv, Shrunk
<1>2. PICK f : f = Receive(stack[2], e, c)
  OBVIOUS
<1>3. /\ Shrunk(f) /\ stack[2] \in Frame /\ f \in Frame /\ Same(stack[2], f)
      /\ f.phase = stack[2].phase /\ f.failure \in {stack[2].failure, e}
      /\ f.todo \in {stack[2].todo, <<>>}
  BY <1>1, <1>2, Received
<1>4. Sound(f, poisoned', next')
  <2>1. Sound(stack[2], poisoned, next)
    BY <1>1 DEF CallsInv
  <2> QED
    BY <1>3, <2>1 DEF Sound, Same
<1>5. ASSUME NEW i \in 1..Len(stack')
      PROVE  Sound(stack'[i], poisoned', next')
  <2>1. CASE i = 1
    BY <1>3, <1>4, <2>1 DEF Shrunk
  <2>2. CASE i # 1
    <3>1. i + 1 \in 1..Len(stack) /\ stack'[i] = stack[i + 1]
      BY <1>1, <1>3, <2>2 DEF Shrunk
    <3>2. Sound(stack[i + 1], poisoned, next)
      BY <3>1 DEF CallsInv
    <3> QED
      BY <1>1, <3>1, <3>2, SoundLater
  <2> QED
    BY <2>1, <2>2
<1>6. ASSUME NEW i \in 1..Len(stack') - 1
      PROVE  Calling(stack'[i], stack'[i + 1])
  <2> DEFINE j == i + 1
  <2>0. /\ j \in 1..Len(stack) - 1 /\ i \in 1..Len(stack') /\ i + 1 \in 1..Len(stack')
        /\ i + 1 # 1 /\ (i = 1 => j = 2)
    BY <1>1, <1>3 DEF Shrunk
  <2>1. stack'[i + 1] = stack[j + 1] /\ stack'[i].kind = stack[j].kind
    BY <1>3, <2>0 DEF Shrunk, Same
  <2>2. Calling(stack[j], stack[j + 1])
    BY <2>0 DEF CallsInv
  <2> QED
    BY <2>1, <2>2 DEF Calling
<1> QED
  BY <1>5, <1>6 DEF Frames

LEMMA CallsInit == Init => CallsInv
<1> SUFFICES ASSUME Init
             PROVE  CallsInv
  OBVIOUS
<1>1. PICK root \in Roots : stack = <<EnterFrame(root, 0, 0)>>
  BY DEF Init
<1> DEFINE f == EnterFrame(root, 0, 0)
<1>2. f.kind = "flow" /\ f.failure = NoError /\ f.mark = 0 /\ ~f.opened /\ f.todo = <<>> /\ f.phase = "enter"
  BY DEF Init, EnterFrame
<1>3. Sound(f, poisoned, next)
  BY <1>2 DEF Sound, Init, NoError
<1> HIDE DEF f
<1>4. stack = <<f>> /\ Len(stack) = 1 /\ stack[1] = f
  BY <1>1 DEF f
<1> QED
  BY <1>3, <1>4, FlowInit DEF CallsInv

LEMMA CallsNext == CallsInv /\ [Next]_vars => CallsInv'
<1> SUFFICES ASSUME CallsInv, [Next]_vars
             PROVE  CallsInv'
  OBVIOUS
<1>1. FlowInv' /\ next \in Nat
  BY FlowNext DEF CallsInv, FlowInv
<1>2. ASSUME Frames(stack', poisoned', next')
      PROVE  CallsInv'
  BY <1>1, <1>2 DEF CallsInv, Frames
<1>3. ASSUME stack # <<>>
      PROVE  /\ Top \in Frame /\ Sound(Top, poisoned, next) /\ Top.todo \in Seq(Commands)
             /\ Top.kind # "flow" => Top.cmd \in Commands
  <2>1. Top \in Frame /\ Top = stack[1] /\ 1 \in 1..Len(stack)
    BY <1>3, TopMoves DEF CallsInv
  <2> QED
    BY <2>1, FrameKinds DEF CallsInv, CommandFrame
<1>4. CASE StartCommand
  <2>1. /\ stack # <<>> /\ Top.todo # <<>> /\ poisoned' = poisoned /\ next' = next + 1
        /\ Caller \in Frame /\ Same(Top, Caller) /\ Caller.phase = Top.phase
        /\ Caller.failure = Top.failure /\ Caller.todo = Tail(Top.todo)
        /\ CommandStarted \/ CommandRefused
    BY <1>4, StartCases
  <2>2. Sound(Top, poisoned, next) /\ next' \in Nat /\ next <= next' /\ Top \in Frame
    BY <1>1, <1>3, <2>1
  <2>3. Sound(Caller, poisoned', next')
    <3>1. Sound(Top, poisoned', next')
      BY <1>1, <2>1, <2>2, SoundLater
    <3> QED
      BY <2>1, <3>1 DEF Sound, Same
  <2> HIDE DEF Caller
  <2>4. CASE CommandStarted
    <3>1. PICK g \in CommandFrame :
              /\ g.failure = NoError /\ g.todo = <<>> /\ g.kind # "flow"
              /\ g.kind = Command[g.cmd].kind /\ (g.kind = "leaf" => g.phase = "evaluate")
              /\ Grown(g, Caller)
      BY <2>4 DEF CommandStarted
    <3>2. Sound(g, poisoned', next')
      BY <3>1 DEF Sound, NoError
    <3>3. Calling(g, Caller)
      BY <2>1, <2>2, <3>1 DEF Calling, Sound, Same
    <3> QED
      BY <1>2, <2>1, <2>2, <2>3, <3>1, <3>2, <3>3, GrowKeeps DEF Same
  <2>5. CASE CommandRefused
    <3>1. PICK c \in BOOLEAN : Turned(Receive(Caller, "cancelled", c))
      BY <2>5 DEF CommandRefused
    <3>2. PICK f : f = Receive(Caller, "cancelled", c)
      OBVIOUS
    <3>3. "cancelled" \in AnyError
      BY DEF AnyError, Errors
    <3>4. Turned(f)
      BY <3>1, <3>2
    <3>5. /\ Same(Caller, f) /\ f.phase = Caller.phase
          /\ f.failure \in {Caller.failure, "cancelled"} /\ f.todo \in {Caller.todo, <<>>}
      <4>1. Caller \in Frame
        BY <2>1
      <4> QED
        BY <4>1, <3>2, <3>3, Received
    <3>6. Sound(f, poisoned', next')
      BY <2>3, <3>5 DEF Sound, Same
    <3> QED
      BY <1>2, <2>1, <2>2, <3>4, <3>5, <3>6, TurnKeeps DEF Same
  <2> QED
    BY <2>1, <2>4, <2>5
<1>5. CASE EnterFlow
  <2>1. /\ stack # <<>> /\ Top.kind = "flow" /\ poisoned' = poisoned /\ next' = next
        /\ Top.failure = "integrity" => poisoned
    BY <1>3, <1>5, EnterCases DEF Sound
  <2>2. PICK f \in FlowFrame : /\ Turned(f) /\ f.kind = "flow" /\ f.mark = Top.mark
                               /\ Opened(f) \/ Refused(f)
    BY <1>5, EnterCases
  <2>3. Sound(f, poisoned', next')
    BY <1>3, <2>1, <2>2 DEF Sound, Opened, Refused
  <2> QED
    BY <1>1, <1>2, <2>1, <2>2, <2>3, TurnKeeps
<1>6. CASE NextPhase
  <2>1. stack # <<>> /\ Top.kind = "flow" /\ poisoned' = poisoned /\ next' = next
    BY <1>6, PhaseCases
  <2>2. PICK f \in FlowFrame : FlowTurned(f)
    BY <1>6, PhaseCases
  <2>3. Sound(f, poisoned', next')
    BY <1>3, <2>1, <2>2 DEF Sound, FlowTurned, Same
  <2> QED
    BY <1>1, <1>2, <2>1, <2>2, <2>3, TurnKeeps DEF FlowTurned
<1>7. CASE LeaveFlow
  <2>1. /\ stack # <<>> /\ poisoned' = poisoned /\ next' = next /\ ScopeError \in AnyError
        /\ ScopeError = "integrity" => poisoned
        /\ \/ stack' = <<>>
           \/ \E c \in BOOLEAN : Shrunk(Receive(stack[2], ScopeError, c))
    BY <1>7, LeaveCases
  <2>2. CASE stack' = <<>>
    BY <1>2, <2>2 DEF Frames
  <2>3. CASE \E c \in BOOLEAN : Shrunk(Receive(stack[2], ScopeError, c))
    BY <1>2, <2>1, <2>3, ShrinkKeeps
  <2> QED
    BY <2>1, <2>2, <2>3
<1>8. CASE CommandStep
  <2>1. stack # <<>> /\ Top.kind # "flow" /\ next' = next /\ CommandDone
    BY <1>8, CommandCases
  <2>2. /\ Top \in Frame /\ Sound(Top, poisoned, next)
    BY <1>3, <2>1
  <2>3. CASE CommandTurned
    <3>1. PICK f \in Frame : WentOn(f) /\ Turned(f) /\ poisoned' = poisoned
      BY <2>3 DEF CommandTurned
    <3>2. Sound(f, poisoned', next')
      BY <2>1, <2>2, <3>1 DEF Sound, WentOn, Same, NoError
    <3> QED
      BY <1>1, <1>2, <2>1, <3>1, <3>2, TurnKeeps DEF WentOn, Same
  <2>4. CASE FlowCalled
    <3>1. PICK f \in Frame, g \in Frame :
              /\ WentOn(f) /\ f.phase = "running" /\ CalledFlow(g) /\ Grown(g, f)
              /\ poisoned' = poisoned
      BY <2>4 DEF FlowCalled
    <3>2. Sound(f, poisoned', next')
      <4>1. f.kind = "leaf" => FALSE
        BY <3>1 DEF WentOn
      <4> QED
        BY <2>1, <2>2, <3>1, <4>1 DEF Sound, WentOn, Same, NoError
    <3>3. Sound(g, poisoned', next') /\ Calling(g, f)
      BY <1>1, <2>1, <3>1 DEF Sound, CalledFlow, Calling, WentOn, Same, NoError
    <3> QED
      BY <1>1, <1>2, <2>1, <3>1, <3>2, <3>3, GrowKeeps DEF WentOn, Same
  <2>5. CASE CommandEnded
    <3>1. PICK e \in AnyError, c \in BOOLEAN : \E row : EndedWith(e, c, row)
      BY <2>5 DEF CommandEnded
    <3>2. PICK row : EndedWith(e, c, row)
      BY <3>1
    <3> DEFINE d == Surfaced(row.outcome, e)
    <3>3. /\ Shrunk(Receive(stack[2], d, c)) /\ (e = "integrity" => poisoned')
          /\ (poisoned => poisoned')
      BY <3>2 DEF EndedWith
    <3>4. d \in AnyError /\ (d = "integrity" => poisoned')
      BY <3>3 DEF Surfaced, AnyError, NoError
    <3> HIDE DEF d
    <3> QED
      BY <1>2, <2>1, <3>3, <3>4, ShrinkKeeps
  <2>6. CASE stack' = stack /\ poisoned' = poisoned
    BY <1>2, <2>1, <2>6 DEF Frames, CallsInv
  <2> QED
    BY <2>1, <2>3, <2>4, <2>5, <2>6 DEF CommandDone
<1>9. CASE Cancel \/ UNCHANGED vars
  <2>1. stack' = stack /\ poisoned' = poisoned /\ next' = next
    BY <1>9 DEF Cancel, vars
  <2> QED
    BY <1>2, <2>1 DEF Frames, CallsInv
<1> QED
  BY <1>4, <1>5, <1>6, <1>7, <1>8, <1>9 DEF Next, Step, CommandStep

-----------------------------------------------------------------------------
(***************************************************************************)
(* A cancellation that reaches a command is what the run reports.          *)
(***************************************************************************)

\* A call that is executing hands a lasting error on when it ends, and the root keeps it.
Reported ==
    /\ CallsInv /\ cancelled
    /\ result = "running" => \/ \E i \in 1..Len(stack) : Executing(stack[i])
                             \/ Root(stack).failure \in Lasting
    /\ result # "running" => result \in Lasting

Reporting(s) == (\E i \in 1..Len(s) : Executing(s[i])) \/ Root(s).failure \in Lasting

LEMMA LastingKept ==
    ASSUME NEW failure \in AnyError, NEW e \in AnyError, failure \in Lasting \/ e \in Lasting
    PROVE  Accumulate(failure, e) \in Lasting
  BY DEF Accumulate, Lasting, Precedence, AnyError, Errors, Operational, NoError

LEMMA TurnReports ==
    ASSUME CallsInv, stack # <<>>, Reporting(stack), NEW f, Turned(f),
           Executing(Top) => Executing(f),
           Len(stack) = 1 /\ Top.failure \in Lasting => f.failure \in Lasting
    PROVE  Reporting(stack')
<1>1. Top = stack[1] /\ Len(stack) \in Nat \ {0}
  BY TopMoves DEF CallsInv
<1>2. ASSUME NEW i \in 1..Len(stack), Executing(stack[i])
      PROVE  Executing(stack'[i])
  BY <1>1, <1>2 DEF Turned
<1>3. Root(stack).failure \in Lasting => Root(stack').failure \in Lasting
  BY <1>1 DEF Turned, Root
<1> QED
  BY <1>1, <1>2, <1>3 DEF Reporting, Turned

LEMMA GrowReports ==
    ASSUME CallsInv, stack # <<>>, Reporting(stack), NEW f, NEW g, Grown(g, f),
           Executing(Top) => Executing(f),
           Len(stack) = 1 /\ Top.failure \in Lasting => f.failure \in Lasting
    PROVE  Reporting(stack')
<1>1. Top = stack[1] /\ Len(stack) \in Nat \ {0} /\ Len(stack') = Len(stack) + 1
  BY TopMoves DEF CallsInv, Grown
<1>2. ASSUME NEW i \in 1..Len(stack), Executing(stack[i])
      PROVE  i + 1 \in 1..Len(stack') /\ Executing(stack'[i + 1])
  <2>1. i + 1 \in 1..Len(stack') /\ (i + 1) - 1 = i /\ i + 1 # 1 /\ (i + 1 = 2 <=> i = 1)
    BY <1>1
  <2>2. stack'[i + 1] = IF i = 1 THEN f ELSE stack[i]
    BY <2>1 DEF Grown
  <2> QED
    BY <1>1, <1>2, <2>1, <2>2
<1>3. Root(stack').failure = IF Len(stack) = 1 THEN f.failure ELSE Root(stack).failure
  <2>0. ASSUME NEW n \in Nat \ {0}
        PROVE  n + 1 \in 1..(n + 1) /\ n + 1 # 1 /\ (n + 1) - 1 = n /\ (n + 1 = 2 <=> n = 1)
    OBVIOUS
  <2>1. Len(stack') \in 1..Len(stack') /\ Len(stack') # 1 /\ Len(stack') - 1 = Len(stack)
        /\ (Len(stack') = 2 <=> Len(stack) = 1)
    BY <1>1, <2>0
  <2> QED
    BY <2>1 DEF Grown, Root
<1> QED
  BY <1>1, <1>2, <1>3 DEF Reporting, Root

\* A call that returns leaves an executing one behind, or its error reaches the root.
LEMMA ShrinkReports ==
    ASSUME CallsInv, stack # <<>>, Reporting(stack), NEW e \in AnyError, NEW c \in BOOLEAN,
           Shrunk(Receive(stack[2], e, c)),
           Executing(Top) => e \in Lasting
    PROVE  Reporting(stack')
<1>1. /\ Top = stack[1] /\ Len(stack) \in Nat \ {0} /\ Len(stack) > 1 /\ Stacked(stack, next)
      /\ \A i \in 1..Len(stack) : stack[i] \in Frame
      /\ Len(stack') = Len(stack) - 1
  BY TopMoves, TopFrame DEF CallsInv, Shrunk
<1>2. PICK f : f = Receive(stack[2], e, c)
  OBVIOUS
<1>3. /\ Shrunk(f) /\ stack[2] \in Frame /\ f \in Frame /\ Same(stack[2], f)
      /\ f.phase = stack[2].phase
  BY <1>1, <1>2, Received
<1>4. ASSUME NEW i \in 2..Len(stack), Executing(stack[i])
      PROVE  i - 1 \in 1..Len(stack') /\ Executing(stack'[i - 1])
  <2>1. i - 1 \in 1..Len(stack') /\ (i - 1) + 1 = i /\ (i - 1 = 1 <=> i = 2)
    BY <1>1
  <2>2. stack'[i - 1] = IF i = 2 THEN f ELSE stack[i]
    BY <1>3, <2>1 DEF Shrunk
  <2> QED
    BY <1>3, <1>4, <2>1, <2>2 DEF Executing, Same
<1>5. CASE \E i \in 2..Len(stack) : Executing(stack[i])
  BY <1>4, <1>5 DEF Reporting
<1>6. CASE ~\E i \in 2..Len(stack) : Executing(stack[i])
  \* The caller is the root: a nested flow is called by a command that runs.
  <2>1. Len(stack) = 2 /\ stack[2].kind = "flow" /\ stack[2].depth = 0
    <3>1. stack[2].kind = "flow"
      <4>1. Calling(stack[1], stack[2]) /\ 2 \in 2..Len(stack)
        BY <1>1 DEF CallsInv
      <4> QED
        BY <1>6, <4>1 DEF Calling, Executing
    <3>2. Len(stack) = 2
      <4> SUFFICES ASSUME Len(stack) # 2
                   PROVE  FALSE
        OBVIOUS
      <4>1. 2 \in 1..Len(stack) - 1 /\ 3 \in 2..Len(stack)
        BY <1>1
      <4>2. Calling(stack[2], stack[3])
        BY <4>1 DEF CallsInv
      <4> QED
        BY <1>6, <3>1, <4>1, <4>2 DEF Calling, Executing
    <3> QED
      BY <1>1, <3>1, <3>2 DEF Stacked, RootLast
  <2>2. f.failure = Accumulate(stack[2].failure, e) /\ stack[2].failure \in AnyError
    BY <1>2, <1>3, <2>1, ReceiveKeeps, FrameKinds
  <2>3. stack[2].failure \in Lasting \/ e \in Lasting
    <3>1. CASE \E i \in 1..Len(stack) : Executing(stack[i])
      <4>1. PICK i \in 1..Len(stack) : Executing(stack[i])
        BY <3>1
      <4>2. i = 1
        BY <1>1, <1>6, <4>1
      <4> QED
        BY <1>1, <4>1, <4>2
    <3>2. CASE Root(stack).failure \in Lasting
      BY <2>1, <3>2 DEF Root
    <3> QED
      BY <3>1, <3>2 DEF Reporting
  <2>4. f.failure \in Lasting
    BY <2>2, <2>3, LastingKept
  <2>5. Root(stack') = f
    BY <1>1, <1>3, <2>1 DEF Shrunk, Root
  <2> QED
    BY <2>4, <2>5 DEF Reporting
<1> QED
  BY <1>5, <1>6

LEMMA ReportedNext == Reported /\ [Next]_vars => Reported'
<1> SUFFICES ASSUME Reported, [Next]_vars
             PROVE  Reported'
  OBVIOUS
<1>1. CallsInv /\ CallsInv' /\ cancelled /\ FlowInv /\ FlowInv'
  BY CallsNext DEF Reported, CallsInv
<1>2. CASE stack = <<>> \/ Cancel \/ UNCHANGED vars
  <2>1. stack' = stack /\ cancelled' = cancelled /\ result' = result
    BY <1>1, <1>2 DEF Next, Step, StartCommand, SessionRefuses, Evaluate, LeafReturns, CounterFails,
       RetryAttempt, RetryAttemptEnds, ResetChild, ConditionFails, ConditionFalse, ConditionTrue,
       RepeatWait, RepeatRunEnds, RunFlowEnds, EnterFlow, NextPhase, LeaveFlow, TopIs, Conditional,
       Cancel, vars
  <2> QED
    BY <1>1, <2>1 DEF Reported
<1>3. CASE stack # <<>> /\ Step
  <2>1. /\ result = "running" /\ Reporting(stack) /\ Top = stack[1] /\ Top \in Frame
        /\ Len(stack) \in Nat \ {0} /\ (Len(stack) = 1 <=> Top.kind = "flow" /\ Top.depth = 0)
    BY <1>1, <1>3, TopFrame DEF Reported, Reporting
  <2>2. ASSUME cancelled' = cancelled, result' = result, Reporting(stack')
        PROVE  Reported'
    BY <1>1, <2>1, <2>2 DEF Reported, Reporting
  <2>3. CASE StartCommand
    <3>1. /\ cancelled' = cancelled /\ result' = result /\ Caller \in Frame /\ Same(Top, Caller)
          /\ Caller.phase = Top.phase /\ Caller.failure = Top.failure /\ CommandRefused
      BY <1>1, <2>3, StartCases DEF SessionKept, StartCommand, Quiet
    <3> HIDE DEF Caller
    <3>2. PICK c \in BOOLEAN : Turned(Receive(Caller, "cancelled", c))
      BY <3>1 DEF CommandRefused
    <3>3. PICK f : f = Receive(Caller, "cancelled", c)
      OBVIOUS
    <3>4. "cancelled" \in AnyError /\ "cancelled" \in Lasting
      BY DEF AnyError, Errors, Lasting
    <3>5. Turned(f) /\ Same(Caller, f) /\ f.phase = Caller.phase
      BY <3>1, <3>2, <3>3, <3>4, Received
    <3>6. Executing(Top) => Executing(f)
      BY <3>1, <3>5 DEF Executing, Same
    <3>7. Len(stack) = 1 => f.failure \in Lasting
      <4> SUFFICES ASSUME Len(stack) = 1
                   PROVE  f.failure \in Lasting
        OBVIOUS
      <4>1. Caller.kind = "flow" /\ Caller.depth = 0
        BY <2>1, <3>1 DEF Same
      <4>2. f.failure = Accumulate(Caller.failure, "cancelled") /\ Caller.failure \in AnyError
        BY <3>1, <3>3, <3>4, <4>1, ReceiveKeeps, FrameKinds
      <4> QED
        BY <3>4, <4>2, LastingKept
    <3> QED
      BY <1>1, <1>3, <2>1, <2>2, <3>1, <3>5, <3>6, <3>7, TurnReports
  <2>4. CASE EnterFlow
    <3>1. cancelled' = cancelled /\ result' = result /\ Top.kind = "flow"
      BY <1>1, <2>4, EnterCases
    <3>2. PICK f \in FlowFrame : Turned(f) /\ (Opened(f) \/ Refused(f))
      BY <1>1, <2>4, EnterCases
    <3>3. ~Executing(Top) /\ (Top.failure \in Lasting => f.failure \in Lasting)
      BY <1>1, <3>1, <3>2 DEF Executing, Opened, Refused, Lasting
    <3> QED
      BY <1>1, <1>3, <2>1, <2>2, <3>1, <3>2, <3>3, TurnReports
  <2>5. CASE NextPhase
    <3>1. cancelled' = cancelled /\ result' = result /\ Top.kind = "flow"
      BY <1>1, <2>5, PhaseCases DEF SessionKept
    <3>2. PICK f \in FlowFrame : FlowTurned(f)
      BY <1>1, <2>5, PhaseCases
    <3>3. Turned(f) /\ ~Executing(Top) /\ f.failure = Top.failure
      BY <3>1, <3>2 DEF Executing, FlowTurned
    <3> QED
      BY <1>1, <1>3, <2>1, <2>2, <3>1, <3>3, TurnReports
  <2>6. CASE LeaveFlow
    <3>1. /\ cancelled' = cancelled /\ Top.kind = "flow" /\ ScopeError \in AnyError
      BY <1>1, <2>6, LeaveCases
    <3>2. CASE Len(stack) = 1 /\ stack' = <<>> /\ result' = Accumulate(ScopeError, PoisonError)
      <4>1. Top.failure \in Lasting
        <5>1. ~\E i \in 1..Len(stack) : Executing(stack[i])
          BY <2>1, <3>1, <3>2 DEF Executing
        <5> QED
          BY <2>1, <3>2, <5>1 DEF Reporting, Root
      <4>2. PoisonError \in AnyError /\ Top.failure \in AnyError
        BY <2>1, FrameKinds DEF PoisonError, AnyError, Errors
      <4>3. ScopeError \in Lasting
        BY <2>1, <3>2, <4>1, <4>2, LastingKept DEF ScopeError, AddFailure
      <4>4. result' \in Lasting
        BY <3>1, <3>2, <4>2, <4>3, LastingKept
      <4>5. "running" \notin Lasting
        BY DEF Lasting
      <4> QED
        BY <1>1, <3>1, <4>4, <4>5 DEF Reported
    <3>3. CASE result' = result /\ \E c \in BOOLEAN : Shrunk(Receive(stack[2], ScopeError, c))
      <4>1. ~Executing(Top)
        BY <3>1 DEF Executing
      <4>2. Reporting(stack')
        BY <1>1, <1>3, <2>1, <3>1, <3>3, <4>1, ShrinkReports
      <4> QED
        BY <2>2, <3>1, <3>3, <4>2
    <3> QED
      BY <1>1, <2>6, <3>2, <3>3, LeaveCases
  <2>7. CASE CommandStep
    <3>1. Top.kind # "flow" /\ cancelled' = cancelled /\ CommandDone
      BY <1>1, <2>7, CommandCases DEF SessionKept
    <3>2. result' = result
      BY <2>7 DEF CommandStep, SessionRefuses, Evaluate, LeafReturns, CounterFails, RetryAttempt,
         RetryAttemptEnds, ResetChild, ConditionFails, ConditionFalse, ConditionTrue, RepeatWait,
         RepeatRunEnds, RunFlowEnds, Quiet
    <3>3. Len(stack) # 1
      BY <2>1, <3>1
    <3>4. CASE CommandTurned
      <4>1. PICK f \in Frame : WentOn(f) /\ Turned(f)
        BY <3>4 DEF CommandTurned
      <4>2. Executing(f)
        BY <3>1, <4>1 DEF Executing, WentOn, Same
      <4> QED
        BY <1>1, <1>3, <2>1, <2>2, <3>1, <3>2, <3>3, <4>1, <4>2, TurnReports
    <3>5. CASE FlowCalled
      <4>1. PICK f \in Frame, g \in Frame : WentOn(f) /\ Grown(g, f)
        BY <3>5 DEF FlowCalled
      <4>2. Executing(f)
        BY <3>1, <4>1 DEF Executing, WentOn, Same
      <4> QED
        BY <1>1, <1>3, <2>1, <2>2, <3>1, <3>2, <3>3, <4>1, <4>2, GrowReports
    <3>6. CASE CommandEnded
      <4>1. PICK e \in AnyError, c \in BOOLEAN : \E row : EndedWith(e, c, row)
        BY <3>6 DEF CommandEnded
      <4>2. PICK row : EndedWith(e, c, row)
        BY <4>1
      <4> DEFINE d == Surfaced(row.outcome, e)
      <4>3. /\ Shrunk(Receive(stack[2], d, c)) /\ (Executing(Top) => e \in Lasting)
            /\ row.outcome = ClassifyOutcome(e, Command[Top.cmd].optional)
        BY <1>1, <4>2 DEF EndedWith, Recorded
      <4>4. d \in AnyError
        BY DEF Surfaced, AnyError
      <4>5. e \in Lasting => d = e
        BY <4>3 DEF Surfaced, ClassifyOutcome, Lasting, NoError, Operational
      <4> HIDE DEF d
      <4>6. Reporting(stack')
        BY <1>1, <1>3, <2>1, <4>3, <4>4, <4>5, ShrinkReports
      <4> QED
        BY <2>2, <3>1, <3>2, <4>6
    <3>7. CASE stack' = stack
      BY <2>1, <2>2, <3>1, <3>2, <3>7
    <3> QED
      BY <3>1, <3>4, <3>5, <3>6, <3>7 DEF CommandDone
  <2> QED
    BY <1>3, <2>3, <2>4, <2>5, <2>6, <2>7 DEF Step, CommandStep
<1> QED
  BY <1>2, <1>3 DEF Next

\* A run that is cancelled while a command executes reports the cancellation, or
\* the loss of integrity, for every program, however deep the command is
\* (runHandler, rootTerminalPrecedence).
THEOREM CancellationLasts == Spec => CancellationReported
<1>1. CallsInv /\ cancelled /\ (\E i \in DOMAIN stack : Executing(stack[i])) => Reported
  <2> SUFFICES ASSUME CallsInv, cancelled, NEW i \in DOMAIN stack, Executing(stack[i])
               PROVE  Reported
    OBVIOUS
  <2>1. stack # <<>>
    OBVIOUS
  <2>2. result = "running" /\ i \in 1..Len(stack)
    BY <2>1, TopFrame DEF CallsInv, Stacked
  <2> QED
    BY <2>2 DEF Reported
<1>2. Reported => result \in {"running", "cancelled", "integrity"}
  BY DEF Reported, Lasting
<1> DEFINE P == cancelled /\ (\E i \in DOMAIN stack : Executing(stack[i]))
           R == result \in {"running", "cancelled", "integrity"}
<1>3. CallsInv /\ P => Reported
  BY <1>1
<1>4. Reported => R
  BY <1>2
<1>5. CancellationReported <=> [](P => []R)
  BY DEF CancellationReported
<1> HIDE DEF P, R
<1> QED
  BY <1>3, <1>4, <1>5, CallsInit, CallsNext, ReportedNext, PTL DEF Spec

-----------------------------------------------------------------------------
(***************************************************************************)
(* The frames of the session are the open flows, in call order.            *)
(***************************************************************************)
IsOpen(f) == f.kind = "flow" /\ f.opened

\* The application that is looked at where the scopes sc are open.
AppOf(sc) == IF sc = <<>> THEN NoApp ELSE Flow[sc[1]].app

\* The i-th scope is that of call[i], which gives the application of the next one back.
Placed(s, sc, call) ==
    /\ \A i \in 1..Len(sc) : call[i] \in 1..Len(s) /\ IsOpen(s[call[i]])
    /\ \A i, j \in 1..Len(sc) : i < j => call[i] < call[j]
    /\ \A c \in 1..Len(s) : IsOpen(s[c]) => \E i \in 1..Len(sc) : call[i] = c
    /\ \A i \in 1..Len(sc) : s[call[i]].flow = sc[i]
    /\ \A i \in 1..Len(sc) :
          s[call[i]].outerApp = IF i = Len(sc) THEN NoApp ELSE Flow[sc[i + 1]].app
Nested(s, sc) == \E call \in [1..Len(sc) -> Nat] : Placed(s, sc, call)

ScopeInv ==
    /\ CallsInv /\ scopes \in Seq(Flows) /\ Nested(stack, scopes)
    /\ ~poisoned => app = AppOf(scopes)

\* A call keeps the scope it holds.
Alike(f, g) ==
    /\ IsOpen(f) <=> IsOpen(g)
    /\ IsOpen(f) => g.flow = f.flow /\ g.outerApp = f.outerApp

LEMMA NestedTurn ==
    ASSUME NEW s, NEW t, NEW sc, Nested(s, sc), Len(t) = Len(s),
           \A i \in 1..Len(s) : Alike(s[i], t[i])
    PROVE  Nested(t, sc)
<1>1. PICK call \in [1..Len(sc) -> Nat] : Placed(s, sc, call)
  BY DEF Nested
<1>2. Placed(t, sc, call)
  BY <1>1 DEF Placed, Alike
<1> QED
  BY <1>2 DEF Nested

LEMMA NestedPush ==
    ASSUME NEW s, NEW t, NEW sc \in Seq(Flows), Nested(s, sc), Len(s) \in Nat, Len(t) = Len(s) + 1,
           ~IsOpen(t[1]), \A i \in 1..Len(s) : Alike(s[i], t[i + 1])
    PROVE  Nested(t, sc)
<1>1. PICK call \in [1..Len(sc) -> Nat] : Placed(s, sc, call)
  BY DEF Nested
<1> DEFINE moved == [i \in 1..Len(sc) |-> call[i] + 1]
<1>2. /\ moved \in [1..Len(sc) -> Nat] /\ Len(sc) \in Nat
      /\ \A i \in 1..Len(sc) : moved[i] = call[i] + 1
  OBVIOUS
<1> HIDE DEF moved
<1>3. \A i \in 1..Len(sc) : moved[i] \in 1..Len(t) /\ Alike(s[call[i]], t[moved[i]])
  BY <1>1, <1>2 DEF Placed
<1>4. \A i, j \in 1..Len(sc) : i < j => moved[i] < moved[j]
  BY <1>1, <1>2 DEF Placed
<1>5. ASSUME NEW c \in 1..Len(t), IsOpen(t[c])
      PROVE  \E i \in 1..Len(sc) : moved[i] = c
  <2>1. c - 1 \in 1..Len(s) /\ (c - 1) + 1 = c
    BY <1>5
  <2>2. IsOpen(s[c - 1])
    BY <1>5, <2>1 DEF Alike
  <2>3. PICK i \in 1..Len(sc) : call[i] = c - 1
    BY <1>1, <2>1, <2>2 DEF Placed
  <2> QED
    BY <1>2, <2>1, <2>3
<1>6. Placed(t, sc, moved)
  BY <1>1, <1>3, <1>4, <1>5 DEF Placed, Alike
<1> QED
  BY <1>2, <1>6 DEF Nested

\* A call returns that has no scope open.
LEMMA NestedPop ==
    ASSUME NEW s, NEW t, NEW sc \in Seq(Flows), Nested(s, sc), Len(s) \in Nat \ {0},
           Len(t) = Len(s) - 1, ~IsOpen(s[1]), \A i \in 1..Len(t) : Alike(s[i + 1], t[i])
    PROVE  Nested(t, sc)
<1>1. PICK call \in [1..Len(sc) -> Nat] : Placed(s, sc, call)
  BY DEF Nested
<1>0. \A i \in 1..Len(sc) : call[i] \in 2..Len(s)
  BY <1>1 DEF Placed
<1> DEFINE moved == [i \in 1..Len(sc) |-> call[i] - 1]
<1>2. /\ moved \in [1..Len(sc) -> Nat] /\ Len(sc) \in Nat
      /\ \A i \in 1..Len(sc) : moved[i] = call[i] - 1
  BY <1>0
<1> HIDE DEF moved
<1>3. \A i \in 1..Len(sc) : moved[i] \in 1..Len(t) /\ Alike(s[call[i]], t[moved[i]])
  <2> SUFFICES ASSUME NEW i \in 1..Len(sc)
               PROVE  moved[i] \in 1..Len(t) /\ Alike(s[call[i]], t[moved[i]])
    OBVIOUS
  <2>1. moved[i] \in 1..Len(t) /\ moved[i] + 1 = call[i]
    BY <1>0, <1>2
  <2> QED
    BY <2>1
<1>4. \A i, j \in 1..Len(sc) : i < j => moved[i] < moved[j]
  BY <1>0, <1>1, <1>2 DEF Placed
<1>5. ASSUME NEW c \in 1..Len(t), IsOpen(t[c])
      PROVE  \E i \in 1..Len(sc) : moved[i] = c
  <2>1. c + 1 \in 1..Len(s) /\ (c + 1) - 1 = c
    BY <1>5
  <2>2. IsOpen(s[c + 1])
    BY <1>5, <2>1 DEF Alike
  <2>3. PICK i \in 1..Len(sc) : call[i] = c + 1
    BY <1>1, <2>1, <2>2 DEF Placed
  <2> QED
    BY <1>2, <2>1, <2>3
<1>6. Placed(t, sc, moved)
  BY <1>1, <1>3, <1>4, <1>5 DEF Placed, Alike
<1> QED
  BY <1>2, <1>6 DEF Nested

\* The innermost call opens a scope inside those that are open.
LEMMA NestedOpen ==
    ASSUME NEW s, NEW t, NEW sc \in Seq(Flows), Nested(s, sc), Len(s) \in Nat \ {0},
           Len(t) = Len(s), NEW f \in Flows, ~IsOpen(s[1]), IsOpen(t[1]),
           t[1].flow = f, t[1].outerApp = AppOf(sc),
           \A i \in 2..Len(s) : Alike(s[i], t[i])
    PROVE  Nested(t, <<f>> \o sc)
<1>1. PICK call \in [1..Len(sc) -> Nat] : Placed(s, sc, call)
  BY DEF Nested
<1>2. \A i \in 1..Len(sc) : call[i] \in 2..Len(s)
  BY <1>1 DEF Placed
<1> DEFINE new == <<f>> \o sc
           moved == [i \in 1..Len(new) |-> IF i = 1 THEN 1 ELSE call[i - 1]]
<1>3. /\ new \in Seq(Flows) /\ Len(new) = Len(sc) + 1 /\ Len(sc) \in Nat /\ new[1] = f
      /\ \A i \in 1..Len(sc) : new[i + 1] = sc[i]
      /\ sc # <<>> <=> Len(sc) # 0
  <2>1. <<f>> \in Seq(Flows) /\ Len(<<f>>) = 1 /\ <<f>>[1] = f
    OBVIOUS
  <2>2. /\ new \in Seq(Flows) /\ Len(new) = 1 + Len(sc)
        /\ \A i \in 1..(1 + Len(sc)) : new[i] = IF i <= 1 THEN <<f>>[i] ELSE sc[i - 1]
    BY <2>1, ConcatProperties
  <2>3. \A i \in 1..Len(sc) : i + 1 \in 1..(1 + Len(sc)) /\ ~(i + 1 <= 1) /\ (i + 1) - 1 = i
    BY <2>2
  <2> QED
    BY <2>1, <2>2, <2>3, EmptySeq
<1> HIDE DEF new
<1>4. /\ moved \in [1..Len(new) -> Nat] /\ moved[1] = 1
      /\ \A i \in 1..Len(new) : moved[i] = IF i = 1 THEN 1 ELSE call[i - 1]
  <2>1. \A i \in 1..Len(new) : i = 1 \/ i - 1 \in 1..Len(sc)
    BY <1>3
  <2> QED
    BY <1>3, <2>1
<1> HIDE DEF moved
<1>5. \A i \in 1..Len(sc) : moved[i + 1] = call[i] /\ i + 1 \in 1..Len(new)
  <2> SUFFICES ASSUME NEW i \in 1..Len(sc) PROVE moved[i + 1] = call[i] /\ i + 1 \in 1..Len(new)
    OBVIOUS
  <2>1. i + 1 \in 1..Len(new) /\ i + 1 # 1 /\ (i + 1) - 1 = i
    BY <1>3
  <2> QED
    BY <1>4, <2>1
<1>6. \A i \in 1..Len(new) : i = 1 \/ \E j \in 1..Len(sc) : i = j + 1
  <2> SUFFICES ASSUME NEW i \in 1..Len(new), i # 1 PROVE \E j \in 1..Len(sc) : i = j + 1
    OBVIOUS
  <2>1. i - 1 \in 1..Len(sc) /\ i = (i - 1) + 1
    BY <1>3
  <2> QED
    BY <2>1
<1>7. \A i \in 1..Len(new) : moved[i] \in 1..Len(t) /\ IsOpen(t[moved[i]]) /\ t[moved[i]].flow = new[i]
  <2> SUFFICES ASSUME NEW i \in 1..Len(new)
               PROVE  moved[i] \in 1..Len(t) /\ IsOpen(t[moved[i]]) /\ t[moved[i]].flow = new[i]
    OBVIOUS
  <2>1. CASE i = 1
    BY <1>3, <1>4, <2>1
  <2>2. ASSUME NEW j \in 1..Len(sc), i = j + 1
        PROVE  moved[i] \in 1..Len(t) /\ IsOpen(t[moved[i]]) /\ t[moved[i]].flow = new[i]
    <3>1. moved[i] = call[j] /\ new[i] = sc[j] /\ call[j] \in 2..Len(s)
      BY <1>2, <1>3, <1>5, <2>2
    <3>2. IsOpen(s[call[j]]) /\ s[call[j]].flow = sc[j]
      BY <1>1 DEF Placed
    <3>3. IsOpen(t[call[j]]) /\ t[call[j]].flow = s[call[j]].flow
      BY <3>1, <3>2 DEF Alike
    <3>4. call[j] \in 1..Len(t)
      BY <3>1
    <3> QED
      BY <3>1, <3>2, <3>3, <3>4
  <2> QED
    BY <1>6, <2>1, <2>2
<1>8. ASSUME NEW i \in 1..Len(new), NEW j \in 1..Len(new), i < j
      PROVE  moved[i] < moved[j]
  <2>1. PICK l \in 1..Len(sc) : j = l + 1
    BY <1>3, <1>6, <1>8
  <2>2. moved[j] = call[l] /\ call[l] \in 2..Len(s)
    BY <1>2, <1>5, <2>1
  <2>3. CASE i = 1
    BY <1>4, <2>2, <2>3
  <2>4. ASSUME NEW k \in 1..Len(sc), i = k + 1
        PROVE  moved[i] < moved[j]
    <3>1. moved[i] = call[k] /\ k < l
      BY <1>3, <1>5, <1>8, <2>1, <2>4
    <3> QED
      BY <1>1, <2>2, <3>1 DEF Placed
  <2> QED
    BY <1>6, <2>3, <2>4
<1>9. ASSUME NEW c \in 1..Len(t), IsOpen(t[c])
      PROVE  \E i \in 1..Len(new) : moved[i] = c
  <2>1. CASE c = 1
    BY <1>3, <1>4, <2>1
  <2>2. CASE c # 1
    <3>1. c \in 2..Len(s) /\ IsOpen(s[c])
      BY <1>9, <2>2 DEF Alike
    <3>2. PICK i \in 1..Len(sc) : call[i] = c
      BY <1>1, <3>1 DEF Placed
    <3> QED
      BY <1>5, <3>2
  <2> QED
    BY <2>1, <2>2
<1>10. \A i \in 1..Len(new) :
         t[moved[i]].outerApp = IF i = Len(new) THEN NoApp ELSE Flow[new[i + 1]].app
  <2> SUFFICES ASSUME NEW i \in 1..Len(new)
               PROVE  t[moved[i]].outerApp = IF i = Len(new) THEN NoApp ELSE Flow[new[i + 1]].app
    OBVIOUS
  <2>1. CASE i = 1
    <3>1. i = Len(new) <=> sc = <<>>
      BY <1>3, <2>1
    <3>2. sc # <<>> => new[i + 1] = sc[1]
      BY <1>3, <2>1
    <3> QED
      BY <1>4, <2>1, <3>1, <3>2 DEF AppOf
  <2>2. ASSUME NEW j \in 1..Len(sc), i = j + 1
        PROVE  t[moved[i]].outerApp = IF i = Len(new) THEN NoApp ELSE Flow[new[i + 1]].app
    <3>1. /\ moved[i] = call[j] /\ call[j] \in 2..Len(s) /\ (i = Len(new) <=> j = Len(sc))
          /\ j # Len(sc) => new[i + 1] = sc[j + 1]
      <4>1. moved[i] = call[j] /\ call[j] \in 2..Len(s) /\ (i = Len(new) <=> j = Len(sc))
        BY <1>2, <1>3, <1>5, <2>2
      <4>2. j # Len(sc) => j + 1 \in 1..Len(sc) /\ i + 1 = (j + 1) + 1
        BY <1>3, <2>2
      <4> QED
        BY <1>3, <4>1, <4>2
    <3>2. /\ s[call[j]].outerApp = (IF j = Len(sc) THEN NoApp ELSE Flow[sc[j + 1]].app)
          /\ IsOpen(s[call[j]])
      BY <1>1 DEF Placed
    <3> QED
      BY <3>1, <3>2 DEF Alike
  <2> QED
    BY <1>6, <2>1, <2>2
<1>11. Placed(t, new, moved)
  BY <1>7, <1>8, <1>9, <1>10 DEF Placed
<1> QED
  BY <1>4, <1>11 DEF Nested, new

\* The innermost call closes the innermost scope.
LEMMA NestedClose ==
    ASSUME NEW s, NEW t, NEW sc \in Seq(Flows), Nested(s, sc), Len(s) \in Nat \ {0},
           Len(t) = Len(s) - 1, IsOpen(s[1]), \A i \in 1..Len(t) : Alike(s[i + 1], t[i])
    PROVE  /\ sc # <<>> /\ Tail(sc) \in Seq(Flows) /\ Nested(t, Tail(sc))
           /\ s[1].outerApp = AppOf(Tail(sc))
<1>1. PICK call \in [1..Len(sc) -> Nat] : Placed(s, sc, call)
  BY DEF Nested
<1>2. Len(sc) \in Nat \ {0} /\ sc # <<>> /\ call[1] = 1
  <2>1. PICK i \in 1..Len(sc) : call[i] = 1
    BY <1>1 DEF Placed
  <2>2. 1 \in 1..Len(sc) /\ Len(sc) \in Nat \ {0}
    OBVIOUS
  <2>3. i = 1
    <3> SUFFICES ASSUME i # 1 PROVE FALSE
      OBVIOUS
    <3>1. call[1] < call[i] /\ call[1] \in 1..Len(s)
      BY <1>1, <2>2 DEF Placed
    <3> QED
      BY <2>1, <3>1
  <2> QED
    BY <2>1, <2>2, <2>3, EmptySeq
<1> DEFINE new == Tail(sc)
           moved == [i \in 1..Len(new) |-> call[i + 1] - 1]
<1>3. /\ new \in Seq(Flows) /\ Len(new) = Len(sc) - 1 /\ Len(new) \in Nat
      /\ \A i \in 1..Len(new) : new[i] = sc[i + 1]
      /\ new = <<>> <=> Len(new) = 0
  <2>1. /\ new \in Seq(Flows) /\ Len(new) = Len(sc) - 1
        /\ \A i \in 1..Len(new) : new[i] = sc[i + 1]
    BY <1>2, HeadTailProperties
  <2> HIDE DEF new
  <2>2. Len(new) \in Nat
    BY <1>2, <2>1
  <2>3. new # <<>> => Len(new) # 0
    BY <2>1, EmptySeq
  <2>4. new = <<>> => Len(new) = 0
    BY EmptySeq
  <2> QED
    BY <2>1, <2>2, <2>3, <2>4
<1> HIDE DEF new
<1>4. \A i \in 1..Len(new) : i + 1 \in 1..Len(sc) /\ call[i + 1] \in 2..Len(s)
  <2> SUFFICES ASSUME NEW i \in 1..Len(new)
               PROVE  i + 1 \in 1..Len(sc) /\ call[i + 1] \in 2..Len(s)
    OBVIOUS
  <2>1. i + 1 \in 1..Len(sc) /\ 1 \in 1..Len(sc) /\ 1 < i + 1
    BY <1>2, <1>3
  <2>2. call[1] < call[i + 1] /\ call[i + 1] \in 1..Len(s)
    BY <1>1, <2>1 DEF Placed
  <2> QED
    BY <1>2, <2>1, <2>2
<1>5. moved \in [1..Len(new) -> Nat] /\ \A i \in 1..Len(new) : moved[i] = call[i + 1] - 1
  BY <1>4
<1> HIDE DEF moved
<1>6. \A i \in 1..Len(new) : /\ moved[i] \in 1..Len(t)
                             /\ Alike(s[call[i + 1]], t[moved[i]])
  <2> SUFFICES ASSUME NEW i \in 1..Len(new)
               PROVE  moved[i] \in 1..Len(t) /\ Alike(s[call[i + 1]], t[moved[i]])
    OBVIOUS
  <2>0. PICK k \in 2..Len(s) : k = call[i + 1]
    BY <1>4
  <2>1. moved[i] \in 1..Len(t) /\ moved[i] + 1 = call[i + 1]
    <3>1. moved[i] = k - 1
      BY <1>5, <2>0
    <3>2. k - 1 \in 1..Len(t) /\ (k - 1) + 1 = k
      BY <2>0
    <3> QED
      BY <2>0, <3>1, <3>2
  <2> QED
    BY <2>1
<1>7. \A i \in 1..Len(new) : /\ IsOpen(t[moved[i]]) /\ t[moved[i]].flow = new[i]
                             /\ t[moved[i]].outerApp = s[call[i + 1]].outerApp
  BY <1>1, <1>3, <1>4, <1>6 DEF Placed, Alike
<1>8. ASSUME NEW i \in 1..Len(new), NEW j \in 1..Len(new), i < j
      PROVE  moved[i] < moved[j]
  <2>1. i + 1 < j + 1 /\ i + 1 \in 1..Len(sc) /\ j + 1 \in 1..Len(sc)
    BY <1>4, <1>8
  <2>2. call[i + 1] < call[j + 1]
    BY <1>1, <2>1 DEF Placed
  <2> QED
    BY <1>4, <1>5, <2>2
<1>9. ASSUME NEW c \in 1..Len(t), IsOpen(t[c])
      PROVE  \E i \in 1..Len(new) : moved[i] = c
  <2>1. c + 1 \in 1..Len(s) /\ (c + 1) - 1 = c /\ c + 1 # 1
    BY <1>9
  <2>2. IsOpen(s[c + 1])
    BY <1>9, <2>1 DEF Alike
  <2>3. PICK i \in 1..Len(sc) : call[i] = c + 1
    BY <1>1, <2>1, <2>2 DEF Placed
  <2>4. i # 1
    BY <1>2, <2>1, <2>3
  <2>5. i - 1 \in 1..Len(new) /\ (i - 1) + 1 = i
    BY <1>2, <1>3, <2>4
  <2> QED
    BY <1>5, <2>1, <2>3, <2>5
<1>10. \A i \in 1..Len(new) :
         t[moved[i]].outerApp = IF i = Len(new) THEN NoApp ELSE Flow[new[i + 1]].app
  <2> SUFFICES ASSUME NEW i \in 1..Len(new)
               PROVE  t[moved[i]].outerApp = IF i = Len(new) THEN NoApp ELSE Flow[new[i + 1]].app
    OBVIOUS
  <2>1. (i = Len(new) <=> i + 1 = Len(sc)) /\ (i # Len(new) => i + 1 \in 1..Len(new))
    BY <1>2, <1>3
  <2>2. s[call[i + 1]].outerApp = IF i + 1 = Len(sc) THEN NoApp ELSE Flow[sc[(i + 1) + 1]].app
    BY <1>1, <1>4 DEF Placed
  <2> QED
    BY <1>3, <1>7, <2>1, <2>2
<1>11. Placed(t, new, moved)
  BY <1>6, <1>7, <1>8, <1>9, <1>10 DEF Placed
<1>12. s[1].outerApp = AppOf(new)
  <2>1. s[call[1]].outerApp = IF 1 = Len(sc) THEN NoApp ELSE Flow[sc[1 + 1]].app
    <3>1. \A i \in 1..Len(sc) :
             s[call[i]].outerApp = IF i = Len(sc) THEN NoApp ELSE Flow[sc[i + 1]].app
      BY <1>1 DEF Placed
    <3>2. 1 \in 1..Len(sc)
      BY <1>2
    <3> QED
      BY <3>1, <3>2
  <2>2. (1 = Len(sc) <=> new = <<>>) /\ (1 # Len(sc) => new[1] = sc[1 + 1])
    BY <1>2, <1>3
  <2> QED
    BY <1>2, <2>1, <2>2 DEF AppOf
<1>13. Nested(t, new)
  BY <1>5, <1>11 DEF Nested
<1> QED
  BY <1>2, <1>3, <1>12, <1>13 DEF new

\* Of which scope a call holds, only its own entrance and its leave decide.
LEMMA SameAlike ==
    ASSUME NEW f \in Frame, NEW g \in Frame, Same(f, g)
    PROVE  Alike(f, g)
  BY DEF Same, Alike, IsOpen

LEMMA TurnScopes ==
    ASSUME ScopeInv, stack # <<>>, NEW f, Turned(f), Alike(Top, f)
    PROVE  Nested(stack', scopes)
<1>1. Top = stack[1]
  BY TopMoves DEF ScopeInv, CallsInv
<1>2. Len(stack') = Len(stack) /\ \A i \in 1..Len(stack) : Alike(stack[i], stack'[i])
  BY <1>1 DEF Turned, Alike
<1> DEFINE s == stack
<1>3. PICK t : t = stack'
  OBVIOUS
<1>4. Nested(s, scopes) /\ Len(t) = Len(s) /\ \A i \in 1..Len(s) : Alike(s[i], t[i])
  BY <1>2, <1>3 DEF ScopeInv
<1> HIDE DEF s
<1>5. Nested(t, scopes)
  BY <1>4, NestedTurn
<1> QED
  BY <1>3, <1>5

LEMMA GrowScopes ==
    ASSUME ScopeInv, stack # <<>>, NEW f, NEW g, Grown(g, f), Alike(Top, f), ~IsOpen(g)
    PROVE  Nested(stack', scopes)
<1>1. Top = stack[1] /\ Len(stack) \in Nat
  BY TopMoves DEF ScopeInv, CallsInv
<1>2. Len(stack') = Len(stack) + 1 /\ \A i \in 1..Len(stack) : Alike(stack[i], stack'[i + 1])
  <2> SUFFICES ASSUME NEW i \in 1..Len(stack)
               PROVE  Alike(stack[i], stack'[i + 1])
    BY DEF Grown
  <2>1. i + 1 \in 1..Len(stack') /\ i + 1 # 1 /\ (i + 1 = 2 <=> i = 1) /\ (i + 1) - 1 = i
    BY <1>1 DEF Grown
  <2>2. stack'[i + 1] = IF i = 1 THEN f ELSE stack[i]
    BY <2>1 DEF Grown
  <2> QED
    BY <1>1, <2>2 DEF Alike
<1>3. PICK t : t = stack'
  OBVIOUS
<1>4. ~IsOpen(t[1])
  BY <1>1, <1>3 DEF Grown
<1>5. Nested(t, scopes)
  BY <1>1, <1>2, <1>3, <1>4, NestedPush DEF ScopeInv
<1> QED
  BY <1>3, <1>5

\* The calls below the innermost one keep theirs.
LEMMA ShrinkAlike ==
    ASSUME FlowInv, stack # <<>>, NEW e \in AnyError, NEW c \in BOOLEAN,
           Shrunk(Receive(stack[2], e, c))
    PROVE  /\ Len(stack) \in Nat \ {0} /\ Len(stack') = Len(stack) - 1
           /\ \A i \in 1..Len(stack') : Alike(stack[i + 1], stack'[i])
<1>1. /\ Len(stack) \in Nat \ {0} /\ Len(stack) > 1 /\ Len(stack') = Len(stack) - 1
      /\ \A i \in 1..Len(stack) : stack[i] \in Frame
  BY TopMoves DEF Shrunk
<1>2. Alike(stack[2], Receive(stack[2], e, c))
  <2>1. stack[2] \in Frame
    BY <1>1
  <2> QED
    BY <2>1, Received, SameAlike
<1>3. PICK f : f = Receive(stack[2], e, c)
  OBVIOUS
<1>4. \A i \in 1..Len(stack') : stack'[i] = IF i = 1 THEN f ELSE stack[i + 1]
  BY <1>3 DEF Shrunk
<1> QED
  BY <1>1, <1>2, <1>3, <1>4 DEF Alike

LEMMA ShrinkScopes ==
    ASSUME ScopeInv, stack # <<>>, NEW e \in AnyError, NEW c \in BOOLEAN,
           Shrunk(Receive(stack[2], e, c)), ~IsOpen(Top)
    PROVE  Nested(stack', scopes)
<1>1. /\ Len(stack) \in Nat \ {0} /\ Len(stack') = Len(stack) - 1 /\ Top = stack[1]
      /\ \A i \in 1..Len(stack') : Alike(stack[i + 1], stack'[i])
  BY TopMoves, ShrinkAlike DEF ScopeInv, CallsInv
<1>2. PICK t : t = stack'
  OBVIOUS
<1>3. Nested(t, scopes)
  BY <1>1, <1>2, NestedPop DEF ScopeInv
<1> QED
  BY <1>2, <1>3

LEMMA ScopeInit == Init => ScopeInv
<1> SUFFICES ASSUME Init
             PROVE  ScopeInv
  OBVIOUS
<1>1. PICK root \in Roots : stack = <<EnterFrame(root, 0, 0)>>
  BY DEF Init
<1>2. Len(stack) = 1 /\ ~IsOpen(stack[1])
  BY <1>1 DEF EnterFrame, IsOpen
<1>3. scopes = <<>> /\ app = NoApp
  BY DEF Init
<1>4. Nested(stack, scopes)
  <2> DEFINE call == [i \in 1..Len(scopes) |-> 1]
  <2>1. call \in [1..Len(scopes) -> Nat] /\ Len(scopes) = 0
    BY <1>3
  <2>2. Placed(stack, scopes, call)
    BY <1>2, <2>1 DEF Placed
  <2> QED
    BY <2>1, <2>2 DEF Nested
<1> QED
  BY <1>3, <1>4, CallsInit DEF ScopeInv, AppOf

LEMMA ScopeNext == ScopeInv /\ [Next]_vars => ScopeInv'
<1> SUFFICES ASSUME ScopeInv, [Next]_vars
             PROVE  ScopeInv'
  OBVIOUS
<1>1. CallsInv /\ CallsInv' /\ FlowInv /\ scopes \in Seq(Flows) /\ Nested(stack, scopes)
  BY CallsNext DEF ScopeInv, CallsInv
<1>2. ASSUME scopes' = scopes, app' = app, poisoned => poisoned', Nested(stack', scopes)
      PROVE  ScopeInv'
  BY <1>1, <1>2 DEF ScopeInv, AppOf
<1>3. ASSUME stack # <<>>
      PROVE  Top \in Frame /\ Top = stack[1] /\ Len(stack) \in Nat \ {0}
  BY <1>1, <1>3, TopMoves
<1>4. CASE StartCommand
  <2>1. /\ stack # <<>> /\ SessionKept /\ poisoned' = poisoned
        /\ Caller \in Frame /\ Same(Top, Caller) /\ (CommandStarted \/ CommandRefused)
    BY <1>1, <1>4, StartCases
  <2> HIDE DEF Caller
  <2>2. Alike(Top, Caller)
    BY <1>3, <2>1, SameAlike
  <2>3. CASE CommandStarted
    <3>1. PICK g \in CommandFrame : g.kind # "flow" /\ Grown(g, Caller)
      BY <2>3 DEF CommandStarted
    <3> QED
      BY <1>2, <2>1, <2>2, <3>1, GrowScopes DEF IsOpen, SessionKept
  <2>4. CASE CommandRefused
    <3>1. PICK c \in BOOLEAN : Turned(Receive(Caller, "cancelled", c))
      BY <2>4 DEF CommandRefused
    <3>2. PICK f : f = Receive(Caller, "cancelled", c)
      OBVIOUS
    <3>3. "cancelled" \in AnyError
      BY DEF AnyError, Errors
    <3>4. f \in Frame /\ Turned(f) /\ Same(Caller, f)
      BY <2>1, <3>1, <3>2, <3>3, Received
    <3>5. Alike(Top, f)
      BY <2>1, <2>2, <3>4, SameAlike DEF Alike
    <3> QED
      BY <1>2, <2>1, <3>4, <3>5, TurnScopes DEF SessionKept
  <2> QED
    BY <2>1, <2>3, <2>4
<1>5. CASE EnterFlow
  <2>1. /\ stack # <<>> /\ Top.kind = "flow" /\ ~Top.opened /\ poisoned' = poisoned
        /\ Top \in FlowFrame
    BY <1>1, <1>5, EnterCases
  <2>2. PICK f \in FlowFrame : /\ Turned(f) /\ f.kind = "flow" /\ f.flow = Top.flow
                               /\ Opened(f) \/ Refused(f)
    BY <1>1, <1>5, EnterCases
  <2>3. CASE Refused(f)
    <3>1. Alike(Top, f)
      BY <2>1, <2>2, <2>3 DEF Alike, IsOpen, Refused
    <3> QED
      BY <1>2, <2>1, <2>2, <2>3, <3>1, TurnScopes DEF Refused
  <2>4. CASE Opened(f)
    <3>1. /\ ~poisoned /\ scopes' = <<Top.flow>> \o scopes /\ app' = Flow[Top.flow].app
          /\ f.outerApp = app /\ IsOpen(f) /\ Top.flow \in Flows
      BY <2>1, <2>2, <2>4 DEF Opened, IsOpen, FlowFrame
    <3>2. app = AppOf(scopes)
      BY <3>1 DEF ScopeInv
    <3>3. PICK t : t = stack'
      OBVIOUS
    <3>4. /\ Len(t) = Len(stack) /\ t[1] = f /\ ~IsOpen(stack[1])
          /\ \A i \in 2..Len(stack) : Alike(stack[i], t[i])
      BY <1>3, <2>1, <2>2, <3>3 DEF Turned, Alike, IsOpen
    <3>5. Nested(t, <<Top.flow>> \o scopes)
      BY <1>1, <1>3, <2>1, <2>2, <3>1, <3>2, <3>4, NestedOpen
    <3>6. /\ <<Top.flow>> \o scopes \in Seq(Flows)
          /\ AppOf(<<Top.flow>> \o scopes) = Flow[Top.flow].app
      <4> DEFINE f0 == Top.flow
      <4> HIDE DEF f0
      <4>1. f0 \in Flows => /\ <<f0>> \o scopes \in Seq(Flows) /\ <<f0>> \o scopes # <<>>
                            /\ (<<f0>> \o scopes)[1] = f0
        BY <1>1
      <4>2. f0 \in Flows
        BY <3>1 DEF f0
      <4>3. <<f0>> \o scopes \in Seq(Flows) /\ AppOf(<<f0>> \o scopes) = Flow[f0].app
        BY <4>1, <4>2 DEF AppOf
      <4> QED
        BY <4>3 DEF f0
    <3>7. PICK n : n = <<Top.flow>> \o scopes
      OBVIOUS
    <3>8. scopes' = n /\ Nested(stack', n) /\ n \in Seq(Flows) /\ app' = AppOf(n)
      BY <3>1, <3>3, <3>5, <3>6, <3>7
    <3> QED
      BY <1>1, <3>8 DEF ScopeInv, AppOf
  <2> QED
    BY <2>2, <2>3, <2>4
<1>6. CASE NextPhase
  <2>1. stack # <<>> /\ SessionKept /\ poisoned' = poisoned
    BY <1>1, <1>6, PhaseCases
  <2>2. PICK f \in FlowFrame : FlowTurned(f)
    BY <1>1, <1>6, PhaseCases
  <2>3. Turned(f) /\ Alike(Top, f)
    BY <1>3, <2>1, <2>2, SameAlike DEF FlowTurned, Frame
  <2> QED
    BY <1>2, <2>1, <2>3, TurnScopes DEF SessionKept
<1>7. CASE LeaveFlow
  <2>1. /\ stack # <<>> /\ Top.kind = "flow" /\ poisoned' = poisoned /\ ScopeError \in AnyError
        /\ scopes' = (IF Top.opened THEN Tail(scopes) ELSE scopes)
        /\ app' = RestoredApp(Top)
        /\ \/ Len(stack) = 1 /\ stack' = <<>>
           \/ \E c \in BOOLEAN : Shrunk(Receive(stack[2], ScopeError, c))
    BY <1>1, <1>7, LeaveCases
  <2>2. PICK t : t = stack'
    OBVIOUS
  <2>3. /\ Len(t) = Len(stack) - 1 /\ Len(stack) \in Nat \ {0} /\ Top = stack[1]
        /\ \A i \in 1..Len(t) : Alike(stack[i + 1], t[i])
    <3>1. CASE Len(stack) = 1 /\ stack' = <<>>
      BY <1>3, <2>1, <2>2, <3>1
    <3>2. CASE \E c \in BOOLEAN : Shrunk(Receive(stack[2], ScopeError, c))
      BY <1>1, <1>3, <2>1, <2>2, <3>2, ShrinkAlike
    <3> QED
      BY <2>1, <3>1, <3>2
  <2>4. CASE ~Top.opened
    <3>1. Nested(t, scopes)
      BY <1>1, <2>3, <2>4, NestedPop DEF IsOpen
    <3>2. scopes' = scopes /\ app' = app
      BY <2>1, <2>4 DEF RestoredApp
    <3> QED
      BY <1>2, <2>1, <2>2, <3>1, <3>2
  <2>5. CASE Top.opened
    <3>1. IsOpen(stack[1])
      BY <2>1, <2>3, <2>5 DEF IsOpen
    <3>2. /\ Tail(scopes) \in Seq(Flows) /\ Nested(t, Tail(scopes))
          /\ stack[1].outerApp = AppOf(Tail(scopes))
      BY <1>1, <2>3, <3>1, NestedClose
    <3>3. PICK n : n = Tail(scopes)
      OBVIOUS
    <3>4. /\ scopes' = n /\ Nested(stack', n) /\ n \in Seq(Flows)
          /\ ~poisoned => app' = AppOf(n)
      BY <2>1, <2>2, <2>3, <2>5, <3>2, <3>3 DEF RestoredApp
    <3> QED
      BY <1>1, <2>1, <3>4 DEF ScopeInv, AppOf
  <2> QED
    BY <2>4, <2>5
<1>8. CASE CommandStep
  <2>1. stack # <<>> /\ Top.kind # "flow" /\ SessionKept /\ CommandDone
    BY <1>1, <1>8, CommandCases
  <2>2. CASE CommandTurned
    <3>1. PICK f \in Frame : WentOn(f) /\ Turned(f) /\ poisoned' = poisoned
      BY <2>2 DEF CommandTurned
    <3>2. Alike(Top, f)
      BY <1>3, <2>1, <3>1, SameAlike DEF WentOn
    <3> QED
      BY <1>2, <2>1, <3>1, <3>2, TurnScopes DEF SessionKept
  <2>3. CASE FlowCalled
    <3>1. PICK f \in Frame, g \in Frame :
              WentOn(f) /\ CalledFlow(g) /\ Grown(g, f) /\ poisoned' = poisoned
      BY <2>3 DEF FlowCalled
    <3>2. Alike(Top, f) /\ ~IsOpen(g)
      BY <1>3, <2>1, <3>1, SameAlike DEF WentOn, CalledFlow, IsOpen
    <3> QED
      BY <1>2, <2>1, <3>1, <3>2, GrowScopes DEF SessionKept
  <2>4. CASE CommandEnded
    <3>1. PICK e \in AnyError, c \in BOOLEAN : \E row : EndedWith(e, c, row)
      BY <2>4 DEF CommandEnded
    <3>2. PICK row : EndedWith(e, c, row)
      BY <3>1
    <3>3. Shrunk(Receive(stack[2], Surfaced(row.outcome, e), c)) /\ (poisoned => poisoned')
      BY <3>2 DEF EndedWith
    <3>4. Surfaced(row.outcome, e) \in AnyError
      BY DEF Surfaced, AnyError
    <3>5. Nested(stack', scopes)
      BY <1>1, <2>1, <3>3, <3>4, ShrinkScopes DEF IsOpen
    <3> QED
      BY <1>2, <2>1, <3>3, <3>5 DEF SessionKept
  <2>5. CASE stack' = stack /\ poisoned' = poisoned
    BY <1>1, <1>2, <2>1, <2>5 DEF SessionKept
  <2> QED
    BY <2>1, <2>2, <2>3, <2>4, <2>5 DEF CommandDone
<1>9. CASE Cancel \/ UNCHANGED vars
  <2>1. stack' = stack /\ scopes' = scopes /\ app' = app /\ poisoned' = poisoned
    BY <1>9 DEF Cancel, vars
  <2> QED
    BY <1>1, <1>2, <2>1
<1> QED
  BY <1>4, <1>5, <1>6, <1>7, <1>8, <1>9 DEF Next, Step, CommandStep

\* The session's frames are the open flows, and lookups are about the innermost
\* one's application, for every program, however its calls end (enterFlow, flowScope.Close).
THEOREM FramesNest == Spec => []ScopesNested
<1>1. ScopeInv => ScopesNested
  <2> SUFFICES ASSUME ScopeInv
               PROVE  ScopesNested
    OBVIOUS
  <2>1. PICK call \in [1..Len(scopes) -> Nat] : Placed(stack, scopes, call)
    BY DEF ScopeInv, Nested
  <2>2. DOMAIN scopes = 1..Len(scopes) /\ DOMAIN stack = 1..Len(stack)
    <3>1. stack \in Seq(Frame)
      <4>1. CASE stack = <<>>
        BY <4>1
      <4>2. CASE stack # <<>>
        BY <4>2 DEF ScopeInv, CallsInv, FlowInv, Stacked
      <4> QED
        BY <4>1, <4>2
    <3> QED
      BY <3>1 DEF ScopeInv
  <2>3. call \in [DOMAIN scopes -> OpenCalls]
    BY <2>1, <2>2 DEF Placed, OpenCalls, IsOpen
  <2>4. /\ \A i, j \in DOMAIN scopes : i < j => call[i] < call[j]
        /\ \A c \in OpenCalls : \E i \in DOMAIN scopes : call[i] = c
        /\ \A i \in DOMAIN scopes : scopes[i] = stack[call[i]].flow
    BY <2>1, <2>2 DEF Placed, OpenCalls, IsOpen
  <2>5. ~poisoned => app = IF scopes = <<>> THEN NoApp ELSE Flow[Head(scopes)].app
    <3>1. scopes # <<>> => Head(scopes) = scopes[1]
      BY DEF ScopeInv
    <3> QED
      BY <3>1 DEF ScopeInv, AppOf
  <2> QED
    BY <2>3, <2>4, <2>5 DEF ScopesNested
<1> QED
  BY <1>1, ScopeInit, ScopeNext, PTL DEF Spec

-----------------------------------------------------------------------------
(***************************************************************************)
(* A flow that was entered runs its completion hooks.                      *)
(***************************************************************************)
Owes(f) == IsOpen(f) /\ Flow[f.flow].onComplete # <<>>
FirstHook(f) == Head(Flow[f.flow].onComplete)
Ran(f, rows) == \E r \in rows : r.cmd = FirstHook(f) /\ r.seq > f.mark
IsHook(g, f) == g.kind # "flow" /\ g.cmd = FirstHook(f) /\ g.seq > f.mark
Before(f) == f.todo = Flow[f.flow].onComplete

\* The hooks of a flow that completes are all before it, or the first of them is
\* executing, or is recorded; when the flow is left, it is recorded.
Hooked(s, i, rows, p) ==
    Owes(s[i]) =>
        /\ s[i].phase = "onComplete" => \/ i = 1 /\ Before(s[i])
                                        \/ i # 1 /\ IsHook(s[i - 1], s[i])
                                        \/ Ran(s[i], rows)
        /\ s[i].phase = "leave" /\ ~p => Ran(s[i], rows)
HooksOf(s, rows, p) == \A i \in 1..Len(s) : Hooked(s, i, rows, p)
HookInv == CallsInv /\ HooksOf(stack, ledger, poisoned)

\* What a call is to the flow below it, and what a flow owes, stays.
SameCall(f, g) == g.kind = f.kind /\ g.seq = f.seq /\ (f.kind # "flow" => g.cmd = f.cmd)
Kept(f, g) == Alike(f, g) /\ (IsOpen(f) => g.mark = f.mark /\ g.phase = f.phase)

LEMMA HookedLater ==
    ASSUME NEW s, NEW i, NEW t, NEW j, NEW rows, NEW more, NEW p, NEW q,
           Hooked(s, i, rows, p), rows \subseteq more, p => q, Kept(s[i], t[j]),
           Owes(s[i]) /\ i = 1 /\ Before(s[i])
             => \/ j = 1 /\ Before(t[j])
                \/ j # 1 /\ IsHook(t[j - 1], t[j])
                \/ Ran(t[j], more),
           Owes(s[i]) /\ i # 1 /\ IsHook(s[i - 1], s[i])
             => (j # 1 /\ IsHook(t[j - 1], t[j])) \/ Ran(t[j], more)
    PROVE  Hooked(t, j, more, q)
<1> SUFFICES ASSUME Owes(t[j])
             PROVE  /\ t[j].phase = "onComplete" => \/ j = 1 /\ Before(t[j])
                                                    \/ j # 1 /\ IsHook(t[j - 1], t[j])
                                                    \/ Ran(t[j], more)
                    /\ t[j].phase = "leave" /\ ~q => Ran(t[j], more)
  BY DEF Hooked
<1>1. Owes(s[i]) /\ t[j].flow = s[i].flow /\ t[j].mark = s[i].mark /\ t[j].phase = s[i].phase
  BY DEF Owes, Kept, Alike
<1>2. Ran(s[i], rows) => Ran(t[j], more)
  BY <1>1 DEF Ran, FirstHook
<1> QED
  BY <1>1, <1>2 DEF Hooked

LEMMA HooksTurn ==
    ASSUME NEW s, NEW t, NEW rows, NEW more, NEW p, NEW q,
           HooksOf(s, rows, p), rows \subseteq more, p => q,
           Len(s) \in Nat \ {0}, Len(t) = Len(s), \A i \in 2..Len(s) : t[i] = s[i],
           SameCall(s[1], t[1]), Hooked(t, 1, more, q)
    PROVE  HooksOf(t, more, q)
<1> SUFFICES ASSUME NEW i \in 1..Len(t), i # 1
             PROVE  Hooked(t, i, more, q)
  BY DEF HooksOf
<1>1. i \in 2..Len(s) /\ t[i] = s[i] /\ Hooked(s, i, rows, p) /\ Kept(s[i], t[i])
  BY DEF HooksOf, Kept, Alike
<1>2. IsHook(s[i - 1], s[i]) => IsHook(t[i - 1], t[i])
  <2>1. CASE i = 2
    BY <1>1, <2>1 DEF IsHook, SameCall
  <2>2. CASE i # 2
    <3>1. i - 1 \in 2..Len(s)
      BY <1>1, <2>2
    <3> QED
      BY <1>1, <3>1
  <2> QED
    BY <2>1, <2>2
<1> QED
  BY <1>1, <1>2, HookedLater

LEMMA HooksGrow ==
    ASSUME NEW s, NEW t, NEW rows, NEW more, NEW p, NEW q,
           HooksOf(s, rows, p), rows \subseteq more, p => q,
           Len(s) \in Nat \ {0}, Len(t) = Len(s) + 1, \A i \in 3..Len(t) : t[i] = s[i - 1],
           SameCall(s[1], t[2]), Kept(s[1], t[2]), ~IsOpen(t[1]),
           Owes(s[1]) /\ Before(s[1]) => IsHook(t[1], t[2])
    PROVE  HooksOf(t, more, q)
<1> SUFFICES ASSUME NEW i \in 1..Len(t)
             PROVE  Hooked(t, i, more, q)
  BY DEF HooksOf
<1>1. CASE i = 1
  BY <1>1 DEF Hooked, Owes
<1>2. CASE i = 2
  <2>1. Hooked(s, 1, rows, p) /\ 2 # 1 /\ 2 - 1 = 1
    BY DEF HooksOf
  <2> QED
    BY <1>2, <2>1, HookedLater
<1>3. CASE i # 1 /\ i # 2
  <2>1. i \in 3..Len(t) /\ i - 1 \in 1..Len(s) /\ i - 1 # 1
    BY <1>3
  <2>2. t[i] = s[i - 1] /\ Hooked(s, i - 1, rows, p) /\ Kept(s[i - 1], t[i])
    BY <2>1 DEF HooksOf, Kept, Alike
  <2>3. IsHook(s[(i - 1) - 1], s[i - 1]) => IsHook(t[i - 1], t[i])
    <3>1. CASE i = 3
      BY <2>2, <3>1 DEF IsHook, SameCall
    <3>2. CASE i # 3
      <4>1. i - 1 \in 3..Len(t)
        BY <2>1, <3>2
      <4>2. t[i - 1] = s[(i - 1) - 1]
        BY <4>1
      <4> QED
        BY <2>2, <4>2
    <3> QED
      BY <3>1, <3>2
  <2> QED
    BY <1>3, <2>1, <2>2, <2>3, HookedLater
<1> QED
  BY <1>1, <1>2, <1>3

LEMMA HooksShrink ==
    ASSUME NEW s, NEW t, NEW rows, NEW more, NEW p, NEW q,
           HooksOf(s, rows, p), rows \subseteq more, p => q,
           Len(s) \in Nat \ {0}, Len(t) = Len(s) - 1, \A i \in 2..Len(t) : t[i] = s[i + 1],
           SameCall(s[2], t[1]), Kept(s[2], t[1]),
           IsOpen(s[2]) /\ IsHook(s[1], s[2]) => Ran(t[1], more)
    PROVE  HooksOf(t, more, q)
<1> SUFFICES ASSUME NEW i \in 1..Len(t)
             PROVE  Hooked(t, i, more, q)
  BY DEF HooksOf
<1>0. i + 1 \in 1..Len(s) /\ i + 1 # 1 /\ (i + 1) - 1 = i
  OBVIOUS
<1>1. Hooked(s, i + 1, rows, p)
  BY <1>0 DEF HooksOf
<1>2. CASE i = 1
  <2>1. Hooked(s, 2, rows, p) /\ 2 # 1 /\ 2 - 1 = 1
    BY <1>1, <1>2
  <2> QED
    BY <1>2, <2>1, HookedLater DEF Owes
<1>3. CASE i # 1
  <2>1. i \in 2..Len(t) /\ t[i] = s[i + 1] /\ Kept(s[i + 1], t[i])
    BY <1>3 DEF Kept, Alike
  <2>2. IsHook(s[(i + 1) - 1], s[i + 1]) => IsHook(t[i - 1], t[i])
    <3>1. CASE i = 2
      BY <1>0, <2>1, <3>1 DEF IsHook, SameCall
    <3>2. CASE i # 2
      <4>1. i - 1 \in 2..Len(t) /\ (i - 1) + 1 = i
        BY <2>1, <3>2
      <4>2. t[i - 1] = s[i]
        BY <4>1
      <4> QED
        BY <1>0, <2>1, <4>2
    <3> QED
      BY <3>1, <3>2
  <2> QED
    BY <1>0, <1>1, <1>3, <2>1, <2>2, HookedLater
<1> QED
  BY <1>2, <1>3

LEMMA SameKept ==
    ASSUME NEW f \in Frame, NEW g \in Frame, Same(f, g)
    PROVE  SameCall(f, g) /\ (g.phase = f.phase => Kept(f, g)) /\ (f.kind # "flow" => Kept(f, g))
  BY SameAlike DEF Same, SameCall, Kept, IsOpen

LEMMA ShrinkHooks ==
    ASSUME HookInv, stack # <<>>, NEW e \in AnyError, NEW c \in BOOLEAN,
           Shrunk(Receive(stack[2], e, c)), ledger \subseteq ledger', poisoned => poisoned',
           IsHook(stack[1], stack[2]) => Ran(stack[2], ledger')
    PROVE  HooksOf(stack', ledger', poisoned')
<1>1. /\ Len(stack) \in Nat \ {0} /\ Len(stack) > 1
      /\ \A i \in 1..Len(stack) : stack[i] \in Frame
  BY TopMoves DEF HookInv, CallsInv, Shrunk
<1>2. PICK f, t, more, q : f = Receive(stack[2], e, c) /\ t = stack' /\ more = ledger' /\ q = poisoned'
  OBVIOUS
<1>3. stack[2] \in Frame /\ f \in Frame /\ Same(stack[2], f) /\ f.phase = stack[2].phase
  BY <1>1, <1>2, Received
<1>4. /\ Len(t) = Len(stack) - 1 /\ t[1] = f /\ \A i \in 2..Len(t) : t[i] = stack[i + 1]
  BY <1>1, <1>2 DEF Shrunk
<1>5. SameCall(stack[2], t[1]) /\ Kept(stack[2], t[1])
  BY <1>3, <1>4, SameKept
<1>6. IsHook(stack[1], stack[2]) /\ IsOpen(stack[2]) => Ran(t[1], more)
  BY <1>2, <1>3, <1>4 DEF Ran, FirstHook, Same, IsOpen
<1>7. HooksOf(t, more, q)
  BY <1>1, <1>2, <1>4, <1>5, <1>6, HooksShrink DEF HookInv
<1> QED
  BY <1>2, <1>7

LEMMA HookInit == Init => HookInv
<1> SUFFICES ASSUME Init
             PROVE  HookInv
  OBVIOUS
<1>1. PICK root \in Roots : stack = <<EnterFrame(root, 0, 0)>>
  BY DEF Init
<1>2. Len(stack) = 1 /\ ~IsOpen(stack[1])
  BY <1>1 DEF EnterFrame, IsOpen
<1> QED
  BY <1>2, CallsInit DEF HookInv, HooksOf, Hooked, Owes

LEMMA HookNext == HookInv /\ [Next]_vars => HookInv'
<1> SUFFICES ASSUME HookInv, [Next]_vars
             PROVE  HookInv'
  OBVIOUS
<1>1. CallsInv /\ CallsInv' /\ FlowInv /\ HooksOf(stack, ledger, poisoned)
  BY CallsNext DEF HookInv, CallsInv
<1>2. ASSUME HooksOf(stack', ledger', poisoned')
      PROVE  HookInv'
  BY <1>1, <1>2 DEF HookInv
<1>3. ASSUME stack # <<>>
      PROVE  /\ Top \in Frame /\ Top = stack[1] /\ Len(stack) \in Nat \ {0}
             /\ Top.kind = "flow" => Top.mark \in Nat /\ Top.mark <= next
             /\ next \in Nat /\ Hooked(stack, 1, ledger, poisoned) /\ Sound(Top, poisoned, next)
  <2>1. Top \in Frame /\ Top = stack[1] /\ Len(stack) \in Nat \ {0} /\ 1 \in 1..Len(stack) /\ next \in Nat
    BY <1>1, <1>3, TopMoves
  <2> QED
    BY <1>1, <2>1, FrameKinds DEF CallsInv, Sound, FlowFrame, HooksOf
<1>4. PICK t, more, q : t = stack' /\ more = ledger' /\ q = poisoned'
  OBVIOUS
\* A step of the innermost call that stays, and one that makes another call.
<1>5. ASSUME stack # <<>>, NEW f, Turned(f), SameCall(Top, f), ledger \subseteq ledger',
             poisoned => poisoned', \A s : s[1] = f => Hooked(s, 1, more, q)
      PROVE  HookInv'
  <2>1. Len(t) = Len(stack) /\ t[1] = f /\ \A i \in 2..Len(stack) : t[i] = stack[i]
    BY <1>3, <1>4, <1>5 DEF Turned
  <2>2. Hooked(t, 1, more, q)
    BY <1>5, <2>1
  <2>3. HooksOf(t, more, q)
    BY <1>1, <1>3, <1>4, <1>5, <2>1, <2>2, HooksTurn
  <2> QED
    BY <1>2, <1>4, <2>3
<1>6. ASSUME stack # <<>>, NEW f, NEW g, Grown(g, f), SameCall(Top, f), Kept(Top, f), ~IsOpen(g),
             ledger' = ledger, poisoned' = poisoned, Owes(Top) /\ Before(Top) => IsHook(g, f)
      PROVE  HookInv'
  <2>1. /\ Len(t) = Len(stack) + 1 /\ t[1] = g /\ t[2] = f
        /\ \A i \in 3..Len(t) : t[i] = stack[i - 1]
    BY <1>3, <1>4, <1>6 DEF Grown
  <2>2. HooksOf(t, more, q)
    BY <1>1, <1>3, <1>4, <1>6, <2>1, HooksGrow
  <2> QED
    BY <1>2, <1>4, <2>2
<1>7. CASE StartCommand
  <2>1. /\ stack # <<>> /\ Top.todo # <<>> /\ poisoned' = poisoned
        /\ Caller \in Frame /\ Same(Top, Caller) /\ Caller.phase = Top.phase
        /\ Caller.failure = Top.failure /\ (CommandStarted \/ CommandRefused)
    BY <1>1, <1>7, StartCases
  <2> HIDE DEF Caller
  <2>2. SameCall(Top, Caller) /\ Kept(Top, Caller)
    BY <1>3, <2>1, SameKept
  <2>3. CASE CommandStarted
    <3>1. PICK g \in CommandFrame : /\ g.cmd = Head(Top.todo) /\ g.seq = next + 1 /\ g.kind # "flow"
                                    /\ Grown(g, Caller) /\ ledger' = ledger
      BY <2>3 DEF CommandStarted
    <3>2. Owes(Top) /\ Before(Top) => IsHook(g, Caller)
      BY <1>3, <2>1, <3>1 DEF Owes, Before, IsHook, FirstHook, IsOpen, Same
    <3>3. ~IsOpen(g)
      BY <3>1 DEF IsOpen
    <3> QED
      BY <1>6, <2>1, <2>2, <3>1, <3>2, <3>3
  <2>4. CASE CommandRefused
    <3> DEFINE row == Recorded(Head(Top.todo), next + 1, SequenceDepth(Top), Top.seq, "cancelled")
    <3>1. PICK c \in BOOLEAN : /\ ledger' = ledger \cup {row}
                               /\ Turned(Receive(Caller, "cancelled", c))
      BY <2>4 DEF CommandRefused
    <3>2. PICK f : f = Receive(Caller, "cancelled", c)
      OBVIOUS
    <3>3. "cancelled" \in AnyError
      BY DEF AnyError, Errors
    <3>4. f \in Frame /\ Turned(f) /\ Same(Caller, f) /\ f.phase = Caller.phase
      BY <2>1, <3>1, <3>2, <3>3, Received
    <3>5. Same(Top, f) /\ f.phase = Top.phase
      BY <2>1, <3>4 DEF Same
    <3>6. SameCall(Top, f) /\ Kept(Top, f)
      BY <1>3, <2>1, <3>4, <3>5, SameKept
    <3>7. row.cmd = Head(Top.todo) /\ row.seq = next + 1 /\ row \in more
      BY <1>4, <3>1 DEF Recorded
    <3> HIDE DEF row
    <3>8. Owes(Top) /\ Before(Top) => Ran(f, more)
      BY <1>3, <2>1, <3>5, <3>7 DEF Owes, Before, Ran, FirstHook, IsOpen, Same
    <3>9. ledger \subseteq more
      BY <1>4, <3>1
    <3>10. ASSUME NEW s, s[1] = f
           PROVE  Hooked(s, 1, more, q)
      BY <1>3, <1>4, <2>1, <3>6, <3>8, <3>9, <3>10, HookedLater
    <3> QED
      BY <1>4, <1>5, <2>1, <3>4, <3>6, <3>9, <3>10
  <2> QED
    BY <2>1, <2>3, <2>4
<1>8. CASE EnterFlow
  <2>1. stack # <<>> /\ Top.kind = "flow" /\ poisoned' = poisoned /\ ledger' = ledger
    BY <1>1, <1>8, EnterCases
  <2>2. PICK f \in FlowFrame : /\ Turned(f) /\ f.kind = "flow" /\ f.seq = Top.seq
                               /\ Opened(f) \/ Refused(f)
    BY <1>1, <1>8, EnterCases
  <2>3. \A s : s[1] = f => Hooked(s, 1, more, q)
    BY <2>2 DEF Hooked, Owes, IsOpen, Opened, Refused
  <2> QED
    BY <1>5, <2>1, <2>2, <2>3 DEF SameCall
<1>9. CASE NextPhase
  <2>1. /\ stack # <<>> /\ Top.kind = "flow" /\ Top.todo = <<>> /\ poisoned' = poisoned
        /\ ledger' = ledger
    BY <1>1, <1>9, PhaseCases
  <2>2. PICK f \in FlowFrame : FlowTurned(f)
    BY <1>1, <1>9, PhaseCases
  <2>3. Turned(f) /\ SameCall(Top, f) /\ Same(Top, f)
    BY <1>3, <2>1, <2>2, SameKept DEF FlowTurned, Frame
  <2>4. ASSUME NEW s, s[1] = f
        PROVE  Hooked(s, 1, more, q)
    <3>1. CASE f.phase = "body"
      BY <2>4, <3>1 DEF Hooked
    <3>2. CASE f.phase = "onComplete" /\ f.todo = Flow[Top.flow].onComplete
      BY <2>1, <2>3, <2>4, <3>2 DEF Hooked, Before, Same
    <3>3. CASE f.phase = "leave" /\ Top.phase = "onComplete"
      <4>1. Owes(f) => Owes(Top) /\ ~Before(Top)
        BY <2>1, <2>3 DEF Owes, IsOpen, Same, Before
      <4>2. Owes(f) => Ran(Top, ledger)
        BY <1>3, <2>1, <3>3, <4>1 DEF Hooked
      <4>3. Owes(f) => Ran(f, more)
        BY <1>4, <2>1, <2>3, <4>2 DEF Ran, FirstHook, Same
      <4> QED
        BY <2>4, <3>3, <4>3 DEF Hooked
    <3>4. CASE f.phase = "leave" /\ Top.failure = "integrity"
      BY <1>3, <1>4, <2>1, <2>4, <3>4 DEF Hooked, Sound
    <3> QED
      BY <2>2, <3>1, <3>2, <3>3, <3>4 DEF FlowTurned
  <2> QED
    BY <1>5, <2>1, <2>3, <2>4
<1>10. CASE LeaveFlow
  <2>1. /\ stack # <<>> /\ Top.kind = "flow" /\ poisoned' = poisoned /\ ledger' = ledger
        /\ ScopeError \in AnyError
        /\ stack' = <<>> \/ \E c \in BOOLEAN : Shrunk(Receive(stack[2], ScopeError, c))
    BY <1>1, <1>10, LeaveCases
  <2>2. CASE stack' = <<>>
    BY <1>2, <2>2 DEF HooksOf
  <2>3. CASE \E c \in BOOLEAN : Shrunk(Receive(stack[2], ScopeError, c))
    <3>1. ~IsHook(stack[1], stack[2])
      BY <1>3, <2>1 DEF IsHook
    <3> QED
      BY <1>2, <2>1, <2>3, <3>1, ShrinkHooks
  <2> QED
    BY <2>1, <2>2, <2>3
<1>11. CASE CommandStep
  <2>1. stack # <<>> /\ Top.kind # "flow" /\ CommandDone
    BY <1>1, <1>11, CommandCases
  <2>2. CASE CommandTurned
    <3>1. PICK f \in Frame : WentOn(f) /\ Turned(f) /\ poisoned' = poisoned /\ ledger' = ledger
      BY <2>2 DEF CommandTurned
    <3>2. SameCall(Top, f) /\ f.kind # "flow"
      BY <1>3, <2>1, <3>1, SameKept DEF WentOn, Same
    <3>3. \A s : s[1] = f => Hooked(s, 1, more, q)
      BY <3>2 DEF Hooked, Owes, IsOpen
    <3> QED
      BY <1>5, <2>1, <3>1, <3>2, <3>3
  <2>3. CASE FlowCalled
    <3>1. PICK f \in Frame, g \in Frame :
              WentOn(f) /\ CalledFlow(g) /\ Grown(g, f) /\ poisoned' = poisoned /\ ledger' = ledger
      BY <2>3 DEF FlowCalled
    <3>2. SameCall(Top, f) /\ Kept(Top, f) /\ ~IsOpen(g) /\ ~Owes(Top)
      BY <1>3, <2>1, <3>1, SameKept DEF WentOn, CalledFlow, IsOpen, Owes
    <3> QED
      BY <1>6, <2>1, <3>1, <3>2
  <2>4. CASE CommandEnded
    <3>1. PICK e \in AnyError, c \in BOOLEAN : \E row : EndedWith(e, c, row)
      BY <2>4 DEF CommandEnded
    <3>2. PICK row : EndedWith(e, c, row)
      BY <3>1
    <3>3. /\ Shrunk(Receive(stack[2], Surfaced(row.outcome, e), c)) /\ (poisoned => poisoned')
          /\ row.cmd = Top.cmd /\ row.seq = Top.seq /\ ledger' = ledger \cup {row}
      BY <3>2 DEF EndedWith, Recorded
    <3>4. Surfaced(row.outcome, e) \in AnyError
      BY DEF Surfaced, AnyError
    <3>5. IsHook(stack[1], stack[2]) => Ran(stack[2], ledger')
      BY <1>3, <2>1, <3>3 DEF IsHook, Ran
    <3>6. HooksOf(stack', ledger', poisoned')
      BY <2>1, <3>3, <3>4, <3>5, ShrinkHooks
    <3> QED
      BY <1>2, <3>6
  <2>5. CASE stack' = stack /\ ledger' = ledger /\ poisoned' = poisoned
    BY <1>1, <1>2, <2>5
  <2> QED
    BY <2>1, <2>2, <2>3, <2>4, <2>5 DEF CommandDone
<1>12. CASE Cancel \/ UNCHANGED vars
  <2>1. stack' = stack /\ ledger' = ledger /\ poisoned' = poisoned
    BY <1>12 DEF Cancel, vars
  <2> QED
    BY <1>1, <1>2, <2>1
<1> QED
  BY <1>7, <1>8, <1>9, <1>10, <1>11, <1>12 DEF Next, Step, CommandStep

\* A flow that was entered has run its completion hooks when it is left, for every
\* program, whatever failed or was cancelled in it, unless the session was poisoned
\* (executeFlowLifecycle).
THEOREM HooksRun == Spec => CompletionHooksRun
<1> DEFINE A == \A f \in Flows :
                  /\ TopIs("flow", "leave") /\ Top.flow = f /\ Top.opened
                  /\ ~poisoned /\ Flow[f].onComplete # <<>>
                  /\ stack' # stack
                  => \E r \in ledger : r.cmd = Head(Flow[f].onComplete) /\ r.seq > Top.mark
<1>1. HookInv => A
  <2> SUFFICES ASSUME HookInv, NEW f \in Flows, TopIs("flow", "leave"), Top.flow = f, Top.opened,
                      ~poisoned, Flow[f].onComplete # <<>>
               PROVE  \E r \in ledger : r.cmd = Head(Flow[f].onComplete) /\ r.seq > Top.mark
    OBVIOUS
  <2>1. stack # <<>> /\ Top.kind = "flow" /\ Top.phase = "leave"
    BY DEF TopIs
  <2>2. Top = stack[1] /\ 1 \in 1..Len(stack)
    BY <2>1, TopMoves DEF HookInv, CallsInv
  <2>3. Hooked(stack, 1, ledger, poisoned) /\ Owes(stack[1])
    BY <2>1, <2>2 DEF HookInv, HooksOf, Owes, IsOpen
  <2> QED
    BY <2>1, <2>2, <2>3 DEF Hooked, Ran, FirstHook
<1>2. CompletionHooksRun <=> [][A]_vars
  BY DEF CompletionHooksRun
<1> HIDE DEF A
<1> QED
  BY <1>1, <1>2, HookInit, HookNext, PTL DEF Spec

-----------------------------------------------------------------------------
(***************************************************************************)
(* Results that stand.  Beside the calls go the rows of the ledger that    *)
(* belong to each of them: those of earlier runs are reset, those of the   *)
(* run in progress are one for each command it has passed.                 *)
(***************************************************************************)
IsCommand(g) == g.kind # "flow"

\* The commands of a call, and those it has still to start.
FlowPool(f) == Members(Flow[f].onStart) \cup Members(Flow[f].body) \cup Members(Flow[f].onComplete)
Pool(g) ==
    IF g.kind = "flow" THEN FlowPool(g.flow)
    ELSE IF Command[g.cmd].linked # NoFlow THEN FlowPool(Command[g.cmd].linked)
    ELSE Members(Command[g.cmd].children)
Later(g) ==
    IF g.kind # "flow" THEN {}
    ELSE CASE g.phase = "enter" -> FlowPool(g.flow)
           [] g.phase = "onStart" -> Members(Flow[g.flow].body) \cup Members(Flow[g.flow].onComplete)
           [] g.phase = "body" -> Members(Flow[g.flow].onComplete)
           [] OTHER -> {}
Coming(g) == Members(g.todo) \cup Later(g)

\* What is in hand above a call: the command it runs, a flow it has called, or, above the
\* innermost call, what a step is about to bring (next).
InHand(s, i, x) ==
    IF i = 1 THEN x ELSE IF IsCommand(s[i - 1]) THEN {s[i - 1].cmd} ELSE {}
CallsFlow(s, i) == i # 1 /\ ~IsCommand(s[i - 1])

\* The rows of the run in progress of a call.
RunRows(g, rows) == {r \in rows : r.parent = g.seq /\ r.seq > g.mark}
Passed(g, rows) == {r.cmd : r \in RunRows(g, rows)}

\* Numbers grow from the outermost call to the innermost, and a row is in its call.
Inside(g, depth, parent) == depth > g.depth /\ (depth = g.depth + 1 <=> parent = g.seq)
Growing(s, n) ==
    /\ \A i \in 1..Len(s) : s[i].seq <= s[i].mark /\ s[i].mark <= n
    /\ \A i, j \in 1..Len(s) : i < j /\ IsCommand(s[i]) =>
          s[i].seq > s[j].mark /\ (IsCommand(s[j]) => Inside(s[j], s[i].depth, s[i + 1].seq))
Linked(s) ==
    \A i \in 1..Len(s) : CallsFlow(s, i) =>
        /\ IsCommand(s[i]) /\ Command[s[i].cmd].linked = s[i - 1].flow /\ s[i - 1].flow # NoFlow
        /\ s[i - 1].seq = s[i].seq /\ s[i - 1].mark = s[i].mark /\ s[i - 1].depth = s[i].depth + 1
Filed(rows, gone, n) ==
    /\ \A r \in rows : r.seq \in 1..n /\ r.parent \in Nat /\ r.parent < r.seq /\ r.depth \in Nat
    /\ \A q, r \in rows : q.seq = r.seq => q = r
    /\ gone \subseteq {r.seq : r \in rows}
Outside(g, rows) ==
    IsCommand(g) => \A r \in rows :
        r.seq # g.seq /\ (r.seq > g.seq => Inside(g, r.depth, r.parent))

\* What a call is about to run, runs and has run are different commands of its own,
\* and all of them unless one has failed.
Steady(g) ==
    /\ Once(g.todo) /\ Members(g.todo) \cap Later(g) = {}
    /\ IsCommand(g) =>
          /\ Command[g.cmd].linked # NoFlow => g.todo = <<>>
          /\ g.phase \notin {"running", "reset"} => g.failure = NoError
          /\ g.phase = "running" => g.runs > 0
          /\ g.phase = "attempt" \/ g.kind = "leaf" => g.runs = 0
    /\ ~IsCommand(g) => (g.halted => g.failure # NoError)
Accounted(g, called, hand, rows) ==
    /\ (Coming(g) \cup hand) \subseteq Pool(g) \ Passed(g, rows)
    /\ Coming(g) \cap hand = {}
    /\ \A q, r \in RunRows(g, rows) : q.cmd = r.cmd => q = r
    /\ g.failure = NoError /\ ~called /\ (IsCommand(g) => g.runs > 0)
          => Pool(g) \subseteq Passed(g, rows) \cup Coming(g) \cup hand
Former(g, rows, gone) ==
    \A r \in rows : r.parent = g.seq =>
        /\ r.cmd \in Pool(g) /\ (r.seq <= g.mark => r.seq \in gone)
        /\ IsCommand(g) => g.runs > 0
Standing(g, rows, gone) == \A r \in RunRows(g, rows) : r.seq \notin gone

Tallied(s, x, rows, gone, n) ==
    /\ Growing(s, n) /\ Linked(s) /\ Filed(rows, gone, n)
    /\ \A i \in 1..Len(s) : /\ Steady(s[i]) /\ Former(s[i], rows, gone) /\ Outside(s[i], rows)
                            /\ Accounted(s[i], CallsFlow(s, i), InHand(s, i, x), rows)
    /\ \A i \in 2..Len(s) : Standing(s[i], rows, gone)

StandOnce(rows, gone) ==
    /\ \A q, r \in rows : q.cmd = r.cmd /\ q.parent = r.parent /\ q.seq < r.seq => q.seq \in gone
    /\ \A p, q \in rows : q.parent = p.seq /\ q.seq \in gone /\ p.outcome = "Completed"
           => \E r \in rows : r.parent = p.seq /\ r.seq > q.seq /\ r.seq \notin gone

Resetting(g) == g.kind = "retry" /\ g.phase = "reset"
Told(s, rows, gone, n) ==
    /\ StandOnce(rows, gone) /\ Tallied(s, {}, rows, gone, n)
    /\ Len(s) # 0 /\ ~Resetting(s[1]) => Standing(s[1], rows, gone)
LedgerInv == CallsInv /\ Told(stack, ledger, reset, next)

\* A stack of calls.
Stack(s) == Len(s) \in Nat /\ \A i \in 1..Len(s) : s[i] \in Frame

LEMMA FrameMarks ==
    ASSUME NEW f \in Frame
    PROVE  f.mark \in Nat /\ f.seq \in Nat /\ f.depth \in Nat
  BY DEF Frame, FlowFrame, CommandFrame

\* What does not change of a call while it goes on with the same run.
Fixed(f, g) ==
    /\ g.kind = f.kind /\ g.seq = f.seq /\ g.depth = f.depth /\ g.mark = f.mark
    /\ IsCommand(f) => g.cmd = f.cmd /\ g.runs = f.runs
    /\ ~IsCommand(f) => g.flow = f.flow

LEMMA FixedKeeps ==
    ASSUME NEW f \in Frame, NEW g \in Frame, Fixed(f, g), NEW rows, NEW gone
    PROVE  /\ g.seq = f.seq /\ g.mark = f.mark /\ g.depth = f.depth /\ (IsCommand(g) <=> IsCommand(f))
           /\ Pool(g) = Pool(f) /\ RunRows(g, rows) = RunRows(f, rows) /\ Passed(g, rows) = Passed(f, rows)
           /\ (Former(f, rows, gone) => Former(g, rows, gone))
           /\ (Outside(f, rows) => Outside(g, rows))
           /\ (Standing(f, rows, gone) => Standing(g, rows, gone))
           /\ (IsCommand(f) => g.cmd = f.cmd) /\ (~IsCommand(f) => g.flow = f.flow)
<1>1. /\ g.seq = f.seq /\ g.mark = f.mark /\ g.depth = f.depth /\ (IsCommand(g) <=> IsCommand(f))
      /\ (IsCommand(f) => g.cmd = f.cmd /\ g.runs = f.runs) /\ (~IsCommand(f) => g.flow = f.flow)
  BY DEF Fixed, IsCommand
<1>2. Pool(g) = Pool(f)
  BY <1>1 DEF Pool, IsCommand
<1>3. RunRows(g, rows) = RunRows(f, rows)
  BY <1>1 DEF RunRows
<1>4. Passed(g, rows) = Passed(f, rows)
  BY <1>3 DEF Passed
<1>5. /\ (Former(f, rows, gone) => Former(g, rows, gone))
      /\ (Standing(f, rows, gone) => Standing(g, rows, gone))
  BY <1>1, <1>2, <1>3 DEF Former, Standing
<1>6. Outside(f, rows) => Outside(g, rows)
  BY <1>1 DEF Outside, Inside
<1> QED
  BY <1>1, <1>2, <1>3, <1>4, <1>5, <1>6

\* Stacks that agree on what is fixed agree on numbers and links.
LEMMA AlikeStacks ==
    ASSUME NEW s, NEW t, Stack(s), Stack(t), Len(t) = Len(s),
           \A i \in 1..Len(s) : Fixed(s[i], t[i]), NEW n \in Nat
    PROVE  /\ Growing(s, n) => Growing(t, n)
           /\ Linked(s) => Linked(t)
           /\ \A i \in 1..Len(s) : \A x : /\ CallsFlow(t, i) <=> CallsFlow(s, i)
                                          /\ InHand(t, i, x) = InHand(s, i, x)
<1>1. \A i \in 1..Len(s) :
         /\ t[i].seq = s[i].seq /\ t[i].mark = s[i].mark /\ t[i].depth = s[i].depth
         /\ (IsCommand(t[i]) <=> IsCommand(s[i]))
         /\ (IsCommand(s[i]) => t[i].cmd = s[i].cmd) /\ (~IsCommand(s[i]) => t[i].flow = s[i].flow)
  BY FixedKeeps DEF Stack
<1>2. \A i \in 1..Len(s) : i # 1 => i - 1 \in 1..Len(s)
  BY DEF Stack
<1>3. ASSUME NEW i \in 1..Len(s), NEW x
      PROVE  (CallsFlow(t, i) <=> CallsFlow(s, i)) /\ InHand(t, i, x) = InHand(s, i, x)
  BY <1>1, <1>2 DEF CallsFlow, InHand
<1>4. ASSUME Growing(s, n) PROVE Growing(t, n)
  <2>1. \A i \in 1..Len(t) : t[i].seq <= t[i].mark /\ t[i].mark <= n
    BY <1>1, <1>4 DEF Growing
  <2>2. ASSUME NEW i \in 1..Len(t), NEW j \in 1..Len(t), i < j, IsCommand(t[i])
        PROVE  t[i].seq > t[j].mark /\ (IsCommand(t[j]) => Inside(t[j], t[i].depth, t[i + 1].seq))
    <3>1. i + 1 \in 1..Len(s)
      BY <2>2 DEF Stack
    <3>2. s[i].seq > s[j].mark /\ (IsCommand(s[j]) => Inside(s[j], s[i].depth, s[i + 1].seq))
      BY <1>1, <1>4, <2>2 DEF Growing
    <3> QED
      BY <1>1, <3>1, <3>2 DEF Inside
  <2> QED
    BY <2>1, <2>2 DEF Growing
<1>5. ASSUME Linked(s) PROVE Linked(t)
  <2> SUFFICES ASSUME NEW i \in 1..Len(t), CallsFlow(t, i)
               PROVE  /\ IsCommand(t[i]) /\ Command[t[i].cmd].linked = t[i - 1].flow /\ t[i - 1].flow # NoFlow
                      /\ t[i - 1].seq = t[i].seq /\ t[i - 1].mark = t[i].mark /\ t[i - 1].depth = t[i].depth + 1
    BY DEF Linked
  <2>1. CallsFlow(s, i) /\ i - 1 \in 1..Len(s) /\ ~IsCommand(s[i - 1])
    BY <1>1, <1>2, <1>3 DEF CallsFlow
  <2> QED
    BY <1>1, <1>5, <2>1 DEF Linked
<1> QED
  BY <1>3, <1>4, <1>5

\* The innermost call goes on.
LEMMA TallyOnward ==
    ASSUME NEW s, NEW t, Stack(s), Stack(t), Len(t) = Len(s), Len(s) # 0, NEW n \in Nat,
           NEW rows, NEW gone, NEW x, NEW y,
           \A i \in 2..Len(s) : t[i] = s[i], Fixed(s[1], t[1]), Steady(t[1]),
           Accounted(t[1], FALSE, y, rows), Tallied(s, x, rows, gone, n)
    PROVE  /\ Tallied(t, y, rows, gone, n)
           /\ Standing(s[1], rows, gone) => Standing(t[1], rows, gone)
<1>1. \A i \in 1..Len(s) : Fixed(s[i], t[i]) /\ (i # 1 => t[i] = s[i])
  BY DEF Fixed, Stack
<1>2. /\ Growing(t, n) /\ Linked(t) /\ Filed(rows, gone, n)
      /\ \A i \in 1..Len(s) : CallsFlow(t, i) <=> CallsFlow(s, i)
      /\ \A i \in 1..Len(s) : InHand(t, i, x) = InHand(s, i, x)
  BY <1>1, AlikeStacks DEF Tallied
<1>3. ASSUME NEW i \in 1..Len(t)
      PROVE  /\ Steady(t[i]) /\ Former(t[i], rows, gone) /\ Outside(t[i], rows)
             /\ Accounted(t[i], CallsFlow(t, i), InHand(t, i, y), rows)
  <2>1. Former(t[i], rows, gone) /\ Outside(t[i], rows)
    BY <1>1, FixedKeeps DEF Tallied, Stack
  <2>2. CASE i = 1
    <3>1. InHand(t, i, y) = y /\ CallsFlow(t, i) = FALSE
      BY <2>2 DEF InHand, CallsFlow
    <3> QED
      BY <2>1, <2>2, <3>1
  <2>3. CASE i # 1
    <3>1. InHand(t, i, y) = InHand(s, i, x) /\ CallsFlow(t, i) = CallsFlow(s, i) /\ t[i] = s[i]
      BY <1>1, <1>2, <2>3 DEF InHand, CallsFlow
    <3> QED
      BY <2>1, <3>1 DEF Tallied
  <2> QED
    BY <2>2, <2>3
<1>4. \A i \in 2..Len(t) : Standing(t[i], rows, gone)
  BY <1>1 DEF Tallied, Stack
<1>5. 1 \in 1..Len(s)
  BY DEF Stack
<1> QED
  BY <1>1, <1>2, <1>3, <1>4, <1>5, FixedKeeps DEF Tallied, Stack

\* A call of the stack, and what is known of it.
LEMMA TopInside ==
    ASSUME NEW s, Stack(s), Len(s) # 0, NEW n \in Nat, Growing(s, n), Linked(s),
           NEW j \in 1..Len(s), IsCommand(s[j])
    PROVE  Inside(s[j], SequenceDepth(s[1]), s[1].seq)
<1>1. /\ 1 \in 1..Len(s) /\ s[1].depth \in Nat /\ s[1].seq \in Nat
      /\ s[j].depth \in Nat /\ s[j].seq \in Nat /\ s[j].mark \in Nat /\ s[j].seq <= s[j].mark
  BY FrameMarks DEF Stack, Growing
<1>2. CASE j = 1
  BY <1>1, <1>2 DEF Inside, SequenceDepth, IsCommand
<1>3. CASE j # 1 /\ IsCommand(s[1])
  <2>1. s[1].seq > s[j].mark /\ Inside(s[j], s[1].depth, s[1 + 1].seq)
    BY <1>1, <1>3 DEF Growing, Stack
  <2> QED
    BY <1>1, <1>3, <2>1 DEF Inside, SequenceDepth, IsCommand
<1>4. CASE j # 1 /\ ~IsCommand(s[1])
  <2>1. 2 \in 1..Len(s) /\ s[2].depth \in Nat /\ s[2].seq \in Nat
    BY <1>4, FrameMarks DEF Stack
  <2>2. CallsFlow(s, 2)
    BY <1>4 DEF CallsFlow
  <2>3. IsCommand(s[2]) /\ s[1].seq = s[2].seq /\ s[1].depth = s[2].depth + 1
    BY <2>1, <2>2 DEF Linked
  <2>4. SequenceDepth(s[1]) = s[2].depth + 1
    BY <1>4, <2>3 DEF SequenceDepth, IsCommand
  <2>5. CASE j = 2
    BY <2>1, <2>3, <2>4, <2>5 DEF Inside
  <2>6. CASE j # 2
    <3>1. s[2].seq > s[j].mark /\ Inside(s[j], s[2].depth, s[2 + 1].seq)
      BY <1>4, <2>1, <2>3, <2>6 DEF Growing, Stack
    <3>2. s[1].seq > s[j].mark /\ SequenceDepth(s[1]) > s[j].depth + 1 /\ s[1].seq # s[j].seq
      <4>1. s[2].depth > s[j].depth
        BY <3>1 DEF Inside
      <4>2. SequenceDepth(s[1]) > s[j].depth + 1
        BY <1>1, <2>1, <2>4, <4>1
      <4>3. s[1].seq > s[j].mark /\ s[1].seq # s[j].seq
        BY <1>1, <2>3, <3>1
      <4> QED
        BY <4>2, <4>3
    <3> QED
      BY <1>1, <2>1, <2>4, <3>2 DEF Inside
  <2> QED
    BY <2>5, <2>6
<1> QED
  BY <1>2, <1>3, <1>4

\* A call is made: what was in hand above the innermost call is that call now, or what
\* it has to run.
LEMMA TallyGrown ==
    ASSUME NEW s, NEW t, Stack(s), Stack(t), Len(t) = Len(s) + 1, Len(s) # 0,
           \A i \in 2..Len(t) : t[i] = s[i - 1],
           NEW n \in Nat, NEW m \in Nat, n <= m, NEW rows, NEW gone, NEW x,
           Tallied(s, x, rows, gone, n), Standing(s[1], rows, gone),
           Steady(t[1]), Accounted(t[1], FALSE, {}, rows), Former(t[1], rows, gone),
           Outside(t[1], rows), t[1].seq <= t[1].mark, t[1].mark <= m,
           IsCommand(t[1]) => /\ x = {t[1].cmd} /\ t[1].seq > n
                              /\ t[1].depth = SequenceDepth(s[1]),
           ~IsCommand(t[1]) => /\ IsCommand(s[1]) /\ Command[s[1].cmd].linked = t[1].flow
                               /\ t[1].flow # NoFlow /\ t[1].seq = s[1].seq
                               /\ t[1].mark = s[1].mark /\ t[1].depth = s[1].depth + 1,
           ~IsCommand(t[1]) => Accounted(s[1], TRUE, {}, rows)
    PROVE  Tallied(t, {}, rows, gone, m)
<1>1. \A i \in 2..Len(t) : i \in 1..Len(t) /\ i - 1 \in 1..Len(s) /\ t[i] = s[i - 1]
  BY DEF Stack
<1>2. Filed(rows, gone, m)
  BY DEF Tallied, Filed
<1>3. Growing(t, m)
  <2>1. \A i \in 1..Len(t) : t[i].seq <= t[i].mark /\ t[i].mark <= m
    <3> TAKE i \in 1..Len(t)
    <3>1. CASE i = 1
      BY <3>1
    <3>2. CASE i # 1
      <4>1. i \in 2..Len(t) /\ t[i].mark \in Nat /\ t[i].seq \in Nat
        BY <3>2, FrameMarks DEF Stack
      <4> QED
        BY <1>1, <4>1 DEF Tallied, Growing
    <3> QED
      BY <3>1, <3>2
  <2>2. ASSUME NEW i \in 1..Len(t), NEW j \in 1..Len(t), i < j, IsCommand(t[i])
        PROVE  t[i].seq > t[j].mark /\ (IsCommand(t[j]) => Inside(t[j], t[i].depth, t[i + 1].seq))
    <3>1. j \in 2..Len(t) /\ j - 1 \in 1..Len(s) /\ t[j] = s[j - 1]
      BY <1>1, <2>2
    <3>2. CASE i = 1
      <4>1. t[1].seq \in Nat /\ s[j - 1].mark \in Nat /\ s[j - 1].mark <= n /\ t[1].seq > n
        BY <2>2, <3>1, <3>2, FrameMarks DEF Stack, Tallied, Growing
      <4>2. t[1].depth = SequenceDepth(s[1]) /\ t[1 + 1] = s[1]
        <5>1. 2 \in 2..Len(t) /\ 2 - 1 = 1 /\ 1 + 1 = 2
          BY <3>1 DEF Stack
        <5> QED
          BY <1>1, <2>2, <3>2, <5>1
      <4>3. IsCommand(s[j - 1]) => Inside(s[j - 1], SequenceDepth(s[1]), s[1].seq)
        BY <3>1, TopInside DEF Tallied
      <4> QED
        BY <3>1, <3>2, <4>1, <4>2, <4>3
    <3>3. CASE i # 1
      <4>1. /\ i - 1 \in 1..Len(s) /\ t[i] = s[i - 1] /\ i - 1 < j - 1
            /\ i + 1 \in 2..Len(t) /\ (i + 1) - 1 = (i - 1) + 1
        BY <1>1, <2>2, <3>3 DEF Stack
      <4>2. t[i + 1] = s[(i - 1) + 1]
        BY <1>1, <4>1
      <4> QED
        BY <2>2, <3>1, <4>1, <4>2 DEF Tallied, Growing
    <3> QED
      BY <3>2, <3>3
  <2> QED
    BY <2>1, <2>2 DEF Growing
<1>4. ASSUME NEW i \in 3..Len(t)
      PROVE  /\ CallsFlow(t, i) = CallsFlow(s, i - 1) /\ InHand(t, i, {}) = InHand(s, i - 1, x)
             /\ t[i] = s[i - 1] /\ t[i - 1] = s[(i - 1) - 1] /\ i - 1 \in 1..Len(s)
  <2>1. i \in 2..Len(t) /\ i - 1 \in 2..Len(t) /\ i # 1 /\ i - 1 # 1
    BY DEF Stack
  <2>2. t[i] = s[i - 1] /\ t[i - 1] = s[(i - 1) - 1] /\ i - 1 \in 1..Len(s)
    BY <1>1, <2>1
  <2> QED
    BY <2>1, <2>2 DEF CallsFlow, InHand
<1>5. /\ 2 \in 2..Len(t) /\ 2 - 1 = 1 /\ t[2] = s[1] /\ 1 \in 1..Len(s)
      /\ (CallsFlow(t, 2) <=> ~IsCommand(t[1]))
      /\ InHand(t, 2, {}) = IF IsCommand(t[1]) THEN {t[1].cmd} ELSE {}
  BY <1>1 DEF Stack, CallsFlow, InHand
<1>6. Linked(t)
  <2> SUFFICES ASSUME NEW i \in 1..Len(t), CallsFlow(t, i)
               PROVE  /\ IsCommand(t[i]) /\ Command[t[i].cmd].linked = t[i - 1].flow /\ t[i - 1].flow # NoFlow
                      /\ t[i - 1].seq = t[i].seq /\ t[i - 1].mark = t[i].mark /\ t[i - 1].depth = t[i].depth + 1
    BY DEF Linked
  <2>1. i # 1
    BY DEF CallsFlow
  <2>2. CASE i = 2
    BY <1>5, <2>2
  <2>3. CASE i # 2
    <3>1. i \in 3..Len(t)
      BY <2>1, <2>3
    <3> QED
      BY <1>4, <3>1 DEF Tallied, Linked
  <2> QED
    BY <2>2, <2>3
<1>7. ASSUME NEW i \in 1..Len(t)
      PROVE  /\ Steady(t[i]) /\ Former(t[i], rows, gone) /\ Outside(t[i], rows)
             /\ Accounted(t[i], CallsFlow(t, i), InHand(t, i, {}), rows)
  <2>1. CASE i = 1
    <3>1. InHand(t, 1, {}) = {} /\ CallsFlow(t, 1) = FALSE
      BY DEF InHand, CallsFlow
    <3> QED
      BY <2>1, <3>1
  <2>2. CASE i = 2
    <3>1. Steady(t[2]) /\ Former(t[2], rows, gone) /\ Outside(t[2], rows)
      BY <1>5 DEF Tallied
    <3>2. Accounted(s[1], FALSE, x, rows)
      <4>1. InHand(s, 1, x) = x /\ CallsFlow(s, 1) = FALSE
        BY DEF InHand, CallsFlow
      <4> QED
        BY <1>5, <4>1 DEF Tallied
    <3>3. CASE IsCommand(t[1])
      <4>1. InHand(t, 2, {}) = x /\ CallsFlow(t, 2) = FALSE
        BY <1>5, <3>3 DEF CallsFlow
      <4> QED
        BY <1>5, <2>2, <3>1, <3>2, <4>1
    <3>4. CASE ~IsCommand(t[1])
      <4>1. InHand(t, 2, {}) = {} /\ CallsFlow(t, 2) = TRUE
        BY <1>5, <3>4 DEF CallsFlow
      <4> QED
        BY <1>5, <2>2, <3>1, <3>4, <4>1
    <3> QED
      BY <3>3, <3>4
  <2>3. CASE i # 1 /\ i # 2
    <3>1. i \in 3..Len(t)
      BY <2>3
    <3> QED
      BY <1>4, <3>1 DEF Tallied
  <2> QED
    BY <2>1, <2>2, <2>3
<1>8. ASSUME NEW i \in 2..Len(t) PROVE Standing(t[i], rows, gone)
  <2>1. CASE i = 2
    BY <1>5, <2>1
  <2>2. CASE i # 2
    <3>1. i - 1 \in 2..Len(s) /\ t[i] = s[i - 1]
      BY <1>1, <2>2 DEF Stack
    <3> QED
      BY <3>1 DEF Tallied
  <2> QED
    BY <2>1, <2>2
<1> QED
  BY <1>2, <1>3, <1>6, <1>7, <1>8 DEF Tallied

\* The innermost call returns to the one below, which goes on as t[1].
LEMMA TallyShrunk ==
    ASSUME NEW s, NEW t, Stack(s), Stack(t), Len(s) = Len(t) + 1, Len(t) # 0,
           \A i \in 2..Len(t) : t[i] = s[i + 1], Fixed(s[2], t[1]), Steady(t[1]),
           NEW n \in Nat, NEW rows, NEW gone, NEW y,
           Accounted(t[1], FALSE, y, rows), Tallied(s, {}, rows, gone, n)
    PROVE  Tallied(t, y, rows, gone, n) /\ Standing(t[1], rows, gone)
<1>1. /\ \A i \in 1..Len(t) : i + 1 \in 1..Len(s) /\ i + 1 \in 2..Len(s) /\ (i + 1) - 1 = i
      /\ \A i \in 1..Len(t) : i # 1 => i \in 2..Len(t) /\ t[i] = s[i + 1]
  BY DEF Stack
<1>2. \A i \in 1..Len(t) : Fixed(s[i + 1], t[i]) /\ s[i + 1] \in Frame /\ t[i] \in Frame
  BY <1>1 DEF Fixed, Stack
<1>3. \A i \in 1..Len(t) :
         /\ t[i].seq = s[i + 1].seq /\ t[i].mark = s[i + 1].mark /\ t[i].depth = s[i + 1].depth
         /\ (IsCommand(t[i]) <=> IsCommand(s[i + 1]))
         /\ (IsCommand(s[i + 1]) => t[i].cmd = s[i + 1].cmd)
         /\ (~IsCommand(s[i + 1]) => t[i].flow = s[i + 1].flow)
         /\ Former(t[i], rows, gone) /\ Outside(t[i], rows) /\ Standing(t[i], rows, gone)
  BY <1>1, <1>2, FixedKeeps DEF Tallied
<1>4. Growing(t, n)
  <2>1. \A i \in 1..Len(t) : t[i].seq <= t[i].mark /\ t[i].mark <= n
    BY <1>1, <1>3 DEF Tallied, Growing
  <2>2. ASSUME NEW i \in 1..Len(t), NEW j \in 1..Len(t), i < j, IsCommand(t[i])
        PROVE  t[i].seq > t[j].mark /\ (IsCommand(t[j]) => Inside(t[j], t[i].depth, t[i + 1].seq))
    <3>1. i + 1 \in 1..Len(t) /\ i + 1 < j + 1 /\ i + 1 \in 1..Len(s) /\ j + 1 \in 1..Len(s)
      <4>1. Len(t) \in Nat /\ i \in Nat /\ j \in Nat /\ i < j /\ 1 <= i /\ j <= Len(t)
        BY <2>2 DEF Stack
      <4>2. i + 1 \in 1..Len(t) /\ i + 1 < j + 1
        BY <4>1
      <4> QED
        BY <1>1, <2>2, <4>2
    <3>2. /\ s[i + 1].seq > s[j + 1].mark
          /\ IsCommand(s[j + 1]) => Inside(s[j + 1], s[i + 1].depth, s[(i + 1) + 1].seq)
      BY <1>3, <2>2, <3>1 DEF Tallied, Growing
    <3> QED
      BY <1>3, <3>1, <3>2 DEF Inside
  <2> QED
    BY <2>1, <2>2 DEF Growing
<1>5. ASSUME NEW i \in 1..Len(t), i # 1
      PROVE  /\ i - 1 \in 1..Len(t) /\ (i - 1) + 1 = i /\ t[i] = s[i + 1]
             /\ (CallsFlow(t, i) <=> CallsFlow(s, i + 1)) /\ InHand(t, i, y) = InHand(s, i + 1, {})
  <2>1. i - 1 \in 1..Len(t) /\ (i - 1) + 1 = i /\ (i + 1) - 1 = i /\ i + 1 # 1 /\ t[i] = s[i + 1]
    <3>1. Len(t) \in Nat /\ i \in Nat /\ 1 <= i /\ i <= Len(t) /\ i # 1
      BY <1>5 DEF Stack
    <3>2. i - 1 \in 1..Len(t) /\ (i - 1) + 1 = i /\ (i + 1) - 1 = i /\ i + 1 # 1
      BY <3>1
    <3> QED
      BY <1>1, <1>5, <3>2
  <2>2. (IsCommand(t[i - 1]) <=> IsCommand(s[i])) /\ (IsCommand(s[i]) => t[i - 1].cmd = s[i].cmd)
    BY <1>3, <2>1
  <2> QED
    BY <1>5, <2>1, <2>2 DEF CallsFlow, InHand
<1>6. Linked(t)
  <2> SUFFICES ASSUME NEW i \in 1..Len(t), CallsFlow(t, i)
               PROVE  /\ IsCommand(t[i]) /\ Command[t[i].cmd].linked = t[i - 1].flow /\ t[i - 1].flow # NoFlow
                      /\ t[i - 1].seq = t[i].seq /\ t[i - 1].mark = t[i].mark /\ t[i - 1].depth = t[i].depth + 1
    BY DEF Linked
  <2>1. i # 1
    BY DEF CallsFlow
  <2>2. i + 1 \in 1..Len(s) /\ CallsFlow(s, i + 1) /\ (i + 1) - 1 = i /\ i - 1 \in 1..Len(t) /\ (i - 1) + 1 = i
        /\ ~IsCommand(t[i - 1])
    BY <1>1, <1>5, <2>1 DEF CallsFlow
  <2>3. /\ IsCommand(s[i + 1]) /\ Command[s[i + 1].cmd].linked = s[i].flow /\ s[i].flow # NoFlow
        /\ s[i].seq = s[i + 1].seq /\ s[i].mark = s[i + 1].mark /\ s[i].depth = s[i + 1].depth + 1
    BY <2>2 DEF Tallied, Linked
  <2>4. /\ t[i - 1].flow = s[i].flow /\ t[i - 1].seq = s[i].seq /\ t[i - 1].mark = s[i].mark
        /\ t[i - 1].depth = s[i].depth
    BY <1>3, <2>2
  <2> QED
    BY <1>3, <2>3, <2>4
<1>7. ASSUME NEW i \in 1..Len(t)
      PROVE  Steady(t[i]) /\ Accounted(t[i], CallsFlow(t, i), InHand(t, i, y), rows)
  <2>1. CASE i = 1
    <3>1. InHand(t, 1, y) = y /\ CallsFlow(t, 1) = FALSE
      BY DEF InHand, CallsFlow
    <3> QED
      BY <2>1, <3>1
  <2>2. CASE i # 1
    <3>1. (CallsFlow(t, i) = CallsFlow(s, i + 1)) /\ InHand(t, i, y) = InHand(s, i + 1, {}) /\ t[i] = s[i + 1]
      BY <1>5, <2>2 DEF CallsFlow
    <3> QED
      BY <1>1, <3>1 DEF Tallied
  <2> QED
    BY <2>1, <2>2
<1>8. 1 \in 1..Len(t)
  BY DEF Stack
<1>9. \A i \in 2..Len(t) : i \in 1..Len(t)
  OBVIOUS
<1> QED
  BY <1>3, <1>4, <1>6, <1>7, <1>8, <1>9 DEF Tallied

\* The number of the innermost sequence is that of no call but those that run it.
LEMMA SameNumber ==
    ASSUME NEW s, Stack(s), NEW n \in Nat, Growing(s, n), Linked(s), NEW i \in 1..Len(s),
           s[i].seq = s[1].seq, i # 1
    PROVE  i = 2 /\ ~IsCommand(s[1]) /\ CallsFlow(s, 2)
<1>1. /\ 1 \in 1..Len(s) /\ s[1].seq \in Nat /\ s[i].seq \in Nat /\ s[i].mark \in Nat
      /\ s[i].seq <= s[i].mark /\ 1 < i /\ 2 \in 1..Len(s) /\ s[2].seq \in Nat
  BY FrameMarks DEF Stack, Growing
<1>2. ~IsCommand(s[1])
  BY <1>1 DEF Growing
<1>3. CallsFlow(s, 2)
  BY <1>2 DEF CallsFlow
<1>4. IsCommand(s[2]) /\ s[1].seq = s[2].seq
  BY <1>1, <1>3 DEF Linked
<1>5. i = 2
  <2> SUFFICES ASSUME 2 < i PROVE FALSE
    BY <1>1
  <2> QED
    BY <1>1, <1>4 DEF Growing
<1> QED
  BY <1>2, <1>3, <1>5

\* The result of what was in hand is recorded.
LEMMA TallyRecorded ==
    ASSUME NEW t, Stack(t), Len(t) # 0, NEW n \in Nat, NEW m \in Nat, n <= m,
           NEW rows, NEW gone, NEW row, row.seq \in 1..m,
           \A i \in 1..Len(t) : row.seq > t[i].mark /\ (IsCommand(t[i]) => t[i].phase = "running"),
           \A r \in rows : r.seq # row.seq,
           row.parent = t[1].seq, row.depth = SequenceDepth(t[1]),
           Tallied(t, {row.cmd}, rows, gone, n), Standing(t[1], rows, gone), StandOnce(rows, gone),
           row.outcome = "Completed" =>
               \A q \in rows : q.parent = row.seq /\ q.seq \in gone
                   => \E r \in rows : r.parent = row.seq /\ r.seq > q.seq /\ r.seq \notin gone
    PROVE  /\ Tallied(t, {}, rows \cup {row}, gone, m)
           /\ Standing(t[1], rows \cup {row}, gone) /\ StandOnce(rows \cup {row}, gone)
<1> DEFINE more == rows \cup {row}
<1>1. /\ 1 \in 1..Len(t) /\ \A i \in 1..Len(t) : /\ t[i].mark \in Nat /\ t[i].seq \in Nat /\ t[i].depth \in Nat
                                                 /\ t[i].seq <= t[i].mark /\ t[i].mark <= n
      /\ row.seq \in Nat /\ row.depth \in Nat /\ row.parent \in Nat /\ row.parent < row.seq
      /\ Growing(t, n) /\ Linked(t) /\ Filed(rows, gone, n)
  <2>1. /\ 1 \in 1..Len(t) /\ Growing(t, n) /\ Linked(t) /\ Filed(rows, gone, n)
        /\ \A i \in 1..Len(t) : t[i].mark \in Nat /\ t[i].seq \in Nat /\ t[i].depth \in Nat
    BY FrameMarks DEF Stack, Tallied
  <2>2. \A i \in 1..Len(t) : t[i].seq <= t[i].mark /\ t[i].mark <= n
    BY <2>1 DEF Growing
  <2> QED
    BY <2>1, <2>2 DEF SequenceDepth
<1>2. Accounted(t[1], FALSE, {row.cmd}, rows) /\ Former(t[1], rows, gone)
  <2>1. InHand(t, 1, {row.cmd}) = {row.cmd} /\ CallsFlow(t, 1) = FALSE
    BY DEF InHand, CallsFlow
  <2> QED
    BY <1>1, <2>1 DEF Tallied
<1>3. row.seq \notin gone
  BY DEF Tallied, Filed
<1>4. Growing(t, m) /\ Filed(more, gone, m)
  <2>1. Growing(t, m)
    <3>1. \A i \in 1..Len(t) : t[i].seq <= t[i].mark /\ t[i].mark <= m
      BY <1>1
    <3>2. \A i, j \in 1..Len(t) : i < j /\ IsCommand(t[i]) =>
             t[i].seq > t[j].mark /\ (IsCommand(t[j]) => Inside(t[j], t[i].depth, t[i + 1].seq))
      BY <1>1 DEF Growing
    <3> QED
      BY <3>1, <3>2 DEF Growing
  <2>2. Filed(more, gone, m)
    BY <1>1 DEF Filed
  <2> QED
    BY <2>1, <2>2
<1>5. RunRows(t[1], more) = RunRows(t[1], rows) \cup {row} /\ Passed(t[1], more) = Passed(t[1], rows) \cup {row.cmd}
  <2>1. RunRows(t[1], more) = RunRows(t[1], rows) \cup {row}
    BY <1>1 DEF RunRows
  <2> QED
    BY <2>1 DEF Passed
<1>6. row.cmd \notin Passed(t[1], rows) /\ row.cmd \in Pool(t[1])
  BY <1>2 DEF Accounted
<1>7. Accounted(t[1], FALSE, {}, more)
  <2>1. \A q, r \in RunRows(t[1], more) : q.cmd = r.cmd => q = r
    BY <1>2, <1>5, <1>6 DEF Accounted, Passed
  <2> QED
    BY <1>2, <1>5, <2>1 DEF Accounted
<1>8. ASSUME NEW i \in 1..Len(t), t[i].seq # t[1].seq
      PROVE  RunRows(t[i], more) = RunRows(t[i], rows) /\ Passed(t[i], more) = Passed(t[i], rows)
  BY <1>8 DEF RunRows, Passed
<1>9. ASSUME NEW i \in 1..Len(t)
      PROVE  /\ Steady(t[i]) /\ Former(t[i], more, gone) /\ Outside(t[i], more) /\ Standing(t[i], more, gone)
             /\ Accounted(t[i], CallsFlow(t, i), InHand(t, i, {}), more)
  <2>1. /\ Steady(t[i]) /\ Former(t[i], rows, gone) /\ Outside(t[i], rows)
        /\ Accounted(t[i], CallsFlow(t, i), InHand(t, i, {row.cmd}), rows)
    BY DEF Tallied
  <2>2. Outside(t[i], more)
    <3>1. IsCommand(t[i]) => Inside(t[i], row.depth, row.parent)
      BY <1>1, TopInside DEF Stack
    <3> QED
      BY <1>1, <2>1, <3>1 DEF Outside
  <2>3. Standing(t[i], more, gone)
    <3>1. Standing(t[i], rows, gone)
      BY DEF Tallied
    <3> QED
      BY <1>3, <3>1 DEF Standing, RunRows
  <2>4. row.parent = t[i].seq => row.cmd \in Pool(t[i])
    <3>1. CASE i = 1
      BY <1>6, <3>1
    <3>2. CASE i # 1 /\ t[i].seq = t[1].seq
      <4>1. i = 2 /\ ~IsCommand(t[1]) /\ CallsFlow(t, 2)
        BY <1>1, <3>2, SameNumber
      <4>2. IsCommand(t[2]) /\ Command[t[2].cmd].linked = t[1].flow /\ t[1].flow # NoFlow
        BY <1>1, <4>1 DEF Linked
      <4> QED
        BY <1>6, <4>1, <4>2 DEF Pool, IsCommand
    <3> QED
      BY <3>1, <3>2
  <2>5. Former(t[i], more, gone)
    <3>1. IsCommand(t[i]) => t[i].runs > 0
      BY <2>1 DEF Steady
    <3>2. ~(row.seq <= t[i].mark)
      BY <1>1
    <3> QED
      BY <2>1, <2>4, <3>1, <3>2 DEF Former
  <2>6. Accounted(t[i], CallsFlow(t, i), InHand(t, i, {}), more)
    <3>1. CASE i = 1
      <4>1. InHand(t, 1, {}) = {} /\ CallsFlow(t, 1) = FALSE
        BY DEF InHand, CallsFlow
      <4> QED
        BY <1>7, <3>1, <4>1
    <3>2. CASE i # 1 /\ t[i].seq # t[1].seq
      <4>1. InHand(t, i, {}) = InHand(t, i, {row.cmd})
        BY <3>2 DEF InHand
      <4> QED
        BY <1>8, <2>1, <3>2, <4>1 DEF Accounted
    <3>3. CASE i # 1 /\ t[i].seq = t[1].seq
      <4>1. i = 2 /\ ~IsCommand(t[1]) /\ CallsFlow(t, 2)
        BY <1>1, <3>3, SameNumber
      <4>2. /\ IsCommand(t[2]) /\ Command[t[2].cmd].linked = t[1].flow /\ t[1].flow # NoFlow
            /\ t[1].seq = t[2].seq /\ t[1].mark = t[2].mark
        BY <1>1, <4>1 DEF Linked
      <4>3. Coming(t[2]) = {} /\ InHand(t, 2, {}) = {}
        <5>1. t[2].todo = <<>>
          BY <2>1, <4>1, <4>2 DEF Steady
        <5> QED
          BY <4>1, <4>2, <5>1 DEF Coming, Members, Later, IsCommand, InHand
      <4>4. RunRows(t[2], more) = RunRows(t[1], more)
        BY <4>2 DEF RunRows
      <4> QED
        BY <1>7, <4>1, <4>3, <4>4 DEF Accounted
    <3> QED
      BY <3>1, <3>2, <3>3
  <2> QED
    BY <2>1, <2>2, <2>3, <2>5, <2>6
<1>10. Tallied(t, {}, more, gone, m)
  <2>1. ASSUME NEW i \in 2..Len(t) PROVE Standing(t[i], more, gone)
    <3>1. i \in 1..Len(t)
      OBVIOUS
    <3> QED
      BY <1>9, <3>1
  <2> QED
    BY <1>1, <1>4, <1>9, <2>1 DEF Tallied
<1>11. ASSUME NEW q \in more, NEW r \in more, q.cmd = r.cmd, q.parent = r.parent, q.seq < r.seq
       PROVE  q.seq \in gone
  <2>1. CASE q \in rows /\ r \in rows
    BY <1>11, <2>1 DEF StandOnce
  <2>2. CASE q \in rows /\ r = row
    <3>1. q \notin RunRows(t[1], rows) /\ q.parent = t[1].seq /\ q.seq \in Nat
      BY <1>1, <1>6, <1>11, <2>2 DEF Passed, Filed
    <3>2. q.seq <= t[1].mark
      BY <1>1, <2>2, <3>1 DEF RunRows
    <3> QED
      BY <1>2, <2>2, <3>1, <3>2 DEF Former
  <2>3. CASE q = row /\ r \in rows
    <3>1. r.seq \in Nat /\ r.seq > t[1].mark /\ r.parent = t[1].seq
      BY <1>1, <1>11, <2>3 DEF Filed
    <3>2. r \in RunRows(t[1], rows)
      BY <2>3, <3>1 DEF RunRows
    <3> QED
      BY <1>6, <1>11, <2>3, <3>2 DEF Passed
  <2>4. CASE q = row /\ r = row
    BY <1>1, <1>11, <2>4
  <2> QED
    BY <2>1, <2>2, <2>3, <2>4
<1>12. ASSUME NEW p \in more, NEW q \in more, q.parent = p.seq, q.seq \in gone, p.outcome = "Completed"
       PROVE  \E r \in more : r.parent = p.seq /\ r.seq > q.seq /\ r.seq \notin gone
  <2>1. q \in rows
    BY <1>3, <1>12
  <2>2. CASE p \in rows
    BY <1>12, <2>1, <2>2 DEF StandOnce
  <2>3. CASE p = row
    BY <1>12, <2>1, <2>3
  <2> QED
    BY <2>2, <2>3
<1> QED
  BY <1>1, <1>9, <1>10, <1>11, <1>12 DEF StandOnce

\* Results of the innermost call's run are reset.
LEMMA TallyReset ==
    ASSUME NEW s, Stack(s), Len(s) # 0, IsCommand(s[1]), NEW n \in Nat, NEW rows, NEW gone, NEW x,
           NEW more, more \subseteq {r.seq : r \in RunRows(s[1], rows)},
           Tallied(s, x, rows, gone, n), StandOnce(rows, gone)
    PROVE  Tallied(s, x, rows, gone \cup more, n) /\ StandOnce(rows, gone \cup more)
<1>1. /\ 1 \in 1..Len(s) /\ Growing(s, n) /\ Linked(s) /\ Filed(rows, gone, n)
  BY DEF Tallied, Stack
<1>2. \A r \in rows : r.seq \in more => r.parent = s[1].seq
  BY <1>1 DEF RunRows, Filed
<1>3. Filed(rows, gone \cup more, n)
  BY <1>1 DEF Filed, RunRows
<1>4. ASSUME NEW i \in 2..Len(s) PROVE Standing(s[i], rows, gone \cup more)
  <2>1. s[i].seq # s[1].seq
    BY <1>1, SameNumber
  <2> QED
    BY <1>2, <2>1 DEF Tallied, Standing, RunRows
<1>5. \A i \in 1..Len(s) : Former(s[i], rows, gone \cup more)
  BY DEF Tallied, Former
<1>6. Tallied(s, x, rows, gone \cup more, n)
  BY <1>1, <1>3, <1>4, <1>5 DEF Tallied
<1>7. ASSUME NEW p \in rows, NEW q \in rows, q.parent = p.seq, q.seq \in gone \cup more, p.outcome = "Completed"
      PROVE  \E r \in rows : r.parent = p.seq /\ r.seq > q.seq /\ r.seq \notin gone \cup more
  <2>1. p.seq # s[1].seq
    BY <1>1 DEF Tallied, Outside
  <2>2. q.seq \in gone
    BY <1>2, <1>7, <2>1
  <2>3. PICK r \in rows : r.parent = p.seq /\ r.seq > q.seq /\ r.seq \notin gone
    BY <1>7, <2>2 DEF StandOnce
  <2>4. r.seq \notin more
    BY <1>2, <2>1, <2>3
  <2> QED
    BY <2>3, <2>4
<1>8. \A q, r \in rows : q.cmd = r.cmd /\ q.parent = r.parent /\ q.seq < r.seq => q.seq \in gone \cup more
  BY DEF StandOnce
<1> QED
  BY <1>6, <1>7, <1>8 DEF StandOnce

\* The innermost call, a command, begins a run of all it has, when what it ran before is
\* reset.
LEMMA TallyRestarted ==
    ASSUME NEW s, NEW t, Stack(s), Stack(t), Len(t) = Len(s), Len(s) # 0, NEW n \in Nat,
           NEW rows, NEW gone, NEW x, NEW y, \A i \in 2..Len(s) : t[i] = s[i],
           IsCommand(s[1]), t[1].kind = s[1].kind, t[1].cmd = s[1].cmd, t[1].seq = s[1].seq,
           t[1].depth = s[1].depth, t[1].mark = n, t[1].runs > 0, Steady(t[1]),
           Coming(t[1]) \cup y = Pool(t[1]), Coming(t[1]) \cap y = {},
           \A r \in rows : r.parent = s[1].seq => r.seq \in gone,
           Tallied(s, x, rows, gone, n)
    PROVE  Tallied(t, y, rows, gone, n) /\ Standing(t[1], rows, gone)
<1>1. /\ 1 \in 1..Len(s) /\ \A i \in 1..Len(s) : i # 1 => t[i] = s[i] /\ i \in 2..Len(s)
      /\ Growing(s, n) /\ Linked(s) /\ Filed(rows, gone, n) /\ IsCommand(t[1])
  BY DEF Tallied, Stack, IsCommand
<1>2. RunRows(t[1], rows) = {} /\ Passed(t[1], rows) = {}
  <2>1. RunRows(t[1], rows) = {}
    BY <1>1 DEF RunRows, Filed
  <2> QED
    BY <2>1 DEF Passed
<1>3. Growing(t, n)
  <2>1. \A i \in 1..Len(t) : t[i].seq <= t[i].mark /\ t[i].mark <= n
    <3> TAKE i \in 1..Len(t)
    <3>1. CASE i = 1
      <4>1. s[1].seq \in Nat /\ s[1].mark \in Nat /\ s[1].seq <= s[1].mark /\ s[1].mark <= n
        BY <1>1, FrameMarks DEF Growing, Stack
      <4> QED
        BY <3>1, <4>1
    <3>2. CASE i # 1
      BY <1>1, <3>2 DEF Growing
    <3> QED
      BY <3>1, <3>2
  <2>2. ASSUME NEW i \in 1..Len(t), NEW j \in 1..Len(t), i < j, IsCommand(t[i])
        PROVE  t[i].seq > t[j].mark /\ (IsCommand(t[j]) => Inside(t[j], t[i].depth, t[i + 1].seq))
    <3>1. /\ i + 1 \in 2..Len(s) /\ j \in 2..Len(s) /\ t[j] = s[j] /\ t[i + 1] = s[i + 1]
          /\ IsCommand(s[i]) /\ t[i].seq = s[i].seq /\ t[i].depth = s[i].depth
      BY <1>1, <2>2 DEF Stack
    <3> QED
      BY <1>1, <2>2, <3>1 DEF Growing
  <2> QED
    BY <2>1, <2>2 DEF Growing
<1>4. ASSUME NEW i \in 1..Len(t), i # 1
      PROVE  /\ (CallsFlow(t, i) <=> CallsFlow(s, i)) /\ (CallsFlow(t, i) => i # 2)
             /\ InHand(t, i, y) = InHand(s, i, x) /\ t[i] = s[i] /\ i - 1 \in 1..Len(s)
  <2>1. i - 1 \in 1..Len(s) /\ t[i] = s[i]
    BY <1>1, <1>4
  <2>2. CASE i = 2
    BY <1>1, <1>4, <2>1, <2>2 DEF CallsFlow, InHand
  <2>3. CASE i # 2
    <3>1. t[i - 1] = s[i - 1]
      BY <1>1, <2>1, <2>3
    <3> QED
      BY <1>4, <2>1, <2>3, <3>1 DEF CallsFlow, InHand
  <2> QED
    BY <2>2, <2>3
<1>5. Linked(t)
  <2> SUFFICES ASSUME NEW i \in 1..Len(t), CallsFlow(t, i)
               PROVE  /\ IsCommand(t[i]) /\ Command[t[i].cmd].linked = t[i - 1].flow /\ t[i - 1].flow # NoFlow
                      /\ t[i - 1].seq = t[i].seq /\ t[i - 1].mark = t[i].mark /\ t[i - 1].depth = t[i].depth + 1
    BY DEF Linked
  <2>1. i # 1 /\ i # 2 /\ CallsFlow(s, i) /\ t[i] = s[i] /\ i - 1 \in 1..Len(s) /\ i - 1 # 1
    BY <1>4 DEF CallsFlow
  <2>2. t[i - 1] = s[i - 1]
    BY <1>1, <2>1
  <2> QED
    BY <1>1, <2>1, <2>2 DEF Linked
<1>6. Accounted(t[1], FALSE, y, rows)
  BY <1>2 DEF Accounted
<1>7. Former(t[1], rows, gone) /\ Outside(t[1], rows)
  <2>1. Former(s[1], rows, gone) /\ Outside(s[1], rows)
    BY <1>1 DEF Tallied
  <2>2. Pool(t[1]) = Pool(s[1])
    BY <1>1 DEF Pool, IsCommand
  <2>3. Former(t[1], rows, gone)
    BY <2>1, <2>2 DEF Former
  <2> QED
    BY <1>1, <2>1, <2>3 DEF Outside, Inside
<1>8. ASSUME NEW i \in 1..Len(t)
      PROVE  /\ Steady(t[i]) /\ Former(t[i], rows, gone) /\ Outside(t[i], rows)
             /\ Accounted(t[i], CallsFlow(t, i), InHand(t, i, y), rows)
  <2>1. CASE i = 1
    <3>1. InHand(t, 1, y) = y /\ CallsFlow(t, 1) = FALSE
      BY DEF InHand, CallsFlow
    <3> QED
      BY <1>6, <1>7, <2>1, <3>1
  <2>2. CASE i # 1
    <3>1. CallsFlow(t, i) = CallsFlow(s, i) /\ InHand(t, i, y) = InHand(s, i, x) /\ t[i] = s[i]
      BY <1>4, <2>2 DEF CallsFlow
    <3> QED
      BY <3>1 DEF Tallied
  <2> QED
    BY <2>1, <2>2
<1>9. Standing(t[1], rows, gone)
  BY <1>2 DEF Standing
<1>10. \A i \in 2..Len(t) : Standing(t[i], rows, gone)
  BY <1>1 DEF Tallied
<1> QED
  BY <1>1, <1>3, <1>5, <1>8, <1>9, <1>10 DEF Tallied

-----------------------------------------------------------------------------
(* What the steps do to the account                                        *)

\* A call that is returned to accounts for the same.
LEMMA ReceivedSteady ==
    ASSUME NEW f \in Frame, NEW e \in AnyError, NEW c \in BOOLEAN, NEW g, g = Receive(f, e, c),
           Steady(f), IsCommand(f) => f.phase = "running",
           NEW called, NEW hand, NEW rows, Accounted(f, called, hand, rows)
    PROVE  /\ g \in Frame /\ Fixed(f, g) /\ Steady(g) /\ Accounted(g, called, hand, rows)
           /\ g.phase = f.phase
<1>1. g \in Frame /\ g.phase = f.phase
  BY Received
<1>2. CASE e = NoError
  <2>1. g = f
    BY <1>2 DEF Receive
  <2> QED
    BY <1>1, <2>1 DEF Fixed
<1>3. CASE e # NoError
  <2>1. /\ Fixed(f, g) /\ g.failure # NoError /\ g.todo \in {f.todo, <<>>}
        /\ IsCommand(f) => g.todo = <<>>
    <3>1. CASE f.kind = "flow"
      <4> DEFINE a == AddFailure(f, e)
                 h == ~c
                 t == IF c THEN f.todo ELSE <<>>
      <4>1. a # NoError /\ t \in {f.todo, <<>>}
        BY <1>3 DEF AddFailure, Accumulate, FirstError
      <4>2. f \in FlowFrame
        BY <3>1, FrameKinds
      <4>3. g = [f EXCEPT !.failure = a, !.halted = h, !.todo = t]
        BY <1>3, <3>1, <4>2 DEF Receive, FlowFrame
      <4> HIDE DEF a, h, t
      <4> QED
        BY <3>1, <4>1, <4>2, <4>3 DEF FlowFrame, Fixed, IsCommand
    <3>2. CASE f.kind # "flow"
      <4> DEFINE t == <<>>
      <4>1. g = [f EXCEPT !.failure = e, !.todo = t] /\ f \in CommandFrame
        BY <1>3, <3>2, FrameKinds DEF Receive
      <4>2. t = <<>>
        OBVIOUS
      <4> HIDE DEF t
      <4> QED
        BY <1>3, <3>2, <4>1, <4>2 DEF CommandFrame, Fixed, IsCommand
    <3> QED
      BY <3>1, <3>2
  <2>2. /\ Once(<<>>) /\ Members(<<>>) = {}
    BY DEF Once, Members
  <2>3. Later(g) = Later(f) /\ (IsCommand(g) <=> IsCommand(f))
    BY <1>1, <2>1 DEF Later, Fixed, IsCommand
  <2>4. Members(g.todo) \subseteq Members(f.todo) /\ Once(g.todo)
    BY <2>1, <2>2 DEF Steady
  <2>5. Steady(g)
    BY <1>1, <2>1, <2>3, <2>4 DEF Steady, Fixed
  <2>6. Pool(g) = Pool(f) /\ RunRows(g, rows) = RunRows(f, rows) /\ Passed(g, rows) = Passed(f, rows)
    BY <1>1, <2>1, FixedKeeps
  <2>7. Coming(g) \subseteq Coming(f)
    BY <2>3, <2>4 DEF Coming
  <2>8. Accounted(g, called, hand, rows)
    BY <2>1, <2>6, <2>7 DEF Accounted
  <2> QED
    BY <1>1, <2>1, <2>5, <2>8
<1> QED
  BY <1>2, <1>3

\* The innermost call.
LEMMA ToldTop ==
    ASSUME LedgerInv, stack # <<>>
    PROVE  /\ CallsInv /\ FlowInv /\ Stacked(stack, next) /\ next \in Nat
           /\ Stack(stack) /\ Len(stack) # 0 /\ Len(stack) \in Nat /\ 1 \in 1..Len(stack)
           /\ Top \in Frame /\ Top = stack[1] /\ stack \in Seq(Frame)
           /\ Sound(Top, poisoned, next) /\ Steady(Top) /\ Former(Top, ledger, reset)
           /\ Outside(Top, ledger) /\ Accounted(Top, FALSE, {}, ledger)
           /\ ~Resetting(Top) => Standing(Top, ledger, reset)
           /\ StandOnce(ledger, reset) /\ Tallied(stack, {}, ledger, reset, next)
<1>1. /\ CallsInv /\ FlowInv /\ Stacked(stack, next) /\ next \in Nat
      /\ Top \in Frame /\ Top = stack[1] /\ stack \in Seq(Frame)
      /\ Len(stack) \in Nat \ {0} /\ \A i \in 1..Len(stack) : stack[i] \in Frame
  BY TopMoves DEF LedgerInv, CallsInv, FlowInv
<1>2. 1 \in 1..Len(stack) /\ Len(stack) # 0 /\ Stack(stack)
  BY <1>1 DEF Stack
<1>3. /\ StandOnce(ledger, reset) /\ Tallied(stack, {}, ledger, reset, next)
      /\ ~Resetting(Top) => Standing(Top, ledger, reset)
  BY <1>1, <1>2 DEF LedgerInv, Told
<1>4. InHand(stack, 1, {}) = {} /\ CallsFlow(stack, 1) = FALSE
  BY DEF InHand, CallsFlow
<1>5. /\ Steady(Top) /\ Former(Top, ledger, reset) /\ Outside(Top, ledger)
      /\ Accounted(Top, FALSE, {}, ledger) /\ Sound(Top, poisoned, next)
  BY <1>1, <1>2, <1>3, <1>4 DEF Tallied, CallsInv
<1> QED
  BY <1>1, <1>2, <1>3, <1>5

\* The innermost call goes on, and nothing is recorded.
LEMMA TurnedTold ==
    ASSUME LedgerInv, stack # <<>>, NEW f \in Frame, Turned(f), Fixed(Top, f), Steady(f),
           Accounted(f, FALSE, {}, ledger), ~Resetting(f) => ~Resetting(Top),
           ledger' = ledger, reset' = reset, next' = next
    PROVE  Told(stack', ledger', reset', next')
<1>1. PICK t : t = stack'
  OBVIOUS
<1>2. /\ Len(t) = Len(stack) /\ t[1] = f /\ \A i \in 2..Len(stack) : t[i] = stack[i]
      /\ Stack(t)
  BY <1>1, ToldTop DEF Turned, Stack
<1>3. /\ Tallied(t, {}, ledger, reset, next)
      /\ Standing(Top, ledger, reset) => Standing(t[1], ledger, reset)
  BY <1>2, ToldTop, TallyOnward
<1>4. Told(t, ledger, reset, next)
  BY <1>2, <1>3, ToldTop DEF Told
<1> QED
  BY <1>1, <1>4

\* A command turns to another phase of its own.
LEMMA PhaseTold ==
    ASSUME LedgerInv, stack # <<>>, Top.kind # "flow", Top.todo = <<>>, ~Resetting(Top),
           NEW ph \in {"act", "reset", "wait", "condition"}, ph # "reset" => Top.failure = NoError,
           SetTop([Top EXCEPT !.phase = ph]), ledger' = ledger, reset' = reset, next' = next
    PROVE  Told(stack', ledger', reset', next')
<1> DEFINE f == [Top EXCEPT !.phase = ph]
<1>1. Top \in CommandFrame /\ stack \in Seq(Frame) /\ Steady(Top) /\ Accounted(Top, FALSE, {}, ledger)
  BY ToldTop, FrameKinds
<1>2. /\ f \in CommandFrame /\ f.kind = Top.kind /\ f.seq = Top.seq /\ f.depth = Top.depth
      /\ f.mark = Top.mark /\ f.runs = Top.runs /\ f.cmd = Top.cmd /\ f.phase = ph
      /\ f.failure = Top.failure /\ f.todo = Top.todo
  BY <1>1 DEF CommandFrame
<1>3. stack' = <<f>> \o Tail(stack)
  BY DEF SetTop
<1> HIDE DEF f
<1>4. Turned(f) /\ f \in Frame /\ Top \in Frame
  BY <1>1, <1>2, <1>3, TurnedTop DEF Frame
<1>5. Fixed(Top, f) /\ IsCommand(f) /\ IsCommand(Top)
  BY <1>2 DEF Fixed, IsCommand
<1>6. Later(f) = {} /\ Later(Top) = {}
  BY <1>5 DEF Later, IsCommand
<1>7. Steady(f)
  BY <1>1, <1>2, <1>5, <1>6 DEF Steady
<1>8. Accounted(f, FALSE, {}, ledger)
  <2>1. Pool(f) = Pool(Top) /\ RunRows(f, ledger) = RunRows(Top, ledger) /\ Passed(f, ledger) = Passed(Top, ledger)
    BY <1>4, <1>5, FixedKeeps
  <2>2. Coming(f) = Coming(Top)
    BY <1>2, <1>6 DEF Coming
  <2> QED
    BY <1>1, <1>2, <1>5, <2>1, <2>2 DEF Accounted
<1> QED
  BY <1>4, <1>5, <1>7, <1>8, TurnedTold

\* The results a composite looks at are the rows of its run.
LEMMA OwnResults ==
    ASSUME LedgerInv, stack # <<>>, Top.kind # "flow"
    PROVE  Immediate(Top) = RunRows(Top, ledger)
<1>1. Outside(Top, ledger) /\ Top.seq \in Nat /\ Top.mark \in Nat /\ Top.seq <= Top.mark
  BY ToldTop, FrameMarks DEF Tallied, Growing
<1>2. \A r \in ledger : r.seq \in Nat
  BY ToldTop DEF Tallied, Filed
<1>3. \A r \in ledger : r.seq > Top.mark => (r.depth = Top.depth + 1 <=> r.parent = Top.seq)
  BY <1>1, <1>2 DEF Outside, Inside, IsCommand
<1> QED
  BY <1>3 DEF Immediate, RunRows

\* The commands below the innermost call run.
LEMMA CallersRun ==
    ASSUME LedgerInv, stack # <<>>, NEW i \in 2..Len(stack)
    PROVE  IsCommand(stack[i]) => stack[i].phase = "running"
<1>1. i - 1 \in 1..Len(stack) - 1 /\ (i - 1) + 1 = i
  BY ToldTop
<1>2. Calling(stack[i - 1], stack[(i - 1) + 1])
  BY <1>1, ToldTop DEF CallsInv
<1> QED
  BY <1>1, <1>2 DEF Calling, IsCommand

\* A command ends: its result is recorded, and all its commands have one if it completed.
LEMMA SettleTold ==
    ASSUME LedgerInv, stack # <<>>, Top.kind # "flow", NEW e \in AnyError, Settle(e), next' = next,
           NEW more, more \subseteq {r.seq : r \in RunRows(Top, ledger)}, reset' = reset \cup more,
           e = NoError => /\ Top.failure = NoError /\ Top.todo = <<>> /\ ~Resetting(Top)
                          /\ reset' = reset
    PROVE  Told(stack', ledger', reset', next')
<1> DEFINE out == Surfaced(ClassifyOutcome(e, Command[Top.cmd].optional), e)
           row == Recorded(Top.cmd, Top.seq, Top.depth, stack[2].seq, e)
<1>1. PICK c \in BOOLEAN : Shrunk(Receive(stack[2], out, c))
  BY ToldTop, SettleReturns
<1>2. ledger' = ledger \cup {row} /\ Len(stack) > 1
  BY ToldTop, SettleReturns
<1>3. /\ row.seq = Top.seq /\ row.cmd = Top.cmd /\ row.depth = Top.depth /\ row.parent = stack[2].seq
      /\ row.outcome = "Completed" => e = NoError
  BY DEF Recorded, ClassifyOutcome
<1> HIDE DEF row
<1>4. out \in AnyError
  BY DEF Surfaced, AnyError
<1> HIDE DEF out
<1>5. PICK f, t, z : f = Receive(stack[2], out, c) /\ t = stack' /\ z = reset'
  OBVIOUS
<1>6. 2 \in 1..Len(stack) /\ stack[2] \in Frame /\ Stack(stack) /\ IsCommand(stack[1]) /\ Top = stack[1]
  BY <1>2, ToldTop DEF Stack, IsCommand
<1>7. Tallied(stack, {}, ledger, z, next) /\ StandOnce(ledger, z)
  BY <1>5, <1>6, ToldTop, TallyReset
<1>8. \A i \in 2..Len(stack) : IsCommand(stack[i]) => stack[i].phase = "running"
  BY CallersRun
<1>9. Accounted(stack[2], FALSE, {Top.cmd}, ledger) /\ Steady(stack[2])
  <2>1. CallsFlow(stack, 2) = FALSE /\ InHand(stack, 2, {}) = {Top.cmd}
    BY <1>6 DEF CallsFlow, InHand
  <2> QED
    BY <1>6, <1>7, <2>1 DEF Tallied
<1>10. /\ f \in Frame /\ Fixed(stack[2], f) /\ Steady(f) /\ Accounted(f, FALSE, {Top.cmd}, ledger)
       /\ f.phase = stack[2].phase
  <2>1. 2 \in 2..Len(stack)
    BY <1>2, ToldTop
  <2>2. IsCommand(stack[2]) => stack[2].phase = "running"
    BY <1>8, <2>1
  <2>3. PICK d, called, hand : d = stack[2] /\ called = FALSE /\ hand = {Top.cmd}
    OBVIOUS
  <2>4. /\ d \in Frame /\ f = Receive(d, out, c) /\ Steady(d) /\ (IsCommand(d) => d.phase = "running")
        /\ Accounted(d, called, hand, ledger) /\ c \in BOOLEAN /\ out \in AnyError
    BY <1>4, <1>5, <1>6, <1>9, <2>2, <2>3
  <2>5. /\ f \in Frame /\ Fixed(d, f) /\ Steady(f) /\ Accounted(f, called, hand, ledger)
        /\ f.phase = d.phase
    BY <2>4, ReceivedSteady
  <2> QED
    BY <2>3, <2>5
<1>11. /\ Len(stack) = Len(t) + 1 /\ Len(t) # 0 /\ t[1] = f /\ \A i \in 2..Len(t) : t[i] = stack[i + 1]
       /\ Stack(t)
  BY <1>1, <1>2, <1>5, ToldTop DEF Shrunk, Stack
<1>12. Tallied(t, {Top.cmd}, ledger, z, next) /\ Standing(t[1], ledger, z)
  BY <1>6, <1>7, <1>10, <1>11, ToldTop, TallyShrunk
<1>13. /\ row.seq \in 1..next /\ \A r \in ledger : r.seq # row.seq
  <2>1. Numbered(stack, next) /\ Outside(Top, ledger)
    BY ToldTop DEF Stacked
  <2> QED
    BY <1>3, <1>6, <2>1, ToldTop DEF Numbered, Outside, IsCommand
<1>14. row.parent = t[1].seq /\ row.depth = SequenceDepth(t[1])
  <2>1. 1 \in 1..(Len(stack) - 1)
    BY <1>2, ToldTop
  <2>2. Top.depth = SequenceDepth(stack[2])
    BY <1>6, <2>1, ToldTop DEF Stacked, DepthsFit
  <2> QED
    BY <1>3, <1>10, <1>11, <2>2 DEF Fixed, SequenceDepth
<1>15. ASSUME NEW i \in 1..Len(t)
       PROVE  row.seq > t[i].mark /\ (IsCommand(t[i]) => t[i].phase = "running")
  <2>1. i + 1 \in 2..Len(stack) /\ i + 1 \in 1..Len(stack) /\ 1 < i + 1
    BY <1>11, ToldTop
  <2>2. Top.seq > stack[i + 1].mark
    BY <1>6, <2>1, ToldTop DEF Tallied, Growing
  <2>3. t[i].mark = stack[i + 1].mark /\ t[i].kind = stack[i + 1].kind /\ t[i].phase = stack[i + 1].phase
    <3>1. CASE i = 1
      BY <1>10, <1>11, <3>1 DEF Fixed
    <3>2. CASE i # 1
      <4>1. i \in 2..Len(t)
        BY <1>11, <3>2
      <4> QED
        BY <1>11, <4>1
    <3> QED
      BY <3>1, <3>2
  <2> QED
    BY <1>3, <1>8, <2>1, <2>2, <2>3 DEF IsCommand
<1>16. ASSUME row.outcome = "Completed", NEW q \in ledger, q.parent = row.seq, q.seq \in z
       PROVE  \E r \in ledger : r.parent = row.seq /\ r.seq > q.seq /\ r.seq \notin z
  <2>1. /\ Top.failure = NoError /\ Top.todo = <<>> /\ z = reset /\ Standing(Top, ledger, reset)
        /\ row.seq = Top.seq
    BY <1>3, <1>5, <1>16, ToldTop
  <2>2. q.cmd \in Pool(Top) /\ Top.runs > 0
    BY <1>6, <1>16, <2>1, ToldTop DEF Former
  <2>3. Coming(Top) = {}
    BY <1>6, <2>1 DEF Coming, Members, Later, IsCommand
  <2>4. q.cmd \in Passed(Top, ledger)
    BY <2>1, <2>2, <2>3, ToldTop DEF Accounted
  <2>5. PICK r \in RunRows(Top, ledger) : r.cmd = q.cmd
    BY <2>4 DEF Passed
  <2>6. q \notin RunRows(Top, ledger) /\ r.seq \notin z
    BY <1>16, <2>1, <2>5 DEF Standing
  <2>7. q.seq \in Nat /\ r.seq \in Nat /\ Top.mark \in Nat
    BY <2>5, ToldTop, FrameMarks DEF Tallied, Filed, RunRows
  <2> QED
    BY <1>16, <2>1, <2>5, <2>6, <2>7 DEF RunRows
<1>17. /\ Tallied(t, {}, ledger \cup {row}, z, next)
       /\ Standing(t[1], ledger \cup {row}, z) /\ StandOnce(ledger \cup {row}, z)
  <2>1. next <= next /\ next \in Nat
    BY ToldTop
  <2>2. Tallied(t, {row.cmd}, ledger, z, next)
    BY <1>3, <1>12
  <2> QED
    BY <1>7, <1>11, <1>12, <1>13, <1>14, <1>15, <1>16, <2>1, <2>2, TallyRecorded
<1> QED
  BY <1>2, <1>5, <1>17 DEF Told

LEMMA FinishTold ==
    ASSUME LedgerInv, stack # <<>>, Top.kind # "flow", NEW e \in AnyError, Finish(e), next' = next,
           reset' = reset,
           e = NoError => Top.failure = NoError /\ Top.todo = <<>> /\ ~Resetting(Top)
    PROVE  Told(stack', ledger', reset', next')
<1>1. ProductError(e) \in AnyError /\ (ProductError(e) = NoError => e = NoError)
  BY Failing DEF ProductError, Normalized, NoError
<1>2. PICK more : more = {}
  OBVIOUS
<1>3. more \subseteq {r.seq : r \in RunRows(Top, ledger)} /\ reset' = reset \cup more
  BY <1>2
<1> QED
  BY <1>1, <1>3, SettleTold DEF Finish

\* Any call on top of the calls below.
LEMMA Retopped ==
    ASSUME NEW s \in Seq(Frame), s # <<>>, NEW f \in Frame
    PROVE  \E t \in Seq(Frame) : Len(t) = Len(s) /\ t[1] = f /\ \A i \in 2..Len(s) : t[i] = s[i]
<1>1. /\ Tail(s) \in Seq(Frame) /\ Len(Tail(s)) = Len(s) - 1 /\ Len(s) \in Nat \ {0}
      /\ \A i \in 1..Len(Tail(s)) : Tail(s)[i] = s[i + 1]
  BY HeadTailProperties, EmptySeq
<1>2. <<f>> \in Seq(Frame) /\ Len(<<f>>) = 1 /\ <<f>>[1] = f
  OBVIOUS
<1>3. PICK t : t = <<f>> \o Tail(s)
  OBVIOUS
<1>4. /\ t \in Seq(Frame) /\ Len(t) = Len(s) /\ t[1] = f
      /\ \A i \in 1..Len(s) : t[i] = IF i <= 1 THEN <<f>>[i] ELSE Tail(s)[i - 1]
  BY <1>1, <1>2, <1>3, ConcatProperties
<1>5. ASSUME NEW i \in 2..Len(s) PROVE t[i] = s[i]
  <2>1. i \in 1..Len(s) /\ ~(i <= 1) /\ i - 1 \in 1..Len(Tail(s)) /\ (i - 1) + 1 = i
    BY <1>1
  <2> QED
    BY <1>1, <1>4, <2>1
<1> QED
  BY <1>4, <1>5

\* A call of a flow that the innermost call, a command, makes has all the flow to run.
LEMMA FlowCallTold ==
    ASSUME NEW n \in Nat, NEW s, Stack(s), Len(s) # 0, NEW t, Stack(t), Len(t) = Len(s) + 1,
           \A i \in 2..Len(t) : t[i] = s[i - 1], IsCommand(s[1]), s[1].todo = <<>>, s[1].mark = n,
           Command[s[1].cmd].linked = t[1].flow, t[1].flow # NoFlow, t[1].kind = "flow",
           t[1].phase = "enter", t[1].todo = <<>>, ~t[1].halted, t[1].seq = s[1].seq,
           t[1].depth = s[1].depth + 1, t[1].mark = n,
           NEW rows, NEW gone, StandOnce(rows, gone), Tallied(s, Pool(s[1]), rows, gone, n),
           Standing(s[1], rows, gone)
    PROVE  Told(t, rows, gone, n)
<1>1. /\ 1 \in 1..Len(s) /\ Growing(s, n) /\ Filed(rows, gone, n) /\ Steady(s[1])
      /\ Former(s[1], rows, gone) /\ ~IsCommand(t[1]) /\ s[1].seq <= s[1].mark
  BY DEF Stack, Tallied, IsCommand, Growing
<1>2. Members(<<>>) = {} /\ Once(<<>>)
  BY DEF Members, Once
<1>3. Coming(t[1]) = FlowPool(t[1].flow) /\ Pool(t[1]) = FlowPool(t[1].flow) /\ Pool(s[1]) = Pool(t[1])
      /\ Coming(s[1]) = {}
  BY <1>1, <1>2 DEF Coming, Later, Pool, IsCommand
<1>4. /\ RunRows(t[1], rows) = {} /\ Passed(t[1], rows) = {}
      /\ RunRows(s[1], rows) = {} /\ Passed(s[1], rows) = {}
  <2>1. RunRows(t[1], rows) = {} /\ RunRows(s[1], rows) = {}
    BY <1>1 DEF RunRows, Filed
  <2> QED
    BY <2>1 DEF Passed
<1>5. Steady(t[1])
  BY <1>1, <1>2 DEF Steady
<1>6. Accounted(t[1], FALSE, {}, rows) /\ Accounted(s[1], TRUE, {}, rows)
  BY <1>1, <1>3, <1>4 DEF Accounted
<1>7. Former(t[1], rows, gone)
  BY <1>1, <1>3 DEF Former
<1>8. Outside(t[1], rows) /\ Standing(t[1], rows, gone)
  BY <1>1, <1>4 DEF Outside, Standing
<1>9. Tallied(t, {}, rows, gone, n)
  <2>1. n <= n /\ t[1].seq <= t[1].mark /\ t[1].mark <= n
    BY <1>1
  <2>2. /\ ~IsCommand(t[1]) => /\ IsCommand(s[1]) /\ Command[s[1].cmd].linked = t[1].flow
                               /\ t[1].flow # NoFlow /\ t[1].seq = s[1].seq
                               /\ t[1].mark = s[1].mark /\ t[1].depth = s[1].depth + 1
        /\ ~IsCommand(t[1]) => Accounted(s[1], TRUE, {}, rows)
    BY <1>6
  <2> QED
    BY <1>1, <1>5, <1>6, <1>7, <1>8, <2>1, <2>2, TallyGrown
<1> QED
  BY <1>8, <1>9 DEF Told

\* A composite begins a run, when all its results so far are reset.
LEMMA RunTold ==
    ASSUME LedgerInv, stack # <<>>, Top.kind \notin {"flow", "leaf"}, BeginRun, ledger' = ledger,
           next' = next, NEW more, more \subseteq {r.seq : r \in RunRows(Top, ledger)},
           reset' = reset \cup more, \A r \in ledger : r.parent = Top.seq => r.seq \in reset'
    PROVE  Told(stack', ledger', reset', next')
<1> DEFINE c == Command[Top.cmd]
           b == IF c.linked = NoFlow THEN c.children ELSE <<>>
           k == Top.runs + 1
           f == [Top EXCEPT !.phase = "running", !.runs = k, !.mark = next,
                            !.failure = NoError, !.todo = b]
           call == EnterFrame(c.linked, Top.seq, Top.depth + 1)
<1>1. /\ Top \in CommandFrame /\ Top.seq \in Nat /\ Top.depth \in Nat /\ next \in Nat
      /\ c \in CommandType /\ stack \in Seq(Frame) /\ Top = stack[1] /\ Stack(stack) /\ Len(stack) # 0
  BY ToldTop, FrameKinds, CommandErrors
<1>2. /\ f \in CommandFrame /\ f.kind = Top.kind /\ f.cmd = Top.cmd /\ f.seq = Top.seq
      /\ f.depth = Top.depth /\ f.mark = next /\ f.runs > 0 /\ f.phase = "running"
      /\ f.failure = NoError /\ f.todo = b
  <2>1. b \in Seq(Commands) /\ k \in Nat /\ k > 0
    BY <1>1 DEF CommandType, CommandFrame
  <2> HIDE DEF b, k
  <2> QED
    BY <1>1, <2>1 DEF CommandFrame
<1>3. f = [Top EXCEPT !.phase = "running", !.runs = @ + 1, !.mark = next, !.failure = NoError,
                      !.todo = IF c.linked = NoFlow THEN c.children ELSE <<>>]
  BY <1>1 DEF CommandFrame
<1>4. stack' = (IF c.linked = NoFlow THEN <<f>> ELSE <<call, f>>) \o Tail(stack)
  BY <1>3, Zenon DEF BeginRun
<1>5. /\ Once(b) /\ (c.linked # NoFlow => b = <<>>)
      /\ c.linked = NoFlow => Members(b) = Pool(f)
      /\ c.linked # NoFlow => Members(b) = {}
  <2>1. Top.cmd \in Commands
    BY <1>1 DEF CommandFrame
  <2>2. Once(<<>>) /\ Members(<<>>) = {}
    BY DEF Once, Members
  <2>3. f.kind # "flow" /\ f.cmd = Top.cmd
    BY <1>2
  <2> HIDE DEF f
  <2>4. Once(c.children)
    BY <2>1, PositionsAssumption
  <2> QED
    BY <2>2, <2>3, <2>4 DEF Pool
<1> HIDE DEF f, b, k
<1>6. PICK y : y = IF c.linked = NoFlow THEN {} ELSE Pool(f)
  OBVIOUS
<1>7. f \in Frame /\ IsCommand(f) /\ IsCommand(Top) /\ Coming(f) = Members(b)
  BY <1>2 DEF Frame, Coming, Later, IsCommand
<1>8. Steady(f)
  BY <1>2, <1>5, <1>7 DEF Steady, Later, IsCommand
<1>9. Coming(f) \cup y = Pool(f) /\ Coming(f) \cap y = {}
  BY <1>5, <1>6, <1>7
<1>10. PICK t, z : t = stack' /\ z = reset'
  OBVIOUS
<1>11. Tallied(stack, {}, ledger, z, next) /\ StandOnce(ledger, z)
  BY <1>1, <1>7, <1>10, ToldTop, TallyReset
<1>12. PICK s \in Seq(Frame) : /\ Len(s) = Len(stack) /\ s[1] = f
                               /\ \A i \in 2..Len(stack) : s[i] = stack[i]
  BY <1>1, <1>7, Retopped
<1>13. Stack(s) /\ Len(s) # 0
  BY <1>1, <1>12 DEF Stack
<1>14. Tallied(s, y, ledger, z, next) /\ Standing(f, ledger, z)
  BY <1>1, <1>2, <1>7, <1>8, <1>9, <1>10, <1>11, <1>12, <1>13, TallyRestarted
<1>15. CASE c.linked = NoFlow
  <2>1. Turned(f)
    BY <1>1, <1>4, <1>7, <1>15, TurnedTop
  <2>2. /\ Stack(t) /\ Len(t) = Len(s) /\ t[1] = s[1] /\ \A i \in 2..Len(s) : t[i] = s[i]
    BY <1>1, <1>10, <1>12, <2>1 DEF Turned, Stack
  <2>3. y = {} /\ Fixed(s[1], t[1]) /\ Steady(t[1])
    BY <1>6, <1>8, <1>12, <1>15, <2>2 DEF Fixed
  <2>4. Accounted(t[1], FALSE, {}, ledger)
    <3>1. InHand(s, 1, y) = y /\ CallsFlow(s, 1) = FALSE /\ 1 \in 1..Len(s)
      BY <1>13 DEF InHand, CallsFlow, Stack
    <3> QED
      BY <1>14, <2>2, <2>3, <3>1 DEF Tallied
  <2>5. Tallied(t, {}, ledger, z, next) /\ Standing(t[1], ledger, z)
    BY <1>1, <1>12, <1>13, <1>14, <2>2, <2>3, <2>4, TallyOnward
  <2> QED
    BY <1>10, <1>11, <2>5 DEF Told
<1>16. CASE c.linked # NoFlow
  <2>1. /\ call \in Frame /\ call.kind = "flow" /\ call.flow = c.linked /\ call.phase = "enter"
        /\ call.todo = <<>> /\ ~call.halted /\ call.seq = Top.seq /\ call.depth = Top.depth + 1
        /\ call.mark = next
    BY <1>1, <1>16 DEF EnterFrame, FlowFrame, Frame, CommandType
  <2> HIDE DEF call
  <2>2. Grown(call, f)
    BY <1>1, <1>4, <1>7, <1>16, <2>1, GrownTop
  <2>3. /\ Stack(t) /\ Len(t) = Len(s) + 1 /\ t[1] = call /\ \A i \in 1..Len(t) : t[i] \in Frame
        /\ Len(s) \in Nat
    BY <1>1, <1>10, <1>12, <2>2 DEF Grown, Stack
  <2>4. ASSUME NEW i \in 2..Len(t) PROVE t[i] = s[i - 1]
    <3>1. i \in 1..Len(t) /\ i # 1 /\ i - 1 \in 1..Len(s)
      BY <2>3
    <3>2. CASE i = 2
      BY <1>10, <1>12, <2>2, <3>1, <3>2 DEF Grown
    <3>3. CASE i # 2
      <4>1. t[i] = stack[i - 1] /\ i - 1 \in 2..Len(stack)
        BY <1>10, <1>12, <2>2, <2>3, <3>1, <3>3 DEF Grown
      <4> QED
        BY <1>12, <4>1
    <3> QED
      BY <3>2, <3>3
  <2>5. /\ IsCommand(s[1]) /\ s[1].todo = <<>> /\ s[1].mark = next /\ Command[s[1].cmd].linked = t[1].flow
        /\ t[1].flow # NoFlow /\ y = Pool(s[1]) /\ t[1].seq = s[1].seq /\ t[1].depth = s[1].depth + 1
    BY <1>2, <1>5, <1>6, <1>7, <1>12, <1>16, <2>1, <2>3
  <2>6. Told(t, ledger, z, next)
    BY <1>1, <1>11, <1>12, <1>13, <1>14, <2>1, <2>3, <2>4, <2>5, FlowCallTold
  <2> QED
    BY <1>10, <2>6
<1> QED
  BY <1>15, <1>16

\* The first command of a sequence, and the others.
LEMMA FirstOfMany ==
    ASSUME NEW q \in Seq(Commands), q # <<>>, Once(q)
    PROVE  /\ Once(Tail(q)) /\ Members(q) = {Head(q)} \cup Members(Tail(q))
           /\ Head(q) \notin Members(Tail(q)) /\ Head(q) \in Commands
<1>1. /\ Tail(q) \in Seq(Commands) /\ Len(Tail(q)) = Len(q) - 1 /\ Len(q) \in Nat \ {0}
      /\ \A i \in 1..Len(Tail(q)) : Tail(q)[i] = q[i + 1]
      /\ Head(q) = q[1] /\ Head(q) \in Commands
  BY HeadTailProperties, EmptySeq
<1>2. PICK t : t = Tail(q)
  OBVIOUS
<1>3. /\ Len(t) = Len(q) - 1 /\ \A i \in 1..Len(t) : t[i] = q[i + 1] /\ i + 1 \in 1..Len(q)
  BY <1>1, <1>2
<1>4. Once(t)
  <2> SUFFICES ASSUME NEW i \in 1..Len(t), NEW j \in 1..Len(t), t[i] = t[j] PROVE i = j
    BY DEF Once
  <2>1. i + 1 = j + 1
    BY <1>3 DEF Once
  <2> QED
    BY <1>1, <1>3, <2>1
<1>5. Head(q) \notin Members(t)
  <2> SUFFICES ASSUME NEW i \in 1..Len(t), t[i] = Head(q) PROVE FALSE
    BY DEF Members
  <2>1. i + 1 = 1
    BY <1>1, <1>3 DEF Once
  <2> QED
    BY <1>1, <1>3, <2>1
<1>6. ASSUME NEW i \in 1..Len(q) PROVE q[i] \in {Head(q)} \cup Members(t)
  <2>1. CASE i = 1
    BY <1>1, <2>1
  <2>2. CASE i # 1
    <3>1. i - 1 \in 1..Len(t) /\ (i - 1) + 1 = i
      BY <1>1, <1>3, <2>2
    <3>2. t[i - 1] = q[i]
      BY <1>3, <3>1
    <3> QED
      BY <3>1, <3>2 DEF Members
  <2> QED
    BY <2>1, <2>2
<1>7. Members(q) = {Head(q)} \cup Members(t)
  <2>1. 1 \in 1..Len(q)
    BY <1>1
  <2> QED
    BY <1>1, <1>3, <1>6, <2>1 DEF Members
<1> QED
  BY <1>1, <1>2, <1>4, <1>5, <1>7

\* The sequence on top has the command it starts in hand.
LEMMA CallerAccounts ==
    ASSUME LedgerInv, stack # <<>>, Top.todo # <<>>
    PROVE  /\ Caller \in Frame /\ Fixed(Top, Caller) /\ Steady(Caller) /\ ~Resetting(Top)
           /\ Accounted(Caller, FALSE, {Head(Top.todo)}, ledger) /\ Head(Top.todo) \in Commands
           /\ IsCommand(Caller) => Caller.phase = "running"
<1> DEFINE q == Top.todo
           t == Tail(Top.todo)
<1>1. Top \in Frame /\ q \in Seq(Commands) /\ t \in Seq(Commands) /\ Caller = [Top EXCEPT !.todo = t]
  BY ToldTop, FrameKinds, HeadTailProperties DEF Caller
<1>2. Steady(Top) /\ Accounted(Top, FALSE, {}, ledger) /\ Sound(Top, poisoned, next)
  BY ToldTop
<1>3. /\ Once(t) /\ Members(q) = {Head(q)} \cup Members(t) /\ Head(q) \notin Members(t) /\ Head(q) \in Commands
  BY <1>1, <1>2, FirstOfMany DEF Steady
<1> HIDE DEF t
<1>4. /\ Caller \in Frame /\ Fixed(Top, Caller) /\ Caller.phase = Top.phase /\ Caller.failure = Top.failure
      /\ Caller.todo = t /\ (~IsCommand(Top) => Caller.halted = Top.halted)
  <2>1. CASE Top.kind = "flow"
    <3>1. Top \in FlowFrame
      BY <1>1, <2>1, FrameKinds
    <3> QED
      BY <1>1, <2>1, <3>1 DEF FlowFrame, Frame, Fixed, IsCommand
  <2>2. CASE Top.kind # "flow"
    <3>1. Top \in CommandFrame
      BY <1>1, <2>2, FrameKinds
    <3> QED
      BY <1>1, <2>2, <3>1 DEF CommandFrame, Frame, Fixed, IsCommand
  <2> QED
    BY <2>1, <2>2
<1>5. Later(Caller) = Later(Top) /\ (IsCommand(Caller) <=> IsCommand(Top))
  BY <1>4 DEF Later, Fixed, IsCommand
<1>6. IsCommand(Top) => Top.phase = "running" /\ Command[Top.cmd].linked = NoFlow
  BY <1>2 DEF Sound, IsCommand, Steady
<1>7. ~Resetting(Top)
  BY <1>6 DEF Resetting, IsCommand
<1>8. Steady(Caller)
  BY <1>2, <1>3, <1>4, <1>5, <1>6 DEF Steady, Fixed
<1>9. Accounted(Caller, FALSE, {Head(q)}, ledger)
  <2>1. Pool(Caller) = Pool(Top) /\ RunRows(Caller, ledger) = RunRows(Top, ledger) /\ Passed(Caller, ledger) = Passed(Top, ledger)
    BY <1>1, <1>4, FixedKeeps
  <2>2. Coming(Caller) \cup {Head(q)} = Coming(Top) /\ Coming(Caller) \cap {Head(q)} = {}
    BY <1>2, <1>3, <1>4, <1>5 DEF Coming, Steady
  <2>3. IsCommand(Caller) => Caller.runs = Top.runs
    BY <1>4, <1>5 DEF Fixed
  <2> QED
    BY <1>2, <1>4, <1>5, <2>1, <2>2, <2>3 DEF Accounted
<1> QED
  BY <1>3, <1>4, <1>5, <1>6, <1>7, <1>8, <1>9

\* A command starts, or is refused by an ended context.
LEMMA StartTold ==
    ASSUME LedgerInv, StartCommand
    PROVE  Told(stack', ledger', reset', next')
<1>1. /\ stack # <<>> /\ Top.todo # <<>> /\ next' = next + 1 /\ reset' = reset
      /\ IF cancelled THEN CommandRefused ELSE CommandStarted
  BY StartCases DEF LedgerInv, StartCommand, Quiet
<1>2. /\ stack \in Seq(Frame) /\ Top = stack[1] /\ Top \in Frame /\ next \in Nat /\ Stack(stack)
      /\ Len(stack) # 0 /\ Len(stack) \in Nat
      /\ Standing(Top, ledger, reset) /\ StandOnce(ledger, reset) /\ Tallied(stack, {}, ledger, reset, next)
  BY <1>1, ToldTop, CallerAccounts
<1>3. /\ Caller \in Frame /\ Fixed(Top, Caller) /\ Steady(Caller)
      /\ Accounted(Caller, FALSE, {Head(Top.todo)}, ledger) /\ Head(Top.todo) \in Commands
      /\ IsCommand(Caller) => Caller.phase = "running"
  BY <1>1, CallerAccounts
<1> DEFINE c == Head(Top.todo)
           n == next + 1
           depth == SequenceDepth(Top)
           call == CallFrame(c, n, depth)
           row == Recorded(c, n, depth, Top.seq, "cancelled")
<1>4. ~cancelled => stack' = <<call, Caller>> \o Tail(stack) /\ ledger' = ledger
  BY <1>1, <1>2 DEF StartCommand, Caller
<1>5. PICK s \in Seq(Frame) : /\ Len(s) = Len(stack) /\ s[1] = Caller
                               /\ \A i \in 2..Len(stack) : s[i] = stack[i]
  BY <1>1, <1>2, <1>3, Retopped
<1>6. Stack(s) /\ Len(s) # 0 /\ 1 \in 1..Len(s)
  BY <1>2, <1>5 DEF Stack
<1>7. /\ Tallied(s, {c}, ledger, reset, next) /\ Standing(s[1], ledger, reset)
      /\ SequenceDepth(s[1]) = depth /\ depth \in Nat /\ s[1].seq = Top.seq /\ c \in Commands
  <2>1. Tallied(s, {c}, ledger, reset, next) /\ Standing(s[1], ledger, reset)
    BY <1>2, <1>3, <1>5, <1>6, TallyOnward
  <2>2. SequenceDepth(s[1]) = depth /\ depth \in Nat /\ s[1].seq = Top.seq
    BY <1>2, <1>3, <1>5, FrameMarks DEF SequenceDepth, Fixed
  <2> QED
    BY <1>3, <2>1, <2>2
<1>8. \A r \in ledger : r.seq \in Nat /\ r.seq < n /\ r.parent < n /\ r.parent \in Nat
  BY <1>2 DEF Tallied, Filed
<1>9. PICK t : t = stack'
  OBVIOUS
<1> HIDE DEF c, depth
<1>10. CASE cancelled
  <2>1. PICK d \in BOOLEAN : ledger' = ledger \cup {row} /\ Turned(Receive(Caller, "cancelled", d))
    BY <1>1, <1>10 DEF CommandRefused, c, depth
  <2>2. /\ row.seq = n /\ row.cmd = c /\ row.depth = depth /\ row.parent = Top.seq
        /\ row.outcome # "Completed"
    BY DEF Recorded, ClassifyOutcome, NoError
  <2> HIDE DEF row
  <2>3. \A i \in 1..Len(s) : row.seq > s[i].mark /\ (IsCommand(s[i]) => s[i].phase = "running")
    <3> TAKE i \in 1..Len(s)
    <3>1. s[i].mark \in Nat /\ s[i].mark <= next
      BY <1>6, <1>7, FrameMarks DEF Tallied, Growing, Stack
    <3>2. CASE i = 1
      BY <1>2, <1>3, <1>5, <2>2, <3>1, <3>2
    <3>3. CASE i # 1
      <4>1. i \in 2..Len(stack)
        BY <1>2, <1>5, <3>3
      <4> QED
        BY <1>1, <1>2, <1>5, <2>2, <3>1, <4>1, CallersRun
    <3> QED
      BY <3>2, <3>3
  <2>4. row.seq \in 1..n /\ n \in Nat /\ next <= n /\ \A r \in ledger : r.seq # row.seq
    BY <1>2, <1>8, <2>2
  <2>5. row.parent = s[1].seq /\ row.depth = SequenceDepth(s[1]) /\ Tallied(s, {row.cmd}, ledger, reset, next)
    BY <1>7, <2>2
  <2> HIDE DEF n
  <2>6. /\ Tallied(s, {}, ledger \cup {row}, reset, n) /\ Standing(s[1], ledger \cup {row}, reset)
        /\ StandOnce(ledger \cup {row}, reset)
    BY <1>2, <1>6, <1>7, <2>2, <2>3, <2>4, <2>5, TallyRecorded
  <2>7. PICK f, rows : f = Receive(Caller, "cancelled", d) /\ rows = ledger \cup {row}
    OBVIOUS
  <2>8. Accounted(Caller, FALSE, {}, rows)
    <3>1. InHand(s, 1, {}) = {} /\ CallsFlow(s, 1) = FALSE
      BY DEF InHand, CallsFlow
    <3> QED
      BY <1>5, <1>6, <2>6, <2>7, <3>1 DEF Tallied
  <2>9. "cancelled" \in AnyError
    BY DEF AnyError, Errors
  <2>10. f \in Frame /\ Fixed(Caller, f) /\ Steady(f) /\ Accounted(f, FALSE, {}, rows)
    BY <1>3, <2>7, <2>8, <2>9, ReceivedSteady
  <2>11. /\ Stack(t) /\ Len(t) = Len(s) /\ t[1] = f /\ \A i \in 2..Len(s) : t[i] = s[i]
    BY <1>2, <1>5, <1>9, <2>1, <2>7 DEF Turned, Stack
  <2>12. Tallied(t, {}, rows, reset, n) /\ Standing(t[1], rows, reset)
    <3>1. /\ Fixed(s[1], t[1]) /\ Steady(t[1]) /\ Accounted(t[1], FALSE, {}, rows)
          /\ Tallied(s, {}, rows, reset, n) /\ Standing(s[1], rows, reset) /\ n \in Nat
      BY <1>5, <2>4, <2>6, <2>7, <2>10, <2>11
    <3>2. Stack(s) /\ Len(s) # 0 /\ Stack(t) /\ Len(t) = Len(s) /\ \A i \in 2..Len(s) : t[i] = s[i]
      BY <1>6, <2>11
    <3> QED
      BY <3>1, <3>2, TallyOnward
  <2>13. Told(t, rows, reset, n)
    BY <2>6, <2>7, <2>12 DEF Told
  <2> QED
    BY <1>1, <1>9, <2>1, <2>7, <2>13 DEF n
<1>11. CASE ~cancelled
  <2>1. /\ call \in CommandFrame /\ call.kind # "flow" /\ call.cmd = c /\ call.seq = n /\ call.mark = n
        /\ call.depth = depth /\ call.runs = 0 /\ call.todo = <<>> /\ call.failure = NoError
        /\ call.phase \in {"evaluate", "attempt", "condition"}
    BY <1>2, <1>7, ProgramAssumption DEF CallFrame, FirstPhase, CommandFrame, CommandType, Kinds
  <2> HIDE DEF call
  <2>2. Grown(call, Caller) /\ call \in Frame
    BY <1>1, <1>2, <1>3, <1>4, <1>11, <2>1, GrownTop DEF Frame
  <2>3. Stack(t) /\ Len(t) = Len(s) + 1 /\ t[1] = call
    BY <1>2, <1>5, <1>9, <2>2 DEF Grown, Stack
  <2>4. ASSUME NEW i \in 2..Len(t) PROVE t[i] = s[i - 1]
    <3>1. i \in 1..Len(t) /\ i # 1 /\ i - 1 \in 1..Len(s)
      BY <1>2, <1>5, <2>3
    <3>2. CASE i = 2
      BY <1>5, <1>9, <2>2, <3>1, <3>2 DEF Grown
    <3>3. CASE i # 2
      <4>1. t[i] = stack[i - 1] /\ i - 1 \in 2..Len(stack)
        BY <1>2, <1>5, <1>9, <2>2, <2>3, <3>1, <3>3 DEF Grown
      <4> QED
        BY <1>5, <4>1
    <3> QED
      BY <3>2, <3>3
  <2>5. Members(<<>>) = {} /\ Once(<<>>) /\ IsCommand(call)
    BY <2>1 DEF Members, Once, IsCommand
  <2>6. Coming(call) = {} /\ Later(call) = {}
    BY <2>1, <2>5 DEF Coming, Later, IsCommand
  <2>7. RunRows(call, ledger) = {} /\ Passed(call, ledger) = {}
    <3>1. RunRows(call, ledger) = {}
      BY <1>2, <1>8, <2>1 DEF RunRows
    <3> QED
      BY <3>1 DEF Passed
  <2>8. Steady(call)
    BY <2>1, <2>5, <2>6 DEF Steady
  <2>9. Accounted(call, FALSE, {}, ledger)
    BY <2>1, <2>5, <2>6, <2>7 DEF Accounted
  <2>10. Former(call, ledger, reset)
    BY <1>2, <1>8, <2>1 DEF Former
  <2>11. Outside(call, ledger)
    BY <1>2, <1>8, <2>1 DEF Outside
  <2>12. Standing(call, ledger, reset)
    BY <2>7 DEF Standing
  <2>13. /\ n \in Nat /\ next <= n /\ call.seq <= call.mark /\ call.mark <= n /\ call.seq > next
         /\ {c} = {call.cmd} /\ call.depth = SequenceDepth(s[1])
    BY <1>2, <1>7, <2>1
  <2> HIDE DEF n
  <2>14. Tallied(t, {}, ledger, reset, n)
    BY <1>2, <1>6, <1>7, <2>3, <2>4, <2>5, <2>8, <2>9, <2>10, <2>11, <2>13, TallyGrown
  <2>15. Told(t, ledger, reset, n)
    BY <1>2, <2>3, <2>12, <2>14 DEF Told
  <2> QED
    BY <1>1, <1>4, <1>9, <1>11, <2>15 DEF n
<1> QED
  BY <1>10, <1>11

\* A flow is entered with all of it to run, or left at once with an error.
LEMMA EnterTold ==
    ASSUME LedgerInv, EnterFlow
    PROVE  Told(stack', ledger', reset', next')
<1>1. /\ stack # <<>> /\ Top.kind = "flow" /\ Top.phase = "enter"
      /\ ledger' = ledger /\ reset' = reset /\ next' = next
  BY DEF EnterFlow, TopIs
<1>2. /\ Top \in FlowFrame /\ stack \in Seq(Frame) /\ Steady(Top) /\ Accounted(Top, FALSE, {}, ledger)
      /\ Top.todo = <<>> /\ Top \in Frame /\ app \in Apps \cup {NoApp}
  BY <1>1, ToldTop, FrameKinds DEF Sound, FlowInv
<1>3. Members(<<>>) = {} /\ Once(<<>>)
  BY DEF Members, Once
<1>4. ASSUME NEW f \in FlowFrame, stack' = <<f>> \o Tail(stack), f.kind = "flow", f.flow = Top.flow,
             f.seq = Top.seq, f.depth = Top.depth, f.mark = Top.mark, f.halted = Top.halted,
             Once(f.todo), Members(f.todo) \cap Later(f) = {},
             \/ f.failure = Top.failure /\ Coming(f) = Coming(Top)
             \/ f.failure # NoError /\ Coming(f) = {}
      PROVE  Told(stack', ledger', reset', next')
  <2>1. Turned(f) /\ f \in Frame
    BY <1>1, <1>2, <1>4, TurnedTop DEF Frame
  <2>2. Fixed(Top, f) /\ ~IsCommand(f) /\ ~IsCommand(Top)
    BY <1>1, <1>4 DEF Fixed, IsCommand
  <2>3. Steady(f)
    BY <1>2, <1>4, <2>2 DEF Steady
  <2>4. Accounted(f, FALSE, {}, ledger)
    <3>1. Pool(f) = Pool(Top) /\ RunRows(f, ledger) = RunRows(Top, ledger) /\ Passed(f, ledger) = Passed(Top, ledger)
      BY <1>2, <2>1, <2>2, FixedKeeps
    <3> QED
      BY <1>2, <1>4, <2>2, <3>1 DEF Accounted
  <2>5. ~Resetting(Top)
    BY <1>1 DEF Resetting
  <2> QED
    BY <1>1, <2>1, <2>2, <2>3, <2>4, <2>5, TurnedTold
<1>5. CASE SetTop([Top EXCEPT !.phase = "onStart", !.todo = Flow[Top.flow].onStart,
                              !.opened = TRUE, !.outerApp = app])
  <2> DEFINE b == Flow[Top.flow].onStart
             f == [Top EXCEPT !.phase = "onStart", !.todo = b, !.opened = TRUE, !.outerApp = app]
  <2>1. b \in Seq(Commands) /\ Top.flow \in Flows
    BY <1>2, ProgramAssumption DEF FlowType, FlowFrame
  <2>2. stack' = <<f>> \o Tail(stack)
    BY <1>5 DEF SetTop
  <2> HIDE DEF b
  <2>3. /\ f \in FlowFrame /\ f.kind = "flow" /\ f.flow = Top.flow /\ f.seq = Top.seq
        /\ f.depth = Top.depth /\ f.mark = Top.mark /\ f.phase = "onStart" /\ f.todo = b
        /\ f.failure = Top.failure /\ f.halted = Top.halted
    BY <1>1, <1>2, <2>1 DEF FlowFrame
  <2> HIDE DEF f
  <2>4. /\ Later(f) = Members(Flow[Top.flow].body) \cup Members(Flow[Top.flow].onComplete)
        /\ Later(Top) = FlowPool(Top.flow)
    BY <1>1, <2>3 DEF Later
  <2>5. Once(b) /\ Members(b) \cap Later(f) = {}
    BY <2>1, <2>4, PositionsAssumption DEF Apart, b
  <2>6. Coming(f) = Coming(Top)
    BY <1>2, <1>3, <2>3, <2>4 DEF Coming, FlowPool, b
  <2> QED
    BY <1>4, <2>2, <2>3, <2>5, <2>6
<1>6. CASE \E e \in {"cancelled", "integrity", "failure"} :
              SetTop([Top EXCEPT !.phase = "leave", !.failure = e])
  <2>1. PICK e \in {"cancelled", "integrity", "failure"} :
              SetTop([Top EXCEPT !.phase = "leave", !.failure = e])
    BY <1>6
  <2> DEFINE f == [Top EXCEPT !.phase = "leave", !.failure = e]
  <2>2. stack' = <<f>> \o Tail(stack)
    BY <2>1 DEF SetTop
  <2>3. e \in Errors /\ e # NoError
    BY DEF Errors, NoError
  <2>4. /\ f \in FlowFrame /\ f.kind = "flow" /\ f.flow = Top.flow /\ f.seq = Top.seq
        /\ f.depth = Top.depth /\ f.mark = Top.mark /\ f.phase = "leave" /\ f.todo = <<>>
        /\ f.failure # NoError /\ f.halted = Top.halted
    BY <1>1, <1>2, <2>3 DEF FlowFrame
  <2> HIDE DEF f
  <2>5. Later(f) = {} /\ Coming(f) = {}
    BY <1>3, <2>4 DEF Later, Coming
  <2> QED
    BY <1>3, <1>4, <2>2, <2>4, <2>5
<1> QED
  BY <1>5, <1>6 DEF EnterFlow

\* A flow turns to its body, its completion hooks or its end: what it passes over, it
\* passes over after an error.
LEMMA NextPhaseTold ==
    ASSUME LedgerInv, NextPhase
    PROVE  Told(stack', ledger', reset', next')
<1>1. /\ stack # <<>> /\ Top.kind = "flow" /\ Top.todo = <<>>
      /\ ledger' = ledger /\ reset' = reset /\ next' = next
  BY DEF NextPhase, Quiet
<1>2. /\ Top \in FlowFrame /\ stack \in Seq(Frame) /\ Steady(Top) /\ Accounted(Top, FALSE, {}, ledger)
      /\ Top \in Frame /\ Top.flow \in Flows /\ Flow[Top.flow] \in FlowType
  BY <1>1, ToldTop, FrameKinds, ProgramAssumption DEF FlowFrame
<1>3. Members(<<>>) = {} /\ Once(<<>>)
  BY DEF Members, Once
<1>4. ASSUME NEW ph \in {"body", "onComplete", "leave"}, NEW b \in Seq(Commands),
             SetTop([Top EXCEPT !.phase = ph, !.todo = b]), Once(b),
             ph = "body" => /\ b = Flow[Top.flow].body /\ Top.phase = "onStart",
             ph = "onComplete" => /\ b = Flow[Top.flow].onComplete
                                  /\ Top.phase = "body" \/ (Top.phase = "onStart" /\ Top.failure # NoError),
             ph = "leave" => /\ b = <<>>
                             /\ Top.phase = "onComplete" \/ Top.failure # NoError
      PROVE  Told(stack', ledger', reset', next')
  <2> DEFINE f == [Top EXCEPT !.phase = ph, !.todo = b]
             onComplete == Members(Flow[Top.flow].onComplete)
             body == Members(Flow[Top.flow].body)
  <2>1. /\ f \in FlowFrame /\ f.kind = "flow" /\ f.failure = Top.failure /\ f.phase = ph /\ f.todo = b
        /\ f.flow = Top.flow /\ f.seq = Top.seq /\ f.depth = Top.depth /\ f.mark = Top.mark
        /\ f.halted = Top.halted
    BY <1>1, <1>2, <1>4 DEF FlowFrame
  <2>2. stack' = <<f>> \o Tail(stack)
    BY <1>4 DEF SetTop
  <2> HIDE DEF f
  <2>3. Turned(f) /\ f \in Frame
    BY <1>1, <1>2, <2>1, <2>2, TurnedTop DEF Frame
  <2>4. Fixed(Top, f) /\ ~IsCommand(f) /\ ~IsCommand(Top) /\ ~Resetting(Top)
    BY <1>1, <2>1 DEF Fixed, IsCommand, Resetting
  <2>5. /\ ph = "body" => Later(f) = onComplete
        /\ ph # "body" => Later(f) = {}
        /\ Top.phase = "onStart" => Later(Top) = body \cup onComplete
        /\ Top.phase = "body" => Later(Top) = onComplete
    BY <1>1, <2>1 DEF Later
  <2>6. body \cap onComplete = {}
    BY <1>2, PositionsAssumption DEF Apart
  <2>7. Members(b) \cap Later(f) = {}
    BY <1>4, <2>5, <2>6
  <2>8. /\ Coming(f) \subseteq Coming(Top)
        /\ f.failure = NoError => Coming(f) = Coming(Top)
    <3>1. Coming(f) = Members(b) \cup Later(f) /\ Coming(Top) = Later(Top)
      BY <1>1, <1>3, <2>1 DEF Coming
    <3>2. CASE ph = "body"
      BY <1>4, <2>5, <3>1, <3>2
    <3>3. CASE ph = "onComplete"
      BY <1>4, <2>1, <2>5, <3>1, <3>3
    <3>4. CASE ph = "leave"
      <4>1. Coming(f) = {}
        BY <1>3, <1>4, <2>5, <3>1, <3>4
      <4>2. Top.phase = "onComplete" => Later(Top) = {}
        BY <1>1 DEF Later
      <4> QED
        BY <1>4, <2>1, <3>1, <3>4, <4>1, <4>2
    <3> QED
      BY <3>2, <3>3, <3>4
  <2>9. Steady(f)
    BY <1>2, <1>4, <2>1, <2>4, <2>7 DEF Steady
  <2>10. Accounted(f, FALSE, {}, ledger)
    <3>1. Pool(f) = Pool(Top) /\ RunRows(f, ledger) = RunRows(Top, ledger) /\ Passed(f, ledger) = Passed(Top, ledger)
      BY <1>2, <2>3, <2>4, FixedKeeps
    <3> QED
      BY <1>2, <2>1, <2>4, <2>8, <3>1 DEF Accounted
  <2> QED
    BY <1>1, <2>3, <2>4, <2>9, <2>10, TurnedTold
<1>5. Top.phase = "onStart" /\ Top.halted => Top.failure # NoError
  BY <1>1, <1>2 DEF Steady, IsCommand
<1>6. Once(Flow[Top.flow].body) /\ Once(Flow[Top.flow].onComplete)
  BY <1>2, PositionsAssumption
<1>7. CASE Top.phase = "onStart" /\ SetTop([Top EXCEPT !.phase = "body", !.todo = Flow[Top.flow].body])
  BY <1>2, <1>4, <1>6, <1>7 DEF FlowType
<1>8. CASE BodyDone(Top) /\ SetTop([Top EXCEPT !.phase = "onComplete", !.todo = Flow[Top.flow].onComplete])
  BY <1>2, <1>4, <1>5, <1>6, <1>8 DEF FlowType, BodyDone
<1>9. CASE /\ SetTop([Top EXCEPT !.phase = "leave"])
           /\ Top.phase = "onComplete" \/ Top.failure = "integrity"
  <2>1. [Top EXCEPT !.phase = "leave"] = [Top EXCEPT !.phase = "leave", !.todo = <<>>]
    BY <1>1, <1>2 DEF FlowFrame
  <2>2. <<>> \in Seq(Commands) /\ NoError # "integrity"
    BY DEF NoError
  <2> QED
    BY <1>3, <1>4, <1>9, <2>1, <2>2
<1> QED
  BY <1>7, <1>8, <1>9 DEF NextPhase, Completes

\* A flow is left: what it passed, the command that called it has passed.
LEMMA LeaveTold ==
    ASSUME LedgerInv, LeaveFlow
    PROVE  Told(stack', ledger', reset', next')
<1>1. /\ stack # <<>> /\ Top.kind = "flow" /\ Top \in FlowFrame /\ Top.phase = "leave"
      /\ ScopeError \in AnyError /\ next' = next /\ ledger' = ledger
  BY LeaveCases DEF LedgerInv
<1>2. reset' = reset
  BY DEF LeaveFlow
<1>3. PICK t : t = stack'
  OBVIOUS
<1>4. StandOnce(ledger, reset) /\ Tallied(stack, {}, ledger, reset, next)
  BY <1>1, ToldTop
<1>5. CASE stack' = <<>>
  <2>1. Len(t) = 0
    BY <1>3, <1>5
  <2>2. Tallied(t, {}, ledger, reset, next)
    BY <1>4, <2>1 DEF Tallied, Growing, Linked
  <2>3. Told(t, ledger, reset, next)
    BY <1>4, <2>1, <2>2 DEF Told
  <2> QED
    BY <1>1, <1>2, <1>3, <2>3
<1>6. CASE \E c \in BOOLEAN : Shrunk(Receive(stack[2], ScopeError, c))
  <2>1. PICK c \in BOOLEAN : Shrunk(Receive(stack[2], ScopeError, c))
    BY <1>6
  <2>2. PICK f, d : f = Receive(stack[2], ScopeError, c) /\ d = stack[2]
    OBVIOUS
  <2>3. /\ Stack(stack) /\ 2 \in 1..Len(stack) /\ 2 \in 2..Len(stack) /\ d \in Frame /\ Top = stack[1]
        /\ next \in Nat /\ Len(stack) \in Nat
    BY <1>1, <2>1, <2>2, ToldTop DEF Shrunk, Stack
  <2>4. CallsFlow(stack, 2) = TRUE /\ InHand(stack, 2, {}) = {}
    BY <1>1, <2>3 DEF CallsFlow, InHand, IsCommand
  <2>5. /\ IsCommand(d) /\ Command[d.cmd].linked = Top.flow /\ Top.flow # NoFlow
        /\ Top.seq = d.seq /\ Top.mark = d.mark
    BY <1>4, <2>2, <2>3, <2>4 DEF Tallied, Linked
  <2>6. /\ Steady(d) /\ Accounted(d, TRUE, {}, ledger) /\ d.phase = "running"
        /\ Steady(Top) /\ Accounted(Top, FALSE, {}, ledger) /\ Sound(Top, poisoned, next)
    BY <1>1, <1>4, <2>2, <2>3, <2>4, <2>5, ToldTop, CallersRun DEF Tallied
  <2>7. /\ f \in Frame /\ Fixed(d, f) /\ Steady(f) /\ Accounted(f, TRUE, {}, ledger)
    <3>1. PICK e, called, hand : e = ScopeError /\ called = TRUE /\ hand = {}
      OBVIOUS
    <3>2. /\ e \in AnyError /\ c \in BOOLEAN /\ f = Receive(d, e, c) /\ d \in Frame /\ Steady(d)
          /\ IsCommand(d) => d.phase = "running"
      BY <1>1, <2>1, <2>2, <2>3, <2>6, <3>1
    <3>3. Accounted(d, called, hand, ledger)
      BY <2>6, <3>1
    <3>4. f \in Frame /\ Fixed(d, f) /\ Steady(f) /\ Accounted(f, called, hand, ledger)
      BY <3>2, <3>3, ReceivedSteady
    <3> QED
      BY <3>1, <3>4
  <2>8. ASSUME f.failure = NoError PROVE Pool(f) \subseteq Passed(f, ledger) \cup Coming(f)
    <3>1. Top.failure = NoError
      <4>1. ScopeError = NoError
        BY <2>2, <2>5, <2>8 DEF Receive, IsCommand
      <4> QED
        BY <4>1 DEF ScopeError, AddFailure, Accumulate, FirstError
    <3>2. Coming(Top) = {}
      BY <1>1, <2>6 DEF Coming, Later, Members, Sound
    <3>3. Pool(Top) \subseteq Passed(Top, ledger)
      BY <1>1, <2>6, <3>1, <3>2 DEF Accounted, IsCommand
    <3>4. Pool(f) = Pool(d) /\ Passed(f, ledger) = Passed(d, ledger)
      BY <2>3, <2>7, FixedKeeps
    <3>5. Pool(d) = Pool(Top) /\ Passed(d, ledger) = Passed(Top, ledger)
      <4>1. Pool(d) = Pool(Top)
        BY <1>1, <2>5 DEF Pool, IsCommand
      <4>2. RunRows(d, ledger) = RunRows(Top, ledger)
        BY <2>5 DEF RunRows
      <4> QED
        BY <4>1, <4>2 DEF Passed
    <3> QED
      BY <3>3, <3>4, <3>5
  <2>9. Accounted(f, FALSE, {}, ledger)
    BY <2>7, <2>8 DEF Accounted
  <2>10. /\ Len(stack) = Len(t) + 1 /\ Len(t) # 0 /\ t[1] = f /\ Stack(t)
         /\ \A i \in 2..Len(t) : t[i] = stack[i + 1]
    BY <1>3, <2>1, <2>2, <2>3 DEF Shrunk, Stack
  <2>11. Tallied(t, {}, ledger, reset, next) /\ Standing(t[1], ledger, reset)
    <3>1. Fixed(stack[2], t[1]) /\ Steady(t[1]) /\ Accounted(t[1], FALSE, {}, ledger)
      BY <2>2, <2>7, <2>9, <2>10
    <3> QED
      BY <1>4, <2>3, <2>10, <3>1, TallyShrunk
  <2>12. Told(t, ledger, reset, next)
    BY <1>4, <2>11 DEF Told
  <2> QED
    BY <1>1, <1>2, <1>3, <2>12
<1> QED
  BY <1>5, <1>6, LeaveCases DEF LedgerInv

\* A step of a command that is under way.
LEMMA CommandTold ==
    ASSUME LedgerInv, CommandStep
    PROVE  Told(stack', ledger', reset', next')
<1>1. stack # <<>> /\ Top.kind # "flow" /\ next' = next
  BY CommandCases DEF LedgerInv
<1>2. /\ Sound(Top, poisoned, next) /\ Top \in CommandFrame /\ CallsInv /\ FlowInv /\ Steady(Top)
      /\ Former(Top, ledger, reset) /\ Top = stack[1] /\ IsCommand(Top)
      /\ ~Resetting(Top) => Standing(Top, ledger, reset)
  BY <1>1, ToldTop, FrameKinds DEF IsCommand
<1>3. /\ Top.phase # "running" => Top.todo = <<>>
      /\ Top.phase \notin {"running", "reset"} => Top.failure = NoError /\ ~Resetting(Top)
      /\ Top.kind # "retry" \/ Top.phase # "reset" => ~Resetting(Top)
  BY <1>1, <1>2 DEF Sound, Steady, Resetting
<1>4. /\ Command[Top.cmd].outcomes \subseteq AnyError /\ Command[Top.cmd].evaluation \subseteq AnyError
      /\ Top.failure \in AnyError
  BY <1>1, <1>2, CommandErrors
<1>5. {"cancelled", "integrity", "skipped", NoError} \subseteq AnyError
      /\ "cancelled" # NoError /\ "integrity" # NoError /\ "skipped" # NoError
  BY DEF AnyError, Errors, NoError
<1>6. Immediate(Top) = RunRows(Top, ledger)
  BY <1>1, OwnResults
\* Where nothing ran yet, there is nothing to reset.
<1>7. ASSUME Top.runs = 0
      PROVE  \A r \in ledger : r.parent = Top.seq => r.seq \in reset
  BY <1>2, <1>7 DEF Former
<1>8. ASSUME Top.kind # "leaf", BeginRun, ledger' = ledger, reset' = reset,
             \A r \in ledger : r.parent = Top.seq => r.seq \in reset
      PROVE  Told(stack', ledger', reset', next')
  <2>1. PICK more : more = {}
    OBVIOUS
  <2>2. /\ more \subseteq {r.seq : r \in RunRows(Top, ledger)} /\ reset' = reset \cup more
        /\ \A r \in ledger : r.parent = Top.seq => r.seq \in reset'
    BY <1>8, <2>1
  <2> QED
    BY <1>1, <1>8, <2>2, RunTold
\* The rows of the run that are reset, with those that were before, are all.
<1>9. ASSUME NEW z, \A r \in ledger : r.seq \in reset => r.seq \in z, \A r \in Immediate(Top) : r.seq \in z
      PROVE  \A r \in ledger : r.parent = Top.seq => r.seq \in z
  <2> SUFFICES ASSUME NEW r \in ledger, r.parent = Top.seq PROVE r.seq \in z
    OBVIOUS
  <2>1. r.seq \in Nat /\ Top.mark \in Nat
    BY <1>1, <1>2, ToldTop DEF Tallied, Filed, CommandFrame
  <2>2. CASE r.seq <= Top.mark
    BY <1>2, <1>9, <2>2 DEF Former
  <2>3. CASE r.seq > Top.mark
    BY <1>6, <1>9, <2>3 DEF RunRows
  <2> QED
    BY <2>1, <2>2, <2>3
<1>10. CASE SessionRefuses
  BY <1>1, <1>5, FinishTold, <1>10 DEF SessionRefuses, Quiet
<1>11. CASE Evaluate
  <2>1. reset' = reset /\ Top.phase = "evaluate"
    BY <1>11 DEF Evaluate, TopIs, Quiet
  <2>2. CASE \E e \in Command[Top.cmd].evaluation : Settle(Normalized(e))
    <3>1. PICK e \in Command[Top.cmd].evaluation : Settle(Normalized(e))
      BY <2>2
    <3>2. Normalized(e) \in AnyError
      BY <1>4, Failing
    <3>3. PICK more : more = {}
      OBVIOUS
    <3>4. more \subseteq {r.seq : r \in RunRows(Top, ledger)} /\ reset' = reset \cup more
      BY <2>1, <3>3
    <3> QED
      BY <1>1, <1>3, <2>1, <3>1, <3>2, <3>4, SettleTold
  <2>3. CASE Finish("cancelled")
    BY <1>1, <1>5, <2>1, <2>3, FinishTold
  <2>4. CASE SetTop([Top EXCEPT !.phase = "act"]) /\ UNCHANGED ledger
    BY <1>1, <1>3, <2>1, <2>4, PhaseTold
  <2> QED
    BY <1>11, <2>2, <2>3, <2>4 DEF Evaluate
<1>12. CASE LeafReturns
  <2>1. PICK e \in Command[Top.cmd].outcomes : Finish(e)
    BY <1>12 DEF LeafReturns
  <2>2. reset' = reset /\ Top.phase = "act"
    BY <1>12 DEF LeafReturns, TopIs
  <2> QED
    BY <1>1, <1>3, <1>4, <2>1, <2>2, FinishTold
<1>13. CASE CounterFails
  <2>1. PICK e \in Command[Top.cmd].outcomes : Finish(e)
    BY <1>13 DEF CounterFails
  <2>2. reset' = reset /\ Top.phase = "attempt"
    BY <1>13 DEF CounterFails, TopIs, Quiet
  <2> QED
    BY <1>1, <1>3, <1>4, <2>1, <2>2, FinishTold
<1>14. CASE RetryAttempt
  <2>1. reset' = reset /\ Top.kind = "retry"
    BY <1>14 DEF RetryAttempt, TopIs, Quiet
  <2>2. CASE Finish("cancelled")
    BY <1>1, <1>5, <2>1, <2>2, FinishTold
  <2>3. CASE BeginRun /\ UNCHANGED ledger
    <3>1. \A r \in ledger : r.parent = Top.seq => r.seq \in reset
      <4>1. CASE Top.phase = "attempt"
        BY <1>2, <1>7, <4>1 DEF Steady
      <4>2. CASE Immediate(Top) \subseteq {r \in ledger : r.seq \in reset}
        BY <1>9, <4>2
      <4> QED
        BY <1>14, <4>1, <4>2 DEF RetryAttempt, TopIs
    <3> QED
      BY <1>8, <2>1, <2>3, <3>1
  <2> QED
    BY <1>14, <2>2, <2>3 DEF RetryAttempt
<1>15. CASE RetryAttemptEnds
  <2>1. reset' = reset /\ Top.todo = <<>> /\ Top.phase = "running" /\ ~Resetting(Top)
    BY <1>3, <1>15 DEF RetryAttemptEnds, Quiet, RunEnded
  <2>2. AttemptError(Top) \in AnyError /\ (AttemptError(Top) = NoError => Top.failure = NoError)
    BY <1>4, <1>5 DEF AttemptError, FirstError
  <2>3. CASE Finish(AttemptError(Top))
    BY <1>1, <2>1, <2>2, <2>3, FinishTold
  <2>4. CASE SetTop([Top EXCEPT !.phase = "reset"]) /\ UNCHANGED ledger
    BY <1>1, <2>1, <2>4, PhaseTold
  <2> QED
    BY <1>15, <2>3, <2>4 DEF RetryAttemptEnds
<1>16. CASE ResetChild
  <2>1. PICK r \in Immediate(Top) : reset' = reset \cup {r.seq}
    BY <1>16 DEF ResetChild
  <2>2. PICK more : more = {r.seq}
    OBVIOUS
  <2>3. more \subseteq {q.seq : q \in RunRows(Top, ledger)} /\ reset' = reset \cup more
    BY <1>6, <2>1, <2>2
  <2>4. CASE Finish("cancelled")
    <3>1. Settle(ProductError("cancelled"))
      BY <2>4 DEF Finish
    <3>2. ProductError("cancelled") \in AnyError /\ ProductError("cancelled") # NoError
      BY <1>5, Failing DEF ProductError, Normalized
    <3> QED
      BY <1>1, <2>3, <3>1, <3>2, SettleTold
  <2>5. CASE UNCHANGED <<stack, ledger>>
    <3>1. PICK z : z = reset'
      OBVIOUS
    <3>2. Tallied(stack, {}, ledger, z, next) /\ StandOnce(ledger, z)
      BY <1>1, <1>2, <2>3, <3>1, ToldTop, TallyReset
    <3>3. Resetting(stack[1])
      BY <1>2, <1>16 DEF ResetChild, TopIs, Resetting
    <3>4. Told(stack, ledger, z, next)
      BY <3>2, <3>3 DEF Told
    <3> QED
      BY <1>1, <2>5, <3>1, <3>4
  <2> QED
    BY <1>16, <2>4, <2>5 DEF ResetChild
<1>17. CASE ConditionFails
  <2>1. PICK e \in (IF cancelled THEN {"cancelled"} ELSE Command[Top.cmd].outcomes) : Finish(e)
    BY <1>17 DEF ConditionFails
  <2>2. reset' = reset /\ Top.phase = "condition"
    BY <1>17 DEF ConditionFails, Conditional, Quiet
  <2>3. e \in AnyError
    BY <1>4, <1>5, <2>1
  <2> QED
    BY <1>1, <1>3, <2>1, <2>2, <2>3, FinishTold
<1>18. CASE ConditionFalse
  <2>1. PICK e \in {"skipped", NoError} : Finish(e)
    BY <1>18 DEF ConditionFalse
  <2>2. reset' = reset /\ Top.phase = "condition"
    BY <1>18 DEF ConditionFalse, Conditional, Quiet
  <2> QED
    BY <1>1, <1>3, <1>5, <2>1, <2>2, FinishTold
<1>19. CASE ConditionTrue
  <2>1. reset' = reset /\ ledger' = ledger /\ Top.phase = "condition" /\ Top.kind # "leaf"
    BY <1>1, <1>2, <1>19 DEF ConditionTrue, Conditional, Quiet, Sound
  <2>2. CASE Top.runs = 0 /\ BeginRun
    BY <1>7, <1>8, <2>1, <2>2
  <2>3. CASE SetTop([Top EXCEPT !.phase = "wait"])
    BY <1>1, <1>3, <2>1, <2>3, PhaseTold
  <2> QED
    BY <1>19, <2>2, <2>3 DEF ConditionTrue
<1>20. CASE RepeatWait
  <2>1. CASE Finish("cancelled") /\ UNCHANGED reset
    BY <1>1, <1>5, <2>1, FinishTold
  <2>2. CASE reset' = reset \cup {r.seq : r \in Immediate(Top)} /\ BeginRun /\ UNCHANGED ledger
    <3>1. PICK more : more = {r.seq : r \in Immediate(Top)}
      OBVIOUS
    <3>2. Top.kind \notin {"flow", "leaf"}
      BY <1>20 DEF RepeatWait, TopIs
    <3>3. \A r \in ledger : r.parent = Top.seq => r.seq \in reset'
      <4>1. PICK z : z = reset'
        OBVIOUS
      <4>2. /\ \A r \in ledger : r.seq \in reset => r.seq \in z
            /\ \A r \in Immediate(Top) : r.seq \in z
        BY <2>2, <4>1
      <4> QED
        BY <1>9, <4>1, <4>2
    <3>4. more \subseteq {r.seq : r \in RunRows(Top, ledger)} /\ reset' = reset \cup more
      BY <1>6, <2>2, <3>1
    <3> QED
      BY <1>1, <2>2, <3>2, <3>3, <3>4, RunTold
  <2> QED
    BY <1>20, <2>1, <2>2 DEF RepeatWait
<1>21. CASE RepeatRunEnds
  <2>1. reset' = reset /\ Top.todo = <<>> /\ Top.phase = "running" /\ ~Resetting(Top)
    BY <1>3, <1>21 DEF RepeatRunEnds, Quiet, RunEnded
  <2>2. CASE Finish(Top.failure)
    BY <1>1, <1>4, <2>1, <2>2, FinishTold
  <2>3. CASE Top.failure = NoError /\ SetTop([Top EXCEPT !.phase = "condition"]) /\ UNCHANGED ledger
    BY <1>1, <2>1, <2>3, PhaseTold
  <2> QED
    BY <1>21, <2>2, <2>3 DEF RepeatRunEnds
<1>22. CASE RunFlowEnds
  <2>1. reset' = reset /\ Top.todo = <<>> /\ Top.phase = "running" /\ ~Resetting(Top)
    BY <1>3, <1>22 DEF RunFlowEnds, Quiet, RunEnded
  <2> QED
    BY <1>1, <1>4, <1>22, <2>1, FinishTold DEF RunFlowEnds
<1> QED
  BY <1>10, <1>11, <1>12, <1>13, <1>14, <1>15, <1>16, <1>17, <1>18, <1>19, <1>20, <1>21, <1>22
  DEF CommandStep

LEMMA LedgerInit == Init => LedgerInv
<1> SUFFICES ASSUME Init
             PROVE  LedgerInv
  OBVIOUS
<1>1. PICK root \in Roots : stack = <<EnterFrame(root, 0, 0)>>
  BY DEF Init
<1> DEFINE f == EnterFrame(root, 0, 0)
<1>2. /\ f.kind = "flow" /\ f.failure = NoError /\ f.mark = 0 /\ f.seq = 0 /\ f.todo = <<>>
      /\ f.phase = "enter" /\ ~f.halted /\ f.flow = root
  BY DEF Init, EnterFrame
<1> HIDE DEF f
<1>3. Len(stack) = 1 /\ stack[1] = f /\ ledger = {} /\ reset = {} /\ next = 0
  BY <1>1 DEF Init, f
<1>4. Members(<<>>) = {} /\ Once(<<>>) /\ ~IsCommand(f)
  BY <1>2 DEF Members, Once, IsCommand
<1>5. RunRows(f, {}) = {} /\ Passed(f, {}) = {}
  BY DEF RunRows, Passed
<1>6. Coming(f) = Pool(f)
  BY <1>2, <1>4 DEF Coming, Later, Pool
<1>7. /\ Steady(f) /\ Former(f, {}, {}) /\ Outside(f, {}) /\ Accounted(f, FALSE, {}, {})
      /\ Standing(f, {}, {})
  BY <1>2, <1>4, <1>5, <1>6 DEF Steady, Former, Outside, Accounted, Standing
<1>8. Growing(stack, 0) /\ Linked(stack) /\ Filed({}, {}, 0)
  BY <1>2, <1>3 DEF Growing, Linked, Filed, CallsFlow
<1>9. CallsFlow(stack, 1) = FALSE /\ InHand(stack, 1, {}) = {}
  BY DEF CallsFlow, InHand
<1>10. Tallied(stack, {}, {}, {}, 0)
  <2>1. ASSUME NEW i \in 1..Len(stack)
        PROVE  /\ Steady(stack[i]) /\ Former(stack[i], {}, {}) /\ Outside(stack[i], {})
               /\ Accounted(stack[i], CallsFlow(stack, i), InHand(stack, i, {}), {})
    <3>1. i = 1
      BY <1>3
    <3> QED
      BY <1>3, <1>7, <1>9, <3>1
  <2>2. \A i \in 2..Len(stack) : Standing(stack[i], {}, {})
    BY <1>3
  <2> QED
    BY <1>8, <2>1, <2>2 DEF Tallied
<1>11. StandOnce({}, {})
  BY DEF StandOnce
<1> QED
  BY <1>3, <1>7, <1>10, <1>11, CallsInit DEF LedgerInv, Told

LEMMA LedgerNext == LedgerInv /\ [Next]_vars => LedgerInv'
<1> SUFFICES ASSUME LedgerInv, [Next]_vars
             PROVE  LedgerInv'
  OBVIOUS
<1>1. CallsInv' /\ Told(stack, ledger, reset, next)
  BY CallsNext DEF LedgerInv
<1>2. CASE Cancel \/ UNCHANGED vars
  <2>1. stack' = stack /\ ledger' = ledger /\ reset' = reset /\ next' = next
    BY <1>2 DEF Cancel, vars
  <2> QED
    BY <1>1, <2>1 DEF LedgerInv
<1>3. CASE StartCommand \/ EnterFlow \/ NextPhase \/ LeaveFlow \/ CommandStep
  <2>1. Told(stack', ledger', reset', next')
    BY <1>3, StartTold, EnterTold, NextPhaseTold, LeaveTold, CommandTold
  <2> QED
    BY <1>1, <2>1 DEF LedgerInv
<1> QED
  BY <1>2, <1>3 DEF Next, Step, CommandStep

\* Among the results of one command in one composite the older ones are reset, and a
\* composite that completed has not reset the results of its last run, for every program
\* whose positions are places (resetCommand in executeRetry and executeRepeat).
THEOREM ResultsStand == Spec => []ResultsStandOnce
<1>1. LedgerInv => ResultsStandOnce
  BY DEF LedgerInv, Told, StandOnce, ResultsStandOnce
<1> QED
  BY <1>1, LedgerInit, LedgerNext, PTL DEF Spec
=============================================================================
