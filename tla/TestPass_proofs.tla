---------------------------- MODULE TestPass_proofs ----------------------------
(***************************************************************************)
(* What a pass of flowbaton test promises, for every value of the          *)
(* constants: the program it compiles is whole (ProgramClosure), the       *)
(* errors it meets are read for the worst of their causes (ErrorClass),    *)
(* and its verdict covers all that was planned (TestRun).                  *)
(*                                                                         *)
(* The models compute with loops: the lists of a flow and of a plan, the   *)
(* classes of an error's parts, the levels of the traversal.  Recursion    *)
(* gives such a loop a history, and what holds of it is shown turn by turn.*)
(***************************************************************************)
EXTENDS ProgramClosure, ErrorClass, TestRun, Recursion, SequenceTheorems, FiniteSetTheorems, TLAPS

-----------------------------------------------------------------------------
(* Lists                                                                   *)

LEMMA ListFacts ==
    ASSUME NEW s, Listed(s)
    PROVE  /\ Len(s) \in Nat /\ DOMAIN s = 1..Len(s) /\ s \in Seq(ToSet(s))
           /\ s = <<>> <=> Len(s) = 0
           /\ \A i \in 1..Len(s) : s[i] \in ToSet(s)
           /\ \A e \in ToSet(s) : \E i \in 1..Len(s) : s[i] = e
<1>1. s \in Seq(ToSet(s))
  BY DEF Listed
<1>2. Len(s) \in Nat /\ DOMAIN s = 1..Len(s)
  BY <1>1, LenProperties
<1>3. s = <<>> <=> Len(s) = 0
  BY <1>1, EmptySeq
<1> QED
  BY <1>1, <1>2, <1>3 DEF ToSet

\* A sequence over any set is a list.
LEMMA ListedOver ==
    ASSUME NEW S, NEW s \in Seq(S)
    PROVE  Listed(s) /\ ToSet(s) \subseteq S
<1>1. Len(s) \in Nat /\ DOMAIN s = 1..Len(s) /\ s \in [1..Len(s) -> S]
  BY LenProperties
<1> DEFINE n == Len(s)
<1> HIDE DEF n
<1>2. n \in Nat /\ DOMAIN s = 1..n /\ s \in [1..n -> S]
  BY <1>1 DEF n
<1>3. s \in [1..n -> ToSet(s)] /\ ToSet(s) \subseteq S
  BY <1>2 DEF ToSet
<1>4. s \in Seq(ToSet(s))
  BY <1>2, <1>3, SeqDef
<1> QED
  BY <1>3, <1>4 DEF Listed

LEMMA EmptyListed == Listed(<<>>) /\ ToSet(<<>>) = {} /\ Len(<<>>) = 0
<1>1. <<>> \in Seq({}) /\ Len(<<>>) = 0
  BY EmptySeq
<1>2. \A S : <<>> \in Seq(S) => Listed(<<>>) /\ ToSet(<<>>) \subseteq S
  BY ListedOver
<1>3. Listed(<<>>) /\ ToSet(<<>>) \subseteq {}
  BY <1>1, <1>2
<1> QED
  BY <1>1, <1>3

LEMMA AppendListed ==
    ASSUME NEW s, Listed(s), NEW e
    PROVE  LET t == Append(s, e)
           IN  /\ Listed(t) /\ t # <<>> /\ Len(t) = Len(s) + 1 /\ t[Len(s) + 1] = e
               /\ \A i \in 1..Len(s) : t[i] = s[i]
               /\ ToSet(t) = ToSet(s) \cup {e}
<1> DEFINE S == ToSet(s) \cup {e}
           t == Append(s, e)
<1>1. s \in Seq(S)
  BY ListFacts, SeqMonotonic
<1>2. /\ t \in Seq(S) /\ t # <<>> /\ Len(t) = Len(s) + 1 /\ t[Len(s) + 1] = e
      /\ \A i \in 1..Len(s) : t[i] = s[i]
  <2> HIDE DEF S
  <2> QED
    BY <1>1, AppendProperties DEF S
<1> HIDE DEF t
<1>3. Listed(t) /\ ToSet(t) \subseteq S
  BY <1>2, ListedOver
<1>4. S \subseteq ToSet(t)
  <2>1. Len(s) \in Nat /\ DOMAIN t = 1..Len(t) /\ DOMAIN s = 1..Len(s)
    BY <1>3, ListFacts
  <2>2. ASSUME NEW x \in S PROVE \E i \in 1..Len(t) : t[i] = x
    <3>1. CASE x = e
      <4>1. Len(s) + 1 \in 1..Len(t)
        BY <1>2, <2>1
      <4> QED
        BY <1>2, <3>1, <4>1
    <3>2. CASE x # e
      <4>1. PICK i \in 1..Len(s) : s[i] = x
        BY <3>2, ListFacts
      <4>2. i \in 1..Len(t)
        BY <1>2, <2>1
      <4> QED
        BY <1>2, <4>1, <4>2
    <3> QED
      BY <3>1, <3>2
  <2> QED
    BY <2>1, <2>2 DEF ToSet
<1> QED
  BY <1>2, <1>3, <1>4 DEF t

LEMMA SingleListed ==
    ASSUME NEW e
    PROVE  Listed(<<e>>) /\ Len(<<e>>) = 1 /\ <<e>>[1] = e /\ <<e>> # <<>> /\ ToSet(<<e>>) = {e}
<1>1. <<e>> \in Seq({e})
  OBVIOUS
<1>2. Listed(<<e>>) /\ ToSet(<<e>>) \subseteq {e} /\ Len(<<e>>) = 1 /\ <<e>>[1] = e
  BY <1>1, ListedOver
<1>3. e \in ToSet(<<e>>)
  BY <1>2, ListFacts
<1> QED
  BY <1>2, <1>3, EmptyListed

LEMMA TailListed ==
    ASSUME NEW s, Listed(s), s # <<>>
    PROVE  Listed(Tail(s)) /\ ToSet(s) = {Head(s)} \cup ToSet(Tail(s))
<1>1. /\ Tail(s) \in Seq(ToSet(s)) /\ Len(Tail(s)) = Len(s) - 1
      /\ \A i \in 1..Len(Tail(s)) : Tail(s)[i] = s[i + 1]
  BY ListFacts, HeadTailProperties
<1>2. Listed(Tail(s)) /\ ToSet(Tail(s)) \subseteq ToSet(s)
  BY <1>1, ListedOver
<1>3. Len(s) \in Nat /\ Len(s) # 0 /\ 1 \in 1..Len(s) /\ Head(s) = s[1] /\ s[1] \in ToSet(s)
  <2>1. Len(s) \in Nat /\ Len(s) # 0
    BY ListFacts
  <2>2. 1 \in 1..Len(s)
    BY <2>1
  <2>3. s = <<>> \/ Head(s) = s[1]
    BY ListFacts
  <2> QED
    BY <2>1, <2>2, <2>3, ListFacts
<1>4. ASSUME NEW e \in ToSet(s) PROVE e \in {Head(s)} \cup ToSet(Tail(s))
  <2>1. PICK i \in 1..Len(s) : s[i] = e
    BY ListFacts
  <2>2. CASE i = 1
    BY <1>3, <2>1, <2>2
  <2>3. CASE i # 1
    <3>1. i - 1 \in 1..Len(Tail(s)) /\ (i - 1) + 1 = i
      BY <1>1, <1>3, <2>3
    <3>2. Tail(s)[i - 1] = e
      BY <1>1, <2>1, <3>1
    <3> QED
      BY <1>2, <3>1, <3>2, ListFacts
  <2> QED
    BY <2>2, <2>3
<1> QED
  BY <1>2, <1>3, <1>4

LEMMA FrontListed ==
    ASSUME NEW s, Listed(s), s # <<>>
    PROVE  LET t == Front(s)
           IN  Listed(t) /\ Len(t) = Len(s) - 1 /\ \A i \in 1..(Len(s) - 1) : t[i] = s[i]
<1>1. Len(s) \in Nat /\ Len(s) # 0 /\ \A i \in 1..(Len(s) - 1) : i \in 1..Len(s)
  BY ListFacts
<1>2. Len(s) - 1 \in Int /\ \A i \in 1..(Len(s) - 1) : s[i] \in ToSet(s)
  BY <1>1, ListFacts
<1> DEFINE n == Len(s) - 1
           t == SubSeq(s, 1, n)
<1> HIDE DEF n
<1>3. n \in Nat /\ n \in Int /\ 1 \in Int /\ \A i \in 1..n : s[i] \in ToSet(s)
  BY <1>1, <1>2 DEF n
<1>4. /\ t \in Seq(ToSet(s)) /\ Len(t) = IF 1 <= n THEN n - 1 + 1 ELSE 0
      /\ \A i \in 1..n - 1 + 1 : t[i] = s[1 + i - 1]
  BY <1>3, SubSeqProperties
<1>5. Len(t) = n /\ \A i \in 1..n : t[i] = s[i]
  BY <1>3, <1>4
<1>6. Front(s) = t
  BY DEF Front, n
<1> HIDE DEF t
<1> QED
  BY <1>4, <1>5, <1>6, ListedOver DEF n

LEMMA ReplacedListed ==
    ASSUME NEW s, Listed(s), NEW n \in 1..Len(s), NEW e
    PROVE  LET t == [s EXCEPT ![n] = e]
           IN  Listed(t) /\ Len(t) = Len(s) /\ t[n] = e /\ \A i \in 1..Len(s) : i # n => t[i] = s[i]
<1> DEFINE S == ToSet(s) \cup {e}
           t == [s EXCEPT ![n] = e]
<1>1. s \in Seq(S) /\ e \in S
  BY ListFacts, SeqMonotonic
<1> HIDE DEF S
<1>2. /\ t \in Seq(S) /\ Len(t) = Len(s) /\ \A i \in 1..Len(s) : t[i] = IF i = n THEN e ELSE s[i]
  BY <1>1, ExceptSeq
<1> HIDE DEF t
<1>3. Listed(t)
  BY <1>2, ListedOver
<1> QED
  BY <1>2, <1>3 DEF t

\* The lengths of the first lists, added up.
Adds(n, produced, parts) ==
    produced[0] = 0 /\ \A i \in 1..n : produced[i] = produced[i - 1] + Len(parts[i])

\* The results of the shards, one shard after the other.
LEMMA FlattenLength ==
    ASSUME NEW S, NEW n \in Nat, NEW parts \in [1..n -> Seq(S)],
           NEW produced, Adds(n, produced, parts)
    PROVE  FlattenSeq(parts) \in Seq(S) /\ Len(FlattenSeq(parts)) = produced[n]
<1>1. parts \in Seq(Seq(S)) /\ Len(parts) = n
  BY IsASeq, LenProperties
<1>2. produced[0] = 0 /\ \A i \in 1..n : produced[i] = produced[i - 1] + Len(parts[i])
  BY DEF Adds
<1>3. CASE n = 0
  BY <1>1, <1>2, <1>3, EmptySeq DEF FlattenSeq
<1>4. CASE n # 0
  <2> DEFINE Body(f) == [i \in 1..n |-> IF i = 1 THEN parts[i] ELSE f[i - 1] \o parts[i]]
             flat == CHOOSE f : f = Body(f)
  <2>1. FlattenSeq(parts) = flat[n]
    BY <1>1, <1>4 DEF FlattenSeq
  <2>2. \E f : f = Body(f)
    <3> DEFINE Turn == [i \in 1..n |-> [v \in Seq(S) |-> IF i = 1 THEN parts[i] ELSE v \o parts[i]]]
    <3>1. \A i \in 1..n, v \in Seq(S) : /\ Turn[i][v] = IF i = 1 THEN parts[i] ELSE v \o parts[i]
                                        /\ Turn[i][v] \in Seq(S)
      BY ConcatProperties
    <3> HIDE DEF Turn
    <3>2. PICK h : History(n, Seq(S), <<>>, Turn, h)
      <4>1. Loop(n, Seq(S), Turn) /\ <<>> \in Seq(S)
        BY <3>1 DEF Loop
      <4> QED
        BY <4>1, HistoryExists
    <3>3. h \in [0..n -> Seq(S)] /\ \A i \in 1..n : h[i] = Turn[i][h[i - 1]]
      BY <3>2 DEF History
    <3>4. ASSUME NEW i \in 1..n PROVE h[i] = IF i = 1 THEN parts[i] ELSE h[i - 1] \o parts[i]
      <4>1. i - 1 \in 0..n
        OBVIOUS
      <4>2. h[i - 1] \in Seq(S) /\ h[i] = Turn[i][h[i - 1]]
        BY <3>3, <4>1
      <4> QED
        BY <3>1, <4>2
    <3> DEFINE f == [i \in 1..n |-> h[i]]
    <3>5. \A i \in 1..n : f[i] = IF i = 1 THEN parts[i] ELSE f[i - 1] \o parts[i]
      <4> TAKE i \in 1..n
      <4>1. CASE i = 1
        BY <3>4, <4>1
      <4>2. CASE i # 1
        <5>1. i - 1 \in 1..n
          BY <4>2
        <5> QED
          BY <3>4, <4>2, <5>1
      <4> QED
        BY <4>1, <4>2
    <3>6. f = [i \in 1..n |-> f[i]]
      OBVIOUS
    <3> HIDE DEF f
    <3>7. f = Body(f)
      BY <3>5, <3>6
    <3> QED
      BY <3>7
  <2>3. flat = Body(flat)
    BY <2>2
  <2> HIDE DEF flat
  <2>4. \A i \in 1..n : flat[i] = IF i = 1 THEN parts[i] ELSE flat[i - 1] \o parts[i]
    BY <2>3
  <2> DEFINE Right(i) == flat[i] \in Seq(S) /\ Len(flat[i]) = produced[i]
             N == {i \in Nat : i + 1 <= n => Right(i + 1)}
  <2>5. 0 \in N
    <3>1. 1 \in 1..n /\ 1 - 1 = 0
      BY <1>4
    <3>2. flat[1] = parts[1] /\ produced[1] = produced[0] + Len(parts[1]) /\ Len(parts[1]) \in Nat
      BY <1>2, <2>4, <3>1, LenProperties
    <3> QED
      BY <1>2, <3>1, <3>2
  <2>6. ASSUME NEW i \in Nat, i \in N PROVE i + 1 \in N
    <3> SUFFICES ASSUME (i + 1) + 1 <= n PROVE Right((i + 1) + 1)
      OBVIOUS
    <3>1. i + 1 \in 1..n /\ (i + 1) + 1 \in 1..n /\ (i + 1) + 1 # 1 /\ ((i + 1) + 1) - 1 = i + 1 /\ Right(i + 1)
      BY <2>6
    <3>2. flat[(i + 1) + 1] = flat[i + 1] \o parts[(i + 1) + 1] /\ parts[(i + 1) + 1] \in Seq(S)
      BY <2>4, <3>1
    <3>3. produced[(i + 1) + 1] = produced[i + 1] + Len(parts[(i + 1) + 1])
      BY <1>2, <3>1
    <3>4. \A u, v \in Seq(S) : u \o v \in Seq(S) /\ Len(u \o v) = Len(u) + Len(v)
      BY ConcatProperties
    <3> QED
      BY <3>1, <3>2, <3>3, <3>4
  <2>7. \A i \in Nat : i \in N
    <3> HIDE DEF N
    <3> QED
      BY <2>5, <2>6, Induction
  <2>8. n - 1 \in N /\ (n - 1) + 1 = n /\ n <= n
    <3>1. n - 1 \in Nat
      BY <1>4
    <3> HIDE DEF N
    <3> QED
      BY <2>7, <3>1
  <2>9. Right(n)
    <3> HIDE DEF Right
    <3> QED
      BY <2>8
  <2> QED
    BY <2>1, <2>9
<1> QED
  BY <1>3, <1>4

\* Counting a number for each of n shards comes to an end.
LEMMA CountExists ==
    ASSUME NEW n \in Nat, NEW lists, \A i \in 1..n : Len(lists[i]) \in Nat
    PROVE  \E f : f = [i \in 0..n |-> IF i = 0 THEN 0 ELSE f[i - 1] + Len(lists[i])]
<1> DEFINE Turn == [i \in 1..n |-> [v \in Nat |-> v + Len(lists[i])]]
<1>1. \A i \in 1..n, v \in Nat : Turn[i][v] = v + Len(lists[i]) /\ Turn[i][v] \in Nat
  OBVIOUS
<1> HIDE DEF Turn
<1>2. PICK f : History(n, Nat, 0, Turn, f)
  <2>1. Loop(n, Nat, Turn) /\ 0 \in Nat
    BY <1>1 DEF Loop
  <2> QED
    BY <2>1, HistoryExists
<1>3. f \in [0..n -> Nat] /\ f[0] = 0 /\ \A i \in 1..n : f[i] = Turn[i][f[i - 1]]
  BY <1>2 DEF History
<1>4. \A i \in 0..n : f[i] = IF i = 0 THEN 0 ELSE f[i - 1] + Len(lists[i])
  <2> TAKE i \in 0..n
  <2>1. CASE i = 0
    BY <1>3, <2>1
  <2>2. CASE i # 0
    <3>1. i \in 1..n /\ i - 1 \in 0..n
      BY <2>2
    <3>2. f[i - 1] \in Nat /\ f[i] = Turn[i][f[i - 1]]
      BY <1>3, <3>1
    <3> QED
      BY <1>1, <2>2, <3>1, <3>2
  <2> QED
    BY <2>1, <2>2
<1>5. f = [i \in 0..n |-> IF i = 0 THEN 0 ELSE f[i - 1] + Len(lists[i])]
  BY <1>3, <1>4
<1> QED
  BY <1>5

\* The elements of lists, one list after the other.
LEMMA FlattenListed ==
    ASSUME NEW S, NEW n \in Nat, NEW parts, DOMAIN parts = 1..n, parts = [i \in 1..n |-> parts[i]],
           \A i \in 1..n : parts[i] \in Seq(S)
    PROVE  FlattenSeq(parts) \in Seq(S)
<1>1. parts \in [1..n -> Seq(S)]
  OBVIOUS
<1>2. \A i \in 1..n : Len(parts[i]) \in Nat
  BY LenProperties
<1>3. PICK f : f = [i \in 0..n |-> IF i = 0 THEN 0 ELSE f[i - 1] + Len(parts[i])]
  BY <1>2, CountExists
<1>4. Adds(n, f, parts)
  <2>1. 0 \in 0..n /\ \A i \in 1..n : i \in 0..n /\ i # 0
    OBVIOUS
  <2> QED
    BY <1>3, <2>1 DEF Adds
<1> QED
  BY <1>1, <1>4, FlattenLength

-----------------------------------------------------------------------------
(* Flows                                                                   *)

RefusalCodes == {"unsupported_capability", "unsupported_platform"}

LEMMA RefusalListed ==
    /\ \A feature, platform : Refusal(feature, platform) \in Seq(RefusalCodes)
    /\ <<"unsupported_platform">> \in Seq(RefusalCodes)
<1> DEFINE one == <<"unsupported_capability">>
           other == <<"unsupported_platform">>
<1>1. one \in Seq(RefusalCodes) /\ other \in Seq(RefusalCodes) /\ <<>> \in Seq(RefusalCodes)
  <2>1. "unsupported_capability" \in RefusalCodes /\ "unsupported_platform" \in RefusalCodes
    BY DEF RefusalCodes
  <2> QED
    BY <2>1
<1>2. ASSUME NEW feature, NEW platform PROVE Refusal(feature, platform) \in {one, other, <<>>}
  BY DEF Refusal
<1> HIDE DEF one, other
<1>3. \A feature, platform : Refusal(feature, platform) \in Seq(RefusalCodes)
  BY <1>1, <1>2
<1> QED
  BY <1>1, <1>3 DEF other

LEMMA RefusalsListed ==
    ASSUME NEW features, Listed(features), NEW platform
    PROVE  RefusalsOf(features, platform) \in Seq(RefusalCodes)
<1> DEFINE n == Len(features)
           parts == [i \in DOMAIN features |-> Refusal(features[i], platform)]
<1>1. n \in Nat /\ DOMAIN features = 1..n
  BY ListFacts
<1>2. \A feature : Refusal(feature, platform) \in Seq(RefusalCodes)
  BY RefusalListed
<1>3. DOMAIN parts = 1..n /\ parts = [i \in 1..n |-> parts[i]] /\ \A i \in 1..n : parts[i] \in Seq(RefusalCodes)
  BY <1>1, <1>2
<1>4. RefusalsOf(features, platform) = FlattenSeq(parts)
  BY DEF RefusalsOf
<1> HIDE DEF parts, n
<1> QED
  BY <1>1, <1>3, <1>4, FlattenListed

LEMMA ConditionListed ==
    ASSUME NEW c, Listed(c.sees), NEW platform
    PROVE  InspectCondition(c, platform) \in Seq(RefusalCodes)
<1> DEFINE features == (IF c.when = "web" THEN <<"web">> ELSE <<>>) \o c.sees
           S == {"web"} \cup ToSet(c.sees)
<1>1. c.sees \in Seq(S) /\ <<"web">> \in Seq(S) /\ <<>> \in Seq(S)
  <2>1. "web" \in S
    OBVIOUS
  <2>2. c.sees \in Seq(ToSet(c.sees)) /\ ToSet(c.sees) \subseteq S
    BY ListFacts
  <2> HIDE DEF S
  <2> QED
    BY <2>1, <2>2, SeqMonotonic
<1> HIDE DEF S
<1>2. features \in Seq(S)
  BY <1>1, ConcatProperties
<1>3. Listed(features)
  BY <1>2, ListedOver
<1> QED
  BY <1>3, RefusalsListed DEF InspectCondition

LEMMA OneListed ==
    ASSUME NEW c, Listed(c.sees), Listed(c.finds), NEW platform
    PROVE  InspectOne(c, platform) \in Seq(RefusalCodes)
<1>1. <<>> \in Seq(RefusalCodes) /\ \A q : InspectCondition(c, q) \in Seq(RefusalCodes)
  BY ConditionListed
<1>2. RefusalsOf(c.finds, platform) \in Seq(RefusalCodes)
  BY RefusalsListed
<1>3. InspectCommand(c, platform) \in Seq(RefusalCodes)
  <2>1. Refusal(c.feature, platform) \in Seq(RefusalCodes) /\ <<"unsupported_platform">> \in Seq(RefusalCodes)
    BY RefusalListed
  <2> QED
    BY <1>1, <2>1, ConcatProperties DEF InspectCommand
<1>4. InspectCommand(c, platform) \o InspectCondition(c, platform) \o RefusalsOf(c.finds, platform)
        \in Seq(RefusalCodes)
  <2>1. InspectCommand(c, platform) \o InspectCondition(c, platform) \in Seq(RefusalCodes)
    BY <1>1, <1>3, ConcatProperties
  <2> QED
    BY <1>2, <2>1, ConcatProperties
<1> QED
  BY <1>1, <1>4 DEF InspectOne

\* The commands of a flow, hooks included.
LEMMA CommandsListed ==
    ASSUME NEW f, FlowListed(f)
    PROVE  /\ Listed(Commands(f))
           /\ \A c \in ToSet(Commands(f)) : Listed(c.sees) /\ Listed(c.finds) /\ Listed(c.links)
           /\ \A c \in ToSet(Commands(f)) : \A link \in ToSet(c.links) : link.to \in Paths
<1> DEFINE S == ToSet(f.onStart) \cup ToSet(f.body) \cup ToSet(f.onComplete)
<1>1. f.onStart \in Seq(S) /\ f.body \in Seq(S) /\ f.onComplete \in Seq(S)
  <2>1. /\ Listed(f.onStart) /\ Listed(f.body) /\ Listed(f.onComplete)
        /\ ToSet(f.onStart) \subseteq S /\ ToSet(f.body) \subseteq S /\ ToSet(f.onComplete) \subseteq S
    BY DEF FlowListed
  <2> HIDE DEF S
  <2> QED
    BY <2>1, ListFacts, SeqMonotonic
<1>2. \A c \in S : /\ Listed(c.sees) /\ Listed(c.finds) /\ Listed(c.links)
                   /\ \A link \in ToSet(c.links) : link.to \in Paths
  BY DEF FlowListed
<1> HIDE DEF S
<1>3. Commands(f) \in Seq(S)
  <2>1. f.onStart \o f.body \in Seq(S)
    BY <1>1, ConcatProperties
  <2> QED
    BY <1>1, <2>1, ConcatProperties DEF Commands
<1>4. Listed(Commands(f)) /\ ToSet(Commands(f)) \subseteq S
  BY <1>3, ListedOver
<1> QED
  BY <1>2, <1>4

LEMMA LinksListed ==
    ASSUME NEW f, FlowListed(f)
    PROVE  Listed(CollectLinks(f)) /\ \A link \in ToSet(CollectLinks(f)) : link.to \in Paths
<1> DEFINE cs == Commands(f)
           S == UNION {ToSet(c.links) : c \in ToSet(cs)}
           n == Len(cs)
           parts == [i \in DOMAIN cs |-> cs[i].links]
<1>1. n \in Nat /\ DOMAIN cs = 1..n /\ \A i \in 1..n : cs[i] \in ToSet(cs)
  BY CommandsListed, ListFacts
<1>2. \A link \in S : link.to \in Paths
  BY CommandsListed
<1>3. \A c \in ToSet(cs) : c.links \in Seq(S)
  <2>1. \A c \in ToSet(cs) : c.links \in Seq(ToSet(c.links)) /\ ToSet(c.links) \subseteq S
    BY CommandsListed, ListFacts
  <2> HIDE DEF S
  <2> QED
    BY <2>1, SeqMonotonic
<1> HIDE DEF S, n, cs
<1>4. DOMAIN parts = 1..n /\ parts = [i \in 1..n |-> parts[i]] /\ \A i \in 1..n : parts[i] \in Seq(S)
  BY <1>1, <1>3
<1>5. CollectLinks(f) = FlattenSeq(parts)
  BY DEF CollectLinks, cs
<1> HIDE DEF parts
<1>6. CollectLinks(f) \in Seq(S)
  BY <1>1, <1>4, <1>5, FlattenListed
<1>7. Listed(CollectLinks(f)) /\ ToSet(CollectLinks(f)) \subseteq S
  BY <1>6, ListedOver
<1> QED
  BY <1>2, <1>7

\* A flow that is not refused, and has no URL, holds no command that is refused.
LEMMA InspectListed ==
    ASSUME NEW f, FlowListed(f), NEW platform
    PROVE  /\ InspectFlow(f, platform) \in Seq(RefusalCodes)
           /\ InspectFlow(f, platform) = <<>> /\ ~f.url => InspectCommands(Commands(f), platform) = <<>>
<1> DEFINE cs == Commands(f)
           n == Len(cs)
           parts == [i \in DOMAIN cs |-> InspectOne(cs[i], platform)]
<1>1. n \in Nat /\ DOMAIN cs = 1..n /\ \A i \in 1..n : cs[i] \in ToSet(cs)
  BY CommandsListed, ListFacts
<1>2. \A c \in ToSet(cs) : InspectOne(c, platform) \in Seq(RefusalCodes)
  BY CommandsListed, OneListed
<1> HIDE DEF n, cs
<1>3. DOMAIN parts = 1..n /\ parts = [i \in 1..n |-> parts[i]] /\ \A i \in 1..n : parts[i] \in Seq(RefusalCodes)
  BY <1>1, <1>2
<1>4. InspectCommands(cs, platform) = FlattenSeq(parts)
  BY DEF InspectCommands
<1> HIDE DEF parts
<1>5. InspectCommands(cs, platform) \in Seq(RefusalCodes)
  BY <1>1, <1>3, <1>4, FlattenListed
<1>6. RefusalsOf(f.ext, platform) \in Seq(RefusalCodes) /\ Refusal("url", platform) \in Seq(RefusalCodes)
  BY RefusalListed, RefusalsListed DEF FlowListed
<1>7. RefusalsOf(f.ext, platform) \o InspectCommands(cs, platform) \in Seq(RefusalCodes)
  BY <1>5, <1>6, ConcatProperties
<1>8. RefusalsOf(f.ext, platform) \o InspectCommands(cs, platform) = <<>> => InspectCommands(cs, platform) = <<>>
  BY <1>5, <1>6, ConcatEqualIffEmpty
<1> QED
  BY <1>6, <1>7, <1>8 DEF InspectFlow, cs

-----------------------------------------------------------------------------
(* What a preflight knows                                                  *)

\* What a link stands for, as the walk found it, and links that were followed.
Targets(p) == {canon[link.to].path : link \in {l \in FlowLinks(p) : l.to \in DOMAIN canon}}
Followed(p, link) == link.to \in DOMAIN canon /\ canon[link.to].path \in Children(p)

CanonCodes == {"none", "directory_link", "non_regular_link", "missing_link", "link_error"}

FilesInv ==
    /\ selection \in Selections
    /\ DOMAIN files = Paths /\ \A p \in Paths : Held(files[p])

CanonInv == \A p \in DOMAIN canon : canon[p].path \in Paths /\ canon[p].code \in CanonCodes

\* Each flow was read once, and was not refused.
ReadInv ==
    /\ Listed(read)
    /\ \A i \in 1..Len(read) :
          /\ read[i].path \in Paths /\ FlowListed(read[i].flow)
          /\ InspectFlow(read[i].flow, selection.platform) = <<>>
    /\ \A i, j \in 1..Len(read) : read[i].path = read[j].path => i = j

\* The flows the walk has left: what they link was left before them, so that the links
\* among them have no cycle.
BlackInv ==
    /\ Listed(edges) /\ \A e \in ToSet(edges) : e.from \in ReadPaths
    /\ black \subseteq ReadPaths
    /\ \A p \in black : Children(p) \subseteq black /\ \A link \in FlowLinks(p) : Followed(p, link)
    /\ \A S \in SUBSET black : S # {} => \E p \in S : Children(p) \cap S = {}

\* A frame of the walk: it was entered when it was read, each of its links is still to be
\* followed or was, and led to a flow the walk has left, or to the frame above it.
IsFrame(frame) ==
    /\ frame = [path |-> frame.path, entered |-> frame.entered, links |-> frame.links]
    /\ frame.entered \in BOOLEAN
Pending(p, links) ==
    /\ Listed(links) /\ ToSet(links) \subseteq ToSet(CollectLinks(FlowAt(p)))
    /\ \A link \in FlowLinks(p) : link \in ToSet(links) \/ Followed(p, link)
FrameFits(i) ==
    /\ IsFrame(stack[i]) /\ stack[i].path \in Paths \ black
    /\ i < Len(stack) => stack[i].entered /\ stack[i + 1].path \in Targets(stack[i].path)
    /\ stack[i].entered <=> stack[i].path \in ReadPaths
    /\ stack[i].entered => Pending(stack[i].path, stack[i].links)
    /\ \A p \in Children(stack[i].path) : p \in black \/ (i < Len(stack) /\ p = stack[i + 1].path)

StackInv ==
    /\ Listed(stack) /\ \A i \in 1..Len(stack) : FrameFits(i)
    /\ \A i, j \in 1..Len(stack) : stack[i].path = stack[j].path => i = j
    /\ \A p \in ReadPaths : p \in black \/ \E i \in 1..Len(stack) : stack[i].path = p

RootsInv ==
    /\ Listed(walked)
    /\ \A r \in ToSet(walked) : r \in black \/ \E i \in 1..Len(stack) : stack[i].path = r
    /\ stack # <<>> => stack[1].path \in ToSet(walked)
    /\ \A p \in ReadPaths : \E r \in ToSet(walked) \cap ReadPaths : Reaches(r, p)

WalkInv == CanonInv /\ ReadInv /\ BlackInv /\ StackInv /\ RootsInv

\* What a spelling stands for is a path of the workspace.
LEMMA CanonicalKnown ==
    ASSUME FilesInv, CanonInv, NEW p \in Paths
    PROVE  Recorded(p).path \in Paths /\ Recorded(p).code \in CanonCodes
<1>1. CASE p \in DOMAIN canon
  BY <1>1 DEF Recorded, CanonInv
<1>2. CASE p \notin DOMAIN canon
  <2> DEFINE target == IF files[p].is = "symlink" THEN files[p].to ELSE p
             is == files[target].is
             code == CASE is = "directory" -> "directory_link"
                       [] is = "device" -> "non_regular_link"
                       [] is = "missing" -> "missing_link"
                       [] OTHER -> "link_error"
  <2>1. target \in Paths
    BY DEF FilesInv, Held
  <2> HIDE DEF target
  <2>2. code \in CanonCodes
    BY DEF CanonCodes
  <2>3. Canonical(p) = IF is \in {"flow", "broken", "resource"} THEN [path |-> target, code |-> "none"]
                       ELSE [path |-> p, code |-> code]
    BY DEF Canonical, target
  <2> HIDE DEF is, code
  <2>4. Canonical(p).path \in Paths /\ Canonical(p).code \in CanonCodes
    <3>1. CASE is \in {"flow", "broken", "resource"}
      BY <2>1, <2>3, <3>1 DEF CanonCodes
    <3>2. CASE ~(is \in {"flow", "broken", "resource"})
      BY <2>2, <2>3, <3>2
    <3> QED
      BY <3>1, <3>2
  <2> QED
    BY <1>2, <2>4 DEF Recorded
<1> QED
  BY <1>1, <1>2

\* What the recording loader asked once is not forgotten.
LEMMA RecordKeeps ==
    ASSUME FilesInv, CanonInv, NEW p \in Paths, Record(p)
    PROVE  /\ CanonInv'
           /\ p \in DOMAIN canon' /\ canon'[p] = Recorded(p)
           /\ \A q \in DOMAIN canon : q \in DOMAIN canon' /\ canon'[q] = canon[q]
<1>1. Recorded(p).path \in Paths /\ Recorded(p).code \in CanonCodes
  BY CanonicalKnown
<1>2. p \in DOMAIN canon => Recorded(p) = canon[p]
  BY DEF Recorded
<1> DEFINE c == Recorded(p)
<1> HIDE DEF c
<1>3. canon' = [q \in DOMAIN canon \cup {p} |-> IF q = p THEN c ELSE canon[q]]
  BY DEF Record, c
<1>4. DOMAIN canon' = DOMAIN canon \cup {p} /\ canon'[p] = c /\ \A q \in DOMAIN canon : canon'[q] = canon[q]
  BY <1>2, <1>3 DEF c
<1>5. CanonInv'
  BY <1>1, <1>4 DEF CanonInv, c
<1> QED
  BY <1>4, <1>5 DEF c

LEMMA ReadFacts ==
    ASSUME ReadInv
    PROVE  /\ Len(read) \in Nat /\ DOMAIN read = 1..Len(read)
           /\ \A i \in 1..Len(read) : read[i].path \in ReadPaths /\ ReadAt(read[i].path) = i
           /\ \A p \in ReadPaths : /\ ReadAt(p) \in 1..Len(read) /\ read[ReadAt(p)].path = p
                                   /\ p \in Paths /\ FlowListed(FlowAt(p))
                                   /\ InspectFlow(FlowAt(p), selection.platform) = <<>>
<1>1. Len(read) \in Nat /\ DOMAIN read = 1..Len(read)
  BY ListFacts DEF ReadInv
<1>2. \A i \in 1..Len(read) : read[i].path \in ReadPaths /\ ReadAt(read[i].path) = i
  BY <1>1 DEF ReadInv, ReadPaths, ReadAt
<1>3. \A p \in ReadPaths : \E i \in 1..Len(read) : read[i].path = p
  BY <1>1 DEF ReadPaths
<1> QED
  BY <1>1, <1>2, <1>3 DEF ReadInv, FlowAt

LEMMA ChildrenOf ==
    ASSUME NEW p
    PROVE  Children(p) = {e.to : e \in {x \in ToSet(edges) : x.from = p}}
  BY DEF Children, ToSet

\* What is known stays known while the walk goes on.
Grows ==
    /\ \A p \in ReadPaths : p \in ReadPaths' /\ FlowAt(p)' = FlowAt(p)
    /\ \A q \in DOMAIN canon : q \in DOMAIN canon' /\ canon'[q] = canon[q]
    /\ ToSet(edges) \subseteq ToSet(edges')

LEMMA GrowsKeeps ==
    ASSUME Grows
    PROVE  /\ \A p \in ReadPaths : FlowLinks(p)' = FlowLinks(p) /\ Targets(p) \subseteq Targets(p)'
           /\ \A p : Children(p) \subseteq Children(p)'
           /\ \A p, link : Followed(p, link) => Followed(p, link)'
           /\ \A p \in ReadPaths : \A q : Reaches(p, q) => Reaches(p, q)'
<1>1. \A p \in ReadPaths : FlowLinks(p)' = FlowLinks(p)
  BY DEF Grows, FlowLinks
<1>2. \A p \in ReadPaths : Targets(p) \subseteq Targets(p)'
  BY <1>1 DEF Grows, Targets
<1>3. ASSUME NEW p PROVE Children(p) \subseteq Children(p)'
  <2>1. Children(p)' = {e.to : e \in {x \in ToSet(edges') : x.from = p}}
    BY DEF Children, ToSet
  <2> QED
    BY <2>1, ChildrenOf DEF Grows
<1>4. \A p, link : Followed(p, link) => Followed(p, link)'
  BY <1>3 DEF Grows, Followed
<1>5. ASSUME NEW p \in ReadPaths, NEW q, Reaches(p, q) PROVE Reaches(p, q)'
  <2> SUFFICES ASSUME NEW S \in SUBSET ReadPaths', p \in S, \A x \in S : Linked(x)' \subseteq S
               PROVE  q \in S
    BY DEF Reaches, KeepsTo
  <2> DEFINE T == S \cap ReadPaths
  <2>1. ASSUME NEW x \in T PROVE Linked(x) \subseteq T
    <3>1. Targets(x) \cap ReadPaths \subseteq Targets(x)' \cap ReadPaths'
      BY <1>2, <2>1 DEF Grows
    <3>2. Linked(x) = Targets(x) \cap ReadPaths /\ Linked(x)' = Targets(x)' \cap ReadPaths'
      BY DEF Linked, Targets
    <3> QED
      BY <2>1, <3>1, <3>2
  <2>2. T \in SUBSET ReadPaths /\ p \in T
    OBVIOUS
  <2> HIDE DEF T
  <2>3. q \in T
    BY <1>5, <2>1, <2>2 DEF Reaches, KeepsTo
  <2> QED
    BY <2>3 DEF T
<1> QED
  BY <1>1, <1>2, <1>3, <1>4, <1>5

\* A frame reaches those above it.
LEMMA StackReaches ==
    ASSUME StackInv, stack # <<>>, Top.entered, NEW i \in 1..Len(stack)
    PROVE  Reaches(stack[i].path, Top.path)
<1> DEFINE n == Len(stack)
<1>1. n \in Nat /\ n # 0
  BY ListFacts DEF StackInv
<1>2. Top = stack[n]
  BY DEF Top, Last
<1>3. \A j \in 1..n : stack[j].path \in ReadPaths
  <2> TAKE j \in 1..n
  <2>1. stack[j].entered
    <3>1. CASE j = n
      BY <1>2, <3>1
    <3>2. CASE j # n
      BY <1>1, <3>2 DEF StackInv, FrameFits
    <3> QED
      BY <3>1, <3>2
  <2> QED
    BY <2>1 DEF StackInv, FrameFits
<1>4. \A j \in 1..n : j < n => stack[j + 1].path \in Linked(stack[j].path)
  <2> TAKE j \in 1..n
  <2> HAVE j < n
  <2>1. stack[j + 1].path \in Targets(stack[j].path) /\ j + 1 \in 1..n
    BY <1>1 DEF StackInv, FrameFits
  <2> QED
    BY <1>3, <2>1 DEF Linked, Targets
<1> HIDE DEF n
<1> SUFFICES ASSUME NEW S \in SUBSET ReadPaths, stack[i].path \in S, KeepsTo(S)
             PROVE  stack[n].path \in S
  BY <1>2 DEF Reaches
<1> DEFINE N == {k \in Nat : i + k <= n => stack[i + k].path \in S}
<1>5. i \in Nat /\ i >= 1 /\ i <= n
  BY <1>1 DEF n
<1>6. 0 \in N
  <2>1. i + 0 = i
    BY <1>5
  <2> QED
    BY <2>1
<1>7. ASSUME NEW k \in Nat, k \in N PROVE k + 1 \in N
  <2> SUFFICES ASSUME i + (k + 1) <= n PROVE stack[i + (k + 1)].path \in S
    OBVIOUS
  <2>1. i + k \in 1..n /\ i + k < n /\ (i + k) + 1 = i + (k + 1)
    BY <1>1, <1>5
  <2>2. stack[i + k].path \in S
    BY <1>7, <2>1
  <2>3. stack[(i + k) + 1].path \in Linked(stack[i + k].path)
    BY <1>4, <2>1
  <2> QED
    BY <2>1, <2>2, <2>3 DEF KeepsTo
<1>8. n - i \in N
  <2>1. n - i \in Nat
    BY <1>1, <1>5
  <2> HIDE DEF N
  <2>2. \A k \in Nat : k \in N
    BY <1>6, <1>7, Induction
  <2> QED
    BY <2>1, <2>2
<1>9. i + (n - i) = n
  BY <1>1, <1>5
<1> QED
  BY <1>1, <1>8, <1>9

\* What a violation may not be: the engine disagreeing with its own preflight.
Broken == {"graph_has_cycle", "link_not_proven", "link_not_declared", "child_not_compiled"}
Cyclic == \E p \in ReadPaths : \E q \in Linked(p) : Reaches(q, p)

\* A flow is compiled once, after the flows it links.
CompileInv ==
    /\ Listed(compiled) /\ ToSet(compiled) \subseteq ReadPaths
    /\ \A i, j \in 1..Len(compiled) : compiled[i] = compiled[j] => i = j
    /\ \A i \in 1..Len(compiled) : \A p \in Children(compiled[i]) : \E j \in 1..i - 1 : compiled[j] = p

ProgInv ==
    /\ FilesInv
    /\ task \in {"check", "compile", "ready", "refused"}
    /\ task # "refused" => violation = "none" /\ WalkInv
    /\ task = "check" => compiled = <<>>
    /\ task \in {"compile", "ready"} => stack = <<>> /\ CompileInv
    /\ task = "ready" => Len(compiled) = Len(read)
    /\ violation \notin Broken /\ (violation = "active_cycle" => Cyclic)

-----------------------------------------------------------------------------
(* The walk                                                                *)

LEMMA ProgStart ==
    ASSUME WorkspacesAssumption, ProgInit
    PROVE  ProgInv
<1>1. FilesInv
  BY DEF ProgInit, WorkspacesAssumption, FilesInv
<1>2. ReadPaths = {} /\ DOMAIN canon = {} /\ ToSet(edges) = {} /\ ToSet(walked) = {}
  BY EmptyListed DEF ProgInit, ReadPaths
<1>3. CanonInv
  BY <1>2 DEF CanonInv
<1>4. Listed(read) /\ Len(read) = 0 /\ Listed(edges) /\ Listed(stack) /\ Len(stack) = 0 /\ Listed(walked)
  BY EmptyListed DEF ProgInit
<1>5. ReadInv
  BY <1>4 DEF ReadInv
<1>6. BlackInv
  BY <1>2, <1>4 DEF BlackInv, ProgInit
<1>7. StackInv
  BY <1>2, <1>4 DEF StackInv
<1>8. RootsInv
  BY <1>2, <1>4 DEF RootsInv, ProgInit
<1>9. violation = "none" /\ task = "check" /\ compiled = <<>>
  BY DEF ProgInit
<1> QED
  BY <1>1, <1>3, <1>5, <1>6, <1>7, <1>8, <1>9 DEF ProgInv, WalkInv, Broken

\* What the steps of the walk keep, when links are added to flows it has not left.
LEMMA BlackKept ==
    ASSUME BlackInv, Grows, black' = black, Listed(edges'), \A e \in ToSet(edges') : e.from \in ReadPaths',
           \A p \in black : Children(p)' \subseteq Children(p)
    PROVE  BlackInv'
<1>0. /\ \A p : Children(p) \subseteq Children(p)'
      /\ \A p \in ReadPaths : FlowLinks(p)' = FlowLinks(p)
  BY GrowsKeeps
<1>1. \A p \in black : Children(p)' = Children(p) /\ FlowLinks(p)' = FlowLinks(p)
  <2> TAKE p \in black
  <2>1. p \in ReadPaths
    BY DEF BlackInv
  <2>2. Children(p)' = Children(p)
    BY <1>0
  <2> QED
    BY <1>0, <2>1, <2>2
<1>2. \A p, link : Followed(p, link) => Followed(p, link)'
  BY GrowsKeeps
<1>3. black' \subseteq ReadPaths'
  BY DEF BlackInv, Grows
<1>4. \A p \in black' : Children(p)' \subseteq black' /\ \A link \in FlowLinks(p)' : Followed(p, link)'
  BY <1>1, <1>2 DEF BlackInv
<1>5. \A S \in SUBSET black' : S # {} => \E p \in S : Children(p)' \cap S = {}
  BY <1>1 DEF BlackInv
<1> QED
  BY <1>3, <1>4, <1>5 DEF BlackInv

LEMMA RootsKept ==
    ASSUME RootsInv, Grows, ReadPaths' = ReadPaths, ToSet(walked) \subseteq ToSet(walked')
    PROVE  \A p \in ReadPaths' : \E r \in ToSet(walked') \cap ReadPaths' : Reaches(r, p)'
<1>1. \A p \in ReadPaths : \E r \in ToSet(walked) \cap ReadPaths : Reaches(r, p)
  BY DEF RootsInv
<1>2. \A r \in ReadPaths : \A p : Reaches(r, p) => Reaches(r, p)'
  BY GrowsKeeps
<1> QED
  BY <1>1, <1>2

LEMMA PendingKept ==
    ASSUME Grows, NEW p \in ReadPaths, NEW links, Pending(p, links)
    PROVE  Pending(p, links)'
<1>1. FlowLinks(p)' = FlowLinks(p) /\ FlowAt(p)' = FlowAt(p)
  BY GrowsKeeps DEF Grows
<1>2. \A link : Followed(p, link) => Followed(p, link)'
  BY GrowsKeeps
<1> QED
  BY <1>1, <1>2 DEF Pending

\* A frame below the top keeps fitting.
LEMMA FrameKept ==
    ASSUME Grows, NEW i, FrameFits(i), i < Len(stack), i < Len(stack'), stack'[i] = stack[i],
           stack'[i + 1].path = stack[i + 1].path, black \subseteq black', stack[i].path \notin black',
           \A p : p = stack[i].path => Children(p)' = Children(p)
    PROVE  FrameFits(i)'
<1> SUFFICES ASSUME NEW frame, frame = stack[i], NEW q, q = stack[i + 1].path
             PROVE  FrameFits(i)'
  OBVIOUS
<1>1. /\ IsFrame(frame) /\ frame.entered /\ frame.path \in Paths /\ frame.path \in ReadPaths
      /\ q \in Targets(frame.path) /\ Pending(frame.path, frame.links)
      /\ \A c \in Children(frame.path) : c \in black \/ c = q
  BY DEF FrameFits
<1>2. frame.path \in ReadPaths' /\ Targets(frame.path) \subseteq Targets(frame.path)'
  BY <1>1, GrowsKeeps DEF Grows
<1>3. Pending(frame.path, frame.links)'
  BY <1>1, PendingKept
<1>4. frame.path \notin black' /\ Children(frame.path)' = Children(frame.path)
  OBVIOUS
<1>5. stack'[i] = frame /\ stack'[i + 1].path = q
  OBVIOUS
<1>6. IsFrame(frame) = IsFrame(frame)'
  BY DEF IsFrame
<1> QED
  BY <1>1, <1>2, <1>3, <1>4, <1>5, <1>6 DEF FrameFits

\* A preflight that is refused, and one that goes on.
LEMMA Ended ==
    ASSUME ProgInv, NEW code, End(code), code \notin Broken, code = "active_cycle" => Cyclic'
    PROVE  ProgInv'
<1>1. FilesInv'
  BY DEF End, ProgInv, FilesInv
<1>2. task' = "refused" /\ violation' = code
  BY DEF End
<1> QED
  BY <1>1, <1>2 DEF ProgInv, Broken

LEMMA Walking ==
    ASSUME ProgInv, task = "check", Walk, WalkInv'
    PROVE  ProgInv'
<1>1. FilesInv'
  BY DEF Walk, ProgInv, FilesInv
<1>2. task' = "check" /\ violation' = "none" /\ compiled' = <<>>
  BY DEF Walk, ProgInv
<1> QED
  BY <1>1, <1>2 DEF ProgInv, Broken

\* The loader's codes are not the engine's.
LEMMA CodesOfPaths ==
    ASSUME NEW code \in CanonCodes
    PROVE  code \notin Broken /\ code # "active_cycle"
  BY DEF CanonCodes, Broken

LEMMA NextRootKeeps ==
    ASSUME WorkspacesAssumption, ProgInv, NextRoot
    PROVE  ProgInv'
<1> SUFFICES ASSUME NEW p, p = selection.roots[Len(walked) + 1], NEW c, c = Recorded(p)
             PROVE  ProgInv'
  OBVIOUS
<1>1. /\ task = "check" /\ stack = <<>> /\ Record(p)
      /\ UNCHANGED <<black, read, edges>>
      /\ \/ c.code # "none" /\ End(c.code)
         \/ /\ c.code = "none" /\ walked' = Append(walked, c.path) /\ Walk
            /\ stack' = IF c.path \in black THEN <<>> ELSE <<Frame(c.path)>>
  BY DEF NextRoot
<1>2. FilesInv /\ CanonInv /\ ReadInv /\ BlackInv /\ StackInv /\ RootsInv
  BY <1>1 DEF ProgInv, WalkInv
<1>3. p \in Paths
  <2>1. selection.roots \in Seq(Paths)
    BY <1>2 DEF FilesInv, WorkspacesAssumption
  <2>2. Len(walked) \in Nat /\ Len(walked) < Len(selection.roots)
    BY <1>2, ListFacts DEF RootsInv, NextRoot
  <2>3. Len(walked) + 1 \in 1..Len(selection.roots)
    BY <2>1, <2>2, LenProperties
  <2> QED
    BY <2>1, <2>3, ElementOfSeq
<1>4. c.path \in Paths /\ c.code \in CanonCodes
  BY <1>2, <1>3, CanonicalKnown
<1>5. /\ CanonInv' /\ p \in DOMAIN canon' /\ canon'[p] = c
      /\ \A q \in DOMAIN canon : q \in DOMAIN canon' /\ canon'[q] = canon[q]
  BY <1>1, <1>2, <1>3, RecordKeeps
<1>6. CASE c.code # "none" /\ End(c.code)
  BY <1>4, <1>6, CodesOfPaths, Ended
<1>7. CASE /\ c.code = "none" /\ walked' = Append(walked, c.path) /\ Walk
           /\ stack' = IF c.path \in black THEN <<>> ELSE <<Frame(c.path)>>
  <2>1. read' = read /\ edges' = edges /\ black' = black /\ selection' = selection
    BY <1>1, <1>7 DEF Walk
  <2>2. ReadPaths' = ReadPaths /\ \A q : FlowAt(q)' = FlowAt(q) /\ Children(q)' = Children(q)
    BY <2>1 DEF ReadPaths, FlowAt, ReadAt, Children
  <2>3. Grows
    BY <1>5, <2>1, <2>2 DEF Grows
  <2>4. ReadInv'
    BY <1>2, <2>1 DEF ReadInv
  <2>5. BlackInv'
    <3>1. Listed(edges') /\ \A e \in ToSet(edges') : e.from \in ReadPaths'
      BY <1>2, <2>1, <2>2 DEF BlackInv
    <3> QED
      BY <1>2, <2>1, <2>2, <2>3, <3>1, BlackKept
  <2>6. Listed(walked') /\ ToSet(walked') = ToSet(walked) \cup {c.path}
    BY <1>2, <1>7, AppendListed DEF RootsInv
  <2>7. \A q \in ReadPaths' : \E r \in ToSet(walked') \cap ReadPaths' : Reaches(r, q)'
    BY <1>2, <2>2, <2>3, <2>6, RootsKept
  <2>8. ReadPaths \subseteq black /\ ToSet(walked) \subseteq black
    <3>1. Len(stack) = 0
      BY <1>1, EmptyListed
    <3> QED
      BY <1>2, <3>1 DEF StackInv, RootsInv
  <2>9. StackInv' /\ RootsInv'
    <3>1. CASE c.path \in black
      <4>1. Listed(stack') /\ Len(stack') = 0
        BY <1>7, <3>1, EmptyListed
      <4>2. stack' = <<>>
        BY <1>7, <3>1
      <4> QED
        BY <2>1, <2>2, <2>6, <2>7, <2>8, <3>1, <4>1, <4>2 DEF StackInv, RootsInv
    <3>2. CASE c.path \notin black
      <4>1. stack' = <<Frame(c.path)>>
        BY <1>7, <3>2
      <4>2. Listed(stack') /\ Len(stack') = 1 /\ stack'[1] = Frame(c.path)
        BY <4>1, SingleListed
      <4>3. stack'[1].path = c.path /\ stack'[1].entered = FALSE /\ IsFrame(stack'[1])
        BY <4>2 DEF Frame, IsFrame
      <4>4. c.path \notin ReadPaths /\ Children(c.path) = {}
        <5>1. c.path \notin ReadPaths
          BY <2>8, <3>2
        <5> QED
          BY <1>2, <5>1, ChildrenOf DEF BlackInv
      <4>5. FrameFits(1)'
        <5>1. Children(c.path)' = {} /\ c.path \notin ReadPaths' /\ c.path \notin black'
          BY <2>1, <2>2, <3>2, <4>4
        <5>2. IsFrame(stack[1])'
          BY <4>3 DEF IsFrame
        <5> QED
          BY <1>4, <4>2, <4>3, <5>1, <5>2 DEF FrameFits
      <4>6. \A i \in 1..Len(stack') : i = 1
        BY <4>2
      <4>7. \A i \in 1..Len(stack') : FrameFits(i)'
        BY <4>5, <4>6
      <4>8. StackInv'
        BY <2>1, <2>2, <2>8, <4>2, <4>6, <4>7 DEF StackInv
      <4>9. 1 \in 1..Len(stack')
        BY <4>2
      <4>10. RootsInv'
        BY <2>1, <2>6, <2>7, <2>8, <4>3, <4>9 DEF RootsInv
      <4> QED
        BY <4>8, <4>10
    <3> QED
      BY <3>1, <3>2
  <2>10. WalkInv'
    BY <1>5, <2>4, <2>5, <2>9 DEF WalkInv
  <2> QED
    BY <1>1, <1>7, <2>10, Walking
<1> QED
  BY <1>1, <1>6, <1>7

\* The top of the stack, and the frames below it.
LEMMA TopFacts ==
    ASSUME StackInv, stack # <<>>
    PROVE  /\ Len(stack) \in Nat /\ Len(stack) # 0 /\ Len(stack) \in 1..Len(stack)
           /\ Top = stack[Len(stack)]
           /\ \A i \in 1..Len(stack) : i # Len(stack) => i < Len(stack) /\ i + 1 \in 1..Len(stack)
           /\ FrameFits(Len(stack))
<1> DEFINE n == Len(stack)
<1>1. Listed(stack)
  BY DEF StackInv
<1>2. n \in Nat /\ n # 0
  BY <1>1, ListFacts
<1>3. Top = stack[n]
  BY DEF Top, Last
<1>4. FrameFits(n)
  BY <1>2 DEF StackInv
<1> HIDE DEF n
<1>5. n \in 1..n /\ \A i \in 1..n : i # n => i < n /\ i + 1 \in 1..n
  BY <1>2
<1> QED
  BY <1>2, <1>3, <1>4, <1>5 DEF n

\* A frame with other links.
LEMMA FrameChanged ==
    ASSUME NEW frame, IsFrame(frame), NEW links
    PROVE  [frame EXCEPT !.links = links] = [path |-> frame.path, entered |-> frame.entered, links |-> links]
<1> DEFINE p == frame.path
           e == frame.entered
           l == frame.links
<1>1. frame = [path |-> p, entered |-> e, links |-> l]
  BY DEF IsFrame
<1> HIDE DEF p, e, l
<1>2. [[path |-> p, entered |-> e, links |-> l] EXCEPT !.links = links]
      = [path |-> p, entered |-> e, links |-> links]
  OBVIOUS
<1>3. [frame EXCEPT !.links = links] = [path |-> p, entered |-> e, links |-> links]
  BY <1>1, <1>2
<1> QED
  BY <1>3 DEF p, e

\* The frame at the top is exchanged for another.
LEMMA ReplacedTop ==
    ASSUME StackInv, stack # <<>>, NEW frame, NEW t, t = Replaced(frame)
    PROVE  /\ Listed(t) /\ Len(t) = Len(stack) /\ t[Len(stack)] = frame
           /\ \A i \in 1..Len(stack) : i # Len(stack) => t[i] = stack[i]
<1> DEFINE n == Len(stack)
           u == [stack EXCEPT ![n] = frame]
<1>1. Listed(stack) /\ n \in 1..Len(stack)
  BY TopFacts DEF StackInv
<1> HIDE DEF n
<1>2. Listed(u) /\ Len(u) = Len(stack) /\ u[n] = frame /\ \A i \in 1..Len(stack) : i # n => u[i] = stack[i]
  BY <1>1, ReplacedListed
<1> HIDE DEF u
<1>3. t = u
  BY DEF Replaced, u, n
<1> QED
  BY <1>2, <1>3 DEF n

\* What was read at a place, after a step.
LEMMA ReadNext ==
    ASSUME ReadInv', NEW k \in 1..Len(read'), NEW q, q = read'[k].path
    PROVE  q \in ReadPaths' /\ FlowAt(q)' = read'[k].flow
<1>1. DOMAIN read' = 1..Len(read')
  BY ListFacts DEF ReadInv
<1>2. \A i \in DOMAIN read' : read'[i].path = q <=> i = k
  BY <1>1 DEF ReadInv
<1>3. (CHOOSE i \in DOMAIN read' : read'[i].path = q) = k
  BY <1>1, <1>2
<1>4. q \in ReadPaths'
  BY <1>1 DEF ReadPaths
<1> QED
  BY <1>3, <1>4 DEF FlowAt, ReadAt

LEMMA EnterFlowKeeps ==
    ASSUME ProgInv, EnterFlow
    PROVE  ProgInv'
<1> SUFFICES ASSUME NEW n, n = Len(stack), NEW frame, frame = Top, NEW f, f = files[Top.path].flow
             PROVE  ProgInv'
  OBVIOUS
<1> DEFINE p == frame.path
           code == LoadCode(p)
           refusals == InspectFlow(f, selection.platform)
<1>1. task = "check" /\ stack # <<>> /\ ~frame.entered /\ UNCHANGED <<walked, black, canon, edges>>
  BY DEF EnterFlow
<1>2. FilesInv /\ CanonInv /\ ReadInv /\ BlackInv /\ StackInv /\ RootsInv
  BY <1>1 DEF ProgInv, WalkInv
<1>3. /\ n \in Nat /\ n # 0 /\ n \in 1..n /\ frame = stack[n] /\ FrameFits(n)
      /\ \A i \in 1..n : i # n => i < n /\ i + 1 \in 1..n
  BY <1>1, <1>2, TopFacts
<1>4. p \in Paths /\ p \notin black /\ p \notin ReadPaths /\ IsFrame(frame)
  BY <1>1, <1>3 DEF FrameFits
<1>5. CASE code # "none" /\ End(code)
  <2>1. code \notin Broken /\ code # "active_cycle"
    BY <1>5 DEF LoadCode, Broken
  <2> QED
    BY <1>5, <2>1, Ended
<1>6. CASE /\ code = "none" /\ read' = Append(read, [path |-> p, flow |-> f])
           /\ \/ refusals # <<>> /\ End(Head(refusals))
              \/ /\ refusals = <<>> /\ Walk
                 /\ stack' = Replaced([path |-> p, entered |-> TRUE, links |-> CollectLinks(f)])
  <2>1. FlowListed(f)
    <3>1. files[p].is = "flow"
      BY <1>6 DEF LoadCode
    <3> QED
      BY <1>2, <1>4, <3>1 DEF FilesInv, Held
  <2>2. CASE refusals # <<>> /\ End(Head(refusals))
    <3> HIDE DEF refusals
    <3>1. refusals \in Seq(RefusalCodes)
      BY <2>1, InspectListed DEF refusals
    <3>2. Head(refusals) \in RefusalCodes
      BY <2>2, <3>1
    <3>3. Head(refusals) \notin Broken /\ Head(refusals) # "active_cycle"
      BY <3>2 DEF RefusalCodes, Broken
    <3> QED
      BY <2>2, <3>3, Ended
  <2>3. CASE /\ refusals = <<>> /\ Walk
             /\ stack' = Replaced([path |-> p, entered |-> TRUE, links |-> CollectLinks(f)])
    <3> DEFINE node == [path |-> p, flow |-> f]
               entered == [path |-> p, entered |-> TRUE, links |-> CollectLinks(f)]
    <3>1. /\ Listed(read') /\ Len(read) \in Nat /\ Len(read') = Len(read) + 1 /\ read'[Len(read) + 1] = node
          /\ \A i \in 1..Len(read) : read'[i] = read[i]
      BY <1>2, <1>6, AppendListed, ListFacts DEF ReadInv
    <3>2. \A i \in 1..Len(read') : i \in 1..Len(read) \/ i = Len(read) + 1
      BY <3>1
    <3>3. ReadInv'
      <4>1. selection' = selection
        BY <2>3 DEF Walk
      <4>2. \A i \in 1..Len(read) : read[i].path # p
        BY <1>2, <1>4, ReadFacts
      <4>3. node.path = p /\ node.flow = f
        OBVIOUS
      <4> HIDE DEF node, p
      <4>4. ASSUME NEW i \in 1..Len(read')
            PROVE  /\ read'[i].path \in Paths /\ FlowListed(read'[i].flow)
                   /\ InspectFlow(read'[i].flow, selection.platform) = <<>>
        BY <1>2, <1>4, <2>1, <2>3, <3>1, <3>2, <4>3 DEF ReadInv
      <4>5. ASSUME NEW i \in 1..Len(read'), NEW j \in 1..Len(read'), read'[i].path = read'[j].path PROVE i = j
        BY <1>2, <3>1, <3>2, <4>2, <4>3, <4>5 DEF ReadInv
      <4> QED
        BY <3>1, <4>1, <4>4, <4>5 DEF ReadInv
    <3>4. \A q \in ReadPaths : q \in ReadPaths' /\ FlowAt(q)' = FlowAt(q)
      <4> TAKE q \in ReadPaths
      <4>1. ReadAt(q) \in 1..Len(read) /\ read[ReadAt(q)].path = q
        BY <1>2, ReadFacts
      <4>2. ReadAt(q) \in 1..Len(read') /\ read'[ReadAt(q)] = read[ReadAt(q)]
        BY <3>1, <4>1
      <4> QED
        BY <3>3, <4>1, <4>2, ReadNext DEF FlowAt
    <3>5. ReadPaths' = ReadPaths \cup {p} /\ FlowAt(p)' = f
      <4>1. Len(read) + 1 \in 1..Len(read') /\ read'[Len(read) + 1].path = p /\ read'[Len(read) + 1].flow = f
        BY <3>1
      <4>2. p \in ReadPaths' /\ FlowAt(p)' = f
        BY <3>3, <4>1, ReadNext
      <4>3. DOMAIN read' = 1..Len(read')
        BY <3>1, ListFacts
      <4> HIDE DEF node, p
      <4>4. ASSUME NEW q \in ReadPaths' PROVE q \in ReadPaths \cup {p}
        <5>1. PICK i \in 1..Len(read') : read'[i].path = q
          BY <4>3 DEF ReadPaths
        <5>2. \A j \in 1..Len(read) : read[j].path \in ReadPaths
          BY <1>2, ReadFacts
        <5> QED
          BY <3>1, <3>2, <4>1, <5>1, <5>2
      <4> QED
        BY <3>4, <4>2, <4>4
    <3>6. Grows /\ (\A q : Children(q)' = Children(q)) /\ black' = black
      <4>1. canon' = canon /\ edges' = edges /\ black' = black
        BY <1>1
      <4> QED
        BY <3>4, <4>1 DEF Grows, Children
    <3>7. BlackInv'
      <4>1. Listed(edges') /\ \A e \in ToSet(edges') : e.from \in ReadPaths'
        BY <1>1, <1>2, <3>5 DEF BlackInv
      <4> QED
        BY <1>2, <3>6, <4>1, BlackKept
    <3>8. Children(p) = {}
      BY <1>2, <1>4, ChildrenOf DEF BlackInv
    <3>9. entered.path = p /\ entered.entered /\ entered.links = CollectLinks(f) /\ IsFrame(entered)
      BY DEF IsFrame
    <3>10. /\ Listed(stack') /\ Len(stack') = n /\ stack'[n] = entered
           /\ \A i \in 1..n : i # n => stack'[i] = stack[i]
      <4>1. stack' = Replaced(entered)
        BY <2>3
      <4> HIDE DEF entered
      <4> QED
        BY <1>1, <1>2, <4>1, ReplacedTop
    <3>11. \A i \in 1..n : stack'[i].path = stack[i].path
      BY <1>3, <3>9, <3>10
    <3>12. FrameFits(n)'
      <4>1. Pending(p, CollectLinks(f))'
        <5>1. FlowLinks(p)' \subseteq ToSet(CollectLinks(f))
          BY <3>5 DEF FlowLinks
        <5> QED
          BY <2>1, <3>5, <5>1, LinksListed DEF Pending
      <4> HIDE DEF p
      <4>2. IsFrame(stack[n])' /\ stack'[n].path = p /\ stack'[n].links = CollectLinks(f) /\ stack'[n].entered
        BY <3>9, <3>10 DEF IsFrame
      <4>3. p \in ReadPaths' /\ Children(p)' = {} /\ ~(n < n)
        BY <1>3, <3>5, <3>6, <3>8
      <4> QED
        BY <1>4, <3>6, <3>10, <4>1, <4>2, <4>3 DEF FrameFits
    <3>13. ASSUME NEW i \in 1..n, i # n PROVE FrameFits(i)'
      <4>1. FrameFits(i) /\ i < Len(stack) /\ i < Len(stack') /\ stack'[i] = stack[i] /\ i + 1 \in 1..n
        BY <1>2, <1>3, <3>10, <3>13 DEF StackInv
      <4>2. stack'[i + 1].path = stack[i + 1].path
        BY <3>11, <4>1
      <4>3. stack[i].path \notin black'
        BY <3>6, <4>1 DEF FrameFits
      <4> QED
        BY <3>6, <4>1, <4>2, <4>3, FrameKept
    <3>14. StackInv'
      <4> HIDE DEF p
      <4>1. \A i \in 1..Len(stack') : FrameFits(i)'
        BY <3>10, <3>12, <3>13
      <4>2. \A i, j \in 1..Len(stack') : stack'[i].path = stack'[j].path => i = j
        BY <1>2, <3>10, <3>11 DEF StackInv
      <4>3. stack[n].path = p
        BY <1>3 DEF p
      <4>4. \A q \in ReadPaths' : q \in black' \/ \E i \in 1..Len(stack') : stack'[i].path = q
        BY <1>2, <1>3, <3>5, <3>6, <3>10, <3>11, <4>3 DEF StackInv
      <4> QED
        BY <3>10, <4>1, <4>2, <4>4 DEF StackInv
    <3>15. ASSUME NEW q \in ReadPaths' PROVE \E r \in ToSet(walked) \cap ReadPaths' : Reaches(r, q)'
      <4>1. CASE q \in ReadPaths
        <5>1. PICK r \in ToSet(walked) \cap ReadPaths : Reaches(r, q)
          BY <1>2, <4>1 DEF RootsInv
        <5> QED
          BY <3>4, <3>6, <5>1, GrowsKeeps
      <4>2. CASE q = p /\ n = 1
        <5>1. p \in ToSet(walked)
          BY <1>1, <1>2, <1>3, <4>2 DEF RootsInv
        <5>2. Reaches(p, p)'
          BY DEF Reaches
        <5> QED
          BY <3>5, <4>2, <5>1, <5>2
      <4>3. CASE q = p /\ n # 1
        <5> SUFFICES ASSUME NEW o, o = stack[n - 1].path
                     PROVE  \E r \in ToSet(walked) \cap ReadPaths' : Reaches(r, q)'
          OBVIOUS
        <5>1. n - 1 \in 1..n /\ n - 1 # n /\ (n - 1) + 1 = n
          BY <1>3, <4>3
        <5>2. o \in ReadPaths /\ p \in Targets(o)
          BY <1>2, <1>3, <5>1 DEF StackInv, FrameFits
        <5>3. PICK r \in ToSet(walked) \cap ReadPaths : Reaches(r, o)
          BY <1>2, <5>2 DEF RootsInv
        <5>4. Reaches(r, o)' /\ p \in Targets(o)' /\ r \in ReadPaths'
          BY <3>4, <3>6, <5>2, <5>3, GrowsKeeps
        <5>5. p \in Linked(o)'
          BY <3>5, <5>4 DEF Linked, Targets
        <5>6. Reaches(r, p)'
          BY <5>4, <5>5 DEF Reaches, KeepsTo
        <5> QED
          BY <4>3, <5>3, <5>4, <5>6
      <4> QED
        BY <3>5, <4>1, <4>2, <4>3
    <3>16. RootsInv'
      <4>1. walked' = walked
        BY <1>1
      <4>2. 1 \in 1..n
        BY <1>3
      <4>3. \A r \in ToSet(walked') : r \in black' \/ \E i \in 1..Len(stack') : stack'[i].path = r
        BY <1>2, <3>6, <3>10, <3>11, <4>1 DEF RootsInv
      <4>4. stack'[1].path \in ToSet(walked')
        BY <1>1, <1>2, <3>11, <4>1, <4>2 DEF RootsInv
      <4> QED
        BY <1>2, <3>15, <4>1, <4>3, <4>4 DEF RootsInv
    <3>17. CanonInv'
      BY <1>1, <1>2 DEF CanonInv
    <3> QED
      BY <1>1, <2>3, <3>3, <3>7, <3>14, <3>16, <3>17, Walking DEF WalkInv
  <2> QED
    BY <1>6, <2>2, <2>3
<1> QED
  BY <1>1, <1>3, <1>5, <1>6 DEF EnterFlow

LEMMA LeaveFlowKeeps ==
    ASSUME ProgInv, LeaveFlow
    PROVE  ProgInv'
<1> SUFFICES ASSUME NEW n, n = Len(stack), NEW p, p = Top.path
             PROVE  ProgInv'
  OBVIOUS
<1>1. /\ task = "check" /\ stack # <<>> /\ Top.entered /\ Top.links = <<>>
      /\ black' = black \cup {p} /\ stack' = Front(stack) /\ Walk
      /\ UNCHANGED <<walked, canon, read, edges>>
  BY DEF LeaveFlow
<1>2. FilesInv /\ CanonInv /\ ReadInv /\ BlackInv /\ StackInv /\ RootsInv
  BY <1>1 DEF ProgInv, WalkInv
<1>3. /\ n \in Nat /\ n # 0 /\ n \in 1..n /\ Top = stack[n] /\ FrameFits(n)
      /\ \A i \in 1..n : i # n => i < n /\ i + 1 \in 1..n
  BY <1>1, <1>2, TopFacts
<1>4. /\ p \in ReadPaths /\ p \notin black /\ Pending(p, <<>>)
      /\ \A q \in Children(p) : q \in black
  <2>1. ~(n < n)
    BY <1>3
  <2> QED
    BY <1>1, <1>3, <2>1 DEF FrameFits
<1>5. /\ ReadPaths' = ReadPaths /\ Grows
      /\ \A q : FlowAt(q)' = FlowAt(q) /\ FlowLinks(q)' = FlowLinks(q) /\ Children(q)' = Children(q)
      /\ \A q, link : Followed(q, link)' = Followed(q, link)
  BY <1>1 DEF Grows, ReadPaths, FlowAt, FlowLinks, ReadAt, Children, Followed
<1>6. ReadInv' /\ CanonInv'
  BY <1>1, <1>2 DEF ReadInv, CanonInv, Walk
<1>7. BlackInv'
  <2>1. \A link \in FlowLinks(p) : Followed(p, link)
    BY <1>4, EmptyListed DEF Pending
  <2>2. ASSUME NEW S \in SUBSET black', S # {} PROVE \E q \in S : Children(q) \cap S = {}
    <3>1. CASE S \subseteq {p}
      <4>1. p \in S /\ Children(p) \cap S = {}
        BY <1>4, <2>2, <3>1
      <4> QED
        BY <4>1
    <3>2. CASE ~(S \subseteq {p})
      <4>1. S \ {p} \in SUBSET black /\ S \ {p} # {}
        BY <1>1, <2>2, <3>2
      <4>2. PICK q \in S \ {p} : Children(q) \cap (S \ {p}) = {}
        BY <1>2, <4>1 DEF BlackInv
      <4>3. p \notin Children(q)
        BY <1>2, <1>4, <4>1, <4>2 DEF BlackInv
      <4> QED
        BY <4>2, <4>3
    <3> QED
      BY <3>1, <3>2
  <2>3. \A q \in black' : Children(q) \subseteq black' /\ \A link \in FlowLinks(q) : Followed(q, link)
    BY <1>1, <1>2, <1>4, <2>1 DEF BlackInv
  <2> QED
    BY <1>1, <1>2, <1>4, <1>5, <2>2, <2>3 DEF BlackInv
<1>8. Listed(stack') /\ Len(stack') = n - 1 /\ \A i \in 1..n - 1 : stack'[i] = stack[i]
  BY <1>1, <1>2, FrontListed DEF StackInv
<1>9. \A i \in 1..n - 1 : i \in 1..n /\ i # n
  BY <1>3
<1>10. \A i \in 1..n - 1 : stack[i].path # p
  BY <1>2, <1>3, <1>9 DEF StackInv
<1>11. ASSUME NEW i \in 1..n - 1 PROVE FrameFits(i)'
  <2>1. /\ FrameFits(i) /\ i < Len(stack) /\ stack'[i] = stack[i] /\ stack[i].path \notin black'
        /\ i + 1 \in 1..n
    BY <1>1, <1>2, <1>3, <1>8, <1>9, <1>10 DEF StackInv, FrameFits
  <2>2. CASE i + 1 # n
    <3>1. i < Len(stack') /\ i + 1 \in 1..n - 1
      BY <1>3, <1>8, <2>1, <2>2
    <3>2. stack'[i + 1].path = stack[i + 1].path
      BY <1>8, <3>1
    <3> QED
      BY <1>1, <1>5, <2>1, <3>1, <3>2, FrameKept
  <2>3. CASE i + 1 = n
    <3> SUFFICES ASSUME NEW frame, frame = stack[i] PROVE FrameFits(i)'
      OBVIOUS
    <3>1. stack[i + 1].path = p
      BY <1>3, <2>3
    <3>2. /\ IsFrame(frame) /\ frame.path \in Paths /\ frame.entered /\ frame.path \in ReadPaths
          /\ Pending(frame.path, frame.links)
          /\ \A q \in Children(frame.path) : q \in black \/ q = p
      BY <2>1, <3>1 DEF FrameFits
    <3>3. ~(i < Len(stack'))
      BY <1>3, <1>8, <2>3
    <3>4. Pending(frame.path, frame.links)' /\ IsFrame(frame)'
      BY <1>5, <3>2, PendingKept DEF IsFrame
    <3> QED
      BY <1>1, <1>5, <2>1, <3>2, <3>3, <3>4 DEF FrameFits
  <2> QED
    BY <2>2, <2>3
<1>12. StackInv'
  <2>1. \A q \in ReadPaths' : q \in black' \/ \E i \in 1..Len(stack') : stack'[i].path = q
    <3> TAKE q \in ReadPaths'
    <3>1. q \in black \/ \E i \in 1..n : stack[i].path = q
      BY <1>2, <1>5 DEF StackInv
    <3>2. \A i \in 1..n : i # n => i \in 1..n - 1
      BY <1>3
    <3> QED
      BY <1>1, <1>3, <1>8, <3>1, <3>2
  <2>2. \A i, j \in 1..Len(stack') : stack'[i].path = stack'[j].path => i = j
    BY <1>2, <1>8, <1>9 DEF StackInv
  <2> QED
    BY <1>8, <1>11, <2>1, <2>2 DEF StackInv
<1>13. RootsInv'
  <2>1. walked' = walked
    BY <1>1
  <2>2. \A q \in ReadPaths' : \E r \in ToSet(walked') \cap ReadPaths' : Reaches(r, q)'
    BY <1>2, <1>5, <2>1, RootsKept
  <2>3. \A r \in ToSet(walked') : r \in black' \/ \E i \in 1..Len(stack') : stack'[i].path = r
    <3> TAKE r \in ToSet(walked')
    <3>1. r \in black \/ \E i \in 1..n : stack[i].path = r
      BY <1>2, <2>1 DEF RootsInv
    <3>2. \A i \in 1..n : i # n => i \in 1..n - 1
      BY <1>3
    <3> QED
      BY <1>1, <1>3, <1>8, <3>1, <3>2
  <2>4. stack' # <<>> => stack'[1].path \in ToSet(walked')
    <3> HAVE stack' # <<>>
    <3>1. Len(stack') # 0
      BY <1>8, ListFacts
    <3>2. 1 \in 1..n - 1
      BY <1>3, <1>8, <3>1
    <3> QED
      BY <1>1, <1>2, <1>8, <2>1, <3>2 DEF RootsInv
  <2> QED
    BY <1>2, <2>1, <2>2, <2>3, <2>4 DEF RootsInv
<1> QED
  BY <1>1, <1>6, <1>7, <1>12, <1>13, Walking DEF WalkInv

LEMMA FollowLinkKeeps ==
    ASSUME ProgInv, FollowLink
    PROVE  ProgInv'
<1> SUFFICES ASSUME NEW n, n = Len(stack), NEW frame, frame = Top, NEW link, link = Head(Top.links),
                    NEW c, c = Recorded(link.to)
             PROVE  ProgInv'
  OBVIOUS
<1> DEFINE p == frame.path
           left == [frame EXCEPT !.links = Tail(frame.links)]
<1>1. /\ task = "check" /\ stack # <<>> /\ frame.entered /\ frame.links # <<>>
      /\ Record(link.to) /\ UNCHANGED <<walked, black, read>>
      /\ edges' = IF link.kind = "flow" THEN Append(edges, [from |-> p, to |-> c.path]) ELSE edges
      /\ \/ c.code # "none" /\ End(c.code)
         \/ link.kind # "flow" /\ c.path = p /\ End("self_link")
         \/ link.kind = "flow" /\ c.path \notin black /\ c.path \in Gray /\ End("active_cycle")
         \/ Walk /\ (link.kind = "flow" => c.path \in black) /\ stack' = Replaced(left)
         \/ /\ Walk /\ link.kind = "flow" /\ c.path \notin black /\ c.path \notin Gray
            /\ stack' = Append(Replaced(left), Frame(c.path))
  BY DEF FollowLink, Walked
<1>2. FilesInv /\ CanonInv /\ ReadInv /\ BlackInv /\ StackInv /\ RootsInv
  BY <1>1 DEF ProgInv, WalkInv
<1>3. /\ n \in Nat /\ n # 0 /\ n \in 1..n /\ frame = stack[n] /\ FrameFits(n)
      /\ \A i \in 1..n : i # n => i < n /\ i + 1 \in 1..n
  BY <1>1, <1>2, TopFacts
<1>4. /\ IsFrame(frame) /\ p \in ReadPaths /\ p \in Paths /\ p \notin black /\ Pending(p, frame.links)
      /\ \A q \in Children(p) : q \in black
  <2>1. ~(n < n)
    BY <1>3
  <2> QED
    BY <1>1, <1>3, <2>1 DEF FrameFits
<1>5. link \in ToSet(CollectLinks(FlowAt(p))) /\ link.to \in Paths
  <2>1. link \in ToSet(frame.links)
    BY <1>1, <1>4, TailListed DEF Pending
  <2>2. FlowListed(FlowAt(p))
    BY <1>2, <1>4, ReadFacts
  <2> QED
    BY <1>4, <2>1, <2>2, LinksListed DEF Pending
<1>6. c.path \in Paths /\ c.code \in CanonCodes
  BY <1>2, <1>5, CanonicalKnown
<1>7. /\ CanonInv' /\ link.to \in DOMAIN canon' /\ canon'[link.to] = c
      /\ \A q \in DOMAIN canon : q \in DOMAIN canon' /\ canon'[q] = canon[q]
  BY <1>1, <1>2, <1>5, RecordKeeps
<1>8. ReadPaths' = ReadPaths /\ \A q : FlowAt(q)' = FlowAt(q) /\ FlowLinks(q)' = FlowLinks(q)
  BY <1>1 DEF ReadPaths, FlowAt, ReadAt, FlowLinks
<1>9. /\ Listed(edges') /\ ToSet(edges) \subseteq ToSet(edges')
      /\ link.kind = "flow" => ToSet(edges') = ToSet(edges) \cup {[from |-> p, to |-> c.path]}
      /\ link.kind # "flow" => ToSet(edges') = ToSet(edges)
  <2>1. Listed(edges)
    BY <1>2 DEF BlackInv
  <2> QED
    BY <1>1, <2>1, AppendListed
<1>10. Grows
  BY <1>7, <1>8, <1>9 DEF Grows
<1>11. \A q : Children(q)' = IF link.kind = "flow" /\ q = p THEN Children(q) \cup {c.path} ELSE Children(q)
  <2> TAKE q
  <2>1. Children(q) = {e.to : e \in {x \in ToSet(edges) : x.from = q}}
    BY ChildrenOf
  <2>2. Children(q)' = {e.to : e \in {x \in ToSet(edges') : x.from = q}}
    BY DEF Children, ToSet
  <2> DEFINE edge == [from |-> p, to |-> c.path]
  <2>3. edge.from = p /\ edge.to = c.path
    OBVIOUS
  <2> HIDE DEF edge
  <2>4. CASE link.kind = "flow"
    <3>1. ToSet(edges') = ToSet(edges) \cup {edge}
      BY <1>9, <2>4 DEF edge
    <3> HIDE DEF p
    <3>2. CASE q = p
      BY <2>1, <2>2, <2>3, <2>4, <3>1, <3>2
    <3>3. CASE q # p
      BY <2>1, <2>2, <2>3, <2>4, <3>1, <3>3
    <3> QED
      BY <3>2, <3>3
  <2>5. CASE link.kind # "flow"
    BY <1>9, <2>1, <2>2, <2>5
  <2> QED
    BY <2>4, <2>5
<1>12. CASE c.code # "none" /\ End(c.code)
  BY <1>6, <1>12, CodesOfPaths, Ended
<1>13. CASE link.kind # "flow" /\ c.path = p /\ End("self_link")
  <2>1. "self_link" \notin Broken /\ "self_link" # "active_cycle"
    BY DEF Broken
  <2> QED
    BY <1>13, <2>1, Ended
<1>14. CASE link.kind = "flow" /\ c.path \notin black /\ c.path \in Gray /\ End("active_cycle")
  <2>1. PICK i \in 1..Len(stack) : stack[i].path = c.path
    BY <1>2, <1>14, ListFacts DEF Gray, StackInv
  <2>2. Reaches(c.path, p) /\ c.path \in ReadPaths
    <3>1. Reaches(stack[i].path, Top.path)
      BY <1>1, <1>2, StackReaches
    <3>2. stack[i].entered
      BY <1>1, <1>2, <1>3, <2>1 DEF StackInv, FrameFits
    <3>3. stack[i].path \in ReadPaths
      BY <1>2, <3>2 DEF StackInv, FrameFits
    <3> QED
      BY <2>1, <3>1, <3>3
  <2> SUFFICES ASSUME NEW q, q = c.path, NEW o, o = p
               PROVE  ProgInv'
    OBVIOUS
  <2>3. Reaches(q, o)' /\ q \in ReadPaths' /\ o \in ReadPaths'
    BY <1>4, <1>8, <1>10, <2>2, GrowsKeeps
  <2>4. q \in Linked(o)'
    <3>1. link \in FlowLinks(o)'
      BY <1>5, <1>8, <1>14 DEF FlowLinks
    <3> QED
      BY <1>7, <2>3, <3>1 DEF Linked
  <2>5. Cyclic'
    BY <2>3, <2>4 DEF Cyclic
  <2>6. "active_cycle" \notin Broken
    BY DEF Broken
  <2> QED
    BY <1>14, <2>5, <2>6, Ended
<1>15. /\ left.path = p /\ left.entered = frame.entered /\ left.links = Tail(frame.links) /\ IsFrame(left)
  BY <1>4, FrameChanged DEF IsFrame
<1>16. Pending(p, Tail(frame.links))'
  <2>1. Listed(Tail(frame.links)) /\ ToSet(frame.links) = {link} \cup ToSet(Tail(frame.links))
    BY <1>1, <1>4, TailListed DEF Pending
  <2>2. ASSUME NEW l \in FlowLinks(p), ~(l \in ToSet(Tail(frame.links))) PROVE Followed(p, l)'
    <3>1. CASE l = link
      <4>1. link.kind = "flow"
        BY <2>2, <3>1 DEF FlowLinks
      <4>2. c.path \in Children(p)'
        BY <1>11, <4>1
      <4> QED
        BY <1>7, <3>1, <4>2 DEF Followed
    <3>2. CASE l # link
      <4>1. Followed(p, l)
        BY <1>4, <2>1, <2>2, <3>2 DEF Pending
      <4> QED
        BY <1>10, <4>1, GrowsKeeps
    <3> QED
      BY <3>1, <3>2
  <2> QED
    BY <1>4, <1>8, <2>1, <2>2 DEF Pending
<1>17. BlackInv'
  <2>1. \A e \in ToSet(edges') : e.from \in ReadPaths'
    <3> DEFINE edge == [from |-> p, to |-> c.path]
    <3>1. edge.from = p
      OBVIOUS
    <3> HIDE DEF edge, p
    <3>2. ToSet(edges') \subseteq ToSet(edges) \cup {edge}
      BY <1>9 DEF edge, p
    <3> QED
      BY <1>2, <1>4, <1>8, <3>1, <3>2 DEF BlackInv
  <2>2. \A q \in black : Children(q)' \subseteq Children(q)
    BY <1>4, <1>11
  <2> QED
    BY <1>1, <1>2, <1>9, <1>10, <2>1, <2>2, BlackKept
<1>18. Walk => ReadInv'
  BY <1>1, <1>2 DEF ReadInv, Walk
<1>19. \A q \in ReadPaths' : \E r \in ToSet(walked') \cap ReadPaths' : Reaches(r, q)'
  <2>1. walked' = walked
    BY <1>1
  <2> QED
    BY <1>2, <1>8, <1>10, <2>1, RootsKept
<1>20. \A i \in 1..n : i # n => stack[i].path # p
  BY <1>2, <1>3 DEF StackInv
<1>21. ASSUME /\ n <= Len(stack') /\ Len(stack') \in Nat
              /\ stack'[n] = left /\ \A i \in 1..n : i # n => stack'[i] = stack[i]
       PROVE  /\ \A i \in 1..n : stack'[i].path = stack[i].path
              /\ \A i \in 1..n : i # n => FrameFits(i)'
  <2>1. \A i \in 1..n : stack'[i].path = stack[i].path
    BY <1>3, <1>15, <1>21
  <2>2. ASSUME NEW i \in 1..n, i # n PROVE FrameFits(i)'
    <3>1. FrameFits(i) /\ i < Len(stack) /\ i < Len(stack') /\ stack'[i] = stack[i] /\ i + 1 \in 1..n
      BY <1>2, <1>3, <1>21, <2>2 DEF StackInv
    <3>2. stack'[i + 1].path = stack[i + 1].path
      BY <2>1, <3>1
    <3>3. black' = black /\ stack[i].path \notin black'
      BY <1>1, <3>1 DEF FrameFits
    <3>4. \A q : q = stack[i].path => Children(q)' = Children(q)
      BY <1>11, <1>20, <2>2
    <3> QED
      BY <1>10, <3>1, <3>2, <3>3, <3>4, FrameKept
  <2> QED
    BY <2>1, <2>2
<1>22. CASE Walk /\ (link.kind = "flow" => c.path \in black) /\ stack' = Replaced(left)
  <2> HIDE DEF left
  <2>1. /\ Listed(stack') /\ Len(stack') = n /\ stack'[n] = left
        /\ \A i \in 1..n : i # n => stack'[i] = stack[i]
    BY <1>1, <1>2, <1>22, ReplacedTop
  <2>2. /\ \A i \in 1..n : stack'[i].path = stack[i].path
        /\ \A i \in 1..n : i # n => FrameFits(i)'
    <3>1. n <= Len(stack') /\ Len(stack') \in Nat
      BY <1>3, <2>1
    <3> QED
      BY <1>21, <2>1, <3>1
  <2>3. FrameFits(n)'
    <3>1. \A q \in Children(p)' : q \in black'
      BY <1>1, <1>4, <1>11, <1>22
    <3>2. ~(n < Len(stack')) /\ p \in ReadPaths' /\ p \notin black'
      BY <1>1, <1>3, <1>4, <1>8, <2>1
    <3> HIDE DEF p
    <3> DEFINE links == Tail(frame.links)
    <3>3. Pending(p, links)'
      BY <1>16
    <3> HIDE DEF links
    <3>4. stack'[n].path = p /\ stack'[n].entered /\ stack'[n].links = links /\ IsFrame(stack[n])'
      BY <1>1, <1>15, <2>1 DEF links, IsFrame
    <3> QED
      BY <1>4, <3>1, <3>2, <3>3, <3>4 DEF FrameFits
  <2>4. StackInv'
    <3>1. \A i \in 1..Len(stack') : FrameFits(i)'
      BY <2>1, <2>2, <2>3
    <3>2. \A i, j \in 1..Len(stack') : stack'[i].path = stack'[j].path => i = j
      BY <1>2, <2>1, <2>2 DEF StackInv
    <3>3. \A q \in ReadPaths' : q \in black' \/ \E i \in 1..Len(stack') : stack'[i].path = q
      BY <1>1, <1>2, <1>8, <2>1, <2>2 DEF StackInv
    <3> QED
      BY <2>1, <3>1, <3>2, <3>3 DEF StackInv
  <2>5. RootsInv'
    <3>1. walked' = walked /\ black' = black /\ 1 \in 1..n
      BY <1>1, <1>3
    <3>2. \A r \in ToSet(walked') : r \in black' \/ \E i \in 1..Len(stack') : stack'[i].path = r
      BY <1>2, <2>1, <2>2, <3>1 DEF RootsInv
    <3>3. stack'[1].path \in ToSet(walked')
      BY <1>1, <1>2, <2>2, <3>1 DEF RootsInv
    <3> QED
      BY <1>2, <1>19, <3>1, <3>2, <3>3 DEF RootsInv
  <2> QED
    BY <1>1, <1>7, <1>17, <1>18, <1>22, <2>4, <2>5, Walking DEF WalkInv
<1>23. CASE /\ Walk /\ link.kind = "flow" /\ c.path \notin black /\ c.path \notin Gray
            /\ stack' = Append(Replaced(left), Frame(c.path))
  <2> HIDE DEF left
  <2> SUFFICES ASSUME NEW t, t = Replaced(left), NEW q, q = c.path PROVE ProgInv'
    OBVIOUS
  <2>1. Listed(t) /\ Len(t) = n /\ t[n] = left /\ \A i \in 1..n : i # n => t[i] = stack[i]
    BY <1>1, <1>2, ReplacedTop
  <2>2. /\ Listed(stack') /\ Len(stack') = n + 1 /\ stack'[n + 1] = Frame(q)
        /\ \A i \in 1..n : stack'[i] = t[i]
    BY <1>23, <2>1, AppendListed
  <2>3. stack'[n] = left /\ \A i \in 1..n : i # n => stack'[i] = stack[i]
    BY <1>3, <2>1, <2>2
  <2>4. /\ \A i \in 1..n : stack'[i].path = stack[i].path
        /\ \A i \in 1..n : i # n => FrameFits(i)'
    BY <1>3, <1>21, <2>2, <2>3
  <2>5. \A i \in 1..n : stack[i].path # q
    BY <1>2, <1>23, ListFacts DEF Gray, StackInv
  <2>6. q \notin ReadPaths /\ q \notin black
    BY <1>2, <1>23, <2>5 DEF StackInv
  <2>7. Children(q)' = {}
    <3>1. Children(q) = {}
      BY <1>2, <2>6, ChildrenOf DEF BlackInv
    <3> QED
      BY <1>4, <1>11, <2>6, <3>1
  <2>8. stack'[n + 1].path = q /\ stack'[n + 1].entered = FALSE /\ IsFrame(stack'[n + 1])
    BY <2>2 DEF Frame, IsFrame
  <2>9. FrameFits(n)'
    <3>1. \A o \in Children(p)' : o \in black' \/ o = q
      BY <1>1, <1>4, <1>11
    <3>2. n < Len(stack') /\ p \in ReadPaths' /\ p \notin black'
      BY <1>1, <1>3, <1>4, <1>8, <2>2
    <3>3. q \in Targets(p)'
      <4>1. link \in FlowLinks(p)'
        BY <1>5, <1>8, <1>23 DEF FlowLinks
      <4> QED
        BY <1>7, <4>1 DEF Targets
    <3> HIDE DEF p
    <3> DEFINE links == Tail(frame.links)
    <3>4. Pending(p, links)'
      BY <1>16
    <3> HIDE DEF links
    <3>5. stack'[n].path = p /\ stack'[n].entered /\ stack'[n].links = links /\ IsFrame(stack[n])'
      BY <1>1, <1>15, <2>3 DEF links, IsFrame
    <3> QED
      BY <1>4, <2>8, <3>1, <3>2, <3>3, <3>4, <3>5 DEF FrameFits
  <2>10. FrameFits(n + 1)'
    <3>1. ~(n + 1 < Len(stack')) /\ q \notin ReadPaths' /\ q \notin black'
      BY <1>1, <1>3, <1>8, <2>2, <2>6
    <3>2. IsFrame(stack[n + 1])'
      BY <2>8 DEF IsFrame
    <3> QED
      BY <1>6, <2>7, <2>8, <3>1, <3>2 DEF FrameFits
  <2>11. \A i \in 1..Len(stack') : i \in 1..n \/ i = n + 1
    BY <1>3, <2>2
  <2>12. \A i \in 1..n : i \in 1..Len(stack')
    BY <1>3, <2>2
  <2>13. n + 1 \in 1..Len(stack')
    BY <1>3, <2>2
  <2>14. StackInv'
    <3>1. \A i \in 1..Len(stack') : FrameFits(i)'
      BY <2>4, <2>9, <2>10, <2>11
    <3>2. \A i, j \in 1..Len(stack') : stack'[i].path = stack'[j].path => i = j
      BY <1>2, <2>4, <2>5, <2>8, <2>11 DEF StackInv
    <3>3. \A o \in ReadPaths' : o \in black' \/ \E i \in 1..Len(stack') : stack'[i].path = o
      BY <1>1, <1>2, <1>8, <2>4, <2>12 DEF StackInv
    <3> QED
      BY <2>2, <3>1, <3>2, <3>3 DEF StackInv
  <2>15. RootsInv'
    <3>1. walked' = walked /\ black' = black /\ 1 \in 1..n
      BY <1>1, <1>3
    <3>2. \A r \in ToSet(walked') : r \in black' \/ \E i \in 1..Len(stack') : stack'[i].path = r
      BY <1>2, <2>4, <2>12, <3>1 DEF RootsInv
    <3>3. stack'[1].path \in ToSet(walked')
      BY <1>1, <1>2, <2>4, <3>1 DEF RootsInv
    <3> QED
      BY <1>2, <1>19, <3>1, <3>2, <3>3 DEF RootsInv
  <2> QED
    BY <1>1, <1>7, <1>17, <1>18, <1>23, <2>14, <2>15, Walking DEF WalkInv
<1> QED
  BY <1>1, <1>12, <1>13, <1>14, <1>22, <1>23

-----------------------------------------------------------------------------
(* The compilation                                                         *)

\* A set is as large as a list of its elements, each listed once.
LEMMA ListCardinality ==
    ASSUME NEW n \in Nat, NEW S, NEW f \in [1..n -> S],
           \A i, j \in 1..n : f[i] = f[j] => i = j, \A e \in S : \E i \in 1..n : f[i] = e
    PROVE  IsFiniteSet(S) /\ Cardinality(S) = n
<1>1. f \in Injection(1..n, S)
  BY DEF Injection, IsInjective
<1>2. f \in Surjection(1..n, S)
  BY DEF Surjection
<1>3. ExistsBijection(1..n, S)
  BY <1>1, <1>2 DEF ExistsBijection, Bijection
<1>4. IsFiniteSet(1..n) /\ Cardinality(1..n) = n
  BY FS_Interval
<1> QED
  BY <1>3, <1>4, FS_Bijection

\* All are compiled when as many are compiled as were read.
LEMMA CompiledAll ==
    ASSUME ReadInv, CompileInv
    PROVE  /\ IsFiniteSet(ReadPaths) /\ Cardinality(ReadPaths) = Len(read)
           /\ Len(compiled) = Len(read) <=> ToSet(compiled) = ReadPaths
<1>1. IsFiniteSet(ReadPaths) /\ Cardinality(ReadPaths) = Len(read)
  <2> DEFINE n == Len(read)
             f == [i \in 1..n |-> read[i].path]
  <2>1. n \in Nat /\ (\A i \in 1..n : read[i].path \in ReadPaths) /\ DOMAIN read = 1..n
    BY ReadFacts
  <2>2. \A i, j \in 1..n : read[i].path = read[j].path => i = j
    BY DEF ReadInv
  <2>3. \A p \in ReadPaths : \E i \in 1..n : read[i].path = p
    BY <2>1 DEF ReadPaths
  <2> HIDE DEF n
  <2>4. f \in [1..n -> ReadPaths] /\ \A i \in 1..n : f[i] = read[i].path
    BY <2>1
  <2> HIDE DEF f
  <2>5. (\A i, j \in 1..n : f[i] = f[j] => i = j) /\ \A p \in ReadPaths : \E i \in 1..n : f[i] = p
    BY <2>2, <2>3, <2>4
  <2>6. IsFiniteSet(ReadPaths) /\ Cardinality(ReadPaths) = n
    BY <2>1, <2>4, <2>5, ListCardinality
  <2> QED
    BY <2>6 DEF n
<1>2. IsFiniteSet(ToSet(compiled)) /\ Cardinality(ToSet(compiled)) = Len(compiled)
  <2> DEFINE n == Len(compiled)
  <2>1. /\ n \in Nat /\ (\A i \in 1..n : compiled[i] \in ToSet(compiled)) /\ compiled \in Seq(ToSet(compiled))
        /\ \A e \in ToSet(compiled) : \E i \in 1..n : compiled[i] = e
    BY ListFacts DEF CompileInv
  <2>2. \A i, j \in 1..n : compiled[i] = compiled[j] => i = j
    BY DEF CompileInv
  <2>3. compiled \in [1..n -> ToSet(compiled)]
    BY <2>1, LenProperties
  <2> HIDE DEF n
  <2>4. Cardinality(ToSet(compiled)) = n /\ IsFiniteSet(ToSet(compiled))
    BY <2>1, <2>2, <2>3, ListCardinality
  <2> QED
    BY <2>4 DEF n
<1>3. ToSet(compiled) \in SUBSET ReadPaths
  BY DEF CompileInv
<1>4. Cardinality(ReadPaths) = Cardinality(ToSet(compiled)) => ReadPaths = ToSet(compiled)
  BY <1>1, <1>3, FS_Subset
<1> QED
  BY <1>1, <1>2, <1>4

\* The largest of numbers that have a bound.
LEMMA LargestNumber ==
    ASSUME NEW S \in SUBSET Nat, S # {}, NEW n \in Nat, \A k \in S : k <= n
    PROVE  Max(S) \in S
<1> DEFINE U == {u \in Nat : \A k \in S : k <= u}
<1>1. U \in SUBSET Nat /\ n \in U
  OBVIOUS
<1>2. PICK u \in U : \A v \in U : u <= v
  <2> HIDE DEF U
  <2> QED
    BY <1>1, LeastNumber
<1>3. u \in S
  <2> SUFFICES ASSUME u \notin S PROVE FALSE
    OBVIOUS
  <2>1. \A k \in S : k < u
    BY <1>2
  <2>2. u \in Nat /\ u # 0
    <3>1. PICK k \in S : TRUE
      OBVIOUS
    <3>2. k \in Nat /\ u \in Nat /\ k < u
      BY <1>2, <2>1, <3>1
    <3> QED
      BY <3>2
  <2>3. u - 1 \in U
    BY <2>1, <2>2
  <2> QED
    BY <1>2, <2>2, <2>3
<1>4. \A k \in S : u >= k
  BY <1>2
<1>5. \E x \in S : \A y \in S : x >= y
  BY <1>3, <1>4
<1> QED
  BY <1>5 DEF Max

\* Of the flows whose turn has come, one is before the others.
LEMMA FirstReady ==
    ASSUME ReadInv, CompileInv, ReadyFlows # {}
    PROVE  \E r \in ReadyFlows : \A q \in ReadyFlows \ {r} : Before(r, q)
<1>1. ASSUME NEW p \in ReadPaths
      PROVE  ReadyAt(p)[1] \in Nat /\ ReadyAt(p)[2] \in Nat /\ read[ReadyAt(p)[2]].path = p
  <2> DEFINE S == {0} \cup {i \in DOMAIN compiled : compiled[i] \in Children(p)}
  <2>1. DOMAIN compiled = 1..Len(compiled) /\ Len(compiled) \in Nat
    BY ListFacts DEF CompileInv
  <2>2. S \in SUBSET Nat /\ S # {} /\ \A k \in S : k <= Len(compiled)
    BY <2>1
  <2> HIDE DEF S
  <2>3. Max(S) \in Nat
    BY <2>1, <2>2, LargestNumber
  <2>4. ReadAt(p) \in Nat /\ read[ReadAt(p)].path = p
    BY ReadFacts
  <2>5. ReadyAt(p) = <<Max(S), ReadAt(p)>>
    BY DEF ReadyAt, S
  <2> QED
    BY <2>3, <2>4, <2>5
<1>2. ReadyFlows \subseteq ReadPaths
  BY DEF ReadyFlows
<1> DEFINE N == {ReadyAt(p)[1] : p \in ReadyFlows}
<1>3. PICK n \in N : \A m \in N : n <= m
  <2>1. N \in SUBSET Nat /\ N # {}
    BY <1>1, <1>2
  <2> HIDE DEF N
  <2> QED
    BY <2>1, LeastNumber
<1> DEFINE M == {ReadyAt(p)[2] : p \in {q \in ReadyFlows : ReadyAt(q)[1] = n}}
<1>4. PICK m \in M : \A k \in M : m <= k
  <2>1. M \in SUBSET Nat /\ M # {}
    BY <1>1, <1>2, <1>3
  <2> HIDE DEF M
  <2> QED
    BY <2>1, LeastNumber
<1>5. PICK r \in ReadyFlows : ReadyAt(r)[1] = n /\ ReadyAt(r)[2] = m
  BY <1>4
<1>6. ASSUME NEW q \in ReadyFlows \ {r} PROVE Before(r, q)
  <2>1. n \in Nat /\ m \in Nat /\ ReadyAt(q)[1] \in Nat /\ ReadyAt(q)[2] \in Nat
    BY <1>1, <1>2, <1>5
  <2>2. n <= ReadyAt(q)[1]
    BY <1>3
  <2>3. ReadyAt(q)[1] = n => m <= ReadyAt(q)[2]
    BY <1>4
  <2>4. ReadyAt(q)[2] # m
    BY <1>1, <1>2, <1>5
  <2> QED
    BY <1>5, <2>1, <2>2, <2>3, <2>4 DEF Before
<1> QED
  BY <1>6

\* When the walk is done, no links form a cycle: while a flow is left to compile, the turn
\* of one has come.
LEMMA WalkDone ==
    ASSUME WalkInv, stack = <<>>
    PROVE  black = ReadPaths /\ ToSet(walked) \subseteq ReadPaths
<1>1. \A i \in 1..Len(stack) : FALSE
  BY EmptyListed
<1>2. ReadPaths \subseteq black
  BY <1>1 DEF WalkInv, StackInv
<1>3. ToSet(walked) \subseteq black
  BY <1>1 DEF WalkInv, RootsInv
<1>4. black \subseteq ReadPaths
  BY DEF WalkInv, BlackInv
<1> QED
  BY <1>2, <1>3, <1>4

LEMMA SomeReady ==
    ASSUME WalkInv, stack = <<>>, CompileInv, Len(compiled) # Len(read)
    PROVE  ReadyFlows # {}
<1> DEFINE S == ReadPaths \ ToSet(compiled)
<1>1. S # {}
  BY CompiledAll DEF WalkInv, CompileInv
<1>2. black = ReadPaths
  BY WalkDone
<1>3. PICK p \in S : Children(p) \cap S = {}
  BY <1>1, <1>2 DEF WalkInv, BlackInv
<1>4. Children(p) \subseteq ReadPaths
  BY <1>2, <1>3 DEF WalkInv, BlackInv
<1> QED
  BY <1>3, <1>4 DEF ReadyFlows

\* The engine finds every link of a flow whose turn has come proven, declared and compiled.
LEMMA LinksMet ==
    ASSUME WalkInv, stack = <<>>, CompileInv, NEW p \in ReadyFlows
    PROVE  \A i \in DOMAIN LinkCodes(p) : LinkCodes(p)[i] = "none"
<1> DEFINE links == CollectLinks(FlowAt(p))
<1>1. p \in ReadPaths /\ Children(p) \subseteq ToSet(compiled) /\ ToSet(compiled) \subseteq ReadPaths
  BY DEF ReadyFlows, CompileInv
<1>2. \A link \in FlowLinks(p) : Followed(p, link)
  BY <1>1, WalkDone DEF WalkInv, BlackInv
<1>3. Listed(links)
  BY <1>1, ReadFacts, LinksListed DEF WalkInv
<1>4. ASSUME NEW i \in DOMAIN links, links[i].kind = "flow" PROVE RequireCode(p, links[i]) = "none"
  <2>1. links[i] \in ToSet(links)
    BY DEF ToSet
  <2>2. links[i] \in FlowLinks(p)
    BY <1>4, <2>1 DEF FlowLinks
  <2> DEFINE link == links[i]
             c == canon[link.to].path
  <2>3. link.to \in DOMAIN canon /\ c \in Children(p)
    BY <1>2, <2>2 DEF Followed
  <2>4. c \in ReadPaths /\ c \in ToSet(compiled)
    BY <1>1, <2>3
  <2> HIDE DEF link
  <2>5. RequireCode(p, link) = "none"
    BY <2>3, <2>4 DEF RequireCode
  <2> QED
    BY <2>5 DEF link
<1>5. LinkCodes(p) = [i \in DOMAIN links |-> IF links[i].kind = "flow" THEN RequireCode(p, links[i]) ELSE "none"]
  BY DEF LinkCodes
<1> HIDE DEF links
<1> QED
  BY <1>4, <1>5

-----------------------------------------------------------------------------
(* The program                                                             *)

LEMMA WalkUnchanged ==
    ASSUME WalkInv, selection' = selection, UNCHANGED <<walked, stack, black, canon, read, edges>>
    PROVE  /\ WalkInv' /\ ReadPaths' = ReadPaths
           /\ \A p : FlowAt(p)' = FlowAt(p) /\ Children(p)' = Children(p)
<1>1. Grows /\ ReadPaths' = ReadPaths /\ \A p : FlowAt(p)' = FlowAt(p) /\ Children(p)' = Children(p)
  BY DEF Grows, ReadPaths, FlowAt, ReadAt, Children
<1>2. CanonInv' /\ ReadInv'
  BY DEF WalkInv, CanonInv, ReadInv
<1>3. BlackInv'
  <2>1. Listed(edges') /\ \A e \in ToSet(edges') : e.from \in ReadPaths'
    BY <1>1 DEF WalkInv, BlackInv
  <2> QED
    BY <1>1, <2>1, BlackKept DEF WalkInv
<1>4. StackInv'
  <2>1. ASSUME NEW i \in 1..Len(stack) PROVE FrameFits(i)'
    <3> SUFFICES ASSUME NEW frame, frame = stack[i], NEW n, n = Len(stack), NEW above, above = stack[i + 1]
                 PROVE  FrameFits(i)'
      OBVIOUS
    <3>1. /\ IsFrame(frame) /\ frame.path \in Paths \ black
          /\ i < n => frame.entered /\ above.path \in Targets(frame.path)
          /\ frame.entered <=> frame.path \in ReadPaths
          /\ frame.entered => Pending(frame.path, frame.links)
          /\ \A p \in Children(frame.path) : p \in black \/ (i < n /\ p = above.path)
      BY DEF WalkInv, StackInv, FrameFits
    <3>2. \A p : Targets(p)' = Targets(p)
      BY <1>1 DEF Targets, FlowLinks
    <3>3. frame.entered => Pending(frame.path, frame.links)'
      BY <1>1, <3>1, PendingKept
    <3>4. IsFrame(frame)' = IsFrame(frame)
      BY DEF IsFrame
    <3>5. stack'[i] = frame /\ stack'[i + 1] = above /\ Len(stack') = n /\ black' = black
      OBVIOUS
    <3> QED
      BY <1>1, <3>1, <3>2, <3>3, <3>4, <3>5 DEF FrameFits
  <2> QED
    BY <1>1, <2>1 DEF WalkInv, StackInv
<1>5. RootsInv'
  <2>1. \A p \in ReadPaths' : \E r \in ToSet(walked') \cap ReadPaths' : Reaches(r, p)'
    BY <1>1, RootsKept DEF WalkInv
  <2> QED
    BY <2>1 DEF WalkInv, RootsInv
<1> QED
  BY <1>1, <1>2, <1>3, <1>4, <1>5 DEF WalkInv

LEMMA CompiledUnchanged ==
    ASSUME CompileInv, UNCHANGED <<compiled, read, edges>>
    PROVE  CompileInv'
  BY DEF CompileInv, ReadPaths, Children

LEMMA FinishCheckKeeps ==
    ASSUME ProgInv, FinishCheck
    PROVE  ProgInv'
<1>1. /\ task = "check" /\ task' = "compile" /\ stack = <<>> /\ compiled = <<>> /\ violation = "none" /\ WalkInv
      /\ UNCHANGED <<files, selection, walked, stack, black, canon, read, edges, compiled, violation>>
  BY DEF FinishCheck, ProgInv
<1>2. FilesInv' /\ WalkInv'
  BY <1>1, WalkUnchanged DEF ProgInv, FilesInv
<1>3. Listed(compiled') /\ Len(compiled') = 0 /\ ToSet(compiled') = {}
  BY <1>1, EmptyListed
<1>4. CompileInv'
  BY <1>3 DEF CompileInv
<1> QED
  BY <1>1, <1>2, <1>4 DEF ProgInv, Broken

LEMMA CompileFlowKeeps ==
    ASSUME ProgInv, CompileFlow
    PROVE  ProgInv'
<1>1. /\ task = "compile" /\ stack = <<>> /\ violation = "none" /\ WalkInv /\ CompileInv
      /\ UNCHANGED <<files, selection, walked, stack, black, canon, read, edges>>
  BY DEF CompileFlow, ProgInv
<1>2. /\ FilesInv' /\ WalkInv' /\ ReadPaths' = ReadPaths /\ stack' = <<>>
      /\ \A p : FlowAt(p)' = FlowAt(p) /\ Children(p)' = Children(p)
  BY <1>1, WalkUnchanged DEF ProgInv, FilesInv
<1>3. CASE Len(compiled) = Len(read)
  <2>1. task' = "ready" /\ compiled' = compiled /\ violation' = violation /\ read' = read
    BY <1>1, <1>3 DEF CompileFlow
  <2>2. CompileInv'
    BY <1>1, <2>1, CompiledUnchanged
  <2> QED
    BY <1>1, <1>2, <1>3, <2>1, <2>2 DEF ProgInv, Broken
<1>4. CASE Len(compiled) # Len(read)
  <2>1. ReadyFlows # {}
    BY <1>1, <1>4, SomeReady
  <2> DEFINE p == CHOOSE r \in ReadyFlows : \A q \in ReadyFlows \ {r} : Before(r, q)
             codes == LinkCodes(p)
             unmet == {i \in DOMAIN codes : codes[i] # "none"}
  <2>2. p \in ReadyFlows
    BY <1>1, <2>1, FirstReady DEF WalkInv
  <2>3. unmet = {}
    <3> HIDE DEF p
    <3> QED
      BY <1>1, <2>2, LinksMet
  <2>4. compiled' = Append(compiled, p) /\ task' = task /\ violation' = violation
    BY <1>4, <2>1, <2>3 DEF CompileFlow
  <2> HIDE DEF p, codes, unmet
  <2> SUFFICES ASSUME NEW f, f = p PROVE ProgInv'
    OBVIOUS
  <2>5. /\ Listed(compiled') /\ Len(compiled') = Len(compiled) + 1 /\ compiled'[Len(compiled) + 1] = f
        /\ \A i \in 1..Len(compiled) : compiled'[i] = compiled[i]
        /\ ToSet(compiled') = ToSet(compiled) \cup {f}
    BY <1>1, <2>4, AppendListed DEF CompileInv
  <2> DEFINE n == Len(compiled)
  <2>6. n \in Nat /\ (\A i \in 1..n : compiled[i] \in ToSet(compiled)) /\ \A e \in ToSet(compiled) : \E i \in 1..n : compiled[i] = e
    BY <1>1, ListFacts DEF CompileInv
  <2> HIDE DEF n
  <2>7. \A i \in 1..Len(compiled') : i \in 1..n \/ i = n + 1
    BY <2>5, <2>6 DEF n
  <2>8. f \in ReadPaths /\ f \notin ToSet(compiled) /\ Children(f) \subseteq ToSet(compiled)
    BY <2>2 DEF ReadyFlows
  <2>9. ToSet(compiled') \subseteq ReadPaths'
    BY <1>1, <1>2, <2>5, <2>8 DEF CompileInv
  <2>10. ASSUME NEW i \in 1..Len(compiled'), NEW j \in 1..Len(compiled'), compiled'[i] = compiled'[j] PROVE i = j
    BY <1>1, <2>5, <2>6, <2>7, <2>8, <2>10 DEF CompileInv, n
  <2>11. ASSUME NEW i \in 1..Len(compiled'), NEW q, q \in Children(compiled'[i])
         PROVE  \E j \in 1..i - 1 : compiled'[j] = q
    <3>1. CASE i \in 1..n
      <4>1. PICK j \in 1..i - 1 : compiled[j] = q
        BY <1>1, <2>5, <2>11, <3>1 DEF CompileInv, n
      <4>2. j \in 1..n
        BY <2>6, <3>1
      <4> QED
        BY <2>5, <4>1, <4>2 DEF n
    <3>2. CASE i = n + 1
      <4>1. compiled'[i] = f
        BY <2>5, <3>2 DEF n
      <4>2. PICK j \in 1..n : compiled[j] = q
        BY <2>6, <2>8, <2>11, <4>1
      <4>3. j \in 1..i - 1
        BY <2>6, <3>2
      <4> QED
        BY <2>5, <4>2, <4>3 DEF n
    <3> QED
      BY <2>7, <3>1, <3>2
  <2>12. CompileInv'
    <3>1. \A i \in 1..Len(compiled') : Children(compiled[i])' = Children(compiled'[i])
      BY <1>1 DEF Children
    <3> QED
      BY <2>5, <2>9, <2>10, <2>11, <3>1 DEF CompileInv
  <2> QED
    BY <1>1, <1>2, <2>4, <2>12 DEF ProgInv, Broken
<1> QED
  BY <1>3, <1>4

LEMMA SaveKeeps ==
    ASSUME WorkspacesAssumption, ProgInv, Save
    PROVE  ProgInv'
<1>1. UNCHANGED <<selection, task, walked, stack, black, canon, read, edges, compiled, violation>>
  BY DEF Save
<1>2. PICK v \in Savings : files' = [files EXCEPT ![v.path] = v.holds]
  BY DEF Save
<1>3. FilesInv'
  <2>1. v.path \in Paths /\ Held(v.holds)
    BY DEF WorkspacesAssumption
  <2>2. Paths = DOMAIN files /\ \A p \in Paths : Held(files[p])
    BY DEF ProgInv, FilesInv
  <2>3. DOMAIN files' = Paths /\ \A p \in Paths : files'[p] = IF p = v.path THEN v.holds ELSE files[p]
    BY <1>2, <2>2
  <2>4. \A p \in Paths : Held(files'[p])
    BY <2>1, <2>2, <2>3
  <2> QED
    BY <1>1, <2>3, <2>4 DEF ProgInv, FilesInv
<1>4. task \in {"check", "compile"} /\ violation = "none" /\ WalkInv
  BY DEF Save, ProgInv
<1>5. WalkInv' /\ ReadPaths' = ReadPaths /\ \A p : Children(p)' = Children(p)
  BY <1>1, <1>4, WalkUnchanged
<1>6. CompileInv => CompileInv'
  BY <1>1, CompiledUnchanged
<1> QED
  BY <1>1, <1>3, <1>4, <1>5, <1>6 DEF ProgInv, Broken

LEMMA ProgStays ==
    ASSUME ProgInv, UNCHANGED progVars
    PROVE  ProgInv'
<1>1. UNCHANGED <<files, selection, task, walked, stack, black, canon, read, edges, compiled, violation>>
  BY DEF progVars
<1>2. FilesInv' /\ (violation' = "active_cycle" => Cyclic')
  <2>1. Cyclic => Cyclic'
    <3>1. ReadPaths' = ReadPaths /\ \A p : FlowAt(p)' = FlowAt(p)
      BY <1>1 DEF ReadPaths, FlowAt, ReadAt
    <3>2. \A p : Linked(p)' = Linked(p)
      BY <1>1, <3>1 DEF Linked, FlowLinks
    <3>3. \A p, q : Reaches(p, q)' = Reaches(p, q)
      BY <3>1, <3>2 DEF Reaches, KeepsTo
    <3> QED
      BY <3>1, <3>2, <3>3 DEF Cyclic
  <2> QED
    BY <1>1, <2>1 DEF ProgInv, FilesInv
<1>3. task # "refused" => WalkInv' /\ (CompileInv => CompileInv')
  <2> HAVE task # "refused"
  <2>1. WalkInv
    BY DEF ProgInv
  <2>2. WalkInv' /\ ReadPaths' = ReadPaths /\ \A p : Children(p)' = Children(p)
    BY <1>1, <2>1, WalkUnchanged
  <2> QED
    BY <1>1, <2>2, CompiledUnchanged
<1> QED
  BY <1>1, <1>2, <1>3 DEF ProgInv

\* In a program that is ready, every flow that was read is compiled.
LEMMA ReadyIsWhole ==
    ASSUME ProgInv
    PROVE  ProgramIsWhole
<1>1. ASSUME task = "ready"
      PROVE  /\ Len(compiled) = Cardinality(ReadPaths) /\ ToSet(compiled) = ReadPaths
             /\ ToSet(walked) \subseteq ReadPaths
             /\ \A p \in ReadPaths : \E r \in ToSet(walked) : Reaches(r, p)
             /\ \A i \in DOMAIN compiled :
                   LET f == FlowAt(compiled[i])
                   IN  /\ \A link \in FlowLinks(compiled[i]) : \E j \in 1 .. i - 1 : compiled[j] = canon[link.to].path
                       /\ ~f.url => InspectCommands(Commands(f), selection.platform) = <<>>
  <2>1. WalkInv /\ CompileInv /\ stack = <<>> /\ Len(compiled) = Len(read)
    BY <1>1 DEF ProgInv
  <2>2. Len(compiled) = Cardinality(ReadPaths) /\ ToSet(compiled) = ReadPaths
    BY <2>1, CompiledAll DEF WalkInv
  <2>3. black = ReadPaths /\ ToSet(walked) \subseteq ReadPaths
    BY <2>1, WalkDone
  <2>4. \A p \in ReadPaths : \E r \in ToSet(walked) : Reaches(r, p)
    BY <2>1 DEF WalkInv, RootsInv
  <2>5. ASSUME NEW i \in DOMAIN compiled
        PROVE  LET f == FlowAt(compiled[i])
               IN  /\ \A link \in FlowLinks(compiled[i]) : \E j \in 1 .. i - 1 : compiled[j] = canon[link.to].path
                   /\ ~f.url => InspectCommands(Commands(f), selection.platform) = <<>>
    <3>1. i \in 1..Len(compiled)
      BY <2>1, ListFacts DEF CompileInv
    <3> DEFINE p == compiled[i]
    <3>2. p \in ReadPaths
      BY <2>1, <2>2, <3>1, ListFacts DEF CompileInv
    <3>3. \A c \in Children(p) : \E j \in 1..i - 1 : compiled[j] = c
      BY <2>1, <3>1 DEF CompileInv
    <3>4. \A link \in FlowLinks(p) : canon[link.to].path \in Children(p)
      BY <2>1, <2>3, <3>2 DEF WalkInv, BlackInv, Followed
    <3>5. FlowListed(FlowAt(p)) /\ InspectFlow(FlowAt(p), selection.platform) = <<>>
      BY <2>1, <3>2, ReadFacts DEF WalkInv
    <3>6. ~FlowAt(p).url => InspectCommands(Commands(FlowAt(p)), selection.platform) = <<>>
      BY <3>5, InspectListed
    <3> QED
      BY <3>3, <3>4, <3>6
  <2> QED
    BY <2>2, <2>3, <2>4, <2>5
<1>2. violation \notin Broken /\ (violation = "active_cycle" => Cyclic)
  BY DEF ProgInv
<1> QED
  BY <1>1, <1>2 DEF ProgramIsWhole, Broken, Cyclic

\* Whatever an editor saves meanwhile, a program that compiles is whole: every flow the roots
\* reach was read once and compiled after the flows it links, no command of one is refused by
\* its platform, and only a cycle is refused as one.
THEOREM CompiledProgramIsWhole == ProgSpec => []ProgramIsWhole
<1> USE WorkspacesAssumption
<1>1. ProgInit => ProgInv
  BY ProgStart
<1>2. ProgInv /\ [ProgNext]_progVars => ProgInv'
  <2> SUFFICES ASSUME ProgInv, [ProgNext]_progVars PROVE ProgInv'
    OBVIOUS
  <2>1. CASE NextRoot
    BY <2>1, NextRootKeeps
  <2>2. CASE EnterFlow
    BY <2>2, EnterFlowKeeps
  <2>3. CASE LeaveFlow
    BY <2>3, LeaveFlowKeeps
  <2>4. CASE FollowLink
    BY <2>4, FollowLinkKeeps
  <2>5. CASE FinishCheck
    BY <2>5, FinishCheckKeeps
  <2>6. CASE CompileFlow
    BY <2>6, CompileFlowKeeps
  <2>7. CASE ContextEnds
    <3>1. End("cancelled") /\ "cancelled" \notin Broken /\ "cancelled" # "active_cycle"
      BY <2>7 DEF ContextEnds, Broken
    <3> QED
      BY <3>1, Ended
  <2>8. CASE Save
    BY <2>8, SaveKeeps
  <2>9. CASE UNCHANGED progVars
    BY <2>9, ProgStays
  <2> QED
    BY <2>1, <2>2, <2>3, <2>4, <2>5, <2>6, <2>7, <2>8, <2>9 DEF ProgNext, ProgStep
<1>3. ProgInv => ProgramIsWhole
  BY ReadyIsWhole
<1> QED
  BY <1>1, <1>2, <1>3, PTL DEF ProgSpec

-----------------------------------------------------------------------------
(* The classes of errors                                                   *)

Classes == {"none", "skipped", "retryable", "failure", "configuration", "device", "cancelled"}
Findings == [class: Classes, aggregate: BOOLEAN, invalid: BOOLEAN]

LEMMA Ranks ==
    /\ Rank("none") = 1 /\ Rank("skipped") = 2 /\ Rank("retryable") = 3 /\ Rank("failure") = 4
    /\ Rank("configuration") = 5 /\ Rank("device") = 6 /\ Rank("cancelled") = 7
<1> DEFINE P == Precedence
<1>1. /\ DOMAIN P = 1..7 /\ P[1] = "none" /\ P[2] = "skipped" /\ P[3] = "retryable"
      /\ P[4] = "failure" /\ P[5] = "configuration" /\ P[6] = "device" /\ P[7] = "cancelled"
  BY DEF Precedence
<1>2. \A i \in 1..7 : i = 1 \/ i = 2 \/ i = 3 \/ i = 4 \/ i = 5 \/ i = 6 \/ i = 7
  OBVIOUS
<1>3. \A class : Rank(class) = CHOOSE i \in 1..7 : P[i] = class
  BY <1>1 DEF Rank
<1> HIDE DEF P
<1>4. /\ 1 \in 1..7 /\ 2 \in 1..7 /\ 3 \in 1..7 /\ 4 \in 1..7 /\ 5 \in 1..7 /\ 6 \in 1..7 /\ 7 \in 1..7
  OBVIOUS
<1>5. \A class, i : i \in 1..7 /\ P[i] = class /\ (\A j \in 1..7 : P[j] = class => j = i) => Rank(class) = i
  <2> TAKE class, i
  <2> SUFFICES ASSUME i \in 1..7, P[i] = class, \A j \in 1..7 : P[j] = class => j = i
               PROVE  (CHOOSE j \in 1..7 : P[j] = class) = i
    BY <1>3
  <2> QED
    OBVIOUS
<1>6. \A i, j \in 1..7 : P[i] = P[j] => i = j
  BY <1>1, <1>2
<1> QED
  BY <1>1, <1>4, <1>5, <1>6

LEMMA RanksApart ==
    /\ \A c \in Classes : Rank(c) \in 1..7
    /\ \A c, d \in Classes : Rank(c) = Rank(d) => c = d
  BY Ranks DEF Classes

LEMMA WorseOf ==
    ASSUME NEW c \in Classes, NEW d \in Classes
    PROVE  /\ Worse(c, d) \in {c, d} /\ Worse(c, d) \in Classes
           /\ Rank(c) <= Rank(Worse(c, d)) /\ Rank(d) <= Rank(Worse(c, d))
  BY RanksApart DEF Worse

\* A sequence given by its elements.
LEMMA ListOf ==
    ASSUME NEW n \in Nat, NEW S, NEW s \in [1..n -> S]
    PROVE  s \in Seq(S) /\ Len(s) = n /\ DOMAIN s = 1..n
<1>1. s \in Seq(S)
  BY IsASeq
<1>2. DOMAIN s = 1..Len(s) /\ Len(s) \in Nat
  BY <1>1, LenProperties
<1> QED
  BY <1>1, <1>2

\* Joined errors make the worst of their classes, in whatever order they were joined.
LEMMA MergedWorst ==
    ASSUME NEW own \in Classes, NEW n \in Nat, NEW s \in [1..n -> Classes]
    PROVE  /\ Merged(own, s) \in {own} \cup {s[k] : k \in 1..n}
           /\ Rank(own) <= Rank(Merged(own, s))
           /\ \A k \in 1..n : Rank(s[k]) <= Rank(Merged(own, s))
<1> DEFINE Body(m) == [k \in 0..n |-> IF k = 0 THEN own ELSE Worse(m[k - 1], s[k])]
           worst == CHOOSE m : m = Body(m)
<1>1. Len(s) = n
  BY ListOf
<1>2. Merged(own, s) = worst[n]
  BY <1>1 DEF Merged
<1>3. \E m : m = Body(m)
  <2> DEFINE Turn == [k \in 1..n |-> [c \in Classes |-> Worse(c, s[k])]]
  <2>1. \A k \in 1..n, c \in Classes : Turn[k][c] = Worse(c, s[k]) /\ Turn[k][c] \in Classes
    BY WorseOf
  <2> HIDE DEF Turn
  <2>2. PICK f : History(n, Classes, own, Turn, f)
    <3>1. Loop(n, Classes, Turn)
      BY <2>1 DEF Loop
    <3> QED
      BY <3>1, HistoryExists
  <2>3. \A k \in 1..n : f[k] = Worse(f[k - 1], s[k])
    <3> TAKE k \in 1..n
    <3>1. k - 1 \in 0..n
      OBVIOUS
    <3> QED
      BY <2>1, <2>2, <3>1 DEF History
  <2>4. f = Body(f)
    BY <2>2, <2>3 DEF History
  <2> QED
    BY <2>4
<1>4. worst = Body(worst)
  BY <1>3
<1> HIDE DEF worst
<1>5. worst[0] = own /\ \A k \in 1..n : worst[k] = Worse(worst[k - 1], s[k])
  <2>1. 0 \in 0..n /\ \A k \in 1..n : k \in 0..n /\ k # 0
    OBVIOUS
  <2> QED
    BY <1>4, <2>1
<1> DEFINE Right(k) == /\ worst[k] \in {own} \cup {s[j] : j \in 1..n}
                       /\ Rank(own) <= Rank(worst[k])
                       /\ \A j \in 1..k : Rank(s[j]) <= Rank(worst[k])
           S == {k \in Nat : k <= n => Right(k)}
<1>6. 0 \in S
  BY <1>5, RanksApart
<1>7. ASSUME NEW k \in Nat, k \in S PROVE k + 1 \in S
  <2> SUFFICES ASSUME k + 1 <= n PROVE Right(k + 1)
    OBVIOUS
  <2>1. k + 1 \in 1..n /\ (k + 1) - 1 = k /\ Right(k)
    BY <1>7
  <2>2. worst[k] \in Classes /\ s[k + 1] \in Classes /\ \A j \in 1..k : s[j] \in Classes
    BY <2>1
  <2>3. worst[k + 1] = Worse(worst[k], s[k + 1])
    BY <1>5, <2>1
  <2>4. /\ worst[k + 1] \in {worst[k], s[k + 1]} /\ worst[k + 1] \in Classes
        /\ Rank(worst[k]) <= Rank(worst[k + 1]) /\ Rank(s[k + 1]) <= Rank(worst[k + 1])
    BY <2>2, <2>3, WorseOf
  <2>5. ASSUME NEW j \in 1..(k + 1) PROVE Rank(s[j]) <= Rank(worst[k + 1])
    <3>1. j = k + 1 \/ j \in 1..k
      OBVIOUS
    <3>2. Rank(s[j]) \in Nat /\ Rank(worst[k]) \in Nat /\ Rank(worst[k + 1]) \in Nat
      BY <2>2, <2>4, <3>1, RanksApart
    <3> QED
      BY <2>1, <2>4, <3>1, <3>2
  <2>6. Rank(own) \in Nat /\ Rank(worst[k]) \in Nat /\ Rank(worst[k + 1]) \in Nat
    BY <2>2, <2>4, RanksApart
  <2> QED
    BY <2>1, <2>4, <2>5, <2>6
<1>8. \A k \in Nat : k \in S
  <2> HIDE DEF S
  <2> QED
    BY <1>6, <1>7, Induction
<1>9. Right(n)
  BY <1>8
<1> QED
  BY <1>2, <1>9

-----------------------------------------------------------------------------
(* Graphs of errors                                                        *)

Shapes == {"leaf", "causal", "aggregate", "panics"}
ErrorRecord == [own: Own, shape: Shapes, to: Seq(Nat)]
Graph(g) ==
    /\ g \in Seq(ErrorRecord)
    /\ \A i \in 1..Len(g) :
          /\ \A k \in 1..Len(g[i].to) : g[i].to[k] \in 1..Len(g)
          /\ g[i].shape \in {"leaf", "panics"} => Len(g[i].to) = 0
          /\ g[i].shape = "causal" => Len(g[i].to) = 1
          /\ g[i].shape = "aggregate" => Len(g[i].to) = 2

Causes(g, i) == {g[i].to[k] : k \in 1..Len(g[i].to)}

LEMMA GraphFacts ==
    ASSUME NEW g, Graph(g)
    PROVE  /\ Len(g) \in Nat /\ DOMAIN g = 1..Len(g)
           /\ \A i \in 1..Len(g) :
                 /\ g[i] \in ErrorRecord /\ g[i].own \in Own /\ g[i].own \in Classes
                 /\ g[i].shape \in Shapes
                 /\ Len(g[i].to) \in Nat /\ DOMAIN g[i].to = 1..Len(g[i].to)
                 /\ ToSet(g[i].to) = Causes(g, i) /\ Causes(g, i) \subseteq 1..Len(g)
<1>1. Len(g) \in Nat /\ DOMAIN g = 1..Len(g) /\ \A i \in 1..Len(g) : g[i] \in ErrorRecord
  BY LenProperties, ElementOfSeq DEF Graph
<1>2. ASSUME NEW i \in 1..Len(g)
      PROVE  /\ g[i].own \in Own /\ g[i].own \in Classes /\ g[i].shape \in Shapes
             /\ Len(g[i].to) \in Nat /\ DOMAIN g[i].to = 1..Len(g[i].to)
             /\ ToSet(g[i].to) = Causes(g, i) /\ Causes(g, i) \subseteq 1..Len(g)
  <2>1. g[i].own \in Own /\ g[i].shape \in Shapes /\ g[i].to \in Seq(Nat)
    BY <1>1 DEF ErrorRecord
  <2>2. Len(g[i].to) \in Nat /\ DOMAIN g[i].to = 1..Len(g[i].to)
    BY <2>1, LenProperties
  <2>3. ToSet(g[i].to) = Causes(g, i)
    BY <2>2 DEF ToSet, Causes
  <2>4. Causes(g, i) \subseteq 1..Len(g)
    BY DEF Graph, Causes
  <2> QED
    BY <2>1, <2>2, <2>3, <2>4 DEF Own, Fatal, Classes
<1> QED
  BY <1>1, <1>2

\* What is below an error is the error and what is below its causes.
LEMMA BelowStep ==
    ASSUME NEW g, Graph(g), NEW i \in 1..Len(g), NEW j
    PROVE  j \in Below(g, i) <=> j = i \/ \E c \in Causes(g, i) : j \in Below(g, c)
<1> DEFINE D == 1..Len(g)
           Shut(S) == \A x \in S : Causes(g, x) \subseteq S
<1>1. \A x \in D : \A y : y \in Below(g, x) <=> y \in D /\ \A S \in SUBSET D : x \in S /\ Shut(S) => y \in S
  <2>1. DOMAIN g = D /\ \A S \in SUBSET D : Closed(g, S) <=> Shut(S)
    BY GraphFacts DEF Closed
  <2> QED
    BY <2>1 DEF Below
<1>2. \A x \in D : Causes(g, x) \subseteq D
  BY GraphFacts
<1> HIDE DEF D
<1>3. i \in D
  BY DEF D
<1>4. ASSUME NEW c \in Causes(g, i), j \in Below(g, c) PROVE j \in Below(g, i)
  BY <1>1, <1>2, <1>3, <1>4
<1>5. i \in Below(g, i)
  BY <1>1, <1>3
<1>6. ASSUME j \in Below(g, i) PROVE j = i \/ \E c \in Causes(g, i) : j \in Below(g, c)
  <2> DEFINE T == {i} \cup {x \in D : \E c \in Causes(g, i) : x \in Below(g, c)}
  <2>1. ASSUME NEW x \in T, NEW y \in Causes(g, x) PROVE y \in T
    <3>1. y \in D
      BY <1>2, <1>3, <2>1
    <3>2. CASE x = i
      BY <1>1, <3>1, <3>2
    <3>3. ASSUME NEW c \in Causes(g, i), x \in Below(g, c) PROVE y \in Below(g, c)
      BY <1>1, <1>2, <1>3, <2>1, <3>1, <3>3
    <3> QED
      BY <2>1, <3>1, <3>2, <3>3
  <2>2. T \in SUBSET D /\ i \in T /\ Shut(T)
    BY <1>3, <2>1
  <2>3. j \in T
    <3> HIDE DEF T
    <3> QED
      BY <1>1, <1>3, <1>6, <2>2
  <2> QED
    BY <2>3
<1> QED
  BY <1>4, <1>5, <1>6

\* One unwrapping more.
LEMMA DescendsStep ==
    ASSUME NEW g, Graph(g), NEW i \in 1..Len(g), NEW n \in Nat
    PROVE  /\ Descends(g, i, 0)
           /\ Descends(g, i, n + 1) <=> \E c \in Causes(g, i) : Descends(g, c, n)
<1> DEFINE D == 1..Len(g)
           Way(way, x, m) == way[0] = x /\ \A k \in 1..m : way[k] \in Causes(g, way[k - 1])
<1>1. \A x \in D, m \in Nat : Descends(g, x, m) <=> \E way \in [0..m -> D] : Way(way, x, m)
  <2> TAKE x \in D, m \in Nat
  <2>1. ASSUME NEW way \in [0..m -> D], NEW k \in 1..m
        PROVE  ToSet(g[way[k - 1]].to) = Causes(g, way[k - 1])
    <3>1. k - 1 \in 0..m
      OBVIOUS
    <3>2. way[k - 1] \in D
      BY <3>1
    <3> QED
      BY <3>2, GraphFacts
  <2>2. DOMAIN g = D
    BY GraphFacts
  <2>3. ASSUME NEW way \in [0..m -> D]
        PROVE  (\A k \in 1..m : way[k] \in ToSet(g[way[k - 1]].to))
                  <=> \A k \in 1..m : way[k] \in Causes(g, way[k - 1])
    BY <2>1
  <2> QED
    BY <2>2, <2>3 DEF Descends
<1>2. \A x \in D : Causes(g, x) \subseteq D
  BY GraphFacts
<1> HIDE DEF D
<1>3. i \in D
  BY DEF D
<1>4. Descends(g, i, 0)
  <2>1. [k \in 0..0 |-> i] \in [0..0 -> D] /\ Way([k \in 0..0 |-> i], i, 0)
    BY <1>3
  <2> QED
    BY <1>1, <1>3, <2>1
<1>5. ASSUME NEW c \in Causes(g, i), Descends(g, c, n) PROVE Descends(g, i, n + 1)
  <2>1. PICK way \in [0..n -> D] : Way(way, c, n)
    BY <1>1, <1>2, <1>3, <1>5
  <2> DEFINE more == [k \in 0..(n + 1) |-> IF k = 0 THEN i ELSE way[k - 1]]
  <2>2. \A k \in 0..(n + 1) : k = 0 \/ k - 1 \in 0..n
    OBVIOUS
  <2>3. more \in [0..(n + 1) -> D] /\ more[0] = i
    BY <1>3, <2>2
  <2>4. ASSUME NEW k \in 1..(n + 1) PROVE more[k] \in Causes(g, more[k - 1])
    <3>1. k \in 0..(n + 1) /\ k - 1 \in 0..(n + 1) /\ k # 0
      OBVIOUS
    <3>2. CASE k = 1
      BY <1>5, <2>1, <3>1, <3>2
    <3>3. CASE k # 1
      <4>1. k - 1 \in 1..n /\ k - 1 # 0
        BY <3>3
      <4>2. way[k - 1] \in Causes(g, way[(k - 1) - 1])
        BY <2>1, <4>1
      <4> QED
        BY <3>1, <4>1, <4>2
    <3> QED
      BY <3>2, <3>3
  <2>5. n + 1 \in Nat
    OBVIOUS
  <2> HIDE DEF more
  <2>6. Way(more, i, n + 1)
    BY <2>3, <2>4
  <2> QED
    BY <1>1, <1>3, <2>3, <2>5, <2>6
<1>6. ASSUME Descends(g, i, n + 1) PROVE \E c \in Causes(g, i) : Descends(g, c, n)
  <2>1. PICK way \in [0..(n + 1) -> D] : Way(way, i, n + 1)
    BY <1>1, <1>3, <1>6
  <2> DEFINE rest == [k \in 0..n |-> way[k + 1]]
  <2>2. /\ \A k \in 0..n : k + 1 \in 0..(n + 1) /\ k + 1 \in 1..(n + 1) /\ (k + 1) - 1 = k
        /\ 0 \in 0..n /\ \A k \in 1..n : k \in 0..n /\ k - 1 \in 0..n /\ (k - 1) + 1 = k
    OBVIOUS
  <2>3. rest \in [0..n -> D]
    BY <2>1, <2>2
  <2>4. \A k \in 1..n : rest[k] \in Causes(g, rest[k - 1])
    BY <2>1, <2>2
  <2>5. rest[0] = way[1] /\ way[1] \in Causes(g, i)
    BY <2>1, <2>2
  <2> HIDE DEF rest
  <2>6. way[1] \in D /\ Way(rest, way[1], n)
    BY <1>2, <1>3, <2>4, <2>5
  <2> QED
    BY <1>1, <2>3, <2>5, <2>6
<1> QED
  BY <1>4, <1>5, <1>6

\* An error below itself can be unwrapped as often as one likes.
LEMMA CycleDescends ==
    ASSUME NEW g, Graph(g), NEW i \in 1..Len(g), NEW c \in Causes(g, i), i \in Below(g, c), NEW n \in Nat
    PROVE  Descends(g, i, n)
<1> DEFINE C == {x \in 1..Len(g) : x \in Below(g, i) /\ i \in Below(g, x)}
           S == {m \in Nat : \A x \in C : Descends(g, x, m)}
<1>1. i \in C
  BY BelowStep
<1>2. ASSUME NEW x \in C PROVE \E d \in Causes(g, x) : d \in C
  <2>1. \A d \in Causes(g, x) : d \in 1..Len(g) /\ d \in Below(g, i)
    <3> TAKE d \in Causes(g, x)
    <3>1. d \in 1..Len(g)
      BY GraphFacts
    <3> QED
      BY <3>1, GraphFacts DEF Below, Closed
  <2>2. CASE x = i
    BY <2>1, <2>2
  <2>3. CASE x # i
    BY <2>1, <2>3, BelowStep
  <2> QED
    BY <2>2, <2>3
<1>3. 0 \in S
  BY DescendsStep
<1>4. ASSUME NEW m \in Nat, m \in S PROVE m + 1 \in S
  BY <1>2, <1>4, DescendsStep
<1>5. \A m \in Nat : m \in S
  <2> HIDE DEF S
  <2> QED
    BY <1>3, <1>4, Induction
<1> QED
  BY <1>1, <1>5

-----------------------------------------------------------------------------
(* What is found of an error                                               *)

\* What a wrapper makes of its cause never hides what is fatal in either, and makes up
\* nothing that is.
LEMMA CausalWorst ==
    ASSUME NEW own \in Own, NEW cause \in Findings
    PROVE  /\ Causal(own, cause) \in {own, cause.class}
           /\ own \in Fatal => Causal(own, cause) \in Fatal /\ Rank(own) <= Rank(Causal(own, cause))
           /\ cause.class \in Fatal =>
                 Causal(own, cause) \in Fatal /\ Rank(cause.class) <= Rank(Causal(own, cause))
<1>1. cause.class \in Classes /\ own \in Classes
  BY DEF Findings, Own, Classes, Fatal
<1>2. \A c, d \in Classes : c \in Fatal /\ Rank(c) <= Rank(d) => d \in Fatal
  BY Ranks DEF Classes, Fatal
<1>3. /\ Worse(own, cause.class) \in {own, cause.class} /\ Worse(own, cause.class) \in Classes
      /\ Rank(own) <= Rank(Worse(own, cause.class)) /\ Rank(cause.class) <= Rank(Worse(own, cause.class))
  BY <1>1, WorseOf
<1>4. CASE own \in Fatal
  <2>1. Causal(own, cause) = Worse(own, cause.class)
    BY <1>4 DEF Causal, Fatal
  <2> QED
    BY <1>1, <1>2, <1>3, <1>4, <2>1
<1>5. CASE own \notin Fatal
  <2>1. own \in {"none", "skipped", "retryable"}
    BY <1>5 DEF Own
  <2>2. Causal(own, cause) \in {own, cause.class}
    BY <2>1 DEF Causal
  <2>3. cause.class \in Fatal => Causal(own, cause) = cause.class
    BY <2>1 DEF Causal
  <2>4. Rank(cause.class) <= Rank(cause.class)
    BY <1>1, RanksApart
  <2> QED
    BY <1>5, <2>2, <2>3, <2>4
<1> QED
  BY <1>4, <1>5

LEMMA OrFailureWorst ==
    ASSUME NEW c \in Classes
    PROVE  /\ OrFailure(c) \in Classes /\ Rank(c) <= Rank(OrFailure(c))
           /\ c \in Fatal \/ OrFailure(c) \in Fatal => OrFailure(c) = c
  BY Ranks DEF OrFailure, Classes, Fatal

Parts(g, i) == [1..Len(g[i].to) -> Findings]

\* What an error and its causes say together: it is unreadable when one of them is, and
\* else what is fatal is the worst of what they found fatal.
LEMMA JudgedWorst ==
    ASSUME NEW g, Graph(g), NEW i \in 1..Len(g), g[i].shape # "panics", NEW parts \in Parts(g, i)
    PROVE  LET j == Judged(g[i], parts)
               K == 1..Len(g[i].to)
           IN  /\ j \in Findings
               /\ j.invalid <=> \E k \in K : parts[k].invalid
               /\ ~j.invalid =>
                     /\ j.class \in Fatal => j.class = g[i].own \/ \E k \in K : j.class = parts[k].class
                     /\ g[i].own \in Fatal => j.class \in Fatal /\ Rank(g[i].own) <= Rank(j.class)
                     /\ \A k \in K : parts[k].class \in Fatal =>
                           j.class \in Fatal /\ Rank(parts[k].class) <= Rank(j.class)
<1> DEFINE e == g[i]
           n == Len(e.to)
           K == 1..n
           j == Judged(e, parts)
           s == [k \in K |-> parts[k].class]
<1>1. n \in Nat /\ e.own \in Own /\ e.own \in Classes /\ e.shape \in Shapes
  BY GraphFacts
<1>2. DOMAIN parts = K /\ parts \in [K -> Findings] /\ \A k \in K : parts[k] \in Findings
  BY DEF Parts
<1>3. s \in [K -> Classes] /\ \A k \in K : s[k] = parts[k].class
  BY <1>2 DEF Findings
<1>4. e.shape = "leaf" => n = 0
  BY DEF Graph
<1>5. e.shape = "causal" => n = 1
  BY DEF Graph
<1>6. e.shape \in {"leaf", "causal", "aggregate"}
  BY <1>1 DEF Shapes
<1>7. \A c, d \in Classes : c \in Fatal /\ Rank(c) <= Rank(d) => d \in Fatal
  BY Ranks DEF Classes, Fatal
<1>9. Invalid \in Findings /\ Invalid.invalid = TRUE
  BY DEF Invalid, Findings, Classes
<1> DEFINE Good(v) ==
              /\ v \in Findings
              /\ v.invalid <=> \E k \in K : parts[k].invalid
              /\ ~v.invalid =>
                    /\ v.class \in Fatal => v.class = e.own \/ \E k \in K : v.class = parts[k].class
                    /\ e.own \in Fatal => v.class \in Fatal /\ Rank(e.own) <= Rank(v.class)
                    /\ \A k \in K : parts[k].class \in Fatal =>
                          v.class \in Fatal /\ Rank(parts[k].class) <= Rank(v.class)
<1>10. CASE \E k \in K : parts[k].invalid
  <2>1. j = Invalid
    BY <1>2, <1>10 DEF Judged
  <2>2. Good(Invalid)
    BY <1>9, <1>10
  <2> QED
    BY <2>1, <2>2
<1>11. ASSUME ~\E k \in K : parts[k].invalid,
              NEW c \in Classes, NEW a \in BOOLEAN,
              c \in Fatal => c = e.own \/ \E k \in K : c = parts[k].class,
              e.own \in Fatal => c \in Fatal /\ Rank(e.own) <= Rank(c),
              \A k \in K : parts[k].class \in Fatal => c \in Fatal /\ Rank(parts[k].class) <= Rank(c)
       PROVE  Good(Classified(c, a))
  <2> DEFINE v == Classified(c, a)
  <2>1. v.class = c /\ v.invalid = FALSE /\ v \in Findings
    BY DEF Classified, Findings
  <2> HIDE DEF v
  <2>2. Good(v)
    BY <1>11, <2>1
  <2> QED
    BY <2>2 DEF v
<1>12. CASE ~\E k \in K : parts[k].invalid
  <2>1. CASE e.shape = "aggregate"
    <3> DEFINE m == Merged(e.own, s)
    <3>1. j = Classified(OrFailure(m), TRUE)
      BY <1>2, <1>12, <2>1 DEF Judged
    <3>2. /\ m \in {e.own} \cup {s[k] : k \in K} /\ Rank(e.own) <= Rank(m)
          /\ \A k \in K : Rank(s[k]) <= Rank(m)
      BY <1>1, <1>3, MergedWorst
    <3> DEFINE c == OrFailure(m)
    <3> HIDE DEF m
    <3>3. m \in Classes /\ \A k \in K : s[k] \in Classes
      BY <1>1, <1>3, <3>2
    <3>4. c \in Classes /\ (m \in Fatal => c = m) /\ (c \in Fatal => c = m)
      BY <3>3, OrFailureWorst
    <3> HIDE DEF c
    <3>5. c \in Fatal => c = e.own \/ \E k \in K : c = parts[k].class
      BY <1>3, <3>2, <3>4
    <3>6. e.own \in Fatal => c \in Fatal /\ Rank(e.own) <= Rank(c)
      BY <1>1, <1>7, <3>2, <3>3, <3>4
    <3>7. ASSUME NEW k \in K, parts[k].class \in Fatal
          PROVE  c \in Fatal /\ Rank(parts[k].class) <= Rank(c)
      <4>1. s[k] \in Fatal /\ s[k] \in Classes /\ Rank(s[k]) <= Rank(m)
        BY <1>3, <3>2, <3>3, <3>7
      <4> QED
        BY <1>3, <1>7, <3>3, <3>4, <4>1
    <3>8. Good(Classified(c, TRUE))
      <4> HIDE DEF Good, K
      <4> QED
        BY <1>11, <1>12, <3>4, <3>5, <3>6, <3>7
    <3> QED
      BY <3>1, <3>8 DEF c
  <2>2. CASE e.shape = "causal"
    <3> DEFINE c == Causal(e.own, parts[1])
    <3>1. j = Classified(c, parts[1].aggregate)
      BY <1>2, <1>12, <2>2 DEF Judged
    <3>2. 1 \in K /\ K = {1}
      <4>1. n = 1 /\ 1..1 = {1}
        BY <1>5, <2>2
      <4> QED
        BY <4>1
    <3>3. parts[1] \in Findings /\ parts[1].class \in Classes /\ parts[1].aggregate \in BOOLEAN
      BY <1>2, <3>2 DEF Findings
    <3>4. /\ c \in {e.own, parts[1].class}
          /\ e.own \in Fatal => c \in Fatal /\ Rank(e.own) <= Rank(c)
          /\ parts[1].class \in Fatal => c \in Fatal /\ Rank(parts[1].class) <= Rank(c)
      BY <1>1, <3>3, CausalWorst
    <3> HIDE DEF c
    <3>5. /\ c \in Classes
          /\ c \in Fatal => c = e.own \/ \E k \in K : c = parts[k].class
          /\ \A k \in K : parts[k].class \in Fatal => c \in Fatal /\ Rank(parts[k].class) <= Rank(c)
      BY <1>1, <3>2, <3>3, <3>4
    <3>6. Good(Classified(c, parts[1].aggregate))
      <4> HIDE DEF Good, K
      <4> QED
        BY <1>11, <1>12, <3>3, <3>4, <3>5
    <3> QED
      BY <3>1, <3>6
  <2>3. CASE e.shape = "leaf"
    <3>1. j = Classified(OrFailure(e.own), FALSE)
      BY <1>2, <1>12, <2>3 DEF Judged
    <3>2. K = {}
      BY <1>4, <2>3
    <3> DEFINE c == OrFailure(e.own)
    <3>3. /\ c \in Classes /\ (e.own \in Fatal => c = e.own) /\ (c \in Fatal => c = e.own)
          /\ Rank(e.own) <= Rank(c)
      BY <1>1, OrFailureWorst
    <3> HIDE DEF c, K
    <3>4. Good(Classified(c, FALSE))
      <4> HIDE DEF Good
      <4> QED
        BY <1>11, <3>2, <3>3
    <3> QED
      BY <3>1, <3>4 DEF c, K
  <2> QED
    BY <1>6, <2>1, <2>2, <2>3
<1> QED
  BY <1>10, <1>12

Levels(g) == [1..Len(g) -> [SUBSET (1..Len(g)) -> Findings]]

\* What a level finds of an error.
PartsOf(g, below, i, active) == [k \in 1..Len(g[i].to) |-> below[g[i].to[k]][active \cup {i}]]
LEMMA LevelFacts ==
    ASSUME NEW g, Graph(g), NEW below \in Levels(g)
    PROVE  /\ Level(g, below) \in Levels(g)
           /\ \A i \in 1..Len(g), active \in SUBSET (1..Len(g)) :
                 /\ i \in active \/ g[i].shape = "panics" => Level(g, below)[i][active] = Invalid
                 /\ ~(i \in active \/ g[i].shape = "panics") =>
                       /\ Level(g, below)[i][active] = Judged(g[i], PartsOf(g, below, i, active))
                       /\ PartsOf(g, below, i, active) \in Parts(g, i)
<1> DEFINE D == 1..Len(g)
<1>1. DOMAIN g = D /\ \A i \in D : DOMAIN g[i].to = 1..Len(g[i].to)
  BY GraphFacts
<1>2. ASSUME NEW i \in D, NEW active \in SUBSET D
      PROVE  PartsOf(g, below, i, active) \in Parts(g, i)
  <2>1. \A k \in 1..Len(g[i].to) : g[i].to[k] \in D
    BY DEF Graph
  <2>2. active \cup {i} \in SUBSET D
    OBVIOUS
  <2>3. \A x \in D : below[x] \in [SUBSET D -> Findings]
    BY DEF Levels
  <2> DEFINE A == active \cup {i}
  <2>4. \A x \in D : below[x][A] \in Findings
    <3> HIDE DEF D, A
    <3> QED
      BY <2>2, <2>3 DEF A
  <2> QED
    BY <2>1, <2>4 DEF PartsOf, Parts
<1>3. ASSUME NEW i \in D, NEW active \in SUBSET D
      PROVE  Level(g, below)[i][active] =
                IF i \in active \/ g[i].shape = "panics" THEN Invalid
                ELSE Judged(g[i], PartsOf(g, below, i, active))
  BY <1>1 DEF Level, PartsOf
<1>4. Invalid \in Findings
  BY DEF Invalid, Findings, Classes
<1> DEFINE f(i, active) == IF i \in active \/ g[i].shape = "panics" THEN Invalid
                           ELSE Judged(g[i], PartsOf(g, below, i, active))
<1>5. ASSUME NEW i \in D, NEW active \in SUBSET D PROVE f(i, active) \in Findings
  <2>1. CASE i \in active \/ g[i].shape = "panics"
    BY <1>4, <2>1
  <2>2. CASE ~(i \in active \/ g[i].shape = "panics")
    <3>1. Judged(g[i], PartsOf(g, below, i, active)) \in Findings
      BY <1>2, <2>2, JudgedWorst
    <3> QED
      BY <2>2, <3>1
  <2> QED
    BY <2>1, <2>2
<1>6. Level(g, below) \in Levels(g)
  <2>1. Level(g, below) = [i \in D |-> [active \in SUBSET D |-> f(i, active)]]
    BY <1>1 DEF Level, PartsOf
  <2>2. \A i \in D, active \in SUBSET D : f(i, active) \in Findings
    BY <1>5
  <2> HIDE DEF f
  <2> QED
    BY <2>1, <2>2 DEF Levels
<1> QED
  BY <1>2, <1>3, <1>6

\* The traversal has as many levels as it may have.
LEMMA InspectLevels ==
    ASSUME NEW g, Graph(g)
    PROVE  /\ Inspect(g)[0] = TooDeep(g)
           /\ \A n \in 1..MaxTraversalDepth : Inspect(g)[n] = Level(g, Inspect(g)[n - 1])
           /\ \A n \in 0..MaxTraversalDepth : Inspect(g)[n] \in Levels(g)
<1> DEFINE M == MaxTraversalDepth
           Body(f) == [n \in 0..M |-> IF n = 0 THEN TooDeep(g) ELSE Level(g, f[n - 1])]
<1>1. M \in Nat
  BY DepthAssumption
<1>2. TooDeep(g) \in Levels(g)
  <2>1. DOMAIN g = 1..Len(g) /\ Invalid \in Findings
    BY GraphFacts DEF Invalid, Findings, Classes
  <2> QED
    BY <2>1 DEF TooDeep, Levels
<1>3. \E f : f = Body(f)
  <2> DEFINE Turn == [n \in 1..M |-> [v \in Levels(g) |-> Level(g, v)]]
  <2>1. \A n \in 1..M, v \in Levels(g) : Turn[n][v] = Level(g, v) /\ Turn[n][v] \in Levels(g)
    BY LevelFacts
  <2> HIDE DEF Turn
  <2>2. PICK f : History(M, Levels(g), TooDeep(g), Turn, f)
    <3>1. Loop(M, Levels(g), Turn)
      BY <2>1 DEF Loop
    <3> QED
      BY <1>1, <1>2, <3>1, HistoryExists
  <2>3. f \in [0..M -> Levels(g)] /\ f[0] = TooDeep(g) /\ \A n \in 1..M : f[n] = Turn[n][f[n - 1]]
    BY <2>2 DEF History
  <2>4. \A n \in 1..M : f[n] = Level(g, f[n - 1])
    <3> TAKE n \in 1..M
    <3>1. n - 1 \in 0..M
      BY <1>1
    <3> QED
      BY <2>1, <2>3, <3>1
  <2>5. f = Body(f)
    BY <1>1, <2>3, <2>4
  <2> QED
    BY <2>5
<1>4. Inspect(g) = Body(Inspect(g))
  BY <1>3 DEF Inspect
<1>5. Inspect(g)[0] = TooDeep(g) /\ \A n \in 1..M : Inspect(g)[n] = Level(g, Inspect(g)[n - 1])
  <2>1. 0 \in 0..M /\ \A n \in 1..M : n \in 0..M /\ n # 0
    BY <1>1
  <2> QED
    BY <1>4, <2>1
<1> DEFINE S == {n \in Nat : n <= M => Inspect(g)[n] \in Levels(g)}
<1>6. 0 \in S
  BY <1>2, <1>5
<1>7. ASSUME NEW n \in Nat, n \in S PROVE n + 1 \in S
  <2> SUFFICES ASSUME n + 1 <= M PROVE Inspect(g)[n + 1] \in Levels(g)
    OBVIOUS
  <2>1. n + 1 \in 1..M /\ (n + 1) - 1 = n /\ Inspect(g)[n] \in Levels(g)
    BY <1>1, <1>7
  <2>2. Inspect(g)[n + 1] = Level(g, Inspect(g)[n])
    BY <1>5, <2>1
  <2> QED
    BY <2>1, <2>2, LevelFacts
<1>8. \A n \in Nat : n \in S
  <2> HIDE DEF S
  <2> QED
    BY <1>6, <1>7, Induction
<1> QED
  BY <1>1, <1>5, <1>8

LEMMA TooDeepInvalid ==
    ASSUME NEW g, Graph(g), NEW i \in 1..Len(g), NEW active \in SUBSET (1..Len(g))
    PROVE  Inspect(g)[0][i][active] = Invalid
<1>1. DOMAIN g = 1..Len(g) /\ Inspect(g)[0] = TooDeep(g)
  BY GraphFacts, InspectLevels
<1>2. TooDeep(g)[i][active] = Invalid
  BY <1>1 DEF TooDeep
<1> QED
  BY <1>1, <1>2

-----------------------------------------------------------------------------
(* What the traversal finds is what is below the error                     *)

Panics(g, i) == \E j \in Below(g, i) : g[j].shape = "panics"

LEMMA CauseFacts ==
    ASSUME NEW g, Graph(g), NEW i \in 1..Len(g)
    PROVE  /\ \A c : c \in Causes(g, i) <=> \E k \in 1..Len(g[i].to) : c = g[i].to[k]
           /\ Causes(g, i) \subseteq 1..Len(g) /\ Below(g, i) \subseteq 1..Len(g)
           /\ i \in Below(g, i) /\ \A c \in Causes(g, i) : Below(g, c) \subseteq Below(g, i)
<1>1. Causes(g, i) \subseteq 1..Len(g) /\ DOMAIN g = 1..Len(g)
  BY GraphFacts
<1>2. Below(g, i) \subseteq 1..Len(g)
  BY <1>1 DEF Below
<1>3. i \in Below(g, i) /\ \A c \in Causes(g, i) : Below(g, c) \subseteq Below(g, i)
  BY BelowStep
<1> QED
  BY <1>1, <1>2, <1>3 DEF Causes

\* An error is unreadable only where it panics, is too deep, or comes back to an error
\* on the way to it; one that is read is none of that, and what is fatal of it is the
\* worst of what is fatal below it.
Sound(g, i, finding, depth) ==
    /\ ~Panics(g, i) /\ ~Descends(g, i, depth)
    /\ finding.class \in Fatal => \E j \in Below(g, i) : finding.class = g[j].own
    /\ \A j \in Below(g, i) : g[j].own \in Fatal =>
          finding.class \in Fatal /\ Rank(g[j].own) <= Rank(finding.class)
Reading(g, n) ==
    \A i \in 1..Len(g), active \in SUBSET (1..Len(g)) :
        LET finding == Inspect(g)[n][i][active]
        IN  IF finding.invalid THEN Panics(g, i) \/ Descends(g, i, n) \/ active \cap Below(g, i) # {}
            ELSE Sound(g, i, finding, n)

LEMMA ReadingStep ==
    ASSUME NEW g, Graph(g), NEW n \in Nat, n + 1 <= MaxTraversalDepth, Reading(g, n)
    PROVE  Reading(g, n + 1)
<1> SUFFICES ASSUME NEW i \in 1..Len(g), NEW active \in SUBSET (1..Len(g))
             PROVE  LET finding == Inspect(g)[n + 1][i][active]
                    IN  IF finding.invalid
                        THEN Panics(g, i) \/ Descends(g, i, n + 1) \/ active \cap Below(g, i) # {}
                        ELSE Sound(g, i, finding, n + 1)
  BY DEF Reading
<1> DEFINE D == 1..Len(g)
           K == 1..Len(g[i].to)
           finding == Inspect(g)[n + 1][i][active]
           below == Inspect(g)[n]
           parts == PartsOf(g, below, i, active)
<1>1. below \in Levels(g) /\ Inspect(g)[n + 1] = Level(g, below)
  <2>1. n + 1 \in 1..MaxTraversalDepth /\ n \in 0..MaxTraversalDepth /\ (n + 1) - 1 = n
    BY DepthAssumption
  <2> QED
    BY <2>1, InspectLevels
<1>2. /\ i \in active \/ g[i].shape = "panics" => finding = Invalid
      /\ ~(i \in active \/ g[i].shape = "panics") => finding = Judged(g[i], parts) /\ parts \in Parts(g, i)
  <2>1. \A j \in D, a \in SUBSET D :
           /\ j \in a \/ g[j].shape = "panics" => Level(g, below)[j][a] = Invalid
           /\ ~(j \in a \/ g[j].shape = "panics") =>
                 /\ Level(g, below)[j][a] = Judged(g[j], PartsOf(g, below, j, a))
                 /\ PartsOf(g, below, j, a) \in Parts(g, j)
    <3> HIDE DEF below
    <3> QED
      BY <1>1, LevelFacts
  <2>2. finding = Level(g, below)[i][active]
    BY <1>1
  <2> HIDE DEF below, finding
  <2> QED
    BY <2>1, <2>2
<1>3. \A k \in K : g[i].to[k] \in Causes(g, i) /\ g[i].to[k] \in D /\ parts[k] = below[g[i].to[k]][active \cup {i}]
  BY CauseFacts DEF PartsOf
<1>4. active \cup {i} \in SUBSET D
  OBVIOUS
<1>5. i \in Below(g, i)
  BY BelowStep
<1>6. ASSUME NEW k \in K
      PROVE  IF parts[k].invalid
             THEN \/ Panics(g, g[i].to[k]) \/ Descends(g, g[i].to[k], n)
                  \/ (active \cup {i}) \cap Below(g, g[i].to[k]) # {}
             ELSE Sound(g, g[i].to[k], parts[k], n)
  BY <1>3, <1>4 DEF Reading
<1> HIDE DEF finding, parts, below, D
<1>7. CASE i \in active \/ g[i].shape = "panics"
  <2>1. finding.invalid
    BY <1>2, <1>7 DEF Invalid
  <2>2. Panics(g, i) \/ active \cap Below(g, i) # {}
    BY <1>5, <1>7 DEF Panics
  <2> QED
    BY <2>1, <2>2 DEF finding
<1>8. CASE ~(i \in active \/ g[i].shape = "panics")
  <2>1. /\ finding.invalid <=> \E k \in K : parts[k].invalid
        /\ ~finding.invalid =>
             /\ finding.class \in Fatal => finding.class = g[i].own \/ \E k \in K : finding.class = parts[k].class
             /\ g[i].own \in Fatal => finding.class \in Fatal /\ Rank(g[i].own) <= Rank(finding.class)
             /\ \A k \in K : parts[k].class \in Fatal =>
                   finding.class \in Fatal /\ Rank(parts[k].class) <= Rank(finding.class)
    BY <1>2, <1>8, JudgedWorst
  <2>2. CASE finding.invalid
    <3>1. PICK k \in K : parts[k].invalid
      BY <2>1, <2>2
    <3> DEFINE c == g[i].to[k]
    <3>2. c \in Causes(g, i) /\ Below(g, c) \subseteq Below(g, i)
      BY <1>3, BelowStep
    <3> HIDE DEF c
    <3>3. CASE Panics(g, c)
      BY <2>2, <3>2, <3>3 DEF Panics, finding
    <3>4. CASE Descends(g, c, n)
      BY <2>2, <3>2, <3>4, DescendsStep DEF finding
    <3>5. CASE (active \cup {i}) \cap Below(g, c) # {}
      <4>1. CASE i \in Below(g, c)
        <5>1. Descends(g, i, n + 1)
          BY <3>2, <4>1, CycleDescends
        <5> QED
          BY <2>2, <5>1 DEF finding
      <4>2. CASE i \notin Below(g, c)
        BY <2>2, <3>2, <3>5, <4>2 DEF finding
      <4> QED
        BY <4>1, <4>2
    <3> QED
      BY <1>6, <3>1, <3>3, <3>4, <3>5 DEF c
  <2>3. CASE ~finding.invalid
    <3>1. \A c \in Causes(g, i) : \E k \in K : c = g[i].to[k] /\ Sound(g, c, parts[k], n)
      BY <1>6, <2>1, <2>3, CauseFacts
    <3>2. ~Panics(g, i)
      BY <1>8, <3>1, BelowStep DEF Panics, Sound
    <3>3. ~Descends(g, i, n + 1)
      BY <3>1, DescendsStep DEF Sound
    <3>4. finding.class \in Fatal => \E j \in Below(g, i) : finding.class = g[j].own
      <4> SUFFICES ASSUME finding.class \in Fatal PROVE \E j \in Below(g, i) : finding.class = g[j].own
        OBVIOUS
      <4>1. CASE finding.class = g[i].own
        BY <1>5, <4>1
      <4>2. ASSUME NEW k \in K, finding.class = parts[k].class
            PROVE  \E j \in Below(g, i) : finding.class = g[j].own
        <5>1. PICK j \in Below(g, g[i].to[k]) : parts[k].class = g[j].own
          BY <1>6, <2>1, <2>3, <4>2 DEF Sound
        <5>2. j \in Below(g, i)
          BY <1>3, <5>1, BelowStep
        <5> QED
          BY <4>2, <5>1, <5>2
      <4> QED
        BY <2>1, <2>3, <4>1, <4>2
    <3>5. ASSUME NEW j \in Below(g, i), g[j].own \in Fatal
          PROVE  finding.class \in Fatal /\ Rank(g[j].own) <= Rank(finding.class)
      <4>1. CASE j = i
        BY <2>1, <2>3, <3>5, <4>1
      <4>2. CASE j # i
        <5>1. PICK c \in Causes(g, i) : j \in Below(g, c)
          BY <4>2, BelowStep
        <5>2. PICK k \in K : c = g[i].to[k] /\ Sound(g, c, parts[k], n)
          BY <3>1
        <5>3. parts[k].class \in Fatal /\ Rank(g[j].own) <= Rank(parts[k].class)
          BY <3>5, <5>1, <5>2 DEF Sound
        <5>4. finding.class \in Fatal /\ Rank(parts[k].class) <= Rank(finding.class)
          BY <2>1, <2>3, <5>3
        <5>5. \A c2 \in Fatal : Rank(c2) \in Nat
          BY Ranks DEF Fatal
        <5> QED
          BY <3>5, <5>3, <5>4, <5>5
      <4> QED
        BY <4>1, <4>2
    <3> QED
      BY <2>3, <3>2, <3>3, <3>4, <3>5 DEF finding, Sound
  <2> QED
    BY <2>2, <2>3
<1> QED
  BY <1>7, <1>8

LEMMA AlwaysReading ==
    ASSUME NEW g, Graph(g), NEW n \in 0..MaxTraversalDepth
    PROVE  Reading(g, n)
<1> DEFINE S == {m \in Nat : m <= MaxTraversalDepth => Reading(g, m)}
<1>1. Reading(g, 0)
  <2>2. \A i \in 1..Len(g), active \in SUBSET (1..Len(g)) : Inspect(g)[0][i][active].invalid
    BY TooDeepInvalid DEF Invalid
  <2> QED
    BY <2>2, DescendsStep DEF Reading
<1>2. 0 \in S
  BY <1>1
<1>3. \A m \in Nat : m \in S => m + 1 \in S
  <2> SUFFICES ASSUME NEW m \in Nat, m \in S, m + 1 <= MaxTraversalDepth PROVE Reading(g, m + 1)
    OBVIOUS
  <2>1. Reading(g, m)
    BY DepthAssumption
  <2> QED
    BY <2>1, ReadingStep
<1>4. \A m \in Nat : m \in S
  <2> HIDE DEF S
  <2> QED
    BY <1>2, <1>3, Induction
<1> QED
  BY <1>4

\* An error that is read is read the same with a level more.
Settled(g, n) ==
    \A i \in 1..Len(g), active \in SUBSET (1..Len(g)) :
        ~Inspect(g)[n][i][active].invalid => Inspect(g)[n + 1][i][active] = Inspect(g)[n][i][active]
LEMMA DeeperTheSame ==
    ASSUME NEW g, Graph(g), NEW n \in Nat, n + 1 <= MaxTraversalDepth
    PROVE  Settled(g, n)
<1> DEFINE S == {m \in Nat : m + 1 <= MaxTraversalDepth => Settled(g, m)}
<1>1. 0 \in S
  <2>2. \A i \in 1..Len(g), active \in SUBSET (1..Len(g)) : Inspect(g)[0][i][active].invalid
    BY TooDeepInvalid DEF Invalid
  <2> QED
    BY <2>2 DEF Settled
<1>2. ASSUME NEW m \in Nat, m \in S PROVE m + 1 \in S
  <2> SUFFICES ASSUME (m + 1) + 1 <= MaxTraversalDepth,
                      NEW i \in 1..Len(g), NEW active \in SUBSET (1..Len(g)),
                      ~Inspect(g)[m + 1][i][active].invalid
               PROVE  Inspect(g)[(m + 1) + 1][i][active] = Inspect(g)[m + 1][i][active]
    BY DEF Settled
  <2> DEFINE low == Inspect(g)[m]
             high == Inspect(g)[m + 1]
             K == 1..Len(g[i].to)
  <2>1. /\ low \in Levels(g) /\ high \in Levels(g) /\ high = Level(g, low)
        /\ Inspect(g)[(m + 1) + 1] = Level(g, high)
    <3>1. /\ m + 1 \in 1..MaxTraversalDepth /\ m \in 0..MaxTraversalDepth /\ (m + 1) - 1 = m
          /\ m + 1 \in 0..MaxTraversalDepth
          /\ (m + 1) + 1 \in 1..MaxTraversalDepth /\ ((m + 1) + 1) - 1 = m + 1
      BY DepthAssumption
    <3> QED
      BY <3>1, InspectLevels
  <2>2. Settled(g, m)
    BY <1>2, DepthAssumption
  <2> HIDE DEF low, high
  <2>3. ~(i \in active \/ g[i].shape = "panics")
    BY <2>1, LevelFacts DEF high, Invalid
  <2>4. /\ high[i][active] = Judged(g[i], PartsOf(g, low, i, active))
        /\ PartsOf(g, low, i, active) \in Parts(g, i)
        /\ Level(g, high)[i][active] = Judged(g[i], PartsOf(g, high, i, active))
    BY <2>1, <2>3, LevelFacts
  <2>5. \A k \in K : ~PartsOf(g, low, i, active)[k].invalid
    BY <2>3, <2>4, JudgedWorst DEF high
  <2>6. \A k \in K : g[i].to[k] \in 1..Len(g) /\ active \cup {i} \in SUBSET (1..Len(g))
    BY DEF Graph
  <2>7. \A k \in K : high[g[i].to[k]][active \cup {i}] = low[g[i].to[k]][active \cup {i}]
    BY <2>2, <2>5, <2>6 DEF Settled, PartsOf, low, high
  <2>8. PartsOf(g, high, i, active) = PartsOf(g, low, i, active)
    BY <2>7 DEF PartsOf
  <2> QED
    BY <2>1, <2>4, <2>8 DEF high
<1>3. \A m \in Nat : m \in S
  <2> HIDE DEF S
  <2> QED
    BY <1>1, <1>2, Induction
<1> QED
  BY <1>3

\* What was made before an error is found as if the error were not there, even on the
\* way down from it.
Extended(g, h) == Len(h) = Len(g) + 1 /\ \A i \in 1..Len(g) : h[i] = g[i]
SameAs(g, h, n) ==
    \A i \in 1..Len(g), active \in SUBSET (1..Len(g)) :
        Inspect(h)[n][i][active \cup {Len(h)}] = Inspect(g)[n][i][active]
LEMMA NewErrorApart ==
    ASSUME NEW g, Graph(g), NEW h, Graph(h), Extended(g, h), NEW n \in 0..MaxTraversalDepth
    PROVE  SameAs(g, h, n)
<1> DEFINE S == {m \in Nat : m <= MaxTraversalDepth => SameAs(g, h, m)}
           N == Len(h)
           D == 1..Len(g)
<1>1. /\ N = Len(g) + 1 /\ Len(g) \in Nat /\ N \notin D /\ D \subseteq 1..N /\ N \in 1..N
      /\ \A i \in D : h[i] = g[i]
  BY GraphFacts DEF Extended
<1>2. \A active \in SUBSET D : active \cup {N} \in SUBSET (1..N)
  BY <1>1
<1>3. SameAs(g, h, 0)
  <2>1. \A i \in D : i \in 1..N
    BY <1>1
  <2> QED
    BY <1>2, <2>1, TooDeepInvalid DEF SameAs
<1>4. 0 \in S
  BY <1>3
<1>5. ASSUME NEW m \in Nat, m \in S PROVE m + 1 \in S
  <2> SUFFICES ASSUME m + 1 <= MaxTraversalDepth PROVE SameAs(g, h, m + 1)
    OBVIOUS
  <2> SUFFICES ASSUME NEW i \in D, NEW active \in SUBSET D
               PROVE  Inspect(h)[m + 1][i][active \cup {N}] = Inspect(g)[m + 1][i][active]
    BY DEF SameAs
  <2> DEFINE A == active \cup {N}
             gb == Inspect(g)[m]
             hb == Inspect(h)[m]
  <2>1. SameAs(g, h, m)
    BY <1>5, DepthAssumption
  <2>2. /\ gb \in Levels(g) /\ Inspect(g)[m + 1] = Level(g, gb)
        /\ hb \in Levels(h) /\ Inspect(h)[m + 1] = Level(h, hb)
    <3>1. m + 1 \in 1..MaxTraversalDepth /\ m \in 0..MaxTraversalDepth /\ (m + 1) - 1 = m
      BY DepthAssumption
    <3> QED
      BY <3>1, InspectLevels
  <2>3. i \in 1..Len(h) /\ A \in SUBSET (1..Len(h)) /\ (i \in A <=> i \in active) /\ h[i] = g[i]
    BY <1>1, <1>2
  <2>4. ASSUME NEW k \in 1..Len(g[i].to)
        PROVE  hb[g[i].to[k]][A \cup {i}] = gb[g[i].to[k]][active \cup {i}]
    <3>1. g[i].to[k] \in D /\ active \cup {i} \in SUBSET D
      BY DEF Graph
    <3>2. A \cup {i} = (active \cup {i}) \cup {N}
      OBVIOUS
    <3> HIDE DEF D, A
    <3>3. hb[g[i].to[k]][(active \cup {i}) \cup {N}] = gb[g[i].to[k]][active \cup {i}]
      BY <2>1, <3>1 DEF SameAs, D
    <3> QED
      BY <3>2, <3>3
  <2> HIDE DEF gb, hb, A
  <2>5. PartsOf(h, hb, i, A) = PartsOf(g, gb, i, active)
    BY <2>3, <2>4 DEF PartsOf
  <2>6. Level(h, hb)[i][A] = Level(g, gb)[i][active]
    <3>1. CASE i \in active \/ g[i].shape = "panics"
      <4>1. Level(g, gb)[i][active] = Invalid
        BY <2>2, <3>1, LevelFacts
      <4>2. Level(h, hb)[i][A] = Invalid
        BY <2>2, <2>3, <3>1, LevelFacts
      <4> QED
        BY <4>1, <4>2
    <3>2. CASE ~(i \in active \/ g[i].shape = "panics")
      <4>1. Level(g, gb)[i][active] = Judged(g[i], PartsOf(g, gb, i, active))
        BY <2>2, <3>2, LevelFacts
      <4>2. Level(h, hb)[i][A] = Judged(h[i], PartsOf(h, hb, i, A))
        BY <2>2, <2>3, <3>2, LevelFacts
      <4> QED
        BY <2>3, <2>5, <4>1, <4>2
    <3> QED
      BY <3>1, <3>2
  <2> QED
    BY <2>2, <2>6 DEF A
<1>6. \A m \in Nat : m \in S
  <2>1. \A m \in Nat : m \in S => m + 1 \in S
    BY <1>5
  <2> HIDE DEF S
  <2> QED
    BY <1>4, <2>1, Induction
<1> QED
  BY <1>6, DepthAssumption

-----------------------------------------------------------------------------
(* Every graph that is made is one of these                                *)

LEMMA Appended ==
    ASSUME NEW g, Graph(g), NEW own \in Own, NEW shape \in Shapes, NEW to \in Seq(Nat),
           \A k \in 1..Len(to) : to[k] \in 1..Len(g),
           shape \in {"leaf", "panics"} => Len(to) = 0,
           shape = "causal" => Len(to) = 1, shape = "aggregate" => Len(to) = 2
    PROVE  /\ Graph(Append(g, Error(own, shape, to)))
           /\ Len(Append(g, Error(own, shape, to))) = Len(g) + 1
           /\ Append(g, Error(own, shape, to))[Len(g) + 1] = Error(own, shape, to)
<1> DEFINE e == Error(own, shape, to)
           h == Append(g, e)
<1>1. g \in Seq(ErrorRecord) /\ Len(g) \in Nat
  BY GraphFacts DEF Graph
<1>3. e \in ErrorRecord /\ e.shape = shape /\ e.to = to
  BY DEF Error, ErrorRecord
<1> HIDE DEF e
<1>4. /\ h \in Seq(ErrorRecord) /\ Len(h) = Len(g) + 1 /\ h[Len(g) + 1] = e
      /\ \A i \in 1..Len(g) : h[i] = g[i]
  BY <1>1, <1>3, AppendProperties
<1> HIDE DEF h
<1>5. ASSUME NEW i \in 1..Len(h)
      PROVE  /\ \A k \in 1..Len(h[i].to) : h[i].to[k] \in 1..Len(h)
             /\ h[i].shape \in {"leaf", "panics"} => Len(h[i].to) = 0
             /\ h[i].shape = "causal" => Len(h[i].to) = 1
             /\ h[i].shape = "aggregate" => Len(h[i].to) = 2
  <2>1. CASE i = Len(g) + 1
    BY <1>1, <1>3, <1>4, <2>1
  <2>2. CASE i # Len(g) + 1
    <3>1. i \in 1..Len(g) /\ h[i] = g[i]
      BY <1>1, <1>4, <2>2
    <3>2. \A x \in 1..Len(g) : x \in 1..Len(h)
      BY <1>1, <1>4
    <3> QED
      BY <3>1, <3>2 DEF Graph
  <2> QED
    BY <2>1, <2>2
<1>6. Graph(h)
  BY <1>4, <1>5 DEF Graph
<1> QED
  BY <1>4, <1>6 DEF e, h

\* What the engine makes of the error a command returned.
LEMMA NormalizedGraph ==
    ASSUME NEW g, Graph(g), Len(g) > 0
    PROVE  Graph(Normalized(g))
<1>1. <<>> \in Seq(Nat) /\ Len(<<>>) = 0 /\ \A k \in 1..Len(<<>>) : <<>>[k] \in 1..Len(g)
  OBVIOUS
<1>2. /\ <<Len(g)>> \in Seq(Nat) /\ Len(<<Len(g)>>) = 1
      /\ \A k \in 1..Len(<<Len(g)>>) : <<Len(g)>>[k] \in 1..Len(g)
  <2>1. Len(g) \in 1..Len(g)
    BY GraphFacts
  <2> QED
    BY <2>1
<1>3. Graph(Append(g, Error("configuration", "leaf", <<>>)))
  BY <1>1, Appended DEF Own, Fatal, Shapes
<1>4. Graph(Append(g, Error("retryable", "causal", <<Len(g)>>)))
  BY <1>2, Appended DEF Own, Fatal, Shapes
<1> QED
  BY <1>3, <1>4 DEF Normalized

\* What the engine is given is always a graph of errors: its actions make nothing else.
LEMMA GraphAlways == ErrSpec => []Graph(errs)
<1>1. ErrInit => Graph(errs)
  BY DEF ErrInit, Graph
<1>2. Graph(errs) /\ [ErrNext]_errs => Graph(errs)'
  <2> SUFFICES ASSUME Graph(errs), [ErrNext]_errs PROVE Graph(errs')
    BY DEF Graph
  <2>1. Len(errs) \in Nat /\ DOMAIN errs = 1..Len(errs)
    BY GraphFacts
  <2>9. <<>> \in Seq(Nat) /\ Len(<<>>) = 0 /\ \A k \in 1..Len(<<>>) : <<>>[k] \in 1..Len(errs)
    OBVIOUS
  <2>2. ASSUME NEW own \in Own, New(own) PROVE Graph(errs')
    <3>1. Graph(Append(errs, Error(own, "leaf", <<>>)))
      BY <2>9, Appended DEF Shapes
    <3> QED
      BY <2>2, <3>1 DEF New, Make
  <2>3. ASSUME NEW own \in Own, NEW i \in DOMAIN errs, Wrap(own, i) PROVE Graph(errs')
    <3>1. <<i>> \in Seq(Nat) /\ Len(<<i>>) = 1 /\ \A k \in 1..Len(<<i>>) : <<i>>[k] \in 1..Len(errs)
      BY <2>1
    <3>2. Graph(Append(errs, Error(own, "causal", <<i>>)))
      BY <3>1, Appended DEF Shapes
    <3> QED
      BY <2>3, <3>2 DEF Wrap, Make
  <2>4. ASSUME NEW i \in DOMAIN errs, NEW j \in DOMAIN errs, Join(i, j) PROVE Graph(errs')
    <3>1. <<i, j>> \in Seq(Nat) /\ Len(<<i, j>>) = 2 /\ \A k \in 1..Len(<<i, j>>) : <<i, j>>[k] \in 1..Len(errs)
      BY <2>1
    <3>2. Graph(Append(errs, Error("none", "aggregate", <<i, j>>)))
      BY <3>1, Appended DEF Shapes, Own
    <3> QED
      BY <2>4, <3>2 DEF Join, Make
  <2>5. CASE Panicking
    <3>1. Graph(Append(errs, Error("none", "panics", <<>>)))
      BY <2>9, Appended DEF Shapes, Own
    <3> QED
      BY <2>5, <3>1 DEF Panicking, Make
  <2>6. ASSUME NEW i \in DOMAIN errs, Tie(i) PROVE Graph(errs')
    <3> DEFINE old == errs[i].to
               to == Append(Front(old), Len(errs))
               e == [errs[i] EXCEPT !.to = to]
    <3>1. errs' = [errs EXCEPT ![i] = e] /\ i \in 1..Len(errs)
      BY <2>1, <2>6 DEF Tie
    <3>2. errs[i] \in ErrorRecord /\ old \in Seq(Nat) /\ Len(old) \in {1, 2}
      BY <2>1, <2>6, GraphFacts DEF Tie, Graph, ErrorRecord
    <3>3. /\ Front(old) \in Seq(Nat) /\ Len(Front(old)) = Len(old) - 1
          /\ \A k \in 1..(Len(old) - 1) : Front(old)[k] = old[k]
      <4>1. Len(old) - 1 \in Int /\ \A k \in 1..(Len(old) - 1) : old[k] \in Nat
        BY <3>2, ElementOfSeq
      <4> HIDE DEF old
      <4>2. /\ SubSeq(old, 1, Len(old) - 1) \in Seq(Nat)
            /\ Len(SubSeq(old, 1, Len(old) - 1)) = IF 1 <= Len(old) - 1 THEN (Len(old) - 1) - 1 + 1 ELSE 0
            /\ \A k \in 1..(Len(old) - 1) : SubSeq(old, 1, Len(old) - 1)[k] = old[k]
        BY <3>2, <4>1, SubSeqProperties
      <4>3. Front(old) = SubSeq(old, 1, Len(old) - 1)
        BY DEF Front
      <4>4. Len(SubSeq(old, 1, Len(old) - 1)) = Len(old) - 1
        <5>1. CASE Len(old) = 1
          BY <4>2, <5>1
        <5>2. CASE Len(old) = 2
          BY <4>2, <5>2
        <5> QED
          BY <3>2, <5>1, <5>2
      <4> QED
        BY <4>2, <4>3, <4>4
    <3> HIDE DEF old
    <3>4. /\ to \in Seq(Nat) /\ Len(to) = Len(old) /\ to[Len(old)] = Len(errs)
          /\ \A k \in 1..(Len(old) - 1) : to[k] = old[k]
      BY <2>1, <3>2, <3>3, AppendProperties
    <3>5. ASSUME NEW k \in 1..Len(to) PROVE to[k] \in 1..Len(errs)
      <4>1. CASE k = Len(old)
        BY <2>1, <3>1, <3>4, <4>1
      <4>2. CASE k # Len(old)
        <5>1. k \in 1..(Len(old) - 1) /\ k \in 1..Len(old)
          BY <3>2, <3>4, <4>2
        <5> QED
          BY <3>1, <3>4, <5>1 DEF Graph, old
      <4> QED
        BY <4>1, <4>2
    <3> HIDE DEF to
    <3>6. e \in ErrorRecord /\ e.shape = errs[i].shape /\ e.to = to
      BY <3>2, <3>4 DEF ErrorRecord
    <3> HIDE DEF e
    <3>7. /\ errs' \in Seq(ErrorRecord) /\ Len(errs') = Len(errs) /\ errs'[i] = e
          /\ \A x \in 1..Len(errs) : x # i => errs'[x] = errs[x]
      <4>1. errs \in Seq(ErrorRecord)
        BY DEF Graph
      <4> QED
        BY <3>1, <3>6, <4>1, ExceptSeq
    <3>8. ASSUME NEW x \in 1..Len(errs')
          PROVE  /\ \A k \in 1..Len(errs'[x].to) : errs'[x].to[k] \in 1..Len(errs')
                 /\ errs'[x].shape \in {"leaf", "panics"} => Len(errs'[x].to) = 0
                 /\ errs'[x].shape = "causal" => Len(errs'[x].to) = 1
                 /\ errs'[x].shape = "aggregate" => Len(errs'[x].to) = 2
      <4>1. CASE x = i
        BY <3>1, <3>4, <3>5, <3>6, <3>7, <4>1 DEF Graph, old
      <4>2. CASE x # i
        BY <3>7, <4>2 DEF Graph
      <4> QED
        BY <4>1, <4>2
    <3> QED
      BY <3>7, <3>8 DEF Graph
  <2>7. CASE errs # <<>> /\ errs' = Normalized(errs)
    <3>1. Len(errs) > 0
      BY <2>7, <2>1, EmptySeq DEF Graph
    <3> QED
      BY <2>7, <3>1, NormalizedGraph
  <2>8. CASE UNCHANGED errs
    BY <2>8
  <2> QED
    BY <2>2, <2>3, <2>4, <2>5, <2>6, <2>7, <2>8 DEF ErrNext
<1> QED
  BY <1>1, <1>2, PTL DEF ErrSpec

-----------------------------------------------------------------------------
(* The worst cause wins                                                    *)

\* What was found of the error a command returned.
LEMMA Inspected ==
    ASSUME NEW g, Graph(g), Len(g) > 0
    PROVE  LET c == InspectError(g)
           IN  /\ c \in Findings
               /\ c.invalid <=> Panics(g, Len(g)) \/ Descends(g, Len(g), MaxTraversalDepth)
               /\ ~c.invalid => Sound(g, Len(g), c, MaxTraversalDepth)
<1>1. Len(g) \in 1..Len(g) /\ {} \in SUBSET (1..Len(g))
  BY GraphFacts
<1>2. MaxTraversalDepth \in 0..MaxTraversalDepth
  BY DepthAssumption
<1>3. Reading(g, MaxTraversalDepth)
  BY <1>2, AlwaysReading
<1>4. Inspect(g)[MaxTraversalDepth] \in Levels(g)
  BY <1>2, InspectLevels
<1>5. Inspect(g)[MaxTraversalDepth][Len(g)][{}] \in Findings
  BY <1>1, <1>4 DEF Levels
<1> QED
  BY <1>1, <1>3, <1>5 DEF Reading, InspectError, Sound

\* An error that wraps nothing and is no failure is found to be what it is.
LEMMA LeafFound ==
    ASSUME NEW g, Graph(g), Len(g) > 0, NEW own \in Own \ {"none"},
           g[Len(g)] = Error(own, "leaf", <<>>)
    PROVE  InspectError(g) = Classified(own, FALSE)
<1> DEFINE N == Len(g)
           M == MaxTraversalDepth
           low == Inspect(g)[M - 1]
<1>1. N \in 1..N /\ {} \in SUBSET (1..N) /\ M \in 1..M /\ M - 1 \in 0..M
  BY GraphFacts, DepthAssumption
<1>2. low \in Levels(g) /\ Inspect(g)[M] = Level(g, low)
  BY <1>1, InspectLevels
<1>3. g[N].shape = "leaf" /\ g[N].own = own /\ Len(g[N].to) = 0
  BY DEF Error
<1> HIDE DEF low
<1>4. Level(g, low)[N][{}] = Judged(g[N], PartsOf(g, low, N, {}))
  BY <1>1, <1>2, <1>3, LevelFacts
<1>5. DOMAIN PartsOf(g, low, N, {}) = {}
  BY <1>3 DEF PartsOf
<1>6. Judged(g[N], PartsOf(g, low, N, {})) = Classified(OrFailure(own), FALSE)
  BY <1>3, <1>5 DEF Judged
<1> QED
  BY <1>2, <1>4, <1>6 DEF InspectError, OrFailure

\* A failure that is wrapped as one a retry may repeat: it is read once more, from a
\* level further up.
LEMMA WrappedFound ==
    ASSUME NEW g, Graph(g), Len(g) > 0,
           ~InspectError(g).invalid, InspectError(g).class = "failure", ~InspectError(g).aggregate,
           ~Descends(g, Len(g), MaxTraversalDepth - 1),
           NEW h, h = Append(g, Error("retryable", "causal", <<Len(g)>>))
    PROVE  InspectError(h) = Classified("retryable", FALSE)
<1> DEFINE N == Len(g)
           M == MaxTraversalDepth
           low == Inspect(h)[M - 1]
           c == InspectError(g)
<1>1. /\ N \in 1..N /\ N \in Nat /\ {} \in SUBSET (1..N) /\ M \in 1..M /\ M \in 0..M /\ M - 1 \in 0..M
      /\ M - 1 \in Nat /\ (M - 1) + 1 = M
  BY GraphFacts, DepthAssumption
<1>2. /\ Graph(h) /\ Len(h) = N + 1 /\ h[N + 1] = Error("retryable", "causal", <<N>>)
  <2>1. /\ <<N>> \in Seq(Nat) /\ Len(<<N>>) = 1
        /\ \A k \in 1..Len(<<N>>) : <<N>>[k] \in 1..Len(g)
    BY <1>1
  <2>2. "retryable" \in Own /\ "causal" \in Shapes
    BY DEF Own, Fatal, Shapes
  <2> DEFINE to == <<N>>
  <2> HIDE DEF to
  <2>3. to \in Seq(Nat) /\ Len(to) = 1 /\ \A k \in 1..Len(to) : to[k] \in 1..Len(g)
    BY <2>1 DEF to
  <2>4. h = Append(g, Error("retryable", "causal", to))
    BY DEF to
  <2>5. /\ Graph(h) /\ Len(h) = Len(g) + 1 /\ h[Len(g) + 1] = Error("retryable", "causal", to)
    BY <2>2, <2>3, <2>4, Appended
  <2> QED
    BY <2>5 DEF to
<1>3. Extended(g, h)
  <2>1. g \in Seq(ErrorRecord) /\ Error("retryable", "causal", <<N>>) \in ErrorRecord
    BY <1>1 DEF Graph, Error, ErrorRecord, Own, Fatal, Shapes
  <2> QED
    BY <1>2, <2>1, AppendProperties DEF Extended
\* The failure itself is found as before, one level higher.
<1>4. Inspect(g)[M - 1][N][{}] = c
  <2>1. Reading(g, M - 1) /\ Settled(g, M - 1)
    BY <1>1, AlwaysReading, DeeperTheSame
  <2>2. ~Panics(g, N)
    BY Inspected
  <2>3. ~Inspect(g)[M - 1][N][{}].invalid
    BY <1>1, <2>1, <2>2 DEF Reading
  <2>4. Inspect(g)[(M - 1) + 1][N][{}] = Inspect(g)[M - 1][N][{}]
    BY <1>1, <2>1, <2>3 DEF Settled
  <2> QED
    BY <1>1, <2>4 DEF InspectError
<1>5. low[N][{N + 1}] = c
  <2>1. SameAs(g, h, M - 1)
    BY <1>1, <1>2, <1>3, NewErrorApart
  <2>2. Inspect(h)[M - 1][N][{} \cup {Len(h)}] = Inspect(g)[M - 1][N][{}]
    BY <1>1, <2>1 DEF SameAs
  <2>3. {} \cup {Len(h)} = {N + 1}
    BY <1>2
  <2> QED
    BY <1>4, <2>2, <2>3
<1>6. low \in Levels(h) /\ Inspect(h)[M] = Level(h, low)
  BY <1>1, <1>2, InspectLevels
<1>7. h[N + 1].shape = "causal" /\ h[N + 1].own = "retryable" /\ h[N + 1].to = <<N>>
  BY <1>2 DEF Error
<1> DEFINE parts == PartsOf(h, low, N + 1, {})
<1>8. Level(h, low)[N + 1][{}] = Judged(h[N + 1], parts)
  <2>1. N + 1 \in 1..Len(h) /\ {} \in SUBSET (1..Len(h)) /\ N + 1 \notin {}
    BY <1>1, <1>2
  <2> HIDE DEF low
  <2> QED
    BY <1>2, <1>6, <1>7, <2>1, LevelFacts
<1>9. DOMAIN parts = {1} /\ parts[1] = c
  <2>1. Len(<<N>>) = 1 /\ <<N>>[1] = N /\ 1..1 = {1}
    OBVIOUS
  <2>2. {} \cup {N + 1} = {N + 1}
    OBVIOUS
  <2> HIDE DEF low, c
  <2>3. parts = [k \in {1} |-> low[<<N>>[k]][{} \cup {N + 1}]]
    BY <1>7, <2>1 DEF PartsOf
  <2> QED
    BY <1>5, <2>1, <2>2, <2>3
<1> HIDE DEF parts, c
<1>10. c.class = "failure" /\ c.aggregate = FALSE /\ ~c.invalid
  <2>1. c \in Findings
    BY Inspected DEF c
  <2> QED
    BY <2>1 DEF c, Findings
<1>11. Causal("retryable", c) = "retryable"
  BY <1>10 DEF Causal, Fatal
<1>12. Judged(h[N + 1], parts) = Classified("retryable", FALSE)
  BY <1>7, <1>9, <1>10, <1>11 DEF Judged
<1> QED
  BY <1>2, <1>6, <1>8, <1>12 DEF InspectError

\* Of every graph of errors.
LEMMA GraphRead ==
    Graph(errs) => WorstCauseWins
<1> SUFFICES ASSUME Graph(errs), errs # <<>> PROVE WorstCauseWins
  BY DEF WorstCauseWins
<1> DEFINE N == Len(errs)
           c == InspectError(errs)
           below == Below(errs, N)
           fatal == {errs[i].own : i \in below} \cap Fatal
           n == Normalized(errs)
           cn == InspectError(n)
<1>1. N > 0 /\ N \in 1..N /\ below \subseteq 1..N
  BY GraphFacts, EmptySeq, CauseFacts DEF Graph
<1>2. c \in Findings
  BY <1>1, Inspected
<1>3. c.invalid <=> \/ \E i \in below : errs[i].shape = "panics"
                   \/ Descends(errs, N, MaxTraversalDepth)
  BY <1>1, Inspected DEF Panics
<1>4. ~c.invalid => IF fatal = {} THEN c.class \notin Fatal
                    ELSE c.class \in fatal /\ \A f \in fatal : Rank(f) <= Rank(c.class)
  <2> SUFFICES ASSUME ~c.invalid
               PROVE  IF fatal = {} THEN c.class \notin Fatal
                      ELSE c.class \in fatal /\ \A f \in fatal : Rank(f) <= Rank(c.class)
    OBVIOUS
  <2>1. Sound(errs, N, c, MaxTraversalDepth)
    BY <1>1, Inspected
  <2> HIDE DEF c, below, N
  <2>2. c.class \in Fatal => c.class \in fatal
    BY <2>1 DEF Sound, below
  <2>3. \A f \in fatal : c.class \in Fatal /\ Rank(f) <= Rank(c.class)
    BY <2>1 DEF Sound, below
  <2> QED
    BY <2>2, <2>3
<1>5. ASSUME c.invalid \/ ~Descends(errs, N, MaxTraversalDepth - 1)
      PROVE  /\ cn.class = CASE c.invalid -> "configuration"
                             [] ~c.invalid /\ c.class = "failure" /\ ~c.aggregate -> "retryable"
                             [] OTHER -> c.class
             /\ ~cn.invalid /\ Normalized(n) = n
  <2>1. CASE c.invalid
    <3>1. n = Append(errs, Error("configuration", "leaf", <<>>))
      BY <2>1 DEF Normalized
    <3>2. /\ Graph(n) /\ Len(n) = N + 1 /\ n[N + 1] = Error("configuration", "leaf", <<>>)
      <4>1. <<>> \in Seq(Nat) /\ Len(<<>>) = 0 /\ \A k \in 1..Len(<<>>) : <<>>[k] \in 1..Len(errs)
        OBVIOUS
      <4>2. "configuration" \in Own /\ "leaf" \in Shapes
        BY DEF Own, Fatal, Shapes
      <4> DEFINE h == Append(errs, Error("configuration", "leaf", <<>>))
      <4>3. /\ Graph(h) /\ Len(h) = N + 1 /\ h[N + 1] = Error("configuration", "leaf", <<>>)
        BY <4>1, <4>2, Appended
      <4> HIDE DEF h, n
      <4> QED
        BY <3>1, <4>3 DEF h
    <3> HIDE DEF n, c
    <3>3. cn = Classified("configuration", FALSE)
      <4>1. "configuration" \in Own \ {"none"} /\ Len(n) > 0
        BY <1>1, <3>2 DEF Own, Fatal
      <4> QED
        BY <3>2, <4>1, LeafFound
    <3>4. cn.class = "configuration" /\ ~cn.invalid
      BY <3>3 DEF Classified
    <3>5. Normalized(n) = n
      BY <3>4 DEF Normalized
    <3> QED
      BY <2>1, <3>4, <3>5
  <2>2. CASE ~c.invalid /\ c.class = "failure" /\ ~c.aggregate
    <3>1. n = Append(errs, Error("retryable", "causal", <<N>>))
      BY <2>2 DEF Normalized
    <3>2. cn = Classified("retryable", FALSE)
      BY <1>1, <1>5, <2>2, <3>1, WrappedFound
    <3> HIDE DEF n, c
    <3>3. cn.class = "retryable" /\ ~cn.invalid
      BY <3>2 DEF Classified
    <3>4. Normalized(n) = n
      BY <3>3 DEF Normalized
    <3> QED
      BY <2>2, <3>3, <3>4
  <2>3. CASE ~c.invalid /\ ~(c.class = "failure" /\ ~c.aggregate)
    <3>1. n = errs
      BY <2>3 DEF Normalized
    <3>2. cn = c /\ Normalized(n) = n
      BY <3>1
    <3> HIDE DEF n, cn, c
    <3> QED
      BY <2>3, <3>2
  <2> QED
    BY <2>1, <2>2, <2>3
<1> QED
  BY <1>3, <1>4, <1>5 DEF WorstCauseWins

\* However errors were wrapped and joined, whatever the graph's size and the limit of the
\* traversal: the engine sees the worst of them, refuses only what cycles, panics or goes
\* too deep, and makes of a failure nobody named one that a retry may repeat, once
\* (errors.go, inspectTerminalError and normalizeTerminalError).
THEOREM EngineSeesWorstCause == ErrSpec => []WorstCauseWins
  BY GraphAlways, GraphRead, PTL

-----------------------------------------------------------------------------
(* One pass of flowbaton test                                              *)

\* A list that is made by appending has the chosen elements, and no others.
LEMMA PickedElements ==
    ASSUME NEW S, NEW flows \in Seq(S), NEW which
    PROVE  /\ Picked(flows, which) \in Seq(S)
           /\ ToSet(Picked(flows, which)) = {flows[k] : k \in which \cap (1..Len(flows))}
<1> DEFINE n == Len(flows)
           Body(f) == [k \in 0..n |-> IF k = 0 THEN <<>>
                                      ELSE IF k \in which THEN Append(f[k - 1], flows[k]) ELSE f[k - 1]]
           picked == CHOOSE f : f = Body(f)
<1>1. n \in Nat /\ \A k \in 1..n : flows[k] \in S
  BY LenProperties, ElementOfSeq
<1>2. Picked(flows, which) = picked[n]
  BY DEF Picked
<1>3. \E f : f = Body(f)
  <2> DEFINE Turn == [k \in 1..n |-> [v \in Seq(S) |-> IF k \in which THEN Append(v, flows[k]) ELSE v]]
  <2>1. \A k \in 1..n, v \in Seq(S) : /\ Turn[k][v] = IF k \in which THEN Append(v, flows[k]) ELSE v
                                      /\ Turn[k][v] \in Seq(S)
    BY <1>1, AppendProperties
  <2> HIDE DEF Turn, n
  <2>2. PICK f : History(n, Seq(S), <<>>, Turn, f)
    <3>1. Loop(n, Seq(S), Turn) /\ <<>> \in Seq(S)
      BY <2>1 DEF Loop
    <3> QED
      BY <1>1, <3>1, HistoryExists
  <2>3. f \in [0..n -> Seq(S)] /\ f[0] = <<>> /\ \A k \in 1..n : f[k] = Turn[k][f[k - 1]]
    BY <2>2 DEF History
  <2>4. \A k \in 1..n : f[k] = IF k \in which THEN Append(f[k - 1], flows[k]) ELSE f[k - 1]
    <3> TAKE k \in 1..n
    <3>1. k - 1 \in 0..n
      BY <1>1
    <3> QED
      BY <2>1, <2>3, <3>1
  <2>5. \A k \in 0..n : f[k] = IF k = 0 THEN <<>>
                             ELSE IF k \in which THEN Append(f[k - 1], flows[k]) ELSE f[k - 1]
    <3>1. \A k \in 0..n : k = 0 \/ k \in 1..n
      BY <1>1
    <3> QED
      BY <2>3, <2>4, <3>1
  <2>6. f = Body(f)
    BY <2>3, <2>5
  <2> QED
    BY <2>6
<1>4. picked = Body(picked)
  BY <1>3
<1> HIDE DEF picked
<1>5. /\ picked[0] = <<>>
      /\ \A k \in 1..n : picked[k] = IF k \in which THEN Append(picked[k - 1], flows[k]) ELSE picked[k - 1]
  <2>1. 0 \in 0..n /\ \A k \in 1..n : k \in 0..n /\ k # 0
    BY <1>1
  <2> QED
    BY <1>4, <2>1
<1> DEFINE Right(k) == /\ picked[k] \in Seq(S)
                       /\ ToSet(picked[k]) = {flows[j] : j \in which \cap (1..k)}
           N == {k \in Nat : k <= n => Right(k)}
<1> HIDE DEF n
<1>6. 0 \in N
  <2>1. picked[0] \in Seq(S) /\ ToSet(<<>>) = {} /\ 1..0 = {}
    BY <1>5 DEF ToSet
  <2> QED
    BY <1>5, <2>1
<1>7. ASSUME NEW k \in Nat, k \in N PROVE k + 1 \in N
  <2> SUFFICES ASSUME k + 1 <= n PROVE Right(k + 1)
    OBVIOUS
  <2>1. k + 1 \in 1..n /\ (k + 1) - 1 = k /\ Right(k)
    BY <1>1, <1>7
  <2>2. 1..(k + 1) = (1..k) \cup {k + 1} /\ k + 1 \notin 1..k
    OBVIOUS
  <2>3. CASE k + 1 \in which
    <3>1. picked[k + 1] = Append(picked[k], flows[k + 1]) /\ flows[k + 1] \in S
      BY <1>1, <1>5, <2>1, <2>3
    <3>2. picked[k + 1] \in Seq(S) /\ ToSet(picked[k + 1]) = ToSet(picked[k]) \cup {flows[k + 1]}
      <4> DEFINE s == picked[k]
                 e == flows[k + 1]
      <4> HIDE DEF s, e
      <4>1. s \in Seq(S) /\ e \in S
        BY <2>1, <3>1 DEF s, e
      <4>2. /\ Append(s, e) \in Seq(S) /\ Len(s) \in Nat /\ Len(Append(s, e)) = Len(s) + 1
            /\ Append(s, e)[Len(s) + 1] = e /\ \A j \in 1..Len(s) : Append(s, e)[j] = s[j]
            /\ DOMAIN s = 1..Len(s) /\ DOMAIN Append(s, e) = 1..(Len(s) + 1)
        BY <4>1, AppendProperties, LenProperties
      <4>3. ToSet(Append(s, e)) = ToSet(s) \cup {e}
        <5>1. 1..(Len(s) + 1) = (1..Len(s)) \cup {Len(s) + 1}
          BY <4>2
        <5> QED
          BY <4>2, <5>1 DEF ToSet
      <4> QED
        BY <3>1, <4>2, <4>3 DEF s, e
    <3>3. {flows[j] : j \in which \cap (1..(k + 1))} = {flows[j] : j \in which \cap (1..k)} \cup {flows[k + 1]}
      BY <2>2, <2>3
    <3> QED
      BY <2>1, <3>2, <3>3
  <2>4. CASE k + 1 \notin which
    <3>1. picked[k + 1] = picked[k]
      BY <1>5, <2>1, <2>4
    <3>2. which \cap (1..(k + 1)) = which \cap (1..k)
      BY <2>2, <2>4
    <3> QED
      BY <2>1, <3>1, <3>2
  <2> QED
    BY <2>3, <2>4
<1>8. \A k \in Nat : k \in N
  <2> HIDE DEF N
  <2> QED
    BY <1>6, <1>7, Induction
<1>9. Right(n)
  <2>1. n \in N /\ n <= n
    <3> HIDE DEF N
    <3> QED
      BY <1>1, <1>8
  <2> HIDE DEF Right
  <2> QED
    BY <2>1
<1> QED
  BY <1>2, <1>9 DEF n

\* A list is empty, or its last element is one of it.
LEMMA LastListed ==
    ASSUME NEW S, NEW s \in Seq(S), ToSet(s) # {}
    PROVE  Last(s) \in ToSet(s)
<1>1. DOMAIN s = 1..Len(s) /\ Len(s) \in Nat
  BY LenProperties
<1>2. Len(s) \in 1..Len(s)
  BY <1>1 DEF ToSet
<1> QED
  BY <1>1, <1>2 DEF Last, ToSet

LEMMA ConcatListed ==
    ASSUME NEW S, NEW s \in Seq(S), NEW t \in Seq(S)
    PROVE  s \o t \in Seq(S) /\ ToSet(s \o t) = ToSet(s) \cup ToSet(t)
<1>1. /\ s \o t \in Seq(S) /\ Len(s \o t) = Len(s) + Len(t) /\ Len(s) \in Nat /\ Len(t) \in Nat
      /\ DOMAIN s = 1..Len(s) /\ DOMAIN t = 1..Len(t) /\ DOMAIN (s \o t) = 1..(Len(s) + Len(t))
      /\ \A i \in 1..(Len(s) + Len(t)) : (s \o t)[i] = IF i <= Len(s) THEN s[i] ELSE t[i - Len(s)]
  BY ConcatProperties, LenProperties
<1> DEFINE c == s \o t
<1> HIDE DEF c
<1>2. ASSUME NEW i \in DOMAIN c PROVE c[i] \in ToSet(s) \cup ToSet(t)
  <2>1. CASE i <= Len(s)
    BY <1>1, <1>2, <2>1 DEF ToSet, c
  <2>2. CASE ~(i <= Len(s))
    <3>1. i - Len(s) \in 1..Len(t) /\ c[i] = t[i - Len(s)]
      BY <1>1, <1>2, <2>2 DEF c
    <3> QED
      BY <1>1, <3>1 DEF ToSet
  <2> QED
    BY <2>1, <2>2
<1>3. ASSUME NEW x \in ToSet(s) PROVE x \in ToSet(c)
  <2>1. PICK i \in 1..Len(s) : x = s[i]
    BY <1>1, <1>3 DEF ToSet
  <2>2. i \in DOMAIN c /\ c[i] = x
    BY <1>1, <2>1 DEF c
  <2> QED
    BY <2>2 DEF ToSet
<1>4. ASSUME NEW x \in ToSet(t) PROVE x \in ToSet(c)
  <2>1. PICK i \in 1..Len(t) : x = t[i]
    BY <1>1, <1>4 DEF ToSet
  <2>2. i + Len(s) \in DOMAIN c /\ c[i + Len(s)] = x
    BY <1>1, <2>1 DEF c
  <2> QED
    BY <2>2 DEF ToSet
<1>5. ToSet(c) = ToSet(s) \cup ToSet(t)
  BY <1>2, <1>3, <1>4 DEF ToSet
<1> QED
  BY <1>1, <1>5 DEF c

-----------------------------------------------------------------------------
(* The plan                                                                *)

Found == ToSet(ws.found)
NamesApart(selected) == IsInjective([k \in DOMAIN selected |-> selected[k].name])

LEMMA PathsListed ==
    ASSUME NEW flows
    PROVE  PathsOf(flows) = {f.path : f \in ToSet(flows)}
  BY DEF PathsOf, ToSet

\* Flows that are ordered by name are the flows that were selected, each name standing
\* for one of them.
LEMMA OrderKeeps ==
    ASSUME InputsListed, ws \in Workspaces, NEW selected \in Seq(Found), ~OrderRefused(selected)
    PROVE  /\ applyOrder(selected) \in Seq(Found)
           /\ NamesApart(selected) => PathsOf(applyOrder(selected)) = PathsOf(selected)
<1> DEFINE order == ws.order
           first == [k \in DOMAIN order |-> ByName(selected, order[k])]
           others == {k \in DOMAIN selected : selected[k].name \notin ToSet(order)}
           rest == Picked(selected, others)
<1>1. order \in Seq(ToSet(order)) /\ DOMAIN order = 1..Len(order) /\ Len(order) \in Nat
  BY LenProperties DEF InputsListed
<1>2. DOMAIN selected = 1..Len(selected) /\ \A k \in DOMAIN selected : selected[k] \in Found /\ selected[k] \in ToSet(selected)
  BY LenProperties, ElementOfSeq DEF ToSet
<1>3. ASSUME NEW k \in DOMAIN order
      PROVE  /\ ByName(selected, order[k]) \in Found
             /\ \E j \in DOMAIN selected : selected[j] = ByName(selected, order[k]) /\ selected[j].name = order[k]
  <2> DEFINE which == {j \in DOMAIN selected : selected[j].name = order[k]}
             picked == Picked(selected, which)
  <2>1. picked \in Seq(Found) /\ ToSet(picked) = {selected[j] : j \in which \cap (1..Len(selected))}
    BY PickedElements
  <2>2. PICK f \in ToSet(selected) : f.name = order[k]
    BY DEF OrderRefused, ToSet
  <2>3. PICK j \in DOMAIN selected : f = selected[j]
    BY <2>2 DEF ToSet
  <2>4. j \in which \cap (1..Len(selected))
    BY <1>2, <2>2, <2>3
  <2>5. Last(picked) \in ToSet(picked)
    <3> HIDE DEF picked
    <3> QED
      BY <2>1, <2>4, LastListed
  <2>6. ByName(selected, order[k]) = Last(picked)
    BY DEF ByName
  <2> HIDE DEF picked
  <2> QED
    BY <1>2, <2>1, <2>5, <2>6
<1>4. first \in Seq(Found) /\ ToSet(first) = {ByName(selected, order[k]) : k \in DOMAIN order}
  <2> HIDE DEF order
  <2>1. first \in [1..Len(order) -> Found] /\ DOMAIN first = DOMAIN order
    BY <1>1, <1>3
  <2>2. first \in Seq(Found)
    BY <1>1, <2>1, IsASeq
  <2> QED
    BY <2>2 DEF ToSet
<1>5. rest \in Seq(Found) /\ ToSet(rest) = {selected[k] : k \in others \cap (1..Len(selected))}
  BY PickedElements
<1>6. applyOrder(selected) = first \o rest
  BY DEF applyOrder
<1> HIDE DEF first, rest, order
<1>7. applyOrder(selected) \in Seq(Found) /\ ToSet(applyOrder(selected)) = ToSet(first) \cup ToSet(rest)
  BY <1>4, <1>5, <1>6, ConcatListed
<1>8. ASSUME NamesApart(selected) PROVE ToSet(applyOrder(selected)) = ToSet(selected)
  <2>1. \A i, j \in DOMAIN selected : selected[i].name = selected[j].name => i = j
    BY <1>8 DEF NamesApart, IsInjective
  <2>2. ASSUME NEW k \in DOMAIN selected PROVE selected[k] \in ToSet(first) \cup ToSet(rest)
    <3>1. CASE selected[k].name \in ToSet(order)
      <4>1. PICK i \in DOMAIN order : order[i] = selected[k].name
        BY <3>1 DEF ToSet
      <4>2. PICK j \in DOMAIN selected : selected[j] = ByName(selected, order[i]) /\ selected[j].name = order[i]
        BY <1>3
      <4> QED
        BY <1>4, <2>1, <4>1, <4>2
    <3>2. CASE selected[k].name \notin ToSet(order)
      BY <1>2, <1>5, <3>2
    <3> QED
      BY <3>1, <3>2
  <2>3. ToSet(first) \cup ToSet(rest) \subseteq ToSet(selected)
    BY <1>2, <1>3, <1>4, <1>5
  <2> QED
    BY <1>7, <2>2, <2>3 DEF ToSet
<1> QED
  BY <1>7, <1>8, PathsListed

LEMMA CountAtLeastOne ==
    ASSUME InputsListed, request \in Requests
    PROVE  Count \in Nat \ {0}
  BY DEF InputsListed, Count

PlanInv ==
    /\ ws \in Workspaces /\ request \in Requests
    /\ chosen \in Seq(Found) /\ roots \in Seq(Found)
    /\ NamesApart(chosen) => PathsOf(roots) = PathsOf(chosen)
    /\ \/ shards = <<>>
       \/ /\ shards = [i \in 1..Count |-> shards[i]]
          /\ \A i \in 1..Count : shards[i].roots = RootsOf(i)

LEMMA PlanStays == PlanInv /\ UNCHANGED planVars => PlanInv'
<1> SUFFICES ASSUME PlanInv, UNCHANGED planVars PROVE PlanInv'
  OBVIOUS
<1>1. /\ ws' = ws /\ request' = request /\ chosen' = chosen /\ roots' = roots /\ shards' = shards
  BY DEF planVars
<1>2. Found' = Found /\ Count' = Count
  BY <1>1 DEF Found, ToSet, Count
<1>3. NamesApart(chosen)' = NamesApart(chosen) /\ PathsOf(roots)' = PathsOf(roots) /\ PathsOf(chosen)' = PathsOf(chosen)
  BY <1>1 DEF NamesApart, IsInjective, PathsOf
<1>4. \A i : RootsOf(i)' = RootsOf(i)
  BY <1>1, <1>2 DEF RootsOf, Picked
<1> QED
  BY <1>1, <1>2, <1>3, <1>4 DEF PlanInv

\* Every root is dealt to a shard, or to all.
LEMMA SharesOf ==
    ASSUME InputsListed, PlanInv
    PROVE  /\ Len(shards) \in Nat /\ Shards = 1..Len(shards)
           /\ shards # <<>> => Len(shards) = Count
           /\ \A i \in Shards : shards[i].roots \in Seq(Found)
           /\ shards # <<>> =>
                 /\ UNION {PathsOf(shards[i].roots) : i \in Shards} = PathsOf(roots)
                 /\ request.all > 0 => \A i \in Shards : shards[i].roots = roots
<1>1. CASE shards = <<>>
  BY <1>1, EmptySeq, LenProperties DEF Shards
<1>2. CASE shards # <<>>
  <2>1. Count \in Nat \ {0}
    BY CountAtLeastOne DEF PlanInv
  <2>2. Len(shards) = Count /\ Shards = 1..Count
    <3>1. shards \in [1..Count -> {shards[i] : i \in 1..Count}] /\ DOMAIN shards = 1..Count
      BY <1>2 DEF PlanInv
    <3>2. shards \in Seq({shards[i] : i \in 1..Count})
      BY <2>1, <3>1, IsASeq
    <3> QED
      BY <2>1, <3>1, <3>2, LenProperties DEF Shards
  <2>3. \A i \in 1..Count : shards[i].roots = RootsOf(i)
    BY <1>2 DEF PlanInv
  <2>4. CASE request.all > 0
    <3>1. \A i \in 1..Count : shards[i].roots = roots
      BY <2>3, <2>4 DEF RootsOf
    <3>2. 1 \in 1..Count
      BY <2>1
    <3>3. UNION {PathsOf(shards[i].roots) : i \in 1..Count} = PathsOf(roots)
      BY <3>1, <3>2
    <3> QED
      BY <2>1, <2>2, <3>1, <3>3 DEF PlanInv
  <2>5. CASE ~(request.all > 0)
    <3> DEFINE mine(i) == {k \in DOMAIN roots : (k - 1) % Count = i - 1}
    <3>1. DOMAIN roots = 1..Len(roots) /\ Len(roots) \in Nat /\ roots \in Seq(Found)
      BY LenProperties DEF PlanInv
    <3>2. ASSUME NEW i \in 1..Count
          PROVE  /\ shards[i].roots \in Seq(Found)
                 /\ ToSet(shards[i].roots) = {roots[k] : k \in mine(i)}
      <4>1. shards[i].roots = Picked(roots, mine(i))
        BY <2>3, <2>5 DEF RootsOf
      <4>2. mine(i) \cap (1..Len(roots)) = mine(i)
        BY <3>1
      <4> HIDE DEF mine
      <4> QED
        BY <3>1, <4>1, <4>2, PickedElements
    <3>3. ASSUME NEW k \in DOMAIN roots PROVE \E i \in 1..Count : k \in mine(i)
      <4>1. (k - 1) % Count \in 0..(Count - 1)
        BY <2>1, <3>1
      <4> DEFINE r == (k - 1) % Count
      <4> HIDE DEF r
      <4>2. r + 1 \in 1..Count /\ (r + 1) - 1 = r
        BY <2>1, <4>1 DEF r
      <4> QED
        BY <4>2 DEF r
    <3>4. UNION {PathsOf(shards[i].roots) : i \in 1..Count} = PathsOf(roots)
      <4>1. ASSUME NEW i \in 1..Count PROVE PathsOf(shards[i].roots) = {roots[k].path : k \in mine(i)}
        BY <3>2, <4>1, PathsListed
      <4>2. PathsOf(roots) = {roots[k].path : k \in DOMAIN roots}
        BY DEF PathsOf
      <4>3. \A i \in 1..Count : mine(i) \subseteq DOMAIN roots
        OBVIOUS
      <4> HIDE DEF mine
      <4>4. \A p \in PathsOf(roots) : \E i \in 1..Count : p \in PathsOf(shards[i].roots)
        BY <3>3, <4>1, <4>2
      <4>5. \A i \in 1..Count : PathsOf(shards[i].roots) \subseteq PathsOf(roots)
        BY <4>1, <4>2, <4>3
      <4> QED
        BY <4>4, <4>5
    <3> QED
      BY <2>1, <2>2, <2>5, <3>2, <3>4
  <2> QED
    BY <2>4, <2>5
<1> QED
  BY <1>1, <1>2

-----------------------------------------------------------------------------
(* The shards                                                              *)

Places == {"open", "record", "run", "finalize", "close", "done"}
Results == [path : {f.path : f \in Found}, passed : BOOLEAN]

\* A shard without an error has passed every root it has come to, one after the other,
\* and has a recording where one was asked for.
Fine(i) ==
    /\ position[i] \in {"open", "record"} => next[i] = 1
    /\ next[i] <= Len(shards[i].roots) + 1
    /\ got[i] = [k \in 1..(next[i] - 1) |-> [path |-> shards[i].roots[k].path, passed |-> TRUE]]
    /\ position[i] \in {"finalize", "close", "done"} => next[i] = Len(shards[i].roots) + 1
    /\ request.record =>
          /\ position[i] \in {"run", "finalize"} => i \in taping
          /\ position[i] \in {"close", "done"} => i \in finalized

\* Whatever goes wrong in a shard, its driver is open and its recording runs only where
\* it still ends them.
ShardFits(i) ==
    /\ i \in driving => position[i] \in {"record", "run", "finalize", "close"}
    /\ i \in taping => position[i] \in {"run", "finalize"}
    /\ i \notin troubles => Fine(i)

ShardsTyped ==
    /\ position \in [Shards -> Places] /\ next \in [Shards -> Nat \ {0}] /\ got \in [Shards -> Seq(Results)]
    /\ driving \subseteq Shards /\ taping \subseteq Shards

ShardsInv == ShardsTyped /\ \A i \in Shards : ShardFits(i)

\* What one shard does leaves the others as they are.
Aside(i) ==
    /\ \A j \in Shards \ {i} :
          /\ position'[j] = position[j] /\ next'[j] = next[j] /\ got'[j] = got[j]
          /\ (j \in driving' <=> j \in driving) /\ (j \in taping' <=> j \in taping)
          /\ (j \in finalized' <=> j \in finalized) /\ (j \in troubles' <=> j \in troubles)
    /\ UNCHANGED planVars

LEMMA AsideKeeps ==
    ASSUME NEW i \in Shards, ShardsInv, Aside(i), ShardsTyped', ShardFits(i)'
    PROVE  ShardsInv'
<1>1. shards' = shards /\ request' = request /\ Shards' = Shards
  BY DEF Aside, planVars, Shards
<1>2. ASSUME NEW j \in Shards, j # i PROVE ShardFits(j)'
  BY <1>1, <1>2 DEF Aside, ShardsInv, ShardFits, Fine
<1> QED
  BY <1>1, <1>2 DEF ShardsInv

LEMMA ShardStepKeeps ==
    ASSUME InputsListed, PlanInv, ShardsInv, NEW i \in Shards, ShardStep(i)
    PROVE  ShardsInv' /\ UNCHANGED planVars
<1> DEFINE share == shards[i].roots
           n == Len(share)
<1>1. UNCHANGED planVars /\ shards' = shards /\ request' = request /\ Shards' = Shards /\ ws' = ws
  BY DEF ShardStep, OpenSession, StartRecording, RunRoot, FlowsEnd, FinalizeRecording, CloseShard,
         KeepJob, planVars, Shards
<1>2. Found' = Found /\ Results' = Results
  BY <1>1 DEF Found, ToSet, Results
<1>3. share \in Seq(Found) /\ n \in Nat /\ \A k \in 1..n : share[k] \in Found
  BY SharesOf, LenProperties, ElementOfSeq
<1>4. /\ position \in [Shards -> Places] /\ next \in [Shards -> Nat \ {0}] /\ got \in [Shards -> Seq(Results)]
      /\ driving \subseteq Shards /\ taping \subseteq Shards /\ ShardFits(i)
  BY DEF ShardsInv, ShardsTyped
<1> USE DEF Running, Goto, Trouble
<1>5. ASSUME OpenSession(i) PROVE ShardsInv'
  <2>1. Aside(i) /\ ShardsTyped'
    BY <1>1, <1>2, <1>4, <1>5 DEF OpenSession, Aside, ShardsTyped, Places
  <2>2. ShardFits(i)'
    BY <1>1, <1>4, <1>5 DEF OpenSession, ShardFits, Fine
  <2> QED
    BY <2>1, <2>2, AsideKeeps
<1>6. ASSUME StartRecording(i) PROVE ShardsInv'
  <2>1. Aside(i) /\ ShardsTyped'
    BY <1>1, <1>2, <1>4, <1>6 DEF StartRecording, Aside, ShardsTyped, Places
  <2>2. ShardFits(i)'
    BY <1>1, <1>4, <1>6 DEF StartRecording, ShardFits, Fine
  <2> QED
    BY <2>1, <2>2, AsideKeeps
<1>7. ASSUME RunRoot(i) PROVE ShardsInv'
  <2> DEFINE k == next[i]
             result(passed) == [path |-> share[k].path, passed |-> passed]
  <2>1. k \in 1..n /\ share[k] \in Found /\ position[i] = "run"
    BY <1>3, <1>4, <1>7 DEF RunRoot, Over
  <2>2. \A passed \in BOOLEAN : result(passed) \in Results
    BY <2>1 DEF Results
  <2>3. \A passed \in BOOLEAN : Append(got[i], result(passed)) \in Seq(Results)
    BY <1>4, <2>2, AppendProperties
  <2>4. next' = [next EXCEPT ![i] = k + 1] /\ next'[i] = k + 1
    BY <1>4, <1>7 DEF RunRoot
  <2>5. \/ /\ got' = [got EXCEPT ![i] = Append(got[i], result(TRUE))]
           /\ troubles' = troubles /\ position' = position
        \/ /\ got' = got \/ got' = [got EXCEPT ![i] = Append(got[i], result(FALSE))]
           /\ troubles' = troubles \cup {i}
           /\ position' = position \/ position' = [position EXCEPT ![i] = "finalize"]
    BY <1>7 DEF RunRoot
  <2>6. driving' = driving /\ taping' = taping /\ finalized' = finalized
    BY <1>7 DEF RunRoot
  <2>7. Aside(i) /\ ShardsTyped'
    <3>1. got' \in [Shards -> Seq(Results)] /\ \A j \in Shards \ {i} : got'[j] = got[j]
      <4> DEFINE one == Append(got[i], result(TRUE))
                 none == Append(got[i], result(FALSE))
      <4>1. one \in Seq(Results) /\ none \in Seq(Results)
        BY <2>3
      <4>2. got' = got \/ got' = [got EXCEPT ![i] = one] \/ got' = [got EXCEPT ![i] = none]
        BY <2>5
      <4> HIDE DEF one, none
      <4> QED
        BY <1>4, <4>1, <4>2
    <3>2. position' \in [Shards -> Places] /\ \A j \in Shards \ {i} : position'[j] = position[j] /\ (j \in troubles' <=> j \in troubles)
      BY <1>4, <2>5 DEF Places
    <3>3. next' \in [Shards -> Nat \ {0}] /\ \A j \in Shards \ {i} : next'[j] = next[j]
      BY <1>4, <2>1, <2>4
    <3> QED
      BY <1>1, <1>2, <1>4, <2>6, <3>1, <3>2, <3>3 DEF Aside, ShardsTyped
  <2>8. ShardFits(i)'
    <3>1. i \in taping' => position'[i] \in {"run", "finalize"}
      BY <1>4, <2>1, <2>5, <2>6 
    <3>2. i \in driving' => position'[i] \in {"record", "run", "finalize", "close"}
      BY <1>4, <2>1, <2>5, <2>6 
    <3>3. ASSUME i \notin troubles' PROVE Fine(i)'
      <4>1. /\ got'[i] = Append(got[i], result(TRUE)) /\ position'[i] = "run"
            /\ i \notin troubles
        BY <1>4, <2>1, <2>5, <3>3
      <4>2. Fine(i)
        BY <1>4, <4>1 DEF ShardFits
      <4>3. got'[i] = [m \in 1..k |-> [path |-> share[m].path, passed |-> TRUE]]
        <5> DEFINE old == [m \in 1..(k - 1) |-> [path |-> share[m].path, passed |-> TRUE]]
                   now == [m \in 1..k |-> [path |-> share[m].path, passed |-> TRUE]]
        <5>1. old = got[i] /\ old \in Seq(Results) /\ k - 1 \in Nat
          <6>1. got[i] = old
            BY <4>2 DEF Fine
          <6>2. got[i] \in Seq(Results) /\ k - 1 \in Nat
            <7> HIDE DEF old
            <7> QED
              BY <1>4, <2>1
          <6> QED
            BY <6>1, <6>2
        <5>2. Len(old) = k - 1
          <6>1. DOMAIN old = 1..(k - 1) /\ DOMAIN old = 1..Len(old) /\ Len(old) \in Nat
            BY <5>1, LenProperties
          <6> QED
            BY <5>1, <6>1
        <5>3. /\ DOMAIN Append(old, result(TRUE)) = 1..k /\ Append(old, result(TRUE))[k] = result(TRUE)
              /\ \A m \in 1..(k - 1) : Append(old, result(TRUE))[m] = old[m]
              /\ Append(old, result(TRUE)) \in Seq(Results)
          <6> DEFINE r == result(TRUE)
          <6>1. r \in Results
            BY <2>2
          <6> HIDE DEF old, r
          <6>2. /\ Append(old, r) \in Seq(Results) /\ Len(Append(old, r)) = (k - 1) + 1
                /\ \A m \in 1..(k - 1) : Append(old, r)[m] = old[m]
                /\ Append(old, r)[(k - 1) + 1] = r
            BY <5>1, <5>2, <6>1, AppendProperties
          <6>3. DOMAIN Append(old, r) = 1..Len(Append(old, r)) /\ (k - 1) + 1 = k
            BY <2>1, <6>2, LenProperties
          <6> QED
            BY <6>2, <6>3 DEF r
        <5>4. \A m \in 1..k : Append(old, result(TRUE))[m] = now[m]
          <6> TAKE m \in 1..k
          <6>1. CASE m = k
            BY <5>3, <6>1
          <6>2. CASE m # k
            <7>1. m \in 1..(k - 1)
              BY <2>1, <6>2
            <7> QED
              BY <5>3, <7>1
          <6> QED
            BY <6>1, <6>2
        <5>5. Append(old, result(TRUE)) = now
          <6> DEFINE a == Append(old, result(TRUE))
          <6>1. a = [m \in DOMAIN a |-> a[m]]
            <7>1. a \in Seq(Results)
              BY <5>3
            <7> HIDE DEF a
            <7>2. PICK l \in Nat : a \in [1..l -> Results]
              BY <7>1, SeqDef
            <7> QED
              BY <7>2
          <6>2. DOMAIN a = 1..k /\ \A m \in 1..k : a[m] = [path |-> share[m].path, passed |-> TRUE]
            BY <5>3, <5>4
          <6> HIDE DEF a
          <6> QED
            BY <6>1, <6>2 DEF a
        <5> QED
          BY <4>1, <5>1, <5>5
      <4>4. (k + 1) - 1 = k /\ k + 1 <= n + 1 /\ shards'[i].roots = share
        BY <1>1, <1>3, <2>1
      <4>5. request.record => i \in taping'
        BY <2>1, <2>6, <4>2 DEF Fine
      <4> HIDE DEF k, share, n
      <4>6. next'[i] - 1 = k /\ next'[i] = k + 1 /\ position'[i] = "run" /\ request' = request
        BY <1>1, <2>4, <4>1, <4>4
      <4>7. next'[i] <= Len(shards'[i].roots) + 1
        BY <4>4, <4>6 DEF n
      <4>8. got'[i] = [m \in 1..(next'[i] - 1) |-> [path |-> shards'[i].roots[m].path, passed |-> TRUE]]
        BY <4>3, <4>4, <4>6
      <4> QED
        BY <4>5, <4>6, <4>7, <4>8 DEF Fine
    <3> QED
      BY <3>1, <3>2, <3>3 DEF ShardFits
  <2> QED
    BY <2>7, <2>8, AsideKeeps
<1>8. ASSUME FlowsEnd(i) PROVE ShardsInv'
  <2>1. Aside(i) /\ ShardsTyped'
    BY <1>1, <1>2, <1>4, <1>8 DEF FlowsEnd, Aside, ShardsTyped, Places
  <2>2. ShardFits(i)'
    <3>1. next[i] \in Nat
      BY <1>4
    <3> QED
      BY <1>1, <1>3, <1>4, <1>8, <3>1 DEF FlowsEnd, ShardFits, Fine, Over
  <2> QED
    BY <2>1, <2>2, AsideKeeps
<1>9. ASSUME FinalizeRecording(i) PROVE ShardsInv'
  <2>1. Aside(i) /\ ShardsTyped'
    BY <1>1, <1>2, <1>4, <1>9 DEF FinalizeRecording, Aside, ShardsTyped, Places, CleanupRuns
  <2>2. ShardFits(i)'
    BY <1>1, <1>4, <1>9 DEF FinalizeRecording, ShardFits, Fine, CleanupRuns
  <2> QED
    BY <2>1, <2>2, AsideKeeps
<1>10. ASSUME CloseShard(i) PROVE ShardsInv'
  <2>1. Aside(i) /\ ShardsTyped'
    BY <1>1, <1>2, <1>4, <1>10 DEF CloseShard, Aside, ShardsTyped, Places, CleanupRuns
  <2>2. ShardFits(i)'
    BY <1>1, <1>4, <1>10 DEF CloseShard, ShardFits, Fine, CleanupRuns
  <2> QED
    BY <2>1, <2>2, AsideKeeps
<1> QED
  BY <1>1, <1>5, <1>6, <1>7, <1>8, <1>9, <1>10 DEF ShardStep

-----------------------------------------------------------------------------
(* The run                                                                 *)

\* The number of the results of the first shards, as the property counts them.
Merges ==
    LET produced[i \in 0..Len(shards)] == IF i = 0 THEN 0 ELSE produced[i - 1] + Len(got[i])
    IN  Len(merged) = produced[Len(shards)]

\* Before there are shards, and where the plan was refused.
Idle ==
    /\ shards = <<>> /\ driving = {} /\ taping = {} /\ merged = <<>> /\ exit # "ok"
    /\ job \in {"discover", "prepare", "ended"}

\* From the first shard's start on: the shards are done before their results are
\* merged, and a verdict of success stands only after a merge without an error.
Busy ==
    /\ shards # <<>> /\ ShardsInv /\ job \in {"shards", "report", "ended"}
    /\ job # "shards" =>
          /\ \A i \in Shards : position[i] = "done"
          /\ Merges
          /\ runError \/ \A i \in Shards : i \notin troubles
    /\ exit = "ok" => job = "ended" /\ ~runError

TestInv == PlanInv /\ (Idle \/ Busy)

LEMMA TestBegins == ASSUME TestInit PROVE TestInv
<1>1. <<>> \in Seq(Found)
  BY EmptySeq
<1>2. PlanInv
  BY <1>1 DEF TestInit, PlanInv
<1>3. Idle
  BY DEF TestInit, Idle
<1> QED
  BY <1>2, <1>3 DEF TestInv

LEMMA DiscoverKeeps == ASSUME InputsListed, TestInv, Discover PROVE TestInv'
<1>1. Idle /\ PlanInv /\ ws' = ws /\ request' = request /\ shards' = shards /\ shards = <<>>
  BY DEF TestInv, Discover, Busy, Idle
<1>2. Idle'
  BY <1>1 DEF Discover, Idle, Refuse, shardVars
<1>3. Found' = Found
  BY <1>1 DEF Found, ToSet
<1>4. CASE UNCHANGED <<chosen, roots, fixed>>
  <2>1. PlanInv'
    BY <1>1, <1>4, PlanStays DEF Discover, planVars
  <2> QED
    BY <1>2, <2>1 DEF TestInv
<1>5. CASE ~UNCHANGED <<chosen, roots, fixed>>
  <2> DEFINE selected == filterByTags
  <2>1. chosen' = selected /\ ~OrderRefused(selected) /\ roots' = applyOrder(selected)
    BY <1>5 DEF Discover
  <2>2. selected \in Seq(Found)
    BY <1>1, PickedElements DEF filterByTags, InputsListed, PlanInv, Found
  <2> HIDE DEF selected
  <2>3. /\ roots' \in Seq(Found)
        /\ NamesApart(selected) => PathsOf(roots') = PathsOf(selected)
    BY <1>1, <2>1, <2>2, OrderKeeps DEF PlanInv
  <2>4. PlanInv'
    <3>1. NamesApart(chosen)' = NamesApart(selected) /\ PathsOf(chosen)' = PathsOf(selected)
          /\ PathsOf(roots)' = PathsOf(roots')
      BY <2>1 DEF NamesApart, PathsOf, IsInjective
    <3>2. ws' \in Workspaces /\ request' \in Requests /\ chosen' \in Seq(Found') /\ roots' \in Seq(Found')
      BY <1>1, <1>3, <2>1, <2>2, <2>3 DEF PlanInv
    <3>3. shards' = <<>>
      BY <1>1
    <3> QED
      BY <2>3, <3>1, <3>2, <3>3 DEF PlanInv
  <2> QED
    BY <1>2, <2>4 DEF TestInv
<1> QED
  BY <1>4, <1>5

LEMMA PrepareKeeps == ASSUME InputsListed, TestInv, Prepare PROVE TestInv'
<1>1. /\ Idle /\ PlanInv /\ ws' = ws /\ request' = request /\ chosen' = chosen /\ roots' = roots
      /\ driving' = {} /\ taping' = {} /\ merged' = merged /\ shards = <<>>
  BY DEF TestInv, Prepare, Busy, Idle, KeepPlan
<1>2. CASE shards' = shards
  <2>1. PlanInv'
    BY <1>1, <1>2, PlanStays DEF Prepare, KeepPlan, planVars
  <2>2. CASE Refuse
    <3>1. Idle'
      BY <1>1, <1>2, <2>2 DEF Idle, Refuse
    <3> QED
      BY <2>1, <3>1 DEF TestInv
  <2>3. CASE ~Refuse
    <3>1. DOMAIN shards' = 1..Count
      BY <2>3 DEF Prepare
    <3>2. Count \in Nat \ {0}
      BY <1>1, CountAtLeastOne DEF PlanInv
    <3>3. DOMAIN shards = 1..0
      BY <1>1, EmptySeq, LenProperties
    <3> QED
      BY <1>2, <3>1, <3>2, <3>3
  <2> QED
    BY <2>2, <2>3
<1>3. CASE shards' # shards
  <2>1. PICK ports \in PortsOf :
          /\ shards' = [i \in 1..Count |-> [roots |-> RootsOf(i), port |-> ports[i],
                 device |-> IF i <= Len(request.devices) THEN request.devices[i] ELSE "any"]]
          /\ position' = [i \in 1..Count |-> "open"]
          /\ next' = [i \in 1..Count |-> 1] /\ got' = [i \in 1..Count |-> <<>>]
          /\ job' = "shards" /\ exit' = exit
    BY <1>3 DEF Prepare
  <2>2. Found' = Found /\ Count' = Count /\ \A i : RootsOf(i)' = RootsOf(i)
    BY <1>1 DEF Found, ToSet, Count, RootsOf, Picked
  <2>3. DOMAIN shards' = 1..Count /\ \A i \in 1..Count : shards'[i].roots = RootsOf(i)
    BY <2>1
  <2>4. shards' = [i \in 1..Count |-> shards'[i]]
    <3> DEFINE made == [i \in 1..Count |-> [roots |-> RootsOf(i), port |-> ports[i],
                 device |-> IF i <= Len(request.devices) THEN request.devices[i] ELSE "any"]]
    <3>1. made = [i \in 1..Count |-> made[i]]
      OBVIOUS
    <3> HIDE DEF made
    <3>2. shards' = made
      BY <2>1 DEF made
    <3> QED
      BY <3>1, <3>2
  <2>5. PlanInv'
    <3>1. NamesApart(chosen)' = NamesApart(chosen) /\ PathsOf(roots)' = PathsOf(roots) /\ PathsOf(chosen)' = PathsOf(chosen)
      BY <1>1 DEF NamesApart, IsInjective, PathsOf
    <3> QED
      BY <1>1, <2>2, <2>3, <2>4, <3>1 DEF PlanInv
  <2>6. Count \in Nat \ {0} /\ Shards' = 1..Count
    BY <1>1, <2>3, CountAtLeastOne DEF PlanInv, Shards
  <2>7. shards' # <<>>
    <3>1. DOMAIN <<>> = 1..0
      BY EmptySeq, LenProperties
    <3> QED
      BY <2>3, <2>6, <3>1
  <2>8. ShardsInv'
    <3>1. <<>> \in Seq(Results')
      BY EmptySeq
    <3>2. ShardsTyped'
      BY <1>1, <2>1, <2>6, <3>1 DEF ShardsTyped, Places
    <3>3. ASSUME NEW i \in Shards' PROVE ShardFits(i)'
      <4>1. position'[i] = "open" /\ next'[i] = 1 /\ got'[i] = <<>> /\ shards'[i].roots = RootsOf(i)
        BY <2>1, <2>3, <2>6
      <4>2. Len(shards'[i].roots) \in Nat
        <5>1. InputsListed' /\ Len(shards')\in Nat
          BY <2>6 DEF InputsListed, Shards
        <5> QED
          BY <2>5, <5>1, SharesOf, LenProperties
      <4>3. [k \in 1..(next'[i] - 1) |-> [path |-> shards'[i].roots[k].path, passed |-> TRUE]] = <<>>
        <5>1. 1 - 1 = 0 /\ 1..0 = {}
          OBVIOUS
        <5> DEFINE e == [k \in 1..(next'[i] - 1) |-> [path |-> shards'[i].roots[k].path, passed |-> TRUE]]
        <5>2. DOMAIN e = {} /\ e \in [1..0 -> {}]
          BY <4>1, <5>1
        <5> HIDE DEF e
        <5>3. e \in Seq({}) /\ Len(e) = 0
          BY <5>2, IsASeq, LenProperties
        <5>4. e = <<>>
          BY <5>3, EmptySeq
        <5> QED
          BY <5>4 DEF e
      <4>4. Fine(i)'
        <5> DEFINE l == Len(shards'[i].roots)
        <5> HIDE DEF l
        <5>1. l \in Nat /\ next'[i] <= l + 1
          BY <4>1, <4>2 DEF l
        <5> QED
          BY <4>1, <4>3, <5>1 DEF Fine, l
      <4>5. i \notin driving' /\ i \notin taping'
        BY <1>1
      <4> QED
        BY <4>4, <4>5 DEF ShardFits
    <3> QED
      BY <3>2, <3>3 DEF ShardsInv
  <2>9. Busy'
    BY <1>1, <2>1, <2>7, <2>8 DEF Busy, Idle
  <2> QED
    BY <2>5, <2>9 DEF TestInv
<1> QED
  BY <1>2, <1>3

LEMMA MergeKeeps == ASSUME InputsListed, TestInv, executeShards PROVE TestInv'
<1>1. /\ Busy /\ PlanInv /\ UNCHANGED planVars /\ UNCHANGED shardVars /\ exit' = exit /\ job' = "report"
      /\ \A i \in Shards : position[i] = "done" /\ job = "shards"
  BY DEF TestInv, executeShards, Busy, Idle
<1>2. /\ PlanInv' /\ shards' = shards /\ request' = request /\ ws' = ws
      /\ position' = position /\ next' = next /\ got' = got /\ troubles' = troubles
      /\ driving' = driving /\ taping' = taping /\ finalized' = finalized
  BY <1>1, PlanStays DEF planVars, shardVars
<1>3. Shards' = Shards /\ Results' = Results /\ ShardsInv /\ job = "shards"
  BY <1>1, <1>2 DEF Shards, Results, Found, ToSet, Busy, executeShards
<1>4. ShardsInv'
  BY <1>2, <1>3 DEF ShardsInv, ShardsTyped, ShardFits, Fine
<1>5. Merges'
  <2> DEFINE n == Len(shards)
             produced == CHOOSE f : f = [i \in 0..n |-> IF i = 0 THEN 0 ELSE f[i - 1] + Len(got[i])]
  <2>1. n \in Nat /\ Shards = 1..n /\ got \in [1..n -> Seq(Results)]
    BY <1>1, <1>3, SharesOf DEF ShardsInv, ShardsTyped
  <2>2. \A i \in 1..n : Len(got[i]) \in Nat
    BY <2>1, LenProperties
  <2>3. \E f : f = [i \in 0..n |-> IF i = 0 THEN 0 ELSE f[i - 1] + Len(got[i])]
    <3> HIDE DEF n
    <3> QED
      BY <2>1, <2>2, CountExists
  <2>4. produced = [i \in 0..n |-> IF i = 0 THEN 0 ELSE produced[i - 1] + Len(got[i])]
    BY <2>3
  <2>5. merged' = FlattenSeq(got)
    <3>1. merged' = FlattenSeq([i \in Shards |-> got[i]])
      BY DEF executeShards, MergedShards
    <3>2. got = [i \in Shards |-> got[i]]
      BY <2>1
    <3> QED
      BY <3>1, <3>2
  <2>6. Len(merged') = produced[n]
    <3> HIDE DEF produced, n
    <3>1. produced[0] = 0 /\ \A i \in 1..n : produced[i] = produced[i - 1] + Len(got[i])
      <4>1. 0 \in 0..n /\ \A i \in 1..n : i \in 0..n /\ i # 0
        BY <2>1
      <4> QED
        BY <2>4, <4>1
    <3>2. Len(FlattenSeq(got)) = produced[n]
      <4>1. Adds(n, produced, got)
        BY <3>1 DEF Adds
      <4> QED
        BY <2>1, <4>1, FlattenLength
    <3> QED
      BY <2>5, <3>2
  <2> QED
    BY <1>2, <2>6 DEF Merges
<1>6. runError' \/ \A i \in Shards' : i \notin troubles'
  BY <1>2, <1>3 DEF executeShards, FirstError
<1>7. Busy'
  BY <1>1, <1>2, <1>3, <1>4, <1>5, <1>6 DEF Busy
<1> QED
  BY <1>2, <1>7 DEF TestInv

\* What changes neither the plan nor a shard.
LEMMA BusyStays ==
    ASSUME TestInv, UNCHANGED planVars, UNCHANGED shardVars, UNCHANGED <<merged, runError>>
    PROVE  PlanInv' /\ ShardsInv' = ShardsInv /\ Merges' = Merges /\ Shards' = Shards /\ shards' = shards
<1>1. /\ PlanInv' /\ shards' = shards /\ request' = request /\ ws' = ws /\ merged' = merged
      /\ position' = position /\ next' = next /\ got' = got /\ troubles' = troubles
      /\ driving' = driving /\ taping' = taping /\ finalized' = finalized
  BY PlanStays DEF planVars, shardVars, TestInv
<1>2. Shards' = Shards /\ Results' = Results
  BY <1>1 DEF Shards, Results, Found, ToSet
<1>3. ShardsInv' = ShardsInv
  BY <1>1, <1>2 DEF ShardsInv, ShardsTyped, ShardFits, Fine
<1>4. Merges' = Merges
  BY <1>1 DEF Merges
<1> QED
  BY <1>1, <1>2, <1>3, <1>4

LEMMA ReportKeeps == ASSUME TestInv, Report PROVE TestInv'
<1>1. Busy /\ job = "report" /\ job' = "ended" /\ runError' = runError /\ position' = position /\ troubles' = troubles
  BY DEF TestInv, Report, Busy, Idle, shardVars
<1>2. PlanInv' /\ ShardsInv' = ShardsInv /\ Merges' = Merges /\ Shards' = Shards /\ shards' = shards
  BY BusyStays DEF Report
<1>3. exit' = "ok" => ~runError
  BY DEF Report
<1> QED
  BY <1>1, <1>2, <1>3 DEF TestInv, Busy

LEMMA InterruptKeeps == ASSUME TestInv, Interrupt PROVE TestInv'
<1>1. Busy /\ job = "shards" /\ job' = job /\ exit' = exit
  BY DEF TestInv, Interrupt, Busy, Idle
<1>2. PlanInv' /\ ShardsInv' = ShardsInv /\ Merges' = Merges /\ Shards' = Shards /\ shards' = shards
  BY BusyStays DEF Interrupt
<1> QED
  BY <1>1, <1>2 DEF TestInv, Busy

LEMMA ShardKeeps == ASSUME InputsListed, TestInv, NEW i \in Shards, ShardStep(i) PROVE TestInv'
<1>1. job = "shards" /\ job' = job /\ exit' = exit
  BY DEF ShardStep, OpenSession, StartRecording, RunRoot, FlowsEnd, FinalizeRecording, CloseShard, KeepJob, Running
<1>2. Busy /\ PlanInv /\ ShardsInv
  BY <1>1 DEF TestInv, Idle, Busy
<1>3. ShardsInv' /\ UNCHANGED planVars
  BY <1>2, ShardStepKeeps
<1>4. PlanInv' /\ shards' = shards
  BY <1>2, <1>3, PlanStays DEF planVars
<1> QED
  BY <1>1, <1>2, <1>3, <1>4 DEF TestInv, Busy

LEMMA TestStays == ASSUME TestInv, UNCHANGED testVars PROVE TestInv'
<1>1. /\ UNCHANGED planVars /\ UNCHANGED shardVars /\ UNCHANGED <<merged, runError>>
      /\ shards' = shards /\ job' = job /\ exit' = exit /\ merged' = merged /\ runError' = runError
      /\ position' = position /\ troubles' = troubles /\ driving' = driving /\ taping' = taping
  BY DEF testVars, planVars, shardVars
<1>2. PlanInv' /\ ShardsInv' = ShardsInv /\ Merges' = Merges /\ Shards' = Shards /\ shards' = shards
  BY <1>1, BusyStays
<1> QED
  BY <1>1, <1>2 DEF TestInv, Idle, Busy

\* The verdict of a run without an error is that of all its shards.
LEMMA VerdictFollows == ASSUME InputsListed, TestInv PROVE VerdictCoversRun
<1>1. CASE Idle
  <2>1. Len(shards) = 0 /\ Len(merged) = 0 /\ driving = {} /\ taping = {} /\ exit # "ok"
    BY <1>1, EmptySeq DEF Idle
  <2> DEFINE produced == CHOOSE f : f = [i \in 0..Len(shards) |-> IF i = 0 THEN 0 ELSE f[i - 1] + Len(got[i])]
  <2>2. \E f : f = [i \in 0..Len(shards) |-> IF i = 0 THEN 0 ELSE f[i - 1] + Len(got[i])]
    <3>1. Len(shards) \in Nat /\ \A i \in 1..Len(shards) : Len(got[i]) \in Nat
      BY <2>1
    <3> DEFINE n == Len(shards)
    <3> HIDE DEF n
    <3>2. n \in Nat /\ \A i \in 1..n : Len(got[i]) \in Nat
      BY <3>1 DEF n
    <3>3. \E f : f = [i \in 0..n |-> IF i = 0 THEN 0 ELSE f[i - 1] + Len(got[i])]
      BY <3>2, CountExists, Zenon
    <3> QED
      BY <3>3 DEF n
  <2>3. produced = [i \in 0..Len(shards) |-> IF i = 0 THEN 0 ELSE produced[i - 1] + Len(got[i])]
    BY <2>2
  <2>4. produced[Len(shards)] = 0
    <3> HIDE DEF produced
    <3>1. 0 \in 0..Len(shards)
      BY <2>1
    <3> QED
      BY <2>1, <2>3, <3>1
  <2> QED
    BY <2>1, <2>4 DEF VerdictCoversRun
<1>2. CASE Busy
  <2>1. PlanInv /\ ShardsInv /\ shards # <<>>
    BY <1>2 DEF Busy, TestInv
  <2>2. /\ UNION {PathsOf(shards[i].roots) : i \in Shards} = PathsOf(roots)
        /\ request.all > 0 => \A i \in Shards : shards[i].roots = roots
        /\ \A i \in Shards : shards[i].roots \in Seq(Found)
    BY <2>1, SharesOf
  <2>3. ASSUME job \in {"report", "ended"} PROVE Merges /\ driving = {} /\ taping = {}
    <3>1. Merges /\ \A i \in Shards : position[i] = "done"
      BY <1>2, <2>3 DEF Busy
    <3>2. \A i \in Shards : i \notin driving /\ i \notin taping
      BY <2>1, <3>1 DEF ShardsInv, ShardFits
    <3> QED
      BY <2>1, <3>1, <3>2 DEF ShardsInv, ShardsTyped
  <2>4. ASSUME exit = "ok", NEW i \in Shards
        PROVE  Passing(got[i]) = PathsOf(shards[i].roots) /\ (request.record => i \in finalized)
    <3>1. position[i] = "done" /\ i \notin troubles
      BY <1>2, <2>4 DEF Busy
    <3>2. Fine(i)
      BY <2>1, <3>1 DEF ShardsInv, ShardFits
    <3> DEFINE n == Len(shards[i].roots)
    <3>3. n \in Nat /\ DOMAIN shards[i].roots = 1..n
      BY <2>2, LenProperties
    <3>4. next[i] = n + 1
      BY <3>1, <3>2 DEF Fine
    <3>5. got[i] = [k \in 1..n |-> [path |-> shards[i].roots[k].path, passed |-> TRUE]]
      <4>1. next[i] - 1 = n
        <5> HIDE DEF n
        <5> QED
          BY <3>3, <3>4
      <4> HIDE DEF n
      <4> QED
        BY <3>2, <4>1 DEF Fine
    <3>6. DOMAIN got[i] = 1..n /\ \A k \in 1..n : got[i][k].passed /\ got[i][k].path = shards[i].roots[k].path
      <4> HIDE DEF n
      <4> QED
        BY <3>5
    <3>7. Passing(got[i]) = PathsOf(shards[i].roots)
      <4> HIDE DEF n
      <4> QED
        BY <3>3, <3>6 DEF Passing, PathsOf
    <3>8. request.record => i \in finalized
      BY <3>1, <3>2 DEF Fine
    <3> QED
      BY <3>7, <3>8
  <2>5. ASSUME exit = "ok" PROVE UNION {Passing(got[i]) : i \in Shards} = PathsOf(roots)
    <3>1. {Passing(got[i]) : i \in Shards} = {PathsOf(shards[i].roots) : i \in Shards}
      BY <2>4, <2>5
    <3> QED
      BY <2>2, <3>1
  <2>6. ASSUME exit = "ok", request.all > 0, NEW i \in Shards PROVE Passing(got[i]) = PathsOf(roots)
    <3>1. Passing(got[i]) = PathsOf(shards[i].roots)
      BY <2>4, <2>6
    <3>2. shards[i].roots = roots
      BY <2>2, <2>6
    <3> QED
      BY <3>1, <3>2
  <2>7. IsInjective([k \in DOMAIN chosen |-> chosen[k].name]) => PathsOf(roots) = PathsOf(chosen)
    BY <2>1 DEF PlanInv, NamesApart
  <2> QED
    BY <2>3, <2>4, <2>5, <2>6, <2>7 DEF VerdictCoversRun, Merges
<1> QED
  BY <1>1, <1>2 DEF TestInv

\* Whatever is found, selected, ordered and split, and wherever it is interrupted: an
\* exit code of 0 covers everything that was planned, every result a shard produced is
\* merged, and no driver and no recording outlives the run (test_runner.go, executeShards
\* and runOnce).
THEOREM ExitCodeCoversRun == ASSUME InputsListed PROVE TestSpec => []VerdictCoversRun
<1>1. TestInit => TestInv
  BY TestBegins
<1>2. TestInv /\ [TestNext]_testVars => TestInv'
  <2> SUFFICES ASSUME TestInv, [TestNext]_testVars PROVE TestInv'
    OBVIOUS
  <2>1. CASE Discover
    BY <2>1, DiscoverKeeps
  <2>2. CASE Prepare
    BY <2>2, PrepareKeeps
  <2>3. CASE executeShards
    BY <2>3, MergeKeeps
  <2>4. CASE Report
    BY <2>4, ReportKeeps
  <2>5. CASE \E i \in Shards : ShardStep(i)
    BY <2>5, ShardKeeps
  <2>6. CASE Interrupt
    BY <2>6, InterruptKeeps
  <2>7. CASE UNCHANGED testVars
    BY <2>7, TestStays
  <2> QED
    BY <2>1, <2>2, <2>3, <2>4, <2>5, <2>6, <2>7 DEF TestNext, TestStep
<1>3. TestInv => VerdictCoversRun
  BY VerdictFollows
<1> QED
  BY <1>1, <1>2, <1>3, PTL DEF TestSpec
=============================================================================
