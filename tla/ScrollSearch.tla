---------------------------- MODULE ScrollSearch ----------------------------
(***************************************************************************)
(* scrollUntilVisible: observe, scroll and pause until the target is shown *)
(* (internal/engine/interaction_scroll_handler.go), along a course that    *)
(* turns back when the target was passed (interaction_scroll_course.go).   *)
(* The content moves along one axis; a place is a distance from the near   *)
(* edge of the viewport.                                                   *)
(***************************************************************************)
EXTENDS Integers

CONSTANTS
    Height,     \* of the viewport
    Size,       \* of the target
    Reach,      \* bound: how far the target may be from the viewport
    MinStep,    \* scrollUntilVisibleMinimumStep
    CoveredStep, \* scrollUntilVisibleCoveredStep
    MaxLooks,   \* scrollUntilVisibleMaximumObservations
    Plans,      \* authored commands: way, speed, need, css, centre, settle, timeout
    Slips       \* what a drag may add to, or take from, the distance asked for

ASSUME ScrollAssumption ==
    /\ {Height, Size, Reach, MinStep, CoveredStep, MaxLooks} \subseteq Nat \ {0}
    /\ MinStep <= Height    \* the steps are fractions of the viewport
    /\ Slips \subseteq Int

\* What compiles: a way, a speed, how much of the target must be seen, whether its
\* selector has css, and whether to centre it and to wait for the screen to settle.
Compiled ==
    [way: {-1, 1}, speed: Nat \ {0}, need: 1..Size, css: BOOLEAN, centre: BOOLEAN, settle: BOOLEAN,
     timeout: Nat]

ASSUME PlansAssumption == Plans \subseteq Compiled

VARIABLES
    plan,       \* the evaluated command
    place,      \* where the target stands, or Missing
    hidden,     \* another view covers it: the hit test's word
    ended,      \* ctx.Err()
    step,       \* of executeScrollUntilVisible
    element,    \* what the last observation found: a place, or Missing
    course,     \* scrollUntilVisibleCourse, with the request it made
    looks,      \* observations so far
    left,       \* time until the deadline
    verdict     \* how the command ended

scrollVars == <<plan, place, hidden, ended, step, element, course, looks, left, verdict>>

Missing == Reach + 1
Places == (-Reach)..Missing

Least(a, b) == IF a < b THEN a ELSE b
Most(a, b) == IF a > b THEN a ELSE b

\* hierarchy.VisiblePercentage, in units of the target's size.
Shown(p) == IF p = Missing THEN 0 ELSE Most(0, Least(p + Size, Height) - Most(p, 0))
Satisfied(p) == Shown(p) >= plan.need

-----------------------------------------------------------------------------
(* The course.  A step is a distance, forward when positive.               *)

\* Mutant: the authored step, whatever is in sight.
AlwaysAsAuthored(p) == plan.way * plan.speed

\* The side the target hangs over tells the way and, up to the authored speed, how
\* far; a target inside the viewport gives no distance to aim for.
TowardViewport(p) ==
    LET before == Most(-p, 0)
        after == Most(p + Size - Height, 0)
    IN CASE before = 0 /\ after = 0 -> plan.way * Least(plan.speed, CoveredStep)
         [] before > after -> -Least(plan.speed, Most(before, MinStep))
         [] OTHER -> Least(plan.speed, Most(after, MinStep))

Distance(d) == IF d < 0 THEN -d ELSE d

\* A target that was seen and is gone again has been passed: back, by half.
Reversed(d) == (IF d > 0 THEN -1 ELSE 1) * Most(Distance(d) \div 2, MinStep)

NextStep(p) ==
    IF p # Missing
    THEN [course EXCEPT !.seen = TRUE, !.scrolled = TRUE, !.asked = TowardViewport(p)]
    ELSE IF course.seen /\ course.scrolled
    THEN [course EXCEPT !.passes = Least(2, @ + 1), !.asked = Reversed(@)]
    ELSE [course EXCEPT !.scrolled = TRUE, !.asked = plan.way * plan.speed]

\* The centre of the target to the middle of the viewport, by at most half of it.
CentreStep(p) ==
    LET delta == (2 * p + Size - Height) \div 2
    IN IF delta < 0 THEN -Least(Height \div 2, -delta) ELSE Least(Height \div 2, delta)

-----------------------------------------------------------------------------
(* The content                                                             *)

Moved(p, d) ==
    IF p = Missing THEN Missing ELSE Most(-Reach, Least(Reach, p - d))

\* The application adds, removes or covers the target by itself.
AppActs ==
    /\ step # "ended"
    /\ \/ place' \in {Missing, Height} \ {place} /\ UNCHANGED hidden
       \/ hidden' = ~hidden /\ UNCHANGED place
    /\ UNCHANGED <<plan, ended, step, element, course, looks, left, verdict>>

EndContext ==
    /\ ~ended /\ ended' = TRUE
    /\ UNCHANGED <<plan, place, hidden, step, element, course, looks, left, verdict>>

-----------------------------------------------------------------------------
(* The command                                                             *)

AtStep(s) == step = s /\ ~ended
ToStep(s) == step' = s /\ UNCHANGED verdict
EndAs(v) == step' = "ended" /\ verdict' = v
World == UNCHANGED <<plan, place, hidden, ended>>

\* The deadline, then the grid: with none there is no viewport.
StartSearch ==
    /\ AtStep("start")
    /\ left' = plan.timeout
    /\ \/ ToStep("observe")
       \/ EndAs("operation") \/ EndAs("configuration")
    /\ World /\ UNCHANGED <<element, course, looks>>

\* Any stage of a command whose context has ended is its last.
Stopped ==
    /\ step # "ended" /\ ended
    /\ EndAs("cancelled") /\ World /\ UNCHANGED <<element, course, looks, left>>

\* A hierarchy, an answer of the hit test or a scroll may fail to come.
DriverFailed ==
    /\ \E s \in {"observe", "hitTest", "scroll", "centre", "recheck"} : AtStep(s)
    /\ EndAs("operation") /\ World /\ UNCHANGED <<element, course, looks, left>>

\* observeScrollUntilVisible matches the selector without its css, which any other
\* element may satisfy as well.
Observed ==
    IF plan.css THEN {p \in {place} \cup 0..(Height - Size) : p = Missing \/ Shown(p) > 0}
    ELSE {IF Shown(place) > 0 THEN place ELSE Missing}

\* An observation takes time, or none to speak of.
Observe ==
    /\ AtStep("observe")
    /\ element' \in Observed
    /\ looks' = looks + 1 /\ left' \in {left, Most(0, left - 1)}
    /\ ToStep(IF Satisfied(element') THEN "hitTest" ELSE "judge")
    /\ World /\ UNCHANGED course

Accept ==
    IF plan.centre /\ CentreStep(element) # 0 THEN ToStep("centre") ELSE EndAs("completed")

\* A driver without a hit test, and one that cannot tell, leave geometry in charge.
HitTest ==
    /\ AtStep("hitTest")
    /\ \/ Accept /\ UNCHANGED course
       \/ hidden /\ place = element /\ ToStep("judge") /\ course' = [course EXCEPT !.covered = TRUE]
    /\ World /\ UNCHANGED <<element, looks, left>>

\* The deadline is looked at after the observation: a timeout of zero looks once.
Judge ==
    /\ AtStep("judge")
    /\ \/ (left = 0 \/ looks = MaxLooks) /\ EndAs("assertion") /\ UNCHANGED course
       \/ left > 0 /\ looks < MaxLooks /\ ToStep("scroll") /\ course' = NextStep(element)
    /\ World /\ UNCHANGED <<element, looks, left>>

\* A drag moves the content by the distance asked for, more or less.
Scroll ==
    /\ AtStep("scroll")
    /\ \E slip \in Slips : place' = Moved(place, course.asked + slip)
    /\ ToStep("pause")
    /\ UNCHANGED <<plan, hidden, ended, element, course, looks, left>>

\* A settle takes what it takes of the time that remains, and may break down; the poll interval takes one.
Pause ==
    /\ AtStep("pause")
    /\ left' \in (IF plan.settle THEN 0..left ELSE {Most(0, left - 1)})
    /\ ToStep("observe") \/ (plan.settle /\ EndAs("configuration"))
    /\ World /\ UNCHANGED <<element, course, looks>>

Centre ==
    /\ AtStep("centre")
    /\ \E slip \in Slips : place' = Moved(place, CentreStep(element) + slip)
    /\ ToStep("recheck")
    /\ UNCHANGED <<plan, hidden, ended, element, course, looks, left>>

\* The centring scroll is checked, not trusted.
Recheck ==
    /\ AtStep("recheck")
    /\ element' \in Observed
    /\ EndAs(IF Satisfied(element') THEN "completed" ELSE "assertion")
    /\ World /\ UNCHANGED <<course, looks, left>>

NewCourse == [seen |-> FALSE, scrolled |-> FALSE, passes |-> 0, covered |-> FALSE, asked |-> 0]

ScrollInit ==
    /\ plan \in Plans
    /\ place \in Places /\ hidden = FALSE /\ ended = FALSE
    /\ step = "start" /\ element = Missing /\ course = NewCourse
    /\ looks = 0 /\ left = 0
    /\ verdict = "none"

Search ==
    StartSearch \/ Stopped \/ DriverFailed \/ Observe \/ HitTest \/ Judge \/ Scroll \/ Pause
    \/ Centre \/ Recheck

ScrollNext == AppActs \/ EndContext \/ Search

ScrollSpec == ScrollInit /\ [][ScrollNext]_scrollVars

-----------------------------------------------------------------------------
\* A step that follows a target in sight, and moves the content by the distance asked
\* for, leaves the target in sight: the course passes a target only when a drag slips.
\* One that stands inside the viewport, covered, moves by the fixed CoveredStep, which
\* only a target larger than that step survives.
ScrollKeepsSight ==
    [][step = "scroll" /\ step' = "pause" /\ element = place /\ place # Missing
       /\ place' = Moved(place, course.asked)
       /\ (CoveredStep < Size \/ place \notin 0..(Height - Size))
       => Shown(place') > 0]_scrollVars
=============================================================================
