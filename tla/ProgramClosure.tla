---------------------------- MODULE ProgramClosure ----------------------------
(***************************************************************************)
(* Preflight and compilation of the flows selected: capability.Check walks *)
(* the files the roots link, depth first, engine.Prepare keeps what the    *)
(* walk has read, and compileProgram compiles a flow after the flows it    *)
(* links.  An editor may save a file while this goes on.                   *)
(*                                                                         *)
(* A flow is its commands, hooks included, in the order in which a walk    *)
(* meets them, children right after their parent; a command is the feature *)
(* of the support registry it needs, the platforms its written value can   *)
(* serve, its condition, its selectors' features, its links, and the       *)
(* platforms that the conditions around it name.                           *)
(* Where a violation lies, its message and its chain are left out, and so  *)
(* are checks no flow the loader parses can fail (the schema version, an   *)
(* unknown kind of link, a blank path).                                    *)
(***************************************************************************)
EXTENDS Naturals, FiniteSets, SequencesExt

CONSTANTS
    Registry,   \* the support registry: what is served, and on which platforms
    FileTrees,  \* what the files of a workspace may hold at first
    Savings,    \* what an editor may leave where
    Selections, \* the roots and the platform a caller may select
    MaxEdits    \* bound on saves during one preflight

\* Every path that is selected, linked or saved is one of the workspace ("missing" where
\* nothing is there), and what flows, commands and callers list is a list.
Paths == UNION {DOMAIN tree : tree \in FileTrees}
Listed(s) == s \in Seq(ToSet(s))
FlowListed(f) ==
    /\ Listed(f.ext) /\ Listed(f.onStart) /\ Listed(f.body) /\ Listed(f.onComplete)
    /\ \A c \in ToSet(f.onStart) \cup ToSet(f.body) \cup ToSet(f.onComplete) :
          /\ Listed(c.sees) /\ Listed(c.finds) /\ Listed(c.links)
          /\ \A link \in ToSet(c.links) : link.to \in Paths
Held(holds) ==
    /\ holds.is = "symlink" => holds.to \in Paths
    /\ holds.is = "flow" => FlowListed(holds.flow)

ASSUME WorkspacesAssumption ==
    /\ \A tree \in FileTrees : DOMAIN tree = Paths /\ \A p \in Paths : Held(tree[p])
    /\ \A v \in Savings : v.path \in Paths /\ Held(v.holds)
    /\ \A s \in Selections : s.roots \in Seq(Paths)

VARIABLES
    files,      \* what each path holds
    selection,  \* the selected roots and platform ("any": none is selected)
    task,       \* "check", "compile", then "ready" or "refused"
    walked,     \* the canonical paths of the roots walked so far
    stack,      \* the frames of the walk, the deepest one last
    black,      \* the flows the walk has left for good
    canon,      \* recordingLoader.canonical: what each spelling stood for
    read,       \* recordingLoader.flows, in the order of the report's nodes
    edges,      \* the flow links followed, in order
    compiled,   \* compiledProgram.flows in the order they were compiled
    violation,  \* the code of the violation that ended it
    edits

progVars == <<files, selection, task, walked, stack, black, canon, read, edges, compiled, violation, edits>>

ProgInit ==
    /\ files \in FileTrees /\ selection \in Selections
    /\ task = "check" /\ walked = <<>> /\ stack = <<>> /\ black = {}
    /\ canon = [p \in {} |-> p] /\ read = <<>> /\ edges = <<>>
    /\ compiled = <<>> /\ violation = "none" /\ edits = 0

-----------------------------------------------------------------------------
\* FileLoader: what a spelling stands for, and what is read there.  Codes are
\* those pathViolation and loadViolation give.
Canonical(p) ==
    LET target == IF files[p].is = "symlink" THEN files[p].to ELSE p
        is == files[target].is
    IN  IF is \in {"flow", "broken", "resource"} THEN [path |-> target, code |-> "none"]
        ELSE [path |-> p, code |-> CASE is = "directory" -> "directory_link"
                                     [] is = "device" -> "non_regular_link"
                                     [] is = "missing" -> "missing_link"
                                     [] OTHER -> "link_error"]
LoadCode(p) ==
    CASE files[p].is = "flow" -> "none"
      [] files[p].is = "missing" -> "missing_link"
      [] OTHER -> "flow_parse_error"

\* The recording loader asks the disk once for each spelling.  Mutant: every time.
AskedAgain(p) == Canonical(p)
Recorded(p) == IF p \in DOMAIN canon THEN canon[p] ELSE Canonical(p)
Record(p) == canon' = [q \in DOMAIN canon \cup {p} |-> IF q = p THEN Recorded(p) ELSE canon[q]]

ReadPaths == {read[i].path : i \in DOMAIN read}
ReadAt(p) == CHOOSE i \in DOMAIN read : read[i].path = p
FlowAt(p) == read[ReadAt(p)].flow

-----------------------------------------------------------------------------
\* inspectFlow.  The refusals are in the order the code meets them; the first ends
\* the preflight.
Refusal(feature, platform) ==
    IF feature \notin DOMAIN Registry \/ ~Registry[feature].served THEN <<"unsupported_capability">>
    ELSE IF platform # "any" /\ platform \notin Registry[feature].platforms THEN <<"unsupported_platform">>
    ELSE <<>>

RefusalsOf(features, platform) == FlattenSeq([i \in DOMAIN features |-> Refusal(features[i], platform)])

ConditionExcludes(when, platform) == "any" \notin {platform, when} /\ when # platform
InspectCondition(c, platform) ==
    RefusalsOf((IF c.when = "web" THEN <<"web">> ELSE <<>>) \o c.sees, platform)

InspectCommand(c, platform) ==
    Refusal(c.feature, platform)
    \o IF platform # "any" /\ platform \notin c.authored THEN <<"unsupported_platform">> ELSE <<>>

\* Of what lies within a command that is excluded, nothing is asked.
InspectOne(c, platform) ==
    IF \E when \in c.within : ConditionExcludes(when, platform) THEN <<>>
    ELSE IF ConditionExcludes(c.when, platform) THEN InspectCondition(c, "any")
    ELSE InspectCommand(c, platform) \o InspectCondition(c, platform) \o RefusalsOf(c.finds, platform)
InspectCommands(cs, platform) == FlattenSeq([i \in DOMAIN cs |-> InspectOne(cs[i], platform)])

Commands(f) == f.onStart \o f.body \o f.onComplete

\* A flow that names a URL is asked about nothing else.  Mutant: the hooks are not
\* inspected.
InspectBody(f, platform) ==
    IF f.url THEN Refusal("url", platform)
    ELSE RefusalsOf(f.ext, platform) \o InspectCommands(f.body, platform)
InspectFlow(f, platform) ==
    IF f.url THEN Refusal("url", platform)
    ELSE RefusalsOf(f.ext, platform) \o InspectCommands(Commands(f), platform)

\* collectLinks: those of every command, of one the platform excludes as well.
CollectLinks(f) == LET cs == Commands(f) IN FlattenSeq([i \in DOMAIN cs |-> cs[i].links])

-----------------------------------------------------------------------------
\* Check, one turn of its loop at a time.
End(code) == task' = "refused" /\ violation' = code /\ UNCHANGED <<compiled, files, selection, edits>>
Walk == UNCHANGED <<task, violation, compiled, files, selection, edits>>

Frame(p) == [path |-> p, entered |-> FALSE, links |-> <<>>]
Top == Last(stack)
Gray == {stack[i].path : i \in DOMAIN stack}
Replaced(frame) == [stack EXCEPT ![Len(stack)] = frame]

NextRoot ==
    /\ task = "check" /\ stack = <<>> /\ Len(walked) < Len(selection.roots)
    /\ LET p == selection.roots[Len(walked) + 1]
           c == Recorded(p)
       IN  /\ Record(p)
           /\ IF c.code # "none" THEN End(c.code) /\ UNCHANGED <<walked, stack>>
              ELSE /\ walked' = Append(walked, c.path)
                   /\ stack' = IF c.path \in black THEN <<>> ELSE <<Frame(c.path)>>
                   /\ Walk
    /\ UNCHANGED <<black, read, edges>>

EnterFlow ==
    /\ task = "check" /\ stack # <<>> /\ ~Top.entered
    /\ IF LoadCode(Top.path) # "none" THEN End(LoadCode(Top.path)) /\ UNCHANGED <<read, stack>>
       ELSE LET f == files[Top.path].flow
            IN  /\ read' = Append(read, [path |-> Top.path, flow |-> f])
                /\ LET refusals == InspectFlow(f, selection.platform)
                   IN  IF refusals # <<>> THEN End(Head(refusals)) /\ UNCHANGED stack
                       ELSE /\ stack' = Replaced([path |-> Top.path, entered |-> TRUE, links |-> CollectLinks(f)])
                            /\ Walk
    /\ UNCHANGED <<walked, black, canon, edges>>

LeaveFlow ==
    /\ task = "check" /\ stack # <<>> /\ Top.entered /\ Top.links = <<>>
    /\ black' = black \cup {Top.path} /\ stack' = Front(stack)
    /\ Walk /\ UNCHANGED <<walked, canon, read, edges>>

\* Mutant: a link to a flow on the active path is taken for one already walked.
Revisits(p) == p \in black \cup Gray
Walked(p) == p \in black

FollowLink ==
    /\ task = "check" /\ stack # <<>> /\ Top.entered /\ Top.links # <<>>
    /\ LET link == Head(Top.links)
           c == Recorded(link.to)
           rest == Replaced([Top EXCEPT !.links = Tail(@)])
       IN  /\ Record(link.to)
           /\ edges' = IF link.kind = "flow" THEN Append(edges, [from |-> Top.path, to |-> c.path]) ELSE edges
           /\ IF c.code # "none" THEN End(c.code) /\ UNCHANGED stack
              ELSE IF link.kind # "flow"
                   THEN IF c.path = Top.path THEN End("self_link") /\ UNCHANGED stack ELSE stack' = rest /\ Walk
              ELSE IF Walked(c.path) THEN stack' = rest /\ Walk
              ELSE IF c.path \in Gray THEN End("active_cycle") /\ UNCHANGED stack
              ELSE stack' = Append(rest, Frame(c.path)) /\ Walk
    /\ UNCHANGED <<walked, black, read>>

\* Prepare has what the walk has read; its caller compiles it.
FinishCheck ==
    /\ task = "check" /\ stack = <<>> /\ Len(walked) = Len(selection.roots)
    /\ task' = "compile"
    /\ UNCHANGED <<files, selection, walked, stack, black, canon, read, edges, compiled, violation, edits>>

-----------------------------------------------------------------------------
\* preparedFlowOrder: a flow's turn comes when the flows it links are done, the one
\* that waits longest first.  (The code puts all in order before it compiles one.)
Children(p) == {edges[i].to : i \in {j \in DOMAIN edges : edges[j].from = p}}
ReadyAt(p) == <<Max({0} \cup {i \in DOMAIN compiled : compiled[i] \in Children(p)}), ReadAt(p)>>
Before(p, q) ==
    LET s == ReadyAt(p)
        t == ReadyAt(q)
    IN  s[1] < t[1] \/ (s[1] = t[1] /\ s[2] < t[2])

ReadyFlows == {p \in ReadPaths \ ToSet(compiled) : Children(p) \subseteq ToSet(compiled)}

\* RequireFlow, for each command that needs a linked flow.
RequireCode(p, link) ==
    LET c == IF link.to \in DOMAIN canon THEN canon[link.to].path ELSE link.to
    IN  CASE c \notin ReadPaths -> "link_not_proven"
          [] c \in ReadPaths /\ c \notin Children(p) -> "link_not_declared"
          [] c \in ReadPaths /\ c \in Children(p) /\ c \notin ToSet(compiled) -> "child_not_compiled"
          [] OTHER -> "none"
LinkCodes(p) == LET links == CollectLinks(FlowAt(p))
                IN  [i \in DOMAIN links |-> IF links[i].kind = "flow" THEN RequireCode(p, links[i]) ELSE "none"]

CompileFlow ==
    /\ task = "compile"
    /\ IF Len(compiled) = Len(read) THEN task' = "ready" /\ UNCHANGED <<compiled, violation>>
       ELSE IF ReadyFlows = {} THEN task' = "refused" /\ violation' = "graph_has_cycle" /\ UNCHANGED compiled
       ELSE LET p == CHOOSE r \in ReadyFlows : \A q \in ReadyFlows \ {r} : Before(r, q)
                codes == LinkCodes(p)
                unmet == {i \in DOMAIN codes : codes[i] # "none"}
            IN  IF unmet # {}
                THEN task' = "refused" /\ violation' = codes[Min(unmet)] /\ UNCHANGED compiled
                ELSE compiled' = Append(compiled, p) /\ UNCHANGED <<task, violation>>
    /\ UNCHANGED <<files, selection, walked, stack, black, canon, read, edges, edits>>

ProgStep == NextRoot \/ EnterFlow \/ LeaveFlow \/ FollowLink \/ FinishCheck \/ CompileFlow

\* The context is looked at before every turn of the loops.
ContextEnds ==
    /\ task \in {"check", "compile"}
    /\ End("cancelled")
    /\ UNCHANGED <<walked, stack, black, canon, read, edges>>

\* The editor saves a file; an editor that replaces it has it missing in between.
Save ==
    /\ task \in {"check", "compile"} /\ edits < MaxEdits
    /\ \E v \in Savings : files[v.path] # v.holds /\ files' = [files EXCEPT ![v.path] = v.holds]
    /\ edits' = edits + 1
    /\ UNCHANGED <<selection, task, walked, stack, black, canon, read, edges, compiled, violation>>

ProgNext == ProgStep \/ ContextEnds \/ Save

ProgSpec == ProgInit /\ [][ProgNext]_progVars

-----------------------------------------------------------------------------
\* The flows that a flow links, as it was read and the walk found them; and what a walk
\* along these links can reach: whatever every set that keeps to them has with the first.
FlowLinks(p) == {link \in ToSet(CollectLinks(FlowAt(p))) : link.kind = "flow"}
Linked(p) == {canon[link.to].path : link \in {l \in FlowLinks(p) : l.to \in DOMAIN canon}} \cap ReadPaths
KeepsTo(S) == \A p \in S : Linked(p) \subseteq S
Reaches(p, q) == \A S \in SUBSET ReadPaths : p \in S /\ KeepsTo(S) => q \in S

\* A compiled program is whole, whatever was saved meanwhile: each flow was read
\* once, every flow the roots reach is there, and was compiled after the flows it
\* links; no flow without a URL holds a command its platform refuses.  The errors
\* that say the engine disagrees with its own preflight are never met, and a
\* refused cycle is one.
ProgramIsWhole ==
    /\ task = "ready" =>
          /\ Len(compiled) = Cardinality(ReadPaths) /\ ToSet(compiled) = ReadPaths
          /\ ToSet(walked) \subseteq ReadPaths
          /\ \A p \in ReadPaths : \E r \in ToSet(walked) : Reaches(r, p)
          /\ \A i \in DOMAIN compiled :
                LET f == FlowAt(compiled[i])
                IN  /\ \A link \in FlowLinks(compiled[i]) : \E j \in 1 .. i - 1 : compiled[j] = canon[link.to].path
                    /\ ~f.url => InspectCommands(Commands(f), selection.platform) = <<>>
    /\ violation \notin {"graph_has_cycle", "link_not_proven", "link_not_declared", "child_not_compiled"}
    /\ violation = "active_cycle" => \E p \in ReadPaths : \E q \in Linked(p) : Reaches(q, p)
=============================================================================
