------------------------------ MODULE WatchLoop ------------------------------
(***************************************************************************)
(* flowbaton test --continuous: passes of TestRun, here the reads one      *)
(* makes, and the watcher between them, while an editor saves files.       *)
(* "main" is the selected flow; it runs "sub".  A save may be broken: it   *)
(* cannot be parsed.  A stamp tells any two saves apart.                   *)
(***************************************************************************)
EXTENDS Integers, FiniteSets

CONSTANTS
    UnderRoots,  \* files a walk of the named roots finds, "main" among them
    MaxSaves     \* bound: saves of the editor

VARIABLES
    aliased,   \* files the roots name by another path than the loader: relative, or through a link
    disk,      \* the version of each file
    broken,    \* files whose present version cannot be parsed
    pass,      \* "walk", "discover", "prepare", "stamp", "run", "compare" or "wait"
    watched,   \* paths watched for the next pass
    snapshot,  \* versions they are compared with, by path; 0: no observation
    selectedAt, \* the version of "main" the pass was selected by
    ranAt,     \* the versions the pass went by; 0: not read
    refused    \* the pass compiled what it selected, and its shards were refused

watchVars == <<aliased, disk, broken, pass, watched, snapshot, selectedAt, ranAt, refused>>

Sources == {"main", "sub"}
Nothing == [f \in Sources |-> 0]

\* A file has the path a root gives it and the one the loader resolves; a snapshot
\* is keyed by paths.
Paths == {"given", "canonical"} \X Sources
Canonical(f) == <<"canonical", f>>
Given(f) == <<IF f \in aliased THEN "given" ELSE "canonical", f>>
NoStamps == [p \in Paths |-> 0]

WatchInit ==
    /\ aliased \in SUBSET (UnderRoots \cap Sources)
    /\ disk = [f \in Sources |-> 1] /\ broken = {}
    /\ pass = "walk" /\ watched = {} /\ snapshot = NoStamps
    /\ selectedAt = 0 /\ ranAt = Nothing /\ refused = FALSE

stampFiles(paths) == [p \in Paths |-> IF p \in paths THEN disk[p[2]] ELSE 0]
LaterFirst(earlier, later) == [p \in Paths |-> IF later[p] # 0 THEN later[p] ELSE earlier[p]]
mergeStamps(earlier, later) == [p \in Paths |-> IF earlier[p] # 0 THEN earlier[p] ELSE later[p]]
anyChanged == \E p \in watched : snapshot[p] # 0 /\ snapshot[p] # disk[p[2]]

\* What a pass reads when it compiles the flow: a broken flow names no other.
Closure == IF "main" \in broken THEN {"main"} ELSE Sources
ReadOf(files) == [f \in Sources |-> IF f \in files THEN disk[f] ELSE 0]
Compiles == broken = {}

walkRoots == {Given(f) : f \in UnderRoots}

Walk ==
    /\ pass = "walk" /\ pass' = "discover"
    /\ watched' = walkRoots /\ snapshot' = stampFiles(walkRoots)
    /\ selectedAt' = 0 /\ ranAt' = Nothing /\ refused' = FALSE
    /\ UNCHANGED <<aliased, disk, broken>>

\* Discovery parses every flow under the roots, for its name and tags.
Discover ==
    /\ pass = "discover"
    /\ selectedAt' = disk["main"]
    /\ ranAt' = ReadOf(UnderRoots)
    /\ pass' = IF broken \cap UnderRoots = {} THEN "prepare" ELSE "compare"
    /\ UNCHANGED <<aliased, disk, broken, watched, snapshot, refused>>

Prepare ==
    /\ pass = "prepare" /\ ranAt' = ReadOf(Closure)
    /\ pass' = IF Compiles THEN "stamp" ELSE "compare"
    /\ UNCHANGED <<aliased, disk, broken, watched, snapshot, selectedAt, refused>>

\* The dependency closure is known: it replaces the walk, its stamps fill the gaps.
\* The shards or their ports may still be refused, by the plan and the options.
watchSetFor ==
    /\ pass = "stamp"
    /\ LET closure == {Canonical(f) : f \in Sources}
       IN  watched' = closure /\ snapshot' = mergeStamps(snapshot, stampFiles(closure))
    /\ refused' \in BOOLEAN /\ pass' = IF refused' THEN "compare" ELSE "run"
    /\ UNCHANGED <<aliased, disk, broken, selectedAt, ranAt>>

\* Every shard compiles its share once more before it runs it; the verdict,
\* passed, failed or unparsed, does not matter here.
Run ==
    /\ pass = "run" /\ pass' = "compare" /\ ranAt' = ReadOf(Closure)
    /\ UNCHANGED <<aliased, disk, broken, watched, snapshot, selectedAt, refused>>

\* An edit made during the pass starts another one at once, a later one at a tick.
runContinuously ==
    /\ pass \in {"compare", "wait"}
    /\ pass' = IF anyChanged THEN "walk" ELSE "wait"
    /\ UNCHANGED <<aliased, disk, broken, watched, snapshot, selectedAt, ranAt, refused>>

Save(f, whole) ==
    /\ disk[f] <= MaxSaves /\ disk' = [disk EXCEPT ![f] = @ + 1]
    /\ broken' = IF whole THEN broken \ {f} ELSE broken \cup {f}
    /\ UNCHANGED <<aliased, pass, watched, snapshot, selectedAt, ranAt, refused>>

WatchStep == Walk \/ Discover \/ Prepare \/ watchSetFor \/ Run \/ runContinuously

WatchNext == WatchStep \/ \E f \in Sources, whole \in BOOLEAN : Save(f, whole)

-----------------------------------------------------------------------------
\* Files a walk stamps under the path the loader uses.
Stamped == UnderRoots \ aliased

\* No edit is missed: while the watcher waits, either it is about to see a change, or
\* the last pass compiled the files as they are now, and selected "main" by what it is
\* now where the root gives the path the loader uses.  A refused pass ran nothing, and
\* is up to date in the files stamped before it read them (continuous.go, the comments
\* on the watch set and on snapshot).
LastEditIsRun ==
    pass = "wait" /\ ~anyChanged =>
        /\ \A f \in Closure : ranAt[f] = disk[f] \/ (refused /\ f \notin Stamped)
        /\ "main" \in Stamped => selectedAt = disk["main"]
=============================================================================
