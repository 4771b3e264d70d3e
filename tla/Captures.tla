------------------------------ MODULE Captures ------------------------------
(***************************************************************************)
(* The recordings and logs of a run (internal/cli: session.go,             *)
(* recording.go, logcapture.go) on the three drivers that have them        *)
(* (internal/android, internal/ios, internal/iosdevice).  A controller     *)
(* holds the id of the one recording and the one log in flight; the driver *)
(* keeps a table of what runs.  A flow starts and stops them and fails or  *)
(* is interrupted in between; DeviceSession.Execute then ends what is left *)
(* and closes the driver.                                                  *)
(***************************************************************************)
EXTENDS Naturals, FiniteSets

CONSTANTS
    Names,      \* the authored names of recordings
    NoCapture,
    MaxStarts   \* bound: captures a run starts, and launches of its app

VARIABLES
    target,     \* the driver: android, simulator, hardware
    progress,      \* how far Execute is
    runCtx,     \* the context of the run: live or done
    whole,      \* the name the run records itself under (RecordTo)
    capturing,  \* the ids the two controllers hold
    table,      \* the driver's entries, a recorder or a log stream each
    children,   \* those that run
    told,       \* those that were told to end and not waited for
    file,       \* a recording on the host: none, growing, whole, broken, cut
    starts,     \* the captures started so far, which tells entries apart
    logs,       \* each log's file: none, growing, failed (its end will be an error), whole, gone,
                \* or unmerged: a part of it, with the files it was to be made from
    stdio       \* the pending stdio capture: NoCapture, or its segments and the launches it saw

capVars == <<target, progress, runCtx, whole, capturing, table, children, told, file, starts, logs, stdio>>

CapInit ==
    /\ target \in {"android", "simulator", "hardware"}
    /\ progress = "opened" /\ runCtx = "live" /\ whole \in {NoCapture} \cup Names
    /\ capturing = [kind \in {"recording", "log"} |-> NoCapture]
    /\ table = {} /\ children = {} /\ told = {} /\ file = [a \in Names |-> "none"]
    /\ starts = 0 /\ logs = [n \in 1 .. MaxStarts |-> "none"] /\ stdio = NoCapture

Entries(kind, id) == {e \in table : e.kind = kind /\ e.id = id}

\* A new child in the driver's table, which replaces an entry of the same id.
Spawn(kind, id) ==
    LET e == [kind |-> kind, id |-> id, n |-> starts + 1]
    IN  /\ starts' = starts + 1 /\ children' = children \cup {e}
        /\ table' = (table \ Entries(kind, id)) \cup {e}
        /\ capturing' = [capturing EXCEPT ![kind] = id]

-----------------------------------------------------------------------------
\* Recordings.

\* A controller has one capture in flight.  Mutant: it starts another.
AlwaysIdle(kind) == TRUE
Idle(kind) == capturing[kind] = NoCapture

\* The Android driver refuses a recording that is running; the simulator's starts
\* another, and kills a recorder that does not come up; the hardware driver
\* has cut the file by the time it refuses.
MayRecord(name) == target = "simulator" \/ Entries("recording", name) = {}

Record(name) ==
    /\ MayRecord(name) /\ Spawn("recording", name)
    /\ file' = [file EXCEPT ![name] = "growing"]

CutFile(name) ==
    /\ target = "hardware" /\ file' = [file EXCEPT ![name] = "cut"]
    /\ UNCHANGED <<capturing, starts, table, children>>

StartScreenRecording(name) ==
    /\ Idle("recording") /\ starts < MaxStarts
    /\ \/ Record(name) \/ CutFile(name)
       \/ UNCHANGED <<capturing, starts, table, children, file>>
    /\ UNCHANGED <<target, runCtx, whole, told, logs, stdio>>

StartRecording ==
    /\ progress = "flow" /\ runCtx = "live"
    /\ \E name \in Names : StartScreenRecording(name)
    /\ UNCHANGED progress

\* Whoever stops a capture waits for its time: the run's, or fifteen seconds.
OutOfTime == (progress = "flow" /\ runCtx = "done") \/ progress \in {"recordings", "logs"}

\* Out of time, the hardware driver leaves what it told to end.
LeaveBehind(e) ==
    /\ target = "hardware" /\ OutOfTime /\ told' = told \cup {e} /\ UNCHANGED children

\* The driver ends recorder e, which may have died before; the other two kill
\* one that is late.  The Android driver removes what it could not pull.
EndRecorder(e) ==
    /\ \E x \in {"whole", IF target = "android" THEN "none" ELSE "broken"} :
          file' = [file EXCEPT ![e.id] = x]
    /\ \/ children' = children \ {e} /\ UNCHANGED told
       \/ LeaveBehind(e)

\* The controller forgets the id before the driver is asked.
StopCurrentRecording ==
    /\ capturing' = [capturing EXCEPT !["recording"] = NoCapture]
    /\ table' = table \ Entries("recording", capturing["recording"])
    /\ \/ \E e \in Entries("recording", capturing["recording"]) : EndRecorder(e)
       \/ Entries("recording", capturing["recording"]) = {} /\ UNCHANGED <<file, children, told>>
    /\ UNCHANGED <<target, runCtx, whole, starts, logs, stdio>>

StopRecording ==
    /\ progress = "flow" /\ capturing["recording"] # NoCapture
    /\ StopCurrentRecording /\ UNCHANGED progress

-----------------------------------------------------------------------------
\* Logs.

\* One of the system's log, which is of the whole device where the driver cannot
\* filter; or it fails, and what was made of it is undone.
StartLogCapture ==
    /\ progress = "flow" /\ runCtx = "live" /\ Idle("log") /\ starts < MaxStarts
    /\ Spawn("log", starts + 1) /\ logs' = [logs EXCEPT ![starts + 1] = "growing"]
    /\ UNCHANGED <<target, progress, runCtx, whole, told, file, stdio>>

\* The streams of the app itself, from its next launch on.
StartStdioCapture ==
    /\ progress = "flow" /\ runCtx = "live" /\ Idle("log") /\ starts < MaxStarts
    /\ target = "simulator" /\ stdio = NoCapture
    /\ starts' = starts + 1 /\ logs' = [logs EXCEPT ![starts + 1] = "growing"]
    /\ capturing' = [capturing EXCEPT !["log"] = starts + 1]
    /\ stdio' = [id |-> starts + 1, segments |-> 0, launched |-> 0]
    /\ UNCHANGED <<target, progress, runCtx, whole, table, children, told, file>>

\* A launch that fails drops the segment it was given.
DropSegment(segments) == segments - 1

LaunchApp ==
    /\ progress = "flow" /\ stdio # NoCapture /\ stdio.launched < MaxStarts /\ stdio.segments < MaxStarts
    /\ LET allocated == stdio.segments + 1
       IN  stdio' \in {[stdio EXCEPT !.segments = allocated, !.launched = @ + 1],
                       [stdio EXCEPT !.segments = DropSegment(allocated)]}
    /\ UNCHANGED <<target, progress, runCtx, whole, capturing, table, children, told, file, starts, logs>>

\* What becomes of a log at its limit: the Android driver's stream is cancelled,
\* the simulator's log is ended and removed at once while its entry stays, and
\* the hardware driver keeps what fits.
AtLimit ==
    IF target = "android" THEN "failed" ELSE IF target = "simulator" THEN "gone" ELSE "growing"

ExceedLimit(e) ==
    /\ e \in children \ told /\ e.kind = "log"
    /\ children' = children \ {e} /\ logs' = [logs EXCEPT ![e.n] = AtLimit]
    /\ UNCHANGED <<target, progress, runCtx, whole, capturing, table, told, file, starts, stdio>>

\* A log whose end is an error is removed.  Mutant: it is left.
RemovesNothing == "failed"
RemovePartial == "gone"

EndLog(e) ==
    /\ \/ children' = children \ {e} /\ UNCHANGED told
          /\ \E x \in IF logs[e.n] = "gone" THEN {"gone"}
                     ELSE IF logs[e.n] = "failed" THEN {RemovePartial} ELSE {"whole", RemovePartial} :
                logs' = [logs EXCEPT ![e.n] = x]
       \/ LeaveBehind(e) /\ UNCHANGED logs

\* The capture is detached, and its segments are merged; without one there is nothing
\* to keep.  Merging may fail, on a file that cannot be opened, read or written: what
\* was written and the segments stay, and nobody comes back for them.
EndStdio ==
    /\ \E x \in IF stdio.segments = 0 THEN {"gone"} ELSE {"whole", "unmerged"} :
          logs' = [logs EXCEPT ![stdio.id] = x]
    /\ stdio' = NoCapture

StopCurrentLog ==
    /\ capturing' = [capturing EXCEPT !["log"] = NoCapture]
    /\ table' = table \ Entries("log", capturing["log"])
    /\ \/ \E e \in Entries("log", capturing["log"]) : EndLog(e) /\ UNCHANGED stdio
       \/ stdio # NoCapture /\ EndStdio /\ UNCHANGED <<children, told>>
       \/ capturing["log"] = NoCapture /\ UNCHANGED <<children, told, logs, stdio>>
    /\ UNCHANGED <<target, runCtx, whole, file, starts>>

StopLogCapture ==
    /\ progress = "flow" /\ capturing["log"] # NoCapture
    /\ StopCurrentLog /\ UNCHANGED progress

-----------------------------------------------------------------------------
\* DeviceSession.Execute.

\* A run that is to be recorded and cannot be does not begin.
Begin ==
    /\ progress = "opened"
    /\ \/ /\ whole = NoCapture /\ progress' = "flow"
          /\ UNCHANGED <<target, runCtx, whole, capturing, table, children, told, file, starts, logs, stdio>>
       \/ /\ whole # NoCapture /\ StartScreenRecording(whole)
          /\ progress' = IF capturing' = capturing THEN "recordings" ELSE "flow"

FlowEnds ==
    /\ progress = "flow" /\ progress' = "recordings"
    /\ UNCHANGED <<target, runCtx, whole, capturing, table, children, told, file, starts, logs, stdio>>

\* The finalizer of the run's recording and StopAll come to the same.
FinalizeRecordings == progress = "recordings" /\ progress' = "logs" /\ StopCurrentRecording
FinalizeLogs == progress = "logs" /\ progress' = "close" /\ StopCurrentLog

\* Driver.Close ends whatever the controllers did not know of, and waits for it
\* as long as it takes; the controllers knew of all of it but what they lost.
CloseDriver ==
    /\ progress = "close" /\ progress' = "ended"
    /\ table' = {} /\ children' = children \ table
    /\ file' = [a \in Names |-> IF Entries("recording", a) = {} THEN file[a] ELSE "whole"]
    /\ IF stdio # NoCapture THEN EndStdio
       ELSE /\ logs' = [n \in DOMAIN logs |-> IF \E e \in table : e.n = n /\ e.kind = "log"
                                               THEN "whole" ELSE logs[n]]
            /\ UNCHANGED stdio
    /\ UNCHANGED <<target, runCtx, whole, capturing, told, starts>>

-----------------------------------------------------------------------------
\* A recorder or a log stream ends by itself, or follows its order.
ChildEnds ==
    /\ \E e \in children : children' = children \ {e} /\ told' = told \ {e}
    /\ UNCHANGED <<target, progress, runCtx, whole, capturing, table, file, starts, logs, stdio>>

\* The run is interrupted.  The simulator's log streams are children of the
\* context they were started with: they are killed, and their logs with them.
Interrupt ==
    /\ progress = "flow" /\ runCtx = "live" /\ runCtx' = "done"
    /\ LET Killed == {e \in children : target = "simulator" /\ e.kind = "log"}
       IN  /\ children' = children \ Killed
           /\ logs' = [n \in DOMAIN logs |-> IF \E e \in Killed : e.n = n THEN "failed" ELSE logs[n]]
    /\ UNCHANGED <<target, progress, whole, capturing, table, told, file, starts, stdio>>

CapNext ==
    \/ Begin \/ StartRecording \/ StopRecording
    \/ StartLogCapture \/ StartStdioCapture \/ LaunchApp \/ StopLogCapture
    \/ FlowEnds \/ FinalizeRecordings \/ FinalizeLogs \/ CloseDriver
    \/ \E e \in children : ExceedLimit(e)
    \/ ChildEnds \/ Interrupt

-----------------------------------------------------------------------------
\* The driver knows of every recorder and log stream that runs, unless it told
\* it to end, and nothing else writes to the file of a recorder that runs; a
\* stdio capture has a segment for each launch it saw and no other.  When Execute
\* has returned nothing runs on except, on hardware, what was told to end.  Off
\* hardware every log is then whole or removed; only the launches of a stdio capture
\* may have been kept without being merged.
CapturesAccounted ==
    /\ children \ told \subseteq table
    /\ \A e \in children \ told : e.kind = "recording" => file[e.id] = "growing"
    /\ stdio # NoCapture => stdio.segments = stdio.launched
    /\ progress = "ended" =>
         /\ children \subseteq told /\ (target # "hardware" => children = {}) /\ stdio = NoCapture
         /\ target # "hardware" => \A n \in DOMAIN logs :
               logs[n] \in {"none", "whole", "gone"} \/ (target = "simulator" /\ logs[n] = "unmerged")
=============================================================================
