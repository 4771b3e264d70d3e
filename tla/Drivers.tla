------------------------------- MODULE Drivers -------------------------------
(***************************************************************************)
(* One driver of each platform, opened and closed; the captures of a run   *)
(* on an open one; and one DevTools connection.  Every behaviour is of the *)
(* one that "platform" names; the variables it does not use keep their     *)
(* first values.                                                           *)
(***************************************************************************)
EXTENDS CdpConnection, Captures

CONSTANTS Attempts, AdbFails

VARIABLES
    platform, at, held, tried, ctx, managed, child, failing, done,
    doubt, attempt, busy, port, tunnelled

shared == <<at, held, tried, ctx, managed, child>>
driverVars == <<platform, shared, failing, done, doubt, attempt, busy, port, tunnelled, cdpVars, capVars>>

Android == INSTANCE AndroidDriver
Runner == INSTANCE ManagedRunner
Hardware == INSTANCE HardwareDriver
Web == INSTANCE WebDriver

DriversInit ==
    /\ CdpInit
    /\ doubt = {} /\ attempt = 1 /\ busy = FALSE /\ port = "none" /\ failing = FALSE
    /\ \/ platform = "android" /\ Android!Init /\ done = "nil" /\ tunnelled = FALSE
       \/ platform = "simulator" /\ Runner!Init /\ tunnelled = FALSE
       \/ platform = "hardware" /\ Hardware!Init /\ done = "nil"
       \/ platform = "web" /\ Web!Init /\ tunnelled = FALSE
       \/ platform = "page" /\ Web!Init /\ ~managed /\ tunnelled = FALSE
       \/ platform = "run" /\ Web!Init /\ ~managed /\ tunnelled = FALSE
    /\ CapInit /\ (platform # "run" => target = "android" /\ whole = NoCapture)

KeepAndroid == UNCHANGED <<platform, failing, done, attempt, busy, port, tunnelled, cdpVars, capVars>>
KeepRunner == UNCHANGED <<platform, failing, doubt, tunnelled, cdpVars, capVars>>
KeepHardware == UNCHANGED <<platform, done, doubt, attempt, busy, port, cdpVars, capVars>>
KeepWeb == UNCHANGED <<platform, doubt, attempt, busy, port, tunnelled, cdpVars, capVars>>
KeepPage == UNCHANGED <<platform, shared, failing, done, doubt, attempt, busy, port, tunnelled, capVars>>
KeepRun == UNCHANGED <<platform, shared, failing, done, doubt, attempt, busy, port, tunnelled, cdpVars>>

DriversNext ==
    \/ platform = "android" /\ Android!Next /\ KeepAndroid
    \/ platform = "simulator" /\ Runner!Next /\ KeepRunner
    \/ platform = "hardware" /\ Hardware!Next /\ KeepHardware
    \/ platform = "web" /\ Web!Next /\ KeepWeb
    \/ platform = "page" /\ CdpNext /\ KeepPage
    \/ platform = "run" /\ CapNext /\ KeepRun

\* A driver goes on with its own code; the time of a rollback and the start-up
\* budget of a managed runner run out; a goroutine that was cancelled and a browser
\* that was killed end; a closed socket fails its reader, and what a call waits for
\* is handed to it.
DriversGoOn ==
    \/ platform = "android" /\ Android!Step /\ KeepAndroid
    \/ platform = "simulator" /\ Runner!Step /\ KeepRunner
    \/ platform = "hardware" /\ Hardware!Step /\ KeepHardware
    \/ platform = "web" /\ Web!Step /\ KeepWeb
    \/ platform = "page" /\ closed /\ FailAll /\ KeepPage
OthersEnd ==
    \/ platform = "android" /\ at = "undoWait" /\ Android!ContextEnds /\ KeepAndroid
    \/ platform = "simulator" /\ Runner!ContextEnds /\ KeepRunner
    \/ platform = "hardware" /\ at = "joinRunner" /\ Hardware!RunnerEnds /\ KeepHardware
    \/ platform = "web" /\ child = "killed" /\ Web!ChromeExits /\ KeepWeb
Answered(c) == platform = "page" /\ (TakeReply(c) \/ TakeFailure(c)) /\ KeepPage
Delivered(c) == platform = "page" /\ Deliver(c) /\ KeepPage

-----------------------------------------------------------------------------
Phase ==
    IF platform = "android" THEN Android!Phase
    ELSE IF platform = "simulator" THEN Runner!Phase
    ELSE IF platform = "hardware" THEN Hardware!Phase
    ELSE Web!Phase

Contract == INSTANCE DriverContract WITH
    Resources <- Android!Resources \cup Runner!Resources \cup Hardware!Resources \cup Web!Resources,
    phase <- Phase,
    tried <- IF platform = "android" THEN Android!Answered ELSE tried

\* Whatever a driver made by the time Open failed or Close returned is gone, or
\* its removal was called: no path of Open and Close forgets a resource.
ImplementsDriverContract == Contract!Spec

\* Open and Close come to an end, whatever the child does, and so does every call
\* on a connection that was closed or has failed: the drivers come to rest.
DriversRest ==
    /\ Phase \in {"new", "open", "failed", "closed"}
    /\ closed \/ reader = "ended" => \A c \in Callers : call[c] # "sent"

\* While a runner is stopped its exit has not been received before: nobody
\* waits out ten seconds for a value that was already taken.
StopNeverWaitsForTheDead ==
    platform = "simulator" /\ at \in {"stopWait", "closeWait"} => done # "taken"
=============================================================================
