------------------------------ MODULE Host_proofs ------------------------------
(***************************************************************************)
(* Proofs about the machines that MCHost puts side by side, each for every *)
(* value of its constants: a behaviour of MCHost is, on the variables of a *)
(* machine, one of that machine or stands still.                           *)
(***************************************************************************)
EXTENDS MCHost, SequenceTheorems, FiniteSetTheorems, TLAPS

-----------------------------------------------------------------------------
(* flowbaton test --continuous                                             *)

\* A behaviour of the run is one of the watch loop.
LEMMA WatchesOnly ==
    /\ Init => W!WatchInit
    /\ [Next]_vars => [W!WatchNext]_watchVars
<1>1. Init => W!WatchInit
  BY DEF Init
<1>2. [Next]_vars => [W!WatchNext]_watchVars
  BY DEF Next, vars, KeepRun, KeepSession, KeepTest, KeepCache, KeepScript, KeepDrivers,
         KeepStart, KeepFeed
<1> QED
  BY <1>1, <1>2

\* A file is stamped under the path a root gives it before the pass reads it, and that
\* stamp is never replaced; under the loader's path it is stamped before the shards read
\* it.  So what the pass went by is up to date as long as no stamp of it differs.
GivenHolds(f) == snapshot[W!Given(f)] = disk[f]
LoaderHolds(f) == snapshot[W!Canonical(f)] = disk[f]
ReadNow == \A f \in W!Closure : ranAt[f] = disk[f]

Stamps ==
    /\ disk \in [W!Sources -> Nat] /\ snapshot \in [W!Paths -> Nat]
    /\ \A f \in W!Sources : disk[f] # 0
    /\ \A f \in W!Sources : snapshot[W!Given(f)] <= disk[f] /\ snapshot[W!Canonical(f)] <= disk[f]
    /\ pass # "walk" => \A f \in W!Sources : snapshot[W!Given(f)] # 0
ByRoots ==
    /\ watched = {W!Given(f) : f \in W!Sources}
    /\ (\A f \in W!Sources : GivenHolds(f)) => ReadNow
ByLoader ==
    /\ watched = {W!Canonical(f) : f \in W!Sources}
    /\ \A f \in W!Sources : snapshot[W!Canonical(f)] # 0
Compiled == \A f \in W!Sources : GivenHolds(f) => ranAt[f] = disk[f]
WatchInv ==
    /\ pass \in {"walk", "discover", "prepare", "stamp", "run", "compare", "wait"}
    /\ Stamps
    /\ pass \notin {"walk", "discover"} /\ GivenHolds("main") => selectedAt = disk["main"]
    /\ pass = "stamp" => Compiled
    /\ pass = "run" => ByLoader /\ ~refused
    /\ pass \in {"discover", "prepare", "stamp"} => watched = {W!Given(f) : f \in W!Sources}
    /\ pass \in {"compare", "wait"} =>
          \/ ByRoots
          \/ ByLoader /\ refused /\ Compiled
          \/ ByLoader /\ ~refused /\ ((\A f \in W!Sources : LoaderHolds(f)) => ReadNow)

\* The named roots contain every file the flows are made of, and nothing else.
EverythingUnderRoots == UnderRoots = W!Sources

\* A file has at most two paths, and each is a key of the snapshot.
LEMMA PathsOfFiles ==
    \A f \in W!Sources : /\ W!Given(f) \in W!Paths /\ W!Canonical(f) \in W!Paths
                         /\ W!Given(f)[2] = f /\ W!Canonical(f)[2] = f
  BY DEF W!Given, W!Canonical, W!Paths, W!Sources

LEMMA WatchStart == W!WatchInit => WatchInv
<1> SUFFICES ASSUME W!WatchInit PROVE WatchInv
  OBVIOUS
<1>1. Stamps
  BY PathsOfFiles DEF W!WatchInit, Stamps, W!NoStamps
<1> QED
  BY <1>1 DEF W!WatchInit, WatchInv

LEMMA WatchKeeps ==
    ASSUME EverythingUnderRoots, WatchInv, [W!WatchNext]_watchVars
    PROVE  WatchInv'
<1>0. UNCHANGED aliased => \A f \in W!Sources :
         W!Given(f)' = W!Given(f) /\ W!Canonical(f)' = W!Canonical(f)
  BY DEF W!Given, W!Canonical
<1>1. CASE W!Walk
  <2>1. /\ pass' = "discover" /\ disk' = disk /\ aliased' = aliased
        /\ watched' = {W!Given(f) : f \in W!Sources}
    BY <1>1 DEF W!Walk, W!walkRoots, EverythingUnderRoots
  <2>2. snapshot' \in [W!Paths -> Nat]
    BY <1>1, PathsOfFiles DEF W!Walk, W!stampFiles, WatchInv, Stamps, W!Paths
  <2>3. \A f \in W!Sources : /\ snapshot'[W!Given(f)] = disk[f]
                             /\ snapshot'[W!Canonical(f)] \in {0, disk[f]}
    BY <1>1, PathsOfFiles DEF W!Walk, W!stampFiles, W!walkRoots, EverythingUnderRoots
  <2>4. Stamps'
    BY <1>0, <2>1, <2>2, <2>3 DEF WatchInv, Stamps
  <2>5. watched' = {W!Given(f)' : f \in W!Sources}
    BY <1>0, <2>1
  <2> QED
    BY <2>1, <2>4, <2>5 DEF WatchInv
<1>2. CASE W!Discover
  <2>1. /\ UNCHANGED <<aliased, disk, broken, watched, snapshot, refused>>
        /\ selectedAt' = disk["main"] /\ pass' \in {"prepare", "compare"} /\ pass = "discover"
        /\ \A f \in W!Sources : ranAt'[f] = disk[f]
    BY <1>2 DEF W!Discover, W!ReadOf, EverythingUnderRoots, W!Sources
  <2>2. Stamps' /\ watched' = {W!Given(f)' : f \in W!Sources}
    BY <1>0, <2>1 DEF WatchInv, Stamps
  <2>3. ReadNow'
    BY <2>1 DEF ReadNow, W!Closure, W!Sources
  <2> QED
    BY <2>1, <2>2, <2>3 DEF WatchInv, ByRoots
<1>3. CASE W!Prepare
  <2>1. /\ UNCHANGED <<aliased, disk, broken, watched, snapshot, selectedAt, refused>>
        /\ pass' = (IF W!Compiles THEN "stamp" ELSE "compare") /\ pass = "prepare"
        /\ ranAt' = W!ReadOf(W!Closure)
    BY <1>3 DEF W!Prepare
  <2>2. Stamps' /\ watched' = {W!Given(f)' : f \in W!Sources}
    BY <1>0, <2>1 DEF WatchInv, Stamps
  <2>3. ReadNow'
    BY <2>1 DEF ReadNow, W!Closure, W!Sources, W!ReadOf
  <2>4. W!Compiles => Compiled'
    BY <2>1 DEF Compiled, W!Compiles, W!Closure, W!ReadOf, W!Sources
  <2>5. GivenHolds("main")' <=> GivenHolds("main")
    BY <1>0, <2>1 DEF GivenHolds, W!Sources
  <2> QED
    BY <2>1, <2>2, <2>3, <2>4, <2>5 DEF WatchInv, ByRoots
<1>4. CASE W!watchSetFor
  <2>1. /\ UNCHANGED <<aliased, disk, broken, selectedAt, ranAt>> /\ pass = "stamp" /\ refused' \in BOOLEAN
        /\ pass' = IF refused' THEN "compare" ELSE "run"
        /\ watched' = {W!Canonical(f) : f \in W!Sources}
    BY <1>4 DEF W!watchSetFor
  <2>2. snapshot' \in [W!Paths -> Nat]
    BY <1>4, PathsOfFiles DEF W!watchSetFor, W!stampFiles, W!mergeStamps, WatchInv, Stamps, W!Paths
  <2>3. \A f \in W!Sources : snapshot'[W!Given(f)] = snapshot[W!Given(f)]
    BY <1>4, <2>1, PathsOfFiles DEF W!watchSetFor, W!mergeStamps, WatchInv, Stamps
  <2>4. \A f \in W!Sources : snapshot'[W!Canonical(f)] <= disk[f] /\ snapshot'[W!Canonical(f)] # 0
    BY <1>4, PathsOfFiles DEF W!watchSetFor, W!mergeStamps, W!stampFiles, WatchInv, Stamps
  <2>5. Stamps' /\ ByLoader'
    BY <1>0, <2>1, <2>2, <2>3, <2>4 DEF WatchInv, Stamps, ByLoader
  <2>6. Compiled' /\ (GivenHolds("main")' <=> GivenHolds("main"))
    BY <1>0, <2>1, <2>3 DEF WatchInv, Compiled, GivenHolds, W!Sources
  <2> QED
    BY <2>1, <2>5, <2>6 DEF WatchInv
<1>5. CASE W!Run
  <2>1. /\ UNCHANGED <<aliased, disk, broken, watched, snapshot, selectedAt, refused>>
        /\ pass' = "compare" /\ pass = "run" /\ ranAt' = W!ReadOf(W!Closure)
    BY <1>5 DEF W!Run
  <2>2. Stamps' /\ ByLoader' /\ ~refused'
    BY <1>0, <2>1 DEF WatchInv, Stamps, ByLoader
  <2>3. ReadNow'
    BY <2>1 DEF ReadNow, W!Closure, W!Sources, W!ReadOf
  <2>4. GivenHolds("main")' <=> GivenHolds("main")
    BY <1>0, <2>1 DEF GivenHolds, W!Sources
  <2> QED
    BY <2>1, <2>2, <2>3, <2>4 DEF WatchInv
<1>6. ASSUME UNCHANGED <<aliased, disk, broken, watched, snapshot, selectedAt, ranAt, refused>>,
             pass' = pass \/ (pass \in {"compare", "wait"} /\ pass' \in {"walk", "wait"})
      PROVE  WatchInv'
  <2>1. Stamps' /\ (Compiled' <=> Compiled) /\ (ByLoader' <=> ByLoader) /\ (ReadNow' <=> ReadNow)
    BY <1>0, <1>6 DEF WatchInv, Stamps, Compiled, ByLoader, ReadNow, GivenHolds, W!Closure
  <2>2. \A f \in W!Sources : (GivenHolds(f)' <=> GivenHolds(f)) /\ (LoaderHolds(f)' <=> LoaderHolds(f))
    BY <1>0, <1>6 DEF GivenHolds, LoaderHolds
  <2>3. watched' = watched /\ {W!Given(f)' : f \in W!Sources} = {W!Given(f) : f \in W!Sources}
    BY <1>0, <1>6
  <2>4. "main" \in W!Sources
    BY DEF W!Sources
  <2> QED
    BY <1>6, <2>1, <2>2, <2>3, <2>4 DEF WatchInv, ByRoots
<1>7. ASSUME NEW f \in W!Sources, NEW all \in BOOLEAN, W!Save(f, all)
      PROVE  WatchInv'
  <2>1. /\ disk' = [disk EXCEPT ![f] = @ + 1] /\ disk[f] \in Nat
        /\ UNCHANGED <<aliased, pass, watched, snapshot, selectedAt, ranAt, refused>>
    BY <1>7 DEF W!Save, WatchInv, Stamps
  <2>2. Stamps' /\ ~GivenHolds(f)' /\ ~LoaderHolds(f)'
    BY <1>0, <2>1, PathsOfFiles DEF WatchInv, Stamps, GivenHolds, LoaderHolds
  <2>3. \A g \in W!Sources \ {f} : disk'[g] = disk[g] /\ (GivenHolds(g)' <=> GivenHolds(g))
    BY <1>0, <2>1 DEF WatchInv, Stamps, GivenHolds
  <2>4. (ByLoader => ByLoader') /\ (Compiled => Compiled')
    BY <1>0, <2>1, <2>2, <2>3 DEF ByLoader, Compiled
  <2>5. watched' = watched /\ {W!Given(g)' : g \in W!Sources} = {W!Given(g) : g \in W!Sources}
    BY <1>0, <2>1
  <2>6. "main" \in W!Sources
    BY DEF W!Sources
  <2> QED
    BY <2>1, <2>2, <2>3, <2>4, <2>5, <2>6 DEF WatchInv, ByRoots
<1>8. CASE W!runContinuously \/ UNCHANGED watchVars
  BY <1>6, <1>8 DEF W!runContinuously, watchVars
<1> QED
  BY <1>1, <1>2, <1>3, <1>4, <1>5, <1>7, <1>8 DEF W!WatchNext, W!WatchStep

\* Where the named roots contain every file of the flows, no edit is missed, however
\* the roots are written, however many are saved and whenever: a watcher that waits is
\* about to see a change, or its last pass compiled the files as they are, and selected
\* by them where the roots give the paths the loader uses (continuous.go).
THEOREM NoEditMissed ==
    ASSUME EverythingUnderRoots
    PROVE  Spec => []LastEditIsRun
<1>1. WatchInv => LastEditIsRun
  <2> SUFFICES ASSUME WatchInv, pass = "wait", ~W!anyChanged
               PROVE  /\ \A f \in W!Closure : ranAt[f] = disk[f] \/ (refused /\ f \notin W!Stamped)
                      /\ "main" \in W!Stamped => selectedAt = disk["main"]
    BY DEF LastEditIsRun, W!LastEditIsRun
  <2>1. \A f \in W!Stamped : f \in W!Sources /\ W!Given(f) = W!Canonical(f)
    BY DEF W!Stamped, EverythingUnderRoots, W!Given, W!Canonical
  <2>2. \A f \in W!Closure : f \in W!Sources
    BY DEF W!Closure, W!Sources
  <2>3. CASE ByRoots
    <3>1. \A f \in W!Sources : GivenHolds(f)
      BY <2>3, PathsOfFiles DEF ByRoots, W!anyChanged, GivenHolds, WatchInv, Stamps
    <3> QED
      BY <2>1, <2>3, <3>1 DEF ByRoots, ReadNow, WatchInv
  <2>4. CASE ByLoader
    <3>1. \A f \in W!Sources : LoaderHolds(f)
      BY <2>4, PathsOfFiles DEF ByLoader, W!anyChanged, LoaderHolds
    <3>2. \A f \in W!Stamped : GivenHolds(f)
      BY <2>1, <3>1 DEF GivenHolds, LoaderHolds
    <3>3. "main" \in W!Stamped => selectedAt = disk["main"]
      BY <3>2 DEF WatchInv
    <3>4. CASE refused /\ Compiled
      BY <2>1, <3>2, <3>3, <3>4 DEF Compiled
    <3>5. CASE (\A f \in W!Sources : LoaderHolds(f)) => ReadNow
      BY <3>1, <3>3, <3>5 DEF ReadNow
    <3>6. CASE ByRoots
      BY <2>3, <3>6
    <3> QED
      BY <3>4, <3>5, <3>6 DEF WatchInv
  <2> QED
    BY <2>3, <2>4 DEF WatchInv
<1>2. WatchInv /\ [Next]_vars => WatchInv'
  BY WatchKeeps, WatchesOnly
<1>3. Init => WatchInv
  BY WatchStart, WatchesOnly
<1> QED
  BY <1>1, <1>2, <1>3, PTL DEF Spec
-----------------------------------------------------------------------------
(* The asset cache                                                         *)

\* A behaviour of the run is one of the asset cache.
LEMMA CachesOnly ==
    /\ Init => C!CacheInit
    /\ [Next]_vars => [C!CacheNext]_cacheVars
<1>1. Init => C!CacheInit
  BY DEF Init
<1>2. [Next]_vars => [C!CacheNext]_cacheVars
  BY DEF Next, vars, KeepRun, KeepSession, KeepTest, KeepWatch, KeepScript, KeepDrivers,
         KeepStart, KeepFeed
<1> QED
  BY <1>1, <1>2

Outside == {"begin", "lock"} \cup C!Ends
Packing == {"extract", "verify", "publish"}
Locked == {"sweep", "look", "remove", "download", "fetch"} \cup Packing

\* The lock is what keeps a directory whole from its verification to its publication:
\* whoever sweeps holds it, so the only directories that are swept are those of
\* processes that were killed.
CacheInv ==
    /\ doing \in [Users -> Outside \cup Locked]
    /\ temp \in [Users -> SUBSET (C!Whole \cup NoDir)]
    /\ \A u, v \in holder : u = v
    /\ \A u \in Users : u \in holder <=> doing[u] \in Locked
    /\ \A u \in Users : temp[u] # NoDir => doing[u] \in Packing \cup {"killed"}
    /\ \A u \in Users : doing[u] \in {"verify", "publish"} => temp[u] = C!Whole

LEMMA CacheStart == C!CacheInit => CacheInv
  BY DEF C!CacheInit, CacheInv, Outside, Locked, Packing, C!Ends

\* What a step of one process, which has the lock if it needs it, does to the others.
LEMMA CacheKeeps ==
    ASSUME CacheInv, [C!CacheNext]_cacheVars
    PROVE  CacheInv'
<1> USE DEF CacheInv, Outside, Locked, Packing, C!Ends, C!Goto, C!Leave, C!SetTemp
<1>1. ASSUME NEW u \in Users, C!acquireDriverAsset(u) \/ C!loadCachedDriverAsset(u)
      PROVE  CacheInv'
  BY <1>1 DEF C!acquireDriverAsset, C!loadCachedDriverAsset
<1>2. ASSUME NEW u \in Users, C!Lock(u)
      PROVE  CacheInv'
  BY <1>2 DEF C!Lock, C!LockIsFree
<1>3. ASSUME NEW u \in Users, C!removeInterruptedTemps(u)
      PROVE  CacheInv'
  BY <1>3 DEF C!removeInterruptedTemps
<1>4. ASSUME NEW u \in Users, C!LookUp(u) \/ C!RemoveInvalid(u) \/ C!Download(u)
      PROVE  CacheInv'
  BY <1>4 DEF C!LookUp, C!RemoveInvalid, C!Download
<1>5. ASSUME NEW u \in Users, C!readAndVerifyArchive(u)
      PROVE  CacheInv'
  BY <1>5 DEF C!readAndVerifyArchive
<1>6. ASSUME NEW u \in Users, C!extractArchive(u)
      PROVE  CacheInv'
  BY <1>6 DEF C!extractArchive, C!Unwritten, C!Whole
<1>7. ASSUME NEW u \in Users, C!verifyAssetDirectory(u) \/ C!Publish(u)
      PROVE  CacheInv'
  BY <1>7 DEF C!verifyAssetDirectory, C!Publish
<1>8. ASSUME NEW u \in Users, C!storeReleaseDriverManifest(u) \/ C!Kill(u)
      PROVE  CacheInv'
  BY <1>8 DEF C!storeReleaseDriverManifest, C!Kill
<1>9. CASE C!Damage \/ UNCHANGED cacheVars
  BY <1>9 DEF C!Damage, cacheVars
<1> QED
  BY <1>1, <1>2, <1>3, <1>4, <1>5, <1>6, <1>7, <1>8, <1>9 DEF C!CacheNext, C!CacheStep, C!Acquire

\* Whatever a process acquires is whole and verified, however many processes acquire
\* the asset at the same time and wherever some of them were killed; and a process
\* that goes on leaves no temporary directory behind (manager.go, locker.go).
THEOREM WholeAssets == Spec => AcquiredIsWhole
<1> DEFINE Whole == \A u \in Users : doing'[u] # doing[u] =>
               /\ doing'[u] = "acquired" => final' = C!Whole
               /\ doing'[u] \in {"acquired", "failed"} => temp'[u] = NoDir
<1>1. CacheInv /\ [C!CacheNext]_cacheVars => [Whole]_cacheVars
  <2> SUFFICES ASSUME CacheInv, C!CacheNext, NEW u \in Users, doing'[u] # doing[u]
               PROVE  /\ doing'[u] = "acquired" => final' = C!Whole
                      /\ doing'[u] \in {"acquired", "failed"} => temp'[u] = NoDir
    OBVIOUS
  <2>1. PICK v \in Users : C!Acquire(v) \/ C!Kill(v)
    BY DEF C!CacheNext, C!CacheStep, C!Damage
  <2>2. u = v
    BY <2>1 DEF C!Acquire, C!Kill, C!Goto, C!Leave, C!acquireDriverAsset, C!loadCachedDriverAsset,
      C!Lock, C!removeInterruptedTemps, C!LookUp, C!RemoveInvalid, C!Download,
      C!readAndVerifyArchive, C!extractArchive, C!Unwritten, C!verifyAssetDirectory, C!Publish,
      C!storeReleaseDriverManifest, CacheInv
  <2>3. CASE C!LookUp(u) \/ C!Publish(u) \/ C!extractArchive(u) \/ C!verifyAssetDirectory(u)
    BY <2>3 DEF C!LookUp, C!Publish, C!extractArchive, C!Unwritten, C!verifyAssetDirectory,
       C!Goto, C!Leave,
      C!SetTemp, CacheInv, Outside, Locked, Packing, C!Ends
  <2>4. CASE \/ C!acquireDriverAsset(u) \/ C!loadCachedDriverAsset(u) \/ C!Lock(u)
             \/ C!removeInterruptedTemps(u) \/ C!RemoveInvalid(u) \/ C!Download(u)
             \/ C!readAndVerifyArchive(u) \/ C!storeReleaseDriverManifest(u) \/ C!Kill(u)
    BY <2>4 DEF C!acquireDriverAsset, C!loadCachedDriverAsset, C!Lock, C!removeInterruptedTemps,
      C!RemoveInvalid, C!Download, C!readAndVerifyArchive, C!storeReleaseDriverManifest, C!Kill,
      C!Goto, C!Leave, C!SetTemp, CacheInv, Outside, Locked, Packing, C!Ends
  <2> QED
    BY <2>1, <2>2, <2>3, <2>4 DEF C!Acquire
<1>2. CacheInv /\ [Next]_vars => CacheInv'
  BY CacheKeeps, CachesOnly
<1>3. CacheInv /\ [Next]_vars => [Whole]_cacheVars
  BY <1>1, CachesOnly
<1>4. Init => CacheInv
  BY CacheStart, CachesOnly
<1>5. AcquiredIsWhole <=> [][Whole]_cacheVars
  BY DEF AcquiredIsWhole, C!AcquiredIsWhole, C!cacheVars, cacheVars
<1> HIDE DEF Whole
<1> QED
  BY <1>2, <1>3, <1>4, <1>5, PTL DEF Spec
-----------------------------------------------------------------------------
(* The JavaScript runtime                                                  *)

\* A behaviour of the run is one of the runtime.
LEMMA ScriptsOnly ==
    /\ Init => J!JSInit
    /\ [Next]_vars => [J!JSNext]_jsVars
<1>1. Init => J!JSInit
  BY DEF Init
<1>2. [Next]_vars => [J!JSNext]_jsVars
  BY DEF Next, vars, KeepRun, KeepSession, KeepTest, KeepWatch, KeepCache, KeepDrivers,
         KeepStart, KeepFeed
<1> QED
  BY <1>1, <1>2

\* Nothing is interrupted, or about to be, but an evaluation whose context ended.
InterruptInv ==
    /\ alarms \in Nat
    /\ alarms > 0 \/ interrupt => cancelled /\ evaluation # "idle"
    /\ outcome = "interrupted" => cancelled

\* What lies under the environment is what the scripts left, at any time, and an
\* evaluation begins with its environment laid over exactly that.
GlobalsInv ==
    /\ globals = [n \in Names |-> globals[n]] /\ own = [n \in Names |-> own[n]]
    /\ own = J!Uncovered
    /\ evaluation \in {"running", "http"} /\ fresh => globals = J!Overlay(own, env)

LEMMA ScriptStart == J!JSInit => InterruptInv /\ GlobalsInv
  BY DEF J!JSInit, InterruptInv, GlobalsInv, J!Empty, J!Uncovered

LEMMA InterruptKeeps ==
    ASSUME InterruptInv, [J!JSNext]_jsVars
    PROVE  InterruptInv'
<1> USE DEF InterruptInv
<1>1. CASE J!Evaluate
  BY <1>1 DEF J!Evaluate
<1>2. CASE J!Assign \/ J!executeHTTPRequest \/ J!Respond
  BY <1>2 DEF J!Assign, J!executeHTTPRequest, J!Respond
<1>3. CASE J!Cancel \/ J!Interrupt
  BY <1>3 DEF J!Cancel, J!Interrupt
<1>4. CASE J!RunScript \/ J!Leave
  BY <1>4 DEF J!RunScript, J!Leave, J!AlarmIsOver
<1>5. CASE J!PushEnv \/ J!PopEnv \/ J!PutEnv \/ J!Close \/ UNCHANGED jsVars
  BY <1>5 DEF J!PushEnv, J!PopEnv, J!PutEnv, J!Close, J!KeepGlobals, J!callVars, jsVars
<1> QED
  BY <1>1, <1>2, <1>3, <1>4, <1>5 DEF J!JSNext, J!JSStep

LEMMA GlobalsKeep ==
    ASSUME GlobalsInv, [J!JSNext]_jsVars
    PROVE  GlobalsInv'
<1> USE DEF GlobalsInv
<1>1. CASE J!Evaluate
  <2>1. PICK given \in [Names -> Values \cup {Absent}] :
          LET effective == J!Overlay(env, given) IN
          /\ env' = effective /\ globals' = J!Overlay(own, effective) /\ shadowedValues' = own
          /\ transient' = {n \in Names : effective[n] # Absent}
    BY <1>1 DEF J!Evaluate
  <2>2. UNCHANGED own
    BY <1>1 DEF J!Evaluate
  <2> DEFINE effective == J!Overlay(env, given)
  <2>3. /\ env' = effective /\ shadowedValues' = own
        /\ transient' = {n \in Names : effective[n] # Absent}
        /\ globals' = [n \in Names |-> IF effective[n] # Absent THEN effective[n] ELSE own[n]]
    BY <2>1 DEF J!Overlay
  <2> HIDE DEF effective
  <2>4. own' = J!Uncovered' /\ own' = [n \in Names |-> own'[n]]
    BY <2>2, <2>3 DEF J!Uncovered
  <2>5. globals' = J!Overlay(own, env)' /\ globals' = [n \in Names |-> globals'[n]]
    BY <2>2, <2>3 DEF J!Overlay
  <2> QED
    BY <2>4, <2>5
<1>2. CASE J!Assign
  BY <1>2 DEF J!Assign, J!Uncovered
<1>3. CASE J!executeHTTPRequest \/ J!Respond \/ J!RunScript \/ J!Cancel \/ J!Interrupt \/ J!Close
  BY <1>3 DEF J!executeHTTPRequest, J!Respond, J!RunScript, J!Cancel, J!Interrupt, J!Close,
    J!scopeVars, J!callVars, J!Uncovered, J!Overlay
<1>4. CASE J!Leave \/ J!PushEnv \/ J!PopEnv \/ J!PutEnv \/ UNCHANGED jsVars
  BY <1>4 DEF J!Leave, J!PushEnv, J!PopEnv, J!PutEnv, J!KeepGlobals, J!callVars, jsVars,
    J!Uncovered, J!Overlay
<1> QED
  BY <1>1, <1>2, <1>3, <1>4 DEF J!JSNext, J!JSStep

\* The end of one evaluation's context never interrupts another evaluation, however
\* late the goroutine that interrupts gets to run (runtime.go).
THEOREM OwnInterruptsOnly == Spec => []InterruptHitsOwnEvaluation
<1>1. InterruptInv => InterruptHitsOwnEvaluation
  BY DEF InterruptInv, InterruptHitsOwnEvaluation, J!InterruptHitsOwnEvaluation
<1>2. InterruptInv /\ [Next]_vars => InterruptInv'
  BY InterruptKeeps, ScriptsOnly
<1>3. Init => InterruptInv
  BY ScriptStart, ScriptsOnly
<1> QED
  BY <1>1, <1>2, <1>3, PTL DEF Spec

\* A script finds the environment of its scope, and under every other name what the
\* scripts before it left there, for every set of names and however often a name was
\* laid over, pushed, popped and written since (runtime.go, Evaluate).
THEOREM ScopeSeen == Spec => []ScriptSeesItsScope
<1>1. GlobalsInv => ScriptSeesItsScope
  BY DEF GlobalsInv, ScriptSeesItsScope, J!ScriptSeesItsScope
<1>2. GlobalsInv /\ [Next]_vars => GlobalsInv'
  BY GlobalsKeep, ScriptsOnly
<1>3. Init => GlobalsInv
  BY ScriptStart, ScriptsOnly
<1> QED
  BY <1>1, <1>2, <1>3, PTL DEF Spec
-----------------------------------------------------------------------------
(* start-device                                                            *)

\* A behaviour of the run is one of the command.
LEMMA CommandOnly ==
    /\ Init => S!StartInit
    /\ [Next]_vars => [S!StartNext]_startVars
<1>1. Init => S!StartInit
  BY DEF Init
<1>2. [Next]_vars => [S!StartNext]_startVars
  BY DEF Next, vars, KeepRun, KeepSession, KeepTest, KeepWatch, KeepCache, KeepScript,
         KeepDrivers, KeepFeed
<1> QED
  BY <1>1, <1>2

\* The device the command works on is the one asked for, or was made by it.
Wanted ==
    /\ avd \in Emulators
    /\ args.device \in {avd, NoName} \/ (args.platform = "ios" /\ args.create)

\* From the time a device is chosen it stays the same; whoever answers a look is that
\* device; and the last two answers of a look are given by a device that is ready.
StartInv ==
    /\ args \in S!Args
    /\ place \in {"parse", "create", "list", "boot", "launch", "wait", "locale", "invalid", "failed", "ok"}
    /\ DOMAIN power = Emulators /\ DOMAIN locale = Emulators
    /\ \A n \in Emulators : power[n] = "ready" => n \in wasReady
    /\ place = "create" => args.create
    /\ place = "list" => args.device = NoName
    /\ place \in {"parse", "create", "list"} => serial = NoName
    /\ place \in {"boot", "launch", "wait", "locale", "ok"} => Wanted
    /\ place = "wait" /\ serial # NoName =>
          /\ serial = avd
          /\ "bootanim_stopped" \in seen \/ "package_manager" \in seen => serial \in wasReady
    /\ place \in {"locale", "ok"} => avd \in wasReady
    /\ place \in {"boot", "launch"} => serial = NoName
    /\ place = "ok" /\ args.locale # NoLocale => locale[avd] = args.locale

LEMMA CommandStart == S!StartInit => StartInv
  BY DEF S!StartInit, StartInv, Wanted

LEMMA CommandKeeps ==
    ASSUME StartInv, [S!StartNext]_startVars
    PROVE  StartInv'
<1> USE DEF StartInv, Wanted, S!Go, S!Fail, S!Devices
<1>1. CASE S!Parse
  BY <1>1 DEF S!Parse, S!Sound, S!Args
<1>2. CASE S!Create
  BY <1>2 DEF S!Create, S!Creatable, S!Args
<1>3. CASE S!ListAVDs
  BY <1>3 DEF S!ListAVDs
<1>4. CASE S!Boot \/ S!Launch
  BY <1>4 DEF S!Boot, S!Launch, S!ComesUp
<1>5. CASE S!BootStatus \/ S!LookUp \/ S!LookFails \/ S!DeadlinePasses
  BY <1>5 DEF S!BootStatus, S!LookUp, S!LookFails, S!DeadlinePasses, S!Found, S!NameMatches
<1>6. CASE S!Ask
  <2>1. PICK k \in DOMAIN S!Questions :
          \/ /\ S!Answers(serial, S!Questions[k])
             /\ seen' = seen \cup {S!Questions[k]}
             /\ IF S!DeviceReady(seen') THEN place' = "locale" /\ serial' = NoName
                                        ELSE UNCHANGED <<place, serial>>
          \/ seen' = {} /\ serial' = NoName /\ UNCHANGED place
    BY <1>6 DEF S!Ask
  <2>2. /\ place = "wait" /\ serial # NoName /\ serial = avd /\ avd \in Emulators
        /\ UNCHANGED <<args, avd, late, power, locale, wasReady>>
    BY <1>6 DEF S!Ask
  <2>3. CASE seen' = {} /\ serial' = NoName /\ UNCHANGED place
    BY <2>2, <2>3
  <2>4. CASE S!Answers(serial, S!Questions[k]) /\ seen' = seen \cup {S!Questions[k]}
    <3>1. "bootanim_stopped" \in seen' \/ "package_manager" \in seen' => avd \in wasReady
      BY <2>2, <2>4 DEF S!Answers
    <3>2. S!DeviceReady(seen') => avd \in wasReady
      BY <3>1 DEF S!DeviceReady
    <3> QED
      BY <2>1, <2>2, <2>3, <3>1, <3>2
  <2> QED
    BY <2>1, <2>3, <2>4
<1>7. CASE S!Configure
  BY <1>7 DEF S!Configure, S!Found, S!NameMatches
<1>8. CASE \E n \in Emulators : S!Progresses(n) \/ S!GoesDown(n)
  BY <1>8 DEF S!Progresses, S!GoesDown, S!Follows, S!Ends, S!Up
<1>9. CASE UNCHANGED startVars
  BY <1>9 DEF startVars
<1> QED
  BY <1>1, <1>2, <1>3, <1>4, <1>5, <1>6, <1>7, <1>8, <1>9 DEF S!StartNext, S!StartStep

\* What start-device reports as started has been ready, as the device that was asked
\* for or made, with the locale asked for, whatever else runs on the host and comes
\* and goes meanwhile (startdevice.go).
THEOREM ReadyWhenStarted == Spec => []StartedIsReady
<1>1. StartInv => StartedIsReady
  BY DEF StartInv, Wanted, StartedIsReady, S!StartedIsReady
<1>2. StartInv /\ [Next]_vars => StartInv'
  BY CommandKeeps, CommandOnly
<1>3. Init => StartInv
  BY CommandStart, CommandOnly
<1> QED
  BY <1>1, <1>2, <1>3, PTL DEF Spec
-----------------------------------------------------------------------------
(* The managed runner of a simulator                                       *)

\* A behaviour of the run is one of the drivers.
LEMMA DriversOnly ==
    /\ Init => D!DriversInit
    /\ [Next]_vars => [D!DriversNext]_driverVars
<1>1. Init => D!DriversInit
  BY DEF Init
<1>2. [Next]_vars => [D!DriversNext]_driverVars
  BY DEF Next, vars, KeepRun, KeepSession, KeepTest, KeepWatch, KeepCache, KeepScript,
         KeepStart, KeepFeed
<1> QED
  BY <1>1, <1>2

\* The one value of the exit channel is sent after the exit is latched, so as long as
\* the exit is not both latched and sent the channel is empty; it is received only by
\* the wait for the runner and by the stop, and a stop that finds the latch unset
\* has its value still to come.
RunnerInv ==
    /\ child \in {"off", "running", "gone", "latched", "reported"}
    /\ child # "reported" => done = "empty"
    /\ child = "reported" => done \in {"full", "taken"}
    /\ at \in {"new", "probe", "status"} => child = "off"
    /\ at \in {"stopWait", "closeWait"} => done # "taken"

LEMMA RunnerKeeps ==
    ASSUME platform = "simulator" => RunnerInv, [D!DriversNext]_driverVars
    PROVE  (platform = "simulator" => RunnerInv)'
<1> SUFFICES ASSUME platform = "simulator", RunnerInv
             PROVE  RunnerInv'
  BY DEF D!DriversNext, driverVars, D!KeepAndroid, D!KeepRunner, D!KeepHardware, D!KeepWeb,
    D!KeepPage, D!KeepRun
<1> USE DEF RunnerInv, D!Runner!runnerVars
<1>1. CASE D!Runner!Prepare \/ D!Runner!AskOperator \/ D!Runner!Probe \/ D!Runner!StartFails
  BY <1>1 DEF D!Runner!Prepare, D!Runner!AskOperator, D!Runner!Probe, D!Runner!StartFails
<1>2. CASE D!Runner!Start \/ D!Runner!RunnerAnswers \/ D!Runner!AwaitFails \/ D!Runner!Retry
  BY <1>2 DEF D!Runner!Start, D!Runner!RunnerAnswers, D!Runner!AwaitFails, D!Runner!Retry
<1>3. CASE D!Runner!CloseDriver \/ D!Runner!SignalChild \/ D!Runner!WaitForChild \/ D!Runner!RemoveLogs
  BY <1>3 DEF D!Runner!CloseDriver, D!Runner!SignalChild, D!Runner!WaitForChild, D!Runner!RemoveLogs
<1>4. CASE D!Runner!ChildServes \/ D!Runner!ChildExits \/ D!Runner!ChildReported
  BY <1>4 DEF D!Runner!ChildServes, D!Runner!ChildExits, D!Runner!ChildReported, D!Runner!LatchFirst
<1>5. CASE D!Runner!Stranger \/ D!Runner!ContextEnds \/ UNCHANGED driverVars
  BY <1>5 DEF D!Runner!Stranger, D!Runner!ContextEnds, driverVars
<1> QED
  BY <1>1, <1>2, <1>3, <1>4, <1>5 DEF D!DriversNext, D!Runner!Next, D!Runner!Step

\* While a runner is stopped nobody waits for an exit that was received before
\* (managed_runner.go, stopRunnerProcess), whenever the runner dies.
THEOREM NoWaitForTheDead == Spec => []StopNeverWaitsForTheDead
<1> DEFINE Inv == platform = "simulator" => RunnerInv
<1>1. Inv => StopNeverWaitsForTheDead
  BY DEF RunnerInv, StopNeverWaitsForTheDead, D!StopNeverWaitsForTheDead
<1>2. Inv /\ [Next]_vars => Inv'
  BY RunnerKeeps, DriversOnly
<1>3. Init => Inv
  BY DriversOnly DEF D!DriversInit, RunnerInv, D!Runner!Init, D!Android!Init, D!Hardware!Init,
     D!Web!Init
<1> QED
  BY <1>1, <1>2, <1>3, PTL DEF Spec
-----------------------------------------------------------------------------
(* The drivers implement their contract                                    *)

\* What a driver made and has not answered for: neither gone nor tried to remove.
Owed == held \ (tried \cup doubt)

\* The resources a driver may hold, or owe, at each step: Open and Close take them
\* back in an order that leaves none behind.  A driver that does not manage its agent,
\* runner or browser makes none.
AndroidHolds ==
    /\ held \subseteq D!Android!Resources /\ tried \subseteq D!Android!Resources
    /\ doubt \subseteq D!Android!Resources
AndroidKinds ==
    /\ ~managed => /\ held \cap {"app", "test", "agent"} = {}
                   /\ at \in {"new", "forwardOnly", "dial", "undialled", "open", "attach", "dialPage",
                             "undialPage", "unforwardPage", "closePage", "closeAgent", "closeForward",
                             "failed", "closed"}
    /\ at \in {"forwardOnly", "dial", "undialled"} => ~managed
    /\ at = "new" => child = "off"
AndroidOwes ==
    /\ at \in {"new", "uninstallApp", "uninstallTest", "installApp", "forwardOnly"} => held = {}
    /\ at = "installTest" => Owed \subseteq {"app"}
    /\ at \in {"undoWait", "failed", "closed"} => Owed = {}
    /\ at \in {"allowMock", "forward", "undoApp"} => Owed \subseteq {"app", "test"}
    /\ at \in {"instrument", "undoForward"} => Owed \subseteq {"app", "test", "forward"}
    /\ at = "await" => Owed \subseteq {"app", "test", "forward", "agent"}
    /\ at = "undoTest" => Owed \subseteq {"test"}
    /\ at \in {"dial", "undialled"} => Owed \subseteq {"forward"}
    /\ at \in {"attach", "dialPage", "undialPage"} => "page" \notin held
    /\ at \in {"open", "attach"} /\ "page" \notin held => "pageForward" \notin Owed
    /\ at \in {"closePage", "closeAgent"} => {"conn", "page"} \cap Owed = {}
    /\ at = "closeAgent" => "pageForward" \notin Owed
    /\ at = "closeForward" => Owed \subseteq {"app", "test", "forward"}
    /\ at = "closeApp" => Owed \subseteq {"app", "test"}
    /\ at = "closeTest" => Owed \subseteq {"test"}
AndroidInv == AndroidHolds /\ AndroidKinds /\ AndroidOwes

SimulatorInv ==
    /\ held \subseteq D!Runner!Resources /\ tried \subseteq D!Runner!Resources
    /\ at = "new" => child = "off"
    /\ ~managed => held = {} /\ at \in {"new", "status", "open", "failed", "closed"}
    /\ at \in {"new", "probe", "status"} => held = {}
    /\ at \in {"attempt", "retry"} => held \subseteq tried
    /\ at \in {"stopWait", "stopLogs", "closeWait", "closeLogs"} => "child" \in tried

HardwareHolds ==
    /\ held \subseteq D!Hardware!Resources /\ tried \subseteq D!Hardware!Resources
HardwareKinds ==
    /\ at = "new" => child = "off"
    /\ ~managed => "runner" \notin held /\ at # "deliver"
    /\ at \in {"new", "tunnel", "enrich", "forward", "ask", "deliver", "await", "open", "closeTools"}
          => ~failing
HardwareOwes ==
    /\ at \in {"new", "tunnel"} => held = {}
    /\ at \in {"enrich", "forward"} => held \subseteq {"tunnel"}
    /\ at \in {"ask", "deliver"} => held \subseteq {"tunnel", "forward"}
    /\ at \in {"await", "stopRunner", "joinRunner"} /\ "location" \in held => ~failing /\ at # "await"
    /\ at \in {"joinRunner", "closeTools", "closeForward", "closeTunnel"} /\ "runner" \in held
          => "runner" \in tried
    /\ at \in {"closeForward", "closeTunnel"} /\ "location" \in held => "location" \in tried
    /\ at = "closeTunnel" /\ "forward" \in held => "forward" \in tried
HardwareInv == HardwareHolds /\ HardwareKinds /\ HardwareOwes

WebHolds ==
    /\ held \subseteq D!Web!Resources /\ tried \subseteq D!Web!Resources
    /\ ~managed => held \subseteq {"conn"}
WebKinds ==
    /\ at = "new" => child = "off" /\ held = {}
    /\ ~managed => at \in {"new", "enable", "open", "kill", "failed", "closed"}
    /\ at \in {"new", "start", "devtools", "attach", "enable", "open"} => ~failing
WebOwes ==
    /\ at = "start" => held \subseteq {"profile"}
    /\ at \in {"devtools", "attach"} => "conn" \notin held
    /\ at \in {"kill", "join", "profile"} /\ "conn" \in held => "conn" \in tried
    /\ at \in {"join", "profile"} /\ "chrome" \in held => "chrome" \in tried
WebInv == WebHolds /\ WebKinds /\ WebOwes

DriverInv ==
    /\ platform \in {"android", "simulator", "hardware", "web", "page", "run"}
    /\ platform = "android" => AndroidInv
    /\ platform = "simulator" => SimulatorInv
    /\ platform = "hardware" => HardwareInv
    /\ platform \in {"web", "page", "run"} => WebInv

LEMMA DriverStart == D!DriversInit => DriverInv /\ D!Contract!Init
<1> SUFFICES ASSUME D!DriversInit PROVE DriverInv /\ D!Contract!Init
  OBVIOUS
<1>1. /\ platform \in {"android", "simulator", "hardware", "web", "page", "run"}
      /\ at = "new" /\ held = {} /\ tried = {} /\ doubt = {} /\ child = "off"
      /\ platform # "android" /\ platform # "simulator" => ~failing
  BY DEF D!DriversInit, D!Android!Init, D!Runner!Init, D!Hardware!Init, D!Web!Init
<1>2. DriverInv
  BY <1>1 DEF DriverInv, AndroidInv, AndroidHolds, AndroidKinds, AndroidOwes, SimulatorInv,
     HardwareInv,
    HardwareHolds, HardwareKinds, HardwareOwes, WebInv, WebHolds, WebKinds, WebOwes, Owed
<1>3. D!Contract!Init
  BY <1>1 DEF D!Contract!Init, D!Phase, D!Android!Phase, D!Runner!Phase, D!Hardware!Phase,
    D!Web!Phase, D!Android!Answered
<1> QED
  BY <1>2, <1>3

LEMMA SimulatorKeeps ==
    ASSUME SimulatorInv, D!Runner!Next, D!KeepRunner
    PROVE  SimulatorInv'
<1> USE DEF SimulatorInv, D!Runner!Resources, D!Runner!runnerVars
<1>1. CASE D!Runner!Prepare
  BY <1>1 DEF D!Runner!Prepare
<1>2. CASE D!Runner!AskOperator
  BY <1>2 DEF D!Runner!AskOperator
<1>3. CASE D!Runner!Probe
  BY <1>3 DEF D!Runner!Probe
<1>4. CASE D!Runner!StartFails
  BY <1>4 DEF D!Runner!StartFails
<1>5. CASE D!Runner!Start
  BY <1>5 DEF D!Runner!Start
<1>6. CASE D!Runner!RunnerAnswers
  BY <1>6 DEF D!Runner!RunnerAnswers
<1>7. CASE D!Runner!AwaitFails
  BY <1>7 DEF D!Runner!AwaitFails
<1>8. CASE D!Runner!Retry
  BY <1>8 DEF D!Runner!Retry
<1>9. CASE D!Runner!CloseDriver
  BY <1>9 DEF D!Runner!CloseDriver
<1>10. CASE D!Runner!SignalChild
  BY <1>10 DEF D!Runner!SignalChild
<1>11. CASE D!Runner!WaitForChild
  BY <1>11 DEF D!Runner!WaitForChild
<1>12. CASE D!Runner!RemoveLogs
  BY <1>12 DEF D!Runner!RemoveLogs
<1>13. CASE D!Runner!ChildServes
  BY <1>13 DEF D!Runner!ChildServes
<1>14. CASE D!Runner!ChildExits
  BY <1>14 DEF D!Runner!ChildExits
<1>15. CASE D!Runner!ChildReported
  BY <1>15 DEF D!Runner!ChildReported, D!Runner!LatchFirst
<1>16. CASE D!Runner!Stranger
  BY <1>16 DEF D!Runner!Stranger
<1>17. CASE D!Runner!ContextEnds
  BY <1>17 DEF D!Runner!ContextEnds
<1> QED
  BY <1>1, <1>2, <1>3, <1>4, <1>5, <1>6, <1>7, <1>8, <1>9, <1>10, <1>11, <1>12, <1>13, <1>14, <1>15,
    <1>16, <1>17 DEF D!Runner!Next, D!Runner!Step

LEMMA SimulatorImplements ==
    ASSUME platform = "simulator", SimulatorInv, D!Runner!Next, D!KeepRunner
    PROVE  D!Contract!Next \/ UNCHANGED D!Contract!vars
<1>1. platform' = platform
  BY DEF D!KeepRunner
<1>2. D!Phase = D!Runner!Phase /\ D!Phase' = D!Runner!Phase'
  BY <1>1 DEF D!Phase
<1> USE <1>1, <1>2 DEF SimulatorInv, D!Runner!Resources, D!Runner!runnerVars, D!Contract!vars,
    D!Contract!Next, D!Contract!Opening, D!Contract!Opened, D!Contract!Use, D!Contract!Closing,
    D!Contract!Fail, D!Contract!Closed, D!Contract!Outlived, D!Runner!Phase, D!Runner!Closing
<1>3. CASE D!Runner!Prepare
  BY <1>3 DEF D!Runner!Prepare
<1>4. CASE D!Runner!AskOperator
  BY <1>4 DEF D!Runner!AskOperator
<1>5. CASE D!Runner!Probe
  BY <1>5 DEF D!Runner!Probe
<1>6. CASE D!Runner!StartFails
  BY <1>6 DEF D!Runner!StartFails
<1>7. CASE D!Runner!Start
  BY <1>7 DEF D!Runner!Start
<1>8. CASE D!Runner!RunnerAnswers
  BY <1>8 DEF D!Runner!RunnerAnswers
<1>9. CASE D!Runner!AwaitFails
  BY <1>9 DEF D!Runner!AwaitFails
<1>10. CASE D!Runner!Retry
  BY <1>10 DEF D!Runner!Retry
<1>11. CASE D!Runner!CloseDriver
  BY <1>11 DEF D!Runner!CloseDriver
<1>12. CASE D!Runner!SignalChild
  BY <1>12 DEF D!Runner!SignalChild
<1>13. CASE D!Runner!WaitForChild
  BY <1>13 DEF D!Runner!WaitForChild
<1>14. CASE D!Runner!RemoveLogs
  BY <1>14 DEF D!Runner!RemoveLogs
<1>15. CASE D!Runner!ChildServes
  BY <1>15 DEF D!Runner!ChildServes
<1>16. CASE D!Runner!ChildExits
  BY <1>16 DEF D!Runner!ChildExits
<1>17. CASE D!Runner!ChildReported
  BY <1>17 DEF D!Runner!ChildReported, D!Runner!LatchFirst
<1>18. CASE D!Runner!Stranger
  BY <1>18 DEF D!Runner!Stranger
<1>19. CASE D!Runner!ContextEnds
  BY <1>19 DEF D!Runner!ContextEnds
<1> QED
  BY <1>3, <1>4, <1>5, <1>6, <1>7, <1>8, <1>9, <1>10, <1>11, <1>12, <1>13, <1>14, <1>15, <1>16,
    <1>17, <1>18, <1>19 DEF D!Runner!Next, D!Runner!Step

LEMMA HardwareKeeps ==
    ASSUME HardwareInv, D!Hardware!Next, D!KeepHardware
    PROVE  HardwareInv'
<1> USE DEF HardwareInv, HardwareHolds, HardwareKinds, HardwareOwes, D!Hardware!Resources,
    D!Hardware!Make, D!Hardware!Drop, D!Hardware!Goes
<1>1. CASE D!Hardware!Resolve
  BY <1>1 DEF D!Hardware!Resolve
<1>2. CASE D!Hardware!StartTunnel
  <2>1. HardwareHolds'
    BY <1>2 DEF D!Hardware!StartTunnel
  <2>2. HardwareKinds'
    BY <1>2 DEF D!Hardware!StartTunnel
  <2>3. HardwareOwes'
    BY <1>2 DEF D!Hardware!StartTunnel
  <2> QED
    BY <2>1, <2>2, <2>3
<1>3. CASE D!Hardware!Enrich
  BY <1>3 DEF D!Hardware!Enrich
<1>4. CASE D!Hardware!Forward
  <2>1. HardwareHolds'
    BY <1>4 DEF D!Hardware!Forward
  <2>2. HardwareKinds'
    BY <1>4 DEF D!Hardware!Forward
  <2>3. HardwareOwes'
    BY <1>4 DEF D!Hardware!Forward
  <2> QED
    BY <2>1, <2>2, <2>3
<1>5. CASE D!Hardware!AskOperator
  BY <1>5 DEF D!Hardware!AskOperator
<1>6. CASE D!Hardware!Deliver
  <2>1. HardwareHolds'
    BY <1>6 DEF D!Hardware!Deliver
  <2>2. HardwareKinds'
    BY <1>6 DEF D!Hardware!Deliver
  <2>3. HardwareOwes'
    BY <1>6 DEF D!Hardware!Deliver
  <2> QED
    BY <2>1, <2>2, <2>3
<1>7. CASE D!Hardware!Await
  BY <1>7 DEF D!Hardware!Await
<1>8. CASE D!Hardware!SetLocation
  BY <1>8 DEF D!Hardware!SetLocation
<1>9. CASE D!Hardware!Close
  BY <1>9 DEF D!Hardware!Close
<1>10. CASE D!Hardware!CancelRunner
  BY <1>10 DEF D!Hardware!CancelRunner
<1>11. CASE D!Hardware!JoinRunner
  BY <1>11 DEF D!Hardware!JoinRunner
<1>12. CASE D!Hardware!CloseTools
  BY <1>12 DEF D!Hardware!CloseTools
<1>13. CASE D!Hardware!CloseForward
  BY <1>13 DEF D!Hardware!CloseForward
<1>14. CASE D!Hardware!CloseTunnel
  BY <1>14 DEF D!Hardware!CloseTunnel
<1>15. CASE D!Hardware!RunnerEnds
  BY <1>15 DEF D!Hardware!RunnerEnds
<1>16. CASE D!Hardware!ContextEnds
  BY <1>16 DEF D!Hardware!ContextEnds
<1> QED
  BY <1>1, <1>2, <1>3, <1>4, <1>5, <1>6, <1>7, <1>8, <1>9, <1>10, <1>11, <1>12, <1>13, <1>14, <1>15,
    <1>16 DEF D!Hardware!Next, D!Hardware!Step

LEMMA HardwareImplements ==
    ASSUME platform = "hardware", HardwareInv, D!Hardware!Next, D!KeepHardware
    PROVE  D!Contract!Next \/ UNCHANGED D!Contract!vars
<1>1. platform' = platform
  BY DEF D!KeepHardware
<1>2. D!Phase = D!Hardware!Phase /\ D!Phase' = D!Hardware!Phase'
  BY <1>1 DEF D!Phase
<1> USE <1>1, <1>2 DEF HardwareInv, HardwareHolds, HardwareKinds, HardwareOwes,
    D!Hardware!Resources, D!Hardware!Make, D!Hardware!Drop, D!Hardware!Goes, D!Contract!vars,
    D!Contract!Next, D!Contract!Opening, D!Contract!Opened, D!Contract!Use, D!Contract!Closing,
    D!Contract!Fail, D!Contract!Closed, D!Contract!Outlived, D!Hardware!Phase
<1>3. CASE D!Hardware!Resolve
  BY <1>3 DEF D!Hardware!Resolve
<1>4. CASE D!Hardware!StartTunnel
  BY <1>4 DEF D!Hardware!StartTunnel
<1>5. CASE D!Hardware!Enrich
  BY <1>5 DEF D!Hardware!Enrich
<1>6. CASE D!Hardware!Forward
  BY <1>6 DEF D!Hardware!Forward
<1>7. CASE D!Hardware!AskOperator
  BY <1>7 DEF D!Hardware!AskOperator
<1>8. CASE D!Hardware!Deliver
  BY <1>8 DEF D!Hardware!Deliver
<1>9. CASE D!Hardware!Await
  BY <1>9 DEF D!Hardware!Await
<1>10. CASE D!Hardware!SetLocation
  BY <1>10 DEF D!Hardware!SetLocation
<1>11. CASE D!Hardware!Close
  BY <1>11 DEF D!Hardware!Close
<1>12. CASE D!Hardware!CancelRunner
  BY <1>12 DEF D!Hardware!CancelRunner
<1>13. CASE D!Hardware!JoinRunner
  BY <1>13 DEF D!Hardware!JoinRunner
<1>14. CASE D!Hardware!CloseTools
  BY <1>14 DEF D!Hardware!CloseTools
<1>15. CASE D!Hardware!CloseForward
  BY <1>15 DEF D!Hardware!CloseForward
<1>16. CASE D!Hardware!CloseTunnel
  BY <1>16 DEF D!Hardware!CloseTunnel
<1>17. CASE D!Hardware!RunnerEnds
  BY <1>17 DEF D!Hardware!RunnerEnds
<1>18. CASE D!Hardware!ContextEnds
  BY <1>18 DEF D!Hardware!ContextEnds
<1> QED
  BY <1>3, <1>4, <1>5, <1>6, <1>7, <1>8, <1>9, <1>10, <1>11, <1>12, <1>13, <1>14, <1>15, <1>16,
    <1>17, <1>18 DEF D!Hardware!Next, D!Hardware!Step

LEMMA WebKeeps ==
    ASSUME WebInv, D!Web!Next
    PROVE  WebInv'
<1> USE DEF WebInv, WebHolds, WebKinds, WebOwes, D!Web!Resources, D!Web!Ended
<1>1. CASE D!Web!MakeProfile
  BY <1>1 DEF D!Web!MakeProfile
<1>2. CASE D!Web!StartChrome
  BY <1>2 DEF D!Web!StartChrome
<1>3. CASE D!Web!DevToolsAnswer
  BY <1>3 DEF D!Web!DevToolsAnswer
<1>4. CASE D!Web!DevToolsFail
  BY <1>4 DEF D!Web!DevToolsFail, D!Web!Received
<1>5. CASE D!Web!Attach
  <2>1. WebHolds'
    BY <1>5 DEF D!Web!Attach
  <2>2. WebKinds'
    BY <1>5 DEF D!Web!Attach
  <2>3. WebOwes'
    BY <1>5 DEF D!Web!Attach
  <2> QED
    BY <2>1, <2>2, <2>3
<1>6. CASE D!Web!Enable
  <2>1. WebHolds'
    BY <1>6 DEF D!Web!Enable
  <2>2. WebKinds'
    BY <1>6 DEF D!Web!Enable
  <2>3. WebOwes'
    BY <1>6 DEF D!Web!Enable
  <2> QED
    BY <2>1, <2>2, <2>3
<1>7. CASE D!Web!Close
  BY <1>7 DEF D!Web!Close
<1>8. CASE D!Web!Kill
  <2>1. WebHolds'
    BY <1>8 DEF D!Web!Kill
  <2>2. WebKinds'
    BY <1>8 DEF D!Web!Kill
  <2>3. WebOwes'
    BY <1>8 DEF D!Web!Kill
  <2> QED
    BY <2>1, <2>2, <2>3
<1>9. CASE D!Web!Join
  BY <1>9 DEF D!Web!Join
<1>10. CASE D!Web!RemoveProfile
  BY <1>10 DEF D!Web!RemoveProfile
<1>11. CASE D!Web!ChromeExits
  BY <1>11 DEF D!Web!ChromeExits
<1>12. CASE D!Web!ContextEnds
  BY <1>12 DEF D!Web!ContextEnds
<1> QED
  BY <1>1, <1>2, <1>3, <1>4, <1>5, <1>6, <1>7, <1>8, <1>9, <1>10, <1>11, <1>12 DEF D!Web!Next,
     D!Web!Step

LEMMA WebImplements ==
    ASSUME platform = "web", WebInv, D!Web!Next, D!KeepWeb
    PROVE  D!Contract!Next \/ UNCHANGED D!Contract!vars
<1>1. platform' = platform
  BY DEF D!KeepWeb
<1>2. D!Phase = D!Web!Phase /\ D!Phase' = D!Web!Phase'
  BY <1>1 DEF D!Phase
<1> USE <1>1, <1>2 DEF WebInv, WebHolds, WebKinds, WebOwes, D!Web!Resources, D!Web!Ended,
    D!Contract!vars, D!Contract!Next, D!Contract!Opening, D!Contract!Opened, D!Contract!Use,
    D!Contract!Closing, D!Contract!Fail, D!Contract!Closed, D!Contract!Outlived, D!Web!Phase
<1>3. CASE D!Web!MakeProfile
  BY <1>3 DEF D!Web!MakeProfile
<1>4. CASE D!Web!StartChrome
  BY <1>4 DEF D!Web!StartChrome
<1>5. CASE D!Web!DevToolsAnswer
  BY <1>5 DEF D!Web!DevToolsAnswer
<1>6. CASE D!Web!DevToolsFail
  BY <1>6 DEF D!Web!DevToolsFail, D!Web!Received
<1>7. CASE D!Web!Attach
  BY <1>7 DEF D!Web!Attach
<1>8. CASE D!Web!Enable
  BY <1>8 DEF D!Web!Enable
<1>9. CASE D!Web!Close
  BY <1>9 DEF D!Web!Close
<1>10. CASE D!Web!Kill
  <2>1. CASE managed
    BY <1>10, <2>1 DEF D!Web!Kill
  <2>2. CASE ~managed
    <3>1. held' = held /\ tried' = tried /\ held \subseteq tried /\ at = "kill" /\ failing' = failing
      BY <1>10, <2>2 DEF D!Web!Kill
    <3>2. at' = IF failing THEN "failed" ELSE "closed"
      BY <1>10, <2>2 DEF D!Web!Kill
    <3> QED
      BY <3>1, <3>2
  <2> QED
    BY <2>1, <2>2
<1>11. CASE D!Web!Join
  BY <1>11 DEF D!Web!Join
<1>12. CASE D!Web!RemoveProfile
  BY <1>12 DEF D!Web!RemoveProfile
<1>13. CASE D!Web!ChromeExits
  BY <1>13 DEF D!Web!ChromeExits
<1>14. CASE D!Web!ContextEnds
  BY <1>14 DEF D!Web!ContextEnds
<1> QED
  BY <1>3, <1>4, <1>5, <1>6, <1>7, <1>8, <1>9, <1>10, <1>11, <1>12, <1>13, <1>14 DEF D!Web!Next,
     D!Web!Step

LEMMA AndroidKeeps ==
    ASSUME AndroidInv, D!Android!Next, D!KeepAndroid
    PROVE  AndroidInv'
<1> USE DEF AndroidInv, AndroidHolds, AndroidKinds, AndroidOwes, D!Android!Resources,
    D!Android!Make, D!Android!Drop, D!Android!ErrsTo, Owed
<1>1. CASE D!Android!OpenManaged
  BY <1>1 DEF D!Android!OpenManaged
<1>2. CASE D!Android!UninstallFirst
  BY <1>2 DEF D!Android!UninstallFirst
<1>3. CASE D!Android!Install
  <2>1. AndroidHolds'
    BY <1>3 DEF D!Android!Install, D!Android!InstallAgent
  <2>2. AndroidKinds'
    BY <1>3 DEF D!Android!Install, D!Android!InstallAgent
  <2>3. AndroidOwes'
    BY <1>3 DEF D!Android!Install, D!Android!InstallAgent
  <2> QED
    BY <2>1, <2>2, <2>3
<1>4. CASE D!Android!AllowMock
  BY <1>4 DEF D!Android!AllowMock
<1>5. CASE D!Android!ForwardAdd
  BY <1>5 DEF D!Android!ForwardAdd, D!Android!ForwardFailsTo
<1>6. CASE D!Android!Instrument
  <2>1. AndroidHolds'
    BY <1>6 DEF D!Android!Instrument
  <2>2. AndroidKinds'
    BY <1>6 DEF D!Android!Instrument
  <2>3. AndroidOwes'
    BY <1>6 DEF D!Android!Instrument
  <2> QED
    BY <2>1, <2>2, <2>3
<1>7. CASE D!Android!InstrumentExits
  BY <1>7 DEF D!Android!InstrumentExits
<1>8. CASE D!Android!AgentAnswers
  BY <1>8 DEF D!Android!AgentAnswers
<1>9. CASE D!Android!SeeCleanExit
  BY <1>9 DEF D!Android!SeeCleanExit
<1>10. CASE D!Android!AwaitFails
  BY <1>10 DEF D!Android!AwaitFails
<1>11. CASE D!Android!Undo
  BY <1>11 DEF D!Android!Undo
<1>12. CASE D!Android!UndoWait
  BY <1>12 DEF D!Android!UndoWait
<1>13. CASE D!Android!OpenOperator
  BY <1>13 DEF D!Android!OpenOperator
<1>14. CASE D!Android!ForwardOnly
  <2>1. AndroidHolds'
    BY <1>14 DEF D!Android!ForwardOnly
  <2>2. AndroidKinds'
    BY <1>14 DEF D!Android!ForwardOnly
  <2>3. AndroidOwes'
    BY <1>14 DEF D!Android!ForwardOnly
  <2> QED
    BY <2>1, <2>2, <2>3
<1>15. CASE D!Android!DialAgent
  BY <1>15 DEF D!Android!DialAgent
<1>16. CASE D!Android!Undial
  BY <1>16 DEF D!Android!Undial
<1>17. CASE D!Android!EnableDevTools
  BY <1>17 DEF D!Android!EnableDevTools
<1>18. CASE D!Android!AttachDevTools
  <2>1. AndroidHolds'
    BY <1>18 DEF D!Android!AttachDevTools
  <2>2. AndroidKinds'
    BY <1>18 DEF D!Android!AttachDevTools
  <2>3. AndroidOwes'
    BY <1>18 DEF D!Android!AttachDevTools
  <2> QED
    BY <2>1, <2>2, <2>3
<1>19. CASE D!Android!DialWebView
  BY <1>19 DEF D!Android!DialWebView
<1>20. CASE D!Android!UndialPage
  BY <1>20 DEF D!Android!UndialPage
<1>21. CASE D!Android!DisableDevTools
  BY <1>21 DEF D!Android!DisableDevTools
<1>22. CASE D!Android!UnforwardPage
  BY <1>22 DEF D!Android!UnforwardPage
<1>23. CASE D!Android!CloseDriver
  BY <1>23 DEF D!Android!CloseDriver
<1>24. CASE D!Android!ClosePage
  BY <1>24 DEF D!Android!ClosePage
<1>25. CASE D!Android!CloseInstrumentation
  BY <1>25 DEF D!Android!CloseInstrumentation
<1>26. CASE D!Android!CloseForward
  BY <1>26 DEF D!Android!CloseForward
<1>27. CASE D!Android!CloseAgent
  BY <1>27 DEF D!Android!CloseAgent
<1>28. CASE D!Android!ContextEnds
  BY <1>28 DEF D!Android!ContextEnds
<1> QED
  BY <1>1, <1>2, <1>3, <1>4, <1>5, <1>6, <1>7, <1>8, <1>9, <1>10, <1>11, <1>12, <1>13, <1>14, <1>15,
    <1>16, <1>17, <1>18, <1>19, <1>20, <1>21, <1>22, <1>23, <1>24, <1>25, <1>26, <1>27, <1>28 DEF D!Android!Next, D!Android!Step

LEMMA AndroidImplements ==
    ASSUME platform = "android", AndroidInv, D!Android!Next, D!KeepAndroid
    PROVE  D!Contract!Next \/ UNCHANGED D!Contract!vars
<1>1. platform' = platform
  BY DEF D!KeepAndroid
<1>2. D!Phase = D!Android!Phase /\ D!Phase' = D!Android!Phase'
  BY <1>1 DEF D!Phase
<1> USE <1>1, <1>2 DEF AndroidInv, AndroidHolds, AndroidKinds, AndroidOwes, D!Android!Resources,
    D!Android!Make, D!Android!Drop, D!Android!ErrsTo, Owed, D!Contract!vars, D!Contract!Next,
    D!Contract!Opening, D!Contract!Opened, D!Contract!Use, D!Contract!Closing, D!Contract!Fail,
    D!Contract!Closed, D!Contract!Outlived, D!Android!Phase, D!Android!Answered
<1>3. CASE D!Android!OpenManaged
  BY <1>3 DEF D!Android!OpenManaged
<1>4. CASE D!Android!UninstallFirst
  BY <1>4 DEF D!Android!UninstallFirst
<1>5. CASE D!Android!Install
  BY <1>5 DEF D!Android!Install, D!Android!InstallAgent
<1>6. CASE D!Android!AllowMock
  BY <1>6 DEF D!Android!AllowMock
<1>7. CASE D!Android!ForwardAdd
  BY <1>7 DEF D!Android!ForwardAdd, D!Android!ForwardFailsTo
<1>8. CASE D!Android!Instrument
  BY <1>8 DEF D!Android!Instrument
<1>9. CASE D!Android!InstrumentExits
  BY <1>9 DEF D!Android!InstrumentExits
<1>10. CASE D!Android!AgentAnswers
  BY <1>10 DEF D!Android!AgentAnswers
<1>11. CASE D!Android!SeeCleanExit
  BY <1>11 DEF D!Android!SeeCleanExit
<1>12. CASE D!Android!AwaitFails
  BY <1>12 DEF D!Android!AwaitFails
<1>13. CASE D!Android!Undo
  BY <1>13 DEF D!Android!Undo
<1>14. CASE D!Android!UndoWait
  BY <1>14 DEF D!Android!UndoWait
<1>15. CASE D!Android!OpenOperator
  BY <1>15 DEF D!Android!OpenOperator
<1>16. CASE D!Android!ForwardOnly
  BY <1>16 DEF D!Android!ForwardOnly
<1>17. CASE D!Android!DialAgent
  BY <1>17 DEF D!Android!DialAgent
<1>18. CASE D!Android!Undial
  BY <1>18 DEF D!Android!Undial
<1>19. CASE D!Android!EnableDevTools
  BY <1>19 DEF D!Android!EnableDevTools
<1>20. CASE D!Android!AttachDevTools
  BY <1>20 DEF D!Android!AttachDevTools
<1>21. CASE D!Android!DialWebView
  BY <1>21 DEF D!Android!DialWebView
<1>22. CASE D!Android!UndialPage
  BY <1>22 DEF D!Android!UndialPage
<1>23. CASE D!Android!DisableDevTools
  BY <1>23 DEF D!Android!DisableDevTools
<1>24. CASE D!Android!UnforwardPage
  BY <1>24 DEF D!Android!UnforwardPage
<1>25. CASE D!Android!CloseDriver
  BY <1>25 DEF D!Android!CloseDriver
<1>26. CASE D!Android!ClosePage
  BY <1>26 DEF D!Android!ClosePage
<1>27. CASE D!Android!CloseInstrumentation
  BY <1>27 DEF D!Android!CloseInstrumentation
<1>28. CASE D!Android!CloseForward
  BY <1>28 DEF D!Android!CloseForward
<1>29. CASE D!Android!CloseAgent
  BY <1>29 DEF D!Android!CloseAgent
<1>30. CASE D!Android!ContextEnds
  BY <1>30 DEF D!Android!ContextEnds
<1> QED
  BY <1>3, <1>4, <1>5, <1>6, <1>7, <1>8, <1>9, <1>10, <1>11, <1>12, <1>13, <1>14, <1>15, <1>16,
    <1>17, <1>18, <1>19, <1>20, <1>21, <1>22, <1>23, <1>24, <1>25, <1>26, <1>27, <1>28, <1>29, <1>30 DEF D!Android!Next, D!Android!Step

LEMMA DriverKeeps ==
    ASSUME DriverInv, [D!DriversNext]_driverVars
    PROVE  DriverInv' /\ [D!Contract!Next]_D!Contract!vars
<1>1. CASE platform = "android" /\ D!Android!Next /\ D!KeepAndroid
  BY <1>1, AndroidKeeps, AndroidImplements DEF DriverInv, D!KeepAndroid
<1>2. CASE platform = "simulator" /\ D!Runner!Next /\ D!KeepRunner
  BY <1>2, SimulatorKeeps, SimulatorImplements DEF DriverInv, D!KeepRunner
<1>3. CASE platform = "hardware" /\ D!Hardware!Next /\ D!KeepHardware
  BY <1>3, HardwareKeeps, HardwareImplements DEF DriverInv, D!KeepHardware
<1>4. CASE platform = "web" /\ D!Web!Next /\ D!KeepWeb
  BY <1>4, WebKeeps, WebImplements DEF DriverInv, D!KeepWeb
<1>5. CASE UNCHANGED <<platform, at, held, tried, ctx, managed, child, failing, doubt>>
  <2>1. DriverInv'
    BY <1>5 DEF DriverInv, AndroidInv, AndroidHolds, AndroidKinds, AndroidOwes, SimulatorInv,
      HardwareInv, HardwareHolds, HardwareKinds, HardwareOwes, WebInv, WebHolds, WebKinds, WebOwes, Owed
  <2>2. UNCHANGED D!Contract!vars
    BY <1>5 DEF D!Contract!vars, D!Phase, D!Android!Phase, D!Runner!Phase, D!Runner!Closing,
      D!Hardware!Phase, D!Web!Phase, D!Android!Answered
  <2> QED
    BY <2>1, <2>2
<1>6. CASE \/ D!KeepPage /\ platform = "page"
           \/ D!KeepRun /\ platform = "run"
           \/ UNCHANGED driverVars
  BY <1>5, <1>6 DEF D!KeepPage, D!KeepRun, D!shared, driverVars
<1>7. \/ D!Android!Next /\ platform = "android" /\ D!KeepAndroid
      \/ D!Runner!Next /\ platform = "simulator" /\ D!KeepRunner
      \/ D!Hardware!Next /\ platform = "hardware" /\ D!KeepHardware
      \/ D!Web!Next /\ platform = "web" /\ D!KeepWeb
      \/ D!CdpNext /\ platform = "page" /\ D!KeepPage
      \/ D!CapNext /\ platform = "run" /\ D!KeepRun
      \/ UNCHANGED driverVars
  BY DEF D!DriversNext
<1>8. DriverInv'
  BY <1>1, <1>2, <1>3, <1>4, <1>6, <1>7
<1>9. [D!Contract!Next]_D!Contract!vars
  BY <1>1, <1>2, <1>3, <1>4, <1>6, <1>7
<1> QED
  BY <1>8, <1>9

\* Whatever a driver made by the time Open failed or Close returned is gone, or its
\* removal was called, on every path of the four drivers, whichever step of them
\* fails, whenever the call's context ends and the driver's child dies: each driver
\* implements the contract the device session relies on (internal/android,
\* internal/ios, internal/iosdevice, internal/web).
THEOREM DriversImplementContract == Spec => ImplementsDriverContract
<1>1. Init => DriverInv /\ D!Contract!Init
  BY DriverStart, DriversOnly
<1>2. DriverInv /\ [Next]_vars => DriverInv' /\ [D!Contract!Next]_D!Contract!vars
  BY DriverKeeps, DriversOnly
<1> QED
  BY <1>1, <1>2, PTL DEF Spec, ImplementsDriverContract, D!ImplementsDriverContract, D!Contract!Spec
-----------------------------------------------------------------------------
(* Recordings and logs of a run                                            *)

\* Nothing in flight has a value of its own.
StdioCaptures == [id : Nat, segments : Nat, launched : Nat]
NothingInFlight == NoCapture \notin Recordings \cup Nat \cup StdioCaptures

\* The driver's table holds nothing but what a controller has in flight, one entry of
\* each kind at the most; what runs and was not told to end is in the table.  A log
\* that is not finished belongs to an entry or to the stdio capture, never to nobody.
InFlight ==
    /\ DOMAIN capturing = {"recording", "log"}
    /\ \A e \in table : /\ (e.kind = "recording" /\ e.id \in Recordings) \/ (e.kind = "log" /\ e.id \in Nat)
                        /\ capturing[e.kind] = e.id
    /\ \A e, f \in table : e.kind = f.kind => e = f
    /\ children \ told \subseteq table
Filed ==
    /\ DOMAIN file = Recordings /\ whole \in {NoCapture} \cup Recordings
    /\ \A e \in children \ told : e.kind = "recording" => file[e.id] = "growing"
Logged ==
    /\ starts \in Nat /\ MaxStarts \in Nat /\ DOMAIN logs = 1 .. MaxStarts
    /\ stdio # NoCapture =>
          /\ stdio \in StdioCaptures /\ stdio.segments = stdio.launched
          /\ capturing["log"] = stdio.id /\ \A e \in table : e.kind # "log"
    /\ stdio # NoCapture => target = "simulator"
    /\ target # "hardware" => \A n \in DOMAIN logs :
          \/ logs[n] \in {"none", "whole", "gone"}
          \/ target = "simulator" /\ logs[n] = "unmerged"
          \/ \E e \in table : e.kind = "log" /\ e.n = n
          \/ stdio # NoCapture /\ stdio.id = n
Finished ==
    /\ target # "hardware" => told = {}
    /\ progress \in {"close", "ended"} => capturing["log"] = NoCapture
    /\ progress = "ended" => children \subseteq told
CaptureInv == InFlight /\ Filed /\ Logged /\ Finished

LEMMA CaptureStart ==
    ASSUME NothingInFlight, MaxStarts \in Nat, D!DriversInit
    PROVE  CaptureInv
  BY DEF D!DriversInit, D!CapInit, CaptureInv, InFlight, Filed, Logged, Finished

LEMMA RecordingKeeps ==
    ASSUME NothingInFlight, CaptureInv, NEW name \in Recordings, D!StartScreenRecording(name),
           progress \notin {"close", "ended"}, progress' \notin {"close", "ended"}
    PROVE  CaptureInv'
<1> USE DEF NothingInFlight, StdioCaptures, CaptureInv, InFlight, Filed, Logged, Finished
<1>1. CASE D!Record(name)
  <2> DEFINE e == [kind |-> "recording", id |-> name, n |-> starts + 1]
  <2>1. /\ \A f \in table : f.kind # "recording"
        /\ table' = table \cup {e} /\ children' = children \cup {e} /\ starts' = starts + 1
        /\ capturing' = [capturing EXCEPT !["recording"] = name]
        /\ file' = [file EXCEPT ![name] = "growing"]
        /\ UNCHANGED <<target, whole, told, logs, stdio>>
    BY <1>1 DEF D!StartScreenRecording, D!Idle, D!Record, D!Spawn, D!Entries
  <2>0. e.kind = "recording" /\ e.id = name /\ e.n = starts + 1
    OBVIOUS
  <2> HIDE DEF e
  <2>2. InFlight'
    <3>1. DOMAIN capturing' = {"recording", "log"}
      BY <2>1
    <3>2. \A f \in table' :
            /\ (f.kind = "recording" /\ f.id \in Recordings) \/ (f.kind = "log" /\ f.id \in Nat)
            /\ capturing'[f.kind] = f.id
      BY <2>0, <2>1
    <3>3. \A f, g \in table' : f.kind = g.kind => f = g
      BY <2>0, <2>1
    <3>4. children' \ told' \subseteq table'
      BY <2>1
    <3> QED
      BY <3>1, <3>2, <3>3, <3>4
  <2>3. Filed'
    BY <2>0, <2>1
  <2>4. Logged'
    BY <2>0, <2>1
  <2>5. Finished'
    BY <2>1
  <2> QED
    BY <2>2, <2>3, <2>4, <2>5
<1>2. CASE D!CutFile(name)
  BY <1>2 DEF D!StartScreenRecording, D!Idle, D!CutFile
<1>3. CASE UNCHANGED <<capturing, starts, table, children, file>>
  BY <1>3 DEF D!StartScreenRecording
<1> QED
  BY <1>1, <1>2, <1>3 DEF D!StartScreenRecording

LEMMA StopRecordingKeeps ==
    ASSUME NothingInFlight, CaptureInv, D!StopCurrentRecording,
           progress \notin {"close", "ended"}, progress' \notin {"close", "ended"}
    PROVE  CaptureInv'
<1> USE DEF NothingInFlight, StdioCaptures, CaptureInv, InFlight, Filed, Logged, Finished
<1>1. /\ capturing' = [capturing EXCEPT !["recording"] = NoCapture]
      /\ table' = {f \in table : f.kind # "recording"}
      /\ UNCHANGED <<target, whole, starts, logs, stdio>>
  BY DEF D!StopCurrentRecording, D!Entries
<1>2. /\ DOMAIN file' = Recordings
      /\ target # "hardware" => told' = told
      /\ children' \ told' \subseteq children \ told
      /\ \A f \in children' \ told' : f.kind # "recording"
  <2>1. CASE \E e \in D!Entries("recording", capturing["recording"]) : D!EndRecorder(e)
    BY <2>1 DEF D!Entries, D!EndRecorder, D!LeaveBehind
  <2>2. CASE D!Entries("recording", capturing["recording"]) = {} /\ UNCHANGED <<file, children, told>>
    BY <2>2 DEF D!Entries
  <2> QED
    BY <2>1, <2>2 DEF D!StopCurrentRecording
<1> QED
  BY <1>1, <1>2

LEMMA StopLogKeeps ==
    ASSUME NothingInFlight, CaptureInv, D!StopCurrentLog, progress \notin {"close", "ended"},
           progress' # "ended"
    PROVE  CaptureInv'
<1> USE DEF NothingInFlight, StdioCaptures, CaptureInv, InFlight, Filed, Logged, Finished
<1>1. /\ capturing' = [capturing EXCEPT !["log"] = NoCapture]
      /\ table' = {f \in table : f.kind # "log"}
      /\ UNCHANGED <<target, whole, file, starts>>
  BY DEF D!StopCurrentLog, D!Entries
<1>2. /\ DOMAIN logs' = DOMAIN logs /\ stdio' = NoCapture
      /\ target # "hardware" => told' = told
      /\ children' \ told' \subseteq children \ told
      /\ \A f \in children' \ told' : f.kind # "log"
      /\ target # "hardware" => \A n \in DOMAIN logs :
            logs'[n] \in {"none", "whole", "gone"} \/ (target = "simulator" /\ logs'[n] = "unmerged")
  <2>1. CASE \E e \in D!Entries("log", capturing["log"]) : D!EndLog(e) /\ UNCHANGED stdio
    BY <2>1 DEF D!Entries, D!EndLog, D!LeaveBehind, D!RemovePartial
  <2>2. CASE stdio # NoCapture /\ D!EndStdio /\ UNCHANGED <<children, told>>
    BY <2>2 DEF D!EndStdio
  <2>3. CASE capturing["log"] = NoCapture /\ UNCHANGED <<children, told, logs, stdio>>
    BY <2>3
  <2> QED
    BY <2>1, <2>2, <2>3 DEF D!StopCurrentLog
<1> QED
  BY <1>1, <1>2

LEMMA CaptureKeeps ==
    ASSUME NothingInFlight, CaptureInv, [D!DriversNext]_driverVars
    PROVE  CaptureInv'
<1> USE DEF NothingInFlight, StdioCaptures, CaptureInv, InFlight, Filed, Logged, Finished
<1>1. CASE D!Begin
  <2>1. CASE whole = NoCapture
    BY <1>1, <2>1 DEF D!Begin
  <2>2. CASE whole # NoCapture
    BY <1>1, <2>2, RecordingKeeps DEF D!Begin
  <2> QED
    BY <2>1, <2>2
<1>2. CASE D!StartRecording
  BY <1>2, RecordingKeeps DEF D!StartRecording
<1>3. CASE D!StopRecording \/ D!FinalizeRecordings
  BY <1>3, StopRecordingKeeps DEF D!StopRecording, D!FinalizeRecordings
<1>4. CASE D!StopLogCapture \/ D!FinalizeLogs
  BY <1>4, StopLogKeeps DEF D!StopLogCapture, D!FinalizeLogs
<1>5. CASE D!StartLogCapture
  <2> DEFINE e == [kind |-> "log", id |-> starts + 1, n |-> starts + 1]
  <2>1. /\ \A f \in table : f.kind # "log"
        /\ table' = table \cup {e} /\ children' = children \cup {e} /\ starts' = starts + 1
        /\ capturing' = [capturing EXCEPT !["log"] = starts + 1] /\ stdio = NoCapture
        /\ logs' = [logs EXCEPT ![starts + 1] = "growing"]
        /\ UNCHANGED <<target, progress, whole, told, file, stdio>> /\ progress = "flow"
    BY <1>5 DEF D!StartLogCapture, D!Idle, D!Spawn, D!Entries
  <2>2. e.kind = "log" /\ e.id = starts + 1 /\ e.n = starts + 1
    OBVIOUS
  <2> HIDE DEF e
  <2>3. InFlight' /\ Filed'
    BY <2>1, <2>2
  <2>4. Logged'
    BY <2>1, <2>2
  <2>5. Finished'
    BY <2>1
  <2> QED
    BY <2>3, <2>4, <2>5
<1>6. CASE D!StartStdioCapture
  <2>1. stdio' \in StdioCaptures /\ stdio'.id = starts + 1
        /\ stdio'.segments = stdio'.launched /\ target = "simulator"
    BY <1>6 DEF D!StartStdioCapture, StdioCaptures
  <2>2. /\ \A f \in table : f.kind # "log"
        /\ starts' = starts + 1 /\ logs' = [logs EXCEPT ![starts + 1] = "growing"]
        /\ capturing' = [capturing EXCEPT !["log"] = starts + 1] /\ stdio = NoCapture
        /\ UNCHANGED <<target, progress, whole, table, children, told, file>> /\ progress = "flow"
    BY <1>6 DEF D!StartStdioCapture, D!Idle
  <2>3. InFlight' /\ Filed' /\ Finished'
    BY <2>2
  <2>4. /\ starts' \in Nat /\ DOMAIN logs' = 1 .. MaxStarts
        /\ capturing'["log"] = stdio'.id /\ \A e \in table' : e.kind # "log"
    BY <2>1, <2>2
  <2>5. \A n \in DOMAIN logs : logs'[n] = logs[n] \/ n = stdio'.id
    BY <2>1, <2>2
  <2>6. stdio' # NoCapture
    BY <2>1
  <2>7. Logged'
    BY <2>1, <2>2, <2>4, <2>5, <2>6
  <2> QED
    BY <2>3, <2>7
<1>7. CASE D!LaunchApp
  <2>1. /\ stdio # NoCapture
        /\ UNCHANGED <<target, progress, whole, capturing, table, children, told, file, starts, logs>>
    BY <1>7 DEF D!LaunchApp
  <2>2. /\ stdio.id \in Nat /\ stdio.segments \in Nat /\ stdio.segments = stdio.launched
        /\ stdio = [id |-> stdio.id, segments |-> stdio.segments, launched |-> stdio.launched]
    BY <2>1
  <2>3. /\ stdio' \in StdioCaptures /\ stdio'.id = stdio.id
        /\ stdio'.segments = stdio'.launched
    <3>1. CASE stdio' = [stdio EXCEPT !.segments = stdio.segments + 1, !.launched = @ + 1]
      <4>1. stdio' = [id |-> stdio.id, segments |-> stdio.segments + 1,
                      launched |-> stdio.launched + 1]
        BY <2>2, <3>1, Zenon
      <4> QED
        BY <2>2, <4>1
    <3>2. CASE stdio' = [stdio EXCEPT !.segments = stdio.segments + 1 - 1]
      <4>1. stdio' = [stdio EXCEPT !.segments = stdio.segments]
        BY <2>2, <3>2
      <4> QED
        BY <2>2, <4>1
    <3> QED
      BY <1>7, <3>1, <3>2 DEF D!LaunchApp, D!DropSegment
  <2>4. InFlight' /\ Filed' /\ Finished'
    BY <2>1
  <2>5. Logged'
    BY <2>1, <2>3
  <2> QED
    BY <2>4, <2>5
<1>8. CASE D!FlowEnds \/ D!Interrupt \/ D!ChildEnds
  BY <1>8 DEF D!FlowEnds, D!Interrupt, D!ChildEnds
<1>9. CASE D!CloseDriver
  BY <1>9 DEF D!CloseDriver, D!EndStdio, D!Entries
<1>10. CASE \E e \in children : D!ExceedLimit(e)
  BY <1>10 DEF D!ExceedLimit
<1>11. CASE UNCHANGED D!capVars
  BY <1>11 DEF D!capVars
<1> QED
  BY <1>1, <1>2, <1>3, <1>4, <1>5, <1>6, <1>7, <1>8, <1>9, <1>10, <1>11 DEF D!DriversNext,
     D!CapNext,
    D!KeepAndroid, D!KeepRunner, D!KeepHardware, D!KeepWeb, D!KeepPage, driverVars, D!capVars

\* The driver knows of every recorder and log stream that runs, nothing else writes to
\* the file of a running recorder, and when Execute has returned nothing runs on but
\* what was told to end and, off hardware, no unfinished log is left but the launches of
\* a stdio capture that could not be merged, whatever fails or is interrupted
\* (session.go, recording.go, logcapture.go).
THEOREM CapturesEnd ==
    ASSUME NothingInFlight, MaxStarts \in Nat
    PROVE  Spec => []CapturesAccounted
<1>1. CaptureInv => CapturesAccounted
  BY DEF NothingInFlight, StdioCaptures, CaptureInv, InFlight, Filed, Logged, Finished,
     CapturesAccounted,
    D!CapturesAccounted
<1>2. CaptureInv /\ [Next]_vars => CaptureInv'
  BY CaptureKeeps, DriversOnly
<1>3. Init => CaptureInv
  BY CaptureStart, DriversOnly
<1> QED
  BY <1>1, <1>2, <1>3, PTL DEF Spec

-----------------------------------------------------------------------------
(* The event streams of the HTTP API                                       *)

\* A behaviour of the run is one of the streams.
LEMMA FeedsOnly ==
    /\ Init => F!FeedInit
    /\ [Next]_vars => [F!FeedNext]_F!feedVars
<1>1. Init => F!FeedInit
  BY DEF Init
<1>2. [Next]_vars => [F!FeedNext]_F!feedVars
  BY DEF Next, vars, feedVars, F!feedVars, KeepRun, KeepSession, KeepTest, KeepWatch, KeepCache,
     KeepScript,
         KeepDrivers, KeepStart
<1> QED
  BY <1>1, <1>2

Entries == [type: {"acquired", "frame", "released", "reconnected", "disconnected"}, binding: Nat, by: Nat]
FeedStreams == [at: {"none", "query", "status", "access", "write", "mark", "ended"},
                channel: Nat, token: Nat, from: Nat, after: Nat, batch: Seq(Entries),
                terminal: BOOLEAN, gone: BOOLEAN, got: Seq(Entries)]

\* An entry was written under a binding that was the session's by then, and tells who
\* was disconnected.
Honest(e, binding) == e.binding <= binding /\ (e.type = "disconnected" => e.by = e.binding)

Lasting ==
    /\ row \in [status: {"active", "disconnected", "released"}, binding: Nat]
    /\ log \in Seq(Entries)
    /\ \A i \in 1 .. Len(log) : Honest(log[i], row.binding)

\* What a stream has delivered and what it holds to deliver follow each other in the log.
Follows(f) ==
    /\ f.from <= f.after /\ f.after + Len(f.batch) <= Len(log)
    /\ Len(f.got) = f.after - f.from
    /\ \A i \in 1 .. Len(f.got) : f.got[i] = log[f.from + i]
    /\ \A i \in 1 .. Len(f.batch) : f.batch[i] = log[f.after + i]

\* What is being written was looked at when the token was still the session's.
Bound(f) ==
    /\ f.at \notin {"none", "ended"} => f.channel = f.token
    /\ \A i \in 1 .. Len(f.got) : f.got[i].binding <= f.channel
    /\ f.at = "write" => \A i \in 1 .. Len(f.batch) : f.batch[i].binding <= f.channel

FeedInv ==
    /\ Lasting
    /\ feed \in [Streams -> FeedStreams]
    /\ \A s \in Streams : Follows(feed[s]) /\ Bound(feed[s])

LEMMA FeedStart == F!FeedInit => FeedInv
<1> SUFFICES ASSUME F!FeedInit PROVE FeedInv
  OBVIOUS
<1>1. F!Unopened \in FeedStreams /\ F!Unopened.got = <<>> /\ F!Unopened.batch = <<>>
      /\ F!Unopened.at = "none" /\ F!Unopened.from = 0 /\ F!Unopened.after = 0
  BY DEF F!Unopened, FeedStreams
<1>2. row = [status |-> "active", binding |-> 1]
      /\ log = <<[type |-> "acquired", binding |-> 1, by |-> 0]>>
      /\ feed = [s \in Streams |-> F!Unopened]
  BY DEF F!FeedInit
<1>3. Lasting
  BY <1>2 DEF Lasting, Entries, Honest
<1>4. \A s \in Streams : feed[s] = F!Unopened
  BY <1>2
<1>5. Len(log) = 1
  BY <1>2
<1>6. ASSUME NEW s \in Streams PROVE Follows(feed[s]) /\ Bound(feed[s])
  <2>1. /\ feed[s].at = "none" /\ feed[s].from = 0 /\ feed[s].after = 0
        /\ Len(feed[s].got) = 0 /\ Len(feed[s].batch) = 0
    BY <1>1, <1>4
  <2> HIDE <1>4
  <2> QED
    BY <1>5, <2>1 DEF Follows, Bound
<1> QED
  BY <1>1, <1>2, <1>3, <1>6 DEF FeedInv

\* The log only grows, and every step adds at most one honest entry.
Grown ==
    /\ Lasting' /\ row'.binding >= row.binding
    /\ Len(log') >= Len(log) /\ \A i \in 1 .. Len(log) : log'[i] = log[i]

LEMMA EntryGrows ==
    ASSUME Lasting, NEW e \in Entries, log' = Append(log, e),
           row' \in [status: {"active", "disconnected", "released"}, binding: Nat],
           row'.binding >= row.binding, Honest(e, row'.binding)
    PROVE  Grown
<1>1. log' \in Seq(Entries) /\ Len(log') = Len(log) + 1 /\ log'[Len(log) + 1] = e
      /\ \A i \in 1 .. Len(log) : log'[i] = log[i]
  BY DEF Lasting
<1>2. ASSUME NEW i \in 1 .. Len(log')
      PROVE  Honest(log'[i], row'.binding)
  <2>1. CASE i = Len(log) + 1
    BY <1>1, <2>1
  <2>2. CASE i # Len(log) + 1
    <3>1. i \in 1 .. Len(log)
      BY <1>1, <2>2 DEF Lasting
    <3>2. log[i] \in Entries
      BY <3>1 DEF Lasting
    <3> QED
      BY <1>1, <3>1, <3>2 DEF Lasting, Honest, Entries
  <2> QED
    BY <2>1, <2>2
<1> QED
  BY <1>1, <1>2 DEF Grown, Lasting

LEMMA SessionGrows ==
    ASSUME Lasting
    PROVE  /\ F!Untouched => Grown
           /\ F!Ends => Grown
           /\ F!Happens => Grown
           /\ F!Reconnect => Grown
           /\ \A token : F!MarkDisconnected(token) => Grown
<1> USE DEF F!Entry, F!Logs, Honest
<1>1. F!Untouched => Grown
  BY DEF F!Untouched, Grown, Lasting
<1>2. ASSUME F!Ends PROVE Grown
  <2> DEFINE e == [type |-> "released", binding |-> row.binding, by |-> 0]
  <2>1. e \in Entries /\ log' = Append(log, e) /\ Honest(e, row.binding)
    BY <1>2 DEF F!Ends, Lasting, Entries
  <2>2. row' = [row EXCEPT !.status = "released"]
    BY <1>2 DEF F!Ends
  <2> QED
    BY <2>1, <2>2, EntryGrows DEF Lasting
<1>3. ASSUME F!Happens PROVE Grown
  <2> DEFINE e == [type |-> "frame", binding |-> row.binding, by |-> 0]
  <2>1. e \in Entries /\ log' = Append(log, e) /\ Honest(e, row.binding) /\ row' = row
    BY <1>3 DEF F!Happens, Lasting, Entries
  <2> QED
    BY <2>1, EntryGrows DEF Lasting
<1>4. ASSUME F!Reconnect PROVE Grown
  <2> DEFINE e == [type |-> "reconnected", binding |-> row.binding + 1, by |-> 0]
  <2>1. e \in Entries /\ log' = Append(log, e) /\ Honest(e, row.binding + 1)
    BY <1>4 DEF F!Reconnect, Lasting, Entries
  <2>2. row' = [status |-> "active", binding |-> row.binding + 1]
    BY <1>4 DEF F!Reconnect
  <2> QED
    BY <2>1, <2>2, EntryGrows DEF Lasting
<1>5. ASSUME NEW token, F!MarkDisconnected(token) PROVE Grown
  <2>1. CASE row.binding = token /\ row.status = "active"
    <3> DEFINE e == [type |-> "disconnected", binding |-> row.binding, by |-> token]
    <3>1. e \in Entries /\ log' = Append(log, e) /\ Honest(e, row.binding)
      BY <1>5, <2>1 DEF F!MarkDisconnected, F!matchesSessionBinding, Lasting, Entries
    <3>2. row' = [row EXCEPT !.status = "disconnected"]
      BY <1>5, <2>1 DEF F!MarkDisconnected, F!matchesSessionBinding
    <3> QED
      BY <3>1, <3>2, EntryGrows DEF Lasting
  <2>2. CASE ~(row.binding = token /\ row.status = "active")
    BY <1>1, <1>5, <2>2 DEF F!MarkDisconnected, F!matchesSessionBinding
  <2> QED
    BY <2>1, <2>2
<1> QED
  BY <1>1, <1>2, <1>3, <1>4, <1>5

\* What a stream has and holds stays where it was in the log.
LEMMA StaysInLog ==
    ASSUME Lasting, Grown, NEW f \in FeedStreams, Follows(f)
    PROVE  /\ f.from <= f.after /\ f.after + Len(f.batch) <= Len(log')
           /\ Len(f.got) = f.after - f.from
           /\ \A i \in 1 .. Len(f.got) : f.got[i] = log'[f.from + i]
           /\ \A i \in 1 .. Len(f.batch) : f.batch[i] = log'[f.after + i]
<1>1. /\ f.from \in Nat /\ f.after \in Nat /\ Len(f.got) \in Nat /\ Len(f.batch) \in Nat
      /\ Len(log) \in Nat /\ Len(log') \in Nat
  BY DEF FeedStreams, Lasting, Grown
<1>2. \A i \in 1 .. Len(f.got) : f.from + i \in 1 .. Len(log)
  BY <1>1 DEF Follows
<1>3. \A i \in 1 .. Len(f.batch) : f.after + i \in 1 .. Len(log)
  BY <1>1 DEF Follows
<1>4. \A i \in 1 .. Len(f.got) : f.got[i] = log'[f.from + i]
  BY <1>2 DEF Follows, Grown
<1>5. \A i \in 1 .. Len(f.batch) : f.batch[i] = log'[f.after + i]
  BY <1>3 DEF Follows, Grown
<1> QED
  BY <1>1, <1>4, <1>5 DEF Follows, Grown

\* Streams that do not move have what they had, and so has the one that moves.
LEMMA StreamMoves ==
    ASSUME FeedInv, Grown, NEW s \in Streams, NEW then \in FeedStreams, F!Moves(s, then),
           Follows(then), Bound(then)
    PROVE  FeedInv'
<1>1. feed' \in [Streams -> FeedStreams] /\ feed'[s] = then /\ \A t \in Streams \ {s} : feed'[t] = feed[t]
  BY DEF FeedInv, F!Moves
<1>2. ASSUME NEW t \in Streams
      PROVE  (Follows(feed[t]) /\ Bound(feed[t]))'
  <2>1. Follows(feed'[t]) /\ Bound(feed'[t]) /\ feed'[t] \in FeedStreams
    BY <1>1 DEF FeedInv
  <2>2. PICK f \in FeedStreams : f = feed'[t]
    BY <2>1
  <2>3. Follows(f) /\ Bound(f)
    BY <2>1, <2>2
  <2>4. Lasting
    BY DEF FeedInv
  <2> QED
    BY <2>2, <2>3, <2>4, StaysInLog DEF Follows, Bound
<1> QED
  BY <1>1, <1>2 DEF FeedInv, Grown

LEMMA StreamsStay ==
    ASSUME FeedInv, Grown, UNCHANGED feed
    PROVE  FeedInv'
<1>1. ASSUME NEW t \in Streams
      PROVE  (Follows(feed[t]) /\ Bound(feed[t]))'
  <2>1. feed[t] \in FeedStreams /\ Follows(feed[t]) /\ Bound(feed[t]) /\ feed'[t] = feed[t] /\ Lasting
    BY DEF FeedInv
  <2>2. PICK f \in FeedStreams : f = feed[t]
    BY <2>1
  <2> QED
    BY <2>1, <2>2, StaysInLog DEF Follows, Bound
<1> QED
  BY <1>1 DEF FeedInv, Grown

\* What is between two places of a sequence.
LEMMA Piece ==
    ASSUME NEW Elements, NEW q \in Seq(Elements), NEW a \in Nat, NEW b \in Nat, a <= b, b <= Len(q)
    PROVE  /\ SubSeq(q, a + 1, b) \in Seq(Elements) /\ Len(SubSeq(q, a + 1, b)) = b - a
           /\ \A i \in 1 .. b - a : SubSeq(q, a + 1, b)[i] = q[a + i]
<1>1. a + 1 \in Int /\ b \in Int /\ \A i \in a + 1 .. b : q[i] \in Elements
  OBVIOUS
<1>2. /\ SubSeq(q, a + 1, b) \in Seq(Elements)
      /\ Len(SubSeq(q, a + 1, b)) = IF a + 1 <= b THEN b - (a + 1) + 1 ELSE 0
      /\ \A i \in 1 .. b - (a + 1) + 1 : SubSeq(q, a + 1, b)[i] = q[a + 1 + i - 1]
  BY <1>1, SubSeqProperties
<1> QED
  BY <1>2

\* An event more that was written, and one less that is held.
LEMMA WrittenFollows ==
    ASSUME Lasting, NEW f \in FeedStreams, Follows(f), Bound(f), f.at = "write", f.batch # <<>>
    PROVE  LET g == [f EXCEPT !.batch = Tail(@), !.after = @ + 1, !.got = Append(@, Head(f.batch))]
           IN  g \in FeedStreams /\ Follows(g) /\ Bound(g)
<1> DEFINE rest == Tail(f.batch)
           more == Append(f.got, Head(f.batch))
           g == [f EXCEPT !.batch = rest, !.after = @ + 1, !.got = more]
<1>1. /\ f.batch \in Seq(Entries) /\ f.got \in Seq(Entries) /\ f.after \in Nat /\ f.from \in Nat
      /\ Len(f.batch) \in Nat /\ Len(f.got) \in Nat /\ Len(log) \in Nat
  BY DEF FeedStreams, Lasting
<1>2. /\ rest \in Seq(Entries) /\ Len(rest) = Len(f.batch) - 1
      /\ \A i \in 1 .. Len(rest) : rest[i] = f.batch[i + 1]
      /\ Head(f.batch) \in Entries /\ Head(f.batch) = f.batch[1] /\ Len(f.batch) >= 1
  BY <1>1, HeadTailProperties
<1>3. /\ more \in Seq(Entries) /\ Len(more) = Len(f.got) + 1
      /\ \A i \in 1 .. Len(f.got) : more[i] = f.got[i]
      /\ more[Len(f.got) + 1] = Head(f.batch)
  BY <1>1, <1>2
<1> HIDE DEF rest, more
<1>4. /\ g \in FeedStreams /\ g.at = "write" /\ g.channel = f.channel /\ g.token = f.token
      /\ g.from = f.from /\ g.after = f.after + 1 /\ g.batch = rest /\ g.got = more
  <2>1. f.after + 1 \in Nat
    BY <1>1
  <2> QED
    BY <1>2, <1>3, <2>1 DEF FeedStreams
<1>5. /\ f.from <= f.after + 1 /\ f.after + 1 + Len(rest) <= Len(log) /\ Len(more) = (f.after + 1) - f.from
  <2>1. /\ f.from <= f.after /\ f.after + Len(f.batch) <= Len(log) /\ Len(f.got) = f.after - f.from
    BY DEF Follows
  <2>2. Len(rest) = Len(f.batch) - 1 /\ Len(more) = Len(f.got) + 1
    BY <1>2, <1>3
  <2> QED
    BY <1>1, <2>1, <2>2
<1>6. f.batch[1] = log[f.after + 1] /\ f.batch[1].binding <= f.channel
  BY <1>1, <1>2 DEF Follows, Bound
<1>7. ASSUME NEW i \in 1 .. Len(more)
      PROVE  more[i] = log[f.from + i] /\ more[i].binding <= f.channel
  <2>1. CASE i = Len(f.got) + 1
    <3>1. f.from + i = f.after + 1
      BY <1>1, <2>1 DEF Follows
    <3> QED
      BY <1>2, <1>3, <1>6, <2>1, <3>1
  <2>2. CASE i # Len(f.got) + 1
    <3>1. i \in 1 .. Len(f.got)
      BY <1>1, <1>3, <2>2
    <3> QED
      BY <1>3, <3>1 DEF Follows, Bound
  <2> QED
    BY <2>1, <2>2
<1>8. ASSUME NEW i \in 1 .. Len(rest)
      PROVE  rest[i] = log[f.after + 1 + i] /\ rest[i].binding <= f.channel
  <2>1. i + 1 \in 1 .. Len(f.batch) /\ rest[i] = f.batch[i + 1]
    BY <1>1, <1>2
  <2>2. f.after \in Nat /\ i \in Nat
    BY <1>1
  <2>3. f.after + (i + 1) = f.after + 1 + i
    BY <2>2
  <2> QED
    BY <2>1, <2>3 DEF Follows, Bound
<1> HIDE DEF g
<1>9. Follows(g) /\ Bound(g)
  <2>1. \A i \in 1 .. Len(g.got) : g.got[i] = log[g.from + i] /\ g.got[i].binding <= g.channel
    BY <1>4, <1>7, Zenon
  <2>2. \A i \in 1 .. Len(g.batch) : g.batch[i] = log[g.after + i] /\ g.batch[i].binding <= g.channel
    BY <1>4, <1>8, Zenon
  <2>3. g.from <= g.after /\ g.after + Len(g.batch) <= Len(log) /\ Len(g.got) = g.after - g.from
    <3>1. g.from = f.from /\ g.after = f.after + 1 /\ g.batch = rest /\ g.got = more
      BY <1>4
    <3>2. g.from <= g.after
      BY <1>5, <3>1
    <3>3. g.after + Len(g.batch) <= Len(log)
      BY <1>5, <3>1
    <3>4. Len(g.got) = g.after - g.from
      BY <1>5, <3>1, Zenon
    <3> QED
      BY <3>2, <3>3, <3>4
  <2>4. g.channel = g.token
    BY <1>4 DEF Bound
  <2> QED
    BY <2>1, <2>2, <2>3, <2>4 DEF Follows, Bound
<1> QED
  BY <1>4, <1>9 DEF g, rest, more

\* A step of stream s leads it to a place where what it has and holds still follow.
LEMMA StreamStepKeeps ==
    ASSUME FeedInv, MaxBatch \in Nat, NEW s \in Streams, F!StreamStep(s) \/ F!OpensStream(s) \/ F!Drop(s)
    PROVE  FeedInv'
<1> DEFINE f == feed[s]
<1>0. f \in FeedStreams /\ Follows(f) /\ Bound(f) /\ Lasting
  BY DEF FeedInv
<1>01. F!Untouched => Grown
  BY <1>0, SessionGrows
<1>02. F!Ends => Grown
  BY <1>0, SessionGrows
<1>03. F!MarkDisconnected(f.token) => Grown
  BY <1>0, SessionGrows
<1>1. ASSUME NEW spot \in {"none", "query", "status", "access", "mark", "ended"},
             f.at \notin {"none", "ended"} \/ spot \in {"none", "ended"}, F!At(s, spot), Grown
      PROVE  FeedInv'
  <2> DEFINE g == [f EXCEPT !.at = spot]
  <2>1. g \in FeedStreams /\ Follows(g) /\ Bound(g)
    BY <1>0, <1>1 DEF FeedStreams, Follows, Bound
  <2>2. F!Moves(s, g)
    BY <1>1 DEF F!At
  <2> QED
    BY <1>1, <2>1, <2>2, StreamMoves
<1>2. CASE F!OpensStream(s)
  <2>1. PICK channel \in 1 .. row.binding, token \in 1 .. row.binding, from \in 0 .. Len(log) :
           F!Moves(s, [F!Unopened EXCEPT !.channel = channel, !.token = token, !.from = from, !.after = from,
                         !.at = IF F!Authorized(channel, token) /\ F!matchesSessionBinding(token)
                                THEN "query" ELSE "ended"])
    BY <1>2 DEF F!OpensStream
  <2> DEFINE spot == IF F!Authorized(channel, token) /\ F!matchesSessionBinding(token)
                      THEN "query" ELSE "ended"
             g == [F!Unopened EXCEPT !.channel = channel, !.token = token, !.from = from, !.after = from,
                         !.at = spot]
  <2>2. channel \in Nat /\ token \in Nat /\ from \in Nat /\ from <= Len(log)
    BY <1>0 DEF Lasting
  <2>3. spot \in {"query", "ended"} /\ (spot = "query" => channel = token)
    BY DEF F!Authorized
  <2> HIDE DEF spot
  <2>4. F!Unopened \in FeedStreams /\ F!Unopened.got = <<>> /\ F!Unopened.batch = <<>>
    BY DEF F!Unopened, FeedStreams
  <2>5. g \in FeedStreams
    BY <2>2, <2>3, <2>4 DEF FeedStreams
  <2>6. /\ g.at = spot /\ g.channel = channel /\ g.token = token /\ g.from = from /\ g.after = from
        /\ g.got = <<>> /\ g.batch = <<>>
    BY <2>4 DEF FeedStreams
  <2> HIDE DEF g
  <2>7. Follows(g) /\ Bound(g)
    BY <1>0, <2>2, <2>3, <2>6 DEF Follows, Bound, Lasting
  <2>8. Grown
    BY <1>01, <1>02, <1>2 DEF F!OpensStream
  <2>9. F!Moves(s, g)
    BY <2>1 DEF g, spot
  <2> QED
    BY <2>5, <2>7, <2>8, <2>9, StreamMoves
<1>3. CASE F!QueryEvents(s)
  <2> DEFINE last == IF Len(log) - f.after > MaxBatch THEN f.after + MaxBatch ELSE Len(log)
             batch == SubSeq(log, f.after + 1, last)
             g == [f EXCEPT !.at = "access", !.batch = batch,
                            !.terminal = /\ row.status = "released"
                                         /\ batch[Len(batch)].type = "released"]
  <2>1. /\ f.after \in Nat /\ Len(log) \in Nat /\ last \in Nat /\ f.after <= last /\ last <= Len(log)
        /\ f.at = "query"
    BY <1>0, <1>3 DEF FeedStreams, Lasting, Follows, F!QueryEvents
  <2>3. /\ batch \in Seq(Entries) /\ Len(batch) = last - f.after
        /\ \A i \in 1 .. Len(batch) : batch[i] = log[f.after + i]
    <3> HIDE DEF last
    <3>1. log \in Seq(Entries)
      BY <1>0 DEF Lasting
    <3>2. /\ batch \in Seq(Entries) /\ Len(batch) = last - f.after
          /\ \A i \in 1 .. last - f.after : batch[i] = log[f.after + i]
      BY <2>1, <3>1, Piece, Zenon
    <3> HIDE DEF batch
    <3> QED
      BY <3>2
  <2>4. Grown
    BY <1>01, <1>3 DEF F!QueryEvents
  <2>5. CASE batch = <<>>
    BY <1>1, <1>3, <2>1, <2>4, <2>5 DEF F!QueryEvents, F!Batch
  <2>6. CASE batch # <<>>
    <3>1. F!Moves(s, g)
      BY <1>3, <2>6 DEF F!QueryEvents, F!Batch
    <3> HIDE DEF batch, last
    <3>2. /\ g \in FeedStreams /\ g.at = "access" /\ g.batch = batch
          /\ g.from = f.from /\ g.after = f.after /\ g.got = f.got /\ g.channel = f.channel /\ g.token = f.token
      BY <1>0, <2>3 DEF FeedStreams
    <3> HIDE DEF g
    <3>3. Follows(g) /\ Bound(g)
      BY <1>0, <2>1, <2>3, <3>2 DEF Follows, Bound
    <3> QED
      BY <2>4, <3>1, <3>2, <3>3, StreamMoves
  <2> QED
    BY <2>5, <2>6
<1>4. CASE F!QueryStatus(s)
  <2>1. f.at = "status" /\ Grown
    BY <1>01, <1>4 DEF F!QueryStatus
  <2>2. CASE row.status = "released"
    <3> DEFINE g == [f EXCEPT !.at = "access", !.terminal = TRUE]
    <3>1. g \in FeedStreams /\ Follows(g) /\ Bound(g)
      BY <1>0, <2>1 DEF FeedStreams, Follows, Bound
    <3>2. F!Moves(s, g)
      BY <1>4, <2>2 DEF F!QueryStatus
    <3> QED
      BY <2>1, <3>1, <3>2, StreamMoves
  <2>3. CASE row.status # "released"
    BY <1>1, <1>4, <2>1, <2>3 DEF F!QueryStatus
  <2> QED
    BY <2>2, <2>3
<1>5. CASE F!QueryFails(s)
  BY <1>01, <1>1, <1>5 DEF F!QueryFails
<1>6. CASE F!CheckAccess(s)
  <2>1. f.at = "access" /\ Grown
    BY <1>01, <1>02, <1>6 DEF F!CheckAccess
  <2>2. CASE F!AccessHolds(s)
    <3> DEFINE g == [f EXCEPT !.at = "write"]
    <3>1. row.binding = f.token /\ f.token = f.channel
      BY <1>0, <2>1, <2>2 DEF F!AccessHolds, F!matchesSessionBinding, Bound
    <3>2. \A i \in 1 .. Len(f.batch) : f.batch[i].binding <= f.channel
      <4>1. \A i \in 1 .. Len(f.batch) : f.after + i \in 1 .. Len(log)
        BY <1>0 DEF Follows, FeedStreams, Lasting
      <4> QED
        BY <1>0, <3>1, <4>1 DEF Follows, Lasting, Honest
    <3>3. g \in FeedStreams /\ Follows(g) /\ Bound(g)
      BY <1>0, <3>1, <3>2 DEF FeedStreams, Follows, Bound
    <3>4. F!Moves(s, g)
      BY <1>6, <2>2 DEF F!CheckAccess, F!At
    <3> QED
      BY <2>1, <3>3, <3>4, StreamMoves
  <2>3. CASE ~F!AccessHolds(s)
    BY <1>1, <1>6, <2>1, <2>3 DEF F!CheckAccess
  <2> QED
    BY <2>2, <2>3
<1>7. CASE F!Write(s)
  <2>1. f.at = "write" /\ f.batch # <<>> /\ Grown
    BY <1>01, <1>7 DEF F!Write
  <2>2. CASE F!At(s, "mark")
    BY <1>1, <2>1, <2>2
  <2> DEFINE g == [f EXCEPT !.batch = Tail(@), !.after = @ + 1, !.got = Append(@, Head(f.batch))]
  <2>3. CASE F!Moves(s, g)
    <3>1. g \in FeedStreams /\ Follows(g) /\ Bound(g)
      BY <1>0, <2>1, WrittenFollows
    <3> QED
      BY <2>1, <2>3, <3>1, StreamMoves
  <2> QED
    BY <1>7, <2>2, <2>3 DEF F!Write
<1>8. CASE F!Flush(s)
  BY <1>01, <1>1, <1>8 DEF F!Flush
<1>9. CASE F!recordDisconnect(s)
  BY <1>01, <1>03, <1>1, <1>9 DEF F!recordDisconnect
<1>10. CASE F!Drop(s)
  <2> DEFINE g == [f EXCEPT !.gone = TRUE]
  <2>1. g \in FeedStreams /\ Follows(g) /\ Bound(g)
    BY <1>0 DEF FeedStreams, Follows, Bound
  <2>2. F!Moves(s, g) /\ Grown
    BY <1>01, <1>10 DEF F!Drop
  <2> QED
    BY <2>1, <2>2, StreamMoves
<1> QED
  BY <1>2, <1>3, <1>4, <1>5, <1>6, <1>7, <1>8, <1>9, <1>10 DEF F!StreamStep

LEMMA FeedKeeps ==
    ASSUME FeedInv, MaxBatch \in Nat, [F!FeedNext]_F!feedVars
    PROVE  FeedInv'
<1>1. CASE F!Happens \/ F!Release \/ F!Reconnect
  BY <1>1, SessionGrows, StreamsStay DEF FeedInv, F!Happens, F!Release, F!Reconnect
<1>2. CASE \E s \in Streams : F!OpensStream(s) \/ F!StreamStep(s) \/ F!Drop(s)
  BY <1>2, StreamStepKeeps
<1>3. CASE UNCHANGED F!feedVars
  BY <1>3, StreamsStay, SessionGrows DEF FeedInv, F!feedVars, F!Untouched
<1> QED
  BY <1>1, <1>2, <1>3 DEF F!FeedNext

\* What a stream delivers is the log from its cursor on, without a gap, over the channel
\* of its token, and nothing from after a reconnect over another one; and it does not
\* disconnect a session that has reconnected (handler.go, events).
THEOREM StreamsKeepTheirToken ==
    ASSUME MaxBatch \in Nat
    PROVE  Spec => []StreamKeepsToItsToken
<1>1. FeedInv => StreamKeepsToItsToken
  <2> SUFFICES ASSUME FeedInv PROVE F!StreamKeepsToItsToken
    BY DEF StreamKeepsToItsToken
  <2>1. ASSUME NEW s \in Streams
        PROVE  /\ feed[s].got = SubSeq(log, feed[s].from + 1, feed[s].after)
               /\ \A i \in DOMAIN feed[s].got : feed[s].got[i].binding <= feed[s].channel
    <3> DEFINE f == feed[s]
               sub == SubSeq(log, f.from + 1, f.after)
    <3>1. f \in FeedStreams /\ Follows(f) /\ Bound(f) /\ Lasting
      BY DEF FeedInv
    <3>2. /\ f.from \in Nat /\ f.after \in Nat /\ f.from <= f.after /\ f.after <= Len(log)
          /\ Len(f.got) = f.after - f.from /\ f.got \in Seq(Entries) /\ Len(log) \in Nat
      BY <3>1 DEF FeedStreams, Follows, Lasting
    <3>0. log \in Seq(Entries)
      BY <3>1 DEF Lasting
    <3>5. /\ sub \in Seq(Entries) /\ Len(sub) = f.after - f.from
          /\ \A i \in 1 .. f.after - f.from : sub[i] = log[f.from + i]
      <4>1. f.from \in Nat /\ f.after \in Nat /\ f.from <= f.after /\ f.after <= Len(log)
        BY <3>2
      <4> QED
        BY <3>0, <4>1, Piece, Zenon
    <3> HIDE DEF sub
    <3>6. Len(sub) = Len(f.got) /\ \A i \in 1 .. Len(sub) : sub[i] = f.got[i]
      BY <3>1, <3>2, <3>5 DEF Follows
    <3>7. sub = f.got
      BY <3>2, <3>5, <3>6, SeqEqual, Zenon
    <3>8. \A i \in DOMAIN f.got : f.got[i].binding <= f.channel
      <4>1. DOMAIN f.got = 1 .. Len(f.got)
        BY <3>2
      <4> QED
        BY <3>1, <4>1 DEF Bound
    <3> QED
      BY <3>7, <3>8 DEF sub
  <2>2. \A i \in DOMAIN log : log[i].type = "disconnected" => log[i].by = log[i].binding
    BY DEF FeedInv, Lasting, Honest
  <2> QED
    BY <2>1, <2>2 DEF F!StreamKeepsToItsToken
<1>2. FeedInv /\ [Next]_vars => FeedInv'
  BY FeedKeeps, FeedsOnly
<1>3. Init => FeedInv
  BY FeedStart, FeedsOnly
<1> QED
  BY <1>1, <1>2, <1>3, PTL DEF Spec

-----------------------------------------------------------------------------
(* A scenario of an exploration                                            *)

\* A behaviour of the run is one of the tester.
LEMMA TesterOnly ==
    /\ Init => RunInit
    /\ [Next]_vars => [RunNext]_runVars
<1>1. Init => RunInit
  BY DEF Init
<1>2. [Next]_vars => [RunNext]_runVars
  BY DEF Next, vars, KeepSession, KeepTest, KeepWatch, KeepCache, KeepScript, KeepDrivers,
     KeepStart, KeepFeed
<1> QED
  BY <1>1, <1>2

\* A check that still counts was made on the screen that is shown: while the newest
\* observation could be made it is of that screen, and the epoch moves on with whatever
\* may change it.  Until the epoch has moved, a run that was handed an observation of
\* another screen still works from that.
Check == [epoch: Int, of: Screens, met: BOOLEAN]
NotYet == astray /\ epoch = 0
TesterInv ==
    /\ shown \in Screens /\ current \in Screens /\ epoch \in Nat
    /\ checks \in Seq(Check)
    /\ phase # "ended" /\ ~stale => current = shown \/ NotYet
    /\ \A k \in DOMAIN checks :
          /\ checks[k].epoch <= epoch
          /\ phase # "ended" /\ checks[k].epoch = epoch => checks[k].of = shown \/ NotYet

LEMMA TesterStart == RunInit => TesterInv
<1> SUFFICES ASSUME RunInit PROVE TesterInv
  OBVIOUS
<1>1. current = shown \/ NotYet
  BY Zenon DEF RunInit, NotYet
<1>2. shown \in Screens /\ current \in Screens /\ epoch \in Nat /\ checks = <<>>
  BY DEF RunInit
<1> QED
  BY <1>1, <1>2 DEF TesterInv

\* Whatever moves the epoch on leaves no check that counts.
LEMMA EpochMoves ==
    ASSUME TesterInv, NEW sight \in Sights, NEW moved \in Screens,
           \/ replaceCurrent(sight, moved, 1) /\ stale' = (sight = "failed" \/ (stale /\ sight # "seen"))
           \/ replaceCurrent(sight, moved, 0) /\ stale' = (stale /\ sight # "seen") /\ moved = shown,
           shown' = moved, checks' = checks, astray' = astray,
           phase' # "ended" => phase # "ended" /\ sight \in {"seen", "failed"}
    PROVE  TesterInv'
<1>1. epoch' \in Nat /\ epoch' >= epoch /\ current' \in Screens
  BY DEF TesterInv, replaceCurrent
<1>2. phase' # "ended" /\ ~stale' => current' = shown' \/ NotYet'
  <2>1. CASE sight = "seen"
    BY <2>1 DEF replaceCurrent
  <2>2. CASE sight = "failed" /\ stale' = (sight = "failed" \/ (stale /\ sight # "seen"))
    BY <2>2, Zenon
  <2>3. ASSUME sight = "failed", replaceCurrent(sight, moved, 0), stale' = (stale /\ sight # "seen"),
               moved = shown, ~stale', phase' # "ended"
        PROVE  current' = shown' \/ NotYet'
    <3>1. ~stale
      BY <2>3, Zenon
    <3>2. current' = current /\ shown' = shown /\ epoch' = epoch /\ phase # "ended"
      BY <2>3 DEF replaceCurrent, TesterInv
    <3>3. NotYet => NotYet'
      BY <3>2, Zenon DEF NotYet
    <3> QED
      BY <3>1, <3>2, <3>3 DEF TesterInv
  <2> QED
    BY <2>1, <2>2, <2>3
<1>3. ASSUME NEW k \in DOMAIN checks
      PROVE  checks[k].epoch <= epoch' /\ (phase' # "ended" /\ checks[k].epoch = epoch' => checks[k].of = shown' \/ NotYet')
  <2>1. checks[k] \in Check /\ checks[k].epoch \in Int /\ checks[k].epoch <= epoch /\ epoch \in Nat
    <3>1. checks \in Seq(Check) /\ checks[k].epoch <= epoch /\ epoch \in Nat
      BY DEF TesterInv
    <3>2. checks[k] \in Check
      BY <3>1
    <3> QED
      BY <3>1, <3>2 DEF Check
  <2>2. checks[k].epoch <= epoch'
    BY <1>1, <2>1
  <2>3. CASE epoch' = epoch
    <3>1. moved = shown
      BY <2>1, <2>3 DEF replaceCurrent
    <3> QED
      BY <2>2, <2>3, <3>1 DEF TesterInv, NotYet
  <2>4. CASE epoch' # epoch
    BY <1>1, <2>1, <2>2, <2>4
  <2> QED
    BY <2>2, <2>3, <2>4
<1> QED
  BY <1>1, <1>2, <1>3 DEF TesterInv

LEMMA TesterKeeps ==
    ASSUME TesterInv, [RunNext]_runVars
    PROVE  TesterInv'
<1>0. CASE UNCHANGED runVars
  BY <1>0 DEF TesterInv, NotYet, runVars, toolVars, loopVars
<1>1. CASE Reply
  BY <1>1 DEF Reply, TesterInv, NotYet, toolVars
<1>2. CASE runToolCall
  <2>0. \A sight \in Sights, fault \in {"none", "failed", "refused"} :
           Ends(sight, fault) = "none" => sight \in {"seen", "failed"}
    BY DEF Ends, Sights
  <2>1. cause' # "none" => phase' = "ended"
    BY <1>2 DEF runToolCall
  <2>2. phase = "tools" /\ astray' = astray
    BY <1>2 DEF runToolCall
  <2>3. ASSUME NEW fault \in Faults, NEW moved \in Screens, afterMutation(fault, moved)
        PROVE  TesterInv'
    <3>1. PICK sight \in Sights : /\ shown' = moved /\ replaceCurrent(sight, moved, 1) /\ checks' = checks
                                  /\ stale' = (sight = "failed" \/ (stale /\ sight # "seen"))
                                  /\ cause' = Ends(sight, fault)
      BY <2>3 DEF afterMutation
    <3> QED
      BY <2>0, <2>1, <2>2, <3>1, EpochMoves DEF Faults
  <2>4. CASE handleTap
    <3>1. shown \in Screens /\ "failed" \in Faults
      BY DEF TesterInv, Faults
    <3> QED
      BY <2>3, <2>4, <3>1 DEF handleTap
  <2>5. CASE handleScreenTool
    BY <2>3, <2>5 DEF handleScreenTool
  <2>6. CASE handleWait
    BY <2>3, <2>6 DEF handleWait, Faults
  <2>7. CASE handleObserve
    <3>1. PICK sight \in Sights : /\ replaceCurrent(sight, shown, 0) /\ checks' = checks /\ shown' = shown
                                  /\ stale' = (stale /\ sight # "seen")
                                  /\ cause' = Ends(sight, "none")
      BY <2>7 DEF handleObserve
    <3>2. shown \in Screens
      BY DEF TesterInv
    <3> QED
      BY <2>0, <2>1, <2>2, <3>1, <3>2, EpochMoves
  <2>8. CASE handleCheckVisible
    <3>1. PICK element \in Expected : 
             checks' = Append(checks, [epoch |-> recordedEpoch, of |-> current, met |-> element \in Shows[current]])
      BY <2>8 DEF handleCheckVisible
    <3> DEFINE c == [epoch |-> recordedEpoch, of |-> current, met |-> element \in Shows[current]]
    <3>2. c \in Check /\ c.epoch <= epoch /\ (c.epoch = epoch => c.of = shown \/ NotYet)
      BY <2>2 DEF TesterInv, Check, recordedEpoch
    <3>3. UNCHANGED <<shown, current, stale, epoch, cause>>
      BY <2>8 DEF handleCheckVisible
    <3> HIDE DEF c
    <3>4. /\ checks' \in Seq(Check) /\ Len(checks') = Len(checks) + 1 /\ checks'[Len(checks) + 1] = c
          /\ \A k \in 1 .. Len(checks) : checks'[k] = checks[k]
      <4>1. checks \in Seq(Check) /\ checks' = Append(checks, c)
        BY <3>1 DEF TesterInv, c
      <4> QED
        BY <3>2, <4>1
    <3>5. ASSUME NEW k \in DOMAIN checks'
          PROVE  checks'[k].epoch <= epoch /\ (checks'[k].epoch = epoch => checks'[k].of = shown \/ NotYet)
      <4>1. checks \in Seq(Check) /\ k \in 1 .. Len(checks) + 1
        BY <3>4 DEF TesterInv
      <4>2. CASE k = Len(checks) + 1
        BY <3>2, <3>4, <4>2
      <4>3. CASE k # Len(checks) + 1
        <5>1. k \in 1 .. Len(checks) /\ k \in DOMAIN checks
          BY <4>1, <4>3
        <5> QED
          BY <2>2, <3>4, <5>1 DEF TesterInv
      <4> QED
        BY <4>2, <4>3
    <3> QED
      BY <2>2, <3>3, <3>4, <3>5 DEF TesterInv, NotYet
  <2>9. CASE handleFinish
    BY <2>2, <2>9 DEF handleFinish, TesterInv, NotYet
  <2>10. CASE handleRefused
    BY <2>2, <2>10 DEF handleRefused, TesterInv, NotYet, toolVars
  <2> QED
    BY <1>2, <2>4, <2>5, <2>6, <2>7, <2>8, <2>9, <2>10 DEF runToolCall
<1>3. CASE Review
  BY <1>3 DEF Review, NextTurn, TesterInv, NotYet, toolVars
<1>4. CASE Judge
  BY <1>4 DEF Judge, TesterInv, NotYet, toolVars
<1>5. CASE CloseReview
  BY <1>5 DEF CloseReview, TesterInv, NotYet, toolVars
<1> QED
  BY <1>0, <1>1, <1>2, <1>3, <1>4, <1>5 DEF RunNext

-----------------------------------------------------------------------------
(* The session around the scenarios                                        *)

\* A behaviour of the run is one of the session.
LEMMA SessionOnly ==
    /\ Init => SessionInit
    /\ [Next]_vars => [SessionNext]_sessionVars
<1>1. Init => SessionInit
  BY DEF Init
<1>2. [Next]_vars => [SessionNext]_sessionVars
  BY DEF Next, vars, KeepRun, KeepTest, KeepWatch, KeepCache, KeepScript, KeepDrivers, KeepStart,
     KeepFeed
<1> QED
  BY <1>1, <1>2

\* Every result is kept under the name of its scenario, and a session on its way to its
\* end closes what it opened.
Returned == [name: {s.name : s \in Catalog}, expected: {s.expected : s \in Catalog},
             status: {"stopped", "failed", "passed"}, missed: SUBSET UNION {s.expected : s \in Catalog},
             error: {"none", "other", "unobservable"}]
NamesOf(some) == [k \in DOMAIN some |-> some[k].name]
KeptInv ==
    /\ results \in Seq(Returned)
    /\ evidence = NamesOf(results)
    /\ stage = "prepare" => evidence = <<>> /\ logged = <<>>
    /\ stage = "closed" => logged \in {evidence, Unwritten}
    /\ stage \in {"prepare", "write", "closed"} => ~opened
    /\ stage \in {"prepare", "close", "write", "closed"} => ~recording


\* A scenario that is planned is one of the catalog with a screen to start from.
Planned == {[s EXCEPT !.start = v] : s \in Catalog, v \in Views \cup {NoView}}

\* What is not chased again is what the results that came to a verdict have missed.
Missed(n) == UNION {results[i].missed : i \in {j \in 1 .. n : results[j].status # "stopped"}}
MissInv ==
    /\ {app, state} \subseteq Views \cup {NoView}
    /\ plan \in Seq(Planned)
    /\ unmet = Missed(Len(results))
    /\ stage \in {"reach", "run"} => plan # <<>> /\ ~allAlreadyMissed(Head(plan).expected)
    /\ NoMissIsChasedAgain

LEMMA SessionStart == SessionInit => KeptInv /\ MissInv
<1> SUFFICES ASSUME SessionInit PROVE KeptInv /\ MissInv
  OBVIOUS
<1>1. results = <<>> /\ plan = <<>>
  BY DEF SessionInit
<1>2. KeptInv
  BY <1>1 DEF SessionInit, KeptInv, NamesOf
<1>3. Missed(Len(results)) = {}
  BY <1>1 DEF Missed
<1>4. NoMissIsChasedAgain
  BY <1>1 DEF NoMissIsChasedAgain
<1> QED
  BY <1>1, <1>2, <1>3, <1>4 DEF SessionInit, MissInv

\* A scenario that was planned has the name and the outcomes of one in the catalog.
LEMMA PlannedOfCatalog ==
    ASSUME NEW p \in Planned
    PROVE  /\ p.name \in {s.name : s \in Catalog}
           /\ p.expected \in {s.expected : s \in Catalog} /\ p.start \in Views \cup {NoView}
<1>1. PICK s \in Catalog, v \in Views \cup {NoView} : p = [s EXCEPT !.start = v]
  BY DEF Planned
<1> QED
  BY <1>1, SessionAssumption

\* An order of some scenarios is a sequence of them.
LEMMA OrderOfScenarios ==
    ASSUME MissInv, NEW order \in SetToAllKPermutations(filterScenarios)
    PROVE  order \in Seq(Planned)
<1>1. PICK some \in SUBSET filterScenarios : order \in SetToSeqs(some)
  BY DEF SetToAllKPermutations
<1>2. order \in [1 .. Cardinality(some) -> some]
  BY <1>1 DEF SetToSeqs
<1>3. filterScenarios \subseteq Planned
  BY DEF filterScenarios, Planned, MissInv
<1>4. IsFiniteSet(some)
  <2> DEFINE new == {t \in Catalog : t.name \notin planned /\ t.expected # {}}
             From(s) == [s EXCEPT !.start = state]
  <2>1. IsFiniteSet(new)
    BY SessionAssumption, FS_Subset
  <2>2. IsFiniteSet({From(s) : s \in new})
    <3> DEFINE f == [s \in new |-> From(s)]
    <3>1. f \in Surjection(new, {From(s) : s \in new})
      BY DEF Surjection
    <3> QED
      BY <2>1, <3>1, FS_Surjection
  <2>3. filterScenarios = {From(s) : s \in new}
    BY DEF filterScenarios
  <2> QED
    BY <2>2, <2>3, FS_Subset
<1>5. Cardinality(some) \in Nat
  BY <1>4, FS_CardinalityType
<1> QED
  BY <1>2, <1>3, <1>5

\* A step that leaves the results and the scenarios missed, and does not lead to a run.
LEMMA MissStays ==
    ASSUME MissInv, UNCHANGED <<results, unmet>>, {app', state'} \subseteq Views \cup {NoView},
           plan' \in Seq(Planned),
           stage' \in {"reach", "run"} => plan' # <<>> /\ ~allAlreadyMissed(Head(plan').expected)
    PROVE  MissInv'
<1>1. Missed(Len(results))' = Missed(Len(results)) /\ NoMissIsChasedAgain' = NoMissIsChasedAgain
  BY DEF Missed, NoMissIsChasedAgain
<1>2. stage' \in {"reach", "run"} => plan' # <<>> /\ ~(allAlreadyMissed(Head(plan).expected))'
  BY DEF allAlreadyMissed
<1> QED
  BY <1>1, <1>2 DEF MissInv

\* The result of a scenario is kept, and its outcomes are no longer looked for if it
\* came to a verdict.
LEMMA ResultKept ==
    ASSUME KeptInv, MissInv, stage = "run", NEW r \in Results(Head(plan).expected),
           results' = kept(Head(plan), r)
    PROVE  /\ results' \in Seq(Returned)
           /\ NamesOf(results') = Append(evidence, Head(plan).name)
           /\ unmet' = collectUnmet(r) => unmet' = Missed(Len(results))'
           /\ NoMissIsChasedAgain'
<1>0. PICK n \in Nat : n = Len(results)
  BY DEF KeptInv
<1> DEFINE p == Head(plan)
           new == Named(p, r)
<1>1. p \in Planned /\ ~allAlreadyMissed(p.expected)
  BY DEF MissInv
<1>2. /\ p.name \in {s.name : s \in Catalog} /\ p.expected \in {s.expected : s \in Catalog}
  BY <1>1, PlannedOfCatalog
<1>3. r.status \in {"stopped", "failed", "passed"} /\ r.missed \subseteq p.expected
      /\ r.error \in {"none", "other", "unobservable"}
  BY DEF Results
<1>4. new \in Returned /\ new.name = p.name /\ new.expected = p.expected /\ new.status = r.status /\ new.missed = r.missed
  BY <1>2, <1>3 DEF Returned, Named
<1> HIDE DEF p, new
<1>5. /\ results' \in Seq(Returned) /\ Len(results') = n + 1 /\ results'[n + 1] = new
      /\ \A k \in 1 .. n : results'[k] = results[k]
      /\ DOMAIN results' = 1 .. n + 1 /\ DOMAIN results = 1 .. n /\ n \in Nat
  <2>1. results \in Seq(Returned) /\ results' = Append(results, new)
    BY DEF KeptInv, kept, new, p
  <2>2. results' \in Seq(Returned) /\ Len(results') = n + 1
    BY <1>0, <1>4, <2>1
  <2>3. results'[n + 1] = new /\ \A k \in 1 .. n : results'[k] = results[k]
    BY <1>0, <1>4, <2>1
  <2>4. DOMAIN results' = 1 .. n + 1 /\ DOMAIN results = 1 .. n
    BY <1>0, <2>1, <2>2
  <2> QED
    BY <1>0, <2>2, <2>3, <2>4
<1>6. NamesOf(results') = Append(evidence, p.name)
  <2>1. /\ evidence = [k \in 1 .. n |-> results[k].name] /\ Len(evidence) = n
        /\ NamesOf(results') = [k \in 1 .. n + 1 |-> results'[k].name]
    BY <1>5 DEF KeptInv, NamesOf
  <2> DEFINE Titles == {s.name : s \in Catalog}
  <2>2. evidence \in Seq(Titles) /\ p.name \in Titles
    <3>1. \A k \in 1 .. n : results[k] \in Returned
      BY <1>5 DEF KeptInv
    <3>2. \A k \in 1 .. n : results[k].name \in Titles
      BY <3>1 DEF Returned
    <3> HIDE DEF Titles
    <3>3. evidence \in [1 .. n -> Titles]
      BY <2>1, <3>2
    <3> QED
      BY <1>2, <1>5, <3>3 DEF Titles
  <2>3. /\ Len(Append(evidence, p.name)) = n + 1 /\ Append(evidence, p.name) \in Seq(Titles)
        /\ \A k \in 1 .. n : Append(evidence, p.name)[k] = evidence[k]
        /\ Append(evidence, p.name)[n + 1] = p.name
    BY <1>5, <2>1, <2>2
  <2>4. Append(evidence, p.name) = [k \in 1 .. n + 1 |-> IF k = n + 1 THEN p.name ELSE evidence[k]]
    BY <1>5, <2>3
  <2>5. \A k \in 1 .. n + 1 : results'[k].name = IF k = n + 1 THEN p.name ELSE evidence[k]
    BY <1>4, <1>5, <2>1
  <2> QED
    BY <2>1, <2>4, <2>5, Zenon
<1>7. ASSUME NEW m \in 0 .. n PROVE (Missed(m))' = Missed(m)
  <2> DEFINE before == {j \in 1 .. m : results[j].status # "stopped"}
             after == {j \in 1 .. m : results'[j].status # "stopped"}
  <2>1. \A j \in 1 .. m : j \in 1 .. n /\ results'[j] = results[j]
    BY <1>5
  <2>2. after = before /\ \A j \in before : results'[j] = results[j]
    BY <2>1
  <2>3. Missed(m) = UNION {results[i].missed : i \in before}
    BY DEF Missed
  <2>4. (Missed(m))' = UNION {results'[i].missed : i \in after}
    BY DEF Missed
  <2> HIDE DEF before, after
  <2> DEFINE all == {results[i].missed : i \in before}
             more == {results'[i].missed : i \in after}
  <2>5. all = more
    BY <2>2
  <2> HIDE DEF all, more
  <2>6. Missed(m) = UNION all /\ (Missed(m))' = UNION more
    BY <2>3, <2>4 DEF all, more
  <2> QED
    BY <2>5, <2>6
<1>8. (Missed(n + 1))' = IF r.status = "stopped" THEN Missed(n) ELSE Missed(n) \cup r.missed
  <2> DEFINE before == {j \in 1 .. n : results[j].status # "stopped"}
             after == {j \in 1 .. n + 1 : results'[j].status # "stopped"}
  <2>1. after = IF r.status = "stopped" THEN before ELSE before \cup {n + 1}
    BY <1>4, <1>5
  <2>2. results'[n + 1].missed = r.missed /\ \A j \in before : results'[j].missed = results[j].missed
    BY <1>4, <1>5
  <2> HIDE DEF before, after
  <2> DEFINE all == {results[i].missed : i \in before}
             more == {results'[i].missed : i \in after}
  <2>3. more = IF r.status = "stopped" THEN all ELSE all \cup {r.missed}
    <3>1. CASE r.status = "stopped"
      BY <2>1, <2>2, <3>1
    <3>2. CASE r.status # "stopped"
      BY <2>1, <2>2, <3>2
    <3> QED
      BY <3>1, <3>2
  <2>4. Missed(n) = UNION all
    BY DEF Missed, before
  <2>5. (Missed(n + 1))' = UNION more
    BY DEF Missed, after
  <2> HIDE DEF all, more
  <2> QED
    BY <2>3, <2>4, <2>5
<1>9. unmet = Missed(n)
  BY <1>0 DEF MissInv
<1>10. ASSUME NEW k \in DOMAIN results'
       PROVE  LET expected == results'[k].expected
              IN  expected = {} \/ ~(expected \subseteq (Missed(k - 1))')
  <2>1. CASE k = n + 1
    <3>1. (Missed(k - 1))' = unmet
      BY <1>5, <1>7, <1>9, <2>1
    <3> QED
      BY <1>1, <1>2, <1>4, <1>5, <2>1, <3>1 DEF allAlreadyMissed
  <2>2. CASE k # n + 1
    <3>1. k \in 1 .. n /\ k \in DOMAIN results /\ k - 1 \in 0 .. n /\ results'[k] = results[k]
      BY <1>5, <2>2
    <3>2. LET expected == results[k].expected
          IN  expected = {} \/ ~(expected \subseteq Missed(k - 1))
      BY <3>1 DEF MissInv, NoMissIsChasedAgain, Missed
    <3> QED
      BY <1>7, <3>1, <3>2
  <2> QED
    BY <2>1, <2>2
<1>11. unmet' = collectUnmet(r) => unmet' = Missed(Len(results))'
  <2>1. Missed(Len(results))' = (Missed(n + 1))'
    BY <1>5 DEF Missed
  <2> QED
    BY <1>8, <1>9, <2>1 DEF collectUnmet
<1>12. NoMissIsChasedAgain'
  BY <1>10 DEF NoMissIsChasedAgain, Missed
<1> QED
  BY <1>5, <1>6, <1>11, <1>12 DEF p

LEMMA SessionKeeps ==
    ASSUME KeptInv, MissInv, [SessionNext]_sessionVars
    PROVE  KeptInv' /\ MissInv'
<1> USE DEF files, stores, course
<1>1. CASE executeSession
  <2>1. KeptInv'
    <3>1. UNCHANGED <<results, evidence, logged>> /\ logged = evidence /\ ~recording /\ ~opened
      BY <1>1 DEF executeSession, KeptInv
    <3>2. /\ stage' # "prepare" /\ (stage' \in {"write", "closed"} => ~opened')
          /\ (stage' \in {"close", "write", "closed"} => ~recording')
      BY <1>1, <3>1 DEF executeSession
    <3> QED
      BY <3>1, <3>2 DEF KeptInv
  <2>2. MissInv'
    BY <1>1, MissStays DEF executeSession, MissInv
  <2> QED
    BY <2>1, <2>2
<1>2. ASSUME NEW to, EnsureReady(to), UNCHANGED <<course, stores, files>>, to \in {"round", "pick"},
             stage \in {"launch", "relaunch"}
      PROVE  KeptInv' /\ MissInv'
  <2>1. KeptInv'
    BY <1>2 DEF EnsureReady, Fails, KeptInv
  <2>2. {app', state'} \subseteq Views \cup {NoView} /\ stage' \notin {"reach", "run"}
    BY <1>2 DEF EnsureReady, Fails, MissInv
  <2>3. MissInv'
    BY <1>2, <2>2, MissStays DEF MissInv
  <2> QED
    BY <2>1, <2>3
<1>3. CASE FirstLaunch \/ Relaunch
  BY <1>2, <1>3 DEF FirstLaunch, Relaunch
<1>4. CASE Round
  <2>1. KeptInv'
    BY <1>4 DEF Round, Fails, KeptInv
  <2>2. MissInv'
    BY <1>4, MissStays DEF Round, Fails, MissInv
  <2> QED
    BY <2>1, <2>2
<1>5. CASE Research
  <2>1. KeptInv'
    BY <1>5 DEF Research, Fails, KeptInv
  <2>2. MissInv'
    BY <1>5, MissStays DEF Research, Fails, MissInv
  <2> QED
    BY <2>1, <2>2
<1>6. CASE PlanNext
  <2>1. KeptInv'
    BY <1>6 DEF PlanNext, Fails, KeptInv
  <2>2. plan' \in Seq(Planned)
    BY <1>6, OrderOfScenarios DEF PlanNext, MissInv
  <2>3. /\ {app', state'} \subseteq Views \cup {NoView} /\ stage' \notin {"reach", "run"}
        /\ UNCHANGED <<results, unmet>>
    BY <1>6 DEF PlanNext, Fails, MissInv
  <2> QED
    BY <2>1, <2>2, <2>3, MissStays
<1>7. CASE Pick
  <2>1. KeptInv'
    BY <1>7 DEF Pick, KeptInv
  <2>2. Head(plan') = Head(plan) \/ stage' \notin {"reach", "run"}
    BY <1>7 DEF Pick
  <2>3. plan' \in Seq(Planned)
    BY <1>7 DEF Pick, MissInv
  <2>4. stage' \in {"reach", "run"} => plan' # <<>> /\ ~allAlreadyMissed(Head(plan').expected)
    BY <1>7 DEF Pick
  <2>5. {app', state'} \subseteq Views \cup {NoView} /\ UNCHANGED <<results, unmet>>
    BY <1>7 DEF Pick, MissInv
  <2> QED
    BY <2>1, <2>3, <2>4, <2>5, MissStays
<1>8. CASE Reach
  <2>1. KeptInv'
    BY <1>8 DEF Reach, Replay, Fails, KeptInv
  <2>2. Head(plan).start \in Views \cup {NoView} /\ plan # <<>> /\ ~allAlreadyMissed(Head(plan).expected)
    BY <1>8, PlannedOfCatalog DEF MissInv, Reach
  <2>3. {app', state'} \subseteq Views \cup {NoView} /\ UNCHANGED <<results, unmet, plan>>
    BY <1>8, <2>2 DEF Reach, Replay, Fails, MissInv
  <2>4. plan' \in Seq(Planned) /\ plan' # <<>> /\ ~allAlreadyMissed(Head(plan').expected)
    BY <2>2, <2>3 DEF MissInv
  <2> QED
    BY <2>1, <2>3, <2>4, MissStays
<1>9. CASE RunScenario
  <2>1. /\ stage = "run" /\ {app', state'} \subseteq Views \cup {NoView} /\ plan' \in Seq(Planned)
        /\ stage' \in {"finalize", "round", "relaunch"} /\ UNCHANGED <<opened, recording, logged>>
    BY <1>9 DEF RunScenario, Fails, MissInv
  <2>2. CASE UNCHANGED <<unmet, results, evidence>>
    <3>1. KeptInv'
      BY <2>1, <2>2 DEF KeptInv
    <3> QED
      BY <2>1, <2>2, <3>1, MissStays
  <2>3. CASE ~UNCHANGED <<unmet, results, evidence>>
    <3>1. PICK r \in Results(Head(plan).expected) :
             /\ evidence' = Append(evidence, Head(plan).name)
             /\ results' = kept(Head(plan), r) /\ unmet' = collectUnmet(r)
      BY <1>9, <2>3 DEF RunScenario
    <3>2. /\ results' \in Seq(Returned)
          /\ NamesOf(results)' = evidence'
          /\ unmet' = Missed(Len(results))' /\ NoMissIsChasedAgain'
      BY <2>1, <3>1, ResultKept
    <3>3. KeptInv'
      BY <2>1, <3>2 DEF KeptInv
    <3> QED
      BY <2>1, <3>2, <3>3 DEF MissInv
  <2> QED
    BY <2>2, <2>3
<1>10. CASE Analyse
  <2>1. KeptInv'
    BY <1>10 DEF Analyse, Fails, KeptInv
  <2>2. MissInv'
    BY <1>10, MissStays DEF Analyse, Fails, MissInv
  <2> QED
    BY <2>1, <2>2
<1>11. CASE Finalize
  <2>1. KeptInv'
    BY <1>11 DEF Finalize, KeptInv
  <2>2. MissInv'
    BY <1>11, MissStays DEF Finalize, MissInv
  <2> QED
    BY <2>1, <2>2
<1>12. CASE CloseDriver
  <2>1. KeptInv'
    BY <1>12 DEF CloseDriver, KeptInv
  <2>2. MissInv'
    BY <1>12, MissStays DEF CloseDriver, MissInv
  <2> QED
    BY <2>1, <2>2
<1>13. CASE writeExploreArtifacts
  <2>1. KeptInv'
    <3>1. /\ stage' = "closed" /\ stage = "write" /\ logged' \in {NamesOf(results), Unwritten}
          /\ UNCHANGED <<results, evidence, opened, recording>>
      BY <1>13 DEF writeExploreArtifacts, NamesOf
    <3> QED
      BY <3>1 DEF KeptInv
  <2>2. MissInv'
    BY <1>13, MissStays DEF writeExploreArtifacts, MissInv
  <2> QED
    BY <2>1, <2>2
<1>14. CASE UNCHANGED sessionVars
  <2>1. KeptInv'
    BY <1>14 DEF sessionVars, KeptInv
  <2>2. MissInv'
    BY <1>14, MissStays DEF sessionVars, MissInv
  <2> QED
    BY <2>1, <2>2
<1> QED
  BY <1>1, <1>3, <1>4, <1>5, <1>6, <1>7, <1>8, <1>9, <1>10, <1>11, <1>12, <1>13, <1>14
  DEF SessionNext

\* What an exploration reports rests on evidence that stands: a check that the judge is
\* told of is true of the screen shown then, unless the run was handed an older screen
\* and nothing was done or observed since, and every result is in the files of a
\* session that could write them (toolbox.go, recordCheck; tester.go, RunScenario).
THEOREM EvidenceThatStands == Spec => []EvidenceStands
<1> DEFINE Inv == TesterInv /\ KeptInv /\ MissInv
<1>1. Init => Inv
  BY TesterOnly, TesterStart, SessionOnly, SessionStart
<1>2. Inv /\ [Next]_vars => Inv'
  BY TesterOnly, TesterKeeps, SessionOnly, SessionKeeps
<1>3. Inv => EvidenceStands
  <2> SUFFICES ASSUME Inv PROVE EvidenceStands
    OBVIOUS
  <2>1. ChecksAreOfThisRun
    BY DEF TesterInv, NotYet, ChecksAreOfThisRun, checksOnFinalScreen, ToSet
  <2>2. EvidenceKept
    BY DEF KeptInv, EvidenceKept, Unwritten
  <2> QED
    BY <2>1, <2>2 DEF EvidenceStands
<1> QED
  BY <1>1, <1>2, <1>3, PTL DEF Spec

\* No run spends the device on outcomes that finished runs have all looked for and
\* missed (crew.go, allAlreadyMissed and collectUnmet).
THEOREM MissesAreNotChased == Spec => []NoMissIsChasedAgain
<1> DEFINE Inv == KeptInv /\ MissInv
<1>1. Init => Inv
  BY SessionOnly, SessionStart
<1>2. Inv /\ [Next]_vars => Inv'
  BY SessionOnly, SessionKeeps
<1>3. Inv => NoMissIsChasedAgain
  BY DEF MissInv
<1> QED
  BY <1>1, <1>2, <1>3, PTL DEF Spec
=============================================================================
