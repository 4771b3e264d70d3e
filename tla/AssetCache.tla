------------------------------ MODULE AssetCache ------------------------------
(***************************************************************************)
(* One driver asset in the cache that all processes of a user share: each  *)
(* takes the asset's lock, reuses the published directory if it verifies,  *)
(* or extracts the archive into a sibling directory, verifies that and     *)
(* renames it into place.  A process may be killed anywhere, its kernel    *)
(* then frees the lock; removing a directory takes more than one step.     *)
(***************************************************************************)
EXTENDS FiniteSets

CONSTANTS
    Users,    \* processes that want the asset
    Setups,   \* those that install it (driver-setup); the others run tests with it
    Content,  \* the files of the archive, the marker apart
    NoDir     \* a directory that does not exist

VARIABLES
    doing,   \* what each process does next
    holder,  \* processes that hold the lock of the asset
    final,   \* files of the published directory
    temp,    \* files of each process's temporary directory
    manifest \* the release manifest is stored

cacheVars == <<doing, holder, final, temp, manifest>>

Whole == Content \cup {"marker"}
Ends == {"acquired", "stored", "absent", "failed", "killed"}

CacheInit ==
    /\ doing = [u \in Users |-> "begin"] /\ holder = {}
    /\ final \in {NoDir, Whole} /\ temp = [u \in Users |-> NoDir]
    /\ manifest = (final = Whole)

Goto(u, place) == doing' = [doing EXCEPT ![u] = place]
Leave(u, end) == Goto(u, end) /\ holder' = holder \ {u}
SetTemp(u, files) == temp' = [temp EXCEPT ![u] = files]

\* A cached asset damaged by somebody else is found by its verification only.
Damage ==
    /\ final = Whole /\ holder = {} /\ \A u \in Users : doing[u] = "begin"
    /\ \E file \in Content : final' = final \ {file}
    /\ UNCHANGED <<doing, holder, temp, manifest>>

\* To install the asset the manifest of the release is downloaded.
acquireDriverAsset(u) ==
    /\ doing[u] = "begin" /\ u \in Setups
    /\ \E place \in {"lock", "failed"} : Goto(u, place)
    /\ UNCHANGED <<holder, final, temp, manifest>>

\* To use it the manifest is read from where the last installation stored it;
\* without one no asset of the cache is used.
loadCachedDriverAsset(u) ==
    /\ doing[u] = "begin" /\ u \notin Setups
    /\ \E place \in IF manifest THEN {"lock", "failed"} ELSE {"absent"} : Goto(u, place)
    /\ UNCHANGED <<holder, final, temp, manifest>>

\* An advisory lock on a file of its own; waiting ends with the context.
LockIgnored == TRUE
LockIsFree == holder = {}

Lock(u) ==
    /\ doing[u] = "lock"
    /\ \/ LockIsFree /\ holder' = holder \cup {u} /\ Goto(u, "sweep")
       \/ Goto(u, "failed") /\ UNCHANGED holder
    /\ UNCHANGED <<final, temp, manifest>>

\* Whatever temporary directory the asset still has is removed, file by file.
removeInterruptedTemps(u) ==
    /\ doing[u] = "sweep"
    /\ \/ /\ \E v \in Users, file \in Whole :
             /\ temp[v] # NoDir /\ file \in temp[v]
             /\ temp' = [temp EXCEPT ![v] = @ \ {file}]
          /\ UNCHANGED <<doing, holder>>
       \/ /\ \A v \in Users : temp[v] \in {NoDir, {}}
          /\ temp' = [v \in Users |-> NoDir] /\ Goto(u, "look") /\ UNCHANGED holder
       \/ Leave(u, "failed") /\ UNCHANGED temp
    /\ UNCHANGED <<final, manifest>>

\* The published directory is read file by file and its identity asked of the
\* platform's tools; a cancelled context and a failing tool refuse a good one too.
LookUp(u) ==
    /\ doing[u] = "look"
    /\ \/ final = NoDir /\ Goto(u, "download") /\ UNCHANGED holder
       \/ final = Whole /\ Leave(u, "acquired")
       \/ final # NoDir /\ Goto(u, "remove") /\ UNCHANGED holder
    /\ UNCHANGED <<final, temp, manifest>>

RemoveInvalid(u) ==
    /\ doing[u] = "remove"
    /\ \/ /\ \E file \in final : final' = final \ {file}
          /\ UNCHANGED <<doing, holder>>
       \/ final = {} /\ final' = NoDir /\ Goto(u, "download") /\ UNCHANGED holder
       \/ Leave(u, "failed") /\ UNCHANGED <<final>>
    /\ UNCHANGED <<temp, manifest>>

\* The release's archive goes to a file of its own and its attestation is asked for.
Download(u) ==
    /\ doing[u] = "download"
    /\ (Goto(u, "fetch") /\ UNCHANGED holder) \/ Leave(u, "failed")
    /\ UNCHANGED <<final, temp, manifest>>

\* The download is compared with the size and the hash the manifest declares.
readAndVerifyArchive(u) ==
    /\ doing[u] = "fetch"
    /\ \/ SetTemp(u, {}) /\ Goto(u, "extract") /\ UNCHANGED holder
       \/ Leave(u, "failed") /\ UNCHANGED temp
    /\ UNCHANGED <<final, manifest>>

Unwritten(u) == (IF Content \subseteq temp[u] THEN {"marker"} ELSE Content) \ temp[u]

\* Every declared file once, then the marker; an error removes the directory.  Files
\* written into a directory that is being removed are lost with it.
extractArchive(u) ==
    /\ doing[u] = "extract"
    /\ \/ /\ temp[u] # NoDir
          /\ \E file \in Unwritten(u) : SetTemp(u, temp[u] \cup {file})
          /\ UNCHANGED <<doing, holder>>
       \/ temp[u] = Whole /\ Goto(u, "verify") /\ UNCHANGED <<temp, holder>>
       \/ SetTemp(u, NoDir) /\ Leave(u, "failed")
    /\ UNCHANGED <<final, manifest>>

verifyAssetDirectory(u) ==
    /\ doing[u] = "verify"
    /\ \/ temp[u] = Whole /\ Goto(u, "publish") /\ UNCHANGED <<temp, holder>>
       \/ SetTemp(u, NoDir) /\ Leave(u, "failed")
    /\ UNCHANGED <<final, manifest>>

\* One rename; it fails when the target is there.
Publish(u) ==
    /\ doing[u] = "publish"
    /\ \/ /\ temp[u] # NoDir /\ final = NoDir
          /\ final' = temp[u] /\ SetTemp(u, NoDir) /\ Leave(u, "acquired")
       \/ SetTemp(u, NoDir) /\ Leave(u, "failed") /\ UNCHANGED final
    /\ UNCHANGED manifest

\* The manifest is stored with the asset in place, by a rename as well.
storeReleaseDriverManifest(u) ==
    /\ doing[u] = "acquired" /\ u \in Setups
    /\ \/ manifest' = TRUE /\ Goto(u, "stored")
       \/ Goto(u, "failed") /\ UNCHANGED manifest
    /\ UNCHANGED <<holder, final, temp>>

\* The process dies: its lock is freed, its files stay as they are.
Kill(u) ==
    /\ doing[u] \notin Ends /\ Leave(u, "killed")
    /\ UNCHANGED <<final, temp, manifest>>

Acquire(u) ==
    \/ acquireDriverAsset(u) \/ loadCachedDriverAsset(u) \/ Lock(u) \/ removeInterruptedTemps(u) \/ LookUp(u) \/ RemoveInvalid(u)
    \/ Download(u) \/ readAndVerifyArchive(u) \/ extractArchive(u) \/ verifyAssetDirectory(u)
    \/ Publish(u) \/ storeReleaseDriverManifest(u)

CacheStep == \E u \in Users : Acquire(u)

CacheNext == CacheStep \/ Damage \/ \E u \in Users : Kill(u)

-----------------------------------------------------------------------------
\* Acquire hands over a whole, verified directory, whatever was killed before
\* and whoever acquires the asset at the same time; and it leaves no temporary
\* directory of a process that is alive (manager.go, Acquire; locker.go).
AcquiredIsWhole ==
    [][\A u \in Users : doing'[u] # doing[u] =>
        /\ doing'[u] = "acquired" => final' = Whole
        /\ doing'[u] \in {"acquired", "failed"} => temp'[u] = NoDir]_cacheVars
=============================================================================
