--------------------------- MODULE ConcurrentClaim ---------------------------
(***************************************************************************)
(* ClaimInput as PostgreSQL runs it.  SessionStore takes the statement for *)
(* one atomic step; it is a single UPDATE at READ COMMITTED, and several   *)
(* workers of a process (--worker-concurrency) run it at the same time.    *)
(* The statement works on the snapshot it starts with.  Only the job row   *)
(* it is about to lock is looked at again: a row another statement holds   *)
(* locked is skipped (SKIP LOCKED), and one that was changed meanwhile has *)
(* its own conditions rechecked on its new version.  What the other tables *)
(* and the other jobs of the session are asked (NOT EXISTS) is answered by *)
(* the snapshot.                                                           *)
(***************************************************************************)
EXTENDS SessionStore

CONSTANTS
    Claimers,   \* the statements that can be in progress at once
    NoSnapshot  \* a claimer between two statements

\* What each statement in progress has seen: the lease it is made under (by), and the
\* claim generation of each job row its WHERE clause selected (seen).
VARIABLE snapshot

ConcurrentInit == Init /\ snapshot = [c \in Claimers |-> NoSnapshot]

-----------------------------------------------------------------------------
\* The rows the statement's WHERE clause selects when it starts.
Selected(l) ==
    {i \in Inputs : \E s \in Sessions :
        /\ job[i].session = s /\ job[i].epoch = l.epoch
        /\ Serving(l, s)
        /\ frame[s].state = "none"
        /\ Eligible(s, i)}

StartClaim(p, c) ==
    /\ snapshot[c] = NoSnapshot
    /\ LeaseLive(lease[p])
    /\ snapshot' = [snapshot EXCEPT ![c] =
                       [by |-> lease[p], seen |-> [i \in Selected(lease[p]) |-> job[i].claimGen]]]
    /\ UNCHANGED vars

\* The conditions on the job row itself, asked again of its latest version: it is
\* pending, or claimed under the claim that had lapsed already; the claim another
\* statement has made meanwhile has not.  Mutant: the row is taken as the snapshot
\* shows it.
AsInSnapshot(c, i) == TRUE
StillQueued(c, i) ==
    /\ job[i].epoch = snapshot[c].by.epoch
    /\ \/ job[i].state = "pending"
       \/ job[i].state = "claimed" /\ job[i].claimGen = snapshot[c].seen[i]

\* The candidates are tried in the order of the requests.
Candidate(c, i) ==
    /\ i \in DOMAIN snapshot[c].seen
    /\ StillQueued(c, i)
    /\ \A j \in DOMAIN snapshot[c].seen :
          job[j].session = job[i].session /\ j < i => ~StillQueued(c, j)

FinishClaim(c, i) ==
    LET gen == job[i].claimGen + 1
    IN  /\ snapshot[c] # NoSnapshot
        /\ Candidate(c, i)
        /\ gen <= MaxClaims
        /\ job' = [job EXCEPT ![i].state = "claimed", ![i].claimGen = gen,
                              ![i].claimedEpoch = snapshot[c].by.epoch]
        /\ inputWork' = inputWork \cup
               {[input |-> i, epoch |-> snapshot[c].by.epoch, claimGen |-> gen]}
        /\ snapshot' = [snapshot EXCEPT ![c] = NoSnapshot]
        /\ UNCHANGED <<nodeVars, session, device, frame, content, events, idem, frameWork>>

\* No row is left: ErrNotFound.
ClaimNothing(c) ==
    /\ snapshot[c] # NoSnapshot
    /\ \A i \in Inputs : ~Candidate(c, i)
    /\ snapshot' = [snapshot EXCEPT ![c] = NoSnapshot]
    /\ UNCHANGED vars

\* Every other transaction is as in SessionStore; its ClaimInput is the statement
\* that meets no other one.
ConcurrentNext ==
    \/ Next /\ UNCHANGED snapshot
    \/ \E p \in Procs, c \in Claimers : StartClaim(p, c)
    \/ \E c \in Claimers, i \in Inputs : FinishClaim(c, i)
    \/ \E c \in Claimers : ClaimNothing(c)

concurrentVars == <<node, lease, owner, session, device, job, frame, content, events, idem,
                    inputWork, frameWork, snapshot>>

ConcurrentSpec == ConcurrentInit /\ [][ConcurrentNext]_concurrentVars

-----------------------------------------------------------------------------
\* However the statements overlap, an input that executes, or is done, is not
\* claimed again by one that still saw it queued: it goes to no second worker.
OverlapNeverReruns ==
    [][\A i \in Inputs :
          job[i].state \in {"executing", "done"} =>
              job'[i].state \in {"executing", "done"} /\ job'[i].claimGen = job[i].claimGen
      ]_concurrentVars

=============================================================================
