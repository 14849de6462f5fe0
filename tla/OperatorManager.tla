--------------------------- MODULE OperatorManager ---------------------------
(***************************************************************************)
(* operator/main.go and the way it is deployed: two operator processes,    *)
(* "a" and "b", such as the old and the new pod of an update.  Each is a   *)
(* Reconciler with caches and a queue of its own over the one API server.  *)
(* With --leader-elect a process starts its controller only while it holds *)
(* the lease; without, at once.                                            *)
(*                                                                         *)
(* External: client-go's leader election, from how main.go asks for it.  A *)
(* holder that cannot renew the lease gives up, and main exits, before the *)
(* lease expires (its renew deadline is shorter than the lease), and a     *)
(* process that stops does not hand the lease back.                        *)
(***************************************************************************)
EXTENDS GamePlatform

CONSTANTS
  Platforms, Specs, Limit, Total, Legacy, AllowVolumeExpansion,   \* as in Reconciler
  LeaderElect,     \* the flag --leader-elect
  LeasesAllowed    \* does the operator's role grant anything on leases?

VARIABLES
  gp, store, blocked, used,                            \* the API server and the disturbances
  gpCacheA, cacheA, currentA, wokenA, queueA, recA,    \* what process "a" keeps in memory
  gpCacheB, cacheB, currentB, wokenB, queueB, recB,    \* what process "b" keeps in memory
  running,   \* the processes whose controller runs
  lease,     \* the process named in the lease, or None
  latest     \* the process whose controller was the last to start

server  == << gp, store, blocked, used >>
memoryA == << gpCacheA, cacheA, currentA, wokenA, queueA, recA >>
memoryB == << gpCacheB, cacheB, currentB, wokenB, queueB, recB >>
manager == << running, lease, latest >>

vars == << server, memoryA, memoryB, manager >>

A == INSTANCE Reconciler WITH
       gpCache <- gpCacheA, cache <- cacheA, current <- currentA, woken <- wokenA,
       queue <- queueA, rec <- recA

B == INSTANCE Reconciler WITH
       gpCache <- gpCacheB, cache <- cacheB, current <- currentB, woken <- wokenB,
       queue <- queueB, rec <- recB

ASSUME ManagerAssumption ==
  /\ A!ReconcilerAssumption /\ A!NoneAssumption
  /\ LeaderElect \in BOOLEAN /\ LeasesAllowed \in BOOLEAN
  /\ None \notin {"a", "b"}

\* The memory of a process without a controller: its informers have not been started.
NoPlatforms == [p \in Platforms |-> None]
NoObjects   == [o \in Objects |-> None]
NoWakes     == [o \in Objects |-> {}]

Init ==
  /\ B!Init
  /\ gpCacheA = NoPlatforms /\ cacheA = NoObjects /\ currentA = {} /\ wokenA = NoWakes
  /\ queueA = {} /\ recA = B!Idle
  /\ running = {} /\ lease = None /\ latest = "b"

-----------------------------------------------------------------------------
(* What one process does to the API server, the other's informers are yet  *)
(* to deliver.                                                             *)

Changed == {o \in Objects : store'[o] # store[o]}

Missed(old) ==
  [o \in Objects |-> IF o \in Changed THEN old[o] \cup A!OwnersOf(store[o], store'[o])
                                      ELSE old[o]]

FallBehindA ==
  /\ currentA' = currentA \ Changed /\ wokenA' = Missed(wokenA)
  /\ UNCHANGED << gpCacheA, cacheA, queueA, recA >>

FallBehindB ==
  /\ currentB' = currentB \ Changed /\ wokenB' = Missed(wokenB)
  /\ UNCHANGED << gpCacheB, cacheB, queueB, recB >>

\* A step of the surroundings, and one of the controller of either process.
World(step) == step /\ FallBehindB /\ UNCHANGED manager
InA(step)   == "a" \in running /\ step /\ FallBehindB /\ UNCHANGED manager
InB(step)   == "b" \in running /\ step /\ FallBehindA /\ UNCHANGED manager

-----------------------------------------------------------------------------
(* Processes come and go.                                                  *)

\* A mutation: the lease is taken whoever holds it.
MayLeadRegardless == LeaderElect => LeasesAllowed

\* mgr.Start waits for the lease, with --leader-elect, before it starts the
\* controller; a lease that may not be read or written is never had.
MayLead == LeaderElect => (LeasesAllowed /\ lease = None)

\* A controller starts: informers list, the queue fills.  Nobody leads twice, for main
\* exits when mgr.Start returns; the names are given to new processes in turn.
Lead(p) ==
  /\ p \notin running /\ MayLead
  /\ running = {} => p # latest
  /\ running' = running \cup {p}
  /\ lease' = IF LeaderElect THEN p ELSE None
  /\ latest' = p
  /\ UNCHANGED server

ClearA ==
  /\ gpCacheA' = NoPlatforms /\ cacheA' = NoObjects /\ currentA' = {} /\ wokenA' = NoWakes
  /\ queueA' = {} /\ recA' = A!Idle

ClearB ==
  /\ gpCacheB' = NoPlatforms /\ cacheB' = NoObjects /\ currentB' = {} /\ wokenB' = NoWakes
  /\ queueB' = {} /\ recB' = A!Idle

\* What a process that is gone had in memory is gone too; it is dropped here, when
\* its successor starts, and not before, so that OneOperator can speak of it.
LeadA ==
  /\ Lead("a") /\ A!Relist
  /\ IF "b" \in running THEN UNCHANGED memoryB ELSE ClearB

LeadB ==
  /\ Lead("b") /\ B!Relist
  /\ IF "a" \in running THEN UNCHANGED memoryA ELSE ClearA

\* A pod is replaced or crashes, or a holder could not renew its lease and main exits.
Stop(p) ==
  /\ p \in running
  /\ A!Disturb("restart")
  /\ running' = running \ {p}
  /\ UNCHANGED << gp, store, blocked, memoryA, memoryB, lease, latest >>

\* The lease of a process that is gone expires, and only such a one.
ExpireLease ==
  /\ lease # None /\ lease \notin running
  /\ lease' = None
  /\ UNCHANGED << server, memoryA, memoryB, running, latest >>

Next ==
  \/ World(A!Environment) \/ World(A!Cluster)
  \/ InA(A!Informers) \/ InA(A!Worker)
  \/ InB(B!Informers) \/ InB(B!Worker)
  \/ LeadA \/ LeadB
  \/ \E p \in {"a", "b"} : Stop(p)
  \/ ExpireLease

Spec == Init /\ [][Next]_vars

\* As in Reconciler, for each process that runs; leases expire, and a process that
\* waits for one keeps asking.
FairSpec ==
  /\ Spec
  /\ WF_vars(World(A!Cluster))
  /\ WF_vars(InA(\E p \in Platforms : A!SyncPlatform(p)))
  /\ WF_vars(InA(\E o \in Objects : A!SyncObject(o)))
  /\ WF_vars(InA(A!Worker))
  /\ WF_vars(InB(\E p \in Platforms : B!SyncPlatform(p)))
  /\ WF_vars(InB(\E o \in Objects : B!SyncObject(o)))
  /\ WF_vars(InB(B!Worker))
  /\ WF_vars(LeadA \/ LeadB)
  /\ WF_vars(ExpireLease)

-----------------------------------------------------------------------------
(* Properties.                                                             *)

\* One operator at work is enough to tell the truth (see Reconciler): with the
\* lease, so do several processes that take turns, each starting from nothing.
WorkloadsApplied == A!WorkloadsApplied

\* Reconciler with the memory of the process whose controller started last; a process
\* that leads counts as a restart.
Last(a, b) == IF latest = "a" THEN a ELSE b

gpCache == Last(gpCacheA, gpCacheB)
cache   == Last(cacheA, cacheB)
current == Last(currentA, currentB)
woken   == Last(wokenA, wokenB)
queue   == Last(queueA, queueB)
rec     == Last(recA, recB)

disturbed == [used EXCEPT !["restart"] = @ + Cardinality(running)]

One == INSTANCE Reconciler WITH
         used <- disturbed, Limit <- [Limit EXCEPT !["restart"] = @ + 1], Total <- Total + 1

\* With --leader-elect the processes together are one operator that is restarted now
\* and then (main.go, LeaderElection): no step of a process that lost the lease is
\* ever mixed into its successor's work.
OneOperator == One!Spec

\* The platform heals whichever processes run: with two operators at once, each
\* undoing what the other wrote from older grounds; or, as docs_05 expects of
\* `kubectl apply -k k8s-v2`, with the one that the manifests start.
Converges == A!Converges
==============================================================================
