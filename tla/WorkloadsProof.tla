---------------------------- MODULE WorkloadsProof ----------------------------
(***************************************************************************)
(* Why a claim of success is true of Deployments and Services              *)
(* (Reconciler!WorkloadsApplied), for every slice, any number of platforms *)
(* and specifications, and every disturbance but deletions and edits by    *)
(* hand.                                                                   *)
(*                                                                         *)
(* The operator always sends an update for these objects, and the API      *)
(* server takes it only from a writer that has seen the latest version: an *)
(* object that ensureAll is through with is in place in the API server     *)
(* itself.  It stays in place until the claim is made, and as long as the  *)
(* claim stands, because the caches and the reconciliations only ever move *)
(* on to newer generations: nothing older than the claim is carried out    *)
(* after it.                                                               *)
(***************************************************************************)
EXTENDS ReconcilerProof

Workload(o) == o.kind \in {"Deployment", "Service"}

\* A version of a platform that may be outdated, beside a later one.
NotNewer(g, h) ==
  /\ g.uid = h.uid
  /\ g.generation <= h.generation
  /\ g.generation = h.generation => g.spec = h.spec

CacheBehind ==
  \A p \in Platforms : gpCache[p] # None => gp[p] # None /\ NotNewer(gpCache[p], gp[p])

\* No status speaks of a generation that the operator has yet to see.
StatusBehind ==
  \A p \in Platforms : gp[p] # None =>
    LET seen == gp[p].status.observedGeneration
    IN  /\ gp[p].generation >= 1 /\ seen <= gp[p].generation
        /\ seen = 0 \/ (gpCache[p] # None /\ seen <= gpCache[p].generation)

SnapshotBehind ==
  rec.pc # "idle" =>
    LET p == rec.req
    IN  /\ gp[p] # None /\ NotNewer(rec.snap, gp[p])
        /\ gpCache[p] # None /\ rec.snap.generation <= gpCache[p].generation
        /\ gp[p].status.observedGeneration <= rec.snap.generation

\* Without deletions the garbage collector finds no owner gone.
OwnersLive ==
  \A o \in Objects : (store[o] # None /\ store[o].owner # None) =>
    LET p == store[o].owner.name IN gp[p] # None /\ gp[p].uid = store[o].owner.uid

InPlace(p, spec, o) ==
  /\ store[o] # None
  /\ store[o].owner # None /\ store[o].owner.name = p
  /\ store[o].content = Desired(spec, o)

DoneInPlace ==
  rec.pc # "idle" => \A o \in rec.done : Workload(o) => InPlace(rec.req, rec.snap.spec, o)

ClaimsInPlace ==
  \A p \in Platforms : ClaimsSuccess(p) =>
    \A o \in Wanted(gp[p].spec) : Workload(o) => InPlace(p, gp[p].spec, o)

Behind == CacheBehind /\ StatusBehind /\ SnapshotBehind
Tied == Behind /\ OwnersLive /\ DoneInPlace /\ ClaimsInPlace

-----------------------------------------------------------------------------
(* Steps that leave owners and payloads alone.                             *)

QuietObjects ==
  \A o \in Objects :
    /\ store[o] = None => store'[o] = None
    /\ store[o] # None => /\ store'[o] # None /\ store'[o].owner = store[o].owner
                          /\ store'[o].content = store[o].content

\* A claim is about the generation it stands beside, and only the platform's record
\* makes it.
LEMMA Claim ==
  ASSUME NEW p \in Platforms
  PROVE  /\ ClaimsSuccess(p) => gp[p] # None
         /\ ClaimsSuccess(p)' => /\ gp'[p] # None
                                 /\ gp'[p].status.observedGeneration = gp'[p].generation
         /\ ClaimsSuccess(p) => gp[p].status.observedGeneration = gp[p].generation
         /\ (gp'[p] = gp[p] /\ ClaimsSuccess(p)') => ClaimsSuccess(p)
<1>1. gp'[p] = gp[p] => (ClaimsSuccess(p)' => ClaimsSuccess(p))
  BY Zenon DEF ClaimsSuccess
<1>. QED
  BY <1>1 DEF ClaimsSuccess

\* Reconciliations know the objects of the slice only.
LEMMA InSlice ==
  /\ TypeOK /\ rec.pc # "idle" => rec.done \subseteq Objects
  /\ \A spec : Wanted(spec) \subseteq Objects
<1>1. TypeOK /\ rec.pc # "idle" => rec.done \subseteq Objects
  BY ActiveType DEF Reconciliations
<1>2. \A spec : Wanted(spec) \subseteq Objects
  BY DEF Wanted, Objects
<1>. QED
  BY <1>1, <1>2

LEMMA QuietKeeps ==
  ASSUME TypeOK, Tied, QuietObjects, UNCHANGED << gp, gpCache, rec >>
  PROVE  Tied'
<1>1. \A p, spec : \A o \in Objects : InPlace(p, spec, o) => InPlace(p, spec, o)'
  BY DEF QuietObjects, InPlace
<1>2. Behind'
  BY DEF Tied, Behind, CacheBehind, StatusBehind, SnapshotBehind
<1>3. OwnersLive'
  BY DEF Tied, OwnersLive, QuietObjects
<1>4. DoneInPlace'
  BY <1>1, InSlice DEF Tied, DoneInPlace
<1>5. ClaimsInPlace'
  BY <1>1, InSlice DEF Tied, ClaimsInPlace, ClaimsSuccess
<1>. QED
  BY <1>2, <1>3, <1>4, <1>5 DEF Tied

LEMMA RolloutQuiet ==
  ASSUME TypeOK, NEW o \in Objects, ObserveDeployment(o) \/ RollOut(o) \/ PodFailure(o)
  PROVE  QuietObjects
<1>1. store[o] \in StoredObjects(o)
  BY RolloutReplaced
<1>2. PICK r \in Rollouts(o) : Put(o, [store[o] EXCEPT !.rollout = r])
  BY RolloutReplaced
<1>3. /\ [store[o] EXCEPT !.rollout = r].owner = store[o].owner
      /\ [store[o] EXCEPT !.rollout = r].content = store[o].content
      /\ [store[o] EXCEPT !.rollout = r] \in StoredObjects(o)
  BY <1>1 DEF StoredObjects
<1>4. store'[o] = [store[o] EXCEPT !.rollout = r]
  BY <1>2 DEF Put, TypeOK
<1>5. \A q \in Objects : q # o => store'[q] = store[q]
  BY <1>2 DEF Put, TypeOK
<1>. QED
  BY <1>1, <1>3, <1>4, <1>5, NoneAssumption DEF QuietObjects

-----------------------------------------------------------------------------
(* Users.                                                                  *)

\* A new platform has no status yet, and nobody knows of it.
LEMMA CreateKeeps ==
  ASSUME TypeOK, Tied, NEW p \in Platforms, CreatePlatform(p)
  PROVE  Tied'
<1>1. PICK s \in Specs :
        gp' = [gp EXCEPT ![p] = [uid |-> used["create"] + 1, generation |-> 1,
                                 spec |-> s, status |-> EmptyStatus]]
  BY DEF CreatePlatform
<1>. DEFINE g == [uid |-> used["create"] + 1, generation |-> 1, spec |-> s,
                  status |-> EmptyStatus]
<1>2. /\ gp[p] = None /\ gp'[p] = g
      /\ \A q \in Platforms : q # p => gp'[q] = gp[q]
      /\ UNCHANGED << store, gpCache, rec >>
  BY <1>1 DEF CreatePlatform, operatorVars, TypeOK
<1>3. gpCache[p] = None
  BY <1>2 DEF Tied, Behind, CacheBehind
<1>4. Behind'
  <2>1. CacheBehind'
    BY <1>2, <1>3 DEF Tied, Behind, CacheBehind
  <2>2. StatusBehind'
    <3>1. g.generation = 1 /\ g.status.observedGeneration = 0
      BY DEF EmptyStatus
    <3>. HIDE DEF g
    <3>. QED
      BY <1>2, <3>1 DEF Tied, Behind, StatusBehind
  <2>3. SnapshotBehind'
    <3>1. rec.pc # "idle" => rec.req \in Platforms /\ rec.req # p
      BY <1>2, ActiveType DEF Reconciliations, Tied, Behind, SnapshotBehind
    <3>. QED
      BY <1>2, <3>1 DEF Tied, Behind, SnapshotBehind
  <2>. QED
    BY <2>1, <2>2, <2>3 DEF Behind
<1>5. OwnersLive'
  <2>. SUFFICES ASSUME NEW o \in Objects, store[o] # None, store[o].owner # None
                PROVE  /\ gp'[store[o].owner.name] # None
                       /\ gp'[store[o].owner.name].uid = store[o].owner.uid
    BY <1>2 DEF OwnersLive
  <2>1. store[o].owner.name \in Platforms
    BY DEF TypeOK, StoredObjects, Refs
  <2>2. gp[store[o].owner.name] # None
    BY DEF Tied, OwnersLive
  <2>. QED
    BY <1>2, <2>1, <2>2 DEF Tied, OwnersLive
<1>6. DoneInPlace'
  BY <1>2 DEF Tied, DoneInPlace, InPlace
<1>7. ClaimsInPlace'
  <2>1. ~ClaimsSuccess(p)'
    <3>1. g.generation = 1 /\ g.status.observedGeneration = 0
      BY DEF EmptyStatus
    <3>. HIDE DEF g
    <3>. QED
      BY <1>2, <3>1, Claim
  <2>. QED
    BY <1>2, <2>1, Claim DEF Tied, ClaimsInPlace, InPlace
<1>. QED
  BY <1>4, <1>5, <1>6, <1>7 DEF Tied

\* An edit outdates every claim and whatever the operator has seen.
LEMMA EditKeeps ==
  ASSUME TypeOK, Tied, NEW p \in Platforms, EditPlatform(p)
  PROVE  Tied'
<1>. DEFINE g == gp'[p]
<1>1. PICK s \in Specs : gp' = [gp EXCEPT ![p].spec = s, ![p].generation = @ + 1]
  BY ReconcilerAssumption DEF EditPlatform
<1>2. gp[p] \in PlatformRecords
  BY DEF EditPlatform, TypeOK
<1>3. /\ g # None /\ g.uid = gp[p].uid /\ g.generation = gp[p].generation + 1
      /\ g.status = gp[p].status
  <2>1. gp'[p] = [gp[p] EXCEPT !.spec = s, !.generation = @ + 1]
    BY <1>1 DEF TypeOK
  <2>2. [gp[p] EXCEPT !.spec = s, !.generation = @ + 1] \in PlatformRecords
    <3>1. gp[p].generation + 1 \in Nat
      BY <1>2 DEF PlatformRecords
    <3>2. \A h \in PlatformRecords, n \in Nat :
            [h EXCEPT !.spec = s, !.generation = n] \in PlatformRecords
      BY DEF PlatformRecords
    <3>. QED
      BY <1>2, <3>1, <3>2
  <2>. QED
    BY <1>2, <2>1, <2>2, NoneAssumption DEF PlatformRecords
<1>4. gp[p] # None /\ gp[p].generation \in Nat /\ gp[p].status.observedGeneration \in Nat
  BY <1>2, NoneAssumption DEF PlatformRecords, Statuses
<1>5. /\ \A q \in Platforms : q # p => gp'[q] = gp[q]
      /\ UNCHANGED << store, gpCache, rec >>
  BY <1>1 DEF EditPlatform, operatorVars, TypeOK
<1>6. \A h : (h.generation \in Nat /\ NotNewer(h, gp[p])) => NotNewer(h, g)
  BY <1>3, <1>4 DEF NotNewer
<1>. HIDE DEF g
<1>7. CacheBehind'
  <2>1. \A q \in Platforms : gpCache[q] # None => gpCache[q].generation \in Nat
    BY DEF TypeOK, PlatformRecords
  <2>. QED
    BY <1>3, <1>5, <1>6, <2>1 DEF Tied, Behind, CacheBehind, g
<1>8. StatusBehind'
  BY <1>3, <1>4, <1>5 DEF Tied, Behind, StatusBehind, g
<1>9. SnapshotBehind'
  <2>. SUFFICES ASSUME rec.pc # "idle"
                PROVE  LET q == rec.req
                       IN  /\ gp'[q] # None /\ NotNewer(rec.snap, gp'[q])
                           /\ gpCache[q] # None /\ rec.snap.generation <= gpCache[q].generation
                           /\ gp'[q].status.observedGeneration <= rec.snap.generation
    BY <1>5 DEF SnapshotBehind
  <2>1. rec.req \in Platforms /\ rec.snap.generation \in Nat
    BY ActiveType DEF Reconciliations, PlatformRecords
  <2>. QED
    BY <1>3, <1>5, <1>6, <2>1 DEF Tied, Behind, SnapshotBehind, g
<1>10. OwnersLive'
  <2>1. \A o \in Objects : store[o] # None /\ store[o].owner # None =>
          store[o].owner.name \in Platforms
    BY DEF TypeOK, StoredObjects, Refs
  <2>. QED
    BY <1>3, <1>5, <2>1 DEF Tied, OwnersLive, g
<1>11. DoneInPlace'
  BY <1>5 DEF Tied, DoneInPlace, InPlace
<1>12. ClaimsInPlace'
  <2>1. ~ClaimsSuccess(p)'
    BY <1>3, <1>4, Claim DEF Tied, Behind, StatusBehind, g
  <2>. QED
    BY <1>5, <2>1, Claim DEF Tied, ClaimsInPlace, InPlace
<1>. QED
  BY <1>7, <1>8, <1>9, <1>10, <1>11, <1>12 DEF Tied, Behind

-----------------------------------------------------------------------------
(* The informers, the queue and restarts.                                  *)

\* The caches only ever move on to what is stored.
LEMMA RefreshKeeps ==
  ASSUME TypeOK, Tied, UNCHANGED << gp, store >>,
         gpCache' \in [Platforms -> PlatformRecords \cup {None}],
         \A p \in Platforms : gpCache'[p] = gp[p] \/ gpCache'[p] = gpCache[p],
         rec' = rec \/ rec' = Idle
  PROVE  Tied'
<1>1. \A p \in Platforms : gp[p] # None =>
        /\ gp[p].generation \in Nat /\ gp[p].status.observedGeneration \in Nat
        /\ gpCache[p] # None => gpCache[p].generation \in Nat
  BY DEF TypeOK, PlatformRecords, Statuses
<1>2. CacheBehind'
  BY <1>1 DEF Tied, Behind, CacheBehind, NotNewer
<1>3. StatusBehind'
  BY <1>1 DEF Tied, Behind, StatusBehind
<1>4. SnapshotBehind'
  <2>1. CASE rec' = Idle
    BY <2>1 DEF SnapshotBehind, Idle
  <2>2. CASE rec' = rec
    <3>1. rec.pc # "idle" =>
            rec.req \in Platforms /\ rec.snap.generation \in Nat
      BY ActiveType DEF Reconciliations, PlatformRecords
    <3>. QED
      BY <1>1, <2>2, <3>1 DEF Tied, Behind, SnapshotBehind, NotNewer
  <2>. QED
    BY <2>1, <2>2
<1>5. OwnersLive' /\ ClaimsInPlace'
  BY DEF Tied, OwnersLive, ClaimsInPlace, ClaimsSuccess, InPlace
<1>6. DoneInPlace'
  BY DEF Tied, DoneInPlace, InPlace, Idle
<1>. QED
  BY <1>2, <1>3, <1>4, <1>5, <1>6 DEF Tied, Behind

LEMMA StartKeeps ==
  ASSUME TypeOK, Tied, NEW p \in Platforms, StartReconcile(p)
  PROVE  Tied'
<1>1. /\ rec' = [pc |-> "ensure", req |-> p, snap |-> gpCache[p], done |-> {}]
      /\ gpCache[p] # None /\ UNCHANGED << gp, store, gpCache >>
  BY DEF StartReconcile
<1>2. /\ gpCache[p].generation \in Nat
      /\ gp[p] # None /\ NotNewer(gpCache[p], gp[p])
      /\ gp[p].status.observedGeneration <= gpCache[p].generation
  BY <1>1 DEF TypeOK, PlatformRecords, Tied, Behind, CacheBehind, StatusBehind
<1>3. SnapshotBehind'
  BY <1>1, <1>2 DEF SnapshotBehind
<1>4. DoneInPlace'
  BY <1>1 DEF DoneInPlace
<1>5. CacheBehind' /\ StatusBehind' /\ OwnersLive' /\ ClaimsInPlace'
  BY <1>1 DEF Tied, Behind, CacheBehind, StatusBehind, OwnersLive, ClaimsInPlace,
              ClaimsSuccess, InPlace
<1>. QED
  BY <1>3, <1>4, <1>5 DEF Tied, Behind
-----------------------------------------------------------------------------
(* The operator's own steps.                                               *)

\* What reconcileObject leaves behind, and on what grounds.
LEMMA EnsuredObject ==
  ASSUME IInv, NEW o \in Objects, EnsureSucceeds(o)
  PROVE  /\ rec \in Reconciliations
         /\ Mutated(o) # None /\ Mutated(o).owner = ControllerRef
         /\ Mutated(o).content = Desired(rec.snap.spec, o)
         /\ ControllerRef # None /\ ControllerRef.name = rec.req
         /\ ControllerRef.uid = rec.snap.uid
         /\ Exists(o) => cache[o] # None
         /\ (Workload(o) /\ cache[o] # None) => cache[o] = store[o]
         /\ (cache[o] # None /\ cache[o].owner # None) => cache[o].owner.name = rec.req
<1>1. rec \in Reconciliations
  BY ActiveType DEF EnsureSucceeds, IInv
<1>2. ControllerRef # None /\ ControllerRef.name = rec.req /\ ControllerRef.uid = rec.snap.uid
  BY <1>1, ControllerRefType, ReconcilerAssumption DEF ControllerRef
<1>3. Mutated(o) # None
  BY <1>1, MutatedType, NoneAssumption DEF IInv
<1>4. Mutated(o).owner = ControllerRef /\ Mutated(o).content = Desired(rec.snap.spec, o)
  <2>1. CASE cache[o] = None
    BY <2>1 DEF Mutated
  <2>2. CASE cache[o] # None
    BY <2>2 DEF Mutated, IInv, TypeOK, StoredObjects
  <2>. QED
    BY <2>1, <2>2
<1>5. Exists(o) => cache[o] # None
  BY DEF EnsureSucceeds, ReconcileFails, CreateFails
<1>6. (Workload(o) /\ cache[o] # None) => cache[o] = store[o]
  BY DEF EnsureSucceeds, ReconcileFails, UpdateFails, UpdateSent, Workload, IInv, FreshCache
<1>7. (cache[o] # None /\ cache[o].owner # None) => cache[o].owner.name = rec.req
  BY DEF EnsureSucceeds, ReconcileFails, AlreadyOwned
<1>. QED
  BY <1>1, <1>2, <1>3, <1>4, <1>5, <1>6, <1>7

LEMMA EnsureKeeps ==
  ASSUME IInv, Tied, NEW o \in Objects, EnsureSucceeds(o)
  PROVE  Tied'
<1>. DEFINE m == Mutated(o)
            s == rec.snap.spec
<1>1. rec \in Reconciliations /\ rec.pc = "ensure" /\ rec.req \in Platforms
  BY EnsuredObject DEF EnsureSucceeds, Reconciliations
<1>2. /\ rec'.pc = "ensure" /\ rec'.req = rec.req /\ rec'.snap = rec.snap
      /\ rec'.done = rec.done \cup {o} /\ UNCHANGED << gp, gpCache >>
  BY <1>1 DEF EnsureSucceeds, Reconciliations
<1>3. Behind'
  BY <1>1, <1>2 DEF Tied, Behind, CacheBehind, StatusBehind, SnapshotBehind
<1>4. gp[rec.req] # None /\ NotNewer(rec.snap, gp[rec.req])
  BY <1>1 DEF Tied, Behind, SnapshotBehind
<1>5. \A q \in Objects : q # o => store'[q] = store[q]
  BY DEF EnsureSucceeds, Put, IInv, TypeOK
<1>6. store'[o] = m \/ (m = cache[o] /\ store'[o] = store[o])
  BY DEF EnsureSucceeds, Put, IInv, TypeOK
<1>7. Workload(o) => store'[o] = m
  BY <1>6, EnsuredObject
<1>8. OwnersLive'
  <2>. SUFFICES ASSUME NEW q \in Objects, store'[q] # None, store'[q].owner # None
                PROVE  /\ gp[store'[q].owner.name] # None
                       /\ gp[store'[q].owner.name].uid = store'[q].owner.uid
    BY <1>2 DEF OwnersLive
  <2>1. CASE store'[q] = store[q]
    BY <2>1 DEF Tied, OwnersLive
  <2>2. CASE store'[q] # store[q]
    <3>1. store'[q].owner = ControllerRef
      BY <1>5, <1>6, <2>2, EnsuredObject
    <3>. QED
      BY <1>4, <3>1, EnsuredObject DEF NotNewer
  <2>. QED
    BY <2>1, <2>2
<1>9. DoneInPlace'
  <2>. SUFFICES ASSUME NEW q \in rec.done \cup {o}, Workload(q)
                PROVE  InPlace(rec.req, s, q)'
    BY <1>2 DEF DoneInPlace
  <2>1. CASE q = o
    BY <1>2, <1>7, <2>1, EnsuredObject DEF InPlace
  <2>2. CASE q # o
    <3>1. InPlace(rec.req, s, q) /\ q \in Objects
      BY <1>1, <2>2, InSlice DEF Tied, DoneInPlace, IInv
    <3>. QED
      BY <1>2, <1>5, <2>2, <3>1 DEF InPlace
  <2>. QED
    BY <2>1, <2>2
<1>10. ClaimsInPlace'
  <2>. SUFFICES ASSUME NEW p \in Platforms, ClaimsSuccess(p),
                       NEW q \in Wanted(gp[p].spec), Workload(q)
                PROVE  InPlace(p, gp[p].spec, q)'
    BY <1>2, Claim DEF ClaimsInPlace
  <2>1. InPlace(p, gp[p].spec, q) /\ q \in Objects
    BY InSlice DEF Tied, ClaimsInPlace
  <2>2. CASE q # o
    BY <1>2, <1>5, <2>1, <2>2 DEF InPlace
  <2>3. CASE q = o
    <3>1. p = rec.req
      BY <2>1, <2>3, EnsuredObject DEF InPlace, Exists
    <3>2. rec.snap.generation \in Nat /\ gp[p].generation \in Nat
      BY <1>1, <1>4, <3>1 DEF Reconciliations, IInv, TypeOK, PlatformRecords
    <3>3. gp[p].generation <= rec.snap.generation
      BY <1>1, <3>1, Claim DEF Tied, Behind, SnapshotBehind
    <3>4. gp[p].spec = s
      BY <1>4, <3>1, <3>2, <3>3 DEF NotNewer
    <3>. QED
      BY <1>2, <1>7, <2>3, <3>1, <3>4, EnsuredObject DEF InPlace
  <2>. QED
    BY <2>2, <2>3
<1>. QED
  BY <1>3, <1>8, <1>9, <1>10 DEF Tied

\* The end of a reconciliation: a claim is made only with everything in place.
LEMMA WriteKeeps ==
  ASSUME TypeOK, Tied, rec \in Reconciliations, NEW s \in Statuses,
         SnapshotCurrent, WriteStatus(s), s.observedGeneration = rec.snap.generation,
         s.conditions["ReconcileSucceeded"] = Condition(TRUE, rec.snap.generation)
           => Wanted(rec.snap.spec) \subseteq rec.done,
         rec' = Idle, UNCHANGED << store, gpCache >>
  PROVE  Tied'
<1>. DEFINE r == rec.req
<1>1. /\ r \in Platforms /\ gp[r] = rec.snap /\ rec.snap \in PlatformRecords
      /\ rec.pc # "idle"
  BY DEF Reconciliations, SnapshotCurrent
<1>0. gp'[r] = [rec.snap EXCEPT !.status = s]
  BY <1>1 DEF WriteStatus, TypeOK
<1>2. \A q \in Platforms : q # r => gp'[q] = gp[q]
  BY <1>1 DEF WriteStatus, TypeOK
<1>3. /\ gp'[r].uid = rec.snap.uid /\ gp'[r].generation = rec.snap.generation
      /\ gp'[r].spec = rec.snap.spec /\ gp'[r].status = s
      /\ gp'[r] # None /\ gp[r] # None
  <2>1. [rec.snap EXCEPT !.status = s] \in PlatformRecords
    BY <1>1 DEF PlatformRecords
  <2>. QED
    BY <1>0, <1>1, <2>1, NoneAssumption DEF PlatformRecords
<1>4. rec.snap.generation \in Nat
  BY <1>1 DEF PlatformRecords
<1>. HIDE DEF r
<1>5. CacheBehind'
  BY <1>1, <1>2, <1>3 DEF Tied, Behind, CacheBehind, NotNewer, r
<1>6. StatusBehind'
  BY <1>1, <1>2, <1>3, <1>4 DEF Tied, Behind, StatusBehind, SnapshotBehind, r
<1>7. SnapshotBehind' /\ DoneInPlace'
  BY DEF SnapshotBehind, DoneInPlace, Idle
<1>8. OwnersLive'
  <2>1. \A o \in Objects : store[o] # None /\ store[o].owner # None =>
          store[o].owner.name \in Platforms
    BY DEF TypeOK, StoredObjects, Refs
  <2>. QED
    BY <1>1, <1>2, <1>3, <2>1 DEF Tied, OwnersLive, r
<1>9. ClaimsInPlace'
  <2>. SUFFICES ASSUME NEW p \in Platforms, ClaimsSuccess(p)',
                       NEW spec, spec = gp'[p].spec,
                       NEW q \in Wanted(spec), Workload(q)
                PROVE  InPlace(p, spec, q)'
    BY DEF ClaimsInPlace
  <2>1. CASE p # r
    <3>1. gp'[p] = gp[p] /\ ClaimsSuccess(p)
      BY <1>2, <2>1, Claim
    <3>. QED
      BY <3>1 DEF Tied, ClaimsInPlace, InPlace
  <2>2. CASE p = r
    <3>1. s.conditions["ReconcileSucceeded"] = Condition(TRUE, rec.snap.generation)
      <4>1. gp'[p].status.conditions["ReconcileSucceeded"] = Condition(TRUE, gp'[p].generation)
        BY Zenon DEF ClaimsSuccess
      <4>2. gp'[p].status = s /\ gp'[p].generation = rec.snap.generation
        BY <1>3, <2>2
      <4>. QED
        BY <4>1, <4>2, Zenon
    <3>2. q \in rec.done
      BY <1>3, <2>2, <3>1
    <3>. QED
      BY <1>1, <1>3, <2>2, <3>2 DEF Tied, DoneInPlace, InPlace, r
  <2>. QED
    BY <2>1, <2>2
<1>. QED
  BY <1>5, <1>6, <1>7, <1>8, <1>9 DEF Tied, Behind
-----------------------------------------------------------------------------
(* The theorem.                                                            *)

LEMMA TiedInit == Init => Tied
<1>. SUFFICES ASSUME Init PROVE Tied
  OBVIOUS
<1>1. \A o \in Objects : store[o] # None => store[o].owner = None
  <2>1. \A o : LegacyObject(o).owner = None
    BY DEF LegacyObject
  <2>. QED
    BY <2>1 DEF Init
<1>2. OwnersLive
  BY <1>1 DEF OwnersLive
<1>3. Behind /\ DoneInPlace
  BY DEF Init, Idle, Behind, CacheBehind, StatusBehind, SnapshotBehind, DoneInPlace
<1>4. ClaimsInPlace
  BY Claim DEF Init, ClaimsInPlace
<1>. QED
  BY <1>2, <1>3, <1>4 DEF Tied

\* Deletions and edits by hand are what Untouched excludes; nothing undoes them.
LEMMA UntouchedStep ==
  ASSUME TypeOK, [Next]_vars, Untouched'
  PROVE  /\ Untouched
         /\ \A p \in Platforms : ~DeletePlatform(p)
         /\ \A o \in Objects : ~DeleteObject(o) /\ ~EditObject(o)
<1>1. ASSUME NEW d \in Disturbances, Disturb(d)
      PROVE  Untouched /\ d \notin {"delete", "drift"}
  <2>1. used \in [Disturbances -> Nat] /\ used' = [used EXCEPT ![d] = @ + 1]
    BY <1>1 DEF TypeOK, Disturb
  <2>. QED
    BY <2>1 DEF Untouched, Disturbances
<1>2. UNCHANGED used => Untouched
  BY DEF Untouched
<1>3. UNCHANGED used \/ \E d \in Disturbances : Disturb(d)
  BY DEF Next, Environment, Cluster, Informers, Worker, Restart, Relist, vars, CreatePlatform,
         EditPlatform, DeletePlatform, DeleteObject, EditObject, PodFailure, RejectWrites,
         AcceptWrites, CollectGarbage, ObserveDeployment, RollOut, SyncPlatform, SyncObject,
         SkipMissing, StartReconcile, EnsureSucceeds, EnsureFails, ReportDegraded,
         RefreshStatus, Disturbances
<1>4. /\ \A p \in Platforms : ~DeletePlatform(p)
      /\ \A o \in Objects : ~DeleteObject(o) /\ ~EditObject(o)
  BY <1>1 DEF DeletePlatform, DeleteObject, EditObject, Disturbances
<1>. QED
  BY <1>1, <1>2, <1>3, <1>4

LEMMA TiedStep ==
  ASSUME IInv, Tied, [Next]_vars, Untouched'
  PROVE  Tied'
<1>0. TypeOK
  BY DEF IInv
<1>1. ASSUME UNCHANGED << gp, store, gpCache, rec >> PROVE Tied'
  BY <1>0, <1>1, QuietKeeps DEF QuietObjects
<1>2. CASE Environment
  <2>1. ASSUME NEW p \in Platforms, CreatePlatform(p) \/ EditPlatform(p) \/ DeletePlatform(p)
        PROVE  Tied'
    BY <1>0, <2>1, UntouchedStep, CreateKeeps, EditKeeps
  <2>2. ASSUME NEW o \in Objects, PodFailure(o) PROVE Tied'
    BY <1>0, <2>2, RolloutQuiet, QuietKeeps DEF PodFailure, operatorVars
  <2>3. ASSUME NEW o \in Objects, RejectWrites(o) \/ AcceptWrites(o) PROVE Tied'
    BY <1>1, <2>3 DEF RejectWrites, AcceptWrites, operatorVars
  <2>. QED
    BY <1>0, <1>2, <2>1, <2>2, <2>3, UntouchedStep DEF Environment
<1>3. CASE Cluster
  <2>1. ASSUME NEW o \in Objects, CollectGarbage(o) PROVE FALSE
    <3>1. /\ store[o] # None /\ store[o].owner # None /\ OwnerGone(store[o].owner)
          /\ store[o].owner.name \in Platforms
      BY <1>0, <2>1 DEF CollectGarbage, Exists, TypeOK, StoredObjects, Refs
    <3>. QED
      BY <3>1 DEF OwnerGone, Tied, OwnersLive
  <2>2. ASSUME NEW o \in Objects, ObserveDeployment(o) \/ RollOut(o) PROVE Tied'
    BY <1>0, <2>2, RolloutQuiet, QuietKeeps DEF ObserveDeployment, RollOut, operatorVars
  <2>. QED
    BY <1>3, <2>1, <2>2 DEF Cluster
<1>4. CASE Informers
  <2>1. ASSUME NEW p \in Platforms, SyncPlatform(p) PROVE Tied'
    <3>1. gpCache' \in [Platforms -> PlatformRecords \cup {None}]
      BY <1>0, <2>1 DEF SyncPlatform, TypeOK
    <3>2. \A q \in Platforms : gpCache'[q] = gp[q] \/ gpCache'[q] = gpCache[q]
      BY <1>0, <2>1 DEF SyncPlatform, TypeOK
    <3>. QED
      BY <1>0, <2>1, <3>1, <3>2, RefreshKeeps DEF SyncPlatform
  <2>2. ASSUME NEW o \in Objects, SyncObject(o) PROVE Tied'
    BY <1>1, <2>2 DEF SyncObject
  <2>. QED
    BY <1>4, <2>1, <2>2 DEF Informers
<1>5. CASE Worker
  <2>1. ASSUME NEW p \in Platforms, SkipMissing(p) \/ StartReconcile(p) PROVE Tied'
    BY <1>0, <1>1, <2>1, StartKeeps DEF SkipMissing
  <2>2. ASSUME NEW o \in Objects, EnsureFails(o) PROVE Tied'
    <3>1. /\ rec'.pc = "degraded" /\ rec.pc = "ensure"
          /\ rec'.req = rec.req /\ rec'.snap = rec.snap /\ rec'.done = rec.done
          /\ UNCHANGED << gp, store, gpCache >>
      BY <1>0, <2>2, ActiveType DEF EnsureFails, Reconciliations
    <3>2. CacheBehind' /\ StatusBehind' /\ OwnersLive' /\ ClaimsInPlace'
      BY <3>1 DEF Tied, Behind, CacheBehind, StatusBehind, OwnersLive, ClaimsInPlace,
                  ClaimsSuccess, InPlace
    <3>3. SnapshotBehind' /\ DoneInPlace'
      BY <3>1 DEF Tied, Behind, SnapshotBehind, DoneInPlace, InPlace
    <3>. QED
      BY <3>2, <3>3 DEF Tied, Behind
  <2>3. ASSUME NEW o \in Objects, EnsureSucceeds(o) PROVE Tied'
    BY <2>3, EnsureKeeps
  <2>4. ASSUME UNCHANGED << gp, store, gpCache >>, rec' = Idle PROVE Tied'
    <3>1. gpCache' \in [Platforms -> PlatformRecords \cup {None}]
      BY <1>0, <2>4 DEF TypeOK
    <3>. QED
      BY <1>0, <2>4, <3>1, RefreshKeeps
  <2>5. CASE ReportDegraded
    <3>. DEFINE s == DegradedStatus(rec.snap)
    <3>1. rec \in Reconciliations
      BY <1>0, <2>5, ActiveType DEF ReportDegraded
    <3>2. s \in Statuses
      BY <1>0, <3>1, StatusTypes, TypedObjects DEF Reconciliations, ObjectsTyped
    <3>3. /\ s.observedGeneration = rec.snap.generation
          /\ s.conditions["ReconcileSucceeded"] = Condition(FALSE, rec.snap.generation)
      BY <3>1 DEF DegradedStatus, Reconciliations, PlatformRecords, Statuses, ConditionTypes
    <3>4. Condition(FALSE, rec.snap.generation) # Condition(TRUE, rec.snap.generation)
      BY DEF Condition
    <3>. HIDE DEF s
    <3>5. CASE SnapshotCurrent
      <4>1. WriteStatus(s)
        BY <2>5, <3>5 DEF ReportDegraded, s
      <4>. QED
        BY <1>0, <2>5, <3>1, <3>2, <3>3, <3>4, <3>5, <4>1, WriteKeeps DEF ReportDegraded
    <3>6. CASE ~SnapshotCurrent
      BY <2>4, <2>5, <3>6 DEF ReportDegraded
    <3>. QED
      BY <3>5, <3>6
  <2>6. CASE RefreshStatus
    <3>. DEFINE s == RefreshedStatus(rec.snap, cache)
    <3>1. rec \in Reconciliations
      BY <1>0, <2>6, ActiveType DEF RefreshStatus
    <3>2. s \in Statuses
      BY <1>0, <3>1, StatusTypes, TypedObjects DEF Reconciliations, ObjectsTyped
    <3>3. s.observedGeneration = rec.snap.generation
      BY DEF RefreshedStatus, StatusOf
    <3>. HIDE DEF s
    <3>4. Wanted(rec.snap.spec) \subseteq rec.done
      BY <2>6 DEF RefreshStatus
    <3>5. CASE SnapshotCurrent /\ WriteStatus(s)
      BY <1>0, <2>6, <3>1, <3>2, <3>3, <3>4, <3>5, WriteKeeps DEF RefreshStatus
    <3>6. CASE UNCHANGED gp
      BY <2>4, <2>6, <3>6 DEF RefreshStatus
    <3>. QED
      BY <2>6, <3>5, <3>6 DEF RefreshStatus, s
  <2>. QED
    BY <1>5, <2>1, <2>2, <2>3, <2>5, <2>6 DEF Worker
<1>6. CASE Restart
  <2>1. gpCache' \in [Platforms -> PlatformRecords \cup {None}]
    BY <1>0, <1>6 DEF Restart, Relist, TypeOK
  <2>. QED
    BY <1>0, <1>6, <2>1, RefreshKeeps DEF Restart, Relist
<1>7. CASE UNCHANGED vars
  BY <1>1, <1>7 DEF vars
<1>. QED
  BY <1>2, <1>3, <1>4, <1>5, <1>6, <1>7 DEF Next

\* The condition ReconcileSucceeded tells the truth about Deployments and Services, as
\* long as nobody deletes or edits anything by hand: whatever the caches held, what the
\* specification asks for is in the API server (reconcileObject, refreshStatus).
THEOREM WorkloadsTruthful == Spec => []WorkloadsApplied
<1>1. Init => (Untouched => Tied)
  BY TiedInit
<1>2. IInv /\ (Untouched => Tied) /\ [Next]_vars => (Untouched => Tied)'
  BY TiedStep, UntouchedStep DEF IInv
<1>3. IInv /\ (Untouched => Tied) => WorkloadsApplied
  BY InSlice DEF Tied, ClaimsInPlace, InPlace, WorkloadsApplied, Workload, Exists
<1>. QED
  BY Inductive, <1>1, <1>2, <1>3, PTL DEF Spec
===============================================================================
