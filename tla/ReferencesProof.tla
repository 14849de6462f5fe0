--------------------------- MODULE ReferencesProof ---------------------------
(***************************************************************************)
(* Why a Deployment never exists before what its pods need                 *)
(* (Reconciler!ReferencesExist), for every slice, any number of platforms  *)
(* and specifications, and every disturbance but deletions.                *)
(*                                                                         *)
(* ensureAll turns to a Deployment after everything it refers to; what it  *)
(* is through with is stored, for a cache that has an object has seen it   *)
(* stored; and what is stored stays, for the garbage collector finds no    *)
(* owner gone.                                                             *)
(***************************************************************************)
EXTENDS ReconcilerProof, SequenceTheorems

-----------------------------------------------------------------------------
(* The order of ensureAll.                                                 *)

Kinds == {"Deployment", "Service", "ConfigMap", "Secret", "PersistentVolumeClaim", "Ingress"}

Names ==
  {"game-gateway", "login-service", "match-service", "room-service", "mysql", "redis",
   "kafka", "prometheus", "alertmanager", "grafana", "game-app-config", "game-app-secret",
   "mysql-data", "mysql-init", "prometheus-config", "alertmanager-config",
   "grafana-provisioning", "grafana-dashboard"}

Step == SUBSET [kind : Kinds, name : Names]

LEMMA ServicesType ==
  ASSUME NEW names \in Seq(Names)
  PROVE  WithServices(names) \in Seq(Step)
<1>1. 2 * Len(names) \in Nat
  OBVIOUS
<1>2. ASSUME NEW i \in 1..(2 * Len(names))
      PROVE  {IF i % 2 = 1 THEN Deployment(names[(i + 1) \div 2])
              ELSE Service(names[(i + 1) \div 2])} \in Step
  <2>1. (i + 1) \div 2 \in 1..Len(names)
    OBVIOUS
  <2>2. names[(i + 1) \div 2] \in Names
    BY <2>1
  <2> QED
    BY <2>2 DEF Deployment, Service, Object, Step, Kinds
<1>3. WithServices(names) \in [1..(2 * Len(names)) -> Step]
  BY <1>2 DEF WithServices
<1> QED
  BY <1>1, <1>3

\* The configuration and the volume are ensured in the first four steps.
LEMMA FirstSteps ==
  /\ ensureAll \in Seq(Step) /\ Len(ensureAll) >= 4
  /\ ensureAll[1] = {AppConfig} /\ ensureAll[2] = {AppSecret}
  /\ ensureAll[3] = {ConfigMap(c) : c \in sharedConfigs} /\ ensureAll[4] = {MySQLData}
<1>1. ensureConfig \in Seq(Step) /\ Len(ensureConfig) = 3
  BY DEF ensureConfig, AppConfig, AppSecret, ConfigMap, Object, sharedConfigs, Step, Kinds, Names
<1>2. << {MySQLData} >> \in Seq(Step) /\ Len(<< {MySQLData} >>) = 1
  BY DEF MySQLData, Object, Step, Kinds, Names
<1>3. /\ WithServices(Infra) \in Seq(Step) /\ ensureApps \in Seq(Step)
      /\ ensureMonitoring \in Seq(Step)
  <2>1. Infra \in Seq(Names) /\ appServices \in Seq(Names) /\ Monitors \in Seq(Names)
    BY DEF Infra, appServices, Monitors, Names
  <2> QED
    BY <2>1, ServicesType DEF ensureApps, ensureMonitoring
<1>4. ensureIngress \in Seq(Step)
  BY DEF ensureIngress, Ingress, Object, Step, Kinds, Names
<1>5. ensureInfra \in Seq(Step) /\ Len(ensureInfra) >= 1 /\ ensureInfra[1] = {MySQLData}
  BY <1>2, <1>3, ConcatProperties DEF ensureInfra
<1> DEFINE a == ensureConfig \o ensureInfra
           b == a \o ensureApps
           d == b \o ensureIngress
<1>6. /\ a \in Seq(Step) /\ Len(a) >= 4 /\ \A i \in 1..3 : a[i] = ensureConfig[i]
      /\ a[4] = {MySQLData}
  <2>1. /\ a \in Seq(Step) /\ Len(a) = 3 + Len(ensureInfra)
        /\ \A i \in 1..(3 + Len(ensureInfra)) :
             a[i] = IF i <= 3 THEN ensureConfig[i] ELSE ensureInfra[i - 3]
    BY <1>1, <1>5, ConcatProperties
  <2>2. Len(ensureInfra) \in Nat /\ 4 \in 1..(3 + Len(ensureInfra)) /\ 4 - 3 = 1
    BY <1>5
  <2> HIDE DEF a
  <2> QED
    BY <1>5, <2>1, <2>2
<1> HIDE DEF a
<1>7. b \in Seq(Step) /\ Len(b) >= 4 /\ \A i \in 1..4 : b[i] = a[i]
  BY <1>3, <1>6, ConcatProperties
<1> HIDE DEF b
<1>8. d \in Seq(Step) /\ Len(d) >= 4 /\ \A i \in 1..4 : d[i] = b[i]
  BY <1>4, <1>7, ConcatProperties
<1> HIDE DEF d
<1>9. /\ ensureAll \in Seq(Step) /\ Len(ensureAll) >= 4
      /\ \A i \in 1..4 : ensureAll[i] = d[i]
  <2>1. ensureAll = d \o ensureMonitoring
    BY DEF ensureAll, d, b, a
  <2> QED
    BY <1>3, <1>8, <2>1, ConcatProperties
<1>10. /\ ensureConfig[1] = {AppConfig} /\ ensureConfig[2] = {AppSecret}
       /\ ensureConfig[3] = {ConfigMap(c) : c \in sharedConfigs}
  BY DEF ensureConfig
<1> QED
  BY <1>6, <1>7, <1>8, <1>9, <1>10

\* Whatever a Deployment's pods need is ensured before it (ensureAll).
LEMMA ReferencesBefore ==
  ASSUME NEW o \in Deployments
  PROVE  References(o) \subseteq Before[o]
<1>1. o \in Slice /\ o.kind = "Deployment"
  BY DEF Deployments
<1>2. PICK j \in DOMAIN ensureAll : o \in ensureAll[j]
  BY <1>1, SliceAssumption DEF Members
<1>3. j \in Nat /\ j >= 1 /\ DOMAIN ensureAll = 1..Len(ensureAll) /\ Len(ensureAll) \in Nat
  BY <1>2, FirstSteps
<1>4. j > 4
  <2>1. \A i \in 1..4 : \A q \in ensureAll[i] : q.kind # "Deployment"
    BY FirstSteps DEF AppConfig, AppSecret, ConfigMap, MySQLData, Object
  <2> QED
    BY <1>1, <1>2, <1>3, <2>1
<1>5. ASSUME NEW q \in References(o) PROVE \E i \in 1..4 : q \in ensureAll[i]
  <2>1. q \in {AppConfig, AppSecret, MySQLData} \/ \E c \in sharedConfigs : q = ConfigMap(c)
    BY DEF References, sharedConfigs
  <2> QED
    BY <2>1, FirstSteps
<1>6. References(o) \subseteq Slice
  BY DEF References
<1>7. 1..4 \subseteq DOMAIN ensureAll
  BY <1>3, FirstSteps
<1> QED
  BY <1>1, <1>2, <1>3, <1>4, <1>5, <1>6, <1>7 DEF Before

-----------------------------------------------------------------------------
(* What stands as long as nobody deletes anything.                         *)

Undeleted == used["delete"] = 0

PlatformsLive ==
  /\ \A p \in Platforms : gpCache[p] # None => gp[p] # None /\ gp[p].uid = gpCache[p].uid
  /\ rec.pc # "idle" => gp[rec.req] # None /\ gp[rec.req].uid = rec.snap.uid

\* The garbage collector finds no owner gone.
OwnersLive ==
  \A o \in Objects : (store[o] # None /\ store[o].owner # None) =>
    LET p == store[o].owner.name IN gp[p] # None /\ gp[p].uid = store[o].owner.uid

CacheStored == \A o \in Objects : cache[o] # None => store[o] # None

DoneStored == rec.pc # "idle" => \A o \in rec.done : store[o] # None

ReferencesStored ==
  \A o \in Deployments : store[o] # None => \A q \in References(o) : store[q] # None

Standing == PlatformsLive /\ OwnersLive /\ CacheStored /\ DoneStored /\ ReferencesStored

\* Platforms stay; objects stay, and with them their owners.
Kept ==
  /\ \A p \in Platforms : gp[p] # None => gp'[p] # None /\ gp'[p].uid = gp[p].uid
  /\ \A o \in Objects :
       /\ store[o] = None => store'[o] = None
       /\ store[o] # None => store'[o] # None /\ store'[o].owner = store[o].owner

\* Caches and reconciliations move on to what is stored.
Refreshed ==
  /\ \A p \in Platforms : gpCache'[p] \in {gp[p], gpCache[p]}
  /\ \A o \in Objects : cache'[o] \in {store[o], cache[o]}
  /\ \/ rec' = Idle
     \/ /\ rec.pc # "idle"
        /\ rec'.req = rec.req /\ rec'.snap = rec.snap /\ rec'.done = rec.done

LEMMA KeptStands ==
  ASSUME TypeOK, Standing, Kept, Refreshed \/ UNCHANGED << gpCache, cache, rec >>
  PROVE  Standing'
<1>1. /\ rec.pc # "idle" => rec.req \in Platforms /\ rec.done \subseteq Objects
      /\ \A o \in Objects : (store[o] # None /\ store[o].owner # None) =>
           store[o].owner.name \in Platforms
  BY ActiveType DEF Reconciliations, TypeOK, StoredObjects, Refs
<1>2. PlatformsLive'
  BY <1>1 DEF Standing, PlatformsLive, Kept, Refreshed, Idle
<1>3. OwnersLive'
  BY <1>1 DEF Standing, OwnersLive, Kept
<1>4. CacheStored'
  BY DEF Standing, CacheStored, Kept, Refreshed
<1>5. DoneStored'
  BY <1>1 DEF Standing, DoneStored, Kept, Refreshed, Idle
<1>6. ReferencesStored'
  <2>1. \A o : References(o) \subseteq Objects
    BY DEF References, Objects
  <2>2. Deployments \subseteq Objects
    BY DEF Deployments, Objects
  <2> QED
    BY <2>1, <2>2 DEF Standing, ReferencesStored, Kept
<1> QED
  BY <1>2, <1>3, <1>4, <1>5, <1>6 DEF Standing

\* Steps that write no object keep every one.
LEMMA UnwrittenKept ==
  ASSUME UNCHANGED << gp, store >>
  PROVE  Kept
BY DEF Kept

-----------------------------------------------------------------------------
(* The steps.                                                              *)

LEMMA PlatformKept ==
  ASSUME TypeOK, NEW p \in Platforms, CreatePlatform(p) \/ EditPlatform(p)
  PROVE  Kept
<1>1. UNCHANGED store
  BY DEF CreatePlatform, EditPlatform
<1>2. CASE CreatePlatform(p)
  <2>1. \A q \in Platforms : gp[q] # None => gp'[q] = gp[q]
    BY <1>2 DEF CreatePlatform, TypeOK
  <2> QED
    BY <1>1, <2>1 DEF Kept
<1>3. CASE EditPlatform(p)
  <2>1. PICK s \in Specs : gp' = [gp EXCEPT ![p].spec = s, ![p].generation = @ + 1]
    BY <1>3, ReconcilerAssumption DEF EditPlatform
  <2>2. gp[p] \in PlatformRecords
    BY <1>3 DEF EditPlatform, TypeOK
  <2>3. gp'[p] = [gp[p] EXCEPT !.spec = s, !.generation = @ + 1]
    BY <2>1 DEF TypeOK
  <2>4. [gp[p] EXCEPT !.spec = s, !.generation = @ + 1] \in PlatformRecords
    <3>1. gp[p].generation + 1 \in Nat
      BY <2>2 DEF PlatformRecords
    <3>2. \A h \in PlatformRecords, n \in Nat :
            [h EXCEPT !.spec = s, !.generation = n] \in PlatformRecords
      BY DEF PlatformRecords
    <3> QED
      BY <2>2, <3>1, <3>2
  <2>5. gp'[p] # None /\ gp'[p].uid = gp[p].uid
    BY <2>2, <2>3, <2>4, NoneAssumption DEF PlatformRecords
  <2>6. \A q \in Platforms : q # p => gp'[q] = gp[q]
    BY <2>1 DEF TypeOK
  <2> QED
    BY <1>1, <2>5, <2>6 DEF Kept
<1> QED
  BY <1>2, <1>3

LEMMA ObjectKept ==
  ASSUME TypeOK, NEW o \in Objects,
         ObserveDeployment(o) \/ RollOut(o) \/ PodFailure(o) \/ EditObject(o)
  PROVE  Kept
<1>1. UNCHANGED gp /\ store[o] # None
  BY DEF ObserveDeployment, RollOut, PodFailure, EditObject, Exists
<1>2. store[o] \in StoredObjects(o)
  BY <1>1 DEF TypeOK
<1>3. PICK v : v \in StoredObjects(o) /\ v.owner = store[o].owner /\ Put(o, v)
  <2>1. CASE EditObject(o)
    <3>1. PICK c \in Edited(o, store[o].content) : Put(o, [store[o] EXCEPT !.content = c])
      BY <2>1 DEF EditObject
    <3>2. c \in Contents(o)
      BY <1>2, <3>1, EditedType DEF StoredObjects
    <3>3. /\ [store[o] EXCEPT !.content = c] \in StoredObjects(o)
          /\ [store[o] EXCEPT !.content = c].owner = store[o].owner
      BY <1>2, <3>2 DEF StoredObjects
    <3> QED
      BY <3>1, <3>3
  <2>2. CASE ObserveDeployment(o) \/ RollOut(o) \/ PodFailure(o)
    <3>1. PICK r \in Rollouts(o) : Put(o, [store[o] EXCEPT !.rollout = r])
      BY <2>2, RolloutReplaced
    <3>2. /\ [store[o] EXCEPT !.rollout = r] \in StoredObjects(o)
          /\ [store[o] EXCEPT !.rollout = r].owner = store[o].owner
      BY <1>2, <3>1 DEF StoredObjects
    <3> QED
      BY <3>1, <3>2
  <2> QED
    BY <2>1, <2>2
<1>4. v # None
  BY <1>3, NoneAssumption
<1>5. store'[o] = v /\ \A q \in Objects : q # o => store'[q] = store[q]
  BY <1>3 DEF Put, TypeOK
<1> QED
  BY <1>1, <1>3, <1>4, <1>5 DEF Kept

\* A status is written into a platform that is still there.
LEMMA WriteKept ==
  ASSUME TypeOK, rec \in Reconciliations, NEW s \in Statuses, SnapshotCurrent,
         WriteStatus(s), UNCHANGED store
  PROVE  Kept
<1>1. rec.req \in Platforms /\ gp[rec.req] \in PlatformRecords
  BY DEF Reconciliations, SnapshotCurrent
<1>2. gp'[rec.req] = [gp[rec.req] EXCEPT !.status = s]
  BY <1>1 DEF WriteStatus, TypeOK
<1>3. [gp[rec.req] EXCEPT !.status = s] \in PlatformRecords
  BY <1>1 DEF PlatformRecords
<1>4. gp'[rec.req] # None /\ gp'[rec.req].uid = gp[rec.req].uid
  BY <1>1, <1>2, <1>3, NoneAssumption DEF PlatformRecords
<1>5. \A q \in Platforms : q # rec.req => gp'[q] = gp[q]
  BY <1>1 DEF WriteStatus, TypeOK
<1> QED
  BY <1>4, <1>5 DEF Kept

\* The object is stored once ensureAll is through with it, and what it refers to was
\* stored before.
LEMMA EnsureStands ==
  ASSUME TypeOK, Standing, NEW o \in Objects, EnsureSucceeds(o)
  PROVE  Standing'
<1>1. rec \in Reconciliations
  BY ActiveType DEF EnsureSucceeds
<1>2. /\ rec'.pc = "ensure" /\ rec'.req = rec.req /\ rec'.snap = rec.snap
      /\ rec'.done = rec.done \cup {o} /\ rec.pc = "ensure"
      /\ UNCHANGED << gp, gpCache, cache >>
  BY <1>1 DEF EnsureSucceeds, Reconciliations
<1>3. /\ Mutated(o) \in StoredObjects(o) /\ Mutated(o) # None /\ Mutated(o).owner = ControllerRef
      /\ ControllerRef.name = rec.req /\ ControllerRef.uid = rec.snap.uid
  <2>1. Mutated(o) \in StoredObjects(o) /\ Mutated(o) # None
    BY <1>1, MutatedType, NoneAssumption
  <2>2. Mutated(o).owner = ControllerRef
    BY DEF Mutated, TypeOK, StoredObjects
  <2> QED
    BY <2>1, <2>2 DEF ControllerRef
<1>4. /\ store'[o] # None
      /\ store'[o].owner = ControllerRef \/ store'[o] = store[o]
      /\ \A q \in Objects : q # o => store'[q] = store[q]
  <2>1. CASE Mutated(o) = cache[o]
    BY <1>3, <2>1 DEF EnsureSucceeds, Standing, CacheStored
  <2>2. CASE Mutated(o) # cache[o]
    <3>1. store' = [store EXCEPT ![o] = Mutated(o)]
      BY <2>2 DEF EnsureSucceeds, Put
    <3> QED
      BY <1>3, <3>1 DEF TypeOK
  <2> QED
    BY <2>1, <2>2
<1>5. PlatformsLive'
  BY <1>2 DEF Standing, PlatformsLive
<1>6. OwnersLive'
  <2>1. gp[rec.req] # None /\ gp[rec.req].uid = rec.snap.uid
    BY <1>2 DEF Standing, PlatformsLive
  <2> QED
    BY <1>2, <1>3, <1>4, <2>1 DEF Standing, OwnersLive
<1>7. CacheStored'
  BY <1>2, <1>4 DEF Standing, CacheStored
<1>8. DoneStored'
  BY <1>1, <1>2, <1>4 DEF Standing, DoneStored, Reconciliations
<1>9. ReferencesStored'
  <2>1. \A d : References(d) \subseteq Objects
    BY DEF References, Objects
  <2>2. ASSUME o \in Deployments, NEW q \in References(o) PROVE store[q] # None
    <3>1. Before[o] \subseteq rec.done
      BY DEF EnsureSucceeds, Due
    <3> QED
      BY <1>2, <2>2, <3>1, ReferencesBefore DEF Standing, DoneStored
  <2>3. Deployments \subseteq Objects
    BY DEF Deployments, Objects
  <2> QED
    BY <1>4, <2>1, <2>2, <2>3 DEF Standing, ReferencesStored
<1> QED
  BY <1>5, <1>6, <1>7, <1>8, <1>9 DEF Standing

-----------------------------------------------------------------------------
(* The theorem.                                                            *)

\* Nothing undoes a deletion.
LEMMA UndeletedStep ==
  ASSUME TypeOK, [Next]_vars, Undeleted'
  PROVE  /\ Undeleted
         /\ \A p \in Platforms : ~DeletePlatform(p)
         /\ \A o \in Objects : ~DeleteObject(o)
<1>1. ASSUME NEW d \in Disturbances, Disturb(d) PROVE Undeleted /\ d # "delete"
  <2>1. used \in [Disturbances -> Nat] /\ used' = [used EXCEPT ![d] = @ + 1]
    BY <1>1 DEF TypeOK, Disturb
  <2> QED
    BY <2>1 DEF Undeleted, Disturbances
<1>2. UNCHANGED used => Undeleted
  BY DEF Undeleted
<1>3. UNCHANGED used \/ \E d \in Disturbances : Disturb(d)
  BY DEF Next, Environment, Cluster, Informers, Worker, Restart, Relist, vars, CreatePlatform,
         EditPlatform, DeletePlatform, DeleteObject, EditObject, PodFailure, RejectWrites,
         AcceptWrites, CollectGarbage, ObserveDeployment, RollOut, SyncPlatform, SyncObject,
         SkipMissing, StartReconcile, EnsureSucceeds, EnsureFails, ReportDegraded,
         RefreshStatus, Disturbances
<1>4. /\ \A p \in Platforms : ~DeletePlatform(p)
      /\ \A o \in Objects : ~DeleteObject(o)
  BY <1>1 DEF DeletePlatform, DeleteObject, Disturbances
<1> QED
  BY <1>1, <1>2, <1>3, <1>4

LEMMA WorkerStands ==
  ASSUME TypeOK, Standing, Worker
  PROVE  Standing'
<1>1. ASSUME NEW p \in Platforms, SkipMissing(p) PROVE Standing'
  BY <1>1, UnwrittenKept, KeptStands DEF SkipMissing
<1>2. ASSUME NEW p \in Platforms, StartReconcile(p) PROVE Standing'
  BY <1>2 DEF StartReconcile, Standing, PlatformsLive, OwnersLive, CacheStored, DoneStored,
              ReferencesStored
<1>3. ASSUME NEW o \in Objects, EnsureFails(o) PROVE Standing'
  <2>1. Refreshed /\ UNCHANGED << gp, store >>
    BY <1>3, ActiveType DEF EnsureFails, Refreshed, Reconciliations
  <2> QED
    BY <2>1, UnwrittenKept, KeptStands
<1>4. CASE ReportDegraded
  <2>1. rec \in Reconciliations /\ Refreshed /\ UNCHANGED store
    BY <1>4, ActiveType DEF ReportDegraded, Refreshed
  <2>2. DegradedStatus(rec.snap) \in Statuses
    BY <2>1, StatusTypes, TypedObjects DEF Reconciliations, ObjectsTyped
  <2>3. Kept
    BY <1>4, <2>1, <2>2, WriteKept, UnwrittenKept DEF ReportDegraded
  <2> QED
    BY <2>1, <2>3, KeptStands
<1>5. CASE RefreshStatus
  <2>1. rec \in Reconciliations /\ Refreshed /\ UNCHANGED store
    BY <1>5, ActiveType DEF RefreshStatus, Refreshed
  <2>2. RefreshedStatus(rec.snap, cache) \in Statuses
    BY <2>1, StatusTypes, TypedObjects DEF Reconciliations, ObjectsTyped
  <2>3. Kept
    BY <1>5, <2>1, <2>2, WriteKept, UnwrittenKept DEF RefreshStatus
  <2> QED
    BY <2>1, <2>3, KeptStands
<1> QED
  BY <1>1, <1>2, <1>3, <1>4, <1>5, EnsureStands DEF Worker

LEMMA StandingStep ==
  ASSUME TypeOK, Standing, [Next]_vars, Undeleted'
  PROVE  Standing'
<1>1. CASE Environment
  <2>1. ASSUME NEW p \in Platforms, CreatePlatform(p) \/ EditPlatform(p) PROVE Standing'
    BY <2>1, PlatformKept, KeptStands DEF CreatePlatform, EditPlatform, operatorVars
  <2>2. ASSUME NEW o \in Objects, EditObject(o) \/ PodFailure(o) PROVE Standing'
    BY <2>2, ObjectKept, KeptStands DEF EditObject, PodFailure, operatorVars
  <2>3. ASSUME NEW o \in Objects, RejectWrites(o) \/ AcceptWrites(o) PROVE Standing'
    BY <2>3, UnwrittenKept, KeptStands DEF RejectWrites, AcceptWrites, operatorVars
  <2> QED
    BY <1>1, <2>1, <2>2, <2>3, UndeletedStep DEF Environment
<1>2. CASE Cluster
  <2>1. ASSUME NEW o \in Objects, CollectGarbage(o) PROVE FALSE
    <3>1. /\ store[o] # None /\ store[o].owner # None /\ OwnerGone(store[o].owner)
          /\ store[o].owner.name \in Platforms
      BY <2>1 DEF CollectGarbage, Exists, TypeOK, StoredObjects, Refs
    <3> QED
      BY <3>1 DEF OwnerGone, Standing, OwnersLive
  <2>2. ASSUME NEW o \in Objects, ObserveDeployment(o) \/ RollOut(o) PROVE Standing'
    BY <2>2, ObjectKept, KeptStands DEF ObserveDeployment, RollOut, operatorVars
  <2> QED
    BY <1>2, <2>1, <2>2 DEF Cluster
<1>3. CASE Informers
  <2>1. UNCHANGED << gp, store, rec >>
    BY <1>3 DEF Informers, SyncPlatform, SyncObject
  <2>2. /\ \A p \in Platforms : gpCache'[p] \in {gp[p], gpCache[p]}
        /\ \A o \in Objects : cache'[o] \in {store[o], cache[o]}
    BY <1>3 DEF Informers, SyncPlatform, SyncObject, TypeOK
  <2>3. Refreshed
    BY <2>1, <2>2 DEF Refreshed, TypeOK, Idle
  <2> QED
    BY <2>1, <2>3, UnwrittenKept, KeptStands
<1>4. CASE Restart
  <2>1. Refreshed /\ UNCHANGED << gp, store >>
    BY <1>4 DEF Restart, Relist, Refreshed
  <2> QED
    BY <2>1, UnwrittenKept, KeptStands
<1>5. CASE UNCHANGED vars
  BY <1>5, UnwrittenKept, KeptStands DEF vars
<1> QED
  BY <1>1, <1>2, <1>3, <1>4, <1>5, WorkerStands DEF Next

\* What the v1 manifests left behind is whole: no Deployment without what it refers to.
LegacyWhole == \A o \in Legacy \cap Deployments : References(o) \subseteq Legacy

LEMMA StandingInit ==
  ASSUME LegacyWhole, Init
  PROVE  Standing
<1>1. \A o \in Legacy : LegacyObject(o) # None /\ LegacyObject(o).owner = None
  <2>1. \A o : LegacyObject(o).owner = None
    BY DEF LegacyObject
  <2>2. \A o \in Legacy : LegacyObject(o) # None
    BY LegacyType, NoneAssumption, ReconcilerAssumption
  <2> QED
    BY <2>1, <2>2
<1>2. \A o \in Objects : store[o] = IF o \in Legacy THEN LegacyObject(o) ELSE None
  BY DEF Init
<1>3. OwnersLive
  BY <1>1, <1>2 DEF OwnersLive
<1>4. PlatformsLive /\ CacheStored /\ DoneStored
  BY DEF Init, Idle, PlatformsLive, CacheStored, DoneStored
<1>5. ReferencesStored
  <2>1. \A o : References(o) \subseteq Objects
    BY DEF References, Objects
  <2>2. Deployments \subseteq Objects
    BY DEF Deployments, Objects
  <2> QED
    BY <1>1, <1>2, <2>1, <2>2 DEF ReferencesStored, LegacyWhole
<1> QED
  BY <1>3, <1>4, <1>5 DEF Standing

\* A Deployment never exists without the configuration, secret and volume that its pods
\* need, as long as nobody deletes anything and v1 left no half of it behind (the order
\* of ensureAll).
THEOREM ReferencesInOrder ==
  ASSUME LegacyWhole
  PROVE  Spec => []ReferencesExist
<1>1. Init => (Undeleted => Standing)
  BY StandingInit
<1>2. TypeOK /\ (Undeleted => Standing) /\ [Next]_vars => (Undeleted => Standing)'
  BY StandingStep, UndeletedStep
<1>3. (Undeleted => Standing) => ReferencesExist
  BY DEF Undeleted, Standing, ReferencesStored, ReferencesExist, Exists
<1> QED
  BY TypeCorrect, <1>1, <1>2, <1>3, PTL DEF Spec
=============================================================================
