--------------------------- MODULE ReconcilerProof ---------------------------
(***************************************************************************)
(* What holds of Reconciler for every slice of the platform, every set of  *)
(* platforms and specifications and any number of disturbances.            *)
(***************************************************************************)
EXTENDS Reconciler, TLAPS

-----------------------------------------------------------------------------
(* The operators of GamePlatform and Reconciler, typed.                    *)

\* The mutate functions write, into an object of each kind, a payload of that kind
\* (imageRegistry ... mysqlStorageSize, ensureAppDeployment and its siblings).
LEMMA DesiredType ==
  ASSUME NEW s \in Specs, NEW o
  PROVE  Desired(s, o) \in Contents(o)
<1>1. replicas(s) \in Nat /\ mysqlStorageSize(s) \in Nat
  BY ReconcilerAssumption DEF SpecType, replicas, mysqlStorageSize
<1>2. CASE o.kind = "Deployment"
  BY <1>1, <1>2 DEF Desired, Contents, Images
<1>3. CASE o.kind = "PersistentVolumeClaim"
  BY <1>1, <1>3 DEF Desired, Contents
<1>4. CASE o.kind = "Ingress"
  BY <1>4 DEF Desired, Contents
<1>5. CASE o.kind \notin {"Deployment", "PersistentVolumeClaim", "Ingress"}
  BY <1>5 DEF Desired, BuiltIn, Contents
<1> QED
  BY <1>2, <1>3, <1>4, <1>5

\* What a manual edit or the v1 manifests leave in an object is such a payload too.
LEMMA EditedType ==
  ASSUME NEW o, NEW c \in Contents(o), NEW d \in Edited(o, c)
  PROVE  d \in Contents(o)
<1>2. CASE o.kind = "Deployment"
  BY <1>2 DEF Edited, Contents, Images
<1>3. CASE o.kind = "PersistentVolumeClaim"
  BY <1>3 DEF Edited, Contents
<1>4. CASE o.kind = "Ingress"
  BY <1>4 DEF Edited, Contents
<1>5. CASE o.kind \notin {"Deployment", "PersistentVolumeClaim", "Ingress"}
  BY <1>5 DEF Edited, Contents
<1> QED
  BY <1>2, <1>3, <1>4, <1>5

LEMMA LegacyType ==
  ASSUME NEW o
  PROVE  LegacyObject(o) \in StoredObjects(o)
<1>1. LegacyContent(o) \in Contents(o)
  BY DEF LegacyContent, Contents, Images
<1>2. CASE o.kind = "Deployment"
  BY <1>1, <1>2 DEF LegacyContent, LegacyObject, StoredObjects, Rollouts, NewRollout, Images
<1>3. CASE o.kind # "Deployment"
  BY <1>1, <1>3 DEF LegacyObject, StoredObjects, Rollouts
<1> QED
  BY <1>2, <1>3

\* Whatever objects the operator sees, refreshStatus and updateStatus make a status.
LEMMA StatusTypes ==
  ASSUME NEW g \in PlatformRecords, NEW view,
         \A o \in Objects : view[o] \in StoredObjects(o) \cup {None}
  PROVE  RefreshedStatus(g, view) \in Statuses /\ DegradedStatus(g) \in Statuses
<1>1. g.spec \in Specs /\ g.generation \in Nat /\ g.status \in Statuses
  BY DEF PlatformRecords
<1>2. replicas(g.spec) \in Nat
  BY <1>1, ReconcilerAssumption DEF SpecType, replicas
<1>3. ASSUME NEW n \in Followed(appServices)
      PROVE  ServiceStatus(g.spec, view[Deployment(n)]) \in ServiceStatuses
  <2>1. Deployment(n) \in Deployments /\ Deployment(n).kind = "Deployment"
    BY DEF Followed, Deployment, Object, Deployments
  <2>2. view[Deployment(n)] \in StoredObjects(Deployment(n)) \cup {None}
    BY <2>1 DEF Deployments, Objects
  <2>3. CASE view[Deployment(n)] = None
    <3>1. ServiceStatus(g.spec, view[Deployment(n)]) =
            [desired |-> replicas(g.spec), ready |-> 0, image |-> None, rolloutState |-> "Missing"]
      BY <2>3 DEF ServiceStatus
    <3>2. None \in (UNION {Images(o) : o \in Deployments}) \cup {None}
      OBVIOUS
    <3> QED
      BY <1>2, <3>1, <3>2 DEF ServiceStatuses
  <2>4. CASE view[Deployment(n)] # None
    <3> DEFINE v == view[Deployment(n)]
    <3>1. v.content.image \in Images(Deployment(n))
      BY <2>1, <2>2, <2>4 DEF StoredObjects, Contents
    <3>2. v.rollout.newReady \in Nat /\ v.rollout.oldReady \in Nat
      BY <2>1, <2>2, <2>4 DEF StoredObjects, Rollouts
    <3>3. readyReplicas(v) \in Nat
      BY <3>2 DEF readyReplicas
    <3>4. v.content.image \in (UNION {Images(o) : o \in Deployments}) \cup {None}
      BY <2>1, <3>1
    <3>5. ServiceStatus(g.spec, v) =
            [desired |-> replicas(g.spec), ready |-> readyReplicas(v), image |-> v.content.image,
             rolloutState |-> IF AtLeast(v, replicas(g.spec)) THEN "Ready" ELSE "Progressing"]
      BY <2>4 DEF ServiceStatus
    <3> HIDE DEF v
    <3>6. ServiceStatus(g.spec, v) \in ServiceStatuses
      BY <1>2, <3>3, <3>4, <3>5 DEF ServiceStatuses
    <3>7. ServiceStatus(g.spec, v) = ServiceStatus(g.spec, view[Deployment(n)])
      BY DEF v
    <3> QED
      BY <3>6, <3>7
  <2> QED
    BY <2>3, <2>4
<1>4. ASSUME NEW services \in [Followed(appServices) -> ServiceStatuses],
             NEW ok, \A t \in ConditionTypes : ok[t] \in BOOLEAN
      PROVE  StatusOf(g, services, ok) \in Statuses
  BY <1>1, <1>4 DEF StatusOf, Statuses, Condition
<1>6. RefreshedStatus(g, view) \in Statuses
  <2> DEFINE services == [n \in Followed(appServices) |-> ServiceStatus(g.spec, view[Deployment(n)])]
             ok == [AppsReady       |-> \A n \in Followed(appServices) :
                                          services[n].rolloutState = "Ready",
                    InfraReady      |-> deploymentsReady(view, Followed(Infra)),
                    MonitoringReady |-> MonitoringReady(g.spec, view),
                    IngressReady    |-> Ingress \in Slice => view[Ingress] # None,
                    ReconcileSucceeded |-> TRUE]
  <2>1. services \in [Followed(appServices) -> ServiceStatuses]
    BY <1>3
  <2>2. \A t \in ConditionTypes : ok[t] \in BOOLEAN
    <3>1. ok.AppsReady \in BOOLEAN /\ ok.IngressReady \in BOOLEAN
      OBVIOUS
    <3>2. ok.InfraReady \in BOOLEAN
      BY DEF deploymentsReady
    <3>3. ok.MonitoringReady \in BOOLEAN
      BY DEF MonitoringReady
    <3>4. ok.ReconcileSucceeded \in BOOLEAN
      OBVIOUS
    <3> QED
      BY <3>1, <3>2, <3>3, <3>4 DEF ConditionTypes
  <2>3. RefreshedStatus(g, view) = StatusOf(g, services, ok)
    BY DEF RefreshedStatus
  <2> HIDE DEF services, ok
  <2> QED
    BY <1>4, <2>1, <2>2, <2>3
<1>5. DegradedStatus(g) \in Statuses
  BY <1>1 DEF DegradedStatus, Statuses, Condition, ConditionTypes
<1> QED
  BY <1>5, <1>6

-----------------------------------------------------------------------------
(* Type correctness.                                                       *)

\* The part of TypeOK about the objects of one map.
ObjectsTyped(m) ==
  /\ m = [o \in Objects |-> m[o]]
  /\ \A o \in Objects : m[o] \in StoredObjects(o) \cup {None}

LEMMA TypedObjects ==
  TypeOK => ObjectsTyped(store) /\ ObjectsTyped(cache)
BY DEF TypeOK, ObjectsTyped

\* An owner in a cached or stored object is a platform.
LEMMA OwnersType ==
  ASSUME NEW a, NEW b, NEW o, a \in StoredObjects(o) \cup {None}, b \in StoredObjects(o) \cup {None}
  PROVE  OwnersOf(a, b) \subseteq Platforms
BY DEF OwnersOf, StoredObjects, Refs

\* The part of TypeOK about what the informers are yet to deliver.
InformersTyped == current \subseteq Objects /\ woken \in [Objects -> SUBSET Platforms]

LEMMA PutType ==
  ASSUME TypeOK, NEW o \in Objects, NEW v \in StoredObjects(o) \cup {None}, Put(o, v)
  PROVE  ObjectsTyped(store)' /\ InformersTyped'
<1>1. OwnersOf(store[o], v) \subseteq Platforms
  BY OwnersType DEF TypeOK
<1>2. InformersTyped'
  BY <1>1 DEF TypeOK, InformersTyped, Put
<1> QED
  BY <1>2 DEF TypeOK, ObjectsTyped, Put

LEMMA DisturbType ==
  ASSUME TypeOK, NEW d \in Disturbances, Disturb(d)
  PROVE  used' \in [Disturbances -> Nat]
BY DEF TypeOK, Disturb

\* The Deployment controller and failing pods replace a Deployment's rollout by another.
LEMMA RolloutReplaced ==
  ASSUME TypeOK, NEW o \in Objects, ObserveDeployment(o) \/ RollOut(o) \/ PodFailure(o)
  PROVE  /\ store[o] \in StoredObjects(o)
         /\ \E r \in Rollouts(o) : Put(o, [store[o] EXCEPT !.rollout = r])
<1> USE DEF Exists
<1>1. store[o] \in StoredObjects(o) /\ o.kind = "Deployment"
  BY DEF ObserveDeployment, RollOut, PodFailure, TypeOK, Deployments
<1>2. CASE ObserveDeployment(o)
  <2> DEFINE c == store[o].content
             r == store[o].rollout
             same == r.image = c.image
             new == [image    |-> c.image,
                     replicas |-> c.replicas,
                     updated  |-> IF same THEN Smaller(r.updated, c.replicas) ELSE 0,
                     newReady |-> IF same THEN Smaller(r.newReady, c.replicas) ELSE 0,
                     oldReady |-> IF same THEN r.oldReady
                                  ELSE IF o.name = "mysql" THEN 0
                                  ELSE readyReplicas(store[o])]
  <2>1. Put(o, [store[o] EXCEPT !.rollout = new])
    BY <1>2 DEF ObserveDeployment
  <2>2. c.image \in Images(o) /\ c.replicas \in Nat
    BY <1>1 DEF StoredObjects, Contents
  <2>3. r.updated \in Nat /\ r.newReady \in Nat /\ r.oldReady \in Nat
    BY <1>1 DEF StoredObjects, Rollouts
  <2>4. new \in Rollouts(o)
    BY <1>1, <2>2, <2>3 DEF Rollouts, Smaller, readyReplicas
  <2> HIDE DEF new
  <2> QED
    BY <1>1, <2>1, <2>4
<1>3. ASSUME RollOut(o) \/ PodFailure(o)
      PROVE  \E r \in Rollouts(o) : Put(o, [store[o] EXCEPT !.rollout = r])
  <2> DEFINE old == store[o].rollout
  <2>1. /\ [old EXCEPT !.updated = @ + 1] \in Rollouts(o)
        /\ [old EXCEPT !.newReady = @ + 1] \in Rollouts(o)
        /\ old.oldReady > 0 => [old EXCEPT !.oldReady = @ - 1] \in Rollouts(o)
        /\ old.newReady > 0 => [old EXCEPT !.newReady = @ - 1] \in Rollouts(o)
    BY <1>1 DEF StoredObjects, Rollouts
  <2>2. \/ Put(o, [store[o] EXCEPT !.rollout = [old EXCEPT !.updated = @ + 1]])
        \/ Put(o, [store[o] EXCEPT !.rollout = [old EXCEPT !.newReady = @ + 1]])
        \/ old.oldReady > 0 /\ Put(o, [store[o] EXCEPT !.rollout = [old EXCEPT !.oldReady = @ - 1]])
        \/ old.newReady > 0 /\ Put(o, [store[o] EXCEPT !.rollout = [old EXCEPT !.newReady = @ - 1]])
    BY <1>3 DEF RollOut, PodFailure
  <2> HIDE DEF old
  <2> QED
    BY <2>1, <2>2
<1> QED
  BY <1>1, <1>2, <1>3

LEMMA RolloutTyped ==
  ASSUME TypeOK, NEW o \in Objects, ObserveDeployment(o) \/ RollOut(o) \/ PodFailure(o)
  PROVE  ObjectsTyped(store)' /\ InformersTyped'
<1>1. store[o] \in StoredObjects(o)
  BY RolloutReplaced
<1>2. PICK r \in Rollouts(o) : Put(o, [store[o] EXCEPT !.rollout = r])
  BY RolloutReplaced
<1>3. [store[o] EXCEPT !.rollout = r] \in StoredObjects(o)
  BY <1>1 DEF StoredObjects
<1> QED
  BY <1>2, <1>3, PutType

LEMMA InitType == Init => TypeOK
<1> SUFFICES ASSUME Init PROVE TypeOK
  OBVIOUS
<1>1. ObjectsTyped(store)
  BY LegacyType DEF Init, ObjectsTyped
<1> QED
  BY <1>1 DEF Init, TypeOK, ObjectsTyped, InformersTyped

\* What users, administrators and failures do.
LEMMA EnvironmentType ==
  ASSUME TypeOK, Environment
  PROVE  TypeOK'
<1> USE DEF operatorVars, Exists
<1>1. ASSUME NEW p \in Platforms, CreatePlatform(p) PROVE TypeOK'
  <2>1. EmptyStatus \in Statuses
    BY DEF EmptyStatus, Statuses, ConditionTypes
  <2>2. gp' \in [Platforms -> PlatformRecords \cup {None}]
    BY <1>1, <2>1 DEF CreatePlatform, TypeOK, PlatformRecords, Disturbances
  <2>3. used' \in [Disturbances -> Nat]
    BY <1>1, DisturbType DEF CreatePlatform, Disturbances
  <2> QED
    BY <1>1, <2>2, <2>3 DEF CreatePlatform, TypeOK
<1>2. ASSUME NEW p \in Platforms, EditPlatform(p) PROVE TypeOK'
  <2>1. gp' \in [Platforms -> PlatformRecords \cup {None}]
    BY <1>2 DEF EditPlatform, TypeOK, PlatformRecords
  <2>2. used' \in [Disturbances -> Nat]
    BY <1>2, DisturbType DEF EditPlatform, Disturbances
  <2> QED
    BY <1>2, <2>1, <2>2 DEF EditPlatform, TypeOK
<1>3. ASSUME NEW p \in Platforms, DeletePlatform(p) PROVE TypeOK'
  <2>1. gp' \in [Platforms -> PlatformRecords \cup {None}]
    BY <1>3 DEF DeletePlatform, TypeOK
  <2>2. used' \in [Disturbances -> Nat]
    BY <1>3, DisturbType DEF DeletePlatform, Disturbances
  <2> QED
    BY <1>3, <2>1, <2>2 DEF DeletePlatform, TypeOK
<1>4. ASSUME NEW o \in Objects, DeleteObject(o) PROVE TypeOK'
  <2>1. ObjectsTyped(store)' /\ InformersTyped'
    BY <1>4, PutType DEF DeleteObject
  <2>2. used' \in [Disturbances -> Nat]
    BY <1>4, DisturbType DEF DeleteObject, Disturbances
  <2> QED
    BY <1>4, <2>1, <2>2 DEF DeleteObject, TypeOK, ObjectsTyped, InformersTyped
<1>5. ASSUME NEW o \in Objects, EditObject(o) PROVE TypeOK'
  <2>1. PICK c \in Edited(o, store[o].content) : Put(o, [store[o] EXCEPT !.content = c])
    BY <1>5 DEF EditObject
  <2>2. store[o] \in StoredObjects(o)
    BY <1>5 DEF EditObject, TypeOK
  <2>3. c \in Contents(o)
    BY <2>2, EditedType DEF StoredObjects
  <2>4. [store[o] EXCEPT !.content = c] \in StoredObjects(o)
    BY <2>2, <2>3 DEF StoredObjects
  <2>5. ObjectsTyped(store)' /\ InformersTyped'
    BY <2>1, <2>4, PutType
  <2>6. used' \in [Disturbances -> Nat]
    BY <1>5, DisturbType DEF EditObject, Disturbances
  <2> QED
    BY <1>5, <2>5, <2>6 DEF EditObject, TypeOK, ObjectsTyped, InformersTyped
<1>6. ASSUME NEW o \in Objects, PodFailure(o) PROVE TypeOK'
  <2>1. ObjectsTyped(store)' /\ InformersTyped'
    BY <1>6, RolloutTyped
  <2>2. used' \in [Disturbances -> Nat]
    BY <1>6, DisturbType DEF PodFailure, Disturbances
  <2> QED
    BY <1>6, <2>1, <2>2 DEF PodFailure, TypeOK, ObjectsTyped, InformersTyped
<1>7. ASSUME NEW o \in Objects, RejectWrites(o) PROVE TypeOK'
  <2>1. used' \in [Disturbances -> Nat]
    BY <1>7, DisturbType DEF RejectWrites, Disturbances
  <2> QED
    BY <1>7, <2>1 DEF RejectWrites, TypeOK
<1>8. ASSUME NEW o \in Objects, AcceptWrites(o) PROVE TypeOK'
  BY <1>8 DEF AcceptWrites, TypeOK
<1> QED
  BY <1>1, <1>2, <1>3, <1>4, <1>5, <1>6, <1>7, <1>8 DEF Environment

\* What the cluster's controllers do.
LEMMA ClusterType ==
  ASSUME TypeOK, Cluster
  PROVE  TypeOK'
<1> USE DEF operatorVars, Exists
<1>1. ASSUME NEW o \in Objects, CollectGarbage(o) PROVE TypeOK'
  <2>1. ObjectsTyped(store)' /\ InformersTyped'
    BY <1>1, PutType DEF CollectGarbage
  <2> QED
    BY <1>1, <2>1 DEF CollectGarbage, TypeOK, ObjectsTyped, InformersTyped
<1>2. ASSUME NEW o \in Objects, ObserveDeployment(o) \/ RollOut(o) PROVE TypeOK'
  <2>1. ObjectsTyped(store)' /\ InformersTyped'
    BY <1>2, RolloutTyped
  <2> QED
    BY <1>2, <2>1 DEF ObserveDeployment, RollOut, TypeOK, ObjectsTyped, InformersTyped
<1> QED
  BY <1>1, <1>2 DEF Cluster

\* What the informers deliver.
LEMMA InformersType ==
  ASSUME TypeOK, Informers
  PROVE  TypeOK'
<1>1. ASSUME NEW p \in Platforms, SyncPlatform(p) PROVE TypeOK'
  BY <1>1 DEF SyncPlatform, TypeOK
<1>2. ASSUME NEW o \in Objects, SyncObject(o) PROVE TypeOK'
  <2>1. store[o] \in StoredObjects(o) \cup {None} /\ cache[o] \in StoredObjects(o) \cup {None}
    BY DEF TypeOK
  <2>2. woken[o] \subseteq Platforms
    BY DEF TypeOK
  <2>3. ObjectsTyped(cache)'
    BY <1>2, <2>1 DEF SyncObject, TypeOK, ObjectsTyped, InformersTyped
  <2> QED
    BY <1>2, <2>2, <2>3 DEF SyncObject, TypeOK, ObjectsTyped, InformersTyped
<1> QED
  BY <1>1, <1>2 DEF Informers

\* The record of a reconciliation under way.
Reconciliations ==
  [pc : {"ensure", "degraded"}, req : Platforms, snap : PlatformRecords, done : SUBSET Objects]

LEMMA ActiveType ==
  ASSUME TypeOK, rec.pc # "idle"
  PROVE  rec \in Reconciliations
BY DEF TypeOK, Idle, Reconciliations

LEMMA ControllerRefType ==
  ASSUME rec \in Reconciliations
  PROVE  ControllerRef \in Refs
BY DEF Reconciliations, PlatformRecords, ControllerRef, Refs

LEMMA MutatedType ==
  ASSUME TypeOK, rec \in Reconciliations, NEW o \in Objects
  PROVE  Mutated(o) \in StoredObjects(o)
<1>1. ControllerRef \in Refs
  BY ControllerRefType
<1>2. Desired(rec.snap.spec, o) \in Contents(o)
  BY DesiredType DEF Reconciliations, PlatformRecords
<1>3. CASE cache[o] = None
  BY <1>1, <1>2, <1>3 DEF Mutated, StoredObjects, Rollouts, NewRollout
<1>4. CASE cache[o] # None
  BY <1>1, <1>2, <1>4 DEF Mutated, StoredObjects, TypeOK
<1> QED
  BY <1>3, <1>4

LEMMA StatusWriteType ==
  ASSUME TypeOK, rec \in Reconciliations, NEW s \in Statuses, SnapshotCurrent, WriteStatus(s)
  PROVE  gp' \in [Platforms -> PlatformRecords \cup {None}]
<1>1. rec.req \in Platforms /\ gp[rec.req] \in PlatformRecords
  BY DEF Reconciliations, SnapshotCurrent
<1>2. [gp[rec.req] EXCEPT !.status = s] \in PlatformRecords
  BY <1>1 DEF PlatformRecords
<1> QED
  BY <1>1, <1>2 DEF TypeOK, WriteStatus

LEMMA WorkerType ==
  ASSUME TypeOK, Worker
  PROVE  TypeOK'
<1>1. ASSUME NEW p \in Platforms, SkipMissing(p) PROVE TypeOK'
  BY <1>1 DEF SkipMissing, TypeOK
<1>2. ASSUME NEW p \in Platforms, StartReconcile(p) PROVE TypeOK'
  <2>1. rec' \in Reconciliations
    BY <1>2 DEF StartReconcile, TypeOK, Reconciliations
  <2> QED
    BY <1>2, <2>1 DEF StartReconcile, TypeOK, Reconciliations
<1>3. ASSUME NEW o \in Objects, EnsureSucceeds(o) PROVE TypeOK'
  <2>1. rec \in Reconciliations
    BY <1>3, ActiveType DEF EnsureSucceeds
  <2>2. rec' \in Reconciliations
    BY <1>3, <2>1 DEF EnsureSucceeds, Reconciliations
  <2>3. ObjectsTyped(store)' /\ InformersTyped'
    <3>1. CASE Mutated(o) = cache[o]
      BY <1>3, <3>1 DEF EnsureSucceeds, TypeOK, ObjectsTyped, InformersTyped
    <3>2. CASE Mutated(o) # cache[o]
      BY <1>3, <2>1, <3>2, MutatedType, PutType DEF EnsureSucceeds
    <3> QED
      BY <3>1, <3>2
  <2> QED
    BY <1>3, <2>2, <2>3 DEF EnsureSucceeds, TypeOK, ObjectsTyped, InformersTyped, Reconciliations
<1>4. ASSUME NEW o \in Objects, EnsureFails(o) PROVE TypeOK'
  <2>1. rec \in Reconciliations
    BY <1>4, ActiveType DEF EnsureFails
  <2>2. rec' \in Reconciliations
    BY <1>4, <2>1 DEF EnsureFails, Reconciliations
  <2> QED
    BY <1>4, <2>2 DEF EnsureFails, TypeOK, Reconciliations
<1>5. ASSUME ReportDegraded PROVE TypeOK'
  <2>1. rec \in Reconciliations
    BY <1>5, ActiveType DEF ReportDegraded
  <2>2. DegradedStatus(rec.snap) \in Statuses
    BY <2>1, StatusTypes, TypedObjects DEF Reconciliations, ObjectsTyped
  <2>3. gp' \in [Platforms -> PlatformRecords \cup {None}]
    BY <1>5, <2>1, <2>2, StatusWriteType DEF ReportDegraded, TypeOK
  <2> QED
    BY <1>5, <2>1, <2>3 DEF ReportDegraded, TypeOK, Reconciliations
<1>6. ASSUME RefreshStatus PROVE TypeOK'
  <2>1. rec \in Reconciliations
    BY <1>6, ActiveType DEF RefreshStatus
  <2>2. RefreshedStatus(rec.snap, cache) \in Statuses
    BY <2>1, StatusTypes, TypedObjects DEF Reconciliations, ObjectsTyped
  <2>3. gp' \in [Platforms -> PlatformRecords \cup {None}]
    BY <1>6, <2>1, <2>2, StatusWriteType DEF RefreshStatus, TypeOK
  <2> QED
    BY <1>6, <2>1, <2>3 DEF RefreshStatus, TypeOK, Reconciliations
<1> QED
  BY <1>1, <1>2, <1>3, <1>4, <1>5, <1>6 DEF Worker

LEMMA RestartType ==
  ASSUME TypeOK, Restart
  PROVE  TypeOK'
<1>1. \A o \in Objects : OwnersOf(None, store[o]) \subseteq Platforms
  BY OwnersType DEF TypeOK
<1>2. used' \in [Disturbances -> Nat]
  BY DisturbType DEF Restart, Relist, Disturbances
<1> QED
  BY <1>1, <1>2 DEF Restart, Relist, TypeOK

LEMMA TypeStep ==
  ASSUME TypeOK, [Next]_vars
  PROVE  TypeOK'
<1>1. CASE Next
  BY <1>1, EnvironmentType, ClusterType, InformersType, WorkerType, RestartType DEF Next
<1>2. CASE UNCHANGED vars
  BY <1>2 DEF TypeOK, vars
<1> QED
  BY <1>1, <1>2

\* Every reachable state is well typed.
THEOREM TypeCorrect == Spec => []TypeOK
<1>1. TypeOK /\ [Next]_vars => TypeOK'
  BY TypeStep
<1> QED
  BY InitType, <1>1, PTL DEF Spec

-----------------------------------------------------------------------------
(* What the conflict check of the API server protects.                     *)

\* The cached version of an object that counts as current is the stored one.
FreshCache == \A o \in current : cache[o] = store[o]

IInv == TypeOK /\ FreshCache

LEMMA FreshInit == Init => FreshCache
BY DEF Init, FreshCache

LEMMA PutFresh ==
  ASSUME IInv, NEW o \in Objects, NEW v, Put(o, v), UNCHANGED cache
  PROVE  FreshCache'
BY DEF IInv, TypeOK, FreshCache, Put

LEMMA FreshStep ==
  ASSUME IInv, [Next]_vars
  PROVE  FreshCache'
<1> USE DEF operatorVars, Exists
<1>1. CASE Environment
  <2>1. CASE UNCHANGED << store, current, cache >>
    BY <2>1 DEF IInv, FreshCache
  <2>2. ASSUME NEW o \in Objects, DeleteObject(o) PROVE FreshCache'
    BY <2>2, PutFresh DEF DeleteObject
  <2>3. ASSUME NEW o \in Objects, EditObject(o) PROVE FreshCache'
    BY <2>3, PutFresh DEF EditObject
  <2>4. ASSUME NEW o \in Objects, PodFailure(o) PROVE FreshCache'
    BY <2>4, PutFresh DEF PodFailure
  <2> QED
    BY <1>1, <2>1, <2>2, <2>3, <2>4
       DEF Environment, CreatePlatform, EditPlatform, DeletePlatform, RejectWrites, AcceptWrites
<1>2. CASE Cluster
  <2>1. ASSUME NEW o \in Objects, CollectGarbage(o) PROVE FreshCache'
    BY <2>1, PutFresh DEF CollectGarbage
  <2>2. ASSUME NEW o \in Objects, ObserveDeployment(o) PROVE FreshCache'
    BY <2>2, PutFresh DEF ObserveDeployment
  <2>3. ASSUME NEW o \in Objects, RollOut(o) PROVE FreshCache'
    BY <2>3, PutFresh DEF RollOut
  <2> QED
    BY <1>2, <2>1, <2>2, <2>3 DEF Cluster
<1>3. CASE Informers
  BY <1>3 DEF Informers, SyncPlatform, SyncObject, IInv, TypeOK, FreshCache
<1>4. CASE Worker
  <2>1. ASSUME NEW o \in Objects, EnsureSucceeds(o) PROVE FreshCache'
    <3>1. CASE Mutated(o) = cache[o]
      BY <2>1, <3>1 DEF EnsureSucceeds, IInv, FreshCache
    <3>2. CASE Mutated(o) # cache[o]
      BY <2>1, <3>2, PutFresh DEF EnsureSucceeds
    <3> QED
      BY <3>1, <3>2
  <2>2. CASE UNCHANGED << store, current, cache >>
    BY <2>2 DEF IInv, FreshCache
  <2> QED
    BY <1>4, <2>1, <2>2
       DEF Worker, SkipMissing, StartReconcile, EnsureFails, ReportDegraded, RefreshStatus
<1>5. CASE Restart
  BY <1>5 DEF Restart, Relist, FreshCache
<1>6. CASE UNCHANGED vars
  BY <1>6 DEF vars, IInv, FreshCache
<1> QED
  BY <1>1, <1>2, <1>3, <1>4, <1>5, <1>6 DEF Next

LEMMA Inductive == Spec => []IInv
<1>1. IInv /\ [Next]_vars => FreshCache'
  BY FreshStep
<1> QED
  BY TypeCorrect, FreshInit, <1>1, PTL DEF Spec, IInv

\* What one step does to a controlled object that survives it: its controller keeps
\* its name.
OwnersKept ==
  \A o \in Objects :
    (Exists(o) /\ store'[o] # None /\ store[o].owner # None)
      => (store'[o].owner # None /\ store'[o].owner.name = store[o].owner.name)

LEMMA PutKeepsOwners ==
  ASSUME IInv, NEW o \in Objects, NEW v, Put(o, v),
         (Exists(o) /\ v # None /\ store[o].owner # None)
           => (v.owner # None /\ v.owner.name = store[o].owner.name)
  PROVE  OwnersKept
BY DEF IInv, TypeOK, Put, OwnersKept, Exists

\* A status or specification editor, a controller or an administrator leaves owners
\* alone; the operator's own update passes the check on the owner's name with the
\* version it then replaces.
LEMMA OwnersStep ==
  ASSUME IInv, [Next]_vars
  PROVE  OwnersKept
<1>1. CASE UNCHANGED store
  BY <1>1 DEF OwnersKept, Exists
<1>2. ASSUME NEW o \in Objects, DeleteObject(o) \/ CollectGarbage(o) PROVE OwnersKept
  BY <1>2, PutKeepsOwners DEF DeleteObject, CollectGarbage
<1>3. ASSUME NEW o \in Objects, NEW r, NEW c,
             \/ Put(o, [store[o] EXCEPT !.content = c])
             \/ Put(o, [store[o] EXCEPT !.rollout = r]),
             Exists(o)
      PROVE  OwnersKept
  <2>1. store[o] \in StoredObjects(o)
    BY <1>3 DEF IInv, TypeOK, Exists
  <2>2. /\ [store[o] EXCEPT !.content = c].owner = store[o].owner
        /\ [store[o] EXCEPT !.rollout = r].owner = store[o].owner
    BY <2>1 DEF StoredObjects
  <2> QED
    BY <1>3, <2>2, PutKeepsOwners
<1>4. ASSUME NEW o \in Objects, EditObject(o) PROVE OwnersKept
  BY <1>3, <1>4 DEF EditObject
<1>5. ASSUME NEW o \in Objects, PodFailure(o) \/ ObserveDeployment(o) \/ RollOut(o)
      PROVE  OwnersKept
  BY <1>3, <1>5 DEF PodFailure, ObserveDeployment, RollOut
<1>6. ASSUME NEW o \in Objects, EnsureSucceeds(o) PROVE OwnersKept
  <2>1. CASE Mutated(o) = cache[o]
    BY <1>1, <1>6, <2>1 DEF EnsureSucceeds
  <2>2. CASE Mutated(o) # cache[o] /\ cache[o] = None
    <3>1. ~Exists(o)
      BY <1>6, <2>2 DEF EnsureSucceeds, ReconcileFails, CreateFails
    <3> QED
      BY <1>6, <2>2, <3>1, PutKeepsOwners DEF EnsureSucceeds
  <2>3. CASE Mutated(o) # cache[o] /\ cache[o] # None
    <3>1. cache[o] = store[o]
      BY <1>6, <2>3
         DEF EnsureSucceeds, ReconcileFails, UpdateFails, UpdateSent, IInv, FreshCache
    <3>2. store[o].owner # None => store[o].owner.name = rec.req
      BY <1>6, <2>3, <3>1 DEF EnsureSucceeds, ReconcileFails, AlreadyOwned
    <3>3. rec \in Reconciliations
      BY <1>6, ActiveType DEF EnsureSucceeds, IInv
    <3>4. ControllerRef # None /\ ControllerRef.name = rec.req
      BY <3>3, ControllerRefType, ReconcilerAssumption DEF ControllerRef
    <3>5. Mutated(o).owner = ControllerRef
      BY <2>3, <3>1 DEF Mutated, IInv, TypeOK, StoredObjects
    <3> QED
      BY <1>6, <2>3, <3>2, <3>4, <3>5, PutKeepsOwners DEF EnsureSucceeds
  <2> QED
    BY <2>1, <2>2, <2>3
<1> QED
  BY <1>1, <1>2, <1>4, <1>5, <1>6
     DEF Next, Environment, Cluster, Informers, Worker, Restart, Relist, vars, CreatePlatform,
         EditPlatform, DeletePlatform, RejectWrites, AcceptWrites, SyncPlatform, SyncObject,
         SkipMissing, StartReconcile, EnsureFails, ReportDegraded, RefreshStatus, operatorVars

\* A platform never loses an object it controls to another one, whatever the caches
\* hold.
THEOREM OwnershipKept == Spec => NoStealing
<1>1. IInv /\ [Next]_vars => [OwnersKept]_vars
  BY OwnersStep
<1> QED
  BY Inductive, <1>1, PTL DEF Spec, NoStealing, OwnersKept

\* What one step does to the status of a platform that survives it.
StatusesCurrent ==
  \A p \in Platforms :
    (gp[p] # None /\ gp'[p] # None /\ gp'[p].uid = gp[p].uid /\ gp'[p].status # gp[p].status)
      => gp'[p].status.observedGeneration = gp'[p].generation

LEMMA WrittenStatusCurrent ==
  ASSUME TypeOK, rec \in Reconciliations, NEW s, SnapshotCurrent, WriteStatus(s),
         s.observedGeneration = rec.snap.generation
  PROVE  StatusesCurrent
<1>1. rec.req \in Platforms /\ gp[rec.req] = rec.snap /\ rec.snap \in PlatformRecords
  BY DEF Reconciliations, SnapshotCurrent
<1>2. gp' = [gp EXCEPT ![rec.req] = [gp[rec.req] EXCEPT !.status = s]]
  BY DEF WriteStatus
<1>3. gp'[rec.req].status = s /\ gp'[rec.req].generation = rec.snap.generation
  BY <1>1, <1>2 DEF TypeOK, PlatformRecords
<1>4. \A p \in Platforms : p # rec.req => gp'[p] = gp[p]
  BY <1>2 DEF TypeOK
<1> QED
  BY <1>3, <1>4 DEF StatusesCurrent

LEMMA StatusesStep ==
  ASSUME TypeOK, [Next]_vars
  PROVE  StatusesCurrent
<1>1. CASE UNCHANGED gp
  BY <1>1 DEF StatusesCurrent
<1>2. ASSUME NEW p \in Platforms, CreatePlatform(p) PROVE StatusesCurrent
  BY <1>2 DEF CreatePlatform, TypeOK, StatusesCurrent
<1>3. ASSUME NEW p \in Platforms, EditPlatform(p) PROVE StatusesCurrent
  BY <1>3 DEF EditPlatform, TypeOK, PlatformRecords, StatusesCurrent
<1>4. ASSUME NEW p \in Platforms, DeletePlatform(p) PROVE StatusesCurrent
  BY <1>4 DEF DeletePlatform, TypeOK, StatusesCurrent
<1>5. CASE ReportDegraded
  <2>1. rec \in Reconciliations
    BY <1>5, ActiveType DEF ReportDegraded
  <2>2. DegradedStatus(rec.snap).observedGeneration = rec.snap.generation
    BY <2>1 DEF Reconciliations, PlatformRecords, Statuses, DegradedStatus
  <2> QED
    BY <1>1, <1>5, <2>1, <2>2, WrittenStatusCurrent DEF ReportDegraded
<1>6. CASE RefreshStatus
  <2>1. rec \in Reconciliations
    BY <1>6, ActiveType DEF RefreshStatus
  <2>2. RefreshedStatus(rec.snap, cache).observedGeneration = rec.snap.generation
    BY DEF RefreshedStatus, StatusOf
  <2> QED
    BY <1>1, <1>6, <2>1, <2>2, WrittenStatusCurrent DEF RefreshStatus
<1> QED
  BY <1>1, <1>2, <1>3, <1>4, <1>5, <1>6
     DEF Next, Environment, Cluster, Informers, Worker, Restart, Relist, vars, DeleteObject, EditObject,
         PodFailure, RejectWrites, AcceptWrites, CollectGarbage, ObserveDeployment, RollOut,
         SyncPlatform, SyncObject, SkipMissing, StartReconcile, EnsureSucceeds, EnsureFails

\* No verdict about an older specification is ever stored beside a newer one.
THEOREM StatusCurrent == Spec => StatusForCurrentSpec
<1>1. TypeOK /\ [Next]_vars => [StatusesCurrent]_vars
  BY StatusesStep
<1> QED
  BY TypeCorrect, <1>1, PTL DEF Spec, StatusForCurrentSpec, StatusesCurrent
=============================================================================
