-------------------------- MODULE OperatorManagerProof --------------------------
(***************************************************************************)
(* What is proved of one operator (WorkloadsProof), for the processes of   *)
(* OperatorManager.                                                        *)
(*                                                                         *)
(* With --leader-elect they are one operator that is restarted now and     *)
(* then: at most one controller runs, that of the process which started    *)
(* last and is named in the lease (LeaseHeld).  What that process sees and *)
(* does, the one operator sees and does; a process that leads relists, as  *)
(* the one operator does when it restarts; that the other falls behind,    *)
(* nobody notices.  A restart spends a disturbance, and so does the end of *)
(* a process: a lead takes over what its predecessor's end has spent, for  *)
(* which "disturbed" counts a running process as one more.                 *)
(*                                                                         *)
(* Without the lease both run at once, and the inductive invariant of one  *)
(* operator holds for each (BothKept): what one writes is, for the other,  *)
(* one more change of the server that its informers are yet to deliver.    *)
(***************************************************************************)
EXTENDS OperatorManager, FiniteSetTheorems, TLAPS

\* What is proved of one operator, for the memory of either process.
ProofA == INSTANCE WorkloadsProof WITH
            gpCache <- gpCacheA, cache <- cacheA, current <- currentA, woken <- wokenA,
            queue <- queueA, rec <- recA

ProofB == INSTANCE WorkloadsProof WITH
            gpCache <- gpCacheB, cache <- cacheB, current <- currentB, woken <- wokenB,
            queue <- queueB, rec <- recB

\* The same for the memory of the process that started last, as in One.
Single == INSTANCE WorkloadsProof WITH
            used <- disturbed, Limit <- [Limit EXCEPT !["restart"] = @ + 1], Total <- Total + 1

-----------------------------------------------------------------------------
(* The same operators, by the names that each instance gives them: with    *)
(* every definition expanded, both sides are the same text.                *)

\* Reconciler's specification is the same in both instances.
LEMMA OneIsSingle == One!Spec <=> Single!Spec
BY DEF One!imageRegistry, Single!imageRegistry, One!imageTag, Single!imageTag, One!replicas,
       Single!replicas, One!ingressHost, Single!ingressHost, One!ingressClassName,
       Single!ingressClassName, One!monitoringEnabled, Single!monitoringEnabled,
       One!mysqlStorageSize, Single!mysqlStorageSize, One!Object, Single!Object,
       One!Deployment, Single!Deployment, One!Service, Single!Service, One!ConfigMap,
       Single!ConfigMap, One!AppConfig, Single!AppConfig, One!AppSecret, Single!AppSecret,
       One!MySQLData, Single!MySQLData, One!Ingress, Single!Ingress, One!appServices,
       Single!appServices, One!Infra, Single!Infra, One!Monitors, Single!Monitors,
       One!sharedConfigs, Single!sharedConfigs, One!WithServices, Single!WithServices,
       One!ensureConfig, Single!ensureConfig, One!ensureInfra, Single!ensureInfra,
       One!ensureApps, Single!ensureApps, One!ensureIngress, Single!ensureIngress,
       One!ensureMonitoring, Single!ensureMonitoring, One!ensureAll, Single!ensureAll,
       One!Members, Single!Members, One!MonitoringObjects, Single!MonitoringObjects,
       One!Objects, Single!Objects, One!Deployments, Single!Deployments, One!Followed,
       Single!Followed, One!Wanted, Single!Wanted, One!Before, Single!Before, One!Due,
       Single!Due, One!Image, Single!Image, One!BuiltIn, Single!BuiltIn, One!Desired,
       Single!Desired, One!References, Single!References, One!ConditionTypes,
       Single!ConditionTypes, One!Condition, Single!Condition, One!EmptyStatus,
       Single!EmptyStatus, One!readyReplicas, Single!readyReplicas, One!AtLeast,
       Single!AtLeast, One!ServiceStatus, Single!ServiceStatus, One!deploymentsReady,
       Single!deploymentsReady, One!StatusOf, Single!StatusOf, One!MonitoringReady,
       Single!MonitoringReady, One!RefreshedStatus, Single!RefreshedStatus, One!DegradedStatus,
       Single!DegradedStatus, One!Disturbances, Single!Disturbances, One!Refs, Single!Refs,
       One!vars, Single!vars, One!Idle, Single!Idle, One!Exists, Single!Exists, One!OwnerGone,
       Single!OwnerGone, One!OwnersOf, Single!OwnersOf, One!NewRollout, Single!NewRollout,
       One!V1Image, Single!V1Image, One!V1Host, Single!V1Host, One!V1Class, Single!V1Class,
       One!LegacyContent, Single!LegacyContent, One!LegacyObject, Single!LegacyObject,
       One!Init, Single!Init, One!Spent, Single!Spent, One!Disturb, Single!Disturb, One!Put,
       Single!Put, One!operatorVars, Single!operatorVars, One!CreatePlatform,
       Single!CreatePlatform, One!EditPlatform, Single!EditPlatform, One!DeletePlatform,
       Single!DeletePlatform, One!DeleteObject, Single!DeleteObject, One!Edited, Single!Edited,
       One!EditObject, Single!EditObject, One!RejectWrites, Single!RejectWrites,
       One!AcceptWrites, Single!AcceptWrites, One!CollectGarbage, Single!CollectGarbage,
       One!Smaller, Single!Smaller, One!Observed, Single!Observed, One!ObserveDeployment,
       Single!ObserveDeployment, One!RollOut, Single!RollOut, One!PodFailure,
       Single!PodFailure, One!SyncPlatform, Single!SyncPlatform, One!SyncObject,
       Single!SyncObject, One!SkipMissing, Single!SkipMissing, One!StartReconcile,
       Single!StartReconcile, One!ControllerRef, Single!ControllerRef, One!Mutated,
       Single!Mutated, One!UpdateSent, Single!UpdateSent, One!ResizeRejected,
       Single!ResizeRejected, One!CreateFails, Single!CreateFails, One!AlreadyOwned,
       Single!AlreadyOwned, One!UpdateFails, Single!UpdateFails, One!ReconcileFails,
       Single!ReconcileFails, One!EnsureSucceeds, Single!EnsureSucceeds, One!EnsureFails,
       Single!EnsureFails, One!WriteStatus, Single!WriteStatus, One!SnapshotCurrent,
       Single!SnapshotCurrent, One!ReportDegraded, Single!ReportDegraded, One!RefreshStatus,
       Single!RefreshStatus, One!Relist, Single!Relist, One!Restart, Single!Restart,
       One!Environment, Single!Environment, One!Cluster, Single!Cluster, One!Informers,
       Single!Informers, One!Worker, Single!Worker, One!Next, Single!Next, One!Spec,
       Single!Spec, One!Range, Single!Range

LEMMA SameOperators ==
  /\ A!Environment <=> ProofA!Environment
  /\ A!Cluster <=> ProofA!Cluster
  /\ A!Informers <=> ProofA!Informers
  /\ A!Worker <=> ProofA!Worker
  /\ B!Informers <=> ProofB!Informers
  /\ B!Worker <=> ProofB!Worker
  /\ B!Init <=> ProofB!Init
  /\ A!Objects = Objects /\ B!Objects = Objects /\ Single!Objects = Objects
  /\ ProofA!Objects = Objects /\ ProofB!Objects = Objects
  /\ A!Deployments = Single!Deployments
  /\ A!MySQLData = Single!MySQLData /\ B!MySQLData = Single!MySQLData
  /\ A!NewRollout = Single!NewRollout /\ B!NewRollout = Single!NewRollout
  /\ A!EmptyStatus = Single!EmptyStatus
  /\ A!Idle = Single!Idle /\ B!Idle = Single!Idle /\ ProofA!Idle = Single!Idle
  /\ ProofB!Idle = Single!Idle
  /\ A!Disturbances = Single!Disturbances /\ ProofA!Disturbances = Single!Disturbances
  /\ ProofB!Disturbances = Single!Disturbances
  /\ A!Refs = Single!Refs /\ ProofA!Refs = Single!Refs /\ ProofB!Refs = Single!Refs
  /\ A!SpecType = Single!SpecType /\ ProofA!SpecType = Single!SpecType
  /\ ProofB!SpecType = Single!SpecType
  /\ A!PlatformRecords = Single!PlatformRecords
  /\ ProofA!PlatformRecords = Single!PlatformRecords
  /\ ProofB!PlatformRecords = Single!PlatformRecords
  /\ Members(ensureAll) = Single!Members(Single!ensureAll)
  /\ ProofA!Members(ProofA!ensureAll) = Single!Members(Single!ensureAll)
  /\ ProofB!Members(ProofB!ensureAll) = Single!Members(Single!ensureAll)
  /\ \A o : /\ A!StoredObjects(o) = Single!StoredObjects(o)
            /\ ProofA!StoredObjects(o) = Single!StoredObjects(o)
            /\ ProofB!StoredObjects(o) = Single!StoredObjects(o)
            /\ B!LegacyObject(o) = Single!LegacyObject(o)
            /\ A!References(o) = Single!References(o)
            /\ A!Observed(o) = Single!Observed(o)
            /\ A!readyReplicas(o) = Single!readyReplicas(o)
  /\ \A g : /\ A!Wanted(g) = Single!Wanted(g) /\ B!Wanted(g) = Single!Wanted(g)
            /\ A!DegradedStatus(g) = Single!DegradedStatus(g)
            /\ B!DegradedStatus(g) = Single!DegradedStatus(g)
  /\ \A x, y : /\ A!Desired(x, y) = Single!Desired(x, y) /\ B!Desired(x, y) = Single!Desired(x, y)
               /\ A!Due(x, y) = Single!Due(x, y) /\ B!Due(x, y) = Single!Due(x, y)
               /\ A!Edited(x, y) = Single!Edited(x, y)
               /\ A!Smaller(x, y) = Single!Smaller(x, y)
               /\ A!RefreshedStatus(x, y) = Single!RefreshedStatus(x, y)
               /\ B!RefreshedStatus(x, y) = Single!RefreshedStatus(x, y)
               /\ A!OwnersOf(x, y) = Single!OwnersOf(x, y)
               /\ B!OwnersOf(x, y) = Single!OwnersOf(x, y)
               /\ ProofA!OwnersOf(x, y) = Single!OwnersOf(x, y)
               /\ ProofB!OwnersOf(x, y) = Single!OwnersOf(x, y)
<1>1. A!Environment <=> ProofA!Environment
  BY DEF A!imageRegistry, ProofA!imageRegistry, A!imageTag, ProofA!imageTag, A!appServices,
       ProofA!appServices, A!Objects, ProofA!Objects, A!Deployments, ProofA!Deployments,
       A!Image, ProofA!Image, A!ConditionTypes, ProofA!ConditionTypes, A!EmptyStatus,
       ProofA!EmptyStatus, A!Exists, ProofA!Exists, A!OwnersOf, ProofA!OwnersOf, A!Spent,
       ProofA!Spent, A!Disturb, ProofA!Disturb, A!Put, ProofA!Put, A!operatorVars,
       ProofA!operatorVars, A!CreatePlatform, ProofA!CreatePlatform, A!EditPlatform,
       ProofA!EditPlatform, A!DeletePlatform, ProofA!DeletePlatform, A!DeleteObject,
       ProofA!DeleteObject, A!Edited, ProofA!Edited, A!EditObject, ProofA!EditObject,
       A!RejectWrites, ProofA!RejectWrites, A!AcceptWrites, ProofA!AcceptWrites, A!PodFailure,
       ProofA!PodFailure, A!Environment, ProofA!Environment, A!Range, ProofA!Range
<1>2. A!Cluster <=> ProofA!Cluster
  BY DEF A!replicas, ProofA!replicas, A!Object, ProofA!Object, A!ConfigMap, ProofA!ConfigMap,
       A!AppConfig, ProofA!AppConfig, A!AppSecret, ProofA!AppSecret, A!MySQLData,
       ProofA!MySQLData, A!appServices, ProofA!appServices, A!Objects, ProofA!Objects,
       A!Deployments, ProofA!Deployments, A!References, ProofA!References, A!readyReplicas,
       ProofA!readyReplicas, A!Exists, ProofA!Exists, A!OwnerGone, ProofA!OwnerGone,
       A!OwnersOf, ProofA!OwnersOf, A!Put, ProofA!Put, A!operatorVars, ProofA!operatorVars,
       A!CollectGarbage, ProofA!CollectGarbage, A!Smaller, ProofA!Smaller, A!Observed,
       ProofA!Observed, A!ObserveDeployment, ProofA!ObserveDeployment, A!RollOut,
       ProofA!RollOut, A!Cluster, ProofA!Cluster, A!Range, ProofA!Range
<1>3. A!Informers <=> ProofA!Informers
  BY DEF A!Objects, ProofA!Objects, A!SyncPlatform, ProofA!SyncPlatform, A!SyncObject,
       ProofA!SyncObject, A!Informers, ProofA!Informers
<1>4. A!Worker <=> ProofA!Worker
  BY DEF A!imageRegistry, ProofA!imageRegistry, A!imageTag, ProofA!imageTag, A!replicas,
       ProofA!replicas, A!ingressHost, ProofA!ingressHost, A!ingressClassName,
       ProofA!ingressClassName, A!monitoringEnabled, ProofA!monitoringEnabled,
       A!mysqlStorageSize, ProofA!mysqlStorageSize, A!Object, ProofA!Object, A!Deployment,
       ProofA!Deployment, A!Service, ProofA!Service, A!ConfigMap, ProofA!ConfigMap,
       A!AppConfig, ProofA!AppConfig, A!AppSecret, ProofA!AppSecret, A!MySQLData,
       ProofA!MySQLData, A!Ingress, ProofA!Ingress, A!appServices, ProofA!appServices, A!Infra,
       ProofA!Infra, A!Monitors, ProofA!Monitors, A!sharedConfigs, ProofA!sharedConfigs,
       A!WithServices, ProofA!WithServices, A!ensureConfig, ProofA!ensureConfig, A!ensureInfra,
       ProofA!ensureInfra, A!ensureApps, ProofA!ensureApps, A!ensureIngress,
       ProofA!ensureIngress, A!ensureMonitoring, ProofA!ensureMonitoring, A!ensureAll,
       ProofA!ensureAll, A!Members, ProofA!Members, A!MonitoringObjects,
       ProofA!MonitoringObjects, A!Objects, ProofA!Objects, A!Followed, ProofA!Followed,
       A!Wanted, ProofA!Wanted, A!Before, ProofA!Before, A!Due, ProofA!Due, A!Image,
       ProofA!Image, A!BuiltIn, ProofA!BuiltIn, A!Desired, ProofA!Desired, A!ConditionTypes,
       ProofA!ConditionTypes, A!Condition, ProofA!Condition, A!readyReplicas,
       ProofA!readyReplicas, A!AtLeast, ProofA!AtLeast, A!ServiceStatus, ProofA!ServiceStatus,
       A!deploymentsReady, ProofA!deploymentsReady, A!StatusOf, ProofA!StatusOf,
       A!MonitoringReady, ProofA!MonitoringReady, A!RefreshedStatus, ProofA!RefreshedStatus,
       A!DegradedStatus, ProofA!DegradedStatus, A!Idle, ProofA!Idle, A!Exists, ProofA!Exists,
       A!OwnersOf, ProofA!OwnersOf, A!NewRollout, ProofA!NewRollout, A!Put, ProofA!Put,
       A!SkipMissing, ProofA!SkipMissing, A!StartReconcile, ProofA!StartReconcile,
       A!ControllerRef, ProofA!ControllerRef, A!Mutated, ProofA!Mutated, A!UpdateSent,
       ProofA!UpdateSent, A!ResizeRejected, ProofA!ResizeRejected, A!CreateFails,
       ProofA!CreateFails, A!AlreadyOwned, ProofA!AlreadyOwned, A!UpdateFails,
       ProofA!UpdateFails, A!ReconcileFails, ProofA!ReconcileFails, A!EnsureSucceeds,
       ProofA!EnsureSucceeds, A!EnsureFails, ProofA!EnsureFails, A!WriteStatus,
       ProofA!WriteStatus, A!SnapshotCurrent, ProofA!SnapshotCurrent, A!ReportDegraded,
       ProofA!ReportDegraded, A!RefreshStatus, ProofA!RefreshStatus, A!Worker, ProofA!Worker,
       A!Range, ProofA!Range
<1>5. B!Informers <=> ProofB!Informers
  BY DEF B!Objects, ProofB!Objects, B!SyncPlatform, ProofB!SyncPlatform, B!SyncObject,
       ProofB!SyncObject, B!Informers, ProofB!Informers
<1>6. B!Worker <=> ProofB!Worker
  BY DEF B!imageRegistry, ProofB!imageRegistry, B!imageTag, ProofB!imageTag, B!replicas,
       ProofB!replicas, B!ingressHost, ProofB!ingressHost, B!ingressClassName,
       ProofB!ingressClassName, B!monitoringEnabled, ProofB!monitoringEnabled,
       B!mysqlStorageSize, ProofB!mysqlStorageSize, B!Object, ProofB!Object, B!Deployment,
       ProofB!Deployment, B!Service, ProofB!Service, B!ConfigMap, ProofB!ConfigMap,
       B!AppConfig, ProofB!AppConfig, B!AppSecret, ProofB!AppSecret, B!MySQLData,
       ProofB!MySQLData, B!Ingress, ProofB!Ingress, B!appServices, ProofB!appServices, B!Infra,
       ProofB!Infra, B!Monitors, ProofB!Monitors, B!sharedConfigs, ProofB!sharedConfigs,
       B!WithServices, ProofB!WithServices, B!ensureConfig, ProofB!ensureConfig, B!ensureInfra,
       ProofB!ensureInfra, B!ensureApps, ProofB!ensureApps, B!ensureIngress,
       ProofB!ensureIngress, B!ensureMonitoring, ProofB!ensureMonitoring, B!ensureAll,
       ProofB!ensureAll, B!Members, ProofB!Members, B!MonitoringObjects,
       ProofB!MonitoringObjects, B!Objects, ProofB!Objects, B!Followed, ProofB!Followed,
       B!Wanted, ProofB!Wanted, B!Before, ProofB!Before, B!Due, ProofB!Due, B!Image,
       ProofB!Image, B!BuiltIn, ProofB!BuiltIn, B!Desired, ProofB!Desired, B!ConditionTypes,
       ProofB!ConditionTypes, B!Condition, ProofB!Condition, B!readyReplicas,
       ProofB!readyReplicas, B!AtLeast, ProofB!AtLeast, B!ServiceStatus, ProofB!ServiceStatus,
       B!deploymentsReady, ProofB!deploymentsReady, B!StatusOf, ProofB!StatusOf,
       B!MonitoringReady, ProofB!MonitoringReady, B!RefreshedStatus, ProofB!RefreshedStatus,
       B!DegradedStatus, ProofB!DegradedStatus, B!Idle, ProofB!Idle, B!Exists, ProofB!Exists,
       B!OwnersOf, ProofB!OwnersOf, B!NewRollout, ProofB!NewRollout, B!Put, ProofB!Put,
       B!SkipMissing, ProofB!SkipMissing, B!StartReconcile, ProofB!StartReconcile,
       B!ControllerRef, ProofB!ControllerRef, B!Mutated, ProofB!Mutated, B!UpdateSent,
       ProofB!UpdateSent, B!ResizeRejected, ProofB!ResizeRejected, B!CreateFails,
       ProofB!CreateFails, B!AlreadyOwned, ProofB!AlreadyOwned, B!UpdateFails,
       ProofB!UpdateFails, B!ReconcileFails, ProofB!ReconcileFails, B!EnsureSucceeds,
       ProofB!EnsureSucceeds, B!EnsureFails, ProofB!EnsureFails, B!WriteStatus,
       ProofB!WriteStatus, B!SnapshotCurrent, ProofB!SnapshotCurrent, B!ReportDegraded,
       ProofB!ReportDegraded, B!RefreshStatus, ProofB!RefreshStatus, B!Worker, ProofB!Worker,
       B!Range, ProofB!Range
<1>7. B!Init <=> ProofB!Init
  BY DEF B!replicas, ProofB!replicas, B!appServices, ProofB!appServices, B!Objects,
       ProofB!Objects, B!Disturbances, ProofB!Disturbances, B!Idle, ProofB!Idle, B!NewRollout,
       ProofB!NewRollout, B!V1Image, ProofB!V1Image, B!V1Host, ProofB!V1Host, B!V1Class,
       ProofB!V1Class, B!LegacyContent, ProofB!LegacyContent, B!LegacyObject,
       ProofB!LegacyObject, B!Init, ProofB!Init, B!Range, ProofB!Range
<1>8. /\ A!Objects = Objects /\ B!Objects = Objects /\ Single!Objects = Objects
      /\ ProofA!Objects = Objects /\ ProofB!Objects = Objects
      /\ A!Deployments = Single!Deployments
      /\ A!MySQLData = Single!MySQLData /\ B!MySQLData = Single!MySQLData
      /\ A!NewRollout = Single!NewRollout /\ B!NewRollout = Single!NewRollout
      /\ A!EmptyStatus = Single!EmptyStatus
      /\ A!Idle = Single!Idle /\ B!Idle = Single!Idle /\ ProofA!Idle = Single!Idle
      /\ ProofB!Idle = Single!Idle
      /\ A!Disturbances = Single!Disturbances /\ ProofA!Disturbances = Single!Disturbances
      /\ ProofB!Disturbances = Single!Disturbances
      /\ A!Refs = Single!Refs /\ ProofA!Refs = Single!Refs /\ ProofB!Refs = Single!Refs
      /\ A!SpecType = Single!SpecType /\ ProofA!SpecType = Single!SpecType
      /\ ProofB!SpecType = Single!SpecType
      /\ A!PlatformRecords = Single!PlatformRecords
      /\ ProofA!PlatformRecords = Single!PlatformRecords
      /\ ProofB!PlatformRecords = Single!PlatformRecords
      /\ Members(ensureAll) = Single!Members(Single!ensureAll)
      /\ ProofA!Members(ProofA!ensureAll) = Single!Members(Single!ensureAll)
      /\ ProofB!Members(ProofB!ensureAll) = Single!Members(Single!ensureAll)
  BY DEF Objects, Object, Deployment, Service, ConfigMap, AppConfig, AppSecret, MySQLData,
       Ingress, appServices, Infra, Monitors, sharedConfigs, WithServices, ensureConfig,
       ensureInfra, ensureApps, ensureIngress, ensureMonitoring, ensureAll, Members,
       A!imageRegistry, Single!imageRegistry, ProofA!imageRegistry, ProofB!imageRegistry,
       A!imageTag, Single!imageTag, ProofA!imageTag, ProofB!imageTag, A!replicas, B!replicas,
       Single!replicas, ProofA!replicas, ProofB!replicas, A!SpecType, Single!SpecType,
       ProofA!SpecType, ProofB!SpecType, A!Object, B!Object, Single!Object, ProofA!Object,
       ProofB!Object, A!Deployment, Single!Deployment, ProofA!Deployment, ProofB!Deployment,
       Single!Service, ProofA!Service, ProofB!Service, Single!ConfigMap, ProofA!ConfigMap,
       ProofB!ConfigMap, Single!AppConfig, ProofA!AppConfig, ProofB!AppConfig,
       Single!AppSecret, ProofA!AppSecret, ProofB!AppSecret, A!MySQLData, B!MySQLData,
       Single!MySQLData, ProofA!MySQLData, ProofB!MySQLData, Single!Ingress, ProofA!Ingress,
       ProofB!Ingress, A!appServices, Single!appServices, ProofA!appServices,
       ProofB!appServices, Single!Infra, ProofA!Infra, ProofB!Infra, Single!Monitors,
       ProofA!Monitors, ProofB!Monitors, Single!sharedConfigs, ProofA!sharedConfigs,
       ProofB!sharedConfigs, Single!WithServices, ProofA!WithServices, ProofB!WithServices,
       Single!ensureConfig, ProofA!ensureConfig, ProofB!ensureConfig, Single!ensureInfra,
       ProofA!ensureInfra, ProofB!ensureInfra, Single!ensureApps, ProofA!ensureApps,
       ProofB!ensureApps, Single!ensureIngress, ProofA!ensureIngress, ProofB!ensureIngress,
       Single!ensureMonitoring, ProofA!ensureMonitoring, ProofB!ensureMonitoring,
       Single!ensureAll, ProofA!ensureAll, ProofB!ensureAll, Single!Members, ProofA!Members,
       ProofB!Members, A!Objects, B!Objects, Single!Objects, ProofA!Objects, ProofB!Objects,
       A!Deployments, Single!Deployments, ProofA!Deployments, ProofB!Deployments, A!Followed,
       Single!Followed, ProofA!Followed, ProofB!Followed, A!Image, Single!Image, ProofA!Image,
       ProofB!Image, A!ConditionTypes, Single!ConditionTypes, ProofA!ConditionTypes,
       ProofB!ConditionTypes, A!EmptyStatus, Single!EmptyStatus, A!Disturbances,
       Single!Disturbances, ProofA!Disturbances, ProofB!Disturbances, A!Refs, Single!Refs,
       ProofA!Refs, ProofB!Refs, A!Idle, B!Idle, Single!Idle, ProofA!Idle, ProofB!Idle,
       A!NewRollout, B!NewRollout, Single!NewRollout, A!V1Image, Single!V1Image,
       ProofA!V1Image, ProofB!V1Image, A!Images, Single!Images, ProofA!Images, ProofB!Images,
       A!ServiceStatuses, Single!ServiceStatuses, ProofA!ServiceStatuses,
       ProofB!ServiceStatuses, A!Statuses, Single!Statuses, ProofA!Statuses, ProofB!Statuses,
       A!PlatformRecords, Single!PlatformRecords, ProofA!PlatformRecords,
       ProofB!PlatformRecords, A!Range, Single!Range, ProofA!Range, ProofB!Range
<1>9. \A o : /\ A!StoredObjects(o) = Single!StoredObjects(o)
              /\ ProofA!StoredObjects(o) = Single!StoredObjects(o)
              /\ ProofB!StoredObjects(o) = Single!StoredObjects(o)
              /\ B!LegacyObject(o) = Single!LegacyObject(o)
              /\ A!References(o) = Single!References(o)
              /\ A!Observed(o) = Single!Observed(o)
              /\ A!readyReplicas(o) = Single!readyReplicas(o)
  BY DEF A!imageRegistry, Single!imageRegistry, ProofA!imageRegistry, ProofB!imageRegistry,
       A!imageTag, Single!imageTag, ProofA!imageTag, ProofB!imageTag, A!replicas,
       Single!replicas, ProofA!replicas, ProofB!replicas, B!replicas, A!ingressHost,
       Single!ingressHost, ProofA!ingressHost, ProofB!ingressHost, A!ingressClassName,
       Single!ingressClassName, ProofA!ingressClassName, ProofB!ingressClassName, A!Object,
       Single!Object, A!ConfigMap, Single!ConfigMap, A!AppConfig, Single!AppConfig,
       A!AppSecret, Single!AppSecret, A!MySQLData, Single!MySQLData, A!appServices,
       Single!appServices, ProofA!appServices, ProofB!appServices, B!appServices, A!Image,
       Single!Image, ProofA!Image, ProofB!Image, A!References, Single!References,
       A!readyReplicas, Single!readyReplicas, A!Refs, Single!Refs, ProofA!Refs, ProofB!Refs,
       Single!NewRollout, B!NewRollout, A!V1Image, Single!V1Image, ProofA!V1Image,
       ProofB!V1Image, B!V1Image, A!V1Host, Single!V1Host, ProofA!V1Host, ProofB!V1Host,
       B!V1Host, A!V1Class, Single!V1Class, ProofA!V1Class, ProofB!V1Class, B!V1Class,
       Single!LegacyContent, B!LegacyContent, Single!LegacyObject, B!LegacyObject, A!Observed,
       Single!Observed, A!Images, Single!Images, ProofA!Images, ProofB!Images, A!Contents,
       Single!Contents, ProofA!Contents, ProofB!Contents, A!Rollouts, Single!Rollouts,
       ProofA!Rollouts, ProofB!Rollouts, A!StoredObjects, Single!StoredObjects,
       ProofA!StoredObjects, ProofB!StoredObjects, A!Range, Single!Range, ProofA!Range,
       ProofB!Range, B!Range
<1>10. \A g : /\ A!Wanted(g) = Single!Wanted(g) /\ B!Wanted(g) = Single!Wanted(g)
              /\ A!DegradedStatus(g) = Single!DegradedStatus(g)
              /\ B!DegradedStatus(g) = Single!DegradedStatus(g)
  BY DEF A!monitoringEnabled, Single!monitoringEnabled, B!monitoringEnabled, A!Object,
       Single!Object, B!Object, A!Deployment, Single!Deployment, B!Deployment, A!Service,
       Single!Service, B!Service, A!Monitors, Single!Monitors, B!Monitors, A!WithServices,
       Single!WithServices, B!WithServices, A!ensureMonitoring, Single!ensureMonitoring,
       B!ensureMonitoring, A!Members, Single!Members, B!Members, A!MonitoringObjects,
       Single!MonitoringObjects, B!MonitoringObjects, A!Wanted, Single!Wanted, B!Wanted,
       A!Condition, Single!Condition, B!Condition, A!DegradedStatus, Single!DegradedStatus,
       B!DegradedStatus
<1>11. \A x, y : /\ A!Desired(x, y) = Single!Desired(x, y) /\ B!Desired(x, y) = Single!Desired(x, y)
                 /\ A!Due(x, y) = Single!Due(x, y) /\ B!Due(x, y) = Single!Due(x, y)
                 /\ A!Edited(x, y) = Single!Edited(x, y)
                 /\ A!Smaller(x, y) = Single!Smaller(x, y)
                 /\ A!RefreshedStatus(x, y) = Single!RefreshedStatus(x, y)
                 /\ B!RefreshedStatus(x, y) = Single!RefreshedStatus(x, y)
                 /\ A!OwnersOf(x, y) = Single!OwnersOf(x, y)
                 /\ B!OwnersOf(x, y) = Single!OwnersOf(x, y)
                 /\ ProofA!OwnersOf(x, y) = Single!OwnersOf(x, y)
                 /\ ProofB!OwnersOf(x, y) = Single!OwnersOf(x, y)
  BY DEF A!imageRegistry, Single!imageRegistry, B!imageRegistry, A!imageTag, Single!imageTag,
       B!imageTag, A!replicas, Single!replicas, B!replicas, A!ingressHost, Single!ingressHost,
       B!ingressHost, A!ingressClassName, Single!ingressClassName, B!ingressClassName,
       A!monitoringEnabled, Single!monitoringEnabled, B!monitoringEnabled, A!mysqlStorageSize,
       Single!mysqlStorageSize, B!mysqlStorageSize, A!Object, Single!Object, B!Object,
       A!Deployment, Single!Deployment, B!Deployment, A!Service, Single!Service, B!Service,
       A!ConfigMap, Single!ConfigMap, B!ConfigMap, A!AppConfig, Single!AppConfig, B!AppConfig,
       A!AppSecret, Single!AppSecret, B!AppSecret, A!MySQLData, Single!MySQLData, B!MySQLData,
       A!Ingress, Single!Ingress, B!Ingress, A!appServices, Single!appServices, B!appServices,
       A!Infra, Single!Infra, B!Infra, A!Monitors, Single!Monitors, B!Monitors,
       A!sharedConfigs, Single!sharedConfigs, B!sharedConfigs, A!WithServices,
       Single!WithServices, B!WithServices, A!ensureConfig, Single!ensureConfig,
       B!ensureConfig, A!ensureInfra, Single!ensureInfra, B!ensureInfra, A!ensureApps,
       Single!ensureApps, B!ensureApps, A!ensureIngress, Single!ensureIngress, B!ensureIngress,
       A!ensureMonitoring, Single!ensureMonitoring, B!ensureMonitoring, A!ensureAll,
       Single!ensureAll, B!ensureAll, A!Members, Single!Members, B!Members,
       A!MonitoringObjects, Single!MonitoringObjects, B!MonitoringObjects, A!Followed,
       Single!Followed, B!Followed, A!Wanted, Single!Wanted, B!Wanted, A!Before, Single!Before,
       B!Before, A!Due, Single!Due, B!Due, A!Image, Single!Image, B!Image, A!BuiltIn,
       Single!BuiltIn, B!BuiltIn, A!Desired, Single!Desired, B!Desired, A!ConditionTypes,
       Single!ConditionTypes, B!ConditionTypes, A!Condition, Single!Condition, B!Condition,
       A!readyReplicas, Single!readyReplicas, B!readyReplicas, A!AtLeast, Single!AtLeast,
       B!AtLeast, A!ServiceStatus, Single!ServiceStatus, B!ServiceStatus, A!deploymentsReady,
       Single!deploymentsReady, B!deploymentsReady, A!StatusOf, Single!StatusOf, B!StatusOf,
       A!MonitoringReady, Single!MonitoringReady, B!MonitoringReady, A!RefreshedStatus,
       Single!RefreshedStatus, B!RefreshedStatus, A!OwnersOf, Single!OwnersOf, B!OwnersOf,
       ProofA!OwnersOf, ProofB!OwnersOf, A!Edited, Single!Edited, A!Smaller, Single!Smaller,
       A!Range, Single!Range, B!Range
<1>. QED
  BY <1>1, <1>2, <1>3, <1>4, <1>5, <1>6, <1>7, <1>8, <1>9, <1>10, <1>11

\* What WorkloadsProof assumes of its constants holds of each instance's.
LEMMA Assumptions ==
  /\ Single!SliceAssumption /\ Single!ReconcilerAssumption /\ Single!NoneAssumption
  /\ ProofA!SliceAssumption /\ ProofA!ReconcilerAssumption /\ ProofA!NoneAssumption
  /\ ProofB!SliceAssumption /\ ProofB!ReconcilerAssumption /\ ProofB!NoneAssumption
<1>1. Single!SliceAssumption /\ ProofA!SliceAssumption /\ ProofB!SliceAssumption
  BY SliceAssumption, SameOperators
<1>2. Single!ReconcilerAssumption /\ ProofA!ReconcilerAssumption /\ ProofB!ReconcilerAssumption
  BY ManagerAssumption, SameOperators DEF Single!Disturbances
<1>3. Single!NoneAssumption /\ ProofA!NoneAssumption /\ ProofB!NoneAssumption
  BY ManagerAssumption, SameOperators
<1>. QED
  BY <1>1, <1>2, <1>3

-----------------------------------------------------------------------------
(* Whose memory it is.                                                     *)

\* The one operator's memory is that of process "a" if it started last, else that of "b".
LEMMA OfA ==
  /\ latest = "a" => /\ gpCache = gpCacheA /\ cache = cacheA /\ current = currentA
                     /\ woken = wokenA /\ queue = queueA /\ rec = recA
  /\ latest' = "a" => /\ gpCache' = gpCacheA' /\ cache' = cacheA' /\ current' = currentA'
                      /\ woken' = wokenA' /\ queue' = queueA' /\ rec' = recA'
BY DEF gpCache, cache, current, woken, queue, rec, Last

LEMMA OfB ==
  /\ latest # "a" => /\ gpCache = gpCacheB /\ cache = cacheB /\ current = currentB
                     /\ woken = wokenB /\ queue = queueB /\ rec = recB
  /\ latest' # "a" => /\ gpCache' = gpCacheB' /\ cache' = cacheB' /\ current' = currentB'
                      /\ woken' = wokenB' /\ queue' = queueB' /\ rec' = recB'
BY DEF gpCache, cache, current, woken, queue, rec, Last

\* At most one controller runs, that of the process in the lease, and it was the last
\* to start.
LeaseHeld ==
  /\ latest \in {"a", "b"}
  /\ running = {} \/ (running = {latest} /\ lease = latest)
  /\ used \in [A!Disturbances -> Nat]
  /\ used["restart"] <= Limit["restart"] /\ A!Spent <= Total

LEMMA RunningCount ==
  ASSUME LeaseHeld
  PROVE  Cardinality(running) = IF running = {} THEN 0 ELSE 1
BY FS_EmptySet, FS_Singleton DEF LeaseHeld

\* What the one operator has spent: the same, and one more restart while a process runs.
LEMMA Counts ==
  ASSUME LeaseHeld
  PROVE  /\ \A d \in A!Disturbances : /\ used[d] \in Nat
                                      /\ d # "restart" => disturbed[d] = used[d]
         /\ disturbed["restart"] = used["restart"] + Cardinality(running)
         /\ A!Spent \in Nat /\ Single!Spent = A!Spent + Cardinality(running)
<1>1. /\ \A d \in A!Disturbances : used[d] \in Nat /\ (d # "restart" => disturbed[d] = used[d])
      /\ disturbed["restart"] = used["restart"] + Cardinality(running)
  BY DEF LeaseHeld, disturbed, A!Disturbances
<1>2. Cardinality(running) \in Nat
  BY RunningCount
<1>. HIDE DEF disturbed
<1>. QED
  BY <1>1, <1>2 DEF A!Spent, Single!Spent, A!Disturbances

\* What disturbs the processes, their ends apart, disturbs the one operator, within its bounds.
LEMMA Disturbance ==
  ASSUME LeaseHeld, NEW d \in A!Disturbances, d # "restart", A!Disturb(d), UNCHANGED running
  PROVE  Single!Disturb(d)
<1>1. disturbed' = [disturbed EXCEPT ![d] = @ + 1]
  BY DEF A!Disturb, disturbed, LeaseHeld
<1>2. [Limit EXCEPT !["restart"] = @ + 1][d] = Limit[d]
  BY ManagerAssumption
<1>3. disturbed[d] = used[d] /\ Single!Spent <= A!Spent + 1 /\ A!Spent \in Nat
  BY Counts, RunningCount
<1>4. Single!Spent \in Nat /\ Total \in Nat
  BY Counts, RunningCount, ManagerAssumption
<1>. QED
  BY <1>1, <1>2, <1>3, <1>4 DEF A!Disturb, Single!Disturb

-----------------------------------------------------------------------------
(* The surroundings.                                                       *)

\* What leaves the objects alone passes unnoticed.
LEMMA Unnoticed ==
  ASSUME Single!TypeOK, FallBehindB, UNCHANGED << store, memoryA, manager >>
  PROVE  UNCHANGED << current, woken, Single!operatorVars >>
<1>1. CASE latest = "a"
  BY <1>1, OfA DEF memoryA, manager, Single!operatorVars
<1>2. CASE latest # "a"
  <2>1. Changed = {}
    BY DEF Changed
  <2>2. wokenB = [o \in Objects |-> wokenB[o]]
    BY <1>2, OfB, SameOperators DEF Single!TypeOK
  <2>3. UNCHANGED memoryB
    BY <2>1, <2>2 DEF FallBehindB, Missed, memoryB
  <2>. QED
    BY <1>2, <2>3, OfB DEF memoryB, manager, Single!operatorVars
<1>. QED
  BY <1>1, <1>2

\* What replaces an object outdates it in every cache.
LEMMA Noticed ==
  ASSUME Single!TypeOK, NEW o \in Objects, NEW v, v # store[o], A!Put(o, v), FallBehindB,
         UNCHANGED << A!operatorVars, manager >>
  PROVE  Single!Put(o, v) /\ UNCHANGED Single!operatorVars
<1>1. CASE latest = "a"
  BY <1>1, OfA, SameOperators
     DEF A!Put, A!operatorVars, manager, Single!Put, Single!operatorVars
<1>2. CASE latest # "a"
  <2>1. Changed = {o}
    BY SameOperators DEF Changed, A!Put, Single!TypeOK
  <2>2. wokenB = [q \in Objects |-> wokenB[q]]
    BY <1>2, OfB, SameOperators DEF Single!TypeOK
  <2>3. store'[o] = v
    BY SameOperators DEF A!Put, Single!TypeOK
  <2>4. wokenB' = [wokenB EXCEPT ![o] = @ \cup Single!OwnersOf(store[o], v)]
    BY <2>1, <2>2, <2>3, SameOperators DEF FallBehindB, Missed
  <2>. QED
    BY <1>2, <2>1, <2>4, OfB DEF A!Put, FallBehindB, manager, Single!Put, Single!operatorVars
<1>. QED
  BY <1>1, <1>2

\* A step of the users, or of failing pods, is one for the one operator.
LEMMA EnvironmentMaps ==
  ASSUME LeaseHeld, Single!TypeOK, World(A!Environment)
  PROVE  Single!Environment
<1>. USE DEF World, A!operatorVars, memoryA, manager, A!Exists, Single!Exists
<1>1. ASSUME NEW p \in Platforms, A!CreatePlatform(p) PROVE Single!CreatePlatform(p)
  <2>1. Single!Disturb("create") /\ disturbed["create"] = used["create"]
    BY <1>1, Disturbance, Counts DEF A!CreatePlatform, A!Disturbances
  <2>2. UNCHANGED << current, woken, Single!operatorVars >>
    BY <1>1, Unnoticed DEF A!CreatePlatform
  <2>. QED
    BY <1>1, <2>1, <2>2, SameOperators DEF A!CreatePlatform, Single!CreatePlatform
<1>2. ASSUME NEW p \in Platforms, A!EditPlatform(p) \/ A!DeletePlatform(p)
      PROVE  Single!EditPlatform(p) \/ Single!DeletePlatform(p)
  <2>1. A!EditPlatform(p) => Single!Disturb("edit")
    BY Disturbance DEF A!EditPlatform, A!Disturbances
  <2>2. A!DeletePlatform(p) => Single!Disturb("delete")
    BY Disturbance DEF A!DeletePlatform, A!Disturbances
  <2>3. UNCHANGED << current, woken, Single!operatorVars >>
    BY <1>2, Unnoticed DEF A!EditPlatform, A!DeletePlatform
  <2>. QED
    BY <1>2, <2>1, <2>2, <2>3
       DEF A!EditPlatform, A!DeletePlatform, Single!EditPlatform, Single!DeletePlatform
<1>3. ASSUME NEW o \in Objects, A!DeleteObject(o) PROVE Single!DeleteObject(o)
  <2>1. Single!Disturb("delete")
    BY <1>3, Disturbance DEF A!DeleteObject, A!Disturbances
  <2>2. Single!Put(o, None) /\ UNCHANGED Single!operatorVars
    BY <1>3, Noticed DEF A!DeleteObject
  <2>. QED
    BY <1>3, <2>1, <2>2 DEF A!DeleteObject, Single!DeleteObject
<1>4. ASSUME NEW o \in Objects, A!EditObject(o) PROVE Single!EditObject(o)
  <2>1. Single!Disturb("drift")
    BY <1>4, Disturbance DEF A!EditObject, A!Disturbances
  <2>2. PICK c \in A!Edited(o, store[o].content) \ {store[o].content} :
          A!Put(o, [store[o] EXCEPT !.content = c])
    BY <1>4 DEF A!EditObject
  <2>3. store[o] \in Single!StoredObjects(o)
    BY <1>4, SameOperators DEF A!EditObject, Single!TypeOK
  <2>4. [store[o] EXCEPT !.content = c].content = c
    BY <2>3 DEF Single!StoredObjects
  <2>5. [store[o] EXCEPT !.content = c] # store[o]
    BY <2>2, <2>4
  <2>6. Single!Put(o, [store[o] EXCEPT !.content = c]) /\ UNCHANGED Single!operatorVars
    BY <1>4, <2>2, <2>5, Noticed DEF A!EditObject
  <2>7. c \in Single!Edited(o, store[o].content) \ {store[o].content}
    BY <2>2, SameOperators
  <2>. QED
    BY <1>4, <2>1, <2>6, <2>7 DEF A!EditObject, Single!EditObject
<1>5. ASSUME NEW o \in Objects, A!PodFailure(o) PROVE Single!PodFailure(o)
  <2>. DEFINE v == [store[o] EXCEPT !.rollout.newReady = @ - 1]
  <2>1. Single!Disturb("podFailure")
    BY <1>5, Disturbance DEF A!PodFailure, A!Disturbances
  <2>2. o.kind = "Deployment" /\ store[o] \in Single!StoredObjects(o)
    BY <1>5, SameOperators DEF A!PodFailure, Single!TypeOK, Single!Deployments
  <2>3. v.rollout.newReady # store[o].rollout.newReady
    BY <2>2 DEF Single!StoredObjects, Single!Rollouts
  <2>4. v # store[o]
    BY <2>3
  <2>5. Single!Put(o, v) /\ UNCHANGED Single!operatorVars
    BY <1>5, <2>4, Noticed DEF A!PodFailure
  <2>. QED
    BY <1>5, <2>1, <2>5, SameOperators DEF A!PodFailure, Single!PodFailure
<1>6. ASSUME NEW o \in Objects, A!RejectWrites(o) \/ A!AcceptWrites(o)
      PROVE  Single!RejectWrites(o) \/ Single!AcceptWrites(o)
  <2>1. A!RejectWrites(o) => Single!Disturb("reject")
    BY Disturbance DEF A!RejectWrites, A!Disturbances
  <2>2. UNCHANGED << current, woken, Single!operatorVars >>
    BY <1>6, Unnoticed DEF A!RejectWrites, A!AcceptWrites
  <2>3. A!AcceptWrites(o) => UNCHANGED disturbed
    BY DEF A!AcceptWrites, disturbed
  <2>. QED
    BY <1>6, <2>1, <2>2, <2>3
       DEF A!RejectWrites, A!AcceptWrites, Single!RejectWrites, Single!AcceptWrites
<1>. QED
  BY <1>1, <1>2, <1>3, <1>4, <1>5, <1>6, SameOperators DEF A!Environment, Single!Environment

\* And so is one of the Deployment controller and the garbage collector.
LEMMA ClusterMaps ==
  ASSUME Single!TypeOK, World(A!Cluster)
  PROVE  Single!Cluster
<1>. USE DEF World, A!operatorVars, manager, A!Exists, Single!Exists
<1>1. ASSUME UNCHANGED used PROVE UNCHANGED disturbed
  BY <1>1 DEF disturbed
<1>2. ASSUME NEW o \in Objects, A!CollectGarbage(o) PROVE Single!CollectGarbage(o)
  <2>1. Single!Put(o, None) /\ UNCHANGED Single!operatorVars
    BY <1>2, Noticed DEF A!CollectGarbage
  <2>. QED
    BY <1>1, <1>2, <2>1
       DEF A!CollectGarbage, A!OwnerGone, Single!CollectGarbage, Single!OwnerGone
<1>3. ASSUME NEW o \in Objects, A!ObserveDeployment(o) PROVE Single!ObserveDeployment(o)
  <2>. DEFINE c == store[o].content
              r == store[o].rollout
              same == r.image = c.image
              next == [image    |-> c.image,
                       replicas |-> c.replicas,
                       updated  |-> IF same THEN Single!Smaller(r.updated, c.replicas) ELSE 0,
                       newReady |-> IF same THEN Single!Smaller(r.newReady, c.replicas) ELSE 0,
                       oldReady |-> IF same THEN r.oldReady
                                    ELSE IF o.name = "mysql" THEN 0
                                    ELSE Single!readyReplicas(store[o])]
              v == [store[o] EXCEPT !.rollout = next]
  <2>1. A!Put(o, v)
    BY <1>3, SameOperators DEF A!ObserveDeployment
  <2>2. store[o] \in Single!StoredObjects(o) /\ ~Single!Observed(store[o])
    BY <1>3, SameOperators DEF A!ObserveDeployment, Single!TypeOK
  <2>3. v.rollout = next /\ next.image = c.image /\ next.replicas = c.replicas
    BY <2>2 DEF Single!StoredObjects
  <2>. HIDE DEF next
  <2>4. v # store[o]
    BY <2>2, <2>3 DEF Single!Observed
  <2>. HIDE DEF v
  <2>5. Single!Put(o, v) /\ UNCHANGED Single!operatorVars
    BY <1>3, <2>1, <2>4, Noticed DEF A!ObserveDeployment
  <2>. QED
    BY <1>1, <1>3, <2>5, SameOperators
       DEF A!ObserveDeployment, Single!ObserveDeployment, v, next
<1>4. ASSUME NEW o \in Objects, A!RollOut(o) PROVE Single!RollOut(o)
  <2>. DEFINE r == store[o].rollout
              v == [store[o] EXCEPT !.rollout.updated = @ + 1]
              w == [store[o] EXCEPT !.rollout.newReady = @ + 1]
              x == [store[o] EXCEPT !.rollout.oldReady = @ - 1]
  <2>1. o.kind = "Deployment" /\ store[o] \in Single!StoredObjects(o)
    BY <1>4, SameOperators DEF A!RollOut, Single!TypeOK, Single!Deployments
  <2>2. /\ v.rollout.updated # r.updated
        /\ w.rollout.newReady # r.newReady
        /\ x.rollout.oldReady # r.oldReady
    BY <2>1 DEF Single!StoredObjects, Single!Rollouts
  <2>3. v # store[o] /\ w # store[o] /\ x # store[o]
    BY <2>2
  <2>4. \A y : A!Put(o, y) /\ y # store[o] => Single!Put(o, y) /\ UNCHANGED Single!operatorVars
    BY <1>4, Noticed DEF A!RollOut
  <2>. QED
    BY <1>1, <1>4, <2>3, <2>4, SameOperators DEF A!RollOut, Single!RollOut
<1>. QED
  BY <1>2, <1>3, <1>4, SameOperators DEF A!Cluster, Single!Cluster

-----------------------------------------------------------------------------
(* The processes.                                                          *)

\* What a controller that runs sees and does is what the one operator sees and does.
LEMMA InformersA ==
  ASSUME latest = "a", UNCHANGED << used, manager >>, A!Informers
  PROVE  Single!Informers
<1>1. UNCHANGED disturbed
  BY DEF disturbed, manager
<1>2. ASSUME NEW p \in Platforms, A!SyncPlatform(p) PROVE Single!SyncPlatform(p)
  BY <1>1, <1>2, OfA DEF manager, A!SyncPlatform, Single!SyncPlatform
<1>3. ASSUME NEW o \in Objects, A!SyncObject(o) PROVE Single!SyncObject(o)
  BY <1>1, <1>3, OfA DEF manager, A!SyncObject, Single!SyncObject
<1>. QED
  BY <1>2, <1>3, SameOperators DEF A!Informers, Single!Informers

LEMMA JudgementA ==
  ASSUME latest = "a", NEW o
  PROVE  /\ A!Mutated(o) = Single!Mutated(o)
         /\ A!ReconcileFails(o) <=> Single!ReconcileFails(o)
         /\ A!SnapshotCurrent <=> Single!SnapshotCurrent
<1>1. /\ gpCache = gpCacheA /\ cache = cacheA /\ current = currentA
      /\ woken = wokenA /\ queue = queueA /\ rec = recA
  BY OfA
<1>2. A!ControllerRef = Single!ControllerRef
  BY <1>1 DEF A!ControllerRef, Single!ControllerRef
<1>3. A!Mutated(o) = Single!Mutated(o)
  BY <1>1, <1>2, SameOperators DEF A!Mutated, Single!Mutated
<1>4. A!ResizeRejected(o) <=> Single!ResizeRejected(o)
  BY <1>1, <1>3, SameOperators DEF A!ResizeRejected, Single!ResizeRejected
<1>5. A!UpdateFails(o) <=> Single!UpdateFails(o)
  BY <1>1, <1>3, <1>4 DEF A!UpdateFails, A!UpdateSent, Single!UpdateFails, Single!UpdateSent
<1>6. A!CreateFails(o) <=> Single!CreateFails(o)
  BY <1>1 DEF A!CreateFails, A!Exists, Single!CreateFails, Single!Exists
<1>7. A!AlreadyOwned(o) <=> Single!AlreadyOwned(o)
  BY <1>1 DEF A!AlreadyOwned, Single!AlreadyOwned
<1>8. A!SnapshotCurrent <=> Single!SnapshotCurrent
  BY <1>1 DEF A!SnapshotCurrent, Single!SnapshotCurrent
<1>. QED
  BY <1>3, <1>5, <1>6, <1>7, <1>8 DEF A!ReconcileFails, Single!ReconcileFails

LEMMA WorkerA ==
  ASSUME latest = "a", UNCHANGED << used, manager >>, A!Worker
  PROVE  Single!Worker
<1>0. UNCHANGED disturbed
  BY DEF disturbed, manager
<1>1. latest' = "a"
  BY DEF manager
<1>2. ASSUME NEW p \in Platforms, A!SkipMissing(p) \/ A!StartReconcile(p)
      PROVE  Single!SkipMissing(p) \/ Single!StartReconcile(p)
  BY <1>0, <1>1, <1>2, OfA, SameOperators
     DEF A!SkipMissing, A!StartReconcile, Single!SkipMissing, Single!StartReconcile
<1>3. ASSUME NEW o \in Objects, A!EnsureSucceeds(o) PROVE Single!EnsureSucceeds(o)
  BY <1>0, <1>1, <1>3, OfA, JudgementA, SameOperators
     DEF A!EnsureSucceeds, A!Put, Single!EnsureSucceeds, Single!Put
<1>4. ASSUME NEW o \in Objects, A!EnsureFails(o) PROVE Single!EnsureFails(o)
  BY <1>0, <1>1, <1>4, OfA, JudgementA, SameOperators
     DEF A!EnsureFails, Single!EnsureFails
<1>5. A!ReportDegraded => Single!ReportDegraded
  BY <1>0, <1>1, OfA, JudgementA, SameOperators
     DEF A!ReportDegraded, A!WriteStatus, Single!ReportDegraded, Single!WriteStatus
<1>6. A!RefreshStatus => Single!RefreshStatus
  BY <1>0, <1>1, OfA, JudgementA, SameOperators
     DEF A!RefreshStatus, A!WriteStatus, Single!RefreshStatus, Single!WriteStatus
<1>. QED
  BY <1>2, <1>3, <1>4, <1>5, <1>6, SameOperators DEF A!Worker, Single!Worker

LEMMA RelistA ==
  ASSUME latest' = "a", A!Relist
  PROVE  Single!Relist
BY OfA, SameOperators DEF A!Relist, Single!Relist


LEMMA InformersB ==
  ASSUME latest # "a", UNCHANGED << used, manager >>, B!Informers
  PROVE  Single!Informers
<1>1. UNCHANGED disturbed
  BY DEF disturbed, manager
<1>2. ASSUME NEW p \in Platforms, B!SyncPlatform(p) PROVE Single!SyncPlatform(p)
  BY <1>1, <1>2, OfB DEF manager, B!SyncPlatform, Single!SyncPlatform
<1>3. ASSUME NEW o \in Objects, B!SyncObject(o) PROVE Single!SyncObject(o)
  BY <1>1, <1>3, OfB DEF manager, B!SyncObject, Single!SyncObject
<1>. QED
  BY <1>2, <1>3, SameOperators DEF B!Informers, Single!Informers

LEMMA JudgementB ==
  ASSUME latest # "a", NEW o
  PROVE  /\ B!Mutated(o) = Single!Mutated(o)
         /\ B!ReconcileFails(o) <=> Single!ReconcileFails(o)
         /\ B!SnapshotCurrent <=> Single!SnapshotCurrent
<1>1. /\ gpCache = gpCacheB /\ cache = cacheB /\ current = currentB
      /\ woken = wokenB /\ queue = queueB /\ rec = recB
  BY OfB
<1>2. B!ControllerRef = Single!ControllerRef
  BY <1>1 DEF B!ControllerRef, Single!ControllerRef
<1>3. B!Mutated(o) = Single!Mutated(o)
  BY <1>1, <1>2, SameOperators DEF B!Mutated, Single!Mutated
<1>4. B!ResizeRejected(o) <=> Single!ResizeRejected(o)
  BY <1>1, <1>3, SameOperators DEF B!ResizeRejected, Single!ResizeRejected
<1>5. B!UpdateFails(o) <=> Single!UpdateFails(o)
  BY <1>1, <1>3, <1>4 DEF B!UpdateFails, B!UpdateSent, Single!UpdateFails, Single!UpdateSent
<1>6. B!CreateFails(o) <=> Single!CreateFails(o)
  BY <1>1 DEF B!CreateFails, B!Exists, Single!CreateFails, Single!Exists
<1>7. B!AlreadyOwned(o) <=> Single!AlreadyOwned(o)
  BY <1>1 DEF B!AlreadyOwned, Single!AlreadyOwned
<1>8. B!SnapshotCurrent <=> Single!SnapshotCurrent
  BY <1>1 DEF B!SnapshotCurrent, Single!SnapshotCurrent
<1>. QED
  BY <1>3, <1>5, <1>6, <1>7, <1>8 DEF B!ReconcileFails, Single!ReconcileFails

LEMMA WorkerB ==
  ASSUME latest # "a", UNCHANGED << used, manager >>, B!Worker
  PROVE  Single!Worker
<1>0. UNCHANGED disturbed
  BY DEF disturbed, manager
<1>1. latest' # "a"
  BY DEF manager
<1>2. ASSUME NEW p \in Platforms, B!SkipMissing(p) \/ B!StartReconcile(p)
      PROVE  Single!SkipMissing(p) \/ Single!StartReconcile(p)
  BY <1>0, <1>1, <1>2, OfB, SameOperators
     DEF B!SkipMissing, B!StartReconcile, Single!SkipMissing, Single!StartReconcile
<1>3. ASSUME NEW o \in Objects, B!EnsureSucceeds(o) PROVE Single!EnsureSucceeds(o)
  BY <1>0, <1>1, <1>3, OfB, JudgementB, SameOperators
     DEF B!EnsureSucceeds, B!Put, Single!EnsureSucceeds, Single!Put
<1>4. ASSUME NEW o \in Objects, B!EnsureFails(o) PROVE Single!EnsureFails(o)
  BY <1>0, <1>1, <1>4, OfB, JudgementB, SameOperators
     DEF B!EnsureFails, Single!EnsureFails
<1>5. B!ReportDegraded => Single!ReportDegraded
  BY <1>0, <1>1, OfB, JudgementB, SameOperators
     DEF B!ReportDegraded, B!WriteStatus, Single!ReportDegraded, Single!WriteStatus
<1>6. B!RefreshStatus => Single!RefreshStatus
  BY <1>0, <1>1, OfB, JudgementB, SameOperators
     DEF B!RefreshStatus, B!WriteStatus, Single!RefreshStatus, Single!WriteStatus
<1>. QED
  BY <1>2, <1>3, <1>4, <1>5, <1>6, SameOperators DEF B!Worker, Single!Worker

LEMMA RelistB ==
  ASSUME latest' # "a", B!Relist
  PROVE  Single!Relist
BY OfB, SameOperators DEF B!Relist, Single!Relist

-----------------------------------------------------------------------------
(* The lease.                                                              *)

Processes == A!Informers \/ A!Worker \/ B!Informers \/ B!Worker

\* Only Stop uses up disturbances of the processes.
LEMMA UsedElsewhere ==
  /\ Processes => UNCHANGED used
  /\ A!Cluster => UNCHANGED used
  /\ A!Environment =>
       UNCHANGED used \/ \E d \in A!Disturbances \ {"restart"} : A!Disturb(d)
<1>1. A!Informers \/ A!Worker => UNCHANGED used
  BY DEF A!Informers, A!Worker, A!SyncPlatform, A!SyncObject, A!SkipMissing,
         A!StartReconcile, A!EnsureSucceeds, A!EnsureFails, A!ReportDegraded, A!RefreshStatus
<1>2. B!Informers \/ B!Worker => UNCHANGED used
  BY DEF B!Informers, B!Worker, B!SyncPlatform, B!SyncObject, B!SkipMissing,
         B!StartReconcile, B!EnsureSucceeds, B!EnsureFails, B!ReportDegraded, B!RefreshStatus
<1>3. A!Cluster => UNCHANGED used
  BY DEF A!Cluster, A!CollectGarbage, A!ObserveDeployment, A!RollOut
<1>4. A!Environment =>
        UNCHANGED used \/ \E d \in A!Disturbances \ {"restart"} : A!Disturb(d)
  BY DEF A!Environment, A!CreatePlatform, A!EditPlatform, A!DeletePlatform, A!DeleteObject,
         A!EditObject, A!PodFailure, A!RejectWrites, A!AcceptWrites, A!Disturbances
<1>. QED
  BY <1>1, <1>2, <1>3, <1>4 DEF Processes

\* A disturbance stays within the bounds.
LEMMA DisturbCounted ==
  ASSUME LeaseHeld, NEW d \in A!Disturbances, A!Disturb(d)
  PROVE  /\ used' \in [A!Disturbances -> Nat] /\ A!Spent' = A!Spent + 1 /\ A!Spent' <= Total
         /\ used'["restart"] <= Limit["restart"]
         /\ d = "restart" => used'["restart"] = used["restart"] + 1
<1>1. used' = [used EXCEPT ![d] = @ + 1] /\ used[d] < Limit[d] /\ A!Spent < Total
  BY DEF A!Disturb
<1>2. used' \in [A!Disturbances -> Nat]
  BY <1>1, Counts DEF LeaseHeld
<1>3. \A e \in A!Disturbances : used[e] \in Nat
  BY Counts
<1>4. Limit \in [A!Disturbances -> Nat] /\ Total \in Nat
  BY ManagerAssumption
<1>5. A!Spent' = A!Spent + 1
  BY <1>1, <1>3 DEF A!Spent, A!Disturbances, LeaseHeld
<1>6. /\ used'["restart"] <= Limit["restart"]
      /\ d = "restart" => used'["restart"] = used["restart"] + 1
  BY <1>1, <1>3, <1>4 DEF A!Disturbances, LeaseHeld
<1>7. A!Spent' <= Total
  BY <1>1, <1>4, <1>5, Counts
<1>. QED
  BY <1>2, <1>5, <1>6, <1>7

LEMMA LeaseInit == Init => LeaseHeld
<1>. SUFFICES ASSUME Init PROVE LeaseHeld
  OBVIOUS
<1>1. used = [d \in A!Disturbances |-> 0]
  BY DEF Init, B!Init, A!Disturbances, B!Disturbances
<1>2. A!Spent = 0
  BY <1>1 DEF A!Spent, A!Disturbances
<1>. QED
  BY <1>1, <1>2, ManagerAssumption DEF Init, LeaseHeld, A!Disturbances

\* A process leads only when nobody holds the lease, and a process that runs holds it.
LEMMA NobodyLeads ==
  ASSUME LeaderElect, LeaseHeld, NEW p, Lead(p)
  PROVE  running = {}
BY ManagerAssumption DEF LeaseHeld, Lead, MayLead

\* Whoever leads found the lease free, so nobody else runs.
LEMMA LeaseStep ==
  ASSUME LeaderElect, LeaseHeld, [Next]_vars
  PROVE  LeaseHeld'
<1>1. ASSUME UNCHANGED << used, manager >> PROVE LeaseHeld'
  BY <1>1 DEF LeaseHeld, A!Spent, manager
<1>2. ASSUME World(A!Environment) PROVE LeaseHeld'
  <2>1. ASSUME NEW d \in A!Disturbances, A!Disturb(d) PROVE LeaseHeld'
    BY <1>2, <2>1, DisturbCounted DEF LeaseHeld, World, manager
  <2>. QED
    BY <1>1, <1>2, <2>1, UsedElsewhere DEF World
<1>3. ASSUME NEW p \in {"a", "b"}, Lead(p) PROVE LeaseHeld'
  <2>1. running' = {p} /\ lease' = p /\ latest' = p /\ UNCHANGED used
    BY <1>3, NobodyLeads DEF Lead, server
  <2>. QED
    BY <2>1 DEF LeaseHeld, A!Spent
<1>4. ASSUME NEW p \in {"a", "b"}, Stop(p) PROVE LeaseHeld'
  <2>1. running' = {} /\ UNCHANGED latest
    BY <1>4 DEF Stop, LeaseHeld
  <2>. QED
    BY <1>4, <2>1, DisturbCounted DEF Stop, LeaseHeld, A!Disturbances
<1>5. ASSUME ExpireLease PROVE LeaseHeld'
  BY <1>5 DEF ExpireLease, LeaseHeld, A!Spent, server
<1>. QED
  BY <1>1, <1>2, <1>3, <1>4, <1>5, UsedElsewhere
     DEF Next, World, InA, InB, LeadA, LeadB, Processes, vars, server

-----------------------------------------------------------------------------
(* One operator.                                                           *)

LEMMA InitMaps == Init => Single!Init
<1>. SUFFICES ASSUME Init PROVE Single!Init
  OBVIOUS
<1>1. latest # "a" /\ Cardinality(running) = 0
  BY FS_EmptySet DEF Init
<1>2. disturbed = [d \in Single!Disturbances |-> 0]
  BY <1>1 DEF Init, B!Init, disturbed, B!Disturbances, Single!Disturbances
<1>. QED
  BY <1>1, <1>2, OfB, SameOperators DEF Init, B!Init, Single!Init

\* A process that leads relists, as the one operator does when it restarts, and takes over
\* the disturbance that its predecessor's end used up.
LEMMA LeadMaps ==
  ASSUME LeaderElect, LeaseHeld, LeadA \/ LeadB
  PROVE  Single!Restart
<1>1. PICK p \in {"a", "b"} : Lead(p) /\ latest' = p
  BY DEF LeadA, LeadB, Lead
<1>2. Single!Relist
  BY RelistA, RelistB DEF LeadA, LeadB, Lead
<1>3. running = {} /\ running' = {p} /\ UNCHANGED server
  BY <1>1, NobodyLeads DEF Lead
<1>4. Cardinality(running) = 0 /\ Cardinality(running') = 1
  BY <1>3, FS_EmptySet, FS_Singleton
<1>5. disturbed = used /\ disturbed' = [disturbed EXCEPT !["restart"] = @ + 1]
  <2>1. used \in [A!Disturbances -> Nat] /\ "restart" \in A!Disturbances
    BY DEF LeaseHeld, A!Disturbances
  <2>2. disturbed = [used EXCEPT !["restart"] = @ + 0]
    BY <1>4 DEF disturbed
  <2>3. disturbed' = [used EXCEPT !["restart"] = @ + 1]
    BY <1>3, <1>4 DEF disturbed, server
  <2>4. [used EXCEPT !["restart"] = @ + 0] = used
    BY <2>1
  <2>. QED
    BY <2>2, <2>3, <2>4
<1>6. /\ used["restart"] < [Limit EXCEPT !["restart"] = @ + 1]["restart"]
      /\ Single!Spent < Total + 1
  <2>1. used["restart"] \in Nat /\ Single!Spent = A!Spent /\ A!Spent \in Nat
    BY <1>4, Counts DEF A!Disturbances
  <2>2. Limit["restart"] \in Nat /\ Total \in Nat /\ "restart" \in DOMAIN Limit
    BY ManagerAssumption DEF A!Disturbances
  <2>. QED
    BY <2>1, <2>2 DEF LeaseHeld
<1>. QED
  BY <1>2, <1>3, <1>5, <1>6 DEF Single!Restart, Single!Disturb, server

\* The one operator does not notice that a process ends.
LEMMA StopMaps ==
  ASSUME LeaseHeld, NEW p \in {"a", "b"}, Stop(p)
  PROVE  UNCHANGED Single!vars
<1>1. running = {p} /\ running' = {}
  BY DEF Stop, LeaseHeld
<1>2. Cardinality(running) = 1 /\ Cardinality(running') = 0
  BY <1>1, FS_EmptySet, FS_Singleton
<1>3. UNCHANGED disturbed
  <2>1. used \in [A!Disturbances -> Nat] /\ "restart" \in A!Disturbances
    BY DEF LeaseHeld, A!Disturbances
  <2>2. disturbed = [used EXCEPT !["restart"] = @ + 1]
    BY <1>2 DEF disturbed
  <2>3. disturbed' = [[used EXCEPT !["restart"] = @ + 1] EXCEPT !["restart"] = @ + 0]
    BY <1>2 DEF Stop, A!Disturb, disturbed
  <2>4. [used EXCEPT !["restart"] = @ + 1] \in [A!Disturbances -> Nat]
    BY <2>1
  <2>5. \A f \in [A!Disturbances -> Nat] : [f EXCEPT !["restart"] = @ + 0] = f
    BY <2>1
  <2>. QED
    BY <2>2, <2>3, <2>4, <2>5
<1>. QED
  BY <1>3 DEF Stop, memoryA, memoryB, Single!vars, gpCache, cache, current, woken, queue, rec,
              Last

\* Every step of the processes is one of the one operator, or none.
LEMMA StepMaps ==
  ASSUME LeaderElect, LeaseHeld, Single!TypeOK, [Next]_vars
  PROVE  [Single!Next]_(Single!vars)
<1>1. World(A!Environment) \/ World(A!Cluster) => Single!Next
  BY EnvironmentMaps, ClusterMaps DEF Single!Next
<1>2. InA(A!Informers) \/ InA(A!Worker) => Single!Next
  BY InformersA, WorkerA, UsedElsewhere DEF InA, LeaseHeld, Processes, Single!Next
<1>3. InB(B!Informers) \/ InB(B!Worker) => Single!Next
  BY InformersB, WorkerB, UsedElsewhere DEF InB, LeaseHeld, Processes, Single!Next
<1>4. LeadA \/ LeadB => Single!Next
  BY LeadMaps DEF Single!Next
<1>5. \A p \in {"a", "b"} : Stop(p) => UNCHANGED Single!vars
  BY StopMaps
<1>6. ExpireLease \/ UNCHANGED vars => UNCHANGED Single!vars
  BY DEF ExpireLease, vars, manager, server, memoryA, memoryB, Single!vars, gpCache, cache,
         current, woken, queue, rec, disturbed, Last
<1>. QED
  BY <1>1, <1>2, <1>3, <1>4, <1>5, <1>6 DEF Next

\* The lease is held throughout, and the processes implement the one operator.
LEMMA Refines == LeaderElect => (Spec => []LeaseHeld /\ Single!Spec)
<1>. SUFFICES ASSUME LeaderElect PROVE Spec => []LeaseHeld /\ Single!Spec
  OBVIOUS
<1>1. Init => LeaseHeld /\ Single!Init /\ Single!TypeOK
  BY LeaseInit, InitMaps, Assumptions, Single!InitType
<1>2. LeaseHeld /\ Single!TypeOK /\ [Next]_vars =>
        LeaseHeld' /\ Single!TypeOK' /\ [Single!Next]_(Single!vars)
  BY LeaseStep, StepMaps, Assumptions, Single!TypeStep
<1>. QED
  BY <1>1, <1>2, PTL DEF Spec, Single!Spec

\* With --leader-elect the processes together are one operator that is restarted now and
\* then: whatever processes come and go, no step of one that lost the lease is mixed into
\* its successor's work (main.go's LeaderElection).
THEOREM LeaseMakesOne == LeaderElect => (Spec => OneOperator)
BY Refines, OneIsSingle DEF OneOperator

\* What one operator's claim of success says of Deployments and Services (see
\* WorkloadsProof) holds of processes that take turns (main.go, refreshStatus).
THEOREM WorkloadsTruthful == LeaderElect => (Spec => []WorkloadsApplied)
<1>. SUFFICES ASSUME LeaderElect PROVE Spec => []WorkloadsApplied
  OBVIOUS
<1>1. LeaseHeld /\ Single!WorkloadsApplied => WorkloadsApplied
  <2>. SUFFICES ASSUME LeaseHeld, Single!WorkloadsApplied PROVE WorkloadsApplied
    OBVIOUS
  <2>1. A!Untouched => Single!Untouched
    BY Counts DEF A!Untouched, Single!Untouched, A!Disturbances
  <2>2. \A p : A!ClaimsSuccess(p) => Single!ClaimsSuccess(p)
    BY DEF A!ClaimsSuccess, Single!ClaimsSuccess, A!Condition, Single!Condition
  <2>. QED
    BY <2>1, <2>2, SameOperators
       DEF WorkloadsApplied, A!WorkloadsApplied, Single!WorkloadsApplied, A!Exists,
           Single!Exists
<1>2. Single!Spec => []Single!WorkloadsApplied
  BY Assumptions, Single!WorkloadsTruthful
<1>. QED
  BY <1>1, <1>2, Refines, PTL

-----------------------------------------------------------------------------
(* Two operators at once.  Each keeps its own memory true to the server    *)
(* whatever the other does: what the other replaces it knows to be behind. *)

ServerTyped ==
  /\ gp \in [Platforms -> Single!PlatformRecords \cup {None}]
  /\ store = [o \in Objects |-> store[o]]
  /\ \A o \in Objects : store[o] \in Single!StoredObjects(o) \cup {None}
  /\ blocked \subseteq Objects
  /\ used \in [Single!Disturbances -> Nat]

\* A process's memory is well typed, and the cached objects that count as current are
\* those that "objects", the server, has.
MemoryKept(objects, platforms, cached, fresh, wake, asked, doing) ==
  /\ platforms \in [Platforms -> Single!PlatformRecords \cup {None}]
  /\ cached = [o \in Objects |-> cached[o]]
  /\ \A o \in Objects : cached[o] \in Single!StoredObjects(o) \cup {None}
  /\ fresh \subseteq Objects /\ \A o \in fresh : cached[o] = objects[o]
  /\ wake \in [Objects -> SUBSET Platforms]
  /\ asked \subseteq Platforms
  /\ \/ doing = Single!Idle
     \/ doing \in [pc : {"ensure", "degraded"}, req : Platforms,
                   snap : Single!PlatformRecords, done : SUBSET Objects]

KeptA == MemoryKept(store, gpCacheA, cacheA, currentA, wokenA, queueA, recA)
KeptB == MemoryKept(store, gpCacheB, cacheB, currentB, wokenB, queueB, recB)

\* The inductive invariant of one operator, for both at once.
BothKept == ServerTyped /\ KeptA /\ KeptB

LEMMA KeptIsInvariant ==
  /\ ProofA!IInv <=> ServerTyped /\ KeptA
  /\ ProofB!IInv <=> ServerTyped /\ KeptB
BY SameOperators
   DEF ServerTyped, KeptA, KeptB, MemoryKept, ProofA!IInv, ProofA!TypeOK, ProofA!FreshCache,
       ProofB!IInv, ProofB!TypeOK, ProofB!FreshCache

\* Whom the replacement of an object wakes.
LEMMA OwnersArePlatforms ==
  ASSUME ServerTyped, ServerTyped', NEW o \in Objects
  PROVE  A!OwnersOf(store[o], store'[o]) \subseteq Platforms
<1>1. /\ store[o] \in Single!StoredObjects(o) \cup {None}
      /\ store'[o] \in Single!StoredObjects(o) \cup {None}
  BY DEF ServerTyped
<1>2. Single!OwnersOf(store[o], store'[o]) \subseteq Platforms
  BY <1>1, SameOperators, Assumptions, Single!OwnersType
<1>. QED
  BY <1>2, SameOperators

\* A process that falls behind keeps its invariant.
LEMMA BehindA ==
  ASSUME BothKept, ServerTyped', FallBehindA
  PROVE  KeptA'
BY OwnersArePlatforms DEF BothKept, FallBehindA, Missed, Changed, KeptA, MemoryKept

LEMMA BehindB ==
  ASSUME BothKept, ServerTyped', FallBehindB
  PROVE  KeptB'
BY OwnersArePlatforms DEF BothKept, FallBehindB, Missed, Changed, KeptB, MemoryKept

LEMMA BothInit == Init => BothKept
<1>. SUFFICES ASSUME Init PROVE BothKept
  OBVIOUS
<1>1. ProofB!IInv
  BY Assumptions, SameOperators, ProofB!InitType, ProofB!FreshInit DEF Init, ProofB!IInv
<1>2. KeptA
  BY SameOperators DEF Init, B!Idle, KeptA, MemoryKept, NoPlatforms, NoObjects, NoWakes
<1>. QED
  BY <1>1, <1>2, KeptIsInvariant DEF BothKept

\* What either operator and its surroundings do is a step of one operator, on that
\* one's memory.
LEMMA StepOfA ==
  ASSUME \/ World(A!Environment) \/ World(A!Cluster)
         \/ InA(A!Informers) \/ InA(A!Worker)
  PROVE  ProofA!Next /\ FallBehindB
BY SameOperators DEF World, InA, ProofA!Next

LEMMA StepOfB ==
  ASSUME InB(B!Informers) \/ InB(B!Worker)
  PROVE  ProofB!Next /\ FallBehindA
BY SameOperators DEF InB, ProofB!Next

\* A process that leads lists the server's objects; the other runs on, or is gone.
LEMMA LeadKeeps ==
  ASSUME BothKept, LeadA \/ LeadB
  PROVE  BothKept' /\ UNCHANGED server
<1>1. UNCHANGED server /\ ServerTyped'
  BY DEF LeadA, LeadB, Lead, server, BothKept, ServerTyped
<1>2. \A o \in Objects : Single!OwnersOf(None, store[o]) \subseteq Platforms
  <2>1. \A o \in Objects : store[o] \in Single!StoredObjects(o) \cup {None}
    BY DEF BothKept, ServerTyped
  <2>. QED
    BY <2>1, SameOperators, Assumptions, Single!OwnersType
<1>3. CASE LeadA
  <2>1. queueA' \subseteq Platforms
    BY <1>2, <1>3, SameOperators DEF LeadA, A!Relist
  <2>2. KeptA'
    BY <1>1, <1>3, <2>1, SameOperators
       DEF LeadA, A!Relist, server, BothKept, ServerTyped, KeptA, MemoryKept
  <2>3. KeptB'
    BY <1>1, <1>3, SameOperators
       DEF LeadA, ClearB, memoryB, server, BothKept, KeptB, MemoryKept, NoPlatforms,
           NoObjects, NoWakes
  <2>. QED
    BY <1>1, <2>2, <2>3 DEF BothKept
<1>4. CASE LeadB
  <2>1. queueB' \subseteq Platforms
    BY <1>2, <1>4, SameOperators DEF LeadB, B!Relist
  <2>2. KeptB'
    BY <1>1, <1>4, <2>1, SameOperators
       DEF LeadB, B!Relist, server, BothKept, ServerTyped, KeptB, MemoryKept
  <2>3. KeptA'
    BY <1>1, <1>4, SameOperators
       DEF LeadB, ClearA, memoryA, server, BothKept, KeptA, MemoryKept, NoPlatforms,
           NoObjects, NoWakes
  <2>. QED
    BY <1>1, <2>2, <2>3 DEF BothKept
<1>. QED
  BY <1>3, <1>4

\* The end of a process, and of its lease.
LEMMA EndKeeps ==
  ASSUME BothKept, (\E p \in {"a", "b"} : Stop(p)) \/ ExpireLease \/ UNCHANGED vars
  PROVE  BothKept' /\ UNCHANGED << gp, store >>
<1>1. UNCHANGED << gp, store, blocked, memoryA, memoryB >>
  BY DEF Stop, ExpireLease, vars, server
<1>2. used' \in [Single!Disturbances -> Nat]
  BY SameOperators DEF Stop, A!Disturb, ExpireLease, vars, server, BothKept, ServerTyped
<1>. QED
  BY <1>1, <1>2 DEF memoryA, memoryB, BothKept, ServerTyped, KeptA, KeptB

\* Whichever process makes a step, both keep the invariant, and owners and statuses are safe.
LEMMA BothStep ==
  ASSUME BothKept, [Next]_vars
  PROVE  BothKept' /\ ProofA!OwnersKept /\ ProofA!StatusesCurrent
<1>1. ProofA!IInv /\ ProofA!TypeOK /\ ProofB!IInv /\ ProofB!TypeOK
  BY KeptIsInvariant DEF BothKept, ProofA!IInv, ProofB!IInv
<1>2. ASSUME ProofA!Next, FallBehindB
      PROVE  BothKept' /\ ProofA!OwnersKept /\ ProofA!StatusesCurrent
  <2>1. ProofA!TypeOK' /\ ProofA!FreshCache'
    BY <1>1, <1>2, Assumptions, ProofA!TypeStep, ProofA!FreshStep
  <2>2. ProofA!IInv'
    BY <2>1 DEF ProofA!IInv
  <2>3. ServerTyped' /\ KeptA'
    BY <2>2, KeptIsInvariant, PTL
  <2>4. ProofA!OwnersKept /\ ProofA!StatusesCurrent
    BY <1>1, <1>2, Assumptions, ProofA!OwnersStep, ProofA!StatusesStep
  <2>. QED
    BY <1>2, <2>3, <2>4, BehindB DEF BothKept
<1>3. ASSUME ProofB!Next, FallBehindA
      PROVE  BothKept' /\ ProofA!OwnersKept /\ ProofA!StatusesCurrent
  <2>1. ProofB!TypeOK' /\ ProofB!FreshCache'
    BY <1>1, <1>3, Assumptions, ProofB!TypeStep, ProofB!FreshStep
  <2>2. ProofB!IInv'
    BY <2>1 DEF ProofB!IInv
  <2>3. ServerTyped' /\ KeptB'
    BY <2>2, KeptIsInvariant, PTL
  <2>4. ProofB!OwnersKept /\ ProofB!StatusesCurrent
    BY <1>1, <1>3, Assumptions, ProofB!OwnersStep, ProofB!StatusesStep
  <2>5. ProofA!OwnersKept /\ ProofA!StatusesCurrent
    BY <2>4, SameOperators
       DEF ProofA!OwnersKept, ProofA!StatusesCurrent, ProofA!Exists,
           ProofB!OwnersKept, ProofB!StatusesCurrent, ProofB!Exists
  <2>. QED
    BY <1>3, <2>3, <2>5, BehindA DEF BothKept
<1>4. ASSUME UNCHANGED << gp, store >> PROVE ProofA!OwnersKept /\ ProofA!StatusesCurrent
  BY <1>4 DEF ProofA!OwnersKept, ProofA!StatusesCurrent, ProofA!Exists
<1>. QED
  BY <1>2, <1>3, <1>4, StepOfA, StepOfB, LeadKeeps, EndKeeps DEF Next, server

\* Without the lease two operators at once, whose caches may both be outdated and who
\* may undo each other's work, still never take an object away from the platform that
\* controls it, nor store a verdict about an older specification beside a newer one:
\* the conflict check of the API server protects what main.go's lease does not.
THEOREM TwoOperatorsSafe == Spec => A!NoStealing /\ A!StatusForCurrentSpec
<1>1. BothKept /\ [Next]_vars => BothKept' /\ ProofA!OwnersKept /\ ProofA!StatusesCurrent
  BY BothStep
<1>2. ProofA!OwnersKept =>
        \A o \in A!Objects :
          (A!Exists(o) /\ store'[o] # None /\ store[o].owner # None)
            => (store'[o].owner # None /\ store'[o].owner.name = store[o].owner.name)
  BY SameOperators DEF ProofA!OwnersKept, ProofA!Exists, A!Exists
<1>3. ProofA!StatusesCurrent =>
        \A p \in Platforms :
          (gp[p] # None /\ gp'[p] # None /\ gp'[p].uid = gp[p].uid
             /\ gp'[p].status # gp[p].status)
            => gp'[p].status.observedGeneration = gp'[p].generation
  BY DEF ProofA!StatusesCurrent
<1>. QED
  BY BothInit, <1>1, <1>2, <1>3, PTL DEF Spec, A!NoStealing, A!StatusForCurrentSpec

=================================================================================
