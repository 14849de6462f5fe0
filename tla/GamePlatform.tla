---------------------------- MODULE GamePlatform ----------------------------
(***************************************************************************)
(* The pure part of the operator in operator/: what a GamePlatform asks    *)
(* for, the Kubernetes objects it stands for, the order in which they are  *)
(* ensured, and the status computed from what the operator can see.  There *)
(* are no variables here; Reconciler runs these definitions against an API *)
(* server.                                                                 *)
(*                                                                         *)
(* An instance follows a slice of the objects; the operator's work on the  *)
(* others is left out, as if they were always right.  The theorems hold    *)
(* for every slice, the whole platform included.  Labels, probes, ports    *)
(* and resource limits are the same for every specification and are        *)
(* abstracted to a "built-in" payload that a manual edit can damage.       *)
(***************************************************************************)
EXTENDS Integers, Sequences, FiniteSets, Functions

CONSTANTS
  Slice,   \* the objects an instance follows
  None     \* an absent object, or an optional field that is not set

-----------------------------------------------------------------------------
(* Specifications and their defaults.  "" and 0 are Go's zero values, the  *)
(* value of a field that the user left out.                                *)

imageRegistry(spec) ==
  IF spec.imageRegistry # "" THEN spec.imageRegistry ELSE "game-k8s-ops-practice"

imageTag(spec) == IF spec.imageTag # "" THEN spec.imageTag ELSE "2.0.0"

replicas(spec) == IF spec.replicas > 0 THEN spec.replicas ELSE 2

ingressHost(spec) == IF spec.host # "" THEN spec.host ELSE "game.local"

ingressClassName(spec) == IF spec.class # "" THEN spec.class ELSE "nginx"

monitoringEnabled(spec) == spec.monitoring = None \/ spec.monitoring = TRUE

\* Sizes are counted in Gi.
mysqlStorageSize(spec) == IF spec.size > 0 THEN spec.size ELSE 2

SpecType ==
  [imageRegistry : STRING, imageTag : STRING, replicas : Nat, host : STRING,
   class : STRING, monitoring : BOOLEAN \cup {None}, size : Nat]

-----------------------------------------------------------------------------
(* The objects of a platform.                                              *)

Object(kind, name) == [kind |-> kind, name |-> name]

Deployment(name) == Object("Deployment", name)
Service(name)    == Object("Service", name)
ConfigMap(name)  == Object("ConfigMap", name)

AppConfig == ConfigMap("game-app-config")
AppSecret == Object("Secret", "game-app-secret")
MySQLData == Object("PersistentVolumeClaim", "mysql-data")
Ingress   == Object("Ingress", "game-gateway")

appServices == << "game-gateway", "login-service", "match-service", "room-service" >>
Infra       == << "mysql", "redis", "kafka" >>
Monitors    == << "prometheus", "alertmanager", "grafana" >>

\* The configuration maps that ensureConfig walks as a Go map.
sharedConfigs ==
  {"mysql-init", "prometheus-config", "alertmanager-config", "grafana-provisioning",
   "grafana-dashboard"}

\* Every component is a Deployment followed by the Service in front of it.
WithServices(names) ==
  [i \in 1..(2 * Len(names)) |->
     LET name == names[(i + 1) \div 2]
     IN  {IF i % 2 = 1 THEN Deployment(name) ELSE Service(name)}]

ensureConfig == << {AppConfig}, {AppSecret}, {ConfigMap(c) : c \in sharedConfigs} >>

ensureInfra == << {MySQLData} >> \o WithServices(Infra)

ensureApps == WithServices(appServices)

ensureIngress == << {Ingress} >>

ensureMonitoring == WithServices(Monitors)

\* A mutation: the infrastructure before the configuration it mounts.
ensureAllInfraFirst ==
  ensureInfra \o ensureConfig \o ensureApps \o ensureIngress \o ensureMonitoring

\* The steps of ensureAll: a sequence of sets of objects.  The sets are ensured
\* one after the other; the members of one set in any order, for the shared
\* configuration maps are visited in the random order of a Go map.  The last
\* steps are taken only where monitoring is enabled.
ensureAll ==
  ensureConfig \o ensureInfra \o ensureApps \o ensureIngress \o ensureMonitoring

Members(steps) == UNION {steps[i] : i \in DOMAIN steps}

MonitoringObjects == Members(ensureMonitoring)

ASSUME SliceAssumption == Slice \subseteq Members(ensureAll)

Objects     == Slice
Deployments == {o \in Slice : o.kind = "Deployment"}

\* The names of the deployments the slice has among those of a list.
Followed(names) == {n \in Range(names) : Deployment(n) \in Slice}

\* The objects a platform of this specification consists of.
Wanted(spec) ==
  IF monitoringEnabled(spec) THEN Slice ELSE Slice \ MonitoringObjects

\* The objects of the steps before the one that ensures o.
Before ==
  [o \in Slice |->
     {q \in Slice : \E i, j \in DOMAIN ensureAll :
                     i < j /\ q \in ensureAll[i] /\ o \in ensureAll[j]}]

\* The objects ensureAll may turn to once it is through with those in done.
Due(spec, done) == {o \in Wanted(spec) \ done : Before[o] \subseteq done}

-----------------------------------------------------------------------------
(* What the mutate functions write into each object.                       *)

Image(spec, name) ==
  IF name \in Range(appServices) THEN << imageRegistry(spec), imageTag(spec) >>
                                    ELSE << "upstream", "pinned" >>

\* The content of everything that is the same for every specification, the text of
\* the configuration maps above all.
BuiltIn == [data |-> "built-in"]

Desired(spec, o) ==
  CASE o.kind = "Deployment" ->
         [image    |-> Image(spec, o.name),
          replicas |-> IF o.name \in Range(appServices) THEN replicas(spec) ELSE 1]
    [] o.kind = "PersistentVolumeClaim" -> [size |-> mysqlStorageSize(spec)]
    [] o.kind = "Ingress" -> [host |-> ingressHost(spec), class |-> ingressClassName(spec)]
    [] OTHER -> BuiltIn

\* The objects named in a Deployment's envFrom, env and volumes: its pods do not
\* start while one of them is missing.
References(d) ==
  {o \in Slice :
     CASE d.name \in Range(appServices) -> o \in {AppConfig, AppSecret}
       [] d.name = "mysql" -> o \in {AppConfig, AppSecret, MySQLData, ConfigMap("mysql-init")}
       [] d.name = "prometheus" -> o = ConfigMap("prometheus-config")
       [] d.name = "alertmanager" -> o = ConfigMap("alertmanager-config")
       [] d.name = "grafana" ->
            o \in {AppSecret, ConfigMap("grafana-provisioning"), ConfigMap("grafana-dashboard")}
       [] OTHER -> FALSE}

-----------------------------------------------------------------------------
(* Status.  A condition is None until it is first set; the text of its     *)
(* message is left out.                                                    *)

ConditionTypes ==
  {"AppsReady", "InfraReady", "MonitoringReady", "IngressReady", "ReconcileSucceeded"}

Condition(ok, generation) == [ok |-> ok, generation |-> generation]

EmptyStatus ==
  [phase |-> "", observedGeneration |-> 0, services |-> None,
   conditions |-> [t \in ConditionTypes |-> None]]

\* A Deployment's status counts pods, and readyReplicas counts those of the old
\* and of the new template alike.
readyReplicas(deploy) == deploy.rollout.newReady + deploy.rollout.oldReady

AtLeast(deploy, n) == readyReplicas(deploy) >= n /\ deploy.rollout.updated >= n

\* The entry of one application in status.serviceStatuses, as refreshStatus
\* computes it from the Deployment it can see.
ServiceStatus(spec, deploy) ==
  IF deploy = None
  THEN [desired |-> replicas(spec), ready |-> 0, image |-> None, rolloutState |-> "Missing"]
  ELSE [desired |-> replicas(spec), ready |-> readyReplicas(deploy),
        image   |-> deploy.content.image,
        rolloutState |-> IF AtLeast(deploy, replicas(spec)) THEN "Ready" ELSE "Progressing"]

\* deploymentsReady compares a Deployment with its own spec.replicas.
deploymentsReady(view, names) ==
  \A name \in names :
    LET deploy == view[Deployment(name)]
    IN  deploy # None /\ AtLeast(deploy, deploy.content.replicas)

\* The status that goes with a verdict for each condition.
StatusOf(gp, services, ok) ==
  [phase |-> IF \A t \in ConditionTypes : ok[t] THEN "Ready" ELSE "Progressing",
   observedGeneration |-> gp.generation,
   services   |-> services,
   conditions |-> [t \in ConditionTypes |-> Condition(ok[t], gp.generation)]]

\* A mutation: the monitoring stack counts even where it is switched off.
MonitoringReadyAlways(spec, view) == deploymentsReady(view, Followed(Monitors))

\* Monitoring counts only where it is switched on.
MonitoringReady(spec, view) ==
  monitoringEnabled(spec) => deploymentsReady(view, Followed(Monitors))

\* refreshStatus, for the platform gp and the objects in view.
RefreshedStatus(gp, view) ==
  LET apps     == Followed(appServices)
      services == [n \in apps |-> ServiceStatus(gp.spec, view[Deployment(n)])]
  IN  StatusOf(gp, services,
        [AppsReady       |-> \A n \in apps : services[n].rolloutState = "Ready",
         InfraReady      |-> deploymentsReady(view, Followed(Infra)),
         MonitoringReady |-> MonitoringReady(gp.spec, view),
         IngressReady    |-> Ingress \in Slice => view[Ingress] # None,
         ReconcileSucceeded |-> TRUE])

\* Mutations: a phase the custom resource definition does not list, a failure that
\* leaves the phase alone, and one that is reported as a success.
DegradedStatusUnlisted(gp) ==
  [gp.status EXCEPT !.phase = "Failed", !.observedGeneration = gp.generation]

DegradedStatusSilent(gp) ==
  [gp.status EXCEPT !.observedGeneration = gp.generation,
                    !.conditions["ReconcileSucceeded"] = Condition(FALSE, gp.generation)]

DegradedStatusSuccess(gp) ==
  [gp.status EXCEPT !.phase = "Degraded", !.observedGeneration = gp.generation,
                    !.conditions["ReconcileSucceeded"] = Condition(TRUE, gp.generation)]

\* updateStatus after a failed step: everything but the failure is kept.
DegradedStatus(gp) ==
  [gp.status EXCEPT !.phase = "Degraded",
                    !.observedGeneration = gp.generation,
                    !.conditions["ReconcileSucceeded"] = Condition(FALSE, gp.generation)]
=============================================================================
