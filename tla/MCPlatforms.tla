----------------------------- MODULE MCPlatforms -----------------------------
(***************************************************************************)
(* What the small instances of Reconciler and OperatorManager have in      *)
(* common: which components are deployed, which specifications users write *)
(* and how often each disturbance happens.                                 *)
(***************************************************************************)
EXTENDS GamePlatform

login == Deployment("login-service")

HostSlice       == {AppConfig, Ingress}
ReleaseSlice    == {AppConfig, login}
StorageSlice    == {AppConfig, MySQLData, Deployment("mysql")}
MonitoringSlice == {ConfigMap("prometheus-config"), Deployment("prometheus")}

Default ==
  [imageRegistry |-> "", imageTag |-> "", replicas |-> 1, host |-> "", class |-> "",
   monitoring |-> None, size |-> 0]

NewRelease   == [Default EXCEPT !.imageTag = "2.1.0", !.host = "other.local"]
Unmonitored  == [Default EXCEPT !.monitoring = FALSE]
Bigger       == [Default EXCEPT !.size = 4]

OneSpec  == {Default}
Releases == {Default, NewRelease}
Sizes    == {Default, Bigger}
Toggles  == {Default, Unmonitored}

\* What the manifests of k8s/ had deployed before.
V1Ingress    == {Ingress}
V1Monitoring == {Deployment("prometheus")}

\* How often each kind of disturbance happens in a run.
Times(create, edit, delete, drift, reject, podFailure, restart) ==
  [create |-> create, edit |-> edit, delete |-> delete, drift |-> drift,
   reject |-> reject, podFailure |-> podFailure, restart |-> restart]

VersionLimits    == Times(1, 2, 0, 0, 0, 0, 1)
EditLimits       == Times(1, 2, 0, 0, 0, 0, 0)
ToggleLimits     == Times(1, 2, 1, 0, 0, 0, 0)
DriftLimits      == Times(1, 0, 0, 1, 0, 0, 0)
OwnershipLimits  == Times(2, 0, 1, 0, 0, 0, 1)
HealingLimits    == Times(1, 1, 1, 1, 0, 1, 1)
StorageLimits    == Times(1, 1, 0, 0, 1, 0, 1)
TeardownLimits   == Times(2, 0, 2, 0, 0, 0, 1)
=============================================================================
