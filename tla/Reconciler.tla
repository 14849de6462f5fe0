----------------------------- MODULE Reconciler -----------------------------
(***************************************************************************)
(* The GamePlatform operator at work: Reconcile and what it calls, between *)
(* an API server that other actors write to as well, informer caches that  *)
(* lag behind it, and a work queue.                                        *)
(*                                                                         *)
(* Everything outside operator/ (the API server, the informers and the     *)
(* queue of controller-runtime, the Deployment controller, the garbage     *)
(* collector, people with kubectl) is modelled from how the operator uses  *)
(* it.  One reconciliation is many steps: every object it ensures is one,  *)
(* and anything may happen between two of them.                            *)
(*                                                                         *)
(* Resource versions are abstracted away.  For an object, current says     *)
(* whether the cache holds its latest version, which is all that the API   *)
(* server's conflict check asks.  For a platform the record itself tells:  *)
(* no two versions of one platform are equal, because every edit moves the *)
(* generation, every creation the uid, and only a writer that has seen the *)
(* latest status may replace it.                                           *)
(***************************************************************************)
EXTENDS GamePlatform

CONSTANTS
  Platforms,             \* the names of the platforms of the one namespace
  Specs,                 \* the specifications a user may write
  Limit,                 \* how often each kind of disturbance may happen
  Total,                 \* how many disturbances there may be altogether
  Legacy,                \* the objects that k8s/ had deployed before the operator
  AllowVolumeExpansion   \* what the storage class says

Disturbances == {"create", "edit", "delete", "drift", "reject", "podFailure", "restart"}

\* An owner reference: the controller's name, and which platform of that name it is.
Refs == [name : Platforms, uid : Nat]

ASSUME ReconcilerAssumption ==
  /\ Specs \subseteq SpecType
  /\ Limit \in [Disturbances -> Nat] /\ Total \in Nat
  /\ Legacy \subseteq Objects
  /\ AllowVolumeExpansion \in BOOLEAN
  /\ None \notin Platforms /\ None \notin Refs

VARIABLES
  gp,       \* the platforms in the API server
  store,    \* the objects in the API server
  gpCache,  \* the platforms as the operator's informer last saw them
  cache,    \* the objects as the operator's informers last saw them
  current,  \* the objects whose latest version is in the cache
  woken,    \* the platforms that the changes of each object not yet seen will wake
  queue,    \* the platforms waiting to be reconciled
  rec,      \* the reconciliation under way
  blocked,  \* the objects whose writes admission or quota rejects
  used      \* how many disturbances of each kind there have been

vars == << gp, store, gpCache, cache, current, woken, queue, rec, blocked, used >>

Idle == [pc |-> "idle", req |-> None, snap |-> None, done |-> {}]

Exists(o) == store[o] # None

\* The garbage collector's view of an owner reference.
OwnerGone(ref) == \A p \in Platforms : gp[p] # None => gp[p].uid # ref.uid

\* A mutation: the children are not watched.
OwnersOfNone(old, new) == {}

\* The platforms whose events handler a change from one version of an object to
\* another wakes: Owns() maps both versions to their controller's name.
OwnersOf(old, new) ==
  {v.owner.name : v \in {w \in {old, new} : w # None /\ w.owner # None}}

NewRollout == [image |-> None, replicas |-> 0, updated |-> 0, newReady |-> 0, oldReady |-> 0]

V1Image == << "game-k8s-ops-practice", "1.0.0" >>
V1Host  == "game.local"
V1Class == "nginx"

LegacyContent(o) ==
  CASE o.kind = "Deployment" -> [image |-> V1Image,
                              replicas |-> IF o.name \in Range(appServices) THEN 2 ELSE 1]
    [] o.kind = "PersistentVolumeClaim" -> [size |-> 2]
    [] o.kind = "Ingress" -> [host |-> V1Host, class |-> V1Class]
    [] OTHER -> [data |-> "edited"]

LegacyObject(o) ==
  LET c == LegacyContent(o)
  IN  [owner |-> None, content |-> c,
       rollout |-> IF o.kind # "Deployment" THEN None
                   ELSE [NewRollout EXCEPT !.image = c.image, !.replicas = c.replicas,
                                           !.updated = c.replicas, !.newReady = c.replicas]]

Init ==
  /\ gp = [p \in Platforms |-> None]
  /\ store = [o \in Objects |-> IF o \in Legacy THEN LegacyObject(o) ELSE None]
  /\ gpCache = gp
  /\ cache = store
  /\ current = Objects
  /\ woken = [o \in Objects |-> {}]
  /\ queue = {}
  /\ rec = Idle
  /\ blocked = {}
  /\ used = [d \in Disturbances |-> 0]

Spent ==
  used["create"] + used["edit"] + used["delete"] + used["drift"] + used["reject"]
    + used["podFailure"] + used["restart"]

Disturb(d) ==
  /\ used[d] < Limit[d]
  /\ Spent < Total
  /\ used' = [used EXCEPT ![d] = @ + 1]

\* The API server replaces one object, and the cache is now behind.
Put(o, value) ==
  /\ store' = [store EXCEPT ![o] = value]
  /\ current' = current \ {o}
  /\ woken' = [woken EXCEPT ![o] = @ \cup OwnersOf(store[o], value)]

operatorVars == << gpCache, cache, queue, rec >>

-----------------------------------------------------------------------------
(* Users and administrators.                                               *)

CreatePlatform(p) ==
  /\ gp[p] = None
  /\ Disturb("create")
  /\ \E s \in Specs :
       gp' = [gp EXCEPT ![p] = [uid |-> used["create"] + 1, generation |-> 1,
                                spec |-> s, status |-> EmptyStatus]]
  /\ UNCHANGED << store, current, woken, blocked, operatorVars >>

EditPlatform(p) ==
  /\ gp[p] # None
  /\ Disturb("edit")
  /\ \E s \in Specs \ {gp[p].spec} :
       gp' = [gp EXCEPT ![p].spec = s, ![p].generation = @ + 1]
  /\ UNCHANGED << store, current, woken, blocked, operatorVars >>

DeletePlatform(p) ==
  /\ gp[p] # None
  /\ Disturb("delete")
  /\ gp' = [gp EXCEPT ![p] = None]
  /\ UNCHANGED << store, current, woken, blocked, operatorVars >>

DeleteObject(o) ==
  /\ Exists(o)
  /\ Disturb("delete")
  /\ Put(o, None)
  /\ UNCHANGED << gp, blocked, operatorVars >>

\* A manual change: kubectl rollout undo or set image on an application, kubectl
\* edit on the rest. Writing what is there already is no change.
Edited(o, content) ==
  CASE o.kind = "Deployment" ->
         {[content EXCEPT !.image = Image(s, o.name)] : s \in Specs}
    [] o.kind = "PersistentVolumeClaim" -> {}
    [] o.kind = "Ingress" -> {[content EXCEPT !.host = "edited.local"]}
    [] OTHER -> {[data |-> "edited"]}

EditObject(o) ==
  /\ Exists(o)
  /\ Disturb("drift")
  /\ \E c \in Edited(o, store[o].content) \ {store[o].content} :
       Put(o, [store[o] EXCEPT !.content = c])
  /\ UNCHANGED << gp, blocked, operatorVars >>

RejectWrites(o) ==
  /\ o \notin blocked
  /\ Disturb("reject")
  /\ blocked' = blocked \cup {o}
  /\ UNCHANGED << gp, store, current, woken, operatorVars >>

AcceptWrites(o) ==
  /\ o \in blocked
  /\ blocked' = blocked \ {o}
  /\ UNCHANGED << gp, store, current, woken, used, operatorVars >>

-----------------------------------------------------------------------------
(* The cluster's own controllers.                                          *)

CollectGarbage(o) ==
  /\ Exists(o) /\ store[o].owner # None /\ OwnerGone(store[o].owner)
  /\ Put(o, None)
  /\ UNCHANGED << gp, blocked, used, operatorVars >>

Smaller(a, b) == IF a < b THEN a ELSE b

Observed(deploy) ==
  deploy.rollout.image = deploy.content.image /\ deploy.rollout.replicas = deploy.content.replicas

\* The Deployment controller notices a new template or size.  The pods of the
\* template before it are old ones now; mysql's strategy stops them first.
ObserveDeployment(o) ==
  /\ o \in Deployments /\ Exists(o) /\ ~Observed(store[o])
  /\ LET c == store[o].content
         r == store[o].rollout
         same == r.image = c.image
     IN  Put(o, [store[o] EXCEPT !.rollout =
                   [image    |-> c.image,
                    replicas |-> c.replicas,
                    updated  |-> IF same THEN Smaller(r.updated, c.replicas) ELSE 0,
                    newReady |-> IF same THEN Smaller(r.newReady, c.replicas) ELSE 0,
                    oldReady |-> IF same THEN r.oldReady
                                 ELSE IF o.name = "mysql" THEN 0
                                 ELSE readyReplicas(store[o])]])
  /\ UNCHANGED << gp, blocked, used, operatorVars >>

\* One pod more of the new template (at most one more pod than replicas), one of
\* them ready, or one old pod less (never fewer ready pods than replicas).
RollOut(o) ==
  /\ o \in Deployments /\ Exists(o) /\ Observed(store[o])
  /\ LET r == store[o].rollout
     IN  \/ /\ r.updated < r.replicas
            /\ r.updated + r.oldReady <= r.replicas
            /\ Put(o, [store[o] EXCEPT !.rollout.updated = @ + 1])
         \/ /\ r.newReady < r.updated
            /\ \A q \in References(o) : Exists(q)
            /\ Put(o, [store[o] EXCEPT !.rollout.newReady = @ + 1])
         \/ /\ r.oldReady > 0
            /\ readyReplicas(store[o]) > r.replicas
            /\ Put(o, [store[o] EXCEPT !.rollout.oldReady = @ - 1])
  /\ UNCHANGED << gp, blocked, used, operatorVars >>

PodFailure(o) ==
  /\ o \in Deployments /\ Exists(o) /\ store[o].rollout.newReady > 0
  /\ Disturb("podFailure")
  /\ Put(o, [store[o] EXCEPT !.rollout.newReady = @ - 1])
  /\ UNCHANGED << gp, blocked, operatorVars >>

-----------------------------------------------------------------------------
(* The informers.  One delivery may stand for those of several versions,   *)
(* and wakes whom they would have woken.                                   *)

SyncPlatform(p) ==
  /\ gpCache[p] # gp[p]
  /\ gpCache' = [gpCache EXCEPT ![p] = gp[p]]
  /\ queue' = queue \cup {p}
  /\ UNCHANGED << gp, store, cache, current, woken, rec, blocked, used >>

SyncObject(o) ==
  /\ o \notin current
  /\ cache' = [cache EXCEPT ![o] = store[o]]
  /\ current' = current \cup {o}
  /\ queue' = queue \cup woken[o]
  /\ woken' = [woken EXCEPT ![o] = {}]
  /\ UNCHANGED << gp, store, gpCache, rec, blocked, used >>

-----------------------------------------------------------------------------
(* The operator.  One worker, so one reconciliation at a time.             *)

\* A platform that is gone needs nothing: the garbage collector does the rest.
SkipMissing(p) ==
  /\ rec = Idle /\ p \in queue /\ gpCache[p] = None
  /\ queue' = queue \ {p}
  /\ UNCHANGED << gp, store, gpCache, cache, current, woken, rec, blocked, used >>

StartReconcile(p) ==
  /\ rec = Idle /\ p \in queue /\ gpCache[p] # None
  /\ queue' = queue \ {p}
  /\ rec' = [pc |-> "ensure", req |-> p, snap |-> gpCache[p], done |-> {}]
  /\ UNCHANGED << gp, store, gpCache, cache, current, woken, blocked, used >>

ControllerRef == [name |-> rec.req, uid |-> rec.snap.uid]

\* A mutation: no controller reference on what is created.
MutatedUnowned(o) ==
  IF cache[o] = None
  THEN [owner |-> None, content |-> Desired(rec.snap.spec, o),
        rollout |-> IF o.kind = "Deployment" THEN NewRollout ELSE None]
  ELSE [cache[o] EXCEPT !.content = Desired(rec.snap.spec, o)]

\* The object as reconcileObject leaves it: created when the cache has none,
\* else the cached one with the mutate function applied.
Mutated(o) ==
  IF cache[o] = None
  THEN [owner |-> ControllerRef, content |-> Desired(rec.snap.spec, o),
        rollout |-> IF o.kind = "Deployment" THEN NewRollout ELSE None]
  ELSE [cache[o] EXCEPT !.owner = ControllerRef, !.content = Desired(rec.snap.spec, o)]

\* A mutation: no update where the cached object looks right.
UpdateSentOnDifference(o) == Mutated(o) # cache[o]

\* The API server fills in fields of pod templates and service ports that the
\* mutate functions then overwrite with a slice that lacks them, so CreateOrUpdate
\* always sees a difference there and sends an update.
UpdateSent(o) == o.kind \in {"Deployment", "Service"} \/ Mutated(o) # cache[o]

\* A claim's size may only grow, and only where the storage class lets it.
ResizeRejected(o) ==
  /\ o = MySQLData
  /\ \/ Mutated(o).content.size < cache[o].content.size
     \/ Mutated(o).content.size > cache[o].content.size /\ ~AllowVolumeExpansion

CreateFails(o) == cache[o] = None /\ (Exists(o) \/ o \in blocked)

\* A mutation: the owner reference is set whoever the owner is.
AlreadyOwnedIgnored(o) == FALSE

\* SetControllerReference compares the owner's name, not its uid.
AlreadyOwned(o) ==
  cache[o] # None /\ cache[o].owner # None /\ cache[o].owner.name # rec.req

UpdateFails(o) ==
  /\ cache[o] # None /\ UpdateSent(o)
  /\ o \notin current \/ o \in blocked \/ ResizeRejected(o)

ReconcileFails(o) == CreateFails(o) \/ AlreadyOwned(o) \/ UpdateFails(o)

EnsureSucceeds(o) ==
  /\ rec.pc = "ensure" /\ o \in Due(rec.snap.spec, rec.done)
  /\ ~ReconcileFails(o)
  /\ rec' = [rec EXCEPT !.done = @ \cup {o}]
  /\ IF Mutated(o) = cache[o]
     THEN UNCHANGED << store, current, woken >>
     ELSE Put(o, Mutated(o))
  /\ UNCHANGED << gp, gpCache, cache, queue, blocked, used >>

EnsureFails(o) ==
  /\ rec.pc = "ensure" /\ o \in Due(rec.snap.spec, rec.done)
  /\ ReconcileFails(o)
  /\ rec' = [rec EXCEPT !.pc = "degraded"]
  /\ UNCHANGED << gp, store, gpCache, cache, current, woken, queue, blocked, used >>

\* A status update is accepted only when made from the platform's latest version.
WriteStatus(status) == gp' = [gp EXCEPT ![rec.req].status = status]

\* A mutation: the status is forced in, whatever version it was made from.
SnapshotCurrentIgnored == TRUE

SnapshotCurrent == gp[rec.req] = rec.snap

\* An error that reporting the failure meets is dropped; the failure itself is
\* returned, and the platform queued again.
ReportDegraded ==
  /\ rec.pc = "degraded"
  /\ IF SnapshotCurrent THEN WriteStatus(DegradedStatus(rec.snap)) ELSE UNCHANGED gp
  /\ queue' = queue \cup {rec.req}
  /\ rec' = Idle
  /\ UNCHANGED << store, gpCache, cache, current, woken, blocked, used >>

\* A mutation: every reconciliation asks for the next one.
RefreshStatusRequeue ==
  /\ rec.pc = "ensure" /\ Wanted(rec.snap.spec) \subseteq rec.done
  /\ IF SnapshotCurrent THEN WriteStatus(RefreshedStatus(rec.snap, cache)) ELSE UNCHANGED gp
  /\ queue' = queue \cup {rec.req}
  /\ rec' = Idle
  /\ UNCHANGED << store, gpCache, cache, current, woken, blocked, used >>

RefreshStatus ==
  LET next == RefreshedStatus(rec.snap, cache) IN
  /\ rec.pc = "ensure" /\ Wanted(rec.snap.spec) \subseteq rec.done
  /\ \/ /\ next = rec.snap.status
        /\ UNCHANGED << gp, queue >>
     \/ /\ next # rec.snap.status /\ SnapshotCurrent
        /\ WriteStatus(next)
        /\ UNCHANGED queue
     \/ /\ next # rec.snap.status /\ ~SnapshotCurrent
        /\ queue' = queue \cup {rec.req}
        /\ UNCHANGED gp
  /\ rec' = Idle
  /\ UNCHANGED << store, gpCache, cache, current, woken, blocked, used >>

\* A new operator process lists everything and is woken for every platform it finds
\* and for every owner of every object it finds.
Relist ==
  /\ gpCache' = gp
  /\ cache' = store
  /\ current' = Objects
  /\ woken' = [o \in Objects |-> {}]
  /\ queue' = {p \in Platforms : gp[p] # None}
                \cup UNION {OwnersOf(None, store[o]) : o \in Objects}
  /\ rec' = Idle

Restart == Disturb("restart") /\ Relist /\ UNCHANGED << gp, store, blocked >>

-----------------------------------------------------------------------------
Environment ==
  \/ \E p \in Platforms : CreatePlatform(p) \/ EditPlatform(p) \/ DeletePlatform(p)
  \/ \E o \in Objects : \/ DeleteObject(o) \/ EditObject(o) \/ PodFailure(o)
                        \/ RejectWrites(o) \/ AcceptWrites(o)

Cluster == \E o \in Objects : CollectGarbage(o) \/ ObserveDeployment(o) \/ RollOut(o)

Informers ==
  \/ \E p \in Platforms : SyncPlatform(p)
  \/ \E o \in Objects : SyncObject(o)

Worker ==
  \/ \E p \in Platforms : SkipMissing(p) \/ StartReconcile(p)
  \/ \E o \in Objects : EnsureSucceeds(o) \/ EnsureFails(o)
  \/ ReportDegraded
  \/ RefreshStatus

Next == Environment \/ Cluster \/ Informers \/ Worker \/ Restart

Spec == Init /\ [][Next]_vars

\* Nothing makes users, administrators, failures or restarts act; the cluster's
\* controllers, the watch connections and the worker keep running.
FairSpec ==
  /\ Spec
  /\ WF_vars(Cluster)
  /\ WF_vars(\E p \in Platforms : SyncPlatform(p))
  /\ WF_vars(\E o \in Objects : SyncObject(o))
  /\ WF_vars(Worker)

\* With several platforms it matters, too, that the queue is first in, first out: one that
\* keeps failing, and is queued again each time, does not starve another.
FifoSpec == FairSpec /\ \A p \in Platforms : SF_vars(SkipMissing(p) \/ StartReconcile(p))

-----------------------------------------------------------------------------
(* Types.                                                                  *)

\* The images a Deployment may be given: by the operator, by hand, by k8s/.
Images(o) == {Image(s, o.name) : s \in Specs} \cup {V1Image}

Contents(o) ==
  CASE o.kind = "Deployment" -> [image : Images(o), replicas : Nat]
    [] o.kind = "PersistentVolumeClaim" -> [size : Nat]
    [] o.kind = "Ingress" -> [host  : {ingressHost(s) : s \in Specs} \cup {V1Host, "edited.local"},
                              class : {ingressClassName(s) : s \in Specs} \cup {V1Class}]
    [] OTHER -> [data : {"built-in", "edited"}]

Rollouts(o) ==
  IF o.kind = "Deployment"
  THEN [image : Images(o) \cup {None}, replicas : Nat, updated : Nat, newReady : Nat,
        oldReady : Nat]
  ELSE {None}

StoredObjects(o) ==
  [owner : Refs \cup {None}, content : Contents(o), rollout : Rollouts(o)]

ServiceStatuses ==
  [desired : Nat, ready : Nat, image : (UNION {Images(o) : o \in Deployments}) \cup {None},
   rolloutState : {"Missing", "Progressing", "Ready"}]

Statuses ==
  [phase : {"", "Progressing", "Ready", "Degraded"},
   observedGeneration : Nat,
   services   : [Followed(appServices) -> ServiceStatuses] \cup {None},
   conditions : [ConditionTypes -> [ok : BOOLEAN, generation : Nat] \cup {None}]]

PlatformRecords == [uid : Nat, generation : Nat, spec : Specs, status : Statuses]

ASSUME NoneAssumption ==
  None \notin PlatformRecords /\ \A o \in Objects : None \notin StoredObjects(o)

\* The type invariant: every variable holds a value of the shape the code and the
\* API give it, each object's payload that of its kind.
TypeOK ==
  /\ gp \in [Platforms -> PlatformRecords \cup {None}]
  /\ gpCache \in [Platforms -> PlatformRecords \cup {None}]
  /\ store = [o \in Objects |-> store[o]]
  /\ cache = [o \in Objects |-> cache[o]]
  /\ \A o \in Objects : /\ store[o] \in StoredObjects(o) \cup {None}
                         /\ cache[o] \in StoredObjects(o) \cup {None}
  /\ current \subseteq Objects
  /\ woken \in [Objects -> SUBSET Platforms]
  /\ queue \subseteq Platforms
  /\ \/ rec = Idle
     \/ rec \in [pc : {"ensure", "degraded"}, req : Platforms, snap : PlatformRecords,
                 done : SUBSET Objects]
  /\ blocked \subseteq Objects
  /\ used \in [Disturbances -> Nat]

-----------------------------------------------------------------------------
(* Safety.                                                                 *)

\* A status, whether written by refreshStatus or by updateStatus, always speaks of
\* the specification it is stored beside: a verdict reached for an older generation
\* never lands on a newer one.
StatusForCurrentSpec ==
  [][\A p \in Platforms :
       (gp[p] # None /\ gp'[p] # None /\ gp'[p].uid = gp[p].uid
          /\ gp'[p].status # gp[p].status)
         => gp'[p].status.observedGeneration = gp'[p].generation]_vars

\* Two platforms in one namespace ask for the same object names. Whichever owns an
\* object keeps it: reconcileObject never takes an object away from the platform
\* that controls it, not even on the strength of an outdated cache.
NoStealing ==
  [][\A o \in Objects :
       (Exists(o) /\ store'[o] # None /\ store[o].owner # None)
         => (store'[o].owner # None /\ store'[o].owner.name = store[o].owner.name)]_vars

\* The order of ensureAll: as long as nobody deletes anything, a Deployment never
\* exists without the configuration, secret and volume its pods need to start.
ReferencesExist ==
  used["delete"] = 0 =>
    \A o \in Deployments : Exists(o) => \A q \in References(o) : Exists(q)

\* The status claims that the specification it stands beside was carried out.
ClaimsSuccess(p) ==
  /\ gp[p] # None
  /\ gp[p].status.observedGeneration = gp[p].generation
  /\ gp[p].status.conditions["ReconcileSucceeded"] = Condition(TRUE, gp[p].generation)

Untouched == used["drift"] = 0 /\ used["delete"] = 0

\* The condition ReconcileSucceeded tells the truth about workloads: as long as
\* nobody edits or deletes anything by hand, a status claiming success for the
\* current specification means that every Deployment and Service it asks for is in
\* the API server as it asks, though the operator only ever looked at its cache.
WorkloadsApplied ==
  \A p \in Platforms : ClaimsSuccess(p) /\ Untouched =>
    \A o \in Wanted(gp[p].spec) :
      o.kind \in {"Deployment", "Service"} =>
        Exists(o) /\ store[o].content = Desired(gp[p].spec, o)

\* What the condition's message says ("desired resources were reconciled"), of all
\* the objects. It does not hold: an object that looks right in an outdated cache
\* gets no update, and the API server never has a say.
AllApplied ==
  \A p \in Platforms : ClaimsSuccess(p) /\ Untouched =>
    \A o \in Wanted(gp[p].spec) :
      Exists(o) /\ store[o].content = Desired(gp[p].spec, o)

\* What docs_05 says of the status: Ready only after the child Deployments became
\* ready. It does not hold: refreshStatus takes counts that still speak of the
\* template before, or of its pods, for those of the new one.
ReadyOnlyAfterRollout ==
  \A p \in Platforms : ClaimsSuccess(p) /\ Untouched /\ gp[p].status.phase = "Ready" =>
    \A n \in Followed(appServices) :
      LET deploy == store[Deployment(n)]
      IN  Observed(deploy) /\ deploy.rollout.newReady >= replicas(gp[p].spec)

\* What README and failure-drills/10 say of a rollback: it is done by hand, on the
\* Deployment. It does not last: with no change of the specification, the operator
\* puts the image it was told to take back again.
ManualRollbackSticks ==
  [][\A o \in Deployments :
       (used["edit"] = 0 /\ rec.pc = "ensure" /\ rec' # rec
          /\ Exists(o) /\ store[o].owner # None /\ store'[o] # None)
         => store'[o].content.image = store[o].content.image]_vars

-----------------------------------------------------------------------------
(* Liveness.  Disturbances are bounded, so each of these speaks of what    *)
(* happens once they stop.                                                 *)

\* The storage class lets the claim have the size the specification asks for.
Satisfiable(p) ==
  (gp[p] # None /\ MySQLData \in Objects /\ Exists(MySQLData)) =>
    LET want == Desired(gp[p].spec, MySQLData).size
        have == store[MySQLData].content.size
    IN  want = have \/ (want > have /\ AllowVolumeExpansion)

Undisturbed == blocked = {} /\ \A p \in Platforms : Satisfiable(p)

AsWanted(p, o) ==
  /\ Exists(o)
  /\ store[o].owner = [name |-> p, uid |-> gp[p].uid]
  /\ store[o].content = Desired(gp[p].spec, o)
  /\ o \in Deployments => (Observed(store[o]) /\ AtLeast(store[o], store[o].content.replicas))

Converged(p) ==
  gp[p] # None =>
    /\ \A o \in Wanted(gp[p].spec) : AsWanted(p, o)
    /\ gp[p].status.phase = "Ready"
    /\ gp[p].status.observedGeneration = gp[p].generation

\* Self-healing: whatever was edited, deleted, restarted or delayed on the way, the
\* objects end up as the last specification wants them, controlled by the platform
\* and rolled out, and the status ends up saying so (Reconcile, Owns, refreshStatus).
Converges == <>[]Undisturbed => <>[](\A p \in Platforms : Converged(p))

\* The operator comes to rest: its own status and object writes wake it, and it
\* always sends updates for Deployments and Services, yet it does not keep itself
\* busy for ever.
Quiesces == <>[]Undisturbed => <>[](queue = {} /\ rec = Idle)

\* A failure that stays is shown: when an object of the platform cannot be created,
\* the claim cannot have the size asked for, or another platform controls an object
\* of that name, the status ends up Degraded and stays so; it is never left claiming
\* Ready or Progressing, not even where two platforms have split the objects and
\* block each other for ever (Reconcile, updateStatus, SetControllerReference).
Stuck(p) ==
  /\ gp[p] # None
  /\ \/ ~Satisfiable(p)
     \/ \E o \in Wanted(gp[p].spec) :
          IF Exists(o) THEN store[o].owner # None /\ store[o].owner.name # p
                       ELSE o \in blocked

FailureSurfaces ==
  \A p \in Platforms :
    <>[]Stuck(p) => <>[](gp[p] # None /\ gp[p].status.phase = "Degraded")

\* Once the platforms stay deleted, everything they controlled disappears, and a
\* reconciliation that was under way does not leave anything behind: what remains
\* was there before the operator and never adopted by it (reconcileObject's owner
\* reference; the operator itself deletes nothing).
Teardown ==
  <>[](\A p \in Platforms : gp[p] = None)
    => <>[](\A o \in Objects : Exists(o) => o \in Legacy /\ store[o].owner = None)
=============================================================================
