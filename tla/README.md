# Formal models of game-k8s-ops-practice

TLA+ models of the parts of this repository whose correctness depends on the order in
which things happen: the `GamePlatform` operator, which works from outdated caches beside
other writers, and the game services, which keep state in Redis and MySQL without a
transaction across the two. TLC checks them on small instances; TLAPS proves what matters
most for every instance.

    tlc -workers 2 -config healing.cfg MCReconciler.tla
    tlapm ReconcilerProof.tla

## 1. The system

| Component | State it keeps | Operations | Interacts with |
| --- | --- | --- | --- |
| Operator controller (`operator/controllers`) | none of its own; caches of GamePlatforms and of the objects they own; a work queue | `Reconcile` = `ensureAll`, then `refreshStatus`, or `updateStatus` after a failure | API server (reads through caches, writes with a conflict check), events of everything it owns, Deployment controller, garbage collector, people with kubectl |
| Operator manager (`operator/main.go`, `operator/config`, `k8s-v2`) | the process, the leader lease | start, restart, leader election | API server |
| Login service | sessions and online flags in Redis, with times to live; users and login history in MySQL | `login`, `logout` | Redis, MySQL, Kafka |
| Match service | one sorted set in Redis, of members `mode:player` | `join_match`, `match_status` | reads the online flag of the login service |
| Room service | a hash and a set of players per room in Redis, rows in `rooms` and `room_players` | `create_room`, `join_room`, `leave_room`, `room_status` | reads the online flag; Redis, then MySQL, then Kafka |
| Game gateway | none | `proxy`, five seconds' timeout | the three services; clients retry what it gave up on |
| Shared runtime (`common`) | connection pools, producer | connect, health, `publish`, close | Redis, MySQL, Kafka |
| v1 manifests, compose stack, proxy, monitoring, scripts, drills | data, sequential shell | | |

What is hard in them:

- **Operator.** One reconciliation is up to 28 reads from caches and writes, with anything
  happening between two of them. The caches lag, each by itself; writes made on outdated
  grounds fail, or are not made at all because the cached object looks right. Steps fail
  and starve later ones. The operator is woken by its own writes. Objects it never made
  (v1) have to be adopted; two platforms want the same names; platforms are deleted and
  made again under the same name while the garbage collector is at work.
- **Services.** Every `await` is a point where another request runs, in the same process or
  in another replica; checks and the writes they guard are separate commands; Redis, MySQL
  and Kafka are written one after the other and each may fail; keys expire in between.

What makes each correct:

- **Controller**: after the last disturbance the objects and the status end up as the last
  specification wants (self-healing), and the operator comes to rest; a status never speaks
  of another specification than the one it stands beside; success is claimed only for what
  was carried out; a lasting failure shows; nothing is taken from another owner; no
  Deployment before what its pods mount; nothing is left after a platform is deleted.
- **Room service**: rooms do not fill beyond their size; Redis and MySQL agree on who is in
  the room; what is temporary disappears.
- **Login**: a token that was handed out stops working by itself; as long as its session
  lives the player counts as online, unless one of the player's devices logged out.
- **Match**: only players who logged in are queued, at most once per mode; a place in the
  queue that was answered gets worse by no more than the joins that were then on their way
  with an earlier time.
- **Operator manager**: with the lease, all processes together are one operator that is
  restarted now and then.

`PROJECT.json` lists, under `hazards`, each thing that can go wrong at its line, with the
property that covers it, or why none does.

## 2. The modules

| Module | What it is |
| --- | --- |
| `GamePlatform` | the operator's pure part: defaults, objects, the order of `ensureAll`, what the mutate functions write, how status is computed |
| `Reconciler` | the operator at work, with the API server, informers, queue, Deployment controller, garbage collector and users around it; its properties |
| `OperatorManager` | two operator processes, each an `INSTANCE` of `Reconciler` with its own memory, over one API server; the lease; the refinement to one `Reconciler` |
| `MCPlatforms`, `MCReconciler`, `MCOperatorManager` | slices, specifications and budgets for TLC |
| `ReconcilerProof`, `WorkloadsProof`, `ReferencesProof` | theorems about `Reconciler` |
| `OperatorManagerProof` | theorems about two processes, with the lease and without |
| `RoomService`, `MCRoomService`, `RoomServiceProof`, `RoomRecordsProof` | one room |
| `LoginService`, `LoginServiceProof` | sessions and online flags |
| `MatchService`, `MCMatchService`, `MatchServiceProof` | the queue, composed with `LoginService` |

### GamePlatform and Reconciler

| Model | Code |
| --- | --- |
| `gp`, `store` | GamePlatforms and child objects in the API server |
| `gpCache`, `cache`, `current` | what `r.Get` and `CreateOrUpdate` read: the manager's informer caches; `current` is the set of objects whose latest version is cached |
| `queue`, `rec` | controller-runtime's queue; the one `Reconcile` under way: the platform record it read, and the objects it is through with |
| `StartReconcile`, `SkipMissing` | `Reconcile`'s first `Get` |
| `EnsureSucceeds(o)`, `EnsureFails(o)` | `reconcileObject` for one object, in the order of `ensureAll` (`Due`) |
| `ReportDegraded` | the failure branch of `Reconcile`, whose own error is dropped (`_ =`) |
| `RefreshStatus` | `refreshStatus`: nothing when nothing changed, else a status update that may lose |
| `woken` | for each object, the owners that versions of it not delivered yet will wake: handlers see every owner an object had, also when deliveries are merged into one |
| `SyncPlatform`, `SyncObject` | informer deliveries, which wake the platform or the owners named (`For`, `Owns`) |
| `Restart`, `Relist` | the operator's pod replaced: everything is listed anew and every platform and owner woken |
| the rest | users, admission, the Deployment controller, the garbage collector: external, modelled from how the operator uses them |

Decisions a reader should know:

- *Slices.* The platform has 28 objects. An instance follows a few of them (`Slice`), and
  the operator's work on the others is left out as if they were always right. `ensureAll`
  itself is written for all of them, and the theorems hold for every slice, the whole
  platform included.
- *Conflicts.* No resource versions: an update of an object is accepted exactly if the
  cache holds its latest version (`current`), a creation if there is no such object, a
  status update if the platform is still the record that `Reconcile` read. No two versions
  of one platform are equal (an edit moves the generation, a creation the uid, and a status
  is only replaced by a writer that has seen the one before), so comparing records is
  comparing versions.
- *Steps.* Reading the cache and writing one object are one action: only informer deliveries
  could come between, and an outdated read is already there as an outdated cache; the
  conflict check is made on the write. `refreshStatus` reads several objects in one action for
  the same reason: each object's cache lags by itself, so every mixture of old and new
  views is reachable. An informer may skip intermediate versions.
- *Updates.* `CreateOrUpdate` sends an update only if the mutated object differs from the
  cached one. For Deployments and Services it always does: the mutate functions replace
  containers and ports with slices that lack the fields the API server filled in. Such an
  update may conflict, but one that changes nothing leaves the object's version alone, so it
  wakes nobody. `UpdateSent` has this; `WorkloadsApplied` depends on it.
- *Deployments.* `rollout` is the Deployment's status together with what it counts: pods of
  the observed template, those of them ready, and ready pods of templates before.
  Application rollouts have maxSurge 1 and maxUnavailable 0 as `ensureAppDeployment` sets
  them; mysql is recreated. A rollback to a template whose pods still run counts them as old
  ones. The one-replica infrastructure rolls out with Kubernetes' defaults, which for one
  replica amount to the same.
- *Time.* Requeues after an error are immediate; backoff has no bearing on the properties.
- *Owners.* `SetControllerReference` compares the owner's kind and name, not its uid
  (`AlreadyOwned`); the garbage collector compares uids (`OwnerGone`).

### OperatorManager

| Model | Code |
| --- | --- |
| `A`, `B` | the controllers of two processes, such as the old and the new pod of an update |
| `LeaderElect`, `LeasesAllowed` | the flag of `main.go` and what the role in `k8s-v2/rbac` grants on leases |
| `LeadA`, `LeadB` | `mgr.Start`: with the flag, when the lease is had; informers list, the queue fills |
| `Stop` | the pod goes, or the lease could not be renewed: `mgr.Start` returns and `main` exits |
| `ExpireLease` | client-go: the lease of a process that is gone runs out |
| `FallBehindA`, `FallBehindB` | what one process writes is, to the other, an event to come |

A process that exits does not hand the lease back (`LeaderElectionReleaseOnCancel` is not
set), and a holder gives up before its lease expires (client-go's renew deadline is shorter
than the lease); both are taken from the library. Two names suffice for any number of
replacements, for a process that is gone has no effect on anything.

`OneOperator` is the refinement: under the lease, the two processes implement `Reconciler`'s
own `Spec`, when its memory is read as that of the process that started last (`Last`) and its
restarts as the number of processes that ended, and one more while a process runs
(`disturbed`): a lead is the one operator's restart. It would fail as soon as a
step of a former leader could be mixed into its successor's work, which is what the mutation
`MayLeadRegardless` does. The refinement is
proved (section 4), so what is proved of `Reconciler` is true of the deployed operator.

### RoomService

One room, from before its creation to after its expiry. Clients have one request at a time, for one of the players they speak for;
every command a handler sends (to Redis, MySQL, Kafka) is an action, so anything may happen
at each `await`. `room`, `players`, `expires` are the two Redis keys and whether the second
has a time to live; `record` is the player's row in `room_players`; `op`, `who`, `pc`, `answer` are
the request, its player, the command it sends next and how the last one ended. `Fail` ends a request
anywhere, what it did so far stays: Redis, MySQL or Kafka unavailable, or the pod stopped. A
request retried after the gateway's timeout, while the first attempt is still at work, is a
second client of the same player; `RecordsAgree` leaves such players out, for whom Redis and
MySQL may see a join and a leave in opposite orders. The
room's identifier is random and returned only by a successful creation (`known`). The model also shows that a set of players
made anew by SADD (its last member left, or a join found the room just before it expired)
has no time to live; nothing in the repository promises one, so no property speaks of it. The row in
`rooms` is read by nothing and left out. Whether the owner is online belongs to the login
service and is a free choice here.

### LoginService and MatchService

A key in Redis is the time it has left, in ticks, 0 if there is no such key, `Forever`
between HSET and EXPIRE; a flag that was deleted by a logout is `LoggedOut`, so that
`OnlineCovers` can tell it from one that expired. `TTL` is the one duration of both kinds of
key. Tokens are random: each is drawn once. As in the rooms, each Redis command is an action
and `Fail` ends a request anywhere. The rows of `login_records` are never read.

`MatchService` extends `LoginService` by the queue.

| Model | Code |
| --- | --- |
| `score` | the sorted set `match:queue`; equal scores are ordered by the members' names (`Lexical`) |
| `asked`, `stamp` | a join under way: the member it is about, the time it has read |
| `Join`, `TakeTime`, `Enqueue`, `Abort` | `join_match`: EXISTS, `time.time()`, ZADD with what follows, failure anywhere |
| `Status`, `told` | `match_status`: its answer, rank + 1 (`Place`), and how many members were then on their way to a place in front (`overtaking`) |
| `now`, `Clock` | clocks: `now` is that of the replica furthest ahead, any replica's may be behind by up to `Skew` |

Two things move a queued player back. A join reads its time before it sends the ZADD, so one
with an earlier time may arrive after the answer. And the service has two replicas, whose
clocks may disagree: a join served by the slower one gets an earlier time than one that was
made before it. So an answered place can get worse, and `ToldPlaceHolds` says how far: once
every clock has passed a member's time (`Past`), only joins that had already read theirs can
still come in front of it. Answers to members that joined more recently than clocks differ
promise nothing and are not remembered. A player who joins again gets the new time and loses
the own place; `told` is given up then. Nothing takes a member out of the queue: the code has
no operation for it. `match_status` reads the rank and the score by two commands; the score
only serves the waiting time, which is left out.

## 3. What is checked

`CHECK_DEADLOCK FALSE` in the operator's runs: a platform at rest has nothing to do, and a
run has a bounded number of disturbances; in `sessions`, tokens and time run out. `rooms`
checks deadlock.

| Run | Property | What it says |
| --- | --- | --- |
| `healing` | `TypeOK`, `WorkloadsApplied`, `Converges`, `Quiesces` | After the creation and one of an edit, a manual edit, a deletion, a pod failure, a restart, at any point of a reconciliation, the objects and the status end up right, and the queue empties for good; a claim of success is true of Deployments and Services. (One edit cannot be taken back within this run's bound; `manager` and the theorem have edits back and forth.) |
| `manager` | `OneOperator`, `WorkloadsApplied` | Two processes under the lease and, after the creation, any two of an edit, its reversal and a process that stops, all racing their caches: together they behave as one `Reconciler`, and a claim of success still holds after two edits, back and forth, or an edit and a change of leader |
| `ownership` | `NoStealing`, `FailureSurfaces` | Of two platforms in one namespace, neither takes an object from the other; one that is blocked by the other for good, or both that block each other, end up Degraded |
| `storage` | `ReferencesExist`, `StatusForCurrentSpec`, `FailureSurfaces` | With any two of a refused volume size, a rejected object and a restart, mysql's Deployment never exists without its volume and configuration; a verdict never lands beside a newer specification; while an object cannot be created, or the volume cannot have its size, the status ends up Degraded and stays so |
| `teardown` | `Teardown`, `Converges` | Once platforms stay deleted, what they controlled disappears, also what a reconciliation under way was still creating; a platform made again under the same name while the garbage collector is at work gets all its objects |
| `monitoring` | `Converges` | The same convergence with monitoring switched on and off, over a v1 Prometheus that is adopted, or deleted while nobody wants it |
| `rooms` | `TypeOK`, `OverfullBound`, `RecordsAgree` | How far over its size a room gets; Redis and MySQL agree on a player whose last request succeeded, whatever failed before |
| `sessions` | `TypeOK`, `OnlineCovers`, `GivenTokensEnd`, `QueuedHadLogin`, `ToldPlaceHolds` | Two devices of one player log in, log out and queue: a token's session never outlives the online flag but for a logout, and ends; nobody is queued who never logged in; a place that was answered gets worse by no more than the joins then on their way with an earlier time |

Each property has a mutation of the code (in `PROJECT.json`, its text beside the definition
it changes) that TLC finds violating it: a dropped watch, a missing conflict check, updates
only on a difference, the infrastructure before the configuration, an owner reference
forgotten, and so on.

### Where the code and what is said of it differ

Four runs end in a counterexample, and are meant to. Each states what a document, a message
or the code's own refusal says.

| Run | What is said | What happens |
| --- | --- | --- |
| `early_ready` | Ready after the child Deployments became ready (docs 05) | `refreshStatus` never compares the Deployment's observed generation: Ready is reported for a new tag from the counts of the one before |
| `rollback` | Rollback is done by hand with `kubectl rollout undo` (README, docs 05, drill 10) | The operator writes `spec.imageTag`'s image back at the next reconciliation |
| `stale_success` | `desired resources were reconciled` (the condition's message) | A specification changed and changed back faster than the informer: the cached Ingress looks right, nothing is sent, the stored one is wrong until a later event |
| `no_leader` | After `kubectl apply -k k8s-v2` the GamePlatform moves to Ready (docs 05) | The process is started with `--leader-elect`, and its role grants nothing on leases: its controller never starts, the pod is healthy |

That a room can hold more players than `max_players` is part of `rooms`: `OverfullBound` says
by how many, and with the two clients of that run the bound is reached.

### Bounds, and why they are enough

- `Limit` and `Total` bound the disturbances (creations, edits, deletions, manual edits,
  rejections, pod failures, restarts). Cluster, informers and worker are not bounded. What
  the properties turn on needs a creation and two further disturbances at most: a change and
  its reversal, a change and a restart, a deletion and a re-creation. Each run allows the
  kinds that bear on its question; `healing` allows one disturbance of any kind after the
  creation, at every point of the way.
- Two specifications differ in the image tag and the host, the volume size or the
  monitoring flag. One replica is the boundary case, in which the surge pod of a rollout can
  make the counts right too early; with more replicas the same counts are larger.
- Slices: an application with its configuration, the Ingress with the configuration, mysql
  with what it mounts, and Prometheus with its configuration. They have every
  kind of object but Services and Secrets, which the code treats as it does Deployments and
  configuration maps respectively, and each has objects of at least two steps of `ensureAll`.
- Two platforms are enough for one to be the other's rival. Rooms: two
  clients with two players each and a room for two give a full room, and two joins in a race
  for its last place or beyond it.
- Two operator processes: a leader and a successor; a third is to the second what the second
  is to the first.
- Sessions: two devices of one player share the flag and race for it; two tokens are two
  logins, by one device or both, and two ticks of time to live let a key be older than another. Both
  modes give a queue of two members, one of which can overtake the other. Clocks are one tick
  apart (`Skew`) and move on once (`Horizon`), which is enough for a member's time to be past on
  every clock while a join still carries an earlier one.

### Fairness

`FairSpec` has weak fairness for the cluster's controllers, for the delivery of platform
events, for the delivery of object events, and for the worker. That is what
controller-runtime and Kubernetes do: watches are re-established, the queue is served, the
Deployment controller and the garbage collector run. Nothing makes users act, failures
happen, or rejections end; the liveness properties therefore speak of behaviours in which
what stands in the way is eventually gone (`<>[]Undisturbed`), or stays (`<>[]Stuck`).
Fairness is not per object: the worker and each kind of delivery eventually take some step,
and as disturbances are bounded there are only finitely many to take before all are.

With two platforms this is too weak for `FailureSurfaces`: the worker could serve for ever the
platform that fails and is queued again, and leave the other waiting. The work queue is first
in, first out, and a platform that failed goes to its end after a delay. `FifoSpec`, which
`ownership` uses, says what follows of that: a platform that keeps being in the queue while
the worker is free is taken (strong fairness per platform, for the worker is not always free).

`OperatorManager!FairSpec` has the same for each process that runs; the leases of processes
that are gone expire, and one that may lead eventually does. `MatchService!Spec` has weak
fairness for time only; clients may stop anywhere.

## 4. What is proved

TLAPS, for every value of the constants that satisfies the modules' assumptions.

- `ReconcilerProof!TypeCorrect`: `Spec => []TypeOK`. It rests on typing lemmas for each
  operator of `GamePlatform` (what `Desired`, `RefreshedStatus`, `DegradedStatus` return) and
  one lemma per group of actions. A payload's type depends on its object's kind; `PutType`
  carries that through every write.
- `ReconcilerProof!OwnershipKept`: `Spec => NoStealing`. The code checks the owner in the
  cache, so the action alone does not give it. The inductive invariant adds `FreshCache`
  (what `current` holds is in the cache as it is in the API server). An update is accepted
  only for a current object; there, the owner checked is the owner stored.
- `ReconcilerProof!StatusCurrent`: `Spec => StatusForCurrentSpec`. The status written always
  carries the snapshot's generation, and is written only while the snapshot is the platform.
- `WorkloadsProof!WorkloadsTruthful`: `Spec => []WorkloadsApplied`. The operator sees only its
  cache, and claims success in another step than those that made it true. The invariant `Tied`,
  which holds as long as nobody deletes or edits by hand (`Untouched`), has five parts: caches,
  snapshots and statuses are never ahead of the platform, and a status never speaks of a
  generation the cache has yet to see (`Behind`), so nothing older than a claim is carried
  out after it; owners are live, so the garbage collector is idle (`OwnersLive`); each Deployment
  or Service that the reconciliation under way is through with is in place in the API server
  (`DoneInPlace`: the update is always sent, and accepted only from a current cache, where
  `FreshCache` makes it the stored object); what claims speak of is in place (`ClaimsInPlace`).
- `ReferencesProof!ReferencesInOrder`: `Spec => []ReferencesExist`, for v1 remains that are
  whole (`LegacyWhole`: no Deployment left behind without what it refers to). `ReferencesBefore`
  is the lemma about `ensureAll`'s order; the invariant `Standing`, as long as nothing is deleted,
  says that whatever is cached was stored, whatever `ensureAll` is through with is stored,
  and no owner is gone, so that nothing stored disappears. Edits by hand are allowed here.
- `LoginServiceProof!LoginTypeCorrect`, `LoginServiceProof!FlagCovers`:
  `LoginSpec => []LoginTypeOK` and `LoginSpec => []OnlineCovers`. `OnlineCovers` speaks of
  tokens handed out; the invariant `FlagInv` has it from the SET on (`Settled`), and adds that a
  token is one login's only, that no session has more than `TTL` left, and that EXPIRE comes before
  SET: a session whose flag is set later than its own time to live starts cannot outlive it.
- `RoomServiceProof!TypeCorrect`: `Spec => []TypeOK`.
- `RoomServiceProof!OverfullBounded`: `Spec => []OverfullBound`. `OverfullBound` is not
  inductive: a join between its two commands adds a player however full the room has become.
  `Bounded` counts those joins as if they had added theirs, and a client joins their number
  only when it has seen fewer than `MaxPlayers`.
- `RoomRecordsProof!RecordsAgreeing`: `Spec => []RecordsAgree`. The invariant `Agreeing` says what
  the two stores hold of a request's player after each of its commands (`SoFar`), for players
  no other client speaks for (`Alone`), and that the room is made once, before anyone but its
  creator knows of it (`Orderly`).

- `MatchServiceProof!MatchTypeCorrect`, `MatchServiceProof!MatchFlagCovers`,
  `MatchServiceProof!QueuedLoggedIn`, `MatchServiceProof!PlacesHold`: `Spec => []TypeOK`,
  `[]OnlineCovers`, `[]QueuedHadLogin`, `[]ToldPlaceHolds`. Every step of the match service is a
  stutter of the login service (`LoginAlone`), so what is proved of the one holds in the
  composition. `LoginInv` says that a flag stands, a join is under way and a member is queued only
  for players who logged in. `ToldInv` has the place from a set that only shrinks: the members in
  front of the one that was told, or on their way there (`Before`). `NobodyElse` is the lemma: once
  every clock has passed a member's time, no time that is read then is earlier, so no step but
  the member's own join adds to the set. Its size at the answer is what the answer and
  `overtaking` allow.
- `OperatorManagerProof!LeaseMakesOne`: `LeaderElect => (Spec => OneOperator)`, the refinement, one
  lemma per group of actions. `LeaseHeld` (at most one controller runs, that of the process which
  started last and is named in the lease) makes every step of a process one of the one
  operator's memory; `Noticed` and `Unnoticed` say that the process without a controller falls
  behind exactly as the one operator does by its own writes and those of others. `LeaseHeld` also
  bounds the disturbances spent, so that the one operator can always afford the restart that a
  lead is.
- `OperatorManagerProof!WorkloadsTruthful`: `LeaderElect => (Spec => []WorkloadsApplied)`, carried
  over from `WorkloadsProof` by the refinement.
- `OperatorManagerProof!TwoOperatorsSafe`: `Spec => A!NoStealing /\ A!StatusForCurrentSpec`, for
  `LeaderElect` of either value. Without the lease both processes act at once, each on caches
  that the other makes outdated. `BothKept`, the inductive invariant of one operator for both
  memories, is kept: a step of one is a step of `Reconciler` on its own memory, and the other
  falls behind by it (`BehindA`, `BehindB`).

Assumptions: the slice is made of the platform's objects; specifications are typed; the
legacy objects are in the slice; `None` is no record of a platform, object, owner, queue member
or answer, no time and no process; the members of the queue are finitely many and ordered by name; a room is for two at least, as the request's validation has
it; finitely many clients, each of which speaks for some player. `LeaseMakesOne` and the
`WorkloadsTruthful` of the processes are for `--leader-elect`, as `k8s-v2` starts them.

`SameOperators` and `OneIsSingle`, in `OperatorManagerProof`, are long lists of definitions: the
model instantiates `Reconciler` and the proof `WorkloadsProof`, which extends it, and that both
have the same operators is seen once all are expanded.

The attempt to prove the refinement corrected the model in one place: `EditObject` once allowed an
edit that changes nothing, by which the one operator's cache counted as outdated and the
processes' caches did not. Kubernetes makes no new version of an object for such an edit, so it is
no longer a step.

Model-checked only: liveness (`Converges`, `Quiesces`, `FailureSurfaces`, `Teardown`,
`GivenTokensEnd`), which is out of the prover's reach. The four findings are counterexamples, which
TLC shows. Every safety property that a passing run checks is a theorem.

## 5. Not modelled

- *Two operators without the lease* (the flag's default in `main.go`) in a run: `OperatorManager`
  has it (`LeaderElect = FALSE`), but the state space of `manager.cfg` is then too large.
  Ownership and the generation of statuses are proved for it (`TwoOperatorsSafe`). That claims of
  success are true is not so: with the creation and one change of the resource (`Total = 2`),
  `WorkloadsApplied` fails, for a process may carry out the older specification after the other
  has claimed success for the newer one.
- *Shared runtime* (`common/`): connecting and closing are sequential, `health` reads, and
  `publish` is a request's last step, whose failure is `Fail`. Pools and their limits: a
  request holds one connection at a time, so they delay but do not block for good.
- *Gateway*: keeps no state. Its timeout shows as two clients of one player.
- *Kafka events*: nothing in the repository consumes them.
- Labels, probes, ports, resource limits, texts of messages and configuration maps are one
  payload or left out. With them goes the restart annotation of `kubectl rollout restart`, which a
  reconciliation removes as it does a manual image.
- Generated deep copies and schema, the compose stack, the proxy, the monitoring
  configuration and the scripts have no state of their own that changes in an interesting order.
- Backoff and other durations: the models have order, not time, but for the ticks of
  `LoginService`. Informers that list anew after a broken watch, or resync every ten hours,
  would only wake the operator more often; the properties do without.
- Finalizers and foreground deletion: the operator uses neither. A claim's deletion waits in
  Kubernetes until no pod uses it; the model deletes it at once.
- Lists older than the API server's state: `Relist` gives a process that starts the latest
  versions, while client-go's first list may come from an API server's watch cache that is behind.
  `WorkloadsApplied`, and the theorems `WorkloadsTruthful` of one operator and of several, rest on
  it: a process that starts from an older list than its predecessor saw could carry out an older
  specification beside the predecessor's claim for the newer one.
- Clocks that are further apart than `Skew`, or that are set back by more; `Skew` is any number
  in the theorem.
