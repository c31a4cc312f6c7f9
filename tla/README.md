# A TLA+ model of hyperbytedb-operator

This directory models the reconcilers of the HyperbyteDB Kubernetes operator
(`src/internal/controller`, `src/internal/hyperbytedb`, `src/api/v1alpha1`) next
to the things they race with: the StatefulSet and Job controllers, the kubelet,
the database nodes, the proxies, the bucket and the user. TLC checks the models
on small instances; TLAPS proves the safety results for every instance.

## 1. The system

### Components

| Component | State it keeps | Operations | Correct when |
|---|---|---|---|
| Rolling restart (`reconcileRollingRestart`, `rolloutPartition`, `releaseOrdinal`) | `status.rollingRestart` (phase, ordinal, ExcludeConfirmed, PhaseStartedAt), the StatefulSet's partition, the proxies' exclusions | start, exclude, drain, release, wait, include, clear | pods go one at a time, highest first, out of rotation, once; it ends; nothing stays excluded |
| Scale-down and membership (`runScaleDownClusterHooks`, `removeDepartedVoters`, `deleteStuckDepartedPods`, `CleanupOrphanPVCs`, `reconcileClusterMembership`) | StatefulSet replicas, node states, Raft voters, volume claims | tell nodes to leave, wait for evacuation, remove voters, shrink, clean up, add nodes | no region and no majority is lost, no volume with data is deleted, the size asked for is reached |
| Cluster status, deletion, failover (`Reconcile`, `setFailedStatus`, `updateStatus`, `CollectMemberStatuses`, `handleAutoFailover`) | `status.phase`, conditions, `failoverCount`, finalizer | pause, finalize, collect, fail over, write status | the status comes true again, deletion ends, failovers are counted, bounded and do happen |
| Backup controller | `status.phase`, one Job, one CronJob | create, record outcome | the phase is the Job's outcome; a completed backup stays in the bucket |
| Restore controller | `status.phase`, StatefulSet replicas, one Job per volume | scale down, create jobs, wait, scale up | Completed means copied, pods start only on restored data, it ends |
| Snapshot transfer (`s3_transfer.go`) | folders of an S3 prefix | upload, retention, download of the newest | retention removes no recent backup |
| Database HTTP client | none | calls with a 30 s time limit | modelled by what the calls answer |
| Replication health (`monitorReplicationHealth`) | `status.replicationState` | compare the nodes' manifests | the verdict is that of the nodes again and again |
| Version compatibility (`compat.go`, `image.go`) | none | resolve versions and images, capabilities | nothing is rendered that the version in the image does not understand |
| Rendering (`configmap.go`, `statefulset.go`, `proxy.go`, `service.go`) and the steps that store it | ConfigMap, StatefulSet template, Services, proxy Deployment, PDB | render, create or update, one object after the other | every pod and proxy ends up on what the cluster says, and restarts when it has to |
| Auth and TLS Secrets (`auth.go`, `tls.go`) | one Secret each | create if missing, fill in keys | whoever names a Secret has its token |
| Admission webhook | none | default, validate | only clusters that can be rendered are admitted |
| API types, entry point | none | registration, flags | not modelled, see section 8 |

### How they interact

Everything meets in the API server. The cluster's reconciler and the restore's
reconciler both write the StatefulSet's replicas. The operator writes template,
replicas and partition; the StatefulSet controller acts on them when it likes
and reports through its status, which the operator reads back from a cache. The
operator calls the nodes (health, decommission, Raft membership) and the
proxies (exclude, include) over HTTP. The work queue runs one reconcile per
object at a time, so there is no concurrency inside a reconciler, only between a
reconcile and everything outside it. What a reconcile reads comes from a cache that
may not have heard of the last write yet, its own included. `Status().Update` is a compare-and-swap
on the resource version; in many places its error is dropped.

### What is hard

The interleavings of a reconcile with controllers that act on what the previous
one wrote; crashes and lost status writes between an effect and its record;
calls that reach some of the proxies or nodes; edits that arrive in the middle
of an earlier one; time limits counted from a stored time. `PROJECT.json` lists
them, each at its line, under `hazards`.

## 2. Modules

| Module | Models |
|---|---|
| `RollingRestart` (`MCRollingRestart`) | the rolling restart, StatefulSet controller, kubelet, proxies |
| `ScaleDown` | scale-down, Raft membership, volumes, database nodes, recreation of the StatefulSet, autoscaler |
| `Membership` | abstract: what scaling promises about the Raft group; `ScaleDown` implements it |
| `Rendering` (`MCRendering`) | webhook, versions, rendered objects, Secrets, the reconcile that stores them, the pods and proxies that load them |
| `Health` | `Reconcile` from pause to status, replication health, failover, deletion |
| `SnapshotStore` | the folders of a prefix: upload, retention, newest |
| `Backup` | the backup reconciler and its jobs, over `SnapshotStore` |
| `Restore` | the restore reconciler, the cluster's reconciler, jobs, over `SnapshotStore` |
| `RollingRestart_proofs`, `Rotation_proofs` | theorems about `RollingRestart`: partition and order; pods and proxies |
| `ScaleDown_proofs`, `Rendering_proofs`, `Health_proofs`, `Backup_proofs`, `Restore_proofs` | theorems about the module of that name |
| `SetLemmas` | what the theorems need about finite sets of numbers |

`Backup` and `Restore` each compose their reconciler with `SnapshotStore`, which
they share; `Restore` composes two reconcilers of one StatefulSet. `ScaleDown`
has an instance of `Membership` and implements it. `MCRollingRestart` defines a
symmetry set, `MCRendering` the clusters that are submitted; the other runs use
the module itself.

Every module cuts a reconcile where something outside can see or change what it
uses: reading the object, each call or write that others observe, the status
write. A step that fails or returns early in the code is an action of its own,
with the rest of the reconcile left out. `Faults` says which kinds of failure or of
user behaviour
happen in a run, so that each property is checked under all the failures it
survives; the comment above `FaultKinds` says what each one is.

### RollingRestart

`Begin` reads the cluster from the cache (one write behind under `"stale"`),
`ApplyStatefulSet` writes the template and `rolloutPartition`, one handler step
does the phase's work and `WriteStatus` stores the next phase if the cluster has
not changed since. The proxies are called in turn; the call fails at one of them
(`Told`, `CallFails`). The code's time limits (`proxyCallTimeout`,
`podRestartAllowance`) are the flag `rr.aged`, set when they have passed. The StatefulSet
controller creates a pod on the current revision below the partition and on the
update revision from it on, and replaces the highest outdated pod.

### ScaleDown

`Begin`, `Evacuate` (`departurePlan`, `departingNodeAction`), `RemoveVoter` once
for each departing node, `ApplyReplicas`, `CleanUp`, `View`, `AddNode` or
`AddNodeFails` for each node the leader does not know, `EndReconcile`. `View` reads who
answers, who leads and whom the leader knows; the loop uses that although the
leader may have changed since, in which case the call is refused. A region is a
set of ordinals that hold a copy. A node moves its copies to active nodes only,
and reports "leaving" when it holds none. A volume claim that is deleted stays
until its pod is gone, and the data with it. A node outside the voters is never
ready, which under OrderedReady is what keeps the StatefulSet controller from
going on. `CleanUp` deletes the claims one after the other; a delete that fails is
only logged. `Evict` deletes a pod that is to stay, at any moment: that is
what a rolling restart, the failover (`hyperbytedbcluster_controller.go:1300`) and
evictions do to a cluster that is being scaled.

Two things about the database are assumed, because the operator relies on them
without looking: an accepted add-node call makes the node a voter (`promoted_to_voter`,
`client.go:349`, is not read), and `/cluster/nodes` lists voters and no learners.

A change between one and several nodes, or of the parallel-pods annotation,
changes `podManagementPolicy`: `DeleteForPolicy` deletes the StatefulSet with its
pods left running and ends the reconcile, and `CreateStatefulSet` makes the next
one, which adopts them; `size` is 0 in between, and a reconcile that begins then
knows no previous size. `HpaScales` is the autoscaler, whose target is the
StatefulSet. `gone` is history: the nodes given up because they did not answer
when they were to leave, which the evacuation cannot cover; a node leaves `gone`
when it answers at a later evacuation or joins again. `MaxCut` bounds the nodes that are
unreachable, and those that are being replaced, at a time.

`Membership` has two variables, the size of the StatefulSet and the voters, and three
actions: a node inside joins, the highest voter leaves (never the first), the
StatefulSet is resized around the voters. The refinement maps a missing
StatefulSet to one of size 1, because it goes missing only around a single voter
when the annotation is not touched. Both TLC (`scale_faults`) and TLAPS check it.

### Health

`Begin` reads the cluster from the informer's cache (`cached`), which hears of a write
at once or, under `"stale"`, later (`CacheSync`; `synced` says whether it is up to
date). A write that rests on an older copy is refused: the finalizer's Update is tried
again, a status write's error is dropped (`Accepted`, `WriteStatus`). `uncounted` is history:
the pods failed over whose count is not in the stored status. `Begin` also adds the finalizer, `Apply` stands for the steps that other modules
model (it fails, `ApplyFails`, or returns early, `ReturnEarly`), `Ask` and
`Answer` are the calls of `CollectMemberStatuses`, `AutoFailover` and
`NoFailover` are `handleAutoFailover` followed by `updateStatus`. The pause check
comes before the deletion check, as in the code. The only clock is the age of
each reading, which is all the code compares with the failover timeout. Between
the members and the failover `Manifest` asks one node after the other for its
files; `Gap` is the comparison, in Go's 32-bit arithmetic (`IntMax` scales the
width down), and so is the count of a manifest. A node that reports "warn" stands for
one that reports "fail" as well. Nodes lose files as one of the counted failures and catch up. Step 7 of
`Reconcile` (phase Scaling) cannot be reached, because `reconcileStatefulSet`
has just written `spec.replicas`, and has no action.

### Rendering

A version is its rank among the ones the compatibility matrix tells apart, a tag
is a version or one of the cases the parser treats on its own (none, `latest`,
none behind a registry's port, a local build). `renderConfigTOML`,
`BuildStatefulSet` and `BuildProxyDeployment` give records with the fields that
decide whether a pod restarts, comes up and understands what it loads; all other
settings are one value. A reconcile is `reconcileTLS` (with the read of the
cluster), `GetAuthSecret` and `reconcileAuthSecret`, `reconcileConfigMap`,
`reconcileStatefulSet` (with the Services), `reconcileProxyService`,
`reconcileProxy`, `Finish`; `Fail` and `ProxyFails` end or skip them. Two steps
that are one here touch objects nobody reads in between. A container loads the
mounted ConfigMap and its Secrets when it starts, under whatever template its
pod is of; `Live` is what its probes find. A pod has no address before its TLS Secret is
there, and with proxies the rolling restart waits for one without a time limit
(`HasIP`, `Replace`). An unset `spec.replicas` (`NoReplicas`) is defaulted, an explicit 0
refused. The user creates the auth Secret only when it is not there yet; one
applied over a Secret in use would change the token under running pods. The proxies are replaced when the new ones
are ready, as `maxUnavailable: 0` says. All clusters are taken to opt into
Parallel pod management, so that a change of the policy, which `ScaleDown`
models, does not come in; section 4 says what OrderedReady would do. `WithDefaults` stands for all sections of
`config.toml` that pass a value on or replace an unset one by a constant; it is mapped
to the first of them.

### SnapshotStore, Backup, Restore

A folder of the prefix is a time, and is `none`, `partial` or `complete`; the
upload container runs retention after it has uploaded, and goes on past a
removal that fails. `Backup`: the Job controller retries up
to `BackoffLimit`, jobs of a CronJob may overlap (`Crons` are the ones that can be under way
together), `status.failed` above zero is `failed`. `Restore`: `ScaleToZero`, `CreateJobs` (up to an error), `RestoreDone`
with `handleScaleUp`; each job picks the newest folder when it starts; a volume
holds the old data, a broken copy, or a backup. `beneath` are the databases that still ran
when a job replaced their files; they may write over the copy (`DatabaseWrites`). Any error in reading the cluster
or the backup makes the restore Failed for good.

## 3. Runs

| Run | Checks | Shows |
|---|---|---|
| `restart_quiet` | TypeOK, ReplacedOutOfRotation, RestartedOnce, RolloutFinishes | one edit at a time: every pod is out of rotation when it is replaced, restarts once, and the rollout ends although proxies may refuse calls for ever |
| `restart_faults` | PartitionGuards, ExclusionsAccountedFor | crashes, late reads and proxies that come and go expose no pod before its turn and leave no serving pod excluded unaccounted for |
| `restart_podfail` | UpdatedAbove, ReplacedInTurn | pods that fail at any moment come back on the right side of the partition |
| `scale_settled` | TypeOK, DeletedVolumesEmpty, OneAtATime, ScaleSettles | edits of the size and the policy, and an autoscaler, one after the other: nodes leave one at a time, deleted volumes are empty, and pods, voters and volumes end up as asked |
| `scale_faults` | VotersBelong, OutsideIsEmpty, LogNeverReverts, NoDataDestroyed, FormedMeansMembers, ImplementsMembership | two scalings, one after the other, between any sizes with crashes, reconciles that return for a rolling restart, unreachable nodes and pods replaced at any moment: no voter and no region outside the StatefulSet, no volume gone under a voter or with data on it (but that of a node that did not answer when it was to leave), no false report; `Membership` is implemented |
| `rendering` | TypeOK, StaleWillRestart, TokensAgree, PodsConverge, ProxiesConverge | upgrades, downgrades and other edits with errors, stale reads and restarts: no container stays on an old configuration unnoticed, the operator and each container have the token of the Secret that the cluster or their own template names, and pods and proxies converge to what their versions understand |
| `backup_kept` | TypeOK, CompletedIsStored, PhaseTellsOutcome | every fault at once: the phase ends up as the Job's outcome, and a whole backup is there when it is Completed, although jobs of the schedule upload and run retention meanwhile |
| `restore_paused` | TypeOK, RestoreEnds | on a paused cluster a restore ends |
| `restore_unpaused` | CompletedIsQuiet, CompletedMeansCopied | with a second writer, edits, uploads and every fault, Completed means copied, and without an edit that no job writes to a volume any more |
| `health_recovers` | StatusRecovers, ReplicationReported, DeletionEnds | errors, early returns, lost writes and edits are recovered from, and the replication state is that of the nodes again |
| `health_failover` | TypeOK, FailoversCounted | reconciles that last long, read a stale cache and lose writes take no failover out of the stored count |
| `health_never` (violation) | FailoverHappens | see below |

Each property of a passing run has a seeded fault, an operator defined right
before the definition it stands in for and marked "Seeded fault of", that TLC
finds with that property.

### Bounds, and why they are enough

- `MaxReplicas` 2 to 4: three pods are a highest, a middle and a lowest ordinal;
  with two there is one that is done and one that is to come. With three, two
  nodes can leave one after the other.
- Two proxies: one that has carried a call out and one that has not.
  None in `restart_podfail`, which is about the partition only.
- Two revisions: StatefulSet revisions are content hashes, so an edit gives a new
  one or the old one back. `MaxEdits` 2 or 3: an edit and one on top of it.
- `BackoffLimit` 0 or 1 for the code's 3 (backup) and 2 (restore): an attempt that is
  retried and one that is not. `MaxTime` bounds uploads, `Retention` 2 of 6 lets folders
  expire during a run.
- `MaxCut` 1: one node of three that is away, unreachable or replaced, leaves a majority;
  `Regions` 1: the evacuation treats them alike. `scale_faults` has two edits, from and to
  every size, `scale_settled` has three, one after the other; more edits, more nodes that are away
  at a time and, for VotersBelong, OutsideIsEmpty, FormedMeansMembers and `Membership`, edits
  at any time are covered by the theorems of section 5.
- The submissions of `MCRendering`: a supported version, one that is too old with newer
  proxies, a local build whose version only the annotation tells, a single node, other
  ports, both kinds of Secrets, and one that is refused. `MaxFaults` 1 and
  `MaxEdits` 2: one fault at any step of an edit and of one on top of it.
- `FileCounts` {0, 1, 3} with `IntMax` 31: one node Diverged, Lagging or in line, and no
  product wraps (section 4 has the case in which it does).
- `Timeout` 1 tick, two members and `MaxFailovers` 2: two pods can be down for failover,
  and one may be failed over again; an edit makes a write conflict.
- `Crons` has one job in the run next to the one-shot job, which is enough for two
  uploads and two retention runs to overlap; the theorem has any number.
- `MaxFails` and `MaxEdits` make the environment quiet in the end, which the
  liveness properties of the form `<>[]` need.

`CHECK_DEADLOCK FALSE` stands where the system may stop: a backup or restore
that has ended, a cluster that is gone.

### Fairness

- The work queue reconciles again after every error and requeue, and the manager
  resyncs: weak fairness of the operator's steps.
- API calls and status writes go through now and then if they are retried for
  ever: strong fairness of the steps that need them (`CleanUp`, `WriteStatus`,
  `RestoreDone`, ...). Proxy calls are exempt: `restart_quiet` lets them fail for ever.
- `Rendering`: faults are bounded, so weak fairness of the reconcile as a whole and of
  the controllers, the kubelet and the user who provides the Secrets he names is enough.
- `Health`: the same of the steps of reconciles whose copy is current: errors and losses do not
  for ever fall on just those; and the cache catches up.
- StatefulSet and Job controllers, kubelet, and nodes that start, evacuate or
  elect act in the end. Nothing makes a hung node recover, a pod fail or a job
  succeed without failing.

## 4. What the models show about the code

Kept as a run and recorded under `findings`:

- `health_never`: `CollectMemberStatuses` sets `LastTransitionTime` to the current
  time in every reconcile (`member.go:51`) and `handleAutoFailover` compares it in
  the same one. A hung member is failed over only in a reconcile that itself
  lasts as long as the timeout; a series of ordinary ones never does it.

The runs above are given the faults each property survives. These settings go
past that, and TLC then reports the property:

| Run | Change | Reported | What happens |
|---|---|---|---|
| `restart_quiet` | `Faults = {"midedit"}` | ReplacedOutOfRotation | a second template edit lets the StatefulSet controller replace pods above the partition that are back in rotation; `docs/compatibility.md:62` says a template change "no longer replaces pods by itself" |
| `restart_quiet` | add `"overlap"`, `MaxEdits = 3` | ReplacedOutOfRotation, RestartedOnce | a scale-down, a scale-up and a template edit follow each other while the pod still terminates: `rollingRestartExcluding` excludes it although it is going away, and it is created again on the old revision, back in rotation |
| `restart_quiet` | `Faults = {"crash"}` | RestartedOnce | the status write after `releaseOrdinal` is lost, the partition is raised again and the pod comes back on the old revision |
| `restart_quiet` | `Faults = {"midscale"}` | RolloutFinishes | `rollingRestartWaitingReady` waits for a pod that a scale-down has taken away |
| `restart_faults` | add `"podfail"` | ExclusionsAccountedFor | a pod that comes back by itself ends the update while it is excluded, and `ClearUnstarted` forgets it |
| `scale_faults` | `Faults = {"hpa"}` | VotersBelong, OutsideIsEmpty | the autoscaler shrinks the StatefulSet below voters and regions; the next reconcile takes it back |
| `scale_faults` | `Faults = {"policy", "midedit"}` | OutsideIsEmpty | `spec.replicas` shrinks while the StatefulSet is deleted to be recreated; the reconcile that creates it knows no previous size and skips evacuation and voters |
| `scale_settled` | `Faults = {}`, `Sharding = FALSE` | ScaleSettles | the change from several nodes to one recreates the StatefulSet, and the volumes of the others stay |
| `scale_settled` | `Faults = {"midedit"}` | DeletedVolumesEmpty | a node scaled up again before its pod is gone is re-admitted on a claim that is being deleted |
| `scale_faults` | `Faults = {"replaced", "midedit"}`, `MaxEdits = 2` | LogNeverReverts, NoDataDestroyed | such a node is a voter with regions again; the next replacement of its pod takes the claim along, and it comes back with an empty disk. `hyperbytedbcluster_controller.go:248` says "pods already terminated by StatefulSet" of the claims' deletion, line 1073 that openraft does not support the result |
| `scale_settled` | `Faults = {"replaced"}`, `MaxCut = 1` | DeletedVolumesEmpty | a departing node whose pod is replaced just when it is asked counts as gone, with its regions |
| `scale_settled` | `Faults = {"restarting"}` | ScaleSettles | the reconcile that shrinks returns for a rolling restart before `CleanupOrphanPVCs`, and no later one makes up for it |
| `restore_paused` | `Paused = FALSE` | RestoreEnds | nothing pauses the cluster: its reconciler sets the StatefulSet's replicas back (`hyperbytedbcluster_controller.go:524`), and `checkScaleDown` waits for ever; `README.md:141` speaks of "coordinating scale-down, data copy, and scale-up automatically" |
| `restore_paused` | `MaxEdits = 1` | RestoreEnds | `spec.replicas` grows, and a job that nobody creates is waited for |
| `restore_paused` | `Faults = {}`, check StartsRestored | StartsRestored | `checkScaleDown` looks at `ReadyReplicas` only (`hyperbytedbrestore_controller.go:151`), which is zero while pods still terminate: the database writes over the copy, and the next pod starts on it |
| `restore_unpaused` | CompletedIsQuiet without `edits = 0` | CompletedIsQuiet | `spec.replicas` shrinks during the restore, and the job of a volume that is no longer counted goes on after Completed |
| `rendering` | add `"takeback"` | StaleWillRestart | a container restarts on the new ConfigMap before its template changes, the edit is taken back (to a template or configuration still in use), and its pod is of the right template on the wrong configuration |
| `rendering` | drop `Aligned`, submit a cluster with a version in `spec.image` only | ProxiesConverge | the proxy's image is `latest` while the operator takes it for the database's version; `image.go:38` says the versions "stay aligned" |
| `rendering` | require every pod to be live in `Replace` (OrderedReady) | PodsConverge | a container that restarts between the ConfigMap and its own replacement loads a port or listener its probes do not fit, and holds up the rollout |
| `health_recovers` | `IntMax = 15` | ReplicationReported | `maxFiles*8` wraps (in the code from 268435456 files on), and a lagging node counts as Healthy |
| `health_failover` | `MaxFailovers = 1`, `MaxEdits = 0`, `Faults = {"slow", "stale"}`, check FailoversBounded | FailoversBounded | `Reconcile` reads the cluster before its last status write has reached the cache (`hyperbytedbcluster_controller.go:87`), does not see its own failover and makes another one; `hyperbytedbcluster_types.go:549` says "Maximum number of simultaneous failovers." `"lost"` alone does the same: the error of the write that counts is dropped (line 1858) |
| `rendering` | let `ProvideTLS` come only while the cluster names the Secret | PodsConverge | an edit takes the name of a missing TLS Secret back while a pod waits for it: the pod never gets an address, and `rollingRestartExcluding` waits for one |

StatusRecovers and DeletionEnds also hold with `"stale"` added to `health_recovers`
(one replica, one file count, three edits), which takes too long with two.

Also seen in the code while modelling: `failoverCount` is never reset although
`hyperbytedbcluster_types.go:747` speaks of the current generation; `handleAutoFailover`
passes over "Syncing" but not "syncing"; a backup whose schedule is emptied keeps
its CronJob; every restore job picks the newest folder itself.
An image behind a registry with a port and without a tag is used as it is, because it
has a ':' in it. The webhook's default for the retention interval is 60s,
`configmap.go`'s is 12h. A Secret that is deleted or edited is filled in again
without a restart of the pods, and a self-signed certificate is never renewed.
Disabling the proxy leaves its Deployment. The control listener's port is 65536 when
the server's is 65535. A change between one and two replicas changes
the pod template (preStop, affinity), although `configmap.go:43` says that scaling does
not recycle pods. With TLS the operator's client and the preStop hook go on
with http, so that no node answers them.

## 5. What is proved

Every safety property of section 3 is a theorem, for every value of the constants
that satisfies the modules' assumptions: any number of replicas, proxies, regions,
retries and edits, and any set of faults but for those a hypothesis excludes. The
hypotheses are the faults that break the property, as section 4 shows:

- `EditsWait` (`RollingRestart`): no edit before the one before it is rolled out.
  `Calm`: also no pod that fails by itself. `Quiet`: nothing but proxies that refuse
  calls, and edits wait for terminating pods, too.
- `OperatorDecides` (`ScaleDown`): no autoscaler and no change of the parallel-pods
  annotation. `OneEdit`: edits come one after another, and there is no autoscaler;
  crashes, rolling restarts, unreachable nodes and replaced pods remain. `OneByOne`: also
  all nodes answer and no pod that is to stay is deleted. `Together` is the
  evacuate-together annotation.
- `Rendering`: no edit is taken back.
- `Health`, `Backup` and `Restore` need none.

| Theorem | States |
|---|---|
| `RollingRestart_proofs!TypeCorrect` | `Spec => []TypeOK` |
| `RollingRestart_proofs!PartitionGuarded` | `Spec => []PartitionGuards` |
| `RollingRestart_proofs!PassedAreUpdated` | `EditsWait /\ Spec => []UpdatedAbove` |
| `RollingRestart_proofs!AlwaysReplacedInTurn` | `EditsWait /\ Spec => ReplacedInTurn` |
| `Rotation_proofs!ExclusionsAlwaysAccountedFor` | `Calm /\ "refuse" \notin Faults /\ Spec => []ExclusionsAccountedFor` |
| `Rotation_proofs!AlwaysOutOfRotation` | `Quiet /\ Spec => ReplacedOutOfRotation` |
| `Rotation_proofs!AlwaysRestartedOnce` | `Quiet /\ Spec => RestartedOnce` |
| `ScaleDown_proofs!TypeCorrect` | `Spec => []TypeOK` |
| `ScaleDown_proofs!VotersAlwaysBelong` | `OperatorDecides /\ Spec => []VotersBelong` |
| `ScaleDown_proofs!RefinesMembership` | `OperatorDecides /\ Spec => ImplementsMembership` |
| `ScaleDown_proofs!FormedWhenReported` | `OperatorDecides /\ Spec => FormedMeansMembers` |
| `ScaleDown_proofs!OutsideAlwaysEmpty` | `OperatorDecides /\ Spec => []OutsideIsEmpty` |
| `ScaleDown_proofs!DataNeverDestroyed` | `OperatorDecides /\ OneEdit /\ Spec => NoDataDestroyed` |
| `ScaleDown_proofs!LogsNeverRevert` | `OperatorDecides /\ OneEdit /\ Spec => LogNeverReverts` |
| `ScaleDown_proofs!DeletedAlwaysEmpty` | `OneByOne /\ Spec => []DeletedVolumesEmpty` |
| `ScaleDown_proofs!ToldOneAtATime` | `OneByOne /\ ~Together /\ Spec => OneAtATime` |
| `Rendering_proofs!TypeCorrect` | `Spec => []TypeOK` |
| `Rendering_proofs!TokensAlwaysAgree` | `Spec => []TokensAgree` |
| `Rendering_proofs!StaleAlwaysRestarts` | `Spec => []StaleWillRestart`, assuming `"takeback" \notin Faults` |
| `Health_proofs!TypeCorrect` | `Spec => []TypeOK` |
| `Health_proofs!FailoversAlwaysCounted` | `Spec => []FailoversCounted` |
| `Backup_proofs!TypeCorrect` | `Spec => []TypeOK` |
| `Backup_proofs!CompletedStored` | `Spec => []CompletedIsStored` |
| `Restore_proofs!TypeCorrect` | `Spec => []TypeOK` |
| `Restore_proofs!CopiedWhenCompleted` | `Spec => CompletedMeansCopied` |
| `Restore_proofs!CompletedAlwaysQuiet` | `Spec => []CompletedIsQuiet` |

Almost none of the properties is inductive: each speaks of the state that is stored,
while the next step is taken by a reconcile that acts on a copy, or completes what an
earlier step began. The invariants say what the copies and the halfway reconcile know.

- *PartitionGuarded.* The partition is written from the operator's copy of the
  restart, which may be old. `PartitionInv` ties the copies together: how the cached
  restart and the reconcile's copy relate to the stored one, and that a partition
  about to be stored or lowered belongs to an ordinal not above the stored restart's.
- *PassedAreUpdated, AlwaysReplacedInTurn.* `VersionInv`: at most two versions of the
  spec are about, and no restart begins before the last one is applied. `PassedInv`:
  the pods above the recorded ordinal, and above the one about to be recorded, run
  the template applied. `TurnInv`: between restarts nothing is replaced because the
  pods are pinned, or all have been replaced, or the rollout is over. The steps are
  first reduced to what they do to the fields in question (`StepShape`).
- *ExclusionsAlwaysAccountedFor.* `OrderInv`: the pods above the ordinal are up, the
  phases follow each other, no copy is more than one write behind, and a pod still to
  be excluded is below every partition a copy can produce. `FirstPod`: until its turn
  pod 0 keeps the update pending, so that a restart is not forgotten in the middle.
- *AlwaysOutOfRotation, AlwaysRestartedOnce.* With `OrderInv` the pod to be replaced
  is the one at the ordinal. `Stages` follows it: while it is drained it is up,
  pinned and excluded; once it is released the partition is at its ordinal, and it is
  excluded as long as it is the old pod. `NextStages` says the same of the state about to
  be stored, `Departures` that no pod terminates out of turn.
- *VotersAlwaysBelong.* The shrink uses what an earlier step of the reconcile did.
  `VotersInv` says for each step of the reconcile which voters are already out: in
  the loop all departing nodes not in `op.todo`, at the shrink all of them. It also says
  that the policy goes with the size, so that the StatefulSet is only recreated
  around a single voter.
- *RefinesMembership.* Each step of `ScaleDown` is a step of `Membership` or leaves its
  two variables alone. That the voter which leaves is the highest follows from `VotersInv`:
  the ones above it are out already; and that the first never leaves, from a
  reconcile's size being at least one.
- *FormedWhenReported.* The condition is concluded from views and written several
  steps later. `FormedInv` adds to `VotersInv` that the leader is a voter and that a
  conclusion once drawn stays true. That it is true when drawn is a counting argument:
  the leader lists at least as many members as are expected, and by VotersBelong all
  of them are expected ones.
- *OutsideAlwaysEmpty.* `DataInv` adds that a node which is done holds nothing, that the
  nodes a reconcile is about to leave outside are done or given up, and that voters run.
- *DataNeverDestroyed, LogsNeverRevert.* With pods that are replaced it is no longer enough that
  a voter's pod runs: its claim must not be one that is being deleted. `CarryInv`: with one
  edit after another a reconcile wants what the spec asks for or what the StatefulSet has
  (`WantsEither`), and a StatefulSet that is to grow has no pod left above it (`BareToGrow`).
  `Apart`: a node without a pod, or outside both what is wanted and what the StatefulSet has,
  cannot come back on its old volume. `DeletingReleased`, `ClaimInv`: a node whose claim is being
  deleted is such a node, is no voter, and has released its regions or was given up.
- *DeletedAlwaysEmpty, ToldOneAtATime.* `EditInv`: with the same `CarryInv`, nodes are told one
  after another from the top (`OneByOne`), every one that has gone or whose claim is being
  deleted has finished its departure (`DepartingDone`, `DeletingDone`), and one that has
  finished holds nothing (`DoneIsEmpty`).
- *TokensAlwaysAgree, StaleAlwaysRestarts.* `TokenInv`: what the reconcile and the
  containers hold is the Secret's, because a filled token is never replaced and a write needs
  the Secret to be as it was read. `RestartInv`: the ConfigMap goes before the template,
  and a container of a template whose configuration is there or is to come has loaded that one.
- *FailoversAlwaysCounted.* `CountInv`: a cache that is in sync has the stored cluster, a copy
  that a write will be accepted from has the stored count, or one more when its reconcile has
  made a failover (`CacheCurrent`, `CopyCurrent`, `VictimLast`).
- *CompletedStored.* `StoredInv`: whoever claims a success (a Job, the reconcile that has
  read it, the status) there is a whole folder, and one that is being uploaded is too young
  for any retention run.
- *CopiedWhenCompleted.* The step that stores Completed relies on what the
  previous one saw. `CopyInv` says that a job that has succeeded has overwritten
  its volume (volumes are never made old again) and that a reconcile about to
  store Completed looked at such jobs only.
- *CompletedAlwaysQuiet.* `DoneInv`: until an edit every reconcile looks at the same volumes,
  and whoever claims completion, the status or the reconcile about to store it, found all
  their jobs succeeded, which no step undoes.

The invariants were checked by TLC before they were proved. `SetLemmas` proves that a finite set of
numbers has a greatest element by a smallest counterexample, the induction over
sets being out of the prover's reach.

Three attempts failed and changed a model: `gone` in `ScaleDown` used to lose a node
that was given up when another edit came; `MayEdit` in `Rendering` kept edits from returning to a template
but not to a configuration still in use; and RestartedOnce turned out to rest on the
two edits of its run, which is why `"overlap"` is now a fault of its own and the
other two runs of `RollingRestart` have it.

Only model-checked: liveness (RolloutFinishes, ScaleSettles, PodsConverge,
ProxiesConverge, PhaseTellsOutcome, RestoreEnds, StatusRecovers,
ReplicationReported, DeletionEnds), because the prover has no fairness
and no `ENABLED`.

## 6. Faithfulness

`PROJECT.json` maps every definition that models code to its lines; the
StatefulSet, Job and CronJob controllers, the kubelet, the nodes, the proxies
and the user are external and modelled from how the code relies on them.
Abstractions are listed at the head of each module.

## 7. Plan

Modelled first, because the most can go wrong there: rolling restart, scale-down,
restore, backup, status and failover; then what scaling promises as an abstract
specification, the recreation of the StatefulSet, the autoscaler, replication
health, and everything from the submitted cluster to the pods that run. The
safety properties of all runs are proved. What is left:

1. ExclusionsAccountedFor with proxies that refuse for ever: which exclusions the
   operator gives up on, and that they end with the pod's address.
2. Safety lemmas towards the liveness properties: which step is enabled in each
   state of a rolling restart that is not over, as a state predicate without `ENABLED`.

## 8. What is not modelled

- The entry point (flags, leader election, wiring), API registration and
  generated copies: no state of their own; what they give the models is one
  reconcile at a time per object.
- The ServiceMonitor: written once, read by nobody here.
- Text: keys, labels, resources, volumes and scheduling that are passed on as they are,
  scripts' environment, events, log lines. `spec.databases` of backups and
  restores is not used by the code.
- The webhook's checks of a single field that no other part relies on (autoscaling,
  failover, TLS issuer, sharding thresholds).
- The client's calls that no reconciler makes (`JoinNode`, `GetClusterMetrics`, `DrainNode`).
- Certificates: that one is made is in `Rendering`, what is in it is not.
- Conditions that only repeat what was read.
- Voluntary evictions under the PodDisruptionBudget: `RollingRestart` has pods that
  fail at any moment, which is more.
