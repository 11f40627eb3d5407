# A TLA+ verification project for antrea-operator-for-kubernetes

The Antrea operator installs the Antrea CNI plugin on Kubernetes and OpenShift
and keeps the installation in step with a custom resource. This directory holds
TLA+ modules translated from its Go code, TLC configurations that model-check
them on small instances, and theorems about them checked by TLAPS.

    tlc -config K8sFaults.cfg MCInstallReconciler.tla     # one run
    tlc -config K8sWorkers.cfg MCOperator.tla             # both reconcilers
    tlapm OperatorProofs.tla                              # the proofs of one module

## 1. The system

The operator is one process with two controllers, each with one worker
goroutine and a work queue, and two objects they share.

| part | code | state it keeps | operations |
|---|---|---|---|
| configuration functions | `controllers/config/config.go` | none | fill defaults, validate, compare, build render data and the Network status |
| install reconciler | `controllers/antreainstall_controller.go` | `AppliedOperConfig`, `AppliedClusterConfig` | `Reconcile` per platform, `applyConfig`, `getAppliedOperConfig`, pod deletion, Network status |
| pod reconciler | `controllers/pod_controller.go` | none | update the status from the workloads, recreate a deleted workload |
| shared info | `controllers/sharedinfo/sharedinfo.go` | the rendered DaemonSet and Deployment, the platform; a mutex | written by the install reconciler, read by the pod reconciler |
| status manager | `controllers/statusmanager/status_manager.go` | failing levels, watched workloads, related objects; a mutex | `SetDegraded`, `SetNotDegraded`, `SetFromPods`, writing ClusterOperator and AntreaInstall status, deleting unrendered objects |
| pod status | `controllers/statusmanager/pod_status.go` | the last-seen workload states (an annotation, OpenShift only) | conditions from workloads, hung rollouts |
| process start | `main.go` | none | wait for the AntreaInstall, create everything above |
| manifest | `antrea-manifest/antrea.yml` | none | 39 objects; a ConfigMap, a Deployment and a DaemonSet embed the configuration |

How they interact: users write the AntreaInstall resource (and on OpenShift the
cluster Network and the operator Network). Informers queue a key; the install
reconciler reads the resources, completes the configuration, compares it with
the one applied before, renders the manifest, publishes the two workloads in
SharedInfo and the lists in StatusManager, applies the objects one by one,
deletes old pods when a text changed and no rollout replaces them, writes the
Network's status and remembers what it applied. The pod reconciler follows the
events of DaemonSets and Deployments: it reports their progress and recreates a
workload that was deleted. The lock of SharedInfo is held by the install
reconciler from the publication to the end of `applyConfig`, and by the pod
reconciler while it recreates a workload; StatusManager has its own, taken
inside the first.

What makes it hard:

- **ordering**: edits fall between any two API calls; two resources queue two
  keys, each with its own early return for "unchanged"; pods start at any
  moment and read the ConfigMap that exists then;
- **partial failure**: every object is applied by a call that may fail, and may
  have taken effect when it does;
- **restart**: all memory is lost; what was applied is reconstructed from the
  ConfigMap and the Deployment only;
- **stale memory**: decisions compare with the configuration of the last
  *successful* reconciliation, not with the cluster;
- **panics** on inputs the code does not expect (an empty service network, a
  `defaultMTU` that is not an integer), which crash the process;
- **concurrency** between the two workers, through SharedInfo, StatusManager
  and the cluster.

What must hold, per part:

- configuration: a completed configuration is valid; comparison misses no
  change of an embedded text; the filling of a copy is what is remembered;
- install reconciler: a worker at rest that reports no error has applied what
  users wrote; a failure or crash is retried or reported; pods run with the
  configuration of the cluster; the ConfigMap precedes what reads it;
- shared info: the published workloads are the applied ones;
- status manager: the conditions reflect the failing levels and the workloads;
  an error goes away with its cause; only unrendered objects are deleted;
- pod reconciler: a deleted workload comes back as last rendered, never as an
  older version, and the two locks never deadlock.

The full list of hazards, each at its line, is in `PROJECT.json`.

## 2. Modules

| module | models |
|---|---|
| `OperatorConfig` | the functions of `config.go` and the rendering, as operators on abstracted texts |
| `InstallReconciler` | the install reconciler on both platforms, its queue and its environment |
| `MCInstallReconciler` | sample configurations and networks, the sets the runs use |
| `InstallReconcilerProofs` | theorems about `InstallReconciler` |
| `FaultFreeProofs` | theorems about its behaviour until a call fails |
| `Operator` | the process: the install reconciler composed with the pod reconciler, the two locks, deletions of workloads |
| `WorkloadStore` | abstract: what the two reconcilers promise about the workloads; `Operator` implements it |
| `MCOperator` | the configurations of the run of `Operator` |
| `OperatorProofs` | theorems about `Operator`, the refinement of `WorkloadStore` among them |
| `EndToEndProofs` | theorems that tie the cluster to what users wrote, and requests to workloads |
| `StatusManager` | the status manager and the pod status, on both platforms, with the cached client and both kinds of callers |
| `MCStatusManager` | sample workload statuses and manifests |
| `StatusManagerProofs` | theorems about the cleanup of `StatusManager` |
| `StatusTypeProofs` | its types, and the copy of the conditions |
| `StatusWriteProofs` | theorems about what it writes, and that its operations end |
| `ConfigProofs` | theorems about the functions of `OperatorConfig` |

### OperatorConfig

A configuration text is a record of what the operator reads in it: whether it
parses, the options it looks at, and everything else as one value of
`Options`. The field `canonical` distinguishes a text that is a fixed point of
the rewriting on its way to the cluster from one that is not. It matters
because the operator compares strings: `fillAgentConfig` marshals the text again,
and a block literal of the manifest clips trailing newlines, so a text read back
from the ConfigMap can differ from the user's where nothing was changed.
`Absent` and `Malformed` stand for an option that is missing or of the wrong
YAML type. The functions that panic on an input have a companion (`FillPanics`,
`MTUPanics`) that says when.

### InstallReconciler

| variables | code |
|---|---|
| `cr`, `net`, `opNet` | the specs of the three resources users write |
| `objs`, `netStatus` | the objects the operator applies, the Network's status |
| `agentPods`, `controllerPods` | what the pods were started with; one representative node |
| `queue`, `pc`, `req`, `clus`, `opn`, `oper`, `change` | the work queue, the worker's next API call and the locals of `Reconcile` and `applyConfig` |
| `failing` | `StatusManager.failing`, as the set of levels that fail |
| `appliedCluster`, `appliedOper` | `r.AppliedClusterConfig`, `r.AppliedOperConfig` |
| `published` | the specs in SharedInfo |
| `edits`, `failures`, `restarts` | counters for the bounds only |

One action of the worker is one API call with the local computation that
follows: `GetNetwork`, `GetOperatorNetwork`, `GetInstall`, `Compare` (fill,
validate, read what was applied, compare), `Publish`, `Apply` (once per object, in the
manifest's order), `DeleteAgentPods`, `DeleteControllerPods`,
`UpdateNetworkStatus`, `Finish`. `PublishFails` stands for the three ways an
attempt ends before anything is published: the manifest cannot be rendered, it
lacks a workload, or the owner of an object cannot be set. Each early return and each error path is an
action of its own (`InstallUnchanged`, `RejectConfig`, `ApplyFails`, ...), which
reports the level the code reports and requeues the key or not as the code does.
A failed write may have taken effect. `Crash` and the two panics lose the memory
and the queue; `StartOperator` waits for the AntreaInstall, as `sharedinfo.New`
does, and the informers then deliver what exists. The environment edits or
deletes the resources, sends events without a change, and starts pods.

Simplifications: the 36 objects of the manifest that embed no configuration are
left out; `Compare` reads the ConfigMap and the Deployment in one step; an edit of `antreaPlatform` has no effect, as in the code, which reads it once;
the reads are of the API server and not of a cache (the reconciler uses the
cluster-network-operator's client); the status of a deleted Network cannot be
written, any other write succeeds or fails. `updateNetworkStatus` applies the whole
Network as it was read and the model writes its status only: what becomes of an edit made
in between is decided by the library, which is not in the repository. A YAML text
that is null, which leaves a nil map on which an assignment panics, is not among the texts.

### Operator

`Operator` EXTENDS `InstallReconciler` and adds the second worker.

| variables | code |
|---|---|
| `podQueue`, `podTimers` | the work queue of the pod reconciler, and the requests that wait for `ResyncPeriod` |
| `podPc`, `podReq`, `podSpec` | its next API call, its request, and `objectSpec`, the copy of the spec |
| `deletions` | counter for a bound only |

`PodDequeue` and `PodIgnore` are `isAntreaResource`, `PodReported` the end of
`SetFromPods`, `PodLock` the copy under the lock, `PodGetFound`,
`PodGetNotFound` and `PodGetFails` the outcomes of the lookup, `PodRecreate` and
`PodRecreateFails` those of the apply. A request that succeeds is repeated by
`PodTimer`. Every step of the install reconciler, of users and of the process is
joined with `PodFollows`: a change of a workload is an event for the pod worker,
and a crash ends both workers.

The two locks are not variables: who holds one follows from where the workers
are. The lock of SharedInfo is the install reconciler's from the publication to
the end of `applyConfig` (`InstallHoldsSharedInfo`) and the pod reconciler's from
`PodLock` to its return (`PodHoldsSharedInfo`); `SetFromPods` holds the mutex of
StatusManager (`PodHoldsStatus`), for which every reporting step of the install
reconciler waits. A `SetDegraded` inside a step takes and releases it at once.

Simplifications: a publication writes two pointers, and `isAntreaResource` may
read between the two; either answer is one it could have had before or after.
Pods do not start here, and users send no event without a change, since neither
relates to workloads; DaemonSets and Deployments of other names are dropped by
the first check. What `SetFromPods` writes is the matter of `StatusManager`.

### WorkloadStore

Two variables, the specs rendered last (`store`) and the workloads in the
cluster (`objs`). A writer writes what the store holds at that moment; users
delete; a process that dies forgets. `Operator` implements it with `store <-
published` and the two workloads of `objs`. This is what the lock is for: the
copy the pod reconciler took before its lookup, and the object the loop of
`applyConfig` has reached, must still be the latest when they are written.

### StatusManager

| variables | code |
|---|---|
| `co` | the ClusterOperator `antrea`: conditions, related objects, operator version, and the last-seen annotation |
| `install` | the conditions in the AntreaInstall's status |
| `existing` | the objects of the manifests in the cluster |
| `workload`, `event` | the DaemonSet and the Deployment as the informers show them; an event of one to handle |
| `coCache`, `synced` | the informer's copy that `client.Get` returns, and whether it is the latest |
| `version` | `version.GetVersion()`, with the objects `Manifest` renders for it |
| `failing`, `watched`, `related` | `status.failing`, `status.daemonSets` and `status.deployments`, `status.relatedObjects` |
| `applying` | the install reconciler is between the publication and the end of `applyConfig` |
| `pc`, `calls`, `round`, `pods` | the operation that holds the mutex: its next API call, the calls of `set` to come, the locals of `set` and of `SetFromPods` |
| `reports`, `changes`, `failures`, `restarts` | counters for the bounds only |

Every operation holds `status.Lock()` to its end, so the operations of the two
workers form one sequence, in any order; between the API calls of one the
cluster, the informer and time go on. `SetDegraded` and `SetNotDegraded` make
one call of `set`; `SetFromPods` clears `PodDeployment`, patches the annotation,
reports the workloads, and sets or clears `RolloutHung`. A call of `StatusOc.set`
is a round of `set` (the read), one `DeleteRelated` per object that is listed
and no longer rendered, then `OperatorUnchanged`, `CreateOperator`,
`UpdateOperator` or `Conflict` (which starts another round), and
`SetInstallStatus`. On Kubernetes `StatusK8s.set` reads the AntreaInstall and
replaces its conditions. Each API call has a failing twin, which may have taken
effect. `SetRendered` and `ApplyRendered` are the install reconciler's part;
`SetRenderedFails` is a publication during which `RESTMapping` fails for some of
the objects in `Unmapped`, which are applied and not listed.
`Restart` may start the next version.

A condition is abstracted to what it tells: `degraded` to the level whose error
it shows, `progressing` to the workloads it names, `available` to its status. A
time is an age in ticks up to one more than `ProgressTimeout`.

Simplifications: Upgradeable, which is always the same, and the transition
times are left out; so is the operator's check for equal conditions on
Kubernetes, which compares against an empty list. A created ClusterOperator has
no status, since the status is a subresource. Only reads of the ClusterOperator
are cached: the status manager reads the AntreaInstall and the workloads
without relating them to its own writes. `SetFromPods` runs after an event, on
any cached state, or after the resync period, when the cache has caught up. The
order of the related objects is ignored. `SetDaemonSets`, `SetDeployments` and
`SetRelatedObjects` follow one another without an API call and are one step.
One operator process runs at a time (leader election).

## 3. Runs

| run | shows | bounds |
|---|---|---|
| `K8sFaults` | `TypeOK`, `QuiescentAgreement`, `CrashSafeObjects`, `ConfigMapComesFirst`, `EditsAreHandled` (fair) | 2 edits among 3 configurations, one invalid, and deletion; 1 failed call; 1 crash |
| `OcEdits` | nothing fails: `ClusterMatchesApplied`, `EditsAreApplied`, `PodsPickUpChanges`, `NetworkStatusCurrent`, `SharedInfoIsCurrent` | 3 edits among 3 configurations of one image, 3 networks, single and dual stack, and 2 operator networks |
| `OcFaults` | `QuiescentAgreement`, `InvalidConfigStaysReported` (fair) | 2 edits or deletions of 3 resources; an unparsable text, a quoted MTU, a network without ranges; 1 failed call |
| `K8sWorkers` | the refinement `StoreSpec`, `PodTypeOK`, `WorkloadsAreLatest`, `ClusterIsAsWritten`, `ResyncIsKept`, `DeletionIsKept`, `DeletedComesBack`, `StatusIsFollowed` (fair) | 1 edit between 2 configurations that differ in both workloads; 1 deleted workload, 1 failed call, 1 crash, any two of them together |
| `StatusOc` | `TypeOK`, `InstallFollowsOperator`, `RelatedUntilGone`, `RenderedIsKept`, `DegradedIsCurrent`, `InstallCopiesOperator`, `OperationsGoForward`, `LeftoversAreDeleted`, `DegradedIsReported` (fair) | 2 versions with 4 objects, one a namespace, one of each whose lookup may fail; 2 reports; 2 attempts; 1 failed call; 1 crash or upgrade |
| `StatusRollout` | `InstallFollowsOperator`, `VersionIsEarned`, `RolloutIsReported`, `HungIsDetected` (fair) | one DaemonSet, one Deployment, 2 changes of their status or replaced AntreaInstalls; 1 attempt; the timeout is shorter than a tick |

Why the bounds are enough: the worker's decisions compare one new configuration
with one remembered or read back, so a hazard needs an edit to create the
difference, one to change it while it is handled, and at most one more to revert
it; a failure or crash acts on one reconciliation. The runs that are violated
need at most three edits and one fault. For the status manager, the second
version has an object the first has not, one in common and two to clean up, of
which one is a namespace; two attempts are the least with a retry (the code
makes four); two changes of a workload give each a rollout, or one a rollout and
its end. For the two workers, a race over a workload needs a deletion, which
makes the pod reconciler write, and an edit, which gives it something older to
write; a failure or a crash falls on either. The theorems of section 5 remove the
bounds for every safety property, under the hypotheses stated there. Deadlock is checked except where users may delete the
AntreaInstall for good before the operator starts, where the operator really
waits forever, and in the status manager's runs, where nothing happens until the
objects are published.

Fairness (`FairSpec`): the process is restarted when it is down (Kubernetes restarts
the operator's pod), the worker makes its next step, and the queue, being first
in first out, starves no key: dequeuing a key is strongly fair, since the worker is busy between
two dequeues. Users, failures, crashes and pods have no fairness.
For the status manager, an operation goes on to its end (`WF(Step)`), the
informer delivers and time passes; `SetFromPods` is strongly fair, since the
pod reconciler calls it again after `ResyncPeriod` and Go's mutex lets no waiter starve. Calls of
the install reconciler have no fairness.
For the two workers (`OperatorFairness`) the steps of each are strongly fair:
a worker that waits for a lock is enabled only between two holdings of the
other, and Go's mutex passes the lock to a waiter that has starved for a
millisecond. Queued keys are strongly fair as above, and a pending timer ends.
Without a deadlock check (a process that restarted with nothing to apply really
waits), it is `DeletedComesBack` and `StatusIsFollowed` that show that the two
locks never block both workers. A cache that never caught up would
keep the annotation from converging, which is why `WF(Deliver)` is needed.

### Findings

Each of these runs checks one property that a document or comment of the
repository promises, and TLC refutes it. All are behaviours of the code.

| run | what happens |
|---|---|
| `K8sHalfInstalled` | A first installation fails after the Deployment and before the DaemonSet. The retry reads the applied configuration back from the ConfigMap and the Deployment, finds no change, clears Degraded, and the DaemonSet is never created. |
| `K8sRestartPods` | The pods are deleted only if `AppliedOperConfig` is set. An edit made around a restart is written to the ConfigMap and the pods keep the old one. |
| `K8sReverted` | An edit is applied in part, then reverted. The CR equals the remembered configuration again and the objects of the edit stay. |
| `K8sStuckDegraded` | An edit is rejected and reverted (nothing is deleted in this run). The request returns early as unchanged and Degraded is not cleared. |
| `OcLostEdit` | The AntreaInstall is edited while the Network is missing; the request is dropped. The Network comes back unchanged, which returns early before the AntreaInstall is read. |
| `StatusK8sConditions` | Each call of `StatusK8s.set` starts from an empty list of conditions. The last call of `SetFromPods` removes Progressing and Available again. |

Other behaviours met while modelling, without a statement of the repository
that they contradict:

- an image and a text change, then the image changes back before the rollout:
  no change deletes the pods and there is nothing left to roll out;
- an operator that restarts with nothing to apply fills neither SharedInfo nor
  the lists of the status manager, and follows no workload until the next change;
  for the same reason an upgrade with an unchanged configuration applies nothing;
- a process that is killed between the Deployment and the DaemonSet leaves a DaemonSet that
  is missing or has the old image: the next one reads the Deployment back, finds
  nothing to apply, and the DaemonSet stays as it is until the next change;
- objects that a version applied without living to list them in the ClusterOperator are unknown
  to later versions and stay;
- a change from a list of ranges that repeats one to another of the same length is not seen
  (`<<A, A>>` compares equal to `<<A, B>>`), and the Network's status keeps the old one;
- an object that could not be deleted goes back to the list and counts as
  rendered: it is not tried again before the next publication;
- a rendered object whose kind could not be looked up is left out of the list,
  and deleted as if it were not rendered: `RenderedIsKept` has to except it
  (antreainstall_controller.go:445-449 goes on after the error);
- after a failed patch of the AntreaInstall, or a crash before it, its conditions
  stay old on OpenShift, since the next `set` finds the ClusterOperator equal and
  returns; `InstallFollowsOperator` excepts both;
- a failed recreation reports Degraded at the level of the install reconciler,
  and nothing but the install reconciler's next success clears it, also when the
  retry has brought the workload back;
- a Network whose host prefixes change keeps the old ones in its status, since only
  the ranges are compared (`HasClusterNetworkConfigChange`);
- the AntreaInstall is patched with the difference to a cached copy, so that a
  stale copy that equals the new conditions would make an empty patch; the transition
  times make equal lists rare, and it is not modelled;
- Available never returns to False, a workload that is absent is never hung, and
  Kubernetes, which keeps no annotation, reports no hung rollout.

## 4. Properties of the passing runs

`QuiescentAgreement` is the core: if the worker has nothing to do and reports no
error, what it remembers is what users wrote. `ClusterMatchesApplied` is the
other half: what it remembers is what the cluster holds. Together they give
"the cluster has what users asked for"; the second fails when calls fail
(`K8sReverted`), and `CrashSafeObjects` is the part that survives crashes.
`EditsAreApplied` drops the excuse of a reported error, and holds when nothing fails and no
resource is missing. `PodsPickUpChanges` says that a running pod with the current image has
the current texts (a rollout is still to come otherwise). `ConfigMapComesFirst`
is an action property: templates change and pods are deleted only after the new
ConfigMap is in place. `NetworkStatusCurrent` and `SharedInfoIsCurrent` tie the
two other outputs to the inputs; the first compares sets of ranges, where the
code compares lists from one side. `EditsAreHandled` and
`InvalidConfigStaysReported` are the liveness half: nothing that stays is
forgotten, and nothing invalid looks accepted.

`StoreSpec` is the refinement: the pod reconciler and the install reconciler,
with a lock that one holds across a loop of API calls and the other across a
lookup and a write, behave like one writer that always has the latest spec.
It is lost if either side holds the lock for less (the mutants release it after
the lookup, or publish without it). `WorkloadsAreLatest` is what follows for a
cluster at rest, where a missing workload would count too, and `DeletedComesBack`
and `StatusIsFollowed` are its progress: a deleted workload comes back through
failed calls and edits, and the chain of resyncs never ends. `ResyncIsKept` and
`DeletionIsKept` are the safety halves of these two, which no bound limits: a
workload that exists, or that was published and is missing, is always in one of
the places the pod reconciler takes its requests from. `ResyncIsKept` is about the
first process: a later one drops the workloads it learns of before it publishes.
`ClusterIsAsWritten` joins both reconcilers and the cluster: at rest and without a
failed call, the ConfigMap and the workloads are rendered from one configuration,
which is what users wrote, as it is (found unchanged) or completed. It excepts
what a crash really breaks: a process with nothing to apply publishes nothing,
recreates no workload that is missing, and, if an earlier process was killed before it
reached the DaemonSet, leaves that with the old image. `PodTypeOK` contains that a request
taken without the lock finds a published spec when it uses one.

`RelatedUntilGone` is the status manager's safety property. The list in the
ClusterOperator is the only memory of what an older version created, so an
object may leave it only when it is gone, through stale reads, conflicts,
failures and restarts. `RenderedIsKept` is the other direction: the cleanup, which
compares lists of different versions read from a cache, deletes nothing of the
running version. `LeftoversAreDeleted` is the progress that goes with both: the list ends up
right, and an object that was ever listed and is not rendered any more ends up deleted.
`InstallFollowsOperator` relates the two places where the conditions are shown, through
rollouts, conflicts and stale reads (in `StatusRollout`) and reports of levels (in `StatusOc`);
it excepts a failed call, the end of the process, and an AntreaInstall that users have created
again, which shows nothing until conditions change.
`DegradedIsCurrent`, `VersionIsEarned` and `InstallCopiesOperator` are about
single writes: a `set` writes the whole list of conditions from an older read, and still what changes in it
is what is true at that moment: the level, a version only with a complete
rollout, and in the AntreaInstall what the ClusterOperator holds.
`OperationsGoForward` is the safety half of the mutex being released: every step
of an operation comes closer to its end in the order of `Forward` (calls left,
attempts, place, objects to delete), and no step of the informer, of users or
of the other actors turns it back.
`DegradedIsReported` and `RolloutIsReported` say that what users see converges
to the memory and to the workloads, and the version to the operator's, although single writes are refused, skipped
because the cached copy is equal, or based on old state. `HungIsDetected` says
that a rollout that stands still is found, and only that, although the times of
its last change live in an annotation read from a cache.
The environment's changes are bounded, so that each behaviour ends quietly and "converges"
is a matter of the operator alone.

## 5. Proofs

`InstallReconcilerProofs` proves, for every platform, all sets of configurations
and networks and every bound, from `ConfigAssumption`, `InstallAssumption` and
`NilAssumption` (values are distinct, `Nil` is no configuration, pod, workload or status, and the
sets are of the right kind):

- `TypeCorrect`: `Spec => []TypeOK`. The domains are images of the functions of
  `OperatorConfig`, so this says that `oper` is a completed configuration where
  the code relies on it. `TypeInv` strengthens it with what the worker holds at each
  step (`LocalsOK`).
- `Agreement`: `Spec => []QuiescentAgreement`. The property speaks of a worker
  at rest and is not inductive. `AgreementInv` adds `FreshInstall` and
  `FreshNetwork` (the worker's copies are current unless an event is queued) and
  `InstallAgreed` and `NetworkAgreed` (an edit not yet remembered is in the
  queue, in the request being handled, or in a reported error).
- `ConfigMapFirst`: `Spec => ConfigMapComesFirst`, from `ConfigMapInv`: between
  the ConfigMap's step and the end of `applyConfig`, the cluster's ConfigMap is the rendered one.
- `CrashSafety`: if no Network is deleted, `Spec => []CrashSafeObjects`, from
  `CrashInv`: what is remembered, or read back after a crash, renders to what the
  cluster holds. It rests on `ReadBackMatches` and `EmbedIdempotent` (a text read
  back is embedded unchanged) and `NoChangeIsSame` (no change means equal).
  Deletions are excluded because the status of a Network that is gone cannot be written: the attempt
  fails after the objects were applied, and is not a failed call.
- `FilledIsValid`: a configuration that `FillConfigs` completes passes
  `ValidateConfig`.

`FaultFreeProofs` goes on from there to what holds until a call fails, for any
number of edits between any two API calls:

- `SharedInfoCurrent`: `SharedInfoIsCurrent`, from `SharedMatches`: the published
  workloads are in the cluster, or `applyConfig` has still to reach them.
- `ClusterCurrent`: `ClusterMatchesApplied`, if no Network is deleted and the
  process has not crashed, from `CrashInv` and `DaemonSetFollows`. A crash between the
  Deployment and the DaemonSet leaves the second behind for good, since it is not
  among what is read back (`K8sHalfInstalled` is the same with a failed call).
- `EditsApplied`: `EditsAreApplied`, if nothing is deleted, from `InstallKept` and
  `NetworkKept`: what is not remembered is queued or in the request being handled.
  `OcLostEdit` shows that a deletion breaks it.
- `NetworkStatusFollows`: `NetworkStatusCurrent`, if no Network is deleted and none
  repeats a range (`NoRangeRepeated`), from `StatusFollows`. `stringSliceEqual` is not
  symmetric, but it is transitive (`EqualTransitive`), and a chain of statuses that were not
  written again is a chain of such comparisons. At its end the status has the ranges of
  the Network, no more and no fewer, by `OneSideIsEnough` of `ConfigProofs`, since the status
  repeats none. With repeated ranges the property does not hold.
- `PodsCurrent`: `PodsPickUpChanges`, with one image, no input that panics, no
  crash, and no Network deleted, from `PodsFollow`: a running pod has the texts
  of the ConfigMap, or `applyConfig` has its deletion ahead. For that the change
  it computed must be the one from what it remembers (`ChangeKnown`), and before the first
  installation there must be nothing to delete (`FirstInstallation`); a process
  that has lost its memory deletes nothing (`K8sRestartPods`).

`OperatorProofs` proves, for every platform, all sets of configurations and
networks and every bound, from the assumptions above, `WorkloadAssumption` (`Nil`
is not the name of a workload) and `DisturbanceAssumption` (bounds are numbers):

- `StoreImplemented`: `OperatorSpec => StoreSpec`, the refinement: `StoreStep`
  maps every step to a step of `WorkloadStore` or a stutter. It needs
  `OperatorInv`: `PodCarries` (while the pod reconciler holds the lock, its copy
  is what is published) and `InstallCarries` (while the install reconciler
  applies, what it renders is what is published). Each survives the other
  worker's steps because of the lock, and its own because it writes nothing else.
- `LatestWorkloads`: `OperatorSpec => []WorkloadsAreLatest`, from `LatestInv`:
  each workload is the published one, or missing with an event for it in the
  pod reconciler, or its turn in `applyConfig` is still to come.
- `OperatorTypeCorrect` and `OperatorAgreement` carry `TypeOK` and
  `QuiescentAgreement` over to the composition. `StepKinds` splits its steps into
  those of the install reconciler alone, for which the lemmas of
  `InstallReconcilerProofs` hold, and those of the pod reconciler and of users
  on workloads.
- `PodTypeCorrect`: `OperatorSpec => []PodTypeOK`.

`EndToEndProofs` goes on from these, under the same assumptions:

- `EndToEnd`: `OperatorSpec => []ClusterIsAsWritten`, if no Network is deleted. It
  joins `Agreement` (what is remembered is what users wrote) and `LatestWorkloads`
  (the workloads are those published) through `WrittenInv`: until a call fails,
  the remembered configuration is in the ConfigMap and the Deployment, the
  configuration being applied is in each object already reached, and what was
  published comes from the same configuration (`OneConfiguration`). Until a process is killed the
  DaemonSet has the image of that configuration too (`DaemonSetKnown`; after a panic, which
  forgets the configuration, the one of the Deployment). `CrashSafety`
  is not enough: it says nothing of what is published. A deletion of the Network
  is excluded as in `CrashSafety`.
- `ResyncKept`: `OperatorSpec => []ResyncIsKept`, if no input panics (a panic ends the process
  like a crash, without being counted as one). `ResyncInv` adds that before the first
  publication no workload exists, so that no event is ever dropped.
- `DeletionsKept`: `OperatorSpec => DeletionIsKept`, step by step (`DeletionStep`), from
  `OperatorInv`, `PodTypeOK` and `LatestInv`.

`StatusManagerProofs` proves, for every sequence of manifests, both platforms,
any workloads and every bound, without an assumption on the constants:

- `NothingForgotten`: `Spec => RelatedUntilGone`. The action property follows
  from `RelatedInv`: `PublishedInv` (while objects are applied, the published
  list has them, so none comes into being that a round is about to drop),
  `RoundInv` (before the write, what the round read is still what is there if
  the write can succeed, and what it is going to drop is still to be deleted,
  deleted or a namespace), `CacheInv` (a delivered copy is the ClusterOperator)
  and `ShapeInv` (the records have the fields that are replaced in them). A
  failed lookup is counted by `FailuresCount`.
- `RenderedKept`: `Spec => RenderedIsKept`. Only a round of the cleanup deletes
  (`OnlyCleanupDeletes`), and `PendingInv` says that what it is going to delete is
  not on the list of rendered objects, which lacks an object of the running
  version only after a failure.

`StatusTypeProofs` proves, from `StatusAssumption` and `NilAssumption` of
`StatusManager` (`Nil` is neither a list of conditions nor a ClusterOperator):

- `StatusTypeCorrect`: `Spec => []TypeOK`. `RoundOK` strengthens it: a round that
  may write has found a ClusterOperator that is still there, and one that has
  objects to delete has a list to put them back on.
- `CopyIsCurrent`: `Spec => []InstallFollowsOperator`, from `CopyFollows`: until a call fails
  or the process ends, the two places differ only between the two writes of one call of `set`,
  or where users have created the AntreaInstall again and nothing was written to it.

`StatusWriteProofs` proves, from the same assumptions, which also say that `Nil` is
neither the empty set nor `"True"` (the values a condition that is set may have), four action properties of
`Spec` from one invariant, `WriteInv`:

- `AttemptInv`: from the read of an attempt to its write, what was read is what is
  there if the write can succeed, and what `set` adds is true of the memory, which
  the mutex protects. `CopyInv`: what is to be copied is what was written.
  `BetweenInv`: between attempts none counts, and `SetFromPods` has reached the version
  only if nothing progresses.
- `DegradedCurrent`, `VersionEarned` and `InstallCopies` follow with `OnlySetWrites`
  and `OnlyCopyWrites`: no other step changes the conditions or the version.
- `OperationsForward`: `Spec => OperationsGoForward`, with `StepForward` for the
  steps of an operation and `OthersPause` for all others.

`ConfigProofs` proves, from `ConfigAssumption` alone:

- `OneSideIsEnough` and `NoRangeIsMissed`: `stringSliceEqual` looks from one list
  into the other only. With equal lengths that is a comparison of the elements
  if the first list repeats nothing (an injection between finite sets of one size
  is a surjection), and of nothing otherwise: `<<A, A>>` is found equal to `<<A, B>>`.
- `RestartSeesOnlyLayout`: what is read back after a restart differs from
  what was rendered exactly in the texts that are not canonical. So a restarted
  operator rolls nothing out for an unedited AntreaInstall on OpenShift other than for
  the layout of the CNI text, and on Kubernetes also for that of the
  controller's, which is not completed there.
- `FillingTwice`: on Kubernetes, completing is idempotent. (On OpenShift it is not:
  the cluster's ranges are appended again, which is why the code fills a copy read anew.)
- `ControllerFollowsTheCluster`: which ranges and prefixes a completed controller text
  takes, from `FirstOfFinds` (the search finds the first range of a family).

Only model-checked are the liveness properties, which are outside the prover's
reach (fairness and ENABLED). Of the functions of `OperatorConfig`, the list of cluster ranges
that `fillControllerConfig` appends to is not proved about: it is built with
`SelectSeq`, which the library defines by recursion.

## 6. Not modelled, and why

- **All of StatusManager next to both reconcilers in one module**: `Operator`
  has its mutex and failing levels, `StatusManager` its calls with both
  reconcilers as callers; the product of the two is out of TLC's reach.
- **Process start**: flags, leader election, scheme registration and the manager
  are library code. What matters, waiting for the AntreaInstall and empty memory, is
  `StartOperator` and `Crash`.
- **Owner references**: on OpenShift the objects are owned by the cluster Network,
  and are collected by Kubernetes when it is deleted. No code of the operator
  runs for it, and the garbage collector is not modelled.
- **The other 36 objects of the manifest**: they embed no configuration and are
  applied in the same loop. `StatusManager` has objects without content.
- **YAML text**: the parser and the printer are abstracted to whether a text parses, what the
  operator reads in it, and whether it is its own canonical form.
- **Build files, bundle, generated deep copies, version**: no behaviour at run
  time.

## 7. What is left

1. Liveness beyond the bounds of the runs. `ResyncKept`, `DeletionsKept` and
   `OperationsForward` are the safety facts it would rest on.
2. What holds after failed calls: the theorems about the cluster assume that no call
   has failed, since the findings show that retries can be taken for complete. A
   statement that says which objects may then be old would be sharper than none.

An abstract specification of the install reconciler alone, in which the cluster
takes the latest valid configuration, would say no more than `EndToEnd` and `EditsApplied` do.
An invariant that the two locks exclude each other would hold by the way the
model derives their holders; `StoreImplemented` and the two liveness properties
are what they are for.
