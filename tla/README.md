# varnish-operator: a verification project

TLA+ modules of the two programs of this repository, the operator (`cmd/varnish-operator`,
`pkg/varnishcluster`) and the controller that runs in every Varnish pod
(`cmd/varnish-controller`, `pkg/varnishcontroller`), the TLC configurations that check them
on small instances, and theorems that TLAPS proves for every instance.

`PROJECT.json` lists the components, the hazards, the runs, what each definition translates
("map"), the mutants each property was seen to catch, the findings and the theorems.

To check: `tlc -config <run>.cfg <MC module>` for a run (which module goes with which
configuration is in `PROJECT.json`), `tlapm <module>` for proofs.

## The system

### Parts, state, operations

| Part | State it keeps | Operations |
| --- | --- | --- |
| Varnish controller, one per pod (`pkg/varnishcontroller/controller`) | files in `/etc/varnish` (a volume), the VCLs of varnishd, the gauge of compilation errors, two annotations of its pod | one `Reconcile`: read the ConfigMap, resolve templates, write files, `vcl.load`, `vcl.use`, `vcl.list`, `vcl.discard`, annotate |
| varnishadm wrapper | none | `Ping`, `Reload`, `List`, `Discard`, `GetActiveConfigurationName` |
| start of the controller (`cmd/varnish-controller`, `Ping`) | a goroutine and a deadline | wait for varnishd, then start the manager and fill its caches |
| predicates of the controller | namespaces and selector of the backends, written by each pass | decide which events queue a request |
| endpoints (`endpoints.go`) | none | backends, their order, their weights by zone, the port number |
| Operator: reconcile loop (`varnishcluster_controller.go`) | none of its own; informers' caches | `Reconcile` of a VarnishCluster that exists, is being deleted, or is gone |
| Operator: finalizers, cluster role and binding, ServiceMonitor, dashboard | finalizers in the VarnishCluster, objects without an owner | add, remove; create, move, delete |
| Operator: timers (`reconcile_triggerer.go`) | the timetable, running timers and their goroutines, a mutex | `TriggerAfter`, `Stop`, `TimerExists`, the callback |
| Operator: delayed rolling update | none (the timer stands for it) | delete one outdated pod, or wait |
| Operator: ConfigMap and VCL status | status of the VarnishCluster | version of the ConfigMap, pods that report it and pods that do not |
| Operator: owned resources (StatefulSet, services, budget, roles, secret, ConfigMap) | the objects | get, compare, create, update, delete and create anew |
| Operator: varnishd arguments (`varnishcluster_varnish_args.go`) | none | parse, drop, override, sort |
| API: webhooks, defaults (`api/v1alpha1`) | the stored VarnishCluster | validate and default on admission, default in every pass |

### How they interact

The two programs talk only through the Kubernetes API. The user writes the VarnishCluster
and the VCL ConfigMap (the operator creates a default one). The operator creates the
StatefulSet whose pods run varnishd and the controller. The controller reads the
VarnishCluster, the ConfigMap and the backend pods, and reports in annotations of its own
pod, which the operator sums up in the status. Controller and varnishd share a volume and
the commands of varnishadm. Inside the operator the timers' goroutines call back into the
work queue through a channel.

Each program reconciles with one worker, so passes do not overlap; what overlaps with a pass
is everything else: users, informers that catch up late, kubelets, the StatefulSet
controller, the garbage collector, timers, restarts, and calls that fail or succeed without
an answer. Of the calls that succeed without an answer those are modelled of their own where
the pass would have gone on to do something only it knows of: a VCL that is loaded, used or
annotated (`VarnishController`), a pod that is deleted (`DelayedRollingUpdate`). Elsewhere the
retry reads the outcome, and the call is one that succeeds before the next one fails.

### What makes it correct

* VCL delivery: a name or an annotation never lies; what a pod serves does not go back; the
  newest VCL that compiles arrives; VCLs do not pile up.
* Backends: at rest, what was rendered is what the present pods and spec ask for, although
  predicates filter events and are rewritten meanwhile; the result does not depend on the
  order of a list; weights do what zones and thresholds promise.
* Timers: an existing timer does what the pass that relies on it believes; no timer of a
  strategy that is no longer used goes on.
* Rolling update: one pod at a time, a pause in between, and in the end every pod; within
  the conditions under which the code gives it.
* Finalizers: what Kubernetes does not collect is collected, and the VarnishCluster can
  always be deleted.
* Owned resources: at rest every object is as the VarnishCluster asks; what users put into
  objects they may fill in is not overwritten; the operator comes to rest.
* Status: at rest it is true, and its own updates do not keep it from resting.
* Admission: the options the operator needs reach varnishd whatever was submitted, their
  order restarts nothing, and what was validated is safe to work with.

## Modules

### `VCLDelivery` and `VarnishController`

`VCLDelivery` is what a Varnish pod promises: versions of the ConfigMap are published,
served and reported in order. `VarnishController` is the controller of one pod, and
implements it (`InOrder`). The backends are one value here; where it comes from is
`Backends`.

| Code | Model |
| --- | --- |
| `Reconcile`, `reconcileWithContext` | `Start`, then one action per call that leaves the process: `ReadConfigMap`, `RenderFiles`, `WriteFile`, `GetActive`, `Load`/`CompilationFails`/`LoadRefused`, `Use`, `ListVCLs`, `Discard`, `CleanedUp`, `Annotate`; `pc` is the call that comes next |
| an error, or a conflict | `Abort`: the pass ends, the request is queued again |
| `reconcileFiles` | `diffFiles` decides once, `WriteFile` writes or removes one file at a time in any order (a Go map) |
| `filesTouched`, `configName == "boot"` | `touched`, `needsReload` |
| the VCL name `v-<resourceVersion>-<seconds>` | a record of the version and the second; `Tick` lets a second pass once the present one has been used |
| `reconcilePod` | `annotatedVersion`; the pod is re-read by an update with its resource version, so a stale one is a conflict and a retry |
| ConfigMap in the informer's cache | `seen`; no event handler watches ConfigMaps, so `CacheSync` queues nothing |
| backend pods, templates | `eps`, and a rendered template depends on it |
| what fails | `CallFails` (anywhere), `WriteTorn` (`os.WriteFile` truncates first), `LoadTimesOut`, `UseTimesOut`, `AnnotateTimesOut` (done, but not answered), `DiscardFails`, `VarnishStops`, `Restart` |

A content of a file is a model value; whether VCC accepts it is the set `Broken`, whether it
is a template that parses the set `Unparsable`. `owed` is a history variable: a reload is
still owed.

### `BackendEndpoints` and `Backends`

`BackendEndpoints` is `endpoints.go` as operators: pods that are listed become backends,
once per container with a matching port, sorted by address, weighted by zone. A backend is
the pair of its pod's place in the list and its container's place in the pod; the loop that
collects them and the stable sort are the order `sortedBefore` on the set of these pairs, a
backend's place in the result the number of those that are not after it. The loop over the
sorted thresholds is likewise the set of thresholds it gets past. Both are without recursion,
so they can be reasoned about. A weight is a fraction; thresholds compare without division.
`Backends` is what decides when the backends are computed.

| Code | Model |
| --- | --- |
| `Ping`, `main` | `StartProcess`, `PingAnswered` (the goroutine), `PingTimesOut`, `StartManager` (an event for every pod the cache finds) |
| `NamespacesMatcherPredicate`, `LabelMatcherPredicate` | `predNs`, `predLabel`; `allow`, `selects`, `LabelMatcherUpdate`, and `letThrough`, which composes them |
| the informer's goroutine calls the predicates | `DeliverEvent`; while a pass is between reading the spec and having written the predicates, either answer is possible |
| `reconcileWithContext` up to the rendered backends | `StartPass`, `SetPredicates`, `ListAndRender`; the rest of a pass is `VarnishController` |
| an error | `PassFails`: the request is queued again |

Pods are created, get an address, change readiness, are evicted (lose the address), are
relabelled and deleted. `renderedFor` (the spec and the pods the last rendering saw) and
`relabelled` are history. Zones are those of nodes, which do not change; the own node
decides which of the two zone labels is read of all.

### `ReconcileTriggerer`

The timetable with its three kinds of process: the worker, the goroutine of each timer, the
runtime. `TriggerAfter` is two steps, `Arm` (time.AfterFunc) and `Insert` (under the mutex),
`Stop` three (`StopReads` takes no mutex), the callback three. The read races with the
callback's delete: its outcome is the old value, the new one, or the death of the process
("concurrent map read and map write", `RaceKills`). Only one key is in use
("DelayedRollingUpdate"), so a timetable entry is a timer. Two assumptions are constants, so
that a run can drop them: `Delays` (a timer armed with time left does not go off before the
insertion that follows at once; "now" is a duration that is over already) and
`PromptCallbacks` (a goroutine whose timer went off gets the mutex before the next pass
starts). The rolling update is reduced to the calls it makes.

### `DelayedRollingUpdate`

The whole function over pods, with the StatefulSet controller, kubelets and a clock. A pass
reads the VarnishCluster and the StatefulSet at its start (`seen`), the pods when it
decides, and deletes in a later step. The status may lag behind (`MaxLag`), a pod takes up
to `MaxEnding` ticks to terminate and is counted as ready meanwhile, time may pass during a
pass (`SlowPasses`). The timer is one number, justified by `ReconcileTriggerer` under its
assumptions.

| Code | Model |
| --- | --- |
| `r.List` with the labels of the VarnishCluster, "No pods found" | `Listed`: the pods carry the labels of the StatefulSet's first template (`varnishcluster_statefulset.go:314`), so after `EditLabels` none is found until the labels are changed back (`selected`) |
| the checks up to line 57, the nil StartTime of line 71 | `MayUpdate`, `NothingToDo`, `Panic` |
| `r.Delete`, then `TriggerAfter` | `DeletePod`, `Arm` |
| `r.Delete` returns an error (lines 88-90, 100-102) | without effect: `PodGone`, `CallFails`; although it was executed: `DeletionLost`. Either way the pass ends without a timer and the request is queued again |
| the pod is not due yet | `WaitLonger` |
| another strategy | `StopTimer` |
| events nothing here causes, calls of the same pass in other modules | `OtherRequest`, `CallFails` at the start of a pass |

The list of pods is assumed to be no older than the status the pass works with: the status is
written after the pods and arrives by another watch. The StatefulSet controller creates
missing pods, all at once (Parallel, `varnishcluster_statefulset.go:75`), before it writes the
status. `slipped`
is history: since the last deletion something has taken the timer away that guards its pause
(its answer was lost, the strategy was changed, the operator was restarted).

### `Finalizers`

One VarnishCluster, its ClusterRole and binding, its ServiceMonitor and its dashboard in
each namespace. A pass is a sequence of API calls on the copy (`instance`) it read from the
cache; updates of the VarnishCluster are refused when it has changed (`rv`). Cluster-role
creation is reduced to existence.

| Code | Model |
| --- | --- |
| typed reads: VarnishCluster, ClusterRole, binding, dashboards (ConfigMaps) come from informers | `cache`, `shown`; they catch up by `CacheSync` and `FollowUp`. An object that is created but exists, or deleted but does not, is an error that ends the pass |
| unstructured reads: ServiceMonitors come from the API server | `Seen`, which is `objects` for them and `shown` for dashboards |
| `List`, then `Delete` one by one | `CleanNotNeeded`, which puts what was listed into `todo`, and `Remove` |
| `Get`, then `Create` or `Update` | `Apply` |
| watches | `Watched`, `Event`: the four kinds the operator watches, of ConfigMaps and ServiceMonitors only those it owns. A dashboard in another namespace has no owner, and queues nothing |
| the finalizers' clean-up | `DeleteRole` ... `DropMonitor`, `DeleteDashboard` |

Both kinds of object share these operators; where they differ (the REST mapper knows
ServiceMonitors or not) the kind is tested. `FollowUp` lets the dashboards of different
namespaces arrive in any order, which is more than an informer does. ServiceMonitors and
dashboards are listed by labels that include those of the VarnishCluster; these do not
change here. `missed` is history: the pass has read dashboards when the informer was behind.

### `OwnedResources`

The ten objects the operator keeps in the namespace of the VarnishCluster. A pass goes
through `Order`, the order of `reconcileWithContext`; at each kind exactly one of
`CreateObject`, `LeaveObject`, `UpdateObject`, `DeleteBudget` and `ConfigMapNotOurs` is
possible. `desired` is what the code builds, one operator per kind (`statefulSetOf`,
`serviceOf`, ...), `upToDate` the comparison (`compare` package, or what the function does
instead), `sent` what `Update` is called with, and `refused` the API server's refusal of
immutable fields. Only the shape of the objects is kept: labels, the part of the spec, the
labels pods are selected by, claim templates, owner.

Reads come from a cache that is behind on the kinds in `behind`; `events` are those of them
whose owner the event leads to. An update of an object that changed since is a conflict, an
error ends the pass (`EndPass`), a crash ends the process (`Crash`). Others delete objects,
change their labels or content, or bring a Secret or ConfigMap of their own. `FinishPass` is
the status update, whose event queues another pass. `Watched` are the kinds with a watch: a
Secret or budget somebody changes is not noticed until something else happens, and `seen` is
the history that says of which this may be expected.

### `VCLStatus`

The part of a pass that computes `status.vcl`: `ReadConfigMap`, `CountPods`, `UpdateStatus`.
A pass counts pods against the version in the status it *began* with; the update's own event
starts the pass that puts it right. What pods report comes from `VarnishController` (by
`InOrder` it never goes back, which is the guard of `Report`); the informers of the three
kinds follow one by one. The pods are listed by the labels of the VarnishCluster and carry
those of the StatefulSet's first template: after `EditLabels` none is counted until the
labels are changed back (`selected`).

### `Admission`

From a submission to the arguments of varnishd. `Submit` is the two webhooks (or none of
them: the operator can be deployed without, `Deploy`), `Reconcile` the defaults of a pass
and `getSanitizedVarnishArgs`. Arguments are sequences of words; `argumentOf` says for each
word where its argument starts. The two parsers differ in what they take for a key: the
expression of the operator is a raw string with a doubled backslash and matches none.
`sortedChunks` gives each argument its place in the order of the joined words. `options` is
varnishd's own reading of what it gets. `checked` is history: the stored spec passed the
webhooks.

### How the modules fit together

What one module abstracts, another one shows. `Backends` shows that a pass with the present
backends comes, `VarnishController` what a pass does with them. `VarnishController`
implements `VCLDelivery`, which is what `VCLStatus` assumes of pods. `ReconcileTriggerer`
shows what `DelayedRollingUpdate` assumes of its timer. `OwnedResources` keeps the
StatefulSet whose controller, pods and status `DelayedRollingUpdate` models, and
`Finalizers` what has no owner.

## Runs

`expect: pass`

| Run | Instance | Shows |
| --- | --- | --- |
| `vc_safety` | two files, one of them a template; 3 versions of 3 kinds (good, without template, does not compile); 1 change of the backends, 2 faults, seconds 0..2 | the safety of VCL delivery and the refinement of `VCLDelivery` |
| `vc_liveness` | 2 versions of all 6 kinds, 1 fault, seconds 0..4 | the newest version is reported, and served if no reload is lost |
| `backends` | 3 pods in 2 namespaces and 2 zones, 3 specs, 5 starts (own node in either zone, with either label or none), 2 changes, 1 fault | at rest the backends are current, in a stable order, with the weights zones and thresholds ask for; the controller comes to rest |
| `timer` | 2 VarnishClusters of 2 pods, 2 timers, a change of strategy or a new revision, a pass that is too early, a restart | existing timers fire, no timer is left hanging, every pod is reached |
| `rollout` | 3 pods, 3 revisions, delay 3, lag and termination 1, quick passes, labels changed and changed back, a call that fails without effect | one pod down at a time, warm-up |
| `rollout_late` | 2 pods, 2 revisions, delay 1, lag and termination 1, slow passes, a change of strategy, labels changed and changed back, a restart, a deletion whose answer is lost | the pause; every pod is updated and ready in the end, once strategy and labels let it |
| `finalizers` | two namespaces and one that does not exist; three pairs of placements at first, a change to any other place, a stripping of finalizers, a fault, the removal of Prometheus, informers that are behind | objects follow the spec and are covered by finalizers; no role, binding or ServiceMonitor is left; in the end objects are where they should be and deletion ends |
| `owned` | 10 kinds, 2 changes, of the VarnishCluster or of an object of 5 kinds, the cache behind on one kind, 1 fault | at rest objects are as desired; users' data is kept; the operator comes to rest |
| `vclstatus` | 2 pods, 2 versions, a pod that comes or goes, labels changed and changed back, 1 fault | the status at rest is true, and rest is reached, if the labels select the pods |
| `admission` | all arguments of up to two options of 4 keys and 2 values, a flag, a value without key; strategies, delays, thresholds, ports at their boundaries; 2 submissions, 2 deployments | the operator's options hold; order restarts nothing; what was checked is sane |

`expect: violation`: `vc_applied` and `owned_labels` are disagreements of the code with a
sentence of the documentation, see Findings.

Bounds. Every bounded counter is a constant named `Max...`.

* Delivery: `MaxVersion`, `MaxMoves`, `MaxFaults`, `MaxNow`. The interesting cases need two
  versions and one in flight (three), a fault and a fault in its retry (two), and two
  reloads within a second and one in the next.
* Backends: `MaxEvents = 2`, `MaxChanges = 2`, `MaxFaults = 1`. Two changes make an event
  that is overtaken by a change of spec, or a second one of the same pod; the events of a
  start are on top of it. Three pods make a zone with one backend and one with two, and a
  zone that loses its last one.
* Timers need two timers of one cluster (a late callback and its successor) and a second
  cluster, whose entries they must not touch.
* A rolling update needs a pod done, one in hand and one to come (three); a second revision
  while the first is rolled out makes it three revisions. For the pause and for
  getting through, a deletion and the next one are enough (two pods), and a delay of one
  tick, with a status as late as that. A lost answer and a restart (`MaxLosses`,
  `MaxRestarts`) may come in either order, two changes of labels (`MaxRelabels`) are there
  and back.
* Finalizers need an edit that comes anywhere in a pass and a fault anywhere, with every
  place once for either kind of object; what is left out, a namespace that is the own one by
  name, ends as another one does (an object without owner). `SomePairs` are the pairs of
  places the run starts from. The proofs have all of them.
* Owned resources: `MaxChanges = 2` is an edit of the spec while somebody tampers with what
  it affects, `MaxLag = 1` (kinds the cache is behind on when a pass looks at an object) a
  stale read of any one kind, `MaxFaults = 1` a failing call or a crash anywhere. `Touched`
  is one kind of each sort: Role (made from names), Secret and PodDisruptionBudget (not
  watched), StatefulSet (immutable fields), ConfigMap (users' data). The proofs need none of
  these bounds.
* Status: two passes put a version right, and a second version may be published between them.
  The proof needs no bound.
* Admission: two submissions, to compare their arguments, and webhooks that are turned off
  and on between them.

A mutant of the code breaks each property within these bounds.

Conditions of `rollout`. Each of its properties depends on Delay being longer than
`MaxEnding + MaxLag`, on quick passes and on no restart, change of strategy or deletion that
is executed without an answer (`MaxLosses`): with any of them relaxed TLC finds a second
pod down. What needs no bound on times is the pause (`rollout_late`), until one of the last
three takes the timer away.

Conditions on labels. Pods keep the labels they were created with. `RolloutCompletes` and
`StatusSettles` ask that the labels of the VarnishCluster select the pods in the end,
`RestIsTrue` that they do at rest; with that taken out TLC finds them violated. In
`Finalizers` the labels do not change: ServiceMonitors and dashboards with the old labels
would not be listed (varnishcluster_servicemonitor.go:132,
varnishcluster_grafana_dashboard.go:124), though one in the place the spec asks for is found
by its name and gets the new ones.

What the runs assume away. `ExistingTimerFires` says nothing of a timer that is over before
it is inserted (`Delays`), `NoHangingTimers` nothing of a callback that is
late by a pass (`PromptCallbacks`); `ReloadOnlyWhenOwed` nothing of entries that are neither
.vcl nor .tmpl; `NothingLeft` nothing of ServiceMonitors after an edit of the spec;
`CoveredByFinalizers` nothing of what happens once the VarnishCluster is being deleted. The
rolling update of `ReconcileTriggerer` always gets an answer to its deletions;
`DelayedRollingUpdate` has the others.

Conditions of `timer`. With `PromptCallbacks = FALSE` TLC finds `NoHangingTimers` violated:
a goroutine that gets the mutex only after another pass has replaced its timer deletes the
entry of the new one, which Stop then does not find. With "now" in `Delays` it finds
`ExistingTimerFires` violated.

Fairness. A process that can go on goes on: the worker, timers' goroutines, informers,
kubelets, the StatefulSet controller, the garbage collector, the clock. In
`VarnishController` and `Finalizers` a VarnishCluster event comes again and again because
informers resync (10 hours by default in controller-runtime); the other modules do not need
that, and show what holds without it. The start
of a pass of a given cluster and the mutex are strongly fair (the work queue is FIFO; a
waiting goroutine of a Go mutex is not starved). In `Backends` the kubelet starts a process
that has ended and varnishd starts some time. Users, faults and other events are not fair.

`CHECK_DEADLOCK FALSE` is set where the system comes to rest with nothing left to do once no
change may come any more: the runs of `Finalizers` and `VCLStatus`, `backends`, `owned`,
`owned_labels`. The other runs check for deadlock.

## Findings

| Run | What the code does | What is said |
| --- | --- | --- |
| `vc_applied` | a reload lost between the files and `vcl.use` is not made up for: the retry finds equal files (controller.go:227) | docs/vcl-configuration.md:5 |
| `owned_labels` | once the labels of a VarnishCluster change, its services select pods by the new ones, while the StatefulSet and its pods keep those they were created with (varnishcluster_service.go:84, varnishcluster_statefulset.go:313) | docs/varnish-cluster.md:32 |

Others are modelled and written into the conditions of properties; each shows when the
condition is taken out.

* `EventuallyServed`: the pass after a failed compilation reports the version that did not
  compile; the annotation names a version that is not served
  (docs/vcl-configuration.md:185).
* `ReloadOnlyWhenOwed`: the runs' files all end in .vcl. An entry that is neither *.vcl nor
  *.tmpl is "new" in every pass, because only .vcl files are read back
  (controller_files.go:22), and every pass compiles and loads.
* The gauge of compilation errors is 0 after a restart though the last compilation failed
  (docs/monitoring.md:54).
* `ExistingTimerFires`: a timer that is over at once leaves an entry no callback removes,
  and the rolling update waits until a change of strategy or a restart
  (reconcile_triggerer.go:31; see `Delays`).
* `OneDownAtATime` with `MaxLosses = 1`, `PauseBetweenUpdates` without `~slipped`: an error
  of `r.Delete` returns before `TriggerAfter`, also if the pod was deleted
  (varnishcluster_delayed_rollingupdate.go:88-93, 100-108). The retry has no timer and, while
  the status is late, deletes a second pod (docs/varnish-cluster.md:81). So it does with a
  delay shorter than termination and status take, and after a restart.
* `RolloutCompletes` without `selected`: after a change of labels the rolling update ends at
  "No pods found" (varnishcluster_delayed_rollingupdate.go:39), though
  docs/varnish-cluster.md:77 has it work as `RollingUpdate` does.
* `RestIsTrue` and `StatusSettles` without `selected`: after a change of labels the status
  rests at "0 latest / 0 outdated" (varnishcluster_configmap.go:91-93,
  docs/varnish-cluster.md:41). Both are the mechanism of `owned_labels`.
* `SpecFollowed` without `~missed`: dashboards are listed from an informer that may not have
  the last one yet; in another namespace its arrival queues nothing, so it stays until
  something else starts a pass, at the latest a resync
  (varnishcluster_grafana_dashboard.go:124, 142, against its comment at line 95).
* `NothingLeft` leaves out dashboards: in another namespace they are never covered by a
  finalizer of their own (the constant finalizerGrafanaDashboard is not used,
  varnishcluster_finalizers.go:48), and the last finalizer goes before they are deleted
  (line 91). A call that fails then leaves them, and so does a read from an informer that
  does not have them yet, taken for "gone" (line 166). Without `edits = 0`, objects in
  the previous namespace are left if the deletion comes before the next pass.
* `DeletionCompletes` without `~installed`: deletion blocks once the ServiceMonitor kind is
  gone and the operator has restarted, because deleteServiceMonitor takes only NotFound as
  "gone".
* `RestIsDesired`: a headless service that was changed is never repaired, because the update
  sends the object that was found (varnishcluster_headless_service.go:79), against
  docs/varnish-cluster.md:69. A Secret or a budget that was changed is repaired only when
  something else causes a pass.
* `ComesToRest`: a ConfigMap another controller owns, or claim templates that differ from
  those of the StatefulSet, make every pass fail before it reaches the services (`Blocked`).
* `SettledIsCurrent`: no predicate notices a backend pod that is relabelled, nor one that
  loses its address while it is not ready (`relabelled`, last disjunct).
* `TightestThreshold`: backends on nodes of unknown zone do not count in the ratio, but get
  the remote weight. A spec of type thresholds without any threshold, which the webhook lets
  through, has equal weights (endpoints.go:71).
* `NoHotspot` and `TightestThreshold`: a pod with two containers of a matching port is two
  backends of one address, which the ratio counts twice (`OnePortEach`).
* `OurOptionsHold` and `OrderRestartsNothing`: for arguments that are options with values
  only (`paired`). The expression of varnish_args.go:13 takes no word for a key, so the words
  are paired up whatever they are, and `-d -T x` passes -T as the "value" of -d. The
  webhook's expression is another one, and refuses other specs.
* `CheckedIsSane`: only for specs that the webhooks saw; a spec stored while they were off
  stays as it is.

Met while reading, and not modelled: docs/varnish-cluster.md:79 says the delay is counted
from the creation of a pod; the code counts from StartTime, when the kubelet has
acknowledged it. An update of a ServiceMonitor does not set owner references, so one created
for a spec that names the VarnishCluster's namespace never gets one
(varnishcluster_finalizers.go:81 assumes it); the updates of other objects do not restore
one somebody removed either. With a numeric backend port an unnamed container port matches
whatever its number, and the port of the last pod listed is taken for all
(endpoints.go:155): `BackendEndpoints` says so, and the run's pods name their ports and
agree, as `RenderingIsStable` fails otherwise. An image name with a registry port is split
at the wrong colon (varnishcluster_statefulset.go:343).

## Proofs

`VarnishControllerProofs` proves, for every set of files, bodies, endpoints and every bound
(from `FilesAssumption` and `BoundsAssumption` only), all that the run `vc_safety` checks:

* `TypeCorrect`: `Spec => []TypeOK`
* `NamesAreTrue`: `Spec => []NameTellsTheTruth`
* `ReportsAreOnVolume`: `Spec => ReportedIsOnVolume`
* `ServesInOrder`: `Spec => InOrder`, the refinement of `VCLDelivery`
* `LeftoversAreBounded`: `Spec => []LeftoversAreFaults`
* `SettledPodsServe`: `Spec => []SettledServesLatest`
* `ReloadsAreOwed`: `VclFiles = Files => (Spec => ReloadOnlyWhenOwed)`, where the hypothesis
  says that every entry of a ConfigMap is a .vcl file or a template; without it the property
  is false (see Findings)

The argument is one inductive invariant, `IInv == TypeOK /\ PassInv /\ OrderInv /\
NameTellsTheTruth`. A name is true because the files on the volume are those of the version
in the name when `vcl.load` compiles them; that is a fact about the middle of a pass, so
`PassInv` says what a pass has established at each `pc`: which version and backends it read,
and that all files outside `todo` are already as they should be. Order needs that neither
the annotation nor the active VCL is newer than the version a pass works with; both come
from versions the cache has held (`seen`), and the cache only advances (`OrderInv`). Each
action has a lemma; an action of the detailed specification maps to `Publish`, `Serve`,
`Report`, `Forget` or a stutter.

The last three need more (`ServingInv`). `OwedInv` is what makes a reload come: a pass that
touched a file has either left the volume unlike what varnishd knows, so that a reload is
`owed`, or has the file that makes it so still to write. `ServedInv` turns that round: while
nothing is owed varnishd runs what is on the volume, if that compiles. `PresentInv` adds
that a pass nothing has happened to since it read has the present backends. `LeftoversInv`
counts: one VCL for each fault, and for a moment the one being loaded or replaced.

`ReconcileTriggererProofs` proves, for every set of clusters and timers and every bound,
from `TimersAssumption`, `BoundsAssumption` and `Paced` (the two assumptions on time under
which the run `timer` checks the first two; without them those are false):

* `ExistingTimers`: `Spec => []ExistingTimerFires`
* `NoneHanging`: `Spec => []NoHangingTimers`
* `TypeCorrect`: `Spec => []TypeOK`

The inductive invariant, `IInv` of `ReconcileTriggerer`, says what ties a timer to its
entry. A timer that runs has its entry, or is in the hands of the worker that is about to
insert it. One that went off has it too, or nothing has it (`TimerInv`): this is what keeps
a late goroutine from deleting the entry of a successor, and where `PromptCallbacks` is
needed. `WorkerInv` says that a pass that goes on to delete a pod found no entry,
`StrategyInv` that an entry left for a cluster with another strategy is about to be stopped,
or deleted by its own goroutine (the read of Stop that races with it has then seen none).
Each part has a lemma with a case for each action.

`OwnedResourcesProofs` proves, for all labels, specs, budgets, claim templates and every
bound (from `ClustersAssumption`, `ValuesAssumption` and `BoundsAssumption`):

* `TypeCorrect`: `Spec => []TypeOK`
* `UsersKeepTheirData`: `Spec => UsersDataKept`
* `ObjectsAreDesiredAtRest`: `Spec => []RestIsDesired`

Three invariants build on each other. `CacheInv`: what is not behind is as in the cache,
what is behind without an event is not ours before and after, and every object has the shape
its kind has (a Role's content is never a budget's). This is what makes a conflict catch
every stale write, hence `UsersDataKept`. `RestInv`: during a pass either another request is
queued or the pass works with the present VarnishCluster (`InstInv`), and every kind it has
`passed` is as desired, or a request is queued, or an event about it is on its way
(`WatchedInv`); a kind without watch is so while it is in `seen` (`SeenInv`). At rest
nothing is queued or on its way, and the pass has passed every kind. Two lemmas about the
kinds carry it: what `Update` sends is up to date (`sent` against `upToDate`), and what is
up to date fits.

`VCLStatusProofs` proves, for every finite set of pods and every bound (from
`PodsAssumption` and `BoundsAssumption`):

* `TypeCorrect`: `Spec => []TypeOK`, where the status never counts more pods than there are
* `StatusIsTrueAtRest`: `Spec => []RestIsTrue`

`PassInv` says that as long as no request is queued, what a pass has put into `new` so far is
what its step makes of the present cache, and between passes the status in the cache is true
of the rest of the cache, or it is a status the cache has still to see replaced: the cache
moves only with a request. The pass that wrote a new
status is followed by the event of its own update, so rest is reached only by a pass that
changed nothing, and that one counted against the very version it found.

`AdmissionProofs` proves, for all words, all submissions the CRD's schema lets through and
any number of them (from `SubmissionsAssumption`; `WordsAssumption`, that words are different
and options are words; `OwnWordsAssumption`, that the operator's own words are among them and
that varnishd reads -F without a value and the others with one):

* `CheckedStaysSane`: `Spec => []CheckedIsSane`
* `OurOptionsAreRead`: `Spec => []OurOptionsHold`
* `OrderDoesNotMatter`: `Spec => OrderRestartsNothing`

For the first: no default replaces a value that the webhooks looked at (`DefaultsAreSane`),
and `CheckedInv` says that what is checked is a submission that was valid in the form it was
stored in.

The other two are about what parsing, sorting and concatenating do to lists of any length.
Induction being out of reach, they argue by the least counterexample (`Least`): only one set
of places can be where arguments start (`StartsAt`), so a set that satisfies the parser's
equation is the one it finds (`EverySecond` for the operator, `OptionsAt` for varnishd); and
what `FlattenSeq` returns has the arguments one behind the other (`AllLaid`), so that
varnishd reads back exactly those that were put down (`ReadBack`), as long as flags and only
flags stand without a value. Sorting counts, for each argument, those not behind it in a
total order (`BeforeOrders`), which numbers them (`Places`, `Sorted`); arguments that are
equal share a block of numbers, so two lists with the same arguments, each as often, are
sorted into the same list (`SortedSame`). `AppliedInv` ties what was applied to the
arguments of its spec.

`FinalizersProofs` proves, for all namespaces, all placements of both kinds of object and
every bound (from `NamespacesAssumption`, `BoundsAssumption` and `NoClusterAssumption`, that
"there is no VarnishCluster" is not one), all that the run `finalizers` checks but for
liveness:

* `TypeCorrect`: `Spec => []TypeOK`
* `FinalizersCover`: `Spec => []CoveredByFinalizers`
* `NothingIsLeft`: `Spec => []NothingLeft`
* `SpecIsFollowed`: `Spec => []SpecFollowed`

`CoveredByFinalizers` is not inductive. It needs `VersionInv`, that cache and pass are
behind the API server in the order of resource versions, for a pass to be refused when it
works with a copy that is late; and `FinalizerInv`, that a pass that creates objects has the
finalizers they need *in its copy*, and that no clean-up has started, so that what the copy
has the server has. `MonitorInv` follows a ServiceMonitor without owner to the finalizer that
guards it, up to the very call that drops it. `LostInv` is the other way an object goes: a
VarnishCluster whose going the cache has seen still has a request waiting, or the pass it
led to, and that pass has not yet come to what is left; informers that are behind make that
"or an informer has still to show it". `CurrentInv` and `PlacedInv` say how far a pass with
nothing waiting has put the objects where they belong, the dashboards as long as it has not
read them late.

`DelayedRollingUpdateProofs` proves, for every finite set of pods, every delay and every
bound (from `PodsAssumption` and `BoundsAssumption`, with at least one revision):

* `TypeCorrect`: `Spec => []TypeOK`
* `PauseIsKept`: `Spec => PauseBetweenUpdates`
* `OneIsDown`: `Prompt => (Spec => [](Undisturbed => OneDownAtATime))`
* `PodsWarmUp`: `Prompt /\ MaxEdits = 0 /\ MaxRestarts = 0 /\ MaxLosses = 0 => (Spec => WarmUp)`

`Prompt` is what `rollout` sets and `rollout_late` drops: `MaxEnding + MaxLag < Delay`, and no
time passes during a pass. `Undisturbed` is that so far the strategy has not been changed, the
operator not restarted, and no deletion executed without an answer; calls that fail without
effect and changes of labels do not matter. The pause needs only `PauseInv`: unless one of
these three has come since the last deletion, the timer covers what is left of the delay,
except between a deletion and the call that arms it.
That at most one pod is down does not follow from the state the operator sees, which is
late, but from time: `LateInv` dates everything that may still be late (a pod that ends, one
that is gone, one that is not ready or newer than the status shows) by the last deletion, so
that past `MaxEnding + MaxLag` the status tells the truth; `SeenInv` carries that truth
through the pass that goes on to delete.

`BackendsProofs` proves, for every finite set of pods with any containers, any namespaces,
zones, specs and every bound (from `PodsAssumption`, `AddressesAssumption`,
`SpecsAssumption` and `BoundsAssumption`: pods have lists of containers, addresses are
pods' own, thresholds are finitely many integers), all that the run `backends` checks but
for liveness:

* `TypeCorrect`: `Spec => []TypeOK`
* `QuietIsCurrent`: `Spec => []SettledIsCurrent`
* `RenderingIsOrderless`: `PortsAgree => (Spec => []RenderingIsStable)`
* `EveryBackendHasWeight`: `WeightsAsValidated => (Spec => []NoBackendWithoutWeight)`
* `WeightsFollowThresholds`:
  `OnePortEach => (Spec => [](currentZone(own) # NoZone => TightestThreshold))`
* `LossIsNoHotspot`: `OnePortEach => (Spec => NoHotspot)`

The hypotheses are about what users give: `PortsAgree`, a port asked for by name has one
number in all pods; `OnePortEach`, a pod has one container with it; `WeightsAsValidated`, the
webhook's check of thresholds. The run's pods and specs satisfy all three. Two invariants. `IInv`
is about control: a pass that no request is queued behind works with the present spec and has
set the predicates to it before it lists (`PassInv`), and at rest every pod is as it was when
it was listed, or relabelled since, or announced by an event that the present predicates let
through (`QuietInv`). `RenderInv` says that
what is rendered is `getBackendEndpoints` of what it was rendered for, in some order of the
pods. The rest is about `BackendEndpoints`: counting the elements not after one in a total
order of a finite set numbers it (`Places`), so the order the cache lists pods in disappears
from the result (`OneRendering`); the threshold the loop stops at is the one the
documentation describes (`Chosen`, from the least element of a finite set, `Least`); and what
the code counts among list entries is what the properties count among pods (`SameCounts`),
which makes the ratio positive and monotone (`RatioIsPositive`, `AutoWeight`,
`FewerWeighLess`).

Only model-checked: everything about liveness (beyond the prover, as are fairness and
ENABLED): `EventuallyReported`, `EventuallyServed`, `RolloutCompletes`, `DeletionCompletes`,
`SpecReached`, `Settles`, `ComesToRest`, `StatusSettles`. Every safety property that a passing
run checks is proved, those with a hypothesis named above under it.

## Not modelled

* All calls of one pass of the operator in one module: `Finalizers`, `OwnedResources`,
  `VCLStatus` and `DelayedRollingUpdate` each take the calls of their objects. They share
  only the VarnishCluster, its status, and the rule that an error ends the pass.
* Recreation of a VarnishCluster of the same name, and two of one name that install into one
  namespace: `Finalizers` has one VarnishCluster.
* Leader election: one operator is active. The set-up of managers and flags.
* Periodic resyncs of informers in `Backends`, `OwnedResources` and `VCLStatus` (they only
  add passes), and a pod whose node is set after its creation in `Backends`.
* The update of the finalizers (varnishcluster_finalizers.go:53) sends the spec with its
  defaults through the webhooks once more, which may refuse it: `Admission` has only the
  user's submissions, and in `Finalizers` the update is refused by conflicts and failures.
* Changes of labels in `Finalizers` (see Runs).
* The API server's own defaults, and the fields the comparisons ignore because of them.
* Owner references that are removed from objects; the schema of the CRD; image names.
* The text of templates, default VCL files and the Grafana dashboard; formatting, events,
  logs, the metrics endpoint, packaging and generated code: no state or no behaviour.

## Plan

1 to 8 are done: delivery and its proofs, timers and their proofs, rolling update,
finalizers, backends with start-up and predicates, owned resources, status, admission, and
the proofs of all safety properties. What is left:

9. A composition of the operator's passes over all objects, at least of `OwnedResources`
   and `VCLStatus` (the status update is what they share).
10. Recreation of a VarnishCluster under a name whose objects are still being collected.
