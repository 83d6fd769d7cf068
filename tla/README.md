# A TLA+ verification of the Amazon CloudWatch Agent Operator

This directory holds TLA+ modules that model the Amazon CloudWatch Agent Operator
and its target allocator, TLC configurations that check them on small instances,
and TLAPS proofs of the properties that matter most, for every value of the
constants. `PROJECT.json` lists the components, the runs, the source lines
behind every definition, the findings, the hazards and the theorems.

## 1. Inventory

The repository builds two programs that run at the same time in a cluster, plus
webhooks that the API server calls.

### Target allocator (`cmd/amazon-cloudwatch-agent-target-allocator`)

A process of eight goroutine actors in a run group. It finds Prometheus targets and
deals them out to the collector pods, which ask for their share over HTTPS.

| component | state | operations | interacts with |
|---|---|---|---|
| consistent-hashing allocator (`allocation/`, `diff/`) | `collectors`, `targetItems`, the ring, `targetItemsPerJobPerCollector`, `NumTargets`; one RW lock | `SetTargets`, `SetCollectors`, getters | called by discoverer and pod watch, read by the server |
| collector pod watch (`collector/`) | `collectorMap`, which outlives each watch | one List, then Watch after Watch with a timeout | API server, `SetCollectors` |
| configuration watchers (`watcher/`) | `notifyEvents` (capacity 1), a rate limiter, an fsnotify watcher | informer handlers, `rateLimitedEventSender`, `FileWatcher.Watch`, `Close` | one unbuffered event channel to the event loop |
| discoverer and filter (`target/`, `prehook/`) | `configsMap`, `scrapeConfigsHash`, `relabelCfg` | `ApplyConfig`, `Watch`, the filter's `SetConfig` and `Apply` | server, Prometheus' discovery manager, allocator |
| HTTPS server (`server/`) | the marshalled scrape configuration | `UpdateScrapeConfigResponse`, read-only handlers, `ShutdownHTTPS` | allocator's getters |
| CA watcher (`config/certwatcher.go`) | `caPool`, an fsnotify watch on the file | reload on event, re-adding of the watch | TLS handshakes |
| process (`main.go`) | run group, `eventChan`, `eventCloser` | start, event loop, interrupts in order | all of the above |

*Hard*: two goroutines call `ApplyConfig` with no lock; notifications are dropped
when the channel is full and put back when the event loop is busy; watches end and
lose events; the interrupt functions run one after another and some block until
another actor acts.

*Correct means*: each target is served to exactly one collector, the one the ring
names now; no pod that exists is forgotten; a change of configuration is never lost
on its way and reaches server, filter and manager alike; the process ends when it
has to, so that the container is started again.

### Operator

| component | state | operations | interacts with |
|---|---|---|---|
| AmazonCloudWatchAgent reconciler (`controllers/`, `internal/status`) | none of its own; work queue, informer cache, objects in the cluster | list owned, create or update, delete and recreate on immutable change, prune, status | API server, other clients |
| mutation of existing objects (`internal/manifests/mutate.go`) | - | merge desired into existing, refuse immutable changes | reconcilers |
| NeuronMonitor and DcgmExporter reconcilers | as above | apply without a prune, or delete all; depend on the agent's configuration, which they do not watch | API server, the agent's prune, each other |
| auto monitor (`pkg/instrumentation/auto`) | informer stores, the pass at the start | service handlers, `MutateAndPatchAll`, `MutateObject` | API server, workload webhook |
| workload, namespace and pod webhooks (`internal/webhook`) | - | mutate what is being admitted | auto monitor, pod mutators |
| pod instrumentation (`pkg/instrumentation`), sidecar (`pkg/sidecar`) | - | pod, namespace, instances, config maps, gates to injected pod | pod webhook, which is called again at every update of the pod |
| defaulting and validation (`apis/v1alpha1`) | - | `Default`, `Validate*` | API server |
| manifests, adapters, parsers (`internal/manifests`) | - | spec to objects; configuration to ports | reconcilers |

*Hard*: everything is read from a cache that lags; writes fail, conflict or meet
objects that others have changed; three callers annotate the same workload with
different views of it; the service handler changes objects of the cache in place;
several functions that never see each other's work build objects that must fit
together; several languages change the same pod one after another; custom resources
share objects of fixed names.

*Correct means*: after the last change the desired objects are there and the others
gone, whatever failed before; nothing desired is deleted; pods are restarted only
when `RestartPods` allows it; annotations come and go with the services and the
user's own annotations stay; what the webhooks admit can be built, and its objects
refer to each other; an injected pod is valid, keeps what its user set and can still be
updated; exporters run when the agent's configuration says so.

The hazards, at the line where each bites, are in `PROJECT.json`.

## 2. Modules

Convention: a definition whose name is another one's plus a suffix, placed right
before it, is that definition with a plausible slip (a dropped guard, a missing
reset). It is used by no specification; `PROJECT.json` lists under `mutants` the
property that fails when it takes the place of the original.

| module | models | built on |
|---|---|---|
| `TargetAssignment` | what the allocator promises: `served` is a function of the targets and collectors there are | |
| `Allocator` | `SetTargets` and `SetCollectors` with all their helpers | refines `TargetAssignment` |
| `TargetServer` | the server's overview of all targets, composed with the allocator it reads | extends `Allocator` |
| `CollectorWatch` | the pod watch and the API server's pods, composed with the allocator | extends `Allocator` |
| `ConfigPipeline` | watchers, event loop, `ApplyConfig`, filter, manager, sync, crash and restart | |
| `Shutdown` | run group, actors, interrupts | |
| `CAWatcher` | CA pool and fsnotify | |
| `Reconciler` | one AmazonCloudWatchAgent, its objects, the cache, other clients | |
| `AutoMonitor` | services, workloads, the three annotating callers | |
| `DefaultInstrumentation` | the instance used where there is none; shape of variables and instances | |
| `PodInstrumentation` | the injection of every language, Apache, Nginx, Go and the SDK, as operators from pods to pods | extends `DefaultInstrumentation` |
| `Sidecar` | the injection and removal of the collector sidecar | extends `PodInstrumentation` |
| `PodWebhook` | one pod from submission through updates, the webhook and the API server | extends `Sidecar` |
| `ManifestNames` | names and labels of all objects | |
| `CollectorPorts` | adapters, receiver parsers and `ports.go`: configurations to ports | extends `ManifestNames` |
| `PrometheusConfig` | the Prometheus section and its rewriting | extends `ManifestNames` |
| `AgentWebhook` | `Default` and `Validate` of an agent | extends `CollectorPorts`, `PrometheusConfig` |
| `TargetAllocatorManifests`, `CollectorManifests` | the objects built for an agent | the first extends `AgentWebhook`, the second the first |
| `AgentLifecycle` | an agent from submission to the objects in the cluster, under changing gates | extends `CollectorManifests` |
| `ExporterManifests`, `ExporterLifecycle` | objects and controllers of DcgmExporter and NeuronMonitor, several side by side | extend `ManifestNames` |
| `*Proofs` | the proofs; `AllocatorProofs` is also about `TargetServer` and `CollectorWatch`, `ProcessProofs` about `Shutdown` and `CAWatcher`, `PodProofs` about `PodWebhook` and the modules under it, the others about the module they are named for | each extends the modules it is about |
| `MC*` | instances for TLC | |

How state and actions correspond to the code:

- **Allocator.** Both setters hold the write lock, so each is one action. The loops
  touch each item independently; the action does the whole loop and counts its
  decrements and increments. `mapping` is the four-level index flattened to pairs.
  An item stands for its hash, which is all `diff.Maps` compares; items may share a
  URL, which is all `LocateKey` sees. `Locate` is the external `consistent` library:
  the only assumption is that it answers a member of a ring that has one.
- **TargetServer.** `TargetsHandler` copies the names of the collectors, then reads one
  collector after another, each under a read lock of its own, while the setters run in
  between. The overview of one item is followed; `stayed` and `ever` are histories of
  the collectors that served it all the time and at any time.
- **CollectorWatch.** The API server (external) sends ADDED for every pod when a
  watch without resource version opens, then the changes. `EndWatch` drops what was
  sent and not received. A failed List or Watch ends the process (`Exit`) and the
  container starts again with an empty allocator. The history variable `missed`
  holds the pods whose deletion no watch will report.
- **ConfigPipeline.** A configuration is a version number; the constant `Kind` says
  whether it loads, is empty, or cannot be marshalled. `ApplyConfig` is split where
  another goroutine can see the difference: store and merge, publish, filter,
  manager. The hash comparison in `ApplyConfig` compares two `hash.Hash64` pointers,
  one just made, so the code publishes on every call, and so does the model.
  fsnotify events that wait are one flag: the file is read after the event is
  taken, so one event or several make no difference to what is loaded. Both callers of
  `ApplyConfig` at the unguarded `configsMap` may end the process
  (`ConcurrentMapWrites`), as may an initial configuration that cannot be published;
  the container then starts again (`StartAgain`). `raced` says that an event was applied
  before the initial configuration; the next complete `ApplyConfig` heals it.
- **Shutdown.** Each actor is at a place of its select loop. The interrupts run in
  the order of `runGroup.Add`; `FileWatcher.Close` and `ShutdownHTTPS` block.
- **CAWatcher.** fsnotify (external) stops watching when the file it watches goes. The
  constructor loads the pool and adds the watch after it (`AddWatch`); if there is no file
  to watch the process ends and starts again with `Load`.
- **Reconciler.** An object's content is its UID, the field that may not change and
  the rest. The cache catches up one object at a time. `spec` is the instance as the
  cache has it. Objects are reconciled in any order, which covers the order in the
  code. `overlooked` is a history: the objects of kinds neither listed nor watched that
  another client changed, or that were judged by a copy in the cache which was behind, and
  that no reconcile has looked at since. Deleting by name, the early return on a failed delete, the requeue on errors
  and the missing workload in the status update are as in the code.
- **AutoMonitor.** A workload's template is its set of annotation keys. One kind of
  workload stands for the three, which are treated alike. `shared` says that the
  handler's copy still is the cached object, whose map it changes in place. The
  webhook is part of every write and may fail open (`failurePolicy: Ignore` in
  `config/webhook/manifests.yaml`).
- **PodInstrumentation, Sidecar, PodWebhook.** A pod keeps its annotations, containers
  with variables, mounts, hooks and security contexts, init containers and volumes. A value of
  a variable is the sequence of the parts put together in it; of an endpoint only the
  host matters. Texts of scripts and commands are left out. `Create` runs both mutators
  in their order, `CreateWithout` is a webhook that did not answer (`failurePolicy:
  Ignore`); the API server wants a container, validates names, mounts, variables, the hooks of
  init containers and the sharing of processes, and refuses an update that changes the spec
  of a pod that exists. Of mounts it matters whether their path is that of a web server's
  configuration or has it as a part (`ConfigPaths`).
- **AgentLifecycle** and the modules under it. An agent is a record of the fields that
  decide something; what is handed on as it is (resources, affinities) is left out. A
  configuration is given by the sections and addresses it has or by how it cannot be
  read. Admission is defaulting, then validation; a reconciliation is one step here
  (how the writes interleave is `Reconciler`'s): the builders fail, panic or yield
  objects, workloads with another selector or other claims are deleted before the API
  server sees the new ones, it rejects what is invalid, the rest is merged as `mutate.go`
  does it. An address is a number, which may be no port, or no number at all. What is built is a
  set of pairs of id and body, as the code's slice of objects; `ById` is the cluster's view
  of it. `stored` says that there is an agent. `unlucky` stands for a Go map's order where
  it decides whether a broken configuration is met. `Over` is the merge of two maps in
  which the new one wins.
- **ExporterLifecycle.** Exporters are pairs of kind and name and share objects of fixed
  names. `enabledAcceleratedComputeByAgentConfig` reads the agent, whose changes queue
  nothing. `BuildExporter` is the set of what may be built, one for each order in which a
  Go map may give the arguments. The agent's controller (`AgentController`) takes part: it
  writes a DaemonSet of the agent's name, if that is its mode, and prunes by its labels. Each
  reconciles all it wants at once; every write may fail, a deletion that fails ends the
  reconciliation, the status may fail, and the agent may be misread as missing
  (`Misreads`). An object's controller is replaced by whoever writes it, and an update is an
  event for the old and the new controller. The agent's other objects and agents of other
  names are left out: their names meet an exporter's only if a user writes them out in full.

## 3. Runs

### What holds

| run | instance | states | shows |
|---|---|---|---|
| `allocator` | 4 collectors, 3 items, 2 URLs, a ring that moves targets also between old collectors, one overview at a time | 183 k | `OwnedByLocate`, `MappingIsOwnership`, `NumTargetsIsServed`, the refinement of `TargetAssignment`, and that an overview, read lock by lock, is wrong only about a target that moved meanwhile (`OverviewMisleadsOnlyIfMoved`) |
| `collector_watch` | 3 pods, 1 target, 4 events in flight | 45 k | no live pod is lost (`LivePodsTracked`); a gone pod stays only if its deletion was missed (`GoneOnlyIfMissed`); the allocator follows `collectorMap` except when that is empty; pods that stay become collectors, pods that go are dropped while the watch is open |
| `config_pipeline` | 3 changes of the file, 2 of the custom resources, of all kinds, with crashes and restarts | 371 k | no notification is lost (`NoLostNotification`); server, filter and manager agree between calls (`AppliedTogether`); the allocator's targets were found and filtered by the published configuration (`TargetsMatchConfig`); changes take effect (`EventuallyApplied`) |
| `shutdown` | all eight actors | 3 k | no sender waits for a receiver that returned; once one actor returns the process ends (`ShutdownCompletes`) |
| `ca_watcher` | 4 versions of the file, 3 events in flight | 252 | the pool is behind the file only with an event on its way or after an unwatched change (`StaleOnlyIfMissed`); otherwise it catches up (`EventuallyLoaded`) |
| `reconciler` | 4 specs over 3 objects, 2 spec changes, 1 foreign write, 1 failure | 1.34 M | after the last change every desired object is in place, of kinds that are not listed all but those that somebody else touched, and the listed others are gone (`EventuallyReconciled`); pruning by UID never deletes what this reconcile listed and confirmed (`KeepsConfirmedObjects`) |
| `auto_monitor` | 1 workload with 2 labels, 1 service, 1 each of service change, edit, failure, restart | 359 k | without `RestartPods` a template changes only with its user's edit (`NoUninvitedRestart`); a user's edit is only ever undone by a handler whose copy is older (`LostOnlyToStaleHandler`); with `RestartPods`, a workload selected by all its labels is annotated for good (`EventuallyInstrumented`) |
| `pod_webhook` | 14 sets of annotations, 9 kinds of container, 13 special pods, 3 namespaces, 6 clusters, 2 updates or changes | 697 k | the injected pod is valid but for the cases named below (`AcceptedUnlessKnown`); the resource attributes are there once and after the variables they refer to (`ReferencesComeFirst`); containers of other backends are left alone (`ThirdPartyUntouched`); an update is refused only if something the webhook reads has changed (`RefusedOnlyIfChanged`) |
| `agent_lifecycle` | 3 agents, 77 patches, 2 sets of gates, 3 operations | 53 k | what is admitted is built and accepted but for named gaps (`AdmittedIsBuilt`); the objects of an agent fit together (`ReferencesResolve`); every receiver is reachable (`ReceiversReachable`); collectors survive changes of labels, image and configuration (`CollectorKept`); changes take effect (`ChangesTakeEffect`) |
| `exporters` | 3 exporters (2 of one kind, 2 of one name, 1 named as the agent), 2 specs, 5 agents (in DaemonSet mode and not), 3 changes or failures | 25 k | an exporter is stale only after a change of the agent or a failure to read it (`StaleOnlyIfAgentChanged`), loses objects only to namesakes (`LostOnlyToNamesake`), follows the agent in the end (`EventuallyFollows`) and comes to rest unless controllers contend or arguments have no order (`EventuallyStable`) |

The exceptions written into these properties are themselves results.

- Target allocator: the deletion of a pod between two watches leaves it a collector
  (`missed`); an empty set of pods never reaches the allocator; the first `ApplyConfig`
  may be overtaken by an event and then win over it until the next one (`raced`); one
  source that cannot be marshalled holds up the other; a file changed before the watcher
  is added is not seen until it changes again (`fileMissed`); a failed `watcher.Add`
  makes the shutdown hang (`addFailed`). The CA file has three gaps: it is loaded before it
  is watched (`certwatcher.go:35`, `44`), reloaded before it is watched again after a Remove,
  and if it is gone when that event is handled it is never watched again, since the loop
  continues before the Add.
- Reconciler: a list from a stale cache makes the prune delete, by name, an object
  that this very reconcile created anew; the next reconcile creates it again. Kinds that
  are not listed (autoscaler, disruption budget, ingress, route, monitors) are never
  pruned, and since nothing watches them either, one that somebody else deletes or changes
  stays so until the next reconcile (`overlooked`).
- Auto monitor: a patch that fails after the cached map was changed in place is not
  tried again (`Polluted`); the handler's patch replaces all annotations by those of its
  copy and undoes what a user has set since.
- Pods are rejected when a language names one container twice, as two unknown names do
  (`sdk.go:303`); when a value is added to a variable that is taken from elsewhere:
  `OTEL_RESOURCE_ATTRIBUTES` (`sdk.go:417`), with Nginx `LD_LIBRARY_PATH` (`nginx.go:175`), and
  the options of an agent if its instance sets them so (`javaagent.go:55`); when Apache and
  Nginx meet, whose clones share a name (`nginx.go:21`); when Apache is asked for in a
  container with hooks, which its clone keeps although init containers may have none
  (`apachehttpd.go:92-97`; Nginx drops them); when a container mounts something at the path of
  the web server's configuration after something whose path has it as a part, since only the
  first of the two is dropped (`apachehttpd.go:102-107`, `nginx.go:103-108`); when Go is asked
  for in a pod with the host's processes (`golang.go:44`); when a pod uses one of the
  operator's own names or paths, or has what a sidecar brings; and when the sidecar that is
  removed was the only container.
  `ReferencesComeFirst` excepts instances that set `OTEL_RESOURCE_ATTRIBUTES` for Java,
  NodeJS, Python or .NET: whether a variable is there already is looked up among those from
  before the first language, so that the second language adds it once more. An update is
  refused when the creation was missed, when annotations, namespace or instances have
  changed since, and for a pod with the SDK alone whose node was known, or
  which is nothing but a collector: these the webhook does not recognise (`helper.go:70`).
- Agents that are admitted and not built: a configuration that is not JSON, is `null` or
  has an address that is none; an OpenTelemetry configuration that is not YAML or has an
  empty pipeline; a Prometheus section without a configuration; scrape configurations
  without name or with a broken relabelling; an autoscaler without a maximum, which
  panics. An autoscaler ends the validation early, so that what follows is not checked.
  Rejected by the API server: two ports of one number and protocol, a protocol it does not
  know, a telemetry address or a health check whose number is no port, negative replicas of the
  collector (where an autoscaler ends the validation) or of the target allocator, a budget with
  both bounds or a negative one, metrics of type value, a stabilisation window of more than an
  hour, a host `*`, two config maps of one name.
- Objects that do not fit: the allocator's service selects by all labels, by the version
  that its pods override and, since selectors are merged, by labels the agent no longer
  has (`SelectsTooMuch`); a mistyped configuration drops all ports, and with them the
  service an ingress leads to. EMF and JMX ports are dropped when their number is used
  with either protocol, and a port of the same name in the spec or the OpenTelemetry
  configuration replaces the agent's (`Shadowed`).
- Exporters of one kind in one namespace take their config map and account from each
  other for ever; a DcgmExporter and a NeuronMonitor of one name delete each other's
  DaemonSet, and so do an exporter and an agent of one name if the agent is a DaemonSet
  (`common.go:91-97`): the one that deletes rests without its own until it is told again
  (`Deposed`, `Rivals`); one named as the agent is pruned by the agent's controller; an agent
  that cannot be read counts as missing and the exporter's objects go until the next
  reconcile (`common.go:189`); two or more
  arguments of a NeuronMonitor come in the order of a Go map and rewrite its DaemonSet;
  an agent configuration `null` panics in every reconcile.

### What does not hold

Each of these runs checks one statement of a comment or a test of the repository
and finds it violated.

| run | statement | what happens |
|---|---|---|
| `auto_optout` | deleting a service removes the annotations (`monitor_test.go:702`) | workloads are listed by equality of labels and judged by containment: a service that selects by fewer labels leaves its workloads annotated |
| `pod_user_env` | a variable that the user set is not overridden (`helper.go:325`) | the code looks at the variable's value, which is empty for one taken from a secret, config map or field: a second one is appended, and the container sees that |

### Bounds, and why they are enough

- The allocator's state is finite without a bound. Four collectors let the ring
  move a target between two collectors that stay, and an overview be between two of
  them when it does; two items share a URL.
- `MaxEvents` = 4 in `CollectorWatch` holds the initial events of three pods and a
  change behind them; create and delete of the same pod overlap.
- `MaxVersion` in `ConfigPipeline` lets each source go from good to bad to good,
  and lets a change arrive in each place of the pipeline while another is in it.
- `Reconciler`: two spec changes reach "there, gone, there again", which is what a
  stale list needs; UIDs that nothing refers to any more are used again.
- `AutoMonitor`: one service change after the start, one edit, one failure and one
  restart are combined in every order. `auto_optout` uses two service changes.
- `PodWebhook`: the state is one pod, so breadth is in the pods: annotations, containers,
  namespaces and clusters are chosen so that every branch of the injection is taken
  and languages mix in one container and in two. Two changes suffice for "something
  changes, then an update comes".
- `AgentLifecycle`: a patch changes one part of a spec. Create and two patches reach every
  pair of patches; create, patch and restart every patch under changed gates.
- `ExporterLifecycle`: three operations let two exporters be created beside the agent, which
  is there from the start, and one of them be disturbed, changed, misread or fail meanwhile.

Deadlock is checked in `allocator`, `collector_watch` and `auto_monitor`. It is off
where the system may rest: no pending change (`config_pipeline`, `reconciler`,
`ca_watcher`, `pod_webhook`, `agent_lifecycle`, `exporters`), or a process that ended
(`shutdown`).

### Fairness

Weak fairness of each goroutine says that the Go scheduler runs it. Nothing is
assumed of users, other clients, pods, files or failures; failures are bounded, so
they end. Stronger assumptions:

- `Shutdown`: strong fairness of a select case that is ready again and again, since
  Go picks among the ready cases at random; requests end.
- `AutoMonitor`: strong fairness of the resync of a service. Its period is ten minutes and
  the queue of notifications is empty again and again.
- `Reconciler`: `EventuallyReconciled` has the premise that lists are fresh from
  some time on. The code does not wait for the cache; the work queue's exponential
  back-off makes it so in practice. Without the premise a stale list and a prune can
  follow each other for ever.
- `CollectorWatch`: the two liveness properties speak of a watch that stays open.
  Nothing is assumed of `EndWatch`; a watch that times out before it handles an event,
  every time, would defeat any claim beyond that.
- `AgentLifecycle`: the work queue hands out every request.
- `CAWatcher`: the process is started again when its constructor fails (`Load`, `AddWatch`).
- `ExporterLifecycle`: so do its queues, the agent's among them (`AgentWorks`), and the informers resynchronise from time to
  time (controller-runtime's ten hours), which is all that brings a change of the agent
  to an exporter that has no events of its own.

## 4. Proofs

Eight modules hold theorems; those that state a property of a run are the statement of
that run for every value of the constants.

| module | theorems | inductive invariant |
|---|---|---|
| `AllocatorProofs` | `TypeCorrect`, `AlwaysOwnedByLocate`, `AlwaysMappingIsOwnership`, `AlwaysNumTargetsIsServed`, `Implementation` | `IndInv` |
| | `OverviewIsRight` | `ServerInv`: `IndInv` and `Tracks` |
| | `AlwaysLivePodsTracked`, `AlwaysGoneOnlyIfMissed`, `AlwaysAllocatorFollowsMap`, `WatchTypeCorrect` | `ClientInv`, `ComposedInv` |
| `ConfigPipelineProofs` | `AlwaysNoLostNotification`, `AlwaysAppliedTogether`, `AlwaysTargetsMatchConfig`, `PipelineTypeCorrect` | `NotifyInv`, `ApplyInv` |
| `ProcessProofs` | `AlwaysReceiverOutlivesSender`, `ShutdownTypeCorrect` | `ShutdownInv` |
| | `AlwaysStaleOnlyIfMissed`, `CATypeCorrect` | `CAInv` |
| `ReconcilerProofs` | `AlwaysKeepsConfirmedObjects`, `ReconcilerTypeCorrect` | `PruneInv` |
| `AutoMonitorProofs` | `NeverUninvitedRestart`, `MonitorTypeCorrect` | `HandsOff`, `EditsCounted`, `TypeOK` |
| | `UserKeysLostOnlyToStaleHandler` | `PatchesKeepUserKeys` |
| `ExporterProofs` | `ExporterTypeCorrect`, `LossOnlyToNamesake` | `ExporterInv`: `TypeOK` and `SelectorsKept` |
| | `StaleOnlyByAgent` | `Fresh` for each exporter, with `ExporterInv` |
| `AgentProofs` | `AgentTypeCorrect`, `CollectorNotTakenDown`, `AlwaysAdmittedIsBuilt` | `AgentInv`: `TypeOK`, `WellFormed` and `Validated` agents, `CollectorsSelect` |
| | `AlwaysReceiversReachable` | `ServicesInv`, with `AgentInv` |
| | `AlwaysReferencesResolve` | `ObjectsInv`, with `AgentInv` |
| `PodProofs` | `AlwaysRefusedOnlyIfChanged`, `ThirdPartyAlwaysUntouched` | `PodInv`: `SeenOK`, `PodOK`, `PhaseOK` |
| | `AlwaysReferencesComeFirst`, `PodTypeCorrect` | `EnvInv`, with `PodInv` |

The type invariants of the first four modules are proved and therefore not part of a run.

### The allocator

`AllocatorProofs` proves for every finite set of collectors and items and every ring:

- `TypeCorrect`, `AlwaysOwnedByLocate`, `AlwaysMappingIsOwnership`,
  `AlwaysNumTargetsIsServed`: the invariants of the run `allocator`;
- `Implementation`: `Spec => ImplementsAssignment`, the refinement of
  `TargetAssignment`.

Assumptions: `CollectorAssumption` and `ItemAssumption` (finite sets, every item
has a URL, the empty name is no collector) and `LocateAssumption` (a ring with
members answers one of them).

The argument. None of the invariants is inductive alone. `IndInv` conjoins them
with `RingIsCollectors` (otherwise the ring may name a collector that is not
there) and `UnassignedBefore` (otherwise an item could have an owner when the first
collector arrives). `handleTargets` needs `OwnedByLocate` to know that
the owner of a removed item is known, and `MappingIsOwnership` to know that the pair
it deletes is the only one; `handleCollectors` needs `MappingIsOwnership` to know
that, with the pairs of removed collectors and the previous pairs of the moving
items gone, nothing old is left. For `NumTargetsIsServed` the code's
decrements and increments are cardinalities of disjoint parts of what a collector
is served (`ItemsAtSplit`, `DisjointUnionSize`). `Init` establishes `IndInv`, each
action preserves it (one lemma per action), and for the refinement each action
maps to a step of the abstract specification (`SetTargetsMaps`,
`SetCollectorsMaps`) by `ServedIsAssign`.

### The other modules

- **TargetServer.** An overview that has read some collectors and not others knows the
  item's place only through history: `Tracks` says that what was shown was served at
  some time since the overview began, and that a collector which served the item all
  the time is either shown or still to be read. With `IndInv` an item is served by one
  collector at most, hence "once" if it did not move.
- **CollectorWatch.** What will be in `collectorMap` once the events in flight are
  handled is a matter of the last event about a pod (`Replayed`). `ReplayAppend` and
  `ReplayTail` say how that changes when the API server sends and the watch handles an
  event; `LastPosition` finds the last event. `ClientInv` adds that no event waits
  unless a watch is open. `ComposedInv` carries the allocator's `IndInv` through the
  calls of the watch, the discoverer and a restart.
- **ConfigPipeline.** `NoLostNotification` is not inductive: a configuration that was
  loaded and has changed since must be announced again (`StaleLoadAnnounced`), and what is
  loaded for the custom resources is never nil (`LoadedKnown`). For `AppliedTogether`,
  `ApplyInv` follows a configuration through the places of `ApplyConfig`: only one caller
  is inside unless they raced (`OneByOne`), what is merged, published, filtered and
  discovered is in step up to the caller's place (`InStep`), and the last sync saw the
  current hook and manager unless another is due (`SyncedLast`).
- **Shutdown.** The event loop returns only if it is stopped, is stopped only by the
  seventh interrupt, and the second one returns only when the file watcher has
  (`LoopLeavesLast`).
- **CAWatcher.** `CAInv` is the property with its types. A change before the first watch is
  unwatched like any other, and a new start loads what is there.
- **Reconciler.** A prune protects by UID. `ListedIsCached` says that an object which
  still has the UID it was listed with has it in the cache too, since the cache never
  goes back and a UID is not given out twice; `ConfirmedKept` that the UID of each object
  already reconciled without an error is among those to be kept.
- **AutoMonitor.** Without `RestartPods` nobody ever has a workload in hand
  (`HandsOff`), so that only the webhook could change a template, and it does not find
  it safe. For `LostOnlyToStaleHandler` a patch that is on its way has every key of the
  user's that its copy had (`PatchesKeepUserKeys`), so that one is lost only if the copy
  was taken before the edit; the webhook and the pass at the start add and remove the
  monitor's keys alone.
- **ExporterLifecycle.** That every object carries the labels of its controller
  (`TypeOK`) makes the agent's prune find those of its own name alone. `SelectorsKept`,
  that a DaemonSet has the selector of its controller, is needed on top: it says that
  only a DaemonSet of another kind, the agent's included, is ever replaced. `Fresh` follows one exporter
  through the steps of all the others: what another takes over, deletes or prunes had
  this exporter as its controller and so brings a request (`TakenByOther`), and a
  reconciliation without a failure leaves every object as it was built (`DesiredFresh`), or
  takes all away, be the agent off or misread.
- **AgentLifecycle.** `CollectorsSelect` says that a collector's workload has the selector
  that is built for the agent's namespace and name, which no patch can change. Since
  whatever is built for that id has the same one, the deletion that a change of an
  immutable field brings about can only be due to claims. For `AdmittedIsBuilt` the
  invariant keeps that the stored agent was defaulted from fields of the schema
  (`WellFormed`) and validated by an operator with some gates, not always those of the
  operator that builds (`Validated`). Then the builders fail only with a gap
  (`UnbuiltGap`), and there is a lemma for each kind of object: whenever the API server
  does not take it, the agent has a gap (`WorkloadTaken`, `ServiceTaken`,
  `AutoscalerTaken`, `BudgetTaken`, `IngressTaken`, `AllocatorTaken`). The longest is the one of the services: ports granted to the agent's own
  configuration never clash (`OwnPortsApart`), since a request yields to any granted
  before it; so one of two ports that clash was added by the user (`AgentPortsClash`).
  For `ReceiversReachable`, `ServicesInv` says that every service has ports and that both
  services of a settled agent have those that are built for it as it is now: a request
  only leaves the queue when everything that is wanted has been written (`AllWritten`), and
  a service that is there takes the new ports whatever else is merged into it
  (`MergedPorts`). That a receiver has a port at all is `ReceiverHasPort`, in two parts.
  `AskedCovered` goes through the sections: what a section listens on is asked for, firmly
  or, for EMF and the JMX of Container Insights, by a request that yields to any of its
  number. `FirmGranted` and `YieldingReached` then take the first request for a port, which
  is granted, or to which the others are equal. `PortsAdded` says what is left of granted
  ports when those of the OpenTelemetry receivers are added one after another: only one of
  the same name takes the place of another. `WithPorts` and `FlattenSeq` are recursive
  functions; the lemmas about them are inductions by a least counterexample (`FromZero`),
  which `WFMin` of the library gives for sets of natural numbers.
  For `ReferencesResolve` each object of a settled agent is looked at as it is in the
  cluster, where it was merged into what earlier reconciliations left. `ObjectsInv` says
  that the agent can be built as it is now and that each object which is wanted is there and
  carries what was built for it (`AllThere`): a merge keeps every label and key that is
  built, and workloads, monitors and budgets take over what decides. Only services keep
  more, since their selectors are merged; that a collector's service still has no other
  labels in its selector than those of namespace and name, which no patch changes, is
  `ServicesSelect`. Then there is a lemma for each kind of reference: `CollectorVolumesResolve`
  and `AllocatorVolumesResolve` find the keys that volumes take in the config maps as they
  are there, `ServiceSelectsPods` and `BudgetSelectsPods` the pods, `BackendThere` the port
  that an ingress or a route leads to, `MonitorResolves` the service of a monitor, and
  `AllocatorFound` goes from the collector's rewritten configuration to the allocator's
  service and port, and from the allocator's selector back to the collectors.
- **PodWebhook.** `RefusedOnlyIfChanged` says that the webhook is idempotent, which a test
  shows for the pods it was written for. `PhaseOK` keeps that the spec of a stored pod is
  what the webhook made of the submission; `HandleTwice` then says that the webhook gives
  back, as it is, any pod that looks like that. The second mutator: each language either
  leaves the pod as it was (`Idle`: nobody asks for it, or every container that it names is
  passed over) or leaves a mark that no later language removes, an init container or the Go
  agent's container (`LanguageEffect`, `KeptMarked`); `AllEffect` takes the eight languages
  together, and a language that was idle the first time is idle again, since it decides by
  what has not changed (`LikeIdle`). The SDK alone leaves a variable as its mark, and only
  if the node's name was not known by then (`SDKMarks`): hence the exceptions of the
  property, a node known to the pod, its variables or an instance, and a pod that is only a
  collector, in which the variable is no mark. The first
  mutator: what it added it finds again, what it removed is not there any more, and whatever
  it did not find, it does not find again (`SidecarTwice`, `SidecarCases`).
  For `ThirdPartyUntouched` a container is followed through the languages: each refuses it
  or works on another position (`OtherInstrumented`, `ElsewhereRefused`, `LeftAlone`), and
  the removal of a sidecar may move it but not change it (`OthersStay`). Loops over names,
  variables and containers are recursive functions here too.
  For `ReferencesComeFirst` the order is broken and repaired within one step: an injector
  appends variables after the attributes, and the configuration of the SDK that follows it
  moves the attributes to the end. `Fits(p, w, i)` therefore says that all variables are
  well-formed and, if w, that no container has the attributes twice and that the order holds
  in every container but the i-th. Each injector leaves its container at most in that state
  (`FitsTemplate`, `FitsApache`, `FitsNginx`, `FitsGo`), the SDK brings it back to
  `Fits(p, w, 0)` (`FitsConfig`, `MovedOK`), and `FitsAll` takes the languages together. If
  the attributes were there twice, moving one of them to the end would not be enough: hence
  the premise of the property. The default instance never sets them (`FreeEnvs`,
  `DefaultFits`). A sidecar comes with the references before the attributes (`JoinedLast`,
  `SidecarOK`). `EnvInv` holds `Fits` without w for every pod, with it for those given in
  order, and says which containers there are; an update cannot break it, since the API
  server takes one only if the spec stays (`SpecStays`). `PodTypeCorrect` follows.

Assumptions beside the allocator's: `VersionAssumption` (kinds of the configurations;
main exits if the first file cannot be loaded), `CABoundAssumption`, `ObjectAssumption`
and `SpecAssumption` (listed kinds, specs and what they ask for), `MonitorAssumption`,
`ServicesAssumption` and `UserKeyAssumption` (finitely many services; a key of the user's
is none of the monitor's), `SubmissionsAssumption` and `PatchesAssumption`
(`InSchema`: the enumerations of the CRD in `mode.go:8` and
`amazoncloudwatchagent_types.go:17`, numbers that are integers or absent, config maps by
name, receivers and ports in sequences, a Prometheus section with its scrape
configurations; namespace and name of an object cannot be patched), `NilAssumption` (Nil is no number
and not the default budget), the schema of what the API server hands to the webhook
(`SubmissionsAssumption` of `PodWebhook`: a pod has its fields and at least one container,
containers and variables come in sequences, a variable has a name and a value or a
reference; `AnnotationsAssumption`, `NamespacesAssumption`, `ClustersAssumption`: a value
has finitely many parts between its commas, variables of instances, for each language, and
of collectors, and their init containers, are like those of pods), and bounds that are
natural numbers.

Only model-checked:

- every liveness property, since the prover has neither fairness nor `ENABLED`;
- `AcceptedUnlessKnown` of `PodWebhook`, the only invariant without a theorem. It is stated
  for arbitrary pods, those that use the operator's names among them, and each of its
  exceptions is met in the run: without any one of them the run fails.

## 5. Not modelled

- Fields that are copied from a spec to an object as they are, the merge of single
  fields that `mutate.go` leaves to mergo, formatting, logging, flag and TLS set-up,
  generated code, API types: data without control.
- What the API server checks of fields that the models do not have, such as the resources
  of an instance, resize policies, names of variables or pod security, and configuration
  paths of Apache and Nginx other than one of each.
- The text of JSON and YAML configurations, of start-up scripts and commands.
- Names too long for Kubernetes, which `naming` truncates.
- The hash ring, client-go, controller-runtime, fsnotify, the run group and
  Prometheus' discovery manager are external; they appear as the code uses them.
- Relabelling of a single target in the filter.
- Namespaces in the auto monitor (`RestartNamespace`, the namespace webhook) and the
  mutator tables of the deprecated auto annotation.
- The webhook of Instrumentation, which fills in images and resources and checks the
  sampler's argument.
- `pkg/instrumentation/upgrade`, which nothing calls.

## 6. Plan

Done: the modules above, in the order target allocator, reconciler, auto monitor, pods,
agents, exporters; the theorems of section 4. What is left, most important first:

1. `AutoMonitor`: namespaces, `RestartNamespace`, the deprecated annotation mutators and
   the namespace webhook.
2. The reconciler's writes, one by one, over the manifests of `AgentLifecycle` instead of
   the constant `Desired`.
3. `AcceptedUnlessKnown` as a theorem.
