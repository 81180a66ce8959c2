# TLA+ specification of the HStream operator

The operator in `src/` deploys HStreamDB clusters on Kubernetes. It has three
controllers, for `HStreamDB`, `Connector` and `ConnectorTemplate` resources, all
of which are specified here; the first carries most of the logic. This directory
holds the specification, the TLC models that check it on small instances and the
proofs TLAPS checks for all instances. `PROJECT.json` maps every definition to the lines it models.

## Inventory

| part | state | operations | interacts with |
|---|---|---|---|
| HStreamDB controller (`internal/controller/hstreamdb_controller.go` and its sub-reconcilers) | none of its own; the CR's status | a fixed chain: LogDevice and shard ConfigMaps, services, HMeta, HMeta status, admin server, HStore, store bootstrap, HServer, server init, gateway, console, status | API server through caches, admin server pods through `exec`, work queue |
| requeue handling (`requeue.go`) | the work queue | error, conflict, delay, delayed requeue | controller-runtime |
| conditions (`api/v1alpha2/condition_type.go`) | `status.conditions` with the observed generation | `SetCondition`, `IsConditionTrue` | every bootstrap step, `updateStatus` |
| builders and hashes (`internal/*_helper.go`, `utils.go`) | `last-applied hash` annotation of each child | build the wanted object, compare hashes | every `add…` step |
| LogDevice and shards (`internal/utils`) | two ConfigMaps, written once | recommended replication, number of shards | HStore, bootstrap |
| admin client (`internal/admin`, `pkg/executor`, `pkg/selector`) | none | select a pod, run `hadmin`, HTTP status of HMeta | pods |
| args and ports (`internal/flagset.go`, `pkg/args`, `pkg/constants`, helpers of `utils.go`) | none | parse the args of a component, complete them with defaults, derive ports and addresses | builders, Services, LogDevice configuration |
| ConnectorTemplate controller | none; one ConfigMap per template | copy the template's configuration | API server through caches |
| Connector controller, `pkg/connectorgen` | none; one ConfigMap and one Deployment per stream | merge patches into the template's configuration, create the children | API server through caches, the template's ConfigMap |
| entry point, generated code | – | wiring | – |

What is hard about the HStreamDB controller: it reads the CR and the children
from informer caches that may be older than its own writes; a reconciliation is
a sequence of calls each of which may fail, possibly after taking effect; two
of the calls (`hadmin store bootstrap`, `hadmin server init`) change the
cluster irrevocably and are recorded only afterwards, in the status; the user
edits or deletes the CR at any moment; and nothing but the return values of the
sub-reconcilers brings the worker back, because it does not watch the children.

A child is compared with what is wanted by a hash alone, which does not see its
owner, the order of its slices, or that the cached version is not the last one.
The ports of the components are derived in a dozen places from the args and ports of
the user, with two parsers, some of which drop errors; all of them must come to the
same number for the parts of a cluster to find each other.

The Connector controller only ever creates, and decides by the presence of a
ConfigMap in a cache what is left to do. It must get along with a template that
comes late, with children of an earlier connector of the same name, with a
deletion it has not noticed, and with a failure between two children.

What makes the parts correct: the steps of a deployment happen in order and
irrevocable ones not more often than faults explain; conditions mean what they
say; shards never change; Ready, rest, and the Deployments of a connector come
in the end; a child runs with its own configuration; nothing outlives its owner.
The full list of what can go wrong, line by line, is under `hazards` in
`PROJECT.json`.

## Modules

* `HStreamDBReconciler`: the controller for one CR, with its environment.
* `ClusterLifecycle`: what the controller promises to the outside, without
  caches, retries or a chain: bootstrap the store, announce it, deploy the
  servers, initialise them, announce it, announce Ready.
* `Connector`: the Connector and ConnectorTemplate controllers, two concurrent
  workers, for one template and one connector that uses it.
* `ChildSync`: one child of the HStreamDB controller over several versions and
  incarnations of the CR: reverts, recreation, garbage collection.
* `FlagSet`: the two parsers of args and the helpers on args and ports, as
  operators, with a declarative grammar to check the first parser against.
* `ContainerPorts`: the pods, Services and addresses that the chain derives from
  args and ports; it composes the operators of `FlagSet`.
* `MCHStreamDBReconciler`, `MCConnector`, `MCChildSync`, `MCContainerPorts`: the
  instances TLC checks.
* `HStreamDBReconciler_proofs`, `HStreamDBLifecycle_proofs`,
  `HStreamDBChildren_proofs`, `Connector_proofs`, `ChildSync_proofs`,
  `ContainerPorts_proofs`: the theorems; `FlagSet_proofs`: the lemmas on args and
  ports that the last one rests on.

The three modules on the HStreamDB controller look at it from different sides.
`HStreamDBReconciler` has the whole chain, with opaque templates and caches that
hold an earlier value. `ChildSync` has one link of the chain, but every version of
CR and child between the API server and the cache, and a CR that is created again.
`ContainerPorts` opens the templates, over caches that are current.

### HStreamDB: state and actions

| variable | in the system |
|---|---|
| `cr` | the HStreamDB resource in the API server: generation, spec, conditions, HMeta nodes |
| `objs` | its 12 children in the API server: replicas, template, the one value in the template that comes from elsewhere (`arg`), ready pods |
| `crSeen`, `seen` | the informer caches; kinds not in `Lagging` are always fresh |
| `queued` | the CR is in the work queue (`"now"`), a requeue timer runs (`"later"`) |
| `pc`, `hdb` | the sub-reconciler that runs next, and the worker's copy of the CR |
| `bootstraps`, `serverInits` | the effects of the two `hadmin` commands |
| `faults` | faults so far |

`Reconcile` takes the CR from the queue; then each sub-reconciler is one action,
except that `bootstrapHStore` and `bootstrapHServer` are two each (the command
and the status update that records it), since a crash or an edit between the
two is what makes them hard, and the two ConfigMaps and four Services of one
sub-reconciler are one action each for the same reason. `Write` models the
pattern get–compare–create-or-update with its outcomes: nothing to do, accepted,
refused because the cache was stale, failed (with or without effect).
`StatusUpdate` is the optimistic update of the status. `processRequeue`
translates the result. The environment delivers watches (`SyncCR`, `SyncKind`),
lets timers expire (`RequeueAfter`), starts, stops and kills pods, edits and
deletes the CR, collects garbage and kills the operator.

Abstractions:

* A pod template is an opaque value, except for what is not taken from the
  component itself: the number of shards in HStore, the port in HServer, gateway
  and console. Node counts stand for the LogDevice configuration.
* The API server refuses an update unless the cached object *equals* the current
  one; Kubernetes compares resource versions. The two differ only if an object
  returns to an earlier value while a cache lags, where the model accepts an
  update Kubernetes would refuse and retry.
* A `Get` served by a cache can in practice only answer NotFound; `GetErrors`
  adds other errors where the code swallows them (`NShardsConfig`,
  `getNShardFromExistingConfigMap`, `findHServerPort`). Elsewhere they end the
  reconciliation and are faults of `Write`.
* The delays are not measured: a timer expires at some time after it is set.
* A pod that is replaced because of a new template is `PodFail` then `PodReady`.
* An external HMeta cluster answers unless there is a fault.

### Connector: state and actions

| variable | in the system |
|---|---|
| `template`, `connector` | the two resources in the API server, with uid and, for a foreground deletion, deletion timestamp |
| `cms`, `deps` | ConfigMaps (of the template and of each stream) and Deployments, with the uid of their owner |
| `templateSeen`, `connectorSeen`, `cmSeen` | the informer caches; Deployments are never read |
| `tq`, `cq` | the two work queues: `"now"` and, after an error, `"later"` |
| `pc`, `conn`, `configs`, `idx` | the connector worker inside its loop: its copy of the connector, the merged configurations, the stream it is at |
| `uid`, `faults` | uids given, faults so far |

`ReconcileTemplate` is the whole of the template's Reconcile, which changes at
most one object. The connector's Reconcile is cut where the API server is
written: `Reconcile` fetches and merges, `CreateConfigMap` and
`createConnectorDeployment` are the body of the loop. A call to create an object
succeeds, is refused (the object exists, a port name occurs twice), or fails with
or without effect. The environment delivers watches and retries, creates, edits
and deletes the resources, collects children whose owner is gone, completes a
foreground deletion and kills the operator.

Abstractions: a configuration maps a few keys to values; names of streams are
sequences of characters because the code replaces one of them, and a child's name
is what it is after the connector's own name and infix; of a container only the
names of its ports are kept, since the code accumulates them from stream to
stream; the rest of the spec is copied as it is. A template is not edited: its
controller ignores edits, and so does the model of it, which never compares the
ConfigMap with the template. `templateCM` differs from every stream's name, as it
does unless template and connector are named to clash.

### ChildSync: state and actions

| variable | in the system |
|---|---|
| `crs`, `children` | the versions of the CR and of the child, from the cached to the current one |
| `queued`, `pc`, `hdb` | as in `HStreamDBReconciler`, with the chain reduced to the child and the status |
| `uid`, `wants` | incarnations of the CR; what each generation of the present one asked for (history) |
| `writes`, `faults` | status updates of the child by others, and faults, so far |

`Add` is the reconcile function of a child (`addHServer`, like the others): get from
the cache, then create, update or leave. A create is refused if there is a child,
an update unless the cached version is the current one; either may fail with or
without effect. `Report` is `updateStatus`. The rest of the chain is left out,
except that a fault of `Report` stands for any sub-reconciler that ends the
reconciliation early. `SyncCR` and `SyncChild` deliver one version each; only the
first can wake the worker, through the filter of `SetupWithManager`. A child's
content is equal iff the hashes are; its field `gen`, which no step reads, records
the generation it was written for. `GarbageCollect` goes by the uid of the owner.

### FlagSet and ContainerPorts: state and actions

A word of the args is a record of what the parsers look at: the number of leading
dashes, the text up to the first `=`, and the word after it. Texts are opaque;
constants say which are numbers, which are `host:port`, and how names are ordered.
`parseOne` and `Parse` follow `flagset.go`, with the panic on a single `-` and with
the flags parsed before an error, which some callers use. `Kind` names the cases
of a word. `consumed`, `wellFormed` and `meaning` are the reference: which words
belong to the args and what they mean, without the parser's state. `isArgs` and
`valuedArgs` say what args are: sequences of such words, of any length.

| variable | in the system |
|---|---|
| `spec`, `hdb` | args, ports, command and `SERVER_PORT` of each component, in the CR and in the worker's copy |
| `pc` | the step of the chain, 0 between passes, `Len(Chain) + 1` at the end of one |
| `rqlite` | the port of HMeta in the LogDevice ConfigMap, and (history) the args it was taken from |
| `svc`, `pod` | ports of the Services; args, ports and addresses of the pods |
| `edits` | edits so far |

Each sub-reconciler that reads args or ports is one action, in the order of the
chain; `Fault` ends a pass anywhere. An object is written if its hash differs;
`odd` is the hash of a slice: the library combines the hashes of the elements of a
set with an exclusive or, so that order is lost and equal elements cancel.
An address is a record of the component, the name of the port and the number.
Left out: an external HMeta (whose address the user gives), probes and
`HSTREAM_PRIVATE_ADDRESS` set by the user, and the gateway's port, which
`HStreamDBReconciler` has.

### Bounds

`MaxUid` (incarnations), `MaxGen` and `MaxEdits` (edits), `MaxFaults` (faults of any
kind), `MaxLag` and `MaxWrites` (versions of a child on their way to the cache, and
writes by others), `MaxWords` (words in args) and the finite sets of specs, contents
and node lists. Everything else is unbounded and finite by nature.

## Runs

All runs but `ports` and `addresses`, whose worker can always start another pass,
turn deadlock checking off: a controller that has reached the desired state and
waits for the next event is meant to stop there.

| run | instance | checks |
|---|---|---|
| `faults` | all components, 2 store pods, all caches lag, 2 faults, swallowed Get errors | `ServerAfterStore`, `ReadyIsEarned`, `BootstrapsFenced`, `InitsFenced`, `ConditionsNeverLost`, `BootstrapsRunningStore` |
| `edits` | one edit (templates, shards, optional components, external HMeta) in either direction, caches of ConfigMaps and workloads lag, 1 fault | `ReadyMeansApplied`, `NShardsStable`, `ImplementsLifecycle` |
| `deletion` | deletion at any moment | `TypeOK`, `DeletedIsCleaned` |
| `liveness` | one edit (gateway, external HMeta) in either direction, two node lists of HMeta to alternate, lagging StatefulSets, 1 fault | `EventuallyReady`, `Quiesces` |
| `connector` | one stream, three incarnations of the two resources, both deleted in either way, 1 fault | `TypeOK`, `OwnConfig` |
| `connector_served` | two streams and an edit, deletion of the connector, a malformed template, 1 fault | `OwnConfig`, `UndisturbedIsServed`, `ConnectorCleaned` |
| `child` | two contents, three generations, two incarnations, two versions in flight, a foreign write, 1 fault | `TypeOK`, `ReadyMeansApplied`, `UndisturbedIsApplied`, `OrphansCollected` |
| `ports` | for one component at a time all args of up to three words of every kind, with and without ports of the user; a further port of the HServer; eight specs edited into one another at any moment; interrupted passes | `ParsesGrammar`, `ParsersAgree`, `ExtendKeepsUser`, `PortsAgree`, `HMetaAddressesAgree`, `DeclaredIsListened`, `PodsFollowSpec` |
| `shards_default` | `spec.config` left out | `NShardsStable` is violated |
| `connector_retry` | one stream, 1 fault | `EventuallyServed` is violated |
| `child_recreated` | the CR is created twice, no edits, no faults | `EventuallyApplied` is violated |
| `addresses` | HMeta with `--http-addr h:4002` | `AddressesListened` is violated |

Why the bounds are enough: there is one worker, so two faults cover a fault and
a second one in the recovery from it; a lagging cache may hold any earlier
value, and one edit gives two versions of everything to mix up; one pod per
component makes a workload running or not, and two store pods make it partly
running. For a child, three generations allow a revert and two contents make one
of them equal to another; the second incarnation meets all that the first leaves
behind. For connectors, a third uid is what it takes for an old and a new
incarnation beside the other resource, and two streams are what the loop can mix up.
For args, whether a word fits depends on the word before it alone, so three words
show a flag, its value and what comes after, repeated flags with `=`, and every kind
of word in every position; the args of four words in the edits show two flags that
exchange their values.

What the violations show:

* `shards_default`. The default of `nshards` in the CRD applies only if
  `spec.config` is given. Without it the ConfigMap gets `GetMinNShards` = 1, but
  `addHStore`, when its cache has not seen the new ConfigMap, falls back on the
  raw 0. The store is created with 0 shards, then updated to 1. In `edits` the
  property holds, as long as the CR exists: a shard count given in the spec is
  found in the ConfigMap before any store exists, and an edited one does not reach
  the store. That run has no swallowed Get errors, each of which would let the edit
  through.
* `connector_retry`. The Deployment of a stream is created only by the
  reconciliation that creates its ConfigMap. When that is interrupted between the
  two, later ones find the ConfigMap and skip the stream. `UndisturbedIsServed`
  says what is left: without faults and earlier incarnations all is well.
* `child_recreated`. The reconciliation for the new CR finds the child of the old
  one, with the right hash and the wrong owner, and leaves it alone; the garbage
  collector deletes it, and no event of a child wakes the controller.
  `UndisturbedIsApplied` says what is left.
* `addresses`. Everything that is built for HMeta follows `--http-addr`, except the
  probes and the operator's own requests.

The passing instances leave out some cases in which the same properties fail; a
change of constants shows them:

* `ReadyMeansApplied` of `HStreamDBReconciler` with an edited HServer port: the
  gateway takes the port from the cached StatefulSet that `addHServer` has just
  updated (`add_geteway.go:156`), keeps the old one, and Ready is reported.
* `BootstrapsRunningStore` with a store that is scaled before its bootstrap:
  `checkPodRunningStatus` compares the ready pods with the replicas of the cached
  StatefulSet, not of the spec.
* `EventuallyServed` with streams `a_b` and `a-b`: `_` becomes `-` in the names of
  the children, so one of the two is taken for done.
* `EventuallyApplied` with `MaxUid = 1`, `MaxGen = 3`: an edit and its revert, the
  second reconciled while the cache still shows the child as it was before the first.
* `AddressesListened` with `--internal-port` for the HServer (the seed nodes keep
  6571), or with an HMeta that is moved after LogDevice was configured, as far as
  `HMetaAddressesAgree` says (`rqlite.args` are then not those of the spec).
* `PodsFollowSpec` extended to the args of HStore: `--a 7 --b 8` edited to
  `--a 8 --b 7` has the same hash and is never applied. The same holds for the args of
  a shell the user gives the HServer, whose args the property leaves out.
* `PortsAgree` with a port of HStore that the user calls `name`: the default arg
  `--name` overrides it in the pods, with 0 since its value is no number, and not in
  the Service.
* `DeclaredIsListened` with a further port of the HServer, named by a flag of its own:
  it is covered in the pods only if `--port` or `--internal-port` is given as well. The
  property speaks of these two for the HServer, and of all ports elsewhere. It also
  fails after an edit from `--a=--admin-port --b=7` to `--admin-port 7 --a "" --b ""`
  of the admin servers: the same words in another order, thus the same hash.

### Fairness

`Fairness` is weak fairness of the worker, of timers, of watches, of the
kubelets and the garbage collector. The worker runs whenever the queue has work
(controller-runtime restarts it after a panic: the operator's Deployment does);
a watch delivers every final state; a pod that is asked for comes up. Faults,
edits and deletions have none. `MaxFaults` is finite, so faults stop in the end,
without which nothing could be promised. `Connector` has the same, for each of the
two workers, their retries and each watch; `ChildSync` for its worker, timer, both
watches and the garbage collector, and none for writes of the child by others.
`ContainerPorts` states safety only.

## Proofs

`HStreamDBReconciler_proofs` proves for every set of specs, templates and
lagging kinds and any `MaxGen` and `MaxFaults`, from `ConstantsAssumption` alone:

* `TypeCorrect`: `TypeOK`.
* `ServerNeverBeforeStore`, `ReadyIsAlwaysEarned`: from `OrderInv`. Neither
  property is inductive, since the worker acts on its own copy of the CR, read
  from a cache that may be old. `OrderInv` says of *each* copy (API server, cache,
  worker) that a True condition stands for an effect that took place; the effects
  are never undone, so an old copy is honest too.
* `BootstrapsAlwaysFenced`, `InitsAlwaysFenced`: from `FenceInv`. A stale copy
  says less than the truth, so here it is the status update of
  `updateHMetaStatus` that matters: it comes before the commands and conflicts
  on a stale copy, so past it the worker's copy is current or older by an edit.
  `FenceInv` counts: as long as a condition is not recorded there is room for
  one more effect within `cr.gen + faults`, unless the worker is about to
  record it. Without the update the bound fails (the mutant of `BootstrapsFenced`).

The argument is the same in each case. Every action is shown to have one of a
few *shapes* (`ChildStep`, `StatusStep`, `EffectStep`, `RestartStep`, …; lemma
`NextIsStep`) that keep where the worker goes and forget what it writes, and the
invariants are proved from the shapes.

`Connector_proofs` proves for every set of streams, specs and configurations and
any bounds, from `ConnectorAssumption`:

* `TypeCorrect`: `TypeOK`; in particular the index of the loop stays within the
  streams and the merged configurations.
* `OwnConfigAlways`: `OwnConfig`, if no patch sets the key `stream`
  (`PatchesKeepStream`; nothing in the code keeps a user from it). `OwnConfig` is
  not inductive: it is the worker's *position* that makes a new Deployment safe.
  `OwnInv` adds that between the two creations the ConfigMap of the worker's
  connector is in place (`HalfWay`), that each merged configuration names its
  stream, and that all uids in use were given before, so that a new connector owns
  nothing. A ConfigMap is created only where there is none, thus where the present
  connector has no Deployment.

`ChildSync_proofs` proves for every set of contents and any bounds, from
`ConstantsAssumption` and `NoneAssumption`:

* `TypeCorrect`: `TypeOK`.
* `ReadyAlwaysMeansApplied`: `ReadyMeansApplied`. The worker compares its copy with
  a cached child, and neither need be current; what makes Ready true is an order.
  `SyncInv` says, as long as the first incarnation lives, that generations never
  decrease along the versions of the CR and of the child, that no version of the
  child is of a generation the worker's copy or the cached CR has not reached, that
  each has the content of its generation, and that past `Add` the current child is
  of the copy's generation. If no two generations ask for the same, equal hashes
  mean equal generations, and a cached child of the copy's generation cannot have
  been overtaken. With a revert the last step fails, and so does the property.

`HStreamDBLifecycle_proofs` proves, from `ConstantsAssumption` alone:

* `ConditionsAreNeverLost`: `ConditionsNeverLost`, and
* `RefinesLifecycle`: `ImplementsLifecycle`, the refinement of `ClusterLifecycle`,
  step by step over the shapes. `OrderInv` is not enough for either. `LifecycleInv`
  adds that a condition which the cache or the worker claims the CR claims too, so
  that a status update from a copy loses nothing; that past `updateHMetaStatus` and
  `bootstrapHServer` the worker's copy has the conditions these record, so that
  `updateStatus` has no reason to set Ready to False; and that a cached child exists
  as long as the CR does.

`HStreamDBChildren_proofs` proves three properties that are false without some
assumption on specs or caches, each under such an assumption, for any number of
edits, faults, restarts and a deletion. TLC finds a counterexample without each of them.

* `NShardsAlwaysStable`: `NShardsStable`, if no Get fails (`~GetErrors`) and the specs
  give the number of shards or ConfigMaps are not read late (`ShardsKnown`;
  `shards_default` is the other case). `ShardInv`: once `NShardsConfig` is passed there is
  a ConfigMap, with the number of the worker's copy if the cache does not show it yet,
  and the store has the number in it.
* `ReadyAlwaysMeansApplied`: `ReadyMeansApplied`, if no Get fails, no demand on a child that
  is read late returns to an earlier one (`NoReverts`: there is at most one edit, or
  edits leave that child alone) and, where StatefulSets are read late, the port of the
  HServer is not edited. With a revert the cached child may look right while the current
  one is not; with a port edited the gateway takes the old one. The invariant has four
  parts. `GenInv`: a copy is never newer than the CR, and once Ready is reported for the
  current generation no older copy is left. `FitInv`: behind the worker, each child is
  what its copy asks for. `LateInv` and `ServerSeen`, the history of the children read
  late: a cached child that looks right is. `StoreInv`: the pass that creates the ConfigMap
  of the shards may give the store a wrong number (as in `shards_default`), but ends at the
  bootstrap; a pass that gets further has read the ConfigMap and corrected the store, so
  Ready needs no assumption on the number of shards.
* `AlwaysBootstrapsRunningStore`: `BootstrapsRunningStore`, if StatefulSets are not read
  late or no edit scales the store (`StoreSizeKnown`), also with failing Gets. `SizeInv`
  relates the cached number of ready pods to the current one.

`FlagSet_proofs` and `ContainerPorts_proofs` prove the invariants of `ContainerPorts` for
args of any length, any specs and any edits. They rest on `RankAssumption` and
`NoneAssumption` (names of flags can be ordered, as strings can), `SpecsAssumption` (args
are sequences of words), `DefaultsAssumption` (the flags the operator writes are ordered
too) and `NumbersAssumption` (`"6570"` and `"6571"` are the numbers they look like).

* `AlwaysParsesGrammar`, `ParsersAlwaysAgree`, `ExtendAlwaysKeepsUser`: what the parsers and
  `extendArgs` compute. The loops are functions over the number of rounds, and their
  invariants are proved for every round by the least counterexample (`NatMin`). For
  `Parse`, `RunInv` says that the words so far fit and that the map is what they mean;
  for `Visit`, the flags have places of their own, so that writing and parsing again
  gives the same map (`ExtendAlwaysKeepsUser`).
* `PodsAlwaysFollowSpec`, `HMetaAddressesAlwaysAgree`, `PortsAlwaysAgree`,
  `DeclaredIsAlwaysListened`: from `PassInv`. Behind the step that writes it, an object has
  the hash of what the chain makes of the worker's copy; before it, the object is what the
  chain made of *some* spec, and the properties follow from what the hash tells of an
  object of that form. This needs ports with names of their own (`DistinctPorts`; the API
  server refuses others). `PortsAlwaysAgree` needs `PortsNamedApart` and
  `DeclaredIsAlwaysListened` needs `ValuesAreNoFlags`: the two cases above in which they fail.

Only model-checked: liveness (`EventuallyReady`, `Quiesces`, `DeletedIsCleaned`,
`UndisturbedIsServed`, `ConnectorCleaned`, `UndisturbedIsApplied`,
`OrphansCollected`), which is out of the prover's reach. Every invariant, every action
property and the refinement that a passing run checks is also the statement of a theorem,
under the assumptions given here.

## Plan

What is left, in this order:

1. An abstract specification of `Connector` (each stream is configured, then
   deployed, at most once per incarnation), its refinement and the proof of it.
2. `ReadyMeansApplied` of `HStreamDBReconciler` with caches that keep every version, as
   `ChildSync` has them, so that several edits of a child read late need not be excluded.
3. Pods of several HStreamDB instances behind one selector of the admin client.

Not modelled: the entry point (wiring), generated code, names and volume claims, the
environment variables, labels and volumes of pods, the text of messages and events;
the merge of the user's JSON into the LogDevice configuration, where the user's
leaves win and what LogDevice makes of them is outside this repository; and
`mergePorts`, which nothing calls.
