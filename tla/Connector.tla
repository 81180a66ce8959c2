----------------------------- MODULE Connector -----------------------------
(***************************************************************************)
(* The Connector and ConnectorTemplate controllers                         *)
(* (internal/controller/connector_controller.go and                        *)
(* connectortemplate_controller.go) for one template and one connector     *)
(* that uses it.                                                           *)
(*                                                                         *)
(* The template controller copies the template's configuration into a      *)
(* ConfigMap.  The connector controller merges it with the connector's     *)
(* patches and creates, for each stream, a ConfigMap and a Deployment.     *)
(* The two run concurrently, share the informer of ConfigMaps, and only    *)
(* ever create.  Resources may be deleted and created again under the same *)
(* name: uid tells the incarnations apart, as in owner references.         *)
(***************************************************************************)
EXTENDS Integers, Sequences

CONSTANTS
  Streams,    \* names of streams: sequences of characters
  Keys,       \* keys of a connector configuration, "stream" among them
  Values,     \* their values, stream names among them
  PortNames,  \* names of container ports, "unnamed" among them
  Configs,    \* values of a template's spec.config
  Specs,      \* values of a connector's spec
  Deletable,  \* which of the two resources the user deletes
  MaxUid,     \* bound on the number of templates and connectors created
  MaxGen,     \* bound on metadata.generation of a connector: MaxGen - 1 edits
  MaxFaults,  \* bound on faults in a behaviour
  Malformed,  \* JSON that cannot be unmarshalled
  None        \* absence of an object, a key or a patch

(* A configuration gives some of the keys a value. *)
Config == [Keys -> Values \cup {None}]

(* ConnectorSpec: ports and containerPorts hold the names of the ports.    *)
(* Everything else of it is copied into each Deployment as it is.          *)
ConnectorSpec ==
  [streams : Seq(Streams) \ {<<>>},
   patches : [Streams -> Config \cup {None}] \cup {Malformed},
   ports : Seq(PortNames), containerPorts : Seq(PortNames)]

(* The names of the children, after the connector's own name. *)
dashed(stream) == [i \in DOMAIN stream |-> IF stream[i] = "_" THEN "-" ELSE stream[i]]

GenConnectorConfigMapNameForStream(stream) == dashed(stream)
GenConnectorDeploymentName(stream) == dashed(stream)

Names == {dashed(s) : s \in Streams}
templateCM == <<"hct">>
CMs == Names \cup {templateCM}

ConnectorTemplate == [uid : Nat \ {0}, config : Config \cup {Malformed}, deleting : BOOLEAN]
ConnectorType == [uid : Nat \ {0}, gen : Nat, spec : ConnectorSpec, deleting : BOOLEAN]
ConfigMap == [owner : Nat, config : Config \cup {Malformed}]
Deployment == [owner : Nat, stream : Streams, ports : Seq(PortNames)]

ASSUME ConnectorAssumption ==
  /\ Streams \subseteq Values /\ "stream" \in Keys /\ "unnamed" \in PortNames
  /\ templateCM \notin Names
  /\ Configs \subseteq Config \cup {Malformed}
  /\ Specs \subseteq ConnectorSpec
  /\ Deletable \subseteq {"template", "connector"}
  /\ MaxUid \in Nat /\ MaxGen \in Nat /\ MaxFaults \in Nat
  /\ None \notin ConnectorTemplate \cup ConnectorType \cup ConfigMap \cup Deployment

VARIABLES
  template, connector,          \* the two resources in the API server
  cms, deps,                    \* ConfigMaps and Deployments in the API server
  templateSeen, connectorSeen,  \* the informer caches
  cmSeen,
  tq, cq,                       \* the work queues of the two controllers
  pc,                           \* the connector worker: "idle", "cm" or "deploy"
  conn, configs, idx,           \* its copy of the connector, its configs and index
  uid,                          \* the last uid given
  faults

vars == <<template, connector, cms, deps, templateSeen, connectorSeen, cmSeen,
          tq, cq, pc, conn, configs, idx, uid, faults>>
api == <<template, connector, uid>>
caches == <<templateSeen, connectorSeen, cmSeen>>
worker == <<pc, conn, configs, idx>>

Pending == {"now", "later"}

(* A queue after the item was processed, with or without an error. *)
Done(q) == q \ {"now"}
Retry(q) == (q \ {"now"}) \cup {"later"}

Fault == faults < MaxFaults /\ faults' = faults + 1

(* Mutant: the child is created without an owner. *)
SetControllerReference_forgotten(owner) == 0

SetControllerReference(owner) == owner.uid

-----------------------------------------------------------------------------
(* The ConnectorTemplate controller. *)

ReconcileTemplate ==
  LET t == templateSeen
      nothingToDo == t # None /\ ~t.deleting => cmSeen[templateCM] # None
      created == [cms EXCEPT ![templateCM] =
                    [owner |-> SetControllerReference(t), config |-> t.config]]
  IN  /\ "now" \in tq
      /\ \/ /\ nothingToDo
            /\ tq' = Done(tq)
            /\ UNCHANGED <<cms, faults>>
         \/ /\ ~nothingToDo
            /\ cms[templateCM] = None
            /\ cms' = created
            /\ tq' = Done(tq)
            /\ UNCHANGED faults
         \/ /\ ~nothingToDo
            /\ cms[templateCM] # None
            /\ tq' = Retry(tq)
            /\ UNCHANGED <<cms, faults>>
         \/ /\ ~nothingToDo
            /\ Fault
            /\ cms' \in IF cms[templateCM] = None THEN {cms, created} ELSE {cms}
            /\ tq' = Retry(tq)
      /\ UNCHANGED <<api, deps, caches, cq, worker>>

-----------------------------------------------------------------------------
(* The Connector controller. *)

(* f with the values g has. *)
overlay(f, g) == [k \in Keys |-> IF g[k] # None THEN g[k] ELSE f[k]]

(* Mutant: the streams share one map instead of each having a copy. *)
mergePatchesIntoConfigs_sharesMap(c, templateConfig) ==
  LET last == c.spec.streams[Len(c.spec.streams)]
  IN  [i \in DOMAIN c.spec.streams |-> [templateConfig EXCEPT !["stream"] = last]]

(* The configuration of each stream. *)
mergePatchesIntoConfigs(c, templateConfig) ==
  [i \in DOMAIN c.spec.streams |->
     LET stream == c.spec.streams[i]
         config == [templateConfig EXCEPT !["stream"] = stream]
         patch == c.spec.patches[stream]
     IN  IF patch = None THEN config ELSE overlay(config, patch)]

Idle == pc' = "idle" /\ conn' = None /\ configs' = <<>> /\ idx' = 0

(* Mutant: the error of a missing template is not returned. *)
Reconcile_dropsError ==
  LET c == connectorSeen
      gone == c # None => c.deleting
      tcm == cmSeen[templateCM]
      mergeable == tcm # None /\ tcm.config # Malformed /\ c.spec.patches # Malformed
  IN  /\ pc = "idle"
      /\ "now" \in cq
      /\ cq' = Done(cq)
      /\ \/ ~(~gone /\ mergeable) /\ UNCHANGED worker
         \/ /\ ~gone /\ mergeable
            /\ pc' = "cm"
            /\ conn' = c
            /\ configs' = mergePatchesIntoConfigs(c, tcm.config)
            /\ idx' = 1
      /\ UNCHANGED <<api, cms, deps, caches, tq, faults>>

(* Mutant: a connector that is gone is reconciled. *)
Reconcile_ignoresNotFound ==
  /\ pc = "idle"
  /\ "now" \in cq
  /\ cq' = Done(cq)
  /\ pc' = "cm"
  /\ conn' = connectorSeen
  /\ configs' = <<>>
  /\ idx' = 1
  /\ UNCHANGED <<api, cms, deps, caches, tq, faults>>

(* Reconcile up to the loop: fetch the connector and merge its configs.    *)
Reconcile ==
  LET c == connectorSeen
      gone == c # None => c.deleting
      tcm == cmSeen[templateCM]
      mergeable == tcm # None /\ tcm.config # Malformed /\ c.spec.patches # Malformed
  IN  /\ pc = "idle"
      /\ "now" \in cq
      /\ \/ gone /\ cq' = Done(cq) /\ UNCHANGED worker
         \/ ~gone /\ ~mergeable /\ cq' = Retry(cq) /\ UNCHANGED worker
         \/ /\ ~gone /\ mergeable
            /\ cq' = Done(cq)
            /\ pc' = "cm"
            /\ conn' = c
            /\ configs' = mergePatchesIntoConfigs(c, tcm.config)
            /\ idx' = 1
      /\ UNCHANGED <<api, cms, deps, caches, tq, faults>>

(* An error inside the loop. *)
Fail == Idle /\ cq' = Retry(cq)

(* On to the next stream, with the connector as c. *)
NextStream(c) ==
  /\ IF idx < Len(c.spec.streams)
     THEN pc' = "cm" /\ conn' = c /\ idx' = idx + 1 /\ UNCHANGED configs
     ELSE Idle
  /\ UNCHANGED cq

(* Mutant: a ConfigMap that exists already is taken for the created one.   *)
CreateConfigMap_ignoresAlreadyExists ==
  LET name == GenConnectorConfigMapNameForStream(conn.spec.streams[idx])
      created == [cms EXCEPT ![name] =
                    [owner |-> SetControllerReference(conn), config |-> configs[idx]]]
  IN  /\ pc = "cm"
      /\ \/ cmSeen[name] # None /\ NextStream(conn) /\ UNCHANGED <<cms, faults>>
         \/ /\ cmSeen[name] = None
            /\ cms' = IF cms[name] = None THEN created ELSE cms
            /\ pc' = "deploy"
            /\ UNCHANGED <<conn, configs, idx, cq, faults>>
         \/ /\ cmSeen[name] = None /\ Fault
            /\ cms' \in IF cms[name] = None THEN {cms, created} ELSE {cms}
            /\ Fail
      /\ UNCHANGED <<api, deps, caches, tq>>

(* The body of the loop: the Deployment is created only right after the    *)
(* ConfigMap was.                                                          *)
CreateConfigMap ==
  LET name == GenConnectorConfigMapNameForStream(conn.spec.streams[idx])
      created == [cms EXCEPT ![name] =
                    [owner |-> SetControllerReference(conn), config |-> configs[idx]]]
  IN  /\ pc = "cm"
      /\ \/ cmSeen[name] # None /\ NextStream(conn) /\ UNCHANGED <<cms, faults>>
         \/ /\ cmSeen[name] = None /\ cms[name] = None
            /\ cms' = created
            /\ pc' = "deploy"
            /\ UNCHANGED <<conn, configs, idx, cq, faults>>
         \/ cmSeen[name] = None /\ cms[name] # None /\ Fail /\ UNCHANGED <<cms, faults>>
         \/ /\ cmSeen[name] = None /\ Fault
            /\ cms' \in IF cms[name] = None THEN {cms, created} ELSE {cms}
            /\ Fail
      /\ UNCHANGED <<api, deps, caches, tq>>

(* The API server wants the named ports of a container to differ. *)
validPorts(ports) ==
  \A i, j \in DOMAIN ports : ports[i] = ports[j] /\ ports[i] # "unnamed" => i = j

(* The ports of the first stream stay in the connector and are added to    *)
(* those of the next one.                                                  *)
createConnectorDeployment ==
  LET stream == conn.spec.streams[idx]
      name == GenConnectorDeploymentName(stream)
      containerPorts == <<"unnamed">> \o conn.spec.ports \o conn.spec.containerPorts
      accepted == deps[name] = None /\ validPorts(containerPorts)
      created == [deps EXCEPT ![name] =
                    [owner |-> SetControllerReference(conn), stream |-> stream,
                     ports |-> containerPorts]]
  IN  /\ pc = "deploy"
      /\ \/ /\ accepted
            /\ deps' = created
            /\ NextStream([conn EXCEPT !.spec.ports = containerPorts])
            /\ UNCHANGED faults
         \/ ~accepted /\ Fail /\ UNCHANGED <<deps, faults>>
         \/ /\ Fault
            /\ deps' \in IF accepted THEN {deps, created} ELSE {deps}
            /\ Fail
      /\ UNCHANGED <<api, cms, caches, tq>>

-----------------------------------------------------------------------------
(* The work queues and the informers.  Both controllers watch their own    *)
(* resource and the ConfigMaps it owns, not the Deployments.               *)

RequeueAfter ==
  /\ \/ "later" \in tq /\ tq' = {"now"} /\ UNCHANGED cq
     \/ "later" \in cq /\ cq' = {"now"} /\ UNCHANGED tq
  /\ UNCHANGED <<api, cms, deps, caches, worker, faults>>

SyncTemplate ==
  /\ templateSeen # template
  /\ templateSeen' = template
  /\ tq' = tq \cup {"now"}
  /\ UNCHANGED <<api, cms, deps, connectorSeen, cmSeen, cq, worker, faults>>

SyncConnector ==
  /\ connectorSeen # connector
  /\ connectorSeen' = connector
  /\ cq' = cq \cup {"now"}
  /\ UNCHANGED <<api, cms, deps, templateSeen, cmSeen, tq, worker, faults>>

SyncConfigMaps ==
  /\ cmSeen # cms
  /\ cmSeen' = cms
  /\ tq' = IF cmSeen[templateCM] # cms[templateCM] THEN tq \cup {"now"} ELSE tq
  /\ cq' = IF \E n \in Names : cmSeen[n] # cms[n] THEN cq \cup {"now"} ELSE cq
  /\ UNCHANGED <<api, cms, deps, templateSeen, connectorSeen, worker, faults>>

(* The user. *)

Unobserved == UNCHANGED <<caches, tq, cq, worker>>

CreateTemplate ==
  /\ template = None /\ uid < MaxUid
  /\ uid' = uid + 1
  /\ \E c \in Configs : template' = [uid |-> uid + 1, config |-> c, deleting |-> FALSE]
  /\ UNCHANGED <<connector, cms, deps, faults>> /\ Unobserved

CreateConnector ==
  /\ connector = None /\ uid < MaxUid
  /\ uid' = uid + 1
  /\ \E s \in Specs :
       connector' = [uid |-> uid + 1, gen |-> 1, spec |-> s, deleting |-> FALSE]
  /\ UNCHANGED <<template, cms, deps, faults>> /\ Unobserved

EditConnector ==
  /\ connector # None
  /\ connector.gen < MaxGen
  /\ \E s \in Specs \ {connector.spec} :
       connector' = [connector EXCEPT !.spec = s, !.gen = @ + 1]
  /\ UNCHANGED <<template, uid, cms, deps, faults>> /\ Unobserved

(* Deletion in the background, or in the foreground: the resource stays    *)
(* until its children are gone.                                            *)
Delete ==
  /\ \/ /\ "template" \in Deletable /\ template # None
        /\ template' \in {None, [template EXCEPT !.deleting = TRUE]}
        /\ UNCHANGED connector
     \/ /\ "connector" \in Deletable /\ connector # None
        /\ connector' \in {None, [connector EXCEPT !.deleting = TRUE]}
        /\ UNCHANGED template
  /\ UNCHANGED <<uid, cms, deps, faults>> /\ Unobserved

(* The garbage collector. *)

alive(owner) ==
  \/ template # None /\ template.uid = owner /\ ~template.deleting
  \/ connector # None /\ connector.uid = owner /\ ~connector.deleting

orphan(child) == child # None /\ child.owner # 0 /\ ~alive(child.owner)

CollectConfigMap(n) ==
  /\ orphan(cms[n])
  /\ cms' = [cms EXCEPT ![n] = None]
  /\ UNCHANGED <<api, deps, faults>> /\ Unobserved

CollectDeployment(n) ==
  /\ orphan(deps[n])
  /\ deps' = [deps EXCEPT ![n] = None]
  /\ UNCHANGED <<api, cms, faults>> /\ Unobserved

owns(resource, child) == child # None /\ child.owner = resource.uid

Finalize ==
  /\ \/ /\ template # None /\ template.deleting
        /\ ~owns(template, cms[templateCM])
        /\ template' = None
        /\ UNCHANGED connector
     \/ /\ connector # None /\ connector.deleting
        /\ \A n \in Names : ~owns(connector, cms[n]) /\ ~owns(connector, deps[n])
        /\ connector' = None
        /\ UNCHANGED template
  /\ UNCHANGED <<uid, cms, deps, faults>> /\ Unobserved

Crash ==
  /\ Fault
  /\ Idle
  /\ templateSeen' = template /\ connectorSeen' = connector /\ cmSeen' = cms
  /\ tq' = {"now"} /\ cq' = {"now"}
  /\ UNCHANGED <<api, cms, deps>>

-----------------------------------------------------------------------------

Init ==
  /\ template = None /\ connector = None
  /\ cms = [n \in CMs |-> None] /\ deps = [n \in Names |-> None]
  /\ templateSeen = None /\ connectorSeen = None /\ cmSeen = cms
  /\ tq = {} /\ cq = {}
  /\ pc = "idle" /\ conn = None /\ configs = <<>> /\ idx = 0
  /\ uid = 0 /\ faults = 0

ConnectorWorker == Reconcile \/ CreateConfigMap \/ createConnectorDeployment

Environment ==
  \/ RequeueAfter \/ SyncTemplate \/ SyncConnector \/ SyncConfigMaps
  \/ CreateTemplate \/ CreateConnector \/ EditConnector \/ Delete
  \/ \E n \in CMs : CollectConfigMap(n)
  \/ \E n \in Names : CollectDeployment(n)
  \/ Finalize \/ Crash

Next == ReconcileTemplate \/ ConnectorWorker \/ Environment

Spec == Init /\ [][Next]_vars

(* The workers run, timers expire, watches deliver, the garbage collector  *)
(* works.                                                                  *)
Fairness ==
  /\ WF_vars(ReconcileTemplate) /\ WF_vars(ConnectorWorker)
  /\ WF_vars(RequeueAfter /\ tq' # tq) /\ WF_vars(RequeueAfter /\ cq' # cq)
  /\ WF_vars(SyncTemplate) /\ WF_vars(SyncConnector) /\ WF_vars(SyncConfigMaps)
  /\ \A n \in CMs : WF_vars(CollectConfigMap(n))
  /\ \A n \in Names : WF_vars(CollectDeployment(n))
  /\ WF_vars(Finalize)

FairSpec == Spec /\ Fairness

-----------------------------------------------------------------------------
(* Properties. *)

(* Every variable keeps its type; inside the loop the worker has a         *)
(* connector, a config for each of its streams, and an index among them.   *)
TypeOK ==
  /\ template \in ConnectorTemplate \cup {None}
  /\ connector \in ConnectorType \cup {None}
  /\ cms \in [CMs -> ConfigMap \cup {None}]
  /\ deps \in [Names -> Deployment \cup {None}]
  /\ templateSeen \in ConnectorTemplate \cup {None}
  /\ connectorSeen \in ConnectorType \cup {None}
  /\ cmSeen \in [CMs -> ConfigMap \cup {None}]
  /\ tq \in SUBSET Pending /\ cq \in SUBSET Pending
  /\ pc \in {"idle", "cm", "deploy"}
  /\ conn \in ConnectorType \cup {None}
  /\ configs \in Seq(Config)
  /\ idx \in Nat
  /\ pc # "idle" => /\ conn \in ConnectorType
                    /\ idx \in 1 .. Len(conn.spec.streams)
                    /\ Len(configs) = Len(conn.spec.streams)
  /\ uid \in 0 .. MaxUid
  /\ faults \in 0 .. MaxFaults

(* A Deployment of the present connector has its ConfigMap, which belongs  *)
(* to this connector and not to an earlier one of the same name, and which *)
(* is the configuration of the stream the Deployment is for.               *)
OwnConfig ==
  connector # None /\ ~connector.deleting =>
    \A n \in Names : owns(connector, deps[n]) =>
      owns(connector, cms[n]) /\ cms[n].config["stream"] = deps[n].stream

(* Each stream of the connector has its Deployment. *)
Served ==
  \A i \in DOMAIN connector.spec.streams :
    LET stream == connector.spec.streams[i]
        deployment == deps[GenConnectorDeploymentName(stream)]
    IN  owns(connector, deployment) /\ deployment.stream = stream

Servable ==
  /\ connector # None /\ ~connector.deleting /\ connector.spec.patches # Malformed
  /\ cms[templateCM] # None /\ cms[templateCM].config # Malformed

(* A connector whose template has a configuration is served in the end:    *)
(* spec.streams are the streams it consumes from.                          *)
EventuallyServed == <>[](Servable => Served)

(* This is so for streams that differ in more than dashes, if nothing ever *)
(* fails and no resource of the same name existed before, however late the *)
(* template and its ConfigMap come and whatever is added to the spec.      *)
UndisturbedIsServed == <>[](Servable /\ faults = 0 /\ uid = 2 => Served)

(* The children of a deleted connector are in the end all gone, also those *)
(* created by a worker that had not noticed.                               *)
ConnectorCleaned ==
  <>[](connector = None => \A n \in Names : cms[n] = None /\ deps[n] = None)
=============================================================================
