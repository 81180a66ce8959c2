-------------------------- MODULE Connector_proofs --------------------------
(***************************************************************************)
(* Theorems about Connector, for every value of its constants.             *)
(***************************************************************************)
EXTENDS Connector, SequenceTheorems, TLAPS

(* The fields of a connector. *)
LEMMA ConnectorFields ==
  ASSUME NEW c \in ConnectorType
  PROVE  /\ c.uid \in Nat \ {0} /\ c.gen \in Nat /\ c.deleting \in BOOLEAN
         /\ c.spec \in ConnectorSpec
         /\ c.spec.streams \in Seq(Streams) \ {<<>>}
         /\ c.spec.patches \in [Streams -> Config \cup {None}] \cup {Malformed}
         /\ c.spec.ports \in Seq(PortNames) /\ c.spec.containerPorts \in Seq(PortNames)
  BY DEF ConnectorType, ConnectorSpec

(* A stream has a ConfigMap and a Deployment to its name, which the        *)
(* template's ConfigMap never shares.                                      *)
LEMMA NameTyped ==
  ASSUME NEW s \in Streams
  PROVE  /\ GenConnectorConfigMapNameForStream(s) \in Names
         /\ GenConnectorConfigMapNameForStream(s) \in CMs
         /\ GenConnectorDeploymentName(s) = GenConnectorConfigMapNameForStream(s)
  BY DEF Names, CMs, GenConnectorConfigMapNameForStream, GenConnectorDeploymentName

(* There is a configuration for each stream. *)
LEMMA MergeTyped ==
  ASSUME NEW c \in ConnectorType, c.spec.patches # Malformed, NEW t \in Config
  PROVE  /\ mergePatchesIntoConfigs(c, t) \in Seq(Config)
         /\ Len(mergePatchesIntoConfigs(c, t)) = Len(c.spec.streams)
  <1>1. /\ c.spec.streams \in Seq(Streams) \ {<<>>}
        /\ c.spec.patches \in [Streams -> Config \cup {None}]
    BY ConnectorFields
  <1>2. ASSUME NEW i \in DOMAIN c.spec.streams
        PROVE  mergePatchesIntoConfigs(c, t)[i] \in Config
    <2> DEFINE stream == c.spec.streams[i]
               config == [t EXCEPT !["stream"] = stream]
               patch == c.spec.patches[stream]
    <2>1. stream \in Streams
      BY <1>1
    <2>2. config \in Config
      BY <2>1, ConnectorAssumption DEF Config
    <2>3. patch \in Config \cup {None}
      BY <1>1, <2>1
    <2>4. patch \in Config => overlay(config, patch) \in Config
      BY <2>2 DEF overlay, Config
    <2>5. mergePatchesIntoConfigs(c, t)[i] =
            IF patch = None THEN config ELSE overlay(config, patch)
      BY DEF mergePatchesIntoConfigs
    <2> QED
      BY <2>2, <2>3, <2>4, <2>5
  <1>3. DOMAIN c.spec.streams = 1 .. Len(c.spec.streams) /\ Len(c.spec.streams) \in Nat
    BY <1>1
  <1>4. mergePatchesIntoConfigs(c, t) =
          [i \in 1 .. Len(c.spec.streams) |-> mergePatchesIntoConfigs(c, t)[i]]
    BY <1>3 DEF mergePatchesIntoConfigs
  <1> QED
    BY <1>2, <1>3, <1>4

(* Unless a patch says otherwise, the configuration names the stream. *)
LEMMA MergeStream ==
  ASSUME NEW c \in ConnectorType, c.spec.patches # Malformed, NEW t \in Config,
         NEW i \in DOMAIN c.spec.streams,
         \A s \in Streams : c.spec.patches[s] # None => c.spec.patches[s]["stream"] = None
  PROVE  mergePatchesIntoConfigs(c, t)[i]["stream"] = c.spec.streams[i]
  <1> DEFINE stream == c.spec.streams[i]
             config == [t EXCEPT !["stream"] = stream]
             patch == c.spec.patches[stream]
  <1>1. stream \in Streams
    BY ConnectorFields
  <1>2. config["stream"] = stream
    BY ConnectorAssumption DEF Config
  <1>3. patch # None => overlay(config, patch)["stream"] = stream
    BY <1>1, <1>2, ConnectorAssumption DEF overlay
  <1>4. mergePatchesIntoConfigs(c, t)[i] =
          IF patch = None THEN config ELSE overlay(config, patch)
    BY DEF mergePatchesIntoConfigs
  <1> QED
    BY <1>2, <1>3, <1>4

(* Accumulating ports changes nothing else of the worker's copy. *)
LEMMA PortsTyped ==
  ASSUME NEW c \in ConnectorType
  PROVE  LET ports == <<"unnamed">> \o c.spec.ports \o c.spec.containerPorts
             d == [c EXCEPT !.spec.ports = ports]
         IN  /\ ports \in Seq(PortNames)
             /\ d \in ConnectorType
             /\ d.uid = c.uid
             /\ d.spec.streams = c.spec.streams
  <1> DEFINE ports == <<"unnamed">> \o c.spec.ports \o c.spec.containerPorts
             d == [c EXCEPT !.spec.ports = ports]
  <1>0. <<"unnamed">> \in Seq(PortNames)
    BY ConnectorAssumption
  <1>1. ports \in Seq(PortNames)
    BY <1>0, ConnectorFields, ConcatProperties
  <1> HIDE DEF ports
  <1>2. c.spec \in ConnectorSpec
    BY ConnectorFields
  <1>3. [c.spec EXCEPT !.ports = ports] \in ConnectorSpec
    BY <1>1, <1>2 DEF ConnectorSpec
  <1>4. [c.spec EXCEPT !.ports = ports].streams = c.spec.streams
    BY <1>2 DEF ConnectorSpec
  <1>5. d = [c EXCEPT !.spec = [c.spec EXCEPT !.ports = ports]]
    BY DEF ConnectorType
  <1>6. d \in ConnectorType /\ d.uid = c.uid /\ d.spec = [c.spec EXCEPT !.ports = ports]
    BY <1>3, <1>5 DEF ConnectorType
  <1> QED
    BY <1>1, <1>4, <1>6 DEF ports

-----------------------------------------------------------------------------
(* Types. *)

(* A queue stays a queue, with or without an error. *)
LEMMA QueueTyped ==
  ASSUME NEW q \in SUBSET Pending
  PROVE  Done(q) \in SUBSET Pending /\ Retry(q) \in SUBSET Pending
  BY DEF Done, Retry, Pending

(* Faults stay within their bound. *)
LEMMA FaultTyped ==
  ASSUME faults \in 0 .. MaxFaults, Fault
  PROVE  faults' \in 0 .. MaxFaults
  BY ConnectorAssumption DEF Fault

(* The initial states are well typed. *)
LEMMA InitTypeOK == Init => TypeOK
  BY ConnectorAssumption DEF Init, TypeOK, Pending, CMs

(* The template controller. *)
LEMMA TemplateTypeOK ==
  ASSUME TypeOK, ReconcileTemplate
  PROVE  TypeOK'
  <1> DEFINE created == [cms EXCEPT ![templateCM] =
                           [owner |-> SetControllerReference(templateSeen),
                            config |-> templateSeen.config]]
  <1>1. templateCM \in CMs
    BY DEF CMs
  <1>2. cms' # cms => cms' = created /\ templateSeen # None
    BY DEF ReconcileTemplate
  <1>3. templateSeen # None => created \in [CMs -> ConfigMap \cup {None}]
    BY <1>1 DEF TypeOK, ConfigMap, ConnectorTemplate, SetControllerReference
  <1>4. cms' \in [CMs -> ConfigMap \cup {None}]
    BY <1>2, <1>3 DEF TypeOK
  <1>5. tq' = Done(tq) \/ tq' = Retry(tq)
    BY DEF ReconcileTemplate
  <1>6. tq' \in SUBSET Pending
    BY <1>5, QueueTyped DEF TypeOK
  <1>7. faults' = faults \/ Fault
    BY DEF ReconcileTemplate
  <1>8. faults' \in 0 .. MaxFaults
    BY <1>7, FaultTyped DEF TypeOK
  <1> QED
    BY <1>4, <1>6, <1>8 DEF ReconcileTemplate, TypeOK, api, caches, worker

(* Fetching a connector and merging its configurations. *)
LEMMA ReconcileTypeOK ==
  ASSUME TypeOK, Reconcile
  PROVE  TypeOK'
  <1>1. cq' = Done(cq) \/ cq' = Retry(cq)
    BY DEF Reconcile
  <1>2. cq' \in SUBSET Pending
    BY <1>1, QueueTyped DEF TypeOK
  <1>3. CASE UNCHANGED worker
    BY <1>2, <1>3 DEF Reconcile, TypeOK, api, caches, worker
  <1>4. CASE ~UNCHANGED worker
    <2> DEFINE tcm == cmSeen[templateCM]
    <2>1. /\ connectorSeen # None /\ tcm # None /\ tcm.config # Malformed
          /\ connectorSeen.spec.patches # Malformed
          /\ pc' = "cm" /\ conn' = connectorSeen /\ idx' = 1
          /\ configs' = mergePatchesIntoConfigs(connectorSeen, tcm.config)
      BY <1>4 DEF Reconcile
    <2>2. connectorSeen \in ConnectorType /\ tcm.config \in Config
      BY <2>1 DEF TypeOK, CMs, ConfigMap
    <2>3. /\ configs' \in Seq(Config)
          /\ Len(configs') = Len(conn'.spec.streams)
      BY <2>1, <2>2, MergeTyped
    <2>4. idx' \in 1 .. Len(conn'.spec.streams)
      BY <2>1, <2>2, ConnectorFields
    <2> QED
      BY <1>2, <2>1, <2>2, <2>3, <2>4 DEF Reconcile, TypeOK, api, caches
  <1> QED
    BY <1>3, <1>4

(* Where the connector worker goes from inside the loop: its variables     *)
(* stay well typed, whether it stops or goes on to the next stream.        *)
WorkerOK ==
  /\ cq' \in SUBSET Pending
  /\ pc' \in {"idle", "cm", "deploy"}
  /\ conn' \in ConnectorType \cup {None}
  /\ configs' \in Seq(Config)
  /\ idx' \in Nat
  /\ pc' # "idle" => /\ conn' \in ConnectorType
                     /\ idx' \in 1 .. Len(conn'.spec.streams)
                     /\ Len(configs') = Len(conn'.spec.streams)

(* An error ends the loop. *)
LEMMA FailOK ==
  ASSUME TypeOK, Fail
  PROVE  WorkerOK
  <1>1. cq' \in SUBSET Pending
    BY QueueTyped DEF Fail, TypeOK
  <1> QED
    BY <1>1 DEF Fail, Idle, WorkerOK

(* The next stream is still among the streams, and has its configuration. *)
LEMMA NextStreamOK ==
  ASSUME TypeOK, pc # "idle", NEW c \in ConnectorType, c.spec.streams = conn.spec.streams,
         NextStream(c)
  PROVE  WorkerOK
  <1>1. CASE idx < Len(c.spec.streams)
    <2>1. /\ pc' = "cm" /\ conn' = c /\ idx' = idx + 1 /\ configs' = configs /\ cq' = cq
      BY <1>1 DEF NextStream
    <2>2. idx \in 1 .. Len(c.spec.streams) /\ Len(configs) = Len(c.spec.streams)
      BY DEF TypeOK
    <2>3. Len(c.spec.streams) \in Nat
      BY ConnectorFields
    <2> QED
      BY <1>1, <2>1, <2>2, <2>3 DEF WorkerOK, TypeOK
  <1>2. CASE ~(idx < Len(c.spec.streams))
    BY <1>2 DEF NextStream, Idle, WorkerOK, TypeOK
  <1> QED
    BY <1>1, <1>2

(* The stream the worker is at. *)
LEMMA StreamTyped ==
  ASSUME TypeOK, pc # "idle"
  PROVE  /\ conn \in ConnectorType
         /\ conn.spec.streams[idx] \in Streams
         /\ idx \in DOMAIN conn.spec.streams
         /\ configs[idx] \in Config
  <1>1. /\ conn \in ConnectorType /\ idx \in 1 .. Len(conn.spec.streams)
        /\ configs \in Seq(Config) /\ Len(configs) = Len(conn.spec.streams)
    BY DEF TypeOK
  <1>2. conn.spec.streams \in Seq(Streams)
    BY <1>1, ConnectorFields
  <1> QED
    BY <1>1, <1>2

(* The ConfigMap of a stream. *)
LEMMA ConfigMapTypeOK ==
  ASSUME TypeOK, CreateConfigMap
  PROVE  TypeOK'
  <1> DEFINE name == GenConnectorConfigMapNameForStream(conn.spec.streams[idx])
             created == [cms EXCEPT ![name] =
                           [owner |-> SetControllerReference(conn), config |-> configs[idx]]]
  <1>1. /\ pc = "cm" /\ conn \in ConnectorType /\ configs[idx] \in Config
        /\ conn.spec.streams[idx] \in Streams
    BY StreamTyped DEF CreateConfigMap
  <1>2. name \in CMs
    BY <1>1, NameTyped
  <1>3. [owner |-> SetControllerReference(conn), config |-> configs[idx]] \in ConfigMap
    BY <1>1, ConnectorFields DEF ConfigMap, SetControllerReference
  <1>4. created \in [CMs -> ConfigMap \cup {None}]
    BY <1>2, <1>3 DEF TypeOK
  <1>5. cms' = cms \/ cms' = created
    BY DEF CreateConfigMap
  <1>6. faults' = faults \/ Fault
    BY DEF CreateConfigMap
  <1>7. faults' \in 0 .. MaxFaults
    BY <1>6, FaultTyped DEF TypeOK
  <1>8. \/ NextStream(conn)
        \/ Fail
        \/ pc' = "deploy" /\ UNCHANGED <<conn, configs, idx, cq>>
    BY DEF CreateConfigMap
  <1>9. WorkerOK
    <2>1. CASE pc' = "deploy" /\ UNCHANGED <<conn, configs, idx, cq>>
      BY <1>1, <2>1 DEF WorkerOK, TypeOK
    <2> QED
      BY <1>1, <1>8, <2>1, NextStreamOK, FailOK
  <1> QED
    BY <1>4, <1>5, <1>7, <1>9 DEF CreateConfigMap, WorkerOK, TypeOK, api, caches

(* The Deployment of a stream. *)
LEMMA DeploymentTypeOK ==
  ASSUME TypeOK, createConnectorDeployment
  PROVE  TypeOK'
  <1> DEFINE stream == conn.spec.streams[idx]
             name == GenConnectorDeploymentName(stream)
             ports == <<"unnamed">> \o conn.spec.ports \o conn.spec.containerPorts
             next == [conn EXCEPT !.spec.ports = ports]
             want == [owner |-> SetControllerReference(conn), stream |-> stream, ports |-> ports]
             created == [deps EXCEPT ![name] = want]
  <1>1. pc = "deploy" /\ conn \in ConnectorType /\ stream \in Streams
    BY StreamTyped DEF createConnectorDeployment
  <1>2. name \in Names
    BY <1>1, NameTyped
  <1>3. /\ ports \in Seq(PortNames) /\ next \in ConnectorType
        /\ next.spec.streams = conn.spec.streams
    BY <1>1, PortsTyped
  <1>4. deps' = deps \/ deps' = created
    BY DEF createConnectorDeployment
  <1>5. NextStream(next) \/ Fail
    BY DEF createConnectorDeployment
  <1>6. faults' = faults \/ Fault
    BY DEF createConnectorDeployment
  <1> HIDE DEF ports, next
  <1>7. want \in Deployment
    BY <1>1, <1>3, ConnectorFields DEF Deployment, SetControllerReference
  <1>8. deps' \in [Names -> Deployment \cup {None}]
    BY <1>2, <1>4, <1>7 DEF TypeOK
  <1>9. WorkerOK
    BY <1>1, <1>3, <1>5, NextStreamOK, FailOK
  <1>10. faults' \in 0 .. MaxFaults
    BY <1>6, FaultTyped DEF TypeOK
  <1> QED
    BY <1>8, <1>9, <1>10 DEF createConnectorDeployment, WorkerOK, TypeOK, api, caches

(* The queues, the informers, the user, the garbage collector and a crash. *)
LEMMA EnvironmentTypeOK ==
  ASSUME TypeOK, Environment
  PROVE  TypeOK'
  <1>1. CASE RequeueAfter
    BY <1>1 DEF RequeueAfter, TypeOK, Pending, api, caches, worker
  <1>2. CASE SyncTemplate \/ SyncConnector \/ SyncConfigMaps
    <2>1. /\ tq' = tq \/ tq' = tq \cup {"now"}
          /\ cq' = cq \/ cq' = cq \cup {"now"}
      BY <1>2 DEF SyncTemplate, SyncConnector, SyncConfigMaps
    <2>2. tq' \in SUBSET Pending /\ cq' \in SUBSET Pending
      BY <2>1 DEF TypeOK, Pending
    <2> QED
      BY <1>2, <2>2
      DEF SyncTemplate, SyncConnector, SyncConfigMaps, TypeOK, api, caches, worker
  <1>3. CASE CreateTemplate
    <2>1. template' \in ConnectorTemplate /\ uid' \in 0 .. MaxUid
      BY <1>3, ConnectorAssumption DEF CreateTemplate, ConnectorTemplate, TypeOK
    <2> QED
      BY <1>3, <2>1 DEF CreateTemplate, Unobserved, TypeOK, caches, worker
  <1>4. CASE CreateConnector
    <2>1. connector' \in ConnectorType /\ uid' \in 0 .. MaxUid
      BY <1>4, ConnectorAssumption DEF CreateConnector, ConnectorType, TypeOK
    <2> QED
      BY <1>4, <2>1 DEF CreateConnector, Unobserved, TypeOK, caches, worker
  <1>5. CASE EditConnector
    <2>1. PICK s \in Specs : connector' = [connector EXCEPT !.spec = s, !.gen = @ + 1]
      BY <1>5 DEF EditConnector
    <2>2. connector \in ConnectorType /\ s \in ConnectorSpec
      BY <1>5, ConnectorAssumption DEF EditConnector, TypeOK
    <2>3. connector' = [uid |-> connector.uid, gen |-> connector.gen + 1,
                        spec |-> s, deleting |-> connector.deleting]
      BY <2>1, <2>2 DEF ConnectorType
    <2>4. connector' \in ConnectorType
      BY <2>2, <2>3, ConnectorFields DEF ConnectorType
    <2> QED
      BY <1>5, <2>4 DEF EditConnector, Unobserved, TypeOK, caches, worker
  <1>6. CASE Delete \/ Finalize
    <2>1. /\ template' \in ConnectorTemplate \cup {None}
          /\ connector' \in ConnectorType \cup {None}
      BY <1>6 DEF Delete, Finalize, TypeOK, ConnectorTemplate, ConnectorType
    <2> QED
      BY <1>6, <2>1 DEF Delete, Finalize, Unobserved, TypeOK, caches, worker
  <1>7. CASE \E n \in CMs : CollectConfigMap(n)
    BY <1>7 DEF CollectConfigMap, Unobserved, TypeOK, api, caches, worker
  <1>8. CASE \E n \in Names : CollectDeployment(n)
    BY <1>8 DEF CollectDeployment, Unobserved, TypeOK, api, caches, worker
  <1>9. CASE Crash
    <2>1. faults' \in 0 .. MaxFaults
      BY <1>9, FaultTyped DEF Crash, TypeOK
    <2> QED
      BY <1>9, <2>1 DEF Crash, Idle, TypeOK, Pending, api
  <1> QED
    BY <1>1, <1>2, <1>3, <1>4, <1>5, <1>6, <1>7, <1>8, <1>9 DEF Environment

(* Every step preserves the types. *)
LEMMA NextTypeOK ==
  ASSUME TypeOK, [Next]_vars
  PROVE  TypeOK'
  <1>1. CASE UNCHANGED vars
    BY <1>1 DEF vars, TypeOK
  <1> QED
    BY <1>1, TemplateTypeOK, ReconcileTypeOK, ConfigMapTypeOK, DeploymentTypeOK,
       EnvironmentTypeOK DEF Next, ConnectorWorker

(* For every instance of the constants, every reachable state is well      *)
(* typed: the loop over the streams never runs out of its slices.          *)
THEOREM TypeCorrect == Spec => []TypeOK
  <1>1. Init => TypeOK
    BY InitTypeOK
  <1>2. TypeOK /\ [Next]_vars => TypeOK'
    BY NextTypeOK
  <1> QED
    BY <1>1, <1>2, PTL DEF Spec

-----------------------------------------------------------------------------
(* A Deployment and its ConfigMap.                                         *)

(* No patch sets the key that names the stream. *)
PatchesKeepStream ==
  \A s \in Specs : s.patches # Malformed =>
    \A x \in Streams : s.patches[x] # None => s.patches[x]["stream"] = None

(* No uid is used before it is given. *)
UidsGiven ==
  /\ connector # None => connector.uid <= uid
  /\ connectorSeen # None => connectorSeen.uid <= uid
  /\ conn # None => conn.uid <= uid
  /\ \A n \in Names : deps[n] # None => deps[n].owner <= uid

SpecsGiven ==
  /\ connector # None => connector.spec \in Specs
  /\ connectorSeen # None => connectorSeen.spec \in Specs

ConfigsNameStreams ==
  pc # "idle" =>
    \A i \in DOMAIN conn.spec.streams : configs[i]["stream"] = conn.spec.streams[i]

(* Child n of the present connector is the configuration of stream s. *)
Configures(n, s) == owns(connector, cms[n]) /\ cms[n].config["stream"] = s

(* Between the creation of the two children the ConfigMap is in place,     *)
(* unless the connector the worker works for is gone.                      *)
HalfWay ==
  pc = "deploy" /\ connector # None /\ ~connector.deleting /\ conn.uid = connector.uid =>
    Configures(GenConnectorConfigMapNameForStream(conn.spec.streams[idx]),
               conn.spec.streams[idx])

OwnInv == UidsGiven /\ SpecsGiven /\ ConfigsNameStreams /\ HalfWay /\ OwnConfig

(* Nothing exists at first. *)
LEMMA InitOwnInv == Init => OwnInv
  BY DEF Init, OwnInv, UidsGiven, SpecsGiven, ConfigsNameStreams, HalfWay, OwnConfig, owns

(* The worker stands where it stood, is idle or is before a ConfigMap.     *)
WorkerMoves ==
  \/ UNCHANGED worker
  \/ pc' = "idle" /\ conn' = None
  \/ /\ pc' = "cm" /\ pc # "idle" /\ UNCHANGED configs
     /\ conn' # None /\ conn # None
     /\ conn'.uid = conn.uid /\ conn'.spec.streams = conn.spec.streams

(* Neither an error nor the next stream disturbs the worker's facts.       *)
LEMMA LoopMoves ==
  ASSUME TypeOK, pc # "idle", NEW c \in ConnectorType, c.uid = conn.uid,
         c.spec.streams = conn.spec.streams,
         NextStream(c) \/ Fail
  PROVE  WorkerMoves /\ pc' # "deploy"
  <1>1. conn # None /\ c # None
    BY ConnectorAssumption DEF TypeOK
  <1> QED
    BY <1>1 DEF NextStream, Fail, Idle, WorkerMoves

(* A step that leaves the connector and its children alone.                *)
LEMMA FrameOwnInv ==
  ASSUME TypeOK, OwnInv, WorkerMoves,
         UNCHANGED <<connector, cms, deps>>,
         connectorSeen' \in {connectorSeen, connector},
         uid' \in Nat, uid <= uid'
  PROVE  OwnInv'
  <1>1. uid \in Nat
    BY ConnectorAssumption DEF TypeOK
  <1>2. UidsGiven'
    <2>1. connector # None => connector.uid \in Nat
      BY ConnectorFields DEF TypeOK
    <2>2. connectorSeen # None => connectorSeen.uid \in Nat
      BY ConnectorFields DEF TypeOK
    <2>3. conn # None => conn.uid \in Nat
      BY ConnectorFields DEF TypeOK
    <2>4. \A n \in Names : deps[n] # None => deps[n].owner \in Nat
      BY DEF TypeOK, Deployment
    <2> QED
      BY <1>1, <2>1, <2>2, <2>3, <2>4 DEF OwnInv, UidsGiven, WorkerMoves, worker
  <1>3. SpecsGiven'
    BY DEF OwnInv, SpecsGiven
  <1>4. ConfigsNameStreams'
    BY DEF OwnInv, ConfigsNameStreams, WorkerMoves, worker
  <1>5. HalfWay'
    BY DEF OwnInv, HalfWay, Configures, owns, WorkerMoves, worker
  <1>6. OwnConfig'
    BY DEF OwnInv, OwnConfig, owns
  <1> QED
    BY <1>2, <1>3, <1>4, <1>5, <1>6 DEF OwnInv

(* The template's ConfigMap is no connector's child.                       *)
LEMMA TemplateOwnInv ==
  ASSUME TypeOK, OwnInv, ReconcileTemplate
  PROVE  OwnInv'
  <1>1. \A n \in Names : cms'[n] = cms[n]
    BY ConnectorAssumption DEF ReconcileTemplate, TypeOK, CMs
  <1>2. UNCHANGED <<connector, deps, connectorSeen, pc, conn, configs, idx, uid>>
    BY DEF ReconcileTemplate, api, caches, worker
  <1>3. UidsGiven' /\ SpecsGiven' /\ ConfigsNameStreams'
    BY <1>2 DEF OwnInv, UidsGiven, SpecsGiven, ConfigsNameStreams
  <1>4. HalfWay'
    <2>1. pc = "deploy" => GenConnectorConfigMapNameForStream(conn.spec.streams[idx]) \in Names
      BY StreamTyped, NameTyped
    <2> QED
      BY <1>1, <1>2, <2>1 DEF OwnInv, HalfWay, Configures, owns
  <1>5. OwnConfig'
    BY <1>1, <1>2 DEF OwnInv, OwnConfig, owns
  <1> QED
    BY <1>3, <1>4, <1>5 DEF OwnInv

(* Merging gives each stream the configuration that names it.              *)
LEMMA ReconcileOwnInv ==
  ASSUME TypeOK, OwnInv, PatchesKeepStream, Reconcile
  PROVE  OwnInv'
  <1>1. UNCHANGED <<connector, cms, deps, connectorSeen, uid>>
    BY DEF Reconcile, api, caches
  <1>2. CASE UNCHANGED worker
    <2>1. uid \in Nat
      BY ConnectorAssumption DEF TypeOK
    <2>2. WorkerMoves
      BY <1>2 DEF WorkerMoves
    <2> QED
      BY <1>1, <2>1, <2>2, FrameOwnInv
  <1>3. CASE ~UNCHANGED worker
    <2> DEFINE tcm == cmSeen[templateCM]
               c == connectorSeen
    <2>1. /\ c # None /\ tcm # None /\ tcm.config # Malformed
          /\ c.spec.patches # Malformed
          /\ pc' = "cm" /\ conn' = c
          /\ configs' = mergePatchesIntoConfigs(c, tcm.config)
      BY <1>3 DEF Reconcile
    <2>2. c \in ConnectorType /\ tcm.config \in Config
      BY <2>1 DEF TypeOK, CMs, ConfigMap
    <2>3. \A s \in Streams : c.spec.patches[s] # None => c.spec.patches[s]["stream"] = None
      BY <2>1 DEF OwnInv, SpecsGiven, PatchesKeepStream
    <2>4. \A i \in DOMAIN c.spec.streams :
            mergePatchesIntoConfigs(c, tcm.config)[i]["stream"] = c.spec.streams[i]
      BY <2>1, <2>2, <2>3, MergeStream
    <2>5. ConfigsNameStreams'
      BY <2>1, <2>4 DEF ConfigsNameStreams
    <2>6. UidsGiven' /\ SpecsGiven'
      BY <1>1, <2>1 DEF OwnInv, UidsGiven, SpecsGiven
    <2>7. HalfWay' /\ OwnConfig'
      BY <1>1, <2>1 DEF OwnInv, HalfWay, OwnConfig, owns
    <2> QED
      BY <2>5, <2>6, <2>7 DEF OwnInv
  <1> QED
    BY <1>2, <1>3

(* A ConfigMap is created only where there is none, hence where the        *)
(* present connector has no Deployment either.                             *)
LEMMA ConfigMapOwnInv ==
  ASSUME TypeOK, OwnInv, CreateConfigMap
  PROVE  OwnInv'
  <1> DEFINE stream == conn.spec.streams[idx]
             name == GenConnectorConfigMapNameForStream(stream)
             want == [owner |-> SetControllerReference(conn), config |-> configs[idx]]
             created == [cms EXCEPT ![name] = want]
  <1>1. /\ pc = "cm" /\ conn \in ConnectorType /\ configs[idx] \in Config
        /\ stream \in Streams /\ idx \in DOMAIN conn.spec.streams
    BY StreamTyped DEF CreateConfigMap
  <1>2. name \in Names /\ name \in CMs
    BY <1>1, NameTyped
  <1>3. want \in ConfigMap
    BY <1>1, ConnectorFields DEF ConfigMap, SetControllerReference
  <1>4. want # None /\ want.owner = conn.uid /\ want.config["stream"] = stream
    BY <1>1, <1>3, ConnectorAssumption DEF OwnInv, ConfigsNameStreams, SetControllerReference
  <1>5. UNCHANGED <<connector, deps, connectorSeen, uid>>
    BY DEF CreateConfigMap, api, caches
  <1>6. cms' = cms \/ (cms' = created /\ cms[name] = None)
    BY DEF CreateConfigMap
  <1>7. \/ NextStream(conn) \/ Fail
        \/ cms' = created /\ pc' = "deploy" /\ UNCHANGED <<conn, configs, idx>>
    BY DEF CreateConfigMap
  <1>8. \/ WorkerMoves /\ pc' # "deploy"
        \/ cms' = created /\ pc' = "deploy" /\ UNCHANGED <<conn, configs, idx>>
    BY <1>1, <1>7, LoopMoves
  <1> HIDE DEF want
  <1>9. UidsGiven' /\ SpecsGiven'
    BY <1>5, <1>8 DEF OwnInv, UidsGiven, SpecsGiven, WorkerMoves, worker
  <1>10. ConfigsNameStreams'
    BY <1>1, <1>8 DEF OwnInv, ConfigsNameStreams, WorkerMoves, worker
  <1>11. HalfWay'
    <2>1. pc' = "deploy" => /\ cms'[name] = want
                            /\ conn' = conn /\ idx' = idx
      BY <1>2, <1>8 DEF TypeOK
    <2> QED
      BY <1>4, <1>5, <2>1 DEF HalfWay, Configures, owns
  <1>12. OwnConfig'
    <2>1. \A n \in Names : cms[n] # None => cms'[n] = cms[n]
      BY <1>2, <1>6 DEF TypeOK, CMs
    <2> QED
      BY <1>5, <2>1 DEF OwnInv, OwnConfig, owns
  <1> QED
    BY <1>9, <1>10, <1>11, <1>12 DEF OwnInv

(* A Deployment is created only half way, when its ConfigMap is in place.  *)
LEMMA DeploymentOwnInv ==
  ASSUME TypeOK, OwnInv, createConnectorDeployment
  PROVE  OwnInv'
  <1> DEFINE stream == conn.spec.streams[idx]
             name == GenConnectorDeploymentName(stream)
             ports == <<"unnamed">> \o conn.spec.ports \o conn.spec.containerPorts
             next == [conn EXCEPT !.spec.ports = ports]
             want == [owner |-> SetControllerReference(conn), stream |-> stream, ports |-> ports]
             created == [deps EXCEPT ![name] = want]
  <1>1. pc = "deploy" /\ conn \in ConnectorType /\ stream \in Streams
    BY StreamTyped DEF createConnectorDeployment
  <1>2. name \in Names /\ name = GenConnectorConfigMapNameForStream(stream)
    BY <1>1, NameTyped
  <1>3. /\ next \in ConnectorType /\ next.uid = conn.uid
        /\ next.spec.streams = conn.spec.streams
    BY <1>1, PortsTyped
  <1>4. deps' = deps \/ deps' = created
    BY DEF createConnectorDeployment
  <1>5. NextStream(next) \/ Fail
    BY DEF createConnectorDeployment
  <1>6. UNCHANGED <<connector, cms, connectorSeen, uid>>
    BY DEF createConnectorDeployment, api, caches
  <1>7. want.owner = conn.uid /\ want.stream = stream
    BY DEF SetControllerReference
  <1> HIDE DEF ports, next, want
  <1>8. WorkerMoves /\ pc' # "deploy"
    BY <1>1, <1>3, <1>5, LoopMoves
  <1>9. \A n \in Names : deps'[n] = deps[n] \/ (n = name /\ deps'[n] = want)
    BY <1>2, <1>4 DEF TypeOK
  <1>10. conn # None /\ conn.uid <= uid
    BY <1>1, ConnectorAssumption DEF OwnInv, UidsGiven
  <1>11. UidsGiven'
    BY <1>6, <1>7, <1>8, <1>9, <1>10 DEF OwnInv, UidsGiven, WorkerMoves, worker
  <1>12. SpecsGiven'
    BY <1>6 DEF OwnInv, SpecsGiven
  <1>13. ConfigsNameStreams'
    BY <1>8 DEF OwnInv, ConfigsNameStreams, WorkerMoves, worker
  <1>14. HalfWay'
    BY <1>8 DEF HalfWay
  <1>15. OwnConfig'
    BY <1>1, <1>2, <1>6, <1>7, <1>9 DEF OwnInv, OwnConfig, HalfWay, Configures, owns
  <1> QED
    BY <1>11, <1>12, <1>13, <1>14, <1>15 DEF OwnInv

(* A new connector has a uid that no child bears. *)
LEMMA CreateConnectorOwnInv ==
  ASSUME TypeOK, OwnInv, CreateConnector
  PROVE  OwnInv'
  <1>1. PICK s \in Specs :
          connector' = [uid |-> uid + 1, gen |-> 1, spec |-> s, deleting |-> FALSE]
    BY DEF CreateConnector
  <1>2. /\ uid \in Nat /\ uid' = uid + 1
        /\ connector'.uid = uid + 1 /\ connector'.spec = s
    BY <1>1, ConnectorAssumption DEF CreateConnector, TypeOK
  <1>3. UNCHANGED <<cms, deps, connectorSeen, pc, conn, configs, idx>>
    BY DEF CreateConnector, Unobserved, caches, worker
  <1>4. connectorSeen # None => connectorSeen.uid \in Nat
    BY ConnectorFields DEF TypeOK
  <1>5. conn # None => conn.uid \in Nat
    BY ConnectorFields DEF TypeOK
  <1>6. \A n \in Names : deps[n] # None => deps[n].owner \in Nat
    BY DEF TypeOK, Deployment
  <1>7. UidsGiven'
    BY <1>2, <1>3, <1>4, <1>5, <1>6 DEF OwnInv, UidsGiven
  <1>8. SpecsGiven' /\ ConfigsNameStreams'
    BY <1>2, <1>3 DEF OwnInv, SpecsGiven, ConfigsNameStreams
  <1>9. HalfWay'
    <2>1. pc = "deploy" => conn # None
      BY ConnectorAssumption DEF TypeOK
    <2>2. pc = "deploy" => conn.uid <= uid /\ conn.uid \in Nat
      BY <1>5, <2>1 DEF OwnInv, UidsGiven
    <2>3. pc' = "deploy" => conn'.uid # connector'.uid
      BY <1>2, <1>3, <2>2
    <2> QED
      BY <2>3 DEF HalfWay
  <1>10. OwnConfig'
    BY <1>2, <1>3, <1>6 DEF OwnInv, UidsGiven, OwnConfig, owns
  <1> QED
    BY <1>7, <1>8, <1>9, <1>10 DEF OwnInv

(* An edit keeps the uid. *)
LEMMA EditConnectorOwnInv ==
  ASSUME TypeOK, OwnInv, EditConnector
  PROVE  OwnInv'
  <1>1. PICK s \in Specs : connector' = [connector EXCEPT !.spec = s, !.gen = @ + 1]
    BY DEF EditConnector
  <1>2. connector # None /\ connector \in ConnectorType
    BY DEF EditConnector, TypeOK
  <1>3. connector' = [uid |-> connector.uid, gen |-> connector.gen + 1,
                      spec |-> s, deleting |-> connector.deleting]
    BY <1>1, <1>2 DEF ConnectorType
  <1>4. /\ connector'.uid = connector.uid /\ connector'.spec = s
        /\ connector'.deleting = connector.deleting
    BY <1>3
  <1>5. UNCHANGED <<cms, deps, connectorSeen, pc, conn, configs, idx, uid>>
    BY DEF EditConnector, Unobserved, caches, worker
  <1>6. UidsGiven' /\ SpecsGiven' /\ ConfigsNameStreams'
    BY <1>2, <1>4, <1>5 DEF OwnInv, UidsGiven, SpecsGiven, ConfigsNameStreams
  <1>7. HalfWay' /\ OwnConfig'
    BY <1>2, <1>4, <1>5 DEF OwnInv, HalfWay, Configures, OwnConfig, owns
  <1> QED
    BY <1>6, <1>7 DEF OwnInv

(* A connector that is going, or gone, claims nothing. *)
LEMMA DeleteOwnInv ==
  ASSUME TypeOK, OwnInv, Delete \/ Finalize
  PROVE  OwnInv'
  <1>1. UNCHANGED <<cms, deps, connectorSeen, pc, conn, configs, idx, uid>>
    BY DEF Delete, Finalize, Unobserved, caches, worker
  <1>2. \/ connector' = connector
        \/ connector' = None
        \/ connector # None /\ connector' = [connector EXCEPT !.deleting = TRUE]
    BY DEF Delete, Finalize
  <1>3. connector' # connector /\ connector' # None =>
          /\ connector # None /\ connector'.deleting
          /\ connector'.uid = connector.uid /\ connector'.spec = connector.spec
    BY <1>2 DEF TypeOK, ConnectorType
  <1>4. UidsGiven' /\ SpecsGiven' /\ ConfigsNameStreams'
    BY <1>1, <1>3 DEF OwnInv, UidsGiven, SpecsGiven, ConfigsNameStreams
  <1>5. HalfWay'
    BY <1>1, <1>3 DEF OwnInv, HalfWay, Configures, owns
  <1>6. OwnConfig'
    BY <1>1, <1>3 DEF OwnInv, OwnConfig, owns
  <1> QED
    BY <1>4, <1>5, <1>6 DEF OwnInv

(* The garbage collector leaves the children of a live connector. *)
LEMMA CollectOwnInv ==
  ASSUME TypeOK, OwnInv,
         \/ \E n \in CMs : CollectConfigMap(n)
         \/ \E n \in Names : CollectDeployment(n)
  PROVE  OwnInv'
  <1>1. UNCHANGED <<connector, connectorSeen, pc, conn, configs, idx, uid>>
    BY DEF CollectConfigMap, CollectDeployment, Unobserved, api, caches, worker
  <1>2. \A n \in Names : deps'[n] = deps[n] \/ deps'[n] = None
    BY DEF CollectConfigMap, CollectDeployment, TypeOK
  <1>3. connector # None /\ ~connector.deleting =>
          \A n \in Names : owns(connector, cms[n]) => cms'[n] = cms[n]
    BY DEF CollectConfigMap, CollectDeployment, orphan, alive, owns, TypeOK, CMs
  <1>4. UidsGiven' /\ SpecsGiven' /\ ConfigsNameStreams'
    BY <1>1, <1>2 DEF OwnInv, UidsGiven, SpecsGiven, ConfigsNameStreams
  <1>5. HalfWay'
    <2>1. pc = "deploy" => GenConnectorConfigMapNameForStream(conn.spec.streams[idx]) \in Names
      BY StreamTyped, NameTyped
    <2> QED
      BY <1>1, <1>3, <2>1 DEF OwnInv, HalfWay, Configures, owns
  <1>6. OwnConfig'
    BY <1>1, <1>2, <1>3 DEF OwnInv, OwnConfig, owns
  <1> QED
    BY <1>4, <1>5, <1>6 DEF OwnInv

(* Every step preserves the invariant. *)
LEMMA NextOwnInv ==
  ASSUME TypeOK, OwnInv, PatchesKeepStream, [Next]_vars
  PROVE  OwnInv'
  <1>1. uid \in Nat
    BY ConnectorAssumption DEF TypeOK
  <1>2. CASE UNCHANGED vars \/ RequeueAfter \/ SyncTemplate \/ SyncConnector
               \/ SyncConfigMaps \/ CreateTemplate \/ Crash
    <2>1. UNCHANGED <<connector, cms, deps>> /\ connectorSeen' \in {connectorSeen, connector}
      BY <1>2 DEF vars, RequeueAfter, SyncTemplate, SyncConnector, SyncConfigMaps,
                  CreateTemplate, Crash, Unobserved, api, caches
    <2>2. uid' = uid \/ uid' = uid + 1
      BY <1>2 DEF vars, RequeueAfter, SyncTemplate, SyncConnector, SyncConfigMaps,
                  CreateTemplate, Crash, api
    <2>3. WorkerMoves
      BY <1>2 DEF vars, RequeueAfter, SyncTemplate, SyncConnector, SyncConfigMaps,
                  CreateTemplate, Crash, Idle, Unobserved, worker, WorkerMoves
    <2> QED
      BY <1>1, <2>1, <2>2, <2>3, FrameOwnInv
  <1> QED
    BY <1>2, TemplateOwnInv, ReconcileOwnInv, ConfigMapOwnInv, DeploymentOwnInv,
       CreateConnectorOwnInv, EditConnectorOwnInv, DeleteOwnInv, CollectOwnInv
    DEF Next, ConnectorWorker, Environment

(* For every instance of the constants in which no patch renames a stream: *)
(* a Deployment of the present connector runs with this connector's own    *)
(* ConfigMap, written for the stream of the Deployment, whatever was       *)
(* edited, deleted, created again, lost or restarted before.               *)
THEOREM OwnConfigAlways ==
  ASSUME PatchesKeepStream
  PROVE  Spec => []OwnConfig
  <1>1. Init => TypeOK /\ OwnInv
    BY InitTypeOK, InitOwnInv
  <1>2. TypeOK /\ OwnInv /\ [Next]_vars => (TypeOK /\ OwnInv)'
    BY NextTypeOK, NextOwnInv
  <1>3. TypeOK /\ OwnInv => OwnConfig
    BY DEF OwnInv
  <1> QED
    BY <1>1, <1>2, <1>3, PTL DEF Spec
=============================================================================
