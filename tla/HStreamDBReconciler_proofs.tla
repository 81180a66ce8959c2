--------------------- MODULE HStreamDBReconciler_proofs ---------------------
(***************************************************************************)
(* Proofs about HStreamDBReconciler, for every set of specs, every choice  *)
(* of lagging informers and every bound.                                   *)
(***************************************************************************)
EXTENDS HStreamDBReconciler, TLAPS

-----------------------------------------------------------------------------
(* Types of the helpers. *)

(* The parts of a custom resource have their types; the mandatory          *)
(* components are present.                                                 *)
LEMMA HStreamDBTyped ==
  ASSUME NEW h \in HStreamDB
  PROVE  /\ h.gen \in Nat
         /\ h.spec \in HStreamDBSpec
         /\ h.conds \in [CondTypes -> Condition]
         /\ h.nodes \in Views \cup {None}
         /\ h.spec.port \in Nat
         /\ h.spec.nshards \in Nat
         /\ h.spec.mra \in Nat
         /\ h.spec.comp \in [Workloads -> Component \cup {None}]
         /\ \A w \in {"hmeta", "admin", "hstore", "hserver"} : h.spec.comp[w] \in Component
  BY DEF HStreamDB, HStreamDBSpec, Workloads

(* A child as the informer cache or the API server holds it. *)
LEMMA GetTyped ==
  ASSUME TypeOK, NEW r \in Res
  PROVE  Get(r) \in Object \cup {None}
  BY DEF TypeOK, Get

(* What the builders make of a component of the spec is a well typed child. *)
LEMMA PodSetTyped ==
  ASSUME NEW h \in HStreamDB, NEW w \in Workloads, h.spec.comp[w] \in Component,
         NEW arg \in Nat
  PROVE  PodSet(h, w, arg) \in Object
  BY HStreamDBTyped DEF PodSet, Object, Component

(* So is a ConfigMap or a Service. *)
LEMMA DataTyped ==
  ASSUME NEW arg \in Nat
  PROVE  Data(arg) \in Object
  BY DEF Data, Object

(* SetCondition changes one condition and nothing else. *)
LEMMA SetConditionTyped ==
  ASSUME NEW h \in HStreamDB, NEW t \in CondTypes, NEW s \in {"True", "False"}
  PROVE  /\ SetCondition(h, t, s) \in HStreamDB
         /\ SetCondition(h, t, s).gen = h.gen
         /\ SetCondition(h, t, s).spec = h.spec
         /\ SetCondition(h, t, s).conds[t].st = s
         /\ SetCondition(h, t, s).conds[t].og = h.gen
         /\ \A u \in CondTypes \ {t} : SetCondition(h, t, s).conds[u] = h.conds[u]
  BY HStreamDBTyped DEF SetCondition, HStreamDB, Condition

(* The replication factor given to the bootstrap command is a number. *)
LEMMA ReplicationTyped ==
  ASSUME NEW h \in HStreamDB
  PROVE  metadataReplication(h) \in Nat
  BY HStreamDBTyped
  DEF metadataReplication, GetRecommendedLogReplicaAcross,
      defaultRecommendedLogReplication, Component

(* Writing a child touches no other child, and the worker either goes on   *)
(* to the next step or ends the reconciliation.                            *)
LEMMA WriteFrame ==
  ASSUME TypeOK, NEW r \in Res, NEW want \in Object, NEW next \in Steps,
         NEW writes \in BOOLEAN, Write(r, want, writes, next)
  PROVE  /\ objs' \in [Res -> Object \cup {None}]
         /\ \A x \in Res \ {r} : objs'[x] = objs[x]
         /\ objs[r] # None => objs'[r] # None
         /\ faults' \in 0 .. MaxFaults
         /\ faults' >= faults
         /\ \/ pc' = next /\ hdb' = hdb /\ queued' = queued
            \/ pc' = "idle" /\ hdb' = None /\ queued' \in SUBSET Pending
  <1>1. Get(r) \in Object \cup {None}
    BY GetTyped
  <1> DEFINE ready == IF Get(r) = None THEN 0 ELSE Get(r).ready
             new == [want EXCEPT !.ready = ready]
             result == [objs EXCEPT ![r] = new]
  <1>2. new \in Object
    <2>1. ready \in Nat
      BY <1>1 DEF Object
    <2> QED
      BY <2>1 DEF Object
  <1>3. /\ result \in [Res -> Object \cup {None}]
        /\ \A x \in Res \ {r} : result[x] = objs[x]
        /\ result[r] # None
    BY <1>2, ConstantsAssumption DEF TypeOK
  <1>4. objs' = objs \/ objs' = result
    BY DEF Write
  <1>5. objs \in [Res -> Object \cup {None}] /\ faults \in 0 .. MaxFaults /\ queued \in SUBSET Pending
    BY DEF TypeOK
  <1>6. faults' \in 0 .. MaxFaults /\ faults' >= faults
    BY <1>5, ConstantsAssumption DEF Write, Fault
  <1>7. \/ pc' = next /\ hdb' = hdb /\ queued' = queued
        \/ pc' = "idle" /\ hdb' = None /\ queued' \in SUBSET Pending
    BY <1>5 DEF Write, Continue, processRequeue, Finish, Pending
  <1> QED
    BY <1>3, <1>4, <1>5, <1>6, <1>7

-----------------------------------------------------------------------------
(* A step of the chain that may write child r: nothing else of the cluster *)
(* changes, and the worker goes on to step next or ends.                   *)
ChildStep(r, next) ==
  /\ pc = r
  /\ UNCHANGED <<cr, crSeen, seen, bootstraps, serverInits>>
  /\ objs' \in [Res -> Object \cup {None}]
  /\ \A x \in Res \ {r} : objs'[x] = objs[x]
  /\ \A x \in Res : objs[x] # None => objs'[x] # None
  /\ faults' \in 0 .. MaxFaults
  /\ faults' >= faults
  /\ \/ pc' = next /\ hdb' = hdb /\ queued' = queued
     \/ pc' = "idle" /\ hdb' = None /\ queued' \in SUBSET Pending

(* createOrUpdate and createIfMissing are such steps. *)
LEMMA WriteIsChildStep ==
  ASSUME TypeOK, NEW r \in Res, NEW want \in Object, NEW next \in Steps, pc = r,
         createOrUpdate(r, want, next) \/ createIfMissing(r, want, next)
  PROVE  ChildStep(r, next)
  <1> DEFINE hash == IF Get(r) = None THEN TRUE ELSE isHashChanged(Get(r), want)
  <1>1. hash \in BOOLEAN /\ (Get(r) = None) \in BOOLEAN
    BY DEF isHashChanged
  <1>2. Write(r, want, hash, next) \/ Write(r, want, Get(r) = None, next)
    BY DEF createOrUpdate, createIfMissing
  <1>3. UNCHANGED <<cr, crSeen, seen, bootstraps, serverInits>>
    BY DEF createOrUpdate, createIfMissing, caches, cluster
  <1> DEFINE missing == Get(r) = None
  <1>4. /\ hash \in BOOLEAN /\ missing \in BOOLEAN
        /\ Write(r, want, hash, next) \/ Write(r, want, missing, next)
    BY <1>1, <1>2
  <1> HIDE DEF hash, missing
  <1>5. CASE Write(r, want, hash, next)
    BY <1>3, <1>4, <1>5, WriteFrame DEF ChildStep
  <1>6. CASE Write(r, want, missing, next)
    BY <1>3, <1>4, <1>6, WriteFrame DEF ChildStep
  <1> QED
    BY <1>4, <1>5, <1>6

(* A sub-reconciler that has nothing to do is one too. *)
LEMMA SkipIsChildStep ==
  ASSUME TypeOK, NEW r, NEW next, pc = r,
         Skip(next) \/ \E d \in {1, 5, 10} : Requeue(d)
  PROVE  ChildStep(r, next)
  <1>1. UNCHANGED <<cr, crSeen, seen, bootstraps, serverInits, objs, faults>>
    BY DEF Skip, Requeue, caches, cluster
  <1>2. \/ pc' = next /\ hdb' = hdb /\ queued' = queued
        \/ pc' = "idle" /\ hdb' = None /\ queued' \in SUBSET Pending
    BY DEF Skip, Requeue, Continue, processRequeue, Finish, Pending, TypeOK
  <1> QED
    BY <1>1, <1>2 DEF ChildStep, TypeOK

(* The sub-reconcilers that only create or update a child. *)
LEMMA ChildActions ==
  ASSUME TypeOK
  PROVE  /\ LogDeviceConfig => ChildStep("logdeviceCM", "nshardsCM")
         /\ NShardsConfig => ChildStep("nshardsCM", "hmetaSvc")
         /\ AddHMetaService => ChildStep("hmetaSvc", "adminSvc")
         /\ AddAdminServerService => ChildStep("adminSvc", "hstoreSvc")
         /\ AddHStoreService => ChildStep("hstoreSvc", "hserverSvc")
         /\ AddHServerService => ChildStep("hserverSvc", "hmeta")
         /\ AddHMeta => ChildStep("hmeta", "hmetaStatus")
         /\ AddAdminServer => ChildStep("admin", "hstore")
         /\ AddHStore => ChildStep("hstore", "bootHStore")
         /\ AddHServer => ChildStep("hserver", "bootHServer")
         /\ AddGateway => ChildStep("gateway", "console")
         /\ AddConsole => ChildStep("console", "status")
  <1> USE DEF Steps, Res, Services, ConfigMaps, Workloads
  <1>1. ASSUME pc # "idle"
        PROVE  /\ hdb \in HStreamDB
               /\ hdb.spec.port \in Nat
               /\ hdb.spec.comp["hstore"].replicas \in Nat
               /\ \A w \in {"hmeta", "admin", "hstore", "hserver"} : hdb.spec.comp[w] \in Component
               /\ \A w \in {"gateway", "console"} : hdb.spec.comp[w] \in Component \cup {None}
               /\ GetMinNShards(hdb) \in Nat
               /\ getNShardFromExistingConfigMap(hdb) \subseteq Nat
               /\ findHServerPort \subseteq Nat
    <2>1. hdb \in HStreamDB
      BY <1>1 DEF TypeOK
    <2>2. Get("nshardsCM") \in Object \cup {None} /\ Get("hserver") \in Object \cup {None}
      BY GetTyped
    <2>3. hdb.spec.nshards \in Nat /\ hdb.spec.port \in Nat
      BY <2>1, HStreamDBTyped
    <2>4. GetMinNShards(hdb) \in Nat
      BY <2>3 DEF GetMinNShards
    <2>5. getNShardFromExistingConfigMap(hdb) \subseteq Nat
      BY <2>2, <2>3 DEF getNShardFromExistingConfigMap, Object
    <2>6. findHServerPort \subseteq Nat
      BY <2>2 DEF findHServerPort, Object, DefaultHServerPort
    <2>7. \A w \in {"hmeta", "admin", "hstore", "hserver"} : hdb.spec.comp[w] \in Component
      BY <2>1, HStreamDBTyped
    <2>8. \A w \in {"gateway", "console"} : hdb.spec.comp[w] \in Component \cup {None}
      BY <2>1, HStreamDBTyped
    <2>9. hdb.spec.comp["hstore"].replicas \in Nat
      BY <2>7 DEF Component
    <2> QED
      BY <2>1, <2>3, <2>4, <2>5, <2>6, <2>7, <2>8, <2>9
  <1>2. ASSUME LogDeviceConfig PROVE ChildStep("logdeviceCM", "nshardsCM")
    <2>1. Data(hdb.spec.comp["hstore"].replicas) \in Object
      BY <1>1, <1>2, DataTyped DEF LogDeviceConfig
    <2> QED
      BY <2>1, <1>2, WriteIsChildStep, SkipIsChildStep DEF LogDeviceConfig
  <1>3. ASSUME NShardsConfig PROVE ChildStep("nshardsCM", "hmetaSvc")
    <2>1. Data(GetMinNShards(hdb)) \in Object
      BY <1>1, <1>3, DataTyped DEF NShardsConfig
    <2> QED
      BY <2>1, <1>3, WriteIsChildStep, SkipIsChildStep DEF NShardsConfig
  <1>4. ASSUME AddHMetaService PROVE ChildStep("hmetaSvc", "adminSvc")
    <2>1. Data(0) \in Object
      BY <1>1, <1>4, DataTyped DEF AddHMetaService
    <2> QED
      BY <2>1, <1>4, WriteIsChildStep, SkipIsChildStep DEF AddHMetaService
  <1>5. ASSUME AddAdminServerService PROVE ChildStep("adminSvc", "hstoreSvc")
    <2>1. Data(0) \in Object
      BY <1>1, <1>5, DataTyped DEF AddAdminServerService
    <2> QED
      BY <2>1, <1>5, WriteIsChildStep, SkipIsChildStep DEF AddAdminServerService
  <1>6. ASSUME AddHStoreService PROVE ChildStep("hstoreSvc", "hserverSvc")
    <2>1. Data(0) \in Object
      BY <1>1, <1>6, DataTyped DEF AddHStoreService
    <2> QED
      BY <2>1, <1>6, WriteIsChildStep, SkipIsChildStep DEF AddHStoreService
  <1>7. ASSUME AddHServerService PROVE ChildStep("hserverSvc", "hmeta")
    <2>1. Data(hdb.spec.port) \in Object
      BY <1>1, <1>7, DataTyped DEF AddHServerService
    <2> QED
      BY <2>1, <1>7, WriteIsChildStep, SkipIsChildStep DEF AddHServerService
  <1>8. ASSUME AddHMeta PROVE ChildStep("hmeta", "hmetaStatus")
    <2>1. getHMetaSts(hdb) \in Object
      BY <1>1, <1>8, PodSetTyped DEF getHMetaSts, AddHMeta
    <2> QED
      BY <2>1, <1>8, WriteIsChildStep, SkipIsChildStep DEF AddHMeta
  <1>9. ASSUME AddAdminServer PROVE ChildStep("admin", "hstore")
    <2>1. getAdminServerDeployment(hdb) \in Object
      BY <1>1, <1>9, PodSetTyped DEF getAdminServerDeployment, AddAdminServer
    <2> QED
      BY <2>1, <1>9, WriteIsChildStep, SkipIsChildStep DEF AddAdminServer
  <1>10. ASSUME AddHStore PROVE ChildStep("hstore", "bootHStore")
    <2>1. PICK nShard \in getNShardFromExistingConfigMap(hdb) :
            createOrUpdate("hstore", getHStoreSts(hdb, nShard), "bootHStore")
      BY <1>10 DEF AddHStore
    <2>2. getHStoreSts(hdb, nShard) \in Object
      BY <1>1, <1>10, PodSetTyped DEF getHStoreSts, AddHStore
    <2> QED
      BY <2>1, <2>2, <1>10, WriteIsChildStep DEF AddHStore
  <1>11. ASSUME AddHServer PROVE ChildStep("hserver", "bootHServer")
    <2>1. getHServerSts(hdb) \in Object
      BY <1>1, <1>11, PodSetTyped DEF getHServerSts, AddHServer
    <2> QED
      BY <2>1, <1>11, WriteIsChildStep, SkipIsChildStep DEF AddHServer
  <1>12. ASSUME AddGateway PROVE ChildStep("gateway", "console")
    <2>1. CASE hdb.spec.comp["gateway"] = None
      BY <2>1, <1>12, SkipIsChildStep DEF AddGateway
    <2>2. CASE hdb.spec.comp["gateway"] # None
      <3>1. ASSUME NEW port \in findHServerPort
            PROVE  getGatewayDeployment(hdb, port) \in Object
        BY <2>2, <1>1, <1>12, PodSetTyped DEF getGatewayDeployment, AddGateway
      <3> QED
        BY <2>2, <3>1, <1>12, WriteIsChildStep, SkipIsChildStep DEF AddGateway
    <2> QED
      BY <2>1, <2>2
  <1>13. ASSUME AddConsole PROVE ChildStep("console", "status")
    <2>1. CASE hdb.spec.comp["console"] = None
      BY <2>1, <1>13, SkipIsChildStep DEF AddConsole
    <2>2. CASE hdb.spec.comp["console"] # None
      <3>1. getConsoleDeployment(hdb) \in Object
        BY <2>2, <1>1, <1>13, PodSetTyped DEF getConsoleDeployment, AddConsole
      <3> QED
        BY <2>2, <3>1, <1>13, WriteIsChildStep, SkipIsChildStep DEF AddConsole
    <2> QED
      BY <2>1, <2>2
  <1> QED
    BY <1>2, <1>3, <1>4, <1>5, <1>6, <1>7, <1>8, <1>9, <1>10, <1>11, <1>12, <1>13
-----------------------------------------------------------------------------
(* A step that updates the status of the CR to that of new, goes on to     *)
(* step next if that succeeds and ends the reconciliation if not.          *)
Ends == pc' = "idle" /\ hdb' = None /\ queued' \in SUBSET Pending

StatusStep(step, new, next) ==
  /\ pc = step
  /\ new \in HStreamDB /\ new.gen = hdb.gen /\ new.spec = hdb.spec
  /\ UNCHANGED <<objs, crSeen, seen, bootstraps, serverInits>>
  /\ faults' \in 0 .. MaxFaults
  /\ \/ /\ cr = hdb /\ cr' = new /\ faults' = faults
        /\ \/ Ends /\ next = "idle"
           \/ pc' = next /\ hdb' = new /\ queued' = queued /\ next # "idle"
     \/ cr # hdb /\ cr' = cr /\ faults' = faults /\ Ends
     \/ /\ cr' = cr \/ (cr = hdb /\ cr' = new)
        /\ faults' = faults + 1 /\ Ends

(* StatusUpdate is such a step, for any status it may write. *)
LEMMA StatusUpdateIsStatusStep ==
  ASSUME TypeOK, NEW step \in Steps, NEW next \in Steps, pc = step,
         NEW new \in HStreamDB, new.gen = hdb.gen, new.spec = hdb.spec,
         NEW again \in BOOLEAN,
         \/ /\ next = "idle"
            /\ StatusUpdate(new, Finish(again)) \/ StatusUpdate(new, processRequeue("nil", 1))
         \/ /\ next # "idle"
            /\ StatusUpdate(new, pc' = next /\ hdb' = new /\ UNCHANGED queued)
  PROVE  StatusStep(step, new, next)
  <1>1. /\ faults \in 0 .. MaxFaults /\ queued \in SUBSET Pending
        /\ UNCHANGED <<objs, crSeen, seen, bootstraps, serverInits>>
    BY DEF TypeOK, StatusUpdate, caches, cluster
  <1>2. /\ Finish(again) => Ends
        /\ \A e \in {"nil", "error", "conflict"}, d \in {0, 1} : processRequeue(e, d) => Ends
    BY <1>1 DEF Finish, Pending, processRequeue, Ends
  <1>3. Fault => faults' = faults + 1 /\ faults' \in 0 .. MaxFaults
    BY <1>1, ConstantsAssumption DEF Fault
  <1>4. CASE cr = hdb /\ cr' = new /\ UNCHANGED faults /\ next = "idle" /\ Ends
    BY <1>1, <1>4 DEF StatusStep
  <1>5. CASE /\ cr = hdb /\ cr' = new /\ UNCHANGED faults /\ next # "idle"
             /\ pc' = next /\ hdb' = new /\ UNCHANGED queued
    BY <1>1, <1>5 DEF StatusStep
  <1>6. CASE cr # hdb /\ UNCHANGED <<cr, faults>> /\ Ends
    BY <1>1, <1>6 DEF StatusStep
  <1>7. CASE Fault /\ (cr' = cr \/ (cr = hdb /\ cr' = new)) /\ Ends
    BY <1>1, <1>3, <1>7 DEF StatusStep
  <1> QED
    BY <1>2, <1>4, <1>5, <1>6, <1>7 DEF StatusUpdate

(* The sub-reconcilers that write the status of the CR. *)
LEMMA HMetaStatusStep ==
  ASSUME TypeOK, UpdateHMetaStatus
  PROVE  \/ ChildStep("hmetaStatus", "idle")
         \/ \E new : /\ StatusStep("hmetaStatus", new, "admin")
                     /\ IsConditionTrue(new, "HMetaReady")
                     /\ \A t \in CondTypes \ {"HMetaReady"} : new.conds[t] = hdb.conds[t]
  <1>1. pc = "hmetaStatus" /\ hdb \in HStreamDB
    BY DEF UpdateHMetaStatus, TypeOK
  <1>2. CASE Requeue(1)
    BY <1>1, <1>2, SkipIsChildStep
  <1>3. CASE /\ Fault /\ processRequeue("nil", 1)
             /\ UNCHANGED <<cr, objs, caches, cluster>>
    BY <1>1, <1>3, ConstantsAssumption
    DEF Fault, processRequeue, Finish, Pending, ChildStep, TypeOK, caches, cluster
  <1>4. ASSUME NEW v \in Views, NEW new,
               new = SetCondition([hdb EXCEPT !.nodes = v], "HMetaReady", "True"),
               StatusUpdate(new, pc' = "admin" /\ hdb' = new /\ UNCHANGED queued)
        PROVE  /\ StatusStep("hmetaStatus", new, "admin")
               /\ IsConditionTrue(new, "HMetaReady")
               /\ \A t \in CondTypes \ {"HMetaReady"} : new.conds[t] = hdb.conds[t]
    <2> DEFINE h == [hdb EXCEPT !.nodes = v]
    <2>1. h \in HStreamDB /\ h.gen = hdb.gen /\ h.spec = hdb.spec /\ h.conds = hdb.conds
      BY <1>1 DEF HStreamDB
    <2> HIDE DEF h
    <2>2. new = SetCondition(h, "HMetaReady", "True")
      BY <1>4 DEF h
    <2>3. /\ new \in HStreamDB /\ new.gen = hdb.gen /\ new.spec = hdb.spec
          /\ IsConditionTrue(new, "HMetaReady")
          /\ \A t \in CondTypes \ {"HMetaReady"} : new.conds[t] = hdb.conds[t]
      BY <2>1, <2>2, SetConditionTyped DEF CondTypes, IsConditionTrue
    <2> QED
      BY <1>1, <1>4, <2>3, StatusUpdateIsStatusStep DEF Steps, Workloads
  <1> QED
    BY <1>2, <1>3, <1>4 DEF UpdateHMetaStatus

(* The status update that follows the bootstrap of the store. *)
LEMMA HStoreStatusStep ==
  ASSUME TypeOK, BootstrapHStoreStatus
  PROVE  StatusStep("bootHStoreStatus", SetCondition(hdb, "HStoreReady", "True"), "idle")
  <1>1. pc = "bootHStoreStatus" /\ hdb \in HStreamDB
    BY DEF BootstrapHStoreStatus, TypeOK
  <1>2. LET new == SetCondition(hdb, "HStoreReady", "True")
        IN  new \in HStreamDB /\ new.gen = hdb.gen /\ new.spec = hdb.spec
    BY <1>1, SetConditionTyped DEF CondTypes
  <1> QED
    BY <1>1, <1>2, StatusUpdateIsStatusStep DEF BootstrapHStoreStatus, Steps

(* The status update that follows the init of the servers. *)
LEMMA HServerStatusStep ==
  ASSUME TypeOK, BootstrapHServerStatus
  PROVE  StatusStep("bootHServerStatus", SetCondition(hdb, "HServerReady", "True"), "gateway")
  <1>1. pc = "bootHServerStatus" /\ hdb \in HStreamDB
    BY DEF BootstrapHServerStatus, TypeOK
  <1>2. LET new == SetCondition(hdb, "HServerReady", "True")
        IN  new \in HStreamDB /\ new.gen = hdb.gen /\ new.spec = hdb.spec
    BY <1>1, SetConditionTyped DEF CondTypes
  <1> QED
    BY <1>1, <1>2, StatusUpdateIsStatusStep DEF BootstrapHServerStatus, Steps, Workloads

(* The status that updateStatus writes. *)
ReadyStatus(new) ==
  /\ new.conds["HMetaReady"] = hdb.conds["HMetaReady"]
  /\ new.conds["HStoreReady"] = hdb.conds["HStoreReady"]
  /\ new.conds["HServerReady"] = hdb.conds["HServerReady"]
  /\ \A t \in {"GatewayReady", "ConsoleReady"} : IsConditionTrue(hdb, t) => IsConditionTrue(new, t)
  /\ new.conds["Ready"].og = hdb.gen
  /\ IsConditionTrue(new, "Ready") <=>
       \A t \in {"HMetaReady", "HStoreReady", "HServerReady"} : IsConditionTrue(hdb, t)

(* updateStatus leaves the conditions of HMeta, the store and the servers  *)
(* alone, sets those of the optional components, and sets Ready to True    *)
(* exactly if the first three are True.                                    *)
LEMMA ReadyStatusStep ==
  ASSUME TypeOK, UpdateStatus
  PROVE  \/ ChildStep("status", "idle")
         \/ \E new : StatusStep("status", new, "idle") /\ ReadyStatus(new)
  <1>1. pc = "status" /\ hdb \in HStreamDB
    BY DEF UpdateStatus, TypeOK
  <1> DEFINE h == checkComponentsReady(hdb)
             new == checkAllReady(h)
             opt == {readyCondition(w) : w \in optionalComponents(hdb)}
  <1>2. opt \subseteq {"GatewayReady", "ConsoleReady"}
    BY DEF readyCondition
  <1>3. /\ h \in HStreamDB /\ h.gen = hdb.gen /\ h.spec = hdb.spec
        /\ \A t \in CondTypes : h.conds[t] = IF t \in opt THEN [st |-> "True", og |-> hdb.gen]
                                             ELSE hdb.conds[t]
    <2>1. h.conds \in [CondTypes -> Condition]
      BY <1>1, HStreamDBTyped DEF checkComponentsReady, HStreamDB, Condition
    <2> QED
      BY <1>1, <2>1 DEF checkComponentsReady, HStreamDB
  <1>4. \A t \in CondTypes : IsConditionTrue(h, t) <=> t \in opt \/ IsConditionTrue(hdb, t)
    BY <1>3 DEF IsConditionTrue
  <1>5. optionalComponents(h) = optionalComponents(hdb)
    BY <1>3 DEF optionalComponents
  <1> DEFINE list == {"HMetaReady", "HStoreReady", "HServerReady"} \cup opt
             s == IF \A t \in list : IsConditionTrue(h, t) THEN "True" ELSE "False"
  <1>6. new = SetCondition(h, "Ready", s)
    BY <1>5 DEF checkAllReady
  <1>7. s = "True" <=> \A t \in {"HMetaReady", "HStoreReady", "HServerReady"} : IsConditionTrue(hdb, t)
    BY <1>2, <1>4 DEF CondTypes
  <1>8. s \in {"True", "False"}
    OBVIOUS
  <1> HIDE DEF h, new, s, list
  <1>9. /\ new \in HStreamDB /\ new.gen = hdb.gen /\ new.spec = hdb.spec
        /\ new.conds["Ready"].st = s /\ new.conds["Ready"].og = hdb.gen
        /\ \A u \in CondTypes \ {"Ready"} : new.conds[u] = h.conds[u]
    BY <1>3, <1>6, <1>8, SetConditionTyped DEF CondTypes
  <1>10. ReadyStatus(new)
    <2>1. \A t \in {"HMetaReady", "HStoreReady", "HServerReady"} : new.conds[t] = hdb.conds[t]
      BY <1>2, <1>3, <1>9 DEF CondTypes
    <2>2. \A t \in {"GatewayReady", "ConsoleReady"} :
            IsConditionTrue(hdb, t) => IsConditionTrue(new, t)
      BY <1>4, <1>9 DEF CondTypes, IsConditionTrue
    <2> QED
      BY <1>7, <1>9, <2>1, <2>2 DEF ReadyStatus, IsConditionTrue
  <1>11. CASE /\ processRequeue("error", 0)
              /\ UNCHANGED <<cr, objs, caches, cluster, faults>>
    BY <1>1, <1>11 DEF processRequeue, Finish, Pending, ChildStep, TypeOK, caches, cluster
  <1>12. CASE StatusUpdate(new, Finish(~IsConditionTrue(new, "Ready")))
    <2>1. (~IsConditionTrue(new, "Ready")) \in BOOLEAN
      OBVIOUS
    <2> QED
      BY <1>1, <1>9, <1>10, <1>12, <2>1, StatusUpdateIsStatusStep DEF Steps
  <1> QED
    BY <1>11, <1>12 DEF UpdateStatus, new, h
-----------------------------------------------------------------------------
(* The steps that run hadmin, and those of the environment. *)

RestartStep ==
  /\ pc' = "idle" /\ hdb' = None /\ queued' \in SUBSET Pending
  /\ crSeen' = cr
  /\ seen' \in [Res -> Object \cup {None}]
  /\ \A r \in Res : seen'[r] = IF Kind(r) \in Lagging THEN objs[r] ELSE None
  /\ UNCHANGED <<cr, objs, bootstraps, serverInits>>

(* A restart of the operator is such a step. *)
LEMMA RestartIsRestartStep ==
  ASSUME TypeOK, Restart, UNCHANGED <<cr, objs, bootstraps, serverInits>>
  PROVE  RestartStep
  BY DEF Restart, RestartStep, TypeOK, Pending

(* The command took effect; the worker goes on, or failed to notice. *)
EffectStep(step, next) ==
  /\ pc = step
  /\ UNCHANGED <<cr, objs, crSeen, seen>>
  /\ faults' \in 0 .. MaxFaults
  /\ \/ pc' = next /\ hdb' = hdb /\ queued' = queued /\ faults' = faults
     \/ Ends /\ faults' = faults + 1

(* bootstrapHStore skips, waits, panics or runs the bootstrap command. *)
LEMMA StoreCallStep ==
  ASSUME TypeOK, BootstrapHStore
  PROVE  \/ /\ ChildStep("bootHStore", "hserver")
            /\ pc' = "hserver" => IsConditionTrue(hdb, "HStoreReady")
         \/ pc = "bootHStore" /\ RestartStep /\ faults' = faults
         \/ /\ EffectStep("bootHStore", "bootHStoreStatus")
            /\ ~IsConditionTrue(hdb, "HStoreReady")
            /\ checkPodRunningStatus("hstore")
            /\ bootstraps' = Append(bootstraps, metadataReplication(hdb))
            /\ serverInits' = serverInits
  <1>1. /\ pc = "bootHStore" /\ hdb \in HStreamDB /\ faults \in 0 .. MaxFaults
        /\ queued \in SUBSET Pending /\ objs \in [Res -> Object \cup {None}]
    BY DEF BootstrapHStore, TypeOK
  <1> DEFINE effect == /\ bootstraps' = Append(bootstraps, metadataReplication(hdb))
                       /\ UNCHANGED serverInits
  <1>2. CASE IsConditionTrue(hdb, "HStoreReady") /\ Skip("hserver")
    BY <1>1, <1>2, SkipIsChildStep
  <1>3. CASE Requeue(1) \/ Requeue(5)
    <2>1. ChildStep("bootHStore", "hserver")
      BY <1>1, <1>3, SkipIsChildStep
    <2>2. pc' = "idle"
      BY <1>3 DEF Requeue, processRequeue, Finish, Pending
    <2> QED
      BY <2>1, <2>2
  <1>4. CASE Restart /\ UNCHANGED <<cr, objs, cluster, faults>>
    BY <1>1, <1>4, RestartIsRestartStep DEF cluster
  <1>5. CASE /\ ~IsConditionTrue(hdb, "HStoreReady") /\ checkPodRunningStatus("hstore") /\ effect
             /\ Continue("bootHStoreStatus") /\ UNCHANGED <<cr, objs, caches, faults>>
    BY <1>1, <1>5 DEF EffectStep, Continue, caches
  <1>6. CASE /\ ~IsConditionTrue(hdb, "HStoreReady") /\ checkPodRunningStatus("hstore")
             /\ Fault /\ effect
             /\ processRequeue("nil", 5) /\ UNCHANGED <<cr, objs, caches>>
    BY <1>1, <1>6, ConstantsAssumption
    DEF EffectStep, Fault, processRequeue, Finish, Pending, Ends, caches
  <1>7. CASE /\ Fault /\ UNCHANGED cluster
             /\ processRequeue("nil", 5) /\ UNCHANGED <<cr, objs, caches>>
    BY <1>1, <1>7, ConstantsAssumption
    DEF ChildStep, Fault, processRequeue, Finish, Pending, cluster, caches
  <1> QED
    BY <1>2, <1>3, <1>4, <1>5, <1>6, <1>7 DEF BootstrapHStore, Call

(* bootstrapHServer skips, waits, panics or runs the init command. *)
LEMMA ServerCallStep ==
  ASSUME TypeOK, BootstrapHServer
  PROVE  \/ /\ ChildStep("bootHServer", "gateway")
            /\ pc' = "gateway" => IsConditionTrue(hdb, "HServerReady")
         \/ pc = "bootHServer" /\ RestartStep /\ faults' = faults
         \/ /\ EffectStep("bootHServer", "bootHServerStatus")
            /\ ~IsConditionTrue(hdb, "HServerReady")
            /\ checkPodRunningStatus("hserver")
            /\ serverInits' = serverInits + 1
            /\ bootstraps' = bootstraps
  <1>1. /\ pc = "bootHServer" /\ hdb \in HStreamDB /\ faults \in 0 .. MaxFaults
        /\ queued \in SUBSET Pending /\ objs \in [Res -> Object \cup {None}]
    BY DEF BootstrapHServer, TypeOK
  <1> DEFINE effect == serverInits' = serverInits + 1 /\ UNCHANGED bootstraps
  <1>2. CASE IsConditionTrue(hdb, "HServerReady") /\ Skip("gateway")
    BY <1>1, <1>2, SkipIsChildStep
  <1>3. CASE Requeue(1) \/ Requeue(5)
    <2>1. ChildStep("bootHServer", "gateway")
      BY <1>1, <1>3, SkipIsChildStep
    <2>2. pc' = "idle"
      BY <1>3 DEF Requeue, processRequeue, Finish, Pending
    <2> QED
      BY <2>1, <2>2
  <1>4. CASE Restart /\ UNCHANGED <<cr, objs, cluster, faults>>
    BY <1>1, <1>4, RestartIsRestartStep DEF cluster
  <1>5. CASE /\ ~IsConditionTrue(hdb, "HServerReady") /\ checkPodRunningStatus("hserver") /\ effect
             /\ Continue("bootHServerStatus") /\ UNCHANGED <<cr, objs, caches, faults>>
    BY <1>1, <1>5 DEF EffectStep, Continue, caches
  <1>6. CASE /\ ~IsConditionTrue(hdb, "HServerReady") /\ checkPodRunningStatus("hserver")
             /\ Fault /\ effect
             /\ processRequeue("nil", 5) /\ UNCHANGED <<cr, objs, caches>>
    BY <1>1, <1>6, ConstantsAssumption
    DEF EffectStep, Fault, processRequeue, Finish, Pending, Ends, caches
  <1>7. CASE /\ Fault /\ UNCHANGED cluster
             /\ processRequeue("nil", 5) /\ UNCHANGED <<cr, objs, caches>>
    BY <1>1, <1>7, ConstantsAssumption
    DEF ChildStep, Fault, processRequeue, Finish, Pending, cluster, caches
  <1> QED
    BY <1>2, <1>3, <1>4, <1>5, <1>6, <1>7 DEF BootstrapHServer, Call

(* A pod starts, stops or fails: only the count of ready pods changes. *)
SameContent(a, b) == a.replicas = b.replicas /\ a.tmpl = b.tmpl /\ a.arg = b.arg

PodStep ==
  /\ UNCHANGED <<cr, crSeen, seen, queued, pc, hdb, bootstraps, serverInits>>
  /\ objs' \in [Res -> Object \cup {None}]
  /\ \A r \in Res : objs'[r] # None <=> objs[r] # None
  /\ \A r \in Res : objs[r] # None => SameContent(objs[r], objs'[r])
  /\ \A r \in Res \ Workloads : objs'[r] = objs[r]
  /\ \A r \in Workloads : objs[r] # None /\ objs'[r].ready < objs[r].ready =>
       faults' > faults \/ objs[r].ready > objs[r].replicas
  /\ \A r \in Workloads : objs[r] # None /\ objs'[r].ready > objs[r].ready =>
       objs'[r].ready <= objs[r].replicas
  /\ faults' \in 0 .. MaxFaults
  /\ faults' >= faults

(* What the kubelets and the garbage collector do to the children. *)
LEMMA PodIsPodStep ==
  ASSUME TypeOK, NEW w \in Workloads, PodReady(w) \/ PodStop(w) \/ PodFail(w)
  PROVE  PodStep
  <1>1. /\ w \in Res /\ objs[w] \in Object /\ objs \in [Res -> Object \cup {None}]
        /\ faults \in 0 .. MaxFaults
    BY DEF TypeOK, Res, PodReady, PodStop, PodFail
  <1>2. faults' \in 0 .. MaxFaults /\ faults' >= faults
    BY <1>1, ConstantsAssumption DEF PodReady, PodStop, PodFail, Fault
  <1>3. PICK n \in Nat : objs' = [objs EXCEPT ![w].ready = n]
    <2>1. objs[w].ready \in Nat /\ objs[w].replicas \in Nat
      BY <1>1 DEF Object
    <2>2. CASE PodReady(w)
      <3>1. objs[w].ready + 1 \in Nat
        BY <2>1
      <3>2. objs' = [objs EXCEPT ![w].ready = objs[w].ready + 1]
        BY <2>2, <1>1 DEF PodReady
      <3> QED
        BY <3>1, <3>2
    <2>3. CASE PodStop(w) \/ PodFail(w)
      <3>1. objs[w].ready - 1 \in Nat
        BY <2>1, <2>3 DEF PodStop, PodFail
      <3>2. objs' = [objs EXCEPT ![w].ready = objs[w].ready - 1]
        BY <2>3, <1>1 DEF PodStop, PodFail
      <3> QED
        BY <3>1, <3>2
    <2> QED
      BY <2>2, <2>3
  <1>4. [objs[w] EXCEPT !.ready = n] \in Object
    BY <1>1 DEF Object
  <1>5. objs' = [objs EXCEPT ![w] = [objs[w] EXCEPT !.ready = n]]
    BY <1>3
  <1>6. /\ objs' \in [Res -> Object \cup {None}]
        /\ objs'[w] \in Object /\ SameContent(objs[w], objs'[w])
        /\ \A r \in Res \ {w} : objs'[r] = objs[r]
    BY <1>1, <1>4, <1>5 DEF Object, SameContent
  <1>7. /\ objs[w] # None /\ objs'[w] # None
        /\ \A r \in Res : objs[r] # None => SameContent(objs[r], objs'[r])
    BY <1>1, <1>6, ConstantsAssumption DEF SameContent
  <1>8. /\ objs'[w].ready < objs[w].ready =>
             faults' > faults \/ objs[w].ready > objs[w].replicas
        /\ objs'[w].ready > objs[w].ready => objs'[w].ready <= objs[w].replicas
    <2>1. /\ objs[w].ready \in Nat /\ objs[w].replicas \in Nat /\ faults \in Nat
          /\ objs'[w].ready = n
      BY <1>1, <1>5, ConstantsAssumption DEF Object
    <2>2. CASE PodReady(w)
      <3>1. n = objs[w].ready + 1 /\ objs[w].ready < objs[w].replicas
        BY <1>1, <2>1, <2>2 DEF PodReady, Object
      <3> QED
        BY <2>1, <3>1
    <2>3. CASE PodStop(w)
      <3>1. n = objs[w].ready - 1 /\ objs[w].ready > objs[w].replicas
        BY <1>1, <2>1, <2>3 DEF PodStop, Object
      <3> QED
        BY <2>1, <3>1
    <2>4. CASE PodFail(w)
      <3>1. n = objs[w].ready - 1 /\ faults' = faults + 1
        BY <1>1, <2>1, <2>4 DEF PodFail, Object, Fault
      <3> QED
        BY <2>1, <3>1
    <2> QED
      BY <2>2, <2>3, <2>4
  <1>9. UNCHANGED <<cr, crSeen, seen, queued, pc, hdb, bootstraps, serverInits>>
    BY DEF PodReady, PodStop, PodFail, Unobserved, cluster
  <1>10. \A r \in Workloads \ {w} : objs[r] # None => objs[r].ready \in Nat /\ objs'[r] = objs[r]
    BY <1>1, <1>6 DEF Object, Res
  <1>11. /\ \A r \in Workloads : objs[r] # None /\ objs'[r].ready < objs[r].ready =>
              faults' > faults \/ objs[r].ready > objs[r].replicas
         /\ \A r \in Workloads : objs[r] # None /\ objs'[r].ready > objs[r].ready =>
              objs'[r].ready <= objs[r].replicas
    BY <1>8, <1>10
  <1> QED
    BY <1>2, <1>6, <1>7, <1>9, <1>11 DEF PodStep

(* An edit by the user increments the generation and leaves the status. *)
EditStep ==
  /\ UNCHANGED <<objs, crSeen, seen, queued, pc, hdb, bootstraps, serverInits, faults>>
  /\ cr \in HStreamDB /\ cr' \in HStreamDB
  /\ cr'.gen = cr.gen + 1 /\ cr'.conds = cr.conds
  /\ cr'.spec \in Specs /\ cr.gen < MaxGen

(* An edit by the user changes the spec and the generation only. *)
LEMMA EditIsEditStep ==
  ASSUME TypeOK, UserEdit
  PROVE  EditStep
  <1>1. PICK s \in Specs : cr' = [cr EXCEPT !.spec = s, !.gen = @ + 1]
    BY DEF UserEdit
  <1>2. cr \in HStreamDB /\ s \in HStreamDBSpec
    BY ConstantsAssumption DEF UserEdit, TypeOK
  <1>3. cr.gen \in Nat /\ cr.gen + 1 \in Nat
    BY <1>2, HStreamDBTyped
  <1>4. cr' = [[cr EXCEPT !.spec = s] EXCEPT !.gen = cr.gen + 1]
    BY <1>1, <1>2 DEF HStreamDB
  <1>5. cr' \in HStreamDB /\ cr'.gen = cr.gen + 1 /\ cr'.conds = cr.conds /\ cr'.spec = s
    BY <1>2, <1>3, <1>4 DEF HStreamDB
  <1> QED
    BY <1>2, <1>5 DEF EditStep, UserEdit, Unobserved, cluster
-----------------------------------------------------------------------------
(* All the shapes a step can have.  The invariants below are proved from   *)
(* them: they forget what the sub-reconcilers write and keep where the     *)
(* worker goes.                                                            *)

BeforeFenceStep ==
  \/ LogDeviceConfig /\ ChildStep("logdeviceCM", "nshardsCM")
  \/ NShardsConfig /\ ChildStep("nshardsCM", "hmetaSvc")
  \/ AddHMetaService /\ ChildStep("hmetaSvc", "adminSvc")
  \/ AddAdminServerService /\ ChildStep("adminSvc", "hstoreSvc")
  \/ AddHStoreService /\ ChildStep("hstoreSvc", "hserverSvc")
  \/ AddHServerService /\ ChildStep("hserverSvc", "hmeta")
  \/ AddHMeta /\ ChildStep("hmeta", "hmetaStatus")
  \/ UpdateHMetaStatus /\ ChildStep("hmetaStatus", "idle")

AfterFenceStep ==
  \/ AddAdminServer /\ ChildStep("admin", "hstore")
  \/ AddHStore /\ ChildStep("hstore", "bootHStore")
  \/ /\ BootstrapHStore /\ ChildStep("bootHStore", "hserver")
     /\ pc' = "hserver" => IsConditionTrue(hdb, "HStoreReady")
  \/ AddHServer /\ ChildStep("hserver", "bootHServer")
  \/ /\ BootstrapHServer /\ ChildStep("bootHServer", "gateway")
     /\ pc' = "gateway" => IsConditionTrue(hdb, "HServerReady")
  \/ AddGateway /\ ChildStep("gateway", "console")
  \/ AddConsole /\ ChildStep("console", "status")
  \/ UpdateStatus /\ ChildStep("status", "idle")

FenceStep ==
  \E new : /\ StatusStep("hmetaStatus", new, "admin")
           /\ IsConditionTrue(new, "HMetaReady")
           /\ \A t \in CondTypes \ {"HMetaReady"} : new.conds[t] = hdb.conds[t]

StoreReadyStep ==
  StatusStep("bootHStoreStatus", SetCondition(hdb, "HStoreReady", "True"), "idle")

ServerReadyStep ==
  StatusStep("bootHServerStatus", SetCondition(hdb, "HServerReady", "True"), "gateway")

ReadyStep ==
  \E new : StatusStep("status", new, "idle") /\ ReadyStatus(new)

StoreEffectStep ==
  /\ EffectStep("bootHStore", "bootHStoreStatus")
  /\ ~IsConditionTrue(hdb, "HStoreReady")
  /\ checkPodRunningStatus("hstore")
  /\ bootstraps' = Append(bootstraps, metadataReplication(hdb))
  /\ serverInits' = serverInits

ServerEffectStep ==
  /\ EffectStep("bootHServer", "bootHServerStatus")
  /\ ~IsConditionTrue(hdb, "HServerReady")
  /\ checkPodRunningStatus("hserver")
  /\ serverInits' = serverInits + 1
  /\ bootstraps' = bootstraps

PanicStep == pc \in {"bootHStore", "bootHServer"} /\ RestartStep /\ faults' = faults

CrashStep == RestartStep /\ faults' = faults + 1 /\ faults' \in 0 .. MaxFaults

SyncStep ==
  /\ UNCHANGED <<cr, objs, pc, hdb, bootstraps, serverInits, faults>>
  /\ crSeen' \in {cr, crSeen}
  /\ seen' \in [Res -> Object \cup {None}]
  /\ \A r \in Res : seen'[r] = seen[r] \/ (Kind(r) \in Lagging /\ seen'[r] = objs[r])
  /\ queued' \in SUBSET Pending

(* Deletion of the CR, then of its children. *)
DeleteStep ==
  /\ UNCHANGED <<crSeen, seen, queued, pc, hdb, bootstraps, serverInits, faults>>
  /\ cr' = None
  /\ objs' \in [Res -> Object \cup {None}]
  /\ \A r \in Res : objs'[r] # None => objs'[r] = objs[r]
  /\ cr # None => objs' = objs

Step ==
  \/ Reconcile \/ BeforeFenceStep \/ FenceStep \/ AfterFenceStep
  \/ StoreEffectStep \/ StoreReadyStep \/ ServerEffectStep \/ ServerReadyStep
  \/ ReadyStep \/ PanicStep \/ CrashStep \/ SyncStep \/ PodStep \/ EditStep
  \/ DeleteStep

(* Every step of the specification has one of the shapes above. *)
LEMMA NextIsStep ==
  ASSUME TypeOK, Next
  PROVE  Step
  <1>1. CASE Reconcile
    BY <1>1 DEF Step
  <1>2. CASE \/ LogDeviceConfig \/ NShardsConfig \/ AddHMetaService
             \/ AddAdminServerService \/ AddHStoreService \/ AddHServerService \/ AddHMeta
    BY <1>2, ChildActions DEF Step, BeforeFenceStep
  <1>3. CASE AddAdminServer \/ AddHStore \/ AddHServer \/ AddGateway \/ AddConsole
    BY <1>3, ChildActions DEF Step, AfterFenceStep
  <1>4. CASE UpdateHMetaStatus
    BY <1>4, HMetaStatusStep DEF Step, BeforeFenceStep, FenceStep
  <1>5. CASE BootstrapHStore
    BY <1>5, StoreCallStep DEF Step, AfterFenceStep, StoreEffectStep, PanicStep
  <1>6. CASE BootstrapHServer
    BY <1>6, ServerCallStep DEF Step, AfterFenceStep, ServerEffectStep, PanicStep
  <1>7. CASE BootstrapHStoreStatus
    BY <1>7, HStoreStatusStep DEF Step, StoreReadyStep
  <1>8. CASE BootstrapHServerStatus
    BY <1>8, HServerStatusStep DEF Step, ServerReadyStep
  <1>9. CASE UpdateStatus
    BY <1>9, ReadyStatusStep DEF Step, AfterFenceStep, ReadyStep
  <1>10. CASE RequeueAfter \/ SyncCR \/ \E k \in Lagging : SyncKind(k)
    <2>1. SyncStep
      BY <1>10 DEF SyncStep, RequeueAfter, SyncCR, SyncKind, TypeOK, Pending, caches, cluster
    <2> QED
      BY <2>1 DEF Step
  <1>11. CASE \E w \in Workloads : PodReady(w) \/ PodStop(w) \/ PodFail(w)
    BY <1>11, PodIsPodStep DEF Step
  <1>12. CASE UserEdit
    BY <1>12, EditIsEditStep DEF Step
  <1>13. CASE UserDelete \/ \E r \in Res : GarbageCollect(r)
    <2>1. DeleteStep
      BY <1>13 DEF DeleteStep, UserDelete, GarbageCollect, Unobserved, cluster, TypeOK
    <2> QED
      BY <2>1 DEF Step
  <1>14. CASE Crash
    <2>1. CrashStep
      BY <1>14, RestartIsRestartStep, ConstantsAssumption
      DEF CrashStep, Crash, Fault, cluster, TypeOK
    <2> QED
      BY <2>1 DEF Step
  <1> QED
    BY <1>1, <1>2, <1>3, <1>4, <1>5, <1>6, <1>7, <1>8, <1>9, <1>10, <1>11, <1>12,
       <1>13, <1>14 DEF Next, Worker, Environment

-----------------------------------------------------------------------------

(* The initial states are well typed. *)
LEMMA InitTypeOK ==
  Init => TypeOK
  <1> SUFFICES ASSUME Init PROVE TypeOK
    OBVIOUS
  <1>1. PICK s \in Specs :
          cr = [gen |-> 1, spec |-> s, nodes |-> None,
                conds |-> [t \in CondTypes |-> [st |-> "Unset", og |-> 0]]]
    BY DEF Init
  <1>2. cr \in HStreamDB
    BY <1>1, ConstantsAssumption DEF HStreamDB, Condition
  <1>3. bootstraps \in Seq(Nat) /\ serverInits \in Nat /\ faults \in 0 .. MaxFaults
    BY ConstantsAssumption DEF Init
  <1> QED
    BY <1>2, <1>3 DEF Init, TypeOK, Steps

(* Every shape of step preserves the types. *)
LEMMA StepTypeOK ==
  ASSUME TypeOK, Step
  PROVE  TypeOK'
  <1> USE DEF TypeOK, Steps, Workloads, Services, ConfigMaps
  <1>1. CASE Reconcile
    BY <1>1 DEF Reconcile, Pending, caches, cluster
  <1>2. CASE BeforeFenceStep \/ AfterFenceStep
    BY <1>2 DEF BeforeFenceStep, AfterFenceStep, ChildStep
  <1>3. CASE FenceStep \/ StoreReadyStep \/ ServerReadyStep \/ ReadyStep
    <2>1. ASSUME NEW step, NEW new, NEW next \in {"idle", "admin", "gateway"},
                 StatusStep(step, new, next)
          PROVE  TypeOK'
      BY <2>1 DEF StatusStep, Ends
    <2> QED
      BY <1>3, <2>1 DEF FenceStep, StoreReadyStep, ServerReadyStep, ReadyStep
  <1>4. CASE StoreEffectStep
    <2>1. bootstraps' \in Seq(Nat)
      BY <1>4, ReplicationTyped DEF StoreEffectStep, EffectStep
    <2> QED
      BY <1>4, <2>1 DEF StoreEffectStep, EffectStep, Ends
  <1>5. CASE ServerEffectStep
    BY <1>5 DEF ServerEffectStep, EffectStep, Ends
  <1>6. CASE PanicStep \/ CrashStep
    BY <1>6 DEF PanicStep, CrashStep, RestartStep
  <1>7. CASE SyncStep \/ PodStep \/ EditStep \/ DeleteStep
    BY <1>7 DEF SyncStep, PodStep, EditStep, DeleteStep
  <1> QED
    BY <1>1, <1>2, <1>3, <1>4, <1>5, <1>6, <1>7 DEF Step

(* Every reachable state is well typed. *)
THEOREM TypeCorrect == Spec => []TypeOK
  <1>1. TypeOK /\ [Next]_vars => TypeOK'
    <2> SUFFICES ASSUME TypeOK, [Next]_vars PROVE TypeOK'
      OBVIOUS
    <2>1. CASE Next
      BY <2>1, NextIsStep, StepTypeOK
    <2>2. CASE UNCHANGED vars
      BY <2>2 DEF TypeOK, vars
    <2> QED
      BY <2>1, <2>2
  <1> QED
    BY <1>1, InitTypeOK, PTL DEF Spec
-----------------------------------------------------------------------------
(* Order of the bootstrap.  ServerAfterStore is not inductive: the HServer *)
(* is deployed on the strength of a condition in the worker's copy, which  *)
(* came from the cache, which came from the API server.  OrderInv says of  *)
(* each of these copies what its conditions stand for.                     *)

AfterStore == {"hserver", "bootHServer", "bootHServerStatus", "gateway", "console", "status"}

Honest(h) ==
  h # None =>
    /\ IsConditionTrue(h, "HStoreReady") => bootstraps # <<>>
    /\ IsConditionTrue(h, "HServerReady") => serverInits > 0
    /\ IsConditionTrue(h, "Ready") => bootstraps # <<>> /\ serverInits > 0

OrderInv ==
  /\ Honest(cr) /\ Honest(crSeen) /\ Honest(hdb)
  /\ pc = "bootHStoreStatus" => bootstraps # <<>>
  /\ pc \in AfterStore => IsConditionTrue(hdb, "HStoreReady")
  /\ pc = "bootHServerStatus" => serverInits > 0
  /\ objs["hserver"] # None => bootstraps # <<>>

(* Initially nothing is deployed and no condition is set. *)
LEMMA InitOrderInv ==
  Init => OrderInv
  BY DEF Init, OrderInv, Honest, AfterStore, IsConditionTrue, CondTypes, Res, Workloads

(* A status step from step to next keeps OrderInv if the new status is     *)
(* honest.                                                                 *)
LEMMA StatusOrderInv ==
  ASSUME TypeOK, OrderInv, NEW step, NEW new, NEW next \in {"idle", "admin", "gateway"},
         StatusStep(step, new, next), Honest(new),
         next = "gateway" => IsConditionTrue(new, "HStoreReady")
  PROVE  OrderInv'
  <1>1. Honest(new)'
    BY DEF Honest, StatusStep, IsConditionTrue
  <1>2. Honest(cr)' /\ Honest(crSeen)' /\ Honest(hdb)'
    BY <1>1 DEF OrderInv, Honest, StatusStep, Ends, IsConditionTrue
  <1> QED
    BY <1>2 DEF OrderInv, StatusStep, Ends, AfterStore

(* Every shape of step keeps the conditions of every copy of the CR honest. *)
LEMMA StepOrderInv ==
  ASSUME TypeOK, OrderInv, Step
  PROVE  OrderInv'
  <1>1. CASE Reconcile
    BY <1>1 DEF Reconcile, OrderInv, Honest, AfterStore, IsConditionTrue, caches, cluster
  <1>2. CASE BeforeFenceStep
    BY <1>2 DEF BeforeFenceStep, ChildStep, OrderInv, Honest, AfterStore, IsConditionTrue,
                Res, Workloads
  <1>3. CASE AfterFenceStep
    <2>1. objs'["hserver"] # None => bootstraps' # <<>>
      <3>1. CASE pc = "hserver"
        BY <1>3, <3>1, ConstantsAssumption
        DEF AfterFenceStep, ChildStep, OrderInv, Honest, AfterStore, TypeOK
      <3>2. CASE pc # "hserver"
        BY <1>3, <3>2 DEF AfterFenceStep, ChildStep, OrderInv, Res, Workloads
      <3> QED
        BY <3>1, <3>2
    <2>2. Honest(cr)' /\ Honest(crSeen)' /\ Honest(hdb)'
      BY <1>3 DEF AfterFenceStep, ChildStep, OrderInv, Honest, IsConditionTrue
    <2>3. /\ (pc = "bootHStoreStatus" => bootstraps # <<>>)'
          /\ (pc \in AfterStore => IsConditionTrue(hdb, "HStoreReady"))'
          /\ (pc = "bootHServerStatus" => serverInits > 0)'
      BY <1>3 DEF AfterFenceStep, ChildStep, OrderInv, AfterStore, IsConditionTrue
    <2> QED
      BY <2>1, <2>2, <2>3 DEF OrderInv
  <1>4. CASE FenceStep
    <2>1. PICK new : /\ StatusStep("hmetaStatus", new, "admin")
                     /\ \A t \in CondTypes \ {"HMetaReady"} : new.conds[t] = hdb.conds[t]
      BY <1>4 DEF FenceStep
    <2>2. hdb # None /\ Honest(hdb)
      BY <2>1, ConstantsAssumption DEF StatusStep, TypeOK, OrderInv
    <2>3. Honest(new)
      BY <2>1, <2>2 DEF Honest, IsConditionTrue, CondTypes
    <2> QED
      BY <2>1, <2>3, StatusOrderInv
  <1>5. CASE StoreReadyStep
    <2> DEFINE new == SetCondition(hdb, "HStoreReady", "True")
    <2>1. hdb \in HStreamDB /\ hdb # None /\ Honest(hdb) /\ bootstraps # <<>>
      BY <1>5, ConstantsAssumption DEF StoreReadyStep, StatusStep, TypeOK, OrderInv
    <2>2. /\ new.conds["HServerReady"] = hdb.conds["HServerReady"]
          /\ new.conds["Ready"] = hdb.conds["Ready"]
      BY <2>1, SetConditionTyped DEF CondTypes
    <2>3. Honest(new)
      BY <2>1, <2>2 DEF Honest, IsConditionTrue
    <2> QED
      BY <1>5, <2>3, StatusOrderInv DEF StoreReadyStep
  <1>6. CASE ServerReadyStep
    <2> DEFINE new == SetCondition(hdb, "HServerReady", "True")
    <2>1. /\ hdb \in HStreamDB /\ hdb # None /\ Honest(hdb) /\ serverInits > 0
          /\ IsConditionTrue(hdb, "HStoreReady")
      BY <1>6, ConstantsAssumption DEF ServerReadyStep, StatusStep, TypeOK, OrderInv, AfterStore
    <2>2. /\ new.conds["HStoreReady"] = hdb.conds["HStoreReady"]
          /\ new.conds["Ready"] = hdb.conds["Ready"]
      BY <2>1, SetConditionTyped DEF CondTypes
    <2>3. Honest(new) /\ IsConditionTrue(new, "HStoreReady")
      BY <2>1, <2>2 DEF Honest, IsConditionTrue
    <2> QED
      BY <1>6, <2>3, StatusOrderInv DEF ServerReadyStep
  <1>7. CASE ReadyStep
    <2>1. PICK new :
            /\ StatusStep("status", new, "idle")
            /\ new.conds["HStoreReady"] = hdb.conds["HStoreReady"]
            /\ new.conds["HServerReady"] = hdb.conds["HServerReady"]
            /\ IsConditionTrue(new, "Ready") =>
                 IsConditionTrue(hdb, "HStoreReady") /\ IsConditionTrue(hdb, "HServerReady")
      BY <1>7 DEF ReadyStep, ReadyStatus
    <2>2. Honest(hdb) /\ hdb # None
      BY <2>1, ConstantsAssumption DEF StatusStep, TypeOK, OrderInv
    <2>3. Honest(new)
      BY <2>1, <2>2 DEF Honest, IsConditionTrue
    <2> QED
      BY <2>1, <2>3, StatusOrderInv
  <1>8. CASE StoreEffectStep
    <2>1. bootstraps' # <<>>
      BY <1>8, ReplicationTyped DEF StoreEffectStep, EffectStep, TypeOK
    <2> QED
      BY <1>8, <2>1 DEF StoreEffectStep, EffectStep, Ends, OrderInv, Honest, IsConditionTrue, AfterStore
  <1>9. CASE ServerEffectStep
    <2>1. serverInits' > 0
      BY <1>9 DEF ServerEffectStep, TypeOK
    <2> QED
      BY <1>9, <2>1 DEF ServerEffectStep, EffectStep, Ends, OrderInv, Honest, IsConditionTrue, AfterStore
  <1>10. CASE PanicStep \/ CrashStep
    BY <1>10 DEF PanicStep, CrashStep, RestartStep, OrderInv, Honest, IsConditionTrue, AfterStore
  <1>11. CASE SyncStep
    BY <1>11 DEF SyncStep, OrderInv, Honest, IsConditionTrue, AfterStore
  <1>12. CASE PodStep \/ DeleteStep
    BY <1>12 DEF PodStep, DeleteStep, OrderInv, Honest, IsConditionTrue, AfterStore, Res, Workloads
  <1>13. CASE EditStep
    <2>1. cr # None
      BY <1>13, ConstantsAssumption DEF EditStep
    <2>2. Honest(cr)' /\ Honest(crSeen)' /\ Honest(hdb)'
      BY <1>13, <2>1 DEF EditStep, OrderInv, Honest, IsConditionTrue
    <2> QED
      BY <1>13, <2>2 DEF EditStep, OrderInv, AfterStore, IsConditionTrue
  <1> QED
    BY <1>1, <1>2, <1>3, <1>4, <1>5, <1>6, <1>7, <1>8, <1>9, <1>10, <1>11, <1>12, <1>13 DEF Step

(* For every instance of the constants: the conditions in every copy of the *)
(* CR, in the API server, in the cache or in the worker, are honest.       *)
THEOREM OrderInvariant == Spec => [](TypeOK /\ OrderInv)
  <1>1. TypeOK /\ OrderInv /\ [Next]_vars => OrderInv'
    <2> SUFFICES ASSUME TypeOK, OrderInv, [Next]_vars PROVE OrderInv'
      OBVIOUS
    <2>1. CASE Next
      BY <2>1, NextIsStep, StepOrderInv
    <2>2. CASE UNCHANGED vars
      BY <2>2 DEF OrderInv, Honest, IsConditionTrue, AfterStore, vars
    <2> QED
      BY <2>1, <2>2
  <1> QED
    BY <1>1, InitOrderInv, TypeCorrect, PTL DEF Spec

(* For every instance: no HServer before the store's bootstrap, with any   *)
(* number of faults, edits, stale reads and restarts.                      *)
THEOREM ServerNeverBeforeStore == Spec => []ServerAfterStore
  <1>1. OrderInv => ServerAfterStore
    BY DEF OrderInv, ServerAfterStore
  <1> QED
    BY <1>1, OrderInvariant, PTL

(* For every instance: a cluster reported Ready was bootstrapped and its   *)
(* servers initialised.                                                    *)
THEOREM ReadyIsAlwaysEarned == Spec => []ReadyIsEarned
  <1>1. OrderInv => ReadyIsEarned
    BY DEF OrderInv, Honest, ReadyIsEarned
  <1> QED
    BY <1>1, OrderInvariant, PTL
-----------------------------------------------------------------------------
(* Repetitions of the bootstrap commands.  updateHMetaStatus writes the    *)
(* status before any command is run, so past it the worker's copy is the   *)
(* current version of the CR unless the user edited or deleted it since.   *)

Fenced == {"admin", "hstore", "bootHStore", "bootHStoreStatus", "hserver",
           "bootHServer", "bootHServerStatus"}

(* n effects of the command that the steps before lead to and whose        *)
(* success the step at records in condition t.                             *)
Fence(n, t, at, before) ==
  cr # None =>
    /\ n <= cr.gen + faults
    /\ ~IsConditionTrue(cr, t) /\ ~(pc = at /\ hdb = cr) => n + 1 <= cr.gen + faults
    /\ pc \in before /\ ~IsConditionTrue(hdb, t) => n + 1 <= hdb.gen + faults
    /\ pc = at => n <= hdb.gen + faults

StoreFence ==
  Fence(Len(bootstraps), "HStoreReady", "bootHStoreStatus", {"admin", "hstore", "bootHStore"})

ServerFence ==
  Fence(serverInits, "HServerReady", "bootHServerStatus",
        {"admin", "hstore", "bootHStore", "hserver", "bootHServer"})

FenceInv ==
  /\ cr # None /\ pc \in Fenced => hdb = cr \/ hdb.gen < cr.gen
  /\ StoreFence
  /\ ServerFence

(* Initially no command took effect. *)
LEMMA InitFenceInv ==
  Init => FenceInv
  BY ConstantsAssumption
  DEF Init, FenceInv, StoreFence, ServerFence, Fence, Fenced, IsConditionTrue, CondTypes

(* The types the arithmetic below needs. *)
LEMMA FenceTypes ==
  ASSUME TypeOK
  PROVE  /\ cr # None => cr.gen \in Nat
         /\ pc # "idle" => hdb # None /\ hdb \in HStreamDB /\ hdb.gen \in Nat
         /\ faults \in Nat
         /\ Len(bootstraps) \in Nat
         /\ serverInits \in Nat
  BY HStreamDBTyped, ConstantsAssumption DEF TypeOK

(* Every shape of step keeps the number of effects within its bound. *)
LEMMA StepFenceInv ==
  ASSUME TypeOK, FenceInv, Step, TypeOK'
  PROVE  FenceInv'
  <1> DEFINE beforeStore == {"admin", "hstore", "bootHStore"}
             beforeServer == {"admin", "hstore", "bootHStore", "hserver", "bootHServer"}
  <1>0. /\ cr # None => cr.gen \in Nat
        /\ pc # "idle" => hdb # None /\ hdb \in HStreamDB /\ hdb.gen \in Nat
        /\ faults \in Nat /\ Len(bootstraps) \in Nat /\ serverInits \in Nat
        /\ faults' \in Nat
    BY FenceTypes, ConstantsAssumption DEF TypeOK
  <1>1. CASE Reconcile
    BY <1>1 DEF Reconcile, FenceInv, StoreFence, ServerFence, Fence, Fenced, IsConditionTrue,
                caches, cluster
  <1>2. CASE BeforeFenceStep
    <2>1. /\ UNCHANGED <<cr, bootstraps, serverInits>> /\ faults' >= faults
          /\ pc \notin {"bootHStoreStatus", "bootHServerStatus"}
          /\ pc' \notin Fenced
      BY <1>2 DEF BeforeFenceStep, ChildStep, Fenced
    <2>2. StoreFence'
      BY <1>0, <2>1 DEF FenceInv, StoreFence, Fence, Fenced, IsConditionTrue
    <2>3. ServerFence'
      BY <1>0, <2>1 DEF FenceInv, ServerFence, Fence, Fenced, IsConditionTrue
    <2> QED
      BY <2>1, <2>2, <2>3 DEF FenceInv
  <1>3. CASE AfterFenceStep
    <2>1. /\ UNCHANGED <<cr, bootstraps, serverInits>> /\ faults' >= faults
          /\ pc' = "idle" \/ hdb' = hdb
          /\ pc \notin {"bootHStoreStatus", "bootHServerStatus"}
          /\ pc' \notin {"bootHStoreStatus", "bootHServerStatus"}
          /\ pc' \in Fenced => pc \in Fenced
          /\ pc' \in beforeStore => pc \in beforeStore
          /\ pc' \in beforeServer => pc \in beforeServer
      BY <1>3 DEF AfterFenceStep, ChildStep, Fenced
    <2>2. (cr # None /\ pc \in Fenced => hdb = cr \/ hdb.gen < cr.gen)'
      BY <2>1 DEF FenceInv, Fenced
    <2>3. StoreFence'
      BY <1>0, <2>1 DEF FenceInv, StoreFence, Fence, IsConditionTrue
    <2>4. ServerFence'
      BY <1>0, <2>1 DEF FenceInv, ServerFence, Fence, IsConditionTrue
    <2> QED
      BY <2>2, <2>3, <2>4 DEF FenceInv
  <1>4. CASE FenceStep
    <2>1. PICK new : /\ StatusStep("hmetaStatus", new, "admin")
                     /\ \A t \in CondTypes \ {"HMetaReady"} : new.conds[t] = hdb.conds[t]
      BY <1>4 DEF FenceStep
    <2>2. /\ new # None /\ new.gen = hdb.gen
          /\ new.conds["HStoreReady"] = hdb.conds["HStoreReady"]
          /\ new.conds["HServerReady"] = hdb.conds["HServerReady"]
      BY <2>1, ConstantsAssumption DEF StatusStep, CondTypes
    <2>3. (cr # None /\ pc \in Fenced => hdb = cr \/ hdb.gen < cr.gen)'
      BY <1>0, <2>1, <2>2 DEF StatusStep, Ends, FenceInv, Fenced
    <2>4. StoreFence'
      BY <1>0, <2>1, <2>2 DEF StatusStep, Ends, FenceInv, StoreFence, Fence, Fenced, IsConditionTrue
    <2>5. ServerFence'
      <3>1. CASE pc' = "admin"
        BY <1>0, <2>1, <2>2, <3>1
        DEF StatusStep, Ends, FenceInv, ServerFence, Fence, IsConditionTrue
      <3>2. CASE pc' # "admin"
        <4>1. pc = "hmetaStatus" /\ pc' = "idle" /\ cr' \in {cr, new} /\ faults' >= faults
              /\ serverInits' = serverInits /\ (cr' # cr => cr = hdb)
          BY <1>0, <2>1, <3>2 DEF StatusStep, Ends
        <4> QED
          BY <1>0, <2>2, <4>1 DEF FenceInv, ServerFence, Fence, IsConditionTrue
      <3> QED
        BY <3>1, <3>2
    <2> QED
      BY <2>3, <2>4, <2>5 DEF FenceInv
  <1>5. CASE StoreReadyStep
    <2> DEFINE new == SetCondition(hdb, "HStoreReady", "True")
    <2>1. pc = "bootHStoreStatus" /\ StatusStep("bootHStoreStatus", new, "idle")
      BY <1>5 DEF StoreReadyStep, StatusStep
    <2>2. /\ new # None /\ new.gen = hdb.gen
          /\ IsConditionTrue(new, "HStoreReady")
          /\ new.conds["HServerReady"] = hdb.conds["HServerReady"]
      BY <1>0, <2>1, SetConditionTyped, ConstantsAssumption DEF CondTypes, IsConditionTrue
    <2> HIDE DEF new
    <2>3. (cr # None /\ pc \in Fenced => hdb = cr \/ hdb.gen < cr.gen)'
      BY <1>0, <2>1, <2>2 DEF StatusStep, Ends, FenceInv, Fenced
    <2>4. StoreFence'
      BY <1>0, <2>1, <2>2 DEF StatusStep, Ends, FenceInv, StoreFence, Fence, Fenced, IsConditionTrue
    <2>5. ServerFence'
      <3>1. /\ pc = "bootHStoreStatus" /\ pc' = "idle" /\ cr' \in {cr, new} /\ faults' >= faults
            /\ serverInits' = serverInits /\ (cr' # cr => cr = hdb)
        BY <1>0, <2>1 DEF StatusStep, Ends
      <3> QED
        BY <1>0, <2>1, <2>2, <3>1 DEF FenceInv, ServerFence, Fence, IsConditionTrue
    <2> QED
      BY <2>3, <2>4, <2>5 DEF FenceInv
  <1>6. CASE ServerReadyStep
    <2> DEFINE new == SetCondition(hdb, "HServerReady", "True")
    <2>1. pc = "bootHServerStatus" /\ StatusStep("bootHServerStatus", new, "gateway")
      BY <1>6 DEF ServerReadyStep, StatusStep
    <2>2. /\ new # None /\ new.gen = hdb.gen
          /\ IsConditionTrue(new, "HServerReady")
          /\ new.conds["HStoreReady"] = hdb.conds["HStoreReady"]
      BY <1>0, <2>1, SetConditionTyped, ConstantsAssumption DEF CondTypes, IsConditionTrue
    <2> HIDE DEF new
    <2>3. (cr # None /\ pc \in Fenced => hdb = cr \/ hdb.gen < cr.gen)'
      BY <1>0, <2>1, <2>2 DEF StatusStep, Ends, FenceInv, Fenced
    <2>4. StoreFence'
      BY <1>0, <2>1, <2>2 DEF StatusStep, Ends, FenceInv, StoreFence, Fence, Fenced, IsConditionTrue
    <2>5. ServerFence'
      BY <1>0, <2>1, <2>2 DEF StatusStep, Ends, FenceInv, ServerFence, Fence, Fenced, IsConditionTrue
    <2> QED
      BY <2>3, <2>4, <2>5 DEF FenceInv
  <1>7. CASE ReadyStep
    <2>1. PICK new :
            /\ StatusStep("status", new, "idle")
            /\ new.conds["HStoreReady"] = hdb.conds["HStoreReady"]
            /\ new.conds["HServerReady"] = hdb.conds["HServerReady"]
      BY <1>7 DEF ReadyStep, ReadyStatus
    <2>2. new # None /\ new.gen = hdb.gen
      BY <2>1, ConstantsAssumption DEF StatusStep
    <2>3. (cr # None /\ pc \in Fenced => hdb = cr \/ hdb.gen < cr.gen)'
      BY <1>0, <2>1, <2>2 DEF StatusStep, Ends, FenceInv, Fenced
    <2>4. StoreFence'
      BY <1>0, <2>1, <2>2 DEF StatusStep, Ends, FenceInv, StoreFence, Fence, Fenced, IsConditionTrue
    <2>5. ServerFence'
      <3>1. /\ pc = "status" /\ pc' = "idle" /\ cr' \in {cr, new} /\ faults' >= faults
            /\ serverInits' = serverInits /\ (cr' # cr => cr = hdb)
        BY <1>0, <2>1 DEF StatusStep, Ends
      <3> QED
        BY <1>0, <2>1, <2>2, <3>1 DEF FenceInv, ServerFence, Fence, IsConditionTrue
    <2> QED
      BY <2>3, <2>4, <2>5 DEF FenceInv
  <1>8. CASE StoreEffectStep
    <2>1. Len(bootstraps') = Len(bootstraps) + 1
      BY <1>8, ReplicationTyped DEF StoreEffectStep, EffectStep, TypeOK
    <2>2. (cr # None /\ pc \in Fenced => hdb = cr \/ hdb.gen < cr.gen)'
      BY <1>0, <1>8 DEF StoreEffectStep, EffectStep, Ends, FenceInv, Fenced
    <2>3. StoreFence'
      <3>1. /\ pc = "bootHStore" /\ cr' = cr /\ ~IsConditionTrue(hdb, "HStoreReady")
            /\ \/ pc' = "bootHStoreStatus" /\ hdb' = hdb /\ faults' = faults
               \/ pc' = "idle" /\ faults' = faults + 1
        BY <1>8 DEF StoreEffectStep, EffectStep, Ends
      <3>2. cr # None => /\ hdb = cr \/ hdb.gen < cr.gen
                         /\ Len(bootstraps) + 1 <= hdb.gen + faults
        BY <1>0, <3>1 DEF FenceInv, StoreFence, Fence, Fenced
      <3> QED
        BY <1>0, <2>1, <3>1, <3>2 DEF StoreFence, Fence
    <2>4. ServerFence'
      BY <1>0, <1>8
      DEF StoreEffectStep, EffectStep, Ends, FenceInv, ServerFence, Fence, Fenced, IsConditionTrue
    <2> QED
      BY <2>2, <2>3, <2>4 DEF FenceInv
  <1>9. CASE ServerEffectStep
    <2>1. (cr # None /\ pc \in Fenced => hdb = cr \/ hdb.gen < cr.gen)'
      BY <1>0, <1>9 DEF ServerEffectStep, EffectStep, Ends, FenceInv, Fenced
    <2>2. StoreFence'
      BY <1>0, <1>9
      DEF ServerEffectStep, EffectStep, Ends, FenceInv, StoreFence, Fence, Fenced, IsConditionTrue
    <2>3. ServerFence'
      <3>1. /\ pc = "bootHServer" /\ cr' = cr /\ serverInits' = serverInits + 1
            /\ ~IsConditionTrue(hdb, "HServerReady")
            /\ \/ pc' = "bootHServerStatus" /\ hdb' = hdb /\ faults' = faults
               \/ pc' = "idle" /\ faults' = faults + 1
        BY <1>9 DEF ServerEffectStep, EffectStep, Ends
      <3>2. cr # None => /\ hdb = cr \/ hdb.gen < cr.gen
                         /\ serverInits + 1 <= hdb.gen + faults
        BY <1>0, <3>1 DEF FenceInv, ServerFence, Fence, Fenced
      <3> QED
        BY <1>0, <3>1, <3>2 DEF ServerFence, Fence
    <2> QED
      BY <2>1, <2>2, <2>3 DEF FenceInv
  <1>10. CASE PanicStep \/ CrashStep
    <2>1. /\ UNCHANGED <<cr, bootstraps, serverInits>> /\ faults' >= faults /\ pc' = "idle"
          /\ \/ pc \in {"bootHStore", "bootHServer"}
             \/ faults' = faults + 1
      BY <1>0, <1>10 DEF PanicStep, CrashStep, RestartStep
    <2>2. (cr # None /\ pc \in Fenced => hdb = cr \/ hdb.gen < cr.gen)'
      BY <2>1 DEF Fenced
    <2>3. StoreFence'
      BY <1>0, <2>1 DEF FenceInv, StoreFence, Fence, IsConditionTrue
    <2>4. ServerFence'
      BY <1>0, <2>1 DEF FenceInv, ServerFence, Fence, IsConditionTrue
    <2> QED
      BY <2>2, <2>3, <2>4 DEF FenceInv
  <1>11. CASE SyncStep \/ PodStep \/ DeleteStep
    <2>1. /\ UNCHANGED <<pc, hdb, bootstraps, serverInits>> /\ faults' >= faults
          /\ cr' = cr \/ cr' = None
      BY <1>0, <1>11 DEF SyncStep, PodStep, DeleteStep
    <2>2. (cr # None /\ pc \in Fenced => hdb = cr \/ hdb.gen < cr.gen)'
      BY <2>1 DEF FenceInv, Fenced
    <2>3. StoreFence'
      BY <1>0, <2>1 DEF FenceInv, StoreFence, Fence, IsConditionTrue
    <2>4. ServerFence'
      BY <1>0, <2>1 DEF FenceInv, ServerFence, Fence, IsConditionTrue
    <2> QED
      BY <2>2, <2>3, <2>4 DEF FenceInv
  <1>12. CASE EditStep
    <2>1. cr # None /\ cr' # None
      BY <1>12, ConstantsAssumption DEF EditStep
    <2> QED
      BY <1>0, <1>12, <2>1
      DEF EditStep, FenceInv, StoreFence, ServerFence, Fence, Fenced, IsConditionTrue
  <1> QED
    BY <1>1, <1>2, <1>3, <1>4, <1>5, <1>6, <1>7, <1>8, <1>9, <1>10, <1>11, <1>12 DEF Step

(* For every instance of the constants: past updateHMetaStatus the worker  *)
(* holds the current CR, unless it was edited meanwhile, and the effects of *)
(* both commands stay within the edits and the faults.                     *)
THEOREM FenceInvariant == Spec => []FenceInv
  <1>1. TypeOK /\ TypeOK' /\ FenceInv /\ [Next]_vars => FenceInv'
    <2> SUFFICES ASSUME TypeOK, TypeOK', FenceInv, [Next]_vars PROVE FenceInv'
      OBVIOUS
    <2>1. CASE Next
      BY <2>1, NextIsStep, StepFenceInv
    <2>2. CASE UNCHANGED vars
      BY <2>2 DEF FenceInv, StoreFence, ServerFence, Fence, Fenced, IsConditionTrue, vars
    <2> QED
      BY <2>1, <2>2
  <1> QED
    BY <1>1, InitFenceInv, TypeCorrect, PTL DEF Spec

(* For every instance: a stale read alone never repeats the bootstrap of   *)
(* the store.                                                              *)
THEOREM BootstrapsAlwaysFenced == Spec => []BootstrapsFenced
  <1>1. FenceInv => BootstrapsFenced
    BY DEF FenceInv, StoreFence, Fence, BootstrapsFenced
  <1> QED
    BY <1>1, FenceInvariant, PTL

(* For every instance: nor the initialisation of the servers. *)
THEOREM InitsAlwaysFenced == Spec => []InitsFenced
  <1>1. FenceInv => InitsFenced
    BY DEF FenceInv, ServerFence, Fence, InitsFenced
  <1> QED
    BY <1>1, FenceInvariant, PTL
=============================================================================
