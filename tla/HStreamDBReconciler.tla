------------------------ MODULE HStreamDBReconciler ------------------------
(***************************************************************************)
(* The HStreamDB controller: one worker that drives one HStreamDB custom   *)
(* resource (CR) through the chain of sub-reconcilers of                   *)
(* internal/controller/hstreamdb_controller.go.                            *)
(*                                                                         *)
(* The worker reads the CR and its children from informer caches, which    *)
(* may lag behind the API server, and writes to the API server, which      *)
(* accepts an update only when it is based on the current version.  A      *)
(* sub-reconciler ends a reconciliation early by returning a requeue.      *)
(* Around the worker run the user, the kubelets, the garbage collector     *)
(* and the informers; API calls, commands, pods and the operator process   *)
(* itself may fail, MaxFaults times in a behaviour.                        *)
(***************************************************************************)
EXTENDS Integers, Sequences

CONSTANTS
  Specs,        \* the values of spec a user may apply
  Templates,    \* contents of a component that end up in its pod template
  Views,        \* node lists the HMeta cluster may report (map order varies)
  Lagging,      \* kinds of children whose informer may lag
  MaxGen,       \* bound on metadata.generation: MaxGen - 1 edits
  MaxFaults,    \* bound on faults in a behaviour
  Deletable,    \* whether the user may delete the CR
  GetErrors,    \* whether a Get may fail with an error other than NotFound
  None          \* absence of an object

Workloads == {"hmeta", "admin", "hstore", "hserver", "gateway", "console"}
ConfigMaps == {"logdeviceCM", "nshardsCM"}
Services == {"hmetaSvc", "adminSvc", "hstoreSvc", "hserverSvc"}
Res == Workloads \cup ConfigMaps \cup Services

Kinds == {"ConfigMap", "Service", "StatefulSet", "Deployment"}

Kind(r) ==
  CASE r \in ConfigMaps -> "ConfigMap"
    [] r \in Services -> "Service"
    [] r \in {"hmeta", "hstore", "hserver"} -> "StatefulSet"
    [] OTHER -> "Deployment"

CondTypes == {"HMetaReady", "HStoreReady", "HServerReady",
              "GatewayReady", "ConsoleReady", "Ready"}

DefaultHServerPort == 6570
defaultRecommendedLogReplication == 3

Component == [replicas : Nat, tmpl : Templates]

(* HStreamDBSpec: the gateway and the console are optional, ext tells      *)
(* whether externalHMeta is set, port is the port in the HServer's         *)
(* container, and mra = 0 stands for an unset metadata-replicate-across.   *)
HStreamDBSpec ==
  [ext : BOOLEAN, port : Nat, nshards : Nat, mra : Nat,
   comp : {c \in [Workloads -> Component \cup {None}] :
             \A w \in Workloads \ {"gateway", "console"} : c[w] \in Component}]

Condition == [st : {"Unset", "True", "False"}, og : Nat]

(* The custom resource: generation, spec and status. *)
HStreamDB ==
  [gen : Nat, spec : HStreamDBSpec, conds : [CondTypes -> Condition],
   nodes : Views \cup {None}]

(* A child: the content the operator wrote (arg is the number of nodes,    *)
(* of shards or the HServer port it contains) and the ready pods the       *)
(* cluster reports.                                                        *)
Object == [replicas : Nat, tmpl : Templates \cup {None}, arg : Nat, ready : Nat]

ASSUME ConstantsAssumption ==
  /\ Specs \subseteq HStreamDBSpec
  /\ Lagging \subseteq Kinds
  /\ MaxGen \in Nat \ {0}
  /\ MaxFaults \in Nat
  /\ Deletable \in BOOLEAN
  /\ GetErrors \in BOOLEAN
  /\ None \notin HStreamDB \cup Object \cup Component

VARIABLES
  cr,           \* the CR in the API server, or None
  objs,         \* the children in the API server
  crSeen,       \* the CR in the informer cache
  seen,         \* the children in the informer caches of the Lagging kinds
  queued,       \* "now": the CR is in the work queue, "later": a timer will add it
  pc,           \* where the worker is in the chain
  hdb,          \* the worker's copy of the CR, as read or last written
  bootstraps,   \* replication factors of the store bootstraps that took effect
  serverInits,  \* number of server inits that took effect
  faults        \* faults so far

vars == <<cr, objs, crSeen, seen, queued, pc, hdb, bootstraps, serverInits, faults>>
cluster == <<bootstraps, serverInits>>
caches == <<crSeen, seen>>

Steps == Services \cup ConfigMaps \cup Workloads \cup
  {"idle", "hmetaStatus", "bootHStore", "bootHStoreStatus",
   "bootHServer", "bootHServerStatus", "status"}

Pending == {"now", "later"}

-----------------------------------------------------------------------------
(* Helpers of the sub-reconcilers. *)

IsConditionTrue(h, t) == h.conds[t].st = "True"

SetCondition(h, t, status) == [h EXCEPT !.conds[t] = [st |-> status, og |-> h.gen]]

(* r.Get for a child: what the informer of its kind holds. *)
Get(r) == IF Kind(r) \in Lagging THEN seen[r] ELSE objs[r]

(* Mutant: a hash that misses the pod template. *)
isHashChanged_noTemplate(old, want) ==
  <<old.replicas, old.arg>> # <<want.replicas, want.arg>>

isHashChanged(old, want) ==
  <<old.replicas, old.tmpl, old.arg>> # <<want.replicas, want.tmpl, want.arg>>

(* StatefulSet or Deployment of component w whose template contains arg. *)
PodSet(h, w, arg) ==
  [replicas |-> h.spec.comp[w].replicas, tmpl |-> h.spec.comp[w].tmpl,
   arg |-> arg, ready |-> 0]

(* ConfigMap or Service whose data is arg. *)
Data(arg) == [replicas |-> 0, tmpl |-> None, arg |-> arg, ready |-> 0]

GetMinNShards(h) == IF h.spec.nshards = 0 THEN 1 ELSE h.spec.nshards

(* Mutant: the number of shards is taken from the spec. *)
getNShardFromSpec(h) == {h.spec.nshards}

(* The possible results: any error of the Get falls back on the spec. *)
getNShardFromExistingConfigMap(h) ==
  LET existing == Get("nshardsCM")
  IN  (IF existing = None THEN {h.spec.nshards} ELSE {existing.arg})
        \cup (IF GetErrors THEN {h.spec.nshards} ELSE {})

GetRecommendedLogReplicaAcross(h) ==
  IF h.spec.comp["hstore"].replicas <= defaultRecommendedLogReplication
  THEN h.spec.comp["hstore"].replicas
  ELSE defaultRecommendedLogReplication

metadataReplication(h) ==
  IF h.spec.mra = 0 \/ h.spec.mra > h.spec.comp["hstore"].replicas
  THEN GetRecommendedLogReplicaAcross(h)
  ELSE h.spec.mra

(* The possible results here, too: an error of the Get is ignored. *)
findHServerPort ==
  (IF Get("hserver") = None THEN {DefaultHServerPort} ELSE {Get("hserver").arg})
    \cup (IF GetErrors THEN {DefaultHServerPort} ELSE {})

(* Mutant: one ready pod is enough. *)
checkOnePodRunning(w) == Get(w) # None /\ Get(w).ready # 0

(* What each component's getSts or getDeployment builds: of all that goes  *)
(* into the template, only what does not come from the component itself    *)
(* is kept apart, as arg.                                                  *)
getHMetaSts(h) == PodSet(h, "hmeta", 0)
getAdminServerDeployment(h) == PodSet(h, "admin", 0)
getHStoreSts(h, nShard) == PodSet(h, "hstore", nShard)
getHServerSts(h) == PodSet(h, "hserver", h.spec.port)
getGatewayDeployment(h, port) == PodSet(h, "gateway", port)
getConsoleDeployment(h) == PodSet(h, "console", h.spec.port)

checkPodRunningStatus(w) ==
  /\ Get(w) # None
  /\ Get(w).ready # 0
  /\ Get(w).ready >= Get(w).replicas

-----------------------------------------------------------------------------
(* How a sub-reconciler ends. *)

Fault == faults < MaxFaults /\ faults' = faults + 1

Continue(next) == pc' = next /\ UNCHANGED <<hdb, queued>>

Finish(again) ==
  /\ pc' = "idle"
  /\ hdb' = None
  /\ queued' = queued \cup (IF again THEN {"later"} ELSE {})

(* Mutant: a conflict is forgotten and nothing is put back in the queue. *)
processRequeue_dropsConflict(curError, delay) ==
  Finish(curError \notin {"nil", "conflict"} \/ delay > 0)

(* The result of a reconciliation that a requeue object ended: an error or *)
(* a positive delay brings the CR back later, anything else drops it.      *)
processRequeue(curError, delay) ==
  LET err == IF curError = "conflict" THEN "nil" ELSE curError
      requeueAfter == IF curError = "conflict" /\ delay = 0 THEN 1 ELSE delay
  IN  Finish(err # "nil" \/ requeueAfter > 0)

(* The process dies and is started again: it lists everything and gets a   *)
(* Create event for the CR.                                                *)
Restart ==
  /\ pc' = "idle"
  /\ hdb' = None
  /\ crSeen' = cr
  /\ seen' = [r \in Res |-> IF Kind(r) \in Lagging THEN objs[r] ELSE None]
  /\ queued' = IF cr = None THEN {} ELSE {"now"}

(* Create or update child r, if writes, and go on to the next step.  The   *)
(* API server refuses to create what exists and to update a version that   *)
(* is not the current one.  A call that fails may still have had effect.   *)
Write(r, want, writes, next) ==
  LET old == Get(r)
      accepted == old = objs[r]
      result == [objs EXCEPT ![r] =
                   [want EXCEPT !.ready = IF old = None THEN 0 ELSE old.ready]]
  IN  \/ /\ ~writes
         /\ Continue(next)
         /\ UNCHANGED <<objs, faults>>
      \/ /\ writes /\ accepted
         /\ objs' = result
         /\ Continue(next)
         /\ UNCHANGED faults
      \/ /\ writes /\ ~accepted
         /\ processRequeue(IF old = None \/ objs[r] = None THEN "error" ELSE "conflict", 0)
         /\ UNCHANGED <<objs, faults>>
      \/ /\ Fault
         /\ objs' \in IF writes /\ accepted THEN {objs, result} ELSE {objs}
         /\ processRequeue("error", 0)

createOrUpdate(r, want, next) ==
  /\ Write(r, want, IF Get(r) = None THEN TRUE ELSE isHashChanged(Get(r), want), next)
  /\ UNCHANGED <<cr, caches, cluster>>

createIfMissing(r, want, next) ==
  /\ Write(r, want, Get(r) = None, next)
  /\ UNCHANGED <<cr, caches, cluster>>

Skip(next) == Continue(next) /\ UNCHANGED <<cr, objs, caches, cluster, faults>>

Requeue(delay) ==
  processRequeue("nil", delay) /\ UNCHANGED <<cr, objs, caches, cluster, faults>>

(* Mutant: the last writer wins. *)
StatusUpdate_overwrites(new, Done) ==
  /\ cr # None
  /\ cr' = [cr EXCEPT !.conds = new.conds, !.nodes = new.nodes]
  /\ Done
  /\ UNCHANGED <<objs, caches, cluster, faults>>

(* r.Status().Update of the worker's copy, with status as in new: refused  *)
(* unless the copy is based on the current version of the CR.  Done is     *)
(* what follows a successful update.                                       *)
StatusUpdate(new, Done) ==
  /\ \/ /\ cr = hdb
        /\ cr' = new
        /\ Done
        /\ UNCHANGED faults
     \/ /\ cr # hdb
        /\ processRequeue(IF cr = None THEN "error" ELSE "conflict", 0)
        /\ UNCHANGED <<cr, faults>>
     \/ /\ Fault
        /\ cr' \in IF cr = hdb THEN {cr, new} ELSE {cr}
        /\ processRequeue("error", 0)
  /\ UNCHANGED <<objs, caches, cluster>>

-----------------------------------------------------------------------------
(* The chain of sub-reconcilers. *)

(* Mutant: the chain runs even if the CR was not found. *)
Reconcile_ignoresNotFound ==
  /\ pc = "idle" /\ "now" \in queued
  /\ queued' = queued \ {"now"}
  /\ hdb' = crSeen
  /\ pc' = "logdeviceCM"
  /\ UNCHANGED <<cr, objs, caches, cluster, faults>>

(* The worker takes the CR from the queue and reads it from the cache.  (A *)
(* Get that fails otherwise puts the CR back: the state is as before.)     *)
Reconcile ==
  /\ pc = "idle" /\ "now" \in queued
  /\ queued' = queued \ {"now"}
  /\ hdb' = crSeen
  /\ pc' = IF crSeen = None THEN "idle" ELSE "logdeviceCM"
  /\ UNCHANGED <<cr, objs, caches, cluster, faults>>

LogDeviceConfig ==
  /\ pc = "logdeviceCM"
  /\ createIfMissing("logdeviceCM", Data(hdb.spec.comp["hstore"].replicas), "nshardsCM")

(* An error of the Get other than NotFound is swallowed: the chain goes on. *)
NShardsConfig ==
  /\ pc = "nshardsCM"
  /\ \/ createIfMissing("nshardsCM", Data(GetMinNShards(hdb)), "hmetaSvc")
     \/ GetErrors /\ Skip("hmetaSvc")

AddHMetaService ==
  /\ pc = "hmetaSvc"
  /\ \/ hdb.spec.ext /\ Skip("adminSvc")
     \/ ~hdb.spec.ext /\ createOrUpdate("hmetaSvc", Data(0), "adminSvc")

AddAdminServerService ==
  pc = "adminSvc" /\ createOrUpdate("adminSvc", Data(0), "hstoreSvc")

AddHStoreService ==
  pc = "hstoreSvc" /\ createOrUpdate("hstoreSvc", Data(0), "hserverSvc")

AddHServerService ==
  pc = "hserverSvc" /\ createOrUpdate("hserverSvc", Data(hdb.spec.port), "hmeta")

AddHMeta ==
  /\ pc = "hmeta"
  /\ \/ hdb.spec.ext /\ Skip("hmetaStatus")
     \/ ~hdb.spec.ext /\ createOrUpdate("hmeta", getHMetaSts(hdb), "hmetaStatus")

(* Mutant: the status is left alone once HMeta was found ready. *)
UpdateHMetaStatus_onlyOnce ==
  /\ pc = "hmetaStatus"
  /\ \/ IsConditionTrue(hdb, "HMetaReady") /\ Skip("admin")
     \/ /\ ~IsConditionTrue(hdb, "HMetaReady")
        /\ hdb.spec.ext \/ checkPodRunningStatus("hmeta")
        /\ \E v \in Views :
             LET new == SetCondition([hdb EXCEPT !.nodes = v], "HMetaReady", "True")
             IN  StatusUpdate(new, pc' = "admin" /\ hdb' = new /\ UNCHANGED queued)
     \/ /\ ~IsConditionTrue(hdb, "HMetaReady")
        /\ ~(hdb.spec.ext \/ checkPodRunningStatus("hmeta"))
        /\ Requeue(1)

(* Mutant: writing the status ends the pass with a requeue, so that each   *)
(* pass writes it and brings on the next one.                              *)
UpdateHMetaStatus_requeues ==
  LET running == hdb.spec.ext \/ checkPodRunningStatus("hmeta")
  IN  /\ pc = "hmetaStatus"
      /\ \/ ~running /\ Requeue(1)
         \/ /\ running
            /\ \E v \in Views :
                 StatusUpdate(SetCondition([hdb EXCEPT !.nodes = v], "HMetaReady", "True"),
                              processRequeue("nil", 1))

(* The nodes of a running HMeta cluster answer, unless there is a fault. *)
UpdateHMetaStatus ==
  LET running == hdb.spec.ext \/ checkPodRunningStatus("hmeta")
      reachable == hdb.spec.ext \/ (objs["hmeta"] # None /\ objs["hmeta"].ready > 0)
  IN  /\ pc = "hmetaStatus"
      /\ \/ ~(running /\ reachable) /\ Requeue(1)
         \/ /\ running /\ Fault
            /\ processRequeue("nil", 1)
            /\ UNCHANGED <<cr, objs, caches, cluster>>
         \/ /\ running /\ reachable
            /\ \E v \in Views :
                 LET new == SetCondition([hdb EXCEPT !.nodes = v], "HMetaReady", "True")
                 IN  StatusUpdate(new, pc' = "admin" /\ hdb' = new /\ UNCHANGED queued)

AddAdminServer ==
  pc = "admin" /\ createOrUpdate("admin", getAdminServerDeployment(hdb), "hstore")

AddHStore ==
  /\ pc = "hstore"
  /\ \E nShard \in getNShardFromExistingConfigMap(hdb) :
       createOrUpdate("hstore", getHStoreSts(hdb, nShard), "bootHStore")

(* Mutant: the error of the command is ignored. *)
Call_ignoresError(effect, next) ==
  \/ effect /\ Continue(next) /\ UNCHANGED <<cr, objs, caches, faults>>
  \/ Fault /\ Continue(next) /\ UNCHANGED <<cr, objs, caches, cluster>>

(* AdminClient.call: run hadmin in the first admin server pod.  Without    *)
(* any pod the operator panics; a pod that does not run the command is an  *)
(* error.  The command may have taken effect although it is reported as    *)
(* failed (whatever it writes to stderr is an error).                      *)
Call(effect, next) ==
  LET podRuns == objs["admin"] # None /\ objs["admin"].ready > 0
  IN  \/ /\ ~podRuns
         /\ Restart
         /\ UNCHANGED <<cr, objs, cluster, faults>>
      \/ ~podRuns /\ Requeue(5)
      \/ /\ podRuns
         /\ effect
         /\ Continue(next)
         /\ UNCHANGED <<cr, objs, caches, faults>>
      \/ /\ podRuns /\ Fault
         /\ effect \/ UNCHANGED cluster
         /\ processRequeue("nil", 5)
         /\ UNCHANGED <<cr, objs, caches>>

(* Mutant: the chain goes on while the store's pods are not running. *)
BootstrapHStore_doesNotWait ==
  /\ pc = "bootHStore"
  /\ \/ IsConditionTrue(hdb, "HStoreReady") /\ Skip("hserver")
     \/ ~checkPodRunningStatus("hstore") /\ Skip("hserver")
     \/ /\ ~IsConditionTrue(hdb, "HStoreReady")
        /\ checkPodRunningStatus("hstore")
        /\ Call(/\ bootstraps' = Append(bootstraps, metadataReplication(hdb))
                /\ UNCHANGED serverInits,
                "bootHStoreStatus")

BootstrapHStore ==
  /\ pc = "bootHStore"
  /\ \/ IsConditionTrue(hdb, "HStoreReady") /\ Skip("hserver")
     \/ /\ ~IsConditionTrue(hdb, "HStoreReady")
        /\ ~checkPodRunningStatus("hstore")
        /\ Requeue(1)
     \/ /\ ~IsConditionTrue(hdb, "HStoreReady")
        /\ checkPodRunningStatus("hstore")
        /\ Call(/\ bootstraps' = Append(bootstraps, metadataReplication(hdb))
                /\ UNCHANGED serverInits,
                "bootHStoreStatus")

(* Even a successful update ends the reconciliation, with a delay. *)
BootstrapHStoreStatus ==
  /\ pc = "bootHStoreStatus"
  /\ StatusUpdate(SetCondition(hdb, "HStoreReady", "True"), processRequeue("nil", 1))

AddHServer ==
  /\ pc = "hserver"
  /\ createOrUpdate("hserver", getHServerSts(hdb), "bootHServer")

BootstrapHServer ==
  /\ pc = "bootHServer"
  /\ \/ IsConditionTrue(hdb, "HServerReady") /\ Skip("gateway")
     \/ /\ ~IsConditionTrue(hdb, "HServerReady")
        /\ ~checkPodRunningStatus("hserver")
        /\ Requeue(1)
     \/ /\ ~IsConditionTrue(hdb, "HServerReady")
        /\ checkPodRunningStatus("hserver")
        /\ Call(serverInits' = serverInits + 1 /\ UNCHANGED bootstraps,
                "bootHServerStatus")

BootstrapHServerStatus ==
  LET new == SetCondition(hdb, "HServerReady", "True")
  IN  /\ pc = "bootHServerStatus"
      /\ StatusUpdate(new, pc' = "gateway" /\ hdb' = new /\ UNCHANGED queued)

AddGateway ==
  /\ pc = "gateway"
  /\ IF hdb.spec.comp["gateway"] = None
     THEN Skip("console")
     ELSE IF ~IsConditionTrue(hdb, "HServerReady")
     THEN Requeue(10)
     ELSE \E port \in findHServerPort :
            createOrUpdate("gateway", getGatewayDeployment(hdb, port), "console")

AddConsole ==
  /\ pc = "console"
  /\ IF hdb.spec.comp["console"] = None
     THEN Skip("status")
     ELSE createOrUpdate("console", getConsoleDeployment(hdb), "status")

(* The optional components present in the spec, and their conditions. *)
optionalComponents(h) == {w \in {"gateway", "console"} : h.spec.comp[w] # None}
readyCondition(w) == IF w = "gateway" THEN "GatewayReady" ELSE "ConsoleReady"

checkComponentsReady(h) ==
  [h EXCEPT !.conds = [t \in CondTypes |->
     IF \E w \in optionalComponents(h) : t = readyCondition(w)
     THEN [st |-> "True", og |-> h.gen] ELSE h.conds[t]]]

checkAllReady(h) ==
  LET conditionList == {"HMetaReady", "HStoreReady", "HServerReady"}
                         \cup {readyCondition(w) : w \in optionalComponents(h)}
  IN  SetCondition(h, "Ready",
        IF \A t \in conditionList : IsConditionTrue(h, t) THEN "True" ELSE "False")

UpdateStatus ==
  LET new == checkAllReady(checkComponentsReady(hdb))
  IN  /\ pc = "status"
      /\ \/ /\ \E w \in optionalComponents(hdb) : Get(w) = None
            /\ processRequeue("error", 0)
            /\ UNCHANGED <<cr, objs, caches, cluster, faults>>
         \/ /\ \A w \in optionalComponents(hdb) : Get(w) # None
            /\ StatusUpdate(new, Finish(~IsConditionTrue(new, "Ready")))

Worker ==
  \/ Reconcile \/ LogDeviceConfig \/ NShardsConfig
  \/ AddHMetaService \/ AddAdminServerService \/ AddHStoreService \/ AddHServerService
  \/ AddHMeta \/ UpdateHMetaStatus \/ AddAdminServer
  \/ AddHStore \/ BootstrapHStore \/ BootstrapHStoreStatus
  \/ AddHServer \/ BootstrapHServer \/ BootstrapHServerStatus
  \/ AddGateway \/ AddConsole \/ UpdateStatus

-----------------------------------------------------------------------------
(* The work queue and the informers. *)

(* The delay of a requeue has passed.  The queue holds the CR once, even   *)
(* if an event added it meanwhile, and keeps one timer.                    *)
RequeueAfter ==
  /\ "later" \in queued
  /\ queued' = {"now"}
  /\ UNCHANGED <<cr, objs, caches, pc, hdb, cluster, faults>>

(* SetupWithManager's event filter: an update reaches the queue only when  *)
(* it changes the generation; creations and deletions always do.           *)
eventPasses(old, new) == old = None \/ new = None \/ old.gen # new.gen

SyncCR ==
  /\ crSeen # cr
  /\ crSeen' = cr
  /\ queued' = queued \cup (IF eventPasses(crSeen, cr) THEN {"now"} ELSE {})
  /\ UNCHANGED <<cr, objs, seen, pc, hdb, cluster, faults>>

SyncKind(k) ==
  LET synced == [r \in Res |-> IF Kind(r) = k THEN objs[r] ELSE seen[r]]
  IN  /\ seen # synced
      /\ seen' = synced
      /\ UNCHANGED <<cr, objs, crSeen, queued, pc, hdb, cluster, faults>>

(* The rest of the cluster. *)

Unobserved == UNCHANGED <<crSeen, seen, queued, pc, hdb, cluster>>

PodReady(w) ==
  /\ objs[w] # None
  /\ objs[w].ready < objs[w].replicas
  /\ objs' = [objs EXCEPT ![w].ready = @ + 1]
  /\ UNCHANGED <<cr, faults>> /\ Unobserved

(* A scaled down workload terminates pods. *)
PodStop(w) ==
  /\ objs[w] # None
  /\ objs[w].ready > objs[w].replicas
  /\ objs' = [objs EXCEPT ![w].ready = @ - 1]
  /\ UNCHANGED <<cr, faults>> /\ Unobserved

(* A pod fails, is evicted or is restarted with a new template. *)
PodFail(w) ==
  /\ Fault
  /\ objs[w] # None
  /\ objs[w].ready > 0
  /\ objs' = [objs EXCEPT ![w].ready = @ - 1]
  /\ UNCHANGED cr /\ Unobserved

UserEdit ==
  /\ cr # None
  /\ cr.gen < MaxGen
  /\ \E s \in Specs \ {cr.spec} : cr' = [cr EXCEPT !.spec = s, !.gen = @ + 1]
  /\ UNCHANGED <<objs, faults>> /\ Unobserved

UserDelete ==
  /\ Deletable
  /\ cr # None
  /\ cr' = None
  /\ UNCHANGED <<objs, faults>> /\ Unobserved

(* Mutant: the reference is forgotten for the ConfigMap made last. *)
SetControllerReference_forgotten(r) == r # "nshardsCM"

(* Whether child r is created with the CR as its controlling owner. *)
SetControllerReference(r) == r \in Res

GarbageCollect(r) ==
  /\ cr = None
  /\ SetControllerReference(r)
  /\ objs[r] # None
  /\ objs' = [objs EXCEPT ![r] = None]
  /\ UNCHANGED <<cr, faults>> /\ Unobserved

Crash ==
  /\ Fault
  /\ Restart
  /\ UNCHANGED <<cr, objs, cluster>>

Environment ==
  \/ RequeueAfter
  \/ SyncCR
  \/ \E k \in Lagging : SyncKind(k)
  \/ \E w \in Workloads : PodReady(w) \/ PodStop(w) \/ PodFail(w)
  \/ UserEdit \/ UserDelete \/ Crash
  \/ \E r \in Res : GarbageCollect(r)

-----------------------------------------------------------------------------

Init ==
  /\ \E s \in Specs :
       cr = [gen |-> 1, spec |-> s, nodes |-> None,
             conds |-> [t \in CondTypes |-> [st |-> "Unset", og |-> 0]]]
  /\ objs = [r \in Res |-> None]
  /\ crSeen = None
  /\ seen = [r \in Res |-> None]
  /\ queued = {}
  /\ pc = "idle"
  /\ hdb = None
  /\ bootstraps = <<>>
  /\ serverInits = 0
  /\ faults = 0

Next == Worker \/ Environment

Spec == Init /\ [][Next]_vars

(* The worker takes its next step, timers expire, watches                  *)
(* deliver, kubelets start and stop pods, the garbage collector runs.      *)
Fairness ==
  /\ WF_vars(Worker)
  /\ WF_vars(RequeueAfter)
  /\ WF_vars(SyncCR)
  /\ \A k \in Kinds : WF_vars(k \in Lagging /\ SyncKind(k))
  /\ \A w \in Workloads : WF_vars(PodReady(w)) /\ WF_vars(PodStop(w))
  /\ \A r \in Res : WF_vars(GarbageCollect(r))

FairSpec == Spec /\ Fairness

-----------------------------------------------------------------------------
(* Properties. *)

(* Every variable keeps its type: in particular the worker holds a copy of *)
(* the CR in every step of the chain, and a pod set never counts fewer     *)
(* than zero ready pods.                                                   *)
TypeOK ==
  /\ cr \in HStreamDB \cup {None}
  /\ objs \in [Res -> Object \cup {None}]
  /\ crSeen \in HStreamDB \cup {None}
  /\ seen \in [Res -> Object \cup {None}]
  /\ queued \in SUBSET Pending
  /\ pc \in Steps
  /\ hdb \in HStreamDB \cup {None}
  /\ pc # "idle" => hdb \in HStreamDB
  /\ bootstraps \in Seq(Nat)
  /\ serverInits \in Nat
  /\ faults \in 0 .. MaxFaults

(* addHServer comes after bootstrapHStore in the chain: no HServer is      *)
(* deployed before the store it needs was bootstrapped, whatever the       *)
(* worker read from a stale cache and wherever it was killed.              *)
ServerAfterStore == objs["hserver"] # None => bootstraps # <<>>

(* updateStatus reports Ready only on the strength of conditions; behind   *)
(* them the store was bootstrapped and the servers initialised.            *)
ReadyIsEarned ==
  cr # None /\ IsConditionTrue(cr, "Ready") => bootstraps # <<>> /\ serverInits > 0

(* hadmin's bootstrap is repeated only for a reason: beyond the first run, *)
(* each one is due to a fault or to an edit that made the status update    *)
(* after it conflict.  A stale copy of the CR alone never repeats it,      *)
(* because updateHMetaStatus writes the status before bootstrapHStore.     *)
BootstrapsFenced == cr # None => Len(bootstraps) <= cr.gen + faults

(* The same for the init command of bootstrapHServer. *)
InitsFenced == cr # None => serverInits <= cr.gen + faults

(* The children that spec s asks for have in the API server what it asks   *)
(* for; the number of shards is the one fixed when the store was created.  *)
Applied(s) ==
  LET asked == {w \in Workloads : s.comp[w] # None /\ ~(w = "hmeta" /\ s.ext)}
  IN  /\ \A w \in asked :
           /\ objs[w] # None
           /\ objs[w].replicas = s.comp[w].replicas
           /\ objs[w].tmpl = s.comp[w].tmpl
           /\ w \in {"hserver", "gateway", "console"} => objs[w].arg = s.port
      /\ objs["nshardsCM"] # None /\ objs["hstore"].arg = objs["nshardsCM"].arg
      /\ objs["hserverSvc"] # None /\ objs["hserverSvc"].arg = s.port

(* When Ready is reported for the current generation, the children are     *)
(* those of the current spec.                                              *)
ReadyMeansApplied ==
  cr # None /\ cr.conds["Ready"] = [st |-> "True", og |-> cr.gen] => Applied(cr.spec)

(* A condition that became True stays True: no status update based on a    *)
(* stale copy of the CR takes back what an earlier one recorded.           *)
ConditionsNeverLost ==
  [][cr # None /\ cr' # None =>
       \A t \in CondTypes : IsConditionTrue(cr, t) => cr'.conds[t].st = "True"]_vars

(* As long as the CR exists, the number of shards of a deployed store      *)
(* never changes.                                                          *)
NShardsStable ==
  [][cr # None /\ objs["hstore"] # None /\ objs'["hstore"] # None =>
       objs'["hstore"].arg = objs["hstore"].arg]_vars

(* The store is bootstrapped when all the HStore pods the spec asks for    *)
(* are running, as long as no pod has failed.                              *)
BootstrapsRunningStore ==
  [][bootstraps' # bootstraps /\ cr # None /\ faults' = 0 =>
       /\ objs["hstore"] # None
       /\ objs["hstore"].ready >= hdb.spec.comp["hstore"].replicas]_vars

(* Unless the CR is deleted, Ready is in the end reported for its current  *)
(* generation, and stays so.                                               *)
EventuallyReady ==
  <>[](cr # None => cr.conds["Ready"] = [st |-> "True", og |-> cr.gen])

(* The worker comes to rest: its own status updates do not wake it up.     *)
Quiesces == <>[](pc = "idle" /\ queued = {})

(* The children of a deleted CR are in the end all gone. *)
DeletedIsCleaned == <>[](cr = None => \A r \in Res : objs[r] = None)

(* The controller implements the life cycle of ClusterLifecycle: with all  *)
(* its retries, stale reads and restarts, the outside sees only those      *)
(* steps, in that order.                                                   *)
Lifecycle == INSTANCE ClusterLifecycle WITH
  alive <- cr # None,
  storeUp <- bootstraps # <<>>,
  serverDeployed <- objs["hserver"] # None,
  serverUp <- serverInits > 0,
  announced <- IF cr = None THEN {}
               ELSE {t \in {"HStoreReady", "HServerReady", "Ready"} : IsConditionTrue(cr, t)}

ImplementsLifecycle == Lifecycle!Spec
=============================================================================
