--------------------- MODULE HStreamDBLifecycle_proofs ---------------------
(***************************************************************************)
(* The HStreamDB controller implements ClusterLifecycle, and no condition  *)
(* it reported is ever withdrawn: for every set of specs, every choice of  *)
(* lagging informers and every number of edits and faults.                 *)
(***************************************************************************)
EXTENDS HStreamDBReconciler_proofs

-----------------------------------------------------------------------------
(* A copy of the CR, however old, claims nothing that the CR in the API    *)
(* server does not: this is what makes it safe to act on a stale copy.     *)
(* Past updateHMetaStatus and past bootstrapHServer the worker's copy has  *)
(* the conditions these two record, so updateStatus never sets Ready to    *)
(* False; and a child in a cache still exists as long as the CR does.      *)

Recorded(h) ==
  h # None /\ cr # None =>
    \A t \in CondTypes : IsConditionTrue(h, t) => IsConditionTrue(cr, t)

AfterHMeta == Fenced \cup {"gateway", "console", "status"}
AfterServer == {"gateway", "console", "status"}

LifecycleInv ==
  /\ Recorded(crSeen) /\ Recorded(hdb)
  /\ pc \in AfterHMeta => IsConditionTrue(hdb, "HMetaReady")
  /\ pc \in AfterServer => IsConditionTrue(hdb, "HServerReady")
  /\ cr # None => \A r \in Res : seen[r] # None => objs[r] # None

(* What ConditionsNeverLost asks of a step. *)
KeepsConditions ==
  cr # None /\ cr' # None =>
    \A t \in CondTypes : IsConditionTrue(cr, t) => cr'.conds[t].st = "True"

(* Initially there are no copies and no children. *)
LEMMA InitLifecycleInv ==
  Init => LifecycleInv
  BY DEF Init, LifecycleInv, Recorded, AfterHMeta, AfterServer, Fenced, Res

(* A status update that adds conditions to those of the worker's copy      *)
(* loses none of the CR's: it is accepted only if the copy is current.     *)
LEMMA StatusKeeps ==
  ASSUME TypeOK, LifecycleInv, NEW step, NEW new, NEW next, StatusStep(step, new, next),
         step # "idle",
         \A t \in CondTypes : IsConditionTrue(hdb, t) => IsConditionTrue(new, t)
  PROVE  /\ KeepsConditions
         /\ Recorded(crSeen)' /\ Recorded(hdb)'
         /\ (cr # None => \A r \in Res : seen[r] # None => objs[r] # None)'
         /\ cr' = None => cr = None
  <1>1. /\ hdb \in HStreamDB /\ hdb # None /\ new # None /\ None \notin HStreamDB
    BY ConstantsAssumption DEF StatusStep, TypeOK
  <1>2. UNCHANGED <<objs, seen, crSeen>> /\ (cr' = cr \/ (cr = hdb /\ cr' = new))
    BY DEF StatusStep
  <1>3. hdb' = None \/ (hdb' = new /\ cr' = new)
    BY DEF StatusStep, Ends
  <1> QED
    BY <1>1, <1>2, <1>3 DEF LifecycleInv, Recorded, KeepsConditions, IsConditionTrue

(* Every shape of step preserves the invariant and keeps the conditions. *)
LEMMA StepLifecycleInv ==
  ASSUME TypeOK, OrderInv, LifecycleInv, Step, TypeOK'
  PROVE  LifecycleInv' /\ KeepsConditions
  <1> USE DEF LifecycleInv, AfterHMeta, AfterServer, Fenced
  <1>1. CASE Reconcile
    BY <1>1 DEF Reconcile, Recorded, KeepsConditions, IsConditionTrue, caches, cluster
  <1>2. CASE BeforeFenceStep \/ AfterFenceStep
    <2>1. /\ UNCHANGED <<cr, crSeen, seen>>
          /\ \A x \in Res : objs[x] # None => objs'[x] # None
          /\ hdb' = hdb \/ (hdb' = None /\ pc' = "idle")
      BY <1>2 DEF BeforeFenceStep, AfterFenceStep, ChildStep
    <2>2. (pc' \in AfterHMeta => hdb' = hdb /\ pc \in AfterHMeta)
      BY <1>2 DEF BeforeFenceStep, AfterFenceStep, ChildStep
    <2>3. (pc' \in AfterServer => hdb' = hdb /\ (pc \in AfterServer \/ IsConditionTrue(hdb, "HServerReady")))
      BY <1>2 DEF BeforeFenceStep, AfterFenceStep, ChildStep
    <2> QED
      BY <2>1, <2>2, <2>3 DEF Recorded, KeepsConditions, IsConditionTrue
  <1>3. CASE FenceStep
    <2>1. PICK new : /\ StatusStep("hmetaStatus", new, "admin")
                     /\ IsConditionTrue(new, "HMetaReady")
                     /\ \A t \in CondTypes \ {"HMetaReady"} : new.conds[t] = hdb.conds[t]
      BY <1>3 DEF FenceStep
    <2>2. \A t \in CondTypes : IsConditionTrue(hdb, t) => IsConditionTrue(new, t)
      BY <2>1 DEF IsConditionTrue
    <2>3. pc' = "idle" \/ (pc' = "admin" /\ hdb' = new)
      BY <2>1 DEF StatusStep, Ends
    <2> QED
      BY <2>1, <2>2, <2>3, StatusKeeps DEF IsConditionTrue
  <1>4. CASE StoreReadyStep
    <2> DEFINE new == SetCondition(hdb, "HStoreReady", "True")
    <2>1. StatusStep("bootHStoreStatus", new, "idle") /\ hdb \in HStreamDB
      BY <1>4 DEF StoreReadyStep, StatusStep, TypeOK
    <2>2. \A t \in CondTypes : IsConditionTrue(hdb, t) => IsConditionTrue(new, t)
      BY <2>1, SetConditionTyped DEF CondTypes, IsConditionTrue
    <2> HIDE DEF new
    <2>3. pc' = "idle"
      BY <2>1 DEF StatusStep, Ends
    <2> QED
      BY <2>1, <2>2, <2>3, StatusKeeps
  <1>5. CASE ServerReadyStep
    <2> DEFINE new == SetCondition(hdb, "HServerReady", "True")
    <2>1. StatusStep("bootHServerStatus", new, "gateway") /\ hdb \in HStreamDB
      BY <1>5 DEF ServerReadyStep, StatusStep, TypeOK
    <2>2. /\ \A t \in CondTypes : IsConditionTrue(hdb, t) => IsConditionTrue(new, t)
          /\ IsConditionTrue(new, "HServerReady")
      BY <2>1, SetConditionTyped DEF CondTypes, IsConditionTrue
    <2> HIDE DEF new
    <2>3. pc = "bootHServerStatus" /\ (pc' = "idle" \/ (pc' = "gateway" /\ hdb' = new))
      BY <2>1 DEF StatusStep, Ends
    <2>4. IsConditionTrue(new, "HMetaReady")
      BY <2>2, <2>3 DEF CondTypes
    <2> QED
      BY <2>1, <2>2, <2>3, <2>4, StatusKeeps DEF IsConditionTrue
  <1>6. CASE ReadyStep
    <2>1. PICK new : StatusStep("status", new, "idle") /\ ReadyStatus(new)
      BY <1>6 DEF ReadyStep
    <2>2. /\ IsConditionTrue(hdb, "HMetaReady") /\ IsConditionTrue(hdb, "HStoreReady")
          /\ IsConditionTrue(hdb, "HServerReady")
      BY <2>1 DEF StatusStep, OrderInv, AfterStore
    <2>3. \A t \in CondTypes : IsConditionTrue(hdb, t) => IsConditionTrue(new, t)
      BY <2>1, <2>2 DEF ReadyStatus, CondTypes, IsConditionTrue
    <2>4. pc' = "idle"
      BY <2>1 DEF StatusStep, Ends
    <2> QED
      BY <2>1, <2>3, <2>4, StatusKeeps
  <1>7. CASE StoreEffectStep \/ ServerEffectStep
    <2>1. /\ UNCHANGED <<cr, objs, crSeen, seen>>
          /\ \/ hdb' = None /\ pc' = "idle"
             \/ hdb' = hdb /\ pc \in Fenced /\ pc' \in {"bootHStoreStatus", "bootHServerStatus"}
      BY <1>7 DEF StoreEffectStep, ServerEffectStep, EffectStep, Ends
    <2> QED
      BY <2>1 DEF Recorded, KeepsConditions, IsConditionTrue
  <1>8. CASE PanicStep \/ CrashStep
    BY <1>8 DEF PanicStep, CrashStep, RestartStep, Recorded, KeepsConditions, IsConditionTrue
  <1>9. CASE SyncStep
    BY <1>9 DEF SyncStep, Recorded, KeepsConditions, IsConditionTrue
  <1>10. CASE PodStep
    BY <1>10 DEF PodStep, Recorded, KeepsConditions, IsConditionTrue
  <1>11. CASE EditStep
    <2>1. cr # None
      BY <1>11, ConstantsAssumption DEF EditStep
    <2> QED
      BY <1>11, <2>1 DEF EditStep, Recorded, KeepsConditions, IsConditionTrue
  <1>12. CASE DeleteStep
    BY <1>12 DEF DeleteStep, Recorded, KeepsConditions, IsConditionTrue
  <1> QED
    BY <1>1, <1>2, <1>3, <1>4, <1>5, <1>6, <1>7, <1>8, <1>9, <1>10, <1>11, <1>12 DEF Step

(* For every instance: what any copy of the CR claims, the CR itself       *)
(* claims, and cached children exist.                                      *)
THEOREM LifecycleInvariant == Spec => [](TypeOK /\ OrderInv /\ LifecycleInv)
  <1>1. TypeOK /\ TypeOK' /\ OrderInv /\ LifecycleInv /\ [Next]_vars => LifecycleInv'
    <2> SUFFICES ASSUME TypeOK, TypeOK', OrderInv, LifecycleInv, [Next]_vars
                 PROVE  LifecycleInv'
      OBVIOUS
    <2>1. CASE Next
      BY <2>1, NextIsStep, StepLifecycleInv
    <2>2. CASE UNCHANGED vars
      BY <2>2 DEF LifecycleInv, Recorded, IsConditionTrue, vars
    <2> QED
      BY <2>1, <2>2
  <1> QED
    BY <1>1, InitLifecycleInv, OrderInvariant, TypeCorrect, PTL DEF Spec

(* For every instance: no status update based on a stale copy, and none    *)
(* cut short by a fault, takes back a condition.                           *)
THEOREM ConditionsAreNeverLost == Spec => ConditionsNeverLost
  <1>1. TypeOK /\ TypeOK' /\ OrderInv /\ LifecycleInv /\ [Next]_vars => [KeepsConditions]_vars
    <2> SUFFICES ASSUME TypeOK, TypeOK', OrderInv, LifecycleInv, Next
                 PROVE  KeepsConditions
      OBVIOUS
    <2> QED
      BY NextIsStep, StepLifecycleInv
  <1>2. [KeepsConditions]_vars =>
        [cr # None /\ cr' # None =>
           \A t \in CondTypes : IsConditionTrue(cr, t) => cr'.conds[t].st = "True"]_vars
    BY DEF KeepsConditions
  <1> QED
    BY <1>1, <1>2, LifecycleInvariant, PTL DEF Spec, ConditionsNeverLost
-----------------------------------------------------------------------------
(* The refinement.  Announced is what the abstract variable announced      *)
(* stands for.                                                             *)

Announcements == {"HStoreReady", "HServerReady", "Ready"}

Announced ==
  IF cr = None THEN {} ELSE {t \in Announcements : IsConditionTrue(cr, t)}

(* A step that changes nothing the life cycle is about. *)
Silent ==
  /\ (cr' # None) = (cr # None)
  /\ (bootstraps' # <<>>) = (bootstraps # <<>>)
  /\ (objs'["hserver"] # None) = (objs["hserver"] # None)
  /\ (serverInits' > 0) = (serverInits > 0)
  /\ Announced' = Announced

(* Such a step is a stutter of the abstract specification. *)
LEMMA SilentStutters ==
  Silent => UNCHANGED Lifecycle!lifecycle
  BY DEF Silent, Announced, Announcements, Lifecycle!lifecycle

(* The initial states are initial states of the life cycle. *)
LEMMA InitRefines ==
  Init => Lifecycle!Init
  <1> SUFFICES ASSUME Init PROVE Lifecycle!Init
    OBVIOUS
  <1>1. cr # None
    <2>1. cr \in HStreamDB
      BY ConstantsAssumption DEF Init, HStreamDB, Condition
    <2> QED
      BY <2>1, ConstantsAssumption
  <1>2. \A t \in CondTypes : ~IsConditionTrue(cr, t)
    BY DEF Init, IsConditionTrue
  <1>3. bootstraps = <<>> /\ objs["hserver"] = None /\ serverInits = 0
    BY DEF Init, Res, Workloads
  <1> QED
    BY <1>1, <1>2, <1>3 DEF Lifecycle!Init, CondTypes

(* A status update that keeps all conditions but t, which it sets with     *)
(* good reason, announces t or nothing.                                    *)
LEMMA StatusRefines ==
  ASSUME TypeOK, NEW step, NEW new, NEW next, StatusStep(step, new, next), step # "idle",
         NEW t \in Announcements, IsConditionTrue(new, t),
         \A u \in Announcements \ {t} : new.conds[u] = hdb.conds[u]
  PROVE  \/ Silent
         \/ /\ cr = hdb /\ cr # None /\ cr' # None
            /\ Announced' = Announced \cup {t}
            /\ UNCHANGED <<objs, bootstraps, serverInits>>
  <1>1. /\ hdb \in HStreamDB /\ hdb # None /\ new # None
    BY ConstantsAssumption DEF StatusStep, TypeOK
  <1>2. UNCHANGED <<objs, bootstraps, serverInits>> /\ (cr' = cr \/ (cr = hdb /\ cr' = new))
    BY DEF StatusStep
  <1>3. CASE cr' = cr
    BY <1>2, <1>3 DEF Silent, Announced, IsConditionTrue
  <1>4. CASE cr = hdb /\ cr' = new
    BY <1>1, <1>2, <1>4 DEF Announced, IsConditionTrue
  <1> QED
    BY <1>2, <1>3, <1>4

(* Every shape of step is a step of the life cycle or changes nothing in   *)
(* it.                                                                     *)
LEMMA StepRefines ==
  ASSUME TypeOK, OrderInv, LifecycleInv, Step, TypeOK'
  PROVE  Lifecycle!Next \/ Silent
  <1> USE DEF Announcements
  <1>1. CASE Reconcile \/ PanicStep \/ CrashStep \/ SyncStep
    BY <1>1 DEF Reconcile, PanicStep, CrashStep, RestartStep, SyncStep, cluster,
                Silent, Announced, IsConditionTrue
  <1>2. CASE BeforeFenceStep \/ AfterFenceStep
    <2>1. /\ UNCHANGED <<cr, bootstraps, serverInits>>
          /\ pc # "hserver" => objs'["hserver"] = objs["hserver"]
          /\ objs["hserver"] # None => objs'["hserver"] # None
      BY <1>2 DEF BeforeFenceStep, AfterFenceStep, ChildStep, Res, Workloads
    <2>2. Announced' = Announced
      BY <2>1 DEF Announced, IsConditionTrue
    <2>3. CASE objs["hserver"] = None /\ objs'["hserver"] # None
      <3>1. pc = "hserver" /\ hdb # None /\ IsConditionTrue(hdb, "HStoreReady") /\ bootstraps # <<>>
        BY <2>1, <2>3, ConstantsAssumption DEF OrderInv, AfterStore, Honest, TypeOK
      <3>2. cr # None => "HStoreReady" \in Announced
        BY <3>1 DEF LifecycleInv, Recorded, Announced, CondTypes
      <3>3. Lifecycle!DeployServer
        BY <2>1, <2>2, <2>3, <3>1, <3>2 DEF Lifecycle!DeployServer, Announced
      <3> QED
        BY <3>3 DEF Lifecycle!Next
    <2>4. CASE ~(objs["hserver"] = None /\ objs'["hserver"] # None)
      BY <2>1, <2>2, <2>4 DEF Silent
    <2> QED
      BY <2>3, <2>4
  <1>3. CASE FenceStep
    <2>1. PICK new : /\ StatusStep("hmetaStatus", new, "admin")
                     /\ \A t \in CondTypes \ {"HMetaReady"} : new.conds[t] = hdb.conds[t]
      BY <1>3 DEF FenceStep
    <2>2. /\ UNCHANGED <<objs, bootstraps, serverInits>> /\ (cr' = cr \/ (cr = hdb /\ cr' = new))
          /\ hdb # None /\ new # None
      BY <2>1, ConstantsAssumption DEF StatusStep, TypeOK
    <2>3. Announced' = Announced
      BY <2>1, <2>2 DEF Announced, IsConditionTrue, CondTypes
    <2> QED
      BY <2>2, <2>3 DEF Silent
  <1>4. CASE StoreReadyStep
    <2> DEFINE new == SetCondition(hdb, "HStoreReady", "True")
    <2>1. /\ StatusStep("bootHStoreStatus", new, "idle") /\ hdb \in HStreamDB
          /\ bootstraps # <<>>
      BY <1>4 DEF StoreReadyStep, StatusStep, TypeOK, OrderInv
    <2>2. /\ IsConditionTrue(new, "HStoreReady")
          /\ \A u \in Announcements \ {"HStoreReady"} : new.conds[u] = hdb.conds[u]
      BY <2>1, SetConditionTyped DEF CondTypes, IsConditionTrue
    <2> HIDE DEF new
    <2>3. CASE /\ cr # None /\ cr' # None
               /\ Announced' = Announced \cup {"HStoreReady"}
               /\ UNCHANGED <<objs, bootstraps, serverInits>>
      <3>1. Lifecycle!Announce("HStoreReady", bootstraps # <<>>)
        BY <2>1, <2>3 DEF Lifecycle!Announce, Announced
      <3> QED
        BY <3>1 DEF Lifecycle!Next
    <2> QED
      BY <2>1, <2>2, <2>3, StatusRefines
  <1>5. CASE ServerReadyStep
    <2> DEFINE new == SetCondition(hdb, "HServerReady", "True")
    <2>1. /\ StatusStep("bootHServerStatus", new, "gateway") /\ hdb \in HStreamDB
          /\ serverInits > 0
      BY <1>5 DEF ServerReadyStep, StatusStep, TypeOK, OrderInv
    <2>2. /\ IsConditionTrue(new, "HServerReady")
          /\ \A u \in Announcements \ {"HServerReady"} : new.conds[u] = hdb.conds[u]
      BY <2>1, SetConditionTyped DEF CondTypes, IsConditionTrue
    <2> HIDE DEF new
    <2>3. CASE /\ cr # None /\ cr' # None
               /\ Announced' = Announced \cup {"HServerReady"}
               /\ UNCHANGED <<objs, bootstraps, serverInits>>
      <3>1. Lifecycle!Announce("HServerReady", serverInits > 0)
        BY <2>1, <2>3 DEF Lifecycle!Announce, Announced
      <3> QED
        BY <3>1 DEF Lifecycle!Next
    <2> QED
      BY <2>1, <2>2, <2>3, StatusRefines
  <1>6. CASE ReadyStep
    <2>1. PICK new : StatusStep("status", new, "idle") /\ ReadyStatus(new)
      BY <1>6 DEF ReadyStep
    <2>2. /\ IsConditionTrue(hdb, "HMetaReady") /\ IsConditionTrue(hdb, "HStoreReady")
          /\ IsConditionTrue(hdb, "HServerReady")
      BY <2>1 DEF StatusStep, OrderInv, AfterStore, LifecycleInv, AfterHMeta, AfterServer
    <2>3. /\ IsConditionTrue(new, "Ready")
          /\ \A u \in Announcements \ {"Ready"} : new.conds[u] = hdb.conds[u]
      BY <2>1, <2>2 DEF ReadyStatus
    <2>4. CASE /\ cr = hdb /\ cr # None /\ cr' # None
               /\ Announced' = Announced \cup {"Ready"}
               /\ UNCHANGED <<objs, bootstraps, serverInits>>
      <3>1. {"HStoreReady", "HServerReady"} \subseteq Announced
        BY <2>2, <2>4 DEF Announced
      <3>2. Lifecycle!Announce("Ready", {"HStoreReady", "HServerReady"} \subseteq Announced)
        BY <2>4, <3>1 DEF Lifecycle!Announce, Announced
      <3> QED
        BY <3>2 DEF Lifecycle!Next, Announced
    <2> QED
      BY <2>1, <2>3, <2>4, StatusRefines
  <1>7. CASE StoreEffectStep
    <2>1. /\ UNCHANGED <<cr, objs, serverInits>> /\ bootstraps' # <<>>
      BY <1>7, ReplicationTyped DEF StoreEffectStep, EffectStep, TypeOK
    <2>2. Lifecycle!BootstrapStore
      BY <2>1 DEF Lifecycle!BootstrapStore, IsConditionTrue
    <2> QED
      BY <2>2 DEF Lifecycle!Next
  <1>8. CASE ServerEffectStep
    <2>1. /\ UNCHANGED <<cr, objs, bootstraps>> /\ serverInits' > 0
          /\ hdb # None /\ IsConditionTrue(hdb, "HStoreReady") /\ bootstraps # <<>>
      BY <1>8, ConstantsAssumption
      DEF ServerEffectStep, EffectStep, TypeOK, OrderInv, AfterStore, Honest
    <2>2. cr # None => IsConditionTrue(cr, "HStoreReady")
      BY <2>1 DEF LifecycleInv, Recorded, CondTypes
    <2>3. cr # None => objs["hserver"] # None
      BY <1>8 DEF ServerEffectStep, checkPodRunningStatus, Get, LifecycleInv, Res, Workloads
    <2>4. Lifecycle!InitServer
      BY <2>1, <2>2, <2>3 DEF Lifecycle!InitServer, IsConditionTrue
    <2> QED
      BY <2>4 DEF Lifecycle!Next
  <1>9. CASE PodStep
    BY <1>9 DEF PodStep, Silent, Announced, IsConditionTrue, Res, Workloads
  <1>10. CASE EditStep
    <2>1. cr # None /\ cr' # None
      BY <1>10, ConstantsAssumption DEF EditStep
    <2> QED
      BY <1>10, <2>1 DEF EditStep, Silent, Announced, IsConditionTrue
  <1>11. CASE DeleteStep /\ cr # None
    <2>1. UNCHANGED <<objs, bootstraps, serverInits>> /\ cr' = None
      BY <1>11 DEF DeleteStep
    <2>2. Lifecycle!Delete
      BY <2>1 DEF Lifecycle!Delete
    <2> QED
      BY <2>2 DEF Lifecycle!Next
  <1>12. CASE DeleteStep /\ cr = None
    <2>1. /\ UNCHANGED <<bootstraps, serverInits>> /\ cr = None /\ cr' = None
          /\ objs'["hserver"] # None => objs["hserver"] # None
      BY <1>12 DEF DeleteStep, Res, Workloads
    <2>2. CASE objs'["hserver"] = None
      <3>1. Lifecycle!RemoveServer
        BY <2>1, <2>2 DEF Lifecycle!RemoveServer
      <3> QED
        BY <3>1 DEF Lifecycle!Next
    <2>3. CASE objs'["hserver"] # None
      BY <2>1, <2>3 DEF Silent, Announced
    <2> QED
      BY <2>2, <2>3
  <1> QED
    BY <1>1, <1>2, <1>3, <1>4, <1>5, <1>6, <1>7, <1>8, <1>9, <1>10, <1>11, <1>12 DEF Step

(* For every instance of the constants the controller, with all its        *)
(* retries, stale reads and restarts, implements the life cycle.           *)
THEOREM RefinesLifecycle == Spec => ImplementsLifecycle
  <1>1. TypeOK /\ TypeOK' /\ OrderInv /\ LifecycleInv /\ [Next]_vars
          => [Lifecycle!Next]_(Lifecycle!lifecycle)
    <2> SUFFICES ASSUME TypeOK, TypeOK', OrderInv, LifecycleInv, [Next]_vars
                 PROVE  Lifecycle!Next \/ UNCHANGED Lifecycle!lifecycle
      OBVIOUS
    <2>1. CASE Next
      BY <2>1, NextIsStep, StepRefines, SilentStutters
    <2>2. CASE UNCHANGED vars
      <3>1. Silent
        BY <2>2 DEF vars, Silent, Announced, IsConditionTrue
      <3> QED
        BY <3>1, SilentStutters
    <2> QED
      BY <2>1, <2>2
  <1> QED
    BY <1>1, InitRefines, LifecycleInvariant, TypeCorrect, PTL
    DEF Spec, ImplementsLifecycle, Lifecycle!Spec
=============================================================================
