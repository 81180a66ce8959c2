---------------------- MODULE HStreamDBChildren_proofs ----------------------
(***************************************************************************)
(* What the HStreamDB controller writes into the children of a CR: the     *)
(* number of shards of the store is fixed, the store is bootstrapped when  *)
(* its pods run, and Ready means that the spec is applied.  Each of these  *)
(* is false without some assumption, on specs or on caches: the theorems   *)
(* state it, and leave edits, faults and restarts unbounded.               *)
(***************************************************************************)
EXTENDS HStreamDBReconciler_proofs

-----------------------------------------------------------------------------
(* What a write does. *)

(* Writing a child leaves it alone, or gives it the wanted content if the  *)
(* worker has read its current version.                                    *)
LEMMA WriteOutcome ==
  ASSUME TypeOK, NEW r \in Res, NEW want \in Object, NEW next \in Steps \ {"idle"},
         NEW writes \in BOOLEAN, Write(r, want, writes, next)
  PROVE  \/ /\ objs'[r] = objs[r]
            /\ pc' # "idle" => ~writes
         \/ /\ writes /\ Get(r) = objs[r]
            /\ objs'[r] \in Object /\ SameContent(objs'[r], want)
            /\ objs'[r].ready = IF objs[r] = None THEN 0 ELSE objs[r].ready
  <1>1. Get(r) \in Object \cup {None} /\ objs \in [Res -> Object \cup {None}]
    BY GetTyped DEF TypeOK
  <1> DEFINE ready == IF Get(r) = None THEN 0 ELSE Get(r).ready
             new == [want EXCEPT !.ready = ready]
             result == [objs EXCEPT ![r] = new]
  <1>2. new \in Object /\ SameContent(new, want) /\ new.ready = ready
    <2>1. ready \in Nat
      BY <1>1 DEF Object
    <2> QED
      BY <2>1 DEF Object, SameContent
  <1>3. result[r] = new
    BY <1>1
  <1>4. \/ objs' = objs /\ (pc' # "idle" => ~writes)
        \/ writes /\ Get(r) = objs[r] /\ objs' = result
    BY DEF Write, processRequeue, Finish
  <1> QED
    BY <1>2, <1>3, <1>4

(* What createIfMissing does to its child. *)
CreateOutcome(r, want) ==
  \/ /\ objs'[r] = objs[r]
     /\ pc' # "idle" => Get(r) # None
  \/ /\ Get(r) = None /\ objs[r] = None
     /\ objs'[r] \in Object /\ SameContent(objs'[r], want)

(* A ConfigMap is written only if there is none. *)
LEMMA CreateIfMissingOutcome ==
  ASSUME TypeOK, NEW r \in Res, NEW want \in Object, NEW next \in Steps \ {"idle"},
         createIfMissing(r, want, next)
  PROVE  CreateOutcome(r, want)
  <1> DEFINE missing == Get(r) = None
  <1>1. missing \in BOOLEAN /\ Write(r, want, missing, next)
    BY DEF createIfMissing
  <1>2. missing <=> Get(r) = None
    OBVIOUS
  <1> HIDE DEF missing
  <1> QED
    BY <1>1, <1>2, WriteOutcome DEF CreateOutcome

(* What createOrUpdate does to its child. *)
UpdateOutcome(r, want) ==
  \/ /\ objs'[r] = objs[r]
     /\ pc' # "idle" => Get(r) # None /\ SameContent(Get(r), want)
  \/ /\ Get(r) = objs[r]
     /\ objs'[r] \in Object /\ SameContent(objs'[r], want)
     /\ objs'[r].ready = IF objs[r] = None THEN 0 ELSE objs[r].ready

(* The hash decides whether a child is written; if it is not, and the      *)
(* chain goes on, the child the worker read has the wanted content.        *)
LEMMA CreateOrUpdateOutcome ==
  ASSUME TypeOK, NEW r \in Res, NEW want \in Object, NEW next \in Steps \ {"idle"},
         createOrUpdate(r, want, next)
  PROVE  UpdateOutcome(r, want)
  <1> DEFINE writes == IF Get(r) = None THEN TRUE ELSE isHashChanged(Get(r), want)
  <1>1. writes \in BOOLEAN /\ Write(r, want, writes, next)
    BY DEF createOrUpdate, isHashChanged
  <1>2. ~writes => Get(r) # None /\ SameContent(Get(r), want)
    BY DEF isHashChanged, SameContent
  <1> HIDE DEF writes
  <1> QED
    BY <1>1, <1>2, WriteOutcome DEF UpdateOutcome

(* The ConfigMap with the number of shards, unless the Get fails. *)
LEMMA NShardsOutcome ==
  ASSUME TypeOK, NShardsConfig, ~GetErrors
  PROVE  CreateOutcome("nshardsCM", Data(GetMinNShards(hdb)))
  <1>1. hdb \in HStreamDB
    BY DEF NShardsConfig, TypeOK
  <1>2. Data(GetMinNShards(hdb)) \in Object
    BY <1>1, HStreamDBTyped, DataTyped DEF GetMinNShards
  <1> QED
    BY <1>2, CreateIfMissingOutcome DEF NShardsConfig, Res, ConfigMaps, Steps, Services

(* The store. *)
LEMMA HStoreOutcome ==
  ASSUME TypeOK, AddHStore
  PROVE  \E nShard \in getNShardFromExistingConfigMap(hdb) \cap Nat :
           UpdateOutcome("hstore", PodSet(hdb, "hstore", nShard))
  <1>1. hdb \in HStreamDB /\ Get("nshardsCM") \in Object \cup {None}
    BY GetTyped DEF AddHStore, TypeOK, Res, ConfigMaps
  <1>2. PICK nShard \in getNShardFromExistingConfigMap(hdb) :
          createOrUpdate("hstore", getHStoreSts(hdb, nShard), "bootHStore")
    BY DEF AddHStore
  <1>3. nShard \in Nat
    BY <1>1, HStreamDBTyped DEF getNShardFromExistingConfigMap, Object
  <1>4. getHStoreSts(hdb, nShard) \in Object
    BY <1>1, <1>3, HStreamDBTyped, PodSetTyped DEF getHStoreSts, Workloads
  <1>5. UpdateOutcome("hstore", getHStoreSts(hdb, nShard))
    BY <1>2, <1>4, CreateOrUpdateOutcome DEF Res, Workloads, Steps
  <1> QED
    BY <1>3, <1>5 DEF getHStoreSts

-----------------------------------------------------------------------------
(* Every copy of the CR has a spec that the user applied. *)

KnownInv ==
  /\ cr # None => cr.spec \in Specs
  /\ crSeen # None => crSeen.spec \in Specs
  /\ hdb # None => hdb.spec \in Specs

(* No shape of step mixes two specs. *)
LEMMA StepKnownInv ==
  ASSUME TypeOK, KnownInv, Step
  PROVE  KnownInv'
  <1> USE DEF KnownInv
  <1>1. CASE Reconcile
    BY <1>1 DEF Reconcile, caches, cluster
  <1>2. CASE BeforeFenceStep \/ AfterFenceStep
    BY <1>2 DEF BeforeFenceStep, AfterFenceStep, ChildStep
  <1>3. ASSUME NEW step, NEW new, NEW next, StatusStep(step, new, next), step # "idle"
        PROVE  KnownInv'
    BY <1>3, ConstantsAssumption DEF StatusStep, Ends, TypeOK
  <1>4. CASE FenceStep \/ StoreReadyStep \/ ServerReadyStep \/ ReadyStep
    BY <1>3, <1>4 DEF FenceStep, StoreReadyStep, ServerReadyStep, ReadyStep
  <1>5. CASE StoreEffectStep \/ ServerEffectStep
    BY <1>5 DEF StoreEffectStep, ServerEffectStep, EffectStep, Ends
  <1>6. CASE PanicStep \/ CrashStep
    BY <1>6 DEF PanicStep, CrashStep, RestartStep
  <1>7. CASE SyncStep \/ PodStep \/ EditStep \/ DeleteStep
    BY <1>7 DEF SyncStep, PodStep, EditStep, DeleteStep
  <1> QED
    BY <1>1, <1>2, <1>4, <1>5, <1>6, <1>7 DEF Step
-----------------------------------------------------------------------------
(* The number of shards.  A worker that finds no ConfigMap in its cache    *)
(* takes the number from the spec, which an edit may have changed since    *)
(* the store was created.  It gets that far only if it has just created    *)
(* the ConfigMap itself, from the same copy of the spec: if there was one, *)
(* creating it failed and ended the reconciliation.                        *)

AfterShards == {"hmetaSvc", "adminSvc", "hstoreSvc", "hserverSvc", "hmeta", "hmetaStatus",
                "admin", "hstore"}

ShardInv ==
  cr # None =>
    /\ Get("nshardsCM") \in {None, objs["nshardsCM"]}
    /\ pc \in AfterShards =>
         /\ objs["nshardsCM"] # None
         /\ Get("nshardsCM") = None => objs["nshardsCM"].arg = hdb.spec.nshards
    /\ objs["hstore"] # None =>
         /\ objs["nshardsCM"] # None
         /\ objs["hstore"].arg = objs["nshardsCM"].arg

KeepsNShards ==
  cr # None /\ objs["hstore"] # None /\ objs'["hstore"] # None =>
    objs'["hstore"].arg = objs["hstore"].arg

(* The user sets the number of shards, or ConfigMaps are read as they are. *)
ShardsKnown == "ConfigMap" \notin Lagging \/ \A s \in Specs : s.nshards # 0

(* Every shape of step keeps the number of shards. *)
LEMMA StepShardInv ==
  ASSUME TypeOK, KnownInv, ShardInv, Step, ~GetErrors, ShardsKnown
  PROVE  ShardInv' /\ KeepsNShards
  <1> USE DEF ShardInv, KeepsNShards, Res, Workloads, ConfigMaps
  <1>0. Kind("nshardsCM") = "ConfigMap"
    BY DEF Kind, Services
  <1>1. CASE Reconcile
    <2>1. UNCHANGED <<cr, objs, seen>> /\ pc' \notin AfterShards
      BY <1>1 DEF Reconcile, caches, cluster, AfterShards
    <2> QED
      BY <2>1 DEF Get
  <1>2. CASE NShardsConfig /\ ChildStep("nshardsCM", "hmetaSvc")
    <2>1. /\ UNCHANGED <<cr, seen>> /\ objs'["hstore"] = objs["hstore"]
          /\ objs["nshardsCM"] # None => objs'["nshardsCM"] # None
          /\ pc = "nshardsCM" /\ hdb \in HStreamDB /\ hdb # None
          /\ (pc' = "idle" \/ (pc' = "hmetaSvc" /\ hdb' = hdb))
      BY <1>2, ConstantsAssumption DEF ChildStep, TypeOK
    <2>2. CreateOutcome("nshardsCM", Data(GetMinNShards(hdb)))
      BY <1>2, NShardsOutcome
    <2>3. "ConfigMap" \in Lagging => GetMinNShards(hdb) = hdb.spec.nshards
      BY <2>1 DEF GetMinNShards, ShardsKnown, KnownInv
    <2>4. CASE objs'["nshardsCM"] = objs["nshardsCM"] /\ (pc' # "idle" => Get("nshardsCM") # None)
      BY <1>0, <2>1, <2>4 DEF Get, AfterShards
    <2>5. CASE /\ Get("nshardsCM") = None /\ objs["nshardsCM"] = None
               /\ objs'["nshardsCM"] \in Object
               /\ SameContent(objs'["nshardsCM"], Data(GetMinNShards(hdb)))
      <3>1. /\ objs'["nshardsCM"] # None
            /\ "ConfigMap" \in Lagging => objs'["nshardsCM"].arg = hdb.spec.nshards
        BY <2>3, <2>5, ConstantsAssumption DEF SameContent, Data
      <3>2. cr # None => objs["hstore"] = None
        BY <2>5
      <3>3. /\ Get("nshardsCM")' \in {None, objs'["nshardsCM"]}
            /\ "ConfigMap" \notin Lagging => Get("nshardsCM")' = objs'["nshardsCM"]
        BY <1>0, <2>1, <2>5 DEF Get
      <3> QED
        BY <2>1, <3>1, <3>2, <3>3 DEF AfterShards
    <2> QED
      BY <2>2, <2>4, <2>5 DEF CreateOutcome
  <1>3. CASE AddHStore /\ ChildStep("hstore", "bootHStore")
    <2>1. /\ UNCHANGED <<cr, seen>> /\ objs'["nshardsCM"] = objs["nshardsCM"]
          /\ pc = "hstore" /\ pc' \in {"idle", "bootHStore"}
      BY <1>3 DEF ChildStep
    <2>2. PICK nShard \in getNShardFromExistingConfigMap(hdb) :
            UpdateOutcome("hstore", PodSet(hdb, "hstore", nShard))
      BY <1>3, HStoreOutcome
    <2>3. cr # None => objs["nshardsCM"] # None /\ nShard = objs["nshardsCM"].arg
      BY <2>1 DEF getNShardFromExistingConfigMap, AfterShards
    <2>4. \/ objs'["hstore"] = objs["hstore"]
          \/ objs'["hstore"].arg = nShard
      BY <2>2 DEF UpdateOutcome, SameContent, PodSet
    <2> QED
      BY <1>0, <2>1, <2>3, <2>4 DEF Get, AfterShards
  <1>4. CASE /\ BeforeFenceStep \/ AfterFenceStep
             /\ pc \notin {"nshardsCM", "hstore"}
    <2>1. /\ UNCHANGED <<cr, seen>>
          /\ objs'["nshardsCM"] = objs["nshardsCM"] /\ objs'["hstore"] = objs["hstore"]
          /\ pc' \in AfterShards => pc \in AfterShards /\ hdb' = hdb
      BY <1>4 DEF BeforeFenceStep, AfterFenceStep, ChildStep, AfterShards
    <2> QED
      BY <1>0, <2>1 DEF Get
  <1>5. ASSUME NEW step, NEW new, NEW next, StatusStep(step, new, next),
               next = "admin" => step = "hmetaStatus", next \in {"admin", "gateway", "idle"},
               step # "idle"
        PROVE  ShardInv' /\ KeepsNShards
    <2>1. /\ UNCHANGED <<objs, seen>> /\ (cr' = None => cr = None) /\ (cr = None => cr' = None)
      BY <1>5, ConstantsAssumption DEF StatusStep, TypeOK
    <2>2. pc' \in AfterShards => pc \in AfterShards /\ hdb'.spec = hdb.spec
      BY <1>5 DEF StatusStep, Ends, AfterShards
    <2> QED
      BY <1>0, <2>1, <2>2 DEF Get
  <1>6. CASE FenceStep \/ StoreReadyStep \/ ServerReadyStep \/ ReadyStep
    BY <1>5, <1>6 DEF FenceStep, StoreReadyStep, ServerReadyStep, ReadyStep
  <1>7. CASE StoreEffectStep \/ ServerEffectStep
    BY <1>0, <1>7 DEF StoreEffectStep, ServerEffectStep, EffectStep, Ends, Get, AfterShards
  <1>8. CASE PanicStep \/ CrashStep
    BY <1>0, <1>8 DEF PanicStep, CrashStep, RestartStep, Get, AfterShards
  <1>9. CASE SyncStep
    BY <1>0, <1>9 DEF SyncStep, Get
  <1>10. CASE PodStep
    <2>1. /\ UNCHANGED <<cr, seen, pc, hdb>> /\ objs'["nshardsCM"] = objs["nshardsCM"]
          /\ objs["hstore"] # None <=> objs'["hstore"] # None
          /\ objs["hstore"] # None => objs'["hstore"].arg = objs["hstore"].arg
      BY <1>10 DEF PodStep, SameContent
    <2> QED
      BY <1>0, <2>1 DEF Get
  <1>11. CASE EditStep
    <2>1. cr # None
      BY <1>11, ConstantsAssumption DEF EditStep
    <2> QED
      BY <1>0, <1>11, <2>1 DEF EditStep, Get
  <1>12. CASE DeleteStep
    BY <1>12 DEF DeleteStep
  <1> QED
    BY <1>1, <1>2, <1>3, <1>4, <1>6, <1>7, <1>8, <1>9, <1>10, <1>11, <1>12
    DEF Step, BeforeFenceStep, AfterFenceStep, ChildStep

(* If specs give the number of shards, or ConfigMaps are not read late,    *)
(* and no Get fails, that number never changes, however often it is edited *)
(* and however late the other caches are.                                  *)
THEOREM NShardsAlwaysStable ==
  ASSUME ~GetErrors, ShardsKnown
  PROVE  Spec => NShardsStable
  <1>1. Init => KnownInv /\ ShardInv
    BY DEF Init, KnownInv, ShardInv, Get, AfterShards, Res, Workloads, ConfigMaps
  <1>2. TypeOK /\ KnownInv /\ ShardInv /\ [Next]_vars =>
          KnownInv' /\ ShardInv' /\ [KeepsNShards]_vars
    <2> SUFFICES ASSUME TypeOK, KnownInv, ShardInv, [Next]_vars
                 PROVE  KnownInv' /\ ShardInv' /\ [KeepsNShards]_vars
      OBVIOUS
    <2>1. CASE Next
      BY <2>1, NextIsStep, StepKnownInv, StepShardInv
    <2>2. CASE UNCHANGED vars
      BY <2>2 DEF vars, KnownInv, ShardInv, Get
    <2> QED
      BY <2>1, <2>2
  <1>3. [KeepsNShards]_vars =>
        [cr # None /\ objs["hstore"] # None /\ objs'["hstore"] # None =>
           objs'["hstore"].arg = objs["hstore"].arg]_vars
    BY DEF KeepsNShards
  <1> QED
    BY <1>1, <1>2, <1>3, TypeCorrect, PTL DEF Spec, NShardsStable
-----------------------------------------------------------------------------
(* Generations.  Edits make the worker's copy and the cached copy of the   *)
(* CR old, but never newer than the CR, and copies of one generation have  *)
(* one spec.  Once Ready is reported for the current generation, no older  *)
(* copy is left that could undo what was written for it.                   *)

AnnouncedNow == cr.conds["Ready"] = [st |-> "True", og |-> cr.gen]

NotNewer(h) == h.gen <= cr.gen /\ (h.gen = cr.gen => h.spec = cr.spec)

GenInv ==
  cr # None =>
    /\ crSeen # None => NotNewer(crSeen)
    /\ hdb # None => crSeen # None /\ hdb.gen <= crSeen.gen /\ NotNewer(hdb)
    /\ cr.conds["Ready"].og <= cr.gen
    /\ AnnouncedNow => /\ crSeen # None /\ crSeen.gen = cr.gen
                       /\ hdb # None => hdb.gen = cr.gen

(* Every shape of step keeps the order of the generations. *)
LEMMA StepGenInv ==
  ASSUME TypeOK, GenInv, Step
  PROVE  GenInv'
  <1> USE DEF GenInv, NotNewer, AnnouncedNow
  <1>0. /\ cr # None => cr \in HStreamDB /\ cr.gen \in Nat /\ cr.conds["Ready"].og \in Nat
        /\ crSeen # None => crSeen \in HStreamDB /\ crSeen.gen \in Nat
        /\ hdb # None => hdb \in HStreamDB /\ hdb.gen \in Nat
        /\ pc # "idle" => hdb # None
    BY HStreamDBTyped, ConstantsAssumption DEF TypeOK, Condition, CondTypes
  <1>1. CASE Reconcile
    BY <1>0, <1>1 DEF Reconcile, caches, cluster
  <1>2. CASE BeforeFenceStep \/ AfterFenceStep
    <2>1. UNCHANGED <<cr, crSeen>> /\ (hdb' = hdb \/ hdb' = None)
      BY <1>2 DEF BeforeFenceStep, AfterFenceStep, ChildStep
    <2> QED
      BY <2>1
  <1>3. ASSUME NEW step, NEW new, NEW next, StatusStep(step, new, next), step # "idle",
               new.conds["Ready"] = hdb.conds["Ready"] \/ new.conds["Ready"].og = hdb.gen,
               new.conds["Ready"] = hdb.conds["Ready"] \/ next = "idle"
        PROVE  GenInv'
    <2>1. /\ hdb # None /\ new \in HStreamDB /\ new # None /\ crSeen' = crSeen
          /\ new.gen = hdb.gen /\ new.spec = hdb.spec
      BY <1>0, <1>3, ConstantsAssumption DEF StatusStep
    <2>2. CASE cr' = cr /\ hdb' = None
      BY <2>1, <2>2
    <2>3. CASE cr = hdb /\ cr' = new /\ (hdb' = None \/ hdb' = new)
      BY <1>0, <1>3, <2>1, <2>3
    <2> QED
      BY <1>3, <2>2, <2>3 DEF StatusStep, Ends
  <1>4. CASE FenceStep
    BY <1>3, <1>4 DEF FenceStep, CondTypes
  <1>5. CASE StoreReadyStep \/ ServerReadyStep
    <2>1. hdb \in HStreamDB
      BY <1>5 DEF StoreReadyStep, ServerReadyStep, StatusStep, TypeOK
    <2>2. \A t \in {"HStoreReady", "HServerReady"} :
            SetCondition(hdb, t, "True").conds["Ready"] = hdb.conds["Ready"]
      BY <2>1 DEF SetCondition, HStreamDB, CondTypes
    <2> QED
      BY <1>3, <1>5, <2>2 DEF StoreReadyStep, ServerReadyStep
  <1>6. CASE ReadyStep
    BY <1>3, <1>6 DEF ReadyStep, ReadyStatus
  <1>7. CASE StoreEffectStep \/ ServerEffectStep
    <2>1. UNCHANGED <<cr, crSeen>> /\ (hdb' = hdb \/ hdb' = None)
      BY <1>7 DEF StoreEffectStep, ServerEffectStep, EffectStep, Ends
    <2> QED
      BY <2>1
  <1>8. CASE PanicStep \/ CrashStep
    BY <1>0, <1>8 DEF PanicStep, CrashStep, RestartStep
  <1>9. CASE SyncStep
    BY <1>0, <1>9 DEF SyncStep
  <1>10. CASE PodStep
    BY <1>10 DEF PodStep
  <1>11. CASE EditStep
    BY <1>0, <1>11, HStreamDBTyped, ConstantsAssumption DEF EditStep
  <1>12. CASE DeleteStep
    BY <1>12 DEF DeleteStep
  <1> QED
    BY <1>1, <1>2, <1>4, <1>5, <1>6, <1>7, <1>8, <1>9, <1>10, <1>11, <1>12 DEF Step
-----------------------------------------------------------------------------
(* What the worker has passed in the chain fits the spec it works on; once *)
(* Ready is reported, everything fits the current spec.                    *)

Kept == Workloads \cup {"hserverSvc"}

(* Object o was made for child r of spec s, as far as Applied can tell. *)
Made(o, r, s) ==
  /\ o # None
  /\ r # "hserverSvc" =>
       s.comp[r] # None /\ o.replicas = s.comp[r].replicas /\ o.tmpl = s.comp[r].tmpl
  /\ r \in {"hserverSvc", "hserver", "gateway", "console"} => o.arg = s.port

(* Whether spec s asks for child r. *)
Asked(r, s) == r = "hserverSvc" \/ (s.comp[r] # None /\ ~(r = "hmeta" /\ s.ext))

Fits(o, r, s) == Asked(r, s) => Made(o, r, s)

(* The places in the chain. *)
Rank ==
  [idle |-> 0, logdeviceCM |-> 1, nshardsCM |-> 2, hmetaSvc |-> 3, adminSvc |-> 4,
   hstoreSvc |-> 5, hserverSvc |-> 6, hmeta |-> 7, hmetaStatus |-> 8, admin |-> 9,
   hstore |-> 10, bootHStore |-> 11, bootHStoreStatus |-> 12, hserver |-> 13,
   bootHServer |-> 14, bootHServerStatus |-> 15, gateway |-> 16, console |-> 17,
   status |-> 18]

Passed(r) == Rank[pc] > Rank[r]

FitInv ==
  cr # None =>
    /\ hdb # None => \A r \in Kept : Passed(r) => Fits(objs[r], r, hdb.spec)
    /\ AnnouncedNow => \A r \in Kept : Fits(objs[r], r, cr.spec)

(* What the worker reads of a child may be old, but does not mislead it:   *)
(* the child has the content it finds there and looks for, and the port it *)
(* finds for the gateway is that of the spec.                              *)
ReadsTell ==
  cr # None /\ hdb # None =>
    /\ \A r \in Kept : Get(r) # None /\ Fits(Get(r), r, hdb.spec) => Fits(objs[r], r, hdb.spec)
    /\ pc = "gateway" => Get("hserver") # None /\ Get("hserver").arg = hdb.spec.port

(* A step of the chain makes its child fit, or leaves it and ends; and it  *)
(* writes the child only if it has read the current version.               *)
FitStep(r) ==
  /\ (objs'[r] = objs[r] /\ pc' = "idle") \/ Fits(objs'[r], r, hdb.spec)
  /\ objs'[r] = objs[r] \/ (Get(r) = objs[r] /\ Made(objs'[r], r, hdb.spec))

(* A createOrUpdate of what the spec asks for is such a step. *)
LEMMA UpdateFits ==
  ASSUME TypeOK, ReadsTell, cr # None, hdb # None, NEW r \in Kept, NEW want,
         UpdateOutcome(r, want),
         \A o \in Object : SameContent(o, want) => Made(o, r, hdb.spec)
  PROVE  FitStep(r)
  <1>1. r \in Res
    BY DEF Kept, Res, Services
  <1>2. Get(r) \in Object \cup {None}
    BY <1>1, GetTyped
  <1> QED
    BY <1>2 DEF UpdateOutcome, FitStep, ReadsTell, Fits

(* Each step that makes a child of Kept, for a CR that exists. *)
LEMMA ChildrenFit ==
  ASSUME TypeOK, ReadsTell, cr # None, ~GetErrors
  PROVE  /\ AddHServerService => FitStep("hserverSvc")
         /\ AddHMeta => FitStep("hmeta")
         /\ AddAdminServer => FitStep("admin")
         /\ AddHStore => FitStep("hstore")
         /\ AddHServer => FitStep("hserver")
         /\ AddGateway => FitStep("gateway")
         /\ AddConsole => FitStep("console")
  <1> USE DEF Kept, Res, Workloads, Steps, Services
  <1>1. ASSUME AddHServerService PROVE FitStep("hserverSvc")
    <2>1. hdb \in HStreamDB /\ hdb # None /\ hdb.spec.port \in Nat
      BY <1>1, HStreamDBTyped, ConstantsAssumption DEF AddHServerService, TypeOK
    <2>2. UpdateOutcome("hserverSvc", Data(hdb.spec.port))
      BY <1>1, <2>1, DataTyped, CreateOrUpdateOutcome DEF AddHServerService
    <2>3. \A o \in Object : SameContent(o, Data(hdb.spec.port)) => Made(o, "hserverSvc", hdb.spec)
      BY ConstantsAssumption DEF SameContent, Data, Made
    <2> QED
      BY <2>1, <2>2, <2>3, UpdateFits
  <1>2. ASSUME NEW w \in Workloads, NEW arg \in Nat, NEW next \in Steps \ {"idle"}, pc # "idle",
               hdb.spec.comp[w] # None, w \in {"hserver", "gateway", "console"} => arg = hdb.spec.port,
               createOrUpdate(w, PodSet(hdb, w, arg), next)
        PROVE  FitStep(w)
    <2>1. hdb \in HStreamDB /\ hdb # None /\ hdb.spec.comp[w] \in Component
      BY <1>2, HStreamDBTyped, ConstantsAssumption DEF TypeOK
    <2>2. UpdateOutcome(w, PodSet(hdb, w, arg))
      BY <1>2, <2>1, PodSetTyped, CreateOrUpdateOutcome
    <2>3. \A o \in Object : SameContent(o, PodSet(hdb, w, arg)) => Made(o, w, hdb.spec)
      BY <1>2, ConstantsAssumption DEF SameContent, PodSet, Made
    <2> QED
      BY <2>1, <2>2, <2>3, UpdateFits
  <1>3. pc # "idle" => /\ hdb \in HStreamDB /\ hdb.spec.port \in Nat
                       /\ \A w \in {"hmeta", "admin", "hstore", "hserver"} : hdb.spec.comp[w] # None
    BY HStreamDBTyped, ConstantsAssumption DEF TypeOK
  <1>4. ASSUME NEW w \in Workloads, pc' # "idle", objs' = objs, hdb \in HStreamDB,
               hdb.spec.comp[w] = None \/ (w = "hmeta" /\ hdb.spec.ext)
        PROVE  FitStep(w)
    BY <1>4 DEF FitStep, Fits, Asked
  <1>5. ASSUME AddHMeta PROVE FitStep("hmeta")
    <2>1. CASE hdb.spec.ext /\ Skip("hmetaStatus")
      BY <1>3, <1>4, <1>5, <2>1 DEF AddHMeta, Skip, Continue
    <2>2. CASE createOrUpdate("hmeta", getHMetaSts(hdb), "hmetaStatus")
      BY <1>2, <1>3, <1>5, <2>2 DEF AddHMeta, getHMetaSts
    <2> QED
      BY <1>5, <2>1, <2>2 DEF AddHMeta
  <1>6. ASSUME AddAdminServer PROVE FitStep("admin")
    BY <1>2, <1>3, <1>6 DEF AddAdminServer, getAdminServerDeployment
  <1>7. ASSUME AddHStore PROVE FitStep("hstore")
    <2>1. PICK nShard \in getNShardFromExistingConfigMap(hdb) :
            createOrUpdate("hstore", PodSet(hdb, "hstore", nShard), "bootHStore")
      BY <1>7 DEF AddHStore, getHStoreSts
    <2>2. Get("nshardsCM") \in Object \cup {None} /\ hdb.spec.nshards \in Nat
      BY <1>3, <1>7, GetTyped, HStreamDBTyped DEF AddHStore, ConfigMaps
    <2>3. nShard \in Nat
      BY <2>2 DEF getNShardFromExistingConfigMap, Object
    <2> QED
      BY <1>2, <1>3, <1>7, <2>1, <2>3 DEF AddHStore
  <1>8. ASSUME AddHServer PROVE FitStep("hserver")
    BY <1>2, <1>3, <1>8 DEF AddHServer, getHServerSts
  <1>9. ASSUME AddGateway PROVE FitStep("gateway")
    <2>1. pc = "gateway" /\ hdb # None
      BY <1>3, <1>9, ConstantsAssumption DEF AddGateway
    <2>2. CASE hdb.spec.comp["gateway"] = None
      BY <1>3, <1>4, <1>9, <2>2 DEF AddGateway, Skip, Continue
    <2>3. CASE hdb.spec.comp["gateway"] # None /\ ~IsConditionTrue(hdb, "HServerReady")
      BY <1>9, <2>3 DEF AddGateway, Requeue, processRequeue, Finish, FitStep
    <2>4. CASE hdb.spec.comp["gateway"] # None /\ IsConditionTrue(hdb, "HServerReady")
      <3>1. findHServerPort = {hdb.spec.port}
        BY <2>1 DEF findHServerPort, ReadsTell
      <3>2. createOrUpdate("gateway", PodSet(hdb, "gateway", hdb.spec.port), "console")
        BY <1>9, <2>4, <3>1 DEF AddGateway, getGatewayDeployment
      <3> QED
        BY <1>2, <1>3, <2>1, <2>4, <3>2
    <2> QED
      BY <2>2, <2>3, <2>4
  <1>10. ASSUME AddConsole PROVE FitStep("console")
    <2>1. CASE hdb.spec.comp["console"] = None
      BY <1>3, <1>4, <1>10, <2>1 DEF AddConsole, Skip, Continue
    <2>2. CASE hdb.spec.comp["console"] # None
      BY <1>2, <1>3, <1>10, <2>2 DEF AddConsole, getConsoleDeployment
    <2> QED
      BY <2>1, <2>2
  <1> QED
    BY <1>1, <1>5, <1>6, <1>7, <1>8, <1>9, <1>10

(* A step of the chain that makes child r fit, or touches none of Kept,    *)
(* keeps FitInv: in the second part because a worker that runs after Ready *)
(* was reported works on the current spec.                                 *)
LEMMA ChildStepFits ==
  ASSUME TypeOK, GenInv, FitInv, cr # None, hdb # None, UNCHANGED cr,
         NEW r, r \in Kept => FitStep(r),
         \A x \in Kept \ {r} : objs'[x] = objs[x],
         hdb' = hdb \/ (pc' = "idle" /\ hdb' = None),
         pc' # "idle" => \A x \in Kept \ {r} : Rank[pc'] > Rank[x] => Rank[pc] > Rank[x]
  PROVE  FitInv'
  <1>1. AnnouncedNow => hdb.spec = cr.spec
    BY DEF GenInv, NotNewer
  <1>2. ASSUME NEW x \in Kept, Fits(objs[x], x, hdb.spec) PROVE Fits(objs'[x], x, hdb.spec)
    BY <1>2 DEF FitStep
  <1>3. ASSUME hdb' # None, NEW x \in Kept, Passed(x)' PROVE Fits(objs'[x], x, hdb.spec)
    <2>1. CASE pc' = "idle"
      <3>1. Rank[pc'] = 0 /\ Rank[x] \in Nat
        BY <2>1 DEF Rank, Kept, Workloads
      <3> QED
        BY <1>3, <3>1 DEF Passed
    <2>2. CASE pc' # "idle" /\ x = r
      BY <2>2 DEF FitStep
    <2>3. CASE pc' # "idle" /\ x # r
      BY <1>2, <1>3, <2>3 DEF FitInv, Passed
    <2> QED
      BY <2>1, <2>2, <2>3
  <1>4. ASSUME AnnouncedNow, NEW x \in Kept PROVE Fits(objs'[x], x, cr.spec)
    BY <1>1, <1>2, <1>4 DEF FitInv
  <1>5. AnnouncedNow' <=> AnnouncedNow
    BY DEF AnnouncedNow
  <1>6. hdb' # None => hdb' = hdb
    OBVIOUS
  <1> QED
    BY <1>3, <1>4, <1>5, <1>6 DEF FitInv

(* Every shape of step keeps FitInv, as long as reads do not mislead. *)
LEMMA StepFitInv ==
  ASSUME TypeOK, GenInv, FitInv, ReadsTell, Step, ~GetErrors
  PROVE  FitInv'
  <1> SUFFICES ASSUME cr' # None PROVE FitInv'
    BY DEF FitInv
  <1>0. pc # "idle" => hdb \in HStreamDB /\ hdb # None
    BY ConstantsAssumption DEF TypeOK
  <1>1. CASE Reconcile
    <2>1. UNCHANGED <<cr, objs>> /\ (hdb' = None \/ pc' = "logdeviceCM")
      BY <1>1 DEF Reconcile
    <2>2. pc' = "logdeviceCM" => \A x \in Kept : ~Passed(x)'
      BY DEF Passed, Rank, Kept, Workloads
    <2> QED
      BY <2>1, <2>2 DEF FitInv, AnnouncedNow
  <1>2. CASE BeforeFenceStep \/ AfterFenceStep
    <2>1. /\ cr # None /\ hdb # None /\ UNCHANGED cr
          /\ hdb' = hdb \/ (pc' = "idle" /\ hdb' = None)
          /\ \A x \in Kept \ {pc} : objs'[x] = objs[x]
      BY <1>0, <1>2 DEF BeforeFenceStep, AfterFenceStep, ChildStep, Kept, Res, Services
    <2>2. pc \in Kept => FitStep(pc)
      BY <1>2, <2>1, ChildrenFit DEF BeforeFenceStep, AfterFenceStep, ChildStep, Kept, Workloads
    <2>3. pc' # "idle" => \A x \in Kept \ {pc} : Rank[pc'] > Rank[x] => Rank[pc] > Rank[x]
      BY <1>2 DEF BeforeFenceStep, AfterFenceStep, ChildStep, Rank, Kept, Workloads
    <2> QED
      BY <2>1, <2>2, <2>3, ChildStepFits
  <1>3. ASSUME NEW step, NEW new, NEW next, StatusStep(step, new, next),
               <<step, next>> \in {<<"hmetaStatus", "admin">>, <<"bootHStoreStatus", "idle">>,
                                   <<"bootHServerStatus", "gateway">>, <<"status", "idle">>},
               \/ new.conds["Ready"] = hdb.conds["Ready"]
               \/ step = "status" /\ new.conds["Ready"].og = hdb.gen
        PROVE  FitInv'
    <2>1. /\ hdb # None /\ new # None /\ objs' = objs /\ pc = step
          /\ new.gen = hdb.gen /\ new.spec = hdb.spec
      BY <1>0, <1>3, ConstantsAssumption DEF StatusStep
    <2>2. CASE cr' = cr /\ hdb' = None
      BY <2>1, <2>2 DEF FitInv, AnnouncedNow
    <2>3. CASE cr = hdb /\ cr' = new
      <3>1. AnnouncedNow' => \A r \in Kept : Fits(objs[r], r, hdb.spec)
        <4>1. CASE new.conds["Ready"] = hdb.conds["Ready"]
          BY <2>1, <2>3, <4>1 DEF FitInv, AnnouncedNow
        <4>2. CASE step = "status"
          <5>1. \A r \in Kept : Passed(r)
            BY <2>1, <4>2 DEF Passed, Rank, Kept, Workloads
          <5> QED
            BY <2>1, <2>3, <5>1 DEF FitInv
        <4> QED
          BY <1>3, <4>1, <4>2
      <3>2. hdb' # None => hdb' = new /\ pc' = next /\ next # "idle"
        BY <1>3, <2>1 DEF StatusStep, Ends
      <3>3. hdb' # None => \A r \in Kept : Passed(r)' => Passed(r)
        BY <1>3, <2>1, <3>2 DEF Passed, Rank, Kept, Workloads
      <3> QED
        BY <2>1, <2>3, <3>1, <3>2, <3>3 DEF FitInv
    <2> QED
      BY <1>3, <2>2, <2>3 DEF StatusStep, Ends
  <1>4. CASE FenceStep
    BY <1>3, <1>4 DEF FenceStep, CondTypes
  <1>5. CASE StoreReadyStep \/ ServerReadyStep
    <2>1. hdb \in HStreamDB
      BY <1>5 DEF StoreReadyStep, ServerReadyStep, StatusStep, TypeOK
    <2>2. \A t \in {"HStoreReady", "HServerReady"} :
            SetCondition(hdb, t, "True").conds["Ready"] = hdb.conds["Ready"]
      BY <2>1 DEF SetCondition, HStreamDB, CondTypes
    <2> QED
      BY <1>3, <1>5, <2>2 DEF StoreReadyStep, ServerReadyStep
  <1>6. CASE ReadyStep
    BY <1>3, <1>6 DEF ReadyStep, ReadyStatus
  <1>7. CASE StoreEffectStep \/ ServerEffectStep
    <2>1. /\ UNCHANGED <<cr, objs>>
          /\ \/ hdb' = None
             \/ /\ hdb' = hdb
                /\ <<pc, pc'>> \in {<<"bootHStore", "bootHStoreStatus">>,
                                   <<"bootHServer", "bootHServerStatus">>}
      BY <1>7 DEF StoreEffectStep, ServerEffectStep, EffectStep, Ends
    <2>2. hdb' # None => \A r \in Kept : Passed(r)' => Passed(r)
      BY <2>1 DEF Passed, Rank, Kept, Workloads
    <2> QED
      BY <2>1, <2>2 DEF FitInv, AnnouncedNow
  <1>8. CASE PanicStep \/ CrashStep
    BY <1>8 DEF PanicStep, CrashStep, RestartStep, FitInv, AnnouncedNow
  <1>9. CASE SyncStep
    BY <1>9 DEF SyncStep, FitInv, AnnouncedNow, Passed
  <1>10. CASE PodStep
    <2>1. ASSUME NEW r \in Kept, NEW s, Fits(objs[r], r, s) PROVE Fits(objs'[r], r, s)
      BY <1>10, <2>1 DEF PodStep, SameContent, Fits, Made, Kept, Res, Services
    <2>2. UNCHANGED <<cr, pc, hdb>>
      BY <1>10 DEF PodStep
    <2> QED
      BY <2>1, <2>2 DEF FitInv, AnnouncedNow, Passed
  <1>11. CASE EditStep
    <2>1. cr # None /\ UNCHANGED <<objs, pc, hdb>> /\ ~AnnouncedNow'
      BY <1>11, HStreamDBTyped, ConstantsAssumption DEF EditStep, GenInv, AnnouncedNow, Condition, CondTypes
    <2> QED
      BY <2>1 DEF FitInv, Passed
  <1>12. CASE DeleteStep
    BY <1>12 DEF DeleteStep
  <1> QED
    BY <1>1, <1>2, <1>4, <1>5, <1>6, <1>7, <1>8, <1>9, <1>10, <1>11, <1>12 DEF Step
-----------------------------------------------------------------------------
(* When reads of a late cache do not mislead.  An edit that is taken back  *)
(* misleads the worker: a cache that still shows the child as it was       *)
(* before the edit looks as if nothing had to be done.  So for a child     *)
(* read from a late cache there may be only one edit, or edits of other    *)
(* children; and the gateway gets the port of the servers from their       *)
(* StatefulSet, so if that is read late the port may not be edited.        *)

Late(r) == Kind(r) \in Lagging

SameDemand(r, s, t) ==
  /\ r # "hserverSvc" => s.comp[r] = t.comp[r]
  /\ r \in {"hserverSvc", "hserver", "gateway", "console"} => s.port = t.port

NoReverts ==
  /\ \A r \in Kept : Late(r) /\ MaxGen > 2 => \A s, t \in Specs : SameDemand(r, s, t)
  /\ Late("hserver") => \A s, t \in Specs : s.port = t.port

(* The worker has moved on to the second, and last, generation. *)
Second == MaxGen <= 2 /\ crSeen # None /\ crSeen.gen > 1 /\ (hdb # None => hdb.gen > 1)

(* The history of a child, for the spec first that was applied first.      *)
History(r, first) ==
  /\ Get(r) # None => objs[r] # None
  /\ Late(r) /\ objs[r] # None =>
       \/ Made(objs[r], r, first) /\ (Get(r) # None => Made(Get(r), r, first))
       \/ Second /\ Made(objs[r], r, cr.spec)

LateInv(first) ==
  cr # None =>
    /\ \A h \in {cr, crSeen, hdb} : h # None => h.gen >= 1 /\ (h.gen = 1 => h.spec = first)
    /\ cr.gen <= MaxGen
    /\ \A r \in Kept : History(r, first)
    /\ Late("hserver") =>
         \A o \in {Get("hserver"), objs["hserver"]} : o # None => o.arg = first.port

(* Behind the condition HServerReady is a StatefulSet that the worker has  *)
(* seen: it does not take the default port for the gateway.                *)
ServerSeen ==
  cr # None =>
    /\ \A h \in {cr, crSeen, hdb} :
         h # None /\ IsConditionTrue(h, "HServerReady") => Get("hserver") # None
    /\ pc \in {"bootHServerStatus", "gateway"} => Get("hserver") # None

(* These invariants are enough for the worker not to be misled. *)
LEMMA HistoryTells ==
  ASSUME TypeOK, KnownInv, GenInv, FitInv, ServerSeen, NoReverts,
         NEW first \in Specs, LateInv(first)
  PROVE  ReadsTell
  <1> SUFFICES ASSUME cr # None, hdb # None PROVE ReadsTell
    BY DEF ReadsTell
  <1>0. /\ cr.gen \in Nat /\ hdb.gen \in Nat /\ (crSeen # None => crSeen.gen \in Nat)
        /\ MaxGen \in Nat
        /\ hdb \in HStreamDB /\ hdb.spec.comp["hserver"] # None /\ hdb.spec \in Specs
    BY HStreamDBTyped, ConstantsAssumption DEF TypeOK, KnownInv
  <1>1. ASSUME NEW r \in Kept, Get(r) # None, Fits(Get(r), r, hdb.spec)
        PROVE  Fits(objs[r], r, hdb.spec)
    <2>1. CASE ~Late(r)
      BY <1>1, <2>1 DEF Late, Get
    <2>2. CASE Made(objs[r], r, first) /\ Made(Get(r), r, first)
      BY <1>1, <2>2 DEF Fits, Made
    <2>3. CASE Second /\ Made(objs[r], r, cr.spec)
      <3>1. hdb.gen = cr.gen
        BY <1>0, <2>3 DEF Second, LateInv, GenInv, NotNewer
      <3>2. hdb.spec = cr.spec
        BY <3>1 DEF GenInv, NotNewer
      <3> QED
        BY <2>3, <3>2 DEF Fits
    <2> QED
      BY <1>1, <2>1, <2>2, <2>3 DEF LateInv, History
  <1>2. ASSUME pc = "gateway"
        PROVE  Get("hserver") # None /\ Get("hserver").arg = hdb.spec.port
    <2>1. Get("hserver") # None
      BY <1>2 DEF ServerSeen
    <2>2. CASE Late("hserver")
      BY <1>0, <2>1, <2>2 DEF LateInv, NoReverts
    <2>3. CASE ~Late("hserver")
      <3>1. "hserver" \in Kept /\ Passed("hserver")
        BY <1>2 DEF Kept, Workloads, Passed, Rank
      <3>2. Fits(objs["hserver"], "hserver", hdb.spec)
        BY <3>1 DEF FitInv
      <3> QED
        BY <1>0, <2>1, <2>3, <3>2 DEF Fits, Asked, Made, Late, Get
    <2> QED
      BY <2>1, <2>2, <2>3
  <1> QED
    BY <1>1, <1>2 DEF ReadsTell

(* As long as the CR exists, what the worker reads of a child follows the  *)
(* child: a step keeps both, brings the read up to date, or writes.        *)
ReadStep(r) ==
  \/ objs'[r] = objs[r] /\ (Get(r)' = Get(r) \/ Get(r)' = objs[r])
  \/ /\ Get(r) = objs[r] /\ Made(objs'[r], r, hdb.spec) /\ hdb # None
     /\ hdb' \in {hdb, None} /\ UNCHANGED <<cr, crSeen>>
     /\ Get(r)' = IF Late(r) THEN Get(r) ELSE objs'[r]
  \/ /\ objs[r] # None /\ objs'[r] # None /\ SameContent(objs[r], objs'[r])
     /\ Get(r)' = IF Late(r) THEN Get(r) ELSE objs'[r]
     /\ UNCHANGED <<cr, crSeen, hdb>>

(* Every shape of step that leaves a CR is such a step. *)
LEMMA StepReads ==
  ASSUME TypeOK, ReadsTell, Step, ~GetErrors, cr # None, cr' # None, NEW r \in Kept
  PROVE  ReadStep(r)
  <1> USE DEF ReadStep
  <1>0. r \in Res
    BY DEF Kept, Res, Services
  <1>1. CASE UNCHANGED <<objs, seen>>
    BY <1>1 DEF Get
  <1>2. CASE BeforeFenceStep \/ AfterFenceStep
    <2>1. /\ UNCHANGED <<cr, crSeen, seen>> /\ hdb' \in {hdb, None} /\ hdb # None
          /\ pc # r => objs'[r] = objs[r]
      BY <1>0, <1>2, ConstantsAssumption DEF BeforeFenceStep, AfterFenceStep, ChildStep, TypeOK
    <2>2. pc = r => FitStep(r)
      BY <1>2, ChildrenFit DEF BeforeFenceStep, AfterFenceStep, ChildStep, Kept, Workloads
    <2> QED
      BY <2>1, <2>2 DEF FitStep, Get, Late
  <1>3. CASE SyncStep \/ PanicStep \/ CrashStep
    BY <1>0, <1>3 DEF SyncStep, PanicStep, CrashStep, RestartStep, Get
  <1>4. CASE PodStep
    <2>1. CASE objs[r] = None
      BY <1>0, <1>4, <2>1 DEF PodStep, Get
    <2>2. CASE objs[r] # None
      BY <1>0, <1>4, <2>2 DEF PodStep, Get, Late
    <2> QED
      BY <2>1, <2>2
  <1>5. CASE DeleteStep
    BY <1>5 DEF DeleteStep
  <1>6. CASE \/ Reconcile \/ FenceStep \/ StoreReadyStep \/ ServerReadyStep \/ ReadyStep
             \/ StoreEffectStep \/ ServerEffectStep \/ EditStep
    BY <1>1, <1>6
    DEF Reconcile, FenceStep, StoreReadyStep, ServerReadyStep, ReadyStep, StatusStep,
        StoreEffectStep, ServerEffectStep, EffectStep, EditStep, caches
  <1> QED
    BY <1>2, <1>3, <1>4, <1>5, <1>6 DEF Step

(* Where the copies of the CR go.  (The cached copy follows the CR, the    *)
(* worker's copy is read from the cache, dropped, or kept; an edit leaves  *)
(* both.)                                                                  *)
CopyStep ==
  \/ UNCHANGED <<cr, crSeen>> /\ hdb' \in {hdb, crSeen, None}
  \/ UNCHANGED <<cr, hdb>> /\ crSeen' = cr
  \/ UNCHANGED cr /\ hdb' = None /\ crSeen' = cr
  \/ /\ crSeen' = crSeen /\ cr = hdb /\ hdb' \in {cr', None}
     /\ cr'.gen = cr.gen /\ cr'.spec = cr.spec
  \/ UNCHANGED <<crSeen, hdb>> /\ cr'.gen = cr.gen + 1 /\ cr'.spec \in Specs /\ cr.gen < MaxGen

(* Every shape of step that leaves a CR is such a step. *)
LEMMA StepCopies ==
  ASSUME TypeOK, Step, cr # None, cr' # None
  PROVE  CopyStep
  <1> USE DEF CopyStep
  <1>1. CASE Reconcile
    BY <1>1 DEF Reconcile, caches
  <1>2. CASE BeforeFenceStep \/ AfterFenceStep
    BY <1>2 DEF BeforeFenceStep, AfterFenceStep, ChildStep
  <1>3. ASSUME NEW step, NEW new, NEW next, StatusStep(step, new, next) PROVE CopyStep
    BY <1>3 DEF StatusStep, Ends
  <1>4. CASE FenceStep \/ StoreReadyStep \/ ServerReadyStep \/ ReadyStep
    BY <1>3, <1>4 DEF FenceStep, StoreReadyStep, ServerReadyStep, ReadyStep
  <1>5. CASE StoreEffectStep \/ ServerEffectStep
    BY <1>5 DEF StoreEffectStep, ServerEffectStep, EffectStep, Ends
  <1>6. CASE PanicStep \/ CrashStep \/ SyncStep
    BY <1>6 DEF PanicStep, CrashStep, RestartStep, SyncStep
  <1>7. CASE PodStep \/ EditStep \/ DeleteStep
    BY <1>7 DEF PodStep, EditStep, DeleteStep
  <1> QED
    BY <1>1, <1>2, <1>4, <1>5, <1>6, <1>7 DEF Step

(* A deleted CR stays deleted. *)
LEMMA StaysDeleted ==
  ASSUME TypeOK, Step, cr' # None
  PROVE  cr # None
  <1> SUFFICES ASSUME cr = None PROVE cr' = None
    OBVIOUS
  <1>1. ASSUME NEW step, NEW new, NEW next, StatusStep(step, new, next), step # "idle"
        PROVE  cr' = None
    BY <1>1, ConstantsAssumption DEF StatusStep, TypeOK
  <1>2. CASE FenceStep \/ StoreReadyStep \/ ServerReadyStep \/ ReadyStep
    BY <1>1, <1>2 DEF FenceStep, StoreReadyStep, ServerReadyStep, ReadyStep
  <1>3. CASE Reconcile \/ BeforeFenceStep \/ AfterFenceStep
    BY <1>3 DEF Reconcile, BeforeFenceStep, AfterFenceStep, ChildStep
  <1>4. CASE StoreEffectStep \/ ServerEffectStep \/ PanicStep \/ CrashStep
    BY <1>4 DEF StoreEffectStep, ServerEffectStep, EffectStep, PanicStep, CrashStep, RestartStep
  <1>5. CASE SyncStep \/ PodStep \/ EditStep \/ DeleteStep
    BY <1>5, ConstantsAssumption DEF SyncStep, PodStep, EditStep, DeleteStep
  <1> QED
    BY <1>2, <1>3, <1>4, <1>5 DEF Step

(* Every shape of step keeps the histories. *)
LEMMA StepLateInv ==
  ASSUME TypeOK, KnownInv, GenInv, ReadsTell, Step, ~GetErrors, NoReverts,
         NEW first \in Specs, LateInv(first)
  PROVE  LateInv(first)'
  <1> SUFFICES ASSUME cr # None, cr' # None PROVE LateInv(first)'
    BY StaysDeleted DEF LateInv
  <1>0. /\ cr.gen \in Nat /\ MaxGen \in Nat
        /\ crSeen # None => crSeen.gen \in Nat
        /\ hdb # None => hdb.gen \in Nat
    BY HStreamDBTyped, ConstantsAssumption DEF TypeOK
  <1>1. CopyStep
    BY StepCopies
  <1>2. \A h \in {cr', crSeen', hdb'} : h # None => h.gen >= 1 /\ (h.gen = 1 => h.spec = first)
    BY <1>0, <1>1 DEF CopyStep, LateInv
  <1>3. cr'.gen <= MaxGen
    BY <1>0, <1>1 DEF CopyStep, LateInv
  <1>4. Second => Second' /\ cr'.spec = cr.spec
    BY <1>0, <1>1 DEF CopyStep, LateInv, Second, GenInv, NotNewer
  <1>5. ASSUME NEW r \in Kept PROVE History(r, first)'
    <2>1. ReadStep(r)
      BY StepReads
    <2>2. History(r, first)
      BY DEF LateInv
    <2>3. CASE objs'[r] = objs[r] /\ (Get(r)' = Get(r) \/ Get(r)' = objs[r])
      BY <1>4, <2>2, <2>3 DEF History, Late
    <2>4. CASE /\ Get(r) = objs[r] /\ Made(objs'[r], r, hdb.spec) /\ hdb # None
               /\ hdb' \in {hdb, None} /\ UNCHANGED <<cr, crSeen>>
               /\ Get(r)' = IF Late(r) THEN Get(r) ELSE objs'[r]
      <3>1. objs'[r] # None
        BY <2>4 DEF Made
      <3>2. CASE ~Late(r)
        BY <2>4, <3>1, <3>2 DEF History, Late
      <3>3. CASE Late(r) /\ MaxGen > 2
        <4>1. SameDemand(r, hdb.spec, first)
          BY <2>4, <3>3 DEF NoReverts, KnownInv
        <4>2. Made(objs'[r], r, first)
          BY <2>4, <4>1 DEF Made, SameDemand
        <4> QED
          BY <1>0, <2>2, <2>4, <3>1, <3>3, <4>2 DEF History, Late, Second
      <3>4. CASE Late(r) /\ MaxGen <= 2 /\ hdb.gen = 1
        <4>1. hdb.spec = first /\ ~Second
          BY <2>4, <3>4 DEF LateInv, Second
        <4> QED
          BY <2>2, <2>4, <3>1, <3>4, <4>1 DEF History, Late
      <3>5. CASE Late(r) /\ MaxGen <= 2 /\ hdb.gen # 1
        <4>1. Second /\ hdb.gen = cr.gen
          BY <1>0, <2>4, <3>5 DEF LateInv, Second, GenInv, NotNewer
        <4>2. hdb.spec = cr.spec
          BY <2>4, <4>1 DEF GenInv, NotNewer
        <4> QED
          BY <1>4, <2>4, <3>1, <4>1, <4>2 DEF History
      <3> QED
        BY <1>0, <3>2, <3>3, <3>4, <3>5
    <2>5. CASE /\ objs[r] # None /\ objs'[r] # None /\ SameContent(objs[r], objs'[r])
               /\ Get(r)' = IF Late(r) THEN Get(r) ELSE objs'[r]
      <3>1. \A s : Made(objs[r], r, s) => Made(objs'[r], r, s)
        BY <2>5 DEF Made, SameContent
      <3> QED
        BY <1>4, <2>2, <2>5, <3>1 DEF History, Late
    <2> QED
      BY <2>1, <2>3, <2>4, <2>5 DEF ReadStep
  <1>6. ASSUME Late("hserver")
        PROVE  \A o \in {Get("hserver")', objs'["hserver"]} : o # None => o.arg = first.port
    <2>1. ReadStep("hserver") /\ "hserver" \in Kept
      BY StepReads DEF Kept, Workloads
    <2>2. \A o \in {Get("hserver"), objs["hserver"]} : o # None => o.arg = first.port
      BY <1>6 DEF LateInv
    <2>3. hdb # None /\ Made(objs'["hserver"], "hserver", hdb.spec) => objs'["hserver"].arg = first.port
      BY <1>6 DEF NoReverts, KnownInv, Made
    <2> QED
      BY <1>6, <2>1, <2>2, <2>3 DEF ReadStep, SameContent
  <1> QED
    BY <1>2, <1>3, <1>5, <1>6 DEF LateInv, Late

(* Every shape of step keeps ServerSeen. *)
LEMMA StepServerSeen ==
  ASSUME TypeOK, ReadsTell, Step, ~GetErrors, ServerSeen,
         Get("hserver") # None => objs["hserver"] # None
  PROVE  ServerSeen'
  <1> SUFFICES ASSUME cr # None, cr' # None PROVE ServerSeen'
    BY StaysDeleted DEF ServerSeen
  <1>0. "hserver" \in Kept
    BY DEF Kept, Workloads
  <1>1. Get("hserver") # None => Get("hserver")' # None
    BY <1>0, StepReads DEF ReadStep, Made
  <1>2. ASSUME \A h \in {cr', crSeen', hdb'} : h # None /\ IsConditionTrue(h, "HServerReady") =>
                 \/ pc = "bootHServerStatus"
                 \/ \E g \in {cr, crSeen, hdb} : g # None /\ IsConditionTrue(g, "HServerReady"),
               pc' \in {"bootHServerStatus", "gateway"} =>
                 \/ Get("hserver") # None
                 \/ hdb # None /\ IsConditionTrue(hdb, "HServerReady")
        PROVE  ServerSeen'
    BY <1>1, <1>2 DEF ServerSeen, IsConditionTrue
  <1>3. CASE Reconcile
    BY <1>2, <1>3 DEF Reconcile, caches
  <1>4. CASE BeforeFenceStep \/ AfterFenceStep
    <2>1. /\ UNCHANGED <<cr, crSeen>> /\ hdb' \in {hdb, None} /\ hdb # None
          /\ pc' \in {"bootHServerStatus", "gateway"} => IsConditionTrue(hdb, "HServerReady")
      BY <1>4, ConstantsAssumption DEF BeforeFenceStep, AfterFenceStep, ChildStep, TypeOK
    <2> QED
      BY <1>2, <2>1
  <1>5. ASSUME NEW step, NEW new, NEW next, StatusStep(step, new, next), step # "idle",
               \/ step = "bootHServerStatus"
               \/ /\ new.conds["HServerReady"] = hdb.conds["HServerReady"]
                  /\ next \notin {"bootHServerStatus", "gateway"}
        PROVE  ServerSeen'
    <2>1. hdb # None /\ crSeen' = crSeen /\ pc = step
      BY <1>5, ConstantsAssumption DEF StatusStep, TypeOK
    <2>2. /\ cr' = cr \/ (cr = hdb /\ cr' = new)
          /\ hdb' = None \/ (cr = hdb /\ hdb' = new)
          /\ pc' \in {"idle", next}
      BY <1>5 DEF StatusStep, Ends
    <2>3. step = "bootHServerStatus" => Get("hserver") # None
      BY <2>1 DEF ServerSeen
    <2> QED
      BY <1>2, <1>5, <2>1, <2>2, <2>3 DEF IsConditionTrue
  <1>6. CASE FenceStep
    BY <1>5, <1>6 DEF FenceStep, CondTypes
  <1>7. CASE StoreReadyStep
    <2>1. hdb \in HStreamDB
      BY <1>7 DEF StoreReadyStep, StatusStep, TypeOK
    <2>2. SetCondition(hdb, "HStoreReady", "True").conds["HServerReady"] = hdb.conds["HServerReady"]
      BY <2>1 DEF SetCondition, HStreamDB, CondTypes
    <2> QED
      BY <1>5, <1>7, <2>2 DEF StoreReadyStep
  <1>8. CASE ServerReadyStep
    BY <1>5, <1>8 DEF ServerReadyStep
  <1>9. CASE ReadyStep
    BY <1>5, <1>9 DEF ReadyStep, ReadyStatus
  <1>10. CASE StoreEffectStep
    BY <1>2, <1>10 DEF StoreEffectStep, EffectStep, Ends
  <1>11. CASE ServerEffectStep
    BY <1>2, <1>11 DEF ServerEffectStep, EffectStep, Ends, checkPodRunningStatus
  <1>12. CASE PanicStep \/ CrashStep
    BY <1>2, <1>12 DEF PanicStep, CrashStep, RestartStep
  <1>13. CASE SyncStep
    BY <1>2, <1>13, ConstantsAssumption DEF SyncStep, ServerSeen
  <1>14. CASE PodStep
    BY <1>2, <1>14 DEF PodStep, ServerSeen
  <1>15. CASE EditStep
    BY <1>2, <1>15 DEF EditStep, ServerSeen, IsConditionTrue
  <1>16. CASE DeleteStep
    BY <1>16 DEF DeleteStep
  <1> QED
    BY <1>3, <1>4, <1>6, <1>7, <1>8, <1>9, <1>10, <1>11, <1>12, <1>13, <1>14, <1>15, <1>16
    DEF Step

-----------------------------------------------------------------------------
(* The number of shards without any assumption on specs.  The pass that    *)
(* creates the ConfigMap may still not find it in the cache and create the *)
(* store with the spec's own number, zero if there is none; but it cannot  *)
(* get past the bootstrap, since HStoreReady is not yet set, and a later   *)
(* pass gets to the store only if it reads the ConfigMap.                  *)

StoreSettled ==
  /\ objs["hstore"] # None /\ objs["nshardsCM"] # None
  /\ objs["hstore"].arg = objs["nshardsCM"].arg

(* The worker has left the store behind, or has reported Ready. *)
PastStore ==
  \/ pc = "bootHStore" /\ IsConditionTrue(hdb, "HStoreReady")
  \/ pc \in AfterStore
  \/ IsConditionTrue(cr, "Ready")

StoreInv ==
  cr # None =>
    /\ Get("nshardsCM") \in {None, objs["nshardsCM"]}
    /\ objs["nshardsCM"] = None =>
         /\ objs["hstore"] = None
         /\ pc \notin AfterShards \cup {"bootHStore", "bootHStoreStatus"}
         /\ \A h \in {cr, crSeen, hdb} : h # None => ~IsConditionTrue(h, "HStoreReady")
    /\ pc \in AfterShards /\ Get("nshardsCM") = None =>
         objs["hstore"] = None /\ ~IsConditionTrue(hdb, "HStoreReady")
    /\ Get("hstore") # None =>
         /\ objs["hstore"] # None
         /\ Get("hstore").arg = objs["nshardsCM"].arg => StoreSettled
    /\ PastStore => StoreSettled

(* What a step that writes neither the ConfigMap nor the store does to     *)
(* them and to what is read of them.                                       *)
StoreFrame ==
  /\ objs'["nshardsCM"] = objs["nshardsCM"]
  /\ objs'["hstore"] # None <=> objs["hstore"] # None
  /\ objs["hstore"] # None => objs'["hstore"].arg = objs["hstore"].arg
  /\ Get("nshardsCM")' \in {Get("nshardsCM"), objs["nshardsCM"]}
  /\ Get("hstore")' # None =>
       \E o \in {Get("hstore"), objs["hstore"]} : o # None /\ Get("hstore")'.arg = o.arg

(* Every step but those of the two sub-reconcilers has that frame. *)
LEMMA StepStoreFrame ==
  ASSUME TypeOK, Step, cr # None, cr' # None, ~NShardsConfig, ~AddHStore
  PROVE  StoreFrame
  <1> USE DEF StoreFrame, Res, Workloads, ConfigMaps
  <1>1. CASE /\ UNCHANGED seen
             /\ objs'["nshardsCM"] = objs["nshardsCM"]
             /\ objs'["hstore"] = objs["hstore"]
    BY <1>1 DEF Get
  <1>2. CASE BeforeFenceStep \/ AfterFenceStep
    BY <1>1, <1>2 DEF BeforeFenceStep, AfterFenceStep, ChildStep
  <1>3. CASE SyncStep \/ PanicStep \/ CrashStep
    BY <1>3 DEF SyncStep, PanicStep, CrashStep, RestartStep, Get
  <1>4. CASE PodStep
    <2>1. /\ UNCHANGED seen /\ objs'["nshardsCM"] = objs["nshardsCM"]
          /\ objs'["hstore"] # None <=> objs["hstore"] # None
          /\ objs["hstore"] # None => objs'["hstore"].arg = objs["hstore"].arg
      BY <1>4 DEF PodStep, SameContent
    <2> QED
      BY <2>1 DEF Get
  <1>5. CASE DeleteStep
    BY <1>5 DEF DeleteStep
  <1>6. CASE \/ Reconcile \/ FenceStep \/ StoreReadyStep \/ ServerReadyStep \/ ReadyStep
             \/ StoreEffectStep \/ ServerEffectStep \/ EditStep
    BY <1>1, <1>6
    DEF Reconcile, FenceStep, StoreReadyStep, ServerReadyStep, ReadyStep, StatusStep,
        StoreEffectStep, ServerEffectStep, EffectStep, EditStep, caches
  <1> QED
    BY <1>2, <1>3, <1>4, <1>5, <1>6 DEF Step

(* Where the worker may be after a step, and which copies of the CR may    *)
(* have the conditions, as far as StoreInv tells them apart.               *)
StoreMove ==
  /\ \A h \in {cr', crSeen', hdb'} : h # None /\ IsConditionTrue(h, "HStoreReady") =>
       \/ pc = "bootHStoreStatus"
       \/ \E g \in {cr, crSeen, hdb} : g # None /\ IsConditionTrue(g, "HStoreReady")
  /\ pc' \in AfterShards =>
       /\ pc \in AfterShards
       /\ IsConditionTrue(hdb', "HStoreReady") => IsConditionTrue(hdb, "HStoreReady")
  /\ pc' \in {"bootHStore", "bootHStoreStatus"} => pc \in {"bootHStore", "bootHStoreStatus"}
  /\ PastStore' => PastStore

(* Every step but those of the two sub-reconcilers moves like that. *)
LEMMA StepStoreMove ==
  ASSUME TypeOK, Step, cr # None, cr' # None, ~NShardsConfig, ~AddHStore
  PROVE  StoreMove
  <1> USE DEF StoreMove, PastStore, AfterShards, AfterStore
  <1>1. CASE Reconcile
    BY <1>1 DEF Reconcile, caches
  <1>2. CASE BeforeFenceStep \/ AfterFenceStep
    <2>1. /\ UNCHANGED <<cr, crSeen>> /\ hdb # None
          /\ hdb' = hdb \/ (hdb' = None /\ pc' = "idle")
      BY <1>2, ConstantsAssumption DEF BeforeFenceStep, AfterFenceStep, ChildStep, TypeOK
    <2>2. /\ pc' \in AfterShards => pc \in AfterShards
          /\ pc' \notin {"bootHStore", "bootHStoreStatus"}
          /\ pc' \in AfterStore => PastStore
      BY <1>2 DEF BeforeFenceStep, AfterFenceStep, ChildStep
    <2> QED
      BY <2>1, <2>2
  <1>3. ASSUME NEW step, NEW new, NEW next, StatusStep(step, new, next), step # "idle",
               \/ step = "bootHStoreStatus"
               \/ new.conds["HStoreReady"] = hdb.conds["HStoreReady"],
               step \in AfterStore \/ new.conds["Ready"] = hdb.conds["Ready"],
               <<step, next>> \in {<<"hmetaStatus", "admin">>, <<"bootHStoreStatus", "idle">>,
                                   <<"bootHServerStatus", "gateway">>, <<"status", "idle">>}
        PROVE  StoreMove
    <2>1. hdb # None /\ crSeen' = crSeen /\ pc = step
      BY <1>3, ConstantsAssumption DEF StatusStep, TypeOK
    <2>2. /\ cr' = cr \/ (cr = hdb /\ cr' = new)
          /\ (hdb' = None /\ pc' = "idle") \/ (cr = hdb /\ hdb' = new /\ pc' = next /\ next # "idle")
      BY <1>3 DEF StatusStep, Ends
    <2>3. \A h \in {cr', crSeen', hdb'} : h # None /\ IsConditionTrue(h, "HStoreReady") =>
            \/ pc = "bootHStoreStatus"
            \/ \E g \in {cr, crSeen, hdb} : g # None /\ IsConditionTrue(g, "HStoreReady")
      BY <1>3, <2>1, <2>2 DEF IsConditionTrue
    <2>4. pc' \in AfterShards =>
            /\ pc \in AfterShards
            /\ IsConditionTrue(hdb', "HStoreReady") => IsConditionTrue(hdb, "HStoreReady")
      BY <1>3, <2>1, <2>2 DEF IsConditionTrue
    <2>5. pc' \notin {"bootHStore", "bootHStoreStatus"}
      BY <1>3, <2>1, <2>2
    <2>6. PastStore' => PastStore
      BY <1>3, <2>1, <2>2 DEF IsConditionTrue
    <2> QED
      BY <2>3, <2>4, <2>5, <2>6
  <1>4. CASE FenceStep
    BY <1>3, <1>4 DEF FenceStep, CondTypes
  <1>5. CASE StoreReadyStep \/ ServerReadyStep
    <2>1. hdb \in HStreamDB
      BY <1>5 DEF StoreReadyStep, ServerReadyStep, StatusStep, TypeOK
    <2>2. /\ SetCondition(hdb, "HServerReady", "True").conds["HStoreReady"] = hdb.conds["HStoreReady"]
          /\ \A t \in {"HStoreReady", "HServerReady"} :
               SetCondition(hdb, t, "True").conds["Ready"] = hdb.conds["Ready"]
      BY <2>1 DEF SetCondition, HStreamDB, CondTypes
    <2> QED
      BY <1>3, <1>5, <2>2 DEF StoreReadyStep, ServerReadyStep
  <1>6. CASE ReadyStep
    BY <1>3, <1>6 DEF ReadyStep, ReadyStatus
  <1>7. CASE StoreEffectStep \/ ServerEffectStep
    BY <1>7 DEF StoreEffectStep, ServerEffectStep, EffectStep, Ends
  <1>8. CASE PanicStep \/ CrashStep
    BY <1>8 DEF PanicStep, CrashStep, RestartStep
  <1>9. CASE SyncStep
    BY <1>9, ConstantsAssumption DEF SyncStep
  <1>10. CASE PodStep
    BY <1>10 DEF PodStep
  <1>11. CASE EditStep
    BY <1>11 DEF EditStep, IsConditionTrue
  <1>12. CASE DeleteStep
    BY <1>12 DEF DeleteStep
  <1> QED
    BY <1>1, <1>2, <1>4, <1>5, <1>6, <1>7, <1>8, <1>9, <1>10, <1>11, <1>12 DEF Step

(* Every shape of step keeps StoreInv. *)
LEMMA StepStoreInv ==
  ASSUME TypeOK, StoreInv, Step, ~GetErrors
  PROVE  StoreInv'
  <1> SUFFICES ASSUME cr # None, cr' # None PROVE StoreInv'
    BY StaysDeleted DEF StoreInv
  <1> USE DEF Res, Workloads, ConfigMaps
  <1>0. Kind("nshardsCM") = "ConfigMap"
    BY DEF Kind, Services
  <1>1. CASE ~NShardsConfig /\ ~AddHStore
    <2>1. StoreFrame /\ StoreMove
      BY <1>1, StepStoreFrame, StepStoreMove
    <2>2. StoreSettled => StoreSettled'
      BY <2>1 DEF StoreFrame, StoreSettled
    <2>3. Get("nshardsCM")' \in {None, objs'["nshardsCM"]}
      BY <2>1 DEF StoreFrame, StoreInv
    <2>4. objs'["nshardsCM"] = None =>
            /\ objs'["hstore"] = None
            /\ pc' \notin AfterShards \cup {"bootHStore", "bootHStoreStatus"}
            /\ \A h \in {cr', crSeen', hdb'} : h # None => ~IsConditionTrue(h, "HStoreReady")
      BY <2>1 DEF StoreFrame, StoreMove, StoreInv
    <2>5. pc' \in AfterShards /\ Get("nshardsCM")' = None =>
            objs'["hstore"] = None /\ ~IsConditionTrue(hdb', "HStoreReady")
      BY <2>1 DEF StoreFrame, StoreMove, StoreInv
    <2>6. Get("hstore")' # None =>
            /\ objs'["hstore"] # None
            /\ Get("hstore")'.arg = objs'["nshardsCM"].arg => StoreSettled'
      BY <2>1, <2>2 DEF StoreFrame, StoreInv, StoreSettled
    <2>7. PastStore' => StoreSettled'
      BY <2>1, <2>2 DEF StoreMove, StoreInv
    <2> QED
      BY <2>3, <2>4, <2>5, <2>6, <2>7 DEF StoreInv, IsConditionTrue
  <1>2. CASE NShardsConfig
    <2>1. /\ UNCHANGED <<cr, crSeen, seen>> /\ objs'["hstore"] = objs["hstore"]
          /\ pc = "nshardsCM" /\ hdb # None
          /\ (pc' = "idle" /\ hdb' = None) \/ (pc' = "hmetaSvc" /\ hdb' = hdb)
      BY <1>2, ChildActions, ConstantsAssumption DEF ChildStep, TypeOK
    <2>2. Get("hstore")' = Get("hstore")
      BY <2>1 DEF Get
    <2>3. PastStore' => PastStore
      BY <2>1 DEF PastStore, AfterStore
    <2>4. CASE objs'["nshardsCM"] = objs["nshardsCM"] /\ (pc' # "idle" => Get("nshardsCM") # None)
      <3>1. Get("nshardsCM")' = Get("nshardsCM")
        BY <2>1, <2>4 DEF Get
      <3>2. StoreSettled' <=> StoreSettled
        BY <2>1, <2>4 DEF StoreSettled
      <3> QED
        BY <2>1, <2>2, <2>3, <2>4, <3>1, <3>2 DEF StoreInv, AfterShards, IsConditionTrue
    <2>5. CASE /\ Get("nshardsCM") = None /\ objs["nshardsCM"] = None
               /\ objs'["nshardsCM"] \in Object
      <3>1. objs'["nshardsCM"] # None
        BY <2>5, ConstantsAssumption
      <3>2. objs["hstore"] = None /\ Get("hstore") = None /\ ~PastStore
        BY <2>5 DEF StoreInv, StoreSettled
      <3>3. Get("nshardsCM")' \in {None, objs'["nshardsCM"]}
        BY <1>0, <2>1, <2>5 DEF Get
      <3>4. ~IsConditionTrue(hdb, "HStoreReady")
        BY <2>1, <2>5 DEF StoreInv
      <3> QED
        BY <2>1, <2>2, <2>3, <3>1, <3>2, <3>3, <3>4 DEF StoreInv, AfterShards, IsConditionTrue
    <2> QED
      BY <1>2, <2>4, <2>5, NShardsOutcome DEF CreateOutcome
  <1>3. CASE AddHStore
    <2>1. /\ UNCHANGED <<cr, crSeen, seen>> /\ objs'["nshardsCM"] = objs["nshardsCM"]
          /\ pc = "hstore" /\ hdb # None
          /\ (pc' = "idle" /\ hdb' = None) \/ (pc' = "bootHStore" /\ hdb' = hdb)
          /\ objs["nshardsCM"] # None
      BY <1>3, ChildActions, ConstantsAssumption DEF ChildStep, TypeOK, StoreInv, AfterShards
    <2>2. PICK nShard \in getNShardFromExistingConfigMap(hdb) :
            UpdateOutcome("hstore", PodSet(hdb, "hstore", nShard))
      BY <1>3, HStoreOutcome
    <2>3. Get("nshardsCM")' = Get("nshardsCM")
      BY <2>1 DEF Get
    <2>4. Get("hstore")' \in {Get("hstore"), objs'["hstore"]}
      BY <2>1 DEF Get
    <2>5. \/ objs'["hstore"] = objs["hstore"]
          \/ objs'["hstore"] # None /\ objs'["hstore"].arg = nShard
      BY <2>2, ConstantsAssumption DEF UpdateOutcome, SameContent, PodSet
    <2>6. pc' # "idle" => \/ Get("hstore") # None /\ Get("hstore").arg = nShard
                          \/ objs'["hstore"] # None /\ objs'["hstore"].arg = nShard
      BY <2>2, ConstantsAssumption DEF UpdateOutcome, SameContent, PodSet
    <2>7. CASE Get("nshardsCM") # None
      <3>1. nShard = objs["nshardsCM"].arg
        BY <2>7 DEF getNShardFromExistingConfigMap, StoreInv
      <3>2. StoreSettled => StoreSettled'
        BY <2>1, <2>5, <3>1 DEF StoreSettled
      <3>3. pc' # "idle" => StoreSettled'
        BY <2>1, <2>5, <2>6, <3>1, <3>2 DEF StoreInv, StoreSettled
      <3>4. PastStore' => StoreSettled'
        BY <2>1, <3>2, <3>3 DEF PastStore, AfterStore, StoreInv
      <3>5. Get("hstore")' # None =>
              /\ objs'["hstore"] # None
              /\ Get("hstore")'.arg = objs'["nshardsCM"].arg => StoreSettled'
        BY <2>1, <2>4, <2>5, <3>2 DEF StoreInv, StoreSettled
      <3> QED
        BY <2>1, <2>3, <2>7, <3>4, <3>5 DEF StoreInv, AfterShards
    <2>8. CASE Get("nshardsCM") = None
      <3>1. objs["hstore"] = None /\ Get("hstore") = None /\ ~PastStore
            /\ ~IsConditionTrue(hdb, "HStoreReady")
        BY <2>1, <2>8 DEF StoreInv, StoreSettled, AfterShards
      <3>2. ~PastStore'
        BY <2>1, <3>1 DEF PastStore, AfterStore
      <3>3. Get("hstore")' # None => Get("hstore")' = objs'["hstore"]
        BY <2>4, <3>1
      <3>4. Get("hstore")' # None =>
              /\ objs'["hstore"] # None
              /\ Get("hstore")'.arg = objs'["nshardsCM"].arg => StoreSettled'
        BY <2>1, <3>3 DEF StoreSettled
      <3> QED
        BY <2>1, <2>3, <2>8, <3>2, <3>4 DEF StoreInv, AfterShards
    <2> QED
      BY <2>7, <2>8
  <1> QED
    BY <1>1, <1>2, <1>3

-----------------------------------------------------------------------------
(* The inductive invariant behind ReadyMeansApplied. *)
AppliedInv ==
  /\ KnownInv /\ StoreInv /\ GenInv /\ FitInv /\ ServerSeen
  /\ \E first \in Specs : LateInv(first)

(* Initially there are no children and no copies of the CR. *)
LEMMA InitAppliedInv ==
  ASSUME Init
  PROVE  AppliedInv
  <1>1. PICK s \in Specs :
          cr = [gen |-> 1, spec |-> s, nodes |-> None,
                conds |-> [t \in CondTypes |-> [st |-> "Unset", og |-> 0]]]
    BY DEF Init
  <1>2. /\ cr.gen = 1 /\ cr.spec = s
        /\ cr.conds["Ready"] = [st |-> "Unset", og |-> 0]
        /\ \A t \in {"HStoreReady", "HServerReady"} : cr.conds[t] = [st |-> "Unset", og |-> 0]
    BY <1>1 DEF CondTypes
  <1>3. /\ crSeen = None /\ hdb = None /\ pc = "idle" /\ MaxGen >= 1
        /\ \A r \in Res : objs[r] = None /\ Get(r) = None
    BY ConstantsAssumption DEF Init, Get
  <1>4. KnownInv /\ GenInv
    BY <1>2, <1>3 DEF KnownInv, GenInv, AnnouncedNow
  <1>5. StoreInv
    BY <1>2, <1>3
    DEF StoreInv, PastStore, AfterShards, AfterStore, IsConditionTrue, Res, Workloads, ConfigMaps
  <1>6. FitInv
    BY <1>2, <1>3 DEF FitInv, AnnouncedNow
  <1>7. ServerSeen
    BY <1>2, <1>3 DEF ServerSeen, IsConditionTrue
  <1>8. LateInv(s)
    <2>1. "hserver" \in Res /\ Kept \subseteq Res
      BY DEF Kept, Res, Workloads, Services
    <2> QED
      BY <1>2, <1>3, <2>1 DEF LateInv, History
  <1> QED
    BY <1>4, <1>5, <1>6, <1>7, <1>8 DEF AppliedInv

(* What fits, child by child, is applied. *)
LEMMA FitsIsApplied ==
  ASSUME TypeOK, StoreInv, FitInv
  PROVE  ReadyMeansApplied
  <1> SUFFICES ASSUME cr # None, AnnouncedNow PROVE Applied(cr.spec)
    BY DEF ReadyMeansApplied, AnnouncedNow
  <1>1. \A r \in Kept : Fits(objs[r], r, cr.spec)
    BY DEF FitInv
  <1>2. objs["nshardsCM"] # None /\ objs["hstore"].arg = objs["nshardsCM"].arg
    BY DEF StoreInv, PastStore, StoreSettled, AnnouncedNow, IsConditionTrue
  <1>3. objs["hserverSvc"] # None /\ objs["hserverSvc"].arg = cr.spec.port
    BY <1>1 DEF Fits, Asked, Made, Kept
  <1>4. ASSUME NEW w \in Workloads, cr.spec.comp[w] # None, ~(w = "hmeta" /\ cr.spec.ext)
        PROVE  /\ objs[w] # None
               /\ objs[w].replicas = cr.spec.comp[w].replicas
               /\ objs[w].tmpl = cr.spec.comp[w].tmpl
               /\ w \in {"hserver", "gateway", "console"} => objs[w].arg = cr.spec.port
    BY <1>1, <1>4 DEF Fits, Asked, Made, Kept, Workloads
  <1> QED
    BY <1>2, <1>3, <1>4 DEF Applied

(* When Ready is reported for the current generation, the children are     *)
(* those of the current spec: for any specs and any number of edits of     *)
(* what is read from fresh caches, and for one edit, or edits elsewhere,   *)
(* of what is read from late ones; with any faults, restarts and deletion, *)
(* and even if the store was first created with a wrong number of shards.  *)
THEOREM ReadyAlwaysMeansApplied ==
  ASSUME ~GetErrors, NoReverts
  PROVE  Spec => []ReadyMeansApplied
  <1>1. Init => AppliedInv
    BY InitAppliedInv
  <1>2. TypeOK /\ AppliedInv /\ [Next]_vars => AppliedInv'
    <2> SUFFICES ASSUME TypeOK, AppliedInv, [Next]_vars PROVE AppliedInv'
      OBVIOUS
    <2>1. CASE UNCHANGED vars
      BY <2>1 DEF vars, AppliedInv, KnownInv, StoreInv, GenInv, FitInv, ServerSeen, LateInv,
                  StoreSettled, PastStore, NotNewer, AnnouncedNow, Passed, History, Second, Get
    <2>2. CASE Next
      <3>1. PICK first \in Specs : LateInv(first)
        BY DEF AppliedInv
      <3>2. Step /\ KnownInv /\ StoreInv /\ GenInv /\ FitInv /\ ServerSeen
        BY <2>2, NextIsStep DEF AppliedInv
      <3>3. ReadsTell
        BY <3>1, <3>2, HistoryTells
      <3>4. StoreInv' /\ GenInv' /\ FitInv'
        BY <3>2, <3>3, StepStoreInv, StepGenInv, StepFitInv
      <3>5. LateInv(first)'
        BY <3>1, <3>2, <3>3, StepLateInv
      <3>6. ServerSeen'
        <4>1. cr # None /\ Get("hserver") # None => objs["hserver"] # None
          BY <3>1 DEF LateInv, History, Kept, Workloads
        <4> QED
          BY <3>2, <3>3, <4>1, StepServerSeen, StaysDeleted DEF ServerSeen
      <3>7. KnownInv'
        BY <2>2, <3>2, StepKnownInv
      <3> QED
        BY <3>4, <3>5, <3>6, <3>7 DEF AppliedInv
    <2> QED
      BY <2>1, <2>2
  <1>3. TypeOK /\ AppliedInv => ReadyMeansApplied
    BY FitsIsApplied DEF AppliedInv
  <1> QED
    BY <1>1, <1>2, <1>3, TypeCorrect, PTL DEF Spec
-----------------------------------------------------------------------------
(* The bootstrap of the store.  bootstrapHStore counts the pods it reads,  *)
(* against the replicas it reads.  A StatefulSet read from a late cache    *)
(* may still have the replicas of an earlier spec: the size of the store   *)
(* may be edited only if StatefulSets are read as they are.                *)

StoreSize(s) == s.comp["hstore"].replicas

StoreSizeKnown == ~Late("hstore") \/ \A s, t \in Specs : StoreSize(s) = StoreSize(t)

SizeInv ==
  cr # None =>
    /\ ~Late("hstore") /\ pc = "bootHStore" =>
         objs["hstore"] # None /\ objs["hstore"].replicas = StoreSize(hdb.spec)
    /\ Late("hstore") =>
         /\ \A o \in {objs["hstore"], Get("hstore")} :
              o # None => \A s \in Specs : o.replicas = StoreSize(s)
         /\ objs["hstore"] # None => objs["hstore"].ready <= objs["hstore"].replicas
         /\ Get("hstore") # None => /\ objs["hstore"] # None
                                    /\ faults = 0 => Get("hstore").ready <= objs["hstore"].ready

(* The pods that the spec asks for are running when the bootstrap command  *)
(* takes effect.                                                           *)
BootstrapWaits ==
  bootstraps' # bootstraps /\ cr # None /\ faults' = 0 =>
    objs["hstore"] # None /\ objs["hstore"].ready >= StoreSize(hdb.spec)

(* Every shape of step keeps the size of the store and waits for its pods. *)
LEMMA StepSizeInv ==
  ASSUME TypeOK, KnownInv, SizeInv, Step, StoreSizeKnown
  PROVE  SizeInv' /\ BootstrapWaits
  <1>0. /\ "hstore" \in Res /\ "hstore" \in Workloads
        /\ objs["hstore"] # None => objs["hstore"].replicas \in Nat /\ objs["hstore"].ready \in Nat
        /\ Get("hstore") # None => Get("hstore").replicas \in Nat /\ Get("hstore").ready \in Nat
        /\ faults \in Nat
    BY GetTyped DEF Res, Workloads, TypeOK, Object
  <1>1. ASSUME UNCHANGED <<objs, seen, bootstraps>>, faults' = 0 => faults = 0,
               pc' # "bootHStore" \/ (pc' = pc /\ hdb' = hdb)
        PROVE  SizeInv' /\ BootstrapWaits
    <2>1. cr' # None => cr # None
      BY StaysDeleted
    <2>2. Get("hstore")' = Get("hstore")
      BY <1>1 DEF Get
    <2>3. SizeInv'
      BY <1>1, <2>1, <2>2 DEF SizeInv, Late
    <2> QED
      BY <1>1, <2>3 DEF BootstrapWaits
  <1>2. CASE Reconcile \/ FenceStep \/ StoreReadyStep \/ ServerReadyStep \/ ReadyStep \/ EditStep
    <2>1. ASSUME NEW step, NEW new, NEW next, StatusStep(step, new, next), next # "bootHStore"
          PROVE  SizeInv' /\ BootstrapWaits
      BY <1>0, <1>1, <2>1 DEF StatusStep, Ends
    <2>2. CASE FenceStep \/ StoreReadyStep \/ ServerReadyStep \/ ReadyStep
      BY <2>1, <2>2 DEF FenceStep, StoreReadyStep, ServerReadyStep, ReadyStep
    <2>3. CASE Reconcile \/ EditStep
      BY <1>1, <2>3 DEF Reconcile, EditStep, caches, cluster
    <2> QED
      BY <1>2, <2>2, <2>3
  <1>3. CASE AddHStore /\ ChildStep("hstore", "bootHStore")
    <2>1. PICK nShard \in getNShardFromExistingConfigMap(hdb) :
            UpdateOutcome("hstore", PodSet(hdb, "hstore", nShard))
      BY <1>3, HStoreOutcome
    <2>2. /\ UNCHANGED <<cr, seen, bootstraps>> /\ pc = "hstore" /\ hdb # None
          /\ hdb.spec \in Specs /\ hdb' \in {hdb, None} /\ (pc' # "idle" => hdb' = hdb)
          /\ faults' = 0 => faults = 0
      BY <1>0, <1>3, ConstantsAssumption DEF ChildStep, TypeOK, KnownInv
    <2>3. \A o : SameContent(o, PodSet(hdb, "hstore", nShard)) => o.replicas = StoreSize(hdb.spec)
      BY DEF SameContent, PodSet, StoreSize
    <2>4. CASE objs'["hstore"] = objs["hstore"]
      <3>1. Get("hstore")' = Get("hstore")
        BY <2>2, <2>4 DEF Get
      <3>2. pc' = "bootHStore" /\ ~Late("hstore") =>
              objs["hstore"] # None /\ objs["hstore"].replicas = StoreSize(hdb.spec)
        BY <2>1, <2>3, <2>4, ConstantsAssumption DEF UpdateOutcome, Get, Late
      <3> QED
        BY <2>2, <2>4, <3>1, <3>2 DEF SizeInv, BootstrapWaits, Late
    <2>5. CASE /\ Get("hstore") = objs["hstore"]
               /\ objs'["hstore"] \in Object /\ objs'["hstore"].replicas = StoreSize(hdb.spec)
               /\ objs'["hstore"].ready = IF objs["hstore"] = None THEN 0 ELSE objs["hstore"].ready
      <3>1. objs'["hstore"] # None /\ StoreSize(hdb.spec) \in Nat
        BY <2>5, ConstantsAssumption DEF Object
      <3>2. CASE ~Late("hstore")
        BY <2>2, <2>5, <3>1, <3>2 DEF SizeInv, BootstrapWaits, Late
      <3>3. CASE Late("hstore")
        <4>1. Get("hstore")' = Get("hstore")
          BY <2>2, <3>3 DEF Get, Late
        <4>2. \A t \in Specs : StoreSize(hdb.spec) = StoreSize(t)
          BY <2>2, <3>3 DEF StoreSizeKnown
        <4> QED
          BY <1>0, <2>2, <2>5, <3>1, <3>3, <4>1, <4>2 DEF SizeInv, BootstrapWaits, Late
      <3> QED
        BY <3>2, <3>3
    <2> QED
      BY <2>1, <2>3, <2>4, <2>5 DEF UpdateOutcome
  <1>4. CASE (BeforeFenceStep \/ AfterFenceStep) /\ pc # "hstore"
    <2>1. /\ UNCHANGED <<cr, seen, bootstraps>> /\ objs'["hstore"] = objs["hstore"]
          /\ pc' # "bootHStore" /\ (faults' = 0 => faults = 0)
      BY <1>0, <1>4 DEF BeforeFenceStep, AfterFenceStep, ChildStep
    <2>2. Get("hstore")' = Get("hstore")
      BY <2>1 DEF Get
    <2> QED
      BY <2>1, <2>2 DEF SizeInv, BootstrapWaits, Late
  <1>5. CASE StoreEffectStep
    <2>1. /\ UNCHANGED <<cr, objs, seen>> /\ pc = "bootHStore" /\ pc' # "bootHStore"
          /\ faults' = 0 => faults = 0
      BY <1>0, <1>5 DEF StoreEffectStep, EffectStep, Ends
    <2>2. Get("hstore")' = Get("hstore")
      BY <2>1 DEF Get
    <2>3. SizeInv'
      BY <2>1, <2>2 DEF SizeInv, Late
    <2>4. Get("hstore") # None /\ Get("hstore").ready >= Get("hstore").replicas
      BY <1>5 DEF StoreEffectStep, checkPodRunningStatus
    <2>5. hdb # None /\ hdb.spec \in Specs
      BY <2>1, ConstantsAssumption DEF TypeOK, KnownInv
    <2>6. CASE ~Late("hstore")
      BY <2>1, <2>3, <2>4, <2>6 DEF SizeInv, BootstrapWaits, Late, Get
    <2>7. CASE Late("hstore")
      BY <1>0, <2>1, <2>3, <2>4, <2>5, <2>7 DEF SizeInv, BootstrapWaits
    <2> QED
      BY <2>6, <2>7
  <1>6. CASE ServerEffectStep
    BY <1>0, <1>1, <1>6 DEF ServerEffectStep, EffectStep, Ends
  <1>7. CASE SyncStep \/ PanicStep \/ CrashStep
    <2>1. /\ UNCHANGED <<cr, objs, bootstraps>> /\ (faults' = 0 => faults = 0)
          /\ pc' # "bootHStore" \/ (pc' = pc /\ hdb' = hdb)
          /\ Late("hstore") => seen'["hstore"] \in {seen["hstore"], objs["hstore"]}
      BY <1>0, <1>7 DEF SyncStep, PanicStep, CrashStep, RestartStep, Late
    <2>2. Late("hstore") => Get("hstore")' \in {Get("hstore"), objs["hstore"]}
      BY <2>1 DEF Get, Late
    <2> QED
      BY <1>0, <2>1, <2>2 DEF SizeInv, BootstrapWaits, Late
  <1>8. CASE PodStep
    <2>1. /\ UNCHANGED <<cr, seen, pc, hdb, bootstraps>> /\ faults' >= faults /\ faults' \in Nat
          /\ objs'["hstore"] # None <=> objs["hstore"] # None
          /\ objs["hstore"] # None => objs'["hstore"].replicas = objs["hstore"].replicas
          /\ objs'["hstore"] # None => objs'["hstore"].ready \in Nat
          /\ objs["hstore"] # None /\ objs'["hstore"].ready < objs["hstore"].ready =>
               faults' > faults \/ objs["hstore"].ready > objs["hstore"].replicas
          /\ objs["hstore"] # None /\ objs'["hstore"].ready > objs["hstore"].ready =>
               objs'["hstore"].ready <= objs["hstore"].replicas
      BY <1>0, <1>8 DEF PodStep, SameContent, Object
    <2>2. Late("hstore") => Get("hstore")' = Get("hstore")
      BY <2>1 DEF Get, Late
    <2>3. CASE ~Late("hstore")
      BY <2>1, <2>3 DEF SizeInv, BootstrapWaits, Late
    <2>4. CASE Late("hstore")
      BY <1>0, <2>1, <2>2, <2>4 DEF SizeInv, BootstrapWaits, Late
    <2> QED
      BY <2>3, <2>4
  <1>9. CASE DeleteStep
    BY <1>9 DEF DeleteStep, SizeInv, BootstrapWaits
  <1> QED
    BY <1>2, <1>3, <1>4, <1>5, <1>6, <1>7, <1>8, <1>9
    DEF Step, BeforeFenceStep, AfterFenceStep, ChildStep

(* The store is bootstrapped when all the HStore pods the spec asks for    *)
(* are running: for specs of one store size and any caches, or for any     *)
(* specs if StatefulSets are not read late; Gets may fail, too.            *)
THEOREM AlwaysBootstrapsRunningStore ==
  ASSUME StoreSizeKnown
  PROVE  Spec => BootstrapsRunningStore
  <1>1. Init => KnownInv /\ SizeInv
    BY DEF Init, KnownInv, SizeInv, Get, Res, Workloads
  <1>2. TypeOK /\ KnownInv /\ SizeInv /\ [Next]_vars =>
          KnownInv' /\ SizeInv' /\ [BootstrapWaits]_vars
    <2> SUFFICES ASSUME TypeOK, KnownInv, SizeInv, [Next]_vars
                 PROVE  KnownInv' /\ SizeInv' /\ [BootstrapWaits]_vars
      OBVIOUS
    <2>1. CASE Next
      BY <2>1, NextIsStep, StepKnownInv, StepSizeInv
    <2>2. CASE UNCHANGED vars
      BY <2>2 DEF vars, KnownInv, SizeInv, Get
    <2> QED
      BY <2>1, <2>2
  <1>3. [BootstrapWaits]_vars =>
        [bootstraps' # bootstraps /\ cr # None /\ faults' = 0 =>
           /\ objs["hstore"] # None
           /\ objs["hstore"].ready >= hdb.spec.comp["hstore"].replicas]_vars
    BY DEF BootstrapWaits, StoreSize
  <1> QED
    BY <1>1, <1>2, <1>3, TypeCorrect, PTL DEF Spec, BootstrapsRunningStore
=============================================================================
