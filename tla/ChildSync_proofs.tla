-------------------------- MODULE ChildSync_proofs --------------------------
(***************************************************************************)
(* Proofs about ChildSync, for every set of contents and every bound: the  *)
(* variables keep their types, and Ready for the current generation means  *)
(* that the child is what the spec asks for, as long as the CR was never   *)
(* deleted and no edit went back.                                          *)
(*                                                                         *)
(* The argument: the versions of the CR, those of the child and the copy   *)
(* of the worker are ordered by the generation they stand for, the child   *)
(* behind the copy and the copy behind the cache.  A cached child with the *)
(* wanted content is then of the worker's own generation, and all later    *)
(* versions of the child are, too.                                         *)
(***************************************************************************)
EXTENDS ChildSync, TLAPS

(* What Append and Tail do to the versions of an object. *)
LEMMA AppendVersion ==
  ASSUME NEW S, NEW s \in Seq(S), NEW x \in S
  PROVE  /\ Append(s, x) \in Seq(S)
         /\ Append(s, x) # <<>>
         /\ Len(Append(s, x)) = Len(s) + 1
         /\ Append(s, x)[Len(s) + 1] = x
         /\ \A i \in 1 .. Len(s) : Append(s, x)[i] = s[i]
  OBVIOUS

(* Delivering a version leaves the later ones. *)
LEMMA TailVersion ==
  ASSUME NEW S, NEW s \in Seq(S), Len(s) > 1
  PROVE  /\ Tail(s) \in Seq(S)
         /\ Tail(s) # <<>>
         /\ Len(Tail(s)) = Len(s) - 1
         /\ \A i \in 1 .. Len(s) - 1 : Tail(s)[i] = s[i + 1]
  <1>1. Len(s) \in Nat /\ s # <<>>
    OBVIOUS
  <1>2. Tail(s) \in Seq(S) /\ Len(Tail(s)) = Len(s) - 1
    BY <1>1
  <1>3. \A i \in 1 .. Len(s) - 1 : Tail(s)[i] = s[i + 1]
    BY <1>1
  <1>4. Tail(s) # <<>>
    <2> DEFINE t == Tail(s)
    <2>1. Len(t) = Len(s) - 1
      BY <1>2
    <2> HIDE DEF t
    <2>2. t # <<>>
      BY <1>1, <2>1
    <2> QED
      BY <2>2 DEF t
  <1> QED
    BY <1>2, <1>3, <1>4

(* A list after a restart holds the current version only. *)
LEMMA OneVersion ==
  ASSUME NEW S, NEW x \in S
  PROVE  <<x>> \in Seq(S) /\ <<x>> # <<>> /\ Len(<<x>>) = 1 /\ <<x>>[1] = x
  OBVIOUS

(* There is always a cached and a current version. *)
LEMMA Ends ==
  ASSUME NEW S, NEW s \in Seq(S), s # <<>>
  PROVE  /\ Len(s) \in Nat /\ Len(s) >= 1
         /\ 1 \in 1 .. Len(s) /\ Len(s) \in 1 .. Len(s)
         /\ s[1] \in S /\ s[Len(s)] \in S
         /\ \A i \in 1 .. Len(s) : s[i] \in S
  OBVIOUS

(* The fields of a CR and of a child. *)
LEMMA Fields ==
  /\ \A h \in HStreamDB : h.uid \in Nat /\ h.gen \in Nat /\ h.want \in Contents /\ h.ready \in Nat
  /\ \A o \in Object : o.owner \in Nat \cup {None} /\ o.want \in Contents /\ o.gen \in Nat
  BY DEF HStreamDB, Object

-----------------------------------------------------------------------------
(* Type correctness. *)

(* The current and the cached versions have the types of their lists. *)
LEMMA VersionTypes ==
  ASSUME TypeOK
  PROVE  /\ cr \in HStreamDB \cup {None} /\ crSeen \in HStreamDB \cup {None}
         /\ child \in Object \cup {None} /\ childSeen \in Object \cup {None}
  BY Ends DEF TypeOK, cr, crSeen, child, childSeen

(* What the worker writes as the child is one. *)
LEMMA WrittenTypes ==
  ASSUME TypeOK, pc = "add"
  PROVE  /\ Created \in Seq(Object \cup {None}) /\ Created # <<>>
         /\ childSeen # None => Updated \in Seq(Object \cup {None}) /\ Updated # <<>>
  <1>1. hdb \in HStreamDB
    BY DEF TypeOK
  <1>2. [owner |-> SetControllerReference(hdb), want |-> hdb.want, gen |-> hdb.gen] \in Object
    BY <1>1, Fields DEF Object, SetControllerReference
  <1>3. childSeen # None =>
          [owner |-> childSeen.owner, want |-> hdb.want, gen |-> hdb.gen] \in Object
    BY <1>1, Fields, VersionTypes DEF Object
  <1> QED
    BY <1>2, <1>3, AppendVersion DEF TypeOK, Created, Updated

(* What it writes as the status of the CR is one, too. *)
LEMMA StatusTypes ==
  ASSUME TypeOK, pc = "report"
  PROVE  /\ [hdb EXCEPT !.ready = hdb.gen] \in HStreamDB
         /\ WithStatus([hdb EXCEPT !.ready = hdb.gen]) \in Seq(HStreamDB \cup {None}) \ {<<>>}
  <1>1. hdb \in HStreamDB
    BY DEF TypeOK
  <1>2. [hdb EXCEPT !.ready = hdb.gen] \in HStreamDB
    BY <1>1, Fields DEF HStreamDB
  <1> QED
    BY <1>2, AppendVersion DEF TypeOK, WithStatus

(* The queue and the worker at the end of a reconciliation. *)
LEMMA RequeueTypes ==
  ASSUME TypeOK, NEW e, processRequeue(e)
  PROVE  /\ queued' \in SUBSET {"now", "later"}
         /\ pc' = "idle" /\ hdb' = None
  BY DEF TypeOK, processRequeue

(* Each step of the worker keeps the types. *)
LEMMA WorkerTypes == TypeOK /\ Worker => TypeOK'
  <1> SUFFICES ASSUME TypeOK, Worker PROVE TypeOK'
    OBVIOUS
  <1>1. CASE Reconcile
    BY <1>1, VersionTypes DEF Reconcile, TypeOK, others
  <1>2. CASE Add
    <2> USE WrittenTypes, RequeueTypes
    <2>1. UNCHANGED <<crs, uid, wants, writes>> /\ faults' \in Nat
      BY <1>2 DEF Add, Fault, others, TypeOK
    <2>2. children' \in Seq(Object \cup {None}) /\ children' # <<>>
      BY <1>2 DEF Add, TypeOK
    <2>3. /\ queued' \in SUBSET {"now", "later"} /\ pc' \in {"idle", "report"}
          /\ hdb' \in {None, hdb} /\ (pc' # "idle" => hdb' = hdb)
      BY <1>2 DEF Add, Continue, TypeOK
    <2> QED
      BY <1>2, <2>1, <2>2, <2>3 DEF TypeOK, Add
  <1>3. CASE Report
    <2> USE StatusTypes, RequeueTypes
    <2>1. UNCHANGED <<children, uid, wants, writes>> /\ faults' \in Nat
      BY <1>3 DEF Report, Fault, others, TypeOK
    <2>2. crs' \in Seq(HStreamDB \cup {None}) /\ crs' # <<>>
      BY <1>3 DEF Report, TypeOK
    <2>3. queued' \in SUBSET {"now", "later"} /\ pc' = "idle" /\ hdb' = None
      BY <1>3 DEF Report
    <2> QED
      BY <2>1, <2>2, <2>3 DEF TypeOK
  <1> QED
    BY <1>1, <1>2, <1>3 DEF Worker

(* Each step of the environment keeps them. *)
LEMMA EnvironmentTypes == TypeOK /\ Environment => TypeOK'
  <1> SUFFICES ASSUME TypeOK, Environment PROVE TypeOK'
    OBVIOUS
  <1> USE VersionTypes
  <1>1. CASE RequeueAfter
    BY <1>1 DEF RequeueAfter, TypeOK, others
  <1>2. CASE SyncCR
    BY <1>2, TailVersion DEF SyncCR, TypeOK, others
  <1>3. CASE SyncChild
    BY <1>3, TailVersion DEF SyncChild, TypeOK, others
  <1>4. CASE Crash
    BY <1>4, OneVersion DEF Crash, Fault, TypeOK, others
  <1>5. CASE ChildStatus
    BY <1>5, AppendVersion DEF ChildStatus, TypeOK
  <1>6. CASE GarbageCollect
    BY <1>6, AppendVersion DEF GarbageCollect, TypeOK, others
  <1>7. CASE UserEdit
    <2>1. PICK c \in Contents :
            /\ crs' = Append(crs, [uid |-> cr.uid, gen |-> cr.gen + 1, want |-> c,
                                   ready |-> cr.ready])
            /\ wants' = Append(wants, c)
      BY <1>7 DEF UserEdit
    <2>2. [uid |-> cr.uid, gen |-> cr.gen + 1, want |-> c, ready |-> cr.ready] \in HStreamDB
      BY <1>7, Fields DEF UserEdit, HStreamDB
    <2> QED
      BY <1>7, <2>1, <2>2, AppendVersion DEF UserEdit, TypeOK
  <1>8. CASE UserDelete
    BY <1>8, AppendVersion DEF UserDelete, TypeOK, others
  <1>9. CASE UserCreate
    <2>1. PICK c \in Contents :
            /\ crs' = Append(crs, [uid |-> uid + 1, gen |-> 1, want |-> c, ready |-> 0])
            /\ wants' = <<c>>
      BY <1>9 DEF UserCreate
    <2>2. [uid |-> uid + 1, gen |-> 1, want |-> c, ready |-> 0] \in HStreamDB
      BY DEF TypeOK, HStreamDB
    <2> QED
      BY <1>9, <2>1, <2>2, AppendVersion, OneVersion DEF UserCreate, TypeOK
  <1> QED
    BY <1>1, <1>2, <1>3, <1>4, <1>5, <1>6, <1>7, <1>8, <1>9 DEF Environment

(* The variables of ChildSync keep their types; a worker in the chain      *)
(* always holds a CR.                                                      *)
THEOREM TypeCorrect == Spec => []TypeOK
  <1>1. Init => TypeOK
    <2> SUFFICES ASSUME Init PROVE TypeOK
      OBVIOUS
    <2>1. PICK c \in Contents :
            /\ crs = <<None, [uid |-> 1, gen |-> 1, want |-> c, ready |-> 0]>>
            /\ wants = <<c>>
      BY DEF Init
    <2>2. [uid |-> 1, gen |-> 1, want |-> c, ready |-> 0] \in HStreamDB
      BY DEF HStreamDB
    <2> QED
      BY <2>1, <2>2 DEF Init, TypeOK
  <1>2. TypeOK /\ [Next]_vars => TypeOK'
    BY WorkerTypes, EnvironmentTypes DEF Next, vars, TypeOK
  <1> QED
    BY <1>1, <1>2, PTL DEF Spec

-----------------------------------------------------------------------------
(* The order of the versions. *)

First == cr # None /\ uid = 1

Distinct == \A i, j \in 1 .. Len(wants) : wants[i] = wants[j] => i = j

(* The versions of the CR are of generations that do not decrease, and     *)
(* each asks for what its generation asks for.                             *)
CRChain ==
  /\ cr.gen = Len(wants)
  /\ \A i \in 1 .. Len(crs) :
       /\ i > 1 => crs[i] # None
       /\ crs[i] # None =>
            /\ crs[i].uid = 1
            /\ crs[i].gen \in 1 .. Len(wants)
            /\ crs[i].want = wants[crs[i].gen]
            /\ crs[i].ready <= crs[i].gen
            /\ \A j \in i .. Len(crs) : crs[i].gen <= crs[j].gen

(* The worker's copy is not ahead of the cache. *)
CopyBehind ==
  pc # "idle" =>
    /\ crs[1] # None
    /\ hdb.uid = 1
    /\ hdb.gen \in 1 .. Len(wants)
    /\ hdb.want = wants[hdb.gen]
    /\ hdb.gen <= crs[1].gen

(* The versions of the child are of generations that do not decrease, are  *)
(* not ahead of the cached CR or of the worker's copy, and have the        *)
(* content of their generation; no child is removed.                       *)
ChildChain ==
  \A i \in 1 .. Len(children) :
    /\ i > 1 => children[i] # None
    /\ children[i] # None =>
         /\ children[i].owner = 1
         /\ crs[1] # None
         /\ children[i].gen \in 1 .. Len(wants)
         /\ children[i].want = wants[children[i].gen]
         /\ children[i].gen <= crs[1].gen
         /\ pc # "idle" => children[i].gen <= hdb.gen
         /\ \A j \in i .. Len(children) : children[i].gen <= children[j].gen

(* Past the sub-reconciler of the child, the child is of the generation of *)
(* the copy, ...                                                           *)
Written == Distinct /\ pc = "report" => child # None /\ child.gen = hdb.gen

(* ... and so it is of the generation that Ready was reported for. *)
Reported == Distinct /\ cr.ready = cr.gen => child # None /\ child.gen = cr.gen

SyncInv ==
  /\ uid >= 1
  /\ First => CRChain /\ CopyBehind /\ ChildChain /\ Written /\ Reported

(* The order holds at the start. *)
LEMMA SyncInit == Init => SyncInv
  <1> SUFFICES ASSUME Init PROVE SyncInv
    OBVIOUS
  <1>1. PICK c \in Contents :
          /\ crs = <<None, [uid |-> 1, gen |-> 1, want |-> c, ready |-> 0]>>
          /\ wants = <<c>>
    BY DEF Init
  <1>2. /\ Len(crs) = 2 /\ crs[1] = None /\ cr = crs[2]
        /\ crs[2] = [uid |-> 1, gen |-> 1, want |-> c, ready |-> 0]
        /\ Len(wants) = 1 /\ wants[1] = c
    BY <1>1 DEF cr
  <1>3. Len(children) = 1 /\ children[1] = None /\ uid = 1 /\ pc = "idle"
    BY DEF Init
  <1>4. CRChain
    <2>1. cr.gen = Len(wants)
      BY <1>2
    <2>2. /\ crs[2].uid = 1 /\ crs[2].gen = 1 /\ crs[2].want = wants[1] /\ crs[2].ready = 0
          /\ crs[2] # None
      BY <1>2, NoneAssumption DEF HStreamDB
    <2> QED
      BY <1>2, <2>1, <2>2 DEF CRChain
  <1>5. CopyBehind /\ ChildChain /\ Written
    BY <1>3 DEF CopyBehind, ChildChain, Written
  <1>6. Reported
    BY <1>2 DEF Reported
  <1> QED
    BY <1>3, <1>4, <1>5, <1>6 DEF SyncInv

(* Reconcile takes its copy from the cache. *)
LEMMA SyncReconcile == TypeOK /\ SyncInv /\ Reconcile => SyncInv'
  <1> SUFFICES ASSUME TypeOK, SyncInv, Reconcile, First' PROVE SyncInv'
    BY DEF SyncInv, Reconcile, others
  <1>1. /\ UNCHANGED <<crs, children, uid, wants, cr, child>> /\ First
        /\ hdb' = crs[1] /\ pc' \in {"idle", "add"}
        /\ pc' # "idle" => crs[1] # None
    BY DEF Reconcile, others, cr, child, First, crSeen
  <1>2. Len(crs) \in Nat /\ Len(crs) >= 1
    BY Ends DEF TypeOK
  <1>3. CRChain /\ CopyBehind /\ ChildChain /\ Reported /\ uid >= 1
    BY <1>1 DEF SyncInv
  <1>4. CopyBehind'
    BY <1>1, <1>2, <1>3, VersionTypes, Fields DEF CRChain, CopyBehind, crSeen
  <1>5. ChildChain'
    BY <1>1, <1>3 DEF ChildChain
  <1>6. CRChain' /\ Written' /\ Reported' /\ uid' >= 1
    BY <1>1, <1>3 DEF CRChain, Written, Reported, Distinct
  <1> QED
    BY <1>4, <1>5, <1>6 DEF SyncInv

(* A new version of the child, of the worker's generation, keeps the order. *)
LEMMA SyncWrite ==
  ASSUME TypeOK, TypeOK', SyncInv, First, pc = "add", UNCHANGED <<crs, uid, wants>>,
         hdb' \in {None, hdb}, pc' \in {"idle", "report"}, pc' # "idle" => hdb' = hdb,
         NEW o \in Object, o.owner = 1, o.want = hdb.want, o.gen = hdb.gen,
         children' = Append(children, o)
  PROVE  SyncInv'
  <1>1. CRChain /\ CopyBehind /\ ChildChain /\ Reported /\ uid >= 1 /\ UNCHANGED cr
    BY DEF SyncInv, cr
  <1>2. /\ children \in Seq(Object \cup {None}) /\ Len(children) \in Nat /\ Len(children) >= 1
        /\ \A i \in 1 .. Len(children) : children[i] \in Object \cup {None}
    BY Ends DEF TypeOK
  <1>3. /\ Len(children') = Len(children) + 1
        /\ children'[Len(children) + 1] = o
        /\ \A i \in 1 .. Len(children) : children'[i] = children[i]
    BY <1>2, AppendVersion
  <1>4. child' = o /\ o # None
    BY <1>3, NoneAssumption DEF child
  <1>5. /\ hdb.gen \in 1 .. Len(wants) /\ hdb.want = wants[hdb.gen]
        /\ hdb.gen <= crs[1].gen /\ crs[1] # None
    BY <1>1 DEF CopyBehind
  <1>6. Len(wants) \in Nat /\ cr.gen = Len(wants)
    BY <1>1 DEF TypeOK, CRChain
  <1>7. CRChain' /\ CopyBehind' /\ uid' >= 1
    BY <1>1 DEF CRChain, CopyBehind
  <1>8. ChildChain'
    <2> SUFFICES ASSUME NEW i \in 1 .. Len(children')
                 PROVE  /\ i > 1 => children'[i] # None
                        /\ children'[i] # None =>
                             /\ children'[i].owner = 1
                             /\ crs[1] # None
                             /\ children'[i].gen \in 1 .. Len(wants)
                             /\ children'[i].want = wants[children'[i].gen]
                             /\ children'[i].gen <= crs[1].gen
                             /\ pc' # "idle" => children'[i].gen <= hdb.gen
                             /\ \A j \in i .. Len(children') : children'[i].gen <= children'[j].gen
      BY DEF ChildChain
    <2>1. CASE i = Len(children) + 1
      BY <2>1, <1>2, <1>3, <1>4, <1>5, <1>6
    <2>2. CASE i \in 1 .. Len(children)
      BY <2>2, <1>1, <1>2, <1>3, <1>4, <1>5, <1>6 DEF ChildChain
    <2> QED
      BY <2>1, <2>2, <1>2, <1>3
  <1>9. Written'
    BY <1>4 DEF Written
  <1>10. Reported'
    <2> SUFFICES ASSUME Distinct, cr.ready = cr.gen PROVE hdb.gen = cr.gen
      BY <1>1, <1>4 DEF Reported, Distinct
    <2>1. child # None /\ child.gen = cr.gen
      BY <1>1 DEF Reported
    <2>2. child.gen <= hdb.gen
      BY <2>1, <1>1, <1>2 DEF ChildChain, child
    <2> QED
      BY <2>1, <2>2, <1>5, <1>6
  <1> QED
    BY <1>7, <1>8, <1>9, <1>10 DEF SyncInv

(* If the cached child has the wanted content, the current one is of the   *)
(* worker's generation, provided that no edit went back.                   *)
LEMMA SameHash ==
  ASSUME TypeOK, SyncInv, First, Distinct, pc = "add",
         childSeen # None, ~isHashChanged(childSeen, hdb)
  PROVE  child # None /\ child.gen = hdb.gen
  <1>1. CopyBehind /\ ChildChain
    BY DEF SyncInv
  <1>2. /\ Len(children) \in Nat /\ Len(children) >= 1 /\ Len(wants) \in Nat
        /\ \A i \in 1 .. Len(children) : children[i] \in Object \cup {None}
    BY Ends DEF TypeOK
  <1>3. children[1] # None /\ children[1].want = hdb.want
    BY DEF childSeen, isHashChanged
  <1>4. /\ children[1].gen \in 1 .. Len(wants) /\ children[1].want = wants[children[1].gen]
        /\ children[1].gen <= children[Len(children)].gen
    BY <1>1, <1>2, <1>3 DEF ChildChain
  <1>5. children[Len(children)] # None
    BY <1>1, <1>2, <1>3 DEF ChildChain
  <1>6. children[Len(children)].gen <= hdb.gen /\ children[Len(children)].gen \in Nat
    BY <1>1, <1>2, <1>5 DEF ChildChain
  <1>7. hdb.gen \in 1 .. Len(wants) /\ hdb.want = wants[hdb.gen]
    BY <1>1 DEF CopyBehind
  <1>8. children[1].gen = hdb.gen
    BY <1>3, <1>4, <1>7 DEF Distinct
  <1> QED
    BY <1>4, <1>5, <1>6, <1>7, <1>8 DEF child

(* A step of the worker that leaves the child alone. *)
LEMMA SyncNoWrite ==
  ASSUME TypeOK, SyncInv, First, pc = "add", UNCHANGED <<crs, uid, wants, children>>,
         hdb' \in {None, hdb}, pc' \in {"idle", "report"}, pc' # "idle" => hdb' = hdb,
         pc' = "report" => childSeen # None /\ ~isHashChanged(childSeen, hdb)
  PROVE  SyncInv'
  <1>1. CRChain /\ CopyBehind /\ ChildChain /\ Reported /\ uid >= 1 /\ UNCHANGED <<cr, child>>
    BY DEF SyncInv, cr, child
  <1>2. CRChain' /\ CopyBehind' /\ uid' >= 1
    BY <1>1 DEF CRChain, CopyBehind
  <1>3. ChildChain'
    BY <1>1 DEF ChildChain
  <1>4. Reported'
    BY <1>1 DEF Reported, Distinct
  <1>5. Written'
    BY <1>1, SameHash DEF Written, Distinct
  <1> QED
    BY <1>2, <1>3, <1>4, <1>5 DEF SyncInv

(* Add: create, update, leave alone, or fail. *)
LEMMA SyncAdd == TypeOK /\ TypeOK' /\ SyncInv /\ Add => SyncInv'
  <1> SUFFICES ASSUME TypeOK, TypeOK', SyncInv, Add, First' PROVE SyncInv'
    BY DEF SyncInv, Add, others
  <1>1. UNCHANGED <<crs, uid, wants>> /\ First /\ pc = "add"
    BY DEF Add, others, First, cr
  <1>2. /\ hdb' \in {None, hdb} /\ pc' \in {"idle", "report"}
        /\ pc' # "idle" => hdb' = hdb
    BY DEF Add, Continue, processRequeue
  <1>3. hdb \in HStreamDB /\ hdb.uid = 1
    BY <1>1 DEF SyncInv, CopyBehind, TypeOK
  <1>4. CASE children' = Created
    <2> DEFINE o == [owner |-> SetControllerReference(hdb), want |-> hdb.want, gen |-> hdb.gen]
    <2>1. o \in Object /\ o.owner = 1 /\ o.want = hdb.want /\ o.gen = hdb.gen
      BY <1>3, Fields DEF Object, SetControllerReference
    <2>2. children' = Append(children, o)
      BY <1>4 DEF Created
    <2> HIDE DEF o
    <2> QED
      BY <1>1, <1>2, <2>1, <2>2, SyncWrite
  <1>5. CASE childSeen # None /\ children' = Updated
    <2> DEFINE o == [owner |-> childSeen.owner, want |-> hdb.want, gen |-> hdb.gen]
    <2>1. childSeen.owner = 1
      BY <1>1, <1>5, Ends DEF SyncInv, ChildChain, childSeen, TypeOK
    <2>2. o \in Object /\ o.owner = 1 /\ o.want = hdb.want /\ o.gen = hdb.gen
      BY <1>3, <2>1, Fields DEF Object
    <2>3. children' = Append(children, o)
      BY <1>5 DEF Updated
    <2> HIDE DEF o
    <2> QED
      BY <1>1, <1>2, <2>2, <2>3, SyncWrite
  <1>6. CASE UNCHANGED children /\ pc' = "idle"
    BY <1>1, <1>2, <1>6, SyncNoWrite
  <1>7. CASE UNCHANGED children /\ childSeen # None /\ ~isHashChanged(childSeen, hdb)
    BY <1>1, <1>2, <1>7, SyncNoWrite
  <1> QED
    BY <1>4, <1>5, <1>6, <1>7 DEF Add, processRequeue

(* Report: a new status of the current version, or nothing. *)
LEMMA SyncReport == TypeOK /\ TypeOK' /\ SyncInv /\ Report => SyncInv'
  <1> DEFINE new == [hdb EXCEPT !.ready = hdb.gen]
  <1> SUFFICES ASSUME TypeOK, TypeOK', SyncInv, Report, First' PROVE SyncInv'
    BY DEF SyncInv, Report, others
  <1>1. /\ UNCHANGED <<children, uid, wants, child>> /\ pc = "report" /\ pc' = "idle"
        /\ \/ UNCHANGED crs
           \/ hdb = cr /\ crs' = Append(crs, new)
    BY DEF Report, others, child, processRequeue, WithStatus
  <1>2. /\ Len(crs) \in Nat /\ Len(crs) >= 1 /\ crs \in Seq(HStreamDB \cup {None})
        /\ \A i \in 1 .. Len(crs) : crs[i] \in HStreamDB \cup {None}
    BY Ends DEF TypeOK
  <1>3. CASE UNCHANGED crs
    <2>1. UNCHANGED cr /\ First
      BY <1>1, <1>3 DEF cr, First
    <2>2. CRChain' /\ CopyBehind' /\ uid' >= 1
      BY <1>1, <1>3, <2>1 DEF SyncInv, CRChain, CopyBehind
    <2>3. ChildChain'
      BY <1>1, <1>3, <2>1 DEF SyncInv, ChildChain
    <2>4. Written' /\ Reported'
      BY <1>1, <2>1 DEF SyncInv, Written, Reported, Distinct
    <2> QED
      BY <2>2, <2>3, <2>4 DEF SyncInv
  <1>4. CASE hdb = cr /\ crs' = Append(crs, new)
    <2>1. /\ new \in HStreamDB /\ hdb \in HStreamDB /\ new # None
          /\ new.uid = hdb.uid /\ new.gen = hdb.gen /\ new.want = hdb.want
          /\ new.ready = hdb.gen
      BY <1>1, StatusTypes, NoneAssumption DEF TypeOK, HStreamDB
    <2> HIDE DEF new
    <2>2. /\ Len(crs') = Len(crs) + 1 /\ crs'[Len(crs) + 1] = new
          /\ \A i \in 1 .. Len(crs) : crs'[i] = crs[i]
      BY <1>2, <1>4, <2>1, AppendVersion
    <2>3. cr' = new /\ First /\ crs'[1] = crs[1]
      BY <1>1, <1>2, <1>4, <2>1, <2>2, NoneAssumption DEF cr, First
    <2>4. CRChain /\ CopyBehind /\ ChildChain /\ Written /\ uid >= 1 /\ Len(wants) \in Nat
      BY <2>3 DEF SyncInv, TypeOK
    <2>5. hdb.gen = Len(wants) /\ hdb = crs[Len(crs)]
      BY <1>4, <2>4 DEF CRChain, cr
    <2>6. CRChain'
      <3>1. cr'.gen = Len(wants')
        BY <1>1, <2>1, <2>3, <2>5
      <3> SUFFICES ASSUME NEW i \in 1 .. Len(crs')
                   PROVE  /\ i > 1 => crs'[i] # None
                          /\ crs'[i] # None =>
                               /\ crs'[i].uid = 1
                               /\ crs'[i].gen \in 1 .. Len(wants)
                               /\ crs'[i].want = wants[crs'[i].gen]
                               /\ crs'[i].ready <= crs'[i].gen
                               /\ \A j \in i .. Len(crs') : crs'[i].gen <= crs'[j].gen
        BY <1>1, <3>1 DEF CRChain
      <3>2. CASE i = Len(crs) + 1
        <4>1. crs'[i] = new /\ i > 1 /\ \A j \in i .. Len(crs') : j = i
          BY <3>2, <1>2, <2>2
        <4>2. /\ new.uid = 1 /\ new.gen \in 1 .. Len(wants) /\ new.want = wants[new.gen]
              /\ new.ready <= new.gen
          BY <1>1, <2>1, <2>4, <2>5, Fields DEF CopyBehind
        <4> QED
          BY <2>1, <2>4, <4>1, <4>2
      <3>3. CASE i \in 1 .. Len(crs)
        <4>1. crs'[i] = crs[i] /\ crs[Len(crs)] = hdb /\ Len(crs) \in 1 .. Len(crs)
          BY <3>3, <1>2, <2>2, <2>5
        <4>2. /\ i > 1 => crs[i] # None
              /\ crs[i] # None => /\ crs[i].uid = 1
                                  /\ crs[i].gen \in 1 .. Len(wants)
                                  /\ crs[i].want = wants[crs[i].gen]
                                  /\ crs[i].ready <= crs[i].gen
                                  /\ \A j \in i .. Len(crs) : crs[i].gen <= crs[j].gen
          BY <3>3, <2>4 DEF CRChain
        <4>3. ASSUME crs[i] # None, NEW j \in i .. Len(crs') PROVE crs[i].gen <= crs'[j].gen
          <5>1. CASE j = Len(crs) + 1
            BY <3>3, <5>1, <1>2, <2>1, <2>2, <4>1, <4>2, <4>3
          <5>2. CASE j \in i .. Len(crs)
            BY <3>3, <5>2, <1>2, <2>2, <4>2, <4>3
          <5> QED
            BY <3>3, <5>1, <5>2, <1>2, <2>2
        <4> QED
          BY <4>1, <4>2, <4>3
      <3> QED
        BY <3>2, <3>3, <1>2, <2>2
    <2>7. CopyBehind' /\ Written' /\ uid' >= 1
      BY <1>1, <2>4 DEF CopyBehind, Written
    <2>8. ChildChain'
      BY <1>1, <2>3, <2>4 DEF ChildChain
    <2>9. Reported'
      BY <1>1, <2>1, <2>3, <2>4 DEF Reported, Written, Distinct
    <2> QED
      BY <2>6, <2>7, <2>8, <2>9 DEF SyncInv
  <1> QED
    BY <1>1, <1>3, <1>4

(* Delivering a version of the CR moves the cache on. *)
LEMMA SyncSyncCR == TypeOK /\ SyncInv /\ SyncCR => SyncInv'
  <1> SUFFICES ASSUME TypeOK, SyncInv, SyncCR, First' PROVE SyncInv'
    BY DEF SyncInv, SyncCR, others
  <1>1. UNCHANGED <<children, uid, wants, pc, hdb, child>> /\ Len(crs) > 1 /\ crs' = Tail(crs)
    BY DEF SyncCR, others, child
  <1>2. /\ Len(crs) \in Nat /\ crs \in Seq(HStreamDB \cup {None})
        /\ \A i \in 1 .. Len(crs) : crs[i] \in HStreamDB \cup {None}
    BY Ends DEF TypeOK
  <1>3. Len(crs') = Len(crs) - 1 /\ \A i \in 1 .. Len(crs) - 1 : crs'[i] = crs[i + 1]
    BY <1>1, <1>2, TailVersion
  <1>4. cr' = cr /\ First /\ crs'[1] = crs[2]
    BY <1>1, <1>2, <1>3 DEF cr, First
  <1>5. CRChain /\ CopyBehind /\ ChildChain /\ Written /\ Reported /\ uid >= 1 /\ Len(wants) \in Nat
    BY <1>4 DEF SyncInv, TypeOK
  <1>6. crs[2] # None /\ (crs[1] # None => crs[1].gen <= crs[2].gen) /\ crs[2].gen \in Nat
    BY <1>1, <1>2, <1>5 DEF CRChain
  <1>7. CRChain'
    <2> SUFFICES ASSUME NEW i \in 1 .. Len(crs')
                 PROVE  /\ crs'[i] # None
                        /\ crs'[i].uid = 1
                        /\ crs'[i].gen \in 1 .. Len(wants)
                        /\ crs'[i].want = wants[crs'[i].gen]
                        /\ crs'[i].ready <= crs'[i].gen
                        /\ \A j \in i .. Len(crs') : crs'[i].gen <= crs'[j].gen
      BY <1>1, <1>4, <1>5 DEF CRChain
    <2>1. i + 1 \in 1 .. Len(crs) /\ i + 1 > 1 /\ crs'[i] = crs[i + 1]
      BY <1>2, <1>3
    <2>2. /\ crs[i + 1] # None /\ crs[i + 1].uid = 1 /\ crs[i + 1].gen \in 1 .. Len(wants)
          /\ crs[i + 1].want = wants[crs[i + 1].gen] /\ crs[i + 1].ready <= crs[i + 1].gen
          /\ \A j \in i + 1 .. Len(crs) : crs[i + 1].gen <= crs[j].gen
      BY <2>1, <1>5 DEF CRChain
    <2>3. ASSUME NEW j \in i .. Len(crs') PROVE crs'[i].gen <= crs'[j].gen
      <3>1. j \in 1 .. Len(crs) - 1 /\ j + 1 \in i + 1 .. Len(crs)
        BY <2>1, <1>2, <1>3
      <3> QED
        BY <3>1, <2>1, <2>2, <1>3
    <2> QED
      BY <2>1, <2>2, <2>3
  <1>8. CopyBehind'
    BY <1>1, <1>2, <1>4, <1>5, <1>6, Fields DEF CopyBehind
  <1>9. ChildChain'
    <2>1. crs[1] # None => crs[1].gen \in Nat
      BY <1>1, <1>2, Fields
    <2> QED
      BY <2>1, <1>1, <1>4, <1>5, <1>6 DEF ChildChain
  <1>10. Written' /\ Reported' /\ uid' >= 1
    BY <1>1, <1>4, <1>5 DEF Written, Reported, Distinct
  <1> QED
    BY <1>7, <1>8, <1>9, <1>10 DEF SyncInv

(* The versions of the child after a delivery or a status update: those    *)
(* that were there, in the same order.                                     *)
LEMMA SyncVersions ==
  ASSUME TypeOK, SyncInv, First, UNCHANGED <<crs, uid, wants, pc, hdb, child>>,
         Len(children') \in Nat, Len(children') >= 1,
         NEW f \in [1 .. Len(children') -> 1 .. Len(children)],
         \A i \in 1 .. Len(children') : children'[i] = children[f[i]],
         \A i, j \in 1 .. Len(children') : i <= j => f[i] <= f[j],
         \A i \in 1 .. Len(children') : i > 1 => f[i] > 1 \/ children[1] # None
  PROVE  SyncInv'
  <1>1. /\ CRChain /\ CopyBehind /\ ChildChain /\ Written /\ Reported /\ uid >= 1
        /\ UNCHANGED cr
    BY DEF SyncInv, cr
  <1>2. Len(children) \in Nat
    BY DEF TypeOK
  <1>3. CRChain' /\ CopyBehind' /\ Written' /\ Reported' /\ uid' >= 1
    BY <1>1 DEF CRChain, CopyBehind, Written, Reported, Distinct
  <1>4. ChildChain'
    <2> SUFFICES ASSUME NEW i \in 1 .. Len(children')
                 PROVE  /\ i > 1 => children'[i] # None
                        /\ children'[i] # None =>
                             /\ children'[i].owner = 1
                             /\ crs[1] # None
                             /\ children'[i].gen \in 1 .. Len(wants)
                             /\ children'[i].want = wants[children'[i].gen]
                             /\ children'[i].gen <= crs[1].gen
                             /\ pc # "idle" => children'[i].gen <= hdb.gen
                             /\ \A j \in i .. Len(children') : children'[i].gen <= children'[j].gen
      BY DEF ChildChain
    <2>1. f[i] \in 1 .. Len(children) /\ children'[i] = children[f[i]]
      OBVIOUS
    <2>2. i > 1 => children'[i] # None
      BY <2>1, <1>1 DEF ChildChain
    <2>3. ASSUME children'[i] # None, NEW j \in i .. Len(children')
          PROVE  children'[i].gen <= children'[j].gen
      <3>1. j \in 1 .. Len(children') /\ f[i] <= f[j] /\ f[j] \in 1 .. Len(children)
        OBVIOUS
      <3>2. f[j] \in f[i] .. Len(children)
        BY <2>1, <3>1, <1>2
      <3> QED
        BY <2>1, <2>3, <3>1, <3>2, <1>1 DEF ChildChain
    <2> QED
      BY <2>1, <2>2, <2>3, <1>1 DEF ChildChain
  <1> QED
    BY <1>3, <1>4 DEF SyncInv

(* Delivering a version of the child. *)
LEMMA SyncSyncChild == TypeOK /\ SyncInv /\ SyncChild => SyncInv'
  <1> SUFFICES ASSUME TypeOK, SyncInv, SyncChild, First' PROVE SyncInv'
    BY DEF SyncInv, SyncChild, others
  <1>1. /\ UNCHANGED <<crs, uid, wants, pc, hdb>> /\ First
        /\ Len(children) > 1 /\ children' = Tail(children)
    BY DEF SyncChild, others, First, cr
  <1>2. Len(children) \in Nat /\ children \in Seq(Object \cup {None})
    BY DEF TypeOK
  <1>3. /\ Len(children') = Len(children) - 1
        /\ \A i \in 1 .. Len(children) - 1 : children'[i] = children[i + 1]
    BY <1>1, <1>2, TailVersion
  <1>4. UNCHANGED child
    BY <1>1, <1>2, <1>3 DEF child
  <1> DEFINE f == [i \in 1 .. Len(children') |-> i + 1]
  <1>5. f \in [1 .. Len(children') -> 1 .. Len(children)]
    BY <1>2, <1>3
  <1>6. \A i \in 1 .. Len(children') : children'[i] = children[f[i]] /\ f[i] > 1
    BY <1>2, <1>3
  <1>7. \A i, j \in 1 .. Len(children') : i <= j => f[i] <= f[j]
    BY <1>2, <1>3
  <1>8. /\ UNCHANGED <<crs, uid, wants, pc, hdb, child>> /\ First
        /\ Len(children') \in Nat /\ Len(children') >= 1
    BY <1>1, <1>2, <1>3, <1>4
  <1> HIDE DEF f
  <1>9. /\ \A i \in 1 .. Len(children') : children'[i] = children[f[i]]
        /\ \A i \in 1 .. Len(children') : i > 1 => f[i] > 1 \/ children[1] # None
    BY <1>6
  <1> QED
    BY ONLY TypeOK, SyncInv, <1>5, <1>7, <1>8, <1>9, SyncVersions

(* A status update of the child. *)
LEMMA SyncChildStatus == TypeOK /\ SyncInv /\ ChildStatus => SyncInv'
  <1> SUFFICES ASSUME TypeOK, SyncInv, ChildStatus, First' PROVE SyncInv'
    BY DEF SyncInv, ChildStatus
  <1>1. /\ UNCHANGED <<crs, uid, wants, pc, hdb>> /\ First
        /\ child # None /\ children' = Append(children, child)
    BY DEF ChildStatus, First, cr
  <1>2. /\ Len(children) \in Nat /\ Len(children) >= 1 /\ children \in Seq(Object \cup {None})
        /\ child \in Object \cup {None}
    BY Ends, VersionTypes DEF TypeOK
  <1>3. /\ Len(children') = Len(children) + 1
        /\ children'[Len(children) + 1] = child
        /\ \A i \in 1 .. Len(children) : children'[i] = children[i]
    BY <1>1, <1>2, AppendVersion
  <1>4. UNCHANGED child
    BY <1>2, <1>3 DEF child
  <1> DEFINE f == [i \in 1 .. Len(children') |->
                     IF i = Len(children) + 1 THEN Len(children) ELSE i]
  <1>5. f \in [1 .. Len(children') -> 1 .. Len(children)]
    BY <1>2, <1>3
  <1>6. \A i \in 1 .. Len(children') : children'[i] = children[f[i]]
    BY <1>2, <1>3 DEF child
  <1>7. \A i, j \in 1 .. Len(children') : i <= j => f[i] <= f[j]
    BY <1>2, <1>3
  <1>8. \A i \in 1 .. Len(children') : i > 1 => f[i] > 1 \/ children[1] # None
    BY <1>1, <1>2, <1>3 DEF child
  <1>9. /\ UNCHANGED <<crs, uid, wants, pc, hdb, child>> /\ First
        /\ Len(children') \in Nat /\ Len(children') >= 1
    BY <1>1, <1>2, <1>3, <1>4
  <1> HIDE DEF f
  <1> QED
    BY ONLY TypeOK, SyncInv, <1>5, <1>6, <1>7, <1>8, <1>9, SyncVersions

(* After a restart the caches hold the current versions. *)
LEMMA SyncCrash == TypeOK /\ SyncInv /\ Crash => SyncInv'
  <1> SUFFICES ASSUME TypeOK, SyncInv, Crash, First' PROVE SyncInv'
    BY DEF SyncInv, Crash, others
  <1>1. /\ UNCHANGED <<uid, wants>> /\ pc' = "idle"
        /\ crs' = <<cr>> /\ children' = <<child>>
    BY DEF Crash, others
  <1>2. /\ Len(crs') = 1 /\ crs'[1] = cr /\ Len(children') = 1 /\ children'[1] = child
        /\ cr' = cr /\ child' = child
    BY <1>1 DEF cr, child
  <1>3. First
    BY <1>1, <1>2 DEF First
  <1>4. CRChain /\ ChildChain /\ Reported /\ uid >= 1
    BY <1>3 DEF SyncInv
  <1>5. /\ Len(crs) \in Nat /\ Len(crs) >= 1 /\ Len(children) \in Nat /\ Len(children) >= 1
        /\ crs[1] \in HStreamDB \cup {None} /\ Len(wants) \in Nat
    BY Ends DEF TypeOK
  <1>6. cr # None /\ cr.gen \in Nat /\ cr.uid = 1 /\ cr.gen \in 1 .. Len(wants)
        /\ cr.want = wants[cr.gen] /\ cr.ready <= cr.gen /\ cr.gen = Len(wants)
        /\ (crs[1] # None => crs[1].gen <= cr.gen)
    BY <1>3, <1>4, <1>5 DEF CRChain, First, cr
  <1>7. CRChain'
    BY <1>1, <1>2, <1>6 DEF CRChain
  <1>8. CopyBehind' /\ Written' /\ uid' >= 1
    BY <1>1, <1>4 DEF CopyBehind, Written
  <1>9. ChildChain'
    <2>1. child # None =>
            /\ child.owner = 1 /\ child.gen \in 1 .. Len(wants)
            /\ child.want = wants[child.gen]
            /\ child.gen <= crs[1].gen /\ crs[1] # None
      BY <1>4, <1>5 DEF ChildChain, child
    <2> QED
      BY <2>1, <1>1, <1>2, <1>5, <1>6, Fields DEF ChildChain
  <1>10. Reported'
    BY <1>1, <1>2, <1>4 DEF Reported, Distinct
  <1> QED
    BY <1>7, <1>8, <1>9, <1>10 DEF SyncInv

(* The collector leaves the child of the first CR alone. *)
LEMMA SyncCollect == TypeOK /\ SyncInv /\ GarbageCollect => SyncInv'
  <1> SUFFICES ASSUME TypeOK, SyncInv, GarbageCollect, First' PROVE FALSE
    BY DEF SyncInv, GarbageCollect, others
  <1>1. UNCHANGED <<crs, uid>> /\ child # None /\ (cr # None => cr.uid # child.owner)
    BY DEF GarbageCollect, others
  <1>2. First
    BY <1>1 DEF First, cr
  <1>3. Len(crs) \in Nat /\ Len(crs) >= 1 /\ Len(children) \in Nat /\ Len(children) >= 1
    BY Ends DEF TypeOK
  <1>4. cr.uid = 1 /\ child.owner = 1
    BY <1>1, <1>2, <1>3 DEF SyncInv, First, CRChain, ChildChain, cr, child
  <1> QED
    BY <1>1, <1>2, <1>4 DEF First

(* An edit makes a new generation. *)
LEMMA SyncEdit == TypeOK /\ SyncInv /\ UserEdit => SyncInv'
  <1> SUFFICES ASSUME TypeOK, SyncInv, UserEdit, First' PROVE SyncInv'
    BY DEF SyncInv, UserEdit
  <1>1. UNCHANGED <<children, uid, pc, hdb, child>> /\ cr # None /\ First
    BY DEF UserEdit, child, First
  <1>2. PICK c \in Contents :
          /\ crs' = Append(crs, [uid |-> cr.uid, gen |-> cr.gen + 1, want |-> c,
                                 ready |-> cr.ready])
          /\ wants' = Append(wants, c)
    BY DEF UserEdit
  <1> DEFINE new == [uid |-> cr.uid, gen |-> cr.gen + 1, want |-> c, ready |-> cr.ready]
  <1>3. /\ Len(crs) \in Nat /\ Len(crs) >= 1 /\ crs \in Seq(HStreamDB \cup {None})
        /\ \A i \in 1 .. Len(crs) : crs[i] \in HStreamDB \cup {None}
        /\ Len(wants) \in Nat /\ wants \in Seq(Contents) /\ cr \in HStreamDB
    BY <1>1, Ends, VersionTypes DEF TypeOK
  <1>4. /\ new \in HStreamDB /\ new # None
        /\ new.uid = cr.uid /\ new.gen = cr.gen + 1 /\ new.want = c /\ new.ready = cr.ready
    BY <1>3, Fields, NoneAssumption DEF HStreamDB
  <1>5. crs' = Append(crs, new)
    BY <1>2
  <1> HIDE DEF new
  <1>6. /\ Len(crs') = Len(crs) + 1 /\ crs'[Len(crs) + 1] = new
        /\ \A i \in 1 .. Len(crs) : crs'[i] = crs[i]
    BY <1>3, <1>4, <1>5, AppendVersion
  <1>7. /\ Len(wants') = Len(wants) + 1 /\ wants'[Len(wants) + 1] = c
        /\ \A i \in 1 .. Len(wants) : wants'[i] = wants[i]
    BY <1>2, <1>3, AppendVersion
  <1>8. cr' = new /\ crs'[1] = crs[1]
    BY <1>3, <1>6 DEF cr
  <1>9. CRChain /\ CopyBehind /\ ChildChain /\ Written /\ Reported /\ uid >= 1
    BY <1>1 DEF SyncInv
  <1>10. /\ cr.gen = Len(wants) /\ cr.uid = 1 /\ cr.ready <= cr.gen /\ cr.ready \in Nat
         /\ cr = crs[Len(crs)]
    BY <1>1, <1>3, <1>9, Fields DEF CRChain, cr
  <1>11. CRChain'
    <2>1. cr'.gen = Len(wants')
      BY <1>4, <1>7, <1>8, <1>10
    <2> SUFFICES ASSUME NEW i \in 1 .. Len(crs')
                 PROVE  /\ i > 1 => crs'[i] # None
                        /\ crs'[i] # None =>
                             /\ crs'[i].uid = 1
                             /\ crs'[i].gen \in 1 .. Len(wants')
                             /\ crs'[i].want = wants'[crs'[i].gen]
                             /\ crs'[i].ready <= crs'[i].gen
                             /\ \A j \in i .. Len(crs') : crs'[i].gen <= crs'[j].gen
      BY <2>1 DEF CRChain
    <2>2. CASE i = Len(crs) + 1
      BY <2>2, <1>3, <1>4, <1>6, <1>7, <1>10
    <2>3. CASE i \in 1 .. Len(crs)
      <3>1. crs'[i] = crs[i] /\ (i > 1 => crs[i] # None)
        BY <2>3, <1>6, <1>9 DEF CRChain
      <3>2. crs[i] # None =>
              /\ crs[i].uid = 1 /\ crs[i].gen \in 1 .. Len(wants)
              /\ crs[i].want = wants[crs[i].gen] /\ crs[i].ready <= crs[i].gen
              /\ \A j \in i .. Len(crs) : crs[i].gen <= crs[j].gen
        BY <2>3, <1>9 DEF CRChain
      <3>3. ASSUME crs[i] # None, NEW j \in i .. Len(crs')
            PROVE  crs'[i].gen <= crs'[j].gen
        <4>1. CASE j = Len(crs) + 1
          BY <4>1, <3>1, <3>2, <3>3, <1>3, <1>4, <1>6, <1>10
        <4>2. CASE j \in i .. Len(crs)
          BY <4>2, <2>3, <3>1, <3>2, <3>3, <1>3, <1>6
        <4> QED
          BY <4>1, <4>2, <2>3, <1>3, <1>6
      <3> QED
        BY <3>1, <3>2, <3>3, <1>3, <1>7
    <2> QED
      BY <2>2, <2>3, <1>3, <1>6
  <1>12. CopyBehind'
    BY <1>1, <1>3, <1>7, <1>8, <1>9 DEF CopyBehind
  <1>13. ChildChain'
    BY <1>1, <1>3, <1>7, <1>8, <1>9 DEF ChildChain
  <1>14. Distinct' => Distinct
    BY <1>3, <1>7 DEF Distinct
  <1>15. Written' /\ uid' >= 1
    BY <1>1, <1>9, <1>14 DEF Written
  <1>16. Reported'
    BY <1>3, <1>4, <1>8, <1>10, Fields DEF Reported
  <1> QED
    BY <1>11, <1>12, <1>13, <1>15, <1>16 DEF SyncInv

(* A deleted CR, and one that is created again, is not the first. *)
LEMMA SyncDelete == TypeOK /\ SyncInv /\ (UserDelete \/ UserCreate) => SyncInv'
  <1> SUFFICES ASSUME TypeOK, SyncInv, UserDelete \/ UserCreate
               PROVE  uid' >= 1 /\ ~First'
    BY DEF SyncInv
  <1>1. CASE UserDelete
    <2>1. crs' = Append(crs, None) /\ crs \in Seq(HStreamDB \cup {None}) /\ UNCHANGED uid
      BY <1>1 DEF UserDelete, TypeOK, others
    <2>2. cr' = None
      BY <2>1, AppendVersion DEF cr
    <2> QED
      BY <2>1, <2>2 DEF First, SyncInv
  <1>2. CASE UserCreate
    BY <1>2 DEF UserCreate, First, SyncInv, TypeOK
  <1> QED
    BY <1>1, <1>2

(* The order of the versions is inductive: generations never go back from  *)
(* the API server to the cache, the worker's copy and the child.           *)
THEOREM SyncInvariant == Spec => []SyncInv
  <1>1. TypeOK /\ TypeOK' /\ SyncInv /\ [Next]_vars => SyncInv'
    <2> SUFFICES ASSUME TypeOK, TypeOK', SyncInv, [Next]_vars PROVE SyncInv'
      OBVIOUS
    <2>1. CASE Worker
      BY <2>1, SyncReconcile, SyncAdd, SyncReport DEF Worker
    <2>2. CASE RequeueAfter \/ UNCHANGED vars
      <3>1. UNCHANGED <<crs, children, pc, hdb, uid, wants>>
        BY <2>2 DEF RequeueAfter, vars, others
      <3>2. UNCHANGED <<cr, child, Distinct>>
        BY <3>1 DEF cr, child, Distinct
      <3>3. UNCHANGED <<First, CRChain, CopyBehind, Written, Reported>>
        BY <3>1, <3>2 DEF First, CRChain, CopyBehind, Written, Reported
      <3>4. UNCHANGED ChildChain
        BY <3>1 DEF ChildChain
      <3> QED
        BY <3>1, <3>3, <3>4 DEF SyncInv
    <2>3. CASE Environment
      BY <2>2, <2>3, SyncSyncCR, SyncSyncChild, SyncCrash, SyncChildStatus, SyncCollect,
         SyncEdit, SyncDelete DEF Environment
    <2> QED
      BY <2>1, <2>2, <2>3 DEF Next
  <1> QED
    BY <1>1, SyncInit, TypeCorrect, PTL DEF Spec

(* Ready for the current generation means that the child has the content   *)
(* of the current spec, for any contents, number of edits, lag of the      *)
(* caches, foreign writes and faults, as long as the CR was not deleted    *)
(* and no edit went back to an earlier content.                            *)
THEOREM ReadyAlwaysMeansApplied == Spec => []ReadyMeansApplied
  <1>1. TypeOK /\ SyncInv => ReadyMeansApplied
    <2> SUFFICES ASSUME TypeOK, SyncInv, Undisturbed, cr.ready = cr.gen PROVE Applied
      BY DEF ReadyMeansApplied
    <2>1. First /\ Distinct
      BY DEF Undisturbed, First, Distinct
    <2>2. CRChain /\ ChildChain /\ child # None /\ child.gen = cr.gen
      BY <2>1 DEF SyncInv, Reported
    <2>3. Len(crs) \in Nat /\ Len(crs) >= 1 /\ Len(children) \in Nat /\ Len(children) >= 1
      BY Ends DEF TypeOK
    <2>4. cr.want = wants[cr.gen]
      BY <2>1, <2>2, <2>3 DEF CRChain, cr, First
    <2>5. child.want = wants[child.gen]
      BY <2>2, <2>3 DEF ChildChain, child
    <2> QED
      BY <2>2, <2>4, <2>5 DEF Applied
  <1> QED
    BY <1>1, TypeCorrect, SyncInvariant, PTL
=============================================================================
