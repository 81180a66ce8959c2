----------------------------- MODULE ChildSync -----------------------------
(***************************************************************************)
(* How the HStreamDB controller keeps one child (a Service, StatefulSet or *)
(* Deployment) in line with the custom resource (CR), over edits that are  *)
(* reverted and over a CR that is deleted and created again.               *)
(*                                                                         *)
(* The controller creates the child or updates it when the hash of the     *)
(* wanted object differs from that of the object it reads, and at the end  *)
(* of the chain reports Ready.  It owns its children but does not watch    *)
(* them.  The other sub-reconcilers are left out, except that any of them  *)
(* may end a reconciliation early (a fault of Report).                     *)
(*                                                                         *)
(* Watches deliver every version of an object, in order and late: crs and  *)
(* children are the versions from the one in the cache (the first) to the  *)
(* one in the API server (the last).  A version is current when it is the  *)
(* only one, which is how the API server's check of resource versions      *)
(* appears here.                                                           *)
(***************************************************************************)
EXTENDS Integers, Sequences

CONSTANTS
  Contents,     \* what a spec may ask of the child; equal iff the hashes are
  MaxGen,       \* bound on metadata.generation: MaxGen - 1 edits
  MaxUid,       \* bound on the incarnations of the CR
  MaxLag,       \* bound on the versions of the child a creation may add to
  MaxWrites,    \* bound on the status updates of the child: pods settle
  MaxFaults,    \* bound on faults in a behaviour
  None          \* absence of an object

ASSUME ConstantsAssumption ==
  /\ MaxGen \in Nat \ {0}
  /\ MaxUid \in Nat \ {0}
  /\ MaxLag \in Nat \ {0, 1}
  /\ MaxWrites \in Nat
  /\ MaxFaults \in Nat

(* ready is the generation Ready was last reported for, 0 if none. *)
HStreamDB == [uid : Nat, gen : Nat, want : Contents, ready : Nat]

(* The child: its controlling owner and its content; gen, which no step of *)
(* the code reads, is the generation of the CR it was written for.         *)
Object == [owner : Nat \cup {None}, want : Contents, gen : Nat]

ASSUME NoneAssumption ==
  None \notin HStreamDB /\ None \notin Object /\ None \notin Nat

VARIABLES
  crs,          \* versions of the CR, from the cached to the current one
  children,     \* versions of the child, likewise
  queued,       \* "now": the CR is in the work queue, "later": a timer will add it
  pc,           \* "idle", or the worker's next step: "add", "report"
  hdb,          \* the worker's copy of the CR
  uid,          \* incarnations of the CR so far
  wants,        \* what each generation of the present incarnation asked for
  writes,       \* status updates of the child so far
  faults        \* faults so far

vars == <<crs, children, queued, pc, hdb, uid, wants, writes, faults>>
others == <<uid, wants, writes>>

cr == crs[Len(crs)]
crSeen == crs[1]
child == children[Len(children)]
childSeen == children[1]

-----------------------------------------------------------------------------
(* How a sub-reconciler ends. *)

Fault == faults < MaxFaults /\ faults' = faults + 1

(* Mutant: a conflict is forgotten and nothing is put back in the queue. *)
processRequeue_dropsConflict(curError) ==
  /\ pc' = "idle"
  /\ hdb' = None
  /\ queued' = queued \cup (IF curError = "error" THEN {"later"} ELSE {})

(* An error, and likewise a conflict, brings the CR back later. *)
processRequeue(curError) ==
  /\ pc' = "idle"
  /\ hdb' = None
  /\ queued' = queued \cup (IF curError = "nil" THEN {} ELSE {"later"})

Continue == pc' = "report" /\ UNCHANGED <<hdb, queued>>

-----------------------------------------------------------------------------
(* The worker. *)

(* Mutant: the chain runs even if the CR was not found. *)
Reconcile_ignoresNotFound ==
  /\ pc = "idle" /\ "now" \in queued
  /\ queued' = queued \ {"now"}
  /\ hdb' = crSeen
  /\ pc' = "add"
  /\ UNCHANGED <<crs, children, others, faults>>

Reconcile ==
  /\ pc = "idle" /\ "now" \in queued
  /\ queued' = queued \ {"now"}
  /\ hdb' = crSeen
  /\ pc' = IF crSeen = None THEN "idle" ELSE "add"
  /\ UNCHANGED <<crs, children, others, faults>>

(* Mutant: the child is created without an owner. *)
SetControllerReference_forgotten(h) == None

SetControllerReference(h) == h.uid

isHashChanged(old, h) == old.want # h.want

(* The versions after a Create, refused if there is a child, ... *)
Created == Append(children, [owner |-> SetControllerReference(hdb),
                             want |-> hdb.want, gen |-> hdb.gen])

(* ... and after an Update of the cached version, refused unless that is   *)
(* the current one.  The metadata, owner included, stays that of the       *)
(* existing child.                                                         *)
Updated == Append(children, [owner |-> childSeen.owner,
                             want |-> hdb.want, gen |-> hdb.gen])

(* Mutant: a conflict is taken for success. *)
Add_ignoresConflict ==
  /\ pc = "add"
  /\ \/ childSeen = None /\ child = None /\ children' = Created /\ Continue
     \/ childSeen = None /\ child # None /\ processRequeue("error") /\ UNCHANGED children
     \/ childSeen # None /\ Continue
          /\ children' = IF Len(children) = 1 /\ isHashChanged(childSeen, hdb)
                         THEN Updated ELSE children
  /\ UNCHANGED <<crs, others, faults>>

(* reconcile of the child's sub-reconciler: Get from the cache, then       *)
(* Create, Update or nothing.  A call that fails may have had effect.      *)
Add ==
  /\ pc = "add"
  /\ \/ /\ childSeen = None /\ child = None /\ Len(children) < MaxLag
        /\ children' = Created
        /\ Continue
        /\ UNCHANGED faults
     \/ /\ childSeen = None /\ child # None
        /\ processRequeue("error")
        /\ UNCHANGED <<children, faults>>
     \/ /\ childSeen # None /\ ~isHashChanged(childSeen, hdb)
        /\ Continue
        /\ UNCHANGED <<children, faults>>
     \/ /\ childSeen # None /\ isHashChanged(childSeen, hdb)
        /\ Len(children) = 1
        /\ children' = Updated
        /\ Continue
        /\ UNCHANGED faults
     \/ /\ childSeen # None /\ isHashChanged(childSeen, hdb)
        /\ Len(children) > 1
        /\ processRequeue(IF child = None THEN "error" ELSE "conflict")
        /\ UNCHANGED <<children, faults>>
     \/ /\ Fault
        /\ \/ UNCHANGED children
           \/ childSeen = None /\ child = None /\ Len(children) < MaxLag
                /\ children' = Created
           \/ childSeen # None /\ Len(children) = 1 /\ isHashChanged(childSeen, hdb)
                /\ children' = Updated
        /\ processRequeue("error")
  /\ UNCHANGED <<crs, others>>

(* The versions of the CR after a status update that makes it new; one     *)
(* that changes nothing makes no version.                                  *)
WithStatus(new) == IF new = cr THEN crs ELSE Append(crs, new)

(* updateStatus: report Ready for the generation of the copy, unless the   *)
(* copy is not the current version.                                        *)
Report ==
  LET new == [hdb EXCEPT !.ready = hdb.gen]
  IN  /\ pc = "report"
      /\ \/ /\ hdb = cr
            /\ crs' = WithStatus(new)
            /\ processRequeue("nil")
            /\ UNCHANGED faults
         \/ /\ hdb # cr
            /\ processRequeue(IF cr = None THEN "error" ELSE "conflict")
            /\ UNCHANGED <<crs, faults>>
         \/ /\ Fault
            /\ crs' \in {crs} \cup (IF hdb = cr THEN {WithStatus(new)} ELSE {})
            /\ processRequeue("error")
      /\ UNCHANGED <<children, others>>

Worker == Reconcile \/ Add \/ Report

-----------------------------------------------------------------------------
(* The work queue and the watches. *)

RequeueAfter ==
  /\ "later" \in queued
  /\ queued' = {"now"}
  /\ UNCHANGED <<crs, children, pc, hdb, others, faults>>

(* The event filter of SetupWithManager. *)
eventPasses(old, new) == old = None \/ new = None \/ old.gen # new.gen

SyncCR ==
  /\ Len(crs) > 1
  /\ crs' = Tail(crs)
  /\ queued' = queued \cup (IF eventPasses(crs[1], crs[2]) THEN {"now"} ELSE {})
  /\ UNCHANGED <<children, pc, hdb, others, faults>>

(* The cache of the children is kept up to date, but wakes nobody up. *)
SyncChild ==
  /\ Len(children) > 1
  /\ children' = Tail(children)
  /\ UNCHANGED <<crs, queued, pc, hdb, others, faults>>

(* The process dies and is started again: it lists everything. *)
Crash ==
  /\ Fault
  /\ crs' = <<cr>>
  /\ children' = <<child>>
  /\ queued' = IF cr = None THEN {} ELSE {"now"}
  /\ pc' = "idle"
  /\ hdb' = None
  /\ UNCHANGED others

-----------------------------------------------------------------------------
(* The rest of the cluster. *)

(* The workload controllers write the status of the child. *)
ChildStatus ==
  /\ child # None
  /\ writes < MaxWrites
  /\ writes' = writes + 1
  /\ children' = Append(children, child)
  /\ UNCHANGED <<crs, queued, pc, hdb, uid, wants, faults>>

(* A child whose owner is gone is deleted; a new CR of the same name has   *)
(* another uid.                                                            *)
GarbageCollect ==
  /\ child # None
  /\ child.owner # None
  /\ cr # None => cr.uid # child.owner
  /\ children' = Append(children, None)
  /\ UNCHANGED <<crs, queued, pc, hdb, others, faults>>

UserEdit ==
  /\ cr # None
  /\ cr.gen < MaxGen
  /\ \E c \in Contents \ {cr.want} :
       /\ crs' = Append(crs, [uid |-> cr.uid, gen |-> cr.gen + 1, want |-> c,
                              ready |-> cr.ready])
       /\ wants' = Append(wants, c)
  /\ UNCHANGED <<children, queued, pc, hdb, uid, writes, faults>>

UserDelete ==
  /\ cr # None
  /\ crs' = Append(crs, None)
  /\ UNCHANGED <<children, queued, pc, hdb, others, faults>>

UserCreate ==
  /\ cr = None
  /\ uid < MaxUid
  /\ uid' = uid + 1
  /\ \E c \in Contents :
       /\ crs' = Append(crs, [uid |-> uid + 1, gen |-> 1, want |-> c, ready |-> 0])
       /\ wants' = <<c>>
  /\ UNCHANGED <<children, queued, pc, hdb, writes, faults>>

Environment ==
  \/ RequeueAfter \/ SyncCR \/ SyncChild \/ Crash
  \/ ChildStatus \/ GarbageCollect
  \/ UserEdit \/ UserDelete \/ UserCreate

-----------------------------------------------------------------------------

Init ==
  /\ \E c \in Contents :
       /\ crs = <<None, [uid |-> 1, gen |-> 1, want |-> c, ready |-> 0]>>
       /\ wants = <<c>>
  /\ children = <<None>>
  /\ queued = {}
  /\ pc = "idle"
  /\ hdb = None
  /\ uid = 1
  /\ writes = 0
  /\ faults = 0

Next == Worker \/ Environment

Spec == Init /\ [][Next]_vars

(* The worker runs, timers expire, watches deliver and the garbage         *)
(* collector collects; nothing is assumed of users, status and faults.     *)
Fairness ==
  /\ WF_vars(Worker)
  /\ WF_vars(RequeueAfter)
  /\ WF_vars(SyncCR)
  /\ WF_vars(SyncChild)
  /\ WF_vars(GarbageCollect)

FairSpec == Spec /\ Fairness

-----------------------------------------------------------------------------
(* Properties. *)

(* Every variable keeps its type: in particular a worker in the chain      *)
(* holds a CR.                                                             *)
TypeOK ==
  /\ crs \in Seq(HStreamDB \cup {None}) /\ crs # <<>>
  /\ children \in Seq(Object \cup {None}) /\ children # <<>>
  /\ queued \in SUBSET {"now", "later"}
  /\ pc \in {"idle", "add", "report"}
  /\ hdb \in HStreamDB \cup {None}
  /\ pc # "idle" => hdb # None
  /\ uid \in Nat
  /\ wants \in Seq(Contents)
  /\ writes \in Nat
  /\ faults \in Nat

Applied == child # None /\ child.want = cr.want

(* The CR was never deleted and no edit went back to an earlier content. *)
Undisturbed ==
  /\ cr # None /\ uid = 1
  /\ \A i, j \in 1 .. Len(wants) : wants[i] = wants[j] => i = j

(* In that case Ready for the current generation means that the child has  *)
(* the content that the current spec asks for, however late the caches     *)
(* are, whoever else writes the child and wherever the worker was killed.  *)
ReadyMeansApplied == Undisturbed /\ cr.ready = cr.gen => Applied

(* And in that case the child gets there and stays there. *)
UndisturbedIsApplied == <>[](Undisturbed => Applied)

(* Children of deleted CRs disappear, also those that a worker which has   *)
(* not noticed the deletion creates afterwards, or updates for the next CR *)
(* of the same name.                                                       *)
OrphansCollected == <>[](child # None => cr # None /\ child.owner = cr.uid)

(* "synchronizing resources until the desired state is reached on the      *)
(* cluster": whatever happened before, the child of the CR is in the end   *)
(* what the spec asks for.                                                 *)
EventuallyApplied == <>[](cr # None => Applied)
=============================================================================
