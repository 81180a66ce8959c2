-------------------------- MODULE ClusterLifecycle --------------------------
(***************************************************************************)
(* What the HStreamDB controller promises about the life of a cluster,     *)
(* without caches, retries or a chain of steps: the store is bootstrapped, *)
(* this is announced in the status, only then is the server deployed, it   *)
(* is initialised, this is announced, and last the whole cluster is        *)
(* announced to be ready.  Nothing announced is withdrawn while the        *)
(* resource exists.                                                        *)
(***************************************************************************)

VARIABLES
  alive,           \* the custom resource exists
  storeUp,         \* the store was bootstrapped
  serverDeployed,  \* there is an HServer workload
  serverUp,        \* the servers were initialised
  announced        \* the conditions reported True

lifecycle == <<alive, storeUp, serverDeployed, serverUp, announced>>

Init ==
  /\ alive = TRUE
  /\ storeUp = FALSE
  /\ serverDeployed = FALSE
  /\ serverUp = FALSE
  /\ announced = {}

BootstrapStore ==
  /\ storeUp' = TRUE
  /\ UNCHANGED <<alive, serverDeployed, serverUp, announced>>

Announce(condition, fact) ==
  /\ alive /\ fact
  /\ announced' = announced \cup {condition}
  /\ UNCHANGED <<alive, storeUp, serverDeployed, serverUp>>

(* A worker that has not noticed the deletion may still deploy. *)
DeployServer ==
  /\ "HStoreReady" \in announced \/ (~alive /\ storeUp)
  /\ serverDeployed' = TRUE
  /\ UNCHANGED <<alive, storeUp, serverUp, announced>>

InitServer ==
  /\ (alive /\ serverDeployed /\ "HStoreReady" \in announced) \/ (~alive /\ storeUp)
  /\ serverUp' = TRUE
  /\ UNCHANGED <<alive, storeUp, serverDeployed, announced>>

Delete ==
  /\ alive' = FALSE
  /\ announced' = {}
  /\ UNCHANGED <<storeUp, serverDeployed, serverUp>>

RemoveServer ==
  /\ ~alive
  /\ serverDeployed' = FALSE
  /\ UNCHANGED <<alive, storeUp, serverUp, announced>>

Next ==
  \/ BootstrapStore
  \/ Announce("HStoreReady", storeUp)
  \/ DeployServer
  \/ InitServer
  \/ Announce("HServerReady", serverUp)
  \/ Announce("Ready", {"HStoreReady", "HServerReady"} \subseteq announced)
  \/ Delete
  \/ RemoveServer

Spec == Init /\ [][Next]_lifecycle
=============================================================================
