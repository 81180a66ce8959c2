----------------------- MODULE MCHStreamDBReconciler -----------------------
(***************************************************************************)
(* Instances of HStreamDBReconciler for TLC: small specs with one pod per  *)
(* component unless the run is about scaling.                              *)
(***************************************************************************)
EXTENDS HStreamDBReconciler

one == [replicas |-> 1, tmpl |-> "a"]
allOne == [w \in Workloads |-> one]
small == [allOne EXCEPT !["gateway"] = None, !["console"] = None]

(* A spec with components c and one shard; mra is not set. *)
spec(c) == [ext |-> FALSE, port |-> 6570, nshards |-> 1, mra |-> 0, comp |-> c]

MCTemplates == {"a", "b"}

(* Every component; the store has two pods. *)
FullSpec == {spec([allOne EXCEPT !["hstore"].replicas = 2])}

(* An edit that changes templates, the number of shards, of admin servers  *)
(* and the optional components and switches to an external HMeta cluster.  *)
EditSpecs ==
  {spec([allOne EXCEPT !["console"] = None, !["admin"].replicas = 2]),
   [spec([small EXCEPT !["hstore"].tmpl = "b", !["hserver"].tmpl = "b"])
      EXCEPT !.nshards = 2, !.ext = TRUE]}

(* An edit of the store, the servers, the gateway and HMeta. *)
LiveSpecs ==
  {spec([allOne EXCEPT !["console"] = None]),
   [spec([small EXCEPT !["hstore"].tmpl = "b", !["hserver"].tmpl = "b"])
      EXCEPT !.nshards = 2, !.ext = TRUE]}

(* A cluster without optional components and with an external HMeta. *)
DeleteSpecs == {[spec(small) EXCEPT !.ext = TRUE]}

(* spec.config left out, as in config/samples: the API server fills in no  *)
(* default for nshards.                                                    *)
NoConfigSpec == {[spec(small) EXCEPT !.nshards = 0]}
=============================================================================
