-------------------------- MODULE MCContainerPorts --------------------------
(***************************************************************************)
(* Instances of ContainerPorts for TLC: one component at a time has args   *)
(* of up to MaxWords words and ports of its own.                           *)
(***************************************************************************)
EXTENDS ContainerPorts

CONSTANT MaxWords \* bound on the number of words in the args

MCRank ==
  LET names == <<"Dplain.hstream.privateAddress", "Dserver.port", "a", "address",
                 "admin-port", "advertised-address", "b", "bind-address",
                 "bootstrap-expect", "c", "config-path", "disco-config", "disco-mode",
                 "enable-maintenance-manager",
                 "enable-safety-check-periodic-metadata-update", "gossip-port",
                 "http-addr", "internal-port", "join-attempts", "join-interval",
                 "local-log-store-path", "maintenance-log-snapshotting",
                 "metastore-uri", "name", "num-shards", "p", "port", "seed-nodes",
                 "server-id", "store-admin-host", "store-config">>
  IN [n \in ToSet(names) |-> CHOOSE i \in DOMAIN names : names[i] = n]

MCNumberOf ==
  [n \in {"7", "8", "5177", "6570", "6571"} |->
    CASE n = "7" -> 7 [] n = "8" -> 8
      [] n = "5177" -> 5177 [] n = "6570" -> 6570 [] n = "6571" -> 6571]

MCPortOf == [n \in {"h:4002"} |-> 4002]

MCShells == {text("bash"), word(1, "c")}

assign(d, n, w) == [d |-> d, n |-> n, v |-> w]

(* The args of admin servers have every kind of word, the others those     *)
(* that the code for their component tells apart.                          *)
words ==
  [hmeta   |-> {flag("http-addr"), text("h:4002"), assign(2, "http-addr", text("h:4002")),
                assign(2, "a", word(1, "8")), word(2, ""), Empty},
   admin   |-> {flag("admin-port"), text("7"), Empty, word(1, ""), word(2, ""),
                word(3, "a"), assign(0, "", text("7"))},
   hstore  |-> {flag("port"), flag("name"), word(1, "name"), text("7"), text("x"),
                assign(2, "a", word(1, "8"))},
   hserver |-> {flag("port"), flag("internal-port"), flag("seed-nodes"), text("7"),
                text("bash"), Empty},
   console |-> {word(1, "Dserver.port"), assign(1, "Dserver.port", text("8")),
                word(1, "Dplain.hstream.privateAddress"), text("7"), text("x"), word(1, "")}]

portsOf ==
  [hmeta   |-> {<<>>, <<port("port", 9)>>},
   admin   |-> {<<>>, <<port("admin-port", 9)>>},
   hstore  |-> {<<>>, <<port("port", 9), port("a", 10)>>},
   hserver |-> {<<>>, <<port("port", 9), port("a", 10)>>},
   console |-> {<<>>, <<port("server-port", 9)>>}]

bare == [c \in Components |-> [args |-> <<>>, ports |-> <<>>, command |-> FALSE, env |-> None]]
with(c, args) == [bare EXCEPT ![c].args = args]

(* Specs that are edited: values that change places, a flag that comes,    *)
(* another address of HMeta.                                               *)
MCEdits ==
  {with("hserver", <<flag("port"), text("7"), flag("internal-port"), text("8")>>),
   with("hserver", <<flag("port"), text("8"), flag("internal-port"), text("7")>>),
   with("hserver", <<flag("a"), text("7"), flag("b"), text("8")>>),
   with("hserver", <<flag("a"), text("8"), flag("b"), text("7")>>),
   with("hstore", <<flag("port"), text("7"), flag("gossip-port"), text("8")>>),
   with("hstore", <<flag("port"), text("8"), flag("gossip-port"), text("7")>>),
   with("hmeta", <<flag("http-addr"), text("h:4002")>>),
   bare}

MCSpecs ==
  {[with(c, args) EXCEPT ![c].ports = ps] :
     <<c, args, ps>> \in UNION {{<<c, args, ps>> :
        args \in SeqOf(words[c], MaxWords), ps \in portsOf[c]} : c \in Components}}
  \cup MCEdits
  \cup {[with("hserver", <<flag("port"), text("7")>>) EXCEPT !["hserver"].command = TRUE]}
  \cup {[with("hserver", <<flag("a"), text("7")>>) EXCEPT !["hserver"].ports = <<port("a", 10)>>]}
  \cup {[bare EXCEPT !["console"].env = w] : w \in {text("7"), text("x")}}

(* HMeta at another address, as in add_hmeta_test.go. *)
TestSpecs == {with("hmeta", <<flag("http-addr"), text("h:4002")>>)}
NoEdits == {}
=============================================================================
