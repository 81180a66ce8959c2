--------------------------- MODULE ContainerPorts ---------------------------
(***************************************************************************)
(* Where the parts of a cluster listen and where the operator sends the    *)
(* others: the ports and args of the pods, the ports of the Services, and  *)
(* the addresses written into args, probes and configuration, as the chain *)
(* of sub-reconcilers builds them from the args and ports of the user.     *)
(*                                                                         *)
(* A pass of the chain works on a copy of the spec, may end early at any   *)
(* step, and meets what passes for earlier specs left behind.  Caches are  *)
(* current here: HStreamDBReconciler and ChildSync are about stale ones.   *)
(* HMeta is the operator's own, and probes are those of the operator.      *)
(***************************************************************************)
EXTENDS FlagSet

CONSTANTS
  Specs,        \* specs a cluster starts with
  Edits,        \* those of them that are edited into one another
  MaxEdits,     \* bound on the edits
  Shells        \* words that begin with bash, sh or -c

Components == {"hmeta", "admin", "hstore", "hserver", "console"}

ASSUME SpecsAssumption ==
  \A s \in Specs \cup Edits, c \in Components : isArgs(s[c].args) /\ valuedArgs(s[c].args)

DefaultHMetaPort == port("rqlite", 4001)
DefaultAdminServerPort == port("admin-port", 6440)
DefaultHServerPort == port("port", 6570)
DefaultHServerInternalPort == port("internal-port", 6571)
DefaultHStorePorts ==
  <<port("port", 4440), port("gossip-port", 4441), port("admin-port", 6440)>>
consolePort == port("server-port", 5177)

(* Default args; only the names matter, and the values of the HServer's    *)
(* ports.                                                                  *)
defaults(names) == FlattenSeq([i \in DOMAIN names |-> <<flag(names[i]), text("default")>>])
hmetaArgs == defaults(<<"disco-mode", "join-interval", "join-attempts",
                        "bootstrap-expect", "disco-config">>)
adminServerArgs ==
  <<flag("config-path"), text("default"), flag("enable-maintenance-manager"), Empty,
    flag("maintenance-log-snapshotting"), Empty,
    flag("enable-safety-check-periodic-metadata-update"), Empty>>
hstoreArgs == defaults(<<"config-path", "address", "name", "local-log-store-path",
                         "num-shards">>)
hserverArgs == <<"config-path", "bind-address", "advertised-address", "store-config",
                 "store-admin-host", "metastore-uri", "server-id">>

ASSUME DefaultsAssumption ==
  /\ \A s \in {hmetaArgs, adminServerArgs, hstoreArgs} :
       \A i \in DOMAIN s : Kind(s[i]) = "flag" => s[i].n \in DOMAIN Rank
  /\ ToSet(hserverArgs) \cup {"port", "internal-port", "seed-nodes"} \subseteq DOMAIN Rank
ASSUME NumbersAssumption ==
  /\ {"6570", "6571"} \subseteq DOMAIN NumberOf
  /\ NumberOf["6570"] = 6570 /\ NumberOf["6571"] = 6571

(* The sub-reconcilers that read args and ports, in the order of the chain *)
Chain == <<"config", "hmeta service", "admin service", "hstore service",
           "hserver service", "hmeta", "admin", "hstore", "hserver", "console">>

VARIABLES
  spec,         \* args, ports, command and env of each component in the CR
  hdb,          \* the worker's copy of spec
  pc,           \* the step of Chain the worker is at, 0 between passes
  rqlite,       \* LogDevice's ConfigMap: the port of HMeta, and (history) for which args
  svc,          \* ports of the Service of a component
  pod,          \* args, ports and addresses in the pods of a component
  edits         \* edits so far

vars == <<spec, hdb, pc, rqlite, svc, pod, edits>>

(* An address of component to, for the port called name. *)
peer(to, name, number) == [to |-> to, name |-> name, port |-> number]

(***************************************************************************)
(* HMeta's port, read by two parsers.                                      *)
(***************************************************************************)
addrPort(flags) ==
  LET addr == flags[flag("http-addr")]
  IN IF flag("http-addr") \in DOMAIN flags /\ addr \in {text(n) : n \in DOMAIN PortOf}
     THEN port("port", PortOf[addr.n]) ELSE DefaultHMetaPort

parseHMetaPort(args) ==
  IF Parse(args).st = "error" THEN DefaultHMetaPort ELSE addrPort(Flags(args))

(* A mutant: the address is looked for under another name. *)
getHMetaContainerPort_otherFlag(args) ==
  IF flag("port") \in DOMAIN ParseArgs(args)
  THEN port("port", IntVal(ParseArgs(args)[flag("port")])) ELSE DefaultHMetaPort

getHMetaContainerPort(args) == addrPort(ParseArgs(args))

(* Where the operator itself asks HMeta for its nodes. *)
GetHMetaStatus == peer("hmeta", "http", DefaultHMetaPort.port)

(***************************************************************************)
(* Containers.                                                             *)
(***************************************************************************)
hmetaContainer(c) ==
  LET args == extendArgs(c.args, hmetaArgs)
  IN [args  |-> args,
      ports |-> extendPorts(c.ports, <<parseHMetaPort(args)>>),
      peers |-> {peer("hmeta", "http", DefaultHMetaPort.port)}]

adminContainer(c) ==
  LET args == extendArgs(c.args, adminServerArgs)
  IN [args  |-> args,
      ports |-> coverPortsFromArgs(args, extendPorts(c.ports, <<DefaultAdminServerPort>>)),
      peers |-> {}]

hstoreContainer(c) ==
  LET args == extendArgs(c.args, hstoreArgs)
  IN [args  |-> args,
      ports |-> coverPortsFromArgs(args, extendPorts(c.ports, DefaultHStorePorts)),
      peers |-> {}]

(* A command or a shell of the user is left alone.  Otherwise everything   *)
(* is joined to one line for bash; as that line begins with the name of    *)
(* the program, parsing it fails at once and covers no port.               *)
isShell(c) == c.command \/ (c.args # <<>> /\ c.args[1] \in Shells)

shellContainer(c) ==
  [args  |-> c.args,
   ports |-> coverPortsFromArgs(c.args,
               extendPorts(c.ports, <<DefaultHServerPort, DefaultHServerInternalPort>>)),
   peers |-> {}]

(* A mutant: the words are not joined. *)
joined_apart(words) == words

joined(words) == <<[line |-> words]>>

hserverContainer(c, hmeta) ==
  LET given(n)       == flag(n) \in DOMAIN Flags(c.args)
      add(n, val)    == IF given(n) THEN <<>> ELSE <<flag(n), text(val)>>
      cover(n, line, ports) ==
        coverPortsFromArgs(IF given(n) THEN c.args ELSE line, ports)
      args  == <<text("hstream-server")>>
               \o FlattenSeq([i \in DOMAIN hserverArgs |-> add(hserverArgs[i], "default")])
      args1 == args \o add("port", "6570")
      args2 == args1 \o add("internal-port", "6571")
      ports1 == cover("port", args1, extendPorts(c.ports, <<DefaultHServerPort>>))
      ports2 == cover("internal-port", args2,
                      extendPorts(ports1, <<DefaultHServerInternalPort>>))
  IN [args  |-> joined(args2 \o add("seed-nodes", "default") \o c.args),
      ports |-> ports2,
      peers |-> {p \in {peer("hmeta", "http", parseHMetaPort(hmeta.args).port)} :
                   ~given("metastore-uri")}
                \cup {p \in {peer("hserver", "internal-port", DefaultHServerInternalPort.port)} :
                        ~given("seed-nodes")}]

(* The port of the console: args before the environment before the default. *)
consoleServerPort(c) ==
  LET D == word(1, "Dserver.port")
  IN IF D \in DOMAIN Flags(c.args) THEN Flags(c.args)[D]
     ELSE IF c.env # None THEN c.env ELSE text("5177")

consoleContainer(c, hserver) ==
  LET ports == coverPortsFromArgs(hserver.args,
                 extendPorts(hserver.ports, <<DefaultHServerPort>>))
  IN [args  |-> c.args,
      ports |-> extendPorts(c.ports, <<port("server-port", Number(consoleServerPort(c)))>>),
      peers |-> {peer("hserver", "port", p.port) :
                   p \in {p \in Named(ports, "port") :
                            word(1, "Dplain.hstream.privateAddress") \notin DOMAIN Flags(c.args)}}]

(***************************************************************************)
(* Services.                                                               *)
(***************************************************************************)

(* A mutant: a Service has the default ports whatever the args say. *)
getPorts_ignoresArgs(c, defaultPorts) == extendPorts(c.ports, defaultPorts)

getPorts(c, defaultPorts) ==
  coverPortsFromArgs(c.args, extendPorts(c.ports, defaultPorts))

(***************************************************************************)
(* An object is written when its hash differs.  The hash takes slices as   *)
(* sets: it combines the elements with an exclusive or, in which their     *)
(* order is lost and two equal ones cancel.                                *)
(***************************************************************************)
odd(s) == {x \in ToSet(s) : Cardinality({i \in DOMAIN s : s[i] = x}) % 2 = 1}

podHash(p) == <<odd(p.args), odd(p.ports), p.peers>>

Continue == pc' = pc + 1
Stop == pc' = 0
At(step) == pc \in DOMAIN Chain /\ Chain[pc] = step

AddService(c, ports) ==
  /\ svc' = [svc EXCEPT ![c] = IF @ # None /\ odd(@) = odd(ports) THEN @ ELSE ports]
  /\ Continue
  /\ UNCHANGED <<spec, hdb, rqlite, pod, edits>>

AddPod(c, container) ==
  /\ pod' = [pod EXCEPT ![c] =
       IF @ # None /\ podHash(@) = podHash(container) THEN @ ELSE container]
  /\ Continue
  /\ UNCHANGED <<spec, hdb, rqlite, svc, edits>>

(* The pass ends: an error that is returned, or the panic of the parser.   *)
End == Stop /\ UNCHANGED <<spec, hdb, rqlite, svc, pod, edits>>

(***************************************************************************)
(* The steps of the chain.                                                 *)
(***************************************************************************)
Reconcile ==
  /\ pc = 0
  /\ hdb' = spec
  /\ Continue
  /\ UNCHANGED <<spec, rqlite, svc, pod, edits>>

(* The ConfigMap is created once and never updated. *)
LogDeviceConfig ==
  /\ At("config")
  /\ rqlite' = IF rqlite # None THEN rqlite
               ELSE [port |-> getHMetaContainerPort(hdb["hmeta"].args).port,
                     args |-> hdb["hmeta"].args]
  /\ Continue
  /\ UNCHANGED <<spec, hdb, svc, pod, edits>>

AddHMetaService ==
  /\ At("hmeta service")
  /\ LET c == hdb["hmeta"]
     IN IF Parse(c.args).st # "done" THEN End
        ELSE AddService("hmeta", extendPorts(c.ports, <<parseHMetaPort(c.args)>>))

AddAdminServerService ==
  /\ At("admin service")
  /\ IF Panics(hdb["admin"].args) THEN End
     ELSE AddService("admin", getPorts(hdb["admin"], <<DefaultAdminServerPort>>))

AddHStoreService ==
  /\ At("hstore service")
  /\ IF Panics(hdb["hstore"].args) THEN End
     ELSE AddService("hstore", getPorts(hdb["hstore"], DefaultHStorePorts))

AddHServerService ==
  /\ At("hserver service")
  /\ IF Panics(hdb["hserver"].args) THEN End
     ELSE AddService("hserver",
            getPorts(hdb["hserver"], <<DefaultHServerPort, DefaultHServerInternalPort>>))

AddHMeta == At("hmeta") /\ AddPod("hmeta", hmetaContainer(hdb["hmeta"]))
AddAdminServer == At("admin") /\ AddPod("admin", adminContainer(hdb["admin"]))
AddHStore == At("hstore") /\ AddPod("hstore", hstoreContainer(hdb["hstore"]))

AddHServer ==
  /\ At("hserver")
  /\ LET c == hdb["hserver"]
     IN AddPod("hserver", IF isShell(c) THEN shellContainer(c)
                          ELSE hserverContainer(c, hdb["hmeta"]))

AddConsole ==
  /\ At("console")
  /\ LET c == hdb["console"]
     IN IF Panics(c.args) \/ ~IsNumber(consoleServerPort(c)) THEN End
        ELSE AddPod("console", consoleContainer(c, hdb["hserver"]))

(* The rest of the chain, which reads neither args nor ports. *)
Finish == pc = Len(Chain) + 1 /\ End

(* An API call fails, a sub-reconciler waits, or the operator dies. *)
Fault == pc \in DOMAIN Chain /\ End

UserEdit ==
  /\ edits < MaxEdits
  /\ spec \in Edits
  /\ spec' \in Edits \ {spec}
  /\ edits' = edits + 1
  /\ UNCHANGED <<hdb, pc, rqlite, svc, pod>>

Init ==
  /\ spec \in Specs
  /\ hdb = spec
  /\ pc = 0
  /\ rqlite = None
  /\ svc = [c \in Components \ {"console"} |-> None]
  /\ pod = [c \in Components |-> None]
  /\ edits = 0

Next ==
  \/ Reconcile \/ LogDeviceConfig
  \/ AddHMetaService \/ AddAdminServerService \/ AddHStoreService \/ AddHServerService
  \/ AddHMeta \/ AddAdminServer \/ AddHStore \/ AddHServer \/ AddConsole
  \/ Finish \/ Fault \/ UserEdit

Spec == Init /\ [][Next]_vars

-----------------------------------------------------------------------------
(***************************************************************************)
(* The parsers, on the args of every component.                            *)
(***************************************************************************)

(* Parse computes the declared meaning of the words it consumes, with the  *)
(* last occurrence of a flag winning, also when it stops at an error; it   *)
(* succeeds exactly on well-formed args, and panics exactly on a '-' where *)
(* a flag may stand.                                                       *)
ParsesGrammar ==
  pc = 0 => \A c \in Components :
    LET args == spec[c].args
        stop == Cardinality(consumed(args)) + 1
    IN /\ Flags(args) = meaning(args)
       /\ (Parse(args).st = "done") = wellFormed(args)
       /\ Panics(args) = (/\ ~wellFormed(args)
                          /\ Kind(args[stop]) = "dash" /\ ~open(args, stop))

(* The two parsers agree on well-formed args without '=' and "--".         *)
ParsersAgree ==
  pc = 0 => \A c \in Components :
    LET args == spec[c].args
    IN wellFormed(args) /\ spaced(args) => ParseArgs(args) = Flags(args)

(* extendArgs writes args that parse to the flags of the user and, for     *)
(* each default the user does not name, the default; doing it again        *)
(* changes nothing.                                                        *)
ExtendKeepsUser ==
  pc = 0 => \A c \in {"hmeta", "admin", "hstore"} :
    LET args == spec[c].args
        ext  == [hmeta |-> hmetaArgs, admin |-> adminServerArgs, hstore |-> hstoreArgs][c]
        new  == extendArgs(args, ext)
        user == meaning(args)
        default == meaning(ext)
        kept == {k \in DOMAIN default : \A l \in DOMAIN user : l.n # k.n}
    IN plain(args) =>
         /\ wellFormed(new)
         /\ meaning(new) = [k \in DOMAIN user \cup kept |->
                              IF k \in DOMAIN user THEN user[k] ELSE default[k]]
         /\ extendArgs(new, ext) = new

(***************************************************************************)
(* The objects at the end of a pass, whatever earlier passes left behind.  *)
(***************************************************************************)
AtEnd == pc = Len(Chain) + 1

(* The ports of a Service are those of the pods behind it, and the console *)
(* gets the HServer's: for the HServer whatever the args are, for the      *)
(* others if the operator can read back the args it writes.                *)
PortsAgree ==
  AtEnd =>
    /\ \A n \in {"port", "internal-port"} :
         Named(svc["hserver"], n) = Named(pod["hserver"].ports, n)
    /\ \A p \in pod["console"].peers : port("port", p.port) \in ToSet(svc["hserver"])
    /\ \A c \in {"hmeta", "admin", "hstore"} :
         plain(hdb[c].args) => ToSet(svc[c]) = ToSet(pod[c].ports)

(* The address of HMeta is the same in its Service, in the args of the     *)
(* HServer and in the configuration of LogDevice, which another parser     *)
(* made, as long as HMeta's args are those LogDevice was configured for    *)
(* and the user declares no port of that name.                             *)
HMetaAddressesAgree ==
  AtEnd /\ Named(hdb["hmeta"].ports, "port") \cup Named(hdb["hmeta"].ports, "rqlite") = {} =>
    LET served == {p.port : p \in Named(svc["hmeta"], "port") \cup Named(svc["hmeta"], "rqlite")}
    IN /\ \A p \in pod["hserver"].peers : p.to = "hmeta" => served = {p.port}
       /\ rqlite.args = hdb["hmeta"].args /\ spaced(rqlite.args) => served = {rqlite.port}

(* The port a component's process opens for name, from the args it gets.   *)
listens(c, name) ==
  LET args  == IF c = "hserver" THEN Tail(pod[c].args[1].line) ELSE pod[c].args
      flags == Flags(args)
  IN IF c = "hmeta" THEN addrPort(flags).port ELSE IntVal(flags[flag(name)])

(* A port set in the args is the one declared in the pod; of the HServer,  *)
(* whose other ports are not always covered, the two the operator knows,   *)
(* which are always set, and declared so unless the user declares another. *)
DeclaredIsListened ==
  AtEnd => \A c \in {"admin", "hstore", "hserver"} :
    plain(hdb[c].args) /\ ~(c = "hserver" /\ isShell(hdb[c])) =>
      \A p \in ToSet(pod[c].ports) :
        IF c = "hserver"
        THEN p.name \in {"port", "internal-port"}
             /\ (flag(p.name) \in DOMAIN Flags(hdb[c].args) \/ Named(hdb[c].ports, p.name) = {})
             => p.port = listens(c, p.name)
        ELSE flag(p.name) \in DOMAIN Flags(hdb[c].args) => p.port = listens(c, p.name)

(* Although the hash of a pod loses the order of its args, the pods of     *)
(* every component have the ports the spec asks for, and the HServer runs  *)
(* the very line it asks for.                                              *)
PodsFollowSpec ==
  AtEnd =>
    LET hs == hdb["hserver"]
        hserver == IF isShell(hs) THEN shellContainer(hs)
                   ELSE hserverContainer(hs, hdb["hmeta"])
    IN /\ ~isShell(hs) => pod["hserver"].args = hserver.args
       /\ ToSet(pod["hserver"].ports) = ToSet(hserver.ports)
       /\ ToSet(pod["hmeta"].ports) = ToSet(hmetaContainer(hdb["hmeta"]).ports)
       /\ ToSet(pod["admin"].ports) = ToSet(adminContainer(hdb["admin"]).ports)
       /\ ToSet(pod["hstore"].ports) = ToSet(hstoreContainer(hdb["hstore"]).ports)

(* Every address the operator uses or writes into args, environment and    *)
(* probes carries the port that its component listens on.                  *)
AddressesListened ==
  AtEnd => \A p \in {GetHMetaStatus} \cup UNION {pod[c].peers : c \in Components} :
             p.port = listens(p.to, p.name)
=============================================================================
