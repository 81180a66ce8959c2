----------------------- MODULE ContainerPorts_proofs -----------------------
(***************************************************************************)
(* Proofs about ContainerPorts, for any specs and edits.                   *)
(***************************************************************************)
EXTENDS ContainerPorts, FlagSet_proofs, SequenceTheorems

AllSpecs == Specs \cup Edits

(* The ports of a component have names of their own. *)
DistinctPorts == \A s \in AllSpecs, c \in Components : isPorts(s[c].ports)

-----------------------------------------------------------------------------
(***************************************************************************)
(* The inductive invariant.  Behind the step that writes it, an object is  *)
(* what the chain makes of the worker's copy of the spec, as far as its    *)
(* hash tells; before that step it is what the chain made of some spec.    *)
(***************************************************************************)
Served == Components \ {"console"}
svcAt == [hmeta |-> 2, admin |-> 3, hstore |-> 4, hserver |-> 5]
podAt == [hmeta |-> 6, admin |-> 7, hstore |-> 8, hserver |-> 9, console |-> 10]

wantPorts(c, h) ==
  CASE c = "hmeta" -> extendPorts(h["hmeta"].ports, <<parseHMetaPort(h["hmeta"].args)>>)
    [] c = "admin" -> getPorts(h["admin"], <<DefaultAdminServerPort>>)
    [] c = "hstore" -> getPorts(h["hstore"], DefaultHStorePorts)
    [] c = "hserver" ->
         getPorts(h["hserver"], <<DefaultHServerPort, DefaultHServerInternalPort>>)

wantPod(c, h) ==
  CASE c = "hmeta" -> hmetaContainer(h["hmeta"])
    [] c = "admin" -> adminContainer(h["admin"])
    [] c = "hstore" -> hstoreContainer(h["hstore"])
    [] c = "hserver" -> IF isShell(h["hserver"]) THEN shellContainer(h["hserver"])
                        ELSE hserverContainer(h["hserver"], h["hmeta"])
    [] c = "console" -> consoleContainer(h["console"], h["hserver"])

SpecInv == spec \in AllSpecs /\ hdb \in AllSpecs /\ pc \in 0 .. 11

SvcInv ==
  /\ DOMAIN svc = Served
  /\ \A c \in Served :
       /\ svc[c] = None \/ isPorts(svc[c])
       /\ pc > svcAt[c] => isPorts(svc[c]) /\ ToSet(svc[c]) = ToSet(wantPorts(c, hdb))
  /\ pc > svcAt["hmeta"] => Parse(hdb["hmeta"].args).st = "done"

FromSpec(c) == \E s \in AllSpecs : pod[c] = wantPod(c, s)

PodInv ==
  /\ DOMAIN pod = Components
  /\ \A c \in Components :
       /\ pod[c] = None \/ FromSpec(c)
       /\ pc > podAt[c] => FromSpec(c) /\ podHash(pod[c]) = podHash(wantPod(c, hdb))

Configured == rqlite.port = getHMetaContainerPort(rqlite.args).port

ConfigInv ==
  /\ rqlite = None \/ Configured
  /\ pc > 1 => Configured

(* The place of a step in the chain. *)
LEMMA StepNumbers ==
  /\ At("config") => pc = 1
  /\ At("hmeta service") => pc = 2
  /\ At("admin service") => pc = 3
  /\ At("hstore service") => pc = 4
  /\ At("hserver service") => pc = 5
  /\ At("hmeta") => pc = 6
  /\ At("admin") => pc = 7
  /\ At("hstore") => pc = 8
  /\ At("hserver") => pc = 9
  /\ At("console") => pc = 10
  <1>1. pc \in DOMAIN Chain => pc \in {1, 2, 3, 4, 5, 6, 7, 8, 9, 10}
    BY DEF Chain
  <1>2. /\ Chain[1] = "config" /\ Chain[2] = "hmeta service"
        /\ Chain[3] = "admin service" /\ Chain[4] = "hstore service"
        /\ Chain[5] = "hserver service" /\ Chain[6] = "hmeta" /\ Chain[7] = "admin"
        /\ Chain[8] = "hstore" /\ Chain[9] = "hserver" /\ Chain[10] = "console"
    BY DEF Chain
  <1> QED
    BY <1>1, <1>2 DEF At

(* Len(Chain) + 1 is the end of the chain. *)
LEMMA EndNumber == Len(Chain) = 10 /\ DOMAIN Chain = 1 .. 10
  BY DEF Chain

(* The steps of a pass that write a Service and those that write pods. *)
ServiceStep ==
  \E c \in Served :
    /\ pc = svcAt[c] /\ AddService(c, wantPorts(c, hdb))
    /\ c = "hmeta" => Parse(hdb["hmeta"].args).st = "done"
PodStep == \E c \in Components : pc = podAt[c] /\ AddPod(c, wantPod(c, hdb))

(* What a step does: every step of the chain writes what it should for the *)
(* worker's copy, or ends the pass.                                        *)
LEMMA StepForms ==
  ASSUME [Next]_vars
  PROVE  \/ UNCHANGED vars \/ Reconcile \/ (pc = 1 /\ LogDeviceConfig)
         \/ ServiceStep \/ PodStep \/ End \/ UserEdit
  <1>1. ASSUME LogDeviceConfig PROVE pc = 1
    BY <1>1, StepNumbers DEF LogDeviceConfig
  <1>2. ASSUME AddHMetaService PROVE End \/ ServiceStep
    <2>1. pc = 2
      BY <1>2, StepNumbers DEF AddHMetaService
    <2>2. End \/ (/\ AddService("hmeta", wantPorts("hmeta", hdb))
                  /\ Parse(hdb["hmeta"].args).st = "done")
      BY <1>2 DEF AddHMetaService, wantPorts
    <2> QED
      BY <2>1, <2>2 DEF ServiceStep, svcAt, Served, Components
  <1>3. ASSUME AddAdminServerService PROVE End \/ ServiceStep
    <2>1. pc = 3
      BY <1>3, StepNumbers DEF AddAdminServerService
    <2>2. End \/ AddService("admin", wantPorts("admin", hdb))
      BY <1>3 DEF AddAdminServerService, wantPorts
    <2> QED
      BY <2>1, <2>2 DEF ServiceStep, svcAt, Served, Components
  <1>4. ASSUME AddHStoreService PROVE End \/ ServiceStep
    <2>1. pc = 4
      BY <1>4, StepNumbers DEF AddHStoreService
    <2>2. End \/ AddService("hstore", wantPorts("hstore", hdb))
      BY <1>4 DEF AddHStoreService, wantPorts
    <2> QED
      BY <2>1, <2>2 DEF ServiceStep, svcAt, Served, Components
  <1>5. ASSUME AddHServerService PROVE End \/ ServiceStep
    <2>1. pc = 5
      BY <1>5, StepNumbers DEF AddHServerService
    <2>2. End \/ AddService("hserver", wantPorts("hserver", hdb))
      BY <1>5 DEF AddHServerService, wantPorts
    <2> QED
      BY <2>1, <2>2 DEF ServiceStep, svcAt, Served, Components
  <1>6. ASSUME AddHMeta PROVE PodStep
    <2>1. pc = 6 /\ AddPod("hmeta", wantPod("hmeta", hdb))
      BY <1>6, StepNumbers DEF AddHMeta, wantPod
    <2> QED
      BY <2>1 DEF PodStep, podAt, Components
  <1>7. ASSUME AddAdminServer PROVE PodStep
    <2>1. pc = 7 /\ AddPod("admin", wantPod("admin", hdb))
      BY <1>7, StepNumbers DEF AddAdminServer, wantPod
    <2> QED
      BY <2>1 DEF PodStep, podAt, Components
  <1>8. ASSUME AddHStore PROVE PodStep
    <2>1. pc = 8 /\ AddPod("hstore", wantPod("hstore", hdb))
      BY <1>8, StepNumbers DEF AddHStore, wantPod
    <2> QED
      BY <2>1 DEF PodStep, podAt, Components
  <1>9. ASSUME AddHServer PROVE PodStep
    <2>1. pc = 9 /\ AddPod("hserver", wantPod("hserver", hdb))
      BY <1>9, StepNumbers DEF AddHServer, wantPod
    <2> QED
      BY <2>1 DEF PodStep, podAt, Components
  <1>10. ASSUME AddConsole PROVE End \/ PodStep
    <2>1. pc = 10 /\ (End \/ AddPod("console", wantPod("console", hdb)))
      BY <1>10, StepNumbers DEF AddConsole, wantPod
    <2> QED
      BY <2>1 DEF PodStep, podAt, Components
  <1>11. ASSUME Finish \/ Fault PROVE End
    BY <1>11 DEF Finish, Fault
  <1> QED
    BY <1>1, <1>2, <1>3, <1>4, <1>5, <1>6, <1>7, <1>8, <1>9, <1>10, <1>11 DEF Next

(* Steps of the chain come before its end. *)
LEMMA StepBounds ==
  /\ \A c \in Served : svcAt[c] \in 2 .. 5
  /\ \A c \in Components : podAt[c] \in 6 .. 10
  BY DEF Served, Components, svcAt, podAt

(* The worker's copy is one of the specs, and the chain has ten steps. *)
LEMMA SpecInvStep ==
  ASSUME SpecInv, [Next]_vars
  PROVE  SpecInv'
  <1>1. CASE UNCHANGED vars
    BY <1>1 DEF SpecInv, vars, AllSpecs
  <1>2. CASE Reconcile
    BY <1>2 DEF SpecInv, Reconcile, AllSpecs, Continue
  <1>3. CASE pc = 1 /\ LogDeviceConfig
    BY <1>3 DEF SpecInv, LogDeviceConfig, AllSpecs, Continue
  <1>4. CASE ServiceStep
    <2>1. pc \in 2 .. 5 /\ pc' = pc + 1 /\ UNCHANGED <<spec, hdb>>
      BY <1>4, StepBounds DEF ServiceStep, AddService, Continue
    <2> QED
      BY <2>1 DEF SpecInv, AllSpecs
  <1>5. CASE PodStep
    <2>1. pc \in 6 .. 10 /\ pc' = pc + 1 /\ UNCHANGED <<spec, hdb>>
      BY <1>5, StepBounds DEF PodStep, AddPod, Continue
    <2> QED
      BY <2>1 DEF SpecInv, AllSpecs
  <1>6. CASE End
    BY <1>6 DEF SpecInv, End, AllSpecs, Stop
  <1>7. CASE UserEdit
    BY <1>7 DEF SpecInv, UserEdit, AllSpecs
  <1> QED
    BY <1>1, <1>2, <1>3, <1>4, <1>5, <1>6, <1>7, StepForms

(* The same as an invariant. *)
LEMMA SpecInvariant == Spec => []SpecInv
  <1>1. Init => SpecInv
    BY DEF Init, SpecInv, AllSpecs
  <1> QED
    BY <1>1, SpecInvStep, PTL DEF Spec

(* Every spec the system can have has the args ParsesGrammar speaks of:    *)
(* the parser computes their meaning.                                      *)
THEOREM AlwaysParsesGrammar == Spec => []ParsesGrammar
  <1>1. SpecInv => ParsesGrammar
    <2> SUFFICES ASSUME SpecInv, NEW c \in Components
                 PROVE  LET args == spec[c].args
                            stop == Cardinality(consumed(args)) + 1
                        IN /\ Flags(args) = meaning(args)
                           /\ (Parse(args).st = "done") = wellFormed(args)
                           /\ Panics(args) = (/\ ~wellFormed(args)
                                              /\ Kind(args[stop]) = "dash" /\ ~open(args, stop))
      BY DEF ParsesGrammar
    <2>1. isArgs(spec[c].args)
      BY SpecsAssumption DEF SpecInv, AllSpecs
    <2> DEFINE args == spec[c].args
    <2> HIDE DEF args
    <2>2. isArgs(args)
      BY <2>1 DEF args
    <2> QED
      BY <2>2, ParseComputes DEF args
  <1> QED
    BY <1>1, SpecInvariant, PTL

(* The two parsers agree on every well-formed spec without '=' and "--".   *)
THEOREM ParsersAlwaysAgree == Spec => []ParsersAgree
  <1>1. SpecInv => ParsersAgree
    BY SpecsAssumption, ParseArgsComputes DEF SpecInv, AllSpecs, ParsersAgree
  <1> QED
    BY <1>1, SpecInvariant, PTL

-----------------------------------------------------------------------------
(***************************************************************************)
(* The default args.                                                       *)
(***************************************************************************)
extOf == [hmeta |-> hmetaArgs, admin |-> adminServerArgs, hstore |-> hstoreArgs]
Extended == {"hmeta", "admin", "hstore"}

namesOf ==
  [hmeta  |-> {"disco-mode", "join-interval", "join-attempts", "bootstrap-expect",
               "disco-config"},
   admin  |-> {"config-path", "enable-maintenance-manager", "maintenance-log-snapshotting",
               "enable-safety-check-periodic-metadata-update"},
   hstore |-> {"config-path", "address", "name", "local-log-store-path", "num-shards"}]

wordsOf(N) == {flag(n) : n \in N} \cup {text("default"), Empty}

(* Default args are made of flags without '=' and of values. *)
LEMMA DefaultWords ==
  ASSUME NEW N, noName \notin N, NEW w \in wordsOf(N)
  PROVE  /\ isWord(w) /\ w.v = None /\ Kind(w) \in {"flag", "value", "empty"}
         /\ Kind(w) = "flag" => w.n \in N
  <1>1. ASSUME NEW n \in N, w = flag(n)
        PROVE  isWord(w) /\ w.v = None /\ Kind(w) = "flag" /\ w.n \in N
    <2>1. w = word(2, n) /\ w.d = 2 /\ w.n = n /\ w.v = None /\ n # noName
      BY <1>1, WordFields DEF flag
    <2>2. isWord(w)
      BY <2>1, WordIsWord
    <2>3. \A d : w # word(d, noName)
      BY <2>1, WordFields
    <2>4. w.d # 0 /\ w.d # 3
      BY <2>1
    <2>5. Kind(w) = "flag"
      BY <2>1, <2>3, <2>4, Zenon DEF Kind, Empty, text, noName
    <2> QED
      BY <2>1, <2>2, <2>5
  <1>2. ASSUME w = text("default")
        PROVE  isWord(w) /\ w.v = None /\ Kind(w) = "value"
    <2>1. "default" # noName
      BY Zenon DEF noName
    <2> QED
      BY <1>2, <2>1, TextIsValue
  <1>3. ASSUME w = Empty
        PROVE  isWord(w) /\ w.v = None /\ Kind(w) = "empty"
    <2>1. w = word(0, noName)
      BY <1>3, Zenon DEF Empty, text, noName
    <2> QED
      BY <1>3, <2>1, EmptyIsWord, WordFields
  <1> QED
    BY <1>1, <1>2, <1>3 DEF wordsOf

(* The pairs of names and values that defaults writes. *)
LEMMA DefaultsWithin ==
  ASSUME NEW N, NEW names \in Seq(N), Len(names) # 0
  PROVE  defaults(names) \in Seq(wordsOf(N))
  <1> DEFINE S == Seq(wordsOf(N))
             seqs == [i \in DOMAIN names |-> <<flag(names[i]), text("default")>>]
  <1>1. \A a, b \in S : a \o b \in S
    OBVIOUS
  <1>2. ASSUME NEW i \in DOMAIN names
        PROVE  <<flag(names[i]), text("default")>> \in S
    <2>1. flag(names[i]) \in wordsOf(N) /\ text("default") \in wordsOf(N)
      BY DEF wordsOf
    <2> QED
      BY <2>1
  <1>3. seqs \in Seq(S) /\ Len(seqs) # 0
    <2>1. DOMAIN names = 1 .. Len(names) /\ Len(names) \in Nat
      OBVIOUS
    <2> HIDE DEF S
    <2>2. seqs \in [1 .. Len(names) -> S]
      BY <1>2, <2>1
    <2> QED
      BY <2>1, <2>2
  <1>4. FlattenSeq(seqs) \in S
    <2> HIDE DEF S, seqs
    <2> QED
      BY <1>1, <1>3, FlattenWithin
  <1> QED
    BY <1>4 DEF defaults

(* The default args of each component, made of its names. *)
LEMMA DefaultsAreWithin ==
  ASSUME NEW c \in Extended
  PROVE  extOf[c] \in Seq(wordsOf(namesOf[c])) /\ noName \notin namesOf[c]
  <1>1. \A n \in namesOf["hmeta"] \cup namesOf["admin"] \cup namesOf["hstore"] : n # noName
    BY Zenon DEF noName, namesOf
  <1>2. CASE c = "hmeta"
    <2> DEFINE N == namesOf["hmeta"]
               names == <<"disco-mode", "join-interval", "join-attempts",
                          "bootstrap-expect", "disco-config">>
    <2>1. names \in Seq(N) /\ Len(names) # 0
      BY DEF namesOf
    <2>2. extOf[c] = defaults(names)
      BY <1>2 DEF extOf, hmetaArgs
    <2> HIDE DEF names, N
    <2>3. defaults(names) \in Seq(wordsOf(N))
      BY <2>1, DefaultsWithin
    <2> QED
      BY <1>1, <1>2, <2>2, <2>3 DEF N
  <1>3. CASE c = "admin"
    <2>1. \A n \in namesOf["admin"] : flag(n) \in wordsOf(namesOf["admin"])
      BY DEF wordsOf
    <2>2. text("default") \in wordsOf(namesOf["admin"]) /\ Empty \in wordsOf(namesOf["admin"])
      BY DEF wordsOf
    <2>3. /\ "config-path" \in namesOf["admin"]
          /\ "enable-maintenance-manager" \in namesOf["admin"]
          /\ "maintenance-log-snapshotting" \in namesOf["admin"]
          /\ "enable-safety-check-periodic-metadata-update" \in namesOf["admin"]
      BY DEF namesOf
    <2>4. adminServerArgs \in Seq(wordsOf(namesOf["admin"]))
      BY <2>1, <2>2, <2>3 DEF adminServerArgs
    <2>5. extOf[c] = adminServerArgs
      BY <1>3 DEF extOf
    <2> QED
      BY <1>1, <1>3, <2>4, <2>5
  <1>4. CASE c = "hstore"
    <2> DEFINE N == namesOf["hstore"]
               names == <<"config-path", "address", "name", "local-log-store-path",
                          "num-shards">>
    <2>1. names \in Seq(N) /\ Len(names) # 0
      BY DEF namesOf
    <2>2. extOf[c] = defaults(names)
      BY <1>4 DEF extOf, hstoreArgs
    <2> HIDE DEF names, N
    <2>3. defaults(names) \in Seq(wordsOf(N))
      BY <2>1, DefaultsWithin
    <2> QED
      BY <1>1, <1>4, <2>2, <2>3 DEF N
  <1> QED
    BY <1>2, <1>3, <1>4 DEF Extended

(* They can be parsed and written, and set the flags of those names only. *)
LEMMA DefaultArgs ==
  ASSUME NEW c \in Extended
  PROVE  /\ isArgs(extOf[c]) /\ valuedArgs(extOf[c]) /\ spaced(extOf[c])
         /\ \A k \in DOMAIN Flags(extOf[c]) : k.n \in namesOf[c] /\ k.n \notin {"p", "port"}
  <1> DEFINE s == extOf[c]
             N == namesOf[c]
  <1>1. s \in Seq(wordsOf(N)) /\ noName \notin N
    BY DefaultsAreWithin
  <1>2. \A n \in N : n \notin {"p", "port"}
    BY DEF namesOf, Extended
  <1>3. \A i \in DOMAIN s : Kind(s[i]) = "flag" => s[i].n \in DOMAIN Rank
    BY DefaultsAssumption DEF extOf, Extended
  <1> HIDE DEF s, N
  <1>4. \A i \in DOMAIN s : s[i] \in wordsOf(N)
    BY <1>1
  <1>5. \A i \in DOMAIN s : /\ isWord(s[i]) /\ s[i].v = None
                            /\ Kind(s[i]) \in {"flag", "value", "empty"}
                            /\ Kind(s[i]) = "flag" => s[i].n \in N
    BY <1>1, <1>4, DefaultWords
  <1>6. s \in Seq(ToSet(s))
    BY <1>1 DEF ToSet
  <1>7. isArgs(s) /\ valuedArgs(s) /\ spaced(s)
    BY <1>3, <1>5, <1>6 DEF isArgs, valuedArgs, spaced
  <1>8. \A k \in DOMAIN Flags(s) : k.n \in N
    BY <1>5, <1>7, FlagsAreFlags
  <1> QED
    BY <1>2, <1>7, <1>8 DEF s, N

(* For every spec: extendArgs keeps what the user sets, adds the defaults  *)
(* the user does not name, and changes nothing when it is applied again.   *)
THEOREM ExtendAlwaysKeepsUser == Spec => []ExtendKeepsUser
  <1>1. SpecInv => ExtendKeepsUser
    <2> SUFFICES ASSUME SpecInv, NEW c \in Extended, plain(spec[c].args)
                 PROVE  LET new == extendArgs(spec[c].args, extOf[c])
                        IN /\ wellFormed(new)
                           /\ meaning(new) = merged(meaning(spec[c].args), meaning(extOf[c]))
                           /\ extendArgs(new, extOf[c]) = new
      BY DEF ExtendKeepsUser, Extended, extOf, merged, kept
    <2>1. isArgs(spec[c].args) /\ valuedArgs(spec[c].args)
      BY SpecsAssumption DEF SpecInv, AllSpecs, Extended, Components
    <2>2. /\ isArgs(extOf[c]) /\ valuedArgs(extOf[c]) /\ spaced(extOf[c])
          /\ \A k \in DOMAIN Flags(extOf[c]) : k.n \notin {"p", "port"}
      BY DefaultArgs
    <2> DEFINE args == spec[c].args
               ext == extOf[c]
    <2>3. isArgs(args) /\ valuedArgs(args) /\ plain(args) /\ isArgs(ext) /\ valuedArgs(ext)
          /\ spaced(ext) /\ \A k \in DOMAIN Flags(ext) : k.n \notin {"p", "port"}
      BY <2>1, <2>2
    <2> HIDE DEF args, ext
    <2>4. Flags(args) = meaning(args) /\ Flags(ext) = meaning(ext)
      BY <2>3, ParseComputes
    <2> QED
      BY <2>3, <2>4, ExtendPlain DEF args, ext
  <1> QED
    BY <1>1, SpecInvariant, PTL

-----------------------------------------------------------------------------
(***************************************************************************)
(* The hash of the objects.                                                *)
(***************************************************************************)

(* The hash of ports with names of their own tells the set of the ports.   *)
LEMMA OddPorts ==
  ASSUME NEW ps, isPorts(ps)
  PROVE  odd(ps) = ToSet(ps)
  <1>1. ASSUME NEW x \in ToSet(ps)
        PROVE  Cardinality({i \in DOMAIN ps : ps[i] = x}) % 2 = 1
    <2>1. PICK k \in DOMAIN ps : ps[k] = x
      BY DEF ToSet
    <2>2. {i \in DOMAIN ps : ps[i] = x} = {k}
      BY <2>1 DEF isPorts
    <2>3. Cardinality({k}) = 1
      BY FS_Singleton
    <2> QED
      BY <2>2, <2>3
  <1> QED
    BY <1>1 DEF odd

(* The hash of a single element tells it. *)
LEMMA OddSingle ==
  ASSUME NEW x
  PROVE  odd(<<x>>) = {x}
  <1>1. ToSet(<<x>>) = {x}
    BY DEF ToSet
  <1>2. {i \in DOMAIN <<x>> : <<x>>[i] = x} = {1}
    OBVIOUS
  <1>3. Cardinality({1}) = 1
    BY FS_Singleton
  <1> QED
    BY <1>1, <1>2, <1>3 DEF odd

(* The ports the operator adds are ports. *)
LEMMA DefaultsArePorts ==
  /\ \A n, x : isPort(port(n, x))
  /\ isPort(DefaultHMetaPort) /\ isPort(DefaultAdminServerPort)
  /\ isPort(DefaultHServerPort) /\ isPort(DefaultHServerInternalPort)
  /\ \A args : isPort(parseHMetaPort(args))
  <1>1. \A n, x : isPort(port(n, x))
    BY DEF isPort, port
  <1>2. isPort(DefaultHMetaPort)
    BY <1>1 DEF DefaultHMetaPort
  <1>3. \A fl : isPort(addrPort(fl))
    BY <1>1, <1>2 DEF addrPort
  <1>4. \A args : isPort(parseHMetaPort(args))
    BY <1>2, <1>3 DEF parseHMetaPort
  <1> QED
    BY <1>1, <1>2, <1>4
       DEF DefaultAdminServerPort, DefaultHServerPort, DefaultHServerInternalPort

(* The ports of a component with the default ones. *)
LEMMA ExtendedArePorts ==
  ASSUME NEW ps, isPorts(ps)
  PROVE  /\ \A p : isPort(p) => isPorts(extendPorts(ps, <<p>>))
         /\ isPorts(extendPorts(ps, <<DefaultHServerPort, DefaultHServerInternalPort>>))
         /\ isPorts(extendPorts(ps, DefaultHStorePorts))
  <1>1. \A p : isPort(p) => isPorts(extendPorts(ps, <<p>>))
    BY ExtendPortsUnrolled, AddPortIs
  <1>2. ASSUME NEW p, NEW q, isPort(p), isPort(q)
        PROVE  isPorts(extendPorts(ps, <<p, q>>))
    BY <1>2, ExtendPortsUnrolled, AddPortIs
  <1>3. ASSUME NEW p, NEW q, NEW t, isPort(p), isPort(q), isPort(t)
        PROVE  isPorts(extendPorts(ps, <<p, q, t>>))
    BY <1>3, ExtendPortsUnrolled, AddPortIs
  <1> QED
    BY <1>1, <1>2, <1>3, DefaultsArePorts DEF DefaultHStorePorts

(* What the chain wants of a Service has ports with names of their own. *)
LEMMA WantPortsArePorts ==
  ASSUME DistinctPorts, NEW h \in AllSpecs, NEW c \in Served
  PROVE  isPorts(wantPorts(c, h))
  <1>1. isPorts(h[c].ports)
    BY DEF DistinctPorts, Served
  <1>2. CASE c = "hmeta"
    BY <1>1, <1>2, ExtendedArePorts, DefaultsArePorts DEF wantPorts
  <1>3. CASE c = "admin"
    BY <1>1, <1>3, ExtendedArePorts, DefaultsArePorts, CoverPortsIs DEF wantPorts, getPorts
  <1>4. CASE c = "hstore"
    BY <1>1, <1>4, ExtendedArePorts, CoverPortsIs DEF wantPorts, getPorts
  <1>5. CASE c = "hserver"
    BY <1>1, <1>5, ExtendedArePorts, CoverPortsIs DEF wantPorts, getPorts
  <1> QED
    BY <1>2, <1>3, <1>4, <1>5 DEF Served, Components

(* The ports of the HServer when the operator writes its args. *)
hserverPorts(c) ==
  LET given(n)       == flag(n) \in DOMAIN Flags(c.args)
      add(n, val)    == IF given(n) THEN <<>> ELSE <<flag(n), text(val)>>
      cover(n, line, ports) ==
        coverPortsFromArgs(IF given(n) THEN c.args ELSE line, ports)
      args  == <<text("hstream-server")>>
               \o FlattenSeq([i \in DOMAIN hserverArgs |-> add(hserverArgs[i], "default")])
      args1 == args \o add("port", "6570")
      args2 == args1 \o add("internal-port", "6571")
      ports1 == cover("port", args1, extendPorts(c.ports, <<DefaultHServerPort>>))
  IN cover("internal-port", args2, extendPorts(ports1, <<DefaultHServerInternalPort>>))

(* And so has what the chain wants of a pod. *)
LEMMA WantPodHasPorts ==
  ASSUME DistinctPorts, NEW h \in AllSpecs, NEW c \in Served
  PROVE  isPorts(wantPod(c, h).ports)
  <1>1. isPorts(h[c].ports)
    BY DEF DistinctPorts, Served
  <1>2. CASE c = "hmeta"
    BY <1>1, <1>2, ExtendedArePorts, DefaultsArePorts DEF wantPod, hmetaContainer
  <1>3. CASE c = "admin"
    BY <1>1, <1>3, ExtendedArePorts, DefaultsArePorts, CoverPortsIs DEF wantPod, adminContainer
  <1>4. CASE c = "hstore"
    BY <1>1, <1>4, ExtendedArePorts, CoverPortsIs DEF wantPod, hstoreContainer
  <1>5. CASE c = "hserver" /\ isShell(h[c])
    BY <1>1, <1>5, ExtendedArePorts, CoverPortsIs DEF wantPod, shellContainer
  <1>6. CASE c = "hserver" /\ ~isShell(h[c])
    <2>1. wantPod(c, h).ports = hserverPorts(h[c])
      BY <1>6 DEF wantPod, hserverContainer, hserverPorts
    <2>2. isPorts(hserverPorts(h[c]))
      BY <1>1, ExtendedArePorts, DefaultsArePorts, CoverPortsIs DEF hserverPorts
    <2> QED
      BY <2>1, <2>2
  <1> QED
    BY <1>2, <1>3, <1>4, <1>5, <1>6 DEF Served, Components

-----------------------------------------------------------------------------
(***************************************************************************)
(* The invariants of the objects.                                          *)
(***************************************************************************)

(* Initially there is no Service. *)
LEMMA SvcInvInit == Init => SvcInv
  BY StepBounds DEF Init, SvcInv, Served, Components

(* A Service that is not updated has the same set of ports. *)
LEMMA SvcInvStep ==
  ASSUME DistinctPorts, SpecInv, SvcInv, [Next]_vars
  PROVE  SvcInv'
  <1>1. CASE UNCHANGED vars
    BY <1>1 DEF SvcInv, vars
  <1>2. CASE Reconcile
    <2>1. pc' = 1 /\ svc' = svc
      BY <1>2 DEF Reconcile, Continue
    <2> QED
      BY <2>1, StepBounds DEF SvcInv, Served, Components
  <1>3. CASE pc = 1 /\ LogDeviceConfig
    <2>1. pc' = 2 /\ svc' = svc
      BY <1>3 DEF LogDeviceConfig, Continue
    <2> QED
      BY <2>1, StepBounds DEF SvcInv, Served, Components
  <1>4. CASE ServiceStep
    <2>1. PICK c \in Served :
            /\ pc = svcAt[c] /\ AddService(c, wantPorts(c, hdb))
            /\ c = "hmeta" => Parse(hdb["hmeta"].args).st = "done"
      BY <1>4 DEF ServiceStep
    <2>2. /\ svc' = [svc EXCEPT ![c] = IF @ # None /\ odd(@) = odd(wantPorts(c, hdb)) THEN @
                                       ELSE wantPorts(c, hdb)]
          /\ pc' = svcAt[c] + 1 /\ hdb' = hdb
      BY <2>1 DEF AddService, Continue
    <2>3. isPorts(wantPorts(c, hdb))
      BY WantPortsArePorts DEF SpecInv
    <2>4. isPorts(svc'[c]) /\ ToSet(svc'[c]) = ToSet(wantPorts(c, hdb))
      BY <2>2, <2>3, OddPorts DEF SvcInv
    <2>5. \A e \in Served \ {c} : svc'[e] = svc[e] /\ svcAt[e] # svcAt[c]
      BY <2>2 DEF SvcInv, Served, Components, svcAt
    <2>6. DOMAIN svc' = Served
      BY <2>2 DEF SvcInv
    <2>7. ASSUME NEW e \in Served \ {c}
          PROVE  /\ svc'[e] = None \/ isPorts(svc'[e])
                 /\ pc' > svcAt[e] =>
                      isPorts(svc'[e]) /\ ToSet(svc'[e]) = ToSet(wantPorts(e, hdb'))
      <3>1. svcAt[e] \in Nat /\ svcAt[c] \in Nat
        BY StepBounds
      <3>2. pc' > svcAt[e] => pc > svcAt[e]
        BY <2>1, <2>2, <2>5, <3>1
      <3> QED
        BY <2>2, <2>5, <3>2 DEF SvcInv
    <2>8. pc' > svcAt["hmeta"] => Parse(hdb'["hmeta"].args).st = "done"
      <3>1. "hmeta" \in Served
        BY DEF Served, Components
      <3>2. svcAt["hmeta"] \in Nat /\ svcAt[c] \in Nat
        BY <3>1, StepBounds
      <3>3. CASE c = "hmeta"
        BY <2>1, <2>2, <3>3
      <3>4. CASE c # "hmeta"
        <4>1. svcAt["hmeta"] # svcAt[c]
          BY <2>5, <3>1, <3>4
        <4>2. pc' > svcAt["hmeta"] => pc > svcAt["hmeta"]
          BY <2>1, <2>2, <3>2, <4>1
        <4> QED
          BY <2>2, <4>2 DEF SvcInv
      <3> QED
        BY <3>3, <3>4
    <2> QED
      BY <2>2, <2>4, <2>6, <2>7, <2>8 DEF SvcInv
  <1>5. CASE PodStep
    <2>1. pc \in 6 .. 10 /\ pc' = pc + 1 /\ UNCHANGED <<hdb, svc>>
      BY <1>5, StepBounds DEF PodStep, AddPod, Continue
    <2>2. \A c \in Served : pc > svcAt[c]
      BY <2>1, StepBounds
    <2>3. "hmeta" \in Served
      BY DEF Served, Components
    <2> QED
      BY <2>1, <2>2, <2>3 DEF SvcInv
  <1>6. CASE End
    <2>1. pc' = 0 /\ svc' = svc
      BY <1>6 DEF End, Stop
    <2> QED
      BY <2>1, StepBounds DEF SvcInv, Served, Components
  <1>7. CASE UserEdit
    BY <1>7 DEF UserEdit, SvcInv
  <1> QED
    BY <1>1, <1>2, <1>3, <1>4, <1>5, <1>6, <1>7, StepForms

(* Initially there is no pod. *)
LEMMA PodInvInit == Init => PodInv
  BY StepBounds DEF Init, PodInv

(* A pod that is not updated has the same hash. *)
LEMMA PodInvStep ==
  ASSUME SpecInv, PodInv, [Next]_vars
  PROVE  PodInv'
  <1>0. ASSUME pod' = pod, pc' <= 6, pc' \in Nat
        PROVE  PodInv'
    <2>1. \A c \in Components : ~(pc' > podAt[c])
      BY <1>0, StepBounds
    <2> QED
      BY <1>0, <2>1 DEF PodInv, FromSpec
  <1>1. CASE UNCHANGED vars
    BY <1>1 DEF PodInv, FromSpec, vars
  <1>2. CASE Reconcile
    BY <1>0, <1>2 DEF Reconcile, Continue
  <1>3. CASE pc = 1 /\ LogDeviceConfig
    BY <1>0, <1>3 DEF LogDeviceConfig, Continue
  <1>4. CASE ServiceStep
    <2>1. pc \in 2 .. 5 /\ pc' = pc + 1 /\ pod' = pod
      BY <1>4, StepBounds DEF ServiceStep, AddService, Continue
    <2> QED
      BY <1>0, <2>1
  <1>5. CASE PodStep
    <2>1. PICK c \in Components : pc = podAt[c] /\ AddPod(c, wantPod(c, hdb))
      BY <1>5 DEF PodStep
    <2>2. /\ pod' = [pod EXCEPT ![c] = IF @ # None /\ podHash(@) = podHash(wantPod(c, hdb))
                                       THEN @ ELSE wantPod(c, hdb)]
          /\ pc' = podAt[c] + 1 /\ hdb' = hdb
      BY <2>1 DEF AddPod, Continue
    <2>3. FromSpec(c)' /\ podHash(pod'[c]) = podHash(wantPod(c, hdb))
      <3>1. hdb \in AllSpecs /\ (pod[c] = None \/ FromSpec(c)) /\ DOMAIN pod = Components
        BY DEF SpecInv, PodInv
      <3>2. CASE pod[c] # None /\ podHash(pod[c]) = podHash(wantPod(c, hdb))
        <4>1. pod'[c] = pod[c]
          BY <2>2, <3>1, <3>2
        <4> QED
          BY <3>1, <3>2, <4>1 DEF FromSpec
      <3>3. CASE ~(pod[c] # None /\ podHash(pod[c]) = podHash(wantPod(c, hdb)))
        <4>1. pod'[c] = wantPod(c, hdb)
          BY <2>2, <3>1, <3>3
        <4> QED
          BY <3>1, <4>1 DEF FromSpec
      <3> QED
        BY <3>2, <3>3
    <2>4. \A e \in Components \ {c} : pod'[e] = pod[e] /\ podAt[e] # podAt[c]
      BY <2>2 DEF PodInv, Components, podAt
    <2>5. DOMAIN pod' = Components
      BY <2>2 DEF PodInv
    <2>6. ASSUME NEW e \in Components \ {c}
          PROVE  /\ pod'[e] = None \/ FromSpec(e)'
                 /\ pc' > podAt[e] =>
                      FromSpec(e)' /\ podHash(pod'[e]) = podHash(wantPod(e, hdb'))
      <3>1. podAt[e] \in Nat /\ podAt[c] \in Nat
        BY StepBounds
      <3>2. pc' > podAt[e] => pc > podAt[e]
        BY <2>1, <2>2, <2>4, <3>1
      <3> QED
        BY <2>2, <2>4, <3>2 DEF PodInv, FromSpec
    <2> QED
      BY <2>2, <2>3, <2>5, <2>6 DEF PodInv
  <1>6. CASE End
    BY <1>0, <1>6 DEF End, Stop
  <1>7. CASE UserEdit
    BY <1>7 DEF UserEdit, PodInv, FromSpec
  <1> QED
    BY <1>1, <1>2, <1>3, <1>4, <1>5, <1>6, <1>7, StepForms

(* The ConfigMap is written once, from the args it records. *)
LEMMA ConfigInvStep ==
  ASSUME SpecInv, ConfigInv, [Next]_vars
  PROVE  ConfigInv'
  <1>1. CASE UNCHANGED vars
    BY <1>1 DEF ConfigInv, Configured, vars
  <1>2. CASE Reconcile
    BY <1>2 DEF Reconcile, Continue, ConfigInv, Configured
  <1>3. CASE pc = 1 /\ LogDeviceConfig
    BY <1>3 DEF LogDeviceConfig, Continue, ConfigInv, Configured
  <1>4. CASE ServiceStep
    <2>1. pc > 1 /\ rqlite' = rqlite
      BY <1>4, StepBounds DEF ServiceStep, AddService
    <2> QED
      BY <2>1 DEF ConfigInv, Configured
  <1>5. CASE PodStep
    <2>1. pc > 1 /\ rqlite' = rqlite
      BY <1>5, StepBounds DEF PodStep, AddPod
    <2> QED
      BY <2>1 DEF ConfigInv, Configured
  <1>6. CASE End
    BY <1>6 DEF End, Stop, ConfigInv, Configured
  <1>7. CASE UserEdit
    BY <1>7 DEF UserEdit, ConfigInv, Configured
  <1> QED
    BY <1>1, <1>2, <1>3, <1>4, <1>5, <1>6, <1>7, StepForms

PassInv == SpecInv /\ SvcInv /\ PodInv /\ ConfigInv

(* Behind the worker, every object is up to date as far as its hash tells. *)
THEOREM PassInvariant ==
  ASSUME DistinctPorts
  PROVE  Spec => []PassInv
  <1>1. Init => PassInv
    <2>1. Init => SpecInv
      BY DEF Init, SpecInv, AllSpecs
    <2>2. Init => ConfigInv
      BY DEF Init, ConfigInv
    <2> QED
      BY <2>1, <2>2, SvcInvInit, PodInvInit DEF PassInv
  <1>2. PassInv /\ [Next]_vars => PassInv'
    BY SpecInvStep, SvcInvStep, PodInvStep, ConfigInvStep DEF PassInv
  <1> QED
    BY <1>1, <1>2, PTL DEF Spec

-----------------------------------------------------------------------------
(***************************************************************************)
(* The objects at the end of a pass.                                       *)
(***************************************************************************)

(* There, every object is behind the worker. *)
LEMMA ObjectsAtEnd ==
  ASSUME DistinctPorts, PassInv, AtEnd
  PROVE  /\ \A c \in Served : isPorts(svc[c]) /\ ToSet(svc[c]) = ToSet(wantPorts(c, hdb))
         /\ \A c \in Components : FromSpec(c) /\ podHash(pod[c]) = podHash(wantPod(c, hdb))
         /\ \A c \in Components : pod[c].peers = wantPod(c, hdb).peers
         /\ \A c \in Served : ToSet(pod[c].ports) = ToSet(wantPod(c, hdb).ports)
         /\ Parse(hdb["hmeta"].args).st = "done" /\ Configured /\ hdb \in AllSpecs
  <1>1. pc = 11
    BY EndNumber DEF AtEnd
  <1>2. /\ \A c \in Served : pc > svcAt[c]
        /\ \A c \in Components : pc > podAt[c]
        /\ "hmeta" \in Served /\ pc > 1
    BY <1>1, StepBounds DEF Served, Components
  <1>3. \A c \in Components : FromSpec(c) /\ podHash(pod[c]) = podHash(wantPod(c, hdb))
    BY <1>2 DEF PassInv, PodInv
  <1>4. ASSUME NEW c \in Components
        PROVE  /\ pod[c].peers = wantPod(c, hdb).peers
               /\ odd(pod[c].ports) = odd(wantPod(c, hdb).ports)
    BY <1>3 DEF podHash
  <1>5. ASSUME NEW c \in Served
        PROVE  ToSet(pod[c].ports) = ToSet(wantPod(c, hdb).ports)
    <2>1. c \in Components
      BY DEF Served
    <2>2. PICK h \in AllSpecs : pod[c] = wantPod(c, h)
      BY <1>3, <2>1 DEF FromSpec
    <2>3. isPorts(pod[c].ports)
      BY <2>2, WantPodHasPorts
    <2>4. isPorts(wantPod(c, hdb).ports)
      BY WantPodHasPorts DEF PassInv, SpecInv
    <2> QED
      BY <1>4, <2>1, <2>3, <2>4, OddPorts
  <1> QED
    BY <1>2, <1>3, <1>4, <1>5 DEF PassInv, SpecInv, SvcInv, ConfigInv

(* The args of the HServer are one line, unless the user gives a shell. *)
LEMMA HServerArgsIsLine ==
  ASSUME NEW c, NEW hmeta
  PROVE  \E line : hserverContainer(c, hmeta).args = <<[line |-> line]>>
  BY DEF hserverContainer, joined

(* No word is a line. *)
LEMMA LineIsNoWord ==
  ASSUME NEW line
  PROVE  ~isWord([line |-> line])
  <1> DEFINE w == [line |-> line]
  <1>1. "d" \notin DOMAIN w
    OBVIOUS
  <1>2. \A n, v : w \notin [d : 0 .. 3, n : {n}, v : {v}]
    BY <1>1
  <1> QED
    BY <1>2 DEF isWord

(* The line of the HServer is the one the spec asks for: the hash of a     *)
(* single element tells it.                                                *)
LEMMA HServerLine ==
  ASSUME DistinctPorts, PassInv, AtEnd, ~isShell(hdb["hserver"])
  PROVE  pod["hserver"].args = wantPod("hserver", hdb).args
  <1> DEFINE hs == hdb["hserver"]
             want == wantPod("hserver", hdb)
  <1>1. FromSpec("hserver") /\ podHash(pod["hserver"]) = podHash(want)
    BY ObjectsAtEnd DEF Components
  <1>2. \A h : ~isShell(h["hserver"]) =>
          wantPod("hserver", h) = hserverContainer(h["hserver"], h["hmeta"])
    BY DEF wantPod
  <1>3. PICK line : want.args = <<[line |-> line]>>
    <2>1. PICK line : hserverContainer(hs, hdb["hmeta"]).args = <<[line |-> line]>>
      BY HServerArgsIsLine
    <2> QED
      BY <1>2, <2>1
  <1>4. odd(pod["hserver"].args) = {[line |-> line]}
    BY <1>1, <1>3, OddSingle DEF podHash
  <1>5. PICK h \in AllSpecs : pod["hserver"] = wantPod("hserver", h)
    BY <1>1 DEF FromSpec
  <1>6. CASE isShell(h["hserver"])
    <2>1. pod["hserver"].args = h["hserver"].args
      BY <1>5, <1>6 DEF wantPod, shellContainer
    <2>2. [line |-> line] \in ToSet(h["hserver"].args)
      BY <1>4, <2>1 DEF odd
    <2>3. isArgs(h["hserver"].args)
      BY SpecsAssumption DEF AllSpecs, Components
    <2>4. isWord([line |-> line])
      BY <2>2, <2>3 DEF isArgs, ToSet
    <2> QED
      BY <2>4, LineIsNoWord
  <1>7. CASE ~isShell(h["hserver"])
    <2>1. PICK other : pod["hserver"].args = <<[line |-> other]>>
      <3>1. PICK other : hserverContainer(h["hserver"], h["hmeta"]).args = <<[line |-> other]>>
        BY HServerArgsIsLine
      <3> QED
        BY <1>2, <1>5, <1>7, <3>1
    <2>2. {[line |-> other]} = {[line |-> line]}
      BY <1>4, <2>1, OddSingle
    <2> QED
      BY <1>3, <2>1, <2>2
  <1> QED
    BY <1>6, <1>7

(* Whatever specs came before, the pods of HMeta, admin servers, HStore    *)
(* and HServer have the ports of the current spec at the end of a pass,    *)
(* and the HServer its line: what the hash of the pods loses does not      *)
(* matter.                                                                 *)
THEOREM PodsAlwaysFollowSpec ==
  ASSUME DistinctPorts
  PROVE  Spec => []PodsFollowSpec
  <1>1. PassInv => PodsFollowSpec
    <2> SUFFICES ASSUME PassInv, AtEnd PROVE PodsFollowSpec
      BY DEF PodsFollowSpec
    <2> DEFINE hs == hdb["hserver"]
               want == wantPod("hserver", hdb)
    <2>1. /\ FromSpec("hserver") /\ podHash(pod["hserver"]) = podHash(want)
          /\ \A c \in Served : ToSet(pod[c].ports) = ToSet(wantPod(c, hdb).ports)
      BY ObjectsAtEnd DEF Components
    <2>2. ~isShell(hs) => pod["hserver"].args = want.args
      BY HServerLine
    <2>3. want = IF isShell(hs) THEN shellContainer(hs) ELSE hserverContainer(hs, hdb["hmeta"])
      BY DEF wantPod
    <2>4. /\ wantPod("hmeta", hdb) = hmetaContainer(hdb["hmeta"])
          /\ wantPod("admin", hdb) = adminContainer(hdb["admin"])
          /\ wantPod("hstore", hdb) = hstoreContainer(hdb["hstore"])
      BY DEF wantPod
    <2> HIDE DEF want
    <2> QED
      BY <2>1, <2>2, <2>3, <2>4 DEF PodsFollowSpec, Served, Components, want
  <1> QED
    BY <1>1, PassInvariant, PTL

(* The address of HMeta is the same in its Service, in the line of the     *)
(* HServer and, as long as HMeta's args are those it was configured for,   *)
(* in LogDevice's configuration.                                           *)
THEOREM HMetaAddressesAlwaysAgree ==
  ASSUME DistinctPorts
  PROVE  Spec => []HMetaAddressesAgree
  <1>1. PassInv => HMetaAddressesAgree
    <2> DEFINE c == hdb["hmeta"]
               p == parseHMetaPort(c.args)
               served == {x.port : x \in Named(svc["hmeta"], "port")
                                         \cup Named(svc["hmeta"], "rqlite")}
    <2> SUFFICES ASSUME PassInv, AtEnd,
                        Named(c.ports, "port") \cup Named(c.ports, "rqlite") = {}
                 PROVE  /\ \A x \in pod["hserver"].peers : x.to = "hmeta" => served = {x.port}
                        /\ rqlite.args = c.args /\ spaced(rqlite.args) => served = {rqlite.port}
      BY DEF HMetaAddressesAgree
    <2>1. /\ ToSet(svc["hmeta"]) = ToSet(wantPorts("hmeta", hdb))
          /\ pod["hserver"].peers = wantPod("hserver", hdb).peers
          /\ Parse(c.args).st = "done" /\ Configured /\ hdb \in AllSpecs
      BY ObjectsAtEnd DEF Served, Components
    <2>2. isPorts(c.ports) /\ isArgs(c.args)
      BY <2>1, SpecsAssumption DEF DistinctPorts, Components, AllSpecs
    <2>3. isPort(p) /\ p.name \in {"port", "rqlite"}
      BY DefaultsArePorts DEF parseHMetaPort, addrPort, DefaultHMetaPort, port
    <2> HIDE DEF p
    <2>4. \A y \in ToSet(c.ports) : y.name \notin {"port", "rqlite"}
      BY DEF Named
    <2>5. ToSet(svc["hmeta"]) = ToSet(c.ports) \cup {p}
      <3>1. wantPorts("hmeta", hdb) = addPort(c.ports, p)
        BY ExtendPortsUnrolled DEF wantPorts, p
      <3>2. ToSet(addPort(c.ports, p)) =
              ToSet(c.ports) \cup {x \in {p} : \A y \in ToSet(c.ports) : y.name # p.name}
        BY <2>2, <2>3, AddPortIs
      <3>3. \A y \in ToSet(c.ports) : y.name # p.name
        BY <2>3, <2>4
      <3> QED
        BY <2>1, <3>1, <3>2, <3>3
    <2>6. served = {p.port}
      BY <2>3, <2>4, <2>5 DEF Named
    <2>7. ASSUME NEW x \in pod["hserver"].peers, x.to = "hmeta"
          PROVE  x.port = p.port
      <3>1. CASE isShell(hdb["hserver"])
        BY <2>1, <2>7, <3>1 DEF wantPod, shellContainer
      <3>2. CASE ~isShell(hdb["hserver"])
        <4>1. x \in hserverContainer(hdb["hserver"], c).peers
          BY <2>1, <2>7, <3>2 DEF wantPod
        <4>2. x \in {peer("hmeta", "http", p.port),
                     peer("hserver", "internal-port", DefaultHServerInternalPort.port)}
          <5>1. hserverContainer(hdb["hserver"], c).peers \subseteq
                  {peer("hmeta", "http", parseHMetaPort(c.args).port),
                   peer("hserver", "internal-port", DefaultHServerInternalPort.port)}
            BY DEF hserverContainer
          <5> QED
            BY <4>1, <5>1 DEF p
        <4> QED
          BY <2>7, <4>2 DEF peer
      <3> QED
        BY <3>1, <3>2
    <2>8. ASSUME rqlite.args = c.args, spaced(rqlite.args)
          PROVE  rqlite.port = p.port
      <3>1. wellFormed(c.args)
        BY <2>1, <2>2, ParseComputes
      <3>2. ParseArgs(c.args) = Flags(c.args)
        BY <2>2, <2>8, <3>1, ParseArgsComputes
      <3> QED
        BY <2>1, <2>8, <3>2 DEF Configured, getHMetaContainerPort, parseHMetaPort, p
    <2> QED
      BY <2>6, <2>7, <2>8
  <1> QED
    BY <1>1, PassInvariant, PTL

-----------------------------------------------------------------------------
(***************************************************************************)
(* The ports of Services and pods.  A port of the user that is called like *)
(* a default arg is covered by that arg in the pod and not in the Service. *)
(***************************************************************************)
PortsNamedApart ==
  \A s \in AllSpecs, c \in {"admin", "hstore"} :
    \A p \in ToSet(s[c].ports) : p.name \notin namesOf[c]

(* Covering keeps names and does nothing the second time. *)
LEMMA CoverPortIs ==
  ASSUME NEW fl, NEW p, isPort(p)
  PROVE  /\ coverPort(fl, p).name = p.name /\ isPort(coverPort(fl, p))
         /\ coverPort(fl, coverPort(fl, p)) = coverPort(fl, p)
         /\ flag(p.name) \notin DOMAIN fl => coverPort(fl, p) = p
         /\ coverPort(emptyMap, p) = p
  <1>1. \A n, x : port(n, x).name = n /\ isPort(port(n, x))
    BY DEF isPort, port
  <1>2. coverPort(fl, p).name = p.name /\ isPort(coverPort(fl, p))
    BY <1>1 DEF coverPort
  <1>3. coverPort(fl, coverPort(fl, p)) = coverPort(fl, p)
    BY <1>1 DEF coverPort
  <1>4. DOMAIN emptyMap = {}
    BY DEF emptyMap
  <1> QED
    BY <1>2, <1>3, <1>4 DEF coverPort

(* A default arg of the HServer, left out if the flags fl have it. *)
addArg(fl, n, val) == IF flag(n) \in DOMAIN fl THEN <<>> ELSE <<flag(n), text(val)>>

(* The line that the operator writes for the HServer sets no flag for the  *)
(* parser, as it begins with the name of the program.                      *)
LEMMA LineSetsNothing ==
  ASSUME NEW fl
  PROVE  LET add(n, val) == addArg(fl, n, val)
             args  == <<text("hstream-server")>>
                      \o FlattenSeq([i \in DOMAIN hserverArgs |-> add(hserverArgs[i], "default")])
             args1 == args \o add("port", "6570")
             args2 == args1 \o add("internal-port", "6571")
         IN Flags(args1) = emptyMap /\ Flags(args2) = emptyMap
  <1> DEFINE add(n, val) == addArg(fl, n, val)
             W == {flag(n) : n \in {"config-path", "bind-address", "advertised-address",
                                    "store-config", "store-admin-host", "metastore-uri",
                                    "server-id", "port", "internal-port"}}
                  \cup {text("default"), text("6570"), text("6571"), text("hstream-server")}
             S == Seq(W)
             seqs == [i \in DOMAIN hserverArgs |-> add(hserverArgs[i], "default")]
             flat == FlattenSeq(seqs)
             args == <<text("hstream-server")>> \o flat
  <1>0. \A n, val : add(n, val) \in {<<>>, <<flag(n), text(val)>>}
    BY DEF addArg
  <1> HIDE DEF add
  <1>1. \A a, b \in S : a \o b \in S
    OBVIOUS
  <1>2. DOMAIN hserverArgs = 1 .. 7 /\
        \A i \in 1 .. 7 : hserverArgs[i] \in {"config-path", "bind-address",
          "advertised-address", "store-config", "store-admin-host", "metastore-uri",
          "server-id"}
    BY DEF hserverArgs
  <1>3. \A i \in 1 .. 7 : flag(hserverArgs[i]) \in W
    BY <1>2
  <1>4. /\ text("default") \in W /\ text("6570") \in W /\ text("6571") \in W
        /\ text("hstream-server") \in W /\ flag("port") \in W /\ flag("internal-port") \in W
    OBVIOUS
  <1> HIDE DEF W
  <1>5. \A i \in 1 .. 7 : add(hserverArgs[i], "default") \in S
    <2>1. \A i \in 1 .. 7 : <<flag(hserverArgs[i]), text("default")>> \in S
      BY <1>3, <1>4
    <2>2. <<>> \in S
      OBVIOUS
    <2> HIDE DEF S
    <2> QED
      BY <1>0, <2>1, <2>2
  <1>6. add("port", "6570") \in S /\ add("internal-port", "6571") \in S
    <2>1. <<flag("port"), text("6570")>> \in S /\ <<flag("internal-port"), text("6571")>> \in S
      BY <1>4
    <2>2. <<>> \in S
      OBVIOUS
    <2> HIDE DEF S
    <2> QED
      BY <1>0, <2>1, <2>2
  <1>7. seqs \in Seq(S) /\ Len(seqs) # 0
    <2> HIDE DEF S
    <2>1. PICK k \in Nat : k = 7
      OBVIOUS
    <2>2. /\ seqs = [i \in 1 .. k |-> seqs[i]]
          /\ \A i \in 1 .. k : seqs[i] \in S
      BY <1>2, <1>5, <2>1
    <2> HIDE DEF seqs
    <2>3. seqs \in Seq(S)
      BY <2>2
    <2>4. Len(seqs) = k
      BY <2>2
    <2> QED
      BY <2>1, <2>3, <2>4
  <1>8. flat \in S
    <2> HIDE DEF S, seqs
    <2> QED
      BY <1>1, <1>7, FlattenWithin
  <1>9. Kind(text("hstream-server")) = "value"
    <2>1. "hstream-server" # noName
      BY Zenon DEF noName
    <2> QED
      BY <2>1, TextIsValue
  <1> HIDE DEF flat
  <1>10. ASSUME NEW rest \in S
         PROVE  /\ args \o rest \in S /\ Len(args \o rest) \in Nat /\ Len(args \o rest) # 0
                /\ (args \o rest)[1] = text("hstream-server")
    BY <1>4, <1>8
  <1> DEFINE a1 == args \o add("port", "6570")
             a2 == a1 \o add("internal-port", "6571")
  <1>11. Flags(a1) = emptyMap
    BY <1>6, <1>9, <1>10, ValueFirst
  <1>12. /\ a2 \in S /\ Len(a2) \in Nat /\ Len(a2) # 0 /\ a2[1] = text("hstream-server")
    <2>1. /\ a1 \in S /\ Len(a1) \in Nat /\ Len(a1) # 0 /\ a1[1] = text("hstream-server")
      BY <1>6, <1>10
    <2> HIDE DEF a1
    <2> QED
      BY <1>6, <2>1
  <1>13. Flags(a2) = emptyMap
    <2> HIDE DEF a2
    <2> QED
      BY <1>9, <1>12, ValueFirst
  <1> QED
    BY <1>11, <1>13 DEF flat, add

(* The ports that the pods of the HServer get for the names that the       *)
(* operator knows are those that covering every port would give.           *)
LEMMA HServerPortsAre ==
  ASSUME NEW c, isPorts(c.ports), NEW n \in {"port", "internal-port"}
  PROVE  LET E == ToSet(extendPorts(c.ports, <<DefaultHServerPort, DefaultHServerInternalPort>>))
         IN Named(hserverPorts(c), n) = {coverPort(Flags(c.args), p) : p \in {p \in E : p.name = n}}
  <1> DEFINE P == DefaultHServerPort
             I == DefaultHServerInternalPort
             F == Flags(c.args)
             e1 == addPort(c.ports, P)
             E == ToSet(addPort(e1, I))
  <1>0. isPort(P) /\ isPort(I) /\ P.name = "port" /\ I.name = "internal-port"
    BY DefaultsArePorts DEF DefaultHServerPort, DefaultHServerInternalPort, port
  <1>1. PICK line1, line2 :
          /\ Flags(line1) = emptyMap /\ Flags(line2) = emptyMap
          /\ hserverPorts(c) =
               coverPortsFromArgs(IF flag("internal-port") \in DOMAIN F THEN c.args ELSE line2,
                 extendPorts(
                   coverPortsFromArgs(IF flag("port") \in DOMAIN F THEN c.args ELSE line1,
                     extendPorts(c.ports, <<P>>)), <<I>>))
    <2> DEFINE add(m, val) == addArg(F, m, val)
               args == <<text("hstream-server")>>
                 \o FlattenSeq([i \in DOMAIN hserverArgs |-> add(hserverArgs[i], "default")])
               args1 == args \o add("port", "6570")
               args2 == args1 \o add("internal-port", "6571")
    <2>1. Flags(args1) = emptyMap /\ Flags(args2) = emptyMap
      BY LineSetsNothing
    <2>2. hserverPorts(c) =
               coverPortsFromArgs(IF flag("internal-port") \in DOMAIN F THEN c.args ELSE args2,
                 extendPorts(
                   coverPortsFromArgs(IF flag("port") \in DOMAIN F THEN c.args ELSE args1,
                     extendPorts(c.ports, <<P>>)), <<I>>))
      BY DEF hserverPorts, addArg
    <2> HIDE DEF args1, args2
    <2> QED
      BY <2>1, <2>2
  <1> DEFINE F1 == IF flag("port") \in DOMAIN F THEN F ELSE emptyMap
             F2 == IF flag("internal-port") \in DOMAIN F THEN F ELSE emptyMap
             a1 == IF flag("port") \in DOMAIN F THEN c.args ELSE line1
             a2 == IF flag("internal-port") \in DOMAIN F THEN c.args ELSE line2
             p1 == coverPortsFromArgs(a1, e1)
             e2 == addPort(p1, I)
             p2 == coverPortsFromArgs(a2, e2)
  <1>2. hserverPorts(c) = p2 /\ Flags(a1) = F1 /\ Flags(a2) = F2
    BY <1>1, ExtendPortsUnrolled
  <1>3. ToSet(extendPorts(c.ports, <<P, I>>)) = E
    BY ExtendPortsUnrolled
  <1> HIDE DEF P, I, F, a1, a2, F1, F2
  <1>4. /\ isPorts(e1)
        /\ ToSet(e1) = ToSet(c.ports) \cup {x \in {P} : \A y \in ToSet(c.ports) : y.name # P.name}
    BY <1>0, AddPortIs
  <1> HIDE DEF e1
  <1>5. /\ isPorts(p1) /\ ToSet(p1) = {coverPort(F1, p) : p \in ToSet(e1)}
    BY <1>2, <1>4, CoverPortsIs
  <1> HIDE DEF p1
  <1>6. /\ isPorts(e2)
        /\ ToSet(e2) = ToSet(p1) \cup {x \in {I} : \A y \in ToSet(p1) : y.name # I.name}
    BY <1>0, <1>5, AddPortIs
  <1> HIDE DEF e2
  <1>7. ToSet(p2) = {coverPort(F2, p) : p \in ToSet(e2)}
    BY <1>2, <1>6, CoverPortsIs
  <1>8. E = ToSet(e1) \cup {x \in {I} : \A y \in ToSet(e1) : y.name # I.name}
    BY <1>0, <1>4, AddPortIs
  <1> HIDE DEF E, p2
  <1>9. (\A y \in ToSet(p1) : y.name # I.name) <=> (\A y \in ToSet(e1) : y.name # I.name)
    <2>1. \A p \in ToSet(e1) : isPort(p)
      BY <1>4 DEF isPorts, ToSet
    <2> QED
      BY <1>5, <2>1, CoverPortIs
  <1>10. /\ \A p \in E : isPort(p)
         /\ \A p \in ToSet(e1) : isPort(p)
    <2>1. \A p \in ToSet(e1) : isPort(p)
      BY <1>4 DEF isPorts, ToSet
    <2> QED
      BY <1>0, <1>8, <2>1
  <1>11. \A p : isPort(p) /\ p.name = n =>
           /\ coverPort(F2, p) = coverPort(F, p) \/ n = "port"
           /\ coverPort(F1, p) = coverPort(F, p) \/ n = "internal-port"
           /\ coverPort(F2, coverPort(F1, p)) = coverPort(F, p)
    <2> SUFFICES ASSUME NEW p, isPort(p), p.name = n
                 PROVE  /\ coverPort(F2, p) = coverPort(F, p) \/ n = "port"
                        /\ coverPort(F1, p) = coverPort(F, p) \/ n = "internal-port"
                        /\ coverPort(F2, coverPort(F1, p)) = coverPort(F, p)
      OBVIOUS
    <2>1. F1 \in {F, emptyMap} /\ F2 \in {F, emptyMap}
      BY DEF F1, F2
    <2>2. /\ n = "port" /\ F1 # F => flag(p.name) \notin DOMAIN F
          /\ n = "internal-port" /\ F2 # F => flag(p.name) \notin DOMAIN F
      BY DEF F1, F2
    <2>3. \A q : isPort(q) => coverPort(emptyMap, q) = q /\ isPort(coverPort(F, q))
      BY CoverPortIs
    <2>4. /\ flag(p.name) \notin DOMAIN F => coverPort(F, p) = p
          /\ coverPort(F, coverPort(F, p)) = coverPort(F, p)
      BY CoverPortIs
    <2> QED
      BY <2>1, <2>2, <2>3, <2>4
  <1>12. ASSUME NEW x, x \in ToSet(p2), x.name = n
         PROVE  \E p \in E : p.name = n /\ x = coverPort(F, p)
    <2>1. PICK q \in ToSet(e2) : x = coverPort(F2, q)
      BY <1>7, <1>12
    <2>2. CASE q \in ToSet(p1)
      <3>1. PICK p \in ToSet(e1) : q = coverPort(F1, p)
        BY <1>5, <2>2
      <3>2. isPort(p) /\ isPort(q) /\ q.name = p.name /\ x.name = q.name
        BY <1>10, <2>1, <3>1, CoverPortIs
      <3> QED
        BY <1>8, <1>11, <1>12, <2>1, <3>1, <3>2
    <2>3. CASE q \notin ToSet(p1)
      <3>1. q = I /\ I \in E
        BY <1>6, <1>8, <1>9, <2>1, <2>3
      <3>2. x.name = I.name
        BY <1>0, <2>1, <3>1, CoverPortIs
      <3>3. n = "internal-port" /\ I.name = n
        BY <1>0, <1>12, <3>2
      <3> QED
        BY <1>0, <1>11, <2>1, <3>1, <3>3
    <2> QED
      BY <2>2, <2>3
  <1>13. ASSUME NEW p \in E, p.name = n
         PROVE  coverPort(F, p) \in ToSet(p2) /\ coverPort(F, p).name = n
    <2>0. isPort(p) /\ coverPort(F, p).name = n
      BY <1>10, <1>13, CoverPortIs
    <2>1. CASE p \in ToSet(e1)
      <3>1. coverPort(F1, p) \in ToSet(e2)
        BY <1>5, <1>6, <2>1
      <3> QED
        BY <1>7, <1>11, <1>13, <2>0, <3>1
    <2>2. CASE p \notin ToSet(e1)
      <3>1. p = I /\ I \in ToSet(e2)
        BY <1>6, <1>8, <1>9, <2>2
      <3>2. n = "internal-port"
        BY <1>0, <1>13, <3>1
      <3> QED
        BY <1>7, <1>11, <1>13, <2>0, <3>1, <3>2
    <2> QED
      BY <2>1, <2>2
  <1>14. Named(p2, n) = {coverPort(F, p) : p \in {p \in E : p.name = n}}
    BY <1>12, <1>13 DEF Named
  <1> QED
    BY <1>2, <1>3, <1>14 DEF P, I, F

(* What the operator adds to plain args overrides no port and no address   *)
(* of the user, unless a port is called like a default arg.                *)
LEMMA ExtendedFlags ==
  ASSUME NEW h \in AllSpecs, NEW c \in Extended, plain(h[c].args)
  PROVE  LET F == Flags(h[c].args)
             new == extendArgs(h[c].args, extOf[c])
         IN /\ Parse(new).st = "done" /\ Parse(h[c].args).st = "done"
            /\ \A n : n \notin namesOf[c] =>
                 /\ flag(n) \in DOMAIN Flags(new) <=> flag(n) \in DOMAIN F
                 /\ flag(n) \in DOMAIN F => Flags(new)[flag(n)] = F[flag(n)]
  <1> DEFINE args == h[c].args
             ext == extOf[c]
             new == extendArgs(args, ext)
  <1>1. isArgs(args) /\ valuedArgs(args)
    BY SpecsAssumption DEF AllSpecs, Extended, Components
  <1>2. /\ isArgs(ext) /\ valuedArgs(ext) /\ spaced(ext)
        /\ \A k \in DOMAIN Flags(ext) : k.n \in namesOf[c] /\ k.n \notin {"p", "port"}
    BY DefaultArgs
  <1>3. plain(args)
    OBVIOUS
  <1> HIDE DEF args, ext
  <1>4. isArgs(new) /\ wellFormed(new) /\ Flags(new) = merged(Flags(args), Flags(ext))
    BY <1>1, <1>2, <1>3, ExtendPlain
  <1>5. Parse(args).st = "done"
    BY <1>1, <1>3, ParseComputes DEF plain
  <1> HIDE DEF new
  <1>6. Parse(new).st = "done"
    BY <1>4, ParseComputes
  <1>7. ASSUME NEW n, n \notin namesOf[c]
        PROVE  /\ flag(n) \in DOMAIN Flags(new) <=> flag(n) \in DOMAIN Flags(args)
               /\ flag(n) \in DOMAIN Flags(args) => Flags(new)[flag(n)] = Flags(args)[flag(n)]
    <2>1. flag(n).n = n
      BY WordFields DEF flag
    <2>2. flag(n) \notin DOMAIN Flags(ext)
      BY <1>2, <1>7, <2>1
    <2> QED
      BY <1>4, <2>2 DEF merged, kept
  <1> QED
    BY <1>5, <1>6, <1>7 DEF args, ext, new

(* So HMeta's port is the same in its Service and in its pods. *)
LEMMA HMetaPortsAgree ==
  ASSUME NEW h \in AllSpecs, plain(h["hmeta"].args)
  PROVE  wantPorts("hmeta", h) = wantPod("hmeta", h).ports
  <1> DEFINE args == h["hmeta"].args
             new == extendArgs(args, extOf["hmeta"])
             N == namesOf["hmeta"]
  <1>1. /\ Parse(new).st = "done" /\ Parse(args).st = "done"
        /\ \A n : n \notin N =>
             /\ flag(n) \in DOMAIN Flags(new) <=> flag(n) \in DOMAIN Flags(args)
             /\ flag(n) \in DOMAIN Flags(args) => Flags(new)[flag(n)] = Flags(args)[flag(n)]
    BY ExtendedFlags DEF Extended
  <1>2. "http-addr" \notin N
    BY DEF namesOf
  <1>3. wantPod("hmeta", h).ports = extendPorts(h["hmeta"].ports, <<parseHMetaPort(new)>>)
    BY DEF wantPod, hmetaContainer, extOf
  <1>4. wantPorts("hmeta", h) = extendPorts(h["hmeta"].ports, <<parseHMetaPort(args)>>)
    BY DEF wantPorts
  <1> HIDE DEF args, new, N
  <1>5. addrPort(Flags(new)) = addrPort(Flags(args))
    BY <1>1, <1>2 DEF addrPort
  <1>6. parseHMetaPort(new) = parseHMetaPort(args)
    BY <1>1, <1>5 DEF parseHMetaPort
  <1> QED
    BY <1>3, <1>4, <1>6 DEF args

(* And the ports of admin servers and of HStore. *)
LEMMA CoveredPortsAgree ==
  ASSUME DistinctPorts, PortsNamedApart,
         NEW h \in AllSpecs, NEW c \in {"admin", "hstore"}, plain(h[c].args)
  PROVE  ToSet(wantPorts(c, h)) = ToSet(wantPod(c, h).ports)
  <1> DEFINE F == Flags(h[c].args)
             new == extendArgs(h[c].args, extOf[c])
             N == namesOf[c]
             default == IF c = "admin" THEN <<DefaultAdminServerPort>> ELSE DefaultHStorePorts
             ps == extendPorts(h[c].ports, default)
  <1>1. \A n : n \notin N =>
          /\ flag(n) \in DOMAIN Flags(new) <=> flag(n) \in DOMAIN F
          /\ flag(n) \in DOMAIN F => Flags(new)[flag(n)] = F[flag(n)]
    BY ExtendedFlags DEF Extended
  <1>2. /\ wantPorts(c, h) = coverPortsFromArgs(h[c].args, ps)
        /\ wantPod(c, h).ports = coverPortsFromArgs(new, ps)
    BY DEF wantPorts, wantPod, getPorts, adminContainer, hstoreContainer, extOf
  <1>3. isPorts(h[c].ports) /\ \A p \in ToSet(h[c].ports) : p.name \notin N
    BY DEF DistinctPorts, PortsNamedApart, Components
  <1>4. isPorts(ps) /\ \A p \in ToSet(ps) : p.name \notin N
    <2>1. ASSUME NEW qs, isPorts(qs), \A p \in ToSet(qs) : p.name \notin N,
                 NEW q, isPort(q), q.name \notin N
          PROVE  isPorts(addPort(qs, q)) /\ \A p \in ToSet(addPort(qs, q)) : p.name \notin N
      BY <2>1, AddPortIs
    <2>2. /\ isPort(DefaultAdminServerPort) /\ DefaultAdminServerPort.name = "admin-port"
          /\ \A x : port("port", x).name = "port" /\ isPort(port("port", x))
          /\ \A x : port("gossip-port", x).name = "gossip-port" /\ isPort(port("gossip-port", x))
          /\ \A x : port("admin-port", x).name = "admin-port" /\ isPort(port("admin-port", x))
      BY DefaultsArePorts DEF DefaultAdminServerPort, port
    <2>3. "admin-port" \notin N /\ "port" \notin N /\ "gossip-port" \notin N
      BY DEF namesOf
    <2> HIDE DEF N
    <2>4. CASE c = "admin"
      <3>1. ps = addPort(h[c].ports, DefaultAdminServerPort)
        BY <2>4, ExtendPortsUnrolled
      <3> QED
        BY <1>3, <2>1, <2>2, <2>3, <3>1
    <2>5. CASE c # "admin"
      <3> DEFINE a == addPort(h[c].ports, port("port", 4440))
                 b == addPort(a, port("gossip-port", 4441))
      <3>1. ps = addPort(b, port("admin-port", 6440))
        BY <2>5, ExtendPortsUnrolled DEF DefaultHStorePorts
      <3>2. isPorts(a) /\ \A p \in ToSet(a) : p.name \notin N
        BY <1>3, <2>1, <2>2, <2>3
      <3> HIDE DEF a
      <3>3. isPorts(b) /\ \A p \in ToSet(b) : p.name \notin N
        BY <2>1, <2>2, <2>3, <3>2
      <3> HIDE DEF b
      <3> QED
        BY <2>1, <2>2, <2>3, <3>1, <3>3
    <2> QED
      BY <2>4, <2>5
  <1> HIDE DEF F, new, N, ps
  <1>5. \A p \in ToSet(ps) : coverPort(Flags(new), p) = coverPort(F, p)
    BY <1>1, <1>4 DEF coverPort
  <1>6. /\ ToSet(wantPorts(c, h)) = {coverPort(F, p) : p \in ToSet(ps)}
        /\ ToSet(wantPod(c, h).ports) = {coverPort(Flags(new), p) : p \in ToSet(ps)}
    BY <1>2, <1>4, CoverPortsIs DEF F
  <1> QED
    BY <1>5, <1>6

(* The ports that the HServer's Service and pods have for the names the    *)
(* operator knows, and where the console is sent.                          *)
LEMMA HServerPortsAgree ==
  ASSUME DistinctPorts, NEW h \in AllSpecs
  PROVE  /\ \A n \in {"port", "internal-port"} :
              {p \in ToSet(wantPorts("hserver", h)) : p.name = n}
                = {p \in ToSet(wantPod("hserver", h).ports) : p.name = n}
         /\ \A p \in wantPod("console", h).peers :
              port("port", p.port) \in ToSet(wantPorts("hserver", h))
  <1> DEFINE c == h["hserver"]
             P == DefaultHServerPort
             I == DefaultHServerInternalPort
             F == Flags(c.args)
             ps == extendPorts(c.ports, <<P, I>>)
  <1>1. isPorts(c.ports)
    BY DEF DistinctPorts, Components
  <1>2. /\ wantPorts("hserver", h) = coverPortsFromArgs(c.args, ps)
        /\ isPorts(ps) /\ \A p \in ToSet(ps) : isPort(p)
    <2>1. isPorts(ps)
      BY <1>1, ExtendedArePorts
    <2> QED
      BY <2>1 DEF wantPorts, getPorts, isPorts, ToSet
  <1>3. ToSet(wantPorts("hserver", h)) = {coverPort(F, p) : p \in ToSet(ps)}
    BY <1>2, CoverPortsIs
  <1>4. ASSUME NEW n \in {"port", "internal-port"}
        PROVE  {p \in ToSet(wantPorts("hserver", h)) : p.name = n}
                 = {p \in ToSet(wantPod("hserver", h).ports) : p.name = n}
    <2>1. CASE isShell(c)
      <3>1. wantPod("hserver", h).ports = wantPorts("hserver", h)
        BY <1>2, <2>1 DEF wantPod, shellContainer
      <3> QED
        BY <3>1
    <2>2. CASE ~isShell(c)
      <3>1. wantPod("hserver", h).ports = hserverPorts(c)
        BY <2>2 DEF wantPod, hserverContainer, hserverPorts
      <3>2. Named(hserverPorts(c), n) = {coverPort(F, p) : p \in {p \in ToSet(ps) : p.name = n}}
        BY <1>1, HServerPortsAre
      <3> HIDE DEF ps, F
      <3>3. \A p \in ToSet(ps) : coverPort(F, p).name = p.name
        BY <1>2, CoverPortIs
      <3>4. {p \in ToSet(wantPorts("hserver", h)) : p.name = n}
              = {coverPort(F, p) : p \in {p \in ToSet(ps) : p.name = n}}
        BY <1>3, <3>3
      <3> QED
        BY <3>1, <3>2, <3>4 DEF Named
    <2> QED
      BY <2>1, <2>2
  <1>5. ASSUME NEW x \in wantPod("console", h).peers
        PROVE  port("port", x.port) \in ToSet(wantPorts("hserver", h))
    <2> DEFINE qs == extendPorts(c.ports, <<P>>)
               ports == coverPortsFromArgs(c.args, qs)
    <2>1. PICK q \in Named(ports, "port") : x = peer("hserver", "port", q.port)
      BY <1>5 DEF wantPod, consoleContainer
    <2>2. isPorts(qs) /\ ToSet(qs) \subseteq ToSet(ps)
      <3>1. isPort(P) /\ isPort(I)
        BY DefaultsArePorts
      <3>2. qs = addPort(c.ports, P) /\ ps = addPort(addPort(c.ports, P), I)
        BY ExtendPortsUnrolled
      <3> HIDE DEF P, I
      <3>3. isPorts(addPort(c.ports, P))
        BY <1>1, <3>1, AddPortIs
      <3>4. ToSet(addPort(c.ports, P)) \subseteq ToSet(addPort(addPort(c.ports, P), I))
        BY <3>1, <3>3, AddPortIs
      <3> QED
        BY <3>2, <3>3, <3>4
    <2> HIDE DEF qs, ps, F
    <2>3. ToSet(ports) = {coverPort(Flags(c.args), p) : p \in ToSet(qs)} /\ isPorts(ports)
      BY <2>2, CoverPortsIs
    <2>4. q \in ToSet(wantPorts("hserver", h)) /\ q.name = "port" /\ isPort(q)
      BY <1>3, <2>2, <2>3 DEF Named, F, isPorts, ToSet
    <2>5. x.port = q.port
      BY <2>1 DEF peer
    <2> QED
      BY <2>4, <2>5 DEF isPort
  <1> QED
    BY <1>4, <1>5

(* At the end of every pass the ports of a Service are those of the pods   *)
(* behind it and the console is sent to one of them, whatever earlier      *)
(* passes left behind and although Service and pods read different args.   *)
THEOREM PortsAlwaysAgree ==
  ASSUME DistinctPorts, PortsNamedApart
  PROVE  Spec => []PortsAgree
  <1>1. PassInv => PortsAgree
    <2> SUFFICES ASSUME PassInv, AtEnd PROVE PortsAgree
      BY DEF PortsAgree
    <2>1. /\ \A c \in Served : ToSet(svc[c]) = ToSet(wantPorts(c, hdb))
          /\ \A c \in Served : ToSet(pod[c].ports) = ToSet(wantPod(c, hdb).ports)
          /\ pod["console"].peers = wantPod("console", hdb).peers /\ hdb \in AllSpecs
      BY ObjectsAtEnd DEF Components
    <2>2. "hserver" \in Served /\ Extended \subseteq Served
      BY DEF Served, Components, Extended
    <2>3. \A n \in {"port", "internal-port"} :
            Named(svc["hserver"], n) = Named(pod["hserver"].ports, n)
      BY <2>1, <2>2, HServerPortsAgree DEF Named
    <2>4. \A p \in pod["console"].peers : port("port", p.port) \in ToSet(svc["hserver"])
      BY <2>1, <2>2, HServerPortsAgree
    <2>5. ASSUME NEW c \in Extended, plain(hdb[c].args)
          PROVE  ToSet(svc[c]) = ToSet(pod[c].ports)
      <3>1. ToSet(wantPorts(c, hdb)) = ToSet(wantPod(c, hdb).ports)
        BY <2>1, <2>5, HMetaPortsAgree, CoveredPortsAgree DEF Extended
      <3> QED
        BY <2>1, <2>2, <3>1
    <2> QED
      BY <2>3, <2>4, <2>5 DEF PortsAgree, Extended
  <1> QED
    BY <1>1, PassInvariant, PTL

-----------------------------------------------------------------------------
(***************************************************************************)
(* The ports that processes open.                                          *)
(*                                                                         *)
(* The hash of a pod is that of a set of words.  If an old value looks     *)
(* like a flag, as in --a=--port, the pod may keep args in which a flag of *)
(* the spec is only a value.                                               *)
(***************************************************************************)
ValuesAreNoFlags ==
  \A s \in AllSpecs, c \in {"admin", "hstore"} :
    LET map == Flags(s[c].args)
    IN \A k \in DOMAIN map : Kind(map[k]) \in {"value", "empty"}

(* The hash tells the flags of args that Visit wrote. *)
LEMMA VisitOdd ==
  ASSUME NEW map, isFlagMap(map)
  PROVE  /\ \A k \in DOMAIN map : k \in odd(Visit(map))
         /\ \A k \in ToSet(Visit(map)) : Kind(k) = "flag" => k \in DOMAIN map
  <1> DEFINE D == DOMAIN map
             s == Visit(map)
             N == Cardinality(D)
  <1>1. /\ N \in Nat /\ DOMAIN s = 1 .. 2 * N
        /\ \A i \in 1 .. 2 * N : i % 2 = 1 =>
             s[i] \in D /\ rank(D, s[i]) = i \div 2 /\ s[i + 1] = map[s[i]]
        /\ \A k \in D : 2 * rank(D, k) + 1 \in 1 .. 2 * N /\ s[2 * rank(D, k) + 1] = k
    BY VisitPlaces
  <1>2. \A k \in D : Kind(k) = "flag" /\ Kind(map[k]) \in {"value", "empty"}
    BY FlagIsWord DEF isFlagMap
  <1> HIDE DEF s, N
  <1>3. ASSUME NEW i \in 1 .. 2 * N, i % 2 # 1
        PROVE  Kind(s[i]) # "flag"
    <2>0. N \in Nat
      BY <1>1
    <2>1. i - 1 \in 1 .. 2 * N /\ (i - 1) % 2 = 1 /\ (i - 1) + 1 = i
      BY <1>3, <2>0
    <2>2. s[i - 1] \in D /\ s[i] = map[s[i - 1]]
      BY <1>1, <2>1
    <2> QED
      BY <1>2, <2>2
  <1>4. ASSUME NEW k \in D
        PROVE  k \in odd(s)
    <2> DEFINE j == 2 * rank(D, k) + 1
    <2>1. j \in 1 .. 2 * N /\ s[j] = k
      BY <1>1
    <2>2. ASSUME NEW i \in 1 .. 2 * N, s[i] = k
          PROVE  i = j
      <3>1. i % 2 = 1
        BY <1>2, <1>3, <2>2
      <3>2. rank(D, k) = i \div 2
        BY <1>1, <2>2, <3>1
      <3>3. i = 2 * (i \div 2) + 1
        BY <1>1, <3>1
      <3> QED
        BY <3>2, <3>3
    <2> HIDE DEF j
    <2>3. {i \in DOMAIN s : s[i] = k} = {j}
      BY <1>1, <2>1, <2>2
    <2>4. Cardinality({j}) = 1
      BY FS_Singleton
    <2>5. k \in ToSet(s)
      BY <1>1, <2>1 DEF ToSet
    <2> QED
      BY <2>3, <2>4, <2>5 DEF odd
  <1>5. \A k \in ToSet(s) : Kind(k) = "flag" => k \in D
    BY <1>1, <1>3 DEF ToSet
  <1> QED
    BY <1>4, <1>5 DEF s

(* The args that the operator writes for admin servers and HStore. *)
LEMMA WrittenArgs ==
  ASSUME ValuesAreNoFlags, NEW h \in AllSpecs, NEW c \in {"admin", "hstore"}
  PROVE  LET new == extendArgs(h[c].args, extOf[c])
             map == merged(Flags(h[c].args), Flags(extOf[c]))
         IN IF Parse(h[c].args).st = "error" THEN new = <<>>
            ELSE isFlagMap(map) /\ new = Visit(map) /\ Flags(new) = map
  <1> DEFINE args == h[c].args
             ext == extOf[c]
             new == extendArgs(args, ext)
             map == merged(Flags(args), Flags(ext))
  <1>1. isArgs(args) /\ valuedArgs(args)
    BY SpecsAssumption DEF AllSpecs, Components
  <1>2. /\ isArgs(ext) /\ valuedArgs(ext) /\ spaced(ext)
        /\ \A k \in DOMAIN Flags(ext) : k.n \notin {"p", "port"}
    BY DefaultArgs DEF Extended
  <1>3. \A k \in DOMAIN Flags(args) : Kind(Flags(args)[k]) \in {"value", "empty"}
    BY DEF ValuesAreNoFlags
  <1> HIDE DEF args, ext
  <1>4. isFlagMap(Flags(args))
    BY <1>1, <1>3, FlagsAreFlags DEF isFlagMap
  <1>5. isFlagMap(Flags(ext))
    BY <1>2, PlainFlags
  <1>6. isFlagMap(map)
    BY <1>4, <1>5, MergedIsFlagMap
  <1>7. Parse(args).st = "error" => new = <<>>
    BY DEF extendArgs
  <1>8. Parse(args).st # "error" => new = Visit(map)
    BY <1>1, <1>2, ExtendArgsIs
  <1> HIDE DEF map, new
  <1>9. Parse(args).st # "error" => Flags(new) = map
    BY <1>6, <1>8, VisitParses
  <1> QED
    BY <1>6, <1>7, <1>8, <1>9 DEF args, ext, map, new

(* A port of admin servers or HStore that the args set: the pod, even one  *)
(* written for another spec, has the flag, and its port covered by it.     *)
LEMMA CoveredIsListened ==
  ASSUME DistinctPorts, ValuesAreNoFlags, NEW h \in AllSpecs, NEW g \in AllSpecs,
         NEW c \in {"admin", "hstore"}, plain(h[c].args),
         podHash(wantPod(c, g)) = podHash(wantPod(c, h)),
         NEW p \in ToSet(wantPod(c, g).ports), flag(p.name) \in DOMAIN Flags(h[c].args)
  PROVE  p.port = IntVal(Flags(wantPod(c, g).args)[flag(p.name)])
  <1> DEFINE k == flag(p.name)
             newG == extendArgs(g[c].args, extOf[c])
             newH == extendArgs(h[c].args, extOf[c])
             mapG == merged(Flags(g[c].args), Flags(extOf[c]))
             mapH == merged(Flags(h[c].args), Flags(extOf[c]))
             default == IF c = "admin" THEN <<DefaultAdminServerPort>> ELSE DefaultHStorePorts
             ps == extendPorts(g[c].ports, default)
  <1>1. /\ wantPod(c, g).args = newG /\ wantPod(c, h).args = newH
        /\ wantPod(c, g).ports = coverPortsFromArgs(newG, ps)
    BY DEF wantPod, adminContainer, hstoreContainer, extOf
  <1>2. odd(newG) = odd(newH)
    BY <1>1 DEF podHash
  <1>3. isPorts(ps)
    <2>1. isPorts(g[c].ports)
      BY DEF DistinctPorts, Components
    <2> QED
      BY <2>1, ExtendedArePorts, DefaultsArePorts
  <1>4. Parse(h[c].args).st # "error"
    <2>1. isArgs(h[c].args) /\ wellFormed(h[c].args)
      BY SpecsAssumption DEF AllSpecs, Components, plain
    <2> QED
      BY <2>1, ParseComputes
  <1>5. isFlagMap(mapH) /\ newH = Visit(mapH) /\ k \in DOMAIN mapH
    <2>1. isFlagMap(mapH) /\ newH = Visit(mapH)
      BY <1>4, WrittenArgs
    <2>2. DOMAIN Flags(h[c].args) \subseteq DOMAIN mapH
      BY DEF merged
    <2> QED
      BY <2>1, <2>2
  <1>6. Parse(g[c].args).st # "error" =>
          isFlagMap(mapG) /\ newG = Visit(mapG) /\ Flags(newG) = mapG
    BY WrittenArgs
  <1>7. Parse(g[c].args).st = "error" => newG = <<>>
    BY WrittenArgs
  <1> HIDE DEF mapH, mapG, newG, newH, ps, k
  <1>8. k \in odd(newG) /\ Kind(k) = "flag"
    <2>1. k \in odd(Visit(mapH))
      BY <1>5, VisitOdd
    <2>2. isFlag(k)
      BY <1>5 DEF isFlagMap
    <2> QED
      BY <1>2, <1>5, <2>1, <2>2, FlagIsWord
  <1>9. k \in ToSet(newG)
    BY <1>8 DEF odd
  <1>10. newG # <<>>
    BY <1>9 DEF ToSet
  <1>11. k \in DOMAIN Flags(newG)
    <2>1. isFlagMap(mapG) /\ newG = Visit(mapG) /\ Flags(newG) = mapG
      BY <1>6, <1>7, <1>10
    <2> QED
      BY <1>8, <1>9, <2>1, VisitOdd
  <1>12. PICK q \in ToSet(ps) : p = coverPort(Flags(newG), q)
    BY <1>1, <1>3, CoverPortsIs
  <1>13. isPort(q)
    BY <1>3 DEF isPorts, ToSet
  <1>14. p.name = q.name
    BY <1>12, <1>13, CoverPortIs
  <1>15. p = port(q.name, IntVal(Flags(newG)[k]))
    BY <1>11, <1>12, <1>14 DEF coverPort, k
  <1> QED
    BY <1>1, <1>15 DEF port, k

-----------------------------------------------------------------------------
(***************************************************************************)
(* The line of the HServer: pairs of default args and their values, then   *)
(* the args of the user.                                                   *)
(***************************************************************************)
lineNames == {"config-path", "bind-address", "advertised-address", "store-config",
              "store-admin-host", "metastore-uri", "server-id",
              "port", "internal-port", "seed-nodes"}
lineFlags == {flag(n) : n \in lineNames}
lineVal ==
  [k \in lineFlags |-> IF k = flag("port") THEN text("6570")
                       ELSE IF k = flag("internal-port") THEN text("6571")
                       ELSE text("default")]
linePairs == pairs(lineFlags, lineVal)

(* Flags have the names they are made of. *)
LEMMA FlagNames == \A m, n : flag(m) = flag(n) => m = n
  BY WordFields DEF flag

(* The words of the line are flags and values. *)
LEMMA LineWords ==
  ASSUME NEW k \in lineFlags
  PROVE  isFlag(k) /\ isWord(lineVal[k]) /\ Kind(lineVal[k]) = "value"
  <1>1. PICK n \in lineNames : k = flag(n)
    BY DEF lineFlags
  <1>2. n # noName
    BY Zenon DEF noName, lineNames
  <1>3. n \in DOMAIN Rank
    <2>1. lineNames \subseteq ToSet(hserverArgs) \cup {"port", "internal-port", "seed-nodes"}
      BY DEF lineNames, hserverArgs, ToSet
    <2> QED
      BY <2>1, DefaultsAssumption
  <1>4. isFlag(k)
    BY <1>1, <1>2, <1>3, WordFields DEF isFlag, flag
  <1>5. "6570" # noName /\ "6571" # noName /\ "default" # noName
    BY Zenon DEF noName
  <1>6. lineVal[k] \in {text("6570"), text("6571"), text("default")}
    BY DEF lineVal
  <1> QED
    BY <1>4, <1>5, <1>6, TextIsValue

(* What is added is a pair or nothing. *)
LEMMA AddedPairs ==
  ASSUME NEW fl, NEW n \in lineNames, NEW v, text(v) = lineVal[flag(n)]
  PROVE  /\ addArg(fl, n, v) \in linePairs
         /\ flag(n) \notin DOMAIN fl => flag(n) \in ToSet(addArg(fl, n, v))
  <1> DEFINE W == lineFlags \cup {lineVal[k] : k \in lineFlags}
  <1>0. flag(n) \in lineFlags
    BY DEF lineFlags
  <1>1. CASE flag(n) \in DOMAIN fl
    <2>1. addArg(fl, n, v) = <<>>
      BY <1>1 DEF addArg
    <2>2. <<>> \in linePairs
      BY DEF linePairs, pairs
    <2> QED
      BY <1>1, <2>1, <2>2
  <1>2. CASE flag(n) \notin DOMAIN fl
    <2>1. addArg(fl, n, v) = <<flag(n), lineVal[flag(n)]>>
      BY <1>2 DEF addArg
    <2>2. ASSUME NEW a \in lineFlags
          PROVE  <<a, lineVal[a]>> \in linePairs /\ a \in ToSet(<<a, lineVal[a]>>)
      <3> DEFINE s == <<a, lineVal[a]>>
      <3>1. s \in Seq(W)
        <4>1. a \in W /\ lineVal[a] \in W
          OBVIOUS
        <4> HIDE DEF W
        <4> QED
          BY <4>1
      <3>2. Len(s) = 2 /\ DOMAIN s = 1 .. 2 /\ s[1] = a /\ s[2] = lineVal[a]
        OBVIOUS
      <3> HIDE DEF s
      <3>3. \A i \in DOMAIN s : i % 2 = 1 => s[i] \in lineFlags /\ s[i + 1] = lineVal[s[i]]
        <4>1. \A i \in 1 .. 2 : i % 2 = 1 => i = 1
          OBVIOUS
        <4> QED
          BY <3>2, <4>1
      <3>4. a \in ToSet(s)
        BY <3>2 DEF ToSet
      <3>5. s \in linePairs
        <4>1. Len(s) % 2 = 0
          BY <3>2
        <4> QED
          BY <3>1, <3>3, <4>1, Zenon DEF linePairs, pairs
      <3> QED
        BY <3>4, <3>5 DEF s
    <2> QED
      BY <1>0, <1>2, <2>1, <2>2
  <1> QED
    BY <1>1, <1>2

(* The line, cut into the name of the program, pairs, and the user's args. *)
LEMMA LineForm ==
  ASSUME NEW c, isArgs(c.args), NEW hmeta
  PROVE  \E pre \in linePairs :
           /\ hserverContainer(c, hmeta).args =
                <<[line |-> <<text("hstream-server")>> \o (pre \o c.args)]>>
           /\ \A n \in {"port", "internal-port"} :
                flag(n) \notin DOMAIN Flags(c.args) => flag(n) \in ToSet(pre)
  <1> DEFINE F == Flags(c.args)
             seqs == [i \in DOMAIN hserverArgs |-> addArg(F, hserverArgs[i], "default")]
             flat == FlattenSeq(seqs)
             x == <<text("hstream-server")>>
             ap == addArg(F, "port", "6570")
             ai == addArg(F, "internal-port", "6571")
             as == addArg(F, "seed-nodes", "default")
             pre == ((flat \o ap) \o ai) \o as
  <1>1. /\ lineVal[flag("port")] = text("6570")
        /\ lineVal[flag("internal-port")] = text("6571")
        /\ \A n \in lineNames \ {"port", "internal-port"} : lineVal[flag(n)] = text("default")
    <2>1. \A n \in lineNames : flag(n) \in lineFlags
      BY DEF lineFlags
    <2>2. "port" \in lineNames /\ "internal-port" \in lineNames
      BY DEF lineNames
    <2>3. flag("port") # flag("internal-port")
      BY FlagNames
    <2>4. \A n : n # "port" => flag(n) # flag("port")
      BY FlagNames
    <2>5. \A n : n # "internal-port" => flag(n) # flag("internal-port")
      BY FlagNames
    <2> QED
      BY <2>1, <2>2, <2>3, <2>4, <2>5 DEF lineVal
  <1>2. DOMAIN hserverArgs = 1 .. 7 /\
        \A i \in 1 .. 7 : hserverArgs[i] \in lineNames \ {"port", "internal-port"}
    BY DEF hserverArgs, lineNames
  <1>3. /\ ap \in linePairs /\ ai \in linePairs /\ as \in linePairs
        /\ flag("port") \notin DOMAIN F => flag("port") \in ToSet(ap)
        /\ flag("internal-port") \notin DOMAIN F => flag("internal-port") \in ToSet(ai)
    <2>1. "port" \in lineNames /\ "internal-port" \in lineNames
          /\ "seed-nodes" \in lineNames \ {"port", "internal-port"}
      BY DEF lineNames
    <2>2. /\ text("6570") = lineVal[flag("port")] /\ text("6571") = lineVal[flag("internal-port")]
          /\ text("default") = lineVal[flag("seed-nodes")]
      BY <1>1, <2>1
    <2> QED
      BY <2>1, <2>2, AddedPairs
  <1>4. \A i \in 1 .. 7 : addArg(F, hserverArgs[i], "default") \in linePairs
    <2>1. \A i \in 1 .. 7 : /\ hserverArgs[i] \in lineNames
                            /\ text("default") = lineVal[flag(hserverArgs[i])]
      BY <1>1, <1>2
    <2> QED
      BY <2>1, AddedPairs
  <1>5. seqs \in Seq(linePairs) /\ Len(seqs) # 0
    <2>1. PICK k \in Nat : k = 7
      OBVIOUS
    <2>2. /\ seqs = [i \in 1 .. k |-> seqs[i]]
          /\ \A i \in 1 .. k : seqs[i] \in linePairs
      BY <1>2, <1>4, <2>1
    <2> HIDE DEF seqs
    <2>3. seqs \in Seq(linePairs)
      BY <2>2
    <2>4. Len(seqs) = k
      BY <2>2
    <2> QED
      BY <2>1, <2>3, <2>4
  <1>6. \A a, b \in linePairs : a \o b \in linePairs
    BY PairsConcat DEF linePairs
  <1>7. flat \in linePairs
    <2> HIDE DEF seqs
    <2> QED
      BY <1>5, <1>6, FlattenWithin
  <1>8. hserverContainer(c, hmeta).args =
          <<[line |-> ((((x \o flat) \o ap) \o ai) \o as) \o c.args]>>
    BY DEF hserverContainer, joined, addArg
  <1> HIDE DEF flat, ap, ai, as
  <1>9. pre \in linePairs
    BY <1>3, <1>6, <1>7
  <1> DEFINE W == lineFlags \cup {lineVal[k] : k \in lineFlags}
             V == (W \cup ToSet(c.args)) \cup {text("hstream-server")}
  <1>10. /\ flat \in Seq(V) /\ ap \in Seq(V) /\ ai \in Seq(V) /\ as \in Seq(V)
         /\ c.args \in Seq(V) /\ x \in Seq(V)
    <2>1. /\ flat \in Seq(W) /\ ap \in Seq(W) /\ ai \in Seq(W) /\ as \in Seq(W)
      BY <1>3, <1>7 DEF linePairs, pairs
    <2>2. c.args \in Seq(ToSet(c.args)) /\ x \in Seq({text("hstream-server")})
      BY DEF isArgs
    <2>3. W \subseteq V /\ ToSet(c.args) \subseteq V /\ {text("hstream-server")} \subseteq V
      OBVIOUS
    <2> HIDE DEF W, V, x
    <2> QED
      BY <2>1, <2>2, <2>3, SeqMonotonic
  <1> HIDE DEF V, x
  <1>11. ((((x \o flat) \o ap) \o ai) \o as) \o c.args = x \o (pre \o c.args)
    <2> DEFINE S == Seq(V)
               cat(u, v) == u \o v
    <2>1. \A u, v, w \in S : cat(cat(u, v), w) = cat(u, cat(v, w))
      <3> SUFFICES ASSUME NEW u \in Seq(V), NEW v \in Seq(V), NEW w \in Seq(V)
                   PROVE  (u \o v) \o w = u \o (v \o w)
        OBVIOUS
      <3> QED
        BY ConcatAssociative
    <2>2. \A u, v \in S : cat(u, v) \in S
      <3> SUFFICES ASSUME NEW u \in Seq(V), NEW v \in Seq(V)
                   PROVE  u \o v \in Seq(V)
        OBVIOUS
      <3> QED
        BY ConcatProperties
    <2>3. x \in S /\ flat \in S /\ ap \in S
      BY <1>10
    <2>4. ai \in S
      BY <1>10
    <2>5. as \in S
      BY <1>10
    <2>6. c.args \in S
      BY <1>10
    <2>7. x \in S
      BY <1>10
    <2> HIDE DEF S, cat
    <2> DEFINE fa == cat(flat, ap)
               fb == cat(fa, ai)
               fc == cat(fb, as)
    <2>8. fa \in S /\ cat(cat(x, flat), ap) = cat(x, fa)
      BY <2>1, <2>2, <2>3
    <2> HIDE DEF fa
    <2>9. fb \in S /\ cat(cat(x, fa), ai) = cat(x, fb)
      BY <2>1, <2>2, <2>4, <2>7, <2>8
    <2> HIDE DEF fb
    <2>10. fc \in S
      BY <2>2, <2>5, <2>9
    <2>11. cat(cat(x, fb), as) = cat(x, fc)
      BY <2>1, <2>5, <2>7, <2>9
    <2> HIDE DEF fc
    <2>12. cat(cat(x, fc), c.args) = cat(x, cat(fc, c.args))
      BY <2>1, <2>6, <2>7, <2>10
    <2>13. cat(cat(cat(cat(cat(x, flat), ap), ai), as), c.args) = cat(x, cat(fc, c.args))
      BY <2>8, <2>9, <2>11, <2>12
    <2> QED
      BY <2>13 DEF cat, fa, fb, fc, pre
  <1>12. ToSet(ap) \subseteq ToSet(pre) /\ ToSet(ai) \subseteq ToSet(pre)
    <2>1. ASSUME NEW a \in Seq(V), NEW b \in Seq(V)
          PROVE  a \o b \in Seq(V) /\ ToSet(a) \subseteq ToSet(a \o b)
                 /\ ToSet(b) \subseteq ToSet(a \o b)
      <3> DEFINE d == a \o b
      <3>1. /\ d \in Seq(V) /\ DOMAIN d = 1 .. Len(a) + Len(b)
            /\ DOMAIN a = 1 .. Len(a) /\ DOMAIN b = 1 .. Len(b)
            /\ Len(a) \in Nat /\ Len(b) \in Nat
        OBVIOUS
      <3>2. \A i \in 1 .. Len(a) : d[i] = a[i] /\ i \in DOMAIN d
        OBVIOUS
      <3>3. \A i \in 1 .. Len(b) : d[Len(a) + i] = b[i] /\ Len(a) + i \in DOMAIN d
        OBVIOUS
      <3> HIDE DEF d
      <3>4. ToSet(a) \subseteq ToSet(d)
        BY <3>1, <3>2 DEF ToSet
      <3>5. ToSet(b) \subseteq ToSet(d)
        BY <3>1, <3>3 DEF ToSet
      <3> QED
        BY <3>1, <3>4, <3>5 DEF d
    <2>2. flat \o ap \in Seq(V) /\ ToSet(ap) \subseteq ToSet(flat \o ap)
      BY <1>10, <2>1
    <2>3. /\ (flat \o ap) \o ai \in Seq(V) /\ ToSet(ai) \subseteq ToSet((flat \o ap) \o ai)
          /\ ToSet(flat \o ap) \subseteq ToSet((flat \o ap) \o ai)
      BY <1>10, <2>1, <2>2
    <2>4. ToSet((flat \o ap) \o ai) \subseteq ToSet(pre)
      BY <1>10, <2>1, <2>3
    <2> QED
      BY <2>2, <2>3, <2>4
  <1>13. hserverContainer(c, hmeta).args =
           <<[line |-> <<text("hstream-server")>> \o (pre \o c.args)]>>
    BY <1>8, <1>11 DEF x
  <1> HIDE DEF pre
  <1> QED
    BY <1>3, <1>9, <1>12, <1>13

(* The two ports of the HServer that the operator knows: its process opens *)
(* the one its pod declares.                                               *)
LEMMA LineIsListened ==
  ASSUME NEW c, isPorts(c.ports), isArgs(c.args), NEW hmeta,
         NEW p \in ToSet(hserverPorts(c)), p.name \in {"port", "internal-port"},
         flag(p.name) \in DOMAIN Flags(c.args) \/ Named(c.ports, p.name) = {}
  PROVE  p.port =
           IntVal(Flags(Tail(hserverContainer(c, hmeta).args[1].line))[flag(p.name)])
  <1> DEFINE F == Flags(c.args)
             n == p.name
             E == ToSet(extendPorts(c.ports, <<DefaultHServerPort, DefaultHServerInternalPort>>))
  <1>1. PICK pre \in linePairs :
           /\ hserverContainer(c, hmeta).args =
                <<[line |-> <<text("hstream-server")>> \o (pre \o c.args)]>>
           /\ \A m \in {"port", "internal-port"} :
                flag(m) \notin DOMAIN F => flag(m) \in ToSet(pre)
    BY LineForm
  <1> DEFINE t == pre \o c.args
  <1>2. /\ \A k \in DOMAIN F : k \in DOMAIN Flags(t) /\ Flags(t)[k] = F[k]
        /\ \A k \in ToSet(pre) \cap lineFlags : k \notin DOMAIN F =>
             k \in DOMAIN Flags(t) /\ Flags(t)[k] = lineVal[k]
    BY LineWords, PairsFirst DEF linePairs
  <1>3. t \in Seq(lineFlags \cup {lineVal[k] : k \in lineFlags} \cup ToSet(c.args))
    <2> DEFINE W == lineFlags \cup {lineVal[k] : k \in lineFlags}
    <2>1. pre \in Seq(W) /\ c.args \in Seq(ToSet(c.args))
      BY DEF isArgs, linePairs, pairs
    <2> HIDE DEF W
    <2>2. t \in Seq(W \cup ToSet(c.args))
      BY <2>1
    <2> QED
      BY <2>2 DEF W
  <1> HIDE DEF t
  <1>4. Tail(hserverContainer(c, hmeta).args[1].line) = t
    <2>1. ASSUME NEW S, NEW u \in Seq(S), NEW y PROVE Tail(<<y>> \o u) = u
      <3> DEFINE V == S \cup {y}
                 z == <<y>> \o u
      <3>1. /\ z \in Seq(V) /\ Len(z) = 1 + Len(u) /\ u \in Seq(V) /\ Len(u) \in Nat
            /\ \A i \in 1 .. Len(u) : z[1 + i] = u[i]
        OBVIOUS
      <3> HIDE DEF z, V
      <3>2. /\ Tail(z) \in Seq(V) /\ Len(Tail(z)) = Len(z) - 1
            /\ \A i \in 1 .. Len(Tail(z)) : Tail(z)[i] = z[i + 1]
        <4>1. z # <<>>
          BY <3>1
        <4> QED
          BY <3>1, <4>1, HeadTailProperties
      <3>3. Len(Tail(z)) = Len(u) /\ \A i \in 1 .. Len(u) : Tail(z)[i] = u[i]
        BY <3>1, <3>2
      <3>4. Tail(z) = u
        BY <3>1, <3>2, <3>3, SeqEqual
      <3> QED
        BY <3>4 DEF z
    <2>2. Tail(<<text("hstream-server")>> \o t) = t
      BY <1>3, <2>1
    <2> QED
      BY <1>1, <2>2 DEF t
  <1>5. PICK q \in E : q.name = n /\ p = coverPort(F, q)
    <2>1. p \in Named(hserverPorts(c), n)
      BY DEF Named
    <2> QED
      BY <2>1, HServerPortsAre
  <1>6. CASE flag(n) \in DOMAIN F
    <2>1. p = port(n, IntVal(F[flag(n)]))
      BY <1>5, <1>6 DEF coverPort
    <2>2. p.port = IntVal(F[flag(n)])
      BY <2>1 DEF port
    <2> QED
      BY <1>2, <1>4, <1>6, <2>2
  <1>7. CASE flag(n) \notin DOMAIN F
    <2>0. n \in {"port", "internal-port"} /\ Named(c.ports, n) = {}
      BY <1>7
    <2>1. flag(n) \in ToSet(pre) \cap lineFlags
      <3>1. flag(n) \in lineFlags
        BY <2>0 DEF lineFlags, lineNames
      <3> QED
        BY <1>1, <1>7, <2>0, <3>1
    <2>2. Flags(t)[flag(n)] = lineVal[flag(n)]
      BY <1>2, <1>7, <2>1
    <2>3. p = q
      BY <1>5, <1>7 DEF coverPort
    <2>4. q \in {DefaultHServerPort, DefaultHServerInternalPort}
      <3> DEFINE P == DefaultHServerPort
                 I == DefaultHServerInternalPort
      <3>1. isPort(P) /\ isPort(I)
        BY DefaultsArePorts
      <3>2. E = ToSet(addPort(addPort(c.ports, P), I))
        BY ExtendPortsUnrolled
      <3> HIDE DEF P, I
      <3>3. /\ isPorts(addPort(c.ports, P))
            /\ ToSet(addPort(c.ports, P)) \subseteq ToSet(c.ports) \cup {P}
        BY <3>1, AddPortIs
      <3>4. ToSet(addPort(addPort(c.ports, P), I)) \subseteq ToSet(addPort(c.ports, P)) \cup {I}
        BY <3>1, <3>3, AddPortIs
      <3>5. q \notin ToSet(c.ports)
        BY <1>5, <2>0 DEF Named
      <3> QED
        BY <3>2, <3>3, <3>4, <3>5 DEF P, I
    <2>5. \A v \in DOMAIN NumberOf : IntVal(text(v)) = NumberOf[v]
      <3>1. \A v : text(v).d = 0 /\ text(v).n = v /\ text(v).v = None
        BY WordFields DEF text
      <3> QED
        BY <3>1 DEF IntVal, IsNumber, Number
    <2>6. \/ n = "port" /\ p.port = 6570 /\ lineVal[flag(n)] = text("6570")
          \/ n = "internal-port" /\ p.port = 6571 /\ lineVal[flag(n)] = text("6571")
      <3>1. flag("internal-port") # flag("port")
        BY FlagNames
      <3>2. \/ n = "port" /\ p.port = 6570
            \/ n = "internal-port" /\ p.port = 6571
        BY <1>5, <2>3, <2>4 DEF DefaultHServerPort, DefaultHServerInternalPort, port
      <3> QED
        BY <2>1, <3>1, <3>2 DEF lineVal
    <2>7. IntVal(text("6570")) = 6570 /\ IntVal(text("6571")) = 6571
      BY <2>5, NumbersAssumption
    <2>8. IntVal(Flags(t)[flag(n)]) = p.port
      BY <2>2, <2>6, <2>7
    <2> QED
      BY <1>4, <2>8
  <1> QED
    BY <1>6, <1>7

(* Whatever specs came before, a port that the args set is the one the     *)
(* process opens, as is a port of the HServer that the operator sets.      *)
THEOREM DeclaredIsAlwaysListened ==
  ASSUME DistinctPorts, ValuesAreNoFlags
  PROVE  Spec => []DeclaredIsListened
  <1>1. PassInv => DeclaredIsListened
    <2> SUFFICES ASSUME PassInv, AtEnd, NEW c \in {"admin", "hstore", "hserver"},
                        plain(hdb[c].args), ~(c = "hserver" /\ isShell(hdb[c])),
                        NEW p \in ToSet(pod[c].ports),
                        IF c = "hserver"
                        THEN p.name \in {"port", "internal-port"}
                             /\ (flag(p.name) \in DOMAIN Flags(hdb[c].args)
                                 \/ Named(hdb[c].ports, p.name) = {})
                        ELSE flag(p.name) \in DOMAIN Flags(hdb[c].args)
                 PROVE  p.port = listens(c, p.name)
      BY DEF DeclaredIsListened
    <2>1. /\ FromSpec(c) /\ podHash(pod[c]) = podHash(wantPod(c, hdb))
          /\ ToSet(pod[c].ports) = ToSet(wantPod(c, hdb).ports) /\ hdb \in AllSpecs
      BY ObjectsAtEnd DEF Components, Served
    <2>2. CASE c \in {"admin", "hstore"}
      <3>1. PICK g \in AllSpecs : pod[c] = wantPod(c, g)
        BY <2>1 DEF FromSpec
      <3>2. p.port = IntVal(Flags(wantPod(c, g).args)[flag(p.name)])
        BY <2>1, <2>2, <3>1, CoveredIsListened
      <3> QED
        BY <2>2, <3>1, <3>2 DEF listens
    <2>3. CASE c = "hserver"
      <3>1. pod[c].args = wantPod(c, hdb).args
        BY <2>3, HServerLine
      <3>2. /\ wantPod(c, hdb) = hserverContainer(hdb[c], hdb["hmeta"])
            /\ wantPod(c, hdb).ports = hserverPorts(hdb[c])
        BY <2>3 DEF wantPod, hserverContainer, hserverPorts
      <3>3. isPorts(hdb[c].ports) /\ isArgs(hdb[c].args)
        BY <2>1, <2>3, SpecsAssumption DEF DistinctPorts, AllSpecs, Components
      <3>4. p.port = IntVal(Flags(Tail(
              hserverContainer(hdb[c], hdb["hmeta"]).args[1].line))[flag(p.name)])
        BY <2>1, <2>3, <3>2, <3>3, LineIsListened
      <3> QED
        BY <2>3, <3>1, <3>2, <3>4 DEF listens
    <2> QED
      BY <2>2, <2>3
  <1> QED
    BY <1>1, PassInvariant, PTL
=============================================================================
