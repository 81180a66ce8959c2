---------------------------- MODULE MCConnector ----------------------------
(***************************************************************************)
(* Instances of Connector for TLC.                                         *)
(***************************************************************************)
EXTENDS Connector

a == <<"a">>
b == <<"b">>
MCStreams == {a, b}
MCKeys == {"stream", "index"}
MCValues == MCStreams \cup {<<"x">>, <<"y">>}

noConfig == [k \in MCKeys |-> None]
MCConfigs == {[noConfig EXCEPT !["index"] = <<"x">>]}
AnyConfigs == MCConfigs \cup {Malformed}

(* Stream a is patched. *)
spec(streams) ==
  [streams |-> streams, ports |-> <<"prom">>, containerPorts |-> <<>>,
   patches |-> [s \in Streams |-> IF s = a THEN [noConfig EXCEPT !["index"] = <<"y">>] ELSE None]]

OneSpec == {spec(<<a>>)}
TwoSpecs == {spec(<<a, b>>), spec(<<b>>)}
=============================================================================
