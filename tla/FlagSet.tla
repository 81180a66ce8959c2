------------------------------ MODULE FlagSet ------------------------------
(***************************************************************************)
(* The args of a container as the operator reads, completes and writes     *)
(* them: the parser FlagSet, the second parser ParseArgs, the merging of   *)
(* default args and ports into those of the user, and the ports that args  *)
(* override.                                                               *)
(*                                                                         *)
(* A word is what the code looks at in it: the number of dashes it begins  *)
(* with (3 stands for three and more), the text up to the first '=', and   *)
(* the word after that '=', None without one.                              *)
(***************************************************************************)
EXTENDS Integers, SequencesExt

CONSTANTS
  Rank,         \* place of a flag's name in lexicographical order
  NumberOf,     \* the number a text is the decimal form of
  PortOf,       \* the port of a text of the form host:port
  None          \* absence of a value

word(d, n) == [d |-> d, n |-> n, v |-> None]
flag(n) == word(2, n)
text(n) == word(0, n)
Empty == text("")

(* Names of flags have places of their own, and None is no flag. *)
ASSUME RankAssumption ==
  /\ Rank \in [DOMAIN Rank -> Nat]
  /\ \A m, n \in DOMAIN Rank : Rank[m] = Rank[n] => m = n
ASSUME NoneAssumption == \A d \in 0 .. 3, n \in DOMAIN Rank : word(d, n) # None

(* What parseOne makes of a word: "dash" is a single '-', "end" is "--",   *)
(* "bad" has too many dashes or begins, after the dashes, with '='.        *)
Kind(s) ==
  IF s.d = 0
  THEN IF s = Empty THEN "empty" ELSE IF s.n = "" THEN "bad" ELSE "value"
  ELSE IF s = word(1, "") THEN "dash"
       ELSE IF s = word(2, "") THEN "end"
       ELSE IF s.d = 3 \/ s.n = "" THEN "bad"
       ELSE IF s.v = None THEN "flag" ELSE "assign"

(* Args are sequences of words, in which every name of a flag has a place, *)
(* and what follows a '=' is a word again.                                 *)
isWord(w) == w \in [d : 0 .. 3, n : {w.n}, v : {w.v}]
isArgs(s) ==
  /\ s \in Seq(ToSet(s))
  /\ \A i \in DOMAIN s :
       isWord(s[i]) /\ (Kind(s[i]) \in {"flag", "assign"} => s[i].n \in DOMAIN Rank)
valuedArgs(s) == \A i \in DOMAIN s : s[i].v # None => isWord(s[i].v)

(* The map m with key k set to x. *)
Set(m, k, x) == [y \in DOMAIN m \cup {k} |-> IF y = k THEN x ELSE m[y]]
emptyMap == [y \in {} |-> y]

(***************************************************************************)
(* FlagSet.  f.i is where f.args begins in the arguments.  An error and a  *)
(* panic (s[1] of a word with one character) end the parsing and leave     *)
(* actual as it is.                                                        *)
(***************************************************************************)
newFlagSet == [i |-> 1, actual |-> emptyMap, lastName |-> None, st |-> "more"]

parseOne(arguments, f) ==
  LET s       == arguments[f.i]
      k       == Kind(s)
      name    == [s EXCEPT !.v = None]
      pending == f.lastName # None
      next    == [f EXCEPT !.i = @ + 1]
  IN IF f.i > Len(arguments) THEN [f EXCEPT !.st = "done"] ELSE
     CASE k = "empty" -> [next EXCEPT !.lastName = None]
       [] k = "dash" /\ ~pending -> [f EXCEPT !.st = "panic"]
       [] k = "end" /\ ~pending -> [next EXCEPT !.st = "done"]
       [] k = "assign" /\ ~pending -> [next EXCEPT !.actual = Set(@, name, s.v)]
       [] k = "flag" /\ ~pending ->
            [next EXCEPT !.actual = Set(@, name, Empty), !.lastName = name]
       [] k = "value" /\ pending ->
            [next EXCEPT !.actual = Set(@, f.lastName, s), !.lastName = None]
       [] OTHER -> [f EXCEPT !.st = "error"]

(* A mutant: the words after "--" are parsed too. *)
Parse_pastEnd(arguments) ==
  LET run[n \in 0 .. Len(arguments) + 1] ==
        IF n = 0 THEN newFlagSet ELSE parseOne(arguments, run[n - 1])
  IN run[Len(arguments) + 1]

Parse(arguments) ==
  LET run[n \in 0 .. Len(arguments) + 1] ==
        IF n = 0 THEN newFlagSet
        ELSE LET f == run[n - 1]
             IN IF f.st = "more" THEN parseOne(arguments, f) ELSE f
  IN run[Len(arguments) + 1]

Flags(arguments) == Parse(arguments).actual
Panics(arguments) == Parse(arguments).st = "panic"

(* Flags in lexicographical order: '-' comes before every letter. *)
Before(k, l) == k.d > l.d \/ (k.d = l.d /\ Rank[k.n] < Rank[l.n])
Visit(flags) ==
  LET nth(i) == CHOOSE k \in DOMAIN flags :
                  Cardinality({l \in DOMAIN flags : Before(l, k)}) = i
  IN [i \in 1 .. 2 * Cardinality(DOMAIN flags) |->
       IF i % 2 = 1 THEN nth(i \div 2) ELSE flags[nth(i \div 2 - 1)]]

(***************************************************************************)
(* The second parser, which knows neither '=' nor "--" nor errors.         *)
(***************************************************************************)

(* A mutant: a key keeps taking values. *)
ParseArgs_keepsKey(args) ==
  LET step(p, arg) ==
        IF arg.d > 0 THEN [key |-> arg, map |-> Set(p.map, arg, Empty)]
        ELSE IF p.key # None THEN [p EXCEPT !.map = Set(@, p.key, arg)]
        ELSE p
  IN FoldLeft(step, [key |-> None, map |-> emptyMap], args).map

ParseArgs(args) ==
  LET step(p, arg) ==
        IF arg.d > 0 THEN [key |-> arg, map |-> Set(p.map, arg, Empty)]
        ELSE IF p.key # None THEN [key |-> None, map |-> Set(p.map, p.key, arg)]
        ELSE p
  IN FoldLeft(step, [key |-> None, map |-> emptyMap], args).map

(***************************************************************************)
(* Default args and ports.                                                 *)
(***************************************************************************)

(* A mutant: a default replaces what the user says. *)
extendArgs_defaultsWin(args, externalArgs) ==
  LET user == Flags(args)
      ext  == Flags(externalArgs)
      keys == {k \in DOMAIN user : \A l \in DOMAIN ext : k.n # l.n}
  IN IF Parse(args).st = "error" THEN <<>>
     ELSE Visit([k \in keys \cup DOMAIN ext |-> IF k \in keys THEN user[k] ELSE ext[k]])

(* The args of the user and the defaults whose name, whatever its dashes,  *)
(* the user does not set; nothing at all if the user's args do not parse.  *)
extendArgs(args, externalArgs) ==
  LET parsed == Parse(args)
      user == parsed.actual
      ext  == Flags(externalArgs)
      existKeys == {IF k = word(1, "p") THEN "port" ELSE k.n : k \in DOMAIN user}
      added == {k \in DOMAIN ext : k.n \notin existKeys}
  IN IF parsed.st = "error" THEN <<>>
     ELSE Visit([k \in DOMAIN user \cup added |-> IF k \in added THEN ext[k] ELSE user[k]])

port(name, number) == [name |-> name, port |-> number]
Named(ports, name) == {p \in ToSet(ports) : p.name = name}

(* The default ports are all named, so the branch for unnamed ones is out. *)
extendPorts(ports, externalPorts) ==
  FoldLeft(LAMBDA ps, p : IF Named(ps, p.name) = {} THEN Append(ps, p) ELSE ps,
           ports, externalPorts)

(* strconv.Atoi succeeds; one leading dash is a sign. *)
IsNumber(s) == s.d =< 1 /\ s.v = None /\ s.n \in DOMAIN NumberOf
Number(s) == IF s.d = 1 THEN -NumberOf[s.n] ELSE NumberOf[s.n]

(* intstr.Parse(s).IntVal: 0 for a text that is not a number. *)
IntVal(s) == IF IsNumber(s) THEN Number(s) ELSE 0

(* A mutant: flags with one dash are looked for. *)
coverPortsFromArgs_oneDash(args, ports) ==
  LET parsedArgs == Flags(args)
  IN [i \in DOMAIN ports |->
       IF word(1, ports[i].name) \in DOMAIN parsedArgs
       THEN [ports[i] EXCEPT !.port = IntVal(parsedArgs[word(1, ports[i].name)])]
       ELSE ports[i]]

(* What was parsed before an error counts. *)
coverPortsFromArgs(args, ports) ==
  LET parsedArgs == Flags(args)
  IN [i \in DOMAIN ports |->
       IF flag(ports[i].name) \in DOMAIN parsedArgs
       THEN [ports[i] EXCEPT !.port = IntVal(parsedArgs[flag(ports[i].name)])]
       ELSE ports[i]]

(***************************************************************************)
(* What the parser should compute, without its state.  A flag is open at i *)
(* if the word before i is a flag without '='.                             *)
(***************************************************************************)
open(s, i) == i - 1 \in DOMAIN s /\ Kind(s[i - 1]) = "flag"
ends(s) == {i \in DOMAIN s : Kind(s[i]) = "end"}

fits(s, i) ==
  \/ Kind(s[i]) = "empty"
  \/ Kind(s[i]) = "value" /\ open(s, i)
  \/ Kind(s[i]) \in {"flag", "assign", "end"} /\ ~open(s, i)

(* The words the parser consumes: up to "--" or the first that does not fit. *)
consumed(s) ==
  {i \in DOMAIN s : /\ \A j \in 1 .. i : fits(s, j)
                    /\ \A j \in ends(s) : i =< j}
wellFormed(s) == consumed(s) = DOMAIN s \/ ends(s) \cap consumed(s) # {}

(* The last occurrence of a flag decides. *)
meaning(s) ==
  LET within     == consumed(s)
      sets(i)    == Kind(s[i]) \in {"flag", "assign"}
      name(i)    == [s[i] EXCEPT !.v = None]
      value(i)   == IF Kind(s[i]) = "assign" THEN s[i].v
                    ELSE IF i + 1 \in within THEN s[i + 1] ELSE Empty
      at         == {i \in within : sets(i)}
      last(k)    == CHOOSE i \in at : name(i) = k /\ \A j \in at : name(j) = k => j =< i
  IN [k \in {name(i) : i \in at} |-> value(last(k))]
(* No '=' and no "--"; and args whose values can be told from flags, so    *)
(* that they can be written as words of their own.                         *)
spaced(s) == \A i \in DOMAIN s : Kind(s[i]) \notin {"assign", "end"}
plain(s) ==
  /\ wellFormed(s)
  /\ \A k \in DOMAIN meaning(s) : Kind(meaning(s)[k]) \in {"value", "empty"}
=============================================================================
