--------------------------- MODULE FlagSet_proofs ---------------------------
(***************************************************************************)
(* What the parsers and the merging of args and ports compute, for args of *)
(* any length.  Induction is by the least counterexample.                  *)
(***************************************************************************)
EXTENDS FlagSet, FiniteSetTheorems, WellFoundedInduction, TLAPS

(* The word without what follows '=': the key under which the flag is      *)
(* kept.                                                                   *)
nameOf(w) == [w EXCEPT !.v = None]

(* A word without '=' is its own name. *)
LEMMA WordFields ==
  ASSUME NEW x, NEW y
  PROVE  /\ nameOf(word(x, y)) = word(x, y)
         /\ word(x, y).d = x /\ word(x, y).n = y /\ word(x, y).v = None
  BY DEF nameOf, word

(* The name of a word. *)
LEMMA NameIsWord ==
  ASSUME NEW w, isWord(w)
  PROVE  nameOf(w) = word(w.d, w.n) /\ w.d \in 0 .. 3 /\ w = [d |-> w.d, n |-> w.n, v |-> w.v]
  BY DEF isWord, nameOf, word

(* Args are indexed from 1, their elements are words, and the name of a    *)
(* flag is not None.                                                       *)
LEMMA ArgsAreWords ==
  ASSUME NEW s, isArgs(s)
  PROVE  /\ Len(s) \in Nat /\ DOMAIN s = 1 .. Len(s)
         /\ \A i \in DOMAIN s : isWord(s[i])
         /\ \A i \in DOMAIN s : Kind(s[i]) \in {"flag", "assign"} =>
              s[i].n \in DOMAIN Rank /\ nameOf(s[i]) # None
  BY NameIsWord, NoneAssumption DEF isArgs

(* A set of naturals has a least element. *)
LEMMA NatMin ==
  ASSUME NEW T, T \subseteq Nat, T # {}
  PROVE  \E x \in T : \A y \in T : x <= y
  <1>1. PICK x \in T : \A y \in T : ~(<<y, x>> \in OpToRel(<, Nat))
    BY NatLessThanWellFounded, WFMin
  <1>2. \A y \in T : ~(y < x)
    BY <1>1 DEF OpToRel
  <1> QED
    BY <1>2

(* One round of the loop of Parse, which stops unless there is more.       *)
advance(args, f) == IF f.st = "more" THEN parseOne(args, f) ELSE f
(* r holds the states of the parser after 0 .. k rounds.                   *)
IsRun(r, k, args) ==
  r = [n \in 0 .. k |-> IF n = 0 THEN newFlagSet ELSE advance(args, r[n - 1])]

(* The parser can be run for any number of rounds.                         *)
LEMMA RunExists ==
  ASSUME NEW args, NEW k \in Nat
  PROVE  \E r : IsRun(r, k, args)
  <1> DEFINE T == {n \in Nat : ~\E r : IsRun(r, n, args)}
  <1> SUFFICES ASSUME T # {} PROVE FALSE
    OBVIOUS
  <1>1. PICK n \in T : \A m \in T : n <= m
    BY NatMin
  <1>2. n # 0
    <2> DEFINE r == [m \in 0 .. 0 |-> newFlagSet]
    <2>1. IsRun(r, 0, args)
      BY DEF IsRun
    <2> QED
      BY <2>1
  <1>3. PICK r : IsRun(r, n - 1, args)
    BY <1>1, <1>2
  <1> DEFINE s == [m \in 0 .. n |-> IF m = n THEN advance(args, r[n - 1]) ELSE r[m]]
  <1>4. IsRun(s, n, args)
    <2>1. \A m \in 0 .. n - 1 : s[m] = r[m]
      BY <1>1
    <2>2. ASSUME NEW m \in 0 .. n
          PROVE  s[m] = IF m = 0 THEN newFlagSet ELSE advance(args, s[m - 1])
      <3>1. CASE m = n
        BY <1>2, <2>1, <3>1
      <3>2. CASE m # n
        BY <1>3, <2>1, <3>2 DEF IsRun
      <3> QED
        BY <3>1, <3>2
    <2> QED
      BY <2>2 DEF IsRun
  <1> QED
    BY <1>1, <1>4

(* Parse returns the last state of a run of as many rounds as there are    *)
(* words, and one more.                                                    *)
LEMMA ParseIsRun ==
  ASSUME NEW args, Len(args) \in Nat
  PROVE  \E r : IsRun(r, Len(args) + 1, args) /\ Parse(args) = r[Len(args) + 1]
  <1> DEFINE run[n \in 0 .. Len(args) + 1] ==
        IF n = 0 THEN newFlagSet
        ELSE LET f == run[n - 1]
             IN IF f.st = "more" THEN parseOne(args, f) ELSE f
  <1>1. Parse(args) = run[Len(args) + 1]
    BY DEF Parse
  <1>2. run = CHOOSE r : IsRun(r, Len(args) + 1, args)
    BY DEF IsRun, advance
  <1>3. PICK r : IsRun(r, Len(args) + 1, args)
    BY RunExists
  <1>4. IsRun(run, Len(args) + 1, args)
    BY <1>2, <1>3
  <1> QED
    BY <1>1, <1>4

(* Args that begin with a value, such as the name of a program, do not     *)
(* parse, and set no flag.                                                 *)
LEMMA ValueFirst ==
  ASSUME NEW s, Len(s) \in Nat, Len(s) # 0, Kind(s[1]) = "value"
  PROVE  Flags(s) = emptyMap
  <1> DEFINE K == Len(s) + 1
  <1>0. K \in Nat /\ K >= 1 /\ ~(1 > Len(s))
    OBVIOUS
  <1>1. PICK r : IsRun(r, K, s) /\ Parse(s) = r[K]
    BY ParseIsRun
  <1> DEFINE bad(f) == f.st = "error" /\ f.actual = emptyMap
  <1>2. bad(r[1])
    <2>1. r[0] = newFlagSet /\ r[1] = advance(s, r[0])
      BY <1>0, <1>1 DEF IsRun
    <2>2. /\ newFlagSet.i = 1 /\ newFlagSet.st = "more" /\ newFlagSet.lastName = None
          /\ newFlagSet.actual = emptyMap
          /\ newFlagSet = [i |-> 1, actual |-> emptyMap, lastName |-> None, st |-> "more"]
      BY DEF newFlagSet
    <2>3. parseOne(s, newFlagSet) = [newFlagSet EXCEPT !.st = "error"]
      BY <1>0, <2>2 DEF parseOne
    <2>4. r[1] = [i |-> 1, actual |-> emptyMap, lastName |-> None, st |-> "error"]
      BY <2>1, <2>2, <2>3 DEF advance
    <2> QED
      BY <2>4
  <1> DEFINE T == {n \in 1 .. K : ~bad(r[n])}
  <1>3. T = {}
    <2> SUFFICES ASSUME T # {} PROVE FALSE
      OBVIOUS
    <2>1. T \subseteq Nat
      BY <1>0
    <2>2. PICK n \in T : \A m \in T : n <= m
      <3> HIDE DEF T
      <3> QED
        BY <2>1, NatMin
    <2>3. n \in 1 .. K /\ n # 1 /\ ~bad(r[n])
      BY <1>2, <2>2
    <2>4. n - 1 \in 1 .. K /\ n - 1 \notin T
      BY <1>0, <2>2, <2>3
    <2>5. bad(r[n - 1]) /\ r[n] = advance(s, r[n - 1])
      BY <1>0, <1>1, <2>3, <2>4 DEF IsRun
    <2>6. r[n] = r[n - 1]
      BY <2>5 DEF advance
    <2> QED
      BY <2>3, <2>5, <2>6
  <1>4. bad(r[K])
    BY <1>0, <1>3
  <1> QED
    BY <1>1, <1>4 DEF Flags

-----------------------------------------------------------------------------
(* The positions among the first m words that set a flag.                  *)
flagsIn(s, m) == {i \in 1 .. m : Kind(s[i]) \in {"flag", "assign"}}
(* What the word at i gives its flag, if only m words are read.            *)
valueAt(s, i, m) ==
  IF Kind(s[i]) = "assign" THEN s[i].v ELSE IF i + 1 <= m THEN s[i + 1] ELSE Empty

(* Among the first m words, the one at i is the last that sets k.          *)
LastAt(k, i, s, m) ==
  i \in flagsIn(s, m) /\ nameOf(s[i]) = k /\ \A j \in flagsIn(s, m) : nameOf(s[j]) = k => j <= i

(* map holds the flags that the first m words set, each with the value     *)
(* given last.                                                             *)
Means(map, s, m) ==
  /\ map = [k \in DOMAIN map |-> map[k]]
  /\ DOMAIN map = {nameOf(s[i]) : i \in flagsIn(s, m)}
  /\ \A k \in DOMAIN map : \E i \in Nat : LastAt(k, i, s, m) /\ map[k] = valueAt(s, i, m)

(* Only the empty word is of the kind empty.                               *)
LEMMA EmptyKind ==
  ASSUME NEW w, Kind(w) = "empty"
  PROVE  w = Empty
  BY DEF Kind

(* A word that sets no flag and gives none a value changes nothing.        *)
LEMMA MeansSkip ==
  ASSUME NEW s, NEW m \in Nat, NEW map, Means(map, s, m),
         Kind(s[m + 1]) \notin {"flag", "assign"},
         m \in flagsIn(s, m) /\ Kind(s[m]) = "flag" => s[m + 1] = Empty
  PROVE  Means(map, s, m + 1)
  <1>1. flagsIn(s, m + 1) = flagsIn(s, m)
    BY DEF flagsIn
  <1>2. \A i \in flagsIn(s, m) : valueAt(s, i, m + 1) = valueAt(s, i, m)
    BY DEF flagsIn, valueAt
  <1>3. \A k, i : LastAt(k, i, s, m + 1) <=> LastAt(k, i, s, m)
    BY <1>1 DEF LastAt
  <1>4. \A k, i : LastAt(k, i, s, m) => i \in flagsIn(s, m)
    BY DEF LastAt
  <1> QED
    BY <1>1, <1>2, <1>3, <1>4 DEF Means

(* A word that sets a flag sets its value too, which is empty for the time *)
(* being if there is no '='.                                               *)
LEMMA MeansAdd ==
  ASSUME NEW s, NEW m \in Nat, NEW map, Means(map, s, m),
         Kind(s[m + 1]) \in {"flag", "assign"},
         ~(m \in flagsIn(s, m) /\ Kind(s[m]) = "flag"),
         NEW x, x = IF Kind(s[m + 1]) = "assign" THEN s[m + 1].v ELSE Empty
  PROVE  Means(Set(map, nameOf(s[m + 1]), x), s, m + 1)
  <1> DEFINE new == Set(map, nameOf(s[m + 1]), x)
  <1>1. flagsIn(s, m + 1) = flagsIn(s, m) \cup {m + 1}
    BY DEF flagsIn
  <1>2. \A i \in flagsIn(s, m) : valueAt(s, i, m + 1) = valueAt(s, i, m) /\ i <= m /\ i \in Nat
    BY DEF flagsIn, valueAt
  <1>3. /\ new = [k \in DOMAIN new |-> new[k]]
        /\ DOMAIN new = DOMAIN map \cup {nameOf(s[m + 1])}
        /\ new[nameOf(s[m + 1])] = x
        /\ \A k \in DOMAIN map \ {nameOf(s[m + 1])} : new[k] = map[k]
    BY DEF Set
  <1>4. DOMAIN new = {nameOf(s[i]) : i \in flagsIn(s, m + 1)}
    BY <1>1, <1>3 DEF Means
  <1>5. LastAt(nameOf(s[m + 1]), m + 1, s, m + 1) /\ x = valueAt(s, m + 1, m + 1)
    BY <1>1, <1>2 DEF LastAt, valueAt
  <1>6. ASSUME NEW k \in DOMAIN map \ {nameOf(s[m + 1])}
        PROVE  \E i \in Nat : LastAt(k, i, s, m + 1) /\ map[k] = valueAt(s, i, m + 1)
    BY <1>1, <1>2, <1>6 DEF LastAt, Means
  <1> HIDE DEF new
  <1>7. ASSUME NEW k \in DOMAIN new
        PROVE  \E i \in Nat : LastAt(k, i, s, m + 1) /\ new[k] = valueAt(s, i, m + 1)
    <2>1. CASE k = nameOf(s[m + 1])
      BY <1>3, <1>5, <2>1
    <2>2. CASE k # nameOf(s[m + 1])
      BY <1>3, <1>6, <2>2
    <2> QED
      BY <2>1, <2>2
  <1>8. Means(new, s, m + 1)
    BY <1>3, <1>4, <1>7 DEF Means
  <1> QED
    BY <1>8 DEF new

(* A word after a flag without '=' is the value of that flag.              *)
LEMMA MeansValue ==
  ASSUME NEW s, NEW m \in Nat, NEW map, Means(map, s, m),
         Kind(s[m + 1]) \notin {"flag", "assign"},
         m \in flagsIn(s, m), Kind(s[m]) = "flag"
  PROVE  Means(Set(map, nameOf(s[m]), s[m + 1]), s, m + 1)
  <1> DEFINE new == Set(map, nameOf(s[m]), s[m + 1])
  <1>1. flagsIn(s, m + 1) = flagsIn(s, m)
    BY DEF flagsIn
  <1>2. \A i \in flagsIn(s, m) : i \in Nat /\ i <= m /\ (i # m => valueAt(s, i, m + 1) = valueAt(s, i, m))
    BY DEF flagsIn, valueAt
  <1>3. nameOf(s[m]) \in DOMAIN map
    BY DEF Means
  <1>4. /\ new = [k \in DOMAIN new |-> new[k]]
        /\ DOMAIN new = DOMAIN map
        /\ new[nameOf(s[m])] = s[m + 1]
        /\ \A k \in DOMAIN map \ {nameOf(s[m])} : new[k] = map[k]
    BY <1>3 DEF Set
  <1>5. LastAt(nameOf(s[m]), m, s, m + 1) /\ s[m + 1] = valueAt(s, m, m + 1)
    BY <1>1, <1>2 DEF LastAt, valueAt
  <1>6. ASSUME NEW k \in DOMAIN map \ {nameOf(s[m])}
        PROVE  \E i \in Nat : LastAt(k, i, s, m + 1) /\ map[k] = valueAt(s, i, m + 1)
    <2>1. PICK i \in Nat : LastAt(k, i, s, m) /\ map[k] = valueAt(s, i, m)
      BY DEF Means
    <2>2. i # m /\ i \in flagsIn(s, m)
      BY <1>6, <2>1 DEF LastAt
    <2> QED
      BY <1>1, <1>2, <2>1, <2>2 DEF LastAt
  <1>7. DOMAIN new = {nameOf(s[i]) : i \in flagsIn(s, m + 1)}
    BY <1>1, <1>4 DEF Means
  <1> HIDE DEF new
  <1>8. ASSUME NEW k \in DOMAIN new
        PROVE  \E i \in Nat : LastAt(k, i, s, m + 1) /\ new[k] = valueAt(s, i, m + 1)
    <2>1. CASE k = nameOf(s[m])
      BY <1>4, <1>5, <2>1
    <2>2. CASE k # nameOf(s[m])
      BY <1>4, <1>6, <2>2
    <2> QED
      BY <2>1, <2>2
  <1>9. Means(new, s, m + 1)
    BY <1>4, <1>7, <1>8 DEF Means
  <1> QED
    BY <1>9 DEF new

-----------------------------------------------------------------------------
(* There is no "--" among the first m words.                               *)
NoEnd(s, m) == \A j \in 1 .. m : Kind(s[j]) # "end"

(* The parser has met a word that does not fit there.                      *)
Stopped(f, s) ==
  /\ f.i <= Len(s) /\ ~fits(s, f.i) /\ NoEnd(s, f.i - 1)
  /\ f.st = "panic" <=> Kind(s[f.i]) = "dash" /\ ~open(s, f.i)

(* The invariant of the loop of Parse: after n rounds the words before f.i *)
(* fit, and f.actual is what they mean.                                    *)
RunInv(f, s, n) ==
  /\ f = [i |-> f.i, actual |-> f.actual, lastName |-> f.lastName, st |-> f.st]
  /\ f.i \in 1 .. Len(s) + 1
  /\ f.st \in {"more", "done", "error", "panic"}
  /\ \A j \in 1 .. f.i - 1 : fits(s, j)
  /\ Means(f.actual, s, f.i - 1)
  /\ f.st = "more" =>
       /\ f.i = n + 1 /\ NoEnd(s, n)
       /\ f.lastName = IF open(s, f.i) THEN nameOf(s[n]) ELSE None
  /\ f.st = "done" =>
       \/ f.i = Len(s) + 1 /\ NoEnd(s, Len(s))
       \/ f.i > 1 /\ Kind(s[f.i - 1]) = "end" /\ NoEnd(s, f.i - 2)
  /\ f.st \in {"error", "panic"} => Stopped(f, s)

(* A new FlagSet satisfies it.                                             *)
LEMMA RunInvInit ==
  ASSUME NEW s, isArgs(s)
  PROVE  RunInv(newFlagSet, s, 0)
  <1>1. Means(emptyMap, s, 0)
    <2>1. flagsIn(s, 0) = {}
      BY DEF flagsIn
    <2>2. emptyMap = [k \in DOMAIN emptyMap |-> emptyMap[k]] /\ DOMAIN emptyMap = {}
      BY DEF emptyMap
    <2> QED
      BY <2>1, <2>2 DEF Means
  <1>2. ~open(s, 1) /\ NoEnd(s, 0)
    BY ArgsAreWords DEF open, NoEnd
  <1>3. /\ newFlagSet.i = 1 /\ newFlagSet.actual = emptyMap /\ newFlagSet.st = "more"
        /\ newFlagSet.lastName = None /\ Len(s) \in Nat
    BY ArgsAreWords DEF newFlagSet
  <1>4. newFlagSet = [i |-> newFlagSet.i, actual |-> newFlagSet.actual,
                      lastName |-> newFlagSet.lastName, st |-> newFlagSet.st]
    BY DEF newFlagSet
  <1> QED
    BY <1>1, <1>2, <1>3, <1>4 DEF RunInv

(* A word is consumed. *)
Consumes(g, s, m) ==
  /\ m <= Len(s) /\ NoEnd(s, m - 1)
  /\ \A j \in 1 .. m : fits(s, j)
  /\ Means(g.actual, s, m)
  /\ g = [i |-> m + 1, actual |-> g.actual, lastName |-> g.lastName, st |-> g.st]
  /\ \/ /\ g.st = "more" /\ Kind(s[m]) # "end"
        /\ g.lastName = IF Kind(s[m]) = "flag" THEN nameOf(s[m]) ELSE None
     \/ g.st = "done" /\ Kind(s[m]) = "end"

(* A round that consumes a word leads to a state that satisfies it.        *)
LEMMA RunInvConsumes ==
  ASSUME NEW s, isArgs(s), NEW m \in Nat \ {0}, NEW g, Consumes(g, s, m)
  PROVE  RunInv(g, s, m)
  <1>0. Len(s) \in Nat /\ DOMAIN s = 1 .. Len(s)
    BY ArgsAreWords
  <1>1. g.i = m + 1
    BY DEF Consumes
  <1>3. g.i \in 1 .. Len(s) + 1 /\ g.i - 1 = m /\ g.i - 2 = m - 1
    BY <1>0, <1>1 DEF Consumes
  <1>4. g.st = "more" => g.i = m + 1 /\ NoEnd(s, m)
    BY <1>1 DEF NoEnd, Consumes
  <1>5. open(s, g.i) <=> Kind(s[m]) = "flag"
    BY <1>0, <1>1 DEF open, Consumes
  <1>6. g.st = "done" => g.i > 1 /\ Kind(s[g.i - 1]) = "end" /\ NoEnd(s, g.i - 2)
    BY <1>1, <1>3 DEF Consumes
  <1>7. /\ g = [i |-> g.i, actual |-> g.actual, lastName |-> g.lastName, st |-> g.st]
        /\ g.st \in {"more", "done"}
    BY <1>1 DEF Consumes
  <1>8. Means(g.actual, s, g.i - 1)
    BY <1>1, <1>3 DEF Consumes
  <1>9. g.st = "more" => g.lastName = IF open(s, g.i) THEN nameOf(s[m]) ELSE None
    BY <1>1, <1>5 DEF Consumes
  <1>10. \A j \in 1 .. g.i - 1 : fits(s, j)
    BY <1>3 DEF Consumes
  <1> QED
    BY <1>1, <1>3, <1>4, <1>6, <1>7, <1>8, <1>9, <1>10 DEF RunInv

(* Every round preserves it.                                               *)
LEMMA RunInvStep ==
  ASSUME NEW s, isArgs(s), NEW n \in Nat, NEW f, RunInv(f, s, n)
  PROVE  RunInv(advance(s, f), s, n + 1)
  <1>0. Len(s) \in Nat /\ DOMAIN s = 1 .. Len(s) /\ \A j \in DOMAIN s : isWord(s[j])
    BY ArgsAreWords
  <1>1. CASE f.st # "more"
    BY <1>1 DEF advance, RunInv
  <1> SUFFICES ASSUME f.st = "more" PROVE RunInv(advance(s, f), s, n + 1)
    BY <1>1
  <1>2. /\ f = [i |-> f.i, actual |-> f.actual, lastName |-> f.lastName, st |-> "more"]
        /\ f.i = n + 1 /\ n + 1 <= Len(s) + 1 /\ NoEnd(s, n)
        /\ \A j \in 1 .. n : fits(s, j)
        /\ Means(f.actual, s, n)
        /\ f.lastName = IF open(s, n + 1) THEN nameOf(s[n]) ELSE None
    BY DEF RunInv
  <1>3. advance(s, f) = parseOne(s, f)
    BY DEF advance
  <1>4. CASE n + 1 > Len(s)
    <2>1. parseOne(s, f) = [f EXCEPT !.st = "done"]
      BY <1>2, <1>4 DEF parseOne
    <2>2. /\ parseOne(s, f).i = n + 1 /\ parseOne(s, f).st = "done"
          /\ parseOne(s, f).actual = f.actual
          /\ parseOne(s, f) = [i |-> n + 1, actual |-> f.actual, lastName |-> f.lastName, st |-> "done"]
      BY <1>2, <2>1
    <2>3. n = Len(s)
      BY <1>0, <1>2, <1>4
    <2> QED
      BY <1>0, <1>2, <1>3, <2>2, <2>3 DEF RunInv
  <1> DEFINE w == s[n + 1]
  <1>5. CASE n + 1 <= Len(s)
    <2>0. n + 1 \in Nat \ {0}
      OBVIOUS
    <2>1. isWord(w) /\ n + 1 \in DOMAIN s
      BY <1>0, <1>5
    <2>2. Kind(w) \in {"empty", "bad", "value", "dash", "end", "flag", "assign"}
      BY DEF Kind
    <2>3. open(s, n + 1) <=> n \in flagsIn(s, n) /\ Kind(s[n]) = "flag"
      BY <1>0, <1>5 DEF open, flagsIn
    <2>4. f.lastName # None <=> open(s, n + 1)
      <3>1. open(s, n + 1) => nameOf(s[n]) # None
        BY ArgsAreWords DEF open
      <3> QED
        BY <1>2, <3>1
    <2>5. fits(s, n + 1) <=> \/ Kind(w) = "empty"
                             \/ Kind(w) = "value" /\ open(s, n + 1)
                             \/ Kind(w) \in {"flag", "assign", "end"} /\ ~open(s, n + 1)
      BY DEF fits
    <2>6. ~(f.i > Len(s)) /\ s[f.i] = w
      BY <1>0, <1>2, <1>5
    <2> DEFINE next == [f EXCEPT !.i = @ + 1]
    <2>7. next = [i |-> n + 2, actual |-> f.actual, lastName |-> f.lastName, st |-> "more"]
      BY <1>2
    <2>8. CASE Kind(w) = "empty"
      <3>0. parseOne(s, f) = [next EXCEPT !.lastName = None]
        BY <2>4, <2>6, <2>8 DEF parseOne
      <3>1. parseOne(s, f) = [i |-> n + 2, actual |-> f.actual, lastName |-> None, st |-> "more"]
        BY <2>7, <3>0
      <3>2. Means(f.actual, s, n + 1)
        BY <1>2, <2>8, EmptyKind, MeansSkip
      <3>3. \A j \in 1 .. n + 1 : fits(s, j)
        BY <1>2, <2>5, <2>8
      <3>4. Consumes(parseOne(s, f), s, n + 1)
        BY <1>2, <1>5, <2>8, <3>1, <3>2, <3>3 DEF Consumes
      <3> QED
        BY <1>3, <2>0, <3>4, RunInvConsumes
    <2>9. CASE Kind(w) = "value" /\ open(s, n + 1)
      <3>0. parseOne(s, f) = [next EXCEPT !.actual = Set(@, f.lastName, w), !.lastName = None]
        BY <2>4, <2>6, <2>9 DEF parseOne
      <3>1. parseOne(s, f) = [i |-> n + 2, actual |-> Set(f.actual, f.lastName, w), lastName |-> None,
                              st |-> "more"]
        BY <2>7, <3>0
      <3>2. Means(Set(f.actual, f.lastName, w), s, n + 1)
        BY <1>2, <2>3, <2>9, MeansValue
      <3>3. \A j \in 1 .. n + 1 : fits(s, j)
        BY <1>2, <2>5, <2>9
      <3>4. Consumes(parseOne(s, f), s, n + 1)
        BY <1>2, <1>5, <2>9, <3>1, <3>2, <3>3 DEF Consumes
      <3> QED
        BY <1>3, <2>0, <3>4, RunInvConsumes
    <2>10. CASE Kind(w) = "flag" /\ ~open(s, n + 1)
      <3>0. parseOne(s, f) = [next EXCEPT !.actual = Set(@, nameOf(w), Empty), !.lastName = nameOf(w)]
        BY <2>4, <2>6, <2>10 DEF parseOne, nameOf
      <3>1. parseOne(s, f) = [i |-> n + 2, actual |-> Set(f.actual, nameOf(w), Empty),
                              lastName |-> nameOf(w), st |-> "more"]
        BY <2>7, <3>0
      <3>2. Means(Set(f.actual, nameOf(w), Empty), s, n + 1)
        BY <1>2, <2>3, <2>10, MeansAdd
      <3>3. \A j \in 1 .. n + 1 : fits(s, j)
        BY <1>2, <2>5, <2>10
      <3>4. Consumes(parseOne(s, f), s, n + 1)
        BY <1>2, <1>5, <2>10, <3>1, <3>2, <3>3 DEF Consumes
      <3> QED
        BY <1>3, <2>0, <3>4, RunInvConsumes
    <2>11. CASE Kind(w) = "assign" /\ ~open(s, n + 1)
      <3>0. parseOne(s, f) = [next EXCEPT !.actual = Set(@, nameOf(w), w.v)]
        BY <2>4, <2>6, <2>11 DEF parseOne, nameOf
      <3>1. parseOne(s, f) = [i |-> n + 2, actual |-> Set(f.actual, nameOf(w), w.v),
                              lastName |-> None, st |-> "more"]
        BY <2>4, <2>7, <2>11, <3>0
      <3>2. Means(Set(f.actual, nameOf(w), w.v), s, n + 1)
        BY <1>2, <2>3, <2>11, MeansAdd
      <3>3. \A j \in 1 .. n + 1 : fits(s, j)
        BY <1>2, <2>5, <2>11
      <3>4. Consumes(parseOne(s, f), s, n + 1)
        BY <1>2, <1>5, <2>4, <2>11, <3>1, <3>2, <3>3 DEF Consumes
      <3> QED
        BY <1>3, <2>0, <3>4, RunInvConsumes
    <2>12. CASE Kind(w) = "end" /\ ~open(s, n + 1)
      <3>0. parseOne(s, f) = [next EXCEPT !.st = "done"]
        BY <2>4, <2>6, <2>12 DEF parseOne
      <3>1. parseOne(s, f) = [i |-> n + 2, actual |-> f.actual, lastName |-> f.lastName, st |-> "done"]
        BY <2>7, <3>0
      <3>2. Means(f.actual, s, n + 1)
        BY <1>2, <2>3, <2>12, MeansSkip
      <3>3. \A j \in 1 .. n + 1 : fits(s, j)
        BY <1>2, <2>5, <2>12
      <3>4. Consumes(parseOne(s, f), s, n + 1)
        BY <1>2, <1>5, <2>12, <3>1, <3>2, <3>3 DEF Consumes
      <3> QED
        BY <1>3, <2>0, <3>4, RunInvConsumes
    <2>13. CASE ~fits(s, n + 1)
      <3>1. PICK st \in {"panic", "error"} :
              /\ parseOne(s, f) = [f EXCEPT !.st = st]
              /\ st = "panic" <=> Kind(w) = "dash" /\ ~open(s, n + 1)
        <4>1. CASE Kind(w) = "dash" /\ ~open(s, n + 1)
          BY <2>4, <2>6, <4>1 DEF parseOne
        <4>2. CASE ~(Kind(w) = "dash" /\ ~open(s, n + 1))
          BY <2>2, <2>4, <2>5, <2>6, <2>13, <4>2 DEF parseOne
        <4> QED
          BY <4>1, <4>2
      <3>2. parseOne(s, f) = [i |-> n + 1, actual |-> f.actual, lastName |-> f.lastName, st |-> st]
        BY <1>2, <3>1
      <3> QED
        BY <1>0, <1>2, <1>3, <1>5, <2>13, <3>1, <3>2 DEF RunInv, Stopped
    <2> QED
      BY <2>2, <2>5, <2>8, <2>9, <2>10, <2>11, <2>12, <2>13
  <1> QED
    BY <1>0, <1>4, <1>5


(* How parsing ends. *)
LEMMA ParseEnds ==
  ASSUME NEW s, isArgs(s)
  PROVE  RunInv(Parse(s), s, Len(s) + 1) /\ Parse(s).st # "more"
  <1>2. Len(s) \in Nat
    BY ArgsAreWords
  <1>3. PICK r : IsRun(r, Len(s) + 1, s) /\ Parse(s) = r[Len(s) + 1]
    BY <1>2, ParseIsRun
  <1> DEFINE T == {n \in 0 .. Len(s) + 1 : ~RunInv(r[n], s, n)}
  <1>4. CASE T # {}
    <2>0. T \subseteq Nat
      BY <1>2
    <2>1. PICK n \in T : \A m \in T : n <= m
      <3> HIDE DEF T
      <3> QED
        BY <1>4, <2>0, NatMin
    <2>2. n # 0
      BY <1>2, <1>3, <2>1, RunInvInit DEF IsRun
    <2> DEFINE m == n - 1
    <2>3. m \in Nat /\ m \in 0 .. Len(s) + 1 /\ m + 1 = n /\ m \notin T
      BY <1>2, <2>1, <2>2
    <2>4. RunInv(r[m], s, m)
      BY <2>3
    <2>5. r[n] = advance(s, r[m])
      BY <1>2, <1>3, <2>1, <2>2 DEF IsRun
    <2>6. RunInv(advance(s, r[m]), s, m + 1)
      BY <2>3, <2>4, RunInvStep
    <2>7. n \in 0 .. Len(s) + 1 /\ ~RunInv(r[n], s, n)
      BY <2>1
    <2> QED
      BY <2>3, <2>5, <2>6, <2>7
  <1>5. CASE T = {}
    <2>1. RunInv(Parse(s), s, Len(s) + 1)
      BY <1>2, <1>3, <1>5
    <2>2. Parse(s).st # "more"
      BY <1>2, <2>1 DEF RunInv
    <2> QED
      BY <2>1, <2>2
  <1> QED
    BY <1>4, <1>5

(* The map that means the first m words is meaning. *)
LEMMA MeansMeaning ==
  ASSUME NEW s, NEW m \in Nat, consumed(s) = 1 .. m, NEW map, Means(map, s, m)
  PROVE  map = meaning(s)
  <1> DEFINE within == consumed(s)
             sets(i) == Kind(s[i]) \in {"flag", "assign"}
             name(i) == [s[i] EXCEPT !.v = None]
             value(i) == IF Kind(s[i]) = "assign" THEN s[i].v
                         ELSE IF i + 1 \in within THEN s[i + 1] ELSE Empty
             at == {i \in within : sets(i)}
             last(k) == CHOOSE i \in at : name(i) = k /\ \A j \in at : name(j) = k => j =< i
  <1>1. meaning(s) = [k \in {name(i) : i \in at} |-> value(last(k))]
    BY DEF meaning
  <1>2. at = flagsIn(s, m) /\ \A i : name(i) = nameOf(s[i])
    BY DEF flagsIn, nameOf
  <1>3. \A i \in at : value(i) = valueAt(s, i, m)
    BY DEF valueAt
  <1>4. ASSUME NEW k \in DOMAIN map
        PROVE  map[k] = value(last(k))
    <2>1. PICK i \in Nat : LastAt(k, i, s, m) /\ map[k] = valueAt(s, i, m)
      BY DEF Means
    <2>2. i \in at /\ name(i) = k /\ \A j \in at : name(j) = k => j =< i
      BY <1>2, <2>1 DEF LastAt
    <2>3. last(k) \in at /\ name(last(k)) = k /\ \A j \in at : name(j) = k => j =< last(k)
      BY <2>2
    <2>4. at \subseteq Nat
      OBVIOUS
    <2>5. last(k) = i
      <3>1. last(k) \in Nat /\ i \in Nat /\ last(k) <= i /\ i <= last(k)
        <4> HIDE DEF last, at, name
        <4> QED
          BY <2>2, <2>3, <2>4
      <3> QED
        BY <3>1
    <2> QED
      BY <1>3, <2>1, <2>2, <2>5
  <1>5. DOMAIN map = {name(i) : i \in at}
    BY <1>2 DEF Means
  <1> HIDE DEF last, at, name, value
  <1>6. map = [k \in DOMAIN map |-> value(last(k))]
    BY <1>4 DEF Means
  <1> QED
    BY <1>1, <1>5, <1>6

(* The parser consumes the words that the grammar says it does, and knows  *)
(* whether there is an error.                                              *)
LEMMA ParseConsumes ==
  ASSUME NEW s, isArgs(s)
  PROVE  LET f == Parse(s)
         IN /\ f.i \in 1 .. Len(s) + 1 /\ consumed(s) = 1 .. f.i - 1
            /\ Means(f.actual, s, f.i - 1)
            /\ wellFormed(s) <=> f.st = "done"
            /\ f.st \in {"error", "panic", "done"}
            /\ f.st # "done" => Stopped(f, s)
  <1> DEFINE f == Parse(s)
  <1>0. Len(s) \in Nat /\ DOMAIN s = 1 .. Len(s)
    BY ArgsAreWords
  <1>1. RunInv(f, s, Len(s) + 1) /\ f.st # "more"
    BY ParseEnds
  <1> HIDE DEF f
  <1>2. /\ f.i \in 1 .. Len(s) + 1
        /\ \A j \in 1 .. f.i - 1 : fits(s, j)
        /\ Means(f.actual, s, f.i - 1)
        /\ \/ f.st = "done" /\ f.i = Len(s) + 1 /\ NoEnd(s, Len(s))
           \/ f.st = "done" /\ f.i > 1 /\ Kind(s[f.i - 1]) = "end" /\ NoEnd(s, f.i - 2)
           \/ f.st \in {"error", "panic"} /\ Stopped(f, s)
    BY <1>1 DEF RunInv
  <1>3. consumed(s) = 1 .. f.i - 1 /\ (wellFormed(s) <=> f.st = "done")
    <2>1. CASE f.st = "done" /\ f.i = Len(s) + 1 /\ NoEnd(s, Len(s))
      <3>1. ends(s) = {}
        BY <1>0, <2>1 DEF ends, NoEnd
      <3>2. consumed(s) = 1 .. f.i - 1
        BY <1>0, <1>2, <2>1, <3>1 DEF consumed
      <3> QED
        BY <1>0, <2>1, <3>2 DEF wellFormed
    <2>2. CASE f.st = "done" /\ f.i > 1 /\ Kind(s[f.i - 1]) = "end" /\ NoEnd(s, f.i - 2)
      <3>1. f.i - 1 \in ends(s) /\ \A j \in ends(s) : f.i - 1 <= j
        BY <1>0, <1>2, <2>2 DEF ends, NoEnd
      <3>2. consumed(s) = 1 .. f.i - 1
        BY <1>0, <1>2, <2>2, <3>1 DEF consumed, ends
      <3>3. f.i - 1 \in consumed(s)
        BY <1>0, <1>2, <2>2, <3>2
      <3> QED
        BY <2>2, <3>1, <3>2, <3>3 DEF wellFormed
    <2>3. CASE f.st \in {"error", "panic"} /\ Stopped(f, s)
      <3>1. \A j \in ends(s) : f.i - 1 < j
        BY <1>0, <1>2, <2>3 DEF ends, NoEnd, Stopped
      <3>2. consumed(s) = 1 .. f.i - 1
        BY <1>0, <1>2, <2>3, <3>1 DEF consumed, ends, Stopped
      <3>3. consumed(s) # DOMAIN s
        <4>1. f.i \in DOMAIN s /\ f.i \notin 1 .. f.i - 1
          BY <1>0, <1>2, <2>3 DEF Stopped
        <4> QED
          BY <3>2, <4>1
      <3>4. ends(s) \cap consumed(s) = {}
        BY <1>0, <1>2, <3>1, <3>2 DEF ends
      <3> QED
        BY <2>3, <3>2, <3>3, <3>4 DEF wellFormed
    <2> QED
      BY <1>2, <2>1, <2>2, <2>3
  <1> QED
    BY <1>2, <1>3 DEF f

(* The parser computes the meaning of the args: it sets the flags of the   *)
(* words it consumes, ends without an error exactly on well-formed args,   *)
(* and panics on a '-' where a flag may stand.                             *)
LEMMA ParseComputes ==
  ASSUME NEW s, isArgs(s)
  PROVE  LET stop == Cardinality(consumed(s)) + 1
         IN /\ Flags(s) = meaning(s)
            /\ (Parse(s).st = "done") = wellFormed(s)
            /\ Panics(s) = (/\ ~wellFormed(s)
                            /\ Kind(s[stop]) = "dash" /\ ~open(s, stop))
  <1> DEFINE f == Parse(s)
             stop == Cardinality(consumed(s)) + 1
  <1>0. Len(s) \in Nat /\ DOMAIN s = 1 .. Len(s)
    BY ArgsAreWords
  <1>3. /\ f.i \in 1 .. Len(s) + 1 /\ consumed(s) = 1 .. f.i - 1
        /\ Means(f.actual, s, f.i - 1)
        /\ wellFormed(s) <=> f.st = "done"
        /\ f.st \in {"error", "panic", "done"} /\ (f.st # "done" => Stopped(f, s))
    BY ParseConsumes
  <1> HIDE DEF f
  <1>4. f.actual = meaning(s)
    BY <1>0, <1>3, MeansMeaning
  <1>5. stop = f.i
    <2>1. 1 \in Int /\ f.i - 1 \in Int /\ ~(1 > f.i - 1 /\ f.i - 1 # 0)
      BY <1>0, <1>3
    <2>2. Cardinality(1 .. f.i - 1) = IF 1 > f.i - 1 THEN 0 ELSE (f.i - 1) - 1 + 1
      BY <2>1, FS_Interval
    <2> QED
      BY <1>0, <1>3, <2>2
  <1> HIDE DEF stop
  <1>6. f.st = "panic" <=> ~wellFormed(s) /\ Kind(s[stop]) = "dash" /\ ~open(s, stop)
    BY <1>3, <1>5 DEF Stopped
  <1>7. wellFormed(s) \in BOOLEAN
    BY DEF wellFormed
  <1>8. Flags(s) = meaning(s)
    BY <1>4 DEF Flags, f
  <1>9. (Parse(s).st = "done") = wellFormed(s)
    BY <1>3, <1>7 DEF f
  <1>10. Panics(s) = (~wellFormed(s) /\ Kind(s[stop]) = "dash" /\ ~open(s, stop))
    BY <1>6 DEF f, Panics
  <1> QED
    BY <1>8, <1>9, <1>10 DEF stop

-----------------------------------------------------------------------------
(***************************************************************************)
(* The second parser.  FoldLeft recurs on sets of indices and removes the  *)
(* greatest one; on the prefixes of the args it is a recursion on their    *)
(* length.                                                                 *)
(***************************************************************************)
keyStep(p, arg) ==
  IF arg.d > 0 THEN [key |-> arg, map |-> Set(p.map, arg, Empty)]
  ELSE IF p.key # None THEN [key |-> None, map |-> Set(p.map, p.key, arg)]
  ELSE p
noKey == [key |-> None, map |-> emptyMap]

IsKeyFold(iter, k, s) ==
  iter = [t \in SUBSET (1 .. k) |->
           IF t = {} THEN noKey ELSE keyStep(iter[t \ {Max(t)}], s[Max(t)])]

(* The greatest element of a set of indices that has the greatest index. *)
LEMMA MaxTop ==
  ASSUME NEW n \in Nat, NEW t \in SUBSET (1 .. n), n \in t
  PROVE  Max(t) = n
  <1>1. n \in t /\ \A y \in t : n >= y
    OBVIOUS
  <1>2. Max(t) \in t /\ \A y \in t : Max(t) >= y
    BY <1>1 DEF Max
  <1>3. \A x \in t : (\A y \in t : x >= y) => x = n
    OBVIOUS
  <1> QED
    BY <1>2, <1>3

(* The recursion of FoldLeft has a solution. *)
LEMMA KeyFoldExists ==
  ASSUME NEW s, NEW k \in Nat
  PROVE  \E iter : IsKeyFold(iter, k, s)
  <1> DEFINE T == {n \in Nat : ~\E iter : IsKeyFold(iter, n, s)}
  <1> SUFFICES ASSUME T # {} PROVE FALSE
    OBVIOUS
  <1>0. T \subseteq Nat
    OBVIOUS
  <1>1. PICK n \in T : \A m \in T : n <= m
    <2> HIDE DEF T
    <2> QED
      BY <1>0, NatMin
  <1>2. n # 0
    <2> DEFINE iter == [t \in SUBSET (1 .. 0) |-> noKey]
    <2>1. SUBSET (1 .. 0) = {{}}
      OBVIOUS
    <2>2. IsKeyFold(iter, 0, s)
      BY <2>1 DEF IsKeyFold
    <2> QED
      BY <2>2
  <1>3. PICK iter : IsKeyFold(iter, n - 1, s)
    BY <1>1, <1>2
  <1> DEFINE new == [t \in SUBSET (1 .. n) |->
                      IF n \in t THEN keyStep(iter[t \ {n}], s[n]) ELSE iter[t]]
  <1>4. IsKeyFold(new, n, s)
    <2>1. \A t \in SUBSET (1 .. n) : n \notin t => t \in SUBSET (1 .. n - 1)
      BY <1>1, <1>2
    <2>2. ASSUME NEW t \in SUBSET (1 .. n)
          PROVE  new[t] = IF t = {} THEN noKey ELSE keyStep(new[t \ {Max(t)}], s[Max(t)])
      <3>1. CASE n \in t
        <4>1. Max(t) = n /\ t # {} /\ t \ {n} \in SUBSET (1 .. n)
          BY <1>1, <3>1, MaxTop
        <4> QED
          BY <3>1, <4>1
      <3>2. CASE n \notin t
        <4>1. /\ t \in SUBSET (1 .. n - 1) /\ t \ {Max(t)} \in SUBSET (1 .. n - 1)
              /\ t \ {Max(t)} \in SUBSET (1 .. n) /\ n \notin t \ {Max(t)}
          BY <2>1, <3>2
        <4>2. iter[t] = IF t = {} THEN noKey ELSE keyStep(iter[t \ {Max(t)}], s[Max(t)])
          BY <1>3, <4>1 DEF IsKeyFold
        <4> QED
          BY <3>2, <4>1, <4>2
      <3> QED
        BY <3>1, <3>2
    <2> QED
      BY <2>2 DEF IsKeyFold
  <1> QED
    BY <1>1, <1>4

(* ParseArgs takes the words one by one. *)
LEMMA ParseArgsSteps ==
  ASSUME NEW s, NEW k \in Nat, DOMAIN s = 1 .. k
  PROVE  \E r : /\ r[0] = noKey
                /\ \A n \in 1 .. k : r[n] = keyStep(r[n - 1], s[n])
                /\ ParseArgs(s) = r[k].map
  <1> DEFINE iter == CHOOSE iter : IsKeyFold(iter, k, s)
             r == [n \in 0 .. k |-> iter[1 .. n]]
  <1>1. ParseArgs(s) = FoldLeft(keyStep, noKey, s).map
    BY DEF ParseArgs, keyStep, noKey
  <1>2. FoldLeft(keyStep, noKey, s) = iter[1 .. k]
    BY DEF FoldLeft, MapThenFoldSet, IsKeyFold
  <1>3. IsKeyFold(iter, k, s)
    BY KeyFoldExists
  <1> HIDE DEF iter
  <1>4. r[0] = noKey
    BY <1>3 DEF IsKeyFold
  <1>5. ASSUME NEW n \in 1 .. k
        PROVE  r[n] = keyStep(r[n - 1], s[n])
    <2>1. Max(1 .. n) = n
      BY MaxTop
    <2>2. (1 .. n) \ {n} = 1 .. n - 1 /\ n \in 1 .. n /\ 1 .. n \subseteq 1 .. k
      OBVIOUS
    <2>3. iter[1 .. n] = keyStep(iter[1 .. n - 1], s[n])
      BY <1>3, <2>1, <2>2 DEF IsKeyFold
    <2> QED
      BY <2>3
  <1>6. ParseArgs(s) = r[k].map
    BY <1>1, <1>2
  <1> QED
    BY <1>4, <1>5, <1>6

(* What ParseArgs has after n words of well-formed args without '='.       *)
KeyInv(p, s, n) ==
  /\ p = [key |-> p.key, map |-> p.map]
  /\ Means(p.map, s, n)
  /\ p.key = IF open(s, n + 1) THEN nameOf(s[n]) ELSE None

(* One more word that fits keeps KeyInv: an empty word after a flag sets   *)
(* it to what it has already.                                              *)
LEMMA KeyInvStep ==
  ASSUME NEW s, isArgs(s), NEW n \in 0 .. Len(s) - 1, fits(s, n + 1),
         Kind(s[n + 1]) \notin {"assign", "end"}, NEW p, KeyInv(p, s, n)
  PROVE  KeyInv(keyStep(p, s[n + 1]), s, n + 1)
  <1> DEFINE w == s[n + 1]
  <1>0. Len(s) \in Nat /\ DOMAIN s = 1 .. Len(s) /\ \A j \in DOMAIN s : isWord(s[j])
    BY ArgsAreWords
  <1>1. n \in Nat /\ n + 1 \in DOMAIN s /\ isWord(w)
    BY <1>0
  <1>2. open(s, n + 1) <=> n \in flagsIn(s, n) /\ Kind(s[n]) = "flag"
    BY <1>0, <1>1 DEF open, flagsIn
  <1>3. p.key # None <=> open(s, n + 1)
    BY ArgsAreWords DEF open, KeyInv
  <1>4. open(s, n + 2) <=> Kind(w) = "flag"
    BY <1>1 DEF open
  <1>5. CASE Kind(w) = "flag"
    <2>0. w.d \in 0 .. 3 /\ w.d # 0 /\ w.v = None
      <3>1. w.d # 0 /\ w.v = None
        BY <1>5 DEF Kind
      <3>2. w.d \in 0 .. 3
        BY <1>1, NameIsWord
      <3> HIDE DEF w
      <3> QED
        BY <3>1, <3>2
    <2>1. w.d > 0 /\ w = nameOf(w) /\ ~open(s, n + 1)
      <3>1. w = nameOf(w)
        BY <1>1, <2>0, NameIsWord DEF word
      <3>2. ~open(s, n + 1)
        BY <1>5 DEF fits
      <3> QED
        BY <2>0, <3>1, <3>2
    <2>2. keyStep(p, w) = [key |-> w, map |-> Set(p.map, w, Empty)]
      BY <2>1 DEF keyStep
    <2>3. Means(Set(p.map, nameOf(w), Empty), s, n + 1)
      BY <1>1, <1>2, <1>5, <2>1, MeansAdd DEF KeyInv
    <2> QED
      BY <1>1, <1>4, <1>5, <2>1, <2>2, <2>3 DEF KeyInv
  <1>6. CASE Kind(w) \in {"value", "empty"}
    <2>1. ~(w.d > 0) /\ Kind(w) \notin {"flag", "assign"}
      <3>1. w.d = 0
        BY <1>6 DEF Kind
      <3> QED
        BY <1>6, <3>1
    <2>2. CASE open(s, n + 1)
      <3>1. keyStep(p, w) = [key |-> None, map |-> Set(p.map, nameOf(s[n]), w)]
        BY <1>3, <2>1, <2>2 DEF keyStep, KeyInv
      <3>2. Means(Set(p.map, nameOf(s[n]), w), s, n + 1)
        BY <1>1, <1>2, <2>1, <2>2, MeansValue DEF KeyInv
      <3> QED
        BY <1>1, <1>4, <2>1, <3>1, <3>2 DEF KeyInv
    <2>3. CASE ~open(s, n + 1)
      <3>1. keyStep(p, w) = p
        BY <1>3, <2>1, <2>3 DEF keyStep
      <3>2. Means(p.map, s, n + 1)
        BY <1>1, <1>2, <2>1, <2>3, MeansSkip DEF KeyInv
      <3> QED
        BY <1>1, <1>4, <2>1, <2>3, <3>1, <3>2 DEF KeyInv
    <2> QED
      BY <2>2, <2>3
  <1> QED
    BY <1>5, <1>6 DEF fits

(* Well-formed args without "--" are consumed to the end. *)
LEMMA SpacedConsumed ==
  ASSUME NEW s, wellFormed(s), spaced(s)
  PROVE  consumed(s) = DOMAIN s
  BY DEF wellFormed, spaced, ends

(* On well-formed args without '=' and "--" the two parsers agree.         *)
LEMMA ParseArgsComputes ==
  ASSUME NEW s, isArgs(s), wellFormed(s), spaced(s)
  PROVE  ParseArgs(s) = Flags(s)
  <1>0. Len(s) \in Nat /\ DOMAIN s = 1 .. Len(s)
    BY ArgsAreWords
  <1>1. PICK r : /\ r[0] = noKey
                 /\ \A n \in 1 .. Len(s) : r[n] = keyStep(r[n - 1], s[n])
                 /\ ParseArgs(s) = r[Len(s)].map
    BY <1>0, ParseArgsSteps
  <1>2. consumed(s) = 1 .. Len(s)
    BY <1>0, SpacedConsumed
  <1>3. \A j \in 1 .. Len(s) : fits(s, j) /\ Kind(s[j]) \notin {"assign", "end"}
    BY <1>0, <1>2 DEF consumed, spaced
  <1> DEFINE T == {n \in 0 .. Len(s) : ~KeyInv(r[n], s, n)}
  <1>4. T = {}
    <2> SUFFICES ASSUME T # {} PROVE FALSE
      OBVIOUS
    <2>1. T \subseteq Nat
      BY <1>0
    <2>2. PICK n \in T : \A m \in T : n <= m
      <3> HIDE DEF T
      <3> QED
        BY <2>1, NatMin
    <2>3. n \in 0 .. Len(s) /\ ~KeyInv(r[n], s, n)
      BY <2>2
    <2>4. KeyInv(r[0], s, 0)
      <3>1. RunInv(newFlagSet, s, 0)
        BY RunInvInit
      <3>2. newFlagSet.actual = emptyMap /\ newFlagSet.i = 1
        BY DEF newFlagSet
      <3>3. Means(emptyMap, s, 0)
        BY <3>1, <3>2 DEF RunInv
      <3>4. ~open(s, 1)
        BY <1>0 DEF open
      <3> QED
        BY <1>1, <3>3, <3>4 DEF KeyInv, noKey
    <2> DEFINE m == n - 1
    <2>5. m \in 0 .. Len(s) - 1 /\ m + 1 = n /\ m \notin T
      BY <1>0, <2>2, <2>3, <2>4
    <2>6. KeyInv(r[m], s, m) /\ m + 1 \in 1 .. Len(s)
      BY <1>0, <2>5
    <2>7. KeyInv(keyStep(r[m], s[m + 1]), s, m + 1)
      BY <1>3, <2>5, <2>6, KeyInvStep
    <2> QED
      BY <1>1, <2>3, <2>5, <2>6, <2>7
  <1>5. KeyInv(r[Len(s)], s, Len(s))
    BY <1>0, <1>4
  <1>6. ParseArgs(s) = meaning(s)
    BY <1>0, <1>1, <1>2, <1>5, MeansMeaning DEF KeyInv
  <1> QED
    BY <1>6, ParseComputes

-----------------------------------------------------------------------------
(***************************************************************************)
(* Ports.  Those of a container have names of their own: the API server    *)
(* refuses a pod that uses a name twice.                                   *)
(***************************************************************************)
isPort(p) == p = port(p.name, p.port)
isPorts(ps) ==
  /\ ps \in Seq(ToSet(ps))
  /\ \A i \in DOMAIN ps : isPort(ps[i])
  /\ \A i, j \in DOMAIN ps : ps[i].name = ps[j].name => i = j

addPort(ps, p) == IF Named(ps, p.name) = {} THEN Append(ps, p) ELSE ps

IsPortFold(iter, k, ps, ext) ==
  iter = [t \in SUBSET (1 .. k) |->
           IF t = {} THEN ps ELSE addPort(iter[t \ {Max(t)}], ext[Max(t)])]

(* The recursion of FoldLeft has a solution. *)
LEMMA PortFoldExists ==
  ASSUME NEW ps, NEW ext, NEW k \in Nat
  PROVE  \E iter : IsPortFold(iter, k, ps, ext)
  <1> DEFINE T == {n \in Nat : ~\E iter : IsPortFold(iter, n, ps, ext)}
  <1> SUFFICES ASSUME T # {} PROVE FALSE
    OBVIOUS
  <1>0. T \subseteq Nat
    OBVIOUS
  <1>1. PICK n \in T : \A m \in T : n <= m
    <2> HIDE DEF T
    <2> QED
      BY <1>0, NatMin
  <1>2. n # 0
    <2> DEFINE iter == [t \in SUBSET (1 .. 0) |-> ps]
    <2>1. SUBSET (1 .. 0) = {{}}
      OBVIOUS
    <2>2. IsPortFold(iter, 0, ps, ext)
      BY <2>1 DEF IsPortFold
    <2> QED
      BY <2>2
  <1>3. PICK iter : IsPortFold(iter, n - 1, ps, ext)
    BY <1>1, <1>2
  <1> DEFINE new == [t \in SUBSET (1 .. n) |->
                      IF n \in t THEN addPort(iter[t \ {n}], ext[n]) ELSE iter[t]]
  <1>4. IsPortFold(new, n, ps, ext)
    <2>1. \A t \in SUBSET (1 .. n) : n \notin t => t \in SUBSET (1 .. n - 1)
      BY <1>1, <1>2
    <2>2. ASSUME NEW t \in SUBSET (1 .. n)
          PROVE  new[t] = IF t = {} THEN ps ELSE addPort(new[t \ {Max(t)}], ext[Max(t)])
      <3>1. CASE n \in t
        <4>1. Max(t) = n /\ t # {} /\ t \ {n} \in SUBSET (1 .. n)
          BY <1>1, <3>1, MaxTop
        <4> QED
          BY <3>1, <4>1
      <3>2. CASE n \notin t
        <4>1. /\ t \in SUBSET (1 .. n - 1) /\ t \ {Max(t)} \in SUBSET (1 .. n - 1)
              /\ t \ {Max(t)} \in SUBSET (1 .. n) /\ n \notin t \ {Max(t)}
          BY <2>1, <3>2
        <4>2. iter[t] = IF t = {} THEN ps ELSE addPort(iter[t \ {Max(t)}], ext[Max(t)])
          BY <1>3, <4>1 DEF IsPortFold
        <4> QED
          BY <3>2, <4>1, <4>2
      <3> QED
        BY <3>1, <3>2
    <2> QED
      BY <2>2 DEF IsPortFold
  <1> QED
    BY <1>1, <1>4

PortSteps(r, k, ps, ext) ==
  r[0] = ps /\ \A n \in 1 .. k : r[n] = addPort(r[n - 1], ext[n])

(* extendPorts adds the default ports one by one. *)
LEMMA ExtendPortsSteps ==
  ASSUME NEW ps, NEW ext, NEW k \in Nat, DOMAIN ext = 1 .. k
  PROVE  \E r : PortSteps(r, k, ps, ext) /\ extendPorts(ps, ext) = r[k]
  <1> DEFINE iter == CHOOSE iter : IsPortFold(iter, k, ps, ext)
             r == [n \in 0 .. k |-> iter[1 .. n]]
  <1>1. extendPorts(ps, ext) = FoldLeft(addPort, ps, ext)
    BY DEF extendPorts, addPort
  <1>2. FoldLeft(addPort, ps, ext) = iter[1 .. k]
    BY DEF FoldLeft, MapThenFoldSet, IsPortFold
  <1>3. IsPortFold(iter, k, ps, ext)
    BY PortFoldExists
  <1> HIDE DEF iter
  <1>4. r[0] = ps
    BY <1>3 DEF IsPortFold
  <1>5. ASSUME NEW n \in 1 .. k
        PROVE  r[n] = addPort(r[n - 1], ext[n])
    <2>1. Max(1 .. n) = n
      BY MaxTop
    <2>2. (1 .. n) \ {n} = 1 .. n - 1 /\ n \in 1 .. n /\ 1 .. n \subseteq 1 .. k
      OBVIOUS
    <2>3. iter[1 .. n] = addPort(iter[1 .. n - 1], ext[n])
      BY <1>3, <2>1, <2>2 DEF IsPortFold
    <2> QED
      BY <2>3
  <1>6. extendPorts(ps, ext) = r[k]
    BY <1>1, <1>2
  <1> QED
    BY <1>4, <1>5, <1>6 DEF PortSteps

(* With one, two and three default ports. *)
LEMMA ExtendPortsUnrolled ==
  ASSUME NEW ps
  PROVE  /\ \A p : extendPorts(ps, <<p>>) = addPort(ps, p)
         /\ \A p, q : extendPorts(ps, <<p, q>>) = addPort(addPort(ps, p), q)
         /\ \A p, q, t :
              extendPorts(ps, <<p, q, t>>) = addPort(addPort(addPort(ps, p), q), t)
  <1>1. ASSUME NEW p
        PROVE  extendPorts(ps, <<p>>) = addPort(ps, p)
    <2> DEFINE ext == <<p>>
    <2>0. PICK k \in Nat : k = 1
      OBVIOUS
    <2>3. DOMAIN ext = 1 .. k
      BY <2>0
    <2>1. PICK r : PortSteps(r, k, ps, ext) /\ extendPorts(ps, ext) = r[k]
      <3> HIDE DEF ext
      <3> QED
        BY <2>3, ExtendPortsSteps
    <2>2. r[1] = addPort(r[0], p)
      BY <2>0, <2>1 DEF PortSteps
    <2> QED
      BY <2>0, <2>1, <2>2 DEF PortSteps
  <1>2. ASSUME NEW p, NEW q
        PROVE  extendPorts(ps, <<p, q>>) = addPort(addPort(ps, p), q)
    <2> DEFINE ext == <<p, q>>
    <2>0. PICK k \in Nat : k = 2
      OBVIOUS
    <2>3. DOMAIN ext = 1 .. k
      BY <2>0
    <2>1. PICK r : PortSteps(r, k, ps, ext) /\ extendPorts(ps, ext) = r[k]
      <3> HIDE DEF ext
      <3> QED
        BY <2>3, ExtendPortsSteps
    <2>2. r[1] = addPort(r[0], p) /\ r[2] = addPort(r[1], q)
      BY <2>0, <2>1 DEF PortSteps
    <2> QED
      BY <2>0, <2>1, <2>2 DEF PortSteps
  <1>3. ASSUME NEW p, NEW q, NEW t
        PROVE  extendPorts(ps, <<p, q, t>>) = addPort(addPort(addPort(ps, p), q), t)
    <2> DEFINE ext == <<p, q, t>>
    <2>0. PICK k \in Nat : k = 3
      OBVIOUS
    <2>3. DOMAIN ext = 1 .. k
      BY <2>0
    <2>1. PICK r : PortSteps(r, k, ps, ext) /\ extendPorts(ps, ext) = r[k]
      <3> HIDE DEF ext
      <3> QED
        BY <2>3, ExtendPortsSteps
    <2>2. r[1] = addPort(r[0], p) /\ r[2] = addPort(r[1], q) /\ r[3] = addPort(r[2], t)
      BY <2>0, <2>1 DEF PortSteps
    <2> QED
      BY <2>0, <2>1, <2>2 DEF PortSteps
  <1> QED
    BY <1>1, <1>2, <1>3

(* A port is added unless the name is taken, and names stay distinct. *)
LEMMA AddPortIs ==
  ASSUME NEW ps, isPorts(ps), NEW p, isPort(p)
  PROVE  /\ isPorts(addPort(ps, p))
         /\ ToSet(addPort(ps, p)) =
              ToSet(ps) \cup {x \in {p} : \A y \in ToSet(ps) : y.name # p.name}
  <1>1. CASE Named(ps, p.name) # {}
    BY <1>1 DEF addPort, Named
  <1>2. CASE Named(ps, p.name) = {}
    <2> DEFINE new == Append(ps, p)
               k == Len(ps)
    <2>0. ps \in Seq(ToSet(ps))
      BY DEF isPorts
    <2>1. k \in Nat /\ DOMAIN ps = 1 .. k
      BY <2>0
    <2>2. /\ DOMAIN new = 1 .. k + 1 /\ new[k + 1] = p
          /\ \A i \in 1 .. k : new[i] = ps[i]
      BY <2>0, <2>1
    <2>3. addPort(ps, p) = new /\ \A y \in ToSet(ps) : y.name # p.name
      BY <1>2 DEF addPort, Named
    <2>4. new \in Seq(ToSet(ps) \cup {p})
      BY <2>0
    <2> HIDE DEF new
    <2>5. ToSet(new) = ToSet(ps) \cup {p}
      BY <2>1, <2>2 DEF ToSet
    <2>6. \A i \in DOMAIN new : isPort(new[i])
      BY <2>1, <2>2 DEF isPorts
    <2>7. \A i \in 1 .. k : ps[i].name # p.name
      BY <2>1, <2>3 DEF ToSet
    <2>8. \A i, j \in DOMAIN new : new[i].name = new[j].name => i = j
      BY <2>1, <2>2, <2>7 DEF isPorts
    <2> QED
      BY <2>3, <2>4, <2>5, <2>6, <2>8 DEF isPorts
  <1> QED
    BY <1>1, <1>2

(* The port p as the flags fl override it. *)
coverPort(fl, p) ==
  IF flag(p.name) \in DOMAIN fl THEN port(p.name, IntVal(fl[flag(p.name)])) ELSE p

(* coverPortsFromArgs overrides every port and keeps the names. *)
LEMMA CoverPortsIs ==
  ASSUME NEW ps, isPorts(ps), NEW args
  PROVE  /\ isPorts(coverPortsFromArgs(args, ps))
         /\ ToSet(coverPortsFromArgs(args, ps)) = {coverPort(Flags(args), p) : p \in ToSet(ps)}
  <1> DEFINE new == coverPortsFromArgs(args, ps)
  <1>0. ps \in Seq(ToSet(ps)) /\ Len(ps) \in Nat /\ DOMAIN ps = 1 .. Len(ps)
    BY DEF isPorts
  <1>1. DOMAIN new = DOMAIN ps /\ new = [i \in 1 .. Len(ps) |-> new[i]]
    BY <1>0 DEF coverPortsFromArgs
  <1>2. ASSUME NEW i \in DOMAIN ps
        PROVE  new[i] = coverPort(Flags(args), ps[i])
    <2>1. ps[i] = [name |-> ps[i].name, port |-> ps[i].port]
      BY DEF isPorts, isPort, port
    <2>2. \A x : [ps[i] EXCEPT !.port = x] = [name |-> ps[i].name, port |-> x]
      BY <2>1
    <2> QED
      BY <2>2 DEF coverPortsFromArgs, coverPort, port
  <1> HIDE DEF new
  <1>3. ToSet(new) = {coverPort(Flags(args), p) : p \in ToSet(ps)}
    BY <1>1, <1>2 DEF ToSet
  <1>4. new \in Seq(ToSet(new))
    BY <1>0, <1>1 DEF ToSet
  <1>5. \A i \in DOMAIN ps : isPort(new[i]) /\ new[i].name = ps[i].name
    <2>1. \A n, x : port(n, x).name = n /\ isPort(port(n, x))
      BY DEF isPort, port
    <2>2. \A i \in DOMAIN ps : isPort(ps[i])
      BY DEF isPorts
    <2>3. \A fl, p : isPort(p) => isPort(coverPort(fl, p)) /\ coverPort(fl, p).name = p.name
      BY <2>1 DEF coverPort
    <2> QED
      BY <1>2, <2>2, <2>3
  <1>6. isPorts(new)
    <2>1. \A i, j \in DOMAIN ps : ps[i].name = ps[j].name => i = j
      BY DEF isPorts
    <2>2. \A i \in DOMAIN new : isPort(new[i])
      BY <1>1, <1>5
    <2>3. \A i, j \in DOMAIN new : new[i].name = new[j].name => i = j
      BY <1>1, <1>5, <2>1
    <2> QED
      BY <1>4, <2>2, <2>3, Zenon DEF isPorts
  <1> QED
    BY <1>3, <1>6 DEF new

-----------------------------------------------------------------------------
(***************************************************************************)
(* Writing flags: what Visit writes parses to the flags it was given.      *)
(***************************************************************************)
noName == ""
isFlag(k) ==
  /\ k = word(k.d, k.n) /\ k.d \in 1 .. 2
  /\ k.n # noName /\ k.n \in DOMAIN Rank

(* The number of flags before k in lexicographical order. *)
below(D, k) == {l \in D : Before(l, k)}
rank(D, k) == Cardinality(below(D, k))

(* Before is a strict total order on flags. *)
LEMMA BeforeIsOrder ==
  ASSUME NEW D, \A k \in D : isFlag(k)
  PROVE  /\ \A k \in D : ~Before(k, k)
         /\ \A k, l \in D : k # l => Before(k, l) \/ Before(l, k)
         /\ \A k, l, m \in D : Before(k, l) /\ Before(l, m) => Before(k, m)
  <1>1. ASSUME NEW k \in D
        PROVE  k.d \in Nat /\ Rank[k.n] \in Nat
    <2>1. \A n \in DOMAIN Rank : Rank[n] \in Nat
      BY RankAssumption
    <2>2. k.d \in 1 .. 2 /\ k.n \in DOMAIN Rank
      BY DEF isFlag
    <2> QED
      BY <2>1, <2>2
  <1>2. ASSUME NEW k \in D, NEW l \in D, k.d = l.d, Rank[k.n] = Rank[l.n]
        PROVE  k = l
    <2>1. k.n = l.n
      BY <1>2, RankAssumption DEF isFlag
    <2> QED
      BY <1>2, <2>1 DEF isFlag
  <1>3. ASSUME NEW k \in D, NEW l \in D, k # l
        PROVE  Before(k, l) \/ Before(l, k)
    <2>1. k.d # l.d \/ Rank[k.n] # Rank[l.n]
      BY <1>2, <1>3
    <2> QED
      BY <1>1, <2>1 DEF Before
  <1>4. ASSUME NEW k \in D, NEW l \in D, NEW m \in D, Before(k, l), Before(l, m)
        PROVE  Before(k, m)
    BY <1>1, <1>4 DEF Before
  <1>5. \A k \in D : ~Before(k, k)
    BY <1>1 DEF Before
  <1> QED
    BY <1>3, <1>4, <1>5

(* Flags have the places from 0 on, each its own. *)
LEMMA RanksAreIndices ==
  ASSUME NEW D, IsFiniteSet(D), \A k \in D : isFlag(k)
  PROVE  /\ Cardinality(D) \in Nat
         /\ \A k \in D : rank(D, k) \in 0 .. Cardinality(D) - 1
         /\ \A k, l \in D : rank(D, k) = rank(D, l) => k = l
         /\ \A i \in 0 .. Cardinality(D) - 1 : \E k \in D : rank(D, k) = i
  <1> DEFINE N == Cardinality(D)
             f == [k \in D |-> rank(D, k)]
  <1>1. N \in Nat
    BY FS_CardinalityType
  <1>2. ASSUME NEW k \in D
        PROVE  rank(D, k) \in 0 .. N - 1
    <2>1. below(D, k) \in SUBSET D /\ k \notin below(D, k)
      BY BeforeIsOrder DEF below
    <2>2. IsFiniteSet(below(D, k)) /\ Cardinality(below(D, k)) <= N
          /\ Cardinality(below(D, k)) # N
      BY <2>1, FS_Subset
    <2>3. Cardinality(below(D, k)) \in Nat
      BY <2>2, FS_CardinalityType
    <2> QED
      BY <1>1, <2>2, <2>3 DEF rank
  <1>3. ASSUME NEW k \in D, NEW l \in D, Before(k, l)
        PROVE  rank(D, k) # rank(D, l)
    <2>1. below(D, k) \in SUBSET below(D, l) /\ k \in below(D, l) /\ k \notin below(D, k)
      BY <1>3, BeforeIsOrder DEF below
    <2>2. below(D, l) \in SUBSET D
      BY DEF below
    <2>3. IsFiniteSet(below(D, l))
      BY <2>2, FS_Subset
    <2> QED
      BY <2>1, <2>3, FS_Subset DEF rank
  <1>4. \A k, l \in D : rank(D, k) = rank(D, l) => k = l
    BY <1>3, BeforeIsOrder
  <1>5. f \in Injection(D, 0 .. N - 1)
    BY <1>2, <1>4 DEF Injection, IsInjective
  <1>6. IsFiniteSet(0 .. N - 1) /\ Cardinality(0 .. N - 1) = N
    <2>1. 0 \in Int /\ N - 1 \in Int
      BY <1>1
    <2>2. IsFiniteSet(0 .. N - 1) /\ Cardinality(0 .. N - 1) = IF 0 > N - 1 THEN 0 ELSE N - 1 - 0 + 1
      BY <2>1, FS_Interval
    <2> QED
      BY <1>1, <2>2
  <1>7. f \in Surjection(D, 0 .. N - 1)
    BY <1>5, <1>6, FS_Injection
  <1>8. \A i \in 0 .. N - 1 : \E k \in D : rank(D, k) = i
    BY <1>7 DEF Surjection
  <1> QED
    BY <1>1, <1>2, <1>4, <1>8

(* Flags with values that can be told from flags. *)
isFlagMap(map) ==
  /\ IsFiniteSet(DOMAIN map)
  /\ map = [k \in DOMAIN map |-> map[k]]
  /\ \A k \in DOMAIN map : isFlag(k) /\ isWord(map[k]) /\ Kind(map[k]) \in {"value", "empty"}

(* Visit writes each flag, at its place, and its value behind it. *)
LEMMA VisitPlaces ==
  ASSUME NEW map, isFlagMap(map)
  PROVE  LET D == DOMAIN map
             s == Visit(map)
             N == Cardinality(D)
         IN /\ N \in Nat /\ DOMAIN s = 1 .. 2 * N /\ s \in Seq(ToSet(s)) /\ Len(s) = 2 * N
            /\ \A i \in 1 .. 2 * N : i % 2 = 1 =>
                 s[i] \in D /\ rank(D, s[i]) = i \div 2 /\ s[i + 1] = map[s[i]]
            /\ \A k \in D : 2 * rank(D, k) + 1 \in 1 .. 2 * N /\ s[2 * rank(D, k) + 1] = k
  <1> DEFINE D == DOMAIN map
             s == Visit(map)
             N == Cardinality(D)
             nth(i) == CHOOSE k \in D : rank(D, k) = i
  <1>1. /\ N \in Nat
        /\ \A k \in D : rank(D, k) \in 0 .. N - 1
        /\ \A k, l \in D : rank(D, k) = rank(D, l) => k = l
        /\ \A i \in 0 .. N - 1 : \E k \in D : rank(D, k) = i
    BY RanksAreIndices DEF isFlagMap
  <1>2. s = [i \in 1 .. 2 * N |-> IF i % 2 = 1 THEN nth(i \div 2) ELSE map[nth(i \div 2 - 1)]]
    BY DEF Visit, rank, below
  <1>3. \A i \in 0 .. N - 1 : nth(i) \in D /\ rank(D, nth(i)) = i
    BY <1>1
  <1> HIDE DEF nth, N, s
  <1>4. \A k \in D : nth(rank(D, k)) = k
    BY <1>1, <1>3
  <1>5. DOMAIN s = 1 .. 2 * N /\ 2 * N \in Nat /\ s = [i \in 1 .. 2 * N |-> s[i]]
    BY <1>1, <1>2
  <1>6. s \in Seq(ToSet(s)) /\ Len(s) = 2 * N
    BY <1>5 DEF ToSet
  <1>7. ASSUME NEW i \in 1 .. 2 * N, i % 2 = 1
        PROVE  s[i] \in D /\ rank(D, s[i]) = i \div 2 /\ s[i + 1] = map[s[i]]
    <2>1. i + 1 \in 1 .. 2 * N /\ (i + 1) % 2 # 1 /\ (i + 1) \div 2 - 1 = i \div 2
          /\ i \div 2 \in 0 .. N - 1
      BY <1>1, <1>7
    <2>2. s[i] = nth(i \div 2) /\ s[i + 1] = map[nth((i + 1) \div 2 - 1)]
      BY <1>2, <1>7, <2>1
    <2> QED
      BY <1>3, <2>1, <2>2
  <1>8. ASSUME NEW k \in D
        PROVE  2 * rank(D, k) + 1 \in 1 .. 2 * N /\ s[2 * rank(D, k) + 1] = k
    <2> DEFINE j == rank(D, k)
    <2>1. j \in 0 .. N - 1
      BY <1>1
    <2>2. nth(j) = k
      BY <1>4
    <2> HIDE DEF j
    <2>3. 2 * j + 1 \in 1 .. 2 * N /\ (2 * j + 1) % 2 = 1 /\ (2 * j + 1) \div 2 = j
      BY <1>1, <2>1
    <2>4. s[2 * j + 1] = k
      BY <1>2, <2>2, <2>3
    <2> QED
      BY <2>3, <2>4 DEF j
  <1> QED
    BY <1>1, <1>5, <1>6, <1>7, <1>8 DEF N, s

(* A word is made of its parts. *)
LEMMA WordIsWord ==
  ASSUME NEW x \in 0 .. 3, NEW y
  PROVE  isWord(word(x, y))
  BY DEF isWord, word

(* A flag is a word, and its own name. *)
LEMMA FlagIsWord ==
  ASSUME NEW k, isFlag(k)
  PROVE  Kind(k) = "flag" /\ isWord(k) /\ nameOf(k) = k
  <1>1. k = word(k.d, k.n) /\ k.d \in 0 .. 3 /\ k.n # noName
    BY DEF isFlag
  <1>2. nameOf(k) = k /\ k.v = None /\ k.d # 0 /\ k.d # 3
    BY WordFields DEF isFlag
  <1>3. isWord(k)
    BY <1>1, WordIsWord
  <1>4. \A d : k # word(d, noName)
    BY <1>1, WordFields
  <1>5. Kind(k) = "flag"
    BY <1>1, <1>2, <1>4, Zenon DEF Kind, Empty, text, noName
  <1> QED
    BY <1>2, <1>3, <1>5

(* A text that is not empty is a value. *)
LEMMA TextIsValue ==
  ASSUME NEW n, n # noName
  PROVE  Kind(text(n)) = "value" /\ isWord(text(n)) /\ text(n).v = None
  <1> DEFINE w == text(n)
  <1>1. w.d = 0 /\ w.n = n /\ w.v = None /\ isWord(w)
    BY WordFields, WordIsWord DEF text
  <1>2. w # word(0, noName)
    BY <1>1, WordFields
  <1> HIDE DEF w
  <1>3. Kind(w) = "value"
    BY <1>1, <1>2, Zenon DEF Kind, Empty, text, noName
  <1> QED
    BY <1>1, <1>3 DEF w

(* What Visit writes can be read back. *)
LEMMA VisitParses ==
  ASSUME NEW map, isFlagMap(map)
  PROVE  LET s == Visit(map)
         IN /\ isArgs(s) /\ wellFormed(s) /\ spaced(s) /\ plain(s)
            /\ meaning(s) = map /\ Flags(s) = map /\ Parse(s).st = "done"
  <1> DEFINE D == DOMAIN map
             s == Visit(map)
             N == Cardinality(D)
  <1>1. /\ N \in Nat /\ DOMAIN s = 1 .. 2 * N /\ s \in Seq(ToSet(s)) /\ Len(s) = 2 * N
        /\ \A i \in 1 .. 2 * N : i % 2 = 1 =>
             s[i] \in D /\ rank(D, s[i]) = i \div 2 /\ s[i + 1] = map[s[i]]
        /\ \A k \in D : 2 * rank(D, k) + 1 \in 1 .. 2 * N /\ s[2 * rank(D, k) + 1] = k
    BY VisitPlaces
  <1>2. \A k \in D : isFlag(k) /\ isWord(map[k]) /\ Kind(map[k]) \in {"value", "empty"}
    BY DEF isFlagMap
  <1>3. ASSUME NEW k \in D
        PROVE  Kind(k) = "flag" /\ isWord(k) /\ nameOf(k) = k
    BY <1>2, FlagIsWord
  <1> HIDE DEF s, N
  <1>4. ASSUME NEW i \in 1 .. 2 * N
        PROVE  /\ isWord(s[i])
               /\ i % 2 = 1 => Kind(s[i]) = "flag" /\ nameOf(s[i]) = s[i] /\ s[i] \in D
               /\ i % 2 # 1 => Kind(s[i]) \in {"value", "empty"} /\ i - 1 \in 1 .. 2 * N
                              /\ (i - 1) % 2 = 1
    <2>1. CASE i % 2 = 1
      BY <1>1, <1>3, <2>1
    <2>2. CASE i % 2 # 1
      <3>1. i - 1 \in 1 .. 2 * N /\ (i - 1) % 2 = 1 /\ (i - 1) + 1 = i
        BY <1>1, <2>2
      <3>2. s[i - 1] \in D /\ s[i] = map[s[i - 1]]
        BY <1>1, <3>1
      <3> QED
        BY <1>2, <2>2, <3>1, <3>2
    <2> QED
      BY <2>1, <2>2
  <1>5. isArgs(s)
    <2>1. ASSUME NEW i \in 1 .. 2 * N, Kind(s[i]) \in {"flag", "assign"}
          PROVE  s[i].n \in DOMAIN Rank
      <3>1. i % 2 = 1
        BY <1>4, <2>1
      <3>2. s[i] \in D
        BY <1>4, <3>1
      <3> QED
        BY <1>2, <3>2 DEF isFlag
    <2> QED
      BY <1>1, <1>4, <2>1 DEF isArgs
  <1>6. spaced(s) /\ ends(s) = {}
    BY <1>1, <1>4 DEF spaced, ends
  <1>7. ASSUME NEW i \in 1 .. 2 * N
        PROVE  fits(s, i)
    <2>1. CASE i % 2 = 1
      <3>1. ~open(s, i)
        <4>1. i - 1 \in 1 .. 2 * N => (i - 1) % 2 # 1
          BY <1>1, <2>1
        <4> QED
          BY <1>1, <1>4, <4>1 DEF open
      <3> QED
        BY <1>4, <2>1, <3>1 DEF fits
    <2>2. CASE i % 2 # 1
      <3>1. open(s, i)
        BY <1>1, <1>4, <2>2 DEF open
      <3> QED
        BY <1>4, <2>2, <3>1 DEF fits
    <2> QED
      BY <2>1, <2>2
  <1>8. consumed(s) = 1 .. 2 * N
    BY <1>1, <1>6, <1>7 DEF consumed
  <1>9. wellFormed(s)
    BY <1>1, <1>8 DEF wellFormed
  <1>10. Means(map, s, 2 * N)
    <2>1. flagsIn(s, 2 * N) = {i \in 1 .. 2 * N : i % 2 = 1}
      BY <1>4 DEF flagsIn
    <2>2. ASSUME NEW k \in D
          PROVE  \E i \in Nat : LastAt(k, i, s, 2 * N) /\ map[k] = valueAt(s, i, 2 * N)
      <3> DEFINE j == rank(D, k)
      <3>1. j \in Nat
        BY RanksAreIndices DEF isFlagMap
      <3>2. 2 * j + 1 \in 1 .. 2 * N /\ s[2 * j + 1] = k
        BY <1>1
      <3>3. \A i \in 1 .. 2 * N : i % 2 = 1 /\ s[i] = k => i \div 2 = j
        BY <1>1
      <3> HIDE DEF j
      <3>4. (2 * j + 1) % 2 = 1 /\ 2 * j + 1 \in flagsIn(s, 2 * N)
        BY <2>1, <3>1, <3>2
      <3>5. ASSUME NEW i \in flagsIn(s, 2 * N), nameOf(s[i]) = k
            PROVE  i <= 2 * j + 1
        <4>1. i \in 1 .. 2 * N /\ i % 2 = 1 /\ s[i] = k
          BY <1>4, <2>1, <3>5
        <4>2. i \div 2 = j
          BY <3>3, <4>1
        <4> QED
          BY <1>1, <3>1, <4>1, <4>2
      <3>6. LastAt(k, 2 * j + 1, s, 2 * N)
        BY <1>3, <3>2, <3>4, <3>5 DEF LastAt
      <3>7. valueAt(s, 2 * j + 1, 2 * N) = map[k]
        <4>1. Kind(s[2 * j + 1]) = "flag" /\ s[2 * j + 1 + 1] = map[s[2 * j + 1]]
          BY <1>1, <1>4, <3>2, <3>4
        <4>2. 2 * j + 1 + 1 <= 2 * N
          BY <1>1, <3>1, <3>2
        <4> QED
          BY <3>2, <4>1, <4>2 DEF valueAt
      <3>8. 2 * j + 1 \in Nat
        BY <3>1
      <3> QED
        BY <3>6, <3>7, <3>8
    <2>3. D = {nameOf(s[i]) : i \in flagsIn(s, 2 * N)}
      <3>1. ASSUME NEW k \in D PROVE k \in {nameOf(s[i]) : i \in flagsIn(s, 2 * N)}
        BY <2>2 DEF LastAt
      <3>2. ASSUME NEW i \in flagsIn(s, 2 * N) PROVE nameOf(s[i]) \in D
        BY <1>4, <2>1
      <3> QED
        BY <3>1, <3>2
    <2>4. map = [k \in D |-> map[k]]
      BY DEF isFlagMap
    <2> QED
      BY <2>2, <2>3, <2>4 DEF Means
  <1>11. meaning(s) = map
    <2>1. 2 * N \in Nat
      BY <1>1
    <2> QED
      BY <1>8, <1>10, <2>1, MeansMeaning
  <1>12. Flags(s) = map /\ Parse(s).st = "done"
    BY <1>5, <1>9, <1>11, ParseComputes
  <1>13. plain(s)
    BY <1>2, <1>9, <1>11 DEF plain
  <1> QED
    BY <1>5, <1>6, <1>9, <1>11, <1>12, <1>13 DEF s

-----------------------------------------------------------------------------
(***************************************************************************)
(* Default args.                                                           *)
(***************************************************************************)

(* The words that set a flag. *)
LEMMA SettingWords ==
  ASSUME NEW w, isWord(w), Kind(w) \in {"flag", "assign"}, w.n \in DOMAIN Rank
  PROVE  isFlag(nameOf(w)) /\ nameOf(w).n = w.n /\ (Kind(w) = "assign" => w.v # None)
  <1>1. w.d # 0 /\ w.d # 3 /\ w.n # noName /\ (Kind(w) = "assign" => w.v # None)
    BY Zenon DEF Kind, noName
  <1>2. nameOf(w) = word(w.d, w.n) /\ w.d \in 0 .. 3
    BY NameIsWord
  <1>4. w.d \in 1 .. 2
    BY <1>1, <1>2
  <1> QED
    BY <1>1, <1>2, <1>4, WordFields DEF isFlag

(* The empty word is one. *)
LEMMA EmptyIsWord == isWord(Empty) /\ Kind(Empty) = "empty"
  <1>1. Empty = word(0, noName)
    BY Zenon DEF Empty, text, noName
  <1>2. isWord(Empty) /\ Empty.d = 0
    BY <1>1, WordIsWord, WordFields
  <1> QED
    BY <1>2, Zenon DEF Kind

(* What the parser makes of args: finitely many flags, their values words. *)
LEMMA FlagsAreFlags ==
  ASSUME NEW s, isArgs(s), valuedArgs(s)
  PROVE  LET map == Flags(s)
         IN /\ IsFiniteSet(DOMAIN map) /\ map = [k \in DOMAIN map |-> map[k]]
            /\ \A k \in DOMAIN map :
                 /\ isFlag(k) /\ isWord(map[k])
                 /\ \E i \in DOMAIN s : Kind(s[i]) \in {"flag", "assign"} /\ s[i].n = k.n
            /\ spaced(s) => \A k \in DOMAIN map : Kind(map[k]) \in {"value", "empty"}
  <1> DEFINE f == Parse(s)
             map == Flags(s)
             m == f.i - 1
             F == flagsIn(s, m)
  <1>0. Len(s) \in Nat /\ DOMAIN s = 1 .. Len(s) /\ \A i \in DOMAIN s : isWord(s[i])
    BY ArgsAreWords
  <1>1. /\ f.i \in 1 .. Len(s) + 1
        /\ \A j \in 1 .. m : fits(s, j)
        /\ Means(map, s, m)
    BY ParseEnds DEF RunInv, Flags
  <1>2. m \in Nat /\ 1 .. m \subseteq DOMAIN s
    BY <1>0, <1>1
  <1> HIDE DEF m, map
  <1>3. F \subseteq 1 .. m /\ \A i \in F : i \in DOMAIN s /\ Kind(s[i]) \in {"flag", "assign"}
    BY <1>2 DEF flagsIn
  <1>4. \A i \in F : /\ isFlag(nameOf(s[i])) /\ nameOf(s[i]).n = s[i].n
                      /\ (Kind(s[i]) = "assign" => s[i].v # None)
    BY <1>0, <1>3, ArgsAreWords, SettingWords
  <1>5. DOMAIN map = {nameOf(s[i]) : i \in F} /\ map = [k \in DOMAIN map |-> map[k]]
    BY <1>1 DEF Means
  <1>6. IsFiniteSet(DOMAIN map)
    <2>1. 1 \in Int /\ m \in Int
      BY <1>2
    <2>2. IsFiniteSet(1 .. m)
      BY <2>1, FS_Interval
    <2>3. IsFiniteSet(F)
      BY <1>3, <2>2, FS_Subset
    <2> DEFINE g == [i \in F |-> nameOf(s[i])]
    <2>4. g \in Surjection(F, DOMAIN map)
      BY <1>5 DEF Surjection
    <2> QED
      BY <2>3, <2>4, FS_Surjection
  <1>7. \A k \in DOMAIN map : isFlag(k) /\ \E i \in DOMAIN s : Kind(s[i]) \in {"flag", "assign"}
                                                           /\ s[i].n = k.n
    BY <1>3, <1>4, <1>5
  <1>8. ASSUME NEW k \in DOMAIN map
        PROVE  isWord(map[k]) /\ (spaced(s) => Kind(map[k]) \in {"value", "empty"})
    <2>1. PICK i \in Nat : i \in F /\ map[k] = valueAt(s, i, m)
      BY <1>1 DEF Means, LastAt
    <2>2. CASE Kind(s[i]) = "assign"
      <3>1. map[k] = s[i].v /\ i \in DOMAIN s
        BY <1>3, <2>1, <2>2 DEF valueAt
      <3> QED
        BY <1>4, <2>1, <2>2, <3>1 DEF valuedArgs, spaced
    <2>3. CASE Kind(s[i]) = "flag" /\ i + 1 <= m
      <3>1. map[k] = s[i + 1] /\ i + 1 \in 1 .. m /\ i + 1 \in DOMAIN s
        BY <1>2, <2>1, <2>3 DEF valueAt
      <3>2. open(s, i + 1)
        BY <1>3, <2>1, <2>3 DEF open
      <3>3. Kind(s[i + 1]) \in {"value", "empty"}
        BY <1>1, <3>1, <3>2 DEF fits
      <3> QED
        BY <1>0, <3>1, <3>3
    <2>4. CASE Kind(s[i]) = "flag" /\ ~(i + 1 <= m)
      <3>1. map[k] = Empty
        BY <2>1, <2>4 DEF valueAt
      <3> QED
        BY <3>1, EmptyIsWord
    <2> QED
      BY <1>3, <2>1, <2>2, <2>3, <2>4
  <1> QED
    BY <1>5, <1>6, <1>7, <1>8 DEF map

(* The flags of plain args can be written; so can those of default args,   *)
(* which have neither '=' nor "--".                                        *)
LEMMA PlainFlags ==
  ASSUME NEW s, isArgs(s), valuedArgs(s), plain(s) \/ spaced(s)
  PROVE  isFlagMap(Flags(s))
  <1>1. plain(s) => \A k \in DOMAIN Flags(s) : Kind(Flags(s)[k]) \in {"value", "empty"}
    BY ParseComputes DEF plain
  <1> QED
    BY <1>1, FlagsAreFlags DEF isFlagMap

(* What extendArgs writes for the flags user and the defaults default. *)
kept(user, default) == {k \in DOMAIN default : \A l \in DOMAIN user : l.n # k.n}
merged(user, default) ==
  [k \in DOMAIN user \cup kept(user, default) |->
    IF k \in DOMAIN user THEN user[k] ELSE default[k]]

(* The flags of the user and the defaults kept can be written. *)
LEMMA MergedIsFlagMap ==
  ASSUME NEW user, isFlagMap(user), NEW default, isFlagMap(default)
  PROVE  isFlagMap(merged(user, default))
  <1>1. kept(user, default) \in SUBSET DOMAIN default
    BY DEF kept
  <1>2. IsFiniteSet(DOMAIN user \cup kept(user, default))
    BY <1>1, FS_Subset, FS_Union DEF isFlagMap
  <1>3. /\ DOMAIN merged(user, default) = DOMAIN user \cup kept(user, default)
        /\ \A k \in DOMAIN user : merged(user, default)[k] = user[k]
        /\ \A k \in kept(user, default) \ DOMAIN user : merged(user, default)[k] = default[k]
        /\ merged(user, default) =
             [k \in DOMAIN merged(user, default) |-> merged(user, default)[k]]
    BY DEF merged
  <1>4. ASSUME NEW k \in DOMAIN merged(user, default)
        PROVE  /\ isFlag(k) /\ isWord(merged(user, default)[k])
               /\ Kind(merged(user, default)[k]) \in {"value", "empty"}
    BY <1>1, <1>3 DEF isFlagMap
  <1> QED
    BY <1>2, <1>3, <1>4 DEF isFlagMap

(* extendArgs on args it can read: no default is called p or port, so that *)
(* the short form of --port makes no difference.                           *)
LEMMA ExtendArgsIs ==
  ASSUME NEW args, isArgs(args), Parse(args).st # "error",
         NEW ext, \A k \in DOMAIN Flags(ext) : k.n \notin {"p", "port"}
  PROVE  extendArgs(args, ext) = Visit(merged(Flags(args), Flags(ext)))
  <1> DEFINE user == Flags(args)
             default == Flags(ext)
             existKeys == {IF k = word(1, "p") THEN "port" ELSE k.n : k \in DOMAIN user}
             added == {k \in DOMAIN default : k.n \notin existKeys}
  <1>1. extendArgs(args, ext) =
          Visit([k \in DOMAIN user \cup added |-> IF k \in added THEN default[k] ELSE user[k]])
    BY DEF extendArgs, Flags
  <1>2. ASSUME NEW k \in DOMAIN default
        PROVE  k.n \in existKeys <=> \E l \in DOMAIN user : l.n = k.n
    <2>1. k.n # "p" /\ k.n # "port"
      OBVIOUS
    <2>2. \A l : l = word(1, "p") => l.n = "p"
      BY WordFields
    <2> QED
      BY <2>1, <2>2
  <1> HIDE DEF existKeys
  <1>3. added = kept(user, default)
    BY <1>2 DEF kept
  <1>4. \A k \in kept(user, default) : k \notin DOMAIN user
    BY DEF kept
  <1>5. [k \in DOMAIN user \cup added |-> IF k \in added THEN default[k] ELSE user[k]]
          = merged(user, default)
    BY <1>3, <1>4 DEF merged
  <1> QED
    BY <1>1, <1>5

(* Extending plain args: they can be read back, and a second time nothing  *)
(* is added.                                                               *)
LEMMA ExtendPlain ==
  ASSUME NEW args, isArgs(args), valuedArgs(args), plain(args),
         NEW ext, isArgs(ext), valuedArgs(ext), spaced(ext),
         \A k \in DOMAIN Flags(ext) : k.n \notin {"p", "port"}
  PROVE  LET new == extendArgs(args, ext)
             map == merged(Flags(args), Flags(ext))
         IN /\ isFlagMap(map) /\ new = Visit(map)
            /\ isArgs(new) /\ wellFormed(new) /\ plain(new)
            /\ meaning(new) = map /\ Flags(new) = map
            /\ extendArgs(new, ext) = new
  <1> DEFINE new == extendArgs(args, ext)
             user == Flags(args)
             default == Flags(ext)
             map == merged(user, default)
  <1>1. isFlagMap(user) /\ isFlagMap(default)
    BY PlainFlags
  <1>2. isFlagMap(map)
    BY <1>1, MergedIsFlagMap
  <1>3. new = Visit(map)
    <2>1. Parse(args).st # "error"
      BY ParseComputes DEF plain
    <2> QED
      BY <2>1, ExtendArgsIs
  <1> HIDE DEF map, new
  <1>4. /\ isArgs(new) /\ wellFormed(new) /\ plain(new)
        /\ meaning(new) = map /\ Flags(new) = map /\ Parse(new).st = "done"
    BY <1>2, <1>3, VisitParses
  <1>5. merged(map, default) = map
    <2>1. /\ DOMAIN map = DOMAIN user \cup kept(user, default)
          /\ map = [k \in DOMAIN map |-> map[k]]
      BY DEF map, merged
    <2>2. kept(map, default) \subseteq DOMAIN map
      BY <2>1 DEF kept
    <2>3. kept(map, default) = {}
      BY <2>1, <2>2 DEF kept
    <2> QED
      BY <2>1, <2>3 DEF merged
  <1>6. extendArgs(new, ext) = new
    BY <1>3, <1>4, <1>5, ExtendArgsIs
  <1> QED
    BY <1>2, <1>3, <1>4, <1>6 DEF new, map

-----------------------------------------------------------------------------
(***************************************************************************)
(* FlattenSeq stays within a set of sequences that is closed under         *)
(* concatenation.                                                          *)
(***************************************************************************)
IsFlat(f, k, seqs) ==
  f = [i \in 1 .. k |-> IF i = 1 THEN seqs[i] ELSE f[i - 1] \o seqs[i]]

(* Its recursion has a solution. *)
LEMMA FlatExists ==
  ASSUME NEW seqs, NEW k \in Nat
  PROVE  \E f : IsFlat(f, k, seqs)
  <1> DEFINE T == {n \in Nat : ~\E f : IsFlat(f, n, seqs)}
  <1> SUFFICES ASSUME T # {} PROVE FALSE
    OBVIOUS
  <1>0. T \subseteq Nat
    OBVIOUS
  <1>1. PICK n \in T : \A m \in T : n <= m
    <2> HIDE DEF T
    <2> QED
      BY <1>0, NatMin
  <1>2. n # 0
    <2> DEFINE f == [i \in 1 .. 0 |-> seqs]
    <2>1. IsFlat(f, 0, seqs)
      BY DEF IsFlat
    <2> QED
      BY <2>1
  <1>3. PICK f : IsFlat(f, n - 1, seqs)
    BY <1>1, <1>2
  <1> DEFINE g == [i \in 1 .. n |-> IF i = n THEN IF i = 1 THEN seqs[i] ELSE f[i - 1] \o seqs[i]
                                    ELSE f[i]]
  <1>4. IsFlat(g, n, seqs)
    <2>1. \A i \in 1 .. n - 1 : g[i] = f[i]
      BY <1>1
    <2>2. ASSUME NEW i \in 1 .. n
          PROVE  g[i] = IF i = 1 THEN seqs[i] ELSE g[i - 1] \o seqs[i]
      <3>1. CASE i = n
        BY <1>2, <2>1, <3>1
      <3>2. CASE i # n
        <4>1. i \in 1 .. n - 1 /\ (i # 1 => i - 1 \in 1 .. n - 1)
          BY <1>1, <3>2
        <4>2. f[i] = IF i = 1 THEN seqs[i] ELSE f[i - 1] \o seqs[i]
          BY <1>3, <4>1 DEF IsFlat
        <4> QED
          BY <2>1, <4>1, <4>2
      <3> QED
        BY <3>1, <3>2
    <2> QED
      BY <2>2 DEF IsFlat
  <1> QED
    BY <1>1, <1>4

(* The invariant of the recursion. *)
LEMMA FlattenWithin ==
  ASSUME NEW S, \A a, b \in S : a \o b \in S, NEW seqs \in Seq(S), Len(seqs) # 0
  PROVE  FlattenSeq(seqs) \in S
  <1> DEFINE k == Len(seqs)
             flatten[i \in 1 .. Len(seqs)] ==
               IF i = 1 THEN seqs[i] ELSE flatten[i - 1] \o seqs[i]
  <1>0. k \in Nat /\ k # 0 /\ \A i \in 1 .. k : seqs[i] \in S
    OBVIOUS
  <1>1. FlattenSeq(seqs) = flatten[Len(seqs)]
    BY DEF FlattenSeq
  <1>2. flatten = CHOOSE f : IsFlat(f, k, seqs)
    BY DEF IsFlat
  <1>3. IsFlat(flatten, k, seqs)
    BY <1>0, <1>2, FlatExists
  <1> HIDE DEF flatten, k
  <1>4. \A i \in 1 .. k : flatten[i] = IF i = 1 THEN seqs[i] ELSE flatten[i - 1] \o seqs[i]
    BY <1>3 DEF IsFlat
  <1> DEFINE T == {i \in 1 .. k : flatten[i] \notin S}
  <1>5. T = {}
    <2> SUFFICES ASSUME T # {} PROVE FALSE
      OBVIOUS
    <2>1. T \subseteq Nat
      BY <1>0
    <2>2. PICK n \in T : \A m \in T : n <= m
      <3> HIDE DEF T
      <3> QED
        BY <2>1, NatMin
    <2>3. n \in 1 .. k /\ flatten[n] \notin S
      BY <2>2
    <2>4. n # 1
      BY <1>0, <1>4, <2>3
    <2>5. n - 1 \in 1 .. k /\ n - 1 \notin T
      BY <1>0, <2>2, <2>3, <2>4
    <2>6. flatten[n - 1] \in S
      BY <2>5
    <2> QED
      BY <1>0, <1>4, <2>3, <2>4, <2>6
  <1> QED
    BY <1>0, <1>1, <1>5 DEF k

-----------------------------------------------------------------------------
(***************************************************************************)
(* Pairs of a flag and its value before other args.                        *)
(***************************************************************************)
pairs(G, val) ==
  {s \in Seq(G \cup {val[k] : k \in G}) :
     /\ Len(s) % 2 = 0
     /\ \A i \in DOMAIN s : i % 2 = 1 => s[i] \in G /\ s[i + 1] = val[s[i]]}

(* Pairs after pairs are pairs. *)
LEMMA PairsConcat ==
  ASSUME NEW G, NEW val, NEW a \in pairs(G, val), NEW b \in pairs(G, val)
  PROVE  a \o b \in pairs(G, val)
  <1> DEFINE W == G \cup {val[k] : k \in G}
             c == a \o b
  <1>1. /\ a \in Seq(W) /\ b \in Seq(W) /\ Len(a) % 2 = 0 /\ Len(b) % 2 = 0
        /\ \A i \in DOMAIN a : i % 2 = 1 => a[i] \in G /\ a[i + 1] = val[a[i]]
        /\ \A i \in DOMAIN b : i % 2 = 1 => b[i] \in G /\ b[i + 1] = val[b[i]]
    BY DEF pairs
  <1> HIDE DEF W
  <1>2. /\ c \in Seq(W) /\ Len(c) = Len(a) + Len(b) /\ Len(a) \in Nat /\ Len(b) \in Nat
        /\ DOMAIN c = 1 .. Len(a) + Len(b) /\ DOMAIN a = 1 .. Len(a) /\ DOMAIN b = 1 .. Len(b)
        /\ \A i \in 1 .. Len(a) : c[i] = a[i]
        /\ \A i \in 1 .. Len(b) : c[Len(a) + i] = b[i]
    <2>1. a \in Seq(W) /\ b \in Seq(W)
      BY <1>1
    <2>2. /\ c \in Seq(W) /\ Len(c) = Len(a) + Len(b)
          /\ Len(a) \in Nat /\ Len(b) \in Nat
      BY <2>1
    <2>3. DOMAIN c = 1 .. Len(c) /\ DOMAIN a = 1 .. Len(a) /\ DOMAIN b = 1 .. Len(b)
      BY <2>1, <2>2
    <2>4. \A i \in 1 .. Len(a) : c[i] = a[i]
      BY <2>1
    <2>5. \A i \in 1 .. Len(b) : c[Len(a) + i] = b[i]
      BY <2>1
    <2> QED
      BY <2>2, <2>3, <2>4, <2>5
  <1> HIDE DEF c
  <1>3. Len(c) % 2 = 0
    <2>1. \A x, y \in Nat : x % 2 = 0 /\ y % 2 = 0 => (x + y) % 2 = 0
      OBVIOUS
    <2> QED
      BY <1>1, <1>2, <2>1
  <1>4. ASSUME NEW i \in DOMAIN c, i % 2 = 1
        PROVE  c[i] \in G /\ c[i + 1] = val[c[i]]
    <2>1. CASE i <= Len(a)
      <3>1. i \in 1 .. Len(a) /\ i + 1 \in 1 .. Len(a)
        BY <1>1, <1>2, <1>4, <2>1
      <3> QED
        BY <1>1, <1>2, <1>4, <3>1
    <2>2. CASE i > Len(a)
      <3>1. \A x, y \in Nat : \A z \in 1 .. x + y :
              x % 2 = 0 /\ y % 2 = 0 /\ z % 2 = 1 /\ z > x =>
                \E u \in 1 .. y : u + 1 \in 1 .. y /\ u % 2 = 1 /\ z = x + u
        <4> SUFFICES ASSUME NEW x \in Nat, NEW y \in Nat, NEW z \in 1 .. x + y,
                            x % 2 = 0, y % 2 = 0, z % 2 = 1, z > x
                     PROVE  z - x \in 1 .. y /\ z - x + 1 \in 1 .. y /\ (z - x) % 2 = 1
                            /\ z = x + (z - x)
          OBVIOUS
        <4> QED
          OBVIOUS
      <3>2. PICK j \in 1 .. Len(b) : j + 1 \in 1 .. Len(b) /\ j % 2 = 1 /\ i = Len(a) + j
        <4>1. PICK x \in Nat, y \in Nat : x = Len(a) /\ y = Len(b)
          BY <1>2
        <4>2. i \in 1 .. x + y /\ x % 2 = 0 /\ y % 2 = 0 /\ i % 2 = 1 /\ i > x
          BY <1>1, <1>2, <1>4, <2>2, <4>1
        <4>3. \E u \in 1 .. y : u + 1 \in 1 .. y /\ u % 2 = 1 /\ i = x + u
          BY <3>1, <4>2
        <4> QED
          BY <4>1, <4>3
      <3>3. i + 1 = Len(a) + (j + 1)
        BY <1>2, <3>2
      <3>4. b[j] \in G /\ b[j + 1] = val[b[j]]
        BY <1>1, <1>2, <3>2
      <3>5. c[i] = b[j] /\ c[i + 1] = b[j + 1]
        BY <1>2, <3>2, <3>3
      <3> QED
        BY <3>4, <3>5
    <2> QED
      BY <1>2, <2>1, <2>2
  <1> QED
    BY <1>2, <1>3, <1>4 DEF pairs, c, W

(* The parser reads the pairs first, and what follows as if it were alone: *)
(* flags set there keep their values, and those of the pairs are added.    *)
LEMMA PairsFirst ==
  ASSUME NEW G, NEW val, NEW pre \in pairs(G, val),
         \A k \in G : isFlag(k) /\ isWord(val[k]) /\ Kind(val[k]) = "value",
         NEW s, isArgs(s)
  PROVE  LET t == pre \o s
         IN /\ isArgs(t)
            /\ \A k \in DOMAIN Flags(s) :
                 k \in DOMAIN Flags(t) /\ Flags(t)[k] = Flags(s)[k]
            /\ \A k \in ToSet(pre) \cap G : k \notin DOMAIN Flags(s) =>
                 k \in DOMAIN Flags(t) /\ Flags(t)[k] = val[k]
  <1> DEFINE t == pre \o s
             L == Len(pre)
             W == G \cup {val[k] : k \in G}
             m == Parse(s).i - 1
  <1>1. /\ pre \in Seq(W) /\ L % 2 = 0
        /\ \A i \in DOMAIN pre : i % 2 = 1 => pre[i] \in G /\ pre[i + 1] = val[pre[i]]
    BY DEF pairs
  <1>2. Len(s) \in Nat /\ DOMAIN s = 1 .. Len(s) /\ s \in Seq(ToSet(s))
    BY ArgsAreWords DEF isArgs
  <1>3. /\ L \in Nat /\ DOMAIN pre = 1 .. L /\ Len(t) = L + Len(s)
        /\ DOMAIN t = 1 .. L + Len(s) /\ t \in Seq(W \cup ToSet(s))
        /\ \A i \in 1 .. L : t[i] = pre[i]
        /\ \A i \in 1 .. Len(s) : t[L + i] = s[i]
    <2> DEFINE V == W \cup ToSet(s)
    <2>1. pre \in Seq(V) /\ s \in Seq(V)
      <3> HIDE DEF W
      <3> QED
        BY <1>1, <1>2
    <2> HIDE DEF V, W
    <2>2. t \in Seq(V) /\ Len(t) = L + Len(s) /\ L \in Nat /\ DOMAIN pre = 1 .. L
      BY <2>1
    <2>3. \A i \in 1 .. L : t[i] = pre[i]
      BY <2>1
    <2>4. \A i \in 1 .. Len(s) : t[L + i] = s[i]
      BY <2>1
    <2>5. DOMAIN t = 1 .. Len(t)
      BY <2>2
    <2> QED
      BY <2>2, <2>3, <2>4, <2>5 DEF V
  <1>4. \A k \in G : Kind(k) = "flag" /\ isWord(k) /\ nameOf(k) = k /\ k.n \in DOMAIN Rank
    BY FlagIsWord DEF isFlag
  <1> HIDE DEF t, L, W
  <1>5. ASSUME NEW i \in 1 .. L
        PROVE  /\ isWord(t[i])
               /\ i % 2 = 1 => /\ t[i] \in G /\ Kind(t[i]) = "flag" /\ nameOf(t[i]) = t[i]
                               /\ i + 1 \in 1 .. L /\ t[i + 1] = val[t[i]]
               /\ i % 2 # 1 => /\ Kind(t[i]) = "value" /\ i - 1 \in 1 .. L /\ (i - 1) % 2 = 1
    <2>1. CASE i % 2 = 1
      <3>1. i + 1 \in 1 .. L
        BY <1>1, <1>3, <2>1
      <3>2. pre[i] \in G /\ pre[i + 1] = val[pre[i]]
        BY <1>1, <1>3, <2>1
      <3>3. t[i] = pre[i] /\ t[i + 1] = pre[i + 1]
        BY <1>3, <3>1
      <3>4. isWord(t[i]) /\ Kind(t[i]) = "flag" /\ nameOf(t[i]) = t[i]
        BY <1>4, <3>2, <3>3
      <3> QED
        BY <2>1, <3>1, <3>2, <3>3, <3>4
    <2>2. CASE i % 2 # 1
      <3>1. i - 1 \in 1 .. L /\ (i - 1) % 2 = 1 /\ (i - 1) + 1 = i
        <4>1. \A y \in Nat : \A z \in 1 .. y : z % 2 # 1 =>
                z - 1 \in 1 .. y /\ (z - 1) % 2 = 1 /\ (z - 1) + 1 = z
          OBVIOUS
        <4>2. L \in Nat
          BY <1>3
        <4> QED
          BY <2>2, <4>1, <4>2
      <3>2. pre[i - 1] \in G /\ pre[i] = val[pre[i - 1]]
        BY <1>1, <1>3, <3>1
      <3> QED
        BY <1>3, <2>2, <3>1, <3>2
    <2> QED
      BY <2>1, <2>2
  <1>6. isArgs(t)
    <2>1. \A i \in 1 .. Len(s) : /\ isWord(t[L + i])
                                 /\ Kind(t[L + i]) \in {"flag", "assign"} =>
                                      t[L + i].n \in DOMAIN Rank
      BY <1>2, <1>3 DEF isArgs
    <2>2. \A i \in 1 .. L : Kind(t[i]) \in {"flag", "assign"} => t[i].n \in DOMAIN Rank
      <3>1. \A i \in 1 .. L : Kind(t[i]) \in {"flag", "assign"} => t[i] \in G
        BY <1>5
      <3> QED
        BY <1>4, <3>1
    <2>3. \A i \in DOMAIN t : i \notin 1 .. L => i - L \in 1 .. Len(s) /\ L + (i - L) = i
      BY <1>2, <1>3
    <2>4. ASSUME NEW i \in DOMAIN t
          PROVE  isWord(t[i]) /\ (Kind(t[i]) \in {"flag", "assign"} => t[i].n \in DOMAIN Rank)
      <3>1. CASE i \in 1 .. L
        BY <1>5, <2>2, <3>1
      <3>2. CASE i \notin 1 .. L
        <4>1. PICK j \in 1 .. Len(s) : L + j = i
          BY <2>3, <3>2
        <4> QED
          BY <2>1, <4>1
      <3> QED
        BY <3>1, <3>2
    <2>5. t \in Seq(ToSet(t))
      BY <1>3 DEF ToSet
    <2> QED
      BY <2>4, <2>5 DEF isArgs
  <1>7. /\ m \in 0 .. Len(s) /\ consumed(s) = 1 .. m /\ Means(Flags(s), s, m)
    BY <1>2, ParseConsumes DEF Flags
  <1> HIDE DEF m
  <1>8. \A i \in 1 .. Len(s) : open(t, L + i) <=> open(s, i)
    <2> SUFFICES ASSUME NEW i \in 1 .. Len(s)
                 PROVE  open(t, L + i) <=> open(s, i)
      OBVIOUS
    <2>1. CASE i = 1
      <3>1. ~open(s, i)
        BY <1>2, <2>1 DEF open
      <3>2. L + i - 1 = L /\ (L = 0 => L \notin DOMAIN t)
        BY <1>3, <2>1
      <3>3. L # 0 => Kind(t[L]) = "value"
        <4>1. L # 0 => L \in 1 .. L /\ L % 2 # 1
          BY <1>1, <1>3
        <4> QED
          BY <1>5, <4>1
      <3>4. ~open(t, L + i)
        <4>1. L + i - 1 \in DOMAIN t => L # 0
          BY <3>2
        <4> QED
          BY <1>3, <3>2, <3>3, <4>1 DEF open
      <3> QED
        BY <3>1, <3>4
    <2>2. CASE i # 1
      <3>1. i - 1 \in 1 .. Len(s) /\ L + i - 1 = L + (i - 1) /\ L + i - 1 \in DOMAIN t
        BY <1>2, <1>3, <2>2
      <3> QED
        BY <1>2, <1>3, <3>1 DEF open
    <2> QED
      BY <2>1, <2>2
  <1>9. /\ \A i \in 1 .. L : fits(t, i)
        /\ \A i \in 1 .. Len(s) : fits(t, L + i) <=> fits(s, i)
    <2>1. ASSUME NEW i \in 1 .. L
          PROVE  fits(t, i)
      <3>1. CASE i % 2 = 1
        <4>1. ~open(t, i)
          <5>1. i - 1 \in 1 .. L => (i - 1) % 2 # 1
            BY <1>3, <3>1
          <5>2. i - 1 \in DOMAIN t => i - 1 \in 1 .. L
            BY <1>3
          <5> QED
            BY <1>5, <5>1, <5>2 DEF open
        <4> QED
          BY <1>5, <3>1, <4>1 DEF fits
      <3>2. CASE i % 2 # 1
        <4>1. open(t, i)
          <5>1. i - 1 \in 1 .. L /\ (i - 1) % 2 = 1 /\ i - 1 \in DOMAIN t
            BY <1>2, <1>3, <1>5, <3>2
          <5> QED
            BY <1>5, <5>1 DEF open
        <4> QED
          BY <1>5, <3>2, <4>1 DEF fits
      <3> QED
        BY <3>1, <3>2
    <2>2. \A i \in 1 .. Len(s) : fits(t, L + i) <=> fits(s, i)
      BY <1>3, <1>8 DEF fits
    <2> QED
      BY <2>1, <2>2
  <1>10. ends(t) = {L + j : j \in ends(s)}
    <2>1. \A i \in 1 .. L : Kind(t[i]) # "end"
      BY <1>5
    <2>2. \A i \in 1 .. L + Len(s) : i \notin 1 .. L => i - L \in 1 .. Len(s) /\ L + (i - L) = i
      BY <1>2, <1>3
    <2> QED
      BY <1>2, <1>3, <2>1, <2>2 DEF ends
  <1>11. consumed(t) = 1 .. L + m
    <2>1. ASSUME NEW i \in 1 .. L
          PROVE  i \in consumed(t)
      <3>1. i \in DOMAIN t /\ \A j \in 1 .. i : fits(t, j)
        BY <1>2, <1>3, <1>9
      <3>2. \A j \in ends(t) : i <= j
        BY <1>2, <1>3, <1>10 DEF ends
      <3> QED
        BY <3>1, <3>2 DEF consumed
    <2>2. ASSUME NEW i \in 1 .. Len(s)
          PROVE  L + i \in consumed(t) <=> i \in consumed(s)
      <3>1. L + i \in DOMAIN t /\ i \in DOMAIN s
        BY <1>2, <1>3
      <3>2. (\A j \in 1 .. L + i : fits(t, j)) <=> (\A j \in 1 .. i : fits(s, j))
        <4>1. \A j \in 1 .. L + i : j \in 1 .. L \/ (j - L \in 1 .. i /\ L + (j - L) = j)
          BY <1>3
        <4>2. \A j \in 1 .. i : L + j \in 1 .. L + i /\ j \in 1 .. Len(s)
          BY <1>2, <1>3
        <4> QED
          BY <1>9, <4>1, <4>2
      <3>3. (\A j \in ends(t) : L + i <= j) <=> (\A j \in ends(s) : i <= j)
        <4>1. \A j \in ends(s) : j \in Nat
          BY <1>2 DEF ends
        <4>2. \A j \in Nat : L + i <= L + j <=> i <= j
          BY <1>3
        <4> QED
          BY <1>10, <4>1, <4>2
      <3> QED
        BY <3>1, <3>2, <3>3 DEF consumed
    <2>3. \A i \in consumed(t) : i \in 1 .. L \/ (i - L \in 1 .. Len(s) /\ L + (i - L) = i)
      BY <1>2, <1>3 DEF consumed
    <2>4. \A i \in 1 .. L + m : i \in 1 .. L \/ (i - L \in 1 .. m /\ L + (i - L) = i)
      BY <1>3, <1>7
    <2>5. \A i \in 1 .. m : i \in 1 .. Len(s) /\ L + i \in 1 .. L + m
      BY <1>2, <1>3, <1>7
    <2>6. ASSUME NEW i \in consumed(t) PROVE i \in 1 .. L + m
      <3>1. CASE i \in 1 .. L
        BY <1>3, <1>7, <3>1
      <3>2. CASE i \notin 1 .. L
        <4>1. PICK j \in 1 .. Len(s) : L + j = i
          BY <2>3, <3>2
        <4>2. j \in 1 .. m
          BY <1>7, <2>2, <4>1
        <4> QED
          BY <2>5, <4>1, <4>2
      <3> QED
        BY <3>1, <3>2
    <2>7. ASSUME NEW i \in 1 .. L + m PROVE i \in consumed(t)
      <3>1. CASE i \in 1 .. L
        BY <2>1, <3>1
      <3>2. CASE i \notin 1 .. L
        <4>1. PICK j \in 1 .. m : L + j = i
          BY <2>4, <3>2
        <4> QED
          BY <1>7, <2>2, <2>5, <4>1
      <3> QED
        BY <3>1, <3>2
    <2> QED
      BY <2>6, <2>7
  <1>12. Means(Flags(t), t, L + m)
    <2>1. Parse(t).i \in 1 .. Len(t) + 1 /\ consumed(t) = 1 .. Parse(t).i - 1
          /\ Means(Flags(t), t, Parse(t).i - 1)
      BY <1>6, ParseConsumes DEF Flags
    <2> DEFINE x == Parse(t).i - 1
    <2>2. x \in Nat /\ L + m \in Nat /\ 1 .. x = 1 .. L + m
      BY <1>2, <1>3, <1>7, <1>11, <2>1
    <2> HIDE DEF x
    <2>3. x = L + m
      <3>1. x # 0 => x \in 1 .. L + m
        BY <2>2
      <3>2. L + m # 0 => L + m \in 1 .. x
        BY <2>2
      <3> QED
        BY <2>2, <3>1, <3>2
    <2> QED
      BY <2>1, <2>3 DEF x
  <1>13. \A i \in 1 .. m : /\ t[L + i] = s[i]
                           /\ L + i \in flagsIn(t, L + m) <=> i \in flagsIn(s, m)
    <2>1. \A i \in 1 .. m : i \in 1 .. Len(s) /\ L + i \in 1 .. L + m
      BY <1>2, <1>3, <1>7
    <2> QED
      BY <1>3, <2>1 DEF flagsIn
  <1>14. \A i \in flagsIn(t, L + m) :
           \/ i \in 1 .. L /\ i % 2 = 1
           \/ i - L \in flagsIn(s, m) /\ L + (i - L) = i
    <2>1. \A i \in 1 .. L + m : i \in 1 .. L \/ (i - L \in 1 .. m /\ L + (i - L) = i)
      BY <1>3, <1>7
    <2>2. \A i \in flagsIn(t, L + m) : i \in 1 .. L + m /\ Kind(t[i]) \in {"flag", "assign"}
      BY DEF flagsIn
    <2>3. \A i \in 1 .. L : Kind(t[i]) \in {"flag", "assign"} => i % 2 = 1
      BY <1>5
    <2> QED
      BY <1>13, <2>1, <2>2, <2>3
  <1>15. ASSUME NEW k \in DOMAIN Flags(s)
         PROVE  k \in DOMAIN Flags(t) /\ Flags(t)[k] = Flags(s)[k]
    <2>1. PICK i \in Nat : LastAt(k, i, s, m) /\ Flags(s)[k] = valueAt(s, i, m)
      BY <1>7 DEF Means
    <2>2. i \in 1 .. m /\ i \in flagsIn(s, m) /\ nameOf(s[i]) = k
      BY <2>1 DEF LastAt, flagsIn
    <2>3. L + i \in flagsIn(t, L + m) /\ nameOf(t[L + i]) = k
      BY <1>13, <2>2
    <2>4. k \in DOMAIN Flags(t)
      BY <1>12, <2>3 DEF Means
    <2>5. PICK j \in Nat : LastAt(k, j, t, L + m) /\ Flags(t)[k] = valueAt(t, j, L + m)
      BY <1>12, <2>4 DEF Means
    <2>6. j \in flagsIn(t, L + m) /\ nameOf(t[j]) = k /\ L + i <= j
      BY <2>3, <2>5 DEF LastAt
    <2>7. j - L \in flagsIn(s, m) /\ L + (j - L) = j /\ j - L \in 1 .. m
      <3>1. ~(j \in 1 .. L)
        BY <1>3, <2>2, <2>6
      <3> QED
        BY <1>14, <2>6, <3>1 DEF flagsIn
    <2>8. nameOf(s[j - L]) = k
      BY <1>13, <2>6, <2>7
    <2>9. j - L <= i
      BY <2>1, <2>7, <2>8 DEF LastAt
    <2>10. j = L + i
      BY <1>3, <2>2, <2>6, <2>7, <2>9
    <2>11. valueAt(t, L + i, L + m) = valueAt(s, i, m)
      <3>1. L + i + 1 <= L + m <=> i + 1 <= m
        BY <1>3, <1>7, <2>2
      <3>2. i + 1 <= m => i + 1 \in 1 .. m /\ L + i + 1 = L + (i + 1)
        BY <1>3, <1>7, <2>2
      <3>3. i + 1 <= m => t[L + i + 1] = s[i + 1]
        BY <1>13, <3>2
      <3>4. t[L + i] = s[i]
        BY <1>13, <2>2
      <3> QED
        BY <3>1, <3>3, <3>4 DEF valueAt
    <2> QED
      BY <2>1, <2>4, <2>5, <2>10, <2>11
  <1>16. ASSUME NEW k \in ToSet(pre) \cap G, k \notin DOMAIN Flags(s)
         PROVE  k \in DOMAIN Flags(t) /\ Flags(t)[k] = val[k]
    <2>1. PICK i \in 1 .. L : t[i] = k
      BY <1>3 DEF ToSet
    <2>2. Kind(k) = "flag" /\ nameOf(k) = k
      BY <1>4
    <2>3. i \in flagsIn(t, L + m) /\ nameOf(t[i]) = k
      <3>1. i \in 1 .. L + m
        BY <1>3, <1>7
      <3> QED
        BY <2>1, <2>2, <3>1 DEF flagsIn
    <2>4. k \in DOMAIN Flags(t)
      BY <1>12, <2>3 DEF Means
    <2>5. PICK j \in Nat : LastAt(k, j, t, L + m) /\ Flags(t)[k] = valueAt(t, j, L + m)
      BY <1>12, <2>4 DEF Means
    <2>6. j \in flagsIn(t, L + m) /\ nameOf(t[j]) = k
      BY <2>5 DEF LastAt
    <2>7. j \in 1 .. L /\ j % 2 = 1
      <3>1. ASSUME j - L \in flagsIn(s, m), L + (j - L) = j PROVE FALSE
        <4>1. j - L \in 1 .. m
          BY <3>1 DEF flagsIn
        <4>2. nameOf(s[j - L]) = k
          BY <1>13, <2>6, <3>1, <4>1
        <4> QED
          BY <1>7, <1>16, <3>1, <4>2 DEF Means
      <3> QED
        BY <1>14, <2>6, <3>1
    <2>8. t[j] = k /\ Kind(t[j]) = "flag" /\ t[j + 1] = val[k] /\ j + 1 \in 1 .. L
      BY <1>5, <2>6, <2>7
    <2>9. j + 1 <= L + m
      BY <1>3, <1>7, <2>8
    <2>10. valueAt(t, j, L + m) = val[k]
      BY <2>8, <2>9 DEF valueAt
    <2> QED
      BY <2>4, <2>5, <2>10
  <1> QED
    BY <1>6, <1>15, <1>16 DEF t
=============================================================================
