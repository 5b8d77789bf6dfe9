---------------------------- MODULE RegisterProofs ----------------------------
(***************************************************************************)
(* Proofs about the drivers that work on registers, for any number of      *)
(* threads and lanes, any masks, and every way in which accesses are lost. *)
(*                                                                         *)
(* The invariant says of each call that is under way what of its program   *)
(* is left (Shaped), and what its accesses so far have brought about: what *)
(* a merge will write back is what the register holds, an end that was     *)
(* chosen is still chosen, a field that is not to be written any more has  *)
(* its value (GotRead, GotSet, GotMeasured, GotLoops), as long as nobody   *)
(* else has written.  Three things are shown of it: every step of every    *)
(* call keeps it (the lemmas named Inv); every program of the four drivers *)
(* begins with it (CallsWhole, which goes through the drivers call by      *)
(* call); and with it each step keeps the promises of RegisterCalls (the   *)
(* lemmas on what the steps promise).                                      *)
(***************************************************************************)
EXTENDS Drivers, SequenceTheorems, WellFoundedInduction, FiniteSetTheorems, TLAPS

-------------------------------------------------------------------------------
(* Sequences.                                                                *)
Elems(s) == {s[i] : i \in 1..Len(s)}

LEMMA TailOf ==
    ASSUME NEW S, NEW s \in Seq(S), s # <<>>
    PROVE  /\ Head(s) \in S /\ Head(s) = s[1] /\ Len(s) \in Nat \ {0}
           /\ Tail(s) \in Seq(S) /\ Len(Tail(s)) = Len(s) - 1
           /\ \A i \in 1..Len(Tail(s)) : Tail(s)[i] = s[i + 1]
           /\ (Tail(s) = <<>> <=> Len(s) = 1)
           /\ (Tail(s) # <<>> => Head(Tail(s)) = s[2] /\ Len(s) > 1)
           /\ Elems(s) = {Head(s)} \cup Elems(Tail(s))
<1>1. Len(s) \in Nat \ {0} /\ Head(s) = s[1] /\ Head(s) \in S
  BY EmptySeq, LenProperties, HeadTailProperties
<1>2. Tail(s) \in Seq(S) /\ Len(Tail(s)) = Len(s) - 1 /\ \A i \in 1..Len(Tail(s)) : Tail(s)[i] = s[i + 1]
  BY HeadTailProperties
<1>3. Tail(s) = <<>> <=> Len(s) = 1
  <2>1. Tail(s) = <<>> <=> Len(Tail(s)) = 0
    BY ONLY <1>2, EmptySeq
  <2> QED BY <2>1, <1>1, <1>2
<1>4. Tail(s) # <<>> => Head(Tail(s)) = s[2] /\ Len(s) > 1
  <2>1. SUFFICES ASSUME Tail(s) # <<>> PROVE Head(Tail(s)) = s[2] /\ Len(s) > 1
    OBVIOUS
  <2>2. Len(s) > 1
    BY <2>1, <1>1, <1>3
  <2>3. Head(Tail(s)) = Tail(s)[1]
    BY <2>1, <1>2, HeadTailProperties
  <2> QED BY <2>2, <2>3, <1>1, <1>2
<1>5. \A i \in 1..Len(s) : i = 1 \/ (i - 1 \in 1..Len(Tail(s)) /\ s[i] = Tail(s)[i - 1])
  BY <1>1, <1>2
<1>6. \A i \in 1..Len(Tail(s)) : i + 1 \in 1..Len(s) /\ s[i + 1] = Tail(s)[i]
  BY <1>1, <1>2
<1>7. Elems(s) = {Head(s)} \cup Elems(Tail(s))
  <2> DEFINE T == Tail(s) n == Len(Tail(s))
  <2>1. ASSUME NEW x \in Elems(s) PROVE x \in {Head(s)} \cup Elems(T)
    BY <2>1, <1>1, <1>5 DEF Elems
  <2>2. ASSUME NEW x \in Elems(T) PROVE x \in Elems(s)
    BY <2>2, <1>6 DEF Elems
  <2>3. Head(s) \in Elems(s)
    BY <1>1 DEF Elems
  <2> QED BY <2>1, <2>2, <2>3
<1> QED BY <1>1, <1>2, <1>3, <1>4, <1>7

(* Two programs one after the other. *)
LEMMA ConcatOf ==
    ASSUME NEW S, NEW s \in Seq(S), NEW t \in Seq(S)
    PROVE  /\ s \o t \in Seq(S) /\ Len(s \o t) = Len(s) + Len(t) /\ Len(s) \in Nat /\ Len(t) \in Nat
           /\ \A i \in 1..Len(s) : (s \o t)[i] = s[i]
           /\ \A i \in 1..Len(t) : (s \o t)[Len(s) + i] = t[i]
           /\ Elems(s \o t) = Elems(s) \cup Elems(t)
<1>1. /\ s \o t \in Seq(S) /\ Len(s \o t) = Len(s) + Len(t) /\ Len(s) \in Nat /\ Len(t) \in Nat
      /\ \A i \in 1..Len(s) + Len(t) : (s \o t)[i] = IF i <= Len(s) THEN s[i] ELSE t[i - Len(s)]
  BY ConcatProperties, LenProperties
<1> DEFINE m == Len(s) n == Len(t) u == s \o t
<1>2. /\ \A i \in 1..m : i \in 1..Len(u) /\ u[i] = s[i]
      /\ \A i \in 1..n : m + i \in 1..Len(u) /\ u[m + i] = t[i]
      /\ \A i \in 1..Len(u) : i \in 1..m \/ (i - m \in 1..n /\ u[i] = t[i - m])
  <2> HIDE DEF u
  <2>1. /\ Len(u) = m + n /\ m \in Nat /\ n \in Nat
        /\ \A i \in 1..m + n : u[i] = IF i <= m THEN s[i] ELSE t[i - m]
    BY <1>1 DEF u
  <2> HIDE DEF m, n
  <2> QED BY <2>1
<1>3. Elems(u) = Elems(s) \cup Elems(t)
  <2> HIDE DEF u
  <2>1. ASSUME NEW x \in Elems(u) PROVE x \in Elems(s) \cup Elems(t)
    BY <1>2 DEF Elems
  <2>2. ASSUME NEW x \in Elems(s) \cup Elems(t) PROVE x \in Elems(u)
    BY <1>2 DEF Elems
  <2> QED BY <2>1, <2>2
<1> QED BY <1>1, <1>2, <1>3

-------------------------------------------------------------------------------
(* Every set of numbers has a least one, and so a finite set can be listed   *)
(* in ascending order.                                                       *)
LEMMA Least == ASSUME NEW T \in SUBSET Nat, T # {} PROVE \E x \in T : \A y \in T : x <= y
<1> DEFINE R == OpToRel(<, Nat)
<1>1. IsWellFoundedOn(R, Nat)
  BY NatLessThanWellFounded
<1>2. \A x, y \in Nat : x < y => <<x, y>> \in R
  BY DEF OpToRel
<1> HIDE DEF R
<1>3. PICK x \in T : \A y \in T : ~(<<y, x>> \in R)
  BY <1>1, WFMin
<1>4. ASSUME NEW y \in T PROVE x <= y
  <2>1. ~(y < x)
    BY <1>2, <1>3
  <2> QED BY <2>1
<1> QED BY <1>4

Lists(s, S) ==
    /\ s \in [1..Cardinality(S) -> S]
    /\ \A i, j \in DOMAIN s : i < j => s[i] < s[j]

LEMMA Listed == ASSUME NEW S \in SUBSET Nat, IsFiniteSet(S) PROVE \E s : Lists(s, S)
<1> DEFINE Bad == {n \in Nat : \E T \in SUBSET Nat : IsFiniteSet(T) /\ Cardinality(T) = n /\ ~\E s : Lists(s, T)}
<1>1. SUFFICES ASSUME Bad # {} PROVE FALSE
  <2>1. Cardinality(S) \in Nat
    BY FS_CardinalityType
  <2> QED BY <2>1
<1>2. PICK n \in Bad : \A k \in Bad : n <= k
  BY <1>1, Least
<1>3. PICK T \in SUBSET Nat : IsFiniteSet(T) /\ Cardinality(T) = n /\ ~\E s : Lists(s, T)
  BY <1>2
<1>4. n \in Nat
  BY <1>2
<1>5. CASE T = {}
  <2>1. n = 0
    BY <1>3, <1>5, FS_EmptySet
  <2>2. Lists([i \in 1..0 |-> 0], T)
    BY <1>3, <2>1, <1>5 DEF Lists
  <2> QED BY <1>3, <2>2
<1>6. CASE T # {}
  <2>1. PICK m \in T : \A y \in T : m <= y
    BY <1>6, Least
  <2> DEFINE U == T \ {m}
  <2>2. IsFiniteSet(U) /\ Cardinality(U) = n - 1
    BY <1>3, <2>1, FS_RemoveElement
  <2>3. n - 1 \in Nat
    BY <2>2, FS_CardinalityType
  <2>4. n - 1 \notin Bad
    BY <1>2, <1>4, <2>3
  <2>5. PICK u : Lists(u, U)
    BY <2>2, <2>3, <2>4
  <2>6. u \in [1..n - 1 -> U] /\ \A i, j \in 1..n - 1 : i < j => u[i] < u[j]
    BY <2>2, <2>5 DEF Lists
  <2> DEFINE s == [i \in 1..n |-> IF i = 1 THEN m ELSE u[i - 1]]
  <2>7. \A i \in 1..n : i = 1 \/ (i - 1 \in 1..n - 1 /\ s[i] = u[i - 1] /\ u[i - 1] \in U)
    BY <1>4, <2>6
  <2>8. s \in [1..n -> T]
    BY <2>1, <2>7
  <2>9. ASSUME NEW i \in 1..n, NEW j \in 1..n, i < j PROVE s[i] < s[j]
    <3>1. j # 1 /\ j - 1 \in 1..n - 1 /\ s[j] = u[j - 1] /\ u[j - 1] \in U
      BY <2>7, <2>9, <1>4
    <3>2. CASE i = 1
      <4>1. s[i] = m /\ u[j - 1] # m /\ m <= u[j - 1] /\ m \in Nat /\ u[j - 1] \in Nat
        BY <3>1, <3>2, <2>1
      <4> QED BY <3>1, <4>1
    <3>3. CASE i # 1
      <4>1. i - 1 \in 1..n - 1 /\ s[i] = u[i - 1]
        BY <2>7, <3>3
      <4>2. i - 1 < j - 1
        BY <2>9, <1>4
      <4> QED BY <2>6, <3>1, <4>1, <4>2
    <3> QED BY <3>2, <3>3
  <2>10. Lists(s, T)
    BY <1>3, <2>8, <2>9 DEF Lists
  <2> QED BY <1>3, <2>10
<1> QED BY <1>5, <1>6

(* What the instance calls finite and counts is that.                        *)
LEMMA SameSets == \A S : /\ Registers!IsFiniteSet(S) <=> IsFiniteSet(S)
                         /\ Registers!Lane!Cardinality(S) = Cardinality(S)
<1>1. \A S : Registers!IsFiniteSet(S) <=> IsFiniteSet(S)
  BY DEF Registers!IsFiniteSet, IsFiniteSet
<1>2. \A S : Registers!Lane!Cardinality(S) = Cardinality(S)
  BY Zenon DEF Registers!Lane!Cardinality, Cardinality
<1> QED BY <1>1, <1>2

(* The lanes of a mask in ascending order: each of them, and no other.       *)
LEMMA AscendingOf ==
    ASSUME NEW m \in SUBSET Lanes
    PROVE  /\ Cardinality(m) \in Nat
           /\ Registers!Lane!Ascending(m) \in [1..Cardinality(m) -> m]
           /\ \A l \in m : \E i \in 1..Cardinality(m) : Registers!Lane!Ascending(m)[i] = l
<1> DEFINE s == Registers!Lane!Ascending(m) n == Cardinality(m)
<1>1. m \in SUBSET Nat /\ IsFiniteSet(m)
  BY PartsAssumption, SameSets, FS_Subset DEF Registers!RegisterAssumption
<1>2. n \in Nat
  BY <1>1, FS_CardinalityType
<1>3. Lists(s, m)
  <2>1. \E x : Lists(x, m)
    BY <1>1, Listed
  <2> QED BY <2>1, SameSets DEF Lists, Registers!Lane!Ascending
<1>4. s \in [1..n -> m] /\ \A i, j \in 1..n : i < j => s[i] < s[j]
  BY <1>3 DEF Lists
<1> HIDE DEF s
<1>5. s \in Injection(1..n, m)
  <2>1. ASSUME NEW i \in 1..n, NEW j \in 1..n, s[i] = s[j] PROVE i = j
    <3>1. s[i] \in Nat /\ s[j] \in Nat
      BY <1>1, <1>4
    <3>2. ~(i < j) /\ ~(j < i)
      BY <1>4, <2>1, <3>1
    <3> QED BY <1>2, <3>2
  <2> QED BY <1>4, <2>1 DEF Injection, IsInjective
<1>6. s \in Surjection(1..n, m)
  <2>1. Cardinality(1..n) = n
    BY <1>2, FS_Interval
  <2> QED BY <1>1, <1>5, <2>1, FS_Injection
<1>7. \A l \in m : \E i \in 1..n : s[i] = l
  BY <1>6 DEF Surjection
<1> QED BY <1>2, <1>4, <1>7 DEF s

-------------------------------------------------------------------------------
(***************************************************************************)
(* The calls on registers.                                                 *)
(***************************************************************************)
Contents == 0..9
Fillings == {<<>>} \cup UNION {[S -> Contents] : S \in SUBSET Nat}
Regs(f) == DOMAIN Registers!Fresh(f)
FieldsOf(f, r) == DOMAIN Registers!Fresh(f)[r]
Holding(f, r) == [FieldsOf(f, r) -> Contents]

Made(do, r, v, fails) == [do |-> do, reg |-> r, val |-> v, fails |-> fails]
Names ==
    {"none", "mux", "auto", "hyst", "ident", "cursor", "count", "mode", "target", "prbs", "ptype", "loop", "type", "sync", "ber",
     "eye", "adv", "tx", "rx", "hostIn", "hostOut", "mediaIn", "mediaOut", "mstate", "ctrl", "deinit", "app", "dp", "config",
     "apply", "rxsi", "txsi"}
Accesses ==
    [do : {"put", "merge", "aim", "start", "get", "need", "await", "lock", "unlock", "raise"}, reg : Names,
     val : Fillings, fails : {"stop", "ignore", "never"}]
Tasks == [kind : {"nothing", "set", "measured"}, reg : Names, val : Fillings]
Works ==
    [todo : Seq(Accesses), goal : Tasks, got : Fillings, outer : Threads \cup {Nobody}, alone : BOOLEAN,
     blind : BOOLEAN, returned : {"nothing", "ok", "blind", "error"}]

(* An access has to do with registers that are there. *)
Fits(f, a) ==
    /\ a.do \in {"put", "merge"} /\ a.reg \in Regs(f) => DOMAIN a.val \subseteq FieldsOf(f, a.reg)
    /\ a.do \in {"merge", "aim", "start", "get", "need", "await"} => a.reg \in Regs(f)
    /\ a.do = "aim" => a.reg \in {"prbs", "loop"} /\ "target" \in Regs(f)
    /\ a.do \in {"aim", "start"} => 0 \in DOMAIN a.val
    /\ a.do = "start" => a.reg \in Registers!Measurements
    /\ a.reg \in Registers!Measurements => a.do \notin {"put", "merge", "aim"}
    /\ a.reg = "target" => a.do = "put" /\ DOMAIN a.val = {0} /\ a.val[0] \in Ends
    /\ a.reg = "apply" => a.do = "put" /\ DOMAIN a.val = {0} /\ a.val[0] \in {0, 1}
Fitting(f) == {a \in Accesses : Fits(f, a)}

(* What is merged was read just before, what a lock was taken for was read   *)
(* just before it is released, and the end is chosen first.                  *)
Precedes(a, b) ==
    /\ b.do = "merge" => a.do = "get" /\ a.reg = b.reg /\ a.fails = "stop"
    /\ b.do = "unlock" => a.do = "get"
    /\ b.do # "lock"
    /\ b.reg = "target" => a.do = "lock"

(* What an access does to the fields that a call is to set. *)
Touches(g, a) == a.do \in Registers!Writes /\ a.reg = g.reg
Right(g, a, k) ==
    /\ Touches(g, a)
    /\ a.do \in {"put", "merge"} => k \in DOMAIN a.val /\ a.val[k] = g.val[k]
    /\ a.do = "aim" => a.val[0] = g.val[k]
Wrong(g, a, k) ==
    /\ Touches(g, a)
    /\ \/ a.do \in {"put", "merge"} /\ k \in DOMAIN a.val /\ a.val[k] # g.val[k]
       \/ a.do = "aim" /\ a.val[0] # g.val[k]

(* A call that sets fields writes no others of that register, and what it    *)
(* writes wrong it sets right later.                                         *)
Within(g, a) ==
    /\ a.do \notin {"lock", "unlock"}
    /\ Touches(g, a) /\ a.do \in {"put", "merge"} => DOMAIN a.val \subseteq DOMAIN g.val
    /\ a.do = "aim" => a.reg = g.reg
    /\ a.reg = "target" => DOMAIN g.val = {a.val[0]} /\ a.fails = "stop"
Corrected(g, s) ==
    \A i \in 1..Len(s) : \A k \in DOMAIN g.val : Wrong(g, s[i], k) => \E j \in i + 1..Len(s) : Right(g, s[j], k)
Setting(f, g, s) ==
    /\ g.reg \in Regs(f) \ (Registers!Measurements \cup {"target"}) /\ DOMAIN g.val \subseteq FieldsOf(f, g.reg)
    /\ \A a \in Elems(s) : Within(g, a)
    /\ Corrected(g, s)

(* A measurement is one access after the other. *)
MeasuringStep(g, a) ==
    /\ a.fails = "stop"
    /\ \/ a.do \in {"lock", "unlock"} /\ g.reg = "eye"
       \/ a.do = "put" /\ a.reg = "target" /\ a.val[0] = g.val[0]
       \/ a.do = "start" /\ a.reg = g.reg /\ (g.reg = "type" => a.val[0] = g.val[0])
       \/ a.do = "await" /\ a.reg = g.reg /\ a.val = [x \in {0} |-> 1]
       \/ a.do = "get" /\ a.reg = g.reg
NextMeasuring(a, b) ==
    \/ a.do = "lock" /\ b.do = "put"
    \/ a.do = "put" /\ b.do = "start"
    \/ a.do = "start" /\ b.do = "await"
    \/ a.do = "await" /\ b.do = "get"
    \/ a.do = "get" /\ b.do = "unlock"
Measuring(f, g, s) ==
    /\ g.reg \in Registers!Measurements \cap Regs(f) /\ DOMAIN g.val = {0}
    /\ \A a \in Elems(s) : MeasuringStep(g, a)
    /\ \A i \in 1..Len(s) - 1 : NextMeasuring(s[i], s[i + 1])
    /\ s # <<>> => s[Len(s)].do \in {"get", "unlock"}

(* A loopback is written last. *)
Opposite(r) == IF r \in Registers!Lane!Host THEN Registers!Lane!Media ELSE Registers!Lane!Host
Row(v) == [l \in Lanes |-> v]
LoopingStep(g, a) == a.do \in Registers!Writes => a.do = "merge" /\ a.reg = g.reg /\ a.val = g.val
Looks(o, a) == a.do = "need" /\ a.reg = o /\ a.val = Row(0)
Looping(g, s) ==
    /\ g.kind = "set" /\ g.reg \in Registers!Lane!Host \cup Registers!Lane!Media /\ g.val \in {Row(0), Row(1)}
    /\ \A a \in Elems(s) : LoopingStep(g, a)
    /\ \A i \in 1..Len(s) - 1 : s[i].do \notin Registers!Writes

Shaped(f, g, s) ==
    /\ s \in Seq(Fitting(f))
    /\ \A i \in 1..Len(s) - 1 : Precedes(s[i], s[i + 1])
    /\ s # <<>> => s[Len(s)].do # "lock"
    /\ \A a \in Elems(s) : /\ a.do \in {"lock", "unlock"} => g.reg = "eye"
                           /\ f \in {"mux", "flaps"} => a.do # "merge"
    /\ g.reg = "eye" => g.kind = "measured"
    /\ g.kind = "set" => Setting(f, g, s)
    /\ g.kind = "measured" => Measuring(f, g, s)
    /\ f = "either_side" => Looping(g, s)

(* A call when it begins. *)
Whole(d, f, g, s) ==
    /\ g \in Tasks /\ s # <<>> /\ Shaped(f, g, s)
    /\ s[1].do \notin {"merge", "unlock"}
    /\ g.kind = "set" =>
        /\ \A k \in DOMAIN g.val : \E a \in Elems(s) : Right(g, a, k)
        /\ (\E a \in Elems(s) : a.do = "aim") => s[1].reg = "target"
    /\ g.kind = "measured" => s[1].do \in {"lock", "put"} \/ (s[1].do = "start" /\ g.reg = "type")
    /\ d = "credo" /\ g.reg = "eye" => s[1].do = "lock"
    /\ f = "either_side" => \A o \in Opposite(g.reg) : \E a \in Elems(s) : Looks(o, a)

(* How far a call has come. *)
GotRead(t) ==
    LET w == run[t]
        a == Head(w.todo)
    IN a.do = "merge" =>
        /\ w.got \in Holding(family, a.reg)
        /\ w.alone /\ a.reg = w.goal.reg => w.got = reg[a.reg]
GotSet(t) ==
    LET w == run[t]
        g == w.goal
    IN g.kind = "set" /\ w.alone =>
        /\ (\E a \in Elems(w.todo) : a.do = "aim") /\ Head(w.todo).reg # "target" => DOMAIN g.val = {reg["target"][0]}
        /\ ~w.blind => \A k \in DOMAIN g.val : (\E a \in Elems(w.todo) : Right(g, a, k)) \/ reg[g.reg][k] = g.val[k]
GotMeasured(t) ==
    LET w == run[t]
        g == w.goal
        h == Head(w.todo).do
    IN g.kind = "measured" /\ w.alone =>
        /\ h \notin {"lock", "put"} /\ g.reg # "type" => reg["target"][0] = g.val[0]
        /\ h \in {"await", "get"} /\ g.reg = "type" => reg["type"][1] = g.val[0]
        /\ h = "await" => (reg[g.reg][2] # 1 => reg[g.reg][1] = Registers!Asked(g))
        /\ h = "get" => reg[g.reg][2] # 1 /\ reg[g.reg][1] = Registers!Asked(g)
        /\ h = "unlock" => w.got[1] = g.val[0]
GotLoops(t) ==
    LET w == run[t]
        g == w.goal
    IN family = "either_side" /\ w.alone /\ ~w.blind /\ g.val # Row(0) =>
        \A o \in Opposite(g.reg) : (\E a \in Elems(w.todo) : Looks(o, a)) \/ reg[o] = Row(0)
Inside(t) == driver = "credo" /\ run[t].goal.reg = "eye" /\ run[t].todo # <<>> /\ Head(run[t].todo).do # "lock"

Sane(t) ==
    /\ run[t].outer \in {t, Nobody}
    /\ run[t].todo = <<>> => run[t] = Registers!Returned(run[t].returned)
    /\ run[t].todo # <<>> => /\ Shaped(family, run[t].goal, run[t].todo)
                             /\ GotRead(t) /\ GotSet(t) /\ GotMeasured(t) /\ GotLoops(t)
    /\ Inside(t) => holder = t

RegisterContents ==
    /\ DOMAIN reg = Regs(family)
    /\ \A r \in Regs(family) : reg[r] \in Holding(family, r)
    /\ "target" \in Regs(family) => reg["target"][0] \in Ends
    /\ "apply" \in Regs(family) => reg["apply"][0] \in {0, 1}
    /\ \A r \in Regs(family) \cap Registers!Measurements : reg[r][0] = 1 => reg[r][2] # 1
RegisterInv ==
    /\ driver \in Registers!Drivers /\ family \in Registers!Families(driver)
    /\ holder \in Threads \cup {Nobody} /\ run \in [Threads -> Works]
    /\ RegisterContents
    /\ \A t \in Threads : Sane(t)

-------------------------------------------------------------------------------
(* The registers of each family. *)
At0(v) == [x \in {0} |-> v]
Measure0 == [x \in {0, 1, 2} |-> IF x = 1 THEN 9 ELSE 0]
Same(S, v) == [x \in S |-> v]

LEMMA CableRegisters ==
    /\ Registers!Fresh("mux") = [r \in {"mux", "auto", "hyst"} |-> At0(0)]
    /\ Registers!Fresh("facts") =
           [r \in {"ident", "cursor", "count"} |-> IF r = "cursor" THEN Same({0, 1}, 0) ELSE At0(1)]
    /\ Registers!Fresh("flaps") = [r \in {"count"} |-> At0(1)]
    /\ Registers!Fresh("counts") = [r \in {"count", "type"} |-> IF r = "count" THEN Same(0..2, 1) ELSE Measure0]
    /\ Registers!Fresh("mode") = [r \in {"mode"} |-> Same({0, 1, 3, 4, 6}, 0)]
    /\ Registers!Fresh("prbs") =
           [r \in {"target", "prbs", "ptype", "eye"} |->
               IF r = "prbs" THEN Same(Ends, 0) ELSE IF r = "eye" THEN Measure0 ELSE At0(0)]
    /\ Registers!Fresh("loop") =
           [r \in {"target", "loop", "sync", "ber"} |->
               IF r = "loop" THEN Same(Ends, 0) ELSE IF r = "target" THEN At0(0) ELSE Measure0]
    /\ Registers!Fresh("ber") =
           [r \in {"target", "ber", "eye"} |-> IF r = "target" THEN At0(0) ELSE Measure0]
<1>1. /\ \A v : Registers!One(v) = At0(v)
      /\ \A S, v : Registers!All(S, v) = Same(S, v)
      /\ Registers!Measurement = Measure0
  <2>1. \A v : Registers!One(v) = At0(v)
    BY DEF Registers!One, At0, Registers!:>
  <2>2. \A S, v : Registers!All(S, v) = Same(S, v)
    BY DEF Registers!All, Same
  <2>3. Registers!Measurement = Measure0
    BY DEF Registers!Measurement, Measure0, Registers!:>, Registers!@@, Registers!NoResult
  <2> QED BY <2>1, <2>2, <2>3
<1>2. Registers!Fresh("mux") = [r \in {"mux", "auto", "hyst"} |-> At0(0)]
  BY <1>1 DEF Registers!Fresh
<1>3. Registers!Fresh("facts") =
           [r \in {"ident", "cursor", "count"} |-> IF r = "cursor" THEN Same({0, 1}, 0) ELSE At0(1)]
  BY <1>1 DEF Registers!Fresh, Registers!:>, Registers!@@
<1>4. Registers!Fresh("flaps") = [r \in {"count"} |-> At0(1)]
  BY <1>1 DEF Registers!Fresh, Registers!:>
<1>5. Registers!Fresh("counts") = [r \in {"count", "type"} |-> IF r = "count" THEN Same(0..2, 1) ELSE Measure0]
  BY <1>1 DEF Registers!Fresh, Registers!:>, Registers!@@
<1>6. Registers!Fresh("mode") = [r \in {"mode"} |-> Same({0, 1, 3, 4, 6}, 0)]
  BY <1>1 DEF Registers!Fresh, Registers!:>
<1>7. Registers!Fresh("prbs") =
           [r \in {"target", "prbs", "ptype", "eye"} |->
               IF r = "prbs" THEN Same(Ends, 0) ELSE IF r = "eye" THEN Measure0 ELSE At0(0)]
  BY <1>1 DEF Registers!Fresh, Registers!:>, Registers!@@
<1>8. Registers!Fresh("loop") =
           [r \in {"target", "loop", "sync", "ber"} |->
               IF r = "loop" THEN Same(Ends, 0) ELSE IF r = "target" THEN At0(0) ELSE Measure0]
  BY <1>1 DEF Registers!Fresh, Registers!:>, Registers!@@
<1>9. Registers!Fresh("ber") =
           [r \in {"target", "ber", "eye"} |-> IF r = "target" THEN At0(0) ELSE Measure0]
  BY <1>1 DEF Registers!Fresh, Registers!:>, Registers!@@
<1> QED BY <1>2, <1>3, <1>4, <1>5, <1>6, <1>7, <1>8, <1>9

LEMMA LaneRegisters ==
    /\ \A f \in {"tx", "rx"} : Registers!Fresh(f) = [r \in {"adv", f} |-> IF r = "adv" THEN At0(1) ELSE Row(0)]
    /\ \A f \in {"either_side", "both_sides"} :
           Registers!Fresh(f) = [r \in {"adv", "hostIn", "hostOut", "mediaIn", "mediaOut"} |->
                                    IF r = "adv" THEN At0(1) ELSE Row(0)]
    /\ Registers!Fresh("power") =
           [r \in {"adv", "mstate", "ctrl"} |->
               IF r = "adv" THEN At0(1)
               ELSE IF r = "mstate" THEN [x \in {0, 1} |-> 1 - x] ELSE [x \in {3, 4, 6} |-> IF x = 6 THEN 1 ELSE 0]]
    /\ \A f \in {"datapath_4", "datapath_3"} :
           Registers!Fresh(f) = [r \in {"adv", "deinit"} |-> IF r = "adv" THEN At0(1) ELSE Row(0)]
    /\ Registers!Fresh("application") =
           [r \in {"adv", "deinit", "app", "dp", "config", "apply"} |->
               IF r = "adv" THEN At0(1) ELSE IF r = "apply" THEN At0(0) ELSE IF r = "config" THEN Row(1) ELSE Row(0)]
    /\ Registers!Fresh("staging") = [r \in {"adv", "rxsi", "txsi"} |-> IF r = "adv" THEN At0(1) ELSE Row(0)]
<1>1. /\ \A v : Registers!Lane!One(v) = At0(v)
      /\ \A v : Registers!Lane!All(Lanes, v) = Row(v)
      /\ Registers!Lane!Off = 0 /\ Registers!Lane!On = 1 /\ Registers!Lane!ModuleReady = 1 /\ Registers!Lane!Moving = 1
      /\ Registers!Lane!ResetBit = 3 /\ Registers!Lane!LowPwrRequestSW = 4 /\ Registers!Lane!LowPwrAllowRequestHW = 6
      /\ Registers!Lane!Host \cup Registers!Lane!Media = {"hostIn", "hostOut", "mediaIn", "mediaOut"}
  BY DEF Registers!Lane!One, At0, Registers!Lane!:>, Registers!Lane!All, Row, Registers!Lane!Off, Registers!Lane!On,
     Registers!Lane!ModuleReady, Registers!Lane!Moving, Registers!Lane!ResetBit, Registers!Lane!LowPwrRequestSW,
     Registers!Lane!LowPwrAllowRequestHW, Registers!Lane!Host, Registers!Lane!Media
<1>2. ASSUME NEW f \in {"tx", "rx", "either_side", "both_sides", "power", "datapath_4", "datapath_3", "application", "staging"}
      PROVE  Registers!Fresh(f) = Registers!Lane!Fresh(f)
  BY DEF Registers!Fresh
<1>3. \A f \in {"tx", "rx"} : Registers!Lane!Fresh(f) = [r \in {"adv", f} |-> IF r = "adv" THEN At0(1) ELSE Row(0)]
  BY <1>1 DEF Registers!Lane!Fresh, Registers!Lane!:>, Registers!Lane!@@
<1>4. \A f \in {"either_side", "both_sides"} :
           Registers!Lane!Fresh(f) = [r \in {"adv", "hostIn", "hostOut", "mediaIn", "mediaOut"} |->
                                    IF r = "adv" THEN At0(1) ELSE Row(0)]
  <2>1. ASSUME NEW f \in {"either_side", "both_sides"}
        PROVE  Registers!Lane!Fresh(f) = [r \in {"adv", "hostIn", "hostOut", "mediaIn", "mediaOut"} |->
                                             IF r = "adv" THEN At0(1) ELSE Row(0)]
    <3> DEFINE rows == [r \in {"hostIn", "hostOut", "mediaIn", "mediaOut"} |-> Row(0)]
    <3>1. [r \in Registers!Lane!Host \cup Registers!Lane!Media |-> Registers!Lane!All(Lanes, 0)] = rows
      BY <1>1
    <3>2. Registers!Lane!Fresh(f) = [r \in {"adv"} \cup DOMAIN rows |-> IF r \in {"adv"} THEN At0(1) ELSE rows[r]]
      BY <1>1, <3>1 DEF Registers!Lane!Fresh, Registers!Lane!:>, Registers!Lane!@@
    <3> QED BY <3>2
  <2> QED BY <2>1
<1>5. Registers!Lane!Fresh("power") =
           [r \in {"adv", "mstate", "ctrl"} |->
               IF r = "adv" THEN At0(1)
               ELSE IF r = "mstate" THEN [x \in {0, 1} |-> 1 - x] ELSE [x \in {3, 4, 6} |-> IF x = 6 THEN 1 ELSE 0]]
  BY <1>1 DEF Registers!Lane!Fresh, Registers!Lane!:>, Registers!Lane!@@
<1>6. \A f \in {"datapath_4", "datapath_3"} :
           Registers!Lane!Fresh(f) = [r \in {"adv", "deinit"} |-> IF r = "adv" THEN At0(1) ELSE Row(0)]
  BY <1>1 DEF Registers!Lane!Fresh, Registers!Lane!:>, Registers!Lane!@@
<1>7. Registers!Lane!Fresh("application") =
           [r \in {"adv", "deinit", "app", "dp", "config", "apply"} |->
               IF r = "adv" THEN At0(1) ELSE IF r = "apply" THEN At0(0) ELSE IF r = "config" THEN Row(1) ELSE Row(0)]
  BY <1>1 DEF Registers!Lane!Fresh, Registers!Lane!:>, Registers!Lane!@@
<1>8. Registers!Lane!Fresh("staging") = [r \in {"adv", "rxsi", "txsi"} |-> IF r = "adv" THEN At0(1) ELSE Row(0)]
  BY <1>1 DEF Registers!Lane!Fresh, Registers!Lane!:>, Registers!Lane!@@
<1> QED BY <1>2, <1>3, <1>4, <1>5, <1>6, <1>7, <1>8

-------------------------------------------------------------------------------
(* What the registers of a family have in common. *)
CableFamilies == {"mux", "facts", "flaps", "counts", "mode", "prbs", "loop", "ber"}
LaneFamilies == {"tx", "rx", "either_side", "both_sides", "power", "datapath_4", "datapath_3", "application", "staging"}
Furnished(f) ==
    /\ "none" \notin Regs(f)
    /\ \A r \in Regs(f) : FieldsOf(f, r) \subseteq Nat /\ Registers!Fresh(f)[r] \in Holding(f, r)
    /\ "target" \in Regs(f) => FieldsOf(f, "target") = {0} /\ Registers!Fresh(f)["target"][0] = 0
    /\ \A r \in Regs(f) \cap Registers!Measurements :
        /\ FieldsOf(f, r) = {0, 1, 2} /\ Registers!Fresh(f)[r][0] = 0
        /\ r # "type" => "target" \in Regs(f)
        /\ r = "sync" => "loop" \in Regs(f)
    /\ \A r \in Regs(f) \cap {"prbs", "loop"} : FieldsOf(f, r) = Ends
Plain(f) == \A r \in Regs(f) : r \notin Registers!Measurements \cup {"target", "prbs", "loop"}

(* A family is furnished when each of its registers is. *)
Filled(x) == \E S \in SUBSET Nat : x \in [S -> Contents]
Furnishing(f, r, x) ==
    /\ r # "none" /\ Filled(x)
    /\ r = "target" => x = At0(0)
    /\ r \in {"prbs", "loop"} => x = Same(Ends, 0)
    /\ r \in Registers!Measurements => x = Measure0
LEMMA FurnishedBy ==
    ASSUME NEW f, \A r \in Regs(f) : Furnishing(f, r, Registers!Fresh(f)[r]),
           \A r \in Regs(f) \cap Registers!Measurements : r # "type" => "target" \in Regs(f),
           "sync" \in Regs(f) => "loop" \in Regs(f)
    PROVE  Furnished(f)
<1> DEFINE x(r) == Registers!Fresh(f)[r]
<1>1. "none" \notin Regs(f)
  BY DEF Furnishing
<1>2. ASSUME NEW r \in Regs(f) PROVE FieldsOf(f, r) \subseteq Nat /\ x(r) \in Holding(f, r)
  BY DEF Furnishing, Filled, FieldsOf, Holding
<1>3. ASSUME "target" \in Regs(f) PROVE FieldsOf(f, "target") = {0} /\ x("target")[0] = 0
  BY <1>3 DEF Furnishing, FieldsOf, At0
<1>4. ASSUME NEW r \in Regs(f) \cap Registers!Measurements PROVE FieldsOf(f, r) = {0, 1, 2} /\ x(r)[0] = 0
  <2>1. x(r) = Measure0
    BY <1>4 DEF Furnishing
  <2>2. DOMAIN Measure0 = {0, 1, 2} /\ Measure0[0] = 0
    BY DEF Measure0
  <2> QED BY <2>1, <2>2 DEF FieldsOf
<1>5. ASSUME NEW r \in Regs(f) \cap {"prbs", "loop"} PROVE FieldsOf(f, r) = Ends
  BY <1>5 DEF Furnishing, FieldsOf, Same
<1> HIDE DEF x
<1> QED BY <1>1, <1>2, <1>3, <1>4, <1>5 DEF Furnished, x

LEMMA Fillers ==
    /\ Filled(At0(0)) /\ Filled(At0(1)) /\ Filled(Measure0) /\ Filled(Same(Ends, 0)) /\ Filled(Row(0)) /\ Filled(Row(1))
    /\ Filled(Same({0, 1}, 0)) /\ Filled(Same(0..2, 1)) /\ Filled(Same({0, 1, 3, 4, 6}, 0))
    /\ Filled([x \in {0, 1} |-> 1 - x]) /\ Filled([x \in {3, 4, 6} |-> IF x = 6 THEN 1 ELSE 0])
<1>1. \A S \in SUBSET Nat : \A v \in 0..9 : Filled(Same(S, v))
  BY DEF Same, Filled, Contents
<1>2. Ends \subseteq Nat /\ Lanes \subseteq Nat
  BY PartsAssumption DEF Registers!RegisterAssumption
<1>3. Filled(Same(Ends, 0)) /\ Filled(Same({0, 1}, 0)) /\ Filled(Same(0..2, 1)) /\ Filled(Same({0, 1, 3, 4, 6}, 0))
  BY <1>1, <1>2
<1>4. Filled(Row(0)) /\ Filled(Row(1))
  <2>1. Row(0) = Same(Lanes, 0) /\ Row(1) = Same(Lanes, 1)
    BY DEF Row, Same
  <2> QED BY <1>1, <1>2, <2>1
<1>5. Filled(At0(0)) /\ Filled(At0(1))
  <2>1. At0(0) = Same({0}, 0) /\ At0(1) = Same({0}, 1)
    BY DEF At0, Same
  <2> QED BY <1>1, <2>1
<1>6. Filled(Measure0)
  <2>1. Measure0 \in [{0, 1, 2} -> Contents] /\ {0, 1, 2} \in SUBSET Nat
    BY DEF Measure0, Contents
  <2> QED BY <2>1 DEF Filled
<1>7. Filled([x \in {0, 1} |-> 1 - x])
  <2>1. [x \in {0, 1} |-> 1 - x] \in [{0, 1} -> Contents] /\ {0, 1} \in SUBSET Nat
    BY DEF Contents
  <2> QED BY <2>1 DEF Filled
<1>8. Filled([x \in {3, 4, 6} |-> IF x = 6 THEN 1 ELSE 0])
  <2>1. [x \in {3, 4, 6} |-> IF x = 6 THEN 1 ELSE 0] \in [{3, 4, 6} -> Contents] /\ {3, 4, 6} \in SUBSET Nat
    BY DEF Contents
  <2> QED BY <2>1 DEF Filled
<1> QED BY <1>3, <1>4, <1>5, <1>6, <1>7, <1>8

LEMMA CableFurnished == \A f \in CableFamilies : Furnished(f) /\ (f \in {"mux", "flaps"} => Plain(f))
<1>1. Furnished("mux") /\ Plain("mux")
  <2>1. \A r \in Regs("mux") : Furnishing("mux", r, Registers!Fresh("mux")[r])
    BY CableRegisters, Fillers DEF Furnishing, Regs, Registers!Measurements
  <2>2. /\ \A r \in Regs("mux") \cap Registers!Measurements : r # "type" => "target" \in Regs("mux")
        /\ "sync" \in Regs("mux") => "loop" \in Regs("mux")
    BY CableRegisters DEF Regs, Registers!Measurements
  <2>3. Plain("mux")
    BY CableRegisters DEF Plain, Regs, Registers!Measurements
  <2> QED BY <2>1, <2>2, <2>3, FurnishedBy
<1>2. Furnished("facts")
  <2>1. \A r \in Regs("facts") : Furnishing("facts", r, Registers!Fresh("facts")[r])
    BY CableRegisters, Fillers DEF Furnishing, Regs, Registers!Measurements
  <2>2. /\ \A r \in Regs("facts") \cap Registers!Measurements : r # "type" => "target" \in Regs("facts")
        /\ "sync" \in Regs("facts") => "loop" \in Regs("facts")
    BY CableRegisters DEF Regs, Registers!Measurements
  <2> QED BY <2>1, <2>2, FurnishedBy
<1>3. Furnished("flaps") /\ Plain("flaps")
  <2>1. \A r \in Regs("flaps") : Furnishing("flaps", r, Registers!Fresh("flaps")[r])
    BY CableRegisters, Fillers DEF Furnishing, Regs, Registers!Measurements
  <2>2. /\ \A r \in Regs("flaps") \cap Registers!Measurements : r # "type" => "target" \in Regs("flaps")
        /\ "sync" \in Regs("flaps") => "loop" \in Regs("flaps")
    BY CableRegisters DEF Regs, Registers!Measurements
  <2>3. Plain("flaps")
    BY CableRegisters DEF Plain, Regs, Registers!Measurements
  <2> QED BY <2>1, <2>2, <2>3, FurnishedBy
<1>4. Furnished("counts")
  <2>1. \A r \in Regs("counts") : Furnishing("counts", r, Registers!Fresh("counts")[r])
    BY CableRegisters, Fillers DEF Furnishing, Regs, Registers!Measurements
  <2>2. /\ \A r \in Regs("counts") \cap Registers!Measurements : r # "type" => "target" \in Regs("counts")
        /\ "sync" \in Regs("counts") => "loop" \in Regs("counts")
    BY CableRegisters DEF Regs, Registers!Measurements
  <2> QED BY <2>1, <2>2, FurnishedBy
<1>5. Furnished("mode")
  <2>1. \A r \in Regs("mode") : Furnishing("mode", r, Registers!Fresh("mode")[r])
    BY CableRegisters, Fillers DEF Furnishing, Regs, Registers!Measurements
  <2>2. /\ \A r \in Regs("mode") \cap Registers!Measurements : r # "type" => "target" \in Regs("mode")
        /\ "sync" \in Regs("mode") => "loop" \in Regs("mode")
    BY CableRegisters DEF Regs, Registers!Measurements
  <2> QED BY <2>1, <2>2, FurnishedBy
<1>6. Furnished("prbs")
  <2>1. \A r \in Regs("prbs") : Furnishing("prbs", r, Registers!Fresh("prbs")[r])
    BY CableRegisters, Fillers DEF Furnishing, Regs, Registers!Measurements
  <2>2. /\ \A r \in Regs("prbs") \cap Registers!Measurements : r # "type" => "target" \in Regs("prbs")
        /\ "sync" \in Regs("prbs") => "loop" \in Regs("prbs")
    BY CableRegisters DEF Regs, Registers!Measurements
  <2> QED BY <2>1, <2>2, FurnishedBy
<1>7. Furnished("loop")
  <2>1. \A r \in Regs("loop") : Furnishing("loop", r, Registers!Fresh("loop")[r])
    BY CableRegisters, Fillers DEF Furnishing, Regs, Registers!Measurements
  <2>2. /\ \A r \in Regs("loop") \cap Registers!Measurements : r # "type" => "target" \in Regs("loop")
        /\ "sync" \in Regs("loop") => "loop" \in Regs("loop")
    BY CableRegisters DEF Regs, Registers!Measurements
  <2> QED BY <2>1, <2>2, FurnishedBy
<1>8. Furnished("ber")
  <2>1. \A r \in Regs("ber") : Furnishing("ber", r, Registers!Fresh("ber")[r])
    BY CableRegisters, Fillers DEF Furnishing, Regs, Registers!Measurements
  <2>2. /\ \A r \in Regs("ber") \cap Registers!Measurements : r # "type" => "target" \in Regs("ber")
        /\ "sync" \in Regs("ber") => "loop" \in Regs("ber")
    BY CableRegisters DEF Regs, Registers!Measurements
  <2> QED BY <2>1, <2>2, FurnishedBy
<1> QED BY <1>1, <1>2, <1>3, <1>4, <1>5, <1>6, <1>7, <1>8 DEF CableFamilies

LEMMA LaneFurnished == \A f \in LaneFamilies : Furnished(f) /\ Plain(f)
<1>1. ASSUME NEW f \in {"tx", "rx"} PROVE Furnished(f) /\ Plain(f)
  <2>0. Registers!Fresh(f) = [r \in {"adv", f} |-> IF r = "adv" THEN At0(1) ELSE Row(0)]
    BY LaneRegisters
  <2>1. \A r \in Regs(f) : r \notin Registers!Measurements \cup {"target", "prbs", "loop", "none"}
    BY <2>0 DEF Regs, Registers!Measurements
  <2>2. \A r \in Regs(f) : Filled(Registers!Fresh(f)[r])
    BY <2>0, Fillers DEF Regs
  <2> QED BY <2>1, <2>2, FurnishedBy DEF Plain, Furnishing, Registers!Measurements
<1>2. ASSUME NEW f \in {"either_side", "both_sides"} PROVE Furnished(f) /\ Plain(f)
  <2>0. Registers!Fresh(f) = [r \in {"adv", "hostIn", "hostOut", "mediaIn", "mediaOut"} |->
                                IF r = "adv" THEN At0(1) ELSE Row(0)]
    BY LaneRegisters
  <2>1. \A r \in Regs(f) : r \notin Registers!Measurements \cup {"target", "prbs", "loop", "none"}
    BY <2>0 DEF Regs, Registers!Measurements
  <2>2. \A r \in Regs(f) : Filled(Registers!Fresh(f)[r])
    BY <2>0, Fillers DEF Regs
  <2> QED BY <2>1, <2>2, FurnishedBy DEF Plain, Furnishing, Registers!Measurements
<1>3. ASSUME NEW f \in {"power"} PROVE Furnished(f) /\ Plain(f)
  <2> DEFINE m == [x \in {0, 1} |-> 1 - x] c == [x \in {3, 4, 6} |-> IF x = 6 THEN 1 ELSE 0]
  <2>0. Registers!Fresh(f) = [r \in {"adv", "mstate", "ctrl"} |-> IF r = "adv" THEN At0(1) ELSE IF r = "mstate" THEN m ELSE c]
    BY LaneRegisters
  <2>3. Filled(m) /\ Filled(c)
    BY Fillers
  <2> HIDE DEF m, c
  <2>1. \A r \in Regs(f) : r \notin Registers!Measurements \cup {"target", "prbs", "loop", "none"}
    BY <2>0 DEF Regs, Registers!Measurements
  <2>2. \A r \in Regs(f) : Filled(Registers!Fresh(f)[r])
    BY <2>0, <2>3, Fillers DEF Regs
  <2> QED BY <2>1, <2>2, FurnishedBy DEF Plain, Furnishing, Registers!Measurements
<1>4. ASSUME NEW f \in {"datapath_4", "datapath_3"} PROVE Furnished(f) /\ Plain(f)
  <2>0. Registers!Fresh(f) = [r \in {"adv", "deinit"} |-> IF r = "adv" THEN At0(1) ELSE Row(0)]
    BY LaneRegisters
  <2>1. \A r \in Regs(f) : r \notin Registers!Measurements \cup {"target", "prbs", "loop", "none"}
    BY <2>0 DEF Regs, Registers!Measurements
  <2>2. \A r \in Regs(f) : Filled(Registers!Fresh(f)[r])
    BY <2>0, Fillers DEF Regs
  <2> QED BY <2>1, <2>2, FurnishedBy DEF Plain, Furnishing, Registers!Measurements
<1>5. ASSUME NEW f \in {"application"} PROVE Furnished(f) /\ Plain(f)
  <2>0. Registers!Fresh(f) = [r \in {"adv", "deinit", "app", "dp", "config", "apply"} |->
               IF r = "adv" THEN At0(1) ELSE IF r = "apply" THEN At0(0) ELSE IF r = "config" THEN Row(1) ELSE Row(0)]
    BY LaneRegisters
  <2>1. \A r \in Regs(f) : r \notin Registers!Measurements \cup {"target", "prbs", "loop", "none"}
    BY <2>0 DEF Regs, Registers!Measurements
  <2>2. \A r \in Regs(f) : Filled(Registers!Fresh(f)[r])
    BY <2>0, Fillers DEF Regs
  <2> QED BY <2>1, <2>2, FurnishedBy DEF Plain, Furnishing, Registers!Measurements
<1>6. ASSUME NEW f \in {"staging"} PROVE Furnished(f) /\ Plain(f)
  <2>0. Registers!Fresh(f) = [r \in {"adv", "rxsi", "txsi"} |-> IF r = "adv" THEN At0(1) ELSE Row(0)]
    BY LaneRegisters
  <2>1. \A r \in Regs(f) : r \notin Registers!Measurements \cup {"target", "prbs", "loop", "none"}
    BY <2>0 DEF Regs, Registers!Measurements
  <2>2. \A r \in Regs(f) : Filled(Registers!Fresh(f)[r])
    BY <2>0, Fillers DEF Regs
  <2> QED BY <2>1, <2>2, FurnishedBy DEF Plain, Furnishing, Registers!Measurements
<1> QED BY <1>1, <1>2, <1>3, <1>4, <1>5, <1>6 DEF LaneFamilies

(* Which driver has which. *)
LEMMA FamiliesOf ==
    ASSUME NEW d \in Registers!Drivers, NEW f \in Registers!Families(d)
    PROVE  /\ f \in CableFamilies \cup LaneFamilies /\ Furnished(f)
           /\ d = "simulated" => Plain(f) /\ f \in {"mux", "flaps"}
           /\ f = "either_side" => d = "cmis"
           /\ d = "cmis" => Plain(f)
<1>1. CASE d = "credo"
  BY <1>1, CableFurnished DEF Registers!Families, Registers!Credo!Families, CableFamilies, LaneFamilies
<1>2. CASE d = "legacy"
  BY <1>2, CableFurnished DEF Registers!Families, Registers!Legacy!Families, CableFamilies, LaneFamilies
<1>3. CASE d = "simulated"
  BY <1>3, CableFurnished DEF Registers!Families, Registers!Simulated!Families, CableFamilies, LaneFamilies
<1>4. CASE d = "cmis"
  BY <1>4, LaneFurnished DEF Registers!Families, Registers!Lane!Families, CableFamilies, LaneFamilies
<1> QED BY <1>1, <1>2, <1>3, <1>4 DEF Registers!Drivers

(* Which registers react. *)
LEMMA Reacting ==
    /\ \A f \in CableFamilies \cup LaneFamilies :
        /\ "ctrl" \in Regs(f) => f = "power"
        /\ "dp" \in Regs(f) => f = "application"
        /\ "apply" \in Regs(f) => f = "application"
    /\ /\ Regs("power") = {"adv", "mstate", "ctrl"} /\ FieldsOf("power", "ctrl") = {3, 4, 6}
       /\ FieldsOf("power", "mstate") = {0, 1}
    /\ /\ Regs("application") = {"adv", "deinit", "app", "dp", "config", "apply"}
       /\ FieldsOf("application", "dp") = Lanes /\ FieldsOf("application", "config") = Lanes
       /\ FieldsOf("application", "apply") = {0} /\ Registers!Fresh("application")["apply"][0] = 0
    /\ /\ Regs("either_side") = {"adv", "hostIn", "hostOut", "mediaIn", "mediaOut"}
       /\ \A r \in {"hostIn", "hostOut", "mediaIn", "mediaOut"} :
            FieldsOf("either_side", r) = Lanes /\ Registers!Fresh("either_side")[r] = Row(0)
<1> USE DEF Regs, FieldsOf
<1>1. \A f \in CableFamilies : "ctrl" \notin Regs(f) /\ "dp" \notin Regs(f) /\ "apply" \notin Regs(f)
  BY CableRegisters DEF CableFamilies
<1>2. \A f \in LaneFamilies : /\ "ctrl" \in Regs(f) => f = "power"
                              /\ "dp" \in Regs(f) \/ "apply" \in Regs(f) => f = "application"
  <2>1. ASSUME NEW f \in {"tx", "rx"} PROVE "ctrl" \notin Regs(f) /\ "dp" \notin Regs(f) /\ "apply" \notin Regs(f)
    <3>1. Registers!Fresh(f) = [r \in {"adv", f} |-> IF r = "adv" THEN At0(1) ELSE Row(0)]
      BY LaneRegisters
    <3> QED BY <3>1
  <2>2. ASSUME NEW f \in {"either_side", "both_sides"} PROVE "ctrl" \notin Regs(f) /\ "dp" \notin Regs(f) /\ "apply" \notin Regs(f)
    <3>1. Registers!Fresh(f) = [r \in {"adv", "hostIn", "hostOut", "mediaIn", "mediaOut"} |->
                                    IF r = "adv" THEN At0(1) ELSE Row(0)]
      BY LaneRegisters
    <3> QED BY <3>1
  <2>3. ASSUME NEW f \in {"datapath_4", "datapath_3"} PROVE "ctrl" \notin Regs(f) /\ "dp" \notin Regs(f) /\ "apply" \notin Regs(f)
    <3>1. Registers!Fresh(f) = [r \in {"adv", "deinit"} |-> IF r = "adv" THEN At0(1) ELSE Row(0)]
      BY LaneRegisters
    <3> QED BY <3>1
  <2>4. /\ "dp" \notin Regs("power") /\ "apply" \notin Regs("power") /\ "ctrl" \notin Regs("application")
        /\ "ctrl" \notin Regs("staging") /\ "dp" \notin Regs("staging") /\ "apply" \notin Regs("staging")
    BY LaneRegisters
  <2> HIDE DEF Regs
  <2> QED BY <2>1, <2>2, <2>3, <2>4 DEF LaneFamilies
<1>3. /\ Regs("power") = {"adv", "mstate", "ctrl"} /\ FieldsOf("power", "ctrl") = {3, 4, 6}
      /\ FieldsOf("power", "mstate") = {0, 1}
  <2> DEFINE m == [x \in {0, 1} |-> 1 - x] c == [x \in {3, 4, 6} |-> IF x = 6 THEN 1 ELSE 0]
  <2>1. Registers!Fresh("power") =
            [r \in {"adv", "mstate", "ctrl"} |-> IF r = "adv" THEN At0(1) ELSE IF r = "mstate" THEN m ELSE c]
    BY LaneRegisters
  <2>2. DOMAIN m = {0, 1} /\ DOMAIN c = {3, 4, 6}
    OBVIOUS
  <2> HIDE DEF m, c
  <2> QED BY <2>1, <2>2
<1>4. DOMAIN Row(0) = Lanes /\ DOMAIN Row(1) = Lanes /\ DOMAIN At0(0) = {0}
  BY DEF Row, At0
<1>5. /\ Regs("application") = {"adv", "deinit", "app", "dp", "config", "apply"}
      /\ FieldsOf("application", "dp") = Lanes /\ FieldsOf("application", "config") = Lanes
      /\ FieldsOf("application", "apply") = {0} /\ Registers!Fresh("application")["apply"][0] = 0
  <2>1. At0(0)[0] = 0
    BY DEF At0
  <2> QED BY <1>4, <2>1, LaneRegisters
<1>6. /\ Regs("either_side") = {"adv", "hostIn", "hostOut", "mediaIn", "mediaOut"}
      /\ \A r \in {"hostIn", "hostOut", "mediaIn", "mediaOut"} :
            FieldsOf("either_side", r) = Lanes /\ Registers!Fresh("either_side")[r] = Row(0)
  BY <1>4, LaneRegisters
<1> HIDE DEF Regs, FieldsOf
<1> QED BY <1>1, <1>2, <1>3, <1>5, <1>6

-------------------------------------------------------------------------------
(* What is left of a call keeps its shape. *)
LEMMA ElemOf == ASSUME NEW s, NEW i \in 1..Len(s) PROVE s[i] \in Elems(s)
BY DEF Elems

LEMMA ElemIn == ASSUME NEW S, NEW s \in Seq(S), NEW x \in Elems(s) PROVE x \in S
BY LenProperties, ElementOfSeq DEF Elems

LEMMA ShapedTail ==
    ASSUME NEW f, NEW g, NEW s, Shaped(f, g, s), s # <<>>
    PROVE  /\ Head(s) \in Fitting(f) /\ Head(s) \in Elems(s) /\ Head(s) = s[1]
           /\ Elems(s) = {Head(s)} \cup Elems(Tail(s))
           /\ Shaped(f, g, Tail(s))
           /\ Tail(s) = <<>> => Head(s).do # "lock"
           /\ Tail(s) # <<>> => /\ Head(Tail(s)) \in Fitting(f) /\ Head(Tail(s)) \in Elems(Tail(s))
                                /\ Precedes(Head(s), Head(Tail(s)))
                                /\ g.kind = "measured" => NextMeasuring(Head(s), Head(Tail(s)))
                                /\ f = "either_side" => Head(s).do \notin Registers!Writes
           /\ g.kind = "set" => \A k \in DOMAIN g.val :
                  Wrong(g, Head(s), k) => \E a \in Elems(Tail(s)) : Right(g, a, k)
<1> DEFINE T == Tail(s) S == Fitting(f)
<1>1. s \in Seq(S)
  BY DEF Shaped
<1>2. /\ Head(s) \in S /\ Head(s) = s[1] /\ Len(s) \in Nat \ {0}
      /\ T \in Seq(S) /\ Len(T) = Len(s) - 1
      /\ \A i \in 1..Len(T) : T[i] = s[i + 1]
      /\ (T = <<>> <=> Len(s) = 1)
      /\ (T # <<>> => Head(T) = s[2] /\ Len(s) > 1)
      /\ Elems(s) = {Head(s)} \cup Elems(T)
  BY <1>1, TailOf
<1> HIDE DEF T, S
<1>3. \A i \in 1..Len(T) : i + 1 \in 1..Len(s) /\ T[i] = s[i + 1] /\ T[i] \in Elems(T)
  BY <1>2, ElemOf
<1>4. \A i \in 1..Len(T) - 1 : /\ i \in 1..Len(T) /\ i + 1 \in 1..Len(T) /\ i + 1 \in 1..Len(s) - 1
                               /\ T[i] = s[i + 1] /\ T[i + 1] = s[(i + 1) + 1]
  BY <1>2
<1>5. T # <<>> => 1 \in 1..Len(s) - 1 /\ 1 \in 1..Len(T) /\ Head(T) = T[1] /\ Head(T) = s[1 + 1]
                  /\ Len(T) \in 1..Len(T) /\ T[Len(T)] = s[Len(s)]
  <2>1. SUFFICES ASSUME T # <<>> PROVE 1 \in 1..Len(s) - 1 /\ 1 \in 1..Len(T) /\ Head(T) = T[1] /\ Head(T) = s[1 + 1]
                                       /\ Len(T) \in 1..Len(T) /\ T[Len(T)] = s[Len(s)]
    OBVIOUS
  <2>2. Len(s) > 1 /\ Head(T) = s[2] /\ Len(T) = Len(s) - 1 /\ Len(s) \in Nat
    BY <1>2, <2>1
  <2> QED BY <1>2, <2>2
<1>6. \A i \in 1..Len(s) - 1 : Precedes(s[i], s[i + 1])
  BY DEF Shaped
<1>7. \A i \in 1..Len(T) - 1 : Precedes(T[i], T[i + 1])
  BY <1>4, <1>6
<1>8. T # <<>> => T[Len(T)].do # "lock"
  BY <1>5 DEF Shaped
<1>9. \A a \in Elems(T) : /\ a.do \in {"lock", "unlock"} => g.reg = "eye"
                          /\ f \in {"mux", "flaps"} => a.do # "merge"
  <2>1. \A a \in Elems(s) : /\ a.do \in {"lock", "unlock"} => g.reg = "eye"
                            /\ f \in {"mux", "flaps"} => a.do # "merge"
    BY DEF Shaped
  <2>2. Elems(T) \subseteq Elems(s)
    BY <1>2
  <2> QED BY ONLY <2>1, <2>2
<1>10. g.kind = "set" => Setting(f, g, T) /\ \A k \in DOMAIN g.val :
                  Wrong(g, Head(s), k) => \E a \in Elems(T) : Right(g, a, k)
  <2>1. SUFFICES ASSUME g.kind = "set" PROVE Setting(f, g, T) /\ \A k \in DOMAIN g.val :
                  Wrong(g, Head(s), k) => \E a \in Elems(T) : Right(g, a, k)
    OBVIOUS
  <2>2. Setting(f, g, s)
    BY <2>1 DEF Shaped
  <2>3. ASSUME NEW i \in 1..Len(T), NEW k \in DOMAIN g.val, Wrong(g, T[i], k)
        PROVE  \E j \in i + 1..Len(T) : Right(g, T[j], k)
    <3>1. PICK j \in (i + 1) + 1..Len(s) : Right(g, s[j], k)
      BY <1>3, <2>2, <2>3 DEF Setting, Corrected
    <3>2. j - 1 \in i + 1..Len(T) /\ j - 1 \in 1..Len(T) /\ (j - 1) + 1 = j
      BY <1>2, <3>1
    <3> QED BY <1>3, <3>1, <3>2
  <2>4. ASSUME NEW k \in DOMAIN g.val, Wrong(g, Head(s), k) PROVE \E a \in Elems(T) : Right(g, a, k)
    <3>1. 1 \in 1..Len(s)
      BY <1>2
    <3>2. PICK j \in 1 + 1..Len(s) : Right(g, s[j], k)
      BY <1>2, <2>2, <2>4, <3>1 DEF Setting, Corrected
    <3>3. j - 1 \in 1..Len(T) /\ (j - 1) + 1 = j
      BY <1>2, <3>2
    <3> QED BY <1>3, <3>2, <3>3
  <2> QED BY <1>2, <2>2, <2>3, <2>4 DEF Setting, Corrected
<1>11. g.kind = "measured" => Measuring(f, g, T) /\ (T # <<>> => NextMeasuring(Head(s), Head(T)))
  <2>1. SUFFICES ASSUME g.kind = "measured" PROVE Measuring(f, g, T) /\ (T # <<>> => NextMeasuring(Head(s), Head(T)))
    OBVIOUS
  <2>2. Measuring(f, g, s)
    BY <2>1 DEF Shaped
  <2>3. \A i \in 1..Len(s) - 1 : NextMeasuring(s[i], s[i + 1])
    BY <2>2 DEF Measuring
  <2>4. \A i \in 1..Len(T) - 1 : NextMeasuring(T[i], T[i + 1])
    BY <1>4, <2>3
  <2>5. T # <<>> => NextMeasuring(Head(s), Head(T)) /\ T[Len(T)].do \in {"get", "unlock"}
    BY <1>2, <1>5, <2>2, <2>3 DEF Measuring
  <2> QED BY <1>2, <2>2, <2>4, <2>5 DEF Measuring
<1>12. f = "either_side" => Looping(g, T) /\ (T # <<>> => Head(s).do \notin Registers!Writes)
  <2>1. SUFFICES ASSUME f = "either_side" PROVE Looping(g, T) /\ (T # <<>> => Head(s).do \notin Registers!Writes)
    OBVIOUS
  <2>2. Looping(g, s)
    BY <2>1 DEF Shaped
  <2>3. \A i \in 1..Len(s) - 1 : s[i].do \notin Registers!Writes
    BY <2>2 DEF Looping
  <2>4. \A i \in 1..Len(T) - 1 : T[i].do \notin Registers!Writes
    BY <1>4, <2>3
  <2>5. T # <<>> => Head(s).do \notin Registers!Writes
    BY <1>2, <1>5, <2>3
  <2> QED BY <1>2, <2>2, <2>4, <2>5 DEF Looping
<1>13. Shaped(f, g, T)
  BY <1>2, <1>7, <1>8, <1>9, <1>10, <1>11, <1>12 DEF Shaped, S
<1>14. T = <<>> => Head(s).do # "lock"
  BY <1>2 DEF Shaped
<1>15. T # <<>> => /\ Head(T) \in S /\ Head(T) \in Elems(T) /\ Precedes(Head(s), Head(T))
  BY <1>2, <1>3, <1>5, <1>6, TailOf
<1> QED BY <1>2, <1>10, <1>11, <1>12, <1>13, <1>14, <1>15 DEF T, S

-------------------------------------------------------------------------------
(* A call that another thread does not disturb. *)
LEMMA WorkOf ==
    ASSUME NEW w \in Works
    PROVE  /\ w.todo \in Seq(Accesses) /\ w.goal \in Tasks /\ w.got \in Fillings /\ w.outer \in Threads \cup {Nobody}
           /\ w.alone \in BOOLEAN /\ w.blind \in BOOLEAN /\ w.returned \in {"nothing", "ok", "blind", "error"}
           /\ w.goal.kind \in {"nothing", "set", "measured"} /\ w.goal.val \in Fillings
           /\ \A x \in BOOLEAN :
                LET v == [w EXCEPT !.alone = x]
                IN /\ v \in Works /\ v.todo = w.todo /\ v.goal = w.goal /\ v.got = w.got /\ v.outer = w.outer
                   /\ v.alone = x /\ v.blind = w.blind /\ v.returned = w.returned /\ (x = w.alone => v = w)
BY DEF Works, Tasks

LEMMA ReturnedWork ==
    \A x \in {"nothing", "ok", "blind", "error"} :
        LET w == Registers!Returned(x)
        IN /\ w \in Works /\ w.todo = <<>> /\ w.outer = Nobody /\ w.alone = TRUE /\ w.blind = FALSE
           /\ w.returned = x /\ w.goal = Registers!Nothing
<1>1. <<>> \in Seq(Accesses) /\ <<>> \in Fillings
  BY EmptySeq DEF Fillings
<1>2. Registers!Nothing \in Tasks
  BY <1>1 DEF Registers!Nothing, Registers!Goal, Tasks, Names
<1> HIDE DEF Registers!Nothing
<1> QED BY <1>1, <1>2 DEF Registers!Returned, Registers!Idle, Works

LEMMA Unmoved ==
    ASSUME RegisterInv, NEW u \in Threads, run'[u] = run[u], UNCHANGED <<driver, family, reg>>,
           Inside(u) => holder' = u
    PROVE  Sane(u)'
<1>1. Sane(u)
  BY DEF RegisterInv
<1>2. Inside(u)' => holder' = u
  BY DEF Inside
<1>3. GotRead(u) => GotRead(u)'
  BY DEF GotRead, Holding, FieldsOf
<1>4. GotSet(u) => GotSet(u)'
  BY DEF GotSet
<1>5. GotMeasured(u) => GotMeasured(u)'
  BY DEF GotMeasured, Registers!Asked
<1>6. GotLoops(u) => GotLoops(u)'
  BY DEF GotLoops
<1> QED BY <1>1, <1>2, <1>3, <1>4, <1>5, <1>6 DEF Sane

(* Behind the lock there is one. *)
LEMMA LockedOut ==
    ASSUME RegisterInv, NEW t \in Threads, NEW u \in Threads, u # t, Inside(t)
    PROVE  ~Inside(u) /\ holder = t
BY DEF RegisterInv, Sane

LEMMA Disturbed ==
    ASSUME RegisterInv, NEW t \in Threads, NEW u \in Threads, u # t,
           Registers!Doing(t, Registers!Writes), UNCHANGED <<driver, family, holder>>,
           run'[u] = [run[u] EXCEPT !.alone = @ /\ (u = t \/ run[u].todo = <<>> \/
                                                       (Registers!UnderLock(t) /\ Registers!UnderLock(u)))]
    PROVE  Sane(u)'
<1> DEFINE w == run[u] v == run'[u] x == w.alone /\ (u = t \/ w.todo = <<>> \/
                                                       (Registers!UnderLock(t) /\ Registers!UnderLock(u)))
<1>1. Sane(u) /\ Sane(t) /\ w \in Works
  BY DEF RegisterInv
<1>2. v = [w EXCEPT !.alone = x] /\ x \in BOOLEAN
  OBVIOUS
<1>3. /\ v \in Works /\ v.todo = w.todo /\ v.goal = w.goal /\ v.got = w.got /\ v.outer = w.outer
      /\ v.alone = x /\ v.blind = w.blind /\ v.returned = w.returned /\ (x = w.alone => v = w)
  <2> HIDE DEF w, v, x
  <2> QED BY <1>1, <1>2, WorkOf
<1>4. Inside(u)' => holder' = u
  BY <1>1, <1>3 DEF Inside, Sane
<1>5. v.outer \in {u, Nobody} /\ (v.todo = <<>> => v = Registers!Returned(v.returned))
  <2>1. w.todo = <<>> => x = w.alone
    BY <1>1, WorkOf
  <2> HIDE DEF x, v, w
  <2> QED BY <1>1, <1>3, <2>1 DEF Sane, w
<1> HIDE DEF x
<1>6. SUFFICES ASSUME w.todo # <<>>
               PROVE  Shaped(family, v.goal, v.todo) /\ GotRead(u)' /\ GotSet(u)' /\ GotMeasured(u)' /\ GotLoops(u)'
  BY <1>3, <1>4, <1>5 DEF Sane
<1>7. Shaped(family, w.goal, w.todo) /\ GotRead(u)
  BY <1>1, <1>6 DEF Sane
<1>8. CASE ~x
  <2>1. ~v.alone
    BY <1>3, <1>8
  <2>2. GotRead(u)'
    BY <1>3, <1>7, <2>1 DEF GotRead, Holding, FieldsOf
  <2> QED BY <1>3, <1>7, <2>1, <2>2 DEF GotSet, GotMeasured, GotLoops
<1>9. CASE x
  <2>1. driver = "credo" /\ run[t].goal.reg = "eye" /\ w.goal.reg = "eye"
    BY <1>6, <1>9 DEF x, Registers!UnderLock
  <2>2. Inside(t)
    BY <2>1 DEF Inside, Registers!Doing, Registers!Writes, Registers!Step
  <2>3. Head(w.todo).do = "lock"
    BY <1>6, <2>1, <2>2, LockedOut DEF Inside
  <2>4. w.goal.kind = "measured"
    BY <1>7, <2>1 DEF Shaped
  <2>5. family # "either_side"
    BY <2>1, FamiliesOf DEF RegisterInv
  <2> QED BY <1>3, <1>7, <2>1, <2>3, <2>4, <2>5 DEF GotRead, GotSet, GotMeasured, GotLoops
<1> QED BY <1>8, <1>9

-------------------------------------------------------------------------------
(* A call after a step of its own. *)
LEMMA EndedSane ==
    ASSUME NEW t \in Threads, NEW x \in {"nothing", "ok", "blind", "error"}, run'[t] = Registers!Returned(x)
    PROVE  Sane(t)'
<1>1. run'[t].todo = <<>> /\ run'[t].outer = Nobody /\ run'[t].returned = x
  BY ReturnedWork
<1> QED BY <1>1 DEF Sane, Inside

LEMMA AdvancedOf ==
    ASSUME run \in [Threads -> Works], NEW t \in Threads, run[t].todo # <<>>, NEW got \in Fillings, NEW gone \in BOOLEAN
    PROVE  LET w == run[t]
               v == Registers!Advanced(t, got, gone)
           IN /\ v \in Works
              /\ Tail(w.todo) = <<>> => v = Registers!Returned(IF w.blind \/ gone THEN "blind" ELSE "ok")
              /\ Tail(w.todo) # <<>> =>
                    /\ v.todo = Tail(w.todo) /\ v.goal = w.goal /\ v.outer = w.outer /\ v.alone = w.alone
                    /\ v.blind = (w.blind \/ gone) /\ v.returned = w.returned
                    /\ v.got = IF Registers!Needs(Tail(w.todo)) THEN got ELSE <<>>
<1> DEFINE w == run[t] v == Registers!Advanced(t, got, gone) T == Tail(w.todo)
           g == IF Registers!Needs(T) THEN got ELSE <<>>
<1>1. w \in Works
  OBVIOUS
<1>2. T \in Seq(Accesses)
  BY <1>1, WorkOf, TailOf
<1>3. g \in Fillings
  BY DEF Fillings
<1>4. w.blind \in BOOLEAN
  BY <1>1, WorkOf
<1>5. CASE T = <<>>
  <2>1. v = Registers!Returned(IF w.blind \/ gone THEN "blind" ELSE "ok")
    BY <1>5 DEF Registers!Advanced
  <2> QED BY <2>1, <1>5, ReturnedWork
<1>6. CASE T # <<>>
  <2>1. v = [w EXCEPT !.todo = T, !.got = g, !.blind = @ \/ gone]
    BY <1>6 DEF Registers!Advanced
  <2> HIDE DEF w, v, T, g
  <2>2. v \in Works /\ v.todo = T /\ v.goal = w.goal /\ v.outer = w.outer /\ v.alone = w.alone
                    /\ v.blind = (w.blind \/ gone) /\ v.returned = w.returned /\ v.got = g
    BY <1>1, <1>2, <1>3, <1>4, <2>1 DEF Works
  <2> QED BY <1>6, <2>2 DEF w, v, T, g
<1> QED BY <1>5, <1>6

LEMMA OwnSane ==
    ASSUME RegisterInv, NEW t \in Threads, run[t].todo # <<>>, UNCHANGED <<driver, family>>,
           NEW got \in Fillings, NEW gone \in BOOLEAN, run'[t] = Registers!Advanced(t, got, gone),
           Tail(run[t].todo) # <<>> =>
               /\ Head(run[t].todo).do # "lock" /\ holder' = holder
               /\ GotRead(t)' /\ GotSet(t)' /\ GotMeasured(t)' /\ GotLoops(t)'
    PROVE  Sane(t)'
<1> DEFINE w == run[t] v == run'[t] T == Tail(w.todo)
<1>1. run \in [Threads -> Works] /\ Sane(t)
  BY DEF RegisterInv
<1>2. w.blind \in BOOLEAN
  BY <1>1, WorkOf
<1>3. CASE T = <<>>
  <2>1. v = Registers!Returned(IF w.blind \/ gone THEN "blind" ELSE "ok")
    BY <1>1, <1>3, AdvancedOf
  <2>2. (IF w.blind \/ gone THEN "blind" ELSE "ok") \in {"nothing", "ok", "blind", "error"}
    OBVIOUS
  <2> QED BY <2>1, <2>2, EndedSane
<1>4. CASE T # <<>>
  <2>1. v.todo = T /\ v.goal = w.goal /\ v.outer = w.outer
    BY <1>1, <1>4, AdvancedOf
  <2>2. Shaped(family, w.goal, w.todo) /\ w.outer \in {t, Nobody}
    BY <1>1 DEF Sane
  <2>3. Shaped(family, w.goal, T)
    BY <2>2, ShapedTail
  <2>4. Inside(t)' => Inside(t)
    BY <1>4, <2>1 DEF Inside
  <2>5. Inside(t)' => holder' = t
    BY <1>1, <1>4, <2>4 DEF Sane
  <2> HIDE DEF w, v, T
  <2> QED BY <1>4, <2>1, <2>2, <2>3, <2>5 DEF Sane, w, v, T
<1> QED BY <1>3, <1>4

(* What is known of a step of a call. *)
LEMMA StepOf ==
    ASSUME RegisterInv, NEW t \in Threads, run[t].todo # <<>>
    PROVE  LET w == run[t]
               g == w.goal
               a == Head(w.todo)
               T == Tail(w.todo)
           IN /\ w \in Works /\ Registers!Step(t) = a
              /\ Shaped(family, g, w.todo) /\ GotRead(t) /\ GotSet(t) /\ GotMeasured(t) /\ GotLoops(t)
              /\ a \in Accesses /\ Fits(family, a) /\ a \in Elems(w.todo)
              /\ Elems(w.todo) = {a} \cup Elems(T) /\ Shaped(family, g, T)
              /\ T = <<>> => a.do # "lock"
              /\ T # <<>> => /\ Head(T) \in Accesses /\ Fits(family, Head(T)) /\ Head(T) \in Elems(T)
                             /\ Precedes(a, Head(T))
                             /\ g.kind = "measured" => NextMeasuring(a, Head(T))
                             /\ family = "either_side" => a.do \notin Registers!Writes
              /\ g.kind = "set" => /\ Setting(family, g, w.todo) /\ Within(g, a)
                                   /\ \A k \in DOMAIN g.val : Wrong(g, a, k) => \E b \in Elems(T) : Right(g, b, k)
              /\ g.kind = "measured" => Measuring(family, g, w.todo) /\ MeasuringStep(g, a)
              /\ a.do \in {"lock", "unlock"} => g.reg = "eye" /\ g.kind = "measured"
<1> DEFINE w == run[t] g == w.goal s == w.todo a == Head(s) T == Tail(s)
<1>1. w \in Works /\ Sane(t)
  BY DEF RegisterInv
<1>2. Shaped(family, g, s) /\ GotRead(t) /\ GotSet(t) /\ GotMeasured(t) /\ GotLoops(t)
  BY <1>1 DEF Sane
<1>3. /\ a \in Fitting(family) /\ a \in Elems(s)
      /\ Elems(s) = {a} \cup Elems(T) /\ Shaped(family, g, T) /\ (T = <<>> => a.do # "lock")
      /\ T # <<>> => /\ Head(T) \in Fitting(family) /\ Head(T) \in Elems(T) /\ Precedes(a, Head(T))
                     /\ g.kind = "measured" => NextMeasuring(a, Head(T))
                     /\ family = "either_side" => a.do \notin Registers!Writes
      /\ g.kind = "set" => \A k \in DOMAIN g.val : Wrong(g, a, k) => \E b \in Elems(T) : Right(g, b, k)
  BY <1>2, ShapedTail
<1>4. \A b \in Fitting(family) : b \in Accesses /\ Fits(family, b)
  BY DEF Fitting
<1>5. g.kind = "set" => Setting(family, g, s) /\ Within(g, a)
  BY <1>2, <1>3 DEF Shaped, Setting
<1>6. g.kind = "measured" => Measuring(family, g, s) /\ MeasuringStep(g, a)
  BY <1>2, <1>3 DEF Shaped, Measuring
<1>7. a.do \in {"lock", "unlock"} => g.reg = "eye" /\ g.kind = "measured"
  BY <1>2, <1>3 DEF Shaped
<1>8. Registers!Step(t) = a
  BY DEF Registers!Step
<1> HIDE DEF w, g, s, a, T
<1> QED BY <1>1, <1>2, <1>3, <1>4, <1>5, <1>6, <1>7, <1>8 DEF w, g, s, a, T

-------------------------------------------------------------------------------
(* Steps that leave the registers alone. *)

(* An empty program has no fields. *)
LEMMA EmptyDomain == DOMAIN <<>> = {} /\ \A f : f = <<>> => DOMAIN f = {}
OBVIOUS

LEMMA Held ==
    ASSUME RegisterInv, NEW r \in Regs(family)
    PROVE  /\ Furnished(family) /\ DOMAIN reg = Regs(family) /\ r \in DOMAIN reg
           /\ reg[r] \in Holding(family, r) /\ reg[r] \in Fillings /\ DOMAIN reg[r] = FieldsOf(family, r)
           /\ FieldsOf(family, r) \subseteq Nat
<1>1. Furnished(family)
  BY FamiliesOf DEF RegisterInv
<1>2. DOMAIN reg = Regs(family) /\ reg[r] \in Holding(family, r)
  BY DEF RegisterInv, RegisterContents
<1>3. FieldsOf(family, r) \subseteq Nat
  BY <1>1 DEF Furnished
<1> QED BY <1>1, <1>2, <1>3 DEF Holding, Fillings

(* The others are where they were. *)
LEMMA OthersStay ==
    ASSUME RegisterInv, NEW t \in Threads, UNCHANGED <<driver, family, reg>>, NEW v \in Works, run' = [run EXCEPT ![t] = v],
           Sane(t)', holder' \in Threads \cup {Nobody},
           driver = "credo" /\ holder' # holder => holder \in {t, Nobody}
    PROVE  RegisterInv'
<1>1. run \in [Threads -> Works]
  BY DEF RegisterInv
<1>2. run' \in [Threads -> Works] /\ \A u \in Threads \ {t} : run'[u] = run[u]
  BY <1>1
<1>3. ASSUME NEW u \in Threads \ {t} PROVE Sane(u)'
  <2>1. Inside(u) => holder = u
    BY DEF RegisterInv, Sane
  <2>2. Inside(u) => holder' = u
    <3>1. u # Nobody
      BY PartsAssumption DEF Registers!RegisterAssumption
    <3> QED BY <2>1, <3>1 DEF Inside
  <2> QED BY <1>2, <2>2, Unmoved
<1>4. RegisterContents'
  BY DEF RegisterInv, RegisterContents, Holding, FieldsOf, Regs
<1> QED BY <1>2, <1>3, <1>4 DEF RegisterInv

LEMMA EndedInv ==
    ASSUME RegisterInv, NEW t \in Threads, UNCHANGED <<driver, family, reg>>, NEW x \in {"nothing", "ok", "blind", "error"},
           run' = [run EXCEPT ![t] = Registers!Returned(x)],
           holder' \in Threads \cup {Nobody},
           driver = "credo" /\ holder' # holder => holder \in {t, Nobody}
    PROVE  RegisterInv'
<1>1. Registers!Returned(x) \in Works
  BY ReturnedWork
<1>2. run'[t] = Registers!Returned(x)
  BY DEF RegisterInv
<1>3. Sane(t)'
  BY <1>2, EndedSane
<1> QED BY <1>1, <1>3, OthersStay

LEMMA ReadInv == ASSUME RegisterInv, NEW t \in Threads, Registers!Read(t) PROVE RegisterInv'
<1> DEFINE w == run[t] g == w.goal a == Head(w.todo) T == Tail(w.todo) v == run'[t] n == Registers!Advanced(t, reg[a.reg], FALSE)
<1>1. /\ w.todo # <<>> /\ a.do \in {"get", "need", "await"} /\ Registers!Step(t) = a
      /\ a.val = <<>> \/ Registers!Restrict(reg[a.reg], DOMAIN a.val) = a.val
      /\ run' = [run EXCEPT ![t] = n] /\ UNCHANGED <<driver, family, reg, holder>>
  BY DEF Registers!Read, Registers!Doing, Registers!Reads, Registers!Step, Registers!Continue
<1>2. /\ w \in Works
      /\ Shaped(family, g, w.todo) /\ GotRead(t) /\ GotSet(t) /\ GotMeasured(t) /\ GotLoops(t)
      /\ a \in Accesses /\ Fits(family, a) /\ a \in Elems(w.todo)
      /\ Elems(w.todo) = {a} \cup Elems(T)
      /\ Shaped(family, g, T)
      /\ T # <<>> => /\ Head(T) \in Accesses /\ Fits(family, Head(T)) /\ Precedes(a, Head(T)) /\ Head(T) \in Elems(T)
                     /\ g.kind = "measured" => NextMeasuring(a, Head(T))
      /\ g.kind = "set" => Within(g, a)
      /\ g.kind = "measured" => Measuring(family, g, w.todo) /\ MeasuringStep(g, a)
  BY <1>1, StepOf
<1>3. run \in [Threads -> Works]
  BY DEF RegisterInv
<1>4. v = n
  BY <1>1, <1>3
<1>5. a.reg \in Regs(family)
  BY <1>1, <1>2 DEF Fits
<1>6. /\ reg[a.reg] \in Holding(family, a.reg) /\ reg[a.reg] \in Fillings /\ DOMAIN reg[a.reg] = FieldsOf(family, a.reg)
  BY <1>5, Held
<1>7. n \in Works
  BY <1>1, <1>3, <1>6, AdvancedOf
<1>8. ASSUME T # <<>> PROVE GotRead(t)' /\ GotSet(t)' /\ GotMeasured(t)' /\ GotLoops(t)'
  <2>1. /\ v.todo = T /\ v.goal = g /\ v.alone = w.alone /\ v.blind = w.blind
        /\ v.got = IF Registers!Needs(T) THEN reg[a.reg] ELSE <<>>
    <3>1. w.blind \in BOOLEAN
      BY <1>2, WorkOf
    <3> QED BY <1>1, <1>3, <1>4, <1>6, <1>8, <3>1, AdvancedOf
  <2> HIDE DEF w, g, a, T, v, n
  <2>2. GotRead(t)'
    <3>1. SUFFICES ASSUME Head(T).do = "merge" PROVE v.got \in Holding(family, Head(T).reg) /\ v.got = reg[Head(T).reg]
      BY <1>1, <2>1 DEF GotRead, v, Holding, FieldsOf
    <3>2. v.got = reg[a.reg] /\ a.reg = Head(T).reg
      BY <1>2, <1>8, <2>1, <3>1 DEF Registers!Needs, Precedes
    <3> QED BY <1>6, <3>2
  <2>3. GotSet(t)'
    <3>1. SUFFICES ASSUME g.kind = "set", w.alone
          PROVE /\ (\E b \in Elems(T) : b.do = "aim") /\ Head(T).reg # "target" => DOMAIN g.val = {reg["target"][0]}
                /\ ~w.blind => \A k \in DOMAIN g.val : (\E b \in Elems(T) : Right(g, b, k)) \/ reg[g.reg][k] = g.val[k]
      BY <1>1, <2>1 DEF GotSet, v
    <3>2. /\ (\E b \in Elems(w.todo) : b.do = "aim") /\ a.reg # "target" => DOMAIN g.val = {reg["target"][0]}
          /\ ~w.blind => \A k \in DOMAIN g.val : (\E b \in Elems(w.todo) : Right(g, b, k)) \/ reg[g.reg][k] = g.val[k]
      BY <1>2, <3>1 DEF GotSet, w, g, a
    <3>3. a.reg # "target"
      BY <1>1, <1>2 DEF Fits
    <3>4. \A k : ~Right(g, a, k)
      BY <1>1 DEF Right, Touches, Registers!Writes
    <3> QED BY <1>2, <3>2, <3>3, <3>4
  <2>4. GotMeasured(t)'
    <3>1. SUFFICES ASSUME g.kind = "measured", w.alone
          PROVE /\ Head(T).do \notin {"lock", "put"} /\ g.reg # "type" => reg["target"][0] = g.val[0]
                /\ Head(T).do \in {"await", "get"} /\ g.reg = "type" => reg["type"][1] = g.val[0]
                /\ Head(T).do = "await" => (reg[g.reg][2] # 1 => reg[g.reg][1] = Registers!Asked(g))
                /\ Head(T).do = "get" => reg[g.reg][2] # 1 /\ reg[g.reg][1] = Registers!Asked(g)
                /\ Head(T).do = "unlock" => v.got[1] = g.val[0]
      BY <1>1, <2>1 DEF GotMeasured, v, Registers!Asked
    <3>2. /\ a.do \notin {"lock", "put"} /\ g.reg # "type" => reg["target"][0] = g.val[0]
          /\ a.do \in {"await", "get"} /\ g.reg = "type" => reg["type"][1] = g.val[0]
          /\ a.do = "await" => (reg[g.reg][2] # 1 => reg[g.reg][1] = Registers!Asked(g))
          /\ a.do = "get" => reg[g.reg][2] # 1 /\ reg[g.reg][1] = Registers!Asked(g)
      BY <1>2, <3>1 DEF GotMeasured, w, g, a
    <3>3. CASE a.do = "await"
      <4>1. Head(T).do = "get" /\ a.reg = g.reg /\ a.val = [x \in {0} |-> 1] /\ g.reg \in Registers!Measurements \cap Regs(family)
        BY <1>2, <1>8, <3>1, <3>3 DEF NextMeasuring, MeasuringStep, Measuring
      <4>2. reg[g.reg][0] = 1
        <5>1. [x \in {0} |-> 1] # <<>>
          BY Zenon, EmptyDomain
        <5>2. [x \in {0} |-> reg[g.reg][x]] = [x \in {0} |-> 1]
          BY <1>1, <4>1, <5>1 DEF Registers!Restrict
        <5> QED BY <5>2
      <4>3. reg[g.reg][2] # 1
        BY <4>1, <4>2 DEF RegisterInv, RegisterContents
      <4> QED BY <3>2, <3>3, <4>1, <4>3
    <3>4. CASE a.do = "get"
      <4>1. Head(T).do = "unlock" /\ a.reg = g.reg
        BY <1>2, <1>8, <3>1, <3>4 DEF NextMeasuring, MeasuringStep
      <4>2. g.reg = "eye"
        BY <1>2, <1>8, <4>1 DEF Shaped
      <4>3. v.got = reg[g.reg]
        BY <2>1, <4>1 DEF Registers!Needs
      <4>4. Registers!Asked(g) = g.val[0]
        BY <4>2 DEF Registers!Asked
      <4> QED BY <3>2, <3>4, <4>1, <4>2, <4>3, <4>4
    <3>5. a.do # "need"
      BY <1>2, <3>1 DEF MeasuringStep
    <3> QED BY <1>1, <3>3, <3>4, <3>5
  <2>5. GotLoops(t)'
    <3>1. SUFFICES ASSUME family = "either_side", w.alone, ~w.blind, g.val # Row(0), NEW o \in Opposite(g.reg),
                          ~\E b \in Elems(T) : Looks(o, b)
          PROVE reg[o] = Row(0)
      BY <1>1, <2>1 DEF GotLoops, v
    <3>2. Looks(o, a) \/ reg[o] = Row(0)
      BY <1>2, <3>1 DEF GotLoops, w, g
    <3>3. CASE Looks(o, a)
      <4>1. a.reg = o /\ a.val = Row(0)
        BY <3>3 DEF Looks
      <4>2. o \in {"hostIn", "hostOut", "mediaIn", "mediaOut"}
        BY DEF Opposite, Registers!Lane!Host, Registers!Lane!Media
      <4>3. FieldsOf(family, o) = Lanes
        BY <3>1, <4>2, Reacting
      <4>4. reg[o] \in [Lanes -> Contents]
        BY <1>6, <4>1, <4>3 DEF Holding
      <4>5. CASE a.val = <<>>
        <5>1. Lanes = {}
          BY <4>1, <4>5, EmptyDomain DEF Row
        <5> QED BY <4>4, <5>1 DEF Row
      <4>6. CASE Registers!Restrict(reg[a.reg], DOMAIN a.val) = a.val
        <5>1. [x \in Lanes |-> reg[o][x]] = Row(0)
          BY <4>1, <4>6 DEF Registers!Restrict, Row
        <5> QED BY <4>4, <5>1
      <4> QED BY <1>1, <4>5, <4>6
    <3> QED BY <3>2, <3>3
  <2> QED BY <2>2, <2>3, <2>4, <2>5
<1>9. Sane(t)'
  <2>1. T # <<>> => a.do # "lock" /\ holder' = holder
    BY <1>1
  <2> QED BY <1>1, <1>4, <1>6, <1>8, <2>1, OwnSane
<1> QED BY <1>1, <1>3, <1>7, <1>9, OthersStay DEF RegisterInv

LEMMA QuitInv == ASSUME RegisterInv, NEW t \in Threads, Registers!Quit(t), UNCHANGED <<driver, family, reg>> PROVE RegisterInv'
<1>1. /\ run' = [run EXCEPT ![t] = Registers!Returned("error")]
      /\ holder' = IF holder = t /\ Registers!UnderLock(t) THEN run[t].outer ELSE holder
  BY DEF Registers!Quit, Registers!Continue
<1>2. run[t].outer \in {t, Nobody} /\ holder \in Threads \cup {Nobody}
  BY DEF RegisterInv, Sane
<1> QED BY <1>1, <1>2, EndedInv

LEMMA RefuseInv == ASSUME RegisterInv, NEW t \in Threads, Registers!Refuse(t) PROVE RegisterInv'
BY QuitInv DEF Registers!Refuse

LEMMA TimedOutInv == ASSUME RegisterInv, NEW t \in Threads, Registers!AcquireTimesOut(t) PROVE RegisterInv'
<1>1. run' = [run EXCEPT ![t] = Registers!Returned("error")] /\ UNCHANGED <<driver, family, reg, holder>>
  BY DEF Registers!AcquireTimesOut, Registers!Continue
<1>2. holder' \in Threads \cup {Nobody}
  BY <1>1 DEF RegisterInv
<1> QED BY <1>1, <1>2, EndedInv

(* A call that goes on after a lost access tells no more than that. *)
LEMMA LostInv ==
    ASSUME RegisterInv, NEW t \in Threads, run[t].todo # <<>>, Head(run[t].todo).fails = "ignore",
           Head(run[t].todo).do \in Registers!Writes \cup Registers!Reads,
           run' = [run EXCEPT ![t] = Registers!Advanced(t, run[t].got, TRUE)], UNCHANGED <<driver, family, reg, holder>>
    PROVE  RegisterInv'
<1> DEFINE w == run[t] g == w.goal a == Head(w.todo) T == Tail(w.todo) v == run'[t] n == Registers!Advanced(t, w.got, TRUE)
<1>1. /\ w \in Works
      /\ Shaped(family, g, w.todo) /\ GotRead(t) /\ GotSet(t) /\ GotMeasured(t) /\ GotLoops(t)
      /\ a \in Elems(w.todo) /\ Elems(w.todo) = {a} \cup Elems(T)
      /\ T # <<>> => Precedes(a, Head(T))
      /\ g.kind = "set" => Within(g, a)
      /\ g.kind = "measured" => MeasuringStep(g, a)
  BY StepOf
<1>2. run \in [Threads -> Works] /\ w.got \in Fillings
  BY <1>1, WorkOf DEF RegisterInv
<1>3. v = n /\ n \in Works
  BY <1>2, AdvancedOf
<1>4. ASSUME T # <<>> PROVE GotRead(t)' /\ GotSet(t)' /\ GotMeasured(t)' /\ GotLoops(t)'
  <2>1. v.todo = T /\ v.goal = g /\ v.alone = w.alone /\ v.blind = TRUE
    BY <1>2, <1>3, <1>4, AdvancedOf
  <2>2. a.fails = "ignore"
    OBVIOUS
  <2> HIDE DEF w, g, a, T, v, n
  <2>3. GotRead(t)'
    BY <1>1, <1>4, <2>1, <2>2 DEF GotRead, Precedes, v
  <2>4. GotSet(t)'
    <3>1. SUFFICES ASSUME g.kind = "set", w.alone, \E b \in Elems(T) : b.do = "aim"
          PROVE DOMAIN g.val = {reg["target"][0]}
      BY <2>1 DEF GotSet, v
    <3>2. a.reg # "target"
      BY <1>1, <2>2, <3>1 DEF Within
    <3> QED BY <1>1, <3>1, <3>2 DEF GotSet, w, g, a
  <2>5. g.kind # "measured"
    BY <1>1, <2>2 DEF MeasuringStep
  <2> QED BY <2>1, <2>3, <2>4, <2>5 DEF GotMeasured, GotLoops, v
<1>5. Sane(t)'
  <2>1. a.do # "lock"
    BY DEF Registers!Writes, Registers!Reads
  <2> QED BY <1>2, <1>3, <1>4, <2>1, OwnSane
<1>6. holder' \in Threads \cup {Nobody}
  BY DEF RegisterInv
<1> QED BY <1>3, <1>5, <1>6, OthersStay

LEMMA LoseInv == ASSUME RegisterInv, NEW t \in Threads, Registers!Lose(t) PROVE RegisterInv'
<1>1. run[t].todo # <<>> /\ Head(run[t].todo).do \in Registers!Writes \cup Registers!Reads /\ UNCHANGED <<driver, family, reg>>
  BY DEF Registers!Lose, Registers!Doing, Registers!Step
<1>2. CASE Head(run[t].todo).fails = "ignore" /\ run' = [run EXCEPT ![t] = Registers!Advanced(t, run[t].got, TRUE)] /\ holder' = holder
  BY <1>1, <1>2, LostInv
<1>3. CASE Registers!Quit(t)
  BY <1>1, <1>3, QuitInv
<1>4. CASE run' = [run EXCEPT ![t] = Registers!Returned("error")] /\ holder' = holder
  <2>1. holder' \in Threads \cup {Nobody}
    BY <1>4 DEF RegisterInv
  <2> QED BY <1>1, <1>4, <2>1, EndedInv
<1> QED BY <1>2, <1>3, <1>4 DEF Registers!Lose, Registers!Continue, Registers!Step

LEMMA AcquireInv == ASSUME RegisterInv, NEW t \in Threads, Registers!Acquire(t) PROVE RegisterInv'
<1> DEFINE w == run[t] g == w.goal a == Head(w.todo) T == Tail(w.todo) v == run'[t] n == Registers!Advanced(t, <<>>, FALSE)
           m == [n EXCEPT !.alone = TRUE, !.outer = holder]
<1>1. /\ w.todo # <<>> /\ a.do = "lock" /\ holder \in {Nobody, t} /\ holder' = t
      /\ run' = [run EXCEPT ![t] = m] /\ UNCHANGED <<driver, family, reg>>
  BY DEF Registers!Acquire, Registers!Doing, Registers!Step, Registers!Continue
<1>2. /\ w \in Works /\ Shaped(family, g, w.todo) /\ a \in Elems(w.todo) /\ Shaped(family, g, T) /\ T # <<>>
      /\ g.kind = "measured" /\ NextMeasuring(a, Head(T))
  BY <1>1, StepOf
<1>3. run \in [Threads -> Works] /\ <<>> \in Fillings /\ w.blind \in BOOLEAN
  BY <1>2, WorkOf DEF RegisterInv, Fillings
<1>4. n \in Works /\ n.todo = T /\ n.goal = g
  BY <1>1, <1>2, <1>3, AdvancedOf
<1>5. m \in Works /\ m.todo = T /\ m.goal = g /\ m.alone = TRUE /\ m.outer = holder
  <2> HIDE DEF n
  <2> QED BY <1>1, <1>4 DEF Works
<1>6. v = m
  BY <1>1, <1>3
<1>7. Sane(t)'
  <2> HIDE DEF w, g, a, T, v, n, m
  <2>1. Head(T).do = "put"
    BY <1>1, <1>2 DEF NextMeasuring
  <2>2. GotRead(t)' /\ GotSet(t)' /\ GotMeasured(t)'
    BY <1>2, <1>5, <1>6, <2>1 DEF GotRead, GotSet, GotMeasured, v
  <2>3. family # "either_side"
    BY <1>2 DEF Shaped, Looping
  <2>4. GotLoops(t)'
    BY <1>1, <2>3 DEF GotLoops
  <2>5. v.todo = T /\ v.goal = g /\ v.outer \in {t, Nobody} /\ holder' = t
    BY <1>1, <1>5, <1>6
  <2> QED BY <1>1, <1>2, <2>2, <2>4, <2>5 DEF Sane, v
<1> QED BY <1>1, <1>5, <1>7, OthersStay

LEMMA ReleaseInv == ASSUME RegisterInv, NEW t \in Threads, Registers!Release(t) PROVE RegisterInv'
<1> DEFINE w == run[t] g == w.goal a == Head(w.todo) T == Tail(w.todo) v == run'[t] n == Registers!Advanced(t, w.got, FALSE)
<1>1. /\ w.todo # <<>> /\ a.do = "unlock" /\ holder' = w.outer
      /\ run' = [run EXCEPT ![t] = n] /\ UNCHANGED <<driver, family, reg>>
  BY DEF Registers!Release, Registers!Doing, Registers!Step, Registers!Continue
<1>2. /\ w \in Works /\ g.reg = "eye" /\ g.kind = "measured" /\ (T # <<>> => NextMeasuring(a, Head(T)))
  BY <1>1, StepOf
<1>3. run \in [Threads -> Works] /\ w.got \in Fillings /\ w.outer \in {t, Nobody}
  BY <1>2, WorkOf DEF RegisterInv, Sane
<1>4. n \in Works /\ v = n
  BY <1>1, <1>3, AdvancedOf
<1>5. T = <<>>
  <2> HIDE DEF T, a
  <2> QED BY <1>1, <1>2 DEF NextMeasuring
<1>6. Sane(t)'
  BY <1>1, <1>3, <1>4, <1>5, OwnSane
<1>7. driver = "credo" => holder = t
  <2>1. driver = "credo" => Inside(t)
    BY <1>1, <1>2 DEF Inside
  <2> QED BY <2>1 DEF RegisterInv, Sane
<1> QED BY <1>1, <1>3, <1>4, <1>6, <1>7, OthersStay

-------------------------------------------------------------------------------
(* What is written. *)
LEMMA FillingOf == ASSUME NEW v \in Fillings, NEW k \in DOMAIN v PROVE v[k] \in Contents
<1>1. v # <<>>
  BY EmptyDomain
<1> QED BY <1>1 DEF Fillings

LEMMA WrittenOf ==
    ASSUME RegisterInv, NEW t \in Threads, run[t].todo # <<>>, Head(run[t].todo).do \in Registers!Writes
    PROVE  LET a == Head(run[t].todo)
               got == run[t].got
               new == Registers!Written(t)
           IN /\ DOMAIN new = Regs(family) /\ \A r \in Regs(family) : new[r] \in Holding(family, r)
              /\ \A r \in Regs(family) : r # a.reg => new[r] = reg[r]
              /\ a.reg \in Regs(family) =>
                    /\ a.do = "put" => \A k \in FieldsOf(family, a.reg) :
                                            new[a.reg][k] = IF k \in DOMAIN a.val THEN a.val[k] ELSE reg[a.reg][k]
                    /\ a.do = "merge" => \A k \in FieldsOf(family, a.reg) :
                                            new[a.reg][k] = IF k \in DOMAIN a.val THEN a.val[k] ELSE got[k]
                    /\ a.do = "aim" => /\ reg["target"][0] \in FieldsOf(family, a.reg)
                                       /\ \A k \in FieldsOf(family, a.reg) :
                                            new[a.reg][k] = IF k = reg["target"][0] THEN a.val[0] ELSE reg[a.reg][k]
                    /\ a.do = "start" => new[a.reg][0] = 0 /\ new[a.reg][1] = a.val[0] /\ new[a.reg][2] = 1
<1> DEFINE w == run[t] a == Head(w.todo) got == w.got new == Registers!Written(t) F == FieldsOf(family, a.reg)
<1>1. /\ a \in Accesses /\ Fits(family, a) /\ GotRead(t) /\ Registers!Step(t) = a
  BY StepOf
<1>2. a.do \in {"put", "merge", "aim", "start"} /\ a.val \in Fillings
  BY <1>1 DEF Registers!Writes, Accesses
<1>3. DOMAIN reg = Regs(family) /\ \A r \in Regs(family) : reg[r] \in Holding(family, r)
  BY DEF RegisterInv, RegisterContents
<1>4. Furnished(family)
  BY FamiliesOf DEF RegisterInv
<1>5. CASE a.reg \notin Regs(family)
  <2>1. new = reg
    BY <1>1, <1>3, <1>5 DEF Registers!Written
  <2> QED BY <1>3, <1>5, <2>1
<1>6. CASE a.reg \in Regs(family)
  <2>1. ASSUME NEW x \in [F -> Contents], new = [reg EXCEPT ![a.reg] = x]
        PROVE  /\ DOMAIN new = Regs(family) /\ \A r \in Regs(family) : new[r] \in Holding(family, r)
               /\ \A r \in Regs(family) : r # a.reg => new[r] = reg[r]
               /\ new[a.reg] = x
    <3>1. x \in Holding(family, a.reg)
      BY DEF Holding
    <3> HIDE DEF new, a
    <3> QED BY <1>3, <1>6, <2>1, <3>1
  <2>2. reg[a.reg] \in [F -> Contents]
    BY <1>3, <1>6 DEF Holding
  <2>3. a.do \in {"put", "merge"} => DOMAIN a.val \subseteq F
    BY <1>1, <1>6 DEF Fits
  <2>4. \A k \in DOMAIN a.val : a.val[k] \in Contents
    BY <1>2, FillingOf
  <2>5. CASE a.do = "put"
    <3> DEFINE x == [k \in F |-> IF k \in DOMAIN a.val THEN a.val[k] ELSE reg[a.reg][k]]
    <3>1. Registers!@@(a.val, reg[a.reg]) = x
      <4>1. DOMAIN reg[a.reg] = F /\ DOMAIN a.val \cup F = F
        BY <2>2, <2>3, <2>5
      <4> HIDE DEF F, a
      <4> QED BY <4>1 DEF Registers!@@
    <3>2. new = [reg EXCEPT ![a.reg] = x]
      BY <1>1, <1>3, <1>6, <2>5, <3>1 DEF Registers!Written
    <3>3. x \in [F -> Contents]
      BY <2>2, <2>4
    <3>4. \A k \in F : x[k] = IF k \in DOMAIN a.val THEN a.val[k] ELSE reg[a.reg][k]
      OBVIOUS
    <3> HIDE DEF x, new, F, a
    <3> QED BY <1>6, <2>1, <2>5, <3>2, <3>3, <3>4 DEF F, a, new
  <2>6. CASE a.do = "merge"
    <3> DEFINE x == [k \in F |-> IF k \in DOMAIN a.val THEN a.val[k] ELSE got[k]]
    <3>0. got \in [F -> Contents]
      BY <1>1, <2>6 DEF GotRead, Holding
    <3>1. Registers!@@(a.val, got) = x
      <4>1. DOMAIN got = F /\ DOMAIN a.val \cup F = F
        BY <2>3, <2>6, <3>0
      <4> HIDE DEF F, a, got
      <4> QED BY <4>1 DEF Registers!@@
    <3>2. new = [reg EXCEPT ![a.reg] = x]
      BY <1>1, <1>3, <1>6, <2>6, <3>1 DEF Registers!Written
    <3>3. x \in [F -> Contents]
      BY <2>4, <3>0
    <3>4. \A k \in F : x[k] = IF k \in DOMAIN a.val THEN a.val[k] ELSE got[k]
      OBVIOUS
    <3> HIDE DEF x, new, F, a, got
    <3> QED BY <1>6, <2>1, <2>6, <3>2, <3>3, <3>4 DEF F, a, new, got
  <2>7. CASE a.do = "aim"
    <3> DEFINE c == reg["target"][0] x == [reg[a.reg] EXCEPT ![c] = a.val[0]]
    <3>1. c \in F /\ a.val[0] \in Contents
      <4>1. c \in Ends /\ F = Ends
        BY <1>1, <1>4, <1>6, <2>7 DEF Fits, Furnished, RegisterInv, RegisterContents
      <4> QED BY <1>1, <2>4, <2>7, <4>1 DEF Fits
    <3>2. new = [reg EXCEPT ![a.reg] = x]
      BY <1>1, <1>3, <1>6, <2>7 DEF Registers!Written
    <3>3. x \in [F -> Contents] /\ \A k \in F : x[k] = IF k = c THEN a.val[0] ELSE reg[a.reg][k]
      <4> HIDE DEF c, F, a
      <4> QED BY <2>2, <3>1
    <3> HIDE DEF x, new, F, a, c
    <3> QED BY <1>6, <2>1, <2>7, <3>1, <3>2, <3>3 DEF F, a, new, c
  <2>8. CASE a.do = "start"
    <3> DEFINE x == [k \in F |-> IF k = 0 THEN 0 ELSE IF k = 1 THEN a.val[0] ELSE 1]
    <3>1. F = {0, 1, 2} /\ a.val[0] \in Contents
      <4>1. F = {0, 1, 2}
        BY <1>1, <1>4, <1>6, <2>8 DEF Fits, Furnished
      <4> QED BY <1>1, <2>4, <2>8, <4>1 DEF Fits
    <3>2. Registers!@@(Registers!@@(Registers!:>(0, 0), Registers!:>(1, a.val[0])), Registers!:>(2, 1)) = x
      <4> HIDE DEF F, a
      <4> QED BY <3>1 DEF Registers!@@, Registers!:>
    <3>3. new = [reg EXCEPT ![a.reg] = x]
      BY <1>1, <1>3, <1>6, <2>8, <3>2 DEF Registers!Written
    <3>4. x \in [F -> Contents] /\ x[0] = 0 /\ x[1] = a.val[0] /\ x[2] = 1
      <4> HIDE DEF F, a
      <4> QED BY <3>1 DEF Contents
    <3> HIDE DEF x, new, F, a
    <3> QED BY <1>6, <2>1, <2>8, <3>3, <3>4 DEF F, a, new
  <2> QED BY <1>2, <2>5, <2>6, <2>7, <2>8
<1> QED BY <1>5, <1>6

LEMMA WrittenContents ==
    ASSUME RegisterInv, NEW t \in Threads, run[t].todo # <<>>, Head(run[t].todo).do \in Registers!Writes,
           reg' = Registers!Written(t), family' = family
    PROVE  RegisterContents'
<1> DEFINE a == Head(run[t].todo)
<1>1. a \in Accesses /\ Fits(family, a)
  BY StepOf
<1>2. /\ DOMAIN reg' = Regs(family) /\ \A r \in Regs(family) : reg'[r] \in Holding(family, r)
      /\ \A r \in Regs(family) : r # a.reg => reg'[r] = reg[r]
      /\ a.reg \in Regs(family) =>
            /\ a.do = "put" => \A k \in FieldsOf(family, a.reg) :
                                    reg'[a.reg][k] = IF k \in DOMAIN a.val THEN a.val[k] ELSE reg[a.reg][k]
            /\ a.do = "start" => reg'[a.reg][0] = 0 /\ reg'[a.reg][1] = a.val[0] /\ reg'[a.reg][2] = 1
  BY WrittenOf
<1>3. RegisterContents /\ Furnished(family)
  BY FamiliesOf DEF RegisterInv
<1>4. a.do \in {"put", "merge", "aim", "start"}
  BY DEF Registers!Writes
<1> HIDE DEF a
<1>5. ASSUME "target" \in Regs(family) PROVE reg'["target"][0] \in Ends
  <2>1. CASE a.reg = "target"
    <3>1. a.do = "put" /\ 0 \in DOMAIN a.val /\ a.val[0] \in Ends /\ 0 \in FieldsOf(family, "target")
      BY <1>1, <1>3, <1>5, <2>1 DEF Fits, Furnished
    <3> QED BY <1>2, <1>5, <2>1, <3>1
  <2>2. CASE a.reg # "target"
    BY <1>2, <1>3, <1>5, <2>2 DEF RegisterContents
  <2> QED BY <2>1, <2>2
<1>6. ASSUME NEW r \in Regs(family) \cap Registers!Measurements, reg'[r][0] = 1 PROVE reg'[r][2] # 1
  <2>1. CASE a.reg = r
    <3>1. a.do = "start"
      BY <1>1, <1>4, <1>6, <2>1 DEF Fits
    <3> QED BY <1>2, <1>6, <2>1, <3>1
  <2>2. CASE a.reg # r
    BY <1>2, <1>3, <1>6, <2>2 DEF RegisterContents
  <2> QED BY <2>1, <2>2
<1>7. ASSUME "apply" \in Regs(family) PROVE reg'["apply"][0] \in {0, 1}
  <2>1. CASE a.reg = "apply"
    <3>1. family = "application"
      BY <1>7, FamiliesOf, Reacting DEF RegisterInv
    <3>2. a.do = "put" /\ 0 \in DOMAIN a.val /\ a.val[0] \in {0, 1} /\ 0 \in FieldsOf(family, "apply")
      BY <1>1, <2>1, <3>1, Reacting DEF Fits
    <3> QED BY <1>2, <1>7, <2>1, <3>2
  <2>2. CASE a.reg # "apply"
    BY <1>2, <1>3, <1>7, <2>2 DEF RegisterContents
  <2> QED BY <2>1, <2>2
<1> QED BY <1>2, <1>5, <1>6, <1>7 DEF RegisterContents, Holding, FieldsOf, Regs

(* What an access makes of a field that the call is to set. *)
LEMMA FieldWritten ==
    ASSUME RegisterInv, NEW t \in Threads, run[t].todo # <<>>, Head(run[t].todo).do \in Registers!Writes,
           run[t].goal.kind = "set", run[t].alone, NEW k \in DOMAIN run[t].goal.val
    PROVE  LET g == run[t].goal
               a == Head(run[t].todo)
               new == Registers!Written(t)
           IN /\ Right(g, a, k) => new[g.reg][k] = g.val[k]
              /\ ~Right(g, a, k) /\ ~Wrong(g, a, k) => new[g.reg][k] = reg[g.reg][k]
<1> DEFINE w == run[t] g == w.goal a == Head(w.todo) new == Registers!Written(t)
<1>1. /\ a \in Accesses /\ Fits(family, a) /\ a \in Elems(w.todo) /\ GotRead(t) /\ GotSet(t)
      /\ Setting(family, g, w.todo) /\ Within(g, a)
  BY StepOf
<1>2. /\ \A r \in Regs(family) : r # a.reg => new[r] = reg[r]
      /\ a.reg \in Regs(family) =>
                    /\ a.do = "put" => \A j \in FieldsOf(family, a.reg) :
                                            new[a.reg][j] = IF j \in DOMAIN a.val THEN a.val[j] ELSE reg[a.reg][j]
                    /\ a.do = "merge" => \A j \in FieldsOf(family, a.reg) :
                                            new[a.reg][j] = IF j \in DOMAIN a.val THEN a.val[j] ELSE w.got[j]
                    /\ a.do = "aim" => /\ reg["target"][0] \in FieldsOf(family, a.reg)
                                       /\ \A j \in FieldsOf(family, a.reg) :
                                            new[a.reg][j] = IF j = reg["target"][0] THEN a.val[0] ELSE reg[a.reg][j]
  BY WrittenOf
<1>3. g.reg \in Regs(family) /\ g.reg \notin Registers!Measurements \cup {"target"} /\ k \in FieldsOf(family, g.reg)
  BY <1>1 DEF Setting
<1>4. a.do \in {"put", "merge", "aim", "start"} /\ a.do \in Registers!Writes
  BY DEF Registers!Writes
<1>5. a.do = "aim" => DOMAIN g.val = {reg["target"][0]}
  <2>1. a.do = "aim" => a.reg # "target"
    BY <1>1 DEF Fits
  <2> QED BY <1>1, <2>1 DEF GotSet
<1>6. a.do = "merge" /\ a.reg = g.reg => w.got = reg[g.reg]
  BY <1>1 DEF GotRead
<1> SUFFICES /\ Right(g, a, k) => new[g.reg][k] = g.val[k]
             /\ ~Right(g, a, k) /\ ~Wrong(g, a, k) => new[g.reg][k] = reg[g.reg][k]
  OBVIOUS
<1> HIDE DEF w, g, a, new
<1>7. CASE a.reg # g.reg
  BY <1>2, <1>3, <1>7 DEF Right, Touches
<1>8. CASE a.reg = g.reg
  <2>1. a.do # "start"
    BY <1>1, <1>3, <1>8 DEF Fits
  <2>2. Touches(g, a)
    BY <1>4, <1>8 DEF Touches
  <2>3. CASE a.do = "put"
    BY <1>2, <1>3, <1>8, <2>2, <2>3 DEF Right, Wrong
  <2>4. CASE a.do = "merge"
    BY <1>2, <1>3, <1>6, <1>8, <2>2, <2>4 DEF Right, Wrong
  <2>5. CASE a.do = "aim"
    <3>1. k = reg["target"][0]
      BY <1>5, <2>5 DEF g, w
    <3> QED BY <1>2, <1>3, <1>8, <2>2, <2>5, <3>1 DEF Right, Wrong
  <2> QED BY <1>4, <2>1, <2>3, <2>4, <2>5
<1> QED BY <1>7, <1>8

(* Who is to be told is disturbed. *)
LEMMA OthersDisturbed ==
    ASSUME RegisterInv, NEW t \in Threads, Registers!Doing(t, Registers!Writes), UNCHANGED <<driver, family, holder>>,
           reg' = Registers!Written(t), NEW v \in Works, run' = [Registers!Disturb(t) EXCEPT ![t] = v], Sane(t)'
    PROVE  RegisterInv'
<1>1. run \in [Threads -> Works]
  BY DEF RegisterInv
<1> DEFINE x(u) == run[u].alone /\ (u = t \/ run[u].todo = <<>> \/ (Registers!UnderLock(t) /\ Registers!UnderLock(u)))
<1>2. \A u \in Threads : Registers!Disturb(t)[u] = [run[u] EXCEPT !.alone = x(u)]
  BY DEF Registers!Disturb
<1>3. DOMAIN Registers!Disturb(t) = Threads
  BY DEF Registers!Disturb
<1>4. \A u \in Threads \ {t} : run'[u] = [run[u] EXCEPT !.alone = x(u)]
  BY <1>2, <1>3
<1>5. \A u \in Threads \ {t} : run'[u] \in Works
  <2>1. SUFFICES ASSUME NEW u \in Threads \ {t} PROVE run'[u] \in Works
    OBVIOUS
  <2>2. run[u] \in Works
    BY <1>1
  <2>3. x(u) \in BOOLEAN
    BY <2>2, WorkOf
  <2>4. run'[u] = [run[u] EXCEPT !.alone = x(u)]
    BY <1>4
  <2> HIDE DEF x
  <2> QED BY <2>2, <2>3, <2>4, WorkOf
<1>6. run' \in [Threads -> Works]
  <2>1. run'[t] = v
    BY <1>3
  <2>2. DOMAIN run' = Threads
    BY <1>3
  <2>3. run' = [u \in Threads |-> run'[u]]
    BY <1>3
  <2> QED BY <1>5, <2>1, <2>2, <2>3
<1>7. \A u \in Threads \ {t} : Sane(u)'
  BY <1>4, Disturbed
<1>8. RegisterContents'
  BY WrittenContents DEF Registers!Doing, Registers!Step
<1> QED BY <1>6, <1>7, <1>8 DEF RegisterInv

LEMMA WriteInv == ASSUME RegisterInv, NEW t \in Threads, Registers!Write(t) PROVE RegisterInv'
<1> DEFINE w == run[t] g == w.goal a == Head(w.todo) T == Tail(w.todo) v == run'[t] n == Registers!Advanced(t, w.got, FALSE)
<1>1. /\ w.todo # <<>> /\ a.do \in Registers!Writes /\ reg' = Registers!Written(t) /\ Registers!Doing(t, Registers!Writes)
      /\ run' = [Registers!Disturb(t) EXCEPT ![t] = n] /\ UNCHANGED <<driver, family, holder>>
  BY DEF Registers!Write, Registers!Doing, Registers!Step
<1>2. /\ w \in Works
      /\ Shaped(family, g, w.todo) /\ GotRead(t) /\ GotSet(t) /\ GotMeasured(t) /\ GotLoops(t)
      /\ a \in Accesses /\ Fits(family, a) /\ a \in Elems(w.todo)
      /\ Elems(w.todo) = {a} \cup Elems(T) /\ Shaped(family, g, T)
      /\ T # <<>> => /\ Precedes(a, Head(T)) /\ Fits(family, Head(T))
                     /\ g.kind = "measured" => NextMeasuring(a, Head(T))
                     /\ family = "either_side" => a.do \notin Registers!Writes
      /\ g.kind = "set" => /\ Setting(family, g, w.todo) /\ Within(g, a)
                           /\ \A k \in DOMAIN g.val : Wrong(g, a, k) => \E b \in Elems(T) : Right(g, b, k)
      /\ g.kind = "measured" => Measuring(family, g, w.todo) /\ MeasuringStep(g, a)
  BY <1>1, StepOf
<1>3. run \in [Threads -> Works] /\ w.got \in Fillings /\ w.blind \in BOOLEAN
  BY <1>2, WorkOf DEF RegisterInv
<1>4. n \in Works
  BY <1>1, <1>3, AdvancedOf
<1>5. v = n
  BY <1>1 DEF Registers!Disturb
<1>6. Furnished(family)
  BY FamiliesOf DEF RegisterInv
<1>7. a.do \in {"put", "merge", "aim", "start"}
  BY <1>1 DEF Registers!Writes
<1>8. /\ \A r \in Regs(family) : r # a.reg => reg'[r] = reg[r]
      /\ a.reg \in Regs(family) =>
            /\ a.do = "put" => \A k \in FieldsOf(family, a.reg) :
                                    reg'[a.reg][k] = IF k \in DOMAIN a.val THEN a.val[k] ELSE reg[a.reg][k]
            /\ a.do = "start" => reg'[a.reg][0] = 0 /\ reg'[a.reg][1] = a.val[0] /\ reg'[a.reg][2] = 1
  BY <1>1, WrittenOf
<1>9. ASSUME T # <<>> PROVE GotRead(t)' /\ GotSet(t)' /\ GotMeasured(t)' /\ GotLoops(t)'
  <2>1. v.todo = T /\ v.goal = g /\ v.alone = w.alone /\ v.blind = w.blind
    <3>1. w.todo # <<>>
      BY <1>1
    <3>2. n.todo = T /\ n.goal = g /\ n.alone = w.alone /\ n.blind = (w.blind \/ FALSE)
      BY <1>3, <1>9, <3>1, AdvancedOf
    <3> HIDE DEF n, T, g, w
    <3> QED BY <1>3, <1>5, <3>2
  <2>2. g.kind = "set" /\ w.alone => \A k \in DOMAIN g.val :
                /\ Right(g, a, k) => reg'[g.reg][k] = g.val[k]
                /\ ~Right(g, a, k) /\ ~Wrong(g, a, k) => reg'[g.reg][k] = reg[g.reg][k]
    BY <1>1, FieldWritten
  <2> HIDE DEF w, g, a, T, v, n
  <2>3. GotRead(t)'
    BY <1>2, <1>7, <1>9, <2>1 DEF GotRead, Precedes, v
  <2>4. GotSet(t)'
    <3>1. SUFFICES ASSUME g.kind = "set", w.alone
          PROVE /\ (\E b \in Elems(T) : b.do = "aim") /\ Head(T).reg # "target" => DOMAIN g.val = {reg'["target"][0]}
                /\ ~w.blind => \A k \in DOMAIN g.val : (\E b \in Elems(T) : Right(g, b, k)) \/ reg'[g.reg][k] = g.val[k]
      BY <2>1 DEF GotSet, v
    <3>2. /\ (\E b \in Elems(w.todo) : b.do = "aim") /\ a.reg # "target" => DOMAIN g.val = {reg["target"][0]}
          /\ ~w.blind => \A k \in DOMAIN g.val : (\E b \in Elems(w.todo) : Right(g, b, k)) \/ reg[g.reg][k] = g.val[k]
      BY <1>2, <3>1 DEF GotSet, w, g, a
    <3>3. ASSUME NEW b \in Elems(T), b.do = "aim" PROVE DOMAIN g.val = {reg'["target"][0]}
      <4>1. "target" \in Regs(family)
        <5>1. b \in Elems(w.todo) /\ w.todo \in Seq(Fitting(family))
          BY <1>2 DEF Shaped
        <5>2. b \in Fitting(family)
          BY <5>1, ElemIn
        <5> QED BY <3>3, <5>2 DEF Fitting, Fits
      <4>2. CASE a.reg = "target"
        <5>1. a.do = "put" /\ DOMAIN a.val = {0} /\ DOMAIN g.val = {a.val[0]}
          BY <1>2, <3>1, <4>2 DEF Fits, Within
        <5>2. 0 \in FieldsOf(family, "target")
          BY <1>6, <4>1 DEF Furnished
        <5>3. reg'["target"][0] = a.val[0]
          BY <1>8, <4>1, <4>2, <5>1, <5>2
        <5> QED BY <5>1, <5>3
      <4>3. CASE a.reg # "target"
        <5>1. reg'["target"] = reg["target"]
          BY <1>8, <4>1, <4>3
        <5>2. b \in Elems(w.todo)
          BY <1>2
        <5> QED BY <3>2, <3>3, <4>3, <5>1, <5>2
      <4> QED BY <4>2, <4>3
    <3>4. ASSUME ~w.blind, NEW k \in DOMAIN g.val, ~\E b \in Elems(T) : Right(g, b, k) PROVE reg'[g.reg][k] = g.val[k]
      <4>1. ~Wrong(g, a, k)
        BY <1>2, <3>1, <3>4
      <4>2. Right(g, a, k) \/ reg[g.reg][k] = g.val[k]
        BY <1>2, <3>2, <3>4
      <4> QED BY <2>2, <3>1, <4>1, <4>2
    <3> QED BY <3>3, <3>4
  <2>5. GotMeasured(t)'
    <3>1. SUFFICES ASSUME g.kind = "measured", w.alone
          PROVE /\ Head(T).do \notin {"lock", "put"} /\ g.reg # "type" => reg'["target"][0] = g.val[0]
                /\ Head(T).do \in {"await", "get"} /\ g.reg = "type" => reg'["type"][1] = g.val[0]
                /\ Head(T).do = "await" => reg'[g.reg][2] = 1
                /\ Head(T).do \notin {"get", "unlock"}
      BY <2>1 DEF GotMeasured, v
    <3>2. a.do \notin {"lock", "put"} /\ g.reg # "type" => reg["target"][0] = g.val[0]
      BY <1>2, <3>1 DEF GotMeasured, w, g, a
    <3>3. g.reg \in Registers!Measurements \cap Regs(family) /\ (g.reg # "type" => "target" \in Regs(family))
      BY <1>2, <1>6, <3>1 DEF Measuring, Furnished
    <3>4. CASE a.do = "put"
      <4>1. Head(T).do = "start" /\ a.reg = "target" /\ a.val[0] = g.val[0]
        BY <1>2, <1>9, <3>1, <3>4 DEF NextMeasuring, MeasuringStep
      <4>2. g.reg # "type" => reg'["target"][0] = g.val[0]
        <5>1. SUFFICES ASSUME g.reg # "type" PROVE reg'["target"][0] = g.val[0]
          OBVIOUS
        <5>2. 0 \in FieldsOf(family, "target") /\ 0 \in DOMAIN a.val
          BY <1>2, <1>6, <3>3, <4>1, <5>1 DEF Furnished, Fits
        <5> QED BY <1>8, <3>3, <3>4, <4>1, <5>1, <5>2
      <4> QED BY <4>1, <4>2
    <3>5. CASE a.do = "start"
      <4>1. Head(T).do = "await" /\ a.reg = g.reg /\ (g.reg = "type" => a.val[0] = g.val[0])
        BY <1>2, <1>9, <3>1, <3>5 DEF NextMeasuring, MeasuringStep
      <4>2. g.reg # "target"
        BY <3>3 DEF Registers!Measurements
      <4>3. reg'[g.reg][2] = 1 /\ reg'[g.reg][1] = a.val[0]
        BY <1>8, <3>3, <3>5, <4>1
      <4>4. g.reg # "type" => reg'["target"][0] = g.val[0]
        BY <1>8, <3>2, <3>3, <3>5, <4>1, <4>2
      <4> QED BY <4>1, <4>3, <4>4
    <3>6. a.do \notin {"merge", "aim"}
      BY <1>2, <3>1 DEF MeasuringStep
    <3> QED BY <1>7, <3>4, <3>5, <3>6
  <2>6. GotLoops(t)'
    BY <1>1, <1>2, <1>9 DEF GotLoops
  <2> QED BY <2>3, <2>4, <2>5, <2>6
<1>10. Sane(t)'
  <2>1. a.do # "lock"
    BY <1>7
  <2> QED BY <1>1, <1>3, <1>5, <1>9, <2>1, OwnSane
<1> QED BY <1>1, <1>4, <1>10, OthersDisturbed

(* A request of the simulator that is repeated. *)
LEMMA WriteAgainInv == ASSUME RegisterInv, NEW t \in Threads, Registers!WriteAgain(t) PROVE RegisterInv'
<1> DEFINE w == run[t] g == w.goal a == Head(w.todo)
<1>1. /\ driver = "simulated" /\ w.todo # <<>> /\ a.do \in Registers!Writes /\ Registers!Doing(t, Registers!Writes)
      /\ reg' = Registers!Written(t) /\ run' = Registers!Disturb(t) /\ UNCHANGED <<driver, family, holder>>
  BY DEF Registers!WriteAgain, Registers!Doing, Registers!Step
<1>2. /\ w \in Works /\ Shaped(family, g, w.todo) /\ GotSet(t) /\ a \in Accesses /\ Fits(family, a) /\ a \in Elems(w.todo)
      /\ Elems(w.todo) = {a} \cup Elems(Tail(w.todo))
      /\ g.kind = "set" => /\ Setting(family, g, w.todo) /\ Within(g, a)
                           /\ \A k \in DOMAIN g.val : Wrong(g, a, k) => \E b \in Elems(Tail(w.todo)) : Right(g, b, k)
      /\ g.kind = "measured" => Measuring(family, g, w.todo)
  BY <1>1, StepOf
<1>3. Plain(family) /\ family \in {"mux", "flaps"}
  BY <1>1, FamiliesOf DEF RegisterInv
<1>4. a.do = "put"
  BY <1>1, <1>2, <1>3 DEF Fits, Shaped, Plain, Registers!Writes
<1>5. run'[t] = w
  <2>1. run'[t] = [w EXCEPT !.alone = w.alone /\ (t = t \/ w.todo = <<>> \/ (Registers!UnderLock(t) /\ Registers!UnderLock(t)))]
    BY <1>1 DEF Registers!Disturb
  <2>2. (w.alone /\ (t = t \/ w.todo = <<>> \/ (Registers!UnderLock(t) /\ Registers!UnderLock(t)))) = w.alone /\ w.alone \in BOOLEAN
    BY <1>2, WorkOf
  <2> QED BY <1>2, <2>1, <2>2, WorkOf
<1>6. run' = [Registers!Disturb(t) EXCEPT ![t] = w]
  BY <1>1, <1>5 DEF Registers!Disturb
<1>7. GotSet(t)'
  <2>1. SUFFICES ASSUME g.kind = "set", w.alone
        PROVE  /\ (\E b \in Elems(w.todo) : b.do = "aim") /\ a.reg # "target" => DOMAIN g.val = {reg'["target"][0]}
               /\ ~w.blind => \A k \in DOMAIN g.val : (\E b \in Elems(w.todo) : Right(g, b, k)) \/ reg'[g.reg][k] = g.val[k]
    BY <1>5 DEF GotSet
  <2>2. \A k \in DOMAIN g.val : ~Right(g, a, k) /\ ~Wrong(g, a, k) => reg'[g.reg][k] = reg[g.reg][k]
    BY <1>1, <2>1, FieldWritten
  <2>3. ~w.blind => \A k \in DOMAIN g.val : (\E b \in Elems(w.todo) : Right(g, b, k)) \/ reg[g.reg][k] = g.val[k]
    BY <1>2, <2>1 DEF GotSet
  <2>4. ASSUME NEW b \in Elems(w.todo) PROVE b.do # "aim"
    <3>1. b \in Fitting(family)
      BY <1>2, ElemIn DEF Shaped
    <3> QED BY <1>3, <3>1 DEF Fitting, Fits, Plain
  <2> HIDE DEF w, g, a
  <2>5. ASSUME ~w.blind, NEW k \in DOMAIN g.val, ~\E b \in Elems(w.todo) : Right(g, b, k) PROVE reg'[g.reg][k] = g.val[k]
    BY <1>2, <2>1, <2>2, <2>3, <2>5
  <2> QED BY <2>4, <2>5
<1>8. Sane(t)'
  <2>1. Sane(t)
    BY DEF RegisterInv
  <2>2. g.kind # "measured" /\ family # "either_side"
    BY <1>2, <1>3 DEF Measuring, Plain
  <2>3. GotRead(t)' /\ GotMeasured(t)' /\ GotLoops(t)'
    BY <1>1, <1>4, <1>5, <2>2 DEF GotRead, GotMeasured, GotLoops
  <2>4. ~Inside(t)'
    BY <1>1 DEF Inside
  <2> HIDE DEF w, g, a
  <2> QED BY <1>1, <1>2, <1>5, <1>7, <2>1, <2>3, <2>4 DEF Sane, w, g
<1> QED BY <1>1, <1>2, <1>6, <1>8, OthersDisturbed

(* The device finishes a measurement: of what is under way, and of the end   *)
(* that was asked for as long as nobody writes another.                      *)
LEMMA FinishInv == ASSUME RegisterInv, Registers!Finish PROVE RegisterInv'
<1>1. PICK r \in Registers!Measurements \cap DOMAIN reg : reg[r][2] = 1 /\ reg' = Registers!Measure(r)
  BY DEF Registers!Finish
<1>2. UNCHANGED <<driver, family, holder, run>>
  BY DEF Registers!Finish
<1>3. Furnished(family) /\ RegisterContents /\ r \in Regs(family) /\ DOMAIN reg = Regs(family)
  BY <1>1, FamiliesOf DEF RegisterInv, RegisterContents
<1> DEFINE result == CASE r = "type" -> reg[r][1] [] r = "sync" -> reg["loop"][reg["target"][0]] [] OTHER -> reg["target"][0]
           x == [k \in {0, 1, 2} |-> IF k = 0 THEN 1 ELSE IF k = 1 THEN result ELSE 0]
<1>4. reg' = [reg EXCEPT ![r] = x]
  <2>1. Registers!@@(Registers!@@(Registers!:>(0, 1), Registers!:>(1, result)), Registers!:>(2, 0)) = x
    <3> HIDE DEF result
    <3> QED BY DEF Registers!@@, Registers!:>
  <2> QED BY <1>1, <2>1 DEF Registers!Measure
<1>5. result \in Contents
  <2>1. CASE r = "type"
    <3>1. reg[r] \in [{0, 1, 2} -> Contents]
      BY <1>1, <1>3 DEF RegisterContents, Holding, Furnished
    <3> QED BY <2>1, <3>1
  <2>2. CASE r # "type"
    <3>1. "target" \in Regs(family) /\ reg["target"][0] \in Ends
      BY <1>1, <1>3, <2>2 DEF Furnished, RegisterContents
    <3>2. Ends \subseteq Contents
      BY PartsAssumption DEF Registers!RegisterAssumption, Contents
    <3>3. r = "sync" => reg["loop"] \in [Ends -> Contents]
      BY <1>1, <1>3 DEF Furnished, RegisterContents, Holding
    <3> QED BY <2>2, <3>1, <3>2, <3>3
  <2> QED BY <2>1, <2>2
<1>6. x \in [{0, 1, 2} -> Contents] /\ x[0] = 1 /\ x[1] = result /\ x[2] = 0
  <2> HIDE DEF result
  <2> QED BY <1>5 DEF Contents
<1>7. DOMAIN reg' = Regs(family) /\ reg'[r] = x /\ \A q \in Regs(family) : q # r => reg'[q] = reg[q]
  <2> HIDE DEF x
  <2> QED BY <1>3, <1>4
<1>8. r \in Registers!Measurements /\ r # "target" /\ r # "loop" /\ FieldsOf(family, r) = {0, 1, 2}
  BY <1>1, <1>3 DEF Registers!Measurements, Furnished
<1> HIDE DEF x
<1>9. RegisterContents'
  <2>1. \A q \in Regs(family) : reg'[q] \in Holding(family, q)
    BY <1>3, <1>6, <1>7, <1>8 DEF RegisterContents, Holding
  <2>2. "target" \in Regs(family) => reg'["target"][0] \in Ends
    BY <1>3, <1>7, <1>8 DEF RegisterContents
  <2>3. \A q \in Regs(family) \cap Registers!Measurements : reg'[q][0] = 1 => reg'[q][2] # 1
    BY <1>3, <1>6, <1>7 DEF RegisterContents
  <2>4. "apply" \in Regs(family) => reg'["apply"][0] \in {0, 1}
    BY <1>3, <1>7, <1>8 DEF RegisterContents, Registers!Measurements
  <2> QED BY <1>2, <1>7, <2>1, <2>2, <2>3, <2>4 DEF RegisterContents, Holding, FieldsOf, Regs
<1>10. ASSUME NEW t \in Threads, run[t].todo # <<>> PROVE GotRead(t)' /\ GotSet(t)' /\ GotMeasured(t)' /\ GotLoops(t)'
  <2> DEFINE w == run[t] g == w.goal a == Head(w.todo)
  <2>1. /\ Shaped(family, g, w.todo) /\ GotRead(t) /\ GotSet(t) /\ GotMeasured(t) /\ GotLoops(t)
        /\ a \in Accesses /\ Fits(family, a) /\ a \in Elems(w.todo)
        /\ g.kind = "set" => Setting(family, g, w.todo)
        /\ g.kind = "measured" => Measuring(family, g, w.todo) /\ MeasuringStep(g, a)
    BY <1>10, StepOf
  <2>2. run'[t] = w
    BY <1>2
  <2> HIDE DEF w, g, a
  <2>3. GotRead(t)'
    <3>1. a.do = "merge" => a.reg \in Regs(family) /\ a.reg # r
      BY <1>8, <2>1 DEF Fits
    <3>2. a.do = "merge" => w.got \in Holding(family, a.reg) /\ (w.alone /\ a.reg = g.reg => w.got = reg[a.reg])
      BY <2>1 DEF GotRead, w, g, a
    <3> QED BY <1>2, <1>7, <2>2, <3>1, <3>2 DEF GotRead, Holding, FieldsOf, w, g, a
  <2>4. GotSet(t)'
    <3>1. SUFFICES ASSUME g.kind = "set", w.alone
          PROVE /\ (\E b \in Elems(w.todo) : b.do = "aim") /\ a.reg # "target" => DOMAIN g.val = {reg'["target"][0]}
                /\ ~w.blind => \A k \in DOMAIN g.val : (\E b \in Elems(w.todo) : Right(g, b, k)) \/ reg'[g.reg][k] = g.val[k]
      BY <2>2 DEF GotSet, w, g, a
    <3>2. /\ (\E b \in Elems(w.todo) : b.do = "aim") /\ a.reg # "target" => DOMAIN g.val = {reg["target"][0]}
          /\ ~w.blind => \A k \in DOMAIN g.val : (\E b \in Elems(w.todo) : Right(g, b, k)) \/ reg[g.reg][k] = g.val[k]
      BY <2>1, <3>1 DEF GotSet, w, g, a
    <3>3. reg'[g.reg] = reg[g.reg]
      BY <1>7, <1>8, <2>1, <3>1 DEF Setting
    <3>4. ASSUME NEW b \in Elems(w.todo), b.do = "aim" PROVE reg'["target"] = reg["target"]
      <4>1. b \in Fitting(family)
        BY <2>1, ElemIn DEF Shaped
      <4>2. "target" \in Regs(family)
        BY <3>4, <4>1 DEF Fitting, Fits
      <4> QED BY <1>7, <1>8, <4>2
    <3> QED BY <3>2, <3>3, <3>4
  <2>5. GotMeasured(t)'
    <3>1. SUFFICES ASSUME g.kind = "measured", w.alone
          PROVE /\ a.do \notin {"lock", "put"} /\ g.reg # "type" => reg'["target"][0] = g.val[0]
                /\ a.do \in {"await", "get"} /\ g.reg = "type" => reg'["type"][1] = g.val[0]
                /\ a.do = "await" => (reg'[g.reg][2] # 1 => reg'[g.reg][1] = Registers!Asked(g)')
                /\ a.do = "get" => reg'[g.reg][2] # 1 /\ reg'[g.reg][1] = Registers!Asked(g)'
                /\ a.do = "unlock" => w.got[1] = g.val[0]
      BY <2>2 DEF GotMeasured, Registers!Asked, w, g, a
    <3>2. /\ a.do \notin {"lock", "put"} /\ g.reg # "type" => reg["target"][0] = g.val[0]
          /\ a.do \in {"await", "get"} /\ g.reg = "type" => reg["type"][1] = g.val[0]
          /\ a.do = "await" => (reg[g.reg][2] # 1 => reg[g.reg][1] = Registers!Asked(g))
          /\ a.do = "get" => reg[g.reg][2] # 1 /\ reg[g.reg][1] = Registers!Asked(g)
          /\ a.do = "unlock" => w.got[1] = g.val[0]
      BY <2>1, <3>1 DEF GotMeasured, w, g, a
    <3>3. g.reg \in Registers!Measurements \cap Regs(family) /\ (g.reg # "type" => "target" \in Regs(family))
          /\ (g.reg = "sync" => "loop" \in Regs(family))
      BY <1>3, <2>1, <3>1 DEF Measuring, Furnished
    <3>4. Registers!Asked(g)' = Registers!Asked(g)
      <4>1. g' = g
        BY <2>2 DEF g, w
      <4>2. g.reg = "sync" => reg'["loop"] = reg["loop"]
        BY <1>7, <1>8, <3>3
      <4> QED BY <4>1, <4>2 DEF Registers!Asked
    <3>5. g.reg # "type" => reg'["target"] = reg["target"]
      BY <1>7, <1>8, <3>3
    <3>6. CASE g.reg # r
      <4>1. reg'[g.reg] = reg[g.reg]
        BY <1>7, <3>3, <3>6
      <4> QED BY <3>2, <3>4, <3>5, <4>1
    <3>7. CASE g.reg = r
      <4>1. reg'[g.reg][1] = result
        BY <1>6, <1>7, <3>7
      <4>2. a.do # "get"
        BY <1>1, <3>2, <3>7
      <4>3. g.reg = "type" => result = reg["type"][1]
        BY <3>7
      <4>4. a.do = "await" => result = Registers!Asked(g)
        BY <3>2, <3>3, <3>7 DEF Registers!Asked, Registers!Measurements
      <4> HIDE DEF result
      <4> QED BY <3>2, <3>4, <3>5, <4>1, <4>2, <4>3, <4>4
    <3> QED BY <3>6, <3>7
  <2>6. GotLoops(t)'
    <3>1. family = "either_side" => Plain(family)
      BY FamiliesOf DEF RegisterInv
    <3>2. family # "either_side"
      BY <1>3, <1>8, <3>1 DEF Plain
    <3> QED BY <1>2, <3>2 DEF GotLoops
  <2> QED BY <2>3, <2>4, <2>5, <2>6
<1>11. ASSUME NEW t \in Threads PROVE Sane(t)'
  <2>1. Sane(t)
    BY DEF RegisterInv
  <2> QED BY <1>2, <1>10, <2>1 DEF Sane, Inside
<1> QED BY <1>2, <1>9, <1>11 DEF RegisterInv


(* What a transceiver does by itself. *)
LEMMA ReactionOf ==
    ASSUME RegisterInv, Registers!React
    PROVE  family \in {"power", "application"} /\ RegisterContents'
<1>1. PICK new \in Registers!Lane!Reactions(reg) : reg' = new
  BY DEF Registers!React
<1>2. /\ family' = family /\ Plain(family) /\ DOMAIN reg = Regs(family) /\ \A r \in Regs(family) : reg[r] \in Holding(family, r)
      /\ family \in CableFamilies \cup LaneFamilies
  <2>1. family' = family
    BY DEF Registers!React
  <2>2. DOMAIN reg = Regs(family) /\ \A r \in Regs(family) : reg[r] \in Holding(family, r)
    BY DEF RegisterInv, RegisterContents
  <2>3. family \in CableFamilies \cup LaneFamilies
    BY FamiliesOf DEF RegisterInv
  <2>4. "ctrl" \in Regs(family) \/ "dp" \in Regs(family)
    BY <1>1, <2>2 DEF Registers!Lane!Reactions
  <2>5. family \in {"power", "application"}
    BY <2>3, <2>4, Reacting
  <2>6. Plain(family)
    BY <2>5, LaneFurnished DEF LaneFamilies
  <2> QED BY <2>1, <2>2, <2>3, <2>6
<1>3. family \in {"power", "application"}
  BY <1>1, <1>2, Reacting DEF Registers!Lane!Reactions
<1>4. DOMAIN reg' = Regs(family) /\ \A r \in Regs(family) : reg'[r] \in Holding(family, r)
  <2>1. CASE family = "power"
    <3>1. /\ Regs(family) = {"adv", "mstate", "ctrl"} /\ FieldsOf(family, "ctrl") = {3, 4, 6} /\ FieldsOf(family, "mstate") = {0, 1}
      BY <2>1, Reacting
    <3>2. new \in Registers!Lane!Follows(reg)
      BY <1>1, <1>2, <3>1 DEF Registers!Lane!Reactions
    <3>3. CASE reg["ctrl"][Registers!Lane!ResetBit] = Registers!Lane!On
      <4> DEFINE c == Registers!Lane!Fresh("power")["ctrl"] m == [reg["mstate"] EXCEPT ![Registers!Lane!Moving] = Registers!Lane!On]
      <4>1. new = [reg EXCEPT !["ctrl"] = c, !["mstate"][Registers!Lane!Moving] = Registers!Lane!On]
        BY <3>2, <3>3 DEF Registers!Lane!Follows
      <4>2. c \in Holding(family, "ctrl")
        <5>1. c = Registers!Fresh(family)["ctrl"]
          BY <2>1 DEF Registers!Fresh
        <5>2. Furnished(family)
          BY <2>1, LaneFurnished DEF LaneFamilies
        <5> QED BY <3>1, <5>1, <5>2 DEF Furnished
      <4>3. m \in Holding(family, "mstate")
        <5>1. reg["mstate"] \in [{0, 1} -> Contents]
          BY <1>2, <3>1 DEF Holding
        <5> QED BY <3>1, <5>1 DEF Holding, Contents, Registers!Lane!On, Registers!Lane!Moving
      <4>4. new = [[reg EXCEPT !["ctrl"] = c] EXCEPT !["mstate"] = m]
        <5>1. [reg EXCEPT !["ctrl"] = c]["mstate"] = reg["mstate"]
          BY <1>2, <3>1
        <5> QED BY <4>1, <5>1, <1>2, <3>1
      <4> HIDE DEF c, m
      <4> QED BY <1>1, <1>2, <3>1, <4>2, <4>3, <4>4
    <3>4. CASE reg["ctrl"][Registers!Lane!ResetBit] # Registers!Lane!On
      <4>1. PICK s \in {Registers!Lane!ModuleLowPwr, Registers!Lane!ModuleReady} :
               new = [reg EXCEPT !["mstate"] = Registers!Lane!@@(Registers!Lane!:>(0, s),
                                                                Registers!Lane!:>(Registers!Lane!Moving, Registers!Lane!Off))]
        BY <3>2, <3>4 DEF Registers!Lane!Follows
      <4> DEFINE m == [k \in {0, 1} |-> IF k = 0 THEN s ELSE 0]
      <4>2. Registers!Lane!@@(Registers!Lane!:>(0, s), Registers!Lane!:>(Registers!Lane!Moving, Registers!Lane!Off)) = m
        BY DEF Registers!Lane!@@, Registers!Lane!:>, Registers!Lane!Moving, Registers!Lane!Off
      <4>3. m \in Holding(family, "mstate")
        BY <3>1 DEF Holding, Contents, Registers!Lane!ModuleLowPwr, Registers!Lane!ModuleReady
      <4> HIDE DEF m
      <4> QED BY <1>1, <1>2, <3>1, <4>1, <4>2, <4>3
    <3> QED BY <3>3, <3>4
  <2>2. CASE family = "application"
    <3>1. /\ Regs(family) = {"adv", "deinit", "app", "dp", "config", "apply"}
          /\ FieldsOf(family, "dp") = Lanes /\ FieldsOf(family, "config") = Lanes /\ FieldsOf(family, "apply") = {0}
      BY <2>2, Reacting
    <3>2. new \in Registers!Lane!TakesOver(reg)
      BY <1>1, <1>2, <3>1 DEF Registers!Lane!Reactions
    <3>3. PICK v \in 0..1 : new = [reg EXCEPT !["dp"] = Registers!Lane!All(Lanes, v),
                                            !["config"] = Registers!Lane!All(Lanes, 1 - reg["apply"][0]),
                                            !["apply"] = Registers!Lane!One(0)]
      BY <3>2 DEF Registers!Lane!TakesOver
    <3> DEFINE x == Registers!Lane!All(Lanes, v) y == Registers!Lane!All(Lanes, 1 - reg["apply"][0]) z == Registers!Lane!One(0)
    <3>4. x \in Holding(family, "dp") /\ z \in Holding(family, "apply")
      BY <3>1 DEF Holding, Contents, Registers!Lane!All, Registers!Lane!One, Registers!Lane!:>
    <3>5. y \in Holding(family, "config")
      <4>1. reg["apply"][0] \in {0, 1}
        BY <3>1 DEF RegisterInv, RegisterContents
      <4>2. 1 - reg["apply"][0] \in Contents
        BY <4>1 DEF Contents
      <4> QED BY <3>1, <4>2 DEF Holding, Registers!Lane!All
    <3> HIDE DEF x, y, z
    <3> QED BY <1>1, <1>2, <3>1, <3>3, <3>4, <3>5 DEF x, y, z
  <2> QED BY <1>3, <2>1, <2>2
<1>5. "apply" \in Regs(family) => reg'["apply"][0] \in {0, 1}
  <2>1. SUFFICES ASSUME "apply" \in Regs(family) PROVE reg'["apply"][0] \in {0, 1}
    OBVIOUS
  <2>2. family = "application"
    BY <1>2, <2>1, Reacting
  <2>3. Regs(family) = {"adv", "deinit", "app", "dp", "config", "apply"}
    BY <2>2, Reacting
  <2>4. new \in Registers!Lane!TakesOver(reg)
    BY <1>1, <1>2, <2>3 DEF Registers!Lane!Reactions
  <2>5. PICK v \in 0..1 : new = [reg EXCEPT !["dp"] = Registers!Lane!All(Lanes, v),
                                          !["config"] = Registers!Lane!All(Lanes, 1 - reg["apply"][0]),
                                          !["apply"] = Registers!Lane!One(0)]
    BY <2>4 DEF Registers!Lane!TakesOver
  <2> DEFINE x == Registers!Lane!All(Lanes, v) y == Registers!Lane!All(Lanes, 1 - reg["apply"][0]) z == Registers!Lane!One(0)
  <2>6. z[0] = 0
    BY DEF Registers!Lane!One, Registers!Lane!:>
  <2> HIDE DEF x, y, z
  <2>7. reg'["apply"] = z
    BY <1>1, <1>2, <2>3, <2>5 DEF x, y, z
  <2> QED BY <2>6, <2>7
<1>6. RegisterContents'
  BY <1>2, <1>4, <1>5 DEF RegisterContents, Plain, Holding, FieldsOf, Regs
<1> QED BY <1>3, <1>6

(* A thread that has not called yet. *)
LEMMA IdleWork == Registers!Idle \in Works /\ Registers!Idle = Registers!Returned("nothing")
<1>1. <<>> \in Seq(Accesses) /\ <<>> \in Fillings
  BY EmptySeq DEF Fillings
<1>2. Registers!Nothing \in Tasks
  BY <1>1 DEF Registers!Nothing, Registers!Goal, Tasks, Names
<1> DEFINE i == Registers!Idle
<1>3. i \in Works /\ i.returned = "nothing"
  <2> HIDE DEF Registers!Nothing
  <2> QED BY <1>1, <1>2 DEF Registers!Idle, Works
<1> HIDE DEF i
<1>4. [i EXCEPT !.returned = "nothing"] = i
  BY <1>3 DEF Works
<1> QED BY <1>3, <1>4 DEF i, Registers!Returned

LEMMA ReactInv == ASSUME RegisterInv, Registers!React PROVE RegisterInv'
<1>1. /\ run' = [t \in Threads |-> [run[t] EXCEPT !.alone = @ /\ Registers!Survives(run[t].goal)]]
      /\ UNCHANGED <<driver, family, holder>>
  BY DEF Registers!React
<1>2. family \in {"power", "application"} /\ RegisterContents' /\ Furnished(family) /\ Plain(family) /\ DOMAIN reg = Regs(family)
  BY ReactionOf, FamiliesOf, LaneFurnished DEF RegisterInv, RegisterContents, LaneFamilies
<1>3. ASSUME NEW t \in Threads PROVE run'[t] \in Works /\ Sane(t)'
  <2> DEFINE w == run[t] g == w.goal a == Head(w.todo) v == run'[t] x == w.alone /\ Registers!Survives(g)
  <2>1. Sane(t) /\ w \in Works
    BY DEF RegisterInv
  <2>2. v = [w EXCEPT !.alone = x] /\ x \in BOOLEAN
    BY <1>1
  <2>3. /\ v \in Works /\ v.todo = w.todo /\ v.goal = g /\ v.got = w.got /\ v.outer = w.outer
        /\ v.alone = x /\ v.blind = w.blind /\ v.returned = w.returned /\ (x = w.alone => v = w)
    <3> HIDE DEF w, v, x
    <3> QED BY <2>1, <2>2, WorkOf DEF w
  <2>4. x => w.alone /\ (g.reg \in Regs(family) => reg'[g.reg] = reg[g.reg])
    BY <1>2 DEF Registers!Survives
  <2>5. w.todo = <<>> => v = w
    <3>1. w.todo = <<>> => g.reg = "none"
      BY <2>1, ReturnedWork DEF Sane, Works, Registers!Nothing, Registers!Goal
    <3>2. w.todo = <<>> => Registers!Survives(g)
      BY <1>2, <3>1 DEF Registers!Survives, Furnished
    <3>3. w.todo = <<>> => x = w.alone
      <4>1. w.alone \in BOOLEAN
        BY <2>1, WorkOf
      <4> QED BY <3>2, <4>1
    <3> QED BY <2>3, <3>3
  <2> HIDE DEF x
  <2>6. CASE w.todo = <<>>
    BY <1>1, <2>1, <2>3, <2>5, <2>6 DEF Sane, Inside
  <2>7. CASE w.todo # <<>>
    <3>1. /\ Shaped(family, g, w.todo) /\ GotRead(t) /\ GotSet(t) /\ a \in Accesses /\ Fits(family, a)
          /\ g.kind = "set" => Setting(family, g, w.todo)
          /\ g.kind = "measured" => Measuring(family, g, w.todo)
      BY <2>7, StepOf
    <3>2. GotRead(t)'
      <4>1. a.do = "merge" => /\ w.got \in Holding(family, a.reg)
                              /\ w.alone /\ a.reg = g.reg => a.reg \in Regs(family) /\ w.got = reg[a.reg]
        BY <3>1 DEF GotRead, Fits
      <4>2. Head(v.todo) = a /\ v.got = w.got /\ v.goal = g /\ v.alone = x /\ family' = family
        BY <1>1, <2>3
      <4> HIDE DEF w, g, a, v, x
      <4>3. Head(v.todo).do = "merge" =>
               /\ v.got \in Holding(family', Head(v.todo).reg)
               /\ v.alone /\ Head(v.todo).reg = v.goal.reg => v.got = reg'[Head(v.todo).reg]
        BY ONLY <2>4, <4>1, <4>2
      <4> QED BY ONLY <4>2, <4>3 DEF GotRead, Holding, FieldsOf, v
    <3>3. GotSet(t)'
      <4>1. SUFFICES ASSUME g.kind = "set", x
            PROVE  /\ (\E b \in Elems(w.todo) : b.do = "aim") /\ a.reg # "target" => DOMAIN g.val = {reg'["target"][0]}
                   /\ ~w.blind => \A k \in DOMAIN g.val : (\E b \in Elems(w.todo) : Right(g, b, k)) \/ reg'[g.reg][k] = g.val[k]
        BY <2>3 DEF GotSet
      <4>2. ~w.blind => \A k \in DOMAIN g.val : (\E b \in Elems(w.todo) : Right(g, b, k)) \/ reg[g.reg][k] = g.val[k]
        BY <2>4, <3>1, <4>1 DEF GotSet
      <4>3. reg'[g.reg] = reg[g.reg]
        BY <2>4, <3>1, <4>1 DEF Setting
      <4>4. ASSUME NEW b \in Elems(w.todo) PROVE b.do # "aim"
        <5>1. b \in Fitting(family)
          BY <3>1, ElemIn DEF Shaped
        <5> QED BY <1>2, <5>1 DEF Fitting, Fits, Plain
      <4> QED BY <4>2, <4>3, <4>4
    <3>4. g.kind # "measured"
      BY <1>2, <3>1 DEF Measuring, Plain
    <3>5. GotMeasured(t)' /\ GotLoops(t)'
      BY <1>1, <1>2, <2>3, <3>4 DEF GotMeasured, GotLoops
    <3> HIDE DEF w, g, a, v
    <3> QED BY <1>1, <2>1, <2>3, <2>7, <3>1, <3>2, <3>3, <3>5 DEF Sane, Inside, w, g, v
  <2> QED BY <2>3, <2>6, <2>7
<1>4. run' \in [Threads -> Works]
  BY <1>1, <1>3
<1> QED BY <1>1, <1>2, <1>3, <1>4 DEF RegisterInv

(* A call begins. *)
LEMMA BeginInv ==
    ASSUME RegisterInv, NEW t \in Threads, Registers!Begin(t),
           \A p \in Registers!Calls(driver, family) : p.todo = <<>> \/ Whole(driver, family, p.goal, p.todo)
    PROVE  RegisterInv'
<1>1. PICK p \in Registers!Calls(driver, family) :
          run' = [run EXCEPT ![t] = IF p.todo = <<>> THEN Registers!Returned("ok")
                                    ELSE [Registers!Idle EXCEPT !.todo = p.todo, !.goal = p.goal]]
  BY DEF Registers!Begin
<1>2. UNCHANGED <<driver, family, reg, holder>> /\ holder' \in Threads \cup {Nobody}
  BY DEF Registers!Begin, RegisterInv
<1>3. CASE p.todo = <<>>
  <2>1. run' = [run EXCEPT ![t] = Registers!Returned("ok")]
    BY <1>1, <1>3
  <2> QED BY <1>2, <2>1, EndedInv
<1>4. CASE p.todo # <<>>
  <2> DEFINE s == p.todo g == p.goal v == [Registers!Idle EXCEPT !.todo = s, !.goal = g] n == run'[t]
  <2>1. Whole(driver, family, g, s) /\ run' = [run EXCEPT ![t] = v]
    BY <1>1, <1>4
  <2>2. s \in Seq(Fitting(family)) /\ g \in Tasks /\ s # <<>> /\ Shaped(family, g, s)
    BY <2>1 DEF Whole, Shaped
  <2>3. s \in Seq(Accesses)
    BY <2>2 DEF Fitting
  <2> HIDE DEF s, g
  <2>4. /\ v \in Works /\ v.todo = s /\ v.goal = g /\ v.got = <<>> /\ v.outer = Nobody /\ v.alone = TRUE /\ v.blind = FALSE
    <3>1. <<>> \in Fillings
      BY DEF Fillings
    <3>2. Registers!Idle \in [todo : Seq(Accesses), goal : Tasks, got : Fillings, outer : Threads \cup {Nobody}, alone : BOOLEAN,
                              blind : BOOLEAN, returned : {"nothing", "ok", "blind", "error"}]
      BY IdleWork DEF Works
    <3> QED BY <2>2, <2>3, <3>1, <3>2 DEF Works, Registers!Idle
  <2>5. n = v
    BY <2>1 DEF RegisterInv
  <2> HIDE DEF v, n
  <2>6. Head(s) = s[1]
    BY <2>2, <2>3, TailOf
  <2>7. GotRead(t)' /\ GotSet(t)' /\ GotMeasured(t)' /\ GotLoops(t)'
    <3>1. GotRead(t)'
      BY <2>1, <2>4, <2>5, <2>6 DEF GotRead, Whole, n
    <3>2. GotSet(t)'
      BY <2>1, <2>4, <2>5, <2>6 DEF GotSet, Whole, n
    <3>3. GotMeasured(t)'
      <4>1. g.kind = "measured" => Head(s).do \in {"lock", "put"} \/ (Head(s).do = "start" /\ g.reg = "type")
        BY <2>1, <2>6 DEF Whole
      <4> QED BY <2>4, <2>5, <4>1 DEF GotMeasured, n
    <3>4. GotLoops(t)'
      BY <1>2, <2>1, <2>4, <2>5 DEF GotLoops, Whole, n
    <3> QED BY <3>1, <3>2, <3>3, <3>4
  <2>8. ~Inside(t)'
    BY <1>2, <2>1, <2>4, <2>5, <2>6 DEF Inside, Whole, n
  <2>9. Sane(t)'
    BY <1>2, <2>2, <2>4, <2>5, <2>7, <2>8 DEF Sane, n
  <2> QED BY <1>2, <2>1, <2>4, <2>9, OthersStay
<1> QED BY <1>3, <1>4

LEMMA RegisterBegins == ASSUME Registers!Init PROVE RegisterInv
<1>1. driver \in Registers!Drivers /\ family \in Registers!Families(driver) /\ reg = Registers!Fresh(family) /\ holder = Nobody
      /\ run = [t \in Threads |-> Registers!Idle]
  BY DEF Registers!Init
<1>2. Furnished(family) /\ family \in CableFamilies \cup LaneFamilies
  BY <1>1, FamiliesOf
<1>3. Registers!Idle = Registers!Returned("nothing")
  BY IdleWork
<1>4. ASSUME NEW t \in Threads PROVE run[t] \in Works /\ Sane(t)
  <2>1. run[t] = Registers!Returned("nothing")
    BY <1>1, <1>3
  <2>2. run[t] \in Works /\ run[t].todo = <<>> /\ run[t].outer = Nobody /\ run[t].returned = "nothing"
    BY <2>1, ReturnedWork
  <2> QED BY <2>1, <2>2 DEF Sane, Inside
<1>5. RegisterContents
  <2>1. "target" \in Regs(family) => reg["target"][0] \in Ends
    BY <1>1, <1>2, PartsAssumption DEF Furnished, Registers!RegisterAssumption
  <2>2. "apply" \in Regs(family) => reg["apply"][0] \in {0, 1}
    BY <1>1, <1>2, Reacting
  <2>3. \A r \in Regs(family) \cap Registers!Measurements : reg[r][0] # 1
    BY <1>1, <1>2 DEF Furnished
  <2> QED BY <1>1, <1>2, <2>1, <2>2, <2>3 DEF RegisterContents, Furnished, Regs
<1> QED BY <1>1, <1>4, <1>5 DEF RegisterInv

-------------------------------------------------------------------------------
(* Short programs. *)
LEMMA OneStep ==
    ASSUME NEW S, NEW a \in S
    PROVE  <<a>> \in Seq(S) /\ Len(<<a>>) = 1 /\ <<a>>[1] = a /\ <<a>> # <<>> /\ Elems(<<a>>) = {a}
BY DEF Elems
LEMMA TwoSteps ==
    ASSUME NEW S, NEW a \in S, NEW b \in S
    PROVE  LET s == <<a, b>>
           IN s \in Seq(S) /\ Len(s) = 2 /\ s[1] = a /\ s[2] = b /\ s # <<>> /\ Elems(s) = {a, b}
BY DEF Elems
LEMMA ThreeSteps ==
    ASSUME NEW S, NEW a \in S, NEW b \in S, NEW c \in S
    PROVE  LET s == <<a, b, c>>
           IN s \in Seq(S) /\ Len(s) = 3 /\ s[1] = a /\ s[2] = b /\ s[3] = c /\ s # <<>> /\ Elems(s) = {a, b, c}
BY DEF Elems
LEMMA FourSteps ==
    ASSUME NEW S, NEW a \in S, NEW b \in S, NEW c \in S, NEW d \in S
    PROVE  LET s == <<a, b, c, d>>
           IN s \in Seq(S) /\ Len(s) = 4 /\ s[1] = a /\ s[2] = b /\ s[3] = c /\ s[4] = d /\ s # <<>> /\ Elems(s) = {a, b, c, d}
BY DEF Elems
LEMMA SixSteps ==
    ASSUME NEW S, NEW a \in S, NEW b \in S, NEW c \in S, NEW d \in S, NEW e \in S, NEW h \in S
    PROVE  LET s == <<a, b, c, d, e, h>>
           IN /\ s \in Seq(S) /\ Len(s) = 6 /\ s # <<>> /\ Elems(s) = {a, b, c, d, e, h}
              /\ s[1] = a /\ s[2] = b /\ s[3] = c /\ s[4] = d /\ s[5] = e /\ s[6] = h
BY DEF Elems

LEMMA MadeOf ==
    ASSUME NEW do, NEW r, NEW v, NEW fails
    PROVE  LET a == Made(do, r, v, fails) IN a.do = do /\ a.reg = r /\ a.val = v /\ a.fails = fails
BY DEF Made

(* Programs without a lock that leave the choice of an end alone. *)
Linked(s) ==
    \A i \in 1..Len(s) - 1 : s[i + 1].do = "merge" => s[i].do = "get" /\ s[i].reg = s[i + 1].reg /\ s[i].fails = "stop"
Ordinary(f, s) ==
    /\ s \in Seq(Fitting(f)) /\ s # <<>> /\ s[1].do # "merge" /\ Linked(s) /\ f # "either_side"
    /\ \A a \in Elems(s) : a.do \notin {"lock", "unlock"} /\ a.reg # "target" /\ (f \in {"mux", "flaps"} => a.do # "merge")
Setting0(r, v) == [kind |-> "set", reg |-> r, val |-> v]

LEMMA OrdinarySteps ==
    ASSUME NEW f, NEW s, Ordinary(f, s)
    PROVE  /\ \A i \in 1..Len(s) - 1 : Precedes(s[i], s[i + 1])
           /\ s[Len(s)].do # "lock" /\ s[1].do \notin {"merge", "unlock"}
<1>1. Len(s) \in Nat \ {0}
  BY TailOf DEF Ordinary
<1>2. \A i \in 1..Len(s) - 1 : i + 1 \in 1..Len(s)
  BY <1>1
<1>3. 1 \in 1..Len(s) /\ Len(s) \in 1..Len(s)
  BY <1>1
<1>4. \A i \in 1..Len(s) : s[i] \in Elems(s)
  BY ElemOf
<1>5. \A i \in 1..Len(s) - 1 : Precedes(s[i], s[i + 1])
  BY <1>2, <1>4 DEF Ordinary, Linked, Precedes
<1> QED BY <1>3, <1>4, <1>5 DEF Ordinary

LEMMA NothingWhole ==
    ASSUME NEW d, NEW f, NEW s, Ordinary(f, s)
    PROVE  Whole(d, f, Registers!Nothing, s)
<1> DEFINE g == Registers!Nothing
<1>1. g \in Tasks /\ g.kind = "nothing" /\ g.reg = "none"
  BY ReturnedWork DEF Registers!Nothing, Registers!Goal, Tasks, Names, Fillings
<1> HIDE DEF g
<1>2. Shaped(f, g, s)
  BY <1>1, OrdinarySteps DEF Shaped, Ordinary
<1> QED BY <1>1, <1>2, OrdinarySteps DEF Whole, Ordinary, g

LEMMA SetWhole ==
    ASSUME NEW d, NEW f, NEW s, Ordinary(f, s),
           NEW r \in Regs(f) \cap Names, r \notin Registers!Measurements \cup {"target"},
           NEW v \in Fillings, DOMAIN v \subseteq FieldsOf(f, r),
           \A a \in Elems(s) : /\ a.do # "aim"
                               /\ a.do \in {"put", "merge"} /\ a.reg = r =>
                                    \A k \in DOMAIN a.val : k \in DOMAIN v /\ a.val[k] = v[k],
           \A k \in DOMAIN v : \E a \in Elems(s) : a.do \in {"put", "merge"} /\ a.reg = r /\ k \in DOMAIN a.val
    PROVE  Whole(d, f, Setting0(r, v), s)
<1> DEFINE g == Setting0(r, v)
<1>1. g \in Tasks /\ g.kind = "set" /\ g.reg = r /\ g.val = v
  BY DEF Setting0, Tasks
<1> HIDE DEF g
<1>2. \A a \in Elems(s) : Touches(g, a) => a.do \in {"put", "merge"} /\ a.reg = r
  <2>0. \A a \in Elems(s) : a \in Fitting(f)
    BY ElemIn DEF Ordinary
  <2>1. \A a \in Elems(s) : Fits(f, a)
    BY <2>0 DEF Fitting
  <2> QED BY <1>1, <2>1 DEF Touches, Fits, Registers!Writes
<1>3. \A a \in Elems(s) : Within(g, a)
  BY <1>1, <1>2 DEF Within, Ordinary
<1>4. \A a \in Elems(s) : \A k \in DOMAIN g.val : ~Wrong(g, a, k)
  BY <1>1, <1>2 DEF Wrong
<1>5. \A k \in DOMAIN g.val : \E a \in Elems(s) : Right(g, a, k)
  <2>1. ASSUME NEW k \in DOMAIN v PROVE \E a \in Elems(s) : Right(g, a, k)
    <3>1. PICK a \in Elems(s) : a.do \in {"put", "merge"} /\ a.reg = r /\ k \in DOMAIN a.val
      OBVIOUS
    <3>2. Right(g, a, k)
      BY <1>1, <3>1 DEF Right, Touches, Registers!Writes
    <3> QED BY <3>2
  <2> QED BY <1>1, <2>1
<1>6. Corrected(g, s)
  BY <1>4, ElemOf DEF Corrected
<1>7. Setting(f, g, s)
  BY <1>1, <1>3, <1>6 DEF Setting
<1>8. Shaped(f, g, s)
  BY <1>1, <1>7, OrdinarySteps DEF Shaped, Ordinary, Registers!Measurements
<1> QED BY <1>1, <1>5, <1>8, OrdinarySteps DEF Whole, Ordinary, g, Registers!Measurements

(* A setting of an end: the end is chosen first, the right value written     *)
(* last.                                                                     *)
LEMMA AimWhole ==
    ASSUME NEW d, NEW f, NEW s \in Seq(Fitting(f)), Len(s) > 1, f \notin {"mux", "flaps", "either_side"},
           NEW r \in Regs(f) \cap {"prbs", "loop"}, NEW e \in Ends, FieldsOf(f, r) = Ends, NEW x \in Contents,
           s[1].do = "put", s[1].reg = "target", s[1].val[0] = e, s[1].fails = "stop",
           \A i \in 2..Len(s) : \/ s[i].do = "put" /\ s[i].reg \notin {"target", r}
                                \/ s[i].do = "aim" /\ s[i].reg = r,
           s[Len(s)].do = "aim", s[Len(s)].val[0] = x
    PROVE  Whole(d, f, Setting0(r, Same({e}, x)), s)
<1> DEFINE g == Setting0(r, [k \in {e} |-> x]) n == Len(s)
<1>1. [k \in {e} |-> x] \in Fillings
  <2>1. Ends \subseteq 0..2
    BY PartsAssumption DEF Registers!RegisterAssumption
  <2>2. e \in Nat
    <3>1. e \in 0..2
      BY <2>1
    <3> QED BY ONLY <3>1
  <2>3. [k \in {e} |-> x] \in [{e} -> Contents]
    OBVIOUS
  <2> QED BY ZenonT(60), <2>2, <2>3 DEF Fillings
<1>2. g \in Tasks /\ g.kind = "set" /\ g.reg = r /\ DOMAIN g.val = {e} /\ g.val[e] = x
  BY <1>1 DEF Setting0, Tasks, Names
<1> HIDE DEF g
<1>3. n \in Nat /\ 1 \in 1..n /\ n \in 2..n /\ (\A i \in 1..n : i = 1 \/ i \in 2..n) /\ (\A i \in 1..n - 1 : i + 1 \in 2..n)
      /\ n \in 1..n /\ s # <<>>
  <2>1. n \in Nat /\ n > 1
    BY LenProperties
  <2>2. s # <<>>
    <3>1. Len(<<>>) = 0
      OBVIOUS
    <3>2. n # 0
      <4> HIDE DEF n
      <4> QED BY ONLY <2>1
    <3> QED BY ONLY <3>1, <3>2, Zenon
  <2> HIDE DEF n
  <2>3. 1 \in 1..n /\ n \in 2..n /\ n \in 1..n
    BY ONLY <2>1
  <2>4. (\A i \in 1..n : i = 1 \/ i \in 2..n) /\ (\A i \in 1..n - 1 : i + 1 \in 2..n)
    BY ONLY <2>1
  <2> QED BY <2>1, <2>2, <2>3, <2>4
<1> DEFINE P == \A i \in 2..n : \/ s[i].do = "put" /\ s[i].reg \notin {"target", r}
                                \/ s[i].do = "aim" /\ s[i].reg = r
<1>4. P
  OBVIOUS
<1>5. \A i \in 1..n - 1 : Precedes(s[i], s[i + 1])
  <2> HIDE DEF n
  <2> QED BY <1>3, <1>4 DEF Precedes
<1>6. \A i \in 1..n : /\ s[i].do \in {"put", "aim"}
                      /\ s[i].do = "aim" => s[i].reg = r
                      /\ s[i].reg = "target" => i = 1
                      /\ Touches(g, s[i]) => s[i].do = "aim"
  <2> HIDE DEF n
  <2>1. s[1].do = "put" /\ s[1].reg = "target" /\ r # "target"
    OBVIOUS
  <2> QED BY <1>2, <1>3, <1>4, <2>1 DEF Touches
<1>7. Right(g, s[n], e)
  <2>1. s[n].reg = r
    BY <1>3, <1>4
  <2> QED BY <1>2, <2>1 DEF Right, Touches, Registers!Writes
<1>8. Corrected(g, s)
  <2>1. ASSUME NEW i \in 1..n, NEW k \in DOMAIN g.val, Wrong(g, s[i], k) PROVE \E j \in i + 1..n : Right(g, s[j], k)
    <3>1. k = e
      BY <1>2
    <3>2. i # n
      BY <1>2, <2>1, <3>1 DEF Wrong
    <3>3. n \in i + 1..n
      <4> HIDE DEF n
      <4>1. i \in 1..n /\ n \in Nat
        BY <1>3
      <4> QED BY ONLY <4>1, <3>2
    <3> QED BY <1>7, <3>1, <3>3
  <2> QED BY <2>1 DEF Corrected
<1>9. \A a \in Elems(s) : Within(g, a) /\ a.do \in {"put", "aim"}
  <2>1. ASSUME NEW i \in 1..n PROVE Within(g, s[i])
    BY <1>2, <1>6 DEF Within
  <2> QED BY <1>6, <2>1 DEF Elems
<1>10. Setting(f, g, s)
  BY <1>2, <1>8, <1>9 DEF Setting, Registers!Measurements
<1>11. Shaped(f, g, s)
  <2>1. r \notin Registers!Measurements /\ r # "eye"
    BY DEF Registers!Measurements
  <2>2. s[n].do # "lock"
    OBVIOUS
  <2> HIDE DEF n
  <2> QED BY <1>2, <1>5, <1>9, <1>10, <2>1, <2>2 DEF Shaped, n
<1>12. s[n] \in Elems(s)
  BY <1>3, ElemOf
<1>13. \A k \in DOMAIN g.val : \E a \in Elems(s) : Right(g, a, k)
  BY <1>2, <1>7, <1>12
<1>14. Whole(d, f, g, s)
  BY <1>2, <1>3, <1>11, <1>13 DEF Whole
<1>15. g = Setting0(r, Same({e}, x))
  BY DEF g, Same
<1> QED BY <1>14, <1>15

(* The accesses that programs are made of. *)
LEMMA EndsFew == /\ \A e \in Ends : e \in Nat /\ e \in Contents
                 /\ 0 \in Contents /\ 1 \in Contents /\ 0 \in Ends
<1>1. Ends \subseteq 0..2 /\ 0 \in Ends
  BY PartsAssumption DEF Registers!RegisterAssumption
<1>2. \A e \in Ends : e \in 0..2
  BY <1>1
<1>3. \A e \in 0..2 : e \in Nat /\ e \in Contents
  BY DEF Contents
<1> QED BY <1>1, <1>2, <1>3

LEMMA At0Of ==
    ASSUME NEW c \in Contents
    PROVE  At0(c) \in Fillings /\ DOMAIN At0(c) = {0} /\ At0(c)[0] = c
<1>1. At0(c) \in [{0} -> Contents]
  BY DEF At0
<1>2. {0} \in SUBSET Nat
  OBVIOUS
<1> QED BY <1>1, <1>2 DEF Fillings, At0

LEMMA EmptyFilling == <<>> \in Fillings
BY DEF Fillings

Losses == {"stop", "ignore", "never"}

LEMMA ReadFits ==
    ASSUME NEW f, NEW r \in Regs(f) \cap Names, r \notin {"target", "apply"}, NEW do \in {"get", "need", "await"},
           NEW v \in Fillings, NEW fails \in Losses
    PROVE  Made(do, r, v, fails) \in Fitting(f)
<1> DEFINE a == Made(do, r, v, fails)
<1>1. a.do = do /\ a.reg = r /\ a.val = v
  BY MadeOf
<1>2. a \in Accesses
  BY DEF Made, Accesses, Losses
<1> HIDE DEF a
<1>3. Fits(f, a)
  BY <1>1 DEF Fits
<1> QED BY <1>2, <1>3 DEF Fitting, a

LEMMA WriteFits ==
    ASSUME NEW f, NEW r \in Names, r \notin Registers!Measurements \cup {"target", "apply"}, NEW do \in {"put", "merge"},
           r \in Regs(f) \/ do = "put", NEW v \in Fillings, r \in Regs(f) => DOMAIN v \subseteq FieldsOf(f, r), NEW fails \in Losses
    PROVE  Made(do, r, v, fails) \in Fitting(f)
<1> DEFINE a == Made(do, r, v, fails)
<1>1. a.do = do /\ a.reg = r /\ a.val = v
  BY MadeOf
<1>2. a \in Accesses
  BY DEF Made, Accesses, Losses
<1> HIDE DEF a
<1>3. Fits(f, a)
  BY <1>1 DEF Fits
<1> QED BY <1>2, <1>3 DEF Fitting, a

LEMMA ChoiceFits ==
    ASSUME NEW f, "target" \in Regs(f), FieldsOf(f, "target") = {0}, NEW e \in Ends
    PROVE  Made("put", "target", At0(e), "stop") \in Fitting(f)
<1> DEFINE v == At0(e) a == Made("put", "target", v, "stop")
<1>0. v \in Fillings /\ DOMAIN v = {0} /\ v[0] = e
  BY EndsFew, At0Of
<1> HIDE DEF v
<1>1. a.do = "put" /\ a.reg = "target" /\ a.val = v
  BY MadeOf
<1>2. a \in Accesses
  BY <1>0 DEF Made, Accesses, Names
<1> HIDE DEF a
<1>3. Fits(f, a)
  BY <1>0, <1>1 DEF Fits, Registers!Measurements
<1> QED BY <1>2, <1>3 DEF Fitting, a, v

LEMMA ApplyFits ==
    ASSUME NEW f, "apply" \in Regs(f), FieldsOf(f, "apply") = {0}, NEW fails \in Losses
    PROVE  Made("put", "apply", At0(1), fails) \in Fitting(f)
<1> DEFINE v == At0(1) a == Made("put", "apply", v, fails)
<1>0. v \in Fillings /\ DOMAIN v = {0} /\ v[0] = 1
  BY EndsFew, At0Of
<1> HIDE DEF v
<1>1. a.do = "put" /\ a.reg = "apply" /\ a.val = v
  BY MadeOf
<1>2. a \in Accesses
  BY <1>0 DEF Made, Accesses, Names, Losses
<1> HIDE DEF a
<1>3. Fits(f, a)
  BY <1>0, <1>1 DEF Fits, Registers!Measurements
<1> QED BY <1>2, <1>3 DEF Fitting, a, v

LEMMA AimFits ==
    ASSUME NEW f, NEW r \in Regs(f) \cap {"prbs", "loop"}, "target" \in Regs(f), NEW x \in Contents
    PROVE  Made("aim", r, At0(x), "stop") \in Fitting(f)
<1> DEFINE v == At0(x) a == Made("aim", r, v, "stop")
<1>0. v \in Fillings /\ DOMAIN v = {0} /\ v[0] = x
  BY At0Of
<1> HIDE DEF v
<1>1. a.do = "aim" /\ a.reg = r /\ a.val = v
  BY MadeOf
<1>2. a \in Accesses
  BY <1>0 DEF Made, Accesses, Names
<1> HIDE DEF a
<1>3. Fits(f, a)
  BY <1>0, <1>1 DEF Fits, Registers!Measurements
<1> QED BY <1>2, <1>3 DEF Fitting, a, v

LEMMA StartFits ==
    ASSUME NEW f, NEW r \in Regs(f) \cap Registers!Measurements, NEW x \in Contents
    PROVE  Made("start", r, At0(x), "stop") \in Fitting(f)
<1> DEFINE v == At0(x) a == Made("start", r, v, "stop")
<1>0. v \in Fillings /\ DOMAIN v = {0} /\ v[0] = x
  BY At0Of
<1> HIDE DEF v
<1>1. a.do = "start" /\ a.reg = r /\ a.val = v
  BY MadeOf
<1>2. a \in Accesses
  BY <1>0 DEF Made, Accesses, Names, Registers!Measurements
<1> HIDE DEF a
<1>3. Fits(f, a)
  BY <1>0, <1>1 DEF Fits, Registers!Measurements
<1> QED BY <1>2, <1>3 DEF Fitting, a, v

LEMMA LockFits ==
    ASSUME NEW f, NEW do \in {"lock", "unlock", "raise"}
    PROVE  Made(do, "none", <<>>, "stop") \in Fitting(f)
<1> DEFINE a == Made(do, "none", <<>>, "stop")
<1>1. a.do = do /\ a.reg = "none" /\ a.val = <<>>
  BY MadeOf
<1>2. a \in Accesses
  BY EmptyFilling DEF Made, Accesses, Names
<1> HIDE DEF a
<1>3. Fits(f, a)
  BY <1>1 DEF Fits, Registers!Measurements
<1> QED BY <1>2, <1>3 DEF Fitting, a

(* A measurement of an end, or of a counter. *)
Measured0(r, c) == [kind |-> "measured", reg |-> r, val |-> At0(c)]
LEMMA MeasureWhole ==
    ASSUME NEW d, NEW f, f # "either_side", NEW r \in Regs(f) \cap Registers!Measurements, r # "type",
           "target" \in Regs(f), FieldsOf(f, "target") = {0}, NEW e \in Ends
    PROVE  LET choice == Made("put", "target", At0(e), "stop")
               begin == Made("start", r, At0(0), "stop")
               until == Made("await", r, At0(1), "stop")
               result == Made("get", r, <<>>, "stop")
           IN /\ d # "credo" \/ r # "eye" => Whole(d, f, Measured0(r, e), <<choice, begin, until, result>>)
              /\ r = "eye" => Whole(d, f, Measured0(r, e), <<Made("lock", "none", <<>>, "stop"), choice, begin, until, result,
                                                             Made("unlock", "none", <<>>, "stop")>>)
<1> DEFINE a == Made("put", "target", At0(e), "stop")
           b == Made("start", r, At0(0), "stop")
           c == Made("await", r, At0(1), "stop")
           h == Made("get", r, <<>>, "stop")
           l == Made("lock", "none", <<>>, "stop")
           u == Made("unlock", "none", <<>>, "stop")
           g == Measured0(r, e)
           s4 == <<a, b, c, h>>
           s6 == <<l, a, b, c, h, u>>
<1>1. r \in Names /\ r \notin {"target", "apply", "none"} /\ At0(0) \in Fillings /\ At0(1) \in Fillings /\ At0(e) \in Fillings
      /\ At0(e)[0] = e
  BY EndsFew, At0Of DEF Registers!Measurements, Names
<1>2. /\ a \in Fitting(f) /\ b \in Fitting(f) /\ c \in Fitting(f) /\ h \in Fitting(f) /\ l \in Fitting(f) /\ u \in Fitting(f)
  <2>1. a \in Fitting(f)
    BY ChoiceFits
  <2>2. b \in Fitting(f)
    BY EndsFew, StartFits
  <2>3. c \in Fitting(f) /\ h \in Fitting(f)
    BY <1>1, EmptyFilling, ReadFits DEF Losses
  <2>4. l \in Fitting(f) /\ u \in Fitting(f)
    BY LockFits
  <2> QED BY <2>1, <2>2, <2>3, <2>4
<1>3. /\ a.do = "put" /\ a.reg = "target" /\ a.val = At0(e) /\ a.fails = "stop"
      /\ b.do = "start" /\ b.reg = r /\ b.val = At0(0) /\ b.fails = "stop"
      /\ c.do = "await" /\ c.reg = r /\ c.val = At0(1) /\ c.fails = "stop"
      /\ h.do = "get" /\ h.reg = r /\ h.val = <<>> /\ h.fails = "stop"
      /\ l.do = "lock" /\ l.reg = "none" /\ l.fails = "stop"
      /\ u.do = "unlock" /\ u.reg = "none" /\ u.fails = "stop"
  <2>1. a.do = "put" /\ a.reg = "target" /\ a.val = At0(e) /\ a.fails = "stop"
    BY DEF Made
  <2>2. b.do = "start" /\ b.reg = r /\ b.val = At0(0) /\ b.fails = "stop"
    BY DEF Made
  <2>3. c.do = "await" /\ c.reg = r /\ c.val = At0(1) /\ c.fails = "stop"
    BY DEF Made
  <2>4. h.do = "get" /\ h.reg = r /\ h.val = <<>> /\ h.fails = "stop"
    BY DEF Made
  <2>5. l.do = "lock" /\ l.reg = "none" /\ l.fails = "stop"
    BY DEF Made
  <2>6. u.do = "unlock" /\ u.reg = "none" /\ u.fails = "stop"
    BY DEF Made
  <2> QED BY <2>1, <2>2, <2>3, <2>4, <2>5, <2>6
<1>4. g \in Tasks /\ g.kind = "measured" /\ g.reg = r /\ g.val = At0(e) /\ DOMAIN g.val = {0} /\ g.val[0] = e
  BY <1>1, EndsFew, At0Of DEF Measured0, Tasks
<1> HIDE DEF a, b, c, h, l, u, g
<1>5. /\ s4 \in Seq(Fitting(f)) /\ Len(s4) = 4 /\ s4[1] = a /\ s4[2] = b /\ s4[3] = c /\ s4[4] = h /\ s4 # <<>>
      /\ Elems(s4) = {a, b, c, h}
  <2>1. s4 \in Seq(Fitting(f)) /\ Len(s4) = 4 /\ s4[1] = a /\ s4[2] = b /\ s4[3] = c /\ s4[4] = h /\ s4 # <<>>
    BY ONLY <1>2
  <2>2. Elems(s4) = {a, b, c, h}
    <3> DEFINE S == Fitting(f)
    <3>1. a \in S /\ b \in S /\ c \in S /\ h \in S
      BY <1>2
    <3> HIDE DEF S
    <3> QED BY ONLY <3>1, FourSteps
  <2> QED BY <2>1, <2>2
<1>6. /\ s6 \in Seq(Fitting(f)) /\ Len(s6) = 6 /\ s6 # <<>> /\ Elems(s6) = {l, a, b, c, h, u}
      /\ s6[1] = l /\ s6[2] = a /\ s6[3] = b /\ s6[4] = c /\ s6[5] = h /\ s6[6] = u
  BY <1>2, SixSteps
<1> HIDE DEF s4, s6
<1>7. Precedes(a, b) /\ Precedes(b, c) /\ Precedes(c, h) /\ Precedes(l, a) /\ Precedes(h, u)
  BY <1>1, <1>3 DEF Precedes
<1>8. NextMeasuring(a, b) /\ NextMeasuring(b, c) /\ NextMeasuring(c, h) /\ NextMeasuring(l, a) /\ NextMeasuring(h, u)
  BY <1>3 DEF NextMeasuring
<1>9. MeasuringStep(g, a) /\ MeasuringStep(g, b) /\ MeasuringStep(g, c) /\ MeasuringStep(g, h)
      /\ (r = "eye" => MeasuringStep(g, l) /\ MeasuringStep(g, u))
  BY <1>1, <1>3, <1>4 DEF MeasuringStep, At0
<1>10. ASSUME d # "credo" \/ r # "eye" PROVE Whole(d, f, g, s4)
  <2>1. \A i \in 1..Len(s4) - 1 : Precedes(s4[i], s4[i + 1]) /\ NextMeasuring(s4[i], s4[i + 1])
    <3>1. Len(s4) = 4
      BY <1>5
    <3>2. \A i \in 1..Len(s4) - 1 : (i = 1 /\ i + 1 = 2) \/ (i = 2 /\ i + 1 = 3) \/ (i = 3 /\ i + 1 = 4)
      BY ONLY <3>1
    <3>3. /\ Precedes(s4[1], s4[2]) /\ Precedes(s4[2], s4[3]) /\ Precedes(s4[3], s4[4])
          /\ NextMeasuring(s4[1], s4[2]) /\ NextMeasuring(s4[2], s4[3]) /\ NextMeasuring(s4[3], s4[4])
      BY <1>5, <1>7, <1>8
    <3> QED BY ONLY <3>2, <3>3
  <2>2. Measuring(f, g, s4)
    BY <1>3, <1>4, <1>5, <1>9, <2>1 DEF Measuring
  <2>3. Shaped(f, g, s4)
    BY <1>3, <1>4, <1>5, <2>1, <2>2 DEF Shaped
  <2> QED BY <1>3, <1>4, <1>5, <1>10, <2>3 DEF Whole
<1>11. ASSUME r = "eye" PROVE Whole(d, f, g, s6)
  <2>1. \A i \in 1..Len(s6) - 1 : Precedes(s6[i], s6[i + 1]) /\ NextMeasuring(s6[i], s6[i + 1])
    <3>1. Len(s6) = 6
      BY <1>6
    <3>2. \A i \in 1..Len(s6) - 1 : (i = 1 /\ i + 1 = 2) \/ (i = 2 /\ i + 1 = 3) \/ (i = 3 /\ i + 1 = 4) \/ (i = 4 /\ i + 1 = 5) \/ (i = 5 /\ i + 1 = 6)
      BY ONLY <3>1
    <3>3. /\ Precedes(s6[1], s6[2]) /\ Precedes(s6[2], s6[3]) /\ Precedes(s6[3], s6[4])
          /\ Precedes(s6[4], s6[5]) /\ Precedes(s6[5], s6[6])
          /\ NextMeasuring(s6[1], s6[2]) /\ NextMeasuring(s6[2], s6[3]) /\ NextMeasuring(s6[3], s6[4])
          /\ NextMeasuring(s6[4], s6[5]) /\ NextMeasuring(s6[5], s6[6])
      BY <1>6, <1>7, <1>8
    <3> QED BY ONLY <3>2, <3>3
  <2>2. Measuring(f, g, s6)
    BY <1>3, <1>4, <1>6, <1>9, <1>11, <2>1 DEF Measuring
  <2>3. Shaped(f, g, s6)
    BY <1>3, <1>4, <1>6, <1>11, <2>1, <2>2 DEF Shaped
  <2> QED BY <1>3, <1>4, <1>6, <1>11, <2>3 DEF Whole
<1> QED BY <1>10, <1>11 DEF a, b, c, h, l, u, g, s4, s6

LEMMA CountWhole ==
    ASSUME NEW d, NEW f, f # "either_side", "type" \in Regs(f), NEW k \in Contents
    PROVE  Whole(d, f, Measured0("type", k),
                 <<Made("start", "type", At0(k), "stop"), Made("await", "type", At0(1), "stop"), Made("get", "type", <<>>, "stop")>>)
<1> DEFINE b == Made("start", "type", At0(k), "stop")
           c == Made("await", "type", At0(1), "stop")
           h == Made("get", "type", <<>>, "stop")
           g == Measured0("type", k)
           s == <<b, c, h>>
<1>1. "type" \in Names \cap Registers!Measurements /\ At0(1) \in Fillings /\ At0(k) \in Fillings /\ At0(k)[0] = k
  BY EndsFew, At0Of DEF Registers!Measurements, Names
<1>2. /\ b \in Fitting(f) /\ c \in Fitting(f) /\ h \in Fitting(f)
  <2>2. b \in Fitting(f)
    BY <1>1, StartFits
  <2>3. c \in Fitting(f) /\ h \in Fitting(f)
    BY <1>1, EmptyFilling, ReadFits DEF Losses
  <2> QED BY <2>2, <2>3
<1>3. /\ b.do = "start" /\ b.reg = "type" /\ b.val = At0(k) /\ b.fails = "stop"
      /\ c.do = "await" /\ c.reg = "type" /\ c.val = At0(1) /\ c.fails = "stop"
      /\ h.do = "get" /\ h.reg = "type" /\ h.val = <<>> /\ h.fails = "stop"
  <2>1. b.do = "start" /\ b.reg = "type" /\ b.val = At0(k) /\ b.fails = "stop"
    BY DEF Made
  <2>2. c.do = "await" /\ c.reg = "type" /\ c.val = At0(1) /\ c.fails = "stop"
    BY DEF Made
  <2>3. h.do = "get" /\ h.reg = "type" /\ h.val = <<>> /\ h.fails = "stop"
    BY DEF Made
  <2> QED BY <2>1, <2>2, <2>3
<1>4. g \in Tasks /\ g.kind = "measured" /\ g.reg = "type" /\ g.val = At0(k) /\ DOMAIN g.val = {0} /\ g.val[0] = k
  BY <1>1, At0Of DEF Measured0, Tasks
<1> HIDE DEF b, c, h, g
<1>5. /\ s \in Seq(Fitting(f)) /\ Len(s) = 3 /\ s[1] = b /\ s[2] = c /\ s[3] = h /\ s # <<>> /\ Elems(s) = {b, c, h}
  <2>1. s \in Seq(Fitting(f)) /\ Len(s) = 3 /\ s[1] = b /\ s[2] = c /\ s[3] = h /\ s # <<>>
    BY ONLY <1>2
  <2>2. Elems(s) = {b, c, h}
    <3> DEFINE S == Fitting(f)
    <3>1. b \in S /\ c \in S /\ h \in S
      BY <1>2
    <3> HIDE DEF S
    <3> QED BY ONLY <3>1, ThreeSteps
  <2> QED BY <2>1, <2>2
<1> HIDE DEF s
<1>7. Precedes(b, c) /\ Precedes(c, h) /\ NextMeasuring(b, c) /\ NextMeasuring(c, h)
  BY <1>3 DEF Precedes, NextMeasuring
<1>9. MeasuringStep(g, b) /\ MeasuringStep(g, c) /\ MeasuringStep(g, h)
  BY <1>1, <1>3, <1>4 DEF MeasuringStep, At0
<1>10. \A i \in 1..Len(s) - 1 : Precedes(s[i], s[i + 1]) /\ NextMeasuring(s[i], s[i + 1])
  <2>1. Len(s) = 3
    BY <1>5
  <2>2. \A i \in 1..Len(s) - 1 : (i = 1 /\ i + 1 = 2) \/ (i = 2 /\ i + 1 = 3)
    BY ONLY <2>1
  <2>3. /\ Precedes(s[1], s[2]) /\ Precedes(s[2], s[3])
        /\ NextMeasuring(s[1], s[2]) /\ NextMeasuring(s[2], s[3])
    BY <1>5, <1>7
  <2> QED BY ONLY <2>2, <2>3
<1>11. Measuring(f, g, s)
  BY <1>1, <1>3, <1>4, <1>5, <1>9, <1>10 DEF Measuring
<1>12. Shaped(f, g, s)
  BY <1>3, <1>4, <1>5, <1>10, <1>11 DEF Shaped
<1>13. Whole(d, f, g, s)
  BY <1>3, <1>4, <1>5, <1>12 DEF Whole
<1> QED BY <1>13 DEF b, c, h, g, s

-------------------------------------------------------------------------------
(* The words in which the four drivers are written mean the same. *)

LEMMA CredoWords ==
    /\ \A r, v : Registers!Credo!Put(r, v) = Made("put", r, v, "stop")
    /\ \A r, v : Registers!Credo!Merge(r, v) = Made("merge", r, v, "stop")
    /\ \A r, v : Registers!Credo!Aim(r, v) = Made("aim", r, At0(v), "stop")
    /\ \A r, v : Registers!Credo!Start(r, v) = Made("start", r, At0(v), "stop")
    /\ \A r : Registers!Credo!Get(r) = Made("get", r, <<>>, "stop")
    /\ \A r, v : Registers!Credo!Need(r, v) = Made("need", r, v, "stop")
    /\ \A r, v : Registers!Credo!Await(r, v) = Made("await", r, v, "stop")
    /\ Registers!Credo!Lock = Made("lock", "none", <<>>, "stop") /\ Registers!Credo!Unlock = Made("unlock", "none", <<>>, "stop")
    /\ \A do, r, v, x : Registers!Credo!Ignoring(Made(do, r, v, x)) = Made(do, r, v, "ignore")
    /\ \A do, r, v, x : Registers!Credo!Own(Made(do, r, v, x)) = Made(do, r, v, "never")
    /\ Registers!Credo!Done = At0(1) /\ Registers!Credo!Nothing = Registers!Nothing
    /\ \A v : Registers!Credo!One(v) = At0(v)
    /\ \A S, v : Registers!Credo!All(S, v) = Same(S, v)
    /\ \A k, v : Registers!Credo!:>(k, v) = Same({k}, v)
    /\ \A r, v : Registers!Credo!IsSet(r, v) = Setting0(r, v)
    /\ \A r, v : Registers!Credo!Measured(r, v) = Measured0(r, v)
    /\ \A api, s, g : Registers!Credo!Program(api, s, g).todo = s /\ Registers!Credo!Program(api, s, g).goal = g
    /\ \A api, r : LET p == Registers!Credo!Reading(api, r) IN p.todo = <<Made("get", r, <<>>, "stop")>> /\ p.goal = Registers!Nothing
    /\ \A api, r, v : LET p == Registers!Credo!Writing(api, r, v) IN p.todo = <<Made("put", r, v, "stop")>> /\ p.goal = Setting0(r, v)
<1>1. \A r, v : Registers!Credo!Put(r, v) = Made("put", r, v, "stop") /\ Registers!Credo!Merge(r, v) = Made("merge", r, v, "stop")
                /\ Registers!Credo!Need(r, v) = Made("need", r, v, "stop") /\ Registers!Credo!Await(r, v) = Made("await", r, v, "stop")
  BY DEF Registers!Credo!Put, Registers!Credo!Merge, Registers!Credo!Need, Registers!Credo!Await, Registers!Credo!Access, Made
<1>2. \A v : Registers!Credo!One(v) = At0(v) /\ Registers!Credo!:>(0, v) = At0(v)
  BY DEF Registers!Credo!One, Registers!Credo!:>, At0
<1>3. \A r, v : Registers!Credo!Aim(r, v) = Made("aim", r, At0(v), "stop") /\ Registers!Credo!Start(r, v) = Made("start", r, At0(v), "stop")
  BY <1>2 DEF Registers!Credo!Aim, Registers!Credo!Start, Registers!Credo!Access, Made
<1>4. /\ \A r : Registers!Credo!Get(r) = Made("get", r, <<>>, "stop")
      /\ Registers!Credo!Lock = Made("lock", "none", <<>>, "stop") /\ Registers!Credo!Unlock = Made("unlock", "none", <<>>, "stop")
  BY DEF Registers!Credo!Get, Registers!Credo!Lock, Registers!Credo!Unlock, Registers!Credo!Access, Made
<1>5. \A do, r, v, x : Registers!Credo!Ignoring(Made(do, r, v, x)) = Made(do, r, v, "ignore")
                       /\ Registers!Credo!Own(Made(do, r, v, x)) = Made(do, r, v, "never")
  BY DEF Registers!Credo!Ignoring, Registers!Credo!Own, Made
<1>6. Registers!Credo!Done = At0(1) /\ Registers!Credo!Nothing = Registers!Nothing
  BY <1>2 DEF Registers!Credo!Done, Registers!Credo!Nothing, Registers!Credo!Goal, Registers!Nothing, Registers!Goal
<1>7. /\ \A S, v : Registers!Credo!All(S, v) = Same(S, v)
      /\ \A k, v : Registers!Credo!:>(k, v) = Same({k}, v)
  BY DEF Registers!Credo!All, Registers!Credo!:>, Same
<1>8. /\ \A r, v : Registers!Credo!IsSet(r, v) = Setting0(r, v)
      /\ \A r, v : Registers!Credo!Measured(r, v) = Measured0(r, v)
  BY <1>2 DEF Registers!Credo!IsSet, Registers!Credo!Measured, Registers!Credo!Goal, Setting0, Measured0
<1>9. \A api, s, g : Registers!Credo!Program(api, s, g).todo = s /\ Registers!Credo!Program(api, s, g).goal = g
  BY DEF Registers!Credo!Program
<1>10. \A api, r : LET p == Registers!Credo!Reading(api, r) IN p.todo = <<Made("get", r, <<>>, "stop")>> /\ p.goal = Registers!Nothing
  BY <1>4, <1>6, <1>9 DEF Registers!Credo!Reading
<1>11. \A api, r, v : LET p == Registers!Credo!Writing(api, r, v) IN p.todo = <<Made("put", r, v, "stop")>> /\ p.goal = Setting0(r, v)
  BY <1>1, <1>8, <1>9 DEF Registers!Credo!Writing
<1> QED BY <1>1, <1>2, <1>3, <1>4, <1>5, <1>6, <1>7, <1>8, <1>9, <1>10, <1>11

LEMMA LegacyWords ==
    /\ \A r, v : Registers!Legacy!Put(r, v) = Made("put", r, v, "stop")
    /\ \A r, v : Registers!Legacy!Merge(r, v) = Made("merge", r, v, "stop")
    /\ \A r, v : Registers!Legacy!Aim(r, v) = Made("aim", r, At0(v), "stop")
    /\ \A r, v : Registers!Legacy!Start(r, v) = Made("start", r, At0(v), "stop")
    /\ \A r : Registers!Legacy!Get(r) = Made("get", r, <<>>, "stop")
    /\ \A r, v : Registers!Legacy!Need(r, v) = Made("need", r, v, "stop")
    /\ \A r, v : Registers!Legacy!Await(r, v) = Made("await", r, v, "stop")
    /\ Registers!Legacy!Lock = Made("lock", "none", <<>>, "stop") /\ Registers!Legacy!Unlock = Made("unlock", "none", <<>>, "stop")
    /\ \A do, r, v, x : Registers!Legacy!Ignoring(Made(do, r, v, x)) = Made(do, r, v, "ignore")
    /\ \A do, r, v, x : Registers!Legacy!Own(Made(do, r, v, x)) = Made(do, r, v, "never")
    /\ Registers!Legacy!Done = At0(1) /\ Registers!Legacy!Nothing = Registers!Nothing
    /\ \A v : Registers!Legacy!One(v) = At0(v)
    /\ \A S, v : Registers!Legacy!All(S, v) = Same(S, v)
    /\ \A k, v : Registers!Legacy!:>(k, v) = Same({k}, v)
    /\ \A r, v : Registers!Legacy!IsSet(r, v) = Setting0(r, v)
    /\ \A r, v : Registers!Legacy!Measured(r, v) = Measured0(r, v)
    /\ \A api, s, g : Registers!Legacy!Program(api, s, g).todo = s /\ Registers!Legacy!Program(api, s, g).goal = g
    /\ \A api, r : LET p == Registers!Legacy!Reading(api, r) IN p.todo = <<Made("get", r, <<>>, "stop")>> /\ p.goal = Registers!Nothing
    /\ \A api, r, v : LET p == Registers!Legacy!Writing(api, r, v) IN p.todo = <<Made("put", r, v, "stop")>> /\ p.goal = Setting0(r, v)
<1>1. \A r, v : Registers!Legacy!Put(r, v) = Made("put", r, v, "stop") /\ Registers!Legacy!Merge(r, v) = Made("merge", r, v, "stop")
                /\ Registers!Legacy!Need(r, v) = Made("need", r, v, "stop") /\ Registers!Legacy!Await(r, v) = Made("await", r, v, "stop")
  BY DEF Registers!Legacy!Put, Registers!Legacy!Merge, Registers!Legacy!Need, Registers!Legacy!Await, Registers!Legacy!Access, Made
<1>2. \A v : Registers!Legacy!One(v) = At0(v) /\ Registers!Legacy!:>(0, v) = At0(v)
  BY DEF Registers!Legacy!One, Registers!Legacy!:>, At0
<1>3. \A r, v : Registers!Legacy!Aim(r, v) = Made("aim", r, At0(v), "stop") /\ Registers!Legacy!Start(r, v) = Made("start", r, At0(v), "stop")
  BY <1>2 DEF Registers!Legacy!Aim, Registers!Legacy!Start, Registers!Legacy!Access, Made
<1>4. /\ \A r : Registers!Legacy!Get(r) = Made("get", r, <<>>, "stop")
      /\ Registers!Legacy!Lock = Made("lock", "none", <<>>, "stop") /\ Registers!Legacy!Unlock = Made("unlock", "none", <<>>, "stop")
  BY DEF Registers!Legacy!Get, Registers!Legacy!Lock, Registers!Legacy!Unlock, Registers!Legacy!Access, Made
<1>5. \A do, r, v, x : Registers!Legacy!Ignoring(Made(do, r, v, x)) = Made(do, r, v, "ignore")
                       /\ Registers!Legacy!Own(Made(do, r, v, x)) = Made(do, r, v, "never")
  BY DEF Registers!Legacy!Ignoring, Registers!Legacy!Own, Made
<1>6. Registers!Legacy!Done = At0(1) /\ Registers!Legacy!Nothing = Registers!Nothing
  BY <1>2 DEF Registers!Legacy!Done, Registers!Legacy!Nothing, Registers!Legacy!Goal, Registers!Nothing, Registers!Goal
<1>7. /\ \A S, v : Registers!Legacy!All(S, v) = Same(S, v)
      /\ \A k, v : Registers!Legacy!:>(k, v) = Same({k}, v)
  BY DEF Registers!Legacy!All, Registers!Legacy!:>, Same
<1>8. /\ \A r, v : Registers!Legacy!IsSet(r, v) = Setting0(r, v)
      /\ \A r, v : Registers!Legacy!Measured(r, v) = Measured0(r, v)
  BY <1>2 DEF Registers!Legacy!IsSet, Registers!Legacy!Measured, Registers!Legacy!Goal, Setting0, Measured0
<1>9. \A api, s, g : Registers!Legacy!Program(api, s, g).todo = s /\ Registers!Legacy!Program(api, s, g).goal = g
  BY DEF Registers!Legacy!Program
<1>10. \A api, r : LET p == Registers!Legacy!Reading(api, r) IN p.todo = <<Made("get", r, <<>>, "stop")>> /\ p.goal = Registers!Nothing
  BY <1>4, <1>6, <1>9 DEF Registers!Legacy!Reading
<1>11. \A api, r, v : LET p == Registers!Legacy!Writing(api, r, v) IN p.todo = <<Made("put", r, v, "stop")>> /\ p.goal = Setting0(r, v)
  BY <1>1, <1>8, <1>9 DEF Registers!Legacy!Writing
<1> QED BY <1>1, <1>2, <1>3, <1>4, <1>5, <1>6, <1>7, <1>8, <1>9, <1>10, <1>11

LEMMA SimulatedWords ==
    /\ \A r, v : Registers!Simulated!Put(r, v) = Made("put", r, v, "stop")
    /\ \A r, v : Registers!Simulated!Merge(r, v) = Made("merge", r, v, "stop")
    /\ \A r, v : Registers!Simulated!Aim(r, v) = Made("aim", r, At0(v), "stop")
    /\ \A r, v : Registers!Simulated!Start(r, v) = Made("start", r, At0(v), "stop")
    /\ \A r : Registers!Simulated!Get(r) = Made("get", r, <<>>, "stop")
    /\ \A r, v : Registers!Simulated!Need(r, v) = Made("need", r, v, "stop")
    /\ \A r, v : Registers!Simulated!Await(r, v) = Made("await", r, v, "stop")
    /\ Registers!Simulated!Lock = Made("lock", "none", <<>>, "stop") /\ Registers!Simulated!Unlock = Made("unlock", "none", <<>>, "stop")
    /\ \A do, r, v, x : Registers!Simulated!Ignoring(Made(do, r, v, x)) = Made(do, r, v, "ignore")
    /\ \A do, r, v, x : Registers!Simulated!Own(Made(do, r, v, x)) = Made(do, r, v, "never")
    /\ Registers!Simulated!Done = At0(1) /\ Registers!Simulated!Nothing = Registers!Nothing
    /\ \A v : Registers!Simulated!One(v) = At0(v)
    /\ \A S, v : Registers!Simulated!All(S, v) = Same(S, v)
    /\ \A k, v : Registers!Simulated!:>(k, v) = Same({k}, v)
    /\ \A r, v : Registers!Simulated!IsSet(r, v) = Setting0(r, v)
    /\ \A r, v : Registers!Simulated!Measured(r, v) = Measured0(r, v)
    /\ \A api, s, g : Registers!Simulated!Program(api, s, g).todo = s /\ Registers!Simulated!Program(api, s, g).goal = g
    /\ \A api, r : LET p == Registers!Simulated!Reading(api, r) IN p.todo = <<Made("get", r, <<>>, "stop")>> /\ p.goal = Registers!Nothing
    /\ \A api, r, v : LET p == Registers!Simulated!Writing(api, r, v) IN p.todo = <<Made("put", r, v, "stop")>> /\ p.goal = Setting0(r, v)
<1>1. \A r, v : Registers!Simulated!Put(r, v) = Made("put", r, v, "stop") /\ Registers!Simulated!Merge(r, v) = Made("merge", r, v, "stop")
                /\ Registers!Simulated!Need(r, v) = Made("need", r, v, "stop") /\ Registers!Simulated!Await(r, v) = Made("await", r, v, "stop")
  BY DEF Registers!Simulated!Put, Registers!Simulated!Merge, Registers!Simulated!Need, Registers!Simulated!Await, Registers!Simulated!Access, Made
<1>2. \A v : Registers!Simulated!One(v) = At0(v) /\ Registers!Simulated!:>(0, v) = At0(v)
  BY DEF Registers!Simulated!One, Registers!Simulated!:>, At0
<1>3. \A r, v : Registers!Simulated!Aim(r, v) = Made("aim", r, At0(v), "stop") /\ Registers!Simulated!Start(r, v) = Made("start", r, At0(v), "stop")
  BY <1>2 DEF Registers!Simulated!Aim, Registers!Simulated!Start, Registers!Simulated!Access, Made
<1>4. /\ \A r : Registers!Simulated!Get(r) = Made("get", r, <<>>, "stop")
      /\ Registers!Simulated!Lock = Made("lock", "none", <<>>, "stop") /\ Registers!Simulated!Unlock = Made("unlock", "none", <<>>, "stop")
  BY DEF Registers!Simulated!Get, Registers!Simulated!Lock, Registers!Simulated!Unlock, Registers!Simulated!Access, Made
<1>5. \A do, r, v, x : Registers!Simulated!Ignoring(Made(do, r, v, x)) = Made(do, r, v, "ignore")
                       /\ Registers!Simulated!Own(Made(do, r, v, x)) = Made(do, r, v, "never")
  BY DEF Registers!Simulated!Ignoring, Registers!Simulated!Own, Made
<1>6. Registers!Simulated!Done = At0(1) /\ Registers!Simulated!Nothing = Registers!Nothing
  BY <1>2 DEF Registers!Simulated!Done, Registers!Simulated!Nothing, Registers!Simulated!Goal, Registers!Nothing, Registers!Goal
<1>7. /\ \A S, v : Registers!Simulated!All(S, v) = Same(S, v)
      /\ \A k, v : Registers!Simulated!:>(k, v) = Same({k}, v)
  BY DEF Registers!Simulated!All, Registers!Simulated!:>, Same
<1>8. /\ \A r, v : Registers!Simulated!IsSet(r, v) = Setting0(r, v)
      /\ \A r, v : Registers!Simulated!Measured(r, v) = Measured0(r, v)
  BY <1>2 DEF Registers!Simulated!IsSet, Registers!Simulated!Measured, Registers!Simulated!Goal, Setting0, Measured0
<1>9. \A api, s, g : Registers!Simulated!Program(api, s, g).todo = s /\ Registers!Simulated!Program(api, s, g).goal = g
  BY DEF Registers!Simulated!Program
<1>10. \A api, r : LET p == Registers!Simulated!Reading(api, r) IN p.todo = <<Made("get", r, <<>>, "stop")>> /\ p.goal = Registers!Nothing
  BY <1>4, <1>6, <1>9 DEF Registers!Simulated!Reading
<1>11. \A api, r, v : LET p == Registers!Simulated!Writing(api, r, v) IN p.todo = <<Made("put", r, v, "stop")>> /\ p.goal = Setting0(r, v)
  BY <1>1, <1>8, <1>9 DEF Registers!Simulated!Writing
<1> QED BY <1>1, <1>2, <1>3, <1>4, <1>5, <1>6, <1>7, <1>8, <1>9, <1>10, <1>11

LEMMA LaneWords ==
    /\ \A r, v : Registers!Lane!Put(r, v) = Made("put", r, v, "stop")
    /\ \A r, v : Registers!Lane!Merge(r, v) = Made("merge", r, v, "stop")
    /\ \A r, v : Registers!Lane!Aim(r, v) = Made("aim", r, At0(v), "stop")
    /\ \A r, v : Registers!Lane!Start(r, v) = Made("start", r, At0(v), "stop")
    /\ \A r : Registers!Lane!Get(r) = Made("get", r, <<>>, "stop")
    /\ \A r, v : Registers!Lane!Need(r, v) = Made("need", r, v, "stop")
    /\ \A r, v : Registers!Lane!Await(r, v) = Made("await", r, v, "stop")
    /\ Registers!Lane!Lock = Made("lock", "none", <<>>, "stop") /\ Registers!Lane!Unlock = Made("unlock", "none", <<>>, "stop")
    /\ \A do, r, v, x : Registers!Lane!Ignoring(Made(do, r, v, x)) = Made(do, r, v, "ignore")
    /\ \A do, r, v, x : Registers!Lane!Own(Made(do, r, v, x)) = Made(do, r, v, "never")
    /\ Registers!Lane!Done = At0(1) /\ Registers!Lane!Nothing = Registers!Nothing
    /\ \A v : Registers!Lane!One(v) = At0(v)
    /\ \A S, v : Registers!Lane!All(S, v) = Same(S, v)
    /\ \A k, v : Registers!Lane!:>(k, v) = Same({k}, v)
    /\ \A r, v : Registers!Lane!IsSet(r, v) = Setting0(r, v)
    /\ \A r, v : Registers!Lane!Measured(r, v) = Measured0(r, v)
    /\ \A api, s, g : Registers!Lane!Program(api, s, g).todo = s /\ Registers!Lane!Program(api, s, g).goal = g
    /\ \A api, r : LET p == Registers!Lane!Reading(api, r) IN p.todo = <<Made("get", r, <<>>, "stop")>> /\ p.goal = Registers!Nothing
    /\ \A api, r, v : LET p == Registers!Lane!Writing(api, r, v) IN p.todo = <<Made("put", r, v, "stop")>> /\ p.goal = Setting0(r, v)
<1>1. \A r, v : Registers!Lane!Put(r, v) = Made("put", r, v, "stop") /\ Registers!Lane!Merge(r, v) = Made("merge", r, v, "stop")
                /\ Registers!Lane!Need(r, v) = Made("need", r, v, "stop") /\ Registers!Lane!Await(r, v) = Made("await", r, v, "stop")
  BY DEF Registers!Lane!Put, Registers!Lane!Merge, Registers!Lane!Need, Registers!Lane!Await, Registers!Lane!Access, Made
<1>2. \A v : Registers!Lane!One(v) = At0(v) /\ Registers!Lane!:>(0, v) = At0(v)
  BY DEF Registers!Lane!One, Registers!Lane!:>, At0
<1>3. \A r, v : Registers!Lane!Aim(r, v) = Made("aim", r, At0(v), "stop") /\ Registers!Lane!Start(r, v) = Made("start", r, At0(v), "stop")
  BY <1>2 DEF Registers!Lane!Aim, Registers!Lane!Start, Registers!Lane!Access, Made
<1>4. /\ \A r : Registers!Lane!Get(r) = Made("get", r, <<>>, "stop")
      /\ Registers!Lane!Lock = Made("lock", "none", <<>>, "stop") /\ Registers!Lane!Unlock = Made("unlock", "none", <<>>, "stop")
  BY DEF Registers!Lane!Get, Registers!Lane!Lock, Registers!Lane!Unlock, Registers!Lane!Access, Made
<1>5. \A do, r, v, x : Registers!Lane!Ignoring(Made(do, r, v, x)) = Made(do, r, v, "ignore")
                       /\ Registers!Lane!Own(Made(do, r, v, x)) = Made(do, r, v, "never")
  BY DEF Registers!Lane!Ignoring, Registers!Lane!Own, Made
<1>6. Registers!Lane!Done = At0(1) /\ Registers!Lane!Nothing = Registers!Nothing
  BY <1>2 DEF Registers!Lane!Done, Registers!Lane!Nothing, Registers!Lane!Goal, Registers!Nothing, Registers!Goal
<1>7. /\ \A S, v : Registers!Lane!All(S, v) = Same(S, v)
      /\ \A k, v : Registers!Lane!:>(k, v) = Same({k}, v)
  BY DEF Registers!Lane!All, Registers!Lane!:>, Same
<1>8. /\ \A r, v : Registers!Lane!IsSet(r, v) = Setting0(r, v)
      /\ \A r, v : Registers!Lane!Measured(r, v) = Measured0(r, v)
  BY <1>2 DEF Registers!Lane!IsSet, Registers!Lane!Measured, Registers!Lane!Goal, Setting0, Measured0
<1>9. \A api, s, g : Registers!Lane!Program(api, s, g).todo = s /\ Registers!Lane!Program(api, s, g).goal = g
  BY DEF Registers!Lane!Program
<1>10. \A api, r : LET p == Registers!Lane!Reading(api, r) IN p.todo = <<Made("get", r, <<>>, "stop")>> /\ p.goal = Registers!Nothing
  BY <1>4, <1>6, <1>9 DEF Registers!Lane!Reading
<1>11. \A api, r, v : LET p == Registers!Lane!Writing(api, r, v) IN p.todo = <<Made("put", r, v, "stop")>> /\ p.goal = Setting0(r, v)
  BY <1>1, <1>8, <1>9 DEF Registers!Lane!Writing
<1> QED BY <1>1, <1>2, <1>3, <1>4, <1>5, <1>6, <1>7, <1>8, <1>9, <1>10, <1>11

(* What the calls of a driver must be. *)
Okay(d, f, p) == p.todo = <<>> \/ Whole(d, f, p.goal, p.todo)
Plainly(f, r) == f # "either_side" /\ r \in (Regs(f) \cap Names) \ {"target", "apply"}

LEMMA SameFilling ==
    ASSUME NEW S \in SUBSET Nat, NEW c \in Contents
    PROVE  Same(S, c) \in Fillings /\ DOMAIN Same(S, c) = S /\ \A k \in S : Same(S, c)[k] = c
<1>1. Same(S, c) \in [S -> Contents]
  BY DEF Same
<1> QED BY <1>1 DEF Fillings, Same

LEMMA OneOrdinary ==
    ASSUME NEW f, f # "either_side", NEW a \in Fitting(f), a.do \notin {"merge", "lock", "unlock"}, a.reg # "target"
    PROVE  Ordinary(f, <<a>>)
<1> DEFINE s == <<a>>
<1>1. s \in Seq(Fitting(f)) /\ Len(s) = 1 /\ s[1] = a /\ s # <<>> /\ Elems(s) = {a}
  BY OneStep
<1> HIDE DEF s
<1>2. Linked(s)
  <2>1. Len(s) = 1
    BY <1>1
  <2>2. \A i \in 1..Len(s) - 1 : FALSE
    BY ONLY <2>1
  <2> QED BY <2>2 DEF Linked
<1>3. Ordinary(f, s)
  BY <1>1, <1>2 DEF Ordinary
<1> QED BY <1>3 DEF s

LEMMA ReadingOkay ==
    ASSUME NEW d, NEW f, NEW p, NEW r, Plainly(f, r), NEW x \in Losses,
           p.todo = <<Made("get", r, <<>>, x)>>, p.goal = Registers!Nothing
    PROVE  Okay(d, f, p)
<1> DEFINE a == Made("get", r, <<>>, x)
<1>1. a \in Fitting(f) /\ a.do = "get" /\ a.reg = r
  <2>1. a \in Fitting(f)
    BY ReadFits, EmptyFilling DEF Plainly
  <2> QED BY <2>1 DEF Made
<1> HIDE DEF a
<1>2. Ordinary(f, <<a>>)
  BY <1>1, OneOrdinary DEF Plainly
<1>3. Whole(d, f, Registers!Nothing, <<a>>)
  BY <1>2, NothingWhole
<1> QED BY <1>3 DEF Okay, a

LEMMA WritingOkay ==
    ASSUME NEW d, NEW f, NEW p, NEW r, Plainly(f, r), r \notin Registers!Measurements, NEW v \in Fillings,
           DOMAIN v \subseteq FieldsOf(f, r), NEW x \in Losses,
           p.todo = <<Made("put", r, v, x)>>, p.goal = Setting0(r, v)
    PROVE  Okay(d, f, p)
<1> DEFINE a == Made("put", r, v, x) s == <<a>>
<1>1. a \in Fitting(f)
  BY WriteFits DEF Plainly
<1>2. a.do = "put" /\ a.reg = r /\ a.val = v
  BY DEF Made
<1> HIDE DEF a
<1>3. Ordinary(f, s)
  BY <1>1, <1>2, OneOrdinary DEF Plainly
<1>4. Elems(s) = {a}
  BY <1>1, OneStep
<1> HIDE DEF s
<1>5. Whole(d, f, Setting0(r, v), s)
  BY <1>2, <1>3, <1>4, SetWhole DEF Plainly
<1> QED BY <1>5 DEF Okay, a, s

(* Reads, one after the other. *)
LEMMA FactsOkay ==
    ASSUME NEW d, NEW f, NEW p, NEW r, Plainly(f, r), NEW n \in Nat, n # 0,
           p.todo = [i \in 1..n |-> Made("get", r, <<>>, "stop")], p.goal = Registers!Nothing
    PROVE  Okay(d, f, p)
<1> DEFINE a == Made("get", r, <<>>, "stop") s == [i \in 1..n |-> a]
<1>1. a \in Fitting(f) /\ a.do = "get" /\ a.reg = r
  <2>1. a \in Fitting(f)
    BY ReadFits, EmptyFilling DEF Plainly, Losses
  <2> QED BY <2>1 DEF Made
<1> HIDE DEF a
<1>2. s \in Seq(Fitting(f)) /\ Len(s) = n /\ \A i \in 1..n : s[i] = a
  BY <1>1
<1> HIDE DEF s
<1>3. 1 \in 1..n /\ (\A i \in 1..n - 1 : i + 1 \in 1..n) /\ s # <<>>
  BY <1>2
<1>4. Linked(s) /\ \A b \in Elems(s) : b = a
  BY <1>1, <1>2, <1>3 DEF Linked, Elems
<1>5. Ordinary(f, s)
  BY <1>1, <1>2, <1>3, <1>4 DEF Ordinary, Plainly
<1>6. Whole(d, f, Registers!Nothing, s)
  BY <1>5, NothingWhole
<1> QED BY <1>6 DEF Okay, s, a

(* Programs of a few accesses, and one program after the other. *)
LEMMA TwoOrdinary ==
    ASSUME NEW f, f # "either_side", NEW a \in Fitting(f), NEW b \in Fitting(f),
           \A x \in {a, b} : x.do \notin {"lock", "unlock"} /\ x.reg # "target" /\ (f \in {"mux", "flaps"} => x.do # "merge"),
           a.do # "merge", b.do = "merge" => a.do = "get" /\ a.reg = b.reg /\ a.fails = "stop"
    PROVE  Ordinary(f, <<a, b>>)
<1> DEFINE s == <<a, b>>
<1>1. s \in Seq(Fitting(f)) /\ Len(s) = 2 /\ s[1] = a /\ s[2] = b /\ s # <<>> /\ Elems(s) = {a, b}
  BY TwoSteps
<1> HIDE DEF s
<1>2. Linked(s)
  <2>1. Len(s) = 2
    BY <1>1
  <2>2. \A i \in 1..Len(s) - 1 : i = 1 /\ i + 1 = 2
    BY ONLY <2>1
  <2> QED BY <1>1, <2>2 DEF Linked
<1>3. Ordinary(f, s)
  BY <1>1, <1>2 DEF Ordinary
<1> QED BY <1>3 DEF s

LEMMA JoinOrdinary ==
    ASSUME NEW f, NEW s, NEW t, Ordinary(f, s), Ordinary(f, t)
    PROVE  Ordinary(f, s \o t) /\ Elems(s \o t) = Elems(s) \cup Elems(t)
<1> DEFINE u == s \o t m == Len(s) n == Len(t)
<1>1. s \in Seq(Fitting(f)) /\ t \in Seq(Fitting(f)) /\ Linked(s) /\ Linked(t) /\ s[1].do # "merge" /\ t[1].do # "merge"
  BY DEF Ordinary
<1>2. m \in Nat \ {0} /\ n \in Nat \ {0}
  BY TailOf DEF Ordinary
<1>3. u \in Seq(Fitting(f)) /\ Len(u) = m + n
  BY ONLY <1>1, ConcatOf
<1>4. (\A i \in 1..m : u[i] = s[i]) /\ (\A i \in 1..n : u[m + i] = t[i])
  BY ONLY <1>1, ConcatOf
<1>5. Elems(u) = Elems(s) \cup Elems(t)
  BY ONLY <1>1, ConcatOf
<1> HIDE DEF u
<1>6. Linked(u)
  <2>1. SUFFICES ASSUME NEW i \in 1..Len(u) - 1, u[i + 1].do = "merge"
        PROVE u[i].do = "get" /\ u[i].reg = u[i + 1].reg /\ u[i].fails = "stop"
    BY DEF Linked
  <2>2. CASE i < m
    <3>1. i \in 1..m - 1 /\ i \in 1..m /\ i + 1 \in 1..m
      BY <1>2, <1>3, <2>2
    <3>2. u[i] = s[i] /\ u[i + 1] = s[i + 1]
      BY <1>4, <3>1
    <3> QED BY <1>1, <2>1, <3>1, <3>2 DEF Linked
  <2>3. CASE i = m
    <3>1. u[m + 1] = t[1]
      BY <1>2, <1>4
    <3> QED BY <1>1, <2>1, <2>3, <3>1
  <2>4. CASE i > m
    <3>1. i - m \in 1..n - 1 /\ i - m \in 1..n /\ i - m + 1 \in 1..n /\ m + (i - m) = i /\ m + (i - m + 1) = i + 1
      <4> HIDE DEF m, n
      <4> QED BY <1>2, <1>3, <2>4
    <3>2. u[i] = t[i - m] /\ u[i + 1] = t[i - m + 1]
      BY <1>4, <3>1
    <3> QED BY <1>1, <2>1, <3>1, <3>2 DEF Linked
  <2>5. i \in Int /\ m \in Int
    BY <1>2
  <2> QED BY <2>2, <2>3, <2>4, <2>5
<1>7. u[1].do # "merge" /\ u # <<>>
  <2>1. u[1] = s[1]
    BY <1>2, <1>4
  <2>2. Len(u) # 0
    <3> HIDE DEF m, n
    <3> QED BY <1>2, <1>3
  <2> QED BY <1>1, <2>1, <2>2
<1>8. Ordinary(f, u)
  BY <1>3, <1>5, <1>6, <1>7 DEF Ordinary
<1> QED BY <1>5, <1>8 DEF u

-------------------------------------------------------------------------------
(* The calls of the Credo driver. *)
LEMMA CredoMux == \A p \in Registers!Credo!Calls("mux") : Okay("credo", "mux", p)
<1>1. Regs("mux") = {"mux", "auto", "hyst"} /\ \A r \in Regs("mux") : Plainly("mux", r) /\ FieldsOf("mux", r) = {0}
  BY CableRegisters DEF Regs, FieldsOf, Plainly, Names, At0
<1> SUFFICES ASSUME NEW p \in Registers!Credo!Calls("mux") PROVE Okay("credo", "mux", p)
  OBVIOUS
<1>2. CASE p \in Registers!Credo!get_mux_direction \cup Registers!Credo!get_active_linked_tor_side
             \cup Registers!Credo!get_switching_mode \cup Registers!Credo!get_autoswitch_hysteresis_timer
  <2>1. PICK r \in {"mux", "auto", "hyst"} : p.todo = <<Made("get", r, <<>>, "stop")>> /\ p.goal = Registers!Nothing
    BY <1>2, CredoWords DEF Registers!Credo!get_mux_direction, Registers!Credo!get_active_linked_tor_side,
       Registers!Credo!get_switching_mode, Registers!Credo!get_autoswitch_hysteresis_timer
  <2> QED BY <1>1, <2>1, ReadingOkay DEF Losses
<1>3. CASE p \in Registers!Credo!toggle_mux_to_tor_a \cup Registers!Credo!toggle_mux_to_tor_b
             \cup Registers!Credo!set_switching_mode \cup Registers!Credo!set_autoswitch_hysteresis_timer
  <2>1. PICK r \in {"mux", "auto", "hyst"}, x \in {"stop", "ignore"}, c \in 0..1 :
          p.todo = <<Made("put", r, At0(c), x)>> /\ p.goal = Setting0(r, At0(c))
    BY <1>3, CredoWords DEF Registers!Credo!toggle_mux_to_tor_a, Registers!Credo!toggle_mux_to_tor_b,
       Registers!Credo!set_switching_mode, Registers!Credo!set_autoswitch_hysteresis_timer
  <2>2. At0(c) \in Fillings /\ DOMAIN At0(c) = {0}
    BY At0Of DEF Contents
  <2> QED BY <1>1, <2>1, <2>2, WritingOkay DEF Losses, Registers!Measurements
<1> QED BY <1>2, <1>3 DEF Registers!Credo!Calls

LEMMA CredoFacts == \A p \in Registers!Credo!Calls("facts") : Okay("credo", "facts", p)
<1>1. /\ Regs("facts") = {"ident", "cursor", "count"} /\ FieldsOf("facts", "cursor") = {0, 1}
      /\ Plainly("facts", "ident") /\ Plainly("facts", "cursor")
  BY CableRegisters DEF Regs, FieldsOf, Plainly, Names, Same
<1> SUFFICES ASSUME NEW p \in Registers!Credo!Calls("facts") PROVE Okay("credo", "facts", p)
  OBVIOUS
<1>2. CASE p \in Registers!Credo!set_target_cursor_values
  <2>1. PICK c \in 0..1 :
          /\ p.todo = <<Made("put", "cursor", Same({0}, c), "ignore"), Made("put", "cursor", Same({1}, c), "ignore")>>
          /\ p.goal = Setting0("cursor", Registers!Credo!@@(Same({0}, c), Same({1}, c)))
    BY <1>2, CredoWords DEF Registers!Credo!set_target_cursor_values
  <2>2. Registers!Credo!@@(Same({0}, c), Same({1}, c)) = Same({0, 1}, c)
    BY DEF Registers!Credo!@@, Same
  <2> DEFINE a == Made("put", "cursor", Same({0}, c), "ignore") b == Made("put", "cursor", Same({1}, c), "ignore")
             v == Same({0, 1}, c) s == <<a, b>>
  <2>3. /\ Same({0}, c) \in Fillings /\ DOMAIN Same({0}, c) = {0} /\ Same({0}, c)[0] = c
        /\ Same({1}, c) \in Fillings /\ DOMAIN Same({1}, c) = {1} /\ Same({1}, c)[1] = c
        /\ v \in Fillings /\ DOMAIN v = {0, 1} /\ v[0] = c /\ v[1] = c
    BY SameFilling DEF Contents
  <2>4. a \in Fitting("facts") /\ b \in Fitting("facts")
    BY <1>1, <2>3, WriteFits DEF Losses, Names, Registers!Measurements
  <2>5. /\ a.do = "put" /\ a.reg = "cursor" /\ a.val = Same({0}, c)
        /\ b.do = "put" /\ b.reg = "cursor" /\ b.val = Same({1}, c)
    BY DEF Made
  <2> HIDE DEF a, b, v
  <2>6. Ordinary("facts", s)
    BY <2>4, <2>5, TwoOrdinary
  <2>7. Elems(s) = {a, b}
    BY <2>4, TwoSteps
  <2> HIDE DEF s
  <2>8. Whole("credo", "facts", Setting0("cursor", v), s)
    <3>1. \A k \in DOMAIN v : \E x \in Elems(s) : x.do \in {"put", "merge"} /\ x.reg = "cursor" /\ k \in DOMAIN x.val
      BY <2>3, <2>5, <2>7
    <3>2. \A x \in Elems(s) : /\ x.do # "aim"
                              /\ x.do \in {"put", "merge"} /\ x.reg = "cursor" =>
                                   \A k \in DOMAIN x.val : k \in DOMAIN v /\ x.val[k] = v[k]
      BY <2>3, <2>5, <2>7
    <3>3. "cursor" \in Regs("facts") \cap Names /\ DOMAIN v \subseteq FieldsOf("facts", "cursor")
          /\ "cursor" \notin Registers!Measurements \cup {"target"}
      BY <1>1, <2>3 DEF Names, Registers!Measurements
    <3> QED BY <2>3, <2>6, <3>1, <3>2, <3>3, SetWhole
  <2> QED BY <2>1, <2>2, <2>8 DEF Okay, a, b, v, s
<1>3. CASE p \notin Registers!Credo!set_target_cursor_values
  <2>1. PICK n \in {1, 2, 5, 6} : p.todo = [i \in 1..n |-> Made("get", "ident", <<>>, "stop")] /\ p.goal = Registers!Nothing
    <3>1. \A api, n : LET q == Registers!Credo!Program(api, [i \in 1..n |-> Registers!Credo!Get("ident")], Registers!Credo!Nothing)
                      IN q.todo = [i \in 1..n |-> Made("get", "ident", <<>>, "stop")] /\ q.goal = Registers!Nothing
      <4>1. Registers!Credo!Get("ident") = Made("get", "ident", <<>>, "stop")
        BY CredoWords
      <4> SUFFICES ASSUME NEW api, NEW n
                   PROVE  LET q == Registers!Credo!Program(api, [i \in 1..n |-> Registers!Credo!Get("ident")], Registers!Credo!Nothing)
                          IN q.todo = [i \in 1..n |-> Made("get", "ident", <<>>, "stop")] /\ q.goal = Registers!Nothing
        OBVIOUS
      <4> DEFINE u == [i \in 1..n |-> Registers!Credo!Get("ident")] v == [i \in 1..n |-> Made("get", "ident", <<>>, "stop")]
      <4>2. u = v
        BY <4>1
      <4>3. \A x, s, g : Registers!Credo!Program(x, s, g).todo = s /\ Registers!Credo!Program(x, s, g).goal = g
        BY CredoWords
      <4>4. Registers!Credo!Nothing = Registers!Nothing
        BY CredoWords
      <4> HIDE DEF u, v
      <4>5. LET q == Registers!Credo!Program(api, u, Registers!Credo!Nothing) IN q.todo = v /\ q.goal = Registers!Nothing
        BY <4>2, <4>3, <4>4
      <4> QED BY <4>5 DEF u, v
    <3>2. \A api, n : \A q \in Registers!Credo!Facts(api, n) :
             q.todo = [i \in 1..n |-> Made("get", "ident", <<>>, "stop")] /\ q.goal = Registers!Nothing
      BY <3>1 DEF Registers!Credo!Facts
    <3>3. \E api : \E n \in {1, 2, 5, 6} : p \in Registers!Credo!Facts(api, n)
      BY <1>3 DEF Registers!Credo!Calls, Registers!Credo!get_read_side, Registers!Credo!is_link_active,
         Registers!Credo!get_vendor, Registers!Credo!get_part_number, Registers!Credo!get_serial_number,
         Registers!Credo!get_nic_temperature, Registers!Credo!get_local_temperature, Registers!Credo!get_nic_voltage,
         Registers!Credo!get_local_voltage, Registers!Credo!get_alive_status, Registers!Credo!get_dsp_link_detect,
         Registers!Credo!reset_cause, Registers!Credo!operation_time, Registers!Credo!get_target_cursor_values
    <3> QED BY ZenonT(60), <3>2, <3>3
  <2> QED BY <1>1, <2>1, FactsOkay
<1> QED BY <1>2, <1>3

(* A write of one bit (or lane) alone. *)
LEMMA ReadThenWriteOkay ==
    ASSUME NEW d, NEW f, NEW p, NEW r, Plainly(f, r), r \notin Registers!Measurements, NEW v \in Fillings,
           DOMAIN v \subseteq FieldsOf(f, r), NEW do \in {"put", "merge"}, f \in {"mux", "flaps"} => do = "put", NEW x \in Losses,
           p.todo = <<Made("get", r, <<>>, "stop"), Made(do, r, v, x)>>, p.goal = Setting0(r, v)
    PROVE  Okay(d, f, p)
<1> DEFINE a == Made("get", r, <<>>, "stop") b == Made(do, r, v, x) s == <<a, b>>
<1>1. a \in Fitting(f)
  BY ReadFits, EmptyFilling DEF Plainly, Losses
<1>2. b \in Fitting(f)
  BY WriteFits DEF Plainly
<1>3. /\ a.do = "get" /\ a.reg = r /\ a.fails = "stop"
      /\ b.do = do /\ b.reg = r /\ b.val = v
  BY DEF Made
<1> HIDE DEF a, b
<1>4. Ordinary(f, s)
  BY <1>1, <1>2, <1>3, TwoOrdinary DEF Plainly
<1>5. Elems(s) = {a, b}
  BY <1>1, <1>2, TwoSteps
<1> HIDE DEF s
<1>6. Whole(d, f, Setting0(r, v), s)
  <2>1. \A k \in DOMAIN v : \E y \in Elems(s) : y.do \in {"put", "merge"} /\ y.reg = r /\ k \in DOMAIN y.val
    BY <1>3, <1>5
  <2>2. \A y \in Elems(s) : /\ y.do # "aim"
                            /\ y.do \in {"put", "merge"} /\ y.reg = r => \A k \in DOMAIN y.val : k \in DOMAIN v /\ y.val[k] = v[k]
    BY <1>3, <1>5
  <2> QED BY <1>4, <2>1, <2>2, SetWhole DEF Plainly
<1> QED BY <1>6 DEF Okay, a, b, s

LEMMA CredoMode == \A p \in Registers!Credo!Calls("mode") : Okay("credo", "mode", p)
<1>1. Regs("mode") = {"mode"} /\ FieldsOf("mode", "mode") = {0, 1, 3, 4, 6} /\ Plainly("mode", "mode")
  BY CableRegisters DEF Regs, FieldsOf, Plainly, Names, Same
<1> SUFFICES ASSUME NEW p \in Registers!Credo!Calls("mode") PROVE Okay("credo", "mode", p)
  OBVIOUS
<1>2. CASE p \in Registers!Credo!create_port
  <2>1. PICK an \in 0..1, fn \in 0..1, c \in {1} :
          LET v == Registers!Credo!@@(Registers!Credo!@@(Registers!Credo!@@(Registers!Credo!@@(
                       Same({0}, an), Same({1}, an)), Same({3}, fn)), Same({4}, fn)), Same({6}, c))
          IN p.todo = <<Made("put", "mode", v, "stop")>> /\ p.goal = Setting0("mode", v)
    BY <1>2, CredoWords DEF Registers!Credo!create_port
  <2> DEFINE v == Registers!Credo!@@(Registers!Credo!@@(Registers!Credo!@@(Registers!Credo!@@(
                       Same({0}, an), Same({1}, an)), Same({3}, fn)), Same({4}, fn)), Same({6}, c))
             x == [k \in {0, 1, 3, 4, 6} |-> IF k \in {0, 1} THEN an ELSE IF k \in {3, 4} THEN fn ELSE c]
  <2>2. v = x
    BY DEF Registers!Credo!@@, Same
  <2>3. x \in Fillings /\ DOMAIN x = {0, 1, 3, 4, 6}
    <3>1. x \in [{0, 1, 3, 4, 6} -> Contents]
      BY DEF Contents
    <3>2. {0, 1, 3, 4, 6} \in SUBSET Nat
      OBVIOUS
    <3> QED BY <3>1, <3>2 DEF Fillings
  <2>4. p.todo = <<Made("put", "mode", v, "stop")>> /\ p.goal = Setting0("mode", v)
    BY <2>1
  <2> HIDE DEF v, x
  <2> QED BY <1>1, <2>2, <2>3, <2>4, WritingOkay DEF Losses, Registers!Measurements
<1>3. CASE p \in Registers!Credo!set_fec_mode \cup Registers!Credo!set_anlt
  <2>1. PICK b \in {0, 1, 3, 4}, c \in 0..1 :
          /\ p.todo = <<Made("get", "mode", <<>>, "stop"), Made("merge", "mode", Same({b}, c), "stop")>>
          /\ p.goal = Setting0("mode", Same({b}, c))
    <3>1. \A api, v : LET q == Registers!Credo!SetBits(api, v)
                      IN /\ q.todo = <<Made("get", "mode", <<>>, "stop"), Made("merge", "mode", v, "stop")>>
                         /\ q.goal = Setting0("mode", v)
      BY CredoWords DEF Registers!Credo!SetBits
    <3>2. \E api : \E b \in {0, 1, 3, 4}, c \in 0..1 : p = Registers!Credo!SetBits(api, Registers!Credo!:>(b, c))
      BY <1>3 DEF Registers!Credo!set_fec_mode, Registers!Credo!set_anlt, Registers!Credo!FecBit, Registers!Credo!AnltBit
    <3>3. \A b, c : Registers!Credo!:>(b, c) = Same({b}, c)
      BY CredoWords
    <3> QED BY <3>1, <3>2, <3>3
  <2>2. Same({b}, c) \in Fillings /\ DOMAIN Same({b}, c) = {b}
    BY SameFilling DEF Contents
  <2> QED BY <1>1, <2>1, <2>2, ReadThenWriteOkay DEF Losses, Registers!Measurements
<1>4. CASE p \in Registers!Credo!get_fec_mode \cup Registers!Credo!get_anlt \cup Registers!Credo!get_speed
  <2>1. p.todo = <<Made("get", "mode", <<>>, "stop")>> /\ p.goal = Registers!Nothing
    BY <1>4, CredoWords DEF Registers!Credo!get_fec_mode, Registers!Credo!get_anlt, Registers!Credo!get_speed
  <2> QED BY <1>1, <2>1, ReadingOkay DEF Losses
<1> QED BY <1>2, <1>3, <1>4 DEF Registers!Credo!Calls

LEMMA JoinElems ==
    ASSUME NEW f, NEW s, NEW t, Ordinary(f, s), Ordinary(f, t)
    PROVE  /\ \A a \in Elems(s \o t) : a \in Elems(s) \/ a \in Elems(t)
           /\ \A a \in Elems(s) : a \in Elems(s \o t)
           /\ \A a \in Elems(t) : a \in Elems(s \o t)
<1> DEFINE u == s \o t
<1>1. Elems(u) = Elems(s) \cup Elems(t)
  BY JoinOrdinary, SMT
<1> HIDE DEF u
<1>2. /\ \A a \in Elems(u) : a \in Elems(s) \/ a \in Elems(t)
      /\ \A a \in Elems(s) : a \in Elems(u)
      /\ \A a \in Elems(t) : a \in Elems(u)
  BY <1>1
<1> QED BY <1>2, Zenon DEF u


LEMMA PairOf == ASSUME NEW a, NEW b PROVE <<a>> \o <<b>> = <<a, b>> /\ <<a>> \o <<>> = <<a>>
<1>1. <<a>> \in Seq({a, b}) /\ <<b>> \in Seq({a, b}) /\ <<a, b>> \in Seq({a, b}) /\ <<>> \in Seq({a, b})
  OBVIOUS
<1> DEFINE u == <<a>> \o <<b>> v == <<a, b>>
<1>2. u \in Seq({a, b}) /\ Len(u) = 2 /\ u[1] = a /\ u[2] = b
  BY <1>1, ConcatProperties
<1>3. v \in Seq({a, b}) /\ Len(v) = 2 /\ v[1] = a /\ v[2] = b
  BY <1>1
<1> HIDE DEF u, v
<1>4. \A i \in 1..Len(u) : u[i] = v[i]
  <2>1. \A i \in 1..Len(u) : i = 1 \/ i = 2
    BY <1>2
  <2> QED BY <1>2, <1>3, <2>1
<1>5. u = v
  BY <1>2, <1>3, <1>4, SeqEqual
<1>6. <<a>> \o <<>> = <<a>>
  BY <1>1, ConcatEmptySeq
<1> QED BY <1>5, <1>6 DEF u, v

(* The counters of switches, which may be cleared as they are read. *)
LEMMA CountWords ==
    \A k \in 0..2 : \A c \in BOOLEAN :
        LET a == Made("get", "count", <<>>, "stop")
            b == Made("put", "count", Same({k}, 0), "stop")
        IN /\ Registers!Credo!Count(k, c) = IF c THEN <<a, b>> ELSE <<a>>
           /\ Registers!Credo!CountGoal(k, c) = IF c THEN Setting0("count", Same({k}, 0)) ELSE Registers!Nothing
<1>1. /\ Registers!Credo!Get("count") = Made("get", "count", <<>>, "stop")
      /\ \A k : Registers!Credo!Put("count", Registers!Credo!:>(k, 0)) = Made("put", "count", Same({k}, 0), "stop")
      /\ \A k : Registers!Credo!IsSet("count", Registers!Credo!:>(k, 0)) = Setting0("count", Same({k}, 0))
      /\ Registers!Credo!Nothing = Registers!Nothing
  BY CredoWords
<1>2. \A a, b : <<a>> \o <<b>> = <<a, b>> /\ <<a>> \o <<>> = <<a>>
  BY PairOf
<1> QED BY <1>1, <1>2 DEF Registers!Credo!Count, Registers!Credo!CountGoal

LEMMA NothingOkay ==
    ASSUME NEW d, NEW f, NEW p, NEW s, Ordinary(f, s), p.todo = s, p.goal = Registers!Nothing
    PROVE  Okay(d, f, p)
<1>1. Whole(d, f, Registers!Nothing, s)
  BY NothingWhole
<1> QED BY <1>1 DEF Okay

LEMMA SetOkay ==
    ASSUME NEW d, NEW f, NEW p, NEW s, Ordinary(f, s), NEW r, Plainly(f, r), r \notin Registers!Measurements,
           NEW v \in Fillings, DOMAIN v \subseteq FieldsOf(f, r), p.todo = s, p.goal = Setting0(r, v),
           \A a \in Elems(s) : /\ a.do # "aim"
                               /\ a.do \in {"put", "merge"} /\ a.reg = r =>
                                    \A k \in DOMAIN a.val : k \in DOMAIN v /\ a.val[k] = v[k],
           \A k \in DOMAIN v : \E a \in Elems(s) : a.do \in {"put", "merge"} /\ a.reg = r /\ k \in DOMAIN a.val
    PROVE  Okay(d, f, p)
<1>1. r \in Regs(f) \cap Names /\ r \notin Registers!Measurements \cup {"target"}
  BY DEF Plainly
<1>2. Whole(d, f, Setting0(r, v), s)
  BY <1>1, SetWhole
<1> QED BY <1>2 DEF Okay

LEMMA IgnoredCount ==
    ASSUME NEW k \in 0..2
    PROVE  LET I(s) == [i \in 1..Len(s) |-> Registers!Credo!Ignoring(s[i])]
               a == Made("get", "count", <<>>, "ignore")
           IN /\ I(Registers!Credo!Count(k, TRUE)) = <<a, Made("put", "count", Same({k}, 0), "ignore")>>
              /\ I(Registers!Credo!Count(k, FALSE)) = <<a>>
<1> DEFINE I(s) == [i \in 1..Len(s) |-> Registers!Credo!Ignoring(s[i])]
           h == Made("get", "count", <<>>, "stop")
           n == Made("put", "count", Same({k}, 0), "stop")
           a == Made("get", "count", <<>>, "ignore")
           b == Made("put", "count", Same({k}, 0), "ignore")
           y == Registers!Credo!Count(k, TRUE)
           z == Registers!Credo!Count(k, FALSE)
<1>1. y = <<h, n>> /\ z = <<h>>
  BY CountWords
<1>2. Registers!Credo!Ignoring(h) = a /\ Registers!Credo!Ignoring(n) = b
  BY CredoWords
<1>3. \A x, w : I(<<x, w>>) = <<Registers!Credo!Ignoring(x), Registers!Credo!Ignoring(w)>> /\ I(<<x>>) = <<Registers!Credo!Ignoring(x)>>
  OBVIOUS
<1> SUFFICES I(y) = <<a, b>> /\ I(z) = <<a>>
  OBVIOUS
<1> HIDE DEF I, h, n, a, b, y, z
<1>4. I(<<h, n>>) = <<a, b>>
  BY <1>2, <1>3
<1>5. I(<<h>>) = <<a>>
  BY <1>2, <1>3
<1> QED BY <1>1, <1>4, <1>5

LEMMA CredoCounts == \A p \in Registers!Credo!Calls("counts") : Okay("credo", "counts", p)
<1>1. /\ Regs("counts") = {"count", "type"} /\ FieldsOf("counts", "count") = 0..2
      /\ Plainly("counts", "count") /\ "count" \notin Registers!Measurements
  BY CableRegisters DEF Regs, FieldsOf, Plainly, Names, Same, Registers!Measurements
<1>2. \A k \in 0..2 : /\ Same({k}, 0) \in Fillings /\ DOMAIN Same({k}, 0) = {k} /\ Same({k}, 0)[k] = 0
                      /\ DOMAIN Same({k}, 0) \subseteq FieldsOf("counts", "count")
  <2>1. ASSUME NEW k \in 0..2 PROVE Same({k}, 0) \in Fillings /\ DOMAIN Same({k}, 0) = {k} /\ Same({k}, 0)[k] = 0
    BY SameFilling, EndsFew
  <2> QED BY <1>1, <2>1
<1> SUFFICES ASSUME NEW p \in Registers!Credo!Calls("counts") PROVE Okay("credo", "counts", p)
  OBVIOUS
<1>3. CASE p \in Registers!Credo!get_switch_count_tor_a \cup Registers!Credo!get_switch_count_tor_b
  <2>1. PICK k \in 0..2, c \in BOOLEAN : p.todo = Registers!Credo!Count(k, c) /\ p.goal = Registers!Credo!CountGoal(k, c)
    BY <1>3, CredoWords DEF Registers!Credo!get_switch_count_tor_a, Registers!Credo!get_switch_count_tor_b
  <2>2. CASE c
    <3>1. /\ p.todo = <<Made("get", "count", <<>>, "stop"), Made("put", "count", Same({k}, 0), "stop")>>
          /\ p.goal = Setting0("count", Same({k}, 0))
      BY <2>1, <2>2, CountWords
    <3> QED BY <1>1, <1>2, <3>1, ReadThenWriteOkay DEF Losses
  <2>3. CASE ~c
    <3>1. p.todo = <<Made("get", "count", <<>>, "stop")>> /\ p.goal = Registers!Nothing
      BY <2>1, <2>3, CountWords
    <3> QED BY <1>1, <3>1, ReadingOkay DEF Losses
  <2> QED BY <2>2, <2>3
<1>4. CASE p \in Registers!Credo!get_switch_count_total
  <2> DEFINE a == Made("get", "count", <<>>, "ignore")
             b0 == Made("put", "count", Same({0}, 0), "ignore")
             b1 == Made("put", "count", Same({1}, 0), "ignore")
             h == Made("get", "count", <<>>, "stop")
             n == Made("put", "none", At0(6), "stop")
             v == Same({0, 1}, 0)
             I(s) == [i \in 1..Len(s) |-> Registers!Credo!Ignoring(s[i])]
             C(k, c) == Registers!Credo!Count(k, c)
  <2>1. a \in Fitting("counts") /\ h \in Fitting("counts")
    BY <1>1, ReadFits, EmptyFilling DEF Losses, Plainly
  <2>2. b0 \in Fitting("counts") /\ b1 \in Fitting("counts")
    BY <1>1, <1>2, WriteFits DEF Losses, Plainly
  <2>3. n \in Fitting("counts")
    <3>1. At0(6) \in Fillings /\ "none" \notin Regs("counts")
      BY <1>1, At0Of DEF Contents
    <3> QED BY <3>1, WriteFits DEF Losses, Names, Registers!Measurements
  <2>4. /\ a.do = "get" /\ a.reg = "count" /\ h.do = "get" /\ h.reg = "count"
        /\ n.do = "put" /\ n.reg = "none"
        /\ b0.do = "put" /\ b0.reg = "count" /\ b0.val = Same({0}, 0)
        /\ b1.do = "put" /\ b1.reg = "count" /\ b1.val = Same({1}, 0)
    BY DEF Made
  <2>5. I(C(0, TRUE)) = <<a, b0>> /\ I(C(0, FALSE)) = <<a>>
    <3>1. 0 \in 0..2
      OBVIOUS
    <3> QED BY <3>1, IgnoredCount
  <2>6. I(C(1, TRUE)) = <<a, b1>> /\ I(C(1, FALSE)) = <<a>>
    <3>1. 1 \in 0..2
      OBVIOUS
    <3> QED BY <3>1, IgnoredCount
  <2>7. \E x :
           \/ p = Registers!Credo!Program(x, I(C(0, TRUE)) \o I(C(1, TRUE)), Setting0("count", v))
           \/ p = Registers!Credo!Program(x, I(C(0, FALSE)) \o I(C(1, FALSE)), Registers!Nothing)
           \/ p = Registers!Credo!Program(x, <<h>> \o <<n>>, Registers!Nothing)
           \/ p = Registers!Credo!Program(x, <<h>> \o <<>>, Registers!Nothing)
    <3>1. Registers!Credo!@@(Same({0}, 0), Same({1}, 0)) = v
      BY DEF Registers!Credo!@@, Same
    <3>2. /\ Registers!Credo!IsSet("count", Registers!Credo!@@(Registers!Credo!:>(0, 0), Registers!Credo!:>(1, 0)))
                = Setting0("count", v)
          /\ Registers!Credo!Nothing = Registers!Nothing
      <4> HIDE DEF v
      <4> QED BY <3>1, CredoWords
    <3>3. Registers!Credo!Put("none", Registers!Credo!One(6)) = n /\ Registers!Credo!Get("count") = h
      BY CredoWords
    <3> HIDE DEF v, n, h
    <3> QED BY <1>4, <3>2, <3>3 DEF Registers!Credo!get_switch_count_total
  <2>8. /\ Same({0}, 0)[0] = 0 /\ DOMAIN Same({0}, 0) = {0} /\ Same({1}, 0)[1] = 0 /\ DOMAIN Same({1}, 0) = {1}
        /\ v \in Fillings /\ DOMAIN v = {0, 1} /\ v[0] = 0 /\ v[1] = 0 /\ DOMAIN v \subseteq FieldsOf("counts", "count")
    <3>1. v \in Fillings /\ DOMAIN v = {0, 1} /\ v[0] = 0 /\ v[1] = 0
      BY SameFilling, EndsFew
    <3> HIDE DEF v
    <3> QED BY <1>1, <1>2, <3>1
  <2> HIDE DEF a, b0, b1, h, n, v, I, C
  <2>9. Ordinary("counts", <<a, b0>>) /\ Ordinary("counts", <<a, b1>>) /\ Ordinary("counts", <<h, n>>)
    <3>1. Ordinary("counts", <<a, b0>>)
      BY <2>1, <2>2, <2>4, TwoOrdinary
    <3>2. Ordinary("counts", <<a, b1>>)
      BY <2>1, <2>2, <2>4, TwoOrdinary
    <3>3. Ordinary("counts", <<h, n>>)
      BY <2>1, <2>3, <2>4, TwoOrdinary
    <3> QED BY <3>1, <3>2, <3>3
  <2>10. Ordinary("counts", <<a>>) /\ Ordinary("counts", <<h>>)
    BY <2>1, <2>4, OneOrdinary
  <2>11. PICK x :
           \/ p = Registers!Credo!Program(x, I(C(0, TRUE)) \o I(C(1, TRUE)), Setting0("count", v))
           \/ p = Registers!Credo!Program(x, I(C(0, FALSE)) \o I(C(1, FALSE)), Registers!Nothing)
           \/ p = Registers!Credo!Program(x, <<h>> \o <<n>>, Registers!Nothing)
           \/ p = Registers!Credo!Program(x, <<h>> \o <<>>, Registers!Nothing)
    BY <2>7
  <2>12. \A y, s, g : Registers!Credo!Program(y, s, g).todo = s /\ Registers!Credo!Program(y, s, g).goal = g
    BY CredoWords
  <2>13. CASE p = Registers!Credo!Program(x, I(C(0, TRUE)) \o I(C(1, TRUE)), Setting0("count", v))
    <3> DEFINE s0 == <<a, b0>> s1 == <<a, b1>> u == s0 \o s1
    <3>1. p.todo = u /\ p.goal = Setting0("count", v)
      <4>1. p.todo = I(C(0, TRUE)) \o I(C(1, TRUE)) /\ p.goal = Setting0("count", v)
        BY <2>12, <2>13, ZenonT(60)
      <4> QED BY <2>5, <2>6, <4>1, Zenon
    <3>2. Ordinary("counts", s0) /\ Ordinary("counts", s1)
      BY <2>9
    <3>3. Elems(s0) = {a, b0}
      BY <2>1, <2>2, TwoSteps
    <3>4. Elems(s1) = {a, b1}
      BY <2>1, <2>2, TwoSteps
    <3> HIDE DEF s0, s1
    <3>5. Ordinary("counts", u)
      BY <3>2, JoinOrdinary, Zenon
    <3>0. (\A y \in Elems(u) : y \in Elems(s0) \/ y \in Elems(s1)) /\ \A y \in Elems(s0) \cup Elems(s1) : y \in Elems(u)
      <4>1. /\ \A y \in Elems(u) : y \in Elems(s0) \/ y \in Elems(s1)
            /\ \A y \in Elems(s0) : y \in Elems(u)
            /\ \A y \in Elems(s1) : y \in Elems(u)
        BY <3>2, JoinElems, Zenon
      <4> QED BY <4>1, Zenon
    <3> HIDE DEF u
    <3>6. \A y \in Elems(u) : y \in {a, b0, b1}
      BY <3>0, <3>3, <3>4
    <3>7. \A k \in DOMAIN v : \E y \in Elems(u) : y.do \in {"put", "merge"} /\ y.reg = "count" /\ k \in DOMAIN y.val
      <4>1. b0 \in Elems(u) /\ b1 \in Elems(u)
        BY <3>0, <3>3, <3>4
      <4> QED BY <2>4, <2>8, <4>1
    <3>8. \A y \in Elems(u) : /\ y.do # "aim"
                              /\ y.do \in {"put", "merge"} /\ y.reg = "count" =>
                                   \A k \in DOMAIN y.val : k \in DOMAIN v /\ y.val[k] = v[k]
      BY <2>4, <2>8, <3>6
    <3> QED BY <1>1, <2>8, <3>1, <3>5, <3>7, <3>8, SetOkay
  <2>14. CASE p = Registers!Credo!Program(x, I(C(0, FALSE)) \o I(C(1, FALSE)), Registers!Nothing)
    <3> DEFINE s == <<a>> u == s \o s
    <3>1. p.todo = u /\ p.goal = Registers!Nothing
      <4>1. p.todo = I(C(0, FALSE)) \o I(C(1, FALSE)) /\ p.goal = Registers!Nothing
        BY <2>12, <2>14, ZenonT(60)
      <4> QED BY <2>5, <2>6, <4>1, Zenon
    <3>2. Ordinary("counts", s)
      BY <2>10
    <3> HIDE DEF s
    <3>3. Ordinary("counts", u)
      BY <3>2, JoinOrdinary, Zenon
    <3> HIDE DEF u
    <3> QED BY <3>1, <3>3, NothingOkay
  <2>15. CASE \/ p = Registers!Credo!Program(x, <<h>> \o <<n>>, Registers!Nothing)
              \/ p = Registers!Credo!Program(x, <<h>> \o <<>>, Registers!Nothing)
    <3>1. <<h>> \o <<n>> = <<h, n>> /\ <<h>> \o <<>> = <<h>>
      BY PairOf
    <3>2. (p.todo = <<h, n>> \/ p.todo = <<h>>) /\ p.goal = Registers!Nothing
      <4>1. (p.todo = <<h>> \o <<n>> \/ p.todo = <<h>> \o <<>>) /\ p.goal = Registers!Nothing
        <5>1. CASE p = Registers!Credo!Program(x, <<h>> \o <<n>>, Registers!Nothing)
          <6>1. p.todo = <<h>> \o <<n>> /\ p.goal = Registers!Nothing
            BY <2>12, <5>1, ZenonT(60)
          <6> QED BY <6>1, Zenon
        <5>2. CASE p = Registers!Credo!Program(x, <<h>> \o <<>>, Registers!Nothing)
          <6>1. p.todo = <<h>> \o <<>> /\ p.goal = Registers!Nothing
            BY <2>12, <5>2, ZenonT(60)
          <6> QED BY <6>1, Zenon
        <5> QED BY <2>15, <5>1, <5>2
      <4> QED BY <3>1, <4>1, Zenon
    <3> QED BY <2>9, <2>10, <3>2, NothingOkay
  <2> QED BY <2>11, <2>13, <2>14, <2>15
<1>5. CASE p \in Registers!Credo!get_switch_count_target
  <2>1. PICK k \in 0..2 :
          \/ /\ p.todo = <<Made("start", "type", At0(k), "stop"), Made("await", "type", At0(1), "stop"),
                           Made("get", "type", <<>>, "stop")>> \o <<Made("put", "count", Same({k}, 0), "stop")>>
             /\ p.goal = Setting0("count", Same({k}, 0))
          \/ /\ p.todo = <<Made("start", "type", At0(k), "stop"), Made("await", "type", At0(1), "stop"),
                           Made("get", "type", <<>>, "stop")>> \o <<>>
             /\ p.goal = Measured0("type", k)
    <3>1. PICK x \in {"get_switch_count_target"}, k \in 0..2 :
            \/ p = Registers!Credo!Program(x, <<Registers!Credo!Start("type", k), Registers!Credo!Await("type", Registers!Credo!Done),
                                               Registers!Credo!Get("type")>> \o <<Registers!Credo!Put("count", Registers!Credo!:>(k, 0))>>,
                                            Registers!Credo!IsSet("count", Registers!Credo!:>(k, 0)))
            \/ p = Registers!Credo!Program(x, <<Registers!Credo!Start("type", k), Registers!Credo!Await("type", Registers!Credo!Done),
                                               Registers!Credo!Get("type")>> \o <<>>,
                                            Registers!Credo!Measured("type", k))
      <4> DEFINE s(k) == <<Registers!Credo!Start("type", k), Registers!Credo!Await("type", Registers!Credo!Done),
                           Registers!Credo!Get("type")>>
                 n(k) == <<Registers!Credo!Put("count", Registers!Credo!:>(k, 0))>>
                 g(k) == Registers!Credo!IsSet("count", Registers!Credo!:>(k, 0))
                 h(k) == Registers!Credo!Measured("type", k)
      <4>1. Registers!Credo!get_switch_count_target
              = {Registers!Credo!Program("get_switch_count_target", s(k) \o IF c THEN n(k) ELSE <<>>, IF c THEN g(k) ELSE h(k)) :
                   k \in 0..2, c \in BOOLEAN}
        BY DEF Registers!Credo!get_switch_count_target
      <4> HIDE DEF s, n, g, h
      <4>2. PICK k \in 0..2, c \in BOOLEAN :
              p = Registers!Credo!Program("get_switch_count_target", s(k) \o IF c THEN n(k) ELSE <<>>, IF c THEN g(k) ELSE h(k))
        BY <1>5, <4>1
      <4>3. c = TRUE \/ c = FALSE
        BY Zenon
      <4>4. \/ p = Registers!Credo!Program("get_switch_count_target", s(k) \o n(k), g(k))
            \/ p = Registers!Credo!Program("get_switch_count_target", s(k) \o <<>>, h(k))
        BY <4>2, <4>3, Zenon
      <4> QED BY <4>4, Zenon DEF s, n, g, h
    <3> DEFINE a == Made("start", "type", At0(k), "stop") b == Made("await", "type", At0(1), "stop")
               h == Made("get", "type", <<>>, "stop") n == Made("put", "count", Same({k}, 0), "stop")
    <3>2. /\ Registers!Credo!Await("type", Registers!Credo!Done) = b
          /\ Registers!Credo!Get("type") = h
          /\ Registers!Credo!Start("type", k) = a
          /\ Registers!Credo!Put("count", Registers!Credo!:>(k, 0)) = n
          /\ Registers!Credo!IsSet("count", Registers!Credo!:>(k, 0)) = Setting0("count", Same({k}, 0))
          /\ Registers!Credo!Measured("type", k) = Measured0("type", k)
      BY CredoWords
    <3>3. \A y, s, g : Registers!Credo!Program(y, s, g).todo = s /\ Registers!Credo!Program(y, s, g).goal = g
      BY CredoWords
    <3>4. \/ p.todo = <<a, b, h>> \o <<n>> /\ p.goal = Setting0("count", Same({k}, 0))
          \/ p.todo = <<a, b, h>> \o <<>> /\ p.goal = Measured0("type", k)
      <4> HIDE DEF a, b, h, n
      <4> DEFINE s == <<Registers!Credo!Start("type", k), Registers!Credo!Await("type", Registers!Credo!Done),
                        Registers!Credo!Get("type")>>
                 m == <<Registers!Credo!Put("count", Registers!Credo!:>(k, 0))>>
                 g == Registers!Credo!IsSet("count", Registers!Credo!:>(k, 0))
                 y == Registers!Credo!Measured("type", k)
      <4>0. p = Registers!Credo!Program(x, s \o m, g) \/ p = Registers!Credo!Program(x, s \o <<>>, y)
        BY <3>1
      <4>1. s = <<a, b, h>> /\ m = <<n>> /\ g = Setting0("count", Same({k}, 0)) /\ y = Measured0("type", k)
        BY <3>2
      <4> HIDE DEF s, m, g, y
      <4>2. CASE p = Registers!Credo!Program(x, s \o m, g)
        <5>1. p.todo = s \o m /\ p.goal = g
          BY <3>3, <4>2, ZenonT(60)
        <5> QED BY <4>1, <5>1, Zenon
      <4>3. CASE p = Registers!Credo!Program(x, s \o <<>>, y)
        <5>1. p.todo = s \o <<>> /\ p.goal = y
          BY <3>3, <4>3, ZenonT(60)
        <5> QED BY <4>1, <5>1, Zenon
      <4> QED BY <4>0, <4>2, <4>3
    <3> QED BY <3>1, <3>4
  <2> DEFINE a == Made("start", "type", At0(k), "stop") b == Made("await", "type", At0(1), "stop")
             h == Made("get", "type", <<>>, "stop") s == <<a, b, h>> n == Made("put", "count", Same({k}, 0), "stop")
             v == Same({k}, 0)
  <2>2. k \in Contents /\ "type" \in Names \cap Registers!Measurements \cap Regs("counts")
    BY <1>1 DEF Contents, Names, Registers!Measurements
  <2>3. CASE p.todo = s \o <<>> /\ p.goal = Measured0("type", k)
    <3>1. p.todo = s
      <4>1. s \o <<>> = s
        BY ConcatEmptySeq
      <4> QED BY <2>3, <4>1
    <3> QED BY <2>2, <2>3, <3>1, CountWhole DEF Okay
  <2>4. CASE p.todo = s \o <<n>> /\ p.goal = Setting0("count", v)
    <3>1. p.todo = s \o <<n>> /\ p.goal = Setting0("count", v)
      BY <2>4
    <3>2. a \in Fitting("counts")
      BY <2>2, StartFits
    <3>3. b \in Fitting("counts") /\ h \in Fitting("counts")
      BY <2>2, EndsFew, At0Of, EmptyFilling, ReadFits DEF Losses
    <3>4. n \in Fitting("counts")
      BY <1>1, <1>2, WriteFits DEF Losses, Plainly
    <3>5. /\ a.do = "start" /\ a.reg = "type" /\ b.do = "await" /\ b.reg = "type" /\ h.do = "get" /\ h.reg = "type"
          /\ n.do = "put" /\ n.reg = "count" /\ n.val = v
      BY DEF Made
    <3>6. s = <<a>> \o <<b, h>>
      OBVIOUS
    <3>7. v \in Fillings /\ DOMAIN v = {k} /\ DOMAIN v \subseteq FieldsOf("counts", "count")
      BY <1>2
    <3> HIDE DEF a, b, h, n, s, v
    <3>8. Ordinary("counts", <<a>>) /\ Ordinary("counts", <<n>>) /\ Ordinary("counts", <<b, h>>)
      <4>1. Ordinary("counts", <<a>>) /\ Ordinary("counts", <<n>>)
        BY <3>2, <3>4, <3>5, OneOrdinary
      <4>2. Ordinary("counts", <<b, h>>)
        BY <3>3, <3>5, TwoOrdinary
      <4> QED BY <4>1, <4>2
    <3>9. Elems(<<a>>) = {a} /\ Elems(<<n>>) = {n} /\ Elems(<<b, h>>) = {b, h}
      <4>1. Elems(<<a>>) = {a} /\ Elems(<<n>>) = {n}
        BY <3>2, <3>4, OneStep
      <4>2. Elems(<<b, h>>) = {b, h}
        BY <3>3, TwoSteps
      <4> QED BY <4>1, <4>2
    <3>10. Ordinary("counts", s) /\ \A x \in Elems(s) : x \in {a, b, h}
      <4>1. Ordinary("counts", <<a>> \o <<b, h>>)
        BY <3>8, JoinOrdinary, Zenon
      <4>2. \A x \in Elems(<<a>> \o <<b, h>>) : x \in Elems(<<a>>) \/ x \in Elems(<<b, h>>)
        BY <3>8, JoinElems, Zenon
      <4>3. \A x \in Elems(s) : x \in Elems(<<a>>) \/ x \in Elems(<<b, h>>)
        BY <3>6, <4>2, Zenon
      <4>4. Ordinary("counts", s)
        BY <3>6, <4>1, Zenon
      <4> QED BY <3>9, <4>3, <4>4
    <3>11. Ordinary("counts", s \o <<n>>) /\ n \in Elems(s \o <<n>>) /\ \A x \in Elems(s \o <<n>>) : x \in {a, b, h, n}
      <4>1. Ordinary("counts", s \o <<n>>)
        BY <3>8, <3>10, JoinOrdinary, Zenon
      <4>2. /\ \A x \in Elems(s \o <<n>>) : x \in Elems(s) \/ x \in Elems(<<n>>)
            /\ \A x \in Elems(<<n>>) : x \in Elems(s \o <<n>>)
        BY <3>8, <3>10, JoinElems, Zenon
      <4> DEFINE w == s \o <<n>>
      <4>3. (\A x \in Elems(w) : x \in Elems(s) \/ x \in Elems(<<n>>)) /\ \A x \in Elems(<<n>>) : x \in Elems(w)
        BY <4>2
      <4> HIDE DEF w
      <4>4. n \in Elems(w) /\ \A x \in Elems(w) : x \in {a, b, h, n}
        BY <3>9, <3>10, <4>3
      <4> QED BY <4>1, <4>4 DEF w
    <3> DEFINE u == s \o <<n>>
    <3>12. Ordinary("counts", u) /\ n \in Elems(u) /\ \A x \in Elems(u) : x \in {a, b, h, n}
      BY <3>11
    <3> HIDE DEF u
    <3>13. Whole("credo", "counts", Setting0("count", v), u)
      <4>1. \A j \in DOMAIN v : \E x \in Elems(u) : x.do \in {"put", "merge"} /\ x.reg = "count" /\ j \in DOMAIN x.val
        BY <3>5, <3>12
      <4>2. \A x \in Elems(u) : /\ x.do # "aim"
                                /\ x.do \in {"put", "merge"} /\ x.reg = "count" =>
                                     \A j \in DOMAIN x.val : j \in DOMAIN v /\ x.val[j] = v[j]
        BY <3>5, <3>12
      <4>3. "count" \in Regs("counts") \cap Names /\ "count" \notin Registers!Measurements \cup {"target"}
        BY <1>1 DEF Plainly
      <4> QED BY <3>7, <3>12, <4>1, <4>2, <4>3, SetWhole
    <3> QED BY <3>1, <3>13 DEF Okay, u
  <2> QED BY <2>1, <2>3, <2>4
<1> QED BY <1>3, <1>4, <1>5 DEF Registers!Credo!Calls

(* Settings and measurements of an end. *)
LEMMA AimOkay ==
    ASSUME NEW d, NEW f, f \notin {"mux", "flaps", "either_side"}, "target" \in Regs(f), FieldsOf(f, "target") = {0},
           NEW r \in Regs(f) \cap {"prbs", "loop"}, FieldsOf(f, r) = Ends, NEW e \in Ends, NEW x \in Contents, NEW p,
           p.goal = Setting0(r, Same({e}, x)),
           LET choice == Made("put", "target", At0(e), "stop")
               off == Made("aim", r, At0(0), "stop")
               kind == Made("put", "ptype", At0(1), "stop")
               last == Made("aim", r, At0(x), "stop")
           IN \/ p.todo = <<choice, last>>
              \/ /\ "ptype" \in Regs(f) /\ FieldsOf(f, "ptype") = {0} /\ r = "prbs"
                 /\ p.todo = <<choice, kind, last>> \/ p.todo = <<choice, off, kind, last>>
    PROVE  Okay(d, f, p)
<1> DEFINE a == Made("put", "target", At0(e), "stop")
           b == Made("aim", r, At0(0), "stop")
           c == Made("put", "ptype", At0(1), "stop")
           h == Made("aim", r, At0(x), "stop")
           F == Fitting(f)
<1>1. a \in F
  BY ChoiceFits
<1>2. b \in F /\ h \in F
  BY EndsFew, AimFits
<1>3. ASSUME "ptype" \in Regs(f), FieldsOf(f, "ptype") = {0} PROVE c \in F
  <2>1. At0(1) \in Fillings /\ DOMAIN At0(1) = {0}
    BY EndsFew, At0Of
  <2> QED BY <1>3, <2>1, WriteFits DEF Names, Registers!Measurements, Losses
<1>4. /\ a.do = "put" /\ a.reg = "target" /\ a.val = At0(e) /\ a.fails = "stop"
      /\ b.do = "aim" /\ b.reg = r
      /\ c.do = "put" /\ c.reg = "ptype"
      /\ h.do = "aim" /\ h.reg = r /\ h.val = At0(x)
  <2>1. a.do = "put" /\ a.reg = "target" /\ a.val = At0(e) /\ a.fails = "stop"
    BY DEF Made
  <2>2. b.do = "aim" /\ b.reg = r /\ c.do = "put" /\ c.reg = "ptype"
    BY DEF Made
  <2>3. h.do = "aim" /\ h.reg = r /\ h.val = At0(x)
    BY DEF Made
  <2> QED BY <2>1, <2>2, <2>3
<1>5. At0(e)[0] = e /\ At0(x)[0] = x
  BY EndsFew, At0Of
<1>7. SUFFICES ASSUME NEW s \in Seq(F), Len(s) > 1, s[1] = a, s[Len(s)] = h, p.todo = s,
                      \A i \in 2..Len(s) : s[i] = h \/ s[i] = b \/ (s[i] = c /\ r = "prbs")
               PROVE  Okay(d, f, p)
  <2>1. \/ p.todo = <<a, h>>
        \/ /\ "ptype" \in Regs(f) /\ FieldsOf(f, "ptype") = {0} /\ r = "prbs"
           /\ p.todo = <<a, c, h>> \/ p.todo = <<a, b, c, h>>
    OBVIOUS
  <2> HIDE DEF a, b, c, h, F
  <2>2. CASE p.todo = <<a, h>>
    <3> DEFINE s == <<a, h>>
    <3>1. s \in Seq(F) /\ Len(s) = 2 /\ s[1] = a /\ s[2] = h
      BY ONLY <1>1, <1>2
    <3> HIDE DEF s
    <3>2. \A i \in 2..Len(s) : i = 2
      BY ONLY <3>1
    <3>3. p.todo = s
      BY <2>2 DEF s
    <3>4. Len(s) > 1 /\ s[Len(s)] = h
      <4>1. Len(s) = 2
        BY <3>1
      <4>2. Len(s) > 1
        BY ONLY <4>1
      <4> QED BY <3>1, <4>1, <4>2
    <3>5. \A i \in 2..Len(s) : s[i] = h \/ s[i] = b \/ (s[i] = c /\ r = "prbs")
      BY <3>1, <3>2, <3>3
    <3> QED BY <1>7, <3>1, <3>3, <3>4, <3>5
  <2>3. CASE /\ "ptype" \in Regs(f) /\ FieldsOf(f, "ptype") = {0} /\ r = "prbs"
             /\ p.todo = <<a, c, h>>
    <3> DEFINE s == <<a, c, h>>
    <3>0. c \in F
      BY <1>3, <2>3
    <3>1. s \in Seq(F) /\ Len(s) = 3 /\ s[1] = a /\ s[2] = c /\ s[3] = h
      BY ONLY <1>1, <1>2, <3>0
    <3> HIDE DEF s
    <3>2. \A i \in 2..Len(s) : i = 2 \/ i = 3
      BY ONLY <3>1
    <3>3. p.todo = s /\ r = "prbs"
      BY <2>3 DEF s
    <3>4. Len(s) > 1 /\ s[Len(s)] = h
      <4>1. Len(s) = 3
        BY <3>1
      <4>2. Len(s) > 1
        BY ONLY <4>1
      <4> QED BY <3>1, <4>1, <4>2
    <3>5. \A i \in 2..Len(s) : s[i] = h \/ s[i] = b \/ (s[i] = c /\ r = "prbs")
      BY <3>1, <3>2, <3>3
    <3> QED BY <1>7, <3>1, <3>3, <3>4, <3>5
  <2>4. CASE /\ "ptype" \in Regs(f) /\ FieldsOf(f, "ptype") = {0} /\ r = "prbs"
             /\ p.todo = <<a, b, c, h>>
    <3> DEFINE s == <<a, b, c, h>>
    <3>0. c \in F
      BY <1>3, <2>4
    <3>1. s \in Seq(F) /\ Len(s) = 4 /\ s[1] = a /\ s[2] = b /\ s[3] = c /\ s[4] = h
      BY ONLY <1>1, <1>2, <3>0
    <3> HIDE DEF s
    <3>2. \A i \in 2..Len(s) : i = 2 \/ i = 3 \/ i = 4
      BY ONLY <3>1
    <3>3. p.todo = s /\ r = "prbs"
      BY <2>4 DEF s
    <3>4. Len(s) > 1 /\ s[Len(s)] = h
      <4>1. Len(s) = 4
        BY <3>1
      <4>2. Len(s) > 1
        BY ONLY <4>1
      <4> QED BY <3>1, <4>1, <4>2
    <3>5. \A i \in 2..Len(s) : s[i] = h \/ s[i] = b \/ (s[i] = c /\ r = "prbs")
      BY <3>1, <3>2, <3>3
    <3> QED BY <1>7, <3>1, <3>3, <3>4, <3>5
  <2> QED BY <2>1, <2>2, <2>3, <2>4
<1> HIDE DEF a, b, c, h
<1>8. \A i \in 2..Len(s) : \/ s[i].do = "put" /\ s[i].reg \notin {"target", r}
                           \/ s[i].do = "aim" /\ s[i].reg = r
  BY <1>4, <1>7
<1>9. s[1].do = "put" /\ s[1].reg = "target" /\ s[1].val[0] = e /\ s[1].fails = "stop"
  BY <1>4, <1>5, <1>7
<1>10. s[Len(s)].do = "aim" /\ s[Len(s)].val[0] = x
  BY <1>4, <1>5, <1>7
<1>11. Whole(d, f, Setting0(r, Same({e}, x)), s)
  <2>1. s \in Seq(Fitting(f)) /\ Len(s) > 1
    BY <1>7
  <2> HIDE DEF F
  <2> QED BY <1>8, <1>9, <1>10, <2>1, AimWhole
<1> QED BY <1>7, <1>11 DEF Okay

LEMMA MeasureOkay ==
    ASSUME NEW d, NEW f, f # "either_side", NEW r \in Regs(f) \cap Registers!Measurements, r # "type",
           "target" \in Regs(f), FieldsOf(f, "target") = {0}, NEW e \in Ends, NEW p, p.goal = Measured0(r, e),
           LET choice == Made("put", "target", At0(e), "stop")
               begin == Made("start", r, At0(0), "stop")
               until == Made("await", r, At0(1), "stop")
               result == Made("get", r, <<>>, "stop")
           IN \/ (d # "credo" \/ r # "eye") /\ p.todo = <<choice, begin, until, result>>
              \/ r = "eye" /\ p.todo = <<Made("lock", "none", <<>>, "stop"), choice, begin, until, result,
                                         Made("unlock", "none", <<>>, "stop")>>
    PROVE  Okay(d, f, p)
<1> DEFINE s == <<Made("put", "target", At0(e), "stop"), Made("start", r, At0(0), "stop"),
                  Made("await", r, At0(1), "stop"), Made("get", r, <<>>, "stop")>>
           t == <<Made("lock", "none", <<>>, "stop"), Made("put", "target", At0(e), "stop"), Made("start", r, At0(0), "stop"),
                  Made("await", r, At0(1), "stop"), Made("get", r, <<>>, "stop"), Made("unlock", "none", <<>>, "stop")>>
<1>1. /\ d # "credo" \/ r # "eye" => Whole(d, f, Measured0(r, e), s)
      /\ r = "eye" => Whole(d, f, Measured0(r, e), t)
  BY MeasureWhole
<1>2. \/ (d # "credo" \/ r # "eye") /\ p.todo = s
      \/ r = "eye" /\ p.todo = t
  OBVIOUS
<1> HIDE DEF s, t
<1> QED BY <1>1, <1>2 DEF Okay

LEMMA SixOf ==
    ASSUME NEW a, NEW b, NEW c, NEW d, NEW e, NEW h
    PROVE  <<a>> \o <<b, c, d, e>> \o <<h>> = <<a, b, c, d, e, h>>
<1> DEFINE S == {a, b, c, d, e, h} x == <<a>> y == <<b, c, d, e>> z == <<h>> w == <<a, b, c, d, e, h>> v == x \o y u == v \o z
<1>1. x \in Seq(S) /\ Len(x) = 1 /\ x[1] = a /\ z \in Seq(S) /\ Len(z) = 1 /\ z[1] = h
  OBVIOUS
<1>2. y \in Seq(S) /\ Len(y) = 4 /\ y[1] = b /\ y[2] = c /\ y[3] = d /\ y[4] = e
  OBVIOUS
<1>3. w \in Seq(S) /\ Len(w) = 6 /\ w[1] = a /\ w[2] = b /\ w[3] = c /\ w[4] = d /\ w[5] = e /\ w[6] = h
  OBVIOUS
<1> HIDE DEF S, x, y, z, w
<1>4. v \in Seq(S) /\ Len(v) = 5 /\ v[1] = a /\ v[2] = b /\ v[3] = c /\ v[4] = d /\ v[5] = e
  <2>1. v \in Seq(S) /\ Len(v) = Len(x) + Len(y)
    BY ONLY <1>1, <1>2, ConcatOf
  <2>0. x \in Seq(S) /\ y \in Seq(S)
    BY <1>1, <1>2
  <2>2. (\A i \in 1..Len(x) : v[i] = x[i]) /\ (\A i \in 1..Len(y) : v[Len(x) + i] = y[i])
    BY ONLY <2>0, ConcatOf
  <2> HIDE DEF v
  <2>3. v[1] = x[1] /\ v[1 + 1] = y[1] /\ v[1 + 2] = y[2] /\ v[1 + 3] = y[3] /\ v[1 + 4] = y[4]
    BY ONLY <1>1, <1>2, <2>2
  <2>4. Len(v) = 5 /\ 1 + 1 = 2 /\ 1 + 2 = 3 /\ 1 + 3 = 4 /\ 1 + 4 = 5
    BY ONLY <1>1, <1>2, <2>1
  <2> QED BY <1>1, <1>2, <2>1, <2>3, <2>4
<1> HIDE DEF v
<1>5. u \in Seq(S) /\ Len(u) = 6 /\ u[1] = a /\ u[2] = b /\ u[3] = c /\ u[4] = d /\ u[5] = e /\ u[6] = h
  <2>1. u \in Seq(S) /\ Len(u) = Len(v) + Len(z)
    BY ONLY <1>1, <1>4, ConcatOf
  <2>0. v \in Seq(S) /\ z \in Seq(S)
    BY <1>1, <1>4
  <2>2. (\A i \in 1..Len(v) : u[i] = v[i]) /\ (\A i \in 1..Len(z) : u[Len(v) + i] = z[i])
    BY ONLY <2>0, ConcatOf
  <2> HIDE DEF u
  <2>3. u[1] = v[1] /\ u[2] = v[2] /\ u[3] = v[3] /\ u[4] = v[4] /\ u[5] = v[5] /\ u[5 + 1] = z[1]
    BY ONLY <1>1, <1>4, <2>2
  <2>4. Len(u) = 6 /\ 5 + 1 = 6
    BY ONLY <1>1, <1>4, <2>1
  <2> QED BY <1>1, <1>4, <2>1, <2>3, <2>4
<1> HIDE DEF u
<1>6. \A i \in 1..Len(u) : u[i] = w[i]
  <2>1. Len(u) = 6
    BY <1>5
  <2>2. \A i \in 1..Len(u) : i = 1 \/ i = 2 \/ i = 3 \/ i = 4 \/ i = 5 \/ i = 6
    BY ONLY <2>1
  <2> QED BY <1>3, <1>5, <2>2
<1>7. u = w
  BY <1>3, <1>5, <1>6, SeqEqual
<1> QED BY <1>7 DEF u, v, w, x, y, z

LEMMA CredoMeasures ==
    /\ \A r, e : Registers!Credo!Measure(r, e) =
           <<Made("put", "target", At0(e), "stop"), Made("start", r, At0(0), "stop"), Made("await", r, At0(1), "stop"),
             Made("get", r, <<>>, "stop")>>
    /\ \A p \in Registers!Credo!get_eye_heights : \E e \in Ends :
           /\ p.todo = <<Made("lock", "none", <<>>, "stop"), Made("put", "target", At0(e), "stop"),
                         Made("start", "eye", At0(0), "stop"), Made("await", "eye", At0(1), "stop"),
                         Made("get", "eye", <<>>, "stop"), Made("unlock", "none", <<>>, "stop")>>
           /\ p.goal = Measured0("eye", e)
<1>1. \A r, e : Registers!Credo!Measure(r, e) =
           <<Made("put", "target", At0(e), "stop"), Made("start", r, At0(0), "stop"), Made("await", r, At0(1), "stop"),
             Made("get", r, <<>>, "stop")>>
  BY CredoWords DEF Registers!Credo!Measure, Registers!Credo!At
<1>2. ASSUME NEW p \in Registers!Credo!get_eye_heights
      PROVE  \E e \in Ends :
           /\ p.todo = <<Made("lock", "none", <<>>, "stop"), Made("put", "target", At0(e), "stop"),
                         Made("start", "eye", At0(0), "stop"), Made("await", "eye", At0(1), "stop"),
                         Made("get", "eye", <<>>, "stop"), Made("unlock", "none", <<>>, "stop")>>
           /\ p.goal = Measured0("eye", e)
  <2>1. PICK e \in Ends : p = Registers!Credo!Program("get_eye_heights", Registers!Credo!Locked(Registers!Credo!Measure("eye", e)),
                                                      Registers!Credo!Measured("eye", e))
    BY DEF Registers!Credo!get_eye_heights
  <2> DEFINE l == Made("lock", "none", <<>>, "stop") a == Made("put", "target", At0(e), "stop")
             b == Made("start", "eye", At0(0), "stop") c == Made("await", "eye", At0(1), "stop")
             h == Made("get", "eye", <<>>, "stop") u == Made("unlock", "none", <<>>, "stop")
  <2>2. p.todo = Registers!Credo!Locked(Registers!Credo!Measure("eye", e)) /\ p.goal = Measured0("eye", e)
    BY <2>1, CredoWords
  <2>3. Registers!Credo!Measure("eye", e) = <<a, b, c, h>> /\ Registers!Credo!Lock = l /\ Registers!Credo!Unlock = u
    BY <1>1, CredoWords
  <2> HIDE DEF l, a, b, c, h, u
  <2>4. Registers!Credo!Locked(Registers!Credo!Measure("eye", e)) = <<l>> \o <<a, b, c, h>> \o <<u>>
    BY <2>3, Zenon DEF Registers!Credo!Locked
  <2>5. p.todo = <<l, a, b, c, h, u>>
    <3>1. <<l>> \o <<a, b, c, h>> \o <<u>> = <<l, a, b, c, h, u>>
      BY ONLY SixOf
    <3> QED BY <2>2, <2>4, <3>1, Zenon
  <2> QED BY <2>2, <2>5 DEF l, a, b, c, h, u
<1> QED BY <1>1, <1>2

LEMMA CredoPrbs == \A p \in Registers!Credo!Calls("prbs") : Okay("credo", "prbs", p)
<1>1. /\ Regs("prbs") = {"target", "prbs", "ptype", "eye"} /\ FieldsOf("prbs", "target") = {0}
      /\ FieldsOf("prbs", "ptype") = {0} /\ FieldsOf("prbs", "prbs") = Ends
  BY CableRegisters DEF Regs, FieldsOf, Same, At0
<1> SUFFICES ASSUME NEW p \in Registers!Credo!Calls("prbs") PROVE Okay("credo", "prbs", p)
  OBVIOUS
<1>2. CASE p \in Registers!Credo!enable_prbs_mode \cup Registers!Credo!disable_prbs_mode
  <2>1. PICK e \in Ends :
          \/ /\ p.todo = <<Made("put", "target", At0(e), "stop"), Made("aim", "prbs", At0(0), "stop"),
                           Made("put", "ptype", At0(1), "stop"), Made("aim", "prbs", At0(1), "stop")>>
             /\ p.goal = Setting0("prbs", Same({e}, 1))
          \/ /\ p.todo = <<Made("put", "target", At0(e), "stop"), Made("aim", "prbs", At0(0), "stop")>>
             /\ p.goal = Setting0("prbs", Same({e}, 0))
    <3>1. \E e \in Ends, y \in {"enable_prbs_mode", "disable_prbs_mode"} :
            \/ p = Registers!Credo!Program(y, <<Registers!Credo!At(e), Registers!Credo!Aim("prbs", 0),
                                               Registers!Credo!Put("ptype", Registers!Credo!One(1)),
                                               Registers!Credo!Aim("prbs", 1)>>,
                                            Registers!Credo!IsSet("prbs", Registers!Credo!:>(e, 1)))
            \/ p = Registers!Credo!Program(y, <<Registers!Credo!At(e), Registers!Credo!Aim("prbs", 0)>>,
                                            Registers!Credo!IsSet("prbs", Registers!Credo!:>(e, 0)))
      BY <1>2 DEF Registers!Credo!enable_prbs_mode, Registers!Credo!disable_prbs_mode
    <3>2. \A e, x : /\ Registers!Credo!At(e) = Made("put", "target", At0(e), "stop")
                   /\ Registers!Credo!Aim("prbs", x) = Made("aim", "prbs", At0(x), "stop")
                   /\ Registers!Credo!Put("ptype", Registers!Credo!One(x)) = Made("put", "ptype", At0(x), "stop")
                   /\ Registers!Credo!IsSet("prbs", Registers!Credo!:>(e, x)) = Setting0("prbs", Same({e}, x))
      BY CredoWords DEF Registers!Credo!At
    <3>3. \A y, s, g : Registers!Credo!Program(y, s, g).todo = s /\ Registers!Credo!Program(y, s, g).goal = g
      BY CredoWords
    <3> QED BY <3>1, <3>2, <3>3
  <2>2. 0 \in Contents /\ 1 \in Contents
    BY EndsFew
  <2> QED BY <1>1, <2>1, <2>2, AimOkay
<1>3. CASE p \in Registers!Credo!get_eye_heights
  <2>1. PICK e \in Ends :
           /\ p.todo = <<Made("lock", "none", <<>>, "stop"), Made("put", "target", At0(e), "stop"),
                         Made("start", "eye", At0(0), "stop"), Made("await", "eye", At0(1), "stop"),
                         Made("get", "eye", <<>>, "stop"), Made("unlock", "none", <<>>, "stop")>>
           /\ p.goal = Measured0("eye", e)
    BY <1>3, CredoMeasures
  <2>2. "eye" \in Regs("prbs") \cap Registers!Measurements
    BY <1>1 DEF Registers!Measurements
  <2> QED BY <1>1, <2>1, <2>2, MeasureOkay
<1> QED BY <1>2, <1>3 DEF Registers!Credo!Calls

LEMMA CredoLoop == \A p \in Registers!Credo!Calls("loop") : Okay("credo", "loop", p)
<1>1. /\ Regs("loop") = {"target", "loop", "sync", "ber"} /\ FieldsOf("loop", "target") = {0} /\ FieldsOf("loop", "loop") = Ends
  BY CableRegisters DEF Regs, FieldsOf, Same, At0
<1> SUFFICES ASSUME NEW p \in Registers!Credo!Calls("loop") PROVE Okay("credo", "loop", p)
  OBVIOUS
<1>2. CASE p \in Registers!Credo!enable_loopback_mode \cup Registers!Credo!disable_loopback_mode
  <2>1. PICK e \in Ends, x \in 0..1 :
             /\ p.todo = <<Made("put", "target", At0(e), "stop"), Made("aim", "loop", At0(x), "stop")>>
             /\ p.goal = Setting0("loop", Same({e}, x))
    <3>1. \E e \in Ends, x \in 0..1, y \in {"enable_loopback_mode", "disable_loopback_mode"} :
              p = Registers!Credo!Program(y, <<Registers!Credo!At(e), Registers!Credo!Aim("loop", x)>>,
                                          Registers!Credo!IsSet("loop", Registers!Credo!:>(e, x)))
      BY <1>2 DEF Registers!Credo!enable_loopback_mode, Registers!Credo!disable_loopback_mode
    <3>2. \A e, x : /\ Registers!Credo!At(e) = Made("put", "target", At0(e), "stop")
                   /\ Registers!Credo!Aim("loop", x) = Made("aim", "loop", At0(x), "stop")
                   /\ Registers!Credo!IsSet("loop", Registers!Credo!:>(e, x)) = Setting0("loop", Same({e}, x))
      BY CredoWords DEF Registers!Credo!At
    <3>3. \A y, s, g : Registers!Credo!Program(y, s, g).todo = s /\ Registers!Credo!Program(y, s, g).goal = g
      BY CredoWords
    <3> QED BY <3>1, <3>2, <3>3
  <2>2. x \in Contents
    BY DEF Contents
  <2> QED BY <1>1, <2>1, <2>2, AimOkay
<1>3. CASE p \in Registers!Credo!get_loopback_mode
  <2>1. PICK e \in Ends : p.todo = Registers!Credo!Measure("sync", e) /\ p.goal = Measured0("sync", e)
    BY <1>3, CredoWords DEF Registers!Credo!get_loopback_mode
  <2>2. "sync" \in Regs("loop") \cap Registers!Measurements
    BY <1>1 DEF Registers!Measurements
  <2>3. p.todo = <<Made("put", "target", At0(e), "stop"), Made("start", "sync", At0(0), "stop"), Made("await", "sync", At0(1), "stop"),
                   Made("get", "sync", <<>>, "stop")>>
    BY <2>1, CredoMeasures
  <2> QED BY <1>1, <2>1, <2>2, <2>3, MeasureOkay
<1> QED BY <1>2, <1>3 DEF Registers!Credo!Calls

LEMMA CredoBer == \A p \in Registers!Credo!Calls("ber") : Okay("credo", "ber", p)
<1>1. Regs("ber") = {"target", "ber", "eye"} /\ FieldsOf("ber", "target") = {0}
  BY CableRegisters DEF Regs, FieldsOf, Same, At0
<1> SUFFICES ASSUME NEW p \in Registers!Credo!Calls("ber") PROVE Okay("credo", "ber", p)
  OBVIOUS
<1>2. CASE p \in Registers!Credo!get_ber_info
  <2>1. PICK e \in Ends : p.todo = Registers!Credo!Measure("ber", e) /\ p.goal = Measured0("ber", e)
    BY <1>2, CredoWords DEF Registers!Credo!get_ber_info
  <2>2. "ber" \in Regs("ber") \cap Registers!Measurements
    BY <1>1 DEF Registers!Measurements
  <2>3. p.todo = <<Made("put", "target", At0(e), "stop"), Made("start", "ber", At0(0), "stop"), Made("await", "ber", At0(1), "stop"),
                   Made("get", "ber", <<>>, "stop")>>
    BY <2>1, CredoMeasures
  <2> QED BY <1>1, <2>1, <2>2, <2>3, MeasureOkay
<1>3. CASE p \in Registers!Credo!get_eye_heights
  <2>1. PICK e \in Ends :
           /\ p.todo = <<Made("lock", "none", <<>>, "stop"), Made("put", "target", At0(e), "stop"),
                         Made("start", "eye", At0(0), "stop"), Made("await", "eye", At0(1), "stop"),
                         Made("get", "eye", <<>>, "stop"), Made("unlock", "none", <<>>, "stop")>>
           /\ p.goal = Measured0("eye", e)
    BY <1>3, CredoMeasures
  <2>2. "eye" \in Regs("ber") \cap Registers!Measurements
    BY <1>1 DEF Registers!Measurements
  <2> QED BY <1>1, <2>1, <2>2, MeasureOkay
<1> QED BY <1>2, <1>3 DEF Registers!Credo!Calls

LEMMA CredoCalls == \A f \in Registers!Credo!Families : \A p \in Registers!Credo!Calls(f) : Okay("credo", f, p)
BY CredoMux, CredoFacts, CredoCounts, CredoMode, CredoPrbs, CredoLoop, CredoBer DEF Registers!Credo!Families

-------------------------------------------------------------------------------
(* The calls of the first Credo driver. *)
LEMMA LegacyMux == \A p \in Registers!Legacy!Calls("mux") : Okay("legacy", "mux", p)
<1>1. Regs("mux") = {"mux", "auto", "hyst"} /\ \A r \in Regs("mux") : Plainly("mux", r) /\ FieldsOf("mux", r) = {0}
  BY CableRegisters DEF Regs, FieldsOf, Plainly, Names, At0
<1> SUFFICES ASSUME NEW p \in Registers!Legacy!Calls("mux") PROVE Okay("legacy", "mux", p)
  OBVIOUS
<1>2. CASE p \in Registers!Legacy!check_mux_direction \cup Registers!Legacy!check_active_linked_tor_side
             \cup Registers!Legacy!get_switching_mode
  <2>1. PICK r \in {"mux", "auto", "hyst"} : p.todo = <<Made("get", r, <<>>, "stop")>> /\ p.goal = Registers!Nothing
    BY <1>2, LegacyWords DEF Registers!Legacy!check_mux_direction, Registers!Legacy!check_active_linked_tor_side,
       Registers!Legacy!get_switching_mode
  <2> QED BY <1>1, <2>1, ReadingOkay DEF Losses
<1>3. CASE p \in Registers!Legacy!toggle_mux_to_torA \cup Registers!Legacy!toggle_mux_to_torB
             \cup Registers!Legacy!set_switching_mode
  <2>1. PICK r \in {"mux", "auto", "hyst"}, x \in {"stop", "ignore"}, c \in 0..1 :
          p.todo = <<Made("put", r, At0(c), x)>> /\ p.goal = Setting0(r, At0(c))
    BY <1>3, LegacyWords DEF Registers!Legacy!toggle_mux_to_torA, Registers!Legacy!toggle_mux_to_torB,
       Registers!Legacy!set_switching_mode
  <2>2. At0(c) \in Fillings /\ DOMAIN At0(c) = {0}
    BY At0Of DEF Contents
  <2> QED BY <1>1, <2>1, <2>2, WritingOkay DEF Losses, Registers!Measurements
<1> QED BY <1>2, <1>3 DEF Registers!Legacy!Calls

LEMMA LegacyFacts == \A p \in Registers!Legacy!Calls("facts") : Okay("legacy", "facts", p)
<1>1. /\ Regs("facts") = {"ident", "cursor", "count"}
      /\ Plainly("facts", "ident") /\ Plainly("facts", "count")
  BY CableRegisters DEF Regs, FieldsOf, Plainly, Names, Same
<1> SUFFICES ASSUME NEW p \in Registers!Legacy!Calls("facts") PROVE Okay("legacy", "facts", p)
  OBVIOUS
<1>2. CASE p \in Registers!Legacy!get_switch_count
  <2>1. p.todo = <<Made("get", "count", <<>>, "stop")>> /\ p.goal = Registers!Nothing
    BY <1>2, LegacyWords DEF Registers!Legacy!get_switch_count
  <2> QED BY <1>1, <2>1, ReadingOkay DEF Losses
<1>3. CASE p \notin Registers!Legacy!get_switch_count
  <2>1. PICK n \in {1, 2, 3, 5} : p.todo = [i \in 1..n |-> Made("get", "ident", <<>>, "stop")] /\ p.goal = Registers!Nothing
    <3>1. \A api, n : LET q == Registers!Legacy!Program(api, [i \in 1..n |-> Registers!Legacy!Get("ident")], Registers!Legacy!Nothing)
                      IN q.todo = [i \in 1..n |-> Made("get", "ident", <<>>, "stop")] /\ q.goal = Registers!Nothing
      <4>1. Registers!Legacy!Get("ident") = Made("get", "ident", <<>>, "stop")
        BY LegacyWords
      <4> SUFFICES ASSUME NEW api, NEW n
                   PROVE  LET q == Registers!Legacy!Program(api, [i \in 1..n |-> Registers!Legacy!Get("ident")], Registers!Legacy!Nothing)
                          IN q.todo = [i \in 1..n |-> Made("get", "ident", <<>>, "stop")] /\ q.goal = Registers!Nothing
        OBVIOUS
      <4> DEFINE u == [i \in 1..n |-> Registers!Legacy!Get("ident")] v == [i \in 1..n |-> Made("get", "ident", <<>>, "stop")]
      <4>2. u = v
        BY <4>1
      <4>3. \A x, s, g : Registers!Legacy!Program(x, s, g).todo = s /\ Registers!Legacy!Program(x, s, g).goal = g
        BY LegacyWords
      <4>4. Registers!Legacy!Nothing = Registers!Nothing
        BY LegacyWords
      <4> HIDE DEF u, v
      <4>5. LET q == Registers!Legacy!Program(api, u, Registers!Legacy!Nothing) IN q.todo = v /\ q.goal = Registers!Nothing
        BY <4>2, <4>3, <4>4
      <4> QED BY <4>5 DEF u, v
    <3>2. \A api, n : \A q \in Registers!Legacy!Facts(api, n) :
             q.todo = [i \in 1..n |-> Made("get", "ident", <<>>, "stop")] /\ q.goal = Registers!Nothing
      BY <3>1 DEF Registers!Legacy!Facts
    <3>3. \E api : \E n \in {1, 2, 3, 5} : p \in Registers!Legacy!Facts(api, n)
      BY <1>3 DEF Registers!Legacy!Calls, Registers!Legacy!check_read_side, Registers!Legacy!check_if_link_is_active_for_NIC,
         Registers!Legacy!check_if_link_is_active_for_torA, Registers!Legacy!check_if_link_is_active_for_torB,
         Registers!Legacy!check_if_nic_lanes_active, Registers!Legacy!get_part_number, Registers!Legacy!get_vendor,
         Registers!Legacy!get_internal_voltage_temp, Registers!Legacy!get_nic_voltage_temp,
         Registers!Legacy!get_local_temperature, Registers!Legacy!get_local_voltage, Registers!Legacy!get_nic_temperature,
         Registers!Legacy!get_nic_voltage, Registers!Legacy!get_target_cursor_values, Registers!Legacy!get_firmware_version,
         Registers!Legacy!InfoBytes
    <3> QED BY <3>2, <3>3
  <2> QED BY <1>1, <2>1, FactsOkay
<1> QED BY <1>2, <1>3

LEMMA LegacyMeasures ==
    \A r, e : Registers!Legacy!Measure(r, e) =
           <<Made("put", "target", At0(e), "stop"), Made("start", r, At0(0), "stop"), Made("await", r, At0(1), "stop"),
             Made("get", r, <<>>, "stop")>>
BY LegacyWords DEF Registers!Legacy!Measure, Registers!Legacy!At

LEMMA LegacyPrbs == \A p \in Registers!Legacy!Calls("prbs") : Okay("legacy", "prbs", p)
<1>1. /\ Regs("prbs") = {"target", "prbs", "ptype", "eye"} /\ FieldsOf("prbs", "target") = {0}
      /\ FieldsOf("prbs", "ptype") = {0} /\ FieldsOf("prbs", "prbs") = Ends
  BY CableRegisters DEF Regs, FieldsOf, Same, At0
<1> SUFFICES ASSUME NEW p \in Registers!Legacy!Calls("prbs") PROVE Okay("legacy", "prbs", p)
  OBVIOUS
<1>2. CASE p \in Registers!Legacy!enable_prbs_mode \cup Registers!Legacy!disable_prbs_mode
  <2>1. PICK e \in Ends :
          \/ /\ p.todo = <<Made("put", "target", At0(e), "stop"),
                           Made("put", "ptype", At0(1), "stop"), Made("aim", "prbs", At0(1), "stop")>>
             /\ p.goal = Setting0("prbs", Same({e}, 1))
          \/ /\ p.todo = <<Made("put", "target", At0(e), "stop"), Made("aim", "prbs", At0(0), "stop")>>
             /\ p.goal = Setting0("prbs", Same({e}, 0))
    <3>1. \E e \in Ends, y \in {"enable_prbs_mode", "disable_prbs_mode"} :
            \/ p = Registers!Legacy!Program(y, <<Registers!Legacy!At(e),
                                               Registers!Legacy!Put("ptype", Registers!Legacy!One(1)),
                                               Registers!Legacy!Aim("prbs", 1)>>,
                                            Registers!Legacy!IsSet("prbs", Registers!Legacy!:>(e, 1)))
            \/ p = Registers!Legacy!Program(y, <<Registers!Legacy!At(e), Registers!Legacy!Aim("prbs", 0)>>,
                                            Registers!Legacy!IsSet("prbs", Registers!Legacy!:>(e, 0)))
      BY <1>2 DEF Registers!Legacy!enable_prbs_mode, Registers!Legacy!disable_prbs_mode
    <3>2. \A e, x : /\ Registers!Legacy!At(e) = Made("put", "target", At0(e), "stop")
                   /\ Registers!Legacy!Aim("prbs", x) = Made("aim", "prbs", At0(x), "stop")
                   /\ Registers!Legacy!Put("ptype", Registers!Legacy!One(x)) = Made("put", "ptype", At0(x), "stop")
                   /\ Registers!Legacy!IsSet("prbs", Registers!Legacy!:>(e, x)) = Setting0("prbs", Same({e}, x))
      BY LegacyWords DEF Registers!Legacy!At
    <3>3. \A y, s, g : Registers!Legacy!Program(y, s, g).todo = s /\ Registers!Legacy!Program(y, s, g).goal = g
      BY LegacyWords
    <3> QED BY <3>1, <3>2, <3>3
  <2>2. 0 \in Contents /\ 1 \in Contents
    BY EndsFew
  <2> QED BY <1>1, <2>1, <2>2, AimOkay
<1>3. CASE p \in Registers!Legacy!get_eye_info
  <2>1. PICK e \in Ends : p.todo = Registers!Legacy!Measure("eye", e) /\ p.goal = Measured0("eye", e)
    BY <1>3, LegacyWords DEF Registers!Legacy!get_eye_info
  <2>2. "eye" \in Regs("prbs") \cap Registers!Measurements
    BY <1>1 DEF Registers!Measurements
  <2>3. p.todo = <<Made("put", "target", At0(e), "stop"), Made("start", "eye", At0(0), "stop"), Made("await", "eye", At0(1), "stop"),
                   Made("get", "eye", <<>>, "stop")>>
    BY <2>1, LegacyMeasures
  <2> QED BY <1>1, <2>1, <2>2, <2>3, MeasureOkay
<1> QED BY <1>2, <1>3 DEF Registers!Legacy!Calls

LEMMA LegacyLoop == \A p \in Registers!Legacy!Calls("loop") : Okay("legacy", "loop", p)
<1>1. /\ Regs("loop") = {"target", "loop", "sync", "ber"} /\ FieldsOf("loop", "target") = {0} /\ FieldsOf("loop", "loop") = Ends
  BY CableRegisters DEF Regs, FieldsOf, Same, At0
<1> SUFFICES ASSUME NEW p \in Registers!Legacy!Calls("loop") PROVE Okay("legacy", "loop", p)
  OBVIOUS
<1>2. CASE p \in Registers!Legacy!enable_loopback_mode \cup Registers!Legacy!disable_loopback_mode
  <2>1. PICK e \in Ends, x \in 0..1 :
             /\ p.todo = <<Made("put", "target", At0(e), "stop"), Made("aim", "loop", At0(x), "stop")>>
             /\ p.goal = Setting0("loop", Same({e}, x))
    <3>1. \E e \in Ends, x \in 0..1, y \in {"enable_loopback_mode", "disable_loopback_mode"} :
              p = Registers!Legacy!Program(y, <<Registers!Legacy!At(e), Registers!Legacy!Aim("loop", x)>>,
                                          Registers!Legacy!IsSet("loop", Registers!Legacy!:>(e, x)))
      BY <1>2 DEF Registers!Legacy!enable_loopback_mode, Registers!Legacy!disable_loopback_mode
    <3>2. \A e, x : /\ Registers!Legacy!At(e) = Made("put", "target", At0(e), "stop")
                   /\ Registers!Legacy!Aim("loop", x) = Made("aim", "loop", At0(x), "stop")
                   /\ Registers!Legacy!IsSet("loop", Registers!Legacy!:>(e, x)) = Setting0("loop", Same({e}, x))
      BY LegacyWords DEF Registers!Legacy!At
    <3>3. \A y, s, g : Registers!Legacy!Program(y, s, g).todo = s /\ Registers!Legacy!Program(y, s, g).goal = g
      BY LegacyWords
    <3> QED BY <3>1, <3>2, <3>3
  <2>2. x \in Contents
    BY DEF Contents
  <2> QED BY <1>1, <2>1, <2>2, AimOkay
<1>3. CASE p \in Registers!Legacy!get_ber_info
  <2>1. PICK e \in Ends : p.todo = Registers!Legacy!Measure("ber", e) /\ p.goal = Measured0("ber", e)
    BY <1>3, LegacyWords DEF Registers!Legacy!get_ber_info
  <2>2. "ber" \in Regs("loop") \cap Registers!Measurements
    BY <1>1 DEF Registers!Measurements
  <2>3. p.todo = <<Made("put", "target", At0(e), "stop"), Made("start", "ber", At0(0), "stop"), Made("await", "ber", At0(1), "stop"),
                   Made("get", "ber", <<>>, "stop")>>
    BY <2>1, LegacyMeasures
  <2> QED BY <1>1, <2>1, <2>2, <2>3, MeasureOkay
<1> QED BY <1>2, <1>3 DEF Registers!Legacy!Calls

LEMMA LegacyCalls == \A f \in Registers!Legacy!Families : \A p \in Registers!Legacy!Calls(f) : Okay("legacy", f, p)
BY LegacyMux, LegacyFacts, LegacyPrbs, LegacyLoop DEF Registers!Legacy!Families

-------------------------------------------------------------------------------
(* The calls of the simulated cable. *)
LEMMA SimulatedMux == \A p \in Registers!Simulated!Calls("mux") : Okay("simulated", "mux", p)
<1>1. Regs("mux") = {"mux", "auto", "hyst"} /\ \A r \in Regs("mux") : Plainly("mux", r) /\ FieldsOf("mux", r) = {0}
  BY CableRegisters DEF Regs, FieldsOf, Plainly, Names, At0
<1> SUFFICES ASSUME NEW p \in Registers!Simulated!Calls("mux") PROVE Okay("simulated", "mux", p)
  OBVIOUS
<1>2. CASE p \in Registers!Simulated!get_mux_direction \cup Registers!Simulated!get_active_linked_tor_side
             \cup Registers!Simulated!get_switching_mode \cup Registers!Simulated!get_debug_mode
  <2>1. PICK r \in {"mux", "auto", "hyst"}, x \in {"stop", "never"} :
          p.todo = <<Made("get", r, <<>>, x)>> /\ p.goal = Registers!Nothing
    BY <1>2, SimulatedWords DEF Registers!Simulated!get_mux_direction, Registers!Simulated!get_active_linked_tor_side,
       Registers!Simulated!get_switching_mode, Registers!Simulated!get_debug_mode
  <2> QED BY <1>1, <2>1, ReadingOkay DEF Losses
<1>3. CASE p \in Registers!Simulated!toggle_mux_to_tor_a \cup Registers!Simulated!toggle_mux_to_tor_b
             \cup Registers!Simulated!set_switching_mode \cup Registers!Simulated!set_debug_mode
  <2>1. PICK r \in {"mux", "auto", "hyst"}, x \in {"stop", "never"}, c \in 0..1 :
          p.todo = <<Made("put", r, At0(c), x)>> /\ p.goal = Setting0(r, At0(c))
    BY <1>3, SimulatedWords DEF Registers!Simulated!toggle_mux_to_tor_a, Registers!Simulated!toggle_mux_to_tor_b,
       Registers!Simulated!_toggle_to, Registers!Simulated!set_switching_mode, Registers!Simulated!set_debug_mode
  <2>2. At0(c) \in Fillings /\ DOMAIN At0(c) = {0}
    BY At0Of DEF Contents
  <2> QED BY <1>1, <2>1, <2>2, WritingOkay DEF Losses, Registers!Measurements
<1> QED BY <1>2, <1>3 DEF Registers!Simulated!Calls

LEMMA SimulatedFlaps == \A p \in Registers!Simulated!Calls("flaps") : Okay("simulated", "flaps", p)
<1>1. Regs("flaps") = {"count"} /\ FieldsOf("flaps", "count") = {0} /\ Plainly("flaps", "count")
  BY CableRegisters DEF Regs, FieldsOf, Plainly, Names, At0
<1> SUFFICES ASSUME NEW p \in Registers!Simulated!Calls("flaps") PROVE Okay("simulated", "flaps", p)
  OBVIOUS
<1>2. CASE p \in Registers!Simulated!get_switch_count_total
  <2> DEFINE a == Made("get", "count", <<>>, "stop") b == Made("put", "count", At0(0), "ignore")
  <2>1. Registers!Simulated!Get("count") = a /\ Registers!Simulated!_clear_counter = b
    BY SimulatedWords DEF Registers!Simulated!_clear_counter
  <2>2. Registers!Simulated!IsSet("count", Registers!Simulated!One(0)) = Setting0("count", At0(0))
        /\ Registers!Simulated!Nothing = Registers!Nothing
    BY SimulatedWords
  <2>3. <<a>> \o <<b>> = <<a, b>> /\ <<a>> \o <<>> = <<a>>
    <3> HIDE DEF a, b
    <3> QED BY PairOf
  <2>4. \A y, s, g : Registers!Simulated!Program(y, s, g).todo = s /\ Registers!Simulated!Program(y, s, g).goal = g
    BY SimulatedWords
  <2>5. \/ p.todo = <<a, b>> /\ p.goal = Setting0("count", At0(0))
        \/ p.todo = <<a>> /\ p.goal = Registers!Nothing
    <3> HIDE DEF a, b
    <3>1. Registers!Simulated!Total(TRUE) = <<a, b>> /\ Registers!Simulated!Total(FALSE) = <<a>>
      BY <2>1, <2>3 DEF Registers!Simulated!Total
    <3>2. PICK y \in {"get_switch_count_total"} :
            \/ p = Registers!Simulated!Program(y, Registers!Simulated!Total(TRUE), Setting0("count", At0(0)))
            \/ p = Registers!Simulated!Program(y, Registers!Simulated!Total(FALSE), Registers!Nothing)
      BY <1>2, <2>2 DEF Registers!Simulated!get_switch_count_total
    <3>3. CASE p = Registers!Simulated!Program(y, Registers!Simulated!Total(TRUE), Setting0("count", At0(0)))
      <4>1. p.todo = Registers!Simulated!Total(TRUE) /\ p.goal = Setting0("count", At0(0))
        BY <2>4, <3>3, ZenonT(60)
      <4> QED BY <3>1, <4>1, Zenon
    <3>4. CASE p = Registers!Simulated!Program(y, Registers!Simulated!Total(FALSE), Registers!Nothing)
      <4>1. p.todo = Registers!Simulated!Total(FALSE) /\ p.goal = Registers!Nothing
        BY <2>4, <3>4, ZenonT(60)
      <4> QED BY <3>1, <4>1, Zenon
    <3> QED BY <3>2, <3>3, <3>4
  <2>6. At0(0) \in Fillings /\ DOMAIN At0(0) = {0}
    BY EndsFew, At0Of
  <2>7. CASE p.todo = <<a, b>> /\ p.goal = Setting0("count", At0(0))
    BY <1>1, <2>6, <2>7, ReadThenWriteOkay DEF Losses, Registers!Measurements
  <2>8. CASE p.todo = <<a>> /\ p.goal = Registers!Nothing
    BY <1>1, <2>8, ReadingOkay DEF Losses
  <2> QED BY <2>5, <2>7, <2>8
<1>3. CASE p \in Registers!Simulated!get_switch_count_tor_a \cup Registers!Simulated!get_switch_count_tor_b
             \cup Registers!Simulated!get_switch_count_target
  <2> DEFINE a == Made("raise", "none", <<>>, "stop")
  <2>1. p.todo = <<a>> /\ p.goal = Registers!Nothing
    <3>1. \A y : Registers!Simulated!Raising(y).todo = <<a>> /\ Registers!Simulated!Raising(y).goal = Registers!Nothing
      <4>1. Registers!Simulated!Access("raise", "none", <<>>) = a
        BY DEF Registers!Simulated!Access, Made
      <4> HIDE DEF a
      <4> QED BY <4>1, SimulatedWords DEF Registers!Simulated!Raising
    <3> HIDE DEF a
    <3> QED BY <1>3, <3>1 DEF Registers!Simulated!get_switch_count_tor_a, Registers!Simulated!get_switch_count_tor_b,
            Registers!Simulated!get_switch_count_target
  <2>2. a \in Fitting("flaps") /\ a.do = "raise" /\ a.reg = "none"
    <3>1. a \in Fitting("flaps")
      BY LockFits
    <3> QED BY <3>1 DEF Made
  <2> HIDE DEF a
  <2>3. Ordinary("flaps", <<a>>)
    BY <2>2, OneOrdinary
  <2> QED BY <2>1, <2>3, NothingOkay
<1>4. CASE p \in Registers!Simulated!reset
  <2> DEFINE a == Made("put", "none", At0(1), "stop")
  <2>1. p.todo = <<a>> /\ p.goal = Registers!Nothing
    <3>1. Registers!Simulated!Put("none", Registers!Simulated!One(1)) = a
      BY SimulatedWords
    <3> HIDE DEF a
    <3> QED BY <1>4, <3>1, SimulatedWords DEF Registers!Simulated!reset
  <2>2. a \in Fitting("flaps") /\ a.do = "put" /\ a.reg = "none"
    <3>1. At0(1) \in Fillings /\ "none" \notin Regs("flaps")
      BY <1>1, EndsFew, At0Of
    <3>2. a \in Fitting("flaps")
      BY <3>1, WriteFits DEF Losses, Names, Registers!Measurements
    <3> QED BY <3>2 DEF Made
  <2> HIDE DEF a
  <2>3. Ordinary("flaps", <<a>>)
    BY <2>2, OneOrdinary
  <2> QED BY <2>1, <2>3, NothingOkay
<1>5. CASE p \in Registers!Simulated!FixedCableAnswers
  <2>1. p = Registers!Simulated!Program("fixed answer", <<>>, Registers!Simulated!Nothing)
    BY <1>5, Zenon DEF Registers!Simulated!FixedCableAnswers
  <2>2. p.todo = <<>>
    BY <2>1, SimulatedWords, Zenon
  <2> QED BY <2>2 DEF Okay
<1> QED BY <1>2, <1>3, <1>4, <1>5 DEF Registers!Simulated!Calls, Registers!Simulated!FixedFirmwareAnswers,
      Registers!Simulated!FixedMonitorAnswers, Registers!Simulated!FixedPortAnswers, Registers!Simulated!FixedLogAnswers,
      Registers!Simulated!FixedTestAnswers

LEMMA SimulatedCalls == \A f \in Registers!Simulated!Families : \A p \in Registers!Simulated!Calls(f) : Okay("simulated", f, p)
BY SimulatedMux, SimulatedFlaps DEF Registers!Simulated!Families

-------------------------------------------------------------------------------
(* The calls on lanes.  Programs of three accesses, and programs that may be *)
(* empty. *)
LEMMA TripleOf == ASSUME NEW a, NEW b, NEW c PROVE <<a, b>> \o <<c>> = <<a, b, c>>
<1> DEFINE S == {a, b, c} x == <<a, b>> y == <<c>> w == <<a, b, c>> u == x \o y
<1>1. x \in Seq(S) /\ y \in Seq(S) /\ w \in Seq(S)
  OBVIOUS
<1>2. Len(x) = 2 /\ x[1] = a /\ x[2] = b /\ Len(y) = 1 /\ y[1] = c
  OBVIOUS
<1>3. Len(w) = 3 /\ w[1] = a /\ w[2] = b /\ w[3] = c
  OBVIOUS
<1> HIDE DEF S, x, y, w
<1>4. u \in Seq(S) /\ Len(u) = Len(x) + Len(y)
  BY ONLY <1>1, ConcatOf
<1>5. (\A i \in 1..Len(x) : u[i] = x[i]) /\ (\A i \in 1..Len(y) : u[Len(x) + i] = y[i])
  BY ONLY <1>1, ConcatOf
<1> HIDE DEF u
<1>6. u[1] = x[1] /\ u[2] = x[2] /\ u[2 + 1] = y[1]
  BY ONLY <1>2, <1>5
<1>7. Len(u) = 3 /\ 2 + 1 = 3
  BY ONLY <1>2, <1>4
<1>8. \A i \in 1..Len(u) : u[i] = w[i]
  <2>1. \A i \in 1..Len(u) : i = 1 \/ i = 2 \/ i = 3
    BY ONLY <1>7
  <2> QED BY <1>2, <1>3, <1>6, <1>7, <2>1
<1>9. u = w
  BY <1>1, <1>3, <1>4, <1>7, <1>8, SeqEqual
<1> QED BY <1>9 DEF u, w, x, y

LEMMA ThreeOrdinary ==
    ASSUME NEW f, f # "either_side", NEW a \in Fitting(f), NEW b \in Fitting(f), NEW c \in Fitting(f),
           \A x \in {a, b, c} : x.do \notin {"lock", "unlock"} /\ x.reg # "target" /\ (f \in {"mux", "flaps"} => x.do # "merge"),
           a.do # "merge", b.do # "merge", c.do = "merge" => b.do = "get" /\ b.reg = c.reg /\ b.fails = "stop"
    PROVE  Ordinary(f, <<a, b, c>>)
<1> DEFINE s == <<a, b, c>> S == Fitting(f)
<1>0. a \in S /\ b \in S /\ c \in S
  OBVIOUS
<1> HIDE DEF S
<1>1. s \in Seq(S) /\ Len(s) = 3 /\ s[1] = a /\ s[2] = b /\ s[3] = c /\ s # <<>>
  BY ONLY <1>0
<1>2. Elems(s) = {a, b, c}
  BY ONLY <1>0, ThreeSteps
<1> HIDE DEF s
<1>3. Linked(s)
  <2>1. Len(s) = 3
    BY <1>1
  <2>2. \A i \in 1..Len(s) - 1 : (i = 1 /\ i + 1 = 2) \/ (i = 2 /\ i + 1 = 3)
    BY ONLY <2>1
  <2> QED BY <1>1, <2>2 DEF Linked
<1>4. Ordinary(f, s)
  BY <1>1, <1>2, <1>3 DEF Ordinary, S
<1> QED BY <1>4 DEF s

Orderly(f, s) == s = <<>> \/ Ordinary(f, s)

LEMMA JoinOrderly ==
    ASSUME NEW f, NEW s, NEW t, Orderly(f, s), Orderly(f, t)
    PROVE  /\ Orderly(f, s \o t)
           /\ \A a \in Elems(s \o t) : a \in Elems(s) \/ a \in Elems(t)
           /\ \A a \in Elems(s) : a \in Elems(s \o t)
           /\ \A a \in Elems(t) : a \in Elems(s \o t)
           /\ s # <<>> \/ t # <<>> => s \o t # <<>>
<1>1. \A a : a \notin Elems(<<>>)
  BY DEF Elems
<1>2. CASE s = <<>>
  <2>1. s \o t = t
    <3>1. t \in Seq(Fitting(f))
      BY EmptySeq DEF Orderly, Ordinary
    <3> QED BY <1>2, <3>1, ConcatEmptySeq
  <2> QED BY <1>1, <1>2, <2>1, Zenon
<1>3. CASE t = <<>>
  <2>1. s \o t = s
    <3>1. s \in Seq(Fitting(f))
      BY EmptySeq DEF Orderly, Ordinary
    <3> QED BY <1>3, <3>1, ConcatEmptySeq
  <2> QED BY <1>1, <1>3, <2>1, Zenon
<1>4. CASE s # <<>> /\ t # <<>>
  <2>1. Ordinary(f, s) /\ Ordinary(f, t)
    BY <1>4 DEF Orderly
  <2>2. Ordinary(f, s \o t)
    BY <2>1, JoinOrdinary, Zenon
  <2>3. /\ \A a \in Elems(s \o t) : a \in Elems(s) \/ a \in Elems(t)
        /\ \A a \in Elems(s) : a \in Elems(s \o t)
        /\ \A a \in Elems(t) : a \in Elems(s \o t)
    BY <2>1, JoinElems, Zenon
  <2>4. s \o t # <<>>
    BY <2>2, Zenon DEF Ordinary
  <2>5. Orderly(f, s \o t)
    BY <2>2, Zenon DEF Orderly
  <2> QED BY <2>3, <2>4, <2>5, Zenon
<1> QED BY <1>2, <1>3, <1>4

(* What a program does to one register: it gives fields of it one value, or  *)
(* leaves it alone.                                                          *)
Gives(s, r, m, c) ==
    /\ \A a \in Elems(s) : /\ a.do # "aim"
                           /\ a.do \in {"put", "merge"} /\ a.reg = r => \A k \in DOMAIN a.val : k \in m /\ a.val[k] = c
    /\ \A k \in m : \E a \in Elems(s) : a.do \in {"put", "merge"} /\ a.reg = r /\ k \in DOMAIN a.val
Avoids(s, r) == \A a \in Elems(s) : a.do # "aim" /\ (a.do \in {"put", "merge"} => a.reg # r)

LEMMA JoinGives ==
    ASSUME NEW f, NEW s, NEW t, Orderly(f, s), Orderly(f, t), NEW r, NEW m, NEW c
    PROVE  /\ Gives(s, r, m, c) /\ Avoids(t, r) => Gives(s \o t, r, m, c)
           /\ Avoids(s, r) /\ Gives(t, r, m, c) => Gives(s \o t, r, m, c)
           /\ Avoids(s, r) /\ Avoids(t, r) => Avoids(s \o t, r)
<1>1. \A a \in Elems(s \o t) : a \in Elems(s) \/ a \in Elems(t)
  BY JoinOrderly, Zenon
<1>2. \A a \in Elems(s) : a \in Elems(s \o t)
  BY JoinOrderly, Zenon
<1>3. \A a \in Elems(t) : a \in Elems(s \o t)
  BY JoinOrderly, Zenon
<1>4. ASSUME Gives(s, r, m, c), Avoids(t, r) PROVE Gives(s \o t, r, m, c)
  BY <1>1, <1>2, <1>4 DEF Gives, Avoids
<1>5. ASSUME Avoids(s, r), Gives(t, r, m, c) PROVE Gives(s \o t, r, m, c)
  BY <1>1, <1>3, <1>5 DEF Gives, Avoids
<1>6. ASSUME Avoids(s, r), Avoids(t, r) PROVE Avoids(s \o t, r)
  BY <1>1, <1>6 DEF Avoids
<1> QED BY <1>4, <1>5, <1>6

(* One value for one lane after the other. *)
Staged(r, m, c, x) == [i \in 1..Cardinality(m) |-> Made("put", r, Same({Registers!Lane!Ascending(m)[i]}, c), x)]

LEMMA StageOf ==
    ASSUME NEW f, f # "either_side", NEW r \in (Regs(f) \cap Names) \ ({"target", "apply"} \cup Registers!Measurements),
           Lanes = FieldsOf(f, r), NEW m \in SUBSET Lanes, NEW c \in Contents, NEW x \in Losses
    PROVE  /\ Orderly(f, Staged(r, m, c, x)) /\ Gives(Staged(r, m, c, x), r, m, c)
           /\ \A q : q # r => Avoids(Staged(r, m, c, x), q)
<1> DEFINE s == Staged(r, m, c, x) n == Cardinality(m) l(i) == Registers!Lane!Ascending(m)[i] b(i) == Made("put", r, Same({l(i)}, c), x)
<1>1. n \in Nat /\ (\A i \in 1..n : l(i) \in m) /\ \A k \in m : \E i \in 1..n : l(i) = k
  BY AscendingOf
<1>2. m \subseteq Nat /\ m \subseteq FieldsOf(f, r)
  BY PartsAssumption DEF Registers!RegisterAssumption
<1> HIDE DEF n, l
<1>3. ASSUME NEW i \in 1..n
      PROVE  b(i) \in Fitting(f) /\ b(i).do = "put" /\ b(i).reg = r /\ b(i).val = Same({l(i)}, c)
             /\ DOMAIN Same({l(i)}, c) = {l(i)} /\ Same({l(i)}, c)[l(i)] = c
  <2>1. {l(i)} \in SUBSET Nat /\ {l(i)} \subseteq FieldsOf(f, r)
    BY <1>1, <1>2
  <2>2. Same({l(i)}, c) \in Fillings /\ DOMAIN Same({l(i)}, c) = {l(i)} /\ Same({l(i)}, c)[l(i)] = c
    BY <2>1, SameFilling
  <2> DEFINE v == Same({l(i)}, c)
  <2>3. v \in Fillings /\ DOMAIN v \subseteq FieldsOf(f, r)
    BY <2>1, <2>2
  <2> HIDE DEF v
  <2>4. Made("put", r, v, x) \in Fitting(f)
    BY <2>3, WriteFits
  <2>5. b(i) = Made("put", r, v, x)
    BY DEF v
  <2>6. Made("put", r, v, x).do = "put" /\ Made("put", r, v, x).reg = r /\ Made("put", r, v, x).val = v
    BY DEF Made
  <2> HIDE DEF b
  <2> QED BY <2>2, <2>4, <2>5, <2>6 DEF v
<1>4. s = [i \in 1..n |-> b(i)]
  BY DEF n, l, Staged
<1> HIDE DEF b, s
<1> DEFINE F == Fitting(f)
<1>5. \A i \in 1..n : b(i) \in F
  BY <1>3
<1> HIDE DEF F
<1>6. s \in Seq(F)
  BY ONLY <1>1, <1>4, <1>5
<1>7. Len(s) = n /\ \A i \in 1..n : s[i] = b(i)
  BY ONLY <1>1, <1>4, <1>5
<1>8. \A a \in Elems(s) : a.do = "put" /\ a.reg = r /\ \A k \in DOMAIN a.val : k \in m /\ a.val[k] = c
  <2>1. ASSUME NEW a \in Elems(s) PROVE a.do = "put" /\ a.reg = r /\ \A k \in DOMAIN a.val : k \in m /\ a.val[k] = c
    <3>1. PICK i \in 1..n : a = b(i)
      BY ONLY <1>7, <2>1 DEF Elems
    <3>2. l(i) \in m
      BY <1>1
    <3>3. b(i).do = "put" /\ b(i).reg = r /\ b(i).val = Same({l(i)}, c)
          /\ DOMAIN Same({l(i)}, c) = {l(i)} /\ Same({l(i)}, c)[l(i)] = c
      BY <1>3
    <3> QED BY ONLY <3>1, <3>2, <3>3
  <2> QED BY <2>1
<1>9. \A k \in m : \E a \in Elems(s) : a.do \in {"put", "merge"} /\ a.reg = r /\ k \in DOMAIN a.val
  <2>1. ASSUME NEW k \in m PROVE \E a \in Elems(s) : a.do \in {"put", "merge"} /\ a.reg = r /\ k \in DOMAIN a.val
    <3>1. PICK i \in 1..n : l(i) = k
      BY <1>1
    <3>2. s[i] \in Elems(s) /\ s[i] = b(i)
      BY ONLY <1>7, <3>1 DEF Elems
    <3>3. b(i).do = "put" /\ b(i).reg = r /\ b(i).val = Same({l(i)}, c) /\ DOMAIN Same({l(i)}, c) = {l(i)}
      BY <1>3
    <3> QED BY ONLY <3>1, <3>2, <3>3
  <2> QED BY <2>1
<1>10. Gives(s, r, m, c)
  BY <1>8, <1>9 DEF Gives
<1>11. Orderly(f, s)
  <2>1. CASE s = <<>>
    BY <2>1 DEF Orderly
  <2>2. CASE s # <<>>
    <3>1. n # 0
      <4>1. Len(s) \in Nat \ {0}
        BY ONLY <1>6, <2>2, TailOf
      <4> QED BY ONLY <4>1, <1>7
    <3>2. 1 \in 1..n /\ \A i \in 1..n - 1 : i + 1 \in 1..n
      BY ONLY <1>1, <3>1
    <3>3. \A i \in 1..n : s[i].do = "put"
      BY ONLY <1>3, <1>7
    <3>4. s[1].do # "merge" /\ \A i \in 1..n - 1 : s[i + 1].do # "merge"
      BY ONLY <3>2, <3>3
    <3>5. Linked(s)
      BY ONLY <1>7, <3>4 DEF Linked
    <3>6. \A a \in Elems(s) : a.do \notin {"lock", "unlock"} /\ a.reg # "target" /\ (f \in {"mux", "flaps"} => a.do # "merge")
      BY <1>8
    <3> QED BY <1>6, <2>2, <3>4, <3>5, <3>6 DEF Ordinary, Orderly, F
  <2> QED BY <2>1, <2>2
<1>12. \A q : q # r => Avoids(s, q)
  BY <1>8 DEF Avoids
<1> QED BY <1>10, <1>11, <1>12 DEF s

(* The lanes of a mask are fields of the registers of lanes. *)
LEMMA LanesFew ==
    /\ Lanes \in SUBSET Nat
    /\ \A m \in Masks : m \in SUBSET Nat /\ m \in SUBSET Lanes
    /\ \A S \in SUBSET Lanes : \A c \in 0..1 : Same(S, c) \in Fillings /\ DOMAIN Same(S, c) = S /\ c \in Contents
<1>1. Lanes \in SUBSET Nat /\ \A m \in Masks : m \in SUBSET Nat /\ m \in SUBSET Lanes
  BY PartsAssumption DEF Registers!RegisterAssumption
<1>2. ASSUME NEW S \in SUBSET Lanes, NEW c \in 0..1 PROVE Same(S, c) \in Fillings /\ DOMAIN Same(S, c) = S /\ c \in Contents
  <2>1. S \in SUBSET Nat /\ c \in Contents
    BY <1>1 DEF Contents
  <2> QED BY <2>1, SameFilling
<1> QED BY <1>1, <1>2

(* A register is read, after another, and written back. *)
Merging(f, s, r, v) ==
    /\ Ordinary(f, s)
    /\ \A y \in Elems(s) : y.do # "aim" /\ (y.do \in {"put", "merge"} => y.reg = r /\ y.val = v)
    /\ \E y \in Elems(s) : y.do = "merge" /\ y.reg = r /\ y.val = v

LEMMA ChannelMerging ==
    ASSUME NEW f, f \notin {"mux", "flaps"}, NEW q, Plainly(f, q), NEW r, Plainly(f, r), r \notin Registers!Measurements,
           NEW do \in {"get", "need"}, NEW w \in Fillings, NEW v \in Fillings, DOMAIN v \subseteq FieldsOf(f, r), NEW x \in Losses
    PROVE  Merging(f, <<Made(do, q, w, "stop"), Made("get", r, <<>>, "stop"), Made("merge", r, v, x)>>, r, v)
<1> DEFINE a == Made(do, q, w, "stop") b == Made("get", r, <<>>, "stop") c == Made("merge", r, v, x)
<1>1. a \in Fitting(f)
  BY ReadFits DEF Plainly, Losses
<1>2. b \in Fitting(f)
  BY ReadFits, EmptyFilling DEF Plainly, Losses
<1>3. c \in Fitting(f)
  BY WriteFits DEF Plainly
<1>4. a.do = do /\ a.reg = q /\ b.do = "get" /\ b.reg = r /\ b.fails = "stop" /\ c.do = "merge" /\ c.reg = r /\ c.val = v
  BY DEF Made
<1> HIDE DEF a, b, c
<1>5. /\ \A y \in {a, b, c} : y.do \notin {"lock", "unlock"} /\ y.reg # "target" /\ (f \in {"mux", "flaps"} => y.do # "merge")
      /\ a.do # "merge" /\ b.do # "merge" /\ (c.do = "merge" => b.do = "get" /\ b.reg = c.reg /\ b.fails = "stop")
  BY <1>4 DEF Plainly
<1>6. f # "either_side"
  BY DEF Plainly
<1>7. Ordinary(f, <<a, b, c>>)
  BY ONLY <1>1, <1>2, <1>3, <1>5, <1>6, ThreeOrdinary
<1> DEFINE s == <<a, b, c>> F == Fitting(f)
<1>8. a \in F /\ b \in F /\ c \in F
  BY <1>1, <1>2, <1>3
<1> HIDE DEF F
<1>9. Elems(s) = {a, b, c}
  BY ONLY <1>8, ThreeSteps
<1> HIDE DEF s
<1>10. a \in Elems(s) /\ b \in Elems(s) /\ c \in Elems(s) /\ \A y \in Elems(s) : y = a \/ y = b \/ y = c
  BY ONLY <1>9
<1>11. Merging(f, s, r, v)
  BY <1>4, <1>7, <1>10 DEF Merging, s
<1> QED BY <1>11 DEF a, b, c, s

LEMMA MergingOkay ==
    ASSUME NEW d, NEW f, NEW s, NEW r, Plainly(f, r), r \notin Registers!Measurements, NEW v \in Fillings,
           DOMAIN v \subseteq FieldsOf(f, r), Merging(f, s, r, v), NEW p, p.todo = s, p.goal = Setting0(r, v)
    PROVE  Okay(d, f, p)
<1>1. \A y \in Elems(s) : /\ y.do # "aim"
                          /\ y.do \in {"put", "merge"} /\ y.reg = r => \A k \in DOMAIN y.val : k \in DOMAIN v /\ y.val[k] = v[k]
  BY DEF Merging
<1>2. \A k \in DOMAIN v : \E y \in Elems(s) : y.do \in {"put", "merge"} /\ y.reg = r /\ k \in DOMAIN y.val
  BY DEF Merging
<1> QED BY <1>1, <1>2, SetOkay DEF Merging

(* Two reads. *)
LEMMA LookOkay ==
    ASSUME NEW d, NEW f, NEW q, Plainly(f, q), NEW r, Plainly(f, r), NEW do \in {"get", "need"}, NEW w \in Fillings,
           NEW p, p.todo = <<Made(do, q, w, "stop"), Made("get", r, <<>>, "stop")>>, p.goal = Registers!Nothing
    PROVE  Okay(d, f, p)
<1> DEFINE a == Made(do, q, w, "stop") b == Made("get", r, <<>>, "stop")
<1>1. a \in Fitting(f)
  BY ReadFits DEF Plainly, Losses
<1>2. b \in Fitting(f)
  BY ReadFits, EmptyFilling DEF Plainly, Losses
<1>3. a.do = do /\ a.reg = q /\ b.do = "get" /\ b.reg = r
  BY DEF Made
<1>4. p.todo = <<a, b>>
  OBVIOUS
<1> HIDE DEF a, b
<1>5. Ordinary(f, <<a, b>>)
  BY <1>1, <1>2, <1>3, TwoOrdinary DEF Plainly
<1> QED BY <1>4, <1>5, NothingOkay

LEMMA LaneDisable == \A f \in {"tx", "rx"} : \A p \in Registers!Lane!Calls(f) : Okay("cmis", f, p)
<1> SUFFICES ASSUME NEW f \in {"tx", "rx"}, NEW p \in Registers!Lane!Calls(f) PROVE Okay("cmis", f, p)
  OBVIOUS
<1>1. Plainly(f, "adv") /\ Plainly(f, f) /\ FieldsOf(f, f) = Lanes
  <2>1. Registers!Fresh(f) = [r \in {"adv", f} |-> IF r = "adv" THEN At0(1) ELSE Row(0)]
    BY LaneRegisters
  <2> QED BY <2>1 DEF Plainly, Regs, FieldsOf, Row, Names
<1> DEFINE a == Made("need", "adv", At0(1), "stop") b == Made("get", f, <<>>, "stop")
           c(m, v) == Made("merge", f, Same(m, v), "stop")
<1>2. \/ \E v \in 0..1 : p.todo = <<Made("put", f, Same(Lanes, v), "stop")>> /\ p.goal = Setting0(f, Same(Lanes, v))
      \/ \E m \in Masks, v \in 0..1 : p.todo = <<a, b, c(m, v)>> /\ p.goal = Setting0(f, Same(m, v))
      \/ p.todo = <<a, b>> /\ p.goal = Registers!Nothing
  <2>1. Registers!Lane!Supported = a
    BY LaneWords DEF Registers!Lane!Supported
  <2>2. Registers!Lane!Get(f) = b /\ \A m, v : Registers!Lane!Merge(f, Registers!Lane!All(m, v)) = c(m, v)
    BY LaneWords
  <2>3. \A m, v : <<a, b>> \o <<c(m, v)>> = <<a, b, c(m, v)>>
    BY TripleOf
  <2>4. \A api, s, g : Registers!Lane!Program(api, s, g).todo = s /\ Registers!Lane!Program(api, s, g).goal = g
    BY LaneWords
  <2> HIDE DEF a, b, c
  <2>5. ASSUME NEW x,
               \E m \in Masks, v \in 0..1 :
                  p = Registers!Lane!Program(x, <<a, b>> \o <<c(m, v)>>, Registers!Lane!IsSet(f, Registers!Lane!All(m, v)))
        PROVE  \E m \in Masks, v \in 0..1 : p.todo = <<a, b, c(m, v)>> /\ p.goal = Setting0(f, Same(m, v))
    <3>1. PICK m \in Masks, v \in 0..1 :
            p = Registers!Lane!Program(x, <<a, b>> \o <<c(m, v)>>, Registers!Lane!IsSet(f, Registers!Lane!All(m, v)))
      BY <2>5
    <3>2. p.todo = <<a, b>> \o <<c(m, v)>> /\ p.goal = Registers!Lane!IsSet(f, Registers!Lane!All(m, v))
      BY <2>4, <3>1, ZenonT(60)
    <3>3. Registers!Lane!IsSet(f, Registers!Lane!All(m, v)) = Setting0(f, Same(m, v))
      BY LaneWords
    <3>4. p.todo = <<a, b, c(m, v)>> /\ p.goal = Setting0(f, Same(m, v))
      BY <2>3, <3>2, <3>3, Zenon
    <3> QED BY <3>4
  <2>6. ASSUME NEW x, p = Registers!Lane!Program(x, <<a, b>>, Registers!Lane!Nothing)
        PROVE  p.todo = <<a, b>> /\ p.goal = Registers!Nothing
    <3>1. p.todo = <<a, b>> /\ p.goal = Registers!Lane!Nothing
      BY <2>4, <2>6, Zenon
    <3> QED BY <3>1, LaneWords
  <2>7. ASSUME NEW x, \E v \in 0..1 : p = Registers!Lane!Writing(x, f, Registers!Lane!All(Lanes, v))
        PROVE  \E v \in 0..1 : p.todo = <<Made("put", f, Same(Lanes, v), "stop")>> /\ p.goal = Setting0(f, Same(Lanes, v))
    BY <2>7, LaneWords
  <2>8. CASE f = "tx"
    <3>1. \/ p \in Registers!Lane!tx_disable \/ p \in Registers!Lane!tx_disable_channel \/ p \in Registers!Lane!get_tx_disable
      BY <2>8 DEF Registers!Lane!Calls
    <3>2. CASE p \in Registers!Lane!tx_disable
      BY <2>7, <2>8, <3>2 DEF Registers!Lane!tx_disable
    <3>3. CASE p \in Registers!Lane!tx_disable_channel
      <4>1. \E m \in Masks, v \in 0..1 :
              p = Registers!Lane!Program("tx_disable_channel", Registers!Lane!get_tx_disable_channel \o
                    <<Registers!Lane!Merge("tx", Registers!Lane!All(m, v))>>, Registers!Lane!IsSet("tx", Registers!Lane!All(m, v)))
        BY <3>3 DEF Registers!Lane!tx_disable_channel
      <4>2. Registers!Lane!get_tx_disable_channel = <<a, b>>
        BY <2>1, <2>2, <2>8 DEF Registers!Lane!get_tx_disable_channel
      <4>3. \E m \in Masks, v \in 0..1 :
              p = Registers!Lane!Program("tx_disable_channel", <<a, b>> \o <<c(m, v)>>, Registers!Lane!IsSet("tx", Registers!Lane!All(m, v)))
        <5>1. PICK m \in Masks, v \in 0..1 :
                p = Registers!Lane!Program("tx_disable_channel", Registers!Lane!get_tx_disable_channel \o
                    <<Registers!Lane!Merge("tx", Registers!Lane!All(m, v))>>, Registers!Lane!IsSet("tx", Registers!Lane!All(m, v)))
          BY <4>1
        <5>2. Registers!Lane!Merge("tx", Registers!Lane!All(m, v)) = c(m, v)
          BY <2>2, <2>8
        <5>3. p = Registers!Lane!Program("tx_disable_channel", <<a, b>> \o <<c(m, v)>>, Registers!Lane!IsSet("tx", Registers!Lane!All(m, v)))
          BY <4>2, <5>1, <5>2, Zenon
        <5> QED BY <5>3
      <4> QED BY <2>5, <2>8, <4>3
    <3>4. CASE p \in Registers!Lane!get_tx_disable
      <4>1. p = Registers!Lane!Program("get_tx_disable", <<a, b>>, Registers!Lane!Nothing)
        BY <2>1, <2>2, <2>8, <3>4, Zenon DEF Registers!Lane!get_tx_disable
      <4> QED BY <2>6, <4>1
    <3> QED BY <3>1, <3>2, <3>3, <3>4
  <2>9. CASE f = "rx"
    <3>1. \/ p \in Registers!Lane!rx_disable \/ p \in Registers!Lane!rx_disable_channel \/ p \in Registers!Lane!get_rx_disable
      BY <2>9 DEF Registers!Lane!Calls
    <3>2. CASE p \in Registers!Lane!rx_disable
      BY <2>7, <2>9, <3>2 DEF Registers!Lane!rx_disable
    <3>3. CASE p \in Registers!Lane!rx_disable_channel
      <4>1. \E m \in Masks, v \in 0..1 :
              p = Registers!Lane!Program("rx_disable_channel", Registers!Lane!get_rx_disable_channel \o
                    <<Registers!Lane!Merge("rx", Registers!Lane!All(m, v))>>, Registers!Lane!IsSet("rx", Registers!Lane!All(m, v)))
        BY <3>3 DEF Registers!Lane!rx_disable_channel
      <4>2. Registers!Lane!get_rx_disable_channel = <<a, b>>
        BY <2>1, <2>2, <2>9 DEF Registers!Lane!get_rx_disable_channel
      <4>3. \E m \in Masks, v \in 0..1 :
              p = Registers!Lane!Program("rx_disable_channel", <<a, b>> \o <<c(m, v)>>, Registers!Lane!IsSet("rx", Registers!Lane!All(m, v)))
        <5>1. PICK m \in Masks, v \in 0..1 :
                p = Registers!Lane!Program("rx_disable_channel", Registers!Lane!get_rx_disable_channel \o
                    <<Registers!Lane!Merge("rx", Registers!Lane!All(m, v))>>, Registers!Lane!IsSet("rx", Registers!Lane!All(m, v)))
          BY <4>1
        <5>2. Registers!Lane!Merge("rx", Registers!Lane!All(m, v)) = c(m, v)
          BY <2>2, <2>9
        <5>3. p = Registers!Lane!Program("rx_disable_channel", <<a, b>> \o <<c(m, v)>>, Registers!Lane!IsSet("rx", Registers!Lane!All(m, v)))
          BY <4>2, <5>1, <5>2, Zenon
        <5> QED BY <5>3
      <4> QED BY <2>5, <2>9, <4>3
    <3>4. CASE p \in Registers!Lane!get_rx_disable
      <4>1. p = Registers!Lane!Program("get_rx_disable", <<a, b>>, Registers!Lane!Nothing)
        BY <2>1, <2>2, <2>9, <3>4, Zenon DEF Registers!Lane!get_rx_disable
      <4> QED BY <2>6, <4>1
    <3> QED BY <3>1, <3>2, <3>3, <3>4
  <2> QED BY <2>8, <2>9
<1>3. At0(1) \in Fillings
  BY EndsFew, At0Of
<1>4. f \notin {"mux", "flaps"} /\ f \notin Registers!Measurements
  BY DEF Registers!Measurements
<1>5. CASE \E v \in 0..1 : p.todo = <<Made("put", f, Same(Lanes, v), "stop")>> /\ p.goal = Setting0(f, Same(Lanes, v))
  <2>1. PICK v \in 0..1 : p.todo = <<Made("put", f, Same(Lanes, v), "stop")>> /\ p.goal = Setting0(f, Same(Lanes, v))
    BY <1>5
  <2>2. Same(Lanes, v) \in Fillings /\ DOMAIN Same(Lanes, v) = Lanes
    BY LanesFew
  <2> QED BY <1>1, <1>4, <2>1, <2>2, WritingOkay DEF Losses
<1>6. CASE \E m \in Masks, v \in 0..1 : p.todo = <<a, b, c(m, v)>> /\ p.goal = Setting0(f, Same(m, v))
  <2>1. PICK m \in Masks, v \in 0..1 : p.todo = <<a, b, c(m, v)>> /\ p.goal = Setting0(f, Same(m, v))
    BY <1>6
  <2>2. Same(m, v) \in Fillings /\ DOMAIN Same(m, v) = m /\ m \subseteq Lanes
    BY LanesFew
  <2>3. Merging(f, <<a, b, c(m, v)>>, f, Same(m, v))
    BY <1>1, <1>3, <1>4, <2>2, ChannelMerging DEF Losses
  <2> HIDE DEF a, b, c
  <2> QED BY <1>1, <1>4, <2>1, <2>2, <2>3, MergingOkay
<1>7. CASE p.todo = <<a, b>> /\ p.goal = Registers!Nothing
  BY <1>1, <1>3, <1>7, LookOkay
<1> QED BY <1>2, <1>5, <1>6, <1>7

(* Loopbacks. *)
LEMMA OneTwoOf == ASSUME NEW a, NEW b, NEW c PROVE <<a>> \o <<>> \o <<b, c>> = <<a, b, c>>
<1> DEFINE S == {a, b, c} x == <<a>> y == <<b, c>> w == <<a, b, c>> u == x \o y
<1>1. x \in Seq(S) /\ y \in Seq(S) /\ w \in Seq(S)
  OBVIOUS
<1>2. Len(x) = 1 /\ x[1] = a /\ Len(y) = 2 /\ y[1] = b /\ y[2] = c
  OBVIOUS
<1>3. Len(w) = 3 /\ w[1] = a /\ w[2] = b /\ w[3] = c
  OBVIOUS
<1>0. x \o <<>> = x
  BY PairOf
<1> HIDE DEF S, x, y, w
<1>4. u \in Seq(S) /\ Len(u) = Len(x) + Len(y)
  BY ONLY <1>1, ConcatOf
<1>5. (\A i \in 1..Len(x) : u[i] = x[i]) /\ (\A i \in 1..Len(y) : u[Len(x) + i] = y[i])
  BY ONLY <1>1, ConcatOf
<1> HIDE DEF u
<1>6. u[1] = x[1] /\ u[1 + 1] = y[1] /\ u[1 + 2] = y[2]
  BY ONLY <1>2, <1>5
<1>7. Len(u) = 3 /\ 1 + 1 = 2 /\ 1 + 2 = 3
  BY ONLY <1>2, <1>4
<1>8. \A i \in 1..Len(u) : u[i] = w[i]
  <2>1. \A i \in 1..Len(u) : i = 1 \/ i = 2 \/ i = 3
    BY ONLY <1>7
  <2> QED BY <1>2, <1>3, <1>6, <1>7, <2>1
<1>9. u = w
  BY <1>1, <1>3, <1>4, <1>7, <1>8, SeqEqual
<1>10. (x \o <<>>) \o y = w
  BY <1>0, <1>9, Zenon DEF u
<1> QED BY <1>10 DEF w, x, y

LEMMA FiveOf == ASSUME NEW a, NEW b, NEW c, NEW d, NEW e PROVE <<a>> \o <<b, c>> \o <<d, e>> = <<a, b, c, d, e>>
<1> DEFINE S == {a, b, c, d, e} x == <<a>> y == <<b, c>> z == <<d, e>> w == <<a, b, c, d, e>> v == x \o y u == v \o z
<1>1. x \in Seq(S) /\ Len(x) = 1 /\ x[1] = a
  OBVIOUS
<1>2. y \in Seq(S) /\ Len(y) = 2 /\ y[1] = b /\ y[2] = c
  OBVIOUS
<1>3. z \in Seq(S) /\ Len(z) = 2 /\ z[1] = d /\ z[2] = e
  OBVIOUS
<1>4. w \in Seq(S) /\ Len(w) = 5 /\ w[1] = a /\ w[2] = b /\ w[3] = c /\ w[4] = d /\ w[5] = e
  OBVIOUS
<1> HIDE DEF S, x, y, z, w
<1>5. v \in Seq(S) /\ Len(v) = 3 /\ v[1] = a /\ v[2] = b /\ v[3] = c
  <2>0. x \in Seq(S) /\ y \in Seq(S)
    BY <1>1, <1>2
  <2>1. v \in Seq(S) /\ Len(v) = Len(x) + Len(y)
    BY ONLY <2>0, ConcatOf
  <2>2. (\A i \in 1..Len(x) : v[i] = x[i]) /\ (\A i \in 1..Len(y) : v[Len(x) + i] = y[i])
    BY ONLY <2>0, ConcatOf
  <2> HIDE DEF v
  <2>3. v[1] = x[1] /\ v[1 + 1] = y[1] /\ v[1 + 2] = y[2]
    BY ONLY <1>1, <1>2, <2>2
  <2>4. Len(v) = 3 /\ 1 + 1 = 2 /\ 1 + 2 = 3
    BY ONLY <1>1, <1>2, <2>1
  <2> QED BY <1>1, <1>2, <2>1, <2>3, <2>4
<1> HIDE DEF v
<1>6. u \in Seq(S) /\ Len(u) = 5 /\ u[1] = a /\ u[2] = b /\ u[3] = c /\ u[4] = d /\ u[5] = e
  <2>0. v \in Seq(S) /\ z \in Seq(S)
    BY <1>3, <1>5
  <2>1. u \in Seq(S) /\ Len(u) = Len(v) + Len(z)
    BY ONLY <2>0, ConcatOf
  <2>2. (\A i \in 1..Len(v) : u[i] = v[i]) /\ (\A i \in 1..Len(z) : u[Len(v) + i] = z[i])
    BY ONLY <2>0, ConcatOf
  <2> HIDE DEF u
  <2>3. u[1] = v[1] /\ u[2] = v[2] /\ u[3] = v[3] /\ u[3 + 1] = z[1] /\ u[3 + 2] = z[2]
    BY ONLY <1>3, <1>5, <2>2
  <2>4. Len(u) = 5 /\ 3 + 1 = 4 /\ 3 + 2 = 5
    BY ONLY <1>3, <1>5, <2>1
  <2> QED BY <1>3, <1>5, <2>1, <2>3, <2>4
<1> HIDE DEF u
<1>7. \A i \in 1..Len(u) : u[i] = w[i]
  <2>1. Len(u) = 5
    BY <1>6
  <2>2. \A i \in 1..Len(u) : i = 1 \/ i = 2 \/ i = 3 \/ i = 4 \/ i = 5
    BY ONLY <2>1
  <2> QED BY <1>4, <1>6, <2>2
<1>8. u = w
  BY <1>4, <1>6, <1>7, SeqEqual
<1> QED BY <1>8 DEF u, v, w, x, y, z

LEMMA LoopbackWords ==
    ASSUME NEW api, NEW r, NEW checks, NEW both, NEW p \in Registers!Lane!SetLoopback(api, r, checks, both)
    PROVE  \E m \in Registers!Lane!LoopbackMasks(both), v \in 0..1 :
              /\ p.todo = <<Made("get", "adv", <<>>, "stop")>> \o checks
                              \o <<Made("get", r, <<>>, "stop"), Made("merge", r, Same(m, v), "stop")>>
              /\ p.goal = Setting0(r, Same(m, v))
<1>1. PICK m \in Registers!Lane!LoopbackMasks(both), v \in 0..1 :
         p = Registers!Lane!Program(api, Registers!Lane!get_loopback_capability \o checks \o
                 <<Registers!Lane!Get(r), Registers!Lane!Merge(r, Registers!Lane!All(m, v))>>,
                 Registers!Lane!IsSet(r, Registers!Lane!All(m, v)))
  BY DEF Registers!Lane!SetLoopback
<1> DEFINE a == Made("get", "adv", <<>>, "stop") b == Made("get", r, <<>>, "stop") c == Made("merge", r, Same(m, v), "stop")
<1>2. Registers!Lane!get_loopback_capability = <<a>>
  <2>1. Registers!Lane!Get("adv") = a
    BY LaneWords
  <2> HIDE DEF a
  <2> QED BY <2>1 DEF Registers!Lane!get_loopback_capability
<1>3. Registers!Lane!Get(r) = b /\ Registers!Lane!Merge(r, Registers!Lane!All(m, v)) = c
  BY LaneWords
<1>4. Registers!Lane!IsSet(r, Registers!Lane!All(m, v)) = Setting0(r, Same(m, v))
  BY LaneWords
<1>5. \A x, s, g : Registers!Lane!Program(x, s, g).todo = s /\ Registers!Lane!Program(x, s, g).goal = g
  BY LaneWords
<1> HIDE DEF a, b, c
<1>6. /\ p.todo = Registers!Lane!get_loopback_capability \o checks \o
                      <<Registers!Lane!Get(r), Registers!Lane!Merge(r, Registers!Lane!All(m, v))>>
      /\ p.goal = Registers!Lane!IsSet(r, Registers!Lane!All(m, v))
  BY <1>1, <1>5, ZenonT(60)
<1>7. p.todo = <<a>> \o checks \o <<b, c>> /\ p.goal = Setting0(r, Same(m, v))
  BY <1>2, <1>3, <1>4, <1>6, Zenon
<1> QED BY <1>7 DEF a, b, c

LoopNames == {"hostIn", "hostOut", "mediaIn", "mediaOut"}

LEMMA LaneBothSides == \A p \in Registers!Lane!Calls("both_sides") : Okay("cmis", "both_sides", p)
<1> DEFINE f == "both_sides"
<1> SUFFICES ASSUME NEW p \in Registers!Lane!Calls(f) PROVE Okay("cmis", f, p)
  OBVIOUS
<1>1. Plainly(f, "adv") /\ \A r \in LoopNames : Plainly(f, r) /\ FieldsOf(f, r) = Lanes /\ r \notin Registers!Measurements
  <2>1. Registers!Fresh(f) = [r \in {"adv", "hostIn", "hostOut", "mediaIn", "mediaOut"} |->
                                IF r = "adv" THEN At0(1) ELSE Row(0)]
    BY LaneRegisters
  <2> QED BY <2>1 DEF Plainly, Regs, FieldsOf, Row, Names, LoopNames, Registers!Measurements
<1>2. \E api : \E r \in LoopNames : p \in Registers!Lane!SetLoopback(api, r, <<>>, TRUE)
  BY DEF Registers!Lane!Calls, Registers!Lane!set_loopback_mode, Registers!Lane!set_host_input_loopback,
     Registers!Lane!set_host_output_loopback, Registers!Lane!set_media_input_loopback, Registers!Lane!set_media_output_loopback,
     Registers!Lane!Loopback, LoopNames
<1>3. PICK r \in LoopNames : \E api : p \in Registers!Lane!SetLoopback(api, r, <<>>, TRUE)
  BY <1>2
<1>4. PICK m \in Registers!Lane!LoopbackMasks(TRUE), v \in 0..1 :
              /\ p.todo = <<Made("get", "adv", <<>>, "stop")>> \o <<>>
                              \o <<Made("get", r, <<>>, "stop"), Made("merge", r, Same(m, v), "stop")>>
              /\ p.goal = Setting0(r, Same(m, v))
  <2>1. PICK api : p \in Registers!Lane!SetLoopback(api, r, <<>>, TRUE)
    BY <1>3
  <2> DEFINE nil == <<>> both == TRUE
  <2>2. p \in Registers!Lane!SetLoopback(api, r, nil, both)
    BY <2>1
  <2> HIDE DEF nil, both
  <2>3. \E m \in Registers!Lane!LoopbackMasks(both), v \in 0..1 :
              /\ p.todo = <<Made("get", "adv", <<>>, "stop")>> \o nil
                              \o <<Made("get", r, <<>>, "stop"), Made("merge", r, Same(m, v), "stop")>>
              /\ p.goal = Setting0(r, Same(m, v))
    BY <2>2, LoopbackWords
  <2> QED BY <2>3 DEF nil, both
<1> DEFINE a == Made("get", "adv", <<>>, "stop") b == Made("get", r, <<>>, "stop") c == Made("merge", r, Same(m, v), "stop")
<1>5. m \in Masks
  BY DEF Registers!Lane!LoopbackMasks
<1>6. Same(m, v) \in Fillings /\ DOMAIN Same(m, v) = m /\ m \subseteq Lanes
  BY <1>5, LanesFew
<1>7. Merging(f, <<a, b, c>>, r, Same(m, v))
  BY <1>1, <1>6, EmptyFilling, ChannelMerging DEF Losses
<1>8. p.todo = <<a>> \o <<>> \o <<b, c>> /\ p.goal = Setting0(r, Same(m, v))
  BY <1>4
<1> HIDE DEF a, b, c
<1>9. p.todo = <<a, b, c>>
  BY <1>8, OneTwoOf, Zenon
<1> HIDE DEF f
<1> QED BY <1>1, <1>6, <1>7, <1>8, <1>9, MergingOkay

LEMMA LaneEitherSide == \A p \in Registers!Lane!Calls("either_side") : Okay("cmis", "either_side", p)
<1> DEFINE f == "either_side"
<1> SUFFICES ASSUME NEW p \in Registers!Lane!Calls(f) PROVE Okay("cmis", f, p)
  OBVIOUS
<1>0. Registers!Fresh(f) = [r \in {"adv", "hostIn", "hostOut", "mediaIn", "mediaOut"} |->
                              IF r = "adv" THEN At0(1) ELSE Row(0)]
  BY LaneRegisters
<1>1. /\ "adv" \in (Regs(f) \cap Names) \ {"target", "apply"}
      /\ \A r \in LoopNames : r \in (Regs(f) \cap Names) \ {"target", "apply"} /\ FieldsOf(f, r) = Lanes
  BY <1>0 DEF Regs, FieldsOf, Row, Names, LoopNames
<1> DEFINE n(o) == Made("need", o, Row(0), "ignore")
<1>2. \E r \in LoopNames, o1 \in LoopNames, o2 \in LoopNames :
        Opposite(r) = {o1, o2} /\ \E api : p \in Registers!Lane!SetLoopback(api, r, <<n(o1), n(o2)>>, FALSE)
  <2>1. \A o : Registers!Lane!ReadsOff(o) = n(o)
    BY LaneWords DEF Registers!Lane!ReadsOff, Registers!Lane!Off, Row, Same
  <2>2. /\ Opposite("hostIn") = {"mediaIn", "mediaOut"} /\ Opposite("hostOut") = {"mediaIn", "mediaOut"}
        /\ Opposite("mediaIn") = {"hostIn", "hostOut"} /\ Opposite("mediaOut") = {"hostIn", "hostOut"}
    BY DEF Opposite, Registers!Lane!Host, Registers!Lane!Media
  <2> DEFINE L(api, r, o1, o2) == Registers!Lane!SetLoopback(api, r, <<n(o1), n(o2)>>, FALSE)
  <2>3. \A api, r, o1, o2 : Registers!Lane!Loopback(api, r, <<o1, o2>>, FALSE) = L(api, r, o1, o2)
    <3> SUFFICES ASSUME NEW api, NEW r, NEW o1, NEW o2
                 PROVE  Registers!Lane!Loopback(api, r, <<o1, o2>>, FALSE) = L(api, r, o1, o2)
      OBVIOUS
    <3> DEFINE others == <<o1, o2>>
    <3>1. others[1] = o1 /\ others[2] = o2
      OBVIOUS
    <3> HIDE DEF others
    <3>2. Registers!Lane!Loopback(api, r, others, FALSE)
            = Registers!Lane!SetLoopback(api, r, <<Registers!Lane!ReadsOff(others[1]), Registers!Lane!ReadsOff(others[2])>>, FALSE)
      BY Zenon DEF Registers!Lane!Loopback
    <3> HIDE DEF n
    <3>3. Registers!Lane!Loopback(api, r, others, FALSE) = Registers!Lane!SetLoopback(api, r, <<n(o1), n(o2)>>, FALSE)
      BY <2>1, <3>1, <3>2, Zenon
    <3> QED BY <3>3 DEF others
  <2> HIDE DEF L
  <2>4. \/ p \in L("set_host_input_loopback", "hostIn", "mediaIn", "mediaOut")
        \/ p \in L("set_host_output_loopback", "hostOut", "mediaIn", "mediaOut")
        \/ p \in L("set_media_input_loopback", "mediaIn", "hostIn", "hostOut")
        \/ p \in L("set_media_output_loopback", "mediaOut", "hostIn", "hostOut")
    BY ZenonT(60), <2>3 DEF Registers!Lane!Calls, Registers!Lane!set_loopback_mode, Registers!Lane!set_host_input_loopback,
       Registers!Lane!set_host_output_loopback, Registers!Lane!set_media_input_loopback, Registers!Lane!set_media_output_loopback
  <2>5. \E r \in LoopNames, o1 \in LoopNames, o2 \in LoopNames : Opposite(r) = {o1, o2} /\ \E api : p \in L(api, r, o1, o2)
    BY <2>2, <2>4 DEF LoopNames
  <2> QED BY <2>5 DEF L
<1>3. PICK r \in LoopNames, o1 \in LoopNames, o2 \in LoopNames :
        Opposite(r) = {o1, o2} /\ \E api : p \in Registers!Lane!SetLoopback(api, r, <<n(o1), n(o2)>>, FALSE)
  BY <1>2
<1>4. \E m \in Registers!Lane!LoopbackMasks(FALSE), v \in 0..1 :
        /\ p.todo = <<Made("get", "adv", <<>>, "stop")>> \o <<n(o1), n(o2)>>
                        \o <<Made("get", r, <<>>, "stop"), Made("merge", r, Same(m, v), "stop")>>
        /\ p.goal = Setting0(r, Same(m, v))
  <2>1. PICK api : p \in Registers!Lane!SetLoopback(api, r, <<n(o1), n(o2)>>, FALSE)
    BY <1>3
  <2> DEFINE checks == <<n(o1), n(o2)>> both == FALSE
  <2>2. p \in Registers!Lane!SetLoopback(api, r, checks, both)
    BY <2>1
  <2> HIDE DEF checks, both
  <2>3. \E m \in Registers!Lane!LoopbackMasks(both), v \in 0..1 :
              /\ p.todo = <<Made("get", "adv", <<>>, "stop")>> \o checks
                              \o <<Made("get", r, <<>>, "stop"), Made("merge", r, Same(m, v), "stop")>>
              /\ p.goal = Setting0(r, Same(m, v))
    BY <2>2, LoopbackWords
  <2> QED BY <2>3 DEF checks, both
<1>5. Registers!Lane!LoopbackMasks(FALSE) = {Lanes} /\ \A v : Same(Lanes, v) = Row(v)
  BY DEF Registers!Lane!LoopbackMasks, Same, Row
<1>6. PICK v \in 0..1 :
        /\ p.todo = <<Made("get", "adv", <<>>, "stop")>> \o <<n(o1), n(o2)>>
                        \o <<Made("get", r, <<>>, "stop"), Made("merge", r, Row(v), "stop")>>
        /\ p.goal = Setting0(r, Row(v))
  <2> HIDE DEF n
  <2> QED BY <1>4, <1>5
<1> DEFINE a == Made("get", "adv", <<>>, "stop") b == n(o1) c == n(o2) d == Made("get", r, <<>>, "stop")
           e == Made("merge", r, Row(v), "stop") F == Fitting(f) s == <<a, b, c, d, e>>
<1>7. Row(v) \in Fillings /\ Row(0) \in Fillings /\ DOMAIN Row(v) = Lanes /\ <<>> \in Fillings
  BY <1>5, LanesFew, EmptyFilling
<1>8. a \in F /\ d \in F
  <2>1. a \in F
    BY <1>1, <1>7, ReadFits DEF Losses
  <2>2. d \in F
    BY <1>1, <1>7, ReadFits DEF Losses
  <2> QED BY <2>1, <2>2
<1>9. b \in F /\ c \in F
  <2>1. b \in F
    BY <1>1, <1>7, ReadFits DEF Losses
  <2>2. c \in F
    BY <1>1, <1>7, ReadFits DEF Losses
  <2> QED BY <2>1, <2>2
<1>10. e \in F
  BY <1>1, <1>7, WriteFits DEF Losses, LoopNames, Registers!Measurements
<1>11. /\ a.do = "get" /\ b.do = "need" /\ b.reg = o1 /\ b.val = Row(0) /\ c.do = "need" /\ c.reg = o2 /\ c.val = Row(0)
       /\ d.do = "get" /\ d.reg = r /\ d.fails = "stop" /\ e.do = "merge" /\ e.reg = r /\ e.val = Row(v)
       /\ a.reg = "adv" /\ a.fails = "stop"
  BY DEF Made
<1>12. p.todo = <<a>> \o <<b, c>> \o <<d, e>> /\ p.goal = Setting0(r, Row(v))
  BY <1>6
<1> HIDE DEF a, b, c, d, e, F, n
<1>13. p.todo = s
  BY <1>12, FiveOf, Zenon
<1>14. s \in Seq(F) /\ Len(s) = 5 /\ s[1] = a /\ s[2] = b /\ s[3] = c /\ s[4] = d /\ s[5] = e /\ s # <<>>
  BY ONLY <1>8, <1>9, <1>10
<1> HIDE DEF s
<1> DEFINE g == Setting0(r, Row(v))
<1>15. g.kind = "set" /\ g.reg = r /\ g.val = Row(v) /\ g \in Tasks
  BY <1>1, <1>7 DEF Setting0, Tasks
<1> HIDE DEF g
<1>16. \A i \in 1..Len(s) : i = 1 \/ i = 2 \/ i = 3 \/ i = 4 \/ i = 5
  <2>1. Len(s) = 5
    BY <1>14
  <2> QED BY ONLY <2>1
<1>17. \A i \in 1..Len(s) - 1 : (i = 1 /\ i + 1 = 2) \/ (i = 2 /\ i + 1 = 3) \/ (i = 3 /\ i + 1 = 4) \/ (i = 4 /\ i + 1 = 5)
  <2>1. Len(s) = 5
    BY <1>14
  <2> QED BY ONLY <2>1
<1>18. \A i \in 1..Len(s) : s[i] = a \/ s[i] = b \/ s[i] = c \/ s[i] = d \/ s[i] = e
  BY <1>14, <1>16
<1>19. \A y \in Elems(s) : y = a \/ y = b \/ y = c \/ y = d \/ y = e
  BY <1>18 DEF Elems
<1>20. b \in Elems(s) /\ c \in Elems(s) /\ e \in Elems(s)
  <2>1. 2 \in 1..Len(s) /\ 3 \in 1..Len(s) /\ 5 \in 1..Len(s)
    <3>1. Len(s) = 5
      BY <1>14
    <3> QED BY ONLY <3>1
  <2> QED BY <1>14, <2>1 DEF Elems
<1>21. \A i \in 1..Len(s) - 1 : s[i] \in {a, b, c, d} /\ Precedes(s[i], s[i + 1])
  <2>1. Precedes(a, b) /\ Precedes(b, c) /\ Precedes(c, d) /\ Precedes(d, e)
    BY <1>1, <1>11 DEF Precedes, LoopNames
  <2> QED BY <1>14, <1>17, <2>1
<1>22. Setting(f, g, s)
  <2>1. g.reg \in Regs(f) \ (Registers!Measurements \cup {"target"}) /\ DOMAIN g.val \subseteq FieldsOf(f, g.reg)
    BY <1>1, <1>7, <1>15 DEF LoopNames, Registers!Measurements
  <2>2. \A y \in Elems(s) : Within(g, y)
    BY <1>1, <1>11, <1>15, <1>19 DEF Within, Touches, LoopNames
  <2>3. \A i \in 1..Len(s) : \A k \in DOMAIN g.val : ~Wrong(g, s[i], k)
    BY <1>11, <1>15, <1>18 DEF Wrong, Touches, Registers!Writes
  <2>4. Corrected(g, s)
    BY <2>3 DEF Corrected
  <2> QED BY <2>1, <2>2, <2>4 DEF Setting
<1>23. Looping(g, s)
  <2>1. g.reg \in Registers!Lane!Host \cup Registers!Lane!Media /\ g.val \in {Row(0), Row(1)}
    <3>1. v = 0 \/ v = 1
      OBVIOUS
    <3> QED BY <1>15, <3>1 DEF Registers!Lane!Host, Registers!Lane!Media, LoopNames
  <2>2. \A y \in Elems(s) : LoopingStep(g, y)
    BY <1>11, <1>15, <1>19 DEF LoopingStep, Registers!Writes
  <2>3. \A i \in 1..Len(s) - 1 : s[i].do \notin Registers!Writes
    BY <1>11, <1>21 DEF Registers!Writes
  <2> QED BY <1>15, <2>1, <2>2, <2>3 DEF Looping
<1>24. s[Len(s)].do # "lock"
  BY <1>11, <1>14
<1>25. \A y \in Elems(s) : y.do \notin {"lock", "unlock"}
  BY <1>11, <1>19
<1>26. g.reg # "eye"
  BY <1>15 DEF LoopNames
<1>27. Shaped(f, g, s)
  <2>1. s \in Seq(Fitting(f))
    BY <1>14 DEF F
  <2>2. f = "either_side"
    OBVIOUS
  <2> HIDE DEF f
  <2> QED BY <1>15, <1>21, <1>22, <1>23, <1>24, <1>25, <1>26, <2>1, <2>2 DEF Shaped
<1>28. \A k \in DOMAIN g.val : \E y \in Elems(s) : Right(g, y, k)
  BY <1>7, <1>11, <1>15, <1>20 DEF Right, Touches, Registers!Writes
<1>29. \A y \in Elems(s) : y.do # "aim"
  BY <1>11, <1>19
<1>30. \A o \in Opposite(g.reg) : \E y \in Elems(s) : Looks(o, y)
  BY <1>3, <1>11, <1>15, <1>20 DEF Looks
<1>31. Whole("cmis", f, g, s)
  <2>1. s[1].do \notin {"merge", "unlock"}
    BY <1>11, <1>14
  <2> HIDE DEF f
  <2> QED BY <1>14, <1>15, <1>26, <1>27, <1>28, <1>29, <1>30, <2>1 DEF Whole
<1> QED BY <1>12, <1>13, <1>31 DEF Okay, g

(* Data paths. *)
DeinitSteps(m, c) ==
    <<Made("get", "adv", <<>>, "stop"), Made("get", "deinit", <<>>, "stop"), Made("merge", "deinit", Same(m, c), "ignore")>>

LEMMA DeinitWords == \A m, c : Registers!Lane!SetDeinit(m, c) = DeinitSteps(m, c)
<1> SUFFICES ASSUME NEW m, NEW c PROVE Registers!Lane!SetDeinit(m, c) = DeinitSteps(m, c)
  OBVIOUS
<1> DEFINE a == Made("get", "adv", <<>>, "stop") b == Made("get", "deinit", <<>>, "stop")
           e == Made("merge", "deinit", Same(m, c), "ignore")
<1>1. Registers!Lane!Get("adv") = a /\ Registers!Lane!Get("deinit") = b
  BY LaneWords
<1>2. Registers!Lane!Ignoring(Registers!Lane!Merge("deinit", Registers!Lane!All(m, c))) = e
  BY LaneWords
<1>3. DeinitSteps(m, c) = <<a, b, e>>
  BY DEF DeinitSteps
<1> HIDE DEF a, b, e
<1> QED BY <1>1, <1>2, <1>3, Zenon DEF Registers!Lane!SetDeinit

LEMMA DeinitMerging ==
    ASSUME NEW f \in {"datapath_4", "datapath_3", "application"}, NEW m \in SUBSET Lanes, NEW c \in 0..1
    PROVE  Plainly(f, "deinit") /\ "deinit" \notin Registers!Measurements /\ FieldsOf(f, "deinit") = Lanes
           /\ Merging(f, DeinitSteps(m, c), "deinit", Same(m, c))
<1>1. Plainly(f, "adv") /\ Plainly(f, "deinit") /\ FieldsOf(f, "deinit") = Lanes
  <2>1. CASE f \in {"datapath_4", "datapath_3"}
    <3>1. Registers!Fresh(f) = [r \in {"adv", "deinit"} |-> IF r = "adv" THEN At0(1) ELSE Row(0)]
      BY <2>1, LaneRegisters
    <3> QED BY <3>1 DEF Plainly, Regs, FieldsOf, Row, Names
  <2>2. CASE f = "application"
    <3>1. Registers!Fresh(f) = [r \in {"adv", "deinit", "app", "dp", "config", "apply"} |->
               IF r = "adv" THEN At0(1) ELSE IF r = "apply" THEN At0(0) ELSE IF r = "config" THEN Row(1) ELSE Row(0)]
      BY <2>2, LaneRegisters
    <3> QED BY <2>2, <3>1 DEF Plainly, Regs, FieldsOf, Row, Names
  <2> QED BY <2>1, <2>2
<1>2. Same(m, c) \in Fillings /\ DOMAIN Same(m, c) = m
  BY LanesFew
<1>3. Merging(f, DeinitSteps(m, c), "deinit", Same(m, c))
  BY <1>1, <1>2, EmptyFilling, ChannelMerging DEF Losses, Registers!Measurements, DeinitSteps
<1> QED BY <1>1, <1>3 DEF Registers!Measurements

LEMMA LaneDatapath == \A f \in {"datapath_4", "datapath_3"} : \A p \in Registers!Lane!Calls(f) : Okay("cmis", f, p)
<1> SUFFICES ASSUME NEW f \in {"datapath_4", "datapath_3"}, NEW p \in Registers!Lane!Calls(f) PROVE Okay("cmis", f, p)
  OBVIOUS
<1>1. \E v \in 0..1 : \/ p \in Registers!Lane!set_datapath_init(v) \/ p \in Registers!Lane!set_datapath_deinit(v)
                      \/ p \in Registers!Lane!get_datapath_deinit
  BY DEF Registers!Lane!Calls
<1>2. \A x, s, g : Registers!Lane!Program(x, s, g).todo = s /\ Registers!Lane!Program(x, s, g).goal = g
  BY LaneWords
<1>3. \A m, c : Registers!Lane!IsSet("deinit", Registers!Lane!All(m, c)) = Setting0("deinit", Same(m, c))
  BY LaneWords
<1>4. \/ \E m \in Masks, c \in 0..1 : p.todo = DeinitSteps(m, c) /\ p.goal = Setting0("deinit", Same(m, c))
      \/ p.todo = <<Made("get", "deinit", <<>>, "stop")>> /\ p.goal = Registers!Nothing
  <2>1. PICK v \in 0..1 : \/ p \in Registers!Lane!set_datapath_init(v) \/ p \in Registers!Lane!set_datapath_deinit(v)
                          \/ p \in Registers!Lane!get_datapath_deinit
    BY <1>1
  <2>2. 1 - v \in 0..1
    OBVIOUS
  <2>3. ASSUME NEW x, NEW m \in Masks, NEW c \in 0..1,
               p = Registers!Lane!Program(x, Registers!Lane!SetDeinit(m, c), Registers!Lane!IsSet("deinit", Registers!Lane!All(m, c)))
        PROVE  p.todo = DeinitSteps(m, c) /\ p.goal = Setting0("deinit", Same(m, c))
    <3>1. p.todo = Registers!Lane!SetDeinit(m, c) /\ p.goal = Registers!Lane!IsSet("deinit", Registers!Lane!All(m, c))
      BY <1>2, <2>3, ZenonT(60)
    <3> QED BY <1>3, <3>1, DeinitWords, Zenon
  <2>4. CASE p \in Registers!Lane!set_datapath_init(v)
    <3>1. PICK m \in Masks : p = Registers!Lane!Program("set_datapath_init", Registers!Lane!SetDeinit(m, 1 - v),
                                                        Registers!Lane!IsSet("deinit", Registers!Lane!All(m, 1 - v)))
      BY <2>4 DEF Registers!Lane!set_datapath_init
    <3> DEFINE c == 1 - v
    <3>2. c \in 0..1
      BY <2>2
    <3>3. p = Registers!Lane!Program("set_datapath_init", Registers!Lane!SetDeinit(m, c),
                                     Registers!Lane!IsSet("deinit", Registers!Lane!All(m, c)))
      BY <3>1, Zenon
    <3> HIDE DEF c
    <3> QED BY <2>3, <3>2, <3>3
  <2>5. CASE p \in Registers!Lane!set_datapath_deinit(v)
    <3>1. PICK m \in Masks : p = Registers!Lane!Program("set_datapath_deinit", Registers!Lane!SetDeinit(m, v),
                                                        Registers!Lane!IsSet("deinit", Registers!Lane!All(m, v)))
      BY <2>5 DEF Registers!Lane!set_datapath_deinit
    <3> QED BY <2>3, <3>1
  <2>6. CASE p \in Registers!Lane!get_datapath_deinit
    BY <2>6, LaneWords DEF Registers!Lane!get_datapath_deinit
  <2> QED BY <2>1, <2>4, <2>5, <2>6
<1>5. CASE \E m \in Masks, c \in 0..1 : p.todo = DeinitSteps(m, c) /\ p.goal = Setting0("deinit", Same(m, c))
  <2>1. PICK m \in Masks, c \in 0..1 : p.todo = DeinitSteps(m, c) /\ p.goal = Setting0("deinit", Same(m, c))
    BY <1>5
  <2>2. m \in SUBSET Lanes /\ Same(m, c) \in Fillings /\ DOMAIN Same(m, c) = m
    BY LanesFew
  <2>3. /\ Plainly(f, "deinit") /\ "deinit" \notin Registers!Measurements /\ FieldsOf(f, "deinit") = Lanes
        /\ Merging(f, DeinitSteps(m, c), "deinit", Same(m, c))
    BY <2>2, DeinitMerging
  <2> QED BY <2>1, <2>2, <2>3, MergingOkay
<1>6. CASE p.todo = <<Made("get", "deinit", <<>>, "stop")>> /\ p.goal = Registers!Nothing
  <2>1. Plainly(f, "deinit")
    <3>1. {} \in SUBSET Lanes /\ 0 \in 0..1
      OBVIOUS
    <3> QED BY <3>1, DeinitMerging
  <2> QED BY <1>6, <2>1, ReadingOkay DEF Losses
<1> QED BY <1>4, <1>5, <1>6

(* Power. *)
LEMMA JoinMerging ==
    ASSUME NEW f, NEW s, NEW t, NEW r, NEW v, Merging(f, s, r, v), Ordinary(f, t),
           \A y \in Elems(t) : y.do \notin {"aim", "put", "merge"}
    PROVE  Merging(f, s \o t, r, v)
<1>1. Ordinary(f, s)
  BY DEF Merging
<1>2. Ordinary(f, s \o t)
  BY <1>1, JoinOrdinary, Zenon
<1>3. \A a \in Elems(s \o t) : a \in Elems(s) \/ a \in Elems(t)
  BY <1>1, JoinElems, Zenon
<1>4. \A a \in Elems(s) : a \in Elems(s \o t)
  BY <1>1, JoinElems, Zenon
<1> QED BY <1>2, <1>3, <1>4 DEF Merging

LowPower(low) == IF low THEN Same({4}, 1) ELSE Same({4, 6}, 0)
PowerSteps(low) ==
    <<Made("need", "adv", At0(1), "stop"), Made("get", "ctrl", <<>>, "stop"), Made("merge", "ctrl", LowPower(low), "ignore")>>
StateOf(x) == [k \in {0, 1} |-> IF k = 0 THEN x ELSE 0]
Awaiting(x) == Made("await", "mstate", StateOf(x), "stop")

LEMMA PowerWords ==
    ASSUME NEW p \in Registers!Lane!set_lpmode
    PROVE  \E low \in BOOLEAN : /\ p.goal = Setting0("ctrl", LowPower(low))
                                /\ \/ p.todo = PowerSteps(low)
                                   \/ \E x \in 0..1 : p.todo = PowerSteps(low) \o <<Awaiting(x)>>
<1> DEFINE s(low) == <<Registers!Lane!Supported, Registers!Lane!Get("ctrl"),
                       Registers!Lane!Ignoring(Registers!Lane!Merge("ctrl", Registers!Lane!LpMode(low)))>>
           w(low) == Registers!Lane!wait_time_condition(IF low THEN Registers!Lane!ModuleLowPwr ELSE Registers!Lane!ModuleReady)
           g(low) == Registers!Lane!IsSet("ctrl", Registers!Lane!LpMode(low))
<1>1. Registers!Lane!set_lpmode
        = {Registers!Lane!Program("set_lpmode", s(low) \o IF wait THEN w(low) ELSE <<>>, g(low)) : low \in BOOLEAN, wait \in BOOLEAN}
  BY DEF Registers!Lane!set_lpmode
<1>2. \A low \in BOOLEAN : Registers!Lane!LpMode(low) = LowPower(low)
  <2>1. \A v : Registers!Lane!:>(4, v) = Same({4}, v) /\ Registers!Lane!:>(6, v) = Same({6}, v)
    BY LaneWords
  <2>2. Registers!Lane!@@(Same({4}, 0), Same({6}, 0)) = Same({4, 6}, 0)
    BY DEF Registers!Lane!@@, Same
  <2> QED BY <2>1, <2>2 DEF Registers!Lane!LpMode, LowPower, Registers!Lane!LowPwrRequestSW,
        Registers!Lane!LowPwrAllowRequestHW, Registers!Lane!On, Registers!Lane!Off
<1>3. \A low \in BOOLEAN : s(low) = PowerSteps(low)
  <2> SUFFICES ASSUME NEW low \in BOOLEAN PROVE s(low) = PowerSteps(low)
    OBVIOUS
  <2> DEFINE a == Made("need", "adv", At0(1), "stop") b == Made("get", "ctrl", <<>>, "stop")
             e == Made("merge", "ctrl", LowPower(low), "ignore")
  <2>1. Registers!Lane!Supported = a /\ Registers!Lane!Get("ctrl") = b
    BY LaneWords DEF Registers!Lane!Supported
  <2>2. Registers!Lane!Ignoring(Registers!Lane!Merge("ctrl", LowPower(low))) = e
    BY LaneWords
  <2>3. PowerSteps(low) = <<a, b, e>>
    BY DEF PowerSteps
  <2>4. Registers!Lane!LpMode(low) = LowPower(low)
    BY <1>2
  <2> HIDE DEF a, b, e
  <2> QED BY <2>1, <2>2, <2>3, <2>4, Zenon
<1>4. \A low \in BOOLEAN : g(low) = Setting0("ctrl", LowPower(low))
  BY <1>2, LaneWords
<1>5. \A low \in BOOLEAN : \E x \in 0..1 : w(low) = <<Awaiting(x)>>
  <2>1. \A x : Registers!Lane!wait_time_condition(x) = <<Awaiting(x)>>
    <3> SUFFICES ASSUME NEW x PROVE Registers!Lane!wait_time_condition(x) = <<Awaiting(x)>>
      OBVIOUS
    <3>1. Registers!Lane!:>(0, x) = Same({0}, x) /\ Registers!Lane!:>(1, 0) = Same({1}, 0)
      BY LaneWords
    <3>2. Registers!Lane!@@(Same({0}, x), Same({1}, 0)) = StateOf(x)
      BY DEF Registers!Lane!@@, Same, StateOf
    <3>3. Registers!Lane!Await("mstate", StateOf(x)) = Awaiting(x)
      BY LaneWords DEF Awaiting
    <3> HIDE DEF s, w, g
    <3> QED BY <3>1, <3>2, <3>3, Zenon DEF Registers!Lane!wait_time_condition, Registers!Lane!Moving, Registers!Lane!Off
  <2> SUFFICES ASSUME NEW low \in BOOLEAN PROVE \E x \in 0..1 : w(low) = <<Awaiting(x)>>
    OBVIOUS
  <2>2. w(low) = <<Awaiting(IF low THEN 0 ELSE 1)>>
    BY <2>1, Zenon DEF Registers!Lane!ModuleLowPwr, Registers!Lane!ModuleReady
  <2>3. (IF low THEN 0 ELSE 1) \in 0..1
    OBVIOUS
  <2> HIDE DEF w
  <2> QED BY <2>2, <2>3
<1>6. \A x, t, h : Registers!Lane!Program(x, t, h).todo = t /\ Registers!Lane!Program(x, t, h).goal = h
  BY LaneWords
<1> HIDE DEF s, w, g
<1>7. PICK low \in BOOLEAN, wait \in BOOLEAN :
        p = Registers!Lane!Program("set_lpmode", s(low) \o IF wait THEN w(low) ELSE <<>>, g(low))
  BY <1>1
<1>8. PICK x \in 0..1 : w(low) = <<Awaiting(x)>>
  BY <1>5
<1>9. p.goal = Setting0("ctrl", LowPower(low))
  <2>1. p.goal = g(low)
    BY <1>6, <1>7, ZenonT(60)
  <2> QED BY <1>4, <2>1
<1>10. wait = TRUE \/ wait = FALSE
  BY Zenon
<1>11. CASE wait = TRUE
  <2>1. p = Registers!Lane!Program("set_lpmode", s(low) \o w(low), g(low))
    BY <1>7, <1>11, Zenon
  <2>2. p.todo = s(low) \o w(low)
    BY <1>6, <2>1, Zenon
  <2>3. s(low) = PowerSteps(low)
    BY <1>3
  <2>4. p.todo = PowerSteps(low) \o <<Awaiting(x)>>
    BY <1>8, <2>2, <2>3, Zenon
  <2> QED BY <1>9, <2>4
<1>12. CASE wait = FALSE
  <2>1. p = Registers!Lane!Program("set_lpmode", s(low) \o <<>>, g(low))
    BY <1>7, <1>12, Zenon
  <2>2. p.todo = s(low) \o <<>>
    BY <1>6, <2>1, Zenon
  <2>3. s(low) = PowerSteps(low)
    BY <1>3
  <2>4. PowerSteps(low) \o <<>> = PowerSteps(low)
    <3> DEFINE a == Made("need", "adv", At0(1), "stop") b == Made("get", "ctrl", <<>>, "stop")
               e == Made("merge", "ctrl", LowPower(low), "ignore")
    <3>1. PowerSteps(low) = <<a, b, e>>
      BY DEF PowerSteps
    <3> HIDE DEF a, b, e
    <3>2. <<a, b, e>> \in Seq({a, b, e})
      OBVIOUS
    <3> QED BY <3>1, <3>2, ConcatEmptySeq
  <2>5. p.todo = PowerSteps(low)
    BY <2>2, <2>3, <2>4, Zenon
  <2> QED BY <1>9, <2>5
<1> QED BY <1>10, <1>11, <1>12

LEMMA LanePower == \A p \in Registers!Lane!Calls("power") : Okay("cmis", "power", p)
<1> DEFINE f == "power"
<1> SUFFICES ASSUME NEW p \in Registers!Lane!Calls(f) PROVE Okay("cmis", f, p)
  OBVIOUS
<1>1. /\ Plainly(f, "adv") /\ Plainly(f, "ctrl") /\ FieldsOf(f, "ctrl") = {3, 4, 6} /\ "ctrl" \notin Registers!Measurements
      /\ Plainly(f, "mstate")
  <2> DEFINE m == [x \in {0, 1} |-> 1 - x] c == [x \in {3, 4, 6} |-> IF x = 6 THEN 1 ELSE 0]
  <2>1. Registers!Fresh(f) = [r \in {"adv", "mstate", "ctrl"} |-> IF r = "adv" THEN At0(1) ELSE IF r = "mstate" THEN m ELSE c]
    BY LaneRegisters
  <2>2. DOMAIN c = {3, 4, 6}
    OBVIOUS
  <2> HIDE DEF m, c
  <2> QED BY <2>1, <2>2 DEF Plainly, Regs, FieldsOf, Names, Registers!Measurements
<1>2. f \notin {"mux", "flaps", "either_side"} /\ At0(1) \in Fillings
  <2>1. At0(1) \in Fillings
    BY EndsFew, At0Of
  <2> QED BY <2>1
<1>3. \A low \in BOOLEAN : /\ LowPower(low) \in Fillings /\ DOMAIN LowPower(low) \subseteq {3, 4, 6}
                           /\ Merging(f, PowerSteps(low), "ctrl", LowPower(low))
  <2> SUFFICES ASSUME NEW low \in BOOLEAN
               PROVE  /\ LowPower(low) \in Fillings /\ DOMAIN LowPower(low) \subseteq {3, 4, 6}
                      /\ Merging(f, PowerSteps(low), "ctrl", LowPower(low))
    OBVIOUS
  <2>1. /\ Same({4}, 1) \in Fillings /\ DOMAIN Same({4}, 1) = {4}
        /\ Same({4, 6}, 0) \in Fillings /\ DOMAIN Same({4, 6}, 0) = {4, 6}
    BY SameFilling DEF Contents
  <2>2. LowPower(low) \in Fillings /\ DOMAIN LowPower(low) \subseteq {3, 4, 6}
    BY <2>1 DEF LowPower
  <2> HIDE DEF f
  <2>3. Merging(f, <<Made("need", "adv", At0(1), "stop"), Made("get", "ctrl", <<>>, "stop"),
                     Made("merge", "ctrl", LowPower(low), "ignore")>>, "ctrl", LowPower(low))
    BY <1>1, <1>2, <2>2, ChannelMerging DEF Losses
  <2> QED BY <2>2, <2>3, Zenon DEF PowerSteps
<1>4. \A x \in 0..1 : Awaiting(x) \in Fitting(f) /\ Awaiting(x).do = "await" /\ Awaiting(x).reg = "mstate"
  <2> SUFFICES ASSUME NEW x \in 0..1 PROVE Awaiting(x) \in Fitting(f) /\ Awaiting(x).do = "await" /\ Awaiting(x).reg = "mstate"
    OBVIOUS
  <2>1. StateOf(x) \in Fillings
    <3>1. StateOf(x) \in [{0, 1} -> Contents]
      BY DEF StateOf, Contents
    <3>2. {0, 1} \in SUBSET Nat
      OBVIOUS
    <3> QED BY <3>1, <3>2 DEF Fillings
  <2> HIDE DEF f
  <2>2. Awaiting(x) \in Fitting(f)
    BY <1>1, <2>1, ReadFits DEF Plainly, Losses, Awaiting
  <2> QED BY <2>2 DEF Awaiting, Made
<1>5. CASE p \in Registers!Lane!set_lpmode
  <2>1. PICK low \in BOOLEAN : /\ p.goal = Setting0("ctrl", LowPower(low))
                               /\ \/ p.todo = PowerSteps(low)
                                  \/ \E x \in 0..1 : p.todo = PowerSteps(low) \o <<Awaiting(x)>>
    BY <1>5, PowerWords
  <2>2. LowPower(low) \in Fillings /\ DOMAIN LowPower(low) \subseteq FieldsOf(f, "ctrl")
        /\ Merging(f, PowerSteps(low), "ctrl", LowPower(low))
    BY <1>1, <1>3
  <2> HIDE DEF f
  <2>3. CASE p.todo = PowerSteps(low)
    BY <1>1, <2>1, <2>2, <2>3, MergingOkay
  <2>4. CASE \E x \in 0..1 : p.todo = PowerSteps(low) \o <<Awaiting(x)>>
    <3>1. PICK x \in 0..1 : p.todo = PowerSteps(low) \o <<Awaiting(x)>>
      BY <2>4
    <3> DEFINE a == Awaiting(x) F == Fitting(f)
    <3>2. a \in F /\ a.do = "await" /\ a.reg = "mstate"
      BY <1>4
    <3> HIDE DEF a
    <3>3. Ordinary(f, <<a>>)
      BY <1>2, <3>2, OneOrdinary
    <3> HIDE DEF F
    <3>4. \A y \in Elems(<<a>>) : y.do \notin {"aim", "put", "merge"}
      <4>1. Elems(<<a>>) = {a}
        BY ONLY <3>2, OneStep
      <4> QED BY ONLY <3>2, <4>1
    <3>5. Merging(f, PowerSteps(low) \o <<a>>, "ctrl", LowPower(low))
      BY <2>2, <3>3, <3>4, JoinMerging
    <3>6. p.todo = PowerSteps(low) \o <<a>>
      BY <3>1 DEF a
    <3> QED BY <1>1, <2>1, <2>2, <3>5, <3>6, MergingOkay
  <2> QED BY <2>1, <2>3, <2>4
<1>6. CASE p \in Registers!Lane!get_lpmode
  <2> DEFINE a == Made("need", "adv", At0(1), "stop") b == Made("get", "mstate", <<>>, "stop")
  <2>1. Registers!Lane!Supported = a /\ Registers!Lane!Get("mstate") = b
    BY LaneWords DEF Registers!Lane!Supported
  <2> HIDE DEF a, b
  <2>2. p = Registers!Lane!Program("get_lpmode", <<a, b>>, Registers!Lane!Nothing)
    BY <1>6, <2>1, Zenon DEF Registers!Lane!get_lpmode
  <2>3. \A x, s, g : Registers!Lane!Program(x, s, g).todo = s /\ Registers!Lane!Program(x, s, g).goal = g
    BY LaneWords
  <2>4. p.todo = <<a, b>> /\ p.goal = Registers!Lane!Nothing
    BY <2>2, <2>3, ZenonT(60)
  <2>5. Registers!Lane!Nothing = Registers!Nothing
    BY LaneWords
  <2> HIDE DEF f
  <2> QED BY <1>1, <1>2, <2>4, <2>5, LookOkay DEF a, b
<1>7. CASE p \in Registers!Lane!reset
  <2> DEFINE v == [x \in {3, 4, 6} |-> IF x = 3 THEN 1 ELSE 0] a == Made("put", "ctrl", v, "stop")
             b == Made("await", "mstate", Same({1}, 0), "stop")
  <2>1. Registers!Lane!reset_module = a
    <3>1. \A k, x : Registers!Lane!:>(k, x) = Same({k}, x)
      BY LaneWords
    <3>2. Registers!Lane!@@(Registers!Lane!@@(Same({3}, 1), Same({4}, 0)), Same({6}, 0)) = v
      BY DEF Registers!Lane!@@, Same
    <3>3. Registers!Lane!Put("ctrl", v) = a
      BY LaneWords
    <3> HIDE DEF v, a
    <3> QED BY <3>1, <3>2, <3>3, Zenon DEF Registers!Lane!reset_module, Registers!Lane!ResetBit, Registers!Lane!LowPwrRequestSW,
            Registers!Lane!LowPwrAllowRequestHW, Registers!Lane!On, Registers!Lane!Off
  <2>2. Registers!Lane!Await("mstate", Registers!Lane!:>(1, 0)) = b
    BY LaneWords
  <2>3. v \in Fillings /\ DOMAIN v = {3, 4, 6}
    <3>1. v \in [{3, 4, 6} -> Contents]
      BY DEF Contents
    <3>2. {3, 4, 6} \in SUBSET Nat
      OBVIOUS
    <3> QED BY <3>1, <3>2 DEF Fillings
  <2>4. Same({1}, 0) \in Fillings
    BY SameFilling DEF Contents
  <2> HIDE DEF v, f
  <2>5. a \in Fitting(f)
    BY <1>1, <2>3, WriteFits DEF Plainly, Losses
  <2>6. b \in Fitting(f)
    BY <1>1, <2>4, ReadFits DEF Plainly, Losses
  <2>7. a.do = "put" /\ a.reg = "ctrl" /\ b.do = "await" /\ b.reg = "mstate"
    BY DEF Made
  <2> HIDE DEF a, b
  <2>8. Ordinary(f, <<a, b>>)
    BY <1>2, <2>5, <2>6, <2>7, TwoOrdinary
  <2>9. p = Registers!Lane!Program("reset", <<a, b>>, Registers!Lane!Nothing)
    BY <1>7, <2>1, <2>2, Zenon DEF Registers!Lane!reset, Registers!Lane!Moving, Registers!Lane!Off
  <2>10. \A x, s, g : Registers!Lane!Program(x, s, g).todo = s /\ Registers!Lane!Program(x, s, g).goal = g
    BY LaneWords
  <2>11. p.todo = <<a, b>> /\ p.goal = Registers!Lane!Nothing
    BY <2>9, <2>10, ZenonT(60)
  <2>12. Registers!Lane!Nothing = Registers!Nothing
    BY LaneWords
  <2> QED BY <2>8, <2>11, <2>12, NothingOkay
<1> QED BY <1>5, <1>6, <1>7 DEF Registers!Lane!Calls

(* Applications and signal integrity: lane by lane. *)
LEMMA StageWords ==
    /\ \A m, c : Registers!Lane!StageApplication(m, c) = Staged("app", m, c, "ignore")
    /\ \A r, m, c : Registers!Lane!scs_lane_write(r, m, c) = Staged(r, m, c, "stop")
<1>1. \A r, l, c : Registers!Lane!Put(r, Registers!Lane!:>(l, c)) = Made("put", r, Same({l}, c), "stop")
  BY LaneWords
<1>2. \A l, c : Registers!Lane!Ignoring(Registers!Lane!Put("app", Registers!Lane!:>(l, c))) = Made("put", "app", Same({l}, c), "ignore")
  BY LaneWords
<1>3. \A m : Registers!Lane!Cardinality(m) = Cardinality(m)
  BY SameSets
<1>4. \A m, c : Registers!Lane!StageApplication(m, c)
        = [i \in 1..Registers!Lane!Cardinality(m) |->
             Registers!Lane!Ignoring(Registers!Lane!Put("app", Registers!Lane!:>(Registers!Lane!Ascending(m)[i], c)))]
  BY DEF Registers!Lane!StageApplication, Registers!Lane!PerLane
<1>5. \A r, m, c : Registers!Lane!scs_lane_write(r, m, c)
        = [i \in 1..Registers!Lane!Cardinality(m) |->
             Registers!Lane!Put(r, Registers!Lane!:>(Registers!Lane!Ascending(m)[i], c))]
  BY DEF Registers!Lane!scs_lane_write, Registers!Lane!PerLane
<1>6. \A m, c : Registers!Lane!StageApplication(m, c)
        = [i \in 1..Cardinality(m) |-> Made("put", "app", Same({Registers!Lane!Ascending(m)[i]}, c), "ignore")]
  BY <1>2, <1>3, <1>4
<1>7. \A r, m, c : Registers!Lane!scs_lane_write(r, m, c)
        = [i \in 1..Cardinality(m) |-> Made("put", r, Same({Registers!Lane!Ascending(m)[i]}, c), "stop")]
  BY <1>1, <1>3, <1>5
<1> QED BY <1>6, <1>7 DEF Staged

LEMMA OneQuiet ==
    ASSUME NEW f, f # "either_side", NEW a \in Fitting(f), a.do \notin {"merge", "lock", "unlock", "aim"}, a.reg # "target"
    PROVE  Orderly(f, <<a>>) /\ <<a>> # <<>> /\ \A q : (a.do = "put" => a.reg # q) => Avoids(<<a>>, q)
<1>1. Ordinary(f, <<a>>)
  BY OneOrdinary
<1> DEFINE F == Fitting(f)
<1>2. a \in F
  OBVIOUS
<1> HIDE DEF F
<1>3. Elems(<<a>>) = {a}
  BY ONLY <1>2, OneStep
<1>4. \A q : (a.do = "put" => a.reg # q) => Avoids(<<a>>, q)
  BY <1>3 DEF Avoids
<1> QED BY <1>1, <1>4 DEF Orderly

LEMMA TwoQuiet ==
    ASSUME NEW f, f # "either_side", NEW a \in Fitting(f), NEW b \in Fitting(f), a.do \in {"get", "need", "await"},
           b.do \in {"get", "need", "await"}, a.reg # "target", b.reg # "target"
    PROVE  Orderly(f, <<a, b>>) /\ \A q : Avoids(<<a, b>>, q)
<1>1. Ordinary(f, <<a, b>>)
  BY TwoOrdinary
<1> DEFINE F == Fitting(f)
<1>2. a \in F /\ b \in F
  OBVIOUS
<1> HIDE DEF F
<1>3. Elems(<<a, b>>) = {a, b}
  BY ONLY <1>2, TwoSteps
<1>4. \A q : Avoids(<<a, b>>, q)
  BY <1>3 DEF Avoids
<1> QED BY <1>1, <1>4 DEF Orderly

LEMMA GivesOkay ==
    ASSUME NEW d, NEW f, NEW s, Orderly(f, s), NEW r, Plainly(f, r), r \notin Registers!Measurements, FieldsOf(f, r) = Lanes,
           NEW m \in SUBSET Lanes, NEW c \in 0..1, Gives(s, r, m, c), NEW p, p.todo = s, p.goal = Setting0(r, Same(m, c))
    PROVE  Okay(d, f, p)
<1>1. CASE s = <<>>
  BY <1>1 DEF Okay
<1>2. CASE s # <<>>
  <2>1. Ordinary(f, s)
    BY <1>2 DEF Orderly
  <2> DEFINE v == Same(m, c)
  <2>2. v \in Fillings /\ DOMAIN v = m
    BY LanesFew
  <2>3. \A k \in m : v[k] = c
    BY DEF Same
  <2>4. p.goal = Setting0(r, v)
    OBVIOUS
  <2> HIDE DEF v
  <2>5. \A a \in Elems(s) : /\ a.do # "aim"
                            /\ a.do \in {"put", "merge"} /\ a.reg = r => \A k \in DOMAIN a.val : k \in DOMAIN v /\ a.val[k] = v[k]
    BY <2>2, <2>3 DEF Gives
  <2>6. \A k \in DOMAIN v : \E a \in Elems(s) : a.do \in {"put", "merge"} /\ a.reg = r /\ k \in DOMAIN a.val
    BY <2>2 DEF Gives
  <2> QED BY <2>1, <2>2, <2>4, <2>5, <2>6, SetOkay
<1> QED BY <1>1, <1>2

LEMMA ApplicationRegisters ==
    LET f == "application"
    IN /\ \A r \in {"adv", "deinit", "app", "dp", "config"} : Plainly(f, r) /\ r \notin Registers!Measurements
       /\ \A r \in {"deinit", "app", "dp", "config"} : FieldsOf(f, r) = Lanes
       /\ "apply" \in Regs(f) /\ FieldsOf(f, "apply") = {0} /\ f # "either_side"
<1>1. Registers!Fresh("application") = [r \in {"adv", "deinit", "app", "dp", "config", "apply"} |->
               IF r = "adv" THEN At0(1) ELSE IF r = "apply" THEN At0(0) ELSE IF r = "config" THEN Row(1) ELSE Row(0)]
  BY LaneRegisters
<1>2. DOMAIN At0(0) = {0} /\ DOMAIN Row(0) = Lanes /\ DOMAIN Row(1) = Lanes
  BY DEF At0, Row
<1> QED BY <1>1, <1>2 DEF Plainly, Regs, FieldsOf, Names, Registers!Measurements

LEMMA AppStaged ==
    ASSUME NEW m \in SUBSET Lanes, NEW c \in 0..1
    PROVE  LET s == Staged("app", m, c, "ignore") IN Orderly("application", s) /\ Gives(s, "app", m, c)
<1> DEFINE f == "application" x == "ignore" r == "app"
<1>1. r \in (Regs(f) \cap Names) \ ({"target", "apply"} \cup Registers!Measurements) /\ Lanes = FieldsOf(f, r) /\ f # "either_side"
  BY ApplicationRegisters DEF Plainly
<1>2. c \in Contents
  BY DEF Contents
<1>4. x \in Losses
  BY DEF Losses
<1> HIDE DEF f, x, r
<1>5. Orderly(f, Staged(r, m, c, x))
  BY ONLY <1>1, <1>2, <1>4, StageOf
<1>6. Gives(Staged(r, m, c, x), r, m, c)
  BY ONLY <1>1, <1>2, <1>4, StageOf
<1> QED BY <1>5, <1>6 DEF f, r, x

(* Of every lane, after its data paths are taken down, and the module's      *)
(* answer awaited.                                                           *)
LEMMA DecommissionOkay ==
    ASSUME NEW d, NEW p, p.goal = Setting0("app", Same(Lanes, 0)),
           p.todo = DeinitSteps(Lanes, 1) \o Staged("app", Lanes, 0, "ignore") \o <<Made("put", "apply", At0(1), "ignore")>>
                        \o <<Made("need", "dp", Row(0), "stop"), Made("need", "config", Row(1), "stop")>>
    PROVE  Okay(d, "application", p)
<1> DEFINE f == "application" s == DeinitSteps(Lanes, 1) t == Staged("app", Lanes, 0, "ignore")
           e == Made("put", "apply", At0(1), "ignore") a == Made("need", "dp", Row(0), "stop")
           b == Made("need", "config", Row(1), "stop")
<1>0. f # "either_side" /\ Lanes \in SUBSET Lanes /\ 0 \in 0..1 /\ 1 \in 0..1
  OBVIOUS
<1>1. /\ \A r \in {"adv", "deinit", "app", "dp", "config"} : Plainly(f, r) /\ r \notin Registers!Measurements
      /\ \A r \in {"deinit", "app", "dp", "config"} : FieldsOf(f, r) = Lanes
      /\ "apply" \in Regs(f) /\ FieldsOf(f, "apply") = {0}
  BY ApplicationRegisters
<1>2. Orderly(f, s) /\ Avoids(s, "app")
  <2>1. Merging(f, s, "deinit", Same(Lanes, 1))
    BY <1>0, DeinitMerging
  <2> HIDE DEF s, f
  <2> QED BY <2>1 DEF Merging, Orderly, Avoids
<1>3. Orderly(f, t) /\ Gives(t, "app", Lanes, 0)
  BY <1>0, AppStaged
<1>4. e \in Fitting(f) /\ e.do = "put" /\ e.reg = "apply"
  <2>1. e \in Fitting(f)
    BY <1>1, ApplyFits DEF Losses
  <2> QED BY <2>1 DEF Made
<1>5. Row(0) \in Fillings /\ Row(1) \in Fillings
  <2>1. Same(Lanes, 0) \in Fillings /\ Same(Lanes, 1) \in Fillings
    BY <1>0, LanesFew
  <2> QED BY <2>1 DEF Row, Same
<1> HIDE DEF f
<1>6. a \in Fitting(f) /\ b \in Fitting(f)
  <2>1. a \in Fitting(f)
    BY <1>1, <1>5, ReadFits DEF Plainly, Losses
  <2>2. b \in Fitting(f)
    BY <1>1, <1>5, ReadFits DEF Plainly, Losses
  <2> QED BY <2>1, <2>2
<1>7. a.do = "need" /\ a.reg = "dp" /\ b.do = "need" /\ b.reg = "config"
  BY DEF Made
<1> HIDE DEF a, b, e, s, t
<1>8. Orderly(f, <<e>>) /\ Avoids(<<e>>, "app")
  BY <1>0, <1>4, OneQuiet
<1>9. Orderly(f, <<a, b>>) /\ Avoids(<<a, b>>, "app")
  BY <1>0, <1>6, <1>7, TwoQuiet
<1> DEFINE u == <<e>> v == <<a, b>> x == s \o t y == x \o u z == y \o v
<1>10. p.todo = z
  BY DEF a, b, e, s, t
<1> HIDE DEF u, v
<1>11. Orderly(f, x) /\ Gives(x, "app", Lanes, 0)
  <2>1. Orderly(f, x)
    BY <1>2, <1>3, JoinOrderly, Zenon
  <2>2. Gives(x, "app", Lanes, 0)
    BY <1>2, <1>3, JoinGives, Zenon
  <2> QED BY <2>1, <2>2
<1> HIDE DEF x
<1>12. Orderly(f, y) /\ Gives(y, "app", Lanes, 0)
  <2>0. Orderly(f, u) /\ Avoids(u, "app")
    BY <1>8 DEF u
  <2>1. Orderly(f, y)
    BY <1>11, <2>0, JoinOrderly, Zenon
  <2>2. Gives(y, "app", Lanes, 0)
    BY <1>11, <2>0, JoinGives, Zenon
  <2> QED BY <2>1, <2>2
<1> HIDE DEF y
<1>13. Orderly(f, z) /\ Gives(z, "app", Lanes, 0)
  <2>0. Orderly(f, v) /\ Avoids(v, "app")
    BY <1>9 DEF v
  <2>1. Orderly(f, z)
    BY <1>12, <2>0, JoinOrderly, Zenon
  <2>2. Gives(z, "app", Lanes, 0)
    BY <1>12, <2>0, JoinGives, Zenon
  <2> QED BY <2>1, <2>2
<1> HIDE DEF z
<1>14. Plainly(f, "app") /\ "app" \notin Registers!Measurements /\ FieldsOf(f, "app") = Lanes
  BY <1>1
<1>15. Okay(d, f, p)
  BY <1>0, <1>10, <1>13, <1>14, GivesOkay
<1> QED BY <1>15 DEF f

LEMMA LaneApplication == \A p \in Registers!Lane!Calls("application") : Okay("cmis", "application", p)
<1> DEFINE f == "application"
<1> SUFFICES ASSUME NEW p \in Registers!Lane!Calls(f) PROVE Okay("cmis", f, p)
  OBVIOUS
<1>1. /\ \A r \in {"adv", "deinit", "app", "dp", "config"} : Plainly(f, r) /\ r \notin Registers!Measurements
      /\ \A r \in {"deinit", "app", "dp", "config"} : FieldsOf(f, r) = Lanes
      /\ "apply" \in Regs(f) /\ FieldsOf(f, "apply") = {0} /\ f # "either_side"
  BY ApplicationRegisters
<1>2. \A x, s, g : Registers!Lane!Program(x, s, g).todo = s /\ Registers!Lane!Program(x, s, g).goal = g
  BY LaneWords
<1>3. \/ p \in Registers!Lane!set_application \/ p \in Registers!Lane!get_application
      \/ p \in Registers!Lane!scs_apply_datapath_init \/ p \in Registers!Lane!decommission_all_datapaths(1)
      \/ p \in Registers!Lane!get_error_description
  BY DEF Registers!Lane!Calls
<1>4. CASE p \in Registers!Lane!set_application
  <2>1. PICK m \in Masks, c \in 0..1 :
          p = Registers!Lane!Program("set_application", Registers!Lane!StageApplication(m, c),
                                     Registers!Lane!IsSet("app", Registers!Lane!All(m, c)))
    BY <1>4 DEF Registers!Lane!set_application
  <2>2. p.todo = Registers!Lane!StageApplication(m, c) /\ p.goal = Registers!Lane!IsSet("app", Registers!Lane!All(m, c))
    BY <1>2, <2>1, ZenonT(60)
  <2>3. Registers!Lane!StageApplication(m, c) = Staged("app", m, c, "ignore")
    BY StageWords
  <2>4. Registers!Lane!IsSet("app", Registers!Lane!All(m, c)) = Setting0("app", Same(m, c))
    BY LaneWords
  <2>5. p.todo = Staged("app", m, c, "ignore") /\ p.goal = Setting0("app", Same(m, c))
    BY <2>2, <2>3, <2>4, Zenon
  <2>6. m \in SUBSET Lanes
    BY LanesFew
  <2>7. Orderly(f, Staged("app", m, c, "ignore")) /\ Gives(Staged("app", m, c, "ignore"), "app", m, c)
    BY <2>6, AppStaged
  <2>8. Plainly(f, "app") /\ "app" \notin Registers!Measurements /\ FieldsOf(f, "app") = Lanes
    BY <1>1
  <2> HIDE DEF f
  <2> QED BY <2>5, <2>6, <2>7, <2>8, GivesOkay
<1>5. CASE p \in Registers!Lane!get_application
  <2>1. p.todo = <<Made("get", "app", <<>>, "stop")>> /\ p.goal = Registers!Nothing
    BY <1>5, LaneWords DEF Registers!Lane!get_application
  <2>2. Plainly(f, "app")
    BY <1>1
  <2> QED BY <2>1, <2>2, ReadingOkay DEF Losses
<1>6. CASE p \in Registers!Lane!scs_apply_datapath_init
  <2> DEFINE a == Made("put", "apply", At0(1), "stop")
  <2>1. Registers!Lane!Put("apply", Registers!Lane!One(1)) = a
    BY LaneWords
  <2>2. a \in Fitting(f) /\ a.do = "put" /\ a.reg = "apply"
    <3>1. a \in Fitting(f)
      BY <1>1, ApplyFits DEF Losses
    <3> QED BY <3>1 DEF Made
  <2> HIDE DEF a
  <2>3. p = Registers!Lane!Program("scs_apply_datapath_init", <<a>>, Registers!Lane!Nothing)
    BY <1>6, <2>1, Zenon DEF Registers!Lane!scs_apply_datapath_init
  <2>4. p.todo = <<a>> /\ p.goal = Registers!Lane!Nothing
    BY <1>2, <2>3, ZenonT(60)
  <2>5. Registers!Lane!Nothing = Registers!Nothing
    BY LaneWords
  <2>6. Ordinary(f, <<a>>)
    BY <1>1, <2>2, OneOrdinary
  <2> QED BY <2>4, <2>5, <2>6, NothingOkay
<1>7. CASE p \in Registers!Lane!decommission_all_datapaths(1)
  <2> DEFINE e == Made("put", "apply", At0(1), "ignore") a == Made("need", "dp", Row(0), "stop")
             b == Made("need", "config", Row(1), "stop")
  <2>1. Registers!Lane!Ignoring(Registers!Lane!Put("apply", Registers!Lane!One(1))) = e
    BY LaneWords
  <2>2. /\ Registers!Lane!Need("dp", Registers!Lane!All(Lanes, Registers!Lane!Off)) = a
        /\ Registers!Lane!Need("config", Registers!Lane!All(Lanes, 1)) = b
    <3>1. Same(Lanes, 0) = Row(0) /\ Same(Lanes, 1) = Row(1)
      BY DEF Same, Row
    <3> QED BY <3>1, LaneWords DEF Registers!Lane!Off
  <2>3. Registers!Lane!IsSet("app", Registers!Lane!All(Lanes, 0)) = Setting0("app", Same(Lanes, 0))
    BY LaneWords
  <2> HIDE DEF a, b, e
  <2> DEFINE s == Registers!Lane!SetDeinit(Lanes, 1) t == Registers!Lane!StageApplication(Lanes, 0)
  <2>4. p = Registers!Lane!Program("decommission_all_datapaths", s \o t \o <<e>> \o <<a, b>>,
                                   Registers!Lane!IsSet("app", Registers!Lane!All(Lanes, 0)))
    BY <1>7, <2>1, <2>2, Zenon DEF Registers!Lane!decommission_all_datapaths
  <2>5. s = DeinitSteps(Lanes, 1) /\ t = Staged("app", Lanes, 0, "ignore")
    BY DeinitWords, StageWords
  <2> HIDE DEF s, t
  <2>6. p.todo = s \o t \o <<e>> \o <<a, b>> /\ p.goal = Registers!Lane!IsSet("app", Registers!Lane!All(Lanes, 0))
    BY <1>2, <2>4, ZenonT(60)
  <2>7. /\ p.todo = DeinitSteps(Lanes, 1) \o Staged("app", Lanes, 0, "ignore") \o <<e>> \o <<a, b>>
        /\ p.goal = Setting0("app", Same(Lanes, 0))
    BY <2>3, <2>5, <2>6, Zenon
  <2> QED BY <2>7, DecommissionOkay DEF a, b, e
<1>8. CASE p \in Registers!Lane!get_error_description
  <2> DEFINE a == Made("get", "dp", <<>>, "stop") b == Made("get", "config", <<>>, "stop") e == Made("get", "app", <<>>, "stop")
  <2>1. Registers!Lane!Get("dp") = a /\ Registers!Lane!Get("config") = b /\ Registers!Lane!Get("app") = e
    BY LaneWords
  <2>2. a.do = "get" /\ a.reg = "dp" /\ b.do = "get" /\ b.reg = "config" /\ e.do = "get" /\ e.reg = "app"
    BY DEF Made
  <2> HIDE DEF f
  <2>3. a \in Fitting(f)
    BY <1>1, EmptyFilling, ReadFits DEF Plainly, Losses
  <2>4. b \in Fitting(f)
    BY <1>1, EmptyFilling, ReadFits DEF Plainly, Losses
  <2>5. e \in Fitting(f)
    BY <1>1, EmptyFilling, ReadFits DEF Plainly, Losses
  <2> HIDE DEF a, b, e
  <2>6. p = Registers!Lane!Program("get_error_description", <<a, b, e>>, Registers!Lane!Nothing)
    BY <1>8, <2>1, Zenon DEF Registers!Lane!get_error_description
  <2>7. p.todo = <<a, b, e>> /\ p.goal = Registers!Lane!Nothing
    BY <1>2, <2>6, ZenonT(60)
  <2>8. Registers!Lane!Nothing = Registers!Nothing
    BY LaneWords
  <2>9. Ordinary(f, <<a, b, e>>)
    BY <1>1, <2>2, <2>3, <2>4, <2>5, ThreeOrdinary
  <2> QED BY <2>7, <2>8, <2>9, NothingOkay
<1> QED BY <1>3, <1>4, <1>5, <1>6, <1>7, <1>8

LEMMA StagingRegisters ==
    /\ \A r \in {"adv", "rxsi", "txsi"} : Plainly("staging", r) /\ r \notin Registers!Measurements
    /\ \A r \in {"rxsi", "txsi"} : FieldsOf("staging", r) = Lanes /\ r \in (Regs("staging") \cap Names) \ ({"target", "apply"} \cup Registers!Measurements)
<1>1. Registers!Fresh("staging") = [r \in {"adv", "rxsi", "txsi"} |-> IF r = "adv" THEN At0(1) ELSE Row(0)]
  BY LaneRegisters
<1> QED BY <1>1 DEF Plainly, Regs, FieldsOf, Names, Row, Registers!Measurements

(* The settings of one side. *)
LEMMA SettingsOf ==
    ASSUME NEW r \in {"rxsi", "txsi"}, NEW q \in {"rxsi", "txsi"}, q # r, NEW m \in SUBSET Lanes,
           NEW t \in {<<>>, Registers!Lane!WithMaximum(r, m, 1), Registers!Lane!scs_lane_write(r, m, 1)}
    PROVE  /\ Orderly("staging", t)
           /\ t # <<>> => Gives(t, r, m, 1)
           /\ Avoids(t, q)
<1> DEFINE f == "staging" a == Made("need", "adv", At0(1), "stop") s == Staged(r, m, 1, "stop") u == <<a>> w == u \o s
<1>0. f # "either_side"
  OBVIOUS
<1>1. t = <<>> \/ t = w \/ t = s
  <2>1. Registers!Lane!scs_lane_write(r, m, 1) = s
    BY StageWords
  <2>2. <<Registers!Lane!Need("adv", Registers!Lane!One(1))>> = u
    <3>1. Registers!Lane!Need("adv", Registers!Lane!One(1)) = a
      BY LaneWords
    <3> HIDE DEF a
    <3> QED BY <3>1
  <2> HIDE DEF u, s
  <2>3. Registers!Lane!WithMaximum(r, m, 1) = w
    BY <2>1, <2>2, Zenon DEF Registers!Lane!WithMaximum
  <2> HIDE DEF w
  <2> QED BY <2>1, <2>3
<1>2. Orderly(f, s) /\ Gives(s, r, m, 1) /\ Avoids(s, q)
  <2> DEFINE x == "stop" c == 1
  <2>1. r \in (Regs(f) \cap Names) \ ({"target", "apply"} \cup Registers!Measurements) /\ Lanes = FieldsOf(f, r)
    BY StagingRegisters
  <2>2. c \in Contents /\ x \in Losses /\ s = Staged(r, m, c, x)
    BY DEF Contents, Losses
  <2> HIDE DEF f, s, x, c
  <2>3. Orderly(f, Staged(r, m, c, x))
    BY ONLY <1>0, <2>1, <2>2, StageOf
  <2>4. Gives(Staged(r, m, c, x), r, m, c)
    BY ONLY <1>0, <2>1, <2>2, StageOf
  <2>5. \A y : y # r => Avoids(Staged(r, m, c, x), y)
    BY ONLY <1>0, <2>1, <2>2, StageOf
  <2>6. Avoids(s, q)
    BY <2>2, <2>5
  <2> QED BY <2>2, <2>3, <2>4, <2>6 DEF c
<1>3. a \in Fitting(f) /\ a.do = "need" /\ a.reg = "adv"
  <2>1. At0(1) \in Fillings /\ Plainly(f, "adv")
    BY EndsFew, At0Of, StagingRegisters
  <2> HIDE DEF f
  <2>2. a \in Fitting(f)
    BY <2>1, ReadFits DEF Plainly, Losses
  <2> QED BY <2>2 DEF Made
<1> HIDE DEF a, s, f
<1>4. Orderly(f, u) /\ \A y : Avoids(u, y)
  BY <1>0, <1>3, OneQuiet
<1> HIDE DEF u
<1>5. Orderly(f, w)
  BY <1>2, <1>4, JoinOrderly, Zenon
<1>6. Gives(w, r, m, 1)
  BY <1>2, <1>4, JoinGives, Zenon
<1>7. Avoids(w, q)
  BY <1>2, <1>4, JoinGives, Zenon
<1> HIDE DEF w
<1>8. Orderly(f, <<>>) /\ Avoids(<<>>, q)
  BY DEF Orderly, Avoids, Elems
<1>9. Orderly(f, t) /\ (t # <<>> => Gives(t, r, m, 1)) /\ Avoids(t, q)
  BY <1>1, <1>2, <1>5, <1>6, <1>7, <1>8
<1> QED BY <1>9 DEF f

LEMMA LaneStaging == \A p \in Registers!Lane!Calls("staging") : Okay("cmis", "staging", p)
<1> DEFINE f == "staging"
<1> SUFFICES ASSUME NEW p \in Registers!Lane!Calls(f) PROVE Okay("cmis", f, p)
  OBVIOUS
<1>1. /\ \A r \in {"adv", "rxsi", "txsi"} : Plainly(f, r) /\ r \notin Registers!Measurements
      /\ \A r \in {"rxsi", "txsi"} : FieldsOf(f, r) = Lanes
  BY StagingRegisters
<1> DEFINE a == Made("get", "adv", <<>>, "stop")
           G(m, v, rx, tx) == IF rx # <<>> THEN Registers!Lane!IsSet("rxsi", Registers!Lane!All(m, v))
                              ELSE IF tx # <<>> THEN Registers!Lane!IsSet("txsi", Registers!Lane!All(m, v)) ELSE Registers!Lane!Nothing
           T(rx, tx) == <<Registers!Lane!Get("adv")>> \o rx \o <<Registers!Lane!Get("adv")>> \o tx
<1>2. PICK m \in Masks : \E rx \in Registers!Lane!stage_rx_si_settings(m, 1), tx \in Registers!Lane!stage_tx_si_settings(m, 1) :
        p = Registers!Lane!Program("stage_custom_si_settings", T(rx, tx), G(m, 1, rx, tx))
  <2>1. Registers!Lane!stage_custom_si_settings
          = UNION {{Registers!Lane!Program("stage_custom_si_settings", T(rx, tx), G(m, v, rx, tx)) :
                       rx \in Registers!Lane!stage_rx_si_settings(m, v), tx \in Registers!Lane!stage_tx_si_settings(m, v)}
                   : m \in Masks, v \in {1}}
    BY DEF Registers!Lane!stage_custom_si_settings
  <2>2. p \in Registers!Lane!stage_custom_si_settings
    BY DEF Registers!Lane!Calls
  <2> HIDE DEF T, G
  <2> QED BY <2>1, <2>2
<1>3. PICK rx \in Registers!Lane!stage_rx_si_settings(m, 1), tx \in Registers!Lane!stage_tx_si_settings(m, 1) :
        p = Registers!Lane!Program("stage_custom_si_settings", T(rx, tx), G(m, 1, rx, tx))
  BY <1>2
<1>4. \A x, s, g : Registers!Lane!Program(x, s, g).todo = s /\ Registers!Lane!Program(x, s, g).goal = g
  BY LaneWords
<1>5. m \in SUBSET Lanes
  BY LanesFew
<1>6. Orderly(f, rx) /\ (rx # <<>> => Gives(rx, "rxsi", m, 1)) /\ Avoids(rx, "txsi")
  <2>1. rx \in {<<>>, Registers!Lane!WithMaximum("rxsi", m, 1), Registers!Lane!scs_lane_write("rxsi", m, 1)}
    BY DEF Registers!Lane!stage_rx_si_settings, Registers!Lane!stage_output_eq_pre_cursor_target_rx,
       Registers!Lane!stage_output_eq_post_cursor_target_rx, Registers!Lane!stage_output_amp_target_rx, Registers!Lane!stage_cdr_rx
  <2> QED BY <1>5, <2>1, SettingsOf
<1>7. Orderly(f, tx) /\ (tx # <<>> => Gives(tx, "txsi", m, 1)) /\ Avoids(tx, "rxsi")
  <2>1. tx \in {<<>>, Registers!Lane!WithMaximum("txsi", m, 1), Registers!Lane!scs_lane_write("txsi", m, 1)}
    BY DEF Registers!Lane!stage_tx_si_settings, Registers!Lane!stage_fixed_input_target_tx,
       Registers!Lane!stage_adaptive_input_eq_recall_tx, Registers!Lane!stage_adaptive_input_eq_enable_tx, Registers!Lane!stage_cdr_tx
  <2> QED BY <1>5, <2>1, SettingsOf
<1>8. T(rx, tx) = <<a>> \o rx \o <<a>> \o tx
  <2>1. Registers!Lane!Get("adv") = a
    BY LaneWords
  <2> HIDE DEF a
  <2> QED BY <2>1, Zenon
<1> HIDE DEF T
<1>9. p.todo = <<a>> \o rx \o <<a>> \o tx
  <2>1. p.todo = T(rx, tx)
    BY <1>3, <1>4, Zenon
  <2> HIDE DEF a
  <2> QED BY <1>8, <2>1, Zenon
<1>10. \/ rx # <<>> /\ p.goal = Setting0("rxsi", Same(m, 1))
       \/ rx = <<>> /\ tx # <<>> /\ p.goal = Setting0("txsi", Same(m, 1))
       \/ p.goal = Registers!Nothing
  <2>1. p.goal = G(m, 1, rx, tx)
    <3> HIDE DEF G
    <3> QED BY <1>3, <1>4, ZenonT(60)
  <2>2. /\ Registers!Lane!IsSet("rxsi", Registers!Lane!All(m, 1)) = Setting0("rxsi", Same(m, 1))
        /\ Registers!Lane!IsSet("txsi", Registers!Lane!All(m, 1)) = Setting0("txsi", Same(m, 1))
        /\ Registers!Lane!Nothing = Registers!Nothing
    BY LaneWords
  <2>3. \/ rx # <<>> /\ p.goal = Registers!Lane!IsSet("rxsi", Registers!Lane!All(m, 1))
        \/ rx = <<>> /\ tx # <<>> /\ p.goal = Registers!Lane!IsSet("txsi", Registers!Lane!All(m, 1))
        \/ p.goal = Registers!Lane!Nothing
    BY <2>1, Zenon
  <2> QED BY <2>2, <2>3, Zenon
<1>11. a \in Fitting(f) /\ a.do = "get" /\ a.reg = "adv" /\ f # "either_side"
  <2>0. f # "either_side" /\ Plainly(f, "adv")
    BY <1>1
  <2>1. a \in Fitting(f)
    BY <2>0, EmptyFilling, ReadFits DEF Plainly, Losses
  <2> QED BY <2>0, <2>1 DEF Made
<1> DEFINE u == <<a>> x == u \o rx y == x \o u z == y \o tx
<1> HIDE DEF f, a, G
<1>12. Orderly(f, u) /\ u # <<>> /\ \A q : Avoids(u, q)
  BY <1>11, OneQuiet
<1>13. p.todo = z
  BY <1>9
<1> HIDE DEF u
<1>14. Orderly(f, x) /\ (rx # <<>> => Gives(x, "rxsi", m, 1)) /\ Avoids(x, "txsi") /\ x # <<>>
  <2>1. Orderly(f, x) /\ x # <<>>
    BY <1>6, <1>12, JoinOrderly, Zenon
  <2>2. rx # <<>> => Gives(x, "rxsi", m, 1)
    BY <1>6, <1>12, JoinGives, Zenon
  <2>3. Avoids(x, "txsi")
    BY <1>6, <1>12, JoinGives, Zenon
  <2> QED BY <2>1, <2>2, <2>3
<1> HIDE DEF x
<1>15. Orderly(f, y) /\ (rx # <<>> => Gives(y, "rxsi", m, 1)) /\ Avoids(y, "txsi") /\ y # <<>>
  <2>1. Orderly(f, y) /\ y # <<>>
    BY <1>12, <1>14, JoinOrderly, Zenon
  <2>2. rx # <<>> => Gives(y, "rxsi", m, 1)
    BY <1>12, <1>14, JoinGives, Zenon
  <2>3. Avoids(y, "txsi")
    BY <1>12, <1>14, JoinGives, Zenon
  <2> QED BY <2>1, <2>2, <2>3
<1> HIDE DEF y
<1>16. Orderly(f, z) /\ (rx # <<>> => Gives(z, "rxsi", m, 1)) /\ (tx # <<>> => Gives(z, "txsi", m, 1)) /\ z # <<>>
  <2>1. Orderly(f, z) /\ z # <<>>
    BY <1>7, <1>15, JoinOrderly, Zenon
  <2>2. rx # <<>> => Gives(z, "rxsi", m, 1)
    BY <1>7, <1>15, JoinGives, Zenon
  <2>3. tx # <<>> => Gives(z, "txsi", m, 1)
    BY <1>7, <1>15, JoinGives, Zenon
  <2> QED BY <2>1, <2>2, <2>3
<1> HIDE DEF z
<1>17. CASE rx # <<>> /\ p.goal = Setting0("rxsi", Same(m, 1))
  <2>1. Plainly(f, "rxsi") /\ "rxsi" \notin Registers!Measurements /\ FieldsOf(f, "rxsi") = Lanes /\ 1 \in 0..1
    BY <1>1
  <2> QED BY <1>5, <1>13, <1>16, <1>17, <2>1, GivesOkay
<1>18. CASE tx # <<>> /\ p.goal = Setting0("txsi", Same(m, 1))
  <2>1. Plainly(f, "txsi") /\ "txsi" \notin Registers!Measurements /\ FieldsOf(f, "txsi") = Lanes /\ 1 \in 0..1
    BY <1>1
  <2> QED BY <1>5, <1>13, <1>16, <1>18, <2>1, GivesOkay
<1>19. CASE p.goal = Registers!Nothing
  <2>1. Ordinary(f, z)
    BY <1>16 DEF Orderly
  <2> QED BY <1>13, <1>19, <2>1, NothingOkay
<1> QED BY <1>10, <1>17, <1>18, <1>19

LEMMA LaneCalls == \A f \in Registers!Lane!Families : \A p \in Registers!Lane!Calls(f) : Okay("cmis", f, p)
BY LaneDisable, LaneEitherSide, LaneBothSides, LanePower, LaneDatapath, LaneApplication, LaneStaging DEF Registers!Lane!Families

(* Every call of every driver. *)
LEMMA CallsWhole ==
    ASSUME NEW d \in Registers!Drivers, NEW f \in Registers!Families(d), NEW p \in Registers!Calls(d, f)
    PROVE  p.todo = <<>> \/ Whole(d, f, p.goal, p.todo)
<1>1. Okay(d, f, p)
  BY CredoCalls, LegacyCalls, SimulatedCalls, LaneCalls DEF Registers!Drivers, Registers!Families, Registers!Calls
<1> QED BY <1>1 DEF Okay

-------------------------------------------------------------------------------
(* Every step keeps the invariant. *)
LEMMA RegisterNext == ASSUME RegisterInv, Registers!Next PROVE RegisterInv'
<1>1. ASSUME NEW t \in Threads, Registers!Begin(t) PROVE RegisterInv'
  <2>1. \A p \in Registers!Calls(driver, family) : p.todo = <<>> \/ Whole(driver, family, p.goal, p.todo)
    BY CallsWhole DEF RegisterInv
  <2> QED BY <1>1, <2>1, BeginInv
<1>2. ASSUME NEW t \in Threads,
             Registers!Acquire(t) \/ Registers!AcquireTimesOut(t) \/ Registers!Release(t)
      PROVE RegisterInv'
  BY <1>2, AcquireInv, TimedOutInv, ReleaseInv
<1>3. ASSUME NEW t \in Threads,
             Registers!Write(t) \/ Registers!WriteAgain(t) \/ Registers!Read(t) \/ Registers!Refuse(t) \/ Registers!Lose(t)
      PROVE RegisterInv'
  BY <1>3, WriteInv, WriteAgainInv, ReadInv, RefuseInv, LoseInv
<1> QED BY <1>1, <1>2, <1>3, FinishInv, ReactInv DEF Registers!Next

LEMMA RegisterStutter ==
    ASSUME RegisterInv, UNCHANGED <<family, holder, run, driver, reg>>
    PROVE  RegisterInv'
<1>1. ASSUME NEW t \in Threads PROVE Sane(t)'
  <2>1. run'[t] = run[t] /\ (Inside(t) => holder' = t)
    BY DEF RegisterInv, Sane
  <2> QED BY <2>1, Unmoved
<1> QED BY <1>1 DEF RegisterInv, RegisterContents, Holding, FieldsOf, Regs

(* What it says of the types. *)
LEMMA RegisterTypes == ASSUME RegisterInv PROVE Registers!TypeOK
<1>1. /\ driver \in Registers!Drivers /\ family \in Registers!Families(driver)
      /\ holder \in Threads \cup {Nobody} /\ run \in [Threads -> Works] /\ RegisterContents
      /\ \A t \in Threads : Sane(t)
  BY DEF RegisterInv
<1>2. DOMAIN reg = DOMAIN Registers!Fresh(family)
  BY <1>1 DEF RegisterContents, Regs
<1>3. ASSUME NEW r \in DOMAIN reg
      PROVE  DOMAIN reg[r] = DOMAIN Registers!Fresh(family)[r] /\ Registers!Range(reg[r]) \subseteq 0..Registers!NoResult
  <2>1. reg[r] \in [DOMAIN Registers!Fresh(family)[r] -> Contents]
    BY <1>1, <1>2, <1>3 DEF RegisterContents, Holding, FieldsOf, Regs
  <2> QED BY <2>1 DEF Registers!Range, Registers!NoResult, Contents
<1>4. ASSUME NEW t \in Threads
      PROVE  /\ DOMAIN run[t] = DOMAIN Registers!Idle
             /\ run[t].outer \in {t, Nobody}
             /\ run[t].alone \in BOOLEAN /\ run[t].blind \in BOOLEAN
             /\ run[t].returned \in {"nothing", "ok", "blind", "error"}
             /\ run[t].todo = <<>> => run[t] = [Registers!Idle EXCEPT !.returned = run[t].returned]
  <2> DEFINE w == run[t]
  <2>1. w \in Works /\ Sane(t)
    BY <1>1
  <2>2. DOMAIN w = DOMAIN Registers!Idle
    BY <2>1 DEF Works, Registers!Idle
  <2> QED BY <2>1, <2>2, WorkOf DEF Sane, Registers!Returned
<1> QED BY <1>1, <1>2, <1>3, <1>4 DEF Registers!TypeOK

-------------------------------------------------------------------------------
(* What a step does to the threads: one of them moves, and the others stay   *)
(* in their calls.                                                           *)
Bystands(t) == run'[t].todo = run[t].todo /\ run'[t].returned = run[t].returned
Begins(t) == run[t].todo = <<>> /\ (run'[t].todo = <<>> \/ run'[t].returned = "nothing")
Fails(t) == run'[t].todo = <<>> /\ run'[t].returned \in {"blind", "error"}
Advances(t) ==
    LET T == Tail(run[t].todo)
    IN /\ run[t].todo # <<>> /\ run'[t].todo = T
       /\ T # <<>> => run'[t].returned = run[t].returned
       /\ T = <<>> => run'[t].returned = IF run[t].blind THEN "blind" ELSE "ok"
Moves(t) ==
    \/ Begins(t) /\ reg' = reg
    \/ Fails(t) /\ reg' = reg
    \/ run[t].todo # <<>> /\ Tail(run[t].todo) # <<>> /\ Advances(t) /\ reg' = reg
    \/ Advances(t) /\ Head(run[t].todo).do \notin Registers!Writes /\ reg' = reg
    \/ Advances(t) /\ Head(run[t].todo).do \in Registers!Writes /\ reg' = Registers!Written(t)
OneMoves == \E t \in Threads : Moves(t) /\ \A u \in Threads \ {t} : Bystands(u)
Untold == \A t \in Threads : run[t].todo # <<>> => run[t].returned = "nothing"

LEMMA ReturnedFails ==
    ASSUME NEW t \in Threads, NEW x \in {"blind", "error"}, run'[t] = Registers!Returned(x)
    PROVE  Fails(t)
<1>1. Registers!Returned(x).todo = <<>> /\ Registers!Returned(x).returned = x
  BY ReturnedWork
<1> QED BY <1>1 DEF Fails

LEMMA AdvancedMoves ==
    ASSUME run \in [Threads -> Works], NEW t \in Threads, run[t].todo # <<>>, NEW got \in Fillings, NEW v,
           NEW gone \in BOOLEAN,
           v.todo = Registers!Advanced(t, got, gone).todo, v.returned = Registers!Advanced(t, got, gone).returned, run'[t] = v
    PROVE  /\ gone = FALSE => Advances(t)
           /\ gone /\ Tail(run[t].todo) # <<>> => Advances(t)
           /\ gone /\ Tail(run[t].todo) = <<>> => Fails(t)
<1> DEFINE w == run[t] T == Tail(w.todo) n == Registers!Advanced(t, got, gone)
<1>1. /\ T = <<>> => n = Registers!Returned(IF w.blind \/ gone THEN "blind" ELSE "ok")
      /\ T # <<>> => n.todo = T /\ n.returned = w.returned
  BY AdvancedOf
<1> HIDE DEF n
<1>2. T = <<>> => n.todo = <<>> /\ n.returned = IF w.blind \/ gone THEN "blind" ELSE "ok"
  BY <1>1, ReturnedWork
<1> QED BY <1>1, <1>2 DEF Advances, Fails, n

LEMMA ContinueBystands ==
    ASSUME run \in [Threads -> Works], NEW t \in Threads, NEW v, Registers!Continue(t, v)
    PROVE  run'[t] = v /\ \A u \in Threads \ {t} : Bystands(u)
BY DEF Registers!Continue, Bystands

LEMMA DisturbBystands ==
    ASSUME run \in [Threads -> Works], NEW t \in Threads, NEW u \in Threads
    PROVE  LET v == Registers!Disturb(t)[u] IN v.todo = run[u].todo /\ v.returned = run[u].returned
BY DEF Registers!Disturb, Works

LEMMA QuitMoves == ASSUME RegisterInv, NEW t \in Threads, Registers!Quit(t), reg' = reg PROVE OneMoves
<1>1. run'[t] = Registers!Returned("error") /\ \A u \in Threads \ {t} : Bystands(u)
  BY ContinueBystands DEF RegisterInv, Registers!Quit
<1> QED BY <1>1, ReturnedFails DEF OneMoves, Moves

LEMMA BeginMoves == ASSUME RegisterInv, NEW t \in Threads, Registers!Begin(t) PROVE OneMoves
<1>1. PICK p \in Registers!Calls(driver, family) :
          run' = [run EXCEPT ![t] = IF p.todo = <<>> THEN Registers!Returned("ok")
                                    ELSE [Registers!Idle EXCEPT !.todo = p.todo, !.goal = p.goal]]
  BY DEF Registers!Begin
<1>2. reg' = reg /\ run[t].todo = <<>> /\ run \in [Threads -> Works]
  BY DEF Registers!Begin, RegisterInv
<1>3. \A u \in Threads \ {t} : Bystands(u)
  BY <1>1, <1>2 DEF Bystands
<1>4. run'[t] = IF p.todo = <<>> THEN Registers!Returned("ok") ELSE [Registers!Idle EXCEPT !.todo = p.todo, !.goal = p.goal]
  BY <1>1, <1>2
<1>5. run'[t].todo = <<>> \/ run'[t].returned = "nothing"
  <2>1. CASE p.todo = <<>>
    BY <1>4, <2>1, ReturnedWork
  <2>2. CASE p.todo # <<>>
    BY <1>4, <2>2 DEF Registers!Idle
  <2> QED BY <2>1, <2>2
<1> QED BY <1>2, <1>3, <1>5 DEF OneMoves, Moves, Begins

LEMMA WriteMoves == ASSUME RegisterInv, NEW t \in Threads, Registers!Write(t) PROVE OneMoves
<1> DEFINE n == Registers!Advanced(t, run[t].got, FALSE)
<1>1. /\ run[t].todo # <<>> /\ Head(run[t].todo).do \in Registers!Writes /\ reg' = Registers!Written(t)
      /\ run' = [Registers!Disturb(t) EXCEPT ![t] = n]
  BY DEF Registers!Write, Registers!Doing, Registers!Step
<1>2. run \in [Threads -> Works] /\ run[t].got \in Fillings
  BY WorkOf DEF RegisterInv
<1>3. run'[t] = n /\ \A u \in Threads \ {t} : run'[u] = Registers!Disturb(t)[u]
  BY <1>1 DEF Registers!Disturb
<1>4. \A u \in Threads \ {t} : Bystands(u)
  BY <1>2, <1>3, DisturbBystands DEF Bystands
<1>5. Advances(t)
  BY <1>1, <1>2, <1>3, AdvancedMoves
<1> QED BY <1>1, <1>4, <1>5 DEF OneMoves, Moves

LEMMA ReadMoves == ASSUME RegisterInv, NEW t \in Threads, Registers!Read(t) PROVE OneMoves
<1>1. /\ run[t].todo # <<>> /\ Head(run[t].todo).do \in Registers!Reads /\ reg' = reg
      /\ Registers!Continue(t, Registers!Advanced(t, reg[Head(run[t].todo).reg], FALSE))
  BY DEF Registers!Read, Registers!Doing, Registers!Step
<1>2. run \in [Threads -> Works]
  BY DEF RegisterInv
<1>3. Head(run[t].todo).do \notin Registers!Writes
  BY <1>1 DEF Registers!Reads, Registers!Writes
<1>4. reg[Head(run[t].todo).reg] \in Fillings
  <2>1. Head(run[t].todo).reg \in Regs(family)
    BY <1>1, StepOf DEF Fits, Registers!Reads
  <2> QED BY <2>1, Held
<1>5. Advances(t) /\ \A u \in Threads \ {t} : Bystands(u)
  <2> DEFINE got == reg[Head(run[t].todo).reg] n == Registers!Advanced(t, got, FALSE)
  <2>1. run'[t] = n /\ \A u \in Threads \ {t} : Bystands(u)
    BY <1>1, <1>2, ContinueBystands
  <2>2. run[t].todo # <<>> /\ got \in Fillings
    BY <1>1, <1>4
  <2> HIDE DEF got
  <2>3. Advances(t)
    BY <1>2, <2>1, <2>2, AdvancedMoves
  <2> QED BY <2>1, <2>3
<1> QED BY <1>1, <1>3, <1>5 DEF OneMoves, Moves

LEMMA LockMoves ==
    ASSUME RegisterInv, NEW t \in Threads, Registers!Acquire(t) \/ Registers!AcquireTimesOut(t) \/ Registers!Release(t)
    PROVE  OneMoves
<1>1. run \in [Threads -> Works] /\ run[t].got \in Fillings /\ <<>> \in Fillings
  BY WorkOf DEF RegisterInv, Fillings
<1>2. CASE Registers!Acquire(t)
  <2> DEFINE n == Registers!Advanced(t, <<>>, FALSE) v == [n EXCEPT !.alone = TRUE, !.outer = holder]
  <2>1. run[t].todo # <<>> /\ Head(run[t].todo).do = "lock" /\ reg' = reg /\ Registers!Continue(t, v)
    BY <1>2 DEF Registers!Acquire, Registers!Doing, Registers!Step
  <2>2. n \in Works
    BY <1>1, <2>1, AdvancedOf
  <2>3. v.todo = n.todo /\ v.returned = n.returned
    <3> HIDE DEF n
    <3> QED BY <2>2 DEF Works
  <2>4. run'[t] = v /\ \A u \in Threads \ {t} : Bystands(u)
    BY <1>1, <2>1, ContinueBystands
  <2>5. Advances(t)
    <3> HIDE DEF v
    <3> QED BY <1>1, <2>1, <2>3, <2>4, AdvancedMoves
  <2> QED BY <2>1, <2>4, <2>5 DEF OneMoves, Moves, Registers!Writes
<1>3. CASE Registers!AcquireTimesOut(t)
  <2>1. run'[t] = Registers!Returned("error") /\ \A u \in Threads \ {t} : Bystands(u)
    BY <1>1, <1>3, ContinueBystands DEF Registers!AcquireTimesOut
  <2> QED BY <1>3, <2>1, ReturnedFails DEF OneMoves, Moves, Registers!AcquireTimesOut
<1>4. CASE Registers!Release(t)
  <2>1. run[t].todo # <<>> /\ Head(run[t].todo).do = "unlock" /\ reg' = reg
        /\ Registers!Continue(t, Registers!Advanced(t, run[t].got, FALSE))
    BY <1>4 DEF Registers!Release, Registers!Doing, Registers!Step
  <2>2. Advances(t) /\ \A u \in Threads \ {t} : Bystands(u)
    BY <1>1, <2>1, AdvancedMoves, ContinueBystands
  <2> QED BY <2>1, <2>2 DEF OneMoves, Moves, Registers!Writes
<1> QED BY <1>2, <1>3, <1>4

LEMMA LoseMoves == ASSUME RegisterInv, NEW t \in Threads, Registers!Lose(t) PROVE OneMoves
<1>1. run \in [Threads -> Works] /\ run[t].got \in Fillings /\ run[t].todo # <<>> /\ reg' = reg
  BY WorkOf DEF RegisterInv, Registers!Lose, Registers!Doing
<1>2. CASE Registers!Continue(t, Registers!Advanced(t, run[t].got, TRUE))
  <2>1. /\ Tail(run[t].todo) # <<>> => Advances(t)
        /\ Tail(run[t].todo) = <<>> => Fails(t)
        /\ \A u \in Threads \ {t} : Bystands(u)
    BY <1>1, <1>2, AdvancedMoves, ContinueBystands
  <2> QED BY <1>1, <2>1 DEF OneMoves, Moves
<1>3. CASE Registers!Quit(t)
  BY <1>1, <1>3, QuitMoves
<1>4. CASE Registers!Continue(t, Registers!Returned("error"))
  <2>1. run'[t] = Registers!Returned("error") /\ \A u \in Threads \ {t} : Bystands(u)
    BY <1>1, <1>4, ContinueBystands
  <2> QED BY <1>1, <2>1, ReturnedFails DEF OneMoves, Moves
<1> QED BY <1>2, <1>3, <1>4 DEF Registers!Lose

LEMMA MovesOf ==
    ASSUME RegisterInv, Registers!Next
    PROVE  (\A u \in Threads : Bystands(u)) \/ OneMoves
<1>1. ASSUME NEW t \in Threads, Registers!WriteAgain(t) PROVE \A u \in Threads : Bystands(u)
  <2>1. run' = Registers!Disturb(t) /\ run \in [Threads -> Works]
    BY <1>1 DEF Registers!WriteAgain, RegisterInv
  <2> QED BY <2>1, DisturbBystands DEF Bystands
<1>2. ASSUME Registers!React PROVE \A u \in Threads : Bystands(u)
  <2>1. run' = [t \in Threads |-> [run[t] EXCEPT !.alone = @ /\ Registers!Survives(run[t].goal)]]
    BY <1>2 DEF Registers!React
  <2>2. run \in [Threads -> Works]
    BY DEF RegisterInv
  <2> HIDE DEF Registers!Survives
  <2> QED BY <2>1, <2>2 DEF Bystands, Works
<1>3. ASSUME Registers!Finish PROVE \A u \in Threads : Bystands(u)
  BY <1>3 DEF Registers!Finish, Bystands
<1>4. ASSUME NEW t \in Threads, Registers!Refuse(t) PROVE OneMoves
  BY <1>4, QuitMoves DEF Registers!Refuse
<1> QED BY <1>1, <1>2, <1>3, <1>4, BeginMoves, LockMoves, WriteMoves, ReadMoves, LoseMoves DEF Registers!Next

(* Nobody who is in a call has been told how it ended. *)
LEMMA UntoldNext == ASSUME RegisterInv, Untold, Registers!Next PROVE Untold'
<1>1. ASSUME NEW t \in Threads, Bystands(t), run'[t].todo # <<>> PROVE run'[t].returned = "nothing"
  BY <1>1 DEF Bystands, Untold
<1>2. ASSUME NEW t \in Threads, Moves(t), run'[t].todo # <<>> PROVE run'[t].returned = "nothing"
  BY <1>2 DEF Moves, Begins, Fails, Advances, Untold
<1> QED BY <1>1, <1>2, MovesOf DEF OneMoves, Untold

LEMMA UntoldBegins == ASSUME Registers!Init PROVE Untold
BY DEF Registers!Init, Registers!Idle, Untold

-------------------------------------------------------------------------------
(* What the steps promise. *)
LEMMA FillingAgain ==
    ASSUME NEW v \in Fillings, NEW f, \A k \in DOMAIN v : f[k] = v[k]
    PROVE  [k \in DOMAIN v |-> f[k]] = v
<1>1. CASE v = <<>>
  <2>1. DOMAIN v = {} /\ v = [i \in {} |-> f[i]]
    BY <1>1, EmptyDomain
  <2> QED BY <2>1
<1>2. CASE v # <<>>
  <2>1. PICK S \in SUBSET Nat : v \in [S -> Contents]
    BY <1>2 DEF Fillings
  <2>2. v = [k \in DOMAIN v |-> v[k]]
    BY <2>1
  <2> QED BY <2>2
<1> QED BY <1>1, <1>2

LEMMA LastOf ==
    ASSUME RegisterInv, NEW t \in Threads, run[t].todo # <<>>, Tail(run[t].todo) = <<>>
    PROVE  LET s == run[t].todo
           IN Head(s) = s[Len(s)] /\ (\A b \in Elems(s) : b = Head(s)) /\ ~\E b \in Elems(Tail(s)) : TRUE
<1> DEFINE s == run[t].todo
<1>1. s \in Seq(Accesses)
  BY WorkOf DEF RegisterInv
<1>2. Head(s) = s[1] /\ Len(s) = 1
  BY <1>1, TailOf
<1> HIDE DEF s
<1>3. \A b \in Elems(s) : b = Head(s)
  BY <1>2 DEF Elems
<1>4. ~\E b \in Elems(<<>>) : TRUE
  BY DEF Elems
<1> QED BY <1>2, <1>3, <1>4 DEF s

(* A call that works alone tells its caller the truth about what it set. *)
LEMMA TellsTruly ==
    ASSUME RegisterInv, Untold, NEW t \in Threads, Moves(t)
    PROVE  Registers!Tells(t)
<1> DEFINE w == run[t] g == w.goal a == Head(w.todo) T == Tail(w.todo)
<1>1. SUFFICES ASSUME w.todo # <<>>, w.alone, g.kind = "set"
      PROVE  /\ \A k \in DOMAIN reg[g.reg] \ DOMAIN g.val : reg'[g.reg][k] = reg[g.reg][k]
             /\ run'[t].returned = "ok" => \A k \in DOMAIN g.val : reg'[g.reg][k] = g.val[k]
  <2>1. g.val \in Fillings
    BY WorkOf DEF RegisterInv
  <2>2. ASSUME \A k \in DOMAIN g.val : reg'[g.reg][k] = g.val[k]
        PROVE  Registers!Restrict(reg'[g.reg], DOMAIN g.val) = g.val
    <3> HIDE DEF g
    <3> QED BY <2>1, <2>2, FillingAgain DEF Registers!Restrict
  <2> QED BY <2>2 DEF Registers!Tells, Registers!Others, Registers!Restrict
<1>2. /\ GotRead(t) /\ GotSet(t) /\ Fits(family, a) /\ a \in Elems(w.todo) /\ Within(g, a)
      /\ Setting(family, g, w.todo)
      /\ \A k \in DOMAIN g.val : Wrong(g, a, k) => \E b \in Elems(T) : Right(g, b, k)
  BY <1>1, StepOf
<1>3. /\ g.reg \in Regs(family) \ (Registers!Measurements \cup {"target"})
      /\ DOMAIN reg[g.reg] = FieldsOf(family, g.reg)
  BY <1>2, Held DEF Setting
<1>4. w.returned # "ok"
  BY <1>1 DEF Untold
<1>5. /\ (\E b \in Elems(w.todo) : b.do = "aim") /\ a.reg # "target" => DOMAIN g.val = {reg["target"][0]}
      /\ ~w.blind => \A k \in DOMAIN g.val : (\E b \in Elems(w.todo) : Right(g, b, k)) \/ reg[g.reg][k] = g.val[k]
  BY <1>1, <1>2 DEF GotSet
<1>6. T = <<>> => (\A b \in Elems(w.todo) : b = a) /\ ~\E b \in Elems(T) : TRUE
  BY <1>1, LastOf
<1>7. Moves(t) /\ run'[t].returned = "ok" => T = <<>> /\ ~w.blind /\ Advances(t)
  BY <1>1, <1>4 DEF Moves, Begins, Fails, Advances
<1>8. CASE reg' = reg /\ (run'[t].returned = "ok" => a.do \notin Registers!Writes)
  <2>1. ASSUME run'[t].returned = "ok", NEW k \in DOMAIN g.val PROVE reg[g.reg][k] = g.val[k]
    <3> HIDE DEF w, g, a, T
    <3>1. T = <<>> /\ ~w.blind
      BY <1>7, <2>1
    <3>2. ~Right(g, a, k)
      BY <1>8, <2>1 DEF Right, Touches
    <3> QED BY <1>5, <1>6, <2>1, <3>1, <3>2
  <2> QED BY <1>8, <2>1
<1>9. CASE a.do \in Registers!Writes /\ reg' = Registers!Written(t)
  <2>1. /\ g.reg # a.reg => reg'[g.reg] = reg[g.reg]
        /\ a.reg = g.reg =>
            /\ a.do = "put" => \A k \in FieldsOf(family, a.reg) :
                                  reg'[a.reg][k] = IF k \in DOMAIN a.val THEN a.val[k] ELSE reg[a.reg][k]
            /\ a.do = "merge" => \A k \in FieldsOf(family, a.reg) :
                                  reg'[a.reg][k] = IF k \in DOMAIN a.val THEN a.val[k] ELSE w.got[k]
            /\ a.do = "aim" => \A k \in FieldsOf(family, a.reg) :
                                  reg'[a.reg][k] = IF k = reg["target"][0] THEN a.val[0] ELSE reg[a.reg][k]
    <3>1. /\ \A r \in Regs(family) : r # a.reg => Registers!Written(t)[r] = reg[r]
          /\ a.reg \in Regs(family) =>
                /\ a.do = "put" => \A k \in FieldsOf(family, a.reg) :
                        Registers!Written(t)[a.reg][k] = IF k \in DOMAIN a.val THEN a.val[k] ELSE reg[a.reg][k]
                /\ a.do = "merge" => \A k \in FieldsOf(family, a.reg) :
                        Registers!Written(t)[a.reg][k] = IF k \in DOMAIN a.val THEN a.val[k] ELSE w.got[k]
                /\ a.do = "aim" => \A k \in FieldsOf(family, a.reg) :
                        Registers!Written(t)[a.reg][k] = IF k = reg["target"][0] THEN a.val[0] ELSE reg[a.reg][k]
      BY ONLY <1>1, <1>9, RegisterInv, t \in Threads, WrittenOf
    <3>2. g.reg \in Regs(family) /\ reg' = Registers!Written(t)
      BY <1>3, <1>9
    <3> HIDE DEF w, g, a, T
    <3> QED BY ONLY <3>1, <3>2
  <2>2. ASSUME NEW k \in DOMAIN reg[g.reg] \ DOMAIN g.val PROVE reg'[g.reg][k] = reg[g.reg][k]
    <3>1. SUFFICES ASSUME a.reg = g.reg PROVE reg'[a.reg][k] = reg[a.reg][k]
      BY <2>1
    <3>2. a.do \in {"put", "merge", "aim"}
      BY <1>2, <1>3, <1>9, <3>1 DEF Fits, Registers!Writes
    <3>3. k \in FieldsOf(family, a.reg)
      BY <1>3, <2>2, <3>1
    <3>4. a.do \in {"put", "merge"} => k \notin DOMAIN a.val
      BY <1>2, <1>9, <2>2, <3>1 DEF Within, Touches
    <3>5. a.do = "merge" => w.got = reg[a.reg]
      BY <1>1, <1>2, <3>1 DEF GotRead
    <3>6. a.do = "aim" => k # reg["target"][0]
      <4>1. a.reg # "target"
        BY <1>3, <3>1
      <4> HIDE DEF w, g, a, T
      <4> QED BY <1>2, <1>5, <2>2, <4>1
    <3> HIDE DEF w, g, a, T
    <3> QED BY <2>1, <3>1, <3>2, <3>3, <3>4, <3>5, <3>6
  <2>3. ASSUME run'[t].returned = "ok", NEW k \in DOMAIN g.val PROVE reg'[g.reg][k] = g.val[k]
    <3>1. /\ Right(g, a, k) => reg'[g.reg][k] = g.val[k]
          /\ ~Right(g, a, k) /\ ~Wrong(g, a, k) => reg'[g.reg][k] = reg[g.reg][k]
      BY <1>1, <1>9, FieldWritten
    <3> HIDE DEF w, g, a, T
    <3>2. T = <<>> /\ ~w.blind
      BY <1>7, <2>3
    <3>3. ~Wrong(g, a, k)
      BY <1>2, <1>6, <3>2
    <3>4. ~Right(g, a, k) => reg[g.reg][k] = g.val[k]
      BY <1>5, <1>6, <3>2
    <3> QED BY <3>1, <3>3, <3>4
  <2> QED BY <2>2, <2>3
<1> QED BY <1>7, <1>8, <1>9 DEF Moves, Advances, Begins, Fails

LEMMA BystanderTells == ASSUME NEW t \in Threads, Bystands(t) PROVE Registers!Tells(t)
BY DEF Bystands, Registers!Tells

LEMMA RegisterTells == ASSUME RegisterInv, Untold, Registers!Next PROVE Registers!AsToldStep
BY MovesOf, TellsTruly, BystanderTells DEF OneMoves, Registers!AsToldStep

(* A measurement that says it is done is of the end that was asked for.      *)
LEMMA AnswersTruly ==
    ASSUME RegisterInv, Untold, NEW t \in Threads, Moves(t), run[t].alone, run[t].goal.kind = "measured",
           run'[t].returned = "ok", run[t].todo # <<>>
    PROVE  Registers!Answer(t) = Registers!Asked(run[t].goal)
<1> DEFINE w == run[t] g == w.goal a == Head(w.todo)
<1>1. Tail(w.todo) = <<>> /\ Advances(t)
  BY DEF Moves, Begins, Fails, Advances, Untold
<1>2. GotMeasured(t) /\ Measuring(family, g, w.todo) /\ MeasuringStep(g, a) /\ Registers!Step(t) = a
  BY StepOf
<1>3. a.do \in {"get", "unlock"}
  BY <1>1, <1>2, LastOf DEF Measuring
<1>4. CASE a.do = "get"
  <2>1. a.reg = g.reg
    BY <1>2, <1>4 DEF MeasuringStep
  <2>2. reg[g.reg][1] = Registers!Asked(g)
    BY <1>2, <1>4 DEF GotMeasured
  <2>3. Registers!Answer(t) = reg[a.reg][1]
    BY <1>2, <1>4 DEF Registers!Answer, Registers!Doing
  <2> QED BY <2>1, <2>2, <2>3
<1>5. CASE a.do = "unlock"
  <2>1. g.reg = "eye"
    BY <1>2, <1>5 DEF MeasuringStep
  <2>2. w.got[1] = g.val[0]
    BY <1>2, <1>5 DEF GotMeasured
  <2>3. Registers!Answer(t) = w.got[1]
    BY <1>2, <1>5 DEF Registers!Answer, Registers!Doing
  <2> QED BY <2>1, <2>2, <2>3 DEF Registers!Asked
<1> QED BY <1>3, <1>4, <1>5

LEMMA RegisterAnswers == ASSUME RegisterInv, Untold, Registers!Next PROVE Registers!AnswerStep
<1>1. ASSUME NEW t \in Threads, Bystands(t), run[t].todo # <<>> PROVE run'[t].returned # "ok"
  BY <1>1 DEF Bystands, Untold
<1> QED BY <1>1, MovesOf, AnswersTruly DEF OneMoves, Registers!AnswerStep

(* On a transceiver without simultaneous loopbacks a call that works alone   *)
(* and reads what it asks for adds no loopback of one side to one of the     *)
(* other.                                                                    *)
LEMMA LoopbackSides ==
    /\ Registers!Lane!Host = {"hostIn", "hostOut"} /\ Registers!Lane!Media = {"mediaIn", "mediaOut"}
    /\ \A r \in Registers!Lane!Host \cup Registers!Lane!Media :
        r \in Regs("either_side") /\ FieldsOf("either_side", r) = Lanes
    /\ \A h \in Registers!Lane!Host : h \notin Registers!Lane!Media /\ Opposite(h) = Registers!Lane!Media
    /\ \A m \in Registers!Lane!Media : m \notin Registers!Lane!Host /\ Opposite(m) = Registers!Lane!Host
BY Reacting DEF Registers!Lane!Host, Registers!Lane!Media, Opposite

LEMMA LoopbackWritten ==
    ASSUME RegisterInv, family = "either_side", NEW t \in Threads, run[t].todo # <<>>, run[t].alone, ~run[t].blind,
           Head(run[t].todo).do \in Registers!Writes, reg' = Registers!Written(t), Registers!BothSides(reg')
    PROVE  Registers!BothSides(reg)
<1> DEFINE w == run[t] g == w.goal a == Head(w.todo) T == Tail(w.todo) H == Registers!Lane!Host M == Registers!Lane!Media
<1>1. /\ Shaped(family, g, w.todo) /\ a \in Elems(w.todo) /\ GotLoops(t)
      /\ T # <<>> => a.do \notin Registers!Writes
  BY StepOf
<1>2. Looping(g, w.todo) /\ T = <<>>
  BY <1>1 DEF Shaped
<1>3. a.do = "merge" /\ a.reg = g.reg /\ a.val = g.val /\ g.reg \in H \cup M /\ g.val \in {Row(0), Row(1)}
  BY <1>1, <1>2 DEF Looping, LoopingStep
<1>4. /\ \A r \in H \cup M : r \in Regs(family) /\ FieldsOf(family, r) = Lanes
      /\ \A h \in H : h \notin M /\ Opposite(h) = M
      /\ \A m \in M : m \notin H /\ Opposite(m) = H
  BY LoopbackSides
<1>5. /\ \A r \in Regs(family) : r # a.reg => reg'[r] = reg[r]
      /\ \A k \in FieldsOf(family, a.reg) : reg'[a.reg][k] = IF k \in DOMAIN a.val THEN a.val[k] ELSE w.got[k]
  BY ZenonT(60), <1>3, <1>4, WrittenOf
<1>6. DOMAIN g.val = Lanes
  BY <1>3 DEF Row
<1>7. PICK h \in H, m \in M : \E l, k \in Lanes : reg'[h][l] = 1 /\ reg'[m][k] = 1
  BY DEF Registers!BothSides
<1>8. PICK l \in Lanes, k \in Lanes : reg'[h][l] = 1 /\ reg'[m][k] = 1
  BY <1>7
<1> HIDE DEF w, g, a, T, H, M
<1>9. \A r \in H \cup M : r # g.reg => reg'[r] = reg[r]
  BY <1>3, <1>4, <1>5
<1>10. \A x \in Lanes : reg'[g.reg][x] = g.val[x]
  BY <1>3, <1>4, <1>5, <1>6
<1>11. CASE g.val = Row(0)
  <2>1. \A x \in Lanes : reg'[g.reg][x] = 0
    BY <1>10, <1>11 DEF Row
  <2>2. h # g.reg /\ m # g.reg
    BY <1>8, <2>1
  <2>3. reg[h][l] = 1 /\ reg[m][k] = 1
    BY <1>7, <1>8, <1>9, <2>2
  <2> QED BY <1>7, <1>8, <2>3 DEF Registers!BothSides, H, M
<1>12. CASE g.val # Row(0)
  <2>1. \A o \in Opposite(g.reg) : (\E b \in Elems(w.todo) : Looks(o, b)) \/ reg[o] = Row(0)
    BY <1>1, <1>12 DEF GotLoops, w, g
  <2>2. \A b \in Elems(w.todo) : b = a
    BY <1>2, LastOf DEF w, a, T
  <2>3. \A o \in Opposite(g.reg) : reg[o] = Row(0)
    BY <1>3, <2>1, <2>2 DEF Looks
  <2>4. \A o \in Opposite(g.reg) : o \in H \cup M /\ o # g.reg
    BY <1>3, <1>4
  <2>5. \A o \in Opposite(g.reg) : \A x \in Lanes : reg'[o][x] = 0
    BY <1>9, <2>3, <2>4 DEF Row
  <2>6. h \in Opposite(g.reg) \/ m \in Opposite(g.reg)
    BY <1>3, <1>4, <1>7
  <2> QED BY <1>8, <2>5, <2>6
<1> QED BY <1>11, <1>12

LEMMA RegisterLoops == ASSUME RegisterInv, Registers!Next PROVE Registers!LoopbackStep
<1>1. SUFFICES ASSUME family = "either_side", NEW t \in Threads, run'[t].todo # run[t].todo, run[t].alone, ~run[t].blind,
                      Registers!BothSides(reg')
               PROVE  Registers!BothSides(reg)
  BY DEF Registers!LoopbackStep
<1>2. Moves(t)
  BY <1>1, MovesOf DEF OneMoves, Bystands
<1>3. CASE reg' = reg
  BY <1>1, <1>3
<1>4. CASE Advances(t) /\ Head(run[t].todo).do \in Registers!Writes /\ reg' = Registers!Written(t)
  BY <1>1, <1>4, LoopbackWritten DEF Advances
<1> QED BY <1>2, <1>3, <1>4 DEF Moves
===============================================================================
