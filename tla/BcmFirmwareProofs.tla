--------------------------- MODULE BcmFirmwareProofs ---------------------------
(***************************************************************************)
(* Proofs about the firmware of the Broadcom driver, for any number of     *)
(* threads, packets and calls.  The invariant says, for each call, what    *)
(* program is left to do and what the exchanges behind it have brought     *)
(* about; every step of every call, the MCU's resets and the failures keep *)
(* it, and the four promises of BcmFirmware follow from it.                *)
(***************************************************************************)
EXTENDS Broadcom, SequenceTheorems, TLAPS

-------------------------------------------------------------------------------
(* Sequences of steps.                                                       *)

Kinds == {"parse", "info", "same", "mark", "start", "packet", "last", "complete", "decide",
          "swap", "warm", "bit", "waitBit0", "wait", "boot"}
Steps == [kind : Kinds, at : Firmware!Dests]
Elems(s) == {s[i] : i \in 1..Len(s)}

(* The tail of a program. *)
LEMMA TailOf ==
    ASSUME NEW s \in Seq(Steps), s # <<>>
    PROVE  /\ Head(s) \in Steps /\ Head(s) = s[1] /\ Len(s) \in Nat \ {0}
           /\ Tail(s) \in Seq(Steps) /\ Len(Tail(s)) = Len(s) - 1
           /\ \A i \in 1..Len(Tail(s)) : Tail(s)[i] = s[i + 1]
           /\ (Tail(s) # <<>> <=> Len(s) > 1)
           /\ Elems(s) = {Head(s)} \cup Elems(Tail(s))
<1>1. Len(s) \in Nat \ {0} /\ Head(s) = s[1] /\ Head(s) \in Steps
  BY EmptySeq, LenProperties, HeadTailProperties
<1>2. Tail(s) \in Seq(Steps) /\ Len(Tail(s)) = Len(s) - 1 /\ \A i \in 1..Len(Tail(s)) : Tail(s)[i] = s[i + 1]
  BY HeadTailProperties
<1>3. Tail(s) # <<>> <=> Len(s) > 1
  <2>1. ASSUME Tail(s) # <<>> PROVE Len(s) > 1
    <3>1. Len(Tail(s)) \in Nat \ {0}
      BY <1>2, <2>1, EmptySeq
    <3> QED BY <1>1, <1>2, <3>1
  <2>2. ASSUME Len(s) > 1 PROVE Tail(s) # <<>>
    <3>1. Len(Tail(s)) # 0
      BY <1>1, <1>2, <2>2
    <3> QED BY ONLY <3>1, EmptySeq
  <2> QED BY <2>1, <2>2
<1>4. \A i \in 1..Len(s) : i = 1 \/ (i - 1 \in 1..Len(Tail(s)) /\ s[i] = Tail(s)[i - 1])
  BY <1>1, <1>2
<1>5. \A i \in 1..Len(Tail(s)) : i + 1 \in 1..Len(s) /\ s[i + 1] = Tail(s)[i]
  BY <1>1, <1>2
<1>6. 1 \in 1..Len(s)
  BY <1>1
<1>7. Elems(s) = {Head(s)} \cup Elems(Tail(s))
  <2> DEFINE T == Tail(s) n == Len(Tail(s))
  <2>1. ASSUME NEW x \in Elems(s) PROVE x \in {Head(s)} \cup Elems(T)
    BY <2>1, <1>1, <1>4 DEF Elems
  <2>2. ASSUME NEW x \in Elems(T) PROVE x \in Elems(s)
    BY <2>2, <1>5 DEF Elems
  <2>3. Head(s) \in Elems(s)
    BY <1>1, <1>6 DEF Elems
  <2> QED BY <2>1, <2>2, <2>3
<1> QED BY <1>1, <1>2, <1>3, <1>7

(* Two programs one after the other. *)
LEMMA ConcatOf ==
    ASSUME NEW s \in Seq(Steps), NEW t \in Seq(Steps)
    PROVE  /\ s \o t \in Seq(Steps) /\ Len(s \o t) = Len(s) + Len(t)
           /\ Len(s) \in Nat /\ Len(t) \in Nat
           /\ \A i \in 1..Len(s) : (s \o t)[i] = s[i]
           /\ \A i \in 1..Len(t) : (s \o t)[Len(s) + i] = t[i]
           /\ (s \o t = <<>> <=> s = <<>> /\ t = <<>>)
           /\ Elems(s \o t) = Elems(s) \cup Elems(t)
<1>1. s \o t \in Seq(Steps) /\ Len(s \o t) = Len(s) + Len(t) /\ Len(s) \in Nat /\ Len(t) \in Nat
  BY ConcatProperties, LenProperties
<1>2. /\ \A i \in 1..Len(s) : (s \o t)[i] = s[i]
      /\ \A i \in 1..Len(t) : (s \o t)[Len(s) + i] = t[i]
  BY <1>1, ConcatProperties
<1>3. s \o t = <<>> <=> s = <<>> /\ t = <<>>
  BY <1>1, EmptySeq
<1>4. Elems(s \o t) = Elems(s) \cup Elems(t)
  <2> DEFINE u == s \o t
  <2>1. ASSUME NEW x \in Elems(u) PROVE x \in Elems(s) \cup Elems(t)
    <3>1. PICK i \in 1..Len(u) : x = u[i]
      BY <2>1 DEF Elems
    <3>2. CASE i \in 1..Len(s)
      BY <3>1, <3>2, <1>2 DEF Elems
    <3>3. CASE i > Len(s)
      <4>1. i - Len(s) \in 1..Len(t) /\ u[Len(s) + (i - Len(s))] = t[i - Len(s)] /\ Len(s) + (i - Len(s)) = i
        BY <3>1, <3>3, <1>1, <1>2
      <4> QED BY <4>1, <3>1 DEF Elems
    <3> QED BY <3>1, <3>2, <3>3, <1>1
  <2>2. ASSUME NEW x \in Elems(s) PROVE x \in Elems(u)
    <3>1. PICK i \in 1..Len(s) : x = s[i]
      BY <2>2 DEF Elems
    <3>2. i \in 1..Len(u) /\ u[i] = x
      BY <3>1, <1>1, <1>2
    <3> QED BY <3>2 DEF Elems
  <2>3. ASSUME NEW x \in Elems(t) PROVE x \in Elems(u)
    <3>1. PICK i \in 1..Len(t) : x = t[i]
      BY <2>3 DEF Elems
    <3>2. Len(s) + i \in 1..Len(u) /\ u[Len(s) + i] = x
      BY <3>1, <1>1, <1>2
    <3> QED BY <3>2 DEF Elems
  <2> QED BY <2>1, <2>2, <2>3
<1> QED BY <1>1, <1>2, <1>3, <1>4

-------------------------------------------------------------------------------
(* The inductive invariant.                                                  *)

(* The variables have their types, the job included. *)
Programs == Seq(Steps)
Answers == [mine : 0..2, bank : [Firmware!Banks -> Firmware!Images]]
Jobs ==
    [todo : Programs, info : [Firmware!Dests -> Answers], verdict : Firmware!Verdicts,
          reset : SUBSET Firmware!Dests, settled : BOOLEAN]
Control ==
    /\ holder \in Threads \cup {Nobody}
    /\ asked \in [Threads -> Firmware!Requests \cup {Firmware!None, Firmware!Some}]
    /\ job \in Jobs /\ out \in Firmware!Verdicts /\ calls \in 0..MaxCalls

Cabled ==
    /\ host \in {"a", "b"} /\ prompt \in BOOLEAN
    /\ cur \in [Firmware!Dests -> Firmware!Banks] /\ next \in [Firmware!Dests -> Firmware!Banks]
    /\ img \in [Firmware!Dests -> [Firmware!Banks -> Firmware!Images]]
    /\ session \in [at : Firmware!Dests \cup {"none"}, packets : 0..Packets]
    /\ bits \subseteq Firmware!Ends /\ dl \in {"idle", "inprogress", "failed"}
TypeInv == Control /\ Cabled

(* The call that has a program is that of the thread with the lock. *)
Owned ==
    /\ \A t \in Threads : asked[t] \in Firmware!Requests => holder = t
    /\ job.todo # <<>> => holder \in Threads /\ asked[holder] \in Firmware!Requests

(* NIC and mux run from banks of the same number and will. *)
Coupled == cur["mux"] = cur["nic"] /\ next["mux"] = next["nic"]

Req == asked[holder]

(* A download: the exchanges of an upgrade follow one another. *)
DownloadKinds == {"parse", "info", "mark", "start", "packet", "last", "complete"}
DownloadShape(s) ==
    \A i \in 1..Len(s) :
        /\ s[i].kind \in DownloadKinds
        /\ s[i].kind = "start" =>
              /\ i + Packets + 1 <= Len(s)
              /\ \A k \in 1..Packets : s[i + k].kind = IF k = Packets THEN "last" ELSE "packet"
              /\ s[i + Packets + 1] = Firmware!Step("complete", s[i].at)
        /\ s[i].kind \in {"packet", "last"} /\ i > 1 => s[i - 1].kind \in {"start", "packet"}
        /\ s[i].kind = "last" => i < Len(s)

Loads(s, p) ==
    \E n \in 0..Packets - 1 :
        /\ n < Len(s) /\ \A k \in 1..n : s[k].kind = "packet"
        /\ s[n + 1].kind = "last"
        /\ p + n + 1 <= Packets

Downloads ==
    /\ DownloadShape(job.todo)
    /\ Head(job.todo).kind \in {"packet", "last"} => Loads(job.todo, session.packets)
    /\ job.settled =>
          /\ next = cur
          /\ \A d \in Firmware!Dests : \/ img[d][Firmware!Inactive(d)] = "new"
                                       \/ Firmware!Step("info", d) \in Elems(job.todo)
                                       \/ Firmware!Step("complete", d) \in Elems(job.todo)

(* An activation or a rollback before its decision. *)
Known(d) ==
    /\ job.info[d].bank = img[d] /\ job.info[d].mine \in Firmware!Banks
    /\ job.settled => job.info[d].mine = cur[d]
AskShape(s) ==
    \A i \in 1..Len(s) : IF i = Len(s) THEN s[i].kind = "decide" ELSE s[i].kind \in {"same", "parse", "info"}
Asks ==
    /\ AskShape(job.todo)
    /\ job.settled => next = cur
    /\ \A d \in Firmware!Dests : Known(d) \/ Firmware!Step("info", d) \in Elems(job.todo)

(* And after it. *)
SwitchShape(s) ==
    \A i \in 1..Len(s) :
        /\ s[i].kind \in {"swap", "warm", "bit", "waitBit0", "boot"} /\ s[i].at \in Firmware!Ends
        /\ s[i].kind = "swap" => i < Len(s) /\ s[i + 1] = Firmware!Step("bit", s[i].at)
        /\ s[i].kind = "bit" => i < Len(s) /\ s[i + 1] = Firmware!Step("waitBit0", s[i].at)
        /\ s[i].kind \in {"waitBit0", "warm"} => i < Len(s) /\ s[i + 1] = Firmware!Step("boot", s[i].at)
        /\ \A j \in 1..Len(s) : i # j => s[i] # s[j]
Performs(e) ==
    IF ~Req.file THEN TRUE
    ELSE IF Req.op = "activate" THEN Firmware!Activation(e) = "perform" ELSE Firmware!Rollback(e) = "perform"
EndOf(d) == IF d = "mux" THEN "nic" ELSE d
Planned(s, e) == Firmware!Step("swap", e) \in Elems(s) \/ Firmware!Step("warm", e) \in Elems(s)
Unmoved(d) == next[d] = Firmware!Mine(d) /\ cur[d] = Firmware!Mine(d)
Switches ==
    LET s == job.todo IN
    /\ SwitchShape(s)
    /\ \A x \in Elems(s) : (x.kind = "warm" => Req.hitless) /\ (x.kind = "swap" => ~Req.hitless)
    /\ \A d \in Firmware!Dests : job.info[d].bank = img[d] /\ job.info[d].mine \in Firmware!Banks
    /\ IF Req.file THEN Firmware!Matches ELSE Firmware!SparesGood
    /\ job.settled =>
          \A d \in Firmware!Dests :
              IF Planned(s, EndOf(d)) THEN Unmoved(d) /\ Performs(EndOf(d))
              ELSE IF ~Performs(EndOf(d)) THEN Unmoved(d)
              ELSE /\ next[d] = Firmware!Other(Firmware!Mine(d))
                   /\ prompt => \/ cur[d] = next[d]
                                \/ /\ Head(s).at = EndOf(d)
                                   /\ Head(s).kind = "bit" \/ EndOf(d) \in bits

Hitless == Head(job.todo) = Firmware!Step("same", "mux") \/ img["mux"][1] = img["mux"][2]

Resets ==
    \/ job.todo = Firmware!reset(Req.at)
    \/ job.todo = <<Firmware!Step("wait", Req.at)>> /\ Req.at \in bits \cup job.reset

Programmed ==
    job.todo # <<>> =>
        /\ Req.op = "download" => Downloads
        /\ Req.op \in {"activate", "rollback"} => Asks \/ Switches
        /\ Req.hitless => Hitless
        /\ Req.op = "version" => \A i \in 1..Len(job.todo) : job.todo[i].kind = "info"
        /\ Req.op = "reset" => Resets

IInv == TypeInv /\ Owned /\ Coupled /\ Programmed

-------------------------------------------------------------------------------
(* The shapes of the programs.                                               *)

(* The last step of a program. *)
LEMMA LastElem ==
    ASSUME NEW s \in Seq(Steps), s # <<>>, Tail(s) = <<>>
    PROVE  Elems(s) = {Head(s)} /\ Len(s) = 1
<1>1. Len(<<>>) = 0 /\ Elems(<<>>) = {}
  BY DEF Elems
<1>2. Elems(s) = {Head(s)} \cup Elems(Tail(s)) /\ Len(Tail(s)) = Len(s) - 1 /\ Len(s) \in Nat
  BY TailOf
<1>3. Elems(Tail(s)) = {} /\ Len(Tail(s)) = 0
  BY <1>1
<1>4. Elems(s) = {Head(s)}
  BY <1>2, <1>3
<1>5. Len(s) = 1
  <2> DEFINE n == Len(s) m == Len(Tail(s))
  <2>1. n \in Nat /\ m = n - 1 /\ m = 0
    BY <1>2, <1>3
  <2> HIDE DEF n, m
  <2>2. n = 1
    BY <2>1
  <2> QED BY <2>2 DEF n
<1> QED BY <1>4, <1>5

(* Its parts, whatever they are. *)
LEMMA StepParts == \A k, d : Firmware!Step(k, d).kind = k /\ Firmware!Step(k, d).at = d
BY DEF Firmware!Step

(* A step has its type, and its parts. *)
LEMMA StepType == \A k \in Kinds, d \in Firmware!Dests : Firmware!Step(k, d) \in Steps
      /\ Firmware!Step(k, d).kind = k /\ Firmware!Step(k, d).at = d
BY DEF Firmware!Step, Steps

(* Programs of one step, and of none. *)
LEMMA OneOf ==
    ASSUME NEW x \in Steps
    PROVE  <<x>> \in Seq(Steps) /\ Len(<<x>>) = 1 /\ <<x>>[1] = x /\ Elems(<<x>>) = {x} /\ Elems(<<>>) = {}
BY DEF Elems

(* The next step is one of the steps. *)
LEMMA HeadIn == ASSUME NEW s \in Seq(Steps), s # <<>> PROVE Head(s) \in Elems(s) /\ Elems(s) # {}
BY TailOf DEF Elems

(* Steps are steps. *)
LEMMA ElemsType == ASSUME NEW s \in Seq(Steps) PROVE Elems(s) \subseteq Steps
<1>1. \A i \in 1..Len(s) : s[i] \in Steps
  BY ElementOfSeq
<1> QED BY <1>1 DEF Elems

(* What is left of a download after a step is one. *)
LEMMA DownloadTail ==
    ASSUME Firmware!FirmwareAssumption, NEW s \in Seq(Steps), s # <<>>, DownloadShape(s)
    PROVE  DownloadShape(Tail(s))
<1>1. /\ Len(s) \in Nat \ {0} /\ Len(Tail(s)) = Len(s) - 1
      /\ \A i \in 1..Len(Tail(s)) : Tail(s)[i] = s[i + 1]
  BY TailOf
<1> DEFINE u == Tail(s)
<1>2. ASSUME NEW i \in 1..Len(u) PROVE u[i].kind \in DownloadKinds
  BY <1>1 DEF DownloadShape
<1>3. ASSUME NEW i \in 1..Len(u), u[i].kind = "start"
      PROVE  /\ i + Packets + 1 <= Len(u)
             /\ \A k \in 1..Packets : u[i + k].kind = IF k = Packets THEN "last" ELSE "packet"
             /\ u[i + Packets + 1] = Firmware!Step("complete", u[i].at)
  <2>1. i + 1 \in 1..Len(s) /\ s[i + 1] = u[i]
    BY <1>1
  <2>2. /\ i + 1 + Packets + 1 <= Len(s)
        /\ \A k \in 1..Packets : s[i + 1 + k].kind = IF k = Packets THEN "last" ELSE "packet"
        /\ s[i + 1 + Packets + 1] = Firmware!Step("complete", u[i].at)
    BY <2>1, <1>3 DEF DownloadShape
  <2>3. \A k \in 1..Packets + 1 : i + k \in 1..Len(u) /\ u[i + k] = s[i + 1 + k]
    BY <1>1, <2>2, Firmware!FirmwareAssumption DEF Firmware!FirmwareAssumption
  <2>4. Packets \in Nat \ {0}
    BY DEF Firmware!FirmwareAssumption
  <2>5. \A k \in 1..Packets : u[i + k] = s[i + 1 + k]
    BY SMTT(60), <2>3, <2>4
  <2>6. u[i + Packets + 1] = s[i + 1 + Packets + 1]
    <3>1. Packets + 1 \in 1..Packets + 1 /\ i + (Packets + 1) = i + Packets + 1
          /\ i + 1 + (Packets + 1) = i + 1 + Packets + 1
      BY <2>4
    <3> QED BY <2>3, <3>1
  <2>7. i + Packets + 1 <= Len(u)
    BY <2>2, <2>4, <1>1
  <2> QED BY ONLY <2>2, <2>5, <2>6, <2>7
<1>4. ASSUME NEW i \in 1..Len(u), u[i].kind \in {"packet", "last"}, i > 1
      PROVE  u[i - 1].kind \in {"start", "packet"}
  BY <1>1, <1>4 DEF DownloadShape
<1>5. ASSUME NEW i \in 1..Len(u), u[i].kind = "last" PROVE i < Len(u)
  BY <1>1, <1>5 DEF DownloadShape
<1> QED BY <1>2, <1>3, <1>4, <1>5 DEF DownloadShape

(* The steps of an upgrade, in order. *)
LEMMA UpgradeOf ==
    ASSUME Firmware!FirmwareAssumption, NEW d \in Firmware!Dests
    PROVE  LET u == Firmware!cable_fw_upgrade(d) IN
           /\ u \in Seq(Steps) /\ Len(u) = Packets + 2
           /\ u[1] = Firmware!Step("start", d) /\ u[Packets + 2] = Firmware!Step("complete", d)
           /\ \A k \in 1..Packets : u[k + 1] = Firmware!Step(IF k = Packets THEN "last" ELSE "packet", d)
<1> DEFINE b == <<Firmware!Step("start", d)>>
           m == [i \in 1..Packets |-> Firmware!Step(IF i = Packets THEN "last" ELSE "packet", d)]
           e == <<Firmware!Step("complete", d)>>
<1>1. Packets \in Nat \ {0}
  BY DEF Firmware!FirmwareAssumption
<1>2. b \in Seq(Steps) /\ Len(b) = 1 /\ b[1] = Firmware!Step("start", d) /\ e \in Seq(Steps) /\ Len(e) = 1
      /\ e[1] = Firmware!Step("complete", d)
  BY StepType, OneOf DEF Kinds
<1>3. m \in Seq(Steps) /\ Len(m) = Packets
  <2>1. \A i \in 1..Packets : Firmware!Step(IF i = Packets THEN "last" ELSE "packet", d) \in Steps
    BY StepType DEF Kinds
  <2>2. m \in [1..Packets -> Steps]
    BY <2>1
  <2>3. m \in Seq(Steps)
    BY <2>1, <1>1, IsASeq
  <2> QED BY <2>2, <2>3, <1>1, LenProperties
<1> HIDE DEF b, m, e
<1>4. /\ b \o m \in Seq(Steps) /\ Len(b \o m) = Packets + 1 /\ (b \o m)[1] = b[1]
      /\ \A k \in 1..Packets : (b \o m)[k + 1] = m[k]
  BY ConcatOf, <1>1, <1>2, <1>3
<1>5. /\ (b \o m) \o e \in Seq(Steps) /\ Len((b \o m) \o e) = Packets + 2
      /\ \A k \in 1..Packets + 1 : ((b \o m) \o e)[k] = (b \o m)[k]
      /\ ((b \o m) \o e)[Packets + 2] = e[1]
  BY SMTT(60), ConcatOf, <1>1, <1>2, <1>4
<1>6. Firmware!cable_fw_upgrade(d) = (b \o m) \o e
  BY DEF Firmware!cable_fw_upgrade, b, m, e
<1>7. \A k \in 1..Packets : m[k] = Firmware!Step(IF k = Packets THEN "last" ELSE "packet", d)
  BY DEF m
<1>8. 1 \in 1..Packets + 1 /\ \A k \in 1..Packets : k + 1 \in 1..Packets + 1
  BY <1>1
<1> QED BY <1>1, <1>2, <1>4, <1>5, <1>6, <1>7, <1>8

(* An upgrade put before what is left of a download, as Info does. *)
LEMMA DownloadConcat ==
    ASSUME Firmware!FirmwareAssumption, NEW d \in Firmware!Dests, NEW s \in Seq(Steps), DownloadShape(s),
           s # <<>> => s[1].kind \notin {"packet", "last"}
    PROVE  LET u == Firmware!cable_fw_upgrade(d) \o s IN
           /\ u \in Seq(Steps) /\ u # <<>> /\ DownloadShape(u)
           /\ Firmware!Step("complete", d) \in Elems(u) /\ Elems(s) \subseteq Elems(u)
           /\ Head(u).kind = "start"
<1> DEFINE c == Firmware!cable_fw_upgrade(d)
           u == c \o s
<1>1. Packets \in Nat \ {0}
  BY DEF Firmware!FirmwareAssumption
<1>2. /\ c \in Seq(Steps) /\ Len(c) = Packets + 2
      /\ c[1] = Firmware!Step("start", d) /\ c[Packets + 2] = Firmware!Step("complete", d)
      /\ \A k \in 1..Packets : c[k + 1] = Firmware!Step(IF k = Packets THEN "last" ELSE "packet", d)
  BY UpgradeOf
<1> HIDE DEF c
<1>3. /\ u \in Seq(Steps) /\ Len(u) = Packets + 2 + Len(s) /\ Len(s) \in Nat
      /\ \A i \in 1..Packets + 2 : u[i] = c[i]
      /\ \A i \in 1..Len(s) : u[Packets + 2 + i] = s[i]
      /\ Elems(u) = Elems(c) \cup Elems(s)
  <2>1. /\ u \in Seq(Steps) /\ Len(u) = Len(c) + Len(s) /\ Len(s) \in Nat
        /\ \A i \in 1..Len(c) : u[i] = c[i]
        /\ \A i \in 1..Len(s) : u[Len(c) + i] = s[i]
        /\ Elems(u) = Elems(c) \cup Elems(s)
    BY ConcatOf, <1>2
  <2> HIDE DEF u
  <2> QED BY <1>2, <2>1
<1> HIDE DEF u
<1>4. /\ u[1] = Firmware!Step("start", d) /\ u[Packets + 2] = Firmware!Step("complete", d)
      /\ \A k \in 1..Packets : u[k + 1] = Firmware!Step(IF k = Packets THEN "last" ELSE "packet", d)
  BY <1>1, <1>2, <1>3
<1>5. \A i \in 1..Len(u) : i = 1 \/ i - 1 \in 1..Packets \/ i = Packets + 2
      \/ (i - Packets - 2 \in 1..Len(s) /\ i > Packets + 2)
  BY <1>1, <1>3
<1>6. \A i \in 1..Len(u) : i > Packets + 2 => u[i] = s[i - Packets - 2]
  <2>1. ASSUME NEW i \in 1..Len(u), i > Packets + 2 PROVE u[i] = s[i - Packets - 2]
    <3>1. i - Packets - 2 \in 1..Len(s) /\ Packets + 2 + (i - Packets - 2) = i
      BY <2>1, <1>1, <1>3
    <3> QED BY <3>1, <1>3
  <2> QED BY <2>1
<1>7. \A k, e : Firmware!Step(k, e).kind = k /\ Firmware!Step(k, e).at = e
  BY DEF Firmware!Step
<1>8. ASSUME NEW i \in 1..Len(u) PROVE u[i].kind \in DownloadKinds
  <2>1. CASE i = 1 \/ i = Packets + 2
    BY <2>1, <1>4, <1>7 DEF DownloadKinds
  <2>2. CASE i - 1 \in 1..Packets
    <3>1. u[(i - 1) + 1] = Firmware!Step(IF i - 1 = Packets THEN "last" ELSE "packet", d) /\ (i - 1) + 1 = i
      BY <2>2, <1>4
    <3> QED BY <3>1, <1>7 DEF DownloadKinds
  <2>3. CASE i > Packets + 2
    BY <2>3, <1>5, <1>6, <1>1 DEF DownloadShape
  <2> QED BY <2>1, <2>2, <2>3, <1>5
<1>9. ASSUME NEW i \in 1..Len(u), u[i].kind = "start"
      PROVE  /\ i + Packets + 1 <= Len(u)
             /\ \A k \in 1..Packets : u[i + k].kind = IF k = Packets THEN "last" ELSE "packet"
             /\ u[i + Packets + 1] = Firmware!Step("complete", u[i].at)
  <2>1. CASE i = 1
    <3>1. \A k \in 1..Packets : u[1 + k].kind = IF k = Packets THEN "last" ELSE "packet"
      BY <1>4, <1>7
    <3> QED BY <2>1, <3>1, <1>1, <1>3, <1>4, <1>7
  <2>2. CASE i > Packets + 2
    <3> DEFINE j == i - Packets - 2
    <3>1. j \in 1..Len(s) /\ s[j] = u[i]
      BY <2>2, <1>5, <1>6, <1>1
    <3>2. /\ j + Packets + 1 <= Len(s)
          /\ \A k \in 1..Packets : s[j + k].kind = IF k = Packets THEN "last" ELSE "packet"
          /\ s[j + Packets + 1] = Firmware!Step("complete", u[i].at)
      BY <3>1, <1>9 DEF DownloadShape
    <3>3. ASSUME NEW k \in 1..Packets + 1 PROVE u[i + k] = s[j + k]
      <4> DEFINE n == i + k
      <4>1. n \in 1..Len(u) /\ n > Packets + 2 /\ n - Packets - 2 = j + k
        <5> DEFINE l == Len(u) m == Len(s)
        <5>1. /\ l = Packets + 2 + m /\ m \in Nat /\ i \in 1..l /\ i > Packets + 2
              /\ i - Packets - 2 + Packets + 1 <= m /\ k \in 1..Packets + 1 /\ Packets \in Nat \ {0}
          BY <2>2, <3>2, <1>1, <1>3
        <5> HIDE DEF l, m
        <5>2. n \in 1..l /\ n > Packets + 2 /\ n - Packets - 2 = j + k
          BY ONLY <5>1 DEF n, j
        <5> QED BY ONLY <5>2 DEF l
      <4> HIDE DEF n
      <4>2. u[n] = s[n - Packets - 2]
        BY <4>1, <1>6
      <4> QED BY ONLY <4>1, <4>2 DEF n
    <3>4. Packets + 1 \in 1..Packets + 1 /\ i + (Packets + 1) = i + Packets + 1
          /\ j + (Packets + 1) = j + Packets + 1
      BY <1>1
    <3>5. u[i + Packets + 1] = s[j + Packets + 1]
      BY <3>3, <3>4
    <3>6. \A k \in 1..Packets : u[i + k] = s[j + k]
      <4>1. \A k \in 1..Packets : k \in 1..Packets + 1
        BY <1>1
      <4> QED BY ONLY <3>3, <4>1
    <3>7. i + Packets + 1 <= Len(u)
      BY <3>2, <1>1, <1>3
    <3> QED BY <3>2, <3>5, <3>6, <3>7
  <2>3. CASE i - 1 \in 1..Packets
    <3>1. u[(i - 1) + 1] = Firmware!Step(IF i - 1 = Packets THEN "last" ELSE "packet", d) /\ (i - 1) + 1 = i
      BY <2>3, <1>4
    <3> QED BY <3>1, <1>7, <1>9
  <2>4. CASE i = Packets + 2
    BY <2>4, <1>4, <1>7, <1>9
  <2> QED BY <2>1, <2>2, <2>3, <2>4, <1>5
<1>10. ASSUME NEW i \in 1..Len(u), u[i].kind \in {"packet", "last"}, i > 1
       PROVE  u[i - 1].kind \in {"start", "packet"}
  <2>1. CASE i - 1 \in 1..Packets
    <3>1. CASE i = 2
      BY <3>1, <1>4, <1>7
    <3>2. CASE i > 2
      <4>1. i - 2 \in 1..Packets /\ i - 2 # Packets /\ (i - 2) + 1 = i - 1
        BY <3>2, <2>1, <1>1
      <4>2. u[(i - 2) + 1] = Firmware!Step("packet", d)
        BY <4>1, <1>4
      <4> QED BY <4>1, <4>2, <1>7
    <3> QED BY <3>1, <3>2, <2>1
  <2>2. CASE i > Packets + 3
    BY <2>2, <1>1, <1>5, <1>6, <1>10 DEF DownloadShape
  <2>3. CASE i = Packets + 3
    BY <2>3, <1>1, <1>5, <1>6, <1>10, EmptySeq
  <2>4. CASE i = Packets + 2
    BY <2>4, <1>4, <1>7, <1>10
  <2> QED BY <2>1, <2>2, <2>3, <2>4, <1>5, <1>10, <1>1
<1>11. ASSUME NEW i \in 1..Len(u), u[i].kind = "last" PROVE i < Len(u)
  <2>1. CASE i > Packets + 2
    BY <2>1, <1>1, <1>3, <1>5, <1>6, <1>11 DEF DownloadShape
  <2> QED BY <2>1, <1>1, <1>3, <1>4, <1>5, <1>7, <1>11
<1>12. DownloadShape(u)
  BY <1>8, <1>9, <1>10, <1>11 DEF DownloadShape
<1>13. u # <<>>
  BY <1>3, <1>1, EmptySeq
<1>14. Head(u).kind = "start" /\ Firmware!Step("complete", d) \in Elems(u)
  <2>1. Packets + 2 \in 1..Len(u)
    BY <1>3, <1>1
  <2>2. Firmware!Step("complete", d) \in Elems(u)
    BY <2>1, <1>4 DEF Elems
  <2> QED BY <2>2, <1>4, <1>7, <1>13, <1>3, TailOf
<1> QED BY <1>3, <1>12, <1>13, <1>14 DEF u, c

(* Before its decision a call has steps left, the decision is the last one. *)
LEMMA AskTail ==
    ASSUME NEW s \in Seq(Steps), s # <<>>, AskShape(s), Head(s).kind # "decide"
    PROVE  Tail(s) # <<>> /\ AskShape(Tail(s))
<1>1. /\ Len(s) \in Nat \ {0} /\ Len(Tail(s)) = Len(s) - 1 /\ Head(s) = s[1]
      /\ \A i \in 1..Len(Tail(s)) : Tail(s)[i] = s[i + 1]
      /\ Tail(s) # <<>> <=> Len(s) > 1
  BY TailOf
<1>2. Len(s) > 1
  <2>1. Len(s) \in 1..Len(s)
    BY <1>1
  <2>2. s[Len(s)].kind = "decide"
    BY <2>1 DEF AskShape
  <2> QED BY <2>2, <1>1
<1>3. \A i \in 1..Len(Tail(s)) : i + 1 \in 1..Len(s) /\ (i = Len(Tail(s)) <=> i + 1 = Len(s))
  BY <1>1
<1> QED BY <1>1, <1>2, <1>3 DEF AskShape

(* Questions with a decision at the end. *)
LEMMA AskConcat ==
    ASSUME NEW s \in Seq(Steps), \A x \in Elems(s) : x.kind \in {"same", "parse", "info"}
    PROVE  s \o <<Firmware!Step("decide", "self")>> # <<>> /\ AskShape(s \o <<Firmware!Step("decide", "self")>>)
<1> DEFINE e == <<Firmware!Step("decide", "self")>>
           u == s \o e
<1>1. e \in Seq(Steps) /\ Len(e) = 1 /\ e[1].kind = "decide"
  BY StepType, OneOf DEF Kinds, Firmware!Dests, Firmware!Ends
<1> HIDE DEF e
<1>2. /\ u \in Seq(Steps) /\ Len(u) = Len(s) + 1 /\ Len(s) \in Nat
      /\ \A i \in 1..Len(s) : u[i] = s[i]
      /\ u[Len(s) + 1] = e[1]
  <2>1. /\ u \in Seq(Steps) /\ Len(u) = Len(s) + Len(e) /\ Len(s) \in Nat
        /\ \A i \in 1..Len(s) : u[i] = s[i]
        /\ \A i \in 1..Len(e) : u[Len(s) + i] = e[i]
    BY ZenonT(60), ConcatOf, <1>1
  <2> HIDE DEF u
  <2> QED BY <2>1, <1>1
<1> HIDE DEF u
<1>3. \A i \in 1..Len(s) : s[i].kind \in {"same", "parse", "info"}
  BY DEF Elems
<1>4. u # <<>>
  BY <1>2, EmptySeq
<1> QED BY <1>1, <1>2, <1>3, <1>4 DEF AskShape, u, e

(* A download that has no upgrade yet. *)
LEMMA DownloadStart ==
    ASSUME NEW s \in Seq(Steps), \A x \in Elems(s) : x.kind \in {"parse", "info", "mark"}
    PROVE  DownloadShape(s)
<1>1. \A i \in 1..Len(s) : s[i].kind \in {"parse", "info", "mark"}
  BY DEF Elems
<1> QED BY <1>1 DEF DownloadShape, DownloadKinds

(* What is left of the switches: a step is not there twice. *)
LEMMA SwitchTail ==
    ASSUME NEW s \in Seq(Steps), s # <<>>, SwitchShape(s)
    PROVE  SwitchShape(Tail(s)) /\ Head(s) \notin Elems(Tail(s))
<1>1. /\ Len(s) \in Nat \ {0} /\ Len(Tail(s)) = Len(s) - 1 /\ Head(s) = s[1]
      /\ \A i \in 1..Len(Tail(s)) : Tail(s)[i] = s[i + 1]
  BY TailOf
<1> DEFINE u == Tail(s)
<1>2. \A i \in 1..Len(u) : i + 1 \in 1..Len(s) /\ u[i] = s[i + 1]
      /\ (i + 1 < Len(s) => u[i + 1] = s[(i + 1) + 1] /\ i < Len(u))
  BY <1>1
<1>3. \A i, j \in 1..Len(u) : i # j => i + 1 # j + 1
  BY <1>1
<1>4. SwitchShape(u)
  BY <1>2, <1>3 DEF SwitchShape
<1>5. ASSUME NEW i \in 1..Len(u) PROVE u[i] # Head(s)
  <2>1. i + 1 \in 1..Len(s) /\ i + 1 # 1 /\ 1 \in 1..Len(s)
    BY <1>1
  <2> QED BY <2>1, <1>1, <1>2 DEF SwitchShape
<1> QED BY <1>4, <1>5 DEF Elems


(* Switches of different ends, one after the other. *)
LEMMA SwitchConcat ==
    ASSUME NEW s \in Seq(Steps), NEW t \in Seq(Steps), SwitchShape(s), SwitchShape(t),
           Elems(s) \cap Elems(t) = {}
    PROVE  SwitchShape(s \o t)
<1> DEFINE u == s \o t
           n == Len(s)
<1>1. /\ Len(u) = n + Len(t) /\ n \in Nat /\ Len(t) \in Nat
      /\ \A i \in 1..n : u[i] = s[i]
      /\ \A i \in 1..Len(t) : u[n + i] = t[i]
  BY ConcatOf
<1> HIDE DEF u, n
<1>2. \A i \in 1..Len(u) : (i \in 1..n /\ u[i] = s[i]) \/ (i - n \in 1..Len(t) /\ u[i] = t[i - n])
  <2>1. ASSUME NEW i \in 1..Len(u), i > n PROVE i - n \in 1..Len(t) /\ u[i] = t[i - n]
    <3>1. i - n \in 1..Len(t) /\ n + (i - n) = i
      BY <2>1, <1>1
    <3> QED BY <3>1, <1>1
  <2> QED BY <2>1, <1>1
<1>3. ASSUME NEW i \in 1..Len(u) PROVE
        /\ u[i].kind \in {"swap", "warm", "bit", "waitBit0", "boot"} /\ u[i].at \in Firmware!Ends
        /\ u[i].kind = "swap" => i < Len(u) /\ u[i + 1] = Firmware!Step("bit", u[i].at)
        /\ u[i].kind = "bit" => i < Len(u) /\ u[i + 1] = Firmware!Step("waitBit0", u[i].at)
        /\ u[i].kind \in {"waitBit0", "warm"} => i < Len(u) /\ u[i + 1] = Firmware!Step("boot", u[i].at)
  <2>1. CASE i \in 1..n /\ u[i] = s[i]
    <3>1. i < n => u[i + 1] = s[i + 1] /\ i < Len(u)
      BY <2>1, <1>1
    <3> QED BY <2>1, <3>1 DEF SwitchShape, n
  <2>2. CASE i - n \in 1..Len(t) /\ u[i] = t[i - n]
    <3> DEFINE j == i - n
    <3>1. j < Len(t) => u[i + 1] = t[j + 1] /\ i < Len(u)
      <4>1. j < Len(t) => j + 1 \in 1..Len(t) /\ n + (j + 1) = i + 1 /\ i < Len(u)
        BY <2>2, <1>1
      <4> QED BY <4>1, <1>1
    <3>2. j \in 1..Len(t) /\ u[i] = t[j]
      BY <2>2
    <3> HIDE DEF j
    <3> QED BY <3>1, <3>2 DEF SwitchShape
  <2> QED BY <2>1, <2>2, <1>2
<1>4. ASSUME NEW i \in 1..Len(u), NEW j \in 1..Len(u), i # j PROVE u[i] # u[j]
  <2>1. \A a \in 1..n, b \in 1..Len(t) : s[a] # t[b]
    BY DEF Elems, n
  <2>2. \A a, b \in 1..n : a # b => s[a] # s[b]
    BY DEF SwitchShape, n
  <2>3. \A a, b \in 1..Len(t) : a # b => t[a] # t[b]
    BY DEF SwitchShape
  <2>4. i - n # j - n
    BY <1>1, <1>4
  <2> QED BY <1>2, <2>1, <2>2, <2>3, <2>4, <1>4
<1> QED BY <1>3, <1>4 DEF SwitchShape, u

(* The switch of an end, with and without a reset. *)
LEMMA ToggleOf ==
    ASSUME NEW e \in Firmware!Ends
    PROVE  /\ LET s == Firmware!cable_fw_bank_toggle(e) IN
              s \in Seq(Steps) /\ s # <<>> /\ SwitchShape(s) /\ Firmware!Step("swap", e) \in Elems(s)
              /\ Elems(s) \subseteq {Firmware!Step("swap", e), Firmware!Step("bit", e),
                  Firmware!Step("waitBit0", e), Firmware!Step("boot", e)}
           /\ LET s == Firmware!cable_fw_warm_boot(e) IN
              s \in Seq(Steps) /\ s # <<>> /\ SwitchShape(s) /\ Firmware!Step("warm", e) \in Elems(s)
              /\ Elems(s) \subseteq {Firmware!Step("warm", e), Firmware!Step("boot", e)}
<1>1. \A k \in Kinds : Firmware!Step(k, e) \in Steps /\ Firmware!Step(k, e).kind = k
      /\ Firmware!Step(k, e).at = e
  BY StepType DEF Firmware!Dests
<1>2. \A k, l : k # l => Firmware!Step(k, e) # Firmware!Step(l, e)
  BY DEF Firmware!Step
<1> DEFINE a == Firmware!Step("swap", e) b == Firmware!Step("bit", e) c == Firmware!Step("waitBit0", e)
           d == Firmware!Step("boot", e) w == Firmware!Step("warm", e)
<1>3. /\ a \in Steps /\ b \in Steps /\ c \in Steps /\ d \in Steps /\ w \in Steps
      /\ a # b /\ a # c /\ a # d /\ b # c /\ b # d /\ c # d /\ w # d
      /\ a.kind = "swap" /\ b.kind = "bit" /\ c.kind = "waitBit0" /\ d.kind = "boot" /\ w.kind = "warm"
      /\ a.at = e /\ b.at = e /\ c.at = e /\ d.at = e /\ w.at = e
  BY <1>1, <1>2 DEF Kinds
<1>4. SUFFICES /\ LET s == <<a, b, c, d>> IN
                  s \in Seq(Steps) /\ s # <<>> /\ SwitchShape(s) /\ a \in Elems(s)
                        /\ Elems(s) \subseteq {a, b, c, d}
               /\ LET s == <<w, d>> IN
                  s \in Seq(Steps) /\ s # <<>> /\ SwitchShape(s) /\ w \in Elems(s) /\ Elems(s) \subseteq {w, d}
  BY DEF Firmware!cable_fw_bank_toggle, Firmware!cable_fw_warm_boot
<1> DEFINE A(x) == x = Firmware!Step("bit", x.at)
<1>5. /\ b = Firmware!Step("bit", a.at) /\ c = Firmware!Step("waitBit0", b.at)
          /\ d = Firmware!Step("boot", c.at) /\ d = Firmware!Step("boot", w.at)
  BY <1>3
<1> HIDE DEF a, b, c, d, w
<1>6. <<a, b, c, d>> \in Seq(Steps) /\ <<w, d>> \in Seq(Steps)
  BY <1>3
<1>7. Len(<<a, b, c, d>>) = 4 /\ Len(<<w, d>>) = 2 /\ <<a, b, c, d>> # <<>> /\ <<w, d>> # <<>>
  OBVIOUS
<1>8. SwitchShape(<<a, b, c, d>>)
  <2> DEFINE s == <<a, b, c, d>>
  <2>1. Len(s) = 4 /\ s[1] = a /\ s[2] = b /\ s[3] = c /\ s[4] = d
    OBVIOUS
  <2> HIDE DEF s
  <2>2. \A i \in 1..Len(s) : i = 1 \/ i = 2 \/ i = 3 \/ i = 4
    BY <2>1
  <2> QED BY <2>1, <2>2, <1>3, <1>5 DEF SwitchShape, s
<1>9. SwitchShape(<<w, d>>)
  <2> DEFINE s == <<w, d>>
  <2>1. Len(s) = 2 /\ s[1] = w /\ s[2] = d
    OBVIOUS
  <2> HIDE DEF s
  <2>2. \A i \in 1..Len(s) : i = 1 \/ i = 2
    BY <2>1
  <2> QED BY <2>1, <2>2, <1>3, <1>5 DEF SwitchShape, s
<1>10. Elems(<<a, b, c, d>>) = {a, b, c, d} /\ Elems(<<w, d>>) = {w, d}
  BY DEF Elems
<1> QED BY <1>6, <1>7, <1>8, <1>9, <1>10

(* The switches of the three ends, in either order. *)
LEMMA SwitchesInOrder ==
    ASSUME NEW S \in [Firmware!Ends -> Seq(Steps)], NEW o,
           \A e \in Firmware!Ends : SwitchShape(S[e]) /\ \A x \in Elems(S[e]) : x.at = e
    PROVE  LET u == S[Firmware!Order(o)[1]] \o S[Firmware!Order(o)[2]] \o S[Firmware!Order(o)[3]] IN
           /\ u \in Seq(Steps) /\ SwitchShape(u)
           /\ \A x : x \in Elems(u) <=> \E e \in Firmware!Ends : x \in Elems(S[e])
           /\ u = <<>> <=> \A e \in Firmware!Ends : S[e] = <<>>
<1>1. PICK a, b, c \in Firmware!Ends : /\ Firmware!Order(o)[1] = a /\ Firmware!Order(o)[2] = b
                                           /\ Firmware!Order(o)[3] = c
                                       /\ a # b /\ a # c /\ b # c /\ Firmware!Ends = {a, b, c}
  <2>1. Firmware!Order(o) = <<"peer", "nic", "self">> \/ Firmware!Order(o) = <<"nic", "self", "peer">>
    BY DEF Firmware!Order
  <2>2. CASE Firmware!Order(o) = <<"peer", "nic", "self">>
    <3> WITNESS "peer" \in Firmware!Ends, "nic" \in Firmware!Ends, "self" \in Firmware!Ends
    <3> QED BY <2>2 DEF Firmware!Ends
  <2>3. CASE Firmware!Order(o) = <<"nic", "self", "peer">>
    <3> WITNESS "nic" \in Firmware!Ends, "self" \in Firmware!Ends, "peer" \in Firmware!Ends
    <3> QED BY <2>3 DEF Firmware!Ends
  <2> QED BY <2>1, <2>2, <2>3
<1> DEFINE s == S[a] t == S[b] v == S[c]
<1>2. s \in Seq(Steps) /\ t \in Seq(Steps) /\ v \in Seq(Steps)
  BY <1>1
<1>3. /\ SwitchShape(s) /\ SwitchShape(t) /\ SwitchShape(v)
      /\ Elems(s) \cap Elems(t) = {} /\ Elems(s) \cap Elems(v) = {} /\ Elems(t) \cap Elems(v) = {}
  BY <1>1
<1> HIDE DEF s, t, v
<1> DEFINE w == s \o t
           u == w \o v
<1>4. /\ w \in Seq(Steps) /\ Elems(w) = Elems(s) \cup Elems(t)
      /\ w = <<>> <=> s = <<>> /\ t = <<>>
  BY <1>2, ConcatOf
<1>5. SwitchShape(w)
  BY <1>2, <1>3, SwitchConcat
<1> HIDE DEF w
<1>6. /\ u \in Seq(Steps) /\ Elems(u) = Elems(w) \cup Elems(v)
      /\ u = <<>> <=> w = <<>> /\ v = <<>>
  BY <1>2, <1>4, ConcatOf
<1>7. SwitchShape(u)
  <2>1. Elems(w) \cap Elems(v) = {}
    BY <1>3, <1>4
  <2> QED BY <1>2, <1>3, <1>4, <1>5, <2>1, SwitchConcat
<1>8. u = S[Firmware!Order(o)[1]] \o S[Firmware!Order(o)[2]] \o S[Firmware!Order(o)[3]]
  BY <1>1 DEF u, w, s, t, v
<1> HIDE DEF u
<1>9. \A x : x \in Elems(u) <=> \E e \in Firmware!Ends : x \in Elems(S[e])
  BY <1>1, <1>4, <1>6 DEF s, t, v
<1>10. u = <<>> <=> \A e \in Firmware!Ends : S[e] = <<>>
  BY <1>1, <1>4, <1>6 DEF s, t, v
<1> QED BY <1>6, <1>7, <1>8, <1>9, <1>10

(* All four destinations are asked, *)
LEMMA GatherOf ==
    ASSUME NEW file \in BOOLEAN
    PROVE  /\ Firmware!Gather(file) \in Seq(Steps) /\ Firmware!Gather(file) # <<>>
           /\ \A x \in Elems(Firmware!Gather(file)) : x.kind \in {"parse", "info"}
           /\ \A d \in Firmware!Dests : Firmware!Step("info", d) \in Elems(Firmware!Gather(file))
<1> DEFINE B(d) == IF file THEN Firmware!parse_image(d) \o Firmware!cable_fw_get_status(d)
      ELSE Firmware!cable_fw_get_status(d)
           Good(s) == s \in Seq(Steps) /\ s # <<>> /\ \A x \in Elems(s) : x.kind \in {"parse", "info"}
<1>1. ASSUME NEW d \in Firmware!Dests PROVE Good(B(d)) /\ Firmware!Step("info", d) \in Elems(B(d))
  <2>1. /\ <<Firmware!Step("parse", d)>> \in Seq(Steps) /\ <<Firmware!Step("info", d)>> \in Seq(Steps)
        /\ Elems(<<Firmware!Step("parse", d)>>) = {Firmware!Step("parse", d)}
            /\ Elems(<<Firmware!Step("info", d)>>) = {Firmware!Step("info", d)}
        /\ <<Firmware!Step("info", d)>> # <<>>
    BY StepType, OneOf DEF Kinds
  <2>2. /\ B(d) \in Seq(Steps) /\ Elems(B(d)) \in {{Firmware!Step("parse", d), Firmware!Step("info", d)},
            {Firmware!Step("info", d)}}
        /\ B(d) # <<>>
    <3>1. CASE file /\ d # "mux"
      <4> DEFINE p == <<Firmware!Step("parse", d)>> i == <<Firmware!Step("info", d)>>
      <4>1. p \o i \in Seq(Steps) /\ Elems(p \o i) = Elems(p) \cup Elems(i) /\ p \o i # <<>>
        <5> HIDE DEF p, i
        <5> QED BY <2>1, ConcatOf DEF p, i
      <4> QED BY <3>1, <4>1, <2>1 DEF Firmware!parse_image, Firmware!cable_fw_get_status
    <3>2. CASE ~file
      BY <3>2, <2>1 DEF Firmware!cable_fw_get_status
    <3>3. CASE file /\ d = "mux"
      <4> DEFINE i == <<Firmware!Step("info", d)>>
      <4>1. <<>> \o i = i
        <5> HIDE DEF i
        <5> QED BY <2>1, ConcatEmptySeq DEF i
      <4> QED BY <3>3, <4>1, <2>1 DEF Firmware!parse_image, Firmware!cable_fw_get_status
    <3> QED BY <3>1, <3>2, <3>3
  <2> QED BY <2>2, StepType DEF Kinds
<1>2. "self" \in Firmware!Dests /\ "nic" \in Firmware!Dests /\ "mux" \in Firmware!Dests
      /\ "peer" \in Firmware!Dests
  BY DEF Firmware!Dests, Firmware!Ends
<1>3. Firmware!Gather(file) = B("self") \o B("nic") \o B("mux") \o B("peer")
  BY DEF Firmware!Gather
<1> DEFINE s == B("self") n == B("nic") m == B("mux") p == B("peer")
<1>4. Good(s) /\ Good(n) /\ Good(m) /\ Good(p)
  BY <1>1, <1>2
<1>5. /\ Firmware!Step("info", "self") \in Elems(s) /\ Firmware!Step("info", "nic") \in Elems(n)
      /\ Firmware!Step("info", "mux") \in Elems(m) /\ Firmware!Step("info", "peer") \in Elems(p)
  BY <1>1, <1>2
<1> HIDE DEF s, n, m, p
<1> DEFINE a == s \o n
           b == a \o m
           c == b \o p
<1>6. Good(a) /\ Elems(a) = Elems(s) \cup Elems(n)
  BY <1>4, ConcatOf
<1> HIDE DEF a
<1>7. Good(b) /\ Elems(b) = Elems(a) \cup Elems(m)
  BY <1>4, <1>6, ConcatOf
<1> HIDE DEF b
<1>8. Good(c) /\ Elems(c) = Elems(b) \cup Elems(p)
  BY <1>4, <1>7, ConcatOf
<1>9. Firmware!Gather(file) = c
  BY <1>3 DEF s, n, m, p, a, b, c
<1>10. \A d \in Firmware!Dests : Firmware!Step("info", d) \in Elems(Firmware!Gather(file))
  BY <1>5, <1>6, <1>7, <1>8, <1>9 DEF Firmware!Dests, Firmware!Ends
<1> QED BY <1>8, <1>9, <1>10

(* in a download, *)
LEMMA DownloadOf ==
    /\ Firmware!download_firmware \in Seq(Steps) /\ Firmware!download_firmware # <<>>
    /\ DownloadShape(Firmware!download_firmware)
        /\ Head(Firmware!download_firmware).kind \notin {"packet", "last"}
    /\ \A d \in Firmware!Dests : Firmware!Step("info", d) \in Elems(Firmware!download_firmware)
<1> DEFINE P(d) == Firmware!parse_image(d)
           I(d) == <<Firmware!Step("info", d)>>
           K == <<Firmware!Step("mark", "self")>>
           Good(s) == s \in Seq(Steps) /\ s # <<>> /\ \A x \in Elems(s) : x.kind \in {"parse", "info", "mark"}
<1>1. "self" \in Firmware!Dests /\ "nic" \in Firmware!Dests /\ "mux" \in Firmware!Dests
      /\ "peer" \in Firmware!Dests
  BY DEF Firmware!Dests, Firmware!Ends
<1>2. ASSUME NEW d \in Firmware!Dests
      PROVE  /\ d # "mux" => Good(P(d))
             /\ Good(I(d)) /\ Elems(I(d)) = {Firmware!Step("info", d)}
  BY StepType, OneOf DEF Kinds, Firmware!parse_image
<1>3. Good(K)
  BY <1>1, StepType, OneOf DEF Kinds
<1> HIDE DEF P, I, K
<1> DEFINE a == P("self") \o P("nic")
           b == a \o P("mux")
           c == b \o P("peer")
           d == c \o K
           e == d \o I("mux")
           f == e \o I("nic")
           g == f \o I("self")
           h == g \o I("peer")
<1>4. Good(a)
  BY <1>1, <1>2, ConcatOf
<1> HIDE DEF a
<1>5. Good(b)
  <2>1. P("mux") = <<>>
    BY DEF P, Firmware!parse_image
  <2> QED BY <1>4, <2>1, ConcatEmptySeq
<1> HIDE DEF b
<1>6. Good(c)
  BY <1>1, <1>2, <1>5, ConcatOf
<1> HIDE DEF c
<1>7. Good(d)
  BY <1>3, <1>6, ConcatOf
<1> HIDE DEF d
<1>8. Good(e) /\ Firmware!Step("info", "mux") \in Elems(e)
  BY <1>1, <1>2, <1>7, ConcatOf
<1> HIDE DEF e
<1>9. Good(f) /\ Elems(f) = Elems(e) \cup {Firmware!Step("info", "nic")}
  BY <1>1, <1>2, <1>8, ConcatOf
<1> HIDE DEF f
<1>10. Good(g) /\ Elems(g) = Elems(f) \cup {Firmware!Step("info", "self")}
  BY <1>1, <1>2, <1>9, ConcatOf
<1> HIDE DEF g
<1>11. Good(h) /\ Elems(h) = Elems(g) \cup {Firmware!Step("info", "peer")}
  BY <1>1, <1>2, <1>10, ConcatOf
<1>12. Firmware!download_firmware = h
  BY DEF Firmware!download_firmware, Firmware!parse_image, Firmware!cable_fw_get_status, P, I, K, a, b, c, d, e,
     f, g, h
<1> HIDE DEF h
<1>13. \A x \in Firmware!Dests : Firmware!Step("info", x) \in Elems(h)
  BY <1>8, <1>9, <1>10, <1>11 DEF Firmware!Dests, Firmware!Ends
<1>14. Head(h) \in Elems(h)
  BY <1>11, HeadIn
<1> QED BY <1>11, <1>12, <1>13, <1>14, DownloadStart

(* in an activation, after the comparison of the mux's banks when it is hitless, *)
LEMMA ActivateOf ==
    ASSUME NEW file \in BOOLEAN, NEW hitless \in BOOLEAN
    PROVE  LET s == Firmware!activate_firmware(file, hitless) IN
           /\ s \in Seq(Steps) /\ s # <<>> /\ AskShape(s)
           /\ hitless => Head(s) = Firmware!Step("same", "mux")
           /\ \A d \in Firmware!Dests : Firmware!Step("info", d) \in Elems(s)
<1> DEFINE a == IF hitless THEN <<Firmware!Step("same", "mux")>> ELSE <<>>
           g == Firmware!Gather(file)
           e == <<Firmware!Step("decide", "self")>>
<1>1. "self" \in Firmware!Dests /\ "mux" \in Firmware!Dests
  BY DEF Firmware!Dests, Firmware!Ends
<1>2. /\ a \in Seq(Steps) /\ \A x \in Elems(a) : x.kind = "same"
      /\ hitless => Len(a) = 1 /\ a[1] = Firmware!Step("same", "mux")
  <2>1. Firmware!Step("same", "mux") \in Steps /\ Firmware!Step("same", "mux").kind = "same"
    BY <1>1, StepType DEF Kinds
  <2>2. CASE hitless
    BY <2>1, <2>2, OneOf
  <2>3. CASE ~hitless
    BY <2>1, <2>3, OneOf, EmptySeq
  <2> QED BY <2>2, <2>3
<1>3. e \in Seq(Steps)
  BY <1>1, StepType, OneOf DEF Kinds
<1> HIDE DEF a, g
<1>4. /\ g \in Seq(Steps) /\ g # <<>>
      /\ \A x \in Elems(g) : x.kind \in {"parse", "info"}
      /\ \A d \in Firmware!Dests : Firmware!Step("info", d) \in Elems(g)
  BY GatherOf DEF g
<1>5. /\ a \o g \in Seq(Steps) /\ Elems(a \o g) = Elems(a) \cup Elems(g)
      /\ Len(a \o g) = Len(a) + Len(g) /\ Len(g) \in Nat
      /\ \A i \in 1..Len(a) : (a \o g)[i] = a[i]
  BY <1>2, <1>4, ConcatOf
<1>6. /\ (a \o g) \o e \in Seq(Steps) /\ Elems((a \o g) \o e) = Elems(a \o g) \cup Elems(e)
      /\ \A i \in 1..Len(a \o g) : ((a \o g) \o e)[i] = (a \o g)[i]
  BY <1>3, <1>5, ConcatOf
<1>7. (a \o g) \o e # <<>> /\ AskShape((a \o g) \o e)
  <2>1. \A x \in Elems(a \o g) : x.kind \in {"same", "parse", "info"}
    BY <1>2, <1>4, <1>5
  <2> QED BY <1>5, <2>1, AskConcat
<1>8. ASSUME hitless PROVE Head((a \o g) \o e) = Firmware!Step("same", "mux")
  <2>1. Head((a \o g) \o e) = ((a \o g) \o e)[1]
    BY <1>6, <1>7, TailOf
  <2>2. 1 \in 1..Len(a \o g) /\ 1 \in 1..Len(a)
    BY <1>2, <1>5, <1>8
  <2> QED BY <1>2, <1>5, <1>6, <1>8, <2>1, <2>2
<1>9. Firmware!activate_firmware(file, hitless) = (a \o g) \o e
  BY DEF Firmware!activate_firmware, a, g
<1> QED BY <1>4, <1>5, <1>6, <1>7, <1>8, <1>9

(* and in a rollback. *)
LEMMA RollbackOf ==
    ASSUME NEW file \in BOOLEAN
    PROVE  LET s == Firmware!rollback_firmware(file) IN
           /\ s \in Seq(Steps) /\ s # <<>> /\ AskShape(s)
           /\ \A d \in Firmware!Dests : Firmware!Step("info", d) \in Elems(s)
<1>1. Firmware!Step("decide", "self") \in Steps
  BY StepType DEF Kinds, Firmware!Dests, Firmware!Ends
<1>2. <<Firmware!Step("decide", "self")>> \in Seq(Steps)
  BY <1>1, OneOf
<1>3. \A x \in Elems(Firmware!Gather(file)) : x.kind \in {"same", "parse", "info"}
  BY GatherOf
<1> DEFINE g == Firmware!Gather(file) e == <<Firmware!Step("decide", "self")>>
<1>4. g \in Seq(Steps) /\ \A d \in Firmware!Dests : Firmware!Step("info", d) \in Elems(g)
  BY GatherOf
<1>5. g \o e # <<>> /\ AskShape(g \o e)
  BY <1>3, <1>4, AskConcat
<1>6. Firmware!rollback_firmware(file) = g \o e
  BY DEF Firmware!rollback_firmware
<1> HIDE DEF g, e
<1>7. g \o e \in Seq(Steps) /\ Elems(g \o e) = Elems(g) \cup Elems(e)
  BY <1>2, <1>4, ConcatOf DEF e
<1> QED BY <1>4, <1>5, <1>6, <1>7

-------------------------------------------------------------------------------
(* What the lock, the job and the kind of a step tell.                       *)

(* The requests. *)
LEMMA RequestShape ==
    /\ \A r \in Firmware!Requests :
          /\ r.op \in {"download", "activate", "rollback", "version", "reset"}
          /\ r.file \in BOOLEAN /\ r.hitless \in BOOLEAN /\ r.at \in Firmware!Ends
          /\ r.hitless => r.op = "activate"
    /\ Firmware!None \notin Firmware!Requests /\ Firmware!Some \notin Firmware!Requests
        /\ Firmware!None # Firmware!Some
<1>1. Firmware!None.op = "none" /\ Firmware!Some.op = "some"
  BY DEF Firmware!None, Firmware!Some
<1>2. ASSUME NEW r \in Firmware!Requests
      PROVE  /\ r.op \in {"download", "activate", "rollback", "version", "reset"}
             /\ r.file \in BOOLEAN /\ r.hitless \in BOOLEAN /\ r.at \in Firmware!Ends
             /\ r.hitless => r.op = "activate"
  BY DEF Firmware!Requests, Firmware!Upgrades, Firmware!Ends
<1> QED BY <1>1, <1>2

(* The job of nobody. *)
LEMMA NoJobType == Firmware!NoJob \in Jobs /\ Firmware!NoJob.todo = <<>>
<1>1. <<>> \in Seq(Steps)
  BY EmptySeq
<1>2. Firmware!Unasked \in Answers
  BY DEF Answers, Firmware!Unasked, Firmware!Banks, Firmware!Images
<1> QED BY <1>1, <1>2 DEF Firmware!NoJob, Jobs, Programs, Firmware!Verdicts

(* A running call is that of the lock's holder. *)
LEMMA Held ==
    ASSUME IInv, NEW t \in Threads, Firmware!Running(t)
    PROVE  /\ t = holder /\ Req = asked[t] /\ Req \in Firmware!Requests /\ job \in Jobs
           /\ job.todo \in Seq(Steps) /\ job.todo # <<>>
           /\ Head(job.todo) \in Steps /\ Firmware!At \in Firmware!Dests
           /\ Head(job.todo) \in Elems(job.todo) /\ Head(job.todo) = job.todo[1] /\ 1 \in 1..Len(job.todo)
<1>1. job \in Jobs /\ job.todo \in Seq(Steps) /\ job.todo # <<>> /\ t = holder
  BY DEF IInv, TypeInv, Control, Jobs, Programs, Firmware!Running
<1>2. /\ Head(job.todo) \in Steps /\ Head(job.todo) = job.todo[1] /\ Head(job.todo) \in Elems(job.todo)
      /\ 1 \in 1..Len(job.todo)
  BY <1>1, TailOf, HeadIn
<1> QED BY <1>1, <1>2 DEF IInv, Owned, Req, Firmware!At, Steps

(* The kind of the step tells what call it is. *)
LEMMA KindOf ==
    ASSUME IInv, NEW t \in Threads, Firmware!Running(t)
    PROVE  LET k == Head(job.todo).kind IN
           /\ k \in {"mark", "start", "packet", "last", "complete"} => Req.op = "download"
           /\ k = "same" => Req.op \in {"activate", "rollback"} /\ Asks
           /\ k = "decide" => Req.op \in {"activate", "rollback"} /\ Asks
           /\ k \in {"parse", "info"} => Req.op # "reset"
           /\ k \in {"parse", "info"} /\ Req.op \in {"activate", "rollback"} => Asks
           /\ k \in {"swap", "warm", "waitBit0", "boot"} => Req.op \in {"activate", "rollback"} /\ Switches
           /\ k = "bit" => Req.op = "reset" \/ (Req.op \in {"activate", "rollback"} /\ Switches)
           /\ k = "wait" => Req.op = "reset"
           /\ Req.op = "download" => Downloads
           /\ Req.op = "reset" => Resets /\ k \in {"bit", "wait"}
<1> DEFINE k == Head(job.todo).kind
<1>1. /\ Req \in Firmware!Requests /\ Head(job.todo) = job.todo[1] /\ 1 \in 1..Len(job.todo) /\ job.todo # <<>>
  BY Held
<1>2. Req.op = "download" => Downloads /\ k \in DownloadKinds
  BY <1>1 DEF IInv, Programmed, Downloads, DownloadShape
<1>3. Req.op = "version" => k = "info"
  BY <1>1 DEF IInv, Programmed
<1>4. Req.op = "reset" => Resets /\ k \in {"bit", "wait"}
  <2>1. Req.op = "reset" => Resets
    BY <1>1 DEF IInv, Programmed
  <2>2. Head(Firmware!reset(Req.at)).kind = "bit" /\ Head(<<Firmware!Step("wait", Req.at)>>).kind = "wait"
    BY DEF Firmware!reset, Firmware!Step
  <2> QED BY <2>1, <2>2 DEF Resets
<1>5. Asks => k \in {"same", "parse", "info", "decide"}
  BY <1>1 DEF Asks, AskShape
<1>6. Switches => k \in {"swap", "warm", "bit", "waitBit0", "boot"}
  BY <1>1 DEF Switches, SwitchShape
<1>7. Req.op \in {"activate", "rollback"} => Asks \/ Switches
  BY <1>1 DEF IInv, Programmed
<1>8. Req.op \in {"download", "activate", "rollback", "version", "reset"}
  BY <1>1, RequestShape
<1> QED BY <1>2, <1>3, <1>4, <1>5, <1>6, <1>7, <1>8 DEF DownloadKinds

(* What a call that returns leaves of the control. *)
LEMMA Returned ==
    ASSUME TypeInv, Owned, NEW t \in Threads, holder = t, NEW v \in Firmware!Verdicts, Firmware!Return(t, v)
    PROVE  Control' /\ Owned' /\ Programmed' /\ job' = Firmware!NoJob
<1>1. job' = Firmware!NoJob /\ job'.todo = <<>>
  BY NoJobType DEF Firmware!Return
<1>2. asked' \in [Threads -> Firmware!Requests \cup {Firmware!None, Firmware!Some}]
      /\ \A u \in Threads : asked'[u] = IF u = t THEN Firmware!None ELSE asked[u]
  BY DEF Firmware!Return, TypeInv, Control, Cabled
<1>3. Control'
  BY <1>1, <1>2, NoJobType DEF Firmware!Return, TypeInv, Control, Cabled
<1>4. Owned'
  BY <1>1, <1>2, RequestShape DEF Owned
<1>5. Programmed'
  BY <1>1 DEF Programmed
<1> QED BY <1>1, <1>3, <1>4, <1>5

(* The same for one that fails. *)
LEMMA Failed ==
    ASSUME TypeInv, Owned, NEW t \in Threads, holder = t, Firmware!Fail(t)
    PROVE  Control' /\ Owned' /\ Programmed' /\ job' = Firmware!NoJob
          /\ dl' \in {"idle", "inprogress", "failed"}
<1>1. PICK v \in {"error", "raised"} : Firmware!Return(t, v)
  BY DEF Firmware!Fail
<1>2. dl' \in {"idle", "inprogress", "failed"}
  BY DEF Firmware!Fail, TypeInv, Control, Cabled
<1> QED BY <1>1, <1>2, Returned DEF Firmware!Verdicts

(* And one that goes on with s. *)
LEMMA Continued ==
    ASSUME TypeInv, Owned, NEW t \in Threads, Firmware!Running(t), NEW j \in Jobs,
           job' = j, Firmware!Silent, UNCHANGED <<asked, holder, calls>>
    PROVE  Control' /\ Owned' /\ Req' = Req
<1>1. Control'
  BY DEF TypeInv, Control, Cabled, Firmware!Silent, Firmware!Verdicts
<1>2. Owned'
  BY DEF Owned, Firmware!Running
<1> QED BY <1>1, <1>2 DEF Req

(* A job with another program. *)
LEMMA JobTail ==
    ASSUME job \in Jobs, NEW s \in Seq(Steps)
    PROVE  LET j == [job EXCEPT !.todo = s] IN
           /\ j \in Jobs /\ j.todo = s /\ j.info = job.info /\ j.settled = job.settled /\ j.reset = job.reset
BY DEF Jobs, Programs

(* A call that goes on with its next step. *)
LEMMA TailContinued ==
    ASSUME IInv, NEW t \in Threads, Firmware!Running(t), Firmware!Continue(Tail(job.todo))
    PROVE  /\ Control' /\ Owned' /\ Req' = Req
           /\ job'.todo = Tail(job.todo) /\ job'.info = job.info /\ job'.settled = job.settled
               /\ job'.reset = job.reset
<1>1. job \in Jobs /\ Tail(job.todo) \in Seq(Steps)
  BY Held, TailOf
<1>2. job' = [job EXCEPT !.todo = Tail(job.todo)] /\ Firmware!Silent /\ UNCHANGED <<asked, holder, calls>>
  BY DEF Firmware!Continue
<1> HIDE DEF Firmware!Continue
<1> QED BY <1>1, <1>2, JobTail, Continued DEF IInv

-------------------------------------------------------------------------------
(* A download.                                                               *)

(* The invariant has the type that the runs check. *)
LEMMA TypeParts == TypeInv => Firmware!TypeOK
<1>1. job \in Jobs => DOMAIN job = DOMAIN Firmware!NoJob /\ job.reset \subseteq Firmware!Dests
      /\ job.verdict \in Firmware!Verdicts
  BY NoJobType DEF Jobs
<1> QED BY <1>1 DEF TypeInv, Firmware!TypeOK, Control, Cabled

(* Steps that leave the cable alone. *)
LEMMA SameCabled == ASSUME Cabled, UNCHANGED Firmware!Cable, dl' \in {"idle", "inprogress", "failed"}
      PROVE Cabled'
BY DEF Cabled, Firmware!Cable

(* No image is being received. *)
LEMMA NoSessionType ==
    ASSUME Firmware!FirmwareAssumption
    PROVE  Firmware!NoSession \in [at : Firmware!Dests \cup {"none"}, packets : 0..Packets]
          /\ Firmware!NoSession.packets = 0
BY DEF Firmware!NoSession, Firmware!FirmwareAssumption

(* The two banks. *)
LEMMA OtherBank == \A b \in Firmware!Banks : Firmware!Other(b) \in Firmware!Banks /\ Firmware!Other(b) # b
      /\ Firmware!Other(Firmware!Other(b)) = b
BY DEF Firmware!Other, Firmware!Banks

(* An image written to an inactive bank. *)
LEMMA ImageType ==
    ASSUME Cabled, NEW d \in Firmware!Dests, NEW v \in Firmware!Images
    PROVE  LET w == [img EXCEPT ![d][Firmware!Inactive(d)] = v] IN
           /\ Firmware!Inactive(d) \in Firmware!Banks
               /\ w \in [Firmware!Dests -> [Firmware!Banks -> Firmware!Images]]
           /\ w[d][Firmware!Inactive(d)] = v /\ \A e \in Firmware!Dests : e # d => w[e] = img[e]
<1>1. Firmware!Inactive(d) \in Firmware!Banks
  BY OtherBank DEF Cabled, Firmware!Inactive
<1> HIDE DEF Firmware!Inactive
<1> QED BY <1>1 DEF Cabled

(* Packets come right after START or another packet. *)
LEMMA NoPacketNext ==
    ASSUME NEW s \in Seq(Steps), s # <<>>, DownloadShape(s), Head(s).kind \notin {"start", "packet"},
          Tail(s) # <<>>
    PROVE  Tail(s)[1].kind \notin {"packet", "last"} /\ Head(Tail(s)).kind \notin {"packet", "last"}
<1>1. 2 \in 1..Len(s) /\ Tail(s)[1] = s[2] /\ s[2 - 1] = Head(s) /\ Head(Tail(s)) = Tail(s)[1]
  <2>1. /\ Len(s) \in Nat /\ Len(s) > 1 /\ Head(s) = s[1] /\ Tail(s) \in Seq(Steps)
        /\ Len(Tail(s)) = Len(s) - 1 /\ \A i \in 1..Len(Tail(s)) : Tail(s)[i] = s[i + 1]
    BY TailOf
  <2>2. Head(Tail(s)) = Tail(s)[1]
    BY <2>1, TailOf
  <2>3. 1 \in 1..Len(Tail(s))
    BY <2>1
  <2> QED BY <2>1, <2>2, <2>3
<1> QED BY <1>1 DEF DownloadShape

(* The step of a download that leaves the cable as Downloads wants it.       *)
LEMMA DownloadGoesOn ==
    ASSUME Req \in Firmware!Requests, Req' = Req, Req.op = "download", job'.todo # <<>> => Downloads'
    PROVE  Programmed'
BY RequestShape DEF Programmed

(* The mark of a download. *)
LEMMA MarkStep == ASSUME Firmware!FirmwareAssumption, IInv, NEW t \in Threads, Firmware!Mark(t) PROVE IInv'
<1> DEFINE s == job.todo
<1>1. Firmware!Running(t) /\ Head(s).kind = "mark" /\ Firmware!Continue(Tail(s)) /\ UNCHANGED Firmware!Cable
      /\ dl' = "inprogress"
  BY DEF Firmware!Mark, Firmware!Is
<1>2. /\ Control' /\ Owned' /\ Req' = Req
      /\ job'.todo = Tail(s) /\ job'.info = job.info /\ job'.settled = job.settled /\ job'.reset = job.reset
  BY <1>1, TailContinued
<1>3. s \in Seq(Steps) /\ s # <<>> /\ Req.op = "download" /\ Req \in Firmware!Requests /\ Downloads
  BY <1>1, Held, KindOf
<1>4. TypeInv' /\ Coupled'
  BY <1>1, <1>2, SameCabled DEF IInv, TypeInv, Coupled, Firmware!Cable
<1>5. ASSUME job'.todo # <<>> PROVE Downloads'
  <2>1. DownloadShape(Tail(s)) /\ Head(Tail(s)).kind \notin {"packet", "last"}
    BY <1>1, <1>2, <1>3, <1>5, DownloadTail, NoPacketNext DEF Downloads
  <2>2. \A d \in Firmware!Dests : /\ Firmware!Step("info", d) \in Elems(s)
                                      => Firmware!Step("info", d) \in Elems(Tail(s))
                                  /\ Firmware!Step("complete", d) \in Elems(s)
                                      => Firmware!Step("complete", d) \in Elems(Tail(s))
    BY <1>1, <1>3, TailOf, StepType DEF Kinds
  <2> QED BY <1>1, <1>2, <1>3, <2>1, <2>2 DEF Downloads, Firmware!Cable, Firmware!Inactive
<1>6. Programmed'
  BY <1>2, <1>3, <1>5, DownloadGoesOn
<1> QED BY <1>2, <1>4, <1>6 DEF IInv

(* START: the image is lost, COMPLETE is still to come. *)
LEMMA StartStep == ASSUME Firmware!FirmwareAssumption, IInv, NEW t \in Threads, Firmware!Start(t) PROVE IInv'
<1> DEFINE s == job.todo
           erased == [img EXCEPT ![Firmware!At][Firmware!Inactive(Firmware!At)] = "blank"]
<1>1. Firmware!Running(t) /\ Head(s).kind = "start" /\ UNCHANGED <<host, prompt, cur, next, bits>>
  BY DEF Firmware!Start, Firmware!Is
<1>2. s \in Seq(Steps) /\ s # <<>> /\ Req.op = "download" /\ Req \in Firmware!Requests /\ Downloads
      /\ Firmware!At \in Firmware!Dests /\ Head(s) \in Elems(s)
  BY <1>1, Held, KindOf
<1>3. /\ Firmware!Inactive(Firmware!At) \in Firmware!Banks
          /\ erased \in [Firmware!Dests -> [Firmware!Banks -> Firmware!Images]]
      /\ \A d \in Firmware!Dests : d # Firmware!At => erased[d] = img[d]
  BY <1>2, ImageType DEF IInv, TypeInv, Firmware!Images
<1> HIDE DEF erased
<1>4. Coupled'
  BY <1>1 DEF IInv, Coupled
<1>5. CASE img' = erased /\ session' = [at |-> Firmware!At, packets |-> 0] /\ Firmware!Continue(Tail(s))
      /\ UNCHANGED dl
  <2>1. /\ Control' /\ Owned' /\ Req' = Req
        /\ job'.todo = Tail(s) /\ job'.info = job.info /\ job'.settled = job.settled /\ job'.reset = job.reset
    BY <1>1, <1>5, TailContinued
  <2>2. TypeInv'
    BY <1>1, <1>2, <1>3, <1>5, <2>1 DEF IInv, TypeInv, Cabled, Firmware!FirmwareAssumption
  <2>3. Packets \in Nat \ {0} /\ Len(s) \in Nat \ {0}
    BY <1>2, TailOf DEF Firmware!FirmwareAssumption
  <2>4. /\ 1 + Packets + 1 <= Len(s)
        /\ \A k \in 1..Packets : s[1 + k].kind = IF k = Packets THEN "last" ELSE "packet"
        /\ s[1 + Packets + 1] = Firmware!Step("complete", Firmware!At)
    <3>1. s[1].kind = "start" /\ s[1].at = Firmware!At /\ 1 \in 1..Len(s)
      BY <1>1, <1>2, TailOf, <2>3 DEF Firmware!At
    <3> QED BY <3>1, <1>2 DEF Downloads, DownloadShape
  <2>5. ASSUME job'.todo # <<>> PROVE Downloads'
    <3>1. DownloadShape(Tail(s))
      BY <1>2, DownloadTail DEF Downloads
    <3>2. Len(Tail(s)) = Len(s) - 1 /\ \A i \in 1..Len(Tail(s)) : Tail(s)[i] = s[i + 1]
      BY <1>2, TailOf
    <3>3. \A k \in 1..Packets : Tail(s)[k] = s[1 + k]
      BY <3>2, <2>3, <2>4
    <3>4. Loads(Tail(s), 0)
      <4>1. Packets - 1 \in 0..Packets - 1 /\ Packets - 1 < Len(Tail(s)) /\ 0 + (Packets - 1) + 1 <= Packets
        BY <2>3, <2>4, <3>2
      <4>2. \A k \in 1..Packets - 1 : Tail(s)[k].kind = "packet"
        BY <2>3, <2>4, <3>3
      <4>3. Tail(s)[(Packets - 1) + 1].kind = "last"
        BY <2>3, <2>4, <3>3
      <4> QED BY <4>1, <4>2, <4>3 DEF Loads
    <3>5. Firmware!Step("complete", Firmware!At) \in Elems(Tail(s))
      <4>1. Packets + 1 \in 1..Len(Tail(s)) /\ Tail(s)[Packets + 1] = s[1 + Packets + 1]
        BY <2>3, <2>4, <3>2
      <4> QED BY <4>1, <2>4 DEF Elems
    <3>6. \A d \in Firmware!Dests : /\ Firmware!Step("info", d) \in Elems(s)
                                        => Firmware!Step("info", d) \in Elems(Tail(s))
                                    /\ Firmware!Step("complete", d) \in Elems(s)
                                        => Firmware!Step("complete", d) \in Elems(Tail(s))
      BY <1>1, <1>2, TailOf, StepType DEF Kinds
    <3>7. \A d \in Firmware!Dests : d # Firmware!At => img'[d] = img[d]
      BY <1>3, <1>5
    <3> QED BY <1>1, <1>2, <1>5, <2>1, <3>1, <3>4, <3>5, <3>6, <3>7 DEF Downloads, Firmware!Inactive
  <2>6. Programmed'
    BY <1>2, <2>1, <2>5, DownloadGoesOn
  <2> QED BY <1>4, <2>1, <2>2, <2>6 DEF IInv
<1>6. CASE img' \in {img, erased} /\ session' = Firmware!NoSession /\ Firmware!Fail(t)
  <2>1. Control' /\ Owned' /\ Programmed' /\ dl' \in {"idle", "inprogress", "failed"}
    BY <1>1, <1>6, Failed DEF IInv, Firmware!Running
  <2>2. TypeInv'
    <3>1. img' \in [Firmware!Dests -> [Firmware!Banks -> Firmware!Images]]
      BY <1>3, <1>6 DEF IInv, TypeInv, Cabled
    <3> QED BY <1>1, <1>6, <2>1, <3>1, NoSessionType DEF IInv, TypeInv, Cabled
  <2> QED BY <1>4, <2>1, <2>2 DEF IInv
<1> QED BY <1>5, <1>6 DEF Firmware!Start, erased

(* A packet. *)
LEMMA TransferStep == ASSUME Firmware!FirmwareAssumption, IInv, NEW t \in Threads, Firmware!Transfer(t)
      PROVE IInv'
<1> DEFINE s == job.todo
<1>1. Firmware!Running(t) /\ Head(s).kind = "packet" /\ UNCHANGED <<host, prompt, cur, next, img, bits>>
  BY DEF Firmware!Transfer, Firmware!Is
<1>2. s \in Seq(Steps) /\ s # <<>> /\ Req.op = "download" /\ Req \in Firmware!Requests /\ Downloads
      /\ Len(s) \in Nat \ {0} /\ Head(s) = s[1]
  BY <1>1, Held, KindOf, TailOf
<1>3. Coupled'
  BY <1>1 DEF IInv, Coupled
<1>4. session \in [at : Firmware!Dests \cup {"none"}, packets : 0..Packets] /\ Packets \in Nat \ {0}
  BY DEF IInv, TypeInv, Cabled, Firmware!FirmwareAssumption
<1>5. PICK n \in 0..Packets - 1 :
        /\ n < Len(s) /\ \A k \in 1..n : s[k].kind = "packet"
        /\ s[n + 1].kind = "last"
        /\ session.packets + n + 1 <= Packets
  BY <1>1, <1>2 DEF Downloads, Loads
<1>6. n >= 1 /\ session.packets + 1 <= Packets
  BY <1>1, <1>2, <1>4, <1>5
<1>7. CASE session' = [session EXCEPT !.packets = @ + 1] /\ Firmware!Continue(Tail(s)) /\ UNCHANGED dl
  <2>1. /\ Control' /\ Owned' /\ Req' = Req
        /\ job'.todo = Tail(s) /\ job'.info = job.info /\ job'.settled = job.settled /\ job'.reset = job.reset
    BY <1>1, <1>7, TailContinued
  <2>2. session' \in [at : Firmware!Dests \cup {"none"}, packets : 0..Packets]
        /\ session'.packets = session.packets + 1
    BY <1>4, <1>6, <1>7
  <2>3. TypeInv'
    BY <1>1, <1>7, <2>1, <2>2 DEF IInv, TypeInv, Cabled
  <2>4. Len(Tail(s)) = Len(s) - 1 /\ \A i \in 1..Len(Tail(s)) : Tail(s)[i] = s[i + 1]
    BY <1>2, TailOf
  <2>5. Loads(Tail(s), session.packets + 1)
    <3>1. n - 1 \in 0..Packets - 1 /\ n - 1 < Len(Tail(s)) /\ session.packets + 1 + (n - 1) + 1 <= Packets
      BY <1>2, <1>4, <1>5, <1>6, <2>4
    <3>2. \A k \in 1..n - 1 : Tail(s)[k].kind = "packet"
      <4>1. ASSUME NEW k \in 1..n - 1 PROVE Tail(s)[k].kind = "packet"
        <5>1. k \in 1..Len(Tail(s)) /\ k + 1 \in 1..n
          BY <1>5, <1>2, <2>4
        <5> QED BY <5>1, <1>5, <2>4
      <4> QED BY <4>1
    <3>3. Tail(s)[(n - 1) + 1].kind = "last"
      <4>1. n \in 1..Len(Tail(s)) /\ (n - 1) + 1 = n
        BY <1>5, <1>6, <1>2, <2>4
      <4> QED BY <4>1, <1>5, <2>4
    <3> QED BY <3>1, <3>2, <3>3 DEF Loads
  <2>6. \A d \in Firmware!Dests : /\ Firmware!Step("info", d) \in Elems(s)
                                      => Firmware!Step("info", d) \in Elems(Tail(s))
                                  /\ Firmware!Step("complete", d) \in Elems(s)
                                      => Firmware!Step("complete", d) \in Elems(Tail(s))
    BY <1>1, <1>2, TailOf, StepType DEF Kinds
  <2>7. DownloadShape(Tail(s))
    BY <1>2, DownloadTail DEF Downloads
  <2>8. Downloads'
    BY <1>1, <1>2, <2>1, <2>2, <2>5, <2>6, <2>7 DEF Downloads, Firmware!Inactive
  <2>9. Programmed'
    BY <1>2, <2>1, <2>8, DownloadGoesOn
  <2> QED BY <1>3, <2>1, <2>3, <2>9 DEF IInv
<1>8. CASE session' \in {session, Firmware!NoSession} /\ Firmware!Fail(t)
  <2>1. Control' /\ Owned' /\ Programmed' /\ dl' \in {"idle", "inprogress", "failed"}
    BY <1>1, <1>8, Failed DEF IInv, Firmware!Running
  <2>2. TypeInv'
    BY <1>1, <1>8, <2>1, NoSessionType DEF IInv, TypeInv, Cabled
  <2> QED BY <1>3, <2>1, <2>2 DEF IInv
<1> QED BY <1>7, <1>8 DEF Firmware!Transfer

(* The last packet, which the MCU may not have had. *)
LEMMA LastPacketStep == ASSUME Firmware!FirmwareAssumption, IInv, NEW t \in Threads, Firmware!LastPacket(t)
      PROVE IInv'
<1> DEFINE s == job.todo
<1>1. Firmware!Running(t) /\ Head(s).kind = "last" /\ UNCHANGED <<host, prompt, cur, next, img, bits>>
  BY DEF Firmware!LastPacket, Firmware!Is
<1>2. s \in Seq(Steps) /\ s # <<>> /\ Req.op = "download" /\ Req \in Firmware!Requests /\ Downloads
      /\ Len(s) \in Nat \ {0} /\ Head(s) = s[1]
  BY <1>1, Held, KindOf, TailOf
<1>3. Coupled'
  BY <1>1 DEF IInv, Coupled
<1>4. session \in [at : Firmware!Dests \cup {"none"}, packets : 0..Packets] /\ Packets \in Nat \ {0}
  BY DEF IInv, TypeInv, Cabled, Firmware!FirmwareAssumption
<1>5. PICK n \in 0..Packets - 1 :
        /\ n < Len(s) /\ \A k \in 1..n : s[k].kind = "packet"
        /\ s[n + 1].kind = "last"
        /\ session.packets + n + 1 <= Packets
  BY <1>1, <1>2 DEF Downloads, Loads
<1>6. session.packets + 1 <= Packets
  BY <1>4, <1>5
<1>7. CASE session' \in {session, [session EXCEPT !.packets = @ + 1]} /\ Firmware!Continue(Tail(s))
      /\ UNCHANGED dl
  <2>1. /\ Control' /\ Owned' /\ Req' = Req
        /\ job'.todo = Tail(s) /\ job'.info = job.info /\ job'.settled = job.settled /\ job'.reset = job.reset
    BY <1>1, <1>7, TailContinued
  <2>2. session' \in [at : Firmware!Dests \cup {"none"}, packets : 0..Packets]
    BY <1>4, <1>6, <1>7
  <2>3. TypeInv'
    BY <1>1, <1>7, <2>1, <2>2 DEF IInv, TypeInv, Cabled
  <2>4. \A d \in Firmware!Dests : /\ Firmware!Step("info", d) \in Elems(s)
                                      => Firmware!Step("info", d) \in Elems(Tail(s))
                                  /\ Firmware!Step("complete", d) \in Elems(s)
                                      => Firmware!Step("complete", d) \in Elems(Tail(s))
    BY <1>1, <1>2, TailOf, StepType DEF Kinds
  <2>5. ASSUME job'.todo # <<>> PROVE Downloads'
    <3>1. DownloadShape(Tail(s)) /\ Head(Tail(s)).kind \notin {"packet", "last"}
      BY <1>1, <1>2, <2>1, <2>5, DownloadTail, NoPacketNext DEF Downloads
    <3> QED BY <1>1, <1>2, <2>1, <2>4, <3>1 DEF Downloads, Firmware!Inactive
  <2>6. Programmed'
    BY <1>2, <2>1, <2>5, DownloadGoesOn
  <2> QED BY <1>3, <2>1, <2>3, <2>6 DEF IInv
<1>8. CASE session' \in {session, Firmware!NoSession} /\ Firmware!Fail(t)
  <2>1. Control' /\ Owned' /\ Programmed' /\ dl' \in {"idle", "inprogress", "failed"}
    BY <1>1, <1>8, Failed DEF IInv, Firmware!Running
  <2>2. TypeInv'
    BY <1>1, <1>8, <2>1, NoSessionType DEF IInv, TypeInv, Cabled
  <2> QED BY <1>3, <2>1, <2>2 DEF IInv
<1> QED BY <1>7, <1>8 DEF Firmware!LastPacket

(* The last step of a program returns the verdict of the job.                *)
LEMMA Proceeded ==
    ASSUME IInv, NEW t \in Threads, Firmware!Running(t), Firmware!Proceed(t)
    PROVE  /\ Control' /\ Owned'
           /\ \/ job' = Firmware!NoJob /\ Programmed' /\ Tail(job.todo) = <<>>
               /\ Firmware!Return(t, job.verdict)
              \/ /\ Tail(job.todo) # <<>> /\ Req' = Req /\ Firmware!Continue(Tail(job.todo))
                 /\ job'.todo = Tail(job.todo) /\ job'.info = job.info /\ job'.settled = job.settled
                 /\ job'.reset = job.reset
<1>1. (Tail(job.todo) # <<>> <=> Len(job.todo) > 1) /\ holder = t /\ job.verdict \in Firmware!Verdicts
  BY Held, TailOf DEF Jobs
<1>2. CASE Len(job.todo) > 1
  BY <1>1, <1>2, TailContinued DEF Firmware!Proceed
<1>3. CASE ~(Len(job.todo) > 1)
  BY <1>1, <1>3, Returned DEF Firmware!Proceed, IInv
<1> QED BY <1>2, <1>3

(* COMPLETE: the MCU has taken the image or the call fails. *)
LEMMA CompleteStep == ASSUME Firmware!FirmwareAssumption, IInv, NEW t \in Threads, Firmware!Complete(t)
      PROVE IInv'
<1> DEFINE s == job.todo
           whole == session = [at |-> Firmware!At, packets |-> Packets]
           written == [img EXCEPT ![Firmware!At][Firmware!Inactive(Firmware!At)] = "new"]
<1>1. Firmware!Running(t) /\ Head(s).kind = "complete" /\ UNCHANGED <<host, prompt, cur, next, bits>>
      /\ session' = Firmware!NoSession
  BY DEF Firmware!Complete, Firmware!Is
<1>2. s \in Seq(Steps) /\ s # <<>> /\ Req.op = "download" /\ Req \in Firmware!Requests /\ Downloads
      /\ Firmware!At \in Firmware!Dests
  BY <1>1, Held, KindOf
<1>3. Coupled'
  BY <1>1 DEF IInv, Coupled
<1>4. /\ written \in [Firmware!Dests -> [Firmware!Banks -> Firmware!Images]]
      /\ written[Firmware!At][Firmware!Inactive(Firmware!At)] = "new"
      /\ \A d \in Firmware!Dests : d # Firmware!At => written[d] = img[d]
  BY <1>2, ImageType DEF IInv, TypeInv, Firmware!Images
<1> HIDE DEF written
<1>5. CASE whole /\ img' = written /\ Firmware!Proceed(t) /\ dl' = IF Len(job.todo) = 1 THEN "idle" ELSE dl
  <2>1. Control' /\ Owned'
    BY <1>1, <1>5, Proceeded
  <2>2. TypeInv'
    BY <1>1, <1>4, <1>5, <2>1, NoSessionType DEF IInv, TypeInv, Cabled
  <2>3. CASE job' = Firmware!NoJob /\ Programmed'
    BY <2>1, <2>2, <2>3, <1>3 DEF IInv
  <2>4. CASE /\ Tail(job.todo) # <<>> /\ Req' = Req
             /\ job'.todo = Tail(s) /\ job'.info = job.info /\ job'.settled = job.settled
    <3>1. DownloadShape(Tail(s)) /\ Head(Tail(s)).kind \notin {"packet", "last"}
      BY <1>1, <1>2, <2>4, DownloadTail, NoPacketNext DEF Downloads
    <3>2. \A d \in Firmware!Dests : /\ Firmware!Step("info", d) \in Elems(s)
                                        => Firmware!Step("info", d) \in Elems(Tail(s))
                                    /\ d # Firmware!At /\ Firmware!Step("complete", d) \in Elems(s)
                                        => Firmware!Step("complete", d) \in Elems(Tail(s))
      BY <1>1, <1>2, TailOf, StepType DEF Kinds, Firmware!At
    <3>3. Downloads'
      BY <1>1, <1>2, <1>4, <1>5, <2>4, <3>1, <3>2 DEF Downloads, Firmware!Inactive
    <3>4. Programmed'
      BY <1>2, <2>4, <3>3, DownloadGoesOn
    <3> QED BY <1>3, <2>1, <2>2, <3>4 DEF IInv
  <2> QED BY <1>1, <1>5, <2>3, <2>4, Proceeded
<1>6. CASE img' \in (IF whole THEN {img, written} ELSE {img}) /\ Firmware!Fail(t)
  <2>1. Control' /\ Owned' /\ Programmed' /\ dl' \in {"idle", "inprogress", "failed"}
    BY <1>1, <1>6, Failed DEF IInv, Firmware!Running
  <2>2. TypeInv'
    <3>1. img' \in [Firmware!Dests -> [Firmware!Banks -> Firmware!Images]]
      BY <1>4, <1>6 DEF IInv, TypeInv, Cabled
    <3> QED BY <1>1, <1>6, <2>1, <3>1, NoSessionType DEF IInv, TypeInv, Cabled
  <2> QED BY <1>3, <2>1, <2>2 DEF IInv
<1> QED BY <1>5, <1>6 DEF Firmware!Complete, written

-------------------------------------------------------------------------------
(* Asking for banks, and the decision.                                       *)

(* A job with an answer written down. *)
LEMMA InfoJob ==
    ASSUME job \in Jobs, Cabled, NEW d \in Firmware!Dests, NEW s \in Seq(Steps)
    PROVE  LET known == [job EXCEPT !.info[d] = [mine |-> cur[d], bank |-> img[d]]]
               j == [known EXCEPT !.todo = s]
           IN  /\ j \in Jobs /\ j.todo = s /\ j.settled = job.settled /\ j.reset = job.reset
               /\ j.info[d] = [mine |-> cur[d], bank |-> img[d]]
               /\ \A e \in Firmware!Dests : e # d => j.info[e] = job.info[e]
<1> DEFINE a == [mine |-> cur[d], bank |-> img[d]]
           i == [job.info EXCEPT ![d] = a]
<1>1. a \in Answers
  BY DEF Answers, Cabled, Firmware!Banks
<1> HIDE DEF a
<1>2. job.info \in [Firmware!Dests -> Answers]
  BY DEF Jobs
<1>3. i \in [Firmware!Dests -> Answers] /\ i[d] = a /\ \A e \in Firmware!Dests : e # d => i[e] = job.info[e]
  BY <1>1, <1>2
<1>4. [job EXCEPT !.info[d] = a] = [job EXCEPT !.info = i]
  BY DEF Jobs
<1> HIDE DEF i
<1>5. LET j == [[job EXCEPT !.info = i] EXCEPT !.todo = s]
      IN  /\ j \in Jobs /\ j.todo = s /\ j.settled = job.settled /\ j.reset = job.reset /\ j.info = i
  BY <1>3 DEF Jobs, Programs
<1> QED BY <1>3, <1>4, <1>5 DEF a

(* An answer: what it says is so, and is written down. *)
LEMMA InfoStep == ASSUME Firmware!FirmwareAssumption, IInv, NEW t \in Threads, Firmware!Info(t) PROVE IInv'
<1> DEFINE s == job.todo
           d == Firmware!At
           todo == Firmware!Wanted(t, d) \o Tail(s)
           j == [[job EXCEPT !.info[d] = [mine |-> cur[d], bank |-> img[d]]] EXCEPT !.todo = todo]
<1>1. Firmware!Running(t) /\ Head(s).kind \in {"parse", "info", "same"} /\ UNCHANGED Firmware!Cable
  BY DEF Firmware!Info, Firmware!Is
<1>2. /\ s \in Seq(Steps) /\ s # <<>> /\ Req \in Firmware!Requests /\ Req = asked[t] /\ job \in Jobs
          /\ d \in Firmware!Dests
      /\ holder = t /\ Head(s) \in Steps /\ Head(s).at = d
  BY <1>1, Held DEF Firmware!At
<1>3. Coupled'
  BY <1>1 DEF IInv, Coupled, Firmware!Cable
<1>4. ASSUME NEW v \in Firmware!Verdicts, Firmware!Return(t, v), dl' \in {"idle", "inprogress", "failed"}
      PROVE IInv'
  <2>1. Control' /\ Owned' /\ Programmed'
    BY <1>2, <1>4, Returned DEF IInv
  <2> QED BY <1>1, <1>3, <1>4, <2>1, SameCabled DEF IInv, TypeInv
<1>5. CASE Firmware!Fail(t)
  <2>1. Control' /\ Owned' /\ Programmed' /\ dl' \in {"idle", "inprogress", "failed"}
    BY <1>2, <1>5, Failed DEF IInv
  <2> QED BY <1>1, <1>3, <2>1, SameCabled DEF IInv, TypeInv
<1>6. dl \in {"idle", "inprogress", "failed"}
  BY DEF IInv, TypeInv, Cabled
<1>7. CASE /\ Head(s).kind = "same" => img[d][1] = img[d][2]
           /\ todo # <<>> /\ job' = j /\ Firmware!Silent /\ UNCHANGED <<asked, holder, calls, dl>>
  <2>1. Tail(s) \in Seq(Steps) /\ Elems(s) = {Head(s)} \cup Elems(Tail(s)) /\ Len(s) \in Nat /\ Head(s) = s[1]
        /\ \A i \in 1..Len(Tail(s)) : Tail(s)[i] = s[i + 1]
        /\ Len(Tail(s)) = Len(s) - 1
    BY <1>2, TailOf
  <2>2. Req.op # "download" => todo = Tail(s)
    BY <1>2, <2>1, ConcatEmptySeq DEF Firmware!Wanted, Firmware!Downloading
  <2>3. CASE Req.op = "download"
    <3>1. Downloads /\ Head(s).kind \in {"parse", "info"}
      BY <1>1, <1>2, <2>3, KindOf
    <3>2. DownloadShape(Tail(s))
          /\ (Tail(s) # <<>> => Tail(s)[1].kind \notin {"packet", "last"}
              /\ Head(Tail(s)).kind \notin {"packet", "last"})
      BY <1>1, <1>2, <3>1, DownloadTail, NoPacketNext DEF Downloads
    <3>3. \/ /\ Firmware!Wanted(t, d) = <<>> /\ todo = Tail(s)
             /\ Head(s).kind = "info" => img[d][Firmware!Inactive(d)] = "new"
          \/ Firmware!Wanted(t, d) = Firmware!cable_fw_upgrade(d) /\ Head(s).kind = "info"
      BY <1>1, <1>2, <2>1, <2>3, <3>1, ConcatEmptySeq DEF Firmware!Wanted, Firmware!Downloading
    <3>4. /\ todo \in Seq(Steps) /\ DownloadShape(todo) /\ Elems(Tail(s)) \subseteq Elems(todo)
          /\ Head(todo).kind \notin {"packet", "last"}
          /\ Head(s).kind = "info" => img[d][Firmware!Inactive(d)] = "new"
              \/ Firmware!Step("complete", d) \in Elems(todo)
      <4>1. CASE Firmware!Wanted(t, d) = <<>> /\ todo = Tail(s)
            /\ (Head(s).kind = "info" => img[d][Firmware!Inactive(d)] = "new")
        BY <4>1, <1>7, <2>1, <3>2
      <4>2. CASE Firmware!Wanted(t, d) = Firmware!cable_fw_upgrade(d)
        BY <4>2, <1>2, <2>1, <3>2, DownloadConcat
      <4> QED BY <3>3, <4>1, <4>2
    <3> HIDE DEF todo
    <3>5. /\ j \in Jobs /\ j.todo = todo /\ j.settled = job.settled
      BY ZenonT(60), <1>2, <3>4, InfoJob DEF IInv, TypeInv
    <3> HIDE DEF j
    <3>6. Control' /\ Owned' /\ Req' = Req
      BY <1>1, <1>7, <3>5, Continued DEF IInv
    <3>7. \A e \in Firmware!Dests : /\ Firmware!Step("complete", e) \in Elems(s)
                                        => Firmware!Step("complete", e) \in Elems(todo)
                                    /\ Firmware!Step("info", e) \in Elems(s)
                                        => Firmware!Step("info", e) \in Elems(todo)
                                              \/ (e = d /\ Head(s).kind = "info")
      BY <1>2, <2>1, <3>1, <3>4, StepType DEF Kinds
    <3>8. Downloads'
      BY <1>1, <1>7, <3>1, <3>4, <3>5, <3>7 DEF Downloads, Firmware!Cable, Firmware!Inactive
    <3>9. Programmed'
      BY <1>2, <2>3, <3>6, <3>8, DownloadGoesOn
    <3> QED BY <1>1, <1>3, <1>6, <1>7, <3>6, <3>9, SameCabled DEF IInv, TypeInv
  <2>4. CASE Req.op # "download"
    <3>1. /\ j \in Jobs /\ j.todo = Tail(s) /\ j.settled = job.settled
          /\ j.info[d] = [mine |-> cur[d], bank |-> img[d]] /\ \A e \in Firmware!Dests : e # d
              => j.info[e] = job.info[e]
      <4> DEFINE r == Tail(s)
                 k == [[job EXCEPT !.info[d] = [mine |-> cur[d], bank |-> img[d]]] EXCEPT !.todo = r]
      <4>1. todo = r /\ r \in Seq(Steps)
        BY <2>1, <2>2, <2>4
      <4> HIDE DEF r, todo
      <4>2. /\ k \in Jobs /\ k.todo = r /\ k.settled = job.settled
            /\ k.info[d] = [mine |-> cur[d], bank |-> img[d]] /\ \A e \in Firmware!Dests : e # d
                => k.info[e] = job.info[e]
        <5>1. job \in Jobs /\ Cabled /\ d \in Firmware!Dests
          BY <1>2 DEF IInv, TypeInv
        <5> HIDE DEF d
        <5> QED BY ONLY ZenonT(60), <5>1, <4>1, InfoJob
      <4>3. j = k
        BY <4>1
      <4> HIDE DEF j, k
      <4> QED BY <4>2, <4>3 DEF r
    <3> HIDE DEF j, todo
    <3>2. Control' /\ Owned' /\ Req' = Req
      BY <1>1, <1>7, <3>1, Continued DEF IInv
    <3>3. Req.op # "reset"
      BY <1>1, KindOf, RequestShape
    <3>4. CASE Req.op = "version"
      <4>1. \A i \in 1..Len(s) : s[i].kind = "info"
        BY <1>2, <3>4 DEF IInv, Programmed
      <4>2. \A i \in 1..Len(Tail(s)) : i + 1 \in 1..Len(s)
        BY <2>1
      <4>3. \A i \in 1..Len(Tail(s)) : Tail(s)[i].kind = "info"
        BY <2>1, <4>1, <4>2
      <4>4. ~Req.hitless
        BY <1>2, <3>4, RequestShape
      <4>5. Programmed'
        BY <1>7, <3>1, <3>2, <3>4, <4>3, <4>4 DEF Programmed
      <4> QED BY <1>1, <1>3, <1>6, <1>7, <3>2, <4>5, SameCabled DEF IInv, TypeInv
    <3>5. CASE Req.op \in {"activate", "rollback"}
      <4>1. Asks
        BY <1>1, <3>5, KindOf
      <4>2. AskShape(Tail(s))
        BY <1>1, <1>2, <4>1, AskTail DEF Asks
      <4>3. \A e \in Firmware!Dests : Firmware!Step("info", e) \in Elems(s)
            => Firmware!Step("info", e) \in Elems(Tail(s)) \/ e = d
        BY <1>2, <2>1, StepType DEF Kinds
      <4>4. cur[d] \in Firmware!Banks
        BY <1>2 DEF IInv, TypeInv, Cabled
      <4>5. Asks'
        BY <1>1, <1>2, <1>7, <3>1, <4>1, <4>2, <4>3, <4>4 DEF Asks, Known, Firmware!Cable
      <4>6. Req.hitless => Hitless'
        <5>1. Req.hitless => Hitless
          BY <1>2 DEF IInv, Programmed
        <5>2. Firmware!Step("same", "mux").kind = "same" /\ Firmware!Step("same", "mux").at = "mux"
          BY DEF Firmware!Step
        <5> QED BY <1>1, <1>2, <1>7, <5>1, <5>2 DEF Hitless, Firmware!Cable
      <4>7. Programmed'
        BY <1>7, <3>1, <3>2, <3>5, <4>5, <4>6 DEF Programmed
      <4> QED BY <1>1, <1>3, <1>6, <1>7, <3>2, <4>7, SameCabled DEF IInv, TypeInv
    <3> QED BY <1>2, <2>4, <3>3, <3>4, <3>5, RequestShape
  <2> QED BY <2>3, <2>4
<1> QED
  <2>1. "success" \in Firmware!Verdicts /\ "error" \in Firmware!Verdicts
    BY DEF Firmware!Verdicts
  <2> HIDE DEF todo, j
  <2>2. \/ /\ Head(s).kind = "same" => img[d][1] = img[d][2]
           /\ \/ todo # <<>> /\ job' = j /\ Firmware!Silent /\ UNCHANGED <<asked, holder, calls, dl>>
              \/ todo = <<>> /\ Firmware!Return(t, "success")
                  /\ dl' = IF Firmware!Downloading(t) THEN "idle" ELSE dl
        \/ Head(s).kind = "same" /\ img[d][1] # img[d][2] /\ Firmware!Return(t, "error") /\ UNCHANGED dl
        \/ Firmware!Fail(t)
    BY DEF Firmware!Info, todo, j
  <2> QED BY <2>1, <2>2, <1>4, <1>5, <1>6, <1>7

(* Answers, and all that is read from them, stay. *)
LEMMA SameInfo ==
    ASSUME job'.info = job.info, Req' = Req
    PROVE  /\ Firmware!Matches' <=> Firmware!Matches
           /\ Firmware!SparesGood' <=> Firmware!SparesGood
           /\ \A d : Firmware!Mine(d)' = Firmware!Mine(d)
           /\ \A e : Performs(e)' <=> Performs(e)
<1>1. \A d : Firmware!Mine(d)' = Firmware!Mine(d)
  BY DEF Firmware!Mine
<1>2. \A d, b : Firmware!Holds(d, b)' <=> Firmware!Holds(d, b)
  BY DEF Firmware!Holds
<1>3. \A d, b : Firmware!Blank(d, b)' <=> Firmware!Blank(d, b)
  BY DEF Firmware!Blank
<1>4. \A d : (Firmware!Runs(d)' <=> Firmware!Runs(d)) /\ (Firmware!Spare(d)' <=> Firmware!Spare(d))
  BY <1>1, <1>2 DEF Firmware!Runs, Firmware!Spare, Firmware!Holds
<1>5. \A e : Firmware!Activation(e)' = Firmware!Activation(e) /\ Firmware!Rollback(e)' = Firmware!Rollback(e)
  BY <1>4 DEF Firmware!Activation, Firmware!Rollback
<1>6. \A e : Performs(e)' <=> Performs(e)
  BY <1>5 DEF Performs
<1>7. Firmware!Matches' <=> Firmware!Matches
  BY <1>2 DEF Firmware!Matches
<1>8. Firmware!SparesGood' <=> Firmware!SparesGood
  BY <1>3 DEF Firmware!SparesGood, Firmware!Blank
<1> QED BY <1>1, <1>6, <1>7, <1>8

(* The decision: every end that is not switched is where it was found. *)
LEMMA DecideStep == ASSUME Firmware!FirmwareAssumption, IInv, NEW t \in Threads, Firmware!Decide(t) PROVE IInv'
<1> DEFINE s == job.todo
           r == asked[t]
           class == [e \in Firmware!Ends |->
                        IF ~r.file THEN "perform"
                        ELSE IF r.op = "activate" THEN Firmware!Activation(e) ELSE Firmware!Rollback(e)]
           toggle(e) == IF class[e] # "perform" THEN <<>>
                        ELSE IF r.hitless THEN Firmware!cable_fw_warm_boot(e)
                              ELSE Firmware!cable_fw_bank_toggle(e)
           o == Firmware!Order(r.op)
           todo == toggle(o[1]) \o toggle(o[2]) \o toggle(o[3])
           v == Firmware!VerdictOf(r.op, class)
           S == [e \in Firmware!Ends |-> toggle(e)]
<1>1. Firmware!Running(t) /\ Head(s).kind = "decide" /\ UNCHANGED Firmware!Cable /\ UNCHANGED dl
  BY DEF Firmware!Decide, Firmware!Is
<1>2. /\ s \in Seq(Steps) /\ s # <<>> /\ Req \in Firmware!Requests /\ Req = r /\ job \in Jobs /\ holder = t
          /\ Asks
      /\ Req.op \in {"activate", "rollback"} /\ Head(s) = s[1] /\ 1 \in 1..Len(s)
  BY <1>1, Held, KindOf
<1>3. Coupled' /\ Cabled'
  <2>1. dl' \in {"idle", "inprogress", "failed"}
    BY <1>1 DEF IInv, TypeInv, Cabled
  <2> QED BY <1>1, <2>1, SameCabled DEF IInv, TypeInv, Coupled, Firmware!Cable
<1>4. ASSUME NEW w \in Firmware!Verdicts, Firmware!Return(t, w) PROVE IInv'
  BY <1>2, <1>3, <1>4, Returned DEF IInv, TypeInv
<1>5. v \in Firmware!Verdicts /\ "error" \in Firmware!Verdicts
  BY DEF Firmware!VerdictOf, Firmware!Verdicts
<1>6. \A d \in Firmware!Dests : Known(d)
  <2>1. \A i \in 1..Len(s) : s[i].kind # "info"
    <3>1. Len(s) = 1
      BY <1>1, <1>2, TailOf DEF Asks, AskShape
    <3> QED BY <3>1, <1>1, <1>2
  <2>2. \A d : Firmware!Step("info", d).kind = "info"
    BY DEF Firmware!Step
  <2>3. \A d : Firmware!Step("info", d) \notin Elems(s)
    BY <2>1, <2>2 DEF Elems
  <2> QED BY <1>2, <2>3 DEF Asks
<1>7. \A e \in Firmware!Ends : class[e] = "perform" <=> Performs(e)
  BY <1>2 DEF Performs
<1>8. ASSUME NEW e \in Firmware!Ends
      PROVE  /\ S[e] \in Seq(Steps) /\ SwitchShape(S[e])
             /\ \A x \in Elems(S[e]) : /\ x.at = e /\ x.kind \in {"swap", "warm", "bit", "waitBit0", "boot"}
                                       /\ x.kind = "warm" => Req.hitless
                                       /\ x.kind = "swap" => ~Req.hitless
             /\ Performs(e) <=> Firmware!Step("swap", e) \in Elems(S[e])
                 \/ Firmware!Step("warm", e) \in Elems(S[e])
  <2> HIDE DEF class
  <2>1. CASE ~Performs(e)
    <3>1. S[e] = <<>> /\ <<>> \in Seq(Steps) /\ SwitchShape(<<>>) /\ Elems(<<>>) = {}
      BY <2>1, <1>7, EmptySeq DEF SwitchShape, Elems
    <3> QED BY <2>1, <3>1
  <2>2. \A k : Firmware!Step(k, e).kind = k /\ Firmware!Step(k, e).at = e
    BY DEF Firmware!Step
  <2>3. CASE Performs(e) /\ r.hitless
    <3>1. S[e] = Firmware!cable_fw_warm_boot(e)
      BY <2>3, <1>7
    <3> HIDE DEF S
    <3> QED BY <1>2, <2>2, <2>3, <3>1, ToggleOf
  <2>4. CASE Performs(e) /\ ~r.hitless
    <3>1. S[e] = Firmware!cable_fw_bank_toggle(e)
      BY <2>4, <1>7
    <3> HIDE DEF S
    <3> QED BY <1>2, <2>2, <2>4, <3>1, ToggleOf
  <2> QED BY <2>1, <2>3, <2>4
<1>9. todo = S[Firmware!Order(r.op)[1]] \o S[Firmware!Order(r.op)[2]] \o S[Firmware!Order(r.op)[3]]
  <2>1. Firmware!Order(r.op)[1] \in Firmware!Ends /\ Firmware!Order(r.op)[2] \in Firmware!Ends
        /\ Firmware!Order(r.op)[3] \in Firmware!Ends
    BY DEF Firmware!Order, Firmware!Ends
  <2> HIDE DEF class
  <2> QED BY <2>1
<1>10. DOMAIN S = Firmware!Ends /\ S = [e \in Firmware!Ends |-> S[e]]
  OBVIOUS
<1> HIDE DEF S, todo, class, v
<1>11. /\ todo \in Seq(Steps) /\ SwitchShape(todo)
       /\ \A x : x \in Elems(todo) <=> \E e \in Firmware!Ends : x \in Elems(S[e])
  <2>1. S \in [Firmware!Ends -> Seq(Steps)]
    BY <1>8, <1>10
  <2> DEFINE p == r.op
             u == S[Firmware!Order(p)[1]] \o S[Firmware!Order(p)[2]] \o S[Firmware!Order(p)[3]]
  <2>2. todo = u
    BY <1>9
  <2>3. \A e \in Firmware!Ends : SwitchShape(S[e]) /\ \A x \in Elems(S[e]) : x.at = e
    BY <1>8
  <2> HIDE DEF p
  <2>4. u \in Seq(Steps) /\ SwitchShape(u) /\ \A x : x \in Elems(u)
        <=> \E e \in Firmware!Ends : x \in Elems(S[e])
    BY <2>1, <2>3, SwitchesInOrder
  <2> QED BY ONLY <2>2, <2>4
<1>12. CASE todo # <<>> /\ job' = [job EXCEPT !.todo = todo, !.verdict = v] /\ Firmware!Silent
            /\ UNCHANGED <<asked, holder, calls>>
                /\ (IF Req.file THEN Firmware!Matches ELSE Firmware!SparesGood)
  <2> DEFINE j == [job EXCEPT !.todo = todo, !.verdict = v]
  <2>1. j \in Jobs /\ j.todo = todo /\ j.info = job.info /\ j.settled = job.settled
    BY <1>2, <1>5, <1>11 DEF Jobs, Programs
  <2> HIDE DEF j
  <2>2. Control' /\ Owned' /\ Req' = Req
    BY <1>1, <1>12, <2>1, Continued DEF IInv, j
  <2>3. job'.todo = todo /\ job'.info = job.info /\ job'.settled = job.settled
    BY <1>12, <2>1 DEF j
  <2>4. /\ Firmware!Matches' <=> Firmware!Matches
        /\ Firmware!SparesGood' <=> Firmware!SparesGood
        /\ \A d : Firmware!Mine(d)' = Firmware!Mine(d)
        /\ \A e : Performs(e)' <=> Performs(e)
    BY <2>2, <2>3, SameInfo
  <2>5. \A x \in Elems(todo) : (x.kind = "warm" => Req.hitless) /\ (x.kind = "swap" => ~Req.hitless)
    BY <1>8, <1>11
  <2>6. \A d \in Firmware!Dests : job.info[d].bank = img[d] /\ job.info[d].mine \in Firmware!Banks
    BY <1>6 DEF Known
  <2>7. \A d \in Firmware!Dests : EndOf(d) \in Firmware!Ends
    BY DEF EndOf, Firmware!Dests, Firmware!Ends
  <2>8. \A e \in Firmware!Ends : Planned(todo, e) <=> Performs(e)
    <3>1. \A k : \A e : Firmware!Step(k, e).at = e
      BY DEF Firmware!Step
    <3> QED BY <1>8, <1>11, <3>1 DEF Planned
  <2>9. ASSUME job.settled PROVE \A d \in Firmware!Dests : Unmoved(d)
    <3>1. next = cur
      BY <1>2, <2>9 DEF Asks
    <3>2. \A d \in Firmware!Dests : job.info[d].mine = cur[d]
      BY <1>6, <2>9 DEF Known
    <3>3. "nic" \in Firmware!Dests
      BY DEF Firmware!Dests, Firmware!Ends
    <3> QED BY <3>1, <3>2, <3>3 DEF Unmoved, Firmware!Mine, IInv, Coupled
  <2>10. Switches'
    BY <1>1, <1>11, <1>12, <2>2, <2>3, <2>4, <2>5, <2>6, <2>7, <2>8, <2>9 DEF Switches, Unmoved, Firmware!Cable
  <2>11. Req.hitless => Hitless'
    <3>1. Req.hitless => Hitless
      BY <1>2 DEF IInv, Programmed
    <3> QED BY <1>1, <3>1 DEF Hitless, Firmware!Cable, Firmware!Step
  <2>12. Programmed'
    BY <1>2, <2>2, <2>10, <2>11 DEF Programmed
  <2> QED BY <1>3, <2>2, <2>12 DEF IInv, TypeInv
<1> QED
  <2>1. IF (IF r.file THEN ~Firmware!Matches ELSE ~Firmware!SparesGood) THEN Firmware!Return(t, "error")
        ELSE IF todo = <<>> THEN Firmware!Return(t, v)
        ELSE job' = [job EXCEPT !.todo = todo, !.verdict = v]
             /\ Firmware!Silent /\ UNCHANGED <<asked, holder, calls>>
    BY DEF Firmware!Decide, todo, v, class
  <2> QED BY <1>2, <1>4, <1>5, <1>12, <2>1

-------------------------------------------------------------------------------
(* Activation, rollback and reset.                                           *)

(* What a program of switches still does after its first step.               *)
LEMMA SwitchRest ==
    ASSUME job \in Jobs, job.todo # <<>>, Switches
    PROVE  LET s == job.todo IN
           /\ Tail(s) \in Seq(Steps) /\ SwitchShape(Tail(s)) /\ Elems(Tail(s)) \subseteq Elems(s)
           /\ Head(s).at \in Firmware!Ends /\ Head(s) = Firmware!Step(Head(s).kind, Head(s).at)
           /\ Head(s).kind \in {"swap", "warm", "bit", "waitBit0", "boot"}
           /\ \A e : Planned(Tail(s), e) <=> Planned(s, e)
               /\ ~(Head(s).kind \in {"swap", "warm"} /\ Head(s).at = e)
           /\ Head(s).kind \in {"swap", "warm"} => Planned(s, Head(s).at)
           /\ Head(s).kind = "swap" => Tail(s) # <<>> /\ Head(Tail(s)) = Firmware!Step("bit", Head(s).at)
           /\ Head(s).kind = "bit" => Tail(s) # <<>> /\ Head(Tail(s)) = Firmware!Step("waitBit0", Head(s).at)
           /\ Head(s).kind \in {"waitBit0", "warm"} => Tail(s) # <<>>
               /\ Head(Tail(s)) = Firmware!Step("boot", Head(s).at)
<1> DEFINE s == job.todo
<1>1. s \in Seq(Steps) /\ s # <<>> /\ SwitchShape(s)
  BY DEF Jobs, Programs, Switches
<1>2. /\ Head(s) \in Steps /\ Head(s) = s[1] /\ Len(s) \in Nat \ {0}
      /\ Tail(s) \in Seq(Steps) /\ Len(Tail(s)) = Len(s) - 1
      /\ \A i \in 1..Len(Tail(s)) : Tail(s)[i] = s[i + 1]
      /\ (Tail(s) # <<>> <=> Len(s) > 1)
      /\ Elems(s) = {Head(s)} \cup Elems(Tail(s))
  BY <1>1, TailOf
<1>3. SwitchShape(Tail(s)) /\ Head(s) \notin Elems(Tail(s))
  BY <1>1, SwitchTail
<1>4. \A x \in Elems(s) : (x.kind = "warm" => Req.hitless) /\ (x.kind = "swap" => ~Req.hitless)
  BY DEF Switches
<1> HIDE DEF s
<1>5. 1 \in 1..Len(s)
  BY <1>2
<1>6. /\ Head(s).kind \in {"swap", "warm", "bit", "waitBit0", "boot"} /\ Head(s).at \in Firmware!Ends
      /\ Head(s).kind = "swap" => 1 < Len(s) /\ s[1 + 1] = Firmware!Step("bit", Head(s).at)
      /\ Head(s).kind = "bit" => 1 < Len(s) /\ s[1 + 1] = Firmware!Step("waitBit0", Head(s).at)
      /\ Head(s).kind \in {"waitBit0", "warm"} => 1 < Len(s) /\ s[1 + 1] = Firmware!Step("boot", Head(s).at)
  BY <1>1, <1>2, <1>5 DEF SwitchShape
<1>7. Head(s) = Firmware!Step(Head(s).kind, Head(s).at)
  BY <1>2 DEF Firmware!Step, Steps
<1>8. 1 < Len(s) => Tail(s) # <<>> /\ Head(Tail(s)) = s[1 + 1]
  <2>1. ASSUME 1 < Len(s) PROVE Tail(s) # <<>> /\ 1 \in 1..Len(Tail(s))
    BY <1>2, <2>1
  <2>2. ASSUME 1 < Len(s) PROVE Head(Tail(s)) = Tail(s)[1]
    BY <1>2, <2>1, <2>2, TailOf
  <2> QED BY <1>2, <2>1, <2>2
<1>9. \A k, l, e, f : Firmware!Step(k, e) = Firmware!Step(l, f) <=> k = l /\ e = f
  BY DEF Firmware!Step
<1>10. \A k, e : Firmware!Step(k, e).kind = k /\ Firmware!Step(k, e).at = e
  BY DEF Firmware!Step
<1>11. ASSUME NEW e
       PROVE  Planned(Tail(s), e) <=> Planned(s, e) /\ ~(Head(s).kind \in {"swap", "warm"} /\ Head(s).at = e)
  <2>1. CASE Head(s) = Firmware!Step("swap", e)
    <3>1. Firmware!Step("swap", e) \in Elems(s) /\ Firmware!Step("warm", e) \notin Elems(s)
      BY <1>2, <1>4, <1>10, <2>1
    <3> QED BY <1>2, <1>3, <1>10, <2>1, <3>1 DEF Planned
  <2>2. CASE Head(s) = Firmware!Step("warm", e)
    <3>1. Firmware!Step("warm", e) \in Elems(s) /\ Firmware!Step("swap", e) \notin Elems(s)
      BY <1>2, <1>4, <1>10, <2>2
    <3> QED BY <1>2, <1>3, <1>10, <2>2, <3>1 DEF Planned
  <2>3. CASE Head(s) # Firmware!Step("swap", e) /\ Head(s) # Firmware!Step("warm", e)
    BY <1>2, <1>7, <1>9, <2>3 DEF Planned
  <2> QED BY <2>1, <2>2, <2>3
<1>12. Head(s).kind \in {"swap", "warm"} => Planned(s, Head(s).at)
  BY <1>2, <1>7 DEF Planned
<1> QED BY <1>2, <1>3, <1>6, <1>7, <1>8, <1>11, <1>12 DEF s

(* The end of destination d is where the program s has brought it.           *)
Brought(d) ==
    LET s == job.todo IN
    job.settled =>
        IF Planned(s, EndOf(d)) THEN Unmoved(d) /\ Performs(EndOf(d))
        ELSE IF ~Performs(EndOf(d)) THEN Unmoved(d)
        ELSE /\ next[d] = Firmware!Other(Firmware!Mine(d))
             /\ prompt => \/ cur[d] = next[d]
                          \/ /\ Head(s).at = EndOf(d)
                             /\ Head(s).kind = "bit" \/ EndOf(d) \in bits

(* What a step of a switch has to show. *)
LEMMA SwitchGoesOn ==
    ASSUME job \in Jobs, job.todo # <<>>, Switches, Programmed, Req.op \in {"activate", "rollback"},
           Req' = Req, job'.todo = Tail(job.todo), job'.info = job.info, job'.settled = job.settled, img' = img,
           \A d \in Firmware!Dests : Brought(d)'
    PROVE  Programmed'
<1> DEFINE s == job.todo
<1>1. /\ SwitchShape(Tail(s)) /\ Elems(Tail(s)) \subseteq Elems(s)
      /\ Head(s).kind \in {"swap", "warm", "bit", "waitBit0", "boot"}
  BY SwitchRest
<1>2. /\ Firmware!Matches' <=> Firmware!Matches
      /\ Firmware!SparesGood' <=> Firmware!SparesGood
  BY SameInfo
<1>3. /\ SwitchShape(job'.todo)
      /\ \A x \in Elems(job'.todo) : (x.kind = "warm" => Req'.hitless) /\ (x.kind = "swap" => ~Req'.hitless)
      /\ \A d \in Firmware!Dests : job'.info[d].bank = img'[d] /\ job'.info[d].mine \in Firmware!Banks
      /\ IF Req'.file THEN Firmware!Matches' ELSE Firmware!SparesGood'
  BY <1>1, <1>2 DEF Switches
<1>4. Switches'
  BY <1>3 DEF Switches, Brought
<1>5. Req.hitless => img'["mux"][1] = img'["mux"][2]
  <2>1. Head(s) # Firmware!Step("same", "mux")
    BY <1>1 DEF Firmware!Step
  <2> QED BY <2>1 DEF Programmed, Hitless
<1> QED BY <1>4, <1>5 DEF Programmed, Hitless

(* Ends that are done, when a switch goes on. *)
LEMMA SwitchBrought == Switches => \A d \in Firmware!Dests : Brought(d)
BY DEF Switches, Brought

(* A call that ends. *)
LEMMA Ending == \A d \in Firmware!Dests, e \in Firmware!Ends : EndOf(d) \in Firmware!Ends
      /\ (EndOf(d) = e <=> d = e \/ (e = "nic" /\ d = "mux"))
BY DEF EndOf, Firmware!Dests, Firmware!Ends

(* Banks after a switch. *)
LEMMA SwitchedType ==
    ASSUME Cabled, NEW f \in [Firmware!Dests -> Firmware!Banks], NEW e \in Firmware!Ends
    PROVE  /\ Firmware!Switched(f, e) \in [Firmware!Dests -> Firmware!Banks]
           /\ \A d \in Firmware!Dests : Firmware!Switched(f, e)[d] = IF EndOf(d) = e
               THEN Firmware!Other(cur[d]) ELSE f[d]
           /\ f["mux"] = f["nic"] /\ cur["mux"] = cur["nic"]
               => Firmware!Switched(f, e)["mux"] = Firmware!Switched(f, e)["nic"]
<1>1. \A d \in Firmware!Dests : Firmware!Inactive(d) \in Firmware!Banks
      /\ Firmware!Inactive(d) = Firmware!Other(cur[d])
  BY OtherBank DEF Cabled, Firmware!Inactive
<1>2. \A d \in Firmware!Dests : Firmware!Switched(f, e)[d] = IF EndOf(d) = e THEN Firmware!Other(cur[d])
      ELSE f[d]
  BY <1>1, Ending DEF Firmware!Switched
<1>3. Firmware!Switched(f, e) \in [Firmware!Dests -> Firmware!Banks]
  BY <1>1 DEF Firmware!Switched
<1>4. EndOf("mux") = "nic" /\ EndOf("nic") = "nic" /\ "mux" \in Firmware!Dests /\ "nic" \in Firmware!Dests
  BY DEF EndOf, Firmware!Dests, Firmware!Ends
<1> QED BY <1>2, <1>3, <1>4

(* A call that fails leaves the cable as it is typed and coupled. *)
LEMMA FailedStep ==
    ASSUME IInv, NEW t \in Threads, holder = t, Coupled', Firmware!Fail(t),
          dl' \in {"idle", "inprogress", "failed"} => Cabled'
    PROVE  IInv'
BY Failed DEF IInv, TypeInv

(* A call that ends keeps the invariant. *)
LEMMA ReturnedStep ==
    ASSUME IInv, NEW t \in Threads, holder = t, NEW v \in Firmware!Verdicts, Coupled', Firmware!Return(t, v),
          Cabled'
    PROVE  IInv'
BY Returned DEF IInv, TypeInv

(* SWAP. *)
LEMMA SwapStep == ASSUME Firmware!FirmwareAssumption, IInv, NEW t \in Threads, Firmware!Swap(t) PROVE IInv'
<1> DEFINE s == job.todo
           e == Head(s).at
<1>1. Firmware!Running(t) /\ Head(s).kind = "swap" /\ UNCHANGED <<host, prompt, cur, img, session, bits>>
  BY DEF Firmware!Swap, Firmware!Is
<1>2. /\ s # <<>> /\ Req \in Firmware!Requests /\ job \in Jobs /\ holder = t /\ Switches
      /\ Req.op \in {"activate", "rollback"}
  BY <1>1, Held, KindOf
<1>3. e \in Firmware!Ends /\ \A x : Planned(Tail(s), x) <=> Planned(s, x) /\ ~(x = e)
  BY <1>1, <1>2, SwitchRest
<1>4. /\ Firmware!Switched(next, e) \in [Firmware!Dests -> Firmware!Banks]
      /\ \A d \in Firmware!Dests : Firmware!Switched(next, e)[d] = IF EndOf(d) = e THEN Firmware!Other(cur[d])
          ELSE next[d]
      /\ Firmware!Switched(next, e)["mux"] = Firmware!Switched(next, e)["nic"]
  BY <1>3, SwitchedType DEF IInv, TypeInv, Cabled, Coupled
<1>5. next' \in {next, Firmware!Switched(next, e)}
  BY DEF Firmware!Swap, Firmware!At
<1>6. Coupled'
  BY <1>1, <1>4, <1>5 DEF IInv, Coupled
<1>7. ASSUME dl' \in {"idle", "inprogress", "failed"} PROVE Cabled'
  BY <1>1, <1>4, <1>5, <1>7 DEF IInv, TypeInv, Cabled
<1>8. CASE next' = Firmware!Switched(next, e) /\ Firmware!Continue(Tail(s)) /\ UNCHANGED dl
  <2>1. /\ Control' /\ Owned' /\ Req' = Req
        /\ job'.todo = Tail(s) /\ job'.info = job.info /\ job'.settled = job.settled
    BY <1>1, <1>8, TailContinued
  <2>2. /\ \A d : Firmware!Mine(d)' = Firmware!Mine(d)
        /\ \A x : Performs(x)' <=> Performs(x)
    BY <2>1, SameInfo
  <2>3. ASSUME NEW d \in Firmware!Dests PROVE Brought(d)'
    <3>1. Brought(d) /\ Planned(s, e)
      BY <1>1, <1>2, SwitchRest, SwitchBrought
    <3>2. Head(Tail(s)).at = e /\ Head(Tail(s)).kind = "bit"
      BY <1>1, <1>2, SwitchRest DEF Firmware!Step
    <3>3. CASE EndOf(d) = e
      BY <1>1, <1>3, <1>4, <1>8, <2>1, <2>2, <3>1, <3>2, <3>3 DEF Brought, Unmoved
    <3>4. CASE EndOf(d) # e
      BY <1>1, <1>3, <1>4, <1>8, <2>1, <2>2, <3>1, <3>4 DEF Brought, Unmoved
    <3> QED BY <3>3, <3>4
  <2>4. Programmed'
    BY <1>1, <1>2, <2>1, <2>3, SwitchGoesOn DEF IInv
  <2>5. Cabled'
    BY <1>7, <1>8 DEF IInv, TypeInv, Cabled
  <2> QED BY <1>6, <2>1, <2>4, <2>5 DEF IInv, TypeInv
<1>9. CASE Firmware!Fail(t)
  BY <1>2, <1>6, <1>7, <1>9, FailedStep
<1> QED BY <1>8, <1>9 DEF Firmware!Swap, Firmware!At

(* WARM_BOOT. *)
LEMMA WarmBootStep == ASSUME Firmware!FirmwareAssumption, IInv, NEW t \in Threads, Firmware!WarmBoot(t)
      PROVE IInv'
<1> DEFINE s == job.todo
           e == Head(s).at
<1>1. Firmware!Running(t) /\ Head(s).kind = "warm" /\ UNCHANGED <<host, prompt, img, session, bits>>
  BY DEF Firmware!WarmBoot, Firmware!Is
<1>2. /\ s # <<>> /\ Req \in Firmware!Requests /\ job \in Jobs /\ holder = t /\ Switches
      /\ Req.op \in {"activate", "rollback"}
  BY <1>1, Held, KindOf
<1>3. e \in Firmware!Ends /\ \A x : Planned(Tail(s), x) <=> Planned(s, x) /\ ~(x = e)
  BY <1>1, <1>2, SwitchRest
<1>4. /\ Firmware!Switched(next, e) \in [Firmware!Dests -> Firmware!Banks]
          /\ Firmware!Switched(cur, e) \in [Firmware!Dests -> Firmware!Banks]
      /\ \A d \in Firmware!Dests : /\ Firmware!Switched(next, e)[d] = IF EndOf(d) = e
                                       THEN Firmware!Other(cur[d]) ELSE next[d]
                                   /\ Firmware!Switched(cur, e)[d] = IF EndOf(d) = e
                                       THEN Firmware!Other(cur[d]) ELSE cur[d]
      /\ Firmware!Switched(next, e)["mux"] = Firmware!Switched(next, e)["nic"]
          /\ Firmware!Switched(cur, e)["mux"] = Firmware!Switched(cur, e)["nic"]
  BY <1>3, SwitchedType DEF IInv, TypeInv, Cabled, Coupled
<1>5. \/ next' = next /\ cur' = cur
      \/ next' = Firmware!Switched(next, e) /\ cur' = Firmware!Switched(cur, e)
  BY DEF Firmware!WarmBoot, Firmware!At
<1>6. Coupled'
  BY <1>1, <1>4, <1>5 DEF IInv, Coupled
<1>7. ASSUME dl' \in {"idle", "inprogress", "failed"} PROVE Cabled'
  BY <1>1, <1>4, <1>5, <1>7 DEF IInv, TypeInv, Cabled
<1>8. CASE next' = Firmware!Switched(next, e) /\ Firmware!Continue(Tail(s)) /\ UNCHANGED dl
  <2>1. /\ Control' /\ Owned' /\ Req' = Req
        /\ job'.todo = Tail(s) /\ job'.info = job.info /\ job'.settled = job.settled
    BY <1>1, <1>8, TailContinued
  <2>2. /\ \A d : Firmware!Mine(d)' = Firmware!Mine(d)
        /\ \A x : Performs(x)' <=> Performs(x)
    BY <2>1, SameInfo
  <2>3. ASSUME NEW d \in Firmware!Dests PROVE Brought(d)'
    <3>1. Brought(d) /\ Planned(s, e) /\ cur[d] \in Firmware!Banks
      BY <1>1, <1>2, SwitchRest, SwitchBrought DEF IInv, TypeInv, Cabled
    <3>2. CASE EndOf(d) = e
      <4>1. job.settled => next'[d] # next[d]
        BY <1>4, <1>8, <3>1, <3>2, OtherBank DEF Brought, Unmoved
      <4>2. job.settled => cur'[d] = Firmware!Other(cur[d]) /\ next'[d] = Firmware!Other(cur[d])
        BY <1>4, <1>5, <1>8, <3>2, <4>1
      <4> QED BY <1>1, <1>3, <2>1, <2>2, <3>1, <3>2, <4>2 DEF Brought, Unmoved
    <3>3. CASE EndOf(d) # e
      <4>1. cur'[d] = cur[d] /\ next'[d] = next[d]
        BY <1>4, <1>5, <1>8, <3>3
      <4> QED BY <1>1, <1>3, <2>1, <2>2, <3>1, <3>3, <4>1 DEF Brought, Unmoved
    <3> QED BY <3>2, <3>3
  <2>4. Programmed'
    BY <1>1, <1>2, <2>1, <2>3, SwitchGoesOn DEF IInv
  <2>5. Cabled'
    BY <1>7, <1>8 DEF IInv, TypeInv, Cabled
  <2> QED BY <1>6, <2>1, <2>4, <2>5 DEF IInv, TypeInv
<1>9. CASE Firmware!Fail(t)
  BY <1>2, <1>6, <1>7, <1>9, FailedStep
<1> QED BY <1>8, <1>9 DEF Firmware!WarmBoot, Firmware!At

(* The two steps of a reset. *)
LEMMA ResetProgram ==
    ASSUME NEW e \in Firmware!Ends
    PROVE  /\ Firmware!reset(e) \in Seq(Steps) /\ Firmware!reset(e) # <<>>
               /\ <<Firmware!Step("wait", e)>> \in Seq(Steps)
           /\ Head(Firmware!reset(e)) = Firmware!Step("bit", e)
               /\ Tail(Firmware!reset(e)) = <<Firmware!Step("wait", e)>>
           /\ Head(<<Firmware!Step("wait", e)>>) = Firmware!Step("wait", e)
               /\ <<Firmware!Step("wait", e)>> # <<>>
<1>1. Firmware!Step("bit", e) \in Steps /\ Firmware!Step("wait", e) \in Steps
  BY StepType DEF Kinds, Firmware!Dests
<1>2. <<Firmware!Step("wait", e)>> \in Seq(Steps)
      /\ <<Firmware!Step("bit", e), Firmware!Step("wait", e)>> \in Seq(Steps)
  BY <1>1
<1> QED BY <1>2 DEF Firmware!reset

(* A reset bit, which replaces that of the other end. *)
LEMMA SetBitStep == ASSUME Firmware!FirmwareAssumption, IInv, NEW t \in Threads, Firmware!SetBit(t) PROVE IInv'
<1> DEFINE s == job.todo
           e == Head(s).at
           j == [job EXCEPT !.todo = Tail(@), !.reset = {}]
<1>1. Firmware!Running(t) /\ Head(s).kind = "bit" /\ UNCHANGED <<host, prompt, cur, next, img, session>>
  BY DEF Firmware!SetBit, Firmware!Is
<1>2. /\ s \in Seq(Steps) /\ s # <<>> /\ Req \in Firmware!Requests /\ job \in Jobs /\ holder = t
      /\ Req.op = "reset" \/ (Req.op \in {"activate", "rollback"} /\ Switches)
      /\ Req.op = "reset" => Resets
  BY <1>1, Held, KindOf
<1>3. e \in Firmware!Ends
  <2>1. CASE Req.op = "reset"
    <3>1. Req.at \in Firmware!Ends
      BY <1>2, RequestShape
    <3>2. e = Req.at
      BY <1>2, <2>1, <3>1, ResetProgram DEF Resets, Firmware!Step
    <3> QED BY <3>1, <3>2
  <2>2. CASE Req.op # "reset"
    BY <1>2, <2>2, SwitchRest
  <2> QED BY <2>1, <2>2
<1>4. Coupled'
  BY <1>1 DEF IInv, Coupled
<1>5. bits' \in {bits, IF e = "self" THEN bits \cup {"self"} ELSE (bits \cap {"self"}) \cup {e}}
  BY DEF Firmware!SetBit, Firmware!At
<1>6. ASSUME dl' \in {"idle", "inprogress", "failed"} PROVE Cabled'
  BY <1>1, <1>3, <1>5, <1>6 DEF IInv, TypeInv, Cabled
<1>7. CASE /\ bits' = IF Firmware!At = "self" THEN bits \cup {"self"}
               ELSE (bits \cap {"self"}) \cup {Firmware!At}
           /\ job' = j /\ Firmware!Silent /\ UNCHANGED <<asked, holder, calls, dl>>
  <2>1. Tail(s) \in Seq(Steps)
    BY <1>2, TailOf
  <2>2. j \in Jobs /\ j.todo = Tail(s) /\ j.info = job.info /\ j.settled = job.settled
    BY <1>2, <2>1 DEF Jobs, Programs
  <2> HIDE DEF j
  <2>3. Control' /\ Owned' /\ Req' = Req
    BY <1>1, <1>7, <2>2, Continued DEF IInv
  <2>4. e \in bits'
    BY <1>7 DEF Firmware!At
  <2>5. Cabled'
    BY <1>6, <1>7 DEF IInv, TypeInv, Cabled
  <2>6. CASE Req.op = "reset"
    <3>1. Req.at \in Firmware!Ends
      BY <1>2, RequestShape
    <3>2. s = Firmware!reset(Req.at) /\ e = Req.at /\ Tail(s) = <<Firmware!Step("wait", Req.at)>>
      BY <1>1, <1>2, <2>6, <3>1, ResetProgram DEF Resets, Firmware!Step
    <3>3. Resets'
      BY <1>7, <2>2, <2>3, <2>4, <3>2 DEF Resets
    <3>4. ~Req.hitless
      BY <1>2, <2>6, RequestShape
    <3>5. Programmed'
      BY <2>3, <2>6, <3>3, <3>4 DEF Programmed
    <3> QED BY <1>4, <2>3, <2>5, <3>5 DEF IInv, TypeInv
  <2>7. CASE Req.op \in {"activate", "rollback"} /\ Switches
    <3>1. /\ \A d : Firmware!Mine(d)' = Firmware!Mine(d)
          /\ \A x : Performs(x)' <=> Performs(x)
      BY <1>7, <2>2, <2>3, SameInfo
    <3>2. \A x : Planned(Tail(s), x) <=> Planned(s, x)
      BY <1>1, <1>2, <2>7, SwitchRest
    <3>3. Head(Tail(s)).at = e
      BY <1>1, <1>2, <2>7, SwitchRest DEF Firmware!Step
    <3>4. ASSUME NEW d \in Firmware!Dests PROVE Brought(d)'
      <4>1. Brought(d)
        BY <2>7, SwitchBrought
      <4>2. CASE EndOf(d) = e
        BY <1>1, <1>7, <2>2, <2>4, <3>1, <3>2, <3>3, <4>1, <4>2 DEF Brought, Unmoved
      <4>3. CASE EndOf(d) # e
        BY <1>1, <1>7, <2>2, <3>1, <3>2, <4>1, <4>3 DEF Brought, Unmoved
      <4> QED BY <4>2, <4>3
    <3>5. Programmed'
      BY <1>1, <1>2, <1>7, <2>2, <2>3, <2>7, <3>4, SwitchGoesOn DEF IInv
    <3> QED BY <1>4, <2>3, <2>5, <3>5 DEF IInv, TypeInv
  <2> QED BY <1>2, <2>6, <2>7
<1>8. CASE Firmware!Return(t, "false") /\ UNCHANGED dl
  <2>1. Cabled' /\ "false" \in Firmware!Verdicts
    BY <1>6, <1>8 DEF IInv, TypeInv, Cabled, Firmware!Verdicts
  <2> QED BY <1>2, <1>4, <1>8, <2>1, ReturnedStep
<1>9. CASE Firmware!Fail(t)
  BY <1>2, <1>4, <1>6, <1>9, FailedStep
<1> QED BY <1>7, <1>8, <1>9 DEF Firmware!SetBit

-------------------------------------------------------------------------------
(* Waiting, the MCU, calls and the lock.                                     *)

(* The next step of a toggle or warm boot that leaves the cable alone.       *)
LEMMA SwitchWaits ==
    ASSUME IInv, job.todo # <<>>, Switches, Req.op \in {"activate", "rollback"},
           Head(job.todo).kind \in {"waitBit0", "boot"}, UNCHANGED Firmware!Cable,
           Req' = Req, job'.todo = Tail(job.todo), job'.info = job.info, job'.settled = job.settled,
           Head(job.todo).kind = "boot" /\ prompt => Head(job.todo).at \notin bits
    PROVE  Programmed'
<1> DEFINE s == job.todo
           e == Head(s).at
<1>1. job \in Jobs
  BY DEF IInv, TypeInv, Control
<1>2. /\ \A d : Firmware!Mine(d)' = Firmware!Mine(d)
      /\ \A x : Performs(x)' <=> Performs(x)
  BY SameInfo
<1>3. \A x : Planned(Tail(s), x) <=> Planned(s, x)
  BY <1>1, SwitchRest
<1>4. Head(s).kind = "waitBit0" => Head(Tail(s)).at = e
  BY <1>1, SwitchRest DEF Firmware!Step
<1>5. ASSUME NEW d \in Firmware!Dests PROVE Brought(d)'
  <2>1. Brought(d)
    BY SwitchBrought
  <2>2. CASE EndOf(d) = e
    BY <1>2, <1>3, <1>4, <2>1, <2>2 DEF Brought, Unmoved, Firmware!Cable
  <2>3. CASE EndOf(d) # e
    BY <1>2, <1>3, <2>1, <2>3 DEF Brought, Unmoved, Firmware!Cable
  <2> QED BY <2>2, <2>3
<1> QED BY <1>1, <1>5, SwitchGoesOn DEF IInv, Firmware!Cable

(* The wait for a reset. *)
LEMMA WaitStep == ASSUME Firmware!FirmwareAssumption, IInv, NEW t \in Threads, Firmware!Wait(t) PROVE IInv'
<1> DEFINE s == job.todo
<1>1. Firmware!Running(t) /\ Head(s).kind \in {"wait", "waitBit0"} /\ UNCHANGED Firmware!Cable
  BY DEF Firmware!Wait, Firmware!Is
<1>2. /\ s \in Seq(Steps) /\ s # <<>> /\ Req \in Firmware!Requests /\ Req = asked[t] /\ job \in Jobs
          /\ holder = t
      /\ Req.op = "reset" \/ (Req.op \in {"activate", "rollback"} /\ Switches /\ Head(s).kind = "waitBit0")
  BY <1>1, Held, KindOf
<1>3. Coupled' /\ (dl' \in {"idle", "inprogress", "failed"} => Cabled')
  BY <1>1, SameCabled DEF IInv, TypeInv, Coupled, Firmware!Cable
<1>4. "true" \in Firmware!Verdicts /\ "false" \in Firmware!Verdicts /\ dl \in {"idle", "inprogress", "failed"}
  BY DEF Firmware!Verdicts, IInv, TypeInv, Cabled
<1>5. CASE Firmware!Return(t, "true") /\ UNCHANGED dl
  BY <1>2, <1>3, <1>4, <1>5, ReturnedStep
<1>6. CASE Firmware!Return(t, "false") /\ UNCHANGED dl
  BY <1>2, <1>3, <1>4, <1>6, ReturnedStep
<1>7. CASE Firmware!Fail(t)
  BY <1>2, <1>3, <1>7, FailedStep
<1>8. CASE Req.op # "reset" /\ Firmware!Continue(Tail(s)) /\ UNCHANGED dl
  <2>1. /\ Control' /\ Owned' /\ Req' = Req
        /\ job'.todo = Tail(s) /\ job'.info = job.info /\ job'.settled = job.settled
    BY <1>1, <1>8, TailContinued
  <2>2. Programmed'
    BY <1>1, <1>2, <1>8, <2>1, SwitchWaits
  <2> QED BY <1>3, <1>4, <1>8, <2>1, <2>2 DEF IInv, TypeInv
<1> QED BY <1>2, <1>5, <1>6, <1>7, <1>8 DEF Firmware!Wait

(* BOOT_STATUS. *)
LEMMA BootStep == ASSUME Firmware!FirmwareAssumption, IInv, NEW t \in Threads, Firmware!Boot(t) PROVE IInv'
<1> DEFINE s == job.todo
<1>1. Firmware!Running(t) /\ Head(s).kind = "boot" /\ UNCHANGED Firmware!Cable
  BY DEF Firmware!Boot, Firmware!Is
<1>2. /\ s \in Seq(Steps) /\ s # <<>> /\ holder = t
      /\ Req.op \in {"activate", "rollback"} /\ Switches
  BY <1>1, Held, KindOf
<1>3. Coupled' /\ (dl' \in {"idle", "inprogress", "failed"} => Cabled')
  BY <1>1, SameCabled DEF IInv, TypeInv, Coupled, Firmware!Cable
<1>4. dl \in {"idle", "inprogress", "failed"}
  BY DEF IInv, TypeInv, Cabled
<1>5. CASE (prompt => Firmware!At \notin bits) /\ Firmware!Proceed(t) /\ UNCHANGED dl
  <2>1. Control' /\ Owned'
    BY <1>1, <1>5, Proceeded
  <2>2. CASE job' = Firmware!NoJob /\ Programmed'
    BY <1>3, <1>4, <1>5, <2>1, <2>2 DEF IInv, TypeInv
  <2>3. CASE Req' = Req /\ job'.todo = Tail(s) /\ job'.info = job.info /\ job'.settled = job.settled
    <3>1. Programmed'
      BY <1>1, <1>2, <1>5, <2>3, SwitchWaits DEF Firmware!At
    <3> QED BY <1>3, <1>4, <1>5, <2>1, <3>1 DEF IInv, TypeInv
  <2> QED BY <1>1, <1>5, <2>2, <2>3, Proceeded
<1>6. CASE Firmware!Fail(t)
  BY <1>2, <1>3, <1>6, FailedStep
<1> QED BY <1>5, <1>6 DEF Firmware!Boot

(* The MCU resets an end, at any time of any call. *)
LEMMA McuResetStep == ASSUME Firmware!FirmwareAssumption, IInv, Firmware!McuReset PROVE IInv'
<1>1. PICK e \in bits :
          /\ bits' = bits \ {e}
          /\ cur' = [d \in Firmware!Dests |-> IF d = e \/ (e = "nic" /\ d = "mux") THEN next[d] ELSE cur[d]]
          /\ job' = [job EXCEPT !.reset = IF job.todo = <<>> THEN {} ELSE @ \cup {e}]
          /\ session' = IF session.at = e THEN Firmware!NoSession ELSE session
  BY DEF Firmware!McuReset
<1>2. Firmware!Silent /\ UNCHANGED <<host, prompt, next, img, holder, asked, dl, calls>>
  BY DEF Firmware!McuReset
<1>3. e \in Firmware!Ends /\ e \in Firmware!Dests
  BY <1>1 DEF IInv, TypeInv, Cabled, Firmware!Dests
<1>4. \A d \in Firmware!Dests : cur'[d] = IF EndOf(d) = e THEN next[d] ELSE cur[d]
  BY <1>1, <1>3, Ending
<1>5. cur' \in [Firmware!Dests -> Firmware!Banks]
  BY <1>1 DEF IInv, TypeInv, Cabled
<1>6. /\ job' \in Jobs /\ job'.todo = job.todo /\ job'.info = job.info /\ job'.settled = job.settled
      /\ job.todo # <<>> => job'.reset = job.reset \cup {e}
  <2>1. job \in Jobs
    BY DEF IInv, TypeInv, Control
  <2> QED BY <1>1, <1>3, <2>1 DEF Jobs
<1>7. Req' = Req
  BY <1>2 DEF Req
<1>8. Coupled'
  <2>1. "nic" \in Firmware!Dests /\ "mux" \in Firmware!Dests /\ EndOf("nic") = "nic" /\ EndOf("mux") = "nic"
    BY DEF EndOf, Firmware!Dests, Firmware!Ends
  <2> QED BY <1>2, <1>4, <2>1 DEF IInv, Coupled
<1>9. /\ session' \in [at : Firmware!Dests \cup {"none"}, packets : 0..Packets]
      /\ session' = session \/ session'.packets = 0
  BY <1>1, NoSessionType DEF IInv, TypeInv, Cabled
<1>10. Control' /\ Cabled' /\ Owned'
  BY <1>1, <1>2, <1>3, <1>5, <1>6, <1>9 DEF IInv, TypeInv, Control, Cabled, Owned, Firmware!Silent,
     Firmware!Verdicts
<1>11. next = cur => \A d \in Firmware!Dests : cur'[d] = cur[d]
  BY <1>4
<1>12. next = cur => cur' = cur
  BY <1>5, <1>11 DEF IInv, TypeInv, Cabled
<1>13. ASSUME job.todo # <<>>, Downloads PROVE Downloads'
  <2>1. Loads(job.todo, session.packets) => Loads(job.todo, session'.packets)
    <3>1. session.packets \in Nat /\ Packets \in Nat
      BY DEF IInv, TypeInv, Cabled, Firmware!FirmwareAssumption
    <3>2. \A n \in 0..Packets - 1 : session.packets + n + 1 <= Packets => 0 + n + 1 <= Packets
      BY <3>1
    <3> QED BY <1>9, <3>2 DEF Loads
  <2> QED BY <1>2, <1>6, <1>12, <1>13, <2>1 DEF Downloads, Firmware!Inactive
<1>14. ASSUME job.todo # <<>>, Asks PROVE Asks'
  BY <1>2, <1>6, <1>12, <1>14 DEF Asks, Known
<1>15. ASSUME job.todo # <<>>, Switches PROVE Switches'
  <2>1. /\ Firmware!Matches' <=> Firmware!Matches
        /\ Firmware!SparesGood' <=> Firmware!SparesGood
        /\ \A d : Firmware!Mine(d)' = Firmware!Mine(d)
        /\ \A x : Performs(x)' <=> Performs(x)
    BY <1>6, <1>7, SameInfo
  <2>2. ASSUME NEW d \in Firmware!Dests PROVE Brought(d)'
    <3>1. Brought(d)
      BY <1>15, SwitchBrought
    <3>2. CASE EndOf(d) = e
      BY <1>2, <1>4, <1>6, <2>1, <3>1, <3>2 DEF Brought, Unmoved
    <3>3. CASE EndOf(d) # e
      <4>1. EndOf(d) \in bits => EndOf(d) \in bits'
        BY <1>1, <3>3
      <4> QED BY <1>2, <1>4, <1>6, <2>1, <3>1, <3>3, <4>1 DEF Brought, Unmoved
    <3> QED BY <3>2, <3>3
  <2> QED BY <1>2, <1>6, <1>7, <1>15, <2>1, <2>2 DEF Switches, Brought
<1>16. ASSUME job.todo # <<>>, Resets PROVE Resets'
  BY <1>1, <1>6, <1>7, <1>16 DEF Resets
<1>17. Hitless => Hitless'
  BY <1>2, <1>6 DEF Hitless
<1>18. Programmed'
  BY <1>6, <1>7, <1>13, <1>14, <1>15, <1>16, <1>17 DEF IInv, Programmed
<1> QED BY <1>8, <1>10, <1>18 DEF IInv, TypeInv

(* What another thread does does not concern the call with the lock.         *)
LEMMA Bystander ==
    ASSUME Programmed, UNCHANGED <<job, Firmware!Cable>>, job.todo # <<>> => Req' = Req
    PROVE  Programmed'
<1> SUFFICES ASSUME job.todo # <<>> PROVE Programmed'
  BY DEF Programmed
<1>1. Req' = Req
  OBVIOUS
<1>2. Downloads' <=> Downloads
  BY DEF Downloads, Firmware!Cable, Firmware!Inactive
<1>3. Asks' <=> Asks
  BY DEF Asks, Known, Firmware!Cable
<1>4. Resets' <=> Resets
  BY <1>1 DEF Resets, Firmware!Cable
<1>5. Hitless' <=> Hitless
  BY DEF Hitless, Firmware!Cable
<1>6. Switches' <=> Switches
  <2>1. /\ Firmware!Matches' <=> Firmware!Matches
        /\ Firmware!SparesGood' <=> Firmware!SparesGood
        /\ \A d : Firmware!Mine(d)' = Firmware!Mine(d)
        /\ \A x : Performs(x)' <=> Performs(x)
    BY <1>1, SameInfo
  <2> QED BY <1>1, <2>1 DEF Switches, Unmoved, Firmware!Cable
<1> QED BY <1>1, <1>2, <1>3, <1>4, <1>5, <1>6 DEF Programmed

(* A thread waits for the lock, *)
LEMMA CallStep == ASSUME Firmware!FirmwareAssumption, IInv, NEW t \in Threads, Firmware!Call(t) PROVE IInv'
<1>1. /\ asked[t] = Firmware!None /\ asked' = [asked EXCEPT ![t] = Firmware!Some] /\ Firmware!Silent
          /\ calls' = calls + 1 /\ calls < MaxCalls
      /\ UNCHANGED <<holder, job, dl>> /\ UNCHANGED Firmware!Cable
  BY DEF Firmware!Call
<1>2. \A u \in Threads : asked'[u] \in Firmware!Requests => asked[u] \in Firmware!Requests
  BY <1>1, RequestShape DEF IInv, TypeInv, Control
<1>3. job.todo # <<>> => Req' = Req
  BY <1>1, RequestShape DEF IInv, TypeInv, Control, Owned, Req
<1>4. Owned'
  BY <1>1, <1>2, <1>3 DEF IInv, Owned, Req
<1>5. Control' /\ Cabled' /\ Coupled'
  BY <1>1 DEF IInv, TypeInv, Control, Cabled, Coupled, Firmware!Cable, Firmware!Silent, Firmware!Verdicts,
     Firmware!FirmwareAssumption
<1>6. Programmed'
  BY <1>1, <1>3, Bystander DEF IInv
<1> QED BY <1>4, <1>5, <1>6 DEF IInv, TypeInv

(* gives up, *)
LEMMA LockTimesOutStep == ASSUME Firmware!FirmwareAssumption, IInv, NEW t \in Threads, Firmware!LockTimesOut(t)
      PROVE IInv'
<1>1. /\ asked[t] = Firmware!Some /\ asked' = [asked EXCEPT ![t] = Firmware!None] /\ out' = "error"
      /\ UNCHANGED <<holder, job, dl, calls>> /\ UNCHANGED Firmware!Cable
  BY DEF Firmware!LockTimesOut
<1>2. \A u \in Threads : asked'[u] \in Firmware!Requests => asked[u] \in Firmware!Requests
  BY <1>1, RequestShape DEF IInv, TypeInv, Control
<1>3. job.todo # <<>> => Req' = Req
  BY <1>1, RequestShape DEF IInv, TypeInv, Control, Owned, Req
<1>4. Owned'
  BY <1>1, <1>2, <1>3 DEF IInv, Owned, Req
<1>5. Control' /\ Cabled' /\ Coupled'
  BY <1>1 DEF IInv, TypeInv, Control, Cabled, Coupled, Firmware!Cable, Firmware!Verdicts
<1>6. Programmed'
  BY <1>1, <1>3, Bystander DEF IInv
<1> QED BY <1>4, <1>5, <1>6 DEF IInv, TypeInv

(* or has it and begins. *)
LEMMA LockStep == ASSUME Firmware!FirmwareAssumption, IInv, NEW t \in Threads, Firmware!Lock(t) PROVE IInv'
<1>1. PICK r \in Firmware!Requests :
          /\ asked' = [asked EXCEPT ![t] = r]
          /\ job' = [Firmware!NoJob EXCEPT !.todo = Firmware!ProgramOf(r), !.settled = (next = cur)]
  BY DEF Firmware!Lock
<1>2. /\ asked[t] = Firmware!Some /\ holder \in {Nobody, t} /\ holder' = t /\ Firmware!Silent
      /\ UNCHANGED <<dl, calls>> /\ UNCHANGED Firmware!Cable
  BY DEF Firmware!Lock
<1>3. /\ asked' \in [Threads -> Firmware!Requests \cup {Firmware!None, Firmware!Some}] /\ asked'[t] = r
          /\ Req' = r
      /\ \A u \in Threads : u # t => asked'[u] = asked[u]
  BY <1>1, <1>2 DEF IInv, TypeInv, Control, Req
<1>4. /\ r.op \in {"download", "activate", "rollback", "version", "reset"}
      /\ r.file \in BOOLEAN /\ r.hitless \in BOOLEAN /\ r.at \in Firmware!Ends
      /\ r.hitless => r.op = "activate"
  BY RequestShape
<1>5. ASSUME r.op = "version"
      PROVE  /\ Firmware!ProgramOf(r) \in Seq(Steps) /\ Firmware!ProgramOf(r) # <<>>
             /\ \A i \in 1..Len(Firmware!ProgramOf(r)) : Firmware!ProgramOf(r)[i].kind = "info"
  <2> DEFINE a == <<Firmware!Step("info", r.at)>> b == <<Firmware!Step("info", "mux")>>
  <2>1. /\ a \in Seq(Steps) /\ b \in Seq(Steps) /\ Elems(a) = {Firmware!Step("info", r.at)}
            /\ Elems(b) = {Firmware!Step("info", "mux")}
        /\ a # <<>>
    BY <1>4, StepType, OneOf DEF Kinds, Firmware!Dests
  <2>2. Firmware!ProgramOf(r) = a \o b \/ Firmware!ProgramOf(r) = a \o <<>>
    BY <1>5 DEF Firmware!ProgramOf, Firmware!get_firmware_version, Firmware!cable_fw_get_status
  <2> HIDE DEF a, b
  <2>3. a \o <<>> = a
    BY <2>1, ConcatEmptySeq
  <2>4. a \o b \in Seq(Steps) /\ a \o b # <<>> /\ Elems(a \o b) = Elems(a) \cup Elems(b)
    BY <2>1, ConcatOf
  <2>5. /\ Firmware!ProgramOf(r) \in Seq(Steps) /\ Firmware!ProgramOf(r) # <<>>
        /\ \A x \in Elems(Firmware!ProgramOf(r)) : x.kind = "info"
    <3>1. Firmware!Step("info", r.at).kind = "info" /\ Firmware!Step("info", "mux").kind = "info"
      BY DEF Firmware!Step
    <3>2. CASE Firmware!ProgramOf(r) = a \o b
      BY <2>1, <2>4, <3>1, <3>2
    <3>3. CASE Firmware!ProgramOf(r) = a
      BY <2>1, <3>1, <3>3
    <3> QED BY <2>2, <2>3, <3>2, <3>3
  <2> QED BY <2>5 DEF Elems
<1>6. /\ r.op = "download" => Firmware!ProgramOf(r) = Firmware!download_firmware
      /\ r.op = "activate" => Firmware!ProgramOf(r) = Firmware!activate_firmware(r.file, r.hitless)
      /\ r.op = "rollback" => Firmware!ProgramOf(r) = Firmware!rollback_firmware(r.file)
      /\ r.op = "reset" => Firmware!ProgramOf(r) = Firmware!reset(r.at)
  BY DEF Firmware!ProgramOf
<1>7. Firmware!ProgramOf(r) \in Seq(Steps) /\ Firmware!ProgramOf(r) # <<>>
  BY <1>4, <1>5, <1>6, DownloadOf, ActivateOf, RollbackOf, ResetProgram
<1>8. job' \in Jobs /\ job'.todo = Firmware!ProgramOf(r) /\ job'.settled = (next = cur)
  <2> HIDE DEF Firmware!ProgramOf
  <2> QED BY <1>1, <1>7, NoJobType DEF Jobs, Programs
<1>9. Owned'
  <2>1. \A u \in Threads : asked'[u] \in Firmware!Requests => holder' = u
    BY <1>2, <1>3 DEF IInv, Owned, Firmware!FirmwareAssumption
  <2>2. holder' \in Threads /\ asked'[holder'] \in Firmware!Requests
    BY <1>2, <1>3
  <2> QED BY <2>1, <2>2 DEF Owned
<1>10. Control' /\ Cabled' /\ Coupled'
  BY <1>2, <1>3, <1>8 DEF IInv, TypeInv, Control, Cabled, Coupled, Firmware!Cable, Firmware!Silent,
     Firmware!Verdicts
<1>11. ASSUME r.op = "download" PROVE Downloads'
  BY <1>2, <1>6, <1>8, <1>11, DownloadOf DEF Downloads, Firmware!Cable
<1>12. ASSUME r.op \in {"activate", "rollback"} PROVE Asks'
  BY <1>2, <1>4, <1>6, <1>8, <1>12, ActivateOf, RollbackOf DEF Asks, Firmware!Cable
<1>13. ASSUME r.hitless PROVE Hitless'
  BY <1>4, <1>6, <1>8, <1>13, ActivateOf DEF Hitless
<1>14. ASSUME r.op = "reset" PROVE Resets'
  BY <1>3, <1>6, <1>8, <1>14 DEF Resets
<1>15. Programmed'
  BY <1>3, <1>5, <1>8, <1>11, <1>12, <1>13, <1>14 DEF Programmed
<1> QED BY <1>9, <1>10, <1>15 DEF IInv, TypeInv

-------------------------------------------------------------------------------
(* All steps, and what they promise.                                         *)

(* The first state. *)
LEMMA InitInv == Firmware!FirmwareAssumption /\ Firmware!Init => IInv
<1> SUFFICES ASSUME Firmware!FirmwareAssumption, Firmware!Init PROVE IInv
  OBVIOUS
<1>1. Control
  BY NoJobType DEF Firmware!Init, Control, Firmware!Verdicts, Firmware!FirmwareAssumption
<1>2. cur \in [Firmware!Dests -> Firmware!Banks]
  BY DEF Firmware!Init, Firmware!Banks
<1>3. Cabled
  BY <1>2, NoSessionType DEF Firmware!Init, Cabled
<1>4. Owned
  BY NoJobType, RequestShape DEF Firmware!Init, Owned
<1>5. Coupled
  BY DEF Firmware!Init, Coupled, Firmware!Dests, Firmware!Ends
<1>6. Programmed
  BY NoJobType DEF Firmware!Init, Programmed
<1> QED BY <1>1, <1>3, <1>4, <1>5, <1>6 DEF IInv, TypeInv

(* The invariant is kept by every step. *)
LEMMA StepInv == Firmware!FirmwareAssumption /\ IInv /\ [Firmware!Next]_Firmware!vars => IInv'
<1> SUFFICES ASSUME Firmware!FirmwareAssumption, IInv, [Firmware!Next]_Firmware!vars PROVE IInv'
  OBVIOUS
<1>1. CASE UNCHANGED Firmware!vars
  <2>1. UNCHANGED <<job, Firmware!Cable, holder, asked, dl, out, calls>> /\ Req' = Req
    BY <1>1 DEF Firmware!vars, Firmware!Cable, Req
  <2>2. Programmed'
    BY <2>1, Bystander DEF IInv
  <2>3. TypeInv' /\ Owned' /\ Coupled'
    BY <2>1 DEF IInv, TypeInv, Control, Cabled, Owned, Coupled, Firmware!Cable
  <2> QED BY <2>2, <2>3 DEF IInv
<1>2. CASE Firmware!McuReset
  BY <1>2, McuResetStep
<1>3. ASSUME NEW t \in Threads, Firmware!Call(t) \/ Firmware!ThreadStep(t) PROVE IInv'
  BY <1>3, CallStep, LockStep, LockTimesOutStep, InfoStep, MarkStep, StartStep, TransferStep, LastPacketStep,
     CompleteStep, DecideStep, SwapStep, WarmBootStep, SetBitStep, WaitStep, BootStep DEF Firmware!ThreadStep
<1> QED BY <1>1, <1>2, <1>3 DEF Firmware!Next

(* A hitless switch finds the two banks of the mux equal. *)
LEMMA WarmInv ==
    ASSUME Firmware!FirmwareAssumption, IInv, [Firmware!Next]_Firmware!vars
    PROVE  Firmware!WarmStepKeepsMux
<1> SUFFICES ASSUME NEW t \in Threads, Firmware!Is(t, {"warm"})
             PROVE  img["mux"][cur'["mux"]] = img["mux"][cur["mux"]]
  BY DEF Firmware!WarmStepKeepsMux
<1>1. Firmware!Running(t) /\ Head(job.todo).kind = "warm"
  BY DEF Firmware!Is
<1>2. Switches /\ job.todo # <<>> /\ Head(job.todo) \in Elems(job.todo)
  BY <1>1, Held, KindOf
<1>3. Req.hitless
  BY <1>1, <1>2 DEF Switches
<1>4. img["mux"][1] = img["mux"][2]
  <2>1. Head(job.todo) # Firmware!Step("same", "mux")
    BY <1>1 DEF Firmware!Step
  <2> QED BY <1>2, <1>3, <2>1 DEF IInv, Programmed, Hitless
<1>5. cur["mux"] \in Firmware!Banks /\ cur'["mux"] \in Firmware!Banks
  <2>1. Cabled /\ Cabled'
    BY StepInv DEF IInv, TypeInv
  <2> QED BY <2>1 DEF Cabled, Firmware!Dests
<1> QED BY <1>4, <1>5 DEF Firmware!Banks

(* Aligned ends: both banks of each hold an image. *)
LEMMA AlignedInv ==
    ASSUME Firmware!FirmwareAssumption, IInv, [Firmware!Next]_Firmware!vars
    PROVE  Firmware!AlignedStep
<1> SUFFICES ASSUME NEW t \in Threads, Firmware!Swaps(t), Firmware!RunAnImage,
      job.info["self"].mine = job.info["peer"].mine,
                    NEW d \in Firmware!Dests, next'[d] # next[d]
             PROVE  img[d][next'[d]] # "blank"
  BY DEF Firmware!AlignedStep, Firmware!IntoGoodBank
<1>1. Firmware!Running(t) /\ Head(job.todo).kind \in {"swap", "warm"} /\ ~asked[t].file
  BY DEF Firmware!Is, Firmware!Swaps
<1>2. Switches /\ Req = asked[t]
  BY <1>1, Held, KindOf
<1>3. Firmware!SparesGood /\ \A e \in Firmware!Dests : job.info[e].bank = img[e]
      /\ job.info[e].mine \in Firmware!Banks
  BY <1>1, <1>2 DEF Switches
<1>4. ~Firmware!Blank(d, job.info[d].mine)
  BY <1>3 DEF Firmware!SparesGood, Firmware!Dests, Firmware!Ends, Firmware!Blank
<1>5. img[d][job.info[d].mine] # "blank" /\ img[d][Firmware!Other(job.info[d].mine)] # "blank"
  BY <1>3, <1>4 DEF Firmware!RunAnImage, Firmware!Blank
<1>6. next'[d] \in Firmware!Banks
  <2>1. Cabled'
    BY StepInv DEF IInv, TypeInv
  <2> QED BY <2>1 DEF Cabled
<1> QED BY <1>3, <1>5, <1>6 DEF Firmware!Other, Firmware!Banks

(* The exchanges that can end a call well. *)
LEMMA EndsWell ==
    ASSUME Firmware!FirmwareAssumption, IInv, [Firmware!Next]_Firmware!vars, NEW t \in Threads,
           asked[t].op \notin {"none", "some"}, asked'[t] = Firmware!None,
                 out' \in {"success", "already", "true"}
    PROVE  Firmware!Info(t) \/ Firmware!Complete(t) \/ Firmware!Decide(t) \/ Firmware!Boot(t)
          \/ Firmware!Wait(t)
<1>1. Firmware!None.op = "none" /\ Firmware!Some.op = "some"
  BY DEF Firmware!None, Firmware!Some
<1>2. asked'[t] # asked[t]
  BY <1>1
<1>3. ~Firmware!Silent
  BY DEF Firmware!Silent
<1>4. \A u \in Threads : ~Firmware!Fail(u)
  BY DEF Firmware!Fail, Firmware!Return
<1>5. asked \in [Threads -> Firmware!Requests \cup {Firmware!None, Firmware!Some}]
  BY DEF IInv, TypeInv, Control
<1>6. ~UNCHANGED Firmware!vars /\ ~Firmware!McuReset
  BY <1>2, <1>3 DEF Firmware!vars, Firmware!McuReset
<1>7. PICK u \in Threads : Firmware!Call(u) \/ Firmware!ThreadStep(u)
  BY <1>6 DEF Firmware!Next
<1>8. ~Firmware!Call(u) /\ ~Firmware!Lock(u) /\ ~Firmware!LockTimesOut(u)
  BY <1>3 DEF Firmware!Call, Firmware!Lock, Firmware!LockTimesOut
<1>9. ~Firmware!Mark(u) /\ ~Firmware!Start(u) /\ ~Firmware!Transfer(u) /\ ~Firmware!LastPacket(u)
      /\ ~Firmware!Swap(u) /\ ~Firmware!WarmBoot(u)
  BY <1>3, <1>4 DEF Firmware!Mark, Firmware!Start, Firmware!Transfer, Firmware!LastPacket, Firmware!Swap,
     Firmware!WarmBoot, Firmware!Continue
<1>10. ~Firmware!SetBit(u)
  BY <1>3, <1>4 DEF Firmware!SetBit, Firmware!Return
<1>11. Firmware!Info(u) \/ Firmware!Complete(u) \/ Firmware!Decide(u) \/ Firmware!Boot(u) \/ Firmware!Wait(u)
  BY <1>7, <1>8, <1>9, <1>10 DEF Firmware!ThreadStep
<1>12. u = t
  <2>1. \A x \in Threads : x # u => asked'[x] = asked[x]
    BY <1>3, <1>4, <1>5, <1>11 DEF Firmware!Info, Firmware!Complete, Firmware!Decide, Firmware!Boot,
       Firmware!Wait, Firmware!Proceed, Firmware!Continue, Firmware!Return
  <2> QED BY <1>2, <2>1
<1> QED BY <1>11, <1>12

(* A reset call returns True after the reset of its end. *)
LEMMA ResetInv ==
    ASSUME Firmware!FirmwareAssumption, IInv, [Firmware!Next]_Firmware!vars
    PROVE  Firmware!ResetStep
<1> SUFFICES ASSUME NEW t \in Threads, asked[t].op = "reset", asked'[t] = Firmware!None, out' = "true"
             PROVE  asked[t].at \in job.reset
  BY DEF Firmware!ResetStep, Firmware!Returns
<1>1. Firmware!Info(t) \/ Firmware!Complete(t) \/ Firmware!Decide(t) \/ Firmware!Boot(t) \/ Firmware!Wait(t)
  BY EndsWell
<1>2. Firmware!Running(t)
  BY <1>1 DEF Firmware!Info, Firmware!Complete, Firmware!Decide, Firmware!Boot, Firmware!Wait, Firmware!Is
<1>3. Req = asked[t] /\ Req \in Firmware!Requests /\ Head(job.todo).kind \in {"bit", "wait"} /\ Resets
  BY <1>2, Held, KindOf
<1>4. Firmware!Wait(t) /\ Head(job.todo).kind = "wait"
  BY <1>1, <1>3 DEF Firmware!Info, Firmware!Complete, Firmware!Decide, Firmware!Boot, Firmware!Wait, Firmware!Is
<1>5. Req.at \in Firmware!Ends
  BY <1>3, RequestShape
<1>6. job.todo = <<Firmware!Step("wait", Req.at)>> /\ Req.at \in bits \cup job.reset /\ Firmware!At = Req.at
  <2>1. job.todo # Firmware!reset(Req.at)
    <3>1. Head(Firmware!reset(Req.at)) = Firmware!Step("bit", Req.at)
      <4> DEFINE e == Req.at
      <4>1. e \in Firmware!Ends
        BY <1>5
      <4> HIDE DEF e
      <4>2. Head(Firmware!reset(e)) = Firmware!Step("bit", e)
        BY <4>1, ResetProgram
      <4> QED BY <4>2 DEF e
    <3> QED BY <1>4, <3>1, StepParts
  <2>2. job.todo = <<Firmware!Step("wait", Req.at)>> /\ Req.at \in bits \cup job.reset
    BY <1>3, <2>1 DEF Resets
  <2>3. Head(job.todo) = Firmware!Step("wait", Req.at)
    BY <2>2
  <2> QED BY <2>2, <2>3, StepParts DEF Firmware!At
<1>7. ~Firmware!BitSeen(Firmware!At, Head(job.todo).kind)
  BY <1>4 DEF Firmware!Wait, Firmware!Return, Firmware!Fail
<1>8. Firmware!At \notin bits
  BY <1>4, <1>7 DEF Firmware!BitSeen
<1> QED BY <1>3, <1>6, <1>8

(* What the choice of a switch says of the images of an end.                 *)
LEMMA EndImages ==
    ASSUME \A d \in Firmware!Dests : Firmware!Mine(d) \in Firmware!Banks, NEW e \in Firmware!Ends
    PROVE  /\ Firmware!Matches /\ Firmware!Activation(e) # "perform" => \A d \in Firmware!Dests : EndOf(d) = e
               => Firmware!Runs(d)
           /\ Firmware!Activation(e) = "perform" => \A d \in Firmware!Dests : EndOf(d) = e => Firmware!Spare(d)
           /\ Firmware!Rollback(e) # "perform"
               /\ (\A d \in Firmware!Dests : EndOf(d) = e => Firmware!Runs(d)) =>
                 \A d \in Firmware!Dests : EndOf(d) = e => Firmware!Spare(d)
           /\ Firmware!Rollback(e) = "perform" => \E d \in Firmware!Dests : EndOf(d) = e /\ ~Firmware!Spare(d)
<1> DEFINE ds == IF e = "nic" THEN {"nic", "mux"} ELSE {e}
<1>1. \A d \in Firmware!Dests : EndOf(d) = e <=> d \in ds
  BY DEF EndOf, Firmware!Dests, Firmware!Ends
<1>2. ds \subseteq Firmware!Dests /\ ds # {}
  BY DEF Firmware!Dests, Firmware!Ends
<1>3. Firmware!Mine("mux") = Firmware!Mine("nic")
  BY DEF Firmware!Mine
<1>4. ASSUME Firmware!Matches PROVE (\A d \in ds : Firmware!Runs(d)) \/ (\A d \in ds : Firmware!Spare(d))
  <2>1. PICK b \in Firmware!Banks : \A d \in ds : Firmware!Holds(d, b)
    BY <1>4 DEF Firmware!Matches, Firmware!Ends
  <2>2. \A d \in ds : Firmware!Mine(d) \in Firmware!Banks
    BY <1>2
  <2>3. \A c \in ds, d \in ds : Firmware!Mine(c) = Firmware!Mine(d)
    BY <1>3
  <2>4. PICK c \in ds : TRUE
    BY <1>2
  <2>5. b = Firmware!Mine(c) \/ b = Firmware!Other(Firmware!Mine(c))
    BY <2>2, <2>4 DEF Firmware!Banks, Firmware!Other
  <2>6. CASE b = Firmware!Mine(c)
    BY <2>1, <2>3, <2>6 DEF Firmware!Runs
  <2>7. CASE b = Firmware!Other(Firmware!Mine(c))
    BY <2>1, <2>3, <2>7 DEF Firmware!Spare
  <2> QED BY <2>5, <2>6, <2>7
<1>5. Firmware!Activation(e) = "perform" <=> (\E d \in ds : ~Firmware!Runs(d))
      /\ (\A d \in ds : Firmware!Spare(d))
  BY DEF Firmware!Activation
<1>6. Firmware!Rollback(e) = "perform" <=> (\E d \in ds : Firmware!Runs(d))
      /\ (\E d \in ds : ~Firmware!Spare(d))
  BY DEF Firmware!Rollback
<1> HIDE DEF ds
<1> QED BY <1>1, <1>2, <1>4, <1>5, <1>6

(* A settled download leaves the image in all four inactive banks.           *)
LEMMA DownloadTold ==
    ASSUME Firmware!FirmwareAssumption, IInv, [Firmware!Next]_Firmware!vars, job.settled, NEW t \in Threads,
           asked[t].op = "download", asked'[t] = Firmware!None, out' = "success"
    PROVE  \A d \in Firmware!Dests : img'[d][Firmware!Other(cur'[d])] = "new"
<1> DEFINE s == job.todo
<1>1. Firmware!Info(t) \/ Firmware!Complete(t) \/ Firmware!Decide(t) \/ Firmware!Boot(t) \/ Firmware!Wait(t)
  BY EndsWell
<1>2. Firmware!Running(t)
  BY <1>1 DEF Firmware!Info, Firmware!Complete, Firmware!Decide, Firmware!Boot, Firmware!Wait, Firmware!Is
<1>3. Req = asked[t] /\ Downloads /\ s \in Seq(Steps) /\ s # <<>> /\ Firmware!At \in Firmware!Dests
      /\ Head(s) \in Steps
  BY <1>2, Held, KindOf
<1>4. Firmware!Info(t) \/ Firmware!Complete(t)
  BY <1>1, <1>2, <1>3, KindOf DEF Firmware!Decide, Firmware!Boot, Firmware!Wait, Firmware!Is
<1>5. \A d \in Firmware!Dests : \/ img[d][Firmware!Inactive(d)] = "new"
                                \/ Firmware!Step("info", d) \in Elems(s)
                                    \/ Firmware!Step("complete", d) \in Elems(s)
  BY <1>3 DEF Downloads
<1>6. Firmware!None # asked[t] /\ ~Firmware!Fail(t) /\ ~Firmware!Silent
  BY <1>2, <1>3, Held, RequestShape DEF Firmware!Fail, Firmware!Return, Firmware!Silent
<1>7. CASE Firmware!Info(t)
  <2>1. /\ Firmware!Wanted(t, Firmware!At) \o Tail(s) = <<>> /\ UNCHANGED Firmware!Cable
        /\ Head(s).kind \in {"parse", "info", "same"}
    <3>1. "error" # "success"
      OBVIOUS
    <3> QED BY <1>6, <1>7 DEF Firmware!Info, Firmware!Return, Firmware!Is
  <2>2. Firmware!Wanted(t, Firmware!At) \in {<<>>, Firmware!cable_fw_upgrade(Firmware!At)}
    BY DEF Firmware!Wanted
  <2>3. Firmware!cable_fw_upgrade(Firmware!At) # <<>> /\ Firmware!cable_fw_upgrade(Firmware!At) \in Seq(Steps)
        /\ <<>> \in Seq(Steps) /\ Tail(s) \in Seq(Steps)
    <3>1. Firmware!cable_fw_upgrade(Firmware!At) \in Seq(Steps)
          /\ Len(Firmware!cable_fw_upgrade(Firmware!At)) = Packets + 2
      BY <1>3, UpgradeOf
    <3>2. Len(Firmware!cable_fw_upgrade(Firmware!At)) # 0
      BY <3>1 DEF Firmware!FirmwareAssumption
    <3> QED BY <1>3, <3>1, <3>2, TailOf, EmptySeq
  <2>4. Firmware!Wanted(t, Firmware!At) = <<>> /\ Tail(s) = <<>>
    BY <2>1, <2>2, <2>3, ConcatOf
  <2>5. Elems(s) = {Head(s)}
    BY <1>3, <2>4, LastElem
  <2>6. Head(s).kind = "info" => img[Firmware!At][Firmware!Inactive(Firmware!At)] = "new"
    BY <1>3, <2>3, <2>4 DEF Firmware!Wanted, Firmware!Downloading
  <2>7. ASSUME NEW d \in Firmware!Dests PROVE img[d][Firmware!Inactive(d)] = "new"
    <3>1. Firmware!Step("complete", d) \notin Elems(s)
      <4>1. Firmware!Step("complete", d).kind = "complete"
        BY StepParts
      <4> QED BY <2>1, <2>5, <4>1
    <3>2. CASE Firmware!Step("info", d) \in Elems(s)
      <4>1. Head(s) = Firmware!Step("info", d)
        BY <2>5, <3>2
      <4>2. Head(s).kind = "info" /\ Firmware!At = d
        BY <4>1, StepParts DEF Firmware!At
      <4> QED BY <2>6, <4>2
    <3> QED BY <1>5, <3>1, <3>2
  <2> QED BY <2>1, <2>7 DEF Firmware!Cable, Firmware!Inactive
<1>8. CASE Firmware!Complete(t)
  <2>1. /\ Firmware!Proceed(t) /\ img' = [img EXCEPT ![Firmware!At][Firmware!Inactive(Firmware!At)] = "new"]
            /\ cur' = cur /\ Head(s).kind = "complete"
    BY <1>6, <1>8 DEF Firmware!Complete, Firmware!Is
  <2>2. Tail(s) = <<>>
    BY <1>2, <1>6, <2>1, Proceeded DEF Firmware!Continue
  <2>3. Elems(s) = {Head(s)}
    BY <1>3, <2>2, LastElem
  <2>4. img'[Firmware!At][Firmware!Inactive(Firmware!At)] = "new" /\ \A d \in Firmware!Dests : d # Firmware!At
        => img'[d] = img[d]
    BY <1>3, <2>1, ImageType DEF IInv, TypeInv, Firmware!Images
  <2>5. ASSUME NEW d \in Firmware!Dests, d # Firmware!At PROVE img[d][Firmware!Inactive(d)] = "new"
    <3>1. Firmware!Step("info", d).kind = "info" /\ Firmware!Step("complete", d).at = d
      BY StepParts
    <3>2. Firmware!Step("info", d) \notin Elems(s) /\ Firmware!Step("complete", d) \notin Elems(s)
      BY <2>1, <2>3, <2>5, <3>1 DEF Firmware!At
    <3> QED BY <1>5, <3>2
  <2> QED BY <2>1, <2>4, <2>5 DEF Firmware!Inactive
<1> QED BY <1>4, <1>7, <1>8

(* A settled activation or rollback that ends well: an end it has not        *)
(* switched is where it was, one it has switched goes to its other bank.     *)
LEMMA SwitchTold ==
    ASSUME Firmware!FirmwareAssumption, IInv, [Firmware!Next]_Firmware!vars, job.settled, NEW t \in Threads,
           asked[t].op \in {"activate", "rollback"}, asked[t].file, asked'[t] = Firmware!None,
           out' \in {"success", "already"}
    PROVE  /\ Req = asked[t] /\ Firmware!Matches
           /\ \A d \in Firmware!Dests :
                 /\ job.info[d].bank = img[d] /\ Firmware!Mine(d) \in Firmware!Banks
                 /\ img' = img /\ cur'[d] \in Firmware!Banks
                 /\ ~Performs(EndOf(d)) => next'[d] = Firmware!Mine(d) /\ cur'[d] = Firmware!Mine(d)
                 /\ Performs(EndOf(d)) => next'[d] = Firmware!Other(Firmware!Mine(d))
                     /\ (prompt => cur'[d] = Firmware!Other(Firmware!Mine(d)))
<1> DEFINE s == job.todo
<1>1. Firmware!Info(t) \/ Firmware!Complete(t) \/ Firmware!Decide(t) \/ Firmware!Boot(t) \/ Firmware!Wait(t)
  BY EndsWell
<1>2. Firmware!Running(t)
  BY <1>1 DEF Firmware!Info, Firmware!Complete, Firmware!Decide, Firmware!Boot, Firmware!Wait, Firmware!Is
<1>3. Req = asked[t] /\ s \in Seq(Steps) /\ s # <<>> /\ Req.op # "reset" /\ Req.op # "download"
      /\ Req.op \in {"activate", "rollback"}
  BY <1>2, Held
<1>4. Firmware!None # asked[t] /\ ~Firmware!Fail(t) /\ ~Firmware!Silent
  BY <1>2, <1>3, Held, RequestShape DEF Firmware!Fail, Firmware!Return, Firmware!Silent
<1>5. ~Firmware!Complete(t)
  BY <1>2, <1>3, KindOf DEF Firmware!Complete, Firmware!Is
<1>6. ~Firmware!Wait(t)
  BY <1>3, <1>4 DEF Firmware!Wait, Firmware!Continue
<1>7. ~Firmware!Info(t)
  <2> SUFFICES ASSUME Firmware!Info(t) PROVE FALSE
    OBVIOUS
  <2>1. Head(s).kind \in {"parse", "info", "same"}
    BY DEF Firmware!Info, Firmware!Is
  <2>2. Asks
    BY <1>2, <1>3, <2>1, KindOf
  <2>3. Tail(s) # <<>> /\ Tail(s) \in Seq(Steps)
    BY <1>3, <2>1, <2>2, AskTail, TailOf DEF Asks
  <2>4. Firmware!Wanted(t, Firmware!At) = <<>> /\ <<>> \o Tail(s) = Tail(s)
    BY <1>3, <2>3, ConcatEmptySeq DEF Firmware!Wanted, Firmware!Downloading
  <2>5. Firmware!Wanted(t, Firmware!At) \o Tail(s) = <<>>
    BY <1>4 DEF Firmware!Info, Firmware!Return
  <2> QED BY <2>3, <2>4, <2>5
<1>8. \A d \in Firmware!Dests : EndOf(d) \in Firmware!Ends /\ EndOf(d) \in Firmware!Dests
  BY DEF EndOf, Firmware!Dests, Firmware!Ends
<1>9. CASE Firmware!Decide(t)
  <2>1. UNCHANGED Firmware!Cable /\ Head(s).kind = "decide"
    BY <1>9 DEF Firmware!Decide, Firmware!Is
  <2>2. Asks
    BY <1>2, <2>1, KindOf
  <2>3. Firmware!Matches /\ \A e \in Firmware!Ends : ~Performs(e)
    <3> DEFINE r == asked[t]
               class == [e \in Firmware!Ends |->
                            IF ~r.file THEN "perform"
                            ELSE IF r.op = "activate" THEN Firmware!Activation(e) ELSE Firmware!Rollback(e)]
               toggle(e) == IF class[e] # "perform" THEN <<>>
                            ELSE IF r.hitless THEN Firmware!cable_fw_warm_boot(e)
                                  ELSE Firmware!cable_fw_bank_toggle(e)
               o == Firmware!Order(r.op)
               todo == toggle(o[1]) \o toggle(o[2]) \o toggle(o[3])
    <3>1. Firmware!Matches /\ todo = <<>>
      BY <1>3, <1>4, <1>9 DEF Firmware!Decide, Firmware!Return
    <3>2. \A e \in Firmware!Ends : class[e] = "perform" <=> Performs(e)
      BY <1>3 DEF Performs
    <3> DEFINE S == [e \in Firmware!Ends |-> toggle(e)]
    <3>3. ASSUME NEW e \in Firmware!Ends
          PROVE  /\ S[e] \in Seq(Steps) /\ SwitchShape(S[e]) /\ \A x \in Elems(S[e]) : x.at = e
                 /\ S[e] = <<>> => ~Performs(e)
      <4> HIDE DEF class
      <4>1. <<>> \in Seq(Steps) /\ SwitchShape(<<>>) /\ Elems(<<>>) = {}
        BY EmptySeq DEF SwitchShape, Elems
      <4>2. CASE S[e] = <<>>
        <5>1. Firmware!cable_fw_warm_boot(e) # <<>> /\ Firmware!cable_fw_bank_toggle(e) # <<>>
          BY ToggleOf
        <5>2. class[e] # "perform"
          BY <4>2, <5>1
        <5>3. ~Performs(e)
          BY <3>2, <5>2
        <5> HIDE DEF S
        <5> QED BY <4>1, <4>2, <5>3
      <4>3. CASE S[e] # <<>>
        <5>1. S[e] \in {Firmware!cable_fw_warm_boot(e), Firmware!cable_fw_bank_toggle(e)}
          BY <4>3
        <5> HIDE DEF S
        <5>2. \A x \in {Firmware!cable_fw_warm_boot(e), Firmware!cable_fw_bank_toggle(e)} :
                x \in Seq(Steps) /\ SwitchShape(x) /\ \A y \in Elems(x) : y.at = e
          BY ToggleOf, StepParts
        <5> QED BY <4>3, <5>1, <5>2
      <4> QED BY <4>2, <4>3
    <3>4. DOMAIN S = Firmware!Ends /\ S = [e \in Firmware!Ends |-> S[e]]
      OBVIOUS
    <3>5. todo = S[Firmware!Order(r.op)[1]] \o S[Firmware!Order(r.op)[2]] \o S[Firmware!Order(r.op)[3]]
      <4>1. Firmware!Order(r.op)[1] \in Firmware!Ends /\ Firmware!Order(r.op)[2] \in Firmware!Ends
            /\ Firmware!Order(r.op)[3] \in Firmware!Ends
        BY DEF Firmware!Order, Firmware!Ends
      <4> HIDE DEF class
      <4> QED BY <4>1
    <3> HIDE DEF S, todo, class
    <3>6. S \in [Firmware!Ends -> Seq(Steps)]
      BY <3>3, <3>4
    <3>7. \A e \in Firmware!Ends : S[e] = <<>>
      <4> DEFINE p == r.op
                 u == S[Firmware!Order(p)[1]] \o S[Firmware!Order(p)[2]] \o S[Firmware!Order(p)[3]]
      <4>1. u = <<>>
        BY <3>1, <3>5
      <4>2. \A e \in Firmware!Ends : SwitchShape(S[e]) /\ \A x \in Elems(S[e]) : x.at = e
        BY <3>3
      <4> HIDE DEF p
      <4>3. u = <<>> <=> \A e \in Firmware!Ends : S[e] = <<>>
        BY <3>6, <4>2, SwitchesInOrder
      <4> QED BY ONLY <4>1, <4>3
    <3> QED BY <3>1, <3>3, <3>7
  <2>4. \A d \in Firmware!Dests : Known(d)
    <3>1. \A d : Firmware!Step("info", d).kind = "info"
      BY DEF Firmware!Step
    <3>2. \A i \in 1..Len(s) : s[i].kind # "info"
      <4>1. Len(s) \in Nat \ {0} /\ Head(s) = s[1] /\ 1 \in 1..Len(s)
        BY <1>3, TailOf
      <4>2. AskShape(s)
        BY <2>2 DEF Asks
      <4>3. IF 1 = Len(s) THEN s[1].kind = "decide" ELSE s[1].kind \in {"same", "parse", "info"}
        BY <4>1, <4>2 DEF AskShape
      <4>4. Len(s) = 1
        BY <2>1, <4>1, <4>3
      <4> QED BY <2>1, <4>1, <4>4
    <3> QED BY <2>2, <3>1, <3>2 DEF Asks, Elems
  <2>5. next = cur /\ cur["mux"] = cur["nic"] /\ cur \in [Firmware!Dests -> Firmware!Banks]
    BY <2>2 DEF Asks, IInv, Coupled, TypeInv, Cabled
  <2>6. \A d \in Firmware!Dests : job.info[d].bank = img[d] /\ job.info[d].mine = cur[d]
    BY <2>4 DEF Known
  <2>7. \A d \in Firmware!Dests : Firmware!Mine(d) = cur[d]
    BY <1>8, <2>5, <2>6 DEF Firmware!Mine, EndOf
  <2> QED BY <1>3, <1>8, <2>1, <2>3, <2>5, <2>6, <2>7 DEF Firmware!Cable
<1>10. CASE Firmware!Boot(t)
  <2>1. UNCHANGED Firmware!Cable /\ Head(s).kind = "boot" /\ Firmware!Proceed(t)
        /\ (prompt => Firmware!At \notin bits)
    BY <1>4, <1>10 DEF Firmware!Boot, Firmware!Is
  <2>2. Switches
    BY <1>2, <2>1, KindOf
  <2>3. Tail(s) = <<>>
    BY <1>2, <1>4, <2>1, Proceeded DEF Firmware!Continue
  <2>4. \A e : ~Planned(s, e)
    <3>1. Elems(s) = {Head(s)}
      BY <1>3, <2>3, LastElem
    <3>2. \A e : Firmware!Step("swap", e).kind = "swap" /\ Firmware!Step("warm", e).kind = "warm"
      BY StepParts
    <3> QED BY <2>1, <3>1, <3>2 DEF Planned
  <2>5. \A d \in Firmware!Dests : Firmware!Mine(d) \in Firmware!Banks
    BY <1>8, <2>2 DEF Switches, Firmware!Mine, EndOf
  <2>6. \A d \in Firmware!Dests : cur[d] \in Firmware!Banks
    BY DEF IInv, TypeInv, Cabled
  <2>7. \A d \in Firmware!Dests : Brought(d)
    BY <2>2, SwitchBrought
  <2> QED BY <1>3, <2>1, <2>2, <2>4, <2>5, <2>6, <2>7
        DEF Switches, Brought, Unmoved, Firmware!Cable, Firmware!At
<1> QED BY <1>1, <1>5, <1>6, <1>7, <1>9, <1>10

(* The three promises to callers, from what the job has brought about. *)
LEMMA ToldInv ==
    ASSUME Firmware!FirmwareAssumption, IInv, [Firmware!Next]_Firmware!vars
    PROVE  Firmware!ToldStep
<1> SUFFICES ASSUME job.settled, NEW t \in Threads
             PROVE  Firmware!DownloadedEverywhere(t) /\ Firmware!ActivatedEverywhere(t)
                   /\ Firmware!RolledBackEverywhere(t)
  BY DEF Firmware!ToldStep
<1>1. Firmware!DownloadedEverywhere(t)
  BY DownloadTold DEF Firmware!DownloadedEverywhere, Firmware!Returns
<1>2. \A d \in Firmware!Dests : EndOf(d) \in Firmware!Ends
  BY DEF EndOf, Firmware!Dests, Firmware!Ends
<1>3. Firmware!ActivatedEverywhere(t)
  <2> SUFFICES ASSUME asked[t].op = "activate", asked'[t] = Firmware!None, out' \in {"success", "already"},
        asked[t].file,
                      NEW d \in Firmware!Dests
               PROVE  /\ img'[d][next'[d]] = "new" \/ img'[d][cur'[d]] = "new"
                      /\ prompt => img'[d][cur'[d]] = "new"
    BY DEF Firmware!ActivatedEverywhere, Firmware!Returns
  <2>1. /\ Req = asked[t] /\ Firmware!Matches
        /\ \A x \in Firmware!Dests :
              /\ job.info[x].bank = img[x] /\ Firmware!Mine(x) \in Firmware!Banks
              /\ img' = img
              /\ ~Performs(EndOf(x)) => next'[x] = Firmware!Mine(x) /\ cur'[x] = Firmware!Mine(x)
              /\ Performs(EndOf(x)) => next'[x] = Firmware!Other(Firmware!Mine(x))
                  /\ (prompt => cur'[x] = Firmware!Other(Firmware!Mine(x)))
    BY SwitchTold
  <2>2. Performs(EndOf(d)) <=> Firmware!Activation(EndOf(d)) = "perform"
    BY <2>1 DEF Performs
  <2>3. IF Performs(EndOf(d)) THEN Firmware!Spare(d) ELSE Firmware!Runs(d)
    BY <1>2, <2>1, <2>2, EndImages
  <2> QED BY <2>1, <2>3 DEF Firmware!Spare, Firmware!Runs, Firmware!Holds
<1>4. Firmware!RolledBackEverywhere(t)
  <2> SUFFICES ASSUME asked[t].op = "rollback", asked'[t] = Firmware!None, out' \in {"success", "already"},
        asked[t].file, prompt,
                      NEW ds \in {{"self"}, {"peer"}, {"nic", "mux"}}, \A d \in ds : img'[d][cur'[d]] = "new"
               PROVE  \A d \in ds : img'[d][Firmware!Other(cur'[d])] = "new"
    BY DEF Firmware!RolledBackEverywhere, Firmware!Returns
  <2>1. /\ Req = asked[t] /\ Firmware!Matches
        /\ \A x \in Firmware!Dests :
              /\ job.info[x].bank = img[x] /\ Firmware!Mine(x) \in Firmware!Banks
              /\ img' = img
              /\ ~Performs(EndOf(x)) => next'[x] = Firmware!Mine(x) /\ cur'[x] = Firmware!Mine(x)
              /\ Performs(EndOf(x)) => next'[x] = Firmware!Other(Firmware!Mine(x))
                  /\ (prompt => cur'[x] = Firmware!Other(Firmware!Mine(x)))
    BY SwitchTold
  <2>2. PICK e \in Firmware!Ends : ds \subseteq Firmware!Dests /\ \A d \in Firmware!Dests : d \in ds
        <=> EndOf(d) = e
    <3>1. CASE ds = {"self"}
      <4>1. "self" \in Firmware!Ends
        BY DEF Firmware!Ends
      <4> QED BY <4>1, <3>1 DEF EndOf, Firmware!Dests, Firmware!Ends
    <3>2. CASE ds = {"peer"}
      <4>1. "peer" \in Firmware!Ends
        BY DEF Firmware!Ends
      <4> QED BY <4>1, <3>2 DEF EndOf, Firmware!Dests, Firmware!Ends
    <3>3. CASE ds = {"nic", "mux"}
      <4>1. "nic" \in Firmware!Ends
        BY DEF Firmware!Ends
      <4> QED BY <4>1, <3>3 DEF EndOf, Firmware!Dests, Firmware!Ends
    <3> QED BY <3>1, <3>2, <3>3
  <2>3. Performs(e) <=> Firmware!Rollback(e) = "perform"
    BY <2>1 DEF Performs
  <2>4. CASE Performs(e)
    <3>1. PICK d \in ds : ~Firmware!Spare(d)
      BY <2>1, <2>2, <2>3, <2>4, EndImages
    <3>2. Firmware!Spare(d)
      BY <2>1, <2>2, <2>4 DEF Firmware!Spare, Firmware!Holds
    <3> QED BY <3>1, <3>2
  <2>5. CASE ~Performs(e)
    <3>1. \A d \in ds : Firmware!Runs(d) /\ cur'[d] = Firmware!Mine(d)
      BY <2>1, <2>2, <2>5 DEF Firmware!Runs, Firmware!Holds
    <3>2. \A d \in ds : Firmware!Spare(d)
      BY <2>1, <2>2, <2>3, <2>5, <3>1, EndImages
    <3> QED BY <2>1, <2>2, <3>1, <3>2 DEF Firmware!Spare, Firmware!Holds
  <2> QED BY <2>4, <2>5
<1> QED BY <1>1, <1>3, <1>4

-------------------------------------------------------------------------------
(* The driver: a behaviour of the firmware, or one of another part.          *)
FirmwareInv == part = "firmware" => IInv

LEMMA FirmwarePart ==
    [Next]_vars => /\ part' = part
                   /\ part = "firmware" => [Firmware!Next]_Firmware!vars
<1> SUFFICES ASSUME [Next]_vars
             PROVE  part' = part /\ (part = "firmware" => [Firmware!Next]_Firmware!vars)
  OBVIOUS
<1>1. CASE UNCHANGED vars
  BY <1>1 DEF vars, Firmware!vars, ofFirmware
<1>2. CASE Next
  BY <1>2 DEF Next
<1> QED BY <1>1, <1>2

LEMMA FirmwareInit == Init => FirmwareInv
<1> SUFFICES ASSUME Init, part = "firmware" PROVE IInv
  BY DEF FirmwareInv
<1>1. Firmware!Init
  BY DEF Init
<1> QED BY <1>1, PartsAssumption, InitInv

LEMMA FirmwareNext == FirmwareInv /\ [Next]_vars => FirmwareInv'
<1> SUFFICES ASSUME FirmwareInv, [Next]_vars, part' = "firmware" PROVE IInv'
  BY DEF FirmwareInv
<1>1. part = "firmware" /\ [Firmware!Next]_Firmware!vars
  BY FirmwarePart
<1> QED BY <1>1, PartsAssumption, StepInv DEF FirmwareInv

(* The variables of the firmware have their types (y_cable_broadcom.py). *)
THEOREM FirmwareTyped == Spec => [](part = "firmware" => Firmware!TypeOK)
<1>1. FirmwareInv => (part = "firmware" => Firmware!TypeOK)
  BY TypeParts DEF FirmwareInv, IInv
<1> QED
  BY <1>1, FirmwareInit, FirmwareNext, PTL DEF Spec

(* What a successful download, activation or rollback tells its caller about  *)
(* the four destinations is so (download_firmware, activate_firmware and      *)
(* rollback_firmware of y_cable_broadcom.py), for any number of packets.      *)
THEOREM ToldOfUpgrades == Spec => UpgradesAsTold
<1>1. FirmwareInv /\ [Next]_vars => [part = "firmware" => Firmware!ToldStep]_vars
  BY FirmwarePart, PartsAssumption, ToldInv DEF FirmwareInv
<1> QED
  BY <1>1, FirmwareInit, FirmwareNext, PTL DEF Spec, UpgradesAsTold

(* A hitless activation keeps the version that the mux runs                  *)
(* (activate_firmware, cable_fw_warm_boot).                                  *)
THEOREM HitlessSafe == Spec => HitlessKeepsMux
<1>1. FirmwareInv /\ [Next]_vars => [part = "firmware" => Firmware!WarmStepKeepsMux]_vars
  BY FirmwarePart, PartsAssumption, WarmInv DEF FirmwareInv
<1> QED
  BY <1>1, FirmwareInit, FirmwareNext, PTL DEF Spec, HitlessKeepsMux

(* Aligned ends are never switched to a blank bank (activate_firmware and    *)
(* rollback_firmware without a file).                                        *)
THEOREM AlignedSafe == Spec => AlignedNeverBlank
<1>1. FirmwareInv /\ [Next]_vars => [part = "firmware" => Firmware!AlignedStep]_vars
  BY FirmwarePart, PartsAssumption, AlignedInv DEF FirmwareInv
<1> QED
  BY <1>1, FirmwareInit, FirmwareNext, PTL DEF Spec, AlignedNeverBlank

(* A reset call that returns True has seen its end reset (reset). *)
THEOREM ResetSeen == Spec => ResetTrueMeansReset
<1>1. FirmwareInv /\ [Next]_vars => [part = "firmware" => Firmware!ResetStep]_vars
  BY FirmwarePart, PartsAssumption, ResetInv DEF FirmwareInv
<1> QED
  BY <1>1, FirmwareInit, FirmwareNext, PTL DEF Spec, ResetTrueMeansReset
===============================================================================
