----------------------------- MODULE DriversProofs -----------------------------
(***************************************************************************)
(* Proofs about the drivers that are programs of accesses: the vendor      *)
(* commands of the Credo cable, for any number of threads, sides and       *)
(* chunks, and then both parts together, with what RegisterProofs shows of *)
(* the calls on registers.                                                 *)
(***************************************************************************)
EXTENDS RegisterProofs

-------------------------------------------------------------------------------
(***************************************************************************)
(* The vendor commands of the Credo cable.                                 *)
(***************************************************************************)
Ops == {"start", "xfer", "complete", "uart", "uart_status", "get_info", "commit", "run", "log_clear", "log_dump",
        "tcm_read", "tcm_write", "reg_read", "reg_write", "fw_cmd_ext", "queue_info", "uart_stat", "mem_read",
        "dsp_fw_init_stat", "serdes_params"}
Polled == {"uart_status", "log_dump"}
Updates == {"start", "xfer", "complete", "uart", "commit", "run"}
Opcodes == Ops \cup {"fwupd", "eventlog"}
Vals == {<<>>} \cup {Vsc!One(n) : n \in Nat \cup Sides} \cup {Vsc!All(S, 1) : S \in SUBSET Sides}

(* What changes which image a side runs, now or at its next reset. *)
IsAct(a) == a.do = "command" /\ a.reg \in {"commit", "run"}

(* The steps that a call may have left to do, *)
Steps ==
    {a \in [do : {"lock", "unlock", "load", "command", "fetch", "more", "any"},
            reg : Ops \cup {"none", "buffer", "found"}, val : Vals, fails : {"stop", "ignore", "retry"}] :
        /\ a.do = "command" => a.reg \in Ops
        /\ a.do = "fetch" => a.reg \in Ops \ (Polled \cup Updates)
        /\ a.do = "more" => a.reg \in Polled
        /\ a.do = "load" \/ a.fails = "retry" => \E k \in 1..Chunks : a.val = Vsc!One(k)
        /\ a.fails = "retry" => a.do = "command" /\ a.reg = "xfer"
        /\ IsAct(a) => a.fails = "stop"}
Outside == {"lock", "any"}

(* their order: what is behind the lock comes after it, an answer is read    *)
(* after its command, and a commit is followed by the run of the same sides; *)
Follows(a, b) ==
    /\ a.do \in {"unlock", "any"} => b.do \in Outside
    /\ b.do = "fetch" => a.do = "command" /\ a.reg = b.reg /\ a.val = b.val
    /\ b.do = "more" => a.do = "command" /\ a.reg = b.reg
    /\ a.do = "command" /\ a.reg = "commit" => b.do = "command" /\ b.reg = "run" /\ b.val = a.val
Sound(s) ==
    /\ \A i \in 1..Len(s) - 1 : Follows(s[i], s[i + 1])
    /\ s # <<>> => s[Len(s)].do = "unlock"

(* sides are chosen when every answer is read, and before anything is done   *)
(* to them;                                                                  *)
Ordered(s) ==
    \A i, j \in 1..Len(s) : i < j =>
        /\ s[i].do = "any" => s[j].do \notin {"fetch", "any"}
        /\ s[j].do = "any" => ~IsAct(s[i])

(* and what may be repeated. *)
NoRetry(s) == \A a \in Elems(s) : a.fails # "retry"
NoLog(s) == \A a \in Elems(s) : a.do = "more" => a.reg # "log_dump"

Goals == [kind : {"nothing", "download", "activate", "activate file", "reset"}, reg : {"none"}, val : Vals]
Runs ==
    [todo : Seq(Steps), goal : Goals, phase : {"next", "opcode", "wait"}, found : SUBSET Sides, tries : Nat,
     alone : BOOLEAN, blind : BOOLEAN, returned : {"nothing", "ok", "error"}]
Pages ==
    [op : Ops \cup {"none"}, arg : Vals, opcode : Opcodes \cup {"none"}, by : Threads \cup {Nobody},
     status : {"ok", "error", "uart timeout"}, answer : (Ops \cup {"none", "other"}) \X Vals, buffer : 0..Chunks]
Firmwares ==
    [active : [Sides -> Vsc!Images], inactive : [Sides -> Vsc!Images], next : [Sides -> {"active", "inactive"}],
     chunks : SUBSET (1..Chunks), stage : Vsc!Stages]

VscTyped ==
    /\ mcu \in {"timely", "late", "lossy"} /\ family \in {"chip", "diagnostics", "firmware"}
    /\ holder \in Threads \cup {Nobody}
    /\ page \in Pages /\ (page.opcode # "none" => page.by \in Threads)
    /\ fw \in Firmwares /\ run \in [Threads -> Runs]
    /\ lost \in 0..MaxLost /\ ran \in SUBSET Threads /\ good \in SUBSET Threads /\ left \in SUBSET Sides
    /\ calls \in [Threads -> 0..MaxCalls]

(* What a call does to images is what it promises: an activation commits and *)
(* runs the sides of its goal, once they are chosen.                         *)
Chosen(s) == \A a \in Elems(s) : a.do # "any"
Resetting(a) == a.do \in {"lock", "unlock"} \/ (a.do = "command" /\ a.reg = "run")
Acting(r) ==
    /\ Ordered(r.todo)
    /\ \A a \in Elems(r.todo) : IsAct(a) =>
        /\ r.goal.kind \in {"activate", "activate file", "reset"}
        /\ r.goal.kind = "activate" => a.val = r.goal.val /\ a.val # <<>>
        /\ r.goal.kind = "activate file" => a.val = <<>>
    /\ r.goal.kind = "reset" => \A a \in Elems(r.todo) : Resetting(a)
    /\ Chosen(r.todo) /\ r.goal.kind = "activate file" =>
        r.found = DOMAIN r.goal.val /\ \A a \in Elems(r.todo) : a.do # "fetch"
    /\ ~Chosen(r.todo) => r.goal.kind = "activate file"

(* A thread behind the lock holds it; one that waits for a command is behind *)
(* it; and so on.                                                            *)
InOrder(r) ==
    /\ r.todo = <<>> => r = Vsc!Returned(r.returned)
    /\ Sound(r.todo)
    /\ \/ r.tries \in 0..Retries /\ NoLog(r.todo)
       \/ r.tries \in 0..Cycles /\ NoRetry(r.todo)
    /\ r.phase # "next" => r.todo # <<>> /\ Head(r.todo).do = "command"
    /\ Acting(r)
Behind(r) == r.todo # <<>> /\ Head(r.todo).do \notin Outside
VscOrderly == \A t \in Threads : InOrder(run[t]) /\ (Behind(run[t]) => holder = t)

VscBase == VscTyped /\ VscOrderly

(* Who is counted among whom while a timely MCU answers: one command is      *)
(* under way, that of a thread that waits for it, and one that has been      *)
(* answered was carried out.                                                 *)
VscChannel ==
    mcu = "timely" =>
        /\ family = "firmware" => ran = {} /\ good = {}
        /\ page.opcode # "none" => run[page.by].phase = "wait" /\ page.by \notin ran \cup good
        /\ \A t \in Threads :
            /\ run[t].phase = "opcode" => t \notin ran \cup good
            /\ run[t].phase = "wait" => t \notin good
            /\ run[t].phase = "wait" /\ page.opcode = "none" /\ family # "firmware" => t \in ran

(* As long as no write is lost the page holds the command of the thread that *)
(* is at it.                                                                 *)
VscPage ==
    /\ mcu # "lossy" => lost = 0
    /\ lost = 0 => \A t \in Threads :
        /\ run[t].phase # "next" => page.op = Vsc!Step(t).reg /\ page.arg = Vsc!Argument(t)
        /\ run[t].phase = "wait" /\ page.opcode # "none" => page.opcode = Vsc!Opcode(Vsc!Step(t).reg) /\ page.by = t

(* A command that has an answer of its own has left it there. *)
Answered == Ops \ (Polled \cup Updates \cup {"get_info"})
VscAnswer ==
    mcu = "timely" => \A t \in Threads : run[t].todo # <<>> /\ Vsc!Step(t).reg \in Answered =>
        /\ run[t].phase = "wait" /\ page.opcode = "none" /\ page.status = "ok"
               => page.answer = <<Vsc!Step(t).reg, Vsc!Step(t).val>>
        /\ Vsc!Step(t).do = "fetch" /\ t \in good => page.answer = <<Vsc!Step(t).reg, Vsc!Step(t).val>>

(* Who resets has one call. *)
VscCalls ==
    /\ \A t \in Threads : t \in Installers => run[t].goal.kind # "reset"
    /\ \A t \in Threads : run[t].todo # <<>> /\ family = "firmware" => calls[t] # 0
    /\ page.opcode # "none" /\ family = "firmware" => calls[page.by] # 0
    /\ family # "firmware" => \A t \in Threads : run[t].goal.kind = "nothing"

(* The thread that activates a side has committed it, or is about to, and    *)
(* has not run it.                                                           *)
Activating(t, s) ==
    /\ run[t].todo # <<>> /\ run[t].goal.kind \in {"activate", "activate file"} /\ s \in DOMAIN run[t].goal.val
    /\ IsAct(Vsc!Step(t)) /\ (Vsc!Step(t).reg = "commit" => run[t].phase # "next")
Excused(s) == s \in left \/ \E t \in Threads : Activating(t, s)
VscReset ==
    lost = 0 =>
        /\ \A s \in Sides : fw.next[s] = "inactive" => Excused(s)
        /\ page.op = "commit" => \A s \in DOMAIN page.arg : Excused(s)
        /\ \A t \in Threads :
            run[t].phase = "wait" /\ Vsc!Step(t).reg = "run" /\ page.opcode = "none" /\ page.status = "ok"
                => \A s \in DOMAIN page.arg : fw.next[s] # "inactive"
        /\ page.opcode # "none" /\ run[page.by].goal.kind = "reset" => run[page.by].phase = "wait"


(* Arguments. *)
LEMMA Arguments ==
    /\ \A n \in Nat \cup Sides : Vsc!One(n) \in Vals /\ DOMAIN Vsc!One(n) = {0} /\ Vsc!One(n)[0] = n
    /\ \A S \in SUBSET Sides : Vsc!All(S, 1) \in Vals
    /\ \A S, v : DOMAIN Vsc!All(S, v) = S
    /\ <<>> \in Vals /\ DOMAIN <<>> = {}
    /\ \A v \in Vals : DOMAIN v \subseteq Sides
<1>1. \A n : DOMAIN Vsc!One(n) = {0} /\ Vsc!One(n)[0] = n
  BY DEF Vsc!One, Vsc!:>
<1>2. \A S, v : DOMAIN Vsc!All(S, v) = S
  BY DEF Vsc!All
<1>3. 0 \in Sides
  BY PartsAssumption DEF Vsc!VscAssumption
<1>4. ASSUME NEW v \in Vals PROVE DOMAIN v \subseteq Sides
  <2>1. CASE v = <<>>
    BY <2>1
  <2>2. CASE v \in {Vsc!One(n) : n \in Nat \cup Sides}
    BY <2>2, <1>1, <1>3
  <2>3. CASE v \in {Vsc!All(S, 1) : S \in SUBSET Sides}
    BY <2>3, <1>2
  <2> QED BY <1>4, <2>1, <2>2, <2>3 DEF Vals
<1> QED BY <1>1, <1>2, <1>4 DEF Vals

(* A thread that is in no call. *)
LEMMA IdleType ==
    /\ Vsc!Idle \in Runs /\ Vsc!Idle.todo = <<>> /\ Vsc!Idle.goal.kind = "nothing" /\ Vsc!Idle.phase = "next"
    /\ Vsc!Idle.tries = 0 /\ Vsc!Idle.found = {} /\ Vsc!Idle.alone = TRUE /\ Vsc!Idle.blind = FALSE
    /\ Vsc!Idle.returned = "nothing"
<1>1. Vsc!Nothing \in Goals /\ Vsc!Nothing.kind = "nothing" /\ <<>> \in Seq(Steps)
  BY EmptySeq DEF Goals, Vals, Vsc!Nothing, Vsc!Goal
<1> QED BY <1>1 DEF Vsc!Idle, Runs

(* A call that has ended. *)
LEMMA EndedRun ==
    ASSUME NEW how \in {"nothing", "ok", "error"}
    PROVE  LET r == Vsc!Returned(how) IN
           /\ r \in Runs /\ InOrder(r) /\ ~Behind(r) /\ r.phase = "next" /\ r.todo = <<>>
           /\ r.goal.kind = "nothing" /\ r.returned = how
<1> DEFINE r == Vsc!Returned(how)
<1>1. Vsc!Idle \in Runs
  BY IdleType
<1>2. r = [Vsc!Idle EXCEPT !.returned = how]
  BY DEF Vsc!Returned
<1>3. /\ r \in Runs /\ r.todo = Vsc!Idle.todo /\ r.tries = Vsc!Idle.tries /\ r.phase = Vsc!Idle.phase
      /\ r.returned = how /\ r.goal = Vsc!Idle.goal
  BY <1>1, <1>2 DEF Runs
<1>4. r.todo = <<>> /\ r.tries = 0 /\ r.phase = "next" /\ r.returned = how /\ r.goal.kind = "nothing"
  BY <1>3, IdleType
<1>5. Elems(<<>>) = {} /\ Len(<<>>) = 0 /\ ~\E i \in 1..0 : TRUE
  BY DEF Elems
<1> HIDE DEF r
<1>6. Sound(r.todo) /\ NoLog(r.todo) /\ 0 \in 0..Retries /\ r = Vsc!Returned(r.returned) /\ Acting(r)
  <2>1. Sound(r.todo) /\ NoLog(r.todo) /\ 0 \in 0..Retries /\ r = Vsc!Returned(r.returned)
    BY <1>4, <1>5, PartsAssumption DEF Sound, NoLog, Vsc!VscAssumption, r
  <2>2. Acting(r)
    BY <1>4, <1>5 DEF Acting, Ordered, Chosen
  <2> QED BY <2>1, <2>2
<1>7. InOrder(r) /\ ~Behind(r)
  BY <1>4, <1>6 DEF InOrder, Behind
<1> QED BY <1>3, <1>4, <1>7 DEF r

LEMMA IdleRun == Vsc!Idle = Vsc!Returned("nothing")
<1>1. \A m \in Runs : [m EXCEPT !.returned = m.returned] = m
  BY DEF Runs
<1> QED BY <1>1, IdleType DEF Vsc!Returned

LEMMA EndedOf ==
    ASSUME NEW t, NEW how \in {"ok", "error"}
    PROVE  \E h \in {"nothing", "ok", "error"} : Vsc!Ended(t, how) = Vsc!Returned(h)
BY IdleRun DEF Vsc!Ended

(* The rest of a program. *)
LEMMA RestOrderly ==
    ASSUME NEW s \in Seq(Steps), s # <<>>, Sound(s), Ordered(s)
    PROVE  /\ Tail(s) \in Seq(Steps) /\ Sound(Tail(s)) /\ Ordered(Tail(s))
           /\ Head(s) \in Steps /\ Elems(s) = {Head(s)} \cup Elems(Tail(s))
           /\ Head(s).do # "unlock" => Tail(s) # <<>>
           /\ Tail(s) # <<>> => Head(Tail(s)) \in Steps /\ Follows(Head(s), Head(Tail(s)))
           /\ Head(s).do = "any" => \A a \in Elems(Tail(s)) : a.do \notin {"fetch", "any"}
           /\ IsAct(Head(s)) => Chosen(s)
<1> DEFINE T == Tail(s) n == Len(s)
<1>1. /\ Head(s) = s[1] /\ n \in Nat \ {0} /\ T \in Seq(Steps) /\ Len(T) = n - 1
      /\ \A i \in 1..Len(T) : T[i] = s[i + 1]
      /\ T # <<>> => Head(T) = s[2] /\ n > 1
      /\ T = <<>> <=> n = 1
      /\ Elems(s) = {Head(s)} \cup Elems(T) /\ Head(s) \in Steps
      /\ T # <<>> => Head(T) \in Steps
  BY TailOf
<1>2. /\ \A i \in 1..n - 1 : Follows(s[i], s[i + 1])
      /\ s[n].do = "unlock"
  BY DEF Sound
<1>3. \A i, j \in 1..n : i < j =>
        /\ s[i].do = "any" => s[j].do \notin {"fetch", "any"}
        /\ s[j].do = "any" => ~IsAct(s[i])
  BY DEF Ordered
<1> HIDE DEF T, n
<1>4. \A i \in 1..Len(T) - 1 : i + 1 \in 1..n - 1 /\ T[i] = s[i + 1] /\ T[i + 1] = s[(i + 1) + 1]
  BY <1>1
<1>5. T # <<>> => Len(T) \in 1..Len(T) /\ T[Len(T)] = s[n] /\ 1 \in 1..n - 1 /\ Head(T) = s[1 + 1]
  BY <1>1
<1>6. Sound(T)
  BY <1>2, <1>4, <1>5 DEF Sound
<1>7. \A i, j \in 1..Len(T) : i < j =>
        /\ T[i].do = "any" => T[j].do \notin {"fetch", "any"}
        /\ T[j].do = "any" => ~IsAct(T[i])
  <2> TAKE i, j \in 1..Len(T)
  <2>1. i + 1 \in 1..n /\ j + 1 \in 1..n /\ T[i] = s[i + 1] /\ T[j] = s[j + 1] /\ (i < j => i + 1 < j + 1)
    BY <1>1
  <2> QED BY ONLY <2>1, <1>3
<1>8. ASSUME NEW a \in Elems(T)
      PROVE  /\ Head(s).do = "any" => a.do \notin {"fetch", "any"}
             /\ IsAct(Head(s)) => a.do # "any"
  <2>1. PICK i \in 1..Len(T) : a = T[i]
    BY <1>8 DEF Elems
  <2>2. i + 1 \in 1..n /\ 1 \in 1..n /\ 1 < i + 1 /\ a = s[i + 1]
    BY <2>1, <1>1
  <2> QED BY <2>2, <1>1, <1>3
<1>9. IsAct(Head(s)) => Chosen(s)
  BY <1>1, <1>8 DEF Chosen, IsAct
<1>10. Head(s).do # "unlock" => T # <<>>
  BY <1>1, <1>2
<1> QED BY <1>1, <1>2, <1>5, <1>6, <1>7, <1>8, <1>9, <1>10 DEF T, Ordered

(* A call that goes on to its next step. *)
LEMMA OnwardOrderly ==
    ASSUME NEW r \in Runs, InOrder(r), r.todo # <<>>, NEW n \in Runs, n.todo = Tail(r.todo), n.todo # <<>>,
           n.phase = "next", n.goal.kind = r.goal.kind, n.tries = r.tries \/ n.tries = 0,
           \/ Head(r.todo).do # "any" /\ n.goal = r.goal
              /\ (n.found = r.found \/ Head(r.todo).do = "fetch")
           \/ Head(r.todo).do = "any" /\ n.found = DOMAIN n.goal.val
    PROVE  InOrder(n) /\ (Behind(n) => Head(r.todo).do \notin {"unlock", "any"})
<1> DEFINE s == r.todo
<1>1. /\ s \in Seq(Steps) /\ s # <<>> /\ Sound(s) /\ Ordered(s) /\ Acting(r)
  BY DEF Runs, InOrder, Acting
<1>2. /\ Tail(s) \in Seq(Steps) /\ Sound(Tail(s)) /\ Ordered(Tail(s))
      /\ Elems(s) = {Head(s)} \cup Elems(Tail(s))
      /\ Follows(Head(s), Head(Tail(s)))
      /\ Head(s).do = "any" => \A a \in Elems(Tail(s)) : a.do \notin {"fetch", "any"}
      /\ IsAct(Head(s)) => Chosen(s)
  BY <1>1, RestOrderly
<1>3. Acting(n)
  <2>1. CASE Head(s).do = "any"
    <3>1. n.goal.kind = "activate file"
      BY <1>1, <1>2, <2>1 DEF Acting, Chosen
    <3> QED BY <1>1, <1>2, <2>1, <3>1 DEF Acting, Chosen
  <2>2. CASE Head(s).do # "any" /\ n.goal = r.goal
    <3>1. Chosen(n.todo) <=> Chosen(s)
      BY <1>2, <2>2 DEF Chosen
    <3>2. Chosen(s) /\ r.goal.kind = "activate file" => Head(s).do # "fetch"
      BY <1>1, <1>2 DEF Acting
    <3> QED BY <1>1, <1>2, <2>2, <3>1, <3>2 DEF Acting
  <2> QED BY <2>1, <2>2
<1>4. \/ n.tries \in 0..Retries /\ NoLog(n.todo)
      \/ n.tries \in 0..Cycles /\ NoRetry(n.todo)
  <2>1. 0 \in 0..Retries /\ 0 \in 0..Cycles
    BY PartsAssumption DEF Vsc!VscAssumption
  <2>2. \/ r.tries \in 0..Retries /\ NoLog(s)
        \/ r.tries \in 0..Cycles /\ NoRetry(s)
    BY DEF InOrder
  <2>3. (NoLog(s) => NoLog(n.todo)) /\ (NoRetry(s) => NoRetry(n.todo))
    BY <1>2 DEF NoLog, NoRetry
  <2> QED BY <2>1, <2>2, <2>3
<1>5. InOrder(n)
  BY <1>2, <1>3, <1>4 DEF InOrder
<1>6. Behind(n) => Head(s).do \notin {"unlock", "any"}
  BY <1>2 DEF Behind, Follows
<1> QED BY <1>5, <1>6

(* What the steps of a call make of it: it is over, *)
Over(n) == n \in Runs /\ n = Vsc!Returned(n.returned)

(* or goes on to the next step. *)
Onward(r, n) ==
    /\ n \in Runs /\ n.todo = Tail(r.todo) /\ n.todo # <<>> /\ n.phase = "next"
    /\ n.goal = r.goal /\ n.found = r.found /\ n.tries = r.tries /\ n.alone = r.alone /\ n.blind = r.blind

LEMMA OverFields ==
    ASSUME NEW n, Over(n)
    PROVE  InOrder(n) /\ ~Behind(n) /\ n.phase = "next" /\ n.todo = <<>> /\ n.goal.kind = "nothing"
<1>1. PICK h \in {"nothing", "ok", "error"} : h = n.returned
  BY DEF Over, Runs
<1> QED BY <1>1, EndedRun DEF Over

LEMMA EndedOver ==
    ASSUME NEW t, NEW how \in {"ok", "error"}
    PROVE  Over(Vsc!Ended(t, how))
<1>1. PICK h \in {"nothing", "ok", "error"} : Vsc!Ended(t, how) = Vsc!Returned(h)
  BY EndedOf
<1> QED BY <1>1, EndedRun DEF Over

(* The call of a thread, and its next step. *)
LEMMA VscStepOf ==
    ASSUME VscBase, NEW t \in Threads, run[t].todo # <<>>
    PROVE  /\ run[t] \in Runs /\ InOrder(run[t]) /\ Vsc!Step(t) \in Steps /\ Vsc!Step(t) \in Elems(run[t].todo)
           /\ Vsc!Step(t) = Head(run[t].todo) /\ (Vsc!Step(t).do \notin Outside => holder = t)
           /\ run[t].todo \in Seq(Steps) /\ Sound(run[t].todo) /\ Ordered(run[t].todo) /\ Acting(run[t])
           /\ run[t].goal \in Goals
           /\ \/ Vsc!Step(t).do = "unlock" /\ Over(Vsc!Next1(t))
              \/ Onward(run[t], Vsc!Next1(t))
           /\ Vsc!Step(t).do # "unlock" => Tail(run[t].todo) # <<>> /\ Onward(run[t], Vsc!Next1(t))
<1> DEFINE r == run[t] n == Vsc!Next1(t) s == r.todo
<1>1. r \in Runs /\ InOrder(r) /\ (Behind(r) => holder = t)
  BY DEF VscBase, VscTyped, VscOrderly
<1>2. s \in Seq(Steps) /\ Sound(s) /\ Ordered(s) /\ Acting(r) /\ r.goal \in Goals
  BY <1>1 DEF Runs, InOrder, Acting
<1>3. Head(s) \in Steps /\ Head(s) \in Elems(s) /\ (Tail(s) = <<>> <=> Len(s) = 1) /\ Tail(s) \in Seq(Steps)
  BY <1>2, TailOf
<1>4. Head(s).do # "unlock" => Tail(s) # <<>>
  BY <1>2, RestOrderly
<1>5. CASE Len(s) = 1
  <2>1. n = Vsc!Ended(t, "ok")
    BY <1>5 DEF Vsc!Next1
  <2>2. Over(n)
    BY <2>1, EndedOver
  <2> QED BY <2>2, <1>1, <1>2, <1>3, <1>4, <1>5 DEF Vsc!Step, Behind
<1>6. CASE Len(s) # 1
  <2>1. n = [r EXCEPT !.todo = Tail(s), !.phase = "next"]
    BY <1>6 DEF Vsc!Next1
  <2>2. Onward(r, n)
    <3> HIDE DEF n
    <3>1. /\ n \in Runs /\ n.todo = Tail(s) /\ n.phase = "next" /\ n.goal = r.goal /\ n.found = r.found
          /\ n.tries = r.tries /\ n.alone = r.alone /\ n.blind = r.blind
      BY <1>1, <1>3, <2>1 DEF Runs
    <3> QED BY <3>1, <1>3, <1>6 DEF Onward
  <2> QED BY <2>2, <1>1, <1>2, <1>3, <1>4 DEF Vsc!Step, Behind
<1> QED BY <1>5, <1>6

(* What differs only in what a property notes is as orderly. *)
LEMMA AlikeOrderly ==
    ASSUME NEW r \in Runs, InOrder(r), NEW n \in Runs, n.todo = r.todo, n.goal = r.goal, n.found = r.found,
           n.tries = r.tries, n.phase # "next" => r.todo # <<>> /\ Head(r.todo).do = "command",
           r.todo = <<>> => n = r
    PROVE  InOrder(n) /\ (Behind(n) <=> Behind(r))
BY DEF InOrder, Acting, Behind

(* A thread takes a step, and the lock stays with whom it was. *)
LEMMA RunStep ==
    ASSUME VscBase, NEW t \in Threads, NEW r \in Runs, run' = [run EXCEPT ![t] = r], InOrder(r),
           Behind(r) => holder' = t, \A u \in Threads \ {t} : holder = u => holder' = u
    PROVE  VscOrderly' /\ run' \in [Threads -> Runs]
<1>1. run \in [Threads -> Runs] /\ \A u \in Threads : InOrder(run[u]) /\ (Behind(run[u]) => holder = u)
  BY DEF VscBase, VscTyped, VscOrderly
<1>2. \A u \in Threads : run'[u] = IF u = t THEN r ELSE run[u]
  BY <1>1
<1>3. \A u \in Threads : InOrder(run'[u]) /\ (Behind(run'[u]) => holder' = u)
  BY <1>1, <1>2
<1>4. VscOrderly'
  BY <1>3 DEF VscOrderly
<1> QED BY <1>1, <1>4

(* A call is over. *)
LEMMA OverStep ==
    ASSUME VscBase, NEW t \in Threads, NEW n, Over(n), run' = [run EXCEPT ![t] = n],
           \A u \in Threads \ {t} : holder = u => holder' = u
    PROVE  VscOrderly' /\ run' \in [Threads -> Runs]
<1>1. n \in Runs /\ InOrder(n) /\ ~Behind(n)
  BY OverFields DEF Over
<1> QED BY <1>1, RunStep

(* A call goes on to its next step. *)
LEMMA OnwardStep ==
    ASSUME VscBase, NEW t \in Threads, run[t].todo # <<>>, NEW n \in Runs, run' = [run EXCEPT ![t] = n],
           n.todo = Tail(run[t].todo), n.todo # <<>>, n.phase = "next", n.goal.kind = run[t].goal.kind,
           n.tries = run[t].tries \/ n.tries = 0,
           \/ Vsc!Step(t).do # "any" /\ n.goal = run[t].goal
              /\ (n.found = run[t].found \/ Vsc!Step(t).do = "fetch")
           \/ Vsc!Step(t).do = "any" /\ n.found = DOMAIN n.goal.val,
           holder' = holder \/ Vsc!Step(t).do = "unlock" \/ (holder' = t /\ holder = Nobody),
           Vsc!Step(t).do = "lock" => holder' = t,
           Vsc!Step(t).do = "unlock" => \A u \in Threads \ {t} : holder = u => holder' = u
    PROVE  VscOrderly' /\ run' \in [Threads -> Runs]
<1>1. run[t] \in Runs /\ InOrder(run[t]) /\ Vsc!Step(t) = Head(run[t].todo) /\ (Vsc!Step(t).do \notin Outside => holder = t)
  BY VscStepOf
<1>2. InOrder(n) /\ (Behind(n) => Vsc!Step(t).do \notin {"unlock", "any"})
  BY <1>1, OnwardOrderly
<1>3. Nobody \notin Threads
  BY PartsAssumption DEF Vsc!VscAssumption
<1>4. Behind(n) => holder' = t
  BY <1>1, <1>2, <1>3 DEF Outside
<1>5. \A u \in Threads \ {t} : holder = u => holder' = u
  BY <1>3
<1> QED BY <1>2, <1>4, <1>5, RunStep

(* Releasing the lock and taking it again before a step is repeated. *)
LEMMA RepeatedProgram ==
    ASSUME NEW s \in Seq(Steps), s # <<>>, Sound(s), Ordered(s), Head(s).do \in {"command", "more"},
           NEW x \in Steps, x.do \in {"load", "command"}, ~IsAct(x),
           Head(s).do = "more" => x.do = "command" /\ x.reg = Head(s).reg
    PROVE  LET p == <<Vsc!Unlock, Vsc!Lock, x>> \o s IN
           /\ p \in Seq(Steps) /\ p # <<>> /\ Sound(p) /\ Ordered(p) /\ Head(p).do = "unlock"
           /\ Elems(p) = {Vsc!Unlock, Vsc!Lock, x} \cup Elems(s)
<1> DEFINE h == <<Vsc!Unlock, Vsc!Lock, x>> p == h \o s n == Len(s)
<1>1. /\ Vsc!Unlock \in Steps /\ Vsc!Lock \in Steps
      /\ Vsc!Unlock.do = "unlock" /\ Vsc!Lock.do = "lock"
  BY DEF Vsc!Unlock, Vsc!Lock, Vsc!Access, Steps, Vals, IsAct
<1>2. h \in Seq(Steps) /\ Len(h) = 3 /\ h[1] = Vsc!Unlock /\ h[2] = Vsc!Lock /\ h[3] = x
  BY <1>1
<1>3. Elems(h) = {Vsc!Unlock, Vsc!Lock, x}
  <2> HIDE DEF h
  <2>1. \A i \in 1..3 : i = 1 \/ i = 2 \/ i = 3
    OBVIOUS
  <2> QED BY <1>2, <2>1 DEF Elems
<1> HIDE DEF h
<1>4. /\ p \in Seq(Steps) /\ Len(p) = 3 + n /\ n \in Nat
      /\ \A i \in 1..3 : p[i] = h[i]
      /\ \A i \in 1..n : p[3 + i] = s[i]
      /\ Elems(p) = Elems(h) \cup Elems(s)
  <2>0. h \in Seq(Steps)
    BY <1>2
  <2>1. p \in Seq(Steps) /\ Len(p) = Len(h) + n /\ n \in Nat
    BY ONLY <2>0, ConcatOf, s \in Seq(Steps)
  <2>2. \A i \in 1..Len(h) : p[i] = h[i]
    BY ONLY <2>0, ConcatOf, s \in Seq(Steps)
  <2>3. \A i \in 1..n : p[Len(h) + i] = s[i]
    BY ONLY <2>0, ConcatOf, s \in Seq(Steps)
  <2>4. Elems(p) = Elems(h) \cup Elems(s)
    BY ONLY <2>0, ConcatOf, s \in Seq(Steps)
  <2> HIDE DEF p, n
  <2> QED BY <2>1, <2>2, <2>3, <2>4, <1>2
<1>5. n \in Nat \ {0} /\ Head(s) = s[1]
  BY TailOf
<1>6. (\A i \in 1..n - 1 : Follows(s[i], s[i + 1])) /\ s[n].do = "unlock"
  BY DEF Sound
<1>7. p # <<>> /\ Head(p) = p[1]
  <2>1. Len(p) # 0
    BY <1>4
  <2>2. p # <<>>
    BY ONLY <1>4, <2>1, EmptySeq
  <2> QED BY <2>2, <1>4, HeadTailProperties
<1>8. \A i, j \in 1..n : i < j =>
        /\ s[i].do = "any" => s[j].do \notin {"fetch", "any"}
        /\ s[j].do = "any" => ~IsAct(s[i])
  BY DEF Ordered
<1> HIDE DEF p, n
<1>9. /\ p[1] = Vsc!Unlock /\ p[2] = Vsc!Lock /\ p[3] = x /\ p[4] = s[1]
  <2>1. p[3 + 1] = s[1]
    BY <1>4, <1>5
  <2> QED BY <1>2, <1>4, <2>1
<1>10. \A i \in 1..Len(p) : i = 1 \/ i = 2 \/ i = 3 \/ (i > 3 /\ i - 3 \in 1..n /\ p[i] = s[i - 3])
  <2> TAKE i \in 1..Len(p)
  <2>1. CASE i > 3
    <3>1. PICK j \in Nat : j = i - 3
      BY <2>1, <1>4
    <3>2. j \in 1..n /\ i = 3 + j
      BY <3>1, <2>1, <1>4
    <3> QED BY <3>1, <3>2, <2>1, <1>4
  <2> QED BY <2>1, <1>4
<1>11. ASSUME NEW i \in 1..Len(p) - 1 PROVE Follows(p[i], p[i + 1])
  <2>1. CASE i = 1
    BY <2>1, <1>1, <1>9 DEF Outside, Follows
  <2>2. CASE i = 2
    BY <2>2, <1>1, <1>9 DEF Follows
  <2>3. CASE i = 3
    BY <2>3, <1>5, <1>9 DEF Follows, IsAct
  <2>4. CASE i > 3
    <3>1. PICK j \in Nat : j = i - 3
      BY <2>4, <1>4
    <3>2. j \in 1..n - 1 /\ j \in 1..n /\ j + 1 \in 1..n /\ i = 3 + j /\ i + 1 = 3 + (j + 1)
      BY <3>1, <2>4, <1>4
    <3>3. p[i] = s[j] /\ p[i + 1] = s[j + 1]
      BY <3>2, <1>4
    <3> QED BY <3>2, <3>3, <1>6
  <2>5. i \in Nat /\ i >= 1
    BY <1>4
  <2> QED BY <2>1, <2>2, <2>3, <2>4, <2>5
<1>12. p[Len(p)].do = "unlock"
  <2>1. n \in 1..n /\ p[3 + n] = s[n]
    BY <1>4, <1>5
  <2> QED BY <2>1, <1>4, <1>6
<1>13. ASSUME NEW i \in 1..Len(p), NEW j \in 1..Len(p), i < j
       PROVE  /\ p[i].do = "any" => p[j].do \notin {"fetch", "any"}
              /\ p[j].do = "any" => ~IsAct(p[i])
  <2>1. \A k \in 1..Len(p) : k <= 3 => p[k].do # "any" /\ ~IsAct(p[k])
    BY <1>1, <1>4, <1>9, <1>10 DEF IsAct
  <2>2. CASE i <= 3
    BY <2>1, <2>2
  <2>3. CASE i > 3
    <3>1. i - 3 \in 1..n /\ p[i] = s[i - 3] /\ j - 3 \in 1..n /\ p[j] = s[j - 3] /\ i - 3 < j - 3
      BY <2>3, <1>13, <1>10, <1>4
    <3>2. PICK k \in 1..n, l \in 1..n : k < l /\ p[i] = s[k] /\ p[j] = s[l]
      BY <3>1
    <3> QED BY ONLY <3>2, <1>8
  <2> QED BY <2>2, <2>3, <1>4
<1>14. Sound(p) /\ Ordered(p)
  BY <1>11, <1>12, <1>13 DEF Sound, Ordered
<1> QED BY <1>1, <1>3, <1>4, <1>7, <1>9, <1>14 DEF p, h

(* A call that repeats a step. *)
LEMMA RepeatStep ==
    ASSUME VscBase, NEW t \in Threads, run[t].todo # <<>>, Vsc!Step(t).do \in {"command", "more"},
           NEW x \in Steps, x.do \in {"load", "command"}, ~IsAct(x), x.fails # "retry", NEW k \in Nat,
           Vsc!Step(t).do = "more" => x.do = "command" /\ x.reg = Vsc!Step(t).reg,
           \/ k \in 0..Retries /\ NoLog(run[t].todo)
           \/ k \in 0..Cycles /\ NoRetry(run[t].todo),
           run[t].goal.kind # "reset",
           run' = [run EXCEPT ![t] = [run[t] EXCEPT !.todo = <<Vsc!Unlock, Vsc!Lock, x>> \o @, !.phase = "next", !.tries = k]],
           holder' = holder
    PROVE  /\ VscOrderly' /\ run' \in [Threads -> Runs] /\ run'[t].phase = "next" /\ run'[t].goal = run[t].goal
           /\ run'[t].todo # <<>> /\ Vsc!Step(t)'.do = "unlock"
<1> DEFINE r == run[t] s == r.todo p == <<Vsc!Unlock, Vsc!Lock, x>> \o s
           n == [r EXCEPT !.todo = p, !.phase = "next", !.tries = k]
<1>1. /\ r \in Runs /\ InOrder(r) /\ s \in Seq(Steps) /\ Sound(s) /\ Ordered(s) /\ Acting(r)
      /\ Vsc!Step(t) = Head(s) /\ holder = t
  BY VscStepOf DEF Outside
<1>2. /\ p \in Seq(Steps) /\ p # <<>> /\ Sound(p) /\ Ordered(p) /\ Head(p).do = "unlock"
      /\ Elems(p) = {Vsc!Unlock, Vsc!Lock, x} \cup Elems(s)
  BY <1>1, RepeatedProgram
<1> HIDE DEF p
<1>3. /\ n \in Runs /\ n.todo = p /\ n.phase = "next" /\ n.goal = r.goal /\ n.found = r.found /\ n.tries = k
  BY <1>1, <1>2 DEF Runs
<1>4. /\ Vsc!Unlock.do = "unlock" /\ Vsc!Lock.do = "lock" /\ Vsc!Unlock.fails = "stop" /\ Vsc!Lock.fails = "stop"
  BY DEF Vsc!Unlock, Vsc!Lock, Vsc!Access
<1> HIDE DEF n
<1>5. Acting(n)
  <2>1. Chosen(p) <=> Chosen(s)
    BY <1>2, <1>4 DEF Chosen
  <2>2. \A a \in Elems(p) : IsAct(a) => a \in Elems(s)
    BY <1>2, <1>4 DEF IsAct
  <2>3. (\A a \in Elems(p) : a.do # "fetch") <=> (\A a \in Elems(s) : a.do # "fetch")
    BY <1>2, <1>4
  <2> QED BY <1>1, <1>2, <1>3, <2>1, <2>2, <2>3 DEF Acting
<1>6. (NoLog(s) => NoLog(p)) /\ (NoRetry(s) => NoRetry(p))
  BY <1>2, <1>4 DEF NoLog, NoRetry
<1>7. InOrder(n) /\ (Behind(n) => holder' = t)
  BY <1>1, <1>2, <1>3, <1>5, <1>6 DEF InOrder, Behind
<1>8. run' = [run EXCEPT ![t] = n] /\ run'[t] = n
  BY DEF n, p, VscBase, VscTyped
<1>9. VscOrderly' /\ run' \in [Threads -> Runs]
  BY <1>3, <1>7, <1>8, RunStep
<1> QED BY <1>2, <1>3, <1>8, <1>9 DEF Vsc!Step

(* What a call leaves behind. *)
LEMMA GoneType == ASSUME VscBase, NEW t \in Threads, run[t].todo # <<>> PROVE Vsc!Gone(t) \in SUBSET Sides
<1>1. run[t].goal.val \in Vals /\ left \in SUBSET Sides
  BY VscStepOf DEF VscBase, VscTyped, Goals
<1> QED BY <1>1, Arguments DEF Vsc!Gone

LEMMA QuitStep ==
    ASSUME VscBase, NEW t \in Threads, run[t].todo # <<>>, Vsc!Quit(t)
    PROVE  /\ VscOrderly' /\ run' \in [Threads -> Runs] /\ holder' \in Threads \cup {Nobody} /\ left' \in SUBSET Sides
           /\ Over(run'[t]) /\ left' = Vsc!Gone(t) /\ run' = [run EXCEPT ![t] = run'[t]]
<1> DEFINE n == Vsc!Ended(t, "error")
<1>1. Over(n)
  BY EndedOver
<1>2. run' = [run EXCEPT ![t] = n] /\ holder' = IF holder = t THEN Nobody ELSE holder
  BY DEF Vsc!Quit, Vsc!Continue
<1>3. left' \in SUBSET Sides /\ left' = Vsc!Gone(t)
  BY GoneType DEF Vsc!Quit
<1>4. \A u \in Threads \ {t} : holder = u => holder' = u
  BY <1>2
<1> HIDE DEF n
<1>5. VscOrderly' /\ run' \in [Threads -> Runs]
  BY <1>1, <1>2, <1>4, OverStep
<1>6. run'[t] = n
  BY <1>2 DEF VscBase, VscTyped
<1> QED BY <1>1, <1>2, <1>3, <1>5, <1>6 DEF VscBase, VscTyped

(* A command fails: the call is over, or a command that does nothing to the  *)
(* images is passed over or repeated.                                        *)
LEMMA FailsStep ==
    ASSUME VscBase, NEW t \in Threads, run[t].todo # <<>>, Vsc!Step(t).do = "command", Vsc!Fails(t)
    PROVE  /\ VscOrderly' /\ run' \in [Threads -> Runs] /\ holder' \in Threads \cup {Nobody} /\ left' \in SUBSET Sides
           /\ run' = [run EXCEPT ![t] = run'[t]] /\ run'[t].phase = "next"
           /\ \/ Over(run'[t]) /\ left' = Vsc!Gone(t)
              \/ /\ run'[t].goal = run[t].goal /\ run'[t].todo # <<>> /\ ~IsAct(Vsc!Step(t))
                 /\ UNCHANGED <<holder, left>>
<1> DEFINE r == run[t] n == Vsc!Next1(t) a == Vsc!Step(t) tries == r.tries + 1
           p == <<Vsc!Unlock, Vsc!Lock, Vsc!Load(a.val[0])>> \o r.todo
<1>1. /\ r \in Runs /\ InOrder(r) /\ a \in Steps /\ a \in Elems(r.todo) /\ a = Head(r.todo) /\ holder = t
      /\ r.todo \in Seq(Steps) /\ Sound(r.todo) /\ holder \in Threads \cup {Nobody}
      /\ left \in SUBSET Sides /\ Onward(r, n) /\ run \in [Threads -> Runs]
  BY VscStepOf DEF VscBase, VscTyped, Outside
<1>2. \/ a.fails = "ignore" /\ run' = [run EXCEPT ![t] = [n EXCEPT !.blind = Vsc!Judged(r.goal)]]
         /\ UNCHANGED <<holder, left>>
      \/ a.fails = "retry" /\ tries <= Retries /\ UNCHANGED <<holder, left>>
         /\ run' = [run EXCEPT ![t] = [r EXCEPT !.todo = <<Vsc!Unlock, Vsc!Lock, Vsc!Load(a.val[0])>> \o @,
                                                !.phase = "next", !.tries = tries]]
      \/ Vsc!Quit(t)
  BY DEF Vsc!Fails, Vsc!Continue
<1>3. CASE a.fails = "ignore" /\ run' = [run EXCEPT ![t] = [n EXCEPT !.blind = Vsc!Judged(r.goal)]]
           /\ UNCHANGED <<holder, left>>
  <2> DEFINE m == [n EXCEPT !.blind = Vsc!Judged(r.goal)]
  <2> HIDE DEF n
  <2>1. Vsc!Judged(r.goal) \in BOOLEAN
    BY DEF Vsc!Judged
  <2>2. /\ m \in Runs /\ m.todo = n.todo /\ m.phase = n.phase /\ m.tries = n.tries /\ m.goal = n.goal
        /\ m.found = n.found
    BY <1>1, <2>1 DEF Runs, Onward
  <2> HIDE DEF m
  <2>3. run' = [run EXCEPT ![t] = m] /\ run'[t] = m
    BY <1>1, <1>3 DEF m
  <2>4. VscOrderly' /\ run' \in [Threads -> Runs]
    <3>1. /\ m.todo = Tail(run[t].todo) /\ m.todo # <<>> /\ m.phase = "next" /\ m.goal = run[t].goal
          /\ m.found = run[t].found /\ m.tries = run[t].tries /\ m \in Runs
      BY <1>1, <2>2 DEF Onward
    <3> QED BY <1>3, <2>3, <3>1, OnwardStep
  <2>5. ~IsAct(a)
    BY <1>1, <1>3 DEF Steps
  <2> QED BY <1>1, <1>3, <2>2, <2>3, <2>4, <2>5 DEF Onward
<1>4. CASE a.fails = "retry" /\ tries <= Retries /\ UNCHANGED <<holder, left>>
         /\ run' = [run EXCEPT ![t] = [r EXCEPT !.todo = <<Vsc!Unlock, Vsc!Lock, Vsc!Load(a.val[0])>> \o @,
                                                !.phase = "next", !.tries = tries]]
  <2>1. PICK k \in 1..Chunks : a.val = Vsc!One(k)
    BY <1>1, <1>4 DEF Steps
  <2>2. a.val[0] = k /\ k \in Nat
    BY <2>1, Arguments, PartsAssumption DEF Vsc!VscAssumption
  <2>3. /\ Vsc!Load(k) \in Steps /\ Vsc!Load(k).do = "load" /\ ~IsAct(Vsc!Load(k)) /\ Vsc!Load(k).fails = "stop"
    BY <2>2 DEF Vsc!Load, Vsc!Access, Steps, Vals, IsAct
  <2>4. NoLog(r.todo) /\ tries \in 0..Retries /\ tries \in Nat
    <3>1. ~NoRetry(r.todo)
      BY <1>1, <1>4 DEF NoRetry
    <3>2. NoLog(r.todo) /\ r.tries \in 0..Retries
      BY <1>1, <3>1 DEF InOrder
    <3> QED BY <1>4, <3>2, PartsAssumption DEF Vsc!VscAssumption
  <2>9. run[t].goal.kind # "reset"
    BY <1>1, <1>4 DEF Acting, InOrder, Resetting, Steps
  <2> HIDE DEF tries
  <2>5. run' = [run EXCEPT ![t] = [r EXCEPT !.todo = <<Vsc!Unlock, Vsc!Lock, Vsc!Load(k)>> \o @,
                                                !.phase = "next", !.tries = tries]]
    BY <1>4, <2>2
  <2>6. /\ VscOrderly' /\ run' \in [Threads -> Runs] /\ run'[t].phase = "next" /\ run'[t].goal = run[t].goal
        /\ run'[t].todo # <<>>
    BY <1>1, <1>4, <2>3, <2>4, <2>5, <2>9, RepeatStep
  <2>7. run' = [run EXCEPT ![t] = run'[t]]
    BY <1>1, <2>5
  <2>8. ~IsAct(a)
    BY <1>1, <1>4 DEF Steps
  <2> QED BY <1>1, <1>4, <2>6, <2>7, <2>8
<1>5. CASE Vsc!Quit(t)
  BY <1>5, QuitStep, OverFields
<1> QED BY <1>2, <1>3, <1>4, <1>5

(* The page after a write that may be lost. *)
LEMMA WrittenPage ==
    ASSUME VscBase, NEW new \in Pages, NEW old \in Pages, Vsc!Written(new, old)
    PROVE  page' \in {new, old} /\ lost' \in 0..MaxLost
BY PartsAssumption DEF VscBase, VscTyped, Vsc!Written, Vsc!VscAssumption

(* The commands. *)
LEMMA OpcodeType == \A op \in Ops : Vsc!Opcode(op) \in Opcodes /\ Vsc!Opcode(op) # "none"
BY DEF Ops, Opcodes, Vsc!Opcode

LEMMA ArgumentType ==
    ASSUME VscBase, NEW t \in Threads, run[t].todo # <<>> PROVE Vsc!Argument(t) \in Vals
<1>1. Vsc!Step(t).val \in Vals /\ run[t].found \in SUBSET Sides
  BY VscStepOf DEF Steps, Runs
<1> QED BY <1>1, Arguments DEF Vsc!Argument

-------------------------------------------------------------------------------
(* Every call of the driver is a program that fits: it is put together from  *)
(* sections under the lock.                                                  *)
Adjacent(s) == \A i \in 1..Len(s) - 1 : Follows(s[i], s[i + 1])
Body(b) ==
    /\ b \in Seq(Steps) /\ b # <<>> /\ Adjacent(b)
    /\ \A a \in Elems(b) : a.do \in {"load", "command", "fetch", "more"}
    /\ b[1].do \notin {"fetch", "more"} /\ ~(b[Len(b)].do = "command" /\ b[Len(b)].reg = "commit")
Part(s) == s \in Seq(Steps) /\ s # <<>> /\ s[1].do \in Outside /\ Sound(s)
VscPlain(s) == \A a \in Elems(s) : a.do # "any" /\ ~IsAct(a) /\ a.fails # "retry"

(* One step, and two. *)
LEMMA VscOneStep ==
    ASSUME NEW x \in Steps
    PROVE  /\ <<x>> \in Seq(Steps) /\ <<x>> # <<>> /\ Len(<<x>>) = 1 /\ <<x>>[1] = x /\ Elems(<<x>>) = {x} /\ Adjacent(<<x>>)
BY DEF Elems, Adjacent

LEMMA VscTwoSteps ==
    ASSUME NEW x \in Steps, NEW y \in Steps, Follows(x, y)
    PROVE  /\ <<x, y>> \in Seq(Steps) /\ <<x, y>> # <<>> /\ Len(<<x, y>>) = 2 /\ <<x, y>>[1] = x /\ <<x, y>>[2] = y
           /\ Elems(<<x, y>>) = {x, y} /\ Adjacent(<<x, y>>)
<1> DEFINE b == <<x, y>>
<1>1. b \in Seq(Steps) /\ Len(b) = 2 /\ b[1] = x /\ b[2] = y /\ b # <<>>
  OBVIOUS
<1> HIDE DEF b
<1>2. Elems(b) = {x, y}
  <2>1. \A i \in 1..2 : i = 1 \/ i = 2
    OBVIOUS
  <2> QED BY <1>1, <2>1 DEF Elems
<1>3. Adjacent(b)
  <2>1. \A i \in 1..Len(b) - 1 : i = 1 /\ i + 1 = 2
    BY <1>1
  <2> QED BY <1>1, <2>1 DEF Adjacent
<1> QED BY <1>1, <1>2, <1>3 DEF b

(* Programs one after the other. *)
LEMMA Joined ==
    ASSUME NEW s \in Seq(Steps), NEW t \in Seq(Steps), s # <<>>, t # <<>>, Adjacent(s), Adjacent(t),
           Follows(s[Len(s)], t[1])
    PROVE  /\ s \o t \in Seq(Steps) /\ s \o t # <<>> /\ Adjacent(s \o t) /\ (s \o t)[1] = s[1]
           /\ (s \o t)[Len(s \o t)] = t[Len(t)] /\ Elems(s \o t) = Elems(s) \cup Elems(t)
<1> DEFINE u == s \o t m == Len(s) n == Len(t)
<1>1. u \in Seq(Steps) /\ Len(u) = m + n
  BY ConcatOf
<1>2. \A i \in 1..m : u[i] = s[i]
  BY ConcatOf
<1>3. \A i \in 1..n : u[m + i] = t[i]
  BY ConcatOf
<1>4. Elems(u) = Elems(s) \cup Elems(t)
  BY ConcatOf
<1>5. m \in Nat \ {0} /\ n \in Nat \ {0}
  BY TailOf
<1> HIDE DEF u
<1>6. u # <<>>
  <2>1. Len(u) # 0
    BY <1>1, <1>5
  <2> QED BY ONLY <2>1, <1>1, EmptySeq
<1>7. ASSUME NEW i \in 1..Len(u) - 1 PROVE Follows(u[i], u[i + 1])
  <2>1. CASE i < m
    <3>1. i \in 1..m - 1 /\ i \in 1..m /\ i + 1 \in 1..m
      BY <2>1, <1>1, <1>5
    <3> QED BY <3>1, <1>2 DEF Adjacent
  <2>2. CASE i = m
    <3>1. m \in 1..m /\ 1 \in 1..n /\ i + 1 = m + 1
      BY <2>2, <1>5
    <3>2. u[i] = s[Len(s)] /\ u[i + 1] = t[1]
      BY <2>2, <3>1, <1>2, <1>3
    <3> QED BY <3>2
  <2>3. CASE i > m
    <3>1. PICK j \in Nat : j = i - m
      BY SMTT(60), <2>3, <1>1, <1>5
    <3>2. j \in 1..n - 1 /\ j \in 1..n /\ j + 1 \in 1..n /\ i = m + j /\ i + 1 = m + (j + 1)
      BY <3>1, <2>3, <1>1, <1>5
    <3>3. u[i] = t[j] /\ u[i + 1] = t[j + 1]
      BY <3>2, <1>3
    <3> QED BY <3>2, <3>3 DEF Adjacent
  <2>4. i \in Nat
    BY <1>1, <1>5
  <2> QED BY <2>1, <2>2, <2>3, <2>4, <1>5
<1>8. Adjacent(u)
  BY <1>7 DEF Adjacent
<1>9. u[1] = s[1] /\ u[Len(u)] = t[Len(t)]
  <2>1. 1 \in 1..m /\ n \in 1..n /\ Len(u) = m + n
    BY <1>1, <1>5
  <2> QED BY <2>1, <1>2, <1>3
<1> QED BY <1>1, <1>4, <1>6, <1>8, <1>9 DEF u

LEMMA VscLastOf == ASSUME NEW s \in Seq(Steps), s # <<>> PROVE s[Len(s)] \in Elems(s) /\ s[1] \in Elems(s) /\ Len(s) \in Nat \ {0}
<1>1. Len(s) \in Nat \ {0}
  BY TailOf
<1> QED BY <1>1 DEF Elems

LEMMA BodyConcat ==
    ASSUME NEW b, NEW c, Body(b), Body(c)
    PROVE  Body(b \o c) /\ Elems(b \o c) = Elems(b) \cup Elems(c)
<1>1. Follows(b[Len(b)], c[1])
  BY VscLastOf DEF Body, Follows
<1> QED BY <1>1, Joined DEF Body

LEMMA PartConcat ==
    ASSUME NEW s, NEW t, Part(s), Part(t)
    PROVE  Part(s \o t) /\ Elems(s \o t) = Elems(s) \cup Elems(t)
<1>1. Follows(s[Len(s)], t[1])
  <2>1. s[Len(s)].do = "unlock" /\ t[1].do \in Outside
    BY DEF Part, Sound
  <2> QED BY <2>1 DEF Follows, Outside
<1>2. Adjacent(s) /\ Adjacent(t)
  BY DEF Part, Sound, Adjacent
<1> QED BY <1>1, <1>2, Joined DEF Part, Sound, Adjacent

LEMMA LockSteps ==
    /\ Vsc!Unlock \in Steps /\ Vsc!Lock \in Steps /\ Vsc!Unlock.do = "unlock" /\ Vsc!Lock.do = "lock"
    /\ Vsc!Unlock.fails = "stop" /\ Vsc!Lock.fails = "stop"
BY DEF Vsc!Unlock, Vsc!Lock, Vsc!Access, Steps, Vals, IsAct

(* A section under the lock. *)
LEMMA SectionPart ==
    ASSUME NEW b, Body(b)
    PROVE  Part(Vsc!Section(b)) /\ Elems(Vsc!Section(b)) = {Vsc!Lock, Vsc!Unlock} \cup Elems(b)
<1> DEFINE l == <<Vsc!Lock>> c == l \o b u == <<Vsc!Unlock>>
<1>1. b[1] \in Elems(b) /\ b[Len(b)] \in Elems(b)
  BY VscLastOf DEF Body
<1>2. l \in Seq(Steps) /\ l # <<>> /\ Adjacent(l) /\ Elems(l) = {Vsc!Lock} /\ l[Len(l)] = Vsc!Lock /\ l[1] = Vsc!Lock
  BY LockSteps, VscOneStep
<1>3. u \in Seq(Steps) /\ u # <<>> /\ Adjacent(u) /\ Elems(u) = {Vsc!Unlock} /\ u[1] = Vsc!Unlock /\ u[Len(u)] = Vsc!Unlock
  BY LockSteps, VscOneStep
<1>4. Follows(Vsc!Lock, b[1]) /\ Follows(b[Len(b)], Vsc!Unlock)
  BY <1>1, LockSteps DEF Body, Follows
<1> HIDE DEF l, u
<1>5. /\ c \in Seq(Steps) /\ c # <<>> /\ Adjacent(c) /\ c[1] = Vsc!Lock /\ c[Len(c)] = b[Len(b)]
      /\ Elems(c) = {Vsc!Lock} \cup Elems(b)
  BY <1>2, <1>4, Joined DEF Body
<1> HIDE DEF c
<1>6. /\ c \o u \in Seq(Steps) /\ c \o u # <<>> /\ Adjacent(c \o u) /\ (c \o u)[1] = Vsc!Lock
      /\ (c \o u)[Len(c \o u)] = Vsc!Unlock /\ Elems(c \o u) = Elems(c) \cup {Vsc!Unlock}
  BY <1>3, <1>4, <1>5, Joined
<1>7. Vsc!Section(b) = c \o u
  BY DEF Vsc!Section, c, l, u
<1>8. Part(c \o u)
  BY <1>6, LockSteps DEF Part, Sound, Adjacent, Outside
<1> QED BY <1>5, <1>6, <1>7, <1>8

LEMMA PlainSection == ASSUME NEW b, Body(b), VscPlain(b) PROVE Part(Vsc!Section(b)) /\ VscPlain(Vsc!Section(b))
BY SectionPart, LockSteps DEF VscPlain, IsAct

LEMMA PlainConcat == ASSUME NEW s, NEW t, Part(s), Part(t), VscPlain(s), VscPlain(t) PROVE Part(s \o t) /\ VscPlain(s \o t)
BY PartConcat DEF VscPlain

(* A program that a thread may begin. *)
VscFits(p) ==
    /\ p.goal \in Goals /\ Part(p.todo) /\ (NoLog(p.todo) \/ NoRetry(p.todo)) /\ Ordered(p.todo)
    /\ \A a \in Elems(p.todo) : IsAct(a) =>
        /\ p.goal.kind \in {"activate", "activate file", "reset"}
        /\ p.goal.kind = "activate" => a.val = p.goal.val /\ a.val # <<>>
        /\ p.goal.kind = "activate file" => a.val = <<>>
    /\ p.goal.kind = "reset" => \A a \in Elems(p.todo) : Resetting(a)
    /\ p.goal.kind = "activate file" <=> ~Chosen(p.todo)

LEMMA PlainOrdered == ASSUME NEW s, Chosen(s) PROVE Ordered(s)
BY DEF Chosen, Elems, Ordered

LEMMA PlainFits ==
    ASSUME NEW api, NEW s, Part(s), VscPlain(s), NEW g \in Goals, g.kind \notin {"activate file", "reset"}
    PROVE  VscFits(Vsc!Program(api, s, g)) /\ Vsc!Program(api, s, g).goal = g
<1>1. Vsc!Program(api, s, g).todo = s /\ Vsc!Program(api, s, g).goal = g
  BY DEF Vsc!Program
<1>2. Chosen(s) /\ NoRetry(s) /\ \A a \in Elems(s) : ~IsAct(a)
  BY DEF VscPlain, Chosen, NoRetry
<1> QED BY <1>1, <1>2, PlainOrdered DEF VscFits

LEMMA NothingGoal == Vsc!Nothing \in Goals /\ Vsc!Nothing.kind = "nothing"
BY DEF Goals, Vals, Vsc!Nothing, Vsc!Goal

(* Steps. *)
LEMMA CmdStep ==
    ASSUME NEW op \in Ops, NEW arg \in Vals
    PROVE  /\ Vsc!Cmd(op, arg) \in Steps /\ Vsc!Cmd(op, arg).do = "command" /\ Vsc!Cmd(op, arg).reg = op
           /\ Vsc!Cmd(op, arg).val = arg /\ Vsc!Cmd(op, arg).fails = "stop"
BY DEF Vsc!Cmd, Vsc!Access, Steps, IsAct

LEMMA FetchStep ==
    ASSUME NEW op \in Ops \ (Polled \cup Updates), NEW arg \in Vals
    PROVE  /\ Vsc!Fetch(op, arg) \in Steps /\ Vsc!Fetch(op, arg).do = "fetch" /\ Vsc!Fetch(op, arg).reg = op
           /\ Vsc!Fetch(op, arg).val = arg /\ Vsc!Fetch(op, arg).fails = "stop"
BY DEF Vsc!Fetch, Vsc!Access, Steps, IsAct

LEMMA MoreStep ==
    ASSUME NEW op \in Polled
    PROVE  /\ Vsc!More(op) \in Steps /\ Vsc!More(op).do = "more" /\ Vsc!More(op).reg = op /\ Vsc!More(op).fails = "stop"
BY DEF Vsc!More, Vsc!Access, Steps, IsAct, Polled, Ops, Vals

LEMMA LoadStep ==
    ASSUME NEW k \in 1..Chunks
    PROVE  /\ Vsc!Load(k) \in Steps /\ Vsc!Load(k).do = "load" /\ Vsc!Load(k).fails = "stop"
<1>1. k \in Nat
  BY PartsAssumption DEF Vsc!VscAssumption
<1> QED BY <1>1 DEF Vsc!Load, Vsc!Access, Steps, IsAct, Vals

LEMMA IgnoringStep ==
    ASSUME NEW a \in Steps, ~IsAct(a), a.fails # "retry"
    PROVE  /\ Vsc!Ignoring(a) \in Steps /\ Vsc!Ignoring(a).do = a.do /\ Vsc!Ignoring(a).reg = a.reg
           /\ Vsc!Ignoring(a).val = a.val /\ Vsc!Ignoring(a).fails = "ignore"
BY DEF Vsc!Ignoring, Steps, IsAct

(* Bodies of sections. *)
LEMMA CommandBody ==
    ASSUME NEW op \in Ops \ {"commit", "run"}, NEW arg \in Vals
    PROVE  Body(<<Vsc!Cmd(op, arg)>>) /\ VscPlain(<<Vsc!Cmd(op, arg)>>)
<1> DEFINE x == Vsc!Cmd(op, arg)
<1>1. x \in Steps /\ x.do = "command" /\ x.reg = op /\ x.fails = "stop"
  BY CmdStep
<1> HIDE DEF x
<1>2. /\ <<x>> \in Seq(Steps) /\ <<x>> # <<>> /\ Len(<<x>>) = 1 /\ <<x>>[1] = x /\ Elems(<<x>>) = {x} /\ Adjacent(<<x>>)
  BY <1>1, VscOneStep
<1>3. Body(<<x>>) /\ VscPlain(<<x>>)
  BY <1>1, <1>2 DEF Body, VscPlain, IsAct
<1> QED BY <1>3 DEF x

LEMMA AskedBody ==
    ASSUME NEW op \in Ops \ (Polled \cup Updates), NEW arg \in Vals
    PROVE  Body(Vsc!Asked(op, arg)) /\ VscPlain(Vsc!Asked(op, arg))
<1> DEFINE x == Vsc!Cmd(op, arg) y == Vsc!Fetch(op, arg)
<1>1. x \in Steps /\ x.do = "command" /\ x.reg = op /\ x.val = arg /\ x.fails = "stop"
  BY CmdStep
<1>2. y \in Steps /\ y.do = "fetch" /\ y.reg = op /\ y.val = arg /\ y.fails = "stop"
  BY FetchStep
<1>3. op \notin {"commit", "run"}
  BY DEF Updates
<1> HIDE DEF x, y
<1>4. Follows(x, y)
  BY <1>1, <1>2, <1>3 DEF Follows
<1>5. /\ <<x, y>> \in Seq(Steps) /\ <<x, y>> # <<>> /\ Len(<<x, y>>) = 2 /\ <<x, y>>[1] = x /\ <<x, y>>[2] = y
      /\ Elems(<<x, y>>) = {x, y} /\ Adjacent(<<x, y>>)
  BY <1>1, <1>2, <1>4, VscTwoSteps
<1>6. Body(<<x, y>>) /\ VscPlain(<<x, y>>)
  BY <1>1, <1>2, <1>3, <1>5 DEF Body, VscPlain, IsAct
<1> QED BY <1>6 DEF x, y, Vsc!Asked

LEMMA PlainBodies ==
    ASSUME NEW b, NEW c, Body(b), Body(c), VscPlain(b), VscPlain(c) PROVE Body(b \o c) /\ VscPlain(b \o c)
BY BodyConcat DEF VscPlain

LEMMA ToleratedBody ==
    ASSUME NEW b, Body(b), VscPlain(b)
    PROVE  Body(Vsc!Tolerated(b)) /\ VscPlain(Vsc!Tolerated(b))
<1> DEFINE u == Vsc!Tolerated(b) n == Len(b)
<1>1. b \in Seq(Steps) /\ DOMAIN b = 1..n /\ n \in Nat \ {0}
  BY TailOf, LenProperties DEF Body
<1>2. \A i \in 1..n : b[i] \in Elems(b) /\ b[i] \in Steps
  BY <1>1 DEF Elems
<1>3. \A i \in 1..n : /\ Vsc!Ignoring(b[i]) \in Steps /\ Vsc!Ignoring(b[i]).do = b[i].do /\ Vsc!Ignoring(b[i]).reg = b[i].reg
                      /\ Vsc!Ignoring(b[i]).val = b[i].val /\ Vsc!Ignoring(b[i]).fails = "ignore"
  BY <1>2, IgnoringStep DEF VscPlain
<1>4. u = [i \in 1..n |-> Vsc!Ignoring(b[i])]
  BY <1>1 DEF Vsc!Tolerated
<1> HIDE DEF u, n
<1>5. u \in Seq(Steps) /\ Len(u) = n /\ \A i \in 1..n : u[i] = Vsc!Ignoring(b[i])
  <2>1. u \in [1..n -> Steps] /\ \A i \in 1..n : u[i] = Vsc!Ignoring(b[i])
    BY <1>3, <1>4
  <2> QED BY <2>1, <1>1, SeqDef, LenProperties
<1>6. /\ \A i \in 1..n : u[i] \in Steps /\ u[i].do = b[i].do /\ u[i].reg = b[i].reg /\ u[i].val = b[i].val /\ u[i].fails = "ignore"
      /\ u # <<>>
  <2>1. Len(u) # 0
    BY <1>1, <1>5
  <2> QED BY <1>3, <1>5, <2>1, EmptySeq
<1>7. Adjacent(u)
  <2>1. ASSUME NEW i \in 1..n - 1 PROVE Follows(u[i], u[i + 1])
    <3>1. i \in 1..n /\ i + 1 \in 1..n
      BY <1>1
    <3>2. Follows(b[i], b[i + 1])
      BY DEF Body, Adjacent, n
    <3> QED BY <3>1, <3>2, <1>6 DEF Follows
  <2> QED BY <2>1, <1>5 DEF Adjacent
<1>8. \A a \in Elems(u) : \E i \in 1..n : a = u[i]
  BY <1>5 DEF Elems
<1>9. 1 \in 1..n /\ n \in 1..n
  BY <1>1
<1>10. Body(u)
  BY <1>2, <1>5, <1>6, <1>7, <1>8, <1>9 DEF Body, n
<1>11. VscPlain(u)
  BY <1>2, <1>6, <1>8 DEF VscPlain, IsAct
<1> QED BY <1>10, <1>11 DEF u

(* The calls on memory and registers of the chip. *)
PlainCall(p) == \E api, s : p = Vsc!Program(api, s, Vsc!Nothing) /\ Part(s) /\ VscPlain(s)
LEMMA PlainCallFits == ASSUME NEW p, PlainCall(p) PROVE VscFits(p) /\ p.goal.kind = "nothing"
<1>1. PICK api, s : p = Vsc!Program(api, s, Vsc!Nothing) /\ Part(s) /\ VscPlain(s)
  BY DEF PlainCall
<1>2. Vsc!Nothing \in Goals /\ Vsc!Nothing.kind = "nothing"
  BY NothingGoal
<1> QED BY <1>1, <1>2, PlainFits

LEMMA Numbers == \A a \in Sides \cup {0, 1} : Vsc!One(a) \in Vals
BY Arguments

LEMMA ChipFits == \A p \in Vsc!Calls("chip") : PlainCall(p)
<1> USE DEF PlainCall
<1>0. \A op \in {"tcm_read", "reg_read", "fw_cmd_ext", "tcm_write", "reg_write"} :
         op \in Ops \ (Polled \cup Updates) /\ op \in Ops \ {"commit", "run"}
  BY DEF Ops, Polled, Updates
<1>1. ASSUME NEW a \in Sides \cup {0, 1}
      PROVE  /\ Body(Vsc!tcm_read(a)) /\ VscPlain(Vsc!tcm_read(a)) /\ Body(Vsc!reg_read(a)) /\ VscPlain(Vsc!reg_read(a))
             /\ Body(Vsc!fw_cmd_ext(a)) /\ VscPlain(Vsc!fw_cmd_ext(a)) /\ Body(Vsc!tcm_write(a)) /\ VscPlain(Vsc!tcm_write(a))
             /\ Body(Vsc!reg_write(a)) /\ VscPlain(Vsc!reg_write(a))
  BY <1>0, Numbers, AskedBody, CommandBody
     DEF Vsc!tcm_read, Vsc!reg_read, Vsc!fw_cmd_ext, Vsc!tcm_write, Vsc!reg_write
<1>2. \A p \in Vsc!tcm_read_atomic : PlainCall(p)
  BY <1>1, PlainSection DEF Vsc!tcm_read_atomic
<1>3. \A p \in Vsc!tcm_write_atomic : PlainCall(p)
  BY <1>1, PlainSection DEF Vsc!tcm_write_atomic
<1>4. \A p \in Vsc!reg_read_atomic : PlainCall(p)
  BY <1>1, PlainSection DEF Vsc!reg_read_atomic
<1>5. \A p \in Vsc!reg_write_atomic : PlainCall(p)
  BY <1>1, PlainSection DEF Vsc!reg_write_atomic
<1>6. \A p \in Vsc!get_pcs_stats : PlainCall(p)
  BY <1>1, PlainBodies, ToleratedBody, PlainSection DEF Vsc!get_pcs_stats
<1>7. \A p \in Vsc!get_fec_stats : PlainCall(p)
  BY <1>1, PlainBodies, ToleratedBody, PlainSection DEF Vsc!get_fec_stats
<1>8. \A p \in Vsc!get_anlt_stats : PlainCall(p)
  BY <1>1, PlainBodies, ToleratedBody, PlainSection DEF Vsc!get_anlt_stats
<1>9. \A p \in Vsc!restart_anlt : PlainCall(p)
  BY <1>1, ToleratedBody, PlainSection DEF Vsc!restart_anlt
<1> QED BY <1>2, <1>3, <1>4, <1>5, <1>6, <1>7, <1>8, <1>9 DEF Vsc!Calls

(* The diagnostics. *)
LEMMA DiagnosticsFit == \A p \in Vsc!Calls("diagnostics") : PlainCall(p)
<1> USE DEF PlainCall
<1>0. /\ \A op \in {"queue_info", "uart_stat", "mem_read", "dsp_fw_init_stat", "serdes_params", "reg_read"} :
            op \in Ops \ (Polled \cup Updates)
      /\ {"log_clear", "log_dump"} \subseteq Ops \ {"commit", "run"} /\ "log_dump" \in Polled /\ <<>> \in Vals
  BY Arguments DEF Ops, Polled, Updates
<1>1. ASSUME NEW op \in {"queue_info", "uart_stat", "mem_read", "serdes_params", "reg_read"}, NEW a \in {0, 1}
      PROVE  Body(Vsc!Asked(op, Vsc!One(a))) /\ VscPlain(Vsc!Asked(op, Vsc!One(a)))
  BY <1>0, Numbers, AskedBody
<1>2. ASSUME NEW op \in {"queue_info", "uart_stat"}
      PROVE  Part(Vsc!Section(Vsc!Halves(op))) /\ VscPlain(Vsc!Section(Vsc!Halves(op)))
  BY <1>1, PlainBodies, PlainSection DEF Vsc!Halves
<1>3. Part(Vsc!uart_stat) /\ VscPlain(Vsc!uart_stat)
  BY <1>2 DEF Vsc!uart_stat
<1>4. Part(Vsc!dsp_fw_init_stat) /\ VscPlain(Vsc!dsp_fw_init_stat)
  BY <1>0, AskedBody, PlainSection DEF Vsc!dsp_fw_init_stat
<1>5. \A lane \in {0, 1} : Part(Vsc!serdes_params(lane)) /\ VscPlain(Vsc!serdes_params(lane))
  BY <1>1, PlainSection DEF Vsc!serdes_params
<1>6. \A p \in Vsc!get_event_log : PlainCall(p)
  <2> DEFINE x == Vsc!Cmd("log_dump", <<>>) y == Vsc!More("log_dump") b == <<x, y>>
  <2>1. x \in Steps /\ x.do = "command" /\ x.reg = "log_dump" /\ x.fails = "stop"
    BY <1>0, CmdStep
  <2>2. y \in Steps /\ y.do = "more" /\ y.reg = "log_dump" /\ y.fails = "stop"
    BY <1>0, MoreStep
  <2>3. Follows(x, y)
    BY <2>1, <2>2 DEF Follows
  <2>4. Body(b) /\ VscPlain(b)
    <3> HIDE DEF x, y
    <3>1. /\ b \in Seq(Steps) /\ b # <<>> /\ Len(b) = 2 /\ b[1] = x /\ b[2] = y /\ Elems(b) = {x, y} /\ Adjacent(b)
      BY <2>1, <2>2, <2>3, VscTwoSteps
    <3> HIDE DEF b
    <3> QED BY <2>1, <2>2, <3>1 DEF Body, VscPlain, IsAct
  <2>5. Part(Vsc!Section(b)) /\ VscPlain(Vsc!Section(b))
    BY <2>4, PlainSection
  <2>6. Part(Vsc!ClearLog) /\ VscPlain(Vsc!ClearLog)
    BY <1>0, CommandBody, PlainSection DEF Vsc!ClearLog
  <2> HIDE DEF b
  <2>7. <<>> \o Vsc!Section(b) = Vsc!Section(b)
    BY <2>5, ConcatEmptySeq DEF Part
  <2>8. ASSUME NEW c \in BOOLEAN
        PROVE  LET s == (IF c THEN Vsc!ClearLog ELSE <<>>) \o Vsc!Section(b) IN Part(s) /\ VscPlain(s)
    BY <2>5, <2>6, <2>7, PlainConcat
  <2>9. ASSUME NEW p \in Vsc!get_event_log PROVE PlainCall(p)
    <3>1. PICK c \in BOOLEAN :
            p = Vsc!Program("get_event_log", (IF c THEN Vsc!ClearLog ELSE <<>>) \o Vsc!Section(b), Vsc!Nothing)
      BY DEF Vsc!get_event_log, b
    <3> QED BY <3>1, <2>8
  <2> QED BY <2>9
<1>7. \A p \in Vsc!queue_info : PlainCall(p)
  BY <1>2 DEF Vsc!queue_info
<1>8. \A p \in Vsc!get_uart_stat : PlainCall(p)
  BY <1>3 DEF Vsc!get_uart_stat
<1>9. \A p \in Vsc!mem_read : PlainCall(p)
  BY <1>1, PlainSection, PlainConcat DEF Vsc!mem_read
<1>10. \A p \in Vsc!get_dsp_fw_init_stat : PlainCall(p)
  BY <1>4 DEF Vsc!get_dsp_fw_init_stat
<1>11. \A p \in Vsc!get_serdes_params : PlainCall(p)
  BY <1>5 DEF Vsc!get_serdes_params
<1>12. \A p \in Vsc!health_check : PlainCall(p)
  <2>1. Body(Vsc!reg_read(0)) /\ VscPlain(Vsc!reg_read(0))
    BY <1>1 DEF Vsc!reg_read
  <2> QED BY <1>3, <2>1, PlainSection, PlainConcat DEF Vsc!health_check
<1>13. \A p \in Vsc!debug_dump_registers : PlainCall(p)
  BY <1>3, <1>4, <1>5, PlainConcat DEF Vsc!debug_dump_registers
<1> QED BY <1>6, <1>7, <1>8, <1>9, <1>10, <1>11, <1>12, <1>13 DEF Vsc!Calls

(* The calls on firmware: looking and resetting, *)
LEMMA LookingFits == \A p \in Vsc!Looking : VscFits(p)
<1>0. \A S \in SUBSET Sides : Vsc!All(S, 1) \in Vals /\ DOMAIN Vsc!All(S, 1) = S
  BY Arguments
<1>1. ASSUME NEW p \in Vsc!get_firmware_version PROVE VscFits(p)
  <2>1. PICK s \in Sides : p = Vsc!Program("get_firmware_version", Vsc!firmware_version(s), Vsc!Nothing)
    BY DEF Vsc!get_firmware_version
  <2>2. "get_info" \in Ops \ (Polled \cup Updates) /\ Vsc!All({s}, 1) \in Vals
    BY <1>0 DEF Ops, Polled, Updates
  <2>3. Part(Vsc!firmware_version(s)) /\ VscPlain(Vsc!firmware_version(s))
    BY <2>2, AskedBody, PlainSection DEF Vsc!firmware_version
  <2>4. PlainCall(p)
    BY <2>1, <2>3 DEF PlainCall
  <2> QED BY <2>4, PlainCallFits
<1>2. ASSUME NEW p \in Vsc!reset PROVE VscFits(p)
  <2>1. PICK s \in Sides :
          p = Vsc!Program("reset", Vsc!Section(<<Vsc!Cmd("run", Vsc!All({s}, 1))>>), Vsc!Goal("reset", "none", <<>>))
    BY DEF Vsc!reset
  <2> DEFINE x == Vsc!Cmd("run", Vsc!All({s}, 1)) b == <<x>> u == Vsc!Section(b)
  <2>2. Vsc!All({s}, 1) \in Vals /\ "run" \in Ops
    BY <1>0 DEF Ops
  <2>3. x \in Steps /\ x.do = "command" /\ x.reg = "run" /\ x.fails = "stop"
    BY <2>2, CmdStep
  <2>4. p.todo = u /\ p.goal = Vsc!Goal("reset", "none", <<>>)
    BY <2>1 DEF Vsc!Program
  <2> HIDE DEF x
  <2>5. /\ b \in Seq(Steps) /\ b # <<>> /\ Len(b) = 1 /\ b[1] = x /\ Elems(b) = {x} /\ Adjacent(b)
    BY <2>3, VscOneStep
  <2> HIDE DEF b
  <2>6. Body(b)
    BY <2>3, <2>5 DEF Body
  <2>7. Part(u) /\ Elems(u) = {Vsc!Lock, Vsc!Unlock, x}
    BY <2>5, <2>6, SectionPart
  <2> HIDE DEF u
  <2>8. p.goal \in Goals /\ p.goal.kind = "reset"
    BY <2>4 DEF Vsc!Goal, Goals, Vals
  <2>9. Chosen(u) /\ NoRetry(u)
    BY <2>3, <2>7, LockSteps DEF Chosen, NoRetry
  <2>10. Ordered(u)
    BY <2>9, PlainOrdered
  <2>11. \A a \in Elems(u) : Resetting(a)
    BY <2>3, <2>7, LockSteps DEF Resetting
  <2> QED BY <2>3, <2>4, <2>7, <2>8, <2>9, <2>10, <2>11, LockSteps DEF VscFits, IsAct
<1> QED BY <1>1, <1>2 DEF Vsc!Looking

(* activating, *)
LEMMA CommitAndRunPart ==
    ASSUME NEW arg \in Vals
    PROVE  /\ Part(Vsc!CommitAndRun(arg))
           /\ Elems(Vsc!CommitAndRun(arg)) = {Vsc!Lock, Vsc!Cmd("commit", arg), Vsc!Cmd("run", arg), Vsc!Unlock}
<1> DEFINE x == Vsc!Cmd("commit", arg) y == Vsc!Cmd("run", arg)
<1>1. /\ x \in Steps /\ x.do = "command" /\ x.reg = "commit" /\ x.val = arg
      /\ y \in Steps /\ y.do = "command" /\ y.reg = "run" /\ y.val = arg
  <2>1. "commit" \in Ops /\ "run" \in Ops
    BY DEF Ops
  <2> QED BY <2>1, CmdStep
<1> HIDE DEF x, y
<1>2. Follows(x, y)
  BY <1>1 DEF Follows
<1>3. /\ <<x, y>> \in Seq(Steps) /\ <<x, y>> # <<>> /\ Len(<<x, y>>) = 2 /\ <<x, y>>[1] = x /\ <<x, y>>[2] = y
      /\ Elems(<<x, y>>) = {x, y} /\ Adjacent(<<x, y>>)
  BY <1>1, <1>2, VscTwoSteps
<1>4. Body(<<x, y>>)
  BY <1>1, <1>3 DEF Body
<1>5. Part(Vsc!Section(<<x, y>>)) /\ Elems(Vsc!Section(<<x, y>>)) = {Vsc!Lock, Vsc!Unlock} \cup {x, y}
  BY <1>3, <1>4, SectionPart
<1> QED BY <1>5 DEF Vsc!CommitAndRun, x, y

LEMMA ActStep ==
    ASSUME NEW op \in {"commit", "run"}, NEW arg \in Vals
    PROVE  LET a == Vsc!Cmd(op, arg) IN
           a \in Steps /\ a.do = "command" /\ a.reg = op /\ a.val = arg /\ a.fails = "stop"
<1>1. op \in Ops
  BY DEF Ops
<1> QED BY <1>1, CmdStep

LEMMA WithoutFileFits ==
    ASSUME NEW api, NEW S \in SUBSET Sides, S # {}
    PROVE  VscFits(Vsc!WithoutFile(api, S)) /\ Vsc!WithoutFile(api, S).goal.kind = "activate"
<1> DEFINE p == Vsc!WithoutFile(api, S) arg == Vsc!All(S, 1) u == Vsc!CommitAndRun(arg)
<1>1. arg \in Vals /\ arg # <<>>
  BY Arguments
<1>2. p.todo = u /\ p.goal = Vsc!Activated(S)
  BY DEF Vsc!WithoutFile, Vsc!Program
<1>3. p.goal \in Goals /\ p.goal.kind = "activate" /\ p.goal.val = arg
  BY <1>1, <1>2 DEF Vsc!Activated, Vsc!Goal, Goals
<1> HIDE DEF p, arg
<1>4. Part(u) /\ \A a \in Elems(u) : a = Vsc!Lock \/ a = Vsc!Unlock \/ (a.do = "command" /\ a.val = arg /\ a.fails = "stop")
  <2>1. Elems(u) = {Vsc!Lock, Vsc!Cmd("commit", arg), Vsc!Cmd("run", arg), Vsc!Unlock} /\ Part(u)
    BY <1>1, CommitAndRunPart
  <2> HIDE DEF u
  <2> QED BY <1>1, <2>1, ActStep
<1> HIDE DEF u
<1>5. Chosen(u) /\ NoRetry(u)
  BY <1>4, LockSteps DEF Chosen, NoRetry
<1>6. Ordered(u)
  BY <1>5, PlainOrdered
<1>7. VscFits(p)
  BY <1>1, <1>2, <1>3, <1>4, <1>5, <1>6, LockSteps DEF VscFits, IsAct
<1> QED BY <1>3, <1>7 DEF p

LEMMA OrderedConcat ==
    ASSUME NEW s \in Seq(Steps), NEW t \in Seq(Steps), Ordered(s), Ordered(t),
           \A a \in Elems(s), b \in Elems(t) :
               (a.do = "any" => b.do \notin {"fetch", "any"}) /\ (b.do = "any" => ~IsAct(a))
    PROVE  Ordered(s \o t)
<1> DEFINE u == s \o t m == Len(s) n == Len(t)
<1>1. /\ Len(u) = m + n /\ m \in Nat /\ n \in Nat
      /\ \A i \in 1..m : u[i] = s[i] /\ s[i] \in Elems(s)
  BY ConcatOf DEF Elems
<1>2. \A i \in 1..n : u[m + i] = t[i] /\ t[i] \in Elems(t)
  BY ConcatOf DEF Elems
<1> HIDE DEF u, m, n
<1>3. \A i \in 1..Len(u) : \/ i \in 1..m
                           \/ \E k \in 1..n : i = m + k
  <2> TAKE i \in 1..Len(u)
  <2>1. CASE i > m
    <3>1. i - m \in 1..n /\ i = m + (i - m)
      BY <2>1, <1>1
    <3> QED BY <3>1
  <2> QED BY <2>1, <1>1
<1>4. ASSUME NEW i \in 1..Len(u), NEW j \in 1..Len(u), i < j
      PROVE  /\ u[i].do = "any" => u[j].do \notin {"fetch", "any"}
             /\ u[j].do = "any" => ~IsAct(u[i])
  <2>1. CASE i \in 1..m /\ j \in 1..m
    BY <2>1, <1>1, <1>4 DEF Ordered, m
  <2>2. CASE i \in 1..m /\ \E l \in 1..n : j = m + l
    BY <2>2, <1>1, <1>2
  <2>3. CASE \E k \in 1..n : i = m + k
    <3>1. PICK k \in 1..n : i = m + k
      BY <2>3
    <3>2. PICK l \in 1..n : j = m + l
      BY <3>1, <1>1, <1>3, <1>4
    <3>3. k < l
      BY <3>1, <3>2, <1>1, <1>4
    <3> QED BY <3>1, <3>2, <3>3, <1>2 DEF Ordered, n
  <2> QED BY <2>1, <2>2, <2>3, <1>3
<1> QED BY <1>4 DEF Ordered, u

LEMMA FromFileFits ==
    ASSUME NEW api, NEW S \in SUBSET Sides
    PROVE  VscFits(Vsc!FromFile(api, S)) /\ Vsc!FromFile(api, S).goal.kind = "activate file"
<1> DEFINE p == Vsc!FromFile(api, S) v == Vsc!Versions x == Vsc!AnyOf(S) c == Vsc!CommitAndRun(<<>>) w == v \o <<x>>
<1>1. Vsc!All(S, 1) \in Vals /\ <<>> \in Vals
  BY Arguments
<1>2. p.todo = w \o c /\ p.goal = Vsc!FileGoal(S)
  BY DEF Vsc!FromFile, Vsc!Program, Vsc!Marked
<1>3. p.goal \in Goals /\ p.goal.kind = "activate file"
  <2>1. PICK y \in Vals : y = Vsc!All(S, 1)
    BY <1>1
  <2>2. Vsc!FileGoal(S) = [kind |-> "activate file", reg |-> "none", val |-> y]
    BY <2>1 DEF Vsc!FileGoal, Vsc!Goal
  <2>3. ASSUME NEW g, g = [kind |-> "activate file", reg |-> "none", val |-> y]
        PROVE  g \in Goals /\ g.kind = "activate file"
    BY ONLY <2>1, <2>3 DEF Goals
  <2> HIDE DEF p
  <2> QED BY ONLY <1>2, <2>2, <2>3
<1>4. Part(v) /\ VscPlain(v)
  <2>1. ASSUME NEW s \in {0, 1} PROVE Part(Vsc!firmware_version(s)) /\ VscPlain(Vsc!firmware_version(s))
    <3>1. "get_info" \in Ops \ (Polled \cup Updates) /\ Vsc!All({s}, 1) \in Vals
      BY Arguments, PartsAssumption DEF Ops, Polled, Updates, Vsc!VscAssumption
    <3> QED BY <3>1, AskedBody, PlainSection DEF Vsc!firmware_version
  <2> QED BY <2>1, PlainConcat DEF Vsc!Versions
<1>5. x \in Steps /\ x.do = "any" /\ x.fails = "stop" /\ ~IsAct(x)
  BY <1>1 DEF Vsc!AnyOf, Vsc!Access, Steps, IsAct
<1>6. Part(c) /\ \A a \in Elems(c) : a = Vsc!Lock \/ a = Vsc!Unlock \/ (a.do = "command" /\ a.val = <<>> /\ a.fails = "stop")
  <2>1. Elems(c) = {Vsc!Lock, Vsc!Cmd("commit", <<>>), Vsc!Cmd("run", <<>>), Vsc!Unlock} /\ Part(c)
    BY <1>1, CommitAndRunPart
  <2> HIDE DEF c
  <2> QED BY <1>1, <2>1, ActStep
<1> HIDE DEF v, x, c, p
<1>7. /\ <<x>> \in Seq(Steps) /\ <<x>> # <<>> /\ Len(<<x>>) = 1 /\ <<x>>[1] = x /\ Elems(<<x>>) = {x} /\ Adjacent(<<x>>)
  BY <1>5, VscOneStep
<1>8. /\ w \in Seq(Steps) /\ w # <<>> /\ Adjacent(w) /\ w[1] = v[1] /\ w[Len(w)] = x /\ Elems(w) = Elems(v) \cup {x}
  <2>1. v \in Seq(Steps) /\ v # <<>> /\ Adjacent(v) /\ v[Len(v)].do = "unlock"
    BY <1>4 DEF Part, Sound, Adjacent
  <2>2. Follows(v[Len(v)], x)
    BY <1>5, <2>1 DEF Follows, Outside
  <2> QED BY <1>7, <2>1, <2>2, Joined
<1>9. Ordered(w)
  <2>1. Chosen(v) /\ v \in Seq(Steps) /\ \A a \in Elems(v) : a.do # "any" /\ ~IsAct(a)
    BY <1>4 DEF VscPlain, Chosen, Part
  <2>2. Ordered(v)
    BY <2>1, PlainOrdered
  <2>3. Ordered(<<x>>)
    BY <1>7 DEF Ordered
  <2> QED BY <1>7, <2>1, <2>2, <2>3, OrderedConcat
<1> HIDE DEF w
<1>10. c \in Seq(Steps) /\ c # <<>> /\ Adjacent(c) /\ c[1].do \in Outside /\ c[Len(c)].do = "unlock" /\ Chosen(c)
  BY <1>6, LockSteps DEF Part, Sound, Adjacent, Chosen
<1>11. /\ w \o c \in Seq(Steps) /\ w \o c # <<>> /\ Adjacent(w \o c) /\ (w \o c)[1] = w[1]
       /\ (w \o c)[Len(w \o c)] = c[Len(c)] /\ Elems(w \o c) = Elems(w) \cup Elems(c)
  <2>1. Follows(w[Len(w)], c[1])
    BY <1>5, <1>8, <1>10 DEF Follows, Outside
  <2> QED BY <1>8, <1>10, <2>1, Joined
<1>12. Ordered(w \o c)
  <2>1. Ordered(c)
    BY <1>10, PlainOrdered
  <2>2. \A a \in Elems(w), b \in Elems(c) :
               (a.do = "any" => b.do \notin {"fetch", "any"}) /\ (b.do = "any" => ~IsAct(a))
    BY <1>6, LockSteps
  <2> QED BY <1>8, <1>9, <1>10, <2>1, <2>2, OrderedConcat
<1> DEFINE u == w \o c
<1>13. Part(u)
  BY <1>4, <1>8, <1>10, <1>11 DEF Part, Sound, Adjacent
<1>14. NoRetry(u) /\ ~Chosen(u) /\ \A a \in Elems(u) : IsAct(a) => a.val = <<>>
  BY <1>4, <1>5, <1>6, <1>8, <1>11, LockSteps DEF NoRetry, Chosen, VscPlain, IsAct
<1>15. VscFits(p)
  BY <1>2, <1>3, <1>12, <1>13, <1>14 DEF VscFits
<1> QED BY <1>3, <1>15 DEF p


(* downloading, *)
Sends(a) ==
    /\ a.do \in {"lock", "unlock", "load"} \/ (a.do = "command" /\ a.reg = "xfer")
    /\ a.fails # "ignore"
LEMMA ChunkPart ==
    ASSUME NEW k \in 1..Chunks
    PROVE  LET s == Vsc!Chunk(k) IN
           /\ s \in Seq(Steps) /\ Len(s) = 4 /\ Adjacent(s) /\ s[1].do \in Outside /\ s[4].do = "unlock"
           /\ \A i \in 1..4 : Sends(s[i])
<1> DEFINE x == Vsc!Load(k) c == Vsc!Cmd("xfer", Vsc!One(k)) y == Vsc!Retrying(c) s == Vsc!Chunk(k)
           l == Vsc!Lock u == Vsc!Unlock
<1>1. k \in Nat /\ Vsc!One(k) \in Vals
  BY Arguments, PartsAssumption DEF Vsc!VscAssumption
<1>2. "xfer" \in Ops
  BY DEF Ops
<1>3. x \in Steps /\ x.do = "load" /\ x.fails # "ignore"
  BY LoadStep
<1>4. c \in Steps /\ c.do = "command" /\ c.reg = "xfer" /\ c.val = Vsc!One(k)
  BY <1>1, <1>2, CmdStep
<1>5. y \in Steps /\ y.do = "command" /\ y.reg = "xfer" /\ y.fails # "ignore"
  <2> HIDE DEF c
  <2> QED BY <1>4 DEF Vsc!Retrying, Steps, IsAct
<1>6. l \in Steps /\ u \in Steps /\ l.do = "lock" /\ u.do = "unlock" /\ l.fails # "ignore" /\ u.fails # "ignore"
  BY LockSteps
<1>7. s = <<l>> \o <<x, y>> \o <<u>>
  BY DEF Vsc!Chunk, Vsc!Section
<1> HIDE DEF x, y, l, u, s
<1> DEFINE b == <<x, y>> h == <<l>> t == <<u>> g == h \o b
<1>80. b \in Seq(Steps) /\ Len(b) = 2 /\ b[1] = x /\ b[2] = y /\ h \in Seq(Steps) /\ Len(h) = 1 /\ h[1] = l
       /\ t \in Seq(Steps) /\ Len(t) = 1 /\ t[1] = u /\ s = g \o t
  BY <1>3, <1>5, <1>6, <1>7
<1> HIDE DEF b, h, t, s
<1>82. g \in Seq(Steps) /\ Len(g) = 3 /\ g[1] = l /\ g[2] = x /\ g[3] = y
  <2>0. h \in Seq(Steps) /\ b \in Seq(Steps)
    BY <1>80
  <2>1. g \in Seq(Steps) /\ Len(g) = Len(h) + Len(b)
    BY ONLY <2>0, ConcatOf
  <2>2. \A i \in 1..Len(h) : g[i] = h[i]
    BY ONLY <2>0, ConcatOf
  <2>3. \A i \in 1..Len(b) : g[Len(h) + i] = b[i]
    BY ONLY <2>0, ConcatOf
  <2> HIDE DEF g
  <2>4. g[1] = h[1] /\ g[1 + 1] = b[1] /\ g[1 + 2] = b[2]
    BY <2>2, <2>3, <1>80
  <2> QED BY <2>1, <2>4, <1>80
<1> HIDE DEF g
<1>9. s \in Seq(Steps) /\ Len(s) = 4 /\ s[1] = l /\ s[2] = x /\ s[3] = y /\ s[4] = u
  <2>0. g \in Seq(Steps) /\ t \in Seq(Steps)
    BY <1>80, <1>82
  <2>1. g \o t \in Seq(Steps) /\ Len(g \o t) = Len(g) + Len(t)
    BY ONLY <2>0, ConcatOf
  <2>2. \A i \in 1..Len(g) : (g \o t)[i] = g[i]
    BY ONLY <2>0, ConcatOf
  <2>3. \A i \in 1..Len(t) : (g \o t)[Len(g) + i] = t[i]
    BY ONLY <2>0, ConcatOf
  <2>4. s[1] = g[1] /\ s[2] = g[2] /\ s[3] = g[3] /\ s[3 + 1] = t[1]
    <3> DEFINE f == g \o t
    <3>1. s = f /\ (\A i \in 1..3 : f[i] = g[i]) /\ (\A i \in 1..1 : f[3 + i] = t[i])
      BY <2>2, <2>3, <1>80, <1>82
    <3> HIDE DEF f
    <3> QED BY <3>1
  <2> QED BY <2>1, <2>4, <1>80, <1>82
<1>10. \A i \in 1..4 : i = 1 \/ i = 2 \/ i = 3 \/ i = 4
  OBVIOUS
<1>11. \A i \in 1..Len(s) - 1 : (i = 1 /\ i + 1 = 2) \/ (i = 2 /\ i + 1 = 3) \/ (i = 3 /\ i + 1 = 4)
  BY <1>9
<1>12. Follows(l, x) /\ Follows(x, y) /\ Follows(y, u)
  BY <1>3, <1>5, <1>6 DEF Follows
<1>13. Adjacent(s)
  BY <1>9, <1>11, <1>12 DEF Adjacent
<1> QED BY <1>3, <1>5, <1>6, <1>9, <1>10, <1>13 DEF s, Outside, Sends

(* The place of a step in the transfer: which chunk's, and which of its four.*)
LEMMA Places ==
    ASSUME NEW n \in Nat, NEW i \in 1..4 * n
    PROVE  /\ (i + 3) \div 4 \in 1..n /\ ((i + 3) % 4) + 1 \in 1..4
           /\ i + 1 \in 1..4 * n =>
                  \/ (i + 1 + 3) \div 4 = (i + 3) \div 4 /\ (i + 1 + 3) % 4 = ((i + 3) % 4) + 1 /\ ((i + 3) % 4) + 1 \in 1..3
                  \/ (i + 3) % 4 = 3 /\ (i + 1 + 3) % 4 = 0
           /\ i = 1 => (i + 3) % 4 = 0
           /\ i = 4 * n => (i + 3) % 4 = 3
<1>1. PICK q \in Nat, r \in 0..3 : i + 3 = 4 * q + r /\ q = (i + 3) \div 4 /\ r = (i + 3) % 4
  OBVIOUS
<1>2. PICK c \in Nat, d \in 0..3 : i + 1 + 3 = 4 * c + d /\ c = (i + 1 + 3) \div 4 /\ d = (i + 1 + 3) % 4
  OBVIOUS
<1>3. q \in 1..n /\ r + 1 \in 1..4
  BY <1>1
<1>4. (c = q /\ d = r + 1 /\ r + 1 \in 1..3) \/ (r = 3 /\ d = 0)
  BY <1>1, <1>2
<1>5. (i = 1 => r = 0) /\ (i = 4 * n => r = 3)
  BY <1>1
<1> QED BY <1>1, <1>2, <1>3, <1>4, <1>5

LEMMA TransferPart ==
    LET s == Vsc!Transfer IN
    Part(s) /\ \A a \in Elems(s) : Sends(a)
<1> DEFINE n == Chunks q(i) == (i + 3) \div 4 r(i) == (i + 3) % 4 C(k) == Vsc!Chunk(k) s == Vsc!Transfer
<1>1. n \in Nat \ {0}
  BY PartsAssumption DEF Vsc!VscAssumption
<1>2. s = [i \in 1..4 * n |-> C(q(i))[r(i) + 1]]
  BY DEF Vsc!Transfer
<1>3. ASSUME NEW k \in 1..n
      PROVE  /\ C(k) \in Seq(Steps) /\ Len(C(k)) = 4 /\ Adjacent(C(k)) /\ C(k)[1].do \in Outside /\ C(k)[4].do = "unlock"
             /\ \A i \in 1..4 : Sends(C(k)[i])
  BY ChunkPart
<1>4. ASSUME NEW i \in 1..4 * n
      PROVE  /\ q(i) \in 1..n /\ r(i) + 1 \in 1..4
             /\ i + 1 \in 1..4 * n =>
                    \/ q(i + 1) = q(i) /\ r(i + 1) = r(i) + 1 /\ r(i) + 1 \in 1..3
                    \/ r(i) = 3 /\ r(i + 1) = 0
             /\ i = 1 => r(i) = 0
             /\ i = 4 * n => r(i) = 3
  BY <1>1, Places
<1> HIDE DEF n, C, q, r, s
<1>5. \A k \in 1..n : \A i \in 1..4 : C(k)[i] \in Steps
  BY <1>3
<1>6. s \in [1..4 * n -> Steps] /\ \A i \in 1..4 * n : s[i] = C(q(i))[r(i) + 1]
  BY <1>2, <1>4, <1>5
<1>7. 4 * n \in Nat /\ 1 \in 1..4 * n /\ 4 * n \in 1..4 * n /\ 4 * n # 0
  BY <1>1
<1>8. s \in Seq(Steps) /\ Len(s) = 4 * n
  <2> DEFINE m == 4 * n
  <2>1. m \in Nat /\ s \in [1..m -> Steps]
    BY <1>6, <1>7
  <2> HIDE DEF m
  <2>2. s \in Seq(Steps) /\ Len(s) = m
    BY <2>1, SeqDef, LenProperties
  <2> QED BY <2>2 DEF m
<1>9. s # <<>>
  BY <1>7, <1>8, EmptySeq
<1>10. s[1].do \in Outside
  <2>1. q(1) \in 1..n /\ r(1) = 0 /\ s[1] = C(q(1))[r(1) + 1]
    BY <1>4, <1>6, <1>7
  <2> QED BY <2>1, <1>3
<1>11. s[Len(s)].do = "unlock"
  <2> DEFINE m == 4 * n
  <2>1. q(m) \in 1..n /\ r(m) = 3 /\ s[m] = C(q(m))[r(m) + 1]
    BY <1>4, <1>6, <1>7
  <2> QED BY <2>1, <1>3, <1>8
<1>12. ASSUME NEW i \in 1..Len(s) - 1 PROVE Follows(s[i], s[i + 1])
  <2>1. i \in 1..4 * n /\ i + 1 \in 1..4 * n
    BY <1>7, <1>8
  <2>2. /\ q(i) \in 1..n /\ q(i + 1) \in 1..n
        /\ s[i] = C(q(i))[r(i) + 1] /\ s[i + 1] = C(q(i + 1))[r(i + 1) + 1]
    BY <2>1, <1>4, <1>6
  <2>3. CASE q(i + 1) = q(i) /\ r(i + 1) = r(i) + 1 /\ r(i) + 1 \in 1..3
    <3>1. r(i) + 1 \in 1..Len(C(q(i))) - 1
      BY <2>2, <2>3, <1>3
    <3> QED BY <3>1, <2>2, <2>3, <1>3 DEF Adjacent
  <2>4. CASE r(i) = 3 /\ r(i + 1) = 0
    <3>1. s[i].do = "unlock" /\ s[i + 1].do \in Outside
      BY <2>2, <2>4, <1>3
    <3> QED BY <3>1 DEF Follows, Outside
  <2> QED BY <2>1, <2>3, <2>4, <1>4
<1>13. ASSUME NEW a \in Elems(s) PROVE Sends(a)
  <2>1. PICK i \in 1..4 * n : a = s[i]
    BY <1>8 DEF Elems
  <2>2. q(i) \in 1..n /\ r(i) + 1 \in 1..4 /\ a = C(q(i))[r(i) + 1]
    BY <2>1, <1>4, <1>6
  <2> QED BY <2>2, <1>3
<1> QED BY <1>8, <1>9, <1>10, <1>11, <1>12, <1>13 DEF Part, Sound, s

Quiet(s) == \A a \in Elems(s) : a.do # "any" /\ ~IsAct(a) /\ (a.do = "more" => a.reg # "log_dump")
LEMMA QuietSection ==
    ASSUME NEW op \in Ops \ {"commit", "run"}
    PROVE  LET s == Vsc!Section(<<Vsc!Cmd(op, <<>>)>>) IN Part(s) /\ Quiet(s)
<1> DEFINE x == Vsc!Cmd(op, <<>>) b == <<x>> s == Vsc!Section(b)
<1>1. x \in Steps /\ x.do = "command" /\ x.reg = op
  BY CmdStep, Arguments
<1>2. Body(b)
  BY CommandBody, Arguments
<1>3. Elems(b) = {x}
  <2> HIDE DEF x
  <2> QED BY <1>1, VscOneStep
<1>4. Part(s) /\ Elems(s) = {Vsc!Lock, Vsc!Unlock, x}
  BY <1>2, <1>3, SectionPart
<1> HIDE DEF x, s
<1> QED BY <1>1, <1>4, LockSteps DEF Quiet, IsAct, s, b, x

LEMMA QuietConcat == ASSUME NEW s, NEW t, Part(s), Part(t), Quiet(s), Quiet(t) PROVE Part(s \o t) /\ Quiet(s \o t)
BY PartConcat DEF Quiet

LEMMA DownloadFits == \A p \in Vsc!download_firmware : VscFits(p) /\ p.goal.kind = "download"
<1>1. {"start", "complete", "uart", "uart_status"} \subseteq Ops \ {"commit", "run"} /\ "uart_status" \in Polled
  BY DEF Ops, Polled
<1>2. Part(Vsc!Begun) /\ Quiet(Vsc!Begun)
  BY <1>1, QuietSection DEF Vsc!Begun
<1>3. Part(Vsc!Complete) /\ Quiet(Vsc!Complete)
  BY <1>1, QuietSection DEF Vsc!Complete
<1>4. Part(Vsc!Transfer) /\ Quiet(Vsc!Transfer)
  BY TransferPart DEF Quiet, Sends, IsAct
<1>5. Part(Vsc!ToOtherSides) /\ Quiet(Vsc!ToOtherSides)
  <2> DEFINE x == Vsc!Cmd("uart_status", <<>>) y == Vsc!Ignoring(x) z == Vsc!More("uart_status") b == <<y, z>>
             s == Vsc!Section(b)
  <2>1. x \in Steps /\ x.do = "command" /\ x.reg = "uart_status" /\ x.fails = "stop"
    BY <1>1, CmdStep, Arguments
  <2>2. y \in Steps /\ y.do = "command" /\ y.reg = "uart_status"
    <3> HIDE DEF x
    <3> QED BY <2>1, IgnoringStep DEF IsAct
  <2>3. z \in Steps /\ z.do = "more" /\ z.reg = "uart_status"
    BY <1>1, MoreStep
  <2> HIDE DEF y, z
  <2>4. Follows(y, z)
    BY <2>2, <2>3 DEF Follows
  <2>5. /\ b \in Seq(Steps) /\ b # <<>> /\ Len(b) = 2 /\ b[1] = y /\ b[2] = z /\ Elems(b) = {y, z} /\ Adjacent(b)
    BY <2>2, <2>3, <2>4, VscTwoSteps
  <2> HIDE DEF b
  <2>6. Body(b)
    BY <2>2, <2>3, <2>5 DEF Body
  <2>7. Part(s) /\ Elems(s) = {Vsc!Lock, Vsc!Unlock, y, z}
    BY <2>5, <2>6, SectionPart
  <2> HIDE DEF s
  <2>8. Quiet(s)
    BY <2>2, <2>3, <2>7, LockSteps DEF Quiet, IsAct
  <2> DEFINE u == Vsc!Section(<<Vsc!Cmd("uart", <<>>)>>)
  <2>9. Part(u) /\ Quiet(u)
    BY <1>1, QuietSection
  <2> HIDE DEF u
  <2>10. Part(u \o s) /\ Quiet(u \o s)
    BY <2>7, <2>8, <2>9, QuietConcat
  <2> QED BY <2>10 DEF Vsc!ToOtherSides, u, s, b, y, z
<1> DEFINE s == Vsc!Begun \o Vsc!Transfer \o Vsc!Complete \o Vsc!ToOtherSides g == Vsc!Goal("download", "none", <<>>)
<1>6. Part(s) /\ Quiet(s)
  BY <1>2, <1>3, <1>4, <1>5, QuietConcat
<1> HIDE DEF s
<1>7. Chosen(s) /\ NoLog(s) /\ \A a \in Elems(s) : ~IsAct(a)
  BY <1>6 DEF Quiet, Chosen, NoLog
<1>8. g \in Goals /\ g.kind = "download"
  BY Arguments DEF Vsc!Goal, Goals
<1>9. ASSUME NEW p \in Vsc!download_firmware PROVE VscFits(p) /\ p.goal.kind = "download"
  <2>1. p.todo = s /\ p.goal = g
    BY DEF Vsc!download_firmware, Vsc!Program, s
  <2> HIDE DEF g
  <2> QED BY <2>1, <1>6, <1>7, <1>8, PlainOrdered DEF VscFits
<1> QED BY <1>9

(* and all of them. *)
LEMMA InstallingFits == \A p \in Vsc!Installing : VscFits(p) /\ p.goal.kind \in {"download", "activate", "activate file"}
<1>0. Sides # {} /\ Sides \in SUBSET Sides /\ \A s \in Sides : {s} \in SUBSET Sides /\ {s} # {}
  BY PartsAssumption DEF Vsc!VscAssumption
<1>1. ASSUME NEW p \in Vsc!activate_firmware PROVE VscFits(p) /\ p.goal.kind \in {"activate", "activate file"}
  <2>1. p = Vsc!WithoutFile("activate_firmware", Sides) \/ p = Vsc!FromFile("activate_firmware", Sides)
    BY DEF Vsc!activate_firmware
  <2> QED BY <2>1, <1>0, WithoutFileFits, FromFileFits
<1>2. ASSUME NEW p \in Vsc!rollback_firmware PROVE VscFits(p) /\ p.goal.kind \in {"activate", "activate file"}
  <2>1. PICK q \in Vsc!activate_firmware : p = [q EXCEPT !.api = "rollback_firmware"]
    BY DEF Vsc!rollback_firmware
  <2>2. \E api, s, g : q = Vsc!Program(api, s, g)
    BY DEF Vsc!activate_firmware, Vsc!WithoutFile, Vsc!FromFile
  <2>3. p.todo = q.todo /\ p.goal = q.goal
    BY <2>1, <2>2 DEF Vsc!Program
  <2> QED BY <2>3, <1>1 DEF VscFits
<1>3. ASSUME NEW p \in Vsc!activate_target_firmware PROVE VscFits(p) /\ p.goal.kind \in {"activate", "activate file"}
  <2>1. PICK s \in Sides :
          p = Vsc!WithoutFile("activate_target_firmware", {s}) \/ p = Vsc!FromFile("activate_target_firmware", {s})
    BY DEF Vsc!activate_target_firmware
  <2> QED BY <2>1, <1>0, WithoutFileFits, FromFileFits
<1> QED BY <1>1, <1>2, <1>3, DownloadFits DEF Vsc!Installing

-------------------------------------------------------------------------------
(* Every action keeps the base of the invariant.  The start of a call: *)
LEMMA BeginStep ==
    ASSUME VscBase, NEW t \in Threads, Vsc!Begin(t)
    PROVE  /\ VscBase' /\ run' = [run EXCEPT ![t] = run'[t]] /\ run[t].todo = <<>>
           /\ run'[t].todo # <<>> /\ run'[t].phase = "next" /\ Vsc!Step(t)'.do \in Outside
           /\ run'[t].goal.kind = "reset" => t \notin Installers /\ family = "firmware"
           /\ family # "firmware" => run'[t].goal.kind = "nothing"
<1>1. PICK p \in IF family # "firmware" THEN Vsc!Calls(family) ELSE IF t \in Installers THEN Vsc!Installing ELSE Vsc!Looking :
        run' = [run EXCEPT ![t] = [Vsc!Idle EXCEPT !.todo = p.todo, !.goal = p.goal]]
  BY DEF Vsc!Begin, Vsc!Continue
<1>2. family \in {"chip", "diagnostics", "firmware"}
  BY DEF VscBase, VscTyped
<1>3. /\ VscFits(p)
      /\ p.goal.kind = "reset" => t \notin Installers /\ family = "firmware"
      /\ family # "firmware" => p.goal.kind = "nothing"
  <2>1. CASE family = "chip"
    BY <1>1, <2>1, ChipFits, PlainCallFits
  <2>2. CASE family = "diagnostics"
    BY <1>1, <2>2, DiagnosticsFit, PlainCallFits
  <2>3. CASE family = "firmware" /\ t \in Installers
    BY <1>1, <2>3, InstallingFits
  <2>4. CASE family = "firmware" /\ t \notin Installers
    BY <1>1, <2>4, LookingFits
  <2> QED BY <1>2, <2>1, <2>2, <2>3, <2>4
<1> DEFINE n == [Vsc!Idle EXCEPT !.todo = p.todo, !.goal = p.goal] s == p.todo
<1>4. /\ s \in Seq(Steps) /\ s # <<>> /\ s[1].do \in Outside /\ Sound(s) /\ p.goal \in Goals
      /\ NoLog(s) \/ NoRetry(s)
  BY <1>3 DEF VscFits, Part
<1>5. /\ n \in Runs /\ n.todo = s /\ n.goal = p.goal /\ n.phase = "next" /\ n.tries = 0 /\ n.found = {}
  BY <1>4, IdleType DEF Runs
<1> HIDE DEF n
<1>6. Head(s) = s[1]
  BY <1>4, TailOf
<1>7. 0 \in 0..Retries /\ 0 \in 0..Cycles
  BY PartsAssumption DEF Vsc!VscAssumption
<1>8. Acting(n)
  BY <1>3, <1>5 DEF VscFits, Acting
<1>9. InOrder(n) /\ ~Behind(n)
  BY <1>4, <1>5, <1>6, <1>7, <1>8 DEF InOrder, Behind
<1>10. run' = [run EXCEPT ![t] = n] /\ run'[t] = n /\ run[t].todo = <<>>
       /\ UNCHANGED <<mcu, family, holder, page, fw, lost, ran, good, left>>
  BY <1>1 DEF VscBase, VscTyped, Vsc!Begin, n
<1>11. VscOrderly' /\ run' \in [Threads -> Runs]
  BY <1>5, <1>9, <1>10, RunStep
<1>12. calls' \in [Threads -> 0..MaxCalls]
  <2>1. calls' = calls \/ calls' = [calls EXCEPT ![t] = @ + 1]
    BY DEF Vsc!Begin
  <2>2. calls[t] \in 0..MaxCalls /\ MaxCalls \in Nat \ {0}
    BY PartsAssumption DEF VscBase, VscTyped, Vsc!VscAssumption
  <2>3. calls[t] < MaxCalls \/ calls[t] < 1
    BY DEF Vsc!Begin
  <2>4. calls[t] + 1 \in 0..MaxCalls
    BY <2>2, <2>3
  <2> QED BY <2>1, <2>4 DEF VscBase, VscTyped
<1>13. VscTyped'
  BY <1>10, <1>11, <1>12 DEF VscBase, VscTyped
<1> QED BY <1>3, <1>4, <1>5, <1>6, <1>10, <1>11, <1>13 DEF VscBase, Vsc!Step

(* the lock; *)
LEMMA AcquireStep ==
    ASSUME VscBase, NEW t \in Threads, Vsc!Acquire(t)
    PROVE  VscBase' /\ run' = [run EXCEPT ![t] = run'[t]] /\ Onward(run[t], run'[t])
<1>1. run[t].todo # <<>> /\ Vsc!Step(t).do = "lock" /\ run' = [run EXCEPT ![t] = Vsc!Next1(t)] /\ holder' = t
      /\ holder \in {Nobody, t} /\ UNCHANGED <<mcu, family, page, fw, lost, ran, good, left, calls>>
  BY DEF Vsc!Acquire, Vsc!Doing, Vsc!Continue
<1>2. Onward(run[t], Vsc!Next1(t))
  BY <1>1, VscStepOf
<1> DEFINE n == Vsc!Next1(t)
<1> HIDE DEF n
<1>3. run' = [run EXCEPT ![t] = n] /\ run'[t] = n /\ Onward(run[t], n)
  BY <1>1, <1>2 DEF n, VscBase, VscTyped
<1>4. VscOrderly' /\ run' \in [Threads -> Runs]
  <2>1. n \in Runs /\ n.todo = Tail(run[t].todo) /\ n.todo # <<>> /\ n.phase = "next" /\ n.goal = run[t].goal
        /\ n.found = run[t].found /\ n.tries = run[t].tries
    BY <1>3 DEF Onward
  <2>2. holder' = holder \/ (holder' = t /\ holder = Nobody)
    BY <1>1
  <2> QED BY <1>1, <1>3, <2>1, <2>2, OnwardStep
<1> QED BY <1>1, <1>3, <1>4 DEF VscBase, VscTyped

LEMMA QuitBase ==
    ASSUME VscBase, NEW t \in Threads, run[t].todo # <<>>, Vsc!Quit(t),
           UNCHANGED <<mcu, family, page, fw, lost, ran, good, calls>>
    PROVE  VscBase' /\ run' = [run EXCEPT ![t] = run'[t]] /\ Over(run'[t]) /\ left' = Vsc!Gone(t)
BY QuitStep DEF VscBase, VscTyped

LEMMA BlankPage == Vsc!Blank \in Pages /\ Vsc!Blank.opcode = "none"
<1>1. <<"none", <<>>>> \in (Ops \cup {"none", "other"}) \X Vals /\ 0 \in 0..Chunks /\ <<>> \in Vals
  BY Arguments, PartsAssumption DEF Vsc!VscAssumption
<1> QED BY <1>1 DEF Vsc!Blank, Vsc!None, Pages, Opcodes

LEMMA ReleaseStep ==
    ASSUME VscBase, NEW t \in Threads, Vsc!Release(t)
    PROVE  /\ VscBase' /\ run' = [run EXCEPT ![t] = run'[t]] /\ (Over(run'[t]) \/ Onward(run[t], run'[t]))
           /\ page' = page \/ (page' = Vsc!Blank /\ mcu # "lossy" /\ page.opcode = "none")
<1>1. run[t].todo # <<>> /\ Vsc!Step(t).do = "unlock" /\ run' = [run EXCEPT ![t] = Vsc!Next1(t)]
      /\ holder' = (IF holder = t THEN Nobody ELSE holder) /\ page' = Vsc!AtRest
      /\ UNCHANGED <<mcu, family, fw, lost, ran, good, left, calls>>
  BY DEF Vsc!Release, Vsc!Doing, Vsc!Continue
<1> DEFINE n == Vsc!Next1(t)
<1>2. Over(n) \/ Onward(run[t], n)
  BY <1>1, VscStepOf
<1> HIDE DEF n
<1>3. run' = [run EXCEPT ![t] = n] /\ run'[t] = n /\ holder \in Threads \cup {Nobody} /\ holder' \in Threads \cup {Nobody}
      /\ \A u \in Threads \ {t} : holder = u => holder' = u
  BY <1>1 DEF n, VscBase, VscTyped
<1>4. VscOrderly' /\ run' \in [Threads -> Runs]
  <2>1. CASE Over(n)
    BY <2>1, <1>3, OverStep
  <2>2. CASE Onward(run[t], n)
    <3>1. n \in Runs /\ n.todo = Tail(run[t].todo) /\ n.todo # <<>> /\ n.phase = "next" /\ n.goal = run[t].goal
          /\ n.found = run[t].found /\ n.tries = run[t].tries
      BY <2>2 DEF Onward
    <3> QED BY <1>1, <1>3, <3>1, OnwardStep
  <2> QED BY <1>2, <2>1, <2>2
<1>5. /\ page' = page \/ (page' = Vsc!Blank /\ mcu # "lossy" /\ page.opcode = "none")
      /\ page' \in Pages /\ (page'.opcode # "none" => page'.by \in Threads)
  BY <1>1, BlankPage DEF Vsc!AtRest, Vsc!None, VscBase, VscTyped
<1>6. VscBase'
  BY <1>1, <1>3, <1>4, <1>5 DEF VscBase, VscTyped
<1>7. run' = [run EXCEPT ![t] = run'[t]] /\ (Over(run'[t]) \/ Onward(run[t], run'[t]))
  BY ONLY <1>2, <1>3
<1> QED BY <1>5, <1>6, <1>7

(* the writes of a command, *)
LEMMA LoadBufferStep ==
    ASSUME VscBase, NEW t \in Threads, Vsc!LoadBuffer(t)
    PROVE  /\ VscBase' /\ run' = [run EXCEPT ![t] = run'[t]] /\ Onward(run[t], run'[t])
           /\ \E k \in 0..Chunks : page' = [page EXCEPT !.buffer = k]
           /\ lost' = lost \/ (mcu = "lossy" /\ lost' # 0)
<1>1. run[t].todo # <<>> /\ Vsc!Step(t).do = "load" /\ run' = [run EXCEPT ![t] = Vsc!Next1(t)]
      /\ Vsc!Written([page EXCEPT !.buffer = Vsc!Step(t).val[0]], page)
      /\ UNCHANGED <<mcu, family, holder, fw, ran, good, left, calls>>
  BY DEF Vsc!LoadBuffer, Vsc!Doing, Vsc!Continue
<1>2. Onward(run[t], Vsc!Next1(t)) /\ Vsc!Step(t) \in Steps
  BY <1>1, VscStepOf
<1> DEFINE n == Vsc!Next1(t) k == Vsc!Step(t).val[0]
<1>3. k \in 0..Chunks
  <2>1. PICK c \in 1..Chunks : Vsc!Step(t).val = Vsc!One(c)
    BY <1>1, <1>2 DEF Steps
  <2> QED BY <2>1, Arguments, PartsAssumption DEF Vsc!VscAssumption
<1> HIDE DEF n, k
<1>4. run' = [run EXCEPT ![t] = n] /\ run'[t] = n /\ Onward(run[t], n)
  BY <1>1, <1>2 DEF n, VscBase, VscTyped
<1>5. VscOrderly' /\ run' \in [Threads -> Runs]
  <2>1. n \in Runs /\ n.todo = Tail(run[t].todo) /\ n.todo # <<>> /\ n.phase = "next" /\ n.goal = run[t].goal
        /\ n.found = run[t].found /\ n.tries = run[t].tries
    BY <1>4 DEF Onward
  <2> QED BY <1>1, <1>4, <2>1, OnwardStep
<1>6. page \in Pages /\ page = [page EXCEPT !.buffer = page.buffer] /\ page.buffer \in 0..Chunks
      /\ [page EXCEPT !.buffer = k] \in Pages
  BY <1>3 DEF VscBase, VscTyped, Pages
<1>7. page' \in {[page EXCEPT !.buffer = k], page} /\ lost' \in 0..MaxLost
  BY <1>1, <1>6, WrittenPage DEF k
<1>8. \E b \in 0..Chunks : page' = [page EXCEPT !.buffer = b]
  BY <1>3, <1>6, <1>7
<1>9. page' \in Pages /\ page'.opcode = page.opcode /\ page'.by = page.by
  BY <1>6, <1>7 DEF Pages
<1>10. lost' = lost \/ (mcu = "lossy" /\ lost' # 0)
  BY <1>1, PartsAssumption DEF Vsc!Written, VscBase, VscTyped, Vsc!VscAssumption
<1>11. VscBase'
  BY <1>1, <1>5, <1>7, <1>9 DEF VscBase, VscTyped
<1>12. run' = [run EXCEPT ![t] = run'[t]] /\ Onward(run[t], run'[t])
  BY ONLY <1>4
<1> QED BY <1>8, <1>10, <1>11, <1>12

(* A thread goes on with its command. *)
LEMMA PhaseStep ==
    ASSUME VscBase, NEW t \in Threads, run[t].todo # <<>>, Vsc!Step(t).do = "command", NEW p \in {"opcode", "wait"},
           run' = [run EXCEPT ![t] = [run[t] EXCEPT !.phase = p]], holder' = holder
    PROVE  /\ VscOrderly' /\ run' \in [Threads -> Runs] /\ run'[t] = [run[t] EXCEPT !.phase = p]
           /\ run'[t].phase = p /\ run'[t].todo = run[t].todo /\ run'[t].goal = run[t].goal /\ run'[t].found = run[t].found
<1> DEFINE n == [run[t] EXCEPT !.phase = p]
<1>1. run[t] \in Runs /\ InOrder(run[t]) /\ Head(run[t].todo).do = "command" /\ holder = t
  BY VscStepOf DEF Outside, Vsc!Step
<1>2. n \in Runs /\ n.todo = run[t].todo /\ n.goal = run[t].goal /\ n.found = run[t].found /\ n.tries = run[t].tries
      /\ n.phase = p
  BY <1>1 DEF Runs
<1> HIDE DEF n
<1>3. InOrder(n)
  BY <1>1, <1>2, AlikeOrderly
<1>4. run' = [run EXCEPT ![t] = n] /\ run'[t] = n
  BY DEF n, VscBase, VscTyped
<1>5. VscOrderly' /\ run' \in [Threads -> Runs]
  BY <1>1, <1>2, <1>3, <1>4, RunStep
<1> QED BY <1>2, <1>4, <1>5 DEF n

LEMMA WriteAttributesStep ==
    ASSUME VscBase, NEW t \in Threads, Vsc!WriteAttributes(t)
    PROVE  /\ VscBase' /\ run'[t] = [run[t] EXCEPT !.phase = "opcode"] /\ run' = [run EXCEPT ![t] = run'[t]]
           /\ page'.opcode = page.opcode /\ page'.by = page.by /\ page'.status = page.status /\ page'.answer = page.answer
           /\ lost' = lost => page'.op = Vsc!Step(t).reg /\ page'.arg = Vsc!Argument(t)
           /\ lost' = lost \/ (mcu = "lossy" /\ lost' # 0)
           /\ run'[t].phase = "opcode" /\ run'[t].todo = run[t].todo /\ run'[t].goal = run[t].goal /\ run'[t].found = run[t].found
<1>1. PICK kept \in {"op", "arg"} :
         LET new == [page EXCEPT !.op = Vsc!Step(t).reg, !.arg = Vsc!Argument(t)]
         IN Vsc!Written(new, [new EXCEPT ![kept] = page[kept]])
  BY DEF Vsc!WriteAttributes
<1>2. /\ run[t].todo # <<>> /\ Vsc!Step(t).do = "command" /\ run' = [run EXCEPT ![t] = [run[t] EXCEPT !.phase = "opcode"]]
      /\ ran' = ran \ {t} /\ good' = good \ {t} /\ UNCHANGED <<mcu, family, holder, fw, left, calls>>
  BY DEF Vsc!WriteAttributes, Vsc!Doing, Vsc!Continue
<1>3. /\ VscOrderly' /\ run' \in [Threads -> Runs] /\ run'[t] = [run[t] EXCEPT !.phase = "opcode"]
      /\ run'[t].phase = "opcode" /\ run'[t].todo = run[t].todo /\ run'[t].goal = run[t].goal /\ run'[t].found = run[t].found
  BY <1>2, PhaseStep
<1>4. Vsc!Step(t).reg \in Ops /\ Vsc!Argument(t) \in Vals /\ page \in Pages /\ lost \in 0..MaxLost
  BY <1>2, VscStepOf, ArgumentType DEF Steps, VscBase, VscTyped
<1> DEFINE new == [page EXCEPT !.op = Vsc!Step(t).reg, !.arg = Vsc!Argument(t)] old == [new EXCEPT ![kept] = page[kept]]
<1>5. /\ new \in Pages /\ new.op = Vsc!Step(t).reg /\ new.arg = Vsc!Argument(t)
      /\ new.opcode = page.opcode /\ new.by = page.by /\ new.status = page.status /\ new.answer = page.answer
  BY <1>4 DEF Pages
<1> HIDE DEF new
<1>6. old \in Pages /\ old.opcode = new.opcode /\ old.by = new.by /\ old.status = new.status /\ old.answer = new.answer
  <2>1. CASE kept = "op"
    BY <1>4, <1>5, <2>1 DEF Pages
  <2>2. CASE kept = "arg"
    BY <1>4, <1>5, <2>2 DEF Pages
  <2> QED BY <2>1, <2>2
<1>7. Vsc!Written(new, old)
  BY <1>1 DEF new
<1> HIDE DEF old
<1>8. page' \in {new, old} /\ lost' \in 0..MaxLost
  BY <1>5, <1>6, <1>7, WrittenPage
<1>9. (page' = new /\ lost' = lost) \/ (mcu = "lossy" /\ lost' # 0 /\ lost' # lost)
  BY <1>4, <1>7, PartsAssumption DEF Vsc!Written, Vsc!VscAssumption
<1>10. page' \in Pages /\ (page'.opcode # "none" => page'.by \in Threads)
  BY <1>5, <1>6, <1>8 DEF VscBase, VscTyped
<1>11. ran' \in SUBSET Threads /\ good' \in SUBSET Threads
  BY <1>2 DEF VscBase, VscTyped
<1>12. VscBase'
  BY <1>2, <1>3, <1>8, <1>10, <1>11 DEF VscBase, VscTyped
<1>13. run' = [run EXCEPT ![t] = run'[t]]
  BY <1>2, <1>3
<1> QED BY <1>3, <1>5, <1>6, <1>8, <1>9, <1>12, <1>13

LEMMA WriteOpcodeStep ==
    ASSUME VscBase, NEW t \in Threads, Vsc!WriteOpcode(t)
    PROVE  /\ VscBase' /\ run'[t] = [run[t] EXCEPT !.phase = "wait"] /\ run' = [run EXCEPT ![t] = run'[t]]
           /\ \/ page' = [page EXCEPT !.opcode = Vsc!Opcode(Vsc!Step(t).reg), !.by = t] /\ lost' = lost
              \/ page' = page /\ mcu = "lossy" /\ lost' # 0
           /\ run'[t].phase = "wait" /\ run'[t].todo = run[t].todo /\ run'[t].goal = run[t].goal /\ run'[t].found = run[t].found
<1>1. /\ run[t].todo # <<>> /\ Vsc!Step(t).do = "command" /\ run' = [run EXCEPT ![t] = [run[t] EXCEPT !.phase = "wait"]]
      /\ Vsc!Written([page EXCEPT !.opcode = Vsc!Opcode(Vsc!Step(t).reg), !.by = t], page)
      /\ UNCHANGED <<mcu, family, holder, fw, ran, good, left, calls>>
  BY DEF Vsc!WriteOpcode, Vsc!Doing, Vsc!Continue
<1>2. /\ VscOrderly' /\ run' \in [Threads -> Runs] /\ run'[t] = [run[t] EXCEPT !.phase = "wait"]
      /\ run'[t].phase = "wait" /\ run'[t].todo = run[t].todo /\ run'[t].goal = run[t].goal /\ run'[t].found = run[t].found
  BY <1>1, PhaseStep
<1>3. Vsc!Opcode(Vsc!Step(t).reg) \in Opcodes /\ page \in Pages
  BY <1>1, VscStepOf, OpcodeType DEF Steps, VscBase, VscTyped
<1> DEFINE o == Vsc!Opcode(Vsc!Step(t).reg) new == [page EXCEPT !.opcode = o, !.by = t]
<1> HIDE DEF o
<1>4. new \in Pages /\ new.by = t
  BY <1>3 DEF Pages, o
<1> HIDE DEF new
<1>5. page' \in {new, page} /\ lost' \in 0..MaxLost
  BY <1>1, <1>3, <1>4, WrittenPage DEF new, o
<1>6. page' \in Pages /\ (page'.opcode # "none" => page'.by \in Threads)
  BY <1>4, <1>5 DEF VscBase, VscTyped
<1>7. VscBase'
  BY <1>1, <1>2, <1>5, <1>6 DEF VscBase, VscTyped
<1>8. (page' = new /\ lost' = lost) \/ (page' = page /\ mcu = "lossy" /\ lost' # 0)
  BY <1>1, PartsAssumption DEF Vsc!Written, VscBase, VscTyped, Vsc!VscAssumption, new, o
<1>9. run' = [run EXCEPT ![t] = run'[t]]
  BY <1>1, <1>2
<1> QED BY <1>2, <1>7, <1>8, <1>9 DEF new, o

(* its end; *)
LEMMA ReadStatusStep ==
    ASSUME VscBase, NEW t \in Threads, Vsc!ReadStatus(t) \/ Vsc!StatusLost(t) \/ Vsc!TimesOut(t)
    PROVE  /\ VscBase' /\ run' = [run EXCEPT ![t] = run'[t]] /\ run'[t].phase = "next"
           /\ run[t].todo # <<>> /\ Vsc!Step(t).do = "command" /\ run[t].phase = "wait"
           /\ UNCHANGED <<mcu, family, page, fw, lost, ran, calls>>
           /\ page.opcode = "none" \/ mcu = "late"
           /\ \/ /\ Vsc!Suffices(t) /\ page.opcode = "none" /\ good' = Vsc!Noted(good \cup {t}) /\ left' = left
                 /\ run'[t].todo = Tail(run[t].todo) /\ run'[t].todo # <<>> /\ run'[t].goal = run[t].goal
                 /\ run'[t].found = run[t].found
              \/ good' = good /\ Over(run'[t]) /\ left' = Vsc!Gone(t)
              \/ good' = good /\ ~IsAct(Vsc!Step(t)) /\ run'[t].goal = run[t].goal /\ run'[t].todo # <<>> /\ left' = left
<1>1. /\ run[t].todo # <<>> /\ Vsc!Step(t).do = "command" /\ run[t].phase = "wait"
      /\ UNCHANGED <<mcu, family, page, fw, lost, ran, calls>>
      /\ page.opcode = "none" \/ mcu = "late"
  BY DEF Vsc!ReadStatus, Vsc!StatusLost, Vsc!TimesOut, Vsc!Doing, Vsc!None
<1>2. CASE Vsc!Fails(t) /\ good' = good
  <2>1. /\ VscOrderly' /\ run' \in [Threads -> Runs] /\ holder' \in Threads \cup {Nobody} /\ left' \in SUBSET Sides
        /\ run' = [run EXCEPT ![t] = run'[t]] /\ run'[t].phase = "next"
        /\ \/ Over(run'[t]) /\ left' = Vsc!Gone(t)
           \/ /\ run'[t].goal = run[t].goal /\ run'[t].todo # <<>> /\ ~IsAct(Vsc!Step(t))
              /\ UNCHANGED <<holder, left>>
    BY <1>1, <1>2, FailsStep
  <2>2. VscBase'
    BY <1>1, <1>2, <2>1 DEF VscBase, VscTyped
  <2> QED BY <1>1, <1>2, <2>1, <2>2
<1>3. CASE /\ Vsc!Suffices(t) /\ page.opcode = "none" /\ good' = Vsc!Noted(good \cup {t}) /\ UNCHANGED <<holder, left>>
           /\ run' = [run EXCEPT ![t] = [Vsc!Next1(t) EXCEPT !.tries = IF Vsc!Step(t).fails = "retry" THEN 0 ELSE @]]
  <2> DEFINE n == Vsc!Next1(t) k == IF Vsc!Step(t).fails = "retry" THEN 0 ELSE n.tries m == [n EXCEPT !.tries = k]
  <2>1. Onward(run[t], n)
    BY <1>1, VscStepOf
  <2>2. run' = [run EXCEPT ![t] = m]
    BY <1>3
  <2> HIDE DEF n
  <2>3. /\ m \in Runs /\ m.todo = Tail(run[t].todo) /\ m.todo # <<>> /\ m.phase = "next" /\ m.goal = run[t].goal
        /\ m.found = run[t].found /\ (m.tries = run[t].tries \/ m.tries = 0)
    BY <2>1 DEF Onward, Runs
  <2> HIDE DEF m
  <2>4. VscOrderly' /\ run' \in [Threads -> Runs]
    BY <1>1, <1>3, <2>2, <2>3, OnwardStep
  <2>5. run'[t] = m /\ run' = [run EXCEPT ![t] = run'[t]]
    BY <2>2 DEF VscBase, VscTyped
  <2>6. good' \in SUBSET Threads
    BY <1>3 DEF Vsc!Noted, VscBase, VscTyped
  <2>7. VscBase'
    BY <1>1, <1>3, <2>4, <2>6 DEF VscBase, VscTyped
  <2> QED BY <1>1, <1>3, <2>3, <2>5, <2>7
<1> QED BY <1>2, <1>3 DEF Vsc!ReadStatus, Vsc!StatusLost, Vsc!TimesOut, Vsc!Continue, Vsc!None

(* what comes after it; *)
LEMMA ReadAnswerStep ==
    ASSUME VscBase, NEW t \in Threads, Vsc!ReadAnswer(t)
    PROVE  /\ VscBase' /\ run' = [run EXCEPT ![t] = run'[t]]
           /\ run'[t].todo = Tail(run[t].todo) /\ run'[t].todo # <<>> /\ run'[t].goal = run[t].goal /\ run'[t].phase = "next"
<1>1. /\ run[t].todo # <<>> /\ Vsc!Step(t).do = "fetch" /\ UNCHANGED <<mcu, family, holder, page, fw, lost, ran, good, left, calls>>
  BY DEF Vsc!ReadAnswer, Vsc!Doing
<1> DEFINE n == Vsc!Next1(t) S == n.found \cup Vsc!Has(t) m == [n EXCEPT !.found = S]
<1>2. Onward(run[t], n) /\ Vsc!Step(t) \in Steps /\ run[t].todo \in Seq(Steps) /\ Tail(run[t].todo) # <<>>
  BY <1>1, VscStepOf
<1>3. Len(run[t].todo) # 1
  BY <1>2, TailOf, <1>1
<1>4. run' = [run EXCEPT ![t] = m]
  BY <1>3 DEF Vsc!ReadAnswer, Vsc!Continue
<1>5. Vsc!Has(t) \in SUBSET Sides
  <2>1. Vsc!Step(t).val \in Vals
    BY <1>2 DEF Steps
  <2> QED BY <2>1, Arguments DEF Vsc!Has
<1> HIDE DEF n
<1>6. /\ m \in Runs /\ m.todo = Tail(run[t].todo) /\ m.todo # <<>> /\ m.phase = "next" /\ m.goal = run[t].goal
      /\ m.tries = run[t].tries
  BY <1>2, <1>5 DEF Onward, Runs
<1> HIDE DEF m
<1>7. VscOrderly' /\ run' \in [Threads -> Runs]
  BY <1>1, <1>4, <1>6, OnwardStep
<1>8. run'[t] = m /\ run' = [run EXCEPT ![t] = run'[t]]
  BY <1>4 DEF VscBase, VscTyped
<1>9. VscBase'
  BY <1>1, <1>7 DEF VscBase, VscTyped
<1> QED BY <1>6, <1>8, <1>9

LEMMA RaisesStep ==
    ASSUME VscBase, NEW t \in Threads, Vsc!Raises(t)
    PROVE  /\ VscBase' /\ run' = [run EXCEPT ![t] = run'[t]] /\ Over(run'[t]) /\ left' = Vsc!Gone(t)
           /\ run[t].todo # <<>> /\ Vsc!Step(t).do \in {"fetch", "more"}
<1>1. /\ run[t].todo # <<>> /\ Vsc!Step(t).do \in {"fetch", "more"} /\ run' = [run EXCEPT ![t] = Vsc!Ended(t, "error")]
      /\ left' = Vsc!Gone(t) /\ UNCHANGED <<mcu, family, holder, page, fw, lost, ran, good, calls>>
  BY DEF Vsc!Raises, Vsc!Doing, Vsc!Continue
<1> DEFINE n == Vsc!Ended(t, "error")
<1>2. Over(n)
  BY EndedOver
<1> HIDE DEF n
<1>3. run' = [run EXCEPT ![t] = n] /\ run'[t] = n
  BY <1>1 DEF n, VscBase, VscTyped
<1>4. VscOrderly' /\ run' \in [Threads -> Runs]
  BY <1>1, <1>2, <1>3, OverStep
<1>5. left' \in SUBSET Sides
  BY <1>1, GoneType
<1>6. VscBase'
  BY <1>1, <1>4, <1>5 DEF VscBase, VscTyped
<1> QED BY <1>1, <1>2, <1>3, <1>6

LEMMA ReadMoreStep ==
    ASSUME VscBase, NEW t \in Threads, Vsc!ReadMore(t)
    PROVE  /\ VscBase' /\ run' = [run EXCEPT ![t] = run'[t]] /\ run'[t].phase = "next" /\ run'[t].goal = run[t].goal
           /\ run'[t].todo # <<>> /\ (Onward(run[t], run'[t]) \/ Vsc!Step(t)'.do = "unlock")
<1>1. /\ run[t].todo # <<>> /\ Vsc!Step(t).do = "more" /\ UNCHANGED <<mcu, family, holder, page, fw, lost, ran, good, left, calls>>
  BY DEF Vsc!ReadMore, Vsc!Doing
<1> DEFINE n == Vsc!Next1(t) a == Vsc!Step(t) r == run[t]
           x == IF a.reg = "uart_status" THEN Vsc!Ignoring(Vsc!Cmd("uart_status", <<>>)) ELSE Vsc!Cmd("log_dump", <<>>)
           k == IF a.reg = "log_dump" THEN r.tries + 1 ELSE r.tries
<1>2. /\ Onward(r, n) /\ a \in Steps /\ a \in Elems(r.todo) /\ InOrder(r) /\ r \in Runs
  BY <1>1, VscStepOf
<1>3. \/ run' = [run EXCEPT ![t] = n]
      \/ /\ ~Vsc!Enough(t)
         /\ run' = [run EXCEPT ![t] = [r EXCEPT !.todo = <<Vsc!Unlock, Vsc!Lock, x>> \o @,
                                                !.tries = IF a.reg = "log_dump" THEN @ + 1 ELSE @]]
  BY DEF Vsc!ReadMore, Vsc!Continue
<1>4. CASE run' = [run EXCEPT ![t] = n]
  <2> HIDE DEF n
  <2>1. n \in Runs /\ n.todo = Tail(run[t].todo) /\ n.todo # <<>> /\ n.phase = "next" /\ n.goal = run[t].goal
        /\ n.found = run[t].found /\ n.tries = run[t].tries
    BY <1>2 DEF Onward
  <2>2. VscOrderly' /\ run' \in [Threads -> Runs]
    BY <1>1, <1>4, <2>1, OnwardStep
  <2>3. run'[t] = n /\ run' = [run EXCEPT ![t] = run'[t]]
    BY <1>4 DEF VscBase, VscTyped
  <2>4. VscBase'
    BY <1>1, <2>2 DEF VscBase, VscTyped
  <2> QED BY <1>2, <2>1, <2>3, <2>4
<1>5. CASE /\ ~Vsc!Enough(t)
           /\ run' = [run EXCEPT ![t] = [r EXCEPT !.todo = <<Vsc!Unlock, Vsc!Lock, x>> \o @,
                                                  !.tries = IF a.reg = "log_dump" THEN @ + 1 ELSE @]]
  <2>1. a.reg \in {"uart_status", "log_dump"}
    BY <1>1, <1>2 DEF Steps, Polled
  <2>2. x \in Steps /\ x.do = "command" /\ x.reg = a.reg /\ ~IsAct(x) /\ x.fails # "retry"
    <3>1. \A op \in {"uart_status", "log_dump"} :
            /\ Vsc!Cmd(op, <<>>) \in Steps /\ Vsc!Cmd(op, <<>>).do = "command" /\ Vsc!Cmd(op, <<>>).reg = op
            /\ Vsc!Cmd(op, <<>>).fails = "stop"
      <4>1. \A op \in {"uart_status", "log_dump"} : op \in Ops
        BY DEF Ops
      <4> QED BY <4>1, CmdStep, Arguments
    <3>2. /\ Vsc!Ignoring(Vsc!Cmd("uart_status", <<>>)) \in Steps
          /\ Vsc!Ignoring(Vsc!Cmd("uart_status", <<>>)).do = "command"
          /\ Vsc!Ignoring(Vsc!Cmd("uart_status", <<>>)).reg = "uart_status"
          /\ Vsc!Ignoring(Vsc!Cmd("uart_status", <<>>)).fails = "ignore"
      BY <3>1, IgnoringStep DEF IsAct
    <3> QED BY <2>1, <3>1, <3>2 DEF IsAct
  <2>3. r.tries \in Nat /\ (r.tries \in 0..Retries \/ r.tries \in 0..Cycles) /\ (a.reg = "log_dump" => r.tries # Cycles)
    BY <1>2, <1>5 DEF InOrder, Runs, Vsc!Enough
  <2>4. k \in Nat /\ (\/ k \in 0..Retries /\ NoLog(r.todo)
                      \/ k \in 0..Cycles /\ NoRetry(r.todo))
    <3>1. CASE a.reg = "log_dump"
      <4>1. ~NoLog(r.todo)
        BY <1>1, <1>2, <3>1 DEF NoLog
      <4>2. r.tries \in 0..Cycles /\ NoRetry(r.todo)
        BY <1>2, <4>1 DEF InOrder
      <4>3. k = r.tries + 1
        BY <3>1
      <4> QED BY <2>3, <3>1, <4>2, <4>3, PartsAssumption DEF Vsc!VscAssumption
    <3>2. CASE a.reg # "log_dump"
      BY <2>3, <3>2, <1>2 DEF InOrder
    <3> QED BY <3>1, <3>2
  <2>5. r.phase = "next"
    BY DEF Vsc!ReadMore, Vsc!Doing
  <2>10. run[t].goal.kind # "reset"
    BY <1>1, <1>2 DEF Acting, InOrder, Resetting
  <2> HIDE DEF x
  <2>6. run' = [run EXCEPT ![t] = [run[t] EXCEPT !.todo = <<Vsc!Unlock, Vsc!Lock, x>> \o @, !.phase = "next", !.tries = k]]
    <3>1. r = [r EXCEPT !.phase = "next"] 
      BY <1>2, <2>5 DEF Runs
    <3> QED BY ZenonT(60), <1>2, <1>5, <2>5, <3>1 DEF Runs
  <2> HIDE DEF k
  <2>7. /\ VscOrderly' /\ run' \in [Threads -> Runs] /\ run'[t].phase = "next" /\ run'[t].goal = run[t].goal
        /\ run'[t].todo # <<>> /\ Vsc!Step(t)'.do = "unlock"
    BY <1>1, <2>2, <2>4, <2>6, <2>10, RepeatStep
  <2>8. run' = [run EXCEPT ![t] = run'[t]]
    BY <2>6 DEF VscBase, VscTyped
  <2>9. VscBase'
    BY <1>1, <2>7 DEF VscBase, VscTyped
  <2> QED BY <2>7, <2>8, <2>9
<1> QED BY <1>3, <1>4, <1>5

LEMMA ChooseSidesStep ==
    ASSUME VscBase, NEW t \in Threads, Vsc!ChooseSides(t)
    PROVE  /\ VscBase' /\ run' = [run EXCEPT ![t] = run'[t]] /\ run[t].todo # <<>> /\ Vsc!Step(t).do = "any"
           /\ \/ Over(run'[t])
              \/ /\ run'[t].todo = Tail(run[t].todo) /\ run'[t].todo # <<>> /\ run'[t].phase = "next"
                 /\ run'[t].goal.kind = run[t].goal.kind
<1>1. /\ run[t].todo # <<>> /\ Vsc!Step(t).do = "any" /\ UNCHANGED <<mcu, family, holder, page, fw, lost, ran, good, left, calls>>
      /\ run' = [run EXCEPT ![t] = IF Vsc!Chosen(t) = {} THEN Vsc!Ended(t, "ok")
                      ELSE [Vsc!Next1(t) EXCEPT !.found = Vsc!Chosen(t), !.goal.val = Vsc!All(Vsc!Chosen(t), 1)]]
  BY DEF Vsc!ChooseSides, Vsc!Doing, Vsc!Continue
<1> DEFINE n == Vsc!Next1(t) C == Vsc!Chosen(t) v == Vsc!All(C, 1)
           g == [n.goal EXCEPT !.val = v] m == [n EXCEPT !.found = C, !.goal = g]
<1>2. Onward(run[t], n) /\ run[t].goal \in Goals /\ run[t] \in Runs
  BY <1>1, VscStepOf
<1>3. C \in SUBSET Sides
  BY <1>2 DEF Vsc!Chosen, Runs
<1>4. v \in Vals /\ DOMAIN v = C
  BY <1>3, Arguments
<1>5. CASE C = {}
  <2> DEFINE e == Vsc!Ended(t, "ok")
  <2>1. Over(e)
    BY EndedOver
  <2> HIDE DEF e, C
  <2>2. run' = [run EXCEPT ![t] = e] /\ run'[t] = e
    BY <1>1, <1>5 DEF e, C, VscBase, VscTyped
  <2>3. VscOrderly' /\ run' \in [Threads -> Runs]
    BY <1>1, <2>1, <2>2, OverStep
  <2>4. VscBase'
    BY <1>1, <2>3 DEF VscBase, VscTyped
  <2> QED BY <1>1, <2>1, <2>2, <2>4
<1>6. CASE C # {}
  <2>1. run' = [run EXCEPT ![t] = m]
    BY <1>1, <1>6
  <2> HIDE DEF n, C, v
  <2>2. g \in Goals /\ g.val = v /\ g.kind = run[t].goal.kind
    BY <1>2, <1>4 DEF Onward, Goals
  <2> HIDE DEF g
  <2>3. /\ m \in Runs /\ m.todo = Tail(run[t].todo) /\ m.todo # <<>> /\ m.phase = "next" /\ m.goal = g /\ m.found = C
        /\ m.tries = run[t].tries
    BY <1>2, <1>3, <2>2 DEF Onward, Runs
  <2> HIDE DEF m
  <2>4. VscOrderly' /\ run' \in [Threads -> Runs]
    BY ZenonT(60), <1>1, <1>4, <2>1, <2>2, <2>3, OnwardStep
  <2>5. run'[t] = m /\ run' = [run EXCEPT ![t] = run'[t]]
    BY <2>1 DEF VscBase, VscTyped
  <2>6. VscBase'
    BY <1>1, <2>4 DEF VscBase, VscTyped
  <2> QED BY <1>1, <2>2, <2>3, <2>5, <2>6
<1> QED BY <1>5, <1>6

(* and the microcontroller. *)
LEMMA FirmwareEffect == ASSUME VscBase, Vsc!Possible PROVE Vsc!Effect \in Firmwares
<1>1. fw \in Firmwares /\ page.buffer \in 0..Chunks /\ 0 \in Sides
  BY PartsAssumption DEF VscBase, VscTyped, Pages, Vsc!VscAssumption
<1>2. {"old", "older", "file", "partial"} = Vsc!Images /\ {"idle", "loading", "loaded", "copying"} = Vsc!Stages
  BY DEF Vsc!Images, Vsc!Stages
<1>3. fw.inactive \in [Sides -> Vsc!Images] /\ fw.active \in [Sides -> Vsc!Images] /\ fw.next \in [Sides -> {"active", "inactive"}]
      /\ fw.chunks \in SUBSET (1..Chunks) /\ fw.stage \in Vsc!Stages
  BY <1>1 DEF Firmwares
<1>4. CASE Vsc!Command = "start"
  <2>1. [fw EXCEPT !.stage = "loading", !.chunks = {}, !.inactive[0] = "partial"] \in Firmwares
    BY <1>1, <1>2, <1>3 DEF Firmwares
  <2> QED BY <1>4, <2>1 DEF Vsc!Effect
<1>5. CASE Vsc!Command = "xfer"
  <2>1. page.buffer \in 1..Chunks
    BY <1>1, <1>5, PartsAssumption DEF Vsc!Possible, Vsc!VscAssumption
  <2>2. [fw EXCEPT !.chunks = @ \cup {page.buffer}] \in Firmwares
    BY <1>1, <1>3, <2>1 DEF Firmwares
  <2> QED BY <1>5, <2>2 DEF Vsc!Effect
<1>6. CASE Vsc!Command = "complete"
  <2>1. [fw EXCEPT !.stage = "loaded", !.inactive[0] = "file"] \in Firmwares
    BY <1>1, <1>2, <1>3 DEF Firmwares
  <2> QED BY <1>6, <2>1 DEF Vsc!Effect
<1>7. CASE Vsc!Command = "uart"
  <2>1. [s \in Sides |-> IF s = 0 THEN fw.inactive[s] ELSE "partial"] \in [Sides -> Vsc!Images]
    BY <1>2, <1>3
  <2>2. [fw EXCEPT !.stage = "copying", !.inactive = [s \in Sides |-> IF s = 0 THEN @[s] ELSE "partial"]] \in Firmwares
    BY <1>1, <1>2, <2>1 DEF Firmwares
  <2> QED BY <1>7, <2>2 DEF Vsc!Effect
<1>8. CASE Vsc!Command = "commit"
  <2>1. [s \in Sides |-> IF s \in DOMAIN page.arg THEN "inactive" ELSE fw.next[s]] \in [Sides -> {"active", "inactive"}]
    BY <1>3
  <2>2. [fw EXCEPT !.next = [s \in Sides |-> IF s \in DOMAIN page.arg THEN "inactive" ELSE @[s]]] \in Firmwares
    BY <1>1, <2>1 DEF Firmwares
  <2> QED BY <1>8, <2>2 DEF Vsc!Effect
<1>9. CASE Vsc!Command = "run"
  <2> DEFINE S == DOMAIN page.arg
  <2> HIDE DEF S
  <2>1. /\ [s \in Sides |-> IF s \in S /\ fw.next[s] = "inactive" THEN fw.inactive[s] ELSE fw.active[s]] \in [Sides -> Vsc!Images]
        /\ [s \in Sides |-> IF s \in S /\ fw.next[s] = "inactive" THEN fw.active[s] ELSE fw.inactive[s]] \in [Sides -> Vsc!Images]
        /\ [s \in Sides |-> IF s \in S THEN "active" ELSE fw.next[s]] \in [Sides -> {"active", "inactive"}]
        /\ (IF 0 \in S THEN "idle" ELSE fw.stage) \in Vsc!Stages
        /\ (IF 0 \in S THEN {} ELSE fw.chunks) \in SUBSET (1..Chunks)
    BY <1>2, <1>3
  <2>2. Vsc!RunSides(S) \in Firmwares
    BY <1>1, <2>1 DEF Firmwares, Vsc!RunSides
  <2> QED BY <1>9, <2>2 DEF Vsc!Effect, S
<1>10. CASE Vsc!Command \notin {"start", "xfer", "complete", "uart", "commit", "run"}
  BY <1>1, <1>10 DEF Vsc!Effect
<1> QED BY <1>4, <1>5, <1>6, <1>7, <1>8, <1>9, <1>10

LEMMA CommandType == ASSUME VscBase, page.opcode # "none" PROVE Vsc!Command \in Ops \cup {"other"}
<1>1. page.op \in Ops \cup {"none"} /\ page.opcode \in Opcodes /\ Vsc!Opcode("none") = "none"
  BY DEF VscBase, VscTyped, Pages, Vsc!Opcode
<1> QED BY <1>1 DEF Vsc!Command

LEMMA AnswersType ==
    ASSUME VscBase, page.opcode # "none", NEW a \in Vsc!Answers PROVE a \in (Ops \cup {"none", "other"}) \X Vals
<1>1. page.arg \in Vals /\ Vsc!Command \in Ops \cup {"other"}
  BY CommandType DEF VscBase, VscTyped, Pages
<1>2. Vsc!All(Vsc!Holders, 1) \in Vals /\ Vsc!One(0) \in Vals /\ Vsc!One(1) \in Vals
  BY Arguments DEF Vsc!Holders
<1>3. CASE Vsc!Command = "get_info"
  BY <1>2, <1>3 DEF Vsc!Answers, Ops
<1>4. CASE Vsc!Command = "uart_status"
  BY <1>2, <1>4 DEF Vsc!Answers, Ops
<1>5. CASE Vsc!Command = "log_dump"
  <2>1. a \in {<<"log_dump", Vsc!One(n)>> : n \in 0..1}
    BY <1>5 DEF Vsc!Answers
  <2>2. \A n \in 0..1 : n = 0 \/ n = 1
    OBVIOUS
  <2> QED BY <1>2, <2>1, <2>2 DEF Ops
<1>6. CASE Vsc!Command \notin {"get_info", "uart_status", "log_dump"}
  BY <1>1, <1>6 DEF Vsc!Answers
<1> QED BY <1>3, <1>4, <1>5, <1>6

(* The calls that a command disturbs are the same but for that. *)
LEMMA CalmStep ==
    ASSUME VscBase, run' = Vsc!Calm, holder' = holder
    PROVE  /\ VscOrderly' /\ run' \in [Threads -> Runs]
           /\ \A u \in Threads : /\ run'[u].todo = run[u].todo /\ run'[u].phase = run[u].phase /\ run'[u].goal = run[u].goal
                                 /\ run'[u].found = run[u].found /\ run'[u].returned = run[u].returned
<1> DEFINE n(u) == IF (u # page.by \/ Vsc!Unawaited(u)) /\ Vsc!Disturbs /\ Vsc!Judged(run[u].goal)
                   THEN [run[u] EXCEPT !.alone = FALSE] ELSE run[u]
<1>1. \A u \in Threads : run'[u] = n(u)
  BY DEF Vsc!Calm
<1>2. run' = [u \in Threads |-> n(u)]
  BY DEF Vsc!Calm
<1>3. \A u \in Threads : run[u] \in Runs /\ InOrder(run[u]) /\ (Behind(run[u]) => holder = u)
  BY DEF VscBase, VscTyped, VscOrderly
<1>4. ASSUME NEW u \in Threads
      PROVE  /\ n(u) \in Runs /\ n(u).todo = run[u].todo /\ n(u).phase = run[u].phase /\ n(u).goal = run[u].goal
             /\ n(u).found = run[u].found /\ n(u).returned = run[u].returned /\ n(u).tries = run[u].tries
             /\ (run[u].todo = <<>> => n(u) = run[u])
  <2>1. run[u].todo = <<>> => ~Vsc!Judged(run[u].goal)
    <3>1. run[u].todo = <<>> => run[u].goal.kind = "nothing"
      <4>1. SUFFICES ASSUME run[u].todo = <<>> PROVE run[u].goal.kind = "nothing"
        OBVIOUS
      <4>2. run[u] = Vsc!Returned(run[u].returned) /\ run[u].returned \in {"nothing", "ok", "error"}
        BY <1>3, <4>1 DEF InOrder, Runs
      <4>3. PICK h \in {"nothing", "ok", "error"} : run[u] = Vsc!Returned(h)
        BY <4>2
      <4> QED BY <4>3, EndedRun
    <3> QED BY <3>1 DEF Vsc!Judged
  <2>2. run[u] \in Runs
    BY <1>3
  <2>3. /\ [run[u] EXCEPT !.alone = FALSE] \in Runs
        /\ [run[u] EXCEPT !.alone = FALSE].todo = run[u].todo /\ [run[u] EXCEPT !.alone = FALSE].phase = run[u].phase
        /\ [run[u] EXCEPT !.alone = FALSE].goal = run[u].goal /\ [run[u] EXCEPT !.alone = FALSE].found = run[u].found
        /\ [run[u] EXCEPT !.alone = FALSE].returned = run[u].returned /\ [run[u] EXCEPT !.alone = FALSE].tries = run[u].tries
    BY <2>2 DEF Runs
  <2> QED BY <2>1, <2>2, <2>3
<1> HIDE DEF n
<1>5. \A u \in Threads : InOrder(n(u)) /\ (Behind(n(u)) <=> Behind(run[u]))
  <2> TAKE u \in Threads
  <2>1. run[u].phase # "next" => run[u].todo # <<>> /\ Head(run[u].todo).do = "command"
    BY <1>3 DEF InOrder
  <2> QED BY <1>3, <1>4, <2>1, AlikeOrderly
<1>6. \A u \in Threads : InOrder(run'[u]) /\ (Behind(run'[u]) => holder' = u)
  BY <1>1, <1>3, <1>5
<1>7. run' \in [Threads -> Runs]
  BY <1>2, <1>4
<1> QED BY <1>1, <1>4, <1>6, <1>7 DEF VscOrderly

LEMMA McuRunsStep ==
    ASSUME VscBase, Vsc!McuRuns
    PROVE  /\ VscBase' /\ page.opcode # "none" /\ page.by \in Threads
           /\ \E a \in Vsc!Answers : page' = [page EXCEPT !.opcode = "none", !.by = Nobody, !.status = "ok", !.answer = a]
           /\ \A u \in Threads : /\ run'[u].todo = run[u].todo /\ run'[u].phase = run[u].phase /\ run'[u].goal = run[u].goal
                                 /\ run'[u].found = run[u].found /\ run'[u].returned = run[u].returned
<1>1. /\ page.opcode # "none" /\ Vsc!Possible /\ fw' = Vsc!Effect /\ run' = Vsc!Calm /\ ran' = Vsc!Noted(ran \cup {page.by})
      /\ left' = (IF Vsc!Command = "run" THEN left \ DOMAIN page.arg ELSE left)
      /\ UNCHANGED <<mcu, family, holder, lost, good, calls>>
  BY DEF Vsc!McuRuns, Vsc!None
<1>2. PICK a \in Vsc!Answers : page' = [page EXCEPT !.opcode = "none", !.by = Nobody, !.status = "ok", !.answer = a]
  BY DEF Vsc!McuRuns, Vsc!None
<1>3. a \in (Ops \cup {"none", "other"}) \X Vals
  BY <1>1, AnswersType
<1>4. page' \in Pages /\ page'.opcode = "none"
  BY <1>2, <1>3 DEF VscBase, VscTyped, Pages
<1>5. fw' \in Firmwares
  BY <1>1, FirmwareEffect
<1>6. /\ VscOrderly' /\ run' \in [Threads -> Runs]
      /\ \A u \in Threads : /\ run'[u].todo = run[u].todo /\ run'[u].phase = run[u].phase /\ run'[u].goal = run[u].goal
                            /\ run'[u].found = run[u].found /\ run'[u].returned = run[u].returned
  BY <1>1, CalmStep
<1>7. page.by \in Threads /\ ran' \in SUBSET Threads /\ left' \in SUBSET Sides
  BY <1>1 DEF VscBase, VscTyped, Vsc!Noted
<1>8. VscBase'
  BY <1>1, <1>4, <1>5, <1>6, <1>7 DEF VscBase, VscTyped
<1> QED BY <1>1, <1>2, <1>6, <1>7, <1>8

LEMMA McuRefusesStep ==
    ASSUME VscBase, Vsc!McuRefuses
    PROVE  /\ VscBase' /\ page.opcode # "none" /\ page.by \in Threads
           /\ page'.opcode = "none" /\ page'.op = page.op /\ page'.arg = page.arg /\ page'.status # "ok"
           /\ page'.buffer = page.buffer
<1>1. /\ page.opcode # "none" /\ ran' = Vsc!Noted(ran \cup {page.by})
      /\ UNCHANGED <<mcu, family, holder, fw, run, lost, good, left, calls>>
  BY DEF Vsc!McuRefuses, Vsc!None
<1>2. \/ page' = [page EXCEPT !.opcode = "none", !.by = Nobody, !.status = "error"]
      \/ page' = [page EXCEPT !.opcode = "none", !.by = Nobody, !.status = "uart timeout",
                              !.answer = <<"get_info", Vsc!All(Vsc!Holders \cap {0}, 1)>>]
  BY DEF Vsc!McuRefuses, Vsc!None
<1>3. <<"get_info", Vsc!All(Vsc!Holders \cap {0}, 1)>> \in (Ops \cup {"none", "other"}) \X Vals
  <2>1. Vsc!All(Vsc!Holders \cap {0}, 1) \in Vals
    BY Arguments DEF Vsc!Holders
  <2> QED BY <2>1 DEF Ops
<1> DEFINE x == <<"get_info", Vsc!All(Vsc!Holders \cap {0}, 1)>>
<1> HIDE DEF x
<1>4. /\ page' \in Pages /\ page'.opcode = "none" /\ page'.op = page.op /\ page'.arg = page.arg /\ page'.status # "ok"
      /\ page'.buffer = page.buffer
  <2>1. page \in Pages /\ x \in (Ops \cup {"none", "other"}) \X Vals
    BY <1>3 DEF VscBase, VscTyped, x
  <2>2. CASE page' = [page EXCEPT !.opcode = "none", !.by = Nobody, !.status = "error"]
    BY <2>1, <2>2 DEF Pages
  <2>3. CASE page' = [page EXCEPT !.opcode = "none", !.by = Nobody, !.status = "uart timeout", !.answer = x]
    BY <2>1, <2>3 DEF Pages
  <2> QED BY <1>2, <2>2, <2>3 DEF x
<1>5. page.by \in Threads /\ ran' \in SUBSET Threads
  BY <1>1 DEF VscBase, VscTyped, Vsc!Noted
<1>6. VscOrderly'
  BY <1>1 DEF VscBase, VscOrderly
<1>7. VscBase'
  BY <1>1, <1>4, <1>5, <1>6 DEF VscBase, VscTyped
<1> QED BY <1>1, <1>4, <1>5, <1>7

LEMMA McuCopiedStep == ASSUME VscBase, Vsc!McuCopied PROVE VscBase' /\ fw'.active = fw.active /\ fw'.next = fw.next
<1> DEFINE i == [s \in Sides |-> IF s = 0 THEN fw.inactive[s] ELSE "file"]
<1>1. fw' = [fw EXCEPT !.stage = "idle", !.inactive = i]
      /\ UNCHANGED <<mcu, family, holder, page, run, lost, ran, good, left, calls>> /\ fw \in Firmwares
  BY DEF Vsc!McuCopied, VscBase, VscTyped
<1>2. i \in [Sides -> Vsc!Images] /\ "idle" \in Vsc!Stages
  BY <1>1 DEF Firmwares, Vsc!Images, Vsc!Stages
<1> HIDE DEF i
<1>3. fw' \in Firmwares /\ fw'.active = fw.active /\ fw'.next = fw.next
  BY <1>1, <1>2 DEF Firmwares
<1>4. VscOrderly'
  BY <1>1 DEF VscBase, VscOrderly
<1> QED BY <1>1, <1>3, <1>4 DEF VscBase, VscTyped

(* What every action between two commands has in common: nobody waits for    *)
(* the thread that takes it, and it leaves the page to who does.             *)
SamePage ==
    /\ page'.op = page.op /\ page'.arg = page.arg /\ page'.opcode = page.opcode /\ page'.by = page.by
    /\ page'.status = page.status /\ page'.answer = page.answer
PageKept(t) == SamePage \/ (page' = Vsc!Blank /\ page.opcode = "none" /\ \A u \in Threads \ {t} : ~Behind(run[u]))
LostMore == lost' = lost \/ (mcu = "lossy" /\ lost' # 0)
Between(t) ==
    /\ run[t].phase = "next" /\ run'[t].phase = "next" /\ run' = [run EXCEPT ![t] = run'[t]]
    /\ run[t].todo # <<>> => Vsc!Step(t).do # "command"
    /\ run'[t].todo # <<>> => Vsc!Step(t)'.do # "fetch"
    /\ UNCHANGED <<mcu, family, fw, ran, good, left>>
    /\ LostMore /\ PageKept(t)
    /\ \A u \in Threads : calls[u] # 0 => calls'[u] # 0
    /\ run'[t].todo # <<>> /\ family = "firmware" => run[t].todo # <<>> \/ calls'[t] # 0
    /\ run'[t].goal.kind = "reset" => run[t].goal.kind = "reset" \/ (t \notin Installers /\ calls[t] = 0)
    /\ family # "firmware" => run'[t].goal.kind \in {"nothing", run[t].goal.kind}

LEMMA BetweenStep ==
    ASSUME VscBase, NEW t \in Threads, run[t].todo # <<>>, Vsc!Step(t).do # "command", run' = [run EXCEPT ![t] = run'[t]],
           \/ Over(run'[t])
           \/ /\ run'[t].todo = Tail(run[t].todo) /\ run'[t].todo # <<>> /\ run'[t].phase = "next"
              /\ run'[t].goal.kind = run[t].goal.kind
           \/ Vsc!Step(t)'.do = "unlock" /\ run'[t].phase = "next" /\ run'[t].goal.kind = run[t].goal.kind,
           UNCHANGED <<mcu, family, fw, ran, good, left, calls>>, LostMore, PageKept(t)
    PROVE  Between(t)
<1>1. /\ run[t] \in Runs /\ InOrder(run[t]) /\ run[t].todo \in Seq(Steps) /\ Sound(run[t].todo) /\ Ordered(run[t].todo)
      /\ Vsc!Step(t) = Head(run[t].todo)
  BY VscStepOf
<1>2. run[t].phase = "next"
  BY <1>1 DEF InOrder
<1>3. run'[t].phase = "next" /\ run'[t].goal.kind \in {"nothing", run[t].goal.kind}
      /\ (run'[t].todo # <<>> => Vsc!Step(t)'.do # "fetch")
  <2>1. CASE Over(run'[t])
    BY <2>1, OverFields
  <2>2. CASE /\ run'[t].todo = Tail(run[t].todo) /\ run'[t].todo # <<>> /\ run'[t].phase = "next"
             /\ run'[t].goal.kind = run[t].goal.kind
    <3>1. Follows(Head(run[t].todo), Head(Tail(run[t].todo)))
      BY <1>1, <2>2, RestOrderly
    <3> QED BY <1>1, <2>2, <3>1 DEF Follows, Vsc!Step
  <2> QED BY <2>1, <2>2
<1> QED BY <1>2, <1>3 DEF Between

LEMMA SamePageKept == ASSUME NEW t, page' = page PROVE PageKept(t)
BY DEF PageKept, SamePage

ThreadBetween(t) ==
    \/ Vsc!Begin(t) \/ Vsc!Acquire(t) \/ Vsc!AcquireTimesOut(t) \/ Vsc!Release(t) \/ Vsc!LoadBuffer(t)
    \/ Vsc!ReadAnswer(t) \/ Vsc!Raises(t) \/ Vsc!ReadMore(t) \/ Vsc!CopyingTakesTooLong(t) \/ Vsc!ChooseSides(t)
LEMMA BetweenSteps ==
    ASSUME VscBase, NEW t \in Threads, ThreadBetween(t) PROVE VscBase' /\ Between(t)
<1>1. CASE Vsc!Begin(t)
  <2>1. /\ VscBase' /\ run' = [run EXCEPT ![t] = run'[t]] /\ run[t].todo = <<>>
        /\ run'[t].todo # <<>> /\ run'[t].phase = "next" /\ Vsc!Step(t)'.do \in Outside
        /\ run'[t].goal.kind = "reset" => t \notin Installers /\ family = "firmware"
        /\ family # "firmware" => run'[t].goal.kind = "nothing"
    BY <1>1, BeginStep
  <2>2. run[t].phase = "next"
    <3>1. run[t] = Vsc!Returned(run[t].returned) /\ run[t] \in Runs
      BY <2>1 DEF VscBase, VscTyped, VscOrderly, InOrder
    <3> QED BY <3>1, OverFields DEF Over
  <2>3. UNCHANGED <<mcu, family, page, fw, lost, ran, good, left>>
        /\ calls[t] < (IF t \in Installers THEN MaxCalls ELSE 1)
        /\ calls' = IF family = "firmware" THEN [calls EXCEPT ![t] = @ + 1] ELSE calls
    BY <1>1 DEF Vsc!Begin
  <2>4. calls \in [Threads -> Nat]
    BY PartsAssumption DEF VscBase, VscTyped, Vsc!VscAssumption
  <2>5. /\ \A u \in Threads : calls[u] # 0 => calls'[u] # 0
        /\ family = "firmware" => calls'[t] # 0
        /\ t \notin Installers => calls[t] = 0
    BY <2>3, <2>4
  <2>6. PageKept(t) /\ LostMore
    BY <2>3, SamePageKept DEF LostMore
  <2>7. Between(t)
    BY <2>1, <2>2, <2>3, <2>5, <2>6 DEF Between, Outside
  <2> QED BY <2>1, <2>7
<1>2. CASE Vsc!Acquire(t)
  <2>1. VscBase' /\ run' = [run EXCEPT ![t] = run'[t]] /\ Onward(run[t], run'[t])
    BY <1>2, AcquireStep
  <2>2. /\ run[t].todo # <<>> /\ Vsc!Step(t).do = "lock" /\ UNCHANGED <<mcu, family, page, fw, lost, ran, good, left, calls>>
    BY <1>2 DEF Vsc!Acquire, Vsc!Doing
  <2>3. PageKept(t) /\ LostMore
    BY <2>2, SamePageKept DEF LostMore
  <2> QED BY <2>1, <2>2, <2>3, BetweenStep DEF Onward
<1>3. CASE Vsc!AcquireTimesOut(t) \/ Vsc!CopyingTakesTooLong(t)
  <2>1. run[t].todo # <<>> /\ Vsc!Step(t).do \in {"lock", "more"} /\ Vsc!Quit(t)
        /\ UNCHANGED <<mcu, family, page, fw, lost, ran, good, calls>>
    BY <1>3 DEF Vsc!AcquireTimesOut, Vsc!CopyingTakesTooLong, Vsc!Doing
  <2>2. VscBase' /\ run' = [run EXCEPT ![t] = run'[t]] /\ Over(run'[t]) /\ left' = Vsc!Gone(t)
    BY <2>1, QuitBase
  <2>3. left' = left
    BY <2>1, <2>2 DEF Vsc!Gone
  <2>4. PageKept(t) /\ LostMore
    BY <2>1, SamePageKept DEF LostMore
  <2> QED BY <2>1, <2>2, <2>3, <2>4, BetweenStep
<1>4. CASE Vsc!Release(t)
  <2>1. /\ VscBase' /\ run' = [run EXCEPT ![t] = run'[t]] /\ (Over(run'[t]) \/ Onward(run[t], run'[t]))
        /\ page' = page \/ (page' = Vsc!Blank /\ mcu # "lossy" /\ page.opcode = "none")
    BY <1>4, ReleaseStep
  <2>2. run[t].todo # <<>> /\ Vsc!Step(t).do = "unlock" /\ UNCHANGED <<mcu, family, fw, lost, ran, good, left, calls>>
    BY <1>4 DEF Vsc!Release, Vsc!Doing
  <2>3. \A u \in Threads \ {t} : ~Behind(run[u])
    <3>1. holder = t
      BY <2>2, VscStepOf DEF Outside
    <3> QED BY <3>1 DEF VscBase, VscOrderly
  <2>4. PageKept(t) /\ LostMore
    BY <2>1, <2>2, <2>3, SamePageKept DEF LostMore, PageKept
  <2> QED BY <2>1, <2>2, <2>4, BetweenStep DEF Onward
<1>5. CASE Vsc!LoadBuffer(t)
  <2>1. /\ VscBase' /\ run' = [run EXCEPT ![t] = run'[t]] /\ Onward(run[t], run'[t])
        /\ \E k \in 0..Chunks : page' = [page EXCEPT !.buffer = k]
        /\ LostMore
    BY <1>5, LoadBufferStep DEF LostMore
  <2>2. run[t].todo # <<>> /\ Vsc!Step(t).do = "load" /\ UNCHANGED <<mcu, family, fw, ran, good, left, calls>>
    BY <1>5 DEF Vsc!LoadBuffer, Vsc!Doing
  <2>3. PageKept(t)
    <3>1. PICK k \in 0..Chunks : page' = [page EXCEPT !.buffer = k]
      BY <2>1
    <3> QED BY <3>1 DEF VscBase, VscTyped, Pages, PageKept, SamePage
  <2> QED BY <2>1, <2>2, <2>3, BetweenStep DEF Onward
<1>6. CASE Vsc!ReadAnswer(t)
  <2>1. /\ VscBase' /\ run' = [run EXCEPT ![t] = run'[t]]
        /\ run'[t].todo = Tail(run[t].todo) /\ run'[t].todo # <<>> /\ run'[t].goal = run[t].goal /\ run'[t].phase = "next"
    BY <1>6, ReadAnswerStep
  <2>2. /\ run[t].todo # <<>> /\ Vsc!Step(t).do = "fetch"
        /\ UNCHANGED <<mcu, family, page, fw, lost, ran, good, left, calls>>
    BY <1>6 DEF Vsc!ReadAnswer, Vsc!Doing
  <2>3. PageKept(t) /\ LostMore
    BY <2>2, SamePageKept DEF LostMore
  <2> QED BY <2>1, <2>2, <2>3, BetweenStep
<1>7. CASE Vsc!Raises(t)
  <2>1. /\ VscBase' /\ run' = [run EXCEPT ![t] = run'[t]] /\ Over(run'[t]) /\ left' = Vsc!Gone(t)
        /\ run[t].todo # <<>> /\ Vsc!Step(t).do \in {"fetch", "more"}
    BY <1>7, RaisesStep
  <2>2. left' = left /\ UNCHANGED <<mcu, family, page, fw, lost, ran, good, calls>>
    BY <1>7, <2>1 DEF Vsc!Gone, Vsc!Raises
  <2>3. PageKept(t) /\ LostMore
    BY <2>2, SamePageKept DEF LostMore
  <2> QED BY <2>1, <2>2, <2>3, BetweenStep
<1>8. CASE Vsc!ReadMore(t)
  <2>1. /\ VscBase' /\ run' = [run EXCEPT ![t] = run'[t]] /\ run'[t].phase = "next" /\ run'[t].goal = run[t].goal
        /\ run'[t].todo # <<>> /\ (Onward(run[t], run'[t]) \/ Vsc!Step(t)'.do = "unlock")
    BY <1>8, ReadMoreStep
  <2>2. /\ run[t].todo # <<>> /\ Vsc!Step(t).do = "more"
        /\ UNCHANGED <<mcu, family, page, fw, lost, ran, good, left, calls>>
    BY <1>8 DEF Vsc!ReadMore, Vsc!Doing
  <2>3. PageKept(t) /\ LostMore
    BY <2>2, SamePageKept DEF LostMore
  <2> QED BY <2>1, <2>2, <2>3, BetweenStep DEF Onward
<1>9. CASE Vsc!ChooseSides(t)
  <2>1. /\ VscBase' /\ run' = [run EXCEPT ![t] = run'[t]] /\ run[t].todo # <<>> /\ Vsc!Step(t).do = "any"
        /\ \/ Over(run'[t])
           \/ /\ run'[t].todo = Tail(run[t].todo) /\ run'[t].todo # <<>> /\ run'[t].phase = "next"
              /\ run'[t].goal.kind = run[t].goal.kind
    BY <1>9, ChooseSidesStep
  <2>2. UNCHANGED <<mcu, family, page, fw, lost, ran, good, left, calls>>
    BY <1>9 DEF Vsc!ChooseSides
  <2>3. PageKept(t) /\ LostMore
    BY <2>2, SamePageKept DEF LostMore
  <2> QED BY <2>1, <2>2, <2>3, BetweenStep
<1> QED BY <1>1, <1>2, <1>3, <1>4, <1>5, <1>6, <1>7, <1>8, <1>9 DEF ThreadBetween

-------------------------------------------------------------------------------
(* Who is behind the lock is so alone. *)
LEMMA BehindAlone == ASSUME VscBase, NEW t \in Threads, NEW u \in Threads, Behind(run[t]), Behind(run[u]) PROVE t = u
BY DEF VscBase, VscOrderly

LEMMA AtCommand ==
    ASSUME VscBase, NEW t \in Threads, run[t].phase # "next"
    PROVE  run[t].todo # <<>> /\ Vsc!Step(t).do = "command" /\ Behind(run[t])
BY DEF VscBase, VscOrderly, InOrder, Vsc!Step, Behind, Outside

LEMMA StepBehind ==
    ASSUME VscBase, NEW t \in Threads, run[t].todo # <<>>, Vsc!Step(t).do \notin Outside PROVE Behind(run[t])
BY DEF Vsc!Step, Behind

(* Between two commands: *)
LEMMA BetweenOthers ==
    ASSUME VscBase, NEW t \in Threads, Between(t)
    PROVE  /\ \A u \in Threads \ {t} : run'[u] = run[u] /\ Vsc!Step(u)' = Vsc!Step(u) /\ Vsc!Argument(u)' = Vsc!Argument(u)
           /\ run'[t].phase = "next" /\ run[t].phase = "next"
           /\ \A u \in Threads : run'[u].phase # "next" => u # t /\ run[u].phase # "next" /\ SamePage
           /\ page'.opcode = page.opcode /\ (page'.opcode # "none" => SamePage)
           /\ lost' = 0 => lost = 0
<1>1. \A u \in Threads \ {t} : run'[u] = run[u]
  BY DEF Between, VscBase, VscTyped
<1>2. \A u \in Threads \ {t} : Vsc!Step(u)' = Vsc!Step(u) /\ Vsc!Argument(u)' = Vsc!Argument(u)
  BY <1>1 DEF Vsc!Step, Vsc!Argument
<1>3. run'[t].phase = "next" /\ run[t].phase = "next" /\ PageKept(t) /\ (lost' = 0 => lost = 0)
  BY DEF Between, LostMore
<1>4. ASSUME NEW u \in Threads, run'[u].phase # "next" PROVE u # t /\ run[u].phase # "next" /\ SamePage
  <2>1. u # t /\ run[u].phase # "next"
    BY <1>1, <1>3, <1>4
  <2>2. Behind(run[u])
    BY <2>1, AtCommand
  <2> QED BY <2>1, <2>2, <1>3 DEF PageKept
<1>5. page'.opcode = page.opcode /\ (page'.opcode # "none" => SamePage)
  BY <1>3, BlankPage DEF PageKept, SamePage
<1> QED BY <1>1, <1>2, <1>3, <1>4, <1>5

LEMMA BetweenChannel == ASSUME VscBase, VscChannel, NEW t \in Threads, Between(t) PROVE VscChannel'
<1>1. UNCHANGED <<mcu, family, ran, good>>
  BY DEF Between
<1>2. SUFFICES ASSUME mcu = "timely" PROVE VscChannel'
  BY <1>1 DEF VscChannel
<1>3. \A u \in Threads : run'[u].phase # "next" => u # t /\ run'[u] = run[u]
  BY BetweenOthers
<1>4. page'.opcode = page.opcode /\ (page'.opcode # "none" => page'.by = page.by)
  BY BetweenOthers DEF SamePage
<1>5. page'.opcode # "none" => page'.by \in Threads /\ run'[page'.by] = run[page'.by]
  <2>1. page.opcode # "none" => page.by \in Threads /\ run[page.by].phase = "wait"
    BY <1>2 DEF VscChannel, VscBase, VscTyped
  <2> QED BY <1>4, <2>1, BetweenOthers
<1> QED BY <1>1, <1>2, <1>3, <1>4, <1>5 DEF VscChannel

LEMMA BetweenPage == ASSUME VscBase, VscPage, NEW t \in Threads, Between(t) PROVE VscPage'
<1>1. mcu' = mcu /\ LostMore
  BY DEF Between
<1>2. mcu' # "lossy" => lost' = 0
  BY <1>1 DEF VscPage, LostMore
<1>3. ASSUME lost' = 0, NEW u \in Threads, run'[u].phase # "next"
      PROVE  /\ page'.op = Vsc!Step(u)'.reg /\ page'.arg = Vsc!Argument(u)'
             /\ run'[u].phase = "wait" /\ page'.opcode # "none" => page'.opcode = Vsc!Opcode(Vsc!Step(u)'.reg) /\ page'.by = u
  <2>1. u # t /\ run'[u] = run[u] /\ Vsc!Step(u)' = Vsc!Step(u) /\ Vsc!Argument(u)' = Vsc!Argument(u) /\ SamePage /\ lost = 0
    BY <1>3, BetweenOthers
  <2> QED BY <1>3, <2>1 DEF VscPage, SamePage
<1> QED BY <1>2, <1>3 DEF VscPage, Vsc!Opcode

LEMMA BetweenAnswer == ASSUME VscBase, VscAnswer, NEW t \in Threads, Between(t) PROVE VscAnswer'
<1>1. SUFFICES ASSUME mcu' = "timely", NEW u \in Threads, run'[u].todo # <<>>, Vsc!Step(u)'.reg \in Answered
               PROVE  /\ run'[u].phase = "wait" /\ page'.opcode = "none" /\ page'.status = "ok"
                             => page'.answer = <<Vsc!Step(u)'.reg, Vsc!Step(u)'.val>>
                      /\ Vsc!Step(u)'.do = "fetch" /\ u \in good' => page'.answer = <<Vsc!Step(u)'.reg, Vsc!Step(u)'.val>>
  BY DEF VscAnswer
<1>2. mcu = "timely" /\ good' = good
  BY <1>1 DEF Between
<1>3. CASE run'[u].phase = "wait"
  <2>1. u # t /\ run'[u] = run[u] /\ Vsc!Step(u)' = Vsc!Step(u) /\ SamePage
    BY <1>3, BetweenOthers
  <2> QED BY <1>1, <1>2, <2>1 DEF VscAnswer, SamePage
<1>4. CASE Vsc!Step(u)'.do = "fetch" /\ u \in good'
  <2>1. u # t
    BY <1>1, <1>4 DEF Between
  <2>2. run'[u] = run[u] /\ Vsc!Step(u)' = Vsc!Step(u)
    BY <2>1, BetweenOthers
  <2>3. Behind(run[u])
    BY <1>1, <1>4, <2>2, StepBehind DEF Outside
  <2>4. SamePage
    BY <2>1, <2>3 DEF Between, PageKept
  <2> QED BY <1>1, <1>2, <1>4, <2>2, <2>4 DEF VscAnswer, SamePage
<1> QED BY <1>3, <1>4

LEMMA BetweenCalls == ASSUME VscBase, VscCalls, NEW t \in Threads, Between(t) PROVE VscCalls'
<1>1. \A u \in Threads \ {t} : run'[u] = run[u]
  BY BetweenOthers
<1>2. family' = family /\ \A u \in Threads : calls[u] # 0 => calls'[u] # 0
  BY DEF Between
<1>3. \A u \in Threads : u \in Installers => run'[u].goal.kind # "reset"
  BY <1>1 DEF VscCalls, Between
<1>4. \A u \in Threads : run'[u].todo # <<>> /\ family = "firmware" => calls'[u] # 0
  <2>1. run'[t].todo # <<>> /\ family = "firmware" => calls'[t] # 0
    BY <1>2 DEF VscCalls, Between
  <2> QED BY <1>1, <1>2, <2>1 DEF VscCalls
<1>5. page'.opcode # "none" => page.opcode # "none" /\ page'.by = page.by /\ page.by \in Threads
  BY BetweenOthers DEF SamePage, VscBase, VscTyped
<1>6. family # "firmware" => \A u \in Threads : run'[u].goal.kind = "nothing"
  <2>1. family # "firmware" => run'[t].goal.kind \in {"nothing", run[t].goal.kind}
    BY DEF Between
  <2> QED BY <1>1, <2>1 DEF VscCalls
<1> QED BY <1>2, <1>3, <1>4, <1>5, <1>6 DEF VscCalls

LEMMA BetweenReset == ASSUME VscBase, VscCalls, VscReset, NEW t \in Threads, Between(t) PROVE VscReset'
<1>1. \A u \in Threads \ {t} : run'[u] = run[u] /\ Vsc!Step(u)' = Vsc!Step(u)
  BY BetweenOthers
<1>2. fw' = fw /\ left' = left /\ family' = family /\ LostMore
  BY DEF Between
<1>3. SUFFICES ASSUME lost = 0, lost' = 0 PROVE VscReset'
  BY <1>2 DEF VscReset, LostMore
<1>4. ASSUME NEW s, Excused(s) PROVE Excused(s)'
  <2>1. CASE s \in left
    BY <2>1, <1>2 DEF Excused
  <2>2. CASE s \notin left
    <3>1. PICK u \in Threads : Activating(u, s)
      BY <1>4, <2>2 DEF Excused
    <3>2. u # t
      BY <3>1 DEF Activating, IsAct, Between
    <3>3. Activating(u, s)'
      BY <1>1, <3>1, <3>2 DEF Activating
    <3> QED BY <3>3 DEF Excused
  <2> QED BY <2>1, <2>2
<1>5. \A s \in Sides : fw'.next[s] = "inactive" => Excused(s)'
  BY <1>2, <1>3, <1>4 DEF VscReset
<1>6. page'.op = "commit" => \A s \in DOMAIN page'.arg : Excused(s)'
  <2>1. page'.op = "commit" => SamePage
    BY DEF Between, PageKept, Vsc!Blank, Vsc!None
  <2> QED BY <1>3, <1>4, <2>1 DEF VscReset, SamePage
<1>7. ASSUME NEW u \in Threads, run'[u].phase = "wait", Vsc!Step(u)'.reg = "run", page'.opcode = "none", page'.status = "ok"
      PROVE  \A s \in DOMAIN page'.arg : fw'.next[s] # "inactive"
  <2>1. u # t /\ run'[u] = run[u] /\ Vsc!Step(u)' = Vsc!Step(u) /\ SamePage
    BY <1>7, BetweenOthers
  <2> QED BY <1>2, <1>3, <1>7, <2>1 DEF VscReset, SamePage
<1>8. page'.opcode # "none" /\ run'[page'.by].goal.kind = "reset" => run'[page'.by].phase = "wait"
  <2>1. SUFFICES ASSUME page'.opcode # "none", run'[page'.by].goal.kind = "reset" PROVE run'[page'.by].phase = "wait"
    OBVIOUS
  <2>2. page.opcode # "none" /\ page'.by = page.by /\ page.by \in Threads
    BY <2>1, BetweenOthers DEF SamePage, VscBase, VscTyped
  <2>3. CASE page.by # t
    <3>1. run'[page.by] = run[page.by]
      BY <1>1, <2>2, <2>3
    <3> QED BY <2>1, <2>2, <3>1, <1>3 DEF VscReset
  <2>4. CASE page.by = t
    <3>1. run[t].goal.kind # "reset"
      BY <1>3, <2>2, <2>4 DEF VscReset, Between
    <3>2. run'[t].goal.kind = "reset" /\ calls[t] = 0
      BY <2>1, <2>2, <2>4, <3>1 DEF Between
    <3>3. family # "firmware"
      BY <2>2, <2>4, <3>2 DEF VscCalls
    <3>4. run'[t].goal.kind \in {"nothing", run[t].goal.kind}
      BY <3>3 DEF Between
    <3> QED BY <3>1, <3>2, <3>4
  <2> QED BY <2>3, <2>4
<1> QED BY <1>5, <1>6, <1>7, <1>8 DEF VscReset

(* The sides that a commit or a run of an activation is about. *)
LEMMA ActSides ==
    ASSUME VscBase, NEW t \in Threads, run[t].todo # <<>>, IsAct(Vsc!Step(t)), run[t].goal.kind # "reset"
    PROVE  /\ run[t].goal.kind \in {"activate", "activate file"} /\ DOMAIN Vsc!Argument(t) = DOMAIN run[t].goal.val
<1>1. /\ Vsc!Step(t) \in Elems(run[t].todo) /\ Acting(run[t]) /\ Vsc!Step(t) = Head(run[t].todo)
      /\ run[t].todo \in Seq(Steps) /\ Sound(run[t].todo) /\ Ordered(run[t].todo)
  BY VscStepOf
<1>2. Chosen(run[t].todo)
  BY <1>1, RestOrderly
<1>3. run[t].goal.kind \in {"activate", "activate file"}
  BY <1>1 DEF Acting
<1>4. CASE run[t].goal.kind = "activate"
  BY <1>1, <1>4 DEF Acting, Vsc!Argument, Vsc!Marked
<1>5. CASE run[t].goal.kind = "activate file"
  <2>1. Vsc!Step(t).val = <<>> /\ run[t].found = DOMAIN run[t].goal.val
    BY <1>1, <1>2, <1>5 DEF Acting
  <2>2. Vsc!Argument(t) = Vsc!All(run[t].found, 1)
    BY <2>1 DEF Vsc!Argument, Vsc!Marked, IsAct
  <2>3. DOMAIN Vsc!All(run[t].found, 1) = run[t].found
    BY Arguments
  <2> QED BY <2>1, <2>2, <2>3, <1>3
<1> QED BY <1>3, <1>4, <1>5

(* A thread writes the attributes of a command. *)
LEMMA AttributesOthers ==
    ASSUME VscBase, NEW t \in Threads, Vsc!WriteAttributes(t)
    PROVE  /\ run[t].todo # <<>> /\ Vsc!Step(t).do = "command" /\ run[t].phase = "next" /\ Behind(run[t])
           /\ \A u \in Threads \ {t} : run'[u] = run[u] /\ run[u].phase = "next" /\ ~Behind(run[u])
                                       /\ Vsc!Step(u)' = Vsc!Step(u)
           /\ Vsc!Step(t)' = Vsc!Step(t) /\ Vsc!Argument(t)' = Vsc!Argument(t) /\ run'[t].phase = "opcode"
           /\ run'[t].goal = run[t].goal /\ run'[t].todo = run[t].todo
           /\ page'.opcode = page.opcode /\ page'.by = page.by /\ page'.status = page.status /\ page'.answer = page.answer
           /\ lost' = lost => page'.op = Vsc!Step(t).reg /\ page'.arg = Vsc!Argument(t)
           /\ LostMore /\ ran' = ran \ {t} /\ good' = good \ {t} /\ UNCHANGED <<mcu, family, holder, fw, left, calls>>
<1>1. /\ run[t].todo # <<>> /\ Vsc!Step(t).do = "command" /\ run[t].phase = "next"
      /\ ran' = ran \ {t} /\ good' = good \ {t} /\ UNCHANGED <<mcu, family, holder, fw, left, calls>>
  BY DEF Vsc!WriteAttributes, Vsc!Doing
<1>2. /\ run' = [run EXCEPT ![t] = run'[t]]
      /\ page'.opcode = page.opcode /\ page'.by = page.by /\ page'.status = page.status /\ page'.answer = page.answer
      /\ lost' = lost => page'.op = Vsc!Step(t).reg /\ page'.arg = Vsc!Argument(t)
      /\ LostMore
      /\ run'[t].phase = "opcode" /\ run'[t].todo = run[t].todo /\ run'[t].goal = run[t].goal /\ run'[t].found = run[t].found
  BY WriteAttributesStep DEF LostMore
<1>3. Behind(run[t])
  BY <1>1, StepBehind DEF Outside
<1>4. \A u \in Threads \ {t} : ~Behind(run[u]) /\ run[u].phase = "next"
  BY <1>3, BehindAlone, AtCommand
<1>5. \A u \in Threads \ {t} : run'[u] = run[u]
  BY <1>2 DEF VscBase, VscTyped
<1>6. /\ \A u \in Threads \ {t} : Vsc!Step(u)' = Vsc!Step(u)
      /\ Vsc!Step(t)' = Vsc!Step(t) /\ Vsc!Argument(t)' = Vsc!Argument(t)
  BY <1>2, <1>5 DEF Vsc!Step, Vsc!Argument
<1> QED BY <1>1, <1>2, <1>3, <1>4, <1>5, <1>6

VscRest == VscChannel /\ VscPage /\ VscAnswer /\ VscCalls /\ VscReset
LEMMA AttributesRest == ASSUME VscBase, VscRest, NEW t \in Threads, Vsc!WriteAttributes(t) PROVE VscRest'
<1>1. /\ run[t].todo # <<>> /\ Vsc!Step(t).do = "command" /\ run[t].phase = "next"
      /\ \A u \in Threads \ {t} : run'[u] = run[u] /\ run[u].phase = "next" /\ ~Behind(run[u])
                                  /\ Vsc!Step(u)' = Vsc!Step(u)
      /\ Vsc!Step(t)' = Vsc!Step(t) /\ Vsc!Argument(t)' = Vsc!Argument(t) /\ run'[t].phase = "opcode"
      /\ run'[t].goal = run[t].goal /\ run'[t].todo = run[t].todo
      /\ page'.opcode = page.opcode /\ page'.by = page.by /\ page'.status = page.status /\ page'.answer = page.answer
      /\ lost' = lost => page'.op = Vsc!Step(t).reg /\ page'.arg = Vsc!Argument(t)
      /\ LostMore /\ ran' = ran \ {t} /\ good' = good \ {t} /\ UNCHANGED <<mcu, family, holder, fw, left, calls>>
  BY AttributesOthers
<1>2. page.opcode # "none" => page.by \in Threads
  BY DEF VscBase, VscTyped
<1>3. VscChannel'
  <2>1. SUFFICES ASSUME mcu = "timely" PROVE VscChannel'
    BY <1>1 DEF VscChannel
  <2>2. page.opcode # "none" => run[page.by].phase = "wait" /\ page.by \notin ran \cup good /\ page.by # t
    BY <1>1, <2>1 DEF VscRest, VscChannel
  <2>3. family = "firmware" => ran' = {} /\ good' = {}
    BY <1>1, <2>1 DEF VscRest, VscChannel
  <2>4. page'.opcode # "none" => run'[page'.by].phase = "wait" /\ page'.by \notin ran' \cup good'
    BY <1>1, <1>2, <2>2
  <2> QED BY <1>1, <2>3, <2>4 DEF VscChannel
<1>4. VscPage'
  <2>1. (mcu' # "lossy" => lost' = 0) /\ (lost' = 0 => lost' = lost)
    BY <1>1 DEF VscRest, VscPage, LostMore
  <2>2. ASSUME lost' = 0, NEW u \in Threads, run'[u].phase # "next" 
        PROVE u = t /\ page'.op = Vsc!Step(u)'.reg /\ page'.arg = Vsc!Argument(u)'
    BY <1>1, <2>1, <2>2
  <2> QED BY <1>1, <2>1, <2>2 DEF VscPage
<1>5. VscAnswer'
  <2>1. ASSUME NEW u \in Threads, run'[u].todo # <<>> PROVE run'[u].phase # "wait" /\ Vsc!Step(u)'.do # "fetch"
    <3>1. CASE u = t
      BY <1>1, <3>1
    <3>2. CASE u # t
      <4>1. Vsc!Step(u).do \in Outside
        BY <1>1, <2>1, <3>2, StepBehind
      <4> QED BY <1>1, <3>2, <4>1 DEF Outside
    <3> QED BY <3>1, <3>2
  <2> QED BY <2>1 DEF VscAnswer
<1>6. VscCalls'
  BY <1>1, <1>2 DEF VscRest, VscCalls
<1>7. VscReset'
  <2>1. SUFFICES ASSUME lost = 0, lost' = 0 PROVE VscReset'
    BY <1>1 DEF VscReset, LostMore
  <2>2. ASSUME NEW s, Excused(s) PROVE Excused(s)'
    <3>1. ASSUME NEW u \in Threads, Activating(u, s) PROVE Activating(u, s)'
      <4>1. CASE u = t
        BY <1>1, <3>1, <4>1 DEF Activating
      <4>2. CASE u # t
        BY <1>1, <3>1, <4>2 DEF Activating
      <4> QED BY <4>1, <4>2
    <3> QED BY <1>1, <2>2, <3>1 DEF Excused
  <2>3. \A s \in Sides : fw'.next[s] = "inactive" => Excused(s)'
    BY <1>1, <2>1, <2>2 DEF VscRest, VscReset
  <2>4. ASSUME page'.op = "commit", NEW s \in DOMAIN page'.arg PROVE Excused(s)'
    <3>1. Vsc!Step(t).reg = "commit" /\ IsAct(Vsc!Step(t)) /\ page'.arg = Vsc!Argument(t)
      BY <1>1, <2>1, <2>4 DEF IsAct
    <3>2. run[t].goal.kind # "reset"
      <4>1. Vsc!Step(t) \in Elems(run[t].todo) /\ Acting(run[t])
        BY <1>1, VscStepOf
      <4> QED BY <1>1, <3>1, <4>1 DEF Acting, Resetting
    <3>3. run[t].goal.kind \in {"activate", "activate file"} /\ s \in DOMAIN run[t].goal.val
      BY <1>1, <2>4, <3>1, <3>2, ActSides
    <3>4. Activating(t, s)'
      BY <1>1, <3>1, <3>3 DEF Activating
    <3> QED BY <3>4 DEF Excused
  <2>5. \A u \in Threads : run'[u].phase # "wait"
    BY <1>1
  <2>6. page'.opcode # "none" /\ run'[page'.by].goal.kind = "reset" => run'[page'.by].phase = "wait"
    <3>1. page.opcode # "none" /\ run[page.by].goal.kind = "reset" => run[page.by].phase = "wait"
      BY <2>1 DEF VscRest, VscReset
    <3> QED BY <1>1, <1>2, <3>1
  <2> QED BY <2>3, <2>4, <2>5, <2>6 DEF VscReset
<1> QED BY <1>3, <1>4, <1>5, <1>6, <1>7 DEF VscRest

(* It writes the opcode. *)
LEMMA OpcodeRest == ASSUME VscBase, VscRest, NEW t \in Threads, Vsc!WriteOpcode(t) PROVE VscRest'
<1>1. /\ run[t].todo # <<>> /\ Vsc!Step(t).do = "command" /\ run[t].phase = "opcode"
      /\ UNCHANGED <<mcu, family, holder, fw, ran, good, left, calls>>
  BY DEF Vsc!WriteOpcode, Vsc!Doing
<1>2. /\ run' = [run EXCEPT ![t] = run'[t]]
      /\ \/ page' = [page EXCEPT !.opcode = Vsc!Opcode(Vsc!Step(t).reg), !.by = t] /\ lost' = lost
         \/ page' = page /\ mcu = "lossy" /\ lost' # 0
      /\ run'[t].phase = "wait" /\ run'[t].todo = run[t].todo /\ run'[t].goal = run[t].goal /\ run'[t].found = run[t].found
  BY WriteOpcodeStep
<1>3. Behind(run[t])
  BY <1>1, AtCommand
<1>4. \A u \in Threads \ {t} : ~Behind(run[u]) /\ run[u].phase = "next" /\ run'[u] = run[u] /\ Vsc!Step(u)' = Vsc!Step(u)
  <2>1. \A u \in Threads \ {t} : ~Behind(run[u]) /\ run[u].phase = "next"
    BY <1>3, BehindAlone, AtCommand
  <2>2. \A u \in Threads \ {t} : run'[u] = run[u]
    BY <1>2 DEF VscBase, VscTyped
  <2> QED BY <2>1, <2>2 DEF Vsc!Step
<1>5. Vsc!Step(t)' = Vsc!Step(t) /\ Vsc!Argument(t)' = Vsc!Argument(t)
  BY <1>2 DEF Vsc!Step, Vsc!Argument
<1>6. Vsc!Opcode(Vsc!Step(t).reg) # "none" /\ LostMore
  <2>1. Vsc!Step(t).reg \in Ops
    BY <1>1, VscStepOf DEF Steps
  <2> QED BY <1>2, <2>1, OpcodeType DEF LostMore
<1>7. ASSUME mcu # "lossy" \/ lost' = 0
      PROVE  /\ lost' = lost /\ page'.opcode = Vsc!Opcode(Vsc!Step(t).reg) /\ page'.by = t
             /\ page'.op = page.op /\ page'.arg = page.arg
  BY <1>2, <1>7 DEF VscBase, VscTyped, Pages
<1>8. VscChannel'
  <2>1. SUFFICES ASSUME mcu = "timely" PROVE VscChannel'
    BY <1>1 DEF VscChannel
  <2>2. t \notin ran \cup good
    BY <1>1, <2>1 DEF VscRest, VscChannel
  <2>3. page'.opcode # "none" /\ page'.by = t
    BY <1>6, <1>7, <2>1
  <2>4. family = "firmware" => ran = {} /\ good = {}
    BY <2>1 DEF VscRest, VscChannel
  <2> QED BY <1>1, <1>2, <1>4, <2>2, <2>3, <2>4 DEF VscChannel
<1>9. VscPage'
  <2>1. mcu' # "lossy" => lost' = 0
    BY <1>1, <1>7 DEF VscRest, VscPage
  <2>2. ASSUME lost' = 0, NEW u \in Threads, run'[u].phase # "next"
        PROVE  /\ u = t /\ page'.op = Vsc!Step(u)'.reg /\ page'.arg = Vsc!Argument(u)'
               /\ page'.opcode = Vsc!Opcode(Vsc!Step(u)'.reg) /\ page'.by = u
    <3>1. u = t /\ lost = 0
      BY <1>4, <1>7, <2>2
    <3>2. page.op = Vsc!Step(t).reg /\ page.arg = Vsc!Argument(t)
      BY <1>1, <3>1 DEF VscRest, VscPage
    <3> QED BY <1>5, <1>7, <2>2, <3>1, <3>2
  <2> QED BY <2>1, <2>2 DEF VscPage, Vsc!Opcode
<1>10. VscAnswer'
  <2>1. ASSUME mcu' = "timely", NEW u \in Threads, run'[u].todo # <<>>
        PROVE (run'[u].phase # "wait" \/ page'.opcode # "none") /\ Vsc!Step(u)'.do # "fetch"
    <3>1. CASE u = t
      BY <1>1, <1>5, <1>6, <1>7, <2>1, <3>1
    <3>2. CASE u # t
      <4>1. Vsc!Step(u).do \in Outside
        BY <1>4, <2>1, <3>2, StepBehind
      <4> QED BY <1>4, <3>2, <4>1 DEF Outside
    <3> QED BY <3>1, <3>2
  <2> QED BY <2>1 DEF VscAnswer
<1>11. VscCalls'
  <2>1. page'.opcode # "none" => (page'.by = t \/ (page'.by = page.by /\ page.opcode # "none"))
    BY <1>2 DEF VscBase, VscTyped, Pages
  <2>2. \A u \in Threads : run'[u].goal = run[u].goal /\ run'[u].todo = run[u].todo
    BY <1>2, <1>4
  <2>3. family = "firmware" => calls[t] # 0
    BY <1>1 DEF VscRest, VscCalls
  <2> QED BY <1>1, <2>1, <2>2, <2>3 DEF VscRest, VscCalls
<1>12. VscReset'
  <2>1. SUFFICES ASSUME lost = 0, lost' = 0 PROVE VscReset'
    BY <1>6 DEF VscReset, LostMore
  <2>2. ASSUME NEW s, Excused(s) PROVE Excused(s)'
    <3>1. ASSUME NEW u \in Threads, Activating(u, s) PROVE Activating(u, s)'
      <4>1. CASE u = t
        BY <1>1, <1>2, <1>5, <3>1, <4>1 DEF Activating
      <4>2. CASE u # t
        BY <1>4, <3>1, <4>2 DEF Activating
      <4> QED BY <4>1, <4>2
    <3> QED BY <1>1, <2>2, <3>1 DEF Excused
  <2>3. \A s \in Sides : fw'.next[s] = "inactive" => Excused(s)'
    BY <1>1, <2>1, <2>2 DEF VscRest, VscReset
  <2>4. ASSUME page'.op = "commit", NEW s \in DOMAIN page'.arg PROVE Excused(s)'
    BY <1>7, <2>1, <2>2, <2>4 DEF VscRest, VscReset
  <2>5. page'.opcode # "none" /\ page'.by = t
    BY <1>6, <1>7, <2>1
  <2> QED BY <1>2, <2>3, <2>4, <2>5 DEF VscReset
<1> QED BY <1>8, <1>9, <1>10, <1>11, <1>12 DEF VscRest

(* A thread learns how its command ended, or does not. *)
EndsCommand(t) == Vsc!ReadStatus(t) \/ Vsc!StatusLost(t) \/ Vsc!TimesOut(t)
LEMMA EndOthers ==
    ASSUME VscBase, NEW t \in Threads, EndsCommand(t)
    PROVE  /\ run[t].todo # <<>> /\ Vsc!Step(t).do = "command" /\ run[t].phase = "wait" /\ run'[t].phase = "next"
           /\ \A u \in Threads \ {t} : run'[u] = run[u] /\ run[u].phase = "next" /\ ~Behind(run[u])
                                       /\ Vsc!Step(u)' = Vsc!Step(u)
           /\ UNCHANGED <<mcu, family, page, fw, lost, ran, calls>>
           /\ page.opcode = "none" \/ mcu = "late"
           /\ \/ /\ Vsc!Suffices(t) /\ page.opcode = "none" /\ good' = Vsc!Noted(good \cup {t}) /\ left' = left
                 /\ run'[t].todo # <<>> /\ run'[t].goal = run[t].goal /\ Follows(Vsc!Step(t), Vsc!Step(t)')
              \/ good' = good /\ Over(run'[t]) /\ left' = Vsc!Gone(t)
              \/ good' = good /\ ~IsAct(Vsc!Step(t)) /\ run'[t].goal = run[t].goal /\ run'[t].todo # <<>> /\ left' = left
<1>1. /\ run' = [run EXCEPT ![t] = run'[t]] /\ run'[t].phase = "next"
      /\ run[t].todo # <<>> /\ Vsc!Step(t).do = "command" /\ run[t].phase = "wait"
      /\ UNCHANGED <<mcu, family, page, fw, lost, ran, calls>>
      /\ page.opcode = "none" \/ mcu = "late"
      /\ \/ /\ Vsc!Suffices(t) /\ page.opcode = "none" /\ good' = Vsc!Noted(good \cup {t}) /\ left' = left
            /\ run'[t].todo = Tail(run[t].todo) /\ run'[t].todo # <<>> /\ run'[t].goal = run[t].goal
         \/ good' = good /\ Over(run'[t]) /\ left' = Vsc!Gone(t)
         \/ good' = good /\ ~IsAct(Vsc!Step(t)) /\ run'[t].goal = run[t].goal /\ run'[t].todo # <<>> /\ left' = left
  BY ReadStatusStep DEF EndsCommand
<1>2. Behind(run[t])
  BY <1>1, AtCommand
<1>3. \A u \in Threads \ {t} : ~Behind(run[u]) /\ run[u].phase = "next"
  BY <1>2, BehindAlone, AtCommand
<1>4. \A u \in Threads \ {t} : run'[u] = run[u]
  BY <1>1 DEF VscBase, VscTyped
<1>5. \A u \in Threads \ {t} : Vsc!Step(u)' = Vsc!Step(u)
  BY <1>4 DEF Vsc!Step
<1>6. run'[t].todo = Tail(run[t].todo) /\ run'[t].todo # <<>> => Follows(Vsc!Step(t), Vsc!Step(t)')
  <2>1. run[t].todo \in Seq(Steps) /\ Sound(run[t].todo) /\ Ordered(run[t].todo)
    BY <1>1, VscStepOf
  <2>2. Tail(run[t].todo) # <<>> => Follows(Head(run[t].todo), Head(Tail(run[t].todo)))
    BY <1>1, <2>1, RestOrderly
  <2> QED BY <2>2 DEF Vsc!Step
<1> QED BY <1>1, <1>3, <1>4, <1>5, <1>6

LEMMA EndRest == ASSUME VscBase, VscRest, NEW t \in Threads, EndsCommand(t) PROVE VscRest'
<1>1. /\ run[t].todo # <<>> /\ Vsc!Step(t).do = "command" /\ run[t].phase = "wait" /\ run'[t].phase = "next"
      /\ \A u \in Threads \ {t} : run'[u] = run[u] /\ run[u].phase = "next" /\ ~Behind(run[u])
                                  /\ Vsc!Step(u)' = Vsc!Step(u)
      /\ UNCHANGED <<mcu, family, page, fw, lost, ran, calls>>
      /\ page.opcode = "none" \/ mcu = "late"
  BY EndOthers
<1>2. \/ /\ Vsc!Suffices(t) /\ page.opcode = "none" /\ good' = Vsc!Noted(good \cup {t}) /\ left' = left
         /\ run'[t].todo # <<>> /\ run'[t].goal = run[t].goal /\ Follows(Vsc!Step(t), Vsc!Step(t)')
      \/ good' = good /\ Over(run'[t]) /\ left' = Vsc!Gone(t)
      \/ good' = good /\ ~IsAct(Vsc!Step(t)) /\ run'[t].goal = run[t].goal /\ run'[t].todo # <<>> /\ left' = left
  BY EndOthers
<1>3. \A u \in Threads : run'[u].phase = "next"
  BY <1>1
<1>4. VscChannel'
  <2>1. SUFFICES ASSUME mcu = "timely" PROVE VscChannel'
    BY <1>1 DEF VscChannel
  <2>2. family = "firmware" => ran = {} /\ good = {}
    BY <2>1 DEF VscRest, VscChannel
  <2>3. family = "firmware" => good' = {}
    BY <1>2, <2>2 DEF Vsc!Noted
  <2> QED BY <1>1, <1>3, <2>1, <2>2, <2>3 DEF VscChannel
<1>5. VscPage'
  BY <1>1, <1>3 DEF VscRest, VscPage
<1>6. VscAnswer'
  <2>1. SUFFICES ASSUME mcu = "timely", NEW u \in Threads, run'[u].todo # <<>>, Vsc!Step(u)'.reg \in Answered,
                        Vsc!Step(u)'.do = "fetch", u \in good'
                 PROVE  page.answer = <<Vsc!Step(u)'.reg, Vsc!Step(u)'.val>>
    BY <1>1, <1>3 DEF VscAnswer
  <2>2. u = t
    <3>1. ASSUME u # t PROVE FALSE
      <4>1. run[u].todo # <<>> /\ Vsc!Step(u).do \notin Outside
        BY <1>1, <2>1, <3>1 DEF Outside
      <4> QED BY <1>1, <3>1, <4>1, StepBehind
    <3> QED BY <3>1
  <2>3. t \notin good
    BY <1>1, <2>1 DEF VscRest, VscChannel
  <2>4. /\ Vsc!Suffices(t) /\ page.opcode = "none" /\ Follows(Vsc!Step(t), Vsc!Step(t)')
    BY <1>2, <2>1, <2>2, <2>3
  <2>5. Vsc!Step(t).reg = Vsc!Step(t)'.reg /\ Vsc!Step(t).val = Vsc!Step(t)'.val
    BY <2>1, <2>2, <2>4 DEF Follows
  <2>6. page.status = "ok"
    BY <2>1, <2>2, <2>4, <2>5 DEF Vsc!Suffices, Answered
  <2> QED BY <1>1, <2>1, <2>2, <2>4, <2>5, <2>6 DEF VscRest, VscAnswer
<1>7. VscCalls'
  <2>1. run'[t].goal.kind \in {"nothing", run[t].goal.kind}
    BY <1>2, OverFields
  <2> QED BY <1>1, <2>1 DEF VscRest, VscCalls
<1>8. VscReset'
  <2>1. SUFFICES ASSUME lost = 0 PROVE VscReset'
    BY <1>1 DEF VscReset
  <2>2. page.op = Vsc!Step(t).reg /\ page.arg = Vsc!Argument(t) /\ (page.opcode # "none" => page.by = t)
    BY <1>1, <2>1 DEF VscRest, VscPage
  <2>3. left \subseteq left'
    BY <1>2 DEF Vsc!Gone
  <2>4. ASSUME NEW s, Activating(t, s)
        PROVE  \/ Activating(t, s)' \/ s \in left'
               \/ Vsc!Step(t).reg = "run" /\ s \in DOMAIN page.arg /\ page.opcode = "none" /\ page.status = "ok"
    <3>1. IsAct(Vsc!Step(t)) /\ run[t].goal.kind # "reset" /\ s \in DOMAIN run[t].goal.val
      BY <2>4 DEF Activating
    <3>2. s \in DOMAIN page.arg
      BY <1>1, <2>2, <3>1, ActSides
    <3>3. CASE /\ Vsc!Suffices(t) /\ page.opcode = "none" /\ run'[t].todo # <<>> /\ run'[t].goal = run[t].goal
               /\ Follows(Vsc!Step(t), Vsc!Step(t)')
      <4>1. CASE Vsc!Step(t).reg = "commit"
        <5>1. IsAct(Vsc!Step(t)') /\ Vsc!Step(t)'.reg = "run"
          BY <3>1, <3>3, <4>1 DEF Follows, IsAct
        <5> QED BY <2>4, <3>3, <5>1 DEF Activating
      <4>2. CASE Vsc!Step(t).reg = "run"
        <5>1. page.status = "ok"
          BY <3>3, <4>2 DEF Vsc!Suffices
        <5> QED BY <3>2, <3>3, <4>2, <5>1
      <4> QED BY <3>1, <4>1, <4>2 DEF IsAct
    <3>4. CASE left' = Vsc!Gone(t)
      BY <3>1, <3>4 DEF Vsc!Gone, IsAct
    <3> QED BY <1>2, <3>1, <3>3, <3>4
  <2>5. ASSUME NEW s, Excused(s)
        PROVE  \/ Excused(s)'
               \/ Vsc!Step(t).reg = "run" /\ s \in DOMAIN page.arg /\ page.opcode = "none" /\ page.status = "ok"
    <3>1. CASE s \in left
      BY <2>3, <3>1 DEF Excused
    <3>2. CASE s \notin left
      <4>1. PICK u \in Threads : Activating(u, s)
        BY <2>5, <3>2 DEF Excused
      <4>2. u # t => Activating(u, s)'
        BY <1>1, <4>1 DEF Activating
      <4> QED BY <2>4, <4>1, <4>2 DEF Excused
    <3> QED BY <3>1, <3>2
  <2>6. \A s \in Sides : fw'.next[s] = "inactive" => Excused(s)'
    BY <1>1, <2>1, <2>5 DEF VscRest, VscReset
  <2>7. page'.op = "commit" => \A s \in DOMAIN page'.arg : Excused(s)'
    BY <1>1, <2>1, <2>2, <2>5 DEF VscRest, VscReset
  <2>8. page'.opcode # "none" => run'[page'.by].goal.kind # "reset"
    <3>1. SUFFICES ASSUME page.opcode # "none", run'[t].goal.kind = "reset" PROVE FALSE
      BY <1>1, <2>2
    <3>2. ~Over(run'[t])
      BY <3>1, OverFields
    <3>3. run[t].goal.kind = "reset" /\ ~IsAct(Vsc!Step(t))
      BY <1>2, <3>1, <3>2
    <3>4. Vsc!Step(t) \in Elems(run[t].todo) /\ Acting(run[t])
      BY <1>1, VscStepOf
    <3>5. Resetting(Vsc!Step(t))
      BY <3>3, <3>4 DEF Acting
    <3> QED BY <1>1, <3>3, <3>5 DEF Resetting, IsAct
  <2> QED BY <1>3, <2>6, <2>7, <2>8 DEF VscReset
<1> QED BY <1>4, <1>5, <1>6, <1>7, <1>8 DEF VscRest

(* The microcontroller carries a command out, *)
LEMMA McuOthers ==
    ASSUME VscBase, NEW t \in Threads, run[t].phase = "wait"
    PROVE  \A u \in Threads \ {t} : run[u].phase = "next" /\ ~Behind(run[u])
BY BehindAlone, AtCommand

(* The command that is under way is that of the thread that waits for it. *)
LEMMA UnderWay ==
    ASSUME VscBase, VscPage, lost = 0, NEW t \in Threads, run[t].phase = "wait", page.opcode # "none"
    PROVE  /\ Vsc!Command = Vsc!Step(t).reg /\ page.arg = Vsc!Argument(t) /\ page.by = t
           /\ run[t].todo # <<>> /\ Vsc!Step(t).do = "command" /\ page.op = Vsc!Step(t).reg
<1>1. /\ page.op = Vsc!Step(t).reg /\ page.arg = Vsc!Argument(t) /\ page.by = t
      /\ page.opcode = Vsc!Opcode(Vsc!Step(t).reg)
  BY DEF VscPage
<1> QED BY <1>1, AtCommand DEF Vsc!Command

LEMMA RunsRest == ASSUME VscBase, VscRest, Vsc!McuRuns PROVE VscRest'
<1>1. /\ page.opcode # "none" /\ fw' = Vsc!Effect /\ ran' = Vsc!Noted(ran \cup {page.by})
      /\ left' = (IF Vsc!Command = "run" THEN left \ DOMAIN page.arg ELSE left)
      /\ UNCHANGED <<mcu, family, holder, lost, good, calls>>
  BY DEF Vsc!McuRuns, Vsc!None
<1>2. /\ page.by \in Threads
      /\ \A u \in Threads : /\ run'[u].todo = run[u].todo /\ run'[u].phase = run[u].phase /\ run'[u].goal = run[u].goal
                            /\ run'[u].found = run[u].found
  BY McuRunsStep
<1>3. PICK a \in Vsc!Answers : page' = [page EXCEPT !.opcode = "none", !.by = Nobody, !.status = "ok", !.answer = a]
  BY McuRunsStep
<1>4. page'.opcode = "none" /\ page'.op = page.op /\ page'.arg = page.arg /\ page'.answer = a
  BY <1>3 DEF VscBase, VscTyped, Pages
<1>5. \A u \in Threads : Vsc!Step(u)' = Vsc!Step(u) /\ Vsc!Argument(u)' = Vsc!Argument(u)
  BY <1>2 DEF Vsc!Step, Vsc!Argument
<1>6. VscChannel'
  <2>1. SUFFICES ASSUME mcu = "timely" PROVE VscChannel'
    BY <1>1 DEF VscChannel
  <2>2. /\ family = "firmware" => ran = {} /\ good = {}
        /\ run[page.by].phase = "wait" /\ page.by \notin ran \cup good
        /\ \A u \in Threads : /\ run[u].phase = "opcode" => u \notin ran \cup good
                              /\ run[u].phase = "wait" => u \notin good
    BY <1>1, <2>1 DEF VscRest, VscChannel
  <2>3. \A u \in Threads : run[u].phase # "next" => u = page.by
    BY <1>2, <2>2, McuOthers
  <2>4. (family = "firmware" => ran' = {}) /\ (family # "firmware" => ran' = ran \cup {page.by})
    BY <1>1, <2>2 DEF Vsc!Noted
  <2>5. \A u \in Threads : run'[u].phase = "opcode" => u \notin ran' \cup good'
    BY <1>2, <2>2, <2>3
  <2>6. \A u \in Threads : run'[u].phase = "wait" => u \notin good' /\ (family' # "firmware" => u \in ran')
    BY <1>1, <1>2, <2>2, <2>3, <2>4
  <2> QED BY <1>1, <1>4, <2>2, <2>4, <2>5, <2>6 DEF VscChannel
<1>7. VscPage'
  BY <1>1, <1>2, <1>4, <1>5 DEF VscRest, VscPage
<1>8. VscAnswer'
  <2>1. SUFFICES ASSUME mcu = "timely", NEW u \in Threads, run[u].todo # <<>>, Vsc!Step(u).reg \in Answered
                 PROVE  /\ run[u].phase = "wait" => a = <<Vsc!Step(u).reg, Vsc!Step(u).val>>
                        /\ Vsc!Step(u).do # "fetch"
    BY <1>1, <1>2, <1>4, <1>5 DEF VscAnswer
  <2>2. run[page.by].phase = "wait" /\ lost = 0
    BY <1>1, <2>1 DEF VscRest, VscChannel, VscPage
  <2>3. /\ Vsc!Command = Vsc!Step(page.by).reg /\ page.arg = Vsc!Argument(page.by)
        /\ run[page.by].todo # <<>> /\ Vsc!Step(page.by).do = "command"
    BY <1>1, <1>2, <2>2, UnderWay DEF VscRest
  <2>4. ~Behind(run[u]) \/ u = page.by
    BY <1>2, <2>2, McuOthers
  <2>5. Vsc!Step(u).do # "fetch"
    BY <2>1, <2>3, <2>4, StepBehind DEF Outside
  <2>6. ASSUME run[u].phase = "wait" PROVE a = <<Vsc!Step(u).reg, Vsc!Step(u).val>>
    <3>1. u = page.by
      BY <2>4, <2>6, AtCommand
    <3>2. Vsc!Step(u).reg \notin {"get_info", "uart_status", "log_dump", "commit", "run"}
      BY <2>1 DEF Answered, Polled, Updates
    <3>3. a = <<Vsc!Command, page.arg>>
      BY <1>3, <2>3, <3>1, <3>2 DEF Vsc!Answers
    <3>4. Vsc!Argument(u) = Vsc!Step(u).val
      BY <3>2 DEF Vsc!Argument
    <3> QED BY <2>3, <3>1, <3>3, <3>4
  <2> QED BY <2>5, <2>6
<1>9. VscCalls'
  BY <1>1, <1>2, <1>4 DEF VscRest, VscCalls
<1>10. VscReset'
  <2>1. SUFFICES ASSUME lost = 0 PROVE VscReset'
    BY <1>1 DEF VscReset
  <2>2. \A u \in Threads : \A s : Activating(u, s) => Activating(u, s)'
    BY <1>2, <1>5 DEF Activating
  <2>3. ASSUME NEW s, Excused(s), Vsc!Command # "run" \/ s \notin DOMAIN page.arg PROVE Excused(s)'
    BY <1>1, <2>2, <2>3 DEF Excused
  <2>4. Vsc!Command \in {page.op, "other"}
    BY DEF Vsc!Command
  <2>5. fw \in Firmwares /\ Vsc!Possible
    BY DEF VscBase, VscTyped, Vsc!McuRuns
  <2>6. Vsc!Command = "run" => fw'.next = [s \in Sides |-> IF s \in DOMAIN page.arg THEN "active" ELSE fw.next[s]]
    BY <1>1, <2>5 DEF Vsc!Effect, Vsc!RunSides, Firmwares
  <2>7. Vsc!Command = "commit" => fw'.next = [s \in Sides |-> IF s \in DOMAIN page.arg THEN "inactive" ELSE fw.next[s]]
    BY <1>1, <2>5 DEF Vsc!Effect, Firmwares
  <2>8. Vsc!Command \notin {"commit", "run"} => fw'.next = fw.next
    <3>1. CASE Vsc!Command = "start"
      BY <1>1, <2>5, <3>1 DEF Vsc!Effect, Firmwares
    <3>2. CASE Vsc!Command = "xfer"
      BY <1>1, <2>5, <3>2 DEF Vsc!Effect, Firmwares
    <3>3. CASE Vsc!Command = "complete"
      BY <1>1, <2>5, <3>3 DEF Vsc!Effect, Firmwares
    <3>4. CASE Vsc!Command = "uart"
      BY <1>1, <2>5, <3>4 DEF Vsc!Effect, Firmwares
    <3>5. CASE Vsc!Command \notin {"start", "xfer", "complete", "uart", "commit", "run"}
      BY <1>1, <3>5 DEF Vsc!Effect
    <3> QED BY <3>1, <3>2, <3>3, <3>4, <3>5
  <2>9. /\ \A s \in Sides : fw.next[s] = "inactive" => Excused(s)
        /\ page.op = "commit" => \A s \in DOMAIN page.arg : Excused(s)
    BY <2>1 DEF VscRest, VscReset
  <2>10. ASSUME NEW s \in Sides, fw'.next[s] = "inactive" PROVE Excused(s)'
    <3>1. CASE Vsc!Command = "run"
      <4>1. s \notin DOMAIN page.arg /\ fw.next[s] = "inactive"
        BY <2>6, <2>10, <3>1
      <4> QED BY <2>3, <2>9, <4>1
    <3>2. CASE Vsc!Command = "commit"
      <4>1. page.op = "commit" /\ (s \in DOMAIN page.arg \/ fw.next[s] = "inactive")
        BY <2>4, <2>7, <2>10, <3>2
      <4> QED BY <2>3, <2>9, <3>2, <4>1
    <3>3. CASE Vsc!Command \notin {"commit", "run"}
      BY <2>3, <2>8, <2>9, <2>10, <3>3
    <3> QED BY <3>1, <3>2, <3>3
  <2>11. page'.op = "commit" => \A s \in DOMAIN page'.arg : Excused(s)'
    BY <1>4, <2>3, <2>4, <2>9
  <2>12. ASSUME NEW u \in Threads, run'[u].phase = "wait", Vsc!Step(u)'.reg = "run", NEW s \in DOMAIN page'.arg
         PROVE  fw'.next[s] # "inactive"
    <3>1. Vsc!Command = "run"
      BY <1>1, <1>2, <1>5, <2>1, <2>12, UnderWay DEF VscRest
    <3>2. page.arg \in Vals
      BY DEF VscBase, VscTyped, Pages
    <3>3. s \in Sides /\ s \in DOMAIN page.arg
      BY <1>4, <2>12, <3>2, Arguments
    <3> QED BY <2>6, <3>1, <3>3
  <2> QED BY <1>4, <2>10, <2>11, <2>12 DEF VscReset
<1> QED BY <1>6, <1>7, <1>8, <1>9, <1>10 DEF VscRest

(* or refuses it; *)
LEMMA RefusesRest == ASSUME VscBase, VscRest, Vsc!McuRefuses PROVE VscRest'
<1>1. /\ page.opcode # "none" /\ ran' = Vsc!Noted(ran \cup {page.by})
      /\ UNCHANGED <<mcu, family, holder, fw, run, lost, good, left, calls>>
  BY DEF Vsc!McuRefuses, Vsc!None
<1>2. /\ page.by \in Threads /\ page'.opcode = "none" /\ page'.op = page.op /\ page'.arg = page.arg /\ page'.status # "ok"
  BY McuRefusesStep
<1>3. \A u \in Threads : Vsc!Step(u)' = Vsc!Step(u) /\ Vsc!Argument(u)' = Vsc!Argument(u)
  BY <1>1 DEF Vsc!Step, Vsc!Argument
<1>4. VscChannel'
  <2>1. SUFFICES ASSUME mcu = "timely" PROVE VscChannel'
    BY <1>1 DEF VscChannel
  <2>2. /\ family = "firmware" => ran = {} /\ good = {}
        /\ run[page.by].phase = "wait" /\ page.by \notin ran \cup good
        /\ \A u \in Threads : /\ run[u].phase = "opcode" => u \notin ran \cup good
                              /\ run[u].phase = "wait" => u \notin good
    BY <1>1, <2>1 DEF VscRest, VscChannel
  <2>3. \A u \in Threads : run[u].phase # "next" => u = page.by
    BY <1>2, <2>2, McuOthers
  <2>4. (family = "firmware" => ran' = {}) /\ (family # "firmware" => ran' = ran \cup {page.by})
    BY <1>1, <2>2 DEF Vsc!Noted
  <2>5. \A u \in Threads : run[u].phase = "opcode" => u \notin ran' \cup good
    BY <1>2, <2>2, <2>3
  <2>6. \A u \in Threads : run[u].phase = "wait" => u \notin good /\ (family # "firmware" => u \in ran')
    BY <1>1, <1>2, <2>2, <2>3, <2>4
  <2> QED BY <1>1, <1>2, <2>2, <2>4, <2>5, <2>6 DEF VscChannel
<1>5. VscPage'
  BY <1>1, <1>2, <1>3 DEF VscRest, VscPage
<1>6. VscAnswer'
  <2>1. SUFFICES ASSUME mcu = "timely", NEW u \in Threads, run[u].todo # <<>> PROVE Vsc!Step(u).do # "fetch"
    BY <1>1, <1>2, <1>3 DEF VscAnswer
  <2>2. run[page.by].phase = "wait"
    BY <1>1, <2>1 DEF VscRest, VscChannel
  <2>3. Vsc!Step(page.by).do = "command" /\ (u = page.by \/ ~Behind(run[u]))
    BY <1>2, <2>2, AtCommand, McuOthers
  <2> QED BY <2>1, <2>3, StepBehind DEF Outside
<1>7. VscCalls'
  BY <1>1, <1>2 DEF VscRest, VscCalls
<1>8. VscReset'
  <2>1. \A s : Excused(s) => Excused(s)'
    BY <1>1, <1>3 DEF Excused, Activating
  <2> QED BY <1>1, <1>2, <2>1 DEF VscRest, VscReset
<1> QED BY <1>4, <1>5, <1>6, <1>7, <1>8 DEF VscRest

(* and it finishes its copying. *)
LEMMA CopiedRest == ASSUME VscBase, VscRest, Vsc!McuCopied PROVE VscRest'
<1>1. UNCHANGED <<mcu, family, holder, page, run, lost, ran, good, left, calls>> /\ fw'.next = fw.next
  BY McuCopiedStep DEF Vsc!McuCopied
<1>2. \A u \in Threads : Vsc!Step(u)' = Vsc!Step(u) /\ Vsc!Argument(u)' = Vsc!Argument(u)
  BY <1>1 DEF Vsc!Step, Vsc!Argument
<1>3. VscChannel'
  BY <1>1 DEF VscRest, VscChannel
<1>4. VscPage'
  BY <1>1, <1>2 DEF VscRest, VscPage
<1>5. VscAnswer'
  BY <1>1, <1>2 DEF VscRest, VscAnswer
<1>6. VscCalls'
  BY <1>1 DEF VscRest, VscCalls
<1>7. VscReset'
  <2>1. \A s : Excused(s) => Excused(s)'
    BY <1>1, <1>2 DEF Excused, Activating
  <2> QED BY <1>1, <1>2, <2>1 DEF VscRest, VscReset
<1> QED BY <1>3, <1>4, <1>5, <1>6, <1>7 DEF VscRest

-------------------------------------------------------------------------------
(* The invariant of the vendor commands. *)
VscInv == VscBase /\ VscRest

LEMMA VscInit == ASSUME Vsc!Init PROVE VscInv
<1>1. /\ mcu \in {"timely", "late", "lossy"} /\ family \in {"chip", "diagnostics", "firmware"} /\ holder = Nobody
      /\ page = Vsc!Blank /\ fw = Vsc!Fw /\ run = [t \in Threads |-> Vsc!Idle]
      /\ lost = 0 /\ ran = {} /\ good = {} /\ calls = [t \in Threads |-> 0] /\ left = {}
  BY DEF Vsc!Init
<1>2. Vsc!Fw \in Firmwares /\ Vsc!Fw.next = [s \in Sides |-> "active"]
  BY DEF Vsc!Fw, Firmwares, Vsc!All, Vsc!Images, Vsc!Stages
<1>3. \A t \in Threads : /\ run[t] = Vsc!Returned("nothing") /\ run[t] \in Runs /\ InOrder(run[t]) /\ ~Behind(run[t])
                         /\ run[t].phase = "next" /\ run[t].todo = <<>> /\ run[t].goal.kind = "nothing"
  BY <1>1, IdleRun, EndedRun
<1>4. run \in [Threads -> Runs]
  BY <1>1, IdleType
<1>5. 0 \in 0..MaxLost /\ 0 \in 0..MaxCalls
  BY PartsAssumption DEF Vsc!VscAssumption
<1>6. calls \in [Threads -> 0..MaxCalls]
  BY <1>1, <1>5
<1>7. VscTyped
  BY <1>1, <1>2, <1>4, <1>5, <1>6, BlankPage DEF VscTyped
<1>8. VscOrderly
  BY <1>3 DEF VscOrderly
<1>9. page.opcode = "none" /\ page.op = "none"
  BY <1>1 DEF Vsc!Blank, Vsc!None
<1>10. VscChannel
  BY <1>1, <1>3, <1>9 DEF VscChannel
<1>11. VscPage
  BY <1>1, <1>3 DEF VscPage
<1>12. VscAnswer
  BY <1>3 DEF VscAnswer
<1>13. VscCalls
  BY <1>3, <1>9 DEF VscCalls
<1>14. VscReset
  <2>1. \A s \in Sides : fw.next[s] # "inactive"
    BY <1>1, <1>2
  <2> QED BY <1>3, <1>9, <2>1 DEF VscReset
<1> QED BY <1>7, <1>8, <1>10, <1>11, <1>12, <1>13, <1>14 DEF VscInv, VscBase, VscRest

LEMMA BetweenRest == ASSUME VscBase, VscRest, NEW t \in Threads, Between(t) PROVE VscRest'
BY BetweenChannel, BetweenPage, BetweenAnswer, BetweenCalls, BetweenReset DEF VscRest

(* The steps, by what they do to a command. *)
LEMMA VscSteps ==
    ASSUME Vsc!Next
    PROVE  \/ \E t \in Threads :
                 ThreadBetween(t) \/ Vsc!WriteAttributes(t) \/ Vsc!WriteOpcode(t) \/ EndsCommand(t)
           \/ Vsc!McuRuns \/ Vsc!McuRefuses \/ Vsc!McuCopied
BY DEF Vsc!Next, ThreadBetween, EndsCommand

LEMMA VscNext == ASSUME VscInv, Vsc!Next PROVE VscInv'
<1>1. VscBase /\ VscRest
  BY DEF VscInv
<1>2. ASSUME NEW t \in Threads, ThreadBetween(t) PROVE VscBase' /\ VscRest'
  BY <1>1, <1>2, BetweenSteps, BetweenRest
<1>3. ASSUME NEW t \in Threads, Vsc!WriteAttributes(t) PROVE VscBase' /\ VscRest'
  BY <1>1, <1>3, WriteAttributesStep, AttributesRest
<1>4. ASSUME NEW t \in Threads, Vsc!WriteOpcode(t) PROVE VscBase' /\ VscRest'
  BY <1>1, <1>4, WriteOpcodeStep, OpcodeRest
<1>5. ASSUME NEW t \in Threads, EndsCommand(t) PROVE VscBase' /\ VscRest'
  <2>1. VscBase'
    BY <1>1, <1>5, ReadStatusStep DEF EndsCommand
  <2> QED BY <1>1, <1>5, <2>1, EndRest
<1>6. ASSUME Vsc!McuRuns PROVE VscBase' /\ VscRest'
  BY <1>1, <1>6, McuRunsStep, RunsRest
<1>7. ASSUME Vsc!McuRefuses PROVE VscBase' /\ VscRest'
  BY <1>1, <1>7, McuRefusesStep, RefusesRest
<1>8. ASSUME Vsc!McuCopied PROVE VscBase' /\ VscRest'
  BY <1>1, <1>8, McuCopiedStep, CopiedRest
<1> QED BY <1>2, <1>3, <1>4, <1>5, <1>6, <1>7, <1>8, VscSteps DEF VscInv

LEMMA VscStutter == ASSUME VscInv, UNCHANGED <<family, holder, run, ofVsc>> PROVE VscInv'
<1>1. UNCHANGED <<family, holder, run, mcu, page, fw, lost, ran, good, calls, left>>
  BY DEF ofVsc
<1>2. \A u \in Threads : Vsc!Step(u)' = Vsc!Step(u) /\ Vsc!Argument(u)' = Vsc!Argument(u)
  BY <1>1 DEF Vsc!Step, Vsc!Argument
<1>3. VscBase'
  BY <1>1 DEF VscInv, VscBase, VscTyped, VscOrderly
<1>4. VscChannel' /\ VscCalls'
  BY <1>1 DEF VscInv, VscRest, VscChannel, VscCalls
<1>5. VscPage'
  BY <1>1, <1>2 DEF VscInv, VscRest, VscPage
<1>6. VscAnswer'
  BY <1>1, <1>2 DEF VscInv, VscRest, VscAnswer
<1>7. VscReset'
  <2>1. \A s : Excused(s) => Excused(s)'
    BY <1>1, <1>2 DEF Excused, Activating
  <2> QED BY <1>1, <1>2, <2>1 DEF VscInv, VscRest, VscReset
<1> QED BY <1>3, <1>4, <1>5, <1>6, <1>7 DEF VscInv, VscRest

-------------------------------------------------------------------------------
(* What the properties of the vendor commands need of it. *)
LEMMA VscTypes == ASSUME VscInv PROVE Vsc!TypeOK
<1>1. VscTyped /\ VscOrderly
  BY DEF VscInv, VscBase
<1>2. page \in Pages /\ page.by \in Threads \cup {Nobody} /\ page.status \in {"ok", "error", "uart timeout"}
      /\ DOMAIN page = {"op", "arg", "opcode", "by", "status", "answer", "buffer"}
  BY <1>1 DEF VscTyped, Pages
<1>3. fw \in [active : [Sides -> Vsc!Images], inactive : [Sides -> Vsc!Images], next : [Sides -> {"active", "inactive"}],
              chunks : SUBSET (1..Chunks), stage : Vsc!Stages]
  BY <1>1 DEF VscTyped, Firmwares
<1>4. ASSUME NEW t \in Threads
      PROVE  /\ DOMAIN run[t] = DOMAIN Vsc!Idle
             /\ run[t].phase \in {"next", "opcode", "wait"} /\ run[t].found \subseteq Sides
             /\ run[t].tries \in 0..Retries \cup 0..Cycles /\ run[t].alone \in BOOLEAN /\ run[t].blind \in BOOLEAN
             /\ run[t].returned \in {"nothing", "ok", "error"}
             /\ run[t].todo = <<>> => run[t] = Vsc!Returned(run[t].returned)
  <2>1. run[t] \in Runs /\ InOrder(run[t])
    BY <1>1 DEF VscTyped, VscOrderly
  <2>2. DOMAIN run[t] = DOMAIN Vsc!Idle
    BY <2>1 DEF Runs, Vsc!Idle
  <2>3. run[t].tries \in 0..Retries \cup 0..Cycles /\ (run[t].todo = <<>> => run[t] = Vsc!Returned(run[t].returned))
    BY <2>1 DEF InOrder
  <2> QED BY <2>1, <2>2, <2>3 DEF Runs
<1> QED BY <1>1, <1>2, <1>3, <1>4 DEF Vsc!TypeOK, VscTyped

LEMMA VscAnswered == ASSUME VscInv PROVE Vsc!AnswerStep
<1>1. SUFFICES ASSUME NEW t \in Threads, run[t].todo # <<>>, Vsc!Step(t).do = "fetch", t \in good, mcu = "timely",
                      Vsc!Step(t).reg # "get_info"
               PROVE  page.answer = <<Vsc!Step(t).reg, Vsc!Step(t).val>>
  BY DEF Vsc!AnswerStep, Vsc!Doing
<1>2. Vsc!Step(t).reg \in Answered
  <2>1. Vsc!Step(t) \in Steps
    BY <1>1, VscStepOf DEF VscInv
  <2> QED BY <1>1, <2>1 DEF Steps, Answered
<1> QED BY <1>1, <1>2 DEF VscInv, VscRest, VscAnswer

LEMMA VscResets == ASSUME VscInv, Vsc!Next PROVE Vsc!ResetStep
<1>1. SUFFICES ASSUME NEW s \in Sides, fw'.active[s] # fw.active[s], run[page.by].goal.kind = "reset", s \notin left,
                      ~(lost > 0)
               PROVE  FALSE
  BY DEF Vsc!ResetStep
<1>2. lost = 0 /\ fw \in Firmwares
  BY <1>1, PartsAssumption DEF VscInv, VscBase, VscTyped, Vsc!VscAssumption
<1>3. Vsc!McuRuns
  <2>1. fw' # fw
    BY <1>1
  <2>2. ~Vsc!McuCopied
    BY <1>1, McuCopiedStep DEF VscInv
  <2>3. ~Vsc!McuRefuses
    BY <2>1 DEF Vsc!McuRefuses
  <2>4. ASSUME NEW t \in Threads
        PROVE  ~ThreadBetween(t) /\ ~Vsc!WriteAttributes(t) /\ ~Vsc!WriteOpcode(t) /\ ~EndsCommand(t)
    BY <2>1, BetweenSteps, EndOthers DEF VscInv, Between, Vsc!WriteAttributes, Vsc!WriteOpcode
  <2> QED BY <2>2, <2>3, <2>4, VscSteps
<1>4. Vsc!Command = "run"
  <2>1. fw' = Vsc!Effect
    BY <1>3 DEF Vsc!McuRuns
  <2>2. CASE Vsc!Command = "start"
    BY <1>1, <1>2, <2>1, <2>2 DEF Vsc!Effect, Firmwares
  <2>3. CASE Vsc!Command = "xfer"
    BY <1>1, <1>2, <2>1, <2>3 DEF Vsc!Effect, Firmwares
  <2>4. CASE Vsc!Command = "complete"
    BY <1>1, <1>2, <2>1, <2>4 DEF Vsc!Effect, Firmwares
  <2>5. CASE Vsc!Command = "uart"
    BY <1>1, <1>2, <2>1, <2>5 DEF Vsc!Effect, Firmwares
  <2>6. CASE Vsc!Command = "commit"
    BY <1>1, <1>2, <2>1, <2>6 DEF Vsc!Effect, Firmwares
  <2>7. CASE Vsc!Command \notin {"start", "xfer", "complete", "uart", "commit", "run"}
    BY <1>1, <2>1, <2>7 DEF Vsc!Effect
  <2> QED BY <2>2, <2>3, <2>4, <2>5, <2>6, <2>7
<1>5. fw.next[s] = "inactive"
  <2>1. fw' = Vsc!RunSides(DOMAIN page.arg)
    BY <1>3, <1>4 DEF Vsc!McuRuns, Vsc!Effect
  <2> QED BY <1>1, <1>2, <2>1 DEF Vsc!RunSides, Firmwares
<1>6. Excused(s)
  BY <1>2, <1>5 DEF VscInv, VscRest, VscReset
<1>7. PICK t \in Threads : Activating(t, s)
  BY <1>1, <1>6 DEF Excused
<1>8. page.opcode # "none" /\ page.by \in Threads /\ run[page.by].phase = "wait"
  BY <1>1, <1>2, <1>3, McuRunsStep DEF VscInv, VscRest, VscReset
<1>9. Behind(run[page.by]) /\ Behind(run[t])
  <2>1. Behind(run[page.by])
    BY <1>8, AtCommand DEF VscInv
  <2>2. run[t].todo # <<>> /\ Vsc!Step(t).do = "command"
    BY <1>7 DEF Activating, IsAct
  <2> QED BY <2>1, <2>2, StepBehind DEF VscInv, Outside
<1>10. t = page.by
  BY <1>8, <1>9, BehindAlone DEF VscInv
<1> QED BY <1>1, <1>7, <1>10 DEF Activating

-------------------------------------------------------------------------------
(* What a successful call tells about firmware.  The commands that a call    *)
(* has left say how far it is: once "complete" is behind, the own side has   *)
(* the image; once "uart" is, the others have it or are being copied to; and *)
(* so on.                                                                    *)
Key(a) == IF a.do = "command" THEN a.reg ELSE IF a.do = "more" THEN "more" ELSE "none"
Ahead(s, k) == \E a \in Elems(s) : Key(a) = k
Awaits(s, X, k) == \A i \in 1..Len(s) : Key(s[i]) \in X => \E j \in 1..Len(s) : i < j /\ Key(s[j]) = k
Once(s) == \A i, j \in 1..Len(s) : i < j /\ Key(s[i]) = "run" => ~IsAct(s[j])

(* The steps of a download, which goes on to the last of them whatever it    *)
(* repeats, *)
Downloads(a) ==
    /\ a.do \in {"lock", "unlock", "load", "command", "more"}
    /\ a.do = "command" => a.reg \in {"start", "xfer", "complete", "uart", "uart_status"}
    /\ a.do = "command" /\ a.reg # "xfer" => a.val = <<>>
    /\ a.fails = "ignore" => Key(a) = "uart_status"
    /\ a.do = "more" => a.reg = "uart_status"
Downloading(s) ==
    /\ \A a \in Elems(s) : Downloads(a)
    /\ Awaits(s, {"start", "xfer"}, "complete")
    /\ Awaits(s, {"start", "xfer", "complete"}, "uart")
    /\ Awaits(s, {"start", "xfer", "complete", "uart", "uart_status"}, "more")

(* and those of an activation from a file, which runs the sides last.        *)
Installs(a) ==
    /\ a.do # "more" /\ a.fails = "stop"
    /\ a.do = "command" => a.reg \in {"get_info", "commit", "run"}
    /\ a.do = "fetch" => a.reg = "get_info"
Activates(s) == Once(s) /\ \A a \in Elems(s) : Installs(a)

LEMMA AheadRest ==
    ASSUME NEW s \in Seq(Steps), s # <<>>
    PROVE  \A k : Ahead(s, k) <=> Key(Head(s)) = k \/ Ahead(Tail(s), k)
<1>1. Elems(s) = {Head(s)} \cup Elems(Tail(s))
  BY TailOf
<1> QED BY <1>1 DEF Ahead

LEMMA AheadConcat ==
    ASSUME NEW s \in Seq(Steps), NEW t \in Seq(Steps)
    PROVE  \A k : Ahead(s \o t, k) <=> Ahead(s, k) \/ Ahead(t, k)
<1>1. Elems(s \o t) = Elems(s) \cup Elems(t)
  BY ConcatOf
<1> QED BY <1>1 DEF Ahead

LEMMA AwaitsRest ==
    ASSUME NEW s \in Seq(Steps), s # <<>>, NEW X, NEW k, Awaits(s, X, k)
    PROVE  Awaits(Tail(s), X, k) /\ (Key(Head(s)) \in X => Ahead(Tail(s), k))
<1> DEFINE T == Tail(s) n == Len(s)
<1>1. Head(s) = s[1] /\ n \in Nat \ {0} /\ Len(T) = n - 1 /\ \A i \in 1..Len(T) : T[i] = s[i + 1]
  BY TailOf
<1> HIDE DEF T, n
<1>2. ASSUME NEW i \in 1..n, Key(s[i]) \in X PROVE \E j \in 1..n : i < j /\ Key(s[j]) = k
  BY <1>2 DEF Awaits, n
<1>3. \A j \in 1..n : j > 1 => j - 1 \in 1..Len(T) /\ T[j - 1] = s[j]
  <2> TAKE j \in 1..n
  <2>1. SUFFICES ASSUME j > 1 PROVE j - 1 \in 1..Len(T) /\ T[j - 1] = s[j]
    OBVIOUS
  <2>2. PICK m \in Nat : m = j - 1
    BY <2>1, <1>1
  <2>3. m \in 1..Len(T) /\ m + 1 = j
    BY <2>1, <2>2, <1>1
  <2> QED BY <2>2, <2>3, <1>1
<1>4. ASSUME NEW i \in 1..Len(T), Key(T[i]) \in X PROVE \E j \in 1..Len(T) : i < j /\ Key(T[j]) = k
  <2>1. i + 1 \in 1..n /\ T[i] = s[i + 1] /\ i \in Nat
    BY <1>1
  <2>2. PICK j \in 1..n : i + 1 < j /\ Key(s[j]) = k
    BY <2>1, <1>2, <1>4
  <2>3. j > 1 /\ i < j - 1
    BY <2>1, <2>2, <1>1
  <2> QED BY <2>2, <2>3, <1>3
<1>5. ASSUME Key(Head(s)) \in X PROVE Ahead(T, k)
  <2>1. PICK j \in 1..n : 1 < j /\ Key(s[j]) = k
    BY <1>1, <1>2, <1>5
  <2>2. j - 1 \in 1..Len(T) /\ Key(T[j - 1]) = k
    BY <2>1, <1>3
  <2>3. T[j - 1] \in Elems(T)
    BY <2>2 DEF Elems
  <2> QED BY <2>2, <2>3 DEF Ahead
<1> QED BY <1>4, <1>5 DEF Awaits, T

LEMMA AwaitsNone ==
    ASSUME NEW s, NEW X, NEW k, Awaits(s, X, k), NEW x \in X, Ahead(s, x) PROVE Ahead(s, k)
BY DEF Awaits, Ahead, Elems

(* Nothing of a program waits, or what it waits for comes after it.          *)
LEMMA AwaitsNothing ==
    ASSUME NEW s, NEW X, NEW k, \A a \in Elems(s) : Key(a) \notin X PROVE Awaits(s, X, k)
BY DEF Awaits, Elems

LEMMA AwaitsConcat ==
    ASSUME NEW s \in Seq(Steps), NEW t \in Seq(Steps), NEW X, NEW k, Awaits(s, X, k) \/ Ahead(t, k), Awaits(t, X, k)
    PROVE  Awaits(s \o t, X, k)
<1> DEFINE u == s \o t m == Len(s) n == Len(t)
<1>1. /\ Len(u) = m + n /\ m \in Nat /\ n \in Nat
      /\ \A i \in 1..m : u[i] = s[i]
  BY ConcatOf
<1>2. \A i \in 1..n : u[m + i] = t[i]
  BY ConcatOf
<1>3. \A i \in 1..m : Awaits(s, X, k) /\ Key(s[i]) \in X => \E j \in 1..m : i < j /\ Key(s[j]) = k
  BY DEF Awaits
<1>4. \A i \in 1..n : Key(t[i]) \in X => \E j \in 1..n : i < j /\ Key(t[j]) = k
  BY DEF Awaits
<1>5. Ahead(t, k) => \E j \in 1..n : Key(t[j]) = k
  BY DEF Ahead, Elems
<1> HIDE DEF u, m, n
<1>6. ASSUME NEW i \in 1..Len(u), Key(u[i]) \in X PROVE \E j \in 1..Len(u) : i < j /\ Key(u[j]) = k
  <2>1. \A j \in 1..n : m + j \in 1..Len(u)
    BY <1>1
  <2>2. CASE i \in 1..m
    <3>1. CASE Ahead(t, k)
      <4>1. PICK j \in 1..n : Key(t[j]) = k
        BY <3>1, <1>5
      <4>2. i < m + j /\ u[m + j] = t[j]
        BY <2>2, <1>1, <1>2
      <4> QED BY <2>1, <4>1, <4>2
    <3>2. CASE Awaits(s, X, k)
      <4>1. PICK j \in 1..m : i < j /\ Key(s[j]) = k
        BY <2>2, <3>2, <1>1, <1>3, <1>6
      <4>2. j \in 1..Len(u) /\ u[j] = s[j]
        BY <1>1
      <4> QED BY <4>1, <4>2
    <3> QED BY <3>1, <3>2
  <2>3. CASE i \notin 1..m
    <3>1. PICK h \in 1..n : i = m + h
      <4>1. i - m \in 1..n /\ i = m + (i - m)
        BY <2>3, <1>1
      <4> QED BY <4>1
    <3>2. PICK j \in 1..n : h < j /\ Key(t[j]) = k
      BY <3>1, <1>2, <1>4, <1>6
    <3>3. i < m + j
      BY <3>1, <3>2, <1>1
    <3> QED BY <2>1, <3>2, <3>3, <1>2
  <2> QED BY <2>2, <2>3
<1> QED BY <1>6 DEF Awaits, u

LEMMA OnceRest ==
    ASSUME NEW s \in Seq(Steps), s # <<>>, Once(s)
    PROVE  Once(Tail(s)) /\ (Key(Head(s)) = "run" => ~Ahead(Tail(s), "commit") /\ ~Ahead(Tail(s), "run"))
<1> DEFINE T == Tail(s) n == Len(s)
<1>1. Head(s) = s[1] /\ n \in Nat \ {0} /\ Len(T) = n - 1 /\ \A i \in 1..Len(T) : T[i] = s[i + 1]
  BY TailOf
<1> HIDE DEF T, n
<1>2. \A i, j \in 1..n : i < j /\ Key(s[i]) = "run" => ~IsAct(s[j])
  BY DEF Once, n
<1>3. ASSUME NEW i \in 1..Len(T), NEW j \in 1..Len(T), i < j, Key(T[i]) = "run" PROVE ~IsAct(T[j])
  <2>1. i + 1 \in 1..n /\ j + 1 \in 1..n /\ i + 1 < j + 1 /\ T[i] = s[i + 1] /\ T[j] = s[j + 1]
    BY <1>1, <1>3
  <2> QED BY <2>1, <1>2, <1>3
<1>4. ASSUME Key(Head(s)) = "run", NEW a \in Elems(T) PROVE ~IsAct(a)
  <2>1. PICK i \in 1..Len(T) : a = T[i]
    BY DEF Elems
  <2>2. 1 \in 1..n /\ i + 1 \in 1..n /\ 1 < i + 1 /\ a = s[i + 1]
    BY <2>1, <1>1
  <2> QED BY <2>2, <1>1, <1>2, <1>4
<1>5. \A a : Key(a) \in {"commit", "run"} => IsAct(a)
  BY DEF Key, IsAct
<1> QED BY <1>3, <1>4, <1>5 DEF Once, Ahead, T

LEMMA OnceConcat ==
    ASSUME NEW s \in Seq(Steps), NEW t \in Seq(Steps), Once(s), Once(t), ~Ahead(s, "run") \/ \A a \in Elems(t) : ~IsAct(a)
    PROVE  Once(s \o t)
<1> DEFINE u == s \o t m == Len(s) n == Len(t)
<1>1. /\ Len(u) = m + n /\ m \in Nat /\ n \in Nat
      /\ \A i \in 1..m : u[i] = s[i]
  BY ConcatOf
<1>2. \A i \in 1..n : u[m + i] = t[i]
  BY ConcatOf
<1>3. \A i, j \in 1..m : i < j /\ Key(s[i]) = "run" => ~IsAct(s[j])
  BY DEF Once
<1>4. \A i, j \in 1..n : i < j /\ Key(t[i]) = "run" => ~IsAct(t[j])
  BY DEF Once
<1>5. (\A i \in 1..m : Key(s[i]) # "run") \/ (\A j \in 1..n : ~IsAct(t[j]))
  BY DEF Ahead, Elems
<1> HIDE DEF u, m, n
<1>6. ASSUME NEW i \in 1..Len(u) PROVE i \in 1..m \/ \E h \in 1..n : i = m + h
  <2>1. CASE i > m
    <3>1. i - m \in 1..n /\ i = m + (i - m)
      BY <2>1, <1>1
    <3> QED BY <3>1
  <2> QED BY <2>1, <1>1
<1>7. ASSUME NEW i \in 1..Len(u), NEW j \in 1..Len(u), i < j, Key(u[i]) = "run" PROVE ~IsAct(u[j])
  <2>1. CASE i \in 1..m /\ j \in 1..m
    BY <2>1, <1>1, <1>3, <1>7
  <2>2. CASE i \in 1..m /\ \E h \in 1..n : j = m + h
    BY <2>2, <1>1, <1>2, <1>5, <1>7
  <2>3. CASE \E h \in 1..n : i = m + h
    <3>1. PICK h \in 1..n : i = m + h
      BY <2>3
    <3>2. PICK l \in 1..n : j = m + l
      BY <3>1, <1>1, <1>6, <1>7
    <3>3. h < l
      BY <3>1, <3>2, <1>1, <1>7
    <3> QED BY <3>1, <3>2, <3>3, <1>2, <1>4, <1>7
  <2> QED BY <2>1, <2>2, <2>3, <1>6
<1> QED BY <1>7 DEF Once, u

(* A section under the lock keeps what its body has. *)
LEMMA AwaitsSection ==
    ASSUME NEW b, Body(b), NEW X, NEW k, Awaits(b, X, k), "none" \notin X PROVE Awaits(Vsc!Section(b), X, k)
<1> DEFINE l == <<Vsc!Lock>> u == <<Vsc!Unlock>>
<1>1. l \in Seq(Steps) /\ u \in Seq(Steps) /\ Elems(l) = {Vsc!Lock} /\ Elems(u) = {Vsc!Unlock} /\ b \in Seq(Steps)
  BY LockSteps, VscOneStep DEF Body
<1>2. Awaits(l, X, k) /\ Awaits(u, X, k)
  BY <1>1, LockSteps, AwaitsNothing DEF Key
<1> HIDE DEF l, u
<1>3. l \o b \in Seq(Steps)
  BY <1>1, ConcatOf
<1>4. Awaits(l \o b, X, k)
  BY <1>1, <1>2, AwaitsConcat
<1>5. Awaits((l \o b) \o u, X, k)
  BY <1>1, <1>2, <1>3, <1>4, AwaitsConcat
<1> QED BY <1>5 DEF Vsc!Section, l, u

LEMMA OnceNothing == ASSUME NEW s, ~Ahead(s, "run") PROVE Once(s)
BY DEF Once, Ahead, Elems

LEMMA OnceSection == ASSUME NEW b, Body(b), Once(b) PROVE Once(Vsc!Section(b))
<1> DEFINE l == <<Vsc!Lock>> u == <<Vsc!Unlock>>
<1>1. l \in Seq(Steps) /\ u \in Seq(Steps) /\ Elems(l) = {Vsc!Lock} /\ Elems(u) = {Vsc!Unlock} /\ b \in Seq(Steps)
  BY LockSteps, VscOneStep DEF Body
<1>2. ~Ahead(l, "run") /\ \A a \in Elems(u) : ~IsAct(a)
  BY <1>1, LockSteps DEF Ahead, Key, IsAct
<1>3. Once(l) /\ Once(u)
  BY <1>1, <1>2, LockSteps, OnceNothing DEF Ahead, Key
<1> HIDE DEF l, u
<1>4. l \o b \in Seq(Steps)
  BY <1>1, ConcatOf
<1>5. Once(l \o b)
  BY <1>1, <1>2, <1>3, OnceConcat
<1>6. Once((l \o b) \o u)
  BY <1>1, <1>2, <1>3, <1>4, <1>5, OnceConcat
<1> QED BY <1>6 DEF Vsc!Section, l, u

(* What is left of a download, and what is repeated. *)
LEMMA DownloadingRest ==
    ASSUME NEW s \in Seq(Steps), s # <<>>, Downloading(s)
    PROVE  /\ Downloading(Tail(s)) /\ Downloads(Head(s))
           /\ Key(Head(s)) \in {"start", "xfer"} => Ahead(Tail(s), "complete")
           /\ Key(Head(s)) \in {"start", "xfer", "complete"} => Ahead(Tail(s), "uart")
           /\ Key(Head(s)) \in {"start", "xfer", "complete", "uart", "uart_status"} => Ahead(Tail(s), "more")
           /\ Ahead(s, "start") => Ahead(s, "complete")
           /\ Ahead(s, "complete") => Ahead(s, "uart")
           /\ Ahead(s, "uart") => Ahead(s, "more")
<1>1. Elems(s) = {Head(s)} \cup Elems(Tail(s))
  BY TailOf
<1>2. /\ Awaits(s, {"start", "xfer"}, "complete")
      /\ Awaits(s, {"start", "xfer", "complete"}, "uart")
      /\ Awaits(s, {"start", "xfer", "complete", "uart", "uart_status"}, "more")
  BY DEF Downloading
<1>3. /\ Awaits(Tail(s), {"start", "xfer"}, "complete")
      /\ Key(Head(s)) \in {"start", "xfer"} => Ahead(Tail(s), "complete")
  BY <1>2, AwaitsRest
<1>4. /\ Awaits(Tail(s), {"start", "xfer", "complete"}, "uart")
      /\ Key(Head(s)) \in {"start", "xfer", "complete"} => Ahead(Tail(s), "uart")
  BY <1>2, AwaitsRest
<1>5. /\ Awaits(Tail(s), {"start", "xfer", "complete", "uart", "uart_status"}, "more")
      /\ Key(Head(s)) \in {"start", "xfer", "complete", "uart", "uart_status"} => Ahead(Tail(s), "more")
  BY <1>2, AwaitsRest
<1>6. Ahead(s, "start") => Ahead(s, "complete")
  BY <1>2, AwaitsNone
<1>7. Ahead(s, "complete") => Ahead(s, "uart")
  BY <1>2, AwaitsNone
<1>8. Ahead(s, "uart") => Ahead(s, "more")
  BY <1>2, AwaitsNone
<1> QED BY <1>1, <1>3, <1>4, <1>5, <1>6, <1>7, <1>8 DEF Downloading

LEMMA DownloadingRepeat ==
    ASSUME NEW s \in Seq(Steps), Downloading(s), NEW x \in Steps, Downloads(x),
           Key(x) = "none" \/ (Key(x) = "uart_status" /\ Ahead(s, "more"))
    PROVE  LET p == <<Vsc!Unlock, Vsc!Lock, x>> \o s IN
           Downloading(p) /\ \A k \in {"start", "complete", "uart", "more"} : Ahead(p, k) <=> Ahead(s, k)
<1> DEFINE h == <<Vsc!Unlock, Vsc!Lock, x>> p == h \o s
<1>1. h \in Seq(Steps) /\ Elems(h) = {Vsc!Unlock, Vsc!Lock, x}
  <2>1. h \in Seq(Steps) /\ Len(h) = 3 /\ h[1] = Vsc!Unlock /\ h[2] = Vsc!Lock /\ h[3] = x
    BY LockSteps
  <2> HIDE DEF h
  <2>2. \A i \in 1..3 : i = 1 \/ i = 2 \/ i = 3
    OBVIOUS
  <2> QED BY <2>1, <2>2 DEF Elems
<1> HIDE DEF h
<1>2. \A a \in Elems(h) : Key(a) \in {"none", Key(x)} /\ Downloads(a)
  BY <1>1, LockSteps DEF Key, Downloads
<1>3. Elems(p) = Elems(h) \cup Elems(s)
  BY <1>1, ConcatOf
<1>4. \A k \in {"start", "complete", "uart", "more"} : ~Ahead(h, k)
  BY <1>2 DEF Ahead
<1>5. \A k : Ahead(p, k) <=> Ahead(h, k) \/ Ahead(s, k)
  BY <1>1, AheadConcat
<1>6. Awaits(p, {"start", "xfer"}, "complete")
  <2>1. Awaits(h, {"start", "xfer"}, "complete")
    BY <1>2, AwaitsNothing
  <2> QED BY <1>1, <2>1, AwaitsConcat DEF Downloading
<1>7. Awaits(p, {"start", "xfer", "complete"}, "uart")
  <2>1. Awaits(h, {"start", "xfer", "complete"}, "uart")
    BY <1>2, AwaitsNothing
  <2> QED BY <1>1, <2>1, AwaitsConcat DEF Downloading
<1>8. Awaits(p, {"start", "xfer", "complete", "uart", "uart_status"}, "more")
  <2> DEFINE X == {"start", "xfer", "complete", "uart", "uart_status"}
  <2>1. Awaits(h, X, "more") \/ Ahead(s, "more")
    <3>1. CASE Key(x) = "none"
      BY <3>1, <1>2, AwaitsNothing
    <3> QED BY <3>1
  <2> QED BY <1>1, <2>1, AwaitsConcat DEF Downloading
<1>9. \A a \in Elems(p) : Downloads(a)
  BY <1>2, <1>3 DEF Downloading
<1> HIDE DEF p
<1>10. Downloading(p)
  BY <1>6, <1>7, <1>8, <1>9 DEF Downloading
<1> QED BY <1>4, <1>5, <1>10 DEF p, h

(* The programs of the calls that install firmware. *)
LEMMA DownloadSection ==
    ASSUME NEW op \in {"start", "complete", "uart"}
    PROVE  LET s == Vsc!Section(<<Vsc!Cmd(op, <<>>)>>) IN
           Part(s) /\ Ahead(s, op) /\ \A a \in Elems(s) : Downloads(a) /\ Key(a) \in {"none", op}
<1> DEFINE x == Vsc!Cmd(op, <<>>) b == <<x>> s == Vsc!Section(b)
<1>1. op \in Ops \ {"commit", "run"} /\ <<>> \in Vals
  BY Arguments DEF Ops
<1>2. x \in Steps /\ x.do = "command" /\ x.reg = op /\ x.val = <<>> /\ x.fails = "stop" /\ Body(b)
  BY <1>1, CmdStep, CommandBody
<1> HIDE DEF x
<1>3. Elems(b) = {x}
  BY <1>2, VscOneStep
<1> HIDE DEF b
<1>4. Part(s) /\ Elems(s) = {Vsc!Lock, Vsc!Unlock, x}
  BY <1>2, <1>3, SectionPart
<1> HIDE DEF s
<1>5. Part(s) /\ Ahead(s, op) /\ \A a \in Elems(s) : Downloads(a) /\ Key(a) \in {"none", op}
  BY <1>2, <1>4, LockSteps DEF Ahead, Key, Downloads
<1> QED BY <1>5 DEF s, b, x

LEMMA ToOtherSidesPart ==
    LET s == Vsc!ToOtherSides IN
    /\ Part(s) /\ Ahead(s, "uart") /\ Ahead(s, "more")
    /\ \A a \in Elems(s) : Downloads(a) /\ Key(a) \in {"none", "uart", "uart_status", "more"}
    /\ Awaits(s, {"start", "xfer", "complete", "uart", "uart_status"}, "more")
<1> DEFINE x == Vsc!Cmd("uart_status", <<>>) y == Vsc!Ignoring(x) z == Vsc!More("uart_status") b == <<y, z>>
           c == Vsc!Section(b) u == Vsc!Section(<<Vsc!Cmd("uart", <<>>)>>)
           X == {"start", "xfer", "complete", "uart", "uart_status"}
<1>1. "uart_status" \in Ops \ {"commit", "run"} /\ "uart_status" \in Polled /\ <<>> \in Vals
  BY Arguments DEF Ops, Polled
<1>2. x \in Steps /\ x.do = "command" /\ x.reg = "uart_status" /\ x.val = <<>> /\ x.fails = "stop"
  BY <1>1, CmdStep
<1>3. y \in Steps /\ y.do = "command" /\ y.reg = "uart_status" /\ y.val = <<>>
  <2> HIDE DEF x
  <2> QED BY <1>2, IgnoringStep DEF IsAct
<1>4. z \in Steps /\ z.do = "more" /\ z.reg = "uart_status" /\ z.fails = "stop"
  BY <1>1, MoreStep
<1> HIDE DEF x, y, z
<1>5. Follows(y, z)
  BY <1>3, <1>4 DEF Follows
<1>6. /\ b \in Seq(Steps) /\ b # <<>> /\ Len(b) = 2 /\ b[1] = y /\ b[2] = z /\ Elems(b) = {y, z} /\ Adjacent(b)
  BY <1>3, <1>4, <1>5, VscTwoSteps
<1> HIDE DEF b
<1>7. Body(b)
  BY <1>3, <1>4, <1>6 DEF Body
<1>8. Awaits(b, X, "more")
  <2>1. \A i \in 1..Len(b) : i = 1 \/ i = 2
    BY <1>6
  <2>2. 2 \in 1..Len(b) /\ Key(b[2]) = "more"
    BY <1>4, <1>6 DEF Key
  <2> QED BY <2>1, <2>2 DEF Awaits
<1>9. Part(c) /\ Elems(c) = {Vsc!Lock, Vsc!Unlock, y, z} /\ Awaits(c, X, "more")
  BY <1>6, <1>7, <1>8, SectionPart, AwaitsSection
<1> HIDE DEF c
<1>10. Ahead(c, "more") /\ \A a \in Elems(c) : Downloads(a) /\ Key(a) \in {"none", "uart", "uart_status", "more"}
  BY <1>3, <1>4, <1>9, LockSteps DEF Ahead, Key, Downloads
<1>11. Part(u) /\ Ahead(u, "uart") /\ \A a \in Elems(u) : Downloads(a) /\ Key(a) \in {"none", "uart"}
  BY DownloadSection
<1> HIDE DEF u
<1>12. u \in Seq(Steps) /\ c \in Seq(Steps)
  BY <1>9, <1>11 DEF Part
<1>13. Part(u \o c) /\ Elems(u \o c) = Elems(u) \cup Elems(c)
  BY <1>9, <1>11, PartConcat
<1>14. Awaits(u \o c, X, "more")
  BY <1>9, <1>10, <1>12, AwaitsConcat
<1>15. Ahead(u \o c, "uart") /\ Ahead(u \o c, "more")
  BY <1>10, <1>11, <1>12, AheadConcat
<1> HIDE DEF X
<1>16. \A a \in Elems(u \o c) : Downloads(a) /\ Key(a) \in {"none", "uart", "uart_status", "more"}
  BY <1>10, <1>11, <1>13
<1>17. Vsc!ToOtherSides = u \o c
  BY DEF Vsc!ToOtherSides, u, c, b, y, z, x
<1> QED BY <1>13, <1>14, <1>15, <1>16, <1>17 DEF X

LEMMA DownloadProgram ==
    \A p \in Vsc!download_firmware :
        /\ Downloading(p.todo) /\ Ahead(p.todo, "complete") /\ Ahead(p.todo, "uart") /\ Ahead(p.todo, "more")
<1> DEFINE b == Vsc!Begun t == Vsc!Transfer c == Vsc!Complete d == Vsc!ToOtherSides s == b \o t \o c \o d
           bt == b \o t btc == bt \o c
<1>1. Part(b) /\ \A a \in Elems(b) : Downloads(a)
  BY DownloadSection DEF Vsc!Begun
<1>2. Part(t) /\ \A a \in Elems(t) : Downloads(a)
  <2>1. Part(t) /\ \A a \in Elems(t) : a \in Steps /\ Sends(a)
    BY TransferPart, ConcatOf DEF Part, Elems
  <2> HIDE DEF t
  <2> QED BY <2>1 DEF Sends, Downloads
<1>3. Part(c) /\ Ahead(c, "complete") /\ \A a \in Elems(c) : Downloads(a) /\ Key(a) \in {"none", "complete"}
  BY DownloadSection DEF Vsc!Complete
<1>4. /\ Part(d) /\ Ahead(d, "uart") /\ Ahead(d, "more")
      /\ \A a \in Elems(d) : Downloads(a) /\ Key(a) \in {"none", "uart", "uart_status", "more"}
      /\ Awaits(d, {"start", "xfer", "complete", "uart", "uart_status"}, "more")
  BY ToOtherSidesPart
<1> HIDE DEF b, t, c, d
<1>5. Part(bt) /\ \A a \in Elems(bt) : Downloads(a)
  BY <1>1, <1>2, PartConcat
<1> HIDE DEF bt
<1>6. Part(btc) /\ (\A a \in Elems(btc) : Downloads(a)) /\ bt \in Seq(Steps) /\ c \in Seq(Steps)
  BY <1>3, <1>5, PartConcat DEF Part
<1>7. Awaits(btc, {"start", "xfer"}, "complete") /\ Ahead(btc, "complete")
  <2>1. Awaits(c, {"start", "xfer"}, "complete")
    BY <1>3, AwaitsNothing
  <2> QED BY <1>3, <1>6, <2>1, AwaitsConcat, AheadConcat
<1> HIDE DEF btc
<1>8. btc \in Seq(Steps) /\ d \in Seq(Steps) /\ Elems(btc \o d) = Elems(btc) \cup Elems(d)
  BY <1>4, <1>6, PartConcat DEF Part
<1>9. \A k : Ahead(btc \o d, k) <=> Ahead(btc, k) \/ Ahead(d, k)
  BY <1>8, AheadConcat
<1>10. Awaits(btc \o d, {"start", "xfer"}, "complete")
  <2>1. Awaits(d, {"start", "xfer"}, "complete")
    BY <1>4, AwaitsNothing
  <2> QED BY <1>7, <1>8, <2>1, AwaitsConcat
<1>11. Awaits(btc \o d, {"start", "xfer", "complete"}, "uart")
  <2>1. Awaits(d, {"start", "xfer", "complete"}, "uart")
    BY <1>4, AwaitsNothing
  <2> QED BY <1>4, <1>8, <2>1, AwaitsConcat
<1>12. Awaits(btc \o d, {"start", "xfer", "complete", "uart", "uart_status"}, "more")
  BY <1>4, <1>8, AwaitsConcat
<1>13. \A a \in Elems(btc \o d) : Downloads(a)
  BY <1>4, <1>6, <1>8
<1>14. Downloading(btc \o d) /\ Ahead(btc \o d, "complete") /\ Ahead(btc \o d, "uart") /\ Ahead(btc \o d, "more")
  BY <1>4, <1>7, <1>9, <1>10, <1>11, <1>12, <1>13 DEF Downloading
<1>15. ASSUME NEW p \in Vsc!download_firmware PROVE p.todo = btc \o d
  BY DEF Vsc!download_firmware, Vsc!Program, btc, bt, b, t, c, d
<1> QED BY <1>14, <1>15

(* The programs of the calls that look at the versions, and activate. *)
LEMMA VersionPart ==
    ASSUME NEW s \in Sides
    PROVE  Part(Vsc!firmware_version(s)) /\ \A a \in Elems(Vsc!firmware_version(s)) : Installs(a) /\ Key(a) \in {"none", "get_info"}
<1> DEFINE x == Vsc!Cmd("get_info", Vsc!All({s}, 1)) y == Vsc!Fetch("get_info", Vsc!All({s}, 1)) b == <<x, y>> u == Vsc!Section(b)
<1>1. "get_info" \in Ops \ (Polled \cup Updates) /\ Vsc!All({s}, 1) \in Vals
  BY Arguments DEF Ops, Polled, Updates
<1>2. /\ x \in Steps /\ x.do = "command" /\ x.reg = "get_info" /\ x.fails = "stop" /\ x.val = Vsc!All({s}, 1)
      /\ y \in Steps /\ y.do = "fetch" /\ y.reg = "get_info" /\ y.fails = "stop" /\ y.val = Vsc!All({s}, 1)
  BY <1>1, CmdStep, FetchStep
<1>3. b = Vsc!Asked("get_info", Vsc!All({s}, 1))
  BY DEF Vsc!Asked
<1>4. Body(b)
  <2> HIDE DEF b
  <2> QED BY <1>1, <1>3, AskedBody
<1> HIDE DEF x, y
<1>5. Elems(b) = {x, y}
  <2>1. Follows(x, y)
    BY <1>2 DEF Follows
  <2> QED BY <1>2, <2>1, VscTwoSteps
<1>6. Part(u) /\ Elems(u) = {Vsc!Lock, Vsc!Unlock, x, y}
  <2> HIDE DEF b
  <2> QED BY <1>4, <1>5, SectionPart
<1>7. u = Vsc!firmware_version(s)
  BY <1>3 DEF Vsc!firmware_version
<1> HIDE DEF u
<1> QED BY <1>2, <1>6, <1>7, LockSteps DEF Installs, Key

LEMMA FromFileProgram ==
    ASSUME NEW api, NEW S \in SUBSET Sides
    PROVE  LET p == Vsc!FromFile(api, S) IN Activates(p.todo) /\ Ahead(p.todo, "commit") /\ p.goal.kind = "activate file"
<1> DEFINE p == Vsc!FromFile(api, S) v == Vsc!Versions x == Vsc!AnyOf(S) m == Vsc!Cmd("commit", <<>>) r == Vsc!Cmd("run", <<>>)
           b == <<m, r>> c == Vsc!Section(b) w == v \o <<x>>
<1>1. Vsc!All(S, 1) \in Vals /\ <<>> \in Vals /\ {0, 1} \subseteq Sides
  BY Arguments, PartsAssumption DEF Vsc!VscAssumption
<1>2. p.todo = w \o c /\ p.goal.kind = "activate file"
  <2>1. p.todo = w \o c
    BY DEF Vsc!FromFile, Vsc!Program, Vsc!Marked, Vsc!CommitAndRun
  <2> QED BY <2>1, FromFileFits
<1>3. Part(v) /\ \A a \in Elems(v) : Installs(a) /\ Key(a) \in {"none", "get_info"}
  BY <1>1, VersionPart, PartConcat DEF Vsc!Versions
<1>4. x \in Steps /\ x.do = "any" /\ x.fails = "stop"
  BY <1>1 DEF Vsc!AnyOf, Vsc!Access, Steps, IsAct
<1>5. /\ m \in Steps /\ m.do = "command" /\ m.reg = "commit" /\ m.fails = "stop" /\ m.val = <<>>
      /\ r \in Steps /\ r.do = "command" /\ r.reg = "run" /\ r.fails = "stop" /\ r.val = <<>>
  BY <1>1, ActStep
<1> HIDE DEF p, v, x, m, r
<1>6. /\ b \in Seq(Steps) /\ b # <<>> /\ Len(b) = 2 /\ b[1] = m /\ b[2] = r /\ Elems(b) = {m, r} /\ Adjacent(b)
  <2>1. Follows(m, r)
    BY <1>5 DEF Follows
  <2> QED BY <1>5, <2>1, VscTwoSteps
<1> HIDE DEF b
<1>7. Body(b)
  BY <1>5, <1>6 DEF Body
<1>8. Once(b)
  <2>1. \A i, j \in 1..Len(b) : i < j => i = 1
    BY <1>6
  <2> QED BY <2>1, <1>5, <1>6 DEF Once, Key
<1>9. Part(c) /\ Elems(c) = {Vsc!Lock, Vsc!Unlock, m, r} /\ Once(c)
  BY <1>6, <1>7, <1>8, SectionPart, OnceSection
<1> HIDE DEF c
<1>10. Ahead(c, "commit") /\ \A a \in Elems(c) : Installs(a)
  BY <1>5, <1>9, LockSteps DEF Ahead, Key, Installs
<1>11. <<x>> \in Seq(Steps) /\ Elems(<<x>>) = {x}
  BY <1>4, VscOneStep
<1>12. v \in Seq(Steps) /\ c \in Seq(Steps)
  BY <1>3, <1>9 DEF Part
<1>13. w \in Seq(Steps) /\ Elems(w) = Elems(v) \cup {x}
  <2> DEFINE o == <<x>>
  <2>1. o \in Seq(Steps) /\ Elems(o) = {x} /\ w = v \o o
    BY <1>11
  <2> HIDE DEF o, w
  <2> QED BY <2>1, <1>12, ConcatOf
<1> HIDE DEF w
<1>14. ~Ahead(w, "run") /\ \A a \in Elems(w) : Installs(a)
  BY <1>3, <1>4, <1>13 DEF Ahead, Key, Installs
<1>15. Once(w)
  BY <1>14, OnceNothing
<1>16. Once(w \o c)
  BY <1>9, <1>12, <1>13, <1>14, <1>15, OnceConcat
<1>17. Elems(w \o c) = Elems(w) \cup Elems(c)
  BY <1>12, <1>13, ConcatOf
<1>18. Ahead(w \o c, "commit")
  BY <1>10, <1>17 DEF Ahead
<1> QED BY <1>2, <1>10, <1>14, <1>16, <1>17, <1>18 DEF p, Activates

LEMMA InstallingProgram ==
    ASSUME NEW p \in Vsc!Installing, p.goal.kind \in {"download", "activate file"}
    PROVE  /\ p.goal.kind = "download" => /\ Downloading(p.todo)
                                          /\ Ahead(p.todo, "complete") /\ Ahead(p.todo, "uart") /\ Ahead(p.todo, "more")
           /\ p.goal.kind = "activate file" => Activates(p.todo) /\ Ahead(p.todo, "commit")
<1> DEFINE Good(q) == q.goal.kind = "activate file" => Activates(q.todo) /\ Ahead(q.todo, "commit")
<1>0. Sides # {} /\ Sides \in SUBSET Sides /\ \A s \in Sides : {s} \in SUBSET Sides /\ {s} # {}
  BY PartsAssumption DEF Vsc!VscAssumption
<1>1. ASSUME NEW q \in Vsc!activate_firmware PROVE Good(q) /\ q.goal.kind # "download"
  <2>1. q = Vsc!WithoutFile("activate_firmware", Sides) \/ q = Vsc!FromFile("activate_firmware", Sides)
    BY DEF Vsc!activate_firmware
  <2> QED BY <2>1, <1>0, WithoutFileFits, FromFileProgram
<1>2. ASSUME NEW q \in Vsc!rollback_firmware PROVE Good(q) /\ q.goal.kind # "download"
  <2>1. PICK o \in Vsc!activate_firmware : q = [o EXCEPT !.api = "rollback_firmware"]
    BY DEF Vsc!rollback_firmware
  <2>2. \E api, s, g : o = Vsc!Program(api, s, g)
    BY DEF Vsc!activate_firmware, Vsc!WithoutFile, Vsc!FromFile
  <2>3. q.todo = o.todo /\ q.goal = o.goal
    BY <2>1, <2>2 DEF Vsc!Program
  <2> QED BY <2>3, <1>1
<1>3. ASSUME NEW q \in Vsc!activate_target_firmware PROVE Good(q) /\ q.goal.kind # "download"
  <2>1. PICK s \in Sides :
          q = Vsc!WithoutFile("activate_target_firmware", {s}) \/ q = Vsc!FromFile("activate_target_firmware", {s})
    BY DEF Vsc!activate_target_firmware
  <2> QED BY <2>1, <1>0, WithoutFileFits, FromFileProgram
<1>4. p \in Vsc!download_firmware \cup Vsc!activate_firmware \cup Vsc!rollback_firmware \cup Vsc!activate_target_firmware
  BY DEF Vsc!Installing
<1>5. CASE p \in Vsc!download_firmware
  BY <1>5, DownloadProgram, DownloadFits
<1> QED BY <1>1, <1>2, <1>3, <1>4, <1>5

(* Looking and resetting start no download and tell nothing. *)
LEMMA LookingProgram ==
    ASSUME NEW p \in Vsc!Looking
    PROVE  ~Ahead(p.todo, "start") /\ p.goal.kind \notin {"download", "activate file"}
<1>1. CASE p \in Vsc!get_firmware_version
  <2>1. PICK s \in Sides : p = Vsc!Program("get_firmware_version", Vsc!firmware_version(s), Vsc!Nothing)
    BY <1>1 DEF Vsc!get_firmware_version
  <2>2. p.todo = Vsc!firmware_version(s) /\ p.goal = Vsc!Nothing
    BY <2>1 DEF Vsc!Program
  <2> QED BY <2>2, VersionPart, NothingGoal DEF Ahead
<1>2. CASE p \in Vsc!reset
  <2>1. PICK s \in Sides :
          p = Vsc!Program("reset", Vsc!Section(<<Vsc!Cmd("run", Vsc!All({s}, 1))>>), Vsc!Goal("reset", "none", <<>>))
    BY <1>2 DEF Vsc!reset
  <2>2. p.goal.kind = "reset"
    BY <2>1 DEF Vsc!Program, Vsc!Goal
  <2>3. VscFits(p)
    BY LookingFits
  <2>4. \A a \in Elems(p.todo) : Key(a) # "start"
    BY <2>2, <2>3 DEF VscFits, Resetting, Key
  <2> QED BY <2>2, <2>4 DEF Ahead
<1> QED BY <1>1, <1>2 DEF Vsc!Looking

-------------------------------------------------------------------------------
(* What is true of the firmware at each stage of a call, as long as no other *)
(* call disturbs it.  What the page holds says what the command that was     *)
(* done last, or is under way, has brought about.                            *)
OwnSide == fw.inactive[0] = "file"
OtherSides == \A s \in Sides \ {0} : fw.inactive[s] = "file"
Copied == fw.stage = "copying" \/ OtherSides
Seen == page.answer = <<"uart_status", Vsc!One(1)>> \/ OtherSides
HaveFile(S) == \A s \in S : fw.inactive[s] = "file"
Committed(S) == HaveFile(S) /\ \A s \in S : fw.next[s] = "inactive"
Running(S) == \A s \in S : fw.active[s] = "file"
Named == page.answer[1] = "get_info" => HaveFile(DOMAIN page.answer[2])

Waited(r, k) == Key(Head(r.todo)) = k /\ r.phase = "wait" /\ page.opcode = "none"
Done(r, k) == Waited(r, k) /\ page.status = "ok"

(* A download: what it has behind it, and what the page shows of its step.   *)
DownloadRest(r) ==
    /\ ~Ahead(r.todo, "complete") => OwnSide
    /\ ~Ahead(r.todo, "uart") => Copied
    /\ ~Ahead(r.todo, "more") /\ ~r.blind => OtherSides
DownloadPage(r) ==
    /\ Done(r, "complete") => OwnSide
    /\ Done(r, "uart") => Copied
    /\ ~Ahead(r.todo, "uart") =>
        /\ Done(r, "uart_status") => Seen
        /\ Head(r.todo).do = "more" /\ ~r.blind => page.opcode = "none" /\ Seen
DownloadTold(r) == r.alone /\ lost = 0 => DownloadRest(r) /\ DownloadPage(r)

(* After one lost write, if nobody else installs: the command that was lost  *)
(* may have left another on the page, but none that spoils the own side.     *)
Lone(t) == Installers \subseteq {t}
LossRest(r) == ~Ahead(r.todo, "uart") => OwnSide
LossPage(r) ==
    ~Ahead(r.todo, "complete") /\ r.phase # "next" =>
        /\ page.op # "start" /\ (page.op \in {"uart", "uart_status"} \/ page.arg = <<>>)
        /\ \/ OwnSide
           \/ /\ page.op = Head(r.todo).reg /\ ~Done(r, "uart")
              /\ r.phase = "wait" /\ page.opcode # "none" => page.opcode = "fwupd"
LossTold(t, r) ==
    /\ r.alone /\ lost = 1 /\ Lone(t) => LossRest(r) /\ LossPage(r)
    /\ lost = 0 /\ Lone(t) /\ ~Ahead(r.todo, "complete") => page.op # "start"

(* An activation from a file. *)
Restarts(r) == r.phase = "wait" /\ Key(Head(r.todo)) = "run"
ActivateRest(r) ==
    /\ Ahead(r.todo, "commit") => HaveFile(r.found)
    /\ ~Ahead(r.todo, "commit") =>
        /\ Chosen(r.todo)
        /\ Ahead(r.todo, "run") /\ ~Restarts(r) => Committed(r.found)
        /\ ~Ahead(r.todo, "run") => Running(r.found)
ActivatePage(r) ==
    /\ Waited(r, "get_info") /\ page.status # "error" => Named
    /\ Head(r.todo).do = "fetch" => page.opcode = "none" /\ Named
    /\ Done(r, "commit") => Committed(r.found)
    /\ Restarts(r) /\ page.opcode # "none" => Committed(r.found)
    /\ Done(r, "run") => Running(r.found)
ActivateTold(r) == r.alone /\ lost = 0 => ActivateRest(r) /\ ActivatePage(r)

CallTold(t, r) ==
    /\ family = "firmware" /\ Ahead(r.todo, "start") => t \in Installers
    /\ r.goal.kind = "download" => Downloading(r.todo) /\ DownloadTold(r) /\ LossTold(t, r)
    /\ r.goal.kind = "activate file" => Activates(r.todo) /\ ActivateTold(r)
VscTold ==
    /\ fw.stage \in {"loaded", "copying"} => OwnSide
    /\ \A t \in Threads : CallTold(t, run[t])

(* A write is lost, or none. *)
Loses == lost' = lost \/ lost' = lost + 1
LEMMA WritesLost ==
    ASSUME VscBase, Loses
    PROVE  lost \in Nat /\ (lost' = 0 => lost = 0) /\ (lost' = 1 => lost = 0 \/ lost = 1)
<1>1. lost \in Nat
  BY PartsAssumption DEF VscBase, VscTyped, Vsc!VscAssumption
<1>2. lost' = lost \/ lost' = lost + 1
  BY DEF Loses
<1> QED BY <1>1, <1>2

(* A call that is over tells nothing any more. *)
LEMMA OverTold == ASSUME NEW t \in Threads, Over(run'[t]) PROVE CallTold(t, run[t])'
<1>1. run'[t].todo = <<>> /\ run'[t].goal.kind = "nothing"
  BY OverFields
<1>2. ~Ahead(run'[t].todo, "start")
  BY <1>1 DEF Ahead, Elems
<1> QED BY <1>1, <1>2 DEF CallTold

(* The calls of the others: at a step on the page nobody else is behind the  *)
(* lock.                                                                     *)
LEMMA OtherTold ==
    ASSUME VscBase, VscCalls, NEW t \in Threads, NEW u \in Threads \ {t}, CallTold(u, run[u]),
           run' = [run EXCEPT ![t] = run'[t]], UNCHANGED <<fw, family>>,
           \/ page' = page /\ lost' = lost
           \/ Behind(run[t]) /\ Loses,
           page'.op = "start" => page.op = "start" \/ Ahead(run[t].todo, "start"), CallTold(t, run[t])
    PROVE  CallTold(u, run[u])'
<1> DEFINE r == run[u]
<1>1. run'[u] = r /\ r \in Runs /\ InOrder(r) /\ lost \in Nat
  BY PartsAssumption DEF VscBase, VscTyped, VscOrderly, Vsc!VscAssumption
<1>2. \/ page' = page /\ lost' = lost
      \/ ~Behind(r) /\ Loses
  BY BehindAlone
<1>3. r.goal.kind = "nothing" \/ family = "firmware"
  BY DEF VscCalls
<1>4. r.todo # <<>> /\ ~Behind(r) => r.phase = "next" /\ Head(r.todo).do \in Outside
  BY <1>1 DEF InOrder, Behind, Outside
<1>5. r.goal.kind # "nothing" => r.todo # <<>> /\ r.todo \in Seq(Steps)
  <2>1. r.todo = <<>> => Over(r)
    BY <1>1 DEF InOrder, Over
  <2> QED BY <2>1, <1>1, OverFields DEF Runs
<1>6. ASSUME r.goal.kind = "download" PROVE DownloadTold(run[u])' /\ LossTold(u, run[u])'
  <2>1. Downloading(r.todo) /\ DownloadTold(r) /\ LossTold(u, r) /\ r.todo # <<>> /\ r.todo \in Seq(Steps)
    BY <1>5, <1>6 DEF CallTold
  <2>2. Ahead(r.todo, "complete") => Ahead(r.todo, "uart")
    BY <2>1, DownloadingRest
  <2>3. page'.op = "start" /\ Lone(u) => page.op = "start"
    BY <1>3, <1>6 DEF CallTold, Lone
  <2>4. OwnSide' = OwnSide /\ Copied' = Copied /\ OtherSides' = OtherSides
    BY DEF OwnSide, Copied, OtherSides
  <2>5. CASE page' = page /\ lost' = lost
    BY <1>1, <2>1, <2>3, <2>5 DEF DownloadTold, DownloadRest, DownloadPage, LossTold, LossRest, LossPage, Done, Waited,
       OwnSide, Copied, OtherSides, Seen, Lone
  <2>6. CASE ~Behind(r) /\ Loses
    <3>1. r.phase = "next" /\ Head(r.todo).do # "more"
      BY <1>4, <2>1, <2>6 DEF Outside
    <3>2. DownloadPage(run[u])' /\ LossPage(run[u])'
      BY <1>1, <3>1 DEF DownloadPage, LossPage, Done, Waited
    <3>3. (lost' = 0 => lost = 0) /\ (lost' = 1 => lost \in {0, 1})
      BY <2>6, WritesLost
    <3>4. DownloadRest(run[u])' = DownloadRest(r)
      BY <1>1, <2>4 DEF DownloadRest
    <3>5. DownloadTold(run[u])'
      BY <1>1, <2>1, <3>2, <3>3, <3>4 DEF DownloadTold
    <3>6. r.alone /\ lost \in {0, 1} /\ Lone(u) => LossRest(run[u])'
      BY <1>1, <2>1, <2>2, <2>4 DEF DownloadTold, DownloadRest, LossTold, LossRest
    <3> QED BY <1>1, <2>1, <2>3, <3>2, <3>3, <3>5, <3>6 DEF LossTold, Lone
  <2> QED BY <1>2, <2>5, <2>6
<1>7. ASSUME r.goal.kind = "activate file" PROVE ActivateTold(run[u])'
  <2>1. ActivateTold(r) /\ r.todo # <<>>
    BY <1>5, <1>7 DEF CallTold
  <2>2. ActivateRest(run[u])' = ActivateRest(r)
    BY <1>1 DEF ActivateRest, HaveFile, Committed, Running, Restarts
  <2>3. CASE page' = page /\ lost' = lost
    BY <1>1, <2>1, <2>2, <2>3 DEF ActivateTold, ActivatePage, Waited, Done, Named, HaveFile, Committed, Running, Restarts
  <2>4. CASE ~Behind(r) /\ Loses
    <3>1. r.phase = "next" /\ Head(r.todo).do # "fetch"
      BY <1>4, <2>1, <2>4 DEF Outside
    <3>2. ActivatePage(run[u])'
      BY <1>1, <3>1 DEF ActivatePage, Waited, Done, Restarts
    <3>3. lost' = 0 => lost = 0
      BY <2>4, WritesLost
    <3> QED BY <1>1, <2>1, <2>2, <3>2, <3>3 DEF ActivateTold
  <2> QED BY <1>2, <2>3, <2>4
<1> QED BY <1>1, <1>6, <1>7 DEF CallTold

(* A download goes on to its next step, if what it leaves behind is done. *)
LEMMA DownloadAdvances ==
    ASSUME VscBase, NEW t \in Threads, run[t].todo # <<>>, run[t].goal.kind = "download", CallTold(t, run[t]),
           run'[t].todo = Tail(run[t].todo), run'[t].todo # <<>>, run'[t].phase = "next", run'[t].goal.kind = "download",
           run'[t].alone = run[t].alone, run[t].blind => run'[t].blind, fw' = fw, family' = family, Loses,
           page'.op = "start" => page.op = "start",
           LET k == Key(Head(run[t].todo)) IN
           /\ k = "complete" /\ lost = 0 => page.op # "start"
           /\ run[t].alone /\ lost = 0 =>
                /\ k = "complete" => OwnSide
                /\ k = "uart" => Copied
                /\ k = "more" /\ ~Ahead(run[t].todo, "uart") /\ ~run'[t].blind => OtherSides
                /\ k = "uart_status" /\ ~Ahead(run[t].todo, "uart") /\ ~run'[t].blind => page'.opcode = "none" /\ Seen'
           /\ run[t].alone /\ lost = 1 /\ Lone(t) /\ k = "uart" /\ ~Ahead(run[t].todo, "complete") => OwnSide
           /\ lost' # lost => k = "none"
    PROVE  CallTold(t, run[t])'
<1> DEFINE r == run[t] s == r.todo T == Tail(s) h == Head(s) k == Key(h)
<1>1. /\ s \in Seq(Steps) /\ Sound(s) /\ Ordered(s) /\ h \in Steps /\ Downloading(s) /\ DownloadTold(r) /\ LossTold(t, r)
      /\ r.alone \in BOOLEAN /\ r.blind \in BOOLEAN
  BY VscStepOf DEF CallTold, Runs
<1>2. /\ Downloading(T) /\ Downloads(h)
      /\ k \in {"start", "xfer"} => Ahead(T, "complete")
      /\ k \in {"start", "xfer", "complete"} => Ahead(T, "uart")
      /\ k \in {"start", "xfer", "complete", "uart", "uart_status"} => Ahead(T, "more")
  BY <1>1, DownloadingRest
<1>3. /\ Ahead(s, "complete") => Ahead(s, "uart")
      /\ Ahead(s, "uart") => Ahead(s, "more")
  BY <1>1, DownloadingRest
<1>4. \A x : Ahead(s, x) <=> k = x \/ Ahead(T, x)
  BY <1>1, AheadRest
<1>5. T # <<>> /\ Follows(h, Head(T)) /\ T \in Seq(Steps)
  BY <1>1, RestOrderly
<1>6. T # <<>> => Downloads(Head(T))
  BY <1>2, <1>5, DownloadingRest
<1>7. lost \in Nat /\ (lost' = 0 => lost = 0) /\ (lost' = 1 => lost = 0 \/ lost = 1)
  BY WritesLost
<1>8. OwnSide' = OwnSide /\ Copied' = Copied /\ OtherSides' = OtherSides
  BY DEF OwnSide, Copied, OtherSides
<1>9. /\ k = "complete" /\ lost = 0 => page.op # "start"
      /\ r.alone /\ lost = 0 =>
           /\ k = "complete" => OwnSide
           /\ k = "uart" => Copied
           /\ k = "more" /\ ~Ahead(s, "uart") /\ ~run'[t].blind => OtherSides
           /\ k = "uart_status" /\ ~Ahead(s, "uart") /\ ~run'[t].blind => page'.opcode = "none" /\ Seen'
      /\ r.alone /\ lost = 1 /\ Lone(t) /\ k = "uart" /\ ~Ahead(s, "complete") => OwnSide
      /\ lost' # lost => k = "none"
  OBVIOUS
<1>10. run'[t].todo = T /\ run'[t].alone = r.alone
  OBVIOUS
<1> HIDE DEF r, s, T, h, k
<1>11. ASSUME r.alone, lost' = 0 PROVE DownloadRest(run[t])' /\ DownloadPage(run[t])'
  <2>1. DownloadRest(r) /\ lost = 0
    BY <1>1, <1>7, <1>11 DEF DownloadTold
  <2>2. ~Ahead(T, "complete") => OwnSide
    BY <1>4, <1>9, <1>11, <2>1 DEF DownloadRest, s, r
  <2>3. ~Ahead(T, "uart") => Copied
    BY <1>4, <1>9, <1>11, <2>1 DEF DownloadRest, s, r
  <2>4. ~Ahead(T, "more") /\ ~run'[t].blind => OtherSides
    <3>1. SUFFICES ASSUME ~Ahead(T, "more"), ~run'[t].blind PROVE OtherSides
      OBVIOUS
    <3>2. k # "uart" /\ ~Ahead(T, "uart")
      BY <1>2, <1>4, <3>1, <1>3, <1>5, DownloadingRest
    <3>3. ~r.blind /\ ~Ahead(s, "uart")
      BY <1>4, <3>1, <3>2 DEF r
    <3> QED BY <1>4, <1>9, <1>11, <2>1, <3>1, <3>3 DEF DownloadRest, s, r
  <2>5. DownloadRest(run[t])'
    BY <1>8, <1>10, <2>2, <2>3, <2>4 DEF DownloadRest
  <2>6. ASSUME Head(T).do = "more", ~Ahead(T, "uart"), ~run'[t].blind PROVE page'.opcode = "none" /\ Seen'
    <3>1. k = "uart_status"
      BY <1>5, <1>6, <2>6 DEF Follows, Downloads, k, Key
    <3>2. ~Ahead(s, "uart")
      BY <1>4, <2>6, <3>1
    <3> QED BY <1>9, <1>11, <2>1, <2>6, <3>1, <3>2
  <2>7. DownloadPage(run[t])'
    BY <1>10, <2>6 DEF DownloadPage, Done, Waited
  <2> QED BY <2>5, <2>7
<1>12. ASSUME r.alone, lost' = 1, Lone(t) PROVE LossRest(run[t])' /\ LossPage(run[t])'
  <2>1. LossPage(run[t])'
    BY DEF LossPage
  <2>2. ASSUME ~Ahead(T, "uart") PROVE OwnSide
    <3>1. ~Ahead(T, "complete") /\ k # "complete"
      BY <1>2, <1>5, <2>2, DownloadingRest
    <3>2. ~Ahead(s, "complete")
      BY <1>4, <3>1
    <3>3. CASE lost = 0
      BY <1>1, <1>12, <3>2, <3>3 DEF DownloadTold, DownloadRest, s, r
    <3>4. CASE lost = 1 /\ k = "uart"
      BY <1>9, <1>12, <3>2, <3>4
    <3>5. CASE lost = 1 /\ k # "uart"
      BY <1>1, <1>4, <1>12, <2>2, <3>5 DEF LossTold, LossRest, s, r
    <3> QED BY <1>7, <1>12, <3>3, <3>4, <3>5
  <2> QED BY <1>8, <1>10, <2>1, <2>2 DEF LossRest
<1>13. ASSUME lost' = 0, Lone(t), ~Ahead(T, "complete") PROVE page'.op # "start"
  <2>1. lost = 0
    BY <1>7, <1>13
  <2> QED BY <1>1, <1>4, <1>9, <1>13, <2>1 DEF LossTold, s, r
<1>14. DownloadTold(run[t])' /\ LossTold(t, run[t])'
  BY <1>10, <1>11, <1>12, <1>13 DEF DownloadTold, LossTold, Lone
<1>15. family' = "firmware" /\ Ahead(T, "start") => t \in Installers
  BY <1>4 DEF CallTold, s, r
<1> QED BY <1>2, <1>10, <1>14, <1>15 DEF CallTold

(* And so does an activation. *)
LEMMA ActivateAdvances ==
    ASSUME VscBase, NEW t \in Threads, run[t].todo # <<>>, run[t].goal.kind = "activate file", CallTold(t, run[t]),
           run'[t].todo = Tail(run[t].todo), run'[t].todo # <<>>, run'[t].phase = "next", run'[t].goal.kind = "activate file",
           run'[t].alone = run[t].alone, fw' = fw, family' = family, Loses,
           LET k == Key(Head(run[t].todo)) IN
           run[t].alone /\ lost = 0 =>
                /\ k = "commit" => Committed(run'[t].found)
                /\ k = "run" => Running(run'[t].found)
                /\ k = "get_info" => page'.opcode = "none" /\ Named'
                /\ \/ run'[t].found = run[t].found
                   \/ ~Chosen(run[t].todo) /\ (HaveFile(run[t].found) => HaveFile(run'[t].found))
    PROVE  CallTold(t, run[t])'
<1> DEFINE r == run[t] s == r.todo T == Tail(s) h == Head(s) k == Key(h)
<1>1. /\ s \in Seq(Steps) /\ Sound(s) /\ Ordered(s) /\ h \in Steps /\ Activates(s) /\ ActivateTold(r)
      /\ r.alone \in BOOLEAN
  BY VscStepOf DEF CallTold, Runs
<1>2. /\ Once(T) /\ (k = "run" => ~Ahead(T, "commit") /\ ~Ahead(T, "run"))
      /\ Elems(s) = {h} \cup Elems(T) /\ T \in Seq(Steps) /\ (T # <<>> => Head(T) \in Elems(T))
      /\ h \in Elems(s)
  <2>1. Once(T) /\ (k = "run" => ~Ahead(T, "commit") /\ ~Ahead(T, "run"))
    BY <1>1, OnceRest DEF Activates
  <2>2. Elems(s) = {h} \cup Elems(T) /\ T \in Seq(Steps)
    BY <1>1, TailOf
  <2>3. T # <<>> => Head(T) \in Elems(T)
    BY <2>2, TailOf
  <2> QED BY <2>1, <2>2, <2>3
<1>3. \A x : Ahead(s, x) <=> k = x \/ Ahead(T, x)
  BY <1>1, AheadRest
<1>4. /\ T # <<>> => Follows(h, Head(T)) /\ Head(T) \in Steps
      /\ IsAct(h) => Chosen(s)
  BY <1>1, RestOrderly
<1>5. lost \in Nat /\ (lost' = 0 => lost = 0)
  BY WritesLost
<1>6. /\ r.alone /\ lost = 0 =>
           /\ k = "commit" => Committed(run'[t].found)
           /\ k = "run" => Running(run'[t].found)
           /\ k = "get_info" => page'.opcode = "none" /\ Named'
           /\ \/ run'[t].found = r.found
              \/ ~Chosen(s) /\ (HaveFile(r.found) => HaveFile(run'[t].found))
      /\ run'[t].todo = T /\ T # <<>>
  OBVIOUS
<1> HIDE DEF r, s, T, h, k
<1>7. Activates(T) /\ Installs(h) /\ Installs(Head(T)) /\ (Chosen(s) => Chosen(T))
  BY <1>1, <1>2, <1>6 DEF Activates, Chosen
<1>8. ASSUME r.alone, lost' = 0 PROVE ActivateRest(run[t])' /\ ActivatePage(run[t])'
  <2>1. ActivateRest(r) /\ lost = 0
    BY <1>1, <1>5, <1>8 DEF ActivateTold
  <2>2. ~Ahead(s, "commit") => run'[t].found = r.found
    BY <1>6, <1>8, <2>1 DEF ActivateRest, s, r
  <2>3. Ahead(T, "commit") => HaveFile(run'[t].found)
    BY <1>3, <1>6, <1>8, <2>1 DEF ActivateRest, s, r
  <2>4. ~Ahead(T, "commit") => Chosen(T)
    BY <1>3, <1>4, <1>7, <2>1 DEF ActivateRest, IsAct, k, Key, s, r
  <2>5. ASSUME ~Ahead(T, "commit"), Ahead(T, "run") PROVE Committed(run'[t].found)
    <3>1. CASE k = "commit"
      BY <1>6, <1>8, <2>1, <3>1
    <3>2. CASE k # "commit"
      <4>1. ~Ahead(s, "commit") /\ Ahead(s, "run")
        BY <1>3, <2>5, <3>2
      <4>2. ~Restarts(r)
        BY <1>2, <2>5 DEF Restarts, k, h, s
      <4> QED BY <2>1, <2>2, <4>1, <4>2 DEF ActivateRest, s
    <3> QED BY <3>1, <3>2
  <2>6. ASSUME ~Ahead(T, "commit"), ~Ahead(T, "run") PROVE Running(run'[t].found)
    <3>1. CASE k = "run"
      BY <1>6, <1>8, <2>1, <3>1
    <3>2. CASE k # "run"
      <4>1. k # "commit"
        <5>1. SUFFICES ASSUME k = "commit" PROVE Key(Head(T)) = "run"
          BY <1>2, <1>6, <2>6 DEF Ahead
        <5>2. h.do = "command" /\ h.reg = "commit"
          BY <1>1, <5>1 DEF k, Key, Steps
        <5> QED BY <1>4, <1>6, <5>2 DEF Follows, Key
      <4>2. ~Ahead(s, "commit") /\ ~Ahead(s, "run")
        BY <1>3, <2>6, <3>2, <4>1
      <4> QED BY <2>1, <2>2, <4>2 DEF ActivateRest, s
    <3> QED BY <3>1, <3>2
  <2>7. ActivateRest(run[t])'
    <3>1. HaveFile(run'[t].found) <=> HaveFile(run[t].found)'
      BY DEF HaveFile
    <3>2. Committed(run'[t].found) <=> Committed(run[t].found)'
      BY DEF Committed, HaveFile
    <3>3. Running(run'[t].found) <=> Running(run[t].found)'
      BY DEF Running
    <3> QED BY <1>6, <2>3, <2>4, <2>5, <2>6, <3>1, <3>2, <3>3 DEF ActivateRest
  <2>8. ASSUME Head(T).do = "fetch" PROVE page'.opcode = "none" /\ Named'
    <3>1. k = "get_info"
      BY <1>4, <1>6, <1>7, <2>8 DEF Follows, Installs, k, Key
    <3> QED BY <1>6, <1>8, <2>1, <3>1
  <2>9. ActivatePage(run[t])'
    BY <1>6, <2>8 DEF ActivatePage, Waited, Done, Restarts
  <2> QED BY <2>7, <2>9
<1>9. ActivateTold(run[t])'
  BY <1>8 DEF ActivateTold, r
<1>10. family' = "firmware" /\ Ahead(T, "start") => t \in Installers
  BY <1>3 DEF CallTold, s, r
<1> QED BY <1>6, <1>7, <1>9, <1>10 DEF CallTold

(* A step that sends no command, *)
LEMMA QuietTold ==
    ASSUME VscBase, NEW t \in Threads, run[t].todo # <<>>, CallTold(t, run[t]), Key(Vsc!Step(t)) = "none",
           run'[t].todo = Tail(run[t].todo), run'[t].todo # <<>>, run'[t].phase = "next",
           run'[t].goal.kind = run[t].goal.kind, run'[t].alone = run[t].alone, run'[t].blind = run[t].blind,
           run[t].goal.kind = "activate file" /\ run[t].alone /\ lost = 0 =>
               \/ run'[t].found = run[t].found
               \/ ~Chosen(run[t].todo) /\ (HaveFile(run[t].found) => HaveFile(run'[t].found)),
           fw' = fw, family' = family, Loses, page'.op = "start" => page.op = "start"
    PROVE  CallTold(t, run[t])'
<1>1. run[t].todo \in Seq(Steps) /\ Key(Head(run[t].todo)) = "none"
  BY VscStepOf DEF Vsc!Step
<1>2. \A k : Ahead(run'[t].todo, k) => Ahead(run[t].todo, k)
  BY <1>1, AheadRest
<1>3. CASE run[t].goal.kind = "download"
  BY <1>1, <1>3, DownloadAdvances
<1>4. CASE run[t].goal.kind = "activate file"
  BY <1>1, <1>4, ActivateAdvances
<1>5. CASE run[t].goal.kind \notin {"download", "activate file"}
  BY <1>2, <1>5 DEF CallTold
<1> QED BY <1>3, <1>4, <1>5

(* the end of a command that was done, *)
LEMMA DoneTold ==
    ASSUME VscBase, VscPage, NEW t \in Threads, run[t].todo # <<>>, CallTold(t, run[t]),
           Vsc!Step(t).do = "command", run[t].phase = "wait", page.opcode = "none", Vsc!Suffices(t),
           run'[t].todo = Tail(run[t].todo), run'[t].todo # <<>>, run'[t].phase = "next",
           run'[t].goal = run[t].goal, run'[t].alone = run[t].alone, run'[t].blind = run[t].blind,
           run'[t].found = run[t].found, UNCHANGED <<fw, family, page, lost>>
    PROVE  CallTold(t, run[t])'
<1> DEFINE r == run[t] s == r.todo h == Head(s) k == Key(h)
<1>1. s \in Seq(Steps) /\ h = Vsc!Step(t) /\ k = h.reg /\ h \in Steps /\ Loses
  BY VscStepOf DEF Vsc!Step, Key, Loses
<1>2. \A x : Ahead(run'[t].todo, x) => Ahead(s, x)
  BY <1>1, AheadRest
<1>3. page.status = "ok" \/ (page.status = "uart timeout" /\ k = "get_info")
  BY <1>1 DEF Vsc!Suffices
<1>4. lost = 0 => page.op = k
  BY <1>1 DEF VscPage
<1>5. OwnSide' = OwnSide /\ Copied' = Copied /\ OtherSides' = OtherSides /\ Seen' = Seen /\ Named' = Named
  BY DEF OwnSide, Copied, OtherSides, Seen, Named, HaveFile
<1>6. Waited(r, k) /\ (page.status = "ok" => Done(r, k))
  BY DEF Waited, Done
<1>7. CASE r.goal.kind = "download"
  <2>1. Downloading(s) /\ DownloadTold(r) /\ LossTold(t, r)
    BY <1>7 DEF CallTold
  <2>2. Downloads(h)
    BY <1>1, <2>1, DownloadingRest
  <2>3. Done(r, k) /\ k # "more"
    BY <1>1, <1>3, <1>6, <2>2 DEF Downloads
  <2>4. r.alone /\ lost = 0 => /\ k = "complete" => OwnSide
                               /\ k = "uart" => Copied
                               /\ k = "uart_status" /\ ~Ahead(s, "uart") => page'.opcode = "none" /\ Seen'
    BY <1>5, <2>1, <2>3 DEF DownloadTold, DownloadPage
  <2>5. r.alone /\ lost = 1 /\ Lone(t) /\ k = "uart" /\ ~Ahead(s, "complete") => OwnSide
    BY <2>1, <2>3 DEF LossTold, LossPage
  <2>6. k = "complete" /\ lost = 0 => page.op # "start"
    BY <1>4
  <2> HIDE DEF h, k
  <2>7. k = Key(Head(run[t].todo))
    BY DEF k, h
  <2> QED BY <1>1, <1>7, <2>3, <2>4, <2>5, <2>6, <2>7, DownloadAdvances
<1>8. CASE r.goal.kind = "activate file"
  <2>1. ActivateTold(r)
    BY <1>8 DEF CallTold
  <2>2. HaveFile(run'[t].found) = HaveFile(r.found) /\ Committed(run'[t].found) = Committed(r.found)
        /\ Running(run'[t].found) = Running(r.found)
    OBVIOUS
  <2>3. r.alone /\ lost = 0 =>
          /\ k = "commit" => Committed(run'[t].found)
          /\ k = "run" => Running(run'[t].found)
          /\ k = "get_info" => page'.opcode = "none" /\ Named'
    BY <1>3, <1>5, <1>6, <2>1, <2>2 DEF ActivateTold, ActivatePage
  <2> HIDE DEF h, k
  <2>4. k = Key(Head(run[t].todo))
    BY DEF k, h
  <2> QED BY <1>1, <1>8, <2>3, <2>4, ActivateAdvances
<1>9. CASE r.goal.kind \notin {"download", "activate file"}
  BY <1>2, <1>9 DEF CallTold
<1> QED BY <1>7, <1>8, <1>9

(* the end of a command whose failure is ignored, *)
LEMMA IgnoredTold ==
    ASSUME VscBase, NEW t \in Threads, run[t].todo # <<>>, CallTold(t, run[t]), Vsc!Step(t).fails = "ignore",
           run'[t].todo = Tail(run[t].todo), run'[t].todo # <<>>, run'[t].phase = "next",
           run'[t].goal = run[t].goal, run'[t].alone = run[t].alone, run'[t].blind = Vsc!Judged(run[t].goal),
           UNCHANGED <<fw, family, page, lost>>
    PROVE  CallTold(t, run[t])'
<1> DEFINE r == run[t] s == r.todo h == Head(s)
<1>1. s \in Seq(Steps) /\ h = Vsc!Step(t) /\ h \in Elems(s) /\ Loses
  BY VscStepOf DEF Vsc!Step, Loses
<1>2. \A x : Ahead(run'[t].todo, x) => Ahead(s, x)
  BY <1>1, AheadRest
<1>3. CASE r.goal.kind = "download"
  <2>1. Downloading(s)
    BY <1>3 DEF CallTold
  <2>2. Downloads(h)
    BY <1>1, <2>1, DownloadingRest
  <2>3. Key(Head(run[t].todo)) = "uart_status" /\ run'[t].blind
    BY <1>1, <1>3, <2>2 DEF Downloads, Vsc!Judged
  <2> QED BY <1>1, <1>3, <2>3, DownloadAdvances
<1>4. r.goal.kind # "activate file"
  BY <1>1 DEF CallTold, Activates, Installs
<1>5. CASE r.goal.kind \notin {"download", "activate file"}
  BY <1>2, <1>5 DEF CallTold
<1> QED BY <1>3, <1>4, <1>5

(* the reading of an answer that says that there is no more, *)
LEMMA NoMoreTold ==
    ASSUME VscBase, NEW t \in Threads, run[t].todo # <<>>, CallTold(t, run[t]), Vsc!Step(t).do = "more",
           Vsc!Enough(t) \/ ~Vsc!GoesOn(t), Onward(run[t], run'[t]), UNCHANGED <<fw, family, page, lost>>
    PROVE  CallTold(t, run[t])'
<1> DEFINE r == run[t] s == r.todo h == Head(s)
<1>1. s \in Seq(Steps) /\ h = Vsc!Step(t) /\ h \in Elems(s) /\ Loses /\ Key(Head(run[t].todo)) = "more"
  BY VscStepOf DEF Vsc!Step, Loses, Key
<1>2. \A x : Ahead(run'[t].todo, x) => Ahead(s, x)
  BY <1>1, AheadRest DEF Onward
<1>3. /\ run'[t].todo = Tail(run[t].todo) /\ run'[t].todo # <<>> /\ run'[t].phase = "next" /\ run'[t].goal = run[t].goal
      /\ run'[t].found = run[t].found /\ run'[t].alone = run[t].alone /\ run'[t].blind = run[t].blind
  BY DEF Onward
<1>4. CASE r.goal.kind = "download"
  <2>1. Downloading(s) /\ DownloadTold(r)
    BY <1>4 DEF CallTold
  <2>2. Downloads(h)
    BY <1>1, <2>1, DownloadingRest
  <2>3. Vsc!Step(t).reg = "uart_status"
    BY <1>1, <2>2 DEF Downloads
  <2>4. page.answer # <<"uart_status", Vsc!One(1)>>
    BY <2>3 DEF Vsc!Enough, Vsc!GoesOn
  <2>5. r.alone /\ lost = 0 /\ ~Ahead(s, "uart") /\ ~run'[t].blind => OtherSides
    BY <1>1, <1>3, <2>1, <2>4 DEF DownloadTold, DownloadPage, Seen
  <2> QED BY <1>1, <1>3, <1>4, <2>5, DownloadAdvances
<1>5. r.goal.kind # "activate file"
  BY <1>1 DEF CallTold, Activates, Installs
<1>6. CASE r.goal.kind \notin {"download", "activate file"}
  BY <1>2, <1>3, <1>6 DEF CallTold
<1> QED BY <1>4, <1>5, <1>6

(* and a step that is repeated. *)
LEMMA RepeatTold ==
    ASSUME VscBase, NEW t \in Threads, run[t].todo # <<>>, CallTold(t, run[t]), NEW x \in Steps,
           Key(x) # "start", Vsc!Step(t).do = "more" \/ Vsc!Step(t).fails = "retry",
           run[t].goal.kind = "download" => Downloads(x) /\ (Key(x) = "none" \/ (Key(x) = "uart_status" /\ Vsc!Step(t).do = "more")),
           run'[t].todo = <<Vsc!Unlock, Vsc!Lock, x>> \o run[t].todo, run'[t].phase = "next",
           run'[t].goal = run[t].goal, run'[t].alone = run[t].alone, run'[t].blind = run[t].blind,
           UNCHANGED <<fw, family, page, lost>>
    PROVE  CallTold(t, run[t])'
<1> DEFINE r == run[t] s == r.todo h == Head(s) q == <<Vsc!Unlock, Vsc!Lock, x>> p == q \o s
<1>1. s \in Seq(Steps) /\ h = Vsc!Step(t) /\ h \in Elems(s)
  BY VscStepOf DEF Vsc!Step
<1>2. q \in Seq(Steps) /\ Elems(q) = {Vsc!Unlock, Vsc!Lock, x} /\ Head(p).do = "unlock"
  <2>1. q \in Seq(Steps) /\ Len(q) = 3 /\ q[1] = Vsc!Unlock /\ q[2] = Vsc!Lock /\ q[3] = x
    BY LockSteps
  <2>2. \A i \in 1..3 : i = 1 \/ i = 2 \/ i = 3
    OBVIOUS
  <2>3. Elems(q) = {Vsc!Unlock, Vsc!Lock, x}
    <3> HIDE DEF q
    <3> QED BY <2>1, <2>2 DEF Elems
  <2>4. Head(p) = Vsc!Unlock
    <3> HIDE DEF q
    <3>1. q \in Seq(Steps) /\ 1 \in 1..Len(q)
      BY <2>1
    <3>2. p \in Seq(Steps) /\ Len(p) = Len(q) + Len(s) /\ (\A i \in 1..Len(q) : p[i] = q[i]) /\ Len(s) \in Nat
      BY <1>1, <3>1, ConcatOf
    <3> HIDE DEF p
    <3>3. p # <<>>
      BY <2>1, <3>2
    <3> QED BY <2>1, <3>1, <3>2, <3>3, TailOf
  <2> QED BY <2>1, <2>3, <2>4, LockSteps
<1> HIDE DEF q
<1>3. \A k : Ahead(p, k) <=> Ahead(q, k) \/ Ahead(s, k)
  BY <1>1, <1>2, AheadConcat
<1>4. Ahead(p, "start") => Ahead(s, "start")
  <2>1. ~Ahead(q, "start")
    BY <1>2, LockSteps DEF Ahead, Key
  <2> QED BY <1>3, <2>1
<1>5. run'[t].todo = p
  BY DEF q
<1>6. CASE r.goal.kind = "download"
  <2>1. Downloading(s) /\ DownloadTold(r) /\ LossTold(t, r)
    BY <1>6 DEF CallTold
  <2>2. Vsc!Step(t).do = "more" => Ahead(s, "more")
    BY <1>1 DEF Ahead, Key
  <2>3. Downloading(p) /\ \A k \in {"start", "complete", "uart", "more"} : Ahead(p, k) <=> Ahead(s, k)
    BY <1>1, <1>6, <2>1, <2>2, DownloadingRepeat DEF q
  <2> HIDE DEF p
  <2>4. DownloadRest(run[t])' = DownloadRest(r)
    BY <1>5, <2>3 DEF DownloadRest, OwnSide, Copied, OtherSides
  <2>5. DownloadPage(run[t])'
    BY <1>2, <1>5 DEF DownloadPage, Done, Waited
  <2>6. LossRest(run[t])' = LossRest(r) /\ LossPage(run[t])'
    BY <1>5, <2>3 DEF LossRest, LossPage, OwnSide
  <2>7. DownloadTold(run[t])'
    BY <2>1, <2>4, <2>5 DEF DownloadTold
  <2>8. LossTold(t, run[t])'
    BY <1>5, <2>1, <2>3, <2>6 DEF LossTold, Lone
  <2> QED BY <1>4, <1>5, <1>6, <2>3, <2>7, <2>8 DEF CallTold
<1>7. r.goal.kind # "activate file"
  BY <1>1 DEF CallTold, Activates, Installs
<1>8. CASE r.goal.kind \notin {"download", "activate file"}
  BY <1>4, <1>5, <1>8 DEF CallTold
<1> QED BY <1>6, <1>7, <1>8

(* A call begins. *)
LEMMA BeginTold == ASSUME VscBase, NEW t \in Threads, Vsc!Begin(t) PROVE CallTold(t, run[t])'
<1>1. /\ run'[t].todo # <<>> /\ run'[t].phase = "next" /\ Vsc!Step(t)'.do \in Outside
      /\ family # "firmware" => run'[t].goal.kind = "nothing"
  BY BeginStep
<1>2. PICK p \in IF family # "firmware" THEN Vsc!Calls(family) ELSE IF t \in Installers THEN Vsc!Installing ELSE Vsc!Looking :
        run' = [run EXCEPT ![t] = [Vsc!Idle EXCEPT !.todo = p.todo, !.goal = p.goal]]
  BY DEF Vsc!Begin, Vsc!Continue
<1>3. run'[t].todo = p.todo /\ run'[t].goal = p.goal /\ run'[t].found = {} /\ family' = family
  <2>1. Vsc!Idle \in Runs /\ Vsc!Idle.found = {}
    BY IdleType
  <2> DEFINE n == [Vsc!Idle EXCEPT !.todo = p.todo, !.goal = p.goal]
  <2>2. n.todo = p.todo /\ n.goal = p.goal /\ n.found = {}
    BY <2>1 DEF Runs
  <2> HIDE DEF n
  <2>3. run'[t] = n
    BY <1>2 DEF n, VscBase, VscTyped
  <2> QED BY <2>2, <2>3 DEF Vsc!Begin
<1> DEFINE r == run'[t]
<1>4. CASE family # "firmware"
  BY <1>1, <1>3, <1>4 DEF CallTold
<1>5. CASE family = "firmware" /\ t \notin Installers
  <2>1. p \in Vsc!Looking
    BY <1>2, <1>5
  <2> QED BY <1>3, <2>1, LookingProgram DEF CallTold
<1>6. CASE family = "firmware" /\ t \in Installers
  <2>1. p \in Vsc!Installing
    BY <1>2, <1>6
  <2>2. ASSUME r.goal.kind = "download" PROVE Downloading(r.todo) /\ DownloadTold(run[t])' /\ LossTold(t, run[t])'
    <3>1. Downloading(r.todo) /\ Ahead(r.todo, "complete") /\ Ahead(r.todo, "uart") /\ Ahead(r.todo, "more")
      BY <1>3, <2>1, <2>2, InstallingProgram
    <3>2. DownloadTold(run[t])'
      BY <1>1, <3>1 DEF DownloadTold, DownloadRest, DownloadPage, Done, Waited
    <3>3. LossTold(t, run[t])'
      BY <1>1, <3>1 DEF LossTold, LossRest, LossPage
    <3> QED BY <3>1, <3>2, <3>3
  <2>3. ASSUME r.goal.kind = "activate file" PROVE Activates(r.todo) /\ ActivateTold(run[t])'
    <3>1. Activates(r.todo) /\ Ahead(r.todo, "commit")
      BY <1>3, <2>1, <2>3, InstallingProgram
    <3>2. ActivateRest(run[t])'
      BY <1>3, <3>1 DEF ActivateRest, HaveFile
    <3>3. ActivatePage(run[t])'
      BY <1>1 DEF ActivatePage, Done, Waited, Restarts, Outside, Vsc!Step
    <3> QED BY <3>1, <3>2, <3>3 DEF ActivateTold
  <2> QED BY <1>6, <2>2, <2>3 DEF CallTold
<1> QED BY <1>4, <1>5, <1>6

(* The command at which a download is, once the image is complete.           *)
LEMMA LateStep ==
    ASSUME VscBase, NEW t \in Threads, run[t].todo # <<>>, Downloading(run[t].todo), ~Ahead(run[t].todo, "complete"),
           Vsc!Step(t).do = "command"
    PROVE  Vsc!Step(t).reg \in {"uart", "uart_status"} /\ Vsc!Argument(t) = <<>>
<1> DEFINE s == run[t].todo
<1>1. s \in Seq(Steps) /\ Head(s) = Vsc!Step(t) /\ Key(Head(s)) = Vsc!Step(t).reg
  BY VscStepOf DEF Vsc!Step, Key
<1>2. Downloads(Head(s)) /\ (Key(Head(s)) \in {"start", "xfer"} => Ahead(Tail(s), "complete"))
  BY <1>1, DownloadingRest
<1>3. \A k : Ahead(s, k) <=> Key(Head(s)) = k \/ Ahead(Tail(s), k)
  BY <1>1, AheadRest
<1>4. Vsc!Step(t).reg \in {"uart", "uart_status"}
  BY <1>1, <1>2, <1>3 DEF Downloads
<1> QED BY <1>1, <1>2, <1>4 DEF Downloads, Vsc!Argument

(* It writes the attributes of a command: both are there, or one of them     *)
(* after the loss of a write. *)
LEMMA NewAttributes ==
    ASSUME VscBase, NEW t \in Threads, Vsc!WriteAttributes(t)
    PROVE  /\ page'.op \in {page.op, Vsc!Step(t).reg} /\ page'.arg \in {page.arg, Vsc!Argument(t)}
           /\ page'.op = Vsc!Step(t).reg \/ page'.arg = Vsc!Argument(t)
           /\ \/ lost' = lost /\ page'.op = Vsc!Step(t).reg /\ page'.arg = Vsc!Argument(t)
              \/ lost' = lost + 1
<1>1. PICK kept \in {"op", "arg"} :
         LET new == [page EXCEPT !.op = Vsc!Step(t).reg, !.arg = Vsc!Argument(t)]
         IN Vsc!Written(new, [new EXCEPT ![kept] = page[kept]])
  BY DEF Vsc!WriteAttributes
<1> DEFINE new == [page EXCEPT !.op = Vsc!Step(t).reg, !.arg = Vsc!Argument(t)] old == [new EXCEPT ![kept] = page[kept]]
<1>2. page \in Pages
  BY DEF VscBase, VscTyped
<1>3. new.op = Vsc!Step(t).reg /\ new.arg = Vsc!Argument(t)
  BY <1>2 DEF Pages
<1>4. (old.op = page.op /\ old.arg = Vsc!Argument(t)) \/ (old.op = Vsc!Step(t).reg /\ old.arg = page.arg)
  <2>1. CASE kept = "op"
    BY <1>2, <2>1 DEF Pages
  <2>2. CASE kept = "arg"
    BY <1>2, <2>2 DEF Pages
  <2> QED BY <2>1, <2>2
<1> HIDE DEF new, old
<1>5. Vsc!Written(new, old)
  BY <1>1 DEF new, old
<1>6. (page' = new /\ lost' = lost) \/ (page' = old /\ lost' = lost + 1)
  BY <1>5 DEF Vsc!Written
<1> QED BY <1>3, <1>4, <1>6

LEMMA AttributesTold ==
    ASSUME VscBase, NEW t \in Threads, CallTold(t, run[t]), Vsc!WriteAttributes(t) PROVE CallTold(t, run[t])'
<1> DEFINE r == run[t] s == r.todo h == Head(s) n == run'[t]
<1>1. /\ s # <<>> /\ h = Vsc!Step(t) /\ h.do = "command" /\ r.phase = "next" /\ UNCHANGED <<family, fw>>
  BY DEF Vsc!WriteAttributes, Vsc!Doing, Vsc!Step
<1>2. /\ n.todo = s /\ n.goal = r.goal /\ n.found = r.found /\ n.phase = "opcode" /\ n.alone = r.alone /\ n.blind = r.blind
  <2>1. n = [r EXCEPT !.phase = "opcode"] /\ n.todo = s /\ n.goal = r.goal /\ n.found = r.found /\ n.phase = "opcode"
    BY WriteAttributesStep
  <2>2. r \in Runs
    BY DEF VscBase, VscTyped
  <2> QED BY <2>1, <2>2 DEF Runs
<1>3. /\ page'.op \in {page.op, Vsc!Step(t).reg} /\ page'.arg \in {page.arg, Vsc!Argument(t)}
      /\ page'.op = Vsc!Step(t).reg \/ page'.arg = Vsc!Argument(t)
      /\ \/ lost' = lost /\ page'.op = Vsc!Step(t).reg /\ page'.arg = Vsc!Argument(t)
         \/ lost' = lost + 1
  BY NewAttributes
<1>4. lost \in Nat /\ (lost' = 0 => lost = 0) /\ (lost' = 1 => lost = 0 \/ lost = 1)
  <2>1. Loses
    BY <1>3 DEF Loses
  <2> QED BY <2>1, WritesLost
<1>5. lost' = 0 \/ (lost = 1 /\ lost' = 1) => page'.op = Vsc!Step(t).reg /\ page'.arg = Vsc!Argument(t)
  BY <1>3, <1>4
<1> HIDE DEF r, n
<1>6. ASSUME r.goal.kind = "download" PROVE Downloading(s) /\ DownloadTold(run[t])' /\ LossTold(t, run[t])'
  <2>1. Downloading(s) /\ DownloadTold(r) /\ LossTold(t, r)
    BY <1>6 DEF CallTold, r
  <2>2. Ahead(s, "complete") => Ahead(s, "uart")
    BY <1>1, <2>1, VscStepOf, DownloadingRest DEF r
  <2>3. ~Ahead(s, "complete") => Vsc!Step(t).reg \in {"uart", "uart_status"} /\ Vsc!Argument(t) = <<>>
    BY <1>1, <2>1, LateStep DEF r
  <2>4. DownloadRest(run[t])' = DownloadRest(r)
    BY <1>1, <1>2 DEF DownloadRest, OwnSide, Copied, OtherSides, n
  <2>5. DownloadPage(run[t])'
    BY <1>1, <1>2 DEF DownloadPage, Done, Waited, n
  <2>6. DownloadTold(run[t])'
    BY <1>2, <1>4, <2>1, <2>4, <2>5 DEF DownloadTold, n
  <2>7. ASSUME r.alone, lost' = 1, Lone(t) PROVE LossRest(run[t])' /\ LossPage(run[t])'
    <3>1. LossRest(r)
      BY <1>4, <2>1, <2>2, <2>7 DEF LossTold, LossRest, DownloadTold, DownloadRest
    <3>2. LossRest(run[t])'
      BY <1>1, <1>2, <3>1 DEF LossRest, OwnSide, n
    <3>3. SUFFICES ASSUME ~Ahead(s, "complete")
                   PROVE  /\ page'.op # "start" /\ (page'.op \in {"uart", "uart_status"} \/ page'.arg = <<>>)
                          /\ OwnSide \/ page'.op = Vsc!Step(t).reg
      BY <1>1, <1>2, <3>2 DEF LossPage, OwnSide, Done, Waited, n
    <3>4. CASE lost = 1
      BY <1>5, <2>3, <2>7, <3>3, <3>4
    <3>5. CASE lost = 0
      <4>1. OwnSide /\ page.op # "start"
        BY <2>1, <2>7, <3>3, <3>5 DEF DownloadTold, DownloadRest, LossTold
      <4> QED BY <1>3, <2>3, <3>3, <4>1
    <3> QED BY <1>4, <2>7, <3>4, <3>5
  <2>8. lost' = 0 /\ ~Ahead(s, "complete") => page'.op # "start"
    BY <1>5, <2>3
  <2>9. LossTold(t, run[t])'
    BY <1>2, <2>7, <2>8 DEF LossTold, Lone, n
  <2> QED BY <2>1, <2>6, <2>9
<1>7. ASSUME r.goal.kind = "activate file" PROVE Activates(s) /\ ActivateTold(run[t])'
  <2>1. Activates(s) /\ ActivateTold(r)
    BY <1>7 DEF CallTold, r
  <2>2. ActivateRest(run[t])' = ActivateRest(r)
    BY <1>1, <1>2 DEF ActivateRest, HaveFile, Committed, Running, Restarts, n
  <2>3. ActivatePage(run[t])'
    BY <1>1, <1>2 DEF ActivatePage, Done, Waited, Restarts, n
  <2> QED BY <1>2, <1>4, <2>1, <2>2, <2>3 DEF ActivateTold, n
<1> QED BY <1>1, <1>2, <1>6, <1>7 DEF CallTold, n, r

(* It writes the opcode. *)
LEMMA OpcodeTold ==
    ASSUME VscBase, VscPage, NEW t \in Threads, CallTold(t, run[t]), Vsc!WriteOpcode(t) PROVE CallTold(t, run[t])'
<1> DEFINE r == run[t] s == r.todo h == Head(s) n == run'[t]
<1>1. /\ s # <<>> /\ h = Vsc!Step(t) /\ h.do = "command" /\ r.phase = "opcode" /\ UNCHANGED <<family, fw>>
  BY DEF Vsc!WriteOpcode, Vsc!Doing, Vsc!Step
<1>2. /\ n.todo = s /\ n.goal = r.goal /\ n.found = r.found /\ n.phase = "wait" /\ n.alone = r.alone /\ n.blind = r.blind
  <2>1. n = [r EXCEPT !.phase = "wait"] /\ n.todo = s /\ n.goal = r.goal /\ n.found = r.found /\ n.phase = "wait"
    BY WriteOpcodeStep
  <2>2. r \in Runs
    BY DEF VscBase, VscTyped
  <2> QED BY <2>1, <2>2 DEF Runs
<1>3. /\ page'.op = page.op /\ page'.arg = page.arg
      /\ \/ page'.opcode = Vsc!Opcode(Vsc!Step(t).reg) /\ lost' = lost
         \/ page' = page /\ lost' = lost + 1
  <2>1. /\ Vsc!Written([page EXCEPT !.opcode = Vsc!Opcode(Vsc!Step(t).reg), !.by = t], page)
        /\ page \in Pages
    BY DEF Vsc!WriteOpcode, VscBase, VscTyped
  <2> QED BY <2>1 DEF Vsc!Written, Pages
<1>4. lost \in Nat /\ (lost' = 0 => lost = 0) /\ (lost' = 1 => lost = 0 \/ lost = 1)
  <2>1. Loses
    BY <1>3 DEF Loses
  <2> QED BY <2>1, WritesLost
<1>5. lost' = 0 \/ (lost = 1 /\ lost' = 1) => page'.opcode = Vsc!Opcode(Vsc!Step(t).reg)
  BY <1>3, <1>4
<1>6. Vsc!Opcode(Vsc!Step(t).reg) # "none" /\ (lost = 0 => page.op = Vsc!Step(t).reg /\ page.arg = Vsc!Argument(t))
  <2>1. Vsc!Step(t).reg \in Ops
    BY <1>1, VscStepOf DEF Steps
  <2> QED BY <1>1, <2>1, OpcodeType DEF VscPage
<1> HIDE DEF r, n
<1>7. ASSUME r.goal.kind = "download" PROVE Downloading(s) /\ DownloadTold(run[t])' /\ LossTold(t, run[t])'
  <2>1. Downloading(s) /\ DownloadTold(r) /\ LossTold(t, r)
    BY <1>7 DEF CallTold, r
  <2>2. Ahead(s, "complete") => Ahead(s, "uart")
    BY <1>1, <2>1, VscStepOf, DownloadingRest DEF r
  <2>3. ~Ahead(s, "complete") => Vsc!Step(t).reg \in {"uart", "uart_status"} /\ Vsc!Argument(t) = <<>>
    BY <1>1, <2>1, LateStep DEF r
  <2>4. DownloadRest(run[t])' = DownloadRest(r)
    BY <1>1, <1>2 DEF DownloadRest, OwnSide, Copied, OtherSides, n
  <2>5. lost' = 0 => DownloadPage(run[t])'
    BY <1>1, <1>2, <1>5, <1>6 DEF DownloadPage, Done, Waited, n
  <2>6. DownloadTold(run[t])'
    BY <1>2, <1>4, <2>1, <2>4, <2>5 DEF DownloadTold, n
  <2>7. ASSUME r.alone, lost' = 1, Lone(t) PROVE LossRest(run[t])' /\ LossPage(run[t])'
    <3>1. LossRest(r)
      BY <1>4, <2>1, <2>2, <2>7 DEF LossTold, LossRest, DownloadTold, DownloadRest
    <3>2. LossRest(run[t])'
      BY <1>1, <1>2, <3>1 DEF LossRest, OwnSide, n
    <3>3. SUFFICES ASSUME ~Ahead(s, "complete")
                   PROVE  /\ page.op # "start" /\ (page.op \in {"uart", "uart_status"} \/ page.arg = <<>>)
                          /\ OwnSide \/ (page.op = Vsc!Step(t).reg /\ page'.opcode = "fwupd")
      BY <1>1, <1>2, <1>3, <3>2 DEF LossPage, OwnSide, Done, Waited, n
    <3>4. CASE lost = 1
      <4>1. LossPage(r)
        BY <2>1, <2>7, <3>4 DEF LossTold
      <4>2. page'.opcode = "fwupd"
        BY <1>5, <2>3, <2>7, <3>3, <3>4 DEF Vsc!Opcode
      <4> QED BY <1>1, <3>3, <4>1, <4>2 DEF LossPage
    <3>5. CASE lost = 0
      <4>1. OwnSide
        BY <2>1, <2>7, <3>3, <3>5 DEF DownloadTold, DownloadRest
      <4> QED BY <1>6, <2>3, <3>3, <3>5, <4>1
    <3> QED BY <1>4, <2>7, <3>4, <3>5
  <2>8. lost' = 0 /\ Lone(t) /\ ~Ahead(s, "complete") => page'.op # "start"
    BY <1>3, <1>4, <2>1 DEF LossTold
  <2>9. LossTold(t, run[t])'
    BY <1>2, <2>7, <2>8 DEF LossTold, Lone, n
  <2> QED BY <2>1, <2>6, <2>9
<1>8. ASSUME r.goal.kind = "activate file" PROVE Activates(s) /\ ActivateTold(run[t])'
  <2>1. Activates(s) /\ ActivateTold(r) /\ ~Restarts(r)
    BY <1>1, <1>8 DEF CallTold, Restarts, r
  <2>2. HaveFile(run[t].found)' = HaveFile(r.found) /\ Committed(run[t].found)' = Committed(r.found)
        /\ Running(run[t].found)' = Running(r.found)
    BY <1>1, <1>2 DEF HaveFile, Committed, Running, n
  <2>3. Key(h) = "run" => Ahead(s, "run") /\ ~Ahead(s, "commit")
    <3>1. s \in Seq(Steps) /\ Once(s)
      BY <1>1, <2>1, VscStepOf DEF Activates, r
    <3>2. \A k : Ahead(s, k) <=> Key(h) = k \/ Ahead(Tail(s), k)
      BY <1>1, <3>1, AheadRest
    <3>3. Key(h) = "run" => ~Ahead(Tail(s), "commit")
      BY <1>1, <3>1, OnceRest
    <3> QED BY <3>2, <3>3
  <2>4. ASSUME r.alone, lost' = 0 PROVE ActivateRest(run[t])' /\ ActivatePage(run[t])'
    <3>1. ActivateRest(r) /\ lost = 0 /\ page'.opcode # "none"
      BY <1>4, <1>5, <1>6, <2>1, <2>4 DEF ActivateTold
    <3>2. Key(h) = "run" => Committed(r.found)
      BY <2>1, <2>3, <3>1 DEF ActivateRest
    <3>3. ActivateRest(run[t])'
      BY <1>2, <2>1, <2>2, <3>1 DEF ActivateRest, n
    <3>4. ActivatePage(run[t])'
      BY <1>1, <1>2, <2>2, <3>1, <3>2 DEF ActivatePage, Done, Waited, Restarts, n
    <3> QED BY <3>3, <3>4
  <2> QED BY <1>2, <2>1, <2>4 DEF ActivateTold, n
<1> QED BY <1>1, <1>2, <1>7, <1>8 DEF CallTold, n, r

(* A thread takes a step: what the others were told stays true. *)
LEMMA ThreadTold ==
    ASSUME VscBase, VscCalls, VscTold, NEW t \in Threads, run' = [run EXCEPT ![t] = run'[t]], UNCHANGED <<fw, family>>,
           \/ page' = page /\ lost' = lost
           \/ Behind(run[t]) /\ Loses,
           page'.op = "start" => page.op = "start" \/ Ahead(run[t].todo, "start"), CallTold(t, run[t])'
    PROVE  VscTold'
<1>1. \A u \in Threads : CallTold(u, run[u])
  BY DEF VscTold
<1>2. ASSUME NEW u \in Threads \ {t} PROVE CallTold(u, run[u])'
  BY <1>1, OtherTold
<1>3. \A u \in Threads : CallTold(u, run[u])'
  BY <1>2
<1> QED BY <1>3 DEF VscTold, OwnSide

(* Between two commands: *)
LEMMA ReadAnswerTold ==
    ASSUME VscBase, NEW t \in Threads, CallTold(t, run[t]), Vsc!ReadAnswer(t) PROVE CallTold(t, run[t])'
<1>1. /\ run[t].todo # <<>> /\ Vsc!Step(t).do = "fetch" /\ UNCHANGED <<family, page, fw, lost>>
      /\ run' = [run EXCEPT ![t] = IF Len(run[t].todo) = 1 THEN Vsc!Next1(t)
                                   ELSE [Vsc!Next1(t) EXCEPT !.found = @ \cup Vsc!Has(t)]]
  BY DEF Vsc!ReadAnswer, Vsc!Doing, Vsc!Continue
<1> DEFINE n == Vsc!Next1(t) S == n.found \cup Vsc!Has(t) m == [n EXCEPT !.found = S]
<1>2. /\ Onward(run[t], n) /\ run[t].todo \in Seq(Steps) /\ Tail(run[t].todo) # <<>> /\ Acting(run[t])
      /\ Vsc!Step(t) \in Elems(run[t].todo) /\ run[t] \in Runs
  BY <1>1, VscStepOf
<1>3. Len(run[t].todo) # 1
  BY <1>1, <1>2, TailOf
<1>4. run'[t] = m
  <2> HIDE DEF m
  <2>1. run' = [run EXCEPT ![t] = m]
    BY <1>1, <1>3 DEF m
  <2> QED BY <2>1 DEF VscBase, VscTyped
<1>5. /\ m.todo = Tail(run[t].todo) /\ m.todo # <<>> /\ m.phase = "next" /\ m.goal = run[t].goal
      /\ m.alone = run[t].alone /\ m.blind = run[t].blind /\ m.found = run[t].found \cup Vsc!Has(t)
  <2> HIDE DEF n
  <2> QED BY <1>2 DEF Onward, Runs
<1> HIDE DEF m
<1>6. run[t].goal.kind = "activate file" /\ run[t].alone /\ lost = 0 =>
        ~Chosen(run[t].todo) /\ (HaveFile(run[t].found) => HaveFile(run'[t].found))
  <2>1. SUFFICES ASSUME run[t].goal.kind = "activate file", run[t].alone, lost = 0, HaveFile(run[t].found)
                 PROVE  ~Chosen(run[t].todo) /\ HaveFile(run'[t].found)
    <3>1. run[t].goal.kind = "activate file" => ~Chosen(run[t].todo)
      BY <1>1, <1>2 DEF Acting
    <3> QED BY <3>1
  <2>2. ~Chosen(run[t].todo)
    BY <1>1, <1>2, <2>1 DEF Acting
  <2>3. Named
    BY <1>1, <2>1 DEF CallTold, ActivateTold, ActivatePage, Vsc!Step
  <2>4. HaveFile(Vsc!Has(t))
    BY <2>3 DEF Vsc!Has, Named, HaveFile
  <2> QED BY <1>4, <1>5, <2>1, <2>2, <2>4 DEF HaveFile
<1>7. Key(Vsc!Step(t)) = "none" /\ Loses
  BY <1>1 DEF Key, Loses
<1> QED BY <1>1, <1>4, <1>5, <1>6, <1>7, QuietTold

LEMMA ChooseSidesTold ==
    ASSUME VscBase, NEW t \in Threads, CallTold(t, run[t]), Vsc!ChooseSides(t) PROVE CallTold(t, run[t])'
<1>1. /\ run[t].todo # <<>> /\ Vsc!Step(t).do = "any" /\ UNCHANGED <<family, page, fw, lost>>
      /\ run' = [run EXCEPT ![t] = IF Vsc!Chosen(t) = {} THEN Vsc!Ended(t, "ok")
                      ELSE [Vsc!Next1(t) EXCEPT !.found = Vsc!Chosen(t), !.goal.val = Vsc!All(Vsc!Chosen(t), 1)]]
  BY DEF Vsc!ChooseSides, Vsc!Doing, Vsc!Continue
<1> DEFINE n == Vsc!Next1(t) C == Vsc!Chosen(t) g == [n.goal EXCEPT !.val = Vsc!All(C, 1)]
           m == [n EXCEPT !.found = C, !.goal = g]
<1>2. /\ Onward(run[t], n) /\ run[t].goal \in Goals /\ Vsc!Step(t) \in Elems(run[t].todo)
  BY <1>1, VscStepOf
<1>3. CASE C = {}
  <2> DEFINE e == Vsc!Ended(t, "ok")
  <2>1. Over(e)
    BY EndedOver
  <2> HIDE DEF e
  <2>2. run'[t] = e
    BY <1>1, <1>3 DEF e, VscBase, VscTyped
  <2> QED BY <2>1, <2>2, OverTold
<1>4. CASE C # {}
  <2>1. run'[t] = m
    BY <1>1, <1>4 DEF VscBase, VscTyped
  <2>2. C \subseteq run[t].found
    BY DEF Vsc!Chosen
  <2> HIDE DEF n, C
  <2>3. g.kind = run[t].goal.kind
    BY <1>2 DEF Onward, Goals
  <2> HIDE DEF g
  <2>4. /\ m.todo = Tail(run[t].todo) /\ m.todo # <<>> /\ m.phase = "next" /\ m.goal = g /\ m.found = C
        /\ m.alone = run[t].alone /\ m.blind = run[t].blind
    BY <1>2 DEF Onward, Runs
  <2> HIDE DEF m
  <2>5. ~Chosen(run[t].todo) /\ (HaveFile(run[t].found) => HaveFile(run'[t].found))
    BY <1>1, <1>2, <2>1, <2>2, <2>4 DEF Chosen, HaveFile
  <2>6. Key(Vsc!Step(t)) = "none" /\ Loses
    BY <1>1 DEF Key, Loses
  <2> QED BY <1>1, <2>1, <2>3, <2>4, <2>5, <2>6, QuietTold
<1> QED BY <1>3, <1>4

LEMMA ReadMoreTold ==
    ASSUME VscBase, NEW t \in Threads, CallTold(t, run[t]), Vsc!ReadMore(t) PROVE CallTold(t, run[t])'
<1>1. /\ run[t].todo # <<>> /\ Vsc!Step(t).do = "more" /\ UNCHANGED <<family, page, fw, lost>>
  BY DEF Vsc!ReadMore, Vsc!Doing
<1> DEFINE n == Vsc!Next1(t) a == Vsc!Step(t) r == run[t]
           x == IF a.reg = "uart_status" THEN Vsc!Ignoring(Vsc!Cmd("uart_status", <<>>)) ELSE Vsc!Cmd("log_dump", <<>>)
           m == [r EXCEPT !.todo = <<Vsc!Unlock, Vsc!Lock, x>> \o @,
                          !.tries = IF a.reg = "log_dump" THEN @ + 1 ELSE @]
<1>2. /\ Onward(r, n) /\ a \in Steps /\ a \in Elems(r.todo) /\ r \in Runs /\ r.todo \in Seq(Steps) /\ a = Head(r.todo)
  BY <1>1, VscStepOf
<1>3. \/ (Vsc!Enough(t) \/ ~Vsc!GoesOn(t)) /\ run' = [run EXCEPT ![t] = n]
      \/ run' = [run EXCEPT ![t] = m]
  BY DEF Vsc!ReadMore, Vsc!Continue
<1>4. CASE (Vsc!Enough(t) \/ ~Vsc!GoesOn(t)) /\ run' = [run EXCEPT ![t] = n]
  <2>1. run'[t] = n
    BY <1>4 DEF VscBase, VscTyped
  <2> QED BY <1>1, <1>2, <1>4, <2>1, NoMoreTold
<1>5. CASE run' = [run EXCEPT ![t] = m]
  <2>1. a.reg \in {"uart_status", "log_dump"}
    BY <1>1, <1>2 DEF Steps, Polled
  <2>2. /\ x \in Steps /\ x.do = "command" /\ x.reg = a.reg /\ x.val = <<>>
        /\ a.reg = "uart_status" => x.fails = "ignore"
    <3>1. \A op \in {"uart_status", "log_dump"} :
            /\ Vsc!Cmd(op, <<>>) \in Steps /\ Vsc!Cmd(op, <<>>).do = "command" /\ Vsc!Cmd(op, <<>>).reg = op
            /\ Vsc!Cmd(op, <<>>).fails = "stop" /\ Vsc!Cmd(op, <<>>).val = <<>>
      <4>1. \A op \in {"uart_status", "log_dump"} : op \in Ops
        BY DEF Ops
      <4> QED BY <4>1, CmdStep, Arguments
    <3>2. /\ Vsc!Ignoring(Vsc!Cmd("uart_status", <<>>)) \in Steps
          /\ Vsc!Ignoring(Vsc!Cmd("uart_status", <<>>)).do = "command"
          /\ Vsc!Ignoring(Vsc!Cmd("uart_status", <<>>)).reg = "uart_status"
          /\ Vsc!Ignoring(Vsc!Cmd("uart_status", <<>>)).val = <<>>
          /\ Vsc!Ignoring(Vsc!Cmd("uart_status", <<>>)).fails = "ignore"
      BY <3>1, IgnoringStep DEF IsAct
    <3> QED BY <2>1, <3>1, <3>2
  <2> HIDE DEF x
  <2>3. Key(x) = a.reg
    BY <2>2 DEF Key
  <2>4. run[t].goal.kind = "download" => Downloads(x) /\ Key(x) = "uart_status"
    <3>1. SUFFICES ASSUME run[t].goal.kind = "download" PROVE Downloads(x) /\ Key(x) = "uart_status"
      OBVIOUS
    <3>2. Downloads(a)
      BY <1>2, <3>1 DEF CallTold, Downloading
    <3>3. a.reg = "uart_status"
      BY <1>1, <3>2 DEF Downloads
    <3> QED BY <2>2, <2>3, <3>3 DEF Downloads
  <2>5. run[t].phase = "next"
    BY DEF Vsc!ReadMore, Vsc!Doing
  <2>6. /\ m.todo = <<Vsc!Unlock, Vsc!Lock, x>> \o r.todo /\ m.phase = "next" /\ m.goal = r.goal /\ m.alone = r.alone
        /\ m.blind = r.blind
    BY <1>2, <2>5 DEF Runs
  <2> HIDE DEF m
  <2>7. run'[t] = m
    BY <1>5 DEF VscBase, VscTyped
  <2> QED BY <1>1, <2>1, <2>2, <2>3, <2>4, <2>6, <2>7, RepeatTold
<1> QED BY <1>3, <1>4, <1>5

LEMMA BetweenTold == ASSUME VscBase, VscCalls, VscTold, NEW t \in Threads, ThreadBetween(t) PROVE VscTold'
<1>1. CallTold(t, run[t]) /\ run' = [run EXCEPT ![t] = run'[t]]
  BY BetweenSteps DEF VscTold, Between
<1>2. CASE Vsc!Begin(t)
  <2>1. CallTold(t, run[t])' /\ UNCHANGED <<fw, family, page, lost>>
    BY <1>2, BeginTold DEF Vsc!Begin
  <2> QED BY <1>1, <2>1, ThreadTold
<1>3. CASE Vsc!Acquire(t)
  <2>1. Onward(run[t], run'[t]) /\ UNCHANGED <<fw, family, page, lost>> /\ Key(Vsc!Step(t)) = "none" /\ run[t].todo # <<>>
    BY <1>3, AcquireStep DEF Vsc!Acquire, Vsc!Doing, Key
  <2>2. Loses
    BY <2>1 DEF Loses
  <2>3. CallTold(t, run[t])'
    BY <1>1, <2>1, <2>2, QuietTold DEF Onward
  <2> QED BY <1>1, <2>1, <2>3, ThreadTold
<1>4. CASE Vsc!AcquireTimesOut(t) \/ Vsc!CopyingTakesTooLong(t)
  <2>1. run[t].todo # <<>> /\ Vsc!Quit(t) /\ UNCHANGED <<mcu, family, page, fw, lost, ran, good, calls>>
    BY <1>4 DEF Vsc!AcquireTimesOut, Vsc!CopyingTakesTooLong, Vsc!Doing
  <2>2. CallTold(t, run[t])'
    BY <2>1, QuitBase, OverTold
  <2> QED BY <1>1, <2>1, <2>2, ThreadTold
<1>5. CASE Vsc!Release(t)
  <2>1. /\ Over(run'[t]) \/ Onward(run[t], run'[t])
        /\ page' = page \/ page' = Vsc!Blank
    BY <1>5, ReleaseStep
  <2>2. /\ run[t].todo # <<>> /\ Vsc!Step(t).do = "unlock" /\ UNCHANGED <<fw, family, lost>>
        /\ page'.op = "start" => page.op = "start"
    BY <1>5, <2>1 DEF Vsc!Release, Vsc!Doing, Vsc!Blank, Vsc!None
  <2>3. Behind(run[t]) /\ Loses /\ Key(Vsc!Step(t)) = "none"
    BY <2>2, StepBehind DEF Outside, Loses, Key
  <2>4. CallTold(t, run[t])'
    BY <1>1, <2>1, <2>2, <2>3, OverTold, QuietTold DEF Onward
  <2> QED BY <1>1, <2>2, <2>3, <2>4, ThreadTold
<1>6. CASE Vsc!LoadBuffer(t)
  <2>1. /\ run[t].todo # <<>> /\ Vsc!Step(t).do = "load" /\ UNCHANGED <<fw, family>>
        /\ Vsc!Written([page EXCEPT !.buffer = Vsc!Step(t).val[0]], page)
    BY <1>6 DEF Vsc!LoadBuffer, Vsc!Doing
  <2>2. page'.op = page.op /\ Loses
    BY <2>1 DEF Vsc!Written, VscBase, VscTyped, Pages, Loses
  <2>3. Behind(run[t]) /\ Key(Vsc!Step(t)) = "none"
    BY <2>1, StepBehind DEF Outside, Key
  <2>4. Onward(run[t], run'[t])
    BY <1>6, LoadBufferStep
  <2>5. CallTold(t, run[t])'
    BY <1>1, <2>1, <2>2, <2>3, <2>4, QuietTold DEF Onward
  <2> QED BY <1>1, <2>1, <2>2, <2>3, <2>5, ThreadTold
<1>7. CASE Vsc!ReadAnswer(t) \/ Vsc!ReadMore(t) \/ Vsc!ChooseSides(t)
  <2>1. CallTold(t, run[t])'
    BY <1>1, <1>7, ReadAnswerTold, ReadMoreTold, ChooseSidesTold
  <2>2. UNCHANGED <<fw, family, page, lost>>
    BY <1>7 DEF Vsc!ReadAnswer, Vsc!ReadMore, Vsc!ChooseSides
  <2> QED BY <1>1, <2>1, <2>2, ThreadTold
<1>8. CASE Vsc!Raises(t)
  <2>1. CallTold(t, run[t])' /\ UNCHANGED <<fw, family, page, lost>>
    BY <1>8, RaisesStep, OverTold DEF Vsc!Raises
  <2> QED BY <1>1, <2>1, ThreadTold
<1> QED BY <1>2, <1>3, <1>4, <1>5, <1>6, <1>7, <1>8 DEF ThreadBetween

(* at a command, *)
LEMMA CommandTold ==
    ASSUME VscBase, VscPage, VscCalls, VscTold, NEW t \in Threads, Vsc!WriteAttributes(t) \/ Vsc!WriteOpcode(t) PROVE VscTold'
<1>1. CallTold(t, run[t]) /\ run' = [run EXCEPT ![t] = run'[t]]
  BY WriteAttributesStep, WriteOpcodeStep DEF VscTold
<1>2. CallTold(t, run[t])' /\ UNCHANGED <<fw, family>>
  BY <1>1, AttributesTold, OpcodeTold DEF Vsc!WriteAttributes, Vsc!WriteOpcode
<1>3. run[t].todo # <<>> /\ Vsc!Step(t).do = "command"
  BY DEF Vsc!WriteAttributes, Vsc!WriteOpcode, Vsc!Doing
<1>4. Behind(run[t])
  BY <1>3, StepBehind DEF Outside
<1>5. Loses
  BY DEF Vsc!WriteAttributes, Vsc!WriteOpcode, Vsc!Written, Loses
<1>6. page'.op = "start" => page.op = "start" \/ Ahead(run[t].todo, "start")
  <2>1. CASE Vsc!WriteAttributes(t)
    <3>1. page'.op \in {page.op, Vsc!Step(t).reg}
      BY <2>1, NewAttributes
    <3>2. Ahead(run[t].todo, Vsc!Step(t).reg)
      BY <1>3, VscStepOf DEF Ahead, Key
    <3> QED BY <3>1, <3>2
  <2>2. CASE Vsc!WriteOpcode(t)
    <3>1. Vsc!Written([page EXCEPT !.opcode = Vsc!Opcode(Vsc!Step(t).reg), !.by = t], page) /\ page \in Pages
      BY <2>2 DEF Vsc!WriteOpcode, VscBase, VscTyped
    <3> QED BY <3>1 DEF Vsc!Written, Pages
  <2> QED BY <2>1, <2>2
<1> QED BY <1>1, <1>2, <1>4, <1>5, <1>6, ThreadTold

(* and at its end. *)
LEMMA FailsTold ==
    ASSUME VscBase, NEW t \in Threads, run[t].todo # <<>>, Vsc!Step(t).do = "command", CallTold(t, run[t]), Vsc!Fails(t),
           UNCHANGED <<fw, family, page, lost>>
    PROVE  CallTold(t, run[t])'
<1> DEFINE r == run[t] n == Vsc!Next1(t) a == Vsc!Step(t) tries == r.tries + 1
<1>1. /\ r \in Runs /\ a \in Steps /\ Onward(r, n) /\ run \in [Threads -> Runs]
  BY VscStepOf DEF VscBase, VscTyped
<1>2. \/ a.fails = "ignore" /\ run' = [run EXCEPT ![t] = [n EXCEPT !.blind = Vsc!Judged(r.goal)]]
      \/ a.fails = "retry"
         /\ run' = [run EXCEPT ![t] = [r EXCEPT !.todo = <<Vsc!Unlock, Vsc!Lock, Vsc!Load(a.val[0])>> \o @,
                                                !.phase = "next", !.tries = tries]]
      \/ Vsc!Quit(t)
  BY DEF Vsc!Fails, Vsc!Continue
<1>3. CASE a.fails = "ignore" /\ run' = [run EXCEPT ![t] = [n EXCEPT !.blind = Vsc!Judged(r.goal)]]
  <2> DEFINE m == [n EXCEPT !.blind = Vsc!Judged(r.goal)]
  <2>1. run'[t] = m
    BY <1>1, <1>3
  <2> HIDE DEF n
  <2>2. /\ m.todo = Tail(r.todo) /\ m.todo # <<>> /\ m.phase = "next" /\ m.goal = r.goal
        /\ m.alone = r.alone /\ m.blind = Vsc!Judged(r.goal)
    BY <1>1 DEF Runs, Onward
  <2> HIDE DEF m
  <2> QED BY <1>3, <2>1, <2>2, IgnoredTold
<1>4. CASE a.fails = "retry"
           /\ run' = [run EXCEPT ![t] = [r EXCEPT !.todo = <<Vsc!Unlock, Vsc!Lock, Vsc!Load(a.val[0])>> \o @,
                                                  !.phase = "next", !.tries = tries]]
  <2>1. PICK k \in 1..Chunks : a.val = Vsc!One(k)
    BY <1>1, <1>4 DEF Steps
  <2>2. a.val[0] = k /\ k \in Nat
    BY <2>1, Arguments, PartsAssumption DEF Vsc!VscAssumption
  <2> DEFINE x == Vsc!Load(k)
  <2>3. x \in Steps /\ Downloads(x) /\ Key(x) = "none"
    <3>1. x \in Steps /\ x.do = "load" /\ x.fails = "stop"
      BY <2>2 DEF Vsc!Load, Vsc!Access, Steps, Vals, IsAct
    <3> HIDE DEF x
    <3> QED BY <3>1 DEF Downloads, Key
  <2> DEFINE m == [r EXCEPT !.todo = <<Vsc!Unlock, Vsc!Lock, x>> \o @, !.phase = "next", !.tries = tries]
  <2>4. run'[t] = m
    BY <1>1, <1>4, <2>2
  <2> HIDE DEF x, tries
  <2>5. /\ m.todo = <<Vsc!Unlock, Vsc!Lock, x>> \o r.todo /\ m.phase = "next" /\ m.goal = r.goal /\ m.alone = r.alone
        /\ m.blind = r.blind
    BY <1>1 DEF Runs
  <2> HIDE DEF m
  <2> QED BY <1>4, <2>3, <2>4, <2>5, RepeatTold
<1>5. CASE Vsc!Quit(t)
  BY <1>5, QuitStep, OverTold
<1> QED BY <1>2, <1>3, <1>4, <1>5

LEMMA EndTold == ASSUME VscBase, VscPage, VscCalls, VscTold, NEW t \in Threads, EndsCommand(t) PROVE VscTold'
<1>1. CallTold(t, run[t]) /\ run' = [run EXCEPT ![t] = run'[t]]
  BY ReadStatusStep DEF VscTold, EndsCommand
<1>2. /\ run[t].todo # <<>> /\ Vsc!Step(t).do = "command" /\ run[t].phase = "wait" /\ UNCHANGED <<family, page, fw, lost>>
  BY DEF EndsCommand, Vsc!ReadStatus, Vsc!StatusLost, Vsc!TimesOut, Vsc!Doing
<1>3. \/ Vsc!Fails(t)
      \/ /\ page.opcode = "none" /\ Vsc!Suffices(t)
         /\ run' = [run EXCEPT ![t] = [Vsc!Next1(t) EXCEPT !.tries = IF Vsc!Step(t).fails = "retry" THEN 0 ELSE @]]
  BY DEF EndsCommand, Vsc!ReadStatus, Vsc!StatusLost, Vsc!TimesOut, Vsc!Continue, Vsc!None
<1>4. CASE /\ page.opcode = "none" /\ Vsc!Suffices(t)
           /\ run' = [run EXCEPT ![t] = [Vsc!Next1(t) EXCEPT !.tries = IF Vsc!Step(t).fails = "retry" THEN 0 ELSE @]]
  <2> DEFINE n == Vsc!Next1(t) k == IF Vsc!Step(t).fails = "retry" THEN 0 ELSE n.tries m == [n EXCEPT !.tries = k]
  <2>1. Onward(run[t], n)
    BY <1>2, VscStepOf
  <2>2. run'[t] = m
    BY <1>4 DEF VscBase, VscTyped
  <2> HIDE DEF n, k
  <2>3. /\ m.todo = Tail(run[t].todo) /\ m.todo # <<>> /\ m.phase = "next" /\ m.goal = run[t].goal
        /\ m.found = run[t].found /\ m.alone = run[t].alone /\ m.blind = run[t].blind
    BY <2>1 DEF Onward, Runs
  <2> HIDE DEF m
  <2>4. CallTold(t, run[t])'
    BY <1>1, <1>2, <1>4, <2>2, <2>3, DoneTold
  <2> QED BY <1>1, <1>2, <2>4, ThreadTold
<1>5. CASE Vsc!Fails(t)
  <2>1. CallTold(t, run[t])'
    BY <1>1, <1>2, <1>5, FailsTold
  <2> QED BY <1>1, <1>2, <2>1, ThreadTold
<1> QED BY <1>3, <1>4, <1>5

(* The microcontroller: what a command does to the images. *)
Slots == fw'.stage = fw.stage /\ fw'.active = fw.active /\ fw'.inactive = fw.inactive /\ fw'.next = fw.next
LEMMA EffectOf ==
    ASSUME VscBase, fw' = Vsc!Effect
    PROVE  /\ Vsc!Command \notin {"start", "complete", "uart", "commit", "run"} => Slots
           /\ Vsc!Command = "start" => fw'.stage = "loading"
           /\ Vsc!Command = "complete" => fw'.inactive[0] = "file"
           /\ Vsc!Command = "uart" => fw'.stage = "copying" /\ fw'.inactive[0] = fw.inactive[0]
           /\ Vsc!Command = "commit" =>
                /\ fw'.stage = fw.stage /\ fw'.inactive = fw.inactive
                /\ \A s \in Sides : s \in DOMAIN page.arg => fw'.next[s] = "inactive"
           /\ Vsc!Command = "run" =>
                /\ fw'.stage = IF 0 \in DOMAIN page.arg THEN "idle" ELSE fw.stage
                /\ \A s \in Sides :
                    /\ s \in DOMAIN page.arg /\ fw.next[s] = "inactive" => fw'.active[s] = fw.inactive[s]
                    /\ s \notin DOMAIN page.arg => fw'.inactive[s] = fw.inactive[s]
<1>1. fw \in Firmwares /\ 0 \in Sides
  BY PartsAssumption DEF VscBase, VscTyped, Vsc!VscAssumption
<1>2. fw.inactive \in [Sides -> Vsc!Images]
  BY <1>1 DEF Firmwares
<1>3. CASE Vsc!Command = "start"
  <2>1. fw' = [fw EXCEPT !.stage = "loading", !.chunks = {}, !.inactive[0] = "partial"]
    BY <1>3 DEF Vsc!Effect
  <2> QED BY <1>1, <1>3, <2>1 DEF Firmwares
<1>4. CASE Vsc!Command = "xfer"
  <2>1. fw' = [fw EXCEPT !.chunks = @ \cup {page.buffer}]
    BY <1>4 DEF Vsc!Effect
  <2> QED BY <1>1, <1>4, <2>1 DEF Firmwares, Slots
<1>5. CASE Vsc!Command = "complete"
  <2>1. fw' = [fw EXCEPT !.stage = "loaded", !.inactive[0] = "file"]
    BY <1>5 DEF Vsc!Effect
  <2>2. fw'.inactive[0] = "file"
    BY <1>1, <1>2, <2>1 DEF Firmwares
  <2> QED BY <1>5, <2>2
<1>6. CASE Vsc!Command = "uart"
  <2> DEFINE i == [s \in Sides |-> IF s = 0 THEN fw.inactive[s] ELSE "partial"]
  <2>1. fw' = [fw EXCEPT !.stage = "copying", !.inactive = i]
    BY <1>6 DEF Vsc!Effect
  <2>2. i[0] = fw.inactive[0]
    BY <1>1
  <2> HIDE DEF i
  <2>3. fw'.stage = "copying" /\ fw'.inactive = i
    BY <1>1, <2>1 DEF Firmwares
  <2> QED BY <1>6, <2>2, <2>3
<1>7. CASE Vsc!Command = "commit"
  <2> DEFINE d == [s \in Sides |-> IF s \in DOMAIN page.arg THEN "inactive" ELSE fw.next[s]]
  <2>1. fw' = [fw EXCEPT !.next = d]
    BY <1>7 DEF Vsc!Effect
  <2>2. \A s \in Sides : s \in DOMAIN page.arg => d[s] = "inactive"
    OBVIOUS
  <2> HIDE DEF d
  <2>3. fw'.stage = fw.stage /\ fw'.inactive = fw.inactive /\ fw'.next = d
    BY <1>1, <2>1 DEF Firmwares
  <2> QED BY <1>7, <2>2, <2>3
<1>8. CASE Vsc!Command = "run"
  <2> DEFINE S == DOMAIN page.arg
             a == [s \in Sides |-> IF s \in S /\ fw.next[s] = "inactive" THEN fw.inactive[s] ELSE fw.active[s]]
             i == [s \in Sides |-> IF s \in S /\ fw.next[s] = "inactive" THEN fw.active[s] ELSE fw.inactive[s]]
             d == [s \in Sides |-> IF s \in S THEN "active" ELSE fw.next[s]]
             g == IF 0 \in S THEN "idle" ELSE fw.stage
             c == IF 0 \in S THEN {} ELSE fw.chunks
  <2>1. fw' = [fw EXCEPT !.active = a, !.inactive = i, !.next = d, !.stage = g, !.chunks = c]
    BY <1>8 DEF Vsc!Effect, Vsc!RunSides
  <2>2. \A s \in Sides : /\ s \in S /\ fw.next[s] = "inactive" => a[s] = fw.inactive[s]
                         /\ s \notin S => i[s] = fw.inactive[s]
    OBVIOUS
  <2> HIDE DEF a, i, d, g, c
  <2>3. fw'.active = a /\ fw'.inactive = i /\ fw'.stage = g
    BY <1>1, <2>1 DEF Firmwares
  <2>4. g = IF 0 \in S THEN "idle" ELSE fw.stage
    BY DEF g
  <2> QED BY <1>8, <2>2, <2>3, <2>4
<1>9. CASE Vsc!Command \notin {"start", "xfer", "complete", "uart", "commit", "run"}
  <2>1. fw' = fw
    BY <1>9 DEF Vsc!Effect
  <2> QED BY <1>9, <2>1 DEF Slots
<1> QED BY <1>3, <1>4, <1>5, <1>6, <1>7, <1>8, <1>9

(* Who is still alone was so before, and was not disturbed: it waits, or     *)
(* what ran changes no image.                                                *)
LEMMA StillAlone ==
    ASSUME VscBase, Vsc!McuRuns, NEW u \in Threads
    PROVE  /\ run'[u].todo = run[u].todo /\ run'[u].phase = run[u].phase /\ run'[u].goal = run[u].goal
           /\ run'[u].found = run[u].found /\ run'[u].blind = run[u].blind
           /\ run'[u].alone /\ run[u].goal.kind \in {"download", "activate file"} =>
                /\ run[u].alone
                /\ run[u].phase = "wait" \/ Slots
<1> DEFINE r == run[u] d == (u # page.by \/ Vsc!Unawaited(u)) /\ Vsc!Disturbs /\ Vsc!Judged(r.goal)
<1>1. run'[u] = (IF d THEN [r EXCEPT !.alone = FALSE] ELSE r) /\ fw' = Vsc!Effect
  BY DEF Vsc!McuRuns, Vsc!Calm
<1>2. r \in Runs
  BY DEF VscBase, VscTyped
<1>3. r.phase # "wait" /\ ~d /\ r.goal.kind \in {"download", "activate file"} =>
        Vsc!Command \notin {"start", "complete", "uart", "commit", "run"}
  BY DEF Vsc!Unawaited, Vsc!Disturbs, Vsc!Judged
<1>4. r.phase # "wait" /\ ~d /\ r.goal.kind \in {"download", "activate file"} => Slots
  BY <1>1, <1>3, EffectOf
<1>5. d \in BOOLEAN
  OBVIOUS
<1> HIDE DEF d
<1>6. CASE d
  <2>1. run'[u] = [r EXCEPT !.alone = FALSE]
    BY <1>1, <1>6
  <2> QED BY <1>2, <2>1 DEF Runs
<1>7. CASE ~d
  BY <1>1, <1>4, <1>7
<1> QED BY <1>5, <1>6, <1>7

(* The command that is carried out for a download that waits, *)
RanFor(t) ==
    /\ run[t].phase = "wait" /\ page.opcode # "none" /\ fw' = Vsc!Effect /\ Vsc!Possible
    /\ page'.opcode = "none" /\ page'.op = page.op /\ page'.arg = page.arg /\ page'.answer \in Vsc!Answers
    /\ lost' = lost
    /\ run'[t].todo = run[t].todo /\ run'[t].phase = run[t].phase /\ run'[t].goal = run[t].goal
    /\ run'[t].found = run[t].found /\ run'[t].blind = run[t].blind
LEMMA RanDownload ==
    ASSUME VscBase, VscPage, NEW t \in Threads, RanFor(t), Downloading(run[t].todo),
           lost = 0, DownloadRest(run[t])
    PROVE  DownloadRest(run[t])' /\ DownloadPage(run[t])'
<1> DEFINE r == run[t] s == r.todo h == Head(s) k == Key(h) n == run'[t]
<1>1. /\ s # <<>> /\ h = Vsc!Step(t) /\ h.do = "command" /\ Vsc!Command = k /\ s \in Seq(Steps) /\ k = h.reg
  BY UnderWay, VscStepOf DEF RanFor, Vsc!Step, Key
<1>2. n.todo = s /\ n.phase = "wait" /\ n.blind = r.blind /\ page'.opcode = "none"
  BY DEF RanFor
<1>3. /\ Downloads(h)
      /\ k \in {"start", "xfer"} => Ahead(Tail(s), "complete")
      /\ k \in {"start", "xfer", "complete"} => Ahead(Tail(s), "uart")
      /\ k \in {"start", "xfer", "complete", "uart", "uart_status"} => Ahead(Tail(s), "more")
  BY <1>1, DownloadingRest
<1>4. \A x : Ahead(s, x) <=> k = x \/ Ahead(Tail(s), x)
  BY <1>1, AheadRest
<1>5. k \in {"start", "xfer", "complete", "uart", "uart_status"}
  BY <1>1, <1>3 DEF Downloads
<1>6. /\ k \in {"xfer", "uart_status"} => Slots
      /\ k = "complete" => fw'.inactive[0] = "file"
      /\ k = "uart" => fw'.stage = "copying" /\ fw'.inactive[0] = fw.inactive[0]
  BY <1>1, EffectOf DEF RanFor
<1>7. Slots => OwnSide' = OwnSide /\ Copied' = Copied /\ OtherSides' = OtherSides
  BY DEF Slots, OwnSide, Copied, OtherSides
<1> HIDE DEF r, s, h, k, n
<1>8. Head(s).do = "command" /\ Key(Head(s)) = k
  BY <1>1 DEF h, k
<1>9. Head(s).do # "more"
  BY <1>8
<1>10. SUFFICES /\ ~Ahead(s, "complete") => OwnSide'
                /\ ~Ahead(s, "uart") => Copied'
                /\ ~Ahead(s, "more") /\ ~r.blind => OtherSides'
                /\ k = "complete" => OwnSide'
                /\ k = "uart" => Copied'
                /\ k = "uart_status" /\ ~Ahead(s, "uart") => Seen'
  BY <1>2, <1>8, <1>9 DEF DownloadRest, DownloadPage, Done, Waited, n
<1>11. /\ ~Ahead(s, "complete") => OwnSide
       /\ ~Ahead(s, "uart") => Copied
  BY DEF DownloadRest, s, r
<1>12. Ahead(s, "more")
  BY <1>3, <1>4, <1>5
<1>13. CASE k \in {"start", "xfer"}
  BY <1>3, <1>4, <1>12, <1>13
<1>14. CASE k = "complete"
  <2>1. OwnSide' /\ Ahead(s, "uart")
    BY <1>3, <1>4, <1>6, <1>14 DEF OwnSide
  <2> QED BY <1>12, <1>14, <2>1
<1>15. CASE k = "uart"
  <2>1. Copied' /\ OwnSide' = OwnSide
    BY <1>6, <1>15 DEF Copied, OwnSide
  <2> QED BY <1>11, <1>12, <1>15, <2>1
<1>16. CASE k = "uart_status"
  <2>1. OwnSide' = OwnSide /\ Copied' = Copied /\ OtherSides' = OtherSides /\ fw'.stage = fw.stage
    BY <1>6, <1>7, <1>16 DEF Slots
  <2>2. page'.answer = <<"uart_status", Vsc!One(IF fw.stage = "copying" THEN 1 ELSE 0)>>
    BY <1>1, <1>16 DEF RanFor, Vsc!Answers, k, h
  <2>3. Copied => Seen'
    BY <2>1, <2>2 DEF Copied, Seen
  <2> QED BY <1>11, <1>12, <1>16, <2>1, <2>3
<1> QED BY <1>5, <1>13, <1>14, <1>15, <1>16

(* even after the loss of a write, *)
LEMMA RanAfterLoss ==
    ASSUME VscBase, NEW t \in Threads, RanFor(t), Downloading(run[t].todo), fw.stage \in {"loaded", "copying"} => OwnSide,
           LossRest(run[t]), LossPage(run[t])
    PROVE  LossRest(run[t])' /\ LossPage(run[t])'
<1> DEFINE r == run[t] s == r.todo h == Head(s) n == run'[t]
<1>1. s # <<>> /\ h = Vsc!Step(t) /\ h.do = "command" /\ s \in Seq(Steps) /\ Key(h) = h.reg
  BY AtCommand, VscStepOf DEF RanFor, Vsc!Step, Key
<1>2. n.todo = s /\ n.phase = "wait" /\ page'.opcode = "none" /\ page'.op = page.op /\ page'.arg = page.arg
      /\ r.phase = "wait" /\ page.opcode # "none" /\ fw' = Vsc!Effect /\ Vsc!Possible
  BY DEF RanFor
<1>3. Ahead(s, "complete") => Ahead(s, "uart")
  BY <1>1, DownloadingRest
<1>4. SUFFICES ASSUME ~Ahead(s, "complete")
               PROVE  /\ OwnSide => OwnSide'
                      /\ ~OwnSide => page.op = h.reg /\ h.reg # "uart"
  BY <1>1, <1>2, <1>3 DEF LossRest, LossPage, Done, Waited, OwnSide
<1>5. /\ page.op # "start" /\ (page.op \in {"uart", "uart_status"} \/ page.arg = <<>>)
      /\ OwnSide \/ (page.op = h.reg /\ page.opcode = "fwupd")
  BY <1>2, <1>4 DEF LossPage
<1>6. h.reg \in {"uart", "uart_status"}
  BY <1>1, <1>4, LateStep
<1>7. Vsc!Command \in {page.op, "other"}
  BY DEF Vsc!Command
<1>8. 0 \in Sides
  BY PartsAssumption DEF Vsc!VscAssumption
<1>9. ASSUME OwnSide PROVE OwnSide'
  <2>1. CASE Vsc!Command = "run"
    <3>1. page.arg = <<>> /\ DOMAIN <<>> = {}
      BY <1>5, <1>7, <2>1
    <3>2. 0 \notin DOMAIN page.arg
      BY <3>1
    <3> QED BY <1>2, <1>8, <1>9, <2>1, <3>2, EffectOf DEF OwnSide
  <2>2. CASE Vsc!Command # "run"
    <3>1. Vsc!Command # "start"
      BY <1>5, <1>7
    <3> QED BY <1>2, <1>9, <2>2, <3>1, EffectOf DEF OwnSide, Slots
  <2> QED BY <2>1, <2>2
<1>10. ASSUME ~OwnSide PROVE h.reg # "uart"
  <2>1. SUFFICES ASSUME h.reg = "uart" PROVE FALSE
    OBVIOUS
  <2>2. Vsc!Command = "uart"
    BY <1>5, <1>10, <2>1 DEF Vsc!Command, Vsc!Opcode
  <2>3. fw.stage = "loaded"
    BY <1>2, <2>2 DEF Vsc!Possible
  <2> QED BY <1>10, <2>3
<1> QED BY <1>5, <1>9, <1>10

(* and for an activation. *)
LEMMA NamedOf ==
    ASSUME NEW S, page'.answer = <<"get_info", Vsc!All(S, 1)>>, \A s \in S : fw'.inactive[s] = "file"
    PROVE  Named'
<1>1. PICK v : v = Vsc!All(S, 1)
  OBVIOUS
<1>2. DOMAIN v = S /\ page'.answer = <<"get_info", v>>
  BY <1>1, Arguments
<1> QED BY <1>2 DEF Named, HaveFile

LEMMA RanActivate ==
    ASSUME VscBase, VscPage, NEW t \in Threads, RanFor(t), Activates(run[t].todo), run[t].goal.kind = "activate file",
           lost = 0, ActivateRest(run[t]), ActivatePage(run[t])
    PROVE  ActivateRest(run[t])' /\ ActivatePage(run[t])'
<1> DEFINE r == run[t] s == r.todo h == Head(s) k == Key(h) n == run'[t] F == r.found
           Have1 == \A x \in F : fw'.inactive[x] = "file" Run1 == \A x \in F : fw'.active[x] = "file"
           Commit1 == Have1 /\ \A x \in F : fw'.next[x] = "inactive"
<1>1. /\ s # <<>> /\ h = Vsc!Step(t) /\ h.do = "command" /\ Vsc!Command = k /\ s \in Seq(Steps) /\ k = h.reg
      /\ page.arg = Vsc!Argument(t) /\ h \in Elems(s) /\ Acting(r) /\ F \subseteq Sides
  BY UnderWay, VscStepOf DEF RanFor, Vsc!Step, Key, Runs
<1>2. n.todo = s /\ n.phase = "wait" /\ n.found = F /\ page'.opcode = "none" /\ r.phase = "wait" /\ page.opcode # "none"
  BY DEF RanFor
<1>3. k \in {"get_info", "commit", "run"}
  BY <1>1 DEF Activates, Installs
<1>4. \A x : Ahead(s, x) <=> k = x \/ Ahead(Tail(s), x)
  BY <1>1, AheadRest
<1>5. k = "run" => ~Ahead(Tail(s), "commit")
  BY <1>1, OnceRest DEF Activates
<1>6. k \in {"commit", "run"} => DOMAIN page.arg = F
  <2> DEFINE x == Vsc!All(F, 1)
  <2>1. DOMAIN x = F
    BY Arguments
  <2> HIDE DEF x
  <2>2. ASSUME k \in {"commit", "run"} PROVE page.arg = x
    <3>1. h.val = <<>>
      BY <1>1, <2>2 DEF Acting, IsAct
    <3> QED BY <1>1, <2>2, <3>1 DEF Vsc!Argument, Vsc!Marked, x
  <2> QED BY <2>1, <2>2
<1>7. /\ k = "get_info" => Slots
      /\ k = "commit" => fw'.inactive = fw.inactive /\ \A x \in F : fw'.next[x] = "inactive"
      /\ k = "run" => \A x \in F : fw.next[x] = "inactive" => fw'.active[x] = fw.inactive[x]
  BY <1>1, <1>6, EffectOf DEF RanFor
<1>8. ActivateRest(r) /\ ActivatePage(r)
  OBVIOUS
<1> HIDE DEF r, s, h, k, n, F, Have1, Commit1, Run1
<1>9. Head(s).do = "command" /\ Key(Head(s)) = k /\ r.todo = s /\ r.found = F
  BY <1>1 DEF h, k, s, F
<1>10. Head(s).do # "fetch"
  BY <1>9
<1>11. SUFFICES /\ Ahead(s, "commit") => Have1
                /\ ~Ahead(s, "commit") => Chosen(s) /\ (Ahead(s, "run") /\ k # "run" => Commit1)
                                                    /\ (~Ahead(s, "run") => Run1)
                /\ k = "get_info" => Named'
                /\ k = "commit" => Commit1
                /\ k = "run" => Run1
  <2>1. HaveFile(run[t].found)' = Have1 /\ Committed(run[t].found)' = Commit1 /\ Running(run[t].found)' = Run1
    BY <1>2 DEF HaveFile, Committed, Running, n, Have1, Commit1, Run1
  <2> QED BY <1>2, <1>9, <1>10, <2>1 DEF ActivateRest, ActivatePage, Waited, Done, Restarts, n
<1>12. /\ Ahead(s, "commit") => HaveFile(F)
       /\ ~Ahead(s, "commit") => Chosen(s) /\ (Ahead(s, "run") /\ k # "run" => Committed(F))
                                           /\ (~Ahead(s, "run") => Running(F))
       /\ k = "run" => Committed(F)
  BY <1>2, <1>8, <1>9 DEF ActivateRest, ActivatePage, Restarts
<1>13. CASE k = "get_info"
  <2>1. Have1 = HaveFile(F) /\ Commit1 = Committed(F) /\ Run1 = Running(F) /\ fw'.inactive = fw.inactive
    BY <1>7, <1>13 DEF Slots, HaveFile, Committed, Running, Have1, Commit1, Run1
  <2>2. page'.answer = <<"get_info", Vsc!All(Vsc!Holders, 1)>>
    BY <1>1, <1>13 DEF RanFor, Vsc!Answers, k, h
  <2>3. \A x \in Vsc!Holders : fw'.inactive[x] = "file"
    BY <2>1 DEF Vsc!Holders
  <2>4. Named'
    BY <2>2, <2>3, NamedOf
  <2> QED BY <1>12, <1>13, <2>1, <2>4
<1>14. CASE k = "commit"
  <2>1. Ahead(s, "commit") /\ HaveFile(F)
    BY <1>4, <1>12, <1>14
  <2>2. Have1 /\ Commit1
    BY <1>7, <1>14, <2>1 DEF HaveFile, Have1, Commit1
  <2> QED BY <1>14, <2>1, <2>2
<1>15. CASE k = "run"
  <2>1. ~Ahead(s, "commit") /\ Ahead(s, "run")
    BY <1>4, <1>5, <1>15
  <2>2. Run1
    BY <1>7, <1>12, <1>15 DEF Committed, HaveFile, Run1
  <2> QED BY <1>12, <1>15, <2>1, <2>2
<1> QED BY <1>3, <1>13, <1>14, <1>15

(* The microcontroller carries a command out, *)
LEMMA RunsTold == ASSUME VscBase, VscPage, VscTold, Vsc!McuRuns PROVE VscTold'
<1>1. /\ page.opcode # "none" /\ Vsc!Possible /\ fw' = Vsc!Effect /\ family' = family /\ lost' = lost
  BY DEF Vsc!McuRuns, Vsc!None
<1>2. /\ page'.opcode = "none" /\ page'.op = page.op /\ page'.arg = page.arg /\ page'.answer \in Vsc!Answers
  <2>1. PICK a \in Vsc!Answers : page' = [page EXCEPT !.opcode = "none", !.by = Nobody, !.status = "ok", !.answer = a]
    BY McuRunsStep
  <2> QED BY <2>1 DEF VscBase, VscTyped, Pages
<1>3. (fw.stage \in {"loaded", "copying"} => OwnSide) /\ \A u \in Threads : CallTold(u, run[u])
  BY DEF VscTold
<1>4. fw'.stage \in {"loaded", "copying"} => OwnSide'
  <2>1. 0 \in Sides
    BY PartsAssumption DEF Vsc!VscAssumption
  <2>2. CASE Vsc!Command \in {"start", "complete"}
    BY <1>1, <2>2, EffectOf DEF OwnSide
  <2>3. CASE Vsc!Command = "uart"
    <3>1. fw.stage = "loaded"
      BY <1>1, <2>3 DEF Vsc!Possible
    <3> QED BY <1>1, <1>3, <2>3, <3>1, EffectOf DEF OwnSide
  <2>4. CASE Vsc!Command = "run"
    BY <1>1, <1>3, <2>1, <2>4, EffectOf DEF OwnSide
  <2>5. CASE Vsc!Command \notin {"start", "complete", "uart", "run"}
    BY <1>1, <1>3, <2>5, EffectOf DEF OwnSide, Slots
  <2> QED BY <2>2, <2>3, <2>4, <2>5
<1>5. ASSUME NEW u \in Threads PROVE CallTold(u, run[u])'
  <2> DEFINE r == run[u] n == run'[u] s == r.todo
  <2>1. /\ n.todo = s /\ n.phase = r.phase /\ n.goal = r.goal /\ n.found = r.found /\ n.blind = r.blind
        /\ n.alone /\ r.goal.kind \in {"download", "activate file"} =>
             /\ r.alone
             /\ r.phase = "wait" \/ Slots
    BY StillAlone
  <2>2. CallTold(u, r)
    BY <1>3
  <2>3. r.phase = "wait" => RanFor(u)
    BY <1>1, <1>2, <2>1 DEF RanFor
  <2>4. ASSUME r.goal.kind = "download" PROVE DownloadTold(run[u])' /\ LossTold(u, run[u])'
    <3>1. Downloading(s) /\ DownloadTold(r) /\ LossTold(u, r)
      BY <2>2, <2>4 DEF CallTold
    <3>2. ASSUME n.alone, lost = 0 PROVE DownloadRest(run[u])' /\ DownloadPage(run[u])'
      <4>1. r.alone /\ DownloadRest(r) /\ DownloadPage(r)
        BY <2>1, <2>4, <3>1, <3>2 DEF DownloadTold
      <4>2. CASE r.phase = "wait"
        BY <2>3, <3>1, <3>2, <4>1, <4>2, RanDownload
      <4>3. CASE r.phase # "wait"
        <5>1. Slots
          BY <2>1, <2>4, <3>2, <4>3
        <5>2. OwnSide' = OwnSide /\ Copied' = Copied /\ OtherSides' = OtherSides
          BY <5>1 DEF Slots, OwnSide, Copied, OtherSides
        <5>3. DownloadRest(run[u])'
          BY <2>1, <4>1, <5>2 DEF DownloadRest
        <5>4. ~Ahead(s, "uart") /\ Head(s).do = "more" => r.blind
          BY <1>1, <4>1 DEF DownloadPage
        <5>5. DownloadPage(run[u])'
          BY <2>1, <4>3, <5>4 DEF DownloadPage, Done, Waited
        <5> QED BY <5>3, <5>5
      <4> QED BY <4>2, <4>3
    <3>3. ASSUME n.alone, lost = 1, Lone(u) PROVE LossRest(run[u])' /\ LossPage(run[u])'
      <4>1. r.alone /\ LossRest(r) /\ LossPage(r)
        BY <2>1, <2>4, <3>1, <3>3 DEF LossTold
      <4>2. CASE r.phase = "wait"
        BY <1>3, <2>3, <3>1, <4>1, <4>2, RanAfterLoss
      <4>3. CASE r.phase # "wait"
        <5>1. Slots
          BY <2>1, <2>4, <3>3, <4>3
        <5>2. OwnSide' = OwnSide
          BY <5>1 DEF Slots, OwnSide
        <5> QED BY <1>2, <2>1, <4>1, <4>3, <5>2 DEF LossRest, LossPage, Done, Waited
      <4> QED BY <4>2, <4>3
    <3>4. DownloadTold(run[u])'
      BY <1>1, <3>2 DEF DownloadTold
    <3>5. lost = 0 /\ Lone(u) /\ ~Ahead(s, "complete") => page'.op # "start"
      BY <1>2, <3>1 DEF LossTold
    <3>6. LossTold(u, run[u])'
      BY <1>1, <2>1, <3>3, <3>5 DEF LossTold, Lone
    <3> QED BY <3>4, <3>6
  <2>5. ASSUME r.goal.kind = "activate file" PROVE ActivateTold(run[u])'
    <3>1. Activates(s) /\ ActivateTold(r)
      BY <2>2, <2>5 DEF CallTold
    <3>2. ASSUME n.alone, lost = 0 PROVE ActivateRest(run[u])' /\ ActivatePage(run[u])'
      <4>1. r.alone /\ ActivateRest(r) /\ ActivatePage(r)
        BY <2>1, <2>5, <3>1, <3>2 DEF ActivateTold
      <4>2. CASE r.phase = "wait"
        BY <2>3, <2>5, <3>1, <3>2, <4>1, <4>2, RanActivate
      <4>3. CASE r.phase # "wait"
        <5>1. Slots
          BY <2>1, <2>5, <3>2, <4>3
        <5>2. ActivateRest(run[u])'
          BY <2>1, <4>1, <5>1 DEF Slots, ActivateRest, HaveFile, Committed, Running, Restarts
        <5>3. Head(s).do # "fetch"
          BY <1>1, <4>1 DEF ActivatePage
        <5>4. ActivatePage(run[u])'
          BY <2>1, <4>3, <5>3 DEF ActivatePage, Done, Waited, Restarts
        <5> QED BY <5>2, <5>4
      <4> QED BY <4>2, <4>3
    <3> QED BY <1>1, <3>2 DEF ActivateTold
  <2> QED BY <1>1, <2>1, <2>2, <2>4, <2>5 DEF CallTold
<1> QED BY <1>4, <1>5 DEF VscTold

(* or refuses it; *)
LEMMA RefusesTold == ASSUME VscBase, VscTold, Vsc!McuRefuses PROVE VscTold'
<1>1. /\ page.opcode # "none" /\ UNCHANGED <<family, fw, run, lost>>
  BY DEF Vsc!McuRefuses, Vsc!None
<1>2. page'.opcode = "none" /\ page'.op = page.op /\ page'.arg = page.arg /\ page'.status # "ok"
  BY McuRefusesStep
<1>3. page'.status # "error" => Named'
  <2>1. SUFFICES ASSUME page'.status # "error" PROVE page'.answer = <<"get_info", Vsc!All(Vsc!Holders \cap {0}, 1)>>
    <3>1. \A s \in Vsc!Holders \cap {0} : fw'.inactive[s] = "file"
      BY <1>1 DEF Vsc!Holders
    <3> QED BY <3>1, NamedOf
  <2>2. page' # [page EXCEPT !.opcode = "none", !.by = Nobody, !.status = "error"]
    BY <2>1 DEF VscBase, VscTyped, Pages
  <2>3. PICK x : x = <<"get_info", Vsc!All(Vsc!Holders \cap {0}, 1)>>
    OBVIOUS
  <2>4. page' = [page EXCEPT !.opcode = "none", !.by = Nobody, !.status = "uart timeout", !.answer = x]
    BY <2>2, <2>3 DEF Vsc!McuRefuses, Vsc!None
  <2>5. page'.answer = x
    BY <2>4 DEF VscBase, VscTyped, Pages
  <2> QED BY <2>3, <2>5
<1>4. ASSUME NEW u \in Threads PROVE CallTold(u, run[u])'
  <2> DEFINE r == run[u]
  <2>1. CallTold(u, r) /\ run'[u] = r
    BY <1>1 DEF VscTold
  <2>2. OwnSide' = OwnSide /\ Copied' = Copied /\ OtherSides' = OtherSides
    BY <1>1 DEF OwnSide, Copied, OtherSides
  <2>3. ASSUME r.goal.kind = "download" PROVE DownloadTold(run[u])' /\ LossTold(u, run[u])'
    <3>1. DownloadTold(r) /\ LossTold(u, r)
      BY <2>1, <2>3 DEF CallTold
    <3>2. DownloadRest(run[u])' = DownloadRest(r)
      BY <2>1, <2>2 DEF DownloadRest
    <3>3. DownloadPage(r) => DownloadPage(run[u])'
      BY <1>1, <1>2, <2>1 DEF DownloadPage, Done, Waited
    <3>4. LossRest(r) /\ LossPage(r) => LossRest(run[u])' /\ LossPage(run[u])'
      BY <1>2, <2>1, <2>2 DEF LossRest, LossPage, Done, Waited
    <3>5. DownloadTold(run[u])'
      BY <1>1, <2>1, <3>1, <3>2, <3>3 DEF DownloadTold
    <3>6. LossTold(u, run[u])'
      BY <1>1, <1>2, <2>1, <3>1, <3>4 DEF LossTold, Lone
    <3> QED BY <3>5, <3>6
  <2>4. ASSUME r.goal.kind = "activate file" PROVE ActivateTold(run[u])'
    <3>1. ActivateTold(r)
      BY <2>1, <2>4 DEF CallTold
    <3>2. ActivateRest(run[u])' = ActivateRest(r)
      BY <1>1, <2>1 DEF ActivateRest, HaveFile, Committed, Running, Restarts
    <3>3. ActivatePage(r) => ActivatePage(run[u])'
      BY <1>1, <1>2, <1>3, <2>1 DEF ActivatePage, Done, Waited, Restarts
    <3> QED BY <1>1, <2>1, <3>1, <3>2, <3>3 DEF ActivateTold
  <2> QED BY <1>1, <2>1, <2>3, <2>4 DEF CallTold
<1> QED BY <1>1, <1>4 DEF VscTold, OwnSide

(* and it finishes its copying. *)
LEMMA CopiedTold == ASSUME VscBase, VscTold, Vsc!McuCopied PROVE VscTold'
<1> DEFINE i == [s \in Sides |-> IF s = 0 THEN fw.inactive[s] ELSE "file"]
<1>1. UNCHANGED <<family, page, run, lost>> /\ fw'.active = fw.active /\ fw'.next = fw.next
  BY McuCopiedStep DEF Vsc!McuCopied
<1>2. fw' = [fw EXCEPT !.stage = "idle", !.inactive = i] /\ fw \in Firmwares /\ 0 \in Sides
  BY PartsAssumption DEF Vsc!McuCopied, VscBase, VscTyped, Vsc!VscAssumption
<1>3. \A s \in Sides : i[s] = IF s = 0 THEN fw.inactive[s] ELSE "file"
  OBVIOUS
<1> HIDE DEF i
<1>4. fw'.stage = "idle" /\ \A s \in Sides : fw'.inactive[s] = IF s = 0 THEN fw.inactive[s] ELSE "file"
  BY <1>2, <1>3 DEF Firmwares
<1>5. OwnSide' = OwnSide /\ OtherSides' /\ Copied'
  BY <1>2, <1>4 DEF OwnSide, OtherSides, Copied
<1>6. \A S \in SUBSET Sides : \A s \in S : fw.inactive[s] = "file" => fw'.inactive[s] = "file"
  BY <1>4
<1>7. page.answer[2] \in Vals
  BY DEF VscBase, VscTyped, Pages
<1>8. DOMAIN page.answer[2] \in SUBSET Sides
  BY <1>7, Arguments
<1>9. Named => Named'
  BY <1>1, <1>6, <1>8 DEF Named, HaveFile
<1>10. ASSUME NEW u \in Threads PROVE CallTold(u, run[u])'
  <2> DEFINE r == run[u]
  <2>1. CallTold(u, r) /\ run'[u] = r /\ page' = page
    BY <1>1 DEF VscTold
  <2>2. r.found \in SUBSET Sides
    BY DEF VscBase, VscTyped, Runs
  <2>3. ASSUME r.goal.kind = "download" PROVE DownloadTold(run[u])' /\ LossTold(u, run[u])'
    <3>1. DownloadTold(r) /\ LossTold(u, r)
      BY <2>1, <2>3 DEF CallTold
    <3>2. DownloadRest(r) => DownloadRest(run[u])'
      BY <1>5, <2>1 DEF DownloadRest
    <3>3. DownloadPage(r) => DownloadPage(run[u])'
      BY <1>5, <2>1 DEF DownloadPage, Done, Waited, Seen
    <3>4. LossRest(r) /\ LossPage(r) => LossRest(run[u])' /\ LossPage(run[u])'
      BY <1>5, <2>1 DEF LossRest, LossPage, Done, Waited
    <3>5. DownloadTold(run[u])'
      BY <1>1, <2>1, <3>1, <3>2, <3>3 DEF DownloadTold
    <3>6. LossTold(u, run[u])'
      BY <1>1, <2>1, <3>1, <3>4 DEF LossTold, Lone
    <3> QED BY <3>5, <3>6
  <2>4. ASSUME r.goal.kind = "activate file" PROVE ActivateTold(run[u])'
    <3>1. ActivateTold(r)
      BY <2>1, <2>4 DEF CallTold
    <3>2. HaveFile(r.found) => HaveFile(run[u].found)'
      BY <1>6, <2>1, <2>2 DEF HaveFile
    <3>3. Committed(r.found) => Committed(run[u].found)'
      BY <1>1, <2>1, <3>2 DEF Committed
    <3>4. Running(r.found) => Running(run[u].found)'
      BY <1>1, <2>1 DEF Running
    <3>5. ActivateRest(r) => ActivateRest(run[u])'
      BY <2>1, <3>2, <3>3, <3>4 DEF ActivateRest, Restarts
    <3>6. ActivatePage(r) => ActivatePage(run[u])'
      BY <1>9, <2>1, <3>3, <3>4 DEF ActivatePage, Done, Waited, Restarts
    <3> QED BY <1>1, <2>1, <3>1, <3>5, <3>6 DEF ActivateTold
  <2> QED BY <1>1, <2>1, <2>3, <2>4 DEF CallTold
<1> QED BY <1>4, <1>10 DEF VscTold

LEMMA ToldInit == ASSUME Vsc!Init PROVE VscTold
<1>1. fw.stage = "idle"
  BY DEF Vsc!Init, Vsc!Fw
<1>2. ASSUME NEW t \in Threads PROVE run[t].todo = <<>> /\ run[t].goal.kind = "nothing"
  <2>1. run[t] = Vsc!Returned("nothing")
    BY IdleRun DEF Vsc!Init
  <2> QED BY <2>1, EndedRun
<1>3. ASSUME NEW t \in Threads PROVE CallTold(t, run[t])
  <2>1. ~Ahead(run[t].todo, "start")
    BY <1>2 DEF Ahead, Elems
  <2> QED BY <1>2, <2>1 DEF CallTold
<1> QED BY <1>1, <1>3 DEF VscTold

LEMMA ToldNext == ASSUME VscInv, VscTold, Vsc!Next PROVE VscTold'
<1>1. VscBase /\ VscPage /\ VscCalls
  BY DEF VscInv, VscRest
<1>2. CASE \E t \in Threads : ThreadBetween(t)
  BY <1>1, <1>2, BetweenTold
<1>3. CASE \E t \in Threads : Vsc!WriteAttributes(t) \/ Vsc!WriteOpcode(t)
  BY <1>1, <1>3, CommandTold
<1>4. CASE \E t \in Threads : EndsCommand(t)
  BY <1>1, <1>4, EndTold
<1> QED BY <1>1, <1>2, <1>3, <1>4, VscSteps, RunsTold, RefusesTold, CopiedTold

LEMMA ToldStutter == ASSUME VscTold, UNCHANGED <<family, run, ofVsc>> PROVE VscTold'
<1>1. UNCHANGED <<family, run, page, fw, lost>>
  BY DEF ofVsc
<1>2. OwnSide' = OwnSide /\ Copied' = Copied /\ OtherSides' = OtherSides /\ Seen' = Seen /\ Named' = Named
  BY <1>1 DEF OwnSide, Copied, OtherSides, Seen, Named, HaveFile
<1>3. ASSUME NEW t \in Threads PROVE CallTold(t, run[t])'
  <2>1. CallTold(t, run[t])
    BY DEF VscTold
  <2>2. DownloadTold(run[t]) => DownloadTold(run[t])'
    BY <1>1, <1>2 DEF DownloadTold, DownloadRest, DownloadPage, Done, Waited
  <2>3. LossTold(t, run[t]) => LossTold(t, run[t])'
    BY <1>1, <1>2 DEF LossTold, LossRest, LossPage, Done, Waited, Lone
  <2>4. ActivateTold(run[t]) => ActivateTold(run[t])'
    BY <1>1, <1>2 DEF ActivateTold, ActivateRest, ActivatePage, Done, Waited, Restarts, HaveFile, Committed, Running
  <2> QED BY <1>1, <2>1, <2>2, <2>3, <2>4 DEF CallTold
<1> QED BY <1>1, <1>2, <1>3 DEF VscTold

(* A call that is judged and ends early says that it failed. *)
LEMMA QuitTells ==
    ASSUME VscBase, NEW t \in Threads, run' = [run EXCEPT ![t] = Vsc!Ended(t, "error")], Vsc!Judged(run[t].goal)
    PROVE  run'[t].returned = "error"
<1>1. run'[t] = Vsc!Returned("error")
  BY DEF Vsc!Ended, VscBase, VscTyped
<1> QED BY <1>1, EndedRun

LEMMA EndTells ==
    ASSUME VscBase, NEW t \in Threads, EndsCommand(t), Vsc!Judged(run[t].goal)
    PROVE  run'[t].todo # <<>> \/ run'[t].returned = "error"
<1> DEFINE r == run[t] n == Vsc!Next1(t) a == Vsc!Step(t)
<1>1. /\ r.todo # <<>> /\ r \in Runs /\ a \in Steps /\ Onward(r, n) /\ run \in [Threads -> Runs] /\ r.todo \in Seq(Steps)
  <2>1. r.todo # <<>> /\ a.do = "command"
    BY ReadStatusStep DEF EndsCommand
  <2> QED BY <2>1, VscStepOf DEF VscBase, VscTyped
<1>2. \/ run' = [run EXCEPT ![t] = [n EXCEPT !.tries = IF a.fails = "retry" THEN 0 ELSE @]]
      \/ run' = [run EXCEPT ![t] = [n EXCEPT !.blind = Vsc!Judged(r.goal)]]
      \/ run' = [run EXCEPT ![t] = [r EXCEPT !.todo = <<Vsc!Unlock, Vsc!Lock, Vsc!Load(a.val[0])>> \o @,
                                             !.phase = "next", !.tries = r.tries + 1]]
      \/ run' = [run EXCEPT ![t] = Vsc!Ended(t, "error")]
  BY DEF EndsCommand, Vsc!ReadStatus, Vsc!StatusLost, Vsc!TimesOut, Vsc!Fails, Vsc!Continue, Vsc!Quit
<1>3. CASE run' = [run EXCEPT ![t] = [n EXCEPT !.tries = IF a.fails = "retry" THEN 0 ELSE @]]
  <2> HIDE DEF n
  <2> QED BY <1>1, <1>3 DEF Onward, Runs
<1>4. CASE run' = [run EXCEPT ![t] = [n EXCEPT !.blind = Vsc!Judged(r.goal)]]
  <2> HIDE DEF n
  <2> QED BY <1>1, <1>4 DEF Onward, Runs
<1>5. CASE run' = [run EXCEPT ![t] = [r EXCEPT !.todo = <<Vsc!Unlock, Vsc!Lock, Vsc!Load(a.val[0])>> \o @,
                                              !.phase = "next", !.tries = r.tries + 1]]
  <2> DEFINE q == <<Vsc!Unlock, Vsc!Lock, Vsc!Load(a.val[0])>> p == q \o r.todo
             m == [r EXCEPT !.todo = p, !.phase = "next", !.tries = r.tries + 1]
  <2>1. p # <<>>
    BY <1>1
  <2>2. run'[t] = m
    BY <1>1, <1>5
  <2> HIDE DEF p
  <2>3. m.todo = p
    BY <1>1 DEF Runs
  <2> QED BY <2>1, <2>2, <2>3
<1>6. CASE run' = [run EXCEPT ![t] = Vsc!Ended(t, "error")]
  BY <1>6, QuitTells
<1> QED BY <1>2, <1>3, <1>4, <1>5, <1>6

(* So a call that succeeds has taken its last step, the unlocking, or has    *)
(* found no side to activate.                                                *)
LEMMA BetweenTells ==
    ASSUME VscBase, NEW t \in Threads, ThreadBetween(t), Vsc!Judged(run[t].goal), run[t].todo # <<>>,
           Vsc!Step(t).do # "any", run'[t].todo = <<>>, run'[t].returned # "error"
    PROVE  Vsc!Step(t).do = "unlock" /\ Tail(run[t].todo) = <<>>
<1>1. ~Vsc!Begin(t)
  BY DEF Vsc!Begin
<1>2. ~Vsc!Acquire(t)
  BY AcquireStep DEF Onward
<1>3. ~Vsc!AcquireTimesOut(t) /\ ~Vsc!CopyingTakesTooLong(t)
  BY QuitTells DEF Vsc!AcquireTimesOut, Vsc!CopyingTakesTooLong, Vsc!Quit, Vsc!Continue
<1>4. ~Vsc!LoadBuffer(t)
  BY LoadBufferStep DEF Onward
<1>5. ~Vsc!ReadAnswer(t)
  BY ReadAnswerStep
<1>6. ~Vsc!Raises(t)
  BY QuitTells DEF Vsc!Raises, Vsc!Continue
<1>7. ~Vsc!ReadMore(t)
  BY ReadMoreStep
<1>8. ~Vsc!ChooseSides(t)
  BY ChooseSidesStep
<1>9. Vsc!Release(t)
  BY <1>1, <1>2, <1>3, <1>4, <1>5, <1>6, <1>7, <1>8 DEF ThreadBetween
<1>10. Vsc!Step(t).do = "unlock" /\ run' = [run EXCEPT ![t] = Vsc!Next1(t)]
  BY <1>9 DEF Vsc!Release, Vsc!Doing, Vsc!Continue
<1>11. run'[t] = Vsc!Next1(t)
  BY <1>10 DEF VscBase, VscTyped
<1>12. ~Onward(run[t], Vsc!Next1(t))
  BY <1>11 DEF Onward
<1>13. run[t] \in Runs /\ run[t].todo \in Seq(Steps)
  BY VscStepOf
<1>14. Tail(run[t].todo) = <<>>
  <2>1. SUFFICES ASSUME Len(run[t].todo) # 1 PROVE FALSE
    BY <1>13, TailOf
  <2>2. Vsc!Next1(t) = [run[t] EXCEPT !.todo = Tail(@), !.phase = "next"] /\ Tail(run[t].todo) # <<>>
    BY <1>13, <2>1, TailOf DEF Vsc!Next1
  <2>3. run'[t].todo = Tail(run[t].todo)
    BY <1>11, <1>13, <2>2 DEF Runs
  <2> QED BY <2>2, <2>3
<1> QED BY <1>10, <1>14

LEMMA SuccessOf ==
    ASSUME VscInv, Vsc!Next, NEW t \in Threads, Vsc!Succeeds(t), Vsc!Judged(run[t].goal), Vsc!Step(t).do # "any"
    PROVE  Vsc!Step(t).do = "unlock" /\ Tail(run[t].todo) = <<>>
<1>1. /\ VscBase /\ run[t].todo # <<>> /\ run'[t].todo = <<>> /\ run'[t].returned # "error" /\ run'[t].todo # run[t].todo
  BY EndedRun DEF VscInv, Vsc!Succeeds
<1>2. ASSUME NEW u \in Threads, ThreadBetween(u) PROVE u = t
  <2>1. run' = [run EXCEPT ![u] = run'[u]]
    BY <1>1, <1>2, BetweenSteps DEF Between
  <2> QED BY <1>1, <2>1 DEF VscBase, VscTyped
<1>3. ASSUME NEW u \in Threads, Vsc!WriteAttributes(u) \/ Vsc!WriteOpcode(u) PROVE FALSE
  <2>1. run' = [run EXCEPT ![u] = run'[u]] /\ run'[u].todo = run[u].todo
    BY <1>1, <1>3, WriteAttributesStep, WriteOpcodeStep
  <2> QED BY <1>1, <2>1 DEF VscBase, VscTyped
<1>4. ASSUME NEW u \in Threads, EndsCommand(u) PROVE FALSE
  <2>1. run' = [run EXCEPT ![u] = run'[u]]
    BY <1>1, <1>4, ReadStatusStep DEF EndsCommand
  <2>2. u = t
    BY <1>1, <2>1 DEF VscBase, VscTyped
  <2> QED BY <1>1, <1>4, <2>2, EndTells
<1>5. ~Vsc!McuRuns /\ ~Vsc!McuRefuses /\ ~Vsc!McuCopied
  BY <1>1, McuRunsStep DEF Vsc!McuRefuses, Vsc!McuCopied
<1>6. ThreadBetween(t)
  BY <1>2, <1>3, <1>4, <1>5, VscSteps
<1> QED BY <1>1, <1>6, BetweenTells

LEMMA VscTells == ASSUME VscInv, VscTold, Vsc!Next PROVE Vsc!FirmwareStep
<1>1. ASSUME NEW t \in Threads, Vsc!Succeeds(t), Vsc!Judged(run[t].goal), Vsc!Step(t).do # "any"
      PROVE  \A k : k # "none" => ~Ahead(run[t].todo, k)
  <2>1. Vsc!Step(t).do = "unlock" /\ Tail(run[t].todo) = <<>> /\ run[t].todo # <<>>
    BY <1>1, SuccessOf DEF Vsc!Succeeds
  <2>2. run[t].todo \in Seq(Steps) /\ Key(Head(run[t].todo)) = "none"
    BY <2>1, VscStepOf DEF VscInv, Key
  <2>3. \A k : ~Ahead(<<>>, k)
    BY DEF Ahead, Elems
  <2> QED BY <2>1, <2>2, <2>3, AheadRest
<1>2. ASSUME NEW t \in Threads, Vsc!Succeeds(t), run[t].alone, run[t].goal.kind = "download"
      PROVE  /\ (lost = 0 \/ (lost = 1 /\ Installers \subseteq {t})) => fw.inactive[0] = "file"
             /\ (lost = 0 /\ ~run[t].blind) => \A s \in Sides : fw.inactive[s] = "file"
  <2>1. Downloading(run[t].todo) /\ DownloadTold(run[t]) /\ LossTold(t, run[t]) /\ run[t].todo # <<>>
    BY <1>2 DEF VscTold, CallTold, Vsc!Succeeds
  <2>2. Vsc!Step(t).do # "any"
    <3>1. Vsc!Step(t) \in Elems(run[t].todo)
      BY <2>1, VscStepOf DEF VscInv
    <3> QED BY <2>1, <3>1 DEF Downloading, Downloads
  <2>3. ~Ahead(run[t].todo, "complete") /\ ~Ahead(run[t].todo, "uart") /\ ~Ahead(run[t].todo, "more")
    BY <1>1, <1>2, <2>2 DEF Vsc!Judged
  <2>4. lost = 0 => OwnSide /\ (~run[t].blind => OtherSides)
    BY <1>2, <2>1, <2>3 DEF DownloadTold, DownloadRest
  <2>5. lost = 1 /\ Installers \subseteq {t} => OwnSide
    BY <1>2, <2>1, <2>3 DEF LossTold, LossRest, Lone
  <2> QED BY <2>4, <2>5 DEF OwnSide, OtherSides
<1>3. ASSUME NEW t \in Threads, Vsc!Succeeds(t), run[t].alone, run[t].goal.kind = "activate file", Vsc!Step(t).do = "unlock",
             lost = 0
      PROVE  \A s \in DOMAIN run[t].goal.val : fw.active[s] = "file"
  <2>1. ActivateRest(run[t]) /\ run[t].todo # <<>>
    BY <1>3 DEF VscTold, CallTold, ActivateTold, Vsc!Succeeds
  <2>2. ~Ahead(run[t].todo, "commit") /\ ~Ahead(run[t].todo, "run")
    BY <1>1, <1>3 DEF Vsc!Judged
  <2>3. Chosen(run[t].todo) /\ Running(run[t].found)
    BY <2>1, <2>2 DEF ActivateRest
  <2>4. run[t].found = DOMAIN run[t].goal.val
    BY <1>3, <2>1, <2>3, VscStepOf DEF VscInv, Acting
  <2> QED BY <2>3, <2>4 DEF Running
<1> QED BY <1>2, <1>3 DEF Vsc!FirmwareStep

-------------------------------------------------------------------------------
(* A behaviour stays with its part, and each part with its invariant.        *)
PartsInv ==
    /\ part \in {"registers", "vsc"}
    /\ part = "vsc" => VscInv /\ VscTold
    /\ part = "registers" => RegisterInv /\ Untold

LEMMA PartsInit == Init => PartsInv
BY VscInit, ToldInit, RegisterBegins, UntoldBegins DEF Init, PartsInv

LEMMA PartsNext == PartsInv /\ [Next]_vars => PartsInv'
<1>1. SUFFICES ASSUME PartsInv, [Next]_vars PROVE PartsInv'
  OBVIOUS
<1>2. part' = part
  BY <1>1 DEF Next, vars
<1>3. ASSUME part = "vsc" PROVE VscInv' /\ VscTold'
  <2>1. CASE Next
    <3>1. VscInv /\ VscTold /\ Vsc!Next
      BY <1>1, <1>3, <2>1 DEF Next, PartsInv
    <3> QED BY <3>1, VscNext, ToldNext
  <2>2. CASE UNCHANGED vars
    <3>1. VscInv /\ VscTold /\ UNCHANGED <<family, holder, run, ofVsc>>
      BY <1>1, <1>3, <2>2 DEF vars, PartsInv
    <3>2. UNCHANGED <<family, run, ofVsc>>
      BY <3>1
    <3> QED BY <3>1, <3>2, VscStutter, ToldStutter
  <2> QED BY <1>1, <2>1, <2>2
<1>4. ASSUME part = "registers" PROVE RegisterInv' /\ Untold'
  <2>1. RegisterInv /\ Untold
    BY <1>1, <1>4 DEF PartsInv
  <2>2. CASE Next
    <3>1. Registers!Next
      BY <1>4, <2>2 DEF Next
    <3> QED BY <2>1, <3>1, RegisterNext, UntoldNext
  <2>3. CASE UNCHANGED vars
    <3>1. UNCHANGED <<family, holder, run, driver, reg>>
      BY <2>3 DEF vars, ofRegisters
    <3> QED BY <2>1, <3>1, RegisterStutter DEF Untold
  <2> QED BY <1>1, <2>2, <2>3
<1> QED BY <1>1, <1>2, <1>3, <1>4 DEF PartsInv

(* The invariants of the parts hold in every behaviour of them.              *)
THEOREM PartsKept == Spec => []PartsInv
BY PartsInit, PartsNext, PTL DEF Spec

(* The variables have their types, in both parts: a register keeps its       *)
(* fields and holds what fits into them, a thread without a call holds       *)
(* nothing back from its last one; a chunk of firmware is sent again, and    *)
(* the event log asked for more, only as often as the code says.             *)
THEOREM TypesKept == Spec => []TypeOK
<1>1. PartsInv => TypeOK
  BY VscTypes, RegisterTypes DEF PartsInv, TypeOK
<1> QED BY <1>1, PartsKept, PTL

(* A step of the register part keeps the promises of RegisterCalls.          *)
LEMMA RegisterSteps ==
    ASSUME PartsInv, Next, part = "registers"
    PROVE  Registers!AsToldStep /\ Registers!LoopbackStep /\ Registers!AnswerStep
<1>1. RegisterInv /\ Untold /\ Registers!Next
  BY DEF Next, PartsInv
<1> QED BY <1>1, RegisterTells, RegisterLoops, RegisterAnswers

(* What a call that works alone and loses nothing tells its caller is so,    *)
(* for every call of the four drivers: the fields it was asked to set hold   *)
(* when it says so, and no step of it, the one of a read-modify-write        *)
(* included, changes another field of that register.                         *)
THEOREM CallsTellTruly == Spec => AsTold
<1>1. PartsInv /\ [Next]_vars => [part = "registers" => Registers!AsToldStep]_vars
  BY RegisterSteps
<1> QED BY <1>1, PartsKept, PTL DEF Spec, AsTold

(* On a transceiver without simultaneous loopbacks a call of                 *)
(* set_loopback_mode that works alone and reads what it asks for never adds  *)
(* a loopback of one side to one of the other (api/public/cmis.py).          *)
THEOREM LoopbacksKept == Spec => LoopbacksExclude
<1>1. PartsInv /\ [Next]_vars => [part = "registers" => Registers!LoopbackStep]_vars
  BY RegisterSteps
<1> QED BY <1>1, PartsKept, PTL DEF Spec, LoopbacksExclude

(* What is answered is the answer to what was asked: of a measurement that   *)
(* nobody disturbs, the end that was chosen, and of two eye measurements     *)
(* also when they interleave (credo/y_cable_credo.py takes the lock for      *)
(* them); of a vendor command, that command.                                 *)
THEOREM AnswersKept == Spec => AnswerOfTarget
<1>1. PartsInv /\ [Next]_vars => [IF part = "registers" THEN Registers!AnswerStep ELSE Vsc!AnswerStep]_vars
  BY RegisterSteps, VscAnswered DEF PartsInv
<1> QED BY <1>1, PartsKept, PTL DEF Spec, AnswerOfTarget

(* A reset brings a side back with the image it ran, unless an activation    *)
(* has failed before and said so, or a write was lost: between the commit    *)
(* and the run of an activation nobody else's reset gets in, because both    *)
(* are under the lock (activate_firmware and reset of y_cable_credo.py).     *)
THEOREM ResetKeeps == Spec => ResetKeepsImage
<1>1. ASSUME PartsInv, [Next]_vars, part = "vsc" PROVE Vsc!ResetStep
  <2>1. CASE Next
    <3>1. VscInv /\ Vsc!Next
      BY <1>1, <2>1 DEF Next, PartsInv
    <3> QED BY <3>1, VscResets
  <2>2. CASE UNCHANGED vars
    BY <2>2 DEF vars, ofVsc, Vsc!ResetStep
  <2> QED BY <1>1, <2>1, <2>2
<1> QED BY <1>1, PartsKept, PTL DEF Spec, ResetKeepsImage

(* A download that nobody disturbed and that says that it succeeded leaves   *)
(* the file as the inactive image on every side, unless a command that asks  *)
(* for the progress of the copy failed; on the own side always, where nobody *)
(* else installs also after one lost write.  An undisturbed activation that  *)
(* says so has it running on every side it committed (download_firmware and  *)
(* activate_firmware of y_cable_credo.py).                                   *)
THEOREM FirmwareKept == Spec => FirmwareTold
<1>1. ASSUME PartsInv, [Next]_vars, part = "vsc" PROVE Vsc!FirmwareStep
  <2>1. CASE Next
    <3>1. VscInv /\ VscTold /\ Vsc!Next
      BY <1>1, <2>1 DEF Next, PartsInv
    <3> QED BY <3>1, VscTells
  <2>2. CASE UNCHANGED vars
    <3>1. run' = run /\ Vsc!Returned("ok").todo = <<>>
      BY <2>2, EndedRun DEF vars
    <3>2. ASSUME NEW t \in Threads PROVE ~Vsc!Succeeds(t)
      BY <3>1 DEF Vsc!Succeeds
    <3> QED BY <3>2 DEF Vsc!FirmwareStep
  <2> QED BY <1>1, <2>1, <2>2
<1> QED BY <1>1, PartsKept, PTL DEF Spec, FirmwareTold

-------------------------------------------------------------------------------
(* The command channel.  Who calls is who has written the attributes of a    *)
(* command and has not read its status.                                      *)
Calling == {t \in Threads : run[t].phase # "next"}

(* Without a timely MCU, and without the vendor commands, nobody calls.      *)
LEMMA ChannelIdle ==
    ASSUME part' = part, mcu' = mcu, part = "vsc" => mcu # "timely"
    PROVE  UNCHANGED Channel!chVars
BY DEF Channel!chVars, Timely, Vsc!Timely

(* With one the channel's state is the code's. *)
LEMMA ChannelState ==
    ASSUME part = "vsc", part' = part, mcu = "timely", mcu' = mcu
    PROVE  /\ Channel!chVars = <<Calling, ran, good>> /\ Channel!chVars' = <<Calling', ran', good'>>
           /\ \A t : Channel!Begin(t) <=> /\ t \notin Calling /\ Calling' = Calling \cup {t}
                                          /\ ran' = ran \ {t} /\ good' = good \ {t}
           /\ \A t : Channel!CarryOut(t) <=> /\ t \notin ran /\ t \notin good /\ ran' = ran \cup {t}
                                             /\ Calling' = Calling /\ good' = good
           /\ \A t : Channel!End(t, FALSE) <=> /\ t \in Calling /\ Calling' = Calling \ {t}
                                               /\ good' = good /\ ran' = ran
           /\ \A t : Channel!End(t, TRUE) <=> /\ t \in Calling /\ t \in ran /\ Calling' = Calling \ {t}
                                              /\ good' = good \cup {t} /\ ran' = ran
BY DEF Channel!chVars, Channel!Begin, Channel!CarryOut, Channel!End, Timely, Vsc!Timely, Calling

LEMMA ChannelInit == Init => Channel!Init
<1>1. ASSUME Init, part = "vsc" PROVE ran = {} /\ good = {} /\ Calling = {}
  <2>1. /\ run = [t \in Threads |-> Vsc!Idle] /\ ran = {} /\ good = {}
    BY <1>1 DEF Init, Vsc!Init
  <2> QED BY <2>1 DEF Calling, Vsc!Idle
<1> QED BY <1>1 DEF Channel!Init, Timely, Vsc!Timely, Calling

(* Who is calling after a step of one thread. *)
LEMMA CallingOf ==
    ASSUME NEW t \in Threads, run' = [run EXCEPT ![t] = run'[t]], VscBase
    PROVE  /\ \A u \in Threads \ {t} : run'[u] = run[u]
           /\ run[t].phase = "next" /\ run'[t].phase = "next" => Calling' = Calling
           /\ run[t].phase # "next" /\ run'[t].phase # "next" => Calling' = Calling
           /\ run[t].phase = "next" /\ run'[t].phase # "next" => t \notin Calling /\ Calling' = Calling \cup {t}
           /\ run[t].phase # "next" /\ run'[t].phase = "next" => t \in Calling /\ Calling' = Calling \ {t}
<1>1. \A u \in Threads \ {t} : run'[u] = run[u]
  BY DEF VscBase, VscTyped
<1> QED BY <1>1 DEF Calling

LEMMA ChannelNext == ASSUME PartsInv, [Next]_vars PROVE [Channel!Next]_(Channel!chVars)
<1>1. part' = part
  BY DEF Next, vars
<1>2. CASE UNCHANGED vars
  BY <1>2 DEF vars, ofVsc, Channel!chVars, Timely, Vsc!Timely
<1>3. CASE part # "vsc"
  BY <1>1, <1>3 DEF Channel!chVars, Timely
<1>4. CASE part = "vsc" /\ Next
  <2>1. VscInv /\ Vsc!Next /\ VscBase /\ VscRest
    BY <1>4 DEF Next, PartsInv, VscInv
  <2>2. mcu' = mcu
    BY <2>1 DEF Vsc!Next, Vsc!Begin, Vsc!Acquire, Vsc!AcquireTimesOut, Vsc!Release, Vsc!LoadBuffer,
        Vsc!WriteAttributes, Vsc!WriteOpcode, Vsc!ReadStatus, Vsc!StatusLost, Vsc!TimesOut, Vsc!ReadAnswer, Vsc!Raises,
        Vsc!ReadMore, Vsc!CopyingTakesTooLong, Vsc!ChooseSides, Vsc!McuRuns, Vsc!McuRefuses, Vsc!McuCopied
  <2>3. CASE mcu # "timely"
    BY <1>1, <2>2, <2>3, ChannelIdle
  <2>4. CASE mcu = "timely"
    <3>1. /\ Channel!chVars = <<Calling, ran, good>> /\ Channel!chVars' = <<Calling', ran', good'>>
          /\ \A t : Channel!Begin(t) <=> /\ t \notin Calling /\ Calling' = Calling \cup {t}
                                         /\ ran' = ran \ {t} /\ good' = good \ {t}
          /\ \A t : Channel!CarryOut(t) <=> /\ t \notin ran /\ t \notin good /\ ran' = ran \cup {t}
                                            /\ Calling' = Calling /\ good' = good
          /\ \A t : Channel!End(t, FALSE) <=> /\ t \in Calling /\ Calling' = Calling \ {t}
                                              /\ good' = good /\ ran' = ran
          /\ \A t : Channel!End(t, TRUE) <=> /\ t \in Calling /\ t \in ran /\ Calling' = Calling \ {t}
                                             /\ good' = good \cup {t} /\ ran' = ran
      BY <1>1, <1>4, <2>2, <2>4, ChannelState
    <3>2. VscChannel /\ (family = "firmware" => ran = {} /\ good = {})
      BY <2>1, <2>4 DEF VscRest, VscChannel
    <3>3. ASSUME NEW t \in Threads, ThreadBetween(t) PROVE UNCHANGED Channel!chVars
      <4>1. Between(t)
        BY <2>1, <3>3, BetweenSteps
      <4>2. run' = [run EXCEPT ![t] = run'[t]] /\ run[t].phase = "next" /\ run'[t].phase = "next" /\ UNCHANGED <<ran, good>>
        BY <4>1 DEF Between
      <4> QED BY <2>1, <3>1, <4>2, CallingOf
    <3>4. ASSUME NEW t \in Threads, Vsc!WriteAttributes(t) PROVE Channel!Begin(t)
      <4>1. run' = [run EXCEPT ![t] = run'[t]] /\ run[t].phase = "next" /\ run'[t].phase = "opcode"
        BY <2>1, <3>4, WriteAttributesStep DEF Vsc!WriteAttributes, Vsc!Doing
      <4>2. ran' = ran \ {t} /\ good' = good \ {t}
        BY <3>4 DEF Vsc!WriteAttributes
      <4> QED BY <2>1, <3>1, <4>1, <4>2, CallingOf
    <3>5. ASSUME NEW t \in Threads, Vsc!WriteOpcode(t) PROVE UNCHANGED Channel!chVars
      <4>1. run' = [run EXCEPT ![t] = run'[t]] /\ run[t].phase = "opcode" /\ run'[t].phase = "wait"
        BY <2>1, <3>5, WriteOpcodeStep DEF Vsc!WriteOpcode, Vsc!Doing
      <4>2. UNCHANGED <<ran, good>>
        BY <3>5 DEF Vsc!WriteOpcode
      <4> QED BY <2>1, <3>1, <4>1, <4>2, CallingOf
    <3>6. ASSUME NEW t \in Threads, EndsCommand(t) PROVE \E ok \in BOOLEAN : Channel!End(t, ok)
      <4>1. /\ run[t].phase = "wait" /\ run'[t].phase = "next" /\ ran' = ran /\ page.opcode = "none"
            /\ good' = good \/ good' = Vsc!Noted(good \cup {t})
        BY <2>1, <2>4, <3>6, EndOthers
      <4>2. run' = [run EXCEPT ![t] = run'[t]]
        BY <2>1, <3>6, ReadStatusStep DEF EndsCommand
      <4>3. t \in Calling /\ Calling' = Calling \ {t}
        BY <2>1, <4>1, <4>2, CallingOf
      <4>4. CASE good' = good
        BY <3>1, <4>1, <4>3, <4>4
      <4>5. CASE good' # good
        <5>1. family # "firmware" /\ good' = good \cup {t}
          BY <3>2, <4>1, <4>5 DEF Vsc!Noted
        <5>2. t \in ran
          BY <2>4, <3>2, <4>1, <5>1 DEF VscChannel
        <5> QED BY <3>1, <4>1, <4>3, <5>1, <5>2
      <4> QED BY <4>4, <4>5
    <3>7. ASSUME Vsc!McuRuns \/ Vsc!McuRefuses
          PROVE  UNCHANGED Channel!chVars \/ (page.by \in Threads /\ Channel!CarryOut(page.by))
      <4>1. page.opcode # "none" /\ page.by \in Threads /\ (\A u \in Threads : run'[u].phase = run[u].phase)
        <5>1. CASE Vsc!McuRuns
          BY <2>1, <5>1, McuRunsStep
        <5>2. CASE Vsc!McuRefuses
          BY <2>1, <5>2, McuRefusesStep DEF Vsc!McuRefuses
        <5> QED BY <3>7, <5>1, <5>2
      <4>2. Calling' = Calling /\ good' = good /\ ran' = Vsc!Noted(ran \cup {page.by})
        BY <3>7, <4>1 DEF Calling, Vsc!McuRuns, Vsc!McuRefuses
      <4>3. page.by \notin ran \cup good
        BY <2>4, <3>2, <4>1 DEF VscChannel
      <4>4. CASE family = "firmware"
        BY <3>1, <3>2, <4>2, <4>4 DEF Vsc!Noted
      <4>5. CASE family # "firmware"
        BY <3>1, <4>1, <4>2, <4>3, <4>5 DEF Vsc!Noted
      <4> QED BY <4>4, <4>5
    <3>8. ASSUME Vsc!McuCopied PROVE UNCHANGED Channel!chVars
      BY <3>1, <3>8 DEF Calling, Vsc!McuCopied
    <3>9. CASE \E t \in Threads : ThreadBetween(t) \/ Vsc!WriteAttributes(t) \/ Vsc!WriteOpcode(t) \/ EndsCommand(t)
      BY <3>3, <3>4, <3>5, <3>6, <3>9 DEF Channel!Next
    <3>10. CASE Vsc!McuRuns \/ Vsc!McuRefuses
      BY <3>7, <3>10 DEF Channel!Next
    <3> QED BY <2>1, <3>8, <3>9, <3>10, VscSteps
  <2> QED BY <2>3, <2>4
<1> QED BY <1>2, <1>3, <1>4

(* The vendor commands are a command channel: a call that is told that its   *)
(* command succeeded had it carried out, once and before it was told, while  *)
(* every thread polls the same page (send_vsc of y_cable_credo.py).          *)
THEOREM ChannelRefined == Spec => IsCommandChannel
<1>1. PartsInv /\ [Next]_vars => [Channel!Next]_(Channel!chVars)
  BY ChannelNext
<1> QED BY <1>1, ChannelInit, PartsKept, PTL DEF Spec, IsCommandChannel, Channel!Spec
===============================================================================
