----------------------------- MODULE RegisterCalls -----------------------------
(***************************************************************************)
(* The drivers that work on registers, at the granularity of accesses:     *)
(* threads (of one process for the cables, of several for the              *)
(* transceivers) run calls of one driver against one device (external).    *)
(* Any access may be lost.  The calls are those of CredoPort,              *)
(* LegacyYCable, SimulatedCable and LaneControl.                           *)
(***************************************************************************)
EXTENDS AccessSteps, Functions, FiniteSets

CONSTANTS Threads, Nobody, Ends, Lanes, Masks

VARIABLES
    driver,  \* the driver of this behaviour
    family,  \* the calls of this behaviour: those that share registers
    reg,     \* the registers
    holder,  \* the thread that holds the lock, or Nobody
    run      \* the call each thread is in, or what its last one returned

vars == <<driver, family, reg, holder, run>>

(* A Credo cable has three ends, of which 0 is in use after a reset; lanes    *)
(* are numbered.                                                             *)
RegisterAssumption ==
    /\ Nobody \notin Threads /\ 0 \in Ends /\ Ends \subseteq 0..2
    /\ Lanes \subseteq Nat /\ IsFiniteSet(Lanes) /\ Masks \subseteq SUBSET Lanes

Credo == INSTANCE CredoPort
Legacy == INSTANCE LegacyYCable
Simulated == INSTANCE SimulatedCable
Lane == INSTANCE LaneControl

Drivers == {"credo", "legacy", "simulated", "cmis"}
Calls(d, f) ==
    CASE d = "credo" -> Credo!Calls(f)
      [] d = "legacy" -> Legacy!Calls(f)
      [] d = "simulated" -> Simulated!Calls(f)
      [] d = "cmis" -> Lane!Calls(f)

Families(d) ==
    CASE d = "credo" -> Credo!Families
      [] d = "legacy" -> Legacy!Families
      [] d = "simulated" -> Simulated!Families
      [] d = "cmis" -> Lane!Families

(* The registers of a family, as they are before the first call. *)
Measurement == 0 :> 0 @@ 1 :> NoResult @@ 2 :> 0
Measurements == {"type", "sync", "ber", "eye"}
Fresh(f) ==
    CASE f = "mux" -> [r \in {"mux", "auto", "hyst"} |-> One(0)]
      [] f = "facts" -> "ident" :> One(1) @@ "cursor" :> All({0, 1}, 0) @@ "count" :> One(1)
      [] f = "flaps" -> "count" :> One(1)
      [] f = "counts" -> "count" :> All(0..2, 1) @@ "type" :> Measurement
      [] f = "mode" -> "mode" :> All({0, 1, 3, 4, 6}, 0)
      [] f = "prbs" -> "target" :> One(0) @@ "prbs" :> All(Ends, 0) @@ "ptype" :> One(0) @@ "eye" :> Measurement
      [] f = "loop" -> "target" :> One(0) @@ "loop" :> All(Ends, 0) @@ "sync" :> Measurement @@ "ber" :> Measurement
      [] f = "ber" -> "target" :> One(0) @@ "ber" :> Measurement @@ "eye" :> Measurement
      [] OTHER -> Lane!Fresh(f)

(* alone: no other call has written since this one began, or, for a call     *)
(* that takes the lock, no call that does not.  blind: an access of it was   *)
(* lost and it went on.                                                      *)
Idle == [todo |-> <<>>, goal |-> Nothing, got |-> <<>>, outer |-> Nobody,
         alone |-> TRUE, blind |-> FALSE, returned |-> "nothing"]

TypeOK ==
    /\ driver \in Drivers
    /\ family \in Families(driver)
    /\ DOMAIN reg = DOMAIN Fresh(family)
    /\ \A r \in DOMAIN reg :
        DOMAIN reg[r] = DOMAIN Fresh(family)[r] /\ Range(reg[r]) \subseteq 0..NoResult
    /\ holder \in Threads \cup {Nobody}
    /\ \A t \in Threads :
        /\ DOMAIN run[t] = DOMAIN Idle
        /\ run[t].outer \in {t, Nobody}
        /\ run[t].alone \in BOOLEAN /\ run[t].blind \in BOOLEAN
        /\ run[t].returned \in {"nothing", "ok", "blind", "error"}
        /\ run[t].todo = <<>> => run[t] = [Idle EXCEPT !.returned = run[t].returned]

Init ==
    /\ driver \in Drivers
    /\ family \in Families(driver)
    /\ reg = Fresh(family)
    /\ holder = Nobody
    /\ run = [t \in Threads |-> Idle]

-------------------------------------------------------------------------------
Step(t) == Head(run[t].todo)
Doing(t, kinds) == run[t].todo # <<>> /\ Step(t).do \in kinds
Writes == {"put", "merge", "aim", "start"}
Reads == {"get", "need", "await"}
UnderLock(t) == driver = "credo" /\ run[t].goal.reg = "eye"
Returned(how) == [Idle EXCEPT !.returned = how]

Begin(t) ==
    /\ run[t].todo = <<>>
    /\ \E p \in Calls(driver, family) :
        run' = [run EXCEPT ![t] = IF p.todo = <<>> THEN Returned("ok")
                                  ELSE [Idle EXCEPT !.todo = p.todo, !.goal = p.goal]]
    /\ UNCHANGED <<driver, family, reg, holder>>

(* The call of thread t after its next step; what was read is kept for a     *)
(* step that needs it.                                                       *)
Needs(todo) == Head(todo).do \in {"merge", "unlock"}
Advanced(t, got, lost) ==
    LET rest == Tail(run[t].todo)
    IN IF rest = <<>> THEN Returned(IF run[t].blind \/ lost THEN "blind" ELSE "ok")
       ELSE [run[t] EXCEPT !.todo = rest, !.got = IF Needs(rest) THEN got ELSE <<>>, !.blind = @ \/ lost]
Continue(t, r) == run' = [run EXCEPT ![t] = r]

(* The lock is reentrant; a thread that left it locked gets it again. *)
Acquire(t) ==
    /\ Doing(t, {"lock"}) /\ holder \in {Nobody, t}
    /\ holder' = t
    /\ Continue(t, [Advanced(t, <<>>, FALSE) EXCEPT !.alone = TRUE, !.outer = holder])
    /\ UNCHANGED <<driver, family, reg>>
AcquireTimesOut(t) ==
    /\ Doing(t, {"lock"}) /\ holder \notin {Nobody, t}
    /\ Continue(t, Returned("error"))
    /\ UNCHANGED <<driver, family, reg, holder>>
Release(t) ==
    /\ Doing(t, {"unlock"})
    /\ holder' = run[t].outer
    /\ Continue(t, Advanced(t, run[t].got, FALSE))
    /\ UNCHANGED <<driver, family, reg>>

(* A call that returns early leaves the with statement and so the lock.      *)
Quit(t) ==
    /\ Continue(t, Returned("error"))
    /\ holder' = IF holder = t /\ UnderLock(t) THEN run[t].outer ELSE holder

Written(t) ==
    LET a == Step(t)
    IN IF a.reg \notin DOMAIN reg THEN reg
       ELSE CASE a.do = "put" -> [reg EXCEPT ![a.reg] = a.val @@ @]
              [] a.do = "merge" -> [reg EXCEPT ![a.reg] = a.val @@ run[t].got]
              [] a.do = "aim" -> [reg EXCEPT ![a.reg][reg["target"][0]] = a.val[0]]
              [] a.do = "start" -> [reg EXCEPT ![a.reg] = 0 :> 0 @@ 1 :> a.val[0] @@ 2 :> 1]

(* The driver's own attributes are not the device's registers, but are       *)
(* disturbed in the same way.                                                *)
Disturb(t) ==
    [u \in Threads |->
        [run[u] EXCEPT !.alone = @ /\ (u = t \/ run[u].todo = <<>> \/ (UnderLock(t) /\ UnderLock(u)))]]

Write(t) ==
    /\ Doing(t, Writes)
    /\ reg' = Written(t)
    /\ run' = [Disturb(t) EXCEPT ![t] = Advanced(t, run[t].got, FALSE)]
    /\ UNCHANGED <<driver, family, holder>>

(* The simulator does what it is asked, its answer is lost, and the request  *)
(* is repeated.                                                              *)
WriteAgain(t) ==
    /\ driver = "simulated" /\ Doing(t, Writes) /\ Step(t).fails # "never"
    /\ reg' = Written(t)
    /\ run' = Disturb(t)
    /\ UNCHANGED <<driver, family, holder>>

Read(t) ==
    /\ Doing(t, Reads)
    /\ LET a == Step(t) IN
       /\ a.val = <<>> \/ Restrict(reg[a.reg], DOMAIN a.val) = a.val
       /\ Continue(t, Advanced(t, reg[a.reg], FALSE))
    /\ UNCHANGED <<driver, family, reg, holder>>

(* A condition is not met, or not in time, or the call raises an exception   *)
(* before it does anything.                                                  *)
Refuse(t) ==
    /\ \/ Doing(t, {"raise"})
       \/ /\ Doing(t, {"need", "await"})
          /\ LET a == Step(t) IN Restrict(reg[a.reg], DOMAIN a.val) # a.val
    /\ Quit(t)
    /\ UNCHANGED <<driver, family, reg>>

(* An access is lost.  A read that                                          *)
(* fails under the lock of the Credo driver raises an exception, after which *)
(* the lock stays locked.                                                    *)
Lose(t) ==
    /\ Doing(t, Writes \cup Reads)
    /\ \/ /\ Step(t).fails = "ignore"
          /\ Continue(t, Advanced(t, run[t].got, TRUE))
          /\ UNCHANGED holder
       \/ /\ Step(t).fails = "stop" /\ Doing(t, Writes)
          /\ Quit(t)
       \/ /\ Step(t).fails = "stop" /\ Doing(t, Reads)
          /\ Continue(t, Returned("error"))
          /\ UNCHANGED holder
    /\ UNCHANGED <<driver, family, reg>>

(* The device (external) finishes a measurement: of the end its register     *)
(* holds by then, or of the counter that the start named.                    *)
Measure(r) ==
    LET result == CASE r = "type" -> reg[r][1]
                    [] r = "sync" -> reg["loop"][reg["target"][0]]
                    [] OTHER -> reg["target"][0]
    IN [reg EXCEPT ![r] = 0 :> 1 @@ 1 :> result @@ 2 :> 0]
Finish ==
    /\ \E r \in Measurements \cap DOMAIN reg : reg[r][2] = 1 /\ reg' = Measure(r)
    /\ UNCHANGED <<driver, family, holder, run>>
Survives(goal) == goal.reg \in DOMAIN reg => reg'[goal.reg] = reg[goal.reg]
React ==
    /\ \E r \in Lane!Reactions(reg) : reg' = r
    /\ run' = [t \in Threads |-> [run[t] EXCEPT !.alone = @ /\ Survives(run[t].goal)]]
    /\ UNCHANGED <<driver, family, holder>>

Next ==
    \/ \E t \in Threads :
        \/ Begin(t)
        \/ Acquire(t) \/ AcquireTimesOut(t) \/ Release(t)
        \/ Write(t) \/ WriteAgain(t) \/ Read(t) \/ Refuse(t) \/ Lose(t)
    \/ Finish
    \/ React

Spec == Init /\ [][Next]_vars

-------------------------------------------------------------------------------
(* What a call that works alone and loses nothing tells its caller is so:    *)
(* what it was asked to set is set when it says so, and no step of it        *)
(* changes another field of that register, so that the settings of the other *)
(* lanes, ends and modes survive a read-modify-write.                        *)
Others(goal) == DOMAIN reg[goal.reg] \ DOMAIN goal.val
Tells(t) ==
    LET goal == run[t].goal IN
    (run[t].todo # <<>> /\ run[t].alone /\ goal.kind = "set" /\ run'[t].todo # run[t].todo) =>
        /\ Restrict(reg'[goal.reg], Others(goal)) = Restrict(reg[goal.reg], Others(goal))
        /\ run'[t].returned = "ok" => Restrict(reg'[goal.reg], DOMAIN goal.val) = goal.val
AsToldStep == \A t \in Threads : Tells(t)

(* A measurement that says it is done is of the end that was asked for: two  *)
(* eye measurements keep apart whatever their interleaving and whatever is   *)
(* lost, because the end is written under the lock; the others only as long  *)
(* as nobody else writes.                                                    *)
Answer(t) == IF Doing(t, {"get"}) THEN reg[Step(t).reg][1] ELSE run[t].got[1]
Asked(goal) == IF goal.reg = "sync" THEN reg["loop"][goal.val[0]] ELSE goal.val[0]
AnswerStep ==
    \A t \in Threads :
        (run[t].alone /\ run[t].goal.kind = "measured" /\ run'[t].returned = "ok" /\ run[t].todo # <<>>)
            => Answer(t) = Asked(run[t].goal)

(* On a transceiver without simultaneous loopbacks a call that works alone   *)
(* and reads what it asks for never adds a loopback of one side to one of    *)
(* the other.  Once both are on, every call is refused, the disabling ones   *)
(* too.                                                                      *)
BothSides(r) == \E h \in Lane!Host, m \in Lane!Media : \E l, k \in Lanes : r[h][l] = 1 /\ r[m][k] = 1
LoopbackStep ==
    \A t \in Threads :
        (family = "either_side" /\ run'[t].todo # run[t].todo /\ run[t].alone /\ ~run[t].blind)
            => (BothSides(reg') => BothSides(reg))
===============================================================================
