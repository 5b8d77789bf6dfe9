-------------------------------- MODULE CredoVsc --------------------------------
(***************************************************************************)
(* The vendor command page of a Credo cable (send_vsc of y_cable_credo.py) *)
(* with its microcontroller (external) and the firmware it keeps.  The     *)
(* driver writes the attributes of a command, then its opcode, polls until *)
(* the opcode reads 0, and reads the status.  The result of a write is not *)
(* looked at; a read that fails reads 255, which is neither done nor a     *)
(* success.  The download status attribute, which no call reads, is left   *)
(* out, and so are the calls of helpers without the lock.                  *)
(***************************************************************************)
EXTENDS CredoCommands

CONSTANTS
    Threads, Nobody,
    Installers, \* the threads that install firmware; the others reset and look
    Retries,    \* attempts to repeat a chunk (3 in the code)
    Cycles,     \* rounds of reading the event log (150 in the code)
    MaxLost,    \* bound: writes that are lost
    MaxCalls    \* bound: calls of an installer about firmware; one of the others

VARIABLES
    mcu,     \* "timely", "late": it may answer after send_vsc has given up, or
             \* "lossy": timely, and writes are lost
    family,  \* the calls of this behaviour
    holder,  \* the thread that holds the driver's lock, or Nobody
    page,    \* attributes, opcode, status, answer and buffer
    fw,      \* what the MCUs keep and do about firmware
    run,     \* the call of each thread, or what its last one returned
    lost,    \* how many writes were lost
    ran,     \* the threads whose latest command was carried out
    good,    \* those that were told so
    calls,   \* how many a thread has made
    left     \* sides an activation that failed may have left committed

vars == <<mcu, family, holder, page, fw, run, lost, ran, good, calls, left>>

VscAssumption ==
    /\ {0, 1} \subseteq Sides /\ Nobody \notin Threads /\ Installers \subseteq Threads
    /\ {Chunks, MaxCalls} \subseteq Nat \ {0} /\ {Retries, Cycles, MaxLost} \subseteq Nat

Idle == [todo |-> <<>>, goal |-> Nothing, phase |-> "next", found |-> {}, tries |-> 0,
         alone |-> TRUE, blind |-> FALSE, returned |-> "nothing"]
(* Bound: how a call ended is kept where it promises something.              *)
Judged(goal) == goal.kind \in {"download", "activate file"}
Returned(how) == [Idle EXCEPT !.returned = how]

None == "none"
Images == {"old", "older", "file", "partial"}
Fw == [active |-> All(Sides, "old"), inactive |-> All(Sides, "older"), next |-> All(Sides, "active"),
       chunks |-> {}, stage |-> "idle"]
Stages == {"idle", "loading", "loaded", "copying"}

TypeOK ==
    /\ mcu \in {"timely", "late", "lossy"} /\ family \in {"chip", "diagnostics", "firmware"}
    /\ holder \in Threads \cup {Nobody}
    /\ DOMAIN page = {"op", "arg", "opcode", "by", "status", "answer", "buffer"}
    /\ page.by \in Threads \cup {Nobody} /\ page.status \in {"ok", "error", "uart timeout"}
    /\ fw \in [active : [Sides -> Images], inactive : [Sides -> Images], next : [Sides -> {"active", "inactive"}],
               chunks : SUBSET (1..Chunks), stage : Stages]
    /\ \A t \in Threads :
        /\ DOMAIN run[t] = DOMAIN Idle
        /\ run[t].phase \in {"next", "opcode", "wait"} /\ run[t].found \subseteq Sides
        /\ run[t].tries \in 0..Retries \cup 0..Cycles /\ run[t].alone \in BOOLEAN /\ run[t].blind \in BOOLEAN
        /\ run[t].returned \in {"nothing", "ok", "error"}
        /\ run[t].todo = <<>> => run[t] = Returned(run[t].returned)
    /\ lost \in 0..MaxLost /\ ran \subseteq Threads /\ good \subseteq Threads /\ left \subseteq Sides /\ calls \in [Threads -> 0..MaxCalls]

Blank == [op |-> None, arg |-> <<>>, opcode |-> None, by |-> Nobody, status |-> "ok", answer |-> <<None, <<>>>>, buffer |-> 0]
Init ==
    /\ mcu \in {"timely", "late", "lossy"} /\ family \in {"chip", "diagnostics", "firmware"}
    /\ holder = Nobody
    /\ family # "firmware" => mcu = "timely"  \* bound
    /\ page = Blank
    /\ fw = Fw
    /\ run = [t \in Threads |-> Idle]
    /\ lost = 0 /\ ran = {} /\ good = {} /\ calls = [t \in Threads |-> 0] /\ left = {}

-------------------------------------------------------------------------------
Noted(x) == IF family = "firmware" THEN {} ELSE x  \* kept where a property needs it
Step(t) == Head(run[t].todo)
Doing(t, kind, phase) == run[t].todo # <<>> /\ Step(t).do = kind /\ run[t].phase = phase
Continue(t, r) == run' = [run EXCEPT ![t] = r]
Ended(t, how) == IF Judged(run[t].goal) THEN Returned(how) ELSE Idle
Next1(t) == IF Len(run[t].todo) = 1 THEN Ended(t, "ok") ELSE [run[t] EXCEPT !.todo = Tail(@), !.phase = "next"]

Begin(t) ==
    /\ run[t].todo = <<>>
    /\ mcu = "lossy" => t \in Installers  \* bound
    /\ \E p \in IF family # "firmware" THEN Calls(family) ELSE IF t \in Installers THEN Installing ELSE Looking :
        Continue(t, [Idle EXCEPT !.todo = p.todo, !.goal = p.goal])
    /\ calls[t] < (IF t \in Installers THEN MaxCalls ELSE 1)
    /\ calls' = IF family = "firmware" THEN [calls EXCEPT ![t] = @ + 1] ELSE calls
    /\ UNCHANGED <<mcu, family, holder, page, fw, lost, ran, good, left>>

(* The lock is not held by a thread that is here: RLocker is reentrant, and  *)
(* a thread whose call raised an exception under it holds it for ever.       *)
Acquire(t) ==
    /\ Doing(t, "lock", "next") /\ holder \in {Nobody, t}
    /\ holder' = t
    /\ Continue(t, Next1(t))
    /\ UNCHANGED <<mcu, family, page, fw, lost, ran, good, left, calls>>

(* Defect: the call goes on without the lock. *)
AcquireOrGoOn(t) ==
    /\ Doing(t, "lock", "next") /\ holder \notin {Nobody, t}
    /\ Continue(t, Next1(t))
    /\ UNCHANGED <<mcu, family, holder, page, fw, lost, ran, good, left, calls>>

(* What an activation that fails leaves behind: sides it may have committed. *)
Gone(t) ==
    IF Step(t).do = "command" /\ Step(t).reg \in {"commit", "run"} /\ run[t].goal.kind # "reset"
    THEN left \cup DOMAIN run[t].goal.val ELSE left
Quit(t) ==
    /\ Continue(t, Ended(t, "error"))
    /\ holder' = IF holder = t THEN Nobody ELSE holder
    /\ left' = Gone(t)
AcquireTimesOut(t) ==
    /\ Doing(t, "lock", "next") /\ holder \notin {Nobody, t}
    /\ Quit(t)
    /\ UNCHANGED <<mcu, family, page, fw, lost, ran, good, calls>>

(* Bound: what a page at rest holds is forgotten, unless writes are lost: no  *)
(* later command reads it.                                                   *)
AtRest == IF mcu = "lossy" \/ page.opcode # None THEN page ELSE Blank
Release(t) ==
    /\ Doing(t, "unlock", "next")
    /\ holder' = IF holder = t THEN Nobody ELSE holder
    /\ page' = AtRest
    /\ Continue(t, Next1(t))
    /\ UNCHANGED <<mcu, family, fw, lost, ran, good, left, calls>>

-------------------------------------------------------------------------------
Opcode(op) ==
    IF op \in {"start", "xfer", "complete", "uart", "uart_status", "get_info", "commit", "run"} THEN "fwupd"
    ELSE IF op \in {"log_clear", "log_dump"} THEN "eventlog" ELSE op
Argument(t) == IF Step(t).val = Marked /\ Step(t).reg \in {"commit", "run"} THEN All(run[t].found, 1) ELSE Step(t).val

(* Some write of a step takes effect, or is lost as long as that is allowed. *)
Written(new, old) ==
    \/ page' = new /\ UNCHANGED lost
    \/ page' = old /\ old # new /\ mcu = "lossy" /\ lost < MaxLost /\ lost' = lost + 1

LoadBuffer(t) ==
    /\ Doing(t, "load", "next")
    /\ Written([page EXCEPT !.buffer = Step(t).val[0]], page)
    /\ Continue(t, Next1(t))
    /\ UNCHANGED <<mcu, family, holder, fw, ran, good, left, calls>>

WriteAttributes(t) ==
    /\ Doing(t, "command", "next")
    /\ \E kept \in {"op", "arg"} :
        LET new == [page EXCEPT !.op = Step(t).reg, !.arg = Argument(t)]
        IN Written(new, [new EXCEPT ![kept] = page[kept]])
    /\ Continue(t, [run[t] EXCEPT !.phase = "opcode"])
    /\ ran' = ran \ {t} /\ good' = good \ {t}
    /\ UNCHANGED <<mcu, family, holder, fw, left, calls>>

WriteOpcode(t) ==
    /\ Doing(t, "command", "opcode")
    /\ Written([page EXCEPT !.opcode = Opcode(Step(t).reg), !.by = t], page)
    /\ Continue(t, [run[t] EXCEPT !.phase = "wait"])
    /\ UNCHANGED <<mcu, family, holder, fw, ran, good, left, calls>>

(* The command failed: the call goes on, or tries the chunk again, or ends.  *)
Fails(t) ==
    LET tries == run[t].tries + 1 IN
    CASE Step(t).fails = "ignore" -> Continue(t, [Next1(t) EXCEPT !.blind = Judged(run[t].goal)]) /\ UNCHANGED <<holder, left>>
      [] Step(t).fails = "retry" /\ tries <= Retries ->
            /\ Continue(t, [run[t] EXCEPT !.todo = <<Unlock, Lock, Load(Step(t).val[0])>> \o @, !.phase = "next", !.tries = tries])
            /\ UNCHANGED <<holder, left>>
      [] OTHER -> Quit(t)

(* Defect: a command that is not done yet is taken for done. *)
TimesOutDone(t) ==
    /\ Doing(t, "command", "wait") /\ page.opcode # None
    /\ Continue(t, [Next1(t) EXCEPT !.tries = 0])
    /\ good' = Noted(good \cup {t})
    /\ UNCHANGED <<mcu, family, holder, page, fw, lost, ran, left, calls>>

(* Without the other sides the firmware information of the own one is good. *)
Suffices(t) == page.status = "ok" \/ (page.status = "uart timeout" /\ Step(t).reg = "get_info" /\ DOMAIN Step(t).val = {0})
ReadStatus(t) ==
    /\ Doing(t, "command", "wait") /\ page.opcode = None
    /\ IF Suffices(t)
       THEN /\ Continue(t, [Next1(t) EXCEPT !.tries = IF Step(t).fails = "retry" THEN 0 ELSE @])
            /\ good' = Noted(good \cup {t})
            /\ UNCHANGED <<holder, left>>
       ELSE Fails(t) /\ UNCHANGED good
    /\ UNCHANGED <<mcu, family, page, fw, lost, ran, calls>>
StatusLost(t) ==
    /\ Doing(t, "command", "wait") /\ page.opcode = None
    /\ Fails(t)
    /\ UNCHANGED <<mcu, family, page, fw, lost, ran, good, calls>>
TimesOut(t) ==
    /\ Doing(t, "command", "wait") /\ page.opcode # None /\ mcu = "late"
    /\ Fails(t)
    /\ UNCHANGED <<mcu, family, page, fw, lost, ran, good, calls>>

(* The answer is read; of the firmware information, which sides have the     *)
(* file's version in their inactive slot.                                    *)
Has(t) == IF Step(t).reg = "get_info" /\ page.answer[1] = "get_info"
          THEN DOMAIN page.answer[2] \cap DOMAIN Step(t).val ELSE {}
ReadAnswer(t) ==
    /\ Doing(t, "fetch", "next")
    /\ Continue(t, IF Len(run[t].todo) = 1 THEN Next1(t) ELSE [Next1(t) EXCEPT !.found = @ \cup Has(t)])
    /\ UNCHANGED <<mcu, family, holder, page, fw, lost, ran, good, left, calls>>

GoesOn(t) == page.answer = <<Step(t).reg, One(1)>>

(* The firmware information is read without read_mmap, and an event of a     *)
(* type the driver does not know is looked up: exceptions, after which       *)
(* nobody releases the lock.                                                 *)
Raises(t) ==
    /\ \/ Doing(t, "fetch", "next") /\ Step(t).reg = "get_info"
       \/ Doing(t, "more", "next") /\ Step(t).reg = "log_dump" /\ GoesOn(t)
    /\ Continue(t, Ended(t, "error"))
    /\ left' = Gone(t)
    /\ UNCHANGED <<mcu, family, holder, page, fw, lost, ran, good, calls>>

(* Defect: one round more. *)
EnoughLater(t) == Step(t).reg = "log_dump" /\ run[t].tries = Cycles + 1
Enough(t) == Step(t).reg = "log_dump" /\ run[t].tries = Cycles

(* The event log has more, or the copying goes on (which a read that fails   *)
(* says too): the lock is released and the command repeated.                 *)
ReadMore(t) ==
    /\ Doing(t, "more", "next")
    /\ IF Enough(t) THEN Continue(t, Next1(t))
       ELSE \/ ~GoesOn(t) /\ Continue(t, Next1(t))
            \/ Continue(t, [run[t] EXCEPT
                   !.todo = <<Unlock, Lock, IF Step(t).reg = "uart_status" THEN Ignoring(Cmd("uart_status", <<>>))
                                            ELSE Cmd("log_dump", <<>>)>> \o @,
                   !.tries = IF Step(t).reg = "log_dump" THEN @ + 1 ELSE @])
    /\ UNCHANGED <<mcu, family, holder, page, fw, lost, ran, good, left, calls>>
CopyingTakesTooLong(t) ==
    /\ Doing(t, "more", "next") /\ Step(t).reg = "uart_status"
    /\ Quit(t)
    /\ UNCHANGED <<mcu, family, page, fw, lost, ran, good, calls>>

(* Defect: every side that was asked for is activated. *)
ChosenUnchecked(t) == DOMAIN Step(t).val
Chosen(t) == run[t].found \cap DOMAIN Step(t).val

(* Only sides whose inactive slot holds the file's version are activated; if *)
(* there is none the call is done.                                           *)
ChooseSides(t) ==
    /\ Doing(t, "any", "next")
    /\ LET sides == Chosen(t)
       IN Continue(t, IF sides = {} THEN Ended(t, "ok")
                      ELSE [Next1(t) EXCEPT !.found = sides, !.goal.val = All(sides, 1)])
    /\ UNCHANGED <<mcu, family, holder, page, fw, lost, ran, good, left, calls>>

-------------------------------------------------------------------------------
(* The MCU (external).  It takes firmware only in sequence, checks the       *)
(* chunks and the image, marks the inactive slot as the next one on a        *)
(* commit, and a run restarts a side from its next slot.                     *)
Command ==
    IF page.opcode = Opcode(page.op) THEN page.op ELSE "other"
RunSides(S) ==
    [fw EXCEPT
        !.active = [s \in Sides |-> IF s \in S /\ fw.next[s] = "inactive" THEN fw.inactive[s] ELSE @[s]],
        !.inactive = [s \in Sides |-> IF s \in S /\ fw.next[s] = "inactive" THEN fw.active[s] ELSE @[s]],
        !.next = [s \in Sides |-> IF s \in S THEN "active" ELSE @[s]],
        !.stage = IF 0 \in S THEN "idle" ELSE @, !.chunks = IF 0 \in S THEN {} ELSE @]
Possible ==
    CASE Command = "xfer" -> fw.stage = "loading" /\ page.arg = One(page.buffer) /\ page.buffer # 0
      [] Command = "complete" -> fw.stage = "loading" /\ fw.chunks = 1..Chunks
      [] Command = "uart" -> fw.stage = "loaded"
      [] OTHER -> TRUE
Effect ==
    CASE Command = "start" -> [fw EXCEPT !.stage = "loading", !.chunks = {}, !.inactive[0] = "partial"]
      [] Command = "xfer" -> [fw EXCEPT !.chunks = @ \cup {page.buffer}]
      [] Command = "complete" -> [fw EXCEPT !.stage = "loaded", !.inactive[0] = "file"]
      [] Command = "uart" -> [fw EXCEPT !.stage = "copying",
                                        !.inactive = [s \in Sides |-> IF s = 0 THEN @[s] ELSE "partial"]]
      [] Command = "commit" -> [fw EXCEPT !.next = [s \in Sides |-> IF s \in DOMAIN page.arg THEN "inactive" ELSE @[s]]]
      [] Command = "run" -> RunSides(DOMAIN page.arg)
      [] OTHER -> fw
Holders == {s \in Sides : fw.inactive[s] = "file"}
Answers ==
    CASE Command = "get_info" -> {<<"get_info", All(Holders, 1)>>}
      [] Command = "uart_status" -> {<<"uart_status", One(IF fw.stage = "copying" THEN 1 ELSE 0)>>}
      [] Command = "log_dump" -> {<<"log_dump", One(n)>> : n \in 0..1}
      [] OTHER -> {<<Command, page.arg>>}
Disturbs == Command \in {"start", "xfer", "complete", "uart", "commit", "run"}
(* A command disturbs the calls of the others, and the one that rang for it  *)
(* if it no longer waits: what runs late may be of an earlier call of its    *)
(* own, or with the arguments of the next thread.  A late chunk is the same. *)
Unawaited(u) == run[u].phase # "wait" /\ Command # "xfer"
Calm ==
    [u \in Threads |->
        IF (u # page.by \/ Unawaited(u)) /\ Disturbs /\ Judged(run[u].goal)
        THEN [run[u] EXCEPT !.alone = FALSE] ELSE run[u]]

McuRuns ==
    /\ page.opcode # None /\ Possible
    /\ \E a \in Answers : page' = [page EXCEPT !.opcode = None, !.by = Nobody, !.status = "ok", !.answer = a]
    /\ fw' = Effect
    /\ run' = Calm
    /\ ran' = Noted(ran \cup {page.by})
    /\ left' = IF Command = "run" THEN left \ DOMAIN page.arg ELSE left
    /\ UNCHANGED <<mcu, family, holder, lost, good, calls>>
McuRefuses ==
    /\ page.opcode # None
    /\ \/ page' = [page EXCEPT !.opcode = None, !.by = Nobody, !.status = "error"]
       \/ Command = "get_info"
          /\ page' = [page EXCEPT !.opcode = None, !.by = Nobody, !.status = "uart timeout",
                                  !.answer = <<"get_info", All(Holders \cap {0}, 1)>>]
    /\ ran' = Noted(ran \cup {page.by})
    /\ UNCHANGED <<mcu, family, holder, fw, run, lost, good, left, calls>>
McuCopied ==
    /\ fw.stage = "copying"
    /\ fw' = [fw EXCEPT !.stage = "idle", !.inactive = [s \in Sides |-> IF s = 0 THEN @[s] ELSE "file"]]
    /\ UNCHANGED <<mcu, family, holder, page, run, lost, ran, good, left, calls>>

Next ==
    \/ \E t \in Threads :
        \/ Begin(t) \/ Acquire(t) \/ AcquireTimesOut(t) \/ Release(t)
        \/ LoadBuffer(t) \/ WriteAttributes(t) \/ WriteOpcode(t)
        \/ ReadStatus(t) \/ StatusLost(t) \/ TimesOut(t)
        \/ ReadAnswer(t) \/ Raises(t) \/ ReadMore(t) \/ CopyingTakesTooLong(t) \/ ChooseSides(t)
    \/ McuRuns \/ McuRefuses \/ McuCopied

Spec == Init /\ [][Next]_vars

-------------------------------------------------------------------------------
(* An answer that is read after a command succeeded is that command's,       *)
(* whatever other threads ask in the meantime: the lock spans both.          *)
AnswerStep ==
    \A t \in Threads :
        (Doing(t, "fetch", "next") /\ run'[t] # run[t] /\ t \in good /\ mcu = "timely" /\ Step(t).reg # "get_info")
            => page.answer = <<Step(t).reg, Step(t).val>>

(* What download_firmware and activate_firmware tell, as long as no other    *)
(* call touches the firmware meanwhile: a successful download has put the    *)
(* image on every side, and, where nobody else installs, even after the loss *)
(* of a write at least on the own; a successful activation runs the file on  *)
(* every side it committed.                                                  *)
Succeeds(t) == run[t].todo # <<>> /\ run'[t] = Returned("ok")
FirmwareStep ==
    \A t \in Threads : (Succeeds(t) /\ run[t].alone) =>
        /\ run[t].goal.kind = "download" =>
            /\ (lost = 0 \/ (lost = 1 /\ Installers \subseteq {t})) => fw.inactive[0] = "file"
            /\ (lost = 0 /\ ~run[t].blind) => \A s \in Sides : fw.inactive[s] = "file"
        /\ (run[t].goal.kind = "activate file" /\ Step(t).do = "unlock" /\ lost = 0) =>
                \A s \in DOMAIN run[t].goal.val : fw.active[s] = "file"

(* A reset brings a side back with the image it ran, unless an activation    *)
(* has failed before and told so, or a write was lost: commit and run of an  *)
(* activation are one for everybody else.                                    *)
ResetStep ==
    \A s \in Sides : fw'.active[s] # fw.active[s] =>
        run[page.by].goal.kind # "reset" \/ s \in left \/ lost > 0

(* An activation from a file that succeeds has it running on every side it   *)
(* was called for.  It is not so: sides that do not have the file are passed *)
(* over, all of them if need be.                                             *)
ActivatedStep ==
    \A t \in Threads :
        (Succeeds(t) /\ run[t].alone /\ lost = 0 /\ run[t].goal.kind = "activate file")
            => \A s \in DOMAIN run[t].goal.val : fw.active[s] = "file"

(* The commands of a timely MCU without lost writes are a command channel.   *)
Timely(x) == IF mcu = "timely" THEN x ELSE {}
===============================================================================
