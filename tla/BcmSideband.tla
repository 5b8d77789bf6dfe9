------------------------------ MODULE BcmSideband ------------------------------
(***************************************************************************)
(* The small handshakes of a Broadcom Y cable that do not go through its   *)
(* command mailbox: an argument register, a command register that the MCU  *)
(* (external) clears when it is done, an error register and a buffer.  One *)
(* on page FCh serves the event logs of the ToR MCUs and the watchdog of   *)
(* the peer, one on page FDh the RAM of the ToR MCU.  Only the log calls   *)
(* take the lock, no call looks whether the registers are in use, and a    *)
(* call that has used up its polls goes on as if the MCU had answered.     *)
(***************************************************************************)
EXTENDS Naturals

CONSTANTS Threads, Nobody

SidebandAssumption == Nobody \notin Threads

Logs == {[ch |-> "log", cmd |-> "self", arg |-> s] : s \in {1, 2}}
            \cup {[ch |-> "log", cmd |-> "peer", arg |-> 1]}
Watchdog == {[ch |-> "log", cmd |-> "wd", arg |-> 0]}
Rams == {[ch |-> "ram", cmd |-> "read", arg |-> a] : a \in {1, 2}}
Requests == Logs \cup Watchdog \cup Rams
Answers == Requests \cup {[ch |-> "log", cmd |-> "peer", arg |-> 2]}  \* of two mixed requests
None == [ch |-> "none", cmd |-> "none", arg |-> 0]
Error == [None EXCEPT !.cmd = "error"]
Success == [None EXCEPT !.cmd = "success"]

VARIABLES
    channel,  \* the handshake of this behaviour: "log" on page FCh or "ram" on page FDh
    timely,   \* the MCU of this behaviour is never too late for the last poll
    lock,     \* the thread that holds the port's lock, or Nobody
    arg,      \* the argument register
    cmd,      \* the command register: a command, or "none" when it is clear
    err,      \* the error register
    buffer,   \* the request whose answer the buffer holds, or None
    work,     \* the request the MCU is at, or None
    pc, op,
    out,      \* what a call returned: an answer, by the request it belongs to, Error or Success
    disturbed \* history: the channel had two users at once, lost an access or had a late MCU

vars == <<channel, timely, lock, arg, cmd, err, buffer, work, pc, op, out, disturbed>>

TypeOK ==
    /\ channel \in {"log", "ram"} /\ timely \in BOOLEAN
    /\ lock \in Threads \cup {Nobody}
    /\ arg \in 0..2
    /\ cmd \in {"none", "self", "peer", "wd", "read"}
    /\ err \in BOOLEAN
    /\ buffer \in Answers \cup {None}
    /\ work \in Answers \cup {None}
    /\ pc \in [Threads -> {"idle", "lock", "arg", "cmd", "poll", "err", "buffer"}]
    /\ op \in [Threads -> Requests \cup {None}]
    /\ out \in [Threads -> Answers \cup {None, Error, Success}]
    /\ disturbed \in BOOLEAN

Init ==
    /\ channel \in {"log", "ram"} /\ timely \in BOOLEAN
    /\ lock = Nobody
    /\ arg = 0
    /\ cmd = "none"
    /\ err = FALSE
    /\ buffer = None
    /\ work = None
    /\ pc = [t \in Threads |-> "idle"]
    /\ op = [t \in Threads |-> None]
    /\ out = [t \in Threads |-> None]
    /\ disturbed = ~timely

-------------------------------------------------------------------------------
Goto(t, where) == pc' = [pc EXCEPT ![t] = where]
Using(t) == pc[t] \notin {"idle", "lock"}
InUse == \E t \in Threads : Using(t)
Unlocked == \E t \in Threads : Using(t) /\ op[t].cmd = "wd"  \* the watchdog's call takes no lock
Disturb(is) == disturbed' = (disturbed \/ is)
McuSame == UNCHANGED <<channel, timely, err, buffer, work>>

Return(t, v) ==
    /\ Goto(t, "idle")
    /\ out' = [out EXCEPT ![t] = v]
    /\ op' = [op EXCEPT ![t] = IF v \in {Error, Success} THEN None ELSE @]
    /\ lock' = IF lock = t THEN Nobody ELSE lock

(* get_tor_mcu_event_log, get_tor_peer_mcu_event_log: under the lock. *)
CallLog(t) ==
    /\ channel = "log" /\ pc[t] = "idle"
    /\ \E r \in Logs : op' = [op EXCEPT ![t] = r]
    /\ Goto(t, "lock")
    /\ out' = [out EXCEPT ![t] = None]
    /\ UNCHANGED <<lock, arg, cmd, disturbed>> /\ McuSame
(* Defect: the log is read without the lock. *)
LockLogNot(t) ==
    /\ pc[t] = "lock"
    /\ Goto(t, "arg")
    /\ Disturb(Unlocked)
    /\ UNCHANGED <<lock, arg, cmd, op, out>> /\ McuSame

(* The lock keeps the other logs away, not a user without it. *)
LockLog(t) ==
    /\ pc[t] = "lock" /\ lock = Nobody
    /\ lock' = t
    /\ Goto(t, "arg")
    /\ Disturb(Unlocked)
    /\ UNCHANGED <<arg, cmd, op, out>> /\ McuSame

LockTimesOut(t) ==
    /\ pc[t] = "lock" /\ lock # Nobody
    /\ Return(t, Error)
    /\ UNCHANGED <<arg, cmd, disturbed>> /\ McuSame

(* read_tor_ram: without a lock.  A second user disturbs the first. *)
CallRam(t) ==
    /\ channel = "ram" /\ pc[t] = "idle"
    /\ \E r \in Rams : op' = [op EXCEPT ![t] = r]
    /\ Goto(t, "arg")
    /\ out' = [out EXCEPT ![t] = None]
    /\ Disturb(InUse)
    /\ UNCHANGED <<lock, arg, cmd>> /\ McuSame

(* enable_disable_watchdog_peer_tor: the log channel without its lock and    *)
(* without an argument.                                                      *)
CallWatchdog(t) ==
    /\ channel = "log" /\ pc[t] = "idle"
    /\ \E r \in Watchdog : op' = [op EXCEPT ![t] = r]
    /\ Goto(t, "cmd")
    /\ out' = [out EXCEPT ![t] = None]
    /\ Disturb(InUse)
    /\ UNCHANGED <<lock, arg, cmd>> /\ McuSame

WriteArg(t) ==
    /\ pc[t] = "arg"
    /\ arg' = op[t].arg
    /\ Goto(t, "cmd")
    /\ UNCHANGED <<lock, cmd, op, out, disturbed>> /\ McuSame
WriteCmd(t) ==
    /\ pc[t] = "cmd"
    /\ cmd' = op[t].cmd
    /\ Goto(t, "poll")
    /\ UNCHANGED <<lock, arg, op, out, disturbed>> /\ McuSame

(* The register is clear, or the polls (30 for a log, 3000 for the RAM) are  *)
(* used up: the call goes on in both cases.                                  *)
Polled(t) ==
    /\ pc[t] = "poll"
    /\ cmd = "none" \/ ~timely
    /\ Goto(t, "err")
    /\ UNCHANGED <<lock, arg, cmd, op, out, disturbed>> /\ McuSame

ReadError(t) ==
    /\ pc[t] = "err"
    /\ \/ err /\ Return(t, Error)
       \/ ~err /\ op[t].cmd = "wd" /\ Return(t, Success)
       \/ ~err /\ op[t].cmd # "wd" /\ Goto(t, "buffer") /\ UNCHANGED <<lock, op, out>>
    /\ UNCHANGED <<arg, cmd, disturbed>> /\ McuSame
ReadBuffer(t) ==
    /\ pc[t] = "buffer"
    /\ Return(t, buffer)
    /\ UNCHANGED <<arg, cmd, disturbed>> /\ McuSame

(* A lost access ends the call; the MCU may still be at its command. *)
Lose(t) ==
    /\ pc[t] \notin {"idle", "lock"}
    /\ Disturb(TRUE)
    /\ Return(t, Error)
    /\ UNCHANGED <<arg, cmd>> /\ McuSame

-------------------------------------------------------------------------------
McuTake ==
    /\ work = None /\ cmd # "none"
    /\ work' = [ch |-> channel, cmd |-> cmd, arg |-> IF cmd = "wd" THEN 0 ELSE arg]
    /\ UNCHANGED <<channel, timely, lock, arg, cmd, err, buffer, pc, op, out, disturbed>>
McuDone ==
    /\ work # None
    /\ work' = None /\ cmd' = "none"
    /\ \/ err' = TRUE /\ UNCHANGED buffer
       \/ err' = FALSE /\ buffer' = IF work.cmd = "wd" THEN buffer ELSE work
    /\ UNCHANGED <<channel, timely, lock, arg, pc, op, out, disturbed>>

ThreadStep(t) ==
    \/ LockLog(t) \/ LockTimesOut(t) \/ WriteArg(t) \/ WriteCmd(t)
    \/ Polled(t) \/ ReadError(t) \/ ReadBuffer(t) \/ Lose(t)

Next ==
    \/ \E t \in Threads : CallLog(t) \/ CallRam(t) \/ CallWatchdog(t) \/ ThreadStep(t)
    \/ McuTake \/ McuDone

Spec == Init /\ [][Next]_vars

-------------------------------------------------------------------------------
(* What a call returns is what it asked for, a log of the right MCU and      *)
(* source or the right word, as long as nobody used the registers without    *)
(* the lock at the same time, no access was lost and the MCU is timely.      *)
AnswerOfRequest ==
    \A t \in Threads : op[t] # None /\ pc[t] = "idle" /\ ~disturbed => out[t] = op[t]
===============================================================================
