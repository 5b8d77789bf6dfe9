------------------------------ MODULE BcmMailbox ------------------------------
(***************************************************************************)
(* The command mailbox of a Broadcom Y cable: __cable_cmd_execute of       *)
(* y_cable_broadcom.py, which every configuration call of the driver goes  *)
(* through.  Threads of one process share the mailbox under a lock.  A     *)
(* call looks at the command and status bytes, writes its parameters and   *)
(* its command byte (bit 0 set), polls the status byte, reads the          *)
(* response, writes the command byte back to zero and waits until the      *)
(* microcontroller (MCU, external) has released the status byte.  Any      *)
(* access may be lost, and each loss is an exit of its own which leaves    *)
(* the two bytes as they are.                                              *)
(***************************************************************************)
EXTENDS Naturals

CONSTANTS
    Threads,   \* threads with a reference to the port object
    MaxPolls,  \* status reads before a polling loop gives up
    Nobody,
    Stale      \* a command of a call whose thread has begun another since

MailboxAssumption ==
    MaxPolls \in Nat \ {0} /\ Nobody \notin Threads /\ Stale \notin Threads /\ Stale # Nobody

VARIABLES
    mcu,      \* the MCU of this behaviour: "timely" answers within the polls of a call, "slow" need not
    holder,   \* the thread that holds the lock, or Nobody
    cmd,      \* whose command the command byte holds, or Nobody: bit 0 clear
    sts,      \* the status byte: "free" (bit 0 clear), "done" (11h) or "error" (31h)
    params,   \* whose parameters are written
    work,     \* whose command the MCU works on, or Nobody
    pc,       \* where each thread is in its call
    polls,    \* status reads of the current loop
    failing,  \* the call goes on to release the mailbox but will return an error
    verdict,  \* what the latest call of each thread returned: "ok" is ret_val = 0
    ran,      \* history: threads whose command the MCU carried out for their latest call
    calm,     \* history: the call under the lock began with an idle MCU and lost no access
    refused   \* history: how many calm calls in a row were turned away

vars == <<mcu, holder, cmd, sts, params, work, pc, polls, failing, verdict, ran, calm, refused>>

MaxRefused == 3  \* bound of the history counter

TypeOK ==
    /\ mcu \in {"timely", "slow"}
    /\ holder \in Threads \cup {Nobody}
    /\ cmd \in Threads \cup {Nobody, Stale}
    /\ sts \in {"free", "done", "error"}
    /\ params \in Threads \cup {Nobody, Stale}
    /\ work \in Threads \cup {Nobody, Stale}
    /\ pc \in [Threads -> {"idle", "lock", "look", "withdraw", "reset", "params", "trigger", "poll",
                           "response", "clear", "release"}]
    /\ polls \in 0..MaxPolls
    /\ failing \in BOOLEAN
    /\ verdict \in [Threads -> {"none", "ok", "error"}]
    /\ ran \subseteq Threads
    /\ calm \in BOOLEAN
    /\ refused \in 0..MaxRefused

Init ==
    /\ mcu \in {"timely", "slow"}
    /\ holder = Nobody /\ cmd = Nobody /\ sts = "free" /\ params = Nobody /\ work = Nobody
    /\ pc = [t \in Threads |-> "idle"]
    /\ polls = 0 /\ failing = FALSE
    /\ verdict = [t \in Threads |-> "none"]
    /\ ran = {} /\ calm = FALSE /\ refused = 0

-------------------------------------------------------------------------------
(* The MCU has nothing left to do about the two bytes. *)
McuIdle == work = Nobody /\ (cmd = Nobody <=> sts = "free")

Goto(t, where) == pc' = [pc EXCEPT ![t] = where]
Forget(t, whose) == IF whose = t THEN Stale ELSE whose

(* A thread calls: what is left of its previous call is nobody's any more. *)
Call(t) ==
    /\ pc[t] = "idle"
    /\ Goto(t, "lock")
    /\ verdict' = [verdict EXCEPT ![t] = "none"]
    /\ ran' = ran \ {t}
    /\ cmd' = Forget(t, cmd) /\ params' = Forget(t, params) /\ work' = Forget(t, work)
    /\ UNCHANGED <<mcu, holder, sts, polls, failing, calm, refused>>

Lock(t) ==
    /\ pc[t] = "lock" /\ holder = Nobody
    /\ holder' = t
    /\ Goto(t, "look")
    /\ calm' = McuIdle
    /\ UNCHANGED <<mcu, cmd, sts, params, work, polls, failing, verdict, ran, refused>>

(* Defect: the result of acquire is not looked at. *)
LockTimesOutIgnored(t) ==
    /\ pc[t] = "lock" /\ holder # Nobody
    /\ Goto(t, "look")
    /\ UNCHANGED <<mcu, holder, cmd, sts, params, work, polls, failing, verdict, ran, calm, refused>>

(* Another thread keeps the lock for PORT_LOCK_TIMEOUT. *)
LockTimesOut(t) ==
    /\ pc[t] = "lock" /\ holder # Nobody
    /\ Goto(t, "idle")
    /\ verdict' = [verdict EXCEPT ![t] = "error"]
    /\ UNCHANGED <<mcu, holder, cmd, sts, params, work, polls, failing, ran, calm, refused>>

(* A call ends and gives up the lock: how is "lost" (an access was lost),    *)
(* "away" (turned away as busy) or "done".                                   *)
Return(t, v, how) ==
    /\ Goto(t, "idle")
    /\ holder' = Nobody
    /\ verdict' = [verdict EXCEPT ![t] = v]
    /\ polls' = 0 /\ failing' = FALSE
    /\ calm' = (calm /\ how # "lost")
    /\ refused' = IF calm /\ how = "away" /\ refused < MaxRefused THEN refused + 1 ELSE 0

(* An access is lost: the call returns without touching the mailbox again. *)
Lost(t) ==
    /\ pc[t] \notin {"idle", "lock"}
    /\ Return(t, "error", "lost")
    /\ UNCHANGED <<mcu, cmd, sts, params, work, ran>>

(* Defect: a finished command is not withdrawn. *)
LookRefuses(t) ==
    /\ pc[t] = "look"
    /\ \/ cmd = Nobody /\ sts = "free" /\ Goto(t, "params")
          /\ UNCHANGED <<holder, polls, failing, verdict, calm, refused>>
       \/ /\ cmd # Nobody \/ sts # "free"
          /\ Return(t, "error", "away")
    /\ UNCHANGED <<mcu, cmd, sts, params, work, ran>>

(* The two bytes decide: a finished command that was never withdrawn is      *)
(* withdrawn, an unused mailbox is used, anything else is ERROR_MCU_BUSY.    *)
Look(t) ==
    /\ pc[t] = "look"
    /\ \/ cmd # Nobody /\ sts # "free" /\ Goto(t, "withdraw")
          /\ UNCHANGED <<holder, polls, failing, verdict, calm, refused>>
       \/ cmd = Nobody /\ sts = "free" /\ Goto(t, "params")
          /\ UNCHANGED <<holder, polls, failing, verdict, calm, refused>>
       \/ (cmd = Nobody <=> sts # "free") /\ Return(t, "error", "away")
    /\ UNCHANGED <<mcu, cmd, sts, params, work, ran>>

(* A write of the command byte, after which the call goes on elsewhere. *)
WriteCmd(t, from, value, to) ==
    /\ pc[t] = from
    /\ cmd' = value
    /\ Goto(t, to)
    /\ UNCHANGED <<mcu, holder, sts, params, work, polls, failing, verdict, ran, calm, refused>>

Withdraw(t) == WriteCmd(t, "withdraw", Nobody, "reset")

(* Defect: the loop has no bound. *)
PollForever(t) ==
    /\ pc[t] = "poll" /\ sts = "free"
    /\ polls' = polls + 1
    /\ UNCHANGED <<mcu, holder, cmd, sts, params, work, pc, failing, verdict, ran, calm, refused>>

(* Polls of the status byte.  A timely MCU is never too late for the last.   *)
PollAgain(t) ==
    /\ pc[t] \in {"reset", "poll", "release"}
    /\ (sts = "free") = (pc[t] = "poll")
    /\ polls < MaxPolls
    /\ polls' = polls + 1
    /\ UNCHANGED <<mcu, holder, cmd, sts, params, work, pc, failing, verdict, ran, calm, refused>>
LastPoll == polls = MaxPolls /\ mcu = "slow"

(* After a withdrawal the call ends as busy in any case: it goes by the      *)
(* status it read before.                                                    *)
Reset(t) ==
    /\ pc[t] = "reset"
    /\ sts = "free" \/ LastPoll
    /\ Return(t, "error", "away")
    /\ UNCHANGED <<mcu, cmd, sts, params, work, ran>>

(* Header and request body, or the response length alone for the counters. *)
WriteParams(t) ==
    /\ pc[t] = "params"
    /\ params' = t
    /\ Goto(t, "trigger")
    /\ UNCHANGED <<mcu, holder, cmd, sts, work, polls, failing, verdict, ran, calm, refused>>

Trigger(t) == WriteCmd(t, "trigger", t, "poll")

Poll(t) ==
    /\ pc[t] = "poll"
    /\ sts # "free" \/ LastPoll
    /\ Goto(t, IF sts = "done" THEN "response" ELSE "clear")
    /\ failing' = (sts # "done")
    /\ polls' = 0
    /\ UNCHANGED <<mcu, holder, cmd, sts, params, work, verdict, ran, calm, refused>>

ReadResponse(t) ==
    /\ pc[t] = "response"
    /\ Goto(t, "clear")
    /\ UNCHANGED <<mcu, holder, cmd, sts, params, work, polls, failing, verdict, ran, calm, refused>>

Clear(t) == WriteCmd(t, "clear", Nobody, "release")

(* ERROR_MCU_NOT_RELEASED replaces the verdict of a command that was done. *)
Release(t) ==
    /\ pc[t] = "release"
    /\ sts = "free" \/ LastPoll
    /\ Return(t, IF failing \/ sts # "free" THEN "error" ELSE "ok", "done")
    /\ UNCHANGED <<mcu, cmd, sts, params, work, ran>>

-------------------------------------------------------------------------------
(* The MCU takes up a command when both bytes are as a caller leaves them,   *)
(* finishes it, and frees the status byte when the command is withdrawn.     *)
McuTake ==
    /\ work = Nobody /\ cmd # Nobody /\ sts = "free"
    /\ work' = IF params = cmd THEN cmd ELSE Stale
    /\ UNCHANGED <<mcu, holder, cmd, sts, params, pc, polls, failing, verdict, ran, calm, refused>>
McuFinish ==
    /\ work # Nobody
    /\ work' = Nobody
    /\ \/ /\ sts' = "done"
          /\ ran' = IF work = Stale THEN ran ELSE ran \cup {work}
       \/ sts' = "error" /\ UNCHANGED ran
    /\ UNCHANGED <<mcu, holder, cmd, params, pc, polls, failing, verdict, calm, refused>>
McuFree ==
    /\ work = Nobody /\ cmd = Nobody /\ sts # "free"
    /\ sts' = "free"
    /\ UNCHANGED <<mcu, holder, cmd, params, work, pc, polls, failing, verdict, ran, calm, refused>>
McuStep == McuTake \/ McuFinish \/ McuFree

ThreadStep(t) ==
    \/ Look(t) \/ Withdraw(t) \/ Reset(t) \/ PollAgain(t) \/ WriteParams(t) \/ Trigger(t)
    \/ Poll(t) \/ ReadResponse(t) \/ Clear(t) \/ Release(t)

Next ==
    \/ \E t \in Threads : Call(t) \/ Lock(t) \/ LockTimesOut(t) \/ ThreadStep(t) \/ Lost(t)
    \/ McuStep

Spec == Init /\ [][Next]_vars

-------------------------------------------------------------------------------
(* One call repairs what a call that lost an access has left behind: of      *)
(* those that find an idle MCU and lose nothing themselves, no two in a row  *)
(* are turned away.  It is about timely MCUs.                                *)
OneCallRepairs == mcu = "timely" => refused <= 1

(* With a timely MCU the mailbox is a command channel: a command is carried  *)
(* out at most once, for the call that wrote it, and a call that returns 0   *)
(* has had its command carried out.  A slow MCU may mistake the parameters   *)
(* of one call for those of another and is not mapped.                       *)
Timely(x) == IF mcu = "timely" THEN x ELSE {}
Channel ==
    INSTANCE CommandChannel WITH
        Callers <- Threads,
        calling <- Timely({t \in Threads : pc[t] # "idle"}),
        ran <- Timely(ran),
        good <- Timely({t \in Threads : verdict[t] = "ok"})
IsCommandChannel == Channel!Spec
===============================================================================
