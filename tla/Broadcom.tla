------------------------------- MODULE Broadcom -------------------------------
(***************************************************************************)
(* The Broadcom Y cable driver, composed of its parts.  They share no      *)
(* register, so that each behaviour is one of one part: the variables that *)
(* only other parts have are Off and stay so.                              *)
(***************************************************************************)
EXTENDS Naturals

CONSTANTS
    Threads,    \* of the process that drives the cable
    Upgraders,  \* those that change firmware; the others ask and reset
    MaxPolls,   \* status reads before a polling loop of the mailbox gives up
    Packets,    \* packets of a firmware image
    MaxCalls,   \* bound: firmware calls of a behaviour
    Nobody, Stale, Off

VARIABLES
    part,
    pc, out, op, holder, lock, cmd, work, host,                          \* of several parts
    mcu, sts, params, polls, failing, verdict, ran, calm, refused,       \* of one part each
    shows, auto, fast, status, doing, side, got, wrote, seen,
    family, reg, matched, call,
    channel, timely, arg, err, buffer, disturbed,
    prompt, cur, next, img, session, bits, asked, job, dl, calls

Mailbox == INSTANCE BcmMailbox
Mux == INSTANCE BcmMux
Port == INSTANCE BcmPort
Sideband == INSTANCE BcmSideband
Firmware == INSTANCE BcmFirmware

ASSUME PartsAssumption ==
    /\ Mailbox!MailboxAssumption /\ Mux!MuxAssumption
    /\ Sideband!SidebandAssumption /\ Firmware!FirmwareAssumption

ofMailbox == <<mcu, sts, params, polls, failing, verdict, ran, calm, refused>>
ofMux == <<shows, auto, fast, status, doing, side, got, wrote, seen>>
ofPort == <<family, reg, matched, call>>
ofSideband == <<channel, timely, arg, err, buffer, disturbed>>
ofFirmware == <<prompt, cur, next, img, session, bits, asked, job, dl, calls>>

MailboxOff ==
    /\ mcu = Off /\ sts = Off /\ params = Off /\ polls = Off /\ failing = Off /\ verdict = Off
    /\ ran = Off /\ calm = Off /\ refused = Off
MuxOff ==
    /\ shows = Off /\ auto = Off /\ fast = Off /\ status = Off /\ doing = Off /\ side = Off
    /\ got = Off /\ wrote = Off /\ seen = Off
PortOff == family = Off /\ reg = Off /\ matched = Off /\ call = Off
SidebandOff == channel = Off /\ timely = Off /\ arg = Off /\ err = Off /\ buffer = Off /\ disturbed = Off
FirmwareOff ==
    /\ prompt = Off /\ cur = Off /\ next = Off /\ img = Off /\ session = Off /\ bits = Off
    /\ asked = Off /\ job = Off /\ dl = Off /\ calls = Off

Init ==
    \/ part = "mailbox" /\ Mailbox!Init /\ out = Off /\ op = Off /\ lock = Off /\ host = Off
       /\ MuxOff /\ PortOff /\ SidebandOff /\ FirmwareOff
    \/ part = "mux" /\ Mux!Init /\ holder = Off /\ cmd = Off /\ work = Off /\ host = Off
       /\ MailboxOff /\ PortOff /\ SidebandOff /\ FirmwareOff
    \/ part = "port" /\ Port!Init /\ pc = Off /\ out = Off /\ op = Off /\ holder = Off /\ lock = Off
       /\ cmd = Off /\ work = Off /\ MailboxOff /\ MuxOff /\ SidebandOff /\ FirmwareOff
    \/ part = "sideband" /\ Sideband!Init /\ holder = Off /\ host = Off
       /\ MailboxOff /\ MuxOff /\ PortOff /\ FirmwareOff
    \/ part = "firmware" /\ Firmware!Init /\ pc = Off /\ op = Off /\ lock = Off /\ cmd = Off /\ work = Off
       /\ MailboxOff /\ MuxOff /\ PortOff /\ SidebandOff

Next ==
    /\ \/ part = "mailbox" /\ Mailbox!Next
          /\ UNCHANGED <<out, op, lock, host, ofMux, ofPort, ofSideband, ofFirmware>>
       \/ part = "mux" /\ Mux!Next
          /\ UNCHANGED <<holder, cmd, work, host, ofMailbox, ofPort, ofSideband, ofFirmware>>
       \/ part = "port" /\ Port!Next
          /\ UNCHANGED <<pc, out, op, holder, lock, cmd, work, ofMailbox, ofMux, ofSideband, ofFirmware>>
       \/ part = "sideband" /\ Sideband!Next
          /\ UNCHANGED <<holder, host, ofMailbox, ofMux, ofPort, ofFirmware>>
       \/ part = "firmware" /\ Firmware!Next
          /\ UNCHANGED <<pc, op, lock, cmd, work, ofMailbox, ofMux, ofPort, ofSideband>>
    /\ UNCHANGED part

vars == <<part, pc, out, op, holder, lock, cmd, work, host, ofMailbox, ofMux, ofPort, ofSideband, ofFirmware>>

Spec == Init /\ [][Next]_vars

-------------------------------------------------------------------------------
(* The variables of the part have their types. *)
TypeOK ==
    CASE part = "mailbox" -> Mailbox!TypeOK
      [] part = "mux" -> Mux!TypeOK
      [] part = "port" -> Port!TypeOK
      [] part = "sideband" -> Sideband!TypeOK
      [] part = "firmware" -> Firmware!TypeOK

(* The properties of the parts, each stated in its module. *)
OneCallRepairs == part = "mailbox" => Mailbox!OneCallRepairs
LastToggleWins == part = "mux" => Mux!LastToggleWins
ToldTruly == part = "port" => Port!ToldTruly
CreatedAsAsked == part = "port" => Port!CreatedAsAsked
FecKeepsTheRest == part = "port" => Port!FecKeepsTheRest
AnswerOfRequest == part = "sideband" => Sideband!AnswerOfRequest
DirectionSeen == [][part = "mux" => Mux!DirectionStep]_vars
UpgradesAsTold == [][part = "firmware" => Firmware!ToldStep]_vars
HitlessKeepsMux == [][part = "firmware" => Firmware!WarmStepKeepsMux]_vars
AlignedNeverBlank == [][part = "firmware" => Firmware!AlignedStep]_vars
ResetTrueMeansReset == [][part = "firmware" => Firmware!ResetStep]_vars

(* The mailbox is a command channel; the other parts have nobody calling. *)
Timely(x) == IF part # "mailbox" THEN {} ELSE Mailbox!Timely(x)
Channel ==
    INSTANCE CommandChannel WITH
        Callers <- Threads,
        calling <- Timely({t \in Threads : pc[t] # "idle"}),
        ran <- Timely(ran),
        good <- Timely({t \in Threads : verdict[t] = "ok"})
IsCommandChannel == Channel!Spec
===============================================================================
