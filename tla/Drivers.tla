-------------------------------- MODULE Drivers --------------------------------
(***************************************************************************)
(* The drivers that are modelled as programs of accesses: those on         *)
(* registers (RegisterCalls) and the vendor commands of the Credo cable    *)
(* (CredoVsc).  Each behaviour is one of one part; the variables that only *)
(* the other part has are Absent and stay so.                              *)
(***************************************************************************)
EXTENDS Naturals

CONSTANTS
    Threads,        \* of one process for the cables, of several for the transceivers
    Ends,           \* of a Credo cable
    Lanes, Masks,   \* of a transceiver, and the sets of lanes that are asked for
    Sides, Chunks,  \* MCUs of a Credo cable, chunks of its firmware image
    Installers,     \* the threads that install firmware
    Retries,        \* attempts to repeat a chunk
    Cycles,         \* rounds of reading the event log
    MaxLost,        \* bound: writes that are lost
    MaxCalls,       \* bound: calls of an installer about firmware
    Nobody, Absent

VARIABLES
    part,
    family, holder, run,                             \* of both parts
    driver, reg,                                     \* of one part each
    mcu, page, fw, lost, ran, good, calls, left

Registers == INSTANCE RegisterCalls
Vsc == INSTANCE CredoVsc

ASSUME PartsAssumption == Registers!RegisterAssumption /\ Vsc!VscAssumption

ofRegisters == <<driver, reg>>
ofVsc == <<mcu, page, fw, lost, ran, good, calls, left>>
RegistersOff == driver = Absent /\ reg = Absent
VscOff ==
    /\ mcu = Absent /\ page = Absent /\ fw = Absent /\ lost = Absent
    /\ ran = Absent /\ good = Absent /\ calls = Absent /\ left = Absent

Init ==
    \/ part = "registers" /\ Registers!Init /\ VscOff
    \/ part = "vsc" /\ Vsc!Init /\ RegistersOff

Next ==
    /\ \/ part = "registers" /\ Registers!Next /\ UNCHANGED ofVsc
       \/ part = "vsc" /\ Vsc!Next /\ UNCHANGED ofRegisters
    /\ UNCHANGED part

vars == <<part, family, holder, run, ofRegisters, ofVsc>>

Spec == Init /\ [][Next]_vars

-------------------------------------------------------------------------------
(* The variables of the part have their types; a chunk of firmware is sent   *)
(* again, and the event log asked for more, only as often as the code says.  *)
TypeOK == IF part = "registers" THEN Registers!TypeOK ELSE Vsc!TypeOK

(* The properties of the parts, each stated in its module. *)
AsTold == [][part = "registers" => Registers!AsToldStep]_vars
LoopbacksExclude == [][part = "registers" => Registers!LoopbackStep]_vars
AnswerOfTarget == [][IF part = "registers" THEN Registers!AnswerStep ELSE Vsc!AnswerStep]_vars
FirmwareTold == [][part = "vsc" => Vsc!FirmwareStep]_vars
ResetKeepsImage == [][part = "vsc" => Vsc!ResetStep]_vars
ActivatedAsDocumented == [][part = "vsc" => Vsc!ActivatedStep]_vars

(* The vendor commands are a command channel; the registers have nobody      *)
(* calling.                                                                  *)
Timely(x) == IF part # "vsc" THEN {} ELSE Vsc!Timely(x)
Channel ==
    INSTANCE CommandChannel WITH
        Callers <- Threads,
        calling <- Timely({t \in Threads : run[t].phase # "next"}),
        ran <- Timely(ran),
        good <- Timely(good)
IsCommandChannel == Channel!Spec
===============================================================================
