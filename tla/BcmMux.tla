-------------------------------- MODULE BcmMux --------------------------------
(***************************************************************************)
(* The mux of a Broadcom Y cable: which ToR the NIC listens to.  It is     *)
(* switched and asked about through a fast command: one bit of a register  *)
(* that the MCU (external) clears when it has carried the command out,     *)
(* next to a status byte.  The register has a lock of its own (fp_lock).   *)
(* Newer cables also show the direction in byte 105.                       *)
(***************************************************************************)
CONSTANTS
    Threads,
    Nobody

MuxAssumption == Nobody \notin Threads

Sides == {"a", "b"}
Other(s) == IF s = "a" THEN "b" ELSE "a"

VARIABLES
    shows,   \* does byte 105 of this cable show the direction?
    auto,    \* does the cable switch by itself in this behaviour?
    lock,    \* the thread that holds fp_lock, or Nobody
    fast,    \* the command bits set in the fast command register
    status,  \* the byte next to it: a side, or "fail" (FFh)
    doing,   \* the command the MCU is at, or "none"
    side,    \* where the mux really is
    pc, op,
    got,     \* the direction a call has found out
    out,     \* what the latest call of each thread returned
    wrote,   \* history: who wrote the register last
    seen     \* history: where the mux was during the current call of each thread

vars == <<shows, auto, lock, fast, status, doing, side, pc, op, got, out, wrote, seen>>

Ops == {"a", "b", "direction", "linked"}
Results == Sides \cup {"none", "true", "false", "unknown", "error"}

TypeOK ==
    /\ shows \in BOOLEAN /\ auto \in BOOLEAN
    /\ lock \in Threads \cup {Nobody} /\ wrote \in Threads \cup {Nobody}
    /\ fast \subseteq Ops /\ doing \in Ops \cup {"none"}
    /\ status \in Sides \cup {"fail"}
    /\ side \in Sides
    /\ pc \in [Threads -> {"idle", "shown", "lock", "write", "poll", "link"}]
    /\ op \in [Threads -> Ops]
    /\ got \in [Threads -> Sides]
    /\ out \in [Threads -> Results]
    /\ seen \in [Threads -> SUBSET Sides]

Init ==
    /\ shows \in BOOLEAN /\ auto \in BOOLEAN
    /\ lock = Nobody /\ wrote = Nobody
    /\ fast = {} /\ doing = "none" /\ status = "a"
    /\ side = "a"
    /\ pc = [t \in Threads |-> "idle"]
    /\ op = [t \in Threads |-> "direction"]
    /\ got = [t \in Threads |-> "a"]
    /\ out = [t \in Threads |-> "none"]
    /\ seen = [t \in Threads |-> {}]

-------------------------------------------------------------------------------
Goto(t, where) == pc' = [pc EXCEPT ![t] = where]
Stay == UNCHANGED <<shows, auto, side, status, doing>>

Return(t, v) ==
    /\ Goto(t, "idle")
    /\ out' = [out EXCEPT ![t] = v]
    /\ got' = [got EXCEPT ![t] = "a"]
    /\ seen' = [seen EXCEPT ![t] = {}]

Call(t, o) ==
    /\ pc[t] = "idle"
    /\ op' = [op EXCEPT ![t] = o]
    /\ Goto(t, IF o \in Sides THEN "lock" ELSE "shown")
    /\ out' = [out EXCEPT ![t] = "none"]
    /\ seen' = [seen EXCEPT ![t] = {side}]
    /\ UNCHANGED <<lock, fast, got, wrote>> /\ Stay

(* The direction of the mux is known to the call: get_mux_direction returns  *)
(* it, get_active_linked_tor_side goes on to the link of that side.          *)
Known(t, s) ==
    IF op[t] = "direction" THEN Return(t, s)
    ELSE got' = [got EXCEPT ![t] = s] /\ Goto(t, "link") /\ UNCHANGED <<out, seen>>

(* Byte 105: the direction, or that the NIC cannot be asked; zero leads to   *)
(* the fast command.                                                         *)
ReadShown(t) ==
    /\ pc[t] = "shown"
    /\ \/ shows /\ Known(t, side)
       \/ shows /\ Return(t, "unknown")
       \/ ~shows /\ Goto(t, "lock") /\ UNCHANGED <<out, got, seen>>
    /\ UNCHANGED <<lock, fast, op, wrote>> /\ Stay

(* get_active_linked_tor_side: the link of that side, which may be up or not. *)
ReadLink(t) ==
    /\ pc[t] = "link"
    /\ \E v \in {got[t], "unknown"} : Return(t, v)
    /\ UNCHANGED <<lock, fast, op, wrote>> /\ Stay

LockFast(t) ==
    /\ pc[t] = "lock" /\ lock = Nobody
    /\ lock' = t
    /\ Goto(t, "write")
    /\ UNCHANGED <<fast, op, got, out, wrote, seen>> /\ Stay
LockTimesOut(t) ==
    /\ pc[t] = "lock" /\ lock # Nobody
    /\ Return(t, "error")
    /\ UNCHANGED <<lock, fast, op, wrote>> /\ Stay

(* Defect: the new command is added to what is pending. *)
WriteFastKeepsPending(t) ==
    /\ pc[t] = "write"
    /\ fast' = fast \cup {op[t]}
    /\ wrote' = t
    /\ Goto(t, "poll")
    /\ UNCHANGED <<lock, op, got, out, seen>> /\ Stay

(* The byte is written as a whole: a command of an earlier call that gave up *)
(* is taken back unless the MCU is at it.                                    *)
WriteFast(t) ==
    /\ pc[t] = "write"
    /\ fast' = {op[t]}
    /\ wrote' = t
    /\ Goto(t, "poll")
    /\ UNCHANGED <<lock, op, got, out, seen>> /\ Stay

(* The call is still waiting for its own bit. *)
Pending(t) == op[t] \in fast

(* A toggle is True when its bit is clear and the status byte is not FFh. *)
Answered(t) ==
    /\ pc[t] = "poll" /\ ~Pending(t)
    /\ lock' = Nobody
    /\ \/ op[t] \in Sides /\ Return(t, IF status = "fail" THEN "false" ELSE "true")
       \/ op[t] \notin Sides /\ status = "fail" /\ Return(t, "unknown")
       \/ op[t] \notin Sides /\ status # "fail" /\ Known(t, status)
    /\ UNCHANGED <<fast, op, wrote>> /\ Stay

(* Defect: a call that gives up takes the status byte as it is. *)
GiveUpWithStatus(t) ==
    /\ pc[t] = "poll" /\ Pending(t) /\ status # "fail"
    /\ lock' = Nobody
    /\ Return(t, IF op[t] \in Sides THEN "false" ELSE status)
    /\ UNCHANGED <<fast, op, wrote>> /\ Stay

(* The polls are used up: 500 for a toggle, 3000 for a question. *)
GiveUp(t) ==
    /\ pc[t] = "poll" /\ Pending(t)
    /\ lock' = Nobody
    /\ Return(t, IF op[t] \in Sides THEN "false" ELSE "unknown")
    /\ UNCHANGED <<fast, op, wrote>> /\ Stay

(* A lost access ends the call; a lost link register only hides the link. *)
Lost(t) ==
    /\ pc[t] \in {"shown", "write", "poll", "link"}
    /\ lock' = IF lock = t THEN Nobody ELSE lock
    /\ Return(t, IF pc[t] = "link" THEN "unknown" ELSE "error")
    /\ UNCHANGED <<fast, op, wrote>> /\ Stay

-------------------------------------------------------------------------------
MoveTo(s) ==
    /\ side' = s
    /\ seen' = [t \in Threads |-> IF pc[t] = "idle" THEN {} ELSE seen[t] \cup {s}]
McuTake ==
    /\ doing = "none"
    /\ \E o \in fast : doing' = o
    /\ UNCHANGED <<shows, auto, lock, fast, status, side, pc, op, got, out, wrote, seen>>
McuDone ==
    /\ doing # "none"
    /\ doing' = "none" /\ fast' = fast \ {doing}
    /\ \/ doing \in Sides /\ MoveTo(doing) /\ status' = doing
       \/ doing \notin Sides /\ status' = side /\ UNCHANGED <<side, seen>>
       \/ status' = "fail" /\ UNCHANGED <<side, seen>>
    /\ UNCHANGED <<shows, auto, lock, pc, op, got, out, wrote>>
Switch ==
    /\ auto /\ MoveTo(Other(side))
    /\ UNCHANGED <<shows, auto, lock, fast, status, doing, pc, op, got, out, wrote>>

ThreadStep(t) ==
    \/ ReadShown(t) \/ ReadLink(t) \/ LockFast(t) \/ LockTimesOut(t)
    \/ WriteFast(t) \/ Answered(t) \/ GiveUp(t) \/ Lost(t)

Next ==
    \/ \E t \in Threads : ThreadStep(t) \/ \E o \in Ops : Call(t, o)
    \/ McuTake \/ McuDone \/ Switch

Spec == Init /\ [][Next]_vars

-------------------------------------------------------------------------------
(* A toggle that has returned True and was the last call to write the        *)
(* register has left the mux where it was sent, unless the cable switches by *)
(* itself: an answer that comes late to a call that gave up, or the command  *)
(* of one, does not undo it.                                                 *)
LastToggleWins ==
    ~auto => \A t \in Threads :
        wrote = t /\ pc[t] = "idle" /\ op[t] \in Sides /\ out[t] = "true" => side = op[t]

(* A direction that is returned was that of the mux at some moment of the    *)
(* call, whichever way it was found out and whoever switches meanwhile.      *)
DirectionStep == \A t \in Threads : out'[t] \in Sides /\ out[t] = "none" => out'[t] \in seen[t]
DirectionSeen == [][DirectionStep]_vars
===============================================================================
