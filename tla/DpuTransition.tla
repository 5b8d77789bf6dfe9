----------------------------- MODULE DpuTransition -----------------------------
(***************************************************************************)
(* Admin state transitions of one SmartSwitch module (a DPU), as ModuleBase *)
(* conducts them: set_admin_state_gracefully brackets a transition with     *)
(* flags in the state database, and asks the gNOI daemon to halt services   *)
(* before a shutdown.  Several processes do so at once; the flags are only  *)
(* touched under an exclusive flock on the module's lock file, which a      *)
(* process that dies releases and which excludes a second open of the same  *)
(* file by the same process too.                                            *)
(*                                                                          *)
(* Times are ages, counted in steps of Tick and not beyond Cap; the wall    *)
(* clock is taken to be monotonic.                                          *)
(***************************************************************************)
EXTENDS Integers

CONSTANTS
    Admins,      \* processes that call set_admin_state_gracefully
    Watchers,    \* processes that call get_module_state_transition
    Timeout,     \* Timeout[type], the allowance of a transition
    Faults,      \* what can go wrong: "long" (a transition takes longer than the
                 \* shortest allowance, though not than its own), "overrun" (it
                 \* takes longer than its own), "db" (an access to the database
                 \* raises), "death" (a process dies)
    None

Types == {"startup", "shutdown", "reboot", "halt_services"}
\* those that set_admin_state_gracefully asks for
Asked == {"startup", "shutdown"}
Procs == Admins \cup Watchers
HaltTimeout == Timeout["halt_services"]
StartupIsLonger == Timeout["startup"] > Timeout["shutdown"]
Shortest == IF StartupIsLonger THEN Timeout["shutdown"] ELSE Timeout["startup"]
Cap == 1 + (IF StartupIsLonger THEN Timeout["startup"] ELSE Timeout["shutdown"])

ASSUME ProcsAssumption == Admins \cap Watchers = {} /\ None \notin Admins \cup Watchers
ASSUME TimesAssumption == Timeout \in [Types -> Nat] /\ None \notin Nat
ASSUME FaultsAssumption == Faults \subseteq {"long", "overrun", "db", "death"}

VARIABLES
    env,    \* the faults that happen in this behaviour
    lock,   \* the process that holds the transition lock, or None
    flag,   \* transition_in_progress is set
    type,   \* transition_type, or None
    age,    \* time since transition_start_time, or None
    halt,   \* gnoi_halt_in_progress is set
    pc,     \* where each process is
    op,     \* the transition each admin last asked for
    mine,   \* time since the admin set the flags
    wait    \* time left in the admin's wait for the daemon

vars == <<env, lock, flag, type, age, halt, pc, op, mine, wait>>
db == <<flag, type, age, halt>>
locals == <<op, mine, wait>>

(* The states of an admin in its transition: halting services, at work       *)
(* (set_admin_state with module_pre_shutdown or module_post_startup).        *)
Halting == {"haltSet", "haltPoll", "haltRead", "haltClear"}
Transition == Halting \cup {"work"}

TypeOK ==
    /\ env \subseteq Faults
    /\ lock \in Procs \cup {None}
    /\ flag \in BOOLEAN /\ halt \in BOOLEAN
    /\ type \in Types \cup {None}
    /\ age \in (0..Cap) \cup {None}
    /\ pc \in [Procs -> {"idle", "set", "setType", "setStart", "clear", "clearType",
                         "clearStart", "get", "nested"} \cup Transition]
    /\ op \in [Admins -> Asked]
    /\ mine \in [Admins -> 0..Cap]
    /\ wait \in [Admins -> -1..HaltTimeout]

Init ==
    /\ env \in SUBSET Faults
    /\ lock = None
    /\ flag = FALSE /\ type = None /\ age = None /\ halt = FALSE
    /\ pc = [p \in Procs |-> "idle"]
    /\ op = [p \in Admins |-> "startup"]
    /\ mine = [p \in Admins |-> 0]
    /\ wait = [p \in Admins |-> 0]

Overrun == "overrun" \in env
Prompt == env \cap {"long", "overrun"} = {}
DbFails == "db" \in env
Deaths == "death" \in env

At(p, l) == pc[p] = l
Goto(p, l) == pc' = [pc EXCEPT ![p] = l]

-------------------------------------------------------------------------------
(* set_module_state_transition *)

Ask(p, t) ==
    /\ At(p, "idle")
    /\ op' = [op EXCEPT ![p] = t]
    /\ Goto(p, "set")
    /\ UNCHANGED <<env, lock, db, mine, wait>>

(* Defect: a transition is taken over at its very last moment. *)
ExpiredEarly(t) == age # None /\ age >= Timeout[t]

(* A transition in progress is taken over when it is older than the          *)
(* allowance of the type that is asked for; never without a start time.      *)
Expired(t) == age # None /\ age > Timeout[t]

(* Defect: a refused caller clears what it did not set. *)
RefuseAndClear(p) ==
    /\ At(p, "set")
    /\ lock = None
    /\ flag /\ ~Expired(op[p])
    /\ flag' = FALSE
    /\ Goto(p, "idle")
    /\ UNCHANGED <<env, lock, type, age, halt, locals>>

(* The flag is set and not expired, or has no start time: the call returns   *)
(* False.                                                                    *)
Refuse(p) ==
    /\ At(p, "set")
    /\ lock = None
    /\ flag /\ ~Expired(op[p])
    /\ Goto(p, "idle")
    /\ UNCHANGED <<env, lock, db, locals>>

(* Otherwise the three fields are written one after the other. *)
SetFlag(p) ==
    /\ At(p, "set")
    /\ lock = None
    /\ ~flag \/ Expired(op[p])
    /\ lock' = p
    /\ flag' = TRUE
    /\ Goto(p, "setType")
    /\ UNCHANGED <<env, type, age, halt, locals>>

(* Defect: the type is recorded under a name that has no allowance. *)
SetTypeReset(p) ==
    /\ At(p, "setType")
    /\ type' = "reset"
    /\ Goto(p, "setStart")
    /\ UNCHANGED <<env, lock, flag, age, halt, locals>>

SetType(p) ==
    /\ At(p, "setType")
    /\ type' = op[p]
    /\ Goto(p, "setStart")
    /\ UNCHANGED <<env, lock, flag, age, halt, locals>>

SetStart(p) ==
    /\ At(p, "setStart")
    /\ age' = 0
    /\ mine' = [mine EXCEPT ![p] = 0]
    /\ wait' = [wait EXCEPT ![p] = HaltTimeout]
    /\ lock' = None
    /\ Goto(p, IF op[p] = "startup" THEN "work" ELSE "haltSet")
    /\ UNCHANGED <<env, flag, type, halt, op>>

(* A database error is caught: the lock is released, what was written stays, *)
(* and the call returns False.                                               *)
SetRaises(p) ==
    /\ DbFails
    /\ \/ At(p, "set") /\ lock = None
       \/ At(p, "setType")
       \/ At(p, "setStart")
    /\ lock' = None
    /\ Goto(p, "idle")
    /\ UNCHANGED <<env, db, locals>>

-------------------------------------------------------------------------------
(* _graceful_shutdown_handler *)

(* The request; without it the handler fails, and the shutdown goes on.      *)
HaltSet(p) ==
    /\ At(p, "haltSet")
    /\ lock = None
    /\ \/ halt' = TRUE /\ Goto(p, "haltPoll")
       \/ DbFails /\ halt' = halt /\ Goto(p, "work")
    /\ UNCHANGED <<env, lock, flag, type, age, locals>>

(* Defect: the handler polls until the daemon answers. *)
HaltTimesOutNever(p) == FALSE

(* The loop looks at the clock, then waits for the lock to read the flag.    *)
HaltLook(p) ==
    /\ At(p, "haltPoll")
    /\ wait[p] >= 0
    /\ Goto(p, "haltRead")
    /\ UNCHANGED <<env, lock, db, locals>>

(* One poll: the flag is still up, and the loop sleeps. *)
HaltAgain(p) ==
    /\ At(p, "haltRead")
    /\ lock = None
    /\ halt
    /\ Goto(p, "haltPoll")
    /\ UNCHANGED <<env, lock, db, locals>>

(* One poll: the flag is down, or reading it raised. *)
HaltDone(p) ==
    /\ At(p, "haltRead")
    /\ lock = None
    /\ ~halt \/ DbFails
    /\ Goto(p, "work")
    /\ UNCHANGED <<env, lock, db, locals>>

HaltTimesOut(p) ==
    /\ At(p, "haltPoll")
    /\ wait[p] < 0
    /\ Goto(p, "haltClear")
    /\ UNCHANGED <<env, lock, db, locals>>

(* Defect: the handler leaves its request behind when it times out. *)
HaltKeep(p) ==
    /\ At(p, "haltClear")
    /\ Goto(p, "work")
    /\ UNCHANGED <<env, lock, db, locals>>

HaltClear(p) ==
    /\ At(p, "haltClear")
    /\ lock = None
    /\ \/ halt' = FALSE
       \/ DbFails /\ halt' = halt
    /\ Goto(p, "work")
    /\ UNCHANGED <<env, lock, flag, type, age, locals>>

(* The daemon (external) has halted the services, or gave up, and calls      *)
(* clear_module_gnoi_halt_in_progress.                                       *)
DaemonClears ==
    /\ halt
    /\ lock = None
    /\ halt' = FALSE
    /\ UNCHANGED <<env, lock, flag, type, age, pc, locals>>

-------------------------------------------------------------------------------
(* The rest of set_admin_state_gracefully: the platform's work, then         *)
(* clear_module_state_transition.                                            *)
Work(p) ==
    /\ At(p, "work")
    /\ Goto(p, "clear")
    /\ UNCHANGED <<env, lock, db, locals>>

ClearFlag(p) ==
    /\ At(p, "clear")
    /\ lock = None
    /\ lock' = p
    /\ flag' = FALSE
    /\ Goto(p, "clearType")
    /\ UNCHANGED <<env, type, age, halt, locals>>

ClearType(p) ==
    /\ At(p, "clearType")
    /\ type' = None
    /\ Goto(p, "clearStart")
    /\ UNCHANGED <<env, lock, flag, age, halt, locals>>

ClearStart(p) ==
    /\ At(p, "clearStart")
    /\ age' = None
    /\ lock' = None
    /\ Goto(p, "idle")
    /\ UNCHANGED <<env, flag, type, halt, locals>>

ClearRaises(p) ==
    /\ DbFails
    /\ \/ At(p, "clear") /\ lock = None
       \/ At(p, "clearType")
       \/ At(p, "clearStart")
    /\ lock' = None
    /\ Goto(p, "idle")
    /\ UNCHANGED <<env, db, locals>>

-------------------------------------------------------------------------------
(* get_module_state_transition *)

Look(p) ==
    /\ At(p, "idle")
    /\ Goto(p, "get")
    /\ UNCHANGED <<env, lock, db, locals>>

Overdue == flag /\ type # None /\ Expired(type)

(* The answer is the flag (False when the database raises). *)
Get(p) ==
    /\ At(p, "get")
    /\ lock = None
    /\ ~Overdue \/ DbFails
    /\ Goto(p, "idle")
    /\ UNCHANGED <<env, lock, db, locals>>

(* An overdue transition is to be cleared: clear_module_state_transition     *)
(* opens the lock file again and waits for the lock, which this process      *)
(* holds through its first open.  From "nested" there is no step but death.  *)
GetOverdue(p) ==
    /\ At(p, "get")
    /\ lock = None
    /\ Overdue
    /\ lock' = p
    /\ Goto(p, "nested")
    /\ UNCHANGED <<env, db, locals>>

-------------------------------------------------------------------------------
(* A process dies, or a call of the platform's raises through its            *)
(* transition; the lock is released.                                         *)
Die(p) ==
    /\ Deaths
    /\ ~At(p, "idle")
    /\ lock' = IF lock = p THEN None ELSE lock
    /\ Goto(p, "idle")
    /\ UNCHANGED <<env, db, locals>>

(* Time passes; without an overrun no transition goes beyond its allowance,  *)
(* and when all are prompt none goes beyond the shortest one.                *)
Limit(p) == IF Prompt THEN Shortest ELSE Timeout[op[p]]
Older(t) == IF t < Cap THEN t + 1 ELSE t
Tick ==
    /\ Overrun \/ \A p \in Admins :
          pc[p] \in Transition \cup {"clear"} => mine[p] < Limit(p)
    /\ age' = IF age = None THEN None ELSE Older(age)
    /\ mine' = [p \in Admins |-> Older(mine[p])]
    /\ wait' = [p \in Admins |-> IF wait[p] < 0 THEN wait[p] ELSE wait[p] - 1]
    /\ UNCHANGED <<env, lock, flag, type, halt, pc, op>>

AdminStep(p) ==
    \/ Refuse(p)
    \/ SetFlag(p)
    \/ SetType(p)
    \/ SetStart(p)
    \/ SetRaises(p)
    \/ HaltSet(p)
    \/ HaltLook(p)
    \/ HaltAgain(p)
    \/ HaltDone(p)
    \/ HaltTimesOut(p)
    \/ HaltClear(p)
    \/ Work(p)
    \/ ClearFlag(p)
    \/ ClearType(p)
    \/ ClearStart(p)
    \/ ClearRaises(p)

WatcherStep(p) == Get(p) \/ GetOverdue(p)

Next ==
    \/ \E p \in Admins : AdminStep(p)
    \/ \E p \in Admins, t \in Asked : Ask(p, t)
    \/ \E p \in Watchers : Look(p) \/ WatcherStep(p)
    \/ \E p \in Procs : Die(p)
    \/ DaemonClears
    \/ Tick

Spec == Init /\ [][Next]_vars

(* Running processes go on and time passes.  Waiters for a flock are woken   *)
(* in turn: a process that could take the lock again and again gets it.      *)
FairSpec ==
    /\ Spec
    /\ \A p \in Admins : SF_vars(AdminStep(p))
    /\ \A p \in Watchers : SF_vars(WatcherStep(p))
    /\ WF_vars(Tick)

-------------------------------------------------------------------------------
InTransition(p) == pc[p] \in Transition

(* No two processes conduct transitions of the module at once, as long as    *)
(* each transition takes no longer than the shortest allowance, whatever the *)
(* allowances are (module_base.py:611-657).                                  *)
TransitionExclusive ==
    \A p, q \in Admins : Prompt /\ InTransition(p) /\ InTransition(q) => p = q

(* Nobody is told that the module is stable while a transition is under way, *)
(* on the same condition (module_base.py:686-724).                           *)
FlagWhileInTransition == \A p \in Admins : Prompt /\ InTransition(p) => flag

(* A request to halt services is not left behind for the next shutdown: it   *)
(* is up only while a shutdown polls it (module_base.py:566-602).            *)
HaltFlagIsOwned ==
    halt /\ ~DbFails /\ ~Deaths =>
        \E p \in Admins : pc[p] \in {"haltPoll", "haltRead", "haltClear"}
===============================================================================
