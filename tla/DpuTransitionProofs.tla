-------------------------- MODULE DpuTransitionProofs --------------------------
(***************************************************************************)
(* Proofs about DpuTransition for every number of admins and watchers,     *)
(* every allowance and every combination of faults.  Exclusion is about    *)
(* prompt transitions: of those that only keep to their own allowances it  *)
(* is false with the allowances of the code (run dpu_takeover).            *)
(***************************************************************************)
EXTENDS DpuTransition, TLAPS

(* Admins that write the flags hold the lock, and a flag they set stays set. *)
Writing == {"setType", "setStart", "clearType", "clearStart"}
WritersHoldLock ==
    \A p \in Admins : /\ pc[p] \in Writing => lock = p
                      /\ pc[p] \in {"setType", "setStart"} => flag

(* An admin owns the flags from the end of set_module_state_transition to    *)
(* the beginning of clear_module_state_transition.                           *)
Owning == Transition \cup {"clear"}
Owned ==
    \A p \in Admins : pc[p] \in Owning =>
        /\ flag
        /\ age = mine[p]
        /\ mine[p] <= Shortest
        /\ \A q \in Admins : q # p => pc[q] \notin Owning \cup Writing

Inv == TypeOK /\ WritersHoldLock /\ (Prompt => Owned)

-------------------------------------------------------------------------------
(* Ages. *)

LEMMA CapType == /\ Cap \in Nat /\ Shortest \in Nat /\ HaltTimeout \in Nat
                 /\ \A t \in Asked : /\ Timeout[t] \in Nat /\ Timeout[t] < Cap
                                     /\ Shortest <= Timeout[t]
BY TimesAssumption DEF Cap, Shortest, StartupIsLonger, HaltTimeout, Types, Asked

LEMMA OlderType ==
    ASSUME NEW t \in 0..Cap
    PROVE  Older(t) \in 0..Cap /\ (t < Cap => Older(t) = t + 1)
BY CapType DEF Older

-------------------------------------------------------------------------------
(* Type correctness. *)

LEMMA InitType == Init => TypeOK
<1> SUFFICES ASSUME Init
             PROVE  TypeOK
  OBVIOUS
<1>1. env \subseteq Faults /\ lock \in Procs \cup {None} /\ type \in Types \cup {None}
  BY DEF Init
<1>2. flag \in BOOLEAN /\ halt \in BOOLEAN /\ age \in (0..Cap) \cup {None}
  BY DEF Init
<1>3. op \in [Admins -> Asked] /\ mine \in [Admins -> 0..Cap]
  BY CapType DEF Init, Asked
<1>4. wait \in [Admins -> -1..HaltTimeout]
  BY CapType DEF Init
<1> QED
  BY <1>1, <1>2, <1>3, <1>4 DEF Init, TypeOK

LEMMA StepType == TypeOK /\ [Next]_vars => TypeOK'
<1> SUFFICES ASSUME TypeOK, [Next]_vars
             PROVE  TypeOK'
  OBVIOUS
<1> USE DEF TypeOK, db, locals, At, Goto, Procs
<1>1. ASSUME NEW p \in Admins, AdminStep(p)
      PROVE  TypeOK'
  <2>1. CASE Refuse(p)
    BY <2>1 DEF Refuse
  <2>2. CASE SetFlag(p)
    BY <2>2 DEF SetFlag
  <2>3. CASE SetType(p)
    BY <2>3 DEF SetType, Types, Asked
  <2>4. CASE SetStart(p)
    BY <2>4, CapType DEF SetStart, Transition, Halting
  <2>5. CASE SetRaises(p)
    BY <2>5 DEF SetRaises
  <2>6. CASE HaltSet(p)
    BY <2>6 DEF HaltSet, Transition, Halting
  <2>7. CASE HaltLook(p) \/ HaltAgain(p) \/ HaltDone(p)
    BY <2>7 DEF HaltLook, HaltAgain, HaltDone, Transition, Halting
  <2>8. CASE HaltTimesOut(p)
    BY <2>8 DEF HaltTimesOut, Transition, Halting
  <2>9. CASE HaltClear(p)
    BY <2>9 DEF HaltClear, Transition
  <2>10. CASE Work(p)
    BY <2>10 DEF Work
  <2>11. CASE ClearFlag(p)
    BY <2>11 DEF ClearFlag
  <2>12. CASE ClearType(p)
    BY <2>12 DEF ClearType
  <2>13. CASE ClearStart(p)
    BY <2>13 DEF ClearStart
  <2>14. CASE ClearRaises(p)
    BY <2>14 DEF ClearRaises
  <2> QED
    BY <1>1, <2>1, <2>2, <2>3, <2>4, <2>5, <2>6, <2>7, <2>8, <2>9, <2>10, <2>11, <2>12,
       <2>13, <2>14 DEF AdminStep
<1>2. ASSUME NEW p \in Admins, NEW t \in Asked, Ask(p, t)
      PROVE  TypeOK'
  BY <1>2 DEF Ask
<1>3. ASSUME NEW p \in Watchers, Look(p) \/ WatcherStep(p)
      PROVE  TypeOK'
  BY <1>3 DEF Look, WatcherStep, Get, GetOverdue
<1>4. ASSUME NEW p \in Procs, Die(p)
      PROVE  TypeOK'
  BY <1>4 DEF Die
<1>5. CASE DaemonClears
  BY <1>5 DEF DaemonClears
<1>6. CASE Tick
  <2>1. age' \in (0..Cap) \cup {None}
    BY <1>6, OlderType DEF Tick
  <2>2. mine' \in [Admins -> 0..Cap]
    BY <1>6, OlderType DEF Tick
  <2>3. wait' \in [Admins -> -1..HaltTimeout]
    BY <1>6, CapType DEF Tick
  <2> QED
    BY <1>6, <2>1, <2>2, <2>3 DEF Tick
<1>7. CASE UNCHANGED vars
  BY <1>7 DEF vars
<1> QED
  BY <1>1, <1>2, <1>3, <1>4, <1>5, <1>6, <1>7 DEF Next

(* The flags, the lock and the processes keep their types (module_base.py).  *)
THEOREM TypeCorrect == Spec => []TypeOK
<1>1. Init => TypeOK
  BY InitType
<1>2. TypeOK /\ [Next]_vars => TypeOK'
  BY StepType
<1> QED
  BY <1>1, <1>2, PTL DEF Spec

-------------------------------------------------------------------------------
(* Exclusion. *)

(* No allowance is over while a prompt transition is under way. *)
LEMMA OwnerNotExpired ==
    ASSUME TypeOK, Owned, NEW p \in Admins, pc[p] \in Owning, NEW t \in Asked
    PROVE  ~Expired(t)
<1>1. mine[p] \in Nat /\ Shortest \in Nat /\ Timeout[t] \in Nat /\ Shortest <= Timeout[t]
  BY CapType DEF TypeOK
<1>2. age = mine[p] /\ mine[p] <= Shortest
  BY DEF Owned
<1> QED
  BY <1>1, <1>2 DEF Expired

(* A step of an admin keeps the invariant.                                   *)
LEMMA AdminKeeps ==
    ASSUME TypeOK, WritersHoldLock, Prompt => Owned,
           NEW p \in Admins, AdminStep(p)
    PROVE  WritersHoldLock' /\ (Prompt' => Owned')
<1> USE DEF At, Goto, db, locals, Owning, Writing, Transition, Halting
<1>0. /\ DOMAIN pc = Procs /\ Admins \subseteq Procs /\ p \in Procs
      /\ op \in [Admins -> Asked] /\ mine \in [Admins -> 0..Cap]
      /\ None \notin Admins
  BY ProcsAssumption DEF TypeOK, Procs
<1>1. CASE Refuse(p)
  BY <1>0, <1>1 DEF Refuse, WritersHoldLock, Owned, Prompt
<1>2. CASE SetFlag(p)
  <2>1. Prompt => \A q \in Admins : pc[q] \notin Owning
    <3> SUFFICES ASSUME Prompt, NEW q \in Admins, pc[q] \in Owning
                 PROVE  FALSE
      OBVIOUS
    <3>1. flag
      BY DEF Owned
    <3>2. ~Expired(op[p])
      BY <1>0, OwnerNotExpired
    <3> QED
      BY <3>1, <3>2, <1>2 DEF SetFlag
  <2>2. \A q \in Admins : pc[q] \notin Writing
    BY <1>0, <1>2 DEF SetFlag, WritersHoldLock
  <2> QED
    BY <1>0, <1>2, <2>1, <2>2 DEF SetFlag, WritersHoldLock, Owned, Prompt
<1>3. CASE SetType(p)
  BY <1>0, <1>3 DEF SetType, WritersHoldLock, Owned, Prompt
<1>4. CASE SetStart(p)
  <2>1. \A q \in Admins : q # p => pc[q] \notin Writing
    BY <1>0, <1>4 DEF SetStart, WritersHoldLock
  <2>2. Prompt => \A q \in Admins : pc[q] \notin Owning
    BY <1>0, <1>4 DEF SetStart, Owned
  <2> QED
    BY <1>0, <1>4, <2>1, <2>2, CapType DEF SetStart, WritersHoldLock, Owned, Prompt
<1>5. CASE SetRaises(p)
  BY <1>0, <1>5 DEF SetRaises, WritersHoldLock, Owned, Prompt
<1>6. CASE HaltSet(p) \/ HaltLook(p) \/ HaltAgain(p) \/ HaltDone(p) \/ HaltTimesOut(p) \/ HaltClear(p) \/ Work(p)
  BY <1>0, <1>6 DEF HaltSet, HaltLook, HaltAgain, HaltDone, HaltTimesOut, HaltClear, Work, WritersHoldLock,
     Owned, Prompt
<1>7. CASE ClearFlag(p)
  BY <1>0, <1>7 DEF ClearFlag, WritersHoldLock, Owned, Prompt
<1>8. CASE ClearType(p) \/ ClearStart(p) \/ ClearRaises(p)
  BY <1>0, <1>8 DEF ClearType, ClearStart, ClearRaises, WritersHoldLock, Owned, Prompt
<1> QED
  BY <1>1, <1>2, <1>3, <1>4, <1>5, <1>6, <1>7, <1>8 DEF AdminStep

(* Time ages the transition in progress and its owner alike.                 *)
LEMMA TickKeeps ==
    ASSUME TypeOK, WritersHoldLock, Prompt => Owned, Tick
    PROVE  WritersHoldLock' /\ (Prompt' => Owned')
<1>1. WritersHoldLock'
  BY DEF Tick, WritersHoldLock
<1>2. ASSUME Prompt, NEW p \in Admins, pc[p] \in Owning
      PROVE  age' = mine'[p] /\ mine'[p] <= Shortest
  <2>1. mine[p] \in 0..Cap /\ Shortest \in Nat /\ Shortest < Cap
    <3>1. "startup" \in Asked
      BY DEF Asked
    <3> QED
      BY <3>1, CapType DEF TypeOK
  <2>2. age = mine[p] /\ mine[p] < Shortest
    BY <1>2 DEF Owned, Tick, Owning, Limit, Prompt, Overrun
  <2>3. Older(mine[p]) = mine[p] + 1
    BY <2>1, <2>2, CapType, OlderType
  <2>4. age # None
    BY <2>1, <2>2, TimesAssumption
  <2>5. age' = mine[p] + 1 /\ mine'[p] = mine[p] + 1
    BY <2>2, <2>3, <2>4 DEF Tick
  <2> QED
    BY <2>1, <2>2, <2>5
<1>3. Prompt => Owned'
  BY <1>2 DEF Owned, Tick
<1> QED
  BY <1>1, <1>3 DEF Tick, Prompt

LEMMA StepKeeps == Inv /\ [Next]_vars => Inv'
<1> SUFFICES ASSUME Inv, [Next]_vars
             PROVE  Inv'
  OBVIOUS
<1>0. TypeOK' /\ TypeOK /\ DOMAIN pc = Procs /\ Admins \subseteq Procs /\ None \notin Admins
      /\ Watchers \subseteq Procs /\ Admins \cap Watchers = {}
  BY StepType, ProcsAssumption DEF Inv, TypeOK, Procs
<1> USE DEF At, Goto, db, locals
<1>1. ASSUME NEW p \in Admins, AdminStep(p)
      PROVE  WritersHoldLock' /\ (Prompt' => Owned')
  BY <1>1, AdminKeeps DEF Inv
<1>2. ASSUME NEW p \in Admins, NEW t \in Asked, Ask(p, t)
      PROVE  WritersHoldLock' /\ (Prompt' => Owned')
  <2>1. op' = [op EXCEPT ![p] = t] /\ DOMAIN op = Admins
    BY <1>2 DEF Ask, Inv, TypeOK
  <2>2. \A q \in Admins : q # p => op'[q] = op[q] /\ pc'[q] = pc[q]
    BY <1>0, <1>2, <2>1 DEF Ask
  <2>3. pc[p] = "idle" /\ pc'[p] = "set"
    BY <1>0, <1>2 DEF Ask
  <2>4. WritersHoldLock'
    BY <1>2, <2>2, <2>3 DEF Ask, Inv, WritersHoldLock, Writing
  <2>5. Prompt => Owned'
    BY <1>2, <2>2, <2>3 DEF Ask, Inv, Owned, Owning, Writing, Transition, Halting
  <2> QED
    BY <1>2, <2>4, <2>5 DEF Ask, Prompt
<1>3. ASSUME NEW p \in Watchers, Look(p) \/ WatcherStep(p)
      PROVE  WritersHoldLock' /\ (Prompt' => Owned')
  <2>1. \A q \in Admins : pc'[q] = pc[q]
    BY <1>0, <1>3 DEF Look, WatcherStep, Get, GetOverdue
  <2>2. UNCHANGED <<env, flag, age, locals>> /\ (lock' = lock \/ lock = None)
    BY <1>3 DEF Look, WatcherStep, Get, GetOverdue
  <2> QED
    BY <1>0, <2>1, <2>2 DEF Inv, WritersHoldLock, Owned, Prompt
<1>4. ASSUME NEW p \in Procs, Die(p)
      PROVE  WritersHoldLock' /\ (Prompt' => Owned')
  <2>1. \A q \in Admins : pc'[q] = IF q = p THEN "idle" ELSE pc[q]
    BY <1>0, <1>4 DEF Die
  <2>2. UNCHANGED <<env, flag, age, locals>> /\ (lock' = lock \/ lock = p)
    BY <1>4 DEF Die
  <2>3. WritersHoldLock'
    BY <1>0, <2>1, <2>2 DEF Inv, WritersHoldLock, Writing
  <2>4. Prompt => Owned'
    BY <2>1, <2>2 DEF Inv, Owned, Owning, Writing, Transition, Halting
  <2> QED
    BY <2>2, <2>3, <2>4 DEF Prompt
<1>5. CASE DaemonClears \/ UNCHANGED vars
  <2>1. UNCHANGED <<env, lock, flag, age, pc, op, mine>>
    BY <1>5 DEF DaemonClears, vars
  <2>2. WritersHoldLock'
    BY <2>1 DEF Inv, WritersHoldLock
  <2>3. Prompt' = Prompt /\ (Prompt => Owned')
    BY <2>1 DEF Inv, Owned, Prompt
  <2> QED
    BY <1>0, <2>2, <2>3 DEF Inv
<1>6. CASE Tick
  BY <1>0, <1>6, TickKeeps DEF Inv
<1> QED
  BY <1>0, <1>1, <1>2, <1>3, <1>4, <1>5, <1>6 DEF Inv, Next

LEMMA InitInv == Init => Inv
<1>1. Admins \subseteq Procs
  BY DEF Procs
<1> QED
  BY <1>1, InitType
  DEF Init, Inv, WritersHoldLock, Owned, Writing, Owning, Transition, Halting

(* Whatever the allowances are, when no transition takes longer than the     *)
(* shortest of them no two processes conduct transitions of the module at    *)
(* once, whoever dies and whatever database access fails                     *)
(* (module_base.py:611-685).                                                 *)
THEOREM Exclusive == Spec => []TransitionExclusive
<1>1. Init => Inv
  BY InitInv
<1>2. Inv /\ [Next]_vars => Inv'
  BY StepKeeps
<1>3. Inv => TransitionExclusive
  BY DEF Inv, Owned, TransitionExclusive, InTransition, Owning
<1> QED
  BY <1>1, <1>2, <1>3, PTL DEF Spec

(* Under the same condition the flag is up throughout every transition, so  *)
(* that get_module_state_transition announces it (module_base.py:686-724).   *)
THEOREM Announced == Spec => []FlagWhileInTransition
<1>1. Init => Inv
  BY InitInv
<1>2. Inv /\ [Next]_vars => Inv'
  BY StepKeeps
<1>3. Inv => FlagWhileInTransition
  BY DEF Inv, Owned, FlagWhileInTransition, InTransition, Owning
<1> QED
  BY <1>1, <1>2, <1>3, PTL DEF Spec

-------------------------------------------------------------------------------
(* Halt requests. *)

LEMMA HaltKept == TypeOK /\ HaltFlagIsOwned /\ [Next]_vars => HaltFlagIsOwned'
<1> SUFFICES ASSUME TypeOK, HaltFlagIsOwned, [Next]_vars, halt', ~DbFails, ~Deaths
             PROVE  \E p \in Admins : pc'[p] \in {"haltPoll", "haltRead", "haltClear"}
  BY DEF HaltFlagIsOwned, Next, vars, AdminStep, Ask, Look, WatcherStep, Get, GetOverdue, Die,
     DaemonClears, Tick, Refuse, SetFlag, SetType, SetStart, SetRaises, HaltSet, HaltLook, HaltAgain, HaltDone,
     HaltTimesOut, HaltClear, Work, ClearFlag, ClearType, ClearStart, ClearRaises, DbFails,
     Deaths
<1> USE DEF At, Goto, db, locals
<1>0. DOMAIN pc = Procs /\ Admins \subseteq Procs /\ Watchers \subseteq Procs
  BY DEF TypeOK, Procs
<1>1. CASE \E p \in Admins : HaltSet(p)
  BY <1>0, <1>1 DEF HaltSet, HaltFlagIsOwned
<1>2. CASE \E p \in Admins : HaltLook(p) \/ HaltAgain(p) \/ HaltTimesOut(p)
  BY <1>0, <1>2 DEF HaltLook, HaltAgain, HaltTimesOut, HaltFlagIsOwned
<1>3. CASE \E p \in Admins : HaltDone(p) \/ HaltClear(p)
  BY <1>3 DEF HaltDone, HaltClear
<1>4. CASE \E p \in Admins : \/ Refuse(p) \/ SetFlag(p) \/ SetType(p) \/ SetStart(p) \/ Work(p)
                             \/ ClearFlag(p) \/ ClearType(p) \/ ClearStart(p)
  BY <1>0, <1>4 DEF Refuse, SetFlag, SetType, SetStart, Work, ClearFlag, ClearType,
     ClearStart, HaltFlagIsOwned
<1>5. CASE \E p \in Admins, t \in Asked : Ask(p, t)
  BY <1>0, <1>5 DEF Ask, HaltFlagIsOwned
<1>6. CASE \E p \in Watchers : Look(p) \/ WatcherStep(p)
  BY <1>0, <1>6 DEF Look, WatcherStep, Get, GetOverdue, HaltFlagIsOwned
<1>7. CASE DaemonClears
  BY <1>7 DEF DaemonClears
<1>8. CASE Tick \/ UNCHANGED vars
  BY <1>8 DEF Tick, vars, HaltFlagIsOwned
<1>9. CASE (\E p \in Admins : SetRaises(p) \/ ClearRaises(p)) \/ (\E p \in Procs : Die(p))
  BY <1>9 DEF SetRaises, ClearRaises, Die
<1> QED
  BY <1>1, <1>2, <1>3, <1>4, <1>5, <1>6, <1>7, <1>8, <1>9 DEF Next, AdminStep

(* Without deaths and database errors no halt request is left behind         *)
(* (module_base.py:566-602).                                                 *)
THEOREM HaltOwned == Spec => []HaltFlagIsOwned
<1>1. Init => HaltFlagIsOwned
  BY DEF Init, HaltFlagIsOwned
<1>2. TypeOK /\ HaltFlagIsOwned /\ [Next]_vars => HaltFlagIsOwned'
  BY HaltKept
<1> QED
  BY <1>1, <1>2, TypeCorrect, PTL DEF Spec
===============================================================================
