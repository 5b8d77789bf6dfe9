--------------------------- MODULE CdbChannelProofs ---------------------------
(***************************************************************************)
(* Proofs about CdbChannel, for any clients, messages and polls, and a bus *)
(* that may lose any access.                                               *)
(***************************************************************************)
EXTENDS CdbChannel, TLAPS

(* A client at work has a message. *)
HasMessage == \A c \in Clients : pc[c] # "idle" => msg[c] \in Msgs

TypeInv == TypeOK /\ HasMessage

(* The module has the command of a client exactly while that client's latest *)
(* trigger is pending.                                                       *)
Pending ==
    \A c \in Clients :
        /\ outcome[c].res = "pending" <=> Held /\ task.by = c
        /\ Held /\ task.by = c => task.cmd = msg[c].cmd

(* A command that was executed passed the check of its header. *)
Executed ==
    \A c \in Clients :
        outcome[c].res = "ok" => HeaderSum[outcome[c].did.cmd] = HeaderSum[msg[c].cmd]

(* What the module did with the command of c, as its status byte shows it.   *)
Shown(c) ==
    \/ outcome[c].res = "pending"
    \/ outcome[c].res = "ok" /\ ~Held /\ status = "ok"
    \/ outcome[c].res = "fail" /\ ~Held /\ status = "fail"

(* A handler that waits gave the module a command, which was captured before *)
(* the first look at the status; only the end of that command lets another   *)
(* overtake it.                                                              *)
Handler(c) ==
    /\ pc[c] \in {"body", "trigger"} => c \notin overtaken
    /\ Waiting(c) => outcome[c].res # "none"
    /\ pc[c] = "poll" /\ outcome[c].res = "pending" => status = "busy"
    /\ Waiting(c) /\ c \in overtaken => outcome[c].res # "pending"
    /\ Waiting(c) /\ c \notin overtaken => Shown(c)
    /\ verdict[c] \in {"true", "false"} => pc[c] = "idle" /\ outcome[c].res \in {"ok", "fail"}
    /\ verdict[c] = "true" /\ c \notin overtaken => outcome[c].res = "ok"
    /\ verdict[c] = "false" /\ c \notin overtaken => outcome[c].res = "fail"

Inv == TypeInv /\ Pending /\ Executed /\ \A c \in Clients \ ApiClients : Handler(c)

-------------------------------------------------------------------------------
LEMMA InitInv == Init => Inv
<1> SUFFICES ASSUME Init PROVE Inv
  OBVIOUS
<1>1. TypeOK
  BY BoundsAssumption DEF Init, TypeOK, NoOutcome
<1>2. HasMessage /\ Pending /\ Executed
  BY DEF Init, HasMessage, Pending, Executed, NoOutcome, Held
<1>3. ASSUME NEW c \in Clients PROVE Handler(c)
  BY DEF Init, Handler, Waiting
<1> QED
  BY <1>1, <1>2, <1>3 DEF Inv, TypeInv

LEMMA StepType == TypeInv /\ [Next]_vars => TypeInv'
<1> SUFFICES ASSUME TypeInv, [Next]_vars PROVE TypeInv'
  OBVIOUS
<1> USE DEF TypeInv, TypeOK, HasMessage, Tasks
<1>1. ASSUME NEW c \in Clients, NEW m \in Msgs, Call(c, m) PROVE TypeInv'
  <2>1. task' \in Tasks \cup {None}
    BY <1>1 DEF Call
  <2> QED
    BY <1>1, <2>1, BoundsAssumption DEF Call, NoOutcome
<1>2. ASSUME NEW c \in Clients, WriteBody(c) PROVE TypeInv'
  BY <1>2 DEF WriteBody
<1>3. ASSUME NEW c \in Clients, TriggerAccepted(c) PROVE TypeInv'
  <2>1. msg[c].cmd \in Commands
    BY <1>3 DEF TriggerAccepted, Commands
  <2> QED
    BY <1>3, <2>1 DEF TriggerAccepted, AfterTrigger
<1>4. ASSUME NEW c \in Clients, TriggerFailed(c) PROVE TypeInv'
  BY <1>4 DEF TriggerFailed, AfterTrigger
<1>5. ASSUME NEW c \in Clients, ApiPoll(c) PROVE TypeInv'
  <2>1. polls' \in [Clients -> 0..MaxPolls]
    BY <1>5, BoundsAssumption DEF ApiPoll
  <2>2. pc' \in [Clients -> {"idle", "body", "trigger", "sleep", "poll"}]
        /\ \A d \in Clients : pc'[d] # "idle" => pc[d] # "idle"
    BY <1>5 DEF ApiPoll
  <2>3. verdict' \in [Clients -> {"none", "true", "false", "busy", "unknown"}]
    BY <1>5 DEF ApiPoll
  <2> QED
    BY <1>5, <2>1, <2>2, <2>3 DEF ApiPoll
<1>6. ASSUME NEW c \in Clients, HandlerPoll(c) PROVE TypeInv'
  <2>1. polls' \in [Clients -> 0..MaxPolls]
    BY <1>6, BoundsAssumption DEF HandlerPoll
  <2>2. pc' \in [Clients -> {"idle", "body", "trigger", "sleep", "poll"}]
        /\ \A d \in Clients : pc'[d] # "idle" => pc[d] # "idle"
    BY <1>6 DEF HandlerPoll
  <2>3. verdict' \in [Clients -> {"none", "true", "false", "busy", "unknown"}]
    BY <1>6 DEF HandlerPoll
  <2> QED
    BY <1>6, <2>1, <2>2, <2>3 DEF HandlerPoll
<1>7. ASSUME NEW c \in Clients, Die(c) PROVE TypeInv'
  BY <1>7 DEF Die
<1>8. ASSUME NEW res \in {"ok", "fail"}, Finish(res) PROVE TypeInv'
  <2>1. outcome' \in [Clients -> [res : {"none", "pending", "ok", "fail"}, did : Msgs \cup {None}]]
    BY <1>8 DEF Finish, Held
  <2> QED
    BY <1>8, <2>1 DEF Finish
<1>9. ASSUME NEW c \in Clients, Sleep(c) PROVE TypeInv'
  BY <1>9 DEF Sleep
<1>10. CASE Capture
  BY <1>10 DEF Capture
<1>11. CASE UNCHANGED vars
  BY <1>11 DEF vars
<1> QED
  BY <1>1, <1>2, <1>3, <1>4, <1>5, <1>6, <1>7, <1>8, <1>9, <1>10, <1>11 DEF Next, ClientStep

LEMMA StepPending == TypeInv /\ Pending /\ Executed /\ [Next]_vars => Pending' /\ Executed'
<1> SUFFICES ASSUME TypeInv, Pending, Executed, [Next]_vars PROVE Pending' /\ Executed'
  OBVIOUS
<1> USE DEF TypeInv, TypeOK, Tasks, Pending, Executed, Held
<1>1. ASSUME NEW c \in Clients, NEW m \in Msgs, Call(c, m) PROVE Pending' /\ Executed'
  <2>1. CASE task # None /\ task.by = c
    <3>1. task' \in Tasks /\ task'.by = None /\ task' # None
      BY <1>1, <2>1, NoneAssumption DEF Call
    <3> QED
      BY <1>1, <2>1, <3>1, ClientsAssumption DEF Call, NoOutcome
  <2>2. CASE ~(task # None /\ task.by = c)
    BY <1>1, <2>2 DEF Call, NoOutcome
  <2> QED
    BY <2>1, <2>2
<1>2. ASSUME NEW c \in Clients, TriggerAccepted(c) PROVE Pending' /\ Executed'
  <2>1. task' \in Tasks
    BY <1>2 DEF TriggerAccepted, HasMessage, Commands
  <2>2. task' # None /\ task'.by = c /\ task'.cmd = msg[c].cmd
    BY <1>2, <2>1, NoneAssumption DEF TriggerAccepted
  <2> QED
    BY <1>2, <2>2 DEF TriggerAccepted
<1>3. ASSUME NEW c \in Clients,
             WriteBody(c) \/ TriggerFailed(c) \/ Sleep(c) \/ ApiPoll(c) \/ HandlerPoll(c) \/ Die(c)
      PROVE  Pending' /\ Executed'
  BY <1>3 DEF WriteBody, TriggerFailed, Sleep, ApiPoll, HandlerPoll, Die
<1>4. ASSUME NEW res \in {"ok", "fail"}, Finish(res) PROVE Pending' /\ Executed'
  <2>1. res = "ok" => HeaderSum[task.cmd] = HeaderSum[task.body.cmd]
    BY <1>4 DEF Finish, CheckCodeMatches
  <2>2. ASSUME NEW c \in Clients, task.by = c
        PROVE  /\ outcome'[c].res = res /\ msg'[c] = msg[c]
               /\ res = "ok" => outcome'[c].did = task.body /\ task.cmd = msg[c].cmd
    BY <1>4, <2>2, ClientsAssumption DEF Finish
  <2>3. ASSUME NEW c \in Clients, task.by # c
        PROVE  outcome'[c] = outcome[c] /\ outcome[c].res # "pending" /\ msg'[c] = msg[c]
    BY <1>4, <2>3 DEF Finish
  <2>4. task' = None
    BY <1>4 DEF Finish
  <2>5. Pending'
    BY <2>2, <2>3, <2>4
  <2>6. Executed'
    BY <2>1, <2>2, <2>3
  <2> QED
    BY <2>5, <2>6
<1>5. CASE Capture \/ UNCHANGED vars
  BY <1>5 DEF vars, Capture
<1> QED
  BY <1>1, <1>2, <1>3, <1>4, <1>5 DEF Next, ClientStep

LEMMA StepHandler ==
    ASSUME TypeInv, Pending, [Next]_vars, NEW c \in Clients \ ApiClients, Handler(c)
    PROVE  Handler(c)'
<1> USE DEF TypeInv, TypeOK, Handler, Waiting, Shown, Held
<1>1. ASSUME NEW m \in Msgs, Call(c, m) PROVE Handler(c)'
  BY <1>1 DEF Call
<1>2. CASE WriteBody(c) \/ TriggerFailed(c)
  BY <1>2 DEF WriteBody, TriggerFailed
<1>3. CASE TriggerAccepted(c)
  BY <1>3 DEF TriggerAccepted, AfterTrigger
<1>4. CASE Sleep(c)
  BY <1>4 DEF Sleep, Pending
<1>5. CASE HandlerPoll(c)
  BY <1>5 DEF HandlerPoll, StatusReads, NotReady
<1>6. CASE Die(c)
  BY <1>6 DEF Die
<1>7. ASSUME NEW d \in Clients, d # c, TriggerAccepted(d) PROVE Handler(c)'
  <2>1. outcome[c].res # "pending"
    BY <1>7 DEF TriggerAccepted, Pending
  <2> QED
    BY <1>7, <2>1 DEF TriggerAccepted
<1>8. ASSUME NEW d \in Clients, d # c, Sleep(d) PROVE Handler(c)'
  BY <1>8 DEF Sleep
<1>9. ASSUME NEW d \in Clients, d # c,
             \/ WriteBody(d) \/ TriggerFailed(d) \/ ApiPoll(d) \/ HandlerPoll(d) \/ Die(d)
             \/ \E m \in Msgs : Call(d, m)
      PROVE  Handler(c)'
  <2>1. /\ pc'[c] = pc[c] /\ verdict'[c] = verdict[c] /\ outcome'[c] = outcome[c] /\ status' = status
        /\ c \in overtaken' <=> c \in overtaken
    BY <1>9 DEF WriteBody, TriggerFailed, ApiPoll, HandlerPoll, Die, Call
  <2>2. task' = None <=> task = None
    <3>1. CASE \E m \in Msgs : Call(d, m)
      <4>1. task # None => task' \in Tasks
        BY <3>1 DEF Call, Tasks
      <4> QED
        BY <3>1, <4>1, NoneAssumption DEF Call
    <3>2. CASE WriteBody(d) \/ TriggerFailed(d) \/ ApiPoll(d) \/ HandlerPoll(d) \/ Die(d)
      BY <3>2 DEF WriteBody, TriggerFailed, ApiPoll, HandlerPoll, Die
    <3> QED
      BY <1>9, <3>1, <3>2
  <2> QED
    BY <2>1, <2>2
<1>10. CASE Capture
  BY <1>10 DEF Capture
<1>11. ASSUME NEW res \in {"ok", "fail"}, Finish(res) PROVE Handler(c)'
  <2>1. CASE task.by = c
    <3>1. outcome[c].res = "pending" /\ outcome'[c].res = res /\ task' = None /\ status' = res
      BY <1>11, <2>1, ClientsAssumption DEF Finish, Pending
    <3> QED
      BY <1>11, <3>1 DEF Finish
  <2>2. CASE task.by # c
    <3>1. outcome[c].res # "pending" /\ outcome'[c] = outcome[c]
      BY <1>11, <2>2 DEF Finish, Pending, Tasks
    <3> QED
      BY <1>11, <3>1 DEF Finish
  <2> QED
    BY <2>1, <2>2
<1>12. CASE UNCHANGED vars
  BY <1>12 DEF vars
<1>13. ~ApiPoll(c)
  BY DEF ApiPoll
<1> QED
  BY <1>1, <1>2, <1>3, <1>4, <1>5, <1>6, <1>7, <1>8, <1>9, <1>10, <1>11, <1>12, <1>13 DEF Next, ClientStep

LEMMA StepInv == Inv /\ [Next]_vars => Inv'
<1> SUFFICES ASSUME Inv, [Next]_vars PROVE Inv'
  OBVIOUS
<1>1. TypeInv' /\ Pending' /\ Executed'
  BY StepType, StepPending DEF Inv
<1>2. ASSUME NEW c \in Clients \ ApiClients PROVE Handler(c)'
  BY <1>2, StepHandler DEF Inv
<1> QED
  BY <1>1, <1>2 DEF Inv

-------------------------------------------------------------------------------
(* The clients and the page keep their types (cmisCDB.py, cdb.py). *)
THEOREM TypeCorrect == Spec => []TypeOK
<1>1. Inv => TypeOK
  BY DEF Inv, TypeInv
<1> QED
  BY <1>1, InitInv, StepInv, PTL DEF Spec

(* The verdict of a handler that nobody overtakes is about its own command,  *)
(* for any number of unlocked clients, of lost accesses and of abandoned     *)
(* calls (cdb.py:90-117).                                                    *)
THEOREM VerdictSound == Spec => []HandlerVerdictSound
<1>1. Inv => HandlerVerdictSound
  <2> SUFFICES ASSUME Inv, NEW c \in Clients \ (ApiClients \cup overtaken)
               PROVE  /\ verdict[c] = "true" => /\ outcome[c].res = "ok"
                                                /\ HeaderSum[outcome[c].did.cmd] = HeaderSum[msg[c].cmd]
                      /\ verdict[c] = "false" => outcome[c].res = "fail"
    BY DEF HandlerVerdictSound
  <2> QED
    BY DEF Inv, Handler, Executed
<1> QED
  BY <1>1, InitInv, StepInv, PTL DEF Spec

(* No handler, overtaken or not, is told an end before its own command has   *)
(* ended, for any number of unlocked clients (cdb.py:65-79).                 *)
THEOREM ToldAfterEnd == Spec => []HandlerToldAfterEnd
<1>1. Inv => HandlerToldAfterEnd
  BY DEF Inv, Handler, HandlerToldAfterEnd
<1> QED
  BY <1>1, InitInv, StepInv, PTL DEF Spec
===============================================================================
