------------------------------ MODULE CdbChannel ------------------------------
(***************************************************************************)
(* The CDB message channel of a CMIS module: page 9Fh holds one command,   *)
(* and host clients share it without a lock.  A client writes the body of  *)
(* its message (bytes 130..., with the check code in it), then the two     *)
(* header bytes (128-129) that trigger processing, then polls the status   *)
(* byte.  Two implementations of a client exist side by side:              *)
(*   - ApiClients follow CmisCdbApi (write_cdb, cdb1_chkstatus), which     *)
(*     drops the result of both writes;                                    *)
(*   - the others follow CdbCmdHandler (write_cmd, wait_for_cdb_status,    *)
(*     send_cmd), which drops the result of the first write only.          *)
(* The module side is external: as long as it has a command it holds off   *)
(* accesses, so a write fails and a read fails or shows the status byte,   *)
(* which says busy only from the moment the command was captured.          *)
(***************************************************************************)
EXTENDS Naturals

CONSTANTS
    Clients,    \* host processes that own an API object for this module
    ApiClients, \* those that go through CmisCdbApi
    Msgs,       \* the messages sent: records [cmd, arg]
    HeaderSum,  \* HeaderSum[cmd]: sum of the two header bytes of a command
    MaxPolls,   \* reads of the status byte before a client gives up
    Lossy,      \* can a write or a read fail although the module is idle?
    None

ASSUME ClientsAssumption == ApiClients \subseteq Clients /\ None \notin Clients
ASSUME BoundsAssumption  == MaxPolls \in Nat \ {0} /\ Lossy \in BOOLEAN

VARIABLES
    lpl,     \* the message whose body is on page 9Fh, or None
    status,  \* the CDB status byte of page 00h
    task,    \* the triggered command being processed, or None
    pc,      \* where each client is in its call
    msg,     \* the message of each client's latest call
    polls,   \* status reads of the current call
    verdict, \* what the latest call returned
    outcome,  \* history: what the module did with the latest call's trigger
    overtaken \* history: clients that waited when another's trigger was accepted

vars == <<lpl, status, task, pc, msg, polls, verdict, outcome, overtaken>>

Commands == {m.cmd : m \in Msgs}
Tasks == [cmd : Commands, body : Msgs \cup {None}, by : Clients \cup {None}]
ASSUME NoneAssumption == None \notin Msgs \cup Tasks

NoOutcome == [res |-> "none", did |-> None]

TypeOK ==
    /\ lpl \in Msgs \cup {None}
    /\ status \in {"init", "busy", "ok", "fail"}
    /\ task \in Tasks \cup {None}
    /\ pc \in [Clients -> {"idle", "body", "trigger", "sleep", "poll"}]
    /\ msg \in [Clients -> Msgs \cup {None}]
    /\ polls \in [Clients -> 0..MaxPolls]
    /\ verdict \in [Clients -> {"none", "true", "false", "busy", "unknown"}]
    /\ outcome \in [Clients -> [res : {"none", "pending", "ok", "fail"}, did : Msgs \cup {None}]]
    /\ overtaken \subseteq Clients

Init ==
    /\ lpl = None
    /\ status = "init"
    /\ task = None
    /\ pc = [c \in Clients |-> "idle"]
    /\ msg = [c \in Clients |-> None]
    /\ polls = [c \in Clients |-> 0]
    /\ verdict = [c \in Clients |-> "none"]
    /\ outcome = [c \in Clients |-> NoOutcome]
    /\ overtaken = {}

(* The module takes no write as long as it has a command. *)
Held == task # None
Waiting(c) == pc[c] \in {"sleep", "poll"}

-------------------------------------------------------------------------------
(* The check code is one byte over the whole message, header included: the   *)
(* module takes a header and a body for one message when the sums agree.     *)
CheckCodeMatches(cmd, body) ==
    body # None /\ HeaderSum[cmd] = HeaderSum[body.cmd]

(* A client starts a call of a CDB command with message m. *)
Call(c, m) ==
    /\ pc[c] = "idle"
    /\ pc' = [pc EXCEPT ![c] = "body"]
    /\ msg' = [msg EXCEPT ![c] = m]
    /\ polls' = [polls EXCEPT ![c] = 0]
    /\ verdict' = [verdict EXCEPT ![c] = "none"]
    /\ outcome' = [outcome EXCEPT ![c] = NoOutcome]
       \* a command an earlier call abandoned is nobody's any more
    /\ task' = IF task # None /\ task.by = c THEN [task EXCEPT !.by = None] ELSE task
    /\ overtaken' = overtaken \ {c}
    /\ UNCHANGED <<lpl, status>>

(* First write: everything but the header.  Its result is dropped by both    *)
(* implementations, so a failure is not noticed.                             *)
WriteBody(c) ==
    /\ pc[c] = "body"
    /\ \/ ~Held /\ lpl' = msg[c]
       \/ (Lossy \/ Held) /\ lpl' = lpl
    /\ pc' = [pc EXCEPT ![c] = "trigger"]
    /\ UNCHANGED <<status, task, msg, polls, verdict, outcome, overtaken>>

(* CmisCdbApi reads the status at once; CdbCmdHandler sleeps first.          *)
AfterTrigger(c) == IF c \in ApiClients THEN "poll" ELSE "sleep"

(* Second write: the two header bytes.  The module has a command, and until  *)
(* it captures it the status byte is that of the command before.             *)
TriggerAccepted(c) ==
    /\ pc[c] = "trigger"
    /\ ~Held
    /\ task' = [cmd |-> msg[c].cmd, body |-> lpl, by |-> c]
    /\ outcome' = [outcome EXCEPT ![c] = [res |-> "pending", did |-> None]]
    /\ overtaken' = overtaken \cup {d \in Clients : Waiting(d)}
    /\ pc' = [pc EXCEPT ![c] = AfterTrigger(c)]
    /\ UNCHANGED <<lpl, status, msg, polls, verdict>>

(* Defect: send_cmd goes on after a failed header write, as write_cdb does.  *)
TriggerFailedIgnored(c) ==
    /\ pc[c] = "trigger"
    /\ Lossy \/ Held
    /\ pc' = [pc EXCEPT ![c] = AfterTrigger(c)]
    /\ UNCHANGED <<lpl, status, task, msg, polls, verdict, outcome, overtaken>>

(* The header write fails.  send_cmd returns None; write_cdb does not look.  *)
TriggerFailed(c) ==
    /\ pc[c] = "trigger"
    /\ Lossy \/ Held
    /\ IF c \in ApiClients
       THEN pc' = [pc EXCEPT ![c] = "poll"] /\ UNCHANGED verdict
       ELSE pc' = [pc EXCEPT ![c] = "idle"] /\ verdict' = [verdict EXCEPT ![c] = "unknown"]
    /\ UNCHANGED <<lpl, status, task, msg, polls, outcome, overtaken>>

(* Defect: the handler reads the status without waiting for the capture. *)
SleepTooShort(c) ==
    /\ pc[c] = "sleep"
    /\ pc' = [pc EXCEPT ![c] = "poll"]
    /\ UNCHANGED <<lpl, status, task, msg, polls, verdict, outcome, overtaken>>

(* The first sleep of wait_for_cdb_status lasts CDB_MAX_CAPTURE_TIME: the    *)
(* module has captured the command of this call when it is over.             *)
Sleep(c) ==
    /\ pc[c] = "sleep"
    /\ status' = IF Held /\ task.by = c THEN "busy" ELSE status
    /\ pc' = [pc EXCEPT ![c] = "poll"]
    /\ UNCHANGED <<lpl, task, msg, polls, verdict, outcome, overtaken>>

StatusReads == {status} \cup (IF Lossy \/ Held THEN {"none"} ELSE {})
NotReady(s) == s \in {"busy", "none"}

(* Defects: a poll loop that waits while the module is busy and never counts, *)
(* and one that counts past its bound.                                        *)
ApiPollForever(c) ==
    /\ pc[c] = "poll" /\ c \in ApiClients
    /\ \E s \in StatusReads :
          IF NotReady(s)
          THEN UNCHANGED <<pc, verdict>>
          ELSE /\ verdict' = [verdict EXCEPT ![c] = IF s = "ok" THEN "true" ELSE "false"]
               /\ pc' = [pc EXCEPT ![c] = "idle"]
    /\ UNCHANGED <<lpl, status, task, msg, polls, outcome, overtaken>>
HandlerPollOffByOne(c) ==
    /\ pc[c] = "poll" /\ c \notin ApiClients
    /\ polls' = [polls EXCEPT ![c] = @ + 1]
    /\ \E s \in StatusReads :
          /\ IF NotReady(s) /\ polls[c] < MaxPolls
             THEN UNCHANGED <<pc, verdict>>
             ELSE /\ verdict' = [verdict EXCEPT ![c] = IF s = "ok" THEN "true" ELSE "false"]
                  /\ pc' = [pc EXCEPT ![c] = "idle"]
    /\ UNCHANGED <<lpl, status, task, msg, outcome, overtaken>>

(* cdb1_chkstatus: a missing answer counts as busy; after MAX_WAIT more      *)
(* reads the last status is returned whatever it is, and a missing one makes *)
(* the caller's comparison raise (verdict "unknown").                        *)
ApiPoll(c) ==
    /\ pc[c] = "poll" /\ c \in ApiClients
    /\ \E s \in StatusReads :
          \/ /\ NotReady(s) /\ polls[c] < MaxPolls
             /\ polls' = [polls EXCEPT ![c] = @ + 1]
             /\ UNCHANGED <<pc, verdict>>
          \/ /\ NotReady(s) => polls[c] = MaxPolls
             /\ verdict' = [verdict EXCEPT ![c] =
                   CASE s = "ok" -> "true" [] s = "busy" -> "busy"
                     [] s = "none" -> "unknown" [] OTHER -> "false"]
             /\ pc' = [pc EXCEPT ![c] = "idle"]
             /\ UNCHANGED polls
    /\ UNCHANGED <<lpl, status, task, msg, outcome, overtaken>>

(* wait_for_cdb_status and the end of send_cmd: the delay is added before    *)
(* the read, so an answer seen by the last read comes too late.              *)
HandlerPoll(c) ==
    /\ pc[c] = "poll" /\ c \notin ApiClients
    /\ polls' = [polls EXCEPT ![c] = @ + 1]
    /\ \E s \in StatusReads :
          \/ /\ NotReady(s) /\ polls[c] + 1 < MaxPolls
             /\ UNCHANGED <<pc, verdict>>
          \/ /\ polls[c] + 1 = MaxPolls
             /\ verdict' = [verdict EXCEPT ![c] = "unknown"]
             /\ pc' = [pc EXCEPT ![c] = "idle"]
          \/ /\ ~NotReady(s) /\ polls[c] + 1 < MaxPolls
             /\ verdict' = [verdict EXCEPT ![c] = IF s = "ok" THEN "true" ELSE "false"]
             /\ pc' = [pc EXCEPT ![c] = "idle"]
    /\ UNCHANGED <<lpl, status, task, msg, outcome, overtaken>>

(* The host process dies in the middle of a call. *)
Die(c) ==
    /\ pc[c] # "idle"
    /\ pc' = [pc EXCEPT ![c] = "idle"]
    /\ verdict' = [verdict EXCEPT ![c] = "unknown"]
    /\ UNCHANGED <<lpl, status, task, msg, polls, outcome, overtaken>>

(* The module captures the command, and from then on shows that it is busy. *)
Capture ==
    /\ Held /\ status # "busy"
    /\ status' = "busy"
    /\ UNCHANGED <<lpl, task, pc, msg, polls, verdict, outcome, overtaken>>

(* The module finishes: it refuses a message whose check code is wrong, and  *)
(* may refuse any other.                                                     *)
Finish(res) ==
    /\ Held /\ status = "busy"
    /\ res = "ok" => CheckCodeMatches(task.cmd, task.body)
    /\ status' = res
    /\ task' = None
    /\ outcome' = IF task.by = None THEN outcome
                  ELSE [outcome EXCEPT ![task.by] =
                          [res |-> res,
                           did |-> IF res = "ok" THEN task.body ELSE None]]
    /\ UNCHANGED <<lpl, pc, msg, polls, verdict, overtaken>>

ClientStep(c) ==
    \/ WriteBody(c)
    \/ TriggerAccepted(c)
    \/ TriggerFailed(c)
    \/ Sleep(c)
    \/ ApiPoll(c)
    \/ HandlerPoll(c)

Next ==
    \/ \E c \in Clients : ClientStep(c)
    \/ \E c \in Clients, m \in Msgs : Call(c, m)
    \/ \E c \in Clients : Die(c)
    \/ Capture
    \/ \E res \in {"ok", "fail"} : Finish(res)

Spec == Init /\ [][Next]_vars

(* A client that is running goes on: its loops only sleep and count.  The    *)
(* module owes nothing.                                                      *)
FairSpec == Spec /\ \A c \in Clients : WF_vars(ClientStep(c))

-------------------------------------------------------------------------------
(* However many unlocked clients there are, a CdbCmdHandler whose command    *)
(* was not followed by another's while it waited is told the truth about it: *)
(* True from send_cmd means the module executed a command with that header   *)
(* sum for this very call, False that it refused it (cdb.py:90-117).         *)
HandlerVerdictSound ==
    \A c \in Clients \ (ApiClients \cup overtaken) :
        /\ verdict[c] = "true" => /\ outcome[c].res = "ok"
                                  /\ HeaderSum[outcome[c].did.cmd] = HeaderSum[msg[c].cmd]
        /\ verdict[c] = "false" => outcome[c].res = "fail"

(* Overtaken or not, a CdbCmdHandler is never told the end of a command that *)
(* the module has not got, or is still to work on: neither the status that   *)
(* an earlier command left, nor that of another client's command, reaches it *)
(* before its own has ended (cdb.py:65-79).                                  *)
HandlerToldAfterEnd ==
    \A c \in Clients \ ApiClients :
        verdict[c] \in {"true", "false"} => outcome[c].res \in {"ok", "fail"}

(* Every call returns, even from a module that stays busy or silent for      *)
(* ever: both polling loops are bounded (cmisCDB.py:118-125, cdb.py:66-88).  *)
CallReturns == \A c \in Clients : pc[c] # "idle" ~> pc[c] = "idle"
===============================================================================
