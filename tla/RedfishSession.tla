---------------------------- MODULE RedfishSession ----------------------------
(***************************************************************************)
(* Sessions with the BMC.  Every call of BMCBase logs in, executes Redfish  *)
(* commands with cURL and logs out (with_session_management); a command     *)
(* that times out is executed again, and one that is answered 401 is        *)
(* executed again after a new login (RedfishClient.exec_curl_cmd).  The BMC *)
(* has a table of sessions, may drop any of them at any time, and counts as *)
(* lost every answer that the client does not see.                          *)
(*                                                                          *)
(* A token and its session are one value: the client sets, uses and drops   *)
(* them together.  An exception in a call ends it like an error does, with  *)
(* one logout.                                                              *)
(***************************************************************************)
EXTENDS Naturals, FiniteSets

CONSTANTS
    Sessions,   \* the BMC's table of sessions
    Apis,       \* the calls that are made
    MaxFaults,  \* bound up to which faults are counted; they never end
    None

ASSUME ConstantsAssumption ==
    /\ None \notin Sessions
    /\ Apis \subseteq {"read", "close", "reset", "open"}
    /\ MaxFaults \in Nat

VARIABLES
    alive,     \* the sessions the BMC has
    minLength, \* MinPasswordLength: the "site"'s or that of the "default" password
    password,  \* the root password: the "site"'s or the "default"
    faults,    \* lost answers, refusals, dropped sessions, and calls that close the
               \* client's own session
    session,   \* the client's session, or None
    pc,
    api,       \* the call
    cmd,       \* its command
    target,    \* the session the command is to delete
    tries,     \* how often the command timed out
    reply,     \* the last answer to the command
    ret,       \* what exec_curl_cmd returned
    saved,     \* saved_min_length
    result     \* what the call will return

bmc == <<alive, minLength, password>>
vars == <<bmc, faults, session, pc, api, cmd, target, tries, reply, ret, saved, result>>

Replies == {"ok", "empty", "refused", "401", "timeout", "failed", "none"}
Rets == {"ok", "auth", "timeout", "error", "notLogin"}
Cmds == {"read", "list", "delete", "getMin", "setMin", "change", "restore", "logout"}

MaxRetries == 2

TypeOK ==
    /\ alive \subseteq Sessions
    /\ minLength \in {"site", "default"} /\ password \in {"site", "default"}
    /\ faults \in 0..MaxFaults
    /\ session \in Sessions \cup {None}
    /\ pc \in {"idle", "login", "command", "relogin", "rerun", "return"}
    /\ api \in {"read", "close", "reset", "open"}
    /\ cmd \in Cmds
    /\ target \in Sessions \cup {None}
    /\ tries \in 0..MaxRetries
    /\ reply \in Replies /\ ret \in Rets /\ result \in Rets
    /\ saved \in {"site", "default"}

Init ==
    /\ alive = {} /\ minLength = "site" /\ password = "site" /\ faults = 0
    /\ session = None /\ pc = "idle" /\ api = "read" /\ cmd = "read"
    /\ target = None /\ tries = 0 /\ reply = "none" /\ ret = "ok"
    /\ saved = "site" /\ result = "ok"

Fault == faults' = IF faults < MaxFaults THEN faults + 1 ELSE faults

-------------------------------------------------------------------------------
(* The BMC *)

Patches == {"setMin", "change", "restore"}

(* The default password is shorter than the site's minimum. *)
Allowed(c) ==
    CASE c \in {"delete", "logout"} -> target \in alive
      [] c = "change" -> minLength = "default"
      [] OTHER -> TRUE

Execute(c) ==
    /\ alive' = IF c \in {"delete", "logout"} THEN alive \ {target} ELSE alive
    /\ minLength' = CASE c = "setMin"  -> "default"
                      [] c = "restore" -> saved
                      [] OTHER         -> minLength
    /\ password' = IF c = "change" THEN "default" ELSE password
    /\ saved' = IF c = "getMin" THEN minLength ELSE saved

Ignore == UNCHANGED <<bmc, saved>>

(* A command executed by cURL: reply' is what the client sees.  The BMC may  *)
(* answer success with an empty body (204) to a PATCH; a command whose       *)
(* answer is lost may have been carried out.                                 *)
Curl(c) ==
    \/ session \in alive /\ Allowed(c) /\ Execute(c) /\ UNCHANGED faults
       /\ reply' \in {"ok"} \cup (IF c \in Patches THEN {"empty"} ELSE {})
    \/ session \in alive /\ ~Allowed(c) /\ Ignore /\ UNCHANGED faults /\ reply' = "refused"
    \/ session \notin alive /\ Ignore /\ UNCHANGED faults /\ reply' = "401"
    \/ Fault /\ Ignore /\ reply' \in {"timeout", "failed"}
    \/ Fault /\ Ignore /\ session \in alive /\ reply' = "refused"
    \/ Fault /\ session \in alive /\ c \notin {"getMin", "list"} /\ Allowed(c) /\ Execute(c)
       /\ reply' \in {"timeout", "failed"}

(* The BMC drops a session: it expired, or somebody cleared the table. *)
Drop ==
    /\ Fault
    /\ \E s \in alive : alive' = alive \ {s}
    /\ UNCHANGED <<minLength, password, session, pc, api, cmd, target, tries, reply,
                   ret, saved, result>>

-------------------------------------------------------------------------------
(* The client *)

First(a) == CASE a = "close" -> "list" [] a = "reset" -> "getMin" [] OTHER -> "read"

(* A call; it logs in unless the client has a session already.  The session  *)
(* to close is any that the caller names.                                    *)
Call(a) ==
    /\ pc = "idle"
    /\ api' = a /\ cmd' = First(a) /\ result' = "ok" /\ tries' = 0
    /\ target' \in IF a = "close" THEN Sessions ELSE {None}
    /\ pc' = IF session = None THEN "login" ELSE IF a = "open" THEN "idle" ELSE "command"
    /\ IF a = "close" /\ target' = session THEN Fault ELSE UNCHANGED faults
    /\ UNCHANGED <<bmc, session, reply, ret, saved>>

(* The BMC makes a session under an identifier that is not in use.           *)
FreeSessions == Sessions \ (alive \cup {target})
MakeSession == \E s \in FreeSessions : alive' = alive \cup {s}

LoginStep ==
    /\ pc \in {"login", "relogin"}
    /\ UNCHANGED <<minLength, password, api, cmd, target, reply, saved>>

LoginGranted ==
    /\ LoginStep
    /\ \E s \in FreeSessions : session' = s /\ alive' = alive \cup {s}
    /\ pc' = IF pc = "relogin" THEN "rerun" ELSE IF api = "open" THEN "idle" ELSE "command"
    /\ tries' = 0
    /\ UNCHANGED <<faults, ret, result>>

LoginTimesOut ==
    /\ LoginStep
    /\ Fault
    /\ tries < MaxRetries
    /\ alive' = alive \/ MakeSession
    /\ tries' = tries + 1
    /\ UNCHANGED <<session, pc, ret, result>>

(* The BMC refuses, its table is full, there is no password, or the answer   *)
(* is lost for good.  _login's caller goes on without a session.             *)
LoginFails ==
    /\ LoginStep
    /\ \/ FreeSessions = {} /\ alive' = alive /\ UNCHANGED faults
       \/ Fault /\ (alive' = alive \/ MakeSession)
    /\ pc' = IF pc = "relogin" THEN "return" ELSE IF api = "open" THEN "idle" ELSE "command"
    /\ ret' \in {"auth", "error"} \cup (IF tries = MaxRetries THEN {"timeout"} ELSE {})
    /\ result' = IF pc = "login" /\ api = "open" THEN "notLogin" ELSE result
    /\ tries' = 0
    /\ UNCHANGED session

CommandStep == UNCHANGED <<api, cmd, target, result>>

NotLogin ==
    /\ pc = "command"
    /\ session = None
    /\ reply' = "none" /\ ret' = "notLogin" /\ pc' = "return" /\ tries' = 0
    /\ CommandStep
    /\ UNCHANGED <<bmc, faults, session, saved>>

(* Defect: one retry too many. *)
TimesOutOffByOne ==
    /\ pc = "command"
    /\ session # None
    /\ tries <= MaxRetries
    /\ Curl(cmd)
    /\ reply' = "timeout"
    /\ tries' = tries + 1
    /\ CommandStep
    /\ UNCHANGED <<session, pc, ret>>

(* The first attempt and MaxRetries more. *)
TimesOut ==
    /\ pc = "command"
    /\ session # None
    /\ tries < MaxRetries
    /\ Curl(cmd)
    /\ reply' = "timeout"
    /\ tries' = tries + 1
    /\ CommandStep
    /\ UNCHANGED <<session, pc, ret>>

(* Any answer is a success of cURL, also one that is an error of the BMC's.   *)
Code(r) ==
    CASE r \in {"ok", "empty", "refused"} -> "ok"
      [] r = "timeout" -> "timeout"
      [] OTHER -> "error"

Answered ==
    /\ pc = "command"
    /\ session # None
    /\ Curl(cmd)
    /\ reply' # "401"
    /\ reply' = "timeout" => tries = MaxRetries
    /\ ret' = Code(reply')
    /\ pc' = "return" /\ tries' = 0
    /\ CommandStep
    /\ UNCHANGED session

Unauthorized ==
    /\ pc = "command"
    /\ session # None
    /\ Curl(cmd)
    /\ reply' = "401"
    /\ session' = None
    /\ pc' = "relogin" /\ tries' = 0
    /\ CommandStep
    /\ UNCHANGED ret

(* Defect: a command that is refused after the new login starts over. *)
RerunAgain ==
    /\ pc = "rerun"
    /\ Curl(cmd)
    /\ session' = IF reply' = "401" THEN None ELSE session
    /\ ret' = "auth"
    /\ pc' = IF reply' = "401" THEN "relogin" ELSE "return"
    /\ CommandStep
    /\ UNCHANGED tries

(* The command after the new login: whatever comes of it, an authentication  *)
(* failure is returned, with the HTTP status of the answer.                  *)
Rerun ==
    /\ pc = "rerun"
    /\ Curl(cmd)
    /\ session' = IF reply' = "401" THEN None ELSE session
    /\ ret' = "auth"
    /\ pc' = "return"
    /\ CommandStep
    /\ UNCHANGED tries

-------------------------------------------------------------------------------
(* The calls: what follows on a command *)

(* What a call makes of it that looks for an error in the answer; some calls *)
(* that read do not.                                                         *)
Checked == IF ret = "ok" /\ reply = "refused" THEN "error" ELSE ret

(* Both PATCHes look at the status 204 before they look at ret. *)
Success == reply = "empty" \/ Checked = "ok"

Continue(c) ==
    /\ cmd' = c /\ pc' = "command"
    /\ UNCHANGED <<bmc, faults, session, api, target, tries, reply, ret, saved>>

(* Defect: the session is dropped without telling the BMC when a call failed. *)
FinishQuietly(r) ==
    /\ result' = r
    /\ IF session = None \/ r # "ok"
       THEN pc' = "idle" /\ session' = None /\ UNCHANGED <<cmd, target>>
       ELSE pc' = "command" /\ cmd' = "logout" /\ target' = session /\ UNCHANGED session
    /\ UNCHANGED <<bmc, faults, api, tries, reply, ret, saved>>

(* Defect: a call that fails does not log out. *)
FinishLoggedIn(r) ==
    /\ result' = r
    /\ IF session = None \/ r # "ok"
       THEN pc' = "idle" /\ UNCHANGED <<cmd, target>>
       ELSE pc' = "command" /\ cmd' = "logout" /\ target' = session
    /\ UNCHANGED <<bmc, faults, session, api, tries, reply, ret, saved>>

(* The call's result is known: with_session_management logs out. *)
Finish(r) ==
    /\ result' = r
    /\ IF session = None
       THEN pc' = "idle" /\ UNCHANGED <<cmd, target>>
       ELSE pc' = "command" /\ cmd' = "logout" /\ target' = session
    /\ UNCHANGED <<bmc, faults, session, api, tries, reply, ret, saved>>

Returned(c) == pc = "return" /\ cmd = c

(* A refusal without the member asked for may be taken for an empty answer.  *)
ReadReturns ==
    /\ Returned("read")
    /\ \E r \in {ret, Checked} : Finish(r)

(* close_session takes a refused list for one without the session.           *)
ListReturns ==
    /\ Returned("list")
    /\ IF ret = "ok" /\ reply = "ok" /\ target \in alive
       THEN Continue("delete") /\ UNCHANGED result
       ELSE \E r \in {ret, Checked} : Finish(r)

DeleteReturns == Returned("delete") /\ Finish(Checked)

(* reset_root_password; there may be no default password. *)
GetMinReturns ==
    /\ Returned("getMin")
    /\ \/ Checked = "ok" /\ Continue("setMin") /\ UNCHANGED result
       \/ Checked = "ok" /\ Finish("error")
       \/ Checked # "ok" /\ Finish(Checked)

SetMinReturns ==
    /\ Returned("setMin")
    /\ IF Success THEN Continue("change") /\ UNCHANGED result ELSE Finish(Checked)

ChangeReturns ==
    /\ Returned("change")
    /\ Continue("restore")
    /\ result' = IF Success THEN "ok" ELSE Checked

(* Defect: the restoration is not looked at. *)
RestoreIgnored == Returned("restore") /\ Finish(result)

RestoreReturns ==
    /\ Returned("restore")
    /\ Finish(IF result # "ok" \/ Success THEN result ELSE Checked)

LogoutReturns ==
    /\ Returned("logout")
    /\ session' = None /\ pc' = "idle"
    /\ UNCHANGED <<bmc, faults, api, cmd, target, tries, reply, ret, saved, result>>

ClientStep ==
    \/ LoginGranted \/ LoginTimesOut \/ LoginFails
    \/ NotLogin \/ TimesOut \/ Answered \/ Unauthorized \/ Rerun
    \/ ReadReturns \/ ListReturns \/ DeleteReturns
    \/ GetMinReturns \/ SetMinReturns \/ ChangeReturns \/ RestoreReturns
    \/ LogoutReturns

Next == (\E a \in Apis : Call(a)) \/ ClientStep \/ Drop

Spec == Init /\ [][Next]_vars

(* cURL ends every command, and the client goes on. *)
FairSpec == Spec /\ WF_vars(ClientStep)

-------------------------------------------------------------------------------
(* A wrapped call leaves the client without a session, whatever happened     *)
(* (bmc_base.py:29-49).                                                      *)
LoggedOutWhenDone == pc = "idle" /\ api # "open" => session = None

(* Each fault costs the BMC at most one entry of its table: nothing else     *)
(* leaves a session behind (redfish_client.py:865-920, 1091-1106).  A client *)
(* that closes the session it holds itself is such a fault: it deletes the   *)
(* session by name and logs in again to log out.                             *)
SessionsAccounted == faults < MaxFaults => Cardinality(alive \ {session}) <= faults

(* reset_root_password returns success only for a root password that was set *)
(* and a minimum length that was restored (bmc_base.py:443-491).             *)
ResetOkMeansReset ==
    pc = "idle" /\ api = "reset" /\ result = "ok" => password = "default" /\ minLength = saved
===============================================================================
