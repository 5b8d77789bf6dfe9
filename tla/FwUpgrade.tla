------------------------------- MODULE FwUpgrade -------------------------------
(***************************************************************************)
(* Firmware upgrade of a CMIS module: module_fw_download, module_fw_run,   *)
(* module_fw_commit, module_fw_switch and module_fw_upgrade of CmisApi,    *)
(* over the CDB commands of CmisCdbApi.                                    *)
(*                                                                         *)
(* A step of the host is one CDB command: write_cdb followed by            *)
(* cdb1_chkstatus.  The module (external) has two firmware banks and       *)
(* executes, refuses or is slow over each command.  A slow command leaves  *)
(* it busy: the host gives up, goes on with its next command, and the      *)
(* write of that one is lost, because write_cdb does not look at its       *)
(* results; the status then read may be that of the slow command.          *)
(* CdbChannel shows the same page at the level of single accesses.         *)
(***************************************************************************)
EXTENDS Integers

CONSTANTS
    ImageSize, \* bytes of the image file
    StartSize, \* bytes of it that travel with the start command
    BlockSize, \* bytes in a block: 116 (LPL) or what the module advertises
    MaxResets, \* bound on the resets of the module in a behaviour
    Slow,      \* can a command take the module longer than the host polls?
    Lossy      \* can the write of a command fail although the module is idle?

ASSUME SizesAssumption == /\ ImageSize \in Nat
                          /\ StartSize \in Nat
                          /\ BlockSize \in Nat \ {0}
ASSUME EnvironmentAssumption == MaxResets \in Nat /\ {Slow, Lossy} \subseteq BOOLEAN

VARIABLES
    mod,       \* the module, a record of ModuleState
    pc,        \* where the host is: the command it sends next, or "idle"
    call,      \* the function that was called
    ret,       \* what it returned: "none" while it runs
    addr,      \* address and
    remaining, \* remaining of module_fw_download
    before,    \* the bank that ran when module_fw_switch started
    sent,      \* history: the commands sent in this call
    done,      \* history: those the module executed when they were sent
    fresh,     \* history: the bank validated last in this call
    resets     \* resets of the module so far

vars == <<mod, pc, call, ret, addr, remaining, before, sent, done, fresh, resets>>

Banks == {"A", "B"}
Other(b) == IF b = "A" THEN "B" ELSE "A"

(* The bytes that travel in blocks; none when the header is the whole file. *)
Total == ImageSize - StartSize

Calls == {"upgrade", "download", "switch", "run", "commit"}
Ops == {"info", "feature", "start", "block", "complete", "abort", "run", "commit", "password"}
Command == [op : Ops \cup {"none"}, at : Nat, len : Nat]
Cmd(op) == [op |-> op, at |-> 0, len |-> 0]
NoTask == Cmd("none")

ModuleState ==
    [running   : Banks,          \* the bank that runs,
     committed : Banks,          \* the bank that a reset starts,
     valid     : SUBSET Banks,   \* the banks with a complete image
     dl        : BOOLEAN,        \* a download is open into the other bank,
     got       : Nat,            \* and has the image up to this offset
     st        : {"ok", "fail", "pwd"}, \* the CDB status byte when idle
     task      : Command]        \* the command it is busy with, or NoTask

HostStates == {"idle", "info", "feature", "start", "pwdStart", "restart", "abort", "block",
               "complete", "swinfo", "run", "pwdRun", "rerun", "commit", "pwdCommit",
               "recommit", "swcheck"}

TypeOK ==
    /\ mod \in ModuleState
    /\ pc \in HostStates
    /\ call \in Calls
    /\ ret \in {"none", "true", "false", "exc"}
    /\ addr \in Nat
    /\ remaining \in Int
    /\ before \in Banks
    /\ sent \in SUBSET Ops
    /\ done \in SUBSET Ops
    /\ fresh \in Banks \cup {"none"}
    /\ resets \in 0..MaxResets

Init ==
    /\ \E b \in Banks, v \in SUBSET Banks :
          /\ b \in v
          /\ mod = [running |-> b, committed |-> b, valid |-> v, dl |-> FALSE, got |-> 0,
                    st |-> "fail", task |-> NoTask]
          /\ before = b
    /\ pc = "idle"
    /\ call = "upgrade"
    /\ ret = "none"
    /\ addr = 0
    /\ remaining = 0
    /\ sent = {}
    /\ done = {}
    /\ fresh = "none"
    /\ resets = 0

-------------------------------------------------------------------------------
(* The module.  It does not run an image it has not validated because it is  *)
(* told to: it trusts the host, so that the host's own checks are tested.    *)

Accepts(m, c) ==
    /\ c.op = "block" => m.dl
    /\ c.op = "complete" => m.dl /\ m.got >= Total

(* A block extends the stored prefix unless it leaves a hole. *)
Extended(m, c) == IF c.at <= m.got /\ m.got < c.at + c.len THEN c.at + c.len ELSE m.got

Effect(m, c) ==
    IF c.op = "start"
    THEN [m EXCEPT !.dl = TRUE, !.got = 0, !.valid = @ \ {Other(m.running)}]
    ELSE IF c.op = "block" THEN [m EXCEPT !.got = Extended(m, c)]
    ELSE IF c.op = "complete"
    THEN [m EXCEPT !.dl = FALSE, !.valid = @ \cup {Other(m.running)}]
    ELSE IF c.op = "abort" THEN [m EXCEPT !.dl = FALSE]
    ELSE IF c.op = "run" THEN [m EXCEPT !.running = Other(@), !.dl = FALSE]
    ELSE IF c.op = "commit" THEN [m EXCEPT !.committed = m.running]
    ELSE m

(* It executes a command, or refuses it: for a password or another reason.   *)
Executed(m, c) == [Effect(m, c) EXCEPT !.st = "ok", !.task = NoTask]
Refusals(m) == {[m EXCEPT !.st = s, !.task = NoTask] : s \in {"fail", "pwd"}}
Endings(m, c) == (IF Accepts(m, c) THEN {Executed(m, c)} ELSE {}) \cup Refusals(m)

(* What the host may see of one command: the module afterwards, the status   *)
(* cdb1_chkstatus returns ("exc" when the byte cannot be read, which makes   *)
(* the comparison after it raise), and the command executed for it, if any.  *)
Answer(m, s, did) == [mod |-> m, ret |-> s, did |-> did]

IdleReplies(m, c) ==
       (IF Accepts(m, c) THEN {Answer(Executed(m, c), "ok", {c.op})} ELSE {})
  \cup {Answer(n, n.st, {}) : n \in Refusals(m)}
  \cup (IF Slow THEN {Answer([m EXCEPT !.task = c], s, {}) : s \in {"busy", "exc"}} ELSE {})
  \cup (IF Lossy THEN {Answer(m, m.st, {})} ELSE {})

(* The write is lost; the module is busy to the end, or ends its task while  *)
(* the host polls, and the host takes that status for its own command's.     *)
BusyReplies(m) ==
       {Answer(m, s, {}) : s \in {"busy", "exc"}}
  \cup {Answer(n, n.st, {}) : n \in Endings(m, m.task)}

Replies(c) == IF mod.task = NoTask THEN IdleReplies(mod, c) ELSE BusyReplies(mod)

-------------------------------------------------------------------------------
(* Parts of the host's steps. *)

Goto(p) == pc' = p /\ ret' = ret
Return(v) == pc' = "idle" /\ ret' = v

Receive(c, r) ==
    /\ mod' = r.mod
    /\ sent' = sent \cup {c.op}
    /\ done' = done \cup r.did

(* module_fw_download returns: module_fw_upgrade goes on to the switch when  *)
(* it was successful.                                                        *)
DownloadReturns(v) ==
    IF v = "true" /\ call = "upgrade" THEN Goto("swinfo") ELSE Return(v)

(* module_fw_run and module_fw_commit return: module_fw_switch ignores what. *)
RunReturns(v) == IF call = "run" THEN Return(v) ELSE Goto("commit")
CommitReturns(v) == IF call = "commit" THEN Return(v) ELSE Goto("swcheck")

NotOk == {"fail", "busy"}
Failures == {"fail", "pwd", "busy"}
Local == <<call, addr, remaining, before, fresh, resets>>

(* get_module_fw_info: the handler checks its writes, so that an answer is   *)
(* this command's; when the module is busy or refuses, with the retry after  *)
(* a password, there is none.                                                *)
InfoSeen ==
    /\ mod.task = NoTask
    /\ mod' = Executed(mod, Cmd("info"))
InfoFailed ==
    \/ mod.task = NoTask /\ mod' \in Refusals(mod) \cup {mod}
    \/ mod.task = NoTask /\ Slow /\ mod' = [mod EXCEPT !.task = Cmd("info")]
    \/ mod.task # NoTask /\ mod' \in {mod} \cup Endings(mod, mod.task)

-------------------------------------------------------------------------------
(* The host enters one of the five functions. *)
Enter(f) ==
    /\ pc = "idle"
    /\ call' = f
    /\ ret' = "none"
    /\ \/ f = "upgrade"  /\ pc' = "info"
       \/ f = "download" /\ pc' = "start"
       \/ f = "switch"   /\ pc' = "swinfo"
       \/ f \in {"run", "commit"} /\ pc' = f
    /\ sent' = {}
    /\ done' = {}
    /\ fresh' = "none"
    /\ UNCHANGED <<mod, addr, remaining, before, resets>>

(* module_fw_upgrade reads the versions first, *)
Info ==
    /\ pc = "info"
    /\ \/ InfoSeen /\ Goto("feature")
       \/ InfoFailed /\ Return("false")
    /\ UNCHANGED <<Local, sent, done>>

(* then the features; a field that cannot be read raises. *)
Feature ==
    /\ pc = "feature"
    /\ \E r \in Replies(Cmd("feature")) :
          /\ Receive(Cmd("feature"), r)
          /\ \/ r.ret = "ok" /\ Goto("start")
             \/ r.ret # "exc" /\ Return("false")
             \/ Return("exc")
    /\ UNCHANGED Local

(* The file of module_fw_download is not there. *)
NoFile ==
    /\ pc = "start"
    /\ DownloadReturns("false")
    /\ UNCHANGED <<Local, mod, sent, done>>

(* The loop of module_fw_download is entered with the whole image to send.   *)
EnterLoop ==
    /\ addr' = 0
    /\ remaining' = Total
    /\ Goto(IF Total > 0 THEN "block" ELSE "complete")

Stay == UNCHANGED <<addr, remaining>>

Start ==
    /\ pc = "start"
    /\ \E r \in Replies(Cmd("start")) :
          /\ Receive(Cmd("start"), r)
          /\ \/ r.ret = "ok" /\ EnterLoop
             \/ r.ret = "pwd" /\ Goto("pwdStart") /\ Stay
             \/ r.ret \in NotOk /\ Goto("abort") /\ Stay
             \/ r.ret = "exc" /\ Return("exc") /\ Stay
    /\ UNCHANGED <<call, before, fresh, resets>>

(* module_enter_password: its status is not looked at. *)
Password(from, to) ==
    /\ pc = from
    /\ \E r \in Replies(Cmd("password")) :
          /\ Receive(Cmd("password"), r)
          /\ \/ r.ret # "exc" /\ Goto(to)
             \/ r.ret = "exc" /\ Return("exc")
    /\ UNCHANGED Local

(* The second start: neither is its status. *)
Restart ==
    /\ pc = "restart"
    /\ \E r \in Replies(Cmd("start")) :
          /\ Receive(Cmd("start"), r)
          /\ \/ r.ret # "exc" /\ EnterLoop
             \/ r.ret = "exc" /\ Return("exc") /\ Stay
    /\ UNCHANGED <<call, before, fresh, resets>>

Abort ==
    /\ pc = "abort"
    /\ \E r \in Replies(Cmd("abort")) :
          /\ Receive(Cmd("abort"), r)
          /\ \/ r.ret # "exc" /\ DownloadReturns("false")
             \/ r.ret = "exc" /\ DownloadReturns("exc")
    /\ UNCHANGED Local

(* Defects: the last block is counted as a full one; what is left of a block *)
(* is computed the wrong way round.                                          *)
CountWhole(left) == BlockSize
CountSwapped(left) == BlockSize - left

(* The length of the next block. *)
Count(left) == IF left < BlockSize THEN left ELSE BlockSize

(* Defect: a block that fails is sent again, without a bound. *)
BlockRetried ==
    /\ pc = "block"
    /\ LET c == [op |-> "block", at |-> addr, len |-> Count(remaining)] IN
       \E r \in Replies(c) :
          /\ Receive(c, r)
          /\ \/ /\ r.ret = "ok"
                /\ addr' = addr + Count(remaining)
                /\ remaining' = remaining - Count(remaining)
                /\ Goto(IF remaining' > 0 THEN "block" ELSE "complete")
             \/ r.ret # "ok" /\ Goto("block") /\ Stay
    /\ UNCHANGED <<call, before, fresh, resets>>

Block ==
    /\ pc = "block"
    /\ LET c == [op |-> "block", at |-> addr, len |-> Count(remaining)] IN
       \E r \in Replies(c) :
          /\ Receive(c, r)
          /\ \/ /\ r.ret = "ok"
                /\ addr' = addr + Count(remaining)
                /\ remaining' = remaining - Count(remaining)
                /\ Goto(IF remaining' > 0 THEN "block" ELSE "complete")
             \/ r.ret \in Failures /\ Goto("abort") /\ Stay
             \/ r.ret = "exc" /\ Return("exc") /\ Stay
    /\ UNCHANGED <<call, before, fresh, resets>>

(* Defect: any answer to the complete command that is not busy is success. *)
CompleteUnlessBusy ==
    /\ pc = "complete"
    /\ \E r \in Replies(Cmd("complete")) :
          /\ Receive(Cmd("complete"), r)
          /\ \/ r.ret \notin {"busy", "exc"} /\ DownloadReturns("true")
             \/ r.ret = "busy" /\ DownloadReturns("false")
             \/ r.ret = "exc" /\ DownloadReturns("exc")
          /\ fresh' = IF r.did = {} THEN fresh ELSE Other(mod.running)
    /\ UNCHANGED <<call, addr, remaining, before, resets>>

(* validate_fw_image; a failure is returned without an abort. *)
Complete ==
    /\ pc = "complete"
    /\ \E r \in Replies(Cmd("complete")) :
          /\ Receive(Cmd("complete"), r)
          /\ \/ r.ret = "ok" /\ DownloadReturns("true")
             \/ r.ret \in Failures /\ DownloadReturns("false")
             \/ r.ret = "exc" /\ DownloadReturns("exc")
          /\ fresh' = IF r.did = {} THEN fresh ELSE Other(mod.running)
    /\ UNCHANGED <<call, addr, remaining, before, resets>>

(* Defect: module_fw_switch asks for one valid image instead of both. *)
SwitchInfoOneValid ==
    /\ pc = "swinfo"
    /\ \/ /\ InfoSeen
          /\ \/ mod.valid # {} /\ Goto("run")
             \/ mod.valid = {} /\ Return("false")
          /\ before' = mod.running
       \/ InfoFailed /\ Return("false") /\ UNCHANGED before
    /\ UNCHANGED <<call, addr, remaining, fresh, resets, sent, done>>

(* module_fw_switch: both images must be valid. *)
SwitchInfo ==
    /\ pc = "swinfo"
    /\ \/ /\ InfoSeen
          /\ \/ mod.valid = Banks /\ Goto("run")
             \/ mod.valid # Banks /\ Return("false")
          /\ before' = mod.running
       \/ InfoFailed /\ Return("false") /\ UNCHANGED before
    /\ UNCHANGED <<call, addr, remaining, fresh, resets, sent, done>>

(* module_fw_run: after a password the second status is not looked at. *)
Run ==
    /\ pc = "run"
    /\ \E r \in Replies(Cmd("run")) :
          /\ Receive(Cmd("run"), r)
          /\ \/ r.ret = "ok" /\ RunReturns("true")
             \/ r.ret = "pwd" /\ Goto("pwdRun")
             \/ r.ret \in NotOk /\ RunReturns("false")
             \/ r.ret = "exc" /\ Return("exc")
    /\ UNCHANGED Local

Rerun ==
    /\ pc = "rerun"
    /\ \E r \in Replies(Cmd("run")) :
          /\ Receive(Cmd("run"), r)
          /\ \/ r.ret # "exc" /\ RunReturns("true")
             \/ r.ret = "exc" /\ Return("exc")
    /\ UNCHANGED Local

(* module_fw_commit: the same. *)
Commit ==
    /\ pc = "commit"
    /\ \E r \in Replies(Cmd("commit")) :
          /\ Receive(Cmd("commit"), r)
          /\ \/ r.ret = "ok" /\ CommitReturns("true")
             \/ r.ret = "pwd" /\ Goto("pwdCommit")
             \/ r.ret \in NotOk /\ CommitReturns("false")
             \/ r.ret = "exc" /\ Return("exc")
    /\ UNCHANGED Local

Recommit ==
    /\ pc = "recommit"
    /\ \E r \in Replies(Cmd("commit")) :
          /\ Receive(Cmd("commit"), r)
          /\ \/ r.ret # "exc" /\ CommitReturns("true")
             \/ r.ret = "exc" /\ Return("exc")
    /\ UNCHANGED Local

(* Defect: the banks before and after the switch are not compared. *)
SwitchCheckNothing ==
    /\ pc = "swcheck"
    /\ \/ InfoSeen /\ Return("true")
       \/ InfoFailed /\ Return("exc")
    /\ UNCHANGED <<Local, sent, done>>

(* The end of module_fw_switch: a missing answer raises; the switch happened *)
(* when the bank that ran before does not run any more.                      *)
SwitchCheck ==
    /\ pc = "swcheck"
    /\ \/ InfoSeen /\ Return(IF mod.running = before THEN "false" ELSE "true")
       \/ InfoFailed /\ Return("exc")
    /\ UNCHANGED <<Local, sent, done>>

HostStep ==
    \/ Info
    \/ Feature
    \/ NoFile
    \/ Start
    \/ Password("pwdStart", "restart")
    \/ Restart
    \/ Abort
    \/ Block
    \/ Complete
    \/ SwitchInfo
    \/ Run
    \/ Password("pwdRun", "rerun")
    \/ Rerun
    \/ Commit
    \/ Password("pwdCommit", "recommit")
    \/ Recommit
    \/ SwitchCheck

-------------------------------------------------------------------------------
(* The environment: the host process dies, the module ends a slow command,   *)
(* the module is reset (or loses power) and starts its committed image.      *)
HostDies ==
    /\ pc # "idle"
    /\ Return("none")
    /\ UNCHANGED <<Local, mod, sent, done>>

ModuleEnds ==
    /\ mod.task # NoTask
    /\ mod' \in Endings(mod, mod.task)
    /\ UNCHANGED <<Local, pc, ret, sent, done>>

ModuleReset ==
    /\ resets < MaxResets
    /\ resets' = resets + 1
    /\ mod' = [mod EXCEPT !.running = mod.committed, !.dl = FALSE, !.st = "fail",
                          !.task = NoTask]
    /\ UNCHANGED <<pc, call, ret, addr, remaining, before, sent, done, fresh>>

Next ==
    \/ \E f \in Calls : Enter(f)
    \/ HostStep
    \/ HostDies
    \/ ModuleEnds
    \/ ModuleReset

Spec == Init /\ [][Next]_vars

(* A running host goes on: every wait of these functions is a bounded sleep  *)
(* or a bounded number of polls.  Nothing is asked of the module.            *)
FairSpec == Spec /\ WF_vars(HostStep)

-------------------------------------------------------------------------------
(* When the whole image is sent, the blocks were the bytes after the header, *)
(* each exactly once: address and remaining account for all of them          *)
(* (cmis.py:2154-2183).                                                      *)
BlocksCoverImage ==
    /\ pc \in {"block", "complete"} => addr + remaining = Total
    /\ pc = "block" => remaining > 0
    /\ pc = "complete" /\ Total > 0 => remaining = 0

(* While module_fw_switch is under way, whatever bank the module changes to  *)
(* holds a valid image: between the check of both images and the last look,  *)
(* through failures, password retries, a run command that executes late and  *)
(* resets, no bank loses its image (cmis.py:2237-2277).                      *)
Switching == {"run", "pwdRun", "rerun", "commit", "pwdCommit", "recommit", "swcheck"}
NeverRunsInvalidImage ==
    [][(call \in {"upgrade", "switch"} /\ pc \in Switching /\ mod'.running # mod.running)
          => mod'.running \in mod'.valid]_vars

(* module_fw_download says True only when the module validated an image that *)
(* it had received completely (cmis.py:2093-2200).                           *)
DownloadTrueMeansComplete ==
    /\ pc = "swinfo" /\ call = "upgrade" => "complete" \in done
    /\ call = "download" /\ ret = "true" => "complete" \in done

(* When no reset comes between, an upgrade that returns True leaves the      *)
(* module running the image that this very call downloaded, although         *)
(* module_fw_switch ignores what run and commit return (cmis.py:2226-2235,   *)
(* 2253-2270).                                                               *)
UpgradeTrueMeansNewImageRunning ==
    [][call = "upgrade" /\ ret = "none" /\ ret' = "true" /\ resets' = 0
          => mod.running = fresh]_vars
===============================================================================
